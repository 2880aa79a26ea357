--------------------------- MODULE MCOutputFiles ---------------------------
(* Instances of OutputFiles.                                               *)
EXTENDS OutputFiles

\* The files outputs/1 and outputs/4 (a name the rule refuses), the
\* directory outputs/2 and the file outputs/2/3; each may be of any kind.
TreeNodes == {1, 2, 3, 4}
TreeParent == [n \in TreeNodes |-> IF n = 3 THEN 2 ELSE 0]
=============================================================================
