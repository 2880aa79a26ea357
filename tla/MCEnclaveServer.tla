-------------------------- MODULE MCEnclaveServer --------------------------
(* Instances of EnclaveServer: short messages around a limit of eight      *)
(* bytes.                                                                  *)
EXTENDS EnclaveServer

MaxRequest == 8

TooLongWithBrace == {12}

Framed(claims, body) ==
    [framed |-> TRUE, claims |-> claims, length |-> HEADER_SIZE + body,
     json_end |-> 0, braces |-> {}, utf8 |-> TRUE]

Raw(length, end, inner) ==
    [framed |-> FALSE, claims |-> 0, length |-> length, json_end |-> end,
     braces |-> inner, utf8 |-> TRUE]

\* Announced lengths at and around the limits, with a body that is too
\* short, exact or followed by more; bytes that are not UTF-8.
FramedMessages ==
    {Framed(claims, body) : claims \in {0, 1, 3, 8, 9, 12}, body \in {0, 1, 3, 8, 10}}

\* JSON texts with inner braces, up to and above the limit.
RawMessages ==
    {Raw(n, n, {b \in inner : b < n}) :
        n \in {5, 7, 8, 9, 11}, inner \in {{}, {4}, {3, 5, 6}}}

NotUtf8 == {[m EXCEPT !.utf8 = FALSE] : m \in {Framed(3, 3), Raw(7, 7, {5})}}

\* Raw JSON followed by white space, and texts that fit in four bytes.
Padded == {Raw(8, 6, {}), Raw(7, 6, {}), Raw(4, 4, {}), Raw(2, 2, {})}

AllTexts == FramedMessages \cup RawMessages \cup NotUtf8 \cup Padded
=============================================================================
