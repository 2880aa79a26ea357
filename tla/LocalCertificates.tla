------------------------- MODULE LocalCertificates -------------------------
(***************************************************************************)
(* LocalCA with time: the leaf certificate of a hierarchy is valid for six *)
(* hours from its generation, and _ensure_local_ca loads it without        *)
(* looking at not_valid_after.  Nothing in the code issues another leaf.   *)
(* The intermediate and root certificates (5 and 10 years) do not expire   *)
(* here.                                                                   *)
(***************************************************************************)
EXTENDS LocalCA

CONSTANTS LeafLifetime,  \* six hours
          MaxNow         \* bound: hours that pass

VARIABLES now,     \* the wall clock, in hours
          born,    \* not_valid_before of each hierarchy's certificates
          issued   \* history: each document with the time it was signed

certVars == <<now, born, issued>>

CertInit ==
    /\ CAInit
    /\ now = 0
    /\ born = [h \in 1 .. MaxHierarchies |-> 0]
    /\ issued = {}

\* A request takes far less than an hour: time passes between requests.
HourPasses ==
    /\ now < MaxNow
    /\ \A t \in Threads : pc[t] = "idle"
    /\ now' = now + 1
    /\ UNCHANGED <<caVars, born, issued>>

\* A hierarchy that is generated in this step gets this hour.
GenerateAt(t) ==
    /\ EnsureGenerates(t)
    /\ born' = [born EXCEPT ![made'] = now]
    /\ UNCHANGED <<now, issued>>

\* The document carries the time in its field timestamp.
SignAt(t) ==
    /\ SignDocument(t)
    /\ issued' = issued \cup {[document |-> Document(ca[t]), timestamp |-> now]}
    /\ UNCHANGED <<now, born>>

OtherStep ==
    /\ \/ Crash
       \/ \E t \in Threads : \/ EnsureLoads(t) \/ LoadFile(t) \/ LoadFails(t)
                             \/ OpenForWrite(t) \/ FillFile(t) \/ WriteFails(t)
    /\ UNCHANGED certVars

CertNext ==
    \/ HourPasses
    \/ \E t \in Threads : GenerateAt(t) \/ SignAt(t)
    \/ OtherStep

CertSpec == CertInit /\ [][CertNext]_<<caVars, certVars>>

\* A document's leaf certificate is valid at the document's timestamp, as a check of
\* the certificate chain demands.  local_attestation_service.py:8 says that the
\* documents "pass all syntactical validation and signature verification".
CertificateCurrent ==
    \A d \in issued :
        LET from == born[d.document.certificate] IN
        d.timestamp \in from .. from + LeafLifetime
=============================================================================
