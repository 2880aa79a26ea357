----------------------------- MODULE KeyCustody -----------------------------
(***************************************************************************)
(* What the enclave promises about private keys, without sessions, threads *)
(* of control, clocks or locks.  A key pair is generated once, held, and   *)
(* erased once.  An execution can use a key only while the enclave holds   *)
(* it, and the result of an execution leaves the enclave only when every   *)
(* key that opened its inputs is erased; from then on no execution can     *)
(* open anything with those keys.                                          *)
(***************************************************************************)
EXTENDS Naturals

CONSTANTS Keys,       \* key pairs
          Executors   \* what executes requests

VARIABLES custody,    \* per key: "unborn", "held" or "erased"
          opened,     \* per executor, the keys that opened its current inputs
          published   \* keys that opened the inputs of a result that was sent

custodyVars == <<custody, opened, published>>

CustodyInit ==
    /\ custody = [k \in Keys |-> "unborn"]
    /\ opened = [x \in Executors |-> {}]
    /\ published = {}

Generate(k) ==
    /\ custody[k] = "unborn"
    /\ custody' = [custody EXCEPT ![k] = "held"]
    /\ UNCHANGED <<opened, published>>

\* Expiry, replacement or the end of an execution: held keys are dropped.
Erase(S) ==
    /\ \A k \in S : custody[k] = "held"
    /\ custody' = [k \in Keys |-> IF k \in S THEN "erased" ELSE custody[k]]
    /\ UNCHANGED <<opened, published>>

Open(x, k) ==
    /\ custody[k] = "held"
    /\ opened' = [opened EXCEPT ![x] = @ \cup {k}]
    /\ UNCHANGED <<custody, published>>

\* An execution ends without a result.
Abandon(x) ==
    /\ opened' = [opened EXCEPT ![x] = {}]
    /\ UNCHANGED <<custody, published>>

Publish(x) ==
    /\ \A k \in opened[x] : custody[k] = "erased"
    /\ published' = published \cup opened[x]
    /\ opened' = [opened EXCEPT ![x] = {}]
    /\ UNCHANGED custody

CustodyNext ==
    \/ \E k \in Keys : Generate(k)
    \/ \E S \in SUBSET Keys : Erase(S)
    \/ \E x \in Executors : \/ \E k \in Keys : Open(x, k)
                            \/ Abandon(x)
                            \/ Publish(x)

CustodySpec == CustodyInit /\ [][CustodyNext]_custodyVars
=============================================================================
