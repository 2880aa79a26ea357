------------------------- MODULE ExecutionContract -------------------------
(***************************************************************************)
(* What RequestHandler takes execute_bundle to do, per thread: the run     *)
(* begins with the dataset it was given, which the execution proof names,  *)
(* or never begins; it ends once; and only a run that began can end well.  *)
(***************************************************************************)
CONSTANTS Executors,   \* the threads that execute bundles
          Injectable,  \* datasets that can take the place of the bundle's own
          Nothing      \* no dataset is injected

VARIABLES
    phase,     \* per thread: "idle", "asked", "running" or "over"
    given,     \* per thread, the dataset its call was given
    injected,  \* per thread, the dataset the script finds in place of its own
    ok         \* per thread, the success of the execution that is over

contractVars == <<phase, given, injected, ok>>

ContractInit ==
    /\ phase = [x \in Executors |-> "idle"]
    /\ given = [x \in Executors |-> Nothing]
    /\ injected = [x \in Executors |-> Nothing]
    /\ ok = [x \in Executors |-> FALSE]

Ask(x, d) ==
    /\ phase[x] = "idle"
    /\ phase' = [phase EXCEPT ![x] = "asked"]
    /\ given' = [given EXCEPT ![x] = d]
    /\ UNCHANGED <<injected, ok>>

Start(x) ==
    /\ phase[x] = "asked"
    /\ phase' = [phase EXCEPT ![x] = "running"]
    /\ injected' = [injected EXCEPT ![x] = given[x]]
    /\ UNCHANGED <<given, ok>>

\* The bundle is refused, or anything before the run fails.
Refuse(x) ==
    /\ phase[x] = "asked"
    /\ phase' = [phase EXCEPT ![x] = "over"]
    /\ UNCHANGED <<given, injected, ok>>

Finish(x) ==
    /\ phase[x] = "running"
    /\ phase' = [phase EXCEPT ![x] = "over"]
    /\ \E success \in BOOLEAN : ok' = [ok EXCEPT ![x] = success]
    /\ UNCHANGED <<given, injected>>

Forget(x) ==
    /\ phase[x] = "over"
    /\ phase' = [phase EXCEPT ![x] = "idle"]
    /\ given' = [given EXCEPT ![x] = Nothing]
    /\ injected' = [injected EXCEPT ![x] = Nothing]
    /\ ok' = [ok EXCEPT ![x] = FALSE]

ContractNext ==
    \E x \in Executors :
        \/ \E d \in Injectable \cup {Nothing} : Ask(x, d)
        \/ Start(x)
        \/ Refuse(x)
        \/ Finish(x)
        \/ Forget(x)

ContractSpec == ContractInit /\ [][ContractNext]_contractVars
=============================================================================
