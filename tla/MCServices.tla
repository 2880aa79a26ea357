----------------------------- MODULE MCServices -----------------------------
(* The services that the request handler calls before and after a run: they *)
(* share no state, so a behaviour here uses one of them.                    *)
EXTENDS Attestation, KmsAttestation, DecryptService

CONSTANTS s1, d1, o1, o2, n1, c1, m1

MCAttCalls ==
    [op : {"execution"}, job : {"j1"}, script : {s1}, dataset : {Absent, EmptyBytes, d1, s1},
     output : {o1, o2}, nonce : {Absent, n1}, context : {Absent, EmptyBytes, c1},
     manifest : {Absent, m1}, atl_nonce : {Absent, n1}]
      \cup [op : {"key"}, user_data : {Absent, <<1>>, <<1, 1>>, <<1, 1, 1>>},
            nonce : {Absent, EmptyText, <<1>>, <<1, 1>>}, public_key : {Absent, <<1>>}]

\* name a, value =a; name a=, value a; name a, value a; and the empty context.
MCContexts == {(<<"a">> :> <<"=", "a">>), (<<"a", "=">> :> <<"a">>),
               (<<"a">> :> <<"a">>), <<>>}

\* Key pair 1 is RSA-2048 and key pair 2 RSA-3072.
MCKeyUnits == <<2, 3>>

Init == AttInit /\ KmsInit /\ DecInit

\* The state of the services that are not used is one of their initial states.
Next == \/ /\ kmsasked = 0 /\ sealed = None /\ enabled /\ session = 1
           /\ AttNext /\ UNCHANGED <<kmsVars, decVars>>
        \/ /\ asked = 0 /\ sealed = None /\ mode = "nsm" /\ session = 1
           /\ KmsNext /\ UNCHANGED <<attVars, decVars>>
        \/ /\ asked = 0 /\ kmsasked = 0 /\ mode = "nsm" /\ enabled
           /\ DecNext /\ UNCHANGED <<attVars, kmsVars>>

Spec == Init /\ [][Next]_<<attVars, kmsVars, decVars>>
=============================================================================
