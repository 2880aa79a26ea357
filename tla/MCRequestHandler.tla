-------------------------- MODULE MCRequestHandler --------------------------
(***************************************************************************)
(* RequestHandler for TLC.  The requests below cover every operation and   *)
(* every outcome of validate_request; fields an operation does not read    *)
(* are Absent.                                                             *)
(***************************************************************************)
EXTENDS RequestHandler, TLC

CONSTANTS SomeJob,       \* the job of every key request
          CipherKeys,    \* what clients encrypt to
          ExtraRequests  \* TRUE: also the requests that end at once

Blank == [op |-> "not_json", job |-> Absent, key_size |-> 2048, sid |-> Absent,
          zip |-> Absent, csv |-> Absent, atl_nonce |-> "none", user_data |-> FALSE]

KeyRequests ==
    {[Blank EXCEPT !.op = o, !.job = SomeJob] : o \in KeyOps}

AttestRequests ==
    {[Blank EXCEPT !.op = "get_attestation", !.sid = s] : s \in SessionIds}

\* The second input of an execution, for a bundle encrypted to k: none, a dataset
\* encrypted to any key, an empty file, or no input and a nonce that is not hex.
SecondInputs(k) ==
    {<<Absent, "none">>, <<Absent, "malformed">>, <<[key |-> k, data |-> EmptyBytes], "hex">>}
      \cup {<<c, "hex">> : c \in [key : CipherKeys, data : Datasets]}

ExecuteRequests ==
    UNION {{[Blank EXCEPT !.op = "execute_script_rsa_hybrid",
                          !.sid = s,
                          !.zip = [key |-> k, data |-> b],
                          !.csv = i[1],
                          !.atl_nonce = i[2]] : i \in SecondInputs(k)} :
             s \in SessionIds, k \in CipherKeys, b \in Bundles}

\* Answered without using a service, or refused by the first one.
ShortRequests ==
    {[Blank EXCEPT !.op = o] : o \in Ops}
      \cup {[Blank EXCEPT !.op = o, !.job = SomeJob, !.key_size = 1024] : o \in KeyOps}
      \cup {[Blank EXCEPT !.op = "get_attestation", !.sid = s, !.user_data = TRUE] :
              s \in SessionIds}
      \cup {[Blank EXCEPT !.op = "execute_script_rsa_hybrid", !.sid = s] : s \in SessionIds}
      \cup {[Blank EXCEPT !.op = "get_attestation", !.user_data = TRUE]}

MCRequests == KeyRequests \cup AttestRequests \cup ExecuteRequests
                \cup (IF ExtraRequests THEN ShortRequests ELSE {})

\* Threads and session ids are interchangeable: nothing orders them.
HandlerSymmetry == Permutations(Callers) \cup Permutations(SessionIds)
=============================================================================
