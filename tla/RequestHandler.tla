--------------------------- MODULE RequestHandler ---------------------------
(***************************************************************************)
(* RequestHandlerImpl (implementations/request_handler_impl.py) with the   *)
(* services it drives: the key store of KeyPairManager, and the decrypt,   *)
(* execute and attestation services.  server.py starts one thread per      *)
(* connection; a thread takes one request, answers it and ends, so a       *)
(* caller of the key store that is idle here stands for a connection that  *)
(* has not arrived yet.                                                    *)
(*                                                                         *)
(* One step is one critical section of the key store's lock, or a stretch  *)
(* of code between two of them that shares nothing with other threads.     *)
(* Running a script and collecting its output files are steps of their     *)
(* own, so that sessions can expire, be replaced or be deleted while the   *)
(* subprocess runs and while its files are read.                           *)
(*                                                                         *)
(* A cipher is the base64 text RSA-OAEP + AES-GCM makes: the key pair it   *)
(* is encrypted to and what it encrypts.  Key 0 stands for a text that no  *)
(* key of this enclave opens (tampered, truncated, foreign, not base64).   *)
(* A hash is the bytes it was computed from.                               *)
(***************************************************************************)
EXTENDS KeyPairManager

CONSTANTS
    Requests,    \* the requests clients can send
    Bundles,     \* decrypted ZIP bundles, none of zero bytes: that is no archive
    Datasets,    \* decrypted CSV files with at least one byte
    EmptyBytes,  \* the CSV file of zero bytes, b""
    Absent,      \* a missing field; where the code tests truth, also None and ""
    NoReq,       \* no request read yet
    NoDoc,       \* no attestation document
    Backend      \* the attestation service: "nitro" (main.py), "tdx" (main_tdx.py)

KeyOps == {"generate_rsa_keypair", "get_attestation_for_proxy"}

Ops == KeyOps \cup {"execute_script_rsa_hybrid", "get_attestation",
                    "health_check", "get_enclave_info",
                    "unknown", "not_json"}

CsvFiles == Datasets \cup {EmptyBytes}

Zips == [key : 0 .. MaxKeys, data : Bundles]
Csvs == [key : 0 .. MaxKeys, data : CsvFiles]

\* A request.  "unknown" is an operation nobody handles or a missing one, and
\* "not_json" what json.loads refuses.  Of job_id and the other required fields
\* validate_request asks only that they are there: a null job_id is one of Jobs.
\* key_size is 2048 if the field is missing, atl_nonce is None, a hexadecimal
\* string, or a value bytes.fromhex refuses.
AllRequests == [op        : Ops,
                job       : Jobs \cup {Absent},
                key_size  : KeySizes,
                sid       : SessionIds \cup {Absent},
                zip       : Zips \cup {Absent},
                csv       : Csvs \cup {Absent},
                atl_nonce : {"none", "hex", "malformed"},
                user_data : BOOLEAN]

\* What the attestation service signs: sha256(public_key) for the proxy, the
\* {public_key, session_id} record of get_attestation, or an execution proof.
Docs == [kind     : {"key_hash", "session_key", "proof"},
         sid      : SessionIds \cup {Absent},   \* session_id, or the proof's job_id
         key      : 0 .. MaxKeys,
         script   : Bundles \cup {Absent},      \* script_hash
         dataset  : Datasets \cup {Absent},     \* dataset_hash, Absent for ""
         nonce    : {"client", "sth", "random"}]

Responses == [kind    : {"none", "error", "info", "session", "attestation", "result"},
              success : BOOLEAN,
              key     : 0 .. MaxKeys,           \* public_key, 0 for None
              doc     : Docs \cup {NoDoc}]

ASSUME HandlerAssumption ==
    /\ Requests \subseteq AllRequests
    /\ Backend \in {"nitro", "tdx"}
    /\ EmptyBytes \notin Datasets \cup Bundles
    /\ Absent \notin Jobs \cup SessionIds \cup Zips \cup Csvs \cup Bundles \cup CsvFiles
    /\ NoReq \notin AllRequests
    /\ NoDoc \notin Docs

VARIABLES
    pc,         \* per thread, the step it takes next
    req,        \* per thread, the parsed request
    loc,        \* per thread, its local variables
    resp,       \* per thread, the response it is going to send
    delivered   \* history: keys that opened the inputs of a result already sent

handlerVars == <<pc, req, loc, resp, delivered>>
vars == <<storeVars, handlerVars>>

Labels == {"idle", "generate", "store", "read_key", "attest_key", "decrypt_zip",
           "decrypt_csv", "execute", "running", "collect", "blocked", "cleanup",
           "attest_exec", "send"}

\* keys, injected and spent are ghosts: the private keys that opened the inputs,
\* what was written to generated/data.csv, and delivered when the request came.
Locals == [sid      : SessionIds \cup {Absent},  \* session_id
           pub      : 0 .. MaxKeys,              \* public_key
           dataset  : CsvFiles \cup {Absent},    \* decrypted_csv
           ok       : BOOLEAN,                   \* success of execute_bundle
           keys     : SUBSET Keys,
           injected : Datasets \cup {Absent},
           spent    : SUBSET Keys]

NoLocal == [sid |-> Absent, pub |-> 0, dataset |-> Absent, ok |-> FALSE,
            keys |-> {}, injected |-> Absent, spent |-> {}]

Response(kind, success, key, doc) ==
    [kind |-> kind, success |-> success, key |-> key, doc |-> doc]

NoResp == Response("none", FALSE, 0, NoDoc)

\* _error_response
ErrorResp == Response("error", FALSE, 0, NoDoc)

HandlerInit ==
    /\ pc = [t \in Callers |-> "idle"]
    /\ req = [t \in Callers |-> NoReq]
    /\ loc = [t \in Callers |-> NoLocal]
    /\ resp = [t \in Callers |-> NoResp]
    /\ delivered = {}

Init == StoreInit /\ HandlerInit

-----------------------------------------------------------------------------
(* Moving on.                                                              *)

Goto(t, label) ==
    /\ pc' = [pc EXCEPT ![t] = label]
    /\ UNCHANGED resp

Reply(t, r) ==
    /\ pc' = [pc EXCEPT ![t] = "send"]
    /\ resp' = [resp EXCEPT ![t] = r]

\* Python's truth value of an optional bytes or str value.
Truthy(v) == v \notin {Absent, EmptyBytes}

\* Mutant of HashOf: "if v is not None" for "if v".
HashOfNotNone(v) == v

\* hashlib.sha256(v).hexdigest() if v else ""
HashOf(v) == IF Truthy(v) THEN v ELSE Absent

-----------------------------------------------------------------------------
(* Receiving, validating and dispatching.                                  *)

\* A client can encrypt only to a public key that left the enclave, and none
\* does before its session is in the store.
Encryptable(cipher) == cipher # Absent => cipher.key \in StoredKeys \cup erased \cup {0}

\* validate_request returns None
ValidRequest(r) ==
    /\ r.op \in KeyOps => r.job # Absent
    /\ r.op = "execute_script_rsa_hybrid" => r.sid # Absent /\ r.zip # Absent
    /\ r.op = "get_attestation" => r.sid # Absent /\ ~ r.user_data

\* The dispatch of handle_request, for the operations that use a service.
FirstStep == [op \in KeyOps \cup {"execute_script_rsa_hybrid", "get_attestation"} |->
                CASE op \in KeyOps                    -> "generate"
                  [] op = "execute_script_rsa_hybrid" -> "decrypt_zip"
                  [] op = "get_attestation"           -> "read_key"]

\* handle_request up to the first use of a service.
HandleRequest(t, r) ==
    /\ pc[t] = "idle"
    /\ Encryptable(r.zip)
    /\ Encryptable(r.csv)
    /\ req' = [req EXCEPT ![t] = r]
    /\ loc' = [loc EXCEPT ![t] = [NoLocal EXCEPT !.sid = r.sid, !.spent = delivered]]
    /\ IF ValidRequest(r) /\ r.op \in DOMAIN FirstStep
       THEN Goto(t, FirstStep[r.op])
       ELSE Reply(t, IF r.op \in {"health_check", "get_enclave_info"}
                     THEN Response("info", TRUE, 0, NoDoc)
                     ELSE ErrorResp)
    /\ UNCHANGED <<storeVars, delivered>>

-----------------------------------------------------------------------------
(* Session creation: _generate_keypair, and the first stage of             *)
(* _get_attestation_for_proxy.                                             *)

GenerateStep(t) ==
    /\ pc[t] = "generate"
    /\ GenerateKeypair(t, req[t].job, req[t].key_size)
    /\ Goto(t, "store")
    /\ UNCHANGED <<req, loc, delivered>>

\* generate_keypair returns False: a key size that is not allowed, or any
\* exception of the RSA generator.
GenerateFails(t) ==
    /\ pc[t] = "generate"
    /\ Reply(t, ErrorResp)
    /\ UNCHANGED <<storeVars, req, loc, delivered>>

StoreStep(t) ==
    /\ pc[t] = "store"
    /\ StoreSession(t)
    /\ loc' = [loc EXCEPT ![t].sid = prepared[t].sid]
    /\ Goto(t, "read_key")
    /\ UNCHANGED <<req, delivered>>

\* Mutant of ReadKey: the "if not public_key" checks are missing.
ReadKeyUnchecked(t) ==
    /\ pc[t] = "read_key"
    /\ GetValidSession(loc[t].sid)
    /\ LET key == Lookup(loc[t].sid) IN
         /\ loc' = [loc EXCEPT ![t].pub = key]
         /\ \/ /\ req[t].op = "generate_rsa_keypair"
               /\ Reply(t, Response("session", TRUE, key, NoDoc))
            \/ /\ req[t].op # "generate_rsa_keypair"
               /\ Goto(t, "attest_key")
    /\ UNCHANGED <<req, delivered>>

\* get_public_key.  _generate_keypair answers with whatever it returned;
\* the two attestation operations refuse a session that is gone.
ReadKey(t) ==
    /\ pc[t] = "read_key"
    /\ GetValidSession(loc[t].sid)
    /\ LET key == Lookup(loc[t].sid) IN
         /\ loc' = [loc EXCEPT ![t].pub = key]
         /\ \/ /\ req[t].op = "generate_rsa_keypair"
               /\ Reply(t, Response("session", TRUE, key, NoDoc))
            \/ /\ req[t].op # "generate_rsa_keypair"
               /\ IF key = 0 THEN Reply(t, ErrorResp) ELSE Goto(t, "attest_key")
    /\ UNCHANGED <<req, delivered>>

\* The document generate_attestation is asked to sign about a public key.
KeyDoc(t) ==
    [kind    |-> IF req[t].op = "get_attestation" THEN "session_key" ELSE "key_hash",
     sid     |-> IF req[t].op = "get_attestation" THEN loc[t].sid ELSE Absent,
     key     |-> loc[t].pub,
     script  |-> Absent,
     dataset |-> Absent,
     nonce   |-> "client"]

\* generate_attestation in an enclave: the device signs the document, or it is
\* not open, the ioctl fails or its answer cannot be parsed.  Every exception
\* is caught and returned as a failure.
GenerateAttestation(doc) == {doc, NoDoc}

\* The proxy operation succeeds either way, without a document when the device
\* fails; get_attestation reports the failure.
AttestKey(t) ==
    /\ pc[t] = "attest_key"
    /\ \E doc \in GenerateAttestation(KeyDoc(t)) :
         Reply(t, IF req[t].op = "get_attestation"
                  THEN Response("attestation", doc # NoDoc, 0, doc)
                  ELSE Response("session", TRUE, loc[t].pub, doc))
    /\ UNCHANGED <<storeVars, req, loc, delivered>>

-----------------------------------------------------------------------------
(* _execute_encrypted_script.                                              *)

\* decrypt_combined_hybrid_data: OAEP opens the AES key with the session's
\* private key and GCM accepts the data.
Opens(sid, cipher) == Lookup(sid) # 0 /\ cipher.key = Lookup(sid)

\* Mutant of DecryptZip: a failed decryption is tried again for ever.
DecryptZipRetries(t) ==
    /\ pc[t] = "decrypt_zip"
    /\ GetValidSession(req[t].sid)
    /\ IF Opens(req[t].sid, req[t].zip)
       THEN /\ loc' = [loc EXCEPT ![t].keys = @ \cup {Lookup(req[t].sid)}]
            /\ Goto(t, IF req[t].csv = Absent THEN "execute" ELSE "decrypt_csv")
       ELSE UNCHANGED <<pc, resp, loc>>
    /\ UNCHANGED <<req, delivered>>

\* Mutant of DecryptZip: cleanup_session moved to a finally clause around the whole
\* of _execute_encrypted_script, so that a refused request deletes the session too.
DecryptZipCleansUp(t) ==
    /\ pc[t] = "decrypt_zip"
    /\ IF Opens(req[t].sid, req[t].zip)
       THEN /\ GetValidSession(req[t].sid)
            /\ loc' = [loc EXCEPT ![t].keys = @ \cup {Lookup(req[t].sid)}]
            /\ Goto(t, IF req[t].csv = Absent THEN "execute" ELSE "decrypt_csv")
       ELSE /\ DeleteKeypair(req[t].sid)
            /\ Reply(t, ErrorResp)
            /\ UNCHANGED loc
    /\ UNCHANGED <<req, delivered>>

DecryptZip(t) ==
    /\ pc[t] = "decrypt_zip"
    /\ GetValidSession(req[t].sid)
    /\ IF Opens(req[t].sid, req[t].zip)
       THEN /\ loc' = [loc EXCEPT ![t].keys = @ \cup {Lookup(req[t].sid)}]
            /\ Goto(t, IF req[t].csv = Absent THEN "execute" ELSE "decrypt_csv")
       ELSE /\ Reply(t, ErrorResp)
            /\ UNCHANGED loc
    /\ UNCHANGED <<req, delivered>>

\* Mutant of DecryptCsv: the private key of any session is tried.
DecryptCsvAnySession(t) ==
    /\ pc[t] = "decrypt_csv"
    /\ GetValidSession(req[t].sid)
    /\ IF \E s \in SessionIds : Opens(s, req[t].csv)
       THEN /\ loc' = [loc EXCEPT ![t] =
                         [loc[t] EXCEPT !.keys = @ \cup {req[t].csv.key},
                                        !.dataset = req[t].csv.data]]
            /\ Goto(t, "execute")
       ELSE /\ Reply(t, ErrorResp)
            /\ UNCHANGED loc
    /\ UNCHANGED <<req, delivered>>

DecryptCsv(t) ==
    /\ pc[t] = "decrypt_csv"
    /\ GetValidSession(req[t].sid)
    /\ IF Opens(req[t].sid, req[t].csv)
       THEN /\ loc' = [loc EXCEPT ![t] =
                         [loc[t] EXCEPT !.keys = @ \cup {Lookup(req[t].sid)},
                                        !.dataset = req[t].csv.data]]
            /\ Goto(t, "execute")
       ELSE /\ Reply(t, ErrorResp)
            /\ UNCHANGED loc
    /\ UNCHANGED <<req, delivered>>

\* execute_bundle up to subprocess.run: the bundle is extracted, the CSV file
\* written over generated/data.csv, the script found and validated.  Any of
\* these can end the execution.
ExecuteBundle(t) ==
    /\ pc[t] = "execute"
    /\ \/ /\ Goto(t, "running")
          /\ loc' = [loc EXCEPT ![t].injected = HashOf(loc[t].dataset)]
       \/ /\ Goto(t, "cleanup")
          /\ UNCHANGED loc
    /\ UNCHANGED <<storeVars, req, delivered>>

\* subprocess.run returns: the script ended, or the timeout killed it.  The output
\* files are collected only after exit code 0.
FinishRun(t) ==
    /\ pc[t] = "running"
    /\ Goto(t, "collect") \/ Goto(t, "cleanup")
    /\ UNCHANGED <<storeVars, req, loc, delivered>>

\* collect_output_files takes the files or rejects them, and execute_bundle returns.
\* Or a process of the script holds it, for no timeout covers it: os.open of a FIFO put
\* in a file's place waits for a writer, and the walk follows ever new directories.
CollectOutputFiles(t) ==
    /\ pc[t] = "collect"
    /\ \/ /\ \E ok \in BOOLEAN : loc' = [loc EXCEPT ![t].ok = ok]
          /\ Goto(t, "cleanup")
       \/ /\ Goto(t, "blocked")
          /\ UNCHANGED loc
    /\ UNCHANGED <<storeVars, req, delivered>>

\* The process opens the FIFO or makes no more directories, and the collection ends.
Released(t) ==
    /\ pc[t] = "blocked"
    /\ \E ok \in BOOLEAN : loc' = [loc EXCEPT ![t].ok = ok]
    /\ Goto(t, "cleanup")
    /\ UNCHANGED <<storeVars, req, delivered>>

\* Mutants of CleanupSession: the key is deleted only after a failure, as if a
\* successful session could be used again; the result of the run is not looked at.
CleanupOnFailureOnly(t) ==
    /\ pc[t] = "cleanup"
    /\ IF loc[t].ok
       THEN Goto(t, "attest_exec") /\ UNCHANGED storeVars
       ELSE Reply(t, ErrorResp) /\ DeleteKeypair(req[t].sid)
    /\ UNCHANGED <<req, loc, delivered>>

CleanupIgnoresFailure(t) ==
    /\ pc[t] = "cleanup"
    /\ DeleteKeypair(req[t].sid)
    /\ Goto(t, "attest_exec")
    /\ UNCHANGED <<req, loc, delivered>>

\* cleanup_session
CleanupSession(t) ==
    /\ pc[t] = "cleanup"
    /\ DeleteKeypair(req[t].sid)
    /\ IF loc[t].ok THEN Goto(t, "attest_exec") ELSE Reply(t, ErrorResp)
    /\ UNCHANGED <<req, loc, delivered>>

\* The proof create_execution_attestation builds.
ExecutionProof(t) ==
    [kind    |-> "proof",
     sid     |-> req[t].sid,
     key     |-> 0,
     script  |-> HashOf(req[t].zip.data),
     dataset |-> HashOf(loc[t].dataset),
     nonce   |-> IF req[t].atl_nonce = "hex" THEN "sth" ELSE "random"]

\* The call create_execution_attestation(external_nonce=..., context_hash=...)
\* fits the signature of the Nitro service only.
CallAccepted == Backend = "nitro"

\* Mutant of AttestExecution: no result without an attestation document.
AttestOrFail(t) ==
    /\ pc[t] = "attest_exec"
    /\ \/ /\ req[t].atl_nonce # "malformed" /\ CallAccepted
          /\ Reply(t, Response("result", TRUE, 0, ExecutionProof(t)))
       \/ Reply(t, ErrorResp)
    /\ UNCHANGED <<storeVars, req, loc, delivered>>

\* bytes.fromhex and the attestation call may raise; a document that cannot be
\* signed is left out of the response.
AttestExecution(t) ==
    /\ pc[t] = "attest_exec"
    /\ IF req[t].atl_nonce = "malformed" \/ ~ CallAccepted
       THEN Reply(t, ErrorResp)
       ELSE \E doc \in GenerateAttestation(ExecutionProof(t)) :
              Reply(t, Response("result", TRUE, 0, doc))
    /\ UNCHANGED <<storeVars, req, loc, delivered>>

-----------------------------------------------------------------------------
(* handle_client sends the response and closes the connection.  Whether    *)
(* the bytes arrive makes no difference to the enclave: an error of        *)
(* sendall is logged and the thread ends just the same.                    *)
Send(t) ==
    /\ pc[t] = "send"
    /\ delivered' = IF resp[t].kind = "result"
                    THEN delivered \cup loc[t].keys
                    ELSE delivered
    /\ pc' = [pc EXCEPT ![t] = "idle"]
    /\ req' = [req EXCEPT ![t] = NoReq]
    /\ loc' = [loc EXCEPT ![t] = NoLocal]
    /\ resp' = [resp EXCEPT ![t] = NoResp]
    /\ UNCHANGED storeVars

-----------------------------------------------------------------------------
(* What a connection thread does once it has a request.                    *)
ThreadStep(t) ==
    \/ GenerateStep(t)
    \/ GenerateFails(t)
    \/ StoreStep(t)
    \/ ReadKey(t)
    \/ AttestKey(t)
    \/ DecryptZip(t)
    \/ DecryptCsv(t)
    \/ ExecuteBundle(t)
    \/ FinishRun(t)
    \/ CollectOutputFiles(t)
    \/ Released(t)
    \/ CleanupSession(t)
    \/ AttestExecution(t)
    \/ Send(t)

\* The cleanup thread and the clock, which no request waits for.
Background ==
    /\ PurgeWake \/ PurgeExpiredSessions \/ Tick
    /\ UNCHANGED handlerVars

Next ==
    \/ \E t \in Callers, r \in Requests : HandleRequest(t, r)
    \/ \E t \in Callers : ThreadStep(t)
    \/ Background

Spec == Init /\ [][Next]_vars

\* Threads are scheduled by the operating system; a script ends by itself or by
\* the timeout of subprocess.run; the cleanup loop and the clock never stop.
\* Clients are not obliged to send anything, and a surviving process not to let go.
Fairness ==
    /\ \A t \in Callers : WF_vars(pc[t] # "blocked" /\ ThreadStep(t))
    /\ WF_vars(PurgeWake /\ UNCHANGED handlerVars)
    /\ WF_vars(PurgeExpiredSessions /\ UNCHANGED handlerVars)
    /\ WF_vars(Tick /\ UNCHANGED handlerVars)

FairSpec == Spec /\ Fairness

-----------------------------------------------------------------------------
(* Properties.                                                             *)

\* The type of every variable.
TypeOK ==
    /\ StoreTypeOK
    /\ pc \in [Callers -> Labels]
    /\ req \in [Callers -> Requests \cup {NoReq}]
    /\ loc \in [Callers -> Locals]
    /\ resp \in [Callers -> Responses]
    /\ delivered \subseteq Keys

\* By the time an execution is attested or its result is sent, every private
\* key that opened its inputs is out of the key store, also when the session
\* expired, was purged, was replaced or was deleted by another execution while
\* the script ran (README: "Delete private key from memory").
KeyErasedBeforeResult ==
    \A t \in Callers :
        (pc[t] = "attest_exec" \/ resp[t].kind = "result") => loc[t].keys \subseteq erased

\* An execute request that arrives after the result of an execution was sent is
\* never run on the same inputs: a client that repeats a request whose answer it
\* lost, or anybody who recorded it, finds the key gone.
ReplayRefused ==
    \A t \in Callers : loc[t].keys \cap loc[t].spent = {}

\* The bundle and the dataset of one execution were encrypted to one and the same
\* key pair: a session cannot be replaced between the two decryptions.
OneKeyPerExecution ==
    \A t \in Callers : \A k1, k2 \in loc[t].keys : k1 = k2

\* In this step thread t returns from the cleanup_session of session s, whose key
\* opened its inputs, or did before uuid4 drew the id of s a second time.
CleansUpOwn(t, s) ==
    /\ pc[t] = "cleanup"
    /\ pc'[t] # "cleanup"
    /\ req[t].sid = s
    /\ \/ active_sessions[s].key \in loc[t].keys
       \/ \E own \in loc[t].keys : <<s, own>> \in issued /\ own \in erased

\* In this step thread t stores a session of its own under the id s.
StoresOver(t, s) ==
    /\ pc[t] = "store"
    /\ pc'[t] # "store"
    /\ prepared[t].sid = s

\* A session within its TTL is taken from a client only by cleanup_session, of an
\* execution whose inputs that session's key opened, or when uuid4 draws its id a
\* second time.  Requests with a wrong cipher, lookups of any session, other
\* executions and the cleanup thread take none.  And when a cleanup is over, of a
\* failed execution too, no key that opened its inputs is left.
OwnSessionDeleted ==
    [][/\ \A s \in SessionIds :
            /\ Has(s)
            /\ IsSessionValid(active_sessions[s])
            /\ active_sessions'[s] # active_sessions[s]
            => \E t \in Callers : CleansUpOwn(t, s) \/ StoresOver(t, s)
       /\ \A t \in Callers :
            pc[t] = "cleanup" /\ pc'[t] # "cleanup" => loc[t].keys \subseteq erased']_vars

\* The enclave signs only what it built itself (tests/test_attestation_scope.py):
\* the public key in a signed document is one this enclave generated, for the
\* session the document names, and the one the response hands out beside it.  A
\* response that hands out a key, signed or not, hands out one of the session whose
\* id stands beside it.
AttestedKeyIsOurs ==
    \A t \in Callers :
        LET d == resp[t].doc IN
        /\ d # NoDoc /\ d.kind # "proof" =>
             /\ \E s \in SessionIds : <<s, d.key>> \in issued
             /\ d.kind = "session_key" => <<d.sid, d.key>> \in issued
             /\ d.kind = "key_hash" => d.key = resp[t].key
        /\ resp[t].key # 0 => <<loc[t].sid, resp[t].key>> \in issued

\* An execution proof tells what ran: a script that finished, the bundle that
\* the session's key opened, and the dataset that was really put in place of the
\* bundle's own data.csv (none, for an empty CSV file).
ProofMatchesRun ==
    \A t \in Callers :
        LET d == resp[t].doc IN
        d # NoDoc /\ d.kind = "proof" =>
            /\ loc[t].ok
            /\ d.dataset = loc[t].injected
            /\ d.script = req[t].zip.data
            /\ <<d.sid, req[t].zip.key>> \in issued
            /\ req[t].zip.key \in erased

\* A script that ran to its end is reported as a success, unless the client sent
\* an atl_nonce that is not hexadecimal: the output is not thrown away after the
\* session's key is gone and the run cannot be repeated.
SuccessReported ==
    \A t \in Callers :
        pc[t] = "send" /\ loc[t].ok /\ req[t].atl_nonce # "malformed"
            => resp[t].kind = "result"

\* Every request is answered: no thread waits for ever for the key store, for a
\* script or for another thread, except that a process the script left behind can hold
\* collect_output_files for ever; a request that is held holds up no other.
EveryRequestAnswered ==
    \A t \in Callers :
        (pc[t] # "idle") ~> (pc[t] = "idle" \/ [](pc[t] = "blocked"))

-----------------------------------------------------------------------------
(* The handler implements KeyCustody: a key is unborn until the RSA        *)
(* generator makes it, and held by the generating thread or by the key     *)
(* store until it is erased.                                               *)
Custody == INSTANCE KeyCustody WITH
    Executors <- Callers,
    custody   <- [k \in Keys |-> IF k > keys_made THEN "unborn"
                                 ELSE IF k \in erased THEN "erased" ELSE "held"],
    opened    <- [t \in Callers |-> loc[t].keys],
    published <- delivered

\* Every step of the request handler, the key store, the cleanup thread and the
\* clock is a step KeyCustody allows, or changes nothing it speaks of.
KeyCustodyKept == Custody!CustodySpec
=============================================================================
