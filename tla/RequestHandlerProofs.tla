------------------------ MODULE RequestHandlerProofs ------------------------
(***************************************************************************)
(* Proofs about RequestHandler, for every set of threads, session ids and  *)
(* requests, every TTL and both attestation backends, with or without      *)
(* session id collisions.                                                  *)
(*                                                                         *)
(* The handler's steps are steps of the key store, so everything proved in *)
(* KeyPairManagerProofs holds of the composition.  HandlerInv adds what a  *)
(* thread's private keys have to do with the store while its request is    *)
(* under way.                                                              *)
(***************************************************************************)
EXTENDS RequestHandler, KeyPairManagerProofs

ExecuteLabels == {"decrypt_zip", "decrypt_csv", "execute", "running", "collect", "blocked",
                  "cleanup", "attest_exec"}

\* At each label the request has the fields the code reads there: validate_request
\* ran before the dispatch, and the dispatch fixed the operation.
ControlOf(t) ==
    /\ pc[t] # "idle" => req[t] \in Requests
    /\ pc[t] \in {"generate", "store"} => req[t].job \in Jobs
    /\ pc[t] \in {"read_key", "attest_key"} => loc[t].sid \in SessionIds
    /\ pc[t] \in ExecuteLabels =>
         /\ req[t].sid \in SessionIds
         /\ req[t].zip \in Zips
    /\ pc[t] = "decrypt_csv" => req[t].csv \in Csvs
    /\ pc[t] # "send" => resp[t].kind = "none"

Control == \A t \in Callers : ControlOf(t)

\* A key that opened an input of the request is either erased or still the key
\* stored under the request's session id, which it was generated for.
KeyTraced ==
    \A t \in Callers : \A k \in loc[t].keys :
        /\ pc[t] # "idle"
        /\ <<req[t].sid, k>> \in issued
        /\ k \in erased \/ (Has(req[t].sid) /\ active_sessions[req[t].sid].key = k)

\* What was delivered is erased, and what a request found delivered still is.
DeliveredErased ==
    /\ delivered \subseteq erased
    /\ \A t \in Callers : loc[t].spent \subseteq delivered

HandlerInv ==
    /\ Control
    /\ KeyTraced
    /\ DeliveredErased
    /\ KeyErasedBeforeResult
    /\ ReplayRefused

-----------------------------------------------------------------------------
(* Types.                                                                  *)

\* What the fields of a request are.
LEMMA RequestTypes ==
    ASSUME NEW r \in Requests
    PROVE  /\ r \in AllRequests
           /\ r.op \in Ops
           /\ r.job \in Jobs \cup {Absent}
           /\ r.key_size \in KeySizes
           /\ r.sid \in SessionIds \cup {Absent}
           /\ r.zip \in Zips \cup {Absent}
           /\ r.csv \in Csvs \cup {Absent}
           /\ r # NoReq
  BY HandlerAssumption DEF AllRequests

\* The types of the handler's own variables.
HandlerTypeOK ==
    /\ pc \in [Callers -> Labels]
    /\ req \in [Callers -> Requests \cup {NoReq}]
    /\ loc \in [Callers -> Locals]
    /\ resp \in [Callers -> Responses]
    /\ delivered \subseteq Keys

\* A response is a response.
LEMMA ResponseTypes ==
    /\ NoResp \in Responses
    /\ ErrorResp \in Responses
    /\ \A kind \in {"none", "error", "info", "session", "attestation", "result"},
          success \in BOOLEAN, key \in 0 .. MaxKeys, doc \in Docs \cup {NoDoc} :
            Response(kind, success, key, doc) \in Responses
<1>1. 0 \in 0 .. MaxKeys
  BY StoreAssumption
<1> QED
  BY <1>1 DEF NoResp, ErrorResp, Response, Responses

\* What a lookup returns.
LEMMA LookupTypes ==
    ASSUME StoreTypeOK, NEW s \in SessionIds
    PROVE  /\ Lookup(s) \in 0 .. MaxKeys
           /\ Lookup(s) # 0 => /\ Has(s) /\ IsSessionValid(active_sessions[s])
                               /\ Lookup(s) = active_sessions[s].key
                               /\ Lookup(s) \in Keys
  BY EntryTypes, StoreAssumption DEF Lookup, Keys

\* The hash of an optional CSV file is a dataset or the empty string.
LEMMA HashTypes ==
    /\ \A v \in CsvFiles \cup {Absent} : HashOf(v) \in Datasets \cup {Absent}
    /\ \A b \in Bundles : HashOf(b) \in Bundles \cup {Absent}
  BY DEF HashOf, Truthy, CsvFiles

\* The handler's variables keep their types, given what Control says of the
\* fields read at each label.
LEMMA HandlerTypeStep ==
    ASSUME TypeOK, Control, Next
    PROVE  HandlerTypeOK'
<1>1. ASSUME NEW t \in Callers, NEW r \in Requests, HandleRequest(t, r)
      PROVE  HandlerTypeOK'
  <2>1. [NoLocal EXCEPT !.sid = r.sid, !.spent = delivered] \in Locals
    <3>1. 0 \in 0 .. MaxKeys
      BY StoreAssumption
    <3> QED
      BY <3>1, RequestTypes DEF NoLocal, Locals, TypeOK
  <2>2. Response("info", TRUE, 0, NoDoc) \in Responses
    <3>1. 0 \in 0 .. MaxKeys
      BY StoreAssumption
    <3> QED
      BY <3>1, ResponseTypes
  <2>3. pc' \in [Callers -> Labels] /\ resp' \in [Callers -> Responses]
    BY <1>1, <2>2, ResponseTypes
       DEF HandleRequest, Goto, Reply, FirstStep, Labels, TypeOK, KeyOps
  <2> QED
    BY <1>1, <2>1, <2>3 DEF HandleRequest, HandlerTypeOK, TypeOK
<1>2. ASSUME NEW t \in Callers, GenerateStep(t) \/ GenerateFails(t)
      PROVE  HandlerTypeOK'
  BY <1>2, ResponseTypes
     DEF GenerateStep, GenerateFails, Goto, Reply, Labels, TypeOK, HandlerTypeOK
<1>3. ASSUME NEW t \in Callers, StoreStep(t)
      PROVE  HandlerTypeOK'
  <2>1. prepared[t].sid \in SessionIds
    BY <1>3, EntryTypes DEF TypeOK, StoreStep, StoreSession
  <2>2. loc' \in [Callers -> Locals]
    <3>1. loc[t] \in Locals
      BY DEF TypeOK
    <3>2. [loc[t] EXCEPT !.sid = prepared[t].sid] \in Locals
      BY <2>1, <3>1 DEF Locals
    <3>3. loc' = [loc EXCEPT ![t] = [loc[t] EXCEPT !.sid = prepared[t].sid]]
      BY <1>3 DEF StoreStep
    <3> QED
      BY <3>2, <3>3 DEF TypeOK
  <2> QED
    BY <1>3, <2>2 DEF StoreStep, Goto, Labels, TypeOK, HandlerTypeOK
<1>4. ASSUME NEW t \in Callers, ReadKey(t)
      PROVE  HandlerTypeOK'
  <2>1. Lookup(loc[t].sid) \in 0 .. MaxKeys
    BY <1>4, LookupTypes DEF TypeOK, ReadKey, Control, ControlOf
  <2>2. loc' \in [Callers -> Locals]
    <3>1. loc[t] \in Locals
      BY DEF TypeOK
    <3>2. [loc[t] EXCEPT !.pub = Lookup(loc[t].sid)] \in Locals
      BY <2>1, <3>1 DEF Locals
    <3>3. loc' = [loc EXCEPT ![t] = [loc[t] EXCEPT !.pub = Lookup(loc[t].sid)]]
      BY <1>4 DEF ReadKey
    <3> QED
      BY <3>2, <3>3 DEF TypeOK
  <2>3. Response("session", TRUE, Lookup(loc[t].sid), NoDoc) \in Responses
    BY <2>1, ResponseTypes
  <2>4. pc' \in [Callers -> Labels] /\ resp' \in [Callers -> Responses]
    BY <1>4, <2>3, ResponseTypes DEF ReadKey, Goto, Reply, Labels, TypeOK
  <2> QED
    BY <1>4, <2>2, <2>4 DEF ReadKey, TypeOK, HandlerTypeOK
<1>5. ASSUME NEW t \in Callers, AttestKey(t)
      PROVE  HandlerTypeOK'
  <2>1. KeyDoc(t) \in Docs
    BY <1>5 DEF KeyDoc, Docs, TypeOK, Locals
  <2>2. loc[t].pub \in 0 .. MaxKeys /\ 0 \in 0 .. MaxKeys
    BY StoreAssumption DEF TypeOK, Locals
  <2>3. PICK doc \in Docs \cup {NoDoc} :
          Reply(t, IF req[t].op = "get_attestation"
                   THEN Response("attestation", doc # NoDoc, 0, doc)
                   ELSE Response("session", TRUE, loc[t].pub, doc))
    BY <1>5, <2>1 DEF AttestKey, GenerateAttestation
  <2>4. \E r \in Responses : Reply(t, r)
    <3>1. /\ Response("attestation", doc # NoDoc, 0, doc) \in Responses
          /\ Response("session", TRUE, loc[t].pub, doc) \in Responses
      BY <2>2, ResponseTypes
    <3> QED
      BY <2>3, <3>1
  <2>5. pc' \in [Callers -> Labels] /\ resp' \in [Callers -> Responses]
    BY <2>4 DEF Reply, Labels, TypeOK
  <2> QED
    BY <1>5, <2>5 DEF AttestKey, TypeOK, HandlerTypeOK
<1>6. ASSUME NEW t \in Callers, DecryptZip(t)
      PROVE  HandlerTypeOK'
  <2>1. Opens(req[t].sid, req[t].zip) => Lookup(req[t].sid) \in Keys
    BY <1>6, LookupTypes DEF TypeOK, DecryptZip, Control, ControlOf, ExecuteLabels, Opens
  <2>2. loc' \in [Callers -> Locals]
    BY <1>6, <2>1 DEF DecryptZip, TypeOK, Locals
  <2>3. pc' \in [Callers -> Labels] /\ resp' \in [Callers -> Responses]
    BY <1>6, ResponseTypes DEF DecryptZip, Goto, Reply, Labels, TypeOK
  <2> QED
    BY <1>6, <2>2, <2>3 DEF DecryptZip, TypeOK, HandlerTypeOK
<1>7. ASSUME NEW t \in Callers, DecryptCsv(t)
      PROVE  HandlerTypeOK'
  <2>1. /\ Opens(req[t].sid, req[t].csv) => Lookup(req[t].sid) \in Keys
        /\ req[t].csv.data \in CsvFiles
    BY <1>7, LookupTypes
       DEF TypeOK, DecryptCsv, Control, ControlOf, ExecuteLabels, Opens, Csvs
  <2>2. loc' \in [Callers -> Locals]
    <3> DEFINE l == [loc[t] EXCEPT !.keys = @ \cup {Lookup(req[t].sid)},
                                   !.dataset = req[t].csv.data]
    <3>1. Opens(req[t].sid, req[t].csv) => l \in Locals
      BY <2>1 DEF TypeOK, Locals
    <3>2. loc' = loc \/ (Opens(req[t].sid, req[t].csv) /\ loc' = [loc EXCEPT ![t] = l])
      BY <1>7 DEF DecryptCsv
    <3> QED
      BY <3>1, <3>2 DEF TypeOK
  <2>3. pc' \in [Callers -> Labels] /\ resp' \in [Callers -> Responses]
    BY <1>7, ResponseTypes DEF DecryptCsv, Goto, Reply, Labels, TypeOK
  <2> QED
    BY <1>7, <2>2, <2>3 DEF DecryptCsv, TypeOK, HandlerTypeOK
<1>8. ASSUME NEW t \in Callers, ExecuteBundle(t) \/ FinishRun(t)
             \/ CollectOutputFiles(t) \/ Released(t)
      PROVE  HandlerTypeOK'
  <2>1. HashOf(loc[t].dataset) \in Datasets \cup {Absent}
    BY HashTypes DEF TypeOK, Locals
  <2>2. loc' \in [Callers -> Locals]
    BY <1>8, <2>1 DEF ExecuteBundle, FinishRun, CollectOutputFiles, Released, TypeOK,
       Locals
  <2> QED
    BY <1>8, <2>2 DEF ExecuteBundle, FinishRun, CollectOutputFiles, Released, Goto,
       Labels, TypeOK, HandlerTypeOK
<1>9. ASSUME NEW t \in Callers, CleanupSession(t)
      PROVE  HandlerTypeOK'
  BY <1>9, ResponseTypes DEF CleanupSession, Goto, Reply, Labels, TypeOK, HandlerTypeOK
<1>10. ASSUME NEW t \in Callers, AttestExecution(t)
       PROVE  HandlerTypeOK'
  <2>1. 0 \in 0 .. MaxKeys
    BY StoreAssumption
  <2>2. ExecutionProof(t) \in Docs
    <3>1. req[t] \in Requests /\ req[t].sid \in SessionIds /\ req[t].zip.data \in Bundles
      BY <1>10 DEF AttestExecution, Control, ControlOf, ExecuteLabels, Zips
    <3>2. /\ HashOf(req[t].zip.data) \in Bundles \cup {Absent}
          /\ HashOf(loc[t].dataset) \in Datasets \cup {Absent}
      BY <3>1, HashTypes DEF TypeOK, Locals
    <3> QED
      BY <2>1, <3>1, <3>2 DEF ExecutionProof, Docs
  <2>3. \E r \in Responses : Reply(t, r)
    BY <1>10, <2>1, <2>2, ResponseTypes DEF AttestExecution, GenerateAttestation
  <2>4. pc' \in [Callers -> Labels] /\ resp' \in [Callers -> Responses]
    BY <2>3 DEF Reply, Labels, TypeOK
  <2> QED
    BY <1>10, <2>4 DEF AttestExecution, TypeOK, HandlerTypeOK
<1>11. ASSUME NEW t \in Callers, Send(t)
       PROVE  HandlerTypeOK'
  <2>1. NoLocal \in Locals
    <3>1. 0 \in 0 .. MaxKeys
      BY StoreAssumption
    <3> QED
      BY <3>1 DEF NoLocal, Locals
  <2>2. loc[t].keys \subseteq Keys
    BY DEF TypeOK, Locals
  <2>3. delivered' \subseteq Keys
    BY <1>11, <2>2 DEF Send, TypeOK
  <2> QED
    BY <1>11, <2>1, <2>3, ResponseTypes DEF Send, TypeOK, Labels, HandlerTypeOK
<1>12. CASE Background
  BY <1>12 DEF Background, handlerVars, TypeOK, HandlerTypeOK
<1> QED
  BY <1>1, <1>2, <1>3, <1>4, <1>5, <1>6, <1>7, <1>8, <1>9, <1>10, <1>11, <1>12
     DEF Next, ThreadStep

-----------------------------------------------------------------------------
(* The handler drives the key store only through its operations.           *)

\* A step of the composition is a step of the key store or leaves it alone.
LEMMA StepIsStoreStep ==
    ASSUME TypeOK, Control, [Next]_vars
    PROVE  [StoreNext]_storeVars
<1>1. ASSUME NEW t \in Callers, NEW r \in Requests, HandleRequest(t, r)
      PROVE  UNCHANGED storeVars
  BY <1>1 DEF HandleRequest
<1>2. ASSUME NEW t \in Callers, GenerateStep(t)
      PROVE  StoreNext
  <2>1. req[t].job \in Jobs /\ req[t].key_size \in KeySizes
    BY <1>2, RequestTypes DEF GenerateStep, Control, ControlOf
  <2> QED
    BY <1>2, <2>1 DEF GenerateStep, StoreNext, CallerStep
<1>3. ASSUME NEW t \in Callers, StoreStep(t)
      PROVE  StoreNext
  BY <1>3 DEF StoreStep, StoreNext, CallerStep
<1>4. ASSUME NEW t \in Callers, ReadKey(t) \/ DecryptZip(t) \/ DecryptCsv(t)
      PROVE  StoreNext
  BY <1>4 DEF ReadKey, DecryptZip, DecryptCsv, StoreNext, Control, ControlOf, ExecuteLabels
<1>5. ASSUME NEW t \in Callers, CleanupSession(t)
      PROVE  StoreNext
  BY <1>5 DEF CleanupSession, StoreNext, Control, ControlOf, ExecuteLabels
<1>6. ASSUME NEW t \in Callers,
             \/ GenerateFails(t) \/ AttestKey(t) \/ ExecuteBundle(t)
             \/ FinishRun(t) \/ CollectOutputFiles(t) \/ Released(t)
             \/ AttestExecution(t) \/ Send(t)
      PROVE  UNCHANGED storeVars
  BY <1>6 DEF GenerateFails, AttestKey, ExecuteBundle, FinishRun, CollectOutputFiles,
     Released, AttestExecution, Send
<1>7. CASE Background
  BY <1>7 DEF Background, StoreNext
<1>8. CASE UNCHANGED vars
  BY <1>8 DEF vars
<1> QED
  BY <1>1, <1>2, <1>3, <1>4, <1>5, <1>6, <1>7, <1>8 DEF Next, ThreadStep

\* A step of one thread leaves the state of every other thread alone.
LEMMA OthersUnchanged ==
    ASSUME TypeOK, NEW t \in Callers,
           ThreadStep(t) \/ \E r \in Requests : HandleRequest(t, r),
           NEW u \in Callers, u # t
    PROVE  pc'[u] = pc[u] /\ req'[u] = req[u] /\ loc'[u] = loc[u] /\ resp'[u] = resp[u]
  BY DEF ThreadStep, HandleRequest, GenerateStep, GenerateFails, StoreStep, ReadKey,
     AttestKey, DecryptZip, DecryptCsv, ExecuteBundle, FinishRun, CollectOutputFiles,
     Released, CleanupSession,
     AttestExecution, Send, Goto, Reply, TypeOK

\* After a step of thread t, its request has the fields of its new label.
LEMMA ControlOfStep ==
    ASSUME TypeOK, Control, NEW t \in Callers,
           ThreadStep(t) \/ \E r \in Requests : HandleRequest(t, r)
    PROVE  ControlOf(t)'
<1>1. ASSUME NEW r \in Requests, HandleRequest(t, r)
      PROVE  ControlOf(t)'
  <2>1. /\ req'[t] = r
        /\ loc'[t] = [NoLocal EXCEPT !.sid = r.sid, !.spent = delivered]
        /\ resp[t].kind = "none"
    BY <1>1 DEF HandleRequest, TypeOK, Control, ControlOf
  <2>2. loc'[t].sid = r.sid
    BY <2>1 DEF NoLocal
  <2>3. CASE ValidRequest(r) /\ r.op \in DOMAIN FirstStep
    <3>1. pc'[t] = FirstStep[r.op] /\ resp'[t] = resp[t]
      BY <1>1, <2>3 DEF HandleRequest, Goto, TypeOK
    <3>2. CASE r.op \in KeyOps
      <4>1. pc'[t] = "generate"
        BY <3>1, <3>2 DEF FirstStep, KeyOps
      <4>2. r.job \in Jobs
        BY <2>3, <3>2, RequestTypes DEF ValidRequest
      <4> QED
        BY <2>1, <3>1, <4>1, <4>2 DEF ControlOf, ExecuteLabels
    <3>3. CASE r.op = "execute_script_rsa_hybrid"
      <4>1. pc'[t] = "decrypt_zip"
        BY <3>1, <3>3 DEF FirstStep, KeyOps
      <4>2. r.sid \in SessionIds /\ r.zip \in Zips
        BY <2>3, <3>3, RequestTypes DEF ValidRequest
      <4> QED
        BY <2>1, <3>1, <4>1, <4>2 DEF ControlOf, ExecuteLabels
    <3>4. CASE r.op = "get_attestation"
      <4>1. pc'[t] = "read_key"
        BY <3>1, <3>4 DEF FirstStep, KeyOps
      <4>2. r.sid \in SessionIds
        BY <2>3, <3>4, RequestTypes DEF ValidRequest
      <4> QED
        BY <2>1, <2>2, <3>1, <4>1, <4>2 DEF ControlOf, ExecuteLabels
    <3> QED
      BY <2>3, <3>2, <3>3, <3>4 DEF FirstStep
  <2>4. CASE ~ (ValidRequest(r) /\ r.op \in DOMAIN FirstStep)
    <3>1. pc'[t] = "send"
      BY <1>1, <2>4 DEF HandleRequest, Reply, TypeOK
    <3> QED
      BY <2>1, <3>1 DEF ControlOf, ExecuteLabels
  <2> QED
    BY <2>3, <2>4
<1>2. ASSUME GenerateStep(t) \/ GenerateFails(t)
      PROVE  ControlOf(t)'
  BY <1>2 DEF GenerateStep, GenerateFails, Goto, Reply, TypeOK, Control, ControlOf, ExecuteLabels
<1>3. ASSUME StoreStep(t)
      PROVE  ControlOf(t)'
  <2>1. prepared[t].sid \in SessionIds
    BY <1>3, EntryTypes DEF TypeOK, StoreStep, StoreSession
  <2>2. loc'[t].sid = prepared[t].sid
    BY <1>3 DEF StoreStep, TypeOK, Locals
  <2> QED
    BY <1>3, <2>1, <2>2 DEF StoreStep, Goto, TypeOK, Control, ControlOf, ExecuteLabels
<1>4. ASSUME ReadKey(t)
      PROVE  ControlOf(t)'
  <2>1. loc'[t].sid = loc[t].sid /\ req'[t] = req[t]
    BY <1>4 DEF ReadKey, TypeOK, Locals
  <2> QED
    BY <1>4, <2>1 DEF ReadKey, Goto, Reply, TypeOK, Control, ControlOf, ExecuteLabels
<1>5. ASSUME AttestKey(t) \/ AttestExecution(t)
      PROVE  ControlOf(t)'
  <2>1. pc'[t] = "send" /\ req'[t] = req[t]
    BY <1>5 DEF AttestKey, AttestExecution, Reply, TypeOK
  <2>2. req[t] \in Requests
    BY <1>5 DEF AttestKey, AttestExecution, Control, ControlOf
  <2> QED
    BY <2>1, <2>2 DEF ControlOf, ExecuteLabels
<1>6. ASSUME DecryptZip(t)
      PROVE  ControlOf(t)'
  <2>1. req[t].csv # Absent => req[t].csv \in Csvs
    BY <1>6, RequestTypes DEF DecryptZip, Control, ControlOf
  <2> QED
    BY <1>6, <2>1 DEF DecryptZip, Goto, Reply, TypeOK, Control, ControlOf, ExecuteLabels
<1>7. ASSUME DecryptCsv(t) \/ ExecuteBundle(t) \/ FinishRun(t)
             \/ CollectOutputFiles(t) \/ Released(t) \/ CleanupSession(t)
      PROVE  ControlOf(t)'
  BY <1>7 DEF DecryptCsv, ExecuteBundle, FinishRun, CollectOutputFiles, Released,
     CleanupSession, Goto, Reply,
     TypeOK, Control, ControlOf, ExecuteLabels
<1>8. ASSUME Send(t)
      PROVE  ControlOf(t)'
  BY <1>8 DEF Send, TypeOK, ControlOf, ExecuteLabels, NoResp, Response
<1> QED
  BY <1>1, <1>2, <1>3, <1>4, <1>5, <1>6, <1>7, <1>8 DEF ThreadStep

\* Every step keeps Control.
LEMMA ControlStep ==
    ASSUME TypeOK, Control, [Next]_vars
    PROVE  Control'
<1>1. ASSUME NEW t \in Callers,
             ThreadStep(t) \/ \E r \in Requests : HandleRequest(t, r)
      PROVE  Control'
  <2> SUFFICES ASSUME NEW u \in Callers
               PROVE  ControlOf(u)'
    BY DEF Control
  <2>1. CASE u = t
    BY <1>1, <2>1, ControlOfStep
  <2>2. CASE u # t
    BY <1>1, <2>2, OthersUnchanged DEF Control, ControlOf
  <2> QED
    BY <2>1, <2>2
<1>2. CASE UNCHANGED handlerVars
  BY <1>2 DEF handlerVars, Control, ControlOf
<1> QED
  BY <1>1, <1>2 DEF Next, Background, vars

-----------------------------------------------------------------------------
(* Keys in use.                                                            *)

\* Where a key is: erased, or stored under s.
At(k, s) == k \in erased \/ (Has(s) /\ active_sessions[s].key = k)

\* The same after a step.
AtNext(k, s) ==
    k \in erased' \/ (active_sessions'[s] # NoSession /\ active_sessions'[s].key = k)

\* A step of the store keeps track of a key: it stays where it is, or is erased.
LEMMA TraceStep ==
    ASSUME StoreTypeOK, [StoreNext]_storeVars, NEW s \in SessionIds, NEW k, At(k, s)
    PROVE  AtNext(k, s)
<1>1. ASSUME NEW S \in SUBSET SessionIds, DelSessions(S)
      PROVE  AtNext(k, s)
  BY <1>1 DEF DelSessions, At, AtNext, Has, KeysAt
<1>2. ASSUME NEW c \in Callers, StoreSession(c)
      PROVE  AtNext(k, s)
  <2>1. CASE s = prepared[c].sid
    BY <1>2, <2>1 DEF StoreSession, At, AtNext, KeysAt
  <2>2. CASE s # prepared[c].sid
    <3>1. active_sessions'[s] = active_sessions[s]
      BY <1>2, <2>2 DEF StoreSession, StoreTypeOK
    <3> QED
      BY <1>2, <3>1 DEF StoreSession, At, AtNext, Has
  <2> QED
    BY <2>1, <2>2
<1>3. ASSUME active_sessions' = active_sessions, erased' = erased
      PROVE  AtNext(k, s)
  BY <1>3 DEF At, AtNext, Has
<1>4. ASSUME NEW r \in SessionIds, GetValidSession(r) \/ DeleteKeypair(r)
      PROVE  AtNext(k, s)
  BY <1>1, <1>4 DEF GetValidSession, DeleteKeypair
<1>5. ASSUME PurgeExpiredSessions
      PROVE  AtNext(k, s)
  <2>1. {r \in SessionIds : Has(r) /\ PurgeExpired(active_sessions[r])}
          \in SUBSET SessionIds
    OBVIOUS
  <2> QED
    BY <1>1, <1>5, <2>1 DEF PurgeExpiredSessions
<1> QED
  BY <1>2, <1>3, <1>4, <1>5
     DEF StoreNext, CallerStep, GenerateKeypair, PurgeWake, Tick, storeVars

\* The histories of the key store only grow.
LEMMA HistoryGrows ==
    ASSUME [StoreNext]_storeVars
    PROVE  issued \subseteq issued' /\ erased \subseteq erased'
<1>1. ASSUME NEW c \in Callers, NEW job \in Jobs, NEW ks \in KeySizes,
             GenerateKeypair(c, job, ks)
      PROVE  issued \subseteq issued' /\ erased \subseteq erased'
  BY <1>1 DEF GenerateKeypair
<1> QED
  BY <1>1 DEF StoreNext, CallerStep, StoreSession, GetValidSession, DeleteKeypair,
     DelSessions, PurgeWake, PurgeExpiredSessions, Tick, storeVars

\* A session that get_private_key returns stays in the store during that step.
LEMMA LookupKeeps ==
    ASSUME StoreTypeOK, StoreInv, NEW s \in SessionIds, GetValidSession(s), Lookup(s) # 0
    PROVE  /\ active_sessions' = active_sessions
           /\ erased' = erased
           /\ Has(s) /\ active_sessions[s].key = Lookup(s)
           /\ <<s, Lookup(s)>> \in issued
           /\ Lookup(s) \notin erased
           /\ Lookup(s) \in Keys
<1>1. /\ Has(s) /\ IsSessionValid(active_sessions[s])
      /\ active_sessions[s].key = Lookup(s) /\ Lookup(s) \in Keys
  BY LookupTypes
<1> DEFINE S == {x \in {s} : Has(x) /\ ~ IsSessionValid(active_sessions[x])}
<1>2. S = {}
  BY <1>1
<1>3. DelSessions(S)
  BY DEF GetValidSession
<1>4. KeysAt(S) = {}
  BY <1>2 DEF KeysAt
<1>5. active_sessions' = active_sessions /\ erased' = erased
  BY <1>2, <1>3, <1>4 DEF DelSessions, StoreTypeOK
<1>6. <<s, active_sessions[s].key>> \in issued /\ active_sessions[s].key \notin erased
  BY <1>1 DEF StoreInv, StoredBound
<1> QED
  BY <1>1, <1>5, <1>6

\* Thread t has just opened an input of its request with k, which the store holds
\* for the request's session before and after the step.
Opened(t, k) ==
    /\ loc'[t].keys = loc[t].keys \cup {k}
    /\ pc'[t] \in {"decrypt_csv", "execute"}
    /\ resp'[t] = resp[t]
    /\ req[t].sid \in SessionIds
    /\ <<req[t].sid, k>> \in issued
    /\ k \notin erased
    /\ active_sessions' = active_sessions
    /\ UNCHANGED <<erased, keys_made>>
    /\ Has(req[t].sid)
    /\ active_sessions[req[t].sid].key = k

\* Thread t goes on with the same request.
GoesOn(t) ==
    /\ pc'[t] # "idle"
    /\ req'[t] = req[t]
    /\ loc'[t].spent = loc[t].spent
    /\ delivered' = delivered

\* After a step of thread t, its keys are the ones it had, none, or one more: the
\* key the store holds for the request's session.
LEMMA KeysStep ==
    ASSUME TypeOK, StoreInv, Control, NEW t \in Callers,
           ThreadStep(t) \/ \E r \in Requests : HandleRequest(t, r)
    PROVE  \/ loc'[t].keys = {} /\ (Send(t) \/ \E r \in Requests : HandleRequest(t, r))
           \/ GoesOn(t) /\ loc'[t].keys = loc[t].keys
           \/ GoesOn(t) /\ \E k \in Keys : Opened(t, k)
<1> USE DEF GoesOn
<1>1. ASSUME NEW r \in Requests, HandleRequest(t, r)
      PROVE  loc'[t].keys = {}
  BY <1>1 DEF HandleRequest, TypeOK, NoLocal
<1>2. ASSUME Send(t)
      PROVE  loc'[t].keys = {}
  BY <1>2 DEF Send, TypeOK, NoLocal
<1>3. ASSUME \/ GenerateStep(t) \/ GenerateFails(t) \/ AttestKey(t)
             \/ CleanupSession(t) \/ AttestExecution(t)
      PROVE  GoesOn(t) /\ loc' = loc
  BY <1>3 DEF GenerateStep, GenerateFails, AttestKey, CleanupSession,
     AttestExecution, Goto, Reply, TypeOK
<1>4. ASSUME StoreStep(t) \/ ReadKey(t)
      PROVE  GoesOn(t) /\ loc'[t].keys = loc[t].keys
  <2>1. loc'[t].keys = loc[t].keys /\ loc'[t].spent = loc[t].spent
    <3>1. loc[t] \in Locals
      BY DEF TypeOK
    <3>2. \/ loc'[t] = [loc[t] EXCEPT !.sid = prepared[t].sid]
          \/ loc'[t] = [loc[t] EXCEPT !.pub = Lookup(loc[t].sid)]
      BY <1>4 DEF StoreStep, ReadKey, TypeOK
    <3> QED
      BY ONLY <3>1, <3>2 DEF Locals
  <2>2. CASE StoreStep(t)
    BY <2>1, <2>2 DEF StoreStep, Goto, TypeOK
  <2>3. CASE ReadKey(t)
    BY <2>1, <2>3 DEF ReadKey, Goto, Reply, TypeOK
  <2> QED
    BY <1>4, <2>2, <2>3
<1>5. ASSUME ExecuteBundle(t) \/ FinishRun(t) \/ CollectOutputFiles(t) \/ Released(t)
      PROVE  GoesOn(t) /\ loc'[t].keys = loc[t].keys
  <2>1. loc'[t].keys = loc[t].keys /\ loc'[t].spent = loc[t].spent
    BY <1>5 DEF ExecuteBundle, FinishRun, CollectOutputFiles, Released, TypeOK, Locals
  <2> QED
    BY <1>5, <2>1 DEF ExecuteBundle, FinishRun, CollectOutputFiles, Released, Goto, TypeOK
<1>6. ASSUME \/ DecryptZip(t) /\ ~ Opens(req[t].sid, req[t].zip)
             \/ DecryptCsv(t) /\ ~ Opens(req[t].sid, req[t].csv)
      PROVE  GoesOn(t) /\ loc' = loc
  BY <1>6 DEF DecryptZip, DecryptCsv, Reply, TypeOK
<1>7. ASSUME \/ DecryptZip(t) /\ Opens(req[t].sid, req[t].zip)
             \/ DecryptCsv(t) /\ Opens(req[t].sid, req[t].csv)
      PROVE  GoesOn(t) /\ \E k \in Keys : Opened(t, k)
  <2>1. req[t].sid \in SessionIds
    BY <1>7 DEF DecryptZip, DecryptCsv, Control, ControlOf, ExecuteLabels
  <2>2. GetValidSession(req[t].sid) /\ Lookup(req[t].sid) # 0
    BY <1>7 DEF DecryptZip, DecryptCsv, Opens
  <2>3. /\ loc'[t].keys = loc[t].keys \cup {Lookup(req[t].sid)}
        /\ loc'[t].spent = loc[t].spent
    <3>1. CASE DecryptZip(t) /\ Opens(req[t].sid, req[t].zip)
      BY <3>1 DEF DecryptZip, TypeOK, Locals
    <3>2. CASE DecryptCsv(t) /\ Opens(req[t].sid, req[t].csv)
      <4>1. loc'[t] = [loc[t] EXCEPT !.keys = @ \cup {Lookup(req[t].sid)},
                                     !.dataset = req[t].csv.data]
        BY <3>2 DEF DecryptCsv, TypeOK
      <4>2. loc[t] \in Locals
        BY DEF TypeOK
      <4> QED
        BY <4>1, <4>2 DEF Locals
    <3> QED
      BY <1>7, <3>1, <3>2
  <2>4. /\ pc'[t] \in {"decrypt_csv", "execute"}
        /\ req'[t] = req[t]
        /\ resp'[t] = resp[t]
        /\ UNCHANGED <<delivered, keys_made>>
    BY <1>7 DEF DecryptZip, DecryptCsv, GetValidSession, Goto, TypeOK
  <2>5. Lookup(req[t].sid) \in Keys /\ Opened(t, Lookup(req[t].sid))
    BY <2>1, <2>2, <2>3, <2>4, LookupKeeps DEF TypeOK, Opened
  <2> QED
    BY <2>3, <2>4, <2>5
<1> HIDE DEF GoesOn
<1> QED
  BY <1>1, <1>2, <1>3, <1>4, <1>5, <1>6, <1>7 DEF ThreadStep

-----------------------------------------------------------------------------
(* The invariant of the handler.                                           *)

\* A step keeps KeyTraced.
LEMMA KeyTracedStep ==
    ASSUME TypeOK, StoreInv, Control, KeyTraced, [Next]_vars
    PROVE  KeyTraced'
<1>1. [StoreNext]_storeVars
  BY StepIsStoreStep
<1>2. issued \subseteq issued' /\ erased \subseteq erased'
  BY <1>1, HistoryGrows
<1>3. ASSUME NEW u \in Callers, NEW k \in loc[u].keys
      PROVE  <<req[u].sid, k>> \in issued' /\ req[u].sid \in SessionIds /\ AtNext(k, req[u].sid)
  <2>1. <<req[u].sid, k>> \in issued /\ At(k, req[u].sid)
    BY DEF KeyTraced, At
  <2>2. req[u].sid \in SessionIds
    BY <2>1 DEF TypeOK, StoreTypeOK
  <2>3. AtNext(k, req[u].sid)
    BY <1>1, <2>1, <2>2, TraceStep DEF TypeOK
  <2> QED
    BY <1>2, <2>1, <2>2, <2>3
<1>4. ASSUME NEW u \in Callers, pc'[u] = pc[u], req'[u] = req[u], loc'[u] = loc[u],
             NEW k \in loc'[u].keys
      PROVE  pc'[u] # "idle" /\ <<req'[u].sid, k>> \in issued' /\ AtNext(k, req[u].sid)
  BY <1>3, <1>4 DEF KeyTraced
<1>5. ASSUME NEW t \in Callers, ThreadStep(t) \/ \E r \in Requests : HandleRequest(t, r),
             NEW u \in Callers, NEW k \in loc'[u].keys
      PROVE  /\ pc'[u] # "idle" /\ <<req'[u].sid, k>> \in issued'
             /\ req'[u] = req[u] /\ AtNext(k, req[u].sid)
  <2>1. CASE u # t
    BY <1>4, <1>5, <2>1, OthersUnchanged
  <2>2. CASE u = t
    <3>1. GoesOn(t)
      BY <1>5, <2>2, KeysStep
    <3>2. CASE k \in loc[t].keys
      BY <1>3, <2>2, <3>1, <3>2 DEF GoesOn
    <3>3. CASE k \notin loc[t].keys
      <4>1. Opened(t, k)
        <5>1. k \in loc'[t].keys
          BY <1>5, <2>2
        <5>2. \E j \in Keys : Opened(t, j)
          BY <1>5, <3>3, <5>1, KeysStep
        <5>3. PICK j \in Keys : Opened(t, j)
          BY <5>2
        <5>4. k = j
          BY ONLY <3>3, <5>1, <5>3 DEF Opened
        <5> QED
          BY ONLY <5>3, <5>4
      <4>2. AtNext(k, req[t].sid)
        BY <4>1 DEF Opened, AtNext, Has
      <4> QED
        BY <1>2, <2>2, <3>1, <4>1, <4>2 DEF Opened, GoesOn
    <3> QED
      BY <3>2, <3>3
  <2> QED
    BY <2>1, <2>2
<1>6. ASSUME UNCHANGED handlerVars, NEW u \in Callers, NEW k \in loc'[u].keys
      PROVE  /\ pc'[u] # "idle" /\ <<req'[u].sid, k>> \in issued'
             /\ req'[u] = req[u] /\ AtNext(k, req[u].sid)
  BY <1>4, <1>6 DEF handlerVars
<1>7. ASSUME NEW u \in Callers, NEW k \in loc'[u].keys
      PROVE  /\ pc'[u] # "idle" /\ <<req'[u].sid, k>> \in issued'
             /\ req'[u] = req[u] /\ AtNext(k, req[u].sid)
  BY <1>5, <1>6 DEF Next, Background, vars
<1>8. ASSUME NEW u \in Callers, NEW k \in loc'[u].keys
      PROVE  /\ pc'[u] # "idle" /\ <<req'[u].sid, k>> \in issued'
             /\ \/ k \in erased'
                \/ /\ active_sessions'[req'[u].sid] # NoSession
                   /\ active_sessions'[req'[u].sid].key = k
  BY <1>7 DEF AtNext
<1> QED
  BY <1>8 DEF KeyTraced, Has

\* When cleanup_session returns, the keys that opened the inputs are erased; no
\* later step of the request adds one.
LEMMA KeyErasedStep ==
    ASSUME TypeOK, StoreInv, Control, KeyTraced, KeyErasedBeforeResult, [Next]_vars
    PROVE  KeyErasedBeforeResult'
<1>1. erased \subseteq erased'
  BY StepIsStoreStep, HistoryGrows
<1>2. ASSUME NEW t \in Callers, CleanupSession(t)
      PROVE  loc'[t].keys \subseteq erased'
  <2>1. ASSUME NEW k \in loc[t].keys
        PROVE  k \in erased'
    <3>1. At(k, req[t].sid)
      BY <2>1 DEF KeyTraced, At
    <3>2. erased' = erased \cup KeysAt({req[t].sid})
      BY <1>2 DEF CleanupSession, DeleteKeypair, DelSessions
    <3> QED
      BY <3>1, <3>2 DEF At, KeysAt
  <2> QED
    BY <1>2, <2>1 DEF CleanupSession
<1>3. ASSUME NEW t \in Callers, ThreadStep(t) \/ \E r \in Requests : HandleRequest(t, r),
             pc'[t] = "attest_exec" \/ resp'[t].kind = "result"
      PROVE  CleanupSession(t) \/ (AttestExecution(t) /\ pc[t] = "attest_exec")
  <2>1. CASE pc'[t] = "attest_exec"
    BY <1>3, <2>1
       DEF ThreadStep, HandleRequest, GenerateStep, GenerateFails, StoreStep, ReadKey,
       AttestKey, DecryptZip, DecryptCsv, ExecuteBundle, FinishRun, CollectOutputFiles,
       Released, CleanupSession,
       AttestExecution, Send, Goto, Reply, TypeOK, FirstStep, KeyOps
  <2>2. CASE resp'[t].kind = "result"
    <3>1. pc[t] # "send" => resp[t].kind # "result"
      BY DEF Control, ControlOf
    <3>2. ASSUME NEW r \in Requests, HandleRequest(t, r)
          PROVE  FALSE
      BY <2>2, <3>1, <3>2
         DEF HandleRequest, Goto, Reply, TypeOK, ErrorResp, Response
    <3>3. ASSUME AttestKey(t)
          PROVE  FALSE
      BY <2>2, <3>3 DEF AttestKey, Reply, TypeOK, Response
    <3>4. ASSUME Send(t)
          PROVE  FALSE
      BY <2>2, <3>4 DEF Send, TypeOK, NoResp, Response
    <3> QED
      BY <1>3, <2>2, <3>1, <3>2, <3>3, <3>4
         DEF ThreadStep, GenerateStep, GenerateFails, StoreStep, ReadKey, DecryptZip,
         DecryptCsv, ExecuteBundle, FinishRun, CollectOutputFiles, Released,
         CleanupSession, AttestExecution,
         Goto, Reply, TypeOK, ErrorResp, Response
  <2> QED
    BY <1>3, <2>1, <2>2
<1>4. ASSUME NEW t \in Callers, ThreadStep(t) \/ \E r \in Requests : HandleRequest(t, r),
             NEW u \in Callers, pc'[u] = "attest_exec" \/ resp'[u].kind = "result"
      PROVE  loc'[u].keys \subseteq erased'
  <2>1. CASE u # t
    BY <1>1, <1>4, <2>1, OthersUnchanged DEF KeyErasedBeforeResult
  <2>2. CASE u = t /\ CleanupSession(t)
    BY <1>2, <2>2
  <2>3. CASE u = t /\ AttestExecution(t) /\ pc[t] = "attest_exec"
    BY <1>1, <2>3 DEF KeyErasedBeforeResult, AttestExecution
  <2> QED
    BY <1>3, <1>4, <2>1, <2>2, <2>3
<1>5. CASE UNCHANGED handlerVars
  BY <1>1, <1>5 DEF handlerVars, KeyErasedBeforeResult
<1> QED
  BY <1>4, <1>5 DEF Next, Background, vars, KeyErasedBeforeResult

\* Only Send changes what was delivered.
LEMMA DeliveredStep ==
    ASSUME TypeOK, NEW t \in Callers,
           ThreadStep(t) \/ \E r \in Requests : HandleRequest(t, r)
    PROVE  \/ delivered' = delivered
           \/ /\ Send(t)
              /\ resp[t].kind = "result"
              /\ delivered' = delivered \cup loc[t].keys
  BY DEF ThreadStep, HandleRequest, GenerateStep, GenerateFails, StoreStep, ReadKey,
     AttestKey, DecryptZip, DecryptCsv, ExecuteBundle, FinishRun, CollectOutputFiles,
     Released, CleanupSession,
     AttestExecution, Send

\* A step keeps DeliveredErased: what Send adds was erased before.
LEMMA DeliveredErasedStep ==
    ASSUME TypeOK, StoreInv, Control, KeyErasedBeforeResult, DeliveredErased, [Next]_vars
    PROVE  DeliveredErased'
<1>1. erased \subseteq erased'
  BY StepIsStoreStep, HistoryGrows
<1>2. ASSUME NEW t \in Callers, ThreadStep(t) \/ \E r \in Requests : HandleRequest(t, r)
      PROVE  DeliveredErased'
  <2>1. delivered \subseteq delivered' /\ delivered' \subseteq erased'
    BY <1>1, <1>2, DeliveredStep DEF DeliveredErased, KeyErasedBeforeResult
  <2>2. ASSUME NEW u \in Callers
        PROVE  loc'[u].spent \subseteq delivered'
    <3>1. CASE u # t
      BY <1>2, <2>1, <3>1, OthersUnchanged DEF DeliveredErased
    <3>2. CASE u = t /\ GoesOn(t)
      BY <2>1, <3>2 DEF DeliveredErased, GoesOn
    <3>3. ASSUME u = t, NEW r \in Requests, HandleRequest(t, r)
          PROVE  loc'[u].spent \subseteq delivered'
      BY <2>1, <3>3 DEF HandleRequest, TypeOK, NoLocal
    <3>4. CASE u = t /\ Send(t)
      BY <3>4 DEF Send, TypeOK, NoLocal
    <3> QED
      BY <1>2, <3>1, <3>2, <3>3, <3>4, KeysStep
  <2> QED
    BY <2>1, <2>2 DEF DeliveredErased
<1>3. CASE UNCHANGED handlerVars
  BY <1>1, <1>3 DEF handlerVars, DeliveredErased
<1> QED
  BY <1>2, <1>3 DEF Next, Background, vars

\* A step keeps ReplayRefused: a key the store hands out was not erased, and what
\* had been delivered when the request came was.
LEMMA ReplayRefusedStep ==
    ASSUME TypeOK, StoreInv, Control, DeliveredErased, ReplayRefused, [Next]_vars
    PROVE  ReplayRefused'
<1>1. ASSUME NEW t \in Callers, ThreadStep(t) \/ \E r \in Requests : HandleRequest(t, r),
             NEW u \in Callers
      PROVE  loc'[u].keys \cap loc'[u].spent = {}
  <2>1. CASE u # t
    BY <1>1, <2>1, OthersUnchanged DEF ReplayRefused
  <2>2. CASE u = t /\ loc'[t].keys = {}
    BY <2>2
  <2>3. CASE u = t /\ GoesOn(t) /\ loc'[t].keys = loc[t].keys
    BY <2>3 DEF ReplayRefused, GoesOn
  <2>4. ASSUME u = t, GoesOn(t), NEW k \in Keys, Opened(t, k)
        PROVE  loc'[u].keys \cap loc'[u].spent = {}
    <3>1. k \notin loc[t].spent
      BY <2>4 DEF Opened, DeliveredErased
    <3> QED
      BY <2>4, <3>1 DEF Opened, GoesOn, ReplayRefused
  <2> QED
    BY <1>1, <2>1, <2>2, <2>3, <2>4, KeysStep
<1>2. CASE UNCHANGED handlerVars
  BY <1>2 DEF handlerVars, ReplayRefused
<1> QED
  BY <1>1, <1>2 DEF Next, Background, vars, ReplayRefused

\* Types, the key store's invariant and the handler's hold in the first state.
LEMMA HandlerInvInit == Init => TypeOK /\ StoreInv /\ HandlerInv
<1> SUFFICES ASSUME Init
             PROVE  TypeOK /\ StoreInv /\ HandlerInv
  OBVIOUS
<1>1. StoreTypeOK
  BY StoreAssumption DEF Init, StoreInit, StoreTypeOK
<1>2. StoreInv
  BY StoreInvInit DEF Init
<1>3. NoLocal \in Locals
  <2>1. 0 \in 0 .. MaxKeys
    BY StoreAssumption
  <2> QED
    BY <2>1 DEF NoLocal, Locals
<1>4. TypeOK
  BY <1>1, <1>3, ResponseTypes DEF Init, HandlerInit, TypeOK, Labels
<1>5. Control
  BY DEF Init, HandlerInit, Control, ControlOf, ExecuteLabels, NoResp, Response
<1>6. KeyTraced /\ DeliveredErased /\ KeyErasedBeforeResult /\ ReplayRefused
  BY DEF Init, HandlerInit, NoLocal, NoResp, Response,
     KeyTraced, DeliveredErased, KeyErasedBeforeResult, ReplayRefused
<1> QED
  BY <1>2, <1>4, <1>5, <1>6 DEF HandlerInv

\* Every step of the composition keeps them.
LEMMA HandlerInvStep ==
    TypeOK /\ StoreInv /\ HandlerInv /\ [Next]_vars => (TypeOK /\ StoreInv /\ HandlerInv)'
<1> SUFFICES ASSUME TypeOK, StoreInv, HandlerInv, [Next]_vars
             PROVE  (TypeOK /\ StoreInv /\ HandlerInv)'
  OBVIOUS
<1> USE DEF HandlerInv
<1>1. StoreTypeOK' /\ StoreInv'
  BY StepIsStoreStep, StoreTypeStep, StoreInvStep DEF TypeOK
<1>2. HandlerTypeOK'
  <2>1. CASE UNCHANGED vars
    BY <2>1 DEF vars, handlerVars, TypeOK, HandlerTypeOK
  <2> QED
    BY <2>1, HandlerTypeStep
<1>3. TypeOK'
  BY <1>1, <1>2 DEF TypeOK, HandlerTypeOK
<1>4. Control' /\ KeyTraced' /\ KeyErasedBeforeResult'
  BY ControlStep, KeyTracedStep, KeyErasedStep
<1>5. DeliveredErased' /\ ReplayRefused'
  BY DeliveredErasedStep, ReplayRefusedStep
<1> QED
  BY <1>1, <1>3, <1>4, <1>5

-----------------------------------------------------------------------------
(* Theorems.                                                               *)

\* The invariant holds in every reachable state.
THEOREM HandlerInvariant == Spec => [](TypeOK /\ StoreInv /\ HandlerInv)
  BY HandlerInvInit, HandlerInvStep, PTL DEF Spec

\* The variables of the request handler and the key store keep their types.
THEOREM TypeCorrect == Spec => []TypeOK
  BY HandlerInvariant, PTL

\* The request handler uses the key store only as its specification allows, so
\* what KeyPairManagerProofs shows of the store holds inside the enclave.
THEOREM HandlerKeepsStore == Spec => StoreSpec
<1>1. Init => StoreInit
  BY DEF Init
<1>2. TypeOK /\ HandlerInv /\ [Next]_vars => [StoreNext]_storeVars
  BY StepIsStoreStep DEF HandlerInv
<1> QED
  BY <1>1, <1>2, HandlerInvariant, PTL DEF Spec, StoreSpec

\* No result is attested or sent while a private key that opened its inputs is
\* still in the key store.
THEOREM ErasedBeforeResult == Spec => []KeyErasedBeforeResult
<1>1. HandlerInv => KeyErasedBeforeResult
  BY DEF HandlerInv
<1> QED
  BY <1>1, HandlerInvariant, PTL

\* A request that comes after the result of an execution was sent never runs on
\* inputs encrypted to the same key.
THEOREM NoReplay == Spec => []ReplayRefused
<1>1. HandlerInv => ReplayRefused
  BY DEF HandlerInv
<1> QED
  BY <1>1, HandlerInvariant, PTL

-----------------------------------------------------------------------------
(* The handler implements KeyCustody.                                      *)

\* The refinement mapping's value of custody and opened.
CustodyOf == [k \in Keys |-> IF k > keys_made THEN "unborn"
                             ELSE IF k \in erased THEN "erased" ELSE "held"]

OpenedOf == [t \in Callers |-> loc[t].keys]

\* In the key store, a step either makes the next key pair or erases keys that
\* were made and not erased before.
LEMMA StoreCustody ==
    ASSUME StoreTypeOK, StoreInv, [StoreNext]_storeVars
    PROVE  \/ /\ keys_made' = keys_made + 1
              /\ keys_made + 1 \in Keys
              /\ erased' = erased
           \/ /\ keys_made' = keys_made
              /\ \E X \in SUBSET Keys : /\ erased' = erased \cup X
                                        /\ \A k \in X : k <= keys_made /\ k \notin erased
<1>1. ASSUME NEW S \in SUBSET SessionIds
      PROVE  /\ KeysAt(S) \in SUBSET Keys
             /\ \A k \in KeysAt(S) : k <= keys_made /\ k \notin erased
  <2>1. KeysAt(S) \in SUBSET Keys
    BY EntryTypes DEF KeysAt
  <2>2. ASSUME NEW s \in S, Has(s)
        PROVE  active_sessions[s].key <= keys_made /\ active_sessions[s].key \notin erased
    <3>1. <<s, active_sessions[s].key>> \in issued /\ active_sessions[s].key \notin erased
      BY <2>2 DEF StoreInv, StoredBound
    <3> QED
      BY <3>1 DEF StoreInv, KeysNumbered
  <2> QED
    BY <2>1, <2>2 DEF KeysAt
<1>2. ASSUME NEW c \in Callers, NEW job \in Jobs, NEW ks \in KeySizes,
             GenerateKeypair(c, job, ks)
      PROVE  keys_made' = keys_made + 1 /\ keys_made + 1 \in Keys /\ erased' = erased
  BY <1>2, StoreAssumption DEF GenerateKeypair, StoreTypeOK, Keys
<1>3. ASSUME NEW S \in SUBSET SessionIds, erased' = erased \cup KeysAt(S)
      PROVE  \E X \in SUBSET Keys : /\ erased' = erased \cup X
                                    /\ \A k \in X : k <= keys_made /\ k \notin erased
  BY <1>1, <1>3
<1>4. ASSUME erased' = erased
      PROVE  \E X \in SUBSET Keys : /\ erased' = erased \cup X
                                    /\ \A k \in X : k <= keys_made /\ k \notin erased
  <2> WITNESS {} \in SUBSET Keys
  <2> QED
    BY <1>4
<1>5. ASSUME NEW c \in Callers, StoreSession(c)
      PROVE  keys_made' = keys_made /\ \E S \in SUBSET SessionIds : erased' = erased \cup KeysAt(S)
  <2>1. {prepared[c].sid} \in SUBSET SessionIds
    BY <1>5, EntryTypes DEF StoreSession
  <2> QED
    BY <1>5, <2>1 DEF StoreSession
<1>6. ASSUME NEW s \in SessionIds, GetValidSession(s) \/ DeleteKeypair(s)
      PROVE  keys_made' = keys_made /\ \E S \in SUBSET SessionIds : erased' = erased \cup KeysAt(S)
  BY <1>6 DEF GetValidSession, DeleteKeypair, DelSessions
<1>7. ASSUME PurgeExpiredSessions
      PROVE  keys_made' = keys_made /\ \E S \in SUBSET SessionIds : erased' = erased \cup KeysAt(S)
  <2>1. {s \in SessionIds : Has(s) /\ PurgeExpired(active_sessions[s])}
          \in SUBSET SessionIds
    OBVIOUS
  <2> QED
    BY <1>7, <2>1 DEF PurgeExpiredSessions, DelSessions
<1>8. ASSUME PurgeWake \/ Tick \/ UNCHANGED storeVars
      PROVE  keys_made' = keys_made /\ erased' = erased
  BY <1>8 DEF PurgeWake, Tick, storeVars
<1> QED
  BY <1>2, <1>3, <1>4, <1>5, <1>6, <1>7, <1>8 DEF StoreNext, CallerStep

\* A store step while nobody opens anything maps to Generate or to Erase.
LEMMA StoreStepMaps ==
    ASSUME TypeOK, StoreInv, [StoreNext]_storeVars,
           OpenedOf' = OpenedOf, delivered' = delivered
    PROVE  Custody!CustodyNext
<1>1. keys_made \in Nat /\ erased \subseteq Keys /\ Keys \subseteq Nat
  BY DEF TypeOK, StoreTypeOK, Keys
<1>2. CASE /\ keys_made' = keys_made + 1
           /\ keys_made + 1 \in Keys
           /\ erased' = erased
  <2>1. PICK n \in Keys : n = keys_made + 1
    BY <1>2
  <2>2. n \notin erased
    BY <1>1, <2>1 DEF StoreInv, KeysNumbered
  <2>3. CustodyOf[n] = "unborn"
    BY <1>1, <2>1 DEF CustodyOf
  <2>4. ASSUME NEW k \in Keys
        PROVE  CustodyOf'[k] = IF k = n THEN "held" ELSE CustodyOf[k]
    <3>1. k > keys_made' <=> k > keys_made /\ k # n
      BY <1>1, <1>2, <2>1
    <3>2. n > keys_made
      BY <1>1, <2>1
    <3> QED
      BY <1>2, <2>2, <3>1, <3>2 DEF CustodyOf
  <2>5. CustodyOf' = [CustodyOf EXCEPT ![n] = "held"]
    BY <2>4 DEF CustodyOf
  <2>6. Custody!Generate(n)
    BY <2>3, <2>5 DEF Custody!Generate, CustodyOf, OpenedOf
  <2> QED
    BY <2>6 DEF Custody!CustodyNext
<1>3. ASSUME keys_made' = keys_made, NEW X \in SUBSET Keys, erased' = erased \cup X,
             \A k \in X : k <= keys_made /\ k \notin erased
      PROVE  Custody!CustodyNext
  <2>1. \A k \in X : CustodyOf[k] = "held"
    BY <1>1, <1>3 DEF CustodyOf
  <2>2. CustodyOf' = [k \in Keys |-> IF k \in X THEN "erased" ELSE CustodyOf[k]]
    BY <1>1, <1>3 DEF CustodyOf
  <2>3. Custody!Erase(X)
    BY <2>1, <2>2 DEF Custody!Erase, CustodyOf, OpenedOf
  <2> QED
    BY <2>3 DEF Custody!CustodyNext
<1> QED
  BY <1>2, <1>3, StoreCustody DEF TypeOK

\* A step of a thread maps to a step of KeyCustody.
LEMMA ThreadStepMaps ==
    ASSUME TypeOK, StoreInv, HandlerInv, NEW t \in Callers,
           ThreadStep(t) \/ \E r \in Requests : HandleRequest(t, r)
    PROVE  Custody!CustodyNext
<1>1. [StoreNext]_storeVars
  BY StepIsStoreStep DEF Next, HandlerInv
<1>2. \A u \in Callers : u # t => loc'[u].keys = loc[u].keys
  BY OthersUnchanged
<1>3. CASE GoesOn(t) /\ loc'[t].keys = loc[t].keys
  <2>1. OpenedOf' = OpenedOf
    BY <1>2, <1>3 DEF OpenedOf
  <2> QED
    BY <1>1, <1>3, <2>1, StoreStepMaps DEF GoesOn
<1>4. ASSUME GoesOn(t), NEW k \in Keys, Opened(t, k)
      PROVE  Custody!CustodyNext
  <2>1. k <= keys_made
    BY <1>4 DEF Opened, StoreInv, KeysNumbered
  <2>2. CustodyOf[k] = "held"
    BY <1>4, <2>1 DEF CustodyOf, Opened, TypeOK, StoreTypeOK, Keys
  <2>3. OpenedOf' = [OpenedOf EXCEPT ![t] = OpenedOf[t] \cup {k}]
    BY <1>2, <1>4 DEF OpenedOf, Opened
  <2>4. CustodyOf' = CustodyOf /\ delivered' = delivered
    BY <1>4 DEF CustodyOf, Opened, GoesOn
  <2>5. Custody!Open(t, k)
    BY <2>2, <2>3, <2>4 DEF Custody!Open, CustodyOf, OpenedOf
  <2> QED
    BY <1>4, <2>5 DEF Custody!CustodyNext
<1>5. ASSUME loc'[t].keys = {}, Send(t) \/ \E r \in Requests : HandleRequest(t, r)
      PROVE  Custody!CustodyNext
  <2>1. OpenedOf' = [OpenedOf EXCEPT ![t] = {}]
    BY <1>2, <1>5 DEF OpenedOf
  <2>2. CustodyOf' = CustodyOf
    BY <1>5 DEF Send, HandleRequest, storeVars, CustodyOf
  <2>3. CASE delivered' = delivered
    <3>1. Custody!Abandon(t)
      BY <2>1, <2>2, <2>3 DEF Custody!Abandon, CustodyOf, OpenedOf
    <3> QED
      BY <3>1 DEF Custody!CustodyNext
  <2>4. CASE resp[t].kind = "result" /\ delivered' = delivered \cup loc[t].keys
    <3>1. \A k \in loc[t].keys : k \in erased /\ k <= keys_made /\ k \in Keys
      BY <2>4 DEF HandlerInv, KeyErasedBeforeResult, StoreInv, KeysNumbered, TypeOK,
         StoreTypeOK
    <3>2. \A k \in OpenedOf[t] : CustodyOf[k] = "erased"
      BY <3>1 DEF OpenedOf, CustodyOf, TypeOK, StoreTypeOK, Keys
    <3>3. Custody!Publish(t)
      BY <2>1, <2>2, <2>4, <3>2 DEF Custody!Publish, CustodyOf, OpenedOf
    <3> QED
      BY <3>3 DEF Custody!CustodyNext
  <2> QED
    BY <1>5, <2>3, <2>4, DeliveredStep DEF ThreadStep
<1> QED
  BY <1>3, <1>4, <1>5, KeysStep DEF HandlerInv

\* The request handler, the key store and the cleanup thread together implement
\* KeyCustody: keys are used only while held, and a result is sent only when the
\* keys behind it are erased.
THEOREM ImplementsKeyCustody == Spec => KeyCustodyKept
<1>1. Init => Custody!CustodyInit
  <2> SUFFICES ASSUME Init
               PROVE  Custody!CustodyInit
    OBVIOUS
  <2>1. CustodyOf = [k \in Keys |-> "unborn"]
    BY DEF Init, StoreInit, CustodyOf, Keys
  <2>2. OpenedOf = [t \in Callers |-> {}]
    BY DEF Init, HandlerInit, OpenedOf, NoLocal
  <2> QED
    BY <2>1, <2>2 DEF Init, HandlerInit, Custody!CustodyInit, CustodyOf, OpenedOf
<1>2. TypeOK /\ StoreInv /\ HandlerInv /\ [Next]_vars
        => [Custody!CustodyNext]_Custody!custodyVars
  <2> SUFFICES ASSUME TypeOK, StoreInv, HandlerInv, [Next]_vars
               PROVE  [Custody!CustodyNext]_Custody!custodyVars
    OBVIOUS
  <2>1. ASSUME NEW t \in Callers, ThreadStep(t) \/ \E r \in Requests : HandleRequest(t, r)
        PROVE  Custody!CustodyNext
    BY <2>1, ThreadStepMaps
  <2>2. CASE UNCHANGED handlerVars
    <3>1. OpenedOf' = OpenedOf /\ delivered' = delivered
      BY <2>2 DEF handlerVars, OpenedOf
    <3> QED
      BY <3>1, StepIsStoreStep, StoreStepMaps DEF HandlerInv
  <2> QED
    BY <2>1, <2>2 DEF Next, Background, vars
<1> QED
  BY <1>1, <1>2, HandlerInvariant, PTL DEF Spec, KeyCustodyKept, Custody!CustodySpec

-----------------------------------------------------------------------------
(* What an execution ran on, and what its response says.                   *)

\* A client has got the public key, so it has been stored: unlike a key that a
\* thread is about to store, it can only go from the dictionary to erased.
Published(k) == k \in StoredKeys \cup erased \cup {0}

AfterZip == {"decrypt_csv", "execute", "running", "collect", "blocked", "cleanup",
             "attest_exec"}

\* The thread's own variables: the only key in use is the bundle's, ok is set by
\* a run and by nothing else, and what a run injected is what its proof will hash.
RunOf(t) ==
    /\ \A k \in loc[t].keys : k = req[t].zip.key
    /\ pc[t] \in AfterZip => req[t].zip.key \in loc[t].keys
    /\ pc[t] \notin {"cleanup", "attest_exec", "send"} => ~ loc[t].ok
    /\ pc[t] = "attest_exec" => loc[t].ok
    /\ pc[t] \in {"running", "collect", "blocked"} \/ loc[t].ok =>
         loc[t].injected = HashOf(loc[t].dataset)
    /\ pc[t] # "send" => resp[t].doc = NoDoc /\ resp[t].key = 0

\* Its relation to the key store: the key of the dataset is published, and once
\* the bundle is open the session holds the bundle's key or one the dataset is not
\* encrypted to; the key about to be attested was issued for its session.
InputsOf(t) ==
    /\ pc[t] \in {"decrypt_zip", "decrypt_csv"} /\ req[t].csv # Absent =>
         Published(req[t].csv.key)
    /\ pc[t] = "decrypt_csv" =>
         \/ req[t].csv.key = req[t].zip.key
         \/ ~ Has(req[t].sid)
         \/ active_sessions[req[t].sid].key # req[t].csv.key
    /\ pc[t] = "attest_key" => <<loc[t].sid, loc[t].pub>> \in issued

ReportInv ==
    /\ \A t \in Callers : RunOf(t)
    /\ \A t \in Callers : InputsOf(t)
    /\ AttestedKeyIsOurs
    /\ ProofMatchesRun
    /\ Backend = "nitro" => SuccessReported

\* A published key stays published: it can only be erased.
LEMMA PublishedStays ==
    ASSUME StoreTypeOK, [StoreNext]_storeVars, NEW k, Published(k)
    PROVE  Published(k)'
<1>1. erased \subseteq erased'
  BY HistoryGrows
<1>2. ASSUME k \in StoredKeys
      PROVE  Published(k)'
  <2>1. PICK s \in SessionIds : At(k, s)
    BY <1>2 DEF StoredKeys, KeysAt, At
  <2>2. AtNext(k, s)
    BY <2>1, TraceStep
  <2> QED
    BY <2>2 DEF AtNext, Published, StoredKeys, KeysAt, Has
<1> QED
  BY <1>1, <1>2 DEF Published

\* A published key is not about to be stored, so no step puts it under an id that
\* does not hold it now.
LEMMA PublishedNotStored ==
    ASSUME StoreTypeOK, StoreInv, [StoreNext]_storeVars, NEW s \in SessionIds,
           NEW k, Published(k), ~ Has(s) \/ active_sessions[s].key # k
    PROVE  ~ Has(s)' \/ active_sessions'[s].key # k
<1>1. ASSUME NEW S \in SUBSET SessionIds, DelSessions(S)
      PROVE  ~ Has(s)' \/ active_sessions'[s].key # k
  BY <1>1 DEF DelSessions, Has
<1>2. ASSUME NEW c \in Callers, StoreSession(c)
      PROVE  ~ Has(s)' \/ active_sessions'[s].key # k
  <2>1. CASE s = prepared[c].sid
    <3>1. active_sessions'[s] = prepared[c].data
      BY <1>2, <2>1 DEF StoreSession, StoreTypeOK
    <3>2. prepared[c].data.key # 0
      BY <1>2, EntryTypes DEF StoreSession, Session, Keys
    <3>3. prepared[c].data.key \notin StoredKeys \cup erased
      BY <1>2 DEF StoreSession, StoreInv, PreparedBound, StoredKeys, KeysAt
    <3> QED
      BY <3>1, <3>2, <3>3 DEF Published
  <2>2. CASE s # prepared[c].sid
    BY <1>2, <2>2 DEF StoreSession, StoreTypeOK, Has
  <2> QED
    BY <2>1, <2>2
<1>3. ASSUME active_sessions' = active_sessions
      PROVE  ~ Has(s)' \/ active_sessions'[s].key # k
  BY <1>3 DEF Has
<1>4. ASSUME NEW r \in SessionIds, GetValidSession(r) \/ DeleteKeypair(r)
      PROVE  ~ Has(s)' \/ active_sessions'[s].key # k
  BY <1>1, <1>4 DEF GetValidSession, DeleteKeypair
<1>5. ASSUME PurgeExpiredSessions
      PROVE  ~ Has(s)' \/ active_sessions'[s].key # k
  <2>1. {r \in SessionIds : Has(r) /\ PurgeExpired(active_sessions[r])}
          \in SUBSET SessionIds
    OBVIOUS
  <2> QED
    BY <1>1, <1>5, <2>1 DEF PurgeExpiredSessions
<1> QED
  BY <1>2, <1>3, <1>4, <1>5
     DEF StoreNext, CallerStep, GenerateKeypair, PurgeWake, Tick, storeVars

\* The local variables that RunOf speaks of stay as they are.
SameRun(t) ==
    /\ req'[t] = req[t]
    /\ loc'[t].keys = loc[t].keys
    /\ loc'[t].ok = loc[t].ok
    /\ loc'[t].injected = loc[t].injected
    /\ loc'[t].dataset = loc[t].dataset

\* The steps that do not set them.
LEMMA SameRunSteps ==
    ASSUME TypeOK, NEW t \in Callers,
           \/ GenerateStep(t) \/ GenerateFails(t) \/ StoreStep(t) \/ ReadKey(t)
           \/ AttestKey(t) \/ CleanupSession(t) \/ AttestExecution(t)
    PROVE  SameRun(t)
<1>1. CASE \/ GenerateStep(t) \/ GenerateFails(t) \/ AttestKey(t) \/ CleanupSession(t)
           \/ AttestExecution(t)
  BY <1>1 DEF GenerateStep, GenerateFails, AttestKey, CleanupSession, AttestExecution,
     SameRun
<1>2. CASE StoreStep(t) \/ ReadKey(t)
  BY <1>2 DEF StoreStep, ReadKey, SameRun, TypeOK, Locals
<1> QED
  BY <1>1, <1>2

\* A request is answered at once, without a document, or dispatched to a service.
LEMMA FirstLabel ==
    ASSUME TypeOK, NEW t \in Callers, NEW r \in Requests, HandleRequest(t, r)
    PROVE  \/ pc'[t] = "send" /\ resp'[t].doc = NoDoc
           \/ pc'[t] \in {"generate", "read_key", "decrypt_zip"} /\ resp'[t] = resp[t]
<1>1. \A op \in DOMAIN FirstStep : FirstStep[op] \in {"generate", "read_key", "decrypt_zip"}
  BY DEF FirstStep, KeyOps
<1>2. CASE ValidRequest(r) /\ r.op \in DOMAIN FirstStep
  BY <1>1, <1>2 DEF HandleRequest, Goto, TypeOK
<1>3. CASE ~ (ValidRequest(r) /\ r.op \in DOMAIN FirstStep)
  <2>1. PICK x \in {Response("info", TRUE, 0, NoDoc), ErrorResp} : Reply(t, x)
    BY <1>3 DEF HandleRequest
  <2>2. x.doc = NoDoc
    BY DEF ErrorResp, Response
  <2> QED
    BY <2>1, <2>2 DEF Reply, TypeOK
<1> QED
  BY <1>2, <1>3

\* After a step of thread t, RunOf holds of it.
LEMMA RunOfStep ==
    ASSUME TypeOK, StoreInv, Control, NEW t \in Callers, RunOf(t), InputsOf(t), KeyTraced,
           ThreadStep(t) \/ \E r \in Requests : HandleRequest(t, r)
    PROVE  RunOf(t)'
<1>1. ASSUME NEW r \in Requests, HandleRequest(t, r)
      PROVE  RunOf(t)'
  <2>1. /\ loc'[t] = [NoLocal EXCEPT !.sid = r.sid, !.spent = delivered]
        /\ pc[t] = "idle"
    BY <1>1 DEF HandleRequest, TypeOK
  <2>2. loc'[t].keys = {} /\ loc'[t].ok = FALSE
    BY <2>1 DEF NoLocal
  <2>3. \/ pc'[t] = "send"
        \/ pc'[t] \in {"generate", "read_key", "decrypt_zip"} /\ resp'[t] = resp[t]
    BY <1>1, FirstLabel
  <2> QED
    BY <2>1, <2>2, <2>3 DEF RunOf, AfterZip
<1>2. ASSUME GenerateStep(t) \/ GenerateFails(t) \/ StoreStep(t) \/ ReadKey(t) \/ AttestKey(t)
      PROVE  RunOf(t)'
  <2>1. SameRun(t)
    BY <1>2, SameRunSteps
  <2>2. /\ pc[t] \in {"generate", "store", "read_key", "attest_key"}
        /\ \/ pc'[t] = "send"
           \/ pc'[t] \in {"store", "read_key", "attest_key"} /\ resp'[t] = resp[t]
    <3>1. CASE GenerateStep(t) \/ GenerateFails(t) \/ StoreStep(t)
      BY <3>1 DEF GenerateStep, GenerateFails, StoreStep, Goto, Reply, TypeOK
    <3>2. CASE ReadKey(t)
      BY <3>2 DEF ReadKey, Goto, Reply, TypeOK
    <3>3. CASE AttestKey(t)
      BY <3>3 DEF AttestKey, Reply, TypeOK
    <3> QED
      BY <1>2, <3>1, <3>2, <3>3
  <2> QED
    BY <2>1, <2>2 DEF RunOf, SameRun, AfterZip
<1>3. ASSUME CleanupSession(t) \/ AttestExecution(t)
      PROVE  RunOf(t)'
  <2>1. SameRun(t)
    BY <1>3, SameRunSteps
  <2>2. \/ pc'[t] = "send"
        \/ /\ pc[t] = "cleanup" /\ pc'[t] = "attest_exec" /\ resp'[t] = resp[t]
           /\ loc[t].ok
    BY <1>3 DEF CleanupSession, AttestExecution, Goto, Reply, TypeOK
  <2> QED
    BY <2>1, <2>2 DEF RunOf, SameRun, AfterZip
<1>4. ASSUME DecryptZip(t) \/ DecryptCsv(t)
      PROVE  RunOf(t)'
  <2>1. /\ req'[t] = req[t] /\ pc[t] \in {"decrypt_zip", "decrypt_csv"}
        /\ req[t].sid \in SessionIds
        /\ GetValidSession(req[t].sid)
    BY <1>4 DEF DecryptZip, DecryptCsv, Control, ControlOf, ExecuteLabels
  <2>2. CASE \/ DecryptZip(t) /\ ~ Opens(req[t].sid, req[t].zip)
             \/ DecryptCsv(t) /\ ~ Opens(req[t].sid, req[t].csv)
    <3>1. pc'[t] = "send" /\ loc' = loc
      BY <2>2 DEF DecryptZip, DecryptCsv, Reply, TypeOK
    <3> QED
      BY <2>1, <3>1 DEF RunOf, AfterZip
  <2>3. CASE DecryptZip(t) /\ Opens(req[t].sid, req[t].zip)
    <3>1. /\ loc'[t].keys = loc[t].keys \cup {req[t].zip.key}
          /\ loc'[t].ok = loc[t].ok
      BY <2>3 DEF DecryptZip, Opens, TypeOK, Locals
    <3>2. pc'[t] \in {"decrypt_csv", "execute"} /\ resp'[t] = resp[t]
      BY <2>3 DEF DecryptZip, Goto, TypeOK
    <3> QED
      BY <2>1, <3>1, <3>2 DEF RunOf
  <2>4. CASE DecryptCsv(t) /\ Opens(req[t].sid, req[t].csv)
    <3>1. loc'[t] = [loc[t] EXCEPT !.keys = @ \cup {Lookup(req[t].sid)},
                                   !.dataset = req[t].csv.data]
      BY <2>4 DEF DecryptCsv, TypeOK
    <3>2. loc[t] \in Locals
      BY DEF TypeOK
    <3>3. loc'[t].keys = loc[t].keys \cup {req[t].csv.key} /\ loc'[t].ok = loc[t].ok
      BY <2>4, <3>1, <3>2 DEF Locals, Opens
    <3>4. req[t].csv.key = req[t].zip.key
      BY <2>1, <2>4, LookupTypes DEF InputsOf, DecryptCsv, Opens, TypeOK
    <3>5. pc'[t] = "execute" /\ resp'[t] = resp[t] /\ pc[t] = "decrypt_csv"
      BY <2>4 DEF DecryptCsv, Goto, TypeOK
    <3> QED
      BY <2>1, <3>3, <3>4, <3>5 DEF RunOf, AfterZip
  <2> QED
    BY <1>4, <2>2, <2>3, <2>4 DEF DecryptZip, DecryptCsv
<1>5. ASSUME ExecuteBundle(t)
      PROVE  RunOf(t)'
  <2>1. /\ req'[t] = req[t] /\ resp'[t] = resp[t] /\ pc[t] = "execute"
        /\ loc'[t].keys = loc[t].keys /\ loc'[t].ok = loc[t].ok
        /\ loc'[t].dataset = loc[t].dataset
        /\ \/ pc'[t] = "cleanup"
           \/ pc'[t] = "running" /\ loc'[t].injected = HashOf(loc[t].dataset)
    BY <1>5 DEF ExecuteBundle, Goto, TypeOK, Locals
  <2> QED
    BY <2>1 DEF RunOf, AfterZip
<1>6. ASSUME FinishRun(t) \/ CollectOutputFiles(t) \/ Released(t)
      PROVE  RunOf(t)'
  <2>1. /\ req'[t] = req[t] /\ resp'[t] = resp[t]
        /\ \/ pc[t] = "running" /\ pc'[t] \in {"collect", "cleanup"} /\ loc'[t].ok = loc[t].ok
           \/ /\ pc[t] \in {"collect", "blocked"} /\ pc'[t] = "cleanup"
              /\ loc'[t].ok \in BOOLEAN
           \/ pc[t] = "collect" /\ pc'[t] = "blocked" /\ loc'[t].ok = loc[t].ok
        /\ loc'[t].keys = loc[t].keys
        /\ loc'[t].dataset = loc[t].dataset /\ loc'[t].injected = loc[t].injected
    BY <1>6 DEF FinishRun, CollectOutputFiles, Released, Goto, TypeOK, Locals
  <2> QED
    BY <2>1 DEF RunOf, AfterZip
<1>7. ASSUME Send(t)
      PROVE  RunOf(t)'
  BY <1>7 DEF Send, TypeOK, RunOf, AfterZip, NoLocal, NoResp, Response
<1> QED
  BY <1>1, <1>2, <1>3, <1>4, <1>5, <1>6, <1>7 DEF ThreadStep

\* After a step of anybody, InputsOf holds of a thread that did not move.
LEMMA InputsOfStays ==
    ASSUME TypeOK, StoreInv, Control, [Next]_vars, NEW u \in Callers, InputsOf(u),
           pc'[u] = pc[u], req'[u] = req[u], loc'[u] = loc[u]
    PROVE  InputsOf(u)'
<1>1. [StoreNext]_storeVars
  BY StepIsStoreStep
<1>2. issued \subseteq issued'
  BY <1>1, HistoryGrows
<1>3. pc[u] \in {"decrypt_zip", "decrypt_csv"} /\ req[u].csv # Absent => Published(req[u].csv.key)'
  BY <1>1, PublishedStays DEF InputsOf, TypeOK
<1>4. pc[u] = "decrypt_csv" => req[u].sid \in SessionIds /\ Published(req[u].csv.key)
  BY HandlerAssumption DEF Control, ControlOf, ExecuteLabels, InputsOf
<1>5. pc[u] = "decrypt_csv" =>
        \/ req[u].csv.key = req[u].zip.key
        \/ ~ Has(req[u].sid)'
        \/ active_sessions'[req[u].sid].key # req[u].csv.key
  BY <1>1, <1>4, PublishedNotStored DEF InputsOf, TypeOK
<1>6. pc[u] = "attest_key" => <<loc[u].sid, loc[u].pub>> \in issued'
  BY <1>2 DEF InputsOf
<1> QED
  BY <1>3, <1>5, <1>6 DEF InputsOf, Has, Published

\* After a step of thread t, InputsOf holds of it.
LEMMA InputsOfStep ==
    ASSUME TypeOK, StoreInv, Control, NEW t \in Callers, InputsOf(t),
           ThreadStep(t) \/ \E r \in Requests : HandleRequest(t, r)
    PROVE  InputsOf(t)'
<1>1. ASSUME NEW r \in Requests, HandleRequest(t, r)
      PROVE  InputsOf(t)'
  <2>1. /\ req'[t] = r
        /\ r.csv # Absent => Published(r.csv.key)
        /\ UNCHANGED storeVars
    BY <1>1 DEF HandleRequest, TypeOK, Encryptable, Published
  <2>2. r.csv # Absent => Published(r.csv.key)'
    BY <2>1 DEF storeVars, Published, StoredKeys, KeysAt, Has
  <2>3. pc'[t] \in {"generate", "read_key", "decrypt_zip", "send"}
    BY <1>1, FirstLabel
  <2> QED
    BY <2>1, <2>2, <2>3 DEF InputsOf, Published
<1>2. ASSUME ReadKey(t)
      PROVE  InputsOf(t)'
  <2>1. loc[t].sid \in SessionIds /\ GetValidSession(loc[t].sid)
    BY <1>2 DEF ReadKey, Control, ControlOf
  <2>2. loc'[t].sid = loc[t].sid /\ loc'[t].pub = Lookup(loc[t].sid)
    BY <1>2 DEF ReadKey, TypeOK, Locals
  <2>3. pc'[t] = "attest_key" => Lookup(loc[t].sid) # 0
    BY <1>2 DEF ReadKey, Goto, Reply, TypeOK
  <2>4. pc'[t] \in {"attest_key", "send"}
    BY <1>2 DEF ReadKey, Goto, Reply, TypeOK
  <2>5. pc'[t] = "attest_key" => <<loc[t].sid, Lookup(loc[t].sid)>> \in issued'
    BY <2>1, <2>3, LookupKeeps DEF TypeOK, GetValidSession
  <2> QED
    BY <2>2, <2>4, <2>5 DEF InputsOf
<1>3. ASSUME DecryptZip(t)
      PROVE  InputsOf(t)'
  <2>1. req'[t] = req[t] /\ pc[t] = "decrypt_zip" /\ req[t].sid \in SessionIds
    BY <1>3 DEF DecryptZip, Control, ControlOf, ExecuteLabels
  <2>2. CASE pc'[t] # "decrypt_csv"
    <3>1. pc'[t] \in {"execute", "send"}
      BY <1>3, <2>2 DEF DecryptZip, Goto, Reply, TypeOK
    <3> QED
      BY <3>1 DEF InputsOf
  <2>3. CASE pc'[t] = "decrypt_csv"
    <3>1. Opens(req[t].sid, req[t].zip) /\ req[t].csv # Absent
      BY <1>3, <2>3 DEF DecryptZip, Goto, Reply, TypeOK
    <3>2. /\ active_sessions' = active_sessions /\ erased' = erased
          /\ active_sessions[req[t].sid].key = req[t].zip.key
      BY <1>3, <2>1, <3>1, LookupKeeps DEF DecryptZip, Opens, TypeOK
    <3>3. Published(req[t].csv.key)'
      BY <2>1, <3>1, <3>2 DEF InputsOf, Published, StoredKeys, KeysAt, Has
    <3> QED
      BY <2>1, <2>3, <3>2, <3>3 DEF InputsOf, Published
  <2> QED
    BY <2>2, <2>3
<1>4. ASSUME \/ GenerateStep(t) \/ GenerateFails(t) \/ StoreStep(t) \/ AttestKey(t)
             \/ DecryptCsv(t) \/ ExecuteBundle(t) \/ FinishRun(t)
             \/ CollectOutputFiles(t) \/ Released(t) \/ CleanupSession(t)
             \/ AttestExecution(t) \/ Send(t)
      PROVE  InputsOf(t)'
  <2>1. pc'[t] \notin {"decrypt_zip", "decrypt_csv", "attest_key"}
    BY <1>4 DEF GenerateStep, GenerateFails, StoreStep, AttestKey, DecryptCsv,
       ExecuteBundle, FinishRun, CollectOutputFiles, Released, CleanupSession,
       AttestExecution, Send, Goto, Reply, TypeOK
  <2> QED
    BY <2>1 DEF InputsOf
<1> QED
  BY <1>1, <1>2, <1>3, <1>4 DEF ThreadStep

\* Only the two attestation steps put a document into a response.
LEMMA DocumentStep ==
    ASSUME TypeOK, NEW t \in Callers, RunOf(t),
           ThreadStep(t) \/ \E r \in Requests : HandleRequest(t, r)
    PROVE  \/ resp'[t].doc = NoDoc
           \/ AttestKey(t)
           \/ AttestExecution(t)
<1>1. ASSUME NEW r \in Requests, HandleRequest(t, r)
      PROVE  resp'[t].doc = NoDoc
  <2>1. pc[t] = "idle"
    BY <1>1 DEF HandleRequest
  <2> QED
    BY <1>1, <2>1, FirstLabel DEF RunOf
<1>2. ASSUME ReadKey(t)
      PROVE  resp'[t].doc = NoDoc
  BY <1>2 DEF ReadKey, Goto, Reply, RunOf, TypeOK, ErrorResp, Response
<1>3. ASSUME \/ GenerateStep(t) \/ GenerateFails(t) \/ StoreStep(t) \/ DecryptZip(t)
             \/ DecryptCsv(t) \/ ExecuteBundle(t) \/ FinishRun(t)
             \/ CollectOutputFiles(t) \/ Released(t) \/ CleanupSession(t)
      PROVE  resp'[t].doc = NoDoc
  <2>1. (resp'[t] = resp[t] /\ pc[t] # "send") \/ resp'[t] = ErrorResp
    BY <1>3 DEF GenerateStep, GenerateFails, StoreStep, DecryptZip, DecryptCsv,
       ExecuteBundle, FinishRun, CollectOutputFiles, Released, CleanupSession, Goto,
       Reply, TypeOK
  <2> QED
    BY <2>1 DEF RunOf, ErrorResp, Response
<1>4. ASSUME Send(t)
      PROVE  resp'[t].doc = NoDoc
  BY <1>4 DEF Send, TypeOK, NoResp, Response
<1> QED
  BY <1>1, <1>2, <1>3, <1>4 DEF ThreadStep

\* The public key a response hands out is one of the session it names.
LEMMA HandedOutStep ==
    ASSUME TypeOK, StoreInv, Control, [Next]_vars,
           \A t \in Callers : RunOf(t) /\ InputsOf(t), AttestedKeyIsOurs,
           NEW u \in Callers, resp'[u].key # 0
    PROVE  <<loc'[u].sid, resp'[u].key>> \in issued'
<1>1. issued \subseteq issued'
  BY StepIsStoreStep, HistoryGrows
<1>2. ASSUME resp'[u] = resp[u], loc'[u] = loc[u]
      PROVE  <<loc'[u].sid, resp'[u].key>> \in issued'
  BY <1>1, <1>2 DEF AttestedKeyIsOurs
<1>3. ASSUME ReadKey(u)
      PROVE  <<loc'[u].sid, resp'[u].key>> \in issued'
  <2>1. loc[u].sid \in SessionIds /\ resp[u].key = 0 /\ loc'[u].sid = loc[u].sid
    BY <1>3 DEF ReadKey, Control, ControlOf, RunOf, TypeOK, Locals
  <2>2. resp'[u].key = Lookup(loc[u].sid)
    BY <1>3, <2>1 DEF ReadKey, Goto, Reply, TypeOK, ErrorResp, Response
  <2>3. <<loc[u].sid, Lookup(loc[u].sid)>> \in issued
    BY <1>3, <2>1, <2>2, LookupKeeps DEF ReadKey, TypeOK
  <2> QED
    BY <1>1, <2>1, <2>2, <2>3
<1>4. ASSUME AttestKey(u)
      PROVE  <<loc'[u].sid, resp'[u].key>> \in issued'
  <2>1. resp'[u].key \in {0, loc[u].pub} /\ loc' = loc
    BY <1>4 DEF AttestKey, Reply, TypeOK, Response
  <2> QED
    BY <1>1, <1>4, <2>1 DEF AttestKey, InputsOf
<1>5. ASSUME \/ GenerateStep(u) \/ GenerateFails(u) \/ StoreStep(u) \/ DecryptZip(u)
             \/ DecryptCsv(u) \/ ExecuteBundle(u) \/ FinishRun(u) \/ CollectOutputFiles(u)
             \/ Released(u) \/ CleanupSession(u) \/ Send(u)
      PROVE  FALSE
  <2>1. (resp'[u] = resp[u] /\ pc[u] # "send") \/ resp'[u] \in {ErrorResp, NoResp}
    BY <1>5 DEF GenerateStep, GenerateFails, StoreStep, DecryptZip, DecryptCsv,
       ExecuteBundle, FinishRun, CollectOutputFiles, Released, CleanupSession, Send,
       Goto, Reply, TypeOK
  <2> QED
    BY <2>1 DEF RunOf, ErrorResp, NoResp, Response
<1>6. ASSUME AttestExecution(u)
      PROVE  FALSE
  BY <1>6 DEF AttestExecution, Reply, TypeOK, ErrorResp, Response
<1>7. ASSUME NEW r \in Requests, HandleRequest(u, r)
      PROVE  FALSE
  BY <1>7 DEF HandleRequest, Goto, Reply, RunOf, TypeOK, ErrorResp, Response
<1>8. ASSUME NEW t \in Callers, ThreadStep(t) \/ \E r \in Requests : HandleRequest(t, r)
      PROVE  <<loc'[u].sid, resp'[u].key>> \in issued'
  <2>1. CASE u # t
    BY <1>2, <1>8, <2>1, OthersUnchanged
  <2>2. CASE u = t
    BY <1>3, <1>4, <1>5, <1>6, <1>7, <1>8, <2>2 DEF ThreadStep
  <2> QED
    BY <2>1, <2>2
<1>9. CASE UNCHANGED handlerVars
  BY <1>2, <1>9 DEF handlerVars
<1> QED
  BY <1>8, <1>9 DEF Next, Background, vars

\* A step keeps AttestedKeyIsOurs.
LEMMA AttestedKeyStep ==
    ASSUME TypeOK, StoreInv, Control, [Next]_vars,
           \A t \in Callers : RunOf(t) /\ InputsOf(t), AttestedKeyIsOurs
    PROVE  AttestedKeyIsOurs'
<1> DEFINE Ours(d, r, iss) ==
             d # NoDoc /\ d.kind # "proof" =>
               /\ \E s \in SessionIds : <<s, d.key>> \in iss
               /\ d.kind = "session_key" => <<d.sid, d.key>> \in iss
               /\ d.kind = "key_hash" => d.key = r.key
<1>1. issued \subseteq issued'
  BY StepIsStoreStep, HistoryGrows
<1>2. ASSUME NEW u \in Callers, resp'[u] = resp[u]
      PROVE  Ours(resp'[u].doc, resp'[u], issued')
  BY <1>1, <1>2 DEF AttestedKeyIsOurs
<1>3. ASSUME NEW t \in Callers, AttestKey(t)
      PROVE  Ours(resp'[t].doc, resp'[t], issued')
  <2>1. loc[t].sid \in SessionIds /\ <<loc[t].sid, loc[t].pub>> \in issued'
    BY <1>1, <1>3 DEF AttestKey, InputsOf, Control, ControlOf
  <2>2. PICK doc \in {KeyDoc(t), NoDoc} :
          resp'[t] = IF req[t].op = "get_attestation"
                     THEN Response("attestation", doc # NoDoc, 0, doc)
                     ELSE Response("session", TRUE, loc[t].pub, doc)
    BY <1>3 DEF AttestKey, GenerateAttestation, Reply, TypeOK
  <2>3. /\ resp'[t].doc = doc
        /\ req[t].op # "get_attestation" => resp'[t].key = loc[t].pub
    BY <2>2 DEF Response
  <2>4. CASE req[t].op = "get_attestation"
    <3>1. KeyDoc(t).kind = "session_key" /\ KeyDoc(t).sid = loc[t].sid /\ KeyDoc(t).key = loc[t].pub
      BY <2>4 DEF KeyDoc
    <3> QED
      BY <2>1, <2>3, <3>1
  <2>5. CASE req[t].op # "get_attestation"
    <3>1. KeyDoc(t).kind = "key_hash" /\ KeyDoc(t).key = loc[t].pub
      BY <2>5 DEF KeyDoc
    <3> QED
      BY <2>1, <2>3, <2>5, <3>1
  <2> QED
    BY <2>4, <2>5
<1>4. ASSUME NEW t \in Callers, AttestExecution(t)
      PROVE  Ours(resp'[t].doc, resp'[t], issued')
  <2>1. resp'[t].doc = NoDoc \/ resp'[t].doc.kind = "proof"
    BY <1>4 DEF AttestExecution, GenerateAttestation, ExecutionProof, Reply, TypeOK,
       ErrorResp, Response
  <2> QED
    BY <2>1
<1>5. ASSUME NEW t \in Callers, ThreadStep(t) \/ \E r \in Requests : HandleRequest(t, r),
             NEW u \in Callers
      PROVE  Ours(resp'[u].doc, resp'[u], issued')
  <2>1. CASE u # t
    BY <1>2, <1>5, <2>1, OthersUnchanged
  <2>2. CASE u = t /\ resp'[t].doc = NoDoc
    BY <2>2
  <2> QED
    BY <1>3, <1>4, <1>5, <2>1, <2>2, DocumentStep
<1>6. ASSUME UNCHANGED handlerVars, NEW u \in Callers
      PROVE  Ours(resp'[u].doc, resp'[u], issued')
  BY <1>2, <1>6 DEF handlerVars
<1>7. \A u \in Callers : Ours(resp'[u].doc, resp'[u], issued')
  <2> HIDE DEF Ours
  <2> QED
    BY <1>5, <1>6 DEF Next, Background, vars
<1>8. \A u \in Callers : resp'[u].key # 0 => <<loc'[u].sid, resp'[u].key>> \in issued'
  BY HandedOutStep
<1> QED
  BY <1>7, <1>8 DEF AttestedKeyIsOurs

\* A step keeps ProofMatchesRun: the proof is built from local variables that no
\* step between the run and the response changes, and by then the key is erased.
LEMMA ProofMatchesStep ==
    ASSUME TypeOK, StoreInv, HandlerInv, [Next]_vars,
           \A t \in Callers : RunOf(t), ProofMatchesRun
    PROVE  ProofMatchesRun'
<1> DEFINE Matches(d, l, r, iss, era) ==
             d # NoDoc /\ d.kind = "proof" =>
               /\ l.ok
               /\ d.dataset = l.injected
               /\ d.script = r.zip.data
               /\ <<d.sid, r.zip.key>> \in iss
               /\ r.zip.key \in era
<1>1. issued \subseteq issued' /\ erased \subseteq erased'
  BY StepIsStoreStep, HistoryGrows DEF HandlerInv
<1>2. ASSUME NEW u \in Callers, resp'[u] = resp[u], loc'[u] = loc[u], req'[u] = req[u]
      PROVE  Matches(resp'[u].doc, loc'[u], req'[u], issued', erased')
  BY <1>1, <1>2 DEF ProofMatchesRun
<1>3. ASSUME NEW t \in Callers, AttestKey(t)
      PROVE  resp'[t].doc = NoDoc \/ resp'[t].doc.kind # "proof"
  <2>1. KeyDoc(t).kind # "proof"
    BY DEF KeyDoc
  <2>2. PICK doc \in {KeyDoc(t), NoDoc} :
          resp'[t] = IF req[t].op = "get_attestation"
                     THEN Response("attestation", doc # NoDoc, 0, doc)
                     ELSE Response("session", TRUE, loc[t].pub, doc)
    BY <1>3 DEF AttestKey, GenerateAttestation, Reply, TypeOK
  <2> QED
    BY <2>1, <2>2 DEF Response
<1>4. ASSUME NEW t \in Callers, AttestExecution(t)
      PROVE  Matches(resp'[t].doc, loc'[t], req'[t], issued', erased')
  <2>1. loc'[t] = loc[t] /\ req'[t] = req[t] /\ pc[t] = "attest_exec"
    BY <1>4 DEF AttestExecution
  <2>2. loc[t].ok /\ loc[t].injected = HashOf(loc[t].dataset)
    BY <2>1 DEF RunOf
  <2>3. HashOf(req[t].zip.data) = req[t].zip.data
    <3>1. req[t].zip.data \in Bundles
      BY <2>1 DEF HandlerInv, Control, ControlOf, ExecuteLabels, Zips
    <3> QED
      BY <3>1, HandlerAssumption DEF HashOf, Truthy
  <2>4. <<req[t].sid, req[t].zip.key>> \in issued' /\ req[t].zip.key \in erased'
    <3>1. req[t].zip.key \in loc[t].keys
      BY <2>1 DEF RunOf, AfterZip
    <3> QED
      BY <1>1, <2>1, <3>1 DEF HandlerInv, KeyTraced, KeyErasedBeforeResult
  <2>5. resp'[t].doc \in {NoDoc, ExecutionProof(t)}
    BY <1>4 DEF AttestExecution, GenerateAttestation, Reply, TypeOK, ErrorResp, Response
  <2> QED
    BY <2>1, <2>2, <2>3, <2>4, <2>5 DEF ExecutionProof
<1>5. ASSUME NEW t \in Callers, ThreadStep(t) \/ \E r \in Requests : HandleRequest(t, r),
             NEW u \in Callers
      PROVE  Matches(resp'[u].doc, loc'[u], req'[u], issued', erased')
  <2>1. CASE u # t
    BY <1>2, <1>5, <2>1, OthersUnchanged
  <2>2. CASE u = t /\ (resp'[t].doc = NoDoc \/ AttestKey(t))
    BY <1>3, <2>2
  <2> QED
    BY <1>4, <1>5, <2>1, <2>2, DocumentStep
<1>6. CASE UNCHANGED handlerVars
  BY <1>2, <1>6 DEF handlerVars, ProofMatchesRun
<1> QED
  BY <1>5, <1>6 DEF Next, Background, vars, ProofMatchesRun

\* A step keeps SuccessReported where the attestation call fits the service: ok is
\* set only after the last step that can fail.
LEMMA SuccessStep ==
    ASSUME TypeOK, Control, [Next]_vars, Backend = "nitro",
           \A t \in Callers : RunOf(t), SuccessReported
    PROVE  SuccessReported'
<1>1. ASSUME NEW t \in Callers, ThreadStep(t) \/ \E r \in Requests : HandleRequest(t, r),
             pc'[t] = "send", loc'[t].ok, req'[t].atl_nonce # "malformed"
      PROVE  resp'[t].kind = "result"
  <2>1. ASSUME NEW r \in Requests, HandleRequest(t, r)
        PROVE  FALSE
    BY <1>1, <2>1 DEF HandleRequest, TypeOK, NoLocal
  <2>2. ASSUME \/ GenerateStep(t) \/ GenerateFails(t) \/ StoreStep(t) \/ ReadKey(t)
               \/ AttestKey(t)
        PROVE  FALSE
    <3>1. SameRun(t)
      BY <2>2, SameRunSteps
    <3>2. pc[t] \in {"generate", "store", "read_key", "attest_key"}
      BY <2>2 DEF GenerateStep, GenerateFails, StoreStep, ReadKey, AttestKey
    <3> QED
      BY <1>1, <3>1, <3>2 DEF SameRun, RunOf
  <2>3. ASSUME CleanupSession(t)
        PROVE  FALSE
    BY <1>1, <2>3 DEF CleanupSession, Goto, TypeOK
  <2>4. ASSUME DecryptZip(t) \/ DecryptCsv(t)
        PROVE  FALSE
    <3>1. loc' = loc
      BY <1>1, <2>4 DEF DecryptZip, DecryptCsv, Goto, TypeOK
    <3>2. pc[t] \in {"decrypt_zip", "decrypt_csv"}
      BY <2>4 DEF DecryptZip, DecryptCsv
    <3> QED
      BY <1>1, <3>1, <3>2 DEF RunOf
  <2>5. ASSUME ExecuteBundle(t) \/ FinishRun(t) \/ CollectOutputFiles(t)
               \/ Released(t) \/ Send(t)
        PROVE  FALSE
    BY <1>1, <2>5 DEF ExecuteBundle, FinishRun, CollectOutputFiles, Released, Send,
       Goto, TypeOK
  <2>6. ASSUME AttestExecution(t)
        PROVE  resp'[t].kind = "result"
    BY <1>1, <2>6 DEF AttestExecution, CallAccepted, Reply, TypeOK, Response
  <2> QED
    BY <1>1, <2>1, <2>2, <2>3, <2>4, <2>5, <2>6 DEF ThreadStep
<1>2. ASSUME NEW t \in Callers, ThreadStep(t) \/ \E r \in Requests : HandleRequest(t, r),
             NEW u \in Callers,
             pc'[u] = "send", loc'[u].ok, req'[u].atl_nonce # "malformed"
      PROVE  resp'[u].kind = "result"
  <2>1. CASE u # t
    BY <1>2, <2>1, OthersUnchanged DEF SuccessReported
  <2> QED
    BY <1>1, <1>2, <2>1
<1>3. CASE UNCHANGED handlerVars
  BY <1>3 DEF handlerVars, SuccessReported
<1> QED
  BY <1>2, <1>3 DEF Next, Background, vars, SuccessReported

\* ReportInv holds in the first state.
LEMMA ReportInvInit == Init => ReportInv
<1> SUFFICES ASSUME Init
             PROVE  ReportInv
  OBVIOUS
<1>1. \A t \in Callers : RunOf(t) /\ InputsOf(t)
  BY DEF Init, HandlerInit, RunOf, InputsOf, AfterZip, NoLocal, NoResp, Response
<1>2. \A t \in Callers : resp[t].doc = NoDoc /\ resp[t].key = 0 /\ pc[t] = "idle"
  BY DEF Init, HandlerInit, NoResp, Response
<1> QED
  BY <1>1, <1>2 DEF ReportInv, AttestedKeyIsOurs, ProofMatchesRun, SuccessReported

\* Every step keeps it, given the first invariant.
LEMMA ReportInvStep ==
    TypeOK /\ StoreInv /\ HandlerInv /\ ReportInv /\ [Next]_vars => ReportInv'
<1> SUFFICES ASSUME TypeOK, StoreInv, HandlerInv, ReportInv, [Next]_vars
             PROVE  ReportInv'
  OBVIOUS
<1>1. Control /\ KeyTraced /\ \A t \in Callers : RunOf(t) /\ InputsOf(t)
  BY DEF HandlerInv, ReportInv
<1>2. ASSUME NEW t \in Callers, ThreadStep(t) \/ \E r \in Requests : HandleRequest(t, r),
             NEW u \in Callers
      PROVE  RunOf(u)' /\ InputsOf(u)'
  <2>1. CASE u = t
    BY <1>1, <1>2, <2>1, RunOfStep, InputsOfStep
  <2>2. CASE u # t
    <3>1. pc'[u] = pc[u] /\ req'[u] = req[u] /\ loc'[u] = loc[u] /\ resp'[u] = resp[u]
      BY <1>2, <2>2, OthersUnchanged
    <3> QED
      BY <1>1, <3>1, InputsOfStays DEF RunOf
  <2> QED
    BY <2>1, <2>2
<1>3. ASSUME UNCHANGED handlerVars, NEW u \in Callers
      PROVE  RunOf(u)' /\ InputsOf(u)'
  <2>1. pc'[u] = pc[u] /\ req'[u] = req[u] /\ loc'[u] = loc[u] /\ resp'[u] = resp[u]
    BY <1>3 DEF handlerVars
  <2> QED
    BY <1>1, <2>1, InputsOfStays DEF RunOf
<1>4. \A u \in Callers : RunOf(u)' /\ InputsOf(u)'
  BY <1>2, <1>3 DEF Next, Background, vars
<1>5. AttestedKeyIsOurs' /\ ProofMatchesRun' /\ (Backend = "nitro" => SuccessReported')
  BY <1>1, AttestedKeyStep, ProofMatchesStep, SuccessStep DEF ReportInv
<1> QED
  BY <1>4, <1>5 DEF ReportInv

\* The second invariant holds in every reachable state, on top of the first.
THEOREM ReportInvariant == Spec => [](HandlerInv /\ ReportInv)
  BY ReportInvInit, ReportInvStep, HandlerInvariant, PTL DEF Spec

\* The two inputs of an execution were opened with one and the same private key,
\* although the store is unlocked between the two decryptions and the id of the
\* session may be given out again in between.
THEOREM OneKeyForBothInputs == Spec => []OneKeyPerExecution
<1>1. ReportInv => OneKeyPerExecution
  BY DEF ReportInv, RunOf, OneKeyPerExecution
<1> QED
  BY <1>1, ReportInvariant, PTL

\* A valid session leaves the store only by the cleanup of an execution its key
\* opened the inputs of, or because uuid4 drew its id again; and every cleanup, of a
\* failed execution too, leaves none of the execution's keys behind.
THEOREM CleanupDeletesOwnSession == Spec => OwnSessionDeleted
<1> DEFINE Taken(s) == /\ Has(s)
                       /\ IsSessionValid(active_sessions[s])
                       /\ active_sessions'[s] # active_sessions[s]
<1>1. ASSUME TypeOK, StoreInv, HandlerInv, ReportInv, [Next]_vars
      PROVE  /\ \A s \in SessionIds : Taken(s) =>
                   \E t \in Callers : CleansUpOwn(t, s) \/ StoresOver(t, s)
             /\ \A t \in Callers :
                  pc[t] = "cleanup" /\ pc'[t] # "cleanup" => loc[t].keys \subseteq erased'
  <2> USE <1>1
  <2>1. ASSUME NEW s \in SessionIds, Taken(s), NEW t \in Callers, CleanupSession(t)
        PROVE  CleansUpOwn(t, s)
    <3>1. pc[t] = "cleanup" /\ pc'[t] # "cleanup"
      BY <2>1 DEF CleanupSession, Goto, Reply, TypeOK
    <3>2. req[t].sid = s
      BY <2>1 DEF CleanupSession, DeleteKeypair, DelSessions
    <3>3. req[t].zip.key \in loc[t].keys
      BY <3>1 DEF ReportInv, RunOf, AfterZip
    <3>4. /\ <<s, req[t].zip.key>> \in issued
          /\ req[t].zip.key \in erased \/ active_sessions[s].key = req[t].zip.key
      BY <3>2, <3>3 DEF HandlerInv, KeyTraced
    <3> QED
      BY <3>1, <3>2, <3>3, <3>4 DEF CleansUpOwn
  <2>2. ASSUME NEW s \in SessionIds, Taken(s), NEW t \in Callers, StoreStep(t)
        PROVE  StoresOver(t, s)
    <3>1. pc[t] = "store" /\ pc'[t] # "store"
      BY <2>2 DEF StoreStep, Goto, TypeOK
    <3>2. prepared[t].sid = s
      BY <2>2 DEF StoreStep, StoreSession, TypeOK, StoreTypeOK
    <3> QED
      BY <3>1, <3>2 DEF StoresOver
  <2>3. ASSUME NEW s \in SessionIds, Taken(s), NEW x \in SessionIds, GetValidSession(x)
        PROVE  FALSE
    BY <2>3 DEF GetValidSession, DelSessions
  <2>4. ASSUME NEW s \in SessionIds, Taken(s), PurgeExpiredSessions
        PROVE  FALSE
    <3>1. PurgeExpired(active_sessions[s])
      BY <2>4 DEF PurgeExpiredSessions, DelSessions
    <3>2. purge_now <= clock
      BY DEF StoreInv, PurgeNowPast
    <3>3. active_sessions[s].created_at \in 0 .. MaxClock
      BY <2>4, EntryTypes DEF TypeOK
    <3> QED
      BY <2>4, <3>1, <3>2, <3>3, StoreAssumption
         DEF IsSessionValid, PurgeExpired, TypeOK, StoreTypeOK
  <2>5. ASSUME NEW s \in SessionIds, Taken(s)
        PROVE  \E t \in Callers : CleansUpOwn(t, s) \/ StoresOver(t, s)
    <3>1. active_sessions' # active_sessions
      BY <2>5
    <3>2. ASSUME NEW t \in Callers, ReadKey(t) \/ DecryptZip(t) \/ DecryptCsv(t)
          PROVE  FALSE
      <4>1. \E x \in SessionIds : GetValidSession(x)
        BY <3>2 DEF ReadKey, DecryptZip, DecryptCsv, HandlerInv, Control, ControlOf,
           ExecuteLabels
      <4> QED
        BY <2>3, <2>5, <4>1
    <3>3. ASSUME NEW t \in Callers,
                 \/ GenerateStep(t) \/ GenerateFails(t) \/ AttestKey(t) \/ ExecuteBundle(t)
                 \/ FinishRun(t) \/ CollectOutputFiles(t) \/ Released(t)
                 \/ AttestExecution(t) \/ Send(t)
          PROVE  FALSE
      BY <3>1, <3>3 DEF GenerateStep, GenerateKeypair, GenerateFails, AttestKey,
         ExecuteBundle, FinishRun, CollectOutputFiles, Released, AttestExecution, Send,
         storeVars
    <3>4. ASSUME NEW t \in Callers, NEW r \in Requests, HandleRequest(t, r)
          PROVE  FALSE
      BY <3>1, <3>4 DEF HandleRequest, storeVars
    <3>5. CASE Background
      BY <2>4, <2>5, <3>1, <3>5 DEF Background, PurgeWake, Tick
    <3>6. CASE UNCHANGED vars
      BY <3>1, <3>6 DEF vars, storeVars
    <3> QED
      BY <2>1, <2>2, <2>5, <3>2, <3>3, <3>4, <3>5, <3>6 DEF Next, ThreadStep
  <2>6. ASSUME NEW t \in Callers, pc[t] = "cleanup", pc'[t] # "cleanup"
        PROVE  loc[t].keys \subseteq erased'
    <3>1. pc' # pc
      BY <2>6
    <3>2. PICK u \in Callers : ThreadStep(u) \/ \E r \in Requests : HandleRequest(u, r)
      BY <3>1 DEF Next, Background, handlerVars, vars
    <3>3. u = t
      BY <2>6, <3>2, OthersUnchanged
    <3>4. CleanupSession(t)
      BY <2>6, <3>2, <3>3
         DEF ThreadStep, HandleRequest, GenerateStep, GenerateFails, StoreStep, ReadKey,
         AttestKey, DecryptZip, DecryptCsv, ExecuteBundle, FinishRun, CollectOutputFiles,
         Released, AttestExecution, Send
    <3>5. erased' = erased \cup KeysAt({req[t].sid})
      BY <3>4 DEF CleanupSession, DeleteKeypair, DelSessions
    <3> QED
      BY <3>5 DEF HandlerInv, KeyTraced, KeysAt
  <2> QED
    BY <2>5, <2>6
<1>2. TypeOK /\ StoreInv /\ HandlerInv /\ ReportInv /\ [Next]_vars =>
        [/\ \A s \in SessionIds :
              /\ Has(s)
              /\ IsSessionValid(active_sessions[s])
              /\ active_sessions'[s] # active_sessions[s]
              => \E t \in Callers : CleansUpOwn(t, s) \/ StoresOver(t, s)
         /\ \A t \in Callers :
              pc[t] = "cleanup" /\ pc'[t] # "cleanup" => loc[t].keys \subseteq erased']_vars
  BY <1>1
<1> QED
  BY <1>2, ReportInvariant, HandlerInvariant, PTL DEF Spec, OwnSessionDeleted

\* A public key in a signed document was generated by this enclave for the session
\* the document names, and is the one handed out beside it; so is every public key a
\* response hands out.
THEOREM AttestedKeyGenerated == Spec => []AttestedKeyIsOurs
<1>1. ReportInv => AttestedKeyIsOurs
  BY DEF ReportInv
<1> QED
  BY <1>1, ReportInvariant, PTL

\* A signed execution proof names the bundle, the dataset and the session of a run
\* that succeeded, whose private key is gone.
THEOREM ProofTellsWhatRan == Spec => []ProofMatchesRun
<1>1. ReportInv => ProofMatchesRun
  BY DEF ReportInv
<1> QED
  BY <1>1, ReportInvariant, PTL

\* With the Nitro service, a script that ran to its end is reported as a success
\* unless the client's nonce is malformed.  With the TDX service this is false: the
\* call of create_execution_attestation raises TypeError.
THEOREM NitroReportsSuccess == ASSUME Backend = "nitro" PROVE Spec => []SuccessReported
<1>1. ReportInv => SuccessReported
  BY DEF ReportInv
<1> QED
  BY <1>1, ReportInvariant, PTL
=============================================================================
