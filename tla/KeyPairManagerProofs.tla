------------------------ MODULE KeyPairManagerProofs ------------------------
(***************************************************************************)
(* Proofs about KeyPairManager, for every set of threads, session ids and  *)
(* jobs, every TTL and every bound, with or without session id collisions. *)
(*                                                                         *)
(* NoKeyResurrection and KeyHasOneSession are not inductive: a thread      *)
(* between the two halves of generate_keypair holds a key that is not in   *)
(* the dictionary yet, and the next StoreSession puts it there.  StoreInv  *)
(* therefore speaks of prepared sessions as well, and of the history of    *)
(* issued keys that tells two of them apart.                               *)
(***************************************************************************)
EXTENDS KeyPairManager, TLAPS

\* The key pair and id of an entry were bound together by generate_keypair, and
\* the key has never been erased.
StoredBound ==
    \A s \in SessionIds : Has(s) =>
        /\ <<s, active_sessions[s].key>> \in issued
        /\ active_sessions[s].key \notin erased

\* The same for a session that waits to be stored, whose key no entry has.
PreparedBound ==
    \A c \in Callers : prepared[c] # NoSession =>
        /\ <<prepared[c].sid, prepared[c].data.key>> \in issued
        /\ prepared[c].data.key \notin erased
        /\ \A s \in SessionIds : Has(s) => active_sessions[s].key # prepared[c].data.key

\* No two threads are about to store the same key.
PreparedDistinct ==
    \A c, d \in Callers :
        prepared[c] # NoSession /\ prepared[d] # NoSession
          /\ prepared[c].data.key = prepared[d].data.key => c = d

\* A key is issued once, under one id.
IssuedOnce ==
    \A p, q \in issued : p[2] = q[2] => p[1] = q[1]

\* Keys are numbered in the order they are made.
KeysNumbered ==
    /\ \A p \in issued : p[2] <= keys_made
    /\ \A k \in erased : k <= keys_made

\* The now of the cleanup thread is never ahead of the clock.
PurgeNowPast == purge_now <= clock

StoreInv ==
    /\ StoredBound
    /\ PreparedBound
    /\ PreparedDistinct
    /\ IssuedOnce
    /\ KeysNumbered
    /\ PurgeNowPast

-----------------------------------------------------------------------------
(* Type correctness.                                                       *)

\* Deleting entries keeps the types of the dictionary and of the history.
LEMMA DelSessionsType ==
    ASSUME StoreTypeOK, NEW S \in SUBSET SessionIds, DelSessions(S)
    PROVE  /\ active_sessions' \in [SessionIds -> Session \cup {NoSession}]
           /\ erased' \subseteq Keys
<1>1. KeysAt(S) \subseteq Keys
  BY StoreAssumption DEF StoreTypeOK, KeysAt, Has, Session
<1> QED
  BY <1>1 DEF StoreTypeOK, DelSessions

\* The session generate_keypair builds is one the dictionary can hold.
LEMMA GenerateType ==
    ASSUME StoreTypeOK, NEW c \in Callers, NEW job \in Jobs, NEW ks,
           GenerateKeypair(c, job, ks)
    PROVE  StoreTypeOK'
<1>1. keys_made + 1 \in Keys /\ clock \in 0 .. MaxClock
  BY StoreAssumption DEF StoreTypeOK, GenerateKeypair, Keys
<1>2. PICK s \in SessionIds :
        /\ prepared' = [prepared EXCEPT ![c] =
                          [sid  |-> s,
                           data |-> [job        |-> job,
                                     key        |-> keys_made + 1,
                                     created_at |-> clock]]]
        /\ issued' = issued \cup {<<s, keys_made + 1>>}
  BY DEF GenerateKeypair, FreshIds
<1>3. [job |-> job, key |-> keys_made + 1, created_at |-> clock] \in Session
  BY <1>1 DEF Session
<1>4. prepared' \in [Callers -> PreparedSession \cup {NoSession}]
  BY <1>2, <1>3 DEF StoreTypeOK, PreparedSession
<1>5. issued' \subseteq SessionIds \X Keys
  BY <1>1, <1>2 DEF StoreTypeOK
<1>6. keys_made' \in 0 .. MaxKeys
  BY StoreAssumption DEF StoreTypeOK, GenerateKeypair
<1> QED
  BY <1>4, <1>5, <1>6 DEF StoreTypeOK, GenerateKeypair

\* Storing a prepared session keeps the types.
LEMMA StoreType ==
    ASSUME StoreTypeOK, NEW c \in Callers, StoreSession(c)
    PROVE  StoreTypeOK'
<1>1. prepared[c] \in PreparedSession
  BY DEF StoreTypeOK, StoreSession
<1>2. prepared[c].sid \in SessionIds /\ prepared[c].data \in Session
  BY <1>1 DEF PreparedSession
<1>3. active_sessions' \in [SessionIds -> Session \cup {NoSession}]
  BY <1>2 DEF StoreTypeOK, StoreSession
<1>4. KeysAt({prepared[c].sid}) \subseteq Keys
  BY <1>2 DEF StoreTypeOK, KeysAt, Has, Session
<1>5. prepared' \in [Callers -> PreparedSession \cup {NoSession}]
  BY DEF StoreTypeOK, StoreSession
<1> QED
  BY <1>3, <1>4, <1>5 DEF StoreTypeOK, StoreSession

\* Every step of the key store keeps the types.
LEMMA StoreTypeStep == StoreTypeOK /\ [StoreNext]_storeVars => StoreTypeOK'
<1> SUFFICES ASSUME StoreTypeOK, [StoreNext]_storeVars
             PROVE  StoreTypeOK'
  OBVIOUS
<1>1. ASSUME NEW c \in Callers, NEW job \in Jobs, NEW ks \in KeySizes,
             GenerateKeypair(c, job, ks)
      PROVE  StoreTypeOK'
  BY <1>1, GenerateType
<1>2. ASSUME NEW c \in Callers, StoreSession(c)
      PROVE  StoreTypeOK'
  BY <1>2, StoreType
<1>3. ASSUME NEW s \in SessionIds, GetValidSession(s)
      PROVE  StoreTypeOK'
  BY <1>3, DelSessionsType DEF GetValidSession, StoreTypeOK
<1>4. ASSUME NEW s \in SessionIds, DeleteKeypair(s)
      PROVE  StoreTypeOK'
  BY <1>4, DelSessionsType DEF DeleteKeypair, StoreTypeOK
<1>5. CASE PurgeWake
  BY <1>5 DEF PurgeWake, StoreTypeOK
<1>6. CASE PurgeExpiredSessions
  <2>1. {s \in SessionIds : Has(s) /\ PurgeExpired(active_sessions[s])}
          \in SUBSET SessionIds
    OBVIOUS
  <2>2. purge_now' \in 0 .. MaxClock
    BY <1>6, StoreAssumption DEF PurgeExpiredSessions
  <2> QED
    BY <1>6, <2>1, <2>2, DelSessionsType DEF PurgeExpiredSessions, StoreTypeOK
<1>7. CASE Tick
  BY <1>7, StoreAssumption DEF Tick, StoreTypeOK
<1>8. CASE UNCHANGED storeVars
  BY <1>8 DEF storeVars, StoreTypeOK
<1> QED
  BY <1>1, <1>2, <1>3, <1>4, <1>5, <1>6, <1>7, <1>8 DEF StoreNext, CallerStep

\* The variables of the key store keep their types: in particular an entry is
\* always a complete session_data or missing, and no more than MaxKeys key pairs
\* or MaxClock ticks are ever counted.
THEOREM StoreTypeCorrect == StoreSpec => []StoreTypeOK
<1>1. StoreInit => StoreTypeOK
  BY StoreAssumption DEF StoreInit, StoreTypeOK
<1> QED
  BY <1>1, StoreTypeStep, PTL DEF StoreSpec

-----------------------------------------------------------------------------
(* The inductive invariant.                                                *)

\* What a field of a stored or prepared session is.
LEMMA EntryTypes ==
    ASSUME StoreTypeOK
    PROVE  /\ \A s \in SessionIds : Has(s) =>
                /\ active_sessions[s] \in Session
                /\ active_sessions[s].key \in Keys
                /\ active_sessions[s].created_at \in 0 .. MaxClock
           /\ \A c \in Callers : prepared[c] # NoSession =>
                /\ prepared[c].sid \in SessionIds
                /\ prepared[c].data \in Session
                /\ prepared[c].data.key \in Keys
  BY StoreAssumption DEF StoreTypeOK, Has, Session, PreparedSession

\* Two entries of the dictionary never share a key.
LEMMA StoredDistinct ==
    ASSUME StoredBound, IssuedOnce
    PROVE  \A s, r \in SessionIds :
             Has(s) /\ Has(r) /\ active_sessions[s].key = active_sessions[r].key => s = r
<1> SUFFICES ASSUME NEW s \in SessionIds, NEW r \in SessionIds, Has(s), Has(r),
                    active_sessions[s].key = active_sessions[r].key
             PROVE  s = r
  OBVIOUS
<1> DEFINE p == <<s, active_sessions[s].key>>
           q == <<r, active_sessions[r].key>>
<1>1. p \in issued /\ q \in issued
  BY DEF StoredBound
<1>2. p[1] = s /\ q[1] = r /\ p[2] = q[2]
  OBVIOUS
<1> QED
  BY <1>1, <1>2 DEF IssuedOnce

\* Deleting any set of entries keeps the invariant: the keys that stay, in the
\* dictionary or prepared, are none of the keys that go.
LEMMA DelSessionsInv ==
    ASSUME StoreTypeOK, StoreInv, NEW S \in SUBSET SessionIds, DelSessions(S),
           UNCHANGED <<keys_made, prepared, issued>>
    PROVE  /\ StoredBound' /\ PreparedBound' /\ PreparedDistinct'
           /\ IssuedOnce' /\ KeysNumbered'
<1>1. \A s \in SessionIds : Has(s)' => s \notin S /\ Has(s) /\ active_sessions'[s] = active_sessions[s]
  BY DEF DelSessions, Has
<1>2. erased' = erased \cup KeysAt(S)
  BY DEF DelSessions
<1>3. StoredBound'
  <2> SUFFICES ASSUME NEW s \in SessionIds, Has(s)'
               PROVE  /\ <<s, active_sessions'[s].key>> \in issued'
                      /\ active_sessions'[s].key \notin erased'
    BY DEF StoredBound
  <2>1. active_sessions[s].key \notin KeysAt(S)
    BY <1>1, StoredDistinct DEF KeysAt, StoreInv
  <2> QED
    BY <1>1, <1>2, <2>1 DEF StoreInv, StoredBound
<1>4. PreparedBound'
  <2> SUFFICES ASSUME NEW c \in Callers, prepared[c] # NoSession
               PROVE  /\ <<prepared[c].sid, prepared[c].data.key>> \in issued
                      /\ prepared[c].data.key \notin erased'
                      /\ \A s \in SessionIds :
                           Has(s)' => active_sessions'[s].key # prepared[c].data.key
    BY DEF PreparedBound
  <2>1. prepared[c].data.key \notin KeysAt(S)
    BY DEF KeysAt, StoreInv, PreparedBound
  <2> QED
    BY <1>1, <1>2, <2>1 DEF StoreInv, PreparedBound
<1>5. PreparedDistinct' /\ IssuedOnce'
  BY DEF StoreInv, PreparedDistinct, IssuedOnce
<1>6. KeysNumbered'
  <2>1. \A k \in KeysAt(S) : k <= keys_made
    <3> SUFFICES ASSUME NEW s \in S, Has(s)
                 PROVE  active_sessions[s].key <= keys_made
      BY DEF KeysAt
    <3>1. <<s, active_sessions[s].key>> \in issued
      BY DEF StoreInv, StoredBound
    <3> QED
      BY <3>1 DEF StoreInv, KeysNumbered
  <2> QED
    BY <1>2, <2>1 DEF StoreInv, KeysNumbered
<1> QED
  BY <1>3, <1>4, <1>5, <1>6

\* The key pair generate_keypair makes is a new one.
LEMMA GenerateInv ==
    ASSUME StoreTypeOK, StoreInv, NEW c \in Callers, NEW job \in Jobs, NEW ks,
           GenerateKeypair(c, job, ks)
    PROVE  StoreInv'
<1> DEFINE k == keys_made + 1
<1>1. PICK s \in SessionIds :
        /\ prepared' = [prepared EXCEPT ![c] =
                          [sid  |-> s,
                           data |-> [job        |-> job,
                                     key        |-> k,
                                     created_at |-> clock]]]
        /\ issued' = issued \cup {<<s, k>>}
  BY DEF GenerateKeypair, FreshIds
<1>2. /\ keys_made' = k
      /\ UNCHANGED <<active_sessions, clock, purge_now, erased>>
  BY DEF GenerateKeypair
<1>3. /\ prepared'[c] # NoSession
      /\ prepared'[c].sid = s
      /\ prepared'[c].data.key = k
  <2>1. prepared'[c] = [sid  |-> s,
                        data |-> [job |-> job, key |-> k, created_at |-> clock]]
    BY <1>1 DEF StoreTypeOK
  <2>2. prepared'[c] \in PreparedSession
    <3>1. k \in Keys /\ clock \in 0 .. MaxClock
      BY StoreAssumption DEF StoreTypeOK, GenerateKeypair, Keys
    <3> QED
      BY <2>1, <3>1 DEF PreparedSession, Session
  <2> QED
    BY <2>1, <2>2, StoreAssumption
<1>4. \A d \in Callers : d # c => prepared'[d] = prepared[d]
  BY <1>1 DEF StoreTypeOK
<1>5. \A p \in issued : p[2] # k /\ p[2] <= k
  <2> SUFFICES ASSUME NEW p \in issued
               PROVE  p[2] # k /\ p[2] <= k
    OBVIOUS
  <2>1. p[2] \in Int /\ keys_made \in Int /\ p[2] <= keys_made
    BY DEF StoreTypeOK, StoreInv, KeysNumbered, Keys
  <2> QED
    BY <2>1
<1>6. \A e \in erased : e # k /\ e <= k
  BY DEF StoreTypeOK, StoreInv, KeysNumbered, Keys
<1>7. \A r \in SessionIds : Has(r) => active_sessions[r].key # k
  <2> SUFFICES ASSUME NEW r \in SessionIds, Has(r)
               PROVE  active_sessions[r].key # k
    OBVIOUS
  <2>1. <<r, active_sessions[r].key>> \in issued
    BY DEF StoreInv, StoredBound
  <2> QED
    BY <1>5, <2>1
<1>8. \A d \in Callers : prepared[d] # NoSession => prepared[d].data.key # k
  <2> SUFFICES ASSUME NEW d \in Callers, prepared[d] # NoSession
               PROVE  prepared[d].data.key # k
    OBVIOUS
  <2>1. <<prepared[d].sid, prepared[d].data.key>> \in issued
    BY DEF StoreInv, PreparedBound
  <2> QED
    BY <1>5, <2>1
<1>9. StoredBound'
  BY <1>1, <1>2 DEF StoreInv, StoredBound, Has
<1>10. PreparedBound'
  <2> SUFFICES ASSUME NEW d \in Callers, prepared'[d] # NoSession
               PROVE  /\ <<prepared'[d].sid, prepared'[d].data.key>> \in issued'
                      /\ prepared'[d].data.key \notin erased
                      /\ \A r \in SessionIds :
                           Has(r) => active_sessions[r].key # prepared'[d].data.key
    BY <1>2 DEF PreparedBound, Has
  <2>1. CASE d = c
    BY <2>1, <1>1, <1>3, <1>6, <1>7
  <2>2. CASE d # c
    BY <2>2, <1>1, <1>4 DEF StoreInv, PreparedBound
  <2> QED
    BY <2>1, <2>2
<1>11. PreparedDistinct'
  BY <1>3, <1>4, <1>8 DEF StoreInv, PreparedDistinct
<1>12. IssuedOnce'
  BY <1>1, <1>5 DEF StoreInv, IssuedOnce
<1>13. KeysNumbered'
  BY <1>1, <1>2, <1>5, <1>6 DEF KeysNumbered, StoreTypeOK
<1>14. PurgeNowPast'
  BY <1>2 DEF StoreInv, PurgeNowPast
<1> QED
  BY <1>9, <1>10, <1>11, <1>12, <1>13, <1>14 DEF StoreInv

\* A key that enters the dictionary was not there and not erased before, and the
\* entry it replaces had another key.
LEMMA StoreSessionInv ==
    ASSUME StoreTypeOK, StoreInv, NEW c \in Callers, StoreSession(c)
    PROVE  StoreInv'
<1> DEFINE sid == prepared[c].sid
           k   == prepared[c].data.key
<1>1. /\ prepared[c] # NoSession
      /\ sid \in SessionIds
      /\ prepared[c].data \in Session
      /\ prepared[c].data # NoSession
  BY EntryTypes, StoreAssumption DEF StoreSession
<1>2. /\ active_sessions'[sid] = prepared[c].data
      /\ \A s \in SessionIds : s # sid => active_sessions'[s] = active_sessions[s]
  BY <1>1 DEF StoreSession, StoreTypeOK
<1>3. /\ prepared'[c] = NoSession
      /\ \A d \in Callers : d # c => prepared'[d] = prepared[d]
  BY DEF StoreSession, StoreTypeOK
<1>4. /\ erased' = erased \cup KeysAt({sid})
      /\ UNCHANGED <<clock, purge_now, keys_made, issued>>
  BY DEF StoreSession
<1>5. \A e \in KeysAt({sid}) : Has(sid) /\ e = active_sessions[sid].key
  BY DEF KeysAt
<1>6. <<sid, k>> \in issued /\ k \notin erased'
  BY <1>1, <1>4, <1>5 DEF StoreInv, PreparedBound
<1>7. StoredBound'
  <2> SUFFICES ASSUME NEW s \in SessionIds, Has(s)'
               PROVE  /\ <<s, active_sessions'[s].key>> \in issued
                      /\ active_sessions'[s].key \notin erased'
    BY <1>4 DEF StoredBound
  <2>1. CASE s = sid
    BY <2>1, <1>2, <1>6
  <2>2. CASE s # sid
    <3>1. Has(s) /\ active_sessions'[s] = active_sessions[s]
      BY <2>2, <1>2 DEF Has
    <3>2. active_sessions[s].key \notin KeysAt({sid})
      BY <2>2, <3>1, <1>1, <1>5, StoredDistinct DEF StoreInv
    <3> QED
      BY <3>1, <3>2, <1>4 DEF StoreInv, StoredBound
  <2> QED
    BY <2>1, <2>2
<1>8. PreparedBound'
  <2> SUFFICES ASSUME NEW d \in Callers, prepared'[d] # NoSession
               PROVE  /\ <<prepared'[d].sid, prepared'[d].data.key>> \in issued
                      /\ prepared'[d].data.key \notin erased'
                      /\ \A s \in SessionIds :
                           Has(s)' => active_sessions'[s].key # prepared'[d].data.key
    BY <1>4 DEF PreparedBound
  <2>1. d # c /\ prepared'[d] = prepared[d]
    BY <1>3
  <2>2. prepared[d].data.key # k
    BY <2>1, <1>1 DEF StoreInv, PreparedDistinct
  <2>3. /\ <<prepared[d].sid, prepared[d].data.key>> \in issued
        /\ prepared[d].data.key \notin erased
        /\ \A s \in SessionIds : Has(s) => active_sessions[s].key # prepared[d].data.key
    BY <2>1 DEF StoreInv, PreparedBound
  <2>4. prepared[d].data.key \notin erased'
    BY <2>3, <1>1, <1>4, <1>5
  <2>5. ASSUME NEW s \in SessionIds, Has(s)'
        PROVE  active_sessions'[s].key # prepared[d].data.key
    BY <2>2, <2>3, <2>5, <1>2 DEF Has
  <2> QED
    BY <2>1, <2>3, <2>4, <2>5
<1>9. PreparedDistinct'
  BY <1>3 DEF StoreInv, PreparedDistinct
<1>10. IssuedOnce'
  BY <1>4 DEF StoreInv, IssuedOnce
<1>11. KeysNumbered'
  <2>1. ASSUME NEW e \in KeysAt({sid})
        PROVE  e <= keys_made
    <3>1. <<sid, e>> \in issued
      BY <2>1, <1>1, <1>5 DEF StoreInv, StoredBound
    <3> QED
      BY <3>1 DEF StoreInv, KeysNumbered
  <2> QED
    BY <2>1, <1>4 DEF StoreInv, KeysNumbered
<1>12. PurgeNowPast'
  BY <1>4 DEF StoreInv, PurgeNowPast
<1> QED
  BY <1>7, <1>8, <1>9, <1>10, <1>11, <1>12 DEF StoreInv

\* Every step of the key store keeps the invariant.
LEMMA StoreInvStep ==
    StoreTypeOK /\ StoreInv /\ [StoreNext]_storeVars => StoreInv'
<1> SUFFICES ASSUME StoreTypeOK, StoreInv, [StoreNext]_storeVars
             PROVE  StoreInv'
  OBVIOUS
<1>1. ASSUME NEW c \in Callers, NEW job \in Jobs, NEW ks \in KeySizes,
             GenerateKeypair(c, job, ks)
      PROVE  StoreInv'
  BY <1>1, GenerateInv
<1>2. ASSUME NEW c \in Callers, StoreSession(c)
      PROVE  StoreInv'
  BY <1>2, StoreSessionInv
<1>3. ASSUME NEW s \in SessionIds, GetValidSession(s)
      PROVE  StoreInv'
  BY <1>3, DelSessionsInv DEF GetValidSession, StoreInv, PurgeNowPast
<1>4. ASSUME NEW s \in SessionIds, DeleteKeypair(s)
      PROVE  StoreInv'
  BY <1>4, DelSessionsInv DEF DeleteKeypair, StoreInv, PurgeNowPast
<1>5. CASE PurgeWake
  <2>1. PurgeNowPast'
    BY <1>5 DEF PurgeWake, PurgeNowPast, StoreTypeOK
  <2> QED
    BY <1>5, <2>1 DEF PurgeWake, StoreInv, StoredBound, PreparedBound,
       PreparedDistinct, IssuedOnce, KeysNumbered, Has
<1>6. CASE PurgeExpiredSessions
  <2>1. PurgeNowPast'
    BY <1>6 DEF PurgeExpiredSessions, PurgeNowPast, StoreTypeOK
  <2>2. {s \in SessionIds : Has(s) /\ PurgeExpired(active_sessions[s])}
          \in SUBSET SessionIds
    OBVIOUS
  <2> QED
    BY <1>6, <2>1, <2>2, DelSessionsInv DEF PurgeExpiredSessions, StoreInv
<1>7. CASE Tick
  <2>1. PurgeNowPast'
    BY <1>7 DEF Tick, StoreInv, PurgeNowPast, StoreTypeOK
  <2> QED
    BY <1>7, <2>1 DEF Tick, StoreInv, StoredBound, PreparedBound,
       PreparedDistinct, IssuedOnce, KeysNumbered, Has
<1>8. CASE UNCHANGED storeVars
  BY <1>8 DEF storeVars, StoreInv, StoredBound, PreparedBound,
     PreparedDistinct, IssuedOnce, KeysNumbered, PurgeNowPast, Has
<1> QED
  BY <1>1, <1>2, <1>3, <1>4, <1>5, <1>6, <1>7, <1>8 DEF StoreNext, CallerStep

\* In the first state nothing is stored, prepared, issued or erased.
LEMMA StoreInvInit == StoreInit => StoreInv
  BY DEF StoreInit, StoreInv, StoredBound, PreparedBound, PreparedDistinct,
     IssuedOnce, KeysNumbered, PurgeNowPast, Has

\* The inductive invariant holds in every reachable state of the key store.
THEOREM StoreInvariant == StoreSpec => [](StoreTypeOK /\ StoreInv)
  BY StoreTypeCorrect, StoreInvInit, StoreInvStep, PTL DEF StoreSpec

-----------------------------------------------------------------------------
(* What follows from it.                                                   *)

\* No private key comes back once the manager has deleted it.
THEOREM NoResurrection == StoreSpec => []NoKeyResurrection
<1>1. StoreInv => NoKeyResurrection
  BY DEF StoreInv, StoredBound, NoKeyResurrection, StoredKeys, KeysAt
<1> QED
  BY <1>1, StoreInvariant, PTL

\* A key is stored under the one id it was generated for.
THEOREM OneSessionPerKey == StoreSpec => []KeyHasOneSession
<1>1. StoreInv => KeyHasOneSession
  <2> SUFFICES ASSUME StoreInv, NEW s \in SessionIds, Has(s)
               PROVE  /\ <<s, active_sessions[s].key>> \in issued
                      /\ \A p \in issued : p[2] = active_sessions[s].key => p[1] = s
    BY DEF KeyHasOneSession
  <2>1. <<s, active_sessions[s].key>> \in issued
    BY DEF StoreInv, StoredBound
  <2>2. <<s, active_sessions[s].key>>[1] = s
        /\ <<s, active_sessions[s].key>>[2] = active_sessions[s].key
    OBVIOUS
  <2> QED
    BY <2>1, <2>2 DEF StoreInv, IssuedOnce
<1> QED
  BY <1>1, StoreInvariant, PTL

\* Neither the cleanup thread, whose now is stale by the time it has the lock,
\* nor a lookup takes a session that is within its TTL.
THEOREM ValidSessionKept == StoreSpec => LiveSessionKept
<1> DEFINE Kept == \A s \in SessionIds :
                     /\ Has(s)
                     /\ IsSessionValid(active_sessions[s])
                     /\ active_sessions'[s] # active_sessions[s]
                     => \/ DeleteKeypair(s)
                        \/ \E c \in Callers : StoreSession(c) /\ prepared[c].sid = s
<1>1. ASSUME StoreTypeOK, StoreInv, [StoreNext]_storeVars
      PROVE  [Kept]_storeVars
  <2> SUFFICES ASSUME StoreNext, NEW s \in SessionIds, Has(s),
                      IsSessionValid(active_sessions[s]),
                      active_sessions'[s] # active_sessions[s]
               PROVE  \/ DeleteKeypair(s)
                      \/ \E c \in Callers : StoreSession(c) /\ prepared[c].sid = s
    BY <1>1
  <2>1. ASSUME NEW c \in Callers, StoreSession(c)
        PROVE  prepared[c].sid = s
    BY <1>1, <2>1 DEF StoreSession, StoreTypeOK
  <2>2. ASSUME NEW r \in SessionIds, GetValidSession(r)
        PROVE  FALSE
    BY <1>1, <2>2 DEF GetValidSession, DelSessions
  <2>3. ASSUME NEW r \in SessionIds, DeleteKeypair(r)
        PROVE  r = s
    BY <1>1, <2>3 DEF DeleteKeypair, DelSessions, StoreTypeOK
  <2>4. ASSUME PurgeExpiredSessions
        PROVE  FALSE
    <3>1. PurgeExpired(active_sessions[s])
      BY <1>1, <2>4 DEF PurgeExpiredSessions, DelSessions, StoreTypeOK
    <3>2. active_sessions[s].created_at \in 0 .. MaxClock
      BY <1>1, EntryTypes
    <3> QED
      BY <1>1, <3>1, <3>2, StoreAssumption
         DEF PurgeExpired, IsSessionValid, StoreInv, PurgeNowPast, StoreTypeOK
  <2>5. ASSUME NEW c \in Callers, NEW job \in Jobs, NEW ks \in KeySizes,
               GenerateKeypair(c, job, ks)
        PROVE  FALSE
    BY <2>5 DEF GenerateKeypair
  <2> QED
    BY <2>1, <2>2, <2>3, <2>4, <2>5 DEF StoreNext, CallerStep, PurgeWake, Tick
<1> QED
  BY <1>1, StoreInvariant, PTL DEF StoreSpec, LiveSessionKept
=============================================================================
