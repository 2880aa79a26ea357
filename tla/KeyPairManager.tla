--------------------------- MODULE KeyPairManager ---------------------------
(***************************************************************************)
(* KeyPairManagerImpl (implementations/keypair_manager_impl.py): the       *)
(* in-memory store of RSA key pairs, one per session, shared by every      *)
(* connection thread and by the background cleanup thread.                 *)
(*                                                                         *)
(* One step of the model is one critical section of self._lock, or one     *)
(* stretch of code that touches no shared state.  Two places read the      *)
(* clock before they take the lock, so each is two steps here:             *)
(* generate_keypair (created_at is read, the session stored later) and     *)
(* _purge_expired_sessions (now is read, the expired sessions are deleted  *)
(* later).                                                                 *)
(*                                                                         *)
(* A key pair is the number of the rsa.generate_private_key call that made *)
(* it; 0 stands for Python's None where a key is returned.                 *)
(***************************************************************************)
EXTENDS Integers, FiniteSets

CONSTANTS
    Callers,          \* the threads that call the manager
    SessionIds,       \* what f"rsa-session-{uuid4().hex[:8]}" can evaluate to
    UniqueIds,        \* TRUE: uuid4 never returns the same eight digits twice
    Jobs,             \* job identifiers
    KeySizes,         \* the key_size values a caller can pass
    AllowedKeySizes,  \* config.ALLOWED_KEY_SIZES
    SessionTTL,       \* config.SESSION_TTL, in clock ticks
    NoSession,        \* no entry in a dictionary, no session in a local
    MaxKeys,          \* bound: key pairs the RSA generator makes
    MaxClock          \* bound: last clock value

Keys == 1 .. MaxKeys

\* session_data, lines 91-105.  'ttl' is SESSION_TTL in every session, so the
\* expiry tests use the constant; 'metadata' is never read.
Session == [job : Jobs, key : Keys, created_at : 0 .. MaxClock]

\* A session generate_keypair has built and not stored yet.
PreparedSession == [sid : SessionIds, data : Session]

ASSUME StoreAssumption ==
    /\ UniqueIds \in BOOLEAN
    /\ SessionTTL \in Nat
    /\ MaxKeys \in Nat
    /\ MaxClock \in Nat
    /\ NoSession \notin Session
    /\ NoSession \notin PreparedSession

VARIABLES
    active_sessions,  \* self.active_sessions: the entry of each id, or NoSession
    clock,            \* time.time()
    purge_pc,         \* the cleanup thread: in time.sleep, or waiting for the lock
    purge_now,        \* its local now
    keys_made,        \* key pairs generated so far
    prepared,         \* per caller, the session_data it is about to store
    issued,           \* history: the <<id, key>> pairs generate_keypair bound
    erased            \* history: keys that have left the store

storeVars == <<active_sessions, clock, purge_pc, purge_now, keys_made,
               prepared, issued, erased>>

StoreInit ==
    /\ active_sessions = [s \in SessionIds |-> NoSession]
    /\ clock = 0
    /\ purge_pc = "sleep"
    /\ purge_now = 0
    /\ keys_made = 0
    /\ prepared = [c \in Callers |-> NoSession]
    /\ issued = {}
    /\ erased = {}

-----------------------------------------------------------------------------
(* What the store holds.                                                   *)

Has(s) == active_sessions[s] # NoSession

\* The keys stored under the ids of S.
KeysAt(S) == {active_sessions[s].key : s \in {x \in S : Has(x)}}

\* The private keys in the dictionary.
StoredKeys == KeysAt(SessionIds)

\* _is_session_valid
IsSessionValid(data) == clock - data.created_at < SessionTTL

\* Mutant of PurgeExpired: a session is purged one tick before its TTL ends.
PurgeExpiredEarly(data) == purge_now - data.created_at >= SessionTTL - 1

\* The test of the list comprehension in _purge_expired_sessions, against the
\* now the cleanup thread read before it took the lock.
PurgeExpired(data) == purge_now - data.created_at >= SessionTTL

\* Mutant of Lookup: an expired session is deleted and its key returned all the same.
LookupIgnoresExpiry(s) == IF Has(s) THEN active_sessions[s].key ELSE 0

\* What _get_valid_session finds for s: the session's key pair, or None.
Lookup(s) == IF Has(s) /\ IsSessionValid(active_sessions[s])
             THEN active_sessions[s].key
             ELSE 0

\* del self.active_sessions[s] for every s of S that has an entry.
DelSessions(S) ==
    /\ active_sessions' = [s \in SessionIds |->
                             IF s \in S THEN NoSession ELSE active_sessions[s]]
    /\ erased' = erased \cup KeysAt(S)

-----------------------------------------------------------------------------
(* The operations.                                                         *)

\* The session ids uuid4 can return now.
FreshIds == IF UniqueIds
            THEN {s \in SessionIds : \A p \in issued : p[1] # s}
            ELSE SessionIds

\* generate_keypair up to the lock: the key pair, the id and created_at.  The
\* bounds are on the number of key pairs, and on the clock so that every
\* session made can also be seen to expire.
GenerateKeypair(c, job, key_size) ==
    /\ prepared[c] = NoSession
    /\ key_size \in AllowedKeySizes
    /\ keys_made < MaxKeys
    /\ clock + SessionTTL <= MaxClock
    /\ \E s \in FreshIds :
         /\ prepared' = [prepared EXCEPT ![c] =
                           [sid  |-> s,
                            data |-> [job        |-> job,
                                      key        |-> keys_made + 1,
                                      created_at |-> clock]]]
         /\ issued' = issued \cup {<<s, keys_made + 1>>}
    /\ keys_made' = keys_made + 1
    /\ UNCHANGED <<active_sessions, clock, purge_pc, purge_now, erased>>

\* Mutants of StoreSession: the id and the data are stored, not the data; the
\* session is stored again and again; the id is drawn a second time.
StoreWrapped(c) ==
    /\ prepared[c] # NoSession
    /\ active_sessions' = [active_sessions EXCEPT ![prepared[c].sid] = prepared[c]]
    /\ prepared' = [prepared EXCEPT ![c] = NoSession]
    /\ UNCHANGED <<clock, purge_pc, purge_now, keys_made, issued, erased>>

StoreRepeats(c) ==
    /\ prepared[c] # NoSession
    /\ active_sessions' = [active_sessions EXCEPT
                             ![prepared[c].sid] = prepared[c].data]
    /\ erased' = erased \cup (KeysAt({prepared[c].sid}) \ {prepared[c].data.key})
    /\ UNCHANGED <<clock, purge_pc, purge_now, keys_made, prepared, issued>>

StoreElsewhere(c) ==
    /\ prepared[c] # NoSession
    /\ \E s \in FreshIds :
         /\ active_sessions' = [active_sessions EXCEPT ![s] = prepared[c].data]
         /\ erased' = erased \cup KeysAt({s})
    /\ prepared' = [prepared EXCEPT ![c] = NoSession]
    /\ UNCHANGED <<clock, purge_pc, purge_now, keys_made, issued>>

\* generate_keypair under the lock.  An entry the id already had is replaced.
StoreSession(c) ==
    /\ prepared[c] # NoSession
    /\ active_sessions' = [active_sessions EXCEPT
                             ![prepared[c].sid] = prepared[c].data]
    /\ erased' = erased \cup KeysAt({prepared[c].sid})
    /\ prepared' = [prepared EXCEPT ![c] = NoSession]
    /\ UNCHANGED <<clock, purge_pc, purge_now, keys_made, issued>>

\* _get_valid_session, the critical section of get_public_key and of
\* get_private_key: an expired entry is deleted on the way.
GetValidSession(s) ==
    /\ DelSessions({x \in {s} : Has(x) /\ ~ IsSessionValid(active_sessions[x])})
    /\ UNCHANGED <<clock, purge_pc, purge_now, keys_made, prepared, issued>>

\* delete_keypair
DeleteKeypair(s) ==
    /\ DelSessions({s})
    /\ UNCHANGED <<clock, purge_pc, purge_now, keys_made, prepared, issued>>

\* _cleanup_loop: the sleep ends and now = time.time() is read.
PurgeWake ==
    /\ purge_pc = "sleep"
    /\ purge_pc' = "lock"
    /\ purge_now' = clock
    /\ UNCHANGED <<active_sessions, clock, keys_made, prepared, issued, erased>>

\* Mutant of PurgeExpiredSessions: now is read once, before the loop.
PurgeWithOldNow ==
    /\ purge_pc = "lock"
    /\ DelSessions({s \in SessionIds : Has(s) /\ PurgeExpired(active_sessions[s])})
    /\ UNCHANGED <<clock, purge_pc, purge_now, keys_made, prepared, issued>>

\* _purge_expired_sessions under the lock.
PurgeExpiredSessions ==
    /\ purge_pc = "lock"
    /\ DelSessions({s \in SessionIds : Has(s) /\ PurgeExpired(active_sessions[s])})
    /\ purge_pc' = "sleep"
    /\ purge_now' = 0
    /\ UNCHANGED <<clock, keys_made, prepared, issued>>

\* Time passes.  The code only compares differences of time.time() values.
Tick ==
    /\ clock < MaxClock
    /\ clock' = clock + 1
    /\ UNCHANGED <<active_sessions, purge_pc, purge_now, keys_made, prepared,
                   issued, erased>>

CallerStep(c) ==
    \/ \E job \in Jobs, ks \in KeySizes : GenerateKeypair(c, job, ks)
    \/ StoreSession(c)

StoreNext ==
    \/ \E c \in Callers : CallerStep(c)
    \/ \E s \in SessionIds : GetValidSession(s)
    \/ \E s \in SessionIds : DeleteKeypair(s)
    \/ PurgeWake
    \/ PurgeExpiredSessions
    \/ Tick

StoreSpec == StoreInit /\ [][StoreNext]_storeVars

-----------------------------------------------------------------------------
(* Fairness.  The cleanup thread is a while True loop around time.sleep,   *)
(* it never ends and holds the lock for one bounded pass; a caller that    *)
(* has built a session goes on to store it; time passes.  Nobody is        *)
(* obliged to call get_private_key, get_public_key or delete_keypair.      *)
StoreFairness ==
    /\ WF_storeVars(PurgeWake)
    /\ WF_storeVars(PurgeExpiredSessions)
    /\ WF_storeVars(Tick)
    /\ \A c \in Callers : WF_storeVars(StoreSession(c))

FairStoreSpec == StoreSpec /\ StoreFairness

-----------------------------------------------------------------------------
(* Properties.                                                             *)

\* The type of every variable of the key store.
StoreTypeOK ==
    /\ active_sessions \in [SessionIds -> Session \cup {NoSession}]
    /\ clock \in 0 .. MaxClock
    /\ purge_pc \in {"sleep", "lock"}
    /\ purge_now \in 0 .. MaxClock
    /\ keys_made \in 0 .. MaxKeys
    /\ prepared \in [Callers -> PreparedSession \cup {NoSession}]
    /\ issued \subseteq SessionIds \X Keys
    /\ erased \subseteq Keys

\* A private key the manager deleted (delete_keypair, lazy expiry, the purge,
\* or an entry replaced by a new one) is never in the dictionary again,
\* whatever the threads between generate_keypair's two halves go on to store.
NoKeyResurrection == StoredKeys \cap erased = {}

\* No two sessions share a private key, and a key is stored only under the
\* session id generate_keypair bound it to.
KeyHasOneSession ==
    \A s \in SessionIds : Has(s) =>
        /\ <<s, active_sessions[s].key>> \in issued
        /\ \A p \in issued : p[2] = active_sessions[s].key => p[1] = s

\* A session within its TTL leaves the dictionary only because somebody called
\* delete_keypair for it, or because generate_keypair drew its id a second time.
\* In particular the cleanup thread, which compares against a now it read before
\* it waited for the lock, never takes a session that is still valid when the step
\* happens.  (Of the lazy expiry, which looks like delete_keypair to the store
\* alone, the handler's OwnSessionDeleted says the same.)
LiveSessionKept ==
    [][\A s \in SessionIds :
          /\ Has(s)
          /\ IsSessionValid(active_sessions[s])
          /\ active_sessions'[s] # active_sessions[s]
          => \/ DeleteKeypair(s)
             \/ \E c \in Callers : StoreSession(c) /\ prepared[c].sid = s]_storeVars

\* Every private key the enclave generates leaves its memory in the end, also
\* when the session is abandoned and nobody asks for it again.
EveryKeyErased ==
    \A k \in Keys : (k <= keys_made) ~> (k \in erased)
=============================================================================
