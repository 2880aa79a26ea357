# The Epsilon enclave in TLA+

The Epsilon enclave (`src/`) runs a researcher's script on a dataset inside an AWS Nitro
enclave or an Intel TDX trust domain. A coordinator asks for an RSA key pair, encrypts a
ZIP bundle and a CSV file to it, sends both, and gets the script's output back with an
attestation of what ran. This directory models that system in TLA+, checks the models
with TLC on small instances, and proves the safety properties of the passing runs with
TLAPS for every instance.

## The system

| Part | State | Operations | Meets |
|---|---|---|---|
| Key store, `keypair_manager_impl.py` | `active_sessions` under `_lock`; a daemon thread | generate, get public/private key (lazy expiry), delete, periodic purge | called by every connection thread |
| Request handler, `request_handler_impl.py` | none of its own; locals of one request | `handle_request` and the operations it dispatches | key store, decrypt, execute and attestation services |
| Decrypt service, `decrypt_service_impl.py` | none | `decrypt_combined_hybrid_data`; three older formats no request reaches | key store |
| Execute service, `execute_service_impl.py` | `_active_executions` under a lock; a temporary directory per run | `execute_bundle`; `execute_script`, `execute_with_data`, monitoring (no request reaches these) | output files, the script's process |
| Output files, `output_files.py` | the outputs directory, which the script's user owns | `collect_output_files`, manifest | processes the script left behind |
| Attestation (Nitro), `attestation_service_impl.py` | the `/dev/nsm` descriptor | `generate_attestation`, `create_execution_attestation` | NSM device; local attestation |
| Attestation (TDX), `tdx_attestation_service_impl.py` | none | the same two | the `tdquote` helper |
| Local attestation, `local_attestation_service.py` | seven files of `LOCAL_CA_DIR`, no lock | load or generate the CA, sign a document | every connection thread, restarts |
| Server, `server/server.py`, `server/tcp_server.py` | one thread and one socket per connection | receive (length prefix or raw JSON), handle, answer | clients, request handler |
| KMS attestation, `kms_attestation_impl.py` | one flag | encrypt, decrypt and generate data keys; attestation document | `kmstool`, one process per call |
| Start-up, `main*.py`, `factory.py`, `config.py` | - | wiring, limits | - |

What is hard here: one session can be used by several requests at once, expire in the
middle of one, be purged by the cleanup thread, or be replaced because its 32-bit id was
drawn again; the key must be gone before a result leaves; after that nothing can be
repeated, so failures after the deletion lose the result; executions of one session share
registry entries; processes of the script survive it and change the directory that is
being collected; the CA files are shared by threads
and survive crashes; the network delivers any part of a message at any time. `hazards` in
`PROJECT.json` lists these places line by line.

## Modules

| Module | Models | State | Actions |
|---|---|---|---|
| `KeyPairManager` | the key store | `active_sessions`, clock, the cleanup thread, sessions built but not stored, histories of issued and erased keys | `GenerateKeypair`, `StoreSession`, `GetValidSession`, `DeleteKeypair`, `PurgeWake`, `PurgeExpiredSessions`, `Tick` |
| `RequestHandler` (extends it) | the handler and, as its steps, the decrypt, execute and attestation services | per thread: program counter, request, locals, response | one action per stage of each operation, from `HandleRequest` to `Send` |
| `KeyCustody` | what the enclave promises about a private key | the custody of each key | take, use, erase, deliver |
| `ExecuteService` | the execute service | the registry `_active_executions`, the second, per thread: program counter, call, locals | the three entry points up to the run, monitoring, write, spawn, end of the run, collection of the output files, the `finally` clauses, cleanup by session, removal of the directory, `TerminateExecution` |
| `ExecutionContract` | what the handler takes `execute_bundle` to do | per thread: phase, dataset given and injected, success | ask, start, refuse, finish, forget |
| `Attestation` | the Nitro and TDX services and the `tdquote` helper | the backend, the call, its nonce, the device's answer, the evidence returned | call, request, the answers of NSM, local CA and helper, parse |
| `KmsAttestation` | the KMS service | the flag, the call, `kmstool`'s output; KMS's ciphertexts (external) | call, tool, parse |
| `DecryptService` | the four encrypted formats | the session's key pair, the message in transit, the outcome | the client seals, session and message change, decrypt |
| `OutputFiles` | the collection and a process that survived the script | the tree, the walk's stack and list, the open file, the result | one action per system call; `Replace`, `ResizeOpenFile`, `OpenFifoForWriting`, `MakeDirectory` for the process |
| `LocalCA` | the local CA and its documents | the contents of the seven files, each thread's place and loaded hierarchy | existence test, load of one file, truncation and filling of one file, failures, crash, signature |
| `LocalCertificates` (extends it) | the same with the leaf certificate's six hours | the hour, the birth of each hierarchy, documents with their time | the steps of `LocalCA`; `HourPasses` |
| `EnclaveServer` | one connection | bytes sent, received and handed over, the answer | the client's sends and close; each return of `_recv_request` and `_recv_raw_json`; the response |

`MC*` modules give the constants their values. The theorems about a module are in a module
of its name and `Proofs`; those about `KmsAttestation` are in `AttestationProofs`. Definitions whose comment says *mutant* are
deliberate errors: each property of a passing run has one that TLC must catch when it
replaces the definition `mutants` in `PROJECT.json` names. `map` there gives the source
lines of every definition.

### Granularity and abstraction

* Key store and handler: a step is one critical section of `_lock`, or the code between
  two of them, which shares nothing. `created_at` and the purge's `now` are read before
  the lock is taken, so those are steps of their own. Running a script is its start, the
  return of `subprocess.run`, and the collection of the output files, which ends or is held
  by a process of the script (`"blocked"`) until that process lets go (`Released`).
* A key pair is the number of the call that generated it. A ciphertext is the key it is
  encrypted to and its content; key 0 is a ciphertext nothing here opens. A hash is the
  bytes that were hashed. Clients encrypt only to keys whose session was stored.
* `csv_data` of zero bytes is kept apart from a missing CSV: Python treats both as false,
  at the injection and at the hash.
* `OutputFiles` has a fixed set of possible paths; each may hold a regular file of some
  size, a directory, a link, a FIFO or nothing, and changes between system calls. What
  lies behind a followed link is arbitrary. One `scandir` listing is one step, each `stat`
  another. Since `_walk` counts no directories, the process may also make empty directories
  of further names, one after the other and without end (`further`).
* `LocalCA`: the seven files are separate; `write_bytes` is a truncation and a filling,
  and a crash can fall between. The history `cut` tells whether a saving was cut off at
  `root.der`, the last file. `LocalCertificates` adds the validity of the leaf; the
  other two certificates last years.
* `ExecuteService`: a step is one critical section of `_executions_lock`, the start or the
  end of the process, or the code between, which works in a directory of its own. A source
  text is what `validate_script` makes of it, and whether it ends. A path the caller gives
  may name anything that exists, in the bundle or outside it. An execution id is a
  kind, a session and a second, so that ids collide as they do in the code. The ghost
  `disturbed` marks an execution whose entry somebody else may have changed; `StatusHonest`
  speaks of the others.
* `Attestation`: hashing and the JSON and CBOR encodings are injective, except that the
  bytes of REPORTDATA are spelled out with their length prefixes, since the question is
  whether these are ambiguous. A key or a slot that is left out of a message has the value
  `Absent`; `user_data`, nonce and `public_key` may each be left out. The execution calls on
  TDX are calls of the interface; the handler's own raises (`handler_tdx`). The device signs what it is given, and nobody guesses a random nonce before it
  is drawn.
* `DecryptService`: a message is a sequence of units; the primitives are ideal, CBC padding
  accepts some wrong texts. RSA ciphertexts have a length per key pair, so a message can be
  cut by the wrong key's size. They have at least two units; a change replaces one unit
  or cuts the message short, which is less than a new ciphertext: the RSA-only format
  cannot tell a whole ciphertext that somebody else made for the same public key.
  `decrypt_csv_file` can also fail at the file it reads or the one it writes.
* `KmsAttestation`: a ciphertext opens under the set of `name=value` arguments it was made
  with. `DataKeyRoundTrip` promises the pairs only for names without `=`.
* `EnclaveServer`: bytes are counted, and only the facts the server tests are kept. The
  threads share nothing in this part, so one connection is modelled. A failed `sendall` is
  only logged, so the model does not tell it from a successful one.

## Runs

| Run | What it asks | Bounds |
|---|---|---|
| `store` | No erased key comes back; a key lives under the id it was made for; purge and lookup never take a valid session; every key is erased in the end. | 2 threads, 2 ids that may repeat, 3 key pairs, TTL 2, clock to 5 |
| `handler_safety` | Keys erased before results; replays refused; one key pair per execution; attestations and proofs that say what happened; a valid session is taken only by the cleanup of an execution it opened, or by a repeated id; refinement of `KeyCustody`. | 2 threads, 2 sessions whose ids may repeat, 2 key pairs, TTL 1, clock to 2 |
| `handler_liveness` | Every request of every form is answered, unless a surviving process holds the collection. | 2 threads, 1 key pair, every kind of request, malformed ones included |
| `handler_tdx` (violation) | A successful run is reported as one, with the TDX backend. | 1 session |
| `executions` | A status `running` has a thread behind it, `execute_script` leaves no entry, an undisturbed entry is right; decrypted files are removed or the run is no success; the script that runs was checked; `ExecutionContract` is implemented; every call returns, unless a surviving process holds the collection. | 2 threads, 2 sessions, 2 calls out of 12, 2 seconds |
| `services` | Attestations are signed over the call's data, differ when executions differ, keep the slots apart and pass their own guide; KMS data keys come back as themselves; messages are opened as sent or refused. | 2 attestation calls on 5 backends; 3 KMS calls, 4 contexts; 4 formats, 2 key sizes, 1 change |
| `ca_crash` | Documents verify, under one root, whatever crashes and failed writes happen; `root.der` is complete and matches, unless the saving was cut off there; only `leaf.pem` can stop a load. | 1 thread, 4 hierarchies |
| `ca_race` (violation) | Documents verify with two threads and no failure. | 2 threads, 2 hierarchies |
| `ca_expiry` (violation) | A document's leaf certificate is valid when it is signed. | 1 thread, 1 hierarchy, 8 hours |
| `output_files` | Limits, memory, no content through links; an untouched tree is collected exactly; the collection ends, or waits for a FIFO, or is led through ever new directories. | 4 paths on 2 levels, 2 files allowed, 2 changes, any number of further directories |
| `server` | Requests intact under any chunking; bounded buffers; every connection answered and ended; no false timeout. | messages of 2 to 14 bytes around a limit of 8 |
| `server_framing` (violation) | A raw client's errors come in raw JSON. | raw messages of 5 to 11 bytes |

Why these bounds are enough to meet the hard cases: two threads and one session give every
interleaving of two requests on one key; two key pairs and repeating ids let a session be
replaced under a running request; two executions are enough for one to disturb the other,
and the 12 calls hold a bundle beyond each limit, files in the place of directories,
several candidates for the script, given paths (an entry of the bundle, the injected file, a path outside) and a script that never ends; two attestation calls are
what a comparison of documents takes, three KMS calls make, make again and open a
ciphertext; a clock that passes the TTL lets a session expire at any step; three
hierarchies are needed for a regeneration to fail and be repeated, and four are checked;
two changes let a directory be exchanged and put back; message lengths lie on both sides
of the header size and of the limit.

What the violation runs show:

* `handler_tdx`: the handler passes `external_nonce` and `context_hash`, the TDX service
  has no such parameters. The `TypeError` comes after the script ran and after the key was
  deleted, so the output is lost and the request cannot be repeated.
* `ca_race`: two threads that find no CA both save one. A third request that loads in
  between signs with the key of one hierarchy and sends the certificate of the other.
* `ca_expiry`: the hierarchy of hour 0 is loaded in hour 7, and its leaf signs on.
* `server_framing`: `_send_error` always writes a length prefix.

Four more disagreements are plain from the text and need no run. README.md:99 documents a
`get_attestation` request with `user_data` and without `session_id`; `validate_request`
refuses the one field and demands the other. And `handle_attestation` of the request
handler, which no operation reaches, calls `kms_attestation.attest_enclave`, which
`KMSAttestationService` does not have. `_find_script` (execute_service_impl.py:470) says
that it locates the script "inside the extracted bundle", but only tests that a given path
exists; the handler gives none. And the comment "length-prefix to avoid ambiguity"
(tdx_attestation_service_impl.py:71) holds between calls that leave the same slots out: a
`None` is skipped, so that `(a, None, b)` and `(a, b, None)` give the same REPORTDATA.

`root.der` (local_attestation_service.py:159, "for the trust-center to use") has a case of
its own: a crash or a failed write at this last file leaves it missing or empty for good,
since the six other files are then there and are loaded. `PublishedRoot` names this as its
one exception.

### Fairness

* `FairStoreSpec`, and the handler's `FairSpec`: weak fairness of the cleanup thread (a
  daemon thread in a loop of `sleep` and a short critical section), of each connection
  thread's next step (locks are held briefly, the script has a timeout, sockets have
  timeouts) and of the clock. No fairness of clients, and none of `Released`: no timeout
  covers `collect_output_files`, so a request may stay held for ever, which
  `EveryRequestAnswered` names as its one exception.
* `OutputFiles`: weak fairness of the collecting thread; the wait for a FIFO's writer is a
  state of its own and not assumed to end, and nothing stops the process from making
  directories. `CollectionEnds` names both.
* `ExecuteService`: weak fairness of each thread that has begun a call. The end of a run is
  such a step because `subprocess.run` has a timeout; a script that never ends by itself is
  among the calls. The collection is held and released as in the handler.
* `EnclaveServer`: weak fairness of the connection thread, in which a wait ends by data,
  by the end of the stream or by `CLIENT_RECV_TIMEOUT`, and `handle_request` returns.

## Proofs

Every invariant, action property and refinement that a passing run checks is a theorem, for
every set of threads, ids, jobs, requests, calls, bundles, messages, contexts and trees,
and every bound. `theorems` in `PROJECT.json` pairs them. Each module has one or two
inductive invariants, a lemma per action (or per action and conjunct) that keeps it, and
short theorems that read the properties off it.

**`KeyPairManagerProofs`.** `StoreInv` strengthens the properties until a step preserves
them: a stored or prepared session carries a key that was issued for its id (`StoredBound`,
`PreparedBound`), no two threads prepare the same key (`PreparedDistinct`), a key is issued
once (`IssuedOnce`), no key number is ahead of the generator (`KeysNumbered`), and the
purge's `now` is not in the future (`PurgeNowPast`). The last is what makes the stale `now`
harmless: it can only spare sessions. From it: `StoreTypeCorrect`, `NoResurrection`,
`OneSessionPerKey` and the action property `ValidSessionKept`.

**`RequestHandlerProofs`.** `HandlerKeepsStore` shows that every step of the composition is
a step of the store or leaves it alone, so the store's invariant holds inside the enclave.
`HandlerInv` adds where a thread can be with which request (`Control`), that the keys a
thread used were issued for its session and are stored or erased (`KeyTraced`), and that
delivered keys are erased (`DeliveredErased`). Deleting `active_sessions[sid]` need not
delete the key that was used, since the id may have been drawn again; the argument is that
then the old key is already erased, and an erased key does not come back. From it:
`TypeCorrect`, `ErasedBeforeResult`, `NoReplay`, and `ImplementsKeyCustody`, the step
simulation of `KeyCustody`.

`ReportInv` is about what a thread says at the end. `RunOf` is about its own variables: the
only key it uses is the bundle's, `ok` is set by a run and by nothing else, and what was
injected is what the proof hashes. `InputsOf` ties them to the store. It is what
`OneKeyForBothInputs` needs: the session may be replaced between the two decryptions, but
only by a key that no client had when the request came. A dataset is encrypted to a key
that was published before, so unless it is the bundle's key, the session does not hold it
when the bundle is opened and never comes to hold it; the second decryption fails. The other theorems from it are
`CleanupDeletesOwnSession` (an action property: it compares the store before and after each
step), `AttestedKeyGenerated`, `ProofTellsWhatRan` and, with the
backend as a hypothesis, `NitroReportsSuccess`.

**`ExecuteServiceProofs`.** `ExecuteInv` has a part about each thread alone: how far its
call has come (`ThreadOf`), what it left on disk (`TempOf`), which script it chose
(`ChosenOf`). Steps of other threads do not touch it. The registry, which they do touch, has
the two properties `OnlyEndedBundlesRemain` and `StatusHonest`, inductive with the rest.
Lemmas about the search for the script, with and without a path, and the size of a bundle
carry `OnlyCheckedScriptsRun`. `ImplementsExecutionContract` maps the stages of a bundle's
call to the phases of the contract, step by step.

**`OutputFilesProofs`.** `CollectInv` says how much has been counted (`Counted`) and where
the collection is (`Placed`), and holds whatever the surviving process does to the tree;
from it `LimitsHold`, `MemoryHolds` and `LinksRefused`. `QuietInv` is about a tree nobody
has touched, where there are no further directories either (`Untouched`): during the walk everything that is not yet found lies below an entry of the
listing or a directory of the stack, and nothing of what is found does (`StillToSee`);
during the reads the bytes read and those still to be read make up the tree
(`QuietRead`). From it `QuietCollectionExact`. Both need facts about recursive definitions
(the ancestors of a path, sums over finite sets). The provers have no induction for these,
so the lemmas look at a least counterexample, whose existence `WFMin` of the library gives.

**`EnclaveServerProofs`.** `ServerInv` states for each of the three loops what of the stream
has been received while the loop still runs (`HeaderLoop`, `BodyLoop`, `RawLoop`), and the
order of handing on and answering (`Order`). The four properties of a connection follow.

**`DecryptServiceProofs`.** `DecInv` says that the message is the sealed one, or that
one with one unit replaced or its end cut off, and the outcome one that its format gives. `DecryptedAsSent` then goes
unit by unit: where a format opens to a plaintext, every unit is the one that sealing that
plaintext puts there, so the units left alone name the client's key pair and plaintext, and
the altered one cannot be in its place. With RSA ciphertexts of one unit this fails for the
RSA-only format, because the one alteration then replaces all of it; hence the assumption
on `KeyUnits`, which `key_size // 8` satisfies by far.

**`AttestationProofs`.** `AttInv` says that a document which will be accepted is signed over
the data of the call under way, and that all evidence returned is of the form `Genuine`;
`EvidenceIsGenuine` follows. `ProofsBind` compares the fields of two proofs, and for the
nonce the request around them. `SlotsStayApart` is about bytes: two slots with the same
bytes have the same length prefix, hence the same content and the same rest, and whether
the nonce was left out shows in the length, if it is known of the two other slots. `KmsInv` says
that every answer is `Faithful` to its call; `DataKeysComeBack` adds that a `name=value`
argument can be taken apart when the name holds no `=`.

**`LocalCAProofs`.** For one thread (`Alone`), `CAInv` says what a crash leaves: if
`leaf.pem` exists, the five files before it belong to the newest hierarchy, and a file that
a writer has passed is complete. Documents exist only once the newest hierarchy is saved,
and `root.der` is then complete unless the saving was cut off there (`DerFollows`). Hence
a load never mixes hierarchies and none is replaced after a document was signed. With two threads this is false, as `ca_race` shows.

The assumptions are the named `ASSUME`s of the modules, which TLC evaluates on the
instances of the runs:

* types and ranges of the constants, a limit above the header size for the server, and that
  lengths that begin with the byte of `{` are above the limit;
* placeholders (`Absent`, `EmptyBytes`, `NoKey` and the like) are not ordinary values; a
  dataset is not a file body of a bundle, so that an injected dataset can be recognised;
* bundles and the paths of a tree are finite, and a path's number is above its parent's;
* an RSA ciphertext has two units or more;
* no caller's nonce is one of the random nonces the service will draw.

Only model-checked, because fairness and ENABLED are beyond these provers: the five
liveness properties `EveryKeyErased`, `EveryRequestAnswered`, `ExecutionsEnd`,
`CollectionEnds` and `ConnectionEnds`. The properties of the violation runs are refuted, so
there is nothing to prove; `DocumentsVerify` and `SuccessReported` are proved under the
hypotheses that the violations show to be needed.

## Not modelled

* RSA, AES, CBOR, COSE and JSON as computations, the layout of the NSM ioctl message, the
  hardware, KMS: they are external, and modelled by what the code relies on.
* Start-up code and wiring beyond the choice of the backend and the limits; the development
  scripts.
* Handler methods that `handle_request` never calls, and functions that only read state or
  test their argument (`monitor_execution`, `get_execution_logs`, `decrypt_bundle`,
  `validate_encryption_metadata`, statistics).
* The script's own behaviour and its isolation by `SCRIPT_UID`.
* Corrections of the wall clock.

## Plan

1. Done: key store, handler, custody refinement, output files, local CA and its
   certificates, server, execute service and its contract, attestation on all backends,
   KMS, decrypt service.
2. Done: theorems for every safety, action and refinement property of the passing runs.
3. Next: shorten the longest proofs where lemmas repeat themselves, and state what the
   composition gives between modules, for instance that what `RequestHandler` takes the
   decryption and the execution to do is what `DecryptService` and `ExecutionContract`
   promise.
4. Compose `EnclaveServer` with `RequestHandler`, so that lost answers and repeated
   requests are the network's and not the request set's.
