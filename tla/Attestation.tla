---------------------------- MODULE Attestation ----------------------------
(***************************************************************************)
(* The attestation services, from a call of their interface to the         *)
(* evidence that comes back: AttestationService (Nitro, or the local CA)   *)
(* and TdxAttestationService with its helper program tdx/tdquote.  The     *)
(* calls are those the interface admits: the request handler gives no      *)
(* public_key and always a user_data, and its own execution call names     *)
(* parameters that the TDX method lacks (see RequestHandler), so that the  *)
(* TDX executions here are those of a caller that uses the TDX signature.  *)
(*                                                                         *)
(* The hardware signs what it is given, or fails.  A hash is the value it  *)
(* is the hash of.  A byte string whose length matters is a sequence of    *)
(* small numbers, and its four-byte length prefix is one number of the     *)
(* same alphabet, so that a prefix can be mistaken for contents.  The      *)
(* timestamp is left out: it is the same for all calls of one second.      *)
(***************************************************************************)
EXTENDS Integers, Sequences, SequencesExt

CONSTANTS
    Modes,        \* how the process can have been started
    AttCalls,     \* calls of IAttestationService
    EmptyBytes,   \* b"", or "" where the code expects a hash
    EmptyText,    \* a nonce "", which the handler passes on as it is
    Absent,       \* None
    MaxAsked      \* bound: calls made

ExecutionFields == {"op", "job", "script", "dataset", "output", "nonce", "context",
                    "manifest", "atl_nonce"}
KeyFields == {"op", "user_data", "nonce", "public_key"}

\* None and "" are no bytes; nobody guesses what os.urandom will return.
ASSUME AttestationAssumption ==
    /\ Modes \subseteq {"nsm", "nsm_closed", "no_device", "local", "tdx"}
    /\ MaxAsked \in Nat
    /\ Absent # EmptyText /\ Absent \notin Seq(Nat) /\ EmptyText \notin Seq(Nat)
    /\ \A c \in AttCalls :
          \/ /\ c.op = "execution" /\ c = [x \in ExecutionFields |-> c[x]]
             /\ \A k \in 0 .. MaxAsked : c.nonce # <<"random", k>>
          \/ /\ c.op = "key" /\ c = [x \in KeyFields |-> c[x]]
             /\ c.user_data \in Seq(Nat) \cup {Absent}
             /\ c.nonce \in Seq(Nat) \cup {Absent, EmptyText}
             /\ c.public_key \in Seq(Nat) \cup {Absent}

VARIABLES
    mode,      \* the backend, and whether /dev/nsm is there and was opened
    asked,     \* calls made
    attpc,     \* "idle", "build", "device" or "parse"
    attcall,   \* the call
    nonce,     \* its nonce
    answer,    \* what the device or the helper program answered
    evidence   \* history: the evidence that was returned, in order

attVars == <<mode, asked, attpc, attcall, nonce, answer, evidence>>

AttInit ==
    /\ mode \in Modes
    /\ asked = 0
    /\ attpc = "idle"
    /\ attcall = Absent
    /\ nonce = Absent
    /\ answer = Absent
    /\ evidence = <<>>

Truthy(v) == v \notin {Absent, EmptyBytes, EmptyText}

-----------------------------------------------------------------------------
(* create_execution_attestation: the proof, a JSON object.                 *)

\* script_hash and dataset_hash
HashOf(b) == IF Truthy(b) THEN b ELSE EmptyText

\* Mutant: the proof forgets the dataset.
NitroProofNoDataset(c, n) ==
    [job_id |-> c.job, script_hash |-> HashOf(c.script), dataset_hash |-> EmptyText,
     output_hash |-> c.output, nonce |-> n, files_manifest_sha256 |-> c.manifest,
     context_hash |-> IF Truthy(c.context) THEN c.context ELSE Absent,
     nonce_source |-> IF Truthy(c.nonce) THEN Absent ELSE "random"]

\* A key whose value here is Absent is left out of the object.
NitroProof(c, n) ==
    [job_id |-> c.job, script_hash |-> HashOf(c.script), dataset_hash |-> HashOf(c.dataset),
     output_hash |-> c.output, nonce |-> n, files_manifest_sha256 |-> c.manifest,
     context_hash |-> IF Truthy(c.context) THEN c.context ELSE Absent,
     nonce_source |-> IF Truthy(c.nonce) THEN Absent ELSE "random"]

\* The nonce and the context of the ATL are null where they are None.
TdxProof(c, n) ==
    [job_id |-> c.job, script_hash |-> HashOf(c.script), dataset_hash |-> HashOf(c.dataset),
     output_hash |-> c.output, nonce |-> n, files_manifest_sha256 |-> c.manifest,
     atl_nonce |-> c.atl_nonce, atl_context_hash |-> c.context, backend |-> "tdx"]

\* Mutant: the random nonce is used whether or not there is another.
ProofNonceRandom(c) == <<"random", asked>>

\* Nitro tests external_nonce for truth, TDX tests nonce for None; os.urandom does
\* not repeat itself.
ProofNonce(c) ==
    IF (mode = "tdx" /\ c.nonce # Absent) \/ (mode # "tdx" /\ Truthy(c.nonce))
    THEN c.nonce ELSE <<"random", asked>>

-----------------------------------------------------------------------------
(* What the device is given.                                               *)

\* Mutant: the slots are concatenated without their lengths.
ReportDataNoLengths(slots) ==
    FlattenSeq([i \in DOMAIN slots |-> IF slots[i] = Absent THEN <<>> ELSE slots[i]])

\* What a slot adds to the hash: its length and its bytes, or nothing if it is None.
Chunk(slot) == IF slot = Absent THEN <<>> ELSE <<Len(slot)>> \o slot

\* _report_data_from: the bytes that are hashed.
ReportDataFrom(slots) == FlattenSeq([i \in DOMAIN slots |-> Chunk(slots[i])])

\* _build_attestation_request: a slot that is None is left out.
NsmRequest(user_data, n, public_key) ==
    [user_data |-> user_data, nonce |-> n, public_key |-> public_key]

\* The contents of the request to the device: the map for NSM and for the local
\* CA, the bytes that SHA-512 turns into REPORTDATA for TDX.
Committed(c, n) ==
    CASE c.op = "execution" /\ mode = "tdx" -> TdxProof(c, n)
      [] c.op = "execution" /\ mode # "tdx" -> NsmRequest(NitroProof(c, n), n, Absent)
      [] c.op = "key" /\ mode = "tdx" -> ReportDataFrom(<<c.user_data, n, c.public_key>>)
      [] c.op = "key" /\ mode # "tdx" -> NsmRequest(c.user_data, n, c.public_key)

\* _get_td_quote: a SHA-512 digest is 64 bytes, and goes to the helper in hex.
Stdin(v) == [encoding |-> "hex", length |-> 128, of |-> v]

\* tdquote takes 64 bytes as they are, or 128 hex digits.
TdquoteReads(stdin) ==
    CASE stdin.length = 64 -> [encoding |-> stdin.encoding, of |-> stdin.of]
      [] stdin.length = 128 /\ stdin.encoding = "hex" ->
           [encoding |-> "raw", of |-> stdin.of]
      [] OTHER -> Absent

-----------------------------------------------------------------------------
Ask(c) ==
    /\ attpc = "idle"
    /\ asked < MaxAsked
    /\ asked' = asked + 1
    /\ attcall' = c
    /\ nonce' = IF c.op = "execution" THEN ProofNonce(c) ELSE c.nonce
    /\ attpc' = "build"
    /\ UNCHANGED <<mode, answer, evidence>>

\* NOT_IN_ENCLAVE, NSM_UNAVAILABLE; hashing a text raises TypeError.
Refused ==
    \/ mode \in {"no_device", "nsm_closed"}
    \/ mode = "tdx" /\ nonce = EmptyText

BuildRequest ==
    /\ attpc = "build"
    /\ attpc' = IF Refused THEN "idle" ELSE "device"
    /\ UNCHANGED <<mode, asked, attcall, nonce, answer, evidence>>

Answered(a) ==
    /\ attpc = "device"
    /\ answer' = a
    /\ attpc' = "parse"
    /\ UNCHANGED <<mode, asked, attcall, nonce, evidence>>

Signed == [kind |-> "document", encoding |-> "raw", of |-> Committed(attcall, nonce)]

Failure(kind) == [kind |-> kind]

\* _nsm_ioctl and _parse_attestation_response: ioctl raises, the response is empty,
\* an Error, something else, or a document.  The device takes no text for a nonce.
NsmAnswers ==
    /\ mode = "nsm"
    /\ \/ nonce # EmptyText /\ Answered(Signed)
       \/ \E k \in {"raises", "empty", "Error", "unexpected"} : Answered(Failure(k))

\* generate_local_attestation signs, or answers LOCAL_ATTESTATION_FAILED.
LocalAnswers ==
    /\ mode = "local"
    /\ Answered(Signed) \/ Answered(Failure("Error"))

\* The helper writes the whole quote and exits with 0; or part of it, or nothing,
\* and exits with 1; or runs into TDQUOTE_TIMEOUT_SECONDS.
TdquoteAnswers ==
    /\ mode = "tdx" /\ attpc = "device"
    /\ LET read == TdquoteReads(Stdin(Committed(attcall, nonce))) IN
       \/ read # Absent /\ Answered([kind |-> "document", encoding |-> read.encoding,
                                     of |-> read.of])
       \/ \E k \in {"partial", "empty", "exit 1", "raises"} : Answered(Failure(k))

\* Mutant: what the helper wrote counts, its exit code does not.
AcceptedAnyOutput(a) == a.kind \in {"document", "partial"}

\* The tests on the answer: response_len, "Attestation" and "document" in the
\* response; returncode and stdout.
Accepted(a) == a.kind = "document"

\* proof_canonical for TDX; the verifier of a Nitro document reads it there.
Canonical == IF mode = "tdx" THEN Committed(attcall, nonce) ELSE Absent

ParseAnswer ==
    /\ attpc = "parse"
    /\ evidence' = IF Accepted(answer)
                   THEN Append(evidence, [call |-> attcall, nonce |-> nonce,
                                          document |-> answer, canonical |-> Canonical])
                   ELSE evidence
    /\ attpc' = "idle"
    /\ answer' = Absent
    /\ UNCHANGED <<mode, asked, attcall, nonce>>

AttNext ==
    \/ \E c \in AttCalls : Ask(c)
    \/ BuildRequest \/ NsmAnswers \/ LocalAnswers \/ TdquoteAnswers \/ ParseAnswer

AttSpec == AttInit /\ [][AttNext]_attVars

-----------------------------------------------------------------------------
(* Properties.                                                             *)

\* What the proof says of an execution: None and b"" are the same to Nitro.
Essence(c) ==
    IF mode = "tdx"
    THEN [c EXCEPT !.script = HashOf(c.script), !.dataset = HashOf(c.dataset)]
    ELSE [c EXCEPT !.script = HashOf(c.script), !.dataset = HashOf(c.dataset),
                   !.context = HashOf(c.context), !.nonce = HashOf(c.nonce),
                   !.atl_nonce = Absent]

Documents(op) == {i \in DOMAIN evidence : evidence[i].call.op = op}

\* A success of the service carries a whole document, which the device signed over
\* this call's data: no failure of the device, the helper or the transport between
\* them is taken for evidence.
EvidenceSigned ==
    \A i \in DOMAIN evidence :
        evidence[i].document = [kind |-> "document", encoding |-> "raw",
                                of |-> Committed(evidence[i].call, evidence[i].nonce)]

\* The steps of verification_guide succeed for the output, the nonce, the context and
\* the files of the execution: for TDX, proof_canonical hashes to REPORTDATA and names
\* the output; for Nitro, user_data names output and files, the nonce slot is the one
\* the researcher gave, and so is the context.
GuideAccepts ==
    \A i \in Documents("execution") :
        LET e == evidence[i] IN
        IF mode = "tdx"
        THEN e.canonical = e.document.of /\ e.canonical.output_hash = e.call.output
        ELSE LET proof == e.document.of.user_data IN
             /\ proof.output_hash = e.call.output
             /\ e.call.manifest # Absent => proof.files_manifest_sha256 = e.call.manifest
             /\ Truthy(e.call.nonce) => e.document.of.nonce = e.call.nonce
             /\ Truthy(e.call.context) => proof.context_hash = e.call.context

\* What create_execution_attestation and generate_attestation return as a success is
\* signed evidence of this call, which its own verification_guide accepts.
EvidenceVerifies == EvidenceSigned /\ GuideAccepts

\* Two executions that differ in job, script, dataset, output, nonce, context or
\* output files never get the same signed proof.
ProofBindsExecution ==
    \A i, j \in Documents("execution") :
        evidence[i].document.of = evidence[j].document.of
            => Essence(evidence[i].call) = Essence(evidence[j].call)

\* The same slots are None, up to the nonce.
NoneAgrees(c, d) ==
    /\ c.user_data = Absent <=> d.user_data = Absent
    /\ c.public_key = Absent <=> d.public_key = Absent

\* Two documents of generate_attestation with the same REPORTDATA, or the same NSM
\* request, have the same user_data, nonce and public_key: bytes cannot move from one
\* slot into another, although TDX has a single field for all three.  For TDX this
\* needs calls that leave user_data and public_key out alike, as all calls of the
\* request handler do: _report_data_from skips a slot that is None, so that (a, None, b)
\* and (a, b, None) are the same to it.
SlotsUnambiguous ==
    \A i, j \in Documents("key") :
        /\ evidence[i].document.of = evidence[j].document.of
        /\ mode = "tdx" => NoneAgrees(evidence[i].call, evidence[j].call)
        => evidence[i].call = evidence[j].call
=============================================================================
