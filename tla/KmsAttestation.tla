--------------------------- MODULE KmsAttestation ---------------------------
(***************************************************************************)
(* KMSAttestationService (implementations/kms_attestation_impl.py): data   *)
(* keys that AWS KMS encrypts and decrypts for the enclave.  Each          *)
(* operation runs kmstool once, with a timeout of 30 seconds.  KMS is      *)
(* external: a ciphertext is a data key and the encryption context that    *)
(* KMS was given, and only that context opens it.                          *)
(*                                                                         *)
(* A context maps names to values, which are sequences of characters; it   *)
(* reaches kmstool as arguments of the form name=value.                    *)
(***************************************************************************)
EXTENDS Integers, Sequences

CONSTANTS
    KmsContexts,  \* encryption contexts: functions from names to values
    NoContext,    \* None
    MaxKmsCalls   \* bound: operations called

ASSUME KmsAssumption ==
    /\ MaxKmsCalls \in Nat
    /\ \A c \in KmsContexts : \A n \in DOMAIN c : n \in Seq(STRING) /\ c[n] \in Seq(STRING)

VARIABLES
    enabled,   \* _enabled: kmstool is there and a key id is configured
    kmsasked,  \* operations called
    kmspc,     \* "idle", "tool" or "parse"
    kmscall,   \* the operation and its arguments
    output,    \* what kmstool answered
    blobs,     \* external: the ciphertexts KMS has made
    replies    \* history: the successes that were returned, with their calls

kmsVars == <<enabled, kmsasked, kmspc, kmscall, output, blobs, replies>>

NoCall == [op |-> "none"]
NoOutput == [status |-> "none"]

KmsInit ==
    /\ enabled \in BOOLEAN
    /\ kmsasked = 0
    /\ kmspc = "idle"
    /\ kmscall = NoCall
    /\ output = NoOutput
    /\ blobs = {}
    /\ replies = {}

\* Mutant: the context is not passed on.
ContextArgsDropped(c) == {}

\* if encryption_context: --encryption-context name=value, for each item.
ContextArgs(c) ==
    IF c = NoContext THEN {} ELSE {n \o <<"=">> \o c[n] : n \in DOMAIN c}

\* Data keys; genkey makes the one with the number of the call.
DataKeys == 1 .. MaxKmsCalls

Blob(k, c) == [key |-> k, context |-> ContextArgs(c)]

KmsOperations ==
    [op : {"encrypt"}, key : DataKeys, context : KmsContexts \cup {NoContext}]
      \cup [op : {"decrypt"}, blob : blobs, context : KmsContexts \cup {NoContext}]
      \cup [op : {"genkey"}, context : KmsContexts \cup {NoContext}]
      \cup {[op |-> "attestation-document"]}

\* An operation is called.  When the service is not enabled it fails at once.
CallKms(c) ==
    /\ kmspc = "idle"
    /\ kmsasked < MaxKmsCalls
    /\ kmsasked' = kmsasked + 1
    /\ IF enabled THEN kmscall' = c /\ kmspc' = "tool" ELSE UNCHANGED <<kmscall, kmspc>>
    /\ UNCHANGED <<enabled, output, blobs, replies>>

\* External: KMS does the work that is asked of it.
KmsResult ==
    CASE kmscall.op = "encrypt" ->
           {[ciphertext |-> Blob(kmscall.key, kmscall.context)]}
      [] kmscall.op = "decrypt" ->
           IF kmscall.blob.context = ContextArgs(kmscall.context)
           THEN {[plaintext |-> kmscall.blob.key]} ELSE {}
      [] kmscall.op = "genkey" ->
           {[plaintext |-> kmsasked, ciphertext |-> Blob(kmsasked, kmscall.context)]}
      [] OTHER -> {[document |-> "attestation"]}

\* External: kmstool exits with 0 once it has written the whole result, for genkey
\* as JSON or not; or KMS did the work and the answer is lost in the timeout; or the
\* tool fails and nothing was done.
ToolAnswers ==
    /\ kmspc = "tool"
    /\ \/ \E r \in KmsResult, status \in {"complete", "timeout"} \cup
                                  (IF kmscall.op = "genkey" THEN {"not JSON"} ELSE {}) :
             /\ output' = [status |-> status, result |-> r]
             /\ blobs' = blobs \cup (IF "ciphertext" \in DOMAIN r THEN {r.ciphertext} ELSE {})
       \/ /\ output' = [status |-> "exit 1"]
          /\ UNCHANGED blobs
    /\ kmspc' = "parse"
    /\ UNCHANGED <<enabled, kmsasked, kmscall, replies>>

\* returncode, decoding and, for genkey, json.loads; TimeoutExpired and every other
\* exception become a failure.
ParseOutput ==
    /\ kmspc = "parse"
    /\ replies' = IF output.status = "complete"
                  THEN replies \cup {[call |-> kmscall, result |-> output.result]}
                  ELSE replies
    /\ kmspc' = "idle"
    /\ kmscall' = NoCall
    /\ output' = NoOutput
    /\ UNCHANGED <<enabled, kmsasked, blobs>>

KmsNext ==
    \/ \E c \in KmsOperations : CallKms(c)
    \/ ToolAnswers
    \/ ParseOutput

KmsSpec == KmsInit /\ [][KmsNext]_kmsVars

-----------------------------------------------------------------------------
(* Properties.                                                             *)

\* The context as KMS should see it; {} and None are the same to the code.
Pairs(c) == IF c = NoContext THEN {} ELSE {<<n, c[n]>> : n \in DOMAIN c}

Unambiguous(c) == c = NoContext \/ \A n \in DOMAIN c : \A i \in DOMAIN n : n[i] # "="

\* Where a ciphertext comes from: the calls that were answered with it.
Makers(b) == {r \in replies : "ciphertext" \in DOMAIN r.result /\ r.result.ciphertext = b}

\* A data key that encrypt_data_key or generate_data_key handed out comes back from
\* decrypt_data_key only as itself, and only under the context it was made with, as
\* long as no name of a context holds a "=".
DataKeyRoundTrip ==
    \A d \in replies : d.call.op = "decrypt" =>
        \A m \in Makers(d.call.blob) :
            /\ m.call.op = "encrypt" => d.result.plaintext = m.call.key
            /\ m.call.op = "genkey" => d.result.plaintext = m.result.plaintext
            /\ Unambiguous(m.call.context) /\ Unambiguous(d.call.context)
                  => Pairs(m.call.context) = Pairs(d.call.context)
=============================================================================
