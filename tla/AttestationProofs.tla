------------------------- MODULE AttestationProofs -------------------------
(***************************************************************************)
(* Proofs about the services that ask a device or KMS for something:       *)
(* Attestation, for every set of calls and of ways to start the process,   *)
(* and KmsAttestation, for every set of encryption contexts.               *)
(*                                                                         *)
(* In both, what a call gets back is what was made for this call, whatever *)
(* fails in between; the invariants say so of the call under way and of    *)
(* everything returned before.  What two answers have in common then       *)
(* follows from what was put into them: a proof has a field for each part  *)
(* of an execution, a slot has its length in front, and the name of a      *)
(* context entry ends at its first "=".                                    *)
(***************************************************************************)
EXTENDS Attestation, KmsAttestation, SequenceTheorems, TLAPS

-----------------------------------------------------------------------------
(* Sequences.                                                              *)

\* c is s, then t.
Joins(c, s, t) ==
    /\ Len(c) = Len(s) + Len(t)
    /\ \A i \in 1 .. Len(s) : c[i] = s[i]
    /\ \A i \in 1 .. Len(t) : c[Len(s) + i] = t[i]

\* What concatenation does, element by element.
LEMMA Joined ==
    ASSUME NEW S, NEW s \in Seq(S), NEW t \in Seq(S), NEW c, c = s \o t
    PROVE  Joins(c, s, t) /\ c \in Seq(S)
<1>1. /\ c \in Seq(S)
      /\ Len(c) = Len(s) + Len(t)
      /\ \A i \in 1 .. Len(s) + Len(t) :
            c[i] = IF i <= Len(s) THEN s[i] ELSE t[i - Len(s)]
  BY ConcatProperties
<1>2. Len(s) \in Nat /\ Len(t) \in Nat
  OBVIOUS
<1>3. \A i \in 1 .. Len(s) : c[i] = s[i]
  BY <1>1, <1>2
<1>4. \A i \in 1 .. Len(t) : c[Len(s) + i] = t[i]
  <2> TAKE i \in 1 .. Len(t)
  <2>1. /\ Len(s) + i \in 1 .. Len(s) + Len(t)
        /\ ~ (Len(s) + i <= Len(s)) /\ (Len(s) + i) - Len(s) = i
    BY <1>2
  <2> QED
    BY <1>1, <2>1
<1> QED
  BY <1>1, <1>3, <1>4 DEF Joins

\* Where two sequences begin with as many elements, both parts are the same.
LEMMA SameParts ==
    ASSUME NEW S, NEW s \in Seq(S), NEW t \in Seq(S), NEW s2 \in Seq(S), NEW t2 \in Seq(S),
           s \o t = s2 \o t2, Len(s) = Len(s2)
    PROVE  s = s2 /\ t = t2
<1> DEFINE c == s \o t
<1>1. Joins(c, s, t) /\ Joins(c, s2, t2)
  BY Joined
<1> HIDE DEF c
<1>2. Len(s) \in Nat /\ Len(t) \in Nat /\ Len(t2) \in Nat
  OBVIOUS
<1>3. Len(t) = Len(t2)
  BY <1>1, <1>2 DEF Joins
<1>4. \A i \in 1 .. Len(s) : s[i] = s2[i]
  BY <1>1 DEF Joins
<1>5. \A i \in 1 .. Len(t) : t[i] = t2[i]
  BY <1>1, <1>3 DEF Joins
<1>6. s = s2
  BY <1>4, SeqEqual
<1>7. t = t2
  BY <1>3, <1>5, SeqEqual
<1> QED
  BY <1>6, <1>7

-----------------------------------------------------------------------------
(* The data keys of KMS.                                                   *)

\* A name without "=", the "=" and a value can be told apart again.
LEMMA ArgumentParses ==
    ASSUME NEW S, "=" \in S, NEW n \in Seq(S), NEW v \in Seq(S),
           NEW n2 \in Seq(S), NEW v2 \in Seq(S),
           \A i \in DOMAIN n : n[i] # "=", \A i \in DOMAIN n2 : n2[i] # "=",
           (n \o <<"=">>) \o v = (n2 \o <<"=">>) \o v2
    PROVE  n = n2 /\ v = v2
<1> DEFINE e == <<"=">>
           a == n \o e
           a2 == n2 \o e
           c == a \o v
<1>1. e \in Seq(S) /\ Len(e) = 1 /\ e[1] = "="
  OBVIOUS
<1>2. c = a2 \o v2
  BY Zenon
<1> HIDE DEF e
<1>3. Joins(a, n, e) /\ a \in Seq(S) /\ Joins(a2, n2, e) /\ a2 \in Seq(S)
  BY <1>1, Joined
<1> HIDE DEF a, a2
<1>4. Joins(c, a, v) /\ Joins(c, a2, v2)
  BY <1>2, <1>3, Joined
<1> HIDE DEF c
<1>5. /\ Len(n) \in Nat /\ Len(n2) \in Nat
      /\ DOMAIN n = 1 .. Len(n) /\ DOMAIN n2 = 1 .. Len(n2)
      /\ Len(a) = Len(n) + 1 /\ Len(a2) = Len(n2) + 1
  BY <1>1, <1>3 DEF Joins
<1>6. /\ c[Len(n) + 1] = "=" /\ \A i \in 1 .. Len(n) : c[i] = n[i]
      /\ c[Len(n2) + 1] = "=" /\ \A i \in 1 .. Len(n2) : c[i] = n2[i]
  <2>1. a[Len(n) + 1] = "=" /\ a2[Len(n2) + 1] = "="
    BY <1>1, <1>3 DEF Joins
  <2>2. Len(n) + 1 \in 1 .. Len(a) /\ Len(n2) + 1 \in 1 .. Len(a2)
    BY <1>5
  <2>3. c[Len(n) + 1] = a[Len(n) + 1] /\ c[Len(n2) + 1] = a2[Len(n2) + 1]
    BY <1>4, <2>2 DEF Joins
  <2>4. \A i \in 1 .. Len(n) : c[i] = n[i]
    BY <1>3, <1>4, <1>5 DEF Joins
  <2>5. \A i \in 1 .. Len(n2) : c[i] = n2[i]
    BY <1>3, <1>4, <1>5 DEF Joins
  <2> QED
    BY <2>1, <2>3, <2>4, <2>5
<1>7. Len(n) = Len(n2)
  <2>1. ~ (Len(n) < Len(n2))
    <3>1. Len(n) < Len(n2) => Len(n) + 1 \in 1 .. Len(n2)
      BY <1>5
    <3> QED
      BY <1>5, <1>6, <3>1
  <2>2. ~ (Len(n2) < Len(n))
    <3>1. Len(n2) < Len(n) => Len(n2) + 1 \in 1 .. Len(n)
      BY <1>5
    <3> QED
      BY <1>5, <1>6, <3>1
  <2>3. \A i, j \in Nat : ~ (i < j) /\ ~ (j < i) => i = j
    OBVIOUS
  <2> QED
    BY <1>5, <2>1, <2>2, <2>3, Zenon
<1>8. n = n2
  BY <1>6, <1>7, SeqEqual
<1>9. v = v2
  <2>1. a \o v = a2 \o v2 /\ Len(a) = Len(a2)
    BY <1>2, <1>5, <1>7 DEF c
  <2> QED
    BY <1>3, <2>1, SameParts
<1> QED
  BY <1>8, <1>9

Contexts == KmsContexts \cup {NoContext}

\* Contexts without "=" in a name have the same arguments only if they are the same.
LEMMA ArgumentsIdentify ==
    ASSUME NEW c \in Contexts, NEW d \in Contexts, Unambiguous(c), Unambiguous(d),
           ContextArgs(c) \subseteq ContextArgs(d)
    PROVE  Pairs(c) \subseteq Pairs(d)
<1>1. SUFFICES ASSUME NEW x \in Pairs(c)
               PROVE  x \in Pairs(d)
  OBVIOUS
<1>2. c # NoContext /\ c \in KmsContexts
  BY <1>1 DEF Pairs, Contexts
<1>3. PICK n \in DOMAIN c : x = <<n, c[n]>>
  BY <1>1, <1>2 DEF Pairs
<1>4. (n \o <<"=">>) \o c[n] \in ContextArgs(c)
  BY <1>2, <1>3 DEF ContextArgs
<1>5. d # NoContext /\ d \in KmsContexts
  BY <1>4 DEF ContextArgs, Contexts
<1>6. PICK m \in DOMAIN d : (n \o <<"=">>) \o c[n] = (m \o <<"=">>) \o d[m]
  BY <1>4, <1>5 DEF ContextArgs
<1>7. /\ n \in Seq(STRING) /\ c[n] \in Seq(STRING) /\ m \in Seq(STRING) /\ d[m] \in Seq(STRING)
  BY <1>2, <1>3, <1>5, <1>6, KmsAssumption
<1> DEFINE S == STRING \cup {"="}
<1>8. n \in Seq(S) /\ c[n] \in Seq(S) /\ m \in Seq(S) /\ d[m] \in Seq(S) /\ "=" \in S
  <2>1. STRING \subseteq S /\ "=" \in S
    OBVIOUS
  <2> HIDE DEF S
  <2> QED
    BY <1>7, <2>1, SeqMonotonic
<1> HIDE DEF S
<1>9. (\A i \in DOMAIN n : n[i] # "=") /\ (\A i \in DOMAIN m : m[i] # "=")
  BY <1>2, <1>3, <1>5, <1>6 DEF Unambiguous
<1>10. n = m /\ c[n] = d[m]
  BY <1>6, <1>8, <1>9, ArgumentParses
<1> QED
  BY <1>3, <1>5, <1>6, <1>10 DEF Pairs

\* What KMS answers to a call is made for this call.
Faithful(c, r) ==
    /\ c.op \in {"encrypt", "decrypt", "genkey", "attestation-document"}
    /\ c.op # "attestation-document" => c.context \in Contexts
    /\ c.op = "encrypt" => r = [ciphertext |-> Blob(c.key, c.context)]
    /\ c.op = "decrypt" => /\ c.blob.context = ContextArgs(c.context)
                           /\ r = [plaintext |-> c.blob.key]
    /\ c.op = "genkey" => \E k : r = [plaintext |-> k, ciphertext |-> Blob(k, c.context)]
    /\ c.op = "attestation-document" => r = [document |-> "attestation"]

\* A call that is under way is one of the operations; its answer and all answers that
\* were returned are made for their calls.
KmsInv ==
    /\ kmspc \in {"tool", "parse"} =>
          /\ kmscall.op \in {"encrypt", "decrypt", "genkey", "attestation-document"}
          /\ kmscall.op # "attestation-document" => kmscall.context \in Contexts
    /\ kmspc = "parse" /\ output.status = "complete" => Faithful(kmscall, output.result)
    /\ \A r \in replies : Faithful(r.call, r.result)

\* Every step of the service, the tool and KMS keeps KmsInv.
LEMMA KmsStep ==
    ASSUME KmsInv, [KmsNext]_kmsVars
    PROVE  KmsInv'
<1>1. ASSUME NEW c \in KmsOperations, CallKms(c)
      PROVE  KmsInv'
  <2>1. /\ c.op \in {"encrypt", "decrypt", "genkey", "attestation-document"}
        /\ c.op # "attestation-document" => c.context \in Contexts
    <3>1. CASE c \in [op : {"encrypt"}, key : DataKeys, context : KmsContexts \cup {NoContext}]
      BY <3>1 DEF Contexts
    <3>2. CASE c \in [op : {"decrypt"}, blob : blobs, context : KmsContexts \cup {NoContext}]
      BY <3>2 DEF Contexts
    <3>3. CASE c \in [op : {"genkey"}, context : KmsContexts \cup {NoContext}]
      BY <3>3 DEF Contexts
    <3>4. CASE c = [op |-> "attestation-document"]
      BY <3>4
    <3> QED
      BY <1>1, <3>1, <3>2, <3>3, <3>4 DEF KmsOperations
  <2>2. kmspc = "idle" /\ replies' = replies /\ output' = output
    BY <1>1 DEF CallKms
  <2>3. \A r \in replies' : Faithful(r.call, r.result)'
    BY <2>2 DEF KmsInv, Faithful
  <2>4. (kmspc' = "tool" /\ kmscall' = c) \/ kmspc' = "idle"
    BY <1>1, <2>2 DEF CallKms
  <2> QED
    BY <2>1, <2>3, <2>4 DEF KmsInv
<1>2. CASE ToolAnswers
  <2>1. kmspc = "tool" /\ kmspc' = "parse" /\ kmscall' = kmscall /\ replies' = replies
    BY <1>2 DEF ToolAnswers
  <2>2. /\ kmscall.op \in {"encrypt", "decrypt", "genkey", "attestation-document"}
        /\ kmscall.op # "attestation-document" => kmscall.context \in Contexts
    BY <2>1 DEF KmsInv
  <2>3. \A r \in replies' : Faithful(r.call, r.result)'
    BY <2>1 DEF KmsInv, Faithful
  <2>4. ASSUME output'.status = "complete"
        PROVE  Faithful(kmscall', output'.result)
    <3>1. PICK r \in KmsResult : \E st : output' = [status |-> st, result |-> r]
      <4>1. [status |-> "exit 1"].status # "complete"
        OBVIOUS
      <4> QED
        BY <1>2, <2>4, <4>1 DEF ToolAnswers
    <3>2. output'.result = r
      BY <3>1
    <3>3. Faithful(kmscall, r)
      <4>1. CASE kmscall.op = "encrypt"
        BY <2>2, <3>1, <4>1 DEF KmsResult, Faithful
      <4>2. CASE kmscall.op = "decrypt"
        BY <2>2, <3>1, <4>2 DEF KmsResult, Faithful
      <4>3. CASE kmscall.op = "genkey"
        BY <2>2, <3>1, <4>3 DEF KmsResult, Faithful
      <4>4. CASE kmscall.op = "attestation-document"
        BY <2>2, <3>1, <4>4 DEF KmsResult, Faithful
      <4> QED
        BY <2>2, <4>1, <4>2, <4>3, <4>4
    <3> QED
      BY <2>1, <3>2, <3>3
  <2> QED
    BY <2>1, <2>2, <2>3, <2>4 DEF KmsInv
<1>3. CASE ParseOutput
  <2>1. /\ kmspc = "parse" /\ kmspc' = "idle"
        /\ replies' = IF output.status = "complete"
                      THEN replies \cup {[call |-> kmscall, result |-> output.result]}
                      ELSE replies
    BY <1>3 DEF ParseOutput
  <2>2. \A r \in replies' : Faithful(r.call, r.result)
    BY <2>1 DEF KmsInv
  <2>3. \A r \in replies' : Faithful(r.call, r.result)'
    BY <2>2 DEF Faithful
  <2> QED
    BY <2>1, <2>3 DEF KmsInv
<1>4. CASE UNCHANGED kmsVars
  BY <1>4 DEF KmsInv, kmsVars
<1> QED
  BY <1>1, <1>2, <1>3, <1>4 DEF KmsNext

\* What KmsInv says of a data key.
LEMMA InvGivesRoundTrip ==
    ASSUME KmsInv
    PROVE  DataKeyRoundTrip
<1>1. SUFFICES ASSUME NEW d \in replies, d.call.op = "decrypt", NEW m \in Makers(d.call.blob)
               PROVE  /\ m.call.op = "encrypt" => d.result.plaintext = m.call.key
                      /\ m.call.op = "genkey" => d.result.plaintext = m.result.plaintext
                      /\ Unambiguous(m.call.context) /\ Unambiguous(d.call.context)
                            => Pairs(m.call.context) = Pairs(d.call.context)
  BY DEF DataKeyRoundTrip
<1>2. /\ m \in replies /\ "ciphertext" \in DOMAIN m.result
      /\ m.result.ciphertext = d.call.blob
  BY <1>1 DEF Makers
<1>3. Faithful(d.call, d.result) /\ Faithful(m.call, m.result)
  BY <1>1, <1>2 DEF KmsInv
<1>4. /\ d.call.blob.context = ContextArgs(d.call.context)
      /\ d.result.plaintext = d.call.blob.key /\ d.call.context \in Contexts
  BY <1>1, <1>3 DEF Faithful
<1>5. m.call.op \in {"encrypt", "genkey"}
  <2>1. CASE m.call.op = "decrypt"
    <3>1. DOMAIN m.result = {"plaintext"}
      BY <1>3, <2>1 DEF Faithful
    <3> QED
      BY <1>2, <3>1
  <2>2. CASE m.call.op = "attestation-document"
    <3>1. DOMAIN m.result = {"document"}
      BY <1>3, <2>2 DEF Faithful
    <3> QED
      BY <1>2, <3>1
  <2> QED
    BY <1>3, <2>1, <2>2 DEF Faithful
<1>6. m.call.context \in Contexts
  BY <1>3, <1>5 DEF Faithful
<1>7. /\ m.call.op = "encrypt" => d.call.blob = Blob(m.call.key, m.call.context)
      /\ m.call.op = "genkey" => d.call.blob = Blob(m.result.plaintext, m.call.context)
  <2>1. CASE m.call.op = "encrypt"
    <3>1. m.result = [ciphertext |-> Blob(m.call.key, m.call.context)]
      BY <1>3, <2>1 DEF Faithful
    <3> QED
      BY <1>2, <2>1, <3>1
  <2>2. CASE m.call.op = "genkey"
    <3>1. PICK k : m.result = [plaintext |-> k, ciphertext |-> Blob(k, m.call.context)]
      BY <1>3, <2>2 DEF Faithful
    <3>2. m.result.plaintext = k /\ m.result.ciphertext = Blob(k, m.call.context)
      BY <3>1
    <3> QED
      BY <1>2, <2>2, <3>2
  <2> QED
    BY <1>5, <2>1, <2>2
<1>8. \A k, c : Blob(k, c).key = k /\ Blob(k, c).context = ContextArgs(c)
  BY DEF Blob
<1>9. ContextArgs(m.call.context) = ContextArgs(d.call.context)
  BY <1>4, <1>5, <1>7, <1>8
<1>10. Unambiguous(m.call.context) /\ Unambiguous(d.call.context)
          => Pairs(m.call.context) = Pairs(d.call.context)
  BY <1>4, <1>6, <1>9, ArgumentsIdentify
<1> QED
  BY <1>4, <1>7, <1>8, <1>10

\* KMSAttestationService keeps KmsInv, whatever the tool does.
THEOREM KmsInvariant == KmsSpec => []KmsInv
<1>1. KmsInit => KmsInv
  BY DEF KmsInit, KmsInv
<1>2. KmsInv /\ [KmsNext]_kmsVars => KmsInv'
  BY KmsStep
<1> QED
  BY <1>1, <1>2, PTL DEF KmsSpec

\* decrypt_data_key returns the data key that encrypt_data_key or generate_data_key put
\* into the ciphertext, and needs the context it was made with, for all contexts
\* without "=" in a name.
THEOREM DataKeysComeBack == KmsSpec => []DataKeyRoundTrip
  BY KmsInvariant, InvGivesRoundTrip, PTL

-----------------------------------------------------------------------------
(* The evidence of the attestation services.                               *)

Nonces == {c.nonce : c \in AttCalls} \cup {<<"random", k>> : k \in 0 .. MaxAsked}

\* The nonce of a call is the one it was given, or a random one.
NonceFits(c, n) ==
    /\ n \in Nonces
    /\ c.op = "key" => n = c.nonce
    /\ c.op = "execution" =>
          IF (mode = "tdx" /\ c.nonce # Absent) \/ (mode # "tdx" /\ Truthy(c.nonce))
          THEN n = c.nonce
          ELSE \E k \in 0 .. MaxAsked : n = <<"random", k>>

Document(c, n) == [kind |-> "document", encoding |-> "raw", of |-> Committed(c, n)]

EvidenceOf(c, n) ==
    [call |-> c, nonce |-> n, document |-> Document(c, n),
     canonical |-> IF mode = "tdx" THEN Committed(c, n) ELSE Absent]

\* Evidence that is signed over the data of the call it answers.
Genuine ==
    {e \in {EvidenceOf(c, n) : c \in AttCalls, n \in Nonces} :
        NonceFits(e.call, e.nonce) /\ (mode = "tdx" => e.nonce # EmptyText)}

\* A call under way has its nonce, an answer that will be accepted is signed for it,
\* and all evidence is genuine.
AttInv ==
    /\ asked \in 0 .. MaxAsked
    /\ attpc \in {"idle", "build", "device", "parse"}
    /\ attpc # "idle" => attcall \in AttCalls /\ NonceFits(attcall, nonce)
    /\ attpc \in {"device", "parse"} /\ mode = "tdx" => nonce # EmptyText
    /\ attpc = "parse" /\ Accepted(answer) => answer = Document(attcall, nonce)
    /\ evidence \in Seq(Genuine)

\* A process keeps its backend, and with it what evidence looks like.
LEMMA SameMode ==
    ASSUME mode' = mode
    PROVE  /\ \A c, n : NonceFits(c, n)' <=> NonceFits(c, n)
           /\ \A c, n : Document(c, n)' = Document(c, n)
           /\ Genuine' = Genuine
<1>1. \A c, n : NonceFits(c, n)' <=> NonceFits(c, n)
  BY DEF NonceFits
<1>2. \A c, n : Committed(c, n)' = Committed(c, n)
  BY DEF Committed
<1>3. \A c, n : Document(c, n)' = Document(c, n)
  BY <1>2 DEF Document
<1>4. \A c, n : EvidenceOf(c, n)' = EvidenceOf(c, n)
  BY <1>2, <1>3 DEF EvidenceOf
<1> QED
  BY <1>1, <1>3, <1>4 DEF Genuine

\* An answer of the device is a document for the call, or no document.
LEMMA AnswerKept ==
    ASSUME AttInv, NEW a, Answered(a), Accepted(a) => a = Document(attcall, nonce)
    PROVE  AttInv'
<1>1. /\ attpc = "device" /\ attpc' = "parse" /\ answer' = a /\ mode' = mode
      /\ asked' = asked /\ attcall' = attcall /\ nonce' = nonce /\ evidence' = evidence
  BY DEF Answered
<1>2. Accepted(answer') => answer' = Document(attcall, nonce)'
  BY <1>1, SameMode
<1>3. NonceFits(attcall, nonce)' <=> NonceFits(attcall, nonce)
  BY <1>1 DEF NonceFits
<1>4. Genuine' = Genuine
  BY <1>1, SameMode
<1> QED
  BY <1>1, <1>2, <1>3, <1>4 DEF AttInv

\* Every step of the handler, the service and the device keeps AttInv.
LEMMA AttStep ==
    ASSUME AttInv, [AttNext]_attVars
    PROVE  AttInv'
<1>1. ASSUME NEW k
      PROVE  ~ Accepted(Failure(k)) \/ k = "document"
  BY DEF Accepted, Failure
<1>2. ASSUME NEW c \in AttCalls, Ask(c)
      PROVE  AttInv'
  <2>1. /\ attpc = "idle" /\ attpc' = "build" /\ mode' = mode /\ evidence' = evidence
        /\ asked < MaxAsked /\ asked' = asked + 1 /\ attcall' = c
        /\ nonce' = IF c.op = "execution" THEN ProofNonce(c) ELSE c.nonce
    BY <1>2 DEF Ask
  <2>2. asked \in 0 .. MaxAsked /\ asked' \in 0 .. MaxAsked
    BY <2>1, AttestationAssumption DEF AttInv
  <2>3. NonceFits(c, nonce')
    BY <2>1, <2>2 DEF NonceFits, ProofNonce, Nonces
  <2>4. NonceFits(attcall, nonce)'
    BY <2>1, <2>3 DEF NonceFits
  <2>5. Genuine' = Genuine
    BY <2>1, SameMode
  <2> QED
    BY <2>1, <2>2, <2>4, <2>5 DEF AttInv
<1>3. CASE BuildRequest
  <2>1. /\ attpc = "build" /\ attpc' \in {"idle", "device"} /\ mode' = mode
        /\ asked' = asked /\ attcall' = attcall /\ nonce' = nonce /\ evidence' = evidence
        /\ attpc' = "device" => ~ Refused
    BY <1>3 DEF BuildRequest
  <2>2. attpc' = "device" /\ mode = "tdx" => nonce # EmptyText
    BY <2>1 DEF Refused
  <2>3. NonceFits(attcall, nonce)' <=> NonceFits(attcall, nonce)
    BY <2>1 DEF NonceFits
  <2>4. Genuine' = Genuine
    BY <2>1, SameMode
  <2> QED
    BY <2>1, <2>2, <2>3, <2>4 DEF AttInv
<1>4. CASE NsmAnswers
  <2>1. CASE Answered(Signed)
    BY <2>1, AnswerKept DEF Signed, Document
  <2>2. ASSUME NEW k \in {"raises", "empty", "Error", "unexpected"}, Answered(Failure(k))
        PROVE  AttInv'
    BY <1>1, <2>2, AnswerKept
  <2> QED
    BY <1>4, <2>1, <2>2 DEF NsmAnswers
<1>5. CASE LocalAnswers
  <2>1. CASE Answered(Signed)
    BY <2>1, AnswerKept DEF Signed, Document
  <2>2. CASE Answered(Failure("Error"))
    BY <1>1, <2>2, AnswerKept
  <2> QED
    BY <1>5, <2>1, <2>2 DEF LocalAnswers
<1>6. CASE TdquoteAnswers
  <2> DEFINE v == Committed(attcall, nonce)
             read == TdquoteReads(Stdin(v))
  <2>1. read = [encoding |-> "raw", of |-> v]
    <3>1. Stdin(v).length = 128 /\ Stdin(v).encoding = "hex" /\ Stdin(v).of = v
      BY DEF Stdin
    <3> QED
      BY <3>1 DEF TdquoteReads
  <2>2. CASE Answered([kind |-> "document", encoding |-> read.encoding, of |-> read.of])
    <3>1. [kind |-> "document", encoding |-> read.encoding, of |-> read.of]
             = Document(attcall, nonce)
      BY <2>1 DEF Document
    <3> QED
      BY <2>2, <3>1, AnswerKept
  <2>3. ASSUME NEW k \in {"partial", "empty", "exit 1", "raises"}, Answered(Failure(k))
        PROVE  AttInv'
    BY <1>1, <2>3, AnswerKept
  <2> QED
    BY <1>6, <2>2, <2>3 DEF TdquoteAnswers
<1>7. CASE ParseAnswer
  <2> DEFINE e == [call |-> attcall, nonce |-> nonce, document |-> answer,
                   canonical |-> Canonical]
  <2>1. /\ attpc = "parse" /\ attpc' = "idle" /\ mode' = mode /\ asked' = asked
        /\ evidence' = IF Accepted(answer) THEN Append(evidence, e) ELSE evidence
    BY <1>7 DEF ParseAnswer
  <2>2. ASSUME Accepted(answer)
        PROVE  e \in Genuine
    <3>1. /\ attcall \in AttCalls /\ NonceFits(attcall, nonce) /\ nonce \in Nonces
          /\ mode = "tdx" => nonce # EmptyText
          /\ answer = Document(attcall, nonce)
      BY <2>1, <2>2 DEF AttInv, NonceFits
    <3>2. e = EvidenceOf(attcall, nonce)
      BY <3>1 DEF EvidenceOf, Canonical
    <3>3. e.call = attcall /\ e.nonce = nonce
      OBVIOUS
    <3> HIDE DEF e
    <3> QED
      BY <3>1, <3>2, <3>3 DEF Genuine
  <2>3. evidence' \in Seq(Genuine)
    BY <2>1, <2>2 DEF AttInv
  <2>4. Genuine' = Genuine
    BY <2>1, SameMode
  <2> QED
    BY <2>1, <2>3, <2>4 DEF AttInv
<1>8. CASE UNCHANGED attVars
  <2>1. /\ mode' = mode /\ asked' = asked /\ attpc' = attpc /\ attcall' = attcall
        /\ nonce' = nonce /\ answer' = answer /\ evidence' = evidence
    BY <1>8 DEF attVars
  <2>2. /\ NonceFits(attcall, nonce)' <=> NonceFits(attcall, nonce)
        /\ Document(attcall, nonce)' = Document(attcall, nonce)
    BY <2>1 DEF NonceFits, Document, Committed
  <2>3. Genuine' = Genuine
    BY <2>1, SameMode
  <2> QED
    BY <2>1, <2>2, <2>3 DEF AttInv, Accepted
<1> QED
  BY <1>2, <1>3, <1>4, <1>5, <1>6, <1>7, <1>8 DEF AttNext

\* AttestationService and TdxAttestationService keep AttInv.
THEOREM AttestationInvariant == AttSpec => []AttInv
<1>1. AttInit => AttInv
  BY AttestationAssumption DEF AttInit, AttInv
<1>2. AttInv /\ [AttNext]_attVars => AttInv'
  BY AttStep
<1> QED
  BY <1>1, <1>2, PTL DEF AttSpec

\* What is known of one piece of evidence.
LEMMA GenuineEvidence ==
    ASSUME AttInv, NEW i \in DOMAIN evidence
    PROVE  /\ evidence[i].call \in AttCalls
           /\ NonceFits(evidence[i].call, evidence[i].nonce)
           /\ mode = "tdx" => evidence[i].nonce # EmptyText
           /\ evidence[i].document = Document(evidence[i].call, evidence[i].nonce)
           /\ evidence[i].document.of = Committed(evidence[i].call, evidence[i].nonce)
           /\ mode = "tdx" =>
                 evidence[i].canonical = Committed(evidence[i].call, evidence[i].nonce)
<1>1. evidence[i] \in Genuine
  BY DEF AttInv
<1> DEFINE e == evidence[i]
<1> HIDE DEF e
<1>2. PICK c \in AttCalls, n \in Nonces : e = EvidenceOf(c, n)
  BY <1>1 DEF Genuine, e
<1>3. NonceFits(e.call, e.nonce) /\ (mode = "tdx" => e.nonce # EmptyText)
  BY <1>1 DEF Genuine, e
<1>4. /\ e.call = c /\ e.nonce = n /\ e.document = Document(c, n)
      /\ e.canonical = IF mode = "tdx" THEN Committed(c, n) ELSE Absent
  BY <1>2 DEF EvidenceOf
<1>5. Document(c, n).of = Committed(c, n)
  BY DEF Document
<1> QED
  BY <1>3, <1>4, <1>5 DEF e

\* What is committed to for an execution.
LEMMA CommittedExecution ==
    ASSUME NEW c, NEW n, c.op = "execution"
    PROVE  Committed(c, n) = IF mode = "tdx" THEN TdxProof(c, n)
                             ELSE NsmRequest(NitroProof(c, n), n, Absent)
  BY DEF Committed

\* Genuine evidence passes the steps of its verification_guide.
LEMMA InvGivesVerifies ==
    ASSUME AttInv
    PROVE  EvidenceVerifies
<1>1. EvidenceSigned
  BY GenuineEvidence DEF EvidenceSigned, Document
<1>2. GuideAccepts
  <2>1. SUFFICES ASSUME NEW i \in Documents("execution")
                 PROVE  LET e == evidence[i] IN
                        IF mode = "tdx"
                        THEN e.canonical = e.document.of /\ e.canonical.output_hash = e.call.output
                        ELSE LET proof == e.document.of.user_data IN
                             /\ proof.output_hash = e.call.output
                             /\ e.call.manifest # Absent
                                  => proof.files_manifest_sha256 = e.call.manifest
                             /\ Truthy(e.call.nonce) => e.document.of.nonce = e.call.nonce
                             /\ Truthy(e.call.context) => proof.context_hash = e.call.context
    BY DEF GuideAccepts
  <2> DEFINE c == evidence[i].call
             n == evidence[i].nonce
  <2>2. /\ i \in DOMAIN evidence /\ c.op = "execution"
    BY <2>1 DEF Documents
  <2>3. /\ NonceFits(c, n) /\ evidence[i].document.of = Committed(c, n)
        /\ mode = "tdx" => evidence[i].canonical = Committed(c, n)
    BY <2>2, GenuineEvidence
  <2> HIDE DEF c, n
  <2>4. CASE mode = "tdx"
    <3>1. Committed(c, n) = TdxProof(c, n)
      BY <2>2, <2>4, CommittedExecution
    <3>2. TdxProof(c, n).output_hash = c.output
      BY DEF TdxProof
    <3> QED
      BY <2>3, <2>4, <3>1, <3>2 DEF c
  <2>5. CASE mode # "tdx"
    <3>1. Committed(c, n) = NsmRequest(NitroProof(c, n), n, Absent)
      BY <2>2, <2>5, CommittedExecution
    <3>2. /\ Committed(c, n).user_data = NitroProof(c, n) /\ Committed(c, n).nonce = n
      BY <3>1 DEF NsmRequest
    <3>3. /\ NitroProof(c, n).output_hash = c.output
          /\ NitroProof(c, n).files_manifest_sha256 = c.manifest
          /\ Truthy(c.context) => NitroProof(c, n).context_hash = c.context
      BY DEF NitroProof
    <3>4. Truthy(c.nonce) => n = c.nonce
      BY <2>2, <2>3, <2>5 DEF NonceFits
    <3> QED
      BY <2>3, <2>5, <3>2, <3>3, <3>4 DEF c
  <2> QED
    BY <2>4, <2>5
<1> QED
  BY <1>1, <1>2 DEF EvidenceVerifies

\* Two nonces that are the same were given, both, or are random, both.
LEMMA NoncesAgree ==
    ASSUME NEW c \in AttCalls, NEW d \in AttCalls, c.op = "execution", d.op = "execution",
           NEW n, NonceFits(c, n), NonceFits(d, n)
    PROVE  /\ mode = "tdx" => c.nonce = d.nonce
           /\ mode # "tdx" => HashOf(c.nonce) = HashOf(d.nonce)
<1>1. ASSUME NEW k \in 0 .. MaxAsked
      PROVE  c.nonce # <<"random", k>> /\ d.nonce # <<"random", k>>
  BY AttestationAssumption
<1>2. CASE mode = "tdx"
  <2>1. /\ IF c.nonce # Absent THEN n = c.nonce ELSE \E k \in 0 .. MaxAsked : n = <<"random", k>>
        /\ IF d.nonce # Absent THEN n = d.nonce ELSE \E k \in 0 .. MaxAsked : n = <<"random", k>>
    BY <1>2 DEF NonceFits
  <2> QED
    BY <1>1, <1>2, <2>1
<1>3. CASE mode # "tdx"
  <2>1. /\ IF Truthy(c.nonce) THEN n = c.nonce ELSE \E k \in 0 .. MaxAsked : n = <<"random", k>>
        /\ IF Truthy(d.nonce) THEN n = d.nonce ELSE \E k \in 0 .. MaxAsked : n = <<"random", k>>
    BY <1>3 DEF NonceFits
  <2>2. (Truthy(c.nonce) <=> Truthy(d.nonce)) /\ (Truthy(c.nonce) => c.nonce = d.nonce)
    BY <1>1, <2>1
  <2> QED
    BY <1>3, <2>2 DEF HashOf
<1> QED
  BY <1>2, <1>3

\* An execution call is a record with these fields.
LEMMA ExecutionRecord ==
    ASSUME NEW c \in AttCalls, c.op = "execution"
    PROVE  c = [x \in ExecutionFields |-> c[x]]
  BY AttestationAssumption

\* The same proof speaks of the same execution.
LEMMA InvGivesBinding ==
    ASSUME AttInv
    PROVE  ProofBindsExecution
<1>1. SUFFICES ASSUME NEW i \in Documents("execution"), NEW j \in Documents("execution"),
                      evidence[i].document.of = evidence[j].document.of
               PROVE  Essence(evidence[i].call) = Essence(evidence[j].call)
  BY DEF ProofBindsExecution
<1> DEFINE c == evidence[i].call
           n == evidence[i].nonce
           d == evidence[j].call
           m == evidence[j].nonce
<1>2. /\ i \in DOMAIN evidence /\ c.op = "execution"
      /\ j \in DOMAIN evidence /\ d.op = "execution"
  BY <1>1 DEF Documents
<1>3. /\ c \in AttCalls /\ NonceFits(c, n) /\ evidence[i].document.of = Committed(c, n)
      /\ d \in AttCalls /\ NonceFits(d, m) /\ evidence[j].document.of = Committed(d, m)
  BY <1>2, GenuineEvidence
<1>4. Committed(c, n) = Committed(d, m)
  BY <1>1, <1>3
<1> HIDE DEF c, n, d, m
<1>5. CASE mode = "tdx"
  <2>1. TdxProof(c, n) = TdxProof(d, m)
    BY <1>2, <1>4, <1>5, CommittedExecution
  <2>2. ASSUME NEW x, NEW y
        PROVE  /\ TdxProof(x, y).job_id = x.job
               /\ TdxProof(x, y).script_hash = HashOf(x.script)
               /\ TdxProof(x, y).dataset_hash = HashOf(x.dataset)
               /\ TdxProof(x, y).output_hash = x.output
               /\ TdxProof(x, y).nonce = y
               /\ TdxProof(x, y).files_manifest_sha256 = x.manifest
               /\ TdxProof(x, y).atl_nonce = x.atl_nonce
               /\ TdxProof(x, y).atl_context_hash = x.context
    BY DEF TdxProof
  <2>3. /\ c.job = d.job /\ HashOf(c.script) = HashOf(d.script)
        /\ HashOf(c.dataset) = HashOf(d.dataset) /\ c.output = d.output /\ n = m
        /\ c.manifest = d.manifest /\ c.atl_nonce = d.atl_nonce /\ c.context = d.context
    BY <2>1, <2>2
  <2>4. c.nonce = d.nonce
    BY <1>2, <1>3, <1>5, <2>3, NoncesAgree
  <2>5. \A x \in ExecutionFields \ {"script", "dataset"} : c[x] = d[x]
    BY <1>2, <2>3, <2>4 DEF ExecutionFields
  <2>6. Essence(c) = Essence(d)
    <3> DEFINE s == HashOf(c.script)
               t == HashOf(c.dataset)
    <3>1. /\ Essence(c) = [c EXCEPT !.script = s, !.dataset = t]
          /\ Essence(d) = [d EXCEPT !.script = s, !.dataset = t]
      BY <1>5, <2>3 DEF Essence
    <3> HIDE DEF s, t
    <3>2. [c EXCEPT !.script = s, !.dataset = t] = [d EXCEPT !.script = s, !.dataset = t]
      <4>1. c = [x \in ExecutionFields |-> c[x]] /\ d = [x \in ExecutionFields |-> d[x]]
        BY <1>2, <1>3, ExecutionRecord
      <4> QED
        BY <2>5, <4>1 DEF ExecutionFields
    <3> QED
      BY <3>1, <3>2, Zenon
  <2> QED
    BY <2>6 DEF c, d
<1>6. CASE mode # "tdx"
  <2>1. NsmRequest(NitroProof(c, n), n, Absent) = NsmRequest(NitroProof(d, m), m, Absent)
    BY <1>2, <1>4, <1>6, CommittedExecution
  <2>2. ASSUME NEW x, NEW y
        PROVE  /\ NsmRequest(x, y, Absent).user_data = x
               /\ NsmRequest(x, y, Absent).nonce = y
    BY DEF NsmRequest
  <2>3. NitroProof(c, n) = NitroProof(d, m) /\ n = m
    BY <2>1, <2>2
  <2>4. ASSUME NEW x, NEW y
        PROVE  /\ NitroProof(x, y).job_id = x.job
               /\ NitroProof(x, y).script_hash = HashOf(x.script)
               /\ NitroProof(x, y).dataset_hash = HashOf(x.dataset)
               /\ NitroProof(x, y).output_hash = x.output
               /\ NitroProof(x, y).files_manifest_sha256 = x.manifest
               /\ NitroProof(x, y).context_hash = IF Truthy(x.context) THEN x.context ELSE Absent
    BY DEF NitroProof
  <2>5. /\ c.job = d.job /\ HashOf(c.script) = HashOf(d.script)
        /\ HashOf(c.dataset) = HashOf(d.dataset) /\ c.output = d.output
        /\ c.manifest = d.manifest
    BY <2>3, <2>4
  <2>6. HashOf(c.context) = HashOf(d.context)
    <3>1. (IF Truthy(c.context) THEN c.context ELSE Absent)
            = IF Truthy(d.context) THEN d.context ELSE Absent
      BY <2>3, <2>4
    <3>2. ~ Truthy(Absent)
      BY DEF Truthy
    <3> QED
      BY <3>1, <3>2 DEF HashOf
  <2>7. HashOf(c.nonce) = HashOf(d.nonce)
    BY <1>2, <1>3, <1>6, <2>3, NoncesAgree
  <2>8. \A x \in {"op", "job", "output", "manifest"} : c[x] = d[x]
    BY <1>2, <2>5
  <2>9. Essence(c) = Essence(d)
    <3> DEFINE s == HashOf(c.script)
               t == HashOf(c.dataset)
               u == HashOf(c.context)
               v == HashOf(c.nonce)
               E(x) == [x EXCEPT !.script = s, !.dataset = t, !.context = u, !.nonce = v,
                                 !.atl_nonce = Absent]
    <3>1. Essence(c) = E(c) /\ Essence(d) = E(d)
      BY <1>6, <2>5, <2>6, <2>7 DEF Essence
    <3> HIDE DEF s, t, u, v
    <3>2. E(c) = E(d)
      <4>1. c = [x \in ExecutionFields |-> c[x]] /\ d = [x \in ExecutionFields |-> d[x]]
        BY <1>2, <1>3, ExecutionRecord
      <4> QED
        BY <2>8, <4>1 DEF ExecutionFields
    <3> QED
      BY <3>1, <3>2, Zenon
  <2> QED
    BY <2>9 DEF c, d
<1> QED
  BY <1>5, <1>6

-----------------------------------------------------------------------------
(* The slots of a session-key document.                                    *)

\* Three sequences, one after the other.
LEMMA FlattenThree ==
    ASSUME NEW q, Len(q) = 3
    PROVE  FlattenSeq(q) = (q[1] \o q[2]) \o q[3]
<1> DEFINE Body(f) == [i \in 1 .. 3 |-> IF i = 1 THEN q[i] ELSE f[i - 1] \o q[i]]
           flatten == CHOOSE f : f = Body(f)
           one == q[1]
           two == one \o q[2]
           three == two \o q[3]
           g == [i \in 1 .. 3 |-> IF i = 1 THEN one ELSE IF i = 2 THEN two ELSE three]
<1>1. FlattenSeq(q) = flatten[3]
  BY DEF FlattenSeq
<1>2. g = Body(g)
  OBVIOUS
<1>3. flatten = Body(flatten)
  <2> HIDE DEF g, Body
  <2> QED
    BY <1>2
<1> HIDE DEF flatten
<1>4. flatten[1] = one
  BY <1>3
<1>5. ASSUME NEW i \in 1 .. 3, i # 1
      PROVE  flatten[i] = flatten[i - 1] \o q[i]
  <2>1. Body(flatten)[i] = flatten[i - 1] \o q[i]
    BY <1>5
  <2> HIDE DEF Body
  <2> QED
    BY <1>3, <2>1
<1>6. /\ 2 \in 1 .. 3 /\ 2 # 1 /\ 2 - 1 = 1
      /\ 3 \in 1 .. 3 /\ 3 # 1 /\ 3 - 1 = 2
  OBVIOUS
<1> HIDE DEF Body
<1>7. flatten[2] = flatten[1] \o q[2]
  BY <1>5, <1>6
<1>8. flatten[3] = flatten[2] \o q[3]
  BY <1>5, <1>6
<1> QED
  BY <1>1, <1>4, <1>7, <1>8

\* A slot of generate_attestation.
Slot == Seq(Nat) \cup {Absent}

\* Only the chunk of None is empty.
LEMMA ChunkOfSlot ==
    ASSUME NEW w \in Slot
    PROVE  /\ Chunk(w) \in Seq(Nat)
           /\ w = Absent => Chunk(w) = <<>>
           /\ w # Absent => w \in Seq(Nat) /\ Chunk(w) = <<Len(w)>> \o w /\ Chunk(w) # <<>>
<1>1. CASE w = Absent
  <2>1. Chunk(w) = <<>> /\ <<>> \in Seq(Nat)
    BY <1>1 DEF Chunk
  <2> QED
    BY <1>1, <2>1
<1>2. CASE w # Absent
  <2>1. w \in Seq(Nat)
    BY <1>2 DEF Slot
  <2>2. Chunk(w) = <<Len(w)>> \o w
    BY <1>2 DEF Chunk
  <2>3. <<Len(w)>> \in Seq(Nat) /\ Len(<<Len(w)>>) = 1
    BY <2>1
  <2>4. <<Len(w)>> \o w \in Seq(Nat)
    BY <2>1, <2>3, ConcatProperties
  <2>5. <<Len(w)>> \o w # <<>>
    BY <2>1, <2>3, ConcatEqualIffEmpty
  <2> QED
    BY <1>2, <2>1, <2>2, <2>4, <2>5
<1> QED
  BY <1>1, <1>2

\* The report data of a call with these three slots, and its parts.
Folded(u, n, p) == ReportDataFrom(<<u, n, p>>)
Parts(u, n, p) == Chunk(u) \o (Chunk(n) \o Chunk(p))

\* The report data are the chunks of the three slots.
LEMMA ThreeChunks ==
    ASSUME NEW u \in Slot, NEW n \in Slot, NEW p \in Slot
    PROVE  Folded(u, n, p) = Parts(u, n, p)
<1> DEFINE slots == <<u, n, p>>
           q == [i \in DOMAIN slots |-> Chunk(slots[i])]
           S == Seq(Nat)
<1>1. DOMAIN slots = 1 .. 3 /\ slots[1] = u /\ slots[2] = n /\ slots[3] = p
  OBVIOUS
<1> HIDE DEF slots
<1>2. Chunk(u) \in S /\ Chunk(n) \in S /\ Chunk(p) \in S
  BY ChunkOfSlot
<1> HIDE DEF S
<1>3. q \in [1 .. 3 -> S] /\ q[1] = Chunk(u) /\ q[2] = Chunk(n) /\ q[3] = Chunk(p)
  <2>1. \A i \in 1 .. 3 : i = 1 \/ i = 2 \/ i = 3
    OBVIOUS
  <2>2. \A i \in 1 .. 3 : Chunk(slots[i]) \in S
    BY <1>1, <1>2, <2>1
  <2> QED
    BY <1>1, <2>2
<1> HIDE DEF q
<1>4. Len(q) = 3
  <2>1. q \in Seq(S)
    <3>1. 3 \in Nat /\ q \in [1 .. 3 -> S]
      BY <1>3
    <3>2. q \in UNION {[1 .. k -> S] : k \in Nat}
      BY <3>1, Zenon
    <3> QED
      BY <3>2, SeqDef, Zenon
  <2>2. DOMAIN q = 1 .. 3
    BY <1>3
  <2> QED
    BY <2>1, <2>2, LenProperties
<1>5. FlattenSeq(q) = (Chunk(u) \o Chunk(n)) \o Chunk(p)
  BY <1>3, <1>4, FlattenThree
<1>6. (Chunk(u) \o Chunk(n)) \o Chunk(p) = Chunk(u) \o (Chunk(n) \o Chunk(p))
  <2> DEFINE a == Chunk(u)
             b == Chunk(n)
             c == Chunk(p)
  <2>1. a \in Seq(Nat) /\ b \in Seq(Nat) /\ c \in Seq(Nat)
    BY <1>2 DEF S
  <2> HIDE DEF a, b, c
  <2>2. (a \o b) \o c = a \o (b \o c)
    <3>1. \A X : \A s, t, r \in Seq(X) : (s \o t) \o r = s \o (t \o r)
      BY ConcatAssociative, Zenon
    <3>2. \A s, t, r \in Seq(Nat) : (s \o t) \o r = s \o (t \o r)
      BY ONLY <3>1, SMTT(40)
    <3> QED
      BY ONLY <2>1, <3>2, Zenon
  <2> QED
    BY ONLY <2>2 DEF a, b, c
<1> QED
  BY <1>5, <1>6 DEF Folded, Parts, ReportDataFrom, q, slots

\* A chunk tells where it ends.
LEMMA ChunkParses ==
    ASSUME NEW u \in Seq(Nat), NEW v \in Seq(Nat), NEW x \in Seq(Nat), NEW y \in Seq(Nat),
           (<<Len(u)>> \o u) \o x = (<<Len(v)>> \o v) \o y
    PROVE  u = v /\ x = y
<1> DEFINE lu == <<Len(u)>>
           lv == <<Len(v)>>
           a == lu \o u
           b == lv \o v
           c == a \o x
<1>1. /\ lu \in Seq(Nat) /\ Len(lu) = 1 /\ lu[1] = Len(u)
      /\ lv \in Seq(Nat) /\ Len(lv) = 1 /\ lv[1] = Len(v)
      /\ Len(u) \in Nat /\ Len(v) \in Nat
  OBVIOUS
<1>2. c = b \o y
  BY Zenon
<1> HIDE DEF lu, lv
<1>3. Joins(a, lu, u) /\ a \in Seq(Nat) /\ Joins(b, lv, v) /\ b \in Seq(Nat)
  BY <1>1, Joined
<1> HIDE DEF a, b
<1>4. a[1] = Len(u) /\ Len(a) = 1 + Len(u) /\ b[1] = Len(v) /\ Len(b) = 1 + Len(v)
  <2>1. a[1] = Len(u) /\ Len(a) = 1 + Len(u)
    BY ONLY <1>1, <1>3 DEF Joins
  <2>2. b[1] = Len(v) /\ Len(b) = 1 + Len(v)
    BY ONLY <1>1, <1>3 DEF Joins
  <2> QED
    BY <2>1, <2>2
<1>5. Joins(c, a, x) /\ Joins(c, b, y)
  BY <1>2, <1>3, Joined
<1> HIDE DEF c
<1>6. c[1] = Len(u) /\ c[1] = Len(v)
  <2>1. 1 \in 1 .. Len(a) /\ 1 \in 1 .. Len(b)
    BY <1>1, <1>4
  <2> QED
    BY <1>4, <1>5, <2>1 DEF Joins
<1>7. Len(u) = Len(v) /\ Len(a) = Len(b)
  BY <1>4, <1>6
<1>8. a = b /\ x = y
  <2>1. a \o x = b \o y
    BY <1>2 DEF c
  <2> QED
    BY <1>3, <1>7, <2>1, SameParts
<1>9. u = v
  <2>1. lu \o u = lv \o v /\ Len(lu) = Len(lv)
    BY <1>1, <1>8 DEF a, b
  <2> QED
    BY <1>1, <2>1, SameParts
<1> QED
  BY <1>8, <1>9

\* So does a slot, when it is known whether it is None.
LEMMA SlotParses ==
    ASSUME NEW u \in Slot, NEW v \in Slot, u = Absent <=> v = Absent,
           NEW x \in Seq(Nat), NEW y \in Seq(Nat), Chunk(u) \o x = Chunk(v) \o y
    PROVE  u = v /\ x = y
<1>1. CASE u = Absent
  <2>1. Chunk(u) = <<>> /\ Chunk(v) = <<>> /\ u = v
    BY <1>1, ChunkOfSlot
  <2>2. Chunk(u) \o x = x /\ Chunk(v) \o y = y
    BY <2>1, ConcatEmptySeq
  <2> QED
    BY <2>1, <2>2
<1>2. CASE u # Absent
  <2>1. /\ u \in Seq(Nat) /\ Chunk(u) = <<Len(u)>> \o u
        /\ v \in Seq(Nat) /\ Chunk(v) = <<Len(v)>> \o v
    BY <1>2, ChunkOfSlot
  <2>2. (<<Len(u)>> \o u) \o x = (<<Len(v)>> \o v) \o y
    BY <2>1, Zenon
  <2>3. u \in Seq(Nat) /\ v \in Seq(Nat)
    BY <2>1
  <2> QED
    BY ONLY <2>2, <2>3, x \in Seq(Nat), y \in Seq(Nat), ChunkParses
<1> QED
  BY <1>1, <1>2

\* One slot is not the same as two, when its last one is known to be there or not.
LEMMA OneMoreSlot ==
    ASSUME NEW m \in Slot, m # Absent, NEW p \in Slot, NEW q \in Slot,
           p = Absent <=> q = Absent
    PROVE  Chunk(p) # Chunk(m) \o Chunk(q)
<1> SUFFICES ASSUME Chunk(p) = Chunk(m) \o Chunk(q)
             PROVE  FALSE
  OBVIOUS
<1>1. /\ Chunk(m) \in Seq(Nat) /\ Chunk(m) # <<>>
      /\ Chunk(p) \in Seq(Nat) /\ Chunk(q) \in Seq(Nat)
  BY ChunkOfSlot
<1>4. <<>> \in Seq(Nat)
  OBVIOUS
<1>2. CASE p = Absent
  <2>1. Chunk(m) \o Chunk(q) = <<>>
    BY <1>2, ChunkOfSlot
  <2> QED
    BY <1>1, <2>1, ConcatEqualIffEmpty
<1>3. CASE p # Absent
  <2>1. Chunk(p) \o <<>> = Chunk(m) \o Chunk(q)
    BY <1>1, ConcatEmptySeq
  <2>2. <<>> = Chunk(q)
    <3> DEFINE x == <<>>
               y == Chunk(q)
    <3>1. x \in Seq(Nat) /\ y \in Seq(Nat) /\ Chunk(p) \o x = Chunk(m) \o y
      BY <1>1, <1>4, <2>1
    <3> HIDE DEF x, y
    <3>2. x = y
      BY <1>3, <3>1, SlotParses
    <3> QED
      BY <3>2 DEF x, y
  <2> QED
    BY <1>3, <2>2, ChunkOfSlot
<1> QED
  BY <1>2, <1>3

\* So the report data tell the slots, and whether there was a nonce.
LEMMA ReportDataIdentify ==
    ASSUME NEW u \in Slot, NEW v \in Slot, u = Absent <=> v = Absent,
           NEW n \in Slot, NEW m \in Slot,
           NEW p \in Slot, NEW q \in Slot, p = Absent <=> q = Absent,
           Folded(u, n, p) = Folded(v, m, q)
    PROVE  u = v /\ n = m /\ p = q
<1>1. /\ Chunk(n) \in Seq(Nat) /\ Chunk(p) \in Seq(Nat)
      /\ Chunk(m) \in Seq(Nat) /\ Chunk(q) \in Seq(Nat)
  BY ChunkOfSlot
<1>8. <<>> \in Seq(Nat)
  OBVIOUS
<1>2. Chunk(n) \o Chunk(p) \in Seq(Nat) /\ Chunk(m) \o Chunk(q) \in Seq(Nat)
  BY <1>1, ConcatProperties
<1>3. Chunk(u) \o (Chunk(n) \o Chunk(p)) = Chunk(v) \o (Chunk(m) \o Chunk(q))
  <2>1. Folded(u, n, p) = Parts(u, n, p)
    BY ThreeChunks
  <2>2. Folded(v, m, q) = Parts(v, m, q)
    BY ThreeChunks
  <2>3. Parts(u, n, p) = Parts(v, m, q)
    BY <2>1, <2>2
  <2> QED
    BY ONLY <2>3 DEF Parts
<1>4. u = v /\ Chunk(n) \o Chunk(p) = Chunk(m) \o Chunk(q)
  <2> DEFINE x == Chunk(n) \o Chunk(p)
             y == Chunk(m) \o Chunk(q)
  <2>1. x \in Seq(Nat) /\ y \in Seq(Nat) /\ Chunk(u) \o x = Chunk(v) \o y
    BY <1>2, <1>3
  <2> HIDE DEF x, y
  <2>2. u = v
    BY <2>1, SlotParses
  <2>3. x = y
    <3> DEFINE c == Chunk(u)
    <3>1. c \in Seq(Nat) /\ Len(c) = Len(c) /\ c \o x = c \o y
      BY <2>1, <2>2, ChunkOfSlot
    <3> HIDE DEF c
    <3> QED
      BY ONLY <3>1, <2>1, SameParts
  <2> QED
    BY <2>2, <2>3 DEF x, y
<1>5. n = Absent <=> m = Absent
  <2>1. ASSUME n = Absent, m # Absent
        PROVE  FALSE
    <3>1. Chunk(n) \o Chunk(p) = Chunk(p)
      BY <1>1, <2>1, ChunkOfSlot, ConcatEmptySeq
    <3> QED
      BY <1>4, <2>1, <3>1, OneMoreSlot
  <2>2. ASSUME n # Absent, m = Absent
        PROVE  FALSE
    <3>1. Chunk(m) \o Chunk(q) = Chunk(q)
      BY <1>1, <2>2, ChunkOfSlot, ConcatEmptySeq
    <3> QED
      BY <1>4, <2>2, <3>1, OneMoreSlot
  <2> QED
    BY <2>1, <2>2
<1>6. n = m /\ Chunk(p) = Chunk(q)
  <2> DEFINE x == Chunk(p)
             y == Chunk(q)
  <2>1. x \in Seq(Nat) /\ y \in Seq(Nat) /\ Chunk(n) \o x = Chunk(m) \o y
    BY <1>1, <1>4
  <2> HIDE DEF x, y
  <2>2. n = m
    BY <1>5, <2>1, SlotParses
  <2>3. x = y
    <3> DEFINE c == Chunk(n)
    <3>1. c \in Seq(Nat) /\ Len(c) = Len(c) /\ c \o x = c \o y
      BY <2>1, <2>2, ChunkOfSlot
    <3> HIDE DEF c
    <3> QED
      BY ONLY <3>1, <2>1, SameParts
  <2> QED
    BY <2>2, <2>3 DEF x, y
<1>7. p = q
  <2> DEFINE x == <<>>
  <2>1. x \in Seq(Nat) /\ Chunk(p) \o x = Chunk(q) \o x
    BY <1>6, <1>8
  <2> HIDE DEF x
  <2> QED
    BY ONLY <2>1, p \in Slot, q \in Slot, p = Absent <=> q = Absent, SlotParses
<1> QED
  BY <1>4, <1>6, <1>7

\* The same session-key document was made for the same call.
LEMMA InvGivesSlots ==
    ASSUME AttInv
    PROVE  SlotsUnambiguous
<1>1. SUFFICES ASSUME NEW i \in Documents("key"), NEW j \in Documents("key"),
                      evidence[i].document.of = evidence[j].document.of,
                      mode = "tdx" => NoneAgrees(evidence[i].call, evidence[j].call)
               PROVE  evidence[i].call = evidence[j].call
  BY DEF SlotsUnambiguous
<1> DEFINE c == evidence[i].call
           n == evidence[i].nonce
           d == evidence[j].call
           m == evidence[j].nonce
<1>2. i \in DOMAIN evidence /\ c.op = "key" /\ j \in DOMAIN evidence /\ d.op = "key"
  BY <1>1 DEF Documents
<1>3. /\ c \in AttCalls /\ NonceFits(c, n) /\ evidence[i].document.of = Committed(c, n)
      /\ d \in AttCalls /\ NonceFits(d, m) /\ evidence[j].document.of = Committed(d, m)
      /\ mode = "tdx" => n # EmptyText /\ m # EmptyText
  BY <1>2, GenuineEvidence
<1>4. /\ Committed(c, n) = Committed(d, m)
      /\ mode = "tdx" => NoneAgrees(c, d)
  BY <1>1, <1>3
<1> HIDE DEF c, n, d, m
<1>5. n = c.nonce /\ m = d.nonce
  BY <1>2, <1>3 DEF NonceFits
<1>6. /\ c = [x \in KeyFields |-> c[x]] /\ d = [x \in KeyFields |-> d[x]]
      /\ c.user_data \in Slot /\ n \in Slot \cup {EmptyText} /\ c.public_key \in Slot
      /\ d.user_data \in Slot /\ m \in Slot \cup {EmptyText} /\ d.public_key \in Slot
  BY <1>2, <1>3, <1>5, AttestationAssumption DEF Slot
<1>7. c.user_data = d.user_data /\ n = m /\ c.public_key = d.public_key
  <2>1. CASE mode = "tdx"
    <3>1. Folded(c.user_data, n, c.public_key)
            = Folded(d.user_data, m, d.public_key)
      BY <1>2, <1>4, <2>1 DEF Committed, Folded
    <3>2. n \in Slot /\ m \in Slot
      BY <1>3, <1>6, <2>1
    <3>3. /\ c.user_data = Absent <=> d.user_data = Absent
          /\ c.public_key = Absent <=> d.public_key = Absent
      BY <1>4, <2>1 DEF NoneAgrees
    <3> DEFINE cu == c.user_data
               du == d.user_data
               cp == c.public_key
               dp == d.public_key
    <3>4. /\ cu \in Slot /\ du \in Slot /\ (cu = Absent <=> du = Absent)
          /\ cp \in Slot /\ dp \in Slot /\ (cp = Absent <=> dp = Absent)
          /\ Folded(cu, n, cp) = Folded(du, m, dp)
      BY <1>6, <3>1, <3>3
    <3> HIDE DEF cu, du, cp, dp
    <3>5. cu = du /\ n = m /\ cp = dp
      BY ONLY <3>2, <3>4, ReportDataIdentify
    <3> QED
      BY <3>5 DEF cu, du, cp, dp
  <2>2. CASE mode # "tdx"
    <3>1. NsmRequest(c.user_data, n, c.public_key) = NsmRequest(d.user_data, m, d.public_key)
      BY <1>2, <1>4, <2>2 DEF Committed
    <3>2. ASSUME NEW x, NEW y, NEW z
          PROVE  /\ NsmRequest(x, y, z).user_data = x /\ NsmRequest(x, y, z).nonce = y
                 /\ NsmRequest(x, y, z).public_key = z
      BY DEF NsmRequest
    <3> QED
      BY <3>1, <3>2
  <2> QED
    BY <2>1, <2>2
<1>8. \A x \in KeyFields : c[x] = d[x]
  BY <1>2, <1>5, <1>7 DEF KeyFields
<1>9. c = d
  BY <1>6, <1>8
<1> QED
  BY <1>9 DEF c, d

-----------------------------------------------------------------------------
(* The theorems.                                                           *)

\* What create_execution_attestation and generate_attestation return as a success is
\* signed over the data of this call, and its verification_guide accepts it.
THEOREM EvidenceIsGenuine == AttSpec => []EvidenceVerifies
  BY AttestationInvariant, InvGivesVerifies, PTL

\* A proof belongs to one job, script, dataset, output, nonce, context and manifest.
THEOREM ProofsBind == AttSpec => []ProofBindsExecution
  BY AttestationInvariant, InvGivesBinding, PTL

\* _report_data_from and _build_attestation_request keep the three slots apart, for
\* byte strings of any length; the first one among calls with the same slots None.
THEOREM SlotsStayApart == AttSpec => []SlotsUnambiguous
  BY AttestationInvariant, InvGivesSlots, PTL

=============================================================================
