------------------------ MODULE EnclaveServerProofs ------------------------
(***************************************************************************)
(* Proofs about EnclaveServer, for every set of messages, every limit      *)
(* above the size of the header and every way the stream is cut into       *)
(* chunks.                                                                 *)
(*                                                                         *)
(* What RequestIntact, NobodyLeftWaiting and TimeoutJustified say of a     *)
(* connection that is answered follows from how much the thread has        *)
(* received while it still reads, which ServerInv states for each of the   *)
(* three loops.                                                            *)
(***************************************************************************)
EXTENDS EnclaveServer, TLAPS

Reading == {"header", "body", "raw"}

\* The loop over the header ends with its last byte.
HeaderLoop == pc = "header" => got < HEADER_SIZE

\* The loop over the body has an allowed length to reach and has not reached it.
BodyLoop ==
    pc = "body" =>
        /\ ~ LooksRaw
        /\ ValidLength(msg.claims)
        /\ got >= HEADER_SIZE
        /\ got < HEADER_SIZE + msg.claims

\* The loop of _recv_raw_json is below the limit, and what it got after the header
\* was not taken for a complete text.
RawLoop ==
    pc = "raw" =>
        /\ LooksRaw
        /\ got >= HEADER_SIZE
        /\ got < MAX_REQUEST_SIZE
        /\ got > HEADER_SIZE => ~ (EndsWithBrace(got) /\ Parses(got))

\* Nothing is handed on while the thread reads, something is before it responds,
\* and the answer is the last thing that happens.
Order ==
    /\ pc \in Reading => handed = 0
    /\ pc = "respond" => handed > 0
    /\ pc # "closed" => answer = NoAnswer

ServerInv ==
    /\ HeaderLoop
    /\ BodyLoop
    /\ RawLoop
    /\ Order
    /\ RequestIntact
    /\ BufferBounded
    /\ NobodyLeftWaiting
    /\ TimeoutJustified

-----------------------------------------------------------------------------
(* Facts about the model's operators.                                      *)

\* The smaller of two numbers.
LEMMA MinOfTwo ==
    ASSUME NEW a \in Int, NEW b \in Int
    PROVE  Min({a, b}) \in Int /\ Min({a, b}) <= a /\ Min({a, b}) <= b
<1>1. \E x \in {a, b} : \A y \in {a, b} : x <= y
  OBVIOUS
<1>2. Min({a, b}) \in {a, b} /\ \A y \in {a, b} : Min({a, b}) <= y
  BY <1>1 DEF Min
<1> QED
  BY <1>2

\* recv returns at least one byte, none that is not there, and no more than asked.
LEMMA RecvBytes ==
    ASSUME NEW limit \in Int, sent \in Nat, got \in Nat, Recv(limit)
    PROVE  got' \in Nat /\ got < got' /\ got' <= sent /\ got' <= got + limit
<1>1. got + limit \in Int /\ sent \in Int
  OBVIOUS
<1>2. /\ Min({sent, got + limit}) \in Int
      /\ Min({sent, got + limit}) <= sent
      /\ Min({sent, got + limit}) <= got + limit
  BY <1>1, MinOfTwo
<1> QED
  BY <1>2 DEF Recv

\* What the fields of the message are.
LEMMA MessageTypes ==
    ASSUME TypeOK
    PROVE  /\ msg.framed \in BOOLEAN
           /\ msg.claims \in Nat
           /\ msg.length \in Nat
           /\ msg.json_end \in Nat
           /\ msg.json_end <= msg.length
           /\ msg.utf8 \in BOOLEAN
           /\ MAX_REQUEST_SIZE \in Nat
           /\ MAX_REQUEST_SIZE > 4
  BY ServerAssumption DEF TypeOK, AllMessages, HEADER_SIZE

\* No allowed length starts with the byte '{'.
LEMMA BraceIsTooLong ==
    ASSUME TypeOK, msg.claims \in BraceLengths
    PROVE  ~ ValidLength(msg.claims)
  BY ServerAssumption DEF ValidLength

\* Handing on what was received: the thread goes on to respond, or answers that
\* the bytes are no text.
LEMMA HandCases ==
    ASSUME NEW bytes, NEW whole, Hand(bytes, whole)
    PROVE  \/ handed' = bytes /\ pc' = "respond" /\ answer' = answer
           \/ /\ handed' = handed /\ pc' = "closed"
              /\ answer' = [framing |-> "length_prefix", cause |-> "server_error"]
  BY DEF Hand, SendError

-----------------------------------------------------------------------------
(* The invariant.                                                          *)

\* Types and the invariant hold when a connection is accepted.
LEMMA ServerInvInit == Init => TypeOK /\ ServerInv
<1> SUFFICES ASSUME Init
             PROVE  TypeOK /\ ServerInv
  OBVIOUS
<1>1. msg.length \in Nat
  BY ServerAssumption DEF Init, AllMessages
<1>2. TypeOK
  <2>1. answer \in Answers
    BY DEF Init, NoAnswer, Answers
  <2>2. sent \in 0 .. msg.length /\ got \in 0 .. sent /\ handed \in 0 .. msg.length
    BY <1>1 DEF Init
  <2> QED
    BY <2>1, <2>2 DEF Init, TypeOK
<1>3. HeaderLoop /\ BodyLoop /\ RawLoop /\ Order
  BY DEF Init, HeaderLoop, BodyLoop, RawLoop, Order, HEADER_SIZE
<1>4. RequestIntact /\ BufferBounded /\ NobodyLeftWaiting /\ TimeoutJustified
  BY <1>2, MessageTypes
     DEF Init, RequestIntact, BufferBounded, NobodyLeftWaiting, TimeoutJustified,
         NoAnswer, HEADER_SIZE
<1> QED
  BY <1>2, <1>3, <1>4 DEF ServerInv

\* The client's steps.
LEMMA ClientStep ==
    ASSUME TypeOK, ServerInv, ClientSends \/ ClientCloses
    PROVE  TypeOK' /\ ServerInv'
<1> USE MessageTypes DEF HEADER_SIZE
<1>1. /\ pc # "closed"
      /\ UNCHANGED <<msg, pc, got, handed, answer>>
      /\ eof => eof'
    BY DEF ClientSends, ClientCloses
<1>2. TypeOK'
  <2>1. CASE ClientSends
    <3>1. sent \in Nat /\ sent' \in (sent + 1) .. msg.length
      BY <2>1 DEF ClientSends, TypeOK
    <3>2. sent' \in 0 .. msg.length /\ got \in 0 .. sent'
      BY <3>1 DEF TypeOK
    <3> QED
      BY <2>1, <3>2 DEF ClientSends, TypeOK
  <2>2. CASE ClientCloses
    BY <2>2 DEF ClientCloses, TypeOK
  <2> QED
    BY <2>1, <2>2
<1>3. answer = NoAnswer
  BY <1>1 DEF ServerInv, Order
<1>4. HeaderLoop' /\ BodyLoop' /\ RawLoop' /\ Order'
  BY <1>1 DEF ServerInv, HeaderLoop, BodyLoop, RawLoop, Order, LooksRaw, EndsWithBrace, Parses
<1>5. RequestIntact' /\ BufferBounded'
  BY <1>1 DEF ServerInv, RequestIntact, BufferBounded
<1>6. NobodyLeftWaiting' /\ TimeoutJustified'
  BY <1>1, <1>3 DEF NobodyLeftWaiting, TimeoutJustified, NoAnswer
<1> QED
  BY <1>2, <1>4, <1>5, <1>6 DEF ServerInv

\* An error answer ends a connection that was still reading.
LEMMA ErrorStep ==
    ASSUME TypeOK, ServerInv, pc \in Reading, UNCHANGED <<msg, sent, eof, handed>>,
           got' \in 0 .. sent, got' <= HEADER_SIZE + MAX_REQUEST_SIZE, pc' = "closed",
           NEW cause \in {"length", "incomplete", "timeout", "server_error"},
           answer' = [framing |-> "length_prefix", cause |-> cause],
           cause = "timeout" => ~ Complete
    PROVE  TypeOK' /\ ServerInv'
<1>1. answer' \in Answers /\ answer'.cause = cause /\ answer' # NoAnswer
  BY DEF Answers, NoAnswer
<1>2. TypeOK'
  BY <1>1 DEF TypeOK
<1>3. handed = 0
  BY DEF ServerInv, Order
<1>4. HeaderLoop' /\ BodyLoop' /\ RawLoop' /\ Order'
  BY DEF HeaderLoop, BodyLoop, RawLoop, Order, Reading
<1>5. RequestIntact' /\ BufferBounded' /\ NobodyLeftWaiting'
  BY <1>1, <1>3 DEF RequestIntact, BufferBounded, NobodyLeftWaiting
<1>6. TimeoutJustified'
  BY <1>1 DEF TimeoutJustified, Complete, LooksRaw
<1> QED
  BY <1>2, <1>4, <1>5, <1>6 DEF ServerInv

\* Going on to read changes nothing but the bytes received and the loop.
LEMMA ReadStep ==
    ASSUME TypeOK, ServerInv, pc \in Reading, UNCHANGED <<msg, sent, eof, handed, answer>>,
           got' \in 0 .. sent, got' <= HEADER_SIZE + MAX_REQUEST_SIZE, pc' \in Reading,
           HeaderLoop', BodyLoop', RawLoop'
    PROVE  TypeOK' /\ ServerInv'
<1>1. handed = 0 /\ answer = NoAnswer
  BY DEF ServerInv, Order, Reading
<1>2. TypeOK'
  BY DEF TypeOK, Reading
<1>3. Order'
  BY <1>1 DEF Order, Reading
<1>4. RequestIntact' /\ BufferBounded' /\ NobodyLeftWaiting' /\ TimeoutJustified'
  BY <1>1 DEF RequestIntact, BufferBounded, NobodyLeftWaiting, TimeoutJustified,
     Reading, NoAnswer
<1> QED
  BY <1>2, <1>3, <1>4 DEF ServerInv

\* Handing a request on, when what is handed on is what RequestIntact promises.
LEMMA HandStep ==
    ASSUME TypeOK, ServerInv, pc \in Reading, UNCHANGED <<msg, sent, eof>>,
           got' \in 0 .. sent, got' <= HEADER_SIZE + MAX_REQUEST_SIZE,
           NEW bytes \in 1 .. msg.length, NEW whole, Hand(bytes, whole),
           IF msg.framed THEN ValidLength(msg.claims) => bytes = msg.claims
           ELSE bytes >= msg.json_end \/ bytes = MAX_REQUEST_SIZE \/ eof
    PROVE  TypeOK' /\ ServerInv'
<1>1. CASE handed' = bytes /\ pc' = "respond" /\ answer' = answer
  <2>1. answer = NoAnswer
    BY DEF ServerInv, Order, Reading
  <2>2. TypeOK'
    BY <1>1, MessageTypes DEF TypeOK
  <2>3. HeaderLoop' /\ BodyLoop' /\ RawLoop' /\ Order'
    BY <1>1, <2>1, MessageTypes DEF HeaderLoop, BodyLoop, RawLoop, Order, Reading
  <2>4. RequestIntact'
    BY <1>1 DEF RequestIntact, ValidLength
  <2>5. BufferBounded' /\ NobodyLeftWaiting' /\ TimeoutJustified'
    BY <1>1, <2>1 DEF BufferBounded, NobodyLeftWaiting, TimeoutJustified, NoAnswer
  <2> QED
    BY <2>2, <2>3, <2>4, <2>5 DEF ServerInv
<1>2. CASE /\ handed' = handed /\ pc' = "closed"
           /\ answer' = [framing |-> "length_prefix", cause |-> "server_error"]
  BY <1>2, ErrorStep
<1> QED
  BY <1>1, <1>2, HandCases

\* The loop over the header.
LEMMA HeaderStep ==
    ASSUME TypeOK, ServerInv, RecvHeader \/ HeaderEof
    PROVE  TypeOK' /\ ServerInv'
<1> USE MessageTypes
<1>1. pc = "header" /\ got \in Nat /\ sent \in Nat /\ got < 4
  <2>1. pc = "header"
    BY DEF RecvHeader, HeaderEof
  <2> QED
    BY <2>1 DEF ServerInv, HeaderLoop, TypeOK, HEADER_SIZE
<1>2. CASE HeaderEof
  <2>1. handed = 0 /\ answer = NoAnswer
    BY <1>1 DEF ServerInv, Order, Reading
  <2>2. TypeOK'
    BY <1>2 DEF HeaderEof, TypeOK
  <2>3. HeaderLoop' /\ BodyLoop' /\ RawLoop' /\ Order'
    BY <1>2 DEF HeaderEof, HeaderLoop, BodyLoop, RawLoop, Order, Reading
  <2>4. RequestIntact' /\ BufferBounded' /\ NobodyLeftWaiting' /\ TimeoutJustified'
    BY <1>1, <1>2, <2>1 DEF HeaderEof, RequestIntact, BufferBounded, NobodyLeftWaiting,
       TimeoutJustified, NoAnswer, HEADER_SIZE
  <2> QED
    BY <2>2, <2>3, <2>4 DEF ServerInv
<1>3. CASE RecvHeader
  <2>1. got' \in Nat /\ got < got' /\ got' <= sent /\ got' <= 4
    <3>1. Recv(HEADER_SIZE - got) /\ HEADER_SIZE - got \in Int
      BY <1>1, <1>3 DEF RecvHeader, HEADER_SIZE
    <3> QED
      BY <1>1, <3>1, RecvBytes DEF HEADER_SIZE
  <2>2. got' \in 0 .. sent /\ got' <= HEADER_SIZE + MAX_REQUEST_SIZE
    BY <1>1, <2>1 DEF HEADER_SIZE
  <2>3. CASE got' < HEADER_SIZE
    <3>1. UNCHANGED <<msg, sent, eof, pc, handed, answer>>
      <4>1. got' # HEADER_SIZE
        BY <2>1, <2>3 DEF HEADER_SIZE
      <4> QED
        BY <1>3, <2>3, <4>1 DEF RecvHeader
    <3>2. HeaderLoop' /\ BodyLoop' /\ RawLoop'
      BY <1>1, <2>3, <3>1 DEF HeaderLoop, BodyLoop, RawLoop
    <3> QED
      BY <1>1, <2>2, <3>1, <3>2, ReadStep DEF Reading
  <2>4. CASE got' = HEADER_SIZE /\ LooksRaw
    <3>1. pc' = "raw" /\ UNCHANGED <<msg, sent, eof, handed, answer>>
      BY <1>3, <2>4 DEF RecvHeader, HEADER_SIZE
    <3>2. HeaderLoop' /\ BodyLoop' /\ RawLoop'
      BY <2>4, <3>1 DEF HeaderLoop, BodyLoop, RawLoop, LooksRaw, HEADER_SIZE
    <3> QED
      BY <1>1, <2>2, <3>1, <3>2, ReadStep DEF Reading
  <2>5. CASE got' = HEADER_SIZE /\ ~ LooksRaw /\ ValidLength(msg.claims)
    <3>1. pc' = "body" /\ UNCHANGED <<msg, sent, eof, handed, answer>>
      BY <1>3, <2>5 DEF RecvHeader, HEADER_SIZE
    <3>2. HeaderLoop' /\ BodyLoop' /\ RawLoop'
      BY <2>5, <3>1 DEF HeaderLoop, BodyLoop, RawLoop, LooksRaw, ValidLength, HEADER_SIZE
    <3> QED
      BY <1>1, <2>2, <3>1, <3>2, ReadStep DEF Reading
  <2>6. CASE got' = HEADER_SIZE /\ ~ LooksRaw /\ ~ ValidLength(msg.claims)
    <3>1. SendError("length") /\ UNCHANGED <<msg, sent, eof>>
      BY <1>3, <2>6 DEF RecvHeader, HEADER_SIZE
    <3> QED
      BY <1>1, <2>2, <3>1, ErrorStep DEF Reading, SendError
  <2> QED
    BY <2>1, <2>3, <2>4, <2>5, <2>6 DEF HEADER_SIZE
<1> QED
  BY <1>2, <1>3

\* The loop over the body.
LEMMA BodyStep ==
    ASSUME TypeOK, ServerInv, RecvBody \/ BodyEof
    PROVE  TypeOK' /\ ServerInv'
<1> USE MessageTypes
<1>1. /\ pc = "body" /\ got \in Nat /\ sent \in Nat /\ sent <= msg.length
      /\ ~ LooksRaw /\ ValidLength(msg.claims) /\ got < 4 + msg.claims /\ got >= 4
  <2>1. pc = "body"
    BY DEF RecvBody, BodyEof
  <2> QED
    BY <2>1 DEF ServerInv, BodyLoop, TypeOK, HEADER_SIZE
<1>2. CASE BodyEof
  <2>1. got' \in 0 .. sent /\ got' <= HEADER_SIZE + MAX_REQUEST_SIZE
    BY <1>2 DEF BodyEof, TypeOK, ServerInv, BufferBounded
  <2> QED
    BY <1>1, <1>2, <2>1, ErrorStep DEF BodyEof, SendError, Reading
<1>3. CASE RecvBody
  <2>1. got' \in Nat /\ got < got' /\ got' <= sent /\ got' <= 4 + msg.claims
    <3>1. Recv(HEADER_SIZE + msg.claims - got) /\ HEADER_SIZE + msg.claims - got \in Int
      BY <1>1, <1>3 DEF RecvBody, HEADER_SIZE
    <3> QED
      BY <1>1, <3>1, RecvBytes DEF HEADER_SIZE
  <2>2. got' \in 0 .. sent /\ got' <= HEADER_SIZE + MAX_REQUEST_SIZE
    BY <1>1, <2>1 DEF HEADER_SIZE, ValidLength
  <2>3. CASE got' = HEADER_SIZE + msg.claims
    <3>1. Hand(msg.claims, TRUE) /\ UNCHANGED <<msg, sent, eof>>
      BY <1>3, <2>3 DEF RecvBody
    <3>2. msg.claims \in 1 .. msg.length
      BY <1>1, <2>1, <2>3 DEF ValidLength, HEADER_SIZE
    <3>3. msg.framed
      BY <1>1 DEF LooksRaw
    <3> QED
      BY <1>1, <2>2, <3>1, <3>2, <3>3, HandStep DEF Reading
  <2>4. CASE got' # HEADER_SIZE + msg.claims
    <3>1. UNCHANGED <<msg, sent, eof, pc, handed, answer>>
      BY <1>3, <2>4 DEF RecvBody
    <3>2. HeaderLoop' /\ BodyLoop' /\ RawLoop'
      BY <1>1, <2>1, <2>4, <3>1
         DEF HeaderLoop, BodyLoop, RawLoop, LooksRaw, ValidLength, HEADER_SIZE
    <3> QED
      BY <1>1, <2>2, <3>1, <3>2, ReadStep DEF Reading
  <2> QED
    BY <2>3, <2>4
<1> QED
  BY <1>2, <1>3

\* The loop of _recv_raw_json.
LEMMA RawStep ==
    ASSUME TypeOK, ServerInv, RecvRaw \/ RawEof
    PROVE  TypeOK' /\ ServerInv'
<1> USE MessageTypes
<1>1. /\ pc = "raw" /\ got \in Nat /\ sent \in Nat /\ sent <= msg.length
      /\ LooksRaw /\ got >= 4 /\ got < MAX_REQUEST_SIZE /\ got <= sent
  <2>1. pc = "raw"
    BY DEF RecvRaw, RawEof
  <2> QED
    BY <2>1 DEF ServerInv, RawLoop, TypeOK, HEADER_SIZE
<1>2. msg.framed => ~ ValidLength(msg.claims)
  BY <1>1, BraceIsTooLong DEF LooksRaw
<1>3. CASE RawEof
  <2>1. got' \in 0 .. sent /\ got' <= HEADER_SIZE + MAX_REQUEST_SIZE
    BY <1>3 DEF RawEof, TypeOK, ServerInv, BufferBounded
  <2>2. got \in 1 .. msg.length
    BY <1>1
  <2>3. PICK whole : Hand(got, whole)
    BY <1>3 DEF RawEof
  <2> QED
    BY <1>1, <1>2, <1>3, <2>1, <2>2, <2>3, HandStep DEF RawEof, Reading
<1>4. CASE RecvRaw
  <2>1. got' \in Nat /\ got < got' /\ got' <= sent /\ got' <= MAX_REQUEST_SIZE
    <3>1. Recv(MAX_REQUEST_SIZE - got) /\ MAX_REQUEST_SIZE - got \in Int
      BY <1>1, <1>4 DEF RecvRaw
    <3> QED
      BY <1>1, <3>1, RecvBytes
  <2>2. got' \in 0 .. sent /\ got' <= HEADER_SIZE + MAX_REQUEST_SIZE
    BY <1>1, <2>1 DEF HEADER_SIZE
  <2>3. got' \in 1 .. msg.length /\ UNCHANGED <<msg, sent, eof>>
    BY <1>1, <1>4, <2>1 DEF RecvRaw
  <2>4. CASE EndsWithBrace(got') /\ Parses(got')
    <3>1. Hand(got', TRUE)
      BY <1>4, <2>4 DEF RecvRaw
    <3>2. ~ msg.framed /\ got' >= msg.json_end
      BY <2>4 DEF Parses
    <3> QED
      BY <1>1, <2>2, <2>3, <3>1, <3>2, HandStep DEF Reading
  <2>5. CASE ~ (EndsWithBrace(got') /\ Parses(got')) /\ got' = MAX_REQUEST_SIZE
    <3>1. Hand(got', FALSE)
      BY <1>4, <2>5 DEF RecvRaw
    <3> QED
      BY <1>1, <1>2, <2>2, <2>3, <2>5, <3>1, HandStep DEF Reading
  <2>6. CASE ~ (EndsWithBrace(got') /\ Parses(got')) /\ got' # MAX_REQUEST_SIZE
    <3>1. UNCHANGED <<pc, handed, answer>>
      BY <1>4, <2>6 DEF RecvRaw
    <3>2. HeaderLoop' /\ BodyLoop' /\ RawLoop'
      BY <1>1, <2>1, <2>3, <2>6, <3>1
         DEF HeaderLoop, BodyLoop, RawLoop, LooksRaw, EndsWithBrace, Parses, HEADER_SIZE
    <3> QED
      BY <1>1, <2>2, <2>3, <3>1, <3>2, ReadStep DEF Reading
  <2> QED
    BY <2>4, <2>5, <2>6
<1> QED
  BY <1>3, <1>4

\* A wait that ends without a byte: the client has not sent its whole request.
LEMMA TimeoutStep ==
    ASSUME TypeOK, ServerInv, Timeout
    PROVE  TypeOK' /\ ServerInv'
<1> USE MessageTypes
<1>1. /\ pc \in Reading /\ sent = got /\ got \in Nat /\ got <= msg.length
      /\ UNCHANGED <<msg, sent, eof, got, handed>>
      /\ pc' = "closed"
      /\ answer' = [framing |-> "length_prefix", cause |-> "timeout"]
  BY DEF Timeout, Nothing, SendError, Reading, TypeOK
<1>2. ~ Complete
  <2>1. CASE pc = "header"
    BY <1>1, <2>1 DEF ServerInv, HeaderLoop, Complete, HEADER_SIZE
  <2>2. CASE pc = "body"
    BY <1>1, <2>2 DEF ServerInv, BodyLoop, Complete, LooksRaw, HEADER_SIZE
  <2>3. CASE pc = "raw"
    <3>1. LooksRaw /\ (got > 4 => ~ (EndsWithBrace(got) /\ Parses(got)))
      BY <2>3 DEF ServerInv, RawLoop, HEADER_SIZE
    <3>2. CASE msg.framed
      BY <3>1, <3>2 DEF Complete
    <3>3. CASE ~ msg.framed
      BY <1>1, <3>1, <3>3 DEF Complete, EndsWithBrace, Parses, HEADER_SIZE
    <3> QED
      BY <3>2, <3>3
  <2> QED
    BY <1>1, <2>1, <2>2, <2>3 DEF Reading
<1>3. got' \in 0 .. sent /\ got' <= HEADER_SIZE + MAX_REQUEST_SIZE
  BY <1>1 DEF TypeOK, ServerInv, BufferBounded
<1> QED
  BY <1>1, <1>2, <1>3, ErrorStep

\* The response.
LEMMA RespondStep ==
    ASSUME TypeOK, ServerInv, Respond
    PROVE  TypeOK' /\ ServerInv'
<1>1. /\ handed > 0 /\ pc' = "closed" /\ UNCHANGED <<msg, sent, eof, got, handed>>
      /\ answer' \in Answers /\ answer'.cause = "response" /\ answer' # NoAnswer
  BY DEF Respond, SendResponse, ServerInv, Order, Answers, NoAnswer
<1>2. TypeOK'
  BY <1>1 DEF TypeOK
<1>3. HeaderLoop' /\ BodyLoop' /\ RawLoop' /\ Order'
  BY <1>1 DEF HeaderLoop, BodyLoop, RawLoop, Order, Reading
<1>4. RequestIntact' /\ BufferBounded' /\ NobodyLeftWaiting' /\ TimeoutJustified'
  BY <1>1 DEF ServerInv, RequestIntact, BufferBounded, NobodyLeftWaiting, TimeoutJustified
<1> QED
  BY <1>2, <1>3, <1>4 DEF ServerInv

\* Every step keeps types and the invariant.
LEMMA ServerInvStep == TypeOK /\ ServerInv /\ [Next]_vars => (TypeOK /\ ServerInv)'
<1> SUFFICES ASSUME TypeOK, ServerInv, [Next]_vars
             PROVE  (TypeOK /\ ServerInv)'
  OBVIOUS
<1>1. CASE UNCHANGED vars
  <2>1. UNCHANGED <<msg, sent, eof, pc, got, handed, answer>>
    BY <1>1 DEF vars
  <2>2. TypeOK'
    BY <2>1 DEF TypeOK
  <2>3. HeaderLoop' /\ BodyLoop' /\ RawLoop' /\ Order'
    BY <2>1 DEF ServerInv, HeaderLoop, BodyLoop, RawLoop, Order, LooksRaw, EndsWithBrace, Parses
  <2>4. RequestIntact' /\ BufferBounded' /\ NobodyLeftWaiting' /\ TimeoutJustified'
    BY <2>1 DEF ServerInv, RequestIntact, BufferBounded, NobodyLeftWaiting,
       TimeoutJustified, Complete, LooksRaw
  <2> QED
    BY <2>2, <2>3, <2>4 DEF ServerInv
<1> QED
  BY <1>1, ClientStep, HeaderStep, BodyStep, RawStep, TimeoutStep, RespondStep DEF Next, Server

-----------------------------------------------------------------------------
(* Theorems.                                                               *)

\* The invariant holds in every reachable state.
THEOREM ServerInvariant == Spec => [](TypeOK /\ ServerInv)
  BY ServerInvInit, ServerInvStep, PTL DEF Spec

\* handle_request gets the announced body, or a complete raw text, whatever the
\* chunks; less only after an early close or at the limit.
THEOREM RequestsArriveIntact == Spec => []RequestIntact
<1>1. ServerInv => RequestIntact
  BY DEF ServerInv
<1> QED
  BY <1>1, ServerInvariant, PTL

\* A connection never makes the server buffer more than a header and the limit.
THEOREM MemoryPerConnection == Spec => []BufferBounded
<1>1. ServerInv => BufferBounded
  BY DEF ServerInv
<1> QED
  BY <1>1, ServerInvariant, PTL

\* A client that sent a header gets an answer before the socket is closed, and a
\* response only to a request that was handled.
THEOREM ClientsAreAnswered == Spec => []NobodyLeftWaiting
<1>1. ServerInv => NobodyLeftWaiting
  BY DEF ServerInv
<1> QED
  BY <1>1, ServerInvariant, PTL

\* Nobody who sent a whole request is told that it timed out.
THEOREM TimeoutsAreJustified == Spec => []TimeoutJustified
<1>1. ServerInv => TimeoutJustified
  BY DEF ServerInv
<1> QED
  BY <1>1, ServerInvariant, PTL
=============================================================================
