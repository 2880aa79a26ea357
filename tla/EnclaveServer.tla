--------------------------- MODULE EnclaveServer ---------------------------
(***************************************************************************)
(* EnclaveServer.handle_client (server/server.py; TcpEnclaveServer changes *)
(* only the listening socket): one connection, from the first byte to the  *)
(* close.  Connection threads share nothing here; what they share behind   *)
(* handle_request is modelled in RequestHandler.                           *)
(*                                                                         *)
(* The stream is a number of bytes.  Of their values the server looks at   *)
(* the first one ('{' or not), at the length prefix, at whether a chunk    *)
(* ends with '}', and at whether the bytes so far are a JSON text.         *)
(***************************************************************************)
EXTENDS Integers, FiniteSetsExt

CONSTANTS
    Messages,          \* what a client can send
    MAX_REQUEST_SIZE,  \* config.MAX_REQUEST_SIZE, in bytes
    BraceLengths       \* the lengths whose prefix starts with the byte '{'

HEADER_SIZE == 4

\* framed: the message starts with a length prefix, which announces claims
\* bytes; otherwise it is raw JSON.  length: the bytes the client has to send,
\* header included.  json_end: where a raw JSON text is complete.  braces:
\* where a '}' stands inside it.  utf8: the bytes decode.
AllMessages == [framed : BOOLEAN, claims : Nat, length : Nat, json_end : Nat,
                braces : SUBSET Nat, utf8 : BOOLEAN]

ASSUME ServerAssumption ==
    /\ MAX_REQUEST_SIZE \in Nat
    /\ MAX_REQUEST_SIZE > HEADER_SIZE
    /\ \A n \in BraceLengths : n \in Nat /\ n > MAX_REQUEST_SIZE   \* 0x7B000000 and up
    /\ \A m \in Messages : /\ {m} \subseteq AllMessages
                           /\ m.json_end <= m.length
                           /\ \A b \in m.braces : b < m.json_end

VARIABLES
    msg,       \* what this client sends
    sent,      \* bytes of it that have arrived at the enclave's socket
    eof,       \* the client has closed its side
    pc,        \* where the connection thread is
    got,       \* bytes it has received
    handed,    \* bytes it gave to handle_request
    answer     \* the framing of what it sent back, and why

vars == <<msg, sent, eof, pc, got, handed, answer>>

Answers == [framing : {"none", "length_prefix", "raw"},
            cause : {"none", "response", "length", "incomplete", "timeout",
                     "server_error"}]

NoAnswer == [framing |-> "none", cause |-> "none"]

Init ==
    /\ msg \in Messages
    /\ sent = 0 /\ got = 0 /\ handed = 0
    /\ eof = FALSE
    /\ pc = "header"
    /\ answer = NoAnswer

(***************************************************************************)
(* The client sends its bytes in chunks of any size, pauses as long as it  *)
(* likes, and may close before it has sent everything.                     *)
(***************************************************************************)
ClientSends ==
    /\ ~eof /\ pc # "closed"
    /\ sent' \in (sent + 1) .. msg.length
    /\ UNCHANGED <<msg, eof, pc, got, handed, answer>>

ClientCloses ==
    /\ ~eof /\ pc # "closed"
    /\ eof' = TRUE
    /\ UNCHANGED <<msg, sent, pc, got, handed, answer>>

(***************************************************************************)
(* Answers.                                                                *)
(***************************************************************************)
\* _send_error, which always uses the length prefix.  The thread then returns
\* and _handle_client_safe closes the socket.
SendError(cause) ==
    /\ answer' = [framing |-> "length_prefix", cause |-> cause]
    /\ pc' = "closed"
    /\ UNCHANGED handed

\* body.decode or b''.join(chunks).decode, and the call of handle_request.  A
\* raw message that was cut may or may not end inside a character.
Hand(bytes, whole) ==
    \E decodes \in {msg.utf8} \cup (IF whole THEN {} ELSE {FALSE}) :
        IF decodes
           THEN /\ handed' = bytes
                /\ pc' = "respond"
                /\ UNCHANGED answer
           ELSE SendError("server_error")

(***************************************************************************)
(* _recv_request.                                                          *)
(***************************************************************************)
\* recv returns between one and limit of the bytes that are there.
Recv(limit) == got' \in (got + 1) .. Min({sent, got + limit})

Nothing == sent = got

\* Mutant: the limit is not tested.
ValidLengthNoLimit(n) == n # 0

ValidLength(n) == n # 0 /\ n <= MAX_REQUEST_SIZE

\* first_bytes[0:1] == b'{'
LooksRaw == ~msg.framed \/ msg.claims \in BraceLengths

RecvHeader ==
    /\ pc = "header"
    /\ Recv(HEADER_SIZE - got)
    /\ CASE got' < HEADER_SIZE -> UNCHANGED <<pc, handed, answer>>
         [] got' = HEADER_SIZE /\ LooksRaw ->
              pc' = "raw" /\ UNCHANGED <<handed, answer>>
         [] got' = HEADER_SIZE /\ ~LooksRaw ->
              IF ValidLength(msg.claims)
                 THEN pc' = "body" /\ UNCHANGED <<handed, answer>>
                 ELSE SendError("length")
    /\ UNCHANGED <<msg, sent, eof>>

\* The end of the stream inside the header is an empty request.
HeaderEof ==
    /\ pc = "header" /\ Nothing /\ eof
    /\ pc' = "closed"
    /\ UNCHANGED <<msg, sent, eof, got, handed, answer>>

RecvBody ==
    /\ pc = "body"
    /\ Recv(HEADER_SIZE + msg.claims - got)
    /\ IF got' = HEADER_SIZE + msg.claims
          THEN Hand(msg.claims, TRUE)
          ELSE UNCHANGED <<pc, handed, answer>>
    /\ UNCHANGED <<msg, sent, eof>>

\* Mutants: an empty chunk is not taken for the end of the stream; the error
\* is not sent.
BodyEofIgnored ==
    /\ pc = "body" /\ Nothing /\ eof
    /\ UNCHANGED vars

BodyEofSilent ==
    /\ pc = "body" /\ Nothing /\ eof
    /\ pc' = "closed"
    /\ UNCHANGED <<msg, sent, eof, got, handed, answer>>

BodyEof ==
    /\ pc = "body" /\ Nothing /\ eof
    /\ SendError("incomplete")
    /\ UNCHANGED <<msg, sent, eof, got>>

(***************************************************************************)
(* _recv_raw_json.                                                         *)
(***************************************************************************)
\* chunk.endswith(b'}')
EndsWithBrace(n) == n \in msg.braces \cup {msg.json_end}

\* Mutants: the text is taken for complete at the first '}' that ends a chunk;
\* and only if no other '}' came before.
ParsesAlways(n) == TRUE
ParsesFlat(n) == ~msg.framed /\ msg.utf8 /\ n >= msg.json_end /\ msg.braces = {}

\* json.loads accepts what has been received.
Parses(n) == ~msg.framed /\ msg.utf8 /\ n >= msg.json_end

RecvRaw ==
    /\ pc = "raw"
    /\ Recv(MAX_REQUEST_SIZE - got)
    /\ CASE EndsWithBrace(got') /\ Parses(got') -> Hand(got', TRUE)
         [] ~(EndsWithBrace(got') /\ Parses(got')) /\ got' = MAX_REQUEST_SIZE ->
              Hand(got', FALSE)
         [] OTHER -> UNCHANGED <<pc, handed, answer>>
    /\ UNCHANGED <<msg, sent, eof>>

\* The end of the stream: whatever arrived is the request.
RawEof ==
    /\ pc = "raw" /\ Nothing /\ eof
    /\ Hand(got, ~msg.framed /\ got = msg.length)
    /\ UNCHANGED <<msg, sent, eof, got>>

\* No byte for CLIENT_RECV_TIMEOUT seconds.
Timeout ==
    /\ pc \in {"header", "body", "raw"} /\ Nothing /\ ~eof
    /\ SendError("timeout")
    /\ UNCHANGED <<msg, sent, eof, got>>

(***************************************************************************)
(* handle_client: the response of handle_request is sent in the framing of *)
(* the request, by _send_response or _send_response_raw.  A failing        *)
(* sendall is logged, and the socket closed.                               *)
(***************************************************************************)
SendResponse(framed) ==
    answer' = [framing |-> IF framed THEN "length_prefix" ELSE "raw",
               cause |-> "response"]

Respond ==
    /\ pc = "respond"
    /\ SendResponse(~LooksRaw)
    /\ pc' = "closed"
    /\ UNCHANGED <<msg, sent, eof, got, handed>>

Server == \/ RecvHeader \/ HeaderEof
          \/ RecvBody \/ BodyEof
          \/ RecvRaw \/ RawEof
          \/ Timeout
          \/ Respond

Next == ClientSends \/ ClientCloses \/ Server

Spec == Init /\ [][Next]_vars

\* The thread goes on when bytes are there, and every wait ends by itself
\* after CLIENT_RECV_TIMEOUT.  Nothing is assumed of the client.
FairSpec == Spec /\ WF_vars(Server)

(***************************************************************************)
(* Properties                                                              *)
(***************************************************************************)
TypeOK ==
    /\ msg \in Messages
    /\ sent \in 0 .. msg.length
    /\ got \in 0 .. sent
    /\ handed \in 0 .. msg.length
    /\ eof \in BOOLEAN
    /\ pc \in {"header", "body", "raw", "respond", "closed"}
    /\ answer \in Answers

\* However the stream is cut into chunks, handle_request gets exactly the
\* announced body, or a raw JSON text that is complete; it gets less only
\* when the client closed early or the limit of MAX_REQUEST_SIZE was hit.  No
\* length that is allowed is mistaken for the '{' of a raw text.
RequestIntact ==
    handed > 0 =>
        IF msg.framed THEN ValidLength(msg.claims) => handed = msg.claims
        ELSE \/ handed >= msg.json_end
             \/ handed = MAX_REQUEST_SIZE
             \/ eof

\* The server never buffers more than the largest request and its header,
\* whatever the length prefix announces.
BufferBounded ==
    got <= HEADER_SIZE + MAX_REQUEST_SIZE

\* A connection that got past the header is closed only with an answer, and
\* a response is sent only for a request that was handled.
NobodyLeftWaiting ==
    /\ pc = "closed" => answer # NoAnswer \/ (eof /\ got < HEADER_SIZE)
    /\ answer.cause = "response" => handed > 0

\* A client that has sent its whole request is never told that it timed out.
\* A raw text is taken for complete here when it is UTF-8, longer than the
\* header and ends with its '}'; other texts do wait for the timeout.
Complete ==
    IF msg.framed THEN sent >= HEADER_SIZE + msg.claims /\ ~LooksRaw
    ELSE /\ sent >= msg.json_end
         /\ msg.json_end = msg.length /\ msg.json_end > HEADER_SIZE
         /\ msg.utf8

TimeoutJustified ==
    answer.cause = "timeout" => ~Complete

\* Every connection ends, whatever the client does or does not send, provided that
\* handle_request returns; RequestHandler's EveryRequestAnswered says when it does.
ConnectionEnds ==
    <>(pc = "closed")

\* server.py:107 says that the framing helpers "support both length-prefixed
\* and legacy raw JSON": a client that speaks raw JSON is answered in raw JSON.
AnswerInClientFraming ==
    answer # NoAnswer /\ ~msg.framed /\ got >= HEADER_SIZE =>
        answer.framing = "raw"
=============================================================================
