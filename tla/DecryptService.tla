--------------------------- MODULE DecryptService ---------------------------
(***************************************************************************)
(* DecryptServiceImpl (implementations/decrypt_service_impl.py): the four  *)
(* formats it opens with the private key of a session.  The request        *)
(* handler uses decrypt_combined_hybrid_data; the others are the legacy    *)
(* part of the interface.                                                  *)
(*                                                                         *)
(* A message is a sequence of units, each of which stands for the bytes    *)
(* that only work together.  The cryptography is ideal and external:       *)
(* RSA-OAEP opens what was encrypted to the same key pair and was not      *)
(* touched, AES-GCM and Fernet accept what was not touched, and AES-CBC    *)
(* accepts anything whose padding happens to be right.                     *)
(***************************************************************************)
EXTENDS Integers, Sequences

CONSTANTS
    KeyPairs,      \* the key pairs of this enclave
    KeyUnits,      \* units of an RSA ciphertext: key_size // 8, per key pair
    Plaintexts,    \* what clients encrypt
    NoKey          \* get_private_key returned None

\* A key_size of 2048 gives 256 bytes: no single unit is a whole RSA ciphertext.
ASSUME DecryptAssumption ==
    /\ KeyUnits \in [KeyPairs -> Nat \ {0, 1}]
    /\ NoKey \notin KeyPairs

Formats == {"combined", "hybrid", "csv_file", "rsa"}

VARIABLES
    session,   \* the key pair the session has now
    sealed,    \* what the client encrypted: the format, the key pair, the plaintext
    message,   \* what has arrived of it, as the one or two fields of the call
    touched,   \* the message is not the one the client sent
    outcome    \* what the service returned

decVars == <<session, sealed, message, touched, outcome>>

None == [kind |-> "none"]

-----------------------------------------------------------------------------
(* External: what the client builds.                                       *)

\* The RSA ciphertext of an AES key (for "rsa", of the plaintext itself); the AES key
\* is one of its own for each message.
RsaUnits(k, p) == [i \in 1 .. KeyUnits[k] |-> [part |-> "rsa", key |-> k, of |-> p, at |-> i]]

Nonce(p) == <<[part |-> "nonce", of |-> p]>>

\* Two units of ciphertext; the second holds the tag, the HMAC or the padding.
BodyUnits(p) == [i \in 1 .. 2 |-> [part |-> "body", of |-> p, at |-> i]]

Seal(f, k, p) ==
    CASE f = "combined" -> <<RsaUnits(k, p) \o Nonce(p) \o BodyUnits(p)>>
      [] f = "hybrid"   -> <<RsaUnits(k, p), Nonce(p) \o BodyUnits(p)>>
      [] f = "csv_file" -> <<<<[part |-> "length", n |-> KeyUnits[k]]>> \o RsaUnits(k, p)
                                \o BodyUnits(p)>>
      [] f = "rsa"      -> <<RsaUnits(k, p)>>

DecInit ==
    /\ session \in KeyPairs
    /\ sealed = None
    /\ message = <<>>
    /\ touched = FALSE
    /\ outcome = None

ClientSeals(f, k, p) ==
    /\ sealed = None
    /\ sealed' = [kind |-> f, key |-> k, data |-> p]
    /\ message' = Seal(f, k, p)
    /\ UNCHANGED <<session, touched, outcome>>

\* The session expires, is deleted, or has another key pair than the client thinks.
SessionChanges ==
    /\ outcome = None
    /\ session' \in (KeyPairs \cup {NoKey}) \ {session}
    /\ UNCHANGED <<sealed, message, touched, outcome>>

\* The message is changed on the way: a unit is lost, comes from another message,
\* or is replaced by anything, a length by another length.
Replacements(u) ==
    IF u.part = "length" THEN {[u EXCEPT !.n = m] : m \in {u.n - 1, u.n + 1}}
    ELSE {[part |-> "junk"]} \cup {[u EXCEPT !.of = p] : p \in Plaintexts \ {u.of}}

MessageChanges ==
    /\ sealed # None /\ ~touched /\ outcome = None
    /\ touched' = TRUE
    /\ \E x \in DOMAIN message : \E i \in DOMAIN message[x] :
          \/ message' = [message EXCEPT ![x] = SubSeq(@, 1, i - 1)]
          \/ \E u \in Replacements(message[x][i]) :
                message' = [message EXCEPT ![x] = [@ EXCEPT ![i] = u]]
    /\ UNCHANGED <<session, sealed, outcome>>

-----------------------------------------------------------------------------
(* The service.                                                            *)

\* Python slices stop at the end of the sequence.
Slice(s, i, j) == SubSeq(s, i, IF j < Len(s) THEN j ELSE Len(s))
From(s, i) == SubSeq(s, i, Len(s))

\* key_length, which is 0 for an empty file.
Announced == IF message[1] = <<>> THEN 0 ELSE message[1][1].n

\* Mutant: encrypted_key has the 256 bytes of RSA-2048, whatever the key size.
KeyPartFixed(f, k) ==
    CASE f = "combined" -> Slice(message[1], 1, 2)
      [] f = "csv_file" -> Slice(message[1], 2, 1 + Announced)
      [] OTHER -> message[1]

\* encrypted_key: the first key_size // 8 bytes, the announced bytes of the file, or
\* a field of its own.
KeyPart(f, k) ==
    CASE f = "combined" -> Slice(message[1], 1, KeyUnits[k])
      [] f = "csv_file" -> Slice(message[1], 2, 1 + Announced)
      [] OTHER -> message[1]

NoncePart(f, k) ==
    CASE f = "combined" -> Slice(message[1], KeyUnits[k] + 1, KeyUnits[k] + 1)
      [] f = "hybrid"   -> Slice(message[2], 1, 1)
      [] OTHER -> <<>>

BodyPart(f, k) ==
    CASE f = "combined" -> From(message[1], KeyUnits[k] + 2)
      [] f = "hybrid"   -> From(message[2], 2)
      [] f = "csv_file" -> From(message[1], 2 + Announced)
      [] f = "rsa"      -> <<>>

\* private_key.decrypt: what the key part holds, if it opens.
OaepOpens(f, k) == {p \in Plaintexts : KeyPart(f, k) = RsaUnits(k, p)}

\* Mutant: AES-CTR, without a tag, for AES-GCM.
AuthenticatesAnything(f, p, k) == TRUE

\* AESGCM.decrypt and Fernet.decrypt test the tag; decrypt_rsa_data has nothing else.
Authenticates(f, p, k) ==
    CASE f = "combined" -> NoncePart(f, k) = Nonce(p) /\ BodyPart(f, k) = BodyUnits(p)
      [] f = "hybrid"   -> NoncePart(f, k) = Nonce(p) /\ BodyPart(f, k) = BodyUnits(p)
      [] f = "csv_file" -> BodyPart(f, k) = BodyUnits(p)
      [] f = "rsa"      -> TRUE

Refusal == [kind |-> "failure"]
Success(d) == [kind |-> "success", data |-> d]

\* decrypt_csv_file reads the message from a file and writes the plaintext to
\* decrypted_<name> beside it; a success returns that name, here as what the file
\* holds.  Either may raise OSError, the second with part of the file written.
FileFailures(f) == IF f = "csv_file" THEN {[kind |-> "file_failure"]} ELSE {}

\* What the call can return.  The unpadder of "hybrid" takes one wrong text in many
\* for a right one.
Outcomes(f, k) ==
    IF k = NoKey THEN {Refusal}
    ELSE IF OaepOpens(f, k) = {} THEN {Refusal}
    ELSE LET p == CHOOSE q \in OaepOpens(f, k) : TRUE IN
         IF Authenticates(f, p, k) THEN {Success(p)}
         ELSE IF f = "hybrid" /\ BodyPart(f, k) # <<>> THEN {Refusal, Success("garbage")}
         ELSE {Refusal}

Decrypt ==
    /\ sealed # None /\ outcome = None
    /\ outcome' \in Outcomes(sealed.kind, session) \cup FileFailures(sealed.kind)
    /\ UNCHANGED <<session, sealed, message, touched>>

DecNext ==
    \/ \E f \in Formats, k \in KeyPairs, p \in Plaintexts : ClientSeals(f, k, p)
    \/ SessionChanges
    \/ MessageChanges
    \/ Decrypt

DecSpec == DecInit /\ [][DecNext]_decVars

-----------------------------------------------------------------------------
(* Properties.                                                             *)

\* Whatever happens to a part of a message, all formats but the legacy "hybrid" one, whose
\* AES-CBC has no tag, return what the client encrypted to this session's key pair,
\* or nothing.
OnlyAuthentic ==
    outcome.kind = "success" /\ sealed.kind # "hybrid"
        => sealed.key = session /\ ~touched /\ outcome.data = sealed.data

\* A message that nobody touched is opened by the key pair it was encrypted to,
\* whatever its key size; only decrypt_csv_file can still fail, at its files.
IntactIsOpened ==
    outcome # None /\ ~touched /\ sealed.key = session
        => outcome \in {Success(sealed.data)} \cup FileFailures(sealed.kind)

\* The decrypt service returns what was sent to the session's key pair, and only that.
OpenedAsSent == OnlyAuthentic /\ IntactIsOpened
=============================================================================
