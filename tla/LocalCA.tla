------------------------------ MODULE LocalCA ------------------------------
(***************************************************************************)
(* implementations/local_attestation_service.py: attestation documents     *)
(* signed by a three-level local CA, used when /dev/nsm is missing and     *)
(* ALLOW_LOCAL_ATTESTATION is set.  The CA is seven files of LOCAL_CA_DIR; *)
(* they outlive the process, and no lock protects them from the            *)
(* connection threads that load or generate them.                          *)
(*                                                                         *)
(* Each run of the generation code makes a new hierarchy, numbered here;   *)
(* the key, the certificate and the DER file of hierarchy g are the value  *)
(* g.  Path.write_bytes truncates the file and then fills it, two steps    *)
(* here.  No file is ever deleted, so the existence test over six files    *)
(* is one step: it sees what one moment shows.                             *)
(***************************************************************************)
EXTENDS Integers

CONSTANTS
    Threads,        \* the connection threads that ask for a document
    Faults,         \* TRUE: the process may crash and a write may fail
    MaxHierarchies  \* bound: hierarchies generated

\* The contents of a file that is no hierarchy's.
Absent == -1
Torn == 0           \* truncated and not filled: no PEM parser accepts it

\* Mutants: the copy for the trust center is saved first; the keys are saved
\* after the certificates.
DerWrittenFirst == <<"root.der", "root.key", "intermediate.key", "leaf.key",
                     "root.pem", "intermediate.pem", "leaf.pem">>
KeysWrittenLast == <<"root.pem", "intermediate.pem", "leaf.pem", "root.key",
                     "intermediate.key", "leaf.key", "root.der">>

\* Lines 148-160: the order in which a hierarchy is saved.
WriteOrder == <<"root.key", "intermediate.key", "leaf.key", "root.pem",
                "intermediate.pem", "leaf.pem", "root.der">>

\* Lines 65-70: the order in which it is loaded.
ReadOrder == <<"root.key", "root.pem", "intermediate.key", "intermediate.pem",
               "leaf.key", "leaf.pem">>

CAFiles == {"root.key", "intermediate.key", "leaf.key", "root.pem",
            "intermediate.pem", "leaf.pem"}
Files == CAFiles \cup {"root.der"}

Contents == {Absent, Torn} \cup (1 .. MaxHierarchies)

\* A document: the hierarchy of the key that signs it and of each
\* certificate it carries.
Documents == [signer : Contents, certificate : Contents,
              intermediate : Contents, root : Contents]

ASSUME CAAssumption == Faults \in BOOLEAN /\ MaxHierarchies \in Nat

VARIABLES
    disk,       \* LOCAL_CA_DIR: the contents of each file
    made,       \* hierarchies generated so far
    pc,         \* where each thread is
    at,         \* the file it loads or writes next
    ca,         \* the keys and certificates in its local variables
    documents,  \* history: the documents that were signed
    cut         \* history: a saving was cut off at its last file, root.der

caVars == <<disk, made, pc, at, ca, documents, cut>>

CAInit ==
    /\ disk = [f \in Files |-> Absent]
    /\ made = 0
    /\ pc = [t \in Threads |-> "idle"]
    /\ at = [t \in Threads |-> 1]
    /\ ca = [t \in Threads |-> [f \in Files |-> Absent]]
    /\ documents = {}
    /\ cut = FALSE

(***************************************************************************)
(* _ensure_local_ca                                                        *)
(***************************************************************************)
AllExist == \A f \in CAFiles : disk[f] # Absent

EnsureLoads(t) ==
    /\ pc[t] = "idle"
    /\ AllExist
    /\ pc' = [pc EXCEPT ![t] = "load"]
    /\ at' = [at EXCEPT ![t] = 1]
    /\ UNCHANGED <<disk, made, ca, documents, cut>>

\* Mutant: the new hierarchy is used and not saved.
GeneratesUnsaved(t) ==
    /\ pc[t] = "idle"
    /\ ~AllExist
    /\ made < MaxHierarchies
    /\ made' = made + 1
    /\ ca' = [ca EXCEPT ![t] = [f \in Files |-> made + 1]]
    /\ pc' = [pc EXCEPT ![t] = "sign"]
    /\ UNCHANGED <<disk, at, documents, cut>>

EnsureGenerates(t) ==
    /\ pc[t] = "idle"
    /\ ~AllExist
    /\ made < MaxHierarchies
    /\ made' = made + 1
    /\ ca' = [ca EXCEPT ![t] = [f \in Files |-> made + 1]]
    /\ pc' = [pc EXCEPT ![t] = "write"]
    /\ at' = [at EXCEPT ![t] = 1]
    /\ UNCHANGED <<disk, documents, cut>>

LoadFile(t) ==
    /\ pc[t] = "load"
    /\ disk[ReadOrder[at[t]]] > Torn
    /\ ca' = [ca EXCEPT ![t] =
                 [ca[t] EXCEPT ![ReadOrder[at[t]]] = disk[ReadOrder[at[t]]]]]
    /\ IF at[t] < 6
          THEN /\ at' = [at EXCEPT ![t] = at[t] + 1]
               /\ UNCHANGED pc
          ELSE /\ pc' = [pc EXCEPT ![t] = "sign"]
               /\ UNCHANGED at
    /\ UNCHANGED <<disk, made, documents, cut>>

\* load_pem_private_key or load_pem_x509_certificate raises; the handler of
\* generate_local_attestation answers LOCAL_ATTESTATION_FAILED.
LoadFails(t) ==
    /\ pc[t] = "load"
    /\ disk[ReadOrder[at[t]]] <= Torn
    /\ pc' = [pc EXCEPT ![t] = "idle"]
    /\ UNCHANGED <<disk, made, at, ca, documents, cut>>

\* Mutant: a private key that was saved before is kept.
WriteKeepsKeys(t) ==
    /\ pc[t] = "write"
    /\ IF at[t] <= 3 /\ disk[WriteOrder[at[t]]] > Torn
          THEN /\ at' = [at EXCEPT ![t] = at[t] + 1]
               /\ UNCHANGED <<disk, pc>>
          ELSE /\ disk' = [disk EXCEPT ![WriteOrder[at[t]]] = Torn]
               /\ pc' = [pc EXCEPT ![t] = "fill"]
               /\ UNCHANGED at
    /\ UNCHANGED <<made, ca, documents, cut>>

OpenForWrite(t) ==
    /\ pc[t] = "write"
    /\ disk' = [disk EXCEPT ![WriteOrder[at[t]]] = Torn]
    /\ pc' = [pc EXCEPT ![t] = "fill"]
    /\ UNCHANGED <<made, at, ca, documents, cut>>

\* Mutant: the hierarchy is used before root.der is saved.
FillFileNoDer(t) ==
    /\ pc[t] = "fill"
    /\ disk' = [disk EXCEPT ![WriteOrder[at[t]]] = ca[t][WriteOrder[at[t]]]]
    /\ IF at[t] < 6
          THEN /\ pc' = [pc EXCEPT ![t] = "write"]
               /\ at' = [at EXCEPT ![t] = at[t] + 1]
          ELSE /\ pc' = [pc EXCEPT ![t] = "sign"]
               /\ UNCHANGED at
    /\ UNCHANGED <<made, ca, documents, cut>>

FillFile(t) ==
    /\ pc[t] = "fill"
    /\ disk' = [disk EXCEPT ![WriteOrder[at[t]]] = ca[t][WriteOrder[at[t]]]]
    /\ IF at[t] < 7
          THEN /\ pc' = [pc EXCEPT ![t] = "write"]
               /\ at' = [at EXCEPT ![t] = at[t] + 1]
          ELSE /\ pc' = [pc EXCEPT ![t] = "sign"]
               /\ UNCHANGED at
    /\ UNCHANGED <<made, ca, documents, cut>>

\* The thread has saved the other files and is about to save root.der.
AtRootDer(t) == pc[t] \in {"write", "fill"} /\ WriteOrder[at[t]] = "root.der"

\* open or write raises OSError, with the file as the failure leaves it.
WriteFails(t) ==
    /\ Faults
    /\ pc[t] \in {"write", "fill"}
    /\ pc' = [pc EXCEPT ![t] = "idle"]
    /\ cut' = (cut \/ AtRootDer(t))
    /\ UNCHANGED <<disk, made, at, ca, documents>>

(***************************************************************************)
(* generate_local_attestation, once it has the hierarchy.                  *)
(***************************************************************************)
Document(hierarchy) ==
    [signer |-> hierarchy["leaf.key"], certificate |-> hierarchy["leaf.pem"],
     intermediate |-> hierarchy["intermediate.pem"],
     root |-> hierarchy["root.pem"]]

SignDocument(t) ==
    /\ pc[t] = "sign"
    /\ documents' = documents \cup {Document(ca[t])}
    /\ pc' = [pc EXCEPT ![t] = "idle"]
    /\ UNCHANGED <<disk, made, at, ca, cut>>

\* The process dies and is started again: the files stay as they are.
Crash ==
    /\ Faults
    /\ pc' = [t \in Threads |-> "idle"]
    /\ cut' = (cut \/ \E t \in Threads : AtRootDer(t))
    /\ UNCHANGED <<disk, made, at, ca, documents>>

Thread(t) ==
    \/ EnsureLoads(t) \/ EnsureGenerates(t)
    \/ LoadFile(t) \/ LoadFails(t)
    \/ OpenForWrite(t) \/ FillFile(t) \/ WriteFails(t)
    \/ SignDocument(t)

CANext == Crash \/ \E t \in Threads : Thread(t)

CASpec == CAInit /\ [][CANext]_caVars

(***************************************************************************)
(* Properties                                                              *)
(***************************************************************************)
CATypeOK ==
    /\ disk \in [Files -> Contents]
    /\ made \in 0 .. MaxHierarchies
    /\ pc \in [Threads -> {"idle", "load", "write", "fill", "sign"}]
    /\ at \in [Threads -> 1 .. 7]
    /\ \A t \in Threads : pc[t] = "load" => at[t] <= 6
    /\ ca \in [Threads -> [Files -> Contents]]
    /\ documents \subseteq Documents
    /\ cut \in BOOLEAN

\* Every signed document verifies: the leaf certificate belongs to the key
\* that signed it, and each certificate is issued by the next one of
\* cabundle.  local_attestation_service.py:8-9 promises it of every document.
DocumentsVerify ==
    \A d \in documents :
        /\ d.signer = d.certificate
        /\ d.certificate = d.intermediate
        /\ d.intermediate = d.root

\* A verifier that trusts one local root accepts every document ever signed,
\* whatever crashes and failed writes lie between them: a hierarchy is never
\* replaced once a document was signed under it.
OneTrustAnchor ==
    \A d, e \in documents : d.root = e.root

\* root.der, which line 159 saves for the trust center, is complete by the
\* time a document is signed, and is the root of the hierarchy in the other
\* files and of every document.  The one exception: a saving that was cut
\* off at root.der itself leaves it missing or empty for good, since the six
\* other files are complete and nothing writes root.der any more; even then
\* it never holds another root.
PublishedRoot ==
    /\ documents # {} /\ ~cut => disk["root.der"] > Torn
    /\ disk["root.der"] > Torn =>
          /\ disk["root.pem"] = disk["root.der"]
          /\ \A d \in documents : d.root = disk["root.der"]

\* After a crash or a failed write, the only file that can stop a load is
\* leaf.pem, the last of the six to be written: any other torn file leaves
\* one of the six missing, so that the hierarchy is made again.  (A torn
\* leaf.pem does stop it for good: nothing in the code repairs that.)
OnlyLeafBlocks ==
    AllExist => \A f \in CAFiles \ {"leaf.pem"} : disk[f] > Torn
=============================================================================
