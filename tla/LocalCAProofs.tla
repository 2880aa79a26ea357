--------------------------- MODULE LocalCAProofs ---------------------------
(***************************************************************************)
(* Proofs about LocalCA.  When one thread at a time uses the CA, the order *)
(* in which its files are saved makes the existence test safe: leaf.pem    *)
(* is the last of the six, so when it exists the other five belong to the  *)
(* hierarchy that was generated last, whatever crashed before.             *)
(***************************************************************************)
EXTENDS LocalCA, TLAPS

\* There is only one thread.
Alone == \A t, u \in Threads : t = u

(***************************************************************************)
(* The inductive invariant.                                                *)
(***************************************************************************)
\* leaf.pem comes last of the six files.
LeafLast ==
    disk["leaf.pem"] # Absent =>
        /\ made > 0
        /\ \A f \in CAFiles \ {"leaf.pem"} : disk[f] = made
        /\ disk["leaf.pem"] \in {Torn, made}

\* root.der comes after them.
DerLast ==
    disk["root.der"] # Absent =>
        /\ disk["leaf.pem"] = made
        /\ disk["root.der"] \in {Torn, made}

\* When leaf.pem is complete, so is root.der, or a thread is about to save it, or
\* its saving was cut off.
DerFollows ==
    disk["leaf.pem"] = made =>
        disk["root.der"] = made \/ cut \/ \E t \in Threads : AtRootDer(t)

\* A writer has the newest hierarchy, under which nothing is signed yet, the files
\* it has passed are complete, and it has not come to leaf.pem before the sixth.
Writing ==
    \A t \in Threads : pc[t] \in {"write", "fill"} =>
        /\ made > 0
        /\ documents = {}
        /\ \A f \in Files : ca[t][f] = made
        /\ \A i \in 1 .. 7 : i < at[t] => disk[WriteOrder[i]] = made
        /\ at[t] < 6 => disk["leaf.pem"] = Absent
        /\ at[t] = 6 /\ pc[t] = "write" => disk["leaf.pem"] = Absent

\* A loader sees a hierarchy that nobody replaces.
Loading ==
    \A t \in Threads : pc[t] = "load" =>
        /\ disk["leaf.pem"] # Absent
        /\ \A i \in 1 .. 6 : i < at[t] => ca[t][ReadOrder[i]] = made

\* A signer has the newest hierarchy, and it is complete on disk.
Signing ==
    \A t \in Threads : pc[t] = "sign" =>
        /\ disk["leaf.pem"] = made
        /\ \A f \in CAFiles : ca[t][f] = made

\* So has every document that was signed.
Signed ==
    \A d \in documents :
        /\ disk["leaf.pem"] = made
        /\ d.signer = made /\ d.certificate = made
        /\ d.intermediate = made /\ d.root = made

CAInv == /\ CATypeOK
         /\ LeafLast /\ DerLast /\ DerFollows
         /\ Writing /\ Loading /\ Signing /\ Signed

-----------------------------------------------------------------------------
(* The two orders.                                                         *)

\* What the order of lines 148-160 means for the sixth and seventh file.
LEMMA WriteOrderFacts ==
    /\ \A i \in 1 .. 7 : WriteOrder[i] \in Files
    /\ \A i, j \in 1 .. 7 : WriteOrder[i] = WriteOrder[j] => i = j
    /\ \A f \in CAFiles \ {"leaf.pem"} : \E i \in 1 .. 5 : WriteOrder[i] = f
    /\ WriteOrder[6] = "leaf.pem"
    /\ WriteOrder[7] = "root.der"
<1>1. /\ WriteOrder[1] = "root.key" /\ WriteOrder[2] = "intermediate.key"
      /\ WriteOrder[3] = "leaf.key" /\ WriteOrder[4] = "root.pem"
      /\ WriteOrder[5] = "intermediate.pem" /\ WriteOrder[6] = "leaf.pem"
      /\ WriteOrder[7] = "root.der"
  BY DEF WriteOrder
<1>2. \A i \in 1 .. 7 : i = 1 \/ i = 2 \/ i = 3 \/ i = 4 \/ i = 5 \/ i = 6 \/ i = 7
  OBVIOUS
<1>3. \A i \in 1 .. 7 : WriteOrder[i] \in Files
  BY <1>1, <1>2 DEF Files, CAFiles
<1>4. \A i, j \in 1 .. 7 : WriteOrder[i] = WriteOrder[j] => i = j
  BY <1>1, <1>2
<1>5. \A f \in CAFiles \ {"leaf.pem"} : \E i \in 1 .. 5 : WriteOrder[i] = f
  <2>1. SUFFICES ASSUME NEW f \in CAFiles \ {"leaf.pem"}
                 PROVE  \E i \in 1 .. 5 : WriteOrder[i] = f
    OBVIOUS
  <2>2. 1 \in 1 .. 5 /\ 2 \in 1 .. 5 /\ 3 \in 1 .. 5 /\ 4 \in 1 .. 5 /\ 5 \in 1 .. 5
    OBVIOUS
  <2>3. QED
    BY <1>1, <2>2 DEF CAFiles
<1>6. QED
  BY <1>1, <1>3, <1>4, <1>5

\* What the order of lines 65-70 means.
LEMMA ReadOrderFacts ==
    /\ \A i \in 1 .. 6 : ReadOrder[i] \in CAFiles
    /\ \A i, j \in 1 .. 6 : ReadOrder[i] = ReadOrder[j] => i = j
    /\ \A f \in CAFiles : \E i \in 1 .. 6 : ReadOrder[i] = f
<1>1. /\ ReadOrder[1] = "root.key" /\ ReadOrder[2] = "root.pem"
      /\ ReadOrder[3] = "intermediate.key" /\ ReadOrder[4] = "intermediate.pem"
      /\ ReadOrder[5] = "leaf.key" /\ ReadOrder[6] = "leaf.pem"
  BY DEF ReadOrder
<1>2. \A i \in 1 .. 6 : i = 1 \/ i = 2 \/ i = 3 \/ i = 4 \/ i = 5 \/ i = 6
  OBVIOUS
<1>3. \A i \in 1 .. 6 : ReadOrder[i] \in CAFiles
  BY <1>1, <1>2 DEF CAFiles
<1>4. \A i, j \in 1 .. 6 : ReadOrder[i] = ReadOrder[j] => i = j
  BY <1>1, <1>2
<1>5. \A f \in CAFiles : \E i \in 1 .. 6 : ReadOrder[i] = f
  <2>1. SUFFICES ASSUME NEW f \in CAFiles
                 PROVE  \E i \in 1 .. 6 : ReadOrder[i] = f
    OBVIOUS
  <2>2. 1 \in 1 .. 6 /\ 2 \in 1 .. 6 /\ 3 \in 1 .. 6 /\ 4 \in 1 .. 6
        /\ 5 \in 1 .. 6 /\ 6 \in 1 .. 6
    OBVIOUS
  <2>3. QED
    BY <1>1, <2>2 DEF CAFiles
<1>6. QED
  BY <1>3, <1>4, <1>5

-----------------------------------------------------------------------------
(* The invariant holds.                                                    *)

LEMMA ContentsFacts ==
    /\ Absent = -1 /\ Torn = 0
    /\ \A c \in Contents : c \in Int /\ (c = Absent \/ c = Torn \/ c > 0)
    /\ CAFiles \subseteq Files
    /\ "leaf.pem" \in CAFiles /\ "leaf.key" \in CAFiles /\ "root.pem" \in CAFiles
    /\ "intermediate.pem" \in CAFiles
    /\ "root.der" \in Files /\ "root.der" \notin CAFiles
BY CAAssumption DEF Absent, Torn, Contents, Files, CAFiles

LEMMA InitInv == CAInit => CAInv
<1>1. SUFFICES ASSUME CAInit PROVE CAInv
  OBVIOUS
<1>2. CATypeOK
  <2>1. cut \in BOOLEAN
    BY <1>1 DEF CAInit
  <2>2. Absent \in Contents /\ 0 \in 0 .. MaxHierarchies /\ 1 \in 1 .. 7 /\ 1 <= 6
    BY CAAssumption DEF Contents
  <2> QED
    BY <1>1, <2>1, <2>2 DEF CAInit, CATypeOK
<1>3. LeafLast /\ DerLast /\ DerFollows /\ Writing /\ Loading /\ Signing /\ Signed
  BY <1>1, ContentsFacts DEF CAInit, LeafLast, DerLast, DerFollows, Writing, Loading,
                             Signing, Signed
<1>4. QED
  BY <1>2, <1>3 DEF CAInv

\* A missing file means that no leaf.pem was ever begun, so that nothing was
\* signed either: it is safe to generate a new hierarchy.
LEMMA MissingMeansNoLeaf ==
    CAInv /\ ~AllExist => disk["leaf.pem"] = Absent /\ disk["root.der"] = Absent
                          /\ documents = {}
<1>1. SUFFICES ASSUME CAInv, ~AllExist
               PROVE  disk["leaf.pem"] = Absent /\ disk["root.der"] = Absent
                      /\ documents = {}
  OBVIOUS
<1>2. disk["leaf.pem"] = Absent
  BY <1>1, ContentsFacts DEF CAInv, LeafLast, AllExist, CATypeOK
<1>3. made # Absent
  BY <1>1, ContentsFacts, CAAssumption DEF CAInv, CATypeOK
<1>4. QED
  BY <1>1, <1>2, <1>3 DEF CAInv, DerLast, Signed

\* Types are preserved by every step, with any number of threads.
LEMMA TypeStep == CATypeOK /\ [CANext]_caVars => CATypeOK'
<1>1. SUFFICES ASSUME CATypeOK, [CANext]_caVars PROVE CATypeOK'
  OBVIOUS
<1>2. CASE UNCHANGED caVars
  BY <1>1, <1>2 DEF CATypeOK, caVars
<1>3. CASE Crash
  BY <1>1, <1>3 DEF CATypeOK, Crash
<1>4. CASE \E t \in Threads : Thread(t)
  <2>1. PICK t \in Threads : Thread(t)
    BY <1>4
  <2>2. CASE EnsureLoads(t)
    BY <1>1, <2>2 DEF CATypeOK, EnsureLoads
  <2>3. CASE EnsureGenerates(t)
    <3>1. made + 1 \in Contents /\ made + 1 \in 0 .. MaxHierarchies
      BY <1>1, <2>3, CAAssumption DEF CATypeOK, EnsureGenerates, Contents
    <3>2. QED
      BY <1>1, <2>3, <3>1 DEF CATypeOK, EnsureGenerates
  <2>4. CASE LoadFile(t)
    <3>1. ReadOrder[at[t]] \in Files
      BY <1>1, <2>4, ReadOrderFacts, ContentsFacts DEF CATypeOK, LoadFile
    <3>2. ca' \in [Threads -> [Files -> Contents]]
      BY <1>1, <2>4, <3>1 DEF CATypeOK, LoadFile
    <3>3. at' \in [Threads -> 1 .. 7] /\ \A u \in Threads : pc'[u] = "load" => at'[u] <= 6
      <4>1. CASE at[t] < 6
        <5>1. at' = [at EXCEPT ![t] = at[t] + 1] /\ pc' = pc
          BY <2>4, <4>1 DEF LoadFile
        <5>2. at \in [Threads -> 1 .. 7] /\ at[t] + 1 \in 1 .. 6
          BY <1>1, <4>1 DEF CATypeOK
        <5>3. QED
          BY <1>1, <5>1, <5>2 DEF CATypeOK
      <4>2. CASE ~(at[t] < 6)
        <5>1. at' = at /\ pc' = [pc EXCEPT ![t] = "sign"]
          BY <2>4, <4>2 DEF LoadFile
        <5>2. QED
          BY <1>1, <5>1 DEF CATypeOK
      <4>3. QED
        BY <4>1, <4>2
    <3>4. QED
      BY <1>1, <2>4, <3>2, <3>3 DEF CATypeOK, LoadFile
  <2>5. CASE LoadFails(t)
    BY <1>1, <2>5 DEF CATypeOK, LoadFails
  <2>6. CASE OpenForWrite(t)
    BY <1>1, <2>6 DEF CATypeOK, OpenForWrite, Contents
  <2>7. CASE FillFile(t)
    <3>1. WriteOrder[at[t]] \in Files
      BY <1>1, WriteOrderFacts DEF CATypeOK
    <3>2. ca[t][WriteOrder[at[t]]] \in Contents
      BY <1>1, <3>1 DEF CATypeOK
    <3>3. disk' \in [Files -> Contents]
      BY <1>1, <2>7, <3>2 DEF CATypeOK, FillFile
    <3>4. at' \in [Threads -> 1 .. 7] /\ \A u \in Threads : pc'[u] = "load" => at'[u] <= 6
      <4>1. CASE at[t] < 7
        <5>1. at' = [at EXCEPT ![t] = at[t] + 1] /\ pc' = [pc EXCEPT ![t] = "write"]
          BY <2>7, <4>1 DEF FillFile
        <5>2. at \in [Threads -> 1 .. 7] /\ at[t] + 1 \in 1 .. 7
          BY <1>1, <4>1 DEF CATypeOK
        <5>3. QED
          BY <1>1, <5>1, <5>2 DEF CATypeOK
      <4>2. CASE ~(at[t] < 7)
        <5>1. at' = at /\ pc' = [pc EXCEPT ![t] = "sign"]
          BY <2>7, <4>2 DEF FillFile
        <5>2. QED
          BY <1>1, <5>1 DEF CATypeOK
      <4>3. QED
        BY <4>1, <4>2
    <3>5. QED
      BY <1>1, <2>7, <3>3, <3>4 DEF CATypeOK, FillFile
  <2>8. CASE WriteFails(t)
    BY <1>1, <2>8 DEF CATypeOK, WriteFails
  <2>9. CASE SignDocument(t)
    <3>1. Document(ca[t]) \in Documents
      BY <1>1, ContentsFacts DEF CATypeOK, Document, Documents
    <3>2. QED
      BY <1>1, <2>9, <3>1 DEF CATypeOK, SignDocument
  <2>10. QED
    BY <2>1, <2>2, <2>3, <2>4, <2>5, <2>6, <2>7, <2>8, <2>9 DEF Thread
<1>5. QED
  BY <1>1, <1>2, <1>3, <1>4 DEF CANext

\* Steps that leave the disk, the documents and the generator alone, and
\* send the thread back to idle.
LEMMA BackToIdle ==
    ASSUME Alone, CAInv, CATypeOK',
           \A u \in Threads : pc'[u] = "idle",
           UNCHANGED <<disk, made, documents>>,
           cut' \/ (~ cut /\ \A u \in Threads : ~ AtRootDer(u))
    PROVE  CAInv'
<1>1. LeafLast' /\ DerLast' /\ Writing' /\ Loading' /\ Signing' /\ Signed'
  BY DEF CAInv, LeafLast, DerLast, Writing, Loading, Signing, Signed
<1>2. DerFollows'
  BY DEF CAInv, DerFollows
<1> QED
  BY <1>1, <1>2 DEF CAInv

LEMMA NextInv ==
    ASSUME Alone, CAInv, [CANext]_caVars
    PROVE  CAInv'
<1> USE DEF CAInv
<1>1. CATypeOK'
  BY TypeStep
<1>2. CASE UNCHANGED caVars
  BY <1>1, <1>2 DEF caVars, LeafLast, DerLast, DerFollows, AtRootDer, Writing, Loading,
                    Signing, Signed
<1>3. CASE Crash
  <2>1. cut' \/ (~ cut /\ \A u \in Threads : ~ AtRootDer(u))
    BY <1>3 DEF Crash, CATypeOK
  <2> QED
    BY <1>1, <1>3, <2>1, BackToIdle DEF Crash
<1>4. CASE \E t \in Threads : Thread(t)
  <2>1. PICK t \in Threads : Thread(t)
    BY <1>4
  <2>2. \A u \in Threads : u = t
    BY DEF Alone
  <2>3. CASE EnsureLoads(t)
    <3>1. DerFollows'
      BY <2>2, <2>3 DEF EnsureLoads, DerFollows, AtRootDer
    <3> QED
      BY <1>1, <2>2, <2>3, <3>1, ContentsFacts
         DEF EnsureLoads, CATypeOK, AllExist, LeafLast, DerLast, Writing, Loading,
             Signing, Signed
  <2>4. CASE EnsureGenerates(t)
    <3>1. disk["leaf.pem"] = Absent /\ disk["root.der"] = Absent /\ documents = {}
      BY <2>4, MissingMeansNoLeaf DEF EnsureGenerates
    <3>2. LeafLast' /\ DerLast' /\ Signed'
      BY <2>4, <3>1 DEF EnsureGenerates, LeafLast, DerLast, Signed
    <3>3. Writing'
      BY <2>2, <2>4, <3>1, CAAssumption DEF EnsureGenerates, CATypeOK, Writing
    <3>4. Loading' /\ Signing'
      BY <2>2, <2>4 DEF EnsureGenerates, CATypeOK, Loading, Signing
    <3>5. DerFollows'
      BY <2>4, <3>1, ContentsFacts DEF EnsureGenerates, CATypeOK, DerFollows
    <3>6. QED
      BY <1>1, <3>2, <3>3, <3>4, <3>5
  <2>5. CASE LoadFile(t)
    <3>1. at[t] \in 1 .. 6 /\ ReadOrder[at[t]] \in CAFiles
      BY <2>5, ReadOrderFacts DEF LoadFile, CATypeOK
    <3>2. disk[ReadOrder[at[t]]] = made
      BY <2>5, <3>1, ContentsFacts DEF LoadFile, CATypeOK, Loading, LeafLast
    <3>3. ca'[t] = [ca[t] EXCEPT ![ReadOrder[at[t]]] = made]
      BY <2>5, <3>2 DEF LoadFile, CATypeOK
    <3>4. \A i \in 1 .. 6 : i < at[t] + 1 => ca'[t][ReadOrder[i]] = made
      BY <2>5, <3>1, <3>3, ReadOrderFacts, ContentsFacts DEF LoadFile, CATypeOK, Loading
    <3>5. LeafLast' /\ DerLast' /\ DerFollows' /\ Signed'
      BY <2>2, <2>5 DEF LoadFile, LeafLast, DerLast, DerFollows, AtRootDer, Signed
    <3>6. CASE at[t] < 6
      <4>1. pc'[t] = "load" /\ at'[t] = at[t] + 1
        BY <2>5, <3>6 DEF LoadFile, CATypeOK
      <4>2. Writing' /\ Signing'
        BY <2>2, <4>1 DEF Writing, Signing
      <4>3. Loading'
        BY <2>2, <2>5, <3>4, <4>1 DEF Loading, LoadFile
      <4>4. QED
        BY <1>1, <3>5, <4>2, <4>3
    <3>7. CASE at[t] = 6
      <4>1. pc'[t] = "sign"
        BY <2>5, <3>7 DEF LoadFile, CATypeOK
      <4>2. \A f \in CAFiles : ca'[t][f] = made
        BY <3>4, <3>7, ReadOrderFacts
      <4>3. disk["leaf.pem"] = made
        <5>1. ReadOrder[6] = "leaf.pem"
          BY DEF ReadOrder
        <5>2. QED
          BY <3>2, <3>7, <5>1
      <4>4. Writing' /\ Loading'
        BY <2>2, <4>1 DEF Writing, Loading
      <4>5. Signing'
        BY <2>2, <2>5, <4>2, <4>3 DEF Signing, LoadFile
      <4>6. QED
        BY <1>1, <3>5, <4>4, <4>5
    <3>8. QED
      BY <3>1, <3>6, <3>7
  <2>6. CASE LoadFails(t)
    <3>1. cut' \/ (~ cut /\ \A u \in Threads : ~ AtRootDer(u))
      BY <2>2, <2>6 DEF LoadFails, AtRootDer, CATypeOK
    <3> QED
      BY <1>1, <2>2, <2>6, <3>1, BackToIdle DEF LoadFails, CATypeOK
  <2>7. CASE OpenForWrite(t)
    <3> DEFINE w == WriteOrder[at[t]]
    <3>1. at[t] \in 1 .. 7 /\ w \in Files
      BY WriteOrderFacts DEF CATypeOK
    <3>2. disk'[w] = Torn /\ \A f \in Files : f # w => disk'[f] = disk[f]
      BY <2>7, <3>1 DEF OpenForWrite, CATypeOK
    <3>3. pc'[t] = "fill" /\ UNCHANGED <<made, at, ca, documents>>
      BY <2>7 DEF OpenForWrite, CATypeOK
    <3>4. /\ made > 0
          /\ \A i \in 1 .. 7 : i < at[t] => disk[WriteOrder[i]] = made
          /\ at[t] <= 6 => disk["leaf.pem"] = Absent
      BY <2>7, <3>1 DEF OpenForWrite, Writing
    <3>5. \A i \in 1 .. 7 : i < at[t] => disk'[WriteOrder[i]] = made
      <4>1. SUFFICES ASSUME NEW i \in 1 .. 7, i < at[t]
                     PROVE  disk'[WriteOrder[i]] = made
        OBVIOUS
      <4>2. WriteOrder[i] # w /\ WriteOrder[i] \in Files
        BY <3>1, <4>1, WriteOrderFacts
      <4>3. QED
        BY <3>2, <3>4, <4>1, <4>2
    <3>6. at[t] < 6 => disk'["leaf.pem"] = Absent
      <4>1. SUFFICES ASSUME at[t] < 6 PROVE disk'["leaf.pem"] = Absent
        OBVIOUS
      <4>2. w # "leaf.pem"
        BY <3>1, <4>1, WriteOrderFacts
      <4>3. QED
        BY <3>1, <3>2, <3>4, <4>1, <4>2, ContentsFacts
    <3>7. Writing'
      BY <2>2, <3>3, <3>4, <3>5, <3>6 , <2>7 DEF Writing, OpenForWrite
    <3>8. Loading' /\ Signing'
      BY <2>2, <3>3 DEF Loading, Signing
    <3>9. made # Absent /\ made # Torn
      BY <3>4, ContentsFacts DEF CATypeOK
    <3>10. LeafLast' /\ DerLast'
      <4>1. CASE at[t] < 6
        <5>1. w # "root.der"
          BY <3>1, <4>1, WriteOrderFacts
        <5>2. disk'["root.der"] = Absent
          BY <3>1, <3>2, <3>4, <3>9, <4>1, <5>1, ContentsFacts DEF DerLast
        <5>3. QED
          BY <3>6, <4>1, <5>2 DEF LeafLast, DerLast
      <4>2. CASE at[t] = 6
        <5>1. w = "leaf.pem" /\ disk["leaf.pem"] = Absent
          BY <3>1, <3>4, <4>2, WriteOrderFacts
        <5>2. disk'["root.der"] = Absent
          BY <3>2, <3>9, <5>1, ContentsFacts DEF DerLast
        <5>3. \A f \in CAFiles \ {"leaf.pem"} : disk'[f] = made
          BY <3>5, <4>2, WriteOrderFacts
        <5>4. QED
          BY <3>2, <3>3, <3>4, <5>1, <5>2, <5>3 DEF LeafLast, DerLast
      <4>3. CASE at[t] = 7
        <5>1. w = "root.der" /\ disk'["leaf.pem"] = made
          BY <3>5, <4>3, WriteOrderFacts
        <5>2. \A f \in CAFiles \ {"leaf.pem"} : disk'[f] = made
          BY <3>5, <4>3, WriteOrderFacts
        <5>3. QED
          BY <3>2, <3>3, <3>4, <5>1, <5>2 DEF LeafLast, DerLast
      <4>4. QED
        BY <3>1, <4>1, <4>2, <4>3
    <3>11. Signed'
      <4>1. at[t] <= 6 => documents = {}
        BY <3>4, <3>9 DEF Signed
      <4>2. at[t] = 7 => disk'["leaf.pem"] = made
        BY <3>5, WriteOrderFacts
      <4>3. QED
        BY <3>1, <3>3, <4>1, <4>2 DEF Signed
    <3>12. DerFollows'
      <4>1. CASE at[t] = 7
        BY <2>7, <3>3, <4>1, WriteOrderFacts DEF DerFollows, AtRootDer, OpenForWrite
      <4>2. CASE at[t] = 6
        BY <3>2, <3>3, <3>9, <4>2, WriteOrderFacts DEF DerFollows
      <4>3. CASE at[t] < 6
        BY <3>3, <3>6, <3>9, <4>3 DEF DerFollows
      <4> QED
        BY <3>1, <4>1, <4>2, <4>3
    <3>13. QED
      BY <1>1, <3>7, <3>8, <3>10, <3>11, <3>12
  <2>8. CASE FillFile(t)
    <3> DEFINE w == WriteOrder[at[t]]
    <3>1. at[t] \in 1 .. 7 /\ w \in Files
      BY WriteOrderFacts DEF CATypeOK
    <3>2. /\ made > 0
          /\ \A f \in Files : ca[t][f] = made
          /\ \A i \in 1 .. 7 : i < at[t] => disk[WriteOrder[i]] = made
          /\ at[t] < 6 => disk["leaf.pem"] = Absent
      BY <2>8 DEF FillFile, Writing
    <3>3. disk'[w] = made /\ \A f \in Files : f # w => disk'[f] = disk[f]
      BY <2>8, <3>1, <3>2 DEF FillFile, CATypeOK
    <3>4. \A i \in 1 .. 7 : i < at[t] + 1 => disk'[WriteOrder[i]] = made
      <4>1. SUFFICES ASSUME NEW i \in 1 .. 7, i < at[t] + 1
                     PROVE  disk'[WriteOrder[i]] = made
        OBVIOUS
      <4>2. i < at[t] \/ i = at[t]
        BY <3>1, <4>1
      <4>3. CASE i = at[t]
        BY <3>3, <4>3
      <4>4. CASE i < at[t]
        BY <3>2, <3>3, <4>4, WriteOrderFacts
      <4>5. QED
        BY <4>2, <4>3, <4>4
    <3>5. at[t] < 6 => disk'["leaf.pem"] = Absent
      <4>1. SUFFICES ASSUME at[t] < 6 PROVE disk'["leaf.pem"] = Absent
        OBVIOUS
      <4>2. w # "leaf.pem"
        BY <3>1, <4>1, WriteOrderFacts
      <4>3. QED
        BY <3>2, <3>3, <4>1, <4>2, ContentsFacts
    <3>6. UNCHANGED <<made, ca, documents>> /\ documents = {}
      BY <2>8 DEF FillFile, Writing
    <3>7. made # Absent /\ made # Torn
      BY <3>2, ContentsFacts DEF CATypeOK
    <3>8. LeafLast' /\ DerLast'
      <4>1. CASE at[t] < 6
        <5>1. w # "root.der"
          BY <3>1, <4>1, WriteOrderFacts
        <5>2. disk'["root.der"] = Absent
          BY <3>2, <3>3, <3>7, <4>1, <5>1, ContentsFacts DEF DerLast
        <5>3. QED
          BY <3>5, <4>1, <5>2 DEF LeafLast, DerLast
      <4>2. CASE at[t] >= 6
        <5>1. disk'["leaf.pem"] = made
          BY <3>1, <3>4, <4>2, WriteOrderFacts
        <5>2. \A f \in CAFiles \ {"leaf.pem"} : disk'[f] = made
          <6>1. \A i \in 1 .. 5 : disk'[WriteOrder[i]] = made
            BY <3>1, <3>4, <4>2
          <6>2. QED
            BY <6>1, WriteOrderFacts
        <5>3. disk'["root.der"] = made \/ disk'["root.der"] = disk["root.der"]
          BY <3>3, ContentsFacts
        <5>4. QED
          BY <3>2, <3>6, <5>1, <5>2, <5>3 DEF LeafLast, DerLast
      <4>3. QED
        BY <3>1, <4>1, <4>2
    <3>9. Signed'
      <4>1. CASE at[t] < 6
        BY <3>2, <3>6, <3>7, <4>1 DEF Signed
      <4>2. CASE at[t] >= 6
        <5>1. disk'["leaf.pem"] = made
          BY <3>1, <3>4, <4>2, WriteOrderFacts
        <5>2. QED
          BY <3>6, <5>1 DEF Signed
      <4>3. QED
        BY <3>1, <4>1, <4>2
    <3>10. CASE at[t] < 7
      <4>1. pc'[t] = "write" /\ at'[t] = at[t] + 1
        BY <2>8, <3>10 DEF FillFile, CATypeOK
      <4>2. Loading' /\ Signing'
        BY <2>2, <4>1 DEF Loading, Signing
      <4>3. Writing'
        BY <2>2, <3>1, <3>2, <3>4, <3>5, <3>6, <4>1 DEF Writing
      <4>4. CASE at[t] = 6
        <5>1. AtRootDer(t)'
          BY <4>1, <4>4, WriteOrderFacts DEF AtRootDer
        <5> QED
          BY <1>1, <3>8, <3>9, <4>2, <4>3, <5>1 DEF DerFollows
      <4>5. CASE at[t] < 6
        BY <1>1, <3>5, <3>6, <3>7, <3>8, <3>9, <4>2, <4>3, <4>5 DEF DerFollows
      <4>6. QED
        BY <3>1, <3>10, <4>4, <4>5
    <3>11. CASE at[t] = 7
      <4>1. pc'[t] = "sign"
        BY <2>8, <3>11 DEF FillFile, CATypeOK
      <4>2. Writing' /\ Loading'
        BY <2>2, <4>1 DEF Writing, Loading
      <4>3. disk'["leaf.pem"] = made
        BY <3>4, <3>11, WriteOrderFacts
      <4>4. Signing'
        BY <2>2, <3>2, <3>6, <4>3, ContentsFacts DEF Signing
      <4>5. DerFollows'
        BY <3>3, <3>6, <3>11, WriteOrderFacts DEF DerFollows
      <4>6. QED
        BY <1>1, <3>8, <3>9, <4>2, <4>4, <4>5
    <3>12. QED
      BY <3>1, <3>10, <3>11
  <2>9. CASE WriteFails(t)
    <3>1. cut' \/ (~ cut /\ \A u \in Threads : ~ AtRootDer(u))
      BY <2>2, <2>9 DEF WriteFails, CATypeOK
    <3> QED
      BY <1>1, <2>2, <2>9, <3>1, BackToIdle DEF WriteFails, CATypeOK
  <2>10. CASE SignDocument(t)
    <3>1. pc'[t] = "idle" /\ UNCHANGED <<disk, made, at, ca>>
      BY <2>10 DEF SignDocument, CATypeOK
    <3>2. disk["leaf.pem"] = made /\ \A f \in CAFiles : ca[t][f] = made
      BY <2>10 DEF SignDocument, Signing
    <3>3. Signed'
      <4>1. SUFFICES ASSUME NEW d \in documents'
                     PROVE  /\ disk["leaf.pem"] = made
                            /\ d.signer = made /\ d.certificate = made
                            /\ d.intermediate = made /\ d.root = made
        BY <3>1 DEF Signed
      <4>2. CASE d \in documents
        BY <4>2 DEF Signed
      <4>3. CASE d = Document(ca[t])
        BY <3>2, <4>3, ContentsFacts DEF Document
      <4>4. QED
        BY <2>10, <4>2, <4>3 DEF SignDocument
    <3>4. LeafLast' /\ DerLast' /\ DerFollows'
      BY <2>2, <2>10, <3>1 DEF LeafLast, DerLast, DerFollows, AtRootDer, SignDocument
    <3>5. Writing' /\ Loading' /\ Signing'
      BY <2>2, <3>1 DEF Writing, Loading, Signing
    <3>6. QED
      BY <1>1, <3>3, <3>4, <3>5
  <2>11. QED
    BY <2>1, <2>3, <2>4, <2>5, <2>6, <2>7, <2>8, <2>9, <2>10 DEF Thread
<1>5. QED
  BY <1>2, <1>3, <1>4 DEF CANext

(***************************************************************************)
(* Theorems                                                                *)
(***************************************************************************)
\* The types of LocalCA, for any number of threads.
THEOREM CATypeCorrect == CASpec => []CATypeOK
<1>1. CAInit => CATypeOK
  BY InitInv DEF CAInv
<1>2. CATypeOK /\ [CANext]_caVars => CATypeOK'
  BY TypeStep
<1>3. QED
  BY <1>1, <1>2, PTL DEF CASpec

\* With one thread, _ensure_local_ca keeps CAInv through crashes and failed
\* writes.
THEOREM CAInvariant == ASSUME Alone PROVE CASpec => []CAInv
<1>1. CAInit => CAInv
  BY InitInv
<1>2. CAInv /\ [CANext]_caVars => CAInv'
  BY NextInv
<1>3. QED
  BY <1>1, <1>2, PTL DEF CASpec

\* With one thread, every document generate_local_attestation signs verifies:
\* no load mixes two hierarchies, whatever crashed before.
THEOREM DocumentsAlwaysVerify == ASSUME Alone PROVE CASpec => []DocumentsVerify
<1>1. CAInv => DocumentsVerify
  BY DEF CAInv, Signed, DocumentsVerify
<1>2. QED
  BY <1>1, CAInvariant, PTL

\* With one thread, all documents ever signed have the same root.
THEOREM AnchorNeverChanges == ASSUME Alone PROVE CASpec => []OneTrustAnchor
<1>1. CAInv => OneTrustAnchor
  BY DEF CAInv, Signed, OneTrustAnchor
<1>2. QED
  BY <1>1, CAInvariant, PTL

\* With one thread, root.der is complete when a document is signed, unless its own
\* saving was cut off, and it never holds another root than the files and documents.
THEOREM PublishedRootCorrect == ASSUME Alone PROVE CASpec => []PublishedRoot
<1>1. CAInv => PublishedRoot
  <2> SUFFICES ASSUME CAInv PROVE PublishedRoot
    OBVIOUS
  <2>1. ASSUME disk["root.der"] > Torn
        PROVE  /\ disk["root.pem"] = disk["root.der"]
               /\ \A d \in documents : d.root = disk["root.der"]
    <3>1. disk["root.der"] # Absent /\ disk["root.der"] # Torn
      BY <2>1, ContentsFacts
    <3>2. disk["root.der"] = made /\ disk["leaf.pem"] = made
      BY <3>1 DEF CAInv, DerLast
    <3>3. disk["leaf.pem"] # Absent
      BY <3>2, ContentsFacts DEF CAInv, CATypeOK
    <3>4. disk["root.pem"] = made
      BY <3>3 DEF CAInv, LeafLast, CAFiles
    <3> QED
      BY <3>2, <3>4 DEF CAInv, Signed
  <2>2. ASSUME documents # {}, ~ cut
        PROVE  disk["root.der"] > Torn
    <3>1. disk["leaf.pem"] = made
      BY <2>2 DEF CAInv, Signed
    <3>2. \A t \in Threads : ~ AtRootDer(t)
      BY <2>2 DEF CAInv, Writing, AtRootDer
    <3>3. disk["root.der"] = made
      BY <2>2, <3>1, <3>2 DEF CAInv, DerFollows
    <3>4. made > 0
      BY <3>1, ContentsFacts DEF CAInv, CATypeOK, LeafLast
    <3> QED
      BY <3>3, <3>4, ContentsFacts
  <2> QED
    BY <2>1, <2>2 DEF PublishedRoot
<1>2. QED
  BY <1>1, CAInvariant, PTL

\* With one thread, only leaf.pem can be torn when all six files exist.
THEOREM LeafAloneBlocks == ASSUME Alone PROVE CASpec => []OnlyLeafBlocks
<1>1. CAInv => OnlyLeafBlocks
  BY ContentsFacts DEF CAInv, CATypeOK, LeafLast, AllExist, OnlyLeafBlocks
<1>2. QED
  BY <1>1, CAInvariant, PTL
=============================================================================
