------------------------ MODULE DecryptServiceProofs ------------------------
(***************************************************************************)
(* Proofs about DecryptService, for every set of key pairs, of whatever    *)
(* sizes, and every set of plaintexts.                                     *)
(*                                                                         *)
(* A message that has been altered differs from the sealed one in one      *)
(* place, or ends early.  Where a format opens with the key pair s to the  *)
(* plaintext q, every unit of the message is the one that Seal(f, s, q)    *)
(* has there, so the units that were left alone name the key pair and the  *)
(* plaintext of the client, and the altered one cannot be in its place.    *)
(***************************************************************************)
EXTENDS DecryptService, SequenceTheorems, TLAPS

Units ==
    [part : {"rsa"}, key : KeyPairs, of : Plaintexts, at : Int]
      \cup [part : {"nonce"}, of : Plaintexts]
      \cup [part : {"body"}, of : Plaintexts, at : Int]
      \cup [part : {"length"}, n : Int]
      \cup [part : {"junk"}]

RsaUnit(k, p, i) == [part |-> "rsa", key |-> k, of |-> p, at |-> i]
NonceUnit(p) == [part |-> "nonce", of |-> p]
BodyUnit(p, i) == [part |-> "body", of |-> p, at |-> i]
LengthUnit(n) == [part |-> "length", n |-> n]

\* Units with different parts, keys, plaintexts or places are different.
LEMMA UnitsDiffer ==
    ASSUME NEW k, NEW p, NEW i, NEW k2, NEW p2, NEW i2, NEW n, NEW n2
    PROVE  /\ RsaUnit(k, p, i) = RsaUnit(k2, p2, i2) => k = k2 /\ p = p2 /\ i = i2
           /\ NonceUnit(p) = NonceUnit(p2) => p = p2
           /\ BodyUnit(p, i) = BodyUnit(p2, i2) => p = p2 /\ i = i2
           /\ LengthUnit(n).n = n
<1>1. ASSUME RsaUnit(k, p, i) = RsaUnit(k2, p2, i2)
      PROVE  k = k2 /\ p = p2 /\ i = i2
  <2>1. /\ RsaUnit(k, p, i).key = k /\ RsaUnit(k2, p2, i2).key = k2
        /\ RsaUnit(k, p, i).of = p /\ RsaUnit(k2, p2, i2).of = p2
        /\ RsaUnit(k, p, i).at = i /\ RsaUnit(k2, p2, i2).at = i2
    BY DEF RsaUnit
  <2> QED
    BY <1>1, <2>1
<1>2. ASSUME NonceUnit(p) = NonceUnit(p2)
      PROVE  p = p2
  <2>1. NonceUnit(p).of = p /\ NonceUnit(p2).of = p2
    BY DEF NonceUnit
  <2> QED
    BY <1>2, <2>1
<1>3. ASSUME BodyUnit(p, i) = BodyUnit(p2, i2)
      PROVE  p = p2 /\ i = i2
  <2>1. /\ BodyUnit(p, i).of = p /\ BodyUnit(p2, i2).of = p2
        /\ BodyUnit(p, i).at = i /\ BodyUnit(p2, i2).at = i2
    BY DEF BodyUnit
  <2> QED
    BY <1>3, <2>1
<1>4. LengthUnit(n).n = n
  BY DEF LengthUnit
<1> QED
  BY <1>1, <1>2, <1>3, <1>4

\* The parts of a message are sequences of units.
LEMMA PartsAreUnits ==
    ASSUME NEW k \in KeyPairs, NEW p \in Plaintexts
    PROVE  /\ KeyUnits[k] \in Nat /\ KeyUnits[k] >= 2
           /\ RsaUnits(k, p) \in Seq(Units) /\ Len(RsaUnits(k, p)) = KeyUnits[k]
           /\ \A i \in 1 .. KeyUnits[k] : RsaUnits(k, p)[i] = RsaUnit(k, p, i)
           /\ Nonce(p) \in Seq(Units) /\ Len(Nonce(p)) = 1 /\ Nonce(p)[1] = NonceUnit(p)
           /\ BodyUnits(p) \in Seq(Units) /\ Len(BodyUnits(p)) = 2
           /\ BodyUnits(p)[1] = BodyUnit(p, 1) /\ BodyUnits(p)[2] = BodyUnit(p, 2)
<1>1. KeyUnits[k] \in Nat /\ KeyUnits[k] >= 2
  BY DecryptAssumption
<1>2. /\ RsaUnits(k, p) \in Seq(Units) /\ Len(RsaUnits(k, p)) = KeyUnits[k]
      /\ \A i \in 1 .. KeyUnits[k] : RsaUnits(k, p)[i] = RsaUnit(k, p, i)
  <2>1. \A i \in 1 .. KeyUnits[k] : RsaUnit(k, p, i) \in Units
    BY <1>1 DEF RsaUnit, Units
  <2>2. RsaUnits(k, p) = [i \in 1 .. KeyUnits[k] |-> RsaUnit(k, p, i)]
    BY DEF RsaUnits, RsaUnit
  <2>3. RsaUnits(k, p) \in [1 .. KeyUnits[k] -> Units]
    BY <2>1, <2>2
  <2>4. RsaUnits(k, p) \in Seq(Units)
    BY <1>1, <2>3, SeqDef
  <2>5. Len(RsaUnits(k, p)) = KeyUnits[k]
    BY <1>1, <2>2, <2>4, LenProperties
  <2> QED
    BY <2>2, <2>4, <2>5
<1>3. Nonce(p) \in Seq(Units) /\ Len(Nonce(p)) = 1 /\ Nonce(p)[1] = NonceUnit(p)
  <2>1. NonceUnit(p) \in Units /\ Nonce(p) = <<NonceUnit(p)>>
    BY DEF NonceUnit, Nonce, Units
  <2> QED
    BY <2>1
<1>4. /\ BodyUnits(p) \in Seq(Units) /\ Len(BodyUnits(p)) = 2
      /\ BodyUnits(p)[1] = BodyUnit(p, 1) /\ BodyUnits(p)[2] = BodyUnit(p, 2)
  <2>1. \A i \in 1 .. 2 : BodyUnit(p, i) \in Units
    BY DEF BodyUnit, Units
  <2>2. BodyUnits(p) = [i \in 1 .. 2 |-> BodyUnit(p, i)]
    BY DEF BodyUnits, BodyUnit
  <2>3. BodyUnits(p) \in [1 .. 2 -> Units]
    BY <2>1, <2>2
  <2>4. BodyUnits(p) \in Seq(Units)
    BY <2>3, SeqDef
  <2>5. Len(BodyUnits(p)) = 2
    BY <2>2, <2>4, LenProperties
  <2> QED
    BY <2>2, <2>4, <2>5
<1> QED
  BY <1>1, <1>2, <1>3, <1>4

-----------------------------------------------------------------------------
(* What the client sends, unit by unit.                                    *)

\* c is s, then t.
Joins(c, s, t) ==
    /\ c \in Seq(Units) /\ Len(c) = Len(s) + Len(t)
    /\ \A i \in 1 .. Len(s) : c[i] = s[i]
    /\ \A i \in 1 .. Len(t) : c[Len(s) + i] = t[i]

\* What concatenation does, unit by unit.
LEMMA Joined ==
    ASSUME NEW s \in Seq(Units), NEW t \in Seq(Units), NEW c, c = s \o t
    PROVE  Joins(c, s, t)
<1>1. /\ c \in Seq(Units)
      /\ Len(c) = Len(s) + Len(t)
      /\ \A i \in 1 .. Len(s) + Len(t) :
            c[i] = IF i <= Len(s) THEN s[i] ELSE t[i - Len(s)]
  BY ConcatProperties
<1>2. Len(s) \in Nat /\ Len(t) \in Nat
  OBVIOUS
<1>3. \A i \in 1 .. Len(s) : c[i] = s[i]
  BY <1>1, <1>2
<1>4. \A i \in 1 .. Len(t) : c[Len(s) + i] = t[i]
  <2> TAKE i \in 1 .. Len(t)
  <2>1. /\ Len(s) + i \in 1 .. Len(s) + Len(t)
        /\ ~ (Len(s) + i <= Len(s)) /\ (Len(s) + i) - Len(s) = i
    BY <1>2
  <2> QED
    BY <1>1, <2>1
<1> QED
  BY <1>1, <1>3, <1>4 DEF Joins

\* The first field of a sealed message, and where its RSA units begin.
First(f, k, p) == Seal(f, k, p)[1]
Start(f) == IF f = "csv_file" THEN 2 ELSE 1

\* The units of the combined format.
LEMMA CombinedLayout ==
    ASSUME NEW k \in KeyPairs, NEW p \in Plaintexts
    PROVE  LET w == First("combined", k, p) IN
           /\ Seal("combined", k, p) = <<w>>
           /\ w \in Seq(Units) /\ Len(w) = KeyUnits[k] + 3
           /\ \A i \in 1 .. KeyUnits[k] : w[i] = RsaUnit(k, p, i)
           /\ w[KeyUnits[k] + 1] = NonceUnit(p)
           /\ w[KeyUnits[k] + 2] = BodyUnit(p, 1)
           /\ w[KeyUnits[k] + 3] = BodyUnit(p, 2)
<1> DEFINE r == RsaUnits(k, p)
           n == Nonce(p)
           b == BodyUnits(p)
           w == (r \o n) \o b
<1>1. Seal("combined", k, p) = <<w>> /\ First("combined", k, p) = w
  BY DEF Seal, First
<1>2. /\ r \in Seq(Units) /\ n \in Seq(Units) /\ b \in Seq(Units)
      /\ Len(r) = KeyUnits[k] /\ Len(n) = 1 /\ Len(b) = 2
      /\ \A i \in 1 .. KeyUnits[k] : r[i] = RsaUnit(k, p, i)
      /\ n[1] = NonceUnit(p) /\ b[1] = BodyUnit(p, 1) /\ b[2] = BodyUnit(p, 2)
      /\ KeyUnits[k] \in Nat
  BY PartsAreUnits
<1> HIDE DEF r, n, b
<1> DEFINE c == r \o n
<1>3. Joins(c, r, n)
  BY <1>2, Joined
<1>4. Joins(w, c, b)
  <2>1. c \in Seq(Units)
    BY <1>3 DEF Joins
  <2> HIDE DEF c
  <2>2. w = c \o b
    BY DEF c
  <2> QED
    BY <1>2, <2>1, <2>2, Joined
<1> HIDE DEF c, w
<1>5. Len(c) = KeyUnits[k] + 1 /\ w \in Seq(Units) /\ Len(w) = KeyUnits[k] + 3
  <2>1. Len(c) = Len(r) + Len(n) /\ w \in Seq(Units) /\ Len(w) = Len(c) + Len(b)
    BY ONLY <1>3, <1>4, Zenon DEF Joins
  <2>2. KeyUnits[k] \in Nat /\ Len(r) = KeyUnits[k] /\ Len(n) = 1 /\ Len(b) = 2
    BY ONLY <1>2, Zenon
  <2> QED
    BY ONLY <2>1, <2>2
<1>6. \A i \in 1 .. KeyUnits[k] + 1 : w[i] = c[i]
  BY <1>4, <1>5 DEF Joins
<1>7. \A i \in 1 .. KeyUnits[k] : w[i] = RsaUnit(k, p, i)
  <2> TAKE i \in 1 .. KeyUnits[k]
  <2>1. i \in 1 .. KeyUnits[k] + 1
    BY <1>2
  <2>2. c[i] = r[i]
    BY <1>2, <1>3 DEF Joins
  <2> QED
    BY <1>2, <1>6, <2>1, <2>2
<1>8. w[KeyUnits[k] + 1] = NonceUnit(p)
  <2>1. c[KeyUnits[k] + 1] = n[1]
    <3>1. 1 \in 1 .. Len(n)
      BY <1>2
    <3> QED
      BY <1>2, <1>3, <3>1 DEF Joins
  <2>2. KeyUnits[k] + 1 \in 1 .. KeyUnits[k] + 1
    BY <1>2
  <2> QED
    BY <1>2, <1>6, <2>1, <2>2
<1>9. w[(KeyUnits[k] + 1) + 1] = b[1] /\ w[(KeyUnits[k] + 1) + 2] = b[2]
  <2>1. 1 \in 1 .. Len(b) /\ 2 \in 1 .. Len(b)
    BY <1>2
  <2>2. w[Len(c) + 1] = b[1] /\ w[Len(c) + 2] = b[2]
    BY <1>4, <2>1 DEF Joins
  <2> QED
    BY <1>5, <2>2
<1>10. /\ (KeyUnits[k] + 1) + 1 = KeyUnits[k] + 2
       /\ (KeyUnits[k] + 1) + 2 = KeyUnits[k] + 3
  BY <1>2
<1> QED
  BY <1>1, <1>2, <1>5, <1>7, <1>8, <1>9, <1>10

\* The units of a CSV file.
LEMMA CsvLayout ==
    ASSUME NEW k \in KeyPairs, NEW p \in Plaintexts
    PROVE  LET w == First("csv_file", k, p) IN
           /\ Seal("csv_file", k, p) = <<w>>
           /\ w \in Seq(Units) /\ Len(w) = KeyUnits[k] + 3
           /\ w[1] = LengthUnit(KeyUnits[k])
           /\ \A i \in 1 .. KeyUnits[k] : w[i + 1] = RsaUnit(k, p, i)
           /\ w[KeyUnits[k] + 2] = BodyUnit(p, 1)
           /\ w[KeyUnits[k] + 3] = BodyUnit(p, 2)
<1> DEFINE l == <<LengthUnit(KeyUnits[k])>>
           r == RsaUnits(k, p)
           b == BodyUnits(p)
           w == (l \o r) \o b
<1>1. Seal("csv_file", k, p) = <<w>> /\ First("csv_file", k, p) = w
  BY DEF Seal, First, LengthUnit
<1>2. /\ r \in Seq(Units) /\ b \in Seq(Units)
      /\ Len(r) = KeyUnits[k] /\ Len(b) = 2
      /\ \A i \in 1 .. KeyUnits[k] : r[i] = RsaUnit(k, p, i)
      /\ b[1] = BodyUnit(p, 1) /\ b[2] = BodyUnit(p, 2)
      /\ KeyUnits[k] \in Nat
  BY PartsAreUnits
<1>3. l \in Seq(Units) /\ Len(l) = 1 /\ l[1] = LengthUnit(KeyUnits[k])
  <2>1. LengthUnit(KeyUnits[k]) \in Units
    BY <1>2 DEF LengthUnit, Units
  <2> QED
    BY <2>1
<1> HIDE DEF l, r, b
<1> DEFINE c == l \o r
<1>4. Joins(c, l, r)
  BY <1>2, <1>3, Joined
<1>5. Joins(w, c, b)
  <2>1. c \in Seq(Units)
    BY <1>4 DEF Joins
  <2> HIDE DEF c
  <2>2. w = c \o b
    BY DEF c
  <2> QED
    BY <1>2, <2>1, <2>2, Joined
<1> HIDE DEF c, w
<1>6. Len(c) = KeyUnits[k] + 1 /\ w \in Seq(Units) /\ Len(w) = KeyUnits[k] + 3
  BY <1>2, <1>3, <1>4, <1>5 DEF Joins
<1>7. \A i \in 1 .. KeyUnits[k] + 1 : w[i] = c[i]
  BY <1>5, <1>6 DEF Joins
<1>8. \A i \in 1 .. KeyUnits[k] : w[i + 1] = RsaUnit(k, p, i)
  <2> TAKE i \in 1 .. KeyUnits[k]
  <2>1. 1 + i \in 1 .. KeyUnits[k] + 1 /\ 1 + i = i + 1
    BY <1>2
  <2>2. c[1 + i] = r[i]
    BY <1>2, <1>3, <1>4 DEF Joins
  <2> QED
    BY <1>2, <1>7, <2>1, <2>2
<1>9. w[1] = LengthUnit(KeyUnits[k])
  <2>1. 1 \in 1 .. Len(l) /\ 1 \in 1 .. KeyUnits[k] + 1
    BY <1>2, <1>3
  <2>2. c[1] = l[1]
    BY <1>4, <2>1 DEF Joins
  <2> QED
    BY <1>3, <1>7, <2>1, <2>2
<1>10. w[(KeyUnits[k] + 1) + 1] = b[1] /\ w[(KeyUnits[k] + 1) + 2] = b[2]
  <2>1. 1 \in 1 .. Len(b) /\ 2 \in 1 .. Len(b)
    BY <1>2
  <2>2. w[Len(c) + 1] = b[1] /\ w[Len(c) + 2] = b[2]
    BY <1>5, <2>1 DEF Joins
  <2> QED
    BY <1>6, <2>2
<1>11. /\ (KeyUnits[k] + 1) + 1 = KeyUnits[k] + 2
       /\ (KeyUnits[k] + 1) + 2 = KeyUnits[k] + 3
  BY <1>2
<1> QED
  BY <1>1, <1>2, <1>6, <1>8, <1>9, <1>10, <1>11

\* The units of an RSA message, and the fields of a hybrid one.
LEMMA RsaLayout ==
    ASSUME NEW k \in KeyPairs, NEW p \in Plaintexts
    PROVE  /\ Seal("rsa", k, p) = <<RsaUnits(k, p)>>
           /\ First("rsa", k, p) = RsaUnits(k, p)
           /\ Seal("hybrid", k, p) = <<RsaUnits(k, p), Nonce(p) \o BodyUnits(p)>>
  BY DEF Seal, First

\* Two RSA units stand next to each other in every format, whatever the key size.
LEMMA RsaPlaces ==
    ASSUME NEW f \in Formats \ {"hybrid"}, NEW k \in KeyPairs, NEW p \in Plaintexts
    PROVE  LET w == First(f, k, p) IN
           /\ Seal(f, k, p) = <<w>>
           /\ w \in Seq(Units) /\ Len(w) \in Nat /\ Len(w) > Start(f)
           /\ w[Start(f)] = RsaUnit(k, p, 1) /\ w[Start(f) + 1] = RsaUnit(k, p, 2)
           /\ f = "csv_file" => w[1] = LengthUnit(KeyUnits[k])
<1>1. KeyUnits[k] \in Nat /\ KeyUnits[k] >= 2 /\ 1 \in 1 .. KeyUnits[k] /\ 2 \in 1 .. KeyUnits[k]
  BY PartsAreUnits
<1>2. CASE f = "combined"
  BY <1>1, <1>2, CombinedLayout DEF Start
<1>3. CASE f = "csv_file"
  <2>1. /\ First("csv_file", k, p)[1 + 1] = RsaUnit(k, p, 1)
        /\ First("csv_file", k, p)[2 + 1] = RsaUnit(k, p, 2)
    BY <1>1, CsvLayout
  <2> QED
    BY <1>1, <1>3, <2>1, CsvLayout DEF Start
<1>4. CASE f = "rsa"
  BY <1>1, <1>4, RsaLayout, PartsAreUnits DEF Start
<1> QED
  BY <1>2, <1>3, <1>4 DEF Formats

-----------------------------------------------------------------------------
(* What happens to a message on the way.                                   *)

\* m is the field w with one unit replaced, or its beginning.
FieldAltered(w, m) ==
    \E i \in DOMAIN w :
        \/ m = SubSeq(w, 1, i - 1)
        \/ \E u \in Replacements(w[i]) : m = [w EXCEPT ![i] = u]

\* The message is the sealed one with one field altered.
Altered(w, m) ==
    \E x \in DOMAIN w : \E i \in DOMAIN w[x] :
        \/ m = [w EXCEPT ![x] = SubSeq(@, 1, i - 1)]
        \/ \E u \in Replacements(w[x][i]) : m = [w EXCEPT ![x] = [@ EXCEPT ![i] = u]]

\* A message of one field is altered in that field.
LEMMA OneField ==
    ASSUME NEW w, NEW m, Altered(<<w>>, m)
    PROVE  FieldAltered(w, m[1])
<1>1. PICK x \in DOMAIN <<w>> : \E i \in DOMAIN <<w>>[x] :
        \/ m = [<<w>> EXCEPT ![x] = SubSeq(@, 1, i - 1)]
        \/ \E u \in Replacements(<<w>>[x][i]) :
              m = [<<w>> EXCEPT ![x] = [@ EXCEPT ![i] = u]]
  BY DEF Altered
<1>2. x = 1 /\ <<w>>[x] = w
  OBVIOUS
<1>3. PICK i \in DOMAIN w :
        \/ m = [<<w>> EXCEPT ![x] = SubSeq(w, 1, i - 1)]
        \/ \E u \in Replacements(w[i]) : m = [<<w>> EXCEPT ![x] = [w EXCEPT ![i] = u]]
  BY <1>1, <1>2
<1>4. CASE m = [<<w>> EXCEPT ![x] = SubSeq(w, 1, i - 1)]
  <2>1. m[1] = SubSeq(w, 1, i - 1)
    BY <1>2, <1>4
  <2> QED
    BY <2>1 DEF FieldAltered
<1>5. ASSUME NEW u \in Replacements(w[i]), m = [<<w>> EXCEPT ![x] = [w EXCEPT ![i] = u]]
      PROVE  FieldAltered(w, m[1])
  <2>1. m[1] = [w EXCEPT ![i] = u]
    BY <1>2, <1>5
  <2> QED
    BY <2>1 DEF FieldAltered
<1> QED
  BY <1>3, <1>4, <1>5

\* A replacement is a unit, another one, and a length for a length.
LEMMA ReplacementDiffers ==
    ASSUME NEW v \in Units, v.part # "junk", NEW u \in Replacements(v)
    PROVE  /\ u \in Units /\ u # v
           /\ v.part = "length" => u \in [part : {"length"}, n : Int]
<1>1. CASE v.part = "length"
  <2>1. v \in [part : {"length"}, n : Int]
    BY <1>1 DEF Units
  <2>2. PICK j \in {v.n - 1, v.n + 1} : u = [v EXCEPT !.n = j]
    BY <1>1 DEF Replacements
  <2>3. u.n = j /\ j \in Int /\ j # v.n /\ u \in [part : {"length"}, n : Int]
    BY <2>1, <2>2
  <2> QED
    BY <2>3 DEF Units
<1>2. CASE v.part # "length"
  <2>1. \/ v \in [part : {"rsa"}, key : KeyPairs, of : Plaintexts, at : Int]
        \/ v \in [part : {"nonce"}, of : Plaintexts]
        \/ v \in [part : {"body"}, of : Plaintexts, at : Int]
    BY <1>2 DEF Units
  <2>2. CASE u = [part |-> "junk"]
    <3>1. u.part = "junk" /\ u \in Units
      BY <2>2 DEF Units
    <3> QED
      BY <1>2, <3>1
  <2>3. ASSUME NEW q \in Plaintexts \ {v.of}, u = [v EXCEPT !.of = q]
        PROVE  u \in Units /\ u # v
    <3>1. u.of = q
      BY <2>1, <2>3
    <3>2. u \in Units
      BY <2>1, <2>3 DEF Units
    <3> QED
      BY <2>3, <3>1, <3>2
  <2> QED
    BY <1>2, <2>2, <2>3 DEF Replacements
<1> QED
  BY <1>1, <1>2

\* No unit of a sealed message is junk.
LEMMA NoJunk ==
    ASSUME NEW f \in Formats \ {"hybrid"}, NEW k \in KeyPairs, NEW p \in Plaintexts,
           NEW i \in 1 .. Len(First(f, k, p))
    PROVE  First(f, k, p)[i] \in Units /\ First(f, k, p)[i].part # "junk"
<1>1. \A j : RsaUnit(k, p, j).part = "rsa" /\ BodyUnit(p, j).part = "body"
  BY DEF RsaUnit, BodyUnit
<1>2. NonceUnit(p).part = "nonce" /\ LengthUnit(KeyUnits[k]).part = "length"
  BY DEF NonceUnit, LengthUnit
<1>3. KeyUnits[k] \in Nat
  BY PartsAreUnits
<1>4. First(f, k, p)[i] \in Units
  BY RsaPlaces, ElementOfSeq
<1>5. CASE f = "combined"
  <2> DEFINE w == First("combined", k, p)
  <2>1. /\ Len(w) = KeyUnits[k] + 3
        /\ \A j \in 1 .. KeyUnits[k] : w[j] = RsaUnit(k, p, j)
        /\ w[KeyUnits[k] + 1] = NonceUnit(p)
        /\ w[KeyUnits[k] + 2] = BodyUnit(p, 1) /\ w[KeyUnits[k] + 3] = BodyUnit(p, 2)
    BY CombinedLayout
  <2>2. \/ i \in 1 .. KeyUnits[k]
        \/ i = KeyUnits[k] + 1 \/ i = KeyUnits[k] + 2 \/ i = KeyUnits[k] + 3
    BY <1>3, <1>5, <2>1
  <2> HIDE DEF w
  <2>3. w[i].part # "junk"
    BY <1>1, <1>2, <2>1, <2>2
  <2> QED
    BY <1>4, <1>5, <2>3 DEF w
<1>6. CASE f = "csv_file"
  <2> DEFINE w == First("csv_file", k, p)
  <2>1. /\ Len(w) = KeyUnits[k] + 3 /\ w[1] = LengthUnit(KeyUnits[k])
        /\ \A j \in 1 .. KeyUnits[k] : w[j + 1] = RsaUnit(k, p, j)
        /\ w[KeyUnits[k] + 2] = BodyUnit(p, 1) /\ w[KeyUnits[k] + 3] = BodyUnit(p, 2)
    BY CsvLayout
  <2>2. \/ i = 1 \/ i - 1 \in 1 .. KeyUnits[k]
        \/ i = KeyUnits[k] + 2 \/ i = KeyUnits[k] + 3
    BY <1>3, <1>6, <2>1
  <2> HIDE DEF w
  <2>3. w[i].part # "junk"
    <3>1. CASE i - 1 \in 1 .. KeyUnits[k]
      <4>1. w[(i - 1) + 1] = RsaUnit(k, p, i - 1) /\ (i - 1) + 1 = i
        BY <2>1, <3>1
      <4> QED
        BY <1>1, <4>1
    <3> QED
      BY <1>1, <1>2, <2>1, <2>2, <3>1
  <2> QED
    BY <1>4, <1>6, <2>3 DEF w
<1>7. CASE f = "rsa"
  <2>1. i \in 1 .. KeyUnits[k] /\ First(f, k, p)[i] = RsaUnit(k, p, i)
    BY <1>7, RsaLayout, PartsAreUnits
  <2> QED
    BY <1>1, <1>4, <2>1
<1> QED
  BY <1>5, <1>6, <1>7 DEF Formats

\* What an altered field is: a sequence of units, which begins with a length where
\* that was the format, and no sealed message of any client.
LEMMA AlteredIsNotSealed ==
    ASSUME NEW f \in Formats \ {"hybrid"}, NEW k \in KeyPairs, NEW p \in Plaintexts,
           NEW m, FieldAltered(First(f, k, p), m)
    PROVE  /\ m \in Seq(Units)
           /\ f = "csv_file" /\ m # <<>> => m[1] \in [part : {"length"}, n : Int]
           /\ \A s \in KeyPairs, q \in Plaintexts : m # First(f, s, q)
<1> DEFINE w == First(f, k, p)
           r == Start(f)
<1>1. /\ w \in Seq(Units) /\ Len(w) \in Nat /\ Len(w) > r /\ DOMAIN w = 1 .. Len(w)
      /\ w[r] = RsaUnit(k, p, 1) /\ w[r + 1] = RsaUnit(k, p, 2)
      /\ f = "csv_file" => w[1] = LengthUnit(KeyUnits[k])
      /\ r \in Nat /\ r >= 1
  BY RsaPlaces DEF Start
<1>2. ASSUME NEW s \in KeyPairs, NEW q \in Plaintexts
      PROVE  /\ Len(First(f, s, q)) \in Nat /\ Len(First(f, s, q)) > r
             /\ First(f, s, q)[r] = RsaUnit(s, q, 1)
             /\ First(f, s, q)[r + 1] = RsaUnit(s, q, 2)
  BY RsaPlaces
<1>3. PICK i \in 1 .. Len(w) :
        \/ m = SubSeq(w, 1, i - 1)
        \/ \E u \in Replacements(w[i]) : m = [w EXCEPT ![i] = u]
  BY <1>1 DEF FieldAltered
<1>4. w[i] \in Units /\ w[i].part # "junk"
  BY <1>1, NoJunk
<1>5. /\ LengthUnit(KeyUnits[k]) \in [part : {"length"}, n : Int]
      /\ LengthUnit(KeyUnits[k]).part = "length"
  BY PartsAreUnits DEF LengthUnit
<1>6. CASE m = SubSeq(w, 1, i - 1)
  <2> HIDE DEF w, r
  <2>1. /\ m \in Seq(Units) /\ Len(m) = i - 1
        /\ \A j \in 1 .. i - 1 : m[j] = w[j]
    <3>1. \A j \in 1 .. i - 1 : w[j] \in Units
      BY <1>1, ElementOfSeq
    <3>2. /\ m \in Seq(Units)
          /\ Len(m) = IF 1 <= i - 1 THEN (i - 1) - 1 + 1 ELSE 0
          /\ \A j \in 1 .. (i - 1) - 1 + 1 : m[j] = w[1 + j - 1]
      BY <1>6, <3>1, SubSeqProperties
    <3> QED
      BY <1>1, <3>2
  <2>2. ASSUME m # <<>>, f = "csv_file"
        PROVE  m[1] \in [part : {"length"}, n : Int]
    <3>1. 1 \in 1 .. i - 1
      BY <1>1, <2>1, <2>2, EmptySeq
    <3> QED
      BY <1>1, <1>5, <2>1, <2>2, <3>1
  <2>3. ASSUME NEW s \in KeyPairs, NEW q \in Plaintexts, m = First(f, s, q)
        PROVE  FALSE
    <3>1. r \in 1 .. i - 1 /\ m[r] = RsaUnit(s, q, 1)
      BY <1>1, <1>2, <2>1, <2>3
    <3>2. RsaUnit(s, q, 1) = RsaUnit(k, p, 1)
      BY <1>1, <2>1, <3>1
    <3>3. s = k /\ q = p
      BY <3>2, UnitsDiffer
    <3>4. Len(m) = Len(w)
      BY <2>3, <3>3 DEF w
    <3> QED
      BY <1>1, <2>1, <3>4
  <2> QED
    BY <2>1, <2>2, <2>3
<1>7. ASSUME NEW u \in Replacements(w[i]), m = [w EXCEPT ![i] = u]
      PROVE  /\ m \in Seq(Units)
             /\ f = "csv_file" /\ m # <<>> => m[1] \in [part : {"length"}, n : Int]
             /\ \A s \in KeyPairs, q \in Plaintexts : m # First(f, s, q)
  <2> HIDE DEF w, r
  <2>1. u \in Units /\ u # w[i] /\ (w[i].part = "length" => u \in [part : {"length"}, n : Int])
    BY <1>4, <1>7, ReplacementDiffers
  <2>2. /\ m \in Seq(Units) /\ Len(m) = Len(w)
        /\ m[i] = u /\ \A j \in 1 .. Len(w) : j # i => m[j] = w[j]
    BY <1>1, <1>7, <2>1, ExceptSeq
  <2>3. f = "csv_file" => m[1] \in [part : {"length"}, n : Int]
    BY <1>1, <1>5, <2>1, <2>2
  <2>4. ASSUME NEW s \in KeyPairs, NEW q \in Plaintexts, m = First(f, s, q)
        PROVE  FALSE
    <3>1. r # i \/ r + 1 # i
      BY <1>1
    <3>2. r \in 1 .. Len(w) /\ r + 1 \in 1 .. Len(w)
      BY <1>1
    <3>3. /\ m[r] = RsaUnit(s, q, 1) /\ w[r] = RsaUnit(k, p, 1)
          /\ m[r + 1] = RsaUnit(s, q, 2) /\ w[r + 1] = RsaUnit(k, p, 2)
      BY <1>1, <1>2, <2>4
    <3>4. m[r] = w[r] \/ m[r + 1] = w[r + 1]
      BY <2>2, <3>1, <3>2
    <3>5. RsaUnit(s, q, 1) = RsaUnit(k, p, 1) \/ RsaUnit(s, q, 2) = RsaUnit(k, p, 2)
      BY <3>3, <3>4
    <3>6. s = k /\ q = p
      BY <3>5, UnitsDiffer
    <3>7. m = w
      BY <2>4, <3>6 DEF w
    <3> QED
      BY <2>1, <2>2, <3>7
  <2> QED
    BY <2>2, <2>3, <2>4
<1> QED
  BY <1>3, <1>6, <1>7

-----------------------------------------------------------------------------
(* What the service opens.                                                 *)

\* t holds the units i to e of m.
Piece(t, m, i, e) ==
    /\ Len(t) = IF i <= e THEN e - i + 1 ELSE 0
    /\ \A x \in 1 .. e - i + 1 : t[x] = m[i + x - 1]

\* A slice, unit by unit.
LEMMA SliceUnits ==
    ASSUME NEW m \in Seq(Units), NEW i \in Nat \ {0}, NEW j \in Int,
           NEW e \in Int, e = IF j < Len(m) THEN j ELSE Len(m)
    PROVE  Piece(Slice(m, i, j), m, i, e)
<1>1. Len(m) \in Nat /\ e <= Len(m)
  OBVIOUS
<1>2. \A x \in i .. e : m[x] \in Units
  BY <1>1, ElementOfSeq
<1>3. Slice(m, i, j) = SubSeq(m, i, e)
  BY DEF Slice
<1> QED
  BY <1>1, <1>2, <1>3, SubSeqProperties DEF Piece

\* The rest of a sequence, unit by unit.
LEMMA FromUnits ==
    ASSUME NEW m \in Seq(Units), NEW i \in Nat \ {0}
    PROVE  Piece(From(m, i), m, i, Len(m))
<1>1. Len(m) \in Nat
  OBVIOUS
<1>2. \A x \in i .. Len(m) : m[x] \in Units
  BY <1>1, ElementOfSeq
<1>3. From(m, i) = SubSeq(m, i, Len(m))
  BY DEF From
<1> QED
  BY <1>1, <1>2, <1>3, SubSeqProperties DEF Piece

\* t is the units i to j of m.
Matches(t, m, i, j) ==
    /\ i \in Nat \ {0} /\ j \in Nat /\ i <= j + 1 /\ j <= Len(m)
    /\ t \in Seq(Units) /\ Len(t) = j - i + 1
    /\ \A x \in 1 .. j - i + 1 : t[x] = m[i + x - 1]

\* Which slice it is.
LEMMA SliceIs ==
    ASSUME NEW m \in Seq(Units), NEW i, NEW j, NEW t, Matches(t, m, i, j)
    PROVE  Slice(m, i, j) = t
<1>1. /\ i \in Nat \ {0} /\ j \in Nat /\ i <= j + 1 /\ j <= Len(m)
      /\ t \in Seq(Units) /\ Len(t) = j - i + 1
      /\ \A x \in 1 .. j - i + 1 : t[x] = m[i + x - 1]
      /\ Len(m) \in Nat /\ j = IF j < Len(m) THEN j ELSE Len(m)
  BY DEF Matches
<1>2. \A x \in i .. j : m[x] \in Units
  BY <1>1, ElementOfSeq
<1> DEFINE s == SubSeq(m, i, j)
<1>3. Slice(m, i, j) = s
  BY <1>1 DEF Slice
<1>4. /\ s \in Seq(Units)
      /\ Len(s) = IF i <= j THEN j - i + 1 ELSE 0
      /\ \A x \in 1 .. j - i + 1 : s[x] = m[i + x - 1]
  BY <1>1, <1>2, SubSeqProperties
<1> HIDE DEF s
<1>5. Len(s) = Len(t) /\ \A x \in 1 .. Len(s) : s[x] = t[x]
  <2> DEFINE l == j - i + 1
  <2>1. /\ Len(s) = IF i <= j THEN l ELSE 0
        /\ i \in Nat /\ j \in Nat /\ i <= j + 1
    BY ONLY <1>1, <1>4
  <2>2. Len(s) = l
    BY ONLY <2>1
  <2>3. Len(t) = l /\ \A x \in 1 .. l : s[x] = m[i + x - 1] /\ t[x] = m[i + x - 1]
    BY ONLY <1>1, <1>4, Zenon
  <2> HIDE DEF l
  <2>4. Len(s) = Len(t)
    BY ONLY <2>2, <2>3
  <2>5. \A x \in 1 .. l : s[x] = t[x]
    BY ONLY <2>3, Zenon
  <2> QED
    BY ONLY <2>2, <2>4, <2>5
<1> QED
  BY <1>1, <1>3, <1>4, <1>5, SeqEqual

\* Which rest it is.
LEMMA FromIs ==
    ASSUME NEW m \in Seq(Units), NEW i, NEW t, Matches(t, m, i, Len(m))
    PROVE  From(m, i) = t
<1>1. Slice(m, i, Len(m)) = t
  BY SliceIs
<1> QED
  BY <1>1 DEF Slice, From

\* What opens in the combined format is a sealed message.
LEMMA CombinedOpened ==
    ASSUME NEW s \in KeyPairs, NEW q \in Plaintexts, NEW m \in Seq(Units),
           Slice(m, 1, KeyUnits[s]) = RsaUnits(s, q),
           Slice(m, KeyUnits[s] + 1, KeyUnits[s] + 1) = Nonce(q),
           From(m, KeyUnits[s] + 2) = BodyUnits(q)
    PROVE  m = First("combined", s, q)
<1> DEFINE w == First("combined", s, q)
           n == KeyUnits[s]
<1>1. /\ w \in Seq(Units) /\ Len(w) = n + 3
      /\ \A i \in 1 .. n : w[i] = RsaUnit(s, q, i)
      /\ w[n + 1] = NonceUnit(q) /\ w[n + 2] = BodyUnit(q, 1) /\ w[n + 3] = BodyUnit(q, 2)
  BY CombinedLayout
<1>2. /\ n \in Nat /\ n >= 2
      /\ Len(RsaUnits(s, q)) = n /\ \A i \in 1 .. n : RsaUnits(s, q)[i] = RsaUnit(s, q, i)
      /\ Nonce(q)[1] = NonceUnit(q) /\ Len(BodyUnits(q)) = 2
      /\ BodyUnits(q)[1] = BodyUnit(q, 1) /\ BodyUnits(q)[2] = BodyUnit(q, 2)
      /\ Len(Nonce(q)) = 1
  BY PartsAreUnits
<1> DEFINE a == Slice(m, 1, n)
           b == Slice(m, n + 1, n + 1)
           c == From(m, n + 2)
<1>3. a = RsaUnits(s, q) /\ b = Nonce(q) /\ c = BodyUnits(q)
  OBVIOUS
<1> HIDE DEF w, n
<1>4. /\ Len(c) = IF n + 2 <= Len(m) THEN Len(m) - (n + 2) + 1 ELSE 0
      /\ \A x \in 1 .. Len(m) - (n + 2) + 1 : c[x] = m[(n + 2) + x - 1]
  <2>1. n + 2 \in Nat \ {0}
    BY <1>2
  <2>2. Piece(c, m, n + 2, Len(m))
    BY <2>1, FromUnits
  <2> QED
    BY <2>2 DEF Piece
<1>5. Len(m) \in Nat /\ Len(m) = n + 3
  BY <1>2, <1>3, <1>4
<1>6. \A x \in 1 .. n : a[x] = m[x]
  <2>1. \A x \in 1 .. n - 1 + 1 : a[x] = m[1 + x - 1]
    <3>1. n = (IF n < Len(m) THEN n ELSE Len(m)) /\ n \in Int /\ 1 \in Nat \ {0}
      BY <1>2, <1>5
    <3>2. Piece(a, m, 1, n)
      BY <3>1, SliceUnits
    <3> QED
      BY <3>2 DEF Piece
  <2> QED
    BY <1>2, <2>1
<1>7. b[1] = m[n + 1]
  <2>1. \A x \in 1 .. (n + 1) - (n + 1) + 1 : b[x] = m[(n + 1) + x - 1]
    <3>1. /\ n + 1 = IF n + 1 < Len(m) THEN n + 1 ELSE Len(m)
          /\ n + 1 \in Int /\ n + 1 \in Nat \ {0}
      BY <1>2, <1>5
    <3>2. Piece(b, m, n + 1, n + 1)
      BY <3>1, SliceUnits
    <3> QED
      BY <3>2 DEF Piece
  <2> QED
    BY <1>2, <2>1
<1>8. c[1] = m[n + 2] /\ c[2] = m[n + 3]
  BY <1>2, <1>4, <1>5
<1> HIDE DEF a, b, c
<1>9. \A i \in 1 .. n + 3 : m[i] = w[i]
  <2> TAKE i \in 1 .. n + 3
  <2>1. i \in 1 .. n \/ i = n + 1 \/ i = n + 2 \/ i = n + 3
    BY <1>2
  <2> QED
    BY <1>1, <1>2, <1>3, <1>6, <1>7, <1>8, <2>1
<1>10. m = w
  BY <1>1, <1>5, <1>9, SeqEqual
<1> QED
  BY <1>10 DEF w

\* What opens as a CSV file is a sealed message.
LEMMA CsvOpened ==
    ASSUME NEW s \in KeyPairs, NEW q \in Plaintexts, NEW m \in Seq(Units),
           m[1] \in [part : {"length"}, n : Int],
           Slice(m, 2, 1 + m[1].n) = RsaUnits(s, q),
           From(m, 2 + m[1].n) = BodyUnits(q)
    PROVE  m = First("csv_file", s, q)
<1> DEFINE w == First("csv_file", s, q)
           n == KeyUnits[s]
           l == m[1].n
<1>1. /\ w \in Seq(Units) /\ Len(w) = n + 3 /\ w[1] = LengthUnit(n)
      /\ \A i \in 1 .. n : w[i + 1] = RsaUnit(s, q, i)
      /\ w[n + 2] = BodyUnit(q, 1) /\ w[n + 3] = BodyUnit(q, 2)
  BY CsvLayout
<1>2. /\ n \in Nat /\ n >= 2
      /\ Len(RsaUnits(s, q)) = n /\ \A i \in 1 .. n : RsaUnits(s, q)[i] = RsaUnit(s, q, i)
      /\ Len(BodyUnits(q)) = 2
      /\ BodyUnits(q)[1] = BodyUnit(q, 1) /\ BodyUnits(q)[2] = BodyUnit(q, 2)
  BY PartsAreUnits
<1>3. l \in Int /\ m[1] = LengthUnit(l)
  BY DEF LengthUnit
<1> DEFINE a == Slice(m, 2, 1 + l)
           c == From(m, 2 + l)
           e == IF 1 + l < Len(m) THEN 1 + l ELSE Len(m)
<1>4. a = RsaUnits(s, q) /\ c = BodyUnits(q)
  OBVIOUS
<1> HIDE DEF w, n, l
<1>5. /\ e \in Int /\ e <= 1 + l /\ (e = 1 + l \/ e = Len(m)) /\ Len(m) \in Nat
      /\ Len(a) = IF 2 <= e THEN e - 2 + 1 ELSE 0
      /\ \A x \in 1 .. e - 2 + 1 : a[x] = m[2 + x - 1]
  <2>1. /\ 1 + l \in Int /\ 2 \in Nat \ {0} /\ Len(m) \in Nat
        /\ e \in Int /\ e <= 1 + l /\ (e = 1 + l \/ e = Len(m))
    BY <1>3
  <2>2. Piece(a, m, 2, e)
    BY <2>1, SliceUnits
  <2> HIDE DEF a, e
  <2> QED
    BY <2>1, <2>2 DEF Piece
<1>6. e = n + 1 /\ 2 + l \in Nat \ {0}
  BY <1>2, <1>3, <1>4, <1>5
<1>7. /\ Len(c) = IF 2 + l <= Len(m) THEN Len(m) - (2 + l) + 1 ELSE 0
      /\ \A x \in 1 .. Len(m) - (2 + l) + 1 : c[x] = m[(2 + l) + x - 1]
  <2>1. Piece(c, m, 2 + l, Len(m))
    BY <1>6, FromUnits
  <2> QED
    BY <2>1 DEF Piece
<1> HIDE DEF a, c, e
<1>8. l = n /\ Len(m) \in Nat /\ Len(m) = n + 3
  <2>1. Len(c) = 2
    BY <1>2, <1>4
  <2>2. Len(m) = l + 3
    <3>1. Len(c) = IF 2 + l <= Len(m) THEN Len(m) - (2 + l) + 1 ELSE 0
      BY <1>7
    <3>2. l \in Int /\ Len(m) \in Nat
      BY <1>3, <1>5
    <3>3. \A x \in Nat, y \in Int : 2 = (IF 2 + y <= x THEN x - (2 + y) + 1 ELSE 0) => x = y + 3
      OBVIOUS
    <3> QED
      BY <2>1, <3>1, <3>2, <3>3, Zenon
  <2> QED
    BY <1>2, <1>3, <1>5, <1>6, <2>2
<1>9. c[1] = m[n + 2] /\ c[2] = m[n + 3]
  BY <1>2, <1>7, <1>8
<1>10. \A x \in 1 .. n : a[x] = m[x + 1]
  <2> TAKE x \in 1 .. n
  <2>1. x \in 1 .. e - 2 + 1 /\ 2 + x - 1 = x + 1
    BY <1>2, <1>6
  <2> QED
    BY <1>5, <2>1
<1>11. \A i \in 1 .. n + 3 : m[i] = w[i]
  <2> TAKE i \in 1 .. n + 3
  <2>1. CASE i - 1 \in 1 .. n
    <3>1. (i - 1) + 1 = i /\ a[i - 1] = m[(i - 1) + 1] /\ w[(i - 1) + 1] = RsaUnit(s, q, i - 1)
      BY <1>1, <1>2, <1>10, <2>1
    <3> QED
      BY <1>2, <1>4, <2>1, <3>1
  <2>2. i = 1 \/ i - 1 \in 1 .. n \/ i = n + 2 \/ i = n + 3
    BY <1>2
  <2> QED
    BY <1>1, <1>2, <1>3, <1>4, <1>8, <1>9, <2>1, <2>2
<1>12. m = w
  BY <1>1, <1>8, <1>11, SeqEqual
<1> QED
  BY <1>12 DEF w

\* A sealed message gives its parts back.
LEMMA SealedOpens ==
    ASSUME NEW f \in Formats, NEW k \in KeyPairs, NEW p \in Plaintexts,
           message = Seal(f, k, p)
    PROVE  KeyPart(f, k) = RsaUnits(k, p) /\ Authenticates(f, p, k)
<1> DEFINE n == KeyUnits[k]
<1>1. /\ n \in Nat /\ n >= 2
      /\ RsaUnits(k, p) \in Seq(Units) /\ Len(RsaUnits(k, p)) = n
      /\ \A i \in 1 .. n : RsaUnits(k, p)[i] = RsaUnit(k, p, i)
      /\ Nonce(p) \in Seq(Units) /\ Len(Nonce(p)) = 1 /\ Nonce(p)[1] = NonceUnit(p)
      /\ BodyUnits(p) \in Seq(Units) /\ Len(BodyUnits(p)) = 2
      /\ BodyUnits(p)[1] = BodyUnit(p, 1) /\ BodyUnits(p)[2] = BodyUnit(p, 2)
  BY PartsAreUnits
<1> HIDE DEF n
<1>2. CASE f = "combined"
  <2> DEFINE w == First("combined", k, p)
  <2>1. /\ w \in Seq(Units) /\ Len(w) = n + 3 /\ message = <<w>>
        /\ \A i \in 1 .. n : w[i] = RsaUnit(k, p, i)
        /\ w[n + 1] = NonceUnit(p) /\ w[n + 2] = BodyUnit(p, 1) /\ w[n + 3] = BodyUnit(p, 2)
    BY <1>2, CombinedLayout DEF n
  <2> HIDE DEF w
  <2>2. Slice(w, 1, n) = RsaUnits(k, p)
    <3>1. Matches(RsaUnits(k, p), w, 1, n)
      BY <1>1, <2>1 DEF Matches
    <3> QED
      BY <2>1, <3>1, SliceIs
  <2>3. Slice(w, n + 1, n + 1) = Nonce(p)
    <3>1. Matches(Nonce(p), w, n + 1, n + 1)
      BY <1>1, <2>1 DEF Matches
    <3> QED
      BY <2>1, <3>1, SliceIs
  <2>4. From(w, n + 2) = BodyUnits(p)
    <3>1. Matches(BodyUnits(p), w, n + 2, Len(w))
      BY <1>1, <2>1 DEF Matches
    <3> QED
      BY <2>1, <3>1, FromIs
  <2>5. message[1] = w
    BY <2>1
  <2> QED
    BY <1>2, <2>2, <2>3, <2>4, <2>5 DEF KeyPart, Authenticates, NoncePart, BodyPart, n
<1>3. CASE f = "csv_file"
  <2> DEFINE w == First("csv_file", k, p)
  <2>1. /\ w \in Seq(Units) /\ Len(w) = n + 3 /\ message = <<w>> /\ w[1] = LengthUnit(n)
        /\ \A i \in 1 .. n : w[i + 1] = RsaUnit(k, p, i)
        /\ w[n + 2] = BodyUnit(p, 1) /\ w[n + 3] = BodyUnit(p, 2)
    BY <1>3, CsvLayout DEF n
  <2> HIDE DEF w
  <2>2. message[1] = w /\ w # <<>>
    BY <1>1, <2>1
  <2>3. Announced = n
    BY <2>1, <2>2, UnitsDiffer DEF Announced
  <2>4. Slice(w, 2, 1 + n) = RsaUnits(k, p)
    <3>1. \A x \in 1 .. n : RsaUnits(k, p)[x] = w[2 + x - 1]
      <4> TAKE x \in 1 .. n
      <4>1. 2 + x - 1 = x + 1
        BY <1>1
      <4> QED
        BY <1>1, <2>1, <4>1
    <3>2. Matches(RsaUnits(k, p), w, 2, 1 + n)
      BY <1>1, <2>1, <3>1 DEF Matches
    <3> QED
      BY <2>1, <3>2, SliceIs
  <2>5. From(w, 2 + n) = BodyUnits(p)
    <3>1. Matches(BodyUnits(p), w, 2 + n, Len(w))
      BY <1>1, <2>1 DEF Matches
    <3> QED
      BY <2>1, <3>1, FromIs
  <2> QED
    BY <1>3, <2>2, <2>3, <2>4, <2>5 DEF KeyPart, Authenticates, BodyPart
<1>4. CASE f = "rsa"
  <2>1. message[1] = RsaUnits(k, p)
    BY <1>4, RsaLayout
  <2> QED
    BY <1>4, <2>1 DEF KeyPart, Authenticates
<1>5. CASE f = "hybrid"
  <2> DEFINE v == Nonce(p) \o BodyUnits(p)
  <2>1. Joins(v, Nonce(p), BodyUnits(p))
    BY <1>1, Joined
  <2>2. message[1] = RsaUnits(k, p) /\ message[2] = v
    BY <1>5, RsaLayout
  <2> HIDE DEF v
  <2>3. /\ v \in Seq(Units) /\ Len(v) = 3
        /\ v[1] = NonceUnit(p) /\ v[2] = BodyUnit(p, 1) /\ v[3] = BodyUnit(p, 2)
    BY <1>1, <2>1 DEF Joins
  <2>4. Slice(v, 1, 1) = Nonce(p)
    <3>1. Matches(Nonce(p), v, 1, 1)
      BY <1>1, <2>3 DEF Matches
    <3> QED
      BY <2>3, <3>1, SliceIs
  <2>5. From(v, 2) = BodyUnits(p)
    <3>1. Matches(BodyUnits(p), v, 2, Len(v))
      BY <1>1, <2>3 DEF Matches
    <3> QED
      BY <2>3, <3>1, FromIs
  <2> QED
    BY <1>5, <2>2, <2>4, <2>5 DEF KeyPart, Authenticates, NoncePart, BodyPart
<1> QED
  BY <1>2, <1>3, <1>4, <1>5 DEF Formats

\* What opens in a format with a tag, or in the RSA format, is a sealed message.
LEMMA OpenedIsSealed ==
    ASSUME NEW f \in Formats \ {"hybrid"}, NEW s \in KeyPairs, NEW q \in Plaintexts,
           message[1] \in Seq(Units),
           f = "csv_file" /\ message[1] # <<>> => message[1][1] \in [part : {"length"}, n : Int],
           KeyPart(f, s) = RsaUnits(s, q), Authenticates(f, q, s)
    PROVE  message[1] = First(f, s, q)
<1>1. CASE f = "combined"
  <2>1. /\ Slice(message[1], 1, KeyUnits[s]) = RsaUnits(s, q)
        /\ Slice(message[1], KeyUnits[s] + 1, KeyUnits[s] + 1) = Nonce(q)
        /\ From(message[1], KeyUnits[s] + 2) = BodyUnits(q)
    BY <1>1 DEF KeyPart, Authenticates, NoncePart, BodyPart
  <2> QED
    BY <1>1, <2>1, CombinedOpened
<1>2. CASE f = "csv_file"
  <2>1. /\ Slice(message[1], 2, 1 + Announced) = RsaUnits(s, q)
        /\ From(message[1], 2 + Announced) = BodyUnits(q)
    BY <1>2 DEF KeyPart, Authenticates, BodyPart
  <2>2. ASSUME message[1] = <<>>
        PROVE  FALSE
    <3>1. Announced = 0 /\ Len(message[1]) = 0
      BY <2>2 DEF Announced
    <3>2. Piece(Slice(message[1], 2, 1), message[1], 2, 0)
      <4>1. /\ 2 \in Nat \ {0} /\ 1 \in Int /\ 0 \in Int
            /\ 0 = IF 1 < Len(message[1]) THEN 1 ELSE Len(message[1])
        BY <3>1
      <4> QED
        BY <4>1, SliceUnits
    <3>3. Len(RsaUnits(s, q)) = 0
      BY <2>1, <3>1, <3>2 DEF Piece
    <3> QED
      BY <3>3, PartsAreUnits
  <2>3. Announced = message[1][1].n
    BY <2>2 DEF Announced
  <2> QED
    BY <1>2, <2>1, <2>2, <2>3, CsvOpened
<1>3. CASE f = "rsa"
  BY <1>3, RsaLayout DEF KeyPart
<1> QED
  BY <1>1, <1>2, <1>3 DEF Formats

\* A message that is not sealed to a key pair is refused with it.
LEMMA UnsealedRefused ==
    ASSUME NEW f \in Formats \ {"hybrid"}, NEW s \in KeyPairs,
           message[1] \in Seq(Units),
           f = "csv_file" /\ message[1] # <<>> => message[1][1] \in [part : {"length"}, n : Int],
           \A q \in Plaintexts : message[1] # First(f, s, q)
    PROVE  Outcomes(f, s) = {Refusal}
<1>1. s # NoKey
  BY DecryptAssumption
<1>2. CASE OaepOpens(f, s) = {}
  BY <1>1, <1>2 DEF Outcomes
<1>3. CASE OaepOpens(f, s) # {}
  <2> DEFINE p == CHOOSE q \in OaepOpens(f, s) : TRUE
  <2>1. p \in Plaintexts /\ KeyPart(f, s) = RsaUnits(s, p)
    BY <1>3 DEF OaepOpens
  <2> HIDE DEF p
  <2>2. ~ Authenticates(f, p, s)
    BY <2>1, OpenedIsSealed
  <2> QED
    BY <1>1, <1>3, <2>2 DEF Outcomes, p
<1> QED
  BY <1>2, <1>3

\* A sealed message is opened with the key pair it was sealed to, in every format.
LEMMA SealedAccepted ==
    ASSUME NEW f \in Formats, NEW k \in KeyPairs, NEW p \in Plaintexts,
           message = Seal(f, k, p)
    PROVE  Outcomes(f, k) = {Success(p)}
<1>1. KeyPart(f, k) = RsaUnits(k, p) /\ Authenticates(f, p, k) /\ k # NoKey
  BY SealedOpens, DecryptAssumption
<1>2. OaepOpens(f, k) = {p}
  <2>1. ASSUME NEW q \in Plaintexts, RsaUnits(k, q) = RsaUnits(k, p)
        PROVE  q = p
    <3>1. 1 \in 1 .. KeyUnits[k]
      BY PartsAreUnits
    <3>2. RsaUnits(k, q)[1] = RsaUnit(k, q, 1) /\ RsaUnits(k, p)[1] = RsaUnit(k, p, 1)
      BY <3>1, PartsAreUnits
    <3> QED
      BY <2>1, <3>2, UnitsDiffer
  <2> QED
    BY <1>1, <2>1 DEF OaepOpens
<1>3. (CHOOSE q \in OaepOpens(f, k) : TRUE) = p
  BY <1>2
<1> QED
  BY <1>1, <1>2, <1>3 DEF Outcomes

\* A sealed message is refused with every other key pair.
LEMMA OthersRefused ==
    ASSUME NEW f \in Formats \ {"hybrid"}, NEW k \in KeyPairs, NEW p \in Plaintexts,
           message = Seal(f, k, p), NEW s \in KeyPairs, s # k
    PROVE  Outcomes(f, s) = {Refusal}
<1>1. message[1] = First(f, k, p)
  BY DEF First
<1>2. /\ First(f, k, p) \in Seq(Units)
      /\ First(f, k, p)[Start(f)] = RsaUnit(k, p, 1)
      /\ f = "csv_file" => First(f, k, p)[1] = LengthUnit(KeyUnits[k])
  BY RsaPlaces
<1>3. ASSUME NEW q \in Plaintexts
      PROVE  First(f, k, p) # First(f, s, q)
  <2>1. First(f, s, q)[Start(f)] = RsaUnit(s, q, 1)
    BY RsaPlaces
  <2> QED
    BY <1>2, <2>1, UnitsDiffer
<1>4. LengthUnit(KeyUnits[k]) \in [part : {"length"}, n : Int]
  BY PartsAreUnits DEF LengthUnit
<1> QED
  BY <1>1, <1>2, <1>3, <1>4, UnsealedRefused

-----------------------------------------------------------------------------
(* The invariant.                                                          *)

Sealings == [kind : Formats, key : KeyPairs, data : Plaintexts]

DecInv ==
    /\ session \in KeyPairs \cup {NoKey}
    /\ touched \in BOOLEAN
    /\ sealed = None => ~ touched /\ outcome = None
    /\ sealed # None =>
          /\ sealed \in Sealings
          /\ ~ touched => message = Seal(sealed.kind, sealed.key, sealed.data)
          /\ touched => Altered(Seal(sealed.kind, sealed.key, sealed.data), message)
    /\ outcome # None => outcome \in Outcomes(sealed.kind, session) \cup FileFailures(sealed.kind)

\* What was sealed is told apart from nothing by its format.
LEMMA SealingIsNotNone ==
    ASSUME NEW c \in Sealings
    PROVE  c # None
<1>1. None.kind = "none" /\ c.kind \in Formats
  BY DEF None, Sealings
<1> QED
  BY <1>1 DEF Formats

\* Every step of the client, the transport, the session and the service keeps DecInv.
LEMMA DecStep ==
    ASSUME DecInv, [DecNext]_decVars
    PROVE  DecInv'
<1>1. ASSUME NEW f \in Formats, NEW k \in KeyPairs, NEW p \in Plaintexts, ClientSeals(f, k, p)
      PROVE  DecInv'
  <2>1. /\ sealed = None /\ sealed' = [kind |-> f, key |-> k, data |-> p]
        /\ message' = Seal(f, k, p) /\ session' = session /\ touched' = touched
        /\ outcome' = outcome
    BY <1>1 DEF ClientSeals
  <2>2. /\ sealed' \in Sealings
        /\ sealed'.kind = f /\ sealed'.key = k /\ sealed'.data = p
    BY <2>1 DEF Sealings
  <2>3. ~ touched' /\ outcome' = None /\ touched' \in BOOLEAN
    BY <2>1 DEF DecInv
  <2>4. sealed' # None
    BY <2>2, SealingIsNotNone
  <2> QED
    BY <2>1, <2>2, <2>3, <2>4 DEF DecInv
<1>2. CASE SessionChanges
  <2>1. /\ outcome = None /\ outcome' = outcome /\ sealed' = sealed
        /\ message' = message /\ touched' = touched
        /\ session' \in KeyPairs \cup {NoKey}
    BY <1>2 DEF SessionChanges
  <2> QED
    BY <2>1 DEF DecInv
<1>3. CASE MessageChanges
  <2>1. /\ sealed # None /\ ~ touched /\ outcome = None /\ touched' = TRUE
        /\ session' = session /\ sealed' = sealed /\ outcome' = outcome
        /\ Altered(message, message')
    BY <1>3 DEF MessageChanges, Altered
  <2>2. sealed \in Sealings /\ message = Seal(sealed.kind, sealed.key, sealed.data)
    BY <2>1 DEF DecInv
  <2> QED
    BY <2>1, <2>2 DEF DecInv
<1>4. CASE Decrypt
  <2>1. /\ sealed # None
        /\ outcome' \in Outcomes(sealed.kind, session) \cup FileFailures(sealed.kind)
        /\ session' = session /\ sealed' = sealed /\ message' = message
        /\ touched' = touched
    BY <1>4 DEF Decrypt
  <2>2. Outcomes(sealed.kind, session)' = Outcomes(sealed.kind, session)
    BY <2>1 DEF Outcomes, OaepOpens, KeyPart, Authenticates, NoncePart, BodyPart, Announced
  <2> QED
    BY <2>1, <2>2 DEF DecInv
<1>5. CASE UNCHANGED decVars
  <2>1. /\ session' = session /\ sealed' = sealed /\ message' = message
        /\ touched' = touched /\ outcome' = outcome
    BY <1>5 DEF decVars
  <2>2. Outcomes(sealed.kind, session)' = Outcomes(sealed.kind, session)
    BY <2>1 DEF Outcomes, OaepOpens, KeyPart, Authenticates, NoncePart, BodyPart, Announced
  <2> QED
    BY <2>1, <2>2 DEF DecInv
<1> QED
  BY <1>1, <1>2, <1>3, <1>4, <1>5 DEF DecNext

\* What DecInv says of an outcome.
LEMMA InvGivesOpened ==
    ASSUME DecInv
    PROVE  OpenedAsSent
<1>1. CASE outcome = None
  <2>1. None.kind # "success"
    BY DEF None
  <2> QED
    BY <1>1, <2>1 DEF OpenedAsSent, OnlyAuthentic, IntactIsOpened
<1>2. CASE outcome # None
  <2> DEFINE f == sealed.kind
             k == sealed.key
             p == sealed.data
  <2>1. /\ f \in Formats /\ k \in KeyPairs /\ p \in Plaintexts
        /\ ~ touched => message = Seal(f, k, p)
        /\ touched => Altered(Seal(f, k, p), message)
        /\ outcome \in Outcomes(f, session) \cup FileFailures(f)
        /\ session \in KeyPairs \cup {NoKey}
    BY <1>2 DEF DecInv, Sealings
  <2>2. /\ Refusal.kind # "success"
        /\ \A d : Success(d).data = d
        /\ \A o \in FileFailures(f) : o.kind # "success"
    BY DEF Refusal, Success, FileFailures
  <2>3. IntactIsOpened
    <3>1. ASSUME ~ touched, k = session
          PROVE  outcome \in {Success(p)} \cup FileFailures(f)
      <4>1. Outcomes(f, k) = {Success(p)}
        BY <2>1, <3>1, SealedAccepted
      <4> QED
        BY <2>1, <3>1, <4>1
    <3> QED
      BY <3>1 DEF IntactIsOpened
  <2>4. ASSUME outcome.kind = "success", f # "hybrid"
        PROVE  k = session /\ ~ touched /\ outcome.data = p
    <3>1. session \in KeyPairs
      <4>1. session # NoKey
        <5>1. ASSUME session = NoKey
              PROVE  outcome \in {Refusal} \cup FileFailures(f)
          BY <2>1, <5>1 DEF Outcomes
        <5> QED
          BY <2>2, <2>4, <5>1
      <4> QED
        BY <2>1, <4>1
    <3>2. ASSUME touched
          PROVE  FALSE
      <4>1. Seal(f, k, p) = <<First(f, k, p)>>
        BY <2>1, <2>4, RsaPlaces
      <4>2. FieldAltered(First(f, k, p), message[1])
        BY <2>1, <3>2, <4>1, OneField
      <4>3. /\ message[1] \in Seq(Units)
            /\ f = "csv_file" /\ message[1] # <<>>
                 => message[1][1] \in [part : {"length"}, n : Int]
            /\ \A s \in KeyPairs, q \in Plaintexts : message[1] # First(f, s, q)
        BY <2>1, <2>4, <4>2, AlteredIsNotSealed
      <4>4. Outcomes(f, session) = {Refusal}
        BY <2>1, <2>4, <3>1, <4>3, UnsealedRefused
      <4> QED
        BY <2>1, <2>2, <2>4, <4>4
    <3>3. k = session
      <4>1. ASSUME k # session
            PROVE  Outcomes(f, session) = {Refusal}
        BY <2>1, <2>4, <3>1, <3>2, <4>1, OthersRefused
      <4> QED
        BY <2>1, <2>2, <2>4, <4>1
    <3>4. outcome = Success(p)
      BY <1>2, <2>2, <2>3, <2>4, <3>2, <3>3 DEF IntactIsOpened
    <3> QED
      BY <2>2, <3>2, <3>3, <3>4
  <2> QED
    BY <2>3, <2>4 DEF OpenedAsSent, OnlyAuthentic
<1> QED
  BY <1>1, <1>2

\* The decrypt service keeps DecInv: the message is the sealed one or an alteration of
\* it, and the outcome is one of those the code computes from the message and the session.
THEOREM DecryptInvariant == DecSpec => []DecInv
<1>1. DecInit => DecInv
  BY DEF DecInit, DecInv
<1>2. DecInv /\ [DecNext]_decVars => DecInv'
  BY DecStep
<1> QED
  BY <1>1, <1>2, PTL DEF DecSpec

\* decrypt_combined_hybrid_data and the legacy calls return what the client encrypted
\* to the session's key pair, whatever its size, or nothing; of the formats only the
\* one without a tag returns anything for a message that was altered.
THEOREM DecryptedAsSent == DecSpec => []OpenedAsSent
  BY DecryptInvariant, InvGivesOpened, PTL

=============================================================================
