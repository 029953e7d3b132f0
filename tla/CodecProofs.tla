----------------------------- MODULE CodecProofs -----------------------------
(* What encoding and decoding compute, for every message and every frame.      *)
EXTENDS Codec, TLAPS, WellFoundedInduction, SequenceTheorems, FiniteSetTheorems

------------------------------------------------------------------------------
(* Induction, by a least counterexample.                                       *)

(* A set of numbers that is not empty has a least member.                      *)
LEMMA LeastMember ==
    ASSUME NEW S \in SUBSET Nat, S # {}
    PROVE  \E m \in S : \A k \in S : m <= k
<1>1. PICK m \in S : \A k \in S : ~(<<k, m>> \in OpToRel(<, Nat))
  BY NatLessThanWellFounded, WFMin
<1>2. \A k \in S : ~(k < m)
  BY <1>1 DEF OpToRel
<1>3. m \in Nat /\ \A k \in S : k \in Nat
  OBVIOUS
<1>4. \A k \in S : m <= k
  BY <1>2, <1>3
<1> QED
  BY <1>4

(* A set with 0, and with k + 1 if with k, has every number up to n.           *)
LEMMA Induction ==
    ASSUME NEW n \in Nat, NEW S, 0 \in S,
           \A k \in 0 .. n - 1 : k \in S => k + 1 \in S
    PROVE  \A k \in 0 .. n : k \in S
<1>1. SUFFICES ASSUME {k \in 0 .. n : k \notin S} # {} PROVE FALSE
  OBVIOUS
<1>2. PICK m \in 0 .. n : m \notin S /\ \A k \in 0 .. n : k \notin S => m <= k
  <2>1. {k \in 0 .. n : k \notin S} \in SUBSET Nat
    OBVIOUS
  <2> QED
    BY <1>1, <2>1, LeastMember
<1>3. m # 0
  BY <1>2
<1>4. m - 1 \in 0 .. n - 1 /\ (m - 1) + 1 = m /\ ~(m <= m - 1) /\ m - 1 \in 0 .. n
  BY <1>2, <1>3
<1> QED
  BY <1>2, <1>4

------------------------------------------------------------------------------
(* Flattened sequences.                                                        *)

(* What FlattenSeq has after each of the sequences.                            *)
Joins(f, n, seqs) == f[0] = <<>> /\ \A i \in 1 .. n : f[i] = f[i - 1] \o seqs[i]

LEMMA JoinsExists ==
    ASSUME NEW S, NEW n \in Nat, NEW seqs \in [1 .. n -> Seq(S)]
    PROVE  \E f \in [0 .. n -> Seq(S)] : Joins(f, n, seqs)
<1> DEFINE Good == {k \in 0 .. n : \E f \in [0 .. k -> Seq(S)] : Joins(f, k, seqs)}
<1>1. 0 \in Good
  <2>1. PICK empty \in Seq(S) : empty = <<>>
    BY EmptySeq
  <2>2. PICK f : f = [i \in 0 .. 0 |-> empty]
    OBVIOUS
  <2>3. f \in [0 .. 0 -> Seq(S)] /\ f[0] = <<>> /\ 1 .. 0 = {}
    BY <2>1, <2>2
  <2>4. Joins(f, 0, seqs) /\ 0 \in 0 .. n
    BY <2>3 DEF Joins
  <2> QED
    BY <2>3, <2>4
<1>2. ASSUME NEW k \in 0 .. n - 1, k \in Good PROVE k + 1 \in Good
  <2>1. PICK f \in [0 .. k -> Seq(S)] : Joins(f, k, seqs)
    BY <1>2
  <2>2. PICK g : g = [i \in 0 .. k + 1 |-> IF i = k + 1 THEN f[k] \o seqs[k + 1] ELSE f[i]]
    OBVIOUS
  <2>3. k \in 0 .. k /\ k + 1 \in 1 .. n /\ k + 1 \in 0 .. n
    OBVIOUS
  <2>4. f[k] \o seqs[k + 1] \in Seq(S)
    BY <2>3, ConcatProperties
  <2>5. g \in [0 .. k + 1 -> Seq(S)]
    BY <2>2, <2>4
  <2>6. g[0] = <<>>
    BY <2>1, <2>2 DEF Joins
  <2>7. ASSUME NEW i \in 1 .. k + 1 PROVE g[i] = g[i - 1] \o seqs[i]
    <3>1. i - 1 \in 0 .. k /\ i - 1 # k + 1
      OBVIOUS
    <3>2. g[i - 1] = f[i - 1]
      BY <2>2, <3>1
    <3>3. CASE i = k + 1
      <4>1. g[i] = f[k] \o seqs[k + 1] /\ i - 1 = k
        BY <2>2, <3>3
      <4> QED
        BY <3>2, <3>3, <4>1
    <3>4. CASE i # k + 1
      <4>1. g[i] = f[i] /\ i \in 1 .. k
        BY <2>2, <3>4
      <4> QED
        BY <2>1, <3>2, <4>1 DEF Joins
    <3> QED
      BY <3>3, <3>4
  <2>8. Joins(g, k + 1, seqs)
    BY <2>6, <2>7 DEF Joins
  <2> QED
    BY <2>3, <2>5, <2>8
<1> HIDE DEF Good
<1>3. \A k \in 0 .. n : k \in Good
  BY <1>1, <1>2, Induction
<1>4. n \in 0 .. n
  OBVIOUS
<1>5. n \in Good
  BY <1>3, <1>4
<1> QED
  BY <1>5 DEF Good

(* FlattenSeq is the last of them.                                             *)
LEMMA FlattenIs ==
    ASSUME NEW S, NEW n \in Nat, NEW seqs \in [1 .. n -> Seq(S)]
    PROVE  \E f \in [0 .. n -> Seq(S)] : Joins(f, n, seqs) /\ FlattenSeq(seqs) = f[n]
<1>1. PICK f \in [0 .. n -> Seq(S)] : Joins(f, n, seqs)
  BY JoinsExists
<1>2. seqs \in Seq(Seq(S)) /\ Len(seqs) = n
  OBVIOUS
<1>3. CASE n = 0
  <2>1. seqs = <<>>
    BY <1>2, <1>3, EmptySeq
  <2>2. FlattenSeq(seqs) = seqs
    BY <1>2, <1>3 DEF FlattenSeq
  <2> QED
    BY <1>1, <1>3, <2>1, <2>2 DEF Joins
<1>4. CASE n > 0
  <2> DEFINE Recursive(h) == h = [i \in 1 .. n |-> IF i = 1 THEN seqs[i] ELSE h[i - 1] \o seqs[i]]
             flatten == CHOOSE h : Recursive(h)
             g == [i \in 1 .. n |-> f[i]]
  <2>1. FlattenSeq(seqs) = flatten[n]
    BY <1>2, <1>4 DEF FlattenSeq
  <2>2. Recursive(g)
    <3>1. ASSUME NEW i \in 1 .. n PROVE g[i] = IF i = 1 THEN seqs[i] ELSE g[i - 1] \o seqs[i]
      <4>1. g[i] = f[i] /\ f[i] = f[i - 1] \o seqs[i]
        BY <1>1 DEF Joins
      <4>2. CASE i = 1
        <5>1. f[0] = <<>> /\ i - 1 = 0
          BY <1>1, <4>2 DEF Joins
        <5>2. <<>> \o seqs[i] = seqs[i]
          BY ConcatEmptySeq
        <5> QED
          BY <4>1, <4>2, <5>1, <5>2
      <4>3. CASE i # 1
        <5>1. i - 1 \in 1 .. n
          BY <4>3
        <5>2. g[i - 1] = f[i - 1]
          BY <5>1
        <5> QED
          BY <4>1, <4>3, <5>2
      <4> QED
        BY <4>2, <4>3
    <3> QED
      BY <3>1
  <2>3. Recursive(flatten)
    <3> HIDE DEF Recursive
    <3> QED
      BY <2>2
  <2> HIDE DEF flatten
  <2>4. \A i \in 1 .. n : flatten[i] = IF i = 1 THEN seqs[i] ELSE flatten[i - 1] \o seqs[i]
    BY <2>3
  <2>5. \A k \in 0 .. n : k \in {j \in 0 .. n : j = 0 \/ flatten[j] = f[j]}
    <3> DEFINE Good == {j \in 0 .. n : j = 0 \/ flatten[j] = f[j]}
    <3>1. 0 \in Good
      OBVIOUS
    <3>2. ASSUME NEW k \in 0 .. n - 1, k \in Good PROVE k + 1 \in Good
      <4>1. k + 1 \in 1 .. n /\ k + 1 \in 0 .. n /\ (k + 1) - 1 = k
        OBVIOUS
      <4>2. f[k + 1] = f[k] \o seqs[k + 1]
        BY <1>1, <4>1 DEF Joins
      <4>3. CASE k = 0
        <5>1. flatten[k + 1] = seqs[k + 1]
          BY <2>4, <4>1, <4>3
        <5>2. f[k] = <<>>
          BY <1>1, <4>3 DEF Joins
        <5>3. <<>> \o seqs[k + 1] = seqs[k + 1]
          BY <4>1, ConcatEmptySeq
        <5> QED
          BY <4>1, <4>2, <5>1, <5>2, <5>3
      <4>4. CASE k # 0
        <5>1. k + 1 # 1
          BY <4>4
        <5>2. flatten[k + 1] = flatten[(k + 1) - 1] \o seqs[k + 1]
          BY <2>4, <4>1, <5>1, Zenon
        <5> QED
          BY <3>2, <4>1, <4>2, <4>4, <5>2
      <4> QED
        BY <4>3, <4>4
    <3> HIDE DEF Good
    <3>3. \A k \in 0 .. n : k \in Good
      BY <3>1, <3>2, Induction
    <3> QED
      BY <3>3 DEF Good
  <2>6. flatten[n] = f[n]
    BY <1>4, <2>5
  <2> QED
    BY <1>1, <2>1, <2>6
<1> QED
  BY <1>3, <1>4

------------------------------------------------------------------------------
(* Arithmetic of records of a fixed size.                                      *)

LEMMA Times ==
    ASSUME NEW size \in Nat
    PROVE  /\ 0 * size = 0 /\ 1 * size = size
           /\ \A i \in Int : (i - 1) * size = i * size - size /\ (i + 1) * size = i * size + size
           /\ \A i \in Nat : i * size \in Nat
           /\ \A i, j \in Int : i <= j => i * size <= j * size
<1>1. \A i \in Int : (i - 1) * size = i * size - size /\ (i + 1) * size = i * size + size
  OBVIOUS
<1>2. \A i \in Nat : i * size \in Nat
  OBVIOUS
<1>3. ASSUME NEW i \in Int, NEW j \in Int, i <= j PROVE i * size <= j * size
  <2>1. PICK d \in Nat : j = i + d
    BY <1>3
  <2>2. j * size = i * size + d * size
    BY <2>1
  <2> QED
    BY <1>2, <2>1, <2>2
<1> QED
  BY <1>1, <1>2, <1>3

(* Quotient and remainder are the only ones.                                   *)
LEMMA Quotient ==
    ASSUME NEW size \in Nat \ {0}, NEW q \in Int, NEW r \in 0 .. size - 1
    PROVE  (q * size + r) \div size = q /\ (q * size + r) % size = r
<1>1. PICK a \in Int : a = q * size + r
  OBVIOUS
<1>2. PICK d \in Int, m \in 0 .. size - 1 : d = a \div size /\ m = a % size /\ a = d * size + m
  OBVIOUS
<1>3. ~(d < q)
  <2>1. SUFFICES ASSUME d + 1 <= q PROVE FALSE
    OBVIOUS
  <2>2. d * size + size <= q * size
    BY <2>1, Times
  <2> QED
    BY <1>1, <1>2, <2>2
<1>4. ~(q < d)
  <2>1. SUFFICES ASSUME q + 1 <= d PROVE FALSE
    OBVIOUS
  <2>2. q * size + size <= d * size
    BY <2>1, Times
  <2> QED
    BY <1>1, <1>2, <2>2
<1>5. d = q
  BY <1>3, <1>4
<1>6. m = r
  BY <1>1, <1>2, <1>5
<1> QED
  BY <1>1, <1>2, <1>5, <1>6

(* A number is its quotient's part and a remainder.                            *)
LEMMA Division ==
    ASSUME NEW size \in Nat \ {0}, NEW a \in Int
    PROVE  \E d \in Int, m \in 0 .. size - 1 :
               d = a \div size /\ m = a % size /\ a = d * size + m /\ (a \in Nat => d \in Nat)
<1>1. PICK d \in Int, m \in 0 .. size - 1 : d = a \div size /\ m = a % size /\ a = d * size + m
  OBVIOUS
<1>2. ASSUME a \in Nat PROVE d \in Nat
  <2>1. SUFFICES ASSUME d <= -1 PROVE FALSE
    OBVIOUS
  <2>2. d * size <= -1 * size /\ -1 * size = -size
    BY <2>1, Times
  <2> QED
    BY <1>1, <1>2, <2>2
<1> QED
  BY <1>1, <1>2

(* How many records there is room for.                                         *)
LEMMA Room ==
    ASSUME NEW size \in Nat \ {0}, NEW count \in Nat, NEW room \in Int
    PROVE  count * size <= room <=> count <= room \div size
<1>1. PICK d \in Int, m \in 0 .. size - 1 : d = room \div size /\ room = d * size + m
  BY Division
<1>2. ASSUME count <= d PROVE count * size <= room
  <2>1. count * size <= d * size
    BY <1>2, Times
  <2> QED
    BY <1>1, <2>1
<1>3. ASSUME d + 1 <= count PROVE ~(count * size <= room)
  <2>1. d * size + size <= count * size
    BY <1>3, Times
  <2> QED
    BY <1>1, <2>1
<1> QED
  BY <1>1, <1>2, <1>3

------------------------------------------------------------------------------
(* Sizes.                                                                      *)

Byte == 0 .. 255
IdBytes == {id \in Seq(Byte) : Len(id) = IdSize}

LEMMA SizesAre ==
    /\ IdSize \in Nat /\ FrameMax \in Nat /\ TextMax \in Nat /\ Alphabet \subseteq Byte
    /\ RefSize \in Nat \ {0} /\ RefSize = IdSize + 1 /\ HeaderSize \in Nat \ {0} /\ HeaderSize = 1 + 2 * IdSize
    /\ PayloadMax \in Int /\ PayloadMax = FrameMax - HeaderSize /\ PayloadMax \in Nat
    /\ MaxSyncRefs \in Int /\ MaxWantRefs \in Int
    /\ Zero \in IdBytes
<1>1. IdSize \in Nat /\ FrameMax \in Nat /\ TextMax \in Nat /\ Alphabet \subseteq Byte
  BY Sizes DEF Byte
<1>2. RefSize \in Nat \ {0} /\ RefSize = IdSize + 1
  BY <1>1 DEF RefSize
<1>3. HeaderSize \in Nat \ {0} /\ HeaderSize = 1 + 2 * IdSize
  BY <1>1 DEF HeaderSize
<1>4. PayloadMax \in Int /\ PayloadMax = FrameMax - HeaderSize /\ PayloadMax \in Nat
  BY <1>1, <1>3, Sizes DEF PayloadMax
<1>5. MaxSyncRefs \in Int /\ MaxWantRefs \in Int
  <2>1. PayloadMax - 1 \in Int
    BY <1>4
  <2> QED
    BY <1>2, <1>4, <2>1, Division DEF MaxSyncRefs, MaxWantRefs
<1>6. Zero \in Seq(Byte) /\ Len(Zero) = IdSize
  BY <1>1 DEF Zero, Byte
<1> QED
  BY <1>1, <1>2, <1>3, <1>4, <1>5, <1>6 DEF IdBytes

------------------------------------------------------------------------------
(* Reference lists.                                                            *)

AnyRefs == Kinds \X (IdBytes \ {Zero})
RefBytes(ref) == <<ref[1]>> \o ref[2]

LEMMA RefBytesIs ==
    ASSUME NEW ref \in AnyRefs
    PROVE  /\ ref = <<ref[1], ref[2]>> /\ ref[1] \in Kinds /\ ref[1] \in Byte
           /\ ref[2] \in Seq(Byte) /\ Len(ref[2]) = IdSize /\ ref[2] # Zero
           /\ RefBytes(ref) \in Seq(Byte) /\ Len(RefBytes(ref)) = RefSize
           /\ RefBytes(ref)[1] = ref[1]
           /\ \A p \in 1 .. IdSize : RefBytes(ref)[p + 1] = ref[2][p]
<1>1. PICK kind \in Kinds, id \in IdBytes \ {Zero} : ref = <<kind, id>>
  BY DEF AnyRefs
<1>2. id \in Seq(Byte) /\ Len(id) = IdSize /\ kind \in Byte
  BY DEF IdBytes, Kinds, Byte
<1>3. <<kind>> \in Seq(Byte) /\ Len(<<kind>>) = 1 /\ <<kind>>[1] = kind
  BY <1>2
<1>4. PICK bytes : bytes = <<kind>> \o id
  OBVIOUS
<1>5. /\ bytes \in Seq(Byte) /\ Len(bytes) = 1 + IdSize
      /\ \A i \in 1 .. 1 + IdSize : bytes[i] = IF i <= 1 THEN <<kind>>[i] ELSE id[i - 1]
  BY <1>2, <1>3, <1>4, ConcatProperties
<1>6. bytes[1] = kind
  BY <1>3, <1>5, SizesAre
<1>7. ASSUME NEW p \in 1 .. IdSize PROVE bytes[p + 1] = id[p]
  <2>1. p + 1 \in 1 .. 1 + IdSize /\ ~(p + 1 <= 1) /\ (p + 1) - 1 = p
    BY SizesAre
  <2> QED
    BY <1>5, <2>1
<1>8. bytes = RefBytes(ref)
  BY <1>1, <1>4 DEF RefBytes
<1>9. ref[1] = kind /\ ref[2] = id /\ ref = <<ref[1], ref[2]>>
  BY <1>1
<1>10. /\ RefBytes(ref) \in Seq(Byte) /\ Len(RefBytes(ref)) = RefSize /\ RefBytes(ref)[1] = kind
       /\ \A p \in 1 .. IdSize : RefBytes(ref)[p + 1] = id[p]
  BY <1>5, <1>6, <1>7, <1>8, SizesAre
<1>11. id # Zero
  OBVIOUS
<1> QED
  BY <1>2, <1>9, <1>10, <1>11

(* A list takes RefSize bytes a reference, one after the other.                *)
LEMMA EncodeRefsIs ==
    ASSUME NEW refs \in Seq(AnyRefs)
    PROVE  /\ EncodeRefs(refs) \in Seq(Byte)
           /\ Len(EncodeRefs(refs)) = Len(refs) * RefSize
           /\ \A i \in 1 .. Len(refs), p \in 1 .. RefSize :
                  EncodeRefs(refs)[(i - 1) * RefSize + p] = RefBytes(refs[i])[p]
<1>1. PICK n \in Nat : n = Len(refs) /\ DOMAIN refs = 1 .. n
  BY LenProperties
<1>2. PICK seqs : seqs = [i \in 1 .. n |-> RefBytes(refs[i])]
  OBVIOUS
<1>3. \A i \in 1 .. n : refs[i] \in AnyRefs
  BY <1>1, ElementOfSeq
<1>4. \A i \in 1 .. n : seqs[i] = RefBytes(refs[i]) /\ seqs[i] \in Seq(Byte) /\ Len(seqs[i]) = RefSize
  BY <1>2, <1>3, RefBytesIs
<1>5. seqs \in [1 .. n -> Seq(Byte)]
  BY <1>2, <1>4
<1>6. PICK f \in [0 .. n -> Seq(Byte)] : Joins(f, n, seqs) /\ FlattenSeq(seqs) = f[n]
  BY <1>5, FlattenIs
<1>7. EncodeRefs(refs) = f[n]
  BY <1>1, <1>2, <1>6 DEF EncodeRefs, RefBytes
<1> DEFINE Good == {k \in 0 .. n : /\ Len(f[k]) = k * RefSize
                                  /\ \A i \in 1 .. k, p \in 1 .. RefSize :
                                         f[k][(i - 1) * RefSize + p] = seqs[i][p]}
<1>8. 0 \in Good
  <2>1. Len(f[0]) = 0
    BY <1>6 DEF Joins
  <2>2. 0 * RefSize = 0 /\ 1 .. 0 = {} /\ 0 \in 0 .. n
    BY SizesAre
  <2> QED
    BY <2>1, <2>2
<1>9. ASSUME NEW k \in 0 .. n - 1, k \in Good PROVE k + 1 \in Good
  <2>1. k + 1 \in 1 .. n /\ k \in 0 .. n /\ k + 1 \in 0 .. n /\ (k + 1) - 1 = k /\ k \in Nat
    OBVIOUS
  <2>2. PICK s \in Seq(Byte), t \in Seq(Byte), u \in Seq(Byte) :
            s = f[k] /\ t = seqs[k + 1] /\ u = f[k + 1]
    BY <1>5, <2>1
  <2>3. u = s \o t
    BY <1>6, <2>1, <2>2 DEF Joins
  <2>4. PICK size \in Nat \ {0} : size = RefSize
    BY SizesAre
  <2>5. PICK b \in Nat : b = k * size
    BY <2>1, <2>4, Times
  <2>6. Len(s) = b /\ Len(t) = size
    BY <1>4, <1>9, <2>1, <2>2, <2>4, <2>5
  <2>7. Len(u) = b + size /\ \A i \in 1 .. b + size : u[i] = IF i <= b THEN s[i] ELSE t[i - b]
    BY <2>3, <2>6, ConcatProperties
  <2>8. (k + 1) * size = b + size
    BY <2>1, <2>5, Times
  <2>9. ASSUME NEW i \in 1 .. k + 1, NEW p \in 1 .. size
        PROVE  u[(i - 1) * size + p] = seqs[i][p]
    <3>1. PICK c \in Nat : c = (i - 1) * size
      <4>1. i - 1 \in Nat
        OBVIOUS
      <4> QED
        BY <4>1, Times
    <3>2. CASE i = k + 1
      <4>1. c = b
        BY <2>1, <2>5, <3>1, <3>2
      <4>2. b + p \in 1 .. b + size /\ ~(b + p <= b) /\ (b + p) - b = p
        OBVIOUS
      <4>3. u[b + p] = t[p]
        BY <2>7, <4>2
      <4> QED
        BY <2>2, <3>1, <3>2, <4>1, <4>3
    <3>3. CASE i # k + 1
      <4>1. i \in 1 .. k /\ i <= k /\ i \in Int /\ k \in Int
        BY <3>3
      <4>2. i * size <= b
        BY <2>5, <4>1, Times
      <4>3. c = i * size - size /\ i * size \in Int
        BY <3>1, <4>1, Times
      <4>4. PICK d \in Int : d <= b /\ c = d - size
        BY <4>2, <4>3
      <4>5. c + p \in 1 .. b + size /\ c + p <= b
        BY <4>4
      <4>6. u[c + p] = s[c + p]
        BY <2>7, <4>5
      <4>7. s[(i - 1) * size + p] = seqs[i][p]
        BY <1>9, <2>2, <2>4, <4>1
      <4> QED
        BY <3>1, <4>6, <4>7
    <3> QED
      BY <3>2, <3>3
  <2> QED
    BY <2>1, <2>2, <2>4, <2>7, <2>8, <2>9
<1> HIDE DEF Good
<1>10. \A k \in 0 .. n : k \in Good
  BY <1>8, <1>9, Induction
<1>11. n \in Good
  BY <1>10
<1>12. /\ Len(f[n]) = n * RefSize
       /\ \A i \in 1 .. n, p \in 1 .. RefSize : f[n][(i - 1) * RefSize + p] = seqs[i][p]
  BY <1>11 DEF Good
<1>13. f[n] \in Seq(Byte)
  BY <1>6
<1> QED
  BY <1>1, <1>4, <1>7, <1>12, <1>13

(* A part of a sequence.                                                       *)
LEMMA PartIs ==
    ASSUME NEW S, NEW seq \in Seq(S), NEW start \in Nat, NEW count \in Nat, start + count <= Len(seq)
    PROVE  /\ SubSeq(seq, start + 1, start + count) \in Seq(S)
           /\ Len(SubSeq(seq, start + 1, start + count)) = count
           /\ \A j \in 1 .. count : SubSeq(seq, start + 1, start + count)[j] = seq[start + j]
<1>1. PICK from \in Int, to \in Int : from = start + 1 /\ to = start + count
  OBVIOUS
<1>2. \A j \in from .. to : seq[j] \in S
  <2>1. \A j \in from .. to : j \in 1 .. Len(seq)
    BY <1>1, LenProperties
  <2> QED
    BY <2>1, ElementOfSeq
<1>3. /\ SubSeq(seq, from, to) \in Seq(S)
      /\ Len(SubSeq(seq, from, to)) = IF from <= to THEN to - from + 1 ELSE 0
      /\ \A j \in 1 .. to - from + 1 : SubSeq(seq, from, to)[j] = seq[from + j - 1]
  BY <1>2, SubSeqProperties
<1>4. to - from + 1 = count /\ (from <= to <=> count >= 1)
  BY <1>1
<1>5. \A j \in 1 .. count : from + j - 1 = start + j
  BY <1>1
<1>6. Len(SubSeq(seq, from, to)) = count
  BY <1>3, <1>4
<1>7. \A j \in 1 .. count : SubSeq(seq, from, to)[j] = seq[start + j]
  BY <1>3, <1>4, <1>5
<1> QED
  BY <1>1, <1>3, <1>6, <1>7

(* The i-th reference of a list is at its place.                               *)
LEMMA RefAtIs ==
    ASSUME NEW refs \in Seq(AnyRefs), NEW i \in 1 .. Len(refs)
    PROVE  RefAt(EncodeRefs(refs), i) = refs[i]
<1>1. PICK bytes \in Seq(Byte) : bytes = EncodeRefs(refs)
  BY EncodeRefsIs
<1>2. PICK n \in Nat : n = Len(refs) /\ i \in 1 .. n
  BY LenProperties
<1>3. PICK ref \in AnyRefs : ref = refs[i]
  BY ElementOfSeq
<1>4. PICK size \in Nat \ {0} : size = RefSize /\ size = IdSize + 1
  BY SizesAre
<1>5. PICK start \in Nat : start = (i - 1) * RefSize
  <2>1. i - 1 \in Nat
    BY <1>2
  <2> QED
    BY <2>1, SizesAre, Times
<1>6. PICK len \in Nat : len = Len(bytes) /\ start + size <= len
  <2>1. PICK c \in Nat : c = n * size
    BY <1>4, Times
  <2>2. PICK d \in Int : d = i * size
    BY <1>2, <1>4
  <2>3. d <= c /\ start = d - size
    <3>1. i * size <= n * size /\ (i - 1) * size = i * size - size
      BY <1>2, Times
    <3> QED
      BY <1>4, <1>5, <2>1, <2>2, <3>1
  <2>4. Len(bytes) = c
    BY <1>1, <1>2, <1>4, <2>1, EncodeRefsIs
  <2> QED
    BY <2>1, <2>3, <2>4
<1>7. \A p \in 1 .. size : bytes[start + p] = RefBytes(ref)[p]
  BY <1>1, <1>2, <1>3, <1>4, <1>5, EncodeRefsIs
<1>8. /\ ref = <<ref[1], ref[2]>> /\ ref[2] \in Seq(Byte) /\ Len(ref[2]) = IdSize /\ RefBytes(ref)[1] = ref[1]
      /\ \A p \in 1 .. IdSize : RefBytes(ref)[p + 1] = ref[2][p]
  BY RefBytesIs
<1>9. bytes[start + 1] = ref[1]
  <2>1. 1 \in 1 .. size
    BY <1>4
  <2> QED
    BY <1>7, <1>8, <2>1
<1>10. PICK id \in Seq(Byte) : id = ref[2] /\ Len(id) = IdSize /\ IdSize \in Nat
  BY <1>8, SizesAre
<1>11. SubSeq(bytes, start + 2, start + RefSize) = id
  <2>1. PICK from \in Nat : from = start + 1 /\ start + 2 = from + 1 /\ start + RefSize = from + IdSize
    BY <1>4, <1>10
  <2>2. from + IdSize <= len
    BY <1>4, <1>6, <1>10, <2>1
  <2>3. PICK sub : sub = SubSeq(bytes, from + 1, from + IdSize)
    OBVIOUS
  <2>4. sub \in Seq(Byte) /\ Len(sub) = IdSize /\ \A j \in 1 .. IdSize : sub[j] = bytes[from + j]
    BY <1>6, <1>10, <2>2, <2>3, PartIs
  <2>5. ASSUME NEW j \in 1 .. IdSize PROVE sub[j] = id[j]
    <3>1. j + 1 \in 1 .. size /\ from + j = start + (j + 1)
      BY <1>4, <1>10, <2>1
    <3>2. sub[j] = bytes[start + (j + 1)]
      BY <2>4, <3>1
    <3> QED
      BY <1>7, <1>8, <1>10, <3>1, <3>2
  <2>6. sub = id
    BY <1>10, <2>4, <2>5, SeqEqual
  <2> QED
    BY <2>1, <2>3, <2>6
<1> QED
  BY <1>1, <1>3, <1>5, <1>8, <1>9, <1>10, <1>11 DEF RefAt

(* A list is read back.                                                        *)
LEMMA DecodeRefsEncoded ==
    ASSUME NEW refs \in Seq(AnyRefs), IsInjective(refs)
    PROVE  DecodeRefs(EncodeRefs(refs)) = {refs}
<1>1. PICK bytes \in Seq(Byte) : bytes = EncodeRefs(refs)
  BY EncodeRefsIs
<1>2. PICK n \in Nat : n = Len(refs) /\ DOMAIN refs = 1 .. n /\ refs \in [1 .. n -> AnyRefs]
  BY LenProperties
<1>3. PICK size \in Nat \ {0} : size = RefSize
  BY SizesAre
<1>4. Len(bytes) % RefSize = 0 /\ Len(bytes) \div RefSize = n
  <2>1. Len(bytes) = n * size
    BY <1>1, <1>2, <1>3, EncodeRefsIs
  <2>2. n * size = n * size + 0 /\ 0 \in 0 .. size - 1 /\ n \in Int
    OBVIOUS
  <2>3. (n * size + 0) \div size = n /\ (n * size + 0) % size = 0
    BY <2>2, Quotient
  <2> QED
    BY <1>3, <2>1, <2>2, <2>3
<1>5. [i \in 1 .. n |-> RefAt(bytes, i)] = refs
  <2>1. \A i \in 1 .. n : RefAt(bytes, i) = refs[i]
    BY <1>1, <1>2, RefAtIs
  <2> QED
    BY <1>2, <2>1
<1>6. \A i \in DOMAIN refs : refs[i] \in Kinds \X (Seq(0 .. 255) \ {Zero})
  BY <1>2 DEF AnyRefs, IdBytes, Byte
<1>7. DecodeRefs(bytes) =
          {r \in {refs} : /\ \A i \in DOMAIN refs : refs[i] \in Kinds \X (Seq(0 .. 255) \ {Zero})
                          /\ IsInjective(refs)}
  <2>1. PICK list : list = [i \in 1 .. Len(bytes) \div RefSize |-> RefAt(bytes, i)]
    OBVIOUS
  <2>2. DecodeRefs(bytes) =
            {r \in {list} : /\ \A i \in DOMAIN list : list[i] \in Kinds \X (Seq(0 .. 255) \ {Zero})
                            /\ IsInjective(list)}
    BY <1>4, <2>1 DEF DecodeRefs
  <2>3. list = refs
    BY <1>4, <1>5, <2>1
  <2> QED
    BY <2>2, <2>3
<1> QED
  BY <1>1, <1>6, <1>7

(* Every list that is read is written the same way.                            *)
LEMMA DecodedRefs ==
    ASSUME NEW bytes \in Seq(Byte), NEW refs \in DecodeRefs(bytes)
    PROVE  refs \in Seq(AnyRefs) /\ IsInjective(refs) /\ EncodeRefs(refs) = bytes
<1>1. PICK len \in Nat : len = Len(bytes)
  BY LenProperties
<1>2. PICK size \in Nat \ {0} : size = RefSize /\ size = IdSize + 1 /\ IdSize \in Nat
  BY SizesAre
<1>3. PICK n \in Nat : n = len \div size /\ len = n * size
  <2>1. len % size = 0
    BY <1>1, <1>2 DEF DecodeRefs
  <2>2. len \in Int
    OBVIOUS
  <2>3. PICK d \in Int, m \in 0 .. size - 1 :
            d = len \div size /\ m = len % size /\ len = d * size + m /\ (len \in Nat => d \in Nat)
    BY <2>2, Division
  <2> QED
    BY <2>1, <2>3
<1>4. /\ refs = [i \in 1 .. n |-> RefAt(bytes, i)]
      /\ \A i \in DOMAIN refs : refs[i] \in Kinds \X (Seq(0 .. 255) \ {Zero})
      /\ IsInjective(refs)
  BY <1>1, <1>2, <1>3 DEF DecodeRefs
<1>5. ASSUME NEW i \in 1 .. n
      PROVE  /\ refs[i] \in AnyRefs
             /\ \A p \in 1 .. size : bytes[(i - 1) * size + p] = RefBytes(refs[i])[p]
  <2>1. PICK start \in Nat : start = (i - 1) * size
    <3>1. i - 1 \in Nat
      OBVIOUS
    <3> QED
      BY <3>1, Times
  <2>2. start + size <= len
    <3>1. PICK d \in Int : d = i * size
      OBVIOUS
    <3>2. d <= len /\ start = d - size
      BY <1>3, <2>1, <3>1, Times
    <3> QED
      BY <3>2
  <2>3. PICK from \in Nat : from = start + 1 /\ start + 2 = from + 1 /\ start + RefSize = from + IdSize
    BY <1>2
  <2>4. PICK sub : sub = SubSeq(bytes, from + 1, from + IdSize)
    OBVIOUS
  <2>5. from + IdSize <= Len(bytes)
    BY <1>1, <1>2, <2>2, <2>3
  <2>6. sub \in Seq(Byte) /\ Len(sub) = IdSize /\ \A j \in 1 .. IdSize : sub[j] = bytes[from + j]
    BY <1>2, <2>4, <2>5, PartIs
  <2>7. refs[i] = <<bytes[start + 1], sub>>
    BY <1>2, <1>4, <2>1, <2>3, <2>4 DEF RefAt
  <2>8. refs[i] \in Kinds \X (Seq(0 .. 255) \ {Zero})
    BY <1>4
  <2>9. refs[i] \in AnyRefs /\ refs[i][1] = bytes[start + 1] /\ refs[i][2] = sub
    <3>1. bytes[start + 1] \in Kinds /\ sub # Zero
      BY <2>7, <2>8
    <3>2. sub \in IdBytes \ {Zero}
      BY <2>6, <3>1 DEF IdBytes
    <3> QED
      BY <2>7, <3>1, <3>2 DEF AnyRefs
  <2>10. /\ RefBytes(refs[i])[1] = refs[i][1]
         /\ \A p \in 1 .. IdSize : RefBytes(refs[i])[p + 1] = refs[i][2][p]
    BY <2>9, RefBytesIs
  <2>11. ASSUME NEW p \in 1 .. size PROVE bytes[start + p] = RefBytes(refs[i])[p]
    <3>1. CASE p = 1
      BY <2>9, <2>10, <3>1
    <3>2. CASE p # 1
      <4>1. PICK q \in 1 .. IdSize : p = q + 1
        <5>1. p - 1 \in 1 .. IdSize /\ p = (p - 1) + 1
          BY <1>2, <3>2
        <5> QED
          BY <5>1
      <4>2. from + q = start + p
        BY <1>2, <2>3, <4>1
      <4>3. sub[q] = bytes[start + p]
        BY <2>6, <4>1, <4>2
      <4> QED
        BY <2>9, <2>10, <4>1, <4>3
    <3> QED
      BY <3>1, <3>2
  <2> QED
    BY <2>1, <2>9, <2>11
<1>6. refs \in Seq(AnyRefs) /\ Len(refs) = n
  BY <1>4, <1>5
<1>7. PICK again \in Seq(Byte) : again = EncodeRefs(refs)
  BY <1>6, EncodeRefsIs
<1>8. Len(again) = len
  BY <1>2, <1>3, <1>6, <1>7, EncodeRefsIs
<1>9. ASSUME NEW j \in 1 .. len PROVE again[j] = bytes[j]
  <2>1. PICK d \in Int, m \in 0 .. size - 1 : j - 1 = d * size + m /\ d \in Nat
    <3>1. PICK a \in Nat : a = j - 1 /\ a \in Int
      OBVIOUS
    <3>2. PICK d \in Int, m \in 0 .. size - 1 :
              d = a \div size /\ m = a % size /\ a = d * size + m /\ (a \in Nat => d \in Nat)
      BY <3>1, Division
    <3> QED
      BY <3>1, <3>2
  <2>2. d < n
    <3>1. SUFFICES ASSUME n <= d PROVE FALSE
      BY <2>1
    <3>2. PICK c \in Int : c = d * size
      BY <2>1
    <3>3. len <= c
      BY <1>3, <2>1, <3>1, <3>2, Times
    <3> QED
      BY <2>1, <3>2, <3>3
  <2>3. PICK i \in 1 .. n, p \in 1 .. size : i - 1 = d /\ p = m + 1
    <3>1. d + 1 \in 1 .. n /\ m + 1 \in 1 .. size /\ (d + 1) - 1 = d
      BY <2>1, <2>2
    <3> QED
      BY <3>1
  <2>4. j = (i - 1) * size + p
    <3>1. PICK c \in Int : c = d * size
      BY <2>1
    <3>2. j = c + p
      BY <2>1, <2>3, <3>1
    <3> QED
      BY <2>3, <3>1, <3>2
  <2>5. again[(i - 1) * size + p] = RefBytes(refs[i])[p]
    <3>1. i \in 1 .. Len(refs) /\ p \in 1 .. RefSize
      BY <1>2, <1>6
    <3>2. EncodeRefs(refs)[(i - 1) * RefSize + p] = RefBytes(refs[i])[p]
      BY <1>6, <3>1, EncodeRefsIs, Zenon
    <3> QED
      BY <1>2, <1>7, <3>2
  <2> QED
    BY <1>5, <2>4, <2>5
<1>10. again = bytes
  BY <1>1, <1>8, <1>9, SeqEqual
<1> QED
  BY <1>4, <1>6, <1>7, <1>10

------------------------------------------------------------------------------
(* Texts.                                                                      *)

Char == {"narrow", "wide", "space"}

LEMMA TextsAre ==
    \A text : text \in Texts <=> text \in Seq(Char) /\ Len(text) <= TextMax
<1>1. TextMax \in Nat
  BY SizesAre
<1>2. Texts = UNION {[1 .. m -> Char] : m \in 0 .. TextMax}
  BY DEF Texts, BoundedSeq, SeqOf, Char
<1>3. ASSUME NEW text \in Texts PROVE text \in Seq(Char) /\ Len(text) <= TextMax
  <2>1. PICK m \in 0 .. TextMax : text \in [1 .. m -> Char]
    BY <1>2
  <2>2. m \in Nat /\ m <= TextMax
    BY <1>1
  <2>3. text \in Seq(Char) /\ Len(text) = m
    BY <2>1, <2>2
  <2> QED
    BY <2>2, <2>3
<1>4. ASSUME NEW text \in Seq(Char), Len(text) <= TextMax PROVE text \in Texts
  <2>1. Len(text) \in 0 .. TextMax /\ text \in [1 .. Len(text) -> Char]
    BY <1>1, <1>4, LenProperties
  <2> QED
    BY <1>2, <2>1
<1> QED
  BY <1>3, <1>4

(* The last byte of a character tells which one it is.                         *)
LEMMA CharIs ==
    ASSUME NEW c \in Char
    PROVE  /\ Utf8Char[c] \in Seq(Byte) /\ Len(Utf8Char[c]) \in Nat \ {0}
           /\ \A d \in Char :
                  Utf8Char[c][Len(Utf8Char[c])] = Utf8Char[d][Len(Utf8Char[d])] => c = d
<1>1. Utf8Char["narrow"] = <<97>> /\ Utf8Char["wide"] = <<195, 165>> /\ Utf8Char["space"] = <<32>>
  BY DEF Utf8Char
<1>2. /\ <<97>> \in Seq(Byte) /\ Len(<<97>>) = 1 /\ <<97>>[1] = 97
      /\ <<32>> \in Seq(Byte) /\ Len(<<32>>) = 1 /\ <<32>>[1] = 32
  BY DEF Byte
<1>3. <<195, 165>> \in Seq(Byte) /\ Len(<<195, 165>>) = 2 /\ <<195, 165>>[2] = 165
  BY DEF Byte
<1> DEFINE last(d) == Utf8Char[d][Len(Utf8Char[d])]
<1>4. last("narrow") = 97 /\ last("wide") = 165 /\ last("space") = 32
  BY <1>1, <1>2, <1>3
<1> HIDE DEF last
<1>5. Utf8Char[c] \in Seq(Byte) /\ Len(Utf8Char[c]) \in Nat \ {0}
  <2>1. CASE c = "narrow"
    <3>1. Utf8Char["narrow"] \in Seq(Byte)
      BY <1>1, <1>2
    <3>2. Len(Utf8Char["narrow"]) = 1
      BY <1>1, <1>2
    <3> QED
      BY <2>1, <3>1, <3>2
  <2>2. CASE c = "wide"
    <3>1. Utf8Char["wide"] \in Seq(Byte)
      BY <1>1, <1>3
    <3>2. Len(Utf8Char["wide"]) = 2
      BY <1>1, <1>3
    <3> QED
      BY <2>2, <3>1, <3>2
  <2>3. CASE c = "space"
    <3>1. Utf8Char["space"] \in Seq(Byte)
      BY <1>1, <1>2
    <3>2. Len(Utf8Char["space"]) = 1
      BY <1>1, <1>2
    <3> QED
      BY <2>3, <3>1, <3>2
  <2> QED
    BY <2>1, <2>2, <2>3 DEF Char
<1>6. ASSUME NEW d \in Char, last(c) = last(d) PROVE c = d
  BY <1>4, <1>6 DEF Char
<1> QED
  BY <1>5, <1>6 DEF last

(* UTF-8, one character after the other.                                       *)
LEMMA Utf8Is ==
    ASSUME NEW text \in Texts
    PROVE  \E f \in [0 .. Len(text) -> Seq(Byte)] :
               /\ f[0] = <<>>
               /\ \A i \in 1 .. Len(text) : f[i] = f[i - 1] \o Utf8Char[text[i]]
               /\ Utf8[text] = f[Len(text)]
<1>1. PICK n \in Nat : n = Len(text) /\ DOMAIN text = 1 .. n /\ text \in Seq(Char)
  BY TextsAre, LenProperties
<1>2. PICK seqs : seqs = [i \in 1 .. n |-> Utf8Char[text[i]]]
  OBVIOUS
<1>3. \A i \in 1 .. n : seqs[i] = Utf8Char[text[i]] /\ seqs[i] \in Seq(Byte)
  <2>1. \A i \in 1 .. n : text[i] \in Char
    BY <1>1, ElementOfSeq
  <2> QED
    BY <1>2, <2>1, CharIs
<1>4. seqs \in [1 .. n -> Seq(Byte)]
  BY <1>2, <1>3
<1>5. PICK f \in [0 .. n -> Seq(Byte)] : Joins(f, n, seqs) /\ FlattenSeq(seqs) = f[n]
  BY <1>4, FlattenIs
<1>6. Utf8[text] = f[n]
  BY <1>1, <1>2, <1>5 DEF Utf8
<1>7. f[0] = <<>> /\ \A i \in 1 .. n : f[i] = f[i - 1] \o Utf8Char[text[i]]
  BY <1>3, <1>5 DEF Joins
<1> QED
  BY <1>1, <1>5, <1>6, <1>7

LEMMA Utf8Type ==
    ASSUME NEW text \in Texts
    PROVE  Utf8[text] \in Seq(Byte) /\ Len(text) \in Nat
<1>1. Len(text) \in Nat
  BY TextsAre, LenProperties
<1>2. Len(text) \in 0 .. Len(text)
  BY <1>1
<1> QED
  BY <1>1, <1>2, Utf8Is

(* No two texts have the same bytes.                                           *)
LEMMA Utf8Injective ==
    ASSUME NEW a \in Texts, NEW b \in Texts, Utf8[a] = Utf8[b]
    PROVE  a = b
<1>1. PICK n \in Nat, m \in Nat : n = Len(a) /\ m = Len(b)
  BY TextsAre, LenProperties
<1>2. a \in Seq(Char) /\ b \in Seq(Char)
  BY TextsAre
<1>3. PICK f \in [0 .. n -> Seq(Byte)] :
          /\ f[0] = <<>>
          /\ \A i \in 1 .. n : f[i] = f[i - 1] \o Utf8Char[a[i]]
          /\ Utf8[a] = f[n]
  BY <1>1, Utf8Is
<1>4. PICK g \in [0 .. m -> Seq(Byte)] :
          /\ g[0] = <<>>
          /\ \A i \in 1 .. m : g[i] = g[i - 1] \o Utf8Char[b[i]]
          /\ Utf8[b] = g[m]
  BY <1>1, Utf8Is
<1> DEFINE Good == {k \in 0 .. n : \A l \in 0 .. m :
                        f[k] = g[l] => k = l /\ \A i \in 1 .. k : a[i] = b[i]}
<1>5. 0 \in Good
  <2>1. ASSUME NEW l \in 0 .. m, f[0] = g[l] PROVE l = 0
    <3>1. SUFFICES ASSUME l # 0 PROVE FALSE
      OBVIOUS
    <3>2. l \in 1 .. m /\ l - 1 \in 0 .. m
      BY <3>1
    <3>3. PICK c \in Char : c = b[l]
      BY <1>1, <1>2, <3>2, ElementOfSeq
    <3>4. g[l] = g[l - 1] \o Utf8Char[c] /\ g[l - 1] \in Seq(Byte)
      BY <1>4, <3>2, <3>3
    <3>5. Utf8Char[c] \in Seq(Byte) /\ Len(Utf8Char[c]) \in Nat \ {0}
      BY CharIs
    <3>6. Len(g[l]) = Len(g[l - 1]) + Len(Utf8Char[c]) /\ Len(g[l - 1]) \in Nat
      BY <3>4, <3>5, ConcatProperties, LenProperties
    <3>7. Len(g[l]) = 0
      BY <1>3, <2>1
    <3>8. PICK x \in Nat, y \in Nat \ {0} : x = Len(g[l - 1]) /\ y = Len(Utf8Char[c])
      BY <3>5, <3>6
    <3>9. x + y = 0
      BY <3>6, <3>7, <3>8
    <3> QED
      BY <3>9
  <2>2. 0 \in 0 .. n /\ 1 .. 0 = {}
    OBVIOUS
  <2> QED
    BY <2>1, <2>2
<1>6. ASSUME NEW k \in 0 .. n - 1, k \in Good PROVE k + 1 \in Good
  <2>1. k + 1 \in 1 .. n /\ k \in 0 .. n /\ k + 1 \in 0 .. n /\ (k + 1) - 1 = k
    OBVIOUS
  <2>2. PICK c \in Char : c = a[k + 1]
    BY <1>1, <1>2, <2>1, ElementOfSeq
  <2>3. PICK s \in Seq(Byte), u \in Seq(Byte) : s = f[k] /\ u = Utf8Char[c] /\ f[k + 1] = s \o u
    <3>1. Utf8Char[c] \in Seq(Byte) /\ f[k] \in Seq(Byte)
      BY <1>3, <2>1, CharIs
    <3>2. f[k + 1] = f[k] \o Utf8Char[c]
      BY <1>3, <2>1, <2>2
    <3> QED
      BY <3>1, <3>2
  <2>4. Len(u) \in Nat \ {0} /\ Len(s) \in Nat
    BY <2>3, CharIs, LenProperties
  <2>5. ASSUME NEW l \in 0 .. m, f[k + 1] = g[l]
        PROVE  k + 1 = l /\ \A i \in 1 .. k + 1 : a[i] = b[i]
    <3>1. l # 0
      <4>1. SUFFICES ASSUME l = 0 PROVE FALSE
        OBVIOUS
      <4>2. Len(s \o u) = 0
        BY <1>4, <2>3, <2>5, <4>1
      <4>3. Len(s \o u) = Len(s) + Len(u)
        BY <2>3, ConcatProperties
      <4> QED
        BY <2>4, <4>2, <4>3
    <3>2. l \in 1 .. m /\ l - 1 \in 0 .. m
      BY <3>1
    <3>3. PICK d \in Char : d = b[l]
      BY <1>1, <1>2, <3>2, ElementOfSeq
    <3>4. PICK t \in Seq(Byte), v \in Seq(Byte) : t = g[l - 1] /\ v = Utf8Char[d] /\ g[l] = t \o v
      <4>1. Utf8Char[d] \in Seq(Byte) /\ g[l - 1] \in Seq(Byte)
        BY <1>4, <3>2, CharIs
      <4>2. g[l] = g[l - 1] \o Utf8Char[d]
        BY <1>4, <3>2, <3>3
      <4> QED
        BY <4>1, <4>2
    <3>5. Len(v) \in Nat \ {0} /\ Len(t) \in Nat
      BY <3>4, CharIs, LenProperties
    <3>6. s \o u = t \o v
      BY <2>3, <2>5, <3>4
    <3>7. Len(s) + Len(u) = Len(t) + Len(v)
      BY <3>6, ConcatProperties
    <3>8. (s \o u)[Len(s) + Len(u)] = u[Len(u)]
      <4>1. Len(s) + Len(u) \in 1 .. Len(s) + Len(u) /\ ~(Len(s) + Len(u) <= Len(s))
            /\ (Len(s) + Len(u)) - Len(s) = Len(u)
        BY <2>4
      <4> QED
        BY <4>1, ConcatProperties
    <3>9. (t \o v)[Len(t) + Len(v)] = v[Len(v)]
      <4>1. Len(t) + Len(v) \in 1 .. Len(t) + Len(v) /\ ~(Len(t) + Len(v) <= Len(t))
            /\ (Len(t) + Len(v)) - Len(t) = Len(v)
        BY <3>5
      <4> QED
        BY <4>1, ConcatProperties
    <3>10. c = d
      <4>1. u[Len(u)] = v[Len(v)]
        BY <3>6, <3>7, <3>8, <3>9
      <4>2. Utf8Char[c][Len(Utf8Char[c])] = Utf8Char[d][Len(Utf8Char[d])]
        BY <2>3, <3>4, <4>1
      <4> QED
        BY <4>2, CharIs
    <3>11. s = t
      <4>1. u = v
        BY <2>3, <3>4, <3>10
      <4>2. PICK x \in Nat : x = Len(s) /\ x = Len(t)
        BY <2>4, <3>5, <3>7, <4>1
      <4>3. ASSUME NEW i \in 1 .. x PROVE s[i] = t[i]
        <5>1. i \in 1 .. Len(s) + Len(u) /\ i <= Len(s) /\ i \in 1 .. Len(t) + Len(v) /\ i <= Len(t)
          BY <2>4, <3>5, <4>2
        <5>2. (s \o u)[i] = s[i]
          BY <5>1, ConcatProperties
        <5>3. (t \o v)[i] = t[i]
          BY <5>1, ConcatProperties
        <5> QED
          BY <3>6, <5>2, <5>3
      <4> QED
        BY <4>2, <4>3, SeqEqual
    <3>12. k = l - 1 /\ \A i \in 1 .. k : a[i] = b[i]
      BY <1>6, <2>3, <3>2, <3>4, <3>11
    <3>13. k + 1 = l /\ a[k + 1] = b[k + 1]
      BY <2>2, <3>2, <3>3, <3>10, <3>12
    <3>14. ASSUME NEW i \in 1 .. k + 1 PROVE a[i] = b[i]
      <4>1. i \in 1 .. k \/ i = k + 1
        OBVIOUS
      <4> QED
        BY <3>12, <3>13, <4>1
    <3> QED
      BY <3>13, <3>14
  <2> QED
    BY <2>1, <2>5
<1> HIDE DEF Good
<1>7. \A k \in 0 .. n : k \in Good
  BY <1>5, <1>6, Induction
<1>8. n \in 0 .. n /\ m \in 0 .. m
  OBVIOUS
<1>9. n \in Good
  BY <1>7, <1>8
<1>10. f[n] = g[m]
  BY <1>3, <1>4
<1>11. n = m /\ \A i \in 1 .. n : a[i] = b[i]
  BY <1>8, <1>9, <1>10 DEF Good
<1> QED
  BY <1>1, <1>2, <1>11, SeqEqual

(* The length in bytes, one character after the other.                         *)
LEMMA Utf8Length ==
    ASSUME NEW text \in Texts
    PROVE  \E h \in [0 .. Len(text) -> Nat] :
               /\ h[0] = 0
               /\ \A i \in 1 .. Len(text) : h[i] = h[i - 1] + Len(Utf8Char[text[i]])
               /\ Len(Utf8[text]) = h[Len(text)]
<1>1. PICK n \in Nat : n = Len(text) /\ text \in Seq(Char)
  BY TextsAre, LenProperties
<1>2. PICK f \in [0 .. n -> Seq(Byte)] :
          /\ f[0] = <<>>
          /\ \A i \in 1 .. n : f[i] = f[i - 1] \o Utf8Char[text[i]]
          /\ Utf8[text] = f[n]
  BY <1>1, Utf8Is
<1>3. PICK h : h = [i \in 0 .. n |-> Len(f[i])]
  OBVIOUS
<1>4. h \in [0 .. n -> Nat]
  <2>1. \A i \in 0 .. n : Len(f[i]) \in Nat
    BY <1>2, LenProperties
  <2> QED
    BY <1>3, <2>1
<1>5. h[0] = 0
  BY <1>2, <1>3
<1>6. ASSUME NEW i \in 1 .. n PROVE h[i] = h[i - 1] + Len(Utf8Char[text[i]])
  <2>1. i - 1 \in 0 .. n /\ i \in 0 .. n
    OBVIOUS
  <2>2. PICK c \in Char : c = text[i]
    BY <1>1, ElementOfSeq
  <2>3. f[i - 1] \in Seq(Byte) /\ Utf8Char[c] \in Seq(Byte)
    BY <1>2, <2>1, CharIs
  <2>4. f[i] = f[i - 1] \o Utf8Char[c]
    BY <1>2, <2>2
  <2>5. Len(f[i]) = Len(f[i - 1]) + Len(Utf8Char[c])
    BY <2>3, <2>4, ConcatProperties
  <2> QED
    BY <1>3, <2>1, <2>2, <2>5
<1>7. Len(Utf8[text]) = h[n]
  BY <1>2, <1>3
<1> QED
  BY <1>1, <1>4, <1>5, <1>6, <1>7

(* A text of a character or more has a byte or more.                           *)
LEMMA Utf8NotEmpty ==
    ASSUME NEW text \in Texts, text # <<>>
    PROVE  Len(Utf8[text]) \in Nat \ {0}
<1>1. PICK n \in Nat \ {0} : n = Len(text) /\ text \in Seq(Char)
  BY TextsAre, LenProperties, EmptySeq
<1>2. PICK h \in [0 .. n -> Nat] :
          /\ \A i \in 1 .. n : h[i] = h[i - 1] + Len(Utf8Char[text[i]])
          /\ Len(Utf8[text]) = h[n]
  BY <1>1, Utf8Length
<1>3. n \in 1 .. n /\ n - 1 \in 0 .. n
  OBVIOUS
<1>4. text[n] \in Char
  BY <1>1, <1>3, ElementOfSeq
<1>5. PICK x \in Nat, y \in Nat \ {0} : x = h[n - 1] /\ y = Len(Utf8Char[text[n]])
  BY <1>2, <1>3, <1>4, CharIs
<1>6. h[n] = x + y
  BY <1>2, <1>3, <1>5
<1> QED
  BY <1>2, <1>5, <1>6

(* A part of a text is no longer than the text.                                *)
LEMMA Utf8Part ==
    ASSUME NEW text \in Texts, NEW start \in Nat, NEW count \in Nat, start + count <= Len(text)
    PROVE  /\ SubSeq(text, start + 1, start + count) \in Texts
           /\ Len(SubSeq(text, start + 1, start + count)) = count
           /\ \A j \in 1 .. count : SubSeq(text, start + 1, start + count)[j] = text[start + j]
           /\ Len(Utf8[SubSeq(text, start + 1, start + count)]) <= Len(Utf8[text])
<1>1. PICK n \in Nat : n = Len(text) /\ text \in Seq(Char) /\ n <= TextMax /\ start + count <= n
  BY TextsAre, LenProperties
<1>2. PICK part : part = SubSeq(text, start + 1, start + count)
  OBVIOUS
<1>3. part \in Seq(Char) /\ Len(part) = count /\ \A j \in 1 .. count : part[j] = text[start + j]
  BY <1>1, <1>2, PartIs
<1>4. part \in Texts
  <2>1. count <= TextMax
    BY <1>1, SizesAre
  <2> QED
    BY <1>3, <2>1, TextsAre
<1>5. PICK h \in [0 .. n -> Nat] :
          /\ \A i \in 1 .. n : h[i] = h[i - 1] + Len(Utf8Char[text[i]])
          /\ Len(Utf8[text]) = h[n]
  BY <1>1, Utf8Length
<1>6. PICK g \in [0 .. count -> Nat] :
          /\ g[0] = 0
          /\ \A i \in 1 .. count : g[i] = g[i - 1] + Len(Utf8Char[part[i]])
          /\ Len(Utf8[part]) = g[count]
  BY <1>3, <1>4, Utf8Length
<1>7. ASSUME NEW i \in 1 .. n PROVE h[i - 1] \in Nat /\ h[i] \in Nat /\ Len(Utf8Char[text[i]]) \in Nat
  <2>1. i - 1 \in 0 .. n /\ i \in 0 .. n /\ text[i] \in Char
    BY <1>1, ElementOfSeq
  <2> QED
    BY <1>5, <2>1, CharIs
<1> DEFINE Behind == {k \in 0 .. count : g[k] <= h[start + k]}
<1>8. \A k \in 0 .. count : k \in Behind
  <2>1. 0 \in Behind
    <3>1. start + 0 \in 0 .. n /\ 0 \in 0 .. count
      BY <1>1
    <3> QED
      BY <1>5, <1>6, <3>1
  <2>2. ASSUME NEW k \in 0 .. count - 1, k \in Behind PROVE k + 1 \in Behind
    <3>1. PICK i \in 1 .. n : i = start + (k + 1) /\ i - 1 = start + k
      <4>1. start + (k + 1) \in 1 .. n /\ (start + (k + 1)) - 1 = start + k
        BY <1>1
      <4> QED
        BY <4>1
    <3>2. k + 1 \in 1 .. count /\ (k + 1) - 1 = k /\ k \in 0 .. count /\ k + 1 \in 0 .. count
      OBVIOUS
    <3>3. PICK x \in Nat : x = Len(Utf8Char[text[i]])
      BY <1>7
    <3>4. part[k + 1] = text[i]
      BY <1>3, <3>1, <3>2
    <3>5. g[k + 1] = g[k] + x /\ g[k] \in Nat
      BY <1>6, <3>2, <3>3, <3>4
    <3>6. h[i] = h[i - 1] + x /\ h[i - 1] \in Nat
      BY <1>5, <1>7, <3>3
    <3>7. g[k] <= h[i - 1]
      BY <2>2, <3>1
    <3>8. g[k + 1] <= h[i]
      BY <3>5, <3>6, <3>7
    <3> QED
      BY <3>1, <3>2, <3>8
  <2> HIDE DEF Behind
  <2> QED
    BY <2>1, <2>2, Induction
<1> DEFINE Grows == {k \in 0 .. n - (start + count) : h[start + count] <= h[start + count + k]}
<1>9. \A k \in 0 .. n - (start + count) : k \in Grows
  <2>1. 0 \in Grows
    <3>1. start + count \in 0 .. n /\ start + count + 0 = start + count /\ 0 \in 0 .. n - (start + count)
      BY <1>1
    <3> QED
      BY <1>5, <3>1
  <2>2. ASSUME NEW k \in 0 .. (n - (start + count)) - 1, k \in Grows PROVE k + 1 \in Grows
    <3>1. PICK i \in 1 .. n : i = start + count + (k + 1) /\ i - 1 = start + count + k
      <4>1. start + count + (k + 1) \in 1 .. n /\ (start + count + (k + 1)) - 1 = start + count + k
        BY <1>1
      <4> QED
        BY <4>1
    <3>2. PICK x \in Nat, y \in Nat : x = Len(Utf8Char[text[i]]) /\ y = h[i - 1]
      BY <1>7
    <3>3. h[i] = y + x
      BY <1>5, <3>2
    <3>4. h[start + count] <= y /\ h[start + count] \in Nat
      <4>1. start + count \in 0 .. n
        BY <1>1
      <4> QED
        BY <1>5, <2>2, <3>1, <3>2, <4>1
    <3>5. h[start + count] <= h[i]
      BY <3>3, <3>4
    <3>6. k + 1 \in 0 .. n - (start + count)
      BY <1>1
    <3> QED
      BY <3>1, <3>5, <3>6
  <2>3. n - (start + count) \in Nat
    BY <1>1
  <2> HIDE DEF Grows
  <2> QED
    BY <2>1, <2>2, <2>3, Induction
<1>10. g[count] <= h[start + count] /\ g[count] \in Nat
  <2>1. count \in 0 .. count
    OBVIOUS
  <2>2. count \in Behind
    BY <1>8, <2>1
  <2> QED
    BY <1>6, <2>1, <2>2
<1>11. h[start + count] <= h[n] /\ h[start + count] \in Nat /\ h[n] \in Nat
  <2>1. n - (start + count) \in 0 .. n - (start + count) /\ start + count + (n - (start + count)) = n
    BY <1>1
  <2>2. n - (start + count) \in Grows
    BY <1>9, <2>1
  <2>3. start + count \in 0 .. n /\ n \in 0 .. n
    BY <1>1
  <2> QED
    BY <1>5, <2>1, <2>2, <2>3
<1>12. g[count] <= h[n]
  BY <1>10, <1>11
<1> QED
  BY <1>2, <1>3, <1>4, <1>5, <1>6, <1>12

(* The first and the last of a set of numbers.                                 *)
LEMMA Bounds ==
    ASSUME NEW n \in Nat, NEW S \in SUBSET (1 .. n), S # {}
    PROVE  /\ Min(S) \in S /\ \A x \in S : Min(S) <= x
           /\ Max(S) \in S /\ \A x \in S : x <= Max(S)
<1>1. \E x \in S : \A y \in S : x <= y
  <2>1. S \in SUBSET Nat
    OBVIOUS
  <2> QED
    BY <2>1, LeastMember
<1>2. \E x \in S : \A y \in S : x >= y
  <2>1. PICK T : T = {d \in 0 .. n : \E x \in S : d = n - x}
    OBVIOUS
  <2>2. T \in SUBSET Nat /\ T # {}
    <3>1. PICK x \in S : x \in 1 .. n
      OBVIOUS
    <3>2. n - x \in T
      BY <2>1, <3>1
    <3>3. T \in SUBSET Nat
      BY <2>1
    <3> QED
      BY <3>2, <3>3
  <2>3. PICK m \in T : \A k \in T : m <= k
    BY <2>2, LeastMember
  <2>4. PICK x \in S : m = n - x
    BY <2>1, <2>3
  <2>5. ASSUME NEW y \in S PROVE x >= y
    <3>1. n - y \in T /\ x \in Int /\ y \in Int
      BY <2>1
    <3>2. m <= n - y
      BY <2>3, <3>1
    <3> QED
      BY <2>4, <3>1, <3>2
  <2> QED
    BY <2>5
<1>3. Min(S) \in S /\ \A y \in S : Min(S) <= y
  BY <1>1 DEF Min
<1>4. Max(S) \in S /\ \A y \in S : Max(S) >= y
  BY <1>2 DEF Max
<1>5. \A y \in S : y <= Max(S)
  BY <1>4
<1> QED
  BY <1>3, <1>4, <1>5

(* A text without white space at its ends.                                     *)
Stripped(text) == text # <<>> /\ text[1] # "space" /\ text[Len(text)] # "space"

LEMMA StripIs ==
    ASSUME NEW text \in Texts, Strip(text) # <<>>
    PROVE  /\ Strip(text) \in Texts /\ Stripped(Strip(text))
           /\ Len(Utf8[Strip(text)]) <= Len(Utf8[text])
<1>1. PICK n \in Nat : n = Len(text) /\ DOMAIN text = 1 .. n
  BY TextsAre, LenProperties
<1>2. PICK solid : solid = {i \in DOMAIN text : text[i] # "space"}
  OBVIOUS
<1>3. solid # {} /\ Strip(text) = SubSeq(text, Min(solid), Max(solid))
  BY <1>2 DEF Strip
<1>4. solid \in SUBSET (1 .. n)
  BY <1>1, <1>2
<1>5. PICK first \in solid, last \in solid : first = Min(solid) /\ last = Max(solid) /\ first <= last
  BY <1>3, <1>4, Bounds
<1>6. first \in 1 .. n /\ last \in 1 .. n /\ text[first] # "space" /\ text[last] # "space"
  BY <1>2, <1>4, <1>5
<1>7. PICK start \in Nat, count \in Nat \ {0} :
          first = start + 1 /\ last = start + count /\ start + count <= Len(text)
  <2>1. /\ first - 1 \in Nat /\ last - first + 1 \in Nat \ {0} /\ first = (first - 1) + 1
        /\ last = (first - 1) + (last - first + 1) /\ (first - 1) + (last - first + 1) <= n
    BY <1>5, <1>6
  <2> QED
    BY <1>1, <2>1
<1>8. PICK part : part = SubSeq(text, start + 1, start + count)
  OBVIOUS
<1>9. Strip(text) = part
  BY <1>3, <1>5, <1>7, <1>8
<1>10. /\ part \in Texts /\ Len(part) = count
       /\ \A j \in 1 .. count : part[j] = text[start + j]
       /\ Len(Utf8[part]) <= Len(Utf8[text])
  BY <1>7, <1>8, Utf8Part
<1>11. part[1] = text[first] /\ part[count] = text[last]
  <2>1. 1 \in 1 .. count /\ count \in 1 .. count
    OBVIOUS
  <2> QED
    BY <1>7, <1>10, <2>1
<1>12. Stripped(part)
  <2>1. part # <<>>
    BY <1>3, <1>9
  <2> QED
    BY <1>6, <1>10, <1>11, <2>1 DEF Stripped
<1> QED
  BY <1>9, <1>10, <1>12

LEMMA StripSame ==
    ASSUME NEW text \in Texts, Stripped(text)
    PROVE  Strip(text) = text
<1>1. PICK n \in Nat \ {0} : n = Len(text) /\ DOMAIN text = 1 .. n /\ text \in Seq(Char)
  BY TextsAre, LenProperties, EmptySeq DEF Stripped
<1>2. PICK solid : solid = {i \in DOMAIN text : text[i] # "space"}
  OBVIOUS
<1>3. solid \in SUBSET (1 .. n) /\ 1 \in solid /\ n \in solid
  BY <1>1, <1>2 DEF Stripped
<1>4. Min(solid) = 1 /\ Max(solid) = n
  <2>1. PICK first \in solid, last \in solid :
            first = Min(solid) /\ last = Max(solid) /\ first <= 1 /\ n <= last
    BY <1>3, Bounds
  <2>2. first \in 1 .. n /\ last \in 1 .. n
    BY <1>3
  <2> QED
    BY <2>1, <2>2
<1>5. Strip(text) = SubSeq(text, 1, n)
  BY <1>2, <1>3, <1>4 DEF Strip
<1>6. PICK part : part = SubSeq(text, 0 + 1, 0 + n)
  OBVIOUS
<1>7. part \in Seq(Char) /\ Len(part) = n /\ \A j \in 1 .. n : part[j] = text[0 + j]
  BY <1>1, <1>6, PartIs
<1>8. part = text
  BY <1>1, <1>7, SeqEqual
<1> QED
  BY <1>5, <1>6, <1>8

(* What is written of a text.                                                  *)
LEMMA EncodeTextIs ==
    ASSUME NEW text \in Texts, NEW maximum \in Int, NEW bytes
    PROVE  bytes \in EncodeText(text, maximum)
               <=> /\ Strip(text) # <<>> /\ Len(Utf8[Strip(text)]) <= maximum
                   /\ bytes = Utf8[Strip(text)]
  BY DEF EncodeText, Normalized

(* A text is read back, without the white space around it.                     *)
LEMMA DecodeTextEncoded ==
    ASSUME NEW text \in Texts, Stripped(text)
    PROVE  DecodeText(Utf8[text]) = {text}
<1>1. Characters(Utf8[text]) = {text}
  BY Utf8Injective DEF Characters
<1>2. Normalized(text) = {text}
  BY StripSame DEF Normalized, Stripped
<1> QED
  BY <1>1, <1>2 DEF DecodeText

(* A text that is read takes no more bytes than there were.                    *)
LEMMA DecodedText ==
    ASSUME NEW bytes, NEW text \in DecodeText(bytes)
    PROVE  text \in Texts /\ Stripped(text) /\ Len(Utf8[text]) <= Len(bytes)
<1>1. PICK source \in Texts : Utf8[source] = bytes /\ text = Strip(source) /\ text # <<>>
  BY DEF DecodeText, Characters, Normalized
<1> QED
  BY <1>1, StripIs

------------------------------------------------------------------------------
(* Frames.                                                                     *)

LEMMA Singleton ==
    ASSUME NEW S, NEW x \in S
    PROVE  <<x>> \in Seq(S) /\ Len(<<x>>) = 1 /\ <<x>>[1] = x
  OBVIOUS

(* A part of a sequence built from three.                                      *)
LEMMA Middle ==
    ASSUME NEW S, NEW s \in Seq(S), NEW t \in Seq(S), NEW u \in Seq(S)
    PROVE  /\ s \o t \o u \in Seq(S)
           /\ Len(s \o t \o u) = Len(s) + Len(t) + Len(u)
           /\ SubSeq(s \o t \o u, Len(s) + 1, Len(s) + Len(t)) = t
           /\ \A j \in 1 .. Len(s) : (s \o t \o u)[j] = s[j]
<1>1. PICK a \in Nat, b \in Nat, c \in Nat : a = Len(s) /\ b = Len(t) /\ c = Len(u)
  BY LenProperties
<1>2. PICK st \in Seq(S) : st = s \o t
  BY ConcatProperties
<1>3. Len(st) = a + b /\ \A i \in 1 .. a + b : st[i] = IF i <= a THEN s[i] ELSE t[i - a]
  BY <1>1, <1>2, ConcatProperties
<1>4. PICK stu \in Seq(S) : stu = st \o u
  BY ConcatProperties
<1>5. /\ Len(stu) = (a + b) + c
      /\ \A i \in 1 .. (a + b) + c : stu[i] = IF i <= a + b THEN st[i] ELSE u[i - (a + b)]
  <2>1. PICK ab \in Nat : ab = a + b /\ Len(st) = ab
    BY <1>3
  <2>2. /\ Len(st \o u) = Len(st) + Len(u)
        /\ \A i \in 1 .. Len(st) + Len(u) :
               (st \o u)[i] = IF i <= Len(st) THEN st[i] ELSE u[i - Len(st)]
    BY ConcatProperties
  <2>3. Len(stu) = ab + c /\ \A i \in 1 .. ab + c : stu[i] = IF i <= ab THEN st[i] ELSE u[i - ab]
    BY <1>1, <1>4, <2>1, <2>2
  <2> QED
    BY <2>1, <2>3
<1>6. ASSUME NEW j \in 1 .. a PROVE stu[j] = s[j]
  <2>1. j \in 1 .. a + b /\ j <= a /\ j \in 1 .. (a + b) + c /\ j <= a + b
    OBVIOUS
  <2> QED
    BY <1>3, <1>5, <2>1
<1>7. ASSUME NEW j \in 1 .. b PROVE stu[a + j] = t[j]
  <2>1. /\ a + j \in 1 .. a + b /\ ~(a + j <= a) /\ (a + j) - a = j
        /\ a + j \in 1 .. (a + b) + c /\ a + j <= a + b
    OBVIOUS
  <2> QED
    BY <1>3, <1>5, <2>1
<1>8. PICK part : part = SubSeq(stu, a + 1, a + b)
  OBVIOUS
<1>9. part \in Seq(S) /\ Len(part) = b /\ \A j \in 1 .. b : part[j] = stu[a + j]
  <2>1. a + b <= Len(stu)
    BY <1>5
  <2> QED
    BY <1>8, <2>1, PartIs
<1>10. part = t
  BY <1>1, <1>7, <1>9, SeqEqual
<1> QED
  BY <1>1, <1>2, <1>4, <1>5, <1>6, <1>8, <1>10

Between(s, t, u) ==
    /\ SubSeq(s \o t \o u, Len(s) + 1, Len(s) + Len(t)) = t
    /\ (s \o t) \o u = s \o (t \o u)

LEMMA IsBetween ==
    ASSUME NEW S, NEW s \in Seq(S), NEW t \in Seq(S), NEW u \in Seq(S)
    PROVE  Between(s, t, u)
<1>1. (s \o t) \o u = s \o (t \o u)
  BY ConcatAssociative
<1> QED
  BY <1>1, Middle DEF Between

(* The parts of a sequence built from four, of lengths a, b, c and d.          *)
Parts(frame, head, id, other, payload, a, b, c, d) ==
    /\ Len(frame) = a + b + c + d
    /\ \A j \in 1 .. a : frame[j] = head[j]
    /\ SubSeq(frame, a + 1, a + b) = id
    /\ SubSeq(frame, a + b + 1, a + b + c) = other
    /\ SubSeq(frame, a + b + c + 1, a + b + c + d) = payload

LEMMA FourParts ==
    ASSUME NEW S, NEW head \in Seq(S), NEW id \in Seq(S), NEW other \in Seq(S), NEW payload \in Seq(S)
    PROVE  /\ head \o id \o other \o payload \in Seq(S)
           /\ Parts(head \o id \o other \o payload, head, id, other, payload,
                    Len(head), Len(id), Len(other), Len(payload))
<1>0. PICK a \in Nat, b \in Nat, c \in Nat, d \in Nat :
          a = Len(head) /\ b = Len(id) /\ c = Len(other) /\ d = Len(payload)
  BY LenProperties
<1>1. PICK rest \in Seq(S) : rest = other \o payload
  BY ConcatProperties
<1>2. PICK named \in Seq(S) : named = head \o id /\ Len(named) = a + b
  <2>1. head \o id \in Seq(S) /\ Len(head \o id) = Len(head) + Len(id)
    BY ConcatProperties
  <2> QED
    BY <1>0, <2>1
<1>3. PICK header \in Seq(S) : header = named \o other /\ Len(header) = a + b + c
  <2>1. named \o other \in Seq(S) /\ Len(named \o other) = Len(named) + Len(other)
    BY ConcatProperties
  <2> QED
    BY <1>0, <1>2, <2>1
<1>4. PICK none \in Seq(S) : none = <<>>
  BY EmptySeq
<1>5. PICK frame : frame = header \o payload
  OBVIOUS
<1>6. frame \in Seq(S) /\ Len(frame) = a + b + c + d
  <2>1. header \o payload \in Seq(S) /\ Len(header \o payload) = Len(header) + Len(payload)
    BY ConcatProperties
  <2> QED
    BY <1>0, <1>3, <1>5, <2>1
<1>7. frame = head \o id \o rest
  <2>0. Between(named, other, payload)
    BY IsBetween
  <2>1. (named \o other) \o payload = named \o (other \o payload)
    BY <2>0 DEF Between
  <2> QED
    BY <1>1, <1>2, <1>3, <1>5, <2>1
<1>8. frame = named \o other \o payload /\ frame = header \o payload \o none
  <2>1. frame \o none = frame
    BY <1>4, <1>6, ConcatEmptySeq
  <2> QED
    BY <1>3, <1>5, <2>1
<1>9. SubSeq(frame, a + 1, a + b) = id /\ \A j \in 1 .. a : frame[j] = head[j]
  <2>0. Between(head, id, rest)
    BY IsBetween
  <2>1. SubSeq(head \o id \o rest, Len(head) + 1, Len(head) + Len(id)) = id
    BY <2>0 DEF Between
  <2>2. \A j \in 1 .. Len(head) : (head \o id \o rest)[j] = head[j]
    BY Middle
  <2> QED
    BY <1>0, <1>7, <2>1, <2>2
<1>10. SubSeq(frame, a + b + 1, a + b + c) = other
  <2>0. Between(named, other, payload)
    BY IsBetween
  <2>1. SubSeq(named \o other \o payload, Len(named) + 1, Len(named) + Len(other)) = other
    BY <2>0 DEF Between
  <2> QED
    BY <1>0, <1>2, <1>8, <2>1
<1>11. SubSeq(frame, a + b + c + 1, a + b + c + d) = payload
  <2>0. Between(header, payload, none)
    BY IsBetween
  <2>1. SubSeq(header \o payload \o none, Len(header) + 1, Len(header) + Len(payload)) = payload
    BY <2>0 DEF Between
  <2> QED
    BY <1>0, <1>3, <1>8, <2>1
<1>12. frame = head \o id \o other \o payload
  BY <1>2, <1>3, <1>5
<1> QED
  BY <1>0, <1>6, <1>9, <1>10, <1>11, <1>12 DEF Parts

Framed(type, id, correlation, payload) ==
    <<Version * 16 + type>> \o id \o correlation \o payload

Fielded(frame, type, id, correlation, payload) ==
    /\ frame \in Seq(Byte) /\ Len(frame) = HeaderSize + Len(payload)
    /\ frame[1] \div 16 = Version /\ frame[1] % 16 = type
    /\ Field(frame, 1) = id /\ Field(frame, 2) = correlation
    /\ SubSeq(frame, HeaderSize + 1, Len(frame)) = payload

(* The fields of a frame that was built are what it was built from.            *)
LEMMA FrameBuilt ==
    ASSUME NEW type \in 0 .. 15, NEW id \in IdBytes, NEW correlation \in IdBytes,
           NEW payload \in Seq(Byte)
    PROVE  Fielded(Framed(type, id, correlation, payload), type, id, correlation, payload)
<1>1. PICK size \in Nat : size = IdSize /\ HeaderSize = 1 + 2 * size
  BY SizesAre
<1>2. PICK len \in Nat : len = Len(payload)
  BY LenProperties
<1>3. id \in Seq(Byte) /\ Len(id) = size /\ correlation \in Seq(Byte) /\ Len(correlation) = size
  BY <1>1 DEF IdBytes
<1>4. PICK first \in Byte : first = Version * 16 + type /\ first = 16 + type
  BY DEF Version, Byte
<1>5. PICK head \in Seq(Byte) : head = <<first>> /\ Len(head) = 1 /\ head[1] = first
  BY Singleton
<1>6. PICK frame : frame = head \o id \o correlation \o payload
  OBVIOUS
<1>7. /\ frame \in Seq(Byte) /\ Len(frame) = 1 + size + size + len
      /\ SubSeq(frame, 1 + 1, 1 + size) = id
      /\ SubSeq(frame, 1 + size + 1, 1 + size + size) = correlation
      /\ SubSeq(frame, 1 + size + size + 1, 1 + size + size + len) = payload
      /\ \A j \in 1 .. 1 : frame[j] = head[j]
  <2>1. PICK a \in Seq(Byte), b \in Seq(Byte) : a = id /\ b = correlation
    BY <1>3
  <2>2. Len(head) = 1 /\ Len(a) = size /\ Len(b) = size /\ Len(payload) = len
    BY <1>2, <1>3, <1>5, <2>1
  <2>3. PICK f : f = head \o a \o b \o payload
    OBVIOUS
  <2>4. f \in Seq(Byte) /\ Parts(f, head, a, b, payload, Len(head), Len(a), Len(b), Len(payload))
    BY <2>3, FourParts
  <2> QED
    BY <1>6, <2>1, <2>2, <2>3, <2>4 DEF Parts
<1>8. frame[1] = first
  BY <1>5, <1>7
<1>9. frame[1] \div 16 = Version /\ frame[1] % 16 = type
  BY <1>4, <1>8 DEF Version
<1>10. Field(frame, 1) = id
  <2>1. (1 - 1) * size + 2 = 1 + 1 /\ 1 * size + 1 = 1 + size
    OBVIOUS
  <2> QED
    BY <1>1, <1>7, <2>1 DEF Field
<1>11. Field(frame, 2) = correlation
  <2>1. (2 - 1) * size + 2 = 1 + size + 1 /\ 2 * size + 1 = 1 + size + size
    OBVIOUS
  <2> QED
    BY <1>1, <1>7, <2>1 DEF Field
<1>12. Len(frame) = HeaderSize + len /\ SubSeq(frame, HeaderSize + 1, Len(frame)) = payload
  <2>1. HeaderSize = 1 + size + size
    BY <1>1
  <2> QED
    BY <1>7, <2>1
<1>13. frame = Framed(type, id, correlation, payload)
  BY <1>4, <1>5, <1>6 DEF Framed
<1>14. Fielded(frame, type, id, correlation, payload)
  BY <1>2, <1>7, <1>9, <1>10, <1>11, <1>12 DEF Fielded
<1> QED
  BY <1>13, <1>14

(* A frame is its fields, one after the other.                                 *)
LEMMA FrameTaken ==
    ASSUME NEW frame \in Seq(Byte), NEW envelope \in Envelope(frame)
    PROVE  /\ Legal(envelope) /\ envelope.type \in 1 .. 6
           /\ envelope.id \in IdBytes \ {Zero} /\ envelope.correlation \in IdBytes
           /\ envelope.payload \in Seq(Byte) /\ Len(frame) = HeaderSize + Len(envelope.payload)
           /\ Len(frame) <= FrameMax /\ frame[1] \div 16 = Version /\ frame[1] % 16 = envelope.type
           /\ frame = Framed(envelope.type, envelope.id, envelope.correlation, envelope.payload)
<1>1. PICK size \in Nat : size = IdSize /\ HeaderSize = 1 + 2 * size
  BY SizesAre
<1>2. PICK len \in Nat : len = Len(frame)
  BY LenProperties
<1>3. /\ len \in HeaderSize .. FrameMax /\ frame[1] \div 16 = Version
      /\ envelope = [type |-> frame[1] % 16, id |-> Field(frame, 1), correlation |-> Field(frame, 2),
                     payload |-> SubSeq(frame, HeaderSize + 1, len)]
      /\ Legal(envelope)
  BY <1>2 DEF Envelope
<1>4. PICK count \in Nat : len = 1 + 2 * size + count
  <2>1. len - (1 + 2 * size) \in Nat /\ len = 1 + 2 * size + (len - (1 + 2 * size))
    BY <1>1, <1>3, SizesAre
  <2> QED
    BY <2>1
<1>5. PICK id, correlation, payload :
          /\ id = SubSeq(frame, 1 + 1, 1 + size)
          /\ correlation = SubSeq(frame, (1 + size) + 1, (1 + size) + size)
          /\ payload = SubSeq(frame, (1 + 2 * size) + 1, (1 + 2 * size) + count)
  OBVIOUS
<1>6. envelope.id = id /\ envelope.correlation = correlation /\ envelope.payload = payload
  <2>1. (1 - 1) * size + 2 = 1 + 1 /\ 1 * size + 1 = 1 + size
    OBVIOUS
  <2>2. (2 - 1) * size + 2 = (1 + size) + 1 /\ 2 * size + 1 = (1 + size) + size
    OBVIOUS
  <2>3. Field(frame, 1) = id
    BY <1>1, <1>5, <2>1 DEF Field
  <2>4. Field(frame, 2) = correlation
    BY <1>1, <1>5, <2>2 DEF Field
  <2>5. SubSeq(frame, HeaderSize + 1, len) = payload
    BY <1>1, <1>4, <1>5
  <2> QED
    BY <1>3, <2>3, <2>4, <2>5
<1>7. id \in Seq(Byte) /\ Len(id) = size
  <2>1. 1 + size <= Len(frame) /\ 1 \in Nat
    BY <1>2, <1>4
  <2> QED
    BY <1>5, <2>1, PartIs
<1>8. correlation \in Seq(Byte) /\ Len(correlation) = size
  <2>1. (1 + size) + size <= Len(frame) /\ 1 + size \in Nat
    BY <1>2, <1>4
  <2> QED
    BY <1>5, <2>1, PartIs
<1>9. payload \in Seq(Byte) /\ Len(payload) = count
  <2>1. (1 + 2 * size) + count <= Len(frame) /\ 1 + 2 * size \in Nat
    BY <1>2, <1>4
  <2> QED
    BY <1>5, <2>1, PartIs
<1>10. envelope.type \in 1 .. 6
  <2>1. Types \subseteq 1 .. 6
    BY DEF Types, Type
  <2> QED
    BY <1>3, <2>1 DEF Legal
<1>11. PICK first \in Byte : first = frame[1] /\ first = Version * 16 + envelope.type
  <2>1. 1 \in 1 .. len
    BY <1>4
  <2>2. PICK first \in Byte : first = frame[1]
    BY <1>2, <2>1, ElementOfSeq
  <2>3. first \div 16 = 1 /\ first % 16 = envelope.type
    BY <1>3, <2>2 DEF Version
  <2>4. first = 16 + envelope.type
    BY <1>10, <2>2, <2>3 DEF Byte
  <2> QED
    BY <2>2, <2>4 DEF Version
<1>12. frame = <<first>> \o id \o correlation \o payload
  <2>1. SubSeq(frame, 1, 1) = <<first>>
    <3>1. PICK head \in Seq(Byte) : head = <<first>> /\ Len(head) = 1 /\ head[1] = first
      BY Singleton
    <3>2. PICK part : part = SubSeq(frame, 0 + 1, 0 + 1)
      OBVIOUS
    <3>3. part \in Seq(Byte) /\ Len(part) = 1 /\ \A j \in 1 .. 1 : part[j] = frame[0 + j]
      <4>1. 0 + 1 <= Len(frame) /\ 0 \in Nat /\ 1 \in Nat
        BY <1>2, <1>4
      <4> QED
        BY <3>2, <4>1, PartIs
    <3>4. part = head
      <4>1. ASSUME NEW j \in 1 .. 1 PROVE part[j] = head[j]
        <5>1. j = 1 /\ 0 + j = 1
          OBVIOUS
        <5>2. part[j] = frame[1]
          BY <3>3, <5>1
        <5> QED
          BY <1>11, <3>1, <5>1, <5>2
      <4> QED
        BY <3>1, <3>3, <4>1, SeqEqual
    <3>5. part = SubSeq(frame, 1, 1)
      BY <3>2
    <3> QED
      BY <3>1, <3>4, <3>5, Zenon
  <2>2. SubSeq(frame, 1, 1) \o SubSeq(frame, 1 + 1, 1 + size) = SubSeq(frame, 1, 1 + size)
    <3>1. 1 \in 1 .. Len(frame) + 1 /\ 1 \in 1 - 1 .. Len(frame) /\ 1 + size \in 1 .. Len(frame)
      BY <1>2, <1>4
    <3> QED
      BY <3>1, ConcatAdjacentSubSeq
  <2>3. SubSeq(frame, 1, 1 + size) \o SubSeq(frame, (1 + size) + 1, (1 + size) + size)
            = SubSeq(frame, 1, 1 + 2 * size)
    <3>1. /\ 1 \in 1 .. Len(frame) + 1 /\ 1 + size \in 1 - 1 .. Len(frame)
          /\ (1 + size) + size \in 1 + size .. Len(frame) /\ (1 + size) + size = 1 + 2 * size
      BY <1>2, <1>4
    <3> QED
      BY <3>1, ConcatAdjacentSubSeq
  <2>4. SubSeq(frame, 1, 1 + 2 * size) \o SubSeq(frame, (1 + 2 * size) + 1, (1 + 2 * size) + count)
            = SubSeq(frame, 1, Len(frame))
    <3>1. /\ 1 \in 1 .. Len(frame) + 1 /\ 1 + 2 * size \in 1 - 1 .. Len(frame)
          /\ (1 + 2 * size) + count \in 1 + 2 * size .. Len(frame)
          /\ (1 + 2 * size) + count = Len(frame)
      BY <1>2, <1>4
    <3> QED
      BY <3>1, ConcatAdjacentSubSeq
  <2>5. SubSeq(frame, 1, Len(frame)) = frame
    BY SubSeqFull
  <2> QED
    BY <1>5, <2>1, <2>2, <2>3, <2>4, <2>5
<1>13. id \in IdBytes \ {Zero} /\ correlation \in IdBytes
  <2>1. id # Zero
    BY <1>3, <1>6 DEF Legal
  <2> QED
    BY <1>1, <1>7, <1>8, <2>1 DEF IdBytes
<1>14. Len(frame) = HeaderSize + Len(envelope.payload)
  BY <1>1, <1>2, <1>4, <1>6, <1>9
<1>15. Len(frame) <= FrameMax /\ frame[1] % 16 = envelope.type
  BY <1>2, <1>3, SizesAre
<1>16. frame = Framed(envelope.type, envelope.id, envelope.correlation, envelope.payload)
  BY <1>6, <1>11, <1>12 DEF Framed
<1> QED
  BY <1>3, <1>6, <1>9, <1>10, <1>13, <1>14, <1>15, <1>16

------------------------------------------------------------------------------
(* Payloads.                                                                   *)

LEMMA TwoParts ==
    ASSUME NEW S, NEW s \in Seq(S), NEW t \in Seq(S)
    PROVE  /\ s \o t \in Seq(S) /\ Len(s \o t) = Len(s) + Len(t)
           /\ SubSeq(s \o t, 1, Len(s)) = s
           /\ SubSeq(s \o t, Len(s) + 1, Len(s) + Len(t)) = t
<1>1. PICK a \in Nat, b \in Nat : a = Len(s) /\ b = Len(t)
  BY LenProperties
<1>2. PICK st : st = s \o t
  OBVIOUS
<1>3. /\ s \o t \in Seq(S) /\ Len(s \o t) = Len(s) + Len(t)
      /\ \A i \in 1 .. Len(s) + Len(t) : (s \o t)[i] = IF i <= Len(s) THEN s[i] ELSE t[i - Len(s)]
  BY ConcatProperties
<1>4. st \in Seq(S) /\ Len(st) = a + b /\ \A i \in 1 .. a + b : st[i] = IF i <= a THEN s[i] ELSE t[i - a]
  BY <1>1, <1>2, <1>3
<1>5. SubSeq(st, 1, a) = s
  <2>1. PICK part : part = SubSeq(st, 0 + 1, 0 + a)
    OBVIOUS
  <2>2. part \in Seq(S) /\ Len(part) = a /\ \A j \in 1 .. a : part[j] = st[0 + j]
    <3>1. 0 + a <= Len(st)
      BY <1>4
    <3> QED
      BY <1>4, <2>1, <3>1, PartIs
  <2>3. ASSUME NEW j \in 1 .. a PROVE part[j] = s[j]
    <3>1. j \in 1 .. a + b /\ j <= a /\ 0 + j = j
      OBVIOUS
    <3> QED
      BY <1>4, <2>2, <3>1
  <2>4. part = s
    BY <1>1, <2>2, <2>3, SeqEqual
  <2> QED
    BY <2>1, <2>4
<1>6. SubSeq(st, a + 1, a + b) = t
  <2>1. PICK part : part = SubSeq(st, a + 1, a + b)
    OBVIOUS
  <2>2. part \in Seq(S) /\ Len(part) = b /\ \A j \in 1 .. b : part[j] = st[a + j]
    <3>1. a + b <= Len(st)
      BY <1>4
    <3> QED
      BY <1>4, <2>1, <3>1, PartIs
  <2>3. ASSUME NEW j \in 1 .. b PROVE part[j] = t[j]
    <3>1. a + j \in 1 .. a + b /\ ~(a + j <= a) /\ (a + j) - a = j
      OBVIOUS
    <3> QED
      BY <1>4, <2>2, <3>1
  <2>4. part = t
    BY <1>1, <2>2, <2>3, SeqEqual
  <2> QED
    BY <2>1, <2>4
<1> QED
  BY <1>1, <1>2, <1>3, <1>5, <1>6

LEMMA HeadAndTail ==
    ASSUME NEW S, NEW x \in S, NEW t \in Seq(S)
    PROVE  /\ <<x>> \o t \in Seq(S) /\ Len(<<x>> \o t) = 1 + Len(t) /\ <<x>> \o t # <<>>
           /\ Head(<<x>> \o t) = x /\ Tail(<<x>> \o t) = t
<1>1. PICK head \in Seq(S) : head = <<x>> /\ Len(head) = 1 /\ head[1] = x
  BY Singleton
<1>2. PICK b \in Nat : b = Len(t)
  BY LenProperties
<1>3. PICK xt : xt = head \o t
  OBVIOUS
<1>4. /\ xt \in Seq(S) /\ Len(xt) = 1 + b /\ SubSeq(xt, 1 + 1, 1 + b) = t
      /\ \A i \in 1 .. 1 + b : xt[i] = IF i <= 1 THEN head[i] ELSE t[i - 1]
  BY <1>1, <1>2, <1>3, TwoParts, ConcatProperties
<1>5. xt # <<>> /\ xt[1] = x
  <2>1. 1 \in 1 .. 1 + b
    OBVIOUS
  <2> QED
    BY <1>1, <1>4, <2>1, EmptySeq
<1>6. Tail(xt) = t
  <2>1. Tail(xt) = SubSeq(xt, 2, Len(xt))
    BY <1>4, <1>5, TailIsSubSeq
  <2> QED
    BY <1>4, <2>1
<1>7. Head(xt) = x
  BY <1>4, <1>5
<1> QED
  BY <1>1, <1>2, <1>3, <1>4, <1>5, <1>6, <1>7

(* The messages that callers send, of any bytes, texts and lists.              *)
Lists == {refs \in Seq(AnyRefs) : IsInjective(refs)}

ThreadMessages == [type : {Type.THREAD}, text : Texts]
SyncPostMessages == [type : {Type.SYNC_POST}, thread : IdBytes \ {Zero}, text : Texts]
SyncMessages == [type : {Type.SYNC}, reply : BOOLEAN, refs : Lists]
WantMessages == [type : {Type.WANT}, refs : Lists]
AckMessages == [type : {Type.COMMIT_ACK}]
AnyMessages == UNION {ThreadMessages, SyncPostMessages, SyncMessages, WantMessages, AckMessages}

\* Each of its payloads says what the message says.
IsRead(message) ==
    \A payload \in Payloads(message) :
        payload \in Seq(Byte) /\ Contents(message.type, payload) = {Clean(message)}

\* It has one if and only if a frame has room for it.
IsBuilt(message) ==
    (\E payload \in Payloads(message) : Len(payload) <= PayloadMax) <=> Fits(message)

LEMMA TypesAre ==
    /\ Type.POST = 1 /\ Type.COMMIT_ACK = 2 /\ Type.WANT = 3
    /\ Type.SYNC = 4 /\ Type.THREAD = 5 /\ Type.SYNC_POST = 6
    /\ Types = 1 .. 6
<1>1. /\ Type.POST = 1 /\ Type.COMMIT_ACK = 2 /\ Type.WANT = 3
      /\ Type.SYNC = 4 /\ Type.THREAD = 5 /\ Type.SYNC_POST = 6
  BY DEF Type
<1>2. DOMAIN Type = {"POST", "COMMIT_ACK", "WANT", "SYNC", "THREAD", "SYNC_POST"}
  BY DEF Type
<1>3. Types = {Type["POST"], Type["COMMIT_ACK"], Type["WANT"], Type["SYNC"], Type["THREAD"],
               Type["SYNC_POST"]}
  BY <1>2 DEF Types
<1>4. Types = {1, 2, 3, 4, 5, 6}
  BY <1>1, <1>3
<1> QED
  BY <1>1, <1>4

(* A text that is written can be read, and is as written but for white space.  *)
LEMMA TextIsRead ==
    ASSUME NEW text \in Texts, NEW maximum \in Int, NEW bytes \in EncodeText(text, maximum)
    PROVE  /\ bytes \in Seq(Byte) /\ Len(bytes) \in Nat \ {0} /\ Len(bytes) <= maximum
           /\ DecodeText(bytes) = {Strip(text)}
<1>1. Strip(text) # <<>> /\ Len(Utf8[Strip(text)]) <= maximum /\ bytes = Utf8[Strip(text)]
  BY EncodeTextIs
<1>2. PICK stripped \in Texts : stripped = Strip(text) /\ Stripped(stripped) /\ stripped # <<>>
  BY <1>1, StripIs
<1>3. Utf8[stripped] \in Seq(Byte) /\ Len(Utf8[stripped]) \in Nat \ {0}
  BY <1>2, Utf8Type, Utf8NotEmpty
<1>4. DecodeText(Utf8[stripped]) = {stripped}
  BY <1>2, DecodeTextEncoded
<1> QED
  BY <1>1, <1>2, <1>3, <1>4

LEMMA TextIsWritten ==
    ASSUME NEW text \in Texts, NEW maximum \in Int
    PROVE  EncodeText(text, maximum) # {}
               <=> Strip(text) # <<>> /\ Len(Utf8[Strip(text)]) <= maximum
<1>1. PICK bytes : bytes = Utf8[Strip(text)]
  OBVIOUS
<1>2. bytes \in EncodeText(text, maximum)
          <=> Strip(text) # <<>> /\ Len(Utf8[Strip(text)]) <= maximum
  BY <1>1, EncodeTextIs
<1>3. ASSUME NEW other \in EncodeText(text, maximum) PROVE other = bytes
  BY <1>1, EncodeTextIs
<1> QED
  BY <1>2, <1>3

LEMMA ThreadSent ==
    ASSUME NEW message \in ThreadMessages
    PROVE  IsRead(message) /\ IsBuilt(message)
<1>1. PICK text \in Texts : message = [type |-> Type.THREAD, text |-> text]
  BY DEF ThreadMessages
<1>2. message.type = Type.THREAD /\ message.type = 5 /\ message.text = text
  BY <1>1, TypesAre
<1>3. Payloads(message) = EncodeText(text, PayloadMax)
  BY <1>2, TypesAre DEF Payloads
<1>4. Clean(message) = [type |-> Type.THREAD, text |-> Strip(text)]
  BY <1>1, <1>2 DEF Clean
<1>5. ASSUME NEW payload \in EncodeText(text, PayloadMax)
      PROVE  /\ payload \in Seq(Byte) /\ Len(payload) <= PayloadMax
             /\ Contents(message.type, payload) = {Clean(message)}
  <2>1. payload \in Seq(Byte) /\ Len(payload) <= PayloadMax /\ DecodeText(payload) = {Strip(text)}
    BY SizesAre, TextIsRead
  <2>2. Contents(message.type, payload) = DecodeThread(payload)
    BY <1>2, TypesAre DEF Contents
  <2>3. DecodeThread(payload) = {[type |-> Type.THREAD, text |-> Strip(text)]}
    BY <2>1 DEF DecodeThread
  <2> QED
    BY <1>4, <2>1, <2>2, <2>3
<1>6. Fits(message) <=> Strip(text) # <<>> /\ Len(Utf8[Strip(text)]) <= PayloadMax
  BY <1>2, TypesAre DEF Fits
<1>7. EncodeText(text, PayloadMax) # {} <=> Fits(message)
  BY <1>6, SizesAre, TextIsWritten
<1> QED
  BY <1>3, <1>5, <1>7 DEF IsRead, IsBuilt

LEMMA SyncPostSent ==
    ASSUME NEW message \in SyncPostMessages
    PROVE  IsRead(message) /\ IsBuilt(message)
<1>1. PICK text \in Texts, thread \in IdBytes \ {Zero} :
          message = [type |-> Type.SYNC_POST, thread |-> thread, text |-> text]
  BY DEF SyncPostMessages
<1>2. message.type = Type.SYNC_POST /\ message.type = 6 /\ message.text = text /\ message.thread = thread
  BY <1>1, TypesAre
<1>3. PICK size \in Nat, maximum \in Int, room \in Int :
          size = IdSize /\ room = PayloadMax /\ maximum = room - size /\ maximum = PayloadMax - IdSize
  BY SizesAre
<1>4. Payloads(message) = {thread \o bytes : bytes \in EncodeText(text, maximum)}
  BY <1>2, <1>3, TypesAre DEF Payloads
<1>5. Clean(message) = [type |-> Type.SYNC_POST, thread |-> thread, text |-> Strip(text)]
  BY <1>1, <1>2 DEF Clean
<1>6. thread \in Seq(Byte) /\ Len(thread) = size /\ thread # Zero
  BY <1>3 DEF IdBytes
<1>7. ASSUME NEW bytes \in EncodeText(text, maximum), NEW payload, payload = thread \o bytes
      PROVE  /\ payload \in Seq(Byte) /\ Len(payload) <= PayloadMax
             /\ Contents(message.type, payload) = {Clean(message)}
  <2>1. PICK len \in Nat \ {0} : len = Len(bytes) /\ len <= maximum /\ bytes \in Seq(Byte)
    BY TextIsRead
  <2>2. DecodeText(bytes) = {Strip(text)}
    BY TextIsRead
  <2>3. /\ thread \o bytes \in Seq(Byte) /\ Len(thread \o bytes) = Len(thread) + Len(bytes)
        /\ SubSeq(thread \o bytes, 1, Len(thread)) = thread
        /\ SubSeq(thread \o bytes, Len(thread) + 1, Len(thread) + Len(bytes)) = bytes
    <3>1. PICK s \in Seq(Byte), t \in Seq(Byte) : s = thread /\ t = bytes
      BY <1>6, <2>1
    <3>2. /\ s \o t \in Seq(Byte) /\ Len(s \o t) = Len(s) + Len(t)
          /\ SubSeq(s \o t, 1, Len(s)) = s /\ SubSeq(s \o t, Len(s) + 1, Len(s) + Len(t)) = t
      BY TwoParts
    <3> QED
      BY <3>1, <3>2
  <2>4. /\ payload \in Seq(Byte) /\ Len(payload) = size + len
        /\ SubSeq(payload, 1, size) = thread /\ SubSeq(payload, size + 1, size + len) = bytes
    BY <1>6, <1>7, <2>1, <2>3
  <2>5. Contents(message.type, payload) = DecodeSyncPost(payload)
    BY <1>2, TypesAre DEF Contents
  <2>6. ~(Len(payload) <= IdSize) /\ Len(payload) <= PayloadMax
    BY <1>3, <2>1, <2>4
  <2>7. DecodeSyncPost(payload)
            = {[type |-> Type.SYNC_POST, thread |-> thread, text |-> t] : t \in DecodeText(bytes)}
    BY <1>3, <1>6, <2>4, <2>6 DEF DecodeSyncPost
  <2>8. DecodeSyncPost(payload) = {[type |-> Type.SYNC_POST, thread |-> thread, text |-> Strip(text)]}
    BY <2>2, <2>7
  <2> QED
    BY <1>5, <2>4, <2>5, <2>6, <2>8
<1>8. Fits(message) <=> Strip(text) # <<>> /\ IdSize + Len(Utf8[Strip(text)]) <= PayloadMax
  BY <1>2, TypesAre DEF Fits
<1>9. EncodeText(text, maximum) # {} <=> Fits(message)
  <2>1. Strip(text) # <<>> => Len(Utf8[Strip(text)]) \in Nat
    BY StripIs, Utf8NotEmpty
  <2>2. EncodeText(text, maximum) # {} <=> Strip(text) # <<>> /\ Len(Utf8[Strip(text)]) <= maximum
    BY TextIsWritten
  <2>3. ASSUME Strip(text) # <<>>
        PROVE  Len(Utf8[Strip(text)]) <= maximum <=> IdSize + Len(Utf8[Strip(text)]) <= PayloadMax
    BY <1>3, <2>1, <2>3
  <2> QED
    BY <1>8, <2>2, <2>3
<1>10. IsRead(message)
  BY <1>4, <1>7 DEF IsRead
<1>11. (\E payload \in Payloads(message) : Len(payload) <= PayloadMax)
           <=> EncodeText(text, maximum) # {}
  BY <1>4, <1>7
<1> QED
  BY <1>9, <1>10, <1>11 DEF IsBuilt

LEMMA SyncSent ==
    ASSUME NEW message \in SyncMessages
    PROVE  IsRead(message) /\ IsBuilt(message)
<1>1. PICK refs \in Lists, reply \in BOOLEAN :
          message = [type |-> Type.SYNC, reply |-> reply, refs |-> refs]
  BY DEF SyncMessages
<1>2. message.type = Type.SYNC /\ message.type = 4 /\ message.refs = refs /\ message.reply = reply
  BY <1>1, TypesAre
<1>3. PICK n \in Nat, room \in Int : n = Len(refs) /\ room = PayloadMax - 1
  <2>1. PayloadMax - 1 \in Int
    BY SizesAre
  <2>2. Len(refs) \in Nat
    BY LenProperties DEF Lists
  <2> QED
    BY <2>1, <2>2
<1>4. PICK flag \in {0, 1} : flag = (IF reply THEN 1 ELSE 0) /\ reply = (flag = 1)
  <2>1. CASE reply
    BY <2>1
  <2>2. CASE ~reply
    BY <2>2
  <2> QED
    BY <2>1, <2>2
<1>5. PICK bytes \in Seq(Byte) : bytes = EncodeRefs(refs) /\ Len(bytes) = n * RefSize
  BY <1>3, EncodeRefsIs DEF Lists
<1>6. PICK payload : payload = <<flag>> \o bytes
  OBVIOUS
<1>7. Payloads(message) = IF n > MaxSyncRefs THEN {} ELSE {payload}
  <2>1. Payloads(message) =
            IF Len(message.refs) > MaxSyncRefs THEN {}
            ELSE {<<IF message.reply THEN 1 ELSE 0>> \o EncodeRefs(message.refs)}
    BY <1>2, TypesAre DEF Payloads
  <2>2. <<IF message.reply THEN 1 ELSE 0>> \o EncodeRefs(message.refs) = payload
    BY <1>2, <1>4, <1>5, <1>6
  <2> QED
    BY <1>2, <1>3, <2>1, <2>2
<1>8. /\ payload \in Seq(Byte) /\ Len(payload) = 1 + Len(bytes) /\ payload # <<>>
      /\ Head(payload) = flag /\ Tail(payload) = bytes
  <2>1. flag \in Byte
    BY DEF Byte
  <2> QED
    BY <1>6, <2>1, HeadAndTail
<1>9. n * RefSize <= room <=> n <= MaxSyncRefs
  <2>1. MaxSyncRefs = room \div RefSize
    BY <1>3 DEF MaxSyncRefs
  <2> QED
    BY <2>1, SizesAre, Room
<1>10. PICK used \in Nat : used = n * RefSize
  BY SizesAre, Times
<1>11. n <= MaxSyncRefs <=> Len(payload) <= PayloadMax
  <2>1. used <= room <=> 1 + used <= PayloadMax
    BY <1>3, SizesAre
  <2> QED
    BY <1>5, <1>8, <1>9, <1>10, <2>1
<1>12. Clean(message) = message
  BY <1>2, TypesAre DEF Clean
<1>13. ASSUME n <= MaxSyncRefs PROVE Contents(message.type, payload) = {Clean(message)}
  <2>1. Contents(message.type, payload) = DecodeSync(payload)
    BY <1>2, TypesAre DEF Contents
  <2>2. DecodeRefs(Tail(payload)) = {refs}
    BY <1>5, <1>8, DecodeRefsEncoded DEF Lists
  <2>3. {r \in DecodeRefs(Tail(payload)) : Len(r) <= MaxSyncRefs} = {refs}
    BY <1>3, <1>13, <2>2
  <2>4. DecodeSync(payload) = {[type |-> Type.SYNC, reply |-> Head(payload) = 1, refs |-> r] : r \in {refs}}
    BY <1>8, <2>3 DEF DecodeSync
  <2>5. (Head(payload) = 1) = reply
    BY <1>4, <1>8
  <2>6. DecodeSync(payload) = {message}
    BY <1>1, <2>4, <2>5
  <2> QED
    BY <1>12, <2>1, <2>6
<1>14. Fits(message) <=> 1 + n * RefSize <= PayloadMax
  BY <1>2, <1>3, TypesAre DEF Fits
<1>15. IsRead(message)
  <2>1. ASSUME n <= MaxSyncRefs PROVE IsRead(message)
    BY <1>7, <1>8, <1>13, <2>1 DEF IsRead
  <2>2. ASSUME n > MaxSyncRefs PROVE IsRead(message)
    BY <1>7, <2>2 DEF IsRead
  <2>3. MaxSyncRefs \in Int
    BY SizesAre
  <2> QED
    BY <2>1, <2>2, <2>3
<1>16. IsBuilt(message)
  <2>1. (\E p \in Payloads(message) : Len(p) <= PayloadMax) <=> n <= MaxSyncRefs
    <3>1. n > MaxSyncRefs <=> ~(n <= MaxSyncRefs)
      BY SizesAre
    <3> QED
      BY <1>7, <1>11, <3>1
  <2>2. Fits(message) <=> Len(payload) <= PayloadMax
    BY <1>5, <1>8, <1>14
  <2> QED
    BY <1>11, <2>1, <2>2 DEF IsBuilt
<1> QED
  BY <1>15, <1>16

LEMMA WantSent ==
    ASSUME NEW message \in WantMessages
    PROVE  IsRead(message) /\ IsBuilt(message)
<1>1. PICK refs \in Lists : message = [type |-> Type.WANT, refs |-> refs]
  BY DEF WantMessages
<1>2. message.type = Type.WANT /\ message.type = 3 /\ message.refs = refs
  BY <1>1, TypesAre
<1>3. PICK n \in Nat : n = Len(refs) /\ (refs # <<>> <=> n # 0)
  BY LenProperties, EmptySeq DEF Lists
<1>4. PICK bytes \in Seq(Byte) : bytes = EncodeRefs(refs) /\ Len(bytes) = n * RefSize
  BY <1>3, EncodeRefsIs DEF Lists
<1>5. n \in 1 .. MaxWantRefs <=> n # 0 /\ Len(bytes) <= PayloadMax
  <2>1. n * RefSize <= PayloadMax <=> n <= MaxWantRefs
    BY SizesAre, Room DEF MaxWantRefs
  <2> QED
    BY <1>4, <2>1, SizesAre
<1>6. Payloads(message) = IF n \notin 1 .. MaxWantRefs THEN {} ELSE {bytes}
  BY <1>2, <1>3, <1>4, TypesAre DEF Payloads
<1>7. Clean(message) = message
  BY <1>2, TypesAre DEF Clean
<1>8. ASSUME n \in 1 .. MaxWantRefs PROVE Contents(message.type, bytes) = {Clean(message)}
  <2>1. Contents(message.type, bytes) = DecodeWant(bytes)
    BY <1>2, TypesAre DEF Contents
  <2>2. DecodeRefs(bytes) = {refs}
    BY <1>4, DecodeRefsEncoded DEF Lists
  <2>3. {r \in DecodeRefs(bytes) : Len(r) \in 1 .. MaxWantRefs} = {refs}
    BY <1>3, <1>8, <2>2
  <2>4. DecodeWant(bytes) = {message}
    BY <1>1, <2>3 DEF DecodeWant
  <2> QED
    BY <1>7, <2>1, <2>4
<1>9. Fits(message) <=> n # 0 /\ n * RefSize <= PayloadMax
  BY <1>2, <1>3, TypesAre DEF Fits
<1>10. IsRead(message)
  BY <1>6, <1>8 DEF IsRead
<1>11. IsBuilt(message)
  BY <1>4, <1>5, <1>6, <1>9 DEF IsBuilt
<1> QED
  BY <1>10, <1>11

LEMMA AckSent ==
    ASSUME NEW message \in AckMessages
    PROVE  IsRead(message) /\ IsBuilt(message)
<1>1. message = [type |-> Type.COMMIT_ACK] /\ message.type = Type.COMMIT_ACK /\ message.type = 2
  BY TypesAre DEF AckMessages
<1>2. PICK none \in Seq(Byte) : none = <<>> /\ Len(none) = 0
  BY EmptySeq
<1>3. Payloads(message) = {none}
  BY <1>1, <1>2, TypesAre DEF Payloads
<1>4. Contents(message.type, none) = {message} /\ Clean(message) = message
  BY <1>1, TypesAre DEF Contents, Clean
<1>5. Fits(message)
  BY <1>1, TypesAre DEF Fits
<1>6. 0 <= PayloadMax
  BY SizesAre
<1> QED
  BY <1>2, <1>3, <1>4, <1>5, <1>6 DEF IsRead, IsBuilt

LEMMA AnySent ==
    ASSUME NEW message \in AnyMessages
    PROVE  IsRead(message) /\ IsBuilt(message) /\ message.type \in 2 .. 6
<1>1. message.type \in 2 .. 6
  BY TypesAre DEF AnyMessages, ThreadMessages, SyncPostMessages, SyncMessages, WantMessages, AckMessages
<1> QED
  BY <1>1, ThreadSent, SyncPostSent, SyncSent, WantSent, AckSent DEF AnyMessages

(* What is read of a payload could have been sent, and is clean.               *)
LEMMA AnyRead ==
    ASSUME NEW type \in 2 .. 6, NEW payload \in Seq(Byte), Len(payload) <= PayloadMax,
           type = Type.COMMIT_ACK => payload = <<>>,
           NEW message \in Contents(type, payload)
    PROVE  /\ message \in AnyMessages /\ message.type = type
           /\ Clean(message) = message /\ Fits(message)
           /\ "text" \notin DOMAIN message => Payloads(message) = {payload}
<1>1. PICK len \in Nat, room \in Int, size \in Nat :
          len = Len(payload) /\ room = PayloadMax /\ size = IdSize /\ len <= room
  BY LenProperties, SizesAre
<1>2. CASE type = 2
  <2>1. message = [type |-> Type.COMMIT_ACK] /\ message.type = 2 /\ payload = <<>>
    BY <1>2, TypesAre DEF Contents
  <2>2. message \in AnyMessages
    BY <2>1 DEF AnyMessages, AckMessages
  <2>3. Clean(message) = message /\ Fits(message)
    BY <2>1, TypesAre DEF Clean, Fits
  <2>4. Payloads(message) = {payload}
    BY <2>1, TypesAre DEF Payloads
  <2> QED
    BY <1>2, <2>1, <2>2, <2>3, <2>4
<1>3. CASE type = 3
  <2>1. Contents(type, payload) = DecodeWant(payload)
    BY <1>3, TypesAre DEF Contents
  <2>2. PICK refs \in DecodeRefs(payload) :
            message = [type |-> Type.WANT, refs |-> refs] /\ Len(refs) \in 1 .. MaxWantRefs
    BY <2>1 DEF DecodeWant
  <2>3. refs \in Seq(AnyRefs) /\ IsInjective(refs) /\ EncodeRefs(refs) = payload
    BY DecodedRefs
  <2>4. message.type = 3 /\ message.type = Type.WANT /\ message.refs = refs
    BY <2>2, TypesAre
  <2>5. message \in AnyMessages
    BY <2>2, <2>3 DEF AnyMessages, WantMessages, Lists
  <2>6. Clean(message) = message
    BY <2>4, TypesAre DEF Clean
  <2>7. Payloads(message) = {payload}
    BY <2>2, <2>3, <2>4, TypesAre DEF Payloads
  <2>8. Fits(message)
    <3>1. Len(payload) = Len(refs) * RefSize
      BY <2>3, EncodeRefsIs
    <3>2. refs # <<>>
      BY <2>2, EmptySeq
    <3> QED
      BY <2>4, <3>1, <3>2, TypesAre DEF Fits
  <2> QED
    BY <1>3, <2>4, <2>5, <2>6, <2>7, <2>8
<1>4. CASE type = 4
  <2>1. Contents(type, payload) = DecodeSync(payload)
    BY <1>4, TypesAre DEF Contents
  <2>2. PICK refs \in DecodeRefs(Tail(payload)) :
            /\ message = [type |-> Type.SYNC, reply |-> Head(payload) = 1, refs |-> refs]
            /\ Len(refs) <= MaxSyncRefs /\ payload # <<>> /\ Head(payload) \in {0, 1}
    BY <2>1 DEF DecodeSync
  <2>3. PICK rest \in Seq(Byte) : rest = Tail(payload) /\ len = 1 + Len(rest)
    <3>1. Tail(payload) \in Seq(Byte) /\ Len(Tail(payload)) = Len(payload) - 1
      BY <2>2, HeadTailProperties
    <3>2. PICK rest \in Seq(Byte) : rest = Tail(payload)
      BY <3>1
    <3>3. len = 1 + Len(rest)
      BY <1>1, <3>1, <3>2
    <3> QED
      BY <3>2, <3>3
  <2>4. refs \in Seq(AnyRefs) /\ IsInjective(refs) /\ EncodeRefs(refs) = rest
    BY <2>3, DecodedRefs
  <2>5. /\ message.type = 4 /\ message.type = Type.SYNC /\ message.refs = refs
        /\ message.reply = (Head(payload) = 1)
    BY <2>2, TypesAre
  <2>6. message \in AnyMessages
    BY <2>2, <2>4 DEF AnyMessages, SyncMessages, Lists
  <2>7. Clean(message) = message
    BY <2>5, TypesAre DEF Clean
  <2>8. Fits(message)
    <3>1. Len(rest) = Len(refs) * RefSize
      BY <2>4, EncodeRefsIs
    <3>2. 1 + Len(refs) * RefSize <= PayloadMax
      BY <1>1, <2>3, <3>1
    <3> QED
      BY <2>5, <3>2, TypesAre DEF Fits
  <2>9. Payloads(message) = {payload}
    <3>1. Payloads(message) =
              IF Len(message.refs) > MaxSyncRefs THEN {}
              ELSE {<<IF message.reply THEN 1 ELSE 0>> \o EncodeRefs(message.refs)}
      BY <2>5, TypesAre DEF Payloads
    <3>2. PICK flag \in {0, 1} : flag = Head(payload) /\ flag = (IF message.reply THEN 1 ELSE 0)
      <4>1. CASE Head(payload) = 1
        BY <2>5, <4>1
      <4>2. CASE Head(payload) = 0
        BY <2>5, <4>2
      <4> QED
        BY <2>2, <4>1, <4>2
    <3>3. payload = <<flag>> \o rest
      <4>1. PICK again \in Seq(Byte) : /\ again = <<flag>> \o rest /\ Len(again) = 1 + Len(rest)
                                       /\ again # <<>> /\ Head(again) = flag /\ Tail(again) = rest
        <5>1. flag \in Byte
          BY DEF Byte
        <5> QED
          BY <5>1, HeadAndTail
      <4>2. Len(again) = Len(payload)
        BY <1>1, <2>3, <4>1
      <4>3. again[1] = payload[1]
        BY <2>2, <3>2, <4>1
      <4>4. \A i \in 1 .. Len(rest) : rest[i] = again[i + 1]
        BY <4>1, HeadTailProperties
      <4>5. \A i \in 1 .. Len(rest) : rest[i] = payload[i + 1]
        BY <2>2, <2>3, HeadTailProperties
      <4>6. ASSUME NEW i \in 1 .. len PROVE again[i] = payload[i]
        <5>1. CASE i = 1
          BY <4>3, <5>1
        <5>2. CASE i # 1
          <6>1. PICK j \in 1 .. Len(rest) : i = j + 1
            <7>1. i - 1 \in 1 .. Len(rest) /\ i = (i - 1) + 1
              BY <1>1, <2>3, <5>2
            <7> QED
              BY <7>1
          <6> QED
            BY <4>4, <4>5, <6>1
        <5> QED
          BY <5>1, <5>2
      <4>7. again = payload
        BY <1>1, <4>2, <4>6, SeqEqual
      <4> QED
        BY <4>1, <4>7
    <3>4. <<IF message.reply THEN 1 ELSE 0>> \o EncodeRefs(message.refs) = payload
      BY <2>4, <2>5, <3>2, <3>3
    <3>5. ~(Len(message.refs) > MaxSyncRefs)
      <4>1. Len(refs) \in Nat /\ MaxSyncRefs \in Int
        BY <2>4, LenProperties, SizesAre
      <4> QED
        BY <2>2, <2>5, <4>1
    <3> QED
      BY <3>1, <3>4, <3>5
  <2> QED
    BY <1>4, <2>5, <2>6, <2>7, <2>8, <2>9
<1>5. CASE type = 5
  <2>1. Contents(type, payload) = DecodeThread(payload)
    BY <1>5, TypesAre DEF Contents
  <2>2. PICK text \in DecodeText(payload) : message = [type |-> Type.THREAD, text |-> text]
    BY <2>1 DEF DecodeThread
  <2>3. text \in Texts /\ Stripped(text) /\ Len(Utf8[text]) <= len
    BY <1>1, DecodedText
  <2>4. Strip(text) = text /\ text # <<>> /\ Len(Utf8[text]) \in Nat
    BY <2>3, StripSame, Utf8NotEmpty DEF Stripped
  <2>5. message.type = 5 /\ message.type = Type.THREAD /\ message.text = text
    BY <2>2, TypesAre
  <2>6. message \in AnyMessages
    BY <2>2, <2>3 DEF AnyMessages, ThreadMessages
  <2>7. Clean(message) = message
    BY <2>2, <2>4, <2>5 DEF Clean
  <2>8. Fits(message)
    <3>1. Len(Utf8[text]) <= PayloadMax
      BY <1>1, <2>3, <2>4
    <3> QED
      BY <2>4, <2>5, <3>1, TypesAre DEF Fits
  <2>9. "text" \in DOMAIN message
    BY <2>2
  <2> QED
    BY <1>5, <2>5, <2>6, <2>7, <2>8, <2>9
<1>6. CASE type = 6
  <2>1. Contents(type, payload) = DecodeSyncPost(payload)
    BY <1>6, TypesAre DEF Contents
  <2>2. PICK thread, bytes : thread = SubSeq(payload, 1, size) /\ bytes = SubSeq(payload, size + 1, len)
    OBVIOUS
  <2>3. /\ ~(len <= size) /\ thread # Zero
        /\ \E text \in DecodeText(bytes) :
               message = [type |-> Type.SYNC_POST, thread |-> thread, text |-> text]
    BY <1>1, <2>1, <2>2 DEF DecodeSyncPost
  <2>4. PICK text \in DecodeText(bytes) :
            message = [type |-> Type.SYNC_POST, thread |-> thread, text |-> text]
    BY <2>3
  <2>5. thread \in IdBytes \ {Zero}
    <3>1. PICK part : part = SubSeq(payload, 0 + 1, 0 + size)
      OBVIOUS
    <3>2. 0 + size <= Len(payload)
      BY <1>1, <2>3
    <3>3. part \in Seq(Byte) /\ Len(part) = size
      BY <3>1, <3>2, PartIs
    <3>4. part = thread
      BY <2>2, <3>1
    <3> QED
      BY <1>1, <2>3, <3>3, <3>4 DEF IdBytes
  <2>6. Len(bytes) = len - size
    <3>1. PICK count \in Nat : count = len - size /\ size + count = len
      BY <2>3
    <3>2. size + count <= Len(payload)
      BY <1>1, <3>1
    <3>3. Len(SubSeq(payload, size + 1, size + count)) = count
      BY <3>2, PartIs
    <3> QED
      BY <2>2, <3>1, <3>3
  <2>7. text \in Texts /\ Stripped(text) /\ Len(Utf8[text]) <= len - size
    BY <2>6, DecodedText
  <2>8. Strip(text) = text /\ text # <<>> /\ Len(Utf8[text]) \in Nat
    BY <2>7, StripSame, Utf8NotEmpty DEF Stripped
  <2>9. message.type = 6 /\ message.type = Type.SYNC_POST /\ message.text = text
    BY <2>4, TypesAre
  <2>10. message \in AnyMessages
    BY <2>4, <2>5, <2>7 DEF AnyMessages, SyncPostMessages
  <2>11. Clean(message) = message
    BY <2>4, <2>8, <2>9 DEF Clean
  <2>12. Fits(message)
    <3>1. IdSize + Len(Utf8[text]) <= PayloadMax
      BY <1>1, <2>7, <2>8
    <3> QED
      BY <2>8, <2>9, <3>1, TypesAre DEF Fits
  <2>13. "text" \in DOMAIN message
    BY <2>4
  <2> QED
    BY <1>6, <2>9, <2>10, <2>11, <2>12, <2>13
<1> QED
  BY <1>2, <1>3, <1>4, <1>5, <1>6

------------------------------------------------------------------------------
(* Messages in frames.                                                         *)

LEMMA EncodeIs ==
    ASSUME NEW id \in IdBytes \ {Zero}, NEW correlation \in IdBytes, NEW message \in AnyMessages
    PROVE  \A frame :
               frame \in Encode(id, correlation, message)
                   <=> \E payload \in Payloads(message) :
                           /\ Len(payload) <= PayloadMax
                           /\ frame = Framed(message.type, id, correlation, payload)
<1>1. message.type \in 0 .. 15 /\ \A payload \in Payloads(message) : payload \in Seq(Byte)
  BY AnySent DEF IsRead
<1>2. ASSUME NEW payload \in Payloads(message), NEW frame,
             frame = Framed(message.type, id, correlation, payload)
      PROVE  Len(frame) <= FrameMax <=> Len(payload) <= PayloadMax
  <2>1. message.type \in 0 .. 15 /\ id \in IdBytes /\ payload \in Seq(Byte)
    BY <1>1
  <2>2. Len(frame) = HeaderSize + Len(payload)
    <3>1. Fielded(frame, message.type, id, correlation, payload)
      BY <1>2, <2>1, FrameBuilt
    <3> QED
      BY <3>1 DEF Fielded
  <2>3. Len(payload) \in Nat
    BY <2>1, LenProperties
  <2> QED
    BY <2>2, <2>3, SizesAre
<1>3. id # Zero
  OBVIOUS
<1>4. ASSUME NEW frame
      PROVE  frame \in Encode(id, correlation, message)
                 <=> \E payload \in Payloads(message) :
                         /\ Len(frame) <= FrameMax
                         /\ frame = Framed(message.type, id, correlation, payload)
  BY <1>3 DEF Encode, Framed
<1> QED
  BY <1>2, <1>4

(* What a frame is read as.                                                    *)
LEMMA DecodeIs ==
    ASSUME NEW type \in 1 .. 6, NEW id \in IdBytes \ {Zero}, NEW correlation \in IdBytes,
           NEW payload \in Seq(Byte), Len(payload) <= PayloadMax,
           type = Type.COMMIT_ACK <=> correlation # Zero,
           type = Type.COMMIT_ACK => payload = <<>>
    PROVE  \A frame :
               frame = Framed(type, id, correlation, payload) =>
                   Decode(frame) = {[id |-> id, correlation |-> correlation, message |-> m] :
                                        m \in Contents(type, payload)}
<1>1. ASSUME NEW frame, frame = Framed(type, id, correlation, payload)
      PROVE  Decode(frame) = {[id |-> id, correlation |-> correlation, message |-> m] :
                                  m \in Contents(type, payload)}
  <2>1. type \in 0 .. 15 /\ id \in IdBytes
    OBVIOUS
  <2>2. /\ frame \in Seq(Byte) /\ Len(frame) = HeaderSize + Len(payload)
        /\ frame[1] \div 16 = Version /\ frame[1] % 16 = type
        /\ Field(frame, 1) = id /\ Field(frame, 2) = correlation
        /\ SubSeq(frame, HeaderSize + 1, Len(frame)) = payload
    <3>1. Fielded(frame, type, id, correlation, payload)
      BY <1>1, <2>1, FrameBuilt
    <3> QED
      BY <3>1 DEF Fielded
  <2>3. Len(frame) \in HeaderSize .. FrameMax
    <3>1. Len(payload) \in Nat
      BY LenProperties
    <3> QED
      BY <2>2, <3>1, SizesAre
  <2>4. PICK e : e = [type |-> type, id |-> id, correlation |-> correlation, payload |-> payload]
    OBVIOUS
  <2>5. e.type = type /\ e.id = id /\ e.correlation = correlation /\ e.payload = payload
    BY <2>4
  <2>6. Legal(e)
    BY <2>5, TypesAre DEF Legal
  <2>7. Envelope(frame) = {e}
    BY <2>2, <2>3, <2>4, <2>6 DEF Envelope
  <2>8. Decode(frame) = UNION {{[id |-> e.id, correlation |-> e.correlation, message |-> m] :
                                    m \in Contents(e.type, e.payload)}}
    BY <2>7 DEF Decode
  <2> QED
    BY <2>5, <2>8
<1> QED
  BY <1>1

LEMMA AnyFrameSent ==
    ASSUME NEW id \in IdBytes \ {Zero}, NEW correlation \in IdBytes, NEW message \in AnyMessages,
           message.type = Type.COMMIT_ACK <=> correlation # Zero
    PROVE  /\ Encode(id, correlation, message) # {} <=> Fits(message)
           /\ \A frame \in Encode(id, correlation, message) :
                  Decode(frame) = {[id |-> id, correlation |-> correlation, message |-> Clean(message)]}
<1>1. IsRead(message) /\ IsBuilt(message) /\ message.type \in 1 .. 6
  BY AnySent
<1>2. Encode(id, correlation, message) # {} <=> Fits(message)
  <2>1. (\E frame : frame \in Encode(id, correlation, message))
            <=> \E payload \in Payloads(message) : Len(payload) <= PayloadMax
    BY EncodeIs
  <2> QED
    BY <1>1, <2>1 DEF IsBuilt
<1>3. ASSUME NEW frame \in Encode(id, correlation, message)
      PROVE  Decode(frame) = {[id |-> id, correlation |-> correlation, message |-> Clean(message)]}
  <2>1. PICK payload \in Payloads(message) :
            /\ Len(payload) <= PayloadMax
            /\ frame = Framed(message.type, id, correlation, payload)
    BY EncodeIs
  <2>2. payload \in Seq(Byte) /\ Contents(message.type, payload) = {Clean(message)}
    BY <1>1 DEF IsRead
  <2>3. message.type = Type.COMMIT_ACK => payload = <<>>
    BY TypesAre DEF Payloads
  <2>4. Decode(frame) = {[id |-> id, correlation |-> correlation, message |-> m] :
                             m \in Contents(message.type, payload)}
    BY <1>1, <2>1, <2>2, <2>3, DecodeIs
  <2> QED
    BY <2>2, <2>4
<1> QED
  BY <1>2, <1>3

------------------------------------------------------------------------------
(* The theorems.                                                               *)

(* Any message that a node sends, with any identifiers, and any frame at all.  *)
AnySample ==
    \/ \E message \in AnyMessages, id \in IdBytes \ {Zero}, correlation \in IdBytes :
           /\ message.type = Type.COMMIT_ACK <=> correlation # Zero
           /\ sample = [is |-> "sent", id |-> id, correlation |-> correlation, message |-> message]
    \/ \E frame \in Seq(Byte) : sample = [is |-> "received", frame |-> frame]

(* The samples that are model-checked are some of them.                        *)
LEMMA SamplesAreSome == CodecInit => AnySample
<1>1. PICK size \in Nat : size = IdSize
  BY SizesAre
<1>2. Ids \subseteq IdBytes
  <2>1. ASSUME NEW id \in [1 .. size -> 0 .. 2] PROVE id \in Seq(Byte) /\ Len(id) = size
    <3>1. id \in [1 .. size -> Byte]
      BY DEF Byte
    <3> QED
      BY <3>1
  <2> QED
    BY <1>1, <2>1 DEF Ids, IdBytes
<1>3. Refs \subseteq AnyRefs
  BY <1>2 DEF Refs, AnyRefs
<1>4. \A n \in Int : Pages(n) \subseteq Lists
  <2>1. ASSUME NEW n \in Int, NEW refs \in Pages(n) PROVE refs \in Lists
    <3>1. PICK k \in 0 .. n : refs \in [1 .. k -> Refs] /\ IsInjective(refs)
      BY DEF Pages
    <3>2. refs \in [1 .. k -> AnyRefs] /\ k \in Nat
      BY <1>3, <3>1
    <3> QED
      BY <3>1, <3>2 DEF Lists
  <2> QED
    BY <2>1
<1>5. Messages \subseteq AnyMessages
  <2>1. Pages(MaxWantRefs + 1) \subseteq Lists
    BY <1>4, SizesAre
  <2> QED
    BY <1>2, <2>1
    DEF Messages, AnyMessages, ThreadMessages, SyncPostMessages, SyncMessages, WantMessages, AckMessages
<1>6. ASSUME NEW message \in Messages, NEW correlation \in Correlations(message)
      PROVE  correlation \in IdBytes /\ (message.type = Type.COMMIT_ACK <=> correlation # Zero)
  BY <1>2, SizesAre DEF Correlations
<1>7. ASSUME NEW first \in First, NEW id \in [1 .. IdSize -> 0 .. 1],
             NEW correlation \in [1 .. IdSize -> 0 .. 1],
             NEW payload \in BoundedSeq(Alphabet, PayloadMax) \cup {[i \in 1 .. PayloadMax + 1 |-> 97]}
      PROVE  <<first>> \o id \o correlation \o payload \in Seq(Byte)
  <2>1. <<first>> \in Seq(Byte)
    <3>1. first \in Byte
      BY DEF First, Version, Byte
    <3> QED
      BY <3>1, Singleton
  <2>2. id \in Seq(Byte) /\ correlation \in Seq(Byte)
    <3>1. id \in [1 .. size -> Byte] /\ correlation \in [1 .. size -> Byte]
      BY <1>1 DEF Byte
    <3> QED
      BY <3>1
  <2>3. payload \in Seq(Byte)
    <3>1. CASE payload \in BoundedSeq(Alphabet, PayloadMax)
      <4>1. PICK m \in 0 .. PayloadMax : payload \in [1 .. m -> Alphabet]
        BY <3>1 DEF BoundedSeq, SeqOf
      <4>2. payload \in [1 .. m -> Byte] /\ m \in Nat
        BY <4>1, SizesAre
      <4> QED
        BY <4>2
    <3>2. CASE payload = [i \in 1 .. PayloadMax + 1 |-> 97]
      <4>1. PICK m \in Nat : m = PayloadMax + 1
        BY SizesAre
      <4>2. payload \in [1 .. m -> Byte]
        BY <3>2, <4>1 DEF Byte
      <4> QED
        BY <4>2
    <3> QED
      BY <3>1, <3>2
  <2>4. PICK a \in Seq(Byte), b \in Seq(Byte), c \in Seq(Byte), d \in Seq(Byte) :
            a = <<first>> /\ b = id /\ c = correlation /\ d = payload
    BY <2>1, <2>2, <2>3
  <2>5. a \o b \o c \o d \in Seq(Byte)
    BY FourParts
  <2> QED
    BY <2>4, <2>5
<1>8. ASSUME NEW message \in Messages, NEW correlation \in Correlations(message), NEW id \in Ids \ {Zero},
             sample = [is |-> "sent", id |-> id, correlation |-> correlation, message |-> message]
      PROVE  AnySample
  <2>1. message \in AnyMessages /\ id \in IdBytes \ {Zero}
    BY <1>2, <1>5
  <2>2. correlation \in IdBytes /\ (message.type = Type.COMMIT_ACK <=> correlation # Zero)
    BY <1>6
  <2> QED
    BY <1>8, <2>1, <2>2 DEF AnySample
<1>9. ASSUME NEW first \in First, NEW id \in [1 .. IdSize -> 0 .. 1],
             NEW correlation \in [1 .. IdSize -> 0 .. 1],
             NEW payload \in BoundedSeq(Alphabet, PayloadMax) \cup {[i \in 1 .. PayloadMax + 1 |-> 97]},
             sample = [is |-> "received", frame |-> <<first>> \o id \o correlation \o payload]
      PROVE  AnySample
  <2>1. PICK frame \in Seq(Byte) : frame = <<first>> \o id \o correlation \o payload
    BY <1>7
  <2> QED
    BY <1>9, <2>1 DEF AnySample
<1> QED
  BY <1>8, <1>9 DEF CodecInit

(* A message has a frame if and only if there is room for it, and its frame is *)
(* read as what was meant (SentIsRead).                                        *)
THEOREM SentAreRead == AnySample => SentIsRead
<1> SUFFICES ASSUME AnySample, sample.is = "sent"
             PROVE  /\ Frames # {} <=> Fits(sample.message)
                    /\ \A frame \in Frames :
                           Decode(frame) = {[id |-> sample.id, correlation |-> sample.correlation,
                                             message |-> Clean(sample.message)]}
  BY DEF SentIsRead
<1>1. PICK message \in AnyMessages, id \in IdBytes \ {Zero}, correlation \in IdBytes :
          /\ message.type = Type.COMMIT_ACK <=> correlation # Zero
          /\ sample = [is |-> "sent", id |-> id, correlation |-> correlation, message |-> message]
  BY DEF AnySample
<1>2. /\ sample.id = id /\ sample.correlation = correlation /\ sample.message = message
      /\ Frames = Encode(id, correlation, message)
  BY <1>1 DEF Frames
<1> QED
  BY <1>1, <1>2, AnyFrameSent

(* What is read of any frame could have been sent, in a frame that is read the *)
(* same way; without a text, in that very frame (ReadIsCanonical).             *)
THEOREM ReadAreCanonical == AnySample => ReadIsCanonical
<1> SUFFICES ASSUME AnySample, sample.is = "received",
                    NEW m \in Decode(sample.frame), m.message.type # Type.POST
             PROVE  \E frame \in Encode(m.id, m.correlation, m.message) :
                        /\ Decode(frame) = {m}
                        /\ "text" \notin DOMAIN m.message => frame = sample.frame
  BY DEF ReadIsCanonical
<1>1. PICK source \in Seq(Byte) : source = sample.frame
  BY DEF AnySample
<1>2. PICK e \in Envelope(source) :
          \E message \in Contents(e.type, e.payload) :
              m = [id |-> e.id, correlation |-> e.correlation, message |-> message]
  BY <1>1 DEF Decode
<1>3. PICK message \in Contents(e.type, e.payload) :
          m = [id |-> e.id, correlation |-> e.correlation, message |-> message]
  BY <1>2
<1>4. m.id = e.id /\ m.correlation = e.correlation /\ m.message = message
  BY <1>3
<1>5. /\ Legal(e) /\ e.type \in 1 .. 6 /\ e.id \in IdBytes \ {Zero} /\ e.correlation \in IdBytes
      /\ e.payload \in Seq(Byte) /\ Len(source) = HeaderSize + Len(e.payload) /\ Len(source) <= FrameMax
      /\ source = Framed(e.type, e.id, e.correlation, e.payload)
  BY FrameTaken
<1>6. Len(e.payload) <= PayloadMax
  <2>1. PICK len \in Nat : len = Len(e.payload)
    BY <1>5, LenProperties
  <2>2. HeaderSize + len <= FrameMax
    BY <1>5, <2>1
  <2>3. len <= PayloadMax
    BY <2>2, SizesAre
  <2> QED
    BY <2>1, <2>3
<1>7. e.type \in 2 .. 6
  <2>1. SUFFICES ASSUME e.type = 1 PROVE FALSE
    BY <1>5
  <2>2. Contents(e.type, e.payload) = DecodePost(e.payload)
    BY <2>1, TypesAre DEF Contents
  <2>3. message.type = Type.POST
    BY <1>3, <2>2 DEF DecodePost
  <2> QED
    BY <1>4, <2>3
<1>8. /\ e.type = Type.COMMIT_ACK <=> e.correlation # Zero
      /\ e.type = Type.COMMIT_ACK => e.payload = <<>>
  BY <1>5 DEF Legal
<1>9. /\ message \in AnyMessages /\ message.type = e.type /\ Clean(message) = message /\ Fits(message)
      /\ "text" \notin DOMAIN message => Payloads(message) = {e.payload}
  BY <1>5, <1>6, <1>7, <1>8, AnyRead
<1>10. /\ Encode(e.id, e.correlation, message) # {}
      /\ \A frame \in Encode(e.id, e.correlation, message) : Decode(frame) = {m}
  BY <1>3, <1>5, <1>8, <1>9, AnyFrameSent
<1>11. ASSUME "text" \notin DOMAIN message PROVE source \in Encode(e.id, e.correlation, message)
  <2>1. e.payload \in Payloads(message)
    BY <1>9, <1>11
  <2> QED
    BY <1>5, <1>6, <1>9, <2>1, EncodeIs
<1> QED
  BY <1>1, <1>4, <1>10, <1>11

(* The traffic log's choice of a parser is the nodes'.                         *)
LEMMA SameParsers ==
    ASSUME NEW type \in 1 .. 6, NEW payload PROVE Fields(type, payload) = Contents(type, payload)
<1>1. CASE type \in {3, 4}
  BY <1>1, TypesAre DEF Fields, Contents
<1>2. CASE type \in {1, 2, 5, 6}
  BY <1>2, TypesAre DEF Fields, Contents
<1> QED
  BY <1>1, <1>2

(* The traffic log presents as decoded exactly what is read, and shows of it   *)
(* what is read (ReadIsPresented).                                             *)
THEOREM ReadArePresented == ReadIsPresented
<1>1. ASSUME NEW frame, NEW e \in Envelope(frame) PROVE Public(frame) /\ e.type \in 1 .. 6
  <2>1. /\ Len(frame) \in HeaderSize .. FrameMax /\ frame[1] \div 16 = Version
        /\ e.type = frame[1] % 16 /\ Legal(e)
    BY <1>1 DEF Envelope
  <2>2. e.type \in 1 .. 6
    BY <2>1, TypesAre DEF Legal
  <2>3. Len(frame) \in 1 .. FrameMax
    BY <2>1, SizesAre
  <2> QED
    BY <2>1, <2>2, <2>3 DEF Public
<1>2. ASSUME NEW frame
      PROVE  {m.message : m \in Decode(frame)} = UNION {Contents(e.type, e.payload) : e \in Envelope(frame)}
  <2>1. ASSUME NEW m \in Decode(frame)
        PROVE  m.message \in UNION {Contents(e.type, e.payload) : e \in Envelope(frame)}
    <3>1. PICK e \in Envelope(frame) :
              \E message \in Contents(e.type, e.payload) :
                  m = [id |-> e.id, correlation |-> e.correlation, message |-> message]
      BY <2>1 DEF Decode
    <3>2. m.message \in Contents(e.type, e.payload)
      BY <3>1
    <3> QED
      BY <3>2
  <2>2. ASSUME NEW e \in Envelope(frame), NEW message, message \in Contents(e.type, e.payload)
        PROVE  message \in {m.message : m \in Decode(frame)}
    <3>1. [id |-> e.id, correlation |-> e.correlation, message |-> message] \in Decode(frame)
      BY <2>2 DEF Decode
    <3> QED
      BY <3>1
  <2> QED
    BY <2>1, <2>2
<1>3. ASSUME NEW frame
      PROVE  UNION {Fields(e.type, e.payload) : e \in Envelope(frame)}
             = UNION {Contents(e.type, e.payload) : e \in Envelope(frame)}
  BY <1>1, SameParsers
<1>4. ASSUME NEW frame
      PROVE  /\ Presented(frame).fields = {m.message : m \in Decode(frame)}
             /\ Presented(frame).fields # {} <=> Presented(frame).state = "decoded"
  <2>1. CASE Public(frame)
    BY <1>2, <1>3, <2>1 DEF Presented
  <2>2. CASE ~Public(frame)
    <3>1. Envelope(frame) = {}
      BY <1>1, <2>2
    <3>2. {m.message : m \in Decode(frame)} = {}
      BY <1>2, <3>1
    <3>3. Presented(frame) = [state |-> "hidden", fields |-> {}]
      BY <2>2 DEF Presented
    <3> QED
      BY <3>2, <3>3
  <2> QED
    BY <2>1, <2>2
<1>5. ASSUME NEW frame PROVE Decode(frame) # {} <=> Presented(frame).state = "decoded"
  <2>1. Decode(frame) # {} <=> {m.message : m \in Decode(frame)} # {}
    OBVIOUS
  <2> QED
    BY <1>4, <2>1
<1> QED
  BY <1>4, <1>5 DEF ReadIsPresented
==============================================================================
