----------------------------- MODULE PacketProofs -----------------------------
(***************************************************************************)
(* Proofs about the packets of Marshal.h and the values of MarshalAST:     *)
(* for any numbers, addresses, lists, strings and nested values, a packet  *)
(* of every class is read as it was written, and refused whole when it is  *)
(* cut short; and the host makes of a PUSH the PULL the client reads.      *)
(***************************************************************************)
EXTENDS Packets, Integers, SequenceTheorems, WellFoundedInduction, TLAPS

\* A set of naturals has a smallest element.
LEMMA SmallestExists ==
  ASSUME NEW T, T \subseteq Nat, T # {}
  PROVE  \E x \in T : \A y \in T : x <= y
<1> DEFINE R == OpToRel(<, Nat)
<1>1. IsWellFoundedOn(R, Nat)
  BY NatLessThanWellFounded
<1> HIDE DEF R
<1>2. PICK x \in T : \A y \in T : ~ (<<y, x>> \in R)
  BY <1>1, WFMin
<1>3. ASSUME NEW y \in T PROVE x <= y
  <2>1. x \in Nat /\ y \in Nat
    BY <1>2
  <2>2. <<y, x>> \in R <=> y < x
    BY <2>1 DEF OpToRel, R
  <2> QED BY <1>2, <2>1, <2>2
<1> QED BY <1>3

\* NULL is no list.
NullIsNoList == \A S : Null \notin Seq(S)

----------------------------------------------------------------------------
(* Lists of bytes, put behind each other *)

\* A function on an interval is a list.
LEMMA IsSequence ==
  ASSUME NEW T, NEW l \in Nat, NEW s \in [1 .. l -> T]
  PROVE  s \in Seq(T) /\ Len(s) = l
OBVIOUS

\* What a concatenation holds.
LEMMA ConcatFacts ==
  ASSUME NEW T, NEW s \in Seq(T), NEW u \in Seq(T)
  PROVE  /\ s \o u \in Seq(T) /\ Len(s \o u) = Len(s) + Len(u)
         /\ \A i \in 1 .. Len(s) : (s \o u)[i] = s[i]
         /\ \A i \in 1 .. Len(s) + Len(u) : \A j \in Nat \ {0} :
              i = Len(s) + j => (s \o u)[i] = u[j]
<1>1. ASSUME NEW i \in 1 .. Len(s) + Len(u), NEW j \in Nat \ {0}, i = Len(s) + j
      PROVE  (s \o u)[i] = u[j]
  <2>1. ~(i <= Len(s)) /\ i - Len(s) = j
    BY <1>1
  <2> QED BY <2>1
<1> QED BY <1>1

Rising(line) == \A i, j \in 1 .. Len(line) : i < j => line[i] < line[j]

\* The recursion of FlattenSeq, as far as the first n lists: flat[i] is what the first i hold.
Flattens(flat, seqs, n) ==
  \A i \in 1 .. n : flat[i] = IF i = 1 THEN seqs[i] ELSE flat[i - 1] \o seqs[i]

\* That recursion has a solution, ...
LEMMA FlattenExists ==
  ASSUME NEW B, NEW s \in Seq(Seq(B)), NEW n \in 0 .. Len(s)
  PROVE  \E g \in [1 .. n -> Seq(B)] : Flattens(g, s, n)
<1> DEFINE Done(k) == \E g \in [1 .. k -> Seq(B)] : Flattens(g, s, k)
           T == {k \in 0 .. Len(s) : ~Done(k)}
<1>1. Done(0)
  <2> DEFINE g == [i \in 1 .. 0 |-> <<>>]
  <2>1. g \in [1 .. 0 -> Seq(B)]
    OBVIOUS
  <2>2. Flattens(g, s, 0)
    BY DEF Flattens
  <2> QED BY <2>1, <2>2
<1>2. ASSUME NEW k \in 1 .. Len(s), Done(k - 1) PROVE Done(k)
  <2> PICK f \in [1 .. k - 1 -> Seq(B)] : Flattens(f, s, k - 1)
    BY <1>2
  <2> DEFINE last == IF k = 1 THEN s[k] ELSE f[k - 1] \o s[k]
             g == [i \in 1 .. k |-> IF i = k THEN last ELSE f[i]]
  <2>1. last \in Seq(B)
    <3>1. s[k] \in Seq(B)
      BY ElementOfSeq
    <3>2. CASE k = 1
      BY <3>1, <3>2
    <3>3. CASE k # 1
      <4>1. f[k - 1] \in Seq(B)
        BY <3>3
      <4> QED BY <3>1, <3>3, <4>1, ConcatProperties
    <3> QED BY <3>2, <3>3
  <2> HIDE DEF last
  <2>2. g \in [1 .. k -> Seq(B)]
    BY <2>1
  <2>3. ASSUME NEW i \in 1 .. k PROVE g[i] = IF i = 1 THEN s[i] ELSE g[i - 1] \o s[i]
    <3>1. CASE i = k
      <4>1. i # 1 => g[i - 1] = f[i - 1]
        BY <3>1
      <4> QED BY <3>1, <4>1 DEF last
    <3>2. CASE i # k
      <4>1. i \in 1 .. k - 1 /\ g[i] = f[i] /\ (i # 1 => g[i - 1] = f[i - 1])
        BY <3>2
      <4> QED BY <4>1 DEF Flattens
    <3> QED BY <3>1, <3>2
  <2> QED BY <2>2, <2>3 DEF Flattens
<1>3. T = {}
  <2> SUFFICES ASSUME T # {} PROVE FALSE
    OBVIOUS
  <2>1. T \subseteq Nat
    BY LenProperties
  <2> HIDE DEF Done
  <2>2. PICK x \in T : \A y \in T : x <= y
    BY <2>1, SmallestExists
  <2>3. x \in 1 .. Len(s)
    BY <1>1, <2>2, LenProperties
  <2>4. x - 1 \in 0 .. Len(s) /\ x - 1 \notin T
    BY <2>2, <2>3, LenProperties
  <2> QED BY <1>2, <2>2, <2>3, <2>4
<1> HIDE DEF Done
<1>4. Done(n)
  BY <1>3
<1> QED BY <1>4 DEF Done

\* Two functions agree on 1 .. n.
Agree(f, g, n) == \A i \in 1 .. n : f[i] = g[i]

\* ... and no other.
LEMMA FlattenSame ==
  ASSUME NEW n \in Nat, NEW s, NEW t, NEW g, NEW h,
         Flattens(g, s, n), Flattens(h, t, n), Agree(s, t, n)
  PROVE  Agree(g, h, n)
<1> USE DEF Agree
<1> DEFINE T == {i \in 1 .. n : g[i] # h[i]}
<1> SUFFICES ASSUME T # {} PROVE FALSE
  OBVIOUS
<1>1. T \subseteq Nat
  OBVIOUS
<1>2. PICK x \in T : \A y \in T : x <= y
  BY <1>1, SmallestExists
<1>3. x \in 1 .. n /\ g[x] # h[x]
  BY <1>2
<1>4. CASE x = 1
  BY <1>3, <1>4 DEF Flattens
<1>5. CASE x # 1
  <2>1. x - 1 \in 1 .. n /\ x - 1 \notin T
    BY <1>2, <1>3, <1>5
  <2> QED BY <1>3, <1>5, <2>1 DEF Flattens
<1> QED BY <1>4, <1>5

\* FlattenSeq is what its recursion says.
LEMMA FlattenSeqDef ==
  ASSUME NEW B, NEW s \in Seq(Seq(B)), s # <<>>
  PROVE  \E flat \in [1 .. Len(s) -> Seq(B)] :
           Flattens(flat, s, Len(s)) /\ FlattenSeq(s) = flat[Len(s)]
<1>1. Len(s) \in Nat \ {0}
  BY EmptySeq
<1> DEFINE Is(f) == f = [i \in 1 .. Len(s) |-> IF i = 1 THEN s[i] ELSE f[i - 1] \o s[i]]
           flat == CHOOSE f : Is(f)
<1>2. PICK g \in [1 .. Len(s) -> Seq(B)] : Flattens(g, s, Len(s))
  BY <1>1, FlattenExists, SMTT(30)
<1>3. Is(g)
  BY <1>2 DEF Flattens
<1>4. Is(flat)
  BY <1>3, Zenon
<1>5. FlattenSeq(s) = flat[Len(s)]
  BY <1>1, Zenon DEF FlattenSeq
<1> HIDE DEF flat
<1>6. Flattens(flat, s, Len(s))
  BY <1>4 DEF Flattens
<1>7. \A i \in 1 .. Len(s) : flat[i] = g[i]
  <2>1. Agree(s, s, Len(s))
    BY DEF Agree
  <2>2. Agree(flat, g, Len(s))
    BY <1>1, <1>2, <1>6, <2>1, FlattenSame
  <2> QED BY <2>2 DEF Agree
<1>8. flat = [i \in 1 .. Len(s) |-> g[i]]
  BY <1>4, <1>7
<1>9. flat \in [1 .. Len(s) -> Seq(B)]
  BY <1>8
<1> QED BY <1>5, <1>6, <1>9

\* A list of lists of bytes flattens to a list of bytes, ...
LEMMA FlattenType ==
  ASSUME NEW B, NEW s \in Seq(Seq(B))
  PROVE  FlattenSeq(s) \in Seq(B) /\ (s = <<>> => FlattenSeq(s) = <<>>)
<1>1. CASE s = <<>>
  <2>1. FlattenSeq(s) = <<>>
    BY <1>1, EmptySeq DEF FlattenSeq
  <2> QED BY <2>1, EmptySeq
<1>2. CASE s # <<>>
  <2>1. Len(s) \in 1 .. Len(s)
    BY <1>2, EmptySeq
  <2>2. PICK flat \in [1 .. Len(s) -> Seq(B)] : FlattenSeq(s) = flat[Len(s)]
    BY <1>2, FlattenSeqDef, Zenon
  <2>3. flat[Len(s)] \in Seq(B)
    BY <2>1
  <2> QED BY <1>2, <2>2, <2>3
<1> QED BY <1>1, <1>2

\* ... its last list is at the end, ...
LEMMA FlattenAppend ==
  ASSUME NEW B, NEW s \in Seq(Seq(B)), NEW x \in Seq(B)
  PROVE  FlattenSeq(Append(s, x)) = FlattenSeq(s) \o x
<1> DEFINE t == Append(s, x)
           n == Len(s)
<1>1. /\ t \in Seq(Seq(B)) /\ t # <<>> /\ Len(t) = n + 1 /\ n \in Nat
      /\ \A i \in 1 .. n : t[i] = s[i]
      /\ t[n + 1] = x
  BY AppendProperties, LenProperties
<1> HIDE DEF t
<1> HIDE DEF n
<1>2. PICK h \in [1 .. n + 1 -> Seq(B)] : Flattens(h, t, n + 1) /\ FlattenSeq(t) = h[n + 1]
  BY <1>1, FlattenSeqDef
<1>3. CASE s = <<>>
  <2>1. n = 0 /\ FlattenSeq(s) = <<>>
    BY <1>3, EmptySeq, FlattenType DEF n
  <2>2. h[1] = x
    BY <1>1, <1>2, <2>1 DEF Flattens
  <2> QED BY <1>2, <2>1, <2>2, ConcatEmptySeq DEF t
<1>4. CASE s # <<>>
  <2>1. n # 0
    BY <1>4, EmptySeq DEF n
  <2>2. PICK g \in [1 .. n -> Seq(B)] : Flattens(g, s, n) /\ FlattenSeq(s) = g[n]
    BY <1>4, FlattenSeqDef DEF n
  <2>3. Flattens(h, t, n)
    <3>1. \A i \in 1 .. n : i \in 1 .. n + 1
      BY <1>1
    <3> QED BY <1>2, <3>1 DEF Flattens
  <2>4. g[n] = h[n]
    <3>1. Agree(s, t, n)
      BY <1>1 DEF Agree
    <3>2. Agree(g, h, n)
      BY <1>1, <2>2, <2>3, <3>1, FlattenSame
    <3> QED BY <1>1, <2>1, <3>2 DEF Agree
  <2>5. h[n + 1] = h[n] \o x
    <3>1. n + 1 \in 1 .. n + 1 /\ n + 1 # 1 /\ n + 1 - 1 = n
      BY <1>1, <2>1
    <3> PICK m : m = n + 1
      OBVIOUS
    <3>2. m \in 1 .. m /\ m # 1 /\ m - 1 = n /\ t[m] = x /\ Flattens(h, t, m)
      BY <1>1, <1>2, <3>1
    <3>3. h[m] = h[m - 1] \o t[m]
      BY <3>2 DEF Flattens
    <3> QED BY <3>2, <3>3
  <2> QED BY <1>2, <2>2, <2>4, <2>5 DEF t
<1> QED BY <1>3, <1>4

\* ... and its first at the front.
LEMMA FlattenFirst ==
  ASSUME NEW B, NEW s \in Seq(Seq(B)), NEW x \in Seq(B)
  PROVE  FlattenSeq(<<x>> \o s) = x \o FlattenSeq(s)
<1> DEFINE Holds(r) == FlattenSeq(<<x>> \o r) = x \o FlattenSeq(r)
           T == {n \in Nat : \E r \in Seq(Seq(B)) : Len(r) = n /\ ~Holds(r)}
<1>1. Holds(<<>>)
  <2>1. <<>> \in Seq(Seq(B)) /\ <<>> \in Seq(B) /\ <<x>> \in Seq(Seq(B))
    OBVIOUS
  <2>2. <<x>> \o <<>> = Append(<<>>, x)
    OBVIOUS
  <2>3. FlattenSeq(Append(<<>>, x)) = FlattenSeq(<<>>) \o x /\ FlattenSeq(<<>>) = <<>>
    BY <2>1, FlattenAppend, FlattenType
  <2>4. <<>> \o x = x /\ x \o <<>> = x
    BY ConcatEmptySeq
  <2> QED BY <2>2, <2>3, <2>4
<1>2. ASSUME NEW r \in Seq(Seq(B)), NEW y \in Seq(B), Holds(r) PROVE Holds(Append(r, y))
  <2>1. <<x>> \in Seq(Seq(B)) /\ <<x>> \o r \in Seq(Seq(B))
    BY ConcatProperties
  <2>2. <<x>> \o Append(r, y) = Append(<<x>> \o r, y)
    <3>1. Append(r, y) = r \o <<y>> /\ Append(<<x>> \o r, y) = (<<x>> \o r) \o <<y>> /\ <<y>> \in Seq(Seq(B))
      BY <2>1, AppendIsConcat
    <3> QED BY <2>1, <3>1, ConcatAssociative
  <2>3. FlattenSeq(Append(<<x>> \o r, y)) = FlattenSeq(<<x>> \o r) \o y
    BY <2>1, FlattenAppend
  <2>4. FlattenSeq(Append(r, y)) = FlattenSeq(r) \o y
    BY FlattenAppend
  <2>5. FlattenSeq(r) \in Seq(B)
    BY FlattenType
  <2>6. (x \o FlattenSeq(r)) \o y = x \o (FlattenSeq(r) \o y)
    <3>f. PICK f : f = FlattenSeq(r)
      OBVIOUS
    <3> QED BY <2>5, <3>f, ConcatAssociative
  <2> QED BY <1>2, <2>2, <2>3, <2>4, <2>6
<1> HIDE DEF Holds
<1>3. T = {}
  <2> SUFFICES ASSUME T # {} PROVE FALSE
    OBVIOUS
  <2>1. PICK n \in T : \A m \in T : n <= m
    BY SmallestExists
  <2>2. PICK r \in Seq(Seq(B)) : Len(r) = n /\ ~Holds(r)
    BY <2>1
  <2>3. r # <<>>
    BY <1>1, <2>2
  <2>4. PICK q \in Seq(Seq(B)), y \in Seq(B) : r = Append(q, y)
    BY <2>3, SequenceEmptyOrAppend
  <2>5. Len(q) \in Nat /\ n = Len(q) + 1
    BY <2>2, <2>4, AppendProperties, LenProperties
  <2>6. ASSUME ~Holds(q) PROVE FALSE
    <3> PICK m : m = Len(q)
      OBVIOUS
    <3>1. m \in T
      BY <2>5, <2>6
    <3> HIDE DEF T
    <3>2. n <= m
      BY <2>1, <3>1
    <3> QED BY <2>5, <3>2
  <2>7. Holds(q)
    BY <2>6
  <2> QED BY <1>2, <2>2, <2>4, <2>7
<1>4. Len(s) \in Nat
  BY LenProperties
<1>5. Holds(s)
  BY <1>3, <1>4
<1> QED BY <1>5 DEF Holds

----------------------------------------------------------------------------
(* Fields of a buffer, and where they lie *)

\* u holds s, and then t.
Joined(u, s, t) ==
  /\ Len(u) = Len(s) + Len(t) /\ Len(s) \in Nat /\ Len(t) \in Nat
  /\ \A i \in 1 .. Len(s) : u[i] = s[i]
  /\ \A j \in 1 .. Len(t) : u[Len(s) + j] = t[j]

\* Which byte of a concatenation is which.
LEMMA JoinFacts ==
  ASSUME NEW T, NEW s \in Seq(T), NEW t \in Seq(T), NEW u, u = s \o t
  PROVE  u \in Seq(T) /\ Joined(u, s, t)
<1>1. Len(s) \in Nat /\ Len(t) \in Nat
  BY LenProperties
<1>2. s \o t \in Seq(T) /\ Len(s \o t) = Len(s) + Len(t)
  BY ConcatFacts
<1>3. \A i \in 1 .. Len(s) : (s \o t)[i] = s[i]
  BY ConcatFacts
<1>4. ASSUME NEW j \in 1 .. Len(t) PROVE (s \o t)[Len(s) + j] = t[j]
  <2>1. \A i \in 1 .. Len(s) + Len(t) : \A k \in Nat \ {0} : i = Len(s) + k => (s \o t)[i] = t[k]
    BY ConcatFacts
  <2>2. Len(s) + j \in 1 .. Len(s) + Len(t) /\ j \in Nat \ {0}
    BY <1>1
  <2> QED BY <2>1, <2>2
<1> QED BY <1>1, <1>2, <1>3, <1>4 DEF Joined

\* A field with this value lies behind the first "at" bytes of a buffer.
Lies(buf, at, value, width) ==
  /\ at + width <= Len(buf)
  /\ \A j \in 1 .. width : buf[at + j] = <<value, j, width>>

\* A field that lies somewhere is read there.
LEMMA RetrieveField ==
  ASSUME NEW buf, NEW at \in Nat, NEW value, NEW width \in Nat \ {0}, Lies(buf, at, value, width)
  PROVE  Retrieve(buf, at, width) = value
<1>1. 1 \in 1 .. width /\ buf[at + 1] = <<value, 1, width>>
  BY DEF Lies
<1>2. buf[at + 1][1] = value
  BY <1>1
<1> QED BY <1>2 DEF Lies, Retrieve

\* A field is a list of the bytes of its value.
LEMMA FieldIsList ==
  ASSUME NEW Bytes, NEW value, NEW width \in Nat, \A j \in 1 .. width : <<value, j, width>> \in Bytes
  PROVE  /\ Field(value, width) \in Seq(Bytes) /\ Len(Field(value, width)) = width
         /\ \A j \in 1 .. width : Field(value, width)[j] = <<value, j, width>>
<1>1. Field(value, width) \in [1 .. width -> Bytes]
  BY DEF Field
<1>2. Field(value, width) \in Seq(Bytes) /\ Len(Field(value, width)) = width
  BY <1>1, IsSequence
<1> QED BY <1>2 DEF Field

\* Every field of s lies at the same place of u; or those of its first m bytes do.
Kept(s, u) == \A at, width \in Nat : \A value : Lies(s, at, value, width) => Lies(u, at, value, width)
KeptTo(m, s, u) ==
  \A at, width \in Nat : \A value :
    Lies(s, at, value, width) /\ at + width <= m => Lies(u, at, value, width)

\* What has been written stays where it is when more is appended.
LEMMA AppendedBehind ==
  ASSUME NEW Bytes, NEW s \in Seq(Bytes), NEW t \in Seq(Bytes)
  PROVE  Kept(s, s \o t)
<1> SUFFICES ASSUME NEW at \in Nat, NEW width \in Nat, NEW value, Lies(s, at, value, width)
             PROVE  Lies(s \o t, at, value, width)
  BY DEF Kept
<1>1. /\ Len(s \o t) = Len(s) + Len(t) /\ Len(s) \in Nat /\ Len(t) \in Nat
      /\ \A i \in 1 .. Len(s) : (s \o t)[i] = s[i]
  BY ConcatFacts, LenProperties
<1> PICK u, l, m : u = s \o t /\ l = Len(s) /\ m = Len(t)
  OBVIOUS
<1>2. at + width <= l /\ \A j \in 1 .. width : s[at + j] = <<value, j, width>>
  BY DEF Lies
<1>3. Len(u) = l + m /\ l \in Nat /\ m \in Nat /\ \A i \in 1 .. l : u[i] = s[i]
  BY <1>1
<1>4. ASSUME NEW j \in 1 .. width PROVE u[at + j] = <<value, j, width>>
  <2>1. at + j \in 1 .. l
    BY <1>2, <1>3
  <2> QED BY <1>2, <1>3, <2>1
<1>5. at + width <= Len(u)
  BY <1>2, <1>3
<1> QED BY <1>4, <1>5 DEF Lies

\* A field that is appended lies behind what was written before.
LEMMA FieldAppended ==
  ASSUME NEW Bytes, NEW s \in Seq(Bytes), NEW value, NEW width \in Nat,
         \A j \in 1 .. width : <<value, j, width>> \in Bytes
  PROVE  /\ s \o Field(value, width) \in Seq(Bytes)
         /\ Len(s \o Field(value, width)) = Len(s) + width
         /\ Lies(s \o Field(value, width), Len(s), value, width)
<1> PICK f : f = Field(value, width)
  OBVIOUS
<1>1. f \in Seq(Bytes) /\ Len(f) = width /\ \A j \in 1 .. width : f[j] = <<value, j, width>>
  BY FieldIsList
<1>2. /\ s \o f \in Seq(Bytes) /\ Len(s \o f) = Len(s) + Len(f) /\ Len(s) \in Nat
      /\ \A i \in 1 .. Len(s) + Len(f) : \A j \in Nat \ {0} :
              i = Len(s) + j => (s \o f)[i] = f[j]
  <2>1. Len(s) \in Nat
    BY LenProperties
  <2>2. f \in Seq(Bytes)
    BY <1>1
  <2>3. s \o f \in Seq(Bytes) /\ Len(s \o f) = Len(s) + Len(f)
    BY <2>2, ConcatFacts
  <2>4. \A i \in 1 .. Len(s) + Len(f) : \A j \in Nat \ {0} : i = Len(s) + j => (s \o f)[i] = f[j]
    BY <2>2, ConcatFacts
  <2> QED BY <2>1, <2>3, <2>4
<1> PICK u, l : u = s \o f /\ l = Len(s)
  OBVIOUS
<1>3. ASSUME NEW j \in 1 .. width PROVE u[l + j] = <<value, j, width>>
  <2>1. l + j \in 1 .. l + width /\ j \in Nat \ {0}
    BY <1>2
  <2>2. \A i \in 1 .. l + width : i = l + j => u[i] = f[j]
    BY <1>1, <1>2, <2>1
  <2> QED BY <1>1, <2>1, <2>2
<1>4. Lies(u, l, value, width)
  BY <1>1, <1>2, <1>3 DEF Lies
<1> QED BY <1>1, <1>2, <1>4

\* What has been received of a buffer is as it was sent.
LEMMA CutBehind ==
  ASSUME NEW Bytes, NEW s \in Seq(Bytes), NEW m \in 0 .. Len(s)
  PROVE  /\ SubSeq(s, 1, m) \in Seq(Bytes) /\ Len(SubSeq(s, 1, m)) = m
         /\ KeptTo(m, s, SubSeq(s, 1, m))
<1>1. /\ SubSeq(s, 1, m) \in Seq(Bytes) /\ Len(SubSeq(s, 1, m)) = m /\ m \in Nat
      /\ \A i \in 1 .. m : SubSeq(s, 1, m)[i] = s[i]
  <2>1. \A i \in 1 .. m : s[i] \in Bytes
    BY LenProperties
  <2>2. m \in Nat /\ (IF 1 <= m THEN m - 1 + 1 ELSE 0) = m
    BY LenProperties
  <2>3. /\ SubSeq(s, 1, m) \in Seq(Bytes) /\ Len(SubSeq(s, 1, m)) = (IF 1 <= m THEN m - 1 + 1 ELSE 0)
        /\ \A i \in 1 .. m - 1 + 1 : SubSeq(s, 1, m)[i] = s[1 + i - 1]
    BY <2>1, <2>2, SubSeqProperties
  <2> QED BY <2>2, <2>3
<1> PICK u : u = SubSeq(s, 1, m)
  OBVIOUS
<1>2. ASSUME NEW at \in Nat, NEW value, NEW width \in Nat, Lies(s, at, value, width), at + width <= m
      PROVE  Lies(u, at, value, width)
  <2>1. ASSUME NEW j \in 1 .. width PROVE u[at + j] = <<value, j, width>>
    <3>1. at + j \in 1 .. m
      BY <1>1, <1>2
    <3> QED BY <1>1, <1>2, <3>1 DEF Lies
  <2> QED BY <1>1, <1>2, <2>1 DEF Lies
<1> QED BY <1>1, <1>2 DEF KeptTo

\* The places of fields of the given widths, one behind the other.
Places(at, widths, n) ==
  /\ DOMAIN at = 0 .. n
  /\ at[0] = 0 /\ \A k \in 1 .. n : at[k] = at[k - 1] + widths[k]

\* The recursion of Before has a solution, as any such places show.
LEMMA BeforeFacts ==
  ASSUME NEW widths, NEW n \in Nat, Len(widths) = n, NEW at, Places(at, widths, n),
         at = [k \in 0 .. n |-> at[k]]
  PROVE  \E sum : Places(sum, widths, n) /\ \A i \in 1 .. n + 1 : Before(widths, i) = sum[i - 1]
<1> DEFINE Is(f) == f = [k \in 0 .. Len(widths) |-> IF k = 0 THEN 0 ELSE f[k - 1] + widths[k]]
           sum == CHOOSE f : Is(f)
<1>1. Is(at)
  <2>1. ASSUME NEW k \in 0 .. n PROVE at[k] = IF k = 0 THEN 0 ELSE at[k - 1] + widths[k]
    <3>1. k # 0 => k \in 1 .. n
      OBVIOUS
    <3> QED BY <3>1 DEF Places
  <2> QED BY <2>1
<1>2. Is(sum)
  BY <1>1, Zenon
<1>3. \A i : Before(widths, i) = sum[i - 1]
  BY Zenon DEF Before
<1> HIDE DEF sum
<1>4. Places(sum, widths, n)
  BY <1>2 DEF Places
<1> QED BY <1>3, <1>4

PushWidths == HeaderWidths \o IdentWidths
PullWidths == HeaderWidths \o IdentWidths \o <<4>>

\* The fields of a PUSH and of a PULL, written out.
LEMMA WidthsAre ==
  /\ PushWidths \in Seq(Nat) /\ PullWidths \in Seq(Nat)
  /\ Len(PushWidths) = 6 /\ Len(PullWidths) = 7
  /\ PushWidths[1] = 1 /\ PushWidths[2] = 4 /\ PushWidths[3] = 4 /\ PushWidths[4] = 4
  /\ PushWidths[5] = 4 /\ PushWidths[6] = 2
  /\ \A i \in 1 .. 6 : PullWidths[i] = PushWidths[i]
  /\ PullWidths[7] = 4
<1>1. HeaderWidths \in Seq(Nat) /\ IdentWidths \in Seq(Nat) /\ <<4>> \in Seq(Nat)
      /\ Len(HeaderWidths) = 4 /\ Len(IdentWidths) = 2 /\ Len(<<4>>) = 1
      /\ HeaderWidths[1] = 1 /\ HeaderWidths[2] = 4 /\ HeaderWidths[3] = 4 /\ HeaderWidths[4] = 4
      /\ IdentWidths[1] = 4 /\ IdentWidths[2] = 2 /\ <<4>>[1] = 4
  BY DEF HeaderWidths, IdentWidths
<1>h. PICK h, d, l : h = HeaderWidths /\ d = IdentWidths /\ l = <<4>>
  OBVIOUS
<1>p. PICK p, q : p = h \o d /\ q = p \o l
  OBVIOUS
<1>2. PushWidths = p /\ PullWidths = q
  BY <1>h, <1>p DEF PushWidths, PullWidths
<1>3. /\ p \in Seq(Nat) /\ Len(p) = 6
      /\ p[1] = h[1] /\ p[2] = h[2] /\ p[3] = h[3] /\ p[4] = h[4] /\ p[5] = d[1] /\ p[6] = d[2]
  <2>1. h \in Seq(Nat) /\ d \in Seq(Nat) /\ Len(h) = 4 /\ Len(d) = 2
    BY <1>1, <1>h
  <2>2. p \in Seq(Nat) /\ Joined(p, h, d)
    BY <1>p, <2>1, JoinFacts
  <2> QED BY <2>1, <2>2 DEF Joined
<1>4. q \in Seq(Nat) /\ Len(q) = 7 /\ (\A i \in 1 .. 6 : q[i] = p[i]) /\ q[7] = l[1]
  <2>1. p \in Seq(Nat) /\ l \in Seq(Nat) /\ Len(p) = 6 /\ Len(l) = 1
    BY <1>1, <1>3, <1>h
  <2>2. q \in Seq(Nat) /\ Joined(q, p, l)
    BY <1>p, <2>1, JoinFacts
  <2> QED BY <2>1, <2>2 DEF Joined
<1>5. /\ h[1] = 1 /\ h[2] = 4 /\ h[3] = 4 /\ h[4] = 4 /\ d[1] = 4 /\ d[2] = 2 /\ l[1] = 4
  BY <1>1, <1>h
<1>6. /\ p[1] = 1 /\ p[2] = 4 /\ p[3] = 4 /\ p[4] = 4 /\ p[5] = 4 /\ p[6] = 2
      /\ (\A i \in 1 .. 6 : q[i] = p[i]) /\ q[7] = 4
  BY <1>3, <1>4, <1>5
<1> QED BY <1>2, <1>3, <1>4, <1>6

\* Where the fields of a PUSH begin, ...
LEMMA PushPlaces ==
  /\ Before(PushWidths, 1) = 0 /\ Before(PushWidths, 2) = 1 /\ Before(PushWidths, 3) = 5
  /\ Before(PushWidths, 4) = 9 /\ Before(PushWidths, 5) = 13 /\ Before(PushWidths, 6) = 17
<1> DEFINE at == [k \in 0 .. 6 |-> IF k = 0 THEN 0 ELSE IF k <= 5 THEN 4 * k - 3 ELSE 19]
<1>1. Places(at, PushWidths, 6) /\ at = [k \in 0 .. 6 |-> at[k]]
  BY WidthsAre DEF Places
<1> HIDE DEF at
<1>0. 6 \in Nat /\ Len(PushWidths) = 6
  BY WidthsAre
<1>2. PICK sum : Places(sum, PushWidths, 6) /\ \A i \in 1 .. 6 + 1 : Before(PushWidths, i) = sum[i - 1]
  BY <1>0, <1>1, BeforeFacts
<1>3. sum[0] = 0 /\ sum[1] = 1 /\ sum[2] = 5 /\ sum[3] = 9 /\ sum[4] = 13 /\ sum[5] = 17
  BY <1>2, WidthsAre DEF Places
<1> QED BY <1>2, <1>3

\* ... and those of a PULL.
LEMMA PullPlaces ==
  /\ Before(PullWidths, 1) = 0 /\ Before(PullWidths, 2) = 1 /\ Before(PullWidths, 3) = 5
  /\ Before(PullWidths, 4) = 9 /\ Before(PullWidths, 5) = 13 /\ Before(PullWidths, 6) = 17
  /\ Before(PullWidths, 7) = 19
<1> DEFINE at == [k \in 0 .. 7 |-> IF k = 0 THEN 0 ELSE IF k <= 5 THEN 4 * k - 3 ELSE 4 * k - 5]
<1>1. Places(at, PullWidths, 7) /\ at = [k \in 0 .. 7 |-> at[k]]
  BY WidthsAre DEF Places
<1> HIDE DEF at
<1>0. 7 \in Nat /\ Len(PullWidths) = 7
  BY WidthsAre
<1>2. PICK sum : Places(sum, PullWidths, 7) /\ \A i \in 1 .. 7 + 1 : Before(PullWidths, i) = sum[i - 1]
  BY <1>0, <1>1, BeforeFacts
<1>3. /\ sum[0] = 0 /\ sum[1] = 1 /\ sum[2] = 5 /\ sum[3] = 9 /\ sum[4] = 13 /\ sum[5] = 17
      /\ sum[6] = 19
  BY <1>2, WidthsAre DEF Places
<1> QED BY <1>2, <1>3

----------------------------------------------------------------------------
(* What packets begin with *)

\* Bytes has the bytes of every field whose value is a number.
AreBytes(Bytes) == \A value, j, width \in Nat : <<value, j, width>> \in Bytes

\* A buffer that begins like every packet.
Opened(buf, type, id) ==
  /\ Lies(buf, 0, type, 1) /\ Lies(buf, 1, id \div WordSize, 4)
  /\ Lies(buf, 5, id % WordSize, 4) /\ Lies(buf, 9, MagicNumber, 4)
Addressed(buf, at, n) == Lies(buf, at, n[1], 4) /\ Lies(buf, at + 4, n[2], 2)

\* A number is appended to a buffer; so is an address.
Adds(Bytes, s, n, width, u) ==
  AreBytes(Bytes) /\ s \in Seq(Bytes) /\ n \in Nat /\ width \in Nat /\ u = s \o Field(n, width)
AddsIdent(Bytes, s, n, u) ==
  AreBytes(Bytes) /\ s \in Seq(Bytes) /\ n \in Nat \X Nat /\ u = s \o WriteIdent(n)

\* A number that is appended lies behind what was there, which stays where it was.
LEMMA NumberAppended ==
  ASSUME NEW Bytes, NEW s, NEW n, NEW width, NEW u, Adds(Bytes, s, n, width, u)
  PROVE  u \in Seq(Bytes) /\ Len(u) = Len(s) + width /\ Lies(u, Len(s), n, width) /\ Kept(s, u)
<1> USE DEF Adds
<1>1. \A j \in 1 .. width : <<n, j, width>> \in Bytes
  BY DEF AreBytes
<1>2. Field(n, width) \in Seq(Bytes)
  BY <1>1, FieldIsList
<1>3. Kept(s, s \o Field(n, width))
  BY <1>2, AppendedBehind
<1>4. /\ s \o Field(n, width) \in Seq(Bytes)
      /\ Len(s \o Field(n, width)) = Len(s) + width
      /\ Lies(s \o Field(n, width), Len(s), n, width)
  BY <1>1, FieldAppended
<1> QED BY <1>3, <1>4

\* to32 makes two numbers of an id.
LEMMA HalvesAreNumbers ==
  ASSUME NEW id \in Nat
  PROVE  id \div WordSize \in Nat /\ id % WordSize \in Nat
BY PacketsAssumption

\* A buffer of one field has it at its start.
LEMMA NumberIsList ==
  ASSUME NEW Bytes, AreBytes(Bytes), NEW n \in Nat, NEW width \in Nat
  PROVE  /\ Field(n, width) \in Seq(Bytes) /\ Len(Field(n, width)) = width
         /\ Lies(Field(n, width), 0, n, width)
<1>1. \A j \in 1 .. width : <<n, j, width>> \in Bytes
  BY DEF AreBytes
<1>2. /\ Field(n, width) \in Seq(Bytes) /\ Len(Field(n, width)) = width
      /\ \A j \in 1 .. width : Field(n, width)[j] = <<n, j, width>>
  BY <1>1, FieldIsList
<1> QED BY <1>2 DEF Lies

\* write_id begins a packet.
LEMMA IdWritten ==
  ASSUME NEW Bytes, AreBytes(Bytes), NEW type \in Nat, NEW id \in Nat, NEW u, u = WriteId(type, id)
  PROVE  u \in Seq(Bytes) /\ Len(u) = 13 /\ Opened(u, type, id)
<1>h. PICK hi, lo : hi = id \div WordSize /\ lo = id % WordSize
  OBVIOUS
<1>1. hi \in Nat /\ lo \in Nat /\ MagicNumber \in Nat
  BY <1>h, HalvesAreNumbers, PacketsAssumption
<1>a. PICK a : a = Field(type, 1)
  OBVIOUS
<1>b. PICK b : b = a \o Field(hi, 4)
  OBVIOUS
<1>c. PICK c : c = b \o Field(lo, 4)
  OBVIOUS
<1>2. u = c \o Field(MagicNumber, 4)
  BY <1>a, <1>b, <1>c, <1>h DEF WriteId, Char, Uint
<1>3. a \in Seq(Bytes) /\ Len(a) = 1 /\ Lies(a, 0, type, 1)
  BY <1>a, NumberIsList
<1>4. b \in Seq(Bytes) /\ Len(b) = 5 /\ Lies(b, 1, hi, 4) /\ Kept(a, b)
  <2>1. Adds(Bytes, a, hi, 4, b)
    BY <1>1, <1>3, <1>b DEF Adds
  <2>2. b \in Seq(Bytes) /\ Len(b) = Len(a) + 4 /\ Lies(b, Len(a), hi, 4) /\ Kept(a, b)
    BY <2>1, NumberAppended
  <2> QED BY <1>3, <2>2
<1>5. c \in Seq(Bytes) /\ Len(c) = 9 /\ Lies(c, 5, lo, 4) /\ Kept(b, c)
  <2>1. Adds(Bytes, b, lo, 4, c)
    BY <1>1, <1>4, <1>c DEF Adds
  <2>2. c \in Seq(Bytes) /\ Len(c) = Len(b) + 4 /\ Lies(c, Len(b), lo, 4) /\ Kept(b, c)
    BY <2>1, NumberAppended
  <2> QED BY <1>4, <2>2
<1>6. u \in Seq(Bytes) /\ Len(u) = 13 /\ Lies(u, 9, MagicNumber, 4) /\ Kept(c, u)
  <2>1. Adds(Bytes, c, MagicNumber, 4, u)
    BY <1>1, <1>2, <1>5 DEF Adds
  <2>2. u \in Seq(Bytes) /\ Len(u) = Len(c) + 4 /\ Lies(u, Len(c), MagicNumber, 4) /\ Kept(c, u)
    BY <2>1, NumberAppended
  <2> QED BY <1>5, <2>2
<1>7. Lies(u, 0, type, 1) /\ Lies(u, 1, hi, 4) /\ Lies(u, 5, lo, 4)
  BY <1>3, <1>4, <1>5, <1>6 DEF Kept
<1> QED BY <1>6, <1>7, <1>h DEF Opened

\* The address and the port of a NodeIdent lie behind each other.
LEMMA IdentAppended ==
  ASSUME NEW Bytes, NEW s, NEW n, NEW u, AddsIdent(Bytes, s, n, u)
  PROVE  u \in Seq(Bytes) /\ Len(u) = Len(s) + 6 /\ Addressed(u, Len(s), n) /\ Kept(s, u)
<1>1. AreBytes(Bytes) /\ s \in Seq(Bytes) /\ n[1] \in Nat /\ n[2] \in Nat /\ Len(s) \in Nat
  BY LenProperties DEF AddsIdent
<1>x. PICK x, y : x = Field(n[1], 4) /\ y = Field(n[2], 2)
  OBVIOUS
<1>2. x \in Seq(Bytes) /\ y \in Seq(Bytes)
  BY <1>1, <1>x, NumberIsList
<1>a. PICK a : a = s \o x
  OBVIOUS
<1>3. u = a \o y
  <2>1. u = s \o (x \o y)
    BY <1>x DEF AddsIdent, WriteIdent, Uint, Ushort
  <2> QED BY <1>1, <1>2, <1>a, <2>1, ConcatAssociative, SMTT(30)
<1>4. a \in Seq(Bytes) /\ Len(a) = Len(s) + 4 /\ Lies(a, Len(s), n[1], 4) /\ Kept(s, a)
  <2>1. Adds(Bytes, s, n[1], 4, a)
    BY <1>1, <1>a, <1>x DEF Adds
  <2> QED BY <2>1, NumberAppended
<1>5. u \in Seq(Bytes) /\ Len(u) = Len(a) + 2 /\ Lies(u, Len(a), n[2], 2) /\ Kept(a, u)
  <2>1. Adds(Bytes, a, n[2], 2, u)
    BY <1>1, <1>3, <1>4, <1>x DEF Adds
  <2> QED BY <2>1, NumberAppended
<1>6. Len(u) = Len(s) + 6 /\ Lies(u, Len(s) + 4, n[2], 2) /\ Lies(u, Len(s), n[1], 4)
  <2> PICK l : l = Len(s)
    OBVIOUS
  <2>1. Lies(u, l, n[1], 4)
    BY <1>1, <1>4, <1>5 DEF Kept
  <2> QED BY <1>1, <1>4, <1>5, <2>1
<1>7. Kept(s, u)
  BY <1>4, <1>5 DEF Kept
<1> QED BY <1>5, <1>6, <1>7 DEF Addressed

\* NULL is no list, no number, no PULL and no call of a program.
NullIsNoPull == \A from, payload, rest : Null # [from |-> from, payload |-> payload, rest |-> rest]
NullIsNoCall == \A text, func, param : Null # [text |-> text, func |-> func, param |-> param]
NullIsApart == NullIsNoList /\ Null \notin Nat /\ NullIsNoPull /\ NullIsNoCall

\* What is read of a buffer that begins like a packet to or from n.
LEMMA PushHeaderRead ==
  ASSUME NEW buf, NEW type, NEW id, NEW n, Opened(buf, type, id), Addressed(buf, 13, n),
         NEW f, f = RetrieveAll(buf, 0, PushWidths)
  PROVE  /\ DOMAIN f = 1 .. 6
         /\ f[1] = type /\ f[2] = id \div WordSize /\ f[3] = id % WordSize
         /\ f[4] = MagicNumber /\ f[5] = n[1] /\ f[6] = n[2]
<1>1. /\ DOMAIN f = 1 .. 6
      /\ \A i \in 1 .. 6 : f[i] = Retrieve(buf, 0 + Before(PushWidths, i), PushWidths[i])
  <2>1. f = [i \in 1 .. 6 |-> Retrieve(buf, 0 + Before(PushWidths, i), PushWidths[i])]
    BY WidthsAre DEF RetrieveAll
  <2> QED BY <2>1
<1>2. /\ f[1] = Retrieve(buf, 0, 1) /\ f[2] = Retrieve(buf, 1, 4) /\ f[3] = Retrieve(buf, 5, 4)
      /\ f[4] = Retrieve(buf, 9, 4) /\ f[5] = Retrieve(buf, 13, 4) /\ f[6] = Retrieve(buf, 17, 2)
  BY <1>1, WidthsAre, PushPlaces
<1>3. /\ Retrieve(buf, 0, 1) = type /\ Retrieve(buf, 1, 4) = id \div WordSize
      /\ Retrieve(buf, 5, 4) = id % WordSize /\ Retrieve(buf, 9, 4) = MagicNumber
  BY RetrieveField DEF Opened
<1>4. Retrieve(buf, 13, 4) = n[1] /\ Retrieve(buf, 17, 2) = n[2]
  BY RetrieveField DEF Addressed
<1> QED BY <1>1, <1>2, <1>3, <1>4

\* The same of a PULL, whose length field may be missing.
LEMMA PullHeaderRead ==
  ASSUME NEW buf, NEW f, f = RetrieveAll(buf, 0, PullWidths)
  PROVE  /\ DOMAIN f = 1 .. 7 /\ f[7] = Retrieve(buf, 19, 4)
         /\ \A type, id, n, l :
              Opened(buf, type, id) /\ Addressed(buf, 13, n) /\ Lies(buf, 19, l, 4) =>
                /\ f[1] = type /\ f[2] = id \div WordSize /\ f[3] = id % WordSize
                /\ f[4] = MagicNumber /\ f[5] = n[1] /\ f[6] = n[2] /\ f[7] = l
<1>1. /\ DOMAIN f = 1 .. 7
      /\ \A i \in 1 .. 7 : f[i] = Retrieve(buf, 0 + Before(PullWidths, i), PullWidths[i])
  <2>1. f = [i \in 1 .. 7 |-> Retrieve(buf, 0 + Before(PullWidths, i), PullWidths[i])]
    BY WidthsAre DEF RetrieveAll
  <2> QED BY <2>1
<1>2. /\ f[1] = Retrieve(buf, 0, 1) /\ f[2] = Retrieve(buf, 1, 4) /\ f[3] = Retrieve(buf, 5, 4)
      /\ f[4] = Retrieve(buf, 9, 4) /\ f[5] = Retrieve(buf, 13, 4) /\ f[6] = Retrieve(buf, 17, 2)
      /\ f[7] = Retrieve(buf, 19, 4)
  BY <1>1, WidthsAre, PullPlaces
<1>3. ASSUME NEW type, NEW id, NEW n, NEW l,
             Opened(buf, type, id), Addressed(buf, 13, n), Lies(buf, 19, l, 4)
      PROVE  /\ f[1] = type /\ f[2] = id \div WordSize /\ f[3] = id % WordSize
             /\ f[4] = MagicNumber /\ f[5] = n[1] /\ f[6] = n[2] /\ f[7] = l
  <2>1. /\ Retrieve(buf, 0, 1) = type /\ Retrieve(buf, 1, 4) = id \div WordSize
        /\ Retrieve(buf, 5, 4) = id % WordSize /\ Retrieve(buf, 9, 4) = MagicNumber
    BY <1>3, RetrieveField DEF Opened
  <2>2. Retrieve(buf, 13, 4) = n[1] /\ Retrieve(buf, 17, 2) = n[2]
    BY <1>3, RetrieveField DEF Addressed
  <2>3. Retrieve(buf, 19, 4) = l
    BY <1>3, RetrieveField
  <2> QED BY <1>2, <2>1, <2>2, <2>3
<1> QED BY <1>1, <1>2, <1>3

\* What lies behind a header.
LEMMA BehindHeader ==
  ASSUME NEW T, NEW s \in Seq(T), NEW t \in Seq(T), NEW u, u = s \o t,
         NEW l, l = Len(s) + 1, NEW e, e = Len(s) + Len(t)
  PROVE  SubSeq(u, l, e) = t
<1>1. u \in Seq(T) /\ Joined(u, s, t)
  BY JoinFacts
<1>2. Len(s) \in Nat /\ Len(t) \in Nat /\ Len(u) = Len(s) + Len(t)
  BY <1>1 DEF Joined
<1>v. PICK v : v = SubSeq(u, l, e)
  OBVIOUS
<1>3. v \in Seq(T) /\ Len(v) = Len(t) /\ \A i \in 1 .. Len(t) : v[i] = u[l + i - 1]
  <2>1. l \in Int /\ e \in Int /\ (IF l <= e THEN e - l + 1 ELSE 0) = Len(t) /\ e - l + 1 = Len(t)
    BY <1>2
  <2>2. \A i \in l .. e : u[i] \in T
    BY <1>1, <1>2, LenProperties
  <2>3. /\ v \in Seq(T) /\ Len(v) = (IF l <= e THEN e - l + 1 ELSE 0)
        /\ \A i \in 1 .. e - l + 1 : v[i] = u[l + i - 1]
    BY <1>v, <2>1, <2>2, SubSeqProperties
  <2> QED BY <2>1, <2>3
<1>4. ASSUME NEW i \in 1 .. Len(t) PROVE v[i] = t[i]
  <2>1. l + i - 1 = Len(s) + i
    BY <1>2
  <2> QED BY <1>1, <1>3, <2>1 DEF Joined
<1>5. v = t
  BY <1>3, <1>4, SeqEqual
<1> QED BY <1>5, <1>v

----------------------------------------------------------------------------
(* A PUSH, and the PULL that is made of it *)

IsAddress(n) == n \in Nat \X Nat

\* The header of a packet with an address: what createRealPacket of a PUSH or PULL writes.
Header(type, n) == WriteId(type, 0) \o WriteIdent(n)

\* The header is 19 bytes, and each field is at its place.
LEMMA HeaderWritten ==
  ASSUME NEW Bytes, AreBytes(Bytes), NEW type \in Nat, NEW n, IsAddress(n), NEW u, u = Header(type, n)
  PROVE  u \in Seq(Bytes) /\ Len(u) = 19 /\ Opened(u, type, 0) /\ Addressed(u, 13, n)
<1>a. PICK a : a = WriteId(type, 0)
  OBVIOUS
<1>1. a \in Seq(Bytes) /\ Len(a) = 13 /\ Opened(a, type, 0)
  BY <1>a, IdWritten
<1>2. AddsIdent(Bytes, a, n, u)
  BY <1>a, <1>1 DEF AddsIdent, Header, IsAddress
<1>3. u \in Seq(Bytes) /\ Len(u) = Len(a) + 6 /\ Addressed(u, Len(a), n) /\ Kept(a, u)
  BY <1>2, IdentAppended
<1>4. Opened(u, type, 0)
  BY <1>1, <1>3 DEF Opened, Kept
<1> QED BY <1>1, <1>3, <1>4

\* What is behind a header does not change it.
LEMMA KeptOpened ==
  ASSUME NEW s, NEW u, Kept(s, u), NEW type, NEW id, NEW n, Opened(s, type, id), Addressed(s, 13, n)
  PROVE  Opened(u, type, id) /\ Addressed(u, 13, n)
<1>1. Opened(u, type, id)
  BY DEF Kept, Opened
<1>2. Addressed(u, 13, n)
  BY DEF Kept, Addressed
<1> QED BY <1>1, <1>2

\* A PUSH for dest around a payload, and what the host makes of it.
PullBytes(from, payload) == WriteId(PULL, 0) \o WriteIdent(from) \o Uint(Len(payload)) \o payload

\* What the host makes of a PUSH: its payload in a PULL from the sender, if that fits.
LEMMA PushParsed ==
  ASSUME NullIsApart, NEW Bytes, AreBytes(Bytes), NEW from, NEW dest, IsAddress(dest),
         NEW payload \in Seq(Bytes), NEW push, push = WrapPush(dest, payload), push # Null,
         NEW pull, pull = ParsePush(from, push), pull # Null
  PROVE  /\ pull.dest = dest /\ pull.bytes = PullBytes(from, payload)
         /\ Len(pull.bytes) <= MaxPacketSize
<1>h. PICK h : h = Header(PUSH, dest)
  OBVIOUS
<1>1. h \in Seq(Bytes) /\ Len(h) = 19 /\ Opened(h, PUSH, 0) /\ Addressed(h, 13, dest)
  BY <1>h, HeaderWritten DEF PUSH
<1>2. push = h \o payload
  BY <1>h DEF WrapPush, Header, Complete
<1>3. push \in Seq(Bytes) /\ Len(push) = 19 + Len(payload) /\ Kept(h, push)
  <2>1. push \in Seq(Bytes) /\ Joined(push, h, payload)
    BY <1>1, <1>2, JoinFacts
  <2> QED BY <1>1, <1>2, <2>1, AppendedBehind DEF Joined
<1>4. Opened(push, PUSH, 0) /\ Addressed(push, 13, dest)
  BY <1>1, <1>3, KeptOpened
<1>5. SubSeq(push, 20, Len(push)) = payload
  <2>1. 20 = Len(h) + 1 /\ Len(push) = Len(h) + Len(payload)
    BY <1>1, <1>3
  <2> QED BY <1>1, <1>2, <2>1, BehindHeader
<1>f. PICK f : f = RetrieveAll(push, 0, PushWidths)
  OBVIOUS
<1>6. f[5] = dest[1] /\ f[6] = dest[2]
  BY <1>4, <1>f, PushHeaderRead
<1>7. /\ pull = [dest |-> <<f[5], f[6]>>, bytes |-> Complete(PullBytes(from, payload))]
      /\ Complete(PullBytes(from, payload)) # Null
  BY <1>5, <1>f DEF ParsePush, PullBytes, PushWidths
<1>8. Complete(PullBytes(from, payload)) = PullBytes(from, payload)
      /\ Len(PullBytes(from, payload)) <= MaxPacketSize
  BY <1>7 DEF Complete
<1>9. <<dest[1], dest[2]>> = dest
  BY DEF IsAddress
<1> QED BY <1>6, <1>7, <1>8, <1>9

\* A buffer that begins with the PULL of a payload.
BeginsPull(buf, from, l) ==
  Opened(buf, PULL, 0) /\ Addressed(buf, 13, from) /\ Lies(buf, 19, l, 4)

HasHeader(Bytes, u, payload) == \E h \in Seq(Bytes) : Len(h) = 23 /\ u = h \o payload

\* A PULL is its header of 23 bytes, and its payload.
LEMMA PullWritten ==
  ASSUME NEW Bytes, AreBytes(Bytes), NEW from, IsAddress(from), NEW payload \in Seq(Bytes),
         NEW u, u = PullBytes(from, payload)
  PROVE  /\ u \in Seq(Bytes) /\ Len(u) = 23 + Len(payload) /\ Len(payload) \in Nat
         /\ BeginsPull(u, from, Len(payload))
         /\ HasHeader(Bytes, u, payload)
<1>l. PICK l : l = Len(payload)
  OBVIOUS
<1>1. l \in Nat
  BY <1>l, LenProperties
<1>g. PICK g : g = Header(PULL, from)
  OBVIOUS
<1>h. PICK h : h = g \o Field(l, 4)
  OBVIOUS
<1>2. u = h \o payload
  BY <1>l, <1>g, <1>h DEF PullBytes, Header, Uint
<1>3. g \in Seq(Bytes) /\ Len(g) = 19 /\ Opened(g, PULL, 0) /\ Addressed(g, 13, from)
  BY <1>g, HeaderWritten DEF PULL
<1>4. h \in Seq(Bytes) /\ Len(h) = 23 /\ Lies(h, 19, l, 4) /\ Kept(g, h)
  <2>1. Adds(Bytes, g, l, 4, h)
    BY <1>1, <1>3, <1>h DEF Adds
  <2>2. h \in Seq(Bytes) /\ Len(h) = Len(g) + 4 /\ Lies(h, Len(g), l, 4) /\ Kept(g, h)
    BY <2>1, NumberAppended
  <2> QED BY <1>3, <2>2
<1>5. Opened(h, PULL, 0) /\ Addressed(h, 13, from)
  BY <1>3, <1>4, KeptOpened
<1>6. u \in Seq(Bytes) /\ Len(u) = 23 + l /\ Kept(h, u)
  <2>1. u \in Seq(Bytes) /\ Joined(u, h, payload)
    BY <1>2, <1>4, JoinFacts
  <2> QED BY <1>l, <1>2, <1>4, <2>1, AppendedBehind DEF Joined
<1>7. Opened(u, PULL, 0) /\ Addressed(u, 13, from)
  BY <1>5, <1>6, KeptOpened
<1>8. Lies(u, 19, l, 4)
  BY <1>1, <1>4, <1>6 DEF Kept
<1> QED BY <1>1, <1>2, <1>4, <1>6, <1>7, <1>8, <1>l DEF BeginsPull, HasHeader

\* A buffer that begins with a whole PULL is parsed, ...
LEMMA WholePullParsed ==
  ASSUME NullIsApart, NEW Bytes, AreBytes(Bytes), NEW from, IsAddress(from),
         NEW payload \in Seq(Bytes), NEW rest \in Seq(Bytes),
         NEW buf, buf = PullBytes(from, payload) \o rest
  PROVE  ParsePull(buf) = [from |-> from, payload |-> payload, rest |-> rest]
<1>u. PICK u : u = PullBytes(from, payload)
  OBVIOUS
<1>l. PICK l : l = Len(payload)
  OBVIOUS
<1>1. /\ u \in Seq(Bytes) /\ Len(u) = 23 + l /\ l \in Nat /\ BeginsPull(u, from, l)
  BY <1>u, <1>l, PullWritten
<1>h. PICK h \in Seq(Bytes) : Len(h) = 23 /\ u = h \o payload
  <2>1. HasHeader(Bytes, u, payload)
    BY <1>u, PullWritten
  <2> QED BY <2>1 DEF HasHeader
<1>b. buf = u \o rest
  BY <1>u
<1>2. buf \in Seq(Bytes) /\ Len(buf) = Len(u) + Len(rest) /\ Kept(u, buf) /\ Len(rest) \in Nat
  <2>1. buf \in Seq(Bytes) /\ Joined(buf, u, rest)
    BY <1>b, <1>1, JoinFacts
  <2> QED BY <1>b, <1>1, <2>1, AppendedBehind DEF Joined
<1>3. Opened(buf, PULL, 0) /\ Addressed(buf, 13, from) /\ Lies(buf, 19, l, 4)
  <2>1. Opened(buf, PULL, 0) /\ Addressed(buf, 13, from)
    BY <1>1, <1>2, KeptOpened DEF BeginsPull
  <2>2. Lies(buf, 19, l, 4)
    BY <1>1, <1>2 DEF BeginsPull, Kept
  <2> QED BY <2>1, <2>2
<1>f. PICK f : f = RetrieveAll(buf, 0, PullWidths)
  OBVIOUS
<1>4. /\ DOMAIN f = 1 .. 7 /\ f[1] = PULL /\ f[2] = 0 \div WordSize /\ f[3] = 0 % WordSize
      /\ f[4] = MagicNumber /\ f[5] = from[1] /\ f[6] = from[2] /\ f[7] = l
  BY <1>3, <1>f, PullHeaderRead
<1>5. Opens(f, PULL)
  <2>1. PULL \in Nat /\ 0 \div WordSize \in Nat /\ 0 % WordSize \in Nat /\ MagicNumber \in Nat
        /\ from[1] \in Nat /\ from[2] \in Nat /\ Null \notin Nat
    BY HalvesAreNumbers, PacketsAssumption DEF PULL, IsAddress, NullIsApart
  <2>2. \A i \in 1 .. 7 : i = 1 \/ i = 2 \/ i = 3 \/ i = 4 \/ i = 5 \/ i = 6 \/ i = 7
    OBVIOUS
  <2>3. \A i \in 1 .. 7 : f[i] \in Nat
    BY <1>1, <1>4, <2>1, <2>2
  <2> QED BY <1>4, <2>1, <2>3 DEF Opens
<1>7. SubSeq(buf, 23 + f[7] + 1, Len(buf)) = rest
  <2>1. 23 + f[7] + 1 = Len(u) + 1
    BY <1>1, <1>4
  <2> PICK i, j : i = 23 + f[7] + 1 /\ j = Len(buf)
    OBVIOUS
  <2>2. SubSeq(buf, i, j) = rest
    BY <1>b, <1>1, <1>2, <2>1, BehindHeader
  <2> QED BY <2>2
<1>8. SubSeq(buf, 24, 23 + f[7]) = payload
  <2>2. SubSeq(u, 24, 23 + l) = payload
    <3>1. 24 = Len(h) + 1 /\ 23 + l = Len(h) + Len(payload)
      BY <1>h, <1>l
    <3>p. PICK i, j : i = 24 /\ j = 23 + l
      OBVIOUS
    <3>2. i = Len(h) + 1 /\ j = Len(h) + Len(payload)
      BY <3>1, <3>p
    <3>3. h \in Seq(Bytes) /\ u = h \o payload
      BY <1>h
    <3>4. SubSeq(u, i, j) = payload
      BY <3>2, <3>3, BehindHeader
    <3> QED BY <3>4, <3>p
  <2>3. SubSeq(buf, 24, 23 + l) = SubSeq(u, 24, 23 + l)
    <3>1. CASE l = 0
      <4>1. 23 + l < 24 /\ 23 + l \in Int /\ 24 \in Int
        BY <3>1
      <4> QED BY <4>1, SubSeqEmpty
    <3>2. CASE l # 0
      <4>1. 24 \in 1 .. Len(u) /\ 23 + l \in 1 .. Len(u)
        BY <1>1, <3>2
      <4> QED BY <1>b, <1>1, <4>1, SubSeqOfConcat1
    <3> QED BY <3>1, <3>2
  <2> QED BY <1>4, <2>2, <2>3
<1>9. <<f[5], f[6]>> = from
  BY <1>4 DEF IsAddress
<1>10. ParsePull(buf) =
         IF ~Opens(f, PULL) THEN Null
         ELSE IF Len(buf) < 23 + f[7] THEN Null
         ELSE [from |-> <<f[5], f[6]>>, payload |-> SubSeq(buf, 24, 23 + f[7]),
               rest |-> SubSeq(buf, 23 + f[7] + 1, Len(buf))]
  BY <1>f DEF ParsePull, PullWidths
<1>11. ~(Len(buf) < 23 + f[7])
  BY <1>1, <1>2, <1>4
<1> QED BY <1>5, <1>7, <1>8, <1>9, <1>10, <1>11

\* ... one that ends before it does is not.
LEMMA ShortPullRefused ==
  ASSUME NullIsApart, NEW Bytes, AreBytes(Bytes), NEW from, IsAddress(from),
         NEW payload \in Seq(Bytes), NEW u, u = PullBytes(from, payload),
         NEW m \in 0 .. Len(u) - 1, NEW buf, buf = SubSeq(u, 1, m)
  PROVE  ParsePull(buf) = Null
<1>l. PICK l : l = Len(payload)
  OBVIOUS
<1>1. u \in Seq(Bytes) /\ Len(u) = 23 + l /\ l \in Nat /\ BeginsPull(u, from, l)
  BY <1>l, PullWritten
<1>2. m \in 0 .. Len(u) /\ m < 23 + l /\ m \in Nat
  BY <1>1
<1>3. buf \in Seq(Bytes) /\ Len(buf) = m /\ KeptTo(m, u, buf)
  BY <1>1, <1>2, CutBehind
<1>f. PICK f : f = RetrieveAll(buf, 0, PullWidths)
  OBVIOUS
<1>4. DOMAIN f = 1 .. 7 /\ f[7] = Retrieve(buf, 19, 4)
  BY <1>f, PullHeaderRead
<1>5. CASE m < 23
  <2>1. f[7] = Null
    BY <1>2, <1>3, <1>4, <1>5 DEF Retrieve
  <2>2. ~Opens(f, PULL)
    BY <1>4, <2>1 DEF Opens
  <2> QED BY <1>f, <2>2 DEF ParsePull, PullWidths
<1>6. CASE m >= 23
  <2>1. Lies(buf, 19, l, 4)
    BY <1>1, <1>3, <1>6 DEF BeginsPull, KeptTo
  <2>2. f[7] = l
    BY <1>4, <2>1, RetrieveField
  <2>3. Len(buf) < 23 + f[7]
    BY <1>2, <1>3, <2>2
  <2> QED BY <1>f, <2>3 DEF ParsePull, PullWidths
<1> QED BY <1>2, <1>5, <1>6

----------------------------------------------------------------------------
(* Two ways to cut one list *)

\* Two ways to cut the same list in two.
CutTwice(T, a, b, c, d) ==
  /\ a \in Seq(T) /\ b \in Seq(T) /\ c \in Seq(T) /\ d \in Seq(T)
  /\ a \o b = c \o d /\ Len(a) <= Len(c)

Overlaps(T, a, b, c, d) == \E e \in Seq(T) : c = a \o e /\ b = e \o d /\ Len(c) = Len(a) + Len(e)

\* The longer front holds the shorter one, and what it has more is in front of the rest.
LEMMA Overlap ==
  ASSUME NEW T, NEW a, NEW b, NEW c, NEW d, CutTwice(T, a, b, c, d)
  PROVE  Overlaps(T, a, b, c, d)
<1> SUFFICES ASSUME a \in Seq(T), b \in Seq(T), c \in Seq(T), d \in Seq(T),
                    a \o b = c \o d, Len(a) <= Len(c)
             PROVE  \E e \in Seq(T) : c = a \o e /\ b = e \o d /\ Len(c) = Len(a) + Len(e)
  BY DEF CutTwice, Overlaps
<1>e. PICK e : e = SubSeq(c, Len(a) + 1, Len(c))
  OBVIOUS
<1>u. PICK u : u = a \o b
  OBVIOUS
<1>1. u \in Seq(T) /\ Joined(u, a, b) /\ Joined(u, c, d)
  BY <1>u, JoinFacts
<1>2. Len(a) \in Nat /\ Len(c) \in Nat
  BY LenProperties
<1>3. e \in Seq(T) /\ Len(e) = Len(c) - Len(a) /\ \A i \in 1 .. Len(e) : e[i] = c[Len(a) + i]
  <2> PICK l, n : l = Len(a) /\ n = Len(c)
    OBVIOUS
  <2>1. \A i \in l + 1 .. n : c[i] \in T
    BY <1>2, LenProperties
  <2>2. l + 1 \in Int /\ n \in Int /\ (IF l + 1 <= n THEN n - (l + 1) + 1 ELSE 0) = n - l
        /\ n - (l + 1) + 1 = n - l /\ \A i \in 1 .. n - l : l + 1 + i - 1 = l + i
    BY <1>2
  <2>3. /\ e \in Seq(T) /\ Len(e) = (IF l + 1 <= n THEN n - (l + 1) + 1 ELSE 0)
        /\ \A i \in 1 .. n - (l + 1) + 1 : e[i] = c[l + 1 + i - 1]
    BY <1>e, <2>1, <2>2, SubSeqProperties
  <2> QED BY <2>2, <2>3
<1>v. PICK v : v = a \o e
  OBVIOUS
<1>4. v \in Seq(T) /\ Joined(v, a, e)
  BY <1>v, <1>3, JoinFacts
<1>5. c = v
  <2>1. Len(v) = Len(c)
    BY <1>2, <1>3, <1>4 DEF Joined
  <2>2. ASSUME NEW i \in 1 .. Len(c) PROVE c[i] = v[i]
    <3>1. CASE i <= Len(a)
      <4>1. i \in 1 .. Len(a)
        BY <1>2, <3>1
      <4>2. v[i] = a[i] /\ u[i] = a[i]
        BY <1>1, <1>4, <4>1 DEF Joined
      <4>3. u[i] = c[i]
        BY <1>1 DEF Joined
      <4> QED BY <4>2, <4>3
    <3>2. CASE ~(i <= Len(a))
      <4> PICK j : j = i - Len(a)
        OBVIOUS
      <4>1. j \in 1 .. Len(e) /\ i = Len(a) + j
        BY <1>2, <1>3, <3>2
      <4> QED BY <1>3, <1>4, <4>1 DEF Joined
    <3> QED BY <3>1, <3>2
  <2> QED BY <1>4, <2>1, <2>2, SeqEqual
<1>6. a \o b = a \o (e \o d)
  <2>1. (a \o e) \o d = a \o (e \o d)
    BY <1>3, ConcatAssociative, SMTT(30)
  <2> QED BY <1>v, <1>5, <2>1
<1>7. b = e \o d
  <2>1. e \o d \in Seq(T)
    BY <1>3, ConcatProperties
  <2> QED BY <1>6, <2>1, ConcatSimplifications
<1>8. Len(c) = Len(a) + Len(e)
  BY <1>2, <1>3
<1> QED BY <1>3, <1>5, <1>7, <1>8, <1>v

\* The front of a concatenation, as SubSeq cuts it off, ...
LEMMA FrontOf ==
  ASSUME NEW T, NEW a \in Seq(T), NEW e \in Seq(T), NEW c, c = a \o e, NEW n, n = Len(a)
  PROVE  SubSeq(c, 1, n) = a
<1>1. c \in Seq(T) /\ Joined(c, a, e)
  BY JoinFacts
<1>2. n \in 0 .. Len(c) /\ Len(a) \in Nat
  BY <1>1 DEF Joined
<1>v. PICK v : v = SubSeq(c, 1, n)
  OBVIOUS
<1>3. v \in Seq(T) /\ Len(v) = n /\ \A i \in 1 .. n : v[i] = c[i]
  <2>1. \A i \in 1 .. n : c[i] \in T
    BY <1>1, <1>2, LenProperties
  <2>2. n \in Int /\ 1 \in Int /\ (IF 1 <= n THEN n - 1 + 1 ELSE 0) = n /\ n - 1 + 1 = n
        /\ \A i \in 1 .. n : 1 + i - 1 = i
    BY <1>2
  <2>3. /\ v \in Seq(T) /\ Len(v) = (IF 1 <= n THEN n - 1 + 1 ELSE 0)
        /\ \A i \in 1 .. n - 1 + 1 : v[i] = c[1 + i - 1]
    BY <1>v, <2>1, <2>2, SubSeqProperties
  <2> QED BY <2>2, <2>3
<1>4. \A i \in 1 .. Len(a) : v[i] = a[i]
  BY <1>1, <1>3 DEF Joined
<1>5. v = a
  BY <1>3, <1>4, SeqEqual
<1> QED BY <1>5, <1>v

\* ... and as IsPrefix knows it.
LEMMA PrefixFacts ==
  ASSUME NEW T, NEW a \in Seq(T), NEW e \in Seq(T)
  PROVE  IsPrefix(a, a \o e)
<1>u. PICK u : u = a \o e
  OBVIOUS
<1>1. Len(a) <= Len(u) /\ Len(a) \in Nat
  <2>1. Joined(u, a, e)
    BY <1>u, JoinFacts
  <2> QED BY <2>1 DEF Joined
<1>2. SubSeq(u, 1, Len(a)) = a
  BY <1>u, FrontOf
<1>3. SubSeq(a, 1, Len(a)) = a
  BY SubSeqFull
<1> QED BY <1>1, <1>2, <1>3, <1>u DEF IsPrefix

----------------------------------------------------------------------------
(* Lists of entries with fields of fixed widths *)

\* The fields lie one behind the other.
Sums(widths) ==
  /\ Before(widths, 1) = 0
  /\ \A i \in 1 .. Len(widths) :
       /\ Before(widths, i) \in Nat /\ Before(widths, i + 1) \in Nat
       /\ Before(widths, i + 1) = Before(widths, i) + widths[i]

\* Places for the first n widths.
LEMMA PlacesExist ==
  ASSUME NEW widths \in Seq(Nat), NEW n \in 0 .. Len(widths)
  PROVE  \E at \in [0 .. n -> Nat] : Places(at, widths, n)
<1> DEFINE Done(k) == \E at \in [0 .. k -> Nat] : Places(at, widths, k)
           T == {k \in 0 .. Len(widths) : ~Done(k)}
<1>0. Len(widths) \in Nat
  BY LenProperties
<1>1. Done(0)
  <2>1. [k \in 0 .. 0 |-> 0] \in [0 .. 0 -> Nat] /\ Places([k \in 0 .. 0 |-> 0], widths, 0)
    BY DEF Places
  <2> QED BY <2>1
<1>2. ASSUME NEW k \in 1 .. Len(widths), Done(k - 1) PROVE Done(k)
  <2>1. PICK at \in [0 .. k - 1 -> Nat] : Places(at, widths, k - 1)
    BY <1>2
  <2>w. widths[k] \in Nat
    BY ElementOfSeq
  <2>b. PICK b : b = [j \in 0 .. k |-> IF j = k THEN at[k - 1] + widths[k] ELSE at[j]]
    OBVIOUS
  <2>2. at[k - 1] \in Nat
    BY <1>0
  <2>3. b \in [0 .. k -> Nat]
    <3>1. ASSUME NEW j \in 0 .. k, j # k PROVE at[j] \in Nat
      <4>1. j \in 0 .. k - 1
        BY <1>0, <3>1
      <4> QED BY <4>1
    <3> QED BY <2>b, <2>w, <2>2, <3>1
  <2>4. Places(b, widths, k)
    <3>1. b[0] = 0
      BY <1>0, <2>1, <2>b DEF Places
    <3>2. ASSUME NEW j \in 1 .. k PROVE b[j] = b[j - 1] + widths[j]
      <4>1. j - 1 \in 0 .. k /\ j - 1 # k
        BY <1>0
      <4>2. b[j - 1] = at[j - 1]
        BY <2>b, <4>1
      <4>3. CASE j = k
        BY <2>b, <4>2, <4>3
      <4>4. CASE j # k
        <5>1. j \in 1 .. k - 1 /\ j \in 0 .. k
          BY <1>0, <4>4
        <5> QED BY <2>1, <2>b, <4>2, <4>4, <5>1 DEF Places
      <4> QED BY <4>3, <4>4
    <3> QED BY <2>3, <3>1, <3>2 DEF Places
  <2> QED BY <2>3, <2>4
<1> HIDE DEF Done
<1> SUFFICES ASSUME T # {} PROVE FALSE
  BY DEF Done
<1>3. T \subseteq Nat
  BY <1>0
<1>4. PICK x \in T : \A y \in T : x <= y
  BY <1>3, SmallestExists
<1>5. x # 0 /\ x \in 0 .. Len(widths) /\ ~Done(x)
  BY <1>1, <1>4
<1>6. x \in 1 .. Len(widths) /\ x - 1 \in 0 .. Len(widths) /\ x - 1 \notin T
  BY <1>0, <1>4, <1>5
<1>7. Done(x - 1)
  BY <1>6
<1> QED BY <1>2, <1>5, <1>6, <1>7

\* What Before says of any widths.
LEMMA SumsHold ==
  ASSUME NEW widths \in Seq(Nat)
  PROVE  Sums(widths)
<1>n. PICK n : n = Len(widths)
  OBVIOUS
<1>0. n \in Nat
  BY <1>n, LenProperties
<1>1. PICK at \in [0 .. n -> Nat] : Places(at, widths, n)
  <2>1. n \in 0 .. Len(widths)
    BY <1>0, <1>n
  <2> QED BY <1>n, <2>1, PlacesExist
<1>2. at = [k \in 0 .. n |-> at[k]]
  OBVIOUS
<1>3. PICK sum : Places(sum, widths, n) /\ \A i \in 1 .. n + 1 : Before(widths, i) = sum[i - 1]
  BY <1>0, <1>1, <1>2, <1>n, BeforeFacts
<1>4. \A k \in 1 .. n : widths[k] \in Nat
  BY <1>n, ElementOfSeq
<1>5. \A k \in 0 .. n : sum[k] \in Nat
  <2> DEFINE T == {k \in 0 .. n : sum[k] \notin Nat}
  <2> SUFFICES ASSUME T # {} PROVE FALSE
    OBVIOUS
  <2>1. T \subseteq Nat
    BY <1>0
  <2>2. PICK x \in T : \A y \in T : x <= y
    BY <2>1, SmallestExists
  <2>3. sum[0] = 0 /\ \A k \in 1 .. n : sum[k] = sum[k - 1] + widths[k]
    BY <1>3 DEF Places
  <2>4. x # 0
    BY <2>2, <2>3
  <2>5. x - 1 \in 0 .. n /\ x - 1 \notin T /\ x \in 1 .. n
    BY <1>0, <2>2, <2>4
  <2>6. sum[x - 1] \in Nat
    BY <2>5
  <2>7. widths[x] \in Nat /\ sum[x] = sum[x - 1] + widths[x]
    BY <1>4, <2>3, <2>5
  <2>8. sum[x] \notin Nat
    BY <2>2
  <2> QED BY <2>6, <2>7, <2>8
<1>6. Before(widths, 1) = 0
  <2>1. 1 \in 1 .. n + 1
    BY <1>0
  <2> QED BY <1>3, <2>1 DEF Places
<1>7. ASSUME NEW i \in 1 .. n
      PROVE  /\ Before(widths, i) \in Nat /\ Before(widths, i + 1) \in Nat
             /\ Before(widths, i + 1) = Before(widths, i) + widths[i]
  <2>1. i \in 1 .. n + 1 /\ i + 1 \in 1 .. n + 1 /\ i - 1 \in 0 .. n /\ i \in 0 .. n /\ i + 1 - 1 = i
    BY <1>0
  <2>2. Before(widths, i) = sum[i - 1] /\ Before(widths, i + 1) = sum[i]
    BY <1>3, <2>1
  <2>3. sum[i] = sum[i - 1] + widths[i]
    BY <1>3 DEF Places
  <2> QED BY <1>5, <2>1, <2>2, <2>3
<1> QED BY <1>6, <1>7, <1>n DEF Sums

\* A row of numbers has one for each width; it lies behind the first "at" bytes of a buffer.
IsRow(t, widths) == t \in Seq(Nat) /\ Len(t) = Len(widths)
RowIn(buf, at, t, widths) ==
  \A j \in 1 .. Len(widths) : Lies(buf, at + Before(widths, j), t[j], widths[j])

\* A row that lies there is read.
LEMMA RowRead ==
  ASSUME NEW widths \in Seq(Nat \ {0}), NEW t, IsRow(t, widths), NEW at \in Nat,
         NEW buf, RowIn(buf, at, t, widths)
  PROVE  RetrieveAll(buf, at, widths) = t
<1>n. PICK n : n = Len(widths)
  OBVIOUS
<1>0. n \in Nat /\ widths \in Seq(Nat) /\ t \in Seq(Nat) /\ Len(t) = n
  BY <1>n, LenProperties, SeqMonotonic DEF IsRow
<1>1. Sums(widths)
  BY <1>0, SumsHold
<1>2. ASSUME NEW j \in 1 .. n PROVE Retrieve(buf, at + Before(widths, j), widths[j]) = t[j]
  <2>1. widths[j] \in Nat \ {0}
    BY <1>n, ElementOfSeq
  <2>2. Before(widths, j) \in Nat
    BY <1>1, <1>n DEF Sums
  <2>p. PICK p : p = at + Before(widths, j)
    OBVIOUS
  <2>3. p \in Nat
    BY <2>2, <2>p
  <2>4. Lies(buf, p, t[j], widths[j])
    BY <1>n, <2>p DEF RowIn
  <2> QED BY <2>1, <2>3, <2>4, <2>p, RetrieveField
<1>r. PICK r : r = RetrieveAll(buf, at, widths)
  OBVIOUS
<1>3. r = [j \in 1 .. n |-> Retrieve(buf, at + Before(widths, j), widths[j])]
  BY <1>n, <1>r DEF RetrieveAll
<1>4. r = [j \in 1 .. n |-> t[j]]
  BY <1>2, <1>3
<1>5. t = [j \in 1 .. n |-> t[j]]
  BY <1>0, LenProperties
<1> QED BY <1>4, <1>5, <1>r

\* The fields of s lie in u, d bytes further on.
Shifted(s, u, d) ==
  \A at, width \in Nat : \A value : Lies(s, at, value, width) => Lies(u, d + at, value, width)

\* The elements of t stand behind those of s.
LEMMA ShiftedBehind ==
  ASSUME NEW Bytes, NEW s \in Seq(Bytes), NEW t \in Seq(Bytes), NEW u, u = s \o t, NEW d, d = Len(s)
  PROVE  Shifted(t, u, d)
<1>1. Joined(u, s, t) /\ u \in Seq(Bytes)
  BY JoinFacts
<1>2. d \in Nat /\ Len(t) \in Nat /\ Len(u) = d + Len(t) /\ \A j \in 1 .. Len(t) : u[d + j] = t[j]
  BY <1>1 DEF Joined
<1>3. ASSUME NEW at \in Nat, NEW width \in Nat, NEW value, Lies(t, at, value, width)
      PROVE  Lies(u, d + at, value, width)
  <2>1. at + width <= Len(t) /\ \A j \in 1 .. width : t[at + j] = <<value, j, width>>
    BY <1>3 DEF Lies
  <2>2. ASSUME NEW j \in 1 .. width PROVE u[(d + at) + j] = <<value, j, width>>
    <3>1. at + j \in 1 .. Len(t) /\ (d + at) + j = d + (at + j)
      BY <1>2, <2>1
    <3> QED BY <1>2, <2>1, <3>1
  <2>3. (d + at) + width <= Len(u)
    BY <1>2, <2>1
  <2> QED BY <2>2, <2>3 DEF Lies
<1> QED BY <1>3 DEF Shifted

\* They stay there when more is appended.
LEMMA ShiftedKept ==
  ASSUME NEW s, NEW u, NEW v, NEW d \in Nat, Shifted(s, u, d), Kept(u, v)
  PROVE  Shifted(s, v, d)
<1> SUFFICES ASSUME NEW at \in Nat, NEW width \in Nat, NEW value, Lies(s, at, value, width)
             PROVE  Lies(v, d + at, value, width)
  BY DEF Shifted
<1>1. Lies(u, d + at, value, width)
  BY DEF Shifted
<1>2. d + at \in Nat
  OBVIOUS
<1> QED BY <1>1, <1>2 DEF Kept

\* They are shifted twice if what holds them is shifted too.
LEMMA ShiftedTwice ==
  ASSUME NEW s, NEW u, NEW v, NEW d \in Nat, NEW e \in Nat, Shifted(s, u, d), Shifted(u, v, e)
  PROVE  Shifted(s, v, e + d)
<1> SUFFICES ASSUME NEW at \in Nat, NEW width \in Nat, NEW value, Lies(s, at, value, width)
             PROVE  Lies(v, (e + d) + at, value, width)
  BY DEF Shifted
<1>1. Lies(u, d + at, value, width)
  BY DEF Shifted
<1>2. d + at \in Nat
  OBVIOUS
<1>3. Lies(v, e + (d + at), value, width)
  BY <1>1, <1>2 DEF Shifted
<1>4. e + (d + at) = (e + d) + at
  OBVIOUS
<1> QED BY <1>3, <1>4

\* Entries of the same size.
SameSize(Bytes, entries, size) ==
  entries \in Seq(Seq(Bytes)) /\ \A i \in 1 .. Len(entries) : Len(entries[i]) = size

\* One behind the other each is at its place.
InPlace(entries, u, size, at) ==
  \A i \in 1 .. Len(entries) : Shifted(entries[i], u, at + (i - 1) * size)

\* The products of the length of a list of entries.
LEMMA Times ==
  ASSUME NEW k \in Nat, NEW size \in Nat
  PROVE  /\ k * size \in Nat /\ (k + 1) * size = k * size + size /\ 0 * size = 0
         /\ (k + 1 - 1) * size = k * size
OBVIOUS

\* Entries of one size, put behind each other, lie at the multiples of that size.
LEMMA EntriesFlat ==
  ASSUME NEW Bytes, NEW entries, NEW size \in Nat, SameSize(Bytes, entries, size),
         NEW u, u = FlattenSeq(entries)
  PROVE  /\ u \in Seq(Bytes) /\ Len(u) = Len(entries) * size /\ InPlace(entries, u, size, 0)
<1>n. PICK n : n = Len(entries)
  OBVIOUS
<1>0. entries \in Seq(Seq(Bytes)) /\ n \in Nat /\ \A i \in 1 .. n : entries[i] \in Seq(Bytes) /\
    Len(entries[i]) = size
  <2>1. entries \in Seq(Seq(Bytes)) /\ \A i \in 1 .. n : Len(entries[i]) = size
    BY <1>n DEF SameSize
  <2> QED BY <1>n, <2>1, LenProperties, ElementOfSeq
<1>1. CASE entries = <<>>
  <2>1. u = <<>> /\ u \in Seq(Bytes)
    BY <1>0, <1>1, FlattenType
  <2>2. Len(u) = 0 /\ n = 0
    BY <1>1, <1>n, <2>1, EmptySeq
  <2> QED BY <1>n, <2>1, <2>2, Times DEF InPlace
<1>2. CASE entries # <<>>
  <2>1. PICK flat \in [1 .. n -> Seq(Bytes)] : Flattens(flat, entries, n) /\ u = flat[n]
    BY <1>0, <1>2, <1>n, FlattenSeqDef
  <2>2. n \in Nat \ {0}
    BY <1>0, <1>2, <1>n, EmptySeq
  <2> DEFINE Laid(k) == /\ Len(flat[k]) = k * size
                        /\ \A i \in 1 .. k : Shifted(entries[i], flat[k], (i - 1) * size)
  <2>3. Laid(1)
    <3>1. flat[1] = entries[1]
      <4>1. 1 \in 1 .. n
        BY <2>2
      <4> QED BY <2>1, <4>1, Zenon DEF Flattens
    <3>2. Len(flat[1]) = 1 * size
      BY <1>0, <2>2, <3>1
    <3>3. Shifted(entries[1], flat[1], 0)
      BY <3>1 DEF Shifted
    <3>4. (1 - 1) * size = 0
      OBVIOUS
    <3> QED BY <3>2, <3>3, <3>4
  <2>4. ASSUME NEW k \in 2 .. n, Laid(k - 1) PROVE Laid(k)
    <3>f. PICK f, g, e, d : f = flat[k - 1] /\ g = flat[k] /\ e = entries[k] /\ d = (k - 1) * size
      OBVIOUS
    <3>0. k - 1 \in 1 .. n /\ k \in 1 .. n /\ k # 1 /\ k - 1 \in Nat
      BY <2>2
    <3>1. g = f \o e
      BY <2>1, <3>0, <3>f DEF Flattens
    <3>2. f \in Seq(Bytes) /\ e \in Seq(Bytes) /\ Len(e) = size
      BY <1>0, <3>0, <3>f
    <3>3. Len(f) = d /\ d \in Nat
      <4>1. Len(f) = d
        BY <2>4, <3>f
      <4> QED BY <3>2, <4>1, LenProperties
    <3>4. Len(g) = d + size /\ d + size = k * size
      <4>1. Len(g) = Len(f) + Len(e)
        BY <3>1, <3>2, ConcatProperties
      <4>2. (k - 1) * size + size = k * size
        OBVIOUS
      <4> QED BY <3>2, <3>3, <3>f, <4>1, <4>2
    <3>5. Shifted(e, g, d) /\ Kept(f, g)
      BY <3>1, <3>2, <3>3, ShiftedBehind, AppendedBehind
    <3>6. ASSUME NEW i \in 1 .. k PROVE Shifted(entries[i], g, (i - 1) * size)
      <4>1. CASE i = k
        BY <3>5, <3>f, <4>1
      <4>2. CASE i # k
        <5>1. i \in 1 .. k - 1
          BY <3>0, <4>2
        <5>a. PICK a, b : a = (i - 1) * size /\ b = entries[i]
          OBVIOUS
        <5>2. Shifted(b, f, a)
          BY <2>4, <3>f, <5>1, <5>a
        <5>3. a \in Nat
          BY <5>a, <5>1
        <5> QED BY <3>5, <5>2, <5>3, <5>a, ShiftedKept
      <4> QED BY <4>1, <4>2
    <3> QED BY <3>4, <3>6, <3>f
  <2>5. Laid(n)
    <3> DEFINE T == {k \in 1 .. n : ~Laid(k)}
    <3> HIDE DEF Laid
    <3> SUFFICES ASSUME T # {} PROVE FALSE
      BY <2>2, SMTT(30)
    <3>1. T \subseteq Nat
      BY <2>2
    <3>2. PICK x \in T : \A y \in T : x <= y
      BY <3>1, SmallestExists
    <3>3. x \in 1 .. n /\ ~Laid(x)
      BY <3>2
    <3>4. x # 1
      BY <2>3, <3>3
    <3>5. x \in 2 .. n /\ x - 1 \in 1 .. n /\ x - 1 \notin T
      BY <2>2, <3>2, <3>3, <3>4
    <3> QED BY <2>4, <3>3, <3>5
  <2>6. u \in Seq(Bytes)
    BY <2>1, <2>2
  <2>7. ASSUME NEW i \in 1 .. n PROVE Shifted(entries[i], u, 0 + (i - 1) * size)
    <3>1. 0 + (i - 1) * size = (i - 1) * size
      OBVIOUS
    <3> QED BY <2>1, <2>5, <3>1
  <2> QED BY <1>n, <2>1, <2>5, <2>6, <2>7 DEF InPlace
<1> QED BY <1>1, <1>2

Size(widths) == Before(widths, Len(widths) + 1)

\* The rows of a list, read where they lie.
RowsAt(buf, at, rows, widths) ==
  \A i \in 1 .. Len(rows) :
    IsRow(rows[i], widths) /\ RowIn(buf, at + (i - 1) * Size(widths), rows[i], widths)

\* A list is read from a buffer that holds its length and its rows.
LEMMA ListRead ==
  ASSUME Null \notin Nat, NEW widths \in Seq(Nat \ {0}), NEW rows \in Seq(Seq(Nat)), NEW c \in Nat,
         NEW buf, Lies(buf, c, Len(rows), 4), RowsAt(buf, c + 4, rows, widths),
         Size(widths) \in Nat, Len(buf) \in Nat, c + 4 + Len(rows) * Size(widths) <= Len(buf)
  PROVE  RetrieveList(buf, c, widths) = rows
<1>n. PICK n, size, l : n = Len(rows) /\ size = Size(widths) /\ l = RetrieveList(buf, c, widths)
  OBVIOUS
<1>0. n \in Nat /\ size \in Nat
  BY <1>n, LenProperties
<1>1. Retrieve(buf, c, 4) = n
  <2>1. 4 \in Nat \ {0} /\ Lies(buf, c, n, 4)
    BY <1>n
  <2> QED BY <2>1, RetrieveField
<1>2. n # Null /\ ~(c + 4 + n * size > Len(buf))
  <2>1. n # Null
    BY <1>0
  <2>m. PICK m : m = n * size
    OBVIOUS
  <2>2. m \in Nat /\ c + 4 + m <= Len(buf)
    BY <1>0, <1>n, <2>m, Times
  <2> QED BY <2>1, <2>2, <2>m
<1>3. l = [i \in 1 .. n |-> RetrieveAll(buf, c + 4 + (i - 1) * size, widths)]
  BY <1>1, <1>2, <1>n, Zenon DEF RetrieveList, Size
<1>4. ASSUME NEW i \in 1 .. n PROVE RetrieveAll(buf, c + 4 + (i - 1) * size, widths) = rows[i]
  <2>a. PICK a, at, t : a = (i - 1) * size /\ at = c + 4 + a /\ t = rows[i]
    OBVIOUS
  <2>1. at \in Nat
    <3>1. i - 1 \in Nat
      BY <1>0
    <3>2. a \in Nat
      BY <1>0, <2>a, <3>1, Times
    <3> QED BY <2>a, <3>2, SMTT(30)
  <2>2. IsRow(t, widths) /\ RowIn(buf, at, t, widths)
    BY <1>n, <2>a DEF RowsAt
  <2> QED BY <2>1, <2>2, <2>a, RowRead
<1>5. l = [i \in 1 .. n |-> rows[i]]
  BY <1>3, <1>4
<1>6. rows = [i \in 1 .. n |-> rows[i]]
  BY <1>n, LenProperties
<1> QED BY <1>5, <1>6, <1>n

\* A list whose end is missing is refused.
LEMMA ListCut ==
  ASSUME NullIsApart, NEW widths, NEW c \in Nat, NEW n \in Nat, Size(widths) \in Nat, NEW buf,
         Len(buf) \in Nat, Len(buf) < c + 4 + n * Size(widths), Len(buf) < c + 4 \/ Lies(buf, c, n, 4)
  PROVE  RetrieveList(buf, c, widths) = Null
<1>n. PICK e, size, m : e = Retrieve(buf, c, 4) /\ size = Size(widths) /\ m = n * size
  OBVIOUS
<1>1. RetrieveList(buf, c, widths) =
        IF e = Null \/ c + 4 + e * size > Len(buf) THEN Null
        ELSE [i \in 1 .. e |-> RetrieveAll(buf, c + 4 + (i - 1) * size, widths)]
  BY <1>n, Zenon DEF RetrieveList, Size
<1>2. CASE Len(buf) < c + 4
  <2>1. e = Null
    BY <1>2, <1>n DEF Retrieve
  <2> QED BY <1>1, <2>1
<1>3. CASE Lies(buf, c, n, 4)
  <2>1. e = n
    BY <1>3, <1>n, RetrieveField
  <2>2. m \in Nat /\ c + 4 + m > Len(buf)
    BY <1>n, Times
  <2> QED BY <1>1, <1>n, <2>1, <2>2
<1> QED BY <1>2, <1>3

\* An entry of a list is its row.
IsEntry(Bytes, e, t, widths) ==
  e \in Seq(Bytes) /\ Len(e) = Size(widths) /\ IsRow(t, widths) /\ RowIn(e, 0, t, widths)
Entries(Bytes, entries, rows, widths) ==
  /\ entries \in Seq(Seq(Bytes)) /\ rows \in Seq(Seq(Nat)) /\ Len(rows) = Len(entries)
  /\ \A i \in 1 .. Len(rows) : IsEntry(Bytes, entries[i], rows[i], widths)

\* A row is shifted with its entry.
LEMMA RowShifted ==
  ASSUME NEW widths \in Seq(Nat \ {0}), NEW e, NEW t, RowIn(e, 0, t, widths), NEW u, NEW d \in Nat,
         Shifted(e, u, d)
  PROVE  RowIn(u, d, t, widths)
<1>0. widths \in Seq(Nat)
  BY SeqMonotonic
<1> SUFFICES ASSUME NEW j \in 1 .. Len(widths) PROVE Lies(u, d + Before(widths, j), t[j], widths[j])
  BY DEF RowIn
<1>1. Before(widths, j) \in Nat /\ widths[j] \in Nat
  BY <1>0, SumsHold, ElementOfSeq DEF Sums
<1>b. PICK b, w : b = Before(widths, j) /\ w = widths[j]
  OBVIOUS
<1>2. 0 + b = b
  BY <1>1, <1>b
<1>3. Lies(e, b, t[j], w)
  BY <1>2, <1>b DEF RowIn
<1> QED BY <1>1, <1>3, <1>b DEF Shifted

\* The widths of an entry add up.
LEMMA SizeIsNumber ==
  ASSUME NEW widths \in Seq(Nat)
  PROVE  Size(widths) \in Nat
<1>n. PICK n : n = Len(widths)
  OBVIOUS
<1>0. n \in Nat
  BY <1>n, LenProperties
<1>1. Sums(widths)
  BY SumsHold
<1>2. CASE n = 0
  <2>1. n + 1 = 1
    BY <1>2
  <2> QED BY <1>1, <1>n, <2>1 DEF Sums, Size
<1>3. CASE n # 0
  <2>1. n \in 1 .. n
    BY <1>0, <1>3
  <2> QED BY <1>1, <1>n, <2>1 DEF Sums, Size
<1> QED BY <1>2, <1>3

\* A list behind a front of a buffer: what is read of it, in full and cut short.
ListBehind(Bytes, u, front, rows, widths) ==
  /\ u \in Seq(Bytes) /\ Kept(front, u) /\ Len(front) <= Len(u)
  /\ RetrieveList(u, Len(front), widths) = rows
  /\ \A k \in 0 .. Len(u) - 1 : RetrieveList(SubSeq(u, 1, k), Len(front), widths) = Null
AddsList(Bytes, front, entries, rows, widths, u) ==
  /\ AreBytes(Bytes) /\ front \in Seq(Bytes) /\ widths \in Seq(Nat \ {0})
  /\ Entries(Bytes, entries, rows, widths) /\ u = front \o WriteList(entries)

\* A list that is written behind something lies there.
LEMMA ListWritten ==
  ASSUME NullIsApart, NEW Bytes, NEW front, NEW entries, NEW rows, NEW widths, NEW u,
         AddsList(Bytes, front, entries, rows, widths, u)
  PROVE  ListBehind(Bytes, u, front, rows, widths)
<1>n. PICK n, size, c, m : n = Len(rows) /\ size = Size(widths) /\ c = Len(front) /\ m = n * size
  OBVIOUS
<1>e. PICK e, f, t : e = Field(n, 4) /\ f = FlattenSeq(entries) /\ t = e \o f
  OBVIOUS
<1>0. /\ AreBytes(Bytes) /\ front \in Seq(Bytes) /\ widths \in Seq(Nat \ {0})
      /\ Entries(Bytes, entries, rows, widths)
  BY DEF AddsList
<1>1. /\ n \in Nat /\ size \in Nat /\ c \in Nat /\ m \in Nat /\ widths \in Seq(Nat)
      /\ rows \in Seq(Seq(Nat)) /\ Len(entries) = n
  <2>1. widths \in Seq(Nat)
    BY <1>0, SeqMonotonic
  <2>2. rows \in Seq(Seq(Nat)) /\ Len(entries) = n
    BY <1>0, <1>n DEF Entries
  <2>3. n \in Nat /\ size \in Nat /\ c \in Nat
    BY <1>0, <1>n, <2>1, <2>2, LenProperties, SizeIsNumber
  <2> QED BY <1>n, <2>1, <2>2, <2>3, Times
<1>2. \A i \in 1 .. n : IsEntry(Bytes, entries[i], rows[i], widths)
  BY <1>0, <1>n DEF Entries
<1>3. f \in Seq(Bytes) /\ Len(f) = m /\ InPlace(entries, f, size, 0)
  <2>1. entries \in Seq(Seq(Bytes))
    BY <1>0 DEF Entries
  <2>2. \A i \in 1 .. n : Len(entries[i]) = size
    BY <1>2, <1>n DEF IsEntry
  <2>3. SameSize(Bytes, entries, size)
    BY <1>1, <2>1, <2>2 DEF SameSize
  <2> QED BY <1>1, <1>e, <1>n, <2>3, EntriesFlat
<1>4. e \in Seq(Bytes) /\ Len(e) = 4 /\ Lies(e, 0, n, 4)
  BY <1>0, <1>1, <1>e, NumberIsList
<1>5. t \in Seq(Bytes) /\ Len(t) = 4 + m /\ Lies(t, 0, n, 4) /\ Shifted(f, t, 4)
  <2>1. t \in Seq(Bytes) /\ Joined(t, e, f)
    BY <1>3, <1>4, <1>e, JoinFacts
  <2>2. Shifted(f, t, 4)
    BY <1>3, <1>4, <1>e, ShiftedBehind
  <2>3. Kept(e, t)
    BY <1>3, <1>4, <1>e, AppendedBehind
  <2>4. Lies(t, 0, n, 4)
    BY <1>4, <2>3 DEF Kept
  <2> QED BY <1>3, <1>4, <2>1, <2>2, <2>4 DEF Joined
<1>6. u = front \o t
  <2>1. WriteList(entries) = t
    BY <1>1, <1>e DEF WriteList, Uint
  <2> QED BY <2>1 DEF AddsList
<1>7. u \in Seq(Bytes) /\ Len(u) = c + (4 + m) /\ Lies(u, c, n, 4) /\ Shifted(t, u, c) /\ Kept(front, u)
  <2>1. u \in Seq(Bytes) /\ Joined(u, front, t)
    BY <1>0, <1>5, <1>6, JoinFacts
  <2>2. Shifted(t, u, c) /\ Kept(front, u)
    BY <1>0, <1>5, <1>6, <1>n, ShiftedBehind, AppendedBehind
  <2>3. c + 0 = c
    BY <1>1
  <2>4. Lies(u, c, n, 4)
    <3>1. Lies(u, c + 0, n, 4)
      BY <1>5, <2>2 DEF Shifted
    <3> QED BY <2>3, <3>1
  <2> QED BY <1>5, <1>n, <2>1, <2>2, <2>4 DEF Joined
<1>8. RowsAt(u, c + 4, rows, widths)
  <2> SUFFICES ASSUME NEW i \in 1 .. n
               PROVE  IsRow(rows[i], widths) /\ RowIn(u, c + 4 + (i - 1) * size, rows[i], widths)
    BY <1>n DEF RowsAt
  <2>a. PICK a, x, y : a = (i - 1) * size /\ x = entries[i] /\ y = rows[i]
    OBVIOUS
  <2>1. a \in Nat
    <3>1. i - 1 \in Nat
      BY <1>1
    <3> QED BY <1>1, <2>a, <3>1, Times
  <2>2. IsRow(y, widths) /\ RowIn(x, 0, y, widths)
    BY <1>2, <2>a DEF IsEntry
  <2>3. Shifted(x, f, a)
    <3>1. Shifted(x, f, 0 + a)
      BY <1>1, <1>3, <2>a DEF InPlace
    <3>2. 0 + a = a
      BY <2>1
    <3> QED BY <3>1, <3>2
  <2>4. Shifted(x, t, 4 + a)
    BY <1>5, <2>1, <2>3, ShiftedTwice
  <2>5. Shifted(x, u, c + (4 + a))
    <3>1. 4 + a \in Nat
      BY <2>1
    <3> QED BY <1>1, <1>7, <2>4, <3>1, ShiftedTwice
  <2>6. c + (4 + a) = c + 4 + a /\ c + 4 + a \in Nat
    BY <1>1, <2>1
  <2>7. RowIn(u, c + 4 + a, y, widths)
    BY <1>0, <2>2, <2>5, <2>6, RowShifted
  <2> QED BY <2>2, <2>7, <2>a
<1>9. RetrieveList(u, c, widths) = rows
  <2>1. Len(u) \in Nat /\ c + 4 + m <= Len(u) /\ Null \notin Nat
    BY <1>1, <1>7 DEF NullIsApart
  <2> QED BY <1>0, <1>1, <1>7, <1>8, <1>n, <2>1, ListRead
<1>10. ASSUME NEW k \in 0 .. Len(u) - 1 PROVE RetrieveList(SubSeq(u, 1, k), c, widths) = Null
  <2>k. PICK cut : cut = SubSeq(u, 1, k)
    OBVIOUS
  <2>1. k \in 0 .. Len(u) /\ k \in Nat /\ k < c + 4 + m
    BY <1>1, <1>7
  <2>2. Len(cut) = k /\ KeptTo(k, u, cut)
    BY <1>7, <2>1, <2>k, CutBehind
  <2>3. k < c + 4 \/ Lies(cut, c, n, 4)
    <3>1. c \in Nat /\ 4 \in Nat /\ (k < c + 4 \/ c + 4 <= k)
      BY <1>1, <2>1
    <3> QED BY <1>7, <2>2, <3>1 DEF KeptTo
  <2> QED BY <1>1, <1>n, <2>1, <2>2, <2>3, <2>k, ListCut
<1>11. c <= Len(u)
  BY <1>1, <1>7
<1> QED BY <1>7, <1>9, <1>10, <1>11, <1>n DEF ListBehind

\* u is s and one more.
Longer(s, x, u) ==
  /\ Len(s) \in Nat /\ Len(u) = Len(s) + 1 /\ u = [j \in 1 .. Len(s) + 1 |-> u[j]]
  /\ u[Len(s) + 1] = x /\ \A j \in 1 .. Len(s) : u[j] = s[j]

\* A list with an element more is a list.
LEMMA LongerIsSeq ==
  ASSUME NEW T, NEW s \in Seq(T), NEW x \in T, NEW u, Longer(s, x, u)
  PROVE  u \in Seq(T) /\ Len(u) = Len(s) + 1
<1>n. PICK n : n = Len(s)
  OBVIOUS
<1>1. /\ n \in Nat /\ u = [j \in 1 .. n + 1 |-> u[j]]
      /\ u[n + 1] = x /\ \A j \in 1 .. n : u[j] = s[j] /\ s[j] \in T
  BY <1>n, ElementOfSeq DEF Longer
<1>2. ASSUME NEW j \in 1 .. n + 1 PROVE u[j] \in T
  <2>1. j \in 1 .. n \/ j = n + 1
    BY <1>1
  <2> QED BY <1>1, <2>1
<1>3. u \in [1 .. n + 1 -> T]
  BY <1>1, <1>2
<1>4. n + 1 \in Nat
  BY <1>1
<1>5. u \in Seq(T)
  BY <1>3, <1>4, IsSequence
<1> QED BY <1>5 DEF Longer

\* One more field does not move those before it.
LEMMA OneMoreWidth ==
  ASSUME NEW widths \in Seq(Nat), NEW w \in Nat, NEW ws, Longer(widths, w, ws)
  PROVE  /\ \A j \in 1 .. Len(widths) + 1 : Before(ws, j) = Before(widths, j)
         /\ Size(ws) = Size(widths) + w
<1>n. PICK n : n = Len(widths)
  OBVIOUS
<1>0. /\ n \in Nat /\ ws \in Seq(Nat) /\ Len(ws) = n + 1
      /\ ws[n + 1] = w /\ \A j \in 1 .. n : ws[j] = widths[j]
  BY <1>n, LenProperties, LongerIsSeq DEF Longer
<1>1. Sums(widths) /\ Sums(ws)
  BY <1>0, SumsHold
<1>2. ASSUME NEW j \in 1 .. n, Before(ws, j) = Before(widths, j)
      PROVE  Before(ws, j + 1) = Before(widths, j + 1)
  <2>1. j \in 1 .. n + 1
    BY <1>0
  <2>2. Before(ws, j + 1) = Before(ws, j) + ws[j] /\ Before(widths, j + 1) = Before(widths, j) + widths[j]
    BY <1>0, <1>1, <1>n, <2>1 DEF Sums
  <2> QED BY <1>0, <1>2, <2>2
<1>3. Before(ws, 1) = Before(widths, 1)
  BY <1>1 DEF Sums
<1>4. ASSUME NEW j \in 1 .. n + 1 PROVE Before(ws, j) = Before(widths, j)
  <2> DEFINE T == {k \in 1 .. n + 1 : Before(ws, k) # Before(widths, k)}
  <2> SUFFICES ASSUME T # {} PROVE FALSE
    OBVIOUS
  <2>1. T \subseteq Nat
    BY <1>0
  <2>2. PICK x \in T : \A y \in T : x <= y
    BY <2>1, SmallestExists
  <2>3. x \in 1 .. n + 1 /\ Before(ws, x) # Before(widths, x)
    BY <2>2
  <2>4. x # 1
    BY <1>3, <2>3
  <2>5. x - 1 \in 1 .. n + 1 /\ x - 1 \in 1 .. n /\ x - 1 \notin T /\ (x - 1) + 1 = x
    BY <1>0, <2>2, <2>3, <2>4
  <2>6. Before(ws, x - 1) = Before(widths, x - 1)
    BY <2>5
  <2>7. Before(ws, (x - 1) + 1) = Before(widths, (x - 1) + 1)
    BY <1>2, <2>5, <2>6
  <2> QED BY <2>3, <2>5, <2>7
<1>5. Size(ws) = Size(widths) + w
  <2>1. n + 1 \in 1 .. n + 1
    BY <1>0
  <2>2. Before(ws, (n + 1) + 1) = Before(ws, n + 1) + ws[n + 1]
    BY <1>0, <1>1, <2>1 DEF Sums
  <2>3. Before(ws, n + 1) = Before(widths, n + 1)
    BY <1>4, <2>1
  <2> QED BY <1>0, <1>n, <2>2, <2>3 DEF Size
<1> QED BY <1>4, <1>5, <1>n

\* An entry without fields takes no bytes.
LEMMA NoWidth == Size(<<>>) = 0
<1>1. Sums(<<>>)
  BY SumsHold, EmptySeq
<1>2. Len(<<>>) + 1 = 1
  BY EmptySeq
<1> QED BY <1>1, <1>2 DEF Sums, Size

\* A row is written field by field.
AddsField(Bytes, e, t, widths, n, w, u, tt, ww) ==
  /\ AreBytes(Bytes) /\ IsEntry(Bytes, e, t, widths) /\ widths \in Seq(Nat)
  /\ n \in Nat /\ w \in Nat
  /\ u = e \o Field(n, w) /\ Longer(t, n, tt) /\ Longer(widths, w, ww)

\* An entry with a field more.
LEMMA FieldWritten ==
  ASSUME NEW Bytes, NEW e, NEW t, NEW widths, NEW n, NEW w, NEW u, NEW tt, NEW ww,
         AddsField(Bytes, e, t, widths, n, w, u, tt, ww)
  PROVE  IsEntry(Bytes, u, tt, ww) /\ ww \in Seq(Nat) /\ Size(ww) = Size(widths) + w
<1>l. PICK l : l = Len(widths)
  OBVIOUS
<1>0. /\ AreBytes(Bytes) /\ e \in Seq(Bytes) /\ Len(e) = Size(widths) /\ t \in Seq(Nat) /\ Len(t) = l
      /\ widths \in Seq(Nat) /\ l \in Nat /\ n \in Nat /\ w \in Nat /\ RowIn(e, 0, t, widths)
  BY <1>l, LenProperties DEF AddsField, IsEntry, IsRow
<1>1. /\ ww \in Seq(Nat) /\ Len(ww) = l + 1 /\ ww[l + 1] = w
      /\ \A j \in 1 .. l : ww[j] = widths[j] /\ widths[j] \in Nat
  <2>1. Longer(widths, w, ww)
    BY DEF AddsField
  <2> QED BY <1>0, <1>l, <2>1, LongerIsSeq, ElementOfSeq DEF Longer
<1>2. tt \in Seq(Nat) /\ Len(tt) = l + 1 /\ tt[l + 1] = n /\ \A j \in 1 .. l : tt[j] = t[j]
  <2>1. Longer(t, n, tt)
    BY DEF AddsField
  <2> QED BY <1>0, <2>1, LongerIsSeq DEF Longer
<1>3. (\A j \in 1 .. l + 1 : Before(ww, j) = Before(widths, j)) /\ Size(ww) = Size(widths) + w
  <2>1. Longer(widths, w, ww)
    BY DEF AddsField
  <2> QED BY <1>0, <1>l, <2>1, OneMoreWidth
<1>4. u \in Seq(Bytes) /\ Len(u) = Len(e) + w /\ Lies(u, Len(e), n, w) /\ Kept(e, u)
  <2>1. Adds(Bytes, e, n, w, u)
    BY <1>0 DEF AddsField, Adds
  <2> QED BY <2>1, NumberAppended
<1>5. ASSUME NEW j \in 1 .. l + 1 PROVE Lies(u, 0 + Before(ww, j), tt[j], ww[j])
  <2>b. PICK b : b = Before(widths, j)
    OBVIOUS
  <2>1. b \in Nat /\ 0 + b = b /\ Before(ww, j) = b
    <3>1. Before(ww, j) \in Nat
      BY <1>1, SumsHold DEF Sums
    <3>2. Before(ww, j) = b
      BY <1>3, <2>b
    <3> QED BY <3>1, <3>2
  <2>2. CASE j = l + 1
    <3>1. b = Len(e)
      BY <1>0, <1>l, <2>2, <2>b DEF Size
    <3> QED BY <1>1, <1>2, <1>4, <2>1, <2>2, <3>1
  <2>3. CASE j # l + 1
    <3>1. j \in 1 .. l
      BY <1>0, <2>3
    <3>2. Lies(e, 0 + b, t[j], widths[j])
      BY <1>0, <1>l, <2>b, <3>1 DEF RowIn
    <3>3. Lies(e, b, t[j], widths[j])
      BY <2>1, <3>2
    <3>4. Lies(u, b, t[j], widths[j])
      BY <1>1, <1>4, <2>1, <3>1, <3>3 DEF Kept
    <3> QED BY <1>1, <1>2, <2>1, <3>1, <3>4
  <2> QED BY <2>2, <2>3
<1>6. RowIn(u, 0, tt, ww)
  BY <1>1, <1>5 DEF RowIn
<1>7. Len(u) = Size(ww)
  BY <1>0, <1>3, <1>4
<1> QED BY <1>1, <1>2, <1>3, <1>4, <1>6, <1>7 DEF IsEntry, IsRow

\* The first field of a row.
LEMMA FirstField ==
  ASSUME NEW Bytes, AreBytes(Bytes), NEW n \in Nat, NEW w \in Nat
  PROVE  IsEntry(Bytes, Field(n, w), <<n>>, <<w>>) /\ <<w>> \in Seq(Nat) /\ Size(<<w>>) = w
<1>1. <<>> \in Seq(Nat) /\ Len(<<>>) = 0 /\ Len(<<w>>) = 1 /\ <<w>> \in Seq(Nat)
  OBVIOUS
<1>s. PICK o, s : o = <<>> /\ s = <<w>>
  OBVIOUS
<1>2. Size(s) = w
  <2>1. Longer(o, w, s) /\ o \in Seq(Nat)
    <3>1. s = [j \in 1 .. 0 + 1 |-> s[j]] /\ s[0 + 1] = w
      BY <1>s
    <3> QED BY <1>1, <1>s, <3>1 DEF Longer
  <2>2. Size(s) = Size(o) + w
    BY <2>1, OneMoreWidth
  <2> QED BY <1>s, <2>2, NoWidth
<1>3. Field(n, w) \in Seq(Bytes) /\ Len(Field(n, w)) = w /\ Lies(Field(n, w), 0, n, w)
  BY NumberIsList
<1>4. IsRow(<<n>>, <<w>>)
  BY <1>1 DEF IsRow
<1>5. Before(<<w>>, 1) = 0
  BY <1>1, SumsHold DEF Sums
<1>6. RowIn(Field(n, w), 0, <<n>>, <<w>>)
  <2> PICK f : f = Field(n, w)
    OBVIOUS
  <2>1. ASSUME NEW j \in 1 .. 1 PROVE Lies(f, 0 + Before(<<w>>, j), <<n>>[j], <<w>>[j])
    <3>1. j = 1
      OBVIOUS
    <3> QED BY <1>3, <1>5, <3>1
  <2> QED BY <1>1, <2>1 DEF RowIn
<1> QED BY <1>1, <1>2, <1>3, <1>4, <1>6, <1>s DEF IsEntry

\* Rows written out.
LEMMA LongerRows ==
  ASSUME NEW a, NEW b, NEW c, NEW d, NEW e, NEW f, NEW g, NEW h
  PROVE  /\ Longer(<<a>>, b, <<a, b>>)
         /\ Longer(<<a, b>>, c, <<a, b, c>>)
         /\ Longer(<<a, b, c>>, d, <<a, b, c, d>>)
         /\ Longer(<<a, b, c, d>>, e, <<a, b, c, d, e>>)
         /\ Longer(<<a, b, c, d, e>>, f, <<a, b, c, d, e, f>>)
         /\ Longer(<<a, b, c, d, e, f>>, g, <<a, b, c, d, e, f, g>>)
         /\ Longer(<<a, b, c, d, e, f, g>>, h, <<a, b, c, d, e, f, g, h>>)
<1>1. Longer(<<a>>, b, <<a, b>>)
  <2>1. Len(<<a>>) = 1 /\ Len(<<a, b>>) = 2
    OBVIOUS
  <2>2. <<a, b>> = [j \in 1 .. 1 + 1 |-> <<a, b>>[j]] /\ <<a, b>>[1 + 1] = b
    OBVIOUS
  <2>3. \A j \in 1 .. 1 : <<a, b>>[j] = <<a>>[j]
    OBVIOUS
  <2> QED BY <2>1, <2>2, <2>3 DEF Longer
<1>2. Longer(<<a, b>>, c, <<a, b, c>>)
  <2>1. Len(<<a, b>>) = 2 /\ Len(<<a, b, c>>) = 3
    OBVIOUS
  <2>2. <<a, b, c>> = [j \in 1 .. 2 + 1 |-> <<a, b, c>>[j]] /\ <<a, b, c>>[2 + 1] = c
    OBVIOUS
  <2>3. \A j \in 1 .. 2 : <<a, b, c>>[j] = <<a, b>>[j]
    OBVIOUS
  <2> QED BY <2>1, <2>2, <2>3 DEF Longer
<1>3. Longer(<<a, b, c>>, d, <<a, b, c, d>>)
  <2>1. Len(<<a, b, c>>) = 3 /\ Len(<<a, b, c, d>>) = 4
    OBVIOUS
  <2>2. <<a, b, c, d>> = [j \in 1 .. 3 + 1 |-> <<a, b, c, d>>[j]] /\ <<a, b, c, d>>[3 + 1] = d
    OBVIOUS
  <2>3. \A j \in 1 .. 3 : <<a, b, c, d>>[j] = <<a, b, c>>[j]
    OBVIOUS
  <2> QED BY <2>1, <2>2, <2>3 DEF Longer
<1>4. Longer(<<a, b, c, d>>, e, <<a, b, c, d, e>>)
  <2>1. Len(<<a, b, c, d>>) = 4 /\ Len(<<a, b, c, d, e>>) = 5
    OBVIOUS
  <2>2. <<a, b, c, d, e>> = [j \in 1 .. 4 + 1 |-> <<a, b, c, d, e>>[j]] /\ <<a, b, c, d, e>>[4 + 1] = e
    OBVIOUS
  <2>3. \A j \in 1 .. 4 : <<a, b, c, d, e>>[j] = <<a, b, c, d>>[j]
    OBVIOUS
  <2> QED BY <2>1, <2>2, <2>3 DEF Longer
<1>5. Longer(<<a, b, c, d, e>>, f, <<a, b, c, d, e, f>>)
  <2>1. Len(<<a, b, c, d, e>>) = 5 /\ Len(<<a, b, c, d, e, f>>) = 6
    OBVIOUS
  <2>2. <<a, b, c, d, e, f>> = [j \in 1 .. 5 + 1 |-> <<a, b, c, d, e, f>>[j]] /\ <<a, b, c, d, e,
      f>>[5 + 1] = f
    OBVIOUS
  <2>3. \A j \in 1 .. 5 : <<a, b, c, d, e, f>>[j] = <<a, b, c, d, e>>[j]
    OBVIOUS
  <2> QED BY <2>1, <2>2, <2>3 DEF Longer
<1>6. Longer(<<a, b, c, d, e, f>>, g, <<a, b, c, d, e, f, g>>)
  <2>1. Len(<<a, b, c, d, e, f>>) = 6 /\ Len(<<a, b, c, d, e, f, g>>) = 7
    OBVIOUS
  <2>2. <<a, b, c, d, e, f, g>> = [j \in 1 .. 6 + 1 |-> <<a, b, c, d, e, f, g>>[j]] /\ <<a, b, c, d, e,
      f, g>>[6 + 1] = g
    OBVIOUS
  <2>3. \A j \in 1 .. 6 : <<a, b, c, d, e, f, g>>[j] = <<a, b, c, d, e, f>>[j]
    OBVIOUS
  <2> QED BY <2>1, <2>2, <2>3 DEF Longer
<1>7. Longer(<<a, b, c, d, e, f, g>>, h, <<a, b, c, d, e, f, g, h>>)
  <2>1. Len(<<a, b, c, d, e, f, g>>) = 7 /\ Len(<<a, b, c, d, e, f, g, h>>) = 8
    OBVIOUS
  <2>2. <<a, b, c, d, e, f, g, h>> = [j \in 1 .. 7 + 1 |-> <<a, b, c, d, e, f, g, h>>[j]] /\ <<a, b, c,
      d, e, f, g, h>>[7 + 1] = h
    OBVIOUS
  <2>3. \A j \in 1 .. 7 : <<a, b, c, d, e, f, g, h>>[j] = <<a, b, c, d, e, f, g>>[j]
    OBVIOUS
  <2> QED BY <2>1, <2>2, <2>3 DEF Longer
<1> QED BY <1>1, <1>2, <1>3, <1>4, <1>5, <1>6, <1>7

\* What has been written of a row.
Row(Bytes, e, t, widths, size) ==
  IsEntry(Bytes, e, t, widths) /\ widths \in Seq(Nat) /\ Size(widths) = size

\* A number behind a row; an address behind a row.
LEMMA RowAndNumber ==
  ASSUME NEW Bytes, AreBytes(Bytes), NEW e, NEW t, NEW widths, NEW size, Row(Bytes, e, t, widths, size),
         NEW n \in Nat, NEW w \in Nat, NEW u, u = e \o Field(n, w),
         NEW tt, Longer(t, n, tt), NEW ww, Longer(widths, w, ww)
  PROVE  Row(Bytes, u, tt, ww, size + w)
<1>1. AddsField(Bytes, e, t, widths, n, w, u, tt, ww)
  BY DEF AddsField, Row
<1> QED BY <1>1, FieldWritten DEF Row

\* An address behind a row of fields.
LEMMA RowAndIdent ==
  ASSUME NEW Bytes, AreBytes(Bytes), NEW e, NEW t, NEW widths, NEW size \in Nat, Row(Bytes, e, t, widths,
      size),
         NEW n, IsAddress(n), NEW u, u = e \o WriteIdent(n),
         NEW t1, Longer(t, n[1], t1), NEW t2, Longer(t1, n[2], t2),
         NEW w1, Longer(widths, 4, w1), NEW w2, Longer(w1, 2, w2)
  PROVE  Row(Bytes, u, t2, w2, size + 6)
<1>0. n[1] \in Nat /\ n[2] \in Nat
  BY DEF IsAddress
<1>x. PICK x, y, a : x = Field(n[1], 4) /\ y = Field(n[2], 2) /\ a = e \o x
  OBVIOUS
<1>1. x \in Seq(Bytes) /\ y \in Seq(Bytes) /\ e \in Seq(Bytes)
  BY <1>0, <1>x, NumberIsList DEF Row, IsEntry
<1>2. u = a \o y
  <2>1. u = e \o (x \o y)
    BY <1>x DEF WriteIdent, Uint, Ushort
  <2> QED BY <1>1, <1>x, <2>1, ConcatAssociative, SMTT(30)
<1>3. Row(Bytes, a, t1, w1, size + 4)
  BY <1>0, <1>x, RowAndNumber
<1>4. Row(Bytes, u, t2, w2, size + 4 + 2)
  BY <1>0, <1>2, <1>3, <1>x, RowAndNumber
<1>5. size + 4 + 2 = size + 6
  OBVIOUS
<1> QED BY <1>4, <1>5

\* A row of one field.
LEMMA RowStarts ==
  ASSUME NEW Bytes, AreBytes(Bytes), NEW n \in Nat, NEW w \in Nat, NEW u, u = Field(n, w)
  PROVE  Row(Bytes, u, <<n>>, <<w>>, w)
BY FirstField DEF Row

----------------------------------------------------------------------------
(* The entries of lists *)

\* An address is an entry of 6 bytes (writeNodeIdent).
LEMMA IdentIsEntry ==
  ASSUME NEW Bytes, AreBytes(Bytes), NEW n, IsAddress(n), NEW u, u = WriteIdent(n)
  PROVE  Row(Bytes, u, <<n[1], n[2]>>, <<4, 2>>, 6)
<1>0. n[1] \in Nat /\ n[2] \in Nat
  BY DEF IsAddress
<1>x. PICK x : x = Field(n[1], 4)
  OBVIOUS
<1>1. u = x \o Field(n[2], 2)
  BY <1>x DEF WriteIdent, Uint, Ushort
<1>2. Row(Bytes, x, <<n[1]>>, <<4>>, 4)
  BY <1>0, <1>x, RowStarts
<1>3. Row(Bytes, u, <<n[1], n[2]>>, <<4, 2>>, 4 + 2)
  <2>1. Longer(<<n[1]>>, n[2], <<n[1], n[2]>>) /\ Longer(<<4>>, 2, <<4, 2>>)
    BY LongerRows
  <2> QED BY <1>0, <1>1, <1>2, <2>1, RowAndNumber
<1>4. 4 + 2 = 6
  OBVIOUS
<1> QED BY <1>3, <1>4

\* An address with a number is an entry of 10 bytes.
LEMMA IdentIntIsEntry ==
  ASSUME NEW Bytes, AreBytes(Bytes), NEW n, n \in Nat \X Nat \X Nat, NEW u, u = WriteIdentInt(n)
  PROVE  Row(Bytes, u, <<n[1], n[2], n[3]>>, <<4, 2, 4>>, 10)
<1>0. n[1] \in Nat /\ n[2] \in Nat /\ n[3] \in Nat
  OBVIOUS
<1>x. PICK m, x : m = <<n[1], n[2]>> /\ x = WriteIdent(m)
  OBVIOUS
<1>m. IsAddress(m) /\ m[1] = n[1] /\ m[2] = n[2]
  BY <1>0, <1>x DEF IsAddress
<1>1. u = x \o Field(n[3], 4)
  BY <1>m, <1>x DEF WriteIdentInt, WriteIdent, Uint
<1>2. Row(Bytes, x, <<n[1], n[2]>>, <<4, 2>>, 6)
  BY <1>m, <1>x, IdentIsEntry
<1>3. Row(Bytes, u, <<n[1], n[2], n[3]>>, <<4, 2, 4>>, 6 + 4)
  <2>1. Longer(<<n[1], n[2]>>, n[3], <<n[1], n[2], n[3]>>) /\ Longer(<<4, 2>>, 4, <<4, 2, 4>>)
    BY LongerRows
  <2> QED BY <1>0, <1>1, <1>2, <2>1, RowAndNumber
<1>4. 6 + 4 = 10
  OBVIOUS
<1> QED BY <1>3, <1>4

\* An address with that of its rendezvous node is an entry of 12 bytes.
LEMMA IdentRendvIsEntry ==
  ASSUME NEW Bytes, AreBytes(Bytes), NEW n, n \in Nat \X Nat \X Nat \X Nat, NEW u, u = WriteIdentRendv(n)
  PROVE  Row(Bytes, u, <<n[1], n[2], n[3], n[4]>>, <<4, 2, 4, 2>>, 12)
<1>0. n[1] \in Nat /\ n[2] \in Nat /\ n[3] \in Nat /\ n[4] \in Nat
  OBVIOUS
<1>x. PICK m, k, x : m = <<n[1], n[2]>> /\ k = <<n[3], n[4]>> /\ x = WriteIdent(m)
  OBVIOUS
<1>m. IsAddress(m) /\ IsAddress(k) /\ m[1] = n[1] /\ m[2] = n[2] /\ k[1] = n[3] /\ k[2] = n[4]
  BY <1>0, <1>x DEF IsAddress
<1>1. u = x \o WriteIdent(k)
  BY <1>m, <1>x DEF WriteIdentRendv, WriteIdent
<1>2. Row(Bytes, x, <<n[1], n[2]>>, <<4, 2>>, 6)
  BY <1>m, <1>x, IdentIsEntry
<1>3. Row(Bytes, u, <<n[1], n[2], n[3], n[4]>>, <<4, 2, 4, 2>>, 6 + 6)
  <2>1. /\ Longer(<<n[1], n[2]>>, k[1], <<n[1], n[2], n[3]>>)
        /\ Longer(<<n[1], n[2], n[3]>>, k[2], <<n[1], n[2], n[3], n[4]>>)
        /\ Longer(<<4, 2>>, 4, <<4, 2, 4>>) /\ Longer(<<4, 2, 4>>, 2, <<4, 2, 4, 2>>)
    BY <1>m, LongerRows
  <2> QED BY <1>1, <1>2, <1>m, <2>1, RowAndIdent
<1>4. 6 + 6 = 12
  OBVIOUS
<1> QED BY <1>3, <1>4

\* A member of a ring in an INFO_PACKET.
WriteMember(n) == Uint(n[1]) \o WriteIdentInt(Tail(n))

\* A node of an INFO packet is an entry of 14 bytes.
LEMMA MemberIsEntry ==
  ASSUME NEW Bytes, AreBytes(Bytes), NEW n, n \in Nat \X Nat \X Nat \X Nat, NEW u, u = WriteMember(n)
  PROVE  Row(Bytes, u, <<n[1], n[2], n[3], n[4]>>, <<4, 4, 2, 4>>, 14)
<1>0. n[1] \in Nat /\ n[2] \in Nat /\ n[3] \in Nat /\ n[4] \in Nat /\ n = <<n[1], n[2], n[3], n[4]>>
  OBVIOUS
<1>t. Tail(n)[1] = n[2] /\ Tail(n)[2] = n[3] /\ Tail(n)[3] = n[4]
  <2>1. /\ n \in Seq(Nat) /\ Len(n) = 4
    <3>1. <<n[1], n[2], n[3], n[4]>> \in Seq(Nat) /\ Len(<<n[1], n[2], n[3], n[4]>>) = 4
      BY <1>0
    <3> QED BY <1>0, <3>1, Zenon
  <2>2. n # <<>>
    BY <2>1, EmptySeq, SMTT(30)
  <2>t. PICK r : r = Tail(n)
    OBVIOUS
  <2>3. Len(r) = 4 - 1 /\ \A i \in 1 .. Len(r) : r[i] = n[i + 1]
    BY <2>1, <2>2, <2>t, HeadTailProperties
  <2>4. r[1] = n[1 + 1] /\ r[2] = n[2 + 1] /\ r[3] = n[3 + 1]
    BY <2>3
  <2>5. 1 + 1 = 2 /\ 2 + 1 = 3 /\ 3 + 1 = 4
    OBVIOUS
  <2>6. r[1] = n[2] /\ r[2] = n[3] /\ r[3] = n[4]
    BY <2>4, <2>5, Zenon
  <2> QED BY <2>6, <2>t, Zenon
<1>x. PICK m, x, y, z : m = <<n[2], n[3]>> /\ x = Field(n[1], 4) /\ y = WriteIdent(m) /\ z = Field(n[4], 4)
  OBVIOUS
<1>m. IsAddress(m) /\ m[1] = n[2] /\ m[2] = n[3]
  BY <1>0, <1>x DEF IsAddress
<1>1. u = x \o (y \o z)
  <2>2. WriteIdentInt(Tail(n)) = y \o z
    BY <1>m, <1>x, <1>t DEF WriteIdentInt, WriteIdent, Uint
  <2> QED BY <1>x, <2>2 DEF WriteMember, Uint
<1>a. PICK a : a = x \o y
  OBVIOUS
<1>2. u = a \o z
  <2>1. x \in Seq(Bytes) /\ z \in Seq(Bytes)
    BY <1>0, <1>x, NumberIsList
  <2>2. y \in Seq(Bytes)
    BY <1>m, <1>x, IdentIsEntry DEF Row, IsEntry
  <2>3. (x \o y) \o z = x \o (y \o z)
    BY ONLY <2>1, <2>2, ConcatAssociative, SMTT(30)
  <2> QED BY <1>1, <1>a, <2>3
<1>3. Row(Bytes, x, <<n[1]>>, <<4>>, 4)
  BY <1>0, <1>x, RowStarts
<1>4. Row(Bytes, a, <<n[1], n[2], n[3]>>, <<4, 4, 2>>, 4 + 6)
  <2>1. /\ Longer(<<n[1]>>, m[1], <<n[1], n[2]>>) /\ Longer(<<n[1], n[2]>>, m[2], <<n[1], n[2], n[3]>>)
        /\ Longer(<<4>>, 4, <<4, 4>>) /\ Longer(<<4, 4>>, 2, <<4, 4, 2>>)
    BY <1>m, LongerRows
  <2> QED BY <1>3, <1>a, <1>m, <1>x, <2>1, RowAndIdent
<1>5. Row(Bytes, u, <<n[1], n[2], n[3], n[4]>>, <<4, 4, 2, 4>>, 4 + 6 + 4)
  <2>1. Longer(<<n[1], n[2], n[3]>>, n[4], <<n[1], n[2], n[3], n[4]>>) /\
      Longer(<<4, 4, 2>>, 4, <<4, 4, 2, 4>>)
    BY LongerRows
  <2> QED BY <1>0, <1>2, <1>4, <1>x, <2>1, RowAndNumber
<1>6. 4 + 6 + 4 = 14
  OBVIOUS
<1> QED BY <1>5, <1>6

----------------------------------------------------------------------------
(* What packets begin with, as rows *)

IdRow(type, id) == <<type, id \div WordSize, id % WordSize, MagicNumber>>
AddressRow(type, id, n) == <<type, id \div WordSize, id % WordSize, MagicNumber, n[1], n[2]>>
SearchRow(type, id, n, x, y) ==
  <<type, id \div WordSize, id % WordSize, MagicNumber, n[1], n[2], x, y>>

\* The widths of the fields, written out.
LEMMA WidthsWritten ==
  /\ HeaderWidths = <<1, 4, 4, 4>> /\ IdentWidths = <<4, 2>>
  /\ HeaderWidths \o IdentWidths = <<1, 4, 4, 4, 4, 2>>
  /\ HeaderWidths \o IdentWidths \o <<2, 2>> = <<1, 4, 4, 4, 4, 2, 2, 2>>
  /\ IdentWidths \o IdentWidths = <<4, 2, 4, 2>>
<1>x. PICK a, b, c, p, q, d : /\ a = <<1, 4, 4, 4>> /\ b = <<4, 2>> /\ c = <<2, 2>>
                              /\ p = a \o b /\ q = p \o c /\ d = b \o b
  OBVIOUS
<1>0. /\ a \in Seq(Nat) /\ b \in Seq(Nat) /\ c \in Seq(Nat)
      /\ Len(a) = 4 /\ Len(b) = 2 /\ Len(c) = 2
      /\ a[1] = 1 /\ a[2] = 4 /\ a[3] = 4 /\ a[4] = 4 /\ b[1] = 4 /\ b[2] = 2 /\ c[1] = 2 /\ c[2] = 2
  BY <1>x
<1>1. HeaderWidths = a /\ IdentWidths = b
  BY <1>x DEF HeaderWidths, IdentWidths
<1>2. p \in Seq(Nat) /\ Joined(p, a, b)
  BY <1>0, <1>x, JoinFacts
<1>3. q \in Seq(Nat) /\ Joined(q, p, c)
  BY <1>0, <1>2, <1>x, JoinFacts
<1>4. d \in Seq(Nat) /\ Joined(d, b, b)
  BY <1>0, <1>x, JoinFacts
<1>5. Len(p) = 6 /\ p[1] = 1 /\ p[2] = 4 /\ p[3] = 4 /\ p[4] = 4 /\ p[5] = 4 /\ p[6] = 2
  BY <1>0, <1>2 DEF Joined
<1>6. /\ Len(q) = 8 /\ q[1] = 1 /\ q[2] = 4 /\ q[3] = 4 /\ q[4] = 4 /\ q[5] = 4 /\ q[6] = 2
      /\ q[7] = 2 /\ q[8] = 2
  BY <1>0, <1>3, <1>5 DEF Joined
<1>7. Len(d) = 4 /\ d[1] = 4 /\ d[2] = 2 /\ d[3] = 4 /\ d[4] = 2
  BY <1>0, <1>4 DEF Joined
<1>8. p = <<1, 4, 4, 4, 4, 2>>
  <2>1. p = [j \in 1 .. 6 |-> p[j]]
    BY <1>2, <1>5, LenProperties
  <2> QED BY <1>5, <2>1
<1>9. q = <<1, 4, 4, 4, 4, 2, 2, 2>>
  <2>1. q = [j \in 1 .. 8 |-> q[j]]
    BY <1>3, <1>6, LenProperties
  <2> QED BY <1>6, <2>1
<1>10. d = <<4, 2, 4, 2>>
  <2>1. d = [j \in 1 .. 4 |-> d[j]]
    BY <1>4, <1>7, LenProperties
  <2> QED BY <1>7, <2>1
<1> QED BY <1>1, <1>8, <1>9, <1>10, <1>x

\* None of them is 0.
LEMMA WidthsPositive ==
  /\ <<1, 4, 4, 4>> \in Seq(Nat \ {0}) /\ <<1, 4, 4, 4, 4, 2>> \in Seq(Nat \ {0})
  /\ <<1, 4, 4, 4, 4, 2, 2, 2>> \in Seq(Nat \ {0}) /\ <<4, 2>> \in Seq(Nat \ {0})
  /\ <<4, 2, 4>> \in Seq(Nat \ {0}) /\ <<4, 2, 4, 2>> \in Seq(Nat \ {0})
  /\ <<4, 4, 2, 4>> \in Seq(Nat \ {0})
OBVIOUS

\* What every packet begins with, as a row of fields.
LEMMA IdRowWritten ==
  ASSUME NEW Bytes, AreBytes(Bytes), NEW type \in Nat, NEW id \in Nat, NEW u, u = WriteId(type, id)
  PROVE  Row(Bytes, u, IdRow(type, id), <<1, 4, 4, 4>>, 13)
<1>h. PICK hi, lo : hi = id \div WordSize /\ lo = id % WordSize
  OBVIOUS
<1>1. hi \in Nat /\ lo \in Nat /\ MagicNumber \in Nat
  BY <1>h, HalvesAreNumbers, PacketsAssumption
<1>a. PICK a, b, c : a = Field(type, 1) /\ b = a \o Field(hi, 4) /\ c = b \o Field(lo, 4)
  OBVIOUS
<1>2. u = c \o Field(MagicNumber, 4)
  BY <1>a, <1>h DEF WriteId, Char, Uint
<1>3. Row(Bytes, a, <<type>>, <<1>>, 1)
  BY <1>a, RowStarts
<1>4. Row(Bytes, b, <<type, hi>>, <<1, 4>>, 1 + 4)
  <2>1. Longer(<<type>>, hi, <<type, hi>>) /\ Longer(<<1>>, 4, <<1, 4>>)
    BY LongerRows
  <2> QED BY <1>1, <1>3, <1>a, <2>1, RowAndNumber
<1>5. Row(Bytes, c, <<type, hi, lo>>, <<1, 4, 4>>, 1 + 4 + 4)
  <2>1. Longer(<<type, hi>>, lo, <<type, hi, lo>>) /\ Longer(<<1, 4>>, 4, <<1, 4, 4>>)
    BY LongerRows
  <2> QED BY <1>1, <1>4, <1>a, <2>1, RowAndNumber
<1>6. Row(Bytes, u, <<type, hi, lo, MagicNumber>>, <<1, 4, 4, 4>>, 1 + 4 + 4 + 4)
  <2>1. /\ Longer(<<type, hi, lo>>, MagicNumber, <<type, hi, lo, MagicNumber>>)
        /\ Longer(<<1, 4, 4>>, 4, <<1, 4, 4, 4>>)
    BY LongerRows
  <2> QED BY <1>1, <1>2, <1>5, <2>1, RowAndNumber
<1>7. 1 + 4 + 4 + 4 = 13
  OBVIOUS
<1> QED BY <1>6, <1>7, <1>h DEF IdRow

\* The same with an address behind it.
LEMMA AddressRowWritten ==
  ASSUME NEW Bytes, AreBytes(Bytes), NEW type \in Nat, NEW id \in Nat, NEW n, IsAddress(n),
         NEW u, u = WriteId(type, id) \o WriteIdent(n)
  PROVE  Row(Bytes, u, AddressRow(type, id, n), <<1, 4, 4, 4, 4, 2>>, 19)
<1>h. PICK hi, lo, a : hi = id \div WordSize /\ lo = id % WordSize /\ a = WriteId(type, id)
  OBVIOUS
<1>1. Row(Bytes, a, <<type, hi, lo, MagicNumber>>, <<1, 4, 4, 4>>, 13)
  BY <1>h, IdRowWritten DEF IdRow
<1>2. Row(Bytes, u, <<type, hi, lo, MagicNumber, n[1], n[2]>>, <<1, 4, 4, 4, 4, 2>>, 13 + 6)
  <2>1. /\ Longer(<<type, hi, lo, MagicNumber>>, n[1], <<type, hi, lo, MagicNumber, n[1]>>)
        /\ Longer(<<type, hi, lo, MagicNumber, n[1]>>, n[2], <<type, hi, lo, MagicNumber, n[1], n[2]>>)
        /\ Longer(<<1, 4, 4, 4>>, 4, <<1, 4, 4, 4, 4>>)
        /\ Longer(<<1, 4, 4, 4, 4>>, 2, <<1, 4, 4, 4, 4, 2>>)
    BY LongerRows
  <2> QED BY <1>1, <1>h, <2>1, RowAndIdent
<1>3. 13 + 6 = 19
  OBVIOUS
<1> QED BY <1>2, <1>3, <1>h DEF AddressRow

\* The same with an address and two short numbers behind it.
LEMMA SearchRowWritten ==
  ASSUME NEW Bytes, AreBytes(Bytes), NEW type \in Nat, NEW id \in Nat, NEW n, IsAddress(n),
         NEW x \in Nat, NEW y \in Nat,
         NEW u, u = WriteId(type, id) \o WriteIdent(n) \o Ushort(x) \o Ushort(y)
  PROVE  Row(Bytes, u, SearchRow(type, id, n, x, y), <<1, 4, 4, 4, 4, 2, 2, 2>>, 23)
<1>h. PICK hi, lo, a, b : /\ hi = id \div WordSize /\ lo = id % WordSize
                          /\ a = WriteId(type, id) \o WriteIdent(n) /\ b = a \o Field(x, 2)
  OBVIOUS
<1>0. u = b \o Field(y, 2)
  BY <1>h DEF Ushort
<1>1. Row(Bytes, a, <<type, hi, lo, MagicNumber, n[1], n[2]>>, <<1, 4, 4, 4, 4, 2>>, 19)
  BY <1>h, AddressRowWritten DEF AddressRow
<1>2. Row(Bytes, b, <<type, hi, lo, MagicNumber, n[1], n[2], x>>, <<1, 4, 4, 4, 4, 2, 2>>, 19 + 2)
  <2>1. /\ Longer(<<type, hi, lo, MagicNumber, n[1], n[2]>>, x, <<type, hi, lo, MagicNumber, n[1], n[2], x>>)
        /\ Longer(<<1, 4, 4, 4, 4, 2>>, 2, <<1, 4, 4, 4, 4, 2, 2>>)
    BY LongerRows
  <2> QED BY <1>1, <1>h, <2>1, RowAndNumber
<1>3. Row(Bytes, u, <<type, hi, lo, MagicNumber, n[1], n[2], x, y>>, <<1, 4, 4, 4, 4, 2, 2, 2>>, 19 + 2 + 2)
  <2>1. /\ Longer(<<type, hi, lo, MagicNumber, n[1], n[2], x>>, y,
                  <<type, hi, lo, MagicNumber, n[1], n[2], x, y>>)
        /\ Longer(<<1, 4, 4, 4, 4, 2, 2>>, 2, <<1, 4, 4, 4, 4, 2, 2, 2>>)
    BY LongerRows
  <2> QED BY <1>0, <1>2, <2>1, RowAndNumber
<1>4. 19 + 2 + 2 = 23
  OBVIOUS
<1> QED BY <1>3, <1>4, <1>h DEF SearchRow

\* The halves of an id make the id again.
LEMMA IdHalves ==
  ASSUME NEW id \in Nat
  PROVE  (id \div WordSize) * WordSize + (id % WordSize) = id
BY PacketsAssumption

\* A buffer that has a row at its front, and what is read of it, in full and cut short.
Fronted(Bytes, u, front, t, widths, size) ==
  /\ Row(Bytes, front, t, widths, size) /\ u \in Seq(Bytes) /\ Kept(front, u)
  /\ Len(front) <= Len(u)
  /\ widths \in Seq(Nat \ {0}) /\ Len(widths) >= 1 /\ widths[1] = 1
FrontRead(u, t, widths, size) ==
  /\ RetrieveAll(u, 0, widths) = t /\ Retrieve(u, 0, 1) = t[1]
  /\ \A k \in 0 .. Len(u) - 1 :
       /\ Retrieve(SubSeq(u, 1, k), 0, 1) \in {Null, t[1]}
       /\ k < size => RetrieveAll(SubSeq(u, 1, k), 0, widths)[Len(widths)] = Null

\* The fields a packet begins with are read, or one is missing if it is cut in them.
LEMMA FrontIsRead ==
  ASSUME NEW Bytes, NEW u, NEW front, NEW t, NEW widths, NEW size,
         Fronted(Bytes, u, front, t, widths, size)
  PROVE  FrontRead(u, t, widths, size)
<1>n. PICK n : n = Len(widths)
  OBVIOUS
<1>0. /\ IsEntry(Bytes, front, t, widths) /\ Size(widths) = size /\ u \in Seq(Bytes) /\ Kept(front, u)
      /\ widths \in Seq(Nat \ {0}) /\ widths \in Seq(Nat) /\ n >= 1 /\ widths[1] = 1
      /\ Len(front) = size /\ size <= Len(u)
  BY <1>n DEF Fronted, Row, IsEntry
<1>1. n \in Nat /\ 1 \in 1 .. n /\ n \in 1 .. n /\ Len(u) \in Nat
  <2>1. n \in Nat /\ Len(u) \in Nat
    BY <1>0, <1>n, LenProperties
  <2> QED BY <1>0, <2>1
<1>2. Sums(widths)
  BY <1>0, SumsHold
<1>3. IsRow(t, widths) /\ RowIn(front, 0, t, widths)
  BY <1>0 DEF IsEntry
<1>4. RowIn(u, 0, t, widths)
  <2> SUFFICES ASSUME NEW j \in 1 .. n PROVE Lies(u, 0 + Before(widths, j), t[j], widths[j])
    BY <1>n DEF RowIn
  <2>1. 0 + Before(widths, j) \in Nat /\ widths[j] \in Nat
    BY <1>0, <1>2, <1>n, ElementOfSeq DEF Sums
  <2>2. Lies(front, 0 + Before(widths, j), t[j], widths[j])
    BY <1>3, <1>n DEF RowIn
  <2>p. PICK p : p = 0 + Before(widths, j)
    OBVIOUS
  <2> QED BY <1>0, <2>1, <2>2, <2>p DEF Kept
<1>5. RetrieveAll(u, 0, widths) = t
  <2>1. 0 \in Nat
    OBVIOUS
  <2> QED BY <1>0, <1>3, <1>4, <2>1, RowRead
<1>6. Lies(u, 0, t[1], 1)
  <2>1. Lies(u, 0 + Before(widths, 1), t[1], widths[1])
    BY <1>1, <1>4, <1>n DEF RowIn
  <2>2. Before(widths, 1) = 0
    BY <1>2 DEF Sums
  <2>3. 0 + 0 = 0
    OBVIOUS
  <2> QED BY <1>0, <2>1, <2>2, <2>3
<1>7. Retrieve(u, 0, 1) = t[1]
  BY <1>6, RetrieveField
<1>8. ASSUME NEW k \in 0 .. Len(u) - 1
      PROVE  /\ Retrieve(SubSeq(u, 1, k), 0, 1) \in {Null, t[1]}
             /\ k < size => RetrieveAll(SubSeq(u, 1, k), 0, widths)[n] = Null
  <2>c. PICK cut : cut = SubSeq(u, 1, k)
    OBVIOUS
  <2>1. Len(cut) = k /\ KeptTo(k, u, cut) /\ k \in Nat
    <3>1. k \in 0 .. Len(u) /\ k \in Nat
      BY <1>1
    <3> QED BY <1>0, <2>c, <3>1, CutBehind
  <2>2. Retrieve(cut, 0, 1) \in {Null, t[1]}
    <3>1. CASE k = 0
      <4>1. ~(0 + 1 <= Len(cut))
        BY <2>1, <3>1
      <4> QED BY <4>1 DEF Retrieve
    <3>2. CASE k # 0
      <4>1. 0 + 1 <= k
        BY <2>1, <3>2
      <4>2. Lies(cut, 0, t[1], 1)
        BY <1>6, <2>1, <4>1 DEF KeptTo
      <4> QED BY <4>2, RetrieveField
    <3> QED BY <3>1, <3>2
  <2>3. ASSUME k < size PROVE RetrieveAll(cut, 0, widths)[n] = Null
    <3>b. PICK b, w : b = Before(widths, n) /\ w = widths[n]
      OBVIOUS
    <3>1. b + w = size
      BY <1>0, <1>1, <1>2, <1>n, <3>b DEF Sums, Size
    <3>2. b \in Nat /\ w \in Nat
      BY <1>0, <1>1, <1>2, <1>n, <3>b, ElementOfSeq DEF Sums
    <3>3. Retrieve(cut, 0 + b, w) = Null
      <4>1. ~(0 + b + w <= Len(cut))
        BY <2>1, <2>3, <3>1, <3>2
      <4> QED BY <4>1 DEF Retrieve
    <3>4. RetrieveAll(cut, 0, widths)[n] = Retrieve(cut, 0 + b, w)
      BY <1>1, <1>n, <3>b DEF RetrieveAll
    <3> QED BY <3>3, <3>4
  <2> QED BY <2>2, <2>3, <2>c
<1> QED BY <1>5, <1>7, <1>8, <1>n DEF FrontRead

\* A row of numbers is what a packet of its type begins with; if a field is missing it is not.
LEMMA RowOpens ==
  ASSUME NullIsApart, NEW t \in Seq(Nat), NEW type, t[1] = type, t[4] = MagicNumber
  PROVE  Opens(t, type)
<1>1. \A i \in DOMAIN t : t[i] \in Nat
  BY LenProperties, ElementOfSeq
<1> QED BY <1>1 DEF Opens, NullIsApart

\* A packet that is cut in its header opens as no type.
LEMMA MissingField ==
  ASSUME NEW buf, NEW widths, NEW n \in Nat \ {0}, n = Len(widths),
         RetrieveAll(buf, 0, widths)[n] = Null, NEW type
  PROVE  ~Opens(RetrieveAll(buf, 0, widths), type)
<1>f. PICK f : f = RetrieveAll(buf, 0, widths)
  OBVIOUS
<1>1. DOMAIN f = 1 .. n
  BY <1>f DEF RetrieveAll
<1>2. n \in DOMAIN f /\ f[n] = Null
  BY <1>1, <1>f
<1> QED BY <1>2, <1>f DEF Opens

\* The lists of nodes that packets hold.
LEMMA IdentsAreEntries ==
  ASSUME NEW Bytes, AreBytes(Bytes), NEW list \in Seq(Nat \X Nat), NEW entries, entries = Idents(list)
  PROVE  Entries(Bytes, entries, list, <<4, 2>>)
<1>n. PICK n : n = Len(list)
  OBVIOUS
<1>0. n \in Nat /\ DOMAIN list = 1 .. n /\ \A i \in 1 .. n : list[i] \in Nat \X Nat
  BY <1>n, LenProperties, ElementOfSeq
<1>1. \A i \in 1 .. n : entries[i] = WriteIdent(list[i])
  BY <1>0 DEF Idents
<1>2. ASSUME NEW i \in 1 .. n
      PROVE  list[i] \in Seq(Nat) /\ IsEntry(Bytes, entries[i], list[i], <<4, 2>>)
  <2>m. PICK m : m = list[i]
    OBVIOUS
  <2>1. m \in Nat \X Nat
    BY <1>0, <2>m
  <2>2. Row(Bytes, entries[i], <<m[1], m[2]>>, <<4, 2>>, 6)
    BY <1>1, <2>1, <2>m, IdentIsEntry DEF IsAddress
  <2>3. m = <<m[1], m[2]>>
    BY <2>1
  <2>4. IsEntry(Bytes, entries[i], m, <<4, 2>>)
    BY <2>2, <2>3, Zenon DEF Row
  <2> QED BY <2>4, <2>m DEF IsEntry, IsRow
<1>3. entries \in Seq(Seq(Bytes)) /\ Len(entries) = n
  <2>1. entries = [i \in 1 .. n |-> entries[i]]
    BY <1>0 DEF Idents
  <2>2. \A i \in 1 .. n : entries[i] \in Seq(Bytes)
    BY <1>2 DEF IsEntry
  <2>3. entries \in [1 .. n -> Seq(Bytes)]
    BY <2>1, <2>2
  <2> QED BY <1>0, <2>3, IsSequence
<1>4. list \in Seq(Seq(Nat))
  <2>1. list \in [1 .. n -> Seq(Nat)]
    <3>1. list = [i \in 1 .. n |-> list[i]]
      BY <1>0, <1>n, LenProperties
    <3> QED BY <1>2, <3>1
  <2> QED BY <1>0, <2>1, IsSequence
<1> QED BY <1>2, <1>3, <1>4, <1>n DEF Entries

\* The targets of a constraint or a response.
LEMMA IdentIntsAreEntries ==
  ASSUME NEW Bytes, AreBytes(Bytes), NEW list \in Seq(Nat \X Nat \X Nat), NEW entries,
      entries = IdentInts(list)
  PROVE  Entries(Bytes, entries, list, <<4, 2, 4>>)
<1>n. PICK n : n = Len(list)
  OBVIOUS
<1>0. n \in Nat /\ DOMAIN list = 1 .. n /\ \A i \in 1 .. n : list[i] \in Nat \X Nat \X Nat
  BY <1>n, LenProperties, ElementOfSeq
<1>1. \A i \in 1 .. n : entries[i] = WriteIdentInt(list[i])
  BY <1>0 DEF IdentInts
<1>2. ASSUME NEW i \in 1 .. n
      PROVE  list[i] \in Seq(Nat) /\ IsEntry(Bytes, entries[i], list[i], <<4, 2, 4>>)
  <2>m. PICK m : m = list[i]
    OBVIOUS
  <2>1. m \in Nat \X Nat \X Nat
    BY <1>0, <2>m
  <2>2. Row(Bytes, entries[i], <<m[1], m[2], m[3]>>, <<4, 2, 4>>, 10)
    BY <1>1, <2>1, <2>m, IdentIntIsEntry
  <2>3. m = <<m[1], m[2], m[3]>>
    BY <2>1
  <2>4. IsEntry(Bytes, entries[i], m, <<4, 2, 4>>)
    BY <2>2, <2>3, Zenon DEF Row
  <2> QED BY <2>4, <2>m DEF IsEntry, IsRow
<1>3. entries \in Seq(Seq(Bytes)) /\ Len(entries) = n
  <2>1. entries = [i \in 1 .. n |-> entries[i]]
    BY <1>0 DEF IdentInts
  <2>2. \A i \in 1 .. n : entries[i] \in Seq(Bytes)
    BY <1>2 DEF IsEntry
  <2>3. entries \in [1 .. n -> Seq(Bytes)]
    BY <2>1, <2>2
  <2> QED BY <1>0, <2>3, IsSequence
<1>4. list \in Seq(Seq(Nat))
  <2>1. list \in [1 .. n -> Seq(Nat)]
    <3>1. list = [i \in 1 .. n |-> list[i]]
      BY <1>0, <1>n, LenProperties
    <3> QED BY <1>2, <3>1
  <2> QED BY <1>0, <2>1, IsSequence
<1> QED BY <1>2, <1>3, <1>4, <1>n DEF Entries

\* The targets of a gossip packet.
LEMMA IdentRendvsAreEntries ==
  ASSUME NEW Bytes, AreBytes(Bytes), NEW list \in Seq(Nat \X Nat \X Nat \X Nat), NEW entries,
      entries = IdentRendvs(list)
  PROVE  Entries(Bytes, entries, list, <<4, 2, 4, 2>>)
<1>n. PICK n : n = Len(list)
  OBVIOUS
<1>0. n \in Nat /\ DOMAIN list = 1 .. n /\ \A i \in 1 .. n : list[i] \in Nat \X Nat \X Nat \X Nat
  BY <1>n, LenProperties, ElementOfSeq
<1>1. \A i \in 1 .. n : entries[i] = WriteIdentRendv(list[i])
  BY <1>0 DEF IdentRendvs
<1>2. ASSUME NEW i \in 1 .. n
      PROVE  list[i] \in Seq(Nat) /\ IsEntry(Bytes, entries[i], list[i], <<4, 2, 4, 2>>)
  <2>m. PICK m : m = list[i]
    OBVIOUS
  <2>1. m \in Nat \X Nat \X Nat \X Nat
    BY <1>0, <2>m
  <2>2. Row(Bytes, entries[i], <<m[1], m[2], m[3], m[4]>>, <<4, 2, 4, 2>>, 12)
    BY <1>1, <2>1, <2>m, IdentRendvIsEntry
  <2>3. m = <<m[1], m[2], m[3], m[4]>>
    BY <2>1
  <2>4. IsEntry(Bytes, entries[i], m, <<4, 2, 4, 2>>)
    BY <2>2, <2>3, Zenon DEF Row
  <2> QED BY <2>4, <2>m DEF IsEntry, IsRow
<1>3. entries \in Seq(Seq(Bytes)) /\ Len(entries) = n
  <2>1. entries = [i \in 1 .. n |-> entries[i]]
    BY <1>0 DEF IdentRendvs
  <2>2. \A i \in 1 .. n : entries[i] \in Seq(Bytes)
    BY <1>2 DEF IsEntry
  <2>3. entries \in [1 .. n -> Seq(Bytes)]
    BY <2>1, <2>2
  <2> QED BY <1>0, <2>3, IsSequence
<1>4. list \in Seq(Seq(Nat))
  <2>1. list \in [1 .. n -> Seq(Nat)]
    <3>1. list = [i \in 1 .. n |-> list[i]]
      BY <1>0, <1>n, LenProperties
    <3> QED BY <1>2, <3>1
  <2> QED BY <1>0, <2>1, IsSequence
<1> QED BY <1>2, <1>3, <1>4, <1>n DEF Entries

\* The nodes of an INFO packet.
LEMMA MembersAreEntries ==
  ASSUME NEW Bytes, AreBytes(Bytes), NEW list \in Seq(Nat \X Nat \X Nat \X Nat), NEW entries,
      entries = [i \in DOMAIN list |-> WriteMember(list[i])]
  PROVE  Entries(Bytes, entries, list, <<4, 4, 2, 4>>)
<1>n. PICK n : n = Len(list)
  OBVIOUS
<1>0. n \in Nat /\ DOMAIN list = 1 .. n /\ \A i \in 1 .. n : list[i] \in Nat \X Nat \X Nat \X Nat
  BY <1>n, LenProperties, ElementOfSeq
<1>1. \A i \in 1 .. n : entries[i] = WriteMember(list[i])
  BY <1>0
<1>2. ASSUME NEW i \in 1 .. n
      PROVE  list[i] \in Seq(Nat) /\ IsEntry(Bytes, entries[i], list[i], <<4, 4, 2, 4>>)
  <2>m. PICK m : m = list[i]
    OBVIOUS
  <2>1. m \in Nat \X Nat \X Nat \X Nat
    BY <1>0, <2>m
  <2>2. Row(Bytes, entries[i], <<m[1], m[2], m[3], m[4]>>, <<4, 4, 2, 4>>, 14)
    BY <1>1, <2>1, <2>m, MemberIsEntry
  <2>3. m = <<m[1], m[2], m[3], m[4]>>
    BY <2>1
  <2>4. IsEntry(Bytes, entries[i], m, <<4, 4, 2, 4>>)
    BY <2>2, <2>3, Zenon DEF Row
  <2> QED BY <2>4, <2>m DEF IsEntry, IsRow
<1>3. entries \in Seq(Seq(Bytes)) /\ Len(entries) = n
  <2>1. entries = [i \in 1 .. n |-> entries[i]]
    BY <1>0
  <2>2. \A i \in 1 .. n : entries[i] \in Seq(Bytes)
    BY <1>2 DEF IsEntry
  <2>3. entries \in [1 .. n -> Seq(Bytes)]
    BY <2>1, <2>2
  <2> QED BY <1>0, <2>3, IsSequence
<1>4. list \in Seq(Seq(Nat))
  <2>1. list \in [1 .. n -> Seq(Nat)]
    <3>1. list = [i \in 1 .. n |-> list[i]]
      BY <1>0, <1>n, LenProperties
    <3> QED BY <1>2, <3>1
  <2> QED BY <1>0, <2>1, IsSequence
<1> QED BY <1>2, <1>3, <1>4, <1>n DEF Entries

----------------------------------------------------------------------------
(* A packet that ends in a list *)

ListPacket(Bytes, buf, front, t, widths, size, entries, rows, each) ==
  /\ AreBytes(Bytes) /\ Row(Bytes, front, t, widths, size)
  /\ widths \in Seq(Nat \ {0}) /\ Len(widths) >= 1 /\ widths[1] = 1
  /\ each \in Seq(Nat \ {0}) /\ Entries(Bytes, entries, rows, each)
  /\ buf = front \o WriteList(entries)
ListPacketRead(Bytes, buf, t, widths, size, rows, each) ==
  /\ buf \in Seq(Bytes) /\ RetrieveAll(buf, 0, widths) = t /\ Retrieve(buf, 0, 1) = t[1]
  /\ RetrieveList(buf, size, each) = rows
  /\ \A k \in 0 .. Len(buf) - 1 :
       /\ Retrieve(SubSeq(buf, 1, k), 0, 1) \in {Null, t[1]}
       /\ RetrieveList(SubSeq(buf, 1, k), size, each) = Null

\* A packet that ends in a list is read, or found too short.
LEMMA ListPacketIsRead ==
  ASSUME NullIsApart, NEW Bytes, NEW buf, NEW front, NEW t, NEW widths, NEW size, NEW entries,
         NEW rows, NEW each, ListPacket(Bytes, buf, front, t, widths, size, entries, rows, each)
  PROVE  ListPacketRead(Bytes, buf, t, widths, size, rows, each)
<1>0. front \in Seq(Bytes) /\ Len(front) = size
  BY DEF ListPacket, Row, IsEntry
<1>1. AddsList(Bytes, front, entries, rows, each, buf)
  BY <1>0 DEF ListPacket, AddsList
<1>2. ListBehind(Bytes, buf, front, rows, each)
  BY <1>1, ListWritten
<1>3. Fronted(Bytes, buf, front, t, widths, size)
  BY <1>2 DEF ListPacket, ListBehind, Fronted
<1>4. FrontRead(buf, t, widths, size)
  BY <1>3, FrontIsRead
<1> QED BY <1>0, <1>2, <1>4 DEF ListBehind, FrontRead, ListPacketRead

----------------------------------------------------------------------------
(* The class of a type *)

\* The create of each class.
LEMMA CreatesIs ==
  ASSUME NEW p
  PROVE  /\ p.type \in MeasureTypes => Creates(p) = CreateReqGeneric(p)
         /\ p.type \in ConstraintTypes => Creates(p) = CreateReqConstraint(p)
         /\ p.type \in ClosestTypes => Creates(p) = CreateReqClosest(p)
         /\ p.type \in PlainTypes => Creates(p) = CreatePlain(p)
         /\ p.type = RET_INFO => Creates(p) = CreateRetInfo(p)
         /\ p.type = RET_RESPONSE => Creates(p) = CreateRetResponse(p)
         /\ p.type = RET_PING_REQ => Creates(p) = CreateRetPing(p)
         /\ p.type \in GossipTypes => Creates(p) = CreateGossip(p)
         /\ p.type = INFO_PACKET => Creates(p) = CreateInfo(p)
BY DEF Creates, MeasureTypes, ConstraintTypes, ClosestTypes, PlainTypes, GossipTypes, RET_INFO,
       RET_RESPONSE, RET_PING_REQ, INFO_PACKET, DSL_REQUEST, DSL_REPLY

\* The parse of each class.
LEMMA ParsesIs ==
  ASSUME NullIsApart, NEW from, NEW buf, NEW type, type = Retrieve(buf, 0, 1)
  PROVE  /\ type \in MeasureTypes => Parses(from, buf) = ParseReqGeneric(type, buf)
         /\ type \in ConstraintTypes => Parses(from, buf) = ParseReqConstraint(type, buf)
         /\ type \in ClosestTypes => Parses(from, buf) = ParseReqClosest(type, buf)
         /\ type \in PlainTypes => Parses(from, buf) = ParsePlain(type, buf)
         /\ type = RET_INFO => Parses(from, buf) = ParseRetInfo(type, from, buf)
         /\ type = RET_RESPONSE => Parses(from, buf) = ParseRetResponse(type, from, buf)
         /\ type = RET_PING_REQ => Parses(from, buf) = ParseRetPing(type, buf)
         /\ type \in GossipTypes => Parses(from, buf) = ParseGossip(type, buf)
         /\ type = INFO_PACKET => Parses(from, buf) = ParseInfo(type, buf)
         /\ type = Null => Parses(from, buf) = Null
BY DEF Parses, MeasureTypes, ConstraintTypes, ClosestTypes, PlainTypes, GossipTypes, RET_INFO,
       RET_RESPONSE, RET_PING_REQ, INFO_PACKET, DSL_REQUEST, DSL_REPLY, NullIsApart

\* What is to be received of each class without values.
LEMMA ReceivedIs ==
  ASSUME NEW p, NEW from
  PROVE  /\ p.type \in MeasureTypes \cup ConstraintTypes \cup ClosestTypes \cup PlainTypes
                        \cup GossipTypes \cup {RET_PING_REQ, INFO_PACKET} => Received(p, from) = p
         /\ p.type \in {RET_RESPONSE, RET_INFO} => Received(p, from) = [p EXCEPT !.node = Address(@, from)]
         /\ Null \in CutShort(p)
<1>1. /\ p.type \in MeasureTypes \cup ConstraintTypes \cup ClosestTypes \cup PlainTypes
                     \cup GossipTypes \cup {RET_PING_REQ, INFO_PACKET} => Received(p, from) = p
      /\ p.type \in {RET_RESPONSE, RET_INFO} => Received(p, from) = [p EXCEPT !.node = Address(@, from)]
  BY DEF Received, MeasureTypes, ConstraintTypes, ClosestTypes, PlainTypes, GossipTypes, RET_INFO,
         RET_RESPONSE, RET_PING_REQ, INFO_PACKET, DSL_REQUEST, DSL_REPLY
<1>2. Null \in CutShort(p)
  BY DEF CutShort
<1> QED BY <1>1, <1>2

----------------------------------------------------------------------------
(* The classes without values of programs *)

\* ReadAsWritten, of one packet, and its bytes are numbers.
IsReadBack(Bytes, p, from) ==
  \A buf : buf = Creates(p) /\ buf # Null =>
    /\ buf \in Seq(Bytes) /\ Parses(from, buf) = Received(p, from)
    /\ \A k \in 0 .. Len(buf) - 1 : Parses(from, SubSeq(buf, 1, k)) \in CutShort(p)

\* A measurement or an ordinary request.
LEMMA MeasureReads ==
  ASSUME NullIsApart, NEW Bytes, AreBytes(Bytes), NEW from,
         NEW p \in [type : MeasureTypes, id : Nat, rendv : Nat \X Nat, targets : Seq(Nat \X Nat)]
  PROVE  IsReadBack(Bytes, p, from)
<1> SUFFICES ASSUME NEW buf, buf = Creates(p), buf # Null
             PROVE  /\ buf \in Seq(Bytes) /\ Parses(from, buf) = Received(p, from)
                    /\ \A k \in 0 .. Len(buf) - 1 : Parses(from, SubSeq(buf, 1, k)) \in CutShort(p)
  BY DEF IsReadBack
<1>t. PICK front, t, entries, widths, each :
        /\ front = WriteId(p.type, p.id) \o WriteIdent(p.rendv) /\ t = AddressRow(p.type, p.id, p.rendv)
        /\ entries = Idents(p.targets) /\ widths = <<1, 4, 4, 4, 4, 2>> /\ each = <<4, 2>>
  OBVIOUS
<1>0. p.type \in Nat /\ p.type \in MeasureTypes
  BY DEF MeasureTypes
<1>1. buf = front \o WriteList(entries)
  <2>1. Creates(p) = CreateReqGeneric(p)
    BY <1>0, CreatesIs
  <2> QED BY <1>t, <2>1 DEF CreateReqGeneric, Complete
<1>2. Row(Bytes, front, t, widths, 19)
  BY <1>0, <1>t, AddressRowWritten DEF IsAddress
<1>3. Entries(Bytes, entries, p.targets, each)
  BY <1>t, IdentsAreEntries
<1>4. widths \in Seq(Nat \ {0}) /\ each \in Seq(Nat \ {0}) /\ Len(widths) >= 1 /\ widths[1] = 1
  BY <1>t, WidthsPositive
<1>5. ListPacketRead(Bytes, buf, t, widths, 19, p.targets, each)
  <2>1. ListPacket(Bytes, buf, front, t, widths, 19, entries, p.targets, each)
    BY <1>1, <1>2, <1>3, <1>4 DEF ListPacket
  <2> QED BY <2>1, ListPacketIsRead
<1>6. buf \in Seq(Bytes) /\ t[1] = p.type
  BY <1>5, <1>t DEF ListPacketRead, AddressRow
<1>w. widths = HeaderWidths \o IdentWidths /\ each = IdentWidths
  BY <1>t, WidthsWritten
<1>7. Parses(from, buf) = Received(p, from)
  <2>1. Parses(from, buf) = ParseReqGeneric(p.type, buf)
    BY <1>0, <1>5, <1>6, ParsesIs DEF ListPacketRead
  <2>2. /\ RetrieveAll(buf, 0, HeaderWidths \o IdentWidths) = t
        /\ RetrieveList(buf, 19, IdentWidths) = p.targets
    BY <1>5, <1>w DEF ListPacketRead
  <2>3. Opens(t, p.type)
    <3>1. t \in Seq(Nat)
      BY <1>2 DEF Row, IsEntry, IsRow
    <3>2. t[4] = MagicNumber
      BY <1>t DEF AddressRow
    <3> QED BY <1>6, <3>1, <3>2, RowOpens
  <2>4. p.targets # Null
    BY DEF NullIsApart, NullIsNoList
  <2>5. To64(t) = p.id
    <3>1. t[2] = p.id \div WordSize /\ t[3] = p.id % WordSize
      BY <1>t DEF AddressRow
    <3> QED BY <3>1, IdHalves DEF To64
  <2>6. <<t[5], t[6]>> = p.rendv
    BY <1>t DEF AddressRow
  <2>r. PICK f, targets : f = t /\ targets = p.targets
    OBVIOUS
  <2>7. ParseReqGeneric(p.type, buf) =
          [type |-> p.type, id |-> To64(f), rendv |-> <<f[5], f[6]>>, targets |-> targets]
    BY <2>2, <2>3, <2>4, <2>r, Zenon DEF ParseReqGeneric
  <2>8. Received(p, from) = p
    BY <1>0, ReceivedIs
  <2>9. ParseReqGeneric(p.type, buf) = p
    BY <2>5, <2>6, <2>7, <2>r
  <2> QED BY <2>1, <2>8, <2>9
<1>8. ASSUME NEW k \in 0 .. Len(buf) - 1 PROVE Parses(from, SubSeq(buf, 1, k)) \in CutShort(p)
  <2>c. PICK cut, type : cut = SubSeq(buf, 1, k) /\ type = Retrieve(cut, 0, 1)
    OBVIOUS
  <2>1. type \in {Null, p.type} /\ RetrieveList(cut, 19, IdentWidths) = Null
    BY <1>5, <1>6, <1>w, <2>c DEF ListPacketRead
  <2>2. type = p.type => Parses(from, cut) = ParseReqGeneric(p.type, cut)
    BY <1>0, <2>c, ParsesIs
  <2>3. ParseReqGeneric(p.type, cut) = Null
    BY <2>1, Zenon DEF ParseReqGeneric
  <2>4. type = Null => Parses(from, cut) = Null
    BY <2>c, ParsesIs
  <2>5. Parses(from, cut) = Null
    BY <2>1, <2>2, <2>3, <2>4
  <2>6. Null \in CutShort(p)
    BY ReceivedIs
  <2> QED BY <2>5, <2>6, <2>c
<1> QED BY <1>6, <1>7, <1>8

\* A search under constraints.
LEMMA ConstraintReads ==
  ASSUME NullIsApart, NEW Bytes, AreBytes(Bytes), NEW from,
         NEW p \in [type : ConstraintTypes, id : Nat, rendv : Nat \X Nat, betaNum : Nat, betaDen : Nat,
               targets : Seq(Nat \X Nat \X Nat)]
  PROVE  IsReadBack(Bytes, p, from)
<1> SUFFICES ASSUME NEW buf, buf = Creates(p), buf # Null
             PROVE  /\ buf \in Seq(Bytes) /\ Parses(from, buf) = Received(p, from)
                    /\ \A k \in 0 .. Len(buf) - 1 : Parses(from, SubSeq(buf, 1, k)) \in CutShort(p)
  BY DEF IsReadBack
<1>t. PICK front, t, entries, widths, each :
        /\ front = WriteId(p.type, p.id) \o WriteIdent(p.rendv) \o Ushort(p.betaNum) \o
             Ushort(p.betaDen) /\ t = SearchRow(p.type, p.id, p.rendv, p.betaNum, p.betaDen)
        /\ entries = IdentInts(p.targets) /\ widths = <<1, 4, 4, 4, 4, 2, 2, 2>> /\ each = <<4, 2, 4>>
  OBVIOUS
<1>0. p.type \in Nat /\ p.type \in ConstraintTypes
  BY DEF ConstraintTypes
<1>1. buf = front \o WriteList(entries)
  <2>1. Creates(p) = CreateReqConstraint(p)
    BY <1>0, CreatesIs
  <2> QED BY <1>t, <2>1 DEF CreateReqConstraint, Complete
<1>2. Row(Bytes, front, t, widths, 23)
  BY <1>0, <1>t, SearchRowWritten DEF IsAddress
<1>3. Entries(Bytes, entries, p.targets, each)
  BY <1>t, IdentIntsAreEntries
<1>4. widths \in Seq(Nat \ {0}) /\ each \in Seq(Nat \ {0}) /\ Len(widths) >= 1 /\ widths[1] = 1
  BY <1>t, WidthsPositive
<1>5. ListPacketRead(Bytes, buf, t, widths, 23, p.targets, each)
  <2>1. ListPacket(Bytes, buf, front, t, widths, 23, entries, p.targets, each)
    BY <1>1, <1>2, <1>3, <1>4 DEF ListPacket
  <2> QED BY <2>1, ListPacketIsRead
<1>6. buf \in Seq(Bytes) /\ t[1] = p.type
  BY <1>5, <1>t DEF ListPacketRead, SearchRow
<1>w. widths = HeaderWidths \o IdentWidths \o <<2, 2>> /\ each = <<4, 2, 4>>
  BY <1>t, WidthsWritten
<1>7. Parses(from, buf) = Received(p, from)
  <2>1. Parses(from, buf) = ParseReqConstraint(p.type, buf)
    BY <1>0, <1>5, <1>6, ParsesIs DEF ListPacketRead
  <2>2. /\ RetrieveAll(buf, 0, HeaderWidths \o IdentWidths \o <<2, 2>>) = t
        /\ RetrieveList(buf, 23, <<4, 2, 4>>) = p.targets
    BY <1>5, <1>w DEF ListPacketRead
  <2>3. Opens(t, p.type)
    <3>1. t \in Seq(Nat)
      BY <1>2 DEF Row, IsEntry, IsRow
    <3>2. t[4] = MagicNumber
      BY <1>t DEF SearchRow
    <3> QED BY <1>6, <3>1, <3>2, RowOpens
  <2>4. p.targets # Null
    BY DEF NullIsApart, NullIsNoList
  <2>5. To64(t) = p.id
    <3>1. t[2] = p.id \div WordSize /\ t[3] = p.id % WordSize
      BY <1>t DEF SearchRow
    <3> QED BY <3>1, IdHalves DEF To64
  <2>6. <<t[5], t[6]>> = p.rendv /\ t[7] = p.betaNum /\ t[8] = p.betaDen
    BY <1>t DEF SearchRow
  <2>r. PICK f, targets : f = t /\ targets = p.targets
    OBVIOUS
  <2>7. ParseReqConstraint(p.type, buf) =
          [type |-> p.type, id |-> To64(f), rendv |-> <<f[5], f[6]>>, betaNum |-> f[7], betaDen |-> f[8],
              targets |-> targets]
    BY <2>2, <2>3, <2>4, <2>r, Zenon DEF ParseReqConstraint
  <2>8. Received(p, from) = p
    BY <1>0, ReceivedIs
  <2>9. ParseReqConstraint(p.type, buf) = p
    BY <2>5, <2>6, <2>7, <2>r
  <2> QED BY <2>1, <2>8, <2>9
<1>8. ASSUME NEW k \in 0 .. Len(buf) - 1 PROVE Parses(from, SubSeq(buf, 1, k)) \in CutShort(p)
  <2>c. PICK cut, type : cut = SubSeq(buf, 1, k) /\ type = Retrieve(cut, 0, 1)
    OBVIOUS
  <2>1. type \in {Null, p.type} /\ RetrieveList(cut, 23, <<4, 2, 4>>) = Null
    BY <1>5, <1>6, <1>w, <2>c DEF ListPacketRead
  <2>2. type = p.type => Parses(from, cut) = ParseReqConstraint(p.type, cut)
    BY <1>0, <2>c, ParsesIs
  <2>3. ParseReqConstraint(p.type, cut) = Null
    BY <2>1, Zenon DEF ParseReqConstraint
  <2>4. type = Null => Parses(from, cut) = Null
    BY <2>c, ParsesIs
  <2>5. Parses(from, cut) = Null
    BY <2>1, <2>2, <2>3, <2>4
  <2>6. Null \in CutShort(p)
    BY ReceivedIs
  <2> QED BY <2>5, <2>6, <2>c
<1> QED BY <1>6, <1>7, <1>8

\* A search for the closest node.
LEMMA ClosestReads ==
  ASSUME NullIsApart, NEW Bytes, AreBytes(Bytes), NEW from,
         NEW p \in [type : ClosestTypes, id : Nat, rendv : Nat \X Nat, betaNum : Nat, betaDen : Nat,
               targets : Seq(Nat \X Nat)]
  PROVE  IsReadBack(Bytes, p, from)
<1> SUFFICES ASSUME NEW buf, buf = Creates(p), buf # Null
             PROVE  /\ buf \in Seq(Bytes) /\ Parses(from, buf) = Received(p, from)
                    /\ \A k \in 0 .. Len(buf) - 1 : Parses(from, SubSeq(buf, 1, k)) \in CutShort(p)
  BY DEF IsReadBack
<1>t. PICK front, t, entries, widths, each :
        /\ front = WriteId(p.type, p.id) \o WriteIdent(p.rendv) \o Ushort(p.betaNum) \o
             Ushort(p.betaDen) /\ t = SearchRow(p.type, p.id, p.rendv, p.betaNum, p.betaDen)
        /\ entries = Idents(p.targets) /\ widths = <<1, 4, 4, 4, 4, 2, 2, 2>> /\ each = <<4, 2>>
  OBVIOUS
<1>0. p.type \in Nat /\ p.type \in ClosestTypes
  BY DEF ClosestTypes
<1>1. buf = front \o WriteList(entries)
  <2>1. Creates(p) = CreateReqClosest(p)
    BY <1>0, CreatesIs
  <2> QED BY <1>t, <2>1 DEF CreateReqClosest, Complete
<1>2. Row(Bytes, front, t, widths, 23)
  BY <1>0, <1>t, SearchRowWritten DEF IsAddress
<1>3. Entries(Bytes, entries, p.targets, each)
  BY <1>t, IdentsAreEntries
<1>4. widths \in Seq(Nat \ {0}) /\ each \in Seq(Nat \ {0}) /\ Len(widths) >= 1 /\ widths[1] = 1
  BY <1>t, WidthsPositive
<1>5. ListPacketRead(Bytes, buf, t, widths, 23, p.targets, each)
  <2>1. ListPacket(Bytes, buf, front, t, widths, 23, entries, p.targets, each)
    BY <1>1, <1>2, <1>3, <1>4 DEF ListPacket
  <2> QED BY <2>1, ListPacketIsRead
<1>6. buf \in Seq(Bytes) /\ t[1] = p.type
  BY <1>5, <1>t DEF ListPacketRead, SearchRow
<1>w. widths = HeaderWidths \o IdentWidths \o <<2, 2>> /\ each = IdentWidths
  BY <1>t, WidthsWritten
<1>7. Parses(from, buf) = Received(p, from)
  <2>1. Parses(from, buf) = ParseReqClosest(p.type, buf)
    BY <1>0, <1>5, <1>6, ParsesIs DEF ListPacketRead
  <2>2. /\ RetrieveAll(buf, 0, HeaderWidths \o IdentWidths \o <<2, 2>>) = t
        /\ RetrieveList(buf, 23, IdentWidths) = p.targets
    BY <1>5, <1>w DEF ListPacketRead
  <2>3. Opens(t, p.type)
    <3>1. t \in Seq(Nat)
      BY <1>2 DEF Row, IsEntry, IsRow
    <3>2. t[4] = MagicNumber
      BY <1>t DEF SearchRow
    <3> QED BY <1>6, <3>1, <3>2, RowOpens
  <2>4. p.targets # Null
    BY DEF NullIsApart, NullIsNoList
  <2>5. To64(t) = p.id
    <3>1. t[2] = p.id \div WordSize /\ t[3] = p.id % WordSize
      BY <1>t DEF SearchRow
    <3> QED BY <3>1, IdHalves DEF To64
  <2>6. <<t[5], t[6]>> = p.rendv /\ t[7] = p.betaNum /\ t[8] = p.betaDen
    BY <1>t DEF SearchRow
  <2>r. PICK f, targets : f = t /\ targets = p.targets
    OBVIOUS
  <2>7. ParseReqClosest(p.type, buf) =
          [type |-> p.type, id |-> To64(f), rendv |-> <<f[5], f[6]>>, betaNum |-> f[7], betaDen |-> f[8],
              targets |-> targets]
    BY <2>2, <2>3, <2>4, <2>r, Zenon DEF ParseReqClosest
  <2>8. Received(p, from) = p
    BY <1>0, ReceivedIs
  <2>9. ParseReqClosest(p.type, buf) = p
    BY <2>5, <2>6, <2>7, <2>r
  <2> QED BY <2>1, <2>8, <2>9
<1>8. ASSUME NEW k \in 0 .. Len(buf) - 1 PROVE Parses(from, SubSeq(buf, 1, k)) \in CutShort(p)
  <2>c. PICK cut, type : cut = SubSeq(buf, 1, k) /\ type = Retrieve(cut, 0, 1)
    OBVIOUS
  <2>1. type \in {Null, p.type} /\ RetrieveList(cut, 23, IdentWidths) = Null
    BY <1>5, <1>6, <1>w, <2>c DEF ListPacketRead
  <2>2. type = p.type => Parses(from, cut) = ParseReqClosest(p.type, cut)
    BY <1>0, <2>c, ParsesIs
  <2>3. ParseReqClosest(p.type, cut) = Null
    BY <2>1, Zenon DEF ParseReqClosest
  <2>4. type = Null => Parses(from, cut) = Null
    BY <2>c, ParsesIs
  <2>5. Parses(from, cut) = Null
    BY <2>1, <2>2, <2>3, <2>4
  <2>6. Null \in CutShort(p)
    BY ReceivedIs
  <2> QED BY <2>5, <2>6, <2>c
<1> QED BY <1>6, <1>7, <1>8

\* The answer to a request.
LEMMA RetResponseReads ==
  ASSUME NullIsApart, NEW Bytes, AreBytes(Bytes), NEW from,
         NEW p \in [type : {RET_RESPONSE}, id : Nat, node : Nat \X Nat, targets : Seq(Nat \X Nat \X Nat)]
  PROVE  IsReadBack(Bytes, p, from)
<1> SUFFICES ASSUME NEW buf, buf = Creates(p), buf # Null
             PROVE  /\ buf \in Seq(Bytes) /\ Parses(from, buf) = Received(p, from)
                    /\ \A k \in 0 .. Len(buf) - 1 : Parses(from, SubSeq(buf, 1, k)) \in CutShort(p)
  BY DEF IsReadBack
<1>t. PICK front, t, entries, widths, each :
        /\ front = WriteId(p.type, p.id) \o WriteIdent(p.node) /\ t = AddressRow(p.type, p.id, p.node)
        /\ entries = IdentInts(p.targets) /\ widths = <<1, 4, 4, 4, 4, 2>> /\ each = <<4, 2, 4>>
  OBVIOUS
<1>0. p.type \in Nat /\ p.type \in {RET_RESPONSE}
  BY DEF RET_RESPONSE
<1>1. buf = front \o WriteList(entries)
  <2>1. Creates(p) = CreateRetResponse(p)
    BY <1>0, CreatesIs
  <2> QED BY <1>t, <2>1 DEF CreateRetResponse, Complete
<1>2. Row(Bytes, front, t, widths, 19)
  BY <1>0, <1>t, AddressRowWritten DEF IsAddress
<1>3. Entries(Bytes, entries, p.targets, each)
  BY <1>t, IdentIntsAreEntries
<1>4. widths \in Seq(Nat \ {0}) /\ each \in Seq(Nat \ {0}) /\ Len(widths) >= 1 /\ widths[1] = 1
  BY <1>t, WidthsPositive
<1>5. ListPacketRead(Bytes, buf, t, widths, 19, p.targets, each)
  <2>1. ListPacket(Bytes, buf, front, t, widths, 19, entries, p.targets, each)
    BY <1>1, <1>2, <1>3, <1>4 DEF ListPacket
  <2> QED BY <2>1, ListPacketIsRead
<1>6. buf \in Seq(Bytes) /\ t[1] = p.type
  BY <1>5, <1>t DEF ListPacketRead, AddressRow
<1>w. widths = HeaderWidths \o IdentWidths /\ each = <<4, 2, 4>>
  BY <1>t, WidthsWritten
<1>7. Parses(from, buf) = Received(p, from)
  <2>1. Parses(from, buf) = ParseRetResponse(p.type, from, buf)
    BY <1>0, <1>5, <1>6, ParsesIs DEF ListPacketRead
  <2>2. /\ RetrieveAll(buf, 0, HeaderWidths \o IdentWidths) = t
        /\ RetrieveList(buf, 19, <<4, 2, 4>>) = p.targets
    BY <1>5, <1>w DEF ListPacketRead
  <2>3. Opens(t, p.type)
    <3>1. t \in Seq(Nat)
      BY <1>2 DEF Row, IsEntry, IsRow
    <3>2. t[4] = MagicNumber
      BY <1>t DEF AddressRow
    <3> QED BY <1>6, <3>1, <3>2, RowOpens
  <2>4. p.targets # Null
    BY DEF NullIsApart, NullIsNoList
  <2>5. To64(t) = p.id
    <3>1. t[2] = p.id \div WordSize /\ t[3] = p.id % WordSize
      BY <1>t DEF AddressRow
    <3> QED BY <3>1, IdHalves DEF To64
  <2>6. <<t[5], t[6]>> = p.node
    BY <1>t DEF AddressRow
  <2>r. PICK f, targets : f = t /\ targets = p.targets
    OBVIOUS
  <2>7. ParseRetResponse(p.type, from, buf) =
          [type |-> p.type, id |-> To64(f), node |-> Address(<<f[5], f[6]>>, from), targets |-> targets]
    BY <2>2, <2>3, <2>4, <2>r, Zenon DEF ParseRetResponse
  <2>8. Received(p, from) = [p EXCEPT !.node = Address(@, from)]
    BY <1>0, ReceivedIs
  <2>9. ParseRetResponse(p.type, from, buf) = [p EXCEPT !.node = Address(@, from)]
    <3>a. PICK a : a = Address(p.node, from)
      OBVIOUS
    <3>1. Address(<<f[5], f[6]>>, from) = a
      BY <2>6, <2>r, <3>a
    <3>2. ParseRetResponse(p.type, from, buf) = [type |-> p.type, id |-> p.id, node |-> a,
        targets |-> p.targets]
      BY <2>5, <2>7, <2>r, <3>1
    <3>3. [type |-> p.type, id |-> p.id, node |-> a, targets |-> p.targets] = [p EXCEPT !.node = a]
      OBVIOUS
    <3>4. [p EXCEPT !.node = Address(@, from)] = [p EXCEPT !.node = a]
      BY <3>a, Zenon
    <3> QED BY <3>2, <3>3, <3>4, Zenon
  <2> QED BY <2>1, <2>8, <2>9
<1>8. ASSUME NEW k \in 0 .. Len(buf) - 1 PROVE Parses(from, SubSeq(buf, 1, k)) \in CutShort(p)
  <2>c. PICK cut, type : cut = SubSeq(buf, 1, k) /\ type = Retrieve(cut, 0, 1)
    OBVIOUS
  <2>1. type \in {Null, p.type} /\ RetrieveList(cut, 19, <<4, 2, 4>>) = Null
    BY <1>5, <1>6, <1>w, <2>c DEF ListPacketRead
  <2>2. type = p.type => Parses(from, cut) = ParseRetResponse(p.type, from, cut)
    BY <1>0, <2>c, ParsesIs
  <2>3. ParseRetResponse(p.type, from, cut) = Null
    BY <2>1, Zenon DEF ParseRetResponse
  <2>4. type = Null => Parses(from, cut) = Null
    BY <2>c, ParsesIs
  <2>5. Parses(from, cut) = Null
    BY <2>1, <2>2, <2>3, <2>4
  <2>6. Null \in CutShort(p)
    BY ReceivedIs
  <2> QED BY <2>5, <2>6, <2>c
<1> QED BY <1>6, <1>7, <1>8

\* The answer to a request for pings.
LEMMA RetPingReads ==
  ASSUME NullIsApart, NEW Bytes, AreBytes(Bytes), NEW from,
         NEW p \in [type : {RET_PING_REQ}, id : Nat, targets : Seq(Nat \X Nat \X Nat)]
  PROVE  IsReadBack(Bytes, p, from)
<1> SUFFICES ASSUME NEW buf, buf = Creates(p), buf # Null
             PROVE  /\ buf \in Seq(Bytes) /\ Parses(from, buf) = Received(p, from)
                    /\ \A k \in 0 .. Len(buf) - 1 : Parses(from, SubSeq(buf, 1, k)) \in CutShort(p)
  BY DEF IsReadBack
<1>t. PICK front, t, entries, widths, each :
        /\ front = WriteId(p.type, p.id) /\ t = IdRow(p.type, p.id)
        /\ entries = IdentInts(p.targets) /\ widths = <<1, 4, 4, 4>> /\ each = <<4, 2, 4>>
  OBVIOUS
<1>0. p.type \in Nat /\ p.type \in {RET_PING_REQ}
  BY DEF RET_PING_REQ
<1>1. buf = front \o WriteList(entries)
  <2>1. Creates(p) = CreateRetPing(p)
    BY <1>0, CreatesIs
  <2> QED BY <1>t, <2>1 DEF CreateRetPing, Complete
<1>2. Row(Bytes, front, t, widths, 13)
  BY <1>0, <1>t, IdRowWritten DEF IsAddress
<1>3. Entries(Bytes, entries, p.targets, each)
  BY <1>t, IdentIntsAreEntries
<1>4. widths \in Seq(Nat \ {0}) /\ each \in Seq(Nat \ {0}) /\ Len(widths) >= 1 /\ widths[1] = 1
  BY <1>t, WidthsPositive
<1>5. ListPacketRead(Bytes, buf, t, widths, 13, p.targets, each)
  <2>1. ListPacket(Bytes, buf, front, t, widths, 13, entries, p.targets, each)
    BY <1>1, <1>2, <1>3, <1>4 DEF ListPacket
  <2> QED BY <2>1, ListPacketIsRead
<1>6. buf \in Seq(Bytes) /\ t[1] = p.type
  BY <1>5, <1>t DEF ListPacketRead, IdRow
<1>w. widths = HeaderWidths /\ each = <<4, 2, 4>>
  BY <1>t, WidthsWritten
<1>7. Parses(from, buf) = Received(p, from)
  <2>1. Parses(from, buf) = ParseRetPing(p.type, buf)
    BY <1>0, <1>5, <1>6, ParsesIs DEF ListPacketRead
  <2>2. /\ RetrieveAll(buf, 0, HeaderWidths) = t
        /\ RetrieveList(buf, 13, <<4, 2, 4>>) = p.targets
    BY <1>5, <1>w DEF ListPacketRead
  <2>3. Opens(t, p.type)
    <3>1. t \in Seq(Nat)
      BY <1>2 DEF Row, IsEntry, IsRow
    <3>2. t[4] = MagicNumber
      BY <1>t DEF IdRow
    <3> QED BY <1>6, <3>1, <3>2, RowOpens
  <2>4. p.targets # Null
    BY DEF NullIsApart, NullIsNoList
  <2>5. To64(t) = p.id
    <3>1. t[2] = p.id \div WordSize /\ t[3] = p.id % WordSize
      BY <1>t DEF IdRow
    <3> QED BY <3>1, IdHalves DEF To64
  <2>r. PICK f, targets : f = t /\ targets = p.targets
    OBVIOUS
  <2>7. ParseRetPing(p.type, buf) =
          [type |-> p.type, id |-> To64(f), targets |-> targets]
    BY <2>2, <2>3, <2>4, <2>r, Zenon DEF ParseRetPing
  <2>8. Received(p, from) = p
    BY <1>0, ReceivedIs
  <2>9. ParseRetPing(p.type, buf) = p
    BY <2>5, <2>7, <2>r
  <2> QED BY <2>1, <2>8, <2>9
<1>8. ASSUME NEW k \in 0 .. Len(buf) - 1 PROVE Parses(from, SubSeq(buf, 1, k)) \in CutShort(p)
  <2>c. PICK cut, type : cut = SubSeq(buf, 1, k) /\ type = Retrieve(cut, 0, 1)
    OBVIOUS
  <2>1. type \in {Null, p.type} /\ RetrieveList(cut, 13, <<4, 2, 4>>) = Null
    BY <1>5, <1>6, <1>w, <2>c DEF ListPacketRead
  <2>2. type = p.type => Parses(from, cut) = ParseRetPing(p.type, cut)
    BY <1>0, <2>c, ParsesIs
  <2>3. ParseRetPing(p.type, cut) = Null
    BY <2>1, Zenon DEF ParseRetPing
  <2>4. type = Null => Parses(from, cut) = Null
    BY <2>c, ParsesIs
  <2>5. Parses(from, cut) = Null
    BY <2>1, <2>2, <2>3, <2>4
  <2>6. Null \in CutShort(p)
    BY ReceivedIs
  <2> QED BY <2>5, <2>6, <2>c
<1> QED BY <1>6, <1>7, <1>8

\* Gossip.
LEMMA GossipReads ==
  ASSUME NullIsApart, NEW Bytes, AreBytes(Bytes), NEW from,
         NEW p \in [type : GossipTypes, id : Nat, rendv : Nat \X Nat,
               targets : Seq(Nat \X Nat \X Nat \X Nat)]
  PROVE  IsReadBack(Bytes, p, from)
<1> SUFFICES ASSUME NEW buf, buf = Creates(p), buf # Null
             PROVE  /\ buf \in Seq(Bytes) /\ Parses(from, buf) = Received(p, from)
                    /\ \A k \in 0 .. Len(buf) - 1 : Parses(from, SubSeq(buf, 1, k)) \in CutShort(p)
  BY DEF IsReadBack
<1>t. PICK front, t, entries, widths, each :
        /\ front = WriteId(p.type, p.id) \o WriteIdent(p.rendv) /\ t = AddressRow(p.type, p.id, p.rendv)
        /\ entries = IdentRendvs(p.targets) /\ widths = <<1, 4, 4, 4, 4, 2>> /\ each = <<4, 2, 4, 2>>
  OBVIOUS
<1>0. p.type \in Nat /\ p.type \in GossipTypes
  BY DEF GossipTypes
<1>1. buf = front \o WriteList(entries)
  <2>1. Creates(p) = CreateGossip(p)
    BY <1>0, CreatesIs
  <2> QED BY <1>t, <2>1 DEF CreateGossip, Complete
<1>2. Row(Bytes, front, t, widths, 19)
  BY <1>0, <1>t, AddressRowWritten DEF IsAddress
<1>3. Entries(Bytes, entries, p.targets, each)
  BY <1>t, IdentRendvsAreEntries
<1>4. widths \in Seq(Nat \ {0}) /\ each \in Seq(Nat \ {0}) /\ Len(widths) >= 1 /\ widths[1] = 1
  BY <1>t, WidthsPositive
<1>5. ListPacketRead(Bytes, buf, t, widths, 19, p.targets, each)
  <2>1. ListPacket(Bytes, buf, front, t, widths, 19, entries, p.targets, each)
    BY <1>1, <1>2, <1>3, <1>4 DEF ListPacket
  <2> QED BY <2>1, ListPacketIsRead
<1>6. buf \in Seq(Bytes) /\ t[1] = p.type
  BY <1>5, <1>t DEF ListPacketRead, AddressRow
<1>w. widths = HeaderWidths \o IdentWidths /\ each = IdentWidths \o IdentWidths
  BY <1>t, WidthsWritten
<1>7. Parses(from, buf) = Received(p, from)
  <2>1. Parses(from, buf) = ParseGossip(p.type, buf)
    BY <1>0, <1>5, <1>6, ParsesIs DEF ListPacketRead
  <2>2. /\ RetrieveAll(buf, 0, HeaderWidths \o IdentWidths) = t
        /\ RetrieveList(buf, 19, IdentWidths \o IdentWidths) = p.targets
    BY <1>5, <1>w DEF ListPacketRead
  <2>3. Opens(t, p.type)
    <3>1. t \in Seq(Nat)
      BY <1>2 DEF Row, IsEntry, IsRow
    <3>2. t[4] = MagicNumber
      BY <1>t DEF AddressRow
    <3> QED BY <1>6, <3>1, <3>2, RowOpens
  <2>4. p.targets # Null
    BY DEF NullIsApart, NullIsNoList
  <2>5. To64(t) = p.id
    <3>1. t[2] = p.id \div WordSize /\ t[3] = p.id % WordSize
      BY <1>t DEF AddressRow
    <3> QED BY <3>1, IdHalves DEF To64
  <2>6. <<t[5], t[6]>> = p.rendv
    BY <1>t DEF AddressRow
  <2>r. PICK f, targets : f = t /\ targets = p.targets
    OBVIOUS
  <2>7. ParseGossip(p.type, buf) =
          [type |-> p.type, id |-> To64(f), rendv |-> <<f[5], f[6]>>, targets |-> targets]
    BY <2>2, <2>3, <2>4, <2>r, Zenon DEF ParseGossip
  <2>8. Received(p, from) = p
    BY <1>0, ReceivedIs
  <2>9. ParseGossip(p.type, buf) = p
    BY <2>5, <2>6, <2>7, <2>r
  <2> QED BY <2>1, <2>8, <2>9
<1>8. ASSUME NEW k \in 0 .. Len(buf) - 1 PROVE Parses(from, SubSeq(buf, 1, k)) \in CutShort(p)
  <2>c. PICK cut, type : cut = SubSeq(buf, 1, k) /\ type = Retrieve(cut, 0, 1)
    OBVIOUS
  <2>1. type \in {Null, p.type} /\ RetrieveList(cut, 19, IdentWidths \o IdentWidths) = Null
    BY <1>5, <1>6, <1>w, <2>c DEF ListPacketRead
  <2>2. type = p.type => Parses(from, cut) = ParseGossip(p.type, cut)
    BY <1>0, <2>c, ParsesIs
  <2>3. ParseGossip(p.type, cut) = Null
    BY <2>1, Zenon DEF ParseGossip
  <2>4. type = Null => Parses(from, cut) = Null
    BY <2>c, ParsesIs
  <2>5. Parses(from, cut) = Null
    BY <2>1, <2>2, <2>3, <2>4
  <2>6. Null \in CutShort(p)
    BY ReceivedIs
  <2> QED BY <2>5, <2>6, <2>c
<1> QED BY <1>6, <1>7, <1>8

\* The members of a node's rings.
LEMMA InfoReads ==
  ASSUME NullIsApart, NEW Bytes, AreBytes(Bytes), NEW from,
         NEW p \in [type : {INFO_PACKET}, id : Nat, targets : Seq(Nat \X Nat \X Nat \X Nat)]
  PROVE  IsReadBack(Bytes, p, from)
<1> SUFFICES ASSUME NEW buf, buf = Creates(p), buf # Null
             PROVE  /\ buf \in Seq(Bytes) /\ Parses(from, buf) = Received(p, from)
                    /\ \A k \in 0 .. Len(buf) - 1 : Parses(from, SubSeq(buf, 1, k)) \in CutShort(p)
  BY DEF IsReadBack
<1>t. PICK front, t, entries, widths, each :
        /\ front = WriteId(p.type, p.id) /\ t = IdRow(p.type, p.id)
        /\ entries = [i \in DOMAIN p.targets |-> WriteMember(p.targets[i])] /\ widths = <<1, 4, 4,
             4>> /\ each = <<4, 4, 2, 4>>
  OBVIOUS
<1>0. p.type \in Nat /\ p.type \in {INFO_PACKET}
  BY DEF INFO_PACKET
<1>1. buf = front \o WriteList(entries)
  <2>1. Creates(p) = CreateInfo(p)
    BY <1>0, CreatesIs
  <2> QED BY <1>t, <2>1 DEF CreateInfo, Complete, WriteMember
<1>2. Row(Bytes, front, t, widths, 13)
  BY <1>0, <1>t, IdRowWritten DEF IsAddress
<1>3. Entries(Bytes, entries, p.targets, each)
  BY <1>t, MembersAreEntries
<1>4. widths \in Seq(Nat \ {0}) /\ each \in Seq(Nat \ {0}) /\ Len(widths) >= 1 /\ widths[1] = 1
  BY <1>t, WidthsPositive
<1>5. ListPacketRead(Bytes, buf, t, widths, 13, p.targets, each)
  <2>1. ListPacket(Bytes, buf, front, t, widths, 13, entries, p.targets, each)
    BY <1>1, <1>2, <1>3, <1>4 DEF ListPacket
  <2> QED BY <2>1, ListPacketIsRead
<1>6. buf \in Seq(Bytes) /\ t[1] = p.type
  BY <1>5, <1>t DEF ListPacketRead, IdRow
<1>w. widths = HeaderWidths /\ each = <<4, 4, 2, 4>>
  BY <1>t, WidthsWritten
<1>7. Parses(from, buf) = Received(p, from)
  <2>1. Parses(from, buf) = ParseInfo(p.type, buf)
    BY <1>0, <1>5, <1>6, ParsesIs DEF ListPacketRead
  <2>2. /\ RetrieveAll(buf, 0, HeaderWidths) = t
        /\ RetrieveList(buf, 13, <<4, 4, 2, 4>>) = p.targets
    BY <1>5, <1>w DEF ListPacketRead
  <2>3. Opens(t, p.type)
    <3>1. t \in Seq(Nat)
      BY <1>2 DEF Row, IsEntry, IsRow
    <3>2. t[4] = MagicNumber
      BY <1>t DEF IdRow
    <3> QED BY <1>6, <3>1, <3>2, RowOpens
  <2>4. p.targets # Null
    BY DEF NullIsApart, NullIsNoList
  <2>5. To64(t) = p.id
    <3>1. t[2] = p.id \div WordSize /\ t[3] = p.id % WordSize
      BY <1>t DEF IdRow
    <3> QED BY <3>1, IdHalves DEF To64
  <2>r. PICK f, targets : f = t /\ targets = p.targets
    OBVIOUS
  <2>7. ParseInfo(p.type, buf) =
          [type |-> p.type, id |-> To64(f), targets |-> targets]
    BY <2>2, <2>3, <2>4, <2>r, Zenon DEF ParseInfo
  <2>8. Received(p, from) = p
    BY <1>0, ReceivedIs
  <2>9. ParseInfo(p.type, buf) = p
    BY <2>5, <2>7, <2>r
  <2> QED BY <2>1, <2>8, <2>9
<1>8. ASSUME NEW k \in 0 .. Len(buf) - 1 PROVE Parses(from, SubSeq(buf, 1, k)) \in CutShort(p)
  <2>c. PICK cut, type : cut = SubSeq(buf, 1, k) /\ type = Retrieve(cut, 0, 1)
    OBVIOUS
  <2>1. type \in {Null, p.type} /\ RetrieveList(cut, 13, <<4, 4, 2, 4>>) = Null
    BY <1>5, <1>6, <1>w, <2>c DEF ListPacketRead
  <2>2. type = p.type => Parses(from, cut) = ParseInfo(p.type, cut)
    BY <1>0, <2>c, ParsesIs
  <2>3. ParseInfo(p.type, cut) = Null
    BY <2>1, Zenon DEF ParseInfo
  <2>4. type = Null => Parses(from, cut) = Null
    BY <2>c, ParsesIs
  <2>5. Parses(from, cut) = Null
    BY <2>1, <2>2, <2>3, <2>4
  <2>6. Null \in CutShort(p)
    BY ReceivedIs
  <2> QED BY <2>5, <2>6, <2>c
<1> QED BY <1>6, <1>7, <1>8

\* PING and its like.
LEMMA PlainReads ==
  ASSUME NullIsApart, NEW Bytes, AreBytes(Bytes), NEW from,
         NEW p \in [type : PlainTypes, id : Nat]
  PROVE  IsReadBack(Bytes, p, from)
<1> SUFFICES ASSUME NEW buf, buf = Creates(p), buf # Null
             PROVE  /\ buf \in Seq(Bytes) /\ Parses(from, buf) = Received(p, from)
                    /\ \A k \in 0 .. Len(buf) - 1 : Parses(from, SubSeq(buf, 1, k)) \in CutShort(p)
  BY DEF IsReadBack
<1>t. PICK t, widths : t = IdRow(p.type, p.id) /\ widths = <<1, 4, 4, 4>>
  OBVIOUS
<1>0. p.type \in Nat /\ p.type \in PlainTypes
  BY DEF PlainTypes
<1>1. buf = WriteId(p.type, p.id)
  <2>1. Creates(p) = CreatePlain(p)
    BY <1>0, CreatesIs
  <2> QED BY <2>1 DEF CreatePlain, Complete
<1>2. Row(Bytes, buf, t, widths, 13)
  BY <1>0, <1>1, <1>t, IdRowWritten DEF IsAddress
<1>3. buf \in Seq(Bytes) /\ Len(buf) = 13 /\ t \in Seq(Nat)
  BY <1>2 DEF Row, IsEntry, IsRow
<1>4. widths \in Seq(Nat \ {0}) /\ Len(widths) = 4 /\ widths[1] = 1 /\ widths = HeaderWidths
  BY <1>t, WidthsPositive, WidthsWritten
<1>5. FrontRead(buf, t, widths, 13)
  <2>1. Kept(buf, buf)
    BY DEF Kept
  <2>2. Fronted(Bytes, buf, buf, t, widths, 13)
    BY <1>2, <1>3, <1>4, <2>1 DEF Fronted
  <2> QED BY <2>2, FrontIsRead
<1>6. t[1] = p.type /\ t[4] = MagicNumber
  BY <1>t DEF IdRow
<1>7. Parses(from, buf) = Received(p, from)
  <2>1. Parses(from, buf) = ParsePlain(p.type, buf)
    BY <1>0, <1>5, <1>6, ParsesIs DEF FrontRead
  <2>2. RetrieveAll(buf, 0, HeaderWidths) = t
    BY <1>4, <1>5 DEF FrontRead
  <2>3. Opens(t, p.type)
    BY <1>3, <1>6, RowOpens
  <2>4. To64(t) = p.id
    <3>1. t[2] = p.id \div WordSize /\ t[3] = p.id % WordSize
      BY <1>t DEF IdRow
    <3> QED BY <3>1, IdHalves DEF To64
  <2>a. PICK f : f = t
    OBVIOUS
  <2>5. ParsePlain(p.type, buf) = [type |-> p.type, id |-> To64(f)]
    BY <2>2, <2>3, <2>a, Zenon DEF ParsePlain
  <2>6. Received(p, from) = p
    BY <1>0, ReceivedIs
  <2>7. [type |-> p.type, id |-> To64(f)] = p
    BY <2>4, <2>a
  <2> QED BY <2>1, <2>5, <2>6, <2>7
<1>8. ASSUME NEW k \in 0 .. Len(buf) - 1 PROVE Parses(from, SubSeq(buf, 1, k)) \in CutShort(p)
  <2>c. PICK cut, type : cut = SubSeq(buf, 1, k) /\ type = Retrieve(cut, 0, 1)
    OBVIOUS
  <2>0. k < 13
    BY <1>3
  <2>1. type \in {Null, p.type} /\ RetrieveAll(cut, 0, widths)[4] = Null
    BY <1>4, <1>5, <1>6, <2>0, <2>c DEF FrontRead
  <2>2. type = p.type => Parses(from, cut) = ParsePlain(p.type, cut)
    BY <1>0, <2>c, ParsesIs
  <2>3. ParsePlain(p.type, cut) = Null
    <3>1. ~Opens(RetrieveAll(cut, 0, HeaderWidths), p.type)
      <4>1. ~Opens(RetrieveAll(cut, 0, widths), p.type)
        <5> PICK n : n = 4
          OBVIOUS
        <5>1. n \in Nat \ {0} /\ n = Len(widths) /\ RetrieveAll(cut, 0, widths)[n] = Null
          BY <1>4, <2>1
        <5> QED BY <5>1, MissingField
      <4> QED BY <1>4, <4>1, Zenon
    <3> QED BY <3>1, Zenon DEF ParsePlain
  <2>4. type = Null => Parses(from, cut) = Null
    BY <2>c, ParsesIs
  <2>5. Parses(from, cut) = Null
    BY <2>1, <2>2, <2>3, <2>4
  <2>6. Null \in CutShort(p)
    BY ReceivedIs
  <2> QED BY <2>5, <2>6, <2>c
<1> QED BY <1>3, <1>7, <1>8

\* The answer that names a node.
LEMMA RetInfoReads ==
  ASSUME NullIsApart, NEW Bytes, AreBytes(Bytes), NEW from,
         NEW p \in [type : {RET_INFO}, id : Nat, node : Nat \X Nat]
  PROVE  IsReadBack(Bytes, p, from)
<1> SUFFICES ASSUME NEW buf, buf = Creates(p), buf # Null
             PROVE  /\ buf \in Seq(Bytes) /\ Parses(from, buf) = Received(p, from)
                    /\ \A k \in 0 .. Len(buf) - 1 : Parses(from, SubSeq(buf, 1, k)) \in CutShort(p)
  BY DEF IsReadBack
<1>t. PICK t, widths : t = AddressRow(p.type, p.id, p.node) /\ widths = <<1, 4, 4, 4, 4, 2>>
  OBVIOUS
<1>0. p.type \in Nat /\ p.type \in {RET_INFO}
  BY DEF RET_INFO
<1>1. buf = WriteId(p.type, p.id) \o WriteIdent(p.node)
  <2>1. Creates(p) = CreateRetInfo(p)
    BY <1>0, CreatesIs
  <2> QED BY <2>1 DEF CreateRetInfo, Complete
<1>2. Row(Bytes, buf, t, widths, 19)
  BY <1>0, <1>1, <1>t, AddressRowWritten DEF IsAddress
<1>3. buf \in Seq(Bytes) /\ Len(buf) = 19 /\ t \in Seq(Nat)
  BY <1>2 DEF Row, IsEntry, IsRow
<1>4. widths \in Seq(Nat \ {0}) /\ Len(widths) = 6 /\ widths[1] = 1 /\ widths = HeaderWidths \o IdentWidths
  BY <1>t, WidthsPositive, WidthsWritten
<1>5. FrontRead(buf, t, widths, 19)
  <2>1. Kept(buf, buf)
    BY DEF Kept
  <2>2. Fronted(Bytes, buf, buf, t, widths, 19)
    BY <1>2, <1>3, <1>4, <2>1 DEF Fronted
  <2> QED BY <2>2, FrontIsRead
<1>6. t[1] = p.type /\ t[4] = MagicNumber
  BY <1>t DEF AddressRow
<1>7. Parses(from, buf) = Received(p, from)
  <2>1. Parses(from, buf) = ParseRetInfo(p.type, from, buf)
    BY <1>0, <1>5, <1>6, ParsesIs DEF FrontRead
  <2>2. RetrieveAll(buf, 0, HeaderWidths \o IdentWidths) = t
    BY <1>4, <1>5 DEF FrontRead
  <2>3. Opens(t, p.type)
    BY <1>3, <1>6, RowOpens
  <2>4. To64(t) = p.id
    <3>1. t[2] = p.id \div WordSize /\ t[3] = p.id % WordSize
      BY <1>t DEF AddressRow
    <3> QED BY <3>1, IdHalves DEF To64
  <2>5. <<t[5], t[6]>> = p.node
    BY <1>t DEF AddressRow
  <2>a. PICK f, a : f = t /\ a = Address(p.node, from)
    OBVIOUS
  <2>6. ParseRetInfo(p.type, from, buf) =
          [type |-> p.type, id |-> To64(f), node |-> Address(<<f[5], f[6]>>, from)]
    BY <2>2, <2>3, <2>a, Zenon DEF ParseRetInfo
  <2>7. Address(<<f[5], f[6]>>, from) = a
    BY <2>5, <2>a
  <2>8. ParseRetInfo(p.type, from, buf) = [type |-> p.type, id |-> p.id, node |-> a]
    BY <2>4, <2>6, <2>7, <2>a
  <2>9. Received(p, from) = [p EXCEPT !.node = a]
    <3>1. Received(p, from) = [p EXCEPT !.node = Address(@, from)]
      BY <1>0, ReceivedIs
    <3> QED BY <3>1, <2>a, Zenon
  <2>10. [type |-> p.type, id |-> p.id, node |-> a] = [p EXCEPT !.node = a]
    OBVIOUS
  <2> QED BY <2>1, <2>8, <2>9, <2>10, Zenon
<1>8. ASSUME NEW k \in 0 .. Len(buf) - 1 PROVE Parses(from, SubSeq(buf, 1, k)) \in CutShort(p)
  <2>c. PICK cut, type : cut = SubSeq(buf, 1, k) /\ type = Retrieve(cut, 0, 1)
    OBVIOUS
  <2>0. k < 19
    BY <1>3
  <2>1. type \in {Null, p.type} /\ RetrieveAll(cut, 0, widths)[6] = Null
    BY <1>4, <1>5, <1>6, <2>0, <2>c DEF FrontRead
  <2>2. type = p.type => Parses(from, cut) = ParseRetInfo(p.type, from, cut)
    BY <1>0, <2>c, ParsesIs
  <2>3. ParseRetInfo(p.type, from, cut) = Null
    <3>1. ~Opens(RetrieveAll(cut, 0, HeaderWidths \o IdentWidths), p.type)
      <4>1. ~Opens(RetrieveAll(cut, 0, widths), p.type)
        <5> PICK n : n = 6
          OBVIOUS
        <5>1. n \in Nat \ {0} /\ n = Len(widths) /\ RetrieveAll(cut, 0, widths)[n] = Null
          BY <1>4, <2>1
        <5> QED BY <5>1, MissingField
      <4> QED BY <1>4, <4>1, Zenon
    <3> QED BY <3>1, Zenon DEF ParseRetInfo
  <2>4. type = Null => Parses(from, cut) = Null
    BY <2>c, ParsesIs
  <2>5. Parses(from, cut) = Null
    BY <2>1, <2>2, <2>3, <2>4
  <2>6. Null \in CutShort(p)
    BY ReceivedIs
  <2> QED BY <2>5, <2>6, <2>c
<1> QED BY <1>3, <1>7, <1>8

----------------------------------------------------------------------------
(* The values of programs *)

\* The parts of a value are of less depth than the value, as those of an ASTNode are.
Deeper(depth, n) ==
  /\ depth \in [Values -> 0 .. n]
  /\ \A v \in Values : \A i \in DOMAIN Parts(v) :
       Parts(v)[i] \in Values /\ depth[Parts(v)[i]] < depth[v]
ValuesAreFinite == \E n \in Nat : \E depth : Deeper(depth, n)

\* What Sendable, Marshal and AsRead make of a value when they are f for its parts.
SendableOf(f, v) == v.type \in BaseTypes /\ \A i \in DOMAIN Parts(v) : f[Parts(v)[i]]
AsReadOf(f, v) == IF \E i \in DOMAIN Parts(v) : f[Parts(v)[i]] = Empty THEN Empty ELSE v

Shallow(depth, k) == {v \in Values : depth[v] < k}
\* f and g are the same for the parts of v.
SamePartly(f, g, v) == \A i \in DOMAIN Parts(v) : f[Parts(v)[i]] = g[Parts(v)[i]]

\* What is made of a value depends on what was made of its parts.
LEMMA SamePartlySame ==
  ASSUME NEW f, NEW g, NEW v, SamePartly(f, g, v)
  PROVE  /\ SendableOf(f, v) = SendableOf(g, v) /\ AsReadOf(f, v) = AsReadOf(g, v)
         /\ WriteValue(f, v) = WriteValue(g, v)
<1>1. \A i \in DOMAIN Parts(v) : f[Parts(v)[i]] = g[Parts(v)[i]]
  BY DEF SamePartly
<1>2. SendableOf(f, v) = SendableOf(g, v)
  BY <1>1 DEF SendableOf
<1>3. AsReadOf(f, v) = AsReadOf(g, v)
  BY <1>1 DEF AsReadOf
<1>4. WriteValue(f, v) = WriteValue(g, v)
  <2>1. CASE v.type \in {ARRAY_TYPE, SEP_TYPE}
    <3>1. Parts(v) = v.list
      BY <2>1 DEF Parts, ARRAY_TYPE, SEP_TYPE, VAR_ADT_TYPE
    <3>2. [i \in DOMAIN v.list |-> f[v.list[i]]] = [i \in DOMAIN v.list |-> g[v.list[i]]]
      BY <1>1, <3>1
    <3>p. PICK x, y : x = [i \in DOMAIN v.list |-> f[v.list[i]]] /\ y = [i \in DOMAIN v.list |-> g[v.list[i]]]
      OBVIOUS
    <3>3. x = y
      BY <3>2, <3>p
    <3> QED BY <2>1, <3>3, <3>p DEF WriteValue, ARRAY_TYPE, SEP_TYPE, EMPTY_TYPE, INT_TYPE, DOUBLE_TYPE,
         STRING_TYPE, VAR_ADT_TYPE
  <2>2. CASE v.type = VAR_ADT_TYPE
    <3>1. Parts(v) = [i \in DOMAIN v.fields |-> v.fields[i][2]]
      BY <2>2 DEF Parts, VAR_ADT_TYPE, ARRAY_TYPE, SEP_TYPE
    <3>2. \A i \in DOMAIN v.fields : f[v.fields[i][2]] = g[v.fields[i][2]]
      BY <1>1, <3>1
    <3>p. PICK x, y : /\ x = [i \in DOMAIN v.fields |-> WriteStr(v.fields[i][1]) \o f[v.fields[i][2]]]
                      /\ y = [i \in DOMAIN v.fields |-> WriteStr(v.fields[i][1]) \o g[v.fields[i][2]]]
      OBVIOUS
    <3>3. x = y
      BY <3>2, <3>p
    <3> QED BY <2>2, <3>3, <3>p DEF WriteValue, ARRAY_TYPE, SEP_TYPE, EMPTY_TYPE, INT_TYPE, DOUBLE_TYPE,
         STRING_TYPE, VAR_ADT_TYPE
  <2>3. CASE v.type \notin {ARRAY_TYPE, SEP_TYPE, VAR_ADT_TYPE}
    BY <2>3 DEF WriteValue
  <2> QED BY <2>1, <2>2, <2>3
<1> QED BY <1>2, <1>3, <1>4

\* The recursion of Sendable has a solution.
LEMMA SendableExists ==
  ASSUME NEW n \in Nat, NEW depth, Deeper(depth, n)
  PROVE  \E f : f = [v \in Values |-> SendableOf(f, v)]
<1> DEFINE Done(k) == \E f : \A v \in Values : depth[v] < k => f[v] = SendableOf(f, v)
           T == {k \in 0 .. n + 1 : ~Done(k)}
<1>0. /\ \A v \in Values : depth[v] \in 0 .. n
      /\ \A v \in Values : \A i \in DOMAIN Parts(v) : Parts(v)[i] \in Values /\ depth[Parts(v)[i]] < depth[v]
  BY DEF Deeper
<1>1. Done(0)
  BY <1>0
<1>2. ASSUME NEW k \in Nat, NEW f, \A v \in Values : depth[v] < k => f[v] = SendableOf(f, v),
             NEW g, g = [v \in Values |-> SendableOf(f, v)]
      PROVE  \A v \in Values : depth[v] < k + 1 => g[v] = SendableOf(g, v)
  <2> SUFFICES ASSUME NEW v \in Values, depth[v] < k + 1 PROVE g[v] = SendableOf(g, v)
    OBVIOUS
  <2>1. ASSUME NEW i \in DOMAIN Parts(v) PROVE g[Parts(v)[i]] = f[Parts(v)[i]]
    <3>p. PICK p : p = Parts(v)[i]
      OBVIOUS
    <3>1. p \in Values /\ depth[p] < depth[v]
      BY <1>0, <3>p
    <3>2. depth[p] \in 0 .. n /\ depth[v] \in 0 .. n
      BY <1>0, <3>1
    <3>3. depth[p] < k
      BY <3>1, <3>2
    <3>4. f[p] = SendableOf(f, p)
      BY <1>2, <3>1, <3>3
    <3>5. g[p] = SendableOf(f, p)
      BY <1>2, <3>1
    <3> QED BY <3>4, <3>5, <3>p
  <2>2. SamePartly(g, f, v)
    BY <2>1 DEF SamePartly
  <2>3. SendableOf(g, v) = SendableOf(f, v)
    BY <2>2, SamePartlySame
  <2>4. g[v] = SendableOf(f, v)
    BY <1>2
  <2> QED BY <2>3, <2>4
<1>3. ASSUME NEW k \in Nat, Done(k) PROVE Done(k + 1)
  <2>1. PICK f : \A v \in Values : depth[v] < k => f[v] = SendableOf(f, v)
    BY <1>3
  <2>2. PICK g : g = [v \in Values |-> SendableOf(f, v)]
    OBVIOUS
  <2>3. \A v \in Values : depth[v] < k + 1 => g[v] = SendableOf(g, v)
    BY <1>2, <2>1, <2>2
  <2> QED BY <2>3
<1>4. Done(n + 1)
  <2> HIDE DEF Done
  <2> SUFFICES ASSUME T # {} PROVE FALSE
    OBVIOUS
  <2>1. T \subseteq Nat
    OBVIOUS
  <2>2. PICK x \in T : \A y \in T : x <= y
    BY <2>1, SmallestExists
  <2>3. x \in 0 .. n + 1 /\ ~Done(x)
    BY <2>2
  <2>4. x # 0
    BY <1>1, <2>3
  <2>5. x - 1 \in Nat /\ x - 1 \in 0 .. n + 1 /\ x - 1 \notin T /\ (x - 1) + 1 = x
    BY <2>2, <2>3, <2>4
  <2>6. Done((x - 1) + 1)
    BY <1>3, <2>5
  <2> QED BY <2>3, <2>5, <2>6
<1>5. PICK f : \A v \in Values : depth[v] < n + 1 => f[v] = SendableOf(f, v)
  BY <1>4
<1>6. PICK g : g = [v \in Values |-> SendableOf(f, v)]
  OBVIOUS
<1>7. \A v \in Values : g[v] = SendableOf(g, v)
  <2>1. \A v \in Values : depth[v] < n + 1 + 1 => g[v] = SendableOf(g, v)
    <3>1. n + 1 \in Nat
      OBVIOUS
    <3> QED BY <1>2, <1>5, <1>6, <3>1
  <2>2. \A v \in Values : depth[v] < n + 1 + 1
    BY <1>0
  <2> QED BY <2>1, <2>2
<1>8. g = [v \in Values |-> g[v]]
  BY <1>6
<1>9. g = [v \in Values |-> SendableOf(g, v)]
  BY <1>7, <1>8
<1> QED BY <1>9

\* Sendable is the recursion it is defined by.
LEMMA SendableFacts ==
  ASSUME ValuesAreFinite
  PROVE  \A v \in Values : Sendable[v] = SendableOf(Sendable, v)
<1> DEFINE Is(f) == f = [v \in Values |-> SendableOf(f, v)]
           sum == CHOOSE f : Is(f)
<1>1. \E f : Is(f)
  BY SendableExists DEF ValuesAreFinite
<1>2. Is(sum)
  BY <1>1, Zenon
<1>3. Sendable = sum
  BY Zenon DEF Sendable, SendableOf
<1> HIDE DEF sum
<1>4. Sendable = [v \in Values |-> SendableOf(Sendable, v)]
  BY <1>2, <1>3, Zenon
<1> QED BY <1>4, Zenon

\* The recursion of Marshal has a solution.
LEMMA MarshalExists ==
  ASSUME NEW n \in Nat, NEW depth, Deeper(depth, n)
  PROVE  \E f : f = [v \in Values |-> WriteValue(f, v)]
<1> DEFINE Done(k) == \E f : \A v \in Values : depth[v] < k => f[v] = WriteValue(f, v)
           T == {k \in 0 .. n + 1 : ~Done(k)}
<1>0. /\ \A v \in Values : depth[v] \in 0 .. n
      /\ \A v \in Values : \A i \in DOMAIN Parts(v) : Parts(v)[i] \in Values /\ depth[Parts(v)[i]] < depth[v]
  BY DEF Deeper
<1>1. Done(0)
  BY <1>0
<1>2. ASSUME NEW k \in Nat, NEW f, \A v \in Values : depth[v] < k => f[v] = WriteValue(f, v),
             NEW g, g = [v \in Values |-> WriteValue(f, v)]
      PROVE  \A v \in Values : depth[v] < k + 1 => g[v] = WriteValue(g, v)
  <2> SUFFICES ASSUME NEW v \in Values, depth[v] < k + 1 PROVE g[v] = WriteValue(g, v)
    OBVIOUS
  <2>1. ASSUME NEW i \in DOMAIN Parts(v) PROVE g[Parts(v)[i]] = f[Parts(v)[i]]
    <3>p. PICK p : p = Parts(v)[i]
      OBVIOUS
    <3>1. p \in Values /\ depth[p] < depth[v]
      BY <1>0, <3>p
    <3>2. depth[p] \in 0 .. n /\ depth[v] \in 0 .. n
      BY <1>0, <3>1
    <3>3. depth[p] < k
      BY <3>1, <3>2
    <3>4. f[p] = WriteValue(f, p)
      BY <1>2, <3>1, <3>3
    <3>5. g[p] = WriteValue(f, p)
      BY <1>2, <3>1
    <3> QED BY <3>4, <3>5, <3>p
  <2>2. SamePartly(g, f, v)
    BY <2>1 DEF SamePartly
  <2>3. WriteValue(g, v) = WriteValue(f, v)
    BY <2>2, SamePartlySame
  <2>4. g[v] = WriteValue(f, v)
    BY <1>2
  <2> QED BY <2>3, <2>4
<1>3. ASSUME NEW k \in Nat, Done(k) PROVE Done(k + 1)
  <2>1. PICK f : \A v \in Values : depth[v] < k => f[v] = WriteValue(f, v)
    BY <1>3
  <2>2. PICK g : g = [v \in Values |-> WriteValue(f, v)]
    OBVIOUS
  <2>3. \A v \in Values : depth[v] < k + 1 => g[v] = WriteValue(g, v)
    BY <1>2, <2>1, <2>2
  <2> QED BY <2>3
<1>4. Done(n + 1)
  <2> HIDE DEF Done
  <2> SUFFICES ASSUME T # {} PROVE FALSE
    OBVIOUS
  <2>1. T \subseteq Nat
    OBVIOUS
  <2>2. PICK x \in T : \A y \in T : x <= y
    BY <2>1, SmallestExists
  <2>3. x \in 0 .. n + 1 /\ ~Done(x)
    BY <2>2
  <2>4. x # 0
    BY <1>1, <2>3
  <2>5. x - 1 \in Nat /\ x - 1 \in 0 .. n + 1 /\ x - 1 \notin T /\ (x - 1) + 1 = x
    BY <2>2, <2>3, <2>4
  <2>6. Done((x - 1) + 1)
    BY <1>3, <2>5
  <2> QED BY <2>3, <2>5, <2>6
<1>5. PICK f : \A v \in Values : depth[v] < n + 1 => f[v] = WriteValue(f, v)
  BY <1>4
<1>6. PICK g : g = [v \in Values |-> WriteValue(f, v)]
  OBVIOUS
<1>7. \A v \in Values : g[v] = WriteValue(g, v)
  <2>1. \A v \in Values : depth[v] < n + 1 + 1 => g[v] = WriteValue(g, v)
    <3>1. n + 1 \in Nat
      OBVIOUS
    <3> QED BY <1>2, <1>5, <1>6, <3>1
  <2>2. \A v \in Values : depth[v] < n + 1 + 1
    BY <1>0
  <2> QED BY <2>1, <2>2
<1>8. g = [v \in Values |-> g[v]]
  BY <1>6
<1>9. g = [v \in Values |-> WriteValue(g, v)]
  BY <1>7, <1>8
<1> QED BY <1>9

\* Marshal is the recursion it is defined by (marshal_ast).
LEMMA MarshalFacts ==
  ASSUME ValuesAreFinite
  PROVE  \A v \in Values : Marshal[v] = WriteValue(Marshal, v)
<1> DEFINE Is(f) == f = [v \in Values |-> WriteValue(f, v)]
           sum == CHOOSE f : Is(f)
<1>1. \E f : Is(f)
  BY MarshalExists DEF ValuesAreFinite
<1>2. Is(sum)
  BY <1>1, Zenon
<1>3. Marshal = sum
  BY Zenon DEF Marshal
<1> HIDE DEF sum
<1>4. Marshal = [v \in Values |-> WriteValue(Marshal, v)]
  BY <1>2, <1>3, Zenon
<1> QED BY <1>4, Zenon

\* The recursion of AsRead has a solution.
LEMMA AsReadExists ==
  ASSUME NEW n \in Nat, NEW depth, Deeper(depth, n)
  PROVE  \E f : f = [v \in Values |-> AsReadOf(f, v)]
<1> DEFINE Done(k) == \E f : \A v \in Values : depth[v] < k => f[v] = AsReadOf(f, v)
           T == {k \in 0 .. n + 1 : ~Done(k)}
<1>0. /\ \A v \in Values : depth[v] \in 0 .. n
      /\ \A v \in Values : \A i \in DOMAIN Parts(v) : Parts(v)[i] \in Values /\ depth[Parts(v)[i]] < depth[v]
  BY DEF Deeper
<1>1. Done(0)
  BY <1>0
<1>2. ASSUME NEW k \in Nat, NEW f, \A v \in Values : depth[v] < k => f[v] = AsReadOf(f, v),
             NEW g, g = [v \in Values |-> AsReadOf(f, v)]
      PROVE  \A v \in Values : depth[v] < k + 1 => g[v] = AsReadOf(g, v)
  <2> SUFFICES ASSUME NEW v \in Values, depth[v] < k + 1 PROVE g[v] = AsReadOf(g, v)
    OBVIOUS
  <2>1. ASSUME NEW i \in DOMAIN Parts(v) PROVE g[Parts(v)[i]] = f[Parts(v)[i]]
    <3>p. PICK p : p = Parts(v)[i]
      OBVIOUS
    <3>1. p \in Values /\ depth[p] < depth[v]
      BY <1>0, <3>p
    <3>2. depth[p] \in 0 .. n /\ depth[v] \in 0 .. n
      BY <1>0, <3>1
    <3>3. depth[p] < k
      BY <3>1, <3>2
    <3>4. f[p] = AsReadOf(f, p)
      BY <1>2, <3>1, <3>3
    <3>5. g[p] = AsReadOf(f, p)
      BY <1>2, <3>1
    <3> QED BY <3>4, <3>5, <3>p
  <2>2. SamePartly(g, f, v)
    BY <2>1 DEF SamePartly
  <2>3. AsReadOf(g, v) = AsReadOf(f, v)
    BY <2>2, SamePartlySame
  <2>4. g[v] = AsReadOf(f, v)
    BY <1>2
  <2> QED BY <2>3, <2>4
<1>3. ASSUME NEW k \in Nat, Done(k) PROVE Done(k + 1)
  <2>1. PICK f : \A v \in Values : depth[v] < k => f[v] = AsReadOf(f, v)
    BY <1>3
  <2>2. PICK g : g = [v \in Values |-> AsReadOf(f, v)]
    OBVIOUS
  <2>3. \A v \in Values : depth[v] < k + 1 => g[v] = AsReadOf(g, v)
    BY <1>2, <2>1, <2>2
  <2> QED BY <2>3
<1>4. Done(n + 1)
  <2> HIDE DEF Done
  <2> SUFFICES ASSUME T # {} PROVE FALSE
    OBVIOUS
  <2>1. T \subseteq Nat
    OBVIOUS
  <2>2. PICK x \in T : \A y \in T : x <= y
    BY <2>1, SmallestExists
  <2>3. x \in 0 .. n + 1 /\ ~Done(x)
    BY <2>2
  <2>4. x # 0
    BY <1>1, <2>3
  <2>5. x - 1 \in Nat /\ x - 1 \in 0 .. n + 1 /\ x - 1 \notin T /\ (x - 1) + 1 = x
    BY <2>2, <2>3, <2>4
  <2>6. Done((x - 1) + 1)
    BY <1>3, <2>5
  <2> QED BY <2>3, <2>5, <2>6
<1>5. PICK f : \A v \in Values : depth[v] < n + 1 => f[v] = AsReadOf(f, v)
  BY <1>4
<1>6. PICK g : g = [v \in Values |-> AsReadOf(f, v)]
  OBVIOUS
<1>7. \A v \in Values : g[v] = AsReadOf(g, v)
  <2>1. \A v \in Values : depth[v] < n + 1 + 1 => g[v] = AsReadOf(g, v)
    <3>1. n + 1 \in Nat
      OBVIOUS
    <3> QED BY <1>2, <1>5, <1>6, <3>1
  <2>2. \A v \in Values : depth[v] < n + 1 + 1
    BY <1>0
  <2> QED BY <2>1, <2>2
<1>8. g = [v \in Values |-> g[v]]
  BY <1>6
<1>9. g = [v \in Values |-> AsReadOf(g, v)]
  BY <1>7, <1>8
<1> QED BY <1>9

\* AsRead is the recursion it is defined by.
LEMMA AsReadFacts ==
  ASSUME ValuesAreFinite
  PROVE  \A v \in Values : AsRead[v] = AsReadOf(AsRead, v)
<1> DEFINE Is(f) == f = [v \in Values |-> AsReadOf(f, v)]
           sum == CHOOSE f : Is(f)
<1>1. \E f : Is(f)
  BY AsReadExists DEF ValuesAreFinite
<1>2. Is(sum)
  BY <1>1, Zenon
<1>3. AsRead = sum
  BY Zenon DEF AsRead, AsReadOf
<1> HIDE DEF sum
<1>4. AsRead = [v \in Values |-> AsReadOf(AsRead, v)]
  BY <1>2, <1>3, Zenon
<1> QED BY <1>4, Zenon

----------------------------------------------------------------------------
(* Reading them: the recursion of unmarshal_ast goes forward in the buffer *)

NumberBytes == Nat \X Nat \X Nat

\* The bytes of numbers are bytes.
LEMMA NumbersAreBytes == AreBytes(NumberBytes)
BY DEF AreBytes, NumberBytes

\* A place that was read up to: Null, or one from lo on.
UpTo(r, lo, len) == r = Null \/ (r \in Nat /\ lo <= r /\ r <= len)

\* A field that can be read is a number, and lies in the buffer.
LEMMA RetrieveIsNumber ==
  ASSUME NEW buf \in Seq(NumberBytes), NEW c \in Nat, NEW w \in Nat \ {0}
  PROVE  Retrieve(buf, c, w) = Null \/ (Retrieve(buf, c, w) \in Nat /\ c + w <= Len(buf))
<1>1. CASE c + w <= Len(buf)
  <2>1. c + 1 \in 1 .. Len(buf)
    BY <1>1, LenProperties
  <2>2. buf[c + 1] \in NumberBytes
    BY <2>1, ElementOfSeq
  <2>3. buf[c + 1][1] \in Nat
    BY <2>2 DEF NumberBytes
  <2> QED BY <1>1, <2>3 DEF Retrieve
<1>2. CASE ~(c + w <= Len(buf))
  BY <1>2 DEF Retrieve
<1> QED BY <1>1, <1>2

\* A string that can be read ends behind its length, in the buffer.
LEMMA StringUpTo ==
  ASSUME NullIsApart, NEW buf \in Seq(NumberBytes), NEW c \in Nat, NEW s, s = RetrieveStr(buf, c)
  PROVE  UpTo(s.at, c + 4, Len(buf))
<1>s. PICK size, value, len : size = Retrieve(buf, c, 4) /\ value = Retrieve(buf, c + 4, size) /\
    len = Len(buf)
  OBVIOUS
<1>0. len \in Nat
  BY <1>s, LenProperties
<1>1. size = Null \/ (size \in Nat /\ c + 4 <= len)
  BY <1>s, RetrieveIsNumber
<1>2. s = CASE size = Null -> [str |-> NoString, at |-> Null]
            [] size = 0 -> [str |-> NoString, at |-> c + 4]
            [] OTHER -> [str |-> <<value, size>>, at |-> IF value = Null THEN Null ELSE c + 4 + size]
  BY <1>s, Zenon DEF RetrieveStr
<1>3. CASE size = Null
  <2>1. s = [str |-> NoString, at |-> Null]
    BY <1>2, <1>3 DEF NullIsApart
  <2> QED BY <2>1 DEF UpTo
<1>4. CASE size = 0
  <2>1. s = [str |-> NoString, at |-> c + 4]
    BY <1>2, <1>4 DEF NullIsApart
  <2> QED BY <1>1, <1>4, <1>s, <2>1 DEF UpTo, NullIsApart
<1>5. CASE size # Null /\ size # 0
  <2>1. s.at = IF value = Null THEN Null ELSE c + 4 + size
    BY <1>2, <1>5
  <2>2. value # Null => c + 4 + size <= len
    <3>1. c + 4 \in Nat /\ size \in Nat \ {0}
      BY <1>1, <1>5
    <3> QED BY <1>s, <3>1, RetrieveIsNumber
  <2> QED BY <1>1, <1>5, <1>s, <2>1, <2>2 DEF UpTo
<1> QED BY <1>3, <1>4, <1>5

\* The loop over the parts of a list.
Loops(l, buf, read, n, p, names) ==
  l[0] = NoPart(p) /\ \A i \in 1 .. n : l[i] = MorePart(buf, read, l[i - 1], names)

\* The loop over the elements of a list has a state before each of its rounds.
LEMMA LoopExists ==
  ASSUME NEW buf, NEW read, NEW n \in Nat, NEW p, NEW names
  PROVE  \E l : Loops(l, buf, read, n, p, names) /\ ReadParts(buf, read, n, p, names) = l[n]
<1> DEFINE Body(l, i) == IF i = 0 THEN NoPart(p) ELSE MorePart(buf, read, l[i - 1], names)
           Done(k) == \E l : \A i \in 0 .. k : l[i] = Body(l, i)
           T == {k \in 0 .. n : ~Done(k)}
           Is(f) == f = [i \in 0 .. n |-> Body(f, i)]
           loop == CHOOSE f : Is(f)
<1>1. Done(0)
  <2>1. PICK l : l = [i \in {0} |-> NoPart(p)]
    OBVIOUS
  <2>2. \A i \in 0 .. 0 : l[i] = Body(l, i)
    BY <2>1
  <2> QED BY <2>2
<1>2. ASSUME NEW k \in 0 .. n, NEW l, \A i \in 0 .. k : l[i] = Body(l, i),
             NEW g, g = [i \in 0 .. n |-> Body(l, i)]
      PROVE  \A i \in 0 .. k + 1 : i <= n => g[i] = Body(g, i)
  <2> SUFFICES ASSUME NEW i \in 0 .. k + 1, i <= n PROVE g[i] = Body(g, i)
    OBVIOUS
  <2>1. i \in 0 .. n
    OBVIOUS
  <2>2. g[i] = Body(l, i)
    BY <1>2, <2>1
  <2>3. CASE i = 0
    BY <2>2, <2>3
  <2>4. CASE i # 0
    <3>1. i - 1 \in 0 .. k /\ i - 1 \in 0 .. n
      BY <2>4
    <3>2. g[i - 1] = l[i - 1]
      <4>1. g[i - 1] = Body(l, i - 1)
        BY <1>2, <3>1
      <4>2. l[i - 1] = Body(l, i - 1)
        BY <1>2, <3>1
      <4> HIDE DEF Body
      <4> QED BY <4>1, <4>2
    <3> QED BY <2>2, <2>4, <3>2
  <2> QED BY <2>3, <2>4
<1> HIDE DEF Body
<1>3. ASSUME NEW k \in 0 .. n, Done(k), k + 1 <= n PROVE Done(k + 1)
  <2>1. PICK l : \A i \in 0 .. k : l[i] = Body(l, i)
    BY <1>3
  <2>2. PICK g : g = [i \in 0 .. n |-> Body(l, i)]
    OBVIOUS
  <2>3. \A i \in 0 .. k + 1 : i <= n => g[i] = Body(g, i)
    BY <1>2, <2>1, <2>2
  <2>4. \A i \in 0 .. k + 1 : g[i] = Body(g, i)
    BY <1>3, <2>3
  <2> QED BY <2>4
<1>4. Done(n)
  <2> HIDE DEF Done
  <2> SUFFICES ASSUME T # {} PROVE FALSE
    OBVIOUS
  <2>1. T \subseteq Nat
    OBVIOUS
  <2>2. PICK x \in T : \A y \in T : x <= y
    BY <2>1, SmallestExists
  <2>3. x \in 0 .. n /\ ~Done(x)
    BY <2>2
  <2>4. x # 0
    BY <1>1, <2>3
  <2>5. x - 1 \in 0 .. n /\ x - 1 \notin T /\ (x - 1) + 1 = x /\ (x - 1) + 1 <= n
    BY <2>2, <2>3, <2>4
  <2>6. Done((x - 1) + 1)
    BY <1>3, <2>5
  <2> QED BY <2>3, <2>5, <2>6
<1>5. \E f : Is(f)
  <2>1. PICK l : \A i \in 0 .. n : l[i] = Body(l, i)
    BY <1>4
  <2>2. PICK g : g = [i \in 0 .. n |-> Body(l, i)]
    OBVIOUS
  <2>3. \A i \in 0 .. n + 1 : i <= n => g[i] = Body(g, i)
    BY <1>2, <2>1, <2>2
  <2>4. \A i \in 0 .. n : g[i] = Body(g, i)
    BY <2>3
  <2>5. g = [i \in 0 .. n |-> g[i]]
    BY <2>2
  <2> QED BY <2>4, <2>5
<1>6. Is(loop)
  BY <1>5, Zenon
<1>7. ReadParts(buf, read, n, p, names) = loop[n]
  BY Zenon DEF ReadParts, Body
<1> HIDE DEF loop
<1>8. \A i \in 0 .. n : loop[i] = Body(loop, i)
  BY <1>6, Zenon
<1>9. Loops(loop, buf, read, n, p, names)
  <2>1. loop[0] = NoPart(p)
    <3>1. 0 \in 0 .. n
      OBVIOUS
    <3> QED BY <1>8, <3>1 DEF Body
  <2>2. ASSUME NEW i \in 1 .. n PROVE loop[i] = MorePart(buf, read, loop[i - 1], names)
    <3>1. i \in 0 .. n /\ i # 0
      OBVIOUS
    <3> QED BY <1>8, <3>1 DEF Body
  <2> QED BY <2>1, <2>2 DEF Loops
<1> QED BY <1>7, <1>9

\* What may be read at a place: nothing at all, or something that ends at lo or behind it.
GoodRead(r, lo, len) == UpTo(r.at, lo, len) /\ (r.at = Null => r.value = Empty)
\* The state of the loop over parts.
GoodLoop(s, lo, len) == UpTo(s.at, lo, len) /\ (s.on => s.at # Null)

\* f and g have the same behind "at", and it goes forward.
SameBehind(f, g, at, len) == \A q \in at + 1 .. len : f[q] = g[q] /\ GoodRead(f[q], q + 1, len)

\* An element further on is read alike by functions that agree there.
LEMMA PartSame ==
  ASSUME NEW f, NEW g, NEW at \in Nat, NEW len \in Nat, SameBehind(f, g, at, len),
         NEW p, UpTo(p, at + 1, len)
  PROVE  ReadAt(f, p) = ReadAt(g, p) /\ GoodRead(ReadAt(f, p), at + 1, len)
<1>1. CASE p = Null
  <2>1. ReadAt(f, p) = Failed /\ ReadAt(g, p) = Failed
    BY <1>1 DEF ReadAt
  <2> QED BY <2>1 DEF Failed, GoodRead, UpTo
<1>2. CASE p # Null
  <2>1. p \in at + 1 .. len /\ p \in Nat
    BY <1>2 DEF UpTo
  <2>2. ReadAt(f, p) = f[p] /\ ReadAt(g, p) = g[p]
    BY <1>2 DEF ReadAt
  <2>3. f[p] = g[p] /\ GoodRead(f[p], p + 1, len)
    BY <2>1 DEF SameBehind
  <2>4. GoodRead(f[p], at + 1, len)
    BY <2>1, <2>3 DEF GoodRead, UpTo
  <2> QED BY <2>2, <2>3, <2>4
<1> QED BY <1>1, <1>2

\* The loop that has read an element stays in the buffer.
LEMMA WithPartGood ==
  ASSUME NEW s, NEW name, NEW part, NEW lo, NEW len, GoodRead(part, lo, len)
  PROVE  GoodLoop(WithPart(s, name, part), lo, len)
<1>1. WithPart(s, name, part).at = part.at /\ WithPart(s, name, part).on = (part.value # Empty)
  BY DEF WithPart
<1> QED BY <1>1 DEF GoodLoop, GoodRead

\* A round of the loop reads alike.
LEMMA MoreSame ==
  ASSUME NullIsApart, NEW buf \in Seq(NumberBytes), NEW len, len = Len(buf), NEW f, NEW g,
         NEW at \in Nat, SameBehind(f, g, at, len), NEW s, GoodLoop(s, at + 1, len), NEW names \in BOOLEAN
  PROVE  /\ MorePart(buf, f, s, names) = MorePart(buf, g, s, names)
         /\ GoodLoop(MorePart(buf, f, s, names), at + 1, len)
<1>0. len \in Nat
  BY LenProperties
<1>n. PICK name : name = RetrieveStr(buf, s.at)
  OBVIOUS
<1>1. CASE ~s.on
  <2>1. MorePart(buf, f, s, names) = s /\ MorePart(buf, g, s, names) = s
    BY <1>1 DEF MorePart
  <2> QED BY <2>1
<1>2. CASE s.on /\ names
  <2>0. s.at \in Nat /\ at + 1 <= s.at
    BY <1>2 DEF GoodLoop, UpTo
  <2>1. UpTo(name.at, at + 1, len)
    <3>1. UpTo(name.at, s.at + 4, len)
      BY <1>n, <2>0, StringUpTo
    <3> QED BY <2>0, <3>1 DEF UpTo
  <2>2. /\ MorePart(buf, f, s, names) = WithPart(s, name.str, ReadAt(f, name.at))
        /\ MorePart(buf, g, s, names) = WithPart(s, name.str, ReadAt(g, name.at))
    BY <1>2, <1>n DEF MorePart
  <2>3. ReadAt(f, name.at) = ReadAt(g, name.at) /\ GoodRead(ReadAt(f, name.at), at + 1, len)
    BY <1>0, <2>1, PartSame
  <2> QED BY <2>2, <2>3, WithPartGood
<1>3. CASE s.on /\ ~names
  <2>1. /\ MorePart(buf, f, s, names) = WithPart(s, Null, ReadAt(f, s.at))
        /\ MorePart(buf, g, s, names) = WithPart(s, Null, ReadAt(g, s.at))
    BY <1>3 DEF MorePart
  <2>2. ReadAt(f, s.at) = ReadAt(g, s.at) /\ GoodRead(ReadAt(f, s.at), at + 1, len)
    BY <1>0, PartSame DEF GoodLoop
  <2> QED BY <2>1, <2>2, WithPartGood
<1> QED BY <1>1, <1>2, <1>3

\* All rounds of the loop read alike.
LEMMA PartsSame ==
  ASSUME NullIsApart, NEW buf \in Seq(NumberBytes), NEW len, len = Len(buf), NEW f, NEW g,
         NEW at \in Nat, SameBehind(f, g, at, len), NEW n \in Nat, NEW p \in at + 1 .. len,
             NEW names \in BOOLEAN
  PROVE  /\ ReadParts(buf, f, n, p, names) = ReadParts(buf, g, n, p, names)
         /\ GoodLoop(ReadParts(buf, f, n, p, names), at + 1, len)
<1>0. len \in Nat /\ p \in Nat
  BY LenProperties
<1>1. PICK l : Loops(l, buf, f, n, p, names) /\ ReadParts(buf, f, n, p, names) = l[n]
  BY LoopExists
<1>2. PICK m : Loops(m, buf, g, n, p, names) /\ ReadParts(buf, g, n, p, names) = m[n]
  BY LoopExists
<1> DEFINE Same(i) == l[i] = m[i] /\ GoodLoop(l[i], at + 1, len)
           T == {i \in 0 .. n : ~Same(i)}
<1>3. Same(0)
  <2>1. l[0] = NoPart(p) /\ m[0] = NoPart(p)
    BY <1>1, <1>2 DEF Loops
  <2>2. NoPart(p).at = p
    BY DEF NoPart
  <2>3. GoodLoop(NoPart(p), at + 1, len)
    <3>1. p # Null
      BY <1>0 DEF NullIsApart
    <3> QED BY <1>0, <2>2, <3>1 DEF GoodLoop, UpTo
  <2> QED BY <2>1, <2>3
<1>4. ASSUME NEW i \in 1 .. n, Same(i - 1) PROVE Same(i)
  <2>1. l[i] = MorePart(buf, f, l[i - 1], names) /\ m[i] = MorePart(buf, g, m[i - 1], names)
    BY <1>1, <1>2 DEF Loops
  <2>s. PICK s : s = l[i - 1]
    OBVIOUS
  <2>2. GoodLoop(s, at + 1, len) /\ s = m[i - 1]
    BY <1>4, <2>s
  <2>3. /\ MorePart(buf, f, s, names) = MorePart(buf, g, s, names)
        /\ GoodLoop(MorePart(buf, f, s, names), at + 1, len)
    BY <2>2, MoreSame
  <2> QED BY <2>1, <2>2, <2>3, <2>s
<1> HIDE DEF Same
<1>5. Same(n)
  <2> SUFFICES ASSUME T # {} PROVE FALSE
    OBVIOUS
  <2>1. T \subseteq Nat
    OBVIOUS
  <2>2. PICK x \in T : \A y \in T : x <= y
    BY <2>1, SmallestExists
  <2>3. x \in 0 .. n /\ ~Same(x)
    BY <2>2
  <2>4. x # 0
    BY <1>3, <2>3
  <2>5. x \in 1 .. n /\ x - 1 \in 0 .. n /\ x - 1 \notin T
    BY <2>2, <2>3, <2>4
  <2> QED BY <1>4, <2>3, <2>5
<1> QED BY <1>1, <1>2, <1>5 DEF Same

\* A list further on is read alike.
LEMMA ListSame ==
  ASSUME NullIsApart, NEW buf \in Seq(NumberBytes), NEW len, len = Len(buf), NEW f, NEW g,
         NEW at \in Nat, SameBehind(f, g, at, len), NEW p, UpTo(p, at + 1, len), NEW names \in BOOLEAN
  PROVE  /\ ReadList(buf, f, p, names) = ReadList(buf, g, p, names)
         /\ GoodLoop(ReadList(buf, f, p, names), at + 1, len)
<1>n. PICK n : n = IF p = Null THEN Null ELSE Retrieve(buf, p, 4)
  OBVIOUS
<1>1. \A h : ReadList(buf, h, p, names) =
        IF n = Null THEN [NoPart(Null) EXCEPT !.on = FALSE] ELSE ReadParts(buf, h, n, p + 4, names)
  BY <1>n, Zenon DEF ReadList
<1>2. CASE n = Null
  <2>1. \A h : ReadList(buf, h, p, names) = [NoPart(Null) EXCEPT !.on = FALSE]
    BY <1>1, <1>2
  <2>2. [NoPart(Null) EXCEPT !.on = FALSE].at = Null /\ ~[NoPart(Null) EXCEPT !.on = FALSE].on
    BY DEF NoPart
  <2> QED BY <2>1, <2>2 DEF GoodLoop, UpTo
<1>3. CASE n # Null
  <2>1. p \in Nat /\ n = Retrieve(buf, p, 4) /\ at + 1 <= p
    BY <1>3, <1>n DEF UpTo
  <2>2. n \in Nat /\ p + 4 <= len
    BY <1>3, <2>1, RetrieveIsNumber
  <2>3. p + 4 \in at + 1 .. len
    BY <2>1, <2>2
  <2>4. \A h : ReadList(buf, h, p, names) = ReadParts(buf, h, n, p + 4, names)
    BY <1>1, <1>3
  <2>q. PICK q : q = p + 4
    OBVIOUS
  <2>5. /\ ReadParts(buf, f, n, q, names) = ReadParts(buf, g, n, q, names)
        /\ GoodLoop(ReadParts(buf, f, n, q, names), at + 1, len)
    BY <2>2, <2>3, <2>q, PartsSame
  <2> QED BY <2>4, <2>5, <2>q
<1> QED BY <1>2, <1>3

\* What is made of the parts that were read ends where they end.
LEMMA WholeGood ==
  ASSUME NEW made, NEW parts, NEW lo, NEW len, GoodLoop(parts, lo, len)
  PROVE  GoodRead(Whole(made, parts), lo, len)
<1>1. Whole(made, parts).at = parts.at /\ (~parts.on => Whole(made, parts).value = Empty)
  BY DEF Whole, GivenUp
<1> QED BY <1>1 DEF GoodLoop, GoodRead

\* A value without parts ends behind its field.
LEMMA SimpleGood ==
  ASSUME NullIsApart, NEW type, NEW val, NEW end, NEW lo, NEW len,
         val = Null \/ (end \in Nat /\ lo <= end /\ end <= len)
  PROVE  GoodRead(Simple(type, val, end), lo, len)
<1>1. CASE val = Null
  <2>1. Simple(type, val, end).at = Null /\ Simple(type, val, end).value = Empty
    BY <1>1 DEF Simple, Failed
  <2> QED BY <2>1 DEF GoodRead, UpTo
<1>2. CASE val # Null
  <2>1. Simple(type, val, end).at = end
    BY <1>2 DEF Simple
  <2> QED BY <1>2, <2>1 DEF GoodRead, UpTo, NullIsApart
<1> QED BY <1>1, <1>2

\* unmarshal_ast at a place depends on what it reads behind that place.
LEMMA ValueSame ==
  ASSUME NullIsApart, NEW buf \in Seq(NumberBytes), NEW len, len = Len(buf), NEW f, NEW g,
         NEW at \in 0 .. len, SameBehind(f, g, at, len)
  PROVE  /\ ReadValue(buf, f, at) = ReadValue(buf, g, at)
         /\ GoodRead(ReadValue(buf, f, at), at + 1, len)
<1>0. len \in Nat /\ at \in Nat
  BY LenProperties
<1>t. PICK type : type = Retrieve(buf, at, 4)
  OBVIOUS
<1>1. type = Null \/ (type \in Nat /\ at + 4 <= len)
  BY <1>0, <1>t, RetrieveIsNumber
<1>types. /\ INT_TYPE \in Nat /\ DOUBLE_TYPE \in Nat /\ STRING_TYPE \in Nat /\ ARRAY_TYPE \in Nat
          /\ VAR_ADT_TYPE \in Nat /\ SEP_TYPE \in Nat
  BY DEF INT_TYPE, DOUBLE_TYPE, STRING_TYPE, ARRAY_TYPE, VAR_ADT_TYPE, SEP_TYPE
<1>2. CASE type = Null
  <2>1. \A h : ReadValue(buf, h, at) = Failed
    BY <1>2, <1>t, <1>types DEF ReadValue, NullIsApart
  <2> QED BY <2>1 DEF Failed, GoodRead, UpTo
<1>3. CASE type = INT_TYPE
  <2>v. PICK val : val = Retrieve(buf, at + 4, 4)
    OBVIOUS
  <2>1. \A h : ReadValue(buf, h, at) = Simple(type, val, at + 8)
    BY <1>3, <1>t, <1>types, <2>v DEF ReadValue, NullIsApart, INT_TYPE, DOUBLE_TYPE, STRING_TYPE,
         ARRAY_TYPE, VAR_ADT_TYPE, SEP_TYPE
  <2>2. val = Null \/ (val \in Nat /\ at + 4 + 4 <= len)
    <3>1. at + 4 \in Nat /\ 4 \in Nat \ {0}
      BY <1>0
    <3> QED BY <2>v, <3>1, RetrieveIsNumber
  <2>3. val = Null \/ (at + 8 \in Nat /\ at + 1 <= at + 8 /\ at + 8 <= len)
    BY <1>0, <2>2
  <2>4. GoodRead(Simple(type, val, at + 8), at + 1, len)
    BY <2>3, SimpleGood
  <2> QED BY <2>1, <2>4
<1>4. CASE type = DOUBLE_TYPE
  <2>v. PICK val : val = Retrieve(buf, at + 4, 8)
    OBVIOUS
  <2>1. \A h : ReadValue(buf, h, at) = Simple(type, val, at + 12)
    BY <1>4, <1>t, <1>types, <2>v DEF ReadValue, NullIsApart, INT_TYPE, DOUBLE_TYPE, STRING_TYPE,
         ARRAY_TYPE, VAR_ADT_TYPE, SEP_TYPE
  <2>2. val = Null \/ (val \in Nat /\ at + 4 + 8 <= len)
    <3>1. at + 4 \in Nat /\ 8 \in Nat \ {0}
      BY <1>0
    <3> QED BY <2>v, <3>1, RetrieveIsNumber
  <2>3. val = Null \/ (at + 12 \in Nat /\ at + 1 <= at + 12 /\ at + 12 <= len)
    BY <1>0, <2>2
  <2>4. GoodRead(Simple(type, val, at + 12), at + 1, len)
    BY <2>3, SimpleGood
  <2> QED BY <2>1, <2>4
<1>5. CASE type = STRING_TYPE
  <2>v. PICK s, val : s = RetrieveStr(buf, at + 4) /\ val = IF s.at = Null THEN Null ELSE s.str
    OBVIOUS
  <2>1. \A h : ReadValue(buf, h, at) = Simple(STRING_TYPE, val, s.at)
    <3>1. \A h : ReadValue(buf, h, at) = ReadString(buf, at + 4)
      BY <1>5, <1>t, <1>types DEF ReadValue, NullIsApart, INT_TYPE, DOUBLE_TYPE, STRING_TYPE, ARRAY_TYPE,
           VAR_ADT_TYPE, SEP_TYPE
    <3>2. ReadString(buf, at + 4) = Simple(STRING_TYPE, val, s.at)
      BY <2>v, Zenon DEF ReadString
    <3> QED BY <3>1, <3>2
  <2>2. UpTo(s.at, at + 4 + 4, len)
    <3>1. at + 4 \in Nat
      BY <1>0
    <3> QED BY <2>v, <3>1, StringUpTo
  <2>3. val = Null \/ (s.at \in Nat /\ at + 1 <= s.at /\ s.at <= len)
    BY <1>0, <2>2, <2>v DEF UpTo
  <2>4. GoodRead(Simple(STRING_TYPE, val, s.at), at + 1, len)
    BY <2>3, SimpleGood
  <2> QED BY <2>1, <2>4
<1>6. CASE type = ARRAY_TYPE
  <2>v. PICK adt, of : adt = RetrieveStr(buf, at + 4 + 4) /\ of = Retrieve(buf, at + 4, 4)
    OBVIOUS
  <2> DEFINE Made(all) == Whole([type |-> ARRAY_TYPE, of |-> of, adt |-> adt.str, list |-> all.list], all)
  <2>1. \A h : ReadValue(buf, h, at) = Made(ReadList(buf, h, adt.at, FALSE))
    <3>1. \A h : ReadValue(buf, h, at) = ReadArray(buf, h, at + 4)
      BY <1>6, <1>t, <1>types DEF ReadValue, NullIsApart, INT_TYPE, DOUBLE_TYPE, STRING_TYPE, ARRAY_TYPE,
           VAR_ADT_TYPE, SEP_TYPE
    <3>2. \A h : ReadArray(buf, h, at + 4) = Made(ReadList(buf, h, adt.at, FALSE))
      BY <2>v, Zenon DEF ReadArray
    <3> QED BY <3>1, <3>2
  <2>2. UpTo(adt.at, at + 1, len)
    <3>1. at + 4 + 4 \in Nat
      BY <1>0
    <3>2. UpTo(adt.at, at + 4 + 4 + 4, len)
      BY <2>v, <3>1, StringUpTo
    <3> QED BY <1>0, <3>2 DEF UpTo
  <2>3. /\ ReadList(buf, f, adt.at, FALSE) = ReadList(buf, g, adt.at, FALSE)
        /\ GoodLoop(ReadList(buf, f, adt.at, FALSE), at + 1, len)
    <3>p. PICK p : p = adt.at
      OBVIOUS
    <3>n. PICK no \in BOOLEAN : no = FALSE
      OBVIOUS
    <3>1. /\ ReadList(buf, f, p, no) = ReadList(buf, g, p, no)
          /\ GoodLoop(ReadList(buf, f, p, no), at + 1, len)
      BY <1>0, <2>2, <3>p, <3>n, ListSame
    <3> QED BY <3>p, <3>n, <3>1
  <2>4. GoodRead(Made(ReadList(buf, f, adt.at, FALSE)), at + 1, len)
    BY <2>3, WholeGood
  <2> HIDE DEF Made
  <2> QED BY <2>1, <2>3, <2>4
<1>7. CASE type = VAR_ADT_TYPE
  <2>v. PICK adt : adt = RetrieveStr(buf, at + 4)
    OBVIOUS
  <2> DEFINE Made(all) == Whole([type |-> VAR_ADT_TYPE, adt |-> adt.str, fields |-> all.list], all)
  <2>1. \A h : ReadValue(buf, h, at) = Made(ReadList(buf, h, adt.at, TRUE))
    <3>1. \A h : ReadValue(buf, h, at) = ReadStruct(buf, h, at + 4)
      BY <1>7, <1>t, <1>types DEF ReadValue, NullIsApart, INT_TYPE, DOUBLE_TYPE, STRING_TYPE, ARRAY_TYPE,
           VAR_ADT_TYPE, SEP_TYPE
    <3>2. \A h : ReadStruct(buf, h, at + 4) = Made(ReadList(buf, h, adt.at, TRUE))
      BY <2>v, Zenon DEF ReadStruct
    <3> QED BY <3>1, <3>2
  <2>2. UpTo(adt.at, at + 1, len)
    <3>1. at + 4 \in Nat
      BY <1>0
    <3>2. UpTo(adt.at, at + 4 + 4, len)
      BY <2>v, <3>1, StringUpTo
    <3> QED BY <1>0, <3>2 DEF UpTo
  <2>3. /\ ReadList(buf, f, adt.at, TRUE) = ReadList(buf, g, adt.at, TRUE)
        /\ GoodLoop(ReadList(buf, f, adt.at, TRUE), at + 1, len)
    <3>p. PICK p : p = adt.at
      OBVIOUS
    <3>n. PICK yes \in BOOLEAN : yes = TRUE
      OBVIOUS
    <3>b. yes \in BOOLEAN
      OBVIOUS
    <3>1. /\ ReadList(buf, f, p, yes) = ReadList(buf, g, p, yes)
          /\ GoodLoop(ReadList(buf, f, p, yes), at + 1, len)
      BY <1>0, <2>2, <3>p, <3>b, ListSame
    <3> QED BY <3>p, <3>n, <3>1
  <2>4. GoodRead(Made(ReadList(buf, f, adt.at, TRUE)), at + 1, len)
    BY <2>3, WholeGood
  <2> HIDE DEF Made
  <2> QED BY <2>1, <2>3, <2>4
<1>8. CASE type = SEP_TYPE
  <2> DEFINE Made(all) == Whole([type |-> SEP_TYPE, list |-> all.list], all)
  <2>p. PICK p : p = at + 4
    OBVIOUS
  <2>1. \A h : ReadValue(buf, h, at) = Made(ReadList(buf, h, p, FALSE))
    <3>1. \A h : ReadValue(buf, h, at) = ReadCall(buf, h, p)
      BY <1>8, <1>t, <1>types, <2>p DEF ReadValue, NullIsApart, INT_TYPE, DOUBLE_TYPE, STRING_TYPE,
           ARRAY_TYPE, VAR_ADT_TYPE, SEP_TYPE
    <3>2. \A h : ReadCall(buf, h, p) = Made(ReadList(buf, h, p, FALSE))
      BY Zenon DEF ReadCall
    <3> QED BY <3>1, <3>2
  <2>2. UpTo(p, at + 1, len)
    BY <1>0, <1>1, <1>8, <1>types, <2>p DEF UpTo, NullIsApart
  <2>3. /\ ReadList(buf, f, p, FALSE) = ReadList(buf, g, p, FALSE)
        /\ GoodLoop(ReadList(buf, f, p, FALSE), at + 1, len)
    <3>p. PICK no \in BOOLEAN : no = FALSE
      OBVIOUS
    <3>1. /\ ReadList(buf, f, p, no) = ReadList(buf, g, p, no)
          /\ GoodLoop(ReadList(buf, f, p, no), at + 1, len)
      BY <1>0, <2>2, <3>p, ListSame
    <3> QED BY <3>p, <3>1
  <2>4. GoodRead(Made(ReadList(buf, f, p, FALSE)), at + 1, len)
    BY <2>3, WholeGood
  <2> HIDE DEF Made
  <2> QED BY <2>1, <2>3, <2>4
<1>9. CASE type \notin {Null, INT_TYPE, DOUBLE_TYPE, STRING_TYPE, ARRAY_TYPE, VAR_ADT_TYPE, SEP_TYPE}
  <2>1. \A h : ReadValue(buf, h, at) = GivenUp(at + 4)
    BY <1>9, <1>t DEF ReadValue
  <2>2. GivenUp(at + 4).at = at + 4 /\ GivenUp(at + 4).value = Empty
    BY DEF GivenUp
  <2>3. UpTo(at + 4, at + 1, len)
    BY <1>0, <1>1, <1>9 DEF UpTo
  <2>4. GoodRead(GivenUp(at + 4), at + 1, len)
    BY <2>2, <2>3 DEF GoodRead
  <2> QED BY <2>1, <2>4
<1> QED BY <1>2, <1>3, <1>4, <1>5, <1>6, <1>7, <1>8, <1>9

\* So there is a function that reads a value at every place of the buffer.
LEMMA ReadExists ==
  ASSUME NullIsApart, NEW buf \in Seq(NumberBytes), NEW len, len = Len(buf)
  PROVE  \E f : f = [at \in 0 .. len |-> ReadValue(buf, f, at)]
<1>0. len \in Nat
  BY LenProperties
<1> DEFINE Solves(f, k) == \A q \in 0 .. len : len < q + k =>
                             f[q] = ReadValue(buf, f, q) /\ GoodRead(f[q], q + 1, len)
           Done(k) == \E f : Solves(f, k)
           T == {k \in 0 .. len + 1 : ~Done(k)}
<1>1. Done(0)
  BY <1>0
<1>2. ASSUME NEW k \in Nat, NEW f, Solves(f, k), NEW g, g = [q \in 0 .. len |-> ReadValue(buf, f, q)]
      PROVE  Solves(g, k + 1)
  <2> SUFFICES ASSUME NEW q \in 0 .. len, len < q + (k + 1)
               PROVE  g[q] = ReadValue(buf, g, q) /\ GoodRead(g[q], q + 1, len)
    OBVIOUS
  <2>1. SameBehind(f, g, q, len)
    <3> SUFFICES ASSUME NEW r \in q + 1 .. len PROVE f[r] = g[r] /\ GoodRead(f[r], r + 1, len)
      BY DEF SameBehind
    <3>1. r \in 0 .. len /\ len < r + k
      BY <1>0
    <3> QED BY <1>2, <3>1
  <2>2. ReadValue(buf, f, q) = ReadValue(buf, g, q) /\ GoodRead(ReadValue(buf, f, q), q + 1, len)
    BY <2>1, ValueSame
  <2>3. g[q] = ReadValue(buf, f, q)
    BY <1>2
  <2> QED BY <2>2, <2>3
<1> HIDE DEF Solves
<1>3. ASSUME NEW k \in Nat, Done(k) PROVE Done(k + 1)
  <2>1. PICK f : Solves(f, k)
    BY <1>3
  <2>2. PICK g : g = [q \in 0 .. len |-> ReadValue(buf, f, q)]
    OBVIOUS
  <2> QED BY <1>2, <2>1, <2>2
<1>4. Done(len + 1)
  <2> HIDE DEF Done
  <2> SUFFICES ASSUME T # {} PROVE FALSE
    BY <1>0
  <2>1. T \subseteq Nat
    BY <1>0
  <2>2. PICK x \in T : \A y \in T : x <= y
    BY <2>1, SmallestExists
  <2>3. x \in 0 .. len + 1 /\ ~Done(x)
    BY <2>2
  <2>4. x # 0
    BY <1>1, <2>3
  <2>5. x - 1 \in Nat /\ x - 1 \in 0 .. len + 1 /\ x - 1 \notin T /\ (x - 1) + 1 = x
    BY <1>0, <2>2, <2>3, <2>4
  <2>6. Done((x - 1) + 1)
    BY <1>3, <2>5
  <2> QED BY <2>3, <2>5, <2>6
<1>5. PICK f : Solves(f, len + 1)
  BY <1>4
<1>6. PICK g : g = [q \in 0 .. len |-> ReadValue(buf, f, q)]
  OBVIOUS
<1>7. Solves(g, len + 1 + 1)
  <2>1. len + 1 \in Nat
    BY <1>0
  <2> QED BY <1>2, <1>5, <1>6, <2>1
<1>8. \A q \in 0 .. len : g[q] = ReadValue(buf, g, q)
  <2>1. \A q \in 0 .. len : len < q + (len + 1 + 1)
    BY <1>0
  <2> QED BY <1>7, <2>1 DEF Solves
<1>9. g = [q \in 0 .. len |-> g[q]]
  BY <1>6
<1>10. g = [q \in 0 .. len |-> ReadValue(buf, g, q)]
  BY <1>8, <1>9
<1> QED BY <1>10

\* Unmarshal is the recursion it is defined by (unmarshal_ast).
LEMMA UnmarshalFacts ==
  ASSUME NullIsApart, NEW buf \in Seq(NumberBytes), NEW read, read = Unmarshal(buf)
  PROVE  \A at \in 0 .. Len(buf) : read[at] = ReadValue(buf, read, at)
<1> DEFINE Is(f) == f = [at \in 0 .. Len(buf) |-> ReadValue(buf, f, at)]
           found == CHOOSE f : Is(f)
<1>1. \E f : Is(f)
  BY ReadExists
<1>2. Is(found)
  BY <1>1, Zenon
<1>3. Unmarshal(buf) = found
  BY Zenon DEF Unmarshal
<1> HIDE DEF found
<1>4. read = [at \in 0 .. Len(buf) |-> ReadValue(buf, read, at)]
  BY <1>2, <1>3, Zenon
<1> QED BY <1>4, Zenon

----------------------------------------------------------------------------
(* What a value is written as, read where it lies, in full or cut short *)

\* What is written of s lies in w from d on, as far as it goes there.
Lain(s, w, d) ==
  \A at, width \in Nat : \A value :
    Lies(s, at, value, width) /\ d + at + width <= Len(w) => Lies(w, d + at, value, width)

\* u is a and b.
IsBoth(Bytes, u, a, b) == a \in Seq(Bytes) /\ b \in Seq(Bytes) /\ u = a \o b

\* Two lists behind each other: what lies of them lies of each, in full or cut short.
LEMMA LainParts ==
  ASSUME NEW Bytes, NEW a, NEW b, NEW u, IsBoth(Bytes, u, a, b),
         NEW w, NEW d \in Nat, Lain(u, w, d), NEW n, n = Len(a)
  PROVE  /\ u \in Seq(Bytes) /\ n \in Nat /\ Len(b) \in Nat /\ Len(u) = n + Len(b)
         /\ Lain(a, w, d) /\ Lain(b, w, d + n)
<1>0. a \in Seq(Bytes) /\ b \in Seq(Bytes) /\ u = a \o b
  BY DEF IsBoth
<1>1. u \in Seq(Bytes) /\ Joined(u, a, b)
  BY <1>0, JoinFacts
<1>2. n \in Nat /\ Len(b) \in Nat /\ Len(u) = n + Len(b)
  BY <1>1 DEF Joined
<1>3. Kept(a, u)
  BY <1>0, AppendedBehind
<1>4. Shifted(b, u, n)
  BY <1>0, ShiftedBehind
<1>5. Lain(a, w, d)
  <2> SUFFICES ASSUME NEW at \in Nat, NEW width \in Nat, NEW value, Lies(a, at, value, width),
                      d + at + width <= Len(w)
               PROVE  Lies(w, d + at, value, width)
    BY DEF Lain
  <2>1. Lies(u, at, value, width)
    BY <1>3 DEF Kept
  <2> QED BY <2>1 DEF Lain
<1>6. Lain(b, w, d + n)
  <2> SUFFICES ASSUME NEW at \in Nat, NEW width \in Nat, NEW value, Lies(b, at, value, width),
                      d + n + at + width <= Len(w)
               PROVE  Lies(w, d + n + at, value, width)
    BY DEF Lain
  <2>1. Lies(u, n + at, value, width)
    BY <1>4 DEF Shifted
  <2>2. n + at \in Nat /\ d + (n + at) + width = d + n + at + width /\ d + (n + at) = d + n + at
    BY <1>2
  <2>p. PICK p : p = n + at
    OBVIOUS
  <2>3. Lies(u, p, value, width) /\ p \in Nat /\ d + p + width <= Len(w)
    BY <2>1, <2>2, <2>p
  <2>4. Lies(w, d + p, value, width)
    BY <2>3 DEF Lain
  <2> QED BY <2>2, <2>4, <2>p
<1> QED BY <1>1, <1>2, <1>5, <1>6

\* A field is read where it lies, or found cut short.
LEMMA LainField ==
  ASSUME NEW n \in Nat, NEW width \in Nat \ {0}, NEW w, NEW d \in Nat, Lain(Field(n, width), w, d)
  PROVE  Retrieve(w, d, width) = IF d + width <= Len(w) THEN n ELSE Null
<1>1. CASE d + width <= Len(w)
  <2>1. Lies(Field(n, width), 0, n, width)
    <3>1. AreBytes(NumberBytes) /\ width \in Nat
      BY NumbersAreBytes
    <3> QED BY <3>1, NumberIsList
  <2>2. 0 \in Nat /\ d + 0 + width = d + width /\ d + 0 = d /\ width \in Nat
    OBVIOUS
  <2>z. PICK z : z = 0
    OBVIOUS
  <2>3. Lies(w, d + z, n, width)
    BY <1>1, <2>1, <2>2, <2>z DEF Lain
  <2>4. Lies(w, d, n, width)
    BY <2>2, <2>3, <2>z
  <2> QED BY <1>1, <2>4, RetrieveField
<1>2. CASE ~(d + width <= Len(w))
  BY <1>2 DEF Retrieve
<1> QED BY <1>1, <1>2

\* A string that is written is a list of bytes.
LEMMA StringIsList ==
  ASSUME NEW Bytes, AreBytes(Bytes), NEW s, IsString(s)
  PROVE  WriteStr(s) \in Seq(Bytes) /\ Len(WriteStr(s)) = 4 + s[2] /\ s[1] \in Nat /\ s[2] \in Nat
<1>s. PICK a, b : a = Field(s[2], 4) /\ b = Field(s[1], s[2])
  OBVIOUS
<1>1. s[1] \in Nat /\ s[2] \in Nat
  BY DEF IsString
<1>2. a \in Seq(Bytes) /\ Len(a) = 4 /\ b \in Seq(Bytes) /\ Len(b) = s[2]
  BY <1>1, <1>s, NumberIsList
<1>u. PICK u : u = a \o b
  OBVIOUS
<1>3. u \in Seq(Bytes) /\ Joined(u, a, b)
  BY <1>2, <1>u, JoinFacts
<1>4. WriteStr(s) = u
  BY <1>s, <1>u DEF WriteStr, Uint
<1> QED BY <1>1, <1>2, <1>3, <1>4 DEF Joined

\* What is read of a string that ends at "end".
StringRead(r, s, end, len) ==
  /\ end <= len => r.str = s /\ r.at = end
  /\ ~(end <= len) => r.at = Null

\* A string is read where it lies, or found cut short (retrieve_str).
LEMMA StringIsRead ==
  ASSUME NullIsApart, NEW s, IsString(s), NEW w, NEW d \in Nat, NEW len \in Nat, len = Len(w),
         Lain(WriteStr(s), w, d)
  PROVE  StringRead(RetrieveStr(w, d), s, d + (4 + s[2]), len)
<1>s. PICK a, b : a = Field(s[2], 4) /\ b = Field(s[1], s[2])
  OBVIOUS
<1>r. PICK r, n, value : r = RetrieveStr(w, d) /\ n = Retrieve(w, d, 4) /\ value = Retrieve(w, d + 4, n)
  OBVIOUS
<1>1. s[1] \in Nat /\ s[2] \in Nat
  BY DEF IsString
<1>2. a \in Seq(NumberBytes) /\ Len(a) = 4 /\ b \in Seq(NumberBytes)
  BY <1>1, <1>s, NumberIsList, NumbersAreBytes
<1>u. PICK u : u = a \o b
  OBVIOUS
<1>3. Lain(u, w, d)
  BY <1>s, <1>u DEF WriteStr, Uint
<1>4. Lain(a, w, d) /\ Lain(b, w, d + 4)
  <2>f. PICK four : four = Len(a)
    OBVIOUS
  <2>1. Lain(a, w, d) /\ Lain(b, w, d + four)
    <3>1. IsBoth(NumberBytes, u, a, b)
      BY <1>2, <1>u DEF IsBoth
    <3> QED BY <1>3, <2>f, <3>1, LainParts
  <2>2. four = 4
    BY <1>2, <2>f
  <2> QED BY <2>1, <2>2
<1>5. n = IF d + 4 <= len THEN s[2] ELSE Null
  <2>1. 4 \in Nat \ {0}
    OBVIOUS
  <2> QED BY <1>1, <1>4, <1>r, <1>s, <2>1, LainField
<1>6. r = CASE n = Null -> [str |-> NoString, at |-> Null]
            [] n = 0 -> [str |-> NoString, at |-> d + 4]
            [] OTHER -> [str |-> <<value, n>>, at |-> IF value = Null THEN Null ELSE d + 4 + n]
  BY <1>r, Zenon DEF RetrieveStr
<1>7. CASE ~(d + 4 <= len)
  <2>1. n = Null /\ Null # 0
    BY <1>5, <1>7 DEF NullIsApart
  <2>2. r = [str |-> NoString, at |-> Null]
    BY <1>6, <2>1
  <2>3. ~(d + (4 + s[2]) <= len)
    BY <1>1, <1>7
  <2> QED BY <1>r, <2>2, <2>3 DEF StringRead
<1>8. CASE d + 4 <= len /\ s[2] = 0
  <2>1. n = 0 /\ n # Null
    BY <1>5, <1>8 DEF NullIsApart
  <2>2. r = [str |-> NoString, at |-> d + 4]
    BY <1>6, <2>1
  <2>3. s = NoString
    BY <1>8 DEF IsString
  <2>4. d + (4 + s[2]) = d + 4
    BY <1>8
  <2> QED BY <1>8, <1>r, <2>2, <2>3, <2>4 DEF StringRead
<1>9. CASE d + 4 <= len /\ s[2] # 0
  <2>1. n = s[2] /\ n # Null /\ n # 0 /\ n \in Nat \ {0}
    BY <1>1, <1>5, <1>9 DEF NullIsApart
  <2>2. r = [str |-> <<value, n>>, at |-> IF value = Null THEN Null ELSE d + 4 + n]
    BY <1>6, <2>1
  <2>3. value = IF d + 4 + n <= len THEN s[1] ELSE Null
    <3>1. d + 4 \in Nat
      OBVIOUS
    <3> QED BY <1>1, <1>4, <1>r, <1>s, <2>1, <3>1, LainField
  <2>4. d + (4 + s[2]) = d + 4 + n
    BY <1>1, <2>1
  <2>5. s = <<s[1], s[2]>>
    BY DEF IsString
  <2>6. CASE d + 4 + n <= len
    <3>1. value = s[1] /\ value # Null
      BY <1>1, <2>3, <2>6 DEF NullIsApart
    <3>2. r = [str |-> <<value, n>>, at |-> d + 4 + n]
      BY <2>2, <3>1
    <3>3. <<value, n>> = s
      BY <2>1, <2>5, <3>1
    <3> QED BY <1>r, <2>4, <2>6, <3>2, <3>3 DEF StringRead
  <2>7. CASE ~(d + 4 + n <= len)
    <3>1. value = Null
      BY <2>3, <2>7
    <3>2. r.at = Null
      BY <2>2, <3>1
    <3> QED BY <1>r, <2>4, <2>7, <3>2 DEF StringRead
  <2> QED BY <2>6, <2>7
<1> QED BY <1>7, <1>8, <1>9

\* A list is written as its number and its pieces.
LEMMA ListIsList ==
  ASSUME NEW Bytes, AreBytes(Bytes), NEW pieces \in Seq(Seq(Bytes)), NEW flat, flat = FlattenSeq(pieces)
  PROVE  /\ WriteList(pieces) = Field(Len(pieces), 4) \o flat /\ flat \in Seq(Bytes)
         /\ Field(Len(pieces), 4) \in Seq(Bytes) /\ Len(Field(Len(pieces), 4)) = 4
         /\ WriteList(pieces) \in Seq(Bytes) /\ Len(WriteList(pieces)) = 4 + Len(flat)
         /\ Len(pieces) \in Nat
<1>a. PICK n, a : n = Len(pieces) /\ a = Field(n, 4)
  OBVIOUS
<1>1. n \in Nat
  BY <1>a, LenProperties
<1>2. a \in Seq(Bytes) /\ Len(a) = 4
  BY <1>1, <1>a, NumberIsList
<1>3. flat \in Seq(Bytes)
  BY FlattenType
<1>u. PICK u : u = a \o flat
  OBVIOUS
<1>4. u \in Seq(Bytes) /\ Joined(u, a, flat)
  BY <1>2, <1>3, <1>u, JoinFacts
<1>5. WriteList(pieces) = u
  BY <1>a, <1>u DEF WriteList, Uint
<1> QED BY <1>1, <1>2, <1>3, <1>4, <1>5, <1>a, <1>u DEF Joined

\* Pieces that lie behind each other from c to "end": pos[i] is where the first i end.
Spread(pieces, w, pos, c, end) ==
  /\ pos \in [0 .. Len(pieces) -> Nat] /\ pos[0] = c /\ pos[Len(pieces)] = end
  /\ \A i \in 1 .. Len(pieces) :
       pos[i] = pos[i - 1] + Len(pieces[i]) /\ pos[i] <= end /\ Lain(pieces[i], w, pos[i - 1])

\* The pieces of a list lie behind each other.
LEMMA PiecesLain ==
  ASSUME NEW Bytes, NEW pieces \in Seq(Seq(Bytes)), NEW u, u = FlattenSeq(pieces),
         NEW w, NEW c \in Nat, Lain(u, w, c)
  PROVE  \E pos : Spread(pieces, w, pos, c, c + Len(u))
<1>n. PICK n : n = Len(pieces)
  OBVIOUS
<1>0. n \in Nat
  BY <1>n, LenProperties
<1>1. CASE n = 0
  <2>1. pieces = <<>>
    BY <1>1, <1>n, EmptySeq
  <2>2. u = <<>> /\ Len(u) = 0
    BY <2>1, FlattenType, EmptySeq
  <2>p. PICK pos : pos = [i \in 0 .. n |-> c]
    OBVIOUS
  <2>3. pos \in [0 .. n -> Nat] /\ pos[0] = c /\ pos[n] = c + Len(u)
    BY <1>1, <2>2, <2>p
  <2>4. \A i \in 1 .. n : FALSE
    BY <1>1
  <2> QED BY <1>n, <2>3, <2>4 DEF Spread
<1>2. CASE n # 0
  <2>1. pieces # <<>>
    BY <1>2, <1>n, EmptySeq
  <2>2. PICK flat \in [1 .. n -> Seq(Bytes)] : Flattens(flat, pieces, n) /\ u = flat[n]
    BY <1>n, <2>1, FlattenSeqDef
  <2>p. PICK pos : pos = [i \in 0 .. n |-> IF i = 0 THEN c ELSE c + Len(flat[i])]
    OBVIOUS
  <2>3. \A i \in 1 .. n : flat[i] \in Seq(Bytes) /\ Len(flat[i]) \in Nat
    BY LenProperties
  <2>4. pos \in [0 .. n -> Nat] /\ pos[0] = c /\ (\A i \in 1 .. n : pos[i] = c + Len(flat[i]))
    <3>1. pos[0] = c
      BY <1>0, <2>p
    <3>2. \A i \in 1 .. n : pos[i] = c + Len(flat[i])
      BY <2>p
    <3>3. ASSUME NEW i \in 0 .. n PROVE pos[i] \in Nat
      <4>1. CASE i = 0
        BY <3>1, <4>1
      <4>2. CASE i # 0
        <5>1. i \in 1 .. n
          BY <4>2
        <5> QED BY <2>3, <3>2, <5>1
      <4> QED BY <4>1, <4>2
    <3> QED BY <2>p, <3>1, <3>2, <3>3
  <2> DEFINE Fits(i) == Lain(flat[i], w, c) /\ pos[i] <= c + Len(u)
  <2>5. Fits(n)
    <3>1. n \in 1 .. n
      BY <1>0, <1>2
    <3> QED BY <2>2, <2>3, <2>4, <3>1
  <2>6. ASSUME NEW i \in 2 .. n, Fits(i)
        PROVE  /\ Fits(i - 1) /\ pos[i] = pos[i - 1] + Len(pieces[i]) /\ Lain(pieces[i], w, pos[i - 1])
    <3>s. PICK a, b : a = flat[i - 1] /\ b = pieces[i]
      OBVIOUS
    <3>m. PICK m : m = Len(a)
      OBVIOUS
    <3>1. i \in 1 .. n /\ i - 1 \in 1 .. n /\ i # 1
      BY <1>0
    <3>2. flat[i] = a \o b
      BY <2>2, <3>1, <3>s DEF Flattens
    <3>3. a \in Seq(Bytes) /\ b \in Seq(Bytes)
      BY <1>n, <2>3, <3>1, <3>s, ElementOfSeq
    <3>u. PICK x : x = a \o b
      OBVIOUS
    <3>4. Lain(x, w, c)
      BY <2>6, <3>2, <3>u
    <3>5. m \in Nat /\ Len(b) \in Nat /\ Len(x) = m + Len(b) /\ Lain(a, w, c) /\ Lain(b, w, c + m)
      <4>1. IsBoth(Bytes, x, a, b)
        BY <3>3, <3>u DEF IsBoth
      <4>2. Lain(a, w, c) /\ Lain(b, w, c + m)
        BY <3>4, <3>m, <4>1, LainParts
      <4>3. m \in Nat /\ Len(b) \in Nat /\ Len(x) = m + Len(b)
        <5>1. Joined(x, a, b)
          BY <3>3, <3>u, JoinFacts
        <5> QED BY <3>m, <5>1 DEF Joined
      <4> QED BY <4>2, <4>3
    <3>6. pos[i] = c + Len(x) /\ pos[i - 1] = c + m
      BY <2>4, <3>1, <3>2, <3>m, <3>s, <3>u
    <3>7. pos[i - 1] <= c + Len(u)
      <4>1. pos[i] <= c + Len(u)
        BY <2>6
      <4>2. pos[i] = pos[i - 1] + Len(b) /\ pos[i - 1] \in Nat
        BY <3>5, <3>6
      <4>3. Len(u) \in Nat
        BY <1>0, <1>2, <2>2, <2>3
      <4> QED BY <3>5, <4>1, <4>2, <4>3
    <3>8. pos[i] = pos[i - 1] + Len(b) /\ pos[i - 1] = c + m
      BY <3>5, <3>6
    <3>9. Lain(flat[i - 1], w, c) /\ Lain(pieces[i], w, pos[i - 1])
      BY <3>5, <3>8, <3>s
    <3> QED BY <3>7, <3>8, <3>9, <3>s
  <2>7. \A i \in 1 .. n : Fits(i)
    <3> DEFINE T == {k \in Nat : k < n /\ ~Fits(n - k)}
    <3> HIDE DEF Fits
    <3> SUFFICES ASSUME T # {} PROVE FALSE
      <4>1. ASSUME NEW i \in 1 .. n, ~Fits(i) PROVE n - i \in T
        <5>1. n - i \in Nat /\ n - i < n /\ n - (n - i) = i
          BY <1>0
        <5> QED BY <4>1, <5>1
      <4> QED BY <4>1
    <3>1. T \subseteq Nat
      OBVIOUS
    <3>2. PICK x \in T : \A y \in T : x <= y
      BY <3>1, SmallestExists
    <3>3. x \in Nat /\ x < n /\ ~Fits(n - x)
      BY <3>2
    <3>4. x # 0
      <4>1. n - 0 = n
        BY <1>0
      <4> QED BY <2>5, <3>3, <4>1
    <3>5. x - 1 \in Nat /\ x - 1 < n /\ x - 1 \notin T
      <4>1. x \in Nat /\ x < n /\ x # 0
        BY <3>3, <3>4
      <4>2. x - 1 \in Nat /\ x - 1 < n
        BY <1>0, <4>1
      <4>3. x - 1 \notin T
        <5>1. ~(x <= x - 1)
          BY <4>1
        <5> QED BY <3>2, <5>1
      <4> QED BY <4>2, <4>3
    <3>6. Fits(n - (x - 1))
      BY <3>5
    <3>7. n - (x - 1) \in 2 .. n /\ (n - (x - 1)) - 1 = n - x
      BY <1>0, <3>3, <3>4
    <3>i. PICK i : i = n - (x - 1)
      OBVIOUS
    <3>8. i \in 2 .. n /\ Fits(i) /\ i - 1 = n - x
      BY <3>6, <3>7, <3>i
    <3>9. Fits(i - 1)
      BY <2>6, <3>8
    <3> QED BY <3>3, <3>8, <3>9
  <2>8. ASSUME NEW i \in 1 .. n
        PROVE  pos[i] = pos[i - 1] + Len(pieces[i]) /\ pos[i] <= c + Len(u) /\ Lain(pieces[i], w, pos[i - 1])
    <3>1. Fits(i)
      BY <2>7
    <3>2. CASE i = 1
      <4>1. flat[1] = pieces[1]
        <5>1. 1 \in 1 .. n
          BY <1>0, <1>2
        <5>2. \A j \in 1 .. n : flat[j] = IF j = 1 THEN pieces[j] ELSE flat[j - 1] \o pieces[j]
          BY <2>2 DEF Flattens
        <5> QED BY <5>1, <5>2
      <4>2. pos[i - 1] = c /\ pos[i] = c + Len(flat[i])
        BY <2>4, <3>2
      <4> QED BY <3>1, <3>2, <4>1, <4>2
    <3>3. CASE i # 1
      <4>1. i \in 2 .. n
        BY <3>3
      <4> QED BY <2>6, <3>1, <4>1
    <3> QED BY <3>2, <3>3
  <2>9. pos[n] = c + Len(u)
    BY <1>0, <1>2, <2>2, <2>4
  <2> HIDE DEF Fits
  <2> QED BY <1>n, <2>4, <2>8, <2>9 DEF Spread
<1> QED BY <1>1, <1>2

----------------------------------------------------------------------------
(* Lists of values *)

\* What is read of a value that ends at "end".
ValueRead(r, v, end, len) ==
  /\ end <= len => r.value = AsRead[v] /\ r.at # Null /\ (AsRead[v] # Empty => r.at = end)
  /\ ~(end <= len) => r.value = Empty /\ (r.at = Null \/ AsRead[v] = Empty)

\* Wherever the value v lies it is read.
IsValueRead(read, w, v) ==
  /\ Marshal[v] \in Seq(NumberBytes) /\ (AsRead[v] # Empty => AsRead[v] = v)
  /\ \A q \in 0 .. Len(w) :
       Lain(Marshal[v], w, q) => ValueRead(read[q], v, q + Len(Marshal[v]), Len(w))

\* The item x of a list stands for the value v, and is written as piece.
Item(names, x, piece, v) ==
  IF names THEN \E s : IsString(s) /\ x = <<s, v>> /\ piece = WriteStr(s) \o Marshal[v]
  ELSE x = v /\ piece = Marshal[v]

\* What one more part makes of the list read so far.
PartRead(more, s, x, v, end, len) ==
  /\ end <= len /\ AsRead[v] # Empty => more.on /\ more.at = end /\ more.list = Append(s.list, x)
  /\ ~(end <= len /\ AsRead[v] # Empty) =>
       /\ ~more.on /\ (end <= len => more.at # Null)
       /\ (~(end <= len) => more.at = Null \/ AsRead[v] = Empty)

\* The loop takes the value it has read, with its name if it has one.
LEMMA PartOfValue ==
  ASSUME NullIsApart, NEW s, NEW name, NEW r, NEW x, NEW v, NEW end \in Nat, NEW len \in Nat,
         ValueRead(r, v, end, len), AsRead[v] # Empty => AsRead[v] = v,
         end <= len => x = IF name = Null THEN v ELSE <<name, v>>
  PROVE  PartRead(WithPart(s, name, r), s, x, v, end, len)
<1>m. PICK more, y, list :
        more = WithPart(s, name, r) /\ y = (IF name = Null THEN r.value ELSE <<name, r.value>>) /\
            list = Append(s.list, y)
  OBVIOUS
<1>1. more = [list |-> list, at |-> r.at, on |-> r.value # Empty]
  BY <1>m DEF WithPart
<1>2. more.list = list /\ more.at = r.at /\ (more.on <=> r.value # Empty)
  BY <1>1
<1>3. CASE end <= len /\ AsRead[v] # Empty
  <2>1. r.value = v /\ r.at = end /\ r.value # Empty
    BY <1>3 DEF ValueRead
  <2>2. y = x
    BY <1>3, <1>m, <2>1
  <2>3. list = Append(s.list, x)
    BY <1>m, <2>2
  <2>4. more.on /\ more.at = end /\ more.list = Append(s.list, x)
    BY <1>2, <2>1, <2>3
  <2>5. PartRead(more, s, x, v, end, len)
    BY <1>3, <2>4 DEF PartRead
  <2> QED BY <1>m, <2>5
<1>4. CASE ~(end <= len /\ AsRead[v] # Empty)
  <2>1. r.value = Empty
    BY <1>4 DEF ValueRead
  <2>2. (end <= len => r.at # Null) /\ (~(end <= len) => r.at = Null \/ AsRead[v] = Empty)
    BY DEF ValueRead
  <2>3. PartRead(more, s, x, v, end, len)
    BY <1>2, <1>4, <2>1, <2>2 DEF PartRead
  <2> QED BY <1>m, <2>3
<1> QED BY <1>3, <1>4

\* A round of the loop reads an element where it lies.
LEMMA PieceIsRead ==
  ASSUME NullIsApart, NEW w, NEW len \in Nat, len = Len(w), NEW read, NEW names \in BOOLEAN,
         NEW x, NEW piece, NEW v, Item(names, x, piece, v), IsValueRead(read, w, v),
         NEW s, NEW d \in Nat, s.on, s.at = d, d <= len, Lain(piece, w, d),
         NEW end, end = d + Len(piece)
  PROVE  PartRead(MorePart(w, read, s, names), s, x, v, end, len)
<1>m. PICK m, l : m = Marshal[v] /\ l = Len(m)
  OBVIOUS
<1>0. m \in Seq(NumberBytes) /\ l \in Nat
  <2>1. m \in Seq(NumberBytes)
    BY <1>m DEF IsValueRead
  <2> QED BY <1>m, <2>1, LenProperties
<1>a. AsRead[v] # Empty => AsRead[v] = v
  BY DEF IsValueRead
<1>b. ASSUME NEW q \in 0 .. len, Lain(m, w, q) PROVE ValueRead(read[q], v, q + l, len)
  BY <1>b, <1>m DEF IsValueRead
<1>d. d # Null
  BY DEF NullIsApart
<1>1. CASE ~names
  <2>1. MorePart(w, read, s, names) = WithPart(s, Null, read[d])
    <3>1. MorePart(w, read, s, names) = WithPart(s, Null, ReadAt(read, d))
      BY <1>1 DEF MorePart
    <3> QED BY <1>d, <3>1 DEF ReadAt
  <2>2. x = v /\ piece = m
    BY <1>1, <1>m DEF Item
  <2>3. end = d + l /\ end \in Nat
    BY <1>0, <1>m, <2>2
  <2>4. ValueRead(read[d], v, end, len)
    <3>1. d \in 0 .. len /\ Lain(m, w, d)
      BY <2>2
    <3> QED BY <1>b, <2>3, <3>1
  <2>r. PICK r, name : r = read[d] /\ name = Null
    OBVIOUS
  <2>5. PartRead(WithPart(s, name, r), s, x, v, end, len)
    BY <1>a, <2>2, <2>3, <2>4, <2>r, PartOfValue
  <2> QED BY <2>1, <2>5, <2>r
<1>2. CASE names
  <2>1. PICK str : IsString(str) /\ x = <<str, v>> /\ piece = WriteStr(str) \o Marshal[v]
    BY <1>2 DEF Item
  <2>n. PICK name, a, e : name = RetrieveStr(w, d) /\ a = WriteStr(str) /\ e = d + (4 + str[2])
    OBVIOUS
  <2>2. a \in Seq(NumberBytes) /\ Len(a) = 4 + str[2] /\ str[2] \in Nat
    BY <2>1, <2>n, StringIsList, NumbersAreBytes
  <2>3. IsBoth(NumberBytes, piece, a, m)
    BY <1>0, <1>m, <2>1, <2>2, <2>n DEF IsBoth
  <2>4. Lain(a, w, d) /\ Lain(m, w, d + Len(a))
    <3>p. PICK k : k = Len(a)
      OBVIOUS
    <3>1. Lain(a, w, d) /\ Lain(m, w, d + k)
      BY <2>3, <3>p, LainParts
    <3> QED BY <3>1, <3>p
  <2>5. Len(piece) = Len(a) + l
    <3>1. Joined(piece, a, m)
      BY <1>0, <1>m, <2>1, <2>2, <2>n, JoinFacts
    <3> QED BY <1>m, <3>1 DEF Joined
  <2>6. d + Len(a) = e /\ end = e + l /\ e \in Nat /\ end \in Nat
    <3>k. PICK k, t : k = str[2] /\ t = Len(a)
      OBVIOUS
    <3>1. t = 4 + k /\ k \in Nat /\ e = d + (4 + k)
      BY <2>2, <2>n, <3>k
    <3>2. Len(piece) = t + l
      BY <2>5, <3>k
    <3>3. d + t = e /\ e \in Nat
      BY <3>1
    <3>4. end = d + (t + l)
      BY <3>2
    <3>5. end = e + l /\ end \in Nat
      BY <1>0, <3>1, <3>4
    <3> QED BY <3>3, <3>5, <3>k
  <2>7. Lain(m, w, e)
    BY <2>4, <2>6
  <2>8. StringRead(name, str, e, len)
    BY <2>1, <2>4, <2>n, StringIsRead
  <2>9. MorePart(w, read, s, names) = WithPart(s, name.str, ReadAt(read, name.at))
    BY <1>2, <2>n DEF MorePart
  <2>10. CASE e <= len
    <3>1. name.str = str /\ name.at = e
      BY <2>8, <2>10 DEF StringRead
    <3>2. e # Null
      BY <2>6 DEF NullIsApart
    <3>3. ReadAt(read, e) = read[e]
      BY <3>2 DEF ReadAt
    <3>4. str # Null
      <4>1. str = <<str[1], str[2]>>
        BY <2>1 DEF IsString
      <4>t. PICK t : t = <<str[1], str[2]>>
        OBVIOUS
      <4>2. t \in Seq({str[1], str[2]})
        BY <4>t
      <4> QED BY <4>1, <4>2, <4>t DEF NullIsApart, NullIsNoList
    <3>5. ValueRead(read[e], v, end, len)
      <4>1. e \in 0 .. len
        BY <2>6, <2>10
      <4> QED BY <1>b, <2>6, <2>7, <4>1
    <3>r. PICK r : r = read[e]
      OBVIOUS
    <3>6. x = IF str = Null THEN v ELSE <<str, v>>
      BY <2>1, <3>4
    <3>7. PartRead(WithPart(s, str, r), s, x, v, end, len)
      BY <1>a, <2>6, <3>5, <3>6, <3>r, PartOfValue
    <3> QED BY <2>9, <3>1, <3>3, <3>7, <3>r
  <2>11. CASE ~(e <= len)
    <3>1. name.at = Null
      BY <2>8, <2>11 DEF StringRead
    <3>2. ReadAt(read, name.at) = Failed
      BY <3>1 DEF ReadAt
    <3>3. ~(end <= len)
      BY <1>0, <2>6, <2>11
    <3>r. PICK more : more = WithPart(s, name.str, Failed)
      OBVIOUS
    <3>4. ~more.on /\ more.at = Null
      BY <3>r DEF WithPart, Failed
    <3>5. PartRead(more, s, x, v, end, len)
      BY <3>3, <3>4 DEF PartRead
    <3> QED BY <2>9, <3>2, <3>5, <3>r
  <2> QED BY <2>10, <2>11
<1> QED BY <1>1, <1>2

\* A list of items, their pieces and the values they stand for.
ItemsListed(T, items, pieces, vals, names, read, w) ==
  /\ items \in Seq(T) /\ pieces \in Seq(Seq(NumberBytes)) /\ Len(pieces) = Len(items)
  /\ \A i \in 1 .. Len(items) :
       Item(names, items[i], pieces[i], vals[i]) /\ IsValueRead(read, w, vals[i])

\* What is read of a list that ends at "end"; "empty" says whether a value in it is read as empty.
PartsRead(s, items, empty, end, len) ==
  /\ end <= len /\ ~empty => s.on /\ s.at = end /\ s.list = items
  /\ ~(end <= len /\ ~empty) =>
       ~s.on /\ (end <= len => s.at # Null) /\ (~(end <= len) => s.at = Null \/ empty)

SomeEmpty(vals, n) == \E i \in 1 .. n : AsRead[vals[i]] = Empty

\* The loop reads all the elements, or stops at the one that cannot be read.
LEMMA PartsAreRead ==
  ASSUME NullIsApart, NEW w, NEW len \in Nat, len = Len(w), NEW read, NEW names \in BOOLEAN,
         NEW T, NEW items, NEW pieces, NEW vals, ItemsListed(T, items, pieces, vals, names, read, w),
         NEW n, n = Len(items), NEW c \in Nat, c <= len, NEW end, NEW pos, Spread(pieces, w, pos, c, end)
  PROVE  PartsRead(ReadParts(w, read, n, c, names), items, SomeEmpty(vals, n), end, len)
<1>0. /\ n \in Nat /\ items \in Seq(T) /\ \A i \in 1 .. n : items[i] \in T
      /\ pos \in [0 .. n -> Nat] /\ pos[0] = c /\ pos[n] = end /\ end \in Nat
  <2>1. n \in Nat /\ items \in Seq(T) /\ Len(pieces) = n
    BY LenProperties DEF ItemsListed
  <2>2. pos \in [0 .. n -> Nat] /\ pos[0] = c /\ pos[n] = end
    BY <2>1 DEF Spread
  <2>3. n \in 0 .. n
    BY <2>1
  <2> QED BY <2>1, <2>2, <2>3, ElementOfSeq
<1>1. ASSUME NEW i \in 1 .. n
      PROVE  /\ Item(names, items[i], pieces[i], vals[i]) /\ IsValueRead(read, w, vals[i])
             /\ pos[i] = pos[i - 1] + Len(pieces[i]) /\ pos[i] <= end /\ Lain(pieces[i], w, pos[i - 1])
             /\ pos[i - 1] \in Nat /\ pos[i] \in Nat /\ i - 1 \in Nat
  <2>1. Item(names, items[i], pieces[i], vals[i]) /\ IsValueRead(read, w, vals[i])
    BY DEF ItemsListed
  <2>2. i \in 1 .. Len(pieces)
    BY DEF ItemsListed
  <2>3. pos[i] = pos[i - 1] + Len(pieces[i]) /\ pos[i] <= end /\ Lain(pieces[i], w, pos[i - 1])
    BY <2>2 DEF Spread
  <2>4. i \in 0 .. n /\ i - 1 \in 0 .. n
    BY <1>0
  <2> QED BY <1>0, <2>1, <2>3, <2>4
<1>e. PICK empty \in BOOLEAN : empty <=> SomeEmpty(vals, n)
  BY DEF SomeEmpty
<1>l. PICK l : Loops(l, w, read, n, c, names) /\ ReadParts(w, read, n, c, names) = l[n]
  BY <1>0, LoopExists
<1> DEFINE So(i) == \A j \in 1 .. i : l[i].list[j] = items[j] /\ AsRead[vals[j]] # Empty
           On(i) == /\ l[i].on /\ l[i].at = pos[i] /\ pos[i] <= len
                    /\ l[i].list \in Seq(T) /\ Len(l[i].list) = i /\ So(i)
           Off(i) == ~l[i].on /\ (end <= len => l[i].at # Null /\ empty) /\
               (~(end <= len) => l[i].at = Null \/ empty)
           Holds(i) == On(i) \/ Off(i)
           S == {i \in 0 .. n : ~Holds(i)}
<1>2. Holds(0)
  <2>1. l[0] = NoPart(c)
    BY <1>l DEF Loops
  <2>2. l[0].on /\ l[0].at = c /\ l[0].list = <<>>
    BY <2>1 DEF NoPart
  <2>3. l[0].list \in Seq(T) /\ Len(l[0].list) = 0
    BY <2>2, EmptySeq
  <2>4. So(0)
    OBVIOUS
  <2> QED BY <1>0, <2>2, <2>3, <2>4
<1>3. ASSUME NEW i \in 1 .. n, Holds(i - 1) PROVE Holds(i)
  <2>1. l[i] = MorePart(w, read, l[i - 1], names)
    BY <1>l DEF Loops
  <2>2. CASE Off(i - 1)
    <3>1. l[i] = l[i - 1]
      BY <2>1, <2>2 DEF MorePart
    <3>2. Off(i)
      BY <2>2, <3>1
    <3> QED BY <3>2
  <2>3. CASE On(i - 1)
    <3>p. PICK s, x, v, d, e, piece :
            /\ s = l[i - 1] /\ x = items[i] /\ v = vals[i] /\ d = pos[i - 1] /\ e = pos[i] /\
                 piece = pieces[i]
      OBVIOUS
    <3>1. s.on /\ s.at = d /\ d <= len /\ s.list \in Seq(T) /\ Len(s.list) = i - 1
      BY <2>3, <3>p
    <3>2. /\ Item(names, x, piece, v) /\ IsValueRead(read, w, v) /\ e = d + Len(piece) /\ e <= end
          /\ Lain(piece, w, d) /\ d \in Nat /\ e \in Nat /\ i - 1 \in Nat /\ x \in T
      BY <1>0, <1>1, <3>p
    <3>3. PartRead(MorePart(w, read, s, names), s, x, v, e, len)
      BY <3>1, <3>2, PieceIsRead
    <3>m. PICK more : more = l[i]
      OBVIOUS
    <3>4. PartRead(more, s, x, v, e, len)
      BY <2>1, <3>3, <3>m, <3>p
    <3>5. CASE e <= len /\ AsRead[v] # Empty
      <4>1. more.on /\ more.at = e /\ more.list = Append(s.list, x)
        BY <3>4, <3>5 DEF PartRead
      <4>q. PICK q, r : q = s.list /\ r = Append(q, x)
        OBVIOUS
      <4>2. /\ r \in Seq(T) /\ Len(r) = Len(q) + 1 /\ \A j \in 1 .. Len(q) : r[j] = q[j]
            /\ r[Len(q) + 1] = x
        BY <3>1, <3>2, <4>q, AppendProperties
      <4>3. Len(q) = i - 1 /\ (i - 1) + 1 = i
        BY <3>1, <4>q
      <4>4. r \in Seq(T) /\ Len(r) = i /\ r[i] = x /\ \A j \in 1 .. i - 1 : r[j] = q[j]
        BY <4>2, <4>3
      <4>5. ASSUME NEW j \in 1 .. i PROVE r[j] = items[j] /\ AsRead[vals[j]] # Empty
        <5>1. CASE j = i
          BY <3>5, <3>p, <4>4, <5>1
        <5>2. CASE j # i
          <6>1. j \in 1 .. i - 1
            BY <5>2
          <6>2. q[j] = items[j] /\ AsRead[vals[j]] # Empty
            BY <2>3, <3>p, <4>q, <6>1
          <6> QED BY <4>4, <6>1, <6>2
        <5> QED BY <5>1, <5>2
      <4>6. l[i].list = r
        BY <3>m, <4>1, <4>q
      <4>7. So(i)
        BY <4>5, <4>6
      <4>8. l[i].on /\ l[i].at = pos[i] /\ pos[i] <= len
        BY <3>5, <3>m, <3>p, <4>1
      <4> HIDE DEF So
      <4> QED BY <4>4, <4>6, <4>7, <4>8
    <3>6. CASE ~(e <= len /\ AsRead[v] # Empty)
      <4>1. /\ ~more.on /\ (e <= len => more.at # Null)
            /\ (~(e <= len) => more.at = Null \/ AsRead[v] = Empty)
        BY <3>4, <3>6 DEF PartRead
      <4>2. AsRead[v] = Empty => empty
        BY <1>e, <3>p DEF SomeEmpty
      <4>3. end <= len => e <= len
        BY <1>0, <3>2
      <4>4. Off(i)
        BY <3>6, <3>m, <4>1, <4>2, <4>3
      <4> HIDE DEF On, Off
      <4> QED BY <4>4
    <3> QED BY <3>5, <3>6
  <2> HIDE DEF On, Off
  <2> QED BY <1>3, <2>2, <2>3
<1>4. Holds(n)
  <2> HIDE DEF Holds
  <2> SUFFICES ASSUME S # {} PROVE FALSE
    BY <1>0
  <2>1. S \subseteq Nat
    OBVIOUS
  <2>2. PICK x \in S : \A y \in S : x <= y
    BY <2>1, SmallestExists
  <2>3. x \in 0 .. n /\ ~Holds(x)
    BY <2>2
  <2>4. x # 0
    BY <1>2, <2>3
  <2>5. x \in 1 .. n /\ x - 1 \in 0 .. n /\ x - 1 \notin S
    BY <1>0, <2>2, <2>3, <2>4
  <2> QED BY <1>3, <2>3, <2>5
<1>5. PartsRead(l[n], items, empty, end, len)
  <2>1. CASE On(n)
    <3>1. l[n].on /\ l[n].at = end /\ end <= len
      BY <1>0, <2>1
    <3>2. ~empty
      BY <1>e, <2>1 DEF SomeEmpty
    <3>3. l[n].list = items
      <4>1. l[n].list \in Seq(T) /\ Len(l[n].list) = Len(items) /\
          \A j \in 1 .. Len(items) : l[n].list[j] = items[j]
        BY <2>1
      <4> QED BY <1>0, <4>1, SeqEqual
    <3> QED BY <3>1, <3>2, <3>3 DEF PartsRead
  <2>2. CASE Off(n)
    BY <2>2 DEF PartsRead
  <2> HIDE DEF On, Off
  <2> QED BY <1>4, <2>1, <2>2
<1>6. empty = SomeEmpty(vals, n)
  BY <1>e DEF SomeEmpty
<1> QED BY <1>5, <1>6, <1>l

\* A place in a buffer of len bytes: p, if it is not beyond the end.
Reached(r, p, len) == r = IF p <= len THEN p ELSE Null

\* A list is read where it lies.
LEMMA ListIsRead ==
  ASSUME NullIsApart, NEW w, NEW len \in Nat, len = Len(w), NEW read, NEW names \in BOOLEAN,
         NEW T, NEW items, NEW pieces, NEW vals, ItemsListed(T, items, pieces, vals, names, read, w),
         NEW n, n = Len(items), NEW p \in Nat, NEW r, Reached(r, p, len), Lain(WriteList(pieces), w, p),
         NEW end, end = p + Len(WriteList(pieces))
  PROVE  PartsRead(ReadList(w, read, r, names), items, SomeEmpty(vals, n), end, len)
<1>f. PICK flat, a : flat = FlattenSeq(pieces) /\ a = Field(n, 4)
  OBVIOUS
<1>0. /\ n \in Nat /\ pieces \in Seq(Seq(NumberBytes)) /\ Len(pieces) = n
  <2>1. n \in Nat /\ pieces \in Seq(Seq(NumberBytes)) /\ Len(pieces) = n
    BY LenProperties DEF ItemsListed
  <2> QED BY <2>1
<1>1. /\ IsBoth(NumberBytes, WriteList(pieces), a, flat) /\ Len(a) = 4 /\ Len(flat) \in Nat
      /\ Len(WriteList(pieces)) = 4 + Len(flat)
  <2>1. /\ WriteList(pieces) = a \o flat /\ flat \in Seq(NumberBytes)
        /\ a \in Seq(NumberBytes) /\ Len(a) = 4 /\ Len(WriteList(pieces)) = 4 + Len(flat)
    BY <1>0, <1>f, ListIsList, NumbersAreBytes
  <2>2. Len(flat) \in Nat
    BY <2>1, LenProperties
  <2> QED BY <2>1, <2>2 DEF IsBoth
<1>2. Lain(a, w, p) /\ Lain(flat, w, p + 4)
  <2>k. PICK k : k = Len(a)
    OBVIOUS
  <2>1. Lain(a, w, p) /\ Lain(flat, w, p + k)
    BY <1>1, <2>k, LainParts
  <2> QED BY <1>1, <2>1, <2>k
<1>3. Retrieve(w, p, 4) = IF p + 4 <= len THEN n ELSE Null
  <2>1. 4 \in Nat \ {0}
    OBVIOUS
  <2> QED BY <1>0, <1>2, <1>f, <2>1, LainField
<1>c. PICK c, e : c = p + 4 /\ e = c + Len(flat)
  OBVIOUS
<1>4. end = e /\ c \in Nat /\ e \in Nat /\ c <= e
  BY <1>1, <1>c
<1>5. CASE c <= len
  <2>1. r = p /\ p # Null
    BY <1>5, <1>c DEF Reached, NullIsApart
  <2>2. n # Null
    BY <1>0 DEF NullIsApart
  <2>3. ReadList(w, read, r, names) = ReadParts(w, read, n, c, names)
    <3>1. Retrieve(w, r, 4) = n
      BY <1>3, <1>5, <1>c, <2>1
    <3>m. PICK m : m = IF r = Null THEN Null ELSE Retrieve(w, r, 4)
      OBVIOUS
    <3>2. m = n
      BY <2>1, <3>1, <3>m
    <3>3. ReadList(w, read, r, names) =
            IF m = Null THEN [NoPart(Null) EXCEPT !.on = FALSE] ELSE ReadParts(w, read, m, r + 4, names)
      BY <3>m, Zenon DEF ReadList
    <3>4. ReadList(w, read, r, names) = ReadParts(w, read, m, r + 4, names)
      BY <2>2, <3>2, <3>3
    <3> QED BY <1>c, <2>1, <3>2, <3>4
  <2>4. PICK pos : Spread(pieces, w, pos, c, e)
    <3>1. Lain(flat, w, c)
      BY <1>2, <1>c
    <3> QED BY <1>0, <1>4, <1>c, <1>f, <3>1, PiecesLain
  <2>5. PartsRead(ReadParts(w, read, n, c, names), items, SomeEmpty(vals, n), e, len)
    BY <1>4, <1>5, <2>4, PartsAreRead
  <2> QED BY <1>4, <2>3, <2>5
<1>6. CASE ~(c <= len)
  <2>m. PICK m : m = IF r = Null THEN Null ELSE Retrieve(w, r, 4)
    OBVIOUS
  <2>1. m = Null
    <3>1. CASE r = Null
      BY <2>m, <3>1
    <3>2. CASE r # Null
      <4>1. r = p
        BY <3>2 DEF Reached
      <4> QED BY <1>3, <1>6, <1>c, <2>m, <4>1
    <3> QED BY <3>1, <3>2
  <2>2. ReadList(w, read, r, names) =
          IF m = Null THEN [NoPart(Null) EXCEPT !.on = FALSE] ELSE ReadParts(w, read, m, r + 4, names)
    BY <2>m, Zenon DEF ReadList
  <2>3. ReadList(w, read, r, names) = [NoPart(Null) EXCEPT !.on = FALSE]
    BY <2>1, <2>2
  <2>4. ~[NoPart(Null) EXCEPT !.on = FALSE].on /\ [NoPart(Null) EXCEPT !.on = FALSE].at = Null
    BY DEF NoPart
  <2>5. ~(end <= len)
    BY <1>4, <1>6
  <2> QED BY <2>3, <2>4, <2>5 DEF PartsRead
<1> QED BY <1>5, <1>6

\* What the loop over parts has read is what is made of it, or nothing.
LEMMA WholeIsRead ==
  ASSUME NEW all, NEW items, NEW empty, NEW end, NEW len, PartsRead(all, items, empty, end, len),
         NEW v, NEW made, end <= len /\ ~empty => made = v,
         empty => AsRead[v] = Empty, ~empty => AsRead[v] = v, v # Empty, end # Null
  PROVE  ValueRead(Whole(made, all), v, end, len)
<1>r. PICK r : r = Whole(made, all)
  OBVIOUS
<1>1. CASE end <= len /\ ~empty
  <2>1. all.on /\ all.at = end
    BY <1>1 DEF PartsRead
  <2>2. r.value = made /\ r.at = end
    BY <1>r, <2>1 DEF Whole
  <2>3. made = v
    BY <1>1
  <2> QED BY <1>1, <1>r, <2>2, <2>3 DEF ValueRead
<1>2. CASE ~(end <= len /\ ~empty)
  <2>1. ~all.on /\ (end <= len => all.at # Null) /\ (~(end <= len) => all.at = Null \/ empty)
    BY <1>2 DEF PartsRead
  <2>2. r.value = Empty /\ r.at = all.at
    BY <1>r, <2>1 DEF Whole, GivenUp
  <2>3. CASE end <= len
    <3>1. empty
      BY <1>2, <2>3
    <3> QED BY <1>r, <2>1, <2>2, <2>3, <3>1 DEF ValueRead
  <2>4. CASE ~(end <= len)
    BY <1>r, <2>1, <2>2, <2>4 DEF ValueRead
  <2> QED BY <2>3, <2>4
<1> QED BY <1>1, <1>2

\* A number or a string that is read.
LEMMA SimpleIsRead ==
  ASSUME NEW type, NEW val, NEW end, NEW len, NEW x, NEW r, r = Simple(type, val, end),
         end <= len => val = x, ~(end <= len) => val = Null, x # Null, end # Null,
         NEW v, v = [type |-> type, val |-> x], AsRead[v] = v
  PROVE  ValueRead(r, v, end, len)
<1>1. CASE end <= len
  <2>1. r = [value |-> [type |-> type, val |-> val], at |-> end]
    BY <1>1 DEF Simple
  <2>2. r.value = v /\ r.at = end
    BY <1>1, <2>1
  <2> QED BY <1>1, <2>2 DEF ValueRead
<1>2. CASE ~(end <= len)
  <2>1. r.value = Empty /\ r.at = Null
    BY <1>2 DEF Simple, Failed
  <2> QED BY <1>2, <2>1 DEF ValueRead
<1> QED BY <1>1, <1>2

----------------------------------------------------------------------------
(* Values of each type *)

\* The values of a list, and the fields of a struct.
LEMMA ListedValues ==
  ASSUME NEW list \in Seq(Values), NEW read, NEW w, \A i \in DOMAIN list : IsValueRead(read, w, list[i]),
         NEW pieces, pieces = [i \in DOMAIN list |-> Marshal[list[i]]], NEW names \in BOOLEAN, ~names
  PROVE  ItemsListed(Values, list, pieces, list, names, read, w)
<1>n. PICK n : n = Len(list)
  OBVIOUS
<1>1. n \in Nat /\ DOMAIN list = 1 .. n
  BY <1>n, LenProperties
<1>2. \A i \in 1 .. n : pieces[i] = Marshal[list[i]] /\ Marshal[list[i]] \in Seq(NumberBytes)
  BY <1>1 DEF IsValueRead
<1>3. pieces \in [1 .. n -> Seq(NumberBytes)]
  BY <1>1, <1>2
<1>4. pieces \in Seq(Seq(NumberBytes)) /\ Len(pieces) = n
  BY <1>1, <1>3, IsSequence
<1>5. \A i \in 1 .. n : Item(names, list[i], pieces[i], list[i])
  BY <1>2 DEF Item
<1> QED BY <1>1, <1>4, <1>5, <1>n DEF ItemsListed

\* The named fields of a struct, as such a list.
LEMMA ListedFields ==
  ASSUME NEW fields \in Seq((Nat \X Nat) \X Values), \A i \in DOMAIN fields : IsString(fields[i][1]),
         NEW read, NEW w, \A i \in DOMAIN fields : IsValueRead(read, w, fields[i][2]),
         NEW pieces, pieces = [i \in DOMAIN fields |-> WriteStr(fields[i][1]) \o Marshal[fields[i][2]]],
         NEW vals, vals = [i \in DOMAIN fields |-> fields[i][2]], NEW names \in BOOLEAN, names
  PROVE  ItemsListed((Nat \X Nat) \X Values, fields, pieces, vals, names, read, w)
<1>n. PICK n : n = Len(fields)
  OBVIOUS
<1>1. n \in Nat /\ DOMAIN fields = 1 .. n /\ \A i \in 1 .. n : fields[i] \in (Nat \X Nat) \X Values
  BY <1>n, LenProperties, ElementOfSeq
<1>2. ASSUME NEW i \in 1 .. n
      PROVE  pieces[i] \in Seq(NumberBytes) /\ Item(names, fields[i], pieces[i], vals[i])
  <2>s. PICK s, v, a, b, u : /\ s = fields[i][1] /\ v = fields[i][2] /\ a = WriteStr(s) /\ b = Marshal[v]
                             /\ u = a \o b
    <3>1. \E s, v : s = fields[i][1] /\ v = fields[i][2]
      OBVIOUS
    <3>2. PICK s, v : s = fields[i][1] /\ v = fields[i][2]
      BY <3>1
    <3>3. PICK a, b : a = WriteStr(s) /\ b = Marshal[v]
      OBVIOUS
    <3>4. PICK u : u = a \o b
      OBVIOUS
    <3> QED BY <3>2, <3>3, <3>4
  <2>1. IsString(s) /\ b \in Seq(NumberBytes) /\ fields[i] = <<s, v>>
    <3>1. i \in DOMAIN fields
      BY <1>1
    <3>2. IsString(s)
      BY <2>s, <3>1
    <3>3. IsValueRead(read, w, v)
      BY <2>s, <3>1
    <3>4. b \in Seq(NumberBytes)
      BY <2>s, <3>3 DEF IsValueRead
    <3>5. fields[i] = <<s, v>>
      BY <1>1, <2>s
    <3> QED BY <3>2, <3>4, <3>5
  <2>2. a \in Seq(NumberBytes)
    BY <2>1, <2>s, StringIsList, NumbersAreBytes
  <2>3. u \in Seq(NumberBytes)
    BY <2>1, <2>2, <2>s, JoinFacts
  <2>4. pieces[i] = u /\ vals[i] = v
    BY <1>1, <2>s
  <2>5. u = WriteStr(s) \o Marshal[v]
    BY <2>s
  <2>6. Item(names, fields[i], u, v)
    BY <2>1, <2>5 DEF Item
  <2> QED BY <2>3, <2>4, <2>6
<1>3. pieces \in [1 .. n -> Seq(NumberBytes)]
  BY <1>1, <1>2
<1>4. pieces \in Seq(Seq(NumberBytes)) /\ Len(pieces) = n
  BY <1>1, <1>3, IsSequence
<1>5. \A i \in 1 .. n : IsValueRead(read, w, vals[i])
  BY <1>1
<1> QED BY <1>1, <1>2, <1>4, <1>5, <1>n DEF ItemsListed

\* A number, or a string, in front of the rest.
LEMMA NumberAhead ==
  ASSUME NEW n \in Nat, NEW rest, NEW u, IsBoth(NumberBytes, u, Field(n, 4), rest), NEW w, NEW d \in Nat,
         Lain(u, w, d)
  PROVE  /\ Retrieve(w, d, 4) = IF d + 4 <= Len(w) THEN n ELSE Null
         /\ Lain(rest, w, d + 4) /\ Len(rest) \in Nat /\ Len(u) = 4 + Len(rest)
<1>a. PICK a : a = Field(n, 4)
  OBVIOUS
<1>k. PICK k : k = Len(a)
  OBVIOUS
<1>1. k = 4
  BY <1>a, <1>k, NumberIsList, NumbersAreBytes
<1>2. IsBoth(NumberBytes, u, a, rest)
  BY <1>a
<1>3. Lain(a, w, d) /\ Lain(rest, w, d + k)
  BY <1>2, <1>k, LainParts
<1>4. Len(rest) \in Nat /\ Len(u) = k + Len(rest)
  <2>1. Joined(u, a, rest)
    BY <1>2, JoinFacts DEF IsBoth
  <2> QED BY <1>k, <2>1 DEF Joined
<1>5. Retrieve(w, d, 4) = IF d + 4 <= Len(w) THEN n ELSE Null
  <2>1. 4 \in Nat \ {0}
    OBVIOUS
  <2> QED BY <1>3, <1>a, <2>1, LainField
<1> QED BY <1>1, <1>3, <1>4, <1>5

\* A string with something behind it is read, and what is behind it lies behind it.
LEMMA StringAhead ==
  ASSUME NullIsApart, NEW s, IsString(s), NEW rest, NEW u, IsBoth(NumberBytes, u, WriteStr(s), rest),
         NEW w, NEW len \in Nat, len = Len(w), NEW d \in Nat, Lain(u, w, d), NEW e, e = d + (4 + s[2])
  PROVE  /\ StringRead(RetrieveStr(w, d), s, e, len) /\ Lain(rest, w, e) /\ Len(rest) \in Nat
         /\ e \in Nat /\ d + 4 <= e /\ d + Len(u) = e + Len(rest)
<1>a. PICK a, k, size : a = WriteStr(s) /\ k = Len(a) /\ size = s[2]
  OBVIOUS
<1>1. k = 4 + size /\ size \in Nat
  BY <1>a, StringIsList, NumbersAreBytes
<1>2. IsBoth(NumberBytes, u, a, rest)
  BY <1>a
<1>3. Lain(a, w, d) /\ Lain(rest, w, d + k)
  BY <1>2, <1>a, LainParts
<1>4. Len(rest) \in Nat /\ Len(u) = k + Len(rest)
  <2>1. Joined(u, a, rest)
    BY <1>2, JoinFacts DEF IsBoth
  <2> QED BY <1>a, <2>1 DEF Joined
<1>5. e = d + (4 + size)
  BY <1>a
<1>6. d + k = e /\ e \in Nat /\ d + 4 <= e /\ d + Len(u) = e + Len(rest)
  BY <1>1, <1>4, <1>5
<1>7. StringRead(RetrieveStr(w, d), s, e, len)
  BY <1>3, <1>a, StringIsRead
<1> QED BY <1>3, <1>4, <1>6, <1>7

\* The parts of v are read wherever they lie, and v is empty for its reader if one of them is.
PartsReadable(read, w, v) ==
  /\ AsRead[v] = AsReadOf(AsRead, v)
  /\ \A i \in DOMAIN Parts(v) : IsValueRead(read, w, Parts(v)[i])

\* A value is read as empty if one of its parts is.
LEMMA EmptyParts ==
  ASSUME NEW v, NEW vals, vals = Parts(v), NEW n \in Nat, DOMAIN vals = 1 .. n, NEW read, NEW w,
         PartsReadable(read, w, v)
  PROVE  /\ SomeEmpty(vals, n) => AsRead[v] = Empty
         /\ ~SomeEmpty(vals, n) => AsRead[v] = v
<1>1. AsRead[v] = IF \E i \in DOMAIN Parts(v) : AsRead[Parts(v)[i]] = Empty THEN Empty ELSE v
  BY DEF PartsReadable, AsReadOf
<1>2. SomeEmpty(vals, n) <=> \E i \in DOMAIN Parts(v) : AsRead[Parts(v)[i]] = Empty
  BY DEF SomeEmpty
<1> QED BY <1>1, <1>2

\* An array.
ArrayRest(v) ==
  Uint(v.of) \o WriteStr(v.adt) \o WriteList([i \in DOMAIN v.list |-> Marshal[v.list[i]]])

ArrayValues == [type : {ARRAY_TYPE}, of : Nat, adt : Nat \X Nat, list : Seq(Values)]
\* What is behind the type of an array is read where it lies.
LEMMA ArrayIsRead ==
  ASSUME NullIsApart, NEW v \in ArrayValues, IsString(v.adt), NEW w, NEW len \in Nat, len = Len(w),
         NEW read, PartsReadable(read, w, v), NEW d \in Nat, Lain(ArrayRest(v), w, d)
  PROVE  /\ ArrayRest(v) \in Seq(NumberBytes)
         /\ ValueRead(ReadArray(w, read, d), v, d + Len(ArrayRest(v)), len)
<1>v. /\ v.type = ARRAY_TYPE /\ v.of \in Nat /\ v.list \in Seq(Values)
      /\ v = [type |-> ARRAY_TYPE, of |-> v.of, adt |-> v.adt, list |-> v.list]
  BY DEF ArrayValues
<1>p. PICK list, of, str : list = v.list /\ of = v.of /\ str = v.adt
  OBVIOUS
<1>q. PICK pieces : pieces = [i \in DOMAIN list |-> Marshal[list[i]]]
  OBVIOUS
<1>n. PICK n : n = Len(list)
  OBVIOUS
<1>o. PICK no \in BOOLEAN : no = FALSE
  OBVIOUS
<1>0. n \in Nat /\ DOMAIN list = 1 .. n /\ list \in Seq(Values)
  BY <1>n, <1>p, <1>v, LenProperties
<1>1. Parts(v) = list
  BY <1>p, <1>v DEF Parts, ARRAY_TYPE, SEP_TYPE, VAR_ADT_TYPE
<1>2. ItemsListed(Values, list, pieces, list, no, read, w)
  <2>1. \A i \in DOMAIN list : IsValueRead(read, w, list[i])
    BY <1>1 DEF PartsReadable
  <2>2. ~no
    BY <1>o
  <2>3. no \in BOOLEAN
    OBVIOUS
  <2> QED BY <1>0, <1>q, <2>1, <2>2, <2>3, ListedValues
<1>e. PICK empty : empty = SomeEmpty(list, n)
  OBVIOUS
<1>3. (empty => AsRead[v] = Empty) /\ (~empty => AsRead[v] = v)
  BY <1>0, <1>1, <1>e, EmptyParts
<1>l. PICK a, s, l : /\ a = Field(of, 4) /\ s = WriteStr(str) /\ l = WriteList(pieces)
  OBVIOUS
<1>u. PICK u : u = a \o s
  OBVIOUS
<1>r. PICK rest : rest = u \o l
  OBVIOUS
<1>4. ArrayRest(v) = rest
  BY <1>l, <1>p, <1>q, <1>r, <1>u DEF ArrayRest, Uint
<1>5. /\ a \in Seq(NumberBytes) /\ s \in Seq(NumberBytes) /\ l \in Seq(NumberBytes) /\ Len(a) = 4
      /\ u \in Seq(NumberBytes) /\ rest \in Seq(NumberBytes)
  <2>1. a \in Seq(NumberBytes) /\ Len(a) = 4
    BY <1>l, <1>p, <1>v, NumberIsList, NumbersAreBytes
  <2>2. s \in Seq(NumberBytes)
    BY <1>l, <1>p, StringIsList, NumbersAreBytes
  <2>3. pieces \in Seq(Seq(NumberBytes))
    BY <1>2 DEF ItemsListed
  <2>4. l \in Seq(NumberBytes)
    BY <1>l, <2>3, ListIsList, NumbersAreBytes
  <2>5. u \in Seq(NumberBytes)
    BY <1>u, <2>1, <2>2, JoinFacts
  <2>6. rest \in Seq(NumberBytes)
    BY <1>r, <2>4, <2>5, JoinFacts
  <2> QED BY <2>1, <2>2, <2>4, <2>5, <2>6
<1>6. IsBoth(NumberBytes, rest, u, l) /\ IsBoth(NumberBytes, u, a, s)
  BY <1>5, <1>r, <1>u DEF IsBoth
<1>7. Lain(rest, w, d)
  BY <1>4
<1>k. PICK k : k = Len(u)
  OBVIOUS
<1>8. Lain(u, w, d) /\ Lain(l, w, d + k) /\ Len(rest) = k + Len(l) /\ k \in Nat /\ Len(l) \in Nat
  <2>1. Lain(u, w, d) /\ Lain(l, w, d + k)
    BY <1>6, <1>7, <1>k, LainParts
  <2>2. Joined(rest, u, l)
    BY <1>5, <1>r, JoinFacts
  <2> QED BY <1>k, <2>1, <2>2 DEF Joined
<1>9. /\ Retrieve(w, d, 4) = IF d + 4 <= len THEN of ELSE Null
      /\ Lain(s, w, d + 4) /\ k = 4 + Len(s)
  <2>1. of \in Nat /\ IsBoth(NumberBytes, u, Field(of, 4), s)
    BY <1>6, <1>l, <1>p, <1>v
  <2> QED BY <1>8, <1>k, <2>1, NumberAhead
<1>g. PICK g, e, adt, size : /\ size = str[2] /\ g = d + 4 /\ e = g + (4 + size) /\ adt = RetrieveStr(w, g)
  OBVIOUS
<1>10. /\ StringRead(adt, str, e, len) /\ e \in Nat /\ d + k = e /\ d + 4 <= e
  <2>1. IsString(str) /\ g \in Nat /\ Lain(s, w, g)
    BY <1>9, <1>g, <1>p
  <2>2. StringRead(adt, str, e, len)
    BY <1>g, <1>l, <2>1, StringIsRead
  <2>3. Len(s) = 4 + size /\ size \in Nat
    BY <1>g, <1>l, <2>1, StringIsList, NumbersAreBytes
  <2>4. g = d + 4 /\ e = g + (4 + size)
    BY <1>g
  <2> QED BY <1>9, <2>2, <2>3, <2>4
<1>11. Reached(adt.at, e, len)
  BY <1>10 DEF StringRead, Reached
<1>f. PICK at, end, all : at = adt.at /\ end = e + Len(l) /\ all = ReadList(w, read, at, no)
  OBVIOUS
<1>12. PartsRead(all, list, empty, end, len)
  <2>1. Lain(l, w, e) /\ Reached(at, e, len) /\ e \in Nat
    BY <1>8, <1>10, <1>11, <1>f
  <2>2. Lain(WriteList(pieces), w, e) /\ end = e + Len(WriteList(pieces))
    BY <1>f, <1>l, <2>1
  <2>3. PartsRead(ReadList(w, read, at, no), list, SomeEmpty(list, n), end, len)
    BY <1>2, <1>n, <2>1, <2>2, ListIsRead
  <2> QED BY <1>e, <1>f, <2>3
<1>13. end \in Nat /\ e <= end /\ d + Len(rest) = end
  BY <1>8, <1>10, <1>f
<1>m. PICK made : made = [type |-> ARRAY_TYPE, of |-> Retrieve(w, d, 4), adt |-> adt.str, list |-> all.list]
  OBVIOUS
<1>14. ASSUME end <= len, ~empty PROVE made = v
  <2>1. d + 4 <= len /\ e <= len
    BY <1>10, <1>13, <1>14
  <2>2. Retrieve(w, d, 4) = v.of
    BY <1>9, <1>p, <2>1
  <2>3. adt.str = v.adt
    BY <1>10, <1>p, <2>1 DEF StringRead
  <2>4. all.list = v.list
    BY <1>12, <1>14, <1>p DEF PartsRead
  <2> QED BY <1>m, <1>v, <2>2, <2>3, <2>4
<1>15. ReadArray(w, read, d) = Whole(made, all)
  <2>1. ReadArray(w, read, d) =
          Whole([type |-> ARRAY_TYPE, of |-> Retrieve(w, d, 4), adt |-> RetrieveStr(w, d + 4).str,
                 list |-> ReadList(w, read, RetrieveStr(w, d + 4).at, FALSE).list],
                ReadList(w, read, RetrieveStr(w, d + 4).at, FALSE))
    BY Zenon DEF ReadArray
  <2>2. RetrieveStr(w, d + 4) = adt
    BY <1>g
  <2>3. ReadList(w, read, adt.at, FALSE) = all
    BY <1>f, <1>o
  <2> QED BY <1>m, <2>1, <2>2, <2>3
<1>16. v # Empty /\ end # Null
  BY <1>13, <1>v DEF Empty, ARRAY_TYPE, EMPTY_TYPE, NullIsApart
<1>17. ValueRead(Whole(made, all), v, end, len)
  BY <1>3, <1>12, <1>14, <1>16, WholeIsRead
<1> QED BY <1>4, <1>5, <1>13, <1>15, <1>17

\* A struct.
StructRest(v) ==
  WriteStr(v.adt)
  \o WriteList([i \in DOMAIN v.fields |-> WriteStr(v.fields[i][1]) \o Marshal[v.fields[i][2]]])

StructValues == [type : {VAR_ADT_TYPE}, adt : Nat \X Nat, fields : Seq((Nat \X Nat) \X Values)]
\* What is behind the type of a struct is read where it lies.
LEMMA StructIsRead ==
  ASSUME NullIsApart, NEW v \in StructValues, IsString(v.adt),
         \A i \in DOMAIN v.fields : IsString(v.fields[i][1]), NEW w, NEW len \in Nat, len = Len(w),
         NEW read, PartsReadable(read, w, v), NEW d \in Nat, Lain(StructRest(v), w, d)
  PROVE  /\ StructRest(v) \in Seq(NumberBytes)
         /\ ValueRead(ReadStruct(w, read, d), v, d + Len(StructRest(v)), len)
<1>v. /\ v.type = VAR_ADT_TYPE /\ v.fields \in Seq((Nat \X Nat) \X Values)
      /\ v = [type |-> VAR_ADT_TYPE, adt |-> v.adt, fields |-> v.fields]
  BY DEF StructValues
<1>p. PICK fields, str : fields = v.fields /\ str = v.adt
  OBVIOUS
<1>q. PICK pieces : pieces = [i \in DOMAIN fields |-> WriteStr(fields[i][1]) \o Marshal[fields[i][2]]]
  OBVIOUS
<1>w. PICK vals : vals = [i \in DOMAIN fields |-> fields[i][2]]
  OBVIOUS
<1>n. PICK n : n = Len(fields)
  OBVIOUS
<1>o. PICK yes \in BOOLEAN : yes = TRUE
  OBVIOUS
<1>0. n \in Nat /\ DOMAIN fields = 1 .. n /\ fields \in Seq((Nat \X Nat) \X Values) /\ DOMAIN vals = 1 .. n
  <2>1. n \in Nat /\ DOMAIN fields = 1 .. n /\ fields \in Seq((Nat \X Nat) \X Values)
    BY <1>n, <1>p, <1>v, LenProperties
  <2> QED BY <1>w, <2>1
<1>1. Parts(v) = vals
  BY <1>p, <1>v, <1>w DEF Parts, ARRAY_TYPE, SEP_TYPE, VAR_ADT_TYPE
<1>2. ItemsListed((Nat \X Nat) \X Values, fields, pieces, vals, yes, read, w)
  <2>1. \A i \in DOMAIN fields : IsValueRead(read, w, fields[i][2])
    <3>1. \A i \in DOMAIN vals : IsValueRead(read, w, vals[i])
      BY <1>1 DEF PartsReadable
    <3> QED BY <1>0, <1>w, <3>1
  <2>2. \A i \in DOMAIN fields : IsString(fields[i][1])
    BY <1>p
  <2>3. yes
    BY <1>o
  <2>4. yes \in BOOLEAN
    OBVIOUS
  <2> QED BY <1>0, <1>q, <1>w, <2>1, <2>2, <2>3, <2>4, ListedFields
<1>e. PICK empty : empty = SomeEmpty(vals, n)
  OBVIOUS
<1>3. (empty => AsRead[v] = Empty) /\ (~empty => AsRead[v] = v)
  BY <1>0, <1>1, <1>e, EmptyParts
<1>l. PICK s, l : s = WriteStr(str) /\ l = WriteList(pieces)
  OBVIOUS
<1>r. PICK rest : rest = s \o l
  OBVIOUS
<1>4. StructRest(v) = rest
  BY <1>l, <1>p, <1>q, <1>r DEF StructRest
<1>5. s \in Seq(NumberBytes) /\ l \in Seq(NumberBytes) /\ rest \in Seq(NumberBytes)
  <2>1. s \in Seq(NumberBytes)
    BY <1>l, <1>p, StringIsList, NumbersAreBytes
  <2>2. pieces \in Seq(Seq(NumberBytes))
    BY <1>2 DEF ItemsListed
  <2>3. l \in Seq(NumberBytes)
    BY <1>l, <2>2, ListIsList, NumbersAreBytes
  <2>4. rest \in Seq(NumberBytes)
    BY <1>r, <2>1, <2>3, JoinFacts
  <2> QED BY <2>1, <2>3, <2>4
<1>6. IsBoth(NumberBytes, rest, s, l)
  BY <1>5, <1>r DEF IsBoth
<1>g. PICK e, adt : e = d + (4 + str[2]) /\ adt = RetrieveStr(w, d)
  OBVIOUS
<1>7. /\ StringRead(adt, str, e, len) /\ Lain(l, w, e) /\ Len(l) \in Nat
      /\ e \in Nat /\ d + Len(rest) = e + Len(l)
  <2>1. IsString(str) /\ IsBoth(NumberBytes, rest, WriteStr(str), l) /\ Lain(rest, w, d)
    BY <1>4, <1>6, <1>l, <1>p
  <2> QED BY <1>g, <2>1, StringAhead
<1>8. Reached(adt.at, e, len)
  BY <1>7 DEF StringRead, Reached
<1>f. PICK at, end, all : at = adt.at /\ end = e + Len(l) /\ all = ReadList(w, read, at, yes)
  OBVIOUS
<1>9. PartsRead(all, fields, empty, end, len)
  <2>1. Reached(at, e, len) /\ e \in Nat
    BY <1>7, <1>8, <1>f
  <2>2. Lain(WriteList(pieces), w, e) /\ end = e + Len(WriteList(pieces))
    BY <1>7, <1>f, <1>l
  <2>3. PartsRead(ReadList(w, read, at, yes), fields, SomeEmpty(vals, n), end, len)
    BY <1>2, <1>n, <2>1, <2>2, ListIsRead
  <2> QED BY <1>e, <1>f, <2>3
<1>10. end \in Nat /\ e <= end /\ d + Len(rest) = end
  BY <1>7, <1>f
<1>m. PICK made : made = [type |-> VAR_ADT_TYPE, adt |-> adt.str, fields |-> all.list]
  OBVIOUS
<1>11. ASSUME end <= len, ~empty PROVE made = v
  <2>1. e <= len
    BY <1>7, <1>10, <1>11
  <2>2. adt.str = v.adt
    BY <1>7, <1>p, <2>1 DEF StringRead
  <2>3. all.list = v.fields
    BY <1>9, <1>11, <1>p DEF PartsRead
  <2> QED BY <1>m, <1>v, <2>2, <2>3
<1>12. ReadStruct(w, read, d) = Whole(made, all)
  <2>1. ReadStruct(w, read, d) =
          Whole([type |-> VAR_ADT_TYPE, adt |-> RetrieveStr(w, d).str,
                 fields |-> ReadList(w, read, RetrieveStr(w, d).at, TRUE).list],
                ReadList(w, read, RetrieveStr(w, d).at, TRUE))
    BY Zenon DEF ReadStruct
  <2>2. RetrieveStr(w, d) = adt
    BY <1>g
  <2>3. ReadList(w, read, adt.at, TRUE) = all
    BY <1>f, <1>o
  <2> QED BY <1>m, <2>1, <2>2, <2>3
<1>13. v # Empty /\ end # Null
  BY <1>10, <1>v DEF Empty, VAR_ADT_TYPE, EMPTY_TYPE, NullIsApart
<1>14. ValueRead(Whole(made, all), v, end, len)
  BY <1>3, <1>9, <1>11, <1>13, WholeIsRead
<1> QED BY <1>4, <1>5, <1>10, <1>12, <1>14

\* The parameters of a call.
CallRest(v) == WriteList([i \in DOMAIN v.list |-> Marshal[v.list[i]]])

CallValues == [type : {SEP_TYPE}, list : Seq(Values)]
\* What is behind the type of a list of arguments is read where it lies.
LEMMA CallIsRead ==
  ASSUME NullIsApart, NEW v \in CallValues, NEW w, NEW len \in Nat, len = Len(w),
         NEW read, PartsReadable(read, w, v), NEW d \in Nat, d <= len, Lain(CallRest(v), w, d)
  PROVE  /\ CallRest(v) \in Seq(NumberBytes)
         /\ ValueRead(ReadCall(w, read, d), v, d + Len(CallRest(v)), len)
<1>v. v.type = SEP_TYPE /\ v.list \in Seq(Values) /\ v = [type |-> SEP_TYPE, list |-> v.list]
  BY DEF CallValues
<1>p. PICK list : list = v.list
  OBVIOUS
<1>q. PICK pieces : pieces = [i \in DOMAIN list |-> Marshal[list[i]]]
  OBVIOUS
<1>n. PICK n : n = Len(list)
  OBVIOUS
<1>o. PICK no \in BOOLEAN : no = FALSE
  OBVIOUS
<1>0. n \in Nat /\ DOMAIN list = 1 .. n /\ list \in Seq(Values)
  BY <1>n, <1>p, <1>v, LenProperties
<1>1. Parts(v) = list
  BY <1>p, <1>v DEF Parts, ARRAY_TYPE, SEP_TYPE, VAR_ADT_TYPE
<1>2. ItemsListed(Values, list, pieces, list, no, read, w)
  <2>1. \A i \in DOMAIN list : IsValueRead(read, w, list[i])
    BY <1>1 DEF PartsReadable
  <2>2. ~no
    BY <1>o
  <2>3. no \in BOOLEAN
    OBVIOUS
  <2> QED BY <1>0, <1>q, <2>1, <2>2, <2>3, ListedValues
<1>e. PICK empty : empty = SomeEmpty(list, n)
  OBVIOUS
<1>3. (empty => AsRead[v] = Empty) /\ (~empty => AsRead[v] = v)
  BY <1>0, <1>1, <1>e, EmptyParts
<1>l. PICK l : l = WriteList(pieces)
  OBVIOUS
<1>4. CallRest(v) = l
  BY <1>l, <1>p, <1>q DEF CallRest
<1>5. l \in Seq(NumberBytes) /\ Len(l) \in Nat
  <2>1. pieces \in Seq(Seq(NumberBytes))
    BY <1>2 DEF ItemsListed
  <2>2. l \in Seq(NumberBytes)
    BY <1>l, <2>1, ListIsList, NumbersAreBytes
  <2> QED BY <2>2, LenProperties
<1>f. PICK end, all : end = d + Len(l) /\ all = ReadList(w, read, d, no)
  OBVIOUS
<1>6. PartsRead(all, list, empty, end, len)
  <2>1. Reached(d, d, len)
    BY DEF Reached
  <2>2. Lain(WriteList(pieces), w, d) /\ end = d + Len(WriteList(pieces))
    BY <1>4, <1>f, <1>l
  <2>3. PartsRead(ReadList(w, read, d, no), list, SomeEmpty(list, n), end, len)
    BY <1>2, <1>n, <2>1, <2>2, ListIsRead
  <2> QED BY <1>e, <1>f, <2>3
<1>m. PICK made : made = [type |-> SEP_TYPE, list |-> all.list]
  OBVIOUS
<1>7. ASSUME end <= len, ~empty PROVE made = v
  <2>1. all.list = v.list
    BY <1>6, <1>7, <1>p DEF PartsRead
  <2> QED BY <1>m, <1>v, <2>1
<1>8. ReadCall(w, read, d) = Whole(made, all)
  <2>1. ReadCall(w, read, d) =
          Whole([type |-> SEP_TYPE, list |-> ReadList(w, read, d, FALSE).list], ReadList(w, read, d, FALSE))
    BY Zenon DEF ReadCall
  <2>2. ReadList(w, read, d, FALSE) = all
    BY <1>f, <1>o
  <2> QED BY <1>m, <2>1, <2>2
<1>9. v # Empty /\ end \in Nat /\ end # Null
  BY <1>5, <1>f, <1>v DEF Empty, SEP_TYPE, EMPTY_TYPE, NullIsApart
<1>10. ValueRead(Whole(made, all), v, end, len)
  BY <1>3, <1>6, <1>7, <1>9, WholeIsRead
<1> QED BY <1>4, <1>5, <1>8, <1>10, <1>f

\* The types are different numbers.
LEMMA ReadValueIs ==
  ASSUME NullIsApart, NEW w, NEW read, NEW d, NEW type, type = Retrieve(w, d, 4)
  PROVE  /\ type = Null => ReadValue(w, read, d) = Failed
         /\ type = INT_TYPE => ReadValue(w, read, d) = Simple(type, Retrieve(w, d + 4, 4), d + 8)
         /\ type = DOUBLE_TYPE => ReadValue(w, read, d) = Simple(type, Retrieve(w, d + 4, 8), d + 12)
         /\ type = STRING_TYPE => ReadValue(w, read, d) = ReadString(w, d + 4)
         /\ type = ARRAY_TYPE => ReadValue(w, read, d) = ReadArray(w, read, d + 4)
         /\ type = VAR_ADT_TYPE => ReadValue(w, read, d) = ReadStruct(w, read, d + 4)
         /\ type = SEP_TYPE => ReadValue(w, read, d) = ReadCall(w, read, d + 4)
         /\ type = EMPTY_TYPE => ReadValue(w, read, d) = GivenUp(d + 4)
<1>1. /\ EMPTY_TYPE \in Nat /\ INT_TYPE \in Nat /\ DOUBLE_TYPE \in Nat /\ STRING_TYPE \in Nat
      /\ ARRAY_TYPE \in Nat /\ VAR_ADT_TYPE \in Nat /\ SEP_TYPE \in Nat
  BY DEF EMPTY_TYPE, INT_TYPE, DOUBLE_TYPE, STRING_TYPE, ARRAY_TYPE, VAR_ADT_TYPE, SEP_TYPE
<1>2. /\ EMPTY_TYPE # Null /\ INT_TYPE # Null /\ DOUBLE_TYPE # Null /\ STRING_TYPE # Null
      /\ ARRAY_TYPE # Null /\ VAR_ADT_TYPE # Null /\ SEP_TYPE # Null
  BY <1>1 DEF NullIsApart
<1> USE DEF ReadValue
<1>3. type = Null => ReadValue(w, read, d) = Failed
  BY <1>2
<1>4. type = INT_TYPE => ReadValue(w, read, d) = Simple(type, Retrieve(w, d + 4, 4), d + 8)
  BY <1>2 DEF EMPTY_TYPE, INT_TYPE, DOUBLE_TYPE, STRING_TYPE, ARRAY_TYPE, VAR_ADT_TYPE, SEP_TYPE
<1>5. type = DOUBLE_TYPE => ReadValue(w, read, d) = Simple(type, Retrieve(w, d + 4, 8), d + 12)
  BY <1>2 DEF EMPTY_TYPE, INT_TYPE, DOUBLE_TYPE, STRING_TYPE, ARRAY_TYPE, VAR_ADT_TYPE, SEP_TYPE
<1>6. type = STRING_TYPE => ReadValue(w, read, d) = ReadString(w, d + 4)
  BY <1>2 DEF EMPTY_TYPE, INT_TYPE, DOUBLE_TYPE, STRING_TYPE, ARRAY_TYPE, VAR_ADT_TYPE, SEP_TYPE
<1>7. type = ARRAY_TYPE => ReadValue(w, read, d) = ReadArray(w, read, d + 4)
  BY <1>2 DEF EMPTY_TYPE, INT_TYPE, DOUBLE_TYPE, STRING_TYPE, ARRAY_TYPE, VAR_ADT_TYPE, SEP_TYPE
<1>8. type = VAR_ADT_TYPE => ReadValue(w, read, d) = ReadStruct(w, read, d + 4)
  BY <1>2 DEF EMPTY_TYPE, INT_TYPE, DOUBLE_TYPE, STRING_TYPE, ARRAY_TYPE, VAR_ADT_TYPE, SEP_TYPE
<1>9. type = SEP_TYPE => ReadValue(w, read, d) = ReadCall(w, read, d + 4)
  BY <1>2 DEF EMPTY_TYPE, INT_TYPE, DOUBLE_TYPE, STRING_TYPE, ARRAY_TYPE, VAR_ADT_TYPE, SEP_TYPE
<1>10. type = EMPTY_TYPE => ReadValue(w, read, d) = GivenUp(d + 4)
  BY <1>2 DEF EMPTY_TYPE, INT_TYPE, DOUBLE_TYPE, STRING_TYPE, ARRAY_TYPE, VAR_ADT_TYPE, SEP_TYPE
<1> QED BY <1>3, <1>4, <1>5, <1>6, <1>7, <1>8, <1>9, <1>10

\* What is written of v behind its type is read if the type is.
Behind(v, rest) ==
  v.type \in Nat /\ rest \in Seq(NumberBytes) /\ IsBoth(NumberBytes, Marshal[v], Field(v.type, 4), rest)
BehindIsRead(w, read, v, rest) ==
  \A d \in Nat : d + 4 <= Len(w) /\ Retrieve(w, d, 4) = v.type /\ Lain(rest, w, d + 4) =>
    ValueRead(ReadValue(w, read, d), v, d + 4 + Len(rest), Len(w))
Unmarshals(read, w) == Len(w) \in Nat /\ \A at \in 0 .. Len(w) : read[at] = ReadValue(w, read, at)

\* A value is read if what is behind its type is.
LEMMA TypedIsRead ==
  ASSUME NullIsApart, NEW v, NEW w, NEW read, NEW rest, Behind(v, rest), BehindIsRead(w, read, v, rest),
         Unmarshals(read, w), AsRead[v] # Empty => AsRead[v] = v
  PROVE  IsValueRead(read, w, v)
<1>m. PICK m, len, l : m = Marshal[v] /\ len = Len(w) /\ l = Len(rest)
  OBVIOUS
<1>0. /\ v.type \in Nat /\ len \in Nat /\ rest \in Seq(NumberBytes) /\ l \in Nat
      /\ IsBoth(NumberBytes, m, Field(v.type, 4), rest)
  <2>1. v.type \in Nat /\ len \in Nat /\ rest \in Seq(NumberBytes)
    BY <1>m DEF Behind, Unmarshals
  <2>2. l \in Nat
    BY <1>m, <2>1, LenProperties
  <2>3. IsBoth(NumberBytes, m, Field(v.type, 4), rest)
    BY <1>m DEF Behind
  <2> QED BY <2>1, <2>2, <2>3
<1>1. m \in Seq(NumberBytes)
  BY <1>0, JoinFacts DEF IsBoth
<1>2. ASSUME NEW q \in 0 .. len, Lain(m, w, q) PROVE ValueRead(read[q], v, q + Len(m), len)
  <2>1. /\ Retrieve(w, q, 4) = IF q + 4 <= len THEN v.type ELSE Null
        /\ Lain(rest, w, q + 4) /\ Len(m) = 4 + l
    <3>1. q \in Nat
      OBVIOUS
    <3>t. PICK type : type = v.type
      OBVIOUS
    <3>2. type \in Nat /\ IsBoth(NumberBytes, m, Field(type, 4), rest)
      BY <1>0, <3>t
    <3>3. /\ Retrieve(w, q, 4) = IF q + 4 <= Len(w) THEN type ELSE Null
          /\ Lain(rest, w, q + 4) /\ Len(m) = 4 + Len(rest)
      BY <1>2, <3>1, <3>2, NumberAhead
    <3> QED BY <1>m, <3>3, <3>t
  <2>2. read[q] = ReadValue(w, read, q)
    BY <1>m DEF Unmarshals
  <2>e. PICK e : e = q + Len(m)
    OBVIOUS
  <2>3. e = q + 4 + l /\ e \in Nat /\ q \in Nat
    BY <1>0, <2>1, <2>e
  <2>4. CASE q + 4 <= len
    <3>1. Retrieve(w, q, 4) = v.type
      BY <2>1, <2>4
    <3>2. ValueRead(ReadValue(w, read, q), v, q + 4 + l, len)
      BY <1>m, <2>1, <2>3, <2>4, <3>1 DEF BehindIsRead
    <3> QED BY <2>2, <2>3, <2>e, <3>2
  <2>5. CASE ~(q + 4 <= len)
    <3>1. Retrieve(w, q, 4) = Null
      BY <2>1, <2>5
    <3>2. read[q] = Failed
      BY <2>2, <3>1, ReadValueIs
    <3>3. read[q].value = Empty /\ read[q].at = Null
      BY <3>2 DEF Failed
    <3>4. ~(e <= len)
      BY <1>0, <2>3, <2>5
    <3> QED BY <2>e, <3>3, <3>4 DEF ValueRead
  <2> QED BY <2>4, <2>5
<1> QED BY <1>1, <1>2, <1>m DEF IsValueRead

\* A value without parts is what its reader sees.
LEMMA Partless ==
  ASSUME NEW v, v.type \notin {ARRAY_TYPE, SEP_TYPE, VAR_ADT_TYPE}, AsRead[v] = AsReadOf(AsRead, v)
  PROVE  AsRead[v] = v
<1>1. Parts(v) = <<>>
  BY DEF Parts
<1>2. \A i \in DOMAIN Parts(v) : FALSE
  BY <1>1
<1> QED BY <1>2 DEF AsReadOf

\* The empty value is read: nothing is behind its type.
LEMMA EmptyIsRead ==
  ASSUME NullIsApart, NEW w, Len(w) \in Nat, NEW read, AsRead[Empty] = Empty,
         Marshal[Empty] = WriteValue(Marshal, Empty)
  PROVE  Behind(Empty, <<>>) /\ BehindIsRead(w, read, Empty, <<>>)
<1>v. PICK v : v = Empty
  OBVIOUS
<1>0. v.type = EMPTY_TYPE /\ v.type \in Nat
  BY <1>v DEF Empty, EMPTY_TYPE
<1>1. Behind(v, <<>>)
  <2>1. Marshal[v] = Field(v.type, 4) \o <<>>
    <3>1. Marshal[v] = WriteValue(Marshal, v)
      BY <1>v
    <3>2. WriteValue(Marshal, v) = Uint(v.type) \o <<>>
      <4>1. /\ v.type = EMPTY_TYPE
            /\ v.type \notin {INT_TYPE, DOUBLE_TYPE, STRING_TYPE, ARRAY_TYPE, VAR_ADT_TYPE, SEP_TYPE}
        BY <1>0 DEF INT_TYPE, EMPTY_TYPE, DOUBLE_TYPE, STRING_TYPE, ARRAY_TYPE, VAR_ADT_TYPE, SEP_TYPE
      <4> QED BY <4>1, ZenonT(30) DEF WriteValue
    <3> QED BY <3>1, <3>2, Zenon DEF Uint
  <2>2. <<>> \in Seq(NumberBytes) /\ Field(v.type, 4) \in Seq(NumberBytes)
    BY <1>0, NumberIsList, NumbersAreBytes, EmptySeq
  <2> QED BY <1>0, <2>1, <2>2 DEF Behind, IsBoth
<1>2. BehindIsRead(w, read, v, <<>>)
  <2> SUFFICES ASSUME NEW d \in Nat, d + 4 <= Len(w), Retrieve(w, d, 4) = v.type
               PROVE  ValueRead(ReadValue(w, read, d), v, d + 4 + Len(<<>>), Len(w))
    BY DEF BehindIsRead
  <2>1. ReadValue(w, read, d) = GivenUp(d + 4)
    BY <1>0, ReadValueIs
  <2>e. PICK e : e = d + 4
    OBVIOUS
  <2>2. e \in Nat /\ e + Len(<<>>) = e /\ e # Null
    <3>1. e \in Nat
      BY <2>e
    <3> QED BY <3>1, EmptySeq DEF NullIsApart
  <2>3. GivenUp(e).value = Empty /\ GivenUp(e).at = e
    BY DEF GivenUp
  <2>4. AsRead[v] = Empty
    BY <1>v
  <2>5. e <= Len(w)
    BY <2>e
  <2>6. ValueRead(GivenUp(e), v, e, Len(w))
    BY <2>2, <2>3, <2>4, <2>5 DEF ValueRead
  <2> QED BY <2>1, <2>2, <2>6, <2>e
<1> QED BY <1>1, <1>2, <1>v

NumberValues == [type : {INT_TYPE, DOUBLE_TYPE}, val : Nat]
\* An integer or a double is read.
LEMMA NumberIsRead ==
  ASSUME NullIsApart, NEW v \in NumberValues, NEW w, Len(w) \in Nat, NEW read, AsRead[v] = v,
         Marshal[v] = WriteValue(Marshal, v), NEW width, width = IF v.type = INT_TYPE THEN 4 ELSE 8
  PROVE  Behind(v, Field(v.val, width)) /\ BehindIsRead(w, read, v, Field(v.val, width))
<1>x. PICK x, type : x = v.val /\ type = v.type
  OBVIOUS
<1>0. /\ type \in {INT_TYPE, DOUBLE_TYPE} /\ x \in Nat /\ type \in Nat /\ v = [type |-> type, val |-> x]
      /\ width \in Nat \ {0}
  BY <1>x DEF NumberValues, INT_TYPE, DOUBLE_TYPE
<1>f. PICK f, a : f = Field(x, width) /\ a = Field(type, 4)
  OBVIOUS
<1>1. f \in Seq(NumberBytes) /\ Len(f) = width /\ a \in Seq(NumberBytes)
  <2>1. width \in Nat
    BY <1>0
  <2> QED BY <1>0, <1>f, <2>1, NumberIsList, NumbersAreBytes
<1>2. Marshal[v] = a \o f
  <2>1. CASE type = INT_TYPE
    <3>1. width = 4
      BY <1>x, <2>1
    <3> QED BY <1>f, <1>x, <2>1, <3>1 DEF WriteValue, Uint, INT_TYPE, EMPTY_TYPE, DOUBLE_TYPE, STRING_TYPE,
          ARRAY_TYPE, VAR_ADT_TYPE, SEP_TYPE
  <2>2. CASE type = DOUBLE_TYPE
    <3>1. width = 8
      BY <1>x, <2>2 DEF INT_TYPE, DOUBLE_TYPE
    <3> QED BY <1>f, <1>x, <2>2, <3>1 DEF WriteValue, Uint, INT_TYPE, EMPTY_TYPE, DOUBLE_TYPE, STRING_TYPE,
          ARRAY_TYPE, VAR_ADT_TYPE, SEP_TYPE
  <2> QED BY <1>0, <2>1, <2>2
<1>3. Behind(v, f)
  BY <1>0, <1>1, <1>2, <1>f, <1>x DEF Behind, IsBoth
<1>4. BehindIsRead(w, read, v, f)
  <2> SUFFICES ASSUME NEW d \in Nat, d + 4 <= Len(w), Retrieve(w, d, 4) = v.type, Lain(f, w, d + 4)
               PROVE  ValueRead(ReadValue(w, read, d), v, d + 4 + Len(f), Len(w))
    BY DEF BehindIsRead
  <2>e. PICK len, g, e, val : len = Len(w) /\ g = d + 4 /\ e = g + width /\ val = Retrieve(w, g, width)
    <3>1. PICK len, g : len = Len(w) /\ g = d + 4
      OBVIOUS
    <3>2. PICK e, val : e = g + width /\ val = Retrieve(w, g, width)
      OBVIOUS
    <3> QED BY <3>1, <3>2
  <2>1. g \in Nat /\ e \in Nat /\ len \in Nat
    <3>1. g \in Nat
      BY <2>e
    <3> QED BY <1>0, <2>e, <3>1
  <2>2. val = IF e <= len THEN x ELSE Null
    <3>1. Lain(Field(x, width), w, g)
      BY <1>f, <2>e
    <3> QED BY <1>0, <2>1, <2>e, <3>1, LainField
  <2>3. ReadValue(w, read, d) = Simple(type, val, e)
    <3>1. CASE type = INT_TYPE
      <4>1. width = 4 /\ e = d + 8
        <5>1. width = 4
          BY <1>x, <3>1
        <5> QED BY <2>e, <5>1
      <4>2. ReadValue(w, read, d) = Simple(type, Retrieve(w, d + 4, 4), d + 8)
        BY <1>x, <3>1, ReadValueIs
      <4> QED BY <2>e, <4>1, <4>2
    <3>2. CASE type = DOUBLE_TYPE
      <4>1. width = 8 /\ e = d + 12
        <5>1. width = 8
          BY <1>x, <3>2 DEF INT_TYPE, DOUBLE_TYPE
        <5> QED BY <2>e, <5>1
      <4>2. ReadValue(w, read, d) = Simple(type, Retrieve(w, d + 4, 8), d + 12)
        BY <1>x, <3>2, ReadValueIs
      <4> QED BY <2>e, <4>1, <4>2
    <3> QED BY <1>0, <3>1, <3>2
  <2>4. x # Null /\ e # Null
    BY <1>0, <2>1 DEF NullIsApart
  <2>r. PICK r : r = Simple(type, val, e)
    OBVIOUS
  <2>5. ValueRead(r, v, e, len)
    BY <1>0, <2>2, <2>4, <2>r, SimpleIsRead
  <2>6. d + 4 + Len(f) = e
    BY <1>1, <2>e
  <2> QED BY <2>3, <2>5, <2>6, <2>e, <2>r
<1> QED BY <1>3, <1>4, <1>f, <1>x

StringValues == [type : {STRING_TYPE}, val : Nat \X Nat]
\* A string value is read.
LEMMA StringValueIsRead ==
  ASSUME NullIsApart, NEW v \in StringValues, IsString(v.val), NEW w, Len(w) \in Nat, NEW read, AsRead[v] = v,
         Marshal[v] = WriteValue(Marshal, v)
  PROVE  Behind(v, WriteStr(v.val)) /\ BehindIsRead(w, read, v, WriteStr(v.val))
<1>x. PICK x, type : x = v.val /\ type = v.type
  OBVIOUS
<1>0. type = STRING_TYPE /\ IsString(x) /\ type \in Nat /\ v = [type |-> type, val |-> x]
  BY <1>x DEF StringValues, STRING_TYPE
<1>f. PICK f, a, size : f = WriteStr(x) /\ a = Field(type, 4) /\ size = x[2]
  OBVIOUS
<1>1. f \in Seq(NumberBytes) /\ Len(f) = 4 + size /\ size \in Nat /\ a \in Seq(NumberBytes)
  <2>1. f \in Seq(NumberBytes) /\ Len(f) = 4 + size /\ size \in Nat
    BY <1>0, <1>f, StringIsList, NumbersAreBytes
  <2>2. a \in Seq(NumberBytes)
    BY <1>0, <1>f, NumberIsList, NumbersAreBytes
  <2> QED BY <2>1, <2>2
<1>2. Marshal[v] = a \o f
  BY <1>0, <1>f, <1>x DEF WriteValue, Uint, INT_TYPE, EMPTY_TYPE, DOUBLE_TYPE, STRING_TYPE,
     ARRAY_TYPE, VAR_ADT_TYPE, SEP_TYPE
<1>3. Behind(v, f)
  BY <1>0, <1>1, <1>2, <1>f, <1>x DEF Behind, IsBoth
<1>4. BehindIsRead(w, read, v, f)
  <2> SUFFICES ASSUME NEW d \in Nat, d + 4 <= Len(w), Retrieve(w, d, 4) = v.type, Lain(f, w, d + 4)
               PROVE  ValueRead(ReadValue(w, read, d), v, d + 4 + Len(f), Len(w))
    BY DEF BehindIsRead
  <2>g. PICK len, g : len = Len(w) /\ g = d + 4
    OBVIOUS
  <2>e. PICK e, s : e = g + (4 + size) /\ s = RetrieveStr(w, g)
    OBVIOUS
  <2>v. PICK val : val = IF s.at = Null THEN Null ELSE s.str
    OBVIOUS
  <2>1. g \in Nat /\ e \in Nat /\ len \in Nat
    <3>1. g \in Nat
      BY <2>g
    <3> QED BY <1>1, <2>e, <2>g, <3>1
  <2>2. StringRead(s, x, e, len)
    <3>1. Lain(WriteStr(x), w, g) /\ e = g + (4 + x[2])
      BY <1>f, <2>e, <2>g
    <3> QED BY <1>0, <2>1, <2>e, <2>g, <3>1, StringIsRead
  <2>3. e # Null
    BY <2>1 DEF NullIsApart
  <2>4. x # Null
    <3>1. x = <<x[1], x[2]>>
      BY <1>0 DEF IsString
    <3>t. PICK t : t = <<x[1], x[2]>>
      OBVIOUS
    <3>2. t \in Seq({x[1], x[2]})
      BY <3>t
    <3> QED BY <3>1, <3>2, <3>t DEF NullIsApart, NullIsNoList
  <2>5. e <= len => val = x /\ s.at = e
    BY <2>2, <2>3, <2>v DEF StringRead
  <2>6. ~(e <= len) => val = Null
    BY <2>2, <2>v DEF StringRead
  <2>7. ReadValue(w, read, d) = Simple(STRING_TYPE, val, s.at)
    <3>1. ReadValue(w, read, d) = ReadString(w, d + 4)
      BY <1>0, <1>x, ReadValueIs
    <3>2. ReadString(w, g) = Simple(STRING_TYPE, val, s.at)
      BY <2>e, <2>v, Zenon DEF ReadString
    <3> QED BY <2>g, <3>1, <3>2
  <2>8. Simple(STRING_TYPE, val, s.at) = Simple(type, val, e)
    <3>1. CASE e <= len
      BY <1>0, <2>5, <3>1
    <3>2. CASE ~(e <= len)
      BY <1>0, <2>6, <3>2 DEF Simple
    <3> QED BY <3>1, <3>2
  <2>r. PICK r : r = Simple(type, val, e)
    OBVIOUS
  <2>9. ValueRead(r, v, e, len)
    BY <1>0, <2>3, <2>4, <2>5, <2>6, <2>r, SimpleIsRead
  <2>10. d + 4 + Len(f) = e
    BY <1>1, <2>e, <2>g
  <2> QED BY <2>7, <2>8, <2>9, <2>10, <2>g, <2>r
<1> QED BY <1>3, <1>4, <1>f, <1>x

\* An array is read if its elements are.
LEMMA ArrayBehind ==
  ASSUME NullIsApart, NEW v \in ArrayValues, IsString(v.adt), v.of # ADT_TYPE => v.adt = NoString,
         NEW w, Len(w) \in Nat, NEW read, PartsReadable(read, w, v), Marshal[v] = WriteValue(Marshal, v)
  PROVE  Behind(v, ArrayRest(v)) /\ BehindIsRead(w, read, v, ArrayRest(v))
<1>x. PICK len, rest, a : len = Len(w) /\ rest = ArrayRest(v) /\ a = Field(v.type, 4)
  OBVIOUS
<1>0. v.type = ARRAY_TYPE /\ v.type \in Nat
  BY DEF ArrayValues, ARRAY_TYPE
<1>1. rest \in Seq(NumberBytes)
  <2>d. PICK d : d = len + 1
    OBVIOUS
  <2>1. d \in Nat
    BY <1>x, <2>d
  <2>2. Lain(rest, w, d)
    <3> SUFFICES ASSUME NEW at \in Nat, NEW width \in Nat PROVE ~(d + at + width <= Len(w))
      BY DEF Lain
    <3> QED BY <1>x, <2>d
  <2> QED BY <1>x, <2>1, <2>2, ArrayIsRead
<1>2. Marshal[v] = a \o rest
  <2>1. (IF v.of = ADT_TYPE THEN v.adt ELSE NoString) = v.adt
    OBVIOUS
  <2>2. WriteValue(Marshal, v) =
          Uint(v.type) \o (Uint(v.of) \o WriteStr(IF v.of = ADT_TYPE THEN v.adt ELSE NoString)
                           \o WriteList([i \in DOMAIN v.list |-> Marshal[v.list[i]]]))
    BY <1>0 DEF WriteValue, INT_TYPE, EMPTY_TYPE, DOUBLE_TYPE, STRING_TYPE, ARRAY_TYPE, VAR_ADT_TYPE, SEP_TYPE
  <2>3. WriteValue(Marshal, v) =
          Uint(v.type) \o (Uint(v.of) \o WriteStr(v.adt)
                           \o WriteList([i \in DOMAIN v.list |-> Marshal[v.list[i]]]))
    BY <2>1, <2>2, Zenon
  <2> QED BY <1>x, <2>3, Zenon DEF ArrayRest, Uint
<1>3. Behind(v, rest)
  <2>1. a \in Seq(NumberBytes)
    BY <1>0, <1>x, NumberIsList, NumbersAreBytes
  <2> QED BY <1>0, <1>1, <1>2, <1>x, <2>1 DEF Behind, IsBoth
<1>4. BehindIsRead(w, read, v, rest)
  <2> SUFFICES ASSUME NEW d \in Nat, d + 4 <= Len(w), Retrieve(w, d, 4) = v.type, Lain(rest, w, d + 4)
               PROVE  ValueRead(ReadValue(w, read, d), v, d + 4 + Len(rest), Len(w))
    BY DEF BehindIsRead
  <2>g. PICK g : g = d + 4
    OBVIOUS
  <2>1. g \in Nat /\ Lain(rest, w, g)
    BY <2>g
  <2>2. ValueRead(ReadArray(w, read, g), v, g + Len(rest), len)
    BY <1>x, <2>1, ArrayIsRead
  <2>3. ReadValue(w, read, d) = ReadArray(w, read, d + 4)
    BY <1>0, ReadValueIs
  <2> QED BY <1>x, <2>2, <2>3, <2>g
<1> QED BY <1>3, <1>4, <1>x

\* A struct is read if its fields are.
LEMMA StructBehind ==
  ASSUME NullIsApart, NEW v \in StructValues, IsString(v.adt),
         \A i \in DOMAIN v.fields : IsString(v.fields[i][1]),
         NEW w, Len(w) \in Nat, NEW read, PartsReadable(read, w, v), Marshal[v] = WriteValue(Marshal, v)
  PROVE  Behind(v, StructRest(v)) /\ BehindIsRead(w, read, v, StructRest(v))
<1>x. PICK len, rest, a : len = Len(w) /\ rest = StructRest(v) /\ a = Field(v.type, 4)
  OBVIOUS
<1>0. v.type = VAR_ADT_TYPE /\ v.type \in Nat
  BY DEF StructValues, VAR_ADT_TYPE
<1>1. rest \in Seq(NumberBytes)
  <2>d. PICK d : d = len + 1
    OBVIOUS
  <2>1. d \in Nat
    BY <1>x, <2>d
  <2>2. Lain(rest, w, d)
    <3> SUFFICES ASSUME NEW at \in Nat, NEW width \in Nat PROVE ~(d + at + width <= Len(w))
      BY DEF Lain
    <3> QED BY <1>x, <2>d
  <2> QED BY <1>x, <2>1, <2>2, StructIsRead
<1>2. Marshal[v] = a \o rest
  <2>k. PICK struct, none, int, double, text, array, call :
          /\ struct = WriteStr(v.adt)
                      \o WriteList([i \in DOMAIN v.fields |-> WriteStr(v.fields[i][1]) \o
                          Marshal[v.fields[i][2]]])
          /\ none = <<>> /\ int = Uint(v.val) /\ double = Field(v.val, 8) /\ text = WriteStr(v.val)
          /\ array = Uint(v.of) \o WriteStr(IF v.of = ADT_TYPE THEN v.adt ELSE NoString)
                     \o WriteList([i \in DOMAIN v.list |-> Marshal[v.list[i]]])
          /\ call = WriteList([i \in DOMAIN v.list |-> Marshal[v.list[i]]])
    BY Zenon
  <2>1. WriteValue(Marshal, v) = Uint(v.type) \o struct
    <3>1. WriteValue(Marshal, v) =
            Uint(v.type) \o
            CASE v.type = EMPTY_TYPE -> none
              [] v.type = INT_TYPE -> int
              [] v.type = DOUBLE_TYPE -> double
              [] v.type = STRING_TYPE -> text
              [] v.type = ARRAY_TYPE -> array
              [] v.type = VAR_ADT_TYPE -> struct
              [] v.type = SEP_TYPE -> call
      BY <2>k, Zenon DEF WriteValue
    <3> QED BY <1>0, <3>1 DEF INT_TYPE, EMPTY_TYPE, DOUBLE_TYPE, STRING_TYPE, ARRAY_TYPE, VAR_ADT_TYPE,
         SEP_TYPE
  <2>2. StructRest(v) = struct
    BY <2>k, Zenon DEF StructRest
  <2> QED BY <1>x, <2>1, <2>2, Zenon DEF Uint
<1>3. Behind(v, rest)
  <2>1. a \in Seq(NumberBytes)
    BY <1>0, <1>x, NumberIsList, NumbersAreBytes
  <2> QED BY <1>0, <1>1, <1>2, <1>x, <2>1 DEF Behind, IsBoth
<1>4. BehindIsRead(w, read, v, rest)
  <2> SUFFICES ASSUME NEW d \in Nat, d + 4 <= Len(w), Retrieve(w, d, 4) = v.type, Lain(rest, w, d + 4)
               PROVE  ValueRead(ReadValue(w, read, d), v, d + 4 + Len(rest), Len(w))
    BY DEF BehindIsRead
  <2>g. PICK g : g = d + 4
    OBVIOUS
  <2>1. g \in Nat /\ Lain(rest, w, g)
    BY <2>g
  <2>2. ValueRead(ReadStruct(w, read, g), v, g + Len(rest), len)
    BY <1>x, <2>1, StructIsRead
  <2>3. ReadValue(w, read, d) = ReadStruct(w, read, d + 4)
    BY <1>0, ReadValueIs
  <2> QED BY <1>x, <2>2, <2>3, <2>g
<1> QED BY <1>3, <1>4, <1>x

\* A list of arguments is read if its values are.
LEMMA CallBehind ==
  ASSUME NullIsApart, NEW v \in CallValues,
         NEW w, Len(w) \in Nat, NEW read, PartsReadable(read, w, v), Marshal[v] = WriteValue(Marshal, v)
  PROVE  Behind(v, CallRest(v)) /\ BehindIsRead(w, read, v, CallRest(v))
<1>x. PICK len, rest, a : len = Len(w) /\ rest = CallRest(v) /\ a = Field(v.type, 4)
  OBVIOUS
<1>0. v.type = SEP_TYPE /\ v.type \in Nat
  BY DEF CallValues, SEP_TYPE
<1>1. rest \in Seq(NumberBytes)
  <2>l. PICK list, pieces : list = v.list /\ pieces = [i \in DOMAIN v.list |-> Marshal[v.list[i]]]
    OBVIOUS
  <2>p. pieces = [i \in DOMAIN list |-> Marshal[list[i]]] /\ list \in Seq(Values)
    BY <2>l DEF CallValues
  <2>n. PICK no \in BOOLEAN : no = FALSE
    OBVIOUS
  <2>1. Parts(v) = list
    BY <1>0, <2>l DEF Parts, ARRAY_TYPE, SEP_TYPE, VAR_ADT_TYPE
  <2>2. \A i \in DOMAIN list : IsValueRead(read, w, list[i])
    BY <2>1 DEF PartsReadable
  <2>3. ItemsListed(Values, list, pieces, list, no, read, w)
    <3>1. no \in BOOLEAN /\ ~no
      BY <2>n
    <3> QED BY <2>2, <2>p, <3>1, ListedValues
  <2>4. pieces \in Seq(Seq(NumberBytes))
    BY <2>3 DEF ItemsListed
  <2>5. WriteList(pieces) \in Seq(NumberBytes)
    BY <2>4, ListIsList, NumbersAreBytes
  <2> QED BY <1>x, <2>5, <2>l DEF CallRest
<1>2. Marshal[v] = a \o rest
  <2>1. WriteValue(Marshal, v) = Uint(v.type) \o WriteList([i \in DOMAIN v.list |-> Marshal[v.list[i]]])
    BY <1>0 DEF WriteValue, INT_TYPE, EMPTY_TYPE, DOUBLE_TYPE, STRING_TYPE, ARRAY_TYPE, VAR_ADT_TYPE, SEP_TYPE
  <2> QED BY <1>x, <2>1, Zenon DEF CallRest, Uint
<1>3. Behind(v, rest)
  <2>1. a \in Seq(NumberBytes)
    BY <1>0, <1>x, NumberIsList, NumbersAreBytes
  <2> QED BY <1>0, <1>1, <1>2, <1>x, <2>1 DEF Behind, IsBoth
<1>4. BehindIsRead(w, read, v, rest)
  <2> SUFFICES ASSUME NEW d \in Nat, d + 4 <= Len(w), Retrieve(w, d, 4) = v.type, Lain(rest, w, d + 4)
               PROVE  ValueRead(ReadValue(w, read, d), v, d + 4 + Len(rest), Len(w))
    BY DEF BehindIsRead
  <2>g. PICK g : g = d + 4
    OBVIOUS
  <2>1. g \in Nat /\ Lain(rest, w, g) /\ g <= len
    BY <1>x, <2>g
  <2>2. ValueRead(ReadCall(w, read, g), v, g + Len(rest), len)
    BY <1>x, <2>1, CallIsRead
  <2>3. ReadValue(w, read, d) = ReadCall(w, read, d + 4)
    BY <1>0, ReadValueIs
  <2> QED BY <1>x, <2>2, <2>3, <2>g
<1> QED BY <1>3, <1>4, <1>x

\* A value of any type is read if its parts are.
LEMMA ValueIsRead ==
  ASSUME NullIsApart, NEW v \in Values, v.type \in BaseTypes, Marshal[v] = WriteValue(Marshal, v),
         NEW w, NEW read, Unmarshals(read, w), PartsReadable(read, w, v)
  PROVE  IsValueRead(read, w, v)
<1>0. Len(w) \in Nat
  BY DEF Unmarshals
<1>1. AsRead[v] = AsReadOf(AsRead, v)
  BY DEF PartsReadable
<1>2. AsRead[v] # Empty => AsRead[v] = v
  BY <1>1 DEF AsReadOf
<1>3. \E rest : Behind(v, rest) /\ BehindIsRead(w, read, v, rest)
  <2>1. CASE v = Empty
    <3>1. v.type \notin {ARRAY_TYPE, SEP_TYPE, VAR_ADT_TYPE}
      BY <2>1 DEF Empty, EMPTY_TYPE, ARRAY_TYPE, SEP_TYPE, VAR_ADT_TYPE
    <3>2. AsRead[v] = v
      BY <1>1, <3>1, Partless
    <3>3. AsRead[Empty] = Empty /\ Marshal[Empty] = WriteValue(Marshal, Empty)
      BY <2>1, <3>2
    <3>4. Behind(Empty, <<>>) /\ BehindIsRead(w, read, Empty, <<>>)
      BY <1>0, <3>3, EmptyIsRead
    <3> QED BY <2>1, <3>4
  <2>2. CASE v \in NumberValues
    <3>1. v.type \notin {ARRAY_TYPE, SEP_TYPE, VAR_ADT_TYPE}
      BY <2>2 DEF NumberValues, INT_TYPE, DOUBLE_TYPE, ARRAY_TYPE, SEP_TYPE, VAR_ADT_TYPE
    <3>2. AsRead[v] = v
      BY <1>1, <3>1, Partless
    <3>w. PICK width : width = IF v.type = INT_TYPE THEN 4 ELSE 8
      OBVIOUS
    <3>3. Behind(v, Field(v.val, width)) /\ BehindIsRead(w, read, v, Field(v.val, width))
      BY <1>0, <2>2, <3>2, <3>w, NumberIsRead
    <3> QED BY <3>3
  <2>3. CASE v \in StringValues /\ IsString(v.val)
    <3>1. v.type \notin {ARRAY_TYPE, SEP_TYPE, VAR_ADT_TYPE}
      BY <2>3 DEF StringValues, STRING_TYPE, ARRAY_TYPE, SEP_TYPE, VAR_ADT_TYPE
    <3>2. AsRead[v] = v
      BY <1>1, <3>1, Partless
    <3>3. Behind(v, WriteStr(v.val)) /\ BehindIsRead(w, read, v, WriteStr(v.val))
      BY <1>0, <2>3, <3>2, StringValueIsRead
    <3> QED BY <3>3
  <2>4. CASE v \in ArrayValues /\ IsString(v.adt) /\ (v.of # ADT_TYPE => v.adt = NoString)
    <3>1. Behind(v, ArrayRest(v)) /\ BehindIsRead(w, read, v, ArrayRest(v))
      BY <1>0, <2>4, ArrayBehind
    <3> QED BY <3>1
  <2>5. CASE v \in StructValues /\ IsString(v.adt) /\ \A i \in DOMAIN v.fields : IsString(v.fields[i][1])
    <3>1. Behind(v, StructRest(v)) /\ BehindIsRead(w, read, v, StructRest(v))
      BY <1>0, <2>5, StructBehind
    <3> QED BY <3>1
  <2>6. CASE v \in CallValues
    <3>1. Behind(v, CallRest(v)) /\ BehindIsRead(w, read, v, CallRest(v))
      BY <1>0, <2>6, CallBehind
    <3> QED BY <3>1
  <2> QED BY <2>1, <2>2, <2>3, <2>4, <2>5, <2>6, ValuesAssumption
        DEF NumberValues, StringValues, ArrayValues, StructValues, CallValues
<1>4. PICK rest : Behind(v, rest) /\ BehindIsRead(w, read, v, rest)
  BY <1>3
<1> QED BY <1>2, <1>4, TypedIsRead

\* Every value that can be sent is read wherever it lies in what is received.
LEMMA SendableIsRead ==
  ASSUME NullIsApart, ValuesAreFinite, NEW w \in Seq(NumberBytes), NEW read, read = Unmarshal(w)
  PROVE  \A v \in Values : Sendable[v] => IsValueRead(read, w, v)
<1>n. PICK n \in Nat : \E depth : Deeper(depth, n)
  BY DEF ValuesAreFinite
<1>1. PICK depth : Deeper(depth, n)
  BY <1>n
<1>0. /\ \A v \in Values : depth[v] \in 0 .. n
      /\ \A v \in Values : \A i \in DOMAIN Parts(v) : Parts(v)[i] \in Values /\ depth[Parts(v)[i]] < depth[v]
  BY <1>1 DEF Deeper
<1>2. Unmarshals(read, w)
  BY UnmarshalFacts, LenProperties DEF Unmarshals
<1> DEFINE Bad(k) == \E v \in Values : depth[v] = k /\ Sendable[v] /\ ~IsValueRead(read, w, v)
           T == {k \in 0 .. n : Bad(k)}
<1>3. T = {}
  <2> SUFFICES ASSUME T # {} PROVE FALSE
    OBVIOUS
  <2>1. T \subseteq Nat
    OBVIOUS
  <2>2. PICK k \in T : \A y \in T : k <= y
    BY <2>1, SmallestExists
  <2>3. PICK v \in Values : depth[v] = k /\ Sendable[v] /\ ~IsValueRead(read, w, v)
    BY <2>2
  <2>4. v.type \in BaseTypes /\ \A i \in DOMAIN Parts(v) : Sendable[Parts(v)[i]]
    <3>1. SendableOf(Sendable, v)
      BY <2>3, SendableFacts
    <3> QED BY <3>1 DEF SendableOf
  <2>5. ASSUME NEW i \in DOMAIN Parts(v) PROVE IsValueRead(read, w, Parts(v)[i])
    <3>p. PICK p : p = Parts(v)[i]
      OBVIOUS
    <3>1. p \in Values /\ depth[p] < depth[v] /\ Sendable[p]
      BY <1>0, <2>4, <3>p
    <3>2. depth[p] \in 0 .. n /\ depth[v] \in 0 .. n
      BY <1>0, <3>1
    <3>3. depth[p] \notin T
      <4>1. k = depth[v] /\ k \in 0 .. n
        BY <2>3, <3>2
      <4> QED BY <2>2, <3>1, <3>2, <4>1
    <3>4. ~Bad(depth[p])
      BY <3>2, <3>3
    <3>5. IsValueRead(read, w, p)
      BY <3>1, <3>4
    <3> QED BY <3>5, <3>p
  <2>6. PartsReadable(read, w, v)
    BY <2>5, AsReadFacts DEF PartsReadable
  <2>7. Marshal[v] = WriteValue(Marshal, v)
    BY MarshalFacts
  <2>8. IsValueRead(read, w, v)
    BY <1>2, <2>4, <2>6, <2>7, ValueIsRead
  <2> QED BY <2>3, <2>8
<1>4. ASSUME NEW v \in Values, Sendable[v] PROVE IsValueRead(read, w, v)
  <2>1. depth[v] \in 0 .. n
    BY <1>0
  <2>2. ~Bad(depth[v])
    BY <1>3, <2>1
  <2> QED BY <1>4, <2>2
<1> QED BY <1>4

----------------------------------------------------------------------------
(* The packets of programs: fields of fixed widths, and values behind them *)

\* A packet that has rest behind the fields t of a front, or the first bytes of one that
\* go beyond the front.
Tailed(w, rest, t, widths, size) ==
  /\ w \in Seq(NumberBytes) /\ RetrieveAll(w, 0, widths) = t /\ Retrieve(w, 0, 1) = t[1]
  /\ size <= Len(w) /\ Lain(rest, w, size)

Fields(front, t, widths, size) ==
  /\ Row(NumberBytes, front, t, widths, size)
  /\ widths \in Seq(Nat \ {0}) /\ Len(widths) >= 1 /\ widths[1] = 1

\* All that is made of such a packet, in full and cut short.
TailRead(buf, rest, t, widths, size) ==
  /\ Tailed(buf, rest, t, widths, size) /\ Len(buf) = size + Len(rest)
  /\ \A k \in 0 .. Len(buf) - 1 :
       /\ k < size => /\ Retrieve(SubSeq(buf, 1, k), 0, 1) \in {Null, t[1]}
                      /\ RetrieveAll(SubSeq(buf, 1, k), 0, widths)[Len(widths)] = Null
       /\ size <= k => Tailed(SubSeq(buf, 1, k), rest, t, widths, size) /\ Len(SubSeq(buf, 1, k)) = k

\* What is written behind the fields lies there, in the packet and in what is cut from it.
LEMMA TailWritten ==
  ASSUME NEW front, NEW t, NEW widths, NEW size, Fields(front, t, widths, size),
         NEW rest, NEW buf, IsBoth(NumberBytes, buf, front, rest)
  PROVE  TailRead(buf, rest, t, widths, size)
<1>b. rest \in Seq(NumberBytes) /\ front \in Seq(NumberBytes) /\ buf = front \o rest
  BY DEF IsBoth
<1>l. PICK l, m : l = Len(buf) /\ m = Len(rest)
  OBVIOUS
<1>0. front \in Seq(NumberBytes) /\ Len(front) = size /\ size \in Nat /\ m \in Nat
  BY <1>b, <1>l, LenProperties DEF Fields, Row, IsEntry
<1>1. buf \in Seq(NumberBytes) /\ l = size + m
  BY <1>0, <1>b, <1>l, ConcatFacts
<1>2. Kept(front, buf)
  BY <1>0, <1>b, AppendedBehind
<1>3. Shifted(rest, buf, size)
  BY <1>0, <1>b, ShiftedBehind
<1>4. FrontRead(buf, t, widths, size)
  <2>1. Fronted(NumberBytes, buf, front, t, widths, size)
    BY <1>0, <1>1, <1>2, <1>l DEF Fields, Fronted
  <2> QED BY <2>1, FrontIsRead
<1>5. Tailed(buf, rest, t, widths, size)
  <2>1. Lain(rest, buf, size)
    BY <1>3 DEF Lain, Shifted
  <2> QED BY <1>0, <1>1, <1>4, <1>l, <2>1 DEF Tailed, FrontRead
<1>6. ASSUME NEW k \in 0 .. Len(buf) - 1, size <= k
      PROVE  Tailed(SubSeq(buf, 1, k), rest, t, widths, size) /\ Len(SubSeq(buf, 1, k)) = k
  <2>c. PICK cut : cut = SubSeq(buf, 1, k)
    OBVIOUS
  <2>0. k \in 0 .. Len(buf) /\ k \in Nat
    BY <1>0, <1>1, <1>l
  <2>1. cut \in Seq(NumberBytes) /\ Len(cut) = k /\ KeptTo(k, buf, cut)
    BY <1>1, <2>0, <2>c, CutBehind
  <2>2. Kept(front, cut)
    <3> SUFFICES ASSUME NEW at \in Nat, NEW width \in Nat, NEW value, Lies(front, at, value, width)
                 PROVE  Lies(cut, at, value, width)
      BY DEF Kept
    <3>1. at + width <= size
      BY <1>0 DEF Lies
    <3>2. at + width <= k
      BY <1>0, <1>6, <2>0, <3>1
    <3>3. Lies(buf, at, value, width)
      BY <1>2 DEF Kept
    <3> QED BY <2>1, <3>2, <3>3 DEF KeptTo
  <2>3. FrontRead(cut, t, widths, size)
    <3>1. Fronted(NumberBytes, cut, front, t, widths, size)
      BY <1>0, <1>6, <2>1, <2>2 DEF Fields, Fronted
    <3> QED BY <3>1, FrontIsRead
  <2>4. Lain(rest, cut, size)
    <3> SUFFICES ASSUME NEW at \in Nat, NEW width \in Nat, NEW value, Lies(rest, at, value, width),
                        size + at + width <= Len(cut)
                 PROVE  Lies(cut, size + at, value, width)
      BY DEF Lain
    <3>1. Lies(buf, size + at, value, width)
      BY <1>3 DEF Shifted
    <3>2. size + at \in Nat /\ (size + at) + width <= k
      BY <1>0, <2>1
    <3> QED BY <2>1, <3>1, <3>2 DEF KeptTo
  <2> QED BY <1>6, <2>1, <2>3, <2>4, <2>c DEF Tailed, FrontRead
<1>7. ASSUME NEW k \in 0 .. Len(buf) - 1, k < size
      PROVE  /\ Retrieve(SubSeq(buf, 1, k), 0, 1) \in {Null, t[1]}
             /\ RetrieveAll(SubSeq(buf, 1, k), 0, widths)[Len(widths)] = Null
  BY <1>4, <1>7 DEF FrontRead
<1> QED BY <1>1, <1>5, <1>6, <1>7, <1>l DEF TailRead

\* The classes of the packets of programs.
LEMMA ProgramClasses ==
  ASSUME NullIsApart, NEW p, NEW from
  PROVE  /\ p.type = DSL_REQUEST =>
              /\ Creates(p) = CreateDSLRequest(p)
              /\ Received(p, from) =
                   IF p.text.size > MaxProgramSize THEN Null ELSE [p EXCEPT !.param = AsRead[@]]
              /\ CutShort(p) = {Null} \cup
                   ({[p EXCEPT !.param = Empty]} \cap {[p EXCEPT !.param = AsRead[@]]})
         /\ p.type = DSL_REPLY =>
              /\ Creates(p) = CreateDSLReply(p) /\ Received(p, from) = [p EXCEPT !.value = AsRead[@]]
              /\ CutShort(p) = {Null} \cup {[p EXCEPT !.value = Empty]}
         /\ \A buf : /\ Retrieve(buf, 0, 1) = DSL_REQUEST =>
                          Parses(from, buf) = ParseDSLRequest(DSL_REQUEST, buf)
                     /\ Retrieve(buf, 0, 1) = DSL_REPLY => Parses(from, buf) = ParseDSLReply(DSL_REPLY, buf)
<1>1. ASSUME p.type = DSL_REQUEST
      PROVE  /\ Creates(p) = CreateDSLRequest(p)
             /\ Received(p, from) =
                  IF p.text.size > MaxProgramSize THEN Null ELSE [p EXCEPT !.param = AsRead[@]]
             /\ CutShort(p) = {Null} \cup ({[p EXCEPT !.param = Empty]} \cap {[p EXCEPT !.param = AsRead[@]]})
  <2>1. Creates(p) = CreateDSLRequest(p)
    BY <1>1 DEF Creates, MeasureTypes, ConstraintTypes, ClosestTypes, PlainTypes, GossipTypes, RET_INFO,
         RET_RESPONSE, RET_PING_REQ, INFO_PACKET, DSL_REQUEST, DSL_REPLY
  <2>2. Received(p, from) =
          IF p.text.size > MaxProgramSize THEN Null ELSE [p EXCEPT !.param = AsRead[@]]
    BY <1>1 DEF Received, RET_INFO, RET_RESPONSE, DSL_REQUEST, DSL_REPLY
  <2>3. CutShort(p) = {Null} \cup ({[p EXCEPT !.param = Empty]} \cap {[p EXCEPT !.param = AsRead[@]]})
    BY <1>1 DEF CutShort, DSL_REQUEST, DSL_REPLY
  <2> QED BY <2>1, <2>2, <2>3
<1>2. ASSUME p.type = DSL_REPLY
      PROVE  /\ Creates(p) = CreateDSLReply(p) /\ Received(p, from) = [p EXCEPT !.value = AsRead[@]]
             /\ CutShort(p) = {Null} \cup {[p EXCEPT !.value = Empty]}
  <2>1. Creates(p) = CreateDSLReply(p)
    BY <1>2 DEF Creates, MeasureTypes, ConstraintTypes, ClosestTypes, PlainTypes, GossipTypes, RET_INFO,
         RET_RESPONSE, RET_PING_REQ, INFO_PACKET, DSL_REQUEST, DSL_REPLY
  <2>2. Received(p, from) = [p EXCEPT !.value = AsRead[@]]
    BY <1>2 DEF Received, RET_INFO, RET_RESPONSE, DSL_REQUEST, DSL_REPLY
  <2>3. CutShort(p) = {Null} \cup {[p EXCEPT !.value = Empty]}
    BY <1>2 DEF CutShort, DSL_REQUEST, DSL_REPLY
  <2> QED BY <2>1, <2>2, <2>3
<1>3. ASSUME NEW buf
      PROVE  /\ Retrieve(buf, 0, 1) = DSL_REQUEST => Parses(from, buf) = ParseDSLRequest(DSL_REQUEST, buf)
             /\ Retrieve(buf, 0, 1) = DSL_REPLY => Parses(from, buf) = ParseDSLReply(DSL_REPLY, buf)
  BY DEF Parses, MeasureTypes, ConstraintTypes, ClosestTypes, PlainTypes, GossipTypes, RET_INFO,
         RET_RESPONSE, RET_PING_REQ, INFO_PACKET, DSL_REQUEST, DSL_REPLY
<1> QED BY <1>1, <1>2, <1>3

\* What is made of an answer whose fields have been received, with the value read as far
\* as it has been.
LEMMA ReplyParsed ==
  ASSUME NullIsApart, ValuesAreFinite, NEW v \in Values, Sendable[v], NEW id \in Nat,
         NEW t, t = IdRow(DSL_REPLY, id), t \in Seq(Nat), NEW w, NEW widths, widths = <<1, 4, 4, 4>>,
         NEW rest, rest = Marshal[v], Tailed(w, rest, t, widths, 13), NEW from
  PROVE  \E value : /\ Parses(from, w) = [type |-> DSL_REPLY, id |-> id, value |-> value]
                    /\ 13 + Len(rest) <= Len(w) => value = AsRead[v]
                    /\ ~(13 + Len(rest) <= Len(w)) => value = Empty
<1>l. PICK len : len = Len(w)
  OBVIOUS
<1>0. w \in Seq(NumberBytes) /\ Retrieve(w, 0, 1) = DSL_REPLY /\ RetrieveAll(w, 0, HeaderWidths) = t
      /\ 13 \in 0 .. Len(w) /\ Lain(Marshal[v], w, 13)
  BY WidthsWritten, LenProperties DEF Tailed, IdRow
<1>r. PICK read : read = Unmarshal(w)
  OBVIOUS
<1>1. IsValueRead(read, w, v)
  BY <1>0, <1>r, SendableIsRead
<1>2. ValueRead(read[13], v, 13 + Len(rest), len)
  BY <1>0, <1>1, <1>l DEF IsValueRead
<1>3. /\ 13 + Len(rest) <= len => read[13].value = AsRead[v]
      /\ ~(13 + Len(rest) <= len) => read[13].value = Empty
  BY <1>2 DEF ValueRead
<1>4. Parses(from, w) = ParseDSLReply(DSL_REPLY, w)
  BY <1>0, ProgramClasses
<1>5. Opens(t, DSL_REPLY)
  BY RowOpens DEF IdRow
<1>6. To64(t) = id
  <2>1. t[2] = id \div WordSize /\ t[3] = id % WordSize
    BY DEF IdRow
  <2> QED BY <2>1, IdHalves DEF To64
<1>f. PICK f : f = t
  OBVIOUS
<1>7. ParseDSLReply(DSL_REPLY, w) = [type |-> DSL_REPLY, id |-> To64(f), value |-> read[13].value]
  BY <1>0, <1>5, <1>f, <1>r, Zenon DEF ParseDSLReply
<1> QED BY <1>3, <1>4, <1>6, <1>7, <1>f, <1>l

\* The answer of a program.
LEMMA ReplyReads ==
  ASSUME NullIsApart, ValuesAreFinite, NEW from, NEW p \in [type : {DSL_REPLY}, id : Nat, value : Values]
  PROVE  IsReadBack(NumberBytes, p, from)
<1> SUFFICES ASSUME NEW buf, buf = Creates(p), buf # Null
             PROVE  /\ buf \in Seq(NumberBytes) /\ Parses(from, buf) = Received(p, from)
                    /\ \A k \in 0 .. Len(buf) - 1 : Parses(from, SubSeq(buf, 1, k)) \in CutShort(p)
  BY DEF IsReadBack
<1>t. PICK front, t, widths, rest, v, id :
        /\ front = WriteId(p.type, p.id) /\ t = IdRow(p.type, p.id) /\ widths = <<1, 4, 4, 4>>
        /\ rest = Marshal[p.value] /\ v = p.value /\ id = p.id
  OBVIOUS
<1>0. p.type = DSL_REPLY /\ DSL_REPLY \in Nat /\ v \in Values /\ id \in Nat
      /\ p = [type |-> DSL_REPLY, id |-> id, value |-> v]
  BY <1>t DEF DSL_REPLY
<1>1. Sendable[v] /\ buf = front \o rest
  <2>1. Creates(p) = CreateDSLReply(p)
    BY <1>0, ProgramClasses
  <2> QED BY <1>t, <2>1 DEF CreateDSLReply, Complete
<1>2. rest \in Seq(NumberBytes)
  <2>1. <<>> \in Seq(NumberBytes)
    BY EmptySeq
  <2> PICK read, none : none = <<>> /\ read = Unmarshal(none)
    OBVIOUS
  <2>2. IsValueRead(read, none, v)
    BY <1>0, <1>1, <2>1, SendableIsRead
  <2> QED BY <1>t, <2>2 DEF IsValueRead
<1>3. Fields(front, t, widths, 13)
  <2>1. Row(NumberBytes, front, t, widths, 13)
    BY <1>0, <1>t, IdRowWritten, NumbersAreBytes
  <2>2. widths \in Seq(Nat \ {0}) /\ Len(widths) >= 1 /\ widths[1] = 1
    BY <1>t, WidthsPositive
  <2> QED BY <2>1, <2>2 DEF Fields
<1>4. t \in Seq(Nat) /\ t[1] = DSL_REPLY /\ t[4] = MagicNumber
  BY <1>0, <1>3, <1>t DEF Fields, Row, IsEntry, IsRow, IdRow
<1>l. PICK l, m : l = Len(buf) /\ m = Len(rest)
  OBVIOUS
<1>b. TailRead(buf, rest, t, widths, 13)
  <2>1. IsBoth(NumberBytes, buf, front, rest)
    BY <1>1, <1>2, <1>3 DEF IsBoth, Fields, Row, IsEntry
  <2> QED BY <1>3, <2>1, TailWritten
<1>5. Tailed(buf, rest, t, widths, 13) /\ l = 13 + m /\ l \in Nat /\ m \in Nat
  BY <1>2, <1>b, <1>l, LenProperties DEF TailRead, Tailed
<1>6. Received(p, from) = [p EXCEPT !.value = AsRead[@]] /\
    CutShort(p) = {Null} \cup {[p EXCEPT !.value = Empty]}
  BY <1>0, ProgramClasses
<1>p. ASSUME NEW w, Tailed(w, rest, t, widths, 13)
      PROVE  \E value : /\ Parses(from, w) = [type |-> DSL_REPLY, id |-> id, value |-> value]
                        /\ 13 + Len(rest) <= Len(w) => value = AsRead[v]
                        /\ ~(13 + Len(rest) <= Len(w)) => value = Empty
  <2>1. /\ v \in Values /\ Sendable[v] /\ id \in Nat /\ t = IdRow(DSL_REPLY, id) /\ t \in Seq(Nat)
        /\ widths = <<1, 4, 4, 4>> /\ rest = Marshal[v]
    BY <1>0, <1>1, <1>4, <1>t
  <2> QED BY <1>p, <2>1, ReplyParsed
<1>7. Parses(from, buf) = Received(p, from)
  <2>a. PICK a : a = AsRead[v]
    OBVIOUS
  <2>1. PICK value : /\ Parses(from, buf) = [type |-> DSL_REPLY, id |-> id, value |-> value]
                     /\ 13 + Len(rest) <= Len(buf) => value = AsRead[v]
    BY <1>5, <1>p
  <2>2. Parses(from, buf) = [type |-> DSL_REPLY, id |-> id, value |-> a]
    BY <1>5, <1>l, <2>1, <2>a
  <2>3. [p EXCEPT !.value = AsRead[@]] = [type |-> DSL_REPLY, id |-> id, value |-> a]
    BY <1>0, <2>a
  <2> QED BY <1>6, <2>2, <2>3, Zenon
<1>8. ASSUME NEW k \in 0 .. Len(buf) - 1 PROVE Parses(from, SubSeq(buf, 1, k)) \in CutShort(p)
  <2>c. PICK cut : cut = SubSeq(buf, 1, k)
    OBVIOUS
  <2>k. k \in Nat /\ k < l
    BY <1>5, <1>l
  <2>1. CASE k < 13
    <3>1. Retrieve(cut, 0, 1) \in {Null, DSL_REPLY} /\ RetrieveAll(cut, 0, widths)[Len(widths)] = Null
      BY <1>4, <1>b, <2>1, <2>c DEF TailRead
    <3>2. Retrieve(cut, 0, 1) = Null => Parses(from, cut) = Null
      BY ParsesIs
    <3>3. Retrieve(cut, 0, 1) = DSL_REPLY => Parses(from, cut) = ParseDSLReply(DSL_REPLY, cut)
      BY ProgramClasses
    <3>4. ~Opens(RetrieveAll(cut, 0, HeaderWidths), DSL_REPLY)
      <4>1. ~Opens(RetrieveAll(cut, 0, widths), DSL_REPLY)
        <5> PICK n : n = Len(widths)
          OBVIOUS
        <5>1. n \in Nat \ {0}
          BY <1>t
        <5> QED BY <3>1, <5>1, MissingField
      <4> QED BY <1>t, <4>1, WidthsWritten, Zenon
    <3>5. ParseDSLReply(DSL_REPLY, cut) = Null
      BY <3>4, Zenon DEF ParseDSLReply
    <3> QED BY <1>6, <2>c, <3>1, <3>2, <3>3, <3>5
  <2>2. CASE 13 <= k
    <3>1. Tailed(cut, rest, t, widths, 13) /\ Len(cut) = k
      BY <1>b, <2>2, <2>c DEF TailRead
    <3>2. PICK value : /\ Parses(from, cut) = [type |-> DSL_REPLY, id |-> id, value |-> value]
                       /\ ~(13 + Len(rest) <= Len(cut)) => value = Empty
      BY <1>p, <3>1
    <3>3. Parses(from, cut) = [type |-> DSL_REPLY, id |-> id, value |-> Empty]
      BY <1>5, <1>l, <2>k, <3>1, <3>2
    <3>4. [p EXCEPT !.value = Empty] = [type |-> DSL_REPLY, id |-> id, value |-> Empty]
      BY <1>0
    <3> QED BY <1>6, <2>c, <3>3, <3>4
  <2> QED BY <2>1, <2>2, <2>k
<1> QED BY <1>5, <1>7, <1>8 DEF Tailed

\* The program of a request, the function that is called and its parameters, as they are
\* written, and what is read of them: the whole program, or nothing.
Program(size, text, func, v) == Uint(size) \o WriteStr(text) \o WriteStr(func) \o Marshal[v]
ProgramRead(call, size, text, func, v, whole) ==
  \/ call = Null /\ (size > MaxProgramSize \/ ~whole)
  \/ /\ ~(size > MaxProgramSize) /\ (~whole => AsRead[v] = Empty)
     /\ call = [text |-> [size |-> size, packed |-> text], func |-> func, param |-> AsRead[v]]

\* What UnmarshalPacket makes of what it reads.
CallOf(size, text, func, param) ==
  IF size = Null \/ param.at = Null THEN Null
  ELSE IF size > MaxProgramSize THEN Null
  ELSE [text |-> [size |-> size, packed |-> text], func |-> func, param |-> param.value]

\* unmarshal_packet, of the strings and the parameters it reads.
LEMMA UnmarshalPacketIs ==
  ASSUME NEW buf, NEW d, NEW text, text = RetrieveStr(buf, d + 4), NEW func,
         func = IF text.at = Null THEN text ELSE RetrieveStr(buf, text.at),
         NEW param, param = IF func.at = Null THEN Failed ELSE Unmarshal(buf)[func.at]
  PROVE  UnmarshalPacket(buf, d) = CallOf(Retrieve(buf, d, 4), text.str, func.str, param)
BY Zenon DEF UnmarshalPacket, CallOf

\* The two parts of what is written, one behind the other.
LainBoth(w, d, u, a, b, n) ==
  /\ u \in Seq(NumberBytes) /\ n \in Nat /\ Len(b) \in Nat /\ Len(u) = n + Len(b)
  /\ Lain(a, w, d) /\ Lain(b, w, d + n)

\* Two lists behind each other, as one fact.
LEMMA BothLain ==
  ASSUME NEW a, NEW b, NEW u, IsBoth(NumberBytes, u, a, b), NEW w, NEW d \in Nat, Lain(u, w, d),
         NEW n, n = Len(a)
  PROVE  LainBoth(w, d, u, a, b, n)
<1>b. PICK Bytes : Bytes = NumberBytes
  OBVIOUS
<1>1. IsBoth(Bytes, u, a, b)
  BY <1>b
<1>2. /\ u \in Seq(Bytes) /\ n \in Nat /\ Len(b) \in Nat /\ Len(u) = n + Len(b)
      /\ Lain(a, w, d) /\ Lain(b, w, d + n)
  <2>1. u \in Seq(Bytes) /\ n \in Nat /\ Len(b) \in Nat /\ Len(u) = n + Len(b)
    BY <1>1, LainParts, SMTT(30)
  <2>2. Lain(a, w, d) /\ Lain(b, w, d + n)
    BY <1>1, LainParts, ZenonT(30)
  <2> QED BY <2>1, <2>2
<1> QED BY <1>2, <1>b DEF LainBoth

\* The parts of a program.
ProgramLain(w, d, size, text, func, v, rest, m, e1, e2) ==
  /\ rest \in Seq(NumberBytes) /\ d + Len(rest) = e2 + m /\ m \in Nat /\ e1 \in Nat /\ e2 \in Nat
  /\ d + 4 <= e1 /\ e1 <= e2
  /\ Lain(Field(size, 4), w, d) /\ Lain(WriteStr(text), w, d + 4) /\ Lain(WriteStr(func), w, e1)
  /\ Lain(Marshal[v], w, e2)

\* The parts of a program's packet lie behind each other.
LEMMA ProgramParts ==
  ASSUME NEW size \in Nat, NEW text, IsString(text), NEW func, IsString(func), NEW v,
         Marshal[v] \in Seq(NumberBytes), NEW rest, rest = Program(size, text, func, v),
         NEW w, NEW d \in Nat, Lain(rest, w, d), NEW m, m = Len(Marshal[v]),
         NEW e1, e1 = d + 4 + (4 + text[2]), NEW e2, e2 = e1 + (4 + func[2])
  PROVE  ProgramLain(w, d, size, text, func, v, rest, m, e1, e2)
<1>x. PICK a, b, c, z, ab, abc :
        /\ a = Field(size, 4) /\ b = WriteStr(text) /\ c = WriteStr(func) /\ z = Marshal[v]
        /\ ab = a \o b /\ abc = ab \o c
  OBVIOUS
<1>1. a \in Seq(NumberBytes) /\ Len(a) = 4
  BY <1>x, NumberIsList, NumbersAreBytes
<1>2. b \in Seq(NumberBytes) /\ Len(b) = 4 + text[2] /\ text[2] \in Nat
  BY <1>x, StringIsList, NumbersAreBytes
<1>3. c \in Seq(NumberBytes) /\ Len(c) = 4 + func[2] /\ func[2] \in Nat
  BY <1>x, StringIsList, NumbersAreBytes
<1>4. IsBoth(NumberBytes, ab, a, b)
  BY <1>1, <1>2, <1>x DEF IsBoth
<1>5. ab \in Seq(NumberBytes)
  BY <1>1, <1>2, <1>x, ConcatFacts
<1>6. IsBoth(NumberBytes, abc, ab, c)
  BY <1>3, <1>5, <1>x DEF IsBoth
<1>7. abc \in Seq(NumberBytes)
  BY <1>3, <1>5, <1>x, ConcatFacts
<1>8. rest = abc \o z
  BY <1>x, Zenon DEF Program, Uint
<1>9. IsBoth(NumberBytes, rest, abc, z)
  BY <1>7, <1>8, <1>x DEF IsBoth
<1>l. PICK l, n : l = Len(ab) /\ n = Len(abc)
  OBVIOUS
<1>10. /\ rest \in Seq(NumberBytes) /\ n \in Nat /\ m \in Nat /\ Len(rest) = n + m
       /\ Lain(abc, w, d) /\ Lain(z, w, d + n)
  <2>1. Lain(rest, w, d) /\ n = Len(abc)
    BY <1>l
  <2>2. LainBoth(w, d, rest, abc, z, n)
    BY <1>9, <2>1, BothLain
  <2>3. m = Len(z)
    BY <1>x
  <2> QED BY <2>2, <2>3 DEF LainBoth
<1>11. l \in Nat /\ n = l + Len(c) /\ Lain(ab, w, d) /\ Lain(c, w, d + l)
  <2>1. Lain(abc, w, d) /\ l = Len(ab)
    BY <1>10, <1>l
  <2>2. LainBoth(w, d, abc, ab, c, l)
    BY <1>6, <2>1, BothLain
  <2>3. n = Len(abc)
    BY <1>l
  <2> QED BY <2>2, <2>3 DEF LainBoth
<1>12. l = 4 + Len(b) /\ Lain(a, w, d) /\ Lain(b, w, d + 4)
  <2>f. PICK four : four = 4
    OBVIOUS
  <2>1. Lain(ab, w, d) /\ four = Len(a)
    BY <1>1, <1>11, <2>f
  <2>2. LainBoth(w, d, ab, a, b, four)
    BY <1>4, <2>1, BothLain
  <2>3. l = Len(ab)
    BY <1>l
  <2> QED BY <2>2, <2>3, <2>f DEF LainBoth
<1>t. PICK s, f : s = text[2] /\ f = func[2]
  OBVIOUS
<1>13. s \in Nat /\ f \in Nat /\ l = 4 + (4 + s) /\ n = l + (4 + f) /\ e1 = d + 4 + (4 + s) /\
    e2 = e1 + (4 + f)
  BY <1>2, <1>3, <1>11, <1>12, <1>t
<1>14. d + l = e1 /\ d + n = e2 /\ e1 \in Nat /\ e2 \in Nat /\ d + 4 <= e1 /\ e1 <= e2
  BY <1>13, SMTT(30)
<1>15. d + Len(rest) = e2 + m
  BY <1>10, <1>14
<1> QED BY <1>10, <1>11, <1>12, <1>14, <1>15, <1>x DEF ProgramLain

\* A program is read where it lies: refused if it is too long or cut short.
LEMMA ProgramIsRead ==
  ASSUME NullIsApart, ValuesAreFinite, NEW size \in Nat, NEW text, IsString(text), NEW func, IsString(func),
         NEW v \in Values, Sendable[v], NEW rest, rest = Program(size, text, func, v),
         NEW w \in Seq(NumberBytes), NEW d \in Nat, Lain(rest, w, d)
  PROVE  /\ rest \in Seq(NumberBytes)
         /\ ProgramRead(UnmarshalPacket(w, d), size, text, func, v, d + Len(rest) <= Len(w))
<1>r. PICK read, len, m : read = Unmarshal(w) /\ len = Len(w) /\ m = Len(Marshal[v])
  OBVIOUS
<1>e. PICK e1, e2 : e1 = d + 4 + (4 + text[2]) /\ e2 = e1 + (4 + func[2])
  OBVIOUS
<1>0. IsValueRead(read, w, v) /\ Marshal[v] \in Seq(NumberBytes) /\ len \in Nat
  BY <1>r, SendableIsRead, LenProperties DEF IsValueRead
<1>1. /\ rest \in Seq(NumberBytes) /\ d + Len(rest) = e2 + m /\ m \in Nat /\ e1 \in Nat /\ e2 \in Nat
      /\ d + 4 <= e1 /\ e1 <= e2
      /\ Lain(Field(size, 4), w, d) /\ Lain(WriteStr(text), w, d + 4) /\ Lain(WriteStr(func), w, e1)
      /\ Lain(Marshal[v], w, e2)
  <2>1. m = Len(Marshal[v])
    BY <1>r
  <2>2. ProgramLain(w, d, size, text, func, v, rest, m, e1, e2)
    BY <1>0, <1>e, <2>1, ProgramParts
  <2> QED BY <2>2 DEF ProgramLain
<1>s. PICK n, t, f, param :
        /\ n = Retrieve(w, d, 4) /\ t = RetrieveStr(w, d + 4)
        /\ f = (IF t.at = Null THEN t ELSE RetrieveStr(w, t.at))
        /\ param = IF f.at = Null THEN Failed ELSE read[f.at]
  OBVIOUS
<1>c. PICK call, whole : call = UnmarshalPacket(w, d) /\ whole = (d + Len(rest) <= Len(w))
  OBVIOUS
<1>2. call = CallOf(n, t.str, f.str, param)
  BY <1>c, <1>r, <1>s, UnmarshalPacketIs
<1>3. n = IF d + 4 <= len THEN size ELSE Null
  <2>w. PICK width : width = 4
    OBVIOUS
  <2>1. width \in Nat \ {0} /\ Lain(Field(size, width), w, d)
    BY <1>1, <2>w
  <2> QED BY <1>r, <1>s, <2>1, <2>w, LainField
<1>4. StringRead(t, text, e1, len)
  <2>d. PICK g : g = d + 4
    OBVIOUS
  <2>1. g \in Nat /\ Lain(WriteStr(text), w, g)
    BY <1>1, <2>d
  <2>2. StringRead(RetrieveStr(w, g), text, g + (4 + text[2]), len)
    BY <1>0, <1>r, <2>1, StringIsRead
  <2> QED BY <1>e, <1>s, <2>2, <2>d
<1>5. StringRead(RetrieveStr(w, e1), func, e2, len)
  <2>2. StringRead(RetrieveStr(w, e1), func, e1 + (4 + func[2]), len)
    BY <1>0, <1>1, <1>r, StringIsRead
  <2> QED BY <1>e, <2>2
<1>w. whole <=> e2 + m <= len
  BY <1>1, <1>c, <1>r
<1>6. CASE ~(e2 <= len)
  <2>1. f.at = Null
    <3>1. CASE t.at = Null
      BY <1>s, <3>1
    <3>2. CASE t.at # Null
      <4>1. t.at = e1
        BY <1>4, <3>2 DEF StringRead
      <4>2. f = RetrieveStr(w, e1)
        BY <1>s, <3>2, <4>1
      <4> QED BY <1>5, <1>6, <4>2 DEF StringRead
    <3> QED BY <3>1, <3>2
  <2>2. param = Failed
    BY <1>s, <2>1
  <2>3. call = Null
    BY <1>2, <2>2 DEF CallOf, Failed
  <2>4. ~whole
    BY <1>0, <1>1, <1>6, <1>w
  <2> QED BY <1>1, <1>c, <2>3, <2>4 DEF ProgramRead
<1>7. CASE e2 <= len
  <2>1. n = size /\ size # Null
    <3>1. d + 4 <= len
      BY <1>0, <1>1, <1>7
    <3> QED BY <1>3, <3>1 DEF NullIsApart
  <2>2. t.str = text /\ t.at = e1 /\ e1 # Null
    <3>1. e1 <= len
      BY <1>0, <1>1, <1>7
    <3> QED BY <1>1, <1>4, <3>1 DEF StringRead, NullIsApart
  <2>3. f.str = func /\ f.at = e2 /\ e2 # Null
    <3>1. f = RetrieveStr(w, e1)
      BY <1>s, <2>2
    <3> QED BY <1>1, <1>5, <1>7, <3>1 DEF StringRead, NullIsApart
  <2>4. param = read[e2]
    BY <1>s, <2>3
  <2>5. ValueRead(param, v, e2 + m, len)
    <3>1. e2 \in 0 .. Len(w)
      BY <1>0, <1>1, <1>7, <1>r
    <3> QED BY <1>0, <1>1, <1>r, <2>4, <3>1 DEF IsValueRead
  <2>6. CASE param.at = Null
    <3>1. call = Null
      BY <1>2, <2>6 DEF CallOf
    <3>2. ~whole
      BY <1>w, <2>5, <2>6 DEF ValueRead
    <3> QED BY <1>1, <1>c, <3>1, <3>2 DEF ProgramRead
  <2>7. CASE param.at # Null /\ size > MaxProgramSize
    <3>1. call = Null
      BY <1>2, <2>1, <2>7 DEF CallOf
    <3> QED BY <1>1, <1>c, <2>7, <3>1 DEF ProgramRead
  <2>8. CASE param.at # Null /\ ~(size > MaxProgramSize)
    <3>a. PICK value : value = param.value
      OBVIOUS
    <3>1. call = [text |-> [size |-> size, packed |-> text], func |-> func, param |-> value]
      BY <1>2, <2>1, <2>2, <2>3, <2>8, <3>a DEF CallOf
    <3>2. value = AsRead[v] /\ (~whole => AsRead[v] = Empty)
      <4>1. CASE e2 + m <= len
        BY <1>w, <2>5, <3>a, <4>1 DEF ValueRead
      <4>2. CASE ~(e2 + m <= len)
        BY <1>w, <2>5, <2>8, <3>a, <4>2 DEF ValueRead
      <4> QED BY <4>1, <4>2
    <3>3. ProgramRead(call, size, text, func, v, whole)
      BY <2>8, <3>1, <3>2 DEF ProgramRead
    <3> QED BY <1>1, <1>c, <3>3
  <2> QED BY <2>6, <2>7, <2>8
<1> QED BY <1>6, <1>7

\* What is made of a request whose fields have been received.
Request(id, rendv, ms, ttl, call) ==
  [type |-> DSL_REQUEST, id |-> id, rendv |-> rendv, msRemain |-> ms, ttl |-> ttl,
   text |-> call.text, func |-> call.func, param |-> call.param]

\* A DSL_REQUEST is its fields and the program behind them.
LEMMA RequestParsed ==
  ASSUME NullIsApart, NEW id \in Nat, NEW rendv \in Nat \X Nat, NEW ms \in Nat, NEW ttl \in Nat,
         NEW t, t = SearchRow(DSL_REQUEST, id, rendv, ms, ttl), t \in Seq(Nat),
         NEW widths, widths = <<1, 4, 4, 4, 4, 2, 2, 2>>, NEW w, NEW rest, Tailed(w, rest, t, widths, 23),
         NEW call, call = UnmarshalPacket(w, 23), NEW from
  PROVE  /\ call = Null => Parses(from, w) = Null
         /\ call # Null => Parses(from, w) = Request(id, rendv, ms, ttl, call)
<1>0. Retrieve(w, 0, 1) = DSL_REQUEST /\ RetrieveAll(w, 0, HeaderWidths \o IdentWidths \o <<2, 2>>) = t
  <2>1. Retrieve(w, 0, 1) = t[1] /\ RetrieveAll(w, 0, widths) = t
    BY DEF Tailed
  <2>2. widths = HeaderWidths \o IdentWidths \o <<2, 2>>
    BY WidthsWritten
  <2>3. t[1] = DSL_REQUEST
    BY DEF SearchRow
  <2> QED BY <2>1, <2>2, <2>3, Zenon
<1>1. Parses(from, w) = ParseDSLRequest(DSL_REQUEST, w)
  BY <1>0, ProgramClasses
<1>2. Opens(t, DSL_REQUEST)
  BY RowOpens DEF SearchRow
<1>3. To64(t) = id
  <2>1. t[2] = id \div WordSize /\ t[3] = id % WordSize
    BY DEF SearchRow
  <2> QED BY <2>1, IdHalves DEF To64
<1>4. <<t[5], t[6]>> = rendv /\ t[7] = ms /\ t[8] = ttl
  BY DEF SearchRow
<1>f. PICK f : f = t
  OBVIOUS
<1>5. CASE call = Null
  <2>1. ParseDSLRequest(DSL_REQUEST, w) = Null
    BY <1>5, Zenon DEF ParseDSLRequest
  <2> QED BY <1>1, <1>5, <2>1
<1>6. CASE call # Null
  <2>1. ParseDSLRequest(DSL_REQUEST, w) =
          [type |-> DSL_REQUEST, id |-> To64(f), rendv |-> <<f[5], f[6]>>, msRemain |-> f[7],
           ttl |-> f[8], text |-> call.text, func |-> call.func, param |-> call.param]
    BY <1>0, <1>2, <1>6, <1>f, Zenon DEF ParseDSLRequest
  <2> QED BY <1>1, <1>3, <1>4, <1>6, <1>f, <2>1 DEF Request
<1> QED BY <1>5, <1>6

\* The program behind the fields is read.
LEMMA ProgramFollows ==
  ASSUME NullIsApart, ValuesAreFinite, NEW size \in Nat, NEW text, IsString(text), NEW func, IsString(func),
         NEW v \in Values, Sendable[v], NEW rest, rest = Program(size, text, func, v),
         NEW t, NEW widths, NEW w, Tailed(w, rest, t, widths, 23)
  PROVE  ProgramRead(UnmarshalPacket(w, 23), size, text, func, v, 23 + Len(rest) <= Len(w))
<1>d. PICK d : d = 23
  OBVIOUS
<1>1. w \in Seq(NumberBytes) /\ d \in Nat /\ Lain(rest, w, d)
  BY <1>d DEF Tailed
<1>2. ProgramRead(UnmarshalPacket(w, d), size, text, func, v, d + Len(rest) <= Len(w))
  BY <1>1, ProgramIsRead
<1> QED BY <1>2, <1>d

\* A program is written as a list of bytes.
LEMMA ProgramIsList ==
  ASSUME NullIsApart, ValuesAreFinite, NEW size \in Nat, NEW text, IsString(text), NEW func, IsString(func),
         NEW v \in Values, Sendable[v], NEW rest, rest = Program(size, text, func, v)
  PROVE  rest \in Seq(NumberBytes)
<1> PICK none, d : none = <<>> /\ d = 1
  OBVIOUS
<1>1. none \in Seq(NumberBytes) /\ Len(none) = 0 /\ d \in Nat
  BY EmptySeq
<1>2. Lain(rest, none, d)
  <2> SUFFICES ASSUME NEW at \in Nat, NEW width \in Nat PROVE ~(d + at + width <= Len(none))
    BY DEF Lain
  <2> QED BY <1>1
<1> QED BY <1>1, <1>2, ProgramIsRead

Requests == [type : {DSL_REQUEST}, id : Nat, rendv : Nat \X Nat, msRemain : Nat, ttl : Nat,
             text : [size : Nat, packed : Nat \X Nat], func : Nat \X Nat, param : Values]

\* The request to run a program.
LEMMA RequestReads ==
  ASSUME NullIsApart, ValuesAreFinite, NEW from, NEW p \in Requests,
         IsString(p.text.packed), IsString(p.func)
  PROVE  IsReadBack(NumberBytes, p, from)
<1> SUFFICES ASSUME NEW buf, buf = Creates(p), buf # Null
             PROVE  /\ buf \in Seq(NumberBytes) /\ Parses(from, buf) = Received(p, from)
                    /\ \A k \in 0 .. Len(buf) - 1 : Parses(from, SubSeq(buf, 1, k)) \in CutShort(p)
  BY DEF IsReadBack
<1>a. PICK id, rendv, ms, ttl, size, text, func, v, a :
        /\ id = p.id /\ rendv = p.rendv /\ ms = p.msRemain /\ ttl = p.ttl /\ size = p.text.size
        /\ text = p.text.packed /\ func = p.func /\ v = p.param /\ a = AsRead[v]
  OBVIOUS
<1>0. /\ p.type = DSL_REQUEST /\ DSL_REQUEST \in Nat
      /\ id \in Nat /\ rendv \in Nat \X Nat /\ ms \in Nat /\ ttl \in Nat /\ size \in Nat
      /\ IsString(text) /\ IsString(func) /\ v \in Values
      /\ p = [type |-> DSL_REQUEST, id |-> id, rendv |-> rendv, msRemain |-> ms, ttl |-> ttl,
              text |-> [size |-> size, packed |-> text], func |-> func, param |-> v]
  BY <1>a DEF Requests, DSL_REQUEST
<1>t. PICK front, t, widths, rest :
        /\ front = WriteId(p.type, p.id) \o WriteIdent(p.rendv) \o Ushort(p.msRemain) \o Ushort(p.ttl)
        /\ t = SearchRow(DSL_REQUEST, id, rendv, ms, ttl) /\ widths = <<1, 4, 4, 4, 4, 2, 2, 2>>
        /\ rest = Program(size, text, func, v)
  OBVIOUS
<1>1. Sendable[v] /\ buf = front \o rest
  <2>1. Creates(p) = CreateDSLRequest(p)
    BY <1>0, ProgramClasses
  <2>2. Sendable[p.param] /\ buf = front \o MarshalPacket(p)
    BY <1>t, <2>1 DEF CreateDSLRequest, Complete
  <2>3. MarshalPacket(p) = rest
    BY <1>a, <1>t, Zenon DEF MarshalPacket, Program
  <2> QED BY <1>a, <2>2, <2>3
<1>2. rest \in Seq(NumberBytes)
  BY <1>0, <1>1, <1>t, ProgramIsList
<1>3. Fields(front, t, widths, 23)
  <2>1. Row(NumberBytes, front, t, widths, 23)
    BY <1>0, <1>a, <1>t, SearchRowWritten, NumbersAreBytes DEF IsAddress
  <2>2. widths \in Seq(Nat \ {0}) /\ Len(widths) >= 1 /\ widths[1] = 1
    BY <1>t, WidthsPositive
  <2> QED BY <2>1, <2>2 DEF Fields
<1>4. t \in Seq(Nat) /\ t[1] = DSL_REQUEST
  BY <1>0, <1>3, <1>t DEF Fields, Row, IsEntry, IsRow, SearchRow
<1>b. TailRead(buf, rest, t, widths, 23)
  <2>1. IsBoth(NumberBytes, buf, front, rest)
    BY <1>1, <1>2, <1>3 DEF IsBoth, Fields, Row, IsEntry
  <2> QED BY <1>3, <2>1, TailWritten
<1>l. PICK l, m : l = Len(buf) /\ m = Len(rest)
  OBVIOUS
<1>5. Tailed(buf, rest, t, widths, 23) /\ l = 23 + m /\ l \in Nat /\ m \in Nat /\ buf \in Seq(NumberBytes)
  BY <1>2, <1>b, <1>l, LenProperties DEF TailRead, Tailed
<1>6. /\ Received(p, from) = IF size > MaxProgramSize THEN Null ELSE [p EXCEPT !.param = AsRead[@]]
      /\ CutShort(p) = {Null} \cup ({[p EXCEPT !.param = Empty]} \cap {[p EXCEPT !.param = AsRead[@]]})
  BY <1>0, <1>a, ProgramClasses
\* What is made of a program that has been read.
<1>q. ASSUME NEW w, Tailed(w, rest, t, widths, 23)
      PROVE  \E call : /\ ProgramRead(call, size, text, func, v, 23 + Len(rest) <= Len(w))
                       /\ call = Null => Parses(from, w) = Null
                       /\ call # Null => Parses(from, w) = Request(id, rendv, ms, ttl, call)
  <2>c. PICK call : call = UnmarshalPacket(w, 23)
    OBVIOUS
  <2>1. ProgramRead(UnmarshalPacket(w, 23), size, text, func, v, 23 + Len(rest) <= Len(w))
    BY <1>0, <1>1, <1>q, <1>t, ProgramFollows
  <2>2. /\ call = Null => Parses(from, w) = Null
        /\ call # Null => Parses(from, w) = Request(id, rendv, ms, ttl, call)
    BY <1>0, <1>4, <1>q, <1>t, <2>c, RequestParsed, SMTT(40)
  <2> QED BY <2>1, <2>2, <2>c
<1>n. PICK made : made = [type |-> DSL_REQUEST, id |-> id, rendv |-> rendv, msRemain |-> ms, ttl |-> ttl,
                          text |-> [size |-> size, packed |-> text], func |-> func, param |-> a]
  OBVIOUS
<1>7. [p EXCEPT !.param = AsRead[@]] = made
  BY <1>0, <1>a, <1>n
<1>8. ASSUME NEW call, NEW whole, ProgramRead(call, size, text, func, v, whole), call # Null
      PROVE  Request(id, rendv, ms, ttl, call) = made /\ ~(size > MaxProgramSize) /\ (~whole => a = Empty)
  <2>1. /\ ~(size > MaxProgramSize) /\ (~whole => AsRead[v] = Empty)
        /\ call = [text |-> [size |-> size, packed |-> text], func |-> func, param |-> AsRead[v]]
    BY <1>8 DEF ProgramRead
  <2> QED BY <1>a, <1>n, <2>1 DEF Request
<1>9. Parses(from, buf) = Received(p, from)
  <2>1. PICK call : /\ ProgramRead(call, size, text, func, v, 23 + Len(rest) <= Len(buf))
                    /\ call = Null => Parses(from, buf) = Null
                    /\ call # Null => Parses(from, buf) = Request(id, rendv, ms, ttl, call)
    BY <1>5, <1>q
  <2>2. 23 + Len(rest) <= Len(buf)
    BY <1>5, <1>l
  <2>3. CASE call = Null
    <3>p. PICK packed : packed = [size |-> size, packed |-> text]
      OBVIOUS
    <3>1. call # [text |-> packed, func |-> func, param |-> AsRead[v]]
      BY <2>3 DEF NullIsApart, NullIsNoCall
    <3>2. size > MaxProgramSize
      BY <2>1, <2>2, <3>1, <3>p DEF ProgramRead
    <3> QED BY <1>6, <2>1, <2>3, <3>2
  <2>4. CASE call # Null
    <3>1. Request(id, rendv, ms, ttl, call) = made /\ ~(size > MaxProgramSize)
      BY <1>8, <2>1, <2>4
    <3> QED BY <1>6, <1>7, <2>1, <2>4, <3>1
  <2> QED BY <2>3, <2>4
<1>10. ASSUME NEW k \in 0 .. Len(buf) - 1 PROVE Parses(from, SubSeq(buf, 1, k)) \in CutShort(p)
  <2>c. PICK cut : cut = SubSeq(buf, 1, k)
    OBVIOUS
  <2>k. k \in Nat /\ k < l
    BY <1>5, <1>l
  <2>1. CASE k < 23
    <3>1. Retrieve(cut, 0, 1) \in {Null, DSL_REQUEST} /\ RetrieveAll(cut, 0, widths)[Len(widths)] = Null
      BY <1>4, <1>b, <2>1, <2>c DEF TailRead
    <3>2. Retrieve(cut, 0, 1) = Null => Parses(from, cut) = Null
      BY ParsesIs
    <3>3. Retrieve(cut, 0, 1) = DSL_REQUEST => Parses(from, cut) = ParseDSLRequest(DSL_REQUEST, cut)
      BY ProgramClasses
    <3>4. ~Opens(RetrieveAll(cut, 0, HeaderWidths \o IdentWidths \o <<2, 2>>), DSL_REQUEST)
      <4>1. ~Opens(RetrieveAll(cut, 0, widths), DSL_REQUEST)
        <5> PICK n : n = Len(widths)
          OBVIOUS
        <5>1. n \in Nat \ {0}
          BY <1>t
        <5> QED BY <3>1, <5>1, MissingField
      <4> QED BY <1>t, <4>1, WidthsWritten, Zenon
    <3>5. ParseDSLRequest(DSL_REQUEST, cut) = Null
      BY <3>4, Zenon DEF ParseDSLRequest
    <3> QED BY <1>6, <2>c, <3>1, <3>2, <3>3, <3>5
  <2>2. CASE 23 <= k
    <3>1. Tailed(cut, rest, t, widths, 23) /\ Len(cut) = k
      BY <1>b, <2>2, <2>c DEF TailRead
    <3>2. PICK call : /\ ProgramRead(call, size, text, func, v, 23 + Len(rest) <= Len(cut))
                      /\ call = Null => Parses(from, cut) = Null
                      /\ call # Null => Parses(from, cut) = Request(id, rendv, ms, ttl, call)
      BY <1>q, <3>1
    <3>3. ~(23 + Len(rest) <= Len(cut))
      BY <1>5, <1>l, <2>k, <3>1
    <3>4. CASE call = Null
      BY <1>6, <2>c, <3>2, <3>4
    <3>5. CASE call # Null
      <4>w. PICK whole : whole = (23 + Len(rest) <= Len(cut))
        OBVIOUS
      <4>0. ProgramRead(call, size, text, func, v, whole) /\ ~whole
        BY <3>2, <3>3, <4>w
      <4>1. Request(id, rendv, ms, ttl, call) = made /\ a = Empty
        BY <1>8, <3>5, <4>0
      <4>2. [p EXCEPT !.param = Empty] = made
        BY <1>0, <1>n, <4>1
      <4> QED BY <1>6, <1>7, <2>c, <3>2, <3>5, <4>1, <4>2
    <3> QED BY <3>4, <3>5
  <2> QED BY <2>1, <2>2, <2>k
<1> QED BY <1>5, <1>9, <1>10

\* Packets of every class are read as they were written.
LEMMA SampleReads ==
  ASSUME NullIsApart, ValuesAreFinite, NEW p \in Samples, NEW from
  PROVE  IsReadBack(NumberBytes, p, from)
<1> PICK Bytes : Bytes = NumberBytes
  OBVIOUS
<1>0. AreBytes(Bytes)
  BY NumbersAreBytes
<1>1. CASE p \in [type : MeasureTypes, id : Nat, rendv : Nat \X Nat, targets : Seq(Nat \X Nat)]
  BY <1>0, <1>1, MeasureReads
<1>2. CASE p \in [type : ConstraintTypes, id : Nat, rendv : Nat \X Nat, betaNum : Nat, betaDen : Nat,
                  targets : Seq(Nat \X Nat \X Nat)]
  BY <1>0, <1>2, ConstraintReads
<1>3. CASE p \in [type : ClosestTypes, id : Nat, rendv : Nat \X Nat, betaNum : Nat, betaDen : Nat,
                  targets : Seq(Nat \X Nat)]
  BY <1>0, <1>3, ClosestReads
<1>4. CASE p \in [type : PlainTypes, id : Nat]
  BY <1>0, <1>4, PlainReads
<1>5. CASE p \in [type : {RET_INFO}, id : Nat, node : Nat \X Nat]
  BY <1>0, <1>5, RetInfoReads
<1>6. CASE p \in [type : {RET_RESPONSE}, id : Nat, node : Nat \X Nat, targets : Seq(Nat \X Nat \X Nat)]
  BY <1>0, <1>6, RetResponseReads
<1>7. CASE p \in [type : {RET_PING_REQ}, id : Nat, targets : Seq(Nat \X Nat \X Nat)]
  BY <1>0, <1>7, RetPingReads
<1>8. CASE p \in [type : GossipTypes, id : Nat, rendv : Nat \X Nat,
                  targets : Seq(Nat \X Nat \X Nat \X Nat)]
  BY <1>0, <1>8, GossipReads
<1>9. CASE p \in [type : {INFO_PACKET}, id : Nat, targets : Seq(Nat \X Nat \X Nat \X Nat)]
  BY <1>0, <1>9, InfoReads
<1>10. CASE p \in Requests /\ IsString(p.text.packed) /\ IsString(p.func)
  BY <1>10, RequestReads
<1>11. CASE p \in [type : {DSL_REPLY}, id : Nat, value : Values]
  BY <1>11, ReplyReads
<1> QED BY <1>1, <1>2, <1>3, <1>4, <1>5, <1>6, <1>7, <1>8, <1>9, <1>10, <1>11, SamplesAssumption DEF Requests

\* All that a packet is checked for, of every sample and every sender.
LEMMA AllReadAsWritten ==
  ASSUME NullIsApart, ValuesAreFinite
  PROVE  ReadAsWritten
<1> SUFFICES ASSUME NEW p \in Samples, NEW from \in Nodes, NEW buf, buf = Creates(p), buf # Null
             PROVE  /\ Parses(from, buf) = Received(p, from)
                    /\ \A k \in 0 .. Len(buf) - 1 : Parses(from, SubSeq(buf, 1, k)) \in CutShort(p)
  BY DEF ReadAsWritten
<1>1. IsReadBack(NumberBytes, p, from)
  BY SampleReads
<1> QED BY <1>1 DEF IsReadBack
=============================================================================
