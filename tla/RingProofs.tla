------------------------------ MODULE RingProofs ------------------------------
(***************************************************************************)
(* Proofs about RingSet and RingManage, for any number of nodes, rings and *)
(* latencies and for any ring sizes: every call leaves the rings what the  *)
(* code asserts of them, and so does a ring management query, which works  *)
(* for seconds with the members it dumped at its start while other calls   *)
(* go on: the ring stays frozen, the dump stays its membership, and what   *)
(* the query makes of it, through partial reports, dropped candidates and  *)
(* evictions, is a well-formed ring of the members that reported.          *)
(***************************************************************************)
EXTENDS RingManage, FiniteSetTheorems, FunctionTheorems, WellFoundedInduction, TLAPS

Injective(s) == \A i, j \in 1 .. Len(s) : s[i] = s[j] => i = j

----------------------------------------------------------------------------
(* Induction on numbers *)

\* A set of naturals has a smallest element.
LEMMA SmallestExists ==
  ASSUME NEW T, T \subseteq Nat, T # {}
  PROVE  \E x \in T : \A y \in T : x <= y
<1> DEFINE R == OpToRel(<, Nat)
<1>1. IsWellFoundedOn(R, Nat)
  BY NatLessThanWellFounded
<1> HIDE DEF R
<1>2. PICK x \in T : \A y \in T : ~ (<<y, x>> \in R)
  BY <1>1, WFMin
<1>3. ASSUME NEW y \in T PROVE x <= y
  <2>1. x \in Nat /\ y \in Nat
    BY <1>2
  <2>2. <<y, x>> \in R <=> y < x
    BY <2>1 DEF OpToRel, R
  <2> QED BY <1>2, <2>1, <2>2
<1> QED BY <1>3

\* Induction up to n, for a property given as a set.
LEMMA UpTo ==
  ASSUME NEW n \in Nat, NEW S, 0 \in S, \A k \in 1 .. n : k - 1 \in S => k \in S
  PROVE  \A k \in 0 .. n : k \in S
<1> SUFFICES ASSUME NEW T, T = {k \in 0 .. n : k \notin S}, T # {} PROVE FALSE
  OBVIOUS
<1>1. T \subseteq Nat
  OBVIOUS
<1>2. PICK x \in T : \A y \in T : x <= y
  BY <1>1, SmallestExists
<1>3. x \in 1 .. n
  BY <1>2
<1>4. x - 1 \in 0 .. n /\ x - 1 \notin T
  BY <1>2, <1>3
<1> QED BY <1>2, <1>3, <1>4

----------------------------------------------------------------------------
(* Lemmas on the vectors *)

\* The vector idiom of eraseNode removes the element it found and no other.
LEMMA SwapPopFacts ==
  ASSUME NEW s \in Seq(Nodes), NEW i \in 1 .. Len(s), Injective(s)
  PROVE  /\ SwapPop(s, i) \in Seq(Nodes)
         /\ Len(SwapPop(s, i)) = Len(s) - 1
         /\ Injective(SwapPop(s, i))
         /\ Elems(SwapPop(s, i)) = Elems(s) \ {s[i]}
<1> DEFINE t == SwapPop(s, i)
<1>1. Len(s) \in Nat /\ Len(s) >= 1
  OBVIOUS
<1>2. t \in Seq(Nodes) /\ Len(t) = Len(s) - 1
  BY <1>1 DEF SwapPop
<1>3. \A k \in 1 .. Len(s) - 1 : t[k] = IF k = i THEN s[Len(s)] ELSE s[k]
  BY DEF SwapPop
<1>4. Injective(t)
  BY <1>1, <1>2, <1>3 DEF Injective
<1>5. Elems(t) \subseteq Elems(s) \ {s[i]}
  BY <1>1, <1>2, <1>3 DEF Elems, Injective
<1>6. ASSUME NEW k \in 1 .. Len(s), s[k] # s[i]
      PROVE  s[k] \in Elems(t)
  <2>1. CASE k < Len(s)
    <3>1. k \in 1 .. Len(t) /\ t[k] = s[k]
      BY <1>2, <1>3, <1>6, <2>1
    <3> QED BY <3>1 DEF Elems
  <2>2. CASE k = Len(s)
    <3>1. i \in 1 .. Len(t) /\ t[i] = s[k]
      BY <1>1, <1>2, <1>3, <1>6, <2>2
    <3> QED BY <3>1 DEF Elems
  <2> QED BY <1>1, <2>1, <2>2
<1>7. Elems(s) \ {s[i]} \subseteq Elems(t)
  BY <1>6 DEF Elems
<1> QED BY <1>2, <1>4, <1>5, <1>7

\* deque::erase removes the element at its position and no other.
LEMMA RemoveAtFacts ==
  ASSUME NEW s \in Seq(Nodes), NEW i \in 1 .. Len(s), Injective(s)
  PROVE  /\ RemoveAtIndex(s, i) \in Seq(Nodes)
         /\ Len(RemoveAtIndex(s, i)) = Len(s) - 1
         /\ Injective(RemoveAtIndex(s, i))
         /\ Elems(RemoveAtIndex(s, i)) = Elems(s) \ {s[i]}
<1> DEFINE t == RemoveAtIndex(s, i)
<1>1. Len(s) \in Nat /\ Len(s) >= 1
  OBVIOUS
<1>2. t \in Seq(Nodes) /\ Len(t) = Len(s) - 1
  BY <1>1 DEF RemoveAtIndex
<1>3. \A k \in 1 .. Len(s) - 1 : t[k] = IF k < i THEN s[k] ELSE s[k + 1]
  BY DEF RemoveAtIndex
<1>4. Injective(t)
  BY <1>1, <1>2, <1>3 DEF Injective
<1>5. Elems(t) \subseteq Elems(s) \ {s[i]}
  BY <1>1, <1>2, <1>3 DEF Elems, Injective
<1>6. ASSUME NEW k \in 1 .. Len(s), s[k] # s[i]
      PROVE  s[k] \in Elems(t)
  <2>1. CASE k < i
    <3>1. k \in 1 .. Len(t) /\ t[k] = s[k]
      BY <1>1, <1>2, <1>3, <2>1
    <3> QED BY <3>1 DEF Elems
  <2>2. CASE k > i
    <3>1. k - 1 \in 1 .. Len(t) /\ t[k - 1] = s[k]
      BY <1>1, <1>2, <1>3, <2>2
    <3> QED BY <3>1 DEF Elems
  <2> QED BY <1>6, <2>1, <2>2
<1>7. Elems(s) \ {s[i]} \subseteq Elems(t)
  BY <1>6 DEF Elems
<1> QED BY <1>2, <1>4, <1>5, <1>7

\* push_back adds its argument at the end.
LEMMA AppendFacts ==
  ASSUME NEW s \in Seq(Nodes), NEW n \in Nodes
  PROVE  /\ Append(s, n) \in Seq(Nodes)
         /\ Len(Append(s, n)) = Len(s) + 1
         /\ Elems(Append(s, n)) = Elems(s) \cup {n}
         /\ Injective(s) /\ n \notin Elems(s) => Injective(Append(s, n))
<1> DEFINE t == Append(s, n)
<1>1. Len(s) \in Nat /\ t \in Seq(Nodes) /\ Len(t) = Len(s) + 1
  OBVIOUS
<1>2. \A k \in 1 .. Len(s) : t[k] = s[k]
  OBVIOUS
<1>3. t[Len(s) + 1] = n
  OBVIOUS
<1>4. Elems(t) \subseteq Elems(s) \cup {n}
  BY <1>1, <1>2, <1>3 DEF Elems
<1>5. Elems(s) \subseteq Elems(t)
  BY <1>1, <1>2 DEF Elems
<1>6. n \in Elems(t)
  BY <1>1, <1>3 DEF Elems
<1>7. ASSUME Injective(s), n \notin Elems(s)
      PROVE  Injective(t)
  <2>1. \A k \in 1 .. Len(s) : s[k] # n
    BY <1>7 DEF Elems
  <2> QED BY <1>1, <1>2, <1>3, <1>7, <2>1 DEF Injective
<1> QED BY <1>1, <1>4, <1>5, <1>6, <1>7

\* pop_front removes the first element and no other.
LEMMA TailFacts ==
  ASSUME NEW s \in Seq(Nodes), s # <<>>, Injective(s)
  PROVE  /\ Head(s) \in Nodes /\ Head(s) \in Elems(s)
         /\ Tail(s) \in Seq(Nodes)
         /\ Len(Tail(s)) = Len(s) - 1
         /\ Injective(Tail(s))
         /\ Elems(Tail(s)) = Elems(s) \ {Head(s)}
<1> DEFINE t == Tail(s)
<1>1. Len(s) \in Nat /\ Len(s) >= 1 /\ t \in Seq(Nodes) /\ Len(t) = Len(s) - 1
  OBVIOUS
<1>2. \A k \in 1 .. Len(t) : t[k] = s[k + 1]
  OBVIOUS
<1>3. Head(s) = s[1] /\ Head(s) \in Nodes /\ Head(s) \in Elems(s)
  BY <1>1 DEF Elems
<1>4. Injective(t)
  BY <1>1, <1>2 DEF Injective
<1>5. Elems(t) \subseteq Elems(s) \ {Head(s)}
  BY <1>1, <1>2, <1>3 DEF Elems, Injective
<1>6. ASSUME NEW k \in 1 .. Len(s), s[k] # Head(s)
      PROVE  s[k] \in Elems(t)
  <2>1. k - 1 \in 1 .. Len(t) /\ t[k - 1] = s[k]
    BY <1>1, <1>2, <1>3, <1>6
  <2> QED BY <2>1 DEF Elems
<1>7. Elems(s) \ {Head(s)} \subseteq Elems(t)
  BY <1>6 DEF Elems
<1> QED BY <1>1, <1>3, <1>4, <1>5, <1>7

----------------------------------------------------------------------------
(* Lemmas on one ring *)

\* A ring as insertNode, eraseNode and the replacement keep it.
WellFormed(rg) ==
  /\ rg \in RingState
  /\ Distinct(rg)
  /\ Len(rg.prim) <= PrimarySize
  /\ Len(rg.sec) <= SecondarySize
  /\ rg.sec # <<>> => Len(rg.prim) = PrimarySize

\* Distinct is injectivity of both vectors and their disjointness.
LEMMA DistinctVectors ==
  ASSUME NEW p \in Seq(Nodes), NEW s \in Seq(Nodes)
  PROVE  Distinct([prim |-> p, sec |-> s]) <=>
           Injective(p) /\ Injective(s) /\ Elems(p) \cap Elems(s) = {}
<1>1. (\A i \in 1 .. Len(p), j \in 1 .. Len(s) : p[i] # s[j])
        <=> Elems(p) \cap Elems(s) = {}
  BY DEF Elems
<1> QED BY <1>1 DEF Distinct, Injective

\* IndexOf finds a position of an element that occurs.
LEMMA IndexOfFacts ==
  ASSUME NEW s, NEW n \in Elems(s)
  PROVE  IndexOf(s, n) \in 1 .. Len(s) /\ s[IndexOf(s, n)] = n
BY DEF Elems, IndexOf

\* eraseNode(node, ring) on a member: the node leaves, every other member
\* stays, and the primary ring is refilled from the secondary one.
LEMMA EraseFacts ==
  ASSUME NEW rg, WellFormed(rg), NEW n \in Members(rg)
  PROVE  /\ WellFormed(EraseFromRing(rg, n))
         /\ Members(EraseFromRing(rg, n)) = Members(rg) \ {n}
<1> DEFINE p == rg.prim
           s == rg.sec
           e == EraseFromRing(rg, n)
<1>1. p \in Seq(Nodes) /\ s \in Seq(Nodes) /\ rg = [prim |-> p, sec |-> s]
  BY DEF WellFormed, RingState
<1>2. Injective(p) /\ Injective(s) /\ Elems(p) \cap Elems(s) = {}
  BY <1>1, DistinctVectors DEF WellFormed
<1>3. Len(p) \in Nat /\ Len(s) \in Nat
  BY <1>1
<1>4. PrimarySize \in Nat /\ SecondarySize \in Nat
  BY RingSetAssumption
<1>5. Members(rg) = Elems(p) \cup Elems(s)
  BY DEF Members
<1>6. ASSUME NEW q \in Seq(Nodes), NEW t \in Seq(Nodes),
             e = [prim |-> q, sec |-> t],
             Injective(q), Injective(t), Elems(q) \cap Elems(t) = {},
             Len(q) <= PrimarySize, Len(t) <= SecondarySize,
             t # <<>> => Len(q) = PrimarySize,
             Elems(q) \cup Elems(t) = (Elems(p) \cup Elems(s)) \ {n}
      PROVE  WellFormed(e) /\ Members(e) = Members(rg) \ {n}
  <2>1. Distinct(e)
    BY <1>6, DistinctVectors
  <2>2. e \in RingState /\ e.prim = q /\ e.sec = t
    BY <1>6 DEF RingState
  <2> QED BY <1>5, <1>6, <2>1, <2>2 DEF WellFormed, Members
<1>7. CASE n \in Elems(p)
  <2> DEFINE i == IndexOf(p, n)
             q == SwapPop(p, i)
  <2>1. i \in 1 .. Len(p) /\ p[i] = n
    BY <1>7, IndexOfFacts
  <2>2. /\ q \in Seq(Nodes) /\ Len(q) = Len(p) - 1
        /\ Injective(q) /\ Elems(q) = Elems(p) \ {n}
    BY <1>1, <1>2, <2>1, SwapPopFacts
  <2>3. CASE s = <<>>
    <3>1. e = [prim |-> q, sec |-> <<>>]
      BY <1>7, <2>3 DEF EraseFromRing
    <3>2. Elems(<<>>) = {} /\ Injective(<<>>)
      BY DEF Elems, Injective
    <3>3. Elems(s) = {}
      BY <2>3, <3>2
    <3>4. <<>> \in Seq(Nodes) /\ Len(<<>>) = 0
      OBVIOUS
    <3>5. Len(q) <= PrimarySize /\ Len(<<>>) <= SecondarySize
      BY <1>3, <1>4, <2>2, <3>4 DEF WellFormed
    <3>6. Elems(q) \cup Elems(<<>>) = (Elems(p) \cup Elems(s)) \ {n}
      BY <1>2, <1>7, <2>2, <3>2, <3>3
    <3> HIDE DEF q
    <3> QED BY <1>6, <2>2, <3>1, <3>2, <3>4, <3>5, <3>6
  <2>4. CASE s # <<>>
    <3> DEFINE t == Tail(s)
               r == Append(q, Head(s))
    <3>1. e = [prim |-> r, sec |-> t]
      BY <1>7, <2>4 DEF EraseFromRing
    <3>2. /\ Head(s) \in Nodes /\ Head(s) \in Elems(s)
          /\ t \in Seq(Nodes) /\ Len(t) = Len(s) - 1
          /\ Injective(t) /\ Elems(t) = Elems(s) \ {Head(s)}
      BY <1>1, <1>2, <2>4, TailFacts
    <3>3. Head(s) \notin Elems(q) /\ Head(s) # n
      BY <1>2, <1>7, <2>2, <3>2
    <3>4. /\ r \in Seq(Nodes) /\ Len(r) = Len(p)
          /\ Elems(r) = Elems(q) \cup {Head(s)} /\ Injective(r)
      BY <1>3, <2>2, <3>2, <3>3, AppendFacts
    <3>5. Elems(r) \cap Elems(t) = {}
      BY <1>2, <2>2, <3>2, <3>4
    <3>6. Elems(r) \cup Elems(t) = (Elems(p) \cup Elems(s)) \ {n}
      BY <1>2, <1>7, <2>2, <3>2, <3>3, <3>4
    <3>7. Len(r) <= PrimarySize /\ Len(r) = PrimarySize
      BY <1>4, <2>4, <3>4 DEF WellFormed
    <3>8. Len(t) <= SecondarySize
      BY <1>3, <1>4, <3>2 DEF WellFormed
    <3> HIDE DEF q, t, r
    <3> QED BY <1>6, <3>1, <3>2, <3>4, <3>5, <3>6, <3>7, <3>8
  <2> QED BY <2>3, <2>4
<1>8. CASE n \notin Elems(p)
  <2> DEFINE i == IndexOf(s, n)
             t == RemoveAtIndex(s, i)
  <2>1. n \in Elems(s)
    BY <1>5, <1>8
  <2>2. i \in 1 .. Len(s) /\ s[i] = n
    BY <2>1, IndexOfFacts
  <2>3. /\ t \in Seq(Nodes) /\ Len(t) = Len(s) - 1
        /\ Injective(t) /\ Elems(t) = Elems(s) \ {n}
    BY <1>1, <1>2, <2>2, RemoveAtFacts
  <2>4. e = [prim |-> p, sec |-> t]
    BY <1>8, <2>1 DEF EraseFromRing
  <2>5. s # <<>>
    BY <1>1, <2>2
  <2>6. /\ Len(p) <= PrimarySize /\ Len(p) = PrimarySize
        /\ Len(t) <= SecondarySize
    BY <1>3, <1>4, <2>3, <2>5 DEF WellFormed
  <2> HIDE DEF t
  <2> QED BY <1>1, <1>2, <1>6, <1>8, <2>3, <2>4, <2>6
<1> QED BY <1>7, <1>8

\* insertNode's push of a node that is not in the ring: the node joins, the
\* evicted one leaves, every other member stays.
LEMMA PushFacts ==
  ASSUME NEW rg, WellFormed(rg), NEW n \in Nodes \ Members(rg)
  PROVE  /\ WellFormed(PushToRing(rg, n))
         /\ Members(PushToRing(rg, n)) = (Members(rg) \ Evicted(rg)) \cup {n}
         /\ Evicted(rg) \subseteq Members(rg)
<1> DEFINE p == rg.prim
           s == rg.sec
           e == PushToRing(rg, n)
<1>1. p \in Seq(Nodes) /\ s \in Seq(Nodes) /\ rg = [prim |-> p, sec |-> s]
  BY DEF WellFormed, RingState
<1>2. Injective(p) /\ Injective(s) /\ Elems(p) \cap Elems(s) = {}
  BY <1>1, DistinctVectors DEF WellFormed
<1>3. Len(p) \in Nat /\ Len(s) \in Nat /\ (Len(s) = 0 <=> s = <<>>)
  BY <1>1
<1>4. PrimarySize \in Nat /\ SecondarySize \in Nat /\ SecondarySize > 0
  BY RingSetAssumption
<1>5. Members(rg) = Elems(p) \cup Elems(s)
  BY DEF Members
<1>6. CASE Len(p) < PrimarySize
  <2> DEFINE q == Append(p, n)
  <2>1. e = [prim |-> q, sec |-> s]
    BY <1>6 DEF PushToRing
  <2>2. s = <<>> /\ Evicted(rg) = {}
    BY <1>3, <1>4, <1>6 DEF WellFormed, Evicted
  <2>3. /\ q \in Seq(Nodes) /\ Len(q) = Len(p) + 1
        /\ Elems(q) = Elems(p) \cup {n} /\ Injective(q)
    BY <1>1, <1>2, <1>5, AppendFacts
  <2>4. Elems(q) \cap Elems(s) = {}
    BY <1>2, <1>5, <2>3
  <2>5. Distinct(e)
    BY <1>1, <1>2, <2>1, <2>3, <2>4, DistinctVectors
  <2>6. Len(q) <= PrimarySize
    BY <1>3, <1>4, <1>6, <2>3
  <2> HIDE DEF q
  <2>7. e \in RingState /\ e.prim = q /\ e.sec = s
    BY <1>1, <2>1, <2>3 DEF RingState
  <2> QED BY <1>5, <2>2, <2>3, <2>5, <2>6, <2>7 DEF WellFormed, Members
<1>7. CASE ~(Len(p) < PrimarySize)
  <2> DEFINE kept == IF Len(s) >= SecondarySize
                     THEN EraseFromRing(rg, Head(s)) ELSE rg
             t == Append(kept.sec, n)
  <2>1. Len(p) = PrimarySize
    BY <1>3, <1>4, <1>7 DEF WellFormed
  <2>2. e = [prim |-> kept.prim, sec |-> t]
    BY <1>7 DEF PushToRing
  <2>3. /\ kept.prim = p /\ kept.sec \in Seq(Nodes)
        /\ Injective(kept.sec)
        /\ Elems(kept.sec) = Elems(s) \ Evicted(rg)
        /\ Len(kept.sec) < SecondarySize
        /\ Evicted(rg) \subseteq Elems(s)
    <3>1. CASE Len(s) >= SecondarySize
      <4>1. s # <<>>
        BY <1>3, <1>4, <3>1
      <4>2. Head(s) \in Elems(s) /\ Head(s) \notin Elems(p)
        BY <1>1, <1>2, <4>1, TailFacts
      <4>3. /\ IndexOf(s, Head(s)) \in 1 .. Len(s)
            /\ s[IndexOf(s, Head(s))] = Head(s)
        BY <4>2, IndexOfFacts
      <4>4. kept = [prim |-> p, sec |-> RemoveAtIndex(s, IndexOf(s, Head(s)))]
        BY <3>1, <4>2 DEF EraseFromRing
      <4>5. Evicted(rg) = {Head(s)}
        BY <1>3, <1>4, <2>1, <3>1 DEF Evicted
      <4>6. Len(s) = SecondarySize
        BY <1>3, <1>4, <3>1 DEF WellFormed
      <4> HIDE DEF kept
      <4>7. /\ kept.sec \in Seq(Nodes) /\ Len(kept.sec) = Len(s) - 1
            /\ Injective(kept.sec) /\ Elems(kept.sec) = Elems(s) \ {Head(s)}
        BY <1>1, <1>2, <4>3, <4>4, RemoveAtFacts
      <4> QED BY <1>3, <1>4, <4>2, <4>4, <4>5, <4>6, <4>7
    <3>2. CASE ~(Len(s) >= SecondarySize)
      <4>1. Evicted(rg) = {} /\ kept = rg
        BY <3>2 DEF Evicted
      <4> QED BY <1>1, <1>2, <1>3, <1>4, <3>2, <4>1
    <3> QED BY <3>1, <3>2
  <2> HIDE DEF kept
  <2>4. n \notin Elems(kept.sec)
    BY <1>5, <2>3
  <2>5. /\ t \in Seq(Nodes) /\ Len(t) = Len(kept.sec) + 1
        /\ Elems(t) = Elems(kept.sec) \cup {n} /\ Injective(t)
    BY <2>3, <2>4, AppendFacts
  <2>6. Elems(p) \cap Elems(t) = {}
    BY <1>2, <1>5, <2>3, <2>5
  <2>7. Len(t) <= SecondarySize
    BY <1>4, <2>3, <2>5
  <2> HIDE DEF t
  <2>8. Distinct(e)
    <3>1. e = [prim |-> p, sec |-> t]
      BY <2>2, <2>3
    <3>2. t \in Seq(Nodes) /\ Injective(t)
      BY <2>5
    <3> HIDE DEF e, p, s
    <3>3. Distinct([prim |-> p, sec |-> t])
      BY <1>1, <1>2, <2>6, <3>2, DistinctVectors
    <3> QED BY <3>1, <3>3
  <2>9. e \in RingState /\ e.prim = p /\ e.sec = t
    BY <1>1, <2>2, <2>3, <2>5 DEF RingState
  <2>10. Members(e) = (Members(rg) \ Evicted(rg)) \cup {n}
    BY <1>2, <1>5, <2>3, <2>5, <2>9 DEF Members
  <2>11. WellFormed(e)
    BY <1>4, <2>1, <2>7, <2>8, <2>9 DEF WellFormed
  <2> QED BY <1>5, <2>3, <2>10, <2>11
<1> QED BY <1>6, <1>7

\* setRingMembers keeps the members: a vector of distinct nodes counts them.
LEMMA DistinctCount ==
  ASSUME NEW s \in Seq(Nodes), Injective(s)
  PROVE  IsFiniteSet(Elems(s)) /\ Cardinality(Elems(s)) = Len(s)
<1>1. Len(s) \in Nat /\ 1 \in Int /\ Len(s) \in Int
  OBVIOUS
<1>2. IsFiniteSet(1 .. Len(s)) /\ Cardinality(1 .. Len(s)) = Len(s)
  BY <1>1, FS_Interval
<1>3. s \in Bijection(1 .. Len(s), Elems(s))
  <2>1. s \in [1 .. Len(s) -> Elems(s)]
    BY DEF Elems
  <2>2. s \in Injection(1 .. Len(s), Elems(s))
    BY <2>1 DEF Injection, IsInjective, Injective
  <2>3. s \in Surjection(1 .. Len(s), Elems(s))
    BY <2>1 DEF Surjection, Elems
  <2> QED BY <2>2, <2>3 DEF Bijection
<1>4. ExistsBijection(1 .. Len(s), Elems(s))
  BY <1>3 DEF ExistsBijection
<1> QED BY <1>2, <1>4, FS_Bijection

\* Dividing the members of a ring anew keeps them.
LEMMA SetMembersFacts ==
  ASSUME NEW rg, WellFormed(rg), NEW s \in Splits
  PROVE  /\ WellFormed(SetMembers(rg, s.prim, s.sec))
         /\ Members(SetMembers(rg, s.prim, s.sec)) = Members(rg)
<1>1. CASE ~AcceptsMembers(rg, s.prim, s.sec)
  BY <1>1 DEF SetMembers
<1>2. CASE AcceptsMembers(rg, s.prim, s.sec)
  <2> DEFINE p == s.prim
             q == s.sec
             e == [prim |-> p, sec |-> q]
  <2>1. PrimarySize \in Nat /\ SecondarySize \in Nat
    BY RingSetAssumption
  <2>2. p \in Seq(Nodes) /\ Len(p) = PrimarySize /\ q \in Seq(Nodes)
    BY <2>1 DEF Splits
  <2>3. SetMembers(rg, p, q) = e /\ Distinct(e)
    <3>1. s = [prim |-> s.prim, sec |-> s.sec]
      BY DEF Splits
    <3> QED BY <1>2, <3>1 DEF SetMembers, Splits
  <2>4. /\ Len(q) <= SecondarySize
        /\ Len(p) + Len(q) = Cardinality(Members(rg))
        /\ Elems(p) \cup Elems(q) \subseteq Members(rg)
    BY <1>2 DEF AcceptsMembers
  <2> HIDE DEF p, q
  <2>5. WellFormed(e)
    BY <2>1, <2>2, <2>3, <2>4 DEF WellFormed, RingState
  <2>6. Injective(p) /\ Injective(q) /\ Elems(p) \cap Elems(q) = {}
    BY <2>2, <2>3, DistinctVectors
  <2>7. /\ IsFiniteSet(Elems(p)) /\ Cardinality(Elems(p)) = Len(p)
        /\ IsFiniteSet(Elems(q)) /\ Cardinality(Elems(q)) = Len(q)
    BY <2>2, <2>6, DistinctCount
  <2>8. Cardinality(Elems(p) \cup Elems(q)) = Len(p) + Len(q)
    <3>1. Cardinality(Elems(p) \cap Elems(q)) = 0
      BY <2>6, FS_EmptySet
    <3>2. Cardinality(Elems(p) \cup Elems(q)) =
            Cardinality(Elems(p)) + Cardinality(Elems(q))
              - Cardinality(Elems(p) \cap Elems(q))
      BY <2>7, FS_Union
    <3> QED BY <2>2, <2>7, <3>1, <3>2
  <2>9. IsFiniteSet(Members(rg))
    <3>1. /\ rg.prim \in Seq(Nodes) /\ rg.sec \in Seq(Nodes)
          /\ rg = [prim |-> rg.prim, sec |-> rg.sec]
      BY DEF WellFormed, RingState
    <3>2. Injective(rg.prim) /\ Injective(rg.sec)
      BY <3>1, DistinctVectors DEF WellFormed
    <3> QED BY <3>1, <3>2, DistinctCount, FS_Union DEF Members
  <2>10. Elems(p) \cup Elems(q) = Members(rg)
    BY <2>4, <2>8, <2>9, FS_Subset
  <2>11. Members(e) = Members(rg)
    BY <2>10 DEF Members
  <2> QED BY <2>3, <2>5, <2>11 DEF p, q
<1> QED BY <1>1, <1>2

\* The swap of eligibleForReplacement exchanges positions, never members.
LEMMA SwapFacts ==
  ASSUME NEW rg, WellFormed(rg),
         NEW f \in [ClosedIn(rg.prim) -> OpenIn(rg.sec)], Pairing(rg, f)
  PROVE  /\ WellFormed(SwappedRing(rg, f))
         /\ Members(SwappedRing(rg, f)) = Members(rg)
<1> DEFINE p == rg.prim
           s == rg.sec
           A == ClosedIn(p)
           B == OpenIn(s)
           g(j) == CHOOSE i \in A : f[i] = j
           q == [i \in 1 .. Len(p) |-> IF i \in A THEN s[f[i]] ELSE p[i]]
           t == [j \in 1 .. Len(s) |-> IF j \in B THEN p[g(j)] ELSE s[j]]
           e == [prim |-> q, sec |-> t]
<1>1. p \in Seq(Nodes) /\ s \in Seq(Nodes) /\ rg = [prim |-> p, sec |-> s]
  BY DEF WellFormed, RingState
<1>2. Injective(p) /\ Injective(s) /\ Elems(p) \cap Elems(s) = {}
  BY <1>1, DistinctVectors DEF WellFormed
<1>3. Len(p) \in Nat /\ Len(s) \in Nat
  BY <1>1
<1>4. A \subseteq 1 .. Len(p) /\ B \subseteq 1 .. Len(s)
  BY DEF ClosedIn, OpenIn
<1>5. \A i \in A : f[i] \in B
  OBVIOUS
<1>6. \A i, k \in A : f[i] = f[k] => i = k
  BY <1>3, <1>4, <1>5 DEF Pairing
<1>7. \A j \in B : g(j) \in A /\ f[g(j)] = j
  BY DEF Pairing
<1>8. SwappedRing(rg, f) = e
  BY DEF SwappedRing
<1> HIDE DEF A, B, g
<1>9. q \in Seq(Nodes) /\ Len(q) = Len(p)
  BY <1>1, <1>3, <1>4, <1>5
<1>10. t \in Seq(Nodes) /\ Len(t) = Len(s)
  BY <1>1, <1>3, <1>4, <1>7
<1>11. \A i \in 1 .. Len(p) : q[i] = IF i \in A THEN s[f[i]] ELSE p[i]
  OBVIOUS
<1>12. \A j \in 1 .. Len(s) : t[j] = IF j \in B THEN p[g(j)] ELSE s[j]
  OBVIOUS
<1> HIDE DEF q, t
<1>13. \A i \in 1 .. Len(p), j \in 1 .. Len(s) : p[i] # s[j]
  BY <1>2 DEF Elems
<1>14. Injective(q)
  <2> SUFFICES ASSUME NEW i \in 1 .. Len(p), NEW k \in 1 .. Len(p), q[i] = q[k]
               PROVE  i = k
    BY <1>9 DEF Injective
  <2>1. CASE i \in A /\ k \in A
    <3>1. f[i] \in 1 .. Len(s) /\ f[k] \in 1 .. Len(s) /\ s[f[i]] = s[f[k]]
      BY <1>4, <1>5, <1>11, <2>1
    <3>2. f[i] = f[k]
      BY <1>2, <3>1 DEF Injective
    <3> QED BY <1>6, <2>1, <3>2
  <2>2. CASE i \in A /\ k \notin A
    BY <1>4, <1>5, <1>11, <1>13, <2>2
  <2>3. CASE i \notin A /\ k \in A
    BY <1>4, <1>5, <1>11, <1>13, <2>3
  <2>4. CASE i \notin A /\ k \notin A
    BY <1>2, <1>11, <2>4 DEF Injective
  <2> QED BY <2>1, <2>2, <2>3, <2>4
<1>15. Injective(t)
  <2> SUFFICES ASSUME NEW j \in 1 .. Len(s), NEW k \in 1 .. Len(s), t[j] = t[k]
               PROVE  j = k
    BY <1>10 DEF Injective
  <2>1. CASE j \in B /\ k \in B
    <3>1. g(j) \in 1 .. Len(p) /\ g(k) \in 1 .. Len(p) /\ p[g(j)] = p[g(k)]
      BY <1>4, <1>7, <1>12, <2>1
    <3>2. g(j) = g(k)
      BY <1>2, <3>1 DEF Injective
    <3> QED BY <1>7, <2>1, <3>2
  <2>2. CASE j \in B /\ k \notin B
    BY <1>4, <1>7, <1>12, <1>13, <2>2
  <2>3. CASE j \notin B /\ k \in B
    BY <1>4, <1>7, <1>12, <1>13, <2>3
  <2>4. CASE j \notin B /\ k \notin B
    BY <1>2, <1>12, <2>4 DEF Injective
  <2> QED BY <2>1, <2>2, <2>3, <2>4
<1>16. \A i \in 1 .. Len(p), j \in 1 .. Len(s) : q[i] # t[j]
  <2> SUFFICES ASSUME NEW i \in 1 .. Len(p), NEW j \in 1 .. Len(s), q[i] = t[j]
               PROVE  FALSE
    OBVIOUS
  <2>1. CASE i \in A /\ j \in B
    <3>1. f[i] \in 1 .. Len(s) /\ q[i] = s[f[i]]
      BY <1>4, <1>5, <1>11, <2>1
    <3>2. g(j) \in 1 .. Len(p) /\ t[j] = p[g(j)]
      BY <1>4, <1>7, <1>12, <2>1
    <3> QED BY <1>13, <3>1, <3>2
  <2>2. CASE i \in A /\ j \notin B
    <3>1. f[i] \in 1 .. Len(s) /\ s[f[i]] = s[j]
      BY <1>4, <1>5, <1>11, <1>12, <2>2
    <3>2. f[i] = j
      BY <1>2, <3>1 DEF Injective
    <3> QED BY <1>5, <2>2, <3>2
  <2>3. CASE i \notin A /\ j \in B
    <3>1. g(j) \in 1 .. Len(p) /\ p[i] = p[g(j)]
      BY <1>4, <1>7, <1>11, <1>12, <2>3
    <3>2. i = g(j)
      BY <1>2, <3>1 DEF Injective
    <3> QED BY <1>7, <2>3, <3>2
  <2>4. CASE i \notin A /\ j \notin B
    BY <1>11, <1>12, <1>13, <2>4
  <2> QED BY <2>1, <2>2, <2>3, <2>4
<1>17. Elems(q) \cap Elems(t) = {}
  BY <1>9, <1>10, <1>16 DEF Elems
<1>18. Distinct(e)
  BY <1>9, <1>10, <1>14, <1>15, <1>17, DistinctVectors
<1>19. t # <<>> => s # <<>>
  BY <1>1, <1>10
<1>20. WellFormed(e)
  BY <1>9, <1>10, <1>18, <1>19 DEF WellFormed, RingState
<1>21. Elems(q) \cup Elems(t) \subseteq Elems(p) \cup Elems(s)
  <2>1. \A i \in 1 .. Len(p) : q[i] \in Elems(p) \cup Elems(s)
    BY <1>4, <1>5, <1>11 DEF Elems
  <2>2. \A j \in 1 .. Len(s) : t[j] \in Elems(p) \cup Elems(s)
    BY <1>4, <1>7, <1>12 DEF Elems
  <2> QED BY <1>9, <1>10, <2>1, <2>2 DEF Elems
<1>22. Elems(p) \subseteq Elems(q) \cup Elems(t)
  <2> SUFFICES ASSUME NEW i \in 1 .. Len(p)
               PROVE  p[i] \in Elems(q) \cup Elems(t)
    BY DEF Elems
  <2>1. CASE i \in A
    <3>1. f[i] \in 1 .. Len(t) /\ f[i] \in B /\ g(f[i]) = i
      BY <1>4, <1>5, <1>6, <1>7, <1>10, <2>1
    <3>2. t[f[i]] = p[i]
      BY <1>10, <1>12, <3>1
    <3> QED BY <3>1, <3>2 DEF Elems
  <2>2. CASE i \notin A
    BY <1>9, <1>11, <2>2 DEF Elems
  <2> QED BY <2>1, <2>2
<1>23. Elems(s) \subseteq Elems(q) \cup Elems(t)
  <2> SUFFICES ASSUME NEW j \in 1 .. Len(s)
               PROVE  s[j] \in Elems(q) \cup Elems(t)
    BY DEF Elems
  <2>1. CASE j \in B
    <3>1. g(j) \in A /\ g(j) \in 1 .. Len(q) /\ f[g(j)] = j
      BY <1>4, <1>7, <1>9, <2>1
    <3>2. q[g(j)] = s[j]
      BY <1>9, <1>11, <3>1
    <3> QED BY <3>1, <3>2 DEF Elems
  <2>2. CASE j \notin B
    BY <1>10, <1>12, <2>2 DEF Elems
  <2> QED BY <2>1, <2>2
<1> QED BY <1>8, <1>20, <1>21, <1>22, <1>23 DEF Members

\* A member that needs no rendezvous is a primary after the swap, and no other
\* is: each closed primary has met an open secondary, and none was left over.
LEMMA SwapOpens ==
  ASSUME NEW rg, WellFormed(rg),
         NEW f \in [ClosedIn(rg.prim) -> OpenIn(rg.sec)], Pairing(rg, f)
  PROVE  Elems(SwappedRing(rg, f).prim) = {n \in Members(rg) : ~Firewalled(n)}
<1> DEFINE p == rg.prim
           s == rg.sec
           q == SwappedRing(rg, f).prim
<1>1. p \in Seq(Nodes) /\ s \in Seq(Nodes) /\ Len(p) \in Nat
  BY DEF WellFormed, RingState
<1>2. q = [i \in 1 .. Len(p) |-> IF i \in ClosedIn(p) THEN s[f[i]] ELSE p[i]]
  BY DEF SwappedRing
<1>3. Len(q) = Len(p)
  BY <1>1, <1>2
<1> HIDE DEF q
<1>4. ASSUME NEW i \in 1 .. Len(p) PROVE q[i] \in {n \in Members(rg) : ~Firewalled(n)}
  <2>1. CASE i \in ClosedIn(p)
    <3>1. f[i] \in 1 .. Len(s) /\ ~Firewalled(s[f[i]])
      BY <2>1 DEF OpenIn
    <3>2. q[i] = s[f[i]] /\ s[f[i]] \in Elems(s)
      BY <1>2, <2>1, <3>1 DEF Elems
    <3> QED BY <3>1, <3>2 DEF Members
  <2>2. CASE i \notin ClosedIn(p)
    <3>1. ~Firewalled(p[i]) /\ q[i] = p[i] /\ p[i] \in Elems(p)
      BY <1>2, <2>2 DEF ClosedIn, Elems
    <3> QED BY <3>1 DEF Members
  <2> QED BY <2>1, <2>2
<1>5. ASSUME NEW n \in Members(rg), ~Firewalled(n)
      PROVE  \E i \in 1 .. Len(p) : q[i] = n
  <2>1. CASE n \in Elems(p)
    <3>1. PICK i \in 1 .. Len(p) : p[i] = n
      BY <2>1 DEF Elems
    <3>2. i \notin ClosedIn(p)
      BY <1>5, <3>1 DEF ClosedIn
    <3> QED BY <1>2, <3>1, <3>2
  <2>2. CASE n \in Elems(s)
    <3>1. PICK j \in 1 .. Len(s) : s[j] = n
      BY <2>2 DEF Elems
    <3>2. j \in OpenIn(s)
      BY <1>5, <3>1 DEF OpenIn
    <3>3. PICK i \in ClosedIn(p) : f[i] = j
      BY <3>2 DEF Pairing
    <3>4. i \in 1 .. Len(p)
      BY <3>3 DEF ClosedIn
    <3> QED BY <1>2, <3>1, <3>3, <3>4
  <2> QED BY <2>1, <2>2 DEF Members
<1> QED BY <1>3, <1>4, <1>5 DEF Elems, q

----------------------------------------------------------------------------
(* Ring numbers *)

\* The ring ends are numbers: base^k milliseconds, by induction on k.
LEMMA RingEndsExist ==
  \A k \in 0 .. NumRings : ringEndUS[k] \in Nat
<1> DEFINE Step(g, j) == IF j = 0 THEN 1000 ELSE ExponentBase * g[j - 1]
           S == {k \in 0 .. NumRings : \E g \in [0 .. k -> Nat] :
                   \A j \in 0 .. k : g[j] = Step(g, j)}
<1>1. NumRings \in Nat /\ ExponentBase \in Nat
  BY RingSetAssumption
<1>2. 0 \in S
  <2> DEFINE g == [j \in 0 .. 0 |-> 1000]
  <2>1. g \in [0 .. 0 -> Nat] /\ \A j \in 0 .. 0 : g[j] = Step(g, j)
    OBVIOUS
  <2> HIDE DEF g
  <2> QED BY <1>1, <2>1
<1>3. ASSUME NEW k \in 1 .. NumRings, k - 1 \in S PROVE k \in S
  <2>1. PICK g \in [0 .. k - 1 -> Nat] : \A j \in 0 .. k - 1 : g[j] = Step(g, j)
    BY <1>3
  <2> DEFINE x == ExponentBase * g[k - 1]
             h == [j \in 0 .. k |-> IF j = k THEN x ELSE g[j]]
  <2>2. x \in Nat
    <3>1. g[k - 1] \in Nat
      BY <1>1, <1>3
    <3> QED BY <1>1, <3>1
  <2> HIDE DEF x
  <2>3. h \in [0 .. k -> Nat]
    BY <2>2
  <2>4. ASSUME NEW j \in 0 .. k PROVE h[j] = Step(h, j)
    <3>1. CASE j = k
      <4>1. h[j] = x /\ h[k - 1] = g[k - 1] /\ k # 0
        BY <3>1
      <4> QED BY <3>1, <4>1 DEF x
    <3>2. CASE j # k
      <4>1. j \in 0 .. k - 1 /\ h[j] = g[j] /\ (j # 0 => h[j - 1] = g[j - 1])
        BY <3>2
      <4> QED BY <2>1, <4>1
    <3> QED BY <3>1, <3>2
  <2>5. k \in 0 .. NumRings
    BY <1>1, <1>3
  <2>6. \A j \in 0 .. k : h[j] = Step(h, j)
    BY <2>4
  <2> HIDE DEF h, Step
  <2> QED BY <2>3, <2>5, <2>6
<1>4. NumRings \in S
  <2> HIDE DEF S
  <2>1. \A k \in 0 .. NumRings : k \in S
    BY <1>1, <1>2, <1>3, UpTo
  <2> QED BY <1>1, <2>1
<1>5. PICK g \in [0 .. NumRings -> Nat] : \A j \in 0 .. NumRings : g[j] = Step(g, j)
  BY <1>4
<1>6. g = [k \in 0 .. NumRings |-> Step(g, k)]
  <2> HIDE DEF Step
  <2> QED BY <1>5
<1>7. ringEndUS = [k \in 0 .. NumRings |-> Step(ringEndUS, k)]
  <2> DEFINE ends == CHOOSE f : f = [k \in 0 .. NumRings |-> Step(f, k)]
  <2>1. ends = [k \in 0 .. NumRings |-> Step(ends, k)]
    <3> HIDE DEF Step
    <3> QED BY <1>6
  <2>2. ringEndUS = ends
    BY DEF ringEndUS
  <2> HIDE DEF ends, Step
  <2> QED BY <2>1, <2>2
<1> DEFINE E == {k \in 0 .. NumRings : ringEndUS[k] \in Nat}
<1>8. 0 \in E
  BY <1>1, <1>7
<1>9. ASSUME NEW k \in 1 .. NumRings, k - 1 \in E PROVE k \in E
  <2>1. ringEndUS[k - 1] \in Nat
    BY <1>9
  <2>2. ringEndUS[k] = ExponentBase * ringEndUS[k - 1] /\ k \in 0 .. NumRings
    BY <1>1, <1>7
  <2>3. ringEndUS[k] \in Nat
    BY <1>1, <2>1, <2>2
  <2> QED BY <2>2, <2>3
<1>10. \A k \in 0 .. NumRings : k \in E
  <2> HIDE DEF E
  <2> QED BY <1>1, <1>8, <1>9, UpTo
<1> QED BY <1>10

\* A larger latency is in no closer ring.
LEMMA RingNumberMonotone ==
  ASSUME NEW l \in Int, NEW m \in Int, l <= m
  PROVE  getRingNumber(l) <= getRingNumber(m)
<1> DEFINE K == 0 .. NumRings - 2
           X == {k \in K : l > ringEndUS[k]}
           Y == {k \in K : m > ringEndUS[k]}
<1>1. X \subseteq Y
  <2> SUFFICES ASSUME NEW k \in K, l > ringEndUS[k] PROVE m > ringEndUS[k]
    OBVIOUS
  <2>1. k \in 0 .. NumRings
    BY RingSetAssumption
  <2>2. ringEndUS[k] \in Nat
    BY <2>1, RingEndsExist
  <2> QED BY <2>2
<1>2. IsFiniteSet(Y)
  <2>1. IsFiniteSet(K)
    BY RingSetAssumption, FS_Interval
  <2> QED BY <2>1, FS_Subset
<1>3. Cardinality(X) <= Cardinality(Y)
  BY <1>1, <1>2, FS_Subset
<1> QED BY <1>3 DEF getRingNumber

----------------------------------------------------------------------------
(* The inductive invariant of RingSet *)

\* A latency always selects one of the rings.
LEMMA RingNumberInRings ==
  ASSUME NEW l
  PROVE  getRingNumber(l) \in Rings
<1> DEFINE K == 0 .. NumRings - 2
           S == {k \in K : l > ringEndUS[k]}
<1>1. IsFiniteSet(K) /\ Cardinality(K) = NumRings - 1
  <2>1. NumRings - 2 \in Int /\ 0 \in Int /\ NumRings >= 1
    BY RingSetAssumption
  <2> QED BY <2>1, RingSetAssumption, FS_Interval
<1>2. S \subseteq K
  OBVIOUS
<1>3. IsFiniteSet(S) /\ Cardinality(S) <= Cardinality(K)
  BY <1>1, <1>2, FS_Subset
<1>4. Cardinality(S) \in Nat
  BY <1>3, FS_CardinalityType
<1> HIDE DEF S, K
<1>5. Cardinality(S) \in 0 .. NumRings - 1
  BY <1>1, <1>3, <1>4, RingSetAssumption
<1> QED BY <1>5 DEF getRingNumber, Rings, S, K

\* The conjunction of RingSet's invariants, ring by ring: each is needed to
\* re-establish the others, since a method finds a node through its latency
\* and relies on finding it exactly once.
IInv ==
  /\ ring \in [Rings -> RingState]
  /\ ringFrozen \in [Rings -> BOOLEAN]
  /\ nodeLatencyUS \in [Nodes -> LatenciesUS \cup {Absent}]
  /\ rendvMapping \in [Nodes -> Rendvs \cup {NoRendv}]
  /\ \A r \in Rings : WellFormed(ring[r])
  /\ RingsMatchLatencies

\* The invariant holds at the start.
LEMMA InitIInv == Init => IInv
<1> SUFFICES ASSUME Init PROVE IInv
  OBVIOUS
<1>1. <<>> \in Seq(Nodes) /\ Len(<<>>) = 0
  OBVIOUS
<1>2. \A r \in Rings : ring[r] = [prim |-> <<>>, sec |-> <<>>]
  BY DEF Init
<1>3. Elems(<<>>) = {} /\ Injective(<<>>)
  BY DEF Elems, Injective
<1>4. Distinct([prim |-> <<>>, sec |-> <<>>])
  BY <1>1, <1>3, DistinctVectors
<1>5. WellFormed([prim |-> <<>>, sec |-> <<>>])
  <2>1. 0 <= PrimarySize /\ 0 <= SecondarySize
    BY RingSetAssumption
  <2> QED BY <1>1, <1>4, <2>1 DEF WellFormed, RingState
<1>6. \A r \in Rings : Members(ring[r]) = {}
  BY <1>2, <1>3 DEF Members
<1>7. RingsMatchLatencies
  BY <1>6 DEF RingsMatchLatencies, Init
<1>8. ring \in [Rings -> RingState]
  BY <1>1 DEF Init, RingState
<1> QED BY <1>2, <1>5, <1>7, <1>8 DEF Init, IInv, Absent

\* Every change of the rings has this form: the members of ring r after the
\* step are those whose latency after the step selects r.
LEMMA NextIInv == IInv /\ [Next]_ringVars => IInv'
<1> SUFFICES ASSUME IInv, [Next]_ringVars PROVE IInv'
  OBVIOUS
<1> USE DEF IInv
<1>1. \A l : getRingNumber(l) \in Rings
  BY RingNumberInRings
<1>2. Absent \notin LatenciesUS
  BY RingSetAssumption DEF Absent
<1>3. \A n \in Nodes, rend \in Rendvs \cup {NoRendv} :
        StoredRendv(n, rend) \in [Nodes -> Rendvs \cup {NoRendv}]
  BY DEF StoredRendv
<1>4. ASSUME NEW n \in Nodes, NEW l \in LatenciesUS,
             NEW rend \in Rendvs \cup {NoRendv}, InsertRefused(n, l, rend)
      PROVE  IInv'
  BY <1>3, <1>4 DEF InsertRefused, RingsMatchLatencies
<1>5. ASSUME NEW n \in Nodes, NEW l \in LatenciesUS,
             NEW rend \in Rendvs \cup {NoRendv}, InsertSameRing(n, l, rend)
      PROVE  IInv'
  <2>1. RingsMatchLatencies'
    <3> SUFFICES ASSUME NEW r \in Rings
                 PROVE  Members(ring[r]) =
                   {m \in Nodes : /\ nodeLatencyUS'[m] # Absent
                                  /\ getRingNumber(nodeLatencyUS'[m]) = r}
      BY <1>5 DEF InsertSameRing, RingsMatchLatencies
    <3>1. \A m \in Nodes : nodeLatencyUS'[m] = IF m = n THEN l ELSE nodeLatencyUS[m]
      BY <1>5 DEF InsertSameRing
    <3>2. nodeLatencyUS[n] # Absent /\ getRingNumber(nodeLatencyUS[n]) = getRingNumber(l)
      BY <1>5 DEF InsertSameRing, Known, RingNow
    <3> QED BY <1>2, <3>1, <3>2 DEF RingsMatchLatencies
  <2> QED BY <1>3, <1>5, <2>1 DEF InsertSameRing
<1>6. ASSUME NEW n \in Nodes, NEW l \in LatenciesUS,
             NEW rend \in Rendvs \cup {NoRendv}, InsertNew(n, l, rend)
      PROVE  IInv'
  <2> DEFINE r == getRingNumber(l)
             out == Evicted(ring[r])
  <2>1. r \in Rings /\ WellFormed(ring[r])
    BY <1>1
  <2>2. \A q \in Rings : n \notin Members(ring[q])
    BY <1>6 DEF InsertNew, Known, RingsMatchLatencies
  <2>3. /\ WellFormed(PushToRing(ring[r], n))
        /\ Members(PushToRing(ring[r], n)) = (Members(ring[r]) \ out) \cup {n}
        /\ out \subseteq Members(ring[r])
    BY <2>1, <2>2, PushFacts
  <2>4. ring' = [ring EXCEPT ![r] = PushToRing(ring[r], n)]
    BY <1>6 DEF InsertNew
  <2>5. \A m \in Nodes : nodeLatencyUS'[m] =
          IF m = n THEN l ELSE IF m \in out THEN Absent ELSE nodeLatencyUS[m]
    BY <1>6 DEF InsertNew
  <2> HIDE DEF r, out
  <2>6. \A q \in Rings : WellFormed(ring'[q])
    BY <2>1, <2>3, <2>4
  <2>7. RingsMatchLatencies'
    <3> SUFFICES ASSUME NEW q \in Rings
                 PROVE  Members(ring'[q]) =
                   {m \in Nodes : /\ nodeLatencyUS'[m] # Absent
                                  /\ getRingNumber(nodeLatencyUS'[m]) = q}
      BY DEF RingsMatchLatencies
    <3>1. Members(ring[q]) = {m \in Nodes : /\ nodeLatencyUS[m] # Absent
                                            /\ getRingNumber(nodeLatencyUS[m]) = q}
      BY DEF RingsMatchLatencies
    <3>2. \A m \in out : m \in Nodes /\ nodeLatencyUS[m] # Absent
                         /\ getRingNumber(nodeLatencyUS[m]) = r
      BY <2>1, <2>3 DEF RingsMatchLatencies
    <3>3. CASE q = r
      <4>1. Members(ring'[q]) = (Members(ring[q]) \ out) \cup {n}
        BY <2>1, <2>3, <2>4, <3>3
      <4> QED BY <1>2, <2>5, <3>1, <3>3, <4>1 DEF r
    <3>4. CASE q # r
      <4>1. ring'[q] = ring[q]
        BY <2>4, <3>4
      <4>2. n \notin Members(ring[q])
        BY <2>2
      <4> QED BY <2>5, <3>1, <3>2, <3>4, <4>1, <4>2 DEF r
    <3> QED BY <3>3, <3>4
  <2>8. ring' \in [Rings -> RingState]
    BY <2>1, <2>3, <2>4 DEF WellFormed
  <2>9. nodeLatencyUS' \in [Nodes -> LatenciesUS \cup {Absent}]
    BY <1>6 DEF InsertNew
  <2>10. rendvMapping' \in [Nodes -> Rendvs \cup {NoRendv}]
    BY <1>3, <1>6 DEF InsertNew
  <2> QED BY <1>6, <2>6, <2>7, <2>8, <2>9, <2>10 DEF InsertNew
<1>7. ASSUME NEW n \in Nodes, NEW l \in LatenciesUS,
             NEW rend \in Rendvs \cup {NoRendv}, InsertMoved(n, l, rend)
      PROVE  IInv'
  <2> DEFINE r == getRingNumber(l)
             old == RingNow(n)
             out == Evicted(ring[r])
  <2>1. /\ r \in Rings /\ WellFormed(ring[r])
        /\ old \in Rings /\ WellFormed(ring[old]) /\ old # r
    BY <1>1, <1>7 DEF RingNow, InsertMoved
  <2>2. nodeLatencyUS[n] # Absent /\ getRingNumber(nodeLatencyUS[n]) = old
    BY <1>7 DEF InsertMoved, Known, RingNow
  <2>3. \A q \in Rings : n \in Members(ring[q]) <=> q = old
    BY <2>1, <2>2 DEF RingsMatchLatencies
  <2>4. /\ WellFormed(PushToRing(ring[r], n))
        /\ Members(PushToRing(ring[r], n)) = (Members(ring[r]) \ out) \cup {n}
        /\ out \subseteq Members(ring[r])
    BY <2>1, <2>3, PushFacts
  <2>5. /\ WellFormed(EraseFromRing(ring[old], n))
        /\ Members(EraseFromRing(ring[old], n)) = Members(ring[old]) \ {n}
    BY <2>1, <2>3, EraseFacts
  <2>6. \A q \in Rings : ring'[q] =
          IF q = r THEN PushToRing(ring[r], n)
          ELSE IF q = old THEN EraseFromRing(ring[old], n) ELSE ring[q]
    BY <1>7, <2>1 DEF InsertMoved
  <2>7. \A m \in Nodes : nodeLatencyUS'[m] =
          IF m = n THEN l ELSE IF m \in out THEN Absent ELSE nodeLatencyUS[m]
    BY <1>7 DEF InsertMoved
  <2>8. ring' = [q \in Rings |-> ring'[q]]
    BY <1>7 DEF InsertMoved
  <2> HIDE DEF r, old, out
  <2>9. \A q \in Rings : WellFormed(ring'[q])
    BY <2>1, <2>4, <2>5, <2>6
  <2>10. RingsMatchLatencies'
    <3> SUFFICES ASSUME NEW q \in Rings
                 PROVE  Members(ring'[q]) =
                   {m \in Nodes : /\ nodeLatencyUS'[m] # Absent
                                  /\ getRingNumber(nodeLatencyUS'[m]) = q}
      BY DEF RingsMatchLatencies
    <3>1. Members(ring[q]) = {m \in Nodes : /\ nodeLatencyUS[m] # Absent
                                            /\ getRingNumber(nodeLatencyUS[m]) = q}
      BY DEF RingsMatchLatencies
    <3>2. \A m \in out : m \in Nodes /\ nodeLatencyUS[m] # Absent
                         /\ getRingNumber(nodeLatencyUS[m]) = r
      BY <2>1, <2>4 DEF RingsMatchLatencies
    <3>3. CASE q = r
      <4>1. Members(ring'[q]) = (Members(ring[q]) \ out) \cup {n}
        BY <2>4, <2>6, <3>3
      <4> QED BY <1>2, <2>7, <3>1, <3>3, <4>1 DEF r
    <3>4. CASE q = old
      <4>1. Members(ring'[q]) = Members(ring[q]) \ {n}
        BY <2>1, <2>5, <2>6, <3>4
      <4> QED BY <2>1, <2>7, <3>1, <3>2, <3>4, <4>1 DEF r
    <3>5. CASE q # r /\ q # old
      <4>1. Members(ring'[q]) = Members(ring[q]) /\ n \notin Members(ring[q])
        BY <2>3, <2>6, <3>5
      <4> QED BY <2>7, <3>1, <3>2, <3>5, <4>1 DEF r
    <3> QED BY <3>3, <3>4, <3>5
  <2>11. ring' \in [Rings -> RingState]
    BY <2>8, <2>9 DEF WellFormed
  <2>12. nodeLatencyUS' \in [Nodes -> LatenciesUS \cup {Absent}]
    BY <1>7 DEF InsertMoved
  <2>13. rendvMapping' \in [Nodes -> Rendvs \cup {NoRendv}]
    BY <1>7 DEF InsertMoved
  <2> QED BY <1>7, <2>9, <2>10, <2>11, <2>12, <2>13 DEF InsertMoved
<1>8. ASSUME NEW n \in Nodes, eraseNode(n)
      PROVE  IInv'
  <2> DEFINE old == RingNow(n)
  <2>1. old \in Rings /\ WellFormed(ring[old])
    BY <1>1 DEF RingNow
  <2>2. nodeLatencyUS[n] # Absent /\ getRingNumber(nodeLatencyUS[n]) = old
    BY <1>8 DEF eraseNode, Known, RingNow
  <2>3. \A q \in Rings : n \in Members(ring[q]) <=> q = old
    BY <2>1, <2>2 DEF RingsMatchLatencies
  <2>4. /\ WellFormed(EraseFromRing(ring[old], n))
        /\ Members(EraseFromRing(ring[old], n)) = Members(ring[old]) \ {n}
    BY <2>1, <2>3, EraseFacts
  <2>5. ring' = [ring EXCEPT ![old] = EraseFromRing(ring[old], n)]
    BY <1>8 DEF eraseNode
  <2>6. \A m \in Nodes : nodeLatencyUS'[m] = IF m = n THEN Absent ELSE nodeLatencyUS[m]
    BY <1>8 DEF eraseNode
  <2> HIDE DEF old
  <2>7. \A q \in Rings : WellFormed(ring'[q])
    BY <2>1, <2>4, <2>5
  <2>8. RingsMatchLatencies'
    <3> SUFFICES ASSUME NEW q \in Rings
                 PROVE  Members(ring'[q]) =
                   {m \in Nodes : /\ nodeLatencyUS'[m] # Absent
                                  /\ getRingNumber(nodeLatencyUS'[m]) = q}
      BY DEF RingsMatchLatencies
    <3>1. Members(ring'[q]) = Members(ring[q]) \ {n}
      BY <2>1, <2>3, <2>4, <2>5
    <3> QED BY <2>6, <3>1 DEF RingsMatchLatencies
  <2>9. ring' \in [Rings -> RingState]
    BY <2>1, <2>4, <2>5 DEF WellFormed
  <2>10. nodeLatencyUS' \in [Nodes -> LatenciesUS \cup {Absent}]
    BY <1>8 DEF eraseNode
  <2>11. rendvMapping' \in [Nodes -> Rendvs \cup {NoRendv}]
    BY <1>8 DEF eraseNode
  <2>12. ringFrozen' \in [Rings -> BOOLEAN]
    BY <1>8 DEF eraseNode
  <2> QED BY <2>7, <2>8, <2>9, <2>10, <2>11, <2>12
<1>9. ASSUME NEW r \in Rings, freezeRing(r) \/ unfreezeRing(r)
      PROVE  IInv'
  <2>1. UNCHANGED <<ring, nodeLatencyUS, rendvMapping>>
    BY <1>9 DEF freezeRing, unfreezeRing
  <2>2. ringFrozen' \in [Rings -> BOOLEAN]
    BY <1>9 DEF freezeRing, unfreezeRing
  <2>3. RingsMatchLatencies'
    BY <2>1 DEF RingsMatchLatencies
  <2> QED BY <2>1, <2>2, <2>3
<1>10. ASSUME NEW r \in Rings, NEW rg, ring' = [ring EXCEPT ![r] = rg],
              WellFormed(rg), Members(rg) = Members(ring[r]),
              UNCHANGED <<nodeLatencyUS, rendvMapping>>,
              ringFrozen' \in [Rings -> BOOLEAN]
       PROVE  IInv'
  <2>1. \A q \in Rings : WellFormed(ring'[q]) /\ Members(ring'[q]) = Members(ring[q])
    BY <1>10
  <2>2. ring' \in [Rings -> RingState]
    BY <1>10 DEF WellFormed
  <2>3. RingsMatchLatencies'
    BY <1>10, <2>1 DEF RingsMatchLatencies
  <2> QED BY <1>10, <2>1, <2>2, <2>3
<1>11. ASSUME NEW r \in Rings, SwapFirewalled(r)
       PROVE  IInv'
  <2>1. PICK f \in [ClosedIn(ring[r].prim) -> OpenIn(ring[r].sec)] :
          /\ Pairing(ring[r], f)
          /\ ring' = [ring EXCEPT ![r] = SwappedRing(ring[r], f)]
    BY <1>11 DEF SwapFirewalled
  <2>2. /\ WellFormed(SwappedRing(ring[r], f))
        /\ Members(SwappedRing(ring[r], f)) = Members(ring[r])
    BY <2>1, SwapFacts
  <2> QED BY <1>10, <1>11, <2>1, <2>2 DEF SwapFirewalled
<1>12. ASSUME NEW r \in Rings, NEW s \in Splits, ReplaceRing(r, s.prim, s.sec)
       PROVE  IInv'
  <2>1. /\ WellFormed(SetMembers(ring[r], s.prim, s.sec))
        /\ Members(SetMembers(ring[r], s.prim, s.sec)) = Members(ring[r])
    BY SetMembersFacts
  <2> QED BY <1>10, <1>12, <2>1 DEF ReplaceRing
<1>13. CASE UNCHANGED ringVars
  BY <1>13 DEF ringVars, RingsMatchLatencies
<1>14. ASSUME NEW n \in Nodes, NEW l \in LatenciesUS,
              NEW rend \in Rendvs \cup {NoRendv}, insertNode(n, l, rend)
       PROVE  IInv'
  BY <1>4, <1>5, <1>6, <1>7, <1>14 DEF insertNode
<1>15. ASSUME NEW n \in Nodes, NEW l \in LatenciesUS, insertNodeKeepRendv(n, l)
       PROVE  IInv'
  BY <1>14, <1>15 DEF insertNodeKeepRendv
<1> QED BY <1>8, <1>9, <1>11, <1>12, <1>13, <1>14, <1>15 DEF Next

\* The rings stay consistent with the latency map and well formed, whatever
\* sequence of calls the event loop makes.
THEOREM RingSetInvariant == Spec => []IInv
BY InitIInv, NextIInv, PTL DEF Spec

\* Rings hold sequences of nodes; the two maps range over the nodes.
THEOREM RingSetTypeCorrect == Spec => []TypeOK
<1>1. IInv => TypeOK
  BY DEF IInv, TypeOK
<1> QED BY <1>1, RingSetInvariant, PTL

\* The assertions of RingSet.cpp:50,135,152 and RingSet.h:261 cannot fail: a
\* node with a latency entry is in the ring that latency selects, and a ring
\* has no other nodes.
THEOREM RingsAlwaysMatchLatencies == Spec => []RingsMatchLatencies
<1>1. IInv => RingsMatchLatencies
  BY DEF IInv
<1> QED BY <1>1, RingSetInvariant, PTL

\* A node never occupies two positions of a ring.
THEOREM RingsHaveNoDuplicates == Spec => []NoDuplicates
<1>1. IInv => NoDuplicates
  BY DEF IInv, WellFormed, NoDuplicates
<1> QED BY <1>1, RingSetInvariant, PTL

\* The configured sizes hold, and a node waits in a secondary ring only while
\* the primary ring is full.
THEOREM PrimaryAlwaysFilledFirst == Spec => []PrimaryFilledFirst
<1>1. IInv => PrimaryFilledFirst
  BY DEF IInv, WellFormed, PrimaryFilledFirst
<1> QED BY <1>1, RingSetInvariant, PTL

\* Typed vectors within their sizes, each node once, no secondary behind a hole.
THEOREM RingsAlwaysWellFormed == Spec => []RingsWellFormed
BY RingSetTypeCorrect, RingsHaveNoDuplicates, PrimaryAlwaysFilledFirst, PTL
   DEF RingsWellFormed

\* While a ring is frozen no call changes its members, their order or their
\* latencies: an insertion touches only the ring the latency selects and the
\* ring the node is in, and is refused when one of them is frozen.
THEOREM FrozenRingsAreKept == Spec => FrozenRingsKeepMembers
<1>1. IInv /\ [Next]_ringVars => [FrozenKept]_ringVars
  <2> SUFFICES ASSUME IInv, Next PROVE FrozenKept
    OBVIOUS
  <2> USE DEF IInv, FrozenKept
  <2>1. \A l : getRingNumber(l) \in Rings
    BY RingNumberInRings
  <2>2. \A q \in Rings : \A m \in Members(ring[q]) :
          /\ m \in Nodes /\ nodeLatencyUS[m] # Absent
          /\ getRingNumber(nodeLatencyUS[m]) = q
    BY DEF RingsMatchLatencies
  <2>3. ASSUME NEW n \in Nodes, NEW l \in LatenciesUS,
               NEW rend \in Rendvs \cup {NoRendv}, insertNode(n, l, rend)
        PROVE  FrozenKept
    <3>1. CASE InsertRefused(n, l, rend)
      BY <3>1 DEF InsertRefused
    <3>2. CASE InsertSameRing(n, l, rend)
      BY <2>2, <3>2 DEF InsertSameRing, RingNow
    <3>3. CASE InsertNew(n, l, rend)
      <4> DEFINE r == getRingNumber(l)
      <4>1. n \notin Members(ring[r])
        BY <2>1, <2>2, <3>3 DEF InsertNew, Known
      <4>2. Evicted(ring[r]) \subseteq Members(ring[r])
        BY <2>1, <4>1, PushFacts
      <4>3. /\ ~ringFrozen[r]
            /\ \A q \in Rings : q # r => ring'[q] = ring[q]
        BY <3>3 DEF InsertNew
      <4>4. \A m \in Nodes : m # n /\ m \notin Evicted(ring[r])
                               => nodeLatencyUS'[m] = nodeLatencyUS[m]
        BY <3>3 DEF InsertNew
      <4>5. nodeLatencyUS[n] = Absent
        BY <3>3 DEF InsertNew, Known
      <4> HIDE DEF r
      <4> QED BY <2>1, <2>2, <4>2, <4>3, <4>4, <4>5 DEF r
    <3>4. CASE InsertMoved(n, l, rend)
      <4> DEFINE r == getRingNumber(l)
                 old == getRingNumber(nodeLatencyUS[n])
      <4>1. r # old /\ ~ringFrozen[r] /\ ~ringFrozen[old]
        BY <3>4 DEF InsertMoved, RingNow
      <4>2. n \notin Members(ring[r])
        BY <2>1, <2>2, <4>1
      <4>3. Evicted(ring[r]) \subseteq Members(ring[r])
        BY <2>1, <4>2, PushFacts
      <4>4. \A q \in Rings : q # r /\ q # old => ring'[q] = ring[q]
        BY <3>4 DEF InsertMoved, RingNow
      <4>5. \A m \in Nodes : m # n /\ m \notin Evicted(ring[r])
                               => nodeLatencyUS'[m] = nodeLatencyUS[m]
        BY <3>4 DEF InsertMoved
      <4> HIDE DEF r
      <4> QED BY <2>1, <2>2, <4>1, <4>3, <4>4, <4>5 DEF r
    <3> QED BY <2>3, <3>1, <3>2, <3>3, <3>4 DEF insertNode
  <2>4. ASSUME NEW n \in Nodes, eraseNode(n)
        PROVE  FrozenKept
    BY <2>1, <2>2, <2>4 DEF eraseNode, RingNow
  <2>5. ASSUME NEW r \in Rings, freezeRing(r) \/ unfreezeRing(r)
        PROVE  FrozenKept
    BY <2>5 DEF freezeRing, unfreezeRing
  <2>6. ASSUME NEW r \in Rings, SwapFirewalled(r)
        PROVE  FrozenKept
    BY <2>6 DEF SwapFirewalled
  <2>7. ASSUME NEW r \in Rings, NEW s \in Splits, ReplaceRing(r, s.prim, s.sec)
        PROVE  FrozenKept
    BY <2>7 DEF ReplaceRing
  <2> QED BY <2>3, <2>4, <2>5, <2>6, <2>7 DEF Next, insertNodeKeepRendv
<1> QED BY <1>1, RingSetInvariant, PTL DEF Spec, FrozenRingsKeepMembers

\* The "TODO: This needs to be tested" of RingSet.h:137, settled: the swap
\* leaves in the primary ring the members that need no rendezvous, all of them
\* and only them, and loses nobody.
THEOREM SwapAlwaysMovesFirewalledOut == Spec => SwapMovesFirewalledOut
<1> DEFINE Moves == \A r \in Rings : SwapFirewalled(r) =>
              /\ Elems(ring'[r].prim) = {n \in Members(ring[r]) : ~Firewalled(n)}
              /\ Members(ring'[r]) = Members(ring[r])
<1>1. ASSUME IInv PROVE Moves
  <2> SUFFICES ASSUME NEW r \in Rings, SwapFirewalled(r)
               PROVE  /\ Elems(ring'[r].prim) = {n \in Members(ring[r]) : ~Firewalled(n)}
                      /\ Members(ring'[r]) = Members(ring[r])
    OBVIOUS
  <2>1. WellFormed(ring[r]) /\ ring \in [Rings -> RingState]
    BY <1>1 DEF IInv
  <2>2. PICK f \in [ClosedIn(ring[r].prim) -> OpenIn(ring[r].sec)] :
          /\ Pairing(ring[r], f)
          /\ ring' = [ring EXCEPT ![r] = SwappedRing(ring[r], f)]
    BY DEF SwapFirewalled
  <2>3. ring'[r] = SwappedRing(ring[r], f)
    BY <2>1, <2>2
  <2> QED BY <2>1, <2>2, <2>3, SwapFacts, SwapOpens
<1> QED BY <1>1, RingSetInvariant, PTL DEF SwapMovesFirewalledOut

\* Division rounds down, by less than the divisor.
LEMMA QuotientBounds ==
  ASSUME NEW a \in Int, NEW d \in Nat \ {0}
  PROVE  a \div d \in Int /\ d * (a \div d) <= a /\ a < d * (a \div d) + d
OBVIOUS

\* The bounds of fillVector: a latency within beta of the averages is between
\* the rounded bounds.
LEMMA BoundsInclude ==
  ASSUME NEW l \in Nat, NEW lo \in Nat, NEW hi \in Nat,
         (BetaDen - BetaNum) * lo <= BetaDen * l,
         BetaDen * l <= (BetaDen + BetaNum) * hi
  PROVE  /\ lowerBound(lo) \in Int /\ upperBound(hi) \in Int
         /\ lowerBound(lo) <= l /\ l <= upperBound(hi)
<1> DEFINE d == BetaDen
           a == (BetaDen - BetaNum) * lo
           b == (BetaDen + BetaNum) * hi
           x == a \div d
           y == (b + d - 1) \div d
<1>1. d \in Nat \ {0} /\ BetaDen - BetaNum \in Int /\ BetaDen + BetaNum \in Int
  BY RingSetAssumption
<1>2. a \in Int /\ b \in Int
  BY <1>1
<1>3. a <= d * l /\ d * l <= b
  OBVIOUS
<1>4. lowerBound(lo) = x /\ upperBound(hi) = y
  BY DEF lowerBound, upperBound
<1> HIDE DEF a, b, d
<1>5. x \in Int /\ d * x <= a
  BY <1>1, <1>2, QuotientBounds
<1>6. y \in Int /\ b + d - 1 < d * y + d
  BY <1>1, <1>2, QuotientBounds
<1> HIDE DEF x, y
<1>7. x <= l
  <2> SUFFICES ASSUME x >= l + 1 PROVE FALSE
    BY <1>5
  <2>1. d * (l + 1) <= d * x
    BY <1>1, <1>5
  <2>2. d * (l + 1) = d * l + d /\ d * l \in Int /\ d * x \in Int
    BY <1>1, <1>5
  <2> QED BY <1>1, <1>2, <1>3, <1>5, <2>1, <2>2
<1>8. l <= y
  <2> SUFFICES ASSUME y + 1 <= l PROVE FALSE
    BY <1>6
  <2>1. d * (y + 1) <= d * l
    BY <1>1, <1>6
  <2>2. d * (y + 1) = d * y + d /\ d * l \in Int /\ d * y \in Int
    BY <1>1, <1>6
  <2> QED BY <1>1, <1>2, <1>3, <1>6, <2>1, <2>2
<1> QED BY <1>4, <1>5, <1>6, <1>7, <1>8

\* fillVector searches the rings of its two bounds and those between them, and
\* that is enough: no primary member within beta of the averages is missed,
\* for any base, beta and latencies.
THEOREM FillVectorAlwaysComplete == Spec => []FillVectorComplete
<1>1. ASSUME IInv PROVE FillVectorComplete
  <2> SUFFICES ASSUME NEW lo \in LatenciesUS, NEW hi \in LatenciesUS,
                      NEW r \in Rings, NEW n \in Elems(ring[r].prim),
                      (BetaDen - BetaNum) * lo <= BetaDen * nodeLatencyUS[n],
                      BetaDen * nodeLatencyUS[n] <= (BetaDen + BetaNum) * hi
               PROVE  <<n, rendvMapping[n]>> \in fillVector(lo, hi)
    BY DEF FillVectorComplete
  <2> DEFINE l == nodeLatencyUS[n]
  <2>1. n \in Nodes /\ l # Absent /\ getRingNumber(l) = r
    BY <1>1 DEF IInv, RingsMatchLatencies, Members
  <2>2. l \in Nat /\ lo \in Nat /\ hi \in Nat
    BY <1>1, <2>1, RingSetAssumption DEF IInv
  <2>3. /\ lowerBound(lo) \in Int /\ upperBound(hi) \in Int
        /\ lowerBound(lo) <= l /\ l <= upperBound(hi)
    BY <2>2, BoundsInclude
  <2>4. /\ getRingNumber(lowerBound(lo)) <= getRingNumber(l)
        /\ getRingNumber(l) <= getRingNumber(upperBound(hi))
    BY <2>2, <2>3, RingNumberMonotone
  <2>5. /\ getRingNumber(lowerBound(lo)) \in Int
        /\ getRingNumber(upperBound(hi)) \in Int /\ r \in Int
    BY RingNumberInRings, RingSetAssumption DEF Rings
  <2>6. r \in getRingNumber(lowerBound(lo)) .. getRingNumber(upperBound(hi))
    BY <2>1, <2>4, <2>5
  <2> QED BY <2>3, <2>6 DEF fillVector
<1> QED BY <1>1, RingSetInvariant, PTL

----------------------------------------------------------------------------
(* Lemmas on orders *)

\* Sets of positions of the same size are matched in their order in one way at
\* least: what the one pass of eligibleForReplacement computes.
LEMMA IncreasingMatch ==
  ASSUME NEW A \in SUBSET Nat, NEW B \in SUBSET Nat,
         IsFiniteSet(A), IsFiniteSet(B), Cardinality(A) = Cardinality(B)
  PROVE  \E f \in [A -> B] : /\ \A i, k \in A : i < k => f[i] < f[k]
                             /\ {f[i] : i \in A} = B
<1> DEFINE Matched(X, Y) ==
      \E f \in [X -> Y] : /\ \A i, k \in X : i < k => f[i] < f[k]
                          /\ {f[i] : i \in X} = Y
    n == Cardinality(A)
    S == {m \in 0 .. n : \A X \in SUBSET A, Y \in SUBSET B :
            Cardinality(X) = m /\ Cardinality(Y) = m => Matched(X, Y)}
<1>1. n \in Nat
  BY FS_CardinalityType
<1>2. 0 \in S
  <2>1. ASSUME NEW X \in SUBSET A, NEW Y \in SUBSET B,
               Cardinality(X) = 0, Cardinality(Y) = 0
        PROVE  Matched(X, Y)
    <3>1. X = {} /\ Y = {}
      BY <2>1, FS_Subset, FS_EmptySet
    <3>2. [i \in {} |-> i] \in [X -> Y]
      BY <3>1
    <3> QED BY <3>1, <3>2
  <2> HIDE DEF Matched
  <2> QED BY <1>1, <2>1
<1>3. ASSUME NEW m \in 1 .. n, m - 1 \in S PROVE m \in S
  <2>1. ASSUME NEW X \in SUBSET A, NEW Y \in SUBSET B,
               Cardinality(X) = m, Cardinality(Y) = m
        PROVE  Matched(X, Y)
    <3>1. IsFiniteSet(X) /\ IsFiniteSet(Y)
      BY FS_Subset
    <3>2. X # {} /\ Y # {}
      BY <2>1, FS_EmptySet
    <3>3. PICK x \in X : \A i \in X : x <= i
      BY <3>2, SmallestExists
    <3>4. PICK y \in Y : \A j \in Y : y <= j
      BY <3>2, SmallestExists
    <3>5. Cardinality(X \ {x}) = m - 1 /\ Cardinality(Y \ {y}) = m - 1
      BY <2>1, <3>1, <3>3, <3>4, FS_RemoveElement
    <3>6. Matched(X \ {x}, Y \ {y})
      <4> HIDE DEF Matched
      <4> QED BY <1>3, <3>5
    <3>7. PICK g \in [X \ {x} -> Y \ {y}] :
            /\ \A i, k \in X \ {x} : i < k => g[i] < g[k]
            /\ {g[i] : i \in X \ {x}} = Y \ {y}
      BY <3>6
    <3> DEFINE f == [i \in X |-> IF i = x THEN y ELSE g[i]]
    <3>8. f \in [X -> Y]
      BY <3>4, <3>7
    <3>9. ASSUME NEW i \in X, NEW k \in X, i < k PROVE f[i] < f[k]
      <4>1. k # x /\ k \in X \ {x} /\ i \in Nat /\ k \in Nat /\ x \in Nat
        BY <3>3, <3>9
      <4>2. CASE i = x
        <5>1. g[k] \in Y \ {y}
          BY <3>7, <4>1
        <5>2. y \in Nat /\ g[k] \in Nat /\ y <= g[k] /\ y # g[k]
          BY <3>4, <5>1
        <5>3. f[i] = y /\ f[k] = g[k]
          BY <4>1, <4>2
        <5> QED BY <5>2, <5>3
      <4>3. CASE i # x
        BY <3>7, <3>9, <4>1, <4>3
      <4> QED BY <4>2, <4>3
    <3>10. {f[i] : i \in X} = Y
      <4>1. ASSUME NEW j \in Y PROVE \E i \in X : f[i] = j
        <5>1. CASE j = y
          BY <3>3, <5>1
        <5>2. CASE j # y
          <6>1. PICK i \in X \ {x} : g[i] = j
            BY <3>7, <5>2
          <6> QED BY <6>1
        <5> QED BY <5>1, <5>2
      <4> QED BY <3>8, <4>1
    <3> QED BY <3>8, <3>9, <3>10
  <2> HIDE DEF Matched
  <2> QED BY <1>1, <1>3, <2>1
<1>4. n \in S
  <2> HIDE DEF S
  <2> QED BY <1>1, <1>2, <1>3, UpTo
<1>5. Matched(A, B)
  <2> HIDE DEF Matched
  <2> QED BY <1>4
<1> QED BY <1>5

\* An order of a finite set of nodes names each of them once.
LEMMA OrderFacts ==
  ASSUME NEW S, S \subseteq Nodes, IsFiniteSet(S), NEW s \in Orders(S)
  PROVE  /\ s \in Seq(Nodes) /\ Len(s) = Cardinality(S)
         /\ Elems(s) = S /\ Injective(s)
<1> DEFINE n == Cardinality(S)
<1>1. n \in Nat
  BY FS_CardinalityType
<1>2. s \in [1 .. n -> S] /\ Elems(s) = S
  BY DEF Orders
<1>3. s \in Seq(Nodes) /\ Len(s) = n
  BY <1>1, <1>2
<1>4. IsFiniteSet(1 .. n) /\ Cardinality(1 .. n) = n
  BY <1>1, FS_Interval
<1>5. s \in Surjection(1 .. n, S)
  BY <1>2, <1>3 DEF Surjection, Elems
<1>6. s \in Injection(1 .. n, S)
  BY <1>4, <1>5, FS_SurjSameCardinalityImpliesInj
<1>7. Injective(s)
  BY <1>2, <1>3, <1>6 DEF Injection, IsInjective, Injective
<1> QED BY <1>2, <1>3, <1>7

\* A finite set of nodes has an order.
LEMMA OrderExists ==
  ASSUME NEW S, IsFiniteSet(S)
  PROVE  Orders(S) # {}
<1> DEFINE n == Cardinality(S)
<1>1. n \in Nat /\ ExistsBijection(1 .. n, S)
  BY FS_CardinalityType
<1>2. PICK f \in [1 .. n -> S] : \A x \in S : \E i \in 1 .. n : f[i] = x
  BY <1>1, FS_CardinalityType DEF ExistsBijection, Bijection, Surjection
<1>3. Len(f) = n
  BY <1>1, <1>2
<1>4. Elems(f) = S
  BY <1>2, <1>3 DEF Elems
<1> QED BY <1>2, <1>4 DEF Orders

----------------------------------------------------------------------------
(* Lemmas on what becomes of a ring *)

\* A well-formed ring has finitely many members, all of them nodes.
LEMMA MembersFinite ==
  ASSUME NEW rg, WellFormed(rg)
  PROVE  Members(rg) \subseteq Nodes /\ IsFiniteSet(Members(rg))
<1>1. /\ rg.prim \in Seq(Nodes) /\ rg.sec \in Seq(Nodes)
      /\ rg = [prim |-> rg.prim, sec |-> rg.sec]
  BY DEF WellFormed, RingState
<1>2. Injective(rg.prim) /\ Injective(rg.sec)
  BY <1>1, DistinctVectors DEF WellFormed
<1>3. Elems(rg.prim) \subseteq Nodes /\ Elems(rg.sec) \subseteq Nodes
  BY <1>1 DEF Elems
<1> QED BY <1>1, <1>2, <1>3, DistinctCount, FS_Union DEF Members

\* handleTimeout's loop over eraseNode: the ring has lost just the nodes of
\* the list, however the vectors were refilled and reordered on the way.
LEMMA EraseAllFacts ==
  ASSUME NEW rg, WellFormed(rg), NEW order \in Seq(Nodes), Injective(order),
         Elems(order) \subseteq Members(rg)
  PROVE  /\ WellFormed(EraseAll(rg, order))
         /\ Members(EraseAll(rg, order)) = Members(rg) \ Elems(order)
<1> DEFINE n == Len(order)
           Step(g, k) == IF k = 0 THEN rg ELSE EraseFromRing(g[k - 1], order[k])
           Good(x, k) == /\ WellFormed(x)
                         /\ Members(x) = Members(rg) \ {order[i] : i \in 1 .. k}
           S == {k \in 0 .. n : \E g \in [0 .. k -> RingState] :
                   \A j \in 0 .. k : g[j] = Step(g, j) /\ Good(g[j], j)}
<1>1. n \in Nat
  OBVIOUS
<1>2. 0 \in S
  <2> DEFINE g == [j \in 0 .. 0 |-> rg]
  <2>1. g \in [0 .. 0 -> RingState]
    BY DEF WellFormed
  <2>2. Good(rg, 0)
    OBVIOUS
  <2>3. \A j \in 0 .. 0 : g[j] = rg /\ j = 0
    OBVIOUS
  <2> HIDE DEF Good
  <2>4. \A j \in 0 .. 0 : g[j] = Step(g, j) /\ Good(g[j], j)
    BY <2>2, <2>3
  <2> HIDE DEF g
  <2> QED BY <1>1, <2>1, <2>4
<1>3. ASSUME NEW k \in 1 .. n, k - 1 \in S PROVE k \in S
  <2>1. PICK g \in [0 .. k - 1 -> RingState] :
          \A j \in 0 .. k - 1 : g[j] = Step(g, j) /\ Good(g[j], j)
    BY <1>3
  <2> DEFINE x == EraseFromRing(g[k - 1], order[k])
             h == [j \in 0 .. k |-> IF j = k THEN x ELSE g[j]]
  <2>2. Good(g[k - 1], k - 1)
    BY <1>3, <2>1
  <2>3. order[k] \in Members(g[k - 1])
    <3>1. order[k] \in Members(rg)
      BY DEF Elems
    <3>2. \A i \in 1 .. k - 1 : order[i] # order[k]
      BY DEF Injective
    <3> QED BY <2>2, <3>1, <3>2
  <2>4. WellFormed(x) /\ Members(x) = Members(g[k - 1]) \ {order[k]}
    BY <2>2, <2>3, EraseFacts
  <2>5. {order[i] : i \in 1 .. k} = {order[i] : i \in 1 .. k - 1} \cup {order[k]}
    <3>1. 1 .. k = (1 .. k - 1) \cup {k}
      OBVIOUS
    <3> QED BY <3>1
  <2>6. Good(x, k)
    BY <2>2, <2>4, <2>5
  <2>7. h \in [0 .. k -> RingState]
    BY <2>4 DEF WellFormed
  <2> HIDE DEF Good
  <2>8. ASSUME NEW j \in 0 .. k PROVE h[j] = Step(h, j) /\ Good(h[j], j)
    <3>1. CASE j = k
      <4>1. h[j] = x /\ h[k - 1] = g[k - 1] /\ k # 0
        BY <3>1
      <4> QED BY <2>6, <3>1, <4>1
    <3>2. CASE j # k
      <4>1. j \in 0 .. k - 1 /\ h[j] = g[j] /\ (j # 0 => h[j - 1] = g[j - 1])
        BY <3>2
      <4> QED BY <2>1, <4>1
    <3> QED BY <3>1, <3>2
  <2>9. k \in 0 .. n
    BY <1>1, <1>3
  <2>10. \A j \in 0 .. k : h[j] = Step(h, j) /\ Good(h[j], j)
    BY <2>8
  <2> HIDE DEF h, Step
  <2> QED BY <2>7, <2>9, <2>10
<1>4. n \in S
  <2> HIDE DEF S, n
  <2>1. \A k \in 0 .. n : k \in S
    BY <1>1, <1>2, <1>3, UpTo
  <2> QED BY <1>1, <2>1
<1>5. PICK g \in [0 .. n -> RingState] :
        \A j \in 0 .. n : g[j] = Step(g, j) /\ Good(g[j], j)
  BY <1>4
<1>6. g = [k \in 0 .. n |-> IF k = 0 THEN rg ELSE EraseFromRing(g[k - 1], order[k])]
  BY <1>5
<1> DEFINE left == CHOOSE f : f = [k \in 0 .. n |->
                     IF k = 0 THEN rg ELSE EraseFromRing(f[k - 1], order[k])]
<1>7. left = [k \in 0 .. n |-> IF k = 0 THEN rg ELSE EraseFromRing(left[k - 1], order[k])]
  BY <1>6
<1>8. EraseAll(rg, order) = left[n]
  BY DEF EraseAll
<1> HIDE DEF left
<1>9. left[n] = g[n]
  <2> DEFINE E == {k \in 0 .. n : left[k] = g[k]}
  <2>1. 0 \in E
    BY <1>1, <1>6, <1>7
  <2>2. ASSUME NEW k \in 1 .. n, k - 1 \in E PROVE k \in E
    <3>1. left[k - 1] = g[k - 1]
      BY <2>2
    <3>2. left[k] = EraseFromRing(left[k - 1], order[k])
      BY <1>7
    <3>3. g[k] = EraseFromRing(g[k - 1], order[k])
      BY <1>6
    <3> QED BY <3>1, <3>2, <3>3
  <2>3. n \in E
    <3> HIDE DEF E, n
    <3>1. \A k \in 0 .. n : k \in E
      BY <1>1, <2>1, <2>2, UpTo
    <3> QED BY <1>1, <3>1
  <2> QED BY <2>3
<1>10. Good(g[n], n)
  BY <1>1, <1>5
<1>11. {order[i] : i \in 1 .. n} = Elems(order)
  BY DEF Elems
<1>12. EraseAll(rg, order) = g[n]
  BY <1>8, <1>9
<1>13. WellFormed(g[n]) /\ Members(g[n]) = Members(rg) \ Elems(order)
  BY <1>10, <1>11
<1> HIDE DEF n
<1> QED BY <1>12, <1>13

\* Two lists without a common node make one list.
LEMMA ConcatFacts ==
  ASSUME NEW s \in Seq(Nodes), NEW t \in Seq(Nodes), Injective(s), Injective(t),
         Elems(s) \cap Elems(t) = {}
  PROVE  /\ s \o t \in Seq(Nodes) /\ Len(s \o t) = Len(s) + Len(t)
         /\ Injective(s \o t) /\ Elems(s \o t) = Elems(s) \cup Elems(t)
<1> DEFINE u == s \o t
           a == Len(s)
           b == Len(t)
<1>1. a \in Nat /\ b \in Nat /\ u \in Seq(Nodes) /\ Len(u) = a + b
  OBVIOUS
<1>2. \A i \in 1 .. a : i \in 1 .. a + b /\ u[i] = s[i] /\ u[i] \in Elems(s)
  BY DEF Elems
<1>3. \A i \in 1 .. b : a + i \in 1 .. a + b /\ u[a + i] = t[i] /\ u[a + i] \in Elems(t)
  BY DEF Elems
<1> HIDE DEF u, a, b
<1>4. \A i \in 1 .. a + b : i \in 1 .. a \/ \E j \in 1 .. b : i = a + j
  <2> SUFFICES ASSUME NEW i \in 1 .. a + b, i \notin 1 .. a
               PROVE  \E j \in 1 .. b : i = a + j
    OBVIOUS
  <2>1. i - a \in 1 .. b /\ i = a + (i - a)
    BY <1>1
  <2> QED BY <2>1
<1>5. Elems(u) = Elems(s) \cup Elems(t)
  <2>1. Elems(u) \subseteq Elems(s) \cup Elems(t)
    <3> SUFFICES ASSUME NEW i \in 1 .. a + b PROVE u[i] \in Elems(s) \cup Elems(t)
      BY <1>1 DEF Elems
    <3> QED BY <1>2, <1>3, <1>4
  <2>2. Elems(s) \subseteq Elems(u)
    BY <1>1, <1>2 DEF Elems, a
  <2>3. Elems(t) \subseteq Elems(u)
    BY <1>1, <1>3 DEF Elems, b
  <2> QED BY <2>1, <2>2, <2>3
<1>6. ASSUME NEW i \in 1 .. a + b, NEW k \in 1 .. a + b, u[i] = u[k] PROVE i = k
  <2>1. CASE i \in 1 .. a /\ k \in 1 .. a
    BY <1>2, <1>6, <2>1 DEF Injective, a
  <2>2. CASE i \in 1 .. a /\ k \notin 1 .. a
    BY <1>2, <1>3, <1>4, <1>6, <2>2
  <2>3. CASE i \notin 1 .. a /\ k \in 1 .. a
    BY <1>2, <1>3, <1>4, <1>6, <2>3
  <2>4. CASE i \notin 1 .. a /\ k \notin 1 .. a
    <3>1. PICK x \in 1 .. b : i = a + x
      BY <1>4, <2>4
    <3>2. PICK y \in 1 .. b : k = a + y
      BY <1>4, <2>4
    <3>3. t[x] = t[y]
      BY <1>3, <1>6, <3>1, <3>2
    <3>4. x = y
      BY <3>3 DEF Injective, b
    <3> QED BY <3>1, <3>2, <3>4
  <2> QED BY <2>1, <2>2, <2>3, <2>4
<1>7. Injective(u)
  BY <1>1, <1>6 DEF Injective
<1> QED BY <1>1, <1>5, <1>7 DEF u, a, b

\* What performReplacement can leave, from any reports: a well-formed ring of
\* the same members.  setRingMembers installs the split whole or not at all.
LEMMA ReplacementFacts ==
  ASSUME NEW rg, WellFormed(rg), NEW reports,
         DOMAIN reports \subseteq Nodes, IsFiniteSet(DOMAIN reports),
         NEW x \in Replacements(rg, reports)
  PROVE  WellFormed(x) /\ Members(x) = Members(rg)
<1> DEFINE D == DOMAIN reports
<1>1. PICK d \in DropOrders(reports) :
        x \in IF Suffices(Left(reports, d, Len(d)))
              THEN {SetMembers(rg, n.prim, n.sec) : n \in Reductions(D \ Elems(d), d)}
              ELSE {rg}
  BY DEF Replacements
<1>2. PICK S \in SUBSET D : d \in Orders(S)
  BY DEF DropOrders
<1>3. IsFiniteSet(S) /\ S \subseteq Nodes
  BY <1>2, FS_Subset
<1>4. d \in Seq(Nodes) /\ Injective(d) /\ Elems(d) = S
  BY <1>2, <1>3, OrderFacts
<1>5. CASE x = rg
  BY <1>5
<1>6. CASE x # rg
  <2>1. PICK n \in Reductions(D \ S, d) : x = SetMembers(rg, n.prim, n.sec)
    BY <1>1, <1>4, <1>6
  <2>2. PICK c \in UNION {Orders(T) \X Orders((D \ S) \ T) :
                        T \in {T \in SUBSET (D \ S) : Cardinality(T) = PrimarySize}} :
          n = [prim |-> c[1], sec |-> d \o c[2]]
    BY <2>1 DEF Reductions
  <2>3. PICK T \in SUBSET (D \ S) :
          Cardinality(T) = PrimarySize /\ c \in Orders(T) \X Orders((D \ S) \ T)
    BY <2>2
  <2> DEFINE p == c[1]
             s == c[2]
  <2>4. IsFiniteSet(T) /\ IsFiniteSet((D \ S) \ T)
    BY <2>2, FS_Subset
  <2>5. p \in Seq(Nodes) /\ Len(p) = PrimarySize /\ Elems(p) = T /\ Injective(p)
    BY <2>3, <2>4, OrderFacts
  <2>6. s \in Seq(Nodes) /\ Elems(s) = (D \ S) \ T /\ Injective(s)
    BY <2>3, <2>4, OrderFacts
  <2> DEFINE q == d \o s
  <2>7. /\ q \in Seq(Nodes) /\ Injective(q)
        /\ Elems(q) = S \cup ((D \ S) \ T)
    BY <1>4, <2>6, ConcatFacts
  <2> HIDE DEF p, s, q
  <2>8. Distinct(n)
    <3>1. n = [prim |-> p, sec |-> q]
      BY <2>2 DEF p, s, q
    <3>2. Elems(p) \cap Elems(q) = {}
      BY <2>3, <2>5, <2>7
    <3> QED BY <2>5, <2>7, <3>1, <3>2, DistinctVectors
  <2>9. n.prim = p /\ n.sec = q
    BY <2>2 DEF p, s, q
  <2>10. AcceptsMembers(rg, p, q)
    BY <1>6, <2>1, <2>9 DEF SetMembers
  <2>11. Len(q) \in 0 .. SecondarySize /\ PrimarySize \in Nat
    BY <2>7, <2>10, RingSetAssumption DEF AcceptsMembers
  <2>12. p \in [1 .. PrimarySize -> Nodes] /\ q \in [1 .. Len(q) -> Nodes]
    BY <2>5, <2>7
  <2>13. n \in Splits
    <3>1. q \in UNION {[1 .. k -> Nodes] : k \in 0 .. SecondarySize}
      BY <2>11, <2>12
    <3>2. n = [prim |-> p, sec |-> q]
      BY <2>2 DEF p, s, q
    <3> QED BY <2>8, <2>12, <3>1, <3>2 DEF Splits
  <2> QED BY <2>1, <2>13, SetMembersFacts
<1> QED BY <1>5, <1>6

\* When PrimarySize members need no rendezvous, the closed primaries are as
\* many as the open secondaries, so eligibleForReplacement can swap them all.
LEMMA PairingExists ==
  ASSUME NEW rg, WellFormed(rg), Swappable(rg)
  PROVE  \E f \in [ClosedIn(rg.prim) -> OpenIn(rg.sec)] : Pairing(rg, f)
<1> DEFINE A == ClosedIn(rg.prim)
           C == OpenIn(rg.prim)
           B == OpenIn(rg.sec)
<1>1. rg.prim \in Seq(Nodes) /\ rg.sec \in Seq(Nodes) /\ Len(rg.prim) = PrimarySize
  BY DEF WellFormed, RingState, Swappable, Replaceable
<1>2. PrimarySize \in Nat /\ Len(rg.sec) \in Nat
  BY <1>1, RingSetAssumption
<1>3. A \cup C = 1 .. PrimarySize /\ A \cap C = {} /\ B \subseteq 1 .. Len(rg.sec)
  BY <1>1 DEF OpenIn, ClosedIn
<1>4. /\ IsFiniteSet(1 .. PrimarySize) /\ Cardinality(1 .. PrimarySize) = PrimarySize
      /\ IsFiniteSet(1 .. Len(rg.sec))
  BY <1>2, FS_Interval
<1>5. IsFiniteSet(A) /\ IsFiniteSet(B) /\ IsFiniteSet(C)
  BY <1>3, <1>4, FS_Subset
<1> HIDE DEF A, B, C
<1>6. Cardinality(A) \in Nat /\ Cardinality(B) \in Nat /\ Cardinality(C) \in Nat
  BY <1>5, FS_CardinalityType
<1>7. Cardinality(A) + Cardinality(C) = PrimarySize
  <2>1. Cardinality(A \cup C) =
          Cardinality(A) + Cardinality(C) - Cardinality(A \cap C)
    BY <1>5, FS_Union
  <2>2. Cardinality(A \cap C) = 0
    BY <1>3, FS_EmptySet
  <2>3. Cardinality(A \cup C) = PrimarySize
    BY <1>3, <1>4
  <2> QED BY <1>2, <1>6, <2>1, <2>2, <2>3
<1>8. Cardinality(C) + Cardinality(B) = PrimarySize
  BY DEF Swappable, numEligible, C, B
<1>9. Cardinality(A) = Cardinality(B)
  BY <1>2, <1>6, <1>7, <1>8
<1>10. A \in SUBSET Nat /\ B \in SUBSET Nat
  BY <1>2, <1>3
<1>11. PICK f \in [A -> B] : /\ \A i, k \in A : i < k => f[i] < f[k]
                             /\ {f[i] : i \in A} = B
  BY <1>5, <1>9, <1>10, IncreasingMatch
<1> QED BY <1>11 DEF Pairing, A, B

\* The swap on the way of performRingManagement leaves a ring its members.
LEMMA AfterSwapFacts ==
  ASSUME NEW r \in Rings, WellFormed(ring[r])
  PROVE  WellFormed(AfterSwap(r)) /\ Members(AfterSwap(r)) = Members(ring[r])
<1>1. CASE ~ringFrozen[r] /\ Swappable(ring[r])
  <2> DEFINE F == [ClosedIn(ring[r].prim) -> OpenIn(ring[r].sec)]
             f == CHOOSE g \in F : Pairing(ring[r], g)
  <2>1. \E g \in F : Pairing(ring[r], g)
    BY <1>1, PairingExists
  <2> HIDE DEF F
  <2>2. f \in F /\ Pairing(ring[r], f)
    BY <2>1
  <2>3. AfterSwap(r) = SwappedRing(ring[r], f)
    BY <1>1 DEF AfterSwap, F
  <2> HIDE DEF f
  <2> QED BY <2>2, <2>3, SwapFacts DEF F
<1>2. CASE ~(~ringFrozen[r] /\ Swappable(ring[r]))
  BY <1>2 DEF AfterSwap
<1> QED BY <1>1, <1>2

----------------------------------------------------------------------------
(* The dumps *)

\* The state is made of functions on the rings; a query asks candidates only.
Shaped ==
  /\ ring = [r \in Rings |-> ring[r]]
  /\ ringFrozen \in [Rings -> BOOLEAN]
  /\ managed \subseteq Rings
  /\ remoteNodes = [r \in Rings |-> remoteNodes[r]]
  /\ asked = [r \in Rings |-> asked[r]]
  /\ RetNodeMap = [r \in Rings |-> RetNodeMap[r]]
  /\ \A r \in Rings : asked[r] \subseteq remoteNodes[r]
  /\ \A r \in Rings \ managed : remoteNodes[r] = {} /\ DOMAIN RetNodeMap[r] = {}

DumpInv == Shaped /\ DumpStaysCurrent

\* What the query of ring q works with is what it was.
SameQuery(q) ==
  /\ ringFrozen'[q] = ringFrozen[q]
  /\ q \in managed' <=> q \in managed
  /\ remoteNodes'[q] = remoteNodes[q]
  /\ asked'[q] = asked[q]
  /\ RetNodeMap'[q] = RetNodeMap[q]
  /\ ringFrozen[q] => ring'[q] = ring[q]

\* A step that changes the state of a query at one ring at most.
Reshaped ==
  /\ ring' = [r \in Rings |-> ring'[r]]
  /\ ringFrozen' \in [Rings -> BOOLEAN]
  /\ managed' \subseteq Rings
  /\ remoteNodes' = [r \in Rings |-> remoteNodes'[r]]
  /\ asked' = [r \in Rings |-> asked'[r]]
  /\ RetNodeMap' = [r \in Rings |-> RetNodeMap'[r]]

----------------------------------------------------------------------------

\* What DumpInv says of one ring.
Current(q) ==
  /\ asked[q] \subseteq remoteNodes[q]
  /\ ringFrozen[q] <=> q \in managed
  /\ q \in managed => /\ remoteNodes[q] = Members(ring[q])
                      /\ DOMAIN RetNodeMap[q] \subseteq remoteNodes[q]
  /\ q \notin managed => remoteNodes[q] = {} /\ DOMAIN RetNodeMap[q] = {}

\* A step keeps DumpInv if each ring's query is as before or current again.
LEMMA RingByRing ==
  ASSUME DumpInv, Reshaped, \A q \in Rings : SameQuery(q) \/ Current(q)'
  PROVE  DumpInv'
<1>1. ASSUME NEW q \in Rings, SameQuery(q) PROVE Current(q)'
  <2>1. Current(q)
    BY DEF DumpInv, Shaped, DumpStaysCurrent, Current
  <2>2. CASE ringFrozen[q]
    BY <1>1, <2>1, <2>2 DEF SameQuery, Current, Members, Elems
  <2>3. CASE ~ringFrozen[q]
    BY <1>1, <2>1, <2>3 DEF SameQuery, Current
  <2> QED
    BY <2>2, <2>3
<1>2. \A q \in Rings : Current(q)'
  BY <1>1
<1> QED
  BY <1>2 DEF DumpInv, Shaped, DumpStaysCurrent, Reshaped, Current

\* insertNode and eraseNode test the rings they change for being frozen, and
\* leave ringFrozen alone: RingSet.cpp:98-140 and 27-95.
LEMMA OthersSpareFrozen ==
  ASSUME DumpInv, OtherQueries
  PROVE  /\ ring' = [r \in Rings |-> ring'[r]]
         /\ ringFrozen' = ringFrozen
         /\ \A q \in Rings : ringFrozen[q] => ring'[q] = ring[q]
<1> USE DEF DumpInv, Shaped
<1>1. ASSUME NEW n \in Nodes, NEW l \in LatenciesUS,
             NEW rend \in Rendvs \cup {NoRendv}, insertNode(n, l, rend)
      PROVE  /\ ring' = [r \in Rings |-> ring'[r]]
             /\ ringFrozen' = ringFrozen
             /\ \A q \in Rings : ringFrozen[q] => ring'[q] = ring[q]
  <2>1. CASE InsertRefused(n, l, rend)
    BY <2>1 DEF InsertRefused
  <2>2. CASE InsertSameRing(n, l, rend)
    BY <2>2 DEF InsertSameRing
  <2>3. CASE InsertNew(n, l, rend)
    BY <2>3 DEF InsertNew
  <2>4. CASE InsertMoved(n, l, rend)
    BY <2>4 DEF InsertMoved
  <2> QED
    BY <1>1, <2>1, <2>2, <2>3, <2>4 DEF insertNode
<1>2. ASSUME NEW n \in Nodes, eraseNode(n)
      PROVE  /\ ring' = [r \in Rings |-> ring'[r]]
             /\ ringFrozen' = ringFrozen
             /\ \A q \in Rings : ringFrozen[q] => ring'[q] = ring[q]
  BY <1>2 DEF eraseNode
<1> QED
  BY <1>1, <1>2 DEF OtherQueries

\* The end of a query thaws its ring and forgets its candidates; the queries
\* of the other rings go on with what they have.
LEMMA EndKeepsOthers ==
  ASSUME DumpInv, NEW r \in Rings, EndQuery(r), NEW rg,
         ring' = [ring EXCEPT ![r] = rg]
  PROVE  DumpInv'
<1> USE DEF DumpInv, Shaped
<1>1. Reshaped
  BY DEF EndQuery, Reshaped
<1>2. Current(r)'
  BY DEF EndQuery, NoReports, Current
<1>3. ASSUME NEW q \in Rings, q # r PROVE SameQuery(q)
  BY <1>3 DEF EndQuery, SameQuery
<1> QED
  BY <1>1, <1>2, <1>3, RingByRing

\* performRingManagement swaps members in rings that are not frozen only, and
\* none in the ring it picks: that one has more eligible members.
LEMMA SwapSparesFrozen ==
  ASSUME NEW q \in Rings, ringFrozen[q] \/ eligibleForReplacement(q),
         PrimarySize \in Nat
  PROVE  AfterSwap(q) = ring[q]
<1>1. CASE ringFrozen[q]
  BY <1>1 DEF AfterSwap
<1>2. CASE eligibleForReplacement(q)
  <2>1. numEligible(ring[q]) > PrimarySize
    BY <1>2 DEF eligibleForReplacement
  <2>2. numEligible(ring[q]) # PrimarySize
    BY <2>1
  <2> QED
    BY <2>2 DEF AfterSwap, Swappable
<1> QED
  BY <1>1, <1>2

----------------------------------------------------------------------------

\* The constructor's rings are thawed and no query exists.
LEMMA InitDumpInv == ManageInit => DumpInv
  BY DEF ManageInit, Init, NoReports, DumpInv, Shaped, DumpStaysCurrent

\* Every handler keeps the dumps current.
LEMMA NextDumpInv == DumpInv /\ [ManageNext]_manageVars => DumpInv'
<1> SUFFICES ASSUME DumpInv, [ManageNext]_manageVars PROVE DumpInv'
  OBVIOUS
<1> USE DEF DumpInv, Shaped
<1>1. CASE OtherQueries
  <2>1. UNCHANGED queryVars
    BY <1>1 DEF OtherQueries
  <2>2. Reshaped
    BY <1>1, <2>1, OthersSpareFrozen DEF Reshaped, queryVars
  <2>3. \A q \in Rings : SameQuery(q)
    BY <1>1, <2>1, OthersSpareFrozen DEF SameQuery, queryVars
  <2> QED
    BY <2>2, <2>3, RingByRing
<1>2. CASE NothingEligible
  <2>1. Reshaped
    BY <1>2 DEF NothingEligible, Reshaped, queryVars
  <2>2. \A q \in Rings : SameQuery(q)
    BY <1>2, SwapSparesFrozen, RingSetAssumption
       DEF NothingEligible, SameQuery, queryVars
  <2> QED
    BY <2>1, <2>2, RingByRing
<1>3. ASSUME NEW r \in Rings, StartQuery(r) PROVE DumpInv'
  <2>1. Reshaped
    BY <1>3 DEF StartQuery, Reshaped
  <2>2. ring'[r] = ring[r]
    BY <1>3, SwapSparesFrozen, RingSetAssumption DEF StartQuery
  <2>3. Current(r)'
    <3>1. Members(ring'[r]) = Members(ring[r])
      BY <2>2
    <3>2. remoteNodes'[r] = Members(ring[r]) /\ asked'[r] \subseteq remoteNodes'[r]
      BY <1>3 DEF StartQuery
    <3>3. ringFrozen'[r] /\ r \in managed' /\ DOMAIN RetNodeMap'[r] = {}
      BY <1>3 DEF StartQuery, NoReports
    <3> QED
      BY <3>1, <3>2, <3>3 DEF Current, Members, Elems
  <2>4. ASSUME NEW q \in Rings, q # r PROVE SameQuery(q)
    BY <1>3, <2>4, SwapSparesFrozen, RingSetAssumption DEF StartQuery, SameQuery
  <2> QED
    BY <2>1, <2>3, <2>4, RingByRing
<1>4. ASSUME NEW r \in Rings, NEW n \in Nodes,
             NEW seen \in SUBSET (asked[r] \ {n}), Report(r, n, seen)
      PROVE  DumpInv'
  <2> DEFINE reports == Reported(r, n, seen)
  <2>1. DOMAIN reports = DOMAIN RetNodeMap[r] \cup {n}
    BY DEF Reported
  <2>2. r \in managed /\ n \in asked[r]
    BY <1>4 DEF Report
  <2>3. CASE DOMAIN reports = remoteNodes[r]
    <3>1. PICK rg \in Replacements(ring[r], reports) :
            ring' = [ring EXCEPT ![r] = rg] /\ EndQuery(r)
      BY <1>4, <2>3 DEF Report
    <3> QED
      BY <3>1, EndKeepsOthers
  <2>4. CASE DOMAIN reports # remoteNodes[r]
    <3>1. /\ RetNodeMap' = [RetNodeMap EXCEPT ![r] = reports]
          /\ UNCHANGED <<ring, ringFrozen, managed, remoteNodes, asked>>
      BY <1>4, <2>4 DEF Report
    <3>2. Reshaped
      BY <3>1 DEF Reshaped
    <3>3. Current(r)'
      <4>1. DOMAIN reports \subseteq remoteNodes[r]
        BY <2>1, <2>2 DEF DumpStaysCurrent
      <4>2. RetNodeMap'[r] = reports
        BY <3>1
      <4> HIDE DEF reports
      <4> QED
        BY <2>2, <3>1, <4>1, <4>2 DEF Current, DumpStaysCurrent, Members, Elems
    <3>4. ASSUME NEW q \in Rings, q # r PROVE SameQuery(q)
      BY <3>1, <3>4 DEF SameQuery
    <3> QED
      BY <3>2, <3>3, <3>4, RingByRing
  <2> QED
    BY <2>3, <2>4
<1>5. ASSUME NEW r \in Rings, Timeout(r) PROVE DumpInv'
  <2>1. \E rg : ring' = [ring EXCEPT ![r] = rg]
    BY <1>5 DEF Timeout
  <2>2. EndQuery(r)
    BY <1>5 DEF Timeout
  <2> QED
    BY <2>1, <2>2, EndKeepsOthers
<1>6. CASE UNCHANGED manageVars
  <2>1. Reshaped /\ \A q \in Rings : SameQuery(q)
    BY <1>6 DEF Reshaped, SameQuery, manageVars, ringVars, queryVars
  <2> QED
    BY <2>1, RingByRing
<1> QED
  BY <1>1, <1>2, <1>3, <1>4, <1>5, <1>6 DEF ManageNext, performRingManagement

\* A ring is frozen exactly while a query manages it (performRingManagement
\* freezes, performReplacement and handleTimeout thaw), and what the query
\* dumped at its start is still the ring when its reports have come, whatever
\* other handlers insert and erase meanwhile.
THEOREM DumpsAlwaysCurrent == ManageSpec => []DumpStaysCurrent
<1>1. DumpInv => DumpStaysCurrent
  BY DEF DumpInv
<1> QED
  BY InitDumpInv, NextDumpInv, <1>1, PTL DEF ManageSpec

----------------------------------------------------------------------------
(* The rings stay consistent through the queries *)

\* RingSet's invariant and that of the dumps, each needed for the other: the
\* dump bounds what a query erases and installs, the rings' consistency tells
\* that what it erases is where the latencies say.
QueryInv == IInv /\ DumpInv

\* What a query leaves in the ring it ends on, from all reports.
LEMMA ReportOutcome ==
  ASSUME QueryInv, NEW r \in Rings, NEW n \in Nodes, NEW seen, Report(r, n, seen)
  PROVE  \/ /\ UNCHANGED <<ring, ringFrozen, managed>>
         \/ /\ EndQuery(r)
            /\ \E x : /\ ring' = [ring EXCEPT ![r] = x]
                      /\ WellFormed(x) /\ Members(x) = Members(ring[r])
<1> DEFINE reports == Reported(r, n, seen)
<1>1. CASE DOMAIN reports # remoteNodes[r]
  BY <1>1 DEF Report
<1>2. CASE DOMAIN reports = remoteNodes[r]
  <2>1. PICK x \in Replacements(ring[r], reports) :
          ring' = [ring EXCEPT ![r] = x] /\ EndQuery(r)
    BY <1>2 DEF Report
  <2>2. WellFormed(ring[r]) /\ remoteNodes[r] = Members(ring[r])
    BY DEF QueryInv, IInv, DumpInv, DumpStaysCurrent, Report
  <2>3. DOMAIN reports \subseteq Nodes /\ IsFiniteSet(DOMAIN reports)
    BY <1>2, <2>2, MembersFinite
  <2> HIDE DEF reports
  <2>4. WellFormed(x) /\ Members(x) = Members(ring[r])
    BY <2>1, <2>2, <2>3, ReplacementFacts
  <2> QED BY <2>1, <2>4
<1> QED BY <1>1, <1>2

\* And at the timeout: just the silent members are gone, whatever promotions
\* their erasures caused and whatever the replacement made of the others.
LEMMA TimeoutOutcome ==
  ASSUME QueryInv, NEW r \in Rings, Timeout(r)
  PROVE  /\ Silent(r) \subseteq Members(ring[r])
         /\ DOMAIN RetNodeMap[r] \subseteq Members(ring[r]) \ Silent(r)
         /\ \E x : /\ ring' = [ring EXCEPT ![r] = x]
                   /\ WellFormed(x)
                   /\ Members(x) = Members(ring[r]) \ Silent(r)
<1> DEFINE reports == Without(RetNodeMap[r], Silent(r))
<1>1. /\ WellFormed(ring[r]) /\ remoteNodes[r] = Members(ring[r])
      /\ DOMAIN RetNodeMap[r] \subseteq remoteNodes[r]
  BY DEF QueryInv, IInv, DumpInv, DumpStaysCurrent, Timeout
<1>2. Members(ring[r]) \subseteq Nodes /\ IsFiniteSet(Members(ring[r]))
  BY <1>1, MembersFinite
<1>3. /\ Silent(r) \subseteq Members(ring[r])
      /\ DOMAIN RetNodeMap[r] \subseteq Members(ring[r]) \ Silent(r)
  BY <1>1 DEF Silent
<1>4. PICK order \in Orders(Silent(r)) :
        \E rg \in Replacements(EraseAll(ring[r], order), reports) :
          ring' = [ring EXCEPT ![r] = rg]
  BY DEF Timeout
<1>5. PICK x \in Replacements(EraseAll(ring[r], order), reports) :
        ring' = [ring EXCEPT ![r] = x]
  BY <1>4
<1>6. order \in Seq(Nodes) /\ Injective(order) /\ Elems(order) = Silent(r)
  <2>1. Silent(r) \subseteq Nodes /\ IsFiniteSet(Silent(r))
    BY <1>2, <1>3, FS_Subset
  <2> QED BY <1>4, <2>1, OrderFacts
<1>7. /\ WellFormed(EraseAll(ring[r], order))
      /\ Members(EraseAll(ring[r], order)) = Members(ring[r]) \ Silent(r)
  BY <1>1, <1>3, <1>6, EraseAllFacts
<1>8. DOMAIN reports \subseteq Nodes /\ IsFiniteSet(DOMAIN reports)
  <2>1. DOMAIN reports \subseteq Members(ring[r])
    BY <1>3 DEF Without
  <2> QED BY <1>2, <2>1, FS_Subset
<1> HIDE DEF reports
<1>9. WellFormed(x) /\ Members(x) = Members(ring[r]) \ Silent(r)
  BY <1>5, <1>7, <1>8, ReplacementFacts
<1> QED BY <1>3, <1>5, <1>9

\* A ring that has lost the nodes whose latencies are erased with them.
LEMMA RingReplaced ==
  ASSUME IInv, NEW r \in Rings, NEW gone \in SUBSET Members(ring[r]),
         NEW x, WellFormed(x), Members(x) = Members(ring[r]) \ gone,
         ring' = [ring EXCEPT ![r] = x],
         ringFrozen' \in [Rings -> BOOLEAN],
         rendvMapping' \in [Nodes -> Rendvs \cup {NoRendv}],
         nodeLatencyUS' = [n \in Nodes |->
           IF n \in gone THEN Absent ELSE nodeLatencyUS[n]]
  PROVE  IInv'
<1> USE DEF IInv
<1>1. x \in RingState
  BY DEF WellFormed
<1>2. nodeLatencyUS' \in [Nodes -> LatenciesUS \cup {Absent}]
  OBVIOUS
<1>3. \A q \in Rings : q # r => ring'[q] = ring[q]
  OBVIOUS
<1>4. ring'[r] = x
  OBVIOUS
<1>5. \A q \in Rings : Members(ring'[q]) = Members(ring[q]) \ gone
  <2> SUFFICES ASSUME NEW q \in Rings, q # r
               PROVE  Members(ring[q]) = Members(ring[q]) \ gone
    BY <1>3, <1>4
  <2>1. Members(ring[q]) \cap Members(ring[r]) = {}
    BY DEF RingsMatchLatencies
  <2> QED BY <2>1
<1>6. RingsMatchLatencies'
  <2> SUFFICES ASSUME NEW q \in Rings
               PROVE  Members(ring'[q]) =
                        {n \in Nodes : nodeLatencyUS'[n] # Absent /\
                                       getRingNumber(nodeLatencyUS'[n]) = q}
    BY DEF RingsMatchLatencies, Members, Elems
  <2>1. Members(ring[q]) =
          {n \in Nodes : nodeLatencyUS[n] # Absent /\ getRingNumber(nodeLatencyUS[n]) = q}
    BY DEF RingsMatchLatencies
  <2> QED BY <1>5, <2>1
<1>7. \A q \in Rings : WellFormed(ring'[q])
  BY <1>3, <1>4
<1>8. ring' \in [Rings -> RingState]
  BY <1>1
<1> QED BY <1>2, <1>6, <1>7, <1>8 DEF WellFormed, Distinct

\* The swaps on the way of performRingManagement change no membership.
LEMMA AllSwapped ==
  ASSUME IInv, ring' = [q \in Rings |-> AfterSwap(q)],
         ringFrozen' \in [Rings -> BOOLEAN],
         UNCHANGED <<nodeLatencyUS, rendvMapping>>
  PROVE  IInv'
<1> USE DEF IInv
<1>1. \A q \in Rings : WellFormed(ring'[q]) /\ Members(ring'[q]) = Members(ring[q])
  BY AfterSwapFacts
<1>2. ring' \in [Rings -> RingState]
  BY <1>1 DEF WellFormed
<1>3. RingsMatchLatencies'
  <2> SUFFICES ASSUME NEW q \in Rings
               PROVE  Members(ring'[q]) =
                        {n \in Nodes : nodeLatencyUS'[n] # Absent /\
                                       getRingNumber(nodeLatencyUS'[n]) = q}
    BY DEF RingsMatchLatencies, Members, Elems
  <2> QED BY <1>1 DEF RingsMatchLatencies
<1> QED BY <1>1, <1>2, <1>3 DEF WellFormed, Distinct

\* The invariant of the management queries holds at the start.
LEMMA InitQueryInv == ManageInit => QueryInv
BY InitIInv, InitDumpInv DEF ManageInit, QueryInv

\* Every handler keeps the rings consistent while it keeps the dumps current.
LEMMA NextQueryInv == QueryInv /\ [ManageNext]_manageVars => QueryInv'
<1> SUFFICES ASSUME QueryInv, [ManageNext]_manageVars PROVE IInv'
  BY NextDumpInv DEF QueryInv
<1>1. IInv /\ DumpInv
  BY DEF QueryInv
<1>2. CASE OtherQueries
  <2>1. Next
    BY <1>2 DEF OtherQueries, Next
  <2> QED BY <1>1, <2>1, NextIInv
<1>3. CASE NothingEligible
  BY <1>1, <1>3, AllSwapped DEF NothingEligible, IInv
<1>4. ASSUME NEW r \in Rings, StartQuery(r) PROVE IInv'
  <2>1. ringFrozen' \in [Rings -> BOOLEAN]
    BY <1>1, <1>4 DEF StartQuery, IInv
  <2> QED BY <1>1, <1>4, <2>1, AllSwapped DEF StartQuery
<1>5. ASSUME NEW r \in Rings, NEW n \in Nodes,
             NEW seen \in SUBSET (asked[r] \ {n}), Report(r, n, seen)
      PROVE  IInv'
  <2>1. UNCHANGED <<nodeLatencyUS, rendvMapping>>
    BY <1>5 DEF Report
  <2>2. CASE UNCHANGED <<ring, ringFrozen, managed>>
    <3>1. UNCHANGED ringVars
      BY <2>1, <2>2 DEF ringVars
    <3> QED BY <1>1, <3>1, NextIInv
  <2>3. CASE EndQuery(r) /\ \E x : /\ ring' = [ring EXCEPT ![r] = x]
                                   /\ WellFormed(x) /\ Members(x) = Members(ring[r])
    <3>1. PICK x : /\ ring' = [ring EXCEPT ![r] = x]
                   /\ WellFormed(x) /\ Members(x) = Members(ring[r])
      BY <2>3
    <3>2. ringFrozen' \in [Rings -> BOOLEAN]
      BY <1>1, <2>3 DEF EndQuery, IInv
    <3>3. rendvMapping' \in [Nodes -> Rendvs \cup {NoRendv}]
      BY <1>1, <2>1 DEF IInv
    <3>4. nodeLatencyUS' = [m \in Nodes |->
            IF m \in {} THEN Absent ELSE nodeLatencyUS[m]]
      BY <1>1, <2>1 DEF IInv
    <3>5. {} \in SUBSET Members(ring[r]) /\ Members(x) = Members(ring[r]) \ {}
      BY <3>1
    <3> QED BY <1>1, <3>1, <3>2, <3>3, <3>4, <3>5, RingReplaced
  <2> QED BY <1>5, <2>2, <2>3, ReportOutcome
<1>6. ASSUME NEW r \in Rings, Timeout(r) PROVE IInv'
  <2>1. PICK x : /\ ring' = [ring EXCEPT ![r] = x] /\ WellFormed(x)
                 /\ Members(x) = Members(ring[r]) \ Silent(r)
    BY <1>6, TimeoutOutcome
  <2>2. Silent(r) \in SUBSET Members(ring[r])
    BY <1>6, TimeoutOutcome
  <2>3. ringFrozen' \in [Rings -> BOOLEAN]
    BY <1>1, <1>6 DEF Timeout, EndQuery, IInv
  <2>4. /\ rendvMapping' \in [Nodes -> Rendvs \cup {NoRendv}]
        /\ nodeLatencyUS' = [n \in Nodes |->
             IF n \in Silent(r) THEN Absent ELSE nodeLatencyUS[n]]
    BY <1>1, <1>6 DEF Timeout, IInv
  <2> QED BY <1>1, <2>1, <2>2, <2>3, <2>4, RingReplaced
<1>7. CASE UNCHANGED manageVars
  <2>1. UNCHANGED ringVars
    BY <1>7 DEF manageVars
  <2> QED BY <1>1, <2>1, NextIInv
<1> QED BY <1>2, <1>3, <1>4, <1>5, <1>6, <1>7 DEF ManageNext, performRingManagement

\* The inductive invariant of ring management.
THEOREM QueriesInvariant == ManageSpec => []QueryInv
BY InitQueryInv, NextQueryInv, PTL DEF ManageSpec

\* The asserts of RingSet.cpp:50,135,152 hold with the queries at work, too:
\* partial reports, dropped candidates, replacements and evictions leave every
\* ring typed, without duplicates, its primaries filled first, and holding
\* just the nodes whose stored latency selects it.
THEOREM RingsStayConsistent == ManageSpec => []RingsConsistent
<1>1. ASSUME QueryInv PROVE RingsConsistent
  <2> USE <1>1 DEF QueryInv
  <2>1. TypeOK /\ RingsMatchLatencies /\ NoDuplicates /\ PrimaryFilledFirst
    BY DEF IInv, TypeOK, WellFormed, NoDuplicates, PrimaryFilledFirst
  <2>2. \A r \in Rings : Members(ring[r]) \subseteq Nodes
    BY MembersFinite DEF IInv
  <2>3. \A r \in Rings : /\ asked[r] \subseteq remoteNodes[r]
                         /\ remoteNodes[r] \subseteq Nodes
                         /\ DOMAIN RetNodeMap[r] \subseteq Nodes
    BY <2>2 DEF DumpInv, Shaped, DumpStaysCurrent
  <2>4. remoteNodes \in [Rings -> SUBSET Nodes] /\ asked \in [Rings -> SUBSET Nodes]
    BY <2>3 DEF DumpInv, Shaped
  <2>5. managed \subseteq Rings
    BY DEF DumpInv, Shaped
  <2> QED BY <2>1, <2>3, <2>4, <2>5 DEF RingsConsistent, ManageTypeOK
<1> QED BY <1>1, QueriesInvariant, PTL

\* The end of a query loses no member that reported, on time or in part: the
\* loops of performReplacement and handleTimeout only reach the silent ones.
THEOREM ReportersAlwaysStay == ManageSpec => ReportersStay
<1> DEFINE Stay == \A r \in managed \ managed' :
                     DOMAIN RetNodeMap[r] \subseteq Members(ring'[r])
<1>1. ASSUME QueryInv, [ManageNext]_manageVars PROVE [Stay]_manageVars
  <2> SUFFICES ASSUME ManageNext, NEW r \in managed \ managed'
               PROVE  DOMAIN RetNodeMap[r] \subseteq Members(ring'[r])
    BY <1>1
  <2>1. /\ r \in Rings /\ ring = [q \in Rings |-> ring[q]]
        /\ DOMAIN RetNodeMap[r] \subseteq Members(ring[r])
    BY <1>1 DEF QueryInv, DumpInv, Shaped, DumpStaysCurrent
  <2>2. CASE OtherQueries
    BY <2>2 DEF OtherQueries, queryVars
  <2>3. CASE performRingManagement
    BY <2>3 DEF performRingManagement, NothingEligible, StartQuery, queryVars
  <2>4. ASSUME NEW q \in Rings, NEW n \in Nodes, NEW seen, Report(q, n, seen)
        PROVE  DOMAIN RetNodeMap[r] \subseteq Members(ring'[r])
    <3>1. EndQuery(q)
      BY <1>1, <2>4, ReportOutcome
    <3>2. q = r
      BY <3>1 DEF EndQuery
    <3>3. \E x : /\ ring' = [ring EXCEPT ![q] = x] /\ Members(x) = Members(ring[q])
      BY <1>1, <2>4, ReportOutcome
    <3>4. Members(ring'[r]) = Members(ring[r])
      BY <2>1, <3>2, <3>3
    <3> QED BY <2>1, <3>4
  <2>5. ASSUME NEW q \in Rings, Timeout(q)
        PROVE  DOMAIN RetNodeMap[r] \subseteq Members(ring'[r])
    <3>1. q = r
      BY <2>5 DEF Timeout, EndQuery
    <3>2. PICK x : /\ ring' = [ring EXCEPT ![q] = x]
                   /\ Members(x) = Members(ring[q]) \ Silent(q)
      BY <1>1, <2>5, TimeoutOutcome
    <3>3. DOMAIN RetNodeMap[q] \subseteq Members(ring[q]) \ Silent(q)
      BY <1>1, <2>5, TimeoutOutcome
    <3>4. Members(ring'[r]) = Members(ring[r]) \ Silent(r)
      BY <2>1, <3>1, <3>2
    <3> QED BY <3>1, <3>3, <3>4
  <2> QED BY <2>2, <2>3, <2>4, <2>5 DEF ManageNext
<1> QED BY <1>1, QueriesInvariant, PTL DEF ManageSpec, ReportersStay

\* No silent member is left in the ring of a query that timed out: the ring
\* is thawed before eraseNode is called (Query.cpp:397), and neither a
\* promotion nor the replacement brings one back.
THEOREM SilentAlwaysLeave == ManageSpec => SilentLeave
<1> DEFINE Leave == \A r \in Rings :
                      Timeout(r) => Silent(r) \cap Members(ring'[r]) = {}
<1>1. ASSUME QueryInv PROVE Leave
  <2> SUFFICES ASSUME NEW r \in Rings, Timeout(r)
               PROVE  Silent(r) \cap Members(ring'[r]) = {}
    OBVIOUS
  <2>1. PICK x : /\ ring' = [ring EXCEPT ![r] = x]
                 /\ Members(x) = Members(ring[r]) \ Silent(r)
    BY <1>1, TimeoutOutcome
  <2>2. ring'[r] = x
    BY <1>1, <2>1 DEF QueryInv, DumpInv, Shaped
  <2> QED BY <2>1, <2>2
<1> QED BY <1>1, QueriesInvariant, PTL DEF SilentLeave
=============================================================================
