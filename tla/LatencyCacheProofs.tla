------------------------ MODULE LatencyCacheProofs ------------------------
(***************************************************************************)
(* Proofs about LatencyCache, for any nodes, clock, period and bound: the  *)
(* two maps stay in step, the bound holds, and the class implements        *)
(* BoundedCache.                                                           *)
(***************************************************************************)
EXTENDS LatencyCache, FiniteSetTheorems, TLAPS

Injective(s) == \A i, j \in 1 .. Len(s) : s[i] = s[j] => i = j

\* A cache as the operations keep it.
Sound(c) == c \in CacheState /\ InStep(c)

----------------------------------------------------------------------------
(* Lemmas on numbers and vectors *)

\* A set of times has an earliest one.
LEMMA EarliestExists ==
  ASSUME NEW T, T \subseteq Nat, T # {}
  PROVE  \E x \in T : \A y \in T : x <= y
<1> DEFINE R == OpToRel(<, Nat)
<1>1. IsWellFoundedOn(R, Nat)
  BY NatLessThanWellFounded
<1> HIDE DEF R
<1>2. PICK x \in T : \A y \in T : ~ (<<y, x>> \in R)
  BY <1>1, WFMin
<1>3. ASSUME NEW y \in T
      PROVE  x <= y
  <2>1. x \in Nat /\ y \in Nat
    BY <1>2
  <2>2. ~ (<<y, x>> \in R)
    BY <1>2
  <2>3. <<y, x>> \in R <=> y < x
    BY <2>1 DEF OpToRel, R
  <2> QED BY <2>1, <2>2, <2>3
<1> QED BY <1>2, <1>3

\* eraseEntry's loop removes the node from a vector and nothing else.
LEMMA VectorEraseFacts ==
  ASSUME NEW v \in Seq(Nodes), NEW n, Injective(v)
  PROVE  /\ VectorErase(v, n) \in Seq(Nodes)
         /\ Injective(VectorErase(v, n))
         /\ Elems(VectorErase(v, n)) = Elems(v) \ {n}
<1>1. CASE n \notin Elems(v)
  BY <1>1 DEF VectorErase
<1>2. CASE n \in Elems(v)
  <2> DEFINE at == CHOOSE i \in 1 .. Len(v) : v[i] = n
             t  == VectorErase(v, n)
  <2>1. at \in 1 .. Len(v) /\ v[at] = n
    BY <1>2 DEF Elems
  <2>2. Len(v) \in Nat /\ Len(v) >= 1
    BY <2>1
  <2>3. t = [k \in 1 .. Len(v) - 1 |-> IF k = at THEN v[Len(v)] ELSE v[k]]
    BY <1>2 DEF VectorErase
  <2> HIDE DEF at, t
  <2>4. t \in Seq(Nodes) /\ Len(t) = Len(v) - 1
    BY <2>2, <2>3
  <2>5. \A k \in 1 .. Len(v) - 1 : t[k] = IF k = at THEN v[Len(v)] ELSE v[k]
    BY <2>3
  <2>6. Injective(t)
    BY <2>1, <2>2, <2>4, <2>5 DEF Injective
  <2>7. Elems(t) \subseteq Elems(v) \ {n}
    BY <2>1, <2>2, <2>4, <2>5 DEF Elems, Injective
  <2>8. ASSUME NEW k \in 1 .. Len(v), v[k] # n
        PROVE  v[k] \in Elems(t)
    <3>1. CASE k < Len(v)
      <4>1. k \in 1 .. Len(t) /\ t[k] = v[k]
        BY <2>1, <2>4, <2>5, <2>8, <3>1
      <4> QED BY <4>1 DEF Elems
    <3>2. CASE k = Len(v)
      <4>1. at \in 1 .. Len(t) /\ t[at] = v[k]
        BY <2>1, <2>2, <2>4, <2>5, <2>8, <3>2
      <4> QED BY <4>1 DEF Elems
    <3> QED BY <2>2, <3>1, <3>2
  <2>9. Elems(v) \ {n} \subseteq Elems(t)
    BY <2>8 DEF Elems
  <2> QED BY <2>4, <2>6, <2>7, <2>9 DEF t
<1> QED BY <1>1, <1>2

\* push_back adds its argument at the end.
LEMMA AppendFacts ==
  ASSUME NEW s \in Seq(Nodes), NEW n \in Nodes
  PROVE  /\ Append(s, n) \in Seq(Nodes)
         /\ Elems(Append(s, n)) = Elems(s) \cup {n}
         /\ Injective(s) /\ n \notin Elems(s) => Injective(Append(s, n))
<1> DEFINE t == Append(s, n)
<1>1. Len(s) \in Nat /\ t \in Seq(Nodes) /\ Len(t) = Len(s) + 1
  OBVIOUS
<1>2. \A k \in 1 .. Len(s) : t[k] = s[k]
  OBVIOUS
<1>3. t[Len(s) + 1] = n
  OBVIOUS
<1>4. Elems(t) \subseteq Elems(s) \cup {n}
  BY <1>1, <1>2, <1>3 DEF Elems
<1>5. Elems(s) \cup {n} \subseteq Elems(t)
  BY <1>1, <1>2, <1>3 DEF Elems
<1>6. ASSUME Injective(s), n \notin Elems(s)
      PROVE  Injective(t)
  <2>1. \A k \in 1 .. Len(s) : s[k] # n
    BY <1>6 DEF Elems
  <2> QED BY <1>1, <1>2, <1>3, <1>6, <2>1 DEF Injective
<1> QED BY <1>1, <1>4, <1>5, <1>6

----------------------------------------------------------------------------
(* Lemmas on the steps of an operation *)

\* An entry is not None, so a node that holds one has a time and a latency.
LEMMA EntryFacts ==
  ASSUME NEW c, Sound(c), NEW n \in Nodes, c.latencyMap[n] # None
  PROVE  c.latencyMap[n] \in Entry /\ c.latencyMap[n].timeout \in Timeouts
BY DEF Sound, CacheState, Entry

\* Every time of an entry is a natural number.
LEMMA TimeoutsAreNat == Timeouts \subseteq Nat
BY LatencyCacheAssumption DEF Timeouts

\* eraseEntry removes one node from both maps.
LEMMA EraseEntryFacts ==
  ASSUME NEW c, Sound(c), NEW n \in Nodes
  PROVE  /\ Sound(EraseEntry(c, n))
         /\ EraseEntry(c, n).latencyMap = [c.latencyMap EXCEPT ![n] = None]
<1> DEFINE e == EraseEntry(c, n)
           lm == c.latencyMap
           tm == c.timeoutMap
           to == lm[n].timeout
<1>1. lm \in [Nodes -> Entry \cup {None}] /\ tm \in [Timeouts -> Seq(Nodes)]
  BY DEF Sound, CacheState
<1>2. CASE lm[n] = None
  <2>1. e = c
    BY <1>2 DEF EraseEntry
  <2>2. lm = [lm EXCEPT ![n] = None]
    BY <1>1, <1>2
  <2> QED BY <2>1, <2>2
<1>3. CASE lm[n] # None
  <2> DEFINE v == VectorErase(tm[to], n)
  <2>1. to \in Timeouts
    BY <1>3, EntryFacts
  <2>2. e = [latencyMap |-> [lm EXCEPT ![n] = None],
             timeoutMap |-> [tm EXCEPT ![to] = v]]
    BY <1>3 DEF EraseEntry
  <2>3. \A t \in Timeouts : Injective(tm[t])
    BY DEF Sound, InStep, Injective
  <2>4. v \in Seq(Nodes) /\ Injective(v) /\ Elems(v) = Elems(tm[to]) \ {n}
    BY <1>1, <2>1, <2>3, VectorEraseFacts
  <2> HIDE DEF v, to
  <2>5. e \in CacheState
    <3>1. [lm EXCEPT ![n] = None] \in [Nodes -> Entry \cup {None}]
      BY <1>1
    <3>2. [tm EXCEPT ![to] = v] \in [Timeouts -> Seq(Nodes)]
      BY <1>1, <2>4
    <3> HIDE DEF e
    <3> QED BY <2>2, <3>1, <3>2 DEF CacheState
  <2>6. /\ \A t \in Timeouts : e.timeoutMap[t] = IF t = to THEN v ELSE tm[t]
        /\ \A m \in Nodes : e.latencyMap[m] = IF m = n THEN None ELSE lm[m]
    BY <1>1, <2>2
  <2> HIDE DEF e
  <2>7. ASSUME NEW m \in Nodes, NEW t \in Timeouts
        PROVE  m \in Elems(e.timeoutMap[t]) <=>
                 e.latencyMap[m] # None /\ e.latencyMap[m].timeout = t
    <3>1. m \in Elems(tm[t]) <=> lm[m] # None /\ lm[m].timeout = t
      BY DEF Sound, InStep
    <3>2. n \in Elems(tm[t]) <=> t = to
      BY <1>3 DEF Sound, InStep, to
    <3> QED BY <2>4, <2>6, <3>1, <3>2
  <2>8. \A t \in Timeouts : Injective(e.timeoutMap[t])
    BY <2>3, <2>4, <2>6
  <2>9. InStep(e)
    BY <2>7, <2>8 DEF InStep, Injective
  <2> QED BY <2>2, <2>5, <2>9 DEF Sound, e
<1> QED BY <1>2, <1>3

\* The head of the first vector is an entry that ends first.
LEMMA FirstFacts ==
  ASSUME NEW c, Sound(c), Held(c) # {}
  PROVE  LET v == Head(c.timeoutMap[FirstTimeout(c)])
         IN  /\ v \in Held(c)
             /\ \A m \in Held(c) : c.latencyMap[v].timeout <= c.latencyMap[m].timeout
<1> DEFINE tm == c.timeoutMap
           T == {t \in Timeouts : tm[t] # <<>>}
           first == FirstTimeout(c)
           v == Head(tm[first])
<1>1. tm \in [Timeouts -> Seq(Nodes)] /\ T \subseteq Nat
  BY TimeoutsAreNat DEF Sound, CacheState
<1>2. \A m \in Held(c) : c.latencyMap[m].timeout \in T
  <2> SUFFICES ASSUME NEW m \in Held(c)
               PROVE  c.latencyMap[m].timeout \in T
    OBVIOUS
  <2>1. m \in Nodes /\ c.latencyMap[m] # None
    BY DEF Held
  <2>2. c.latencyMap[m].timeout \in Timeouts
    BY <2>1, EntryFacts
  <2>3. m \in Elems(tm[c.latencyMap[m].timeout])
    BY <2>1, <2>2 DEF Sound, InStep
  <2> QED BY <2>2, <2>3 DEF Elems
<1>3. T # {}
  BY <1>2
<1>4. \E t \in T : \A u \in T : t <= u
  BY <1>1, <1>3, EarliestExists
<1>5. first \in T /\ \A u \in T : first <= u
  BY <1>4 DEF FirstTimeout
<1> HIDE DEF first
<1>6. v \in Nodes /\ v \in Elems(tm[first])
  BY <1>1, <1>5 DEF Elems
<1>7. c.latencyMap[v] # None /\ c.latencyMap[v].timeout = first
  BY <1>5, <1>6 DEF Sound, InStep
<1>8. v \in Held(c) /\ \A m \in Held(c) : c.latencyMap[v].timeout <= c.latencyMap[m].timeout
  BY <1>2, <1>5, <1>6, <1>7 DEF Held
<1> QED BY <1>8 DEF first

\* What making room for n may give up, as BoundedCache states it, and the
\* entries that are then left.
Sacrifices(c, n) ==
  IF Cardinality(Held(c) \ {n}) < MaxSize THEN {{}}
  ELSE {{v} : v \in {v \in Held(c) \ {n} :
          \A m \in Held(c) \ {n} :
            c.latencyMap[v].timeout <= c.latencyMap[m].timeout}}
Spared(c, n, out) ==
  [m \in Nodes |-> IF m \in out \cup {n} THEN None ELSE c.latencyMap[m]]

\* MakeRoom leaves no entry of n and gives up exactly what BoundedCache may.
LEMMA MakeRoomFacts ==
  ASSUME NEW c, Sound(c), NEW n \in Nodes, MaxSize # 0,
         Cardinality(Held(c)) <= MaxSize
  PROVE  LET d == MakeRoom(c, n)
         IN  /\ Sound(d)
             /\ d.latencyMap[n] = None
             /\ Cardinality(Held(d)) < MaxSize
             /\ \E out \in Sacrifices(c, n) : d.latencyMap = Spared(c, n, out)
<1> DEFINE left == EraseEntry(c, n)
           d == MakeRoom(c, n)
<1>1. Sound(left) /\ left.latencyMap = [c.latencyMap EXCEPT ![n] = None]
  BY EraseEntryFacts
<1>2. c.latencyMap \in [Nodes -> Entry \cup {None}]
  BY DEF Sound, CacheState
<1>3. left.latencyMap = [m \in Nodes |-> IF m = n THEN None ELSE c.latencyMap[m]]
  BY <1>1, <1>2
<1> HIDE DEF left
<1>4. Held(left) = Held(c) \ {n}
  BY <1>3 DEF Held
<1>5. /\ IsFiniteSet(Held(c)) /\ IsFiniteSet(Held(left))
      /\ Cardinality(Held(c)) \in Nat /\ Cardinality(Held(left)) \in Nat
      /\ Cardinality(Held(left)) <= Cardinality(Held(c))
  <2>1. Held(c) \subseteq Nodes /\ Held(left) \subseteq Held(c)
    BY <1>4 DEF Held
  <2>2. IsFiniteSet(Held(c))
    BY <2>1, FS_Subset, LatencyCacheAssumption
  <2>3. IsFiniteSet(Held(left)) /\ Cardinality(Held(left)) <= Cardinality(Held(c))
    BY <2>1, <2>2, FS_Subset
  <2> QED BY <2>2, <2>3, FS_CardinalityType
<1>6. MaxSize \in Nat /\ MaxSize > 0
  BY LatencyCacheAssumption
<1>7. CASE Cardinality(Held(left)) < MaxSize
  <2>1. d = left
    BY <1>5, <1>6, <1>7 DEF MakeRoom, left
  <2>2. d.latencyMap = Spared(c, n, {})
    BY <1>3, <2>1 DEF Spared
  <2>3. d.latencyMap[n] = None
    BY <2>2 DEF Spared
  <2> HIDE DEF d
  <2>4. {} \in Sacrifices(c, n)
    BY <1>4, <1>7 DEF Sacrifices
  <2> QED BY <1>1, <1>7, <2>1, <2>2, <2>3, <2>4 DEF d
<1>8. CASE ~(Cardinality(Held(left)) < MaxSize)
  <2> DEFINE v == Head(left.timeoutMap[FirstTimeout(left)])
  <2>1. d = EraseEntry(left, v)
    BY <1>5, <1>6, <1>8 DEF MakeRoom, left
  <2>2. Held(left) # {}
    BY <1>5, <1>6, <1>8, FS_EmptySet
  <2>3. /\ v \in Held(left)
        /\ \A m \in Held(left) : left.latencyMap[v].timeout <= left.latencyMap[m].timeout
    BY <1>1, <2>2, FirstFacts
  <2> HIDE DEF v
  <2>4. v \in Nodes /\ v # n /\ v \in Held(c) \ {n}
    BY <1>4, <2>3 DEF Held
  <2>5. Sound(d) /\ d.latencyMap = [left.latencyMap EXCEPT ![v] = None]
    BY <1>1, <2>1, <2>4, EraseEntryFacts
  <2> HIDE DEF d
  <2>6. d.latencyMap = [m \in Nodes |->
          IF m \in {v} \cup {n} THEN None ELSE c.latencyMap[m]]
    BY <1>3, <2>4, <2>5
  <2>7. \A m \in Held(c) \ {n} : c.latencyMap[v].timeout <= c.latencyMap[m].timeout
    <3> SUFFICES ASSUME NEW m \in Held(c) \ {n}
                 PROVE  c.latencyMap[v].timeout <= c.latencyMap[m].timeout
      OBVIOUS
    <3>1. m \in Nodes /\ m \in Held(left)
      BY <1>4 DEF Held
    <3>2. left.latencyMap[v] = c.latencyMap[v] /\ left.latencyMap[m] = c.latencyMap[m]
      BY <1>3, <2>4, <3>1
    <3> QED BY <2>3, <3>1, <3>2
  <2>8. Held(d) = Held(left) \ {v}
    BY <1>3, <1>4, <2>4, <2>6 DEF Held
  <2>9. Cardinality(Held(d)) = Cardinality(Held(left)) - 1
    BY <1>5, <2>3, <2>8, FS_RemoveElement
  <2>10. Cardinality(Held(d)) < MaxSize
    <3>1. Cardinality(Held(left)) <= MaxSize
      BY <1>5, <1>6
    <3> QED BY <1>5, <1>6, <2>9, <3>1
  <2>11. d.latencyMap[n] = None
    BY <2>6
  <2>12. {v} \in Sacrifices(c, n)
    BY <1>4, <1>8, <2>4, <2>7 DEF Sacrifices
  <2>13. d.latencyMap = Spared(c, n, {v})
    BY <2>6 DEF Spared
  <2> QED BY <2>5, <2>10, <2>11, <2>12, <2>13 DEF d
<1> QED BY <1>7, <1>8

\* The new entry goes into both maps.
LEMMA AddEntryFacts ==
  ASSUME NEW c, Sound(c), NEW n \in Nodes, c.latencyMap[n] = None,
         NEW to \in Timeouts, NEW l \in LatenciesUS
  PROVE  LET e == AddEntry(c, n, to, l)
         IN  /\ Sound(e)
             /\ e.latencyMap = [c.latencyMap EXCEPT ![n] =
                                 [timeout |-> to, latencyUS |-> l]]
             /\ Held(e) = Held(c) \cup {n}
<1> DEFINE e == AddEntry(c, n, to, l)
           lm == c.latencyMap
           tm == c.timeoutMap
           new == [timeout |-> to, latencyUS |-> l]
           v == Append(tm[to], n)
<1>1. lm \in [Nodes -> Entry \cup {None}] /\ tm \in [Timeouts -> Seq(Nodes)]
  BY DEF Sound, CacheState
<1>2. new \in Entry /\ new.timeout = to
  BY DEF Entry
<1>3. new # None
  BY <1>2, LatencyCacheAssumption DEF Entry, Timeouts
<1>4. e = [latencyMap |-> [lm EXCEPT ![n] = new],
           timeoutMap |-> [tm EXCEPT ![to] = v]]
  BY DEF AddEntry
<1>5. \A t \in Timeouts : n \notin Elems(tm[t])
  BY DEF Sound, InStep
<1>6. \A t \in Timeouts : Injective(tm[t])
  BY DEF Sound, InStep, Injective
<1>7. v \in Seq(Nodes) /\ Elems(v) = Elems(tm[to]) \cup {n} /\ Injective(v)
  BY <1>1, <1>5, <1>6, AppendFacts
<1> HIDE DEF new, v, e
<1>8. [lm EXCEPT ![n] = new] \in [Nodes -> Entry \cup {None}]
  BY <1>1, <1>2
<1>9. [tm EXCEPT ![to] = v] \in [Timeouts -> Seq(Nodes)]
  BY <1>1, <1>7
<1>10. e \in CacheState
  BY <1>4, <1>8, <1>9 DEF CacheState
<1>11. /\ \A t \in Timeouts : e.timeoutMap[t] = IF t = to THEN v ELSE tm[t]
       /\ \A m \in Nodes : e.latencyMap[m] = IF m = n THEN new ELSE lm[m]
  BY <1>1, <1>4
<1>12. ASSUME NEW m \in Nodes, NEW t \in Timeouts
       PROVE  m \in Elems(e.timeoutMap[t]) <=>
                e.latencyMap[m] # None /\ e.latencyMap[m].timeout = t
  <2>1. m \in Elems(tm[t]) <=> lm[m] # None /\ lm[m].timeout = t
    BY DEF Sound, InStep
  <2> QED BY <1>2, <1>3, <1>5, <1>7, <1>11, <2>1
<1>13. \A t \in Timeouts : Injective(e.timeoutMap[t])
  BY <1>6, <1>7, <1>11
<1>14. InStep(e)
  BY <1>12, <1>13 DEF InStep, Injective
<1>15. Held(e) = Held(c) \cup {n}
  BY <1>3, <1>11 DEF Held
<1>16. e.latencyMap = [lm EXCEPT ![n] = new]
  BY <1>4
<1> QED BY <1>10, <1>14, <1>15, <1>16 DEF Sound, e, new

----------------------------------------------------------------------------
(* The invariant and the refinement *)

IInv == CacheTypeOK /\ Mirrored /\ Bounded

\* The invariant holds at the start.
LEMMA InitIInv == Init => IInv
<1> SUFFICES ASSUME Init
             PROVE  IInv
  OBVIOUS
<1>1. CacheTypeOK
  BY DEF Init, CacheTypeOK, CacheState
<1>2. Mirrored
  BY DEF Init, Mirrored, InStep, Elems
<1>3. Held(cache) = {}
  BY DEF Init, Held
<1>4. Bounded
  BY <1>3, FS_EmptySet, LatencyCacheAssumption DEF Bounded
<1> QED BY <1>1, <1>2, <1>4 DEF IInv

\* insertMeasurement, seen as a step of both levels.
LEMMA InsertStep ==
  ASSUME IInv, NEW n \in Nodes, NEW l \in LatenciesUS, insertMeasurement(n, l)
  PROVE  IInv' /\ Abstract!Measure(n, l)
<1> DEFINE d == MakeRoom(cache, n)
           to == clock + Period
           new == [timeout |-> to, latencyUS |-> l]
<1>1. Sound(cache) /\ Cardinality(Held(cache)) <= MaxSize /\ MaxSize # 0
  BY DEF IInv, CacheTypeOK, Mirrored, Bounded, Sound, insertMeasurement
<1>2. /\ Sound(d) /\ d.latencyMap[n] = None
      /\ Cardinality(Held(d)) < MaxSize
  BY <1>1, MakeRoomFacts
<1>3. PICK out \in Sacrifices(cache, n) : d.latencyMap = Spared(cache, n, out)
  BY <1>1, MakeRoomFacts
<1>4. to \in Timeouts
  BY DEF Timeouts, IInv, CacheTypeOK
<1>5. cache' = AddEntry(d, n, to, l) /\ clock' = clock
  BY DEF insertMeasurement
<1> HIDE DEF d, to
<1>6. /\ Sound(cache')
      /\ cache'.latencyMap = [d.latencyMap EXCEPT ![n] = new]
      /\ Held(cache') = Held(d) \cup {n}
  BY <1>2, <1>4, <1>5, AddEntryFacts
<1>7. Bounded'
  <2>1. IsFiniteSet(Held(d)) /\ Cardinality(Held(d)) \in Nat
    BY FS_Subset, FS_CardinalityType, LatencyCacheAssumption DEF Held
  <2>2. Cardinality(Held(d) \cup {n}) <= Cardinality(Held(d)) + 1
    <3>1. Cardinality(Held(d) \cup {n}) =
            IF n \in Held(d) THEN Cardinality(Held(d)) ELSE Cardinality(Held(d)) + 1
      BY <2>1, FS_AddElement
    <3> QED BY <2>1, <3>1
  <2>3. Cardinality(Held(d) \cup {n}) \in Nat
    BY <2>1, FS_AddElement, FS_CardinalityType
  <2>4. MaxSize \in Nat
    BY LatencyCacheAssumption
  <2>5. Cardinality(Held(d) \cup {n}) <= MaxSize
    BY <1>2, <2>1, <2>2, <2>3, <2>4
  <2> QED BY <1>6, <2>5 DEF Bounded
<1>8. IInv'
  BY <1>5, <1>6, <1>7 DEF IInv, CacheTypeOK, Mirrored, Sound
<1>9. cache'.latencyMap = [m \in Nodes |->
        IF m = n THEN new ELSE IF m \in out THEN None ELSE cache.latencyMap[m]]
  BY <1>3, <1>6 DEF Spared
<1>10. out \in Abstract!Victims(n)
  <2>1. Abstract!Held = Held(cache)
    BY DEF Abstract!Held, Held
  <2>2. Abstract!Cardinality(Held(cache) \ {n}) = Cardinality(Held(cache) \ {n})
    BY DEF Abstract!Cardinality, Cardinality
  <2> QED BY <1>3, <2>1, <2>2 DEF Abstract!Victims, Sacrifices
<1>11. MaxSize > 0
  BY <1>1, LatencyCacheAssumption
<1>12. Abstract!Measure(n, l)
  BY <1>5, <1>9, <1>10, <1>11 DEF Abstract!Measure, to
<1> QED BY <1>8, <1>12

\* eraseEntry, seen as a step of both levels.
LEMMA EraseStep ==
  ASSUME IInv, NEW n \in Nodes, eraseEntry(n)
  PROVE  IInv' /\ Abstract!Forget(n)
<1>1. Sound(cache)
  BY DEF IInv, CacheTypeOK, Mirrored, Sound
<1>2. cache' = EraseEntry(cache, n) /\ clock' = clock
  BY DEF eraseEntry
<1>3. Sound(cache') /\ cache'.latencyMap = [cache.latencyMap EXCEPT ![n] = None]
  BY <1>1, <1>2, EraseEntryFacts
<1>4. Held(cache') \subseteq Held(cache)
  BY <1>1, <1>3 DEF Held, Sound, CacheState
<1>5. Bounded'
  <2>1. IsFiniteSet(Held(cache))
    BY FS_Subset, LatencyCacheAssumption DEF Held
  <2>2. /\ IsFiniteSet(Held(cache'))
        /\ Cardinality(Held(cache')) <= Cardinality(Held(cache))
    BY <1>4, <2>1, FS_Subset
  <2>3. /\ Cardinality(Held(cache')) \in Nat /\ Cardinality(Held(cache)) \in Nat
        /\ MaxSize \in Nat
    BY <2>1, <2>2, FS_CardinalityType, LatencyCacheAssumption
  <2> QED BY <2>2, <2>3 DEF IInv, Bounded
<1>6. IInv'
  BY <1>2, <1>3, <1>5 DEF IInv, CacheTypeOK, Mirrored, Sound
<1>7. Abstract!Forget(n)
  BY <1>2, <1>3 DEF Abstract!Forget
<1> QED BY <1>6, <1>7

\* Every step keeps the invariant and is one of the abstract cache, or none.
LEMMA StepIInv == IInv /\ [Next]_cacheVars => IInv' /\ [Abstract!Next]_<<cache.latencyMap, clock>>
<1> SUFFICES ASSUME IInv, [Next]_cacheVars
             PROVE  IInv' /\ [Abstract!Next]_<<cache.latencyMap, clock>>
  OBVIOUS
<1>1. CASE \E n \in Nodes, l \in LatenciesUS : insertMeasurement(n, l)
  BY <1>1, InsertStep DEF Abstract!Next
<1>2. CASE \E n \in Nodes : eraseEntry(n)
  BY <1>2, EraseStep DEF Abstract!Next
<1>3. CASE SetClock
  BY <1>3 DEF SetClock, IInv, CacheTypeOK, Mirrored, Bounded, Abstract!Next,
              Abstract!SetClock
<1>4. CASE UNCHANGED cacheVars
  BY <1>4 DEF cacheVars, IInv, CacheTypeOK, Mirrored, Bounded
<1> QED BY <1>1, <1>2, <1>3, <1>4 DEF Next

\* Every reachable cache is typed, in step and bounded: the assert of
\* eraseEntry and those of the destructor can not fail.
THEOREM CacheInvariant == Spec => []IInv
<1>1. IInv /\ [Next]_cacheVars => IInv'
  BY StepIInv
<1> QED BY InitIInv, <1>1, PTL DEF Spec

\* The state of the two maps is always well formed.
THEOREM CacheTypeCorrect == Spec => []CacheTypeOK
<1>1. IInv => CacheTypeOK
  BY DEF IInv
<1> QED BY CacheInvariant, <1>1, PTL

\* latencyMap and timeoutMap hold the same nodes, with the same times.
THEOREM MapsStayMirrored == Spec => []Mirrored
<1>1. IInv => Mirrored
  BY DEF IInv
<1> QED BY CacheInvariant, <1>1, PTL

\* insertMeasurement never lets the cache outgrow PROBE_CACHE_SIZE.
THEOREM CacheStaysBounded == Spec => []Bounded
<1>1. IInv => Bounded
  BY DEF IInv
<1> QED BY CacheInvariant, <1>1, PTL

\* No assert of the class can fail and PROBE_CACHE_SIZE holds.
THEOREM CacheStaysConsistent == Spec => []CacheConsistent
BY CacheTypeCorrect, MapsStayMirrored, CacheStaysBounded, PTL DEF CacheConsistent

\* The class implements the bounded cache the probing queries expect: it
\* evicts only when full, and then an entry that ends first.
THEOREM CacheRefinement == Spec => ImplementsBoundedCache
<1>1. Init => Abstract!Init
  BY DEF Init, Abstract!Init
<1>2. IInv /\ [Next]_cacheVars => [Abstract!Next]_<<cache.latencyMap, clock>>
  BY StepIInv
<1> QED BY <1>1, <1>2, CacheInvariant, PTL
      DEF Spec, ImplementsBoundedCache, Abstract!Spec
===========================================================================
