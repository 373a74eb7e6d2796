-------------------------- MODULE QueryTableProofs --------------------------
(***************************************************************************)
(* Proofs about QueryTable, for any number of queries, ids and times: the  *)
(* two maps agree, and no handler runs on a query that has been deleted.   *)
(***************************************************************************)
EXTENDS QueryTable, TLAPS, SequenceTheorems

Heaps == [Queries -> QueryObject \cup {Unborn, Deleted}]

\* The maps of a table agree on the live queries of a heap, all of them but out.
SlotsAgree(tab, hp, out) ==
  \A id \in Ids : tab.byId[id] # NoSlot =>
    LET slot == tab.byId[id] IN
    /\ slot.query # out /\ hp[slot.query].state = "live" /\ hp[slot.query].id = id
    /\ \E i \in 1 .. Len(tab.byTime[slot.at]) : tab.byTime[slot.at][i] = slot.query
QueriesAgree(tab, hp, out) ==
  \A q \in Queries : hp[q].state = "live" /\ q # out => tab.byId[hp[q].id].query = q
VectorsAgree(tab, hp, out) ==
  \A t \in Times : \A i \in 1 .. Len(tab.byTime[t]) :
    LET q == tab.byTime[t][i] IN
    /\ q # out /\ hp[q].state = "live" /\ tab.byId[hp[q].id].at = t
    /\ \A j \in 1 .. Len(tab.byTime[t]) : tab.byTime[t][j] = q => i = j
Agree(tab, hp, out) ==
  SlotsAgree(tab, hp, out) /\ QueriesAgree(tab, hp, out) /\ VectorsAgree(tab, hp, out)

----------------------------------------------------------------------------
(* Types *)

\* None is neither a query nor an id.
LEMMA NoneIsNew == None \notin Queries /\ None \notin Ids
BY QueryTableAssumption DEF Queries

\* The fields of a query that is alive.
LEMMA ObjectTypes ==
  ASSUME NEW hp \in Heaps, NEW q \in Queries, hp[q].state = "live"
  PROVE  /\ hp[q] \in QueryObject /\ hp[q] # Unborn /\ hp[q] # Deleted
         /\ hp[q].id \in Ids /\ hp[q].role \in Roles /\ hp[q].subscriber \in Ids \cup {None}
<1>1. hp[q] \in QueryObject \cup {Unborn, Deleted}
  BY DEF Heaps
<1>2. Unborn.state = "unborn" /\ Deleted.state = "deleted"
  BY DEF Unborn, Deleted
<1>3. hp[q] \in QueryObject
  BY <1>1, <1>2
<1> QED BY <1>2, <1>3 DEF QueryObject

\* The slots of the table by id.
LEMMA SlotTypes ==
  ASSUME NEW tab \in TableState, NEW id \in Ids
  PROVE  /\ tab.byId[id].at \in Times
         /\ tab.byId[id] # NoSlot => tab.byId[id].query \in Queries
         /\ tab.byId[id].query \in Queries => tab.byId[id] # NoSlot
<1>1. tab.byId[id] \in Slot /\ NoSlot.query = None /\ NoSlot.at = 0 /\ 0 \in Times
  BY QueryTableAssumption DEF TableState, NoSlot, Times
<1> QED BY <1>1, NoneIsNew DEF Slot

\* The vectors of the table by time.
LEMMA VectorTypes ==
  ASSUME NEW tab \in TableState, NEW t \in Times
  PROVE  /\ tab.byTime[t] \in Seq(Queries) /\ Len(tab.byTime[t]) \in Nat
         /\ \A i \in 1 .. Len(tab.byTime[t]) : tab.byTime[t][i] \in Queries
BY DEF TableState

\* What VectorErase does to a vector that has an entry once.
LEMMA VectorEraseTakesOne ==
  ASSUME NEW v \in Seq(Queries), NEW at \in 1 .. Len(v),
         \A i, j \in 1 .. Len(v) : v[i] = v[j] => i = j
  PROVE  LET w == VectorErase(v, v[at]) IN
         /\ w \in Seq(Queries)
         /\ \A k \in 1 .. Len(w) : \E i \in 1 .. Len(v) : i # at /\ w[k] = v[i]
         /\ \A i \in 1 .. Len(v) : i # at => \E k \in 1 .. Len(w) : w[k] = v[i]
         /\ \A k, l \in 1 .. Len(w) : w[k] = w[l] => k = l
<1>1. (CHOOSE i \in 1 .. Len(v) : v[i] = v[at]) = at
  <2>1. \A i \in 1 .. Len(v) : v[i] = v[at] <=> i = at
    OBVIOUS
  <2> QED BY <2>1
<1> DEFINE w == [k \in 1 .. Len(v) - 1 |-> IF k = at THEN v[Len(v)] ELSE v[k]]
<1>2. VectorErase(v, v[at]) = w
  BY <1>1 DEF VectorErase
<1>3. Len(v) \in Nat /\ Len(v) >= 1 /\ \A i \in 1 .. Len(v) : v[i] \in Queries
  OBVIOUS
<1>4. w \in Seq(Queries) /\ Len(w) = Len(v) - 1
  BY <1>3
<1>5. \A k \in 1 .. Len(w) : w[k] = IF k = at THEN v[Len(v)] ELSE v[k]
  BY <1>4
<1> HIDE DEF w
<1>6. ASSUME NEW k \in 1 .. Len(w)
      PROVE  \E i \in 1 .. Len(v) : i # at /\ w[k] = v[i]
  <2>1. CASE k = at
    <3>1. Len(v) \in 1 .. Len(v) /\ Len(v) # at /\ w[k] = v[Len(v)]
      BY <1>3, <1>4, <1>5, <2>1
    <3> QED BY <3>1
  <2>2. CASE k # at
    <3>1. k \in 1 .. Len(v) /\ w[k] = v[k]
      BY <1>3, <1>4, <1>5, <2>2
    <3> QED BY <2>2, <3>1
  <2> QED BY <2>1, <2>2
<1>7. ASSUME NEW i \in 1 .. Len(v), i # at
      PROVE  \E k \in 1 .. Len(w) : w[k] = v[i]
  <2>1. CASE i = Len(v)
    <3>1. at \in 1 .. Len(w) /\ w[at] = v[i]
      BY <1>3, <1>4, <1>5, <1>7, <2>1
    <3> QED BY <3>1
  <2>2. CASE i # Len(v)
    <3>1. i \in 1 .. Len(w) /\ w[i] = v[i]
      BY <1>3, <1>4, <1>5, <1>7, <2>2
    <3> QED BY <3>1
  <2> QED BY <2>1, <2>2
<1>8. ASSUME NEW k \in 1 .. Len(w), NEW l \in 1 .. Len(w), w[k] = w[l]
      PROVE  k = l
  <2>1. k \in 1 .. Len(v) - 1 /\ l \in 1 .. Len(v) - 1 /\ Len(v) \in 1 .. Len(v)
    BY <1>3, <1>4
  <2>2. CASE k = at
    BY <1>5, <1>8, <2>1, <2>2
  <2>3. CASE l = at
    BY <1>5, <1>8, <2>1, <2>3
  <2>4. CASE k # at /\ l # at
    BY <1>5, <1>8, <2>1, <2>4
  <2> QED BY <2>2, <2>3, <2>4
<1> QED BY <1>2, <1>4, <1>6, <1>7, <1>8

----------------------------------------------------------------------------
(* Operations on the table *)

\* The two indices agree when a query has left both.
LEMMA RemoveAgrees ==
  ASSUME NEW tab \in TableState, NEW hp \in Heaps, Agree(tab, hp, None),
         NEW q \in Queries, hp[q].state = "live",
         NEW left, left = RemoveOldTimeout(tab, q, hp[q].id)
  PROVE  /\ left \in TableState /\ Agree(left, hp, q)
         /\ left.byId[hp[q].id] = NoSlot
         /\ \A id \in Ids : id # hp[q].id => left.byId[id] = tab.byId[id]
<1> DEFINE id == hp[q].id
           at == tab.byId[id].at
           v == tab.byTime[at]
           w == VectorErase(v, q)
<1>1. id \in Ids /\ q # None
  BY ObjectTypes, NoneIsNew
<1>2. tab.byId[id].query = q /\ tab.byId[id] # NoSlot /\ at \in Times
  BY <1>1, SlotTypes DEF Agree, QueriesAgree
<1>3. PICK pos \in 1 .. Len(v) : v[pos] = q
  <2>1. /\ tab.byId[id] # NoSlot /\ tab.byId[id].query = q /\ id \in Ids
    BY <1>1, <1>2
  <2>2. SlotsAgree(tab, hp, None)
    BY DEF Agree
  <2>3. \E i \in 1 .. Len(tab.byTime[tab.byId[id].at]) :
          tab.byTime[tab.byId[id].at][i] = tab.byId[id].query
    <3> HIDE DEF id
    <3> QED BY <2>1, <2>2 DEF SlotsAgree
  <2> QED BY <2>1, <2>3
<1>4. v \in Seq(Queries) /\ \A i, j \in 1 .. Len(v) : v[i] = v[j] => i = j
  <2>1. v \in Seq(Queries)
    BY <1>2, VectorTypes
  <2>2. VectorsAgree(tab, hp, None)
    BY DEF Agree
  <2>3. \A i \in 1 .. Len(v) : \A j \in 1 .. Len(v) : v[j] = v[i] => i = j
    <3>1. at \in Times /\ v = tab.byTime[at]
      BY <1>2
    <3> HIDE DEF at, v
    <3> QED BY <2>2, <3>1 DEF VectorsAgree
  <2> HIDE DEF v
  <2> QED BY <2>1, <2>3
<1>5. /\ w \in Seq(Queries)
      /\ \A k \in 1 .. Len(w) : \E i \in 1 .. Len(v) : i # pos /\ w[k] = v[i]
      /\ \A i \in 1 .. Len(v) : i # pos => \E k \in 1 .. Len(w) : w[k] = v[i]
      /\ \A k, l \in 1 .. Len(w) : w[k] = w[l] => k = l
  <2> DEFINE x == VectorErase(v, v[pos])
  <2>1. x = w
    BY <1>3
  <2> HIDE DEF v
  <2>2. /\ x \in Seq(Queries)
        /\ \A k \in 1 .. Len(x) : \E i \in 1 .. Len(v) : i # pos /\ x[k] = v[i]
        /\ \A i \in 1 .. Len(v) : i # pos => \E k \in 1 .. Len(x) : x[k] = v[i]
        /\ \A k, l \in 1 .. Len(x) : x[k] = x[l] => k = l
    BY <1>4, VectorEraseTakesOne
  <2> HIDE DEF x, w
  <2> QED BY <2>1, <2>2
<1>6. /\ left.byId = [tab.byId EXCEPT ![id] = NoSlot]
      /\ left.byTime = [tab.byTime EXCEPT ![at] = w]
      /\ left = [byId |-> left.byId, byTime |-> left.byTime]
  BY DEF RemoveOldTimeout
<1> HIDE DEF id, at, v, w
<1>7. /\ tab.byId \in [Ids -> Slot] /\ tab.byTime \in [Times -> Seq(Queries)]
      /\ NoSlot \in Slot
  BY DEF TableState, Slot
<1>8. left.byId \in [Ids -> Slot] /\ left.byTime \in [Times -> Seq(Queries)]
  <2>1. left.byId \in [Ids -> Slot]
    BY <1>6, <1>7
  <2>2. w \in Seq(Queries)
    BY <1>5
  <2>3. left.byTime \in [Times -> Seq(Queries)]
    BY <1>6, <1>7, <2>2
  <2> QED BY <2>1, <2>3
<1>9. left \in TableState
  BY <1>6, <1>8 DEF TableState
<1>10. /\ left.byId[id] = NoSlot
       /\ \A i \in Ids : i # id => left.byId[i] = tab.byId[i]
       /\ left.byTime[at] = w
       /\ \A t \in Times : t # at => left.byTime[t] = tab.byTime[t]
  BY <1>1, <1>2, <1>6, <1>7
<1>11. SlotsAgree(left, hp, q)
  <2> SUFFICES ASSUME NEW i \in Ids, left.byId[i] # NoSlot
               PROVE  LET slot == left.byId[i] IN
                      /\ slot.query # q /\ hp[slot.query].state = "live" /\ hp[slot.query].id = i
                      /\ \E k \in 1 .. Len(left.byTime[slot.at]) :
                           left.byTime[slot.at][k] = slot.query
    BY DEF SlotsAgree
  <2> DEFINE slot == tab.byId[i]
  <2>1. i # id /\ left.byId[i] = slot /\ slot # NoSlot /\ slot.at \in Times
    BY <1>10, SlotTypes
  <2>2. hp[slot.query].state = "live" /\ hp[slot.query].id = i
    BY <2>1 DEF Agree, SlotsAgree
  <2>3. slot.query # q
    BY <2>1, <2>2 DEF id
  <2>4. PICK k \in 1 .. Len(tab.byTime[slot.at]) : tab.byTime[slot.at][k] = slot.query
    BY <2>1 DEF Agree, SlotsAgree
  <2>5. \E l \in 1 .. Len(left.byTime[slot.at]) : left.byTime[slot.at][l] = slot.query
    <3>1. CASE slot.at = at
      <4>1. k \in 1 .. Len(v) /\ v[k] = slot.query
        BY <2>4, <3>1 DEF v
      <4>2. k # pos
        BY <1>3, <2>3, <4>1
      <4> QED BY <1>5, <1>10, <3>1, <4>1, <4>2
    <3>2. CASE slot.at # at
      BY <1>10, <2>1, <2>4, <3>2
    <3> QED BY <3>1, <3>2
  <2> QED BY <2>1, <2>2, <2>3, <2>5
<1>12. QueriesAgree(left, hp, q)
  <2> SUFFICES ASSUME NEW p \in Queries, hp[p].state = "live", p # q
               PROVE  left.byId[hp[p].id].query = p
    BY DEF QueriesAgree
  <2>1. tab.byId[hp[p].id].query = p /\ hp[p].id \in Ids
    BY NoneIsNew, ObjectTypes DEF Agree, QueriesAgree
  <2>2. hp[p].id # id
    BY <1>2, <2>1
  <2> QED BY <1>10, <2>1, <2>2
<1>13. VectorsAgree(left, hp, q)
  <2> SUFFICES ASSUME NEW t \in Times, NEW i \in 1 .. Len(left.byTime[t])
               PROVE  LET p == left.byTime[t][i] IN
                      /\ p # q /\ hp[p].state = "live" /\ left.byId[hp[p].id].at = t
                      /\ \A j \in 1 .. Len(left.byTime[t]) : left.byTime[t][j] = p => i = j
    BY DEF VectorsAgree
  <2> DEFINE p == left.byTime[t][i]
  <2>1. \E k \in 1 .. Len(tab.byTime[t]) : tab.byTime[t][k] = p
    <3>1. CASE t = at
      BY <1>5, <1>10, <3>1 DEF v
    <3>2. CASE t # at
      BY <1>10, <3>2
    <3> QED BY <3>1, <3>2
  <2>2. /\ p \in Queries /\ hp[p].state = "live" /\ tab.byId[hp[p].id].at = t
    <3> PICK k \in 1 .. Len(tab.byTime[t]) : tab.byTime[t][k] = p
      BY <2>1
    <3>1. tab.byTime[t][k] \in Queries
      BY VectorTypes
    <3>2. /\ hp[tab.byTime[t][k]].state = "live"
          /\ tab.byId[hp[tab.byTime[t][k]].id].at = t
      BY DEF Agree, VectorsAgree
    <3> HIDE DEF p
    <3> QED BY <3>1, <3>2
  <2>3. p # q
    <3> SUFFICES ASSUME p = q
                 PROVE  FALSE
      OBVIOUS
    <3>1. t = at
      BY <2>2 DEF at, id
    <3>2. PICK k \in 1 .. Len(v) : k # pos /\ p = v[k]
      BY <1>5, <1>10, <3>1
    <3> QED BY <1>3, <1>4, <3>2
  <2>4. hp[p].id \in Ids /\ hp[p].id # id
    <3>1. hp[p].id \in Ids /\ tab.byId[hp[p].id].query = p
      BY <2>2, NoneIsNew, ObjectTypes DEF Agree, QueriesAgree
    <3> QED BY <1>2, <2>3, <3>1
  <2>5. \A j \in 1 .. Len(left.byTime[t]) : left.byTime[t][j] = p => i = j
    <3>1. CASE t = at
      BY <1>5, <1>10, <3>1
    <3>2. CASE t # at
      <4>1. left.byTime[t] = tab.byTime[t]
        BY <1>10, <3>2
      <4> QED BY <4>1 DEF Agree, VectorsAgree
    <3> QED BY <3>1, <3>2
  <2> QED BY <1>10, <2>2, <2>3, <2>4, <2>5
<1> QED BY <1>9, <1>10, <1>11, <1>12, <1>13 DEF Agree, id

\* And when it has entered both.
LEMMA AddAgrees ==
  ASSUME NEW tab \in TableState, NEW hp \in Heaps,
         NEW q \in Queries, hp[q].state = "live", Agree(tab, hp, q),
         tab.byId[hp[q].id] = NoSlot, NEW at \in Times,
         NEW new, new = AddTimeout(tab, q, hp[q].id, at)
  PROVE  /\ new \in TableState /\ Agree(new, hp, None)
         /\ new.byId[hp[q].id] = [query |-> q, at |-> at]
         /\ \A id \in Ids : id # hp[q].id => new.byId[id] = tab.byId[id]
<1> DEFINE id == hp[q].id
           v == tab.byTime[at]
           w == Append(v, q)
           slotq == [query |-> q, at |-> at]
<1>1. id \in Ids /\ q # None
  BY ObjectTypes, NoneIsNew
<1>2. v \in Seq(Queries)
  BY VectorTypes
<1>3. /\ w \in Seq(Queries) /\ Len(w) = Len(v) + 1 /\ Len(v) \in Nat /\ w[Len(v) + 1] = q
      /\ \A i \in 1 .. Len(v) : w[i] = v[i]
  BY <1>2
<1>4. slotq \in Slot /\ slotq # NoSlot /\ slotq.query = q /\ slotq.at = at
  BY <1>1 DEF Slot, NoSlot
<1>5. /\ new.byId = [tab.byId EXCEPT ![id] = slotq]
      /\ new.byTime = [tab.byTime EXCEPT ![at] = w]
      /\ new = [byId |-> new.byId, byTime |-> new.byTime]
  BY DEF AddTimeout
<1> HIDE DEF id, v, w, slotq
<1>6. tab.byId \in [Ids -> Slot] /\ tab.byTime \in [Times -> Seq(Queries)]
  BY DEF TableState
<1>7. new.byId \in [Ids -> Slot] /\ new.byTime \in [Times -> Seq(Queries)]
  <2>1. new.byId \in [Ids -> Slot]
    BY <1>4, <1>5, <1>6
  <2>2. w \in Seq(Queries)
    BY <1>3
  <2>3. new.byTime \in [Times -> Seq(Queries)]
    BY <1>5, <1>6, <2>2
  <2> QED BY <2>1, <2>3
<1>8. new \in TableState
  BY <1>5, <1>7 DEF TableState
<1>9. /\ new.byId[id] = slotq
      /\ \A i \in Ids : i # id => new.byId[i] = tab.byId[i]
      /\ new.byTime[at] = w
      /\ \A t \in Times : t # at => new.byTime[t] = tab.byTime[t]
  BY <1>1, <1>5, <1>6
<1>10. \A t \in Times : \A i \in 1 .. Len(tab.byTime[t]) :
         i \in 1 .. Len(new.byTime[t]) /\ new.byTime[t][i] = tab.byTime[t][i]
  <2> SUFFICES ASSUME NEW t \in Times, NEW i \in 1 .. Len(tab.byTime[t])
               PROVE  i \in 1 .. Len(new.byTime[t]) /\ new.byTime[t][i] = tab.byTime[t][i]
    OBVIOUS
  <2>1. CASE t = at
    BY <1>3, <1>9, <2>1 DEF v
  <2>2. CASE t # at
    BY <1>9, <2>2
  <2> QED BY <2>1, <2>2
<1>11. SlotsAgree(new, hp, None)
  <2> SUFFICES ASSUME NEW i \in Ids, new.byId[i] # NoSlot
               PROVE  LET slot == new.byId[i] IN
                      /\ slot.query # None /\ hp[slot.query].state = "live" /\ hp[slot.query].id = i
                      /\ \E k \in 1 .. Len(new.byTime[slot.at]) :
                           new.byTime[slot.at][k] = slot.query
    BY DEF SlotsAgree
  <2>1. CASE i = id
    <3>1. Len(v) + 1 \in 1 .. Len(w) /\ w[Len(v) + 1] = q
      BY <1>3
    <3>2. \E k \in 1 .. Len(new.byTime[at]) : new.byTime[at][k] = q
      BY <1>9, <3>1
    <3>3. new.byId[i] = slotq /\ slotq.query = q /\ slotq.at = at
      BY <1>4, <1>9, <2>1
    <3>4. q # None /\ hp[q].state = "live" /\ hp[q].id = i
      BY <1>1, <2>1 DEF id
    <3> QED BY <3>2, <3>3, <3>4
  <2>2. CASE i # id
    <3> DEFINE slot == tab.byId[i]
    <3>1. new.byId[i] = slot /\ slot # NoSlot /\ slot.at \in Times /\ slot.query # None
      BY <1>9, <2>2, SlotTypes, NoneIsNew
    <3>2. hp[slot.query].state = "live" /\ hp[slot.query].id = i
      BY <3>1 DEF Agree, SlotsAgree
    <3>3. PICK k \in 1 .. Len(tab.byTime[slot.at]) : tab.byTime[slot.at][k] = slot.query
      BY <3>1 DEF Agree, SlotsAgree
    <3>4. \E l \in 1 .. Len(new.byTime[slot.at]) : new.byTime[slot.at][l] = slot.query
      BY <1>10, <3>1, <3>3
    <3> QED BY <3>1, <3>2, <3>4
  <2> QED BY <2>1, <2>2
<1>12. QueriesAgree(new, hp, None)
  <2> SUFFICES ASSUME NEW p \in Queries, hp[p].state = "live"
               PROVE  new.byId[hp[p].id].query = p
    BY DEF QueriesAgree
  <2>1. CASE p = q
    BY <1>4, <1>9, <2>1 DEF id
  <2>2. CASE p # q
    <3>1. tab.byId[hp[p].id].query = p /\ hp[p].id \in Ids
      BY <2>2, ObjectTypes DEF Agree, QueriesAgree
    <3>2. tab.byId[id].query \notin Queries
      BY <1>1, SlotTypes DEF id
    <3> QED BY <1>9, <3>1, <3>2
  <2> QED BY <2>1, <2>2
<1>13. VectorsAgree(new, hp, None)
  <2> SUFFICES ASSUME NEW t \in Times, NEW i \in 1 .. Len(new.byTime[t])
               PROVE  LET p == new.byTime[t][i] IN
                      /\ p # None /\ hp[p].state = "live" /\ new.byId[hp[p].id].at = t
                      /\ \A j \in 1 .. Len(new.byTime[t]) : new.byTime[t][j] = p => i = j
    BY DEF VectorsAgree
  <2>1. ASSUME NEW u \in Times, NEW k \in 1 .. Len(tab.byTime[u])
        PROVE  LET p == tab.byTime[u][k] IN
               /\ p \in Queries /\ p # q /\ hp[p].state = "live" /\ new.byId[hp[p].id].at = u
               /\ \A j \in 1 .. Len(tab.byTime[u]) : tab.byTime[u][j] = p => k = j
    <3> DEFINE p == tab.byTime[u][k]
    <3>1. /\ p \in Queries /\ p # q /\ hp[p].state = "live" /\ tab.byId[hp[p].id].at = u
          /\ \A j \in 1 .. Len(tab.byTime[u]) : tab.byTime[u][j] = p => k = j
      BY <2>1, VectorTypes DEF Agree, VectorsAgree
    <3>2. tab.byId[hp[p].id].query = p /\ hp[p].id \in Ids
      BY <3>1, ObjectTypes DEF Agree, QueriesAgree
    <3>3. hp[p].id # id
      BY <1>1, <3>1, <3>2, SlotTypes DEF id
    <3> QED BY <1>9, <3>1, <3>2, <3>3
  <2>2. CASE t # at
    <3>1. new.byTime[t] = tab.byTime[t]
      BY <1>9, <2>2
    <3>2. i \in 1 .. Len(tab.byTime[t])
      BY <3>1
    <3> DEFINE p == tab.byTime[t][i]
    <3>3. /\ p \in Queries /\ hp[p].state = "live" /\ new.byId[hp[p].id].at = t
          /\ \A j \in 1 .. Len(tab.byTime[t]) : tab.byTime[t][j] = p => i = j
      BY <2>1, <3>2
    <3>4. p # None
      BY <3>3, NoneIsNew
    <3> QED BY <3>1, <3>3, <3>4
  <2>3. CASE t = at
    <3>1. new.byTime[t] = w
      BY <1>9, <2>3
    <3>2. CASE i = Len(v) + 1
      <4>1. new.byTime[t][i] = q /\ new.byId[hp[q].id].at = t
        BY <1>3, <1>4, <1>9, <2>3, <3>1, <3>2 DEF id
      <4>2. ASSUME NEW j \in 1 .. Len(w), w[j] = q
            PROVE  j = Len(v) + 1
        <5> SUFFICES ASSUME j # Len(v) + 1
                     PROVE  FALSE
          OBVIOUS
        <5>1. j \in 1 .. Len(v) /\ v[j] = q
          BY <1>3, <4>2
        <5> QED BY <2>1, <5>1 DEF v
      <4> QED BY <1>1, <3>1, <3>2, <4>1, <4>2
    <3>3. CASE i # Len(v) + 1
      <4>1. i \in 1 .. Len(v) /\ new.byTime[t][i] = v[i]
        BY <1>3, <3>1, <3>3
      <4>2. /\ v[i] \in Queries /\ v[i] # q /\ hp[v[i]].state = "live"
            /\ new.byId[hp[v[i]].id].at = t
            /\ \A j \in 1 .. Len(v) : v[j] = v[i] => i = j
        BY <2>1, <2>3, <4>1 DEF v
      <4>3. \A j \in 1 .. Len(w) : w[j] = v[i] => i = j
        <5> SUFFICES ASSUME NEW j \in 1 .. Len(w), w[j] = v[i]
                     PROVE  i = j
          OBVIOUS
        <5>1. j # Len(v) + 1
          BY <1>3, <4>2
        <5>2. j \in 1 .. Len(v) /\ v[j] = v[i]
          BY <1>3, <5>1
        <5> QED BY <4>2, <5>2
      <4> QED BY <3>1, <4>1, <4>2, <4>3, NoneIsNew
    <3> QED BY <3>2, <3>3
  <2> QED BY <2>2, <2>3
<1> QED BY <1>8, <1>9, <1>11, <1>12, <1>13 DEF Agree, id, slotq

Changed(hp, q, obj) == [hp EXCEPT ![q] = obj]

\* A query is born: only the query itself is not in the table yet.
LEMMA BirthAgrees ==
  ASSUME NEW tab \in TableState, NEW hp \in Heaps, Agree(tab, hp, None),
         NEW q \in Queries, hp[q] = Unborn,
         NEW obj \in QueryObject,
         NEW born, born = Changed(hp, q, obj)
  PROVE  /\ born \in Heaps /\ born[q] = obj /\ obj.state = "live"
         /\ \A p \in Queries : p # q => born[p] = hp[p]
         /\ Agree(tab, born, q)
<1>1. /\ born \in Heaps /\ born[q] = obj /\ obj.state = "live"
      /\ \A p \in Queries : p # q => born[p] = hp[p]
  BY DEF Heaps, QueryObject, Changed
<1>2. \A p \in Queries : hp[p].state = "live" => p # q
  BY DEF Unborn
<1>3. SlotsAgree(tab, born, q)
  <2> SUFFICES ASSUME NEW id \in Ids, tab.byId[id] # NoSlot
               PROVE  LET slot == tab.byId[id] IN
                      /\ slot.query # q /\ born[slot.query].state = "live"
                      /\ born[slot.query].id = id
                      /\ \E i \in 1 .. Len(tab.byTime[slot.at]) :
                           tab.byTime[slot.at][i] = slot.query
    BY DEF SlotsAgree
  <2>1. tab.byId[id].query \in Queries
    BY SlotTypes
  <2> QED BY <1>1, <1>2, <2>1 DEF Agree, SlotsAgree
<1>4. QueriesAgree(tab, born, q)
  BY <1>1, NoneIsNew DEF Agree, QueriesAgree
<1>5. VectorsAgree(tab, born, q)
  <2> SUFFICES ASSUME NEW t \in Times, NEW i \in 1 .. Len(tab.byTime[t])
               PROVE  LET p == tab.byTime[t][i] IN
                      /\ p # q /\ born[p].state = "live" /\ tab.byId[born[p].id].at = t
                      /\ \A j \in 1 .. Len(tab.byTime[t]) : tab.byTime[t][j] = p => i = j
    BY DEF VectorsAgree
  <2>1. tab.byTime[t][i] \in Queries
    BY VectorTypes
  <2> QED BY <1>1, <1>2, <2>1 DEF Agree, VectorsAgree
<1> QED BY <1>1, <1>3, <1>4, <1>5 DEF Agree

\* A query the table has let go of is deleted.
LEMMA DeathAgrees ==
  ASSUME NEW tab \in TableState, NEW hp \in Heaps,
         NEW q \in Queries, Agree(tab, hp, q),
         NEW after, after = Changed(hp, q, Deleted)
  PROVE  /\ after \in Heaps /\ after[q] = Deleted
         /\ \A p \in Queries : p # q => after[p] = hp[p]
         /\ Agree(tab, after, None)
<1>1. /\ after \in Heaps /\ after[q] = Deleted /\ after[q].state # "live"
      /\ \A p \in Queries : p # q => after[p] = hp[p]
  BY DEF Heaps, Deleted, Changed
<1>2. SlotsAgree(tab, after, None)
  <2> SUFFICES ASSUME NEW id \in Ids, tab.byId[id] # NoSlot
               PROVE  LET slot == tab.byId[id] IN
                      /\ slot.query # None /\ after[slot.query].state = "live"
                      /\ after[slot.query].id = id
                      /\ \E i \in 1 .. Len(tab.byTime[slot.at]) :
                           tab.byTime[slot.at][i] = slot.query
    BY DEF SlotsAgree
  <2>1. tab.byId[id].query \in Queries
    BY SlotTypes
  <2> QED BY <1>1, <2>1, NoneIsNew DEF Agree, SlotsAgree
<1>3. QueriesAgree(tab, after, None)
  BY <1>1 DEF Agree, QueriesAgree
<1>4. VectorsAgree(tab, after, None)
  <2> SUFFICES ASSUME NEW t \in Times, NEW i \in 1 .. Len(tab.byTime[t])
               PROVE  LET p == tab.byTime[t][i] IN
                      /\ p # None /\ after[p].state = "live" /\ tab.byId[after[p].id].at = t
                      /\ \A j \in 1 .. Len(tab.byTime[t]) : tab.byTime[t][j] = p => i = j
    BY DEF VectorsAgree
  <2>1. tab.byTime[t][i] \in Queries
    BY VectorTypes
  <2> QED BY <1>1, <2>1, NoneIsNew DEF Agree, VectorsAgree
<1> QED BY <1>1, <1>2, <1>3, <1>4 DEF Agree

\* The agreement the invariant is about is the one the property states.
LEMMA AgreementIsMapsAgree ==
  ASSUME table \in TableState, Agree(table, heap, None)
  PROVE  MapsAgree
<1>1. \A id \in Ids : InTable(id) =>
        LET slot == table.byId[id] IN
        /\ Live(slot.query) /\ heap[slot.query].id = id
        /\ slot.query \in Elems(table.byTime[slot.at])
  BY DEF Agree, SlotsAgree, InTable, Live, Elems
<1>2. \A q \in Queries : Live(q) => table.byId[heap[q].id].query = q
  BY NoneIsNew DEF Agree, QueriesAgree, Live
<1>3. \A t \in Times : \A i \in 1 .. Len(table.byTime[t]) :
        LET q == table.byTime[t][i] IN
        /\ Live(q) /\ table.byId[heap[q].id].at = t
        /\ \A j \in 1 .. Len(table.byTime[t]) : table.byTime[t][j] = q => i = j
  BY DEF Agree, VectorsAgree, Live
<1> QED BY <1>1, <1>2, <1>3 DEF MapsAgree

----------------------------------------------------------------------------
(* Who holds the id a query answers to *)

\* A query waits for nobody's answer, but somebody has the id it will tell.
Held(tab, hp, q) ==
  hp[q].state = "live" /\ hp[q].subscriber # None /\ tab.byId[hp[q].subscriber] # NoSlot
Holder(tab, hp, q) == tab.byId[hp[q].subscriber].query

\* Queries are born in the order of their numbers.
Fresh(hp) == \A q \in Queries : hp[q] # Unborn => \A p \in 1 .. q - 1 : hp[p] # Unborn

\* An older holder is the query's creator: a root, or a middle query with a leaf
\* whose own holder is its creator too, or took the id after the leaf was born.
Tree(tab, hp) ==
  \A q \in Queries : Held(tab, hp, q) =>
    LET h == Holder(tab, hp, q) IN
    /\ h # q
    /\ h < q => /\ hp[h].role # "leaf"
                /\ hp[h].role = "middle" =>
                     /\ hp[q].role = "leaf"
                     /\ Held(tab, hp, h) =>
                          (Holder(tab, hp, h) < h \/ Holder(tab, hp, h) > q)

\* What a subquery is held by is a query.
LEMMA HolderTypes ==
  ASSUME NEW tab \in TableState, NEW hp \in Heaps, NEW q \in Queries, Held(tab, hp, q)
  PROVE  hp[q].subscriber \in Ids /\ Holder(tab, hp, q) \in Queries
<1>1. hp[q].subscriber \in Ids
  BY ObjectTypes DEF Held
<1> QED BY <1>1, SlotTypes DEF Held, Holder

\* Queries are made in the order of their numbers.
LEMMA BornAreYounger ==
  ASSUME NEW hp \in Heaps, Fresh(hp), NEW q \in Queries, hp[q] = Unborn,
         NEW p \in Queries, hp[p].state = "live"
  PROVE  p < q
<1>1. hp[p] # Unborn
  BY ObjectTypes
<1>2. ~ (q < p)
  <2> SUFFICES ASSUME q < p PROVE FALSE
    OBVIOUS
  <2>1. q \in 1 .. p - 1
    BY QueryTableAssumption DEF Queries
  <2> QED BY <1>1, <2>1 DEF Fresh
<1> QED BY <1>1, <1>2, QueryTableAssumption DEF Queries

\* A new query keeps the tree of subscriptions.
LEMMA BirthTree ==
  ASSUME NEW tab \in TableState, NEW hp \in Heaps, Agree(tab, hp, None),
         Fresh(hp), Tree(tab, hp),
         NEW q \in Queries, hp[q] = Unborn, NEW obj \in QueryObject,
         NEW tab2 \in TableState, NEW hp2 \in Heaps,
         hp2[q] = obj, \A p \in Queries : p # q => hp2[p] = hp[p],
         tab.byId[obj.id] = NoSlot, tab2.byId[obj.id].query = q,
         \A id \in Ids : id # obj.id => tab2.byId[id] = tab.byId[id],
         obj.subscriber # None =>
           \E c \in Queries :
             /\ hp[c].state = "live" /\ hp[c].id = obj.subscriber /\ hp[c].role # "leaf"
             /\ hp[c].role = "middle" =>
                  /\ obj.role = "leaf"
                  /\ hp[c].subscriber # None => Held(tab, hp, c) /\ Holder(tab, hp, c) < c
  PROVE  Tree(tab2, hp2)
<1>1. obj.id \in Ids /\ obj.state = "live" /\ hp[q].state # "live"
  BY DEF QueryObject, Unborn
<1>2. \A p \in Queries : hp[p].state = "live" => p < q /\ p # q
  BY BornAreYounger, <1>1
<1>3. \A p \in Queries : hp2[p].state = "live" /\ p # q => hp[p].state = "live"
  OBVIOUS
\* Whoever had a holder keeps it; whoever gets one gets the new query.
<1>4. ASSUME NEW p \in Queries, p # q, Held(tab2, hp2, p)
      PROVE  \/ Held(tab, hp, p) /\ Holder(tab2, hp2, p) = Holder(tab, hp, p)
             \/ Holder(tab2, hp2, p) = q
  <2>1. hp2[p] = hp[p] /\ hp[p].subscriber \in Ids
    BY <1>4, HolderTypes
  <2>2. CASE hp[p].subscriber = obj.id
    BY <2>1, <2>2 DEF Holder
  <2>3. CASE hp[p].subscriber # obj.id
    BY <1>4, <2>1, <2>3 DEF Holder, Held
  <2> QED BY <2>2, <2>3
<1> SUFFICES ASSUME NEW p \in Queries, Held(tab2, hp2, p)
             PROVE  LET h == Holder(tab2, hp2, p) IN
                    /\ h # p
                    /\ h < p => /\ hp2[h].role # "leaf"
                                /\ hp2[h].role = "middle" =>
                                     /\ hp2[p].role = "leaf"
                                     /\ Held(tab2, hp2, h) =>
                                          \/ Holder(tab2, hp2, h) < h
                                          \/ Holder(tab2, hp2, h) > p
  BY DEF Tree
<1> DEFINE h == Holder(tab2, hp2, p)
<1>5. h \in Queries
  BY HolderTypes
<1>6. CASE p = q
  <2>1. obj.subscriber # None
    BY <1>6 DEF Held
  <2>2. PICK c \in Queries :
             /\ hp[c].state = "live" /\ hp[c].id = obj.subscriber /\ hp[c].role # "leaf"
             /\ hp[c].role = "middle" =>
                  /\ obj.role = "leaf"
                  /\ hp[c].subscriber # None => Held(tab, hp, c) /\ Holder(tab, hp, c) < c
    BY <2>1
  <2>3. tab.byId[obj.subscriber].query = c /\ obj.subscriber \in Ids
    BY <2>2, ObjectTypes, NoneIsNew DEF Agree, QueriesAgree
  <2>4. obj.subscriber # obj.id
    BY <2>3, <1>1, SlotTypes
  <2>5. h = c
    BY <1>6, <2>3, <2>4 DEF Holder
  <2>6. c # q /\ hp2[c] = hp[c] /\ c < q
    BY <1>2, <2>2
  <2>7. ASSUME hp[c].role = "middle", Held(tab2, hp2, c)
        PROVE  Holder(tab2, hp2, c) < c \/ Holder(tab2, hp2, c) > q
    <3>1. Held(tab, hp, c) /\ Holder(tab, hp, c) < c
      BY <2>2, <2>6, <2>7 DEF Held
    <3>2. hp[c].subscriber \in Ids /\ hp[c].subscriber # obj.id
      BY <3>1, HolderTypes DEF Held
    <3>3. Holder(tab2, hp2, c) = Holder(tab, hp, c)
      BY <2>6, <3>2 DEF Holder
    <3> QED BY <3>1, <3>3
  <2> QED BY <1>6, <2>2, <2>5, <2>6, <2>7
<1>7. CASE p # q /\ h = q
  <2>1. p < q
    BY <1>2, <1>3, <1>7 DEF Held
  <2> QED BY <1>7, <2>1, QueryTableAssumption DEF Queries
<1>8. CASE p # q /\ h # q
  <2>1. Held(tab, hp, p) /\ h = Holder(tab, hp, p)
    BY <1>4, <1>8
  <2>2. hp2[p] = hp[p] /\ hp2[h] = hp[h]
    BY <1>5, <1>8
  <2>3. h # p /\ (h < p => /\ hp[h].role # "leaf"
                           /\ hp[h].role = "middle" =>
                                /\ hp[p].role = "leaf"
                                /\ Held(tab, hp, h) =>
                                     (Holder(tab, hp, h) < h \/ Holder(tab, hp, h) > p))
    BY <2>1 DEF Tree
  <2>4. ASSUME Held(tab2, hp2, h)
        PROVE  \/ Held(tab, hp, h) /\ Holder(tab2, hp2, h) = Holder(tab, hp, h)
               \/ Holder(tab2, hp2, h) > p
    <3>1. p < q
      BY <1>2, <2>1 DEF Held
    <3>2. \/ Held(tab, hp, h) /\ Holder(tab2, hp2, h) = Holder(tab, hp, h)
          \/ Holder(tab2, hp2, h) = q
      BY <1>4, <1>5, <1>8, <2>4
    <3>3. CASE Holder(tab2, hp2, h) = q
      BY <3>1, <3>3, QueryTableAssumption DEF Queries
    <3> QED BY <3>2, <3>3
  <2> HIDE DEF h
  <2> QED BY <2>2, <2>3, <2>4 DEF h
<1> QED BY <1>6, <1>7, <1>8

----------------------------------------------------------------------------
(* The call stack *)

\* A query hears an answer and will tell its own subscriber.
Answering(hp, f) == f.call = "notify" /\ hp[f.query].role # "root"

FramesLive(hp, st) == \A i \in 1 .. Len(st) : hp[st[i].query].state = "live"
FramesDistinct(st) == \A i, j \in 1 .. Len(st) : st[i].query = st[j].query => i = j
OnlyAnswersAreTold(hp, st) ==
  \A i \in 1 .. Len(st) : st[i].told =>
    Answering(hp, st[i]) /\ hp[st[i].query].subscriber # None
\* A frame that has told its subscriber waits for just that query's handler.
ToldIsAbove(tab, hp, st) ==
  \A i \in 1 .. Len(st) - 1 : st[i].told =>
    Held(tab, hp, st[i].query) /\ Holder(tab, hp, st[i].query) = st[i + 1].query
\* Under a query that hears an answer there are only queries that told one.
AnswersOnAnswers(hp, st) ==
  \A i \in 1 .. Len(st) : Answering(hp, st[i]) => \A j \in 1 .. i - 1 : st[j].told
\* init() of a query somebody waits for runs inside its creator's handler.
InitInCreator(hp, st) ==
  \A i \in 1 .. Len(st) : st[i].call = "init" /\ hp[st[i].query].subscriber # None =>
    /\ i > 1 /\ hp[st[i - 1].query].id = hp[st[i].query].subscriber
    /\ st[i - 1].query < st[i].query
\* A chain of answers that turns to a younger query turns to the youngest of it.
Rising(st) ==
  \A j \in 1 .. Len(st) - 1 : st[j].told /\ st[j].query < st[j + 1].query =>
    \A i \in 1 .. j : st[i].query < st[j + 1].query

Frames(tab, hp, st) ==
  /\ FramesLive(hp, st)
  /\ FramesDistinct(st)
  /\ OnlyAnswersAreTold(hp, st)
  /\ ToldIsAbove(tab, hp, st)
  /\ AnswersOnAnswers(hp, st)
  /\ InitInCreator(hp, st)
  /\ Rising(st)

\* The frames of the stack of calls.
LEMMA FrameTypes ==
  ASSUME NEW st \in Seq(Frame)
  PROVE  /\ Len(st) \in Nat
         /\ \A i \in 1 .. Len(st) : st[i] \in Frame /\ st[i].query \in Queries /\ st[i].query \in Nat
<1>1. Len(st) \in Nat /\ \A i \in 1 .. Len(st) : st[i] \in Frame
  OBVIOUS
<1>2. \A f \in Frame : f.query \in Queries
  BY DEF Frame
<1>3. \A q \in Queries : q \in Nat
  BY DEF Queries
<1> QED BY <1>1, <1>2, <1>3

\* The heart of the argument: a query on the stack is never told an answer that
\* another one on it has got.
LEMMA SubscriberIsNew ==
  ASSUME NEW tab \in TableState, NEW hp \in Heaps, NEW st \in Seq(Frame),
         Frames(tab, hp, st), Tree(tab, hp), Len(st) > 0,
         Answering(hp, st[Len(st)]), Held(tab, hp, st[Len(st)].query),
         NEW x, x = Holder(tab, hp, st[Len(st)].query)
  PROVE  /\ \A i \in 1 .. Len(st) : st[i].query # x
         /\ st[Len(st)].query < x => \A i \in 1 .. Len(st) : st[i].query < x
<1> DEFINE n == Len(st)
           Q(i) == st[i].query
<1>1. /\ n \in Nat /\ n \in 1 .. n /\ \A i \in 1 .. n : Q(i) \in Queries /\ Q(i) \in Nat
      /\ x \in Queries /\ x \in Nat
  BY FrameTypes, HolderTypes DEF Queries
<1>2. \A i \in 1 .. n - 1 : i \in 1 .. n /\ i + 1 \in 1 .. n /\ st[i].told
  <2>1. \A j \in 1 .. n - 1 : st[j].told
    BY <1>1 DEF Frames, AnswersOnAnswers
  <2> QED BY <1>1, <2>1
<1>3. \A i \in 1 .. n : hp[Q(i)].role # "root" /\ hp[Q(i)].role \in Roles
  <2> SUFFICES ASSUME NEW i \in 1 .. n
               PROVE  hp[Q(i)].role # "root" /\ hp[Q(i)].role \in Roles
    OBVIOUS
  <2>1. hp[Q(i)].role \in Roles
    BY <1>1, ObjectTypes DEF Frames, FramesLive
  <2>2. CASE i = n
    BY <2>1, <2>2 DEF Answering
  <2>3. CASE i # n
    <3>1. i \in 1 .. n - 1
      BY <1>1, <2>3
    <3> QED BY <1>2, <2>1, <3>1 DEF Frames, OnlyAnswersAreTold, Answering
  <2> QED BY <2>2, <2>3
<1>4. \A i \in 1 .. n - 1 : Held(tab, hp, Q(i)) /\ Holder(tab, hp, Q(i)) = Q(i + 1)
  BY <1>2 DEF Frames, ToldIsAbove
<1>5. \A i \in 1 .. n - 1 : Q(i) < Q(i + 1) => \A k \in 1 .. i : Q(k) < Q(i + 1)
  BY <1>2 DEF Frames, Rising
<1>6. \A i, j \in 1 .. n : Q(i) = Q(j) => i = j
  BY DEF Frames, FramesDistinct
\* Turning to an older query is turning from a leaf to a middle one.
<1>7. ASSUME NEW i \in 1 .. n - 1, ~ (Q(i) < Q(i + 1))
      PROVE  /\ Q(i + 1) < Q(i) /\ hp[Q(i)].role = "leaf" /\ hp[Q(i + 1)].role = "middle"
             /\ Held(tab, hp, Q(i + 1)) =>
                  \/ Holder(tab, hp, Q(i + 1)) < Q(i + 1)
                  \/ Holder(tab, hp, Q(i + 1)) > Q(i)
  <2>1. /\ i \in 1 .. n /\ i + 1 \in 1 .. n /\ Held(tab, hp, Q(i))
        /\ Holder(tab, hp, Q(i)) = Q(i + 1)
    BY <1>2, <1>4
  <2>2. Q(i) \in Nat /\ Q(i + 1) \in Nat /\ Q(i + 1) # Q(i) /\ Q(i) \in Queries
    BY <1>1, <1>6, <2>1
  <2>3. Q(i + 1) < Q(i)
    BY <1>7, <2>2
  <2>4. hp[Q(i + 1)].role # "root" /\ hp[Q(i + 1)].role \in Roles
    BY <1>3, <2>1
  <2>5. /\ hp[Q(i + 1)].role # "leaf"
        /\ hp[Q(i + 1)].role = "middle" =>
             /\ hp[Q(i)].role = "leaf"
             /\ Held(tab, hp, Q(i + 1)) =>
                  \/ Holder(tab, hp, Q(i + 1)) < Q(i + 1)
                  \/ Holder(tab, hp, Q(i + 1)) > Q(i)
    <3> HIDE DEF Q
    <3> QED BY <2>1, <2>2, <2>3 DEF Tree
  <2>6. hp[Q(i + 1)].role = "middle"
    BY <2>4, <2>5 DEF Roles
  <2> QED BY <2>3, <2>5, <2>6
\* The same for the subscriber that is told now.
<1>8. /\ x # Q(n)
      /\ x < Q(n) => /\ hp[x].role # "leaf"
                     /\ hp[x].role = "middle" =>
                          /\ hp[Q(n)].role = "leaf"
                          /\ Held(tab, hp, x) =>
                               (Holder(tab, hp, x) < x \/ Holder(tab, hp, x) > Q(n))
  <2>1. Q(n) \in Queries /\ Held(tab, hp, Q(n)) /\ x = Holder(tab, hp, Q(n))
    BY <1>1
  <2> HIDE DEF Q
  <2> QED BY <2>1 DEF Tree
<1> HIDE DEF n, Q
<1>9. ASSUME Q(n) < x
      PROVE  \A i \in 1 .. n : Q(i) < x
  <2>1. CASE n = 1
    BY <1>1, <1>9, <2>1
  <2>2. CASE n > 1
    <3> DEFINE m == n - 1
    <3>1. m \in 1 .. n - 1 /\ m + 1 = n /\ m \in Nat /\ m \in 1 .. n
      BY <1>1, <2>2
    <3> HIDE DEF m
    <3>2. CASE Q(m) < Q(n)
      <4>1. \A k \in 1 .. m : Q(k) < Q(n)
        BY <1>5, <3>1, <3>2
      <4> SUFFICES ASSUME NEW i \in 1 .. n PROVE Q(i) < x
        OBVIOUS
      <4>2. i = n \/ i \in 1 .. m
        BY <1>1, <3>1
      <4> QED BY <1>1, <1>9, <4>1, <4>2
    <3>3. CASE ~ (Q(m) < Q(n))
      <4>1. /\ Q(n) < Q(m) /\ hp[Q(m)].role = "leaf"
            /\ Held(tab, hp, Q(n)) => Holder(tab, hp, Q(n)) < Q(n) \/ Holder(tab, hp, Q(n)) > Q(m)
        BY <1>7, <3>1, <3>3
      <4>2. Held(tab, hp, Q(n)) /\ Holder(tab, hp, Q(n)) = x
        BY DEF n, Q
      <4>3. Q(m) < x
        BY <1>1, <1>9, <3>1, <4>1, <4>2
      <4>4. \A k \in 1 .. m : k # m => Q(k) < Q(m)
        <5>1. CASE m = 1
          BY <5>1
        <5>2. CASE m # 1
          <6> DEFINE l == m - 1
          <6>1. l \in 1 .. n - 1 /\ l + 1 = m /\ l \in Nat
            BY <1>1, <3>1, <5>2
          <6> HIDE DEF l
          <6>2. Q(l) < Q(m)
            BY <1>7, <4>1, <6>1
          <6>3. \A k \in 1 .. l : Q(k) < Q(m)
            BY <1>5, <6>1, <6>2
          <6>4. \A k \in 1 .. m : k # m => k \in 1 .. l
            BY <3>1, <6>1
          <6> QED BY <6>3, <6>4
        <5> QED BY <5>1, <5>2
      <4> SUFFICES ASSUME NEW i \in 1 .. n PROVE Q(i) < x
        OBVIOUS
      <4>5. i = n \/ i = m \/ (i \in 1 .. m /\ i # m)
        BY <1>1, <3>1
      <4>6. Q(i) \in Nat /\ Q(m) \in Nat
        BY <1>1, <3>1
      <4> QED BY <1>1, <1>9, <4>3, <4>4, <4>5, <4>6
    <3> QED BY <3>2, <3>3
  <2> QED BY <1>1, <2>1, <2>2
<1>10. ASSUME NEW i \in 1 .. n, Q(i) = x
       PROVE  FALSE
  <2>1. x < Q(n)
    <3>1. ~ (Q(n) < x)
      BY <1>1, <1>9, <1>10
    <3> QED BY <1>1, <1>8, <3>1
  <2>2. i # n
    BY <1>8, <1>10
  <2>3. i \in 1 .. n - 1 /\ i + 1 \in 1 .. n
    BY <1>1, <2>2
  <2>4. hp[x].role = "middle"
    BY <1>3, <1>8, <1>10, <2>1 DEF Roles
  <2>5. /\ hp[Q(n)].role = "leaf"
        /\ Q(i + 1) < Q(i) \/ Q(i + 1) > Q(n)
    BY <1>4, <1>8, <1>10, <2>1, <2>3, <2>4
  <2>6. Q(i) < Q(i + 1)
    BY <1>7, <1>10, <2>3, <2>4
  <2>7. Q(i + 1) > Q(n)
    BY <1>1, <2>3, <2>5, <2>6
  <2>8. i + 1 # n /\ n > 1
    BY <1>1, <2>3, <2>7
  <2> DEFINE m == n - 1
  <2>9. m \in 1 .. n - 1 /\ m + 1 = n /\ i + 1 \in 1 .. m
    BY <1>1, <2>3, <2>8
  <2> HIDE DEF m
  <2>10. Q(m) < Q(n)
    BY <1>7, <2>5, <2>9
  <2>11. Q(i + 1) < Q(n)
    BY <1>5, <2>9, <2>10
  <2> QED BY <1>1, <2>3, <2>7, <2>11
<1> QED BY <1>9, <1>10 DEF n, Q

----------------------------------------------------------------------------
(* What the steps do to the call stack *)

\* The stack does not mind births, deaths and moves of queries that are not on it.
LEMMA FramesKept ==
  ASSUME NEW tab \in TableState, NEW hp \in Heaps, NEW st \in Seq(Frame),
         Frames(tab, hp, st), NEW tab2, NEW hp2,
         \A i \in 1 .. Len(st) : hp2[st[i].query] = hp[st[i].query],
         \A id \in Ids : \A i \in 1 .. Len(st) :
           tab.byId[id] # NoSlot /\ tab.byId[id].query = st[i].query =>
             tab2.byId[id] # NoSlot /\ tab2.byId[id].query = st[i].query
  PROVE  Frames(tab2, hp2, st)
<1>1. FramesLive(hp2, st) /\ OnlyAnswersAreTold(hp2, st) /\ AnswersOnAnswers(hp2, st)
  BY DEF Frames, FramesLive, OnlyAnswersAreTold, AnswersOnAnswers, Answering
<1>2. InitInCreator(hp2, st)
  <2> SUFFICES ASSUME NEW i \in 1 .. Len(st), st[i].call = "init",
                      hp2[st[i].query].subscriber # None
               PROVE  /\ i > 1 /\ hp2[st[i - 1].query].id = hp2[st[i].query].subscriber
                      /\ st[i - 1].query < st[i].query
    BY DEF InitInCreator
  <2>1. /\ i > 1 /\ hp[st[i - 1].query].id = hp[st[i].query].subscriber
        /\ st[i - 1].query < st[i].query
    BY DEF Frames, InitInCreator
  <2>2. i - 1 \in 1 .. Len(st)
    BY <2>1, FrameTypes
  <2> QED BY <2>1, <2>2
<1>3. ToldIsAbove(tab2, hp2, st)
  <2> SUFFICES ASSUME NEW i \in 1 .. Len(st) - 1, st[i].told
               PROVE  Held(tab2, hp2, st[i].query) /\ Holder(tab2, hp2, st[i].query) = st[i + 1].query
    BY DEF ToldIsAbove
  <2>1. i \in 1 .. Len(st) /\ i + 1 \in 1 .. Len(st) /\ st[i].query \in Queries
    BY FrameTypes
  <2>2. Held(tab, hp, st[i].query) /\ Holder(tab, hp, st[i].query) = st[i + 1].query
    BY DEF Frames, ToldIsAbove
  <2>3. hp[st[i].query].subscriber \in Ids
    BY <2>1, <2>2, HolderTypes
  <2>4. hp2[st[i].query] = hp[st[i].query]
    BY <2>1
  <2>5. /\ tab2.byId[hp[st[i].query].subscriber] # NoSlot
        /\ tab2.byId[hp[st[i].query].subscriber].query = st[i + 1].query
    BY <2>1, <2>2, <2>3 DEF Held, Holder
  <2> QED BY <2>2, <2>4, <2>5 DEF Held, Holder
<1> QED BY <1>1, <1>2, <1>3 DEF Frames

\* The stack below its top.
LEMMA CallerTypes ==
  ASSUME NEW st \in Seq(Frame), Len(st) > 0
  PROVE  /\ Caller(st) \in Seq(Frame) /\ Len(Caller(st)) = Len(st) - 1
         /\ \A i \in 1 .. Len(st) - 1 : Caller(st)[i] = st[i]
         /\ Len(st) \in 1 .. Len(st)
<1> DEFINE n == Len(st)
<1>1. n \in Nat /\ n > 0 /\ n \in 1 .. n
  OBVIOUS
<1>2. n - 1 \in Int /\ 1 \in Int /\ \A k \in 1 .. n - 1 : st[k] \in Frame
  BY <1>1
<1> HIDE DEF n
<1>3. /\ SubSeq(st, 1, n - 1) \in Seq(Frame)
      /\ Len(SubSeq(st, 1, n - 1)) = IF 1 <= n - 1 THEN n - 1 - 1 + 1 ELSE 0
      /\ \A i \in 1 .. n - 1 - 1 + 1 : SubSeq(st, 1, n - 1)[i] = st[1 + i - 1]
  BY <1>2, SubSeqProperties
<1>4. Len(SubSeq(st, 1, n - 1)) = n - 1 /\ \A i \in 1 .. n - 1 : SubSeq(st, 1, n - 1)[i] = st[i]
  BY <1>1, <1>3
<1> QED BY <1>1, <1>3, <1>4 DEF Caller, n

\* A handler returns to its caller.
LEMMA PopFrames ==
  ASSUME NEW tab \in TableState, NEW hp \in Heaps, NEW st \in Seq(Frame),
         Frames(tab, hp, st), Len(st) > 0,
         NEW below, below = Caller(st)
  PROVE  /\ below \in Seq(Frame) /\ Frames(tab, hp, below)
         /\ \A i \in 1 .. Len(below) : below[i] = st[i] /\ below[i].query # st[Len(st)].query
<1>1. /\ below \in Seq(Frame) /\ Len(below) = Len(st) - 1
      /\ \A i \in 1 .. Len(below) : below[i] = st[i]
      /\ Len(st) \in Nat /\ Len(st) \in 1 .. Len(st)
  <2>1. /\ Caller(st) \in Seq(Frame) /\ Len(Caller(st)) = Len(st) - 1
        /\ \A i \in 1 .. Len(st) - 1 : Caller(st)[i] = st[i]
        /\ Len(st) \in 1 .. Len(st)
    BY CallerTypes
  <2>2. Len(st) \in Nat
    BY FrameTypes
  <2>3. below = Caller(st)
    OBVIOUS
  <2>4. Len(below) = Len(st) - 1
    BY <2>1, <2>3
  <2>5. \A i \in 1 .. Len(st) - 1 : below[i] = st[i]
    BY <2>1, <2>3
  <2>6. \A i \in 1 .. Len(below) : below[i] = st[i]
    BY <2>4, <2>5
  <2>7. below \in Seq(Frame)
    BY <2>1, <2>3
  <2> QED BY <2>1, <2>2, <2>4, <2>6, <2>7
<1>2. \A i \in 1 .. Len(below) : i \in 1 .. Len(st) /\ i # Len(st)
  BY <1>1
<1>3. FramesLive(hp, below) /\ FramesDistinct(below) /\ OnlyAnswersAreTold(hp, below)
  <2>1. \A i \in 1 .. Len(below) : i \in 1 .. Len(st) /\ below[i] = st[i]
    BY <1>1, <1>2
  <2>2. FramesLive(hp, below)
    BY <2>1 DEF Frames, FramesLive
  <2>3. FramesDistinct(below)
    BY <2>1 DEF Frames, FramesDistinct
  <2>4. OnlyAnswersAreTold(hp, below)
    BY <2>1 DEF Frames, OnlyAnswersAreTold
  <2> QED BY <2>2, <2>3, <2>4
<1>4. \A i \in 1 .. Len(below) - 1 : i \in 1 .. Len(below) /\ i + 1 \in 1 .. Len(below)
                                      /\ i \in 1 .. Len(st) - 1
  BY <1>1
<1>5. ToldIsAbove(tab, hp, below)
  BY <1>1, <1>4 DEF Frames, ToldIsAbove
<1>6. \A i \in 1 .. Len(below) : \A j \in 1 .. i : j \in 1 .. Len(below)
  BY <1>1
<1>7. \A i \in 1 .. Len(below) : \A j \in 1 .. i - 1 : j \in 1 .. Len(below)
  BY <1>1
<1>8. AnswersOnAnswers(hp, below)
  BY <1>1, <1>2, <1>7 DEF Frames, AnswersOnAnswers
<1>9. InitInCreator(hp, below)
  <2> SUFFICES ASSUME NEW i \in 1 .. Len(below), below[i].call = "init",
                      hp[below[i].query].subscriber # None
               PROVE  /\ i > 1 /\ hp[below[i - 1].query].id = hp[below[i].query].subscriber
                      /\ below[i - 1].query < below[i].query
    BY DEF InitInCreator
  <2>1. /\ i > 1 /\ hp[st[i - 1].query].id = hp[st[i].query].subscriber
        /\ st[i - 1].query < st[i].query
    BY <1>1, <1>2 DEF Frames, InitInCreator
  <2>2. i - 1 \in 1 .. Len(below)
    BY <1>1, <2>1
  <2> QED BY <1>1, <2>1, <2>2
<1>10. Rising(below)
  <2> SUFFICES ASSUME NEW j \in 1 .. Len(below) - 1,
                      below[j].told, below[j].query < below[j + 1].query,
                      NEW i \in 1 .. j
               PROVE  below[i].query < below[j + 1].query
    BY DEF Rising
  <2>1. st[j].told /\ st[j].query < st[j + 1].query
    BY <1>1, <1>4
  <2>2. st[i].query < st[j + 1].query
    BY <1>4, <2>1 DEF Frames, Rising
  <2>3. i \in 1 .. Len(below) /\ j + 1 \in 1 .. Len(below)
    BY <1>4, <1>6
  <2> QED BY <1>1, <2>2, <2>3
<1>11. \A i \in 1 .. Len(below) : below[i].query # st[Len(st)].query
  BY <1>1, <1>2 DEF Frames, FramesDistinct
<1> QED BY <1>1, <1>3, <1>5, <1>8, <1>9, <1>10, <1>11 DEF Frames

\* A handler starts inside another one.
LEMMA PushFrames ==
  ASSUME NEW tab \in TableState, NEW hp \in Heaps, NEW st \in Seq(Frame),
         Frames(tab, hp, st), NEW f \in Frame, hp[f.query].state = "live", ~ f.told,
         \A i \in 1 .. Len(st) : st[i].query # f.query,
         Len(st) > 0 /\ st[Len(st)].told =>
           /\ Held(tab, hp, st[Len(st)].query) /\ Holder(tab, hp, st[Len(st)].query) = f.query
           /\ st[Len(st)].query < f.query => \A i \in 1 .. Len(st) : st[i].query < f.query,
         Answering(hp, f) => \A i \in 1 .. Len(st) : st[i].told,
         f.call = "init" /\ hp[f.query].subscriber # None =>
           /\ Len(st) > 0 /\ hp[st[Len(st)].query].id = hp[f.query].subscriber
           /\ st[Len(st)].query < f.query,
         NEW above, above = Append(st, f)
  PROVE  above \in Seq(Frame) /\ Frames(tab, hp, above)
<1> DEFINE n == Len(st)
<1>1. /\ above \in Seq(Frame) /\ n \in Nat /\ Len(above) = n + 1
      /\ above[n + 1] = f /\ \A i \in 1 .. n : above[i] = st[i]
  OBVIOUS
<1>2. \A i \in 1 .. Len(above) : i \in 1 .. n \/ i = n + 1
  BY <1>1
<1>3. FramesLive(hp, above)
  BY <1>1, <1>2 DEF Frames, FramesLive
<1>4. FramesDistinct(above)
  BY <1>1, <1>2 DEF Frames, FramesDistinct
<1>5. OnlyAnswersAreTold(hp, above)
  BY <1>1, <1>2 DEF Frames, OnlyAnswersAreTold
<1>6. ToldIsAbove(tab, hp, above)
  <2> SUFFICES ASSUME NEW i \in 1 .. n, above[i].told
               PROVE  /\ Held(tab, hp, above[i].query)
                      /\ Holder(tab, hp, above[i].query) = above[i + 1].query
    BY <1>1 DEF ToldIsAbove
  <2>1. CASE i = n
    BY <1>1, <2>1
  <2>2. CASE i # n
    <3>1. i \in 1 .. n - 1 /\ i + 1 \in 1 .. n /\ st[i].told
      BY <1>1, <2>2
    <3> QED BY <1>1, <3>1 DEF Frames, ToldIsAbove
  <2> QED BY <2>1, <2>2
<1>7. AnswersOnAnswers(hp, above)
  <2> SUFFICES ASSUME NEW i \in 1 .. n + 1, Answering(hp, above[i]), NEW j \in 1 .. i - 1
               PROVE  above[j].told
    BY <1>1 DEF AnswersOnAnswers
  <2>1. j \in 1 .. n /\ above[j] = st[j]
    BY <1>1
  <2>2. CASE i = n + 1
    BY <1>1, <2>1, <2>2
  <2>3. CASE i # n + 1
    <3>1. i \in 1 .. n /\ above[i] = st[i]
      BY <1>1, <2>3
    <3> QED BY <2>1, <3>1 DEF Frames, AnswersOnAnswers
  <2> QED BY <2>2, <2>3
<1>8. InitInCreator(hp, above)
  <2> SUFFICES ASSUME NEW i \in 1 .. n + 1, above[i].call = "init",
                      hp[above[i].query].subscriber # None
               PROVE  /\ i > 1 /\ hp[above[i - 1].query].id = hp[above[i].query].subscriber
                      /\ above[i - 1].query < above[i].query
    BY <1>1 DEF InitInCreator
  <2>1. CASE i = n + 1
    <3>1. /\ n > 0 /\ hp[st[n].query].id = hp[f.query].subscriber /\ st[n].query < f.query
      BY <1>1, <2>1
    <3>2. i - 1 = n /\ n \in 1 .. n
      BY <1>1, <2>1, <3>1
    <3>3. above[i - 1] = st[n] /\ above[i] = f
      BY <1>1, <2>1, <3>2
    <3> QED BY <1>1, <2>1, <3>1, <3>3
  <2>2. CASE i # n + 1
    <3>1. i \in 1 .. n /\ above[i] = st[i]
      BY <1>1, <2>2
    <3>2. /\ i > 1 /\ hp[st[i - 1].query].id = hp[st[i].query].subscriber
          /\ st[i - 1].query < st[i].query
      BY <3>1 DEF Frames, InitInCreator
    <3>3. above[i - 1] = st[i - 1]
      <4>1. i - 1 \in 1 .. n
        BY <1>1, <3>1, <3>2
      <4> QED BY <1>1, <4>1
    <3> QED BY <3>1, <3>2, <3>3
  <2> QED BY <2>1, <2>2
<1>9. Rising(above)
  <2> SUFFICES ASSUME NEW j \in 1 .. n, above[j].told, above[j].query < above[j + 1].query,
                      NEW i \in 1 .. j
               PROVE  above[i].query < above[j + 1].query
    BY <1>1 DEF Rising
  <2>1. i \in 1 .. n /\ above[i] = st[i] /\ above[j] = st[j]
    BY <1>1
  <2>2. CASE j = n
    BY <1>1, <2>1, <2>2
  <2>3. CASE j # n
    <3>1. j \in 1 .. n - 1 /\ above[j + 1] = st[j + 1]
      BY <1>1, <2>3
    <3> QED BY <2>1, <3>1 DEF Frames, Rising
  <2> QED BY <2>2, <2>3
<1> QED BY <1>1, <1>3, <1>4, <1>5, <1>6, <1>7, <1>8, <1>9 DEF Frames

TopTold(st) == [st EXCEPT ![Len(st)].told = TRUE]

\* The innermost query has told its subscriber.
LEMMA MarkTold ==
  ASSUME NEW tab \in TableState, NEW hp \in Heaps, NEW st \in Seq(Frame),
         Frames(tab, hp, st), Len(st) > 0,
         Answering(hp, st[Len(st)]), hp[st[Len(st)].query].subscriber # None,
         NEW told, told = TopTold(st)
  PROVE  /\ told \in Seq(Frame) /\ Len(told) = Len(st) /\ Frames(tab, hp, told)
         /\ \A i \in 1 .. Len(st) : told[i].query = st[i].query /\ told[i].call = st[i].call
         /\ told[Len(st)].told
         /\ \A i \in 1 .. Len(st) - 1 : told[i] = st[i]
<1> DEFINE n == Len(st)
           g == [st[n] EXCEPT !.told = TRUE]
<1>1. n \in Nat /\ n \in 1 .. n /\ st[n] \in Frame
  BY FrameTypes
<1>2. g \in Frame /\ g.query = st[n].query /\ g.call = st[n].call /\ g.told = TRUE
  BY <1>1 DEF Frame
<1>3. told = [st EXCEPT ![n] = g]
  BY DEF TopTold
<1> HIDE DEF g
<1>4. /\ told \in Seq(Frame) /\ Len(told) = n /\ told[n] = g
      /\ \A i \in 1 .. n - 1 : told[i] = st[i]
  <2>1. told \in Seq(Frame) /\ Len(told) = n
    <3>1. n \in 1 .. Len(st) /\ g \in Frame
      BY <1>1, <1>2
    <3> HIDE DEF n
    <3>2. [st EXCEPT ![n] = g] \in Seq(Frame) /\ Len([st EXCEPT ![n] = g]) = Len(st)
      BY ONLY <3>1, st \in Seq(Frame), ExceptSeq
    <3> QED BY <1>3, <3>2 DEF n
  <2>2. told[n] = g /\ \A i \in 1 .. n : i # n => told[i] = st[i]
    BY <1>1, <1>3
  <2> QED BY <1>1, <2>1, <2>2
<1>5. \A i \in 1 .. n : told[i].query = st[i].query /\ told[i].call = st[i].call
  <2> SUFFICES ASSUME NEW i \in 1 .. n
               PROVE  told[i].query = st[i].query /\ told[i].call = st[i].call
    OBVIOUS
  <2>1. i = n \/ i \in 1 .. n - 1
    BY <1>1
  <2> QED BY <1>2, <1>4, <2>1
<1>6. \A i \in 1 .. n : i # n => i \in 1 .. n - 1 /\ told[i] = st[i]
  BY <1>1, <1>4
<1>7. FramesLive(hp, told) /\ FramesDistinct(told)
  BY <1>4, <1>5 DEF Frames, FramesLive, FramesDistinct
<1>8. OnlyAnswersAreTold(hp, told)
  <2> SUFFICES ASSUME NEW i \in 1 .. n, told[i].told
               PROVE  Answering(hp, told[i]) /\ hp[told[i].query].subscriber # None
    BY <1>4 DEF OnlyAnswersAreTold
  <2>1. CASE i = n
    BY <1>1, <1>2, <1>4, <2>1 DEF Answering
  <2>2. CASE i # n
    BY <1>6, <2>2 DEF Frames, OnlyAnswersAreTold
  <2> QED BY <2>1, <2>2
<1>9. \A i \in 1 .. n - 1 : i \in 1 .. n /\ i # n /\ i + 1 \in 1 .. n
  BY <1>1
<1>10. ToldIsAbove(tab, hp, told)
  BY <1>4, <1>5, <1>9 DEF Frames, ToldIsAbove
<1>11. AnswersOnAnswers(hp, told)
  <2> SUFFICES ASSUME NEW i \in 1 .. n, Answering(hp, told[i]), NEW j \in 1 .. i - 1
               PROVE  told[j].told
    BY <1>4 DEF AnswersOnAnswers
  <2>1. Answering(hp, st[i])
    BY <1>5 DEF Answering
  <2>2. st[j].told
    BY <2>1 DEF Frames, AnswersOnAnswers
  <2>3. j \in 1 .. n - 1
    BY <1>1
  <2> QED BY <1>4, <2>2, <2>3
<1>12. InitInCreator(hp, told)
  <2> SUFFICES ASSUME NEW i \in 1 .. n, told[i].call = "init",
                      hp[told[i].query].subscriber # None
               PROVE  /\ i > 1 /\ hp[told[i - 1].query].id = hp[told[i].query].subscriber
                      /\ told[i - 1].query < told[i].query
    BY <1>4 DEF InitInCreator
  <2>1. /\ i > 1 /\ hp[st[i - 1].query].id = hp[st[i].query].subscriber
        /\ st[i - 1].query < st[i].query
    BY <1>5 DEF Frames, InitInCreator
  <2>2. i - 1 \in 1 .. n
    BY <1>1, <2>1
  <2> QED BY <1>5, <2>1, <2>2
<1>13. Rising(told)
  <2> SUFFICES ASSUME NEW j \in 1 .. n - 1, told[j].told, told[j].query < told[j + 1].query,
                      NEW i \in 1 .. j
               PROVE  told[i].query < told[j + 1].query
    BY <1>4 DEF Rising
  <2>1. i \in 1 .. n /\ j \in 1 .. n /\ j + 1 \in 1 .. n /\ told[j] = st[j]
    BY <1>1, <1>4
  <2> QED BY <1>5, <2>1 DEF Frames, Rising
<1> QED BY <1>2, <1>4, <1>5, <1>7, <1>8, <1>10, <1>11, <1>12, <1>13 DEF Frames

----------------------------------------------------------------------------
(* The invariant *)

\* The queries handleTimeout has still to call are live and not being run.
SweepLive(hp, st, sw) ==
  \A t \in Times : \A i \in 1 .. Len(sw[t]) :
    /\ hp[sw[t][i]].state = "live"
    /\ \A k \in 1 .. Len(st) : st[k].query # sw[t][i]
    /\ \A u \in Times : \A j \in 1 .. Len(sw[u]) : sw[u][j] = sw[t][i] => u = t /\ j = i
\* There are none of them while an answer is told.
SweepIdle ==
  /\ phase = "events" => sweep = NoSweep
  /\ \A i \in 1 .. Len(stack) : Answering(heap, stack[i]) => sweep = NoSweep

IInv ==
  /\ TypeOK
  /\ Agree(table, heap, None)
  /\ Fresh(heap)
  /\ Tree(table, heap)
  /\ Frames(table, heap, stack)
  /\ SweepLive(heap, stack, sweep)
  /\ SweepIdle

\* The type invariant, part by part.
LEMMA TypeOKMeans ==
  TypeOK <=> /\ table \in TableState /\ heap \in Heaps /\ stack \in Seq(Frame)
             /\ sweep \in [Times -> Seq(Queries)]
             /\ phase \in {"timeouts", "events"} /\ clock \in 0 .. MaxClock
BY DEF TypeOK, Heaps

\* Nothing is left to sweep outside the sweep of timeouts.
LEMMA NothingIsSwept ==
  ASSUME NEW hp, NEW st
  PROVE  SweepLive(hp, st, NoSweep) /\ NoSweep \in [Times -> Seq(Queries)]
BY DEF SweepLive, NoSweep

\* A call is a frame.
LEMMA CallTypes ==
  ASSUME NEW q \in Queries, NEW c \in Calls
  PROVE  /\ Call(q, c) \in Frame /\ Call(q, c).query = q /\ Call(q, c).call = c
         /\ ~ Call(q, c).told
BY DEF Call, Frame

\* The empty stack.
LEMMA NoFrames ==
  ASSUME NEW tab, NEW hp
  PROVE  Frames(tab, hp, <<>>) /\ <<>> \in Seq(Frame) /\ Len(<<>>) = 0
BY DEF Frames, FramesLive, FramesDistinct, OnlyAnswersAreTold, ToldIsAbove,
       AnswersOnAnswers, InitInCreator, Rising

\* A handler called from the loop is alone on the stack.
LEMMA LoneFrame ==
  ASSUME NEW tab \in TableState, NEW hp \in Heaps, NEW q \in Queries, hp[q].state = "live",
         NEW c \in {"notify", "timeout"}, NEW st, st = <<Call(q, c)>>
  PROVE  /\ st \in Seq(Frame) /\ Frames(tab, hp, st)
         /\ Len(st) = 1 /\ st[1] = Call(q, c)
<1> DEFINE f == Call(q, c)
<1>1. f \in Frame /\ f.query = q /\ f.call = c /\ ~ f.told
  BY CallTypes DEF Calls
<1>2. st = Append(<<>>, f) /\ Len(st) = 1 /\ st[1] = f
  OBVIOUS
<1> HIDE DEF f
<1>3. st \in Seq(Frame) /\ Frames(tab, hp, st)
  <2>1. /\ \A i \in 1 .. Len(<<>>) : <<>>[i].query # f.query /\ <<>>[i].told
        /\ ~ (Len(<<>>) > 0)
    OBVIOUS
  <2>2. <<>> \in Seq(Frame) /\ Frames(tab, hp, <<>>) /\ hp[f.query].state = "live"
    BY <1>1, NoFrames
  <2>3. f.call # "init"
    BY <1>1
  <2> QED BY <1>1, <1>2, <2>1, <2>2, <2>3, PushFrames
<1> QED BY <1>2, <1>3 DEF f

\* The invariant holds at the start.
LEMMA InitInv == Init => IInv
<1> SUFFICES ASSUME Init PROVE IInv
  OBVIOUS
<1>1. TypeOK
  BY QueryTableAssumption DEF Init, TypeOK, TableState, Slot, Unborn, NoSweep
<1>2. Agree(table, heap, None)
  BY DEF Init, Agree, SlotsAgree, QueriesAgree, VectorsAgree, Unborn
<1>3. Fresh(heap)
  BY DEF Init, Fresh
<1>4. Tree(table, heap)
  BY DEF Init, Tree, Held, Unborn
<1>5. Frames(table, heap, stack)
  BY NoFrames DEF Init
<1>6. SweepLive(heap, stack, sweep) /\ SweepIdle
  BY NothingIsSwept DEF Init, SweepIdle
<1> QED BY <1>1, <1>2, <1>3, <1>4, <1>5, <1>6 DEF IInv

----------------------------------------------------------------------------
(* Births *)

\* insertNewQuery keeps the table, the heap and the tree.
LEMMA InsertKeeps ==
  ASSUME IInv, NEW q \in Queries, NEW role \in Roles, NEW id \in Ids, NEW at \in Times,
         NEW sub \in Ids \cup {None}, InsertNewQuery(q, role, id, sub, at),
         Running => ~ Top.told,
         sub # None => /\ Running /\ Creates(Top) /\ heap[Top.query].id = sub
                       /\ heap[Top.query].role = "middle" => role = "leaf"
  PROVE  /\ table' \in TableState /\ heap' \in Heaps /\ stack' \in Seq(Frame)
         /\ Agree(table', heap', None) /\ Fresh(heap') /\ Tree(table', heap')
         /\ Frames(table', heap', stack')
         /\ SweepLive(heap', stack', sweep)
         /\ \A i \in 1 .. Len(stack') : Answering(heap', stack'[i]) => sweep = NoSweep
<1> DEFINE n == Len(stack)
           obj == [state |-> "live", role |-> role, id |-> id, subscriber |-> sub]
           f == Call(q, "init")
<1>1. /\ table \in TableState /\ heap \in Heaps /\ stack \in Seq(Frame)
      /\ sweep \in [Times -> Seq(Queries)]
      /\ Agree(table, heap, None) /\ Fresh(heap) /\ Tree(table, heap)
      /\ Frames(table, heap, stack) /\ SweepLive(heap, stack, sweep) /\ SweepIdle
  BY TypeOKMeans DEF IInv
<1>2. /\ heap[q] = Unborn /\ (\A p \in 1 .. q - 1 : heap[p] # Unborn)
      /\ table.byId[id] = NoSlot
      /\ heap' = Changed(heap, q, obj)
      /\ table' = AddTimeout(table, q, id, at)
      /\ stack' = Append(stack, f)
  BY DEF InsertNewQuery, InTable, Changed
<1>3. /\ obj \in QueryObject /\ obj.id = id /\ obj.subscriber = sub /\ obj.role = role
      /\ obj.state = "live"
  BY DEF QueryObject
<1>4. f \in Frame /\ f.query = q /\ f.call = "init" /\ ~ f.told
  BY CallTypes DEF Calls
<1> HIDE DEF obj, f
<1>5. /\ heap' \in Heaps /\ heap'[q] = obj
      /\ \A p \in Queries : p # q => heap'[p] = heap[p]
      /\ Agree(table, heap', q)
  BY <1>1, <1>2, <1>3, BirthAgrees
<1>6. /\ table' \in TableState /\ Agree(table', heap', None)
      /\ table'.byId[id] = [query |-> q, at |-> at]
      /\ \A i \in Ids : i # id => table'.byId[i] = table.byId[i]
  <2>1. heap'[q].state = "live" /\ heap'[q].id = id
    BY <1>3, <1>5
  <2>2. table' = AddTimeout(table, q, heap'[q].id, at) /\ table.byId[heap'[q].id] = NoSlot
    BY <1>2, <2>1
  <2> QED BY <1>1, <1>5, <2>1, <2>2, AddAgrees
<1>7. Fresh(heap')
  <2> SUFFICES ASSUME NEW p \in Queries, heap'[p] # Unborn, NEW r \in 1 .. p - 1
               PROVE  heap'[r] # Unborn
    BY DEF Fresh
  <2>1. obj # Unborn
    BY <1>3 DEF Unborn
  <2>2. r \in Queries
    BY QueryTableAssumption DEF Queries
  <2>3. CASE r = q
    BY <1>5, <2>1, <2>3
  <2>4. CASE r # q
    <3>1. heap[r] # Unborn
      BY <1>1, <1>2, <1>5 DEF Fresh
    <3> QED BY <1>5, <2>2, <2>4, <3>1
  <2> QED BY <2>3, <2>4
<1>8. \A i \in 1 .. n : /\ stack[i].query \in Queries /\ heap[stack[i].query].state = "live"
                        /\ stack[i].query < q /\ stack[i].query # q
                        /\ heap'[stack[i].query] = heap[stack[i].query]
  <2> SUFFICES ASSUME NEW i \in 1 .. n
               PROVE  /\ stack[i].query \in Queries /\ heap[stack[i].query].state = "live"
                      /\ stack[i].query < q /\ stack[i].query # q
                      /\ heap'[stack[i].query] = heap[stack[i].query]
    OBVIOUS
  <2>1. stack[i].query \in Queries /\ heap[stack[i].query].state = "live"
    BY <1>1, FrameTypes DEF Frames, FramesLive
  <2>2. stack[i].query < q
    BY <1>1, <1>2, <2>1, BornAreYounger
  <2>3. stack[i].query # q
    BY <2>1, <1>2 DEF Unborn
  <2> QED BY <1>5, <2>1, <2>2, <2>3
<1>9. Running => n \in 1 .. n /\ n > 0 /\ Top = stack[n]
  <2>1. stack # <<>> => n \in 1 .. n /\ n > 0
    BY <1>1
  <2> QED BY <2>1 DEF Running, Top
\* The creator is innermost: the tree grows by a child of it.
<1>10. sub # None =>
         \E c \in Queries :
           /\ heap[c].state = "live" /\ heap[c].id = sub /\ heap[c].role # "leaf"
           /\ heap[c].role = "middle" =>
                /\ role = "leaf"
                /\ heap[c].subscriber # None => Held(table, heap, c) /\ Holder(table, heap, c) < c
  <2> SUFFICES ASSUME sub # None
               PROVE  \E c \in Queries :
                        /\ heap[c].state = "live" /\ heap[c].id = sub /\ heap[c].role # "leaf"
                        /\ heap[c].role = "middle" =>
                             /\ role = "leaf"
                             /\ heap[c].subscriber # None =>
                                  Held(table, heap, c) /\ Holder(table, heap, c) < c
    OBVIOUS
  <2> DEFINE c == stack[n].query
  <2>1. /\ n \in 1 .. n /\ c \in Queries /\ heap[c].state = "live" /\ heap[c].id = sub
        /\ heap[c].role # "leaf" /\ (heap[c].role = "middle" => role = "leaf" /\ stack[n].call = "init")
    BY <1>8, <1>9 DEF Creates
  <2>2. ASSUME heap[c].role = "middle", heap[c].subscriber # None
        PROVE  Held(table, heap, c) /\ Holder(table, heap, c) < c
    <3> DEFINE b == stack[n - 1].query
    <3>1. n > 1 /\ heap[b].id = heap[c].subscriber /\ b < c
      BY <1>1, <2>1, <2>2 DEF Frames, InitInCreator
    <3>2. n - 1 \in 1 .. n
      BY <1>1, <2>1, <3>1
    <3>3. b \in Queries /\ heap[b].state = "live"
      BY <1>8, <3>2
    <3>4. table.byId[heap[b].id].query = b /\ heap[b].id \in Ids
      BY <1>1, <3>3, NoneIsNew, ObjectTypes DEF Agree, QueriesAgree
    <3>5. table.byId[heap[b].id] # NoSlot
      BY <1>1, <3>3, <3>4, SlotTypes
    <3> HIDE DEF b, c
    <3> QED BY <2>1, <2>2, <3>1, <3>4, <3>5 DEF Held, Holder
  <2> QED BY <2>1, <2>2
<1>11. Tree(table', heap')
  <2>1. table'.byId[obj.id].query = q
    BY <1>3, <1>6
  <2>2. table.byId[obj.id] = NoSlot /\ \A i \in Ids : i # obj.id => table'.byId[i] = table.byId[i]
    BY <1>2, <1>3, <1>6
  <2>3. obj.subscriber # None =>
          \E c \in Queries :
            /\ heap[c].state = "live" /\ heap[c].id = obj.subscriber /\ heap[c].role # "leaf"
            /\ heap[c].role = "middle" =>
                 /\ obj.role = "leaf"
                 /\ heap[c].subscriber # None =>
                      Held(table, heap, c) /\ Holder(table, heap, c) < c
    BY <1>3, <1>10
  <2>4. /\ table \in TableState /\ heap \in Heaps /\ Agree(table, heap, None)
        /\ Fresh(heap) /\ Tree(table, heap)
    BY <1>1
  <2>5. heap[q] = Unborn /\ obj \in QueryObject /\ table' \in TableState
    BY <1>2, <1>3, <1>6
  <2> QED BY <1>5, <2>1, <2>2, <2>3, <2>4, <2>5, BirthTree
<1>12. Frames(table', heap', stack)
  <2>1. \A i \in Ids : \A k \in 1 .. Len(stack) :
          table.byId[i] # NoSlot /\ table.byId[i].query = stack[k].query =>
            table'.byId[i] # NoSlot /\ table'.byId[i].query = stack[k].query
    BY <1>2, <1>6
  <2> QED BY <1>1, <1>8, <2>1, FramesKept
<1>13. stack' \in Seq(Frame) /\ Frames(table', heap', stack')
  <2>1. heap'[f.query].state = "live"
    BY <1>3, <1>4, <1>5
  <2>2. Len(stack) > 0 => ~ stack[Len(stack)].told
    <3>1. Len(stack) > 0 => Running
      BY <1>1 DEF Running
    <3> QED BY <1>9, <3>1
  <2>3. ~ Answering(heap', f)
    BY <1>4 DEF Answering
  <2>4. heap'[f.query].subscriber # None =>
          /\ Len(stack) > 0 /\ heap'[stack[Len(stack)].query].id = heap'[f.query].subscriber
          /\ stack[Len(stack)].query < f.query
    BY <1>3, <1>4, <1>5, <1>8, <1>9
  <2>5. \A i \in 1 .. Len(stack) : stack[i].query # f.query
    BY <1>4, <1>8
  <2> QED BY <1>1, <1>2, <1>4, <1>5, <1>6, <1>12, <2>1, <2>2, <2>3, <2>4, <2>5, PushFrames
<1>14. /\ Len(stack') = n + 1 /\ n \in Nat /\ stack'[n + 1] = f
       /\ \A i \in 1 .. n : stack'[i] = stack[i]
  BY <1>1, <1>2, <1>4
<1>15. SweepLive(heap', stack', sweep)
  <2> SUFFICES ASSUME NEW t \in Times, NEW i \in 1 .. Len(sweep[t])
               PROVE  /\ heap'[sweep[t][i]].state = "live"
                      /\ \A k \in 1 .. Len(stack') : stack'[k].query # sweep[t][i]
                      /\ \A u \in Times : \A j \in 1 .. Len(sweep[u]) :
                           sweep[u][j] = sweep[t][i] => u = t /\ j = i
    BY DEF SweepLive
  <2> DEFINE p == sweep[t][i]
  <2>1. p \in Queries
    BY <1>1
  <2>2. /\ heap[p].state = "live" /\ \A k \in 1 .. n : stack[k].query # p
        /\ \A u \in Times : \A j \in 1 .. Len(sweep[u]) : sweep[u][j] = p => u = t /\ j = i
    BY <1>1 DEF SweepLive
  <2>3. p # q
    BY <1>2, <2>2 DEF Unborn
  <2>4. \A k \in 1 .. Len(stack') : stack'[k].query # p
    <3>1. \A k \in 1 .. n + 1 : k \in 1 .. n \/ k = n + 1
      BY <1>14
    <3> QED BY <1>4, <1>14, <2>2, <2>3, <3>1
  <2> QED BY <1>5, <2>1, <2>2, <2>3, <2>4
<1>16. ASSUME NEW i \in 1 .. Len(stack'), Answering(heap', stack'[i])
       PROVE  sweep = NoSweep
  <2>1. i # n + 1
    BY <1>4, <1>14, <1>16 DEF Answering
  <2>2. i \in 1 .. n /\ stack'[i] = stack[i]
    BY <1>14, <2>1
  <2>3. Answering(heap, stack[i])
    BY <1>8, <1>16, <2>2 DEF Answering
  <2> QED BY <1>1, <2>2, <2>3 DEF SweepIdle
<1> QED BY <1>5, <1>6, <1>7, <1>11, <1>13, <1>15, <1>16

----------------------------------------------------------------------------
(* Returns *)

\* A handler asks for a time or for its end.
LEMMA OutcomeTypes ==
  ASSUME TypeOK, NEW f \in Frame, heap[f.query].state = "live", NEW next \in Outcomes(f)
  PROVE  next = None \/ next \in Times
<1> DEFINE now == table.byId[heap[f.query].id].at
           later == {t \in Times : t > clock}
<1>1. now \in Times
  <2>1. f.query \in Queries
    BY DEF Frame
  <2> QED BY <2>1, TypeOKMeans, ObjectTypes, SlotTypes
<1>2. later \subseteq Times
  OBVIOUS
<1>3. Outcomes(f) \subseteq {None, now} \cup later
  <2> HIDE DEF now, later
  <2> QED BY DEF Outcomes, now, later
<1> QED BY <1>1, <1>2, <1>3

\* The tree only loses what leaves the table.
LEMMA TreeKept ==
  ASSUME NEW tab \in TableState, NEW hp \in Heaps, Tree(tab, hp),
         NEW tab2 \in TableState, NEW hp2 \in Heaps,
         \A p \in Queries : hp2[p].state = "live" => hp2[p] = hp[p],
         \A id \in Ids : tab2.byId[id] # NoSlot =>
           /\ tab.byId[id] # NoSlot /\ tab2.byId[id].query = tab.byId[id].query
           /\ hp2[tab2.byId[id].query].state = "live"
  PROVE  Tree(tab2, hp2)
<1>1. ASSUME NEW p \in Queries, Held(tab2, hp2, p)
      PROVE  /\ Held(tab, hp, p) /\ Holder(tab2, hp2, p) = Holder(tab, hp, p)
             /\ hp2[p] = hp[p] /\ hp2[Holder(tab, hp, p)] = hp[Holder(tab, hp, p)]
             /\ Holder(tab, hp, p) \in Queries
  <2>1. hp2[p].subscriber \in Ids /\ Holder(tab2, hp2, p) \in Queries /\ hp2[p] = hp[p]
    BY <1>1, HolderTypes DEF Held
  <2>2. Held(tab, hp, p) /\ Holder(tab2, hp2, p) = Holder(tab, hp, p)
    BY <1>1, <2>1 DEF Held, Holder
  <2>3. hp2[Holder(tab2, hp2, p)].state = "live"
    BY <1>1, <2>1 DEF Held, Holder
  <2> QED BY <2>1, <2>2, <2>3
<1> SUFFICES ASSUME NEW p \in Queries, Held(tab2, hp2, p)
             PROVE  LET h == Holder(tab2, hp2, p) IN
                    /\ h # p
                    /\ h < p => /\ hp2[h].role # "leaf"
                                /\ hp2[h].role = "middle" =>
                                     /\ hp2[p].role = "leaf"
                                     /\ Held(tab2, hp2, h) =>
                                          \/ Holder(tab2, hp2, h) < h
                                          \/ Holder(tab2, hp2, h) > p
  BY DEF Tree
<1> DEFINE h == Holder(tab, hp, p)
<1>2. /\ Held(tab, hp, p) /\ Holder(tab2, hp2, p) = h /\ h \in Queries
      /\ hp2[p] = hp[p] /\ hp2[h] = hp[h]
  BY <1>1
<1>3. Held(tab2, hp2, h) => Held(tab, hp, h) /\ Holder(tab2, hp2, h) = Holder(tab, hp, h)
  BY <1>1, <1>2
<1>4. /\ h # p
      /\ h < p => /\ hp[h].role # "leaf"
                  /\ hp[h].role = "middle" =>
                       /\ hp[p].role = "leaf"
                       /\ Held(tab, hp, h) => (Holder(tab, hp, h) < h \/ Holder(tab, hp, h) > p)
  BY <1>2 DEF Tree
<1> HIDE DEF h
<1> QED BY <1>2, <1>3, <1>4

\* The new timeout of a query, or its end, keeps them.
LEMMA UpdateKeeps ==
  ASSUME table \in TableState, heap \in Heaps, Agree(table, heap, None),
         Fresh(heap), Tree(table, heap),
         NEW q \in Queries, heap[q].state = "live",
         NEW next, next = None \/ next \in Times, UpdateTimeout(q, next)
  PROVE  /\ table' \in TableState /\ heap' \in Heaps /\ Agree(table', heap', None)
         /\ Fresh(heap') /\ Tree(table', heap')
         /\ \A p \in Queries : p # q => heap'[p] = heap[p]
         /\ \A id \in Ids : table.byId[id] # NoSlot /\ table.byId[id].query # q =>
              table'.byId[id] = table.byId[id]
<1> DEFINE id == heap[q].id
           left == RemoveOldTimeout(table, q, id)
<1>1. id \in Ids /\ table.byId[id].query = q /\ table.byId[id] # NoSlot
  BY ObjectTypes, SlotTypes, NoneIsNew DEF Agree, QueriesAgree
<1>2. /\ left \in TableState /\ Agree(left, heap, q) /\ left.byId[id] = NoSlot
      /\ \A i \in Ids : i # id => left.byId[i] = table.byId[i]
  BY RemoveAgrees
<1>3. \/ /\ table' = left
         /\ heap' = Changed(heap, q, Deleted)
      \/ /\ next \in Times
         /\ table' = AddTimeout(left, q, id, next)
         /\ heap' = heap
  BY NoneIsNew DEF UpdateTimeout, Changed
<1> HIDE DEF left, id
<1>4. /\ table' \in TableState /\ heap' \in Heaps /\ Agree(table', heap', None)
      /\ \A p \in Queries : p # q => heap'[p] = heap[p]
      /\ \A i \in Ids : i # id => table'.byId[i] = table.byId[i]
      /\ \/ heap' = heap /\ table'.byId[id] = [query |-> q, at |-> next]
         \/ heap'[q] = Deleted /\ table'.byId[id] = NoSlot
  <2>1. CASE table' = left /\ heap' = Changed(heap, q, Deleted)
    <3>1. /\ heap' \in Heaps /\ heap'[q] = Deleted /\ Agree(left, heap', None)
          /\ \A p \in Queries : p # q => heap'[p] = heap[p]
      BY <1>2, <2>1, DeathAgrees
    <3> QED BY <1>2, <2>1, <3>1
  <2>2. CASE next \in Times /\ table' = AddTimeout(left, q, id, next) /\ heap' = heap
    <3>1. left.byId[heap[q].id] = NoSlot /\ table' = AddTimeout(left, q, heap[q].id, next)
      BY <1>2, <2>2 DEF id
    <3>2. /\ table' \in TableState /\ Agree(table', heap, None)
          /\ table'.byId[heap[q].id] = [query |-> q, at |-> next]
          /\ \A i \in Ids : i # heap[q].id => table'.byId[i] = left.byId[i]
      BY <1>2, <2>2, <3>1, AddAgrees
    <3> QED BY <1>2, <2>2, <3>2 DEF id
  <2> QED BY <1>3, <2>1, <2>2
<1>5. heap[q] # Unborn
  BY DEF Unborn
<1>6. \A p \in Queries : heap'[p] = Unborn <=> heap[p] = Unborn
  BY <1>4, <1>5 DEF Unborn, Deleted
<1>7. Fresh(heap')
  <2>1. \A p \in Queries : 1 .. p - 1 \subseteq Queries
    BY QueryTableAssumption DEF Queries
  <2> QED BY <1>6, <2>1 DEF Fresh
<1>8. Tree(table', heap')
  <2>1. \A p \in Queries : heap'[p].state = "live" => heap'[p] = heap[p]
    BY <1>4 DEF Deleted
  <2>2. ASSUME NEW i \in Ids, table'.byId[i] # NoSlot
        PROVE  /\ table.byId[i] # NoSlot /\ table'.byId[i].query = table.byId[i].query
               /\ heap'[table'.byId[i].query].state = "live"
    <3>1. heap'[table'.byId[i].query].state = "live"
      BY <1>4, <2>2 DEF Agree, SlotsAgree
    <3>2. CASE i = id
      <4>1. table'.byId[id] = [query |-> q, at |-> next]
        BY <1>4, <2>2, <3>2
      <4> QED BY <1>1, <3>1, <3>2, <4>1
    <3>3. CASE i # id
      BY <1>4, <2>2, <3>1, <3>3
    <3> QED BY <3>2, <3>3
  <2> QED BY <1>4, <2>1, <2>2, TreeKept
<1>9. \A i \in Ids : table.byId[i] # NoSlot /\ table.byId[i].query # q => i # id
  BY <1>1
<1> QED BY <1>4, <1>7, <1>8, <1>9

\* The queries still to be swept are alive.
LEMMA SweepKept ==
  ASSUME NEW hp \in Heaps, NEW st \in Seq(Frame), NEW sw \in [Times -> Seq(Queries)],
         SweepLive(hp, st, sw), NEW hp2, NEW st2 \in Seq(Frame),
         \A p \in Queries : hp[p].state = "live" /\ hp2[p] # hp[p] =>
           \E k \in 1 .. Len(st) : st[k].query = p,
         \A i \in 1 .. Len(st2) : \E k \in 1 .. Len(st) : st2[i].query = st[k].query
  PROVE  SweepLive(hp2, st2, sw)
<1> SUFFICES ASSUME NEW t \in Times, NEW i \in 1 .. Len(sw[t])
             PROVE  /\ hp2[sw[t][i]].state = "live"
                    /\ \A k \in 1 .. Len(st2) : st2[k].query # sw[t][i]
                    /\ \A u \in Times : \A j \in 1 .. Len(sw[u]) :
                         sw[u][j] = sw[t][i] => u = t /\ j = i
  BY DEF SweepLive
<1> DEFINE p == sw[t][i]
<1>1. p \in Queries
  OBVIOUS
<1>2. /\ hp[p].state = "live" /\ \A k \in 1 .. Len(st) : st[k].query # p
      /\ \A u \in Times : \A j \in 1 .. Len(sw[u]) : sw[u][j] = p => u = t /\ j = i
  BY DEF SweepLive
<1> HIDE DEF p
<1>3. hp2[p] = hp[p]
  BY <1>1, <1>2
<1>4. \A k \in 1 .. Len(st2) : st2[k].query # p
  BY <1>2
<1> QED BY <1>2, <1>3, <1>4 DEF p

----------------------------------------------------------------------------
(* The steps *)

\* The invariant, part by part.
LEMMA InvParts ==
  ASSUME IInv
  PROVE  /\ table \in TableState /\ heap \in Heaps /\ stack \in Seq(Frame)
         /\ sweep \in [Times -> Seq(Queries)]
         /\ phase \in {"timeouts", "events"} /\ clock \in 0 .. MaxClock
         /\ Agree(table, heap, None) /\ Fresh(heap) /\ Tree(table, heap)
         /\ Frames(table, heap, stack) /\ SweepLive(heap, stack, sweep)
         /\ phase = "events" => sweep = NoSweep
         /\ \A i \in 1 .. Len(stack) : Answering(heap, stack[i]) => sweep = NoSweep
BY TypeOKMeans DEF IInv, SweepIdle

\* And put together again.
LEMMA InvFromParts ==
  ASSUME table' \in TableState, heap' \in Heaps, stack' \in Seq(Frame),
         sweep' \in [Times -> Seq(Queries)],
         phase' \in {"timeouts", "events"}, clock' \in 0 .. MaxClock,
         Agree(table', heap', None), Fresh(heap'), Tree(table', heap'),
         Frames(table', heap', stack'), SweepLive(heap', stack', sweep'),
         phase' = "events" => sweep' = NoSweep,
         \A i \in 1 .. Len(stack') : Answering(heap', stack'[i]) => sweep' = NoSweep
  PROVE  IInv'
<1>1. TypeOK'
  BY DEF TypeOK, Heaps
<1>2. SweepIdle'
  BY DEF SweepIdle, Answering
<1>3. Agree(table, heap, None)'
  BY DEF Agree, SlotsAgree, QueriesAgree, VectorsAgree
<1>4. Fresh(heap)'
  BY DEF Fresh
<1>5. Tree(table, heap)'
  BY DEF Tree, Held, Holder
<1>6. Frames(table, heap, stack)'
  BY DEF Frames, FramesLive, FramesDistinct, OnlyAnswersAreTold, ToldIsAbove,
         AnswersOnAnswers, InitInCreator, Rising, Answering, Held, Holder
<1>7. SweepLive(heap, stack, sweep)'
  BY DEF SweepLive
<1> QED BY <1>1, <1>2, <1>3, <1>4, <1>5, <1>6, <1>7 DEF IInv

\* The handler that runs belongs to a query that is alive.
LEMMA TopFrame ==
  ASSUME IInv, Running
  PROVE  /\ Len(stack) > 0 /\ Len(stack) \in 1 .. Len(stack) /\ Top = stack[Len(stack)]
         /\ Top \in Frame /\ Top.query \in Queries /\ heap[Top.query].state = "live"
<1>1. /\ stack \in Seq(Frame) /\ Frames(table, heap, stack)
  BY InvParts
<1>2. Len(stack) > 0 /\ Len(stack) \in 1 .. Len(stack) /\ Top = stack[Len(stack)]
  BY <1>1 DEF Running, Top
<1> QED BY <1>1, <1>2, FrameTypes DEF Frames, FramesLive

\* A handler makes a subquery.
LEMMA CreateQueryInv ==
  ASSUME IInv, NEW q \in Queries, NEW role \in Roles, NEW id \in Ids, NEW at \in Times,
         CreateQuery(q, role, id, at)
  PROVE  IInv'
<1> DEFINE sub == IF role = "root" THEN None ELSE heap[Top.query].id
<1>1. /\ Running /\ Creates(Top) /\ ~ Top.told
      /\ role \in (IF heap[Top.query].role = "root" THEN Roles ELSE {"leaf"})
      /\ InsertNewQuery(q, role, id, sub, at)
      /\ sweep' = sweep /\ phase' = phase /\ clock' = clock
  BY DEF CreateQuery
<1>2. heap[Top.query].id \in Ids
  BY <1>1, TopFrame, InvParts, ObjectTypes
<1>3. /\ sub \in Ids \cup {None}
      /\ sub # None => heap[Top.query].id = sub
      /\ heap[Top.query].role = "middle" => role = "leaf"
  BY <1>1, <1>2
<1> HIDE DEF sub
<1>4. /\ table' \in TableState /\ heap' \in Heaps /\ stack' \in Seq(Frame)
      /\ Agree(table', heap', None) /\ Fresh(heap') /\ Tree(table', heap')
      /\ Frames(table', heap', stack') /\ SweepLive(heap', stack', sweep)
      /\ \A i \in 1 .. Len(stack') : Answering(heap', stack'[i]) => sweep = NoSweep
  BY <1>1, <1>3, InsertKeeps
<1> QED BY <1>1, <1>4, InvParts, InvFromParts

\* The event loop makes a query.
LEMMA StartQueryInv ==
  ASSUME IInv, NEW q \in Queries, NEW role \in Roles, NEW id \in Ids, NEW at \in Times,
         StartQuery(q, role, id, at)
  PROVE  IInv'
<1>1. /\ phase = "events" /\ ~ Running
      /\ InsertNewQuery(q, role, id, None, at)
      /\ sweep' = sweep /\ phase' = "timeouts" /\ clock' = clock
  BY DEF StartQuery
<1>2. /\ table' \in TableState /\ heap' \in Heaps /\ stack' \in Seq(Frame)
      /\ Agree(table', heap', None) /\ Fresh(heap') /\ Tree(table', heap')
      /\ Frames(table', heap', stack') /\ SweepLive(heap', stack', sweep)
      /\ \A i \in 1 .. Len(stack') : Answering(heap', stack'[i]) => sweep = NoSweep
  BY <1>1, InsertKeeps
<1> QED BY <1>1, <1>2, InvParts, InvFromParts

\* A handler returns.
LEMMA ReturnFromHandlerInv ==
  ASSUME IInv, ReturnFromHandler
  PROVE  IInv'
<1> DEFINE q == Top.query
           below == Caller(stack)
<1>1. PICK next \in Outcomes(Top) : UpdateTimeout(q, next)
  BY DEF ReturnFromHandler
<1>2. /\ Running /\ stack' = below /\ sweep' = sweep /\ phase' = phase /\ clock' = clock
  BY DEF ReturnFromHandler
<1>3. /\ Len(stack) > 0 /\ Len(stack) \in 1 .. Len(stack) /\ Top = stack[Len(stack)]
      /\ Top \in Frame /\ q \in Queries /\ heap[q].state = "live"
  BY <1>2, TopFrame
<1>4. next = None \/ next \in Times
  BY <1>1, <1>3, OutcomeTypes DEF IInv
<1>5. /\ table \in TableState /\ heap \in Heaps /\ stack \in Seq(Frame)
      /\ sweep \in [Times -> Seq(Queries)]
      /\ Agree(table, heap, None) /\ Fresh(heap) /\ Tree(table, heap)
      /\ Frames(table, heap, stack) /\ SweepLive(heap, stack, sweep)
      /\ \A i \in 1 .. Len(stack) : Answering(heap, stack[i]) => sweep = NoSweep
  BY InvParts
<1>6. /\ below \in Seq(Frame) /\ Frames(table, heap, below)
      /\ \A i \in 1 .. Len(below) : below[i] = stack[i] /\ below[i].query # q
  BY <1>3, <1>5, PopFrames
<1>7. Len(below) = Len(stack) - 1
  BY <1>3, <1>5, CallerTypes
<1> HIDE DEF q, below
<1>8. /\ table' \in TableState /\ heap' \in Heaps /\ Agree(table', heap', None)
      /\ Fresh(heap') /\ Tree(table', heap')
      /\ \A p \in Queries : p # q => heap'[p] = heap[p]
      /\ \A id \in Ids : table.byId[id] # NoSlot /\ table.byId[id].query # q =>
           table'.byId[id] = table.byId[id]
  BY <1>1, <1>3, <1>4, <1>5, UpdateKeeps
<1>9. \A i \in 1 .. Len(below) : /\ below[i].query \in Queries /\ i \in 1 .. Len(stack)
                                 /\ heap'[below[i].query] = heap[below[i].query]
  BY <1>5, <1>6, <1>7, <1>8, FrameTypes
<1>10. Frames(table', heap', below)
  <2>1. \A id \in Ids : \A i \in 1 .. Len(below) :
          table.byId[id] # NoSlot /\ table.byId[id].query = below[i].query =>
            table'.byId[id] # NoSlot /\ table'.byId[id].query = below[i].query
    BY <1>6, <1>8
  <2> QED BY <1>5, <1>6, <1>9, <2>1, FramesKept
<1>11. SweepLive(heap', below, sweep)
  <2>1. \A p \in Queries : heap[p].state = "live" /\ heap'[p] # heap[p] =>
          \E k \in 1 .. Len(stack) : stack[k].query = p
    BY <1>3, <1>8 DEF q
  <2>2. \A i \in 1 .. Len(below) : \E k \in 1 .. Len(stack) : below[i].query = stack[k].query
    BY <1>6, <1>9
  <2> QED BY <1>5, <1>6, <2>1, <2>2, SweepKept
<1>12. \A i \in 1 .. Len(below) : Answering(heap', below[i]) => sweep = NoSweep
  BY <1>5, <1>6, <1>9 DEF Answering
<1> QED BY <1>2, <1>6, <1>8, <1>10, <1>11, <1>12, InvParts, InvFromParts

\* An init returns.
LEMMA ReturnFromInitInv ==
  ASSUME IInv, ReturnFromInit
  PROVE  IInv'
<1> DEFINE below == Caller(stack)
<1>1. /\ Running /\ stack' = below
      /\ table' = table /\ heap' = heap /\ sweep' = sweep /\ phase' = phase /\ clock' = clock
  BY DEF ReturnFromInit
<1>2. Len(stack) > 0
  BY <1>1, TopFrame
<1>3. /\ table \in TableState /\ heap \in Heaps /\ stack \in Seq(Frame)
      /\ sweep \in [Times -> Seq(Queries)]
      /\ Frames(table, heap, stack) /\ SweepLive(heap, stack, sweep)
      /\ \A i \in 1 .. Len(stack) : Answering(heap, stack[i]) => sweep = NoSweep
  BY InvParts
<1>4. /\ below \in Seq(Frame) /\ Frames(table, heap, below)
      /\ \A i \in 1 .. Len(below) : below[i] = stack[i]
  BY <1>2, <1>3, PopFrames
<1>5. Len(below) = Len(stack) - 1 /\ Len(stack) \in Nat
  BY <1>2, <1>3, CallerTypes, FrameTypes
<1> HIDE DEF below
<1>6. \A i \in 1 .. Len(below) : i \in 1 .. Len(stack)
  BY <1>5
<1>7. SweepLive(heap, below, sweep)
  BY <1>3, <1>4, <1>6, SweepKept
<1>8. \A i \in 1 .. Len(below) : Answering(heap, below[i]) => sweep = NoSweep
  BY <1>3, <1>4, <1>6
<1> QED BY <1>1, <1>4, <1>7, <1>8, InvParts, InvFromParts

\* A query notifies itself.
LEMMA NotifySelfInv ==
  ASSUME IInv, NotifySelf
  PROVE  IInv'
<1> DEFINE below == Caller(stack)
           f == Call(Top.query, "notify")
<1>1. /\ Running /\ heap[Top.query].role = "root" /\ stack' = Append(below, f)
      /\ Top.call = "init"
      /\ table' = table /\ heap' = heap /\ sweep' = sweep /\ phase' = phase /\ clock' = clock
  BY DEF NotifySelf
<1>2. /\ Len(stack) > 0 /\ Len(stack) \in 1 .. Len(stack) /\ Top = stack[Len(stack)]
      /\ Top.query \in Queries /\ heap[Top.query].state = "live"
  BY <1>1, TopFrame
<1>3. /\ table \in TableState /\ heap \in Heaps /\ stack \in Seq(Frame)
      /\ sweep \in [Times -> Seq(Queries)]
      /\ Frames(table, heap, stack) /\ SweepLive(heap, stack, sweep)
      /\ \A i \in 1 .. Len(stack) : Answering(heap, stack[i]) => sweep = NoSweep
  BY InvParts
<1>4. /\ below \in Seq(Frame) /\ Frames(table, heap, below)
      /\ \A i \in 1 .. Len(below) : below[i] = stack[i] /\ below[i].query # Top.query
  BY <1>2, <1>3, PopFrames
<1>5. Len(below) = Len(stack) - 1 /\ Len(stack) \in Nat
  BY <1>2, <1>3, CallerTypes, FrameTypes
<1>6. f \in Frame /\ f.query = Top.query /\ f.call = "notify" /\ ~ f.told
  BY <1>2, CallTypes DEF Calls
<1> HIDE DEF below, f
<1>7. \A i \in 1 .. Len(below) : i \in 1 .. Len(stack)
  BY <1>5
<1>8. ~ Answering(heap, f)
  BY <1>1, <1>6 DEF Answering
\* What the init frame was to the frames below it, the notify frame is.
<1>9. Len(below) > 0 /\ below[Len(below)].told =>
        /\ Held(table, heap, below[Len(below)].query)
        /\ Holder(table, heap, below[Len(below)].query) = f.query
        /\ below[Len(below)].query < f.query =>
             \A i \in 1 .. Len(below) : below[i].query < f.query
  <2> SUFFICES ASSUME Len(below) > 0, below[Len(below)].told
               PROVE  /\ Held(table, heap, below[Len(below)].query)
                      /\ Holder(table, heap, below[Len(below)].query) = f.query
                      /\ below[Len(below)].query < f.query =>
                           \A i \in 1 .. Len(below) : below[i].query < f.query
    OBVIOUS
  <2> DEFINE m == Len(below)
  <2>1. m \in 1 .. Len(stack) - 1 /\ m + 1 = Len(stack) /\ m \in 1 .. Len(below)
    BY <1>5
  <2>2. stack[m].told /\ stack[m] = below[m] /\ stack[m + 1].query = f.query
    BY <1>2, <1>4, <1>6, <2>1
  <2>3. Held(table, heap, stack[m].query) /\ Holder(table, heap, stack[m].query) = f.query
    BY <1>3, <2>1, <2>2 DEF Frames, ToldIsAbove
  <2>4. stack[m].query < f.query => \A i \in 1 .. m : stack[i].query < f.query
    BY <1>3, <2>1, <2>2 DEF Frames, Rising
  <2> QED BY <1>4, <2>2, <2>3, <2>4
<1>10. stack' \in Seq(Frame) /\ Frames(table, heap, stack')
  <2>1. /\ heap[f.query].state = "live" /\ f.call # "init"
        /\ \A i \in 1 .. Len(below) : below[i].query # f.query
    BY <1>2, <1>4, <1>6
  <2> QED BY <1>1, <1>3, <1>4, <1>6, <1>8, <1>9, <2>1, PushFrames
<1>11. /\ Len(stack') = Len(stack) /\ stack'[Len(stack)] = f
       /\ \A i \in 1 .. Len(below) : stack'[i] = stack[i]
  BY <1>1, <1>4, <1>5
<1>12. \A i \in 1 .. Len(stack') : i = Len(stack) \/ i \in 1 .. Len(below)
  BY <1>5, <1>11
<1>13. SweepLive(heap, stack', sweep)
  <2>1. \A i \in 1 .. Len(stack') : \E k \in 1 .. Len(stack) : stack'[i].query = stack[k].query
    BY <1>2, <1>6, <1>7, <1>11, <1>12
  <2> QED BY <1>3, <1>10, <2>1, SweepKept
<1>14. \A i \in 1 .. Len(stack') : Answering(heap, stack'[i]) => sweep = NoSweep
  BY <1>3, <1>7, <1>8, <1>11, <1>12
<1> QED BY <1>1, <1>10, <1>13, <1>14, InvParts, InvFromParts

\* A query tells the one it was made for.
LEMMA TellSubscriberInv ==
  ASSUME IInv, TellSubscriber
  PROVE  IInv'
<1> DEFINE n == Len(stack)
           slot == table.byId[heap[Top.query].subscriber]
           told == TopTold(stack)
           f == Call(slot.query, "notify")
<1>1. /\ Running /\ Tells(Top)
      /\ table' = table /\ heap' = heap /\ sweep' = sweep /\ phase' = phase /\ clock' = clock
  BY DEF TellSubscriber
<1>2. stack' = told \/ (slot # NoSlot /\ stack' = Append(told, f))
  BY DEF TellSubscriber, TopTold
<1>3. /\ n > 0 /\ n \in 1 .. n /\ n \in Nat /\ Top = stack[n]
      /\ Top.query \in Queries /\ heap[Top.query].state = "live"
  BY <1>1, TopFrame
<1>4. /\ table \in TableState /\ heap \in Heaps /\ stack \in Seq(Frame)
      /\ sweep \in [Times -> Seq(Queries)]
      /\ Agree(table, heap, None) /\ Tree(table, heap)
      /\ Frames(table, heap, stack) /\ SweepLive(heap, stack, sweep)
      /\ \A i \in 1 .. n : Answering(heap, stack[i]) => sweep = NoSweep
  BY InvParts
<1>5. Answering(heap, stack[n]) /\ heap[stack[n].query].subscriber # None
  BY <1>1, <1>3 DEF Tells, Answering
<1>6. sweep = NoSweep
  BY <1>3, <1>4, <1>5
<1>7. /\ told \in Seq(Frame) /\ Len(told) = n /\ Frames(table, heap, told)
      /\ \A i \in 1 .. n : told[i].query = stack[i].query /\ told[i].call = stack[i].call
      /\ told[n].told
      /\ \A i \in 1 .. n - 1 : told[i] = stack[i]
  BY <1>3, <1>4, <1>5, MarkTold
<1> HIDE DEF told
<1>8. stack' \in Seq(Frame) /\ Frames(table, heap, stack')
  <2>1. CASE stack' = told
    BY <1>7, <2>1
  <2>2. CASE slot # NoSlot /\ stack' = Append(told, f)
    <3>1. Held(table, heap, stack[n].query) /\ slot.query = Holder(table, heap, stack[n].query)
      BY <1>3, <1>5, <2>2 DEF Held, Holder
    <3>2. slot.query \in Queries /\ heap[slot.query].state = "live"
      <4>1. heap[Top.query].subscriber \in Ids
        BY <1>3, <1>4, <3>1, HolderTypes
      <4> QED BY <1>4, <2>2, <4>1, SlotTypes DEF Agree, SlotsAgree
    <3>3. f \in Frame /\ f.query = slot.query /\ f.call = "notify" /\ ~ f.told
      BY <3>2, CallTypes DEF Calls
    <3> HIDE DEF f, slot
    <3>4. /\ \A i \in 1 .. n : stack[i].query # f.query
          /\ stack[n].query < f.query => \A i \in 1 .. n : stack[i].query < f.query
      BY <1>3, <1>4, <1>5, <3>1, <3>3, SubscriberIsNew
    <3>5. /\ \A i \in 1 .. Len(told) : told[i].query # f.query
          /\ told[Len(told)].query < f.query => \A i \in 1 .. Len(told) : told[i].query < f.query
          /\ Held(table, heap, told[Len(told)].query)
          /\ Holder(table, heap, told[Len(told)].query) = f.query
      BY <1>3, <1>7, <3>1, <3>3, <3>4
    <3>6. \A i \in 1 .. Len(told) : told[i].told
      <4>1. \A j \in 1 .. n - 1 : stack[j].told
        BY <1>3, <1>4, <1>5 DEF Frames, AnswersOnAnswers
      <4>2. \A j \in 1 .. n : j = n \/ j \in 1 .. n - 1
        BY <1>3
      <4> QED BY <1>7, <4>1, <4>2
    <3>7. f.call # "init" /\ heap[f.query].state = "live"
      BY <3>2, <3>3
    <3> QED BY <1>4, <1>7, <2>2, <3>3, <3>5, <3>6, <3>7, PushFrames
  <2> QED BY <1>2, <2>1, <2>2
<1>9. SweepLive(heap, stack', NoSweep)
  BY NothingIsSwept
<1> QED BY <1>1, <1>6, <1>8, <1>9, InvParts, InvFromParts

\* A packet is delivered to its query.
LEMMA DeliverInv ==
  ASSUME IInv, NEW id \in Ids, Deliver(id)
  PROVE  IInv'
<1> DEFINE q == table.byId[id].query
<1>1. /\ phase = "events" /\ table.byId[id] # NoSlot
      /\ stack' = <<Call(q, "notify")>> /\ phase' = "timeouts"
      /\ table' = table /\ heap' = heap /\ sweep' = sweep /\ clock' = clock
  BY DEF Deliver, InTable
<1>2. /\ table \in TableState /\ heap \in Heaps /\ Agree(table, heap, None) /\ sweep = NoSweep
  BY <1>1, InvParts
<1>3. q \in Queries /\ heap[q].state = "live"
  BY <1>1, <1>2, SlotTypes DEF Agree, SlotsAgree
<1> HIDE DEF q
<1>4. stack' \in Seq(Frame) /\ Frames(table, heap, stack')
  BY <1>1, <1>2, <1>3, LoneFrame
<1>5. SweepLive(heap, stack', NoSweep)
  BY NothingIsSwept
<1> QED BY <1>1, <1>2, <1>4, <1>5, InvParts, InvFromParts

\* The queries that are due are listed.
LEMMA HandleTimeoutInv ==
  ASSUME IInv, HandleTimeout
  PROVE  IInv'
<1> DEFINE sw == [t \in Times |-> IF t <= clock THEN table.byTime[t] ELSE <<>>]
<1>1. /\ phase = "timeouts" /\ stack = <<>> /\ sweep' = sw
      /\ table' = table /\ heap' = heap /\ stack' = stack /\ phase' = phase /\ clock' = clock
  BY DEF HandleTimeout, Running
<1>2. table \in TableState /\ Agree(table, heap, None) /\ Len(stack) = 0
  BY <1>1, InvParts
<1>3. \A t \in Times : sw[t] = table.byTime[t] \/ sw[t] = <<>>
  OBVIOUS
<1>4. sw \in [Times -> Seq(Queries)]
  BY <1>2 DEF TableState
<1> HIDE DEF sw
<1>5. ASSUME NEW t \in Times, NEW i \in 1 .. Len(sw[t])
      PROVE  /\ sw[t] = table.byTime[t] /\ i \in 1 .. Len(table.byTime[t])
             /\ heap[sw[t][i]].state = "live" /\ table.byId[heap[sw[t][i]].id].at = t
             /\ \A j \in 1 .. Len(sw[t]) : sw[t][j] = sw[t][i] => i = j
  <2>1. sw[t] = table.byTime[t]
    BY <1>3, <1>5
  <2> QED BY <1>2, <2>1 DEF Agree, VectorsAgree
<1>6. SweepLive(heap, stack, sw)
  <2> SUFFICES ASSUME NEW t \in Times, NEW i \in 1 .. Len(sw[t]),
                      NEW u \in Times, NEW j \in 1 .. Len(sw[u]), sw[u][j] = sw[t][i]
               PROVE  u = t /\ j = i
    BY <1>2, <1>5 DEF SweepLive
  <2>1. table.byId[heap[sw[t][i]].id].at = t /\ table.byId[heap[sw[u][j]].id].at = u
    BY <1>5
  <2>2. u = t
    BY <2>1
  <2> QED BY <1>5, <2>2
<1> QED BY <1>1, <1>2, <1>4, <1>6, InvParts, InvFromParts

\* The next of them times out.
LEMMA TimeOutNextInv ==
  ASSUME IInv, TimeOutNext
  PROVE  IInv'
<1>1. PICK t \in Times : /\ sweep[t] # <<>>
                         /\ stack' = <<Call(Head(sweep[t]), "timeout")>>
                         /\ sweep' = [sweep EXCEPT ![t] = Tail(@)]
  BY DEF TimeOutNext
<1>2. /\ table' = table /\ heap' = heap /\ phase' = phase /\ clock' = clock
  BY DEF TimeOutNext
<1>3. /\ table \in TableState /\ heap \in Heaps /\ sweep \in [Times -> Seq(Queries)]
      /\ SweepLive(heap, stack, sweep) /\ (phase = "events" => sweep = NoSweep)
  BY InvParts
<1> DEFINE v == sweep[t]
           q == Head(v)
<1>4. v \in Seq(Queries) /\ v # <<>>
  BY <1>1, <1>3
<1>5. /\ Tail(v) \in Seq(Queries) /\ Len(Tail(v)) = Len(v) - 1 /\ Len(v) \in Nat /\ Len(v) >= 1
      /\ \A i \in 1 .. Len(Tail(v)) : Tail(v)[i] = v[i + 1]
      /\ q = v[1] /\ 1 \in 1 .. Len(v)
  BY <1>4
<1>6. /\ sweep'[t] = Tail(v) /\ \A u \in Times : u # t => sweep'[u] = sweep[u]
  BY <1>1, <1>3
<1>7. sweep' \in [Times -> Seq(Queries)]
  BY <1>1, <1>3, <1>5
<1>8. /\ q \in Queries /\ heap[q].state = "live"
      /\ \A u \in Times : \A j \in 1 .. Len(sweep[u]) : sweep[u][j] = q => u = t /\ j = 1
  BY <1>3, <1>4, <1>5 DEF SweepLive
<1> HIDE DEF q
<1>9. /\ stack' \in Seq(Frame) /\ Frames(table, heap, stack')
      /\ Len(stack') = 1 /\ stack'[1] = Call(q, "timeout")
  BY <1>1, <1>3, <1>8, LoneFrame DEF q
<1>10. Call(q, "timeout").query = q /\ Call(q, "timeout").call = "timeout"
  BY DEF Call
<1> HIDE DEF v
\* What is left of the list was on it, and was not its first query.
<1>11. ASSUME NEW u \in Times, NEW j \in 1 .. Len(sweep'[u])
       PROVE  \E k \in 1 .. Len(sweep[u]) :
                /\ sweep'[u][j] = sweep[u][k] /\ sweep[u][k] # q
                /\ k = IF u = t THEN j + 1 ELSE j
  <2>1. CASE u = t
    <3>1. j \in 1 .. Len(Tail(v)) /\ sweep'[u][j] = Tail(v)[j]
      BY <1>6, <1>11, <2>1
    <3>2. j + 1 \in 1 .. Len(v) /\ j + 1 # 1 /\ sweep'[u][j] = v[j + 1]
      BY <1>5, <3>1
    <3>3. sweep[u] = v
      BY <2>1 DEF v
    <3>4. sweep[u][j + 1] # q
      BY <1>8, <3>2, <3>3
    <3> QED BY <2>1, <3>2, <3>3, <3>4
  <2>2. CASE u # t
    BY <1>6, <1>8, <1>11, <2>2
  <2> QED BY <2>1, <2>2
<1>12. SweepLive(heap, stack', sweep')
  <2> SUFFICES ASSUME NEW u \in Times, NEW i \in 1 .. Len(sweep'[u])
               PROVE  /\ heap[sweep'[u][i]].state = "live"
                      /\ \A k \in 1 .. Len(stack') : stack'[k].query # sweep'[u][i]
                      /\ \A w \in Times : \A j \in 1 .. Len(sweep'[w]) :
                           sweep'[w][j] = sweep'[u][i] => w = u /\ j = i
    BY DEF SweepLive
  <2>1. PICK k \in 1 .. Len(sweep[u]) : /\ sweep'[u][i] = sweep[u][k] /\ sweep[u][k] # q
                                        /\ k = IF u = t THEN i + 1 ELSE i
    BY <1>11
  <2>2. heap[sweep'[u][i]].state = "live"
    BY <1>3, <2>1 DEF SweepLive
  <2>3. \A l \in 1 .. Len(stack') : stack'[l].query # sweep'[u][i]
    BY <1>9, <1>10, <2>1
  <2>4. ASSUME NEW w \in Times, NEW j \in 1 .. Len(sweep'[w]), sweep'[w][j] = sweep'[u][i]
        PROVE  w = u /\ j = i
    <3>1. PICK l \in 1 .. Len(sweep[w]) : /\ sweep'[w][j] = sweep[w][l]
                                          /\ l = IF w = t THEN j + 1 ELSE j
      BY <1>11
    <3>2. w = u /\ l = k
      BY <1>3, <2>1, <2>4, <3>1 DEF SweepLive
    <3>3. i \in Nat /\ j \in Nat
      <4>1. Len(sweep'[u]) \in Nat /\ Len(sweep'[w]) \in Nat
        BY <1>7
      <4> QED BY <4>1
    <3> QED BY <2>1, <3>1, <3>2, <3>3
  <2> QED BY <2>2, <2>3, <2>4
<1>13. \A i \in 1 .. Len(stack') : ~ Answering(heap, stack'[i])
  BY <1>9, <1>10 DEF Answering
<1>14. phase # "events"
  BY <1>1, <1>3 DEF NoSweep
<1> QED BY <1>2, <1>7, <1>9, <1>12, <1>13, <1>14, InvParts, InvFromParts

\* Every step keeps the invariant.
LEMMA NextInv ==
  ASSUME IInv, [Next]_tableVars
  PROVE  IInv'
<1>1. ASSUME HandlerStep PROVE IInv'
  <2>1. ASSUME NEW q \in Queries, NEW role \in Roles, NEW id \in Ids, NEW at \in Times,
               CreateQuery(q, role, id, at)
        PROVE  IInv'
    BY <2>1, CreateQueryInv
  <2> QED BY <1>1, <2>1, NotifySelfInv, TellSubscriberInv, ReturnFromInitInv,
             ReturnFromHandlerInv DEF HandlerStep
<1>2. ASSUME LoopStep PROVE IInv'
  <2>1. ASSUME NEW id \in Ids, Deliver(id) PROVE IInv'
    BY <2>1, DeliverInv
  <2>2. ASSUME NEW q \in Queries, NEW role \in Roles, NEW id \in Ids, NEW at \in Times,
               StartQuery(q, role, id, at)
        PROVE  IInv'
    BY <2>2, StartQueryInv
  <2>3. ASSUME NoEvent \/ NothingDue PROVE IInv'
    <3>1. /\ stack' = stack /\ table' = table /\ heap' = heap /\ sweep' = sweep
          /\ clock' = clock
      BY <2>3 DEF NoEvent, NothingDue
    <3>2. \/ phase' = "timeouts"
          \/ phase' = "events" /\ sweep = NoSweep
      BY <2>3 DEF NoEvent, NothingDue
    <3> QED BY <3>1, <3>2, InvParts, InvFromParts
  <2> QED BY <1>2, <2>1, <2>2, <2>3, HandleTimeoutInv, TimeOutNextInv DEF LoopStep
<1>3. ASSUME Tick PROVE IInv'
  <2>1. /\ stack' = stack /\ table' = table /\ heap' = heap /\ sweep' = sweep
        /\ phase' = phase /\ clock < MaxClock /\ clock' = clock + 1
    BY <1>3 DEF Tick
  <2>2. clock' \in 0 .. MaxClock
    BY <2>1, InvParts, QueryTableAssumption
  <2> QED BY <2>1, <2>2, InvParts, InvFromParts
<1>4. ASSUME UNCHANGED tableVars PROVE IInv'
  <2>1. /\ stack' = stack /\ table' = table /\ heap' = heap /\ sweep' = sweep
        /\ phase' = phase /\ clock' = clock
    BY <1>4 DEF tableVars
  <2> QED BY <2>1, InvParts, InvFromParts
<1> QED BY <1>1, <1>2, <1>3, <1>4 DEF Next

\* The invariant holds in every state.
LEMMA InvAlways == Spec => []IInv
<1>1. IInv /\ [Next]_tableVars => IInv'
  BY NextInv
<1> QED BY InitInv, <1>1, PTL DEF Spec

\* However many queries, ids and times there are and whatever the handlers call:
\* the two maps of the table agree, so removeOldTimeout and retrieveOldTimeout
\* (QueryTable.cpp:45-88) find what they assert, and no query leaks.
THEOREM TableStaysConsistent == Spec => []TableConsistent
<1>1. IInv => TableConsistent
  BY AgreementIsMapsAgree, InvParts DEF IInv, TableConsistent
<1> QED BY <1>1, InvAlways, PTL

\* No handler ever runs on, or returns to, a deleted query: an answer cannot come
\* back to a query whose handler is still running (QueryTable.cpp:154-184), and
\* the pointers handleTimeout copied (133-152) stay good until they are used.
THEOREM NothingIsUsedAfterDelete == Spec => []NoUseAfterDelete
<1>1. IInv => NoUseAfterDelete
  BY InvParts DEF NoUseAfterDelete, Frames, FramesLive, SweepLive, Live
<1> QED BY <1>1, InvAlways, PTL
=============================================================================
