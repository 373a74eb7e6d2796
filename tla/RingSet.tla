------------------------------ MODULE RingSet ------------------------------
(***************************************************************************)
(* The latency rings of one Meridian node (class RingSet).  A ring keeps a *)
(* primary vector and a secondary FIFO of the nodes whose latency falls in *)
(* the ring; nodeLatencyUS and rendvMapping are kept beside the rings.     *)
(*                                                                         *)
(* Each action is one call of a RingSet method, as the event loop makes it *)
(* (one thread, so a call is atomic).  RingManageQuery unfreezes a ring    *)
(* and installs its new members inside one handler, so that pair is the    *)
(* action ReplaceRing; module RingManage has the query itself.             *)
(***************************************************************************)
EXTENDS Integers, Sequences, FiniteSets

CONSTANTS
  Nodes,          \* peers that can be ring members (NodeIdent)
  Rendvs,         \* rendezvous hosts of firewalled peers
  NoRendv,        \* the rendezvous {0, 0}: the peer is not firewalled
  LatenciesUS,    \* the measured latencies, in microseconds
  NumRings,       \* MAX_NUM_RINGS
  PrimarySize, SecondarySize, ExponentBase,
  BetaNum, BetaDen \* the beta ratio of fillVector, BetaNum / BetaDen

ASSUME RingSetAssumption ==
  /\ NoRendv \notin Rendvs
  /\ LatenciesUS \subseteq Nat
  /\ NumRings \in Nat \ {0}
  /\ PrimarySize \in Nat \ {0}
  /\ SecondarySize \in Nat \ {0}
  /\ ExponentBase \in Nat \ {0, 1}
  /\ BetaNum \in Nat \ {0} /\ BetaDen \in Nat /\ BetaNum < BetaDen

VARIABLES
  ring,           \* primaryRing and secondaryRing: [prim, sec] of each ring
  ringFrozen,
  nodeLatencyUS,
  rendvMapping

ringVars == <<ring, ringFrozen, nodeLatencyUS, rendvMapping>>

Rings  == 0 .. NumRings - 1
Absent == -1      \* the node has no entry in nodeLatencyUS

RingState == [prim : Seq(Nodes), sec : Seq(Nodes)]

----------------------------------------------------------------------------
(* Helpers on one ring and on latencies *)

Elems(s)    == {s[i] : i \in 1 .. Len(s)}
Members(rg) == Elems(rg.prim) \cup Elems(rg.sec)
IndexOf(s, n) == CHOOSE i \in 1 .. Len(s) : s[i] = n

\* Ring k ends at base^k milliseconds, except the last one, which has no end.
ringEndUS[k \in 0 .. NumRings] ==
  IF k = 0 THEN 1000 ELSE ExponentBase * ringEndUS[k - 1]

\* ceil(log_base(ms)) clamped to the rings: how many ring ends the latency
\* exceeds.
getRingNumber(latencyUS) ==
  Cardinality({k \in 0 .. NumRings - 2 : latencyUS > ringEndUS[k]})

\* The vector's idiom "v[i] = v.back(); v.pop_back()".
SwapPop(s, i) ==
  [k \in 1 .. Len(s) - 1 |-> IF k = i THEN s[Len(s)] ELSE s[k]]

\* deque::erase of position i.
RemoveAtIndex(s, i) ==
  [k \in 1 .. Len(s) - 1 |-> IF k < i THEN s[k] ELSE s[k + 1]]

\* Faulty variant: the promoted secondary is not popped from its deque.
EraseWithoutPop(rg, n) ==
  IF n \in Elems(rg.prim) /\ rg.sec # <<>>
  THEN [prim |-> Append(SwapPop(rg.prim, IndexOf(rg.prim, n)), Head(rg.sec)),
        sec |-> rg.sec]
  ELSE [prim |-> SelectSeq(rg.prim, LAMBDA m : m # n),
        sec |-> SelectSeq(rg.sec, LAMBDA m : m # n)]

\* eraseNode(node, ring) on the ring itself: a hole in the primary vector is
\* filled by the oldest secondary.
EraseFromRing(rg, n) ==
  IF n \in Elems(rg.prim)
  THEN LET left == SwapPop(rg.prim, IndexOf(rg.prim, n))
       IN  IF rg.sec = <<>>
           THEN [prim |-> left, sec |-> <<>>]
           ELSE [prim |-> Append(left, Head(rg.sec)), sec |-> Tail(rg.sec)]
  ELSE IF n \in Elems(rg.sec)
       THEN [prim |-> rg.prim, sec |-> RemoveAtIndex(rg.sec, IndexOf(rg.sec, n))]
       ELSE rg

\* The oldest secondary goes when neither vector has room for one more node.
Evicted(rg) ==
  IF Len(rg.prim) >= PrimarySize /\ Len(rg.sec) >= SecondarySize
  THEN {Head(rg.sec)} ELSE {}

\* insertNode hands eraseNode a reference to the front of the deque it erases it from,
\* and reads it again for the maps (RingSet.cpp:151, 91): here it is the node itself,
\* as the bytes that deque::pop_front leaves still say.
PushToRing(rg, n) ==
  IF Len(rg.prim) < PrimarySize
  THEN [prim |-> Append(rg.prim, n), sec |-> rg.sec]
  ELSE LET kept == IF Len(rg.sec) >= SecondarySize
                   THEN EraseFromRing(rg, Head(rg.sec)) ELSE rg
       IN  [prim |-> kept.prim, sec |-> Append(kept.sec, n)]

----------------------------------------------------------------------------
(* Initial state: the constructor *)

Init ==
  /\ ring = [r \in Rings |-> [prim |-> <<>>, sec |-> <<>>]]
  /\ ringFrozen = [r \in Rings |-> FALSE]
  /\ nodeLatencyUS = [n \in Nodes |-> Absent]
  /\ rendvMapping = [n \in Nodes |-> NoRendv]

----------------------------------------------------------------------------
(* insertNode(node, latency, rend): four outcomes *)

RingNow(n) == getRingNumber(nodeLatencyUS[n])
Known(n)   == nodeLatencyUS[n] # Absent

\* The rendezvous is stored first, whatever happens to the rings.
StoredRendv(n, rend) ==
  IF rend = NoRendv THEN rendvMapping ELSE [rendvMapping EXCEPT ![n] = rend]

\* The ring the latency selects, or the ring the node is in, is frozen.
InsertRefused(n, latencyUS, rend) ==
  LET r == getRingNumber(latencyUS)
  IN  /\ \/ ringFrozen[r]
         \/ Known(n) /\ RingNow(n) # r /\ ringFrozen[RingNow(n)]
      /\ rendvMapping' = StoredRendv(n, rend)
      /\ UNCHANGED <<ring, ringFrozen, nodeLatencyUS>>

InsertSameRing(n, latencyUS, rend) ==
  LET r == getRingNumber(latencyUS)
  IN  /\ ~ringFrozen[r]
      /\ Known(n) /\ RingNow(n) = r
      /\ nodeLatencyUS' = [nodeLatencyUS EXCEPT ![n] = latencyUS]
      /\ rendvMapping' = StoredRendv(n, rend)
      /\ UNCHANGED <<ring, ringFrozen>>

InsertNew(n, latencyUS, rend) ==
  LET r   == getRingNumber(latencyUS)
      out == Evicted(ring[r])
  IN  /\ ~ringFrozen[r]
      /\ ~Known(n)
      /\ ring' = [ring EXCEPT ![r] = PushToRing(@, n)]
      /\ nodeLatencyUS' = [m \in Nodes |->
           IF m = n THEN latencyUS
           ELSE IF m \in out THEN Absent ELSE nodeLatencyUS[m]]
      /\ rendvMapping' = [m \in Nodes |->
           IF m \in out THEN NoRendv ELSE StoredRendv(n, rend)[m]]
      /\ UNCHANGED ringFrozen

\* Faulty variant: only the new ring is tested for being frozen.
MoveFromFrozen(n, latencyUS, rend) ==
  LET r == getRingNumber(latencyUS)
  IN  /\ ~ringFrozen[r]
      /\ Known(n) /\ RingNow(n) # r
      /\ ring' = [ring EXCEPT ![RingNow(n)] = EraseFromRing(@, n),
                              ![r] = PushToRing(@, n)]
      /\ nodeLatencyUS' = [m \in Nodes |->
           IF m = n THEN latencyUS
           ELSE IF m \in Evicted(ring[r]) THEN Absent ELSE nodeLatencyUS[m]]
      /\ UNCHANGED <<rendvMapping, ringFrozen>>

\* Faulty variant: the node stays in the ring it leaves.
MoveWithoutErase(n, latencyUS, rend) ==
  LET r == getRingNumber(latencyUS)
  IN  /\ ~ringFrozen[r]
      /\ Known(n) /\ RingNow(n) # r /\ ~ringFrozen[RingNow(n)]
      /\ ring' = [ring EXCEPT ![r] = PushToRing(@, n)]
      /\ nodeLatencyUS' = [nodeLatencyUS EXCEPT ![n] = latencyUS]
      /\ UNCHANGED <<rendvMapping, ringFrozen>>

\* The node changes rings.  eraseNode(node, old ring) also erases the
\* rendezvous that was just stored.
InsertMoved(n, latencyUS, rend) ==
  LET r   == getRingNumber(latencyUS)
      out == Evicted(ring[r])
  IN  /\ ~ringFrozen[r]
      /\ Known(n) /\ RingNow(n) # r /\ ~ringFrozen[RingNow(n)]
      /\ ring' = [ring EXCEPT ![RingNow(n)] = EraseFromRing(@, n),
                              ![r] = PushToRing(@, n)]
      /\ nodeLatencyUS' = [m \in Nodes |->
           IF m = n THEN latencyUS
           ELSE IF m \in out THEN Absent ELSE nodeLatencyUS[m]]
      /\ rendvMapping' = [m \in Nodes |->
           IF m \in out \cup {n} THEN NoRendv ELSE rendvMapping[m]]
      /\ UNCHANGED ringFrozen

insertNode(n, latencyUS, rend) ==
  \/ InsertRefused(n, latencyUS, rend)
  \/ InsertSameRing(n, latencyUS, rend)
  \/ InsertNew(n, latencyUS, rend)
  \/ InsertMoved(n, latencyUS, rend)

\* insertNode(node, latency): the overload that reads the mapping itself.
insertNodeKeepRendv(n, latencyUS) == insertNode(n, latencyUS, rendvMapping[n])

----------------------------------------------------------------------------
(* eraseNode(node).  An unknown node or a frozen ring changes nothing. *)

eraseNode(n) ==
  /\ Known(n)
  /\ ~ringFrozen[RingNow(n)]
  /\ ring' = [ring EXCEPT ![RingNow(n)] = EraseFromRing(@, n)]
  /\ nodeLatencyUS' = [nodeLatencyUS EXCEPT ![n] = Absent]
  /\ rendvMapping' = [rendvMapping EXCEPT ![n] = NoRendv]
  /\ UNCHANGED ringFrozen

freezeRing(r) ==
  /\ ringFrozen' = [ringFrozen EXCEPT ![r] = TRUE]
  /\ UNCHANGED <<ring, nodeLatencyUS, rendvMapping>>

unfreezeRing(r) ==
  /\ ringFrozen' = [ringFrozen EXCEPT ![r] = FALSE]
  /\ UNCHANGED <<ring, nodeLatencyUS, rendvMapping>>

----------------------------------------------------------------------------
(* eligibleForReplacement(ringNum): its result, and the swap it performs   *)
(* when exactly PrimarySize members need no rendezvous.                    *)

Firewalled(n) == rendvMapping[n] # NoRendv

Replaceable(rg) == Len(rg.prim) = PrimarySize /\ rg.sec # <<>>

OpenIn(s)   == {i \in 1 .. Len(s) : ~Firewalled(s[i])}
ClosedIn(s) == {i \in 1 .. Len(s) : Firewalled(s[i])}
numEligible(rg) == Cardinality(OpenIn(rg.prim)) + Cardinality(OpenIn(rg.sec))

eligibleForReplacement(r) ==
  ~ringFrozen[r] /\ Replaceable(ring[r]) /\ numEligible(ring[r]) > PrimarySize

\* One pass: the k-th firewalled primary meets the k-th open secondary.
Pairing(rg, f) ==
  /\ \A i, k \in ClosedIn(rg.prim) : i < k => f[i] < f[k]
  /\ {f[i] : i \in ClosedIn(rg.prim)} = OpenIn(rg.sec)

\* Faulty variant: the pass ends with the first swap.
SwappedOnce(rg, f) ==
  LET Swapped(i) == i \in ClosedIn(rg.prim) /\ \A k \in ClosedIn(rg.prim) : i <= k
  IN  [prim |-> [i \in 1 .. Len(rg.prim) |->
                  IF Swapped(i) THEN rg.sec[f[i]] ELSE rg.prim[i]],
       sec  |-> [j \in 1 .. Len(rg.sec) |->
                  IF \E i \in ClosedIn(rg.prim) : Swapped(i) /\ f[i] = j
                  THEN rg.prim[CHOOSE i \in ClosedIn(rg.prim) : f[i] = j]
                  ELSE rg.sec[j]]]

SwappedRing(rg, f) ==
  [prim |-> [i \in 1 .. Len(rg.prim) |->
              IF i \in ClosedIn(rg.prim) THEN rg.sec[f[i]] ELSE rg.prim[i]],
   sec  |-> [j \in 1 .. Len(rg.sec) |->
              IF j \in OpenIn(rg.sec)
              THEN rg.prim[CHOOSE i \in ClosedIn(rg.prim) : f[i] = j]
              ELSE rg.sec[j]]]

SwapFirewalled(r) ==
  /\ ~ringFrozen[r]
  /\ Replaceable(ring[r])
  /\ numEligible(ring[r]) = PrimarySize
  /\ \E f \in [ClosedIn(ring[r].prim) -> OpenIn(ring[r].sec)] :
       /\ Pairing(ring[r], f)
       /\ ring' = [ring EXCEPT ![r] = SwappedRing(@, f)]
  /\ UNCHANGED <<ringFrozen, nodeLatencyUS, rendvMapping>>

----------------------------------------------------------------------------
(* setRingMembers(ringNum, primRing, secondRing), called by                *)
(* RingManageQuery::performReplacement right after unfreezeRing            *)

\* What setRingMembers accepts: no vector over its size, as many nodes as the
\* ring has, all of them members.
AcceptsMembers(rg, prim, sec) ==
  /\ Len(prim) <= PrimarySize
  /\ Len(sec) <= SecondarySize
  /\ Len(prim) + Len(sec) = Cardinality(Members(rg))
  /\ Elems(prim) \subseteq Members(rg)
  /\ Elems(sec) \subseteq Members(rg)

SetMembers(rg, prim, sec) ==
  IF AcceptsMembers(rg, prim, sec) THEN [prim |-> prim, sec |-> sec] ELSE rg

\* performReplacement splits distinct nodes and fills the primary vector.
Distinct(rg) ==
  /\ \A i, j \in 1 .. Len(rg.prim) : rg.prim[i] = rg.prim[j] => i = j
  /\ \A i, j \in 1 .. Len(rg.sec) : rg.sec[i] = rg.sec[j] => i = j
  /\ \A i \in 1 .. Len(rg.prim), j \in 1 .. Len(rg.sec) : rg.prim[i] # rg.sec[j]

Splits == {rg \in [prim : [1 .. PrimarySize -> Nodes],
                   sec : UNION {[1 .. k -> Nodes] : k \in 0 .. SecondarySize}] :
             Distinct(rg)}

ReplaceRing(r, prim, sec) ==
  /\ ringFrozen[r]
  /\ ringFrozen' = [ringFrozen EXCEPT ![r] = FALSE]
  /\ ring' = [ring EXCEPT ![r] = SetMembers(@, prim, sec)]
  /\ UNCHANGED <<nodeLatencyUS, rendvMapping>>

----------------------------------------------------------------------------
(* fillVector(minAvg, maxAvg, beta): the primary members, with their       *)
(* rendezvous, that can be near the target                                 *)

lowerBound(minAvgUS) == ((BetaDen - BetaNum) * minAvgUS) \div BetaDen

\* Faulty variant: the upper bound ignores beta.
upperWithoutBeta(maxAvgUS) == maxAvgUS

upperBound(maxAvgUS) ==
  ((BetaDen + BetaNum) * maxAvgUS + BetaDen - 1) \div BetaDen

fillVector(minAvgUS, maxAvgUS) ==
  LET lo == lowerBound(minAvgUS)
      hi == upperBound(maxAvgUS)
  IN  {<<n, rendvMapping[n]>> : n \in
        {m \in UNION {Elems(ring[r].prim) :
                       r \in getRingNumber(lo) .. getRingNumber(hi)} :
           lo <= nodeLatencyUS[m] /\ nodeLatencyUS[m] <= hi}}

----------------------------------------------------------------------------

Next ==
  \/ \E n \in Nodes, l \in LatenciesUS, rend \in Rendvs \cup {NoRendv} :
       insertNode(n, l, rend)
  \/ \E n \in Nodes, l \in LatenciesUS : insertNodeKeepRendv(n, l)
  \/ \E n \in Nodes : eraseNode(n)
  \/ \E r \in Rings : freezeRing(r)
  \/ \E r \in Rings : unfreezeRing(r)
  \/ \E r \in Rings : SwapFirewalled(r)
  \/ \E r \in Rings, s \in Splits : ReplaceRing(r, s.prim, s.sec)

Spec == Init /\ [][Next]_ringVars

----------------------------------------------------------------------------
(* Properties *)

\* Rings hold sequences of nodes; the two maps range over the nodes.
TypeOK ==
  /\ ring \in [Rings -> RingState]
  /\ ringFrozen \in [Rings -> BOOLEAN]
  /\ nodeLatencyUS \in [Nodes -> LatenciesUS \cup {Absent}]
  /\ rendvMapping \in [Nodes -> Rendvs \cup {NoRendv}]

\* A ring holds exactly the nodes whose stored latency selects it.  Every
\* method finds a node's ring by recomputing it from nodeLatencyUS, and
\* asserts (RingSet.cpp:50,135,152, RingSet.h:261) that the node is there.
RingsMatchLatencies ==
  \A r \in Rings : Members(ring[r]) =
    {n \in Nodes : nodeLatencyUS[n] # Absent /\ getRingNumber(nodeLatencyUS[n]) = r}

\* A node occupies one position of its ring: eraseNode removes the first
\* occurrence only, so a second one would outlive the node's latency entry.
NoDuplicates == \A r \in Rings : Distinct(ring[r])

\* Both vectors respect their configured sizes, and nodes wait in the
\* secondary ring only while the primary ring is full (eraseNode promotes,
\* insertNode and performReplacement fill the primary ring first).
PrimaryFilledFirst ==
  \A r \in Rings :
    /\ Len(ring[r].prim) <= PrimarySize
    /\ Len(ring[r].sec) <= SecondarySize
    /\ ring[r].sec # <<>> => Len(ring[r].prim) = PrimarySize

\* Whatever calls come, a ring is two vectors within their sizes, without holes and
\* without a node that is there twice.
RingsWellFormed == TypeOK /\ NoDuplicates /\ PrimaryFilledFirst

\* While a ring stays frozen its members, their order and their latencies
\* stay as RingManageQuery dumped them; insertions and erasures elsewhere,
\* and nodes moving between rings, do not reach into it.
FrozenKept ==
  \A r \in Rings : ringFrozen[r] /\ ringFrozen'[r] =>
    /\ ring'[r] = ring[r]
    /\ \A n \in Members(ring[r]) : nodeLatencyUS'[n] = nodeLatencyUS[n]

FrozenRingsKeepMembers == [][FrozenKept]_ringVars

\* The swap of eligibleForReplacement ("TODO: This needs to be tested",
\* RingSet.h:137): afterwards the primary ring holds the members that need no
\* rendezvous and only them, and the ring has the same members.
SwapMovesFirewalledOut ==
  [][\A r \in Rings : SwapFirewalled(r) =>
       /\ Elems(ring'[r].prim) = {n \in Members(ring[r]) : ~Firewalled(n)}
       /\ Members(ring'[r]) = Members(ring[r])]_ringVars

\* fillVector looks only at the rings between its two bounds, and yet misses
\* no primary member whose latency lies within beta of the averages.
FillVectorComplete ==
  \A lo, hi \in LatenciesUS : lo <= hi =>
    \A n \in UNION {Elems(ring[r].prim) : r \in Rings} :
      /\ (BetaDen - BetaNum) * lo <= BetaDen * nodeLatencyUS[n]
      /\ BetaDen * nodeLatencyUS[n] <= (BetaDen + BetaNum) * hi
      => <<n, rendvMapping[n]>> \in fillVector(lo, hi)

\* "Store/update rendavous information" (RingSet.cpp:109): a rendezvous
\* passed to insertNode is the one rendvLookup returns afterwards.
RendvStored ==
  [][\A n \in Nodes, l \in LatenciesUS, rend \in Rendvs :
       insertNode(n, l, rend) => rendvMapping'[n] = rend]_ringVars
============================================================================
