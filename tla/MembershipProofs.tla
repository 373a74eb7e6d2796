--------------------------- MODULE MembershipProofs ---------------------------
(***************************************************************************)
(* Proofs about Membership, for any nodes, seeds and overlays: a node      *)
(* keeps only nodes that it can measure, although nothing in addNodeToRing *)
(* looks at the node it is given.                                          *)
(***************************************************************************)
EXTENDS Membership, TLAPS

\* Two nodes, one of which can measure the other.
Measurable(n, m) == n # m /\ ~(n \in Firewalled /\ m \in Firewalled)

\* A query of a running node for another, answered only if it can be reached.
GoodQuery(u) ==
    /\ u \in Query /\ u.at \in up /\ u.at # u.to
    /\ u.kind = "probe" => u.at \notin Firewalled /\ u.to \in Firewalled
    /\ u.replied => Measurable(u.at, u.to)
GoodQueries == IsABag(queries) /\ \A u \in DOMAIN queries : GoodQuery(u)

\* A packet names neither its receiver nor is sent to its sender.
GoodPacket(p) == p \in GossipPacket /\ p.from # p.to /\ p.to \notin p.nodes
GoodPackets == \A p \in packets : GoodPacket(p)

\* The members of the rings of a node.
GoodMembers(n, M) ==
    /\ M \subseteq Nodes /\ n \notin M
    /\ n \in Firewalled => M \cap Firewalled = {}
    /\ n \notin up => M = {}
GoodRings ==
    /\ rings \in [Nodes -> SUBSET Nodes]
    /\ \A n \in Nodes : GoodMembers(n, rings[n])

GoodCaches ==
    /\ cached \in [Nodes -> SUBSET Nodes]
    /\ \A n \in Nodes : n \notin up => cached[n] = {}

Circumstances ==
    /\ overlay \in Overlays /\ up \subseteq Nodes
    /\ toAdd \in [Nodes -> SUBSET Nodes]

\* The inductive invariant.
IInv == Circumstances /\ GoodRings /\ GoodCaches /\ GoodQueries /\ GoodPackets

----------------------------------------------------------------------------
(* Lemmas on bags *)

\* One bag put into another.
LEMMA UnionFacts ==
    ASSUME NEW B, NEW C, IsABag(B), IsABag(C)
    PROVE  IsABag(B (+) C) /\ DOMAIN (B (+) C) = DOMAIN B \cup DOMAIN C
<1>1. DOMAIN (B (+) C) = DOMAIN B \cup DOMAIN C
    BY DEF (+)
<1>2. ASSUME NEW e \in DOMAIN B \cup DOMAIN C
      PROVE  (B (+) C)[e] \in {n \in Nat : n > 0}
    <2>1. e \in DOMAIN B => B[e] \in Nat /\ B[e] > 0
        BY DEF IsABag
    <2>2. e \in DOMAIN C => C[e] \in Nat /\ C[e] > 0
        BY DEF IsABag
    <2> QED BY <2>1, <2>2 DEF (+)
<1> QED BY <1>1, <1>2 DEF IsABag, (+)

\* A set as a bag.
LEMMA SetToBagFacts ==
    ASSUME NEW S
    PROVE  IsABag(SetToBag(S)) /\ DOMAIN SetToBag(S) = S
BY DEF IsABag, SetToBag

\* One more of an element.
LEMMA BagAddFacts ==
    ASSUME NEW B, IsABag(B), NEW x
    PROVE  IsABag(BagAdd(B, x)) /\ DOMAIN BagAdd(B, x) = DOMAIN B \cup {x}
<1>1. \A e \in DOMAIN B : B[e] \in Nat /\ B[e] > 0
    BY DEF IsABag
<1> QED BY <1>1 DEF IsABag, BagAdd

\* One less of an element.
LEMMA BagRemoveFacts ==
    ASSUME NEW B, IsABag(B), NEW x
    PROVE  IsABag(BagRemove(B, x)) /\ DOMAIN BagRemove(B, x) \subseteq DOMAIN B
<1>1. \A e \in DOMAIN B : B[e] \in Nat /\ B[e] > 0
    BY DEF IsABag
<1>2. CASE x \in DOMAIN B /\ B[x] # 1
    <2>1. BagRemove(B, x) = [e \in DOMAIN B |-> IF e = x THEN B[e] - 1 ELSE B[e]]
        BY <1>2 DEF BagRemove
    <2>2. B[x] - 1 \in Nat /\ B[x] - 1 > 0
        BY <1>1, <1>2
    <2> QED BY <1>1, <2>1, <2>2 DEF IsABag
<1>3. CASE x \in DOMAIN B /\ B[x] = 1
    BY <1>1, <1>3 DEF IsABag, BagRemove
<1>4. CASE x \notin DOMAIN B
    BY <1>4 DEF BagRemove
<1> QED BY <1>2, <1>3, <1>4

----------------------------------------------------------------------------
(* Lemmas on the state *)

\* What the other parts of the state mean does not change while no process ends.
LEMMA SameNodes ==
    ASSUME UNCHANGED <<overlay, up>>
    PROVE  /\ \A u : GoodQuery(u)' <=> GoodQuery(u)
           /\ \A n, M : GoodMembers(n, M)' <=> GoodMembers(n, M)
BY DEF GoodQuery, GoodMembers, Measurable, Firewalled

\* Good queries come, on top of those there are.
LEMMA MoreQueries ==
    ASSUME GoodQueries, UNCHANGED <<overlay, up>>,
           NEW S, \A u \in S : GoodQuery(u), queries' = queries (+) SetToBag(S)
    PROVE  GoodQueries'
<1>1. IsABag(queries') /\ DOMAIN (queries') = DOMAIN queries \cup S
    BY UnionFacts, SetToBagFacts DEF GoodQueries
<1>2. \A u \in DOMAIN (queries') : GoodQuery(u)
    BY <1>1 DEF GoodQueries
<1>3. \A u : GoodQuery(u)' <=> GoodQuery(u)
    BY SameNodes
<1> QED BY <1>1, <1>2, <1>3 DEF GoodQueries

\* A query goes.
LEMMA OneQueryLess ==
    ASSUME GoodQueries, UNCHANGED <<overlay, up>>,
           NEW u, queries' = BagRemove(queries, u)
    PROVE  GoodQueries'
<1>1. IsABag(queries') /\ DOMAIN (queries') \subseteq DOMAIN queries
    BY BagRemoveFacts DEF GoodQueries
<1>2. \A v : GoodQuery(v)' <=> GoodQuery(v)
    BY SameNodes
<1> QED BY <1>1, <1>2 DEF GoodQueries

\* A query changes.
LEMMA ChangedQuery ==
    ASSUME GoodQueries, UNCHANGED <<overlay, up>>,
           NEW u, NEW v, GoodQuery(v), queries' = BagAdd(BagRemove(queries, u), v)
    PROVE  GoodQueries'
<1>1. IsABag(BagRemove(queries, u)) /\ DOMAIN BagRemove(queries, u) \subseteq DOMAIN queries
    BY BagRemoveFacts DEF GoodQueries
<1>2. IsABag(queries') /\ DOMAIN (queries') = DOMAIN BagRemove(queries, u) \cup {v}
    BY <1>1, BagAddFacts
<1>3. \A w : GoodQuery(w)' <=> GoodQuery(w)
    BY SameNodes
<1> QED BY <1>1, <1>2, <1>3 DEF GoodQueries

\* addNodeToRing starts queries of a running node for others.
LEMMA NewQueriesGood ==
    ASSUME NEW n \in up, up \subseteq Nodes, NEW M \in SUBSET Nodes, n \notin M,
           NEW g \in {"none", "waits"}
    PROVE  \A m \in M : GoodQuery(Add(n, m, g))
BY DEF GoodQuery, Add, Query

\* fillGossipPacket: of members, to another node.
LEMMA GossipGood ==
    ASSUME NEW n \in Nodes, NEW m \in Nodes, n # m, NEW members \in SUBSET Nodes,
           NEW pull \in BOOLEAN, NEW p \in FillGossipPacket(n, m, members, pull)
    PROVE  GoodPacket(p)
<1>1. PICK M \in SUBSET members : p = [from |-> n, to |-> m, nodes |-> M \ {m}, pull |-> pull]
    BY DEF FillGossipPacket, RandomNodes
<1>2. p \in GossipPacket
    BY <1>1 DEF GossipPacket
<1> QED BY <1>1, <1>2 DEF GoodPacket

\* Rings left alone stay good.
LEMMA SameRings ==
    ASSUME GoodRings, UNCHANGED <<overlay, up, rings>>
    PROVE  GoodRings'
BY SameNodes DEF GoodRings

\* Caches left alone stay good.
LEMMA SameCaches ==
    ASSUME GoodCaches, UNCHANGED <<up, cached>>
    PROVE  GoodCaches'
BY DEF GoodCaches

\* Packets that only go leave good ones.
LEMMA SamePackets ==
    ASSUME GoodPackets, packets' \subseteq packets
    PROVE  GoodPackets'
BY DEF GoodPackets

\* The rings of one node change.
LEMMA RingsOfOne ==
    ASSUME GoodRings, UNCHANGED <<overlay, up>>, NEW n \in Nodes, NEW M, GoodMembers(n, M),
           rings' = [rings EXCEPT ![n] = M]
    PROVE  GoodRings'
<1>1. M \in SUBSET Nodes
    BY DEF GoodMembers
<1>2. rings' \in [Nodes -> SUBSET Nodes]
    BY <1>1 DEF GoodRings
<1>3. ASSUME NEW m \in Nodes
      PROVE  GoodMembers(m, rings[m])'
    BY <1>3 DEF GoodRings, GoodMembers, Firewalled
<1> QED BY <1>2, <1>3 DEF GoodRings

----------------------------------------------------------------------------
(* The actions keep the invariant *)

\* It holds at first.
LEMMA InitIInv == Init => IInv
<1> SUFFICES ASSUME Init PROVE IInv
    OBVIOUS
<1>1. Circumstances
    BY MembershipAssumption DEF Init, Circumstances
<1>2. GoodRings
    BY DEF Init, GoodRings, GoodMembers
<1>3. GoodCaches
    BY DEF Init, GoodCaches
<1>4. GoodQueries
    BY SetToBagFacts DEF Init, GoodQueries, EmptyBag
<1>5. GoodPackets
    BY DEF Init, GoodPackets
<1> QED BY <1>1, <1>2, <1>3, <1>4, <1>5 DEF IInv

\* Seeds: the node itself is left out.
LEMMA StartKeeps ==
    ASSUME IInv, UNCHANGED overlay, NEW n \in Nodes, Start(n)
    PROVE  IInv'
<1> USE DEF IInv
<1> DEFINE M == (toAdd[n] \ {n}) \ cached[n]
           S == {Add(n, m, "none") : m \in M}
<1>1. M \in SUBSET Nodes /\ n \notin M
    BY DEF Circumstances
<1>2. \A u \in S : GoodQuery(u)
    BY <1>1, NewQueriesGood DEF Start, Circumstances
<1>3. queries' = queries (+) SetToBag(S)
    BY DEF Start, AddNodesToRing
<1> HIDE DEF M, S
<1>4. GoodQueries'
    BY <1>2, <1>3, MoreQueries DEF Start
<1>5. Circumstances'
    BY DEF Start, Circumstances
<1>6. GoodRings' /\ GoodCaches' /\ GoodPackets'
    BY SameRings, SameCaches, SamePackets DEF Start
<1> QED BY <1>4, <1>5, <1>6

\* Gossip goes to members.
LEMMA PerformGossipKeeps ==
    ASSUME IInv, UNCHANGED overlay, NEW n \in Nodes, NEW M \in SUBSET Nodes, PerformGossip(n, M)
    PROVE  IInv'
<1> USE DEF IInv
<1> DEFINE S == {Add(n, m, "waits") : m \in M}
<1>1. M \subseteq rings[n] /\ n \notin rings[n]
    BY DEF PerformGossip, RandomNodes, GoodRings, GoodMembers
<1>2. \A u \in S : GoodQuery(u)
    BY <1>1, NewQueriesGood DEF PerformGossip, Circumstances
<1>3. queries' = queries (+) SetToBag(S)
    BY DEF PerformGossip
<1> HIDE DEF S
<1>4. GoodQueries'
    BY <1>2, <1>3, MoreQueries DEF PerformGossip
<1>5. Circumstances'
    BY DEF PerformGossip, Circumstances
<1>6. GoodRings' /\ GoodCaches' /\ GoodPackets'
    BY SameRings, SameCaches, SamePackets DEF PerformGossip
<1> QED BY <1>4, <1>5, <1>6

\* Only a node that can be reached answers.
LEMMA ReplyKeeps ==
    ASSUME IInv, UNCHANGED overlay, NEW u \in DOMAIN queries, Reply(u)
    PROVE  IInv'
<1> USE DEF IInv
<1> DEFINE v == [u EXCEPT !.replied = TRUE]
<1>1. GoodQuery(u)
    BY DEF GoodQueries
<1>2. Measurable(u.at, u.to)
    BY <1>1 DEF Reply, Reachable, Measurable, GoodQuery
<1>3. v \in Query /\ v.at = u.at /\ v.to = u.to /\ v.kind = u.kind
    BY <1>1 DEF GoodQuery, Query
<1>4. GoodQuery(v)
    BY <1>1, <1>2, <1>3 DEF GoodQuery
<1>5. queries' = BagAdd(BagRemove(queries, u), v)
    BY DEF Reply
<1> HIDE DEF v
<1>6. GoodQueries'
    BY <1>4, <1>5, ChangedQuery DEF Reply
<1>7. Circumstances'
    BY DEF Reply, Circumstances
<1>8. GoodRings' /\ GoodCaches' /\ GoodPackets'
    BY SameRings, SameCaches, SamePackets DEF Reply
<1> QED BY <1>6, <1>7, <1>8

\* Who answered becomes a member, and is told of members.
LEMMA AnsweredKeeps ==
    ASSUME IInv, UNCHANGED overlay, NEW u \in DOMAIN queries, Answered(u)
    PROVE  IInv'
<1> USE DEF IInv
<1> DEFINE M == rings[u.at] \cup ({u.to} \cap Room[u.at])
<1>1. GoodQuery(u) /\ u.at \in Nodes /\ u.to \in Nodes /\ u.at \in up
    BY DEF GoodQueries, GoodQuery, Query
<1>2. Measurable(u.at, u.to)
    BY <1>1 DEF Answered, GoodQuery
<1>3. GoodMembers(u.at, M)
    <2>1. GoodMembers(u.at, rings[u.at])
        BY <1>1 DEF GoodRings
    <2> QED BY <1>1, <1>2, <2>1 DEF GoodMembers, Measurable
<1>4. rings' = [rings EXCEPT ![u.at] = M]
    BY DEF Answered
<1>5. rings'[u.at] \in SUBSET Nodes
    BY <1>1, <1>3, <1>4 DEF GoodRings, GoodMembers
<1> HIDE DEF M
<1>6. GoodRings'
    BY <1>1, <1>3, <1>4, RingsOfOne DEF Answered
<1>7. GoodCaches'
    <2>1. cached' = [cached EXCEPT ![u.at] = @ \cup {u.to}] /\ up' = up
        BY DEF Answered
    <2> QED BY <1>1, <2>1 DEF GoodCaches
<1>8. GoodQueries'
    BY OneQueryLess DEF Answered
<1>9. GoodPackets'
    <2>1. CASE u.gossip = "waits"
        <3>1. PICK p \in FillGossipPacket(u.at, u.to, rings'[u.at], FALSE) :
                packets' = packets \cup {p}
            BY <2>1 DEF Answered
        <3>2. GoodPacket(p)
            BY <1>1, <1>2, <1>5, GossipGood DEF Measurable
        <3> QED BY <3>1, <3>2 DEF GoodPackets
    <2>2. CASE u.gossip # "waits"
        BY <2>2, SamePackets DEF Answered
    <2> QED BY <2>1, <2>2
<1>10. Circumstances'
    BY DEF Answered, Circumstances
<1> QED BY <1>6, <1>7, <1>8, <1>9, <1>10

\* A late answer changes nothing else.
LEMMA ProbeAnsweredKeeps ==
    ASSUME IInv, UNCHANGED overlay, NEW u \in DOMAIN queries, ProbeAnswered(u)
    PROVE  IInv'
<1> USE DEF IInv
<1>1. GoodQueries'
    BY OneQueryLess DEF ProbeAnswered
<1>2. Circumstances'
    BY DEF ProbeAnswered, Circumstances
<1>3. GoodRings' /\ GoodCaches' /\ GoodPackets'
    BY SameRings, SameCaches, SamePackets DEF ProbeAnswered
<1> QED BY <1>1, <1>2, <1>3

\* A silent node leaves the rings; a probe outlives its AddNodeQuery.
LEMMA QueryTimeoutKeeps ==
    ASSUME IInv, UNCHANGED overlay, NEW u \in DOMAIN queries, Timeout(u)
    PROVE  IInv'
<1> USE DEF IInv
<1> DEFINE M == rings[u.at] \ {u.to}
           v == [u EXCEPT !.kind = "probe", !.gossip = "none"]
<1>1. GoodQuery(u) /\ u.at \in Nodes
    BY DEF GoodQueries, GoodQuery, Query
<1>2. GoodMembers(u.at, M) /\ rings' = [rings EXCEPT ![u.at] = M]
    BY <1>1 DEF Timeout, GoodRings, GoodMembers
<1>3. GoodQueries'
    <2>1. CASE u.to \in Firewalled /\ u.at \notin Firewalled
        <3>1. v \in Query /\ v.at = u.at /\ v.to = u.to /\ v.replied = u.replied
            BY <1>1 DEF GoodQuery, Query
        <3>2. GoodQuery(v)
            BY <1>1, <2>1, <3>1 DEF GoodQuery
        <3>3. queries' \in {BagAdd(BagRemove(queries, u), v), BagRemove(queries, u)}
            BY DEF Timeout
        <3> HIDE DEF v
        <3> QED BY <3>2, <3>3, ChangedQuery, OneQueryLess DEF Timeout
    <2>2. CASE ~(u.to \in Firewalled /\ u.at \notin Firewalled)
        BY <2>2, OneQueryLess DEF Timeout
    <2> QED BY <2>1, <2>2
<1> HIDE DEF M
<1>4. GoodRings'
    BY <1>1, <1>2, RingsOfOne DEF Timeout
<1>5. GoodCaches' /\ GoodPackets'
    BY SameCaches, SamePackets DEF Timeout
<1>6. Circumstances'
    BY DEF Timeout, Circumstances
<1> QED BY <1>3, <1>4, <1>5, <1>6

\* A GossipQuery that gives up leaves its AddNodeQuery behind.
LEMMA GossipTimeoutKeeps ==
    ASSUME IInv, UNCHANGED overlay, NEW u \in DOMAIN queries, GossipTimeout(u)
    PROVE  IInv'
<1> USE DEF IInv
<1> DEFINE v == [u EXCEPT !.gossip = "gone"]
<1>1. GoodQuery(u)
    BY DEF GoodQueries
<1>2. v \in Query /\ v.at = u.at /\ v.to = u.to /\ v.kind = u.kind /\ v.replied = u.replied
    BY <1>1 DEF GoodQuery, Query
<1>3. GoodQuery(v)
    BY <1>1, <1>2 DEF GoodQuery
<1>4. queries' = BagAdd(BagRemove(queries, u), v)
    BY DEF GossipTimeout
<1> HIDE DEF v
<1>5. GoodQueries'
    BY <1>3, <1>4, ChangedQuery DEF GossipTimeout
<1>6. Circumstances'
    BY DEF GossipTimeout, Circumstances
<1>7. GoodRings' /\ GoodCaches' /\ GoodPackets'
    BY SameRings, SameCaches, SamePackets DEF GossipTimeout
<1> QED BY <1>5, <1>6, <1>7

\* Gossip names its sender and others, never its receiver.
LEMMA ReceiveKeeps ==
    ASSUME IInv, UNCHANGED overlay, NEW p \in packets, Receive(p)
    PROVE  IInv'
<1> USE DEF IInv
<1> DEFINE M == ({p.from} \cup p.nodes) \ cached[p.to]
           S == {Add(p.to, m, "none") : m \in M}
<1>1. GoodPacket(p) /\ p.from \in Nodes /\ p.to \in Nodes /\ p.nodes \in SUBSET Nodes
    BY DEF GoodPackets, GoodPacket, GossipPacket
<1>2. M \in SUBSET Nodes /\ p.to \notin M
    BY <1>1 DEF GoodPacket
<1>3. \A u \in S : GoodQuery(u)
    BY <1>2, NewQueriesGood DEF Receive, Circumstances
<1>4. queries' = queries (+) SetToBag(S)
    BY DEF Receive, AddNodesToRing
<1> HIDE DEF M, S
<1>5. GoodQueries'
    BY <1>3, <1>4, MoreQueries DEF Receive
<1>6. GoodPackets'
    <2>1. CASE PushPull /\ ~p.pull
        <3>1. PICK answer \in FillGossipPacket(p.to, p.from, rings[p.to], TRUE) :
                packets' = (packets \ {p}) \cup {answer}
            BY <2>1 DEF Receive
        <3>2. rings[p.to] \in SUBSET Nodes
            BY <1>1 DEF GoodRings
        <3>3. GoodPacket(answer)
            BY <1>1, <3>2, GossipGood DEF GoodPacket
        <3> QED BY <3>1, <3>3 DEF GoodPackets
    <2>2. CASE ~(PushPull /\ ~p.pull)
        BY <2>2, SamePackets DEF Receive
    <2> QED BY <2>1, <2>2
<1>7. Circumstances'
    BY DEF Receive, Circumstances
<1>8. GoodRings' /\ GoodCaches'
    BY SameRings, SameCaches DEF Receive
<1> QED BY <1>5, <1>6, <1>7, <1>8

\* A packet lost is one less.
LEMMA LoseKeeps ==
    ASSUME IInv, UNCHANGED overlay, NEW p \in packets, Lose(p)
    PROVE  IInv'
<1> USE DEF IInv
<1>1. GoodQueries'
    BY SameNodes DEF Lose, GoodQueries
<1>2. Circumstances'
    BY DEF Lose, Circumstances
<1>3. GoodRings' /\ GoodCaches' /\ GoodPackets'
    BY SameRings, SameCaches, SamePackets DEF Lose
<1> QED BY <1>1, <1>2, <1>3

\* So is an entry forgotten.
LEMMA ForgetKeeps ==
    ASSUME IInv, UNCHANGED overlay, NEW n \in Nodes, NEW m \in Nodes, Forget(n, m)
    PROVE  IInv'
<1> USE DEF IInv
<1>1. GoodQueries'
    BY SameNodes DEF Forget, GoodQueries
<1>2. Circumstances'
    BY DEF Forget, Circumstances
<1>3. GoodCaches'
    BY DEF Forget, GoodCaches
<1>4. GoodRings' /\ GoodPackets'
    BY SameRings, SamePackets DEF Forget
<1> QED BY <1>1, <1>2, <1>3, <1>4

\* A node that ends takes its queries, rings and caches with it.
LEMMA CrashKeeps ==
    ASSUME IInv, UNCHANGED overlay, NEW n \in Nodes, Crash(n)
    PROVE  IInv'
<1> USE DEF IInv
<1>1. Circumstances'
    BY DEF Crash, Circumstances
<1>2. GoodRings'
    <2>1. rings' = [rings EXCEPT ![n] = {}] /\ up' = up \ {n}
        BY DEF Crash
    <2>2. rings' \in [Nodes -> SUBSET Nodes]
        BY <2>1 DEF GoodRings
    <2>3. ASSUME NEW m \in Nodes
          PROVE  GoodMembers(m, rings[m])'
        BY <2>1, <2>3 DEF GoodRings, GoodMembers, Firewalled
    <2> QED BY <2>2, <2>3 DEF GoodRings
<1>3. GoodCaches'
    BY DEF Crash, GoodCaches
<1>4. GoodQueries'
    <2>1. /\ DOMAIN (queries') \subseteq DOMAIN queries
          /\ \A u \in DOMAIN (queries') : u.at # n /\ queries'[u] = queries[u]
        BY DEF Crash
    <2>2. IsABag(queries')
        BY DEF Crash, GoodQueries, IsABag
    <2>3. ASSUME NEW u \in DOMAIN (queries')
          PROVE  GoodQuery(u)'
        BY <2>1 DEF Crash, GoodQueries, GoodQuery, Measurable, Firewalled
    <2> QED BY <2>2, <2>3 DEF GoodQueries
<1>5. GoodPackets'
    BY SamePackets DEF Crash
<1> QED BY <1>1, <1>2, <1>3, <1>4, <1>5

\* Every step keeps the invariant.
LEMMA NextIInv == IInv /\ [Next]_vars => IInv'
<1> SUFFICES ASSUME IInv, [Next]_vars PROVE IInv'
    OBVIOUS
<1>1. CASE UNCHANGED vars
    <2>1. UNCHANGED <<overlay, up, toAdd, rings, cached, queries, packets>>
        BY <1>1 DEF vars
    <2> QED BY <2>1, SameNodes, SameRings, SameCaches, SamePackets
            DEF IInv, Circumstances, GoodQueries
<1>2. CASE Next
    <2>1. UNCHANGED overlay
        BY <1>2 DEF Next
    <2>2. ASSUME NEW n \in Nodes, Start(n) PROVE IInv'
        BY <2>1, <2>2, StartKeeps
    <2>3. ASSUME NEW n \in Nodes, Crash(n) PROVE IInv'
        BY <2>1, <2>3, CrashKeeps
    <2>4. ASSUME NEW n \in Nodes, NEW M \in SUBSET Nodes, PerformGossip(n, M) PROVE IInv'
        BY <2>1, <2>4, PerformGossipKeeps
    <2>5. ASSUME NEW u \in DOMAIN queries, Reply(u) PROVE IInv'
        BY <2>1, <2>5, ReplyKeeps
    <2>6. ASSUME NEW u \in DOMAIN queries, Answered(u) PROVE IInv'
        BY <2>1, <2>6, AnsweredKeeps
    <2>7. ASSUME NEW u \in DOMAIN queries, ProbeAnswered(u) PROVE IInv'
        BY <2>1, <2>7, ProbeAnsweredKeeps
    <2>8. ASSUME NEW u \in DOMAIN queries, Timeout(u) PROVE IInv'
        BY <2>1, <2>8, QueryTimeoutKeeps
    <2>9. ASSUME NEW u \in DOMAIN queries, GossipTimeout(u) PROVE IInv'
        BY <2>1, <2>9, GossipTimeoutKeeps
    <2>10. ASSUME NEW p \in packets, Receive(p) PROVE IInv'
        BY <2>1, <2>10, ReceiveKeeps
    <2>11. ASSUME NEW p \in packets, Lose(p) PROVE IInv'
        BY <2>1, <2>11, LoseKeeps
    <2>12. ASSUME NEW n \in Nodes, NEW m \in Nodes, Forget(n, m) PROVE IInv'
        BY <2>1, <2>12, ForgetKeeps
    <2> QED BY <1>2, <2>2, <2>3, <2>4, <2>5, <2>6, <2>7, <2>8, <2>9, <2>10, <2>11, <2>12 DEF Next
<1> QED BY <1>1, <1>2

\* The invariant says what the run checks.
LEMMA IInvImplies == IInv => MembersAreMeasurable
<1> SUFFICES ASSUME IInv PROVE MembersAreMeasurable
    OBVIOUS
<1>1. DOMAIN queries \subseteq Query
      /\ \A u \in DOMAIN queries : u.kind = "probe" => u.at \notin Firewalled /\ u.to \in Firewalled
    BY DEF IInv, GoodQueries, GoodQuery
<1>2. packets \subseteq GossipPacket
    BY DEF IInv, GoodPackets, GoodPacket
<1>3. \A n \in Nodes \ up : rings[n] = {} /\ cached[n] = {}
    BY DEF IInv, GoodRings, GoodMembers, GoodCaches
<1>4. TypeOK
    BY <1>1, <1>2, <1>3 DEF IInv, TypeOK, Circumstances, GoodRings, GoodCaches, GoodQueries
<1>5. NobodyKnowsItself
    BY DEF IInv, NobodyKnowsItself, GoodRings, GoodMembers
<1>6. FirewalledKnowOpen
    <2>1. Firewalled \subseteq Nodes
        BY MembershipAssumption DEF IInv, Circumstances, Firewalled
    <2> QED BY <2>1 DEF IInv, FirewalledKnowOpen, GoodRings, GoodMembers
<1> QED BY <1>4, <1>5, <1>6 DEF MembersAreMeasurable

(* A node keeps only nodes that it can measure: never itself, although nothing *)
(* in addNodeToRing checks for it, and open ones if it is behind a firewall,   *)
(* although gossip names the others to it.                                     *)
THEOREM MembersStayMeasurable == Spec => []MembersAreMeasurable
<1>1. Init => IInv
    BY InitIInv
<1>2. IInv /\ [Next]_vars => IInv'
    BY NextIInv
<1>3. IInv => MembersAreMeasurable
    BY IInvImplies
<1> QED BY <1>1, <1>2, <1>3, PTL DEF Spec
================================================================================
