------------------------------- MODULE Membership -------------------------------
(* How nodes come to know each other and forget each other: AddNodeQuery pings *)
(* a node and puts it in the rings or takes it out, GossipQuery passes on what *)
(* the rings hold, a GOSSIP packet makes its receiver add the sender and those *)
(* named, and is answered in kind (GOSSIP_PULL).                               *)
(*                                                                             *)
(* Packets and answers may take any time or never arrive.  A node behind a     *)
(* firewall is reached through its rendezvous node, but not from behind        *)
(* another firewall.  What a ring keeps of what is inserted is RingSet's       *)
(* business; here a node keeps all that it has Room for.                       *)
EXTENDS Naturals, FiniteSets, Bags, BagsExt

CONSTANTS
    Nodes,          \* the Meridian nodes
    Seeds,          \* Seeds[n]: the seed nodes n was started with
    Overlays,       \* the circumstances the nodes may find themselves in
    MaxOutstanding  \* bound for model checking, see GossipBound

ASSUME MembershipAssumption ==
    /\ Seeds \in [Nodes -> SUBSET Nodes]
    /\ Overlays \subseteq
         [firewalled : SUBSET {n \in Nodes : \A m \in Nodes : n \notin Seeds[m]},
          room : [Nodes -> SUBSET Nodes], ring : [Nodes -> [Nodes -> Nat]],
          pushPull : BOOLEAN, timely : BOOLEAN, mortal : SUBSET Nodes]
    /\ MaxOutstanding \in Nat

VARIABLES
    overlay,    \* the circumstances; they do not change
    up,         \* the nodes whose process runs
    toAdd,      \* toAdd[n]: seed nodes that n has not turned to yet
    rings,      \* rings[n]: the members of all rings of n
    cached,     \* cached[n]: the nodes in the ping cache of n
    queries,    \* a bag: the AddNodeQuerys and what they leave behind
    packets     \* GOSSIP and GOSSIP_PULL packets under way

vars == <<overlay, up, toAdd, rings, cached, queries, packets>>

Firewalled == overlay.firewalled    \* the nodes that gave a rendezvous node
Room == overlay.room                \* Room[n]: the nodes the rings of n can take
Ring == overlay.ring                \* Ring[n][m]: the ring of n that m belongs to
PushPull == overlay.pushPull        \* built with GOSSIP_PUSHPULL
Timely == overlay.timely            \* FALSE: any packet may be lost or late
Mortal == overlay.mortal            \* the nodes whose process may end

(* A query of node at for node to.  gossip: whether a GossipQuery subscribed   *)
(* to it, and still waits for it or is gone.                                   *)
(* An AddNodeQuery for a firewalled node has a ReqProbePing to do its work,    *)
(* which outlives it ("probe").  replied: the answer has left the other node.  *)
Query == [kind : {"add", "probe"}, at : Nodes, to : Nodes,
          gossip : {"none", "waits", "gone"}, replied : BOOLEAN]

GossipPacket == [from : Nodes, to : Nodes, nodes : SUBSET Nodes, pull : BOOLEAN]

Add(n, m, gossip) ==
    [kind |-> "add", at |-> n, to |-> m, gossip |-> gossip, replied |-> FALSE]

\* Faulty variant: the rendezvous node lets everybody through.
ReachableAnyway(n, m) == m \in up

\* AddNodeQuery::init: a ping, or a request to ping back; two firewalled nodes
\* cannot reach each other and the query just waits for its timeout.  The host of a
\* firewalled node's tunnel is up, whoever else is not.
Reachable(n, m) == m \in up /\ ~(n \in Firewalled /\ m \in Firewalled)

\* getRandomNodes: one member of every ring that has one.
RandomNodes(n, members) ==
    {M \in SUBSET members :
        \A r \in {Ring[n][m] : m \in members} :
            Cardinality({m \in M : Ring[n][m] = r}) = 1}

\* fillGossipPacket: random members, without the receiver itself.
FillGossipPacket(n, m, members, pull) ==
    {[from |-> n, to |-> m, nodes |-> M \ {m}, pull |-> pull] :
        M \in RandomNodes(n, members)}

\* addNodeToRing, for a set of nodes: those pinged lately are skipped.
AddNodesToRing(n, M) == SetToBag({Add(n, m, "none") : m \in M \ cached[n]})

\* A bound on the state space, not on the program: a round of gossip begins
\* when at most MaxOutstanding queries and packets of earlier ones are about.
GossipBound == BagCardinality(queries) + Cardinality(packets) <= MaxOutstanding

-----------------------------------------------------------------------------
Init ==
    /\ overlay \in Overlays
    /\ up = Nodes
    /\ toAdd = Seeds
    /\ rings = [n \in Nodes |-> {}]
    /\ cached = [n \in Nodes |-> {}]
    /\ queries = EmptyBag
    /\ packets = {}

\* start: all seed nodes but the node itself are added, once and for all.
Start(n) ==
    /\ n \in up /\ toAdd[n] # {}
    /\ queries' = queries (+) AddNodesToRing(n, toAdd[n] \ {n})
    /\ toAdd' = [toAdd EXCEPT ![n] = {}]
    /\ UNCHANGED <<up, rings, cached, packets>>

\* performGossip: a GossipQuery, with its AddNodeQuery, for random members.
PerformGossip(n, M) ==
    /\ n \in up /\ M \in RandomNodes(n, rings[n]) /\ M # {}
    /\ GossipBound
    /\ queries' = queries (+) SetToBag({Add(n, m, "waits") : m \in M})
    /\ UNCHANGED <<up, toAdd, rings, cached, packets>>

\* The other node answers a PING, or a REQ_MEASURE_N_MERID_PING.
Reply(u) ==
    /\ BagIn(u, queries) /\ ~u.replied /\ Reachable(u.at, u.to)
    /\ queries' = BagAdd(BagRemove(queries, u), [u EXCEPT !.replied = TRUE])
    /\ UNCHANGED <<up, toAdd, rings, cached, packets>>

(* The answer arrives (handleEvent, or handleLatency for a firewalled node):   *)
(* the node enters the rings, the subscribed GossipQuery sends a GOSSIP, the   *)
(* ping cache learns the latency.                                              *)
Answered(u) ==
    /\ BagIn(u, queries) /\ u.kind = "add" /\ u.replied
    /\ rings' = [rings EXCEPT ![u.at] = @ \cup ({u.to} \cap Room[u.at])]
    /\ cached' = [cached EXCEPT ![u.at] = @ \cup {u.to}]
    /\ queries' = BagRemove(queries, u)
    /\ IF u.gossip = "waits"
       THEN \E p \in FillGossipPacket(u.at, u.to, rings'[u.at], FALSE) :
               packets' = packets \cup {p}
       ELSE UNCHANGED packets
    /\ UNCHANGED <<up, toAdd>>

\* A ReqProbePing whose AddNodeQuery has gone is answered: nobody is told.
ProbeAnswered(u) ==
    /\ BagIn(u, queries) /\ u.kind = "probe" /\ u.replied
    /\ queries' = BagRemove(queries, u)
    /\ UNCHANGED <<up, toAdd, rings, cached, packets>>

\* With timely packets only what cannot be answered runs into its timeout.
Due(u) == BagIn(u, queries) /\ (Timely => ~u.replied /\ ~Reachable(u.at, u.to))

\* Faulty variant: a silent node stays in the rings.
TimeoutKeeps(u) ==
    /\ Due(u)
    /\ queries' = BagRemove(queries, u)
    /\ UNCHANGED <<up, toAdd, rings, cached, packets>>

(* AddNodeQuery and ReqProbePing take a silent node out of the rings.  The     *)
(* AddNodeQuery is the first to give up (MAX_RTT_MS against twice that).       *)
Timeout(u) ==
    /\ Due(u)
    /\ rings' = [rings EXCEPT ![u.at] = @ \ {u.to}]
    /\ queries' = IF u.kind = "add" /\ u.to \in Firewalled /\ u.at \notin Firewalled
                  THEN BagAdd(BagRemove(queries, u),
                              [u EXCEPT !.kind = "probe", !.gossip = "none"])
                  ELSE BagRemove(queries, u)
    /\ UNCHANGED <<up, toAdd, cached, packets>>

\* A GossipQuery times out on its own, just before its AddNodeQuery.
GossipTimeout(u) ==
    /\ Due(u) /\ u.gossip = "waits"
    /\ queries' = BagAdd(BagRemove(queries, u), [u EXCEPT !.gossip = "gone"])
    /\ UNCHANGED <<up, toAdd, rings, cached, packets>>

\* Faulty variant: GOSSIP is not answered.
ReceivePushOnly(p) ==
    /\ p \in packets /\ p.to \in up
    /\ queries' = queries (+) AddNodesToRing(p.to, {p.from} \cup p.nodes)
    /\ packets' = packets \ {p}
    /\ UNCHANGED <<up, toAdd, rings, cached>>

\* GOSSIP and GOSSIP_PULL: add the sender and the nodes named; a GOSSIP is
\* answered by a GOSSIP_PULL.
Receive(p) ==
    /\ p \in packets /\ p.to \in up
    /\ queries' = queries (+) AddNodesToRing(p.to, {p.from} \cup p.nodes)
    /\ IF PushPull /\ ~p.pull
       THEN \E answer \in FillGossipPacket(p.to, p.from, rings[p.to], TRUE) :
               packets' = (packets \ {p}) \cup {answer}
       ELSE packets' = packets \ {p}
    /\ UNCHANGED <<up, toAdd, rings, cached>>

\* The network loses a packet.
Lose(p) ==
    /\ ~Timely /\ p \in packets
    /\ packets' = packets \ {p}
    /\ UNCHANGED <<up, toAdd, rings, cached, queries>>

\* The ping cache forgets an entry after its timeout.
Forget(n, m) ==
    /\ n \in up /\ m \in cached[n]
    /\ cached' = [cached EXCEPT ![n] = @ \ {m}]
    /\ UNCHANGED <<up, toAdd, rings, queries, packets>>

\* A process ends, and all it had in memory with it.
Crash(n) ==
    /\ n \in up \cap Mortal
    /\ up' = up \ {n}
    /\ rings' = [rings EXCEPT ![n] = {}]
    /\ cached' = [cached EXCEPT ![n] = {}]
    /\ toAdd' = [toAdd EXCEPT ![n] = {}]
    /\ queries' = [u \in {u \in DOMAIN queries : u.at # n} |-> queries[u]]
    /\ packets' = {p \in packets : p.to # n}

Next ==
    /\ \/ \E n \in Nodes : Start(n) \/ Crash(n)
       \/ \E n \in Nodes, M \in SUBSET Nodes : PerformGossip(n, M)
       \/ \E u \in DOMAIN queries :
             Reply(u) \/ Answered(u) \/ ProbeAnswered(u) \/ Timeout(u) \/ GossipTimeout(u)
       \/ \E p \in packets : Receive(p) \/ Lose(p)
       \/ \E n, m \in Nodes : Forget(n, m)
    /\ UNCHANGED overlay

Spec == Init /\ [][Next]_vars

Started  == Timely /\ (\E n \in Nodes : Start(n)) /\ UNCHANGED overlay
Replied  == Timely /\ (\E u \in DOMAIN queries : Reply(u)) /\ UNCHANGED overlay
Answers  == Timely /\ (\E u \in DOMAIN queries : Answered(u) \/ ProbeAnswered(u))
                   /\ UNCHANGED overlay
Expires  == (\E u \in DOMAIN queries : Timeout(u)) /\ UNCHANGED overlay
Arrives  == (\E p \in packets : Receive(p) \/ Lose(p)) /\ UNCHANGED overlay
Forgets  == (\E n, m \in Nodes : Forget(n, m)) /\ UNCHANGED overlay
Gossips(n, m) == (\E M \in SUBSET Nodes : m \in M /\ PerformGossip(n, M)) /\ UNCHANGED overlay

(* Some timer goes off when one is due, packets do not travel for ever, and a  *)
(* random choice that can fall on a member does so in the end.  Where packets  *)
(* are timely, what is sent arrives.                                           *)
FairSpec ==
    /\ Spec
    /\ WF_vars(Expires) /\ WF_vars(Arrives) /\ WF_vars(Forgets)
    /\ WF_vars(Started) /\ WF_vars(Replied) /\ WF_vars(Answers)
    /\ \A n \in Nodes : \A m \in Nodes \ {n} : SF_vars(Gossips(n, m))

-----------------------------------------------------------------------------
\* Rings, caches, queries and packets hold nodes of the overlay; only an open
\* node probes for a firewalled one; what is not up has no state.
TypeOK ==
    /\ overlay \in Overlays /\ up \subseteq Nodes
    /\ toAdd \in [Nodes -> SUBSET Nodes]
    /\ rings \in [Nodes -> SUBSET Nodes]
    /\ cached \in [Nodes -> SUBSET Nodes]
    /\ IsABag(queries) /\ DOMAIN queries \subseteq Query
    /\ \A u \in DOMAIN queries :
          u.kind = "probe" => u.at \notin Firewalled /\ u.to \in Firewalled
    /\ packets \subseteq GossipPacket
    /\ \A n \in Nodes \ up : rings[n] = {} /\ cached[n] = {}

(* README, on firewalled nodes: "This further restricts firewalled nodes to    *)
(* only have non-firewalled nodes as ring members", though gossip names        *)
(* firewalled nodes to everybody.                                              *)
FirewalledKnowOpen == \A n \in Firewalled : rings[n] \cap Firewalled = {}

(* No node learns of itself from others, be it by gossip or by the answer to   *)
(* its own: nothing in addNodeToRing checks for it.                            *)
NobodyKnowsItself == \A n \in Nodes : n \notin rings[n]

(* The state is well-formed and a node keeps only nodes that it can measure:   *)
(* others, and open ones if it is firewalled itself.                           *)
MembersAreMeasurable == TypeOK /\ NobodyKnowsItself /\ FirewalledKnowOpen

(* Nodes that have gone for good are in the end forgotten by everybody for     *)
(* good, although gossip goes on naming them as long as somebody has them in a *)
(* ring.                                                                       *)
DeadAreForgotten == <>[](\A n \in Nodes : rings[n] \subseteq up)

(* If packets arrive, every node comes to know every other that it has room    *)
(* for and can measure, having been told of its seeds only.                    *)
Meets(n, m) == m \in Room[n] /\ Reachable(n, m) => m \in rings[n]
EverybodyMeets ==
    Timely => <>[](\A n \in Nodes : \A m \in Nodes \ {n} : Meets(n, m))

================================================================================
