---------------------------- MODULE ClosestSearch ----------------------------
(* The closest-node search: one client asks one node which node is nearest on  *)
(* average to a set of targets, and the nodes hand the question on, each to a  *)
(* ring member that is closer by the factor beta.  HandleClosestGeneric holds  *)
(* a node's part of it (Query.cpp), handleClosestReq starts it.                *)
(*                                                                             *)
(* A query id names the whole search, so a node has at most one query for it.  *)
(* Packets travel in any order and may never arrive; none arrives twice, and   *)
(* two equal ones under way at a time count as one.  A latency stands for the  *)
(* average over the targets, as one node measures it; the probes that measure  *)
(* it (ProbeQueryGeneric, ReqProbeGeneric) are the actions that deliver their  *)
(* results.                                                                    *)
EXTENDS Naturals, FiniteSets, Sequences, TLC

CONSTANTS
    Nodes,              \* the Meridian nodes
    Entries,            \* the nodes a client may ask first
    Client,             \* who asks; not a node of the overlay
    Nobody,             \* the address 0:0, "itself" in a RET_RESPONSE
    Targets,            \* the targets of the search
    Knows,              \* Knows[n]: the members of node n's rings
    Lat,                \* Lat[n]: the averages node n may measure
    BetaNum, BetaDen    \* beta, as the request carries it

ASSUME SearchAssumption ==
    /\ Entries \subseteq Nodes /\ Client \notin Nodes /\ Nobody \notin Nodes \cup {Client}
    /\ Targets # {} /\ IsFiniteSet(Targets) /\ IsFiniteSet(Nodes)
    /\ Knows \in [Nodes -> SUBSET Nodes] /\ \A n \in Nodes : n \notin Knows[n]
    /\ Lat \in [Nodes -> SUBSET Nat] /\ \A n \in Nodes : Lat[n] # {}
    /\ BetaNum \in Nat /\ BetaDen \in Nat

VARIABLES
    q,          \* q[n]: the query of node n, Idle when its table has none
    net,        \* the packets under way between nodes
    told,       \* the RET_RESPONSE and RET_ERROR packets sent to the client
    timely      \* throughout a behaviour: packets and probes arrive before any
                \* query meets its timeout; or at any time or never

vars == <<q, net, told, timely>>

Parties == Nodes \cup {Client, Nobody}

(* A query: its phase, who asked, the targets measured, their average, the     *)
(* ring members asked, the averages they reported, the member forwarded to.    *)
Idle == [phase |-> "none", src |-> Nobody, direct |-> {}, avg |-> 0,
         ring |-> {}, heard |-> <<>>, sel |-> Nobody]

Packet(type, from, to, who) == [type |-> type, from |-> from, to |-> to, who |-> who]

Finals == {"RET_RESPONSE", "RET_ERROR"}

\* RetResponse::parse reads 0:0 as the node the packet came from.
Named(p) == IF p.who = Nobody THEN p.from ELSE p.who

(* addOutPacket: a packet joins the network; of the client's packets only the  *)
(* ones that end its search are kept.                                          *)
Send(taken, out) ==
    /\ net' = (net \ taken) \cup {p \in out : p.to # Client}
    /\ LET ends == {p \in out : p.to = Client /\ p.type \in Finals}
       IN told' = IF ends = {} THEN told ELSE Append(told, CHOOSE p \in ends : TRUE)

-----------------------------------------------------------------------------
\* An answer that names the node itself, and the word that a query has begun.
Itself(n, to) == Packet("RET_RESPONSE", n, to, Nobody)
Info(n, to)   == Packet("RET_INFO", n, to, Nobody)

\* The query leaves the table with its last packet.
Finish(n, taken, out) == q' = [q EXCEPT ![n] = Idle] /\ Send(taken, out)

\* A beta outside (0, 1) is replaced by one half; llround rounds halves up.
LegalBeta == BetaDen # 0 /\ 0 < BetaNum /\ BetaNum < BetaDen
Num == IF LegalBeta THEN BetaNum ELSE 1
Den == IF LegalBeta THEN BetaDen ELSE 2
Threshold(avg) == (2 * Num * avg + Den) \div (2 * Den)

\* The members that reported the lowest average; the code takes the first by
\* address, here any of them.
Closest(heard) ==
    {m \in DOMAIN heard : \A k \in DOMAIN heard : heard[m] <= heard[k]}

\* Faulty variant: a member is named even where this node is nearer.
HandleForwardNamesMember(n, c, out) ==
    \/ /\ Closest(c.heard) = {}
       /\ Finish(n, {}, out \cup {Itself(n, c.src)})
    \/ \E m \in Closest(c.heard) :
          IF c.heard[m] = 0 \/ c.heard[m] > Threshold(c.avg)
          THEN Finish(n, {}, out \cup {Packet("RET_RESPONSE", n, c.src, m)})
          ELSE /\ q' = [q EXCEPT ![n] = [c EXCEPT !.phase = "fin", !.sel = m]]
               /\ Send({}, out \cup {Packet("REQ", n, m, Nobody)})

(* handleForward: a member within the threshold gets the request and is waited *)
(* for; otherwise the search ends here, at the nearest member heard of if it   *)
(* beats this node and at this node if not.  c is the query as it now is, out  *)
(* what the handler has sent before.                                           *)
HandleForward(n, c, out) ==
    \/ /\ Closest(c.heard) = {}
       /\ Finish(n, {}, out \cup {Itself(n, c.src)})
    \/ \E m \in Closest(c.heard) :
          IF c.heard[m] = 0 \/ c.heard[m] > Threshold(c.avg)
          THEN Finish(n, {}, out \cup
                  {IF c.heard[m] < c.avg
                   THEN Packet("RET_RESPONSE", n, c.src, m) ELSE Itself(n, c.src)})
          ELSE /\ q' = [q EXCEPT ![n] = [c EXCEPT !.phase = "fin", !.sel = m]]
               /\ Send({}, out \cup {Packet("REQ", n, m, Nobody)})

(* sendReqProbes: all targets are measured.  fillVector's choice of members    *)
(* depends on their latencies (RingSet) and is any set of ring members here.   *)
SendReqProbes(n, c, taken, out) ==
    \E avg \in Lat[n], ring \in SUBSET Knows[n] :
       IF avg = 0 \/ ring = {}
       THEN Finish(n, taken, out \cup {Itself(n, c.src)})
       ELSE /\ q' = [q EXCEPT ![n] = [c EXCEPT !.phase = "indirect", !.avg = avg,
                                               !.ring = ring]]
            /\ Send(taken, out)

\* Faulty variant: a query that needs no probe is not told that it has all.
NewQueryNotTold(n, p, taken) ==
    \E cached \in SUBSET Targets :
       /\ q' = [q EXCEPT ![n] = [Idle EXCEPT !.phase = "direct", !.src = p.from,
                                             !.direct = cached]]
       /\ Send(taken, {Info(n, p.from)})

\* A request for a search this node knows nothing of: the constructor and init.
\* Targets found in the latency cache need no probe.
NewQuery(n, p, taken) ==
    \E cached \in SUBSET Targets :
       LET c == [Idle EXCEPT !.phase = "direct", !.src = p.from, !.direct = cached]
       IN IF cached = Targets
          THEN SendReqProbes(n, c, taken, {Info(n, p.from)})
          ELSE /\ q' = [q EXCEPT ![n] = c]
               /\ Send(taken, {Info(n, p.from)})

\* Faulty variant: a request that comes back is dropped.
HandleEventIgnoresLoop(n, p, taken) ==
    LET c == q[n] IN
    IF c.phase = "fin" /\ p.type # "REQ" /\ p.from = c.sel
    THEN LET back == Packet(p.type, n, c.src, IF p.type = "RET_ERROR" THEN Nobody
                                              ELSE Named(p))
         IN IF p.type \in Finals THEN Finish(n, taken, {back})
            ELSE UNCHANGED q /\ Send(taken, {back})
    ELSE UNCHANGED q /\ Send(taken, {})

(* handleEvent: only a node that waits for the member it chose listens.  The   *)
(* request itself coming back means a loop, and is answered where it came      *)
(* from; what the chosen member sends goes back to who asked.                  *)
HandleEvent(n, p, taken) ==
    LET c == q[n] IN
    IF c.phase = "fin" /\ p.type = "REQ"
    THEN UNCHANGED q /\ Send(taken, {Itself(n, p.from)})
    ELSE IF c.phase = "fin" /\ p.from = c.sel
    THEN LET back == Packet(p.type, n, c.src, IF p.type = "RET_ERROR" THEN Nobody
                                              ELSE Named(p))
         IN IF p.type \in Finals THEN Finish(n, taken, {back})
            ELSE UNCHANGED q /\ Send(taken, {back})
    ELSE UNCHANGED q /\ Send(taken, {})

-----------------------------------------------------------------------------
Init ==
    /\ q = [n \in Nodes |-> Idle]
    /\ \E first \in Entries : net = {Packet("REQ", Client, first, Nobody)}
    /\ told = <<>> /\ timely \in BOOLEAN

\* handleClosestReq, and the packets that the table hands to a query.
Receive(p) ==
    /\ IF p.type = "REQ" /\ q[p.to] = Idle
       THEN NewQuery(p.to, p, {p})
       ELSE HandleEvent(p.to, p, {p})
    /\ UNCHANGED timely

\* handleLatency while the targets are measured: one result per probe.
TargetMeasured(n, t) ==
    /\ q[n].phase = "direct" /\ t \in Targets \ q[n].direct
    /\ LET c == [q[n] EXCEPT !.direct = @ \cup {t}]
       IN IF c.direct = Targets THEN SendReqProbes(n, c, {}, {})
          ELSE q' = [q EXCEPT ![n] = c] /\ Send({}, {})
    /\ UNCHANGED timely

\* remoteLatencies learns the average a member reports.
WithReport(heard, m, lat) ==
    [k \in DOMAIN heard \cup {m} |-> IF k = m THEN lat ELSE heard[k]]

\* handleLatency while the ring members are asked.  A member reports once, for
\* all targets or not at all (ReqProbeGeneric drops a partial list).
MemberReported(n, m) ==
    /\ q[n].phase = "indirect" /\ m \in q[n].ring \ DOMAIN q[n].heard
    /\ \E lat \in Lat[m] :
          LET c == [q[n] EXCEPT !.heard = WithReport(@, m, lat)]
          IN IF DOMAIN c.heard = c.ring THEN HandleForward(n, c, {})
             ELSE q' = [q EXCEPT ![n] = c] /\ Send({}, {})
    /\ UNCHANGED timely

\* Faulty variant: no timer runs while the targets are measured.
TimeoutNotMeasuring(n) ==
    /\ ~timely /\ q[n].phase \in {"indirect", "fin"}
    /\ IF q[n].phase = "indirect" THEN HandleForward(n, q[n], {})
       ELSE Finish(n, {}, {Packet("RET_ERROR", n, q[n].src, Nobody)})
    /\ UNCHANGED timely

\* Faulty variant: sending the error does not finish the query.
TimeoutStays(n) ==
    /\ ~timely /\ q[n] # Idle
    /\ IF q[n].phase = "indirect" THEN HandleForward(n, q[n], {})
       ELSE UNCHANGED q /\ Send({}, {Packet("RET_ERROR", n, q[n].src, Nobody)})
    /\ UNCHANGED timely

\* handleTimeout: a missing target or answer is an error, missing reports of
\* ring members are done without.
Timeout(n) ==
    /\ ~timely /\ q[n] # Idle
    /\ IF q[n].phase = "indirect" THEN HandleForward(n, q[n], {})
       ELSE Finish(n, {}, {Packet("RET_ERROR", n, q[n].src, Nobody)})
    /\ UNCHANGED timely

Next ==
    \/ \E p \in net : Receive(p)
    \/ \E n \in Nodes : Timeout(n)
    \/ \E n \in Nodes, t \in Targets : TargetMeasured(n, t)
    \/ \E n, m \in Nodes : MemberReported(n, m)

Spec == Init /\ [][Next]_vars

Requests(n) == timely /\ \E p \in net : p.to = n /\ Receive(p)
Measured(n, t) == timely /\ TargetMeasured(n, t)
Reported(n, m) == timely /\ MemberReported(n, m)

(* The table expires every query (QueryTable's DueIsHandled): a timer goes off *)
(* as long as its query is there.  Of the network, and the nodes probed,       *)
(* something is assumed only where they are timely.                            *)
FairSpec ==
    /\ Spec
    /\ \A n \in Nodes : WF_vars(Timeout(n)) /\ WF_vars(Requests(n))
    /\ \A n \in Nodes, t \in Targets : WF_vars(Measured(n, t))
    /\ \A n, m \in Nodes : WF_vars(Reported(n, m))
-----------------------------------------------------------------------------
(* Packets and queries are what the code can build; a query's fields are in    *)
(* step with its phase.                                                        *)
TypeOK ==
    /\ q \in [Nodes -> [phase : {"none", "direct", "indirect", "fin"},
                        src : Parties, direct : SUBSET Targets, avg : Nat,
                        ring : SUBSET Nodes, sel : Nodes \cup {Nobody},
                        heard : {q[n].heard : n \in Nodes}]]
    /\ \A n \in Nodes : /\ DOMAIN q[n].heard \subseteq q[n].ring \ {n}
                        /\ q[n].heard \in [DOMAIN q[n].heard -> Nat]
                        /\ q[n].phase = "none" <=> q[n] = Idle
                        /\ q[n].phase = "fin" => q[n].sel \in DOMAIN q[n].heard
    /\ \A p \in net : p \in [type : {"REQ", "RET_INFO"} \cup Finals,
                             from : Parties, to : Nodes, who : Parties]
    /\ \A i \in DOMAIN told : told[i].type \in Finals
    /\ timely \in BOOLEAN

(* A search gives the client at most one final packet, whatever times out,     *)
(* loops or starts again at a node under the same id.                          *)
AtMostOneAnswer == Len(told) <= 1

(* A node that waits for the member it chose (HC_WAIT_FOR_FIN) is owed an      *)
(* answer: its request is under way, or the member works for it, or the        *)
(* member's final packet is under way.  A loop must not leave two nodes        *)
(* waiting for each other.                                                     *)
WaitsAreOwed ==
    \A n \in Nodes : q[n].phase = "fin" =>
        LET m == q[n].sel IN
        \/ Packet("REQ", n, m, Nobody) \in net
        \/ q[m].src = n
        \/ \E p \in net : p.from = m /\ p.to = n /\ p.type \in Finals

(* The state is well-formed and whoever waits is owed an answer.               *)
SearchConsistent == TypeOK /\ WaitsAreOwed

(* Where every node always measures the same average: the node an answer names *)
(* is no farther than the one that sends it, so no hop on the way back, and    *)
(* not the client in the end, gets a worse node than the one it asked.         *)
AnswersNeverWorse ==
    LET Of(n) == CHOOSE lat \in Lat[n] : TRUE IN
    \A p \in net \cup {told[i] : i \in DOMAIN told} :
        p.type = "RET_RESPONSE" => Of(Named(p)) <= Of(p.from)

(* A search accepted by a node ends, even if no other packet ever arrives and  *)
(* no probe returns, and the step that ends it sends a RET_RESPONSE or         *)
(* RET_ERROR of that node to the very one who asked it.                        *)
EveryRequestAnswered ==
    /\ \A n \in Nodes : q[n] # Idle ~> q[n] = Idle
    /\ [][\A n \in Nodes : q[n] # Idle /\ q'[n] = Idle =>
             \E p \in net' \cup {told'[i] : i \in DOMAIN told'} :
                 p.from = n /\ p.to = q[n].src /\ p.type \in Finals]_vars

(* If packets arrive in time, the client gets a node, through any loops that   *)
(* changing measurements or rounding lead the request into.                    *)
ClientGetsNode == timely => <>(\E i \in DOMAIN told : told[i].type = "RET_RESPONSE")

=============================================================================
