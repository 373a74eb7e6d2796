--------------------------- MODULE MultiConstraint ---------------------------
(* The multi-constraint search: which node is within given latencies of a set  *)
(* of targets, or closest to it.  A node's part of it is HandleMCGeneric; to   *)
(* ask a ring member for its latencies it keeps a ReqProbeGeneric query, which *)
(* the member serves with a HandleReqGeneric query; both ends measure a target *)
(* with a ProbeQueryGeneric query.  All four are modelled, each with its own   *)
(* timer, over a network that loses and reorders packets and duplicates those  *)
(* of the measurements.  Seen from outside this is ClosestSearch, the average  *)
(* of its targets replaced by getAvgSolution: see ImplementsSearch.            *)
(*                                                                             *)
(* Query ids are random 64-bit numbers: that of the search is the client's,    *)
(* that of a ReqProbe is any its asker has in use nowhere.                     *)
EXTENDS Naturals, FiniteSets, Sequences, Functions, TLC

CONSTANTS
    Nodes, Entries, Client, Nobody, Targets, Knows, BetaNum, BetaDen,
    Measures,       \* Measures[n][t]: the latencies node n may measure to t
    CacheStates,    \* the sets of targets that a node may find in its cache
    Constraint,     \* Constraint[t]: the latency t is to be within
    MaxTurns        \* a bound: the times that a node begins its part of the
                    \* search, and the packets of the measurements that arrive twice

VARIABLES
    q,              \* q[n]: the HandleMCGeneric of node n, Idle if none
    asks,           \* the ReqProbeGeneric queries
    serves,         \* the HandleReqGeneric queries
    probes,         \* the ProbeQueryGeneric queries
    ring,           \* ring[n]: the members of node n's rings
    turns,          \* how much of MaxTurns has been used
    net, told, timely   \* as in ClosestSearch

vars == <<q, asks, serves, probes, ring, turns, net, told, timely>>

Idle == [phase |-> "none", src |-> Nobody, lats |-> <<>>, ring |-> {},
         heard |-> <<>>, sel |-> Nobody]

\* A packet; who and lats are those of a RET_RESPONSE, or of a RET_PING.
Packet(type, from, to, id, who, lats) ==
    [type |-> type, from |-> from, to |-> to, id |-> id, who |-> who, lats |-> lats]
Plain(type, from, to, id) == Packet(type, from, to, id, Nobody, <<>>)
Finals == {"RET_RESPONSE", "RET_ERROR"}
Asked == {"REQ_MEASURE", "RET_PING"}
Named(p) == IF p.who = Nobody THEN p.from ELSE p.who

\* One possible latency for each target of ts.
Possible(n, ts) ==
    {l \in [ts -> UNION {Measures[n][t] : t \in ts}] : \A t \in ts : l[t] \in Measures[n][t]}

\* remoteLatencies and ringLatencies learn one entry more.
With(known, k, v) == [x \in DOMAIN known \cup {k} |-> IF x = k THEN v ELSE known[x]]

\* What init finds in the latency cache of node n.
CachedLatencies(n) == UNION {Possible(n, ts) : ts \in CacheStates}

ASSUME MCAssumption ==
    /\ Entries \subseteq Nodes /\ Client \notin Nodes /\ Nobody \notin Nodes \cup {Client}
    /\ Targets # {} /\ IsFiniteSet(Targets) /\ IsFiniteSet(Nodes)
    /\ Knows \in [Nodes -> SUBSET Nodes] /\ \A n \in Nodes : n \notin Knows[n]
    /\ Measures \in [Nodes -> [Targets -> SUBSET Nat]]
    /\ \A n \in Nodes, t \in Targets : Measures[n][t] # {}
    /\ Constraint \in [Targets -> Nat]
    /\ CacheStates \subseteq SUBSET Targets /\ CacheStates # {}
    /\ BetaNum \in Nat /\ BetaDen \in Nat /\ MaxTurns \in Nat

\* addOutPacket: as in ClosestSearch.
Send(taken, out) ==
    /\ net' = (net \ taken) \cup {p \in out : p.to # Client}
    /\ LET ends == {p \in out : p.to = Client /\ p.type \in Finals}
       IN told' = IF ends = {} THEN told ELSE Append(told, CHOOSE p \in ends : TRUE)

-----------------------------------------------------------------------------
(* The distance of a node from what the constraints ask for                    *)

Excess(t, us) == IF us > Constraint[t] THEN us - Constraint[t] ELSE 0

\* getAvgSolution: the root of the squared excesses over the number of targets,
\* truncated: the largest k with k * n no more than the root.
AvgSolution(lats) ==
    LET n == Cardinality(Targets)
        squares == FoldFunction(LAMBDA a, b : a + b, 0,
                      [t \in Targets |-> Excess(t, lats[t]) * Excess(t, lats[t])])
    IN CHOOSE k \in 0 .. squares :
          (k * n) * (k * n) <= squares /\ squares < ((k + 1) * n) * ((k + 1) * n)

\* The same for every list that nodes can report.
Solutions == [lats \in UNION {Possible(n, Targets) : n \in Nodes} |-> AvgSolution(lats)]

Beta == IF BetaDen # 0 /\ 0 < BetaNum /\ BetaNum < BetaDen
        THEN <<BetaNum, BetaDen>> ELSE <<1, 2>>
Threshold(avg) == (2 * Beta[1] * avg + Beta[2]) \div (2 * Beta[2])

-----------------------------------------------------------------------------
(* HandleMCGeneric                                                             *)

Itself(n, to, lats) == Packet("RET_RESPONSE", n, to, 0, Nobody, lats)
Finish(n, taken, out) == q' = [q EXCEPT ![n] = Idle] /\ Send(taken, out)
Become(n, c, taken, out) == q' = [q EXCEPT ![n] = c] /\ Send(taken, out)

\* The members whose latencies lie closest; the code takes the first of them.
Closest(heard) ==
    {m \in DOMAIN heard :
        \A k \in DOMAIN heard : Solutions[heard[m]] <= Solutions[heard[k]]}

\* handleForward: the closest member is sent the request if it is within the
\* threshold and not perfect; otherwise it, or this node, is the answer.
HandleForward(n, c, taken) ==
    \/ Closest(c.heard) = {} /\ Finish(n, taken, {Itself(n, c.src, c.lats)})
    \/ \E m \in Closest(c.heard) :
          LET lowest == Solutions[c.heard[m]]
              mine == Solutions[c.lats] IN
          IF lowest = 0 \/ lowest > Threshold(mine)
          THEN Finish(n, taken,
                 {IF lowest < mine THEN Packet("RET_RESPONSE", n, c.src, 0, m, c.heard[m])
                  ELSE Itself(n, c.src, c.lats)})
          ELSE Become(n, [c EXCEPT !.phase = "fin", !.sel = m], taken,
                      {Plain("REQ", n, m, 0)})

\* The number of a new ReqProbe of n for member m: one nothing else bears.
NewId(n, m) ==
    LET used == {a.id : a \in {b \in asks : b.of = n /\ b.member = m}}
                \cup {s.id : s \in {u \in serves : u.from = n /\ u.at = m}}
                \cup {p.id : p \in {o \in net : o.type \in Asked /\ {o.from, o.to} = {n, m}}}
    IN CHOOSE k \in 1 .. Cardinality(used) + 1 : k \notin used

\* The ReqProbe of n for member m, and what its init sends.
Ask(n, m, id) == [of |-> n, member |-> m, id |-> id]
Question(n, m, id) == Plain("REQ_MEASURE", n, m, id)

\* sendReqProbes, with all targets measured: a ReqProbe, its REQ_MEASURE sent
\* by its init, for each ring member that fillVector names (see RingSet).
SendReqProbes(n, c, taken, out) ==
    \E members \in SUBSET ring[n] :
       IF Solutions[c.lats] = 0 \/ members = {}
       THEN Finish(n, taken, out \cup {Itself(n, c.src, c.lats)}) /\ UNCHANGED asks
       ELSE /\ asks' = asks \cup {Ask(n, m, NewId(n, m)) : m \in members}
            /\ Become(n, [c EXCEPT !.phase = "indirect", !.ring = members], taken,
                      out \cup {Question(n, m, NewId(n, m)) : m \in members})

\* A probe of node n and whom it tells (subscribeLatency): the search, or the
\* HandleReq of a request.  Two probes of a target for the search count as one.
Search0 == [from |-> Nobody, id |-> 0]
Probe(n, t, teller) == [at |-> n, target |-> t, tells |-> teller]
NewProbes(n, cached, teller) == {Probe(n, t, teller) : t \in Targets \ cached}

\* The constructor and init: a probe for each target the cache does not know.
NewQuery(n, p, taken) ==
    \E lats \in CachedLatencies(n) : LET cached == DOMAIN lats IN
       LET c == [Idle EXCEPT !.phase = "direct", !.src = p.from, !.lats = lats]
           info == {Plain("RET_INFO", n, p.from, 0)}
       IN /\ probes' = probes \cup NewProbes(n, cached, Search0)
          /\ IF cached = Targets THEN SendReqProbes(n, c, taken, info)
             ELSE UNCHANGED asks /\ Become(n, c, taken, info)

\* Faulty variant: what comes back names the node it came through.
HandleEventRenames(n, p, taken) ==
    LET c == q[n]
        back == Packet(p.type, n, c.src, 0, Nobody, p.lats)
    IN IF c.phase = "fin" /\ p.type = "REQ"
       THEN UNCHANGED q /\ Send(taken, {Itself(n, p.from, c.lats)})
       ELSE IF c.phase = "fin" /\ p.from = c.sel
       THEN IF p.type \in Finals THEN Finish(n, taken, {back})
            ELSE UNCHANGED q /\ Send(taken, {back})
       ELSE UNCHANGED q /\ Send(taken, {})

\* handleEvent: a request that comes back is answered by this node, what the
\* selected member sends is passed on, with the node it names spelt out.
HandleEvent(n, p, taken) ==
    LET c == q[n]
        back == Packet(p.type, n, c.src, 0,
                       IF p.type = "RET_ERROR" THEN Nobody ELSE Named(p), p.lats)
    IN IF c.phase = "fin" /\ p.type = "REQ"
       THEN UNCHANGED q /\ Send(taken, {Itself(n, p.from, c.lats)})
       ELSE IF c.phase = "fin" /\ p.from = c.sel
       THEN IF p.type \in Finals THEN Finish(n, taken, {back})
            ELSE UNCHANGED q /\ Send(taken, {back})
       ELSE UNCHANGED q /\ Send(taken, {})

\* handleLatency while the targets are measured; a stranger's or a second
\* result changes nothing.
DirectResult(n, t, us, taken) ==
    LET c == [q[n] EXCEPT !.lats = With(@, t, us)] IN
    IF q[n].phase # "direct" \/ t \in DOMAIN q[n].lats
    THEN UNCHANGED <<q, asks>> /\ Send(taken, {})
    ELSE IF DOMAIN c.lats = Targets THEN SendReqProbes(n, c, taken, {})
    ELSE UNCHANGED asks /\ Become(n, c, taken, {})

\* handleLatency while ring members are asked.  The report may be that of an
\* earlier search under this id, a member that was not asked, or a second one.
IndirectResult(n, m, lats, taken) ==
    LET c == [q[n] EXCEPT !.heard = With(@, m, lats)] IN
    IF q[n].phase # "indirect" \/ m \notin q[n].ring \/ m \in DOMAIN q[n].heard
    THEN UNCHANGED q /\ Send(taken, {})
    ELSE IF DOMAIN c.heard = c.ring THEN HandleForward(n, c, taken)
    ELSE Become(n, c, taken, {})

-----------------------------------------------------------------------------
(* HandleReqGeneric: at is asked by from; sendReturnPacket sends what it has   *)

Serve(p, lats) == [at |-> p.to, from |-> p.from, id |-> p.id, lats |-> lats]
ReturnPacket(s) == Packet("RET_PING", s.at, s.from, s.id, Nobody, s.lats)

\* Faulty variant: nothing is said if all targets were in the cache.
ServeNewNotTold(p, taken) ==
    \E lats \in CachedLatencies(p.to) : LET cached == DOMAIN lats IN
       /\ probes' = probes \cup NewProbes(p.to, cached, [from |-> p.from, id |-> p.id])
       /\ serves' = serves \cup (IF cached = Targets THEN {} ELSE {Serve(p, lats)})
       /\ Send(taken, {})

\* handleMeasureReq for an id not in the table: the constructor and init.
ServeNew(p, taken) ==
    \E lats \in CachedLatencies(p.to) : LET cached == DOMAIN lats IN
       /\ probes' = probes \cup NewProbes(p.to, cached, [from |-> p.from, id |-> p.id])
       /\ IF cached = Targets
          THEN UNCHANGED serves /\ Send(taken, {ReturnPacket(Serve(p, lats))})
          ELSE serves' = serves \cup {Serve(p, lats)} /\ Send(taken, {})

\* handleLatency of the query that the probe tells, if it is still there; a
\* second result changes nothing.
ServeResult(pr, us) ==
    LET mine == {s \in serves : /\ s.at = pr.at /\ s.from = pr.tells.from
                                /\ s.id = pr.tells.id /\ pr.target \notin DOMAIN s.lats}
        next == {[s EXCEPT !.lats = With(@, pr.target, us)] : s \in mine}
        done == {s \in next : DOMAIN s.lats = Targets}
    IN serves' = (serves \ mine) \cup (next \ done) /\ Send({}, {ReturnPacket(s) : s \in done})

-----------------------------------------------------------------------------
Init ==
    /\ q = [n \in Nodes |-> Idle]
    /\ asks = {} /\ serves = {} /\ probes = {} /\ ring = Knows
    /\ \E first \in Entries : net = {Plain("REQ", Client, first, 0)}
    /\ told = <<>> /\ turns = 0 /\ timely \in BOOLEAN

\* handleMCReq, and the packets the table hands to the search.
ReceiveSearch(p) ==
    /\ p.type \notin Asked
    /\ IF p.type = "REQ" /\ q[p.to] = Idle
       THEN /\ turns < MaxTurns /\ turns' = turns + 1
            /\ NewQuery(p.to, p, {p})
       ELSE HandleEvent(p.to, p, {p}) /\ UNCHANGED <<asks, probes, turns>>
    /\ UNCHANGED <<serves, ring, timely>>

\* handleMeasureReq: a request that is being served is not served again.
ReceiveMeasure(p, taken) ==
    /\ p.type = "REQ_MEASURE"
    /\ IF \E s \in serves : s.at = p.to /\ s.from = p.from /\ s.id = p.id
       THEN UNCHANGED <<probes, serves>> /\ Send(taken, {})
       ELSE ServeNew(p, taken)
    /\ UNCHANGED <<q, asks, ring, timely>>

\* ReqProbeGeneric::handleEvent: a full list is passed on, a partial one is
\* not, and the query goes on waiting.
ReceivePing(p, taken) ==
    /\ p.type = "RET_PING"
    /\ LET a == Ask(p.to, p.from, p.id) IN
       IF a \in asks /\ DOMAIN p.lats = Targets
       THEN asks' = asks \ {a} /\ IndirectResult(p.to, p.from, p.lats, taken)
       ELSE UNCHANGED <<q, asks>> /\ Send(taken, {})
    /\ UNCHANGED <<probes, serves, ring, timely>>

\* ProbeQueryGeneric::handleLatency: the one who waits is told.  (A probe whose
\* timer goes off tells nobody: here it just never gets this far.)
ProbeDone(pr) ==
    /\ pr \in probes /\ probes' = probes \ {pr}
    /\ \E us \in Measures[pr.at][pr.target] :
          IF pr.tells = Search0
          THEN DirectResult(pr.at, pr.target, us, {}) /\ UNCHANGED serves
          ELSE ServeResult(pr, us) /\ UNCHANGED <<q, asks>>
    /\ UNCHANGED <<ring, turns, timely>>

\* HandleReqGeneric::handleTimeout: what has been measured is returned.
ServeTimeout(s) ==
    /\ ~timely /\ s \in serves /\ serves' = serves \ {s}
    /\ Send({}, {ReturnPacket(s)})
    /\ UNCHANGED <<q, asks, probes, ring, turns, timely>>

\* ReqProbeGeneric::handleTimeout: the member leaves the rings.
AskTimeout(a) ==
    /\ ~timely /\ a \in asks /\ asks' = asks \ {a}
    /\ ring' = [ring EXCEPT ![a.of] = @ \ {a.member}]
    /\ UNCHANGED <<q, serves, probes, turns, net, told, timely>>

\* Faulty variant: the reports that came are dropped with those that did not.
TimeoutGivesUp(n) ==
    /\ ~timely /\ q[n] # Idle
    /\ Finish(n, {}, {Plain("RET_ERROR", n, q[n].src, 0)})
    /\ UNCHANGED <<asks, serves, probes, ring, turns, timely>>

\* HandleMCGeneric::handleTimeout: missing reports are done without, a missing
\* target or answer is an error.
Timeout(n) ==
    /\ ~timely /\ q[n] # Idle
    /\ IF q[n].phase = "indirect" THEN HandleForward(n, q[n], {})
       ELSE Finish(n, {}, {Plain("RET_ERROR", n, q[n].src, 0)})
    /\ UNCHANGED <<asks, serves, probes, ring, turns, timely>>

\* A packet of the measurements arrives and will arrive again.
Repeat(p) ==
    /\ ~timely /\ turns < MaxTurns /\ turns' = turns + 1
    /\ ReceiveMeasure(p, {}) \/ ReceivePing(p, {})

Receive(p) ==
    \/ ReceiveSearch(p)
    \/ (ReceiveMeasure(p, {p}) \/ ReceivePing(p, {p})) /\ UNCHANGED turns

Next ==
    \/ \E p \in net : Receive(p) \/ Repeat(p)
    \/ \E n \in Nodes : Timeout(n)
    \/ \E pr \in probes : ProbeDone(pr)
    \/ \E s \in serves : ServeTimeout(s)
    \/ \E a \in asks : AskTimeout(a)

Spec == Init /\ [][Next]_vars

Arrives(n) == timely /\ \E p \in net : p.to = n /\ Receive(p)
Measured(n) == timely /\ \E pr \in probes : pr.at = n /\ ProbeDone(pr)

(* As in ClosestSearch: timers go off, and packets and probes arrive where     *)
(* they are timely.                                                            *)
FairSpec ==
    /\ Spec
    /\ \A n \in Nodes : WF_vars(Timeout(n)) /\ WF_vars(Arrives(n)) /\ WF_vars(Measured(n))

-----------------------------------------------------------------------------
(* What a query has, its phase allows; a list of latencies is complete before  *)
(* anything is decided on it.                                                  *)
TypeOK ==
    /\ \A n \in Nodes : LET c == q[n] IN
       /\ c.phase \in {"none", "direct", "indirect", "fin"}
       /\ c.phase = "none" <=> c = Idle
       /\ DOMAIN c.lats \subseteq Targets /\ DOMAIN c.heard \subseteq c.ring \ {n}
       /\ c.phase \in {"indirect", "fin"} => DOMAIN c.lats = Targets
       /\ c.phase = "fin" => c.sel \in DOMAIN c.heard
       /\ \A m \in DOMAIN c.heard : DOMAIN c.heard[m] = Targets
    /\ \A s \in serves : s.at # s.from /\ DOMAIN s.lats \subseteq Targets /\ DOMAIN s.lats # Targets
    /\ \A a \in asks : a.of # a.member
    /\ ring \in [Nodes -> SUBSET Nodes]

(* Where every node always measures the same: the latencies an answer carries  *)
(* are all those of the node it names, through every hop on its way back.      *)
AnswersCarryLatencies ==
    \A p \in net \cup {told[i] : i \in DOMAIN told} :
        p.type = "RET_RESPONSE" => p.lats \in Possible(Named(p), Targets)

(* At most one query serves a request, and none once its answer is complete:   *)
(* a duplicated REQ_MEASURE starts no second one beside it.                    *)
ServedOnce ==
    \A s, u \in serves : s.at = u.at /\ s.from = u.from /\ s.id = u.id => s = u

MCConsistent == TypeOK /\ AnswersCarryLatencies /\ ServedOnce

-----------------------------------------------------------------------------
(* The refinement: a list of latencies is its average, the packets and queries *)
(* of the measurements are not seen.                                           *)
Seen(p) == [type |-> p.type, from |-> p.from, to |-> p.to, who |-> p.who]
SeenQuery(c) ==
    [phase |-> c.phase, src |-> c.src,
     direct |-> DOMAIN c.lats,
     avg |-> IF c.phase \in {"indirect", "fin"} THEN Solutions[c.lats] ELSE 0,
     ring |-> c.ring,
     heard |-> [m \in DOMAIN c.heard |-> Solutions[c.heard[m]]],
     sel |-> c.sel]

Search == INSTANCE ClosestSearch WITH
    Lat <- [n \in Nodes |-> {AvgSolution(l) : l \in Possible(n, Targets)}],
    q <- [n \in Nodes |-> SeenQuery(q[n])],
    net <- {Seen(p) : p \in {o \in net : o.type \notin Asked}},
    told <- [i \in DOMAIN told |-> Seen(told[i])]

(* Measuring through ring members with timers of their own, with reports that  *)
(* are partial, late, repeated or of an earlier search: the multi-constraint   *)
(* search does nothing that the closest-node search with the average of the    *)
(* excesses as its latency does not do.                                        *)
ImplementsSearch == Search!Spec

(* If packets and probes are in time, the client gets a node: no query of the  *)
(* four kinds waits for something nobody sends.                                *)
ClientGetsNode == timely => <>(\E i \in DOMAIN told : told[i].type = "RET_RESPONSE")

=============================================================================
