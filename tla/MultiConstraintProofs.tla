------------------------ MODULE MultiConstraintProofs ------------------------
(***************************************************************************)
(* Proofs about MultiConstraint, for any nodes, rings, targets, constraints*)
(* and latencies, whatever is late, lost, repeated or times out: nothing is*)
(* decided on the latencies of some of the targets, an answer bears those  *)
(* of the node it names, and the search implements ClosestSearch.          *)
(***************************************************************************)
EXTENDS MultiConstraint, TLAPS

Asking == Nodes \cup {Client}

\* What node n may have measured so far.
Partial(n) == UNION {Possible(n, ts) : ts \in SUBSET Targets}

\* A query is a record of these fields.
Fields(c) == [phase |-> c.phase, src |-> c.src, lats |-> c.lats, ring |-> c.ring,
              heard |-> c.heard, sel |-> c.sel]

\* A query that node n may have.
GoodQuery(n, c) ==
    /\ c = Fields(c)
    /\ c.phase \in {"none", "direct", "indirect", "fin"}
    /\ c.phase = "none" <=> c = Idle
    /\ c.phase # "none" => c.src \in Asking
    /\ c.lats \in Partial(n)
    /\ c.phase \in {"indirect", "fin"} => DOMAIN c.lats = Targets
    /\ c.ring \subseteq Nodes \ {n} /\ DOMAIN c.heard \subseteq c.ring
    /\ c.phase \in {"none", "direct"} => c.heard = <<>>
    /\ \A m \in DOMAIN c.heard : c.heard[m] \in Possible(m, Targets)
    /\ c.phase = "fin" => c.sel \in DOMAIN c.heard

\* A packet that may be under way: only one that answers, or reports, bears latencies.
GoodPacket(p) ==
    /\ p = Packet(p.type, p.from, p.to, p.id, p.who, p.lats)
    /\ p.type \in {"REQ", "RET_INFO"} \cup Finals \cup Asked
    /\ p.from \in Asking /\ p.to \in Asking /\ p.who \in Nodes \cup {Nobody}
    /\ p.from = Client => p.type = "REQ"
    /\ p.type \in Asked => p.from \in Nodes /\ p.to \in Nodes /\ p.from # p.to
    /\ p.type \notin Asked => p.id = 0
    /\ p.type \notin {"RET_RESPONSE", "RET_PING"} => p.lats = <<>>
    /\ p.type = "RET_RESPONSE" => p.lats \in Possible(Named(p), Targets)
    /\ p.type = "RET_PING" => p.lats \in Partial(p.from)

\* A HandleReq that may be running: its list is not complete yet.
GoodServe(s) ==
    /\ s = [at |-> s.at, from |-> s.from, id |-> s.id, lats |-> s.lats]
    /\ s.at \in Nodes /\ s.from \in Nodes /\ s.at # s.from
    /\ s.lats \in Partial(s.at) /\ DOMAIN s.lats # Targets

QueriesGood == DOMAIN q = Nodes /\ \A n \in Nodes : GoodQuery(n, q[n])
PacketsGood ==
    /\ \A p \in net : GoodPacket(p) /\ p.to \in Nodes
    /\ told \in Seq({told[i] : i \in DOMAIN told})
    /\ \A i \in DOMAIN told : GoodPacket(told[i])
ServesGood == (\A s \in serves : GoodServe(s)) /\ ServedOnce
ProbesGood == \A pr \in probes : pr.at \in Nodes /\ pr.target \in Targets
AsksGood == \A a \in asks : a.of \in Nodes /\ a.member \in Nodes /\ a.of # a.member
RingsGood == ring \in [Nodes -> SUBSET Nodes] /\ \A n \in Nodes : ring[n] \subseteq Knows[n]

\* The inductive invariant.
IInv == QueriesGood /\ PacketsGood /\ ServesGood /\ ProbesGood /\ AsksGood /\ RingsGood

----------------------------------------------------------------------------
(* Lists of latencies *)

\* A list that is complete so far, and one that is complete.
LEMMA PartialFacts ==
    ASSUME NEW n \in Nodes, NEW l \in Partial(n)
    PROVE  /\ DOMAIN l \subseteq Targets /\ l = [t \in DOMAIN l |-> l[t]]
           /\ \A t \in DOMAIN l : l[t] \in Measures[n][t]
           /\ DOMAIN l = Targets => l \in Possible(n, Targets)
<1>1. PICK ts \in SUBSET Targets : l \in Possible(n, ts)
    BY DEF Partial
<1>2. l \in [ts -> UNION {Measures[n][t] : t \in ts}] /\ \A t \in ts : l[t] \in Measures[n][t]
    BY <1>1 DEF Possible
<1>3. DOMAIN l = ts
    BY <1>2
<1> QED BY <1>1, <1>2, <1>3

\* A list of the latencies to some targets is one.
LEMMA PartialIntro ==
    ASSUME NEW n \in Nodes, NEW ts \in SUBSET Targets, NEW l, l = [t \in ts |-> l[t]],
           \A t \in ts : l[t] \in Measures[n][t]
    PROVE  l \in Partial(n) /\ DOMAIN l = ts
<1>1. \A t \in ts : l[t] \in UNION {Measures[n][u] : u \in ts}
    OBVIOUS
<1>2. l \in [ts -> UNION {Measures[n][t] : t \in ts}]
    BY <1>1
<1> QED BY <1>2 DEF Partial, Possible

\* A complete list is one.
LEMMA CompleteIsPartial ==
    ASSUME NEW n \in Nodes, NEW l \in Possible(n, Targets)
    PROVE  l \in Partial(n) /\ DOMAIN l = Targets
<1>1. DOMAIN l = Targets
    BY DEF Possible
<1> QED BY <1>1 DEF Partial

\* One more measurement.
LEMMA WithPartial ==
    ASSUME NEW n \in Nodes, NEW l \in Partial(n), NEW t \in Targets, NEW us \in Measures[n][t]
    PROVE  With(l, t, us) \in Partial(n) /\ DOMAIN With(l, t, us) = DOMAIN l \cup {t}
<1> DEFINE w == With(l, t, us)
<1>1. w = [x \in DOMAIN l \cup {t} |-> IF x = t THEN us ELSE l[x]]
    BY DEF With
<1>2. DOMAIN l \cup {t} \in SUBSET Targets /\ \A x \in DOMAIN l : l[x] \in Measures[n][x]
    BY PartialFacts
<1>3. w = [x \in DOMAIN l \cup {t} |-> w[x]] /\ \A x \in DOMAIN l \cup {t} : w[x] \in Measures[n][x]
    BY <1>1, <1>2
<1> HIDE DEF w
<1>4. w \in Partial(n) /\ DOMAIN w = DOMAIN l \cup {t}
    BY <1>2, <1>3, PartialIntro
<1> QED BY <1>4 DEF w

\* Nothing measured yet, and what the cache knows.
LEMMA FirstPartial ==
    ASSUME NEW n \in Nodes
    PROVE  <<>> \in Partial(n) /\ DOMAIN <<>> = {} /\ CachedLatencies(n) \subseteq Partial(n)
<1>1. <<>> = [t \in {} |-> <<>>[t]] /\ DOMAIN <<>> = {}
    OBVIOUS
<1>2. <<>> \in Partial(n)
    BY <1>1, PartialIntro
<1>3. CachedLatencies(n) \subseteq Partial(n)
    BY MCAssumption DEF CachedLatencies, Partial
<1> QED BY <1>1, <1>2, <1>3

----------------------------------------------------------------------------
(* Queries and packets *)

\* The query that is not there.
LEMMA IdleGood ==
    /\ \A n \in Nodes : GoodQuery(n, Idle)
    /\ Idle.phase = "none" /\ Nobody \notin Asking /\ Client \notin Nodes
<1>1. Nobody \notin Asking /\ Client \notin Nodes
    BY MCAssumption DEF Asking
<1>2. Idle.phase = "none" /\ Idle.lats = <<>> /\ Idle.ring = {} /\ Idle.heard = <<>>
    BY DEF Idle
<1>3. Idle = Fields(Idle)
    BY DEF Idle, Fields
<1>4. ASSUME NEW n \in Nodes PROVE GoodQuery(n, Idle)
    <2>1. <<>> \in Partial(n) /\ DOMAIN <<>> = {}
        BY FirstPartial
    <2> QED BY <1>2, <1>3, <2>1 DEF GoodQuery
<1> QED BY <1>1, <1>2, <1>4

\* The packets that nodes make.
LEMMA NewPackets ==
    ASSUME NEW n \in Nodes, NEW to \in Asking
    PROVE  /\ \A l \in Possible(n, Targets) : GoodPacket(Itself(n, to, l))
           /\ \A m \in Nodes : \A l \in Possible(m, Targets) :
                 GoodPacket(Packet("RET_RESPONSE", n, to, 0, m, l))
           /\ \A type \in {"REQ", "RET_INFO", "RET_ERROR"} : GoodPacket(Plain(type, n, to, 0))
           /\ \A m \in Nodes \ {n} : \A id : GoodPacket(Question(n, m, id))
<1>1. n \in Asking /\ n # Client /\ Nobody \notin Nodes
    BY MCAssumption DEF Asking
<1>2. \A l \in Possible(n, Targets) : GoodPacket(Itself(n, to, l))
    BY <1>1 DEF GoodPacket, Itself, Packet, Finals, Asked, Named
<1>3. ASSUME NEW m \in Nodes, NEW l \in Possible(m, Targets)
      PROVE  GoodPacket(Packet("RET_RESPONSE", n, to, 0, m, l))
    BY <1>1 DEF GoodPacket, Packet, Finals, Asked, Named
<1>4. ASSUME NEW type \in {"REQ", "RET_INFO", "RET_ERROR"} PROVE GoodPacket(Plain(type, n, to, 0))
    BY <1>1 DEF GoodPacket, Plain, Packet, Finals, Asked, Named
<1>5. ASSUME NEW m \in Nodes \ {n}, NEW id PROVE GoodPacket(Question(n, m, id))
    BY <1>1 DEF GoodPacket, Question, Plain, Packet, Finals, Asked, Named, Asking
<1> QED BY <1>2, <1>3, <1>4, <1>5

\* The request that begins the search, and the report of a HandleReq.
LEMMA OtherPackets ==
    /\ \A to \in Nodes : GoodPacket(Plain("REQ", Client, to, 0))
    /\ \A s : s.at \in Nodes /\ s.from \in Nodes /\ s.at # s.from /\ s.lats \in Partial(s.at)
              => GoodPacket(ReturnPacket(s))
<1>1. \A to \in Nodes : GoodPacket(Plain("REQ", Client, to, 0))
    BY MCAssumption DEF GoodPacket, Plain, Packet, Finals, Asked, Named, Asking
<1>2. ASSUME NEW s, s.at \in Nodes, s.from \in Nodes, s.at # s.from, s.lats \in Partial(s.at)
      PROVE  GoodPacket(ReturnPacket(s))
    BY <1>2, MCAssumption DEF GoodPacket, ReturnPacket, Packet, Finals, Asked, Named, Asking
<1> QED BY <1>1, <1>2

\* Good packets leave good packets.
LEMMA SendGood ==
    ASSUME PacketsGood, NEW taken, NEW out, Send(taken, out), \A p \in out : GoodPacket(p)
    PROVE  PacketsGood'
<1> DEFINE ends == {p \in out : p.to = Client /\ p.type \in Finals}
           last == CHOOSE p \in ends : TRUE
<1>1. net' = (net \ taken) \cup {p \in out : p.to # Client}
    BY DEF Send
<1>2. \A p \in net' : GoodPacket(p) /\ p.to \in Nodes
    BY <1>1 DEF PacketsGood, GoodPacket, Asking
<1>3. told' = IF ends = {} THEN told ELSE Append(told, last)
    BY DEF Send
<1>4. ends # {} => last \in ends
    OBVIOUS
<1>5. \A p \in ends : GoodPacket(p)
    OBVIOUS
<1> HIDE DEF ends, last
<1>6. CASE ends = {}
    BY <1>2, <1>3, <1>6 DEF PacketsGood
<1>7. CASE ends # {}
    <2>1. told' = Append(told, last) /\ GoodPacket(last)
        BY <1>3, <1>4, <1>5, <1>7
    <2> DEFINE all == {told[i] : i \in DOMAIN told}
    <2>2. told \in Seq(all) /\ \A i \in DOMAIN told : GoodPacket(told[i])
        BY DEF PacketsGood
    <2>3. told \in Seq(all \cup {last}) /\ DOMAIN told = 1 .. Len(told) /\ Len(told) \in Nat
        BY <2>2
    <2> HIDE DEF all
    <2>4. /\ DOMAIN told' = 1 .. Len(told) + 1 /\ Len(told') = Len(told) + 1
          /\ told'[Len(told) + 1] = last /\ \A i \in 1 .. Len(told) : told'[i] = told[i]
          /\ \E T : told' \in Seq(T)
        BY <2>1, <2>3
    <2>5. told' \in Seq({told'[i] : i \in DOMAIN told'})
        BY <2>4
    <2>6. \A i \in DOMAIN told' : GoodPacket(told'[i])
        <3> SUFFICES ASSUME NEW i \in DOMAIN told' PROVE GoodPacket(told'[i])
            OBVIOUS
        <3>1. i \in 1 .. Len(told) \/ i = Len(told) + 1
            BY <2>3, <2>4
        <3> QED BY <2>1, <2>2, <2>3, <2>4, <3>1
    <2> QED BY <1>2, <2>5, <2>6 DEF PacketsGood
<1> QED BY <1>6, <1>7

\* One node's query becomes another one it may have.
LEMMA BecomeGood ==
    ASSUME QueriesGood, NEW n \in Nodes, NEW c, GoodQuery(n, c), q' = [q EXCEPT ![n] = c]
    PROVE  QueriesGood'
BY DEF QueriesGood

----------------------------------------------------------------------------
(* The handlers *)

\* A query whose phase, and whose members or selected one, change together.
LEMMA Updates ==
    ASSUME NEW c, c = Fields(c), NEW x, NEW y
    PROVE  /\ [c EXCEPT !.phase = x, !.ring = y] =
                 [phase |-> x, src |-> c.src, lats |-> c.lats, ring |-> y,
                  heard |-> c.heard, sel |-> c.sel]
           /\ [c EXCEPT !.phase = x, !.sel = y] =
                 [phase |-> x, src |-> c.src, lats |-> c.lats, ring |-> c.ring,
                  heard |-> c.heard, sel |-> y]
<1> DEFINE v == [c EXCEPT !.phase = x, !.ring = y]
           w == [c EXCEPT !.phase = x, !.sel = y]
<1>1. DOMAIN c = {"phase", "src", "lats", "ring", "heard", "sel"}
    BY DEF Fields
<1>2. v.phase = x /\ v.src = c.src /\ v.lats = c.lats /\ v.ring = y /\ v.heard = c.heard
      /\ v.sel = c.sel
    BY <1>1
<1>3. w.phase = x /\ w.src = c.src /\ w.lats = c.lats /\ w.ring = c.ring
      /\ w.heard = c.heard /\ w.sel = y
    BY <1>1
<1>4. /\ DOMAIN v = DOMAIN c /\ v = [i \in DOMAIN v |-> v[i]]
      /\ DOMAIN w = DOMAIN c /\ w = [i \in DOMAIN w |-> w[i]]
    OBVIOUS
<1> HIDE DEF v, w
<1>5. v = [phase |-> x, src |-> c.src, lats |-> c.lats, ring |-> y, heard |-> c.heard,
           sel |-> c.sel]
    BY <1>1, <1>2, <1>4
<1>6. w = [phase |-> x, src |-> c.src, lats |-> c.lats, ring |-> c.ring, heard |-> c.heard,
           sel |-> y]
    BY <1>1, <1>3, <1>4
<1> QED BY <1>5, <1>6 DEF v, w

\* A query with new latencies, members or reports.
LEMMA DirectGood ==
    ASSUME NEW n \in Nodes, NEW c, GoodQuery(n, c), c.phase = "direct"
    PROVE  /\ \A l \in Partial(n) : GoodQuery(n, [c EXCEPT !.lats = l])
           /\ \A members \in SUBSET (Nodes \ {n}) : DOMAIN c.lats = Targets =>
                 GoodQuery(n, [c EXCEPT !.phase = "indirect", !.ring = members])
<1>1. ASSUME NEW l \in Partial(n) PROVE GoodQuery(n, [c EXCEPT !.lats = l])
    <2> DEFINE d == [c EXCEPT !.lats = l]
    <2>1. d = [phase |-> "direct", src |-> c.src, lats |-> l, ring |-> c.ring,
               heard |-> c.heard, sel |-> c.sel]
        BY DEF GoodQuery, Fields
    <2>2. d # Idle
        BY <2>1, IdleGood
    <2> QED BY <2>1, <2>2 DEF GoodQuery, Fields
<1>2. ASSUME NEW members \in SUBSET (Nodes \ {n}), DOMAIN c.lats = Targets
      PROVE  GoodQuery(n, [c EXCEPT !.phase = "indirect", !.ring = members])
    <2> DEFINE d == [c EXCEPT !.phase = "indirect", !.ring = members]
    <2>1. d = [phase |-> "indirect", src |-> c.src, lats |-> c.lats, ring |-> members,
               heard |-> c.heard, sel |-> c.sel]
        BY Updates DEF GoodQuery
    <2>2. d # Idle /\ DOMAIN c.heard = {}
        BY <2>1, IdleGood, FirstPartial DEF GoodQuery
    <2> QED BY <1>2, <2>1, <2>2 DEF GoodQuery, Fields
<1> QED BY <1>1, <1>2

\* The same for a query that has asked its ring members.
LEMMA IndirectGood ==
    ASSUME NEW n \in Nodes, NEW c, GoodQuery(n, c), c.phase = "indirect"
    PROVE  /\ \A m \in c.ring : \A l \in Possible(m, Targets) :
                 GoodQuery(n, [c EXCEPT !.heard = With(@, m, l)])
           /\ \A m \in DOMAIN c.heard : GoodQuery(n, [c EXCEPT !.phase = "fin", !.sel = m])
<1>1. ASSUME NEW m \in c.ring, NEW l \in Possible(m, Targets)
      PROVE  GoodQuery(n, [c EXCEPT !.heard = With(@, m, l)])
    <2> DEFINE d == [c EXCEPT !.heard = With(@, m, l)]
    <2>1. d = [phase |-> "indirect", src |-> c.src, lats |-> c.lats, ring |-> c.ring,
               heard |-> With(c.heard, m, l), sel |-> c.sel]
        BY <1>1 DEF GoodQuery, Fields
    <2>2. d # Idle
        BY <2>1, IdleGood
    <2>3. /\ DOMAIN With(c.heard, m, l) = DOMAIN c.heard \cup {m}
          /\ \A k \in DOMAIN c.heard \cup {m} : With(c.heard, m, l)[k] \in Possible(k, Targets)
        BY <1>1 DEF With, GoodQuery
    <2> QED BY <1>1, <2>1, <2>2, <2>3 DEF GoodQuery, Fields
<1>2. ASSUME NEW m \in DOMAIN c.heard
      PROVE  GoodQuery(n, [c EXCEPT !.phase = "fin", !.sel = m])
    <2> DEFINE d == [c EXCEPT !.phase = "fin", !.sel = m]
    <2>1. d = [phase |-> "fin", src |-> c.src, lats |-> c.lats, ring |-> c.ring,
               heard |-> c.heard, sel |-> m]
        BY Updates DEF GoodQuery
    <2>2. d # Idle
        BY <2>1, IdleGood
    <2> QED BY <1>2, <2>1, <2>2 DEF GoodQuery, Fields
<1> QED BY <1>1, <1>2

\* Whatever handleForward decides on is there, with all of its latencies.
LEMMA HandleForwardGood ==
    ASSUME QueriesGood, PacketsGood, NEW n \in Nodes, NEW c, NEW taken, GoodQuery(n, c),
           c.phase = "indirect", HandleForward(n, c, taken)
    PROVE  QueriesGood' /\ PacketsGood'
<1>1. c.src \in Asking /\ c.lats \in Possible(n, Targets)
    BY PartialFacts DEF GoodQuery
<1>2. GoodPacket(Itself(n, c.src, c.lats))
    BY <1>1, NewPackets
<1>3. CASE Finish(n, taken, {Itself(n, c.src, c.lats)})
    BY <1>2, <1>3, SendGood, BecomeGood, IdleGood DEF Finish
<1>4. ASSUME NEW m \in Closest(c.heard),
             LET lowest == Solutions[c.heard[m]]
                 mine == Solutions[c.lats] IN
             IF lowest = 0 \/ lowest > Threshold(mine)
             THEN Finish(n, taken,
                    {IF lowest < mine THEN Packet("RET_RESPONSE", n, c.src, 0, m, c.heard[m])
                     ELSE Itself(n, c.src, c.lats)})
             ELSE Become(n, [c EXCEPT !.phase = "fin", !.sel = m], taken,
                         {Plain("REQ", n, m, 0)})
      PROVE  QueriesGood' /\ PacketsGood'
    <2>1. m \in DOMAIN c.heard /\ m \in Nodes /\ m \in Asking /\ c.heard[m] \in Possible(m, Targets)
        BY <1>4 DEF Closest, GoodQuery, Asking
    <2>2. GoodPacket(Packet("RET_RESPONSE", n, c.src, 0, m, c.heard[m]))
        BY <1>1, <2>1, NewPackets
    <2>3. GoodPacket(Plain("REQ", n, m, 0)) /\ GoodQuery(n, [c EXCEPT !.phase = "fin", !.sel = m])
        BY <2>1, NewPackets, IndirectGood
    <2>4. \/ Finish(n, taken, {Itself(n, c.src, c.lats)})
          \/ Finish(n, taken, {Packet("RET_RESPONSE", n, c.src, 0, m, c.heard[m])})
          \/ Become(n, [c EXCEPT !.phase = "fin", !.sel = m], taken, {Plain("REQ", n, m, 0)})
        BY <1>4
    <2>5. CASE Finish(n, taken, {Packet("RET_RESPONSE", n, c.src, 0, m, c.heard[m])})
        BY <2>2, <2>5, SendGood, BecomeGood, IdleGood DEF Finish
    <2>6. CASE Become(n, [c EXCEPT !.phase = "fin", !.sel = m], taken, {Plain("REQ", n, m, 0)})
        BY <2>3, <2>6, SendGood, BecomeGood DEF Become
    <2> QED BY <1>3, <2>4, <2>5, <2>6
<1> QED BY <1>3, <1>4 DEF HandleForward

\* Members that are asked are in the rings.
LEMMA SendReqProbesGood ==
    ASSUME QueriesGood, PacketsGood, AsksGood, RingsGood, NEW n \in Nodes, NEW c, NEW taken,
           NEW out, GoodQuery(n, c), c.phase = "direct", DOMAIN c.lats = Targets,
           \A p \in out : GoodPacket(p), SendReqProbes(n, c, taken, out)
    PROVE  QueriesGood' /\ PacketsGood' /\ AsksGood'
<1>1. PICK members \in SUBSET ring[n] :
       IF Solutions[c.lats] = 0 \/ members = {}
       THEN Finish(n, taken, out \cup {Itself(n, c.src, c.lats)}) /\ UNCHANGED asks
       ELSE /\ asks' = asks \cup {Ask(n, m, NewId(n, m)) : m \in members}
            /\ Become(n, [c EXCEPT !.phase = "indirect", !.ring = members], taken,
                      out \cup {Question(n, m, NewId(n, m)) : m \in members})
    BY DEF SendReqProbes
<1>2. members \subseteq Nodes \ {n}
    BY MCAssumption DEF RingsGood
<1>3. CASE Finish(n, taken, out \cup {Itself(n, c.src, c.lats)}) /\ UNCHANGED asks
    <2>1. c.src \in Asking /\ c.lats \in Possible(n, Targets)
        BY PartialFacts DEF GoodQuery
    <2>2. \A p \in out \cup {Itself(n, c.src, c.lats)} : GoodPacket(p)
        BY <2>1, NewPackets
    <2>3. PacketsGood' /\ QueriesGood'
        BY <1>3, <2>2, SendGood, BecomeGood, IdleGood DEF Finish
    <2> QED BY <1>3, <2>3 DEF AsksGood
<1>4. ASSUME asks' = asks \cup {Ask(n, m, NewId(n, m)) : m \in members},
             Become(n, [c EXCEPT !.phase = "indirect", !.ring = members], taken,
                    out \cup {Question(n, m, NewId(n, m)) : m \in members})
      PROVE  QueriesGood' /\ PacketsGood' /\ AsksGood'
    <2>1. GoodQuery(n, [c EXCEPT !.phase = "indirect", !.ring = members])
        BY <1>2, DirectGood
    <2>2. n \in Asking /\ \A m \in members : GoodPacket(Question(n, m, NewId(n, m)))
        BY <1>2, NewPackets DEF Asking
    <2>3. \A p \in out \cup {Question(n, m, NewId(n, m)) : m \in members} : GoodPacket(p)
        BY <2>2
    <2>4. PacketsGood' /\ QueriesGood'
        BY <1>4, <2>1, <2>3, SendGood, BecomeGood DEF Become
    <2>5. AsksGood'
        BY <1>2, <1>4 DEF AsksGood, Ask
    <2> QED BY <2>4, <2>5
<1> QED BY <1>1, <1>3, <1>4

\* The query of a request that arrives.
LEMMA NewQueryIsGood ==
    ASSUME NEW n \in Nodes, NEW from \in Asking, NEW lats \in Partial(n)
    PROVE  GoodQuery(n, [Idle EXCEPT !.phase = "direct", !.src = from, !.lats = lats])
<1> DEFINE c == [Idle EXCEPT !.phase = "direct", !.src = from, !.lats = lats]
<1>1. c.phase = "direct" /\ c.src = from /\ c.lats = lats /\ c.ring = {} /\ c.heard = <<>>
      /\ c.sel = Nobody
    BY DEF Idle
<1>2. DOMAIN c = {"phase", "src", "lats", "ring", "heard", "sel"} /\ c = [i \in DOMAIN c |-> c[i]]
    BY DEF Idle
<1> HIDE DEF c
<1>3. c = Fields(c)
    BY <1>2 DEF Fields
<1>4. c # Idle /\ DOMAIN <<>> = {}
    BY <1>1, IdleGood, FirstPartial
<1>5. GoodQuery(n, c)
    BY <1>1, <1>3, <1>4 DEF GoodQuery
<1> QED BY <1>5 DEF c

\* A query that begins.
LEMMA NewQueryGood ==
    ASSUME QueriesGood, PacketsGood, AsksGood, RingsGood, ProbesGood, NEW n \in Nodes, NEW p,
           NEW taken, p.from \in Asking, NewQuery(n, p, taken)
    PROVE  QueriesGood' /\ PacketsGood' /\ AsksGood' /\ ProbesGood'
<1> DEFINE c(lats) == [Idle EXCEPT !.phase = "direct", !.src = p.from, !.lats = lats]
           info == {Plain("RET_INFO", n, p.from, 0)}
<1>1. PICK lats \in CachedLatencies(n) :
        /\ probes' = probes \cup NewProbes(n, DOMAIN lats, Search0)
        /\ IF DOMAIN lats = Targets THEN SendReqProbes(n, c(lats), taken, info)
           ELSE UNCHANGED asks /\ Become(n, c(lats), taken, info)
    BY DEF NewQuery
<1>2. lats \in Partial(n)
    BY FirstPartial
<1>3. c(lats).phase = "direct" /\ c(lats).lats = lats /\ GoodQuery(n, c(lats))
    <2>1. c(lats).phase = "direct" /\ c(lats).lats = lats
        BY DEF Idle
    <2>2. GoodQuery(n, c(lats))
        BY <1>2, NewQueryIsGood
    <2> QED BY <2>1, <2>2
<1>4. \A o \in info : GoodPacket(o)
    BY NewPackets
<1>5. ProbesGood'
    BY <1>1 DEF ProbesGood, NewProbes, Probe
<1> HIDE DEF c, info
<1>6. CASE DOMAIN lats = Targets
    BY <1>1, <1>3, <1>4, <1>5, <1>6, SendReqProbesGood
<1>7. CASE DOMAIN lats # Targets
    <2>1. UNCHANGED asks /\ Become(n, c(lats), taken, info)
        BY <1>1, <1>7
    <2>2. QueriesGood' /\ PacketsGood'
        BY <1>3, <1>4, <2>1, SendGood, BecomeGood DEF Become
    <2> QED BY <1>5, <2>1, <2>2 DEF AsksGood
<1> QED BY <1>6, <1>7

\* An answer that is passed on still names its node; a list goes with it unchanged.
LEMMA HandleEventGood ==
    ASSUME QueriesGood, PacketsGood, NEW n \in Nodes, NEW p, NEW taken, GoodPacket(p),
           p.type \notin Asked, HandleEvent(n, p, taken)
    PROVE  QueriesGood' /\ PacketsGood'
<1> DEFINE c == q[n]
           back == Packet(p.type, n, c.src, 0,
                          IF p.type = "RET_ERROR" THEN Nobody ELSE Named(p), p.lats)
<1>1. GoodQuery(n, c)
    BY DEF QueriesGood
<1>2. ASSUME UNCHANGED q PROVE QueriesGood'
    BY <1>2 DEF QueriesGood
<1>3. CASE c.phase = "fin" /\ p.type = "REQ"
    <2>1. UNCHANGED q /\ Send(taken, {Itself(n, p.from, c.lats)})
        BY <1>3 DEF HandleEvent
    <2>2. c.lats \in Possible(n, Targets) /\ p.from \in Asking
        BY <1>1, <1>3, PartialFacts DEF GoodQuery, GoodPacket
    <2>3. GoodPacket(Itself(n, p.from, c.lats))
        BY <2>2, NewPackets
    <2> QED BY <1>2, <2>1, <2>3, SendGood
<1>4. CASE c.phase = "fin" /\ p.type # "REQ" /\ p.from = c.sel
    <2>1. IF p.type \in Finals THEN Finish(n, taken, {back})
          ELSE UNCHANGED q /\ Send(taken, {back})
        BY <1>4 DEF HandleEvent
    <2>2. c.src \in Asking /\ p.from \in Nodes /\ p.type \in {"RET_INFO"} \cup Finals
        BY <1>1, <1>4 DEF GoodQuery, GoodPacket, Asking
    <2>3. CASE p.type = "RET_RESPONSE"
        <3>1. Named(p) \in Nodes /\ p.lats \in Possible(Named(p), Targets)
            BY <2>2, <2>3 DEF GoodPacket, Named
        <3>2. GoodPacket(back)
            BY <2>2, <2>3, <3>1, NewPackets
        <3> HIDE DEF back
        <3> QED BY <1>2, <2>1, <3>2, SendGood, BecomeGood, IdleGood DEF Finish
    <2>4. CASE p.type # "RET_RESPONSE"
        <3>1. p.lats = <<>> /\ Named(p) \in Nodes \cup {Nobody}
            BY <1>4, <2>2, <2>4 DEF GoodPacket, Named, Finals, Asked
        <3>2. GoodPacket(back)
            <4>1. n \in Asking /\ n # Client
                BY MCAssumption DEF Asking
            <4> QED BY <2>2, <2>4, <3>1, <4>1 DEF GoodPacket, Packet, Finals, Asked
        <3> HIDE DEF back
        <3> QED BY <1>2, <2>1, <3>2, SendGood, BecomeGood, IdleGood DEF Finish
    <2> QED BY <2>3, <2>4
<1>5. CASE ~(c.phase = "fin" /\ (p.type = "REQ" \/ p.from = c.sel))
    <2>1. UNCHANGED q /\ Send(taken, {})
        BY <1>5 DEF HandleEvent
    <2> QED BY <1>2, <2>1, SendGood
<1> QED BY <1>3, <1>4, <1>5

\* A probe adds what it measured, to a search that waits for it.
LEMMA DirectResultGood ==
    ASSUME QueriesGood, PacketsGood, AsksGood, RingsGood, NEW n \in Nodes, NEW t \in Targets,
           NEW us \in Measures[n][t], NEW taken, DirectResult(n, t, us, taken)
    PROVE  QueriesGood' /\ PacketsGood' /\ AsksGood'
<1> DEFINE l == With(q[n].lats, t, us)
           c == [q[n] EXCEPT !.lats = l]
<1>1. GoodQuery(n, q[n])
    BY DEF QueriesGood
<1>2. CASE q[n].phase # "direct" \/ t \in DOMAIN q[n].lats
    <2>1. UNCHANGED <<q, asks>> /\ Send(taken, {})
        BY <1>2 DEF DirectResult
    <2>2. PacketsGood'
        BY <2>1, SendGood
    <2> QED BY <2>1, <2>2 DEF QueriesGood, AsksGood
<1>3. CASE q[n].phase = "direct" /\ t \notin DOMAIN q[n].lats
    <2>1. IF DOMAIN c.lats = Targets THEN SendReqProbes(n, c, taken, {})
          ELSE UNCHANGED asks /\ Become(n, c, taken, {})
        BY <1>3 DEF DirectResult
    <2>2. l \in Partial(n)
        BY <1>1, WithPartial DEF GoodQuery
    <2>3. GoodQuery(n, c) /\ c.phase = "direct"
        <3> HIDE DEF l
        <3>1. GoodQuery(n, c)
            BY <1>1, <1>3, <2>2, DirectGood
        <3>2. c.phase = q[n].phase
            BY <1>1 DEF GoodQuery, Fields
        <3> QED BY <1>3, <3>1, <3>2
    <2> HIDE DEF c
    <2>4. CASE DOMAIN c.lats = Targets
        BY <2>1, <2>3, <2>4, SendReqProbesGood
    <2>5. CASE DOMAIN c.lats # Targets
        <3>1. UNCHANGED asks /\ Become(n, c, taken, {})
            BY <2>1, <2>5
        <3>2. QueriesGood'
            BY <2>3, <3>1, BecomeGood DEF Become
        <3>3. PacketsGood'
            BY <3>1, SendGood DEF Become
        <3> QED BY <3>1, <3>2, <3>3 DEF AsksGood
    <2> QED BY <2>4, <2>5
<1> QED BY <1>2, <1>3

\* The report of a member.
LEMMA IndirectResultGood ==
    ASSUME QueriesGood, PacketsGood, NEW n \in Nodes, NEW m \in Nodes,
           NEW lats \in Possible(m, Targets), NEW taken, IndirectResult(n, m, lats, taken)
    PROVE  QueriesGood' /\ PacketsGood'
<1> DEFINE c == [q[n] EXCEPT !.heard = With(@, m, lats)]
<1>1. GoodQuery(n, q[n])
    BY DEF QueriesGood
<1>2. CASE q[n].phase # "indirect" \/ m \notin q[n].ring \/ m \in DOMAIN q[n].heard
    <2>1. UNCHANGED q /\ Send(taken, {})
        BY <1>2 DEF IndirectResult
    <2>2. PacketsGood'
        BY <2>1, SendGood
    <2> QED BY <2>1, <2>2 DEF QueriesGood
<1>3. CASE q[n].phase = "indirect" /\ m \in q[n].ring /\ m \notin DOMAIN q[n].heard
    <2>1. IF DOMAIN c.heard = c.ring THEN HandleForward(n, c, taken) ELSE Become(n, c, taken, {})
        BY <1>3 DEF IndirectResult
    <2>2. GoodQuery(n, c)
        BY <1>1, <1>3, IndirectGood
    <2>3. c.phase = "indirect"
        BY <1>1, <1>3 DEF GoodQuery, Fields
    <2> HIDE DEF c
    <2> QED BY <2>1, <2>2, <2>3, HandleForwardGood, SendGood, BecomeGood DEF Become
<1> QED BY <1>2, <1>3

\* A request to measure that is not being served: it is from now on, or is answered.
LEMMA ServeNewGood ==
    ASSUME PacketsGood, ServesGood, ProbesGood, NEW p, NEW taken, GoodPacket(p),
           p.type = "REQ_MEASURE", ServeNew(p, taken),
           ~ \E s \in serves : s.at = p.to /\ s.from = p.from /\ s.id = p.id
    PROVE  PacketsGood' /\ ServesGood' /\ ProbesGood'
<1>1. p.to \in Nodes /\ p.from \in Nodes /\ p.to # p.from
    BY DEF GoodPacket, Asked
<1>2. PICK lats \in CachedLatencies(p.to) :
        /\ probes' = probes \cup NewProbes(p.to, DOMAIN lats, [from |-> p.from, id |-> p.id])
        /\ IF DOMAIN lats = Targets
           THEN UNCHANGED serves /\ Send(taken, {ReturnPacket(Serve(p, lats))})
           ELSE serves' = serves \cup {Serve(p, lats)} /\ Send(taken, {})
    BY DEF ServeNew
<1> DEFINE s == Serve(p, lats)
<1>3. s = [at |-> p.to, from |-> p.from, id |-> p.id, lats |-> lats] /\ lats \in Partial(p.to)
    BY <1>1, FirstPartial DEF Serve
<1>4. s.at = p.to /\ s.from = p.from /\ s.id = p.id /\ s.lats = lats
    BY <1>3
<1> HIDE DEF s
<1>5. ProbesGood'
    BY <1>1, <1>2 DEF ProbesGood, NewProbes, Probe
<1>6. CASE DOMAIN lats = Targets
    <2>1. UNCHANGED serves /\ Send(taken, {ReturnPacket(s)})
        BY <1>2, <1>6 DEF s
    <2>2. GoodPacket(ReturnPacket(s))
        BY <1>1, <1>3, <1>4, OtherPackets
    <2>3. PacketsGood'
        BY <2>1, <2>2, SendGood
    <2> QED BY <1>5, <2>1, <2>3 DEF ServesGood, ServedOnce
<1>7. CASE DOMAIN lats # Targets
    <2>1. serves' = serves \cup {s} /\ Send(taken, {})
        BY <1>2, <1>7 DEF s
    <2>2. GoodServe(s)
        BY <1>1, <1>3, <1>4, <1>7 DEF GoodServe
    <2>3. PacketsGood'
        BY <2>1, SendGood
    <2> QED BY <1>4, <1>5, <2>1, <2>2, <2>3 DEF ServesGood, ServedOnce
<1> QED BY <1>6, <1>7

\* A probe adds what it measured to a list that is returned when it is complete.
LEMMA ServeResultGood ==
    ASSUME PacketsGood, ServesGood, NEW pr, pr.at \in Nodes, pr.target \in Targets,
           NEW us \in Measures[pr.at][pr.target], ServeResult(pr, us)
    PROVE  PacketsGood' /\ ServesGood'
<1> DEFINE mine == {s \in serves : /\ s.at = pr.at /\ s.from = pr.tells.from
                                   /\ s.id = pr.tells.id /\ pr.target \notin DOMAIN s.lats}
           new(s) == [s EXCEPT !.lats = With(@, pr.target, us)]
           next == {new(s) : s \in mine}
           done == {s \in next : DOMAIN s.lats = Targets}
<1>1. serves' = (serves \ mine) \cup (next \ done) /\ Send({}, {ReturnPacket(s) : s \in done})
    BY DEF ServeResult
<1>2. ASSUME NEW s \in mine
      PROVE  LET u == new(s) IN
             /\ u = [at |-> s.at, from |-> s.from, id |-> s.id, lats |-> u.lats]
             /\ u.lats \in Partial(s.at) /\ s.at \in Nodes /\ s.from \in Nodes /\ s.at # s.from
    <2>1. GoodServe(s) /\ s.at = pr.at
        BY DEF ServesGood
    <2> DEFINE l == With(s.lats, pr.target, us)
    <2>2. l \in Partial(s.at)
        BY <2>1, WithPartial DEF GoodServe
    <2> HIDE DEF l
    <2>3. [s EXCEPT !.lats = l] = [at |-> s.at, from |-> s.from, id |-> s.id, lats |-> l]
        BY <2>1 DEF GoodServe
    <2> QED BY <2>1, <2>2, <2>3 DEF GoodServe, l
<1>3. ASSUME NEW u \in next
      PROVE  \E s \in mine :
               /\ u = [at |-> s.at, from |-> s.from, id |-> s.id, lats |-> u.lats]
               /\ u.lats \in Partial(s.at) /\ s.at \in Nodes /\ s.from \in Nodes /\ s.at # s.from
    BY <1>2
<1> HIDE DEF new, next
<1>4. ASSUME NEW u \in next
      PROVE  /\ u.at \in Nodes /\ u.from \in Nodes /\ u.at # u.from /\ u.lats \in Partial(u.at)
             /\ u = [at |-> u.at, from |-> u.from, id |-> u.id, lats |-> u.lats]
             /\ \E s \in mine : u.at = s.at /\ u.from = s.from /\ u.id = s.id
    BY <1>3
<1>5. PacketsGood'
    <2>1. \A u \in done : GoodPacket(ReturnPacket(u))
        BY <1>4, OtherPackets
    <2>2. \A o \in {ReturnPacket(u) : u \in done} : GoodPacket(o)
        BY <2>1
    <2> QED BY <1>1, <2>2, SendGood
<1>6. \A s \in serves' : GoodServe(s)
    <2>1. \A u \in next \ done : GoodServe(u)
        BY <1>4 DEF GoodServe
    <2> QED BY <1>1, <2>1 DEF ServesGood
<1>7. ServedOnce'
    <2>1. \A s, u \in mine : s = u
        BY DEF ServesGood, ServedOnce
    <2>2. \A s, u \in next : s = u
        BY <2>1 DEF next
    <2>3. ASSUME NEW s \in serves', NEW u \in serves', s.at = u.at, s.from = u.from, s.id = u.id
          PROVE  s = u
        <3>1. CASE s \in next /\ u \in next
            BY <2>2, <3>1
        <3>2. CASE s \notin next /\ u \notin next
            BY <1>1, <2>3, <3>2 DEF ServesGood, ServedOnce
        <3>3. CASE s \in next /\ u \notin next
            BY <1>1, <1>4, <2>3, <3>3 DEF ServesGood, ServedOnce
        <3>4. CASE s \notin next /\ u \in next
            BY <1>1, <1>4, <2>3, <3>4 DEF ServesGood, ServedOnce
        <3> QED BY <3>1, <3>2, <3>3, <3>4
    <2> QED BY <2>3 DEF ServedOnce
<1> QED BY <1>5, <1>6, <1>7 DEF ServesGood

----------------------------------------------------------------------------
(* The actions *)

\* The first request.
LEMMA InitGood == Init => IInv
<1> SUFFICES ASSUME Init PROVE IInv
    OBVIOUS
<1>1. QueriesGood
    <2>1. \A n \in Nodes : q[n] = Idle
        BY DEF Init
    <2> QED BY <2>1, IdleGood DEF Init, QueriesGood
<1>2. PacketsGood
    <2>1. PICK first \in Entries : net = {Plain("REQ", Client, first, 0)}
        BY DEF Init
    <2>2. first \in Nodes /\ Plain("REQ", Client, first, 0).to = first
        BY MCAssumption DEF Plain, Packet
    <2>3. told = <<>> /\ <<>> \in Seq({})
        BY DEF Init
    <2> QED BY <2>1, <2>2, <2>3, OtherPackets DEF PacketsGood
<1>3. ServesGood /\ ProbesGood /\ AsksGood
    BY DEF Init, ServesGood, ServedOnce, ProbesGood, AsksGood
<1>4. RingsGood
    BY MCAssumption DEF Init, RingsGood
<1> QED BY <1>1, <1>2, <1>3, <1>4 DEF IInv

\* A packet of the search arrives.
LEMMA ReceiveSearchGood ==
    ASSUME IInv, NEW p \in net, ReceiveSearch(p)
    PROVE  IInv'
<1>1. GoodPacket(p) /\ p.to \in Nodes /\ p.from \in Asking /\ p.type \notin Asked
    BY DEF IInv, PacketsGood, GoodPacket, ReceiveSearch
<1>2. ServesGood' /\ RingsGood'
    BY DEF IInv, ReceiveSearch, ServesGood, ServedOnce, RingsGood
<1>3. CASE p.type = "REQ" /\ q[p.to] = Idle
    <2>1. NewQuery(p.to, p, {p})
        BY <1>3 DEF ReceiveSearch
    <2> QED BY <1>1, <1>2, <2>1, NewQueryGood DEF IInv
<1>4. CASE ~(p.type = "REQ" /\ q[p.to] = Idle)
    <2>1. HandleEvent(p.to, p, {p}) /\ UNCHANGED <<asks, probes, turns>>
        BY <1>4 DEF ReceiveSearch
    <2>2. QueriesGood' /\ PacketsGood'
        BY <1>1, <2>1, HandleEventGood DEF IInv
    <2> QED BY <1>2, <2>1, <2>2 DEF IInv, ProbesGood, AsksGood
<1> QED BY <1>3, <1>4

\* A request to measure arrives.
LEMMA ReceiveMeasureGood ==
    ASSUME IInv, NEW p \in net, NEW taken, ReceiveMeasure(p, taken)
    PROVE  IInv'
<1>1. GoodPacket(p) /\ p.type = "REQ_MEASURE"
    BY DEF IInv, PacketsGood, ReceiveMeasure
<1>2. QueriesGood' /\ AsksGood' /\ RingsGood'
    BY DEF IInv, ReceiveMeasure, QueriesGood, AsksGood, RingsGood
<1>3. CASE \E s \in serves : s.at = p.to /\ s.from = p.from /\ s.id = p.id
    <2>1. UNCHANGED <<probes, serves>> /\ Send(taken, {})
        BY <1>3 DEF ReceiveMeasure
    <2>2. PacketsGood'
        BY <2>1, SendGood DEF IInv
    <2> QED BY <1>2, <2>1, <2>2 DEF IInv, ProbesGood, ServesGood, ServedOnce
<1>4. CASE ~ \E s \in serves : s.at = p.to /\ s.from = p.from /\ s.id = p.id
    <2>1. ServeNew(p, taken)
        BY <1>4 DEF ReceiveMeasure
    <2> QED BY <1>1, <1>2, <1>4, <2>1, ServeNewGood DEF IInv
<1> QED BY <1>3, <1>4

\* A report arrives.
LEMMA ReceivePingGood ==
    ASSUME IInv, NEW p \in net, NEW taken, ReceivePing(p, taken)
    PROVE  IInv'
<1>1. GoodPacket(p) /\ p.type = "RET_PING"
    BY DEF IInv, PacketsGood, ReceivePing
<1>2. ServesGood' /\ ProbesGood' /\ RingsGood'
    BY DEF IInv, ReceivePing, ServesGood, ServedOnce, ProbesGood, RingsGood
<1> DEFINE a == Ask(p.to, p.from, p.id)
<1>3. CASE a \in asks /\ DOMAIN p.lats = Targets
    <2>1. asks' = asks \ {a} /\ IndirectResult(p.to, p.from, p.lats, taken)
        BY <1>3 DEF ReceivePing
    <2>2. p.to \in Nodes /\ p.from \in Nodes /\ p.lats \in Possible(p.from, Targets)
        BY <1>1, <1>3, PartialFacts DEF GoodPacket, Asked
    <2>3. QueriesGood' /\ PacketsGood'
        BY <2>1, <2>2, IndirectResultGood DEF IInv
    <2> QED BY <1>2, <2>1, <2>3 DEF IInv, AsksGood
<1>4. CASE ~(a \in asks /\ DOMAIN p.lats = Targets)
    <2>1. UNCHANGED <<q, asks>> /\ Send(taken, {})
        BY <1>4 DEF ReceivePing
    <2>2. PacketsGood'
        BY <2>1, SendGood DEF IInv
    <2> QED BY <1>2, <2>1, <2>2 DEF IInv, QueriesGood, AsksGood
<1> QED BY <1>3, <1>4

\* A probe has measured.
LEMMA ProbeDoneGood ==
    ASSUME IInv, NEW pr \in probes, ProbeDone(pr)
    PROVE  IInv'
<1>1. pr.at \in Nodes /\ pr.target \in Targets
    BY DEF IInv, ProbesGood
<1>2. PICK us \in Measures[pr.at][pr.target] :
          IF pr.tells = Search0
          THEN DirectResult(pr.at, pr.target, us, {}) /\ UNCHANGED serves
          ELSE ServeResult(pr, us) /\ UNCHANGED <<q, asks>>
    BY DEF ProbeDone
<1>3. ProbesGood' /\ RingsGood'
    BY DEF IInv, ProbeDone, ProbesGood, RingsGood
<1>4. CASE pr.tells = Search0
    <2>1. DirectResult(pr.at, pr.target, us, {}) /\ UNCHANGED serves
        BY <1>2, <1>4
    <2>2. QueriesGood' /\ PacketsGood' /\ AsksGood'
        BY <1>1, <2>1, DirectResultGood DEF IInv
    <2> QED BY <1>3, <2>1, <2>2 DEF IInv, ServesGood, ServedOnce
<1>5. CASE pr.tells # Search0
    <2>1. ServeResult(pr, us) /\ UNCHANGED <<q, asks>>
        BY <1>2, <1>5
    <2>2. PacketsGood' /\ ServesGood'
        BY <1>1, <2>1, ServeResultGood DEF IInv
    <2> QED BY <1>3, <2>1, <2>2 DEF IInv, QueriesGood, AsksGood
<1> QED BY <1>4, <1>5

\* The timer of a search goes off.
LEMMA TimeoutGood ==
    ASSUME IInv, NEW n \in Nodes, Timeout(n)
    PROVE  IInv'
<1>1. ServesGood' /\ ProbesGood' /\ AsksGood' /\ RingsGood'
    BY DEF IInv, Timeout, ServesGood, ServedOnce, ProbesGood, AsksGood, RingsGood
<1>2. GoodQuery(n, q[n]) /\ q[n] # Idle
    BY DEF IInv, QueriesGood, Timeout
<1>3. CASE q[n].phase = "indirect"
    <2>1. HandleForward(n, q[n], {})
        BY <1>3 DEF Timeout
    <2> QED BY <1>1, <1>2, <1>3, <2>1, HandleForwardGood DEF IInv
<1>4. CASE q[n].phase # "indirect"
    <2>1. Finish(n, {}, {Plain("RET_ERROR", n, q[n].src, 0)})
        BY <1>4 DEF Timeout
    <2>2. GoodPacket(Plain("RET_ERROR", n, q[n].src, 0))
        BY <1>2, NewPackets DEF GoodQuery
    <2>3. QueriesGood' /\ PacketsGood'
        BY <2>1, <2>2, SendGood, BecomeGood, IdleGood DEF Finish, IInv
    <2> QED BY <1>1, <2>3 DEF IInv
<1> QED BY <1>3, <1>4

\* That of a HandleReq does.
LEMMA ServeTimeoutGood ==
    ASSUME IInv, NEW s \in serves, ServeTimeout(s)
    PROVE  IInv'
<1>1. QueriesGood' /\ ServesGood' /\ ProbesGood' /\ AsksGood' /\ RingsGood'
    BY DEF IInv, ServeTimeout, QueriesGood, ServesGood, ServedOnce, ProbesGood,
                AsksGood, RingsGood
<1>2. GoodPacket(ReturnPacket(s))
    BY OtherPackets DEF IInv, ServesGood, GoodServe
<1>3. PacketsGood'
    BY <1>2, SendGood DEF IInv, ServeTimeout
<1> QED BY <1>1, <1>3 DEF IInv

\* That of a ReqProbe does.
LEMMA AskTimeoutGood ==
    ASSUME IInv, NEW a \in asks, AskTimeout(a)
    PROVE  IInv'
<1>1. QueriesGood' /\ PacketsGood' /\ ServesGood' /\ ProbesGood' /\ AsksGood'
    BY DEF IInv, AskTimeout, QueriesGood, PacketsGood, ServesGood, ServedOnce,
                ProbesGood, AsksGood
<1>2. RingsGood'
    BY DEF IInv, AskTimeout, RingsGood
<1> QED BY <1>1, <1>2 DEF IInv

\* The invariant is kept by every step.
LEMMA NextGood == IInv /\ [Next]_vars => IInv'
<1> SUFFICES ASSUME IInv, [Next]_vars PROVE IInv'
    OBVIOUS
<1>1. CASE UNCHANGED vars
    BY <1>1 DEF vars, IInv, QueriesGood, PacketsGood, ServesGood, ServedOnce, ProbesGood,
                AsksGood, RingsGood
<1>2. ASSUME NEW p \in net, Receive(p) \/ Repeat(p) PROVE IInv'
    BY <1>2, ReceiveSearchGood, ReceiveMeasureGood, ReceivePingGood DEF Receive, Repeat
<1>3. ASSUME NEW n \in Nodes, Timeout(n) PROVE IInv'
    BY <1>3, TimeoutGood
<1>4. ASSUME NEW pr \in probes, ProbeDone(pr) PROVE IInv'
    BY <1>4, ProbeDoneGood
<1>5. ASSUME NEW s \in serves, ServeTimeout(s) PROVE IInv'
    BY <1>5, ServeTimeoutGood
<1>6. ASSUME NEW a \in asks, AskTimeout(a) PROVE IInv'
    BY <1>6, AskTimeoutGood
<1> QED BY <1>1, <1>2, <1>3, <1>4, <1>5, <1>6 DEF Next

\* What the invariant says of the decisions and the answers.
LEMMA Consistency == IInv => MCConsistent
<1> SUFFICES ASSUME IInv PROVE MCConsistent
    OBVIOUS
<1>1. TypeOK
    <2>1. ASSUME NEW n \in Nodes
          PROVE  LET c == q[n] IN
                 /\ c.phase \in {"none", "direct", "indirect", "fin"}
                 /\ c.phase = "none" <=> c = Idle
                 /\ DOMAIN c.lats \subseteq Targets /\ DOMAIN c.heard \subseteq c.ring \ {n}
                 /\ c.phase \in {"indirect", "fin"} => DOMAIN c.lats = Targets
                 /\ c.phase = "fin" => c.sel \in DOMAIN c.heard
                 /\ \A m \in DOMAIN c.heard : DOMAIN c.heard[m] = Targets
        <3>1. GoodQuery(n, q[n])
            BY DEF IInv, QueriesGood
        <3>2. DOMAIN q[n].lats \subseteq Targets
            BY <3>1, PartialFacts DEF GoodQuery
        <3>3. \A m \in DOMAIN q[n].heard : DOMAIN q[n].heard[m] = Targets
            BY <3>1, CompleteIsPartial DEF GoodQuery
        <3> QED BY <3>1, <3>2, <3>3 DEF GoodQuery
    <2>2. \A s \in serves : s.at # s.from /\ DOMAIN s.lats \subseteq Targets /\ DOMAIN s.lats # Targets
        BY PartialFacts DEF IInv, ServesGood, GoodServe
    <2> QED BY <2>1, <2>2 DEF TypeOK, IInv, AsksGood, RingsGood
<1>2. AnswersCarryLatencies
    BY DEF AnswersCarryLatencies, IInv, PacketsGood, GoodPacket
<1>3. ServedOnce
    BY DEF IInv, ServesGood
<1> QED BY <1>1, <1>2, <1>3 DEF MCConsistent

\* The invariant holds in every state.
THEOREM SearchInvariant == Spec => []IInv
BY InitGood, NextGood, PTL DEF Spec

(* A decision rests on complete lists of latencies only, an answer bears those *)
(* of the node it names over every hop of its way back, and a request is       *)
(* measured for by one query at a time, however often its packets arrive.      *)
THEOREM AnswersAlwaysCarryLatencies == Spec => []MCConsistent
BY SearchInvariant, Consistency, PTL

----------------------------------------------------------------------------
(* The refinement: what is seen of a step is a step of ClosestSearch *)

\* Every node always measures the same latencies.
SteadyLatencies == \A n \in Nodes, t \in Targets : \A a, b \in Measures[n][t] : a = b

\* A complete list of such a node is always the same.
LEMMA OneList ==
    ASSUME SteadyLatencies, NEW n \in Nodes, NEW l \in Possible(n, Targets),
           NEW k \in Possible(n, Targets)
    PROVE  l = k
<1>1. DOMAIN l = Targets /\ DOMAIN k = Targets /\ \A t \in Targets : l[t] = k[t]
    BY CompleteIsPartial, PartialFacts DEF SteadyLatencies
<1>2. l = [t \in DOMAIN l |-> l[t]] /\ k = [t \in DOMAIN k |-> k[t]]
    BY CompleteIsPartial, PartialFacts
<1> QED BY <1>1, <1>2

\* What is seen of a packet tells it from the others.
LEMMA SeenTellsApart ==
    ASSUME SteadyLatencies, NEW p, NEW o, GoodPacket(p), GoodPacket(o),
           p.type \notin Asked, Seen(p) = Seen(o)
    PROVE  p = o
<1>1. p.type = o.type /\ p.from = o.from /\ p.to = o.to /\ p.who = o.who
    BY DEF Seen
<1>2. p.id = o.id
    BY <1>1 DEF GoodPacket
<1>3. p.lats = o.lats
    <2>1. CASE p.type # "RET_RESPONSE"
        BY <1>1, <2>1 DEF GoodPacket, Asked
    <2>2. CASE p.type = "RET_RESPONSE"
        <3>1. Named(p) = Named(o) /\ Named(p) \in Nodes
            BY <1>1, <2>2 DEF Named, GoodPacket, Asking
        <3> QED BY <1>1, <2>2, <3>1, OneList DEF GoodPacket
    <2> QED BY <2>1, <2>2
<1> QED BY <1>1, <1>2, <1>3 DEF GoodPacket

\* The fields that are seen.
LEMMA SeenFields ==
    ASSUME NEW p
    PROVE  /\ Seen(p).type = p.type /\ Seen(p).from = p.from /\ Seen(p).to = p.to
           /\ Seen(p).who = p.who /\ Search!Named(Seen(p)) = Named(p)
BY DEF Seen, Search!Named, Named

\* What is seen of some packets.
SeenOf(S) == {Seen(p) : p \in {o \in S : o.type \notin Asked}}

\* At most one packet ends the search of the client.
OneEnd(out) ==
    \A p, o \in out :
        p.to = Client /\ o.to = Client /\ p.type \in Finals /\ o.type \in Finals => p = o

\* Sending, as it is seen: taking a packet takes no other that looks the same.
LEMMA SendSeen ==
    ASSUME SteadyLatencies, PacketsGood, NEW taken \in SUBSET net, NEW out, Send(taken, out),
           \A p \in out : GoodPacket(p), OneEnd(out)
    PROVE  Search!Send(SeenOf(taken), SeenOf(out))
<1> DEFINE ends == {p \in out : p.to = Client /\ p.type \in Finals}
           last == CHOOSE p \in ends : TRUE
           sends == {p \in SeenOf(out) : p.to = Client /\ p.type \in Search!Finals}
           slast == CHOOSE p \in sends : TRUE
           stold == [i \in DOMAIN told |-> Seen(told[i])]
<1>1. net' = (net \ taken) \cup {p \in out : p.to # Client}
    BY DEF Send
<1>2. told' = IF ends = {} THEN told ELSE Append(told, last)
    BY DEF Send
<1>3. \A p \in net, o \in taken : p.type \notin Asked /\ Seen(p) = Seen(o) => p = o
    BY SeenTellsApart DEF PacketsGood
<1>4. SeenOf(net') = (SeenOf(net) \ SeenOf(taken)) \cup {p \in SeenOf(out) : p.to # Client}
    <2>1. SeenOf(net') = SeenOf(net \ taken) \cup SeenOf({p \in out : p.to # Client})
        BY <1>1 DEF SeenOf
    <2>2. SeenOf(net \ taken) = SeenOf(net) \ SeenOf(taken)
        BY <1>3, SeenFields DEF SeenOf
    <2>3. SeenOf({p \in out : p.to # Client}) = {p \in SeenOf(out) : p.to # Client}
        BY SeenFields DEF SeenOf
    <2> QED BY <2>1, <2>2, <2>3
<1>5. sends = {Seen(p) : p \in ends}
    BY SeenFields DEF SeenOf, Search!Finals, Finals, Asked
<1>6. [i \in DOMAIN told |-> Seen(told[i])]' = IF sends = {} THEN stold ELSE Append(stold, slast)
    <2>1. CASE ends = {}
        BY <1>2, <1>5, <2>1
    <2>2. CASE ends # {}
        <3>1. PICK e \in ends : TRUE
            BY <2>2
        <3>2. ends = {e} /\ sends = {Seen(e)}
            BY <1>5, <3>1 DEF OneEnd
        <3>3. last = e /\ slast = Seen(e)
            BY <3>2
        <3> HIDE DEF ends, last, sends, slast
        <3>4. told' = Append(told, e) /\ sends # {}
            BY <1>2, <3>2, <3>3
        <3> DEFINE all == {told[i] : i \in DOMAIN told}
        <3>5. told \in Seq(all)
            BY DEF PacketsGood
        <3> HIDE DEF all
        <3>6. /\ told' \in Seq(all \cup {e})
              /\ DOMAIN told' = 1 .. Len(told) + 1 /\ DOMAIN told = 1 .. Len(told) /\ Len(told) \in Nat
              /\ told'[Len(told) + 1] = e /\ \A i \in 1 .. Len(told) : told'[i] = told[i]
            BY <3>4, <3>5
        <3>7. stold \in Seq({Seen(x) : x \in all}) /\ Len(stold) = Len(told)
            BY <3>5, <3>6
        <3> DEFINE new == [i \in 1 .. Len(told) + 1 |->
                             IF i = Len(told) + 1 THEN Seen(e) ELSE Seen(told[i])]
        <3>8. Append(stold, Seen(e)) = new
            BY <3>6, <3>7
        <3>9. [i \in DOMAIN told' |-> Seen(told'[i])] = new
            BY <3>6
        <3> HIDE DEF new, stold
        <3>10. [i \in DOMAIN told |-> Seen(told[i])]' = Append(stold, Seen(e))
            BY <3>8, <3>9
        <3> QED BY <3>3, <3>4, <3>10
    <2> QED BY <2>1, <2>2
<1> QED BY <1>4, <1>6 DEF Search!Send, SeenOf

\* The queries as they are seen.
SeenQueries == [k \in Nodes |-> SeenQuery(q[k])]

\* A query as it is seen.
LEMMA SeenIdle ==
    /\ SeenQuery(Idle) = Search!Idle
    /\ \A n \in Nodes : \A c : GoodQuery(n, c) /\ SeenQuery(c) = Search!Idle => c = Idle
<1>1. /\ Idle.phase = "none" /\ Idle.src = Nobody /\ Idle.lats = <<>> /\ Idle.ring = {}
      /\ Idle.heard = <<>> /\ Idle.sel = Nobody /\ DOMAIN <<>> = {}
    BY DEF Idle
<1>2. [m \in DOMAIN Idle.heard |-> Solutions[Idle.heard[m]]] = <<>>
    BY <1>1
<1>3. SeenQuery(Idle) = Search!Idle
    BY <1>1, <1>2 DEF SeenQuery, Search!Idle
<1>4. ASSUME NEW n \in Nodes, NEW c, GoodQuery(n, c), SeenQuery(c) = Search!Idle PROVE c = Idle
    <2>1. SeenQuery(c).phase = c.phase /\ Search!Idle.phase = "none"
        BY DEF SeenQuery, Search!Idle
    <2> QED BY <1>4, <2>1 DEF GoodQuery
<1> QED BY <1>3, <1>4

\* A query whose state is replaced.
LEMMA SeenBecomes ==
    ASSUME QueriesGood, NEW n \in Nodes, NEW c, q' = [q EXCEPT ![n] = c]
    PROVE  SeenQueries' = [SeenQueries EXCEPT ![n] = SeenQuery(c)]
BY DEF QueriesGood, SeenQueries

\* A query that ends, as it is seen.
LEMMA SeenFinish ==
    ASSUME SteadyLatencies, QueriesGood, PacketsGood, NEW n \in Nodes,
           NEW taken \in SUBSET net, NEW out,
           \A p \in out : GoodPacket(p), OneEnd(out), Finish(n, taken, out)
    PROVE  Search!Finish(n, SeenOf(taken), SeenOf(out))
<1>1. Search!Send(SeenOf(taken), SeenOf(out))
    BY SendSeen DEF Finish, OneEnd
<1>2. SeenQueries' = [SeenQueries EXCEPT ![n] = Search!Idle]
    BY SeenBecomes, SeenIdle DEF Finish
<1> QED BY <1>1, <1>2 DEF Search!Finish, SeenQueries

\* A query that goes on.
LEMMA SeenBecome ==
    ASSUME SteadyLatencies, QueriesGood, PacketsGood, NEW n \in Nodes, NEW c,
           NEW taken \in SUBSET net, NEW out,
           \A p \in out : GoodPacket(p), OneEnd(out), Become(n, c, taken, out)
    PROVE  /\ Search!Send(SeenOf(taken), SeenOf(out))
           /\ SeenQueries' = [SeenQueries EXCEPT ![n] = SeenQuery(c)]
BY SendSeen, SeenBecomes DEF Become, OneEnd

\* The packets that are sent, as they are seen.
LEMMA SeenPackets ==
    /\ SeenOf({}) = {}
    /\ \A n, to, l : SeenOf({Itself(n, to, l)}) = {Search!Itself(n, to)}
    /\ \A n, to, m, l : SeenOf({Packet("RET_RESPONSE", n, to, 0, m, l)})
                          = {Search!Packet("RET_RESPONSE", n, to, m)}
    /\ \A n, to, type : type \in {"REQ", "RET_INFO", "RET_ERROR"} =>
          SeenOf({Plain(type, n, to, 0)}) = {Search!Packet(type, n, to, Nobody)}
<1>1. ASSUME NEW p, p.type \notin Asked PROVE SeenOf({p}) = {Seen(p)}
    BY <1>1 DEF SeenOf
<1>2. ASSUME NEW n, NEW to, NEW m, NEW l
      PROVE  /\ Itself(n, to, l).type \notin Asked
             /\ Seen(Itself(n, to, l)) = Search!Itself(n, to)
             /\ Packet("RET_RESPONSE", n, to, 0, m, l).type \notin Asked
             /\ Seen(Packet("RET_RESPONSE", n, to, 0, m, l)) = Search!Packet("RET_RESPONSE", n, to, m)
    BY DEF Seen, Itself, Packet, Search!Itself, Search!Packet, Asked
<1>3. ASSUME NEW n, NEW to, NEW type \in {"REQ", "RET_INFO", "RET_ERROR"}
      PROVE  /\ Plain(type, n, to, 0).type \notin Asked
             /\ Seen(Plain(type, n, to, 0)) = Search!Packet(type, n, to, Nobody)
    BY DEF Seen, Plain, Packet, Search!Packet, Asked
<1>4. SeenOf({}) = {}
    BY DEF SeenOf
<1>5. ASSUME NEW n, NEW to, NEW l PROVE SeenOf({Itself(n, to, l)}) = {Search!Itself(n, to)}
    BY <1>1, <1>2
<1>6. ASSUME NEW n, NEW to, NEW m, NEW l
      PROVE  SeenOf({Packet("RET_RESPONSE", n, to, 0, m, l)})
                = {Search!Packet("RET_RESPONSE", n, to, m)}
    BY <1>1, <1>2
<1>7. ASSUME NEW n, NEW to, NEW type \in {"REQ", "RET_INFO", "RET_ERROR"}
      PROVE  SeenOf({Plain(type, n, to, 0)}) = {Search!Packet(type, n, to, Nobody)}
    BY <1>1, <1>3
<1> QED BY <1>4, <1>5, <1>6, <1>7

\* What is seen of packets of two kinds.
LEMMA SeenUnion == ASSUME NEW A, NEW B PROVE SeenOf(A \cup B) = SeenOf(A) \cup SeenOf(B)
BY DEF SeenOf

\* A query that waits for the member it chose, as it is seen.
LEMMA SeenForwarded ==
    ASSUME NEW c, NEW x, NEW y
    PROVE  LET r == SeenQuery(c) IN [r EXCEPT !.phase = x, !.sel = y] =
              [phase |-> x, src |-> r.src, direct |-> r.direct, avg |-> r.avg, ring |-> r.ring,
               heard |-> r.heard, sel |-> y]
<1> DEFINE r == SeenQuery(c)
           v == [r EXCEPT !.phase = x, !.sel = y]
<1>1. DOMAIN r = {"phase", "src", "direct", "avg", "ring", "heard", "sel"}
    BY DEF SeenQuery
<1> HIDE DEF r
<1>2. v.phase = x /\ v.src = r.src /\ v.direct = r.direct /\ v.avg = r.avg /\ v.ring = r.ring
      /\ v.heard = r.heard /\ v.sel = y
    BY <1>1
<1>3. DOMAIN v = DOMAIN r /\ v = [i \in DOMAIN v |-> v[i]]
    OBVIOUS
<1> HIDE DEF v
<1>4. v = [phase |-> x, src |-> r.src, direct |-> r.direct, avg |-> r.avg, ring |-> r.ring,
           heard |-> r.heard, sel |-> y]
    BY <1>1, <1>2, <1>3
<1> QED BY <1>4 DEF v, r

\* A query that asks its members.
LEMMA SeenAsking ==
    ASSUME NEW c, NEW x, NEW y, NEW z
    PROVE  LET r == SeenQuery(c) IN [r EXCEPT !.phase = x, !.avg = y, !.ring = z] =
              [phase |-> x, src |-> r.src, direct |-> r.direct, avg |-> y, ring |-> z,
               heard |-> r.heard, sel |-> r.sel]
<1> DEFINE r == SeenQuery(c)
           w == [r EXCEPT !.phase = x, !.avg = y, !.ring = z]
<1>1. DOMAIN r = {"phase", "src", "direct", "avg", "ring", "heard", "sel"}
    BY DEF SeenQuery
<1> HIDE DEF r
<1>2. w.phase = x /\ w.src = r.src /\ w.direct = r.direct /\ w.avg = y /\ w.ring = z
      /\ w.heard = r.heard /\ w.sel = r.sel
    BY <1>1
<1>3. DOMAIN w = DOMAIN r /\ w = [i \in DOMAIN w |-> w[i]]
    OBVIOUS
<1> HIDE DEF w
<1>4. w = [phase |-> x, src |-> r.src, direct |-> r.direct, avg |-> y, ring |-> z,
           heard |-> r.heard, sel |-> r.sel]
    BY <1>1, <1>2, <1>3
<1> QED BY <1>4 DEF w, r

\* handleForward, as it is seen: a report is its average.
LEMMA ForwardSeen ==
    ASSUME SteadyLatencies, QueriesGood, PacketsGood, NEW n \in Nodes, NEW c,
           NEW taken \in SUBSET net,
           GoodQuery(n, c), c.phase = "indirect", \A p \in taken : p.type \in Asked,
           HandleForward(n, c, taken)
    PROVE  Search!HandleForward(n, SeenQuery(c), {})
<1> DEFINE d == SeenQuery(c)
<1>1. /\ d.src = c.src /\ d.avg = Solutions[c.lats]
      /\ d.heard = [m \in DOMAIN c.heard |-> Solutions[c.heard[m]]]
    BY DEF SeenQuery
<1>2. Search!Closest(d.heard) = Closest(c.heard)
    BY <1>1 DEF Search!Closest, Closest
<1>3. SeenOf(taken) = {}
    BY DEF SeenOf
<1>4. c.src \in Asking /\ c.lats \in Possible(n, Targets)
    BY PartialFacts DEF GoodQuery
<1>5. ASSUME Finish(n, taken, {Itself(n, c.src, c.lats)})
      PROVE  Search!Finish(n, {}, {Search!Itself(n, c.src)})
    <2>1. GoodPacket(Itself(n, c.src, c.lats))
        BY <1>4, NewPackets
    <2>2. OneEnd({Itself(n, c.src, c.lats)})
        BY DEF OneEnd
    <2>3. Search!Finish(n, SeenOf(taken), SeenOf({Itself(n, c.src, c.lats)}))
        BY <1>5, <2>1, <2>2, SeenFinish
    <2>4. SeenOf({Itself(n, c.src, c.lats)}) = {Search!Itself(n, c.src)}
        BY SeenPackets
    <2> QED BY <1>3, <2>3, <2>4
<1>6. ASSUME NEW m \in Closest(c.heard),
             LET lowest == Solutions[c.heard[m]]
                 mine == Solutions[c.lats] IN
             IF lowest = 0 \/ lowest > Threshold(mine)
             THEN Finish(n, taken,
                    {IF lowest < mine THEN Packet("RET_RESPONSE", n, c.src, 0, m, c.heard[m])
                     ELSE Itself(n, c.src, c.lats)})
             ELSE Become(n, [c EXCEPT !.phase = "fin", !.sel = m], taken,
                         {Plain("REQ", n, m, 0)})
      PROVE  IF d.heard[m] = 0 \/ d.heard[m] > Search!Threshold(d.avg)
             THEN Search!Finish(n, {},
                  {IF d.heard[m] < d.avg
                   THEN Search!Packet("RET_RESPONSE", n, d.src, m) ELSE Search!Itself(n, d.src)})
             ELSE /\ SeenQueries' = [SeenQueries EXCEPT ![n] = [d EXCEPT !.phase = "fin", !.sel = m]]
                  /\ Search!Send({}, {Search!Packet("REQ", n, m, Nobody)})
    <2>1. m \in DOMAIN c.heard /\ m \in Nodes /\ m \in Asking /\ c.heard[m] \in Possible(m, Targets)
        BY <1>6 DEF Closest, GoodQuery, Asking
    <2>2. d.heard[m] = Solutions[c.heard[m]] /\ Search!Threshold(d.avg) = Threshold(Solutions[c.lats])
        BY <1>1, <2>1 DEF Threshold, Search!Threshold, Beta, Search!Num, Search!Den, Search!LegalBeta
    <2>3. ASSUME Finish(n, taken, {Packet("RET_RESPONSE", n, c.src, 0, m, c.heard[m])})
          PROVE  Search!Finish(n, {}, {Search!Packet("RET_RESPONSE", n, c.src, m)})
        <3>1. GoodPacket(Packet("RET_RESPONSE", n, c.src, 0, m, c.heard[m]))
            BY <1>4, <2>1, NewPackets
        <3>2. OneEnd({Packet("RET_RESPONSE", n, c.src, 0, m, c.heard[m])})
            BY DEF OneEnd
        <3> DEFINE out == {Packet("RET_RESPONSE", n, c.src, 0, m, c.heard[m])}
        <3>3. SeenOf(out) = {Search!Packet("RET_RESPONSE", n, c.src, m)}
            BY SeenPackets
        <3>4. Finish(n, taken, out) /\ OneEnd(out) /\ \A p \in out : GoodPacket(p)
            BY <2>3, <3>1, <3>2
        <3> HIDE DEF out
        <3>5. Search!Finish(n, SeenOf(taken), SeenOf(out))
            BY <3>4, SeenFinish
        <3> QED BY <1>3, <3>3, <3>5
    <2>4. ASSUME Become(n, [c EXCEPT !.phase = "fin", !.sel = m], taken, {Plain("REQ", n, m, 0)})
          PROVE  /\ SeenQueries' = [SeenQueries EXCEPT ![n] = [d EXCEPT !.phase = "fin", !.sel = m]]
                 /\ Search!Send({}, {Search!Packet("REQ", n, m, Nobody)})
        <3> DEFINE e == [c EXCEPT !.phase = "fin", !.sel = m]
                   req == {Plain("REQ", n, m, 0)}
        <3>1. \A p \in req : GoodPacket(p)
            BY <2>1, NewPackets
        <3>2. OneEnd(req) /\ SeenOf(req) = {Search!Packet("REQ", n, m, Nobody)}
            BY SeenPackets DEF OneEnd
        <3>3. SeenQuery(e) = [d EXCEPT !.phase = "fin", !.sel = m]
            <4>1. e = [phase |-> "fin", src |-> c.src, lats |-> c.lats, ring |-> c.ring,
                       heard |-> c.heard, sel |-> m]
                BY Updates DEF GoodQuery
            <4>2. SeenQuery(e) = [phase |-> "fin", src |-> d.src, direct |-> d.direct, avg |-> d.avg,
                                  ring |-> d.ring, heard |-> d.heard, sel |-> m]
                BY <4>1 DEF SeenQuery
            <4>3. [d EXCEPT !.phase = "fin", !.sel = m] =
                     [phase |-> "fin", src |-> d.src, direct |-> d.direct, avg |-> d.avg,
                      ring |-> d.ring, heard |-> d.heard, sel |-> m]
                BY SeenForwarded
            <4> QED BY <4>2, <4>3
        <3> HIDE DEF e, req
        <3>4. Become(n, e, taken, req)
            BY <2>4 DEF e, req
        <3>5. /\ Search!Send(SeenOf(taken), SeenOf(req))
              /\ SeenQueries' = [SeenQueries EXCEPT ![n] = SeenQuery(e)]
            BY <3>1, <3>2, <3>4, SeenBecome
        <3> QED BY <1>3, <3>2, <3>3, <3>5
    <2> HIDE DEF d
    <2> QED BY <1>1, <1>5, <1>6, <2>2, <2>3, <2>4
<1>7. CASE Closest(c.heard) = {} /\ Finish(n, taken, {Itself(n, c.src, c.lats)})
    BY <1>1, <1>2, <1>5, <1>7 DEF Search!HandleForward
<1> HIDE DEF d
<1>8. ASSUME Closest(c.heard) # {} PROVE Search!HandleForward(n, d, {})
    <2>1. PICK m \in Closest(c.heard) :
             LET lowest == Solutions[c.heard[m]]
                 mine == Solutions[c.lats] IN
             IF lowest = 0 \/ lowest > Threshold(mine)
             THEN Finish(n, taken,
                    {IF lowest < mine THEN Packet("RET_RESPONSE", n, c.src, 0, m, c.heard[m])
                     ELSE Itself(n, c.src, c.lats)})
             ELSE Become(n, [c EXCEPT !.phase = "fin", !.sel = m], taken,
                         {Plain("REQ", n, m, 0)})
        BY <1>8 DEF HandleForward
    <2>2. IF d.heard[m] = 0 \/ d.heard[m] > Search!Threshold(d.avg)
             THEN Search!Finish(n, {},
                  {IF d.heard[m] < d.avg
                   THEN Search!Packet("RET_RESPONSE", n, d.src, m) ELSE Search!Itself(n, d.src)})
             ELSE /\ SeenQueries' = [SeenQueries EXCEPT ![n] = [d EXCEPT !.phase = "fin", !.sel = m]]
                  /\ Search!Send({}, {Search!Packet("REQ", n, m, Nobody)})
        BY <1>6, <2>1
    <2>3. \A S : {} \cup S = S
        OBVIOUS
    <2> QED BY <1>2, <2>2, <2>3 DEF Search!HandleForward, SeenQueries
<1> QED BY <1>7, <1>8 DEF HandleForward, d


\* The average that a node may report is that of a list it may have measured.
LEMMA SolutionFacts ==
    ASSUME NEW n \in Nodes, NEW l \in Possible(n, Targets)
    PROVE  Solutions[l] \in {AvgSolution(k) : k \in Possible(n, Targets)}
BY DEF Solutions

\* sendReqProbes, as it is seen: the questions it sends are not.
LEMMA SendReqProbesSeen ==
    ASSUME SteadyLatencies, QueriesGood, PacketsGood, RingsGood, NEW n \in Nodes, NEW c,
           NEW taken \in SUBSET net, NEW out, GoodQuery(n, c), c.phase = "direct",
           DOMAIN c.lats = Targets, \A p \in out : GoodPacket(p) /\ p.type \notin Finals,
           SendReqProbes(n, c, taken, out)
    PROVE  Search!SendReqProbes(n, SeenQuery(c), SeenOf(taken), SeenOf(out))
<1> DEFINE d == SeenQuery(c)
           avg == Solutions[c.lats]
<1>1. PICK members \in SUBSET ring[n] :
       IF Solutions[c.lats] = 0 \/ members = {}
       THEN Finish(n, taken, out \cup {Itself(n, c.src, c.lats)}) /\ UNCHANGED asks
       ELSE /\ asks' = asks \cup {Ask(n, m, NewId(n, m)) : m \in members}
            /\ Become(n, [c EXCEPT !.phase = "indirect", !.ring = members], taken,
                      out \cup {Question(n, m, NewId(n, m)) : m \in members})
    BY DEF SendReqProbes
<1>2. members \subseteq Nodes \ {n} /\ members \in SUBSET Knows[n]
    BY MCAssumption DEF RingsGood
<1>3. c.src \in Asking /\ c.lats \in Possible(n, Targets)
    BY PartialFacts DEF GoodQuery
<1>4. avg \in {AvgSolution(l) : l \in Possible(n, Targets)}
    BY <1>3, SolutionFacts
<1>5. d.src = c.src
    BY DEF SeenQuery
<1>6. ASSUME avg = 0 \/ members = {}
      PROVE  Search!Finish(n, SeenOf(taken), SeenOf(out) \cup {Search!Itself(n, d.src)})
    <2> DEFINE all == out \cup {Itself(n, c.src, c.lats)}
    <2>1. Finish(n, taken, all)
        BY <1>1, <1>6
    <2>2. \A p \in all : GoodPacket(p)
        BY <1>3, NewPackets
    <2>3. OneEnd(all)
        BY DEF OneEnd
    <2>4. SeenOf(all) = SeenOf(out) \cup {Search!Itself(n, d.src)}
        <3>1. SeenOf(all) = SeenOf(out) \cup SeenOf({Itself(n, c.src, c.lats)})
            BY SeenUnion
        <3>2. SeenOf({Itself(n, c.src, c.lats)}) = {Search!Itself(n, c.src)}
            BY SeenPackets
        <3> QED BY <1>5, <3>1, <3>2
    <2> HIDE DEF all, d
    <2>5. Search!Finish(n, SeenOf(taken), SeenOf(all))
        BY <2>1, <2>2, <2>3, SeenFinish
    <2> QED BY <2>4, <2>5
<1>7. ASSUME ~(avg = 0 \/ members = {})
      PROVE  /\ SeenQueries' = [SeenQueries EXCEPT ![n] =
                    [d EXCEPT !.phase = "indirect", !.avg = avg, !.ring = members]]
             /\ Search!Send(SeenOf(taken), SeenOf(out))
    <2> PICK asked : asked = {Question(n, m, NewId(n, m)) : m \in members}
        OBVIOUS
    <2> DEFINE e == [c EXCEPT !.phase = "indirect", !.ring = members]
    <2>1. Become(n, e, taken, out \cup asked)
        BY <1>1, <1>7
    <2>2. \A p \in asked : GoodPacket(p) /\ p.type \in Asked
        <3>1. \A m \in members : GoodPacket(Question(n, m, NewId(n, m)))
            BY <1>2, NewPackets DEF Asking
        <3>2. \A m \in members : Question(n, m, NewId(n, m)).type \in Asked
            BY DEF Question, Plain, Packet, Asked
        <3> QED BY <3>1, <3>2
    <2>3. SeenOf(out \cup asked) = SeenOf(out)
        BY <2>2 DEF SeenOf
    <2>4. OneEnd(out \cup asked)
        BY <2>2 DEF OneEnd, Finals, Asked
    <2>5. SeenQuery(e) = [d EXCEPT !.phase = "indirect", !.avg = avg, !.ring = members]
        <3>1. e = [phase |-> "indirect", src |-> c.src, lats |-> c.lats, ring |-> members,
                   heard |-> c.heard, sel |-> c.sel]
            BY Updates DEF GoodQuery
        <3>2. SeenQuery(e) = [phase |-> "indirect", src |-> d.src, direct |-> d.direct, avg |-> avg,
                              ring |-> members, heard |-> d.heard, sel |-> d.sel]
            BY <3>1 DEF SeenQuery
        <3>3. [d EXCEPT !.phase = "indirect", !.avg = avg, !.ring = members] =
                 [phase |-> "indirect", src |-> d.src, direct |-> d.direct, avg |-> avg,
                  ring |-> members, heard |-> d.heard, sel |-> d.sel]
            <4> HIDE DEF avg
            <4> QED BY SeenAsking
        <3> QED BY <3>2, <3>3
    <2> HIDE DEF e, d, avg
    <2>6. /\ Search!Send(SeenOf(taken), SeenOf(out \cup asked))
          /\ SeenQueries' = [SeenQueries EXCEPT ![n] = SeenQuery(e)]
        <3> DEFINE all == out \cup asked
        <3>1. \A p \in all : GoodPacket(p)
            BY <2>2
        <3>2. Become(n, e, taken, all) /\ OneEnd(all)
            BY <2>1, <2>4
        <3> HIDE DEF all
        <3>3. /\ Search!Send(SeenOf(taken), SeenOf(all))
              /\ SeenQueries' = [SeenQueries EXCEPT ![n] = SeenQuery(e)]
            BY <3>1, <3>2, SeenBecome
        <3> QED BY <3>3 DEF all
    <2>7. Search!Send(SeenOf(taken), SeenOf(out))
        BY <2>3, <2>6
    <2>8. SeenQueries' = [SeenQueries EXCEPT ![n] = SeenQuery(e)]
        BY <2>6 DEF SeenQueries
    <2> QED BY <2>5, <2>7, <2>8
<1> HIDE DEF d, avg
<1>8. Search!SendReqProbes(n, d, SeenOf(taken), SeenOf(out))
    BY <1>2, <1>4, <1>6, <1>7 DEF Search!SendReqProbes, SeenQueries
<1> QED BY <1>8 DEF d

\* A step of the measurements is not seen.
Unseen == /\ SeenQueries' = SeenQueries /\ SeenOf(net)' = SeenOf(net)
          /\ [i \in DOMAIN told |-> Seen(told[i])]' = [i \in DOMAIN told |-> Seen(told[i])]

\* Packets of the measurements leave no trace.
LEMMA SendUnseen ==
    ASSUME NEW taken, NEW out, Send(taken, out), UNCHANGED q,
           \A p \in taken \cup out : p.type \in Asked
    PROVE  Unseen
<1>1. {p \in out : p.to = Client /\ p.type \in Finals} = {}
    BY DEF Asked, Finals
<1>2. told' = told
    BY <1>1 DEF Send
<1>3. SeenOf(net') = SeenOf(net)
    BY DEF Send, SeenOf
<1> QED BY <1>2, <1>3 DEF Unseen, SeenQueries, SeenOf

\* What arrives for a search.
LEMMA NewQuerySeen ==
    ASSUME SteadyLatencies, QueriesGood, PacketsGood, RingsGood, NEW n \in Nodes, NEW p \in net,
           p.from \in Asking, p.type \notin Asked, NewQuery(n, p, {p})
    PROVE  Search!NewQuery(n, Seen(p), {Seen(p)})
<1> DEFINE info == {Plain("RET_INFO", n, p.from, 0)}
           d(cached) == [Search!Idle EXCEPT !.phase = "direct", !.src = p.from, !.direct = cached]
<1>1. PICK lats \in CachedLatencies(n) :
        IF DOMAIN lats = Targets
        THEN SendReqProbes(n, [Idle EXCEPT !.phase = "direct", !.src = p.from, !.lats = lats],
                           {p}, info)
        ELSE Become(n, [Idle EXCEPT !.phase = "direct", !.src = p.from, !.lats = lats], {p}, info)
    BY DEF NewQuery
<1> DEFINE c == [Idle EXCEPT !.phase = "direct", !.src = p.from, !.lats = lats]
           cached == DOMAIN lats
<1>2. lats \in Partial(n) /\ cached \in SUBSET Targets
    <2>1. lats \in Partial(n)
        BY FirstPartial
    <2> QED BY <2>1, PartialFacts
<1>3. c.phase = "direct" /\ c.lats = lats /\ GoodQuery(n, c)
    <2>1. c.phase = "direct" /\ c.lats = lats
        BY DEF Idle
    <2>2. GoodQuery(n, c)
        BY <1>2, NewQueryIsGood
    <2> QED BY <2>1, <2>2
<1>4. SeenQuery(c) = d(cached)
    <2>1. /\ c.phase = "direct" /\ c.src = p.from /\ c.lats = lats /\ c.ring = {} /\ c.heard = <<>>
          /\ c.sel = Nobody
        BY DEF Idle
    <2>2. [m \in DOMAIN <<>> |-> Solutions[<<>>[m]]] = <<>>
        <3>1. DOMAIN <<>> = {}
            BY FirstPartial
        <3> QED BY <3>1
    <2> HIDE DEF c, cached
    <2>3. SeenQuery(c) = [phase |-> "direct", src |-> p.from, direct |-> cached, avg |-> 0,
                          ring |-> {}, heard |-> <<>>, sel |-> Nobody]
        BY <2>1, <2>2 DEF SeenQuery, cached
    <2>4. d(cached) = [phase |-> "direct", src |-> p.from, direct |-> cached, avg |-> 0,
                       ring |-> {}, heard |-> <<>>, sel |-> Nobody]
        <3> DEFINE v == d(cached)
        <3>1. v.phase = "direct" /\ v.src = p.from /\ v.direct = cached /\ v.avg = 0 /\ v.ring = {}
              /\ v.heard = <<>> /\ v.sel = Nobody
            BY DEF Search!Idle
        <3>2. DOMAIN v = {"phase", "src", "direct", "avg", "ring", "heard", "sel"}
              /\ v = [i \in DOMAIN v |-> v[i]]
            BY DEF Search!Idle
        <3> HIDE DEF v
        <3>3. v = [phase |-> "direct", src |-> p.from, direct |-> cached, avg |-> 0,
                   ring |-> {}, heard |-> <<>>, sel |-> Nobody]
            BY <3>1, <3>2
        <3> QED BY <3>3 DEF v
    <2> QED BY <2>3, <2>4
<1>5. /\ \A o \in info : GoodPacket(o) /\ o.type \notin Finals
      /\ SeenOf(info) = {Search!Info(n, p.from)} /\ OneEnd(info)
    <2>1. GoodPacket(Plain("RET_INFO", n, p.from, 0))
        BY NewPackets
    <2>2. Plain("RET_INFO", n, p.from, 0).type \notin Finals
        BY DEF Plain, Packet, Finals
    <2>3. SeenOf(info) = {Search!Info(n, p.from)}
        BY SeenPackets DEF Search!Info
    <2> QED BY <2>1, <2>2, <2>3 DEF OneEnd
<1>6. SeenOf({p}) = {Seen(p)} /\ Seen(p).from = p.from /\ {p} \in SUBSET net
    BY SeenFields DEF SeenOf
<1> HIDE DEF c, info, d
<1>7. IF cached = Targets THEN SendReqProbes(n, c, {p}, info) ELSE Become(n, c, {p}, info)
    BY <1>1 DEF c
<1>8. CASE cached = Targets
    <2>1. Search!SendReqProbes(n, SeenQuery(c), SeenOf({p}), SeenOf(info))
        BY <1>3, <1>5, <1>6, <1>7, <1>8, SendReqProbesSeen
    <2>2. Search!SendReqProbes(n, d(cached), {Seen(p)}, {Search!Info(n, Seen(p).from)})
        BY <1>4, <1>5, <1>6, <2>1
    <2> QED BY <1>2, <1>6, <1>8, <2>2 DEF Search!NewQuery, d
<1>9. CASE cached # Targets
    <2>1. /\ Search!Send(SeenOf({p}), SeenOf(info))
          /\ SeenQueries' = [SeenQueries EXCEPT ![n] = SeenQuery(c)]
        BY <1>5, <1>6, <1>7, <1>9, SeenBecome
    <2>2. /\ Search!Send({Seen(p)}, {Search!Info(n, Seen(p).from)})
          /\ SeenQueries' = [SeenQueries EXCEPT ![n] = d(cached)]
        BY <1>4, <1>5, <1>6, <2>1
    <2> QED BY <1>2, <1>6, <1>9, <2>2 DEF Search!NewQuery, SeenQueries, d
<1> QED BY <1>8, <1>9


\* What arrives for a search that has begun.
LEMMA HandleEventSeen ==
    ASSUME SteadyLatencies, QueriesGood, PacketsGood, NEW n \in Nodes, NEW p \in net,
           p.type \notin Asked, HandleEvent(n, p, {p})
    PROVE  Search!HandleEvent(n, Seen(p), {Seen(p)})
<1> PICK c : c = q[n]
    OBVIOUS
<1> DEFINE back == Packet(p.type, n, c.src, 0,
                          IF p.type = "RET_ERROR" THEN Nobody ELSE Named(p), p.lats)
           sback == Search!Packet(p.type, n, c.src,
                          IF p.type = "RET_ERROR" THEN Nobody ELSE Named(p))
           d == SeenQueries[n]
<1>1. GoodQuery(n, c) /\ GoodPacket(p)
    BY DEF QueriesGood, PacketsGood
<1>2. d.phase = c.phase /\ d.src = c.src /\ d.sel = c.sel
    BY DEF SeenQuery, SeenQueries
<1>3. SeenOf({p}) = {Seen(p)} /\ {p} \in SUBSET net
    BY DEF SeenOf
<1>4. /\ Seen(p).type = p.type /\ Seen(p).from = p.from /\ Search!Named(Seen(p)) = Named(p)
    BY SeenFields
<1>5. ASSUME UNCHANGED q PROVE UNCHANGED SeenQueries
    BY <1>5 DEF SeenQueries
<1>6. CASE c.phase = "fin" /\ p.type = "REQ"
    <2> DEFINE out == {Itself(n, p.from, c.lats)}
    <2>1. UNCHANGED q /\ Send({p}, out)
        BY <1>6 DEF HandleEvent
    <2>2. c.lats \in Possible(n, Targets) /\ p.from \in Asking
        BY <1>1, <1>6, PartialFacts DEF GoodQuery, GoodPacket
    <2>3. \A o \in out : GoodPacket(o)
        BY <2>2, NewPackets
    <2>4. SeenOf(out) = {Search!Itself(n, p.from)}
        BY SeenPackets
    <2>5. \A o, r \in out : o = r
        OBVIOUS
    <2> HIDE DEF out, d
    <2>6. Search!Send(SeenOf({p}), SeenOf(out))
        BY <1>3, <2>1, <2>3, <2>5, SendSeen DEF OneEnd
    <2>7. Search!Send({Seen(p)}, {Search!Itself(n, Seen(p).from)})
        BY <1>3, <1>4, <2>4, <2>6
    <2> QED BY <1>2, <1>4, <1>5, <1>6, <2>1, <2>7 DEF Search!HandleEvent, d, SeenQueries
<1>7. CASE c.phase = "fin" /\ p.type # "REQ" /\ p.from = c.sel
    <2>1. IF p.type \in Finals THEN Finish(n, {p}, {back})
          ELSE UNCHANGED q /\ Send({p}, {back})
        BY <1>7 DEF HandleEvent
    <2>2. GoodPacket(back)
        <3>1. c.src \in Asking /\ p.from \in Nodes /\ p.type \in {"RET_INFO"} \cup Finals
            BY <1>1, <1>7 DEF GoodQuery, GoodPacket, Asking
        <3>2. CASE p.type = "RET_RESPONSE"
            <4>1. Named(p) \in Nodes /\ p.lats \in Possible(Named(p), Targets)
                BY <1>1, <3>1, <3>2 DEF GoodPacket, Named
            <4> QED BY <3>1, <3>2, <4>1, NewPackets
        <3>3. CASE p.type # "RET_RESPONSE"
            <4>1. p.lats = <<>> /\ Named(p) \in Nodes \cup {Nobody}
                BY <1>1, <1>7, <3>1, <3>3 DEF GoodPacket, Named, Finals, Asked
            <4>2. n \in Asking /\ n # Client
                BY MCAssumption DEF Asking
            <4> QED BY <3>1, <3>3, <4>1, <4>2 DEF GoodPacket, Packet, Finals, Asked
        <3> QED BY <3>2, <3>3
    <2>3. SeenOf({back}) = {sback}
        <3>1. back.type \notin Asked /\ Seen(back) = sback
            BY DEF Seen, Packet, Search!Packet
        <3> HIDE DEF back, sback
        <3> QED BY <3>1 DEF SeenOf
    <2> PICK out : out = {back}
        OBVIOUS
    <2>4. (\A o \in out : GoodPacket(o)) /\ \A o, r \in out : o = r
        BY <2>2
    <2>5. SeenOf(out) = {sback}
        BY <2>3
    <2> HIDE DEF back, sback, d
    <2>6. CASE p.type \in Finals
        <3>1. Finish(n, {p}, out) /\ OneEnd(out)
            BY <2>1, <2>4, <2>6 DEF OneEnd
        <3>2. Search!Finish(n, SeenOf({p}), SeenOf(out))
            BY <1>3, <2>4, <3>1, SeenFinish
        <3>3. Search!Finish(n, {Seen(p)}, {sback})
            BY <1>3, <2>5, <3>2
        <3> QED BY <1>2, <1>4, <1>7, <2>6, <3>3
                DEF Search!HandleEvent, Search!Finals, Finals, SeenQueries, d, sback
    <2>7. CASE p.type \notin Finals
        <3>1. UNCHANGED q /\ Send({p}, out)
            BY <2>1, <2>7
        <3>2. Search!Send(SeenOf({p}), SeenOf(out))
            BY <1>3, <2>4, <3>1, SendSeen DEF OneEnd
        <3>3. Search!Send({Seen(p)}, {sback})
            BY <1>3, <2>5, <3>2
        <3>4. UNCHANGED SeenQueries
            BY <1>5, <3>1
        <3>5. Seen(p).type \notin Search!Finals
            BY <1>4, <2>7 DEF Search!Finals, Finals
        <3> QED BY <1>2, <1>4, <1>7, <3>3, <3>4, <3>5
                DEF Search!HandleEvent, Search!Send, SeenQueries, d, sback
    <2> QED BY <2>6, <2>7
<1>8. CASE ~(c.phase = "fin" /\ (p.type = "REQ" \/ p.from = c.sel))
    <2>1. UNCHANGED q /\ Send({p}, {})
        BY <1>8 DEF HandleEvent
    <2>2. Search!Send(SeenOf({p}), SeenOf({}))
        BY <1>3, <2>1, SendSeen DEF OneEnd
    <2>3. Search!Send({Seen(p)}, {})
        BY <1>3, <2>2, SeenPackets
    <2> HIDE DEF d
    <2> QED BY <1>2, <1>4, <1>5, <1>8, <2>1, <2>3 DEF Search!HandleEvent, d, SeenQueries
<1> QED BY <1>6, <1>7, <1>8


\* handleForward acts on what the query is, not on how it is written.
LEMMA ForwardSame ==
    ASSUME NEW n, NEW e, NEW STATE d, e = d, Search!HandleForward(n, e, {})
    PROVE  Search!HandleForward(n, d, {})
<1>1. /\ Search!Closest(d.heard) = Search!Closest(e.heard)
      /\ Search!Threshold(d.avg) = Search!Threshold(e.avg)
    BY DEF Search!Closest, Search!Threshold
<1>2. CASE /\ Search!Closest(e.heard) = {}
           /\ Search!Finish(n, {}, {} \cup {Search!Itself(n, e.src)})
    <2> PICK out : out = {} \cup {Search!Itself(n, e.src)}
        OBVIOUS
    <2>1. out = {} \cup {Search!Itself(n, d.src)}
        BY DEF Search!Itself, Search!Packet
    <2>2. Search!Finish(n, {}, out)
        BY <1>2
    <2>3. Search!Finish(n, {}, {} \cup {Search!Itself(n, d.src)})
        BY <2>1, <2>2 DEF Search!Finish, Search!Send
    <2>4. Search!Closest(d.heard) = {}
        BY <1>1, <1>2
    <2> QED BY <2>3, <2>4 DEF Search!HandleForward
<1>3. ASSUME NEW k \in Search!Closest(e.heard),
             IF e.heard[k] = 0 \/ e.heard[k] > Search!Threshold(e.avg)
             THEN Search!Finish(n, {}, {} \cup
                     {IF e.heard[k] < e.avg
                      THEN Search!Packet("RET_RESPONSE", n, e.src, k) ELSE Search!Itself(n, e.src)})
             ELSE /\ SeenQueries' = [SeenQueries EXCEPT ![n] = [e EXCEPT !.phase = "fin", !.sel = k]]
                  /\ Search!Send({}, {} \cup {Search!Packet("REQ", n, k, Nobody)})
      PROVE  Search!HandleForward(n, d, {})
    <2> PICK out : out = {} \cup {IF e.heard[k] < e.avg
                                  THEN Search!Packet("RET_RESPONSE", n, e.src, k)
                                  ELSE Search!Itself(n, e.src)}
        OBVIOUS
    <2>1. out = {} \cup {IF d.heard[k] < d.avg
                         THEN Search!Packet("RET_RESPONSE", n, d.src, k) ELSE Search!Itself(n, d.src)}
        BY DEF Search!Itself, Search!Packet
    <2>2. CASE e.heard[k] = 0 \/ e.heard[k] > Search!Threshold(e.avg)
        <3>1. Search!Finish(n, {}, out)
            BY <1>3, <2>2
        <3>2. Search!Finish(n, {}, {} \cup
                  {IF d.heard[k] < d.avg
                   THEN Search!Packet("RET_RESPONSE", n, d.src, k) ELSE Search!Itself(n, d.src)})
            BY <2>1, <3>1 DEF Search!Finish, Search!Send
        <3>3. k \in Search!Closest(d.heard) /\ (d.heard[k] = 0 \/ d.heard[k] > Search!Threshold(d.avg))
            BY <1>1, <1>3, <2>2
        <3> QED BY <3>2, <3>3 DEF Search!HandleForward
    <2>3. CASE ~(e.heard[k] = 0 \/ e.heard[k] > Search!Threshold(e.avg))
        <3>1. /\ SeenQueries' = [SeenQueries EXCEPT ![n] = [d EXCEPT !.phase = "fin", !.sel = k]]
              /\ Search!Send({}, {} \cup {Search!Packet("REQ", n, k, Nobody)})
            BY <1>3, <2>3
        <3>2. k \in Search!Closest(d.heard) /\ ~(d.heard[k] = 0 \/ d.heard[k] > Search!Threshold(d.avg))
            BY <1>1, <1>3, <2>3
        <3> QED BY <3>1, <3>2 DEF Search!HandleForward, SeenQueries
    <2> QED BY <2>2, <2>3
<1> QED BY <1>2, <1>3 DEF Search!HandleForward, SeenQueries

\* What the search sees when a query of the first phase notes one more target.
Noting(r, t) == [r EXCEPT !.direct = @ \cup {t}]
Notes(b, c, t) ==
    /\ b.phase = "direct" /\ c.phase = "direct" /\ c.src = b.src
    /\ c.ring = b.ring /\ c.heard = b.heard /\ c.sel = b.sel
    /\ DOMAIN c.lats = DOMAIN b.lats \cup {t}

\* Noting one more measured target is just that.
LEMMA SeenMeasured ==
    ASSUME NEW b, NEW c, NEW t, Notes(b, c, t)
    PROVE  /\ SeenQuery(c) = Noting(SeenQuery(b), t)
           /\ SeenQuery(c).direct = DOMAIN c.lats
<1> PICK r : r = SeenQuery(b)
    OBVIOUS
<1> PICK h : h = [m \in DOMAIN b.heard |-> Solutions[b.heard[m]]]
    OBVIOUS
<1>1. r = [phase |-> "direct", src |-> b.src, direct |-> DOMAIN b.lats, avg |-> 0,
           ring |-> b.ring, heard |-> h, sel |-> b.sel]
    BY DEF SeenQuery, Notes
<1>2. SeenQuery(c) = [phase |-> "direct", src |-> b.src, direct |-> DOMAIN c.lats, avg |-> 0,
                      ring |-> b.ring, heard |-> h, sel |-> b.sel]
    BY DEF SeenQuery, Notes
<1>3. [r EXCEPT !.direct = @ \cup {t}] =
          [phase |-> "direct", src |-> b.src, direct |-> DOMAIN c.lats, avg |-> 0,
           ring |-> b.ring, heard |-> h, sel |-> b.sel]
    BY <1>1 DEF Notes
<1> QED BY <1>2, <1>3 DEF Noting

\* What a probe or a member reports: a step of the search, or nothing.
LEMMA DirectResultSeen ==
    ASSUME SteadyLatencies, QueriesGood, PacketsGood, RingsGood, NEW n \in Nodes, NEW t \in Targets,
           NEW us \in Measures[n][t], DirectResult(n, t, us, {}), UNCHANGED timely
    PROVE  Search!TargetMeasured(n, t) \/ Unseen
<1>1. GoodQuery(n, q[n])
    BY DEF QueriesGood
<1>2. CASE q[n].phase # "direct" \/ t \in DOMAIN q[n].lats
    <2>1. UNCHANGED q /\ Send({}, {})
        BY <1>2 DEF DirectResult
    <2> QED BY <2>1, SendUnseen
<1>3. CASE q[n].phase = "direct" /\ t \notin DOMAIN q[n].lats
    <2> PICK l : l = With(q[n].lats, t, us)
        OBVIOUS
    <2> PICK c : c = [q[n] EXCEPT !.lats = l]
        OBVIOUS
    <2> DEFINE d == [SeenQueries[n] EXCEPT !.direct = @ \cup {t}]
    <2>1. IF DOMAIN c.lats = Targets THEN SendReqProbes(n, c, {}, {})
          ELSE UNCHANGED asks /\ Become(n, c, {}, {})
        BY <1>3 DEF DirectResult
    <2>2. l \in Partial(n) /\ DOMAIN l = DOMAIN q[n].lats \cup {t}
        <3>1. q[n].lats \in Partial(n)
            BY <1>1 DEF GoodQuery
        <3>2. PICK k : k = q[n].lats
            OBVIOUS
        <3>3. With(k, t, us) \in Partial(n) /\ DOMAIN With(k, t, us) = DOMAIN k \cup {t}
            BY <3>1, <3>2, WithPartial
        <3> QED BY <3>2, <3>3
    <2>3. GoodQuery(n, c)
        BY <1>1, <1>3, <2>2, DirectGood
    <2>4. c = [phase |-> "direct", src |-> q[n].src, lats |-> l, ring |-> q[n].ring,
               heard |-> q[n].heard, sel |-> q[n].sel]
        BY <1>1, <1>3 DEF GoodQuery, Fields
    <2>5. SeenQuery(c) = d /\ d.direct = DOMAIN c.lats
        <3> PICK b : b = q[n]
            OBVIOUS
        <3> HIDE DEF d
        <3>1. Notes(b, c, t)
            BY <1>3, <2>2, <2>4 DEF Notes
        <3>2. SeenQuery(c) = Noting(SeenQuery(b), t) /\ SeenQuery(c).direct = DOMAIN c.lats
            BY <3>1, SeenMeasured
        <3>3. SeenQueries[n] = SeenQuery(b)
            BY DEF SeenQueries
        <3> QED BY <3>2, <3>3 DEF d, Noting
    <2>6. SeenQueries[n].phase = "direct"
          /\ t \in Targets \ SeenQueries[n].direct
        BY <1>3 DEF SeenQuery, SeenQueries
    <2> HIDE DEF d
    <2>7. CASE DOMAIN c.lats = Targets
        <3>1. Search!SendReqProbes(n, SeenQuery(c), SeenOf({}), SeenOf({}))
            BY <2>1, <2>3, <2>4, <2>7, SendReqProbesSeen
        <3> PICK e : e = SeenQuery(c)
            OBVIOUS
        <3>2. Search!SendReqProbes(n, e, {}, {})
            BY <3>1, SeenPackets
        <3>3. e = d
            BY <2>5
        <3>4. PICK avg \in {AvgSolution(k) : k \in Possible(n, Targets)}, members \in SUBSET Knows[n] :
                 IF avg = 0 \/ members = {}
                 THEN Search!Finish(n, {}, {} \cup {Search!Itself(n, e.src)})
                 ELSE /\ SeenQueries' = [SeenQueries EXCEPT ![n] =
                            [e EXCEPT !.phase = "indirect", !.avg = avg, !.ring = members]]
                      /\ Search!Send({}, {})
            BY <3>2 DEF Search!SendReqProbes, SeenQueries
        <3> PICK o : o = Search!Itself(n, e.src)
            OBVIOUS
        <3>5. o = Search!Itself(n, d.src)
            BY <3>3 DEF Search!Itself, Search!Packet
        <3>6. IF avg = 0 \/ members = {}
              THEN Search!Finish(n, {}, {} \cup {o})
              ELSE /\ SeenQueries' = [SeenQueries EXCEPT ![n] =
                         [d EXCEPT !.phase = "indirect", !.avg = avg, !.ring = members]]
                   /\ Search!Send({}, {})
            <4>1. CASE avg = 0 \/ members = {}
                BY <3>4, <4>1
            <4>2. CASE ~(avg = 0 \/ members = {})
                BY <3>3, <3>4, <4>2
            <4> QED BY <4>1, <4>2
        <3>7. avg = 0 \/ members = {} => Search!Finish(n, {}, {} \cup {Search!Itself(n, d.src)})
            BY <3>5, <3>6 DEF Search!Finish, Search!Send
        <3>8. Search!SendReqProbes(n, d, {}, {})
            BY <3>6, <3>7 DEF Search!SendReqProbes, SeenQueries
        <3>9. d.direct = Targets
            BY <2>5, <2>7
        <3> QED BY <2>6, <3>8, <3>9 DEF Search!TargetMeasured, d, SeenQueries
    <2>8. CASE DOMAIN c.lats # Targets
        <3>1. Become(n, c, {}, {}) /\ OneEnd({})
            BY <2>1, <2>8 DEF OneEnd
        <3>2. /\ Search!Send(SeenOf({}), SeenOf({}))
              /\ SeenQueries' = [SeenQueries EXCEPT ![n] = SeenQuery(c)]
            BY <3>1, SeenBecome
        <3>3. Search!Send({}, {})
            BY <3>2, SeenPackets
        <3>4. SeenQueries' = [SeenQueries EXCEPT ![n] = d]
            BY <2>5, <3>2
        <3> QED BY <2>5, <2>6, <2>8, <3>3, <3>4 DEF Search!TargetMeasured, SeenQueries, d
    <2> QED BY <2>7, <2>8
<1> QED BY <1>2, <1>3

\* The report of a member, of this search or of an earlier one.
LEMMA IndirectResultSeen ==
    ASSUME SteadyLatencies, QueriesGood, PacketsGood, NEW n \in Nodes, NEW m \in Nodes,
           NEW lats \in Possible(m, Targets), NEW taken \in SUBSET net,
           \A p \in taken : p.type \in Asked, IndirectResult(n, m, lats, taken), UNCHANGED timely
    PROVE  Search!MemberReported(n, m) \/ Unseen
<1>1. GoodQuery(n, q[n])
    BY DEF QueriesGood
<1>2. CASE q[n].phase # "indirect" \/ m \notin q[n].ring \/ m \in DOMAIN q[n].heard
    <2>1. UNCHANGED q /\ Send(taken, {})
        BY <1>2 DEF IndirectResult
    <2> QED BY <2>1, SendUnseen
<1>3. CASE q[n].phase = "indirect" /\ m \in q[n].ring /\ m \notin DOMAIN q[n].heard
    <2> PICK c : c = [q[n] EXCEPT !.heard = With(@, m, lats)]
        OBVIOUS
    <2> DEFINE lat == Solutions[lats]
               was == SeenQueries[n]
               d == [was EXCEPT !.heard = Search!WithReport(@, m, lat)]
    <2>1. IF DOMAIN c.heard = c.ring THEN HandleForward(n, c, taken) ELSE Become(n, c, taken, {})
        BY <1>3 DEF IndirectResult
    <2>2. GoodQuery(n, c)
        BY <1>1, <1>3, IndirectGood
    <2>3. c = [phase |-> "indirect", src |-> q[n].src, lats |-> q[n].lats, ring |-> q[n].ring,
               heard |-> With(q[n].heard, m, lats), sel |-> q[n].sel]
        BY <1>1, <1>3 DEF GoodQuery, Fields
    <2>4. lat \in {AvgSolution(l) : l \in Possible(m, Targets)}
        BY SolutionFacts
    <2>5. was = SeenQuery(q[n]) /\ was.phase = "indirect" /\ m \in was.ring \ DOMAIN was.heard
        BY <1>3 DEF SeenQuery, SeenQueries
    <2>6. SeenQuery(c) = d /\ (DOMAIN d.heard = d.ring <=> DOMAIN c.heard = c.ring)
        <3> DEFINE w == With(q[n].heard, m, lats)
                   h == [k \in DOMAIN q[n].heard |-> Solutions[q[n].heard[k]]]
        <3>1. w = [k \in DOMAIN q[n].heard \cup {m} |-> IF k = m THEN lats ELSE q[n].heard[k]]
            BY DEF With
        <3>2. [k \in DOMAIN w |-> Solutions[w[k]]] = Search!WithReport(h, m, lat)
            BY <3>1 DEF Search!WithReport
        <3>3. d = [was EXCEPT !.heard = Search!WithReport(h, m, lat)]
            BY <2>5 DEF SeenQuery
        <3> PICK v : v = Search!WithReport(h, m, lat)
            OBVIOUS
        <3>4. [was EXCEPT !.heard = v] =
                 [phase |-> "indirect", src |-> q[n].src, direct |-> DOMAIN q[n].lats,
                  avg |-> Solutions[q[n].lats], ring |-> q[n].ring, heard |-> v, sel |-> q[n].sel]
            BY <1>3, <2>5 DEF SeenQuery
        <3> HIDE DEF w, h, was, d
        <3>5. d = [phase |-> "indirect", src |-> q[n].src, direct |-> DOMAIN q[n].lats,
                   avg |-> Solutions[q[n].lats], ring |-> q[n].ring, heard |-> v, sel |-> q[n].sel]
            BY <3>3, <3>4
        <3>6. SeenQuery(c) = d
            BY <2>3, <3>2, <3>5 DEF SeenQuery, w
        <3>7. d.heard = [k \in DOMAIN c.heard |-> Solutions[c.heard[k]]] /\ d.ring = c.ring
            BY <2>3, <3>2, <3>5 DEF w
        <3> QED BY <3>6, <3>7
    <2> HIDE DEF lat, was, d
    <2>7. CASE DOMAIN c.heard = c.ring
        <3>1. Search!HandleForward(n, SeenQuery(c), {})
            BY <2>1, <2>2, <2>3, <2>7, ForwardSeen
        <3> PICK e : e = SeenQuery(c)
            OBVIOUS
        <3>2. Search!HandleForward(n, e, {}) /\ e = d
            BY <2>6, <3>1
        <3>3. Search!HandleForward(n, d, {})
            BY <3>2, ForwardSame
        <3> QED BY <2>4, <2>5, <2>6, <2>7, <3>3 DEF Search!MemberReported, d, was
    <2>8. CASE DOMAIN c.heard # c.ring
        <3>1. Become(n, c, taken, {}) /\ OneEnd({})
            BY <2>1, <2>8 DEF OneEnd
        <3>2. /\ Search!Send(SeenOf(taken), SeenOf({}))
              /\ SeenQueries' = [SeenQueries EXCEPT ![n] = SeenQuery(c)]
            BY <3>1, SeenBecome
        <3>3. SeenOf(taken) = {} /\ SeenOf({}) = {}
            BY DEF SeenOf
        <3>4. Search!Send({}, {})
            BY <3>2, <3>3
        <3>5. SeenQueries' = [SeenQueries EXCEPT ![n] = d]
            BY <2>6, <3>2
        <3> QED BY <2>4, <2>5, <2>6, <2>8, <3>4, <3>5 DEF Search!MemberReported, SeenQueries, d, was
    <2> QED BY <2>7, <2>8
<1> QED BY <1>2, <1>3


----------------------------------------------------------------------------
(* The steps *)

\* What is under way for the search.
LEMMA SeenInNet ==
    ASSUME NEW p \in net, p.type \notin Asked
    PROVE  Seen(p) \in {Seen(o) : o \in {r \in net : r.type \notin Asked}}
OBVIOUS

\* A packet of the search arrives.
LEMMA ReceiveSearchSeen ==
    ASSUME SteadyLatencies, IInv, NEW p \in net, ReceiveSearch(p)
    PROVE  Search!Next
<1>1. GoodPacket(p) /\ p.to \in Nodes /\ p.from \in Asking /\ p.type \notin Asked /\ UNCHANGED timely
    BY DEF IInv, PacketsGood, GoodPacket, ReceiveSearch
<1>2. Seen(p).type = p.type /\ Seen(p).to = p.to
    BY SeenFields
<1>3. GoodQuery(p.to, q[p.to])
    BY <1>1 DEF IInv, QueriesGood
<1>4. SeenQueries[p.to] = SeenQuery(q[p.to])
    BY <1>1 DEF SeenQueries
<1>5. SeenQueries[Seen(p).to] = Search!Idle <=> q[p.to] = Idle
    <2> PICK n \in Nodes : n = p.to
        BY <1>1
    <2> PICK c : c = q[n]
        OBVIOUS
    <2>1. GoodQuery(n, c)
        BY <1>3
    <2>2. SeenQuery(c) = Search!Idle <=> c = Idle
        BY <2>1, SeenIdle
    <2> QED BY <1>2, <1>4, <2>2
<1> PICK n \in Nodes : n = p.to
    BY <1>1
<1>6. Search!Receive(Seen(p))
    <2>1. CASE p.type = "REQ" /\ q[n] = Idle
        <3>1. NewQuery(n, p, {p})
            BY <2>1 DEF ReceiveSearch
        <3>2. Search!NewQuery(n, Seen(p), {Seen(p)})
            BY <1>1, <3>1, NewQuerySeen DEF IInv
        <3>3. Search!NewQuery(Seen(p).to, Seen(p), {Seen(p)})
            BY <1>2, <3>2
        <3> QED BY <1>1, <1>2, <1>5, <2>1, <3>3 DEF Search!Receive, SeenQueries
    <2>2. CASE ~(p.type = "REQ" /\ q[n] = Idle)
        <3>1. HandleEvent(n, p, {p})
            BY <2>2 DEF ReceiveSearch
        <3>2. Search!HandleEvent(n, Seen(p), {Seen(p)})
            BY <1>1, <3>1, HandleEventSeen DEF IInv
        <3>3. Search!HandleEvent(Seen(p).to, Seen(p), {Seen(p)})
            BY <1>2, <3>2
        <3> QED BY <1>1, <1>2, <1>5, <2>2, <3>3 DEF Search!Receive, SeenQueries
    <2> QED BY <2>1, <2>2
<1> QED BY <1>1, <1>6, SeenInNet DEF Search!Next

\* The report of a HandleReq is a packet of the measurements.
LEMMA ReportAsked == \A s : ReturnPacket(s).type \in Asked
BY DEF ReturnPacket, Packet, Asked

\* A request to measure arrives.
LEMMA ReceiveMeasureSeen ==
    ASSUME NEW p \in net, NEW taken \in {{}, {p}}, ReceiveMeasure(p, taken)
    PROVE  Unseen
<1>1. p.type \in Asked /\ UNCHANGED q /\ \A o \in taken : o.type \in Asked
    BY DEF ReceiveMeasure, Asked
<1>2. Send(taken, {}) \/ \E s : Send(taken, {ReturnPacket(s)})
    BY DEF ReceiveMeasure, ServeNew
<1>3. CASE Send(taken, {})
    BY <1>1, <1>3, SendUnseen
<1>4. ASSUME NEW s, Send(taken, {ReturnPacket(s)}) PROVE Unseen
    <2> PICK out : out = {ReturnPacket(s)}
        OBVIOUS
    <2>1. \A o \in taken \cup out : o.type \in Asked
        BY <1>1, ReportAsked
    <2> QED BY <1>1, <1>4, <2>1, SendUnseen
<1> QED BY <1>2, <1>3, <1>4

\* A report of a member arrives.
LEMMA ReceivePingSeen ==
    ASSUME SteadyLatencies, IInv, NEW p \in net, NEW taken \in {{}, {p}}, ReceivePing(p, taken)
    PROVE  Search!Next \/ Unseen
<1>1. GoodPacket(p) /\ p.type = "RET_PING" /\ UNCHANGED timely
    BY DEF IInv, PacketsGood, ReceivePing
<1>2. taken \in SUBSET net /\ \A o \in taken : o.type \in Asked
    BY <1>1 DEF Asked
<1>3. p.to \in Nodes /\ p.from \in Nodes
    BY <1>1 DEF GoodPacket, Asked
<1>4. CASE Ask(p.to, p.from, p.id) \in asks /\ DOMAIN p.lats = Targets
    <2>1. p.lats \in Possible(p.from, Targets)
        BY <1>1, <1>3, <1>4, PartialFacts DEF GoodPacket
    <2>2. IndirectResult(p.to, p.from, p.lats, taken)
        BY <1>4 DEF ReceivePing
    <2>3. Search!MemberReported(p.to, p.from) \/ Unseen
        BY <1>1, <1>2, <1>3, <2>1, <2>2, IndirectResultSeen DEF IInv
    <2> QED BY <1>3, <2>3 DEF Search!Next
<1>5. CASE ~(Ask(p.to, p.from, p.id) \in asks /\ DOMAIN p.lats = Targets)
    <2>1. UNCHANGED q /\ Send(taken, {})
        BY <1>5 DEF ReceivePing
    <2> QED BY <1>2, <2>1, SendUnseen
<1> QED BY <1>4, <1>5

\* A probe has measured, for the search or for another node.
LEMMA ProbeDoneSeen ==
    ASSUME SteadyLatencies, IInv, NEW pr \in probes, ProbeDone(pr)
    PROVE  Search!Next \/ Unseen
<1>1. pr.at \in Nodes /\ pr.target \in Targets /\ UNCHANGED timely
    BY DEF IInv, ProbesGood, ProbeDone
<1>2. PICK us \in Measures[pr.at][pr.target] :
          IF pr.tells = Search0
          THEN DirectResult(pr.at, pr.target, us, {}) /\ UNCHANGED serves
          ELSE ServeResult(pr, us) /\ UNCHANGED <<q, asks>>
    BY DEF ProbeDone
<1>3. CASE pr.tells = Search0
    <2>1. DirectResult(pr.at, pr.target, us, {})
        BY <1>2, <1>3
    <2>2. Search!TargetMeasured(pr.at, pr.target) \/ Unseen
        BY <1>1, <2>1, DirectResultSeen DEF IInv
    <2> QED BY <1>1, <2>2 DEF Search!Next
<1>4. CASE pr.tells # Search0
    <2>1. ServeResult(pr, us) /\ UNCHANGED q
        BY <1>2, <1>4
    <2>2. PICK out : Send({}, out) /\ \A o \in out : \E s : o = ReturnPacket(s)
        <3> PICK mine : mine = {s \in serves : /\ s.at = pr.at /\ s.from = pr.tells.from
                                               /\ s.id = pr.tells.id /\ pr.target \notin DOMAIN s.lats}
            OBVIOUS
        <3> DEFINE done == {s \in {[s EXCEPT !.lats = With(@, pr.target, us)] : s \in mine} :
                               DOMAIN s.lats = Targets}
        <3>1. Send({}, {ReturnPacket(s) : s \in done})
            BY <2>1 DEF ServeResult
        <3> QED BY <3>1
    <2>3. \A o \in {} \cup out : o.type \in Asked
        BY <2>2, ReportAsked
    <2> QED BY <2>1, <2>2, <2>3, SendUnseen
<1> QED BY <1>3, <1>4

\* The timer of the search goes off.
LEMMA TimeoutSeen ==
    ASSUME SteadyLatencies, IInv, NEW n \in Nodes, Timeout(n)
    PROVE  Search!Next
<1> DEFINE d == SeenQueries[n]
<1> PICK c : c = q[n]
    OBVIOUS
<1>1. GoodQuery(n, c) /\ c # Idle /\ ~timely /\ UNCHANGED timely
    BY DEF IInv, QueriesGood, Timeout
<1>2. SeenQuery(c) # Search!Idle
    BY <1>1, SeenIdle
<1>3. d = SeenQuery(c) /\ SeenQuery(c).phase = c.phase /\ SeenQuery(c).src = c.src
    BY DEF SeenQuery, SeenQueries
<1> HIDE DEF d
<1>4. CASE c.phase = "indirect"
    <2>1. HandleForward(n, c, {})
        BY <1>4 DEF Timeout
    <2>2. Search!HandleForward(n, SeenQuery(c), {})
        BY <1>1, <1>4, <2>1, ForwardSeen DEF IInv
    <2> PICK e : e = SeenQuery(c)
        OBVIOUS
    <2>3. Search!HandleForward(n, e, {}) /\ e = d
        BY <1>3, <2>2
    <2>4. Search!HandleForward(n, d, {})
        BY <2>3, ForwardSame
    <2>5. Search!Timeout(n)
        BY <1>1, <1>2, <1>3, <1>4, <2>4 DEF Search!Timeout, d
    <2> QED BY <2>5 DEF Search!Next
<1>5. CASE c.phase # "indirect"
    <2> PICK out : out = {Plain("RET_ERROR", n, c.src, 0)}
        OBVIOUS
    <2>1. Finish(n, {}, out)
        BY <1>5 DEF Timeout
    <2>2. GoodPacket(Plain("RET_ERROR", n, c.src, 0))
        BY <1>1, NewPackets DEF GoodQuery
    <2>3. (\A o \in out : GoodPacket(o)) /\ OneEnd(out)
        BY <2>2 DEF OneEnd
    <2>4. Search!Finish(n, SeenOf({}), SeenOf(out))
        BY <2>1, <2>3, SeenFinish DEF IInv
    <2> PICK sout : sout = {Search!Packet("RET_ERROR", n, c.src, Nobody)}
        OBVIOUS
    <2>5. SeenOf(out) = sout /\ SeenOf({}) = {}
        BY SeenPackets
    <2>6. Search!Finish(n, {}, sout)
        BY <2>4, <2>5
    <2>7. sout = {Search!Packet("RET_ERROR", n, d.src, Nobody)}
        BY <1>3 DEF Search!Packet
    <2>8. Search!Finish(n, {}, {Search!Packet("RET_ERROR", n, d.src, Nobody)})
        BY <2>6, <2>7 DEF Search!Finish, Search!Send
    <2>9. Search!Timeout(n)
        BY <1>1, <1>2, <1>3, <1>5, <2>8 DEF Search!Timeout, d
    <2> QED BY <2>9 DEF Search!Next
<1> QED BY <1>4, <1>5

\* A search begins as one.
LEMMA InitSeen == Init => Search!Init
<1> SUFFICES ASSUME Init PROVE Search!Init
    OBVIOUS
<1>1. [n \in Nodes |-> SeenQuery(q[n])] = [n \in Nodes |-> Search!Idle]
    BY SeenIdle DEF Init
<1>2. PICK first \in Entries : net = {Plain("REQ", Client, first, 0)}
    BY DEF Init
<1>3. SeenOf(net) = {Search!Packet("REQ", Client, first, Nobody)}
    BY <1>2, SeenPackets
<1>4. [i \in DOMAIN told |-> Seen(told[i])] = <<>>
    <2>1. told = <<>> /\ DOMAIN <<>> = {}
        BY DEF Init
    <2> QED BY <2>1
<1>5. timely \in BOOLEAN
    BY DEF Init
<1> QED BY <1>1, <1>3, <1>4, <1>5 DEF Search!Init, SeenOf

\* Every step is one of the search or is not seen.
LEMMA NextSeen == SteadyLatencies /\ IInv /\ [Next]_vars => [Search!Next]_(Search!vars)
<1> SUFFICES ASSUME SteadyLatencies, IInv, [Next]_vars PROVE Search!Next \/ UNCHANGED Search!vars
    OBVIOUS
<1>1. ASSUME Unseen, UNCHANGED timely PROVE UNCHANGED Search!vars
    BY <1>1 DEF Unseen, Search!vars, SeenQueries, SeenOf
<1>2. CASE UNCHANGED vars
    <2>1. Unseen /\ UNCHANGED timely
        BY <1>2 DEF vars, Unseen, SeenQueries, SeenOf
    <2> QED BY <1>1, <2>1
<1>3. ASSUME NEW p \in net, Receive(p) \/ Repeat(p)
      PROVE  Search!Next \/ UNCHANGED Search!vars
    <2>1. CASE ReceiveSearch(p)
        BY <2>1, ReceiveSearchSeen
    <2>2. ASSUME NEW taken \in {{}, {p}}, ReceiveMeasure(p, taken) \/ ReceivePing(p, taken)
          PROVE  Search!Next \/ UNCHANGED Search!vars
        <3>1. UNCHANGED timely
            BY <2>2 DEF ReceiveMeasure, ReceivePing
        <3> QED BY <1>1, <2>2, <3>1, ReceiveMeasureSeen, ReceivePingSeen
    <2>3. \/ ReceiveSearch(p)
          \/ \E taken \in {{}, {p}} : ReceiveMeasure(p, taken) \/ ReceivePing(p, taken)
        BY <1>3 DEF Receive, Repeat
    <2> QED BY <2>1, <2>2, <2>3
<1>4. ASSUME NEW n \in Nodes, Timeout(n) PROVE Search!Next
    BY <1>4, TimeoutSeen
<1>5. ASSUME NEW pr \in probes, ProbeDone(pr) PROVE Search!Next \/ UNCHANGED Search!vars
    <2>1. UNCHANGED timely
        BY <1>5 DEF ProbeDone
    <2> QED BY <1>1, <1>5, <2>1, ProbeDoneSeen
<1>6. ASSUME NEW s \in serves, ServeTimeout(s) PROVE UNCHANGED Search!vars
    <2> PICK out : out = {ReturnPacket(s)}
        OBVIOUS
    <2>1. Send({}, out) /\ UNCHANGED q /\ UNCHANGED timely /\ \A o \in {} \cup out : o.type \in Asked
        BY <1>6, ReportAsked DEF ServeTimeout
    <2> QED BY <1>1, <2>1, SendUnseen
<1>7. ASSUME NEW a \in asks, AskTimeout(a) PROVE UNCHANGED Search!vars
    <2>1. Unseen /\ UNCHANGED timely
        BY <1>7 DEF AskTimeout, Unseen, SeenQueries, SeenOf
    <2> QED BY <1>1, <2>1
<1> QED BY <1>2, <1>3, <1>4, <1>5, <1>6, <1>7 DEF Next

(* Where every node always measures the same, the multi-constraint search, with *)
(* its four kinds of query, their timers and their partial, late, repeated and  *)
(* stray reports, does nothing that the closest-node search does not do.        *)
THEOREM MeasuringImplementsSearch ==
    ASSUME SteadyLatencies
    PROVE  Spec => ImplementsSearch
<1>1. IInv /\ [Next]_vars => [Search!Next]_(Search!vars)
    BY NextSeen
<1> QED BY <1>1, InitSeen, SearchInvariant, PTL DEF Spec, ImplementsSearch, Search!Spec
=============================================================================
