------------------------- MODULE ClosestSearchProofs -------------------------
(***************************************************************************)
(* Proofs about ClosestSearch, for any nodes, rings, latencies, targets    *)
(* and beta, whatever is late, lost or times out: nobody waits who is not  *)
(* owed an answer, the client gets at most one, and none names a node      *)
(* farther than the one that gives it.                                     *)
(***************************************************************************)
EXTENDS ClosestSearch, TLAPS

Busy == {"direct", "indirect"}
Asking == Nodes \cup {Client}
Reports == UNION {[S -> Nat] : S \in SUBSET Nodes}

QueryRec == [phase : {"none", "fin"} \cup Busy, src : Parties, direct : SUBSET Targets,
             avg : Nat, ring : SUBSET Nodes, heard : Reports, sel : Nodes \cup {Nobody}]
PacketRec == [type : {"REQ", "RET_INFO"} \cup Finals, from : Asking, to : Asking,
              who : Nodes \cup {Nobody}]

\* A query that node n may have: its averages are some that were measured, and the
\* member it turned to is no farther than it is.
GoodQuery(n, c) ==
    /\ c \in QueryRec
    /\ c.phase = "none" <=> c = Idle
    /\ c.phase # "none" => c.src \in Asking
    /\ n \notin c.ring /\ DOMAIN c.heard \subseteq c.ring
    /\ c.phase = "direct" => DOMAIN c.heard = {}
    /\ c.phase \in {"indirect", "fin"} => c.avg \in Lat[n]
    /\ \A m \in DOMAIN c.heard : c.heard[m] \in Lat[m]
    /\ c.phase = "fin" => c.sel \in DOMAIN c.heard /\ c.heard[c.sel] <= c.avg

\* Only the request that begins a search comes from the client.
GoodPacket(p) == p \in PacketRec /\ (p.from = Client => p.type = "REQ")

Typed ==
    /\ q \in [Nodes -> QueryRec] /\ \A n \in Nodes : GoodQuery(n, q[n])
    /\ \A p \in net : GoodPacket(p) /\ p.to \in Nodes
    /\ told \in Seq(PacketRec) /\ \A i \in DOMAIN told : told[i].type \in Finals
    /\ timely \in BOOLEAN

\* Only one works on a search, though many may wait: the request is under way, or one
\* node measures.
OneWorks ==
    /\ \A p, r \in net : p.type = "REQ" /\ r.type = "REQ" => p = r
    /\ \A n, m \in Nodes : q[n].phase \in Busy /\ q[m].phase \in Busy => n = m
    /\ \A p \in net, n \in Nodes : ~(p.type = "REQ" /\ q[n].phase \in Busy)

\* The client's request is under way, or one node owes it the answer, or it has it.
OneAnswers ==
    /\ \A n, m \in Nodes : q[n].src = Client /\ q[m].src = Client => n = m
    /\ \A p \in net, n \in Nodes : ~(p.from = Client /\ q[n].src = Client)
    /\ told # <<>> => /\ \A p \in net : p.from # Client
                      /\ \A n \in Nodes : q[n].src # Client
    /\ Len(told) <= 1

\* The inductive invariant.
IInv == Typed /\ OneWorks /\ OneAnswers /\ WaitsAreOwed

----------------------------------------------------------------------------
(* What a step may do: the query of one node becomes c, packets are taken from *)
(* the network and others are sent.                                            *)

Step(n, c, taken, out) == q' = [q EXCEPT ![n] = c] /\ Send(taken, out)

\* A request is accepted, and perhaps answered at once.
Begins(n, c, taken, out) ==
    \E p \in net :
        /\ p.type = "REQ" /\ p.to = n /\ q[n] = Idle /\ taken = {p}
        /\ \/ c.phase \in Busy /\ c.src = p.from /\ out = {Info(n, p.from)}
           \/ c = Idle /\ out = {Info(n, p.from), Itself(n, p.from)}

\* A result of a probe is noted.
Works(n, c, taken, out) ==
    /\ q[n].phase \in Busy /\ c.phase \in Busy /\ c.src = q[n].src
    /\ taken = {} /\ out = {}

\* The request is handed on.
Forwards(n, c, taken, out) ==
    /\ q[n].phase \in Busy /\ c.phase = "fin" /\ c.src = q[n].src
    /\ taken = {} /\ out = {Packet("REQ", n, c.sel, Nobody)}

\* An answer of the node itself: an error, itself, or a member that is nearer.
Own(n, p) ==
    \/ p.type = "RET_ERROR" /\ p.who = Nobody
    \/ p.type = "RET_RESPONSE" /\ p.who = Nobody
    \/ p.type = "RET_RESPONSE" /\ p.who \in Nodes /\ \E a \in Lat[n], b \in Lat[p.who] : b < a
Ends(n, c, taken, out) ==
    /\ q[n] # Idle /\ c = Idle /\ taken = {}
    /\ \E type \in Finals, who \in Nodes \cup {Nobody} :
          LET p == Packet(type, n, q[n].src, who) IN out = {p} /\ Own(n, p)

\* What the chosen member sent is handed back.
Returns(n, c, taken, out) ==
    \E p \in net :
        /\ q[n].phase = "fin" /\ p.type # "REQ" /\ p.to = n /\ p.from = q[n].sel
        /\ taken = {p} /\ c = IF p.type \in Finals THEN Idle ELSE q[n]
        /\ out = {Packet(p.type, n, q[n].src, IF p.type = "RET_ERROR" THEN Nobody ELSE Named(p))}

\* The request has come back.
Loops(n, c, taken, out) ==
    \E p \in net :
        /\ q[n].phase = "fin" /\ p.type = "REQ" /\ p.to = n
        /\ taken = {p} /\ c = q[n] /\ out = {Itself(n, p.from)}

\* Nobody waits for what arrives.
Drops(n, c, taken, out) ==
    \E p \in net :
        /\ p.to = n /\ taken = {p} /\ c = q[n] /\ out = {}
        /\ p.type = "REQ" => q[n].phase \in Busy
        /\ ~(q[n].phase = "fin" /\ p.from = q[n].sel)

Kinds(n, c, taken, out) ==
    \/ Begins(n, c, taken, out) \/ Works(n, c, taken, out) \/ Forwards(n, c, taken, out)
    \/ Ends(n, c, taken, out) \/ Returns(n, c, taken, out) \/ Loops(n, c, taken, out)
    \/ Drops(n, c, taken, out)

\* A step of node n that leaves it a query it may have.
Effect(n) ==
    \E c \in QueryRec, taken \in SUBSET net, out \in SUBSET PacketRec :
        /\ Step(n, c, taken, out) /\ Kinds(n, c, taken, out) /\ GoodQuery(n, c)

----------------------------------------------------------------------------
(* Lemmas on the operators *)

\* beta is less than one, so a member within the threshold is no farther than the node.
LEMMA ThresholdBelow ==
    ASSUME NEW avg \in Nat
    PROVE  Threshold(avg) \in Nat /\ Threshold(avg) <= avg
<1>1. Num \in Nat /\ Den \in Nat /\ Num < Den
    BY SearchAssumption DEF Num, Den, LegalBeta
<1> DEFINE d == 2 * Den
           x == 2 * Num * avg + Den
           t == x \div d
<1>2. d \in Nat /\ d > 0 /\ x \in Nat
    BY <1>1
<1>3. x < d * (avg + 1)
    <2>1. Num * avg <= Den * avg
        BY <1>1
    <2>2. 2 * Num * avg = 2 * (Num * avg) /\ d * (avg + 1) = 2 * (Den * avg) + 2 * Den
        BY <1>1
    <2>3. Num * avg \in Nat /\ Den * avg \in Nat
        BY <1>1
    <2> QED BY <1>1, <2>1, <2>2, <2>3
<1>4. Threshold(avg) = t
    BY DEF Threshold
<1> HIDE DEF d, x
<1>5. t \in Nat /\ d * t <= x
    BY <1>2
<1> HIDE DEF t
<1>6. ~(t >= avg + 1)
    <2> SUFFICES ASSUME t >= avg + 1 PROVE FALSE
        OBVIOUS
    <2>1. d * t >= d * (avg + 1)
        BY <1>2, <1>5
    <2>2. d * t \in Nat /\ d * (avg + 1) \in Nat
        BY <1>2, <1>5
    <2> QED BY <1>2, <1>3, <1>5, <2>1, <2>2
<1> QED BY <1>4, <1>5, <1>6

\* A query that has not been there, or is there no more.
LEMMA IdleFacts ==
    /\ Idle \in QueryRec /\ \A n \in Nodes : GoodQuery(n, Idle)
    /\ Idle.phase = "none" /\ Idle.src = Nobody /\ Nobody # Client /\ Nobody \notin Nodes
    /\ Client \notin Nodes
<1>1. Nobody # Client /\ Nobody \notin Nodes /\ Client \notin Nodes
    BY SearchAssumption
<1>2. <<>> \in Reports /\ DOMAIN <<>> = {}
    <2>1. <<>> \in [{} -> Nat] /\ DOMAIN <<>> = {}
        OBVIOUS
    <2> QED BY <2>1 DEF Reports
<1>3. Idle \in QueryRec
    BY <1>2 DEF Idle, QueryRec, Parties
<1>4. Idle.phase = "none" /\ Idle.src = Nobody /\ Idle.heard = <<>> /\ Idle.ring = {}
    BY DEF Idle
<1>5. \A n \in Nodes : GoodQuery(n, Idle)
    BY <1>2, <1>3, <1>4 DEF GoodQuery
<1> QED BY <1>1, <1>3, <1>4, <1>5

\* The fields of a packet.
LEMMA PacketFacts ==
    ASSUME NEW type, NEW from, NEW to, NEW who
    PROVE  LET p == Packet(type, from, to, who)
           IN p.type = type /\ p.from = from /\ p.to = to /\ p.who = who
BY DEF Packet

\* A packet between those who take part.
LEMMA PacketTyped ==
    ASSUME NEW type \in {"REQ", "RET_INFO"} \cup Finals, NEW from \in Asking, NEW to \in Asking,
           NEW who \in Nodes \cup {Nobody}
    PROVE  Packet(type, from, to, who) \in PacketRec
BY DEF Packet, PacketRec

----------------------------------------------------------------------------
(* Every action is a step of one of these kinds *)

\* An effect, from its parts.
LEMMA EffectIntro ==
    ASSUME NEW n \in Nodes, NEW c, NEW taken, NEW out, taken \subseteq net,
           out \subseteq PacketRec, GoodQuery(n, c), Step(n, c, taken, out),
           Kinds(n, c, taken, out)
    PROVE  Effect(n)
<1>1. c \in QueryRec
    BY DEF GoodQuery
<1> QED BY <1>1 DEF Effect

\* A step that leaves the queries as they are.
LEMMA SameQuery ==
    ASSUME Typed, NEW n \in Nodes, UNCHANGED q, NEW taken, NEW out, Send(taken, out)
    PROVE  Step(n, q[n], taken, out) /\ GoodQuery(n, q[n])
<1>1. q = [q EXCEPT ![n] = q[n]]
    BY DEF Typed
<1> QED BY <1>1 DEF Step, Typed

\* handleForward, with what is known when it is called.
LEMMA HandleForwardEffect ==
    ASSUME Typed, NEW n \in Nodes, NEW c, GoodQuery(n, c), q[n].phase = "indirect",
           c.phase = "indirect", c.src = q[n].src, HandleForward(n, c, {})
    PROVE  Effect(n)
<1>1. c.src \in Asking /\ q[n] # Idle /\ c \in QueryRec /\ c.avg \in Nat
    BY IdleFacts DEF GoodQuery, QueryRec
<1>2. ASSUME NEW out, Finish(n, {}, out), NEW who \in Nodes \cup {Nobody},
             out = {Packet("RET_RESPONSE", n, c.src, who)},
             who \in Nodes => \E a \in Lat[n], b \in Lat[who] : b < a
      PROVE  Effect(n)
    <2> DEFINE p == Packet("RET_RESPONSE", n, c.src, who)
    <2>1. p \in PacketRec
        BY <1>1, PacketTyped DEF Finals, Asking
    <2>2. p.type = "RET_RESPONSE" /\ p.who = who
        BY PacketFacts
    <2>3. Own(n, p)
        BY <1>2, <2>2 DEF Own
    <2>4. Step(n, Idle, {}, out)
        BY <1>2 DEF Finish, Step
    <2> HIDE DEF p
    <2>5. Ends(n, Idle, {}, out)
        BY <1>1, <1>2, <2>3 DEF Ends, Finals, p
    <2>6. out \subseteq PacketRec
        BY <1>2, <2>1 DEF p
    <2> QED BY <2>4, <2>5, <2>6, IdleFacts, EffectIntro DEF Kinds
<1>3. CASE Closest(c.heard) = {} /\ Finish(n, {}, {} \cup {Itself(n, c.src)})
    <2>1. {} \cup {Itself(n, c.src)} = {Packet("RET_RESPONSE", n, c.src, Nobody)}
        BY DEF Itself
    <2> QED BY <1>2, <1>3, <2>1, IdleFacts
<1>4. ASSUME NEW m \in Closest(c.heard),
             IF c.heard[m] = 0 \/ c.heard[m] > Threshold(c.avg)
             THEN Finish(n, {}, {} \cup
                     {IF c.heard[m] < c.avg
                      THEN Packet("RET_RESPONSE", n, c.src, m) ELSE Itself(n, c.src)})
             ELSE /\ q' = [q EXCEPT ![n] = [c EXCEPT !.phase = "fin", !.sel = m]]
                  /\ Send({}, {} \cup {Packet("REQ", n, m, Nobody)})
      PROVE  Effect(n)
    <2>1. m \in DOMAIN c.heard
        BY DEF Closest
    <2>2. m \in Nodes /\ c.heard[m] \in Lat[m] /\ c.avg \in Lat[n] /\ c.heard[m] \in Nat
        <3>1. c.ring \in SUBSET Nodes
            BY <1>1 DEF QueryRec
        <3>2. m \in Nodes
            BY <2>1, <3>1 DEF GoodQuery
        <3>3. c.heard[m] \in Lat[m] /\ c.avg \in Lat[n]
            BY <2>1 DEF GoodQuery
        <3> QED BY <3>2, <3>3, SearchAssumption
    <2>3. CASE c.heard[m] = 0 \/ c.heard[m] > Threshold(c.avg)
        <3>1. CASE c.heard[m] < c.avg
            <4>1. Finish(n, {}, {} \cup {Packet("RET_RESPONSE", n, c.src, m)})
                BY <1>4, <2>3, <3>1
            <4>2. \E a \in Lat[n], b \in Lat[m] : b < a
                BY <2>2, <3>1
            <4>3. {} \cup {Packet("RET_RESPONSE", n, c.src, m)} = {Packet("RET_RESPONSE", n, c.src, m)}
                OBVIOUS
            <4> QED BY <1>2, <2>2, <4>1, <4>2, <4>3
        <3>2. CASE ~(c.heard[m] < c.avg)
            <4>1. Finish(n, {}, {} \cup {Itself(n, c.src)})
                BY <1>4, <2>3, <3>2
            <4>2. {} \cup {Itself(n, c.src)} = {Packet("RET_RESPONSE", n, c.src, Nobody)}
                BY DEF Itself
            <4> QED BY <1>2, <4>1, <4>2, IdleFacts
        <3> QED BY <3>1, <3>2
    <2>4. CASE ~(c.heard[m] = 0 \/ c.heard[m] > Threshold(c.avg))
        <3> DEFINE d == [c EXCEPT !.phase = "fin", !.sel = m]
                   p == Packet("REQ", n, m, Nobody)
        <3>1. q' = [q EXCEPT ![n] = d] /\ Send({}, {p})
            BY <1>4, <2>4
        <3>2. /\ d \in QueryRec
              /\ d.phase = "fin" /\ d.sel = m /\ d.src = c.src /\ d.avg = c.avg
              /\ d.ring = c.ring /\ d.heard = c.heard
            BY <1>1, <2>2 DEF QueryRec
        <3>3. c.heard[m] <= c.avg
            BY <1>1, <2>2, <2>4, ThresholdBelow
        <3>4. d.phase # "none" /\ d # Idle
            BY <3>2, IdleFacts
        <3> HIDE DEF d
        <3>5. GoodQuery(n, d)
            BY <1>1, <2>1, <2>2, <3>2, <3>3, <3>4 DEF GoodQuery
        <3>6. p \in PacketRec
            BY <2>2, PacketTyped DEF Asking
        <3>7. Forwards(n, d, {}, {p})
            BY <3>2 DEF Forwards, Busy
        <3>8. Step(n, d, {}, {p})
            BY <3>1 DEF Step
        <3> HIDE DEF p
        <3> QED BY <3>5, <3>6, <3>7, <3>8, EffectIntro DEF Kinds
    <2> QED BY <2>3, <2>4
<1> QED BY <1>3, <1>4 DEF HandleForward

\* sendReqProbes, of a query that was there or of one that begins.
LEMMA SendReqProbesGood ==
    ASSUME NEW n \in Nodes, NEW c, GoodQuery(n, c), c.phase = "direct",
           NEW taken, NEW out, SendReqProbes(n, c, taken, out)
    PROVE  \/ Finish(n, taken, out \cup {Itself(n, c.src)})
           \/ \E d : /\ GoodQuery(n, d) /\ d.phase = "indirect" /\ d.src = c.src
                     /\ Step(n, d, taken, out)
<1>1. PICK avg \in Lat[n], ring \in SUBSET Knows[n] :
         IF avg = 0 \/ ring = {}
         THEN Finish(n, taken, out \cup {Itself(n, c.src)})
         ELSE /\ q' = [q EXCEPT ![n] = [c EXCEPT !.phase = "indirect", !.avg = avg,
                                                 !.ring = ring]]
              /\ Send(taken, out)
    BY DEF SendReqProbes
<1>2. CASE ~(avg = 0 \/ ring = {})
    <2> DEFINE d == [c EXCEPT !.phase = "indirect", !.avg = avg, !.ring = ring]
    <2>1. avg \in Nat /\ ring \in SUBSET Nodes /\ n \notin ring
        BY SearchAssumption
    <2>2. c \in QueryRec
        BY DEF GoodQuery
    <2>3. /\ d \in QueryRec
          /\ d.phase = "indirect" /\ d.src = c.src /\ d.avg = avg /\ d.ring = ring
          /\ d.heard = c.heard
        BY <2>1, <2>2 DEF QueryRec, Busy
    <2>4. d # Idle
        BY <2>3, IdleFacts
    <2>5. Step(n, d, taken, out)
        BY <1>1, <1>2 DEF Step
    <2> HIDE DEF d
    <2>6. GoodQuery(n, d)
        BY <2>1, <2>3, <2>4 DEF GoodQuery
    <2> QED BY <2>3, <2>5, <2>6
<1> QED BY <1>1, <1>2

\* handleLatency of a target.
LEMMA TargetMeasuredEffect ==
    ASSUME Typed, NEW n \in Nodes, NEW t \in Targets, TargetMeasured(n, t)
    PROVE  Effect(n)
<1> DEFINE c == [q[n] EXCEPT !.direct = @ \cup {t}]
<1>1. GoodQuery(n, q[n]) /\ q[n] \in QueryRec /\ q[n].phase = "direct"
    BY DEF Typed, TargetMeasured
<1>2. /\ c \in QueryRec
      /\ c.phase = "direct" /\ c.src = q[n].src /\ c.ring = q[n].ring /\ c.heard = q[n].heard
    BY <1>1 DEF QueryRec
<1>3. c # Idle /\ q[n] # Idle
    BY <1>1, <1>2, IdleFacts
<1>4. IF c.direct = Targets THEN SendReqProbes(n, c, {}, {})
      ELSE q' = [q EXCEPT ![n] = c] /\ Send({}, {})
    BY DEF TargetMeasured
<1> HIDE DEF c
<1>5. GoodQuery(n, c)
    BY <1>1, <1>2, <1>3 DEF GoodQuery
<1>6. CASE q' = [q EXCEPT ![n] = c] /\ Send({}, {})
    <2>1. Works(n, c, {}, {}) /\ Step(n, c, {}, {})
        BY <1>1, <1>2, <1>6 DEF Works, Step, Busy
    <2> QED BY <1>5, <2>1, EffectIntro DEF Kinds
<1>7. CASE SendReqProbes(n, c, {}, {})
    <2>1. CASE Finish(n, {}, {} \cup {Itself(n, c.src)})
        <3> DEFINE p == Packet("RET_RESPONSE", n, q[n].src, Nobody)
        <3>1. {} \cup {Itself(n, c.src)} = {p}
            BY <1>2 DEF Itself
        <3>2. q[n].src \in Asking
            BY <1>1 DEF GoodQuery
        <3>3. p \in PacketRec
            BY <3>2, PacketTyped, IdleFacts DEF Finals, Asking
        <3>4. Own(n, p)
            BY PacketFacts DEF Own
        <3>5. Step(n, Idle, {}, {p})
            BY <2>1, <3>1 DEF Finish, Step
        <3> HIDE DEF p
        <3>6. Ends(n, Idle, {}, {p})
            BY <1>3, <3>4 DEF Ends, Finals, p
        <3> QED BY <3>3, <3>5, <3>6, IdleFacts, EffectIntro DEF Kinds
    <2>2. ASSUME NEW d, GoodQuery(n, d), d.phase = "indirect", d.src = c.src, Step(n, d, {}, {})
          PROVE  Effect(n)
        <3>1. Works(n, d, {}, {})
            BY <1>1, <1>2, <2>2 DEF Works, Busy
        <3> QED BY <2>2, <3>1, EffectIntro DEF Kinds
    <2> QED BY <1>2, <1>5, <1>7, <2>1, <2>2, SendReqProbesGood
<1> QED BY <1>4, <1>6, <1>7

\* handleLatency of a ring member.
LEMMA MemberReportedEffect ==
    ASSUME Typed, NEW n \in Nodes, NEW m \in Nodes, MemberReported(n, m)
    PROVE  Effect(n)
<1>1. GoodQuery(n, q[n]) /\ q[n] \in QueryRec /\ q[n].phase = "indirect"
      /\ m \in q[n].ring \ DOMAIN q[n].heard
    BY DEF Typed, MemberReported
<1>2. PICK lat \in Lat[m] :
         LET c == [q[n] EXCEPT !.heard = WithReport(@, m, lat)]
         IN IF DOMAIN c.heard = c.ring THEN HandleForward(n, c, {})
            ELSE q' = [q EXCEPT ![n] = c] /\ Send({}, {})
    BY DEF MemberReported
<1> DEFINE heard == WithReport(q[n].heard, m, lat)
           c == [q[n] EXCEPT !.heard = heard]
<1>3. /\ DOMAIN heard = DOMAIN q[n].heard \cup {m} /\ heard[m] = lat
      /\ \A k \in DOMAIN q[n].heard : k # m => heard[k] = q[n].heard[k]
      /\ heard = [k \in DOMAIN q[n].heard \cup {m} |-> heard[k]]
    BY DEF WithReport
<1>4. lat \in Nat /\ \A k \in DOMAIN q[n].heard : q[n].heard[k] \in Nat
    BY <1>1, SearchAssumption DEF QueryRec, Reports
<1>5. DOMAIN heard \in SUBSET Nodes
    BY <1>1, <1>3 DEF GoodQuery, QueryRec
<1>6. heard \in Reports
    <2>1. \A k \in DOMAIN heard : heard[k] \in Nat
        BY <1>3, <1>4
    <2>2. heard \in [DOMAIN heard -> Nat]
        BY <1>3, <2>1
    <2> QED BY <1>5, <2>2 DEF Reports
<1>7. \A k \in DOMAIN heard : heard[k] \in Lat[k]
    BY <1>1, <1>3 DEF GoodQuery
<1>8. IF DOMAIN c.heard = c.ring THEN HandleForward(n, c, {})
      ELSE q' = [q EXCEPT ![n] = c] /\ Send({}, {})
    BY <1>2
<1> HIDE DEF heard
<1>9. /\ c \in QueryRec
      /\ c.phase = "indirect" /\ c.src = q[n].src /\ c.ring = q[n].ring /\ c.heard = heard
      /\ c.avg = q[n].avg
    BY <1>1, <1>6 DEF QueryRec
<1> HIDE DEF c
<1>10. c # Idle
    BY <1>9, IdleFacts
<1>11. GoodQuery(n, c)
    BY <1>1, <1>3, <1>7, <1>9, <1>10 DEF GoodQuery
<1>12. CASE q' = [q EXCEPT ![n] = c] /\ Send({}, {})
    <2>1. Works(n, c, {}, {}) /\ Step(n, c, {}, {})
        BY <1>1, <1>9, <1>12 DEF Works, Step, Busy
    <2> QED BY <1>11, <2>1, EffectIntro DEF Kinds
<1>13. CASE HandleForward(n, c, {})
    BY <1>1, <1>9, <1>11, <1>13, HandleForwardEffect
<1> QED BY <1>8, <1>12, <1>13

\* handleTimeout, in every phase.
LEMMA TimeoutEffect ==
    ASSUME Typed, NEW n \in Nodes, Timeout(n)
    PROVE  Effect(n)
<1>1. GoodQuery(n, q[n]) /\ q[n] # Idle
    BY DEF Typed, Timeout
<1>2. CASE q[n].phase = "indirect"
    BY <1>1, <1>2, HandleForwardEffect DEF Timeout
<1>3. CASE q[n].phase # "indirect"
    <2> DEFINE p == Packet("RET_ERROR", n, q[n].src, Nobody)
    <2>1. p \in PacketRec
        BY <1>1, PacketTyped, IdleFacts DEF Finals, Asking, GoodQuery
    <2>2. Own(n, p)
        BY PacketFacts DEF Own
    <2>3. Step(n, Idle, {}, {p})
        BY <1>3 DEF Timeout, Finish, Step
    <2> HIDE DEF p
    <2>4. Ends(n, Idle, {}, {p})
        BY <1>1, <2>2 DEF Ends, Finals, p
    <2> QED BY <2>1, <2>3, <2>4, IdleFacts, EffectIntro DEF Kinds
<1> QED BY <1>2, <1>3

\* A request begins a query.
LEMMA NewQueryEffect ==
    ASSUME Typed, NEW p \in net, p.type = "REQ", NEW n \in Nodes, p.to = n, q[n] = Idle,
           NewQuery(n, p, {p})
    PROVE  Effect(n)
<1>1. PICK cached \in SUBSET Targets :
         LET c == [Idle EXCEPT !.phase = "direct", !.src = p.from, !.direct = cached]
         IN IF cached = Targets
            THEN SendReqProbes(n, c, {p}, {Info(n, p.from)})
            ELSE /\ q' = [q EXCEPT ![n] = c]
                 /\ Send({p}, {Info(n, p.from)})
    BY DEF NewQuery
<1> DEFINE c == [Idle EXCEPT !.phase = "direct", !.src = p.from, !.direct = cached]
           info == Info(n, p.from)
           self == Itself(n, p.from)
<1>2. IF cached = Targets THEN SendReqProbes(n, c, {p}, {info})
      ELSE q' = [q EXCEPT ![n] = c] /\ Send({p}, {info})
    BY <1>1
<1>3. p.from \in Asking
    BY DEF Typed, GoodPacket, PacketRec
<1>4. /\ c \in QueryRec
      /\ c.phase = "direct" /\ c.src = p.from /\ c.ring = {} /\ c.heard = <<>>
    <2>1. Idle \in QueryRec /\ Idle.heard = <<>> /\ Idle.ring = {}
        BY IdleFacts DEF Idle
    <2>2. p.from \in Parties
        BY <1>3 DEF Asking, Parties
    <2> QED BY <2>1, <2>2 DEF QueryRec, Busy
<1>5. c # Idle
    BY <1>4, IdleFacts
<1>6. DOMAIN <<>> = {}
    OBVIOUS
<1>7. info \in PacketRec /\ self \in PacketRec
    BY <1>3, PacketTyped, IdleFacts DEF Info, Itself, Finals, Asking
<1> HIDE DEF c
<1>8. GoodQuery(n, c)
    BY <1>3, <1>4, <1>5, <1>6 DEF GoodQuery
<1> HIDE DEF info, self
<1>9. ASSUME NEW d, GoodQuery(n, d), d.phase \in Busy, d.src = p.from, Step(n, d, {p}, {info})
      PROVE  Effect(n)
    <2>1. Begins(n, d, {p}, {info})
        BY <1>9 DEF Begins, info
    <2> QED BY <1>7, <1>9, <2>1, EffectIntro DEF Kinds
<1>10. CASE q' = [q EXCEPT ![n] = c] /\ Send({p}, {info})
    BY <1>4, <1>8, <1>9, <1>10 DEF Step, Busy
<1>11. CASE SendReqProbes(n, c, {p}, {info})
    <2>1. CASE Finish(n, {p}, {info} \cup {Itself(n, c.src)})
        <3>1. Step(n, Idle, {p}, {info, self})
            <4>1. {info} \cup {Itself(n, c.src)} = {info, self}
                BY <1>4 DEF self
            <4> QED BY <2>1, <4>1 DEF Finish, Step
        <3>2. Begins(n, Idle, {p}, {info, self})
            BY DEF Begins, info, self
        <3> QED BY <1>7, <3>1, <3>2, IdleFacts, EffectIntro DEF Kinds
    <2>2. ASSUME NEW d, GoodQuery(n, d), d.phase = "indirect", d.src = c.src,
                 Step(n, d, {p}, {info})
          PROVE  Effect(n)
        BY <1>4, <1>9, <2>2 DEF Busy
    <2> QED BY <1>4, <1>8, <1>11, <2>1, <2>2, SendReqProbesGood
<1> QED BY <1>2, <1>10, <1>11

\* A packet arrives.
LEMMA ReceiveEffect ==
    ASSUME Typed, NEW p \in net, Receive(p)
    PROVE  Effect(p.to)
<1> DEFINE n == p.to
<1>1. GoodPacket(p) /\ n \in Nodes /\ GoodQuery(n, q[n]) /\ q[n] \in QueryRec
    BY DEF Typed
<1>2. p.from \in Asking /\ p.who \in Nodes \cup {Nobody}
      /\ p.type \in {"REQ", "RET_INFO"} \cup Finals
    BY <1>1 DEF GoodPacket, PacketRec
<1>3. {p} \subseteq net
    OBVIOUS
<1>4. CASE p.type = "REQ" /\ q[n] = Idle
    BY <1>1, <1>4, NewQueryEffect DEF Receive
<1>5. CASE ~(p.type = "REQ" /\ q[n] = Idle)
    <2> DEFINE back == Packet(p.type, n, q[n].src, IF p.type = "RET_ERROR" THEN Nobody ELSE Named(p))
    <2>1. HandleEvent(n, p, {p})
        BY <1>5 DEF Receive
    <2>2. CASE q[n].phase = "fin" /\ p.type = "REQ"
        <3> DEFINE self == Itself(n, p.from)
        <3>1. UNCHANGED q /\ Send({p}, {self})
            BY <2>1, <2>2 DEF HandleEvent
        <3>2. self \in PacketRec
            BY <1>1, <1>2, PacketTyped, IdleFacts DEF Itself, Finals, Asking
        <3>3. Loops(n, q[n], {p}, {self})
            BY <2>2 DEF Loops
        <3> HIDE DEF self
        <3>4. Step(n, q[n], {p}, {self})
            BY <1>1, <3>1, SameQuery
        <3> QED BY <1>1, <1>3, <3>2, <3>3, <3>4, EffectIntro DEF Kinds
    <2>3. CASE q[n].phase = "fin" /\ p.type # "REQ" /\ p.from = q[n].sel
        <3> DEFINE c == IF p.type \in Finals THEN Idle ELSE q[n]
        <3>1. q[n].src \in Asking
            BY <1>1, <2>3 DEF GoodQuery
        <3>2. p.from \in Nodes
            BY <1>1, <2>3 DEF GoodQuery, QueryRec
        <3>3. Named(p) \in Nodes
            BY <1>2, <3>2 DEF Named
        <3>4. back \in PacketRec
            BY <1>1, <1>2, <3>1, <3>3, PacketTyped DEF Asking
        <3>5. Returns(n, c, {p}, {back})
            BY <2>3 DEF Returns
        <3>6. IF p.type \in Finals THEN Finish(n, {p}, {back})
              ELSE UNCHANGED q /\ Send({p}, {back})
            BY <2>1, <2>3 DEF HandleEvent
        <3> HIDE DEF back
        <3>7. Step(n, c, {p}, {back}) /\ GoodQuery(n, c)
            <4>1. CASE p.type \in Finals
                BY <1>1, <3>6, <4>1, IdleFacts DEF Finish, Step
            <4>2. CASE p.type \notin Finals
                BY <1>1, <3>6, <4>2, SameQuery
            <4> QED BY <4>1, <4>2
        <3> HIDE DEF c
        <3> QED BY <1>1, <1>3, <3>4, <3>5, <3>7, EffectIntro DEF Kinds
    <2>4. CASE ~(q[n].phase = "fin" /\ p.type = "REQ") /\ ~(q[n].phase = "fin" /\ p.from = q[n].sel)
        <3>1. UNCHANGED q /\ Send({p}, {})
            BY <2>1, <2>4 DEF HandleEvent
        <3>2. p.type = "REQ" => q[n].phase \in Busy
            BY <1>1, <1>5, <2>4 DEF GoodQuery, QueryRec
        <3>3. Drops(n, q[n], {p}, {})
            BY <2>4, <3>2 DEF Drops
        <3>4. Step(n, q[n], {p}, {})
            BY <1>1, <3>1, SameQuery
        <3> QED BY <1>1, <1>3, <3>3, <3>4, EffectIntro DEF Kinds
    <2> QED BY <2>2, <2>3, <2>4
<1> QED BY <1>4, <1>5

\* Every step is one of a node.
LEMMA NextEffect ==
    ASSUME Typed, Next
    PROVE  UNCHANGED timely /\ \E n \in Nodes : Effect(n)
<1>1. ASSUME NEW p \in net, Receive(p)
      PROVE  UNCHANGED timely /\ \E n \in Nodes : Effect(n)
    <2>1. p.to \in Nodes /\ Effect(p.to) /\ UNCHANGED timely
        BY <1>1, ReceiveEffect DEF Typed, Receive
    <2> QED BY <2>1
<1>2. ASSUME NEW n \in Nodes, Timeout(n)
      PROVE  UNCHANGED timely /\ Effect(n)
    BY <1>2, TimeoutEffect DEF Timeout
<1>3. ASSUME NEW n \in Nodes, NEW t \in Targets, TargetMeasured(n, t)
      PROVE  UNCHANGED timely /\ Effect(n)
    BY <1>3, TargetMeasuredEffect DEF TargetMeasured
<1>4. ASSUME NEW n \in Nodes, NEW m \in Nodes, MemberReported(n, m)
      PROVE  UNCHANGED timely /\ Effect(n)
    BY <1>4, MemberReportedEffect DEF MemberReported
<1> QED BY <1>1, <1>2, <1>3, <1>4 DEF Next

----------------------------------------------------------------------------
(* The steps keep the invariant *)

\* What a step makes of the state.
LEMMA StepFacts ==
    ASSUME Typed, NEW n \in Nodes, NEW c, NEW taken, NEW out, Step(n, c, taken, out)
    PROVE  /\ \A k \in Nodes : q'[k] = IF k = n THEN c ELSE q[k]
           /\ \A p \in net' : (p \in net /\ p \notin taken) \/ (p \in out /\ p.to # Client)
           /\ \A p \in net : p \notin taken => p \in net'
           /\ \A p \in out : p.to # Client => p \in net'
           /\ \/ told' = told /\ \A p \in out : ~(p.to = Client /\ p.type \in Finals)
              \/ \E e \in out : e.to = Client /\ e.type \in Finals /\ told' = Append(told, e)
<1>1. \A k \in Nodes : q'[k] = IF k = n THEN c ELSE q[k]
    BY DEF Step, Typed
<1>2. net' = (net \ taken) \cup {p \in out : p.to # Client}
    BY DEF Step, Send
<1> DEFINE ends == {p \in out : p.to = Client /\ p.type \in Finals}
<1>3. told' = IF ends = {} THEN told ELSE Append(told, CHOOSE p \in ends : TRUE)
    BY DEF Step, Send
<1>4. \/ told' = told /\ \A p \in out : ~(p.to = Client /\ p.type \in Finals)
      \/ \E e \in out : e.to = Client /\ e.type \in Finals /\ told' = Append(told, e)
    <2>1. CASE ends = {}
        BY <1>3, <2>1
    <2>2. CASE ends # {}
        <3>1. PICK e \in ends : e = CHOOSE p \in ends : TRUE
            BY <2>2
        <3>2. told' = Append(told, e)
            BY <1>3, <2>2, <3>1
        <3> QED BY <3>2
    <2> QED BY <2>1, <2>2
<1> HIDE DEF ends
<1> QED BY <1>1, <1>2, <1>4

\* The packets a node sends are its own; a request it sends is one it hands on.
LEMMA SentFacts ==
    ASSUME Typed, NEW n \in Nodes, NEW c, NEW taken, NEW out, Kinds(n, c, taken, out)
    PROVE  /\ \A p \in out : p.from = n /\ p.from # Client
           /\ \A p \in out : p.type = "REQ" => Forwards(n, c, taken, out)
<1> USE PacketFacts, IdleFacts DEF Finals
<1>1. CASE Begins(n, c, taken, out)
    BY <1>1 DEF Begins, Info, Itself
<1>2. CASE Works(n, c, taken, out) \/ Drops(n, c, taken, out)
    BY <1>2 DEF Works, Drops
<1>3. CASE Forwards(n, c, taken, out)
    BY <1>3 DEF Forwards
<1>4. CASE Ends(n, c, taken, out)
    BY <1>4 DEF Ends
<1>5. CASE Returns(n, c, taken, out)
    BY <1>5 DEF Returns
<1>6. CASE Loops(n, c, taken, out)
    BY <1>6 DEF Loops, Itself
<1> QED BY <1>1, <1>2, <1>3, <1>4, <1>5, <1>6 DEF Kinds

\* Queries and packets stay what the code can build.
LEMMA TypedKeeps ==
    ASSUME Typed, UNCHANGED timely, NEW n \in Nodes, NEW c \in QueryRec, NEW taken,
           NEW out \in SUBSET PacketRec, Step(n, c, taken, out), Kinds(n, c, taken, out),
           GoodQuery(n, c)
    PROVE  Typed'
<1>1. q' \in [Nodes -> QueryRec] /\ \A k \in Nodes : GoodQuery(k, q'[k])
    <2>1. q' \in [Nodes -> QueryRec]
        BY DEF Typed, Step
    <2> QED BY <2>1, StepFacts DEF Typed
<1>2. \A p \in out : p.to # Client => GoodPacket(p) /\ p.to \in Nodes
    BY SentFacts DEF GoodPacket, PacketRec, Asking
<1>3. \A p \in net' : GoodPacket(p) /\ p.to \in Nodes
    BY <1>2, StepFacts DEF Typed
<1>4. told' \in Seq(PacketRec) /\ \A i \in DOMAIN (told') : told'[i].type \in Finals
    <2>1. CASE told' = told
        BY <2>1 DEF Typed
    <2>2. ASSUME NEW e \in out, e.type \in Finals, told' = Append(told, e)
          PROVE  <1>4
        <3>1. told \in Seq(PacketRec) /\ e \in PacketRec
            BY DEF Typed
        <3>2. told' \in Seq(PacketRec) /\ Len(told') = Len(told) + 1
              /\ \A i \in 1 .. Len(told') : told'[i] = IF i <= Len(told) THEN told[i] ELSE e
            BY <2>2, <3>1
        <3> QED BY <2>2, <3>1, <3>2 DEF Typed
    <2> QED BY <2>1, <2>2, StepFacts
<1> QED BY <1>1, <1>3, <1>4 DEF Typed, GoodQuery, GoodPacket

\* A request is handed on only by the one that works, which then waits.
LEMMA OneWorksKeeps ==
    ASSUME Typed, OneWorks, NEW n \in Nodes, NEW c, NEW taken,
           NEW out, Step(n, c, taken, out), Kinds(n, c, taken, out)
    PROVE  OneWorks'
<1> USE DEF OneWorks
<1>0. /\ \A k \in Nodes : q'[k] = IF k = n THEN c ELSE q[k]
      /\ \A p \in net' : (p \in net /\ p \notin taken) \/ p \in out
    BY StepFacts
<1>1. CASE c.phase \notin Busy /\ \A p \in out : p.type # "REQ"
    BY <1>0, <1>1
<1>2. CASE Begins(n, c, taken, out) /\ c.phase \in Busy
    <2>1. PICK p \in net : p.type = "REQ" /\ taken = {p} /\ out = {Info(n, p.from)}
        BY <1>2, IdleFacts DEF Begins, Busy
    <2>2. \A r \in out : r.type # "REQ"
        BY <2>1, PacketFacts DEF Info
    <2>3. \A r \in net' : r.type # "REQ"
        BY <1>0, <2>1, <2>2
    <2>4. \A m \in Nodes : m # n => q'[m].phase \notin Busy
        BY <1>0, <2>1
    <2> QED BY <2>3, <2>4
<1>3. CASE Works(n, c, taken, out)
    BY <1>0, <1>3 DEF Works
<1>4. CASE Forwards(n, c, taken, out)
    <2>1. q[n].phase \in Busy /\ c.phase \notin Busy /\ out = {Packet("REQ", n, c.sel, Nobody)}
        BY <1>4 DEF Forwards, Busy
    <2>2. \A r \in net : r.type # "REQ"
        BY <2>1
    <2>3. \A m \in Nodes : q'[m].phase \notin Busy
        BY <1>0, <2>1
    <2> QED BY <1>0, <2>1, <2>2, <2>3
<1>5. CASE Drops(n, c, taken, out)
    BY <1>0, <1>5 DEF Drops
<1>6. CASE Ends(n, c, taken, out) \/ Returns(n, c, taken, out) \/ Loops(n, c, taken, out)
           \/ (Begins(n, c, taken, out) /\ c.phase \notin Busy)
    <2>1. c.phase \notin Busy
        BY <1>6, IdleFacts DEF Ends, Returns, Loops, Busy
    <2>2. ~Forwards(n, c, taken, out)
        <3>1. CASE Ends(n, c, taken, out)
            BY <3>1, IdleFacts DEF Ends, Forwards
        <3>2. CASE Returns(n, c, taken, out)
            BY <3>2 DEF Returns, Forwards, Busy
        <3>3. CASE Loops(n, c, taken, out)
            BY <3>3 DEF Loops, Forwards, Busy
        <3>4. CASE Begins(n, c, taken, out)
            BY <3>4, IdleFacts DEF Begins, Forwards, Busy
        <3> QED BY <1>6, <3>1, <3>2, <3>3, <3>4
    <2> QED BY <1>1, <2>1, <2>2, SentFacts
<1> QED BY <1>2, <1>3, <1>4, <1>5, <1>6 DEF Kinds

\* Whose answer the client waits for changes hands with its request and ends with an
\* answer.
LEMMA OneAnswersKeeps ==
    ASSUME Typed, OneWorks, OneAnswers, NEW n \in Nodes, NEW c, NEW taken,
           NEW out, Step(n, c, taken, out), Kinds(n, c, taken, out)
    PROVE  OneAnswers'
<1> DEFINE Owes == \E m \in Nodes : q[m].src = Client
           Asks == \E p \in net : p.from = Client
<1>0. /\ \A k \in Nodes : q'[k] = IF k = n THEN c ELSE q[k]
      /\ \A p \in net' : p.from = Client => p \in net /\ p \notin taken
      /\ told \in Seq(PacketRec)
    BY StepFacts, SentFacts DEF Typed
<1>1. \A p, r \in net : p.from = Client /\ r.from = Client => p = r
    BY DEF Typed, GoodPacket, OneWorks
\* Nothing is said to the client, and it waits for the same node or for no one.
<1>2. ASSUME told' = told, c.src = q[n].src
      PROVE  OneAnswers'
    BY <1>0, <1>2 DEF OneAnswers
\* The request of the client is accepted.
<1>3. ASSUME NEW p \in net, taken = {p}, p.from = Client, c.src = Client, told' = told
      PROVE  OneAnswers'
    <2>1. \A m \in Nodes : q[m].src # Client
        BY <1>3 DEF OneAnswers
    <2>2. \A r \in net' : r.from # Client
        BY <1>0, <1>1, <1>3
    <2>3. told = <<>>
        BY <1>3 DEF OneAnswers
    <2> QED BY <1>0, <1>3, <2>1, <2>2, <2>3 DEF OneAnswers
\* The client is answered, by the node that owed it or at once.
<1>4. ASSUME NEW e, told' = Append(told, e), c.src # Client,
             q[n].src = Client \/ \E p \in net : taken = {p} /\ p.from = Client
      PROVE  OneAnswers'
    <2>1. told = <<>>
        BY <1>4 DEF OneAnswers
    <2>2. told' # <<>> /\ Len(told') <= 1
        BY <1>0, <1>4, <2>1
    <2>3. \A m \in Nodes : q'[m].src # Client
        BY <1>0, <1>4 DEF OneAnswers
    <2>4. \A r \in net' : r.from # Client
        BY <1>0, <1>1, <1>4 DEF OneAnswers
    <2> QED BY <2>2, <2>3, <2>4 DEF OneAnswers
\* Another is answered, or begins to be served.
<1>5. ASSUME told' = told, c.src # Client
      PROVE  OneAnswers'
    BY <1>0, <1>5 DEF OneAnswers
<1>6. told' = told \/ \E e \in out : e.to = Client /\ told' = Append(told, e)
    BY StepFacts
<1> USE PacketFacts, IdleFacts
<1>7. CASE Begins(n, c, taken, out)
    <2>1. PICK p \in net :
             /\ q[n] = Idle /\ taken = {p}
             /\ \/ c.src = p.from /\ out = {Info(n, p.from)}
                \/ c = Idle /\ out = {Info(n, p.from), Itself(n, p.from)}
        BY <1>7 DEF Begins
    <2>2. CASE c.src = p.from /\ out = {Info(n, p.from)}
        <3>1. told' = told
            BY <2>2, StepFacts DEF Info, Finals
        <3> QED BY <1>3, <1>5, <2>1, <2>2, <3>1
    <2>3. CASE c = Idle /\ out = {Info(n, p.from), Itself(n, p.from)}
        <3>1. \A e \in out : e.to = p.from
            BY <2>3 DEF Info, Itself
        <3> QED BY <1>4, <1>5, <1>6, <2>1, <2>3, <3>1
    <2> QED BY <2>1, <2>2, <2>3
<1>8. CASE Works(n, c, taken, out)
    BY <1>2, <1>6, <1>8 DEF Works
<1>9. CASE Forwards(n, c, taken, out)
    <2>1. told' = told
        BY <1>9, StepFacts DEF Forwards, Finals
    <2> QED BY <1>2, <1>9, <2>1 DEF Forwards
<1>10. CASE Ends(n, c, taken, out)
    <2>1. c = Idle /\ \A e \in out : e.to = q[n].src
        BY <1>10 DEF Ends
    <2> QED BY <1>4, <1>5, <1>6, <2>1
<1>11. CASE Returns(n, c, taken, out)
    <2>1. PICK p \in net :
             /\ taken = {p} /\ c = IF p.type \in Finals THEN Idle ELSE q[n]
             /\ \A e \in out : e.to = q[n].src /\ e.type = p.type
        BY <1>11 DEF Returns
    <2>2. CASE p.type \in Finals
        BY <1>4, <1>5, <1>6, <2>1, <2>2
    <2>3. CASE p.type \notin Finals
        BY <1>2, <2>1, <2>3, StepFacts
    <2> QED BY <2>2, <2>3
<1>12. CASE Loops(n, c, taken, out)
    <2>1. PICK p \in net : taken = {p} /\ c = q[n] /\ out = {Itself(n, p.from)}
        BY <1>12 DEF Loops
    <2>2. \A e \in out : e.to = p.from
        BY <2>1 DEF Itself
    <2>3. CASE p.from = Client
        <3>1. q[n].src # Client
            BY <2>3 DEF OneAnswers
        <3> QED BY <1>2, <1>4, <1>6, <2>1, <2>3, <3>1
    <2>4. CASE p.from # Client
        BY <1>2, <1>6, <2>1, <2>2, <2>4
    <2> QED BY <2>3, <2>4
<1>13. CASE Drops(n, c, taken, out)
    BY <1>2, <1>6, <1>13 DEF Drops
<1> QED BY <1>7, <1>8, <1>9, <1>10, <1>11, <1>12, <1>13 DEF Kinds

\* Node k, which waits for m, is owed an answer.
Owed(k, m) ==
    \/ Packet("REQ", k, m, Nobody) \in net
    \/ q[m].src = k
    \/ \E p \in net : p.from = m /\ p.to = k /\ p.type \in Finals

\* The node that takes the step goes on waiting, or begins to.
LEMMA OwnWaitIsOwed ==
    ASSUME Typed, WaitsAreOwed, NEW n \in Nodes, NEW c, NEW taken, NEW out,
           Step(n, c, taken, out), Kinds(n, c, taken, out), GoodQuery(n, c), c.phase = "fin"
    PROVE  Owed(n, c.sel)'
<1> DEFINE m == c.sel
<1>0. m \in Nodes /\ m # n /\ m # Client
    BY IdleFacts DEF GoodQuery, QueryRec
<1>1. /\ \A k \in Nodes : q'[k] = IF k = n THEN c ELSE q[k]
      /\ \A p \in net : p \notin taken => p \in net'
      /\ \A p \in out : p.to # Client => p \in net'
    BY StepFacts
<1>2. CASE Forwards(n, c, taken, out)
    <2>1. Packet("REQ", n, m, Nobody) \in out
        BY <1>2 DEF Forwards
    <2> QED BY <1>0, <1>1, <2>1, PacketFacts DEF Owed
<1>3. ASSUME NEW p \in net, taken = {p}, c = q[n], p.to = n,
             p.from = m => p.type \notin Finals
      PROVE  Owed(n, m)'
    <2>1. Owed(n, m)
        BY <1>3 DEF WaitsAreOwed, Owed
    <2>2. CASE Packet("REQ", n, m, Nobody) \in net
        <3>1. Packet("REQ", n, m, Nobody) # p
            BY <1>0, <1>3, PacketFacts
        <3> QED BY <1>1, <1>3, <2>2, <3>1 DEF Owed
    <2>3. CASE q[m].src = n
        BY <1>0, <1>1, <2>3 DEF Owed
    <2>4. ASSUME NEW r \in net, r.from = m, r.to = n, r.type \in Finals
          PROVE  Owed(n, m)'
        BY <1>1, <1>3, <2>4 DEF Owed
    <2> QED BY <2>1, <2>2, <2>3, <2>4 DEF Owed
<1>4. CASE Returns(n, c, taken, out)
    <2>1. PICK p \in net : taken = {p} /\ p.to = n /\ c = IF p.type \in Finals THEN Idle ELSE q[n]
        BY <1>4 DEF Returns
    <2>2. p.type \notin Finals
        BY <2>1, IdleFacts
    <2> QED BY <1>3, <2>1, <2>2
<1>5. CASE Loops(n, c, taken, out)
    BY <1>3, <1>5 DEF Loops, Finals
<1>6. CASE Drops(n, c, taken, out)
    BY <1>3, <1>6 DEF Drops
<1>7. ~Begins(n, c, taken, out) /\ ~Works(n, c, taken, out) /\ ~Ends(n, c, taken, out)
    BY IdleFacts DEF Begins, Works, Ends, Busy
<1> QED BY <1>2, <1>4, <1>5, <1>6, <1>7 DEF Kinds

\* A node that waits is still owed its answer after a step of another.
LEMMA OtherWaitIsOwed ==
    ASSUME Typed, OneWorks, NEW n \in Nodes, NEW c, NEW taken, NEW out,
           Step(n, c, taken, out), Kinds(n, c, taken, out), GoodQuery(n, c),
           NEW k \in Nodes, NEW m \in Nodes, k # n, Owed(k, m)
    PROVE  Owed(k, m)'
<1> USE PacketFacts, IdleFacts
<1>1. /\ \A j \in Nodes : q'[j] = IF j = n THEN c ELSE q[j]
      /\ \A p \in net : p \notin taken => p \in net'
      /\ \A p \in out : p.to # Client => p \in net'
    BY StepFacts
<1>2. ASSUME NEW p \in out, p.from = m, p.to = k, p.type \in Finals
      PROVE  Owed(k, m)'
    BY <1>1, <1>2 DEF Owed
<1>3. CASE Packet("REQ", k, m, Nobody) \in net
    <2> DEFINE p == Packet("REQ", k, m, Nobody)
    <2>1. p.type = "REQ" /\ p.from = k /\ p.to = m
        OBVIOUS
    <2> HIDE DEF p
    <2>2. CASE p \notin taken
        BY <1>1, <1>3, <2>2 DEF Owed, p
    <2>3. CASE p \in taken
        <3>1. CASE Begins(n, c, taken, out)
            <4>1. /\ p.to = n
                  /\ \/ c.src = k
                     \/ out = {Info(n, k), Itself(n, k)}
                BY <2>1, <2>3, <3>1 DEF Begins
            <4>2. CASE c.src = k
                BY <1>1, <2>1, <4>1, <4>2 DEF Owed
            <4>3. CASE out = {Info(n, k), Itself(n, k)}
                BY <1>2, <2>1, <4>1, <4>3 DEF Itself, Finals
            <4> QED BY <4>1, <4>2, <4>3
        <3>2. CASE Loops(n, c, taken, out)
            <4>1. p.to = n /\ out = {Itself(n, k)}
                BY <2>1, <2>3, <3>2 DEF Loops
            <4> QED BY <1>2, <2>1, <4>1 DEF Itself, Finals
        <3>3. CASE Drops(n, c, taken, out)
            BY <1>3, <2>1, <2>3, <3>3 DEF Drops, OneWorks, p
        <3>4. CASE Returns(n, c, taken, out)
            BY <2>1, <2>3, <3>4 DEF Returns
        <3>5. CASE Works(n, c, taken, out) \/ Forwards(n, c, taken, out) \/ Ends(n, c, taken, out)
            BY <2>3, <3>5 DEF Works, Forwards, Ends
        <3> QED BY <3>1, <3>2, <3>3, <3>4, <3>5 DEF Kinds
    <2> QED BY <2>2, <2>3
<1>4. CASE q[m].src = k
    <2>1. CASE m # n \/ c.src = k
        BY <1>1, <1>4, <2>1 DEF Owed
    <2>2. CASE m = n /\ c.src # k
        <3>1. CASE Ends(n, c, taken, out)
            <4>1. PICK type \in Finals, who \in Nodes \cup {Nobody} : out = {Packet(type, n, q[n].src, who)}
                BY <3>1 DEF Ends
            <4> QED BY <1>2, <1>4, <2>2, <4>1
        <3>2. CASE Returns(n, c, taken, out)
            <4>1. PICK p \in net :
                     /\ \E who : out = {Packet(p.type, n, q[n].src, who)}
                     /\ c = IF p.type \in Finals THEN Idle ELSE q[n]
                BY <3>2 DEF Returns
            <4>2. p.type \in Finals
                BY <1>4, <2>2, <4>1
            <4> QED BY <1>2, <1>4, <2>2, <4>1, <4>2
        <3>3. ~Begins(n, c, taken, out)
            BY <1>4, <2>2 DEF Begins
        <3>4. CASE Works(n, c, taken, out) \/ Forwards(n, c, taken, out)
                   \/ Loops(n, c, taken, out) \/ Drops(n, c, taken, out)
            BY <1>4, <2>2, <3>4 DEF Works, Forwards, Loops, Drops
        <3> QED BY <3>1, <3>2, <3>3, <3>4 DEF Kinds
    <2> QED BY <2>1, <2>2
<1>5. ASSUME NEW p \in net, p.from = m, p.to = k, p.type \in Finals
      PROVE  Owed(k, m)'
    <2>1. \A r \in taken : r.to = n
        BY DEF Kinds, Begins, Works, Forwards, Ends, Returns, Loops, Drops
    <2> QED BY <1>1, <1>5, <2>1 DEF Owed
<1> QED BY <1>3, <1>4, <1>5 DEF Owed

\* So everybody who waits is owed an answer.
LEMMA WaitsKeep ==
    ASSUME Typed, OneWorks, WaitsAreOwed, NEW n \in Nodes, NEW c, NEW taken, NEW out,
           Step(n, c, taken, out), Kinds(n, c, taken, out), GoodQuery(n, c)
    PROVE  WaitsAreOwed'
<1>1. ASSUME NEW k \in Nodes, q'[k].phase = "fin"
      PROVE  Owed(k, q[k].sel)'
    <2>1. CASE k = n
        BY <1>1, <2>1, OwnWaitIsOwed, StepFacts
    <2>2. CASE k # n
        <3>1. q'[k] = q[k]
            BY <2>2, StepFacts
        <3>2. q[k].sel \in Nodes
            BY <1>1, <3>1 DEF Typed, GoodQuery, QueryRec
        <3>3. Owed(k, q[k].sel)
            BY <1>1, <3>1 DEF WaitsAreOwed, Owed
        <3>4. \A m \in Nodes : Owed(k, m) => Owed(k, m)'
            BY <2>2, OtherWaitIsOwed
        <3> QED BY <3>1, <3>2, <3>3, <3>4 DEF Owed
    <2> QED BY <2>1, <2>2
<1> QED BY <1>1 DEF WaitsAreOwed, Owed

\* It holds at first.
LEMMA InitIInv == Init => IInv
<1> SUFFICES ASSUME Init PROVE IInv
    OBVIOUS
<1> USE PacketFacts, IdleFacts
<1>1. PICK first \in Entries : net = {Packet("REQ", Client, first, Nobody)}
    BY DEF Init
<1>2. first \in Nodes
    BY SearchAssumption
<1>3. Packet("REQ", Client, first, Nobody) \in PacketRec
    BY <1>2, PacketTyped DEF Asking
<1>4. \A n \in Nodes : q[n] = Idle
    BY DEF Init
<1>5. Typed
    <2>1. q \in [Nodes -> QueryRec]
        BY DEF Init
    <2>2. told \in Seq(PacketRec) /\ DOMAIN told = {} /\ timely \in BOOLEAN
        BY DEF Init
    <2>3. \A p \in net : GoodPacket(p) /\ p.to \in Nodes
        BY <1>1, <1>2, <1>3 DEF GoodPacket
    <2> QED BY <1>4, <2>1, <2>2, <2>3 DEF Typed
<1>6. OneWorks
    BY <1>1, <1>4 DEF OneWorks, Busy
<1>7. OneAnswers
    <2>1. told = <<>> /\ Len(told) = 0
        BY DEF Init
    <2> QED BY <1>4, <2>1 DEF OneAnswers
<1>8. WaitsAreOwed
    BY <1>4 DEF WaitsAreOwed
<1> QED BY <1>5, <1>6, <1>7, <1>8 DEF IInv

\* Every step keeps the invariant.
LEMMA NextIInv == IInv /\ [Next]_vars => IInv'
<1> SUFFICES ASSUME IInv, [Next]_vars PROVE IInv'
    OBVIOUS
<1>1. CASE UNCHANGED vars
    BY <1>1 DEF vars, IInv, Typed, OneWorks, OneAnswers, WaitsAreOwed, GoodQuery, GoodPacket
<1>2. CASE Next
    <2>1. UNCHANGED timely /\ \E n \in Nodes : Effect(n)
        BY <1>2, NextEffect DEF IInv
    <2>2. PICK n \in Nodes, c \in QueryRec, taken \in SUBSET net, out \in SUBSET PacketRec :
             Step(n, c, taken, out) /\ Kinds(n, c, taken, out) /\ GoodQuery(n, c)
        BY <2>1 DEF Effect
    <2> QED BY <2>1, <2>2, TypedKeeps, OneWorksKeeps, OneAnswersKeeps, WaitsKeep DEF IInv
<1> QED BY <1>1, <1>2

\* The invariant says what the run checks.
LEMMA IInvImplies == IInv => SearchConsistent /\ AtMostOneAnswer
<1> SUFFICES ASSUME IInv PROVE SearchConsistent /\ AtMostOneAnswer
    OBVIOUS
<1>1. q \in [Nodes -> [phase : {"none", "direct", "indirect", "fin"},
                       src : Parties, direct : SUBSET Targets, avg : Nat,
                       ring : SUBSET Nodes, sel : Nodes \cup {Nobody},
                       heard : {q[n].heard : n \in Nodes}]]
    <2>1. ASSUME NEW n \in Nodes
          PROVE  q[n] \in [phase : {"none", "direct", "indirect", "fin"},
                           src : Parties, direct : SUBSET Targets, avg : Nat,
                           ring : SUBSET Nodes, sel : Nodes \cup {Nobody},
                           heard : {q[k].heard : k \in Nodes}]
        <3>1. q[n] \in QueryRec
            BY DEF IInv, Typed
        <3> DEFINE H == {q[k].heard : k \in Nodes}
        <3>2. q[n].heard \in H
            OBVIOUS
        <3> HIDE DEF H
        <3>3. q[n] \in [phase : {"none", "direct", "indirect", "fin"},
                        src : Parties, direct : SUBSET Targets, avg : Nat,
                        ring : SUBSET Nodes, sel : Nodes \cup {Nobody}, heard : H]
            BY <3>1, <3>2 DEF QueryRec, Busy
        <3> QED BY <3>3 DEF H
    <2>2. q = [n \in Nodes |-> q[n]]
        BY DEF IInv, Typed
    <2> DEFINE R == [phase : {"none", "direct", "indirect", "fin"},
                     src : Parties, direct : SUBSET Targets, avg : Nat,
                     ring : SUBSET Nodes, sel : Nodes \cup {Nobody},
                     heard : {q[k].heard : k \in Nodes}]
    <2>3. \A n \in Nodes : q[n] \in R
        BY <2>1
    <2> HIDE DEF R
    <2>4. q \in [Nodes -> R]
        BY <2>2, <2>3
    <2> QED BY <2>4 DEF R
<1>2. ASSUME NEW n \in Nodes
      PROVE  /\ DOMAIN q[n].heard \subseteq q[n].ring \ {n}
             /\ q[n].heard \in [DOMAIN q[n].heard -> Nat]
             /\ q[n].phase = "none" <=> q[n] = Idle
             /\ q[n].phase = "fin" => q[n].sel \in DOMAIN q[n].heard
    <2>1. GoodQuery(n, q[n]) /\ q[n].heard \in Reports
        BY DEF IInv, Typed, QueryRec
    <2> QED BY <2>1 DEF GoodQuery, Reports
<1>3. \A p \in net : p \in [type : {"REQ", "RET_INFO"} \cup Finals,
                            from : Parties, to : Nodes, who : Parties]
    BY DEF IInv, Typed, GoodPacket, PacketRec, Asking, Parties
<1>4. TypeOK
    BY <1>1, <1>2, <1>3 DEF IInv, Typed, TypeOK
<1> QED BY <1>4 DEF IInv, SearchConsistent, OneAnswers, AtMostOneAnswer

(* Whatever is late, lost or times out, a node that handed the search on is    *)
(* owed an answer: a loop never leaves two nodes waiting for each other,       *)
(* because only one works on a search at a time.                               *)
THEOREM WaitersAreOwed == Spec => []SearchConsistent
BY InitIInv, NextIInv, IInvImplies, PTL DEF Spec

(* The client gets at most one final packet of its search, although a node     *)
(* that has given up may start again under the same id.                        *)
THEOREM ClientHearsOnce == Spec => []AtMostOneAnswer
BY InitIInv, NextIInv, IInvImplies, PTL DEF Spec

----------------------------------------------------------------------------
(* Where every node always measures the same average *)

Steady == \A n \in Nodes : \E x : Lat[n] = {x}
Of(n) == CHOOSE lat \in Lat[n] : TRUE

\* An answer that names a node no farther than its sender.
Better(p) ==
    p.type = "RET_RESPONSE" =>
        p.from \in Nodes /\ Named(p) \in Nodes /\ Of(Named(p)) <= Of(p.from)
AllBetter == (\A p \in net : Better(p)) /\ \A i \in DOMAIN told : Better(told[i])

\* What was measured is the average of the node.
LEMMA SteadyFacts ==
    ASSUME Steady, NEW n \in Nodes
    PROVE  Of(n) \in Nat /\ \A x \in Lat[n] : x = Of(n)
<1>1. PICK x : Lat[n] = {x}
    BY DEF Steady
<1>2. x \in Nat
    BY <1>1, SearchAssumption
<1> QED BY <1>1, <1>2 DEF Of

\* The packets of a step are no worse than those that came before.
LEMMA SentAreBetter ==
    ASSUME Steady, Typed, AllBetter, NEW n \in Nodes, NEW c, NEW taken, NEW out,
           Kinds(n, c, taken, out), NEW e \in out
    PROVE  Better(e)
<1> USE PacketFacts, IdleFacts
<1>1. ASSUME e.from = n, e.who = Nobody
      PROVE  Better(e)
    BY <1>1, SteadyFacts DEF Better, Named
<1>2. CASE Begins(n, c, taken, out)
    BY <1>1, <1>2 DEF Begins, Info, Itself
<1>3. CASE Works(n, c, taken, out) \/ Drops(n, c, taken, out)
    BY <1>3 DEF Works, Drops
<1>4. CASE Forwards(n, c, taken, out)
    BY <1>1, <1>4 DEF Forwards
<1>5. CASE Loops(n, c, taken, out)
    BY <1>1, <1>5 DEF Loops, Itself
<1>6. CASE Ends(n, c, taken, out)
    <2>1. e.from = n /\ Own(n, e)
        BY <1>6 DEF Ends
    <2>2. CASE e.who \in Nodes /\ \E a \in Lat[n], b \in Lat[e.who] : b < a
        <3>1. Of(e.who) < Of(n) /\ Of(e.who) \in Nat /\ Of(n) \in Nat
            BY <2>2, SteadyFacts
        <3>2. Named(e) = e.who
            BY <2>2 DEF Named
        <3> QED BY <2>1, <2>2, <3>1, <3>2 DEF Better
    <2> QED BY <1>1, <2>1, <2>2 DEF Own
<1>7. CASE Returns(n, c, taken, out)
    <2>1. PICK p \in net :
             /\ q[n].phase = "fin" /\ p.from = q[n].sel
             /\ e = Packet(p.type, n, q[n].src, IF p.type = "RET_ERROR" THEN Nobody ELSE Named(p))
        BY <1>7 DEF Returns
    <2>2. CASE p.type = "RET_RESPONSE"
        <3>1. p.from \in Nodes /\ Named(p) \in Nodes /\ Of(Named(p)) <= Of(p.from)
            BY <2>2 DEF AllBetter, Better
        <3>2. e.from = n /\ Named(e) = Named(p)
            <4>1. e.from = n /\ e.who = Named(p)
                BY <2>1, <2>2
            <4>2. e.who # Nobody
                BY <3>1, <4>1
            <4> QED BY <4>1, <4>2 DEF Named
        <3>3. Of(p.from) <= Of(n)
            <4>1. /\ q[n].avg \in Lat[n] /\ q[n].heard[q[n].sel] \in Lat[q[n].sel]
                  /\ q[n].heard[q[n].sel] <= q[n].avg
                BY <2>1 DEF Typed, GoodQuery
            <4> QED BY <2>1, <3>1, <4>1, SteadyFacts
        <3>4. Of(Named(p)) \in Nat /\ Of(p.from) \in Nat /\ Of(n) \in Nat
            BY <3>1, SteadyFacts
        <3> QED BY <3>1, <3>2, <3>3, <3>4 DEF Better
    <2>3. CASE p.type # "RET_RESPONSE"
        BY <2>1, <2>3 DEF Better
    <2> QED BY <2>2, <2>3
<1> QED BY <1>2, <1>3, <1>4, <1>5, <1>6, <1>7 DEF Kinds

\* Every step keeps the answers good.
LEMMA NextAllBetter == Steady /\ IInv /\ AllBetter /\ [Next]_vars => AllBetter'
<1> SUFFICES ASSUME Steady, IInv, AllBetter, [Next]_vars PROVE AllBetter'
    OBVIOUS
<1>1. CASE UNCHANGED vars
    BY <1>1 DEF vars, AllBetter, Better
<1>2. CASE Next
    <2>1. PICK n \in Nodes, c \in QueryRec, taken \in SUBSET net, out \in SUBSET PacketRec :
             Step(n, c, taken, out) /\ Kinds(n, c, taken, out) /\ GoodQuery(n, c)
        BY <1>2, NextEffect DEF IInv, Effect
    <2>2. \A e \in out : Better(e)
        BY <2>1, SentAreBetter DEF IInv
    <2>3. \A p \in net' : Better(p)
        BY <2>1, <2>2, StepFacts DEF IInv, AllBetter
    <2>4. \A i \in DOMAIN (told') : Better(told'[i])
        <3>1. CASE told' = told
            BY <3>1 DEF AllBetter
        <3>2. ASSUME NEW e \in out, told' = Append(told, e)
              PROVE  <2>4
            <4>1. told \in Seq(PacketRec) /\ e \in PacketRec
                BY <2>1 DEF IInv, Typed
            <4>2. Len(told') = Len(told) + 1 /\ DOMAIN (told') = 1 .. Len(told')
                  /\ \A i \in 1 .. Len(told') : told'[i] = IF i <= Len(told) THEN told[i] ELSE e
                BY <3>2, <4>1
            <4> QED BY <2>2, <4>1, <4>2 DEF AllBetter
        <3> QED BY <2>1, <3>1, <3>2, StepFacts DEF IInv
    <2> QED BY <2>3, <2>4 DEF AllBetter
<1> QED BY <1>1, <1>2

(* Where a node always measures the same average, no hop on the way back, and  *)
(* not the client in the end, is named a node farther than the one it asked.   *)
THEOREM AnswersGetNoWorse ==
    ASSUME Steady
    PROVE  Spec => []AnswersNeverWorse
<1>1. Init => AllBetter
    <2> SUFFICES ASSUME Init PROVE AllBetter
        OBVIOUS
    <2>1. \A p \in net : p.type = "REQ"
        BY PacketFacts DEF Init
    <2>2. DOMAIN told = {}
        BY DEF Init
    <2> QED BY <2>1, <2>2 DEF AllBetter, Better
<1>2. IInv /\ AllBetter /\ [Next]_vars => AllBetter'
    BY NextAllBetter
<1>3. AllBetter => AnswersNeverWorse
    BY DEF AllBetter, Better, AnswersNeverWorse, Of
<1> QED BY <1>1, <1>2, <1>3, InitIInv, NextIInv, PTL DEF Spec

=============================================================================
