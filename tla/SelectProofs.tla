----------------------------- MODULE SelectProofs -----------------------------
(***************************************************************************)
(* Proofs about what the select loop serves.                               *)
(* ProbeConnections, for any number of probes and descriptors: the select  *)
(* sets, the maps and the kernel agree, and no connection outlives its     *)
(* probe.                                                                  *)
(* OutQueue, for any number of packets: select watches the socket exactly  *)
(* while packets wait, and none is lost, repeated or overtaken.            *)
(* The host of Rendezvous, for any clients, connections and traffic: its   *)
(* maps agree, and no empty queue is asked for a packet; what a node       *)
(* writes is read as it was written; and its clients take from their       *)
(* tunnels what was pushed to them, in that order.                         *)
(* DSLScheduler, for any number of threads and calls and any turns per     *)
(* iteration: no thread is forgotten, whatever irregular cases occur, and  *)
(* behind an answer to another call than the thread's there is a reply     *)
(* that came more than once.                                               *)
(***************************************************************************)
EXTENDS ProbeConnections, OutQueue, Rendezvous, DSLScheduler, PacketProofs,
        FiniteSetTheorems, SequenceTheorems, WellFoundedInduction, TLAPS

----------------------------------------------------------------------------
(* The probe connections *)

\* The inductive invariant: that the maps agree with the select sets is what makes
\* a free descriptor one that no map has, and that an entry belongs to a waiting
\* probe with that descriptor is what makes a probe's entry unique.
ConnInv == TypeOK /\ SelectsOpenSockets /\ NoConnectionOutlivesProbe

----------------------------------------------------------------------------
(* Lemmas *)

\* The kernel's lowest free descriptor is free.
LEMMA LowestIsFree ==
  ASSUME Free # {}
  PROVE  Lowest(Free) \in Free
<1>1. Free \subseteq Nat
  BY ProbeConnectionsAssumption DEF Free, FDs
<1>2. PICK x \in Free : \A y \in Free : x <= y
  BY <1>1, SmallestExists
<1> QED BY <1>2 DEF Lowest

\* A new probe takes a descriptor no map has.
LEMMA FreeIsUnused ==
  ASSUME ConnInv, NEW fd \in Free
  PROVE  fd \in FDs /\ tcp[fd] = None /\ dns[fd] = None
                    /\ fd \notin writeSet /\ fd \notin readSet
BY DEF ConnInv, SelectsOpenSockets, Free

----------------------------------------------------------------------------
(* The invariant *)

\* Nothing is watched or listed at the start.
LEMMA InitConn == Init => ConnInv
BY ProbeConnectionsAssumption
   DEF Init, ConnInv, TypeOK, SelectsOpenSockets, NoConnectionOutlivesProbe, Probes, NoFD

\* A probe that fails at once leaves nothing behind.
LEMMA FailureKeepsConn ==
  ASSUME ConnInv, NEW p \in Probes, ProbeFailsAtOnce(p)
  PROVE  ConnInv'
BY DEF ConnInv, TypeOK, SelectsOpenSockets, NoConnectionOutlivesProbe, ProbeFailsAtOnce, Born

\* A connect in progress enters the map and the write set.
LEMMA AddTCPKeepsConn ==
  ASSUME ConnInv, NEW p \in Probes, AddTCPConnection(p)
  PROVE  ConnInv'
<1> DEFINE fd == Lowest(Free)
<1>1. fd \in Free
  BY LowestIsFree DEF AddTCPConnection
<1>2. fd \in FDs /\ tcp[fd] = None /\ dns[fd] = None /\ fd \notin writeSet \cup readSet
  BY <1>1, FreeIsUnused
<1>3. /\ probe' = [probe EXCEPT ![p] = [state |-> "waiting", sockFD |-> fd]]
      /\ tcp' = [tcp EXCEPT ![fd] = p] /\ writeSet' = writeSet \cup {fd}
      /\ socket' = [socket EXCEPT ![fd] = "pending"] /\ dns' = dns /\ readSet' = readSet
      /\ p \in TCPProbes /\ probe[p].state = "unborn" /\ p # None
  BY ProbeConnectionsAssumption DEF AddTCPConnection, Born
<1> HIDE DEF fd
<1>4. TypeOK'
  BY <1>2, <1>3 DEF ConnInv, TypeOK
<1>5. SelectsOpenSockets'
  BY <1>2, <1>3 DEF ConnInv, TypeOK, SelectsOpenSockets
<1>6. NoConnectionOutlivesProbe'
  BY <1>2, <1>3 DEF ConnInv, TypeOK, NoConnectionOutlivesProbe
<1> QED BY <1>4, <1>5, <1>6 DEF ConnInv

\* A DNS query enters its map and the read set.
LEMMA AddDNSKeepsConn ==
  ASSUME ConnInv, NEW p \in Probes, AddDNSConnection(p)
  PROVE  ConnInv'
<1> DEFINE fd == Lowest(Free)
<1>1. fd \in Free
  BY LowestIsFree DEF AddDNSConnection
<1>2. fd \in FDs /\ tcp[fd] = None /\ dns[fd] = None /\ fd \notin writeSet \cup readSet
  BY <1>1, FreeIsUnused
<1>3. /\ probe' = [probe EXCEPT ![p] = [state |-> "waiting", sockFD |-> fd]]
      /\ dns' = [dns EXCEPT ![fd] = p] /\ readSet' = readSet \cup {fd}
      /\ socket' = [socket EXCEPT ![fd] = "pending"] /\ tcp' = tcp /\ writeSet' = writeSet
      /\ p \in DNSProbes /\ probe[p].state = "unborn" /\ p # None
  BY ProbeConnectionsAssumption DEF AddDNSConnection, Born
<1> HIDE DEF fd
<1>4. TypeOK'
  BY <1>2, <1>3 DEF ConnInv, TypeOK
<1>5. SelectsOpenSockets'
  BY <1>2, <1>3 DEF ConnInv, TypeOK, SelectsOpenSockets
<1>6. NoConnectionOutlivesProbe'
  BY <1>2, <1>3 DEF ConnInv, TypeOK, NoConnectionOutlivesProbe
<1> QED BY <1>4, <1>5, <1>6 DEF ConnInv

\* The network changes the socket only.
LEMMA AnswerKeepsConn ==
  ASSUME ConnInv, NEW fd \in FDs, NetworkAnswers(fd)
  PROVE  ConnInv'
<1>1. TypeOK'
  BY DEF ConnInv, TypeOK, NetworkAnswers
<1>2. SelectsOpenSockets'
  BY DEF ConnInv, TypeOK, SelectsOpenSockets, NetworkAnswers
<1>3. NoConnectionOutlivesProbe'
  BY DEF ConnInv, NoConnectionOutlivesProbe, NetworkAnswers
<1> QED BY <1>1, <1>2, <1>3 DEF ConnInv

\* Erasing TCP connections is sound if the probes answered lose all they have.
LEMMA ErasingTCPKeepsConn ==
  ASSUME ConnInv, NEW fds \in SUBSET FDs, NEW answered \in SUBSET TCPProbes,
         \A fd \in fds : tcp[fd] # None,
         \A fd \in FDs : tcp[fd] \in answered => fd \in fds,
         Answered(answered), EraseTCPConnections(fds), dns' = dns, readSet' = readSet
  PROVE  ConnInv'
<1>1. TypeOK'
  BY DEF ConnInv, TypeOK, Answered, EraseTCPConnections
<1>2. SelectsOpenSockets'
  BY DEF ConnInv, TypeOK, SelectsOpenSockets, EraseTCPConnections
<1>3. NoConnectionOutlivesProbe'
  <2> SUFFICES ASSUME NEW fd \in FDs, NEW p \in Probes, tcp'[fd] = p \/ dns'[fd] = p
               PROVE  probe'[p].state = "waiting" /\ probe'[p].sockFD = fd
    BY DEF NoConnectionOutlivesProbe
  <2>1. p # None
    BY ProbeConnectionsAssumption DEF Probes
  <2>2. tcp[fd] = p \/ dns[fd] = p
    BY <2>1 DEF EraseTCPConnections
  <2>3. probe[p].state = "waiting" /\ probe[p].sockFD = fd
    BY <2>2 DEF ConnInv, NoConnectionOutlivesProbe
  <2>4. p \notin answered
    BY <2>1, ProbeConnectionsAssumption DEF EraseTCPConnections, ConnInv, TypeOK
  <2> QED BY <2>3, <2>4 DEF Answered
<1> QED BY <1>1, <1>2, <1>3 DEF ConnInv

\* The DNS connections of answered probes leave all sets at once.
LEMMA ErasingDNSKeepsConn ==
  ASSUME ConnInv, NEW fds \in SUBSET FDs, NEW answered \in SUBSET DNSProbes,
         \A fd \in fds : dns[fd] # None,
         \A fd \in FDs : dns[fd] \in answered => fd \in fds,
         Answered(answered), EraseDNSConnections(fds), tcp' = tcp, writeSet' = writeSet
  PROVE  ConnInv'
<1>1. TypeOK'
  BY DEF ConnInv, TypeOK, Answered, EraseDNSConnections
<1>2. SelectsOpenSockets'
  BY DEF ConnInv, TypeOK, SelectsOpenSockets, EraseDNSConnections
<1>3. NoConnectionOutlivesProbe'
  <2> SUFFICES ASSUME NEW fd \in FDs, NEW p \in Probes, tcp'[fd] = p \/ dns'[fd] = p
               PROVE  probe'[p].state = "waiting" /\ probe'[p].sockFD = fd
    BY DEF NoConnectionOutlivesProbe
  <2>1. p # None
    BY ProbeConnectionsAssumption DEF Probes
  <2>2. tcp[fd] = p \/ dns[fd] = p
    BY <2>1 DEF EraseDNSConnections
  <2>3. probe[p].state = "waiting" /\ probe[p].sockFD = fd
    BY <2>2 DEF ConnInv, NoConnectionOutlivesProbe
  <2>4. p \notin answered
    BY <2>1, ProbeConnectionsAssumption DEF EraseDNSConnections, ConnInv, TypeOK
  <2> QED BY <2>3, <2>4 DEF Answered
<1> QED BY <1>1, <1>2, <1>3 DEF ConnInv

\* A probe ends that has no connection.
LEMMA EndingKeepsConn ==
  ASSUME ConnInv, NEW p \in Probes, \A fd \in FDs : tcp[fd] # p /\ dns[fd] # p,
         Answered({p}), UNCHANGED <<tcp, dns, writeSet, readSet, socket>>
  PROVE  ConnInv'
BY DEF ConnInv, TypeOK, SelectsOpenSockets, NoConnectionOutlivesProbe, Answered

\* The loop over the writable sockets.
LEMMA HandleTCPKeepsConn ==
  ASSUME ConnInv, NEW ready \in SUBSET FDs, HandleTCPConnections(ready)
  PROVE  ConnInv'
<1> DEFINE answered == {tcp[fd] : fd \in {f \in ready : socket[f] = "up"}}
<1>1. \A fd \in ready : tcp[fd] # None /\ tcp[fd] \in TCPProbes
  BY DEF HandleTCPConnections, ConnInv, TypeOK
<1>2. answered \in SUBSET TCPProbes
  BY <1>1
<1>3. ASSUME NEW fd \in FDs, tcp[fd] \in answered
      PROVE  fd \in ready
  <2>1. PICK other \in ready : tcp[fd] = tcp[other]
    BY <1>3
  <2>2. tcp[fd] \in Probes
    BY <1>1, <2>1 DEF Probes
  <2>3. fd = other
    BY <2>1, <2>2 DEF ConnInv, NoConnectionOutlivesProbe
  <2> QED BY <2>3
<1>4. Answered(answered) /\ EraseTCPConnections(ready) /\ dns' = dns /\ readSet' = readSet
  BY DEF HandleTCPConnections
<1> HIDE DEF answered
<1> QED BY <1>1, <1>2, <1>3, <1>4, ErasingTCPKeepsConn

\* The loop over the readable sockets.
LEMMA HandleDNSKeepsConn ==
  ASSUME ConnInv, NEW ready \in SUBSET FDs, HandleDNSConnections(ready)
  PROVE  ConnInv'
<1> DEFINE answered == {dns[fd] : fd \in ready}
<1>1. \A fd \in ready : dns[fd] # None /\ dns[fd] \in DNSProbes
  BY DEF HandleDNSConnections, ConnInv, TypeOK
<1>2. answered \in SUBSET DNSProbes
  BY <1>1
<1>3. ASSUME NEW fd \in FDs, dns[fd] \in answered
      PROVE  fd \in ready
  <2>1. PICK other \in ready : dns[fd] = dns[other]
    BY <1>3
  <2>2. dns[fd] \in Probes
    BY <1>1, <2>1 DEF Probes
  <2>3. fd = other
    BY <2>1, <2>2 DEF ConnInv, NoConnectionOutlivesProbe
  <2> QED BY <2>3
<1>4. Answered(answered) /\ EraseDNSConnections(ready) /\ tcp' = tcp /\ writeSet' = writeSet
  BY DEF HandleDNSConnections
<1> HIDE DEF answered
<1> QED BY <1>1, <1>2, <1>3, <1>4, ErasingDNSKeepsConn

\* The descriptor of a TCP probe that times out may be another TCP probe's by now:
\* the invariant survives that, since the entry erased need not be its own.
LEMMA ErasingStolenKeepsConn ==
  ASSUME ConnInv, NEW p \in TCPProbes, NEW fd \in FDs, probe[p].sockFD = fd,
         tcp[fd] # None, Answered({p}), EraseTCPConnections({fd}),
         dns' = dns, readSet' = readSet
  PROVE  ConnInv'
<1>1. ASSUME NEW f \in FDs, tcp[f] \in {p}
      PROVE  f \in {fd}
  BY <1>1 DEF ConnInv, NoConnectionOutlivesProbe, Probes
<1> QED BY <1>1, ErasingTCPKeepsConn

\* A TCP probe that times out takes its socket with it.
LEMMA TimeoutTCPKeepsConn ==
  ASSUME ConnInv, NEW p \in Probes, TimeoutTCP(p)
  PROVE  ConnInv'
<1>1. p \in TCPProbes /\ Answered({p}) /\ dns' = dns /\ readSet' = readSet
  BY DEF TimeoutTCP
<1>2. probe[p].sockFD \in FDs \cup {NoFD}
  BY <1>1 DEF ConnInv, TypeOK
<1>3. CASE probe[p].sockFD # NoFD /\ tcp[probe[p].sockFD] # None
  <2>1. EraseTCPConnections({probe[p].sockFD})
    BY <1>3 DEF TimeoutTCP
  <2> QED BY <1>1, <1>2, <1>3, <2>1, ErasingStolenKeepsConn
<1>4. CASE ~ (probe[p].sockFD # NoFD /\ tcp[probe[p].sockFD] # None)
  <2>1. UNCHANGED <<tcp, dns, writeSet, readSet, socket>>
    BY <1>1, <1>4 DEF TimeoutTCP
  <2>2. ASSUME NEW fd \in FDs
        PROVE  tcp[fd] # p /\ dns[fd] # p
    <3>1. dns[fd] # p
      BY <1>1, ProbeConnectionsAssumption DEF ConnInv, TypeOK
    <3>2. fd # NoFD
      BY ProbeConnectionsAssumption DEF FDs, NoFD
    <3>3. tcp[fd] # p
      BY <1>1, <1>4, <3>2, ProbeConnectionsAssumption
         DEF ConnInv, NoConnectionOutlivesProbe, Probes
    <3> QED BY <3>1, <3>3
  <2> QED BY <1>1, <2>1, <2>2, EndingKeepsConn
<1> QED BY <1>3, <1>4

\* A DNS probe that times out takes its socket with it.
LEMMA TimeoutDNSKeepsConn ==
  ASSUME ConnInv, NEW p \in Probes, TimeoutDNS(p)
  PROVE  ConnInv'
<1>1. p \in DNSProbes /\ Answered({p}) /\ tcp' = tcp /\ writeSet' = writeSet
  BY DEF TimeoutDNS
<1>2. probe[p].sockFD \in FDs \cup {NoFD}
  BY <1>1 DEF ConnInv, TypeOK
<1>3. CASE probe[p].sockFD # NoFD /\ dns[probe[p].sockFD] # None
  <2>1. EraseDNSConnections({probe[p].sockFD})
    BY <1>3 DEF TimeoutDNS
  <2>2. ASSUME NEW f \in FDs, dns[f] \in {p}
        PROVE  f \in {probe[p].sockFD}
    BY <1>1, <2>2 DEF ConnInv, NoConnectionOutlivesProbe, Probes
  <2>3. probe[p].sockFD \in FDs
    BY <1>2, <1>3
  <2> QED BY <1>1, <1>3, <2>1, <2>2, <2>3, ErasingDNSKeepsConn
<1>4. CASE ~ (probe[p].sockFD # NoFD /\ dns[probe[p].sockFD] # None)
  <2>1. UNCHANGED <<tcp, dns, writeSet, readSet, socket>>
    BY <1>1, <1>4 DEF TimeoutDNS
  <2>2. ASSUME NEW fd \in FDs
        PROVE  tcp[fd] # p /\ dns[fd] # p
    <3>1. tcp[fd] # p
      BY <1>1, ProbeConnectionsAssumption DEF ConnInv, TypeOK
    <3>2. fd # NoFD
      BY ProbeConnectionsAssumption DEF FDs, NoFD
    <3>3. dns[fd] # p
      BY <1>1, <1>4, <3>2, ProbeConnectionsAssumption
         DEF ConnInv, NoConnectionOutlivesProbe, Probes
    <3> QED BY <3>1, <3>3
  <2> QED BY <1>1, <2>1, <2>2, EndingKeepsConn
<1> QED BY <1>3, <1>4

\* Every step keeps the invariant.
LEMMA NextKeepsConn ==
  ASSUME ConnInv, [Next]_connVars
  PROVE  ConnInv'
<1>1. ASSUME NEW p \in Probes, ProbeFailsAtOnce(p) PROVE ConnInv'
  BY <1>1, FailureKeepsConn
<1>2. ASSUME NEW p \in Probes, AddTCPConnection(p) PROVE ConnInv'
  BY <1>2, AddTCPKeepsConn
<1>3. ASSUME NEW p \in Probes, AddDNSConnection(p) PROVE ConnInv'
  BY <1>3, AddDNSKeepsConn
<1>4. ASSUME NEW fd \in FDs, NetworkAnswers(fd) PROVE ConnInv'
  BY <1>4, AnswerKeepsConn
<1>5. ASSUME NEW ready \in SUBSET FDs, HandleTCPConnections(ready) PROVE ConnInv'
  BY <1>5, HandleTCPKeepsConn
<1>6. ASSUME NEW ready \in SUBSET FDs, HandleDNSConnections(ready) PROVE ConnInv'
  BY <1>6, HandleDNSKeepsConn
<1>7. ASSUME NEW p \in Probes, TimeoutTCP(p) PROVE ConnInv'
  BY <1>7, TimeoutTCPKeepsConn
<1>8. ASSUME NEW p \in Probes, TimeoutDNS(p) PROVE ConnInv'
  BY <1>8, TimeoutDNSKeepsConn
<1>9. CASE UNCHANGED connVars
  BY <1>9 DEF connVars, ConnInv, TypeOK, SelectsOpenSockets, NoConnectionOutlivesProbe
<1> QED BY <1>1, <1>2, <1>3, <1>4, <1>5, <1>6, <1>7, <1>8, <1>9 DEF Next, Timeout

----------------------------------------------------------------------------
(* Theorems *)

\* The sets, the maps and the kernel agree in every state.
LEMMA ConnAlways == Spec => []ConnInv
BY InitConn, NextKeepsConn, PTL DEF Spec

\* Types, for any probes and any number of descriptors.
THEOREM ConnTypeCorrect == Spec => []TypeOK
BY ConnAlways, PTL DEF ConnInv

\* select is never asked about a closed descriptor, nor kept from an open one.
THEOREM SelectSetsCorrect == Spec => []SelectsOpenSockets
BY ConnAlways, PTL DEF ConnInv

\* Both: the state of the connections is well formed.
THEOREM ConnectionsStayConsistent == Spec => []ConnectionsConsistent
BY ConnTypeCorrect, SelectSetsCorrect, PTL DEF ConnectionsConsistent

\* Probes do not leak descriptors, even though a probe may erase another's.
THEOREM ProbesDoNotLeak == Spec => []NoConnectionOutlivesProbe
BY ConnAlways, PTL DEF ConnInv

----------------------------------------------------------------------------
(* DNS probes keep their connections *)

\* A DNS probe that waits has its connection still: unlike a refused TCP
\* connection, only its own handlers erase it.
DNSOwned ==
  \A p \in DNSProbes : probe[p].state = "waiting" /\ probe[p].sockFD # NoFD =>
    dns[probe[p].sockFD] = p

\* A step that leaves the DNS connections alone, and of the waiting DNS probes
\* those that have one, keeps DNSOwned.
LEMMA SameDNSKeepsOwned ==
  ASSUME DNSOwned, dns' = dns,
         \A q \in DNSProbes : probe'[q].state = "waiting" /\ probe'[q].sockFD # NoFD
                                => probe'[q] = probe[q]
  PROVE  DNSOwned'
BY DEF DNSOwned

\* A DNS connection stays with the probe that made it.
LEMMA NextKeepsDNSOwned ==
  ASSUME ConnInv, DNSOwned, [Next]_connVars
  PROVE  DNSOwned'
<1> USE DEF ConnInv, TypeOK, Probes
<1>1. ASSUME NEW p \in Probes, ProbeFailsAtOnce(p) PROVE DNSOwned'
  BY <1>1, SameDNSKeepsOwned DEF ProbeFailsAtOnce, Born
<1>2. ASSUME NEW p \in Probes, AddTCPConnection(p) PROVE DNSOwned'
  BY <1>2, SameDNSKeepsOwned, ProbeConnectionsAssumption DEF AddTCPConnection, Born
<1>3. ASSUME NEW p \in Probes, AddDNSConnection(p) PROVE DNSOwned'
  <2> DEFINE fd == Lowest(Free)
  <2>1. fd \in Free
    BY <1>3, LowestIsFree DEF AddDNSConnection
  <2>2. fd \in FDs /\ dns[fd] = None
    BY <2>1, FreeIsUnused
  <2>3. /\ p \in DNSProbes /\ dns' = [dns EXCEPT ![fd] = p]
        /\ probe' = [probe EXCEPT ![p] = [state |-> "waiting", sockFD |-> fd]]
    BY <1>3 DEF AddDNSConnection, Born
  <2> HIDE DEF fd
  <2> QED BY <2>2, <2>3, ProbeConnectionsAssumption DEF DNSOwned
<1>4. ASSUME NEW fd \in FDs, NetworkAnswers(fd) PROVE DNSOwned'
  BY <1>4, SameDNSKeepsOwned DEF NetworkAnswers
<1>5. ASSUME NEW ready \in SUBSET FDs, HandleTCPConnections(ready) PROVE DNSOwned'
  <2>1. \A q \in DNSProbes : probe'[q] = probe[q]
    <3>1. \A fd \in ready : tcp[fd] \in TCPProbes
      BY <1>5 DEF HandleTCPConnections
    <3> QED BY <1>5, <3>1, ProbeConnectionsAssumption DEF HandleTCPConnections, Answered
  <2> QED BY <1>5, <2>1, SameDNSKeepsOwned DEF HandleTCPConnections
<1>6. ASSUME NEW ready \in SUBSET FDs, HandleDNSConnections(ready) PROVE DNSOwned'
  <2> DEFINE answered == {dns[fd] : fd \in ready}
  <2>1. /\ probe' = [p \in Probes |->
             IF p \in answered THEN [probe[p] EXCEPT !.state = "done"] ELSE probe[p]]
        /\ dns' = [fd \in FDs |-> IF fd \in ready THEN None ELSE dns[fd]]
    BY <1>6 DEF HandleDNSConnections, Answered, EraseDNSConnections
  <2> SUFFICES ASSUME NEW q \in DNSProbes,
                      probe'[q].state = "waiting", probe'[q].sockFD # NoFD
               PROVE  dns'[probe'[q].sockFD] = q
    BY DEF DNSOwned
  <2>2. q \notin answered /\ probe'[q] = probe[q]
    BY <2>1
  <2>3. dns[probe[q].sockFD] = q /\ probe[q].sockFD \in FDs
    BY <2>2 DEF DNSOwned
  <2>4. probe[q].sockFD \notin ready
    BY <2>2, <2>3
  <2> QED BY <2>1, <2>2, <2>3, <2>4
<1>7. ASSUME NEW p \in Probes, TimeoutTCP(p) PROVE DNSOwned'
  BY <1>7, SameDNSKeepsOwned, ProbeConnectionsAssumption DEF TimeoutTCP, Answered
<1>8. ASSUME NEW p \in Probes, TimeoutDNS(p) PROVE DNSOwned'
  <2>1. /\ p \in DNSProbes /\ probe[p].state = "waiting"
        /\ probe' = [q \in Probes |->
             IF q \in {p} THEN [probe[q] EXCEPT !.state = "done"] ELSE probe[q]]
    BY <1>8 DEF TimeoutDNS, Answered
  <2>2. dns' = dns \/ /\ probe[p].sockFD # NoFD
                      /\ dns' = [f \in FDs |->
                           IF f \in {probe[p].sockFD} THEN None ELSE dns[f]]
    BY <1>8 DEF TimeoutDNS, EraseDNSConnections
  <2> SUFFICES ASSUME NEW q \in DNSProbes,
                      probe'[q].state = "waiting", probe'[q].sockFD # NoFD
               PROVE  dns'[probe'[q].sockFD] = q
    BY DEF DNSOwned
  <2>3. q # p /\ probe'[q] = probe[q]
    BY <2>1
  <2>4. dns[probe[q].sockFD] = q /\ probe[q].sockFD \in FDs
    BY <2>3 DEF DNSOwned
  <2>5. probe[p].sockFD # NoFD => dns[probe[p].sockFD] = p
    BY <2>1 DEF DNSOwned
  <2> QED BY <2>2, <2>3, <2>4, <2>5
<1>9. CASE UNCHANGED connVars
  BY <1>9, SameDNSKeepsOwned DEF connVars
<1> QED BY <1>1, <1>2, <1>3, <1>4, <1>5, <1>6, <1>7, <1>8, <1>9 DEF Next, Timeout

\* Both hold in every state.
LEMMA DNSOwnedAlways == Spec => [](ConnInv /\ DNSOwned)
<1>1. Init => DNSOwned
  BY DEF Init, DNSOwned, Probes
<1> QED BY <1>1, InitConn, NextKeepsConn, NextKeepsDNSOwned, PTL DEF Spec

\* A DNS connection goes only when its own probe ends, answered or timed out,
\* although the kernel gives a descriptor out again while ended and refused
\* probes still have it in their sockFD.
THEOREM DNSConnectionsStayOwn == Spec => DNSConnectionIsOwn
<1> DEFINE Own == \A fd \in FDs : dns[fd] # None /\ dns'[fd] # dns[fd] =>
                    probe[dns[fd]].state = "waiting" /\ probe'[dns[fd]].state = "done"
<1>1. ASSUME ConnInv, DNSOwned, [Next]_connVars PROVE [Own]_connVars
  <2> SUFFICES ASSUME Next, NEW fd \in FDs, dns[fd] # None, dns'[fd] # dns[fd]
               PROVE  probe[dns[fd]].state = "waiting" /\ probe'[dns[fd]].state = "done"
    BY <1>1
  <2> USE <1>1 DEF ConnInv, TypeOK, Probes
  <2>1. /\ dns[fd] \in DNSProbes
        /\ probe[dns[fd]].state = "waiting" /\ probe[dns[fd]].sockFD = fd
    BY DEF NoConnectionOutlivesProbe
  <2>2. ASSUME NEW p \in Probes, AddDNSConnection(p) PROVE FALSE
    <3>1. Lowest(Free) \in FDs /\ dns[Lowest(Free)] = None
      BY <2>2, LowestIsFree, FreeIsUnused DEF AddDNSConnection
    <3> QED BY <2>2, <3>1 DEF AddDNSConnection
  <2>3. ASSUME NEW ready \in SUBSET FDs, HandleDNSConnections(ready)
        PROVE  probe'[dns[fd]].state = "done"
    <3>1. fd \in ready
      BY <2>3 DEF HandleDNSConnections, EraseDNSConnections
    <3> QED BY <2>1, <2>3, <3>1 DEF HandleDNSConnections, Answered
  <2>4. ASSUME NEW p \in Probes, TimeoutDNS(p)
        PROVE  probe'[dns[fd]].state = "done"
    <3>1. p \in DNSProbes /\ probe[p].sockFD = fd /\ probe[p].state = "waiting"
      BY <2>4 DEF TimeoutDNS, EraseDNSConnections
    <3>2. fd # NoFD
      BY ProbeConnectionsAssumption DEF FDs, NoFD
    <3>3. dns[fd] = p
      BY <3>1, <3>2 DEF DNSOwned
    <3> QED BY <2>1, <2>4, <3>3 DEF TimeoutDNS, Answered
  <2>5. CASE dns' = dns
    BY <2>5
  <2> QED BY <2>1, <2>2, <2>3, <2>4, <2>5
          DEF Next, Timeout, ProbeFailsAtOnce, AddTCPConnection, NetworkAnswers,
              HandleTCPConnections, TimeoutTCP
<1> QED BY <1>1, DNSOwnedAlways, PTL DEF Spec, DNSConnectionIsOwn

----------------------------------------------------------------------------
(* The packets to send *)

\* The positions from 1 to n of which some are picked, in their order.
Listed(f, m, S) ==
  /\ f \in [1 .. m -> S]
  /\ \A a, b \in 1 .. m : a < b => f[a] < f[b]

\* Positions can be listed in increasing order, by induction on the last.
LEMMA ListExists ==
  ASSUME NEW n \in Nat, NEW S, S \subseteq 1 .. n
  PROVE  /\ IsFiniteSet(S) /\ Cardinality(S) \in Nat
         /\ \E f : Listed(f, Cardinality(S), S)
<1> DEFINE Upto(k) == S \cap (1 .. k)
           Done(k) == /\ IsFiniteSet(Upto(k)) /\ Cardinality(Upto(k)) \in Nat
                      /\ \E f : Listed(f, Cardinality(Upto(k)), Upto(k))
           T == {k \in 0 .. n : ~Done(k)}
<1>1. Done(0)
  <2>1. Upto(0) = {}
    OBVIOUS
  <2>2. IsFiniteSet({}) /\ Cardinality({}) = 0
    BY FS_EmptySet
  <2>3. Listed([i \in {} |-> i], 0, {})
    BY DEF Listed
  <2> QED BY <2>1, <2>2, <2>3
<1>2. ASSUME NEW k \in 1 .. n, Done(k - 1) PROVE Done(k)
  <2>1. CASE k \notin S
    <3>1. Upto(k) = Upto(k - 1)
      BY <2>1
    <3> HIDE DEF Upto
    <3> QED BY <1>2, <3>1
  <2>2. CASE k \in S
    <3>1. Upto(k) = Upto(k - 1) \cup {k} /\ k \notin Upto(k - 1)
          /\ \A i \in Upto(k - 1) : i \in Nat /\ i < k
      BY <2>2
    <3> HIDE DEF Upto
    <3> DEFINE m == Cardinality(Upto(k - 1))
    <3>2. IsFiniteSet(Upto(k)) /\ Cardinality(Upto(k)) = m + 1 /\ m \in Nat
      <4> PICK before : before = Upto(k - 1)
        OBVIOUS
      <4>1. IsFiniteSet(before) /\ Cardinality(before) \in Nat
        BY <1>2
      <4>2. IsFiniteSet(before \cup {k}) /\ Cardinality(before \cup {k}) = Cardinality(before) + 1
        BY <3>1, <4>1, FS_AddElement
      <4> QED BY <3>1, <4>1, <4>2
    <3>3. PICK f : Listed(f, m, Upto(k - 1))
      BY <1>2
    <3> HIDE DEF m
    <3> DEFINE g == [i \in 1 .. m + 1 |-> IF i = m + 1 THEN k ELSE f[i]]
    <3>4. ASSUME NEW i \in 1 .. m + 1, i # m + 1
          PROVE  i \in 1 .. m /\ g[i] = f[i] /\ f[i] \in Upto(k - 1)
      <4>1. i \in 1 .. m
        BY <3>2, <3>4
      <4> QED BY <3>3, <3>4, <4>1 DEF Listed
    <3>5. g \in [1 .. m + 1 -> Upto(k)]
      BY <3>1, <3>4
    <3>6. ASSUME NEW a \in 1 .. m + 1, NEW b \in 1 .. m + 1, a < b PROVE g[a] < g[b]
      <4>1. a # m + 1
        BY <3>2, <3>6
      <4>2. CASE b = m + 1
        <5>1. g[b] = k /\ g[a] \in Upto(k - 1)
          BY <3>4, <4>1, <4>2
        <5> QED BY <3>1, <5>1
      <4>3. CASE b # m + 1
        BY <3>3, <3>4, <3>6, <4>1, <4>3 DEF Listed
      <4> QED BY <4>2, <4>3
    <3>7. Listed(g, m + 1, Upto(k))
      BY <3>5, <3>6 DEF Listed
    <3>8. Cardinality(Upto(k)) = m + 1 /\ m + 1 \in Nat /\ IsFiniteSet(Upto(k))
      BY <3>2
    <3> HIDE DEF g
    <3> QED BY <3>7, <3>8
  <2> QED BY <2>1, <2>2
<1>3. T = {}
  <2> SUFFICES ASSUME T # {} PROVE FALSE
    OBVIOUS
  <2>1. T \subseteq Nat
    OBVIOUS
  <2> HIDE DEF Done
  <2>2. PICK x \in T : \A y \in T : x <= y
    BY <2>1, SmallestExists
  <2>3. x \in 1 .. n
    BY <1>1, <2>2
  <2>4. x - 1 \in 0 .. n /\ x - 1 \notin T
    BY <2>2, <2>3
  <2> QED BY <1>2, <2>2, <2>3, <2>4
<1>4. Done(n)
  <2> HIDE DEF Done
  <2> QED BY <1>3
<1>5. Upto(n) = S
  OBVIOUS
<1> HIDE DEF Upto
<1> QED BY <1>4, <1>5

\* All of S, listed.
Picks(f, m, S, n) == S \subseteq 1 .. n /\ Listed(f, m, S) /\ {f[k] : k \in 1 .. m} = S

\* A list of as many positions as there are names all of them.
LEMMA ListFacts ==
  ASSUME NEW n \in Nat, NEW S, S \subseteq 1 .. n, NEW m, m = Cardinality(S),
         NEW f, Listed(f, m, S)
  PROVE  Picks(f, m, S, n)
<1> DEFINE I == {f[k] : k \in 1 .. m}
<1>1. IsFiniteSet(S) /\ m \in Nat
  BY ListExists
<1>2. I \subseteq S
  BY DEF Listed
<1>3. \A i, j \in 1 .. m : f[i] = f[j] => i = j
  <2> SUFFICES ASSUME NEW i \in 1 .. m, NEW j \in 1 .. m, f[i] = f[j], i # j PROVE FALSE
    OBVIOUS
  <2>1. i < j \/ j < i
    BY <1>1
  <2>2. f[i] \in Nat /\ f[j] \in Nat
    <3>1. f[i] \in S /\ f[j] \in S
      BY DEF Listed
    <3>2. \A x \in S : x \in Nat
      OBVIOUS
    <3> QED BY <3>1, <3>2
  <2> QED BY <2>1, <2>2 DEF Listed
<1>4. f \in Bijection(1 .. m, I)
  <2>1. f \in [1 .. m -> I]
    BY DEF Listed
  <2> QED BY <1>3, <2>1 DEF Bijection, Injection, Surjection, IsInjective
<1>5. IsFiniteSet(1 .. m) /\ Cardinality(1 .. m) = m
  BY <1>1, FS_Interval
<1>6. IsFiniteSet(I) /\ Cardinality(I) = m
  BY <1>4, <1>5, FS_Bijection DEF ExistsBijection
<1>7. I = S
  BY <1>1, <1>2, <1>6, FS_Subset
<1> QED BY <1>7 DEF Picks

\* Adding to both sides keeps an order.
LEMMA SumAhead ==
  ASSUME NEW c \in Int, NEW y \in Int, NEW z \in Int, y < z
  PROVE  c + y < c + z
OBVIOUS

\* Adding to one side keeps it too.
LEMMA SumBehind ==
  ASSUME NEW c \in Int, NEW y \in Int, NEW n \in Int, NEW j \in Int, y <= n, 0 < j
  PROVE  c + y < c + n + j
OBVIOUS

\* Sums with one thing in common differ as the others do.
LEMMA SumApart ==
  ASSUME NEW c \in Int, NEW y \in Int, NEW p \in Int, y # p
  PROVE  c + y # c + p
OBVIOUS

\* A line of which the first c have gone already; of the next n those at the m positions
\* of S go now, in the order listed by f, and the others fall out.
Thinned(line, after, c, n, m, f) ==
  /\ \A i \in 1 .. c : after[i] = line[i]
  /\ \A i \in 1 .. Len(after) : \A k \in 1 .. m : i = c + k => after[i] = line[c + f[k]]
  /\ \A i \in 1 .. Len(after) : \A j \in Nat \ {0} : i = c + m + j => after[i] = line[c + n + j]

Fallen(line, c, n, S) == {line[c + i] : i \in (1 .. n) \ S}

Setting(line, after, c, N, n, S, m, f) ==
  /\ line \in Seq(Int) /\ Rising(line)
  /\ c \in Nat /\ N \in Nat /\ Len(line) = c + N
  /\ n \in 0 .. N /\ m \in Nat /\ Picks(f, m, S, n)
  /\ after \in Seq(Int) /\ Len(after) = c + m + (N - n)
  /\ Thinned(line, after, c, n, m, f)

\* The rest of the line is in order, and nothing else is missing from it.
LEMMA SomeLeave ==
  ASSUME NEW line, NEW after, NEW c, NEW N, NEW n, NEW S, NEW m, NEW f,
         Setting(line, after, c, N, n, S, m, f)
  PROVE  Rising(after) /\ Elems(after) = Elems(line) \ Fallen(line, c, n, S)
<1> USE DEF Setting
<1> DEFINE h(i) == IF i <= c THEN i ELSE IF i <= c + m THEN c + f[i - c] ELSE (i - m) + n
           l == c + m + (N - n)
<1>1. /\ \A k \in 1 .. m : f[k] \in S /\ f[k] \in 1 .. n
      /\ \A k, x \in 1 .. m : k < x => f[k] < f[x]
  BY DEF Listed, Picks
<1>2. /\ \A i \in 1 .. c : h(i) = i
      /\ \A i \in 1 .. l : \A k \in 1 .. m : i = c + k => h(i) = c + f[k]
      /\ \A i \in 1 .. l : \A j \in 1 .. N - n : i = c + m + j => h(i) = c + n + j
  <2>1. ASSUME NEW i \in 1 .. l, NEW k \in 1 .. m, i = c + k PROVE h(i) = c + f[k]
    <3>1. ~(i <= c) /\ i <= c + m /\ i - c = k
      BY <2>1
    <3> QED BY <3>1
  <2>2. ASSUME NEW i \in 1 .. l, NEW j \in 1 .. N - n, i = c + m + j PROVE h(i) = c + n + j
    <3>1. ~(i <= c) /\ ~(i <= c + m) /\ (i - m) + n = c + n + j
      BY <2>2
    <3> QED BY <3>1
  <2> QED BY <2>1, <2>2
<1> HIDE DEF h
<1>3. ASSUME NEW i \in 1 .. l
      PROVE  \/ i \in 1 .. c
             \/ \E k \in 1 .. m : i = c + k
             \/ \E j \in 1 .. N - n : i = c + m + j
  <2>1. CASE i <= c
    BY <2>1
  <2>2. CASE c < i /\ i <= c + m
    <3>1. i - c \in 1 .. m /\ i = c + (i - c)
      BY <2>2
    <3> QED BY <3>1
  <2>3. CASE c + m < i
    <3>1. i - (c + m) \in 1 .. N - n /\ i = c + m + (i - (c + m))
      BY <2>3
    <3> QED BY <3>1
  <2> QED BY <2>1, <2>2, <2>3
<1>4. ASSUME NEW i \in 1 .. l
      PROVE  h(i) \in 1 .. c + N /\ after[i] = line[h(i)]
  <2>1. CASE i \in 1 .. c
    BY <1>2, <2>1 DEF Thinned
  <2>2. ASSUME NEW k \in 1 .. m, i = c + k PROVE h(i) \in 1 .. c + N /\ after[i] = line[h(i)]
    <3> PICK p \in 1 .. n : p = f[k]
      BY <1>1
    <3>1. h(i) = c + p /\ after[i] = line[c + p]
      BY <1>2, <2>2 DEF Thinned
    <3>2. c + p \in 1 .. c + N
      OBVIOUS
    <3> QED BY <3>1, <3>2
  <2>3. ASSUME NEW j \in 1 .. N - n, i = c + m + j
        PROVE  h(i) \in 1 .. c + N /\ after[i] = line[h(i)]
    <3>1. h(i) = c + n + j
      BY <1>2, <2>3
    <3>3. i \in 1 .. Len(after) /\ j \in Nat \ {0}
      OBVIOUS
    <3>4. after[i] = line[c + n + j]
      BY <2>3, <3>3 DEF Thinned
    <3>2. c + n + j \in 1 .. c + N
      OBVIOUS
    <3> QED BY <3>1, <3>2, <3>4
  <2> QED BY <1>3, <2>1, <2>2, <2>3
<1>5. ASSUME NEW a \in 1 .. l, NEW b \in 1 .. l, a < b PROVE h(a) < h(b)
  <2>1. CASE b \in 1 .. c
    BY <1>2, <1>5, <2>1
  <2>2. ASSUME NEW k \in 1 .. m, b = c + k PROVE h(a) < h(b)
    <3>1. f[k] \in 1 .. n /\ h(b) = c + f[k]
      BY <1>1, <1>2, <2>2
    <3>2. CASE a \in 1 .. c
      BY <1>2, <3>1, <3>2
    <3>3. ASSUME NEW x \in 1 .. m, a = c + x PROVE h(a) < h(b)
      <4>1. x < k
        BY <1>5, <2>2, <3>3
      <4>2. f[x] < f[k] /\ h(a) = c + f[x]
        BY <1>1, <1>2, <3>3, <4>1
      <4> PICK y \in 1 .. n, z \in 1 .. n : y = f[x] /\ z = f[k]
        BY <1>1
      <4>3. c \in Int /\ y \in Int /\ z \in Int /\ y < z
        BY <4>2
      <4>4. c + y < c + z
        BY <4>3, SumAhead
      <4> QED BY <3>1, <4>2, <4>4
    <3>4. ~ \E j \in 1 .. N - n : a = c + m + j
      BY <1>5, <2>2
    <3> QED BY <1>3, <3>2, <3>3, <3>4
  <2>3. ASSUME NEW j \in 1 .. N - n, b = c + m + j PROVE h(a) < h(b)
    <3>1. h(b) = c + n + j
      BY <1>2, <2>3
    <3>2. CASE a \in 1 .. c
      BY <1>2, <3>1, <3>2
    <3>3. ASSUME NEW x \in 1 .. m, a = c + x PROVE h(a) < h(b)
      <4> PICK y \in 1 .. n : y = f[x]
        BY <1>1
      <4>1. h(a) = c + y
        BY <1>2, <3>3
      <4>2. c \in Int /\ y \in Int /\ n \in Int /\ j \in Int /\ y <= n /\ 0 < j
        OBVIOUS
      <4>3. c + y < c + n + j
        BY <4>2, SumBehind
      <4> QED BY <3>1, <4>1, <4>3
    <3>4. ASSUME NEW i \in 1 .. N - n, a = c + m + i PROVE h(a) < h(b)
      <4>1. h(a) = c + n + i
        BY <1>2, <3>4
      <4>2. i < j
        BY <1>5, <2>3, <3>4
      <4> QED BY <3>1, <4>1, <4>2
    <3> QED BY <1>3, <3>2, <3>3, <3>4
  <2> QED BY <1>3, <2>1, <2>2, <2>3
<1>6. Rising(after)
  <2> SUFFICES ASSUME NEW a \in 1 .. l, NEW b \in 1 .. l, a < b PROVE after[a] < after[b]
    BY DEF Rising
  <2>1. /\ after[a] = line[h(a)] /\ after[b] = line[h(b)] /\ h(a) < h(b)
        /\ h(a) \in 1 .. c + N /\ h(b) \in 1 .. c + N
    BY <1>4, <1>5
  <2> QED BY <2>1 DEF Rising
<1>7. ASSUME NEW i \in 1 .. c + N, NEW j \in 1 .. c + N, line[i] = line[j] PROVE i = j
  <2>1. i < j \/ i = j \/ j < i
    OBVIOUS
  <2>2. line[i] \in Int /\ line[j] \in Int
    OBVIOUS
  <2> QED BY <1>7, <2>1, <2>2 DEF Rising
<1>8. ASSUME NEW i \in 1 .. l PROVE after[i] \in Elems(line) /\ after[i] \notin Fallen(line, c, n, S)
  <2>1. ASSUME NEW p \in (1 .. n) \ S PROVE h(i) # c + p
    <3>1. CASE i \in 1 .. c
      BY <1>2, <3>1
    <3>2. ASSUME NEW k \in 1 .. m, i = c + k PROVE h(i) # c + p
      <4> PICK y \in 1 .. n : y = f[k] /\ y \in S
        BY <1>1
      <4>1. h(i) = c + y
        BY <1>2, <3>2
      <4>2. y # p /\ p \in Int /\ y \in Int /\ c \in Int
        OBVIOUS
      <4>3. c + y # c + p
        BY <4>2, SumApart
      <4> QED BY <4>1, <4>3
    <3>3. ASSUME NEW j \in 1 .. N - n, i = c + m + j PROVE h(i) # c + p
      <4>1. h(i) = c + n + j
        BY <1>2, <3>3
      <4>2. p \in 1 .. n /\ c + n + j # c + p
        OBVIOUS
      <4> QED BY <4>1, <4>2
    <3> QED BY <1>3, <3>1, <3>2, <3>3
  <2>2. h(i) \in 1 .. c + N /\ after[i] = line[h(i)]
    BY <1>4
  <2>3. ASSUME NEW p \in (1 .. n) \ S PROVE after[i] # line[c + p]
    <3>1. c + p \in 1 .. c + N
      OBVIOUS
    <3> QED BY <1>7, <2>1, <2>2, <3>1
  <2> QED BY <2>2, <2>3 DEF Elems, Fallen
<1>9. ASSUME NEW i \in 1 .. c + N, line[i] \notin Fallen(line, c, n, S)
      PROVE  \E j \in 1 .. l : after[j] = line[i]
  <2>1. CASE i <= c
    <3>1. i \in 1 .. l /\ after[i] = line[i]
      BY <2>1 DEF Thinned
    <3> QED BY <3>1
  <2>2. CASE c < i /\ i <= c + n
    <3>1. i - c \in 1 .. n /\ i = c + (i - c)
      BY <2>2
    <3>2. i - c \in S
      BY <1>9, <3>1 DEF Fallen
    <3>3. PICK k \in 1 .. m : f[k] = i - c
      BY <3>2 DEF Picks
    <3> PICK x \in 1 .. l : x = c + k
      OBVIOUS
    <3>4. after[x] = line[c + f[k]]
      BY DEF Thinned
    <3> QED BY <3>1, <3>3, <3>4
  <2>3. CASE c + n < i
    <3>1. i - (c + n) \in 1 .. N - n /\ i = c + n + (i - (c + n))
      BY <2>3
    <3> PICK j \in 1 .. N - n : i = c + n + j
      BY <3>1
    <3> PICK x \in 1 .. l : x = c + m + j
      OBVIOUS
    <3>2. after[x] = line[i]
      BY DEF Thinned
    <3> QED BY <3>2
  <2> QED BY <2>1, <2>2, <2>3
<1>10. Elems(after) = Elems(line) \ Fallen(line, c, n, S)
  <2> DEFINE A == Elems(after)
             B == Elems(line)
  <2>1. \A x \in A : x \in B \ Fallen(line, c, n, S)
    BY <1>8 DEF Elems
  <2>2. \A x \in B \ Fallen(line, c, n, S) : x \in A
    <3> QED BY <1>9 DEF Elems
  <2> HIDE DEF A, B
  <2>3. A = B \ Fallen(line, c, n, S)
    BY <2>1, <2>2
  <2> QED BY <2>3 DEF A, B
<1> QED BY <1>6, <1>10

----------------------------------------------------------------------------
(* The queue *)

\* The loop of writePending keeps the order and forgets nothing.
LEMMA LeaveKeeps ==
  ASSUME MaxPackets \in Nat, QueueConsistent, NEW n \in 0 .. Len(outPacketList),
         NEW outcome \in [1 .. n -> Outcomes], Leave(outcome, n), next' = next
  PROVE  /\ PacketsInOrder'
         /\ outPacketList' \in Seq(Packet) /\ Len(outPacketList') = Len(outPacketList) - n
         /\ sent' \in Seq(1 .. MaxPackets) /\ dropped' \subseteq 1 .. MaxPackets
<1> DEFINE S == {i \in 1 .. n : outcome[i] = "sent"}
           m == Cardinality(S)
           g == CHOOSE f \in [1 .. m -> S] : \A a, b \in 1 .. m : a < b => f[a] < f[b]
           N == Len(outPacketList)
           c == Len(sent)
           G == [k \in 1 .. m |-> outPacketList[g[k]].number]
           rest == SubSeq(outPacketList, n + 1, N)
<1>1. n \in Nat /\ S \subseteq 1 .. n
  OBVIOUS
<1>2. /\ sent' = sent \o G
      /\ dropped' = dropped \cup {outPacketList[i].number : i \in (1 .. n) \ S}
      /\ outPacketList' = rest
  BY DEF Leave
<1>3. /\ outPacketList \in Seq(Packet) /\ sent \in Seq(1 .. MaxPackets)
      /\ dropped \subseteq 1 .. MaxPackets /\ next \in 1 .. MaxPackets + 1
      /\ N \in Nat /\ c \in Nat
  BY DEF QueueConsistent, OutTypeOK
<1>4. m \in Nat /\ Listed(g, m, S)
  <2> HIDE DEF S
  <2>0. m = Cardinality(S)
    OBVIOUS
  <2> HIDE DEF m
  <2>1. m \in Nat /\ \E f : Listed(f, m, S)
    BY <1>1, <2>0, ListExists
  <2>2. \E f \in [1 .. m -> S] : \A a, b \in 1 .. m : a < b => f[a] < f[b]
    BY <2>1 DEF Listed
  <2>3. g \in [1 .. m -> S] /\ \A a, b \in 1 .. m : a < b => g[a] < g[b]
    BY <2>2
  <2> QED BY <2>1, <2>3 DEF Listed
<1> HIDE DEF g
<1>5. Picks(g, m, S, n)
  <2> HIDE DEF S
  <2>1. m = Cardinality(S)
    OBVIOUS
  <2> HIDE DEF m
  <2> QED BY <1>1, <1>4, <2>1, ListFacts
<1>6. \A i \in 1 .. N : outPacketList[i].number \in 1 .. MaxPackets
  <2>1. \A i \in 1 .. N : outPacketList[i] \in Packet
    BY <1>3
  <2> QED BY <2>1 DEF Packet
<1>7. \A k \in 1 .. m : g[k] \in 1 .. n /\ g[k] \in 1 .. N
  <2> SUFFICES ASSUME NEW k \in 1 .. m PROVE g[k] \in 1 .. n /\ g[k] \in 1 .. N
    OBVIOUS
  <2>1. g[k] \in S
    BY <1>4 DEF Listed
  <2> QED BY <1>3, <2>1
<1> HIDE DEF m, S
<1>8. G \in Seq(1 .. MaxPackets) /\ Len(G) = m /\ \A k \in 1 .. m : G[k] = outPacketList[g[k]].number
  <2>1. \A k \in 1 .. m : outPacketList[g[k]].number \in 1 .. MaxPackets
    BY <1>6, <1>7
  <2>2. G \in [1 .. m -> 1 .. MaxPackets]
    BY <2>1
  <2> QED BY <1>4, <2>2
<1>9. /\ rest \in Seq(Packet) /\ Len(rest) = N - n
      /\ \A j \in 1 .. N - n : rest[j] = outPacketList[n + j]
  BY <1>1, <1>3
<1> HIDE DEF G, rest
<1> DEFINE A == Numbers(outPacketList)
           B == Numbers(rest)
           line == sent \o A
           after == (sent \o G) \o B
<1>10. /\ A \in Seq(1 .. MaxPackets) /\ Len(A) = N
       /\ \A i \in 1 .. N : A[i] = outPacketList[i].number
  BY <1>3, <1>6 DEF Numbers
<1>11. /\ B \in Seq(1 .. MaxPackets) /\ Len(B) = N - n
       /\ \A j \in 1 .. N - n : B[j] = A[n + j]
  <2>1. \A j \in 1 .. N - n : n + j \in 1 .. N
    BY <1>1, <1>3
  <2>2. \A j \in 1 .. N - n : rest[j].number \in 1 .. MaxPackets
    BY <1>6, <1>9, <2>1
  <2>3. B \in [1 .. N - n -> 1 .. MaxPackets] /\ \A j \in 1 .. N - n : B[j] = rest[j].number
    BY <1>9, <2>2 DEF Numbers
  <2>4. N - n \in Nat
    BY <1>1, <1>3
  <2>5. ASSUME NEW j \in 1 .. N - n PROVE B[j] = A[n + j]
    <3> PICK p \in 1 .. N : p = n + j
      BY <2>1
    <3>0. B[j] = rest[j].number
      BY <2>3
    <3>1. rest[j] = outPacketList[p]
      BY <1>9
    <3>2. A[p] = outPacketList[p].number
      BY <1>10
    <3> QED BY <3>0, <3>1, <3>2
  <2> HIDE DEF B
  <2>6. B \in Seq(1 .. MaxPackets) /\ Len(B) = N - n
    <3> PICK b, l, T : b = B /\ l = N - n /\ T = 1 .. MaxPackets
      OBVIOUS
    <3>1. l \in Nat /\ b \in [1 .. l -> T]
      BY <2>3, <2>4
    <3> QED BY <3>1, IsSequence
  <2> QED BY <2>5, <2>6
<1> HIDE DEF A, B, N, c
<1>12. /\ line \in Seq(Int) /\ Len(line) = c + N
       /\ \A i \in 1 .. c : line[i] = sent[i]
       /\ \A i \in 1 .. c + N : \A j \in Nat \ {0} : i = c + j => line[i] = A[j]
  <2>1. sent \in Seq(Int) /\ A \in Seq(Int)
    BY <1>3, <1>10
  <2>2. /\ sent \o A \in Seq(Int) /\ Len(sent \o A) = Len(sent) + Len(A)
        /\ \A i \in 1 .. Len(sent) : (sent \o A)[i] = sent[i]
        /\ \A i \in 1 .. Len(sent) + Len(A) : \A j \in Nat \ {0} :
             i = Len(sent) + j => (sent \o A)[i] = A[j]
    BY <2>1, ConcatFacts
  <2> QED BY <1>10, <2>2 DEF c
<1>13. /\ after \in Seq(Int) /\ Len(after) = c + m + (N - n)
       /\ \A i \in 1 .. c : after[i] = sent[i]
       /\ \A i \in 1 .. Len(after) : \A k \in 1 .. m : i = c + k => after[i] = G[k]
       /\ \A i \in 1 .. Len(after) : \A j \in Nat \ {0} : i = c + m + j => after[i] = B[j]
  <2> DEFINE gone == sent \o G
  <2>1. sent \in Seq(Int) /\ G \in Seq(Int) /\ B \in Seq(Int)
    BY <1>3, <1>8, <1>11, SMTT(40)
  <2>2. /\ gone \in Seq(Int) /\ Len(gone) = c + m
        /\ \A i \in 1 .. c : gone[i] = sent[i]
        /\ \A i \in 1 .. c + m : \A k \in Nat \ {0} : i = c + k => gone[i] = G[k]
    <3>1. /\ sent \o G \in Seq(Int) /\ Len(sent \o G) = Len(sent) + Len(G)
          /\ \A i \in 1 .. Len(sent) : (sent \o G)[i] = sent[i]
          /\ \A i \in 1 .. Len(sent) + Len(G) : \A j \in Nat \ {0} :
               i = Len(sent) + j => (sent \o G)[i] = G[j]
      BY <2>1, ConcatFacts
    <3> QED BY <1>8, <3>1 DEF c
  <2> HIDE DEF gone
  <2>3. /\ gone \o B \in Seq(Int) /\ Len(gone \o B) = c + m + (N - n)
        /\ \A i \in 1 .. c + m : (gone \o B)[i] = gone[i]
        /\ \A i \in 1 .. c + m + (N - n) : \A j \in Nat \ {0} :
             i = c + m + j => (gone \o B)[i] = B[j]
    <3>1. /\ gone \o B \in Seq(Int) /\ Len(gone \o B) = Len(gone) + Len(B)
          /\ \A i \in 1 .. Len(gone) : (gone \o B)[i] = gone[i]
          /\ \A i \in 1 .. Len(gone) + Len(B) : \A j \in Nat \ {0} :
               i = Len(gone) + j => (gone \o B)[i] = B[j]
      <4> PICK x, y : x = gone /\ y = B
        OBVIOUS
      <4>1. x \in Seq(Int) /\ y \in Seq(Int)
        BY <2>1, <2>2
      <4>2. /\ x \o y \in Seq(Int) /\ Len(x \o y) = Len(x) + Len(y)
            /\ \A i \in 1 .. Len(x) : (x \o y)[i] = x[i]
            /\ \A i \in 1 .. Len(x) + Len(y) : \A j \in Nat \ {0} :
                 i = Len(x) + j => (x \o y)[i] = y[j]
        BY <4>1, ConcatFacts
      <4> QED BY <4>2
    <3> QED BY <1>11, <2>2, <3>1
  <2>4. after = gone \o B
    BY DEF gone
  <2> HIDE DEF after
  <2>5. \A i \in 1 .. c : i \in 1 .. c + m
    BY <1>3, <1>4
  <2>6. \A i \in 1 .. c : after[i] = sent[i]
    BY <2>2, <2>3, <2>4, <2>5
  <2>7. ASSUME NEW i \in 1 .. Len(after), NEW k \in 1 .. m, i = c + k PROVE after[i] = G[k]
    <3>1. i \in 1 .. c + m /\ k \in Nat \ {0}
      BY <1>3, <1>4, <2>7
    <3> QED BY <2>2, <2>3, <2>4, <2>7, <3>1
  <2>8. Len(after) = c + m + (N - n) /\ after \in Seq(Int)
    BY <2>3, <2>4
  <2>9. \A i \in 1 .. Len(after) : \A j \in Nat \ {0} : i = c + m + j => after[i] = B[j]
    BY <2>3, <2>4, <2>8
  <2> QED BY <2>6, <2>7, <2>8, <2>9
<1>14. Rising(line) /\ Elems(line) \cup dropped = 1 .. next - 1
       /\ Elems(line) \cap dropped = {}
  BY DEF QueueConsistent, PacketsInOrder, Rising, A
<1> HIDE DEF line, after
<1>15. Thinned(line, after, c, n, m, g)
  <2>1. n \in 0 .. N
    BY DEF N
  <2>2. \A i \in 1 .. c : after[i] = line[i]
    BY <1>12, <1>13
  <2>3. ASSUME NEW i \in 1 .. Len(after), NEW k \in 1 .. m, i = c + k
        PROVE  after[i] = line[c + g[k]]
    <3> PICK p \in 1 .. N : p = g[k]
      BY <1>7
    <3>1. after[i] = G[k] /\ G[k] = outPacketList[p].number /\ A[p] = outPacketList[p].number
      BY <1>8, <1>10, <1>13, <2>3
    <3>2. c + p \in 1 .. c + N /\ p \in Nat \ {0}
      BY <1>3
    <3>3. line[c + p] = A[p]
      BY <1>12, <3>2
    <3> QED BY <3>1, <3>3
  <2>4. ASSUME NEW i \in 1 .. Len(after), NEW j \in Nat \ {0}, i = c + m + j
        PROVE  after[i] = line[c + n + j]
    <3>1. j \in 1 .. N - n
      BY <1>3, <1>4, <1>13, <2>1, <2>4
    <3>2. after[i] = B[j] /\ B[j] = A[n + j]
      BY <1>11, <1>13, <2>4, <3>1
    <3> PICK p \in 1 .. N : p = n + j
      BY <1>3, <2>1, <3>1
    <3>3. c + p \in 1 .. c + N /\ p \in Nat \ {0} /\ c + p = c + n + j
      BY <1>3, <2>1
    <3>4. line[c + p] = A[p]
      BY <1>12, <3>3
    <3> QED BY <3>2, <3>3, <3>4
  <2> QED BY <2>2, <2>3, <2>4 DEF Thinned
<1> DEFINE lost == {outPacketList[i].number : i \in (1 .. n) \ S}
<1>16. Fallen(line, c, n, S) = lost
  <2>1. ASSUME NEW i \in (1 .. n) \ S PROVE line[c + i] = outPacketList[i].number
    <3>1. i \in 1 .. N
      BY <1>3 DEF N
    <3>2. c + i \in 1 .. c + N /\ i \in Nat \ {0}
      BY <1>3, <3>1
    <3> QED BY <1>10, <1>12, <3>1, <3>2
  <2> QED BY <2>1 DEF Fallen
<1>17. Rising(after) /\ Elems(after) = Elems(line) \ lost
  <2>1. n \in 0 .. N
    BY DEF N
  <2> HIDE DEF lost
  <2>2. Setting(line, after, c, N, n, S, m, g)
    BY <1>3, <1>4, <1>5, <1>12, <1>13, <1>14, <1>15, <2>1 DEF Setting
  <2>3. PICK x, y, d, M, T, f, k, p :
             /\ x = line /\ y = after /\ d = c /\ M = N
             /\ T = S /\ f = g /\ k = m /\ p = n
    OBVIOUS
  <2>5. Setting(x, y, d, M, p, T, k, f)
    BY <2>2, <2>3
  <2>4. Rising(y) /\ Elems(y) = Elems(x) \ Fallen(x, d, p, T)
    BY <2>5, SomeLeave
  <2> QED BY <1>16, <2>3, <2>4
<1>18. lost \subseteq Elems(line)
  <2>1. ASSUME NEW i \in (1 .. n) \ S PROVE outPacketList[i].number \in Elems(line)
    <3>1. i \in 1 .. N
      BY <1>3 DEF N
    <3>2. c + i \in 1 .. c + N /\ i \in Nat \ {0}
      BY <1>3, <3>1
    <3>3. line[c + i] = outPacketList[i].number
      BY <1>10, <1>12, <3>1, <3>2
    <3> QED BY <1>12, <3>2, <3>3 DEF Elems
  <2> QED BY <2>1
<1>19. Elems(after) \cup dropped' = 1 .. next' - 1 /\ Elems(after) \cap dropped' = {}
  <2>1. dropped' = dropped \cup lost
    BY <1>2
  <2> HIDE DEF lost
  <2> QED BY <1>14, <1>17, <1>18, <2>1
<1>20. after = sent' \o Numbers(outPacketList')
  BY <1>2 DEF after, B
<1>21. PacketsInOrder'
  <2> PICK x : x = after
    OBVIOUS
  <2>1. (sent \o Numbers(outPacketList))' = x
    BY <1>20 DEF Numbers
  <2> QED BY <1>17, <1>19, <2>1 DEF PacketsInOrder, Rising
<1>22. outPacketList' \in Seq(Packet) /\ Len(outPacketList') = N - n
  BY <1>2, <1>9
<1>23. sent' \in Seq(1 .. MaxPackets)
  BY <1>2, <1>3, <1>8
<1>24. dropped' \subseteq 1 .. MaxPackets
  <2>1. dropped' \subseteq 1 .. next - 1
    BY <1>19
  <2> QED BY <1>3, <2>1
<1> QED BY <1>21, <1>22, <1>23, <1>24 DEF N

\* A packet queued is the last of the line.
LEMMA AddKeeps ==
  ASSUME MaxPackets \in Nat, QueueConsistent, NEW kind \in Kinds, AddOutPacket(kind)
  PROVE  QueueConsistent'
<1> DEFINE packet == [number |-> next, kind |-> kind]
           N == Len(outPacketList)
           c == Len(sent)
           A == Numbers(outPacketList)
           B == Numbers(outPacketList')
           line == sent \o A
           after == sent \o B
<1>1. /\ next <= MaxPackets /\ outPacketList' = Append(outPacketList, packet)
      /\ writeBit' = TRUE /\ next' = next + 1
      /\ errno' = errno /\ sent' = sent /\ dropped' = dropped
  BY DEF AddOutPacket
<1>2. /\ outPacketList \in Seq(Packet) /\ sent \in Seq(1 .. MaxPackets)
      /\ dropped \subseteq 1 .. MaxPackets /\ next \in 1 .. MaxPackets + 1
      /\ writeBit \in BOOLEAN /\ errno \in {"EAGAIN", "other"} /\ N \in Nat /\ c \in Nat
  BY DEF QueueConsistent, OutTypeOK
<1>3. packet \in Packet /\ next \in 1 .. MaxPackets /\ packet.number = next
  BY <1>1, <1>2 DEF Packet
<1> HIDE DEF packet
<1>4. /\ outPacketList' \in Seq(Packet) /\ Len(outPacketList') = N + 1
      /\ outPacketList'[N + 1] = packet
      /\ \A i \in 1 .. N : outPacketList'[i] = outPacketList[i]
  BY <1>1, <1>2, <1>3
<1>5. OutTypeOK'
  <2>1. next' \in 1 .. MaxPackets + 1
    BY <1>1, <1>3
  <2> QED BY <1>1, <1>2, <1>4, <2>1 DEF OutTypeOK, Packet
<1>6. WatchedIffQueued'
  BY <1>1, <1>2, <1>4 DEF WatchedIffQueued
<1>7. \A i \in 1 .. N : outPacketList[i].number \in 1 .. MaxPackets
  <2>1. \A i \in 1 .. N : outPacketList[i] \in Packet
    BY <1>2
  <2> QED BY <2>1 DEF Packet
<1>8. /\ A \in Seq(Int) /\ Len(A) = N
      /\ \A i \in 1 .. N : A[i] = outPacketList[i].number
  BY <1>2, <1>7 DEF Numbers
<1>9. /\ B \in Seq(Int) /\ Len(B) = N + 1 /\ B[N + 1] = next
      /\ \A i \in 1 .. N : B[i] = A[i]
  <2>1. \A i \in 1 .. N + 1 : outPacketList'[i].number \in Int
    BY <1>2, <1>3, <1>4, <1>7
  <2>2. B \in [1 .. N + 1 -> Int] /\ \A i \in 1 .. N + 1 : B[i] = outPacketList'[i].number
    BY <1>4, <2>1 DEF Numbers
  <2> HIDE DEF B
  <2>3. B \in Seq(Int) /\ Len(B) = N + 1
    BY <1>2, <2>2
  <2>4. ASSUME NEW i \in 1 .. N PROVE B[i] = A[i]
    <3>1. i \in 1 .. N + 1
      BY <1>2
    <3> QED BY <1>4, <1>8, <2>2, <3>1
  <2>5. N + 1 \in 1 .. N + 1
    BY <1>2
  <2>6. B[N + 1] = outPacketList'[N + 1].number
    BY <2>2, <2>5
  <2> QED BY <1>3, <1>4, <2>3, <2>4, <2>6
<1> HIDE DEF A, B, N, c
<1>10. /\ line \in Seq(Int) /\ Len(line) = c + N
       /\ \A i \in 1 .. c : line[i] = sent[i]
       /\ \A i \in 1 .. c + N : \A j \in Nat \ {0} : i = c + j => line[i] = A[j]
  <2>1. sent \in Seq(Int)
    BY <1>2
  <2>2. /\ sent \o A \in Seq(Int) /\ Len(sent \o A) = Len(sent) + Len(A)
        /\ \A i \in 1 .. Len(sent) : (sent \o A)[i] = sent[i]
        /\ \A i \in 1 .. Len(sent) + Len(A) : \A j \in Nat \ {0} :
             i = Len(sent) + j => (sent \o A)[i] = A[j]
    <3> PICK x, y : x = sent /\ y = A
      OBVIOUS
    <3>1. x \in Seq(Int) /\ y \in Seq(Int)
      BY <1>8, <2>1
    <3>2. /\ x \o y \in Seq(Int) /\ Len(x \o y) = Len(x) + Len(y)
          /\ \A i \in 1 .. Len(x) : (x \o y)[i] = x[i]
          /\ \A i \in 1 .. Len(x) + Len(y) : \A j \in Nat \ {0} :
               i = Len(x) + j => (x \o y)[i] = y[j]
      BY <3>1, ConcatFacts
    <3> QED BY <3>2
  <2> QED BY <1>8, <2>2 DEF c
<1>11. /\ after \in Seq(Int) /\ Len(after) = c + N + 1
       /\ \A i \in 1 .. c + N : after[i] = line[i]
       /\ after[c + N + 1] = next
  <2>1. sent \in Seq(Int)
    BY <1>2
  <2>2. /\ sent \o B \in Seq(Int) /\ Len(sent \o B) = Len(sent) + Len(B)
        /\ \A i \in 1 .. Len(sent) : (sent \o B)[i] = sent[i]
        /\ \A i \in 1 .. Len(sent) + Len(B) : \A j \in Nat \ {0} :
             i = Len(sent) + j => (sent \o B)[i] = B[j]
    <3> PICK x, y : x = sent /\ y = B
      OBVIOUS
    <3>1. x \in Seq(Int) /\ y \in Seq(Int)
      BY <1>9, <2>1
    <3>2. /\ x \o y \in Seq(Int) /\ Len(x \o y) = Len(x) + Len(y)
          /\ \A i \in 1 .. Len(x) : (x \o y)[i] = x[i]
          /\ \A i \in 1 .. Len(x) + Len(y) : \A j \in Nat \ {0} :
               i = Len(x) + j => (x \o y)[i] = y[j]
      BY <3>1, ConcatFacts
    <3> QED BY <3>2
  <2>3. /\ after \in Seq(Int) /\ Len(after) = c + N + 1
        /\ \A i \in 1 .. c : after[i] = sent[i]
        /\ \A i \in 1 .. c + N + 1 : \A j \in Nat \ {0} : i = c + j => after[i] = B[j]
    BY <1>2, <1>9, <2>2 DEF c
  <2> HIDE DEF after, line
  <2>4. ASSUME NEW i \in 1 .. c + N PROVE after[i] = line[i]
    <3>1. CASE i <= c
      BY <1>2, <1>10, <2>3, <3>1
    <3>2. CASE c < i
      <4> PICK j \in 1 .. N : i = c + j
        <5>1. i - c \in 1 .. N /\ i = c + (i - c)
          BY <1>2, <3>2
        <5> QED BY <5>1
      <4>1. i \in 1 .. c + N + 1 /\ j \in Nat \ {0}
        BY <1>2
      <4>2. after[i] = B[j] /\ line[i] = A[j]
        BY <1>10, <2>3, <4>1
      <4> QED BY <1>9, <4>2
    <3> QED BY <1>2, <3>1, <3>2
  <2>5. after[c + N + 1] = next
    <3> PICK i \in 1 .. c + N + 1, j \in Nat \ {0} : i = c + N + 1 /\ j = N + 1
      BY <1>2
    <3>1. i = c + j
      BY <1>2
    <3> QED BY <1>9, <2>3, <3>1
  <2> QED BY <2>3, <2>4, <2>5
<1>12. /\ Rising(line) /\ Elems(line) \cup dropped = 1 .. next - 1
       /\ Elems(line) \cap dropped = {}
  BY DEF QueueConsistent, PacketsInOrder, Rising, A
<1>13. (sent \o Numbers(outPacketList))' = after
  BY <1>1 DEF B, Numbers
<1> HIDE DEF line, after
<1>14. \A i \in 1 .. c + N : line[i] \in 1 .. next - 1
  BY <1>10, <1>12 DEF Elems
<1>15. Rising(after)
  <2> SUFFICES ASSUME NEW a \in 1 .. c + N + 1, NEW b \in 1 .. c + N + 1, a < b
               PROVE  after[a] < after[b]
    BY <1>11 DEF Rising
  <2>1. a \in 1 .. c + N
    BY <1>2
  <2>2. CASE b = c + N + 1
    <3>1. line[a] < next
      BY <1>2, <1>14, <2>1
    <3> QED BY <1>11, <2>1, <2>2, <3>1
  <2>3. CASE b # c + N + 1
    <3>1. b \in 1 .. c + N
      BY <1>2, <2>3
    <3>2. line[a] < line[b]
      BY <1>10, <1>12, <2>1, <3>1 DEF Rising
    <3> QED BY <1>11, <2>1, <3>1, <3>2
  <2> QED BY <2>2, <2>3
<1>16. Elems(after) = Elems(line) \cup {next}
  <2>1. ASSUME NEW i \in 1 .. c + N + 1 PROVE after[i] \in Elems(line) \cup {next}
    <3>1. CASE i = c + N + 1
      BY <1>11, <3>1
    <3>2. CASE i # c + N + 1
      <4>1. i \in 1 .. c + N
        BY <1>2, <3>2
      <4> QED BY <1>10, <1>11, <4>1 DEF Elems
    <3> QED BY <3>1, <3>2
  <2>2. ASSUME NEW i \in 1 .. c + N PROVE line[i] \in Elems(after)
    <3>1. i \in 1 .. c + N + 1
      BY <1>2
    <3> QED BY <1>11, <3>1 DEF Elems
  <2>3. next \in Elems(after)
    <3> PICK i \in 1 .. c + N + 1 : i = c + N + 1
      BY <1>2
    <3>1. after[i] = next
      BY <1>11
    <3> QED BY <1>11, <3>1 DEF Elems
  <2>4. \A x \in Elems(after) : x \in Elems(line) \cup {next}
    BY <1>11, <2>1 DEF Elems
  <2>5. \A x \in Elems(line) : x \in Elems(after)
    BY <1>10, <2>2 DEF Elems
  <2> QED BY <2>3, <2>4, <2>5
<1>17. Elems(after) \cup dropped' = 1 .. next' - 1 /\ Elems(after) \cap dropped' = {}
  <2>1. 1 .. next' - 1 = (1 .. next - 1) \cup {next} /\ next \notin 1 .. next - 1
    BY <1>1, <1>2
  <2> QED BY <1>1, <1>12, <1>16, <2>1
<1>18. PacketsInOrder'
  <2> PICK x : x = after
    OBVIOUS
  <2>1. (sent \o Numbers(outPacketList))' = x
    BY <1>13
  <2> QED BY <1>15, <1>17, <2>1 DEF PacketsInOrder, Rising
<1> QED BY <1>5, <1>6, <1>18 DEF QueueConsistent

\* writePending keeps the queue.
LEMMA WriteKeeps ==
  ASSUME MaxPackets \in Nat, QueueConsistent, WritePending
  PROVE  QueueConsistent'
<1>1. next' = next /\ writeBit
  BY DEF WritePending
<1>9. PICK n \in 0 .. Len(outPacketList) : \E outcome \in [1 .. n -> Outcomes] :
        BlockAt(outcome, n) \/ (n = Len(outPacketList) /\ AllLeave(outcome))
  BY DEF WritePending
<1>2. PICK outcome \in [1 .. n -> Outcomes] :
        BlockAt(outcome, n) \/ (n = Len(outPacketList) /\ AllLeave(outcome))
  BY <1>9
<1>3. Leave(outcome, n)
  BY <1>2 DEF BlockAt, AllLeave
<1>4. /\ PacketsInOrder'
      /\ outPacketList' \in Seq(Packet) /\ Len(outPacketList') = Len(outPacketList) - n
      /\ sent' \in Seq(1 .. MaxPackets) /\ dropped' \subseteq 1 .. MaxPackets
  BY <1>1, <1>3, LeaveKeeps
<1>5. /\ next' \in 1 .. MaxPackets + 1 /\ errno' \in {"EAGAIN", "other"}
      /\ writeBit' \in BOOLEAN
  <2>1. next \in 1 .. MaxPackets + 1 /\ errno \in {"EAGAIN", "other"} /\ writeBit \in BOOLEAN
    BY DEF QueueConsistent, OutTypeOK
  <2>2. \A k : ErrnoAfter(outcome, k) \in {"EAGAIN", "other"}
    BY <2>1 DEF ErrnoAfter
  <2> QED BY <1>1, <1>2, <2>1, <2>2 DEF BlockAt, AllLeave
<1>6. WatchedIffQueued'
  <2>1. Len(outPacketList) \in Nat
    BY DEF QueueConsistent, OutTypeOK
  <2>2. writeBit' <=> n < Len(outPacketList)
    <3>1. CASE BlockAt(outcome, n)
      <4>1. n < Len(outPacketList) /\ writeBit' = writeBit
        BY <3>1 DEF BlockAt
      <4> QED BY <1>1, <4>1
    <3>2. CASE n = Len(outPacketList) /\ AllLeave(outcome)
      <4>1. writeBit' = FALSE
        BY <3>2 DEF AllLeave
      <4> QED BY <2>1, <3>2, <4>1
    <3> QED BY <1>2, <3>1, <3>2
  <2>3. n < Len(outPacketList) <=> outPacketList' # <<>>
    BY <1>4, <2>1
  <2> QED BY <2>2, <2>3 DEF WatchedIffQueued
<1> QED BY <1>4, <1>5, <1>6 DEF QueueConsistent, OutTypeOK, Packet

\* The empty queue is consistent.
LEMMA QueueInit ==
  ASSUME MaxPackets \in Nat, OutInit
  PROVE  QueueConsistent
<1> USE DEF OutInit
<1>1. Numbers(outPacketList) = <<>>
  BY DEF Numbers
<1>2. sent \o Numbers(outPacketList) = <<>>
  BY <1>1
<1>3. PacketsInOrder
  BY <1>2 DEF PacketsInOrder, Elems
<1>4. OutTypeOK
  <2>1. outPacketList \in Seq(Packet) /\ sent \in Seq(1 .. MaxPackets)
    OBVIOUS
  <2>2. next \in 1 .. MaxPackets + 1 /\ dropped \subseteq 1 .. MaxPackets
    OBVIOUS
  <2> QED BY <2>1, <2>2 DEF OutTypeOK
<1>5. WatchedIffQueued
  BY DEF WatchedIffQueued
<1> QED BY <1>3, <1>4, <1>5 DEF QueueConsistent

\* errno alone does not matter to the queue.
LEMMA QueueUntouched ==
  ASSUME QueueConsistent, errno' \in {"EAGAIN", "other"},
         UNCHANGED <<outPacketList, writeBit, sent, dropped, next>>
  PROVE  QueueConsistent'
<1>1. OutTypeOK'
  BY DEF QueueConsistent, OutTypeOK, Packet
<1>2. WatchedIffQueued'
  BY DEF QueueConsistent, WatchedIffQueued
<1>3. PacketsInOrder'
  <2>1. (sent \o Numbers(outPacketList))' = sent \o Numbers(outPacketList)
    BY DEF Numbers
  <2> PICK x : x = sent \o Numbers(outPacketList)
    OBVIOUS
  <2>2. (sent \o Numbers(outPacketList))' = x
    BY <2>1
  <2> QED BY <2>2 DEF QueueConsistent, PacketsInOrder
<1> QED BY <1>1, <1>2, <1>3 DEF QueueConsistent

\* Every step keeps it so.
LEMMA QueueNext ==
  ASSUME MaxPackets \in Nat, QueueConsistent, [OutNext]_queueVars
  PROVE  QueueConsistent'
<1>1. CASE OutNext
  <2>1. ASSUME NEW kind \in Kinds, AddOutPacket(kind) PROVE QueueConsistent'
    BY <2>1, AddKeeps
  <2>2. CASE WritePending
    BY <2>2, WriteKeeps
  <2>3. CASE OtherCallFails
    BY <2>3, QueueUntouched DEF OtherCallFails
  <2> QED BY <1>1, <2>1, <2>2, <2>3 DEF OutNext
<1>2. CASE UNCHANGED queueVars
  <2>1. errno' \in {"EAGAIN", "other"}
    BY <1>2 DEF queueVars, QueueConsistent, OutTypeOK
  <2> QED BY <1>2, <2>1, QueueUntouched DEF queueVars
<1> QED BY <1>1, <1>2

\* No packet queued is lost, sent twice or overtaken, and select watches the socket
\* exactly while one waits: the assertion of writePending (MeridianProcess.cpp:461).
THEOREM QueueStaysConsistent == OutSpec => []QueueConsistent
<1>1. OutInit => QueueConsistent
  BY QueueInit, OutQueueAssumption
<1>2. QueueConsistent /\ [OutNext]_queueVars => QueueConsistent'
  BY QueueNext, OutQueueAssumption
<1> QED BY <1>1, <1>2, PTL DEF OutSpec

----------------------------------------------------------------------------
(* The connections of a rendezvous host *)

IsList(q) == \E S : q \in Seq(S)

Typed(con, que, wri, soc, own) ==
  /\ con \in [Clients -> RendvFDs \cup {Null}]
  /\ DOMAIN que = RendvFDs /\ \A fd \in RendvFDs : que[fd] = Null \/ IsList(que[fd])
  /\ wri \subseteq RendvFDs
  /\ own \in Seq(Clients)
  /\ soc \in [RendvFDs -> 0 .. Len(own)]

\* MapsInStep, of any maps.
InStep(con, que, wri, soc, own) ==
  /\ \A c, d \in Clients : con[c] # Null /\ con[c] = con[d] => c = d
  /\ \A fd \in RendvFDs :
       /\ que[fd] # Null <=> \E c \in Clients : con[c] = fd
       /\ que[fd] # Null <=> soc[fd] # 0
       /\ fd \in wri <=> que[fd] \notin {Null, <<>>}
  /\ \A c \in Clients : con[c] # Null => own[soc[con[c]]] = c

Good(con, que, wri, soc, own) == Typed(con, que, wri, soc, own) /\ InStep(con, que, wri, soc, own)

\* What the host does to a queue leaves a list.
LEMMA ListsStayLists ==
  ASSUME NullIsNoList
  PROVE  /\ IsList(<<>>) /\ \A q : IsList(q) => q # Null
         /\ \A q, x : IsList(q) => IsList(Append(q, x)) /\ Append(q, x) # <<>>
         /\ \A q : IsList(q) /\ q # <<>> => IsList(Tail(q))
         /\ \A q, x : IsList(q) => IsList(<<x>> \o q)
<1>1. IsList(<<>>)
  BY <<>> \in Seq({}) DEF IsList
<1>2. ASSUME NEW q, IsList(q) PROVE q # Null
  BY <1>2 DEF IsList, NullIsNoList
<1>3. ASSUME NEW q, NEW x, IsList(q) PROVE IsList(Append(q, x)) /\ Append(q, x) # <<>>
  <2> PICK S : q \in Seq(S)
    BY <1>3 DEF IsList
  <2>1. q \in Seq(S \cup {x}) /\ x \in S \cup {x}
    OBVIOUS
  <2> DEFINE T == S \cup {x}
  <2> HIDE DEF T
  <2>2. Append(q, x) \in Seq(T) /\ Len(Append(q, x)) = Len(q) + 1
    BY <2>1 DEF T
  <2> QED BY <2>1, <2>2 DEF IsList
<1>4. ASSUME NEW q, IsList(q), q # <<>> PROVE IsList(Tail(q))
  <2> PICK S : q \in Seq(S)
    BY <1>4 DEF IsList
  <2>1. Tail(q) \in Seq(S)
    BY <1>4
  <2> QED BY <2>1 DEF IsList
<1>5. ASSUME NEW q, NEW x, IsList(q) PROVE IsList(<<x>> \o q)
  <2> PICK S : q \in Seq(S)
    BY <1>5 DEF IsList
  <2> DEFINE T == S \cup {x}
  <2>1. q \in Seq(T) /\ <<x>> \in Seq(T)
    OBVIOUS
  <2> HIDE DEF T
  <2>2. <<x>> \o q \in Seq(T)
    BY <2>1
  <2> QED BY <2>2 DEF IsList
<1> QED BY <1>1, <1>2, <1>3, <1>4, <1>5

\* removeRendavousConnection
LEMMA RemoveGood ==
  ASSUME NullIsNoList, NEW con, NEW que, NEW wri, NEW soc, NEW own,
         Good(con, que, wri, soc, own), NEW c \in Clients, con[c] # Null,
         NEW old, old = con[c]
  PROVE  Good([con EXCEPT ![c] = Null], [que EXCEPT ![old] = Null], wri \ {old},
              [soc EXCEPT ![old] = 0], own)
<1>1. Typed(con, que, wri, soc, own) /\ InStep(con, que, wri, soc, own)
  BY DEF Good
<1>2. old \in RendvFDs /\ old # Null
  BY <1>1 DEF Typed
<1> DEFINE con2 == [con EXCEPT ![c] = Null]
           que2 == [que EXCEPT ![old] = Null]
           soc2 == [soc EXCEPT ![old] = 0]
<1>3. /\ con2 \in [Clients -> RendvFDs \cup {Null}]
      /\ con2[c] = Null /\ \A d \in Clients \ {c} : con2[d] = con[d]
  BY <1>1 DEF Typed
<1>4. /\ DOMAIN que2 = RendvFDs
      /\ que2[old] = Null /\ \A fd \in RendvFDs \ {old} : que2[fd] = que[fd]
  BY <1>1, <1>2 DEF Typed
<1>5. /\ soc2 \in [RendvFDs -> 0 .. Len(own)]
      /\ soc2[old] = 0 /\ \A fd \in RendvFDs \ {old} : soc2[fd] = soc[fd]
  BY <1>1, <1>2 DEF Typed
<1> HIDE DEF con2, que2, soc2
<1>6. Typed(con2, que2, wri \ {old}, soc2, own)
  BY <1>1, <1>3, <1>4, <1>5 DEF Typed
<1>7. \A d \in Clients \ {c} : con[d] # old
  BY <1>1, <1>2 DEF InStep
<1>8. InStep(con2, que2, wri \ {old}, soc2, own)
  <2>1. \A d, e \in Clients : con2[d] # Null /\ con2[d] = con2[e] => d = e
    BY <1>1, <1>3 DEF InStep
  <2>2. ASSUME NEW fd \in RendvFDs
        PROVE  /\ que2[fd] # Null <=> \E d \in Clients : con2[d] = fd
               /\ que2[fd] # Null <=> soc2[fd] # 0
               /\ fd \in wri \ {old} <=> que2[fd] \notin {Null, <<>>}
    <3>1. CASE fd = old
      <4>1. \A d \in Clients : con2[d] # fd
        BY <1>2, <1>3, <1>7, <3>1
      <4> QED BY <1>4, <1>5, <3>1, <4>1
    <3>2. CASE fd # old
      <4>1. fd # Null
        BY RendezvousAssumption
      <4>2. (\E d \in Clients : con2[d] = fd) <=> (\E d \in Clients : con[d] = fd)
        BY <1>3, <3>2, <4>1
      <4>3. que2[fd] = que[fd] /\ soc2[fd] = soc[fd]
        BY <1>4, <1>5, <3>2
      <4> QED BY <1>1, <3>2, <4>2, <4>3 DEF InStep
    <3> QED BY <3>1, <3>2
  <2>3. ASSUME NEW d \in Clients, con2[d] # Null PROVE own[soc2[con2[d]]] = d
    <3>1. d # c /\ con2[d] = con[d] /\ con[d] # old
      BY <1>3, <1>7, <2>3
    <3>2. con[d] \in RendvFDs
      BY <1>1, <2>3, <3>1 DEF Typed
    <3>3. soc2[con[d]] = soc[con[d]]
      BY <1>5, <3>1, <3>2
    <3> QED BY <1>1, <2>3, <3>1, <3>3 DEF InStep
  <2> QED BY <2>1, <2>2, <2>3 DEF InStep
<1> QED BY <1>6, <1>8 DEF Good, con2, que2, soc2

\* A connection is added at a free descriptor, for a client that has none.
LEMMA AcceptGood ==
  ASSUME NullIsNoList, NEW con, NEW que, NEW wri, NEW soc, NEW own,
         Good(con, que, wri, soc, own), NEW fd \in RendvFDs, soc[fd] = 0,
         NEW k \in 1 .. Len(own), NEW c \in Clients, own[k] = c, con[c] = Null
  PROVE  Good([con EXCEPT ![c] = fd], [que EXCEPT ![fd] = <<>>], wri, [soc EXCEPT ![fd] = k], own)
<1>1. Typed(con, que, wri, soc, own) /\ InStep(con, que, wri, soc, own)
  BY DEF Good
<1>2. que[fd] = Null /\ fd \notin wri /\ fd # Null /\ \A d \in Clients : con[d] # fd
  BY <1>1, RendezvousAssumption DEF InStep
<1> DEFINE con2 == [con EXCEPT ![c] = fd]
           que2 == [que EXCEPT ![fd] = <<>>]
           soc2 == [soc EXCEPT ![fd] = k]
<1>3. /\ con2 \in [Clients -> RendvFDs \cup {Null}]
      /\ con2[c] = fd /\ \A d \in Clients \ {c} : con2[d] = con[d]
  BY <1>1 DEF Typed
<1>4. /\ DOMAIN que2 = RendvFDs
      /\ que2[fd] = <<>> /\ \A x \in RendvFDs \ {fd} : que2[x] = que[x]
  BY <1>1 DEF Typed
<1>0. Len(own) \in Nat /\ k \in 0 .. Len(own) /\ k # 0
  BY <1>1 DEF Typed
<1>5. /\ soc2 \in [RendvFDs -> 0 .. Len(own)]
      /\ soc2[fd] = k /\ \A x \in RendvFDs \ {fd} : soc2[x] = soc[x]
  BY <1>0, <1>1 DEF Typed
<1> HIDE DEF con2, que2, soc2
<1>9. IsList(<<>>) /\ Null # <<>>
  BY ListsStayLists
<1>6. Typed(con2, que2, wri, soc2, own)
  BY <1>1, <1>3, <1>4, <1>5, <1>9 DEF Typed
<1>8. InStep(con2, que2, wri, soc2, own)
  <2>1. \A d, e \in Clients : con2[d] # Null /\ con2[d] = con2[e] => d = e
    BY <1>1, <1>2, <1>3 DEF InStep
  <2>2. ASSUME NEW x \in RendvFDs
        PROVE  /\ que2[x] # Null <=> \E d \in Clients : con2[d] = x
               /\ que2[x] # Null <=> soc2[x] # 0
               /\ x \in wri <=> que2[x] \notin {Null, <<>>}
    <3>1. CASE x = fd
      BY <1>0, <1>2, <1>3, <1>4, <1>5, <1>9, <3>1
    <3>2. CASE x # fd
      <4>1. x # Null
        BY RendezvousAssumption
      <4>2. (\E d \in Clients : con2[d] = x) <=> (\E d \in Clients : con[d] = x)
        BY <1>3, <3>2, <4>1
      <4>3. que2[x] = que[x] /\ soc2[x] = soc[x]
        BY <1>4, <1>5, <3>2
      <4> QED BY <1>1, <3>2, <4>2, <4>3 DEF InStep
    <3> QED BY <3>1, <3>2
  <2>3. ASSUME NEW d \in Clients, con2[d] # Null PROVE own[soc2[con2[d]]] = d
    <3>1. CASE d = c
      BY <1>3, <1>5, <3>1
    <3>2. CASE d # c
      <4>1. con2[d] = con[d] /\ con[d] # fd
        BY <1>2, <1>3, <3>2
      <4>2. con[d] \in RendvFDs
        BY <1>1, <2>3, <4>1 DEF Typed
      <4>3. soc2[con[d]] = soc[con[d]]
        BY <1>5, <4>1, <4>2
      <4> QED BY <1>1, <2>3, <4>1, <4>3 DEF InStep
    <3> QED BY <3>1, <3>2
  <2> QED BY <2>1, <2>2, <2>3 DEF InStep
<1> QED BY <1>6, <1>8 DEF Good, con2, que2, soc2

\* A packet is queued for a client that has a connection.
LEMMA RelayGood ==
  ASSUME NullIsNoList, NEW con, NEW que, NEW wri, NEW soc, NEW own,
         Good(con, que, wri, soc, own), NEW c \in Clients, con[c] # Null,
         NEW fd, fd = con[c], NEW packet
  PROVE  Good(con, [que EXCEPT ![fd] = Append(@, packet)], wri \cup {fd}, soc, own)
<1>1. Typed(con, que, wri, soc, own) /\ InStep(con, que, wri, soc, own)
  BY DEF Good
<1>2. fd \in RendvFDs
  BY <1>1 DEF Typed
<1> DEFINE q == Append(que[fd], packet)
           que2 == [que EXCEPT ![fd] = q]
<1>3. que[fd] # Null /\ IsList(que[fd])
  BY <1>1, <1>2 DEF Typed, InStep
<1>4. IsList(q) /\ q # <<>> /\ q # Null
  BY <1>3, ListsStayLists
<1> HIDE DEF q
<1>5. /\ DOMAIN que2 = RendvFDs
      /\ que2[fd] = q /\ \A x \in RendvFDs \ {fd} : que2[x] = que[x]
  BY <1>1, <1>2 DEF Typed
<1>6. que2 = [que EXCEPT ![fd] = Append(@, packet)]
  BY DEF q
<1> HIDE DEF que2
<1>7. Typed(con, que2, wri \cup {fd}, soc, own)
  BY <1>1, <1>2, <1>4, <1>5 DEF Typed
<1>8. InStep(con, que2, wri \cup {fd}, soc, own)
  <2>1. ASSUME NEW x \in RendvFDs
        PROVE  /\ que2[x] # Null <=> \E d \in Clients : con[d] = x
               /\ que2[x] # Null <=> soc[x] # 0
               /\ x \in wri \cup {fd} <=> que2[x] \notin {Null, <<>>}
    <3>1. CASE x = fd
      <4>1. soc[x] # 0
        BY <1>1, <1>2, <1>3, <3>1 DEF InStep
      <4> QED BY <1>4, <1>5, <3>1, <4>1
    <3>2. CASE x # fd
      <4>1. que2[x] = que[x]
        BY <1>5, <3>2
      <4> QED BY <1>1, <3>2, <4>1 DEF InStep
    <3> QED BY <3>1, <3>2
  <2> QED BY <1>1, <2>1 DEF InStep
<1> QED BY <1>6, <1>7, <1>8 DEF Good

\* A connection more is opened, which the host does not know yet.
LEMMA OpenGood ==
  ASSUME NEW con, NEW que, NEW wri, NEW soc, NEW own, Good(con, que, wri, soc, own),
         NEW c \in Clients
  PROVE  Good(con, que, wri, soc, Append(own, c))
<1>1. Typed(con, que, wri, soc, own) /\ InStep(con, que, wri, soc, own)
  BY DEF Good
<1> DEFINE more == Append(own, c)
<1>2. /\ own \in Seq(Clients) /\ more \in Seq(Clients) /\ Len(own) \in Nat
      /\ Len(more) = Len(own) + 1 /\ \A k \in 1 .. Len(own) : more[k] = own[k]
  BY <1>1 DEF Typed
<1> HIDE DEF more
<1>3. soc \in [RendvFDs -> 0 .. Len(own)] /\ 0 .. Len(own) \subseteq 0 .. Len(more)
  BY <1>1, <1>2 DEF Typed
<1>4. soc \in [RendvFDs -> 0 .. Len(more)]
  BY <1>3
<1>5. ASSUME NEW d \in Clients, con[d] # Null PROVE more[soc[con[d]]] = d
  <2>1. con[d] \in RendvFDs
    BY <1>1, <1>5 DEF Typed
  <2>2. soc[con[d]] # 0 /\ soc[con[d]] \in 0 .. Len(own)
    BY <1>1, <1>3, <1>5, <2>1 DEF InStep
  <2>3. soc[con[d]] \in 1 .. Len(own)
    BY <1>2, <2>2
  <2> QED BY <1>1, <1>2, <1>5, <2>3 DEF InStep
<1>6. Typed(con, que, wri, soc, more)
  BY <1>1, <1>2, <1>4 DEF Typed
<1>7. InStep(con, que, wri, soc, more)
  BY <1>1, <1>5 DEF InStep
<1> QED BY <1>6, <1>7 DEF Good, more

\* What is left of a queue when the connection has taken something.
LEMMA ShorterIsList ==
  ASSUME NullIsNoList, NEW q, IsList(q), q # <<>>, NEW n
  PROVE  IsList(Shorter(q, n))
<1>1. IsList(Tail(q))
  BY ListsStayLists
<1> DEFINE x == [Head(q) EXCEPT !.pos = @ + n]
<1>2. IsList(<<x>> \o Tail(q))
  <2> HIDE DEF x
  <2> QED BY <1>1, ListsStayLists
<1> QED BY <1>1, <1>2 DEF Shorter

\* The loop over the connections.
LEMMA ServeGood ==
  ASSUME NullIsNoList, NEW h, Good(h.connections, h.queue, h.writeSet, h.socket, owner),
         NEW ready, ready \subseteq RendvFDs, NEW took, DOMAIN took = ready,
         \A fd \in ready : h.queue[fd] \notin {Null, <<>>},
         ServeAll(h, took)
  PROVE  Good(connections', queue', rendvWriteSet', rendvSocket', owner)
<1> DEFINE dead == {fd \in ready : took[fd] = 0}
           left == [fd \in RendvFDs |-> IF fd \in dead THEN Null
                                  ELSE IF fd \in ready /\ took[fd] # 0
                                  THEN Shorter(h.queue[fd], took[fd])
                                  ELSE h.queue[fd]]
           con2 == [c \in Clients |-> IF h.connections[c] \in dead THEN Null ELSE h.connections[c]]
           wri2 == {fd \in h.writeSet : fd \in ready => left[fd] \notin {Null, <<>>}}
           soc2 == [fd \in RendvFDs |-> IF fd \in dead THEN 0 ELSE h.socket[fd]]
<1>1. connections' = con2 /\ queue' = left /\ rendvWriteSet' = wri2 /\ rendvSocket' = soc2
  BY DEF ServeAll
<1> PICK con, que, wri, soc : /\ con = h.connections /\ que = h.queue
                              /\ wri = h.writeSet /\ soc = h.socket
  OBVIOUS
<1>2. Typed(con, que, wri, soc, owner) /\ InStep(con, que, wri, soc, owner)
  BY DEF Good
<1>3. dead \subseteq RendvFDs /\ dead \subseteq ready
  OBVIOUS
<1>4. /\ con2 \in [Clients -> RendvFDs \cup {Null}]
      /\ \A c \in Clients : con2[c] = IF con[c] \in dead THEN Null ELSE con[c]
  BY <1>2 DEF Typed
<1>5. /\ DOMAIN left = RendvFDs /\ \A fd \in dead : left[fd] = Null
      /\ \A fd \in ready \ dead : left[fd] # Null /\ IsList(left[fd])
      /\ \A fd \in RendvFDs \ ready : left[fd] = que[fd]
  <2>1. ASSUME NEW fd \in ready \ dead PROVE left[fd] # Null /\ IsList(left[fd])
    <3>1. left[fd] = Shorter(que[fd], took[fd])
      OBVIOUS
    <3>2. IsList(que[fd]) /\ que[fd] # <<>>
      BY <1>2 DEF Typed
    <3>3. IsList(left[fd])
      BY <3>1, <3>2, ShorterIsList
    <3> QED BY <3>3, ListsStayLists
  <2> QED BY <2>1
<1>6. /\ soc2 \in [RendvFDs -> 0 .. Len(owner)]
      /\ \A fd \in RendvFDs : soc2[fd] = IF fd \in dead THEN 0 ELSE soc[fd]
  <2>1. Len(owner) \in Nat /\ soc \in [RendvFDs -> 0 .. Len(owner)]
    BY <1>2 DEF Typed
  <2> QED BY <2>1
<1>7. /\ wri2 \subseteq RendvFDs
      /\ \A fd : fd \in wri2 <=> fd \in wri /\ (fd \in ready => left[fd] \notin {Null, <<>>})
  BY <1>2 DEF Typed
<1>8. \A fd \in ready : que[fd] \notin {Null, <<>>}
  OBVIOUS
<1> HIDE DEF dead, left, con2, wri2, soc2
<1>9. Typed(con2, left, wri2, soc2, owner)
  <2>1. ASSUME NEW fd \in RendvFDs PROVE left[fd] = Null \/ IsList(left[fd])
    BY <1>2, <1>5 DEF Typed
  <2> QED BY <1>2, <1>4, <1>5, <1>6, <1>7, <2>1 DEF Typed
<1>10. InStep(con2, left, wri2, soc2, owner)
  <2>1. \A d, e \in Clients : con2[d] # Null /\ con2[d] = con2[e] => d = e
    BY <1>2, <1>4 DEF InStep
  <2>2. ASSUME NEW fd \in RendvFDs
        PROVE  /\ left[fd] # Null <=> \E d \in Clients : con2[d] = fd
               /\ left[fd] # Null <=> soc2[fd] # 0
               /\ fd \in wri2 <=> left[fd] \notin {Null, <<>>}
    <3>1. fd # Null
      BY RendezvousAssumption
    <3>2. (\E d \in Clients : con2[d] = fd) <=> fd \notin dead /\ \E d \in Clients : con[d] = fd
      BY <1>4, <3>1
    <3>3. left[fd] # Null <=> fd \notin dead /\ que[fd] # Null
      BY <1>3, <1>5, <1>8
    <3>4. fd \in wri <=> que[fd] \notin {Null, <<>>}
      BY <1>2 DEF InStep
    <3>5. fd \in wri2 <=> left[fd] \notin {Null, <<>>}
      BY <1>5, <1>7, <1>8, <3>4
    <3> QED BY <1>2, <1>6, <3>2, <3>3, <3>5 DEF InStep
  <2>3. ASSUME NEW d \in Clients, con2[d] # Null PROVE owner[soc2[con2[d]]] = d
    <3>1. con2[d] = con[d] /\ con[d] \notin dead /\ con[d] # Null
      BY <1>4, <2>3
    <3>2. con[d] \in RendvFDs
      BY <1>2, <3>1 DEF Typed
    <3>3. soc2[con[d]] = soc[con[d]]
      BY <1>6, <3>1, <3>2
    <3> QED BY <1>2, <3>1, <3>3 DEF InStep
  <2> QED BY <2>1, <2>2, <2>3 DEF InStep
<1> QED BY <1>1, <1>9, <1>10 DEF Good

\* The inductive invariant: every queue there is is a list, the connections that wait
\* for accept have been opened, and of what the maps hold they agree.
HostInv ==
  /\ Good(connections, queue, rendvWriteSet, rendvSocket, owner)
  /\ backlog \in Seq(1 .. Len(owner))
  /\ tunnel \in [Clients -> 0 .. Len(owner)]
  /\ host \in {"runs", "no PULL"}

\* The host starts with empty maps.
LEMMA HostInit ==
  ASSUME NullIsNoList, RendvInit
  PROVE  HostInv
<1> USE DEF RendvInit
<1>1. Typed(connections, queue, rendvWriteSet, rendvSocket, owner)
  BY DEF Typed
<1>2. InStep(connections, queue, rendvWriteSet, rendvSocket, owner)
  BY RendezvousAssumption DEF InStep
<1>3. backlog \in Seq(1 .. Len(owner)) /\ tunnel \in [Clients -> 0 .. Len(owner)]
  OBVIOUS
<1> QED BY <1>1, <1>2, <1>3 DEF HostInv, Good

\* A client that starts changes the kernel's part only.
LEMMA StartKeeps ==
  ASSUME HostInv, NEW c \in Clients, StartClient(c)
  PROVE  HostInv'
<1>1. /\ owner' = Append(owner, c) /\ backlog' = Append(backlog, Len(owner) + 1)
      /\ tunnel' = [tunnel EXCEPT ![c] = Len(owner) + 1] /\ host' = host
      /\ connections' = connections /\ queue' = queue
      /\ rendvWriteSet' = rendvWriteSet /\ rendvSocket' = rendvSocket
  BY DEF StartClient, mapVars
<1>2. Good(connections', queue', rendvWriteSet', rendvSocket', owner')
  BY <1>1, OpenGood DEF HostInv
<1>3. owner \in Seq(Clients)
  BY DEF HostInv, Good, Typed
<1>4. Len(owner) \in Nat /\ Len(owner') = Len(owner) + 1
  BY <1>1, <1>3
<1>5. 1 .. Len(owner) \subseteq 1 .. Len(owner') /\ 0 .. Len(owner) \subseteq 0 .. Len(owner')
      /\ Len(owner) + 1 \in 1 .. Len(owner') /\ Len(owner) + 1 \in 0 .. Len(owner')
  BY <1>4
<1>6. backlog' \in Seq(1 .. Len(owner'))
  <2> PICK S, T, x : S = 1 .. Len(owner) /\ T = 1 .. Len(owner') /\ x = Len(owner) + 1
    OBVIOUS
  <2>1. backlog \in Seq(S) /\ S \subseteq T /\ x \in T
    BY <1>5 DEF HostInv
  <2>2. backlog \in Seq(T)
    BY <2>1
  <2>3. Append(backlog, x) \in Seq(T)
    BY <2>1, <2>2
  <2> QED BY <1>1, <2>3
<1>7. tunnel' \in [Clients -> 0 .. Len(owner')]
  BY <1>1, <1>5 DEF HostInv
<1> QED BY <1>1, <1>2, <1>6, <1>7 DEF HostInv

\* A PUSH goes to the back of a queue, or nowhere.
LEMMA PushKeeps ==
  ASSUME NullIsNoList, HostInv, NEW sender, NEW p, NEW c, ReceivePush(sender, p, c)
  PROVE  HostInv'
<1>1. /\ rendvSocket' = rendvSocket /\ backlog' = backlog /\ owner' = owner
      /\ tunnel' = tunnel
  BY DEF ReceivePush, clientVars
<1>2. PICK pull :
        \/ /\ host' = "no PULL" \/ host' = host
           /\ UNCHANGED <<connections, queue, rendvWriteSet>>
        \/ Connected(pull.dest) /\ Relay(pull, sender, p)
  BY DEF ReceivePush
<1>3. CASE (host' = "no PULL" \/ host' = host) /\ UNCHANGED <<connections, queue, rendvWriteSet>>
  BY <1>1, <1>3 DEF HostInv
<1>4. CASE Connected(pull.dest) /\ Relay(pull, sender, p)
  <2> DEFINE fd == connections[pull.dest]
             packet == [bytes |-> pull.bytes, pos |-> 0]
  <2>1. /\ pull.dest \in Clients /\ fd # Null
        /\ queue' = [queue EXCEPT ![fd] = Append(@, packet)]
        /\ rendvWriteSet' = rendvWriteSet \cup {fd}
        /\ host' = host /\ connections' = connections
    BY <1>4 DEF Connected, Relay
  <2>2. Good(connections, [queue EXCEPT ![fd] = Append(@, packet)], rendvWriteSet \cup {fd},
             rendvSocket, owner)
    <3> HIDE DEF packet
    <3> PICK con, que, wri, soc, own, d, f :
           /\ con = connections /\ que = queue /\ wri = rendvWriteSet /\ soc = rendvSocket
           /\ own = owner /\ d = pull.dest /\ f = fd
      OBVIOUS
    <3>1. Good(con, que, wri, soc, own) /\ d \in Clients /\ con[d] # Null /\ f = con[d]
      BY <2>1 DEF HostInv
    <3>2. Good(con, [que EXCEPT ![f] = Append(@, packet)], wri \cup {f}, soc, own)
      BY <3>1, RelayGood
    <3> QED BY <3>2
  <2>3. Good(connections', queue', rendvWriteSet', rendvSocket', owner')
    BY <1>1, <2>1, <2>2
  <2> QED BY <1>1, <2>1, <2>3 DEF HostInv
<1> QED BY <1>2, <1>3, <1>4

\* Nobody is asked for a packet but those who were watched, and have one.
Asked(con, que, wri) ==
  \A d \in Clients : con[d] \in wri => que[con[d]] \notin {Null, <<>>}

\* The entry of x in a map is now v.
Put(f, x, v) == [f EXCEPT ![x] = v]

\* A client the host does not know is entered in its maps.
LEMMA ClientComes ==
  ASSUME NullIsNoList, NEW con, NEW que, NEW wri, NEW soc, NEW own,
         Good(con, que, wri, soc, own), NEW fd \in RendvFDs, soc[fd] = 0,
         NEW k \in 1 .. Len(own), NEW c \in Clients, own[k] = c, con[c] = Null,
         NEW con2, con2 = Put(con, c, fd), NEW que2, que2 = Put(que, fd, <<>>),
         NEW soc2, soc2 = Put(soc, fd, k)
  PROVE  Good(con2, que2, wri, soc2, own) /\ Asked(con2, que2, wri)
<1>1. Good(con2, que2, wri, soc2, own)
  BY AcceptGood DEF Put
<1>2. Typed(con, que, wri, soc, own) /\ InStep(con, que, wri, soc, own)
  BY DEF Good
<1>3. fd \notin wri
  BY <1>2 DEF InStep
<1>4. ASSUME NEW d \in Clients, con2[d] \in wri PROVE que2[con2[d]] \notin {Null, <<>>}
  <2>1. d # c /\ con2[d] = con[d] /\ con[d] # fd /\ con[d] \in RendvFDs
    BY <1>2, <1>3, <1>4 DEF Typed, Put
  <2>2. que2[con[d]] = que[con[d]]
    BY <1>2, <2>1 DEF Typed, Put
  <2> QED BY <1>2, <1>4, <2>1, <2>2 DEF InStep
<1> QED BY <1>1, <1>4 DEF Asked

\* A client that has connection old gets one more, k at descriptor fd, and loses old.
Again(con, que, wri, soc, own, fd, k, c, old, con2, que2, wri2, soc2) ==
  /\ Good(con, que, wri, soc, own) /\ fd \in RendvFDs /\ soc[fd] = 0
  /\ k \in 1 .. Len(own) /\ c \in Clients /\ own[k] = c /\ old = con[c] /\ old # Null
  /\ con2 = Put(Put(con, c, Null), c, fd) /\ que2 = Put(Put(que, old, Null), fd, <<>>)
  /\ wri2 = wri \ {old} /\ soc2 = Put(Put(soc, fd, k), old, 0)

\* A client it knows is entered again, its old connection removed.
LEMMA ClientComesBack ==
  ASSUME NullIsNoList, NEW con, NEW que, NEW wri, NEW soc, NEW own, NEW fd, NEW k, NEW c,
         NEW old, NEW con2, NEW que2, NEW wri2, NEW soc2,
         Again(con, que, wri, soc, own, fd, k, c, old, con2, que2, wri2, soc2)
  PROVE  Good(con2, que2, wri2, soc2, own) /\ Asked(con2, que2, wri)
<1> USE DEF Again
<1>2. Typed(con, que, wri, soc, own) /\ InStep(con, que, wri, soc, own)
  BY DEF Good
<1>3. old \in RendvFDs /\ que[old] # Null /\ soc[old] # 0 /\ old # fd /\ fd \notin wri
  BY <1>2 DEF Typed, InStep
<1> DEFINE con1 == Put(con, c, Null)
           que1 == Put(que, old, Null)
           soc1 == Put(soc, old, 0)
<1>4. Good(con1, que1, wri2, soc1, own)
  BY RemoveGood DEF Put
<1>5. soc1[fd] = 0 /\ con1[c] = Null /\ soc2 = Put(soc1, fd, k)
  BY <1>2, <1>3 DEF Typed, Put
<1>6. con2 = Put(con1, c, fd) /\ que2 = Put(que1, fd, <<>>)
  OBVIOUS
<1> HIDE DEF con1, que1, soc1
<1>7. Good(con2, que2, wri2, soc2, own) /\ Asked(con2, que2, wri2)
  <2> PICK x, y, z : x = con1 /\ y = que1 /\ z = soc1
    OBVIOUS
  <2>1. Good(x, y, wri2, z, own) /\ z[fd] = 0 /\ x[c] = Null
    BY <1>4, <1>5
  <2>2. con2 = Put(x, c, fd) /\ que2 = Put(y, fd, <<>>) /\ soc2 = Put(z, fd, k)
    BY <1>5, <1>6
  <2> QED BY <2>1, <2>2, ClientComes
<1>8. ASSUME NEW d \in Clients PROVE con2[d] # old
  <2>1. CASE d = c
    BY <1>2, <1>3, <2>1 DEF Typed, Put
  <2>2. CASE d # c
    BY <1>2, <1>3, <2>2, RendezvousAssumption DEF Typed, InStep, Put
  <2> QED BY <2>1, <2>2
<1>9. Asked(con2, que2, wri)
  <2> SUFFICES ASSUME NEW d \in Clients, con2[d] \in wri PROVE que2[con2[d]] \notin {Null, <<>>}
    BY DEF Asked
  <2>1. con2[d] # old
    BY <1>8
  <2>2. con2[d] \in wri2
    BY <2>1
  <2> QED BY <1>7, <2>2 DEF Asked
<1> QED BY <1>7, <1>9

\* What the host makes of the connection first in line.
LEMMA AcceptFacts ==
  ASSUME NullIsNoList, HostInv, backlog # <<>>, NEW fd \in RendvFDs, rendvSocket[fd] = 0,
         NEW h, h = Accept(fd)
  PROVE  /\ Good(h.connections, h.queue, h.writeSet, h.socket, owner)
         /\ Asked(h.connections, h.queue, rendvWriteSet)
         /\ Tail(backlog) \in Seq(1 .. Len(owner))
<1> DEFINE k == Head(backlog)
           c == owner[k]
<1>1. backlog \in Seq(1 .. Len(owner)) /\ owner \in Seq(Clients)
      /\ Good(connections, queue, rendvWriteSet, rendvSocket, owner)
  BY DEF HostInv, Good, Typed
<1>2. k \in 1 .. Len(owner) /\ Tail(backlog) \in Seq(1 .. Len(owner))
  <2> PICK S : S = 1 .. Len(owner)
    OBVIOUS
  <2> QED BY <1>1
<1>3. c \in Clients
  BY <1>1, <1>2
<1>6. owner[k] = c
  OBVIOUS
<1> HIDE DEF k, c
<1> DEFINE old == connections[c]
<1>4. CASE old = Null
  <2>1. /\ h.connections = Put(connections, c, fd)
        /\ h.queue = Put(queue, fd, <<>>)
        /\ h.writeSet = rendvWriteSet
        /\ h.socket = Put(rendvSocket, fd, k)
    BY <1>4 DEF Accept, Maps, k, c, Put
  <2> QED BY <1>1, <1>2, <1>3, <1>4, <1>6, <2>1, ClientComes
<1>5. CASE old # Null
  <2>1. /\ h.connections = Put(Put(connections, c, Null), c, fd)
        /\ h.queue = Put(Put(queue, old, Null), fd, <<>>)
        /\ h.writeSet = rendvWriteSet \ {old}
        /\ h.socket = Put(Put(rendvSocket, fd, k), old, 0)
    BY <1>5 DEF Accept, RemoveConnection, Maps, k, c, Put
  <2> PICK con, que, wri, soc, own, o, p, d :
         /\ con = connections /\ que = queue /\ wri = rendvWriteSet /\ soc = rendvSocket
         /\ own = owner /\ o = old /\ p = k /\ d = c
    OBVIOUS
  <2>2. /\ Good(con, que, wri, soc, own) /\ soc[fd] = 0 /\ p \in 1 .. Len(own)
        /\ d \in Clients /\ own[p] = d /\ o = con[d] /\ o # Null
    BY <1>1, <1>2, <1>3, <1>5, <1>6
  <2> PICK con2, que2, wri2, soc2 : /\ con2 = h.connections /\ que2 = h.queue
                                    /\ wri2 = h.writeSet /\ soc2 = h.socket
    OBVIOUS
  <2>3. /\ con2 = Put(Put(con, d, Null), d, fd) /\ que2 = Put(Put(que, o, Null), fd, <<>>)
        /\ wri2 = wri \ {o} /\ soc2 = Put(Put(soc, fd, p), o, 0)
    BY <2>1
  <2>4. Again(con, que, wri, soc, own, fd, p, d, o, con2, que2, wri2, soc2)
    BY <2>2, <2>3 DEF Again
  <2>5. Good(con2, que2, wri2, soc2, own) /\ Asked(con2, que2, wri)
    BY <2>4, ClientComesBack
  <2> QED BY <1>2, <2>5
<1> QED BY <1>4, <1>5

\* The whole of handleRendavous keeps the maps.
LEMMA HandleKeeps ==
  ASSUME NullIsNoList, HostInv, NEW accepts \in BOOLEAN, NEW fd,
         accepts => backlog # <<>> /\ fd \in RendvFDs /\ rendvSocket[fd] = 0,
         NEW writable \in SUBSET rendvWriteSet,
         HandleRendavous(accepts, fd, writable)
  PROVE  HostInv'
<1> DEFINE h == IF accepts THEN Accept(fd) ELSE Maps
           ready == {h.connections[c] : c \in Clients} \cap writable
<1>1. /\ backlog' = IF accepts THEN Tail(backlog) ELSE backlog
      /\ owner' = owner /\ tunnel' = tunnel
      /\ (\A f \in ready : h.queue[f] \notin {Null, <<>>}) =>
           \E took : DOMAIN took = ready /\ ServeAll(h, took)
  <2>1. /\ backlog' = IF accepts THEN Tail(backlog) ELSE backlog
        /\ owner' = owner /\ tunnel' = tunnel
    BY DEF HandleRendavous, clientVars
  <2>2. \E g \in {h} : \E r \in {{g.connections[c] : c \in Clients} \cap writable} :
          IF \E f \in r : g.queue[f] \in {Null, <<>>} THEN host' = "no packet"
          ELSE \E took \in [r -> UNION {SendOutcomes(g.queue[f]) : f \in r}] :
                 ServeAll(g, took)
    BY DEF HandleRendavous
  <2> HIDE DEF h
  <2> PICK g, r : /\ g = h /\ r = ready
                  /\ IF \E f \in r : g.queue[f] \in {Null, <<>>} THEN host' = "no packet"
                     ELSE \E took \in [r -> UNION {SendOutcomes(g.queue[f]) : f \in r}] :
                            ServeAll(g, took)
    BY <2>2
  <2> HIDE DEF ready
  <2>3. (\A f \in r : g.queue[f] \notin {Null, <<>>}) =>
          \E took : DOMAIN took = r /\ ServeAll(g, took)
    OBVIOUS
  <2> QED BY <2>1, <2>3
<1>2. /\ Good(h.connections, h.queue, h.writeSet, h.socket, owner)
      /\ Asked(h.connections, h.queue, rendvWriteSet)
      /\ backlog' \in Seq(1 .. Len(owner))
  <2>1. CASE accepts
    <3>1. h = Accept(fd) /\ backlog' = Tail(backlog)
      BY <1>1, <2>1
    <3> HIDE DEF h
    <3> QED BY <2>1, <3>1, AcceptFacts
  <2>2. CASE ~accepts
    <3>1. /\ h.connections = connections /\ h.queue = queue /\ h.writeSet = rendvWriteSet
          /\ h.socket = rendvSocket /\ backlog' = backlog
      BY <1>1, <2>2 DEF Maps
    <3>2. Asked(connections, queue, rendvWriteSet)
      BY DEF HostInv, Good, Typed, InStep, Asked
    <3> HIDE DEF h
    <3> QED BY <3>1, <3>2 DEF HostInv
  <2> QED BY <2>1, <2>2
<1> HIDE DEF h
<1>3. \A f \in ready : h.queue[f] \notin {Null, <<>>}
  BY <1>2 DEF Asked
<1>4. ready \subseteq RendvFDs
  BY DEF HostInv, Good, Typed
<1> HIDE DEF ready
<1>5. PICK took : DOMAIN took = ready /\ ServeAll(h, took)
  BY <1>1, <1>3
<1>6. host' = host
  BY <1>5 DEF ServeAll
<1>7. Good(connections', queue', rendvWriteSet', rendvSocket', owner)
  <2> PICK r : r = ready
    OBVIOUS
  <2> QED BY <1>2, <1>3, <1>4, <1>5, ServeGood
<1> QED BY <1>1, <1>2, <1>6, <1>7 DEF HostInv

\* Every step keeps the maps.
LEMMA HostNext ==
  ASSUME NullIsNoList, HostInv, [RendvNext]_rendvVars
  PROVE  HostInv'
<1>1. ASSUME NEW c \in Clients, StartClient(c) PROVE HostInv'
  BY <1>1, StartKeeps
<1>2. ASSUME NEW c \in Clients, StopClient(c) PROVE HostInv'
  <2>1. /\ UNCHANGED <<host, connections, queue, rendvWriteSet, rendvSocket, backlog, owner>>
        /\ tunnel' = [tunnel EXCEPT ![c] = 0]
    BY <1>2 DEF StopClient, mapVars
  <2>2. owner \in Seq(Clients) /\ tunnel \in [Clients -> 0 .. Len(owner)]
    BY DEF HostInv, Good, Typed
  <2>3. Len(owner) \in Nat
    BY <2>2
  <2>4. 0 \in 0 .. Len(owner)
    BY <2>3
  <2> QED BY <2>1, <2>2, <2>4 DEF HostInv
<1>3. ASSUME NEW c \in Clients, Recv(c) PROVE HostInv'
  BY <1>3 DEF Recv, mapVars, HostInv
<1>4. ASSUME NEW t \in Traffic, NEW c \in Clients, ReceivePush(t[1], t[2], c)
      PROVE  HostInv'
  BY <1>4, PushKeeps
<1>5. CASE HostTurn
  <2> PICK writable \in SUBSET rendvWriteSet :
         \/ HandleRendavous(FALSE, Null, writable)
         \/ /\ backlog # <<>>
            /\ \E fd \in RendvFDs :
                 rendvSocket[fd] = 0 /\ HandleRendavous(TRUE, fd, writable)
    BY <1>5 DEF HostTurn
  <2>1. CASE HandleRendavous(FALSE, Null, writable)
    BY <2>1, HandleKeeps
  <2>2. ASSUME backlog # <<>>, NEW fd \in RendvFDs, rendvSocket[fd] = 0,
               HandleRendavous(TRUE, fd, writable)
        PROVE  HostInv'
    BY <2>2, HandleKeeps
  <2> QED BY <2>1, <2>2
<1>6. CASE UNCHANGED rendvVars
  BY <1>6 DEF rendvVars, mapVars, clientVars, HostInv
<1> QED BY <1>1, <1>2, <1>3, <1>4, <1>5, <1>6 DEF RendvNext

\* The invariant says what is promised.
LEMMA HostInvSuffices ==
  ASSUME HostInv
  PROVE  HostConsistent
<1>1. /\ Typed(connections, queue, rendvWriteSet, rendvSocket, owner)
      /\ InStep(connections, queue, rendvWriteSet, rendvSocket, owner)
  BY DEF HostInv, Good
<1>2. RendvTypeOK
  BY <1>1 DEF Typed, HostInv, RendvTypeOK
<1>3. MapsInStep
  BY <1>1 DEF InStep, MapsInStep
<1> QED BY <1>2, <1>3 DEF HostInv, HostConsistent

\* Whatever clients come, fail, stop or come back, and whatever is pushed to them, the
\* host's maps agree, and the loop of handleRendavous never asks an empty queue for the
\* packet in front (MeridianProcess.cpp:1342, 1345).
THEOREM HostStaysConsistent ==
  ASSUME NullIsNoList
  PROVE  RendvSpec => []HostConsistent
<1>1. RendvInit => HostInv
  BY HostInit
<1>2. HostInv /\ [RendvNext]_rendvVars => HostInv'
  BY HostNext
<1>3. HostInv => HostConsistent
  BY HostInvSuffices
<1> QED BY <1>1, <1>2, <1>3, PTL DEF RendvSpec

----------------------------------------------------------------------------
(* The stream to a client of a rendezvous host *)

\* What the client can make of one PULL, x, of the entry e of "pushed": it is parsed as soon
\* as all of it has been received, and not before.
Carrier(Bytes, x, e) ==
  /\ x \in Seq(Bytes) /\ Len(x) \in 1 .. MaxPacketSize
  /\ \A rest \in Seq(Bytes) :
       /\ ParsePull(x \o rest) # Null /\ ParsePull(x \o rest).rest = rest
       /\ ParsePull(x \o rest).from = e.from
       /\ Parses(e.from, ParsePull(x \o rest).payload) = Received(e.packet, e.from)
  /\ \A m \in 0 .. Len(x) - 1 : ParsePull(SubSeq(x, 1, m)) = Null

\* What the host queues for a packet is a carrier of it.
LEMMA PushCarries ==
  ASSUME NullIsApart, NEW Bytes, AreBytes(Bytes), NEW sender, IsAddress(sender), NEW c, IsAddress(c),
         NEW p, Creates(p) \in Seq(Bytes), Parses(sender, Creates(p)) = Received(p, sender),
         NEW push, push = WrapPush(c, Creates(p)), push # Null,
         NEW pull, pull = ParsePush(sender, push), pull # Null,
         NEW e, e = [from |-> sender, packet |-> p]
  PROVE  pull.dest = c /\ pull.bytes = PullOf(e, c) /\ Carrier(Bytes, PullOf(e, c), e)
<1>p. PICK payload : payload = Creates(p)
  OBVIOUS
<1>x. PICK x : x = PullOf(e, c)
  OBVIOUS
<1>0. payload \in Seq(Bytes) /\ push = WrapPush(c, payload)
  BY <1>p
<1>1. pull.dest = c /\ pull.bytes = PullBytes(sender, payload) /\ Len(pull.bytes) <= MaxPacketSize
  BY <1>0, PushParsed
<1>2. x = PullBytes(sender, payload) /\ pull.bytes = x
  BY <1>p, <1>x, <1>1 DEF PullOf
<1>3. x \in Seq(Bytes) /\ Len(x) = 23 + Len(payload) /\ Len(payload) \in Nat
  BY <1>0, <1>2, PullWritten
<1>4. Len(x) \in 1 .. MaxPacketSize
  BY <1>1, <1>2, <1>3, BuffersAssumption
<1>5. ASSUME NEW rest \in Seq(Bytes)
      PROVE  /\ ParsePull(x \o rest) # Null /\ ParsePull(x \o rest).rest = rest
             /\ ParsePull(x \o rest).from = e.from
             /\ Parses(e.from, ParsePull(x \o rest).payload) = Received(e.packet, e.from)
  <2>1. ParsePull(x \o rest) = [from |-> sender, payload |-> payload, rest |-> rest]
    BY <1>0, <1>2, WholePullParsed
  <2> QED BY <2>1, <1>p DEF NullIsApart, NullIsNoPull
<1>6. ASSUME NEW m \in 0 .. Len(x) - 1 PROVE ParsePull(SubSeq(x, 1, m)) = Null
  BY <1>0, <1>2, <1>6, ShortPullRefused
<1> QED BY <1>1, <1>2, <1>3, <1>4, <1>5, <1>6, <1>x DEF Carrier

----------------------------------------------------------------------------
(* The PULLs that the client has not taken *)

More(entries, m, c) == [i \in 1 .. Len(entries) - m |-> PullOf(entries[m + i], c)]

Carriers(Bytes, entries, c) ==
  IsList(entries) /\ \A i \in 1 .. Len(entries) : Carrier(Bytes, PullOf(entries[i], c), entries[i])

IsMore(Bytes, a, entries, m, c) ==
  /\ a \in Seq(Seq(Bytes)) /\ Len(a) = Len(entries) - m
  /\ \A i \in 1 .. Len(a) : a[i] = PullOf(entries[m + i], c)

\* What the client has not taken is a list of lists of bytes.
LEMMA MoreIsList ==
  ASSUME NEW Bytes, NEW c, NEW entries, Carriers(Bytes, entries, c), NEW m \in 0 .. Len(entries),
         NEW a, a = More(entries, m, c)
  PROVE  Len(entries) \in Nat /\ IsMore(Bytes, a, entries, m, c)
<1>n. PICK n : n = Len(entries)
  OBVIOUS
<1>1. n \in Nat /\ m \in 0 .. n
  BY <1>n, LenProperties DEF Carriers, IsList
<1>2. ASSUME NEW i \in 1 .. n - m PROVE PullOf(entries[m + i], c) \in Seq(Bytes)
  <2>1. m + i \in 1 .. n
    BY <1>1
  <2> QED BY <2>1, <1>n DEF Carriers, Carrier
<1>3. n - m \in Nat
  BY <1>1
<1>4. a = [i \in 1 .. n - m |-> PullOf(entries[m + i], c)]
  BY <1>n DEF More
<1>5. a \in [1 .. n - m -> Seq(Bytes)]
  BY <1>2, <1>4
<1>6. a \in Seq(Seq(Bytes)) /\ Len(a) = n - m
  BY <1>3, <1>5, IsSequence
<1> QED BY <1>1, <1>4, <1>6, <1>n DEF IsMore

\* One more PULL is queued.
IsLonger(Bytes, longer, entries, m, c, x) ==
  /\ Carriers(Bytes, longer, c) /\ Len(longer) = Len(entries) + 1
  /\ \A i \in 1 .. Len(entries) : longer[i] = entries[i]
  /\ More(longer, m, c) = Append(More(entries, m, c), x)

\* A PULL that is queued is behind them.
LEMMA MoreQueued ==
  ASSUME NEW Bytes, NEW c, NEW entries, Carriers(Bytes, entries, c), NEW m \in 0 .. Len(entries),
         NEW e, NEW x, x = PullOf(e, c), Carrier(Bytes, x, e), NEW longer, longer = Append(entries, e)
  PROVE  IsLonger(Bytes, longer, entries, m, c, x)
<1>q. PICK S : entries \in Seq(S)
  BY DEF Carriers, IsList
<1>n. PICK n : n = Len(entries)
  OBVIOUS
<1>1. /\ longer \in Seq(S \cup {e}) /\ Len(longer) = n + 1 /\ n \in Nat
      /\ (\A i \in 1 .. n : longer[i] = entries[i]) /\ longer[n + 1] = e
  <2>1. entries \in Seq(S \cup {e}) /\ e \in S \cup {e}
    BY <1>q, SeqMonotonic
  <2> QED BY <2>1, <1>n, AppendProperties, LenProperties
<1>2. Carriers(Bytes, longer, c)
  <2>1. ASSUME NEW i \in 1 .. Len(longer) PROVE Carrier(Bytes, PullOf(longer[i], c), longer[i])
    <3>1. i \in 1 .. n \/ i = n + 1
      BY <1>1
    <3> QED BY <1>1, <3>1, <1>n DEF Carriers
  <2> QED BY <1>1, <2>1 DEF Carriers, IsList
<1>3. m \in 0 .. Len(longer) /\ m \in 0 .. n
  BY <1>1, <1>n
<1>a. PICK a, b : a = More(entries, m, c) /\ b = More(longer, m, c)
  OBVIOUS
<1>4. IsMore(Bytes, a, entries, m, c)
  BY <1>a, MoreIsList
<1>5. IsMore(Bytes, b, longer, m, c)
  BY <1>a, <1>2, <1>3, MoreIsList
<1>d. PICK d : d = Append(a, x)
  OBVIOUS
<1>6. /\ d \in Seq(Seq(Bytes)) /\ Len(d) = Len(a) + 1
      /\ (\A i \in 1 .. Len(a) : d[i] = a[i]) /\ d[Len(a) + 1] = x
  <2>1. x \in Seq(Bytes)
    BY DEF Carrier
  <2> QED BY <1>4, <2>1, <1>d, AppendProperties DEF IsMore
<1>7. Len(a) = n - m /\ Len(b) = n + 1 - m /\ Len(d) = n + 1 - m
  BY <1>1, <1>3, <1>4, <1>5, <1>6, <1>n DEF IsMore
<1>8. ASSUME NEW i \in 1 .. Len(b) PROVE b[i] = d[i]
  <2>1. b[i] = PullOf(longer[m + i], c)
    BY <1>5 DEF IsMore
  <2>2. CASE i \in 1 .. n - m
    <3>1. m + i \in 1 .. n
      BY <1>1, <1>3, <2>2
    <3>2. d[i] = a[i] /\ a[i] = PullOf(entries[m + i], c)
      BY <1>4, <1>6, <1>7, <2>2 DEF IsMore
    <3> QED BY <1>1, <2>1, <3>1, <3>2
  <2>3. CASE ~(i \in 1 .. n - m)
    <3>1. i = n - m + 1 /\ m + i = n + 1
      BY <1>1, <1>3, <1>7, <2>3
    <3> QED BY <1>1, <1>6, <1>7, <2>1, <3>1
  <2> QED BY <2>2, <2>3
<1>9. b = d
  <2>1. b \in Seq(Seq(Bytes)) /\ Len(b) = Len(d)
    BY <1>5, <1>7 DEF IsMore
  <2> QED BY <1>6, <1>8, <2>1, SeqEqual
<1> QED BY <1>1, <1>2, <1>9, <1>a, <1>d, <1>n DEF IsLonger

\* The client takes the first.
LEMMA FirstOfMore ==
  ASSUME NEW Bytes, NEW c, NEW entries, Carriers(Bytes, entries, c), NEW m \in 0 .. Len(entries),
         m # Len(entries), NEW x, x = PullOf(entries[m + 1], c)
  PROVE  /\ m + 1 \in 1 .. Len(entries)
         /\ More(entries, m, c) = <<x>> \o More(entries, m + 1, c)
<1>n. PICK n : n = Len(entries)
  OBVIOUS
<1>1. n \in Nat
  BY <1>n, LenProperties DEF Carriers, IsList
<1>2. m + 1 \in 1 .. n /\ m + 1 \in 0 .. Len(entries) /\ m \in 0 .. n
  BY <1>1, <1>n
<1>a. PICK a, b : a = More(entries, m, c) /\ b = More(entries, m + 1, c)
  OBVIOUS
<1>3. IsMore(Bytes, a, entries, m, c)
  BY <1>a, MoreIsList
<1>4. IsMore(Bytes, b, entries, m + 1, c)
  BY <1>a, <1>2, MoreIsList
<1>h. PICK h : h = <<x>>
  OBVIOUS
<1>5. h \in Seq(Seq(Bytes)) /\ Len(h) = 1 /\ h[1] = x
  <2>1. x \in Seq(Bytes)
    BY <1>2, <1>n DEF Carriers, Carrier
  <2> QED BY <2>1, <1>h
<1>d. PICK d : d = h \o b
  OBVIOUS
<1>6. d \in Seq(Seq(Bytes)) /\ Joined(d, h, b)
  <2>1. b \in Seq(Seq(Bytes))
    BY <1>4 DEF IsMore
  <2> QED BY <1>5, <1>d, <2>1, JoinFacts
<1>7. Len(a) = n - m /\ Len(b) = n - (m + 1) /\ Len(d) = n - m
  <2>1. Len(a) = n - m /\ Len(b) = n - (m + 1)
    BY <1>3, <1>4, <1>n DEF IsMore
  <2>2. Len(d) = Len(h) + Len(b)
    BY <1>6 DEF Joined
  <2> QED BY <1>1, <1>2, <1>5, <2>1, <2>2
<1>8. ASSUME NEW i \in 1 .. Len(a) PROVE a[i] = d[i]
  <2>1. a[i] = PullOf(entries[m + i], c)
    BY <1>3 DEF IsMore
  <2>2. CASE i = 1
    <3>1. d[1] = h[1]
      BY <1>5, <1>6 DEF Joined
    <3> QED BY <1>5, <2>1, <2>2, <3>1
  <2>3. CASE i # 1
    <3>j. PICK j : j = i - 1
      OBVIOUS
    <3>1. j \in 1 .. n - (m + 1) /\ i = 1 + j /\ m + i = m + 1 + j
      BY <1>1, <1>2, <1>7, <2>3, <3>j
    <3>2. d[1 + j] = b[j]
      BY <1>5, <1>6, <1>7, <3>1 DEF Joined
    <3>3. b[j] = PullOf(entries[m + 1 + j], c)
      BY <1>4, <1>7, <3>1 DEF IsMore
    <3> QED BY <2>1, <3>1, <3>2, <3>3
  <2> QED BY <2>2, <2>3
<1>9. a = d
  <2>1. a \in Seq(Seq(Bytes)) /\ Len(a) = Len(d)
    BY <1>3, <1>7 DEF IsMore
  <2> QED BY <1>6, <1>8, <2>1, SeqEqual
<1> QED BY <1>2, <1>9, <1>a, <1>d, <1>h, <1>n

----------------------------------------------------------------------------
(* The bytes that wait in a queue *)

Waits(Bytes) == {w \in [bytes : Seq(Bytes), pos : Nat] : w.pos <= Len(w.bytes)}
Unwritten(w) == SubSeq(w.bytes, w.pos + 1, Len(w.bytes))
Left(q) == [i \in 1 .. Len(q) |-> Unwritten(q[i])]
Rest(q) == FlattenSeq(Left(q))

\* What is there of a packet, and of a queue of them.
EndsIn(Bytes, w, u) ==
  /\ u \in Seq(Bytes) /\ Len(u) = Len(w.bytes) - w.pos
  /\ w.bytes \in Seq(Bytes) /\ Len(w.bytes) \in Nat /\ w.pos \in 0 .. Len(w.bytes)
  /\ \A i \in 1 .. Len(w.bytes) - w.pos : u[i] = w.bytes[w.pos + i]

IsLeft(Bytes, q, l) ==
  /\ l \in Seq(Seq(Bytes)) /\ Len(l) = Len(q) /\ Len(q) \in Nat
  /\ \A i \in 1 .. Len(q) : l[i] = Unwritten(q[i]) /\ q[i] \in Waits(Bytes)

\* What a packet still has to send is the end of it.
LEMMA UnwrittenFacts ==
  ASSUME NEW Bytes, NEW w \in Waits(Bytes)
  PROVE  EndsIn(Bytes, w, Unwritten(w))
<1>b. PICK b, p, n : b = w.bytes /\ p = w.pos /\ n = Len(b)
  OBVIOUS
<1>1. b \in Seq(Bytes) /\ p \in Nat /\ n \in Nat /\ p <= n
  BY <1>b, LenProperties DEF Waits
<1>u. PICK u : u = SubSeq(b, p + 1, n)
  OBVIOUS
<1>2. \A i \in p + 1 .. n : b[i] \in Bytes
  BY <1>1, <1>b, LenProperties
<1>3. p + 1 \in Int /\ n \in Int /\ (IF p + 1 <= n THEN n - (p + 1) + 1 ELSE 0) = n - p
      /\ n - (p + 1) + 1 = n - p /\ \A i \in 1 .. n - p : p + 1 + i - 1 = p + i
  BY <1>1
<1>4. /\ u \in Seq(Bytes) /\ Len(u) = (IF p + 1 <= n THEN n - (p + 1) + 1 ELSE 0)
      /\ \A i \in 1 .. n - (p + 1) + 1 : u[i] = b[p + 1 + i - 1]
  BY <1>u, <1>2, <1>3, SubSeqProperties
<1>5. u \in Seq(Bytes) /\ Len(u) = n - p /\ \A i \in 1 .. n - p : u[i] = b[p + i]
  BY <1>3, <1>4
<1>6. u = Unwritten(w)
  BY <1>b, <1>u DEF Unwritten
<1> QED BY <1>1, <1>5, <1>6, <1>b DEF EndsIn

\* So the queue is a list of lists of bytes, ...
LEMMA LeftIsList ==
  ASSUME NEW Bytes, NEW q \in Seq(Waits(Bytes)), NEW l, l = Left(q)
  PROVE  IsLeft(Bytes, q, l)
<1>1. Len(q) \in Nat
  BY LenProperties
<1>2. ASSUME NEW i \in 1 .. Len(q) PROVE q[i] \in Waits(Bytes) /\ Unwritten(q[i]) \in Seq(Bytes)
  <2>1. q[i] \in Waits(Bytes)
    BY ElementOfSeq
  <2>2. EndsIn(Bytes, q[i], Unwritten(q[i]))
    BY <2>1, UnwrittenFacts
  <2> QED BY <2>1, <2>2 DEF EndsIn
<1>3. l \in [1 .. Len(q) -> Seq(Bytes)]
  BY <1>2 DEF Left
<1>4. l \in Seq(Seq(Bytes)) /\ Len(l) = Len(q)
  BY <1>1, <1>3, IsSequence
<1> QED BY <1>1, <1>2, <1>4 DEF Left, IsLeft

\* ... and flattens to one.
LEMMA RestFacts ==
  ASSUME NEW Bytes, NEW q \in Seq(Waits(Bytes))
  PROVE  Rest(q) \in Seq(Bytes) /\ (q = <<>> => Rest(q) = <<>>)
<1>l. PICK l : l = Left(q)
  OBVIOUS
<1>0. IsLeft(Bytes, q, l)
  BY <1>l, LeftIsList
<1>1. l \in Seq(Seq(Bytes)) /\ Len(l) = Len(q)
  BY <1>0 DEF IsLeft
<1>2. q = <<>> => l = <<>>
  BY <1>1, EmptySeq
<1> QED BY <1>1, <1>2, <1>l, FlattenType DEF Rest

\* A PULL that is queued is all to be written, and behind the others.
RestBehind(Bytes, longer, q, x) == longer \in Seq(Waits(Bytes)) /\ Rest(longer) = Rest(q) \o x

\* A packet that is queued comes last.
LEMMA RestQueued ==
  ASSUME NEW Bytes, NEW q \in Seq(Waits(Bytes)), NEW x \in Seq(Bytes),
         NEW w, w = [bytes |-> x, pos |-> 0], NEW longer, longer = Append(q, w)
  PROVE  RestBehind(Bytes, longer, q, x)
<1>1. w \in Waits(Bytes) /\ Unwritten(w) = x
  <2>1. Len(x) \in Nat
    BY LenProperties
  <2>2. w \in Waits(Bytes)
    BY <2>1 DEF Waits
  <2>3. Unwritten(w) = SubSeq(x, 1, Len(x))
    BY DEF Unwritten
  <2> QED BY <2>2, <2>3, SubSeqFull
<1>2. /\ longer \in Seq(Waits(Bytes)) /\ Len(longer) = Len(q) + 1 /\ Len(q) \in Nat
      /\ (\A i \in 1 .. Len(q) : longer[i] = q[i]) /\ longer[Len(q) + 1] = w
  BY <1>1, AppendProperties, LenProperties
<1>l. PICK l, m, d : l = Left(q) /\ m = Left(longer) /\ d = Append(l, x)
  OBVIOUS
<1>3. /\ l \in Seq(Seq(Bytes)) /\ Len(l) = Len(q) /\ \A i \in 1 .. Len(q) : l[i] = Unwritten(q[i])
  <2>1. IsLeft(Bytes, q, l)
    BY <1>l, LeftIsList
  <2> QED BY <2>1 DEF IsLeft
<1>4. /\ m \in Seq(Seq(Bytes)) /\ Len(m) = Len(longer)
      /\ \A i \in 1 .. Len(longer) : m[i] = Unwritten(longer[i])
  <2>1. longer \in Seq(Waits(Bytes))
    BY <1>2
  <2>2. IsLeft(Bytes, longer, m)
    BY <1>l, <2>1, LeftIsList
  <2> QED BY <2>2 DEF IsLeft
<1>5. /\ d \in Seq(Seq(Bytes)) /\ Len(d) = Len(l) + 1
      /\ (\A i \in 1 .. Len(l) : d[i] = l[i]) /\ d[Len(l) + 1] = x
  BY <1>3, <1>l, AppendProperties
<1>6. m = d
  <2>1. Len(m) = Len(d)
    BY <1>2, <1>3, <1>4, <1>5
  <2>2. ASSUME NEW i \in 1 .. Len(m) PROVE m[i] = d[i]
    <3>1. i \in 1 .. Len(q) \/ i = Len(q) + 1
      BY <1>2, <1>4
    <3>2. CASE i \in 1 .. Len(q)
      BY <1>2, <1>3, <1>4, <1>5, <3>2
    <3>3. CASE i = Len(q) + 1
      <4>1. d[i] = x
        BY <1>3, <1>5, <3>3
      <4>2. i \in 1 .. Len(longer) /\ longer[i] = w
        BY <1>2, <3>3
      <4> QED BY <1>1, <1>4, <4>1, <4>2
    <3> QED BY <3>1, <3>2, <3>3
  <2>3. m \in Seq(Seq(Bytes)) /\ d \in Seq(Seq(Bytes))
    BY <1>4, <1>5
  <2> QED BY <2>1, <2>2, <2>3, SeqEqual
<1>7. FlattenSeq(Append(l, x)) = FlattenSeq(l) \o x
  BY <1>3, FlattenAppend
<1> QED BY <1>2, <1>6, <1>7, <1>l DEF Rest, RestBehind

\* The packet in front, and those behind it.
Begins(Bytes, q, w, t) ==
  w \in Waits(Bytes) /\ t \in Seq(Waits(Bytes)) /\ q = <<w>> \o t

\* The packet in front comes first.
LEMMA RestOfFront ==
  ASSUME NEW Bytes, NEW w, NEW t, NEW q, Begins(Bytes, q, w, t)
  PROVE  q \in Seq(Waits(Bytes)) /\ Rest(q) = Unwritten(w) \o Rest(t)
<1>0. w \in Waits(Bytes) /\ t \in Seq(Waits(Bytes)) /\ q = <<w>> \o t
  BY DEF Begins
<1>u. PICK h, u : h = <<w>> /\ u = Unwritten(w)
  OBVIOUS
<1>1. h \in Seq(Waits(Bytes)) /\ Len(h) = 1 /\ h[1] = w /\ u \in Seq(Bytes)
  <2>1. EndsIn(Bytes, w, u)
    BY <1>0, <1>u, UnwrittenFacts
  <2> QED BY <1>0, <1>u, <2>1 DEF EndsIn
<1>2. q \in Seq(Waits(Bytes)) /\ Joined(q, h, t)
  BY <1>0, <1>1, <1>u, JoinFacts
<1>l. PICK l, m, g, d : l = Left(t) /\ m = Left(q) /\ g = <<u>> /\ d = g \o l
  OBVIOUS
<1>3. /\ l \in Seq(Seq(Bytes)) /\ Len(l) = Len(t) /\ \A i \in 1 .. Len(t) : l[i] = Unwritten(t[i])
  <2>1. IsLeft(Bytes, t, l)
    BY <1>0, <1>l, LeftIsList
  <2> QED BY <2>1 DEF IsLeft
<1>4. /\ m \in Seq(Seq(Bytes)) /\ Len(m) = Len(q) /\ \A i \in 1 .. Len(q) : m[i] = Unwritten(q[i])
  <2>1. IsLeft(Bytes, q, m)
    BY <1>2, <1>l, LeftIsList
  <2> QED BY <2>1 DEF IsLeft
<1>5. g \in Seq(Seq(Bytes)) /\ Len(g) = 1 /\ g[1] = u
  BY <1>1, <1>l
<1>6. d \in Seq(Seq(Bytes)) /\ Joined(d, g, l)
  BY <1>3, <1>5, <1>l, JoinFacts
<1>n. PICK n : n = Len(t)
  OBVIOUS
<1>7. n \in Nat /\ Len(q) = 1 + n /\ Len(m) = 1 + n /\ Len(d) = 1 + n
  <2>1. n \in Nat /\ Len(q) = 1 + n
    BY <1>1, <1>2, <1>n DEF Joined
  <2>2. Len(d) = 1 + n
    BY <1>3, <1>5, <1>6, <1>n DEF Joined
  <2> QED BY <1>4, <2>1, <2>2
<1>8. m = d
  <2>1. ASSUME NEW i \in 1 .. Len(m) PROVE m[i] = d[i]
    <3>1. CASE i = 1
      <4>1. d[1] = g[1] /\ q[1] = h[1]
        BY <1>1, <1>2, <1>5, <1>6 DEF Joined
      <4>2. 1 \in 1 .. Len(q)
        BY <1>7
      <4> QED BY <1>1, <1>4, <1>5, <1>u, <3>1, <4>1, <4>2
    <3>2. CASE i # 1
      <4>j. PICK j : j = i - 1
        OBVIOUS
      <4>1. j \in 1 .. n /\ i = 1 + j /\ i \in 1 .. Len(q)
        BY <1>7, <3>2, <4>j
      <4>2. d[1 + j] = l[j] /\ q[1 + j] = t[j]
        BY <1>1, <1>2, <1>3, <1>5, <1>6, <1>n, <4>1 DEF Joined
      <4>3. m[i] = Unwritten(q[i]) /\ l[j] = Unwritten(t[j])
        BY <1>3, <1>4, <1>n, <4>1
      <4> QED BY <4>1, <4>2, <4>3
    <3> QED BY <3>1, <3>2
  <2>2. Len(m) = Len(d)
    BY <1>7
  <2> QED BY <1>4, <1>6, <2>1, <2>2, SeqEqual
<1>9. FlattenSeq(d) = u \o FlattenSeq(l)
  BY <1>1, <1>3, <1>l, FlattenFirst
<1> QED BY <1>2, <1>8, <1>9, <1>l, <1>u DEF Rest

\* What a connection takes comes off the front.
RestCut(Bytes, q, took, r) ==
  r \in Seq(Waits(Bytes)) /\ took \in Seq(Bytes) /\ Rest(q) = took \o Rest(r)

\* What a send takes is cut off the front.
LEMMA RestTaken ==
  ASSUME NEW Bytes, NEW q \in Seq(Waits(Bytes)), q # <<>>, NEW n \in SendOutcomes(q), n # 0,
         NEW r, r = Shorter(q, n), NEW took, took = Taken(q, n)
  PROVE  RestCut(Bytes, q, took, r)
<1>w. PICK w, t : w = Head(q) /\ t = Tail(q)
  OBVIOUS
<1>1. w \in Waits(Bytes) /\ t \in Seq(Waits(Bytes)) /\ q = <<w>> \o t
  <2>1. w \in Waits(Bytes) /\ t \in Seq(Waits(Bytes)) /\ Len(t) = Len(q) - 1
        /\ \A i \in 1 .. Len(t) : t[i] = q[i + 1]
    BY <1>w, HeadTailProperties
  <2>h. PICK h, d : h = <<w>> /\ d = h \o t
    OBVIOUS
  <2>2. h \in Seq(Waits(Bytes)) /\ Len(h) = 1 /\ h[1] = w
    BY <2>1, <2>h
  <2>3. d \in Seq(Waits(Bytes)) /\ Joined(d, h, t)
    BY <2>1, <2>2, <2>h, JoinFacts
  <2>n. PICK m : m = Len(q)
    OBVIOUS
  <2>4. m \in Nat \ {0}
    BY <2>n, EmptySeq
  <2>5. Len(d) = m /\ Len(t) = m - 1
    BY <2>1, <2>2, <2>3, <2>4, <2>n DEF Joined
  <2>6. q[1] = w
    BY <1>w
  <2>7. ASSUME NEW i \in 1 .. m PROVE q[i] = d[i]
    <3>1. CASE i = 1
      BY <2>2, <2>3, <2>6, <3>1 DEF Joined
    <3>2. CASE i # 1
      <4>j. PICK j : j = i - 1
        OBVIOUS
      <4>1. j \in 1 .. Len(t) /\ i = j + 1 /\ i = 1 + j
        BY <2>4, <2>5, <3>2, <4>j
      <4>2. d[1 + j] = t[j]
        BY <2>2, <2>3, <4>1 DEF Joined
      <4> QED BY <2>1, <4>1, <4>2
    <3> QED BY <3>1, <3>2
  <2>8. q = d
    BY <2>3, <2>5, <2>7, <2>n, SeqEqual
  <2> QED BY <2>1, <2>8, <2>h
<1>b. PICK b, p, l : b = w.bytes /\ p = w.pos /\ l = Len(b)
  OBVIOUS
<1>u. PICK u : u = Unwritten(w)
  OBVIOUS
<1>2. /\ b \in Seq(Bytes) /\ l \in Nat /\ p \in 0 .. l /\ u \in Seq(Bytes) /\ Len(u) = l - p
      /\ \A i \in 1 .. l - p : u[i] = b[p + i]
  <2>1. EndsIn(Bytes, w, u)
    BY <1>1, <1>u, UnwrittenFacts
  <2> QED BY <1>b, <2>1 DEF EndsIn
<1>3. n \in 1 .. l - p
  <2>1. n \in {0, l - p} \cup {k \in SendSizes : k < l - p}
    BY <1>b, <1>w DEF SendOutcomes
  <2>2. SendSizes \subseteq Nat \ {0}
    BY RendezvousAssumption
  <2> QED BY <1>2, <2>1, <2>2
<1>4. took \in Seq(Bytes) /\ Len(took) = n /\ \A i \in 1 .. n : took[i] = b[p + i]
  <2>1. took = SubSeq(b, p + 1, p + n)
    BY <1>b, <1>w DEF Taken
  <2>2. \A i \in p + 1 .. p + n : b[i] \in Bytes
    <3>1. \A i \in p + 1 .. p + n : i \in 1 .. l
      BY <1>2, <1>3
    <3> QED BY <1>2, <1>b, <3>1, LenProperties
  <2>h. PICK lo, hi : lo = p + 1 /\ hi = p + n
    OBVIOUS
  <2>3. lo \in Int /\ hi \in Int /\ (IF lo <= hi THEN hi - lo + 1 ELSE 0) = n
        /\ hi - lo + 1 = n /\ \A i \in 1 .. n : lo + i - 1 = p + i
    BY <1>2, <1>3, <2>h
  <2>4. took = SubSeq(b, lo, hi) /\ \A i \in lo .. hi : b[i] \in Bytes
    BY <2>1, <2>2, <2>h
  <2>5. /\ took \in Seq(Bytes) /\ Len(took) = (IF lo <= hi THEN hi - lo + 1 ELSE 0)
        /\ \A i \in 1 .. hi - lo + 1 : took[i] = b[lo + i - 1]
    BY <2>3, <2>4, SubSeqProperties
  <2> QED BY <2>3, <2>5
<1>5. Rest(q) = u \o Rest(t) /\ Rest(t) \in Seq(Bytes)
  <2>0. Begins(Bytes, q, w, t)
    BY <1>1 DEF Begins
  <2>1. Rest(q) = Unwritten(w) \o Rest(t)
    BY <2>0, RestOfFront
  <2>2. Rest(t) \in Seq(Bytes)
    BY <1>1, RestFacts
  <2> QED BY <2>1, <2>2, <1>u
<1>6. CASE p + n = l
  <2>1. r = t
    BY <1>b, <1>w, <1>6 DEF Shorter
  <2>2. took = u
    <3>1. n = l - p
      BY <1>2, <1>3, <1>6
    <3> QED BY <1>2, <1>4, <3>1, SeqEqual
  <2> QED BY <1>1, <1>4, <1>5, <2>1, <2>2 DEF RestCut
<1>7. CASE p + n # l
  <2>v. PICK v : v = [bytes |-> b, pos |-> p + n]
    OBVIOUS
  <2>1. v = [w EXCEPT !.pos = @ + n]
    BY <1>1, <1>b, <2>v DEF Waits
  <2>2. r = <<v>> \o t
    BY <1>b, <1>w, <1>7, <2>1 DEF Shorter
  <2>3. v \in Waits(Bytes) /\ v.bytes = b /\ v.pos = p + n
    <3>1. p + n \in Nat /\ p + n <= Len(b)
      BY <1>2, <1>3, <1>b
    <3> QED BY <1>2, <2>v, <3>1 DEF Waits
  <2>x. PICK x : x = Unwritten(v)
    OBVIOUS
  <2>4. /\ x \in Seq(Bytes) /\ Len(x) = l - (p + n)
        /\ \A i \in 1 .. l - (p + n) : x[i] = b[p + n + i]
    <3>1. EndsIn(Bytes, v, x)
      BY <2>3, <2>x, UnwrittenFacts
    <3> QED BY <1>b, <2>3, <3>1, Zenon DEF EndsIn
  <2>5. r \in Seq(Waits(Bytes)) /\ Rest(r) = x \o Rest(t)
    <3>1. Begins(Bytes, r, v, t)
      BY <1>1, <2>2, <2>3 DEF Begins
    <3>2. r \in Seq(Waits(Bytes)) /\ Rest(r) = Unwritten(v) \o Rest(t)
      BY <3>1, RestOfFront
    <3> QED BY <3>2, <2>x
  <2>6. u = took \o x
    <3>d. PICK d : d = took \o x
      OBVIOUS
    <3>1. d \in Seq(Bytes) /\ Joined(d, took, x)
      BY <1>4, <2>4, <3>d, JoinFacts
    <3>2. Len(d) = l - p
      <4>1. Len(d) = n + (l - (p + n))
        BY <1>4, <2>4, <3>1 DEF Joined
      <4> QED BY <1>2, <1>3, <4>1
    <3>3. ASSUME NEW i \in 1 .. Len(u) PROVE u[i] = d[i]
      <4>0. u[i] = b[p + i] /\ i \in 1 .. l - p
        BY <1>2
      <4>1. CASE i \in 1 .. n
        BY <1>4, <3>1, <4>0, <4>1 DEF Joined
      <4>2. CASE ~(i \in 1 .. n)
        <5>j. PICK j : j = i - n
          OBVIOUS
        <5>1. j \in 1 .. l - (p + n) /\ i = n + j /\ p + i = p + n + j
          BY <1>2, <1>3, <4>0, <4>2, <5>j
        <5>2. d[n + j] = x[j]
          BY <1>4, <2>4, <3>1, <5>1 DEF Joined
        <5> QED BY <2>4, <4>0, <5>1, <5>2
      <4> QED BY <4>1, <4>2
    <3>4. u = d
      BY <1>2, <3>1, <3>2, <3>3, SeqEqual
    <3> QED BY <3>4, <3>d
  <2>7. (took \o x) \o Rest(t) = took \o (x \o Rest(t))
    BY <1>4, <1>5, <2>4, ConcatAssociative, SMTT(40)
  <2> QED BY <1>4, <1>5, <2>5, <2>6, <2>7 DEF RestCut
<1> QED BY <1>6, <1>7

----------------------------------------------------------------------------
(* The stream of one client: of "entries", what was queued for it, it got the first, and the *)
(* bytes of the others are held for it and then lost to it, or still queued. *)

Flow(Bytes, c, entries, got, held, lost) ==
  /\ Carriers(Bytes, entries, c) /\ IsList(got) /\ Len(got) <= Len(entries)
  /\ \A i \in DOMAIN got :
       got[i] = [from |-> entries[i].from, packet |-> Received(entries[i].packet, entries[i].from)]
  /\ held \in Seq(Bytes) /\ lost \in Seq(Bytes)
  /\ FlattenSeq(More(entries, Len(got), c)) = held \o lost

\* A new stream is empty.
LEMMA FlowBegins ==
  ASSUME NEW Bytes, NEW c
  PROVE  Flow(Bytes, c, <<>>, <<>>, <<>>, <<>>)
<1>n. PICK e : e = <<>>
  OBVIOUS
<1>1. e \in Seq(Bytes) /\ e \in Seq(Seq(Bytes)) /\ Len(e) = 0 /\ IsList(e)
  BY <1>n DEF IsList
<1>2. Carriers(Bytes, e, c)
  BY <1>1 DEF Carriers
<1>m. PICK m : m = More(e, 0, c)
  OBVIOUS
<1>3. IsMore(Bytes, m, e, 0, c)
  BY <1>1, <1>2, <1>m, MoreIsList
<1>4. m \in Seq(Seq(Bytes)) /\ m = <<>>
  BY <1>1, <1>3, EmptySeq DEF IsMore
<1>5. FlattenSeq(m) = <<>>
  BY <1>4, FlattenType
<1>6. e \o e = <<>>
  BY <1>1, <1>n, ConcatEmptySeq
<1>7. Flow(Bytes, c, e, e, e, e)
  BY <1>1, <1>2, <1>5, <1>6, <1>m, <1>n DEF Flow
<1> QED BY <1>7, <1>n

\* A PULL is queued.
LEMMA FlowQueued ==
  ASSUME NEW Bytes, NEW c, NEW entries, NEW got, NEW held, NEW lost,
         Flow(Bytes, c, entries, got, held, lost),
         NEW e, NEW x, x = PullOf(e, c), Carrier(Bytes, x, e),
         NEW longer, longer = Append(entries, e), NEW left, left = lost \o x
  PROVE  Flow(Bytes, c, longer, got, held, left)
<1>m. PICK m : m = Len(got)
  OBVIOUS
<1>1. /\ Carriers(Bytes, entries, c) /\ m \in 0 .. Len(entries) /\ DOMAIN got = 1 .. m /\ IsList(got)
      /\ Len(entries) \in Nat
  <2>1. m \in Nat /\ DOMAIN got = 1 .. m /\ Len(entries) \in Nat
    BY <1>m, LenProperties DEF Flow, Carriers, IsList
  <2> QED BY <2>1, <1>m DEF Flow
<1>2. /\ Carriers(Bytes, longer, c) /\ Len(longer) = Len(entries) + 1
      /\ \A i \in 1 .. Len(entries) : longer[i] = entries[i]
      /\ More(longer, m, c) = Append(More(entries, m, c), x)
  <2>1. IsLonger(Bytes, longer, entries, m, c, x)
    BY <1>1, MoreQueued
  <2> QED BY <2>1 DEF IsLonger
<1>a. PICK a : a = More(entries, m, c)
  OBVIOUS
<1>3. a \in Seq(Seq(Bytes))
  BY <1>1, <1>a, MoreIsList DEF IsMore
<1>4. x \in Seq(Bytes) /\ held \in Seq(Bytes) /\ lost \in Seq(Bytes)
  BY DEF Carrier, Flow
<1>5. FlattenSeq(Append(a, x)) = FlattenSeq(a) \o x
  BY <1>3, <1>4, FlattenAppend
<1>6. FlattenSeq(a) = held \o lost
  BY <1>a, <1>m DEF Flow
<1>7. (held \o lost) \o x = held \o (lost \o x)
  BY <1>4, ConcatAssociative, SMTT(30)
<1>8. FlattenSeq(More(longer, m, c)) = held \o left
  BY <1>2, <1>5, <1>6, <1>7, <1>a
<1>9. left \in Seq(Bytes)
  BY <1>4, ConcatProperties
<1>10. \A i \in DOMAIN got :
         got[i] = [from |-> longer[i].from, packet |-> Received(longer[i].packet, longer[i].from)]
  <2>1. \A i \in DOMAIN got : longer[i] = entries[i]
    BY <1>1, <1>2
  <2> QED BY <2>1 DEF Flow
<1>11. Len(got) <= Len(longer)
  BY <1>1, <1>2, <1>m
<1> QED BY <1>1, <1>2, <1>4, <1>8, <1>9, <1>10, <1>11, <1>m DEF Flow

\* Some of what was queued is sent.
LEMMA FlowSent ==
  ASSUME NEW Bytes, NEW c, NEW entries, NEW got, NEW held, NEW lost,
         Flow(Bytes, c, entries, got, held, lost),
         NEW took \in Seq(Bytes), NEW left \in Seq(Bytes), lost = took \o left,
         NEW more, more = held \o took
  PROVE  Flow(Bytes, c, entries, got, more, left)
<1>1. held \in Seq(Bytes) /\ FlattenSeq(More(entries, Len(got), c)) = held \o lost
  BY DEF Flow
<1>2. (held \o took) \o left = held \o (took \o left) /\ more \in Seq(Bytes)
  BY <1>1, ConcatAssociative, ConcatProperties
<1> QED BY <1>1, <1>2 DEF Flow

----------------------------------------------------------------------------
(* The client receives *)

\* What a buffer says of the packets that are due: it is not empty, and has no more than one
\* PULL could have; pull is what ParsePull makes of it.
Gets(Bytes, c, entries, got, buf, wires, lost) ==
  /\ buf \in Seq(Bytes) /\ wires \in Seq(Bytes) /\ Len(buf) \in 1 .. MaxPacketSize
  /\ Flow(Bytes, c, entries, got, buf \o wires, lost)

\* Then it is the beginning of the next PULL, x, or has all of it; f are those behind x.
IsNext(Bytes, entries, got, buf, rest, lost, m, x, f) ==
  /\ m \in Nat /\ m + 1 \in 1 .. Len(entries) /\ DOMAIN got = 1 .. m
  /\ rest \in Seq(Bytes) /\ lost \in Seq(Bytes) /\ f \in Seq(Bytes)
  /\ x \o f = buf \o rest

\* The bytes the client holds are a front of the next PULL, or begin with all of it.
LEMMA NextPull ==
  ASSUME NEW Bytes, NEW c, NEW entries, NEW got, NEW buf, NEW wires, NEW lost,
         Gets(Bytes, c, entries, got, buf, wires, lost),
         NEW rest, rest = wires \o lost, NEW m, m = Len(got),
         NEW x, x = PullOf(entries[m + 1], c), NEW f, f = FlattenSeq(More(entries, m + 1, c))
  PROVE  IsNext(Bytes, entries, got, buf, rest, lost, m, x, f)
<1>1. /\ Carriers(Bytes, entries, c) /\ m \in 0 .. Len(entries) /\ DOMAIN got = 1 .. m
      /\ m \in Nat /\ Len(entries) \in Nat
  <2>1. m \in Nat /\ DOMAIN got = 1 .. m /\ Len(entries) \in Nat
    BY LenProperties DEF Gets, Flow, Carriers, IsList
  <2> QED BY <2>1 DEF Gets, Flow
<1>2. lost \in Seq(Bytes) /\ buf \in Seq(Bytes) /\ wires \in Seq(Bytes)
  BY DEF Gets, Flow
<1>3. rest \in Seq(Bytes) /\ (buf \o wires) \o lost = buf \o rest
  BY <1>2, ConcatAssociative, ConcatProperties, SMTT(30)
<1>a. PICK a : a = More(entries, m, c)
  OBVIOUS
<1>4. FlattenSeq(a) = buf \o rest
  BY <1>3, <1>a DEF Gets, Flow
<1>5. IsMore(Bytes, a, entries, m, c)
  BY <1>1, <1>a, MoreIsList
<1>6. m # Len(entries)
  <2> SUFFICES ASSUME m = Len(entries) PROVE FALSE
    OBVIOUS
  <2>1. Len(a) = 0 /\ a \in Seq(Seq(Bytes))
    BY <1>1, <1>5 DEF IsMore
  <2>2. FlattenSeq(a) = <<>>
    BY <2>1, EmptySeq, FlattenType
  <2>3. buf = <<>>
    BY <1>2, <1>3, <1>4, <2>2, ConcatSimplifications
  <2> QED BY <2>3 DEF Gets
<1>7. m + 1 \in 1 .. Len(entries) /\ m + 1 \in 0 .. Len(entries)
  BY <1>1, <1>6
<1>b. PICK b : b = More(entries, m + 1, c)
  OBVIOUS
<1>8. a = <<x>> \o b
  BY <1>1, <1>6, <1>a, <1>b, FirstOfMore
<1>9. b \in Seq(Seq(Bytes))
  <2>1. IsMore(Bytes, b, entries, m + 1, c)
    BY <1>1, <1>7, <1>b, MoreIsList
  <2> QED BY <2>1 DEF IsMore
<1>10. x \in Seq(Bytes)
  <2>1. Carrier(Bytes, PullOf(entries[m + 1], c), entries[m + 1])
    BY <1>1, <1>7 DEF Carriers
  <2> QED BY <2>1 DEF Carrier
<1>11. FlattenSeq(a) = x \o FlattenSeq(b) /\ FlattenSeq(b) \in Seq(Bytes)
  BY <1>8, <1>9, <1>10, FlattenFirst, FlattenType
<1> QED BY <1>1, <1>2, <1>3, <1>4, <1>7, <1>8, <1>11, <1>a, <1>b DEF IsNext

\* Not all of it: the buffer is kept, and has room for more.
LEMMA FlowWaits ==
  ASSUME NEW Bytes, NEW c, NEW entries, NEW got, NEW buf, NEW wires, NEW lost,
         Gets(Bytes, c, entries, got, buf, wires, lost), ParsePull(buf) = Null
  PROVE  Len(buf) < MaxPacketSize
<1>r. PICK rest, m, x, f : /\ rest = wires \o lost /\ m = Len(got)
                           /\ x = PullOf(entries[m + 1], c) /\ f = FlattenSeq(More(entries, m + 1, c))
  OBVIOUS
<1>1. IsNext(Bytes, entries, got, buf, rest, lost, m, x, f)
  BY <1>r, NextPull
<1>2. m + 1 \in 1 .. Len(entries) /\ rest \in Seq(Bytes) /\ f \in Seq(Bytes) /\ x \o f = buf \o rest
  BY <1>1 DEF IsNext
<1>3. Carrier(Bytes, x, entries[m + 1])
  BY <1>2, <1>r DEF Gets, Flow, Carriers
<1>4. x \in Seq(Bytes) /\ Len(x) \in 1 .. MaxPacketSize /\ buf \in Seq(Bytes) /\ Len(buf) \in Nat
  BY <1>3, LenProperties DEF Carrier, Gets
<1>5. ~(Len(x) <= Len(buf))
  <2> SUFFICES ASSUME Len(x) <= Len(buf) PROVE FALSE
    OBVIOUS
  <2>0. CutTwice(Bytes, x, f, buf, rest)
    BY <1>2, <1>4 DEF CutTwice
  <2>1. PICK e \in Seq(Bytes) : buf = x \o e
    <3>1. Overlaps(Bytes, x, f, buf, rest)
      BY <2>0, Overlap
    <3> QED BY <3>1 DEF Overlaps
  <2>2. ParsePull(x \o e) # Null
    BY <1>3 DEF Carrier
  <2> QED BY <2>1, <2>2
<1>6. MaxPacketSize \in Nat
  BY BuffersAssumption
<1> QED BY <1>4, <1>5, <1>6

\* All of it: it is taken.
LEMMA FlowTaken ==
  ASSUME NEW Bytes, NEW c, NEW entries, NEW got, NEW buf, NEW wires, NEW lost,
         Gets(Bytes, c, entries, got, buf, wires, lost),
         NEW pull, pull = ParsePull(buf), pull # Null,
         NEW longer, longer = Append(got, [from |-> pull.from, packet |-> Parses(pull.from, pull.payload)]),
         NEW held, held = pull.rest \o wires
  PROVE  /\ Flow(Bytes, c, entries, longer, held, lost)
         /\ pull.rest \in Seq(Bytes) /\ Len(pull.rest) < Len(buf)
<1>r. PICK rest, m, x, f : /\ rest = wires \o lost /\ m = Len(got)
                           /\ x = PullOf(entries[m + 1], c) /\ f = FlattenSeq(More(entries, m + 1, c))
  OBVIOUS
<1>1. IsNext(Bytes, entries, got, buf, rest, lost, m, x, f) /\ m = Len(got) /\ rest = wires \o lost
  BY <1>r, NextPull
<1>2. /\ m \in Nat /\ m + 1 \in 1 .. Len(entries) /\ DOMAIN got = 1 .. m
      /\ rest \in Seq(Bytes) /\ lost \in Seq(Bytes) /\ f \in Seq(Bytes) /\ x \o f = buf \o rest
  BY <1>1 DEF IsNext
<1>3. Carrier(Bytes, x, entries[m + 1])
  BY <1>2, <1>r DEF Gets, Flow, Carriers
<1>4. /\ x \in Seq(Bytes) /\ Len(x) \in 1 .. MaxPacketSize
      /\ buf \in Seq(Bytes) /\ Len(buf) \in Nat /\ wires \in Seq(Bytes)
  BY <1>3, LenProperties DEF Carrier, Gets
<1>5. Len(x) <= Len(buf)
  <2> SUFFICES ASSUME ~(Len(x) <= Len(buf)) PROVE FALSE
    OBVIOUS
  <2>1. Len(buf) <= Len(x) /\ Len(buf) \in 0 .. Len(x) - 1
    <3>1. MaxPacketSize \in Nat
      BY BuffersAssumption
    <3> QED BY <1>4, <3>1
  <2>2. CutTwice(Bytes, buf, rest, x, f)
    BY <1>2, <1>4, <2>1 DEF CutTwice
  <2>3. PICK e \in Seq(Bytes) : x = buf \o e
    <3>1. Overlaps(Bytes, buf, rest, x, f)
      BY <2>2, Overlap
    <3> QED BY <3>1 DEF Overlaps
  <2>4. SubSeq(x, 1, Len(buf)) = buf
    BY <1>4, <2>3, FrontOf
  <2>5. ParsePull(SubSeq(x, 1, Len(buf))) = Null
    BY <1>3, <2>1 DEF Carrier
  <2> QED BY <2>4, <2>5
<1>e. PICK e \in Seq(Bytes) : buf = x \o e /\ f = e \o rest /\ Len(buf) = Len(x) + Len(e)
  <2>1. CutTwice(Bytes, x, f, buf, rest)
    BY <1>2, <1>4, <1>5 DEF CutTwice
  <2>2. Overlaps(Bytes, x, f, buf, rest)
    BY <2>1, Overlap
  <2> QED BY <2>2 DEF Overlaps
<1>6. /\ pull.rest = e /\ pull.from = entries[m + 1].from
      /\ Parses(pull.from, pull.payload) = Received(entries[m + 1].packet, entries[m + 1].from)
  <2>1. /\ ParsePull(x \o e).rest = e /\ ParsePull(x \o e).from = entries[m + 1].from
        /\ Parses(entries[m + 1].from, ParsePull(x \o e).payload)
             = Received(entries[m + 1].packet, entries[m + 1].from)
    BY <1>3 DEF Carrier
  <2>2. pull = ParsePull(x \o e)
    BY <1>e
  <2> QED BY <2>1, <2>2
<1>g. PICK g : g = [from |-> entries[m + 1].from,
                    packet |-> Received(entries[m + 1].packet, entries[m + 1].from)]
  OBVIOUS
<1>7. longer = Append(got, g)
  BY <1>6, <1>g
<1>q. PICK S : got \in Seq(S)
  BY DEF Gets, Flow, IsList
<1>8. /\ IsList(longer) /\ Len(longer) = m + 1 /\ DOMAIN longer = 1 .. m + 1
      /\ (\A i \in 1 .. m : longer[i] = got[i]) /\ longer[m + 1] = g
  <2>1. got \in Seq(S \cup {g}) /\ g \in S \cup {g}
    BY <1>q, SeqMonotonic
  <2>2. /\ longer \in Seq(S \cup {g}) /\ Len(longer) = m + 1
        /\ (\A i \in 1 .. m : longer[i] = got[i]) /\ longer[m + 1] = g
    BY <1>1, <1>7, <2>1, AppendProperties
  <2>3. IsList(longer)
    BY <2>2 DEF IsList
  <2> QED BY <2>2, <2>3, LenProperties
<1>9. \A i \in DOMAIN longer :
        longer[i] = [from |-> entries[i].from, packet |-> Received(entries[i].packet, entries[i].from)]
  <2> TAKE i \in DOMAIN longer
  <2>1. i \in 1 .. m \/ i = m + 1
    BY <1>2, <1>8
  <2>2. CASE i \in 1 .. m
    <3>1. longer[i] = got[i] /\ i \in DOMAIN got
      BY <1>2, <1>8, <2>2
    <3> QED BY <3>1 DEF Gets, Flow
  <2>3. CASE i = m + 1
    BY <1>8, <1>g, <2>3
  <2> QED BY <2>1, <2>2, <2>3
<1>10. held \in Seq(Bytes) /\ held = e \o wires /\ held \o lost = e \o rest
  <2>1. held = e \o wires
    BY <1>6
  <2>0. e \in Seq(Bytes) /\ wires \in Seq(Bytes) /\ lost \in Seq(Bytes)
    BY <1>e, <1>2, <1>4
  <2>2. (e \o wires) \o lost = e \o (wires \o lost) /\ e \o wires \in Seq(Bytes)
    BY <2>0, ConcatAssociative, ConcatProperties, SMTT(30)
  <2> QED BY <1>1, <2>1, <2>2
<1>11. Carriers(Bytes, entries, c) /\ Len(longer) <= Len(entries)
  <2>1. Len(entries) \in Nat
    BY LenProperties DEF Gets, Flow, Carriers, IsList
  <2> QED BY <1>2, <1>8, <2>1 DEF Gets, Flow
<1>12. FlattenSeq(More(entries, Len(longer), c)) = held \o lost
  BY <1>8, <1>10, <1>e, <1>r
<1>13. Flow(Bytes, c, entries, longer, held, lost)
  BY <1>2, <1>8, <1>9, <1>10, <1>11, <1>12 DEF Flow
<1>14. Len(e) < Len(buf)
  <2>1. Len(e) \in Nat
    BY LenProperties
  <2>2. MaxPacketSize \in Nat
    BY BuffersAssumption
  <2> QED BY <1>4, <1>e, <2>1, <2>2
<1> QED BY <1>6, <1>13, <1>14

----------------------------------------------------------------------------
(* The streams of the clients that run *)

\* What the network has lost of the stream of client c is what its queue has, as long as
\* connection k is open.
Streams(Bytes, c, entries, got, held, k, soc, que) ==
  \E lost : /\ Flow(Bytes, c, entries, got, held, lost)
            /\ \A fd \in RendvFDs : soc[fd] = k => lost = Rest(que[fd])

StreamOf(Bytes, c) ==
  Streams(Bytes, c, pushed[tunnel[c]], taken[c], received[c] \o wire[tunnel[c]], tunnel[c],
          rendvSocket, queue)

\* No connection is open twice, and what is queued is made of bytes.
OneSocket(soc) == \A x, y \in RendvFDs : soc[x] # 0 /\ soc[x] = soc[y] => x = y
QueuesOf(Bytes, que) == \A fd \in RendvFDs : que[fd] # Null => que[fd] \in Seq(Waits(Bytes))

\* Nothing has been queued for a connection that waits for accept.
InLine(line, soc, entries) ==
  \A i \in DOMAIN line :
    /\ entries[line[i]] = <<>> /\ \A fd \in RendvFDs : soc[fd] # line[i]
    /\ \A j \in DOMAIN line : line[i] = line[j] => i = j

\* A node that does not run, and a connection that is not there yet, hold nothing.
Fresh ==
  /\ \A c \in Clients : tunnel[c] = 0 => received[c] = <<>> /\ taken[c] = <<>>
  /\ \A k \in Conns : k > Len(owner) => pushed[k] = <<>> /\ wire[k] = <<>>

StreamTypes(Bytes) ==
  /\ Len(owner) <= MaxConns
  /\ received \in [Clients -> Seq(Bytes)] /\ wire \in [Conns -> Seq(Bytes)]
  /\ DOMAIN pushed = Conns /\ taken = [c \in Clients |-> taken[c]]

Owned == \A c \in Clients : tunnel[c] # 0 => owner[tunnel[c]] = c

TunnelInv(Bytes) ==
  /\ StreamTypes(Bytes) /\ Fresh /\ Owned
  /\ OneSocket(rendvSocket) /\ QueuesOf(Bytes, queue) /\ InLine(backlog, rendvSocket, pushed)
  /\ \A c \in Clients : tunnel[c] # 0 => StreamOf(Bytes, c)
  /\ \A c \in Clients : Len(received[c]) < MaxPacketSize

StreamInv(Bytes) == HostInv /\ TunnelInv(Bytes)

\* The invariant holds at the start.
LEMMA StreamInit ==
  ASSUME NEW Bytes, RendvInit
  PROVE  TunnelInv(Bytes)
<1> USE DEF RendvInit
<1>1. <<>> \in Seq(Bytes) /\ Len(owner) = 0 /\ MaxConns \in Nat
  BY RendezvousAssumption
<1>2. StreamTypes(Bytes) /\ Fresh
  BY <1>1 DEF StreamTypes, Fresh, Conns
<1>3. Owned /\ \A c \in Clients : tunnel[c] # 0 => StreamOf(Bytes, c)
  BY DEF Owned
<1>4. OneSocket(rendvSocket) /\ QueuesOf(Bytes, queue) /\ InLine(backlog, rendvSocket, pushed)
  BY DEF OneSocket, QueuesOf, InLine
<1>5. \A c \in Clients : Len(received[c]) < MaxPacketSize
  BY BuffersAssumption
<1> QED BY <1>2, <1>3, <1>4, <1>5 DEF TunnelInv

\* The connection of a running client is one that was opened, by that client only.
LEMMA TunnelFacts ==
  ASSUME NEW Bytes, StreamInv(Bytes), NEW c \in Clients, tunnel[c] # 0
  PROVE  /\ tunnel[c] \in Conns /\ tunnel[c] \in 1 .. Len(owner) /\ owner[tunnel[c]] = c
         /\ Len(owner) \in Nat /\ owner \in Seq(Clients) /\ Len(owner) <= MaxConns
         /\ \A d \in Clients : tunnel[d] = tunnel[c] => d = c
         /\ received[c] \in Seq(Bytes) /\ wire[tunnel[c]] \in Seq(Bytes)
<1>1. owner \in Seq(Clients) /\ Len(owner) \in Nat /\ tunnel[c] \in 0 .. Len(owner)
  <2>1. owner \in Seq(Clients)
    BY DEF StreamInv, HostInv, Good, Typed
  <2>2. Len(owner) \in Nat
    BY <2>1, LenProperties
  <2> QED BY <2>1, <2>2 DEF StreamInv, HostInv
<1>2. MaxConns \in Nat /\ Len(owner) <= MaxConns
  BY RendezvousAssumption DEF StreamInv, TunnelInv, StreamTypes
<1>3. tunnel[c] \in 1 .. Len(owner) /\ tunnel[c] \in Conns
  BY <1>1, <1>2 DEF Conns
<1>4. \A d \in Clients : tunnel[d] = tunnel[c] => d = c
  BY DEF StreamInv, TunnelInv, Owned
<1> QED BY <1>1, <1>2, <1>3, <1>4 DEF StreamInv, TunnelInv, StreamTypes, Owned

----------------------------------------------------------------------------
(* The client *)

\* A client that starts has a new connection, with nothing queued for it.
LEMMA StartStreams ==
  ASSUME NEW Bytes, StreamInv(Bytes), NEW c \in Clients, StartClient(c)
  PROVE  TunnelInv(Bytes)'
<1>k. PICK k, e : k = Len(owner) + 1 /\ e = <<>>
  OBVIOUS
<1>1. /\ tunnel[c] = 0 /\ Len(owner) < MaxConns /\ owner' = Append(owner, c)
      /\ backlog' = Append(backlog, k) /\ tunnel' = [tunnel EXCEPT ![c] = k]
      /\ UNCHANGED <<queue, rendvSocket, wire, received, taken, pushed>>
  BY <1>k DEF StartClient, mapVars
<1>2. /\ owner \in Seq(Clients) /\ tunnel \in [Clients -> 0 .. Len(owner)]
      /\ backlog \in Seq(1 .. Len(owner)) /\ rendvSocket \in [RendvFDs -> 0 .. Len(owner)]
  BY DEF StreamInv, HostInv, Good, Typed
<1>3. Len(owner) \in Nat /\ Len(owner') = k /\ owner'[k] = c
      /\ \A i \in 1 .. Len(owner) : owner'[i] = owner[i]
  BY <1>k, <1>1, <1>2, AppendProperties, LenProperties
<1>4. MaxConns \in Nat /\ k \in Conns /\ k > Len(owner) /\ k # 0 /\ k <= MaxConns
  BY <1>k, <1>1, <1>3, RendezvousAssumption DEF Conns
<1>5. pushed[k] = e /\ wire[k] = e /\ received[c] = e /\ taken[c] = e
  BY <1>k, <1>1, <1>4 DEF StreamInv, TunnelInv, Fresh
<1>6. \A fd \in RendvFDs : rendvSocket[fd] # k
  BY <1>2, <1>3, <1>k
<1>7. StreamTypes(Bytes)'
  BY <1>1, <1>3, <1>4 DEF StreamInv, TunnelInv, StreamTypes
<1>8. Fresh'
  <2>1. ASSUME NEW d \in Clients, tunnel'[d] = 0 PROVE tunnel[d] = 0
    BY <1>1, <1>2, <1>4, <2>1
  <2>2. ASSUME NEW i \in Conns, i > k PROVE i > Len(owner)
    BY <1>k, <1>3, <1>4, <2>2 DEF Conns
  <2> QED BY <1>1, <1>3, <2>1, <2>2 DEF StreamInv, TunnelInv, Fresh
<1>9. \A d \in Clients : d # c => tunnel'[d] = tunnel[d]
  BY <1>1, <1>2
<1>10. tunnel'[c] = k
  BY <1>1, <1>2
<1>11. Owned'
  <2>1. ASSUME NEW d \in Clients, d # c, tunnel'[d] # 0 PROVE owner'[tunnel'[d]] = d
    <3>1. tunnel[d] \in 1 .. Len(owner) /\ owner[tunnel[d]] = d
      BY <1>9, <2>1, TunnelFacts
    <3> QED BY <1>3, <1>9, <2>1, <3>1
  <2> QED BY <1>3, <1>10, <2>1 DEF Owned
<1>12. InLine(backlog, rendvSocket, pushed)'
  <2>l. PICK line, more, n : line = backlog /\ more = backlog' /\ n = Len(line)
    OBVIOUS
  <2>1. /\ line \in Seq(1 .. Len(owner)) /\ n \in Nat /\ DOMAIN line = 1 .. n
    BY <1>2, <2>l, LenProperties
  <2>t. PICK T : T = 1 .. k
    OBVIOUS
  <2>2. line \in Seq(T) /\ k \in T
    <3>1. 1 .. Len(owner) \subseteq T /\ k \in T
      BY <1>k, <1>3, <2>t
    <3> QED BY <2>1, <3>1, SeqMonotonic
  <2>3. /\ DOMAIN more = 1 .. n + 1 /\ (\A i \in 1 .. n : more[i] = line[i]) /\ more[n + 1] = k
    <3>1. more = Append(line, k)
      BY <1>1, <2>l
    <3>2. more \in Seq(T) /\ Len(more) = n + 1 /\ (\A i \in 1 .. n : more[i] = line[i]) /\ more[n + 1] = k
      BY <2>2, <2>l, <3>1, AppendProperties
    <3> QED BY <3>2, LenProperties
  <2>4. \A i \in 1 .. n : line[i] \in 1 .. Len(owner) /\ line[i] # k
    BY <1>k, <1>3, <2>1, ElementOfSeq
  <2>5. InLine(line, rendvSocket, pushed)
    BY <2>l DEF StreamInv, TunnelInv
  <2>6. InLine(more, rendvSocket, pushed)
    <3> SUFFICES ASSUME NEW i \in DOMAIN more
                 PROVE  /\ pushed[more[i]] = <<>> /\ \A fd \in RendvFDs : rendvSocket[fd] # more[i]
                        /\ \A j \in DOMAIN more : more[i] = more[j] => i = j
      BY DEF InLine
    <3>1. \A j \in DOMAIN more : j \in 1 .. n \/ j = n + 1
      BY <2>1, <2>3
    <3>2. CASE i \in 1 .. n
      <4>1. more[i] = line[i] /\ i \in DOMAIN line
        BY <2>1, <2>3, <3>2
      <4> QED BY <2>1, <2>3, <2>4, <2>5, <3>1, <3>2, <4>1 DEF InLine
    <3>3. CASE i = n + 1
      BY <1>5, <1>6, <1>k, <2>3, <2>4, <3>1, <3>3
    <3> QED BY <3>1, <3>2, <3>3
  <2> QED BY <1>1, <2>6, <2>l
<1>13. ASSUME NEW d \in Clients, tunnel'[d] # 0 PROVE StreamOf(Bytes, d)'
  <2>1. CASE d = c
    <3>1. Flow(Bytes, c, e, e, e, e)
      BY <1>k, FlowBegins
    <3>2. e \o e = e
      BY <1>k
    <3>3. Streams(Bytes, c, e, e, e \o e, k, rendvSocket, queue)
      BY <1>6, <3>1, <3>2 DEF Streams
    <3> QED BY <1>1, <1>5, <1>10, <2>1, <3>3 DEF StreamOf
  <2>2. CASE d # c
    BY <1>1, <1>9, <1>13, <2>2 DEF StreamInv, TunnelInv, StreamOf
  <2> QED BY <2>1, <2>2
<1> QED BY <1>1, <1>7, <1>8, <1>11, <1>12, <1>13 DEF StreamInv, TunnelInv

\* A client that stops leaves the others what they have.
LEMMA StopStreams ==
  ASSUME NEW Bytes, StreamInv(Bytes), NEW c \in Clients, StopClient(c)
  PROVE  TunnelInv(Bytes)'
<1>k. PICK k : k = tunnel[c]
  OBVIOUS
<1>1. /\ k # 0 /\ tunnel' = [tunnel EXCEPT ![c] = 0]
      /\ received' = [received EXCEPT ![c] = <<>>] /\ taken' = [taken EXCEPT ![c] = <<>>]
      /\ wire' = [wire EXCEPT ![k] = <<>>] /\ pushed' = [pushed EXCEPT ![k] = <<>>]
      /\ UNCHANGED <<queue, rendvSocket, backlog, owner>>
  BY <1>k DEF StopClient, mapVars
<1>2. /\ received \in [Clients -> Seq(Bytes)] /\ wire \in [Conns -> Seq(Bytes)]
      /\ DOMAIN pushed = Conns /\ taken = [d \in Clients |-> taken[d]]
      /\ tunnel \in [Clients -> 0 .. Len(owner)] /\ Len(owner) <= MaxConns
  BY DEF StreamInv, HostInv, TunnelInv, StreamTypes
<1>3. k \in Conns /\ \A d \in Clients : tunnel[d] = k => d = c
  BY <1>k, <1>1, TunnelFacts
<1>4. StreamTypes(Bytes)'
  <2>1. <<>> \in Seq(Bytes)
    OBVIOUS
  <2> QED BY <1>1, <1>2, <2>1 DEF StreamTypes
<1>5. /\ tunnel'[c] = 0 /\ received'[c] = <<>> /\ taken'[c] = <<>>
      /\ \A d \in Clients : d # c => /\ tunnel'[d] = tunnel[d] /\ received'[d] = received[d]
                                     /\ taken'[d] = taken[d]
      /\ \A i \in Conns : i # k => wire'[i] = wire[i] /\ pushed'[i] = pushed[i]
      /\ wire'[k] = <<>> /\ pushed'[k] = <<>>
  BY <1>1, <1>2, <1>3
<1>6. Fresh' /\ Owned'
  BY <1>1, <1>5 DEF StreamInv, TunnelInv, Fresh, Owned
<1>7. InLine(backlog, rendvSocket, pushed)'
  <2>1. ASSUME NEW i \in DOMAIN backlog PROVE pushed'[backlog[i]] = <<>>
    <3>1. backlog[i] \in Conns
      <4>1. backlog \in Seq(1 .. Len(owner)) /\ owner \in Seq(Clients)
        BY DEF StreamInv, HostInv, Good, Typed
      <4>2. backlog[i] \in 1 .. Len(owner) /\ Len(owner) \in Nat
        BY <4>1, LenProperties
      <4> QED BY <1>2, <4>2, RendezvousAssumption DEF Conns
    <3> QED BY <1>5, <3>1 DEF StreamInv, TunnelInv, InLine
  <2> QED BY <1>1, <2>1 DEF StreamInv, TunnelInv, InLine
<1>8. ASSUME NEW d \in Clients, tunnel'[d] # 0 PROVE StreamOf(Bytes, d)'
  <2>1. d # c /\ tunnel'[d] = tunnel[d] /\ tunnel[d] # 0
    BY <1>5, <1>8
  <2>2. tunnel[d] \in Conns /\ tunnel[d] # k
    BY <1>3, <2>1, TunnelFacts
  <2> QED BY <1>1, <1>5, <2>1, <2>2 DEF StreamInv, TunnelInv, StreamOf
<1>9. \A d \in Clients : Len(received'[d]) < MaxPacketSize
  BY <1>5, BuffersAssumption DEF StreamInv, TunnelInv
<1> QED BY <1>1, <1>4, <1>6, <1>7, <1>8, <1>9 DEF StreamInv, TunnelInv

\* What a recv takes off the wire goes behind what was there.
IsCut(T, r, w, n, buf, v) ==
  /\ r \in Seq(T) /\ w \in Seq(T) /\ n \in 1 .. Len(w)
  /\ buf = r \o SubSeq(w, 1, n) /\ v = SubSeq(w, n + 1, Len(w))

\* No byte is lost or overtaken by a recv.
LEMMA CutKeepsAll ==
  ASSUME NEW T, NEW r, NEW w, NEW n, NEW buf, NEW v, IsCut(T, r, w, n, buf, v)
  PROVE  buf \in Seq(T) /\ v \in Seq(T) /\ Len(buf) = Len(r) + n /\ Len(r) \in Nat /\ buf \o v = r \o w
<1>l. PICK l, m : l = Len(w) /\ m = n + 1
  OBVIOUS
<1>1. r \in Seq(T) /\ w \in Seq(T) /\ l \in Nat /\ n \in 1 .. l /\ m = n + 1 /\ m \in 2 .. l + 1
  BY <1>l, LenProperties DEF IsCut
<1>2. \A i \in 1 .. l : w[i] \in T
  BY <1>1, <1>l, LenProperties
<1>a. PICK a : a = SubSeq(w, 1, n)
  OBVIOUS
<1>3. a \in Seq(T) /\ Len(a) = n /\ \A i \in 1 .. n : a[i] = w[i]
  <2>1. \A i \in 1 .. n : w[i] \in T
    BY <1>1, <1>2
  <2>2. n \in Int /\ 1 \in Int /\ (IF 1 <= n THEN n - 1 + 1 ELSE 0) = n /\ n - 1 + 1 = n
        /\ \A i \in 1 .. n : 1 + i - 1 = i
    BY <1>1
  <2>3. /\ a \in Seq(T) /\ Len(a) = (IF 1 <= n THEN n - 1 + 1 ELSE 0)
        /\ \A i \in 1 .. n - 1 + 1 : a[i] = w[1 + i - 1]
    BY <1>a, <2>1, <2>2, SubSeqProperties
  <2> QED BY <2>2, <2>3
<1>4. v = SubSeq(w, m, l) /\ buf = r \o a
  BY <1>a, <1>l DEF IsCut
<1>5. v \in Seq(T) /\ Len(v) = l - n /\ \A i \in 1 .. l - n : v[i] = w[n + i]
  <2>1. \A i \in m .. l : w[i] \in T
    BY <1>1, <1>2
  <2>2. m \in Int /\ l \in Int /\ (IF m <= l THEN l - m + 1 ELSE 0) = l - n /\ l - m + 1 = l - n
        /\ \A i \in 1 .. l - n : m + i - 1 = n + i
    BY <1>1
  <2>3. /\ v \in Seq(T) /\ Len(v) = (IF m <= l THEN l - m + 1 ELSE 0)
        /\ \A i \in 1 .. l - m + 1 : v[i] = w[m + i - 1]
    BY <1>4, <2>1, <2>2, SubSeqProperties
  <2> QED BY <2>2, <2>3
<1>d. PICK d : d = a \o v
  OBVIOUS
<1>6. d \in Seq(T) /\ Joined(d, a, v)
  BY <1>3, <1>5, <1>d, JoinFacts
<1>7. d = w
  <2>1. Len(d) = l
    <3>1. Len(d) = n + (l - n)
      BY <1>3, <1>5, <1>6 DEF Joined
    <3> QED BY <1>1, <3>1
  <2>2. ASSUME NEW i \in 1 .. Len(d) PROVE d[i] = w[i]
    <3>1. CASE i \in 1 .. n
      BY <1>3, <1>6, <3>1 DEF Joined
    <3>2. CASE ~(i \in 1 .. n)
      <4>j. PICK j : j = i - n
        OBVIOUS
      <4>1. j \in 1 .. l - n /\ i = n + j
        BY <1>1, <2>1, <3>2, <4>j
      <4>2. d[n + j] = v[j]
        BY <1>3, <1>5, <1>6, <4>1 DEF Joined
      <4> QED BY <1>5, <4>1, <4>2
    <3> QED BY <3>1, <3>2
  <2> QED BY <1>1, <1>6, <1>l, <2>1, <2>2, SeqEqual
<1>8. buf \in Seq(T) /\ Joined(buf, r, a)
  BY <1>1, <1>3, <1>4, JoinFacts
<1>9. Len(buf) = Len(r) + n /\ Len(r) \in Nat
  BY <1>3, <1>8 DEF Joined
<1>10. (r \o a) \o v = r \o (a \o v)
  BY <1>1, <1>3, <1>5, ConcatAssociative
<1> QED BY <1>4, <1>5, <1>7, <1>8, <1>9, <1>10, <1>d

\* A recv of a client whose stream is whole: it waits for the rest of a packet, or takes one.
IsRead(Bytes, c, entries, got, r, w, k, soc, que, n, buf, v, pull, got2, r2) ==
  /\ Streams(Bytes, c, entries, got, r \o w, k, soc, que)
  /\ IsCut(Bytes, r, w, n, buf, v) /\ Len(buf) <= MaxPacketSize /\ pull = ParsePull(buf)
  /\ IF pull = Null THEN r2 = buf /\ got2 = got
     ELSE /\ r2 = pull.rest
          /\ got2 = Append(got, [from |-> pull.from, packet |-> Parses(pull.from, pull.payload)])

\* The stream of a client after a recv, whether a packet was cut off or not.
LEMMA ReadStreams ==
  ASSUME NEW Bytes, NEW c, NEW entries, NEW got, NEW r, NEW w, NEW k, NEW soc, NEW que, NEW n,
         NEW buf, NEW v, NEW pull, NEW got2, NEW r2,
         IsRead(Bytes, c, entries, got, r, w, k, soc, que, n, buf, v, pull, got2, r2)
  PROVE  /\ Streams(Bytes, c, entries, got2, r2 \o v, k, soc, que)
         /\ r2 \in Seq(Bytes) /\ v \in Seq(Bytes) /\ Len(r2) < MaxPacketSize
<1>l. PICK lost : /\ Flow(Bytes, c, entries, got, r \o w, lost)
                  /\ \A fd \in RendvFDs : soc[fd] = k => lost = Rest(que[fd])
  BY DEF IsRead, Streams
<1>0. IsCut(Bytes, r, w, n, buf, v)
  BY DEF IsRead
<1>1. buf \in Seq(Bytes) /\ v \in Seq(Bytes) /\ Len(buf) = Len(r) + n /\ Len(r) \in Nat /\ buf \o v = r \o w
  BY <1>0, CutKeepsAll, SMTT(30)
<1>2. n \in Nat \ {0} /\ MaxPacketSize \in Nat /\ Len(buf) <= MaxPacketSize
  BY BuffersAssumption DEF IsRead, IsCut
<1>3. Len(buf) \in 1 .. MaxPacketSize
  BY <1>1, <1>2
<1>4. Gets(Bytes, c, entries, got, buf, v, lost)
  BY <1>1, <1>3, <1>l DEF Gets
<1>5. CASE pull = Null
  <2>1. r2 = buf /\ got2 = got /\ ParsePull(buf) = Null
    BY <1>5 DEF IsRead
  <2>2. Len(buf) < MaxPacketSize
    BY <1>4, <2>1, FlowWaits
  <2>3. Flow(Bytes, c, entries, got2, r2 \o v, lost)
    BY <1>4, <2>1 DEF Gets
  <2>4. Streams(Bytes, c, entries, got2, r2 \o v, k, soc, que)
    BY <1>l, <2>3 DEF Streams
  <2> QED BY <1>1, <2>1, <2>2, <2>4
<1>6. CASE pull # Null
  <2>1. /\ r2 = pull.rest /\ pull = ParsePull(buf)
        /\ got2 = Append(got, [from |-> pull.from, packet |-> Parses(pull.from, pull.payload)])
    BY <1>6 DEF IsRead
  <2>h. PICK held : held = pull.rest \o v
    OBVIOUS
  <2>2. Flow(Bytes, c, entries, got2, held, lost) /\ pull.rest \in Seq(Bytes) /\ Len(pull.rest) < Len(buf)
    BY <1>4, <1>6, <2>1, <2>h, FlowTaken
  <2>3. r2 \in Seq(Bytes) /\ Len(r2) < MaxPacketSize
    <3>1. Len(r2) \in Nat
      BY <2>1, <2>2, LenProperties
    <3> QED BY <1>3, <1>2, <2>1, <2>2, <3>1
  <2>4. Streams(Bytes, c, entries, got2, r2 \o v, k, soc, que)
    <3>1. held = r2 \o v
      BY <2>1, <2>h
    <3> QED BY <1>l, <2>2, <3>1 DEF Streams
  <2> QED BY <1>1, <2>3, <2>4
<1> QED BY <1>5, <1>6

\* So Recv keeps the invariant.
LEMMA RecvStreams ==
  ASSUME NEW Bytes, StreamInv(Bytes), NEW c \in Clients, Recv(c)
  PROVE  TunnelInv(Bytes)'
<1>a. PICK n \in Receivable(c), k \in {tunnel[c]} :
        \E buf \in {received[c] \o SubSeq(wire[k], 1, n)} : \E pull \in {ParsePull(buf)} :
          /\ wire' = [wire EXCEPT ![k] = SubSeq(@, n + 1, Len(@))]
          /\ IF pull = Null
             THEN received' = [received EXCEPT ![c] = buf] /\ UNCHANGED taken
             ELSE /\ received' = [received EXCEPT ![c] = pull.rest]
                  /\ taken' = [taken EXCEPT ![c] = Append(@,
                       [from |-> pull.from, packet |-> Parses(pull.from, pull.payload)])]
  BY DEF Recv
<1>b. PICK buf, pull :
        /\ buf = received[c] \o SubSeq(wire[k], 1, n) /\ pull = ParsePull(buf)
        /\ wire' = [wire EXCEPT ![k] = SubSeq(@, n + 1, Len(@))]
        /\ IF pull = Null
           THEN received' = [received EXCEPT ![c] = buf] /\ UNCHANGED taken
           ELSE /\ received' = [received EXCEPT ![c] = pull.rest]
                /\ taken' = [taken EXCEPT ![c] = Append(@,
                     [from |-> pull.from, packet |-> Parses(pull.from, pull.payload)])]
  BY <1>a
<1>e. PICK r, w, got, v, e : /\ r = received[c] /\ w = wire[k] /\ got = taken[c]
                             /\ v = SubSeq(w, n + 1, Len(w))
                             /\ e = [from |-> pull.from, packet |-> Parses(pull.from, pull.payload)]
  OBVIOUS
<1>g. PICK got2, r2 : /\ got2 = IF pull = Null THEN got ELSE Append(got, e)
                      /\ r2 = IF pull = Null THEN buf ELSE pull.rest
  OBVIOUS
<1>8. /\ received \in [Clients -> Seq(Bytes)] /\ wire \in [Conns -> Seq(Bytes)]
      /\ taken = [d \in Clients |-> taken[d]] /\ DOMAIN pushed = Conns
  BY DEF StreamInv, TunnelInv, StreamTypes
<1>k. /\ k = tunnel[c] /\ r = received[c] /\ w = wire[k] /\ got = taken[c] /\ n \in Receivable(c)
      /\ buf = r \o SubSeq(w, 1, n) /\ pull = ParsePull(buf) /\ v = SubSeq(w, n + 1, Len(w))
      /\ wire' = [wire EXCEPT ![k] = v] /\ received' = [received EXCEPT ![c] = r2]
      /\ taken' = [taken EXCEPT ![c] = got2]
  <2>1. wire' = [wire EXCEPT ![k] = v]
    BY <1>b, <1>e
  <2>2. received' = [received EXCEPT ![c] = r2] /\ taken' = [taken EXCEPT ![c] = got2]
    <3>1. CASE pull = Null
      <4>1. taken' = taken /\ got2 = taken[c]
        BY <1>b, <1>e, <1>g, <3>1
      <4>2. taken = [taken EXCEPT ![c] = taken[c]]
        BY <1>8
      <4> QED BY <1>b, <1>g, <3>1, <4>1, <4>2
    <3>2. CASE pull # Null
      BY <1>b, <1>e, <1>g, <3>2
    <3> QED BY <3>1, <3>2
  <2> QED BY <1>a, <1>b, <1>e, <2>1, <2>2
<1>r. IF pull = Null THEN r2 = buf /\ got2 = got
      ELSE /\ r2 = pull.rest
           /\ got2 = Append(got, [from |-> pull.from, packet |-> Parses(pull.from, pull.payload)])
  BY <1>e, <1>g
<1>1. tunnel[c] # 0 /\ UNCHANGED <<queue, rendvSocket, backlog, owner, tunnel, pushed>>
  BY DEF Recv, mapVars
<1>2. /\ k \in Conns /\ k # 0 /\ (\A d \in Clients : tunnel[d] = k => d = c)
      /\ r \in Seq(Bytes) /\ w \in Seq(Bytes) /\ k \in 1 .. Len(owner) /\ Len(owner) \in Nat
  BY <1>1, <1>k, TunnelFacts
<1>3. n \in 1 .. Len(w) /\ Len(r) + n <= MaxPacketSize /\ Len(w) \in Nat
  <2>1. Len(r) < MaxPacketSize /\ Len(r) \in Nat /\ Len(w) \in Nat /\ MaxPacketSize \in Nat
    BY <1>2, <1>k, LenProperties, BuffersAssumption DEF StreamInv, TunnelInv
  <2>m. PICK most : most = IF Len(w) <= MaxPacketSize - Len(r) THEN Len(w) ELSE MaxPacketSize - Len(r)
    OBVIOUS
  <2>2. n \in {x \in RecvSizes \cup {most} : x <= most} \ {0}
    BY <1>k, <2>m DEF Receivable, Room
  <2>3. RecvSizes \subseteq Nat \ {0}
    BY RendezvousAssumption
  <2> QED BY <2>1, <2>2, <2>3, <2>m
<1>4. IsCut(Bytes, r, w, n, buf, v)
  BY <1>2, <1>3, <1>k DEF IsCut
<1>5. Len(buf) <= MaxPacketSize
  BY <1>3, <1>4, CutKeepsAll
<1>6. Streams(Bytes, c, pushed[k], got, r \o w, k, rendvSocket, queue)
  BY <1>1, <1>k DEF StreamInv, TunnelInv, StreamOf
<1>7. /\ Streams(Bytes, c, pushed[k], got2, r2 \o v, k, rendvSocket, queue)
      /\ r2 \in Seq(Bytes) /\ v \in Seq(Bytes) /\ Len(r2) < MaxPacketSize
  <2> PICK entries, soc, que : entries = pushed[k] /\ soc = rendvSocket /\ que = queue
    OBVIOUS
  <2>1. IsRead(Bytes, c, entries, got, r, w, k, soc, que, n, buf, v, pull, got2, r2)
    BY <1>4, <1>5, <1>6, <1>k, <1>r DEF IsRead
  <2> QED BY <2>1, ReadStreams
<1>9. /\ received'[c] = r2 /\ taken'[c] = got2 /\ wire'[k] = v
      /\ \A d \in Clients : d # c => received'[d] = received[d] /\ taken'[d] = taken[d]
      /\ \A i \in Conns : i # k => wire'[i] = wire[i]
  BY <1>2, <1>8, <1>k
<1>10. StreamTypes(Bytes)'
  <2>1. received' \in [Clients -> Seq(Bytes)]
    BY <1>7, <1>8, <1>k
  <2>2. wire' \in [Conns -> Seq(Bytes)]
    BY <1>7, <1>8, <1>k
  <2>3. taken' = [d \in Clients |-> taken'[d]]
    BY <1>8, <1>k
  <2> QED BY <1>1, <2>1, <2>2, <2>3 DEF StreamInv, TunnelInv, StreamTypes
<1>11. Fresh'
  <2>1. \A i \in Conns : i > Len(owner) => i # k
    BY <1>2 DEF Conns
  <2> QED BY <1>1, <1>9, <2>1 DEF StreamInv, TunnelInv, Fresh
<1>12. ASSUME NEW d \in Clients, tunnel'[d] # 0 PROVE StreamOf(Bytes, d)'
  <2>1. CASE d = c
    BY <1>1, <1>7, <1>9, <1>k, <2>1 DEF StreamOf
  <2>2. CASE d # c
    <3>1. tunnel[d] # 0 /\ tunnel[d] # k /\ tunnel[d] \in Conns
      BY <1>1, <1>2, <1>12, <2>2, TunnelFacts
    <3> QED BY <1>1, <1>9, <2>2, <3>1 DEF StreamInv, TunnelInv, StreamOf
  <2> QED BY <2>1, <2>2
<1>13. \A d \in Clients : Len(received'[d]) < MaxPacketSize
  BY <1>7, <1>9 DEF StreamInv, TunnelInv
<1>14. Owned' /\ InLine(backlog, rendvSocket, pushed)' /\ OneSocket(rendvSocket)' /\ QueuesOf(Bytes, queue)'
  BY <1>1 DEF StreamInv, TunnelInv, Owned
<1> QED BY <1>10, <1>11, <1>12, <1>13, <1>14 DEF TunnelInv

----------------------------------------------------------------------------
(* A PUSH arrives *)

\* Packets are made of bytes, the addresses of nodes are numbers, and what is sent to the
\* clients is read as it was written.
CarriedWhole(Bytes) ==
  /\ AreBytes(Bytes) /\ \A c \in Clients : IsAddress(c)
  /\ \A t \in Traffic :
       /\ IsAddress(t[1])
       /\ Creates(t[2]) # Null =>
            Creates(t[2]) \in Seq(Bytes) /\ Parses(t[1], Creates(t[2])) = Received(t[2], t[1])

\* A PULL x for client c, of the packet in e, goes to the back of queue fd of connection k.
IsRelayed(Bytes, c, x, e, fd, k, soc, que, que2) ==
  /\ Carrier(Bytes, x, e) /\ x = PullOf(e, c)
  /\ fd \in RendvFDs /\ soc[fd] = k /\ k # 0 /\ OneSocket(soc) /\ QueuesOf(Bytes, que)
  /\ que[fd] # Null /\ DOMAIN que = RendvFDs
  /\ que2 = [que EXCEPT ![fd] = Append(@, [bytes |-> x, pos |-> 0])]

\* The queue of the descriptor has the PULL behind the others.
LEMMA RelayedQueue ==
  ASSUME NEW Bytes, NEW c, NEW x, NEW e, NEW fd, NEW k, NEW soc, NEW que, NEW que2,
         IsRelayed(Bytes, c, x, e, fd, k, soc, que, que2)
  PROVE  /\ QueuesOf(Bytes, que2) /\ RestBehind(Bytes, que2[fd], que[fd], x)
         /\ \A f \in RendvFDs : f # fd => que2[f] = que[f]
<1>q. PICK q, w, longer : q = que[fd] /\ w = [bytes |-> x, pos |-> 0] /\ longer = Append(q, w)
  OBVIOUS
<1>1. q \in Seq(Waits(Bytes)) /\ x \in Seq(Bytes)
  BY <1>q DEF IsRelayed, QueuesOf, Carrier
<1>2. RestBehind(Bytes, longer, q, x)
  BY <1>1, <1>q, RestQueued
<1>3. que2[fd] = longer /\ \A f \in RendvFDs : f # fd => que2[f] = que[f]
  BY <1>q DEF IsRelayed
<1>4. QueuesOf(Bytes, que2)
  <2> SUFFICES ASSUME NEW f \in RendvFDs, que2[f] # Null PROVE que2[f] \in Seq(Waits(Bytes))
    BY DEF QueuesOf
  <2>1. CASE f = fd
    BY <1>2, <1>3, <2>1 DEF RestBehind
  <2>2. CASE f # fd
    BY <1>3, <2>2 DEF IsRelayed, QueuesOf
  <2> QED BY <2>1, <2>2
<1> QED BY <1>2, <1>3, <1>4, <1>q

\* The stream of its client has it behind the others, those of other clients are the same.
LEMMA RelayedStream ==
  ASSUME NEW Bytes, NEW c, NEW x, NEW e, NEW fd, NEW k, NEW soc, NEW que, NEW que2,
         IsRelayed(Bytes, c, x, e, fd, k, soc, que, que2),
         NEW entries, NEW got, NEW held, Streams(Bytes, c, entries, got, held, k, soc, que),
         NEW longer, longer = Append(entries, e)
  PROVE  Streams(Bytes, c, longer, got, held, k, soc, que2)
<1>l. PICK lost : /\ Flow(Bytes, c, entries, got, held, lost)
                  /\ \A f \in RendvFDs : soc[f] = k => lost = Rest(que[f])
  BY DEF Streams
<1>1. lost = Rest(que[fd]) /\ Carrier(Bytes, x, e) /\ x = PullOf(e, c)
  BY <1>l DEF IsRelayed
<1>m. PICK left : left = lost \o x
  OBVIOUS
<1>2. Flow(Bytes, c, longer, got, held, left)
  BY <1>1, <1>l, <1>m, FlowQueued
<1>3. left = Rest(que2[fd])
  <2>1. RestBehind(Bytes, que2[fd], que[fd], x)
    BY RelayedQueue
  <2> QED BY <1>1, <1>m, <2>1 DEF RestBehind
<1>4. \A f \in RendvFDs : soc[f] = k => f = fd
  BY DEF IsRelayed, OneSocket
<1> QED BY <1>2, <1>3, <1>4 DEF Streams

\* That of another client is as it was.
LEMMA OtherStream ==
  ASSUME NEW Bytes, NEW c, NEW x, NEW e, NEW fd, NEW k, NEW soc, NEW que, NEW que2,
         IsRelayed(Bytes, c, x, e, fd, k, soc, que, que2),
         NEW d, NEW entries, NEW got, NEW held, NEW i, i # k,
         Streams(Bytes, d, entries, got, held, i, soc, que)
  PROVE  Streams(Bytes, d, entries, got, held, i, soc, que2)
<1>1. \A f \in RendvFDs : soc[f] = i => que2[f] = que[f]
  BY RelayedQueue DEF IsRelayed
<1> QED BY <1>1 DEF Streams

\* So a PUSH keeps the invariant, whether it is relayed, dropped or the end of the host.
LEMMA PushStreams ==
  ASSUME NullIsApart, NEW Bytes, CarriedWhole(Bytes), StreamInv(Bytes),
         NEW t \in Traffic, NEW c \in Clients, ReceivePush(t[1], t[2], c)
  PROVE  TunnelInv(Bytes)'
<1>s. PICK sender, p, e : sender = t[1] /\ p = t[2] /\ e = [from |-> sender, packet |-> p]
  OBVIOUS
<1>0. UNCHANGED <<rendvSocket, backlog, owner, wire, tunnel, received, taken>>
  BY DEF ReceivePush, clientVars
<1>a. PICK push, pull :
        /\ Creates(p) # Null /\ push = WrapPush(c, Creates(p)) /\ push # Null /\
             pull = ParsePush(sender, push)
        /\ \/ UNCHANGED <<queue, pushed>>
           \/ pull # Null /\ Connected(pull.dest) /\ Relay(pull, sender, p)
  <2>1. \E payload \in {Creates(p)} \ {Null} :
          \E push \in {WrapPush(c, payload)} \ {Null} : \E pull \in {ParsePush(sender, push)} :
            \/ UNCHANGED <<queue, pushed>>
            \/ pull # Null /\ Connected(pull.dest) /\ Relay(pull, sender, p)
    BY <1>s DEF ReceivePush
  <2> QED BY <2>1
<1>1. CASE UNCHANGED <<queue, pushed>>
  BY <1>0, <1>1
  DEF StreamInv, TunnelInv, StreamTypes, Fresh, Owned, OneSocket, QueuesOf, InLine, StreamOf
<1>2. CASE pull # Null /\ Connected(pull.dest) /\ Relay(pull, sender, p)
  <2>x. PICK x : x = PullOf(e, c)
    OBVIOUS
  <2>1. pull.dest = c /\ pull.bytes = x /\ Carrier(Bytes, x, e)
    <3>1. IsAddress(sender) /\ IsAddress(c) /\ AreBytes(Bytes)
      BY <1>s DEF CarriedWhole
    <3>2. Creates(p) \in Seq(Bytes) /\ Parses(sender, Creates(p)) = Received(p, sender)
      BY <1>a, <1>s DEF CarriedWhole
    <3>3. pull.dest = c /\ pull.bytes = PullOf(e, c) /\ Carrier(Bytes, PullOf(e, c), e)
      BY <1>a, <1>s, <1>2, <3>1, <3>2, PushCarries
    <3> QED BY <2>x, <3>3
  <2>f. PICK fd, k : fd = connections[c] /\ k = rendvSocket[fd]
    OBVIOUS
  <2>2. /\ fd # Null /\ queue' = [queue EXCEPT ![fd] = Append(@, [bytes |-> x, pos |-> 0])]
        /\ pushed' = IF Running(k) THEN [pushed EXCEPT ![k] = Append(@, e)] ELSE pushed
    BY <1>2, <1>s, <2>1, <2>f DEF Connected, Relay
  <2>3. /\ fd \in RendvFDs /\ queue[fd] # Null /\ k # 0 /\ owner[k] = c /\ DOMAIN queue = RendvFDs
        /\ k \in 0 .. Len(owner) /\ owner \in Seq(Clients)
    <3>1. fd \in RendvFDs /\ k \in 0 .. Len(owner) /\ DOMAIN queue = RendvFDs /\ owner \in Seq(Clients)
      BY <2>2, <2>f DEF StreamInv, HostInv, Good, Typed
    <3>2. InStep(connections, queue, rendvWriteSet, rendvSocket, owner)
      BY DEF StreamInv, HostInv, Good
    <3> QED BY <2>2, <2>f, <3>1, <3>2 DEF InStep
  <2>4. k \in Conns /\ k \in 1 .. Len(owner) /\ Len(owner) \in Nat
    <3>1. Len(owner) \in Nat /\ MaxConns \in Nat /\ Len(owner) <= MaxConns
      BY <2>3, LenProperties, RendezvousAssumption DEF StreamInv, TunnelInv, StreamTypes
    <3> QED BY <2>3, <3>1 DEF Conns
  <2>5. IsRelayed(Bytes, c, x, e, fd, k, rendvSocket, queue, queue')
    BY <2>1, <2>2, <2>3, <2>f, <2>x DEF IsRelayed, StreamInv, TunnelInv
  <2>6. QueuesOf(Bytes, queue')
    <3> PICK soc, que, que2 : soc = rendvSocket /\ que = queue /\ que2 = queue'
      OBVIOUS
    <3>1. IsRelayed(Bytes, c, x, e, fd, k, soc, que, que2)
      BY <2>5
    <3>2. QueuesOf(Bytes, que2)
      BY <3>1, RelayedQueue
    <3> QED BY <3>2
  <2>7. Running(k) <=> tunnel[c] = k
    BY <2>3 DEF Running
  <2>8. /\ DOMAIN pushed' = Conns /\ \A i \in Conns : i # k => pushed'[i] = pushed[i]
        /\ pushed'[k] = IF tunnel[c] = k THEN Append(pushed[k], e) ELSE pushed[k]
    BY <2>2, <2>4, <2>7 DEF StreamInv, TunnelInv, StreamTypes
  <2>9. StreamTypes(Bytes)' /\ Owned'
    BY <1>0, <2>8 DEF StreamInv, TunnelInv, StreamTypes, Owned
  <2>10. Fresh'
    <3>1. \A i \in Conns : i > Len(owner) => i # k
      BY <2>4 DEF Conns
    <3> QED BY <1>0, <2>8, <3>1 DEF StreamInv, TunnelInv, Fresh
  <2>11. InLine(backlog, rendvSocket, pushed)'
    <3>1. ASSUME NEW i \in DOMAIN backlog PROVE pushed'[backlog[i]] = <<>>
      <4>1. backlog[i] # k
        BY <2>3, <2>f DEF StreamInv, TunnelInv, InLine
      <4>2. backlog[i] \in Conns
        <5>1. backlog \in Seq(1 .. Len(owner))
          BY DEF StreamInv, HostInv
        <5>2. backlog[i] \in 1 .. Len(owner)
          BY <5>1
        <5> QED BY <2>4, <5>2, RendezvousAssumption DEF Conns, StreamInv, TunnelInv, StreamTypes
      <4> QED BY <2>8, <4>1, <4>2 DEF StreamInv, TunnelInv, InLine
    <3> QED BY <1>0, <3>1 DEF StreamInv, TunnelInv, InLine
  <2>12. ASSUME NEW d \in Clients, tunnel'[d] # 0 PROVE StreamOf(Bytes, d)'
    <3>i. PICK i, got, held, soc, que, que2, entries, longer :
            /\ i = tunnel[d] /\ got = taken[d] /\ held = received[d] \o wire[i]
            /\ soc = rendvSocket /\ que = queue /\ que2 = queue'
            /\ entries = pushed[i] /\ longer = pushed'[i]
      OBVIOUS
    <3>1. i # 0 /\ i \in Conns /\ owner[i] = d
      BY <1>0, <2>12, <3>i, TunnelFacts
    <3>2. Streams(Bytes, d, entries, got, held, i, soc, que)
      BY <3>1, <3>i DEF StreamInv, TunnelInv, StreamOf
    <3>3. IsRelayed(Bytes, c, x, e, fd, k, soc, que, que2)
      BY <2>5, <3>i
    <3>4. Streams(Bytes, d, longer, got, held, i, soc, que2)
      <4>1. CASE i = k
        <5>1. d = c /\ tunnel[c] = k
          BY <2>3, <3>1, <3>i, <4>1
        <5>2. longer = Append(entries, e)
          BY <2>8, <3>i, <4>1, <5>1
        <5> QED BY <3>2, <3>3, <4>1, <5>1, <5>2, RelayedStream
      <4>2. CASE i # k
        <5>1. longer = entries
          BY <2>8, <3>1, <3>i, <4>2
        <5> QED BY <3>2, <3>3, <4>2, <5>1, OtherStream
      <4> QED BY <4>1, <4>2
    <3> QED BY <1>0, <3>4, <3>i DEF StreamOf
  <2>13. OneSocket(rendvSocket)' /\ \A d \in Clients : Len(received'[d]) < MaxPacketSize
    BY <1>0 DEF StreamInv, TunnelInv
  <2> QED BY <2>6, <2>9, <2>10, <2>11, <2>12, <2>13 DEF TunnelInv
<1> QED BY <1>a, <1>1, <1>2

----------------------------------------------------------------------------
(* The host accepts, and writes *)

\* Nothing was queued: nothing is lost.
LEMMA FlowIdle ==
  ASSUME NEW Bytes, NEW c, NEW entries, entries = <<>>, NEW got, NEW held, NEW lost,
         Flow(Bytes, c, entries, got, held, lost)
  PROVE  lost = <<>>
<1>a. PICK a, m : a = More(entries, m, c) /\ m = Len(got)
  OBVIOUS
<1>1. Carriers(Bytes, entries, c) /\ m = 0 /\ Len(entries) = 0
  <2>1. m \in Nat /\ Len(entries) = 0 /\ m <= Len(entries)
    BY <1>a, LenProperties DEF Flow, IsList
  <2> QED BY <2>1 DEF Flow
<1>2. IsMore(Bytes, a, entries, m, c)
  BY <1>1, <1>a, MoreIsList
<1>3. a \in Seq(Seq(Bytes)) /\ Len(a) = 0
  BY <1>1, <1>2 DEF IsMore
<1>4. FlattenSeq(a) = <<>>
  BY <1>3, EmptySeq, FlattenType
<1>5. held \in Seq(Bytes) /\ lost \in Seq(Bytes) /\ held \o lost = <<>>
  BY <1>4, <1>a DEF Flow
<1> QED BY <1>5, ConcatSimplifications

\* Connection k gets descriptor fd; another may be closed.
IsOpened(fd, k, soc, que, soc2, que2) ==
  /\ fd \in RendvFDs /\ k # 0 /\ soc2[fd] = k /\ que2[fd] = <<>>
  /\ \A x \in RendvFDs \ {fd} : \/ soc2[x] = soc[x] /\ que2[x] = que[x]
                                \/ soc2[x] = 0 /\ que2[x] = Null

\* No connection is then open twice.
LEMMA OpenedStreams ==
  ASSUME NullIsNoList, NEW Bytes, NEW fd, NEW k, NEW soc, NEW que, NEW soc2, NEW que2,
         IsOpened(fd, k, soc, que, soc2, que2),
         OneSocket(soc), QueuesOf(Bytes, que), \A x \in RendvFDs : soc[x] # k
  PROVE  OneSocket(soc2) /\ QueuesOf(Bytes, que2)
<1>1. OneSocket(soc2)
  BY DEF IsOpened, OneSocket
<1>2. QueuesOf(Bytes, que2)
  <2>1. <<>> \in Seq(Waits(Bytes))
    OBVIOUS
  <2> QED BY <2>1 DEF IsOpened, QueuesOf
<1> QED BY <1>1, <1>2

\* A stream stays as it was, or its connection has just been opened, with nothing queued.
LEMMA OpenedStream ==
  ASSUME NEW Bytes, NEW fd, NEW k, NEW soc, NEW que, NEW soc2, NEW que2,
         IsOpened(fd, k, soc, que, soc2, que2),
         NEW c, NEW entries, NEW got, NEW held, NEW i, i # 0, i = k => entries = <<>>,
         Streams(Bytes, c, entries, got, held, i, soc, que)
  PROVE  Streams(Bytes, c, entries, got, held, i, soc2, que2)
<1>l. PICK lost : /\ Flow(Bytes, c, entries, got, held, lost)
                  /\ \A f \in RendvFDs : soc[f] = i => lost = Rest(que[f])
  BY DEF Streams
<1>1. ASSUME NEW f \in RendvFDs, soc2[f] = i PROVE lost = Rest(que2[f])
  <2>1. CASE f = fd
    <3>1. i = k /\ que2[f] = <<>>
      BY <1>1, <2>1 DEF IsOpened
    <3>2. lost = <<>>
      BY <1>l, <3>1, FlowIdle
    <3>3. Rest(<<>>) = <<>>
      <4> PICK q : q = <<>>
        OBVIOUS
      <4>1. q \in Seq(Waits(Bytes))
        OBVIOUS
      <4>2. Rest(q) = <<>>
        BY <4>1, RestFacts
      <4> QED BY <4>2
    <3> QED BY <3>1, <3>2, <3>3
  <2>2. CASE f # fd
    BY <1>l, <1>1, <2>2 DEF IsOpened
  <2> QED BY <2>1, <2>2
<1> QED BY <1>l, <1>1 DEF Streams

\* Those still in line have nothing queued either.
LEMMA OpenedLine ==
  ASSUME NEW fd, NEW k, NEW soc, NEW que, NEW soc2, NEW que2, IsOpened(fd, k, soc, que, soc2, que2),
         NEW S, 0 \notin S, NEW line \in Seq(S), line # <<>>, k = Head(line),
         NEW entries, InLine(line, soc, entries), NEW t, t = Tail(line)
  PROVE  InLine(t, soc2, entries)
<1>n. PICK n : n = Len(t)
  OBVIOUS
<1>1. /\ t \in Seq(S) /\ n \in Nat /\ DOMAIN t = 1 .. n /\ DOMAIN line = 1 .. n + 1
      /\ \A i \in 1 .. n : t[i] = line[i + 1]
  <2>1. t \in Seq(S) /\ n = Len(line) - 1 /\ \A i \in 1 .. n : t[i] = line[i + 1]
    BY <1>n, HeadTailProperties
  <2>2. Len(line) \in Nat /\ DOMAIN line = 1 .. Len(line) /\ n \in Nat /\ DOMAIN t = 1 .. n
    BY <1>n, <2>1, LenProperties
  <2>3. Len(line) = n + 1
    BY <2>1, <2>2
  <2> QED BY <2>1, <2>2, <2>3
<1>2. line[1] = k
  OBVIOUS
<1> SUFFICES ASSUME NEW i \in DOMAIN t
             PROVE  /\ entries[t[i]] = <<>> /\ \A f \in RendvFDs : soc2[f] # t[i]
                    /\ \A j \in DOMAIN t : t[i] = t[j] => i = j
  BY DEF InLine
<1>3. i + 1 \in DOMAIN line /\ 1 \in DOMAIN line /\ i + 1 # 1 /\ t[i] = line[i + 1] /\ i \in Nat
  BY <1>1
<1>4. t[i] # k /\ t[i] # 0
  <2>1. t[i] \in S
    BY <1>1, ElementOfSeq
  <2> QED BY <1>2, <1>3, <2>1 DEF InLine
<1>5. entries[t[i]] = <<>> /\ \A f \in RendvFDs : soc[f] # t[i]
  BY <1>3 DEF InLine
<1>6. \A f \in RendvFDs : soc2[f] # t[i]
  BY <1>4, <1>5 DEF IsOpened
<1>7. ASSUME NEW j \in DOMAIN t, t[i] = t[j] PROVE i = j
  <2>1. j + 1 \in DOMAIN line /\ line[j + 1] = t[j] /\ j \in Nat
    BY <1>1
  <2>2. i + 1 = j + 1
    BY <1>3, <1>7, <2>1 DEF InLine
  <2> QED BY <1>3, <2>1, <2>2
<1> QED BY <1>5, <1>6, <1>7

----------------------------------------------------------------------------
(* The loop over the connections *)

\* What the loop of handleRendavous does to the descriptors it serves.
IsServed(ready, sizes, soc, que, soc2, que2) ==
  /\ ready \subseteq RendvFDs
  /\ \A f \in ready : que[f] \notin {Null, <<>>} /\ sizes[f] \in SendOutcomes(que[f])
  /\ \A f \in RendvFDs :
       IF f \in ready
       THEN IF sizes[f] = 0 THEN soc2[f] = 0 /\ que2[f] = Null
            ELSE soc2[f] = soc[f] /\ que2[f] = Shorter(que[f], sizes[f])
       ELSE soc2[f] = soc[f] /\ que2[f] = que[f]

\* A descriptor that was served has lost the front of its queue, ...
LEMMA ServedQueue ==
  ASSUME NEW Bytes, NEW ready, NEW sizes, NEW soc, NEW que, NEW soc2, NEW que2,
         IsServed(ready, sizes, soc, que, soc2, que2), QueuesOf(Bytes, que),
         NEW f \in ready, sizes[f] # 0, NEW took, took = Taken(que[f], sizes[f])
  PROVE  /\ RestCut(Bytes, que[f], took, que2[f]) /\ soc2[f] = soc[f]
         /\ took \in Seq(Bytes) /\ que2[f] \in Seq(Waits(Bytes))
<1>q. PICK q, n, r : q = que[f] /\ n = sizes[f] /\ r = que2[f]
  OBVIOUS
<1>1. q \in Seq(Waits(Bytes)) /\ q # <<>> /\ n \in SendOutcomes(q) /\ n # 0 /\ r = Shorter(q, n)
      /\ took = Taken(q, n)
  BY <1>q DEF IsServed, QueuesOf
<1>2. RestCut(Bytes, q, took, r)
  BY <1>1, RestTaken
<1>3. soc2[f] = soc[f]
  BY DEF IsServed
<1> QED BY <1>2, <1>3, <1>q DEF RestCut

\* ... and no connection is open twice.
LEMMA ServedStreams ==
  ASSUME NEW Bytes, NEW ready, NEW sizes, NEW soc, NEW que, NEW soc2, NEW que2,
         IsServed(ready, sizes, soc, que, soc2, que2), OneSocket(soc), QueuesOf(Bytes, que)
  PROVE  OneSocket(soc2) /\ QueuesOf(Bytes, que2)
<1>1. OneSocket(soc2)
  BY DEF IsServed, OneSocket
<1>2. ASSUME NEW f \in RendvFDs, que2[f] # Null PROVE que2[f] \in Seq(Waits(Bytes))
  <2>1. CASE f \in ready
    <3>1. sizes[f] # 0
      BY <1>2, <2>1 DEF IsServed
    <3> QED BY <2>1, <3>1, ServedQueue
  <2>2. CASE f \notin ready
    BY <1>2, <2>2 DEF IsServed, QueuesOf
  <2> QED BY <2>1, <2>2
<1> QED BY <1>1, <1>2 DEF QueuesOf

\* The client whose connection k at f took some bytes.
LEMMA ServedStream ==
  ASSUME NEW Bytes, NEW ready, NEW sizes, NEW soc, NEW que, NEW soc2, NEW que2,
         IsServed(ready, sizes, soc, que, soc2, que2), OneSocket(soc), QueuesOf(Bytes, que),
         NEW c, NEW entries, NEW got, NEW r \in Seq(Bytes), NEW w \in Seq(Bytes), NEW k, k # 0,
         Streams(Bytes, c, entries, got, r \o w, k, soc, que),
         NEW f \in ready, soc[f] = k, sizes[f] # 0, NEW took, took = Taken(que[f], sizes[f]),
         NEW w2, w2 = w \o took
  PROVE  Streams(Bytes, c, entries, got, r \o w2, k, soc2, que2)
<1>h. PICK held, more : held = r \o w /\ more = held \o took
  OBVIOUS
<1>l. PICK lost : /\ Flow(Bytes, c, entries, got, held, lost)
                  /\ \A x \in RendvFDs : soc[x] = k => lost = Rest(que[x])
  BY <1>h DEF Streams
<1>1. RestCut(Bytes, que[f], took, que2[f]) /\ f \in RendvFDs
  <2>1. RestCut(Bytes, que[f], took, que2[f])
    BY ServedQueue
  <2> QED BY <2>1 DEF IsServed
<1>m. PICK left : left = Rest(que2[f])
  OBVIOUS
<1>2. took \in Seq(Bytes) /\ left \in Seq(Bytes) /\ lost = took \o left
  <2>1. que2[f] \in Seq(Waits(Bytes)) /\ took \in Seq(Bytes) /\ Rest(que[f]) = took \o left
    BY <1>1, <1>m DEF RestCut
  <2>2. left \in Seq(Bytes)
    BY <1>m, <2>1, RestFacts
  <2> QED BY <1>1, <1>l, <2>1, <2>2
<1>3. Flow(Bytes, c, entries, got, more, left)
  BY <1>2, <1>h, <1>l, FlowSent
<1>4. more = r \o w2
  <2>1. (r \o w) \o took = r \o (w \o took)
    BY <1>2, ConcatAssociative, SMTT(30)
  <2> QED BY <1>h, <2>1
<1>5. \A x \in RendvFDs : soc2[x] = k => x = f
  BY <1>1 DEF IsServed, OneSocket
<1> QED BY <1>3, <1>4, <1>5, <1>m DEF Streams

\* The others keep what they have, or their connection is gone.
LEMMA UnservedStream ==
  ASSUME NEW Bytes, NEW ready, NEW sizes, NEW soc, NEW que, NEW soc2, NEW que2,
         IsServed(ready, sizes, soc, que, soc2, que2),
         NEW c, NEW entries, NEW got, NEW held, NEW k, k # 0,
         Streams(Bytes, c, entries, got, held, k, soc, que),
         \A f \in ready : soc[f] = k => sizes[f] = 0
  PROVE  Streams(Bytes, c, entries, got, held, k, soc2, que2)
<1>1. \A f \in RendvFDs : soc2[f] = k => soc[f] = k /\ que2[f] = que[f]
  BY DEF IsServed
<1> QED BY <1>1 DEF Streams

----------------------------------------------------------------------------
(* A turn of handleRendavous *)

\* What holds between the maps h of the host and the streams of the clients that run.
HostStreams(Bytes, line, soc, que) ==
  /\ OneSocket(soc) /\ QueuesOf(Bytes, que) /\ InLine(line, soc, pushed)
  /\ \A c \in Clients : tunnel[c] # 0 =>
       Streams(Bytes, c, pushed[tunnel[c]], taken[c], received[c] \o wire[tunnel[c]], tunnel[c], soc, que)

\* After accept, with a former connection of the client removed, the streams are as they were.
LEMMA AcceptStreams ==
  ASSUME NullIsNoList, NEW Bytes, StreamInv(Bytes), backlog # <<>>, NEW fd \in RendvFDs,
         rendvSocket[fd] = 0, NEW h, h = Accept(fd)
  PROVE  HostStreams(Bytes, Tail(backlog), h.socket, h.queue)
<1>k. PICK k, c, old, line, soc, que, soc2, que2 :
        /\ k = Head(backlog) /\ c = owner[k] /\ old = connections[c] /\ line = backlog
        /\ soc = rendvSocket /\ que = queue /\ soc2 = h.socket /\ que2 = h.queue
  OBVIOUS
<1>1. /\ line \in Seq(1 .. Len(owner)) /\ owner \in Seq(Clients) /\ soc \in [RendvFDs -> 0 .. Len(owner)]
      /\ DOMAIN que = RendvFDs /\ connections \in [Clients -> RendvFDs \cup {Null}] /\ Len(owner) \in Nat
  <2>1. owner \in Seq(Clients)
    BY DEF StreamInv, HostInv, Good, Typed
  <2>2. Len(owner) \in Nat
    BY <2>1, LenProperties
  <2> QED BY <2>1, <2>2, <1>k DEF StreamInv, HostInv, Good, Typed
<1>S. PICK S : S = 1 .. Len(owner)
  OBVIOUS
<1>2. line \in Seq(S) /\ line # <<>> /\ k = Head(line) /\ 0 \notin S
  BY <1>1, <1>k, <1>S
<1>3. k \in S /\ k # 0 /\ c \in Clients
  <2>1. k \in S
    BY <1>2, HeadTailProperties
  <2> QED BY <1>1, <1>2, <1>S, <1>k, <2>1, ElementOfSeq
<1>4. OneSocket(soc) /\ QueuesOf(Bytes, que) /\ InLine(line, soc, pushed)
  BY <1>k DEF StreamInv, TunnelInv
<1>5. IsOpened(fd, k, soc, que, soc2, que2)
  <2>1. CASE old = Null
    <3>1. soc2 = [soc EXCEPT ![fd] = k] /\ que2 = [que EXCEPT ![fd] = <<>>]
      BY <1>k, <2>1 DEF Accept, Maps
    <3> QED BY <1>1, <1>3, <3>1 DEF IsOpened
  <2>2. CASE old # Null
    <3>1. /\ soc2 = [[soc EXCEPT ![fd] = k] EXCEPT ![old] = 0]
          /\ que2 = [[que EXCEPT ![old] = Null] EXCEPT ![fd] = <<>>]
      BY <1>k, <2>2 DEF Accept, RemoveConnection, Maps
    <3>2. old \in RendvFDs /\ old # fd
      <4>1. old \in RendvFDs
        BY <1>1, <1>3, <1>k, <2>2
      <4>2. InStep(connections, queue, rendvWriteSet, rendvSocket, owner)
        BY DEF StreamInv, HostInv, Good
      <4> QED BY <1>3, <1>k, <2>2, <4>1, <4>2 DEF InStep
    <3> QED BY <1>1, <1>3, <3>1, <3>2 DEF IsOpened
  <2> QED BY <2>1, <2>2
<1>6. 1 \in DOMAIN line /\ line[1] = k
  BY <1>2, EmptySeq, LenProperties
<1>7. pushed[k] = <<>> /\ \A x \in RendvFDs : soc[x] # k
  BY <1>4, <1>6 DEF InLine
<1>8. OneSocket(soc2) /\ QueuesOf(Bytes, que2)
  BY <1>4, <1>5, <1>7, OpenedStreams
<1>9. InLine(Tail(backlog), soc2, pushed)
  <2> PICK t, entries : t = Tail(line) /\ entries = pushed
    OBVIOUS
  <2>1. InLine(line, soc, entries)
    BY <1>4
  <2>2. InLine(t, soc2, entries)
    BY <1>2, <1>5, <2>1, OpenedLine
  <2> QED BY <1>k, <2>2
<1>10. ASSUME NEW d \in Clients, tunnel[d] # 0
       PROVE  Streams(Bytes, d, pushed[tunnel[d]], taken[d], received[d] \o wire[tunnel[d]], tunnel[d],
                      soc2, que2)
  <2>i. PICK i, entries, got, held : /\ i = tunnel[d] /\ entries = pushed[i] /\ got = taken[d]
                                     /\ held = received[d] \o wire[i]
    OBVIOUS
  <2>1. Streams(Bytes, d, entries, got, held, i, soc, que)
    BY <1>k, <1>10, <2>i DEF StreamInv, TunnelInv, StreamOf
  <2>2. i # 0 /\ (i = k => entries = <<>>)
    BY <1>7, <1>10, <2>i
  <2>3. Streams(Bytes, d, entries, got, held, i, soc2, que2)
    BY <1>5, <2>1, <2>2, OpenedStream
  <2> QED BY <2>3, <2>i
<1> QED BY <1>8, <1>9, <1>10, <1>k DEF HostStreams

\* The loop over the connections writes to those it serves.
LEMMA ServeStreams ==
  ASSUME NEW Bytes, StreamInv(Bytes), NEW line, line \in Seq(1 .. Len(owner)), NEW h,
         HostStreams(Bytes, line, h.socket, h.queue), h.socket \in [RendvFDs -> 0 .. Len(owner)],
         NEW ready, ready \subseteq RendvFDs, NEW sizes, DOMAIN sizes = ready,
         \A f \in ready : h.queue[f] \notin {Null, <<>>} /\ sizes[f] \in SendOutcomes(h.queue[f]),
         ServeAll(h, sizes), backlog' = line,
         UNCHANGED <<owner, tunnel, received, taken, pushed>>
  PROVE  TunnelInv(Bytes)'
<1>k. PICK soc, que, soc2, que2 : /\ soc = h.socket /\ que = h.queue
                                  /\ soc2 = rendvSocket' /\ que2 = queue'
  OBVIOUS
<1>1. IsServed(ready, sizes, soc, que, soc2, que2)
  <2> DEFINE dead == {f \in ready : sizes[f] = 0}
             left == [f \in RendvFDs |-> IF f \in dead THEN Null
                                    ELSE IF f \in ready /\ sizes[f] # 0
                                    THEN Shorter(que[f], sizes[f]) ELSE que[f]]
  <2>1. que2 = left /\ soc2 = [f \in RendvFDs |-> IF f \in dead THEN 0 ELSE soc[f]]
    BY <1>k DEF ServeAll
  <2>2. ASSUME NEW f \in RendvFDs
        PROVE  IF f \in ready
               THEN IF sizes[f] = 0 THEN soc2[f] = 0 /\ que2[f] = Null
                    ELSE soc2[f] = soc[f] /\ que2[f] = Shorter(que[f], sizes[f])
               ELSE soc2[f] = soc[f] /\ que2[f] = que[f]
    BY <2>1
  <2> QED BY <1>k, <2>2 DEF IsServed
<1>2. OneSocket(soc) /\ QueuesOf(Bytes, que) /\ InLine(line, soc, pushed)
  BY <1>k DEF HostStreams
<1>3. OneSocket(soc2) /\ QueuesOf(Bytes, que2)
  BY <1>1, <1>2, ServedStreams
<1>4. InLine(line, soc2, pushed)
  <2>1. \A i \in DOMAIN line : line[i] # 0
    BY ElementOfSeq
  <2>2. \A f \in RendvFDs : soc2[f] \in {0, soc[f]}
    BY <1>1 DEF IsServed
  <2> QED BY <1>2, <2>1, <2>2 DEF InLine
<1>5. /\ received \in [Clients -> Seq(Bytes)] /\ wire \in [Conns -> Seq(Bytes)]
      /\ taken = [d \in Clients |-> taken[d]] /\ DOMAIN pushed = Conns /\ Len(owner) <= MaxConns
  BY DEF StreamInv, TunnelInv, StreamTypes
<1>w. wire' = [k \in Conns |-> wire[k] \o
         (IF \E f \in DOMAIN sizes : h.socket[f] = k /\ Running(k) /\ sizes[f] # 0
          THEN LET g == CHOOSE f \in DOMAIN sizes : h.socket[f] = k IN Taken(h.queue[g], sizes[g])
          ELSE <<>>)]
  BY DEF ServeAll
\* What reaches connection i.
<1>6. ASSUME NEW i \in Conns
      PROVE  \/ wire'[i] = wire[i] /\ (Running(i) => \A f \in ready : soc[f] = i => sizes[f] = 0)
             \/ \E f \in ready : /\ soc[f] = i /\ sizes[f] # 0
                                 /\ wire'[i] = wire[i] \o Taken(que[f], sizes[f])
  <2>1. wire'[i] = wire[i] \o
          (IF \E f \in ready : soc[f] = i /\ Running(i) /\ sizes[f] # 0
           THEN LET g == CHOOSE f \in ready : soc[f] = i IN Taken(que[g], sizes[g]) ELSE <<>>)
    <3>1. wire'[i] = wire[i] \o
            (IF \E f \in DOMAIN sizes : h.socket[f] = i /\ Running(i) /\ sizes[f] # 0
             THEN LET g == CHOOSE f \in DOMAIN sizes : h.socket[f] = i IN Taken(h.queue[g], sizes[g])
             ELSE <<>>)
      BY <1>w, Zenon
    <3>2. h.socket = soc /\ h.queue = que /\ DOMAIN sizes = ready
      BY <1>k
    <3> QED BY <3>1, <3>2, Zenon
  <2>2. CASE \E f \in ready : soc[f] = i /\ Running(i) /\ sizes[f] # 0
    <3>1. PICK f \in ready : soc[f] = i /\ Running(i) /\ sizes[f] # 0
      BY <2>2
    <3>g. PICK g : g = CHOOSE x \in ready : soc[x] = i
      OBVIOUS
    <3>2. g \in ready /\ soc[g] = i
      BY <3>1, <3>g
    <3>3. g = f
      <4>1. i # 0
        BY DEF Conns
      <4> QED BY <1>2, <3>1, <3>2, <4>1 DEF OneSocket
    <3>4. wire'[i] = wire[i] \o Taken(que[g], sizes[g])
      BY <2>1, <2>2, <3>g
    <3> QED BY <3>1, <3>3, <3>4
  <2>3. CASE ~\E f \in ready : soc[f] = i /\ Running(i) /\ sizes[f] # 0
    <3>1. wire'[i] = wire[i] \o <<>>
      BY <2>1, <2>3
    <3>2. wire[i] \o <<>> = wire[i]
      BY <1>5, ConcatEmptySeq
    <3> QED BY <2>3, <3>1, <3>2
  <2> QED BY <2>2, <2>3
<1>7. StreamTypes(Bytes)'
  <2>1. ASSUME NEW i \in Conns PROVE wire'[i] \in Seq(Bytes)
    <3>1. ASSUME NEW f \in ready, sizes[f] # 0, wire'[i] = wire[i] \o Taken(que[f], sizes[f])
          PROVE  wire'[i] \in Seq(Bytes)
      <4>x. PICK took, w : took = Taken(que[f], sizes[f]) /\ w = wire[i]
        OBVIOUS
      <4>1. took \in Seq(Bytes)
        BY <1>1, <1>2, <3>1, <4>x, ServedQueue
      <4>2. w \in Seq(Bytes)
        BY <1>5, <4>x
      <4>3. w \o took \in Seq(Bytes)
        BY <4>1, <4>2, ConcatProperties
      <4> QED BY <3>1, <4>3, <4>x
    <3> QED BY <1>5, <1>6, <3>1, ZenonT(30)
  <2>2. wire' = [i \in Conns |-> wire'[i]]
    <3> DEFINE Wire(k) == wire[k] \o
                 (IF \E f \in DOMAIN sizes : h.socket[f] = k /\ Running(k) /\ sizes[f] # 0
                  THEN LET g == CHOOSE f \in DOMAIN sizes : h.socket[f] = k
                       IN Taken(h.queue[g], sizes[g])
                  ELSE <<>>)
    <3>1. wire' = [k \in Conns |-> Wire(k)]
      BY <1>w, Zenon
    <3> HIDE DEF Wire
    <3> QED BY <3>1
  <2>3. wire' \in [Conns -> Seq(Bytes)]
    BY <2>1, <2>2
  <2> QED BY <1>5, <2>3 DEF StreamTypes
<1>8. Fresh'
  <2>1. ASSUME NEW i \in Conns, i > Len(owner) PROVE wire'[i] = wire[i]
    <3>1. \A f \in RendvFDs : soc[f] # i
      <4>1. owner \in Seq(Clients)
        BY DEF StreamInv, HostInv, Good, Typed
      <4>2. Len(owner) \in Nat
        BY <4>1, LenProperties
      <4> QED BY <1>k, <2>1, <4>2 DEF Conns
    <3> QED BY <1>6, <3>1
  <2> QED BY <2>1 DEF StreamInv, TunnelInv, Fresh
<1>9. Owned' /\ \A c \in Clients : Len(received'[c]) < MaxPacketSize
  BY DEF StreamInv, TunnelInv, Owned
<1>10. ASSUME NEW c \in Clients, tunnel'[c] # 0 PROVE StreamOf(Bytes, c)'
  <2>i. PICK i, entries, got, r, w, w2 : /\ i = tunnel[c] /\ entries = pushed[i] /\ got = taken[c]
                                         /\ r = received[c] /\ w = wire[i] /\ w2 = wire'[i]
    OBVIOUS
  <2>1. i # 0 /\ i \in Conns /\ Running(i) /\ r \in Seq(Bytes) /\ w \in Seq(Bytes)
    BY <1>10, <2>i, TunnelFacts DEF Running
  <2>2. Streams(Bytes, c, entries, got, r \o w, i, soc, que)
    BY <1>10, <1>k, <2>i DEF HostStreams
  <2>3. Streams(Bytes, c, entries, got, r \o w2, i, soc2, que2)
    <3>1. CASE w2 = w /\ \A f \in ready : soc[f] = i => sizes[f] = 0
      <4>h. PICK held : held = r \o w
        OBVIOUS
      <4>1. Streams(Bytes, c, entries, got, held, i, soc, que)
        BY <2>2, <4>h
      <4>2. Streams(Bytes, c, entries, got, held, i, soc2, que2)
        BY <1>1, <2>1, <3>1, <4>1, UnservedStream
      <4> QED BY <3>1, <4>2, <4>h
    <3>2. ASSUME NEW f \in ready, soc[f] = i, sizes[f] # 0, w2 = w \o Taken(que[f], sizes[f])
          PROVE  Streams(Bytes, c, entries, got, r \o w2, i, soc2, que2)
      <4>x. PICK took : took = Taken(que[f], sizes[f])
        OBVIOUS
      <4>1. w2 = w \o took
        BY <3>2, <4>x
      <4> QED BY <1>1, <1>2, <2>1, <2>2, <3>2, <4>1, <4>x, ServedStream
    <3> QED BY <1>6, <2>1, <2>i, <3>1, <3>2
  <2> QED BY <1>k, <2>3, <2>i DEF StreamOf
<1> QED BY <1>3, <1>4, <1>7, <1>8, <1>9, <1>10, <1>k DEF TunnelInv

\* So a turn of handleRendavous keeps the invariant.
LEMMA HandleStreams ==
  ASSUME NullIsNoList, NEW Bytes, StreamInv(Bytes), NEW accepts \in BOOLEAN, NEW fd,
         accepts => backlog # <<>> /\ fd \in RendvFDs /\ rendvSocket[fd] = 0,
         NEW writable \in SUBSET rendvWriteSet,
         HandleRendavous(accepts, fd, writable)
  PROVE  TunnelInv(Bytes)'
<1> DEFINE h == IF accepts THEN Accept(fd) ELSE Maps
           ready == {h.connections[c] : c \in Clients} \cap writable
           line == IF accepts THEN Tail(backlog) ELSE backlog
<1>1. /\ backlog' = line /\ UNCHANGED <<owner, tunnel, received, taken, pushed>>
      /\ (\A f \in ready : h.queue[f] \notin {Null, <<>>}) =>
           \E sizes : /\ DOMAIN sizes = ready /\ ServeAll(h, sizes)
                      /\ \A f \in ready : sizes[f] \in SendOutcomes(h.queue[f])
  <2>1. backlog' = line /\ UNCHANGED <<owner, tunnel, received, taken, pushed>>
    BY DEF HandleRendavous, clientVars
  <2>2. \E g \in {h} : \E r \in {{g.connections[c] : c \in Clients} \cap writable} :
          IF \E f \in r : g.queue[f] \in {Null, <<>>}
          THEN host' = "no packet" /\ UNCHANGED <<mapVars, wire>>
          ELSE \E sizes \in [r -> UNION {SendOutcomes(g.queue[f]) : f \in r}] :
                 (\A f \in r : sizes[f] \in SendOutcomes(g.queue[f])) /\ ServeAll(g, sizes)
    BY DEF HandleRendavous
  <2> HIDE DEF h, line
  <2> PICK g, r : /\ g = h /\ r = ready
                  /\ IF \E f \in r : g.queue[f] \in {Null, <<>>}
                     THEN host' = "no packet" /\ UNCHANGED <<mapVars, wire>>
                     ELSE \E sizes \in [r -> UNION {SendOutcomes(g.queue[f]) : f \in r}] :
                       (\A f \in r : sizes[f] \in SendOutcomes(g.queue[f])) /\ ServeAll(g, sizes)
    BY <2>2, ZenonT(30)
  <2> HIDE DEF ready
  <2>3. (\A f \in r : g.queue[f] \notin {Null, <<>>}) =>
          \E sizes : /\ DOMAIN sizes = r /\ ServeAll(g, sizes)
                     /\ \A f \in r : sizes[f] \in SendOutcomes(g.queue[f])
    OBVIOUS
  <2> QED BY <2>1, <2>3
<1>0. HostInv
  BY DEF StreamInv
<1>2. /\ Good(h.connections, h.queue, h.writeSet, h.socket, owner)
      /\ Asked(h.connections, h.queue, rendvWriteSet)
      /\ line \in Seq(1 .. Len(owner)) /\ HostStreams(Bytes, line, h.socket, h.queue)
  <2>1. CASE accepts
    <3>1. h = Accept(fd) /\ line = Tail(backlog)
      BY <2>1
    <3> HIDE DEF h, line
    <3>2. /\ Good(h.connections, h.queue, h.writeSet, h.socket, owner)
          /\ Asked(h.connections, h.queue, rendvWriteSet)
          /\ Tail(backlog) \in Seq(1 .. Len(owner))
      BY <1>0, <2>1, <3>1, AcceptFacts
    <3>3. HostStreams(Bytes, Tail(backlog), h.socket, h.queue)
      BY <2>1, <3>1, AcceptStreams
    <3> QED BY <3>1, <3>2, <3>3
  <2>2. CASE ~accepts
    <3>1. /\ h.connections = connections /\ h.queue = queue /\ h.writeSet = rendvWriteSet
          /\ h.socket = rendvSocket /\ line = backlog
      BY <2>2 DEF Maps
    <3> HIDE DEF h, line
    <3>2. Asked(connections, queue, rendvWriteSet)
      BY <1>0 DEF HostInv, Good, Typed, InStep, Asked
    <3>3. HostStreams(Bytes, backlog, rendvSocket, queue)
      BY DEF StreamInv, TunnelInv, StreamOf, HostStreams
    <3> QED BY <1>0, <3>1, <3>2, <3>3 DEF HostInv
  <2> QED BY <2>1, <2>2
<1> HIDE DEF h, line
<1>3. \A f \in ready : h.queue[f] \notin {Null, <<>>}
  BY <1>2 DEF Asked
<1>4. ready \subseteq RendvFDs
  BY <1>0 DEF HostInv, Good, Typed
<1> HIDE DEF ready
<1>5. PICK sizes : /\ DOMAIN sizes = ready /\ ServeAll(h, sizes)
                   /\ \A f \in ready : sizes[f] \in SendOutcomes(h.queue[f])
  BY <1>1, <1>3
<1>6. h.socket \in [RendvFDs -> 0 .. Len(owner)]
  BY <1>2 DEF Good, Typed
<1> PICK r, l : r = ready /\ l = line
  OBVIOUS
<1> QED BY <1>1, <1>2, <1>3, <1>4, <1>5, <1>6, ServeStreams

\* Every step keeps the invariant.
LEMMA StreamNext ==
  ASSUME NullIsApart, NEW Bytes, CarriedWhole(Bytes), StreamInv(Bytes), [RendvNext]_rendvVars
  PROVE  StreamInv(Bytes)'
<1>0. NullIsNoList
  BY DEF NullIsApart
<1>1. HostInv'
  BY <1>0, HostNext DEF StreamInv
<1>2. ASSUME NEW c \in Clients, StartClient(c) PROVE TunnelInv(Bytes)'
  BY <1>2, StartStreams
<1>3. ASSUME NEW c \in Clients, StopClient(c) PROVE TunnelInv(Bytes)'
  BY <1>3, StopStreams
<1>4. ASSUME NEW c \in Clients, Recv(c) PROVE TunnelInv(Bytes)'
  BY <1>4, RecvStreams
<1>5. ASSUME NEW t \in Traffic, NEW c \in Clients, ReceivePush(t[1], t[2], c)
      PROVE  TunnelInv(Bytes)'
  BY <1>5, PushStreams
<1>6. ASSUME HostTurn PROVE TunnelInv(Bytes)'
  <2> PICK writable \in SUBSET rendvWriteSet :
         \/ HandleRendavous(FALSE, Null, writable)
         \/ /\ backlog # <<>>
            /\ \E fd \in RendvFDs :
                 rendvSocket[fd] = 0 /\ HandleRendavous(TRUE, fd, writable)
    BY <1>6 DEF HostTurn
  <2>1. ASSUME HandleRendavous(FALSE, Null, writable) PROVE TunnelInv(Bytes)'
    BY <1>0, <2>1, HandleStreams
  <2>2. ASSUME backlog # <<>>, NEW fd \in RendvFDs, rendvSocket[fd] = 0,
               HandleRendavous(TRUE, fd, writable)
        PROVE  TunnelInv(Bytes)'
    BY <1>0, <2>2, HandleStreams
  <2> QED BY <2>1, <2>2
<1>7. ASSUME UNCHANGED rendvVars PROVE TunnelInv(Bytes)'
  BY <1>7 DEF rendvVars, mapVars, clientVars, StreamInv, TunnelInv, StreamTypes, Fresh, Owned,
              OneSocket, QueuesOf, InLine, StreamOf
<1> QED BY <1>1, <1>2, <1>3, <1>4, <1>5, <1>6, <1>7 DEF RendvNext, StreamInv

\* It implies StreamConsistent: of an open connection the rest is queued, of another it is lost.
LEMMA StreamInvSuffices ==
  ASSUME NEW Bytes, StreamInv(Bytes)
  PROVE  StreamConsistent
<1>1. BufferHasRoom
  <2> SUFFICES ASSUME NEW c \in Clients PROVE Room(c) > 0
    BY DEF BufferHasRoom
  <2>1. received[c] \in Seq(Bytes) /\ Len(received[c]) < MaxPacketSize
    BY DEF StreamInv, TunnelInv, StreamTypes
  <2>2. Len(received[c]) \in Nat
    BY <2>1, LenProperties
  <2> QED BY <2>1, <2>2, BuffersAssumption DEF Room
<1>2. ASSUME NEW c \in Clients, tunnel[c] # 0, NEW k, k = tunnel[c],
             NEW more, more = More(pushed[k], Len(taken[c]), c),
             NEW held, held = received[c] \o wire[k]
      PROVE  /\ Len(taken[c]) <= Len(pushed[k])
             /\ \A i \in DOMAIN taken[c] : taken[c][i] =
                  [from |-> pushed[k][i].from, packet |-> Received(pushed[k][i].packet, pushed[k][i].from)]
             /\ IF \E fd \in RendvFDs : rendvSocket[fd] = k
                THEN FlattenSeq(more) = held \o Unsent(CHOOSE fd \in RendvFDs : rendvSocket[fd] = k)
                ELSE IsPrefix(held, FlattenSeq(more))
  <2>0. Streams(Bytes, c, pushed[k], taken[c], held, k, rendvSocket, queue)
    BY <1>2 DEF StreamInv, TunnelInv, StreamOf
  <2>1. PICK lost : /\ Flow(Bytes, c, pushed[k], taken[c], held, lost)
                    /\ \A fd \in RendvFDs : rendvSocket[fd] = k => lost = Rest(queue[fd])
    BY <2>0 DEF Streams
  <2>2. held \in Seq(Bytes) /\ lost \in Seq(Bytes) /\ FlattenSeq(more) = held \o lost
    BY <1>2, <2>1 DEF Flow
  <2>3. CASE \E fd \in RendvFDs : rendvSocket[fd] = k
    <3>f. PICK fd : fd = CHOOSE x \in RendvFDs : rendvSocket[x] = k
      OBVIOUS
    <3>1. fd \in RendvFDs /\ rendvSocket[fd] = k
      BY <2>3, <3>f
    <3>2. Unsent(fd) = Rest(queue[fd])
      BY DEF Unsent, Rest, Left, Unwritten
    <3>3. FlattenSeq(more) = held \o Unsent(fd)
      BY <2>1, <2>2, <3>1, <3>2
    <3> QED BY <2>1, <2>3, <3>3, <3>f DEF Flow
  <2>4. CASE ~\E fd \in RendvFDs : rendvSocket[fd] = k
    <3>1. IsPrefix(held, held \o lost)
      BY <2>2, PrefixFacts
    <3> QED BY <2>1, <2>2, <2>4, <3>1 DEF Flow
  <2> QED BY <2>3, <2>4
<1>3. TunnelKeepsStream
  BY <1>2 DEF TunnelKeepsStream, More
<1> QED BY <1>1, <1>3 DEF StreamConsistent

\* What a running node writes is read as it was written: packets of every class, with any
\* numbers, addresses, lists, strings and nested values, in full; and of the first bytes of
\* one that is cut short nothing is made, or a packet without its value (Marshal.h:395-1582,
\* Marshal.cpp:52-129, and marshal_ast, unmarshal_ast, MeridianDSL.cpp:909-1148).
THEOREM PacketsStayReadAsWritten ==
  ASSUME NullIsApart, ValuesAreFinite
  PROVE  RendvSpec => []PacketsReadAsWritten
<1>1. RendvInit => PacketsReadAsWritten
  BY AllReadAsWritten DEF PacketsReadAsWritten
<1>2. PacketsReadAsWritten /\ [RendvNext]_rendvVars => PacketsReadAsWritten'
  BY AllReadAsWritten DEF PacketsReadAsWritten
<1> QED BY <1>1, <1>2, PTL DEF RendvSpec

\* The packets sent to clients are made of bytes and read as they were written.
LEMMA TrafficIsCarried ==
  ASSUME NullIsApart, ValuesAreFinite
  PROVE  CarriedWhole(NumberBytes)
<1>1. \A n \in Nodes : IsAddress(n)
  BY PacketsAssumption DEF IsAddress
<1>2. ASSUME NEW t \in Traffic
      PROVE  /\ IsAddress(t[1])
             /\ Creates(t[2]) # Null =>
                  Creates(t[2]) \in Seq(NumberBytes) /\ Parses(t[1], Creates(t[2])) = Received(t[2], t[1])
  <2>1. PICK p, from : p = t[2] /\ from = t[1]
    OBVIOUS
  <2>2. p \in Samples /\ from \in Nodes
    BY <2>1, RendezvousAssumption
  <2>3. IsReadBack(NumberBytes, p, from)
    BY <2>2, SampleReads
  <2> QED BY <1>1, <2>1, <2>2, <2>3 DEF IsReadBack
<1>3. \A c \in Clients : IsAddress(c)
  BY <1>1, RendezvousAssumption
<1> QED BY <1>2, <1>3, NumbersAreBytes DEF CarriedWhole

\* A client takes from its tunnel the packets that were pushed, as they were sent and in that
\* order, whatever the bytes of a send or a recv, whoever stops, comes back or is cut off, and
\* its buffer never fills up (handleRendavous, MeridianProcess.cpp:1274-1304 and 1334-1372).
THEOREM StreamStaysConsistent ==
  ASSUME NullIsApart, ValuesAreFinite
  PROVE  RendvSpec => []StreamConsistent
<1>b. PICK Bytes : Bytes = NumberBytes
  OBVIOUS
<1>c. CarriedWhole(Bytes)
  BY <1>b, TrafficIsCarried
<1>0. NullIsNoList
  BY DEF NullIsApart
<1>1. RendvInit => StreamInv(Bytes)
  BY <1>0, HostInit, StreamInit DEF StreamInv
<1>2. StreamInv(Bytes) /\ [RendvNext]_rendvVars => StreamInv(Bytes)'
  BY <1>c, StreamNext
<1>3. StreamInv(Bytes) => StreamConsistent
  BY StreamInvSuffices
<1> QED BY <1>1, <1>2, <1>3, PTL DEF RendvSpec

----------------------------------------------------------------------------
(* The threads of DSLScheduler *)

\* The entries seen in this iteration, and the threads listed behind them.
Seen == IF scan = Idle THEN 0 ELSE scan
Ahead(t) == \E i \in 1 .. Len(psList) : i > Seen /\ psList[i] = t

ScanInList == scan # Idle => scan <= Len(psList)
ReadyAhead == \A t \in Threads : thread[t].state = "ready" => Ahead(t)
TriggerSet == scan = Idle => (dummyBit <=> psList # <<>>)

\* The inductive invariant of the list.
ListInv == DSLTypeOK /\ ScanInList /\ ReadyAhead /\ TriggerSet

----------------------------------------------------------------------------
(* Lemmas about the list *)

\* The threads in the rest of a list stand behind its beginning.
LEMMA SubSeqElems ==
  ASSUME NEW list \in Seq(Threads), NEW k \in 0 .. Len(list), NEW t \in Threads
  PROVE  t \in ThreadsIn(SubSeq(list, k + 1, Len(list)))
           <=> \E i \in 1 .. Len(list) : i > k /\ list[i] = t
<1> DEFINE s == SubSeq(list, k + 1, Len(list))
<1>1. Len(s) = Len(list) - k /\ \A i \in 1 .. Len(list) - k : s[i] = list[i + k]
  OBVIOUS
<1>2. ASSUME t \in ThreadsIn(s)
      PROVE  \E i \in 1 .. Len(list) : i > k /\ list[i] = t
  <2> HIDE DEF s
  <2>1. PICK j \in 1 .. Len(s) : s[j] = t
    BY <1>2 DEF ThreadsIn
  <2>2. j + k \in 1 .. Len(list) /\ j + k > k /\ list[j + k] = t
    BY <1>1, <2>1
  <2> QED BY <2>2
<1>3. ASSUME NEW i \in 1 .. Len(list), i > k, list[i] = t
      PROVE  t \in ThreadsIn(s)
  <2> HIDE DEF s
  <2>1. i - k \in 1 .. Len(s) /\ s[i - k] = t
    BY <1>1, <1>3
  <2> QED BY <2>1 DEF ThreadsIn
<1> QED BY <1>2, <1>3

\* The invariant of the list says what is promised of it.
LEMMA ListInvSuffices == ListInv => ReadyIsListed
<1> SUFFICES ASSUME ListInv
             PROVE  ReadyIsListed
  OBVIOUS
<1>1. psList \in Seq(Threads) /\ Seen \in 0 .. Len(psList)
  BY DEF ListInv, DSLTypeOK, ScanInList, Seen, Idle
<1>2. ASSUME NEW t \in Threads, thread[t].state = "ready"
      PROVE  t \in ThreadsIn(SubSeq(psList, Seen + 1, Len(psList)))
  BY <1>1, <1>2, SubSeqElems DEF ListInv, ReadyAhead, Ahead
<1> QED BY <1>2 DEF ReadyIsListed, ListInv, TriggerSet, Seen

\* The loop has seen the next entry: the entries stay, new ones may follow, and
\* the thread that was run is among those if it is still ready.
LEMMA ScanMovesOn ==
  ASSUME ListInv, Examines, scan' = scan + 1, DSLTypeOK',
         Len(psList') >= Len(psList),
         \A i \in 1 .. Len(psList) : psList'[i] = psList[i],
         \A t \in Threads : t # Examined => thread'[t].state = thread[t].state,
         thread'[Examined].state = "ready" =>
           Len(psList') > Len(psList) /\ psList'[Len(psList')] = Examined
  PROVE  ListInv'
<1>1. /\ scan \in Nat /\ scan < Len(psList) /\ scan # Idle /\ scan' \in Nat /\ scan' # Idle
      /\ Len(psList) \in Nat /\ Len(psList') \in Nat /\ scan + 1 <= Len(psList')
  BY DEF ListInv, DSLTypeOK, Examines, Idle
<1>2. ASSUME NEW t \in Threads, thread'[t].state = "ready"
      PROVE  \E i \in 1 .. Len(psList') : i > scan + 1 /\ psList'[i] = t
  <2>1. CASE t = Examined
    <3>1. Len(psList') \in 1 .. Len(psList') /\ Len(psList') > scan + 1
      BY <1>1, <1>2, <2>1
    <3> QED BY <1>2, <2>1, <3>1
  <2>2. CASE t # Examined
    <3>1. PICK i \in 1 .. Len(psList) : i > scan /\ psList[i] = t
      BY <1>1, <1>2, <2>2 DEF ListInv, ReadyAhead, Ahead, Seen
    <3>2. i # scan + 1
      BY <2>2, <3>1 DEF Examined
    <3>3. i \in 1 .. Len(psList') /\ i > scan + 1 /\ psList'[i] = t
      BY <1>1, <3>1, <3>2
    <3> QED BY <3>3
  <2> QED BY <2>1, <2>2
<1>3. ReadyAhead'
  BY <1>1, <1>2 DEF ReadyAhead, Ahead, Seen
<1>4. ScanInList' /\ TriggerSet'
  BY <1>1 DEF ScanInList, TriggerSet
<1> QED BY <1>3, <1>4 DEF ListInv

\* Outside the loop one thread changes: it is put on the list or is not ready.
LEMMA OneIsListed ==
  ASSUME ListInv, scan = Idle, scan' = Idle, DSLTypeOK', NEW u \in Threads,
         \A t \in Threads : t # u => thread'[t].state = thread[t].state,
         \/ psList' = Append(psList, u) /\ dummyBit' = TRUE
         \/ psList' = psList /\ dummyBit' = dummyBit /\ thread'[u].state # "ready"
  PROVE  ListInv'
<1>1. /\ psList \in Seq(Threads) /\ Len(psList) \in Nat /\ Len(psList') >= Len(psList)
      /\ \A i \in 1 .. Len(psList) : psList'[i] = psList[i]
  BY DEF ListInv, DSLTypeOK
<1>2. Seen = 0 /\ Seen' = 0
  BY DEF Seen
<1>3. ASSUME NEW t \in Threads, thread'[t].state = "ready"
      PROVE  Ahead(t)'
  <2>1. CASE t = u
    <3>1. psList' = Append(psList, u)
      BY <1>3, <2>1
    <3>2. Len(psList') = Len(psList) + 1 /\ psList'[Len(psList')] = u
      BY <1>1, <3>1
    <3>3. Len(psList') \in 1 .. Len(psList') /\ Len(psList') > 0
      BY <1>1, <3>2
    <3> QED BY <1>2, <2>1, <3>2, <3>3 DEF Ahead
  <2>2. CASE t # u
    <3>1. PICK i \in 1 .. Len(psList) : psList[i] = t
      BY <1>3, <2>2 DEF ListInv, ReadyAhead, Ahead
    <3>2. Len(psList') \in Nat
      BY DEF DSLTypeOK
    <3>3. i \in 1 .. Len(psList') /\ i > 0 /\ psList'[i] = t
      BY <1>1, <3>1, <3>2
    <3> QED BY <1>2, <3>3 DEF Ahead
  <2> QED BY <2>1, <2>2
<1>4. TriggerSet'
  <2>1. CASE psList' = Append(psList, u)
    BY <1>1, <2>1 DEF TriggerSet
  <2>2. CASE psList' = psList
    BY <2>2, <1>1 DEF TriggerSet, ListInv
  <2> QED BY <2>1, <2>2
<1> QED BY <1>3, <1>4 DEF ListInv, ReadyAhead, ScanInList

----------------------------------------------------------------------------
(* Types *)

\* What every turn of a thread does to it.
LEMMA RanTypes ==
  ASSUME DSLTypeOK, NEW t \in Threads, NEW state \in {"ready", "blocked", "gone"},
         NEW call \in CallNumber, NEW lost \in BOOLEAN, Ran(t, state, call, lost)
  PROVE  /\ thread' \in [Threads -> Thread]
         /\ thread'[t].state = state /\ thread'[t].call = call
         /\ thread'[t].answer = 0 /\ thread'[t].lost = lost
         /\ \A u \in Threads : u # t => thread'[u] = thread[u]
<1>1. thread[t] \in Thread /\ 0 \in CallNumber
  BY DSLSchedulerAssumption DEF DSLTypeOK, CallNumber
<1>2. [state |-> state, call |-> call, answer |-> 0, turn |-> 1 - thread[t].turn,
       lost |-> lost] \in Thread
  BY <1>1 DEF Thread
<1>3. thread' = [thread EXCEPT ![t] = [state |-> state, call |-> call, answer |-> 0,
                                       turn |-> 1 - thread[t].turn, lost |-> lost]]
  BY DEF Ran
<1> QED BY <1>2, <1>3 DEF DSLTypeOK

\* A thread that is woken is ready and stands at the end of the list.
LEMMA WakeTypes ==
  ASSUME DSLTypeOK, NEW c \in calls, Wake(c)
  PROVE  /\ thread' \in [Threads -> Thread] /\ c.thread \in Threads
         /\ thread'[c.thread] = [thread[c.thread] EXCEPT !.state = "ready", !.answer = c.number]
         /\ \A u \in Threads : u # c.thread => thread'[u] = thread[u]
         /\ psList' = Append(psList, c.thread) /\ psList' \in Seq(Threads)
         /\ dummyBit' = TRUE
<1>1. c.thread \in Threads /\ c.number \in CallNumber
  BY DEF DSLTypeOK, Call
<1>2. [thread[c.thread] EXCEPT !.state = "ready", !.answer = c.number] \in Thread
  BY <1>1 DEF DSLTypeOK, Thread
<1>3. thread' = [thread EXCEPT ![c.thread] =
                   [thread[c.thread] EXCEPT !.state = "ready", !.answer = c.number]]
  BY DEF Wake
<1>4. psList' = Append(psList, c.thread) /\ psList' \in Seq(Threads) /\ dummyBit' = TRUE
  BY <1>1 DEF DSLTypeOK, Wake
<1> QED BY <1>1, <1>2, <1>3, <1>4 DEF DSLTypeOK

\* A new call is a call.
LEMMA NewCallType ==
  ASSUME DSLTypeOK, NEW t \in Threads, thread[t].call < MaxCalls,
         NEW kind \in {"rpc", "distance"}, NEW goes \in BOOLEAN
  PROVE  /\ thread[t].call + 1 \in CallNumber
         /\ NewCall(t, kind, goes) \in Call
<1>1. thread[t].call \in Nat /\ MaxCalls \in Nat
  BY DSLSchedulerAssumption DEF DSLTypeOK, Thread, CallNumber
<1>2. thread[t].call + 1 \in CallNumber
  BY <1>1 DEF CallNumber
<1> QED BY <1>2, DSLSchedulerAssumption DEF NewCall, Call

\* So is one that was answered once more.
LEMMA RepliedType ==
  ASSUME DSLTypeOK, NEW c \in calls, c.replies < MaxReplies
  PROVE  [c EXCEPT !.replies = @ + 1] \in Call
<1>1. c \in Call /\ c.replies + 1 \in 0 .. MaxReplies
  BY DSLSchedulerAssumption DEF DSLTypeOK, Call
<1> QED BY <1>1 DEF Call

\* A thread that makes a call is blocked in it, and lost if it was not sent.
LEMMA CallIsMade ==
  ASSUME DSLTypeOK, NEW t \in Threads, CallsNode(t) \/ AsksDistance(t)
  PROVE  \E kind \in {"rpc", "distance"}, goes \in BOOLEAN :
           /\ thread[t].call + 1 \in CallNumber /\ NewCall(t, kind, goes) \in Call
           /\ calls' = calls \cup {NewCall(t, kind, goes)}
           /\ thread' \in [Threads -> Thread]
           /\ thread'[t].state = "blocked" /\ thread'[t].call = thread[t].call + 1
           /\ thread'[t].answer = 0 /\ (goes \/ thread'[t].lost)
           /\ \A u \in Threads : u # t => thread'[u] = thread[u]
<1>1. thread[t].call < MaxCalls
  BY DEF CallsNode, AsksDistance
<1>2. CASE CallsNode(t)
  <2>1. PICK goes \in BOOLEAN : /\ Ran(t, "blocked", thread[t].call + 1, ~goes)
                               /\ calls' = calls \cup {NewCall(t, "rpc", goes)}
    BY <1>2 DEF CallsNode
  <2>2. thread[t].call + 1 \in CallNumber /\ NewCall(t, "rpc", goes) \in Call
    BY <1>1, NewCallType
  <2>3. CASE goes
    <3>1. Ran(t, "blocked", thread[t].call + 1, FALSE)
      BY <2>1, <2>3
    <3> QED BY <2>1, <2>2, <2>3, <3>1, RanTypes
  <2>4. CASE ~goes
    <3>1. Ran(t, "blocked", thread[t].call + 1, TRUE)
      BY <2>1, <2>4
    <3>2. thread'[t].lost = TRUE
      BY <2>2, <3>1, RanTypes
    <3> QED BY <2>1, <2>2, <3>1, <3>2, RanTypes
  <2> QED BY <2>3, <2>4
<1>3. CASE AsksDistance(t)
  <2>1. thread[t].call + 1 \in CallNumber /\ NewCall(t, "distance", TRUE) \in Call
    BY <1>1, NewCallType
  <2> QED BY <1>3, <2>1, RanTypes DEF AsksDistance
<1> QED BY <1>2, <1>3

\* The entry under the loop is a thread.
LEMMA ScanTypes ==
  ASSUME DSLTypeOK, Examines
  PROVE  /\ scan \in Nat /\ scan + 1 \in 0 .. MaxPerIteration
         /\ Examined \in Threads /\ psList \in Seq(Threads)
BY DSLSchedulerAssumption DEF DSLTypeOK, Examines, Examined, Idle

----------------------------------------------------------------------------
(* The list invariant *)

\* The list starts empty.
LEMMA InitList == DSLInit => ListInv
<1> SUFFICES ASSUME DSLInit
             PROVE  ListInv
  OBVIOUS
<1>1. [state |-> "new", call |-> 0, answer |-> 0, turn |-> 0, lost |-> FALSE] \in Thread
  BY DSLSchedulerAssumption DEF Thread, CallNumber
<1>2. DSLTypeOK
  <2>1. thread \in [Threads -> Thread]
    BY <1>1 DEF DSLInit
  <2>2. psList \in Seq(Threads) /\ calls \subseteq Call
    BY DEF DSLInit
  <2>3. dummyBit \in BOOLEAN /\ scan \in {Idle} \cup 0 .. MaxPerIteration
    BY DEF DSLInit
  <2> QED BY <2>1, <2>2, <2>3 DEF DSLTypeOK
<1>3. \A t \in Threads : thread[t].state = "new"
  BY DEF DSLInit
<1> QED BY <1>2, <1>3 DEF DSLInit, ListInv, ScanInList, ReadyAhead, TriggerSet

\* A new thread is listed.
LEMMA RequestKeepsList ==
  ASSUME ListInv, NEW t \in Threads, DSLRequest(t)
  PROVE  ListInv'
<1>1. [thread[t] EXCEPT !.state = "ready"] \in Thread
  BY DEF ListInv, DSLTypeOK, Thread
<1>2. DSLTypeOK'
  BY <1>1 DEF DSLRequest, ListInv, DSLTypeOK
<1>3. \A u \in Threads : u # t => thread'[u].state = thread[u].state
  BY DEF DSLRequest, ListInv, DSLTypeOK
<1> QED BY <1>2, <1>3, OneIsListed DEF DSLRequest

\* A thread that ends need not be listed.
LEMMA TimeOutKeepsList ==
  ASSUME ListInv, NEW t \in Threads, TimeOut(t)
  PROVE  ListInv'
<1>1. [thread[t] EXCEPT !.state = "gone"] \in Thread
  BY DEF ListInv, DSLTypeOK, Thread
<1>2. DSLTypeOK'
  BY <1>1 DEF TimeOut, ListInv, DSLTypeOK
<1>3. /\ \A u \in Threads : u # t => thread'[u].state = thread[u].state
      /\ thread'[t].state = "gone"
  BY DEF TimeOut, ListInv, DSLTypeOK, Thread
<1> QED BY <1>2, <1>3, OneIsListed DEF TimeOut

\* The loop starts in front of the list.
LEMMA StartScanKeepsList == ListInv /\ StartScan => ListInv'
<1> SUFFICES ASSUME ListInv, StartScan
             PROVE  ListInv'
  OBVIOUS
<1>1. DSLTypeOK'
  BY DSLSchedulerAssumption DEF StartScan, ListInv, DSLTypeOK
<1>2. Seen = Seen' /\ scan' # Idle
  BY DEF StartScan, Seen, Idle
<1>3. ReadyAhead'
  BY <1>2 DEF StartScan, ListInv, ReadyAhead, Ahead
<1>4. ScanInList' /\ TriggerSet'
  BY <1>2 DEF StartScan, ListInv, DSLTypeOK, ScanInList, TriggerSet
<1> QED BY <1>1, <1>3, <1>4 DEF ListInv

\* An entry that is passed over was not ready.
LEMMA SkipKeepsList == ListInv /\ SkipThread => ListInv'
<1> SUFFICES ASSUME ListInv, SkipThread
             PROVE  ListInv'
  OBVIOUS
<1>1. DSLTypeOK'
  BY ScanTypes DEF SkipThread, ListInv, DSLTypeOK
<1> QED BY <1>1, ScanMovesOn DEF SkipThread, ListInv, DSLTypeOK

\* A turn ends with the thread on the list once or twice more, or not ready.
LEMMA TurnKeepsList ==
  ASSUME ListInv, NEW t \in Threads, Runs(t), DSLTypeOK',
         NEW more \in {<<>>, <<t>>, <<t, t>>}, psList' = psList \o more,
         \A u \in Threads : u # t => thread'[u] = thread[u],
         thread'[t].state = "ready" => more = <<t>>
  PROVE  ListInv'
<1>1. psList \in Seq(Threads) /\ more \in Seq(Threads)
  BY DEF ListInv, DSLTypeOK
<1>2. Examines /\ Examined = t /\ scan' = scan + 1
  BY DEF Runs
<1>3. Len(psList') >= Len(psList) /\ \A i \in 1 .. Len(psList) : psList'[i] = psList[i]
  BY <1>1
<1>4. thread'[t].state = "ready" => Len(psList') > Len(psList) /\ psList'[Len(psList')] = t
  <2> SUFFICES ASSUME thread'[t].state = "ready"
               PROVE  Len(psList') > Len(psList) /\ psList'[Len(psList')] = t
    OBVIOUS
  <2>1. psList' = psList \o <<t>>
    OBVIOUS
  <2> QED BY <1>1, <2>1
<1> QED BY <1>2, <1>3, <1>4, ScanMovesOn

\* A thread that runs on is listed again.
LEMMA RunsOnKeepsList ==
  ASSUME ListInv, NEW t \in Threads, RunsOn(t)
  PROVE  ListInv'
<1>1. thread[t].call \in CallNumber
  BY DEF ListInv, DSLTypeOK, Thread
<1>2. /\ thread' \in [Threads -> Thread]
      /\ \A u \in Threads : u # t => thread'[u] = thread[u]
  BY <1>1, RanTypes DEF RunsOn, ListInv
<1>3. psList' = psList \o <<t>> /\ psList' \in Seq(Threads)
  <2>1. psList \in Seq(Threads)
    BY DEF ListInv, DSLTypeOK
  <2>2. psList' = Append(psList, t)
    BY DEF RunsOn
  <2> QED BY <2>1, <2>2
<1>4. DSLTypeOK'
  BY <1>2, <1>3, ScanTypes DEF RunsOn, Runs, ListInv, DSLTypeOK
<1> QED BY <1>2, <1>3, <1>4, TurnKeepsList DEF RunsOn

\* A thread that ends in its turn is not ready.
LEMMA EndsKeepsList ==
  ASSUME ListInv, NEW t \in Threads, Ends(t)
  PROVE  ListInv'
<1>1. thread[t].call \in CallNumber
  BY DEF ListInv, DSLTypeOK, Thread
<1>2. /\ thread' \in [Threads -> Thread] /\ thread'[t].state = "gone"
      /\ \A u \in Threads : u # t => thread'[u] = thread[u]
  BY <1>1, RanTypes DEF Ends, ListInv
<1>3. psList' = psList \o <<>>
  BY DEF Ends, ListInv, DSLTypeOK
<1>4. DSLTypeOK'
  BY <1>2, ScanTypes DEF Ends, Runs, ListInv, DSLTypeOK
<1> QED BY <1>2, <1>3, <1>4, TurnKeepsList DEF Ends

\* Nor is one that calls a node or asks for distances.
LEMMA CallKeepsList ==
  ASSUME ListInv, NEW t \in Threads, CallsNode(t) \/ AsksDistance(t)
  PROVE  ListInv'
<1>1. PICK kind \in {"rpc", "distance"}, goes \in BOOLEAN :
        /\ calls' = calls \cup {NewCall(t, kind, goes)} /\ NewCall(t, kind, goes) \in Call
        /\ thread' \in [Threads -> Thread] /\ thread'[t].state = "blocked"
        /\ \A u \in Threads : u # t => thread'[u] = thread[u]
  BY CallIsMade DEF ListInv
<1>2. psList' = psList \o <<t>> /\ psList' \in Seq(Threads)
  <2>1. psList \in Seq(Threads)
    BY DEF ListInv, DSLTypeOK
  <2>2. psList' = Append(psList, t)
    BY DEF CallsNode, AsksDistance
  <2> QED BY <2>1, <2>2
<1>3. Runs(t) /\ dummyBit' = dummyBit
  BY DEF CallsNode, AsksDistance
<1>4. DSLTypeOK'
  BY <1>1, <1>2, <1>3, ScanTypes DEF Runs, ListInv, DSLTypeOK
<1> QED BY <1>1, <1>2, <1>3, <1>4, TurnKeepsList

\* Nor is one whose call ended while it was made.
LEMMA AsksNoSourcesKeepsList ==
  ASSUME ListInv, NEW t \in Threads, AsksNoSources(t)
  PROVE  ListInv'
<1>1. thread[t].call + 1 \in CallNumber
  BY NewCallType DEF AsksNoSources, ListInv
<1>2. /\ thread' \in [Threads -> Thread] /\ thread'[t].state = "blocked"
      /\ \A u \in Threads : u # t => thread'[u] = thread[u]
  BY <1>1, RanTypes DEF AsksNoSources, ListInv
<1>3. psList' = psList \o <<t, t>> /\ psList' \in Seq(Threads)
  <2>1. psList \in Seq(Threads)
    BY DEF ListInv, DSLTypeOK
  <2>2. psList' = psList \o <<t, t>>
    BY DEF AsksNoSources
  <2> QED BY <2>1, <2>2
<1>4. DSLTypeOK'
  BY <1>2, <1>3, ScanTypes DEF AsksNoSources, Runs, ListInv, DSLTypeOK
<1> QED BY <1>2, <1>3, <1>4, TurnKeepsList DEF AsksNoSources

\* The erased entries are those that were seen.
LEMMA EndScanKeepsList == ListInv /\ EndScan => ListInv'
<1> SUFFICES ASSUME ListInv, EndScan
             PROVE  ListInv'
  OBVIOUS
<1>1. /\ psList \in Seq(Threads) /\ Len(psList) \in Nat
      /\ scan \in Nat /\ scan <= Len(psList) /\ Seen = scan
  BY DSLSchedulerAssumption DEF EndScan, ListInv, DSLTypeOK, ScanInList, Idle, Seen
<1>2. /\ psList' \in Seq(Threads) /\ Len(psList') = Len(psList) - scan
      /\ \A i \in 1 .. Len(psList) - scan : psList'[i] = psList[i + scan]
  BY <1>1 DEF EndScan
<1>3. DSLTypeOK'
  BY <1>2 DEF EndScan, ListInv, DSLTypeOK
<1>4. ASSUME NEW t \in Threads, thread'[t].state = "ready"
      PROVE  Ahead(t)'
  <2>1. PICK i \in 1 .. Len(psList) : i > scan /\ psList[i] = t
    BY <1>1, <1>4 DEF EndScan, ListInv, ReadyAhead, Ahead
  <2>2. i - scan \in 1 .. Len(psList') /\ i - scan > 0 /\ psList'[i - scan] = t
    BY <1>1, <1>2, <2>1
  <2> QED BY <2>2 DEF EndScan, Ahead, Seen
<1>5. TriggerSet'
  <2>1. psList' # <<>> <=> Len(psList') # 0
    BY <1>2
  <2>2. dummyBit' = (scan < Len(psList))
    BY DEF EndScan
  <2>3. (scan < Len(psList)) <=> psList' # <<>>
    BY <1>1, <1>2, <2>1
  <2> QED BY <2>2, <2>3, Zenon DEF TriggerSet
<1> QED BY <1>3, <1>4, <1>5 DEF EndScan, ListInv, ReadyAhead, ScanInList

\* A reply lists the thread it wakes.
LEMMA ReplyKeepsList ==
  ASSUME ListInv, NEW c \in calls, Reply(c)
  PROVE  ListInv'
<1>1. [c EXCEPT !.replies = @ + 1] \in Call
  BY RepliedType DEF Reply, ListInv
<1>2. /\ thread' \in [Threads -> Thread] /\ c.thread \in Threads
      /\ \A u \in Threads : u # c.thread => thread'[u] = thread[u]
      /\ psList' = Append(psList, c.thread) /\ psList' \in Seq(Threads) /\ dummyBit' = TRUE
  BY WakeTypes DEF Reply, ListInv
<1>3. DSLTypeOK'
  BY <1>1, <1>2 DEF Reply, ListInv, DSLTypeOK
<1> QED BY <1>2, <1>3, OneIsListed DEF Reply

\* So does the end of a distance call.
LEMMA DistanceKeepsList ==
  ASSUME ListInv, NEW c \in calls, DistanceReturns(c)
  PROVE  ListInv'
<1>1. CASE InTable(c.thread)
  <2>1. /\ thread' \in [Threads -> Thread] /\ c.thread \in Threads
        /\ \A u \in Threads : u # c.thread => thread'[u] = thread[u]
        /\ psList' = Append(psList, c.thread) /\ psList' \in Seq(Threads) /\ dummyBit' = TRUE
    BY <1>1, WakeTypes DEF DistanceReturns, ListInv
  <2>2. DSLTypeOK'
    BY <2>1 DEF DistanceReturns, ListInv, DSLTypeOK
  <2> QED BY <2>1, <2>2, OneIsListed DEF DistanceReturns
<1>2. CASE ~InTable(c.thread)
  BY <1>2 DEF DistanceReturns, ListInv, DSLTypeOK, ScanInList, ReadyAhead, Ahead, Seen, TriggerSet
<1> QED BY <1>1, <1>2

\* A distance call that tells nobody leaves the list.
LEMMA DistanceNothingKeepsList ==
  ASSUME ListInv, NEW c \in calls, DistanceReturnsNothing(c)
  PROVE  ListInv'
<1>1. c.thread \in Threads /\ thread[c.thread] \in Thread
  BY DEF ListInv, DSLTypeOK, Call
<1>2. /\ thread' \in [Threads -> Thread]
      /\ \A u \in Threads : thread'[u].state = thread[u].state
  BY <1>1 DEF DistanceReturnsNothing, ListInv, DSLTypeOK, Thread
<1>3. DSLTypeOK'
  BY <1>2 DEF DistanceReturnsNothing, ListInv, DSLTypeOK
<1> QED BY <1>2, <1>3
        DEF DistanceReturnsNothing, ListInv, ScanInList, ReadyAhead, Ahead, Seen, TriggerSet

\* Every step keeps the list.
LEMMA NextKeepsList == ListInv /\ [DSLNext]_dslVars => ListInv'
<1> SUFFICES ASSUME ListInv, [DSLNext]_dslVars
             PROVE  ListInv'
  OBVIOUS
<1>1. ASSUME NEW t \in Threads, DSLRequest(t) \/ TimeOut(t)
      PROVE  ListInv'
  BY <1>1, RequestKeepsList, TimeOutKeepsList
<1>2. ASSUME NEW t \in Threads,
             RunsOn(t) \/ Ends(t) \/ CallsNode(t) \/ AsksDistance(t) \/ AsksNoSources(t)
      PROVE  ListInv'
  BY <1>2, RunsOnKeepsList, EndsKeepsList, CallKeepsList, AsksNoSourcesKeepsList
<1>3. CASE ScanStep
  BY <1>2, <1>3, StartScanKeepsList, SkipKeepsList, EndScanKeepsList DEF ScanStep
<1>4. ASSUME NEW c \in calls, Reply(c) \/ DistanceReturns(c) \/ DistanceReturnsNothing(c)
      PROVE  ListInv'
  BY <1>4, ReplyKeepsList, DistanceKeepsList, DistanceNothingKeepsList
<1>5. CASE UNCHANGED dslVars
  BY <1>5 DEF dslVars, ListInv, DSLTypeOK, ScanInList, ReadyAhead, Ahead, Seen, TriggerSet
<1> QED BY <1>1, <1>3, <1>4, <1>5 DEF DSLNext

----------------------------------------------------------------------------
(* Blocked threads are awaited *)

\* A turn that does not block the thread, or after which it waits for its new call.
LEMMA TurnKeepsAwaited ==
  ASSUME DSLTypeOK, BlockedIsAwaited, NEW t \in Threads, calls \subseteq calls',
         \A u \in Threads : u # t => thread'[u] = thread[u],
         \/ thread'[t].state # "blocked"
         \/ thread'[t].lost
         \/ \E c \in calls' : /\ c.thread = t /\ c.number = thread'[t].call
                              /\ c.sent /\ c.replies = 0
  PROVE  BlockedIsAwaited'
BY DEF BlockedIsAwaited

\* A thread that runs on or ends waits for nothing.
LEMMA RunsOnKeepsAwaited ==
  ASSUME DSLTypeOK, BlockedIsAwaited, NEW t \in Threads, RunsOn(t) \/ Ends(t)
  PROVE  BlockedIsAwaited'
<1>1. thread[t].call \in CallNumber
  BY DEF DSLTypeOK, Thread
<1>2. /\ thread'[t].state \in {"ready", "gone"} /\ calls' = calls
      /\ \A u \in Threads : u # t => thread'[u] = thread[u]
  BY <1>1, RanTypes DEF RunsOn, Ends
<1> QED BY <1>2, TurnKeepsAwaited

\* A thread that blocks has its new call, or has lost it.
LEMMA CallKeepsAwaited ==
  ASSUME DSLTypeOK, BlockedIsAwaited, NEW t \in Threads, CallsNode(t) \/ AsksDistance(t)
  PROVE  BlockedIsAwaited'
<1>1. PICK kind \in {"rpc", "distance"}, goes \in BOOLEAN :
        /\ calls' = calls \cup {NewCall(t, kind, goes)}
        /\ thread'[t].call = thread[t].call + 1 /\ (goes \/ thread'[t].lost)
        /\ \A u \in Threads : u # t => thread'[u] = thread[u]
  BY CallIsMade
<1>2. CASE goes
  <2>1. /\ NewCall(t, kind, goes).thread = t /\ NewCall(t, kind, goes).replies = 0
        /\ NewCall(t, kind, goes).number = thread[t].call + 1 /\ NewCall(t, kind, goes).sent
    BY <1>2 DEF NewCall
  <2> QED BY <1>1, <2>1, TurnKeepsAwaited
<1>3. CASE thread'[t].lost
  BY <1>1, <1>3, TurnKeepsAwaited
<1> QED BY <1>1, <1>2, <1>3

\* A thread whose call ended while it was made is lost.
LEMMA NoSourcesKeepsAwaited ==
  ASSUME DSLTypeOK, BlockedIsAwaited, NEW t \in Threads, AsksNoSources(t)
  PROVE  BlockedIsAwaited'
<1>1. thread[t].call + 1 \in CallNumber
  BY NewCallType DEF AsksNoSources
<1>2. thread'[t].lost = TRUE /\ \A u \in Threads : u # t => thread'[u] = thread[u]
  BY <1>1, RanTypes DEF AsksNoSources
<1> QED BY <1>2, TurnKeepsAwaited DEF AsksNoSources

\* An answer takes a call, or a reply of it, from the thread that it wakes.
LEMMA WakeKeepsAwaited ==
  ASSUME DSLTypeOK, BlockedIsAwaited, NEW c \in calls, Wake(c), calls \ {c} \subseteq calls'
  PROVE  BlockedIsAwaited'
<1>1. /\ thread[c.thread] \in Thread /\ thread'[c.thread].state = "ready"
      /\ \A u \in Threads : u # c.thread => thread'[u] = thread[u]
  BY WakeTypes DEF DSLTypeOK, Thread
<1>2. ASSUME NEW u \in Threads, thread'[u].state = "blocked", ~thread'[u].lost
      PROVE  \E d \in calls' : /\ d.thread = u /\ d.number = thread'[u].call
                               /\ d.sent /\ d.replies = 0
  <2>1. u # c.thread /\ thread'[u] = thread[u]
    BY <1>1, <1>2
  <2>2. PICK d \in calls : /\ d.thread = u /\ d.number = thread[u].call
                           /\ d.sent /\ d.replies = 0
    BY <1>2, <2>1 DEF BlockedIsAwaited
  <2>3. d \in calls'
    BY <2>1, <2>2
  <2> QED BY <2>1, <2>2, <2>3
<1> QED BY <1>2 DEF BlockedIsAwaited

\* A call that ends wakes its thread or loses it.
LEMMA DistanceKeepsAwaited ==
  ASSUME DSLTypeOK, BlockedIsAwaited, NEW c \in calls,
         DistanceReturns(c) \/ DistanceReturnsNothing(c)
  PROVE  BlockedIsAwaited'
<1>1. c.thread \in Threads /\ calls' = calls \ {c}
  BY DEF DSLTypeOK, Call, DistanceReturns, DistanceReturnsNothing
<1>2. CASE DistanceReturns(c) /\ InTable(c.thread)
  BY <1>1, <1>2, WakeKeepsAwaited DEF DistanceReturns
<1>3. CASE DistanceReturns(c) /\ ~InTable(c.thread)
  BY <1>1, <1>3 DEF DistanceReturns, InTable, BlockedIsAwaited
<1>4. CASE DistanceReturnsNothing(c)
  <2>1. /\ thread[c.thread] \in Thread /\ thread'[c.thread].lost = TRUE
        /\ \A u \in Threads : u # c.thread => thread'[u] = thread[u]
    BY <1>1, <1>4 DEF DistanceReturnsNothing, DSLTypeOK, Thread
  <2> QED BY <1>1, <2>1 DEF BlockedIsAwaited
<1> QED BY <1>2, <1>3, <1>4

\* Requests and timeouts leave the other threads' calls.
LEMMA ElseKeepsAwaited ==
  ASSUME DSLTypeOK, BlockedIsAwaited, NEW t \in Threads, DSLRequest(t) \/ TimeOut(t)
  PROVE  BlockedIsAwaited'
<1>1. /\ thread'[t].state \in {"ready", "gone"}
      /\ \A u \in Threads : u # t => thread'[u] = thread[u]
      /\ \A d \in calls : d.thread # t => d \in calls'
  BY DEF DSLRequest, TimeOut, DSLTypeOK, Thread
<1> QED BY <1>1 DEF BlockedIsAwaited

\* Every step keeps what is awaited.
LEMMA NextKeepsAwaited == DSLTypeOK /\ BlockedIsAwaited /\ [DSLNext]_dslVars => BlockedIsAwaited'
<1> SUFFICES ASSUME DSLTypeOK, BlockedIsAwaited, [DSLNext]_dslVars
             PROVE  BlockedIsAwaited'
  OBVIOUS
<1>1. ASSUME NEW t \in Threads, DSLRequest(t) \/ TimeOut(t)
      PROVE  BlockedIsAwaited'
  BY <1>1, ElseKeepsAwaited
<1>2. ASSUME NEW t \in Threads,
             RunsOn(t) \/ Ends(t) \/ CallsNode(t) \/ AsksDistance(t) \/ AsksNoSources(t)
      PROVE  BlockedIsAwaited'
  BY <1>2, RunsOnKeepsAwaited, CallKeepsAwaited, NoSourcesKeepsAwaited
<1>3. CASE ScanStep
  <2>1. CASE StartScan \/ SkipThread \/ EndScan
    BY <2>1 DEF StartScan, SkipThread, EndScan, BlockedIsAwaited
  <2> QED BY <1>2, <1>3, <2>1 DEF ScanStep
<1>4. ASSUME NEW c \in calls, Reply(c) \/ DistanceReturns(c) \/ DistanceReturnsNothing(c)
      PROVE  BlockedIsAwaited'
  <2>1. CASE Reply(c)
    BY <2>1, WakeKeepsAwaited DEF Reply
  <2> QED BY <1>4, <2>1, DistanceKeepsAwaited
<1>5. CASE UNCHANGED dslVars
  BY <1>5 DEF dslVars, BlockedIsAwaited
<1> QED BY <1>1, <1>3, <1>4, <1>5 DEF DSLNext

\* Whatever irregular cases occur, a thread that can run on stands in the list ahead of
\* the scheduling loop, and a blocked one has a call that was sent and whose answer is
\* still to come, unless its call was not sent or has ended without a word.
THEOREM ThreadsAreNotForgotten == DSLSpec => []NoThreadForgotten
<1>1. DSLInit => ListInv /\ BlockedIsAwaited
  BY InitList DEF DSLInit, BlockedIsAwaited
<1>2. ListInv /\ BlockedIsAwaited /\ [DSLNext]_dslVars => (ListInv /\ BlockedIsAwaited)'
  BY NextKeepsList, NextKeepsAwaited DEF ListInv
<1>3. ListInv /\ BlockedIsAwaited => NoThreadForgotten
  BY ListInvSuffices DEF NoThreadForgotten, ListInv
<1> QED BY <1>1, <1>2, <1>3, PTL DEF DSLSpec

----------------------------------------------------------------------------
(* Answers are for the call that is waited for *)

\* A call in the table was made by a thread that has run, and no two have one number.
\* One that is not answered yet is the call its thread is blocked in, if that is there,
\* or the thread has left it because of a reply that came again.  A distance call goes
\* with its answer; a thread that has not run was not woken.
CallsInv ==
  /\ \A c \in calls : thread[c.thread].state # "new" /\ c.number <= thread[c.thread].call
  /\ \A c, d \in calls : c.thread = d.thread /\ c.number = d.number => c = d
  /\ \A c \in calls : c.replies = 0 /\ InTable(c.thread) =>
       \/ thread[c.thread].state = "blocked" /\ c.number = thread[c.thread].call
       \/ RepliedAgain(c.thread, c.number)
  /\ \A c \in calls : c.kind = "distance" => c.replies = 0
  /\ \A t \in Threads : thread[t].state = "new" => thread[t].answer = 0

AnswerInv == DSLTypeOK /\ CallsInv /\ AnswerIsForCall

\* A thread that is ready and has a call without an answer was given a reply again.
LEMMA ReadyLeftCall ==
  ASSUME AnswerInv, NEW t \in Threads, thread[t].state = "ready",
         NEW c \in calls, c.thread = t, c.replies = 0
  PROVE  RepliedAgain(t, c.number)
BY DEF AnswerInv, CallsInv, InTable

\* That a reply came again is not forgotten while the calls it was for are there.
LEMMA RepliedAgainStays ==
  ASSUME NEW t \in Threads, NEW n,
         \A c \in calls : c.thread = t /\ c.replies > 1 =>
           \E d \in calls' : d.thread = t /\ d.number = c.number /\ d.replies > 1,
         RepliedAgain(t, n)
  PROVE  RepliedAgain(t, n)'
BY DEF RepliedAgain

\* A turn without a call, or whose call is answered before anyone can tell.
LEMMA TurnKeepsAnswers ==
  ASSUME AnswerInv, DSLTypeOK', NEW t \in Threads, Runs(t), calls' = calls,
         \A u \in Threads : u # t => thread'[u] = thread[u],
         thread'[t].answer = 0, thread'[t].state # "new",
         thread'[t].call \in {thread[t].call, thread[t].call + 1}
  PROVE  AnswerInv'
<1>1. \A c \in calls : c.thread \in Threads /\ c.number \in Nat
  BY DSLSchedulerAssumption DEF AnswerInv, DSLTypeOK, Call, CallNumber
<1>2. thread[t].call \in Nat
  BY DSLSchedulerAssumption DEF AnswerInv, DSLTypeOK, Thread, CallNumber
<1>3. \A c \in calls : c.thread = t /\ c.replies = 0 => RepliedAgain(t, c.number)
  BY ReadyLeftCall DEF Runs
<1>4. \A c \in calls : thread'[c.thread].state # "new" /\ c.number <= thread'[c.thread].call
  <2> SUFFICES ASSUME NEW c \in calls
               PROVE  thread'[c.thread].state # "new" /\ c.number <= thread'[c.thread].call
    OBVIOUS
  <2>1. thread[c.thread].state # "new" /\ c.number <= thread[c.thread].call
    BY DEF AnswerInv, CallsInv
  <2>2. CASE c.thread = t
    BY <1>1, <1>2, <2>1, <2>2
  <2>3. CASE c.thread # t
    BY <1>1, <2>1, <2>3
  <2> QED BY <2>2, <2>3
<1>5. \A u \in Threads, n \in Nat : RepliedAgain(u, n)' <=> RepliedAgain(u, n)
  BY DEF RepliedAgain
<1>6. \A c \in calls : c.replies = 0 /\ InTable(c.thread)' =>
        \/ thread'[c.thread].state = "blocked" /\ c.number = thread'[c.thread].call
        \/ RepliedAgain(c.thread, c.number)'
  BY <1>1, <1>3, <1>5 DEF AnswerInv, CallsInv, InTable
<1>7. \A u \in Threads : thread'[u].state = "new" => thread'[u].answer = 0
  BY DEF AnswerInv, CallsInv
<1>8. CallsInv'
  BY <1>4, <1>6, <1>7 DEF AnswerInv, CallsInv
<1>9. AnswerIsForCall'
  BY DEF AnswerInv, AnswerIsForCall, RepliedAgain
<1> QED BY <1>8, <1>9 DEF AnswerInv

\* A new call is the newest of its thread.
LEMMA NewCallKeepsAnswers ==
  ASSUME AnswerInv, DSLTypeOK', NEW t \in Threads, Runs(t),
         NEW n \in calls', calls' = calls \cup {n}, n.thread = t, n.number = thread[t].call + 1,
         n.replies = 0,
         \A u \in Threads : u # t => thread'[u] = thread[u],
         thread'[t].state = "blocked", thread'[t].call = thread[t].call + 1
  PROVE  AnswerInv'
<1>1. \A c \in calls : c.thread \in Threads /\ c.number \in Nat
  BY DSLSchedulerAssumption DEF AnswerInv, DSLTypeOK, Call, CallNumber
<1>2. thread[t].call \in Nat
  BY DSLSchedulerAssumption DEF AnswerInv, DSLTypeOK, Thread, CallNumber
<1>3. \A c \in calls : c.thread = t => c.number <= thread[t].call
  BY DEF AnswerInv, CallsInv
<1>4. \A c \in calls' : thread'[c.thread].state # "new" /\ c.number <= thread'[c.thread].call
  <2> SUFFICES ASSUME NEW c \in calls'
               PROVE  thread'[c.thread].state # "new" /\ c.number <= thread'[c.thread].call
    OBVIOUS
  <2>1. CASE c.thread = t
    BY <1>1, <1>2, <1>3, <2>1
  <2>2. CASE c.thread # t
    BY <1>1, <2>2 DEF AnswerInv, CallsInv
  <2> QED BY <2>1, <2>2
<1>5. \A c, d \in calls' : c.thread = d.thread /\ c.number = d.number => c = d
  <2>1. ASSUME NEW c \in calls, c.thread = t
        PROVE  c.number # n.number
    BY <1>1, <1>2, <1>3, <2>1
  <2> QED BY <2>1 DEF AnswerInv, CallsInv
<1>6. ASSUME NEW u \in Threads, NEW m, RepliedAgain(u, m)
      PROVE  RepliedAgain(u, m)'
  BY <1>6, RepliedAgainStays
<1>7. \A c \in calls' : c.replies = 0 /\ InTable(c.thread)' =>
        \/ thread'[c.thread].state = "blocked" /\ c.number = thread'[c.thread].call
        \/ RepliedAgain(c.thread, c.number)'
  <2> SUFFICES ASSUME NEW c \in calls', c.replies = 0, InTable(c.thread)'
               PROVE  \/ thread'[c.thread].state = "blocked" /\ c.number = thread'[c.thread].call
                      \/ RepliedAgain(c.thread, c.number)'
    OBVIOUS
  <2>1. CASE c = n
    BY <2>1
  <2>2. CASE c # n /\ c.thread = t
    BY <1>6, <2>2, ReadyLeftCall DEF Runs
  <2>3. CASE c # n /\ c.thread # t
    BY <1>1, <1>6, <2>3 DEF AnswerInv, CallsInv, InTable
  <2> QED BY <2>1, <2>2, <2>3
<1>8. /\ \A c \in calls' : c.kind = "distance" => c.replies = 0
      /\ \A u \in Threads : thread'[u].state = "new" => thread'[u].answer = 0
  BY DEF AnswerInv, CallsInv
<1>9. CallsInv'
  BY <1>4, <1>5, <1>7, <1>8 DEF CallsInv
<1>10. AnswerIsForCall'
  BY <1>6 DEF AnswerInv, AnswerIsForCall
<1> QED BY <1>9, <1>10 DEF AnswerInv

\* An answer finds its thread blocked in the call it is for, or the same call or an
\* earlier one was replied to again.
LEMMA WakeKeepsAnswers ==
  ASSUME AnswerInv, DSLTypeOK', NEW c \in calls, InTable(c.thread), Wake(c),
         \/ c.kind = "distance" /\ calls' = calls \ {c}
         \/ c.kind = "rpc" /\ calls' = (calls \ {c}) \cup {[c EXCEPT !.replies = @ + 1]}
  PROVE  AnswerInv'
<1>1. /\ c.thread \in Threads
      /\ thread'[c.thread] = [thread[c.thread] EXCEPT !.state = "ready", !.answer = c.number]
      /\ \A u \in Threads : u # c.thread => thread'[u] = thread[u]
  BY WakeTypes DEF AnswerInv
<1>2. thread[c.thread] \in Thread /\ c \in Call
  BY <1>1 DEF AnswerInv, DSLTypeOK
<1>3. /\ thread'[c.thread].state = "ready" /\ thread'[c.thread].answer = c.number
      /\ thread'[c.thread].call = thread[c.thread].call
  BY <1>1, <1>2 DEF Thread
<1>4. \A d \in calls : d.thread \in Threads /\ d.number \in Nat /\ d.replies \in Nat
  BY DSLSchedulerAssumption DEF AnswerInv, DSLTypeOK, Call, CallNumber
<1> DEFINE replied == [c EXCEPT !.replies = @ + 1]
<1>5. /\ replied.thread = c.thread /\ replied.number = c.number
      /\ replied.kind = c.kind /\ replied.replies = c.replies + 1
  BY <1>2 DEF Call
<1> HIDE DEF replied
<1>6. \A d \in calls' : d \in calls \ {c} \/ (c.kind = "rpc" /\ d = replied)
  <2>1. CASE calls' = calls \ {c}
    BY <2>1
  <2>2. CASE c.kind = "rpc" /\ calls' = (calls \ {c}) \cup {replied}
    BY <2>2
  <2> QED BY <2>1, <2>2 DEF replied
<1>7. c.replies # 0 => replied \in calls'
  BY DEF AnswerInv, CallsInv, replied
<1>8. ASSUME NEW d \in calls, d.replies > 1
      PROVE  \E e \in calls' : e.thread = d.thread /\ e.number = d.number /\ e.replies > 1
  <2>1. CASE d = c
    BY <1>4, <1>5, <1>7, <1>8, <2>1
  <2>2. CASE d # c
    BY <1>8, <2>2
  <2> QED BY <2>1, <2>2
<1>9. ASSUME NEW u \in Threads, NEW n, RepliedAgain(u, n)
      PROVE  RepliedAgain(u, n)'
  BY <1>9, <1>8, RepliedAgainStays
<1>10. ASSUME c.number # thread[c.thread].call
      PROVE  RepliedAgain(c.thread, c.number)'
  <2>1. CASE c.replies = 0
    <3>1. RepliedAgain(c.thread, c.number)
      BY <1>10, <2>1 DEF AnswerInv, CallsInv
    <3> QED BY <1>1, <1>9, <3>1
  <2>2. CASE c.replies # 0
    BY <1>4, <1>5, <1>7, <2>2 DEF RepliedAgain
  <2> QED BY <2>1, <2>2
<1>11. \A d \in calls' : \E e \in calls :
        /\ d.thread = e.thread /\ d.number = e.number
        /\ d.thread \in Threads
  BY <1>4, <1>5, <1>6
<1>12. \A d \in calls' : thread'[d.thread].state # "new" /\ d.number <= thread'[d.thread].call
  <2> SUFFICES ASSUME NEW d \in calls'
               PROVE  thread'[d.thread].state # "new" /\ d.number <= thread'[d.thread].call
    OBVIOUS
  <2>1. PICK e \in calls : d.thread = e.thread /\ d.number = e.number /\ d.thread \in Threads
    BY <1>11
  <2>2. thread[d.thread].state # "new" /\ d.number <= thread[d.thread].call
    BY <2>1 DEF AnswerInv, CallsInv
  <2>3. CASE d.thread = c.thread
    BY <1>1, <1>3, <2>2, <2>3
  <2>4. CASE d.thread # c.thread
    BY <1>1, <2>1, <2>2, <2>4
  <2> QED BY <2>3, <2>4
<1>13. \A d, e \in calls' : d.thread = e.thread /\ d.number = e.number => d = e
  BY <1>5, <1>6 DEF AnswerInv, CallsInv
<1>14. \A d \in calls' : d.replies = 0 /\ InTable(d.thread)' =>
         \/ thread'[d.thread].state = "blocked" /\ d.number = thread'[d.thread].call
         \/ RepliedAgain(d.thread, d.number)'
  <2> SUFFICES ASSUME NEW d \in calls', d.replies = 0, InTable(d.thread)'
               PROVE  \/ thread'[d.thread].state = "blocked" /\ d.number = thread'[d.thread].call
                      \/ RepliedAgain(d.thread, d.number)'
    OBVIOUS
  <2>1. d \in calls /\ d # c
    BY <1>4, <1>5, <1>6
  <2>2. CASE d.thread = c.thread
    <3>1. \/ d.number = thread[c.thread].call
          \/ RepliedAgain(c.thread, d.number)
      BY <2>1, <2>2 DEF AnswerInv, CallsInv
    <3>2. CASE d.number = thread[c.thread].call
      <4>1. c.number # thread[c.thread].call /\ c.number <= d.number
        BY <2>1, <2>2, <3>2 DEF AnswerInv, CallsInv
      <4>2. RepliedAgain(c.thread, c.number)'
        BY <1>10, <4>1
      <4>3. PICK e \in calls' : e.thread = c.thread /\ e.number <= c.number /\ e.replies > 1
        BY <4>2 DEF RepliedAgain
      <4>4. e.number \in Nat
        BY <1>4, <1>11
      <4>5. e.number <= d.number
        BY <1>4, <2>1, <4>1, <4>3, <4>4
      <4> QED BY <2>2, <4>3, <4>5 DEF RepliedAgain
    <3>3. CASE RepliedAgain(c.thread, d.number)
      BY <1>1, <1>9, <2>2, <3>3
    <3> QED BY <3>1, <3>2, <3>3
  <2>3. CASE d.thread # c.thread
    <3>1. thread'[d.thread] = thread[d.thread]
      BY <1>1, <1>4, <2>1, <2>3
    <3>2. InTable(d.thread)
      <4>1. thread'[d.thread].state \in {"ready", "blocked"}
        BY DEF InTable
      <4> QED BY <3>1, <4>1 DEF InTable
    <3>3. \/ thread[d.thread].state = "blocked" /\ d.number = thread[d.thread].call
          \/ RepliedAgain(d.thread, d.number)
      BY <2>1, <3>2 DEF AnswerInv, CallsInv
    <3> QED BY <1>4, <1>9, <2>1, <3>1, <3>3
  <2> QED BY <2>2, <2>3
<1>15. CallsInv'
  <2>1. \A d \in calls' : d.kind = "distance" => d.replies = 0
    <3>1. \A d \in calls : d.kind = "distance" => d.replies = 0
      BY DEF AnswerInv, CallsInv
    <3>2. ~ (c.kind = "rpc" /\ replied.kind = "distance")
      BY <1>5
    <3> QED BY <1>6, <3>1, <3>2
  <2>2. ASSUME NEW u \in Threads, thread'[u].state = "new"
        PROVE  thread'[u].answer = 0
    <3>1. thread'[u] = thread[u]
      BY <1>1, <1>3, <2>2
    <3>2. \A v \in Threads : thread[v].state = "new" => thread[v].answer = 0
      BY DEF AnswerInv, CallsInv
    <3> QED BY <2>2, <3>1, <3>2
  <2> QED BY <1>12, <1>13, <1>14, <2>1, <2>2 DEF CallsInv
<1>16. AnswerIsForCall'
  <2> SUFFICES ASSUME NEW u \in Threads, thread'[u].state = "ready",
                      thread'[u].answer \notin {0, thread'[u].call}
               PROVE  \E e \in calls' : /\ e.thread = u /\ e.number <= thread'[u].answer
                                       /\ e.replies > 1
    BY DEF AnswerIsForCall, RepliedAgain
  <2>1. CASE u = c.thread
    BY <1>3, <1>10, <2>1 DEF RepliedAgain
  <2>2. CASE u # c.thread
    <3>1. thread'[u] = thread[u]
      BY <1>1, <2>2
    <3>2. PICK d \in calls : d.thread = u /\ d.number <= thread[u].answer /\ d.replies > 1
      BY <3>1 DEF AnswerInv, AnswerIsForCall, RepliedAgain
    <3> QED BY <1>8, <3>1, <3>2
  <2> QED BY <2>1, <2>2
<1> QED BY <1>15, <1>16 DEF AnswerInv

\* A step that wakes no thread and makes no call, and leaves what is replied to again.
LEMMA LossKeepsAnswers ==
  ASSUME AnswerInv, DSLTypeOK', calls' \subseteq calls,
         \A c \in calls : c.replies > 1 /\ InTable(c.thread)' => c \in calls',
         \A u \in Threads : /\ thread'[u].call = thread[u].call
                            /\ thread'[u].answer = thread[u].answer
                            /\ thread'[u].state = thread[u].state \/ thread'[u].state = "gone"
  PROVE  AnswerInv'
<1>1. \A c \in calls : c.thread \in Threads
  BY DEF AnswerInv, DSLTypeOK, Call
<1>2. ASSUME NEW u \in Threads, NEW n, InTable(u)', RepliedAgain(u, n)
      PROVE  RepliedAgain(u, n)'
  BY <1>2, RepliedAgainStays
<1>3. CallsInv'
  BY <1>1, <1>2 DEF AnswerInv, CallsInv, InTable
<1>4. AnswerIsForCall'
  BY <1>2 DEF AnswerInv, AnswerIsForCall, InTable
<1> QED BY <1>3, <1>4 DEF AnswerInv

\* A turn of a thread keeps the numbers of the answers.
LEMMA ScanKeepsAnswers ==
  ASSUME ListInv, AnswerInv, DSLTypeOK', NEW t \in Threads,
         RunsOn(t) \/ Ends(t) \/ CallsNode(t) \/ AsksDistance(t) \/ AsksNoSources(t)
  PROVE  AnswerInv'
<1>1. thread[t].call \in CallNumber
  BY DEF AnswerInv, DSLTypeOK, Thread
<1>2. CASE RunsOn(t) \/ Ends(t)
  <2>1. /\ thread'[t].state \in {"ready", "gone"} /\ thread'[t].answer = 0
        /\ thread'[t].call = thread[t].call
        /\ \A u \in Threads : u # t => thread'[u] = thread[u]
    BY <1>1, <1>2, RanTypes DEF RunsOn, Ends, AnswerInv
  <2> QED BY <1>2, <2>1, TurnKeepsAnswers DEF RunsOn, Ends
<1>3. CASE AsksNoSources(t)
  <2>1. thread[t].call + 1 \in CallNumber
    BY <1>3, NewCallType DEF AsksNoSources, AnswerInv
  <2>2. /\ thread'[t].state = "blocked" /\ thread'[t].answer = 0
        /\ thread'[t].call = thread[t].call + 1
        /\ \A u \in Threads : u # t => thread'[u] = thread[u]
    BY <1>3, <2>1, RanTypes DEF AsksNoSources, AnswerInv
  <2> QED BY <1>3, <2>2, TurnKeepsAnswers DEF AsksNoSources
<1>4. CASE CallsNode(t) \/ AsksDistance(t)
  <2>1. PICK kind \in {"rpc", "distance"}, goes \in BOOLEAN :
          /\ calls' = calls \cup {NewCall(t, kind, goes)}
          /\ thread'[t].state = "blocked" /\ thread'[t].call = thread[t].call + 1
          /\ \A u \in Threads : u # t => thread'[u] = thread[u]
    BY <1>4, CallIsMade DEF AnswerInv
  <2>2. NewCall(t, kind, goes).thread = t /\ NewCall(t, kind, goes).number = thread[t].call + 1
        /\ NewCall(t, kind, goes).replies = 0 /\ NewCall(t, kind, goes) \in calls'
    BY <2>1 DEF NewCall
  <2>3. Runs(t)
    BY <1>4 DEF CallsNode, AsksDistance
  <2> QED BY <2>1, <2>2, <2>3, NewCallKeepsAnswers
<1> QED BY <1>2, <1>3, <1>4

\* So does the answer to a call, whether it comes once or again.
LEMMA ReturnKeepsAnswers ==
  ASSUME AnswerInv, DSLTypeOK', NEW c \in calls,
         Reply(c) \/ DistanceReturns(c) \/ DistanceReturnsNothing(c)
  PROVE  AnswerInv'
<1>1. c \in Call /\ c.thread \in Threads
  BY DEF AnswerInv, DSLTypeOK, Call
<1>2. CASE Reply(c)
  BY <1>2, WakeKeepsAnswers DEF Reply
<1>3. CASE DistanceReturns(c) /\ InTable(c.thread)
  BY <1>3, WakeKeepsAnswers DEF DistanceReturns
<1>4. c.kind = "distance" => ~ (c.replies > 1)
  BY DEF AnswerInv, CallsInv
<1>5. CASE DistanceReturns(c) /\ ~InTable(c.thread)
  BY <1>4, <1>5, LossKeepsAnswers DEF DistanceReturns
<1>6. CASE DistanceReturnsNothing(c)
  <2>1. \A u \in Threads : thread'[u].call = thread[u].call
          /\ thread'[u].answer = thread[u].answer /\ thread'[u].state = thread[u].state
    BY <1>1, <1>6 DEF DistanceReturnsNothing, AnswerInv, DSLTypeOK, Thread
  <2> QED BY <1>4, <1>6, <2>1, LossKeepsAnswers DEF DistanceReturnsNothing
<1> QED BY <1>2, <1>3, <1>5, <1>6

\* So do requests and timeouts.
LEMMA ElseKeepsAnswers ==
  ASSUME AnswerInv, DSLTypeOK', NEW t \in Threads, DSLRequest(t) \/ TimeOut(t)
  PROVE  AnswerInv'
<1>1. CASE TimeOut(t)
  <2>1. calls' \subseteq calls /\ \A c \in calls : c.thread # t => c \in calls'
    BY <1>1 DEF TimeOut
  <2>2. thread'[t].state = "gone"
    BY <1>1 DEF TimeOut, AnswerInv, DSLTypeOK, Thread
  <2>3. \A c \in calls : InTable(c.thread)' => c \in calls'
    BY <2>1, <2>2 DEF InTable
  <2>4. \A u \in Threads : /\ thread'[u].call = thread[u].call
                           /\ thread'[u].answer = thread[u].answer
                           /\ thread'[u].state = thread[u].state \/ thread'[u].state = "gone"
    BY <1>1 DEF TimeOut, AnswerInv, DSLTypeOK, Thread
  <2> QED BY <2>1, <2>3, <2>4, LossKeepsAnswers
<1>2. CASE DSLRequest(t)
  <2>1. /\ thread[t].state = "new" /\ calls' = calls /\ thread[t].answer = 0
        /\ thread'[t].answer = 0 /\ thread'[t].state = "ready"
        /\ \A u \in Threads : u # t => thread'[u] = thread[u]
    BY <1>2 DEF DSLRequest, AnswerInv, CallsInv, DSLTypeOK, Thread
  <2>2. \A c \in calls : c.thread \in Threads /\ c.thread # t
    BY <2>1 DEF AnswerInv, CallsInv, DSLTypeOK, Call
  <2> QED BY <2>1, <2>2 DEF AnswerInv, CallsInv, InTable, AnswerIsForCall, RepliedAgain
<1> QED BY <1>1, <1>2

\* Every step keeps them.
LEMMA NextKeepsAnswers ==
  ASSUME ListInv, AnswerInv, [DSLNext]_dslVars
  PROVE  AnswerInv'
<1>1. DSLTypeOK'
  BY NextKeepsList DEF ListInv
<1>2. ASSUME NEW t \in Threads, DSLRequest(t) \/ TimeOut(t)
      PROVE  AnswerInv'
  BY <1>1, <1>2, ElseKeepsAnswers
<1>3. CASE ScanStep
  <2>1. CASE StartScan \/ SkipThread \/ EndScan
    BY <1>1, <2>1 DEF StartScan, SkipThread, EndScan, AnswerInv, CallsInv, InTable,
                      AnswerIsForCall, RepliedAgain
  <2> QED BY <1>1, <1>3, <2>1, ScanKeepsAnswers DEF ScanStep
<1>4. ASSUME NEW c \in calls, Reply(c) \/ DistanceReturns(c) \/ DistanceReturnsNothing(c)
      PROVE  AnswerInv'
  BY <1>1, <1>4, ReturnKeepsAnswers
<1>5. CASE UNCHANGED dslVars
  BY <1>1, <1>5 DEF dslVars, AnswerInv, CallsInv, InTable, AnswerIsForCall, RepliedAgain
<1> QED BY <1>2, <1>3, <1>4, <1>5 DEF DSLNext

\* No thread has an answer at the start.
LEMMA InitAnswers == DSLInit => AnswerInv
BY InitList DEF DSLInit, ListInv, AnswerInv, CallsInv, AnswerIsForCall

\* However often the network delivers a reply and whatever irregular cases occur, a
\* thread that was woken finds the answer to the call it is in, or a reply to the call
\* that was answered, or to one before it, came more than once.
THEOREM AnswersAreForTheirCall == DSLSpec => []AnswerIsForCall
<1>1. DSLInit => ListInv /\ AnswerInv
  BY InitList, InitAnswers
<1>2. ListInv /\ AnswerInv /\ [DSLNext]_dslVars => (ListInv /\ AnswerInv)'
  BY NextKeepsList, NextKeepsAnswers
<1>3. AnswerInv => AnswerIsForCall
  BY DEF AnswerInv
<1> QED BY <1>1, <1>2, <1>3, PTL DEF DSLSpec
=============================================================================
