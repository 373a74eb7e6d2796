-------------------------- MODULE ProbeConnections --------------------------
(***************************************************************************)
(* The sockets of TCP and DNS probes: ProbeQueryTCP and ProbeQueryDNS keep *)
(* the descriptor of their connection, MeridianProcess keeps the maps from *)
(* descriptors to probes and the select sets, and the kernel gives out the *)
(* lowest descriptor that is free.                                         *)
(***************************************************************************)
EXTENDS Integers, FiniteSets

CONSTANTS
  TCPProbes, DNSProbes,
  MaxFD,          \* bound: descriptors are 1 .. MaxFD
  None

ASSUME ProbeConnectionsAssumption ==
  /\ MaxFD \in Nat
  /\ TCPProbes \cap DNSProbes = {}
  /\ None \notin TCPProbes \cup DNSProbes

VARIABLES
  probe,          \* the queries: their state and sockFD
  tcp, dns,       \* g_tcpProbeConnections, g_dnsProbeConnections: fd -> probe
  writeSet, readSet,   \* the bits of g_writeSet and g_readSet
  socket          \* the kernel's side of each descriptor

connVars == <<probe, tcp, dns, writeSet, readSet, socket>>

Probes == TCPProbes \cup DNSProbes
FDs == 1 .. MaxFD
NoFD == -1
Free == {fd \in FDs : socket[fd] = "closed"}
Lowest(fds) == CHOOSE fd \in fds : \A other \in fds : fd <= other

Init ==
  /\ probe = [p \in Probes |-> [state |-> "unborn", sockFD |-> NoFD]]
  /\ tcp = [fd \in FDs |-> None]
  /\ dns = [fd \in FDs |-> None]
  /\ writeSet = {}
  /\ readSet = {}
  /\ socket = [fd \in FDs |-> "closed"]

Born(p, fd) == probe' = [probe EXCEPT ![p] = [state |-> "waiting", sockFD |-> fd]]

----------------------------------------------------------------------------
(* init of a probe *)

\* No descriptor, or connect or send fails at once: sockFD is -1 and the query
\* waits for its timeout.
ProbeFailsAtOnce(p) ==
  /\ probe[p].state = "unborn"
  /\ Born(p, NoFD)
  /\ UNCHANGED <<tcp, dns, writeSet, readSet, socket>>

AddTCPConnection(p) ==
  /\ p \in TCPProbes /\ probe[p].state = "unborn" /\ Free # {}
  /\ LET fd == Lowest(Free) IN
     /\ Born(p, fd)
     /\ tcp' = [tcp EXCEPT ![fd] = p]
     /\ writeSet' = writeSet \cup {fd}
     /\ socket' = [socket EXCEPT ![fd] = "pending"]
  /\ UNCHANGED <<dns, readSet>>

AddDNSConnection(p) ==
  /\ p \in DNSProbes /\ probe[p].state = "unborn" /\ Free # {}
  /\ LET fd == Lowest(Free) IN
     /\ Born(p, fd)
     /\ dns' = [dns EXCEPT ![fd] = p]
     /\ readSet' = readSet \cup {fd}
     /\ socket' = [socket EXCEPT ![fd] = "pending"]
  /\ UNCHANGED <<tcp, writeSet>>

\* The connect completes or is refused, or the DNS answer arrives.
NetworkAnswers(fd) ==
  /\ socket[fd] = "pending"
  /\ \E end \in {"up"} \cup (IF tcp[fd] # None THEN {"refused"} ELSE {}) :
       socket' = [socket EXCEPT ![fd] = end]
  /\ UNCHANGED <<probe, tcp, dns, writeSet, readSet>>

----------------------------------------------------------------------------
(* The event loop's handlers *)

\* Faulty variant: the descriptors are closed but stay in the select set.
EraseTCPOnly(fds) ==
  /\ tcp' = [fd \in FDs |-> IF fd \in fds THEN None ELSE tcp[fd]]
  /\ writeSet' = writeSet
  /\ socket' = [fd \in FDs |-> IF fd \in fds THEN "closed" ELSE socket[fd]]

EraseTCPConnections(fds) ==
  /\ tcp' = [fd \in FDs |-> IF fd \in fds THEN None ELSE tcp[fd]]
  /\ writeSet' = writeSet \ fds
  /\ socket' = [fd \in FDs |-> IF fd \in fds THEN "closed" ELSE socket[fd]]

EraseDNSConnections(fds) ==
  /\ dns' = [fd \in FDs |-> IF fd \in fds THEN None ELSE dns[fd]]
  /\ readSet' = readSet \ fds
  /\ socket' = [fd \in FDs |-> IF fd \in fds THEN "closed" ELSE socket[fd]]

\* notifyQLatency: a query that is still in the table gets its answer and ends.
Answered(answered) ==
  probe' = [p \in Probes |->
    IF p \in answered THEN [probe[p] EXCEPT !.state = "done"] ELSE probe[p]]

\* Every descriptor select found writable: those that are connected answer their
\* probe, then all are erased.
HandleTCPConnections(ready) ==
  /\ ready # {}
  /\ ready \subseteq {fd \in FDs : tcp[fd] # None /\ socket[fd] \in {"up", "refused"}}
  /\ Answered({tcp[fd] : fd \in {f \in ready : socket[f] = "up"}})
  /\ EraseTCPConnections(ready)
  /\ UNCHANGED <<dns, readSet>>

HandleDNSConnections(ready) ==
  /\ ready # {}
  /\ ready \subseteq {fd \in FDs : dns[fd] # None /\ socket[fd] = "up"}
  /\ Answered({dns[fd] : fd \in ready})
  /\ EraseDNSConnections(ready)
  /\ UNCHANGED <<tcp, writeSet>>

\* Faulty variant: the timeout erases whatever has the descriptor.
TimeoutErasesBoth(p) ==
  /\ p \in TCPProbes /\ probe[p].state = "waiting"
  /\ Answered({p})
  /\ LET fd == probe[p].sockFD IN
     IF fd = NoFD THEN UNCHANGED <<tcp, writeSet, dns, readSet, socket>>
     ELSE /\ tcp' = [tcp EXCEPT ![fd] = None]
          /\ dns' = [dns EXCEPT ![fd] = None]
          /\ writeSet' = writeSet \ {fd}
          /\ readSet' = readSet \ {fd}
          /\ socket' = [socket EXCEPT ![fd] = "closed"]

\* Faulty variant: a probe that has no connection is left for its answer.
TimeoutIfConnected(p) ==
  /\ p \in TCPProbes /\ probe[p].state = "waiting"
  /\ probe[p].sockFD # NoFD
  /\ Answered({p})
  /\ IF tcp[probe[p].sockFD] # None
     THEN EraseTCPConnections({probe[p].sockFD})
     ELSE UNCHANGED <<tcp, writeSet, socket>>
  /\ UNCHANGED <<dns, readSet>>

\* Faulty variant: the query ends without its connection.
TimeoutTCPKeeps(p) ==
  /\ p \in TCPProbes /\ probe[p].state = "waiting"
  /\ Answered({p})
  /\ UNCHANGED <<tcp, dns, writeSet, readSet, socket>>

\* handleTimeout: eraseTCPConnection(sockFD), which does nothing if the descriptor
\* is not in the map.
TimeoutTCP(p) ==
  /\ p \in TCPProbes /\ probe[p].state = "waiting"
  /\ Answered({p})
  /\ LET fd == probe[p].sockFD IN
     IF fd # NoFD /\ tcp[fd] # None
     THEN EraseTCPConnections({fd})
     ELSE UNCHANGED <<tcp, writeSet, socket>>
  /\ UNCHANGED <<dns, readSet>>

TimeoutDNS(p) ==
  /\ p \in DNSProbes /\ probe[p].state = "waiting"
  /\ Answered({p})
  /\ LET fd == probe[p].sockFD IN
     IF fd # NoFD /\ dns[fd] # None
     THEN EraseDNSConnections({fd})
     ELSE UNCHANGED <<dns, readSet, socket>>
  /\ UNCHANGED <<tcp, writeSet>>

Timeout == \E p \in Probes : TimeoutTCP(p) \/ TimeoutDNS(p)

Next ==
  \/ \E p \in Probes : \/ ProbeFailsAtOnce(p)
                       \/ AddTCPConnection(p)
                       \/ AddDNSConnection(p)
  \/ \E fd \in FDs : NetworkAnswers(fd)
  \/ \E ready \in SUBSET FDs : \/ HandleTCPConnections(ready)
                               \/ HandleDNSConnections(ready)
  \/ Timeout

Spec == Init /\ [][Next]_connVars

\* Timeouts always come; the network need not answer.
FairSpec == Spec /\ WF_connVars(Timeout)

----------------------------------------------------------------------------
(* Properties *)

TypeOK ==
  /\ probe \in [Probes -> [state : {"unborn", "waiting", "done"}, sockFD : FDs \cup {NoFD}]]
  /\ tcp \in [FDs -> TCPProbes \cup {None}]
  /\ dns \in [FDs -> DNSProbes \cup {None}]
  /\ writeSet \subseteq FDs /\ readSet \subseteq FDs
  /\ socket \in [FDs -> {"closed", "pending", "up", "refused"}]

\* select is asked about exactly the sockets that are open: a closed one left in a
\* set makes it fail with EBADF and start() return (MeridianProcess.cpp:1108), one
\* that is missing is never heard of again; and no descriptor is in both maps.
SelectsOpenSockets ==
  \A fd \in FDs :
    /\ (fd \in writeSet) = (tcp[fd] # None)
    /\ (fd \in readSet) = (dns[fd] # None)
    /\ (socket[fd] # "closed") = (fd \in writeSet \cup readSet)
    /\ ~(fd \in writeSet /\ fd \in readSet)

\* The state is well-formed and select is asked about the open sockets.
ConnectionsConsistent == TypeOK /\ SelectsOpenSockets

\* A connection in a map belongs to a probe that still waits, and to that probe
\* alone: when the probe ends, by an answer or by its timeout, its descriptor is
\* given back, so probing never runs the process out of descriptors.
NoConnectionOutlivesProbe ==
  \A fd \in FDs, p \in Probes :
    tcp[fd] = p \/ dns[fd] = p => probe[p].state = "waiting" /\ probe[p].sockFD = fd

\* A DNS connection goes with its own answer or its own timeout, although TCP
\* probes keep stale descriptors that are taken again.
DNSConnectionIsOwn ==
  [][\A fd \in FDs : dns[fd] # None /\ dns'[fd] # dns[fd] =>
       probe[dns[fd]].state = "waiting" /\ probe'[dns[fd]].state = "done"]_connVars

\* "It might have been deleted already (tcp connect failed), so if it is not in the
\* map, don't do anything": a probe's timeout erases no other probe's connection.
TimeoutErasesOwnOnly ==
  [][\A p \in TCPProbes : TimeoutTCP(p) =>
       \A fd \in FDs : tcp[fd] \notin {None, p} => tcp'[fd] = tcp[fd]]_connVars

\* Every probe ends.
EveryProbeEnds == \A p \in Probes : probe[p].state = "waiting" ~> probe[p].state = "done"

=============================================================================
