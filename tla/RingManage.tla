----------------------------- MODULE RingManage -----------------------------
(***************************************************************************)
(* Ring management (class RingManageQuery): a node dumps and freezes one   *)
(* ring, asks its members to measure each other, and after all reports, or *)
(* at the timeout, evicts the silent ones and installs the members that    *)
(* span the largest volume as the ring's primaries.  The query runs for    *)
(* seconds while every other RingSet call goes on around it.               *)
(*                                                                         *)
(* Only the choice among full reports (reduceSetByN: the hypervolume) is   *)
(* left open: any PrimarySize of the candidates can be chosen.             *)
(***************************************************************************)
EXTENDS RingSet

VARIABLES
  managed,        \* the rings with a RingManageQuery in the query table
  remoteNodes,    \* its candidates, per ring
  asked,          \* the members a REQ_MEASURE_PING was sent to
  RetNodeMap      \* reporter -> nodes it has a latency for

queryVars == <<managed, remoteNodes, asked, RetNodeMap>>
manageVars == <<ringVars, queryVars>>

NoReports == [n \in {} |-> {}]

ManageInit ==
  /\ Init
  /\ managed = {}
  /\ remoteNodes = [r \in Rings |-> {}]
  /\ asked = [r \in Rings |-> {}]
  /\ RetNodeMap = [r \in Rings |-> NoReports]

----------------------------------------------------------------------------
(* performRingManagement: every ring is tested, and swapped on the way, and *)
(* one eligible ring gets a query (constructor and init)                    *)

Swappable(rg) == Replaceable(rg) /\ numEligible(rg) = PrimarySize

AfterSwap(r) ==
  IF ~ringFrozen[r] /\ Swappable(ring[r])
  THEN SwappedRing(ring[r],
         CHOOSE f \in [ClosedIn(ring[r].prim) -> OpenIn(ring[r].sec)] :
           Pairing(ring[r], f))
  ELSE ring[r]

\* Only the members that need no rendezvous are asked, about one another.
StartQuery(r) ==
  /\ eligibleForReplacement(r)
  /\ ring' = [q \in Rings |-> AfterSwap(q)]
  /\ ringFrozen' = [ringFrozen EXCEPT ![r] = TRUE]
  /\ managed' = managed \cup {r}
  /\ remoteNodes' = [remoteNodes EXCEPT ![r] = Members(ring[r])]
  /\ asked' = [asked EXCEPT ![r] = {n \in Members(ring[r]) : ~Firewalled(n)}]
  /\ RetNodeMap' = [RetNodeMap EXCEPT ![r] = NoReports]
  /\ UNCHANGED <<nodeLatencyUS, rendvMapping>>

NothingEligible ==
  /\ \A r \in Rings : ~eligibleForReplacement(r)
  /\ ring' = [q \in Rings |-> AfterSwap(q)]
  /\ UNCHANGED <<ringFrozen, nodeLatencyUS, rendvMapping, queryVars>>

performRingManagement == NothingEligible \/ \E r \in Rings : StartQuery(r)

----------------------------------------------------------------------------
(* performReplacement *)

Orders(S) == {s \in [1 .. Cardinality(S) -> S] : Elems(s) = S}

\* removeCandidateNode on the reports.
Without(reports, S) == [n \in DOMAIN reports \ S |-> reports[n] \ S]

\* Candidates that lack a latency to some other candidate, and the worst.
Incomplete(reports) ==
  {n \in DOMAIN reports : Cardinality(reports[n]) + 1 < Cardinality(DOMAIN reports)}
Worst(reports) ==
  {n \in Incomplete(reports) : \A m \in Incomplete(reports) :
     Cardinality(reports[n]) <= Cardinality(reports[m])}

\* What is left of the reports when the first k nodes of an order are dropped.
Left(reports, dropped, k) == Without(reports, {dropped[i] : i \in 1 .. k})

Suffices(reports) == Cardinality(DOMAIN reports) > PrimarySize

\* The loop that drops the worst node until the matrix is full or too few
\* candidates are left.  Ties fall by node identifier, left open here.
DropOrders(reports) ==
  {d \in UNION {Orders(S) : S \in SUBSET DOMAIN reports} :
     /\ \A k \in 1 .. Len(d) : /\ Suffices(Left(reports, d, k - 1))
                              /\ d[k] \in Worst(Left(reports, d, k - 1))
     /\ Suffices(Left(reports, d, Len(d))) => Incomplete(Left(reports, d, Len(d))) = {}}

\* reduceSetByN keeps PrimarySize of the candidates and appends the others to
\* the dropped nodes.
Reductions(kept, dropped) ==
  {[prim |-> c[1], sec |-> dropped \o c[2]] :
     c \in UNION {Orders(S) \X Orders(kept \ S) :
                  S \in {S \in SUBSET kept : Cardinality(S) = PrimarySize}}}

\* The rings performReplacement can leave.
Replacements(rg, reports) ==
  UNION {IF Suffices(Left(reports, d, Len(d)))
         THEN {SetMembers(rg, n.prim, n.sec) : n \in Reductions(DOMAIN reports \ Elems(d), d)}
         ELSE {rg} :
         d \in DropOrders(reports)}

----------------------------------------------------------------------------
(* handleEvent: a RET_PING of a member that has not reported yet.  Targets *)
(* that timed out are missing from it; others are not candidates.          *)

EndQuery(r) ==
  /\ managed' = managed \ {r}
  /\ ringFrozen' = [ringFrozen EXCEPT ![r] = FALSE]
  /\ remoteNodes' = [remoteNodes EXCEPT ![r] = {}]
  /\ asked' = [asked EXCEPT ![r] = {}]
  /\ RetNodeMap' = [RetNodeMap EXCEPT ![r] = NoReports]

Reported(r, n, seen) ==
  [m \in DOMAIN RetNodeMap[r] \cup {n} |-> IF m = n THEN seen ELSE RetNodeMap[r][m]]

Report(r, n, seen) ==
  /\ r \in managed
  /\ n \in asked[r] \ DOMAIN RetNodeMap[r]
  /\ LET reports == Reported(r, n, seen)
     IN  IF DOMAIN reports = remoteNodes[r]
         THEN /\ \E rg \in Replacements(ring[r], reports) :
                   ring' = [ring EXCEPT ![r] = rg]
              /\ EndQuery(r)
         ELSE /\ RetNodeMap' = [RetNodeMap EXCEPT ![r] = reports]
              /\ UNCHANGED <<ring, ringFrozen, managed, remoteNodes, asked>>
  /\ UNCHANGED <<nodeLatencyUS, rendvMapping>>

----------------------------------------------------------------------------
(* handleTimeout: members that did not report are erased, the others are   *)
(* the candidates of the replacement                                       *)

Silent(r) == remoteNodes[r] \ DOMAIN RetNodeMap[r]

EraseAll(rg, order) ==
  LET left[k \in 0 .. Len(order)] ==
        IF k = 0 THEN rg ELSE EraseFromRing(left[k - 1], order[k])
  IN  left[Len(order)]

\* Faulty variant: the ring is thawed after the erasures, which it refuses.
TimeoutErasingFrozen(r) ==
  /\ r \in managed
  /\ \E rg \in Replacements(ring[r], Without(RetNodeMap[r], Silent(r))) :
       ring' = [ring EXCEPT ![r] = rg]
  /\ EndQuery(r)
  /\ UNCHANGED <<nodeLatencyUS, rendvMapping>>

\* Faulty variant: those who did report are erased with the others.
TimeoutErasingReporters(r) ==
  /\ r \in managed
  /\ \E order \in Orders(remoteNodes[r]) :
       ring' = [ring EXCEPT ![r] = EraseAll(@, order)]
  /\ nodeLatencyUS' = [n \in Nodes |->
       IF n \in remoteNodes[r] THEN Absent ELSE nodeLatencyUS[n]]
  /\ rendvMapping' = [n \in Nodes |->
       IF n \in remoteNodes[r] THEN NoRendv ELSE rendvMapping[n]]
  /\ EndQuery(r)

\* Faulty variant: a query nobody has reported to waits on.
TimeoutWaitingOn(r) ==
  /\ r \in managed /\ RetNodeMap[r] # NoReports
  /\ LET reports == Without(RetNodeMap[r], Silent(r))
     IN  \E order \in Orders(Silent(r)) :
           \E rg \in Replacements(EraseAll(ring[r], order), reports) :
             ring' = [ring EXCEPT ![r] = rg]
  /\ nodeLatencyUS' = [n \in Nodes |->
       IF n \in Silent(r) THEN Absent ELSE nodeLatencyUS[n]]
  /\ rendvMapping' = [n \in Nodes |->
       IF n \in Silent(r) THEN NoRendv ELSE rendvMapping[n]]
  /\ EndQuery(r)

Timeout(r) ==
  /\ r \in managed
  /\ LET reports == Without(RetNodeMap[r], Silent(r))
     IN  \E order \in Orders(Silent(r)) :
           \E rg \in Replacements(EraseAll(ring[r], order), reports) :
             ring' = [ring EXCEPT ![r] = rg]
  /\ nodeLatencyUS' = [n \in Nodes |->
       IF n \in Silent(r) THEN Absent ELSE nodeLatencyUS[n]]
  /\ rendvMapping' = [n \in Nodes |->
       IF n \in Silent(r) THEN NoRendv ELSE rendvMapping[n]]
  /\ EndQuery(r)

----------------------------------------------------------------------------
(* The other queries of the process insert and erase nodes at any time.    *)

OtherQueries ==
  /\ \/ \E n \in Nodes, l \in LatenciesUS, rend \in Rendvs \cup {NoRendv} :
          insertNode(n, l, rend)
     \/ \E n \in Nodes : eraseNode(n)
  /\ UNCHANGED queryVars

ManageNext ==
  \/ OtherQueries
  \/ performRingManagement
  \/ \E r \in Rings, n \in Nodes :
       \E seen \in SUBSET (asked[r] \ {n}) : Report(r, n, seen)
  \/ \E r \in Rings : Timeout(r)

ManageSpec == ManageInit /\ [][ManageNext]_manageVars

\* The event loop runs every query's timeout once it is due.
FairManageSpec == ManageSpec /\ \A r \in Rings : WF_manageVars(Timeout(r))

----------------------------------------------------------------------------
(* Properties *)

ManageTypeOK ==
  /\ TypeOK
  /\ managed \subseteq Rings
  /\ remoteNodes \in [Rings -> SUBSET Nodes]
  /\ asked \in [Rings -> SUBSET Nodes]
  /\ \A r \in Rings : DOMAIN RetNodeMap[r] \subseteq Nodes

\* A ring is frozen exactly while one query manages it, and the candidates
\* the query dumped at its start are still the ring's members: what
\* performReplacement computes from old reports fits the ring it is put in.
DumpStaysCurrent ==
  \A r \in Rings :
    /\ ringFrozen[r] <=> r \in managed
    /\ r \in managed =>
         /\ remoteNodes[r] = Members(ring[r])
         /\ DOMAIN RetNodeMap[r] \subseteq remoteNodes[r]

\* Ring management, with its partial reports, dropped nodes and evictions,
\* leaves the rings consistent (the asserts of RingSet.cpp:50,135,152).
RingsConsistent ==
  ManageTypeOK /\ RingsMatchLatencies /\ NoDuplicates /\ PrimaryFilledFirst

\* No member that reported is lost, however incomplete its report: the
\* dropped candidates come back as secondaries (removedNodes), and the
\* promotions and evictions of the timeout do not reach it.
ReportersStay ==
  [][\A r \in managed \ managed' :
       DOMAIN RetNodeMap[r] \subseteq Members(ring'[r])]_manageVars

\* handleTimeout thaws the ring before it erases, so no silent member is
\* left in it ("Did not receive response back from node, delete it",
\* Query.cpp:400), not even by the replacement that follows.
SilentLeave ==
  [][\A r \in Rings : Timeout(r) => Silent(r) \cap Members(ring'[r]) = {}]_manageVars

\* A frozen ring is always thawed again: the query ends by its timeout at
\* the latest, on every path of its handlers.
RingThaws == \A r \in Rings : ringFrozen[r] ~> ~ringFrozen[r]

\* Firewalled nodes "do not participate in the ring management protocol"
\* (README:38): the end of a query evicts only members it sent a request to.
OnlyAskedEvicted ==
  [][\A r \in managed \ managed' :
       Members(ring[r]) \ asked[r] \subseteq Members(ring'[r])]_manageVars
=============================================================================
