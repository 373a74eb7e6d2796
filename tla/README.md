# libMeridian in TLA+

libMeridian is a peer-to-peer overlay that answers questions about network
latency: which node is nearest to a set of targets, which satisfies several
latency constraints, what is the latency between two others. A node is one
process with one thread. It keeps a few peers in concentric *latency rings*,
keeps those up to date by gossip, measures targets with TCP, DNS, Ping or ICMP
probes, and forwards a question to a ring member that is closer to the answer
than itself.

This directory models that node, and small networks of them, in TLA+. The
modules are checked with TLC; TLAPS proves the safety properties the runs check, and
the two refinements, for every value of the constants.

    tlc -workers 2 -config RingSet.cfg MCRingSet      # any run of the table below
    tlapm RingProofs.tla                              # and the other *Proofs modules

The runs, mutants, hazards and the map from definitions to source lines are in
`PROJECT.json`. Line numbers refer to `src/`.

## 1. The system

One loop, `MeridianProcess::start` (MeridianProcess.cpp:1087-1182), does
everything: it runs the timeouts that are due, selects, reads one packet, writes
the packets that wait, runs a few MQL threads, and serves the rendezvous, info,
TCP-probe and DNS-probe sockets. Handlers run to their end; there are no locks.
What makes the code hard is therefore not preemption but

- **re-entrance**: a handler that has an answer calls the handlers of its
  subscribers through the query table, on the same stack, while the table holds
  raw pointers;
- **long operations spread over events**: a search or a ring replacement takes
  seconds, and works with what it read at the start;
- **the network**: UDP loses, delays, reorders and duplicates;
- **twin structures kept in step by hand**: two maps in the cache, two in the
  query table, select sets beside connection maps, rings beside two maps.

### Inventory

| Component (source) | State | Operations | Talks to | Correct if | Module |
|---|---|---|---|---|---|
| **Ring set** (RingSet.h, .cpp) | primary and secondary vector per ring, frozen flags, node latencies, rendezvous of nodes | insertNode, eraseNode, freeze, unfreeze, eligibleForReplacement (which swaps members), setRingMembers, fillVector, getRandomNodes | called by AddNode, RingManage, Closest, MC, gossip, info | rings hold exactly the nodes whose latency selects them, once, within size; a frozen ring does not move | `RingSet` |
| **Ring management** (RingManageQuery) | candidates, reports | performRingManagement, init, handleEvent, handleTimeout, performReplacement | freezes a ring, asks its members to measure each other, installs the best | the ring thaws; nobody that reported is lost | `RingManage` |
| **Latency caches** (LatencyCache.\*) | latencyMap, timeoutMap, maximum | getLatency, insertMeasurement, eraseEntry | filled by probes, read before probing | maps in step, bounded, oldest goes | `LatencyCache`, `BoundedCache` |
| **Query table** (QueryTable.\*) | queries by id and by due time | insert, update and remove, notifyQPacket, notifyQLatency, handleTimeout | every query lives in it | no query is used after it is deleted; a due query is handled | `QueryTable` |
| **Probe connections** (MeridianProcess, ProbeQuery\*) | maps from descriptors to probes, select sets | add, handle, erase (TCP and DNS) | select loop, query table, caches | select is asked of open sockets only; no connection outlives its probe | `ProbeConnections` |
| **Outgoing packets** (addOutPacket, writePending, performSend) | packet list, write bit | queue, send, wrap in PUSH | all handlers; rendezvous host | order kept, nothing stuck | `OutQueue` |
| **MQL threads** (DSLRecvQuery, DSLReqQuery, HandleGetDistance\*, the scheduling loop) | one coroutine per program, ready list | start, run, block, wake, end | evaluator, query table, network | a ready thread runs; a blocked one whose call is under way gets an answer, its own unless the network repeated a reply | `DSLScheduler` |
| **Closest-node search** (HandleClosest\*, handleClosestReq) | phase, measured targets, reports, chosen member | init, handleEvent, handleForward, sendReqProbes, handleLatency, handleTimeout | probes, ring set, other nodes | the client hears once, of a node no farther than the first; loops end | `ClosestSearch` |
| **Membership** (AddNodeQuery, GossipQuery, ReqProbePing; gossip handling) | seeds, rings, ping cache, queries | start, gossip, add, answer, give up | other nodes, rendezvous | the dead are forgotten, the live meet, firewalled nodes keep to open ones | `Membership` |
| **Rendezvous host and client** (handleRendavous, PUSH/PULL) | connections, PULL queues, write set; receive buffer | accept or replace, queue, send in parts, drop; cut packets out of the stream | firewalled nodes | the maps agree; the client reads what was pushed, as it was sent | `Rendezvous`, `Packets` |
| **Multi-constraint search** (HandleMC\*, ReqProbe\*, HandleReq\*, ProbeQuery\*) | as the closest search, and the measuring queries | as the closest search; ask a member, serve it, measure | as the closest search | it is a closest search for another distance | `MultiConstraint` |
| **Packets** (Marshal.\*) | none | createRealPacket and parse of each class | all | what one node writes another reads; what is cut short is refused | `Packets`, `Buffers` |
| **MQL language** (MQL.ypp, MQL.lex, MQLState.\*, MeridianDSL.\*) | scopes, values, program | parse, evaluate, marshal and unmarshal values | DSL threads | values survive the wire | values in `Values`; evaluator not modelled |
| **Distance requests** (HandleReq\*, ReqProbe\*; HandleGetDistance\*, ReqProbeSelf\*) | targets, results | measure, ask to measure, return | caches, probes | every request is answered or times out | the first two in `MultiConstraint`; the others in part |
| **Info service** (handleInfoConnections) | at most 16 TCP clients | accept, write, close | ring set | bound, no double close | not modelled |
| **Hypervolume** (GramSchmidtOpt.\*, reduceSetByN) | none | choose the largest subset | ring management | floating point, qhull and BLAS | not modelled; any choice is allowed |
| **ICMP probes** | raw socket | send, receive | probe queries | as Ping | not modelled |
| **Process lifecycle** (meridian.\*) | child pid, pipe | start, stop | loop | child ends | not modelled but for `Crash` of `Membership` |
| **Demos, launchers, build files** | none that lasts | | | | not modelled |

The list of hazards (`PROJECT.json`, "hazards") is what the properties below
were written for; each hazard names the line where it bites.

## 2. The modules

`RingManage` extends `RingSet` (the query and the rings it works on are one state
space); `Rendezvous` extends `Packets`, `Values` and `Buffers` (what goes through the
tunnel are their bytes); `LatencyCache` implements `BoundedCache`, and `MultiConstraint`
implements `ClosestSearch`, by refinement mappings. The others stand alone: they meet at
interfaces that one states as an assumption and another establishes. `SelectProofs` extends
the modules of what the select loop serves, `ProbeConnections`, `OutQueue`, `Rendezvous` and `DSLScheduler`,
which share g_writeSet: each has its own part of it, and names (`OutSpec`, `RendvSpec`, `DSLSpec`) that the
others do not have. It builds on `PacketProofs`, the proofs about `Packets`, `Values` and `Buffers`.

- `ProbeConnections`, `ClosestSearch`, `MultiConstraint` and `Membership` assume that
  timeouts come (weak fairness of Timeout). `QueryTable` shows it: `DueIsHandled`.
- `ClosestSearch` and `Membership` take what the rings hold as given. `RingSet`
  and `RingManage` show what that is.

The `MC` modules give constants their values and add nothing else.

**RingSet.** One action per method. `ring[r]` has the vectors `prim` and `sec`,
`nodeLatencyUS` is a function with `Absent` for no entry, `rendvMapping` with
`NoRendv`. insertNode's branches are actions of their own: `InsertNew`,
`InsertSameRing`, `InsertMoved` (the node changes rings), `InsertRefused` (one of
the two rings is frozen). `PushToRing` appends to primary or secondary and evicts
the front of a full secondary; `EraseFromRing` has the swap-and-pop of the primary and
its refill from the secondary. `SwapFirewalled` is the side effect of
eligibleForReplacement, `ReplaceRing` unfreezes and installs members as
RingManageQuery does in one handler. getRingNumber's floating logarithm is
`ExponentBase` powers in integers: `ringEndUS[k]` is the latency at which ring *k* ends.

**RingManage.** A query dumps and freezes a ring, sends requests to the open members,
collects reports (`Report`), and at the last report or at the timeout drops the silent,
completes the matrix by dropping the node with most holes, and replaces the ring. A drop order
(`DropOrders`) is a sequence of candidates in which each has the most holes among those left, up
to the first point at which the rest `Suffices`; `Reductions` are what remains after one.
`OtherQueries` are the insertions and erasures of other handlers meanwhile. Which
full-matrix subset wins (hypervolume) is left open.

**LatencyCache / BoundedCache.** `timeoutMap` is a function from times to vectors,
emptied vectors leave it as in the code; `MakeRoom` evicts the head of the first
vector. gettimeofday may go backwards (`SetClock` takes any time). The abstract
cache has one function from nodes to entries: "evict only if full, and then one that
ends first".

**QueryTable.** Queries are objects with a life (unborn, live, deleted), ids are
reused as soon as they are out of the table, and *the call stack is state*: a
handler on it may notify its subscriber, create a query, finish, move its
timeout, each a step, so every nesting of `notifyQLatency`, `init` and
`updateTimeout` is explored, under `handleTimeout`'s list of raw pointers too (`sweep`, a
function from the times that are due to the sequence of queries left at each).
Subclasses are reduced to what they may call: *root*, *middle*, *leaf* (the
module's header lists them).

**ProbeConnections.** Descriptors are numbers the kernel gives out lowest first, as
POSIX requires; `probe[p].sockFD` may be stale, which is the point.

**OutQueue.** errno is state, since writePending reads it whether or not
performSend has set it. Packet kinds: sent directly, wrapped in PUSH, too long to be
wrapped.

**DSLScheduler.** `psList` is g_psList with the loop that runs five entries per iteration
(`scan`) and defers its erasures. Evaluation between two switches is one step with
any outcome. `Occurs` selects irregular cases: a call that is not sent, an empty source
array, a value that does not fit in memory. A DSLReqQuery passes each copy of its reply on and
stays, so a reply may come up to `MaxReplies` times (more than once for `MaxRepeated` calls at a time), in any
state of its thread; `answer` is the
call whose answer last made the thread ready.

**ClosestSearch.** Several nodes, one client, one search id. A list of latencies is its
average. Packets may be late or lost and none is duplicated. `timely` is a choice made once
per behaviour: packets and probes come before any timer (`TRUE`), or at any time or
never (`FALSE`). The TCP, DNS, Ping and ICMP subclasses differ only in the
probe. handleForward rounds with llround, and so does `Threshold`.

**Membership.** Several nodes with their AddNodeQuery, GossipQuery and ReqProbePing objects
(a bag), the GOSSIP packets between them, ping caches and rings (as one set limited by
`Room`). `overlay` is a choice made once per behaviour: who is firewalled, who has
room for whom, push or push-pull gossip, timely or not, whose process may end.
Makefile.am:4 builds with `-DGOSSIP_PUSHPULL`. Three things are simpler than in the code: a node
keeps what it has room for and refuses the rest, where insertNode admits the newcomer and evicts the
oldest; a rendezvous is never lost, where insertNode loses it on a change of rings (run `ring_rendv`);
and the host of a firewalled node's tunnel is always up. `EverybodyMeets` is claimed of such overlays only.

**MultiConstraint.** The node's part of the search (HandleMCGeneric, `q`) works through
three other kinds of query, each an object with its own timer: `asks` (ReqProbeGeneric, which
erases a member from the rings if it does not answer in full), `serves` (HandleReqGeneric, at
the member asked; a second result for a target changes nothing) and `probes` (ProbeQueryGeneric,
at either end). A late or repeated report
can meet a query of an earlier turn. `Search` is ClosestSearch with the average excess over
the constraints (`getAvgSolution`) as its latency and the measuring left out of sight.

**Buffers, Values, Packets.** A payload is a sequence of bytes; byte *j* of a field of *w*
bytes with value *v* is `<<v, j, w>>`, so that a read that does not meet the field as it was
written gets nothing. A writer per class of packet gives the fields in the order of
createRealPacket, a reader takes them in the order of parse, each read advancing the
position or failing. `Marshal` and `Unmarshal` do the same for the values of MQL programs, by
recursion over the value.

**Rendezvous.** The host's maps (`connections`, `queue`, `rendvWriteSet`, `rendvSocket`) and the clients'
ends (`tunnel`, `received`) of TCP connections that carry the bytes of `Packets`. The host
accepts (replacing an older connection of the same client), writes a queue in
parts, drops a connection that fails; a client receives up to what is left of its buffer and
cuts off at most one packet per recv, as the code does. `pushed` and `taken` are history.

## 3. What is checked

| Run | Instance | Properties |
|---|---|---|
| `rings` | 5 nodes, 3 rings of 2 + 2, one rendezvous, latencies in each ring and on both sides of a boundary | `RingsWellFormed`: two vectors within their sizes, nobody twice, nobody in a secondary while a primary place is free; `RingsMatchLatencies`: a ring holds exactly the nodes whose latency selects it; `FillVectorComplete`: the ring window of fillVector misses no member within beta; `FrozenRingsKeepMembers`; `SwapMovesFirewalledOut` |
| `manage` | 3 nodes, 2 rings of 1 + 2 | `DumpStaysCurrent`: the dump a query works from stays the ring's membership; `RingsConsistent`; `ReportersStay`: who reported to some peer is not thrown out; `SilentLeave`; `RingThaws` (liveness) |
| `cache` | 3 nodes, 2 places, 3 clock values | `CacheConsistent`: the maps mirror each other within the bound; `ImplementsBoundedCache` |
| `table` | 3 queries, 3 ids, 2 times | `TableConsistent`: the two maps agree and no query leaks; `NoUseAfterDelete`: no frame or list entry points to a deleted query; `DueIsHandled` (liveness) |
| `probes` | 3 TCP and 2 DNS probes, 3 descriptors | `ConnectionsConsistent`: select is asked about the open sockets, each in one map; `NoConnectionOutlivesProbe`; `DNSConnectionIsOwn`: only the probe that opened it erases a DNS connection; `EveryProbeEnds` (liveness) |
| `queue` | 4 packets of 3 kinds | `QueueConsistent`: the write bit is set exactly while packets wait, and they leave once and in order; `EveryPacketLeaves` (liveness), unless the head is stuck for ever |
| `dsl` | 2 threads, 2 calls each, one reply that comes twice, 2 threads per scan | `NoThreadForgotten`: a ready thread is ahead of the scan in the list; a blocked one has a call in the table that was sent and is not answered yet, or is marked `lost`; `AnswerIsForCall`: behind an answer to another call than the thread's there is a reply that came twice; `ReadyRuns` (liveness) |
| `search` | 3 nodes: a chain into a loop of two equally near | `SearchConsistent`: a node that waits is owed an answer by a query or a packet; `AtMostOneAnswer`; `AnswersNeverWorse`: no node farther than the first is answered; `EveryRequestAnswered`, each by the node asked to the one who asked it, and `ClientGetsNode` (liveness) |
| `membership` | 3 nodes in 3 overlays | `MembersAreMeasurable`: nobody knows itself, the firewalled know only open nodes; `DeadAreForgotten` and `EverybodyMeets` (liveness) |
| `multi` | 3 nodes, 2 targets, duplicated measurements | `MCConsistent`: an answer carries the latencies of the node it names, a request is served once at a time; `ImplementsSearch`: the search is one of ClosestSearch; `ClientGetsNode` (liveness) |
| `relay` | 2 clients, 3 connections, 2 pushes, 60-byte packets | `PacketsReadAsWritten`: each class and value is read as written, a truncation is refused; `HostConsistent`; `StreamConsistent`: the client takes what was pushed, whole, in order and under the sender's address; `PacketsMoveOn` (liveness) |

One run is *expected to fail*; it shows that the code disagrees with one of its own comments.

| Run | Property | What TLC finds |
|---|---|---|
| `ring_rendv` | `RendvStored` | insertNode stores the rendezvous it is given, then erases it when the node changes rings (RingSet.cpp:109, 134, 92) |

Every property also has a mutant: a plausible bug in a mapped definition,
written just before it under the heading *Faulty variant*, that makes TLC report
the property violated in the same run.

### Deviations seen without a run of their own

- `OnlyAskedEvicted` (RingManage) fails: a firewalled member is dumped as a
  candidate (Query.cpp:306), never asked, and erased by the timeout as if it had
  been silent (400-402), against README:38-39.
- `TimeoutErasesOwnOnly` (ProbeConnections) fails: a TCP probe whose connect failed keeps
  a descriptor the process has closed, and its timeout closes whatever TCP
  connection has that number then (Query.cpp:870). `probes` shows that DNS connections and the
  select sets do not suffer.
- writePending reads errno after a performSend that failed before its system call, on a packet
  too long for a PUSH (MeridianProcess.cpp:502-510). If errno is an old EAGAIN (464) the packet stays
  at the head and nothing is sent again; `EveryPacketLeaves` makes the exception explicit (`Stuck`).
- get_distance on an empty array answers before the thread is blocked (Query.cpp:2811-2813, 2652), so
  the thread waits for its timeout; so does one whose call cannot be sent or whose value does not fit
  (2697-2700, 2289). `NoThreadForgotten` leaves out the threads so lost: it is about those whose call
  is under way.
- A DSL reply that comes twice is taken for the answer to the next call (Query.cpp:2154, 2259): nothing
  in a reply says which call it answers, and the next call's own answer may then be taken for that of
  the one after. That a thread is woken by its own call's answer, without condition, is false of the
  code; no doc or comment claims it. `AnswerIsForCall` says what is true: without a repeated reply
  no thread gets a wrong answer, whatever else goes wrong.
- insertNode passes eraseNode a reference to the front of the deque that eraseNode erases it from, and
  eraseNode reads it again for the latency and rendezvous maps (RingSet.cpp:151, 91-92). This is
  undefined; libstdc++'s pop_front leaves the bytes as they are, and the model takes the node itself.
- A query id that is free again may be held elsewhere (MeridianProcess.cpp:375). `table` takes ids
  again and shows that no deleted query is used; that a late answer reaches only the query it was for is
  not claimed, since the code does not tell the two apart.
- A duplicated request in the closest-node search is taken for a loop (Query.cpp:1049): with one
  duplicate `AtMostOneAnswer` and `ClientGetsNode` fail. In `MultiConstraint` the packets of the
  measurements may be duplicated, and nothing fails.
- A PUSH is re-wrapped as a PULL whose header is longer. A packet that fits the first and not the
  second makes PushPacket::parse return NULL, which the host uses (MeridianProcess.cpp:549-551). The
  model stops the host there (`"no PULL"`), and the properties of `relay` speak of a host that runs.
- After a recv the client handles one packet although its buffer may hold several; the others wait for
  more bytes. `FirstPacketArrives` is stated for the first packet only.
- A value with an EMPTY element is read back as EMPTY altogether: unmarshal_ast cannot tell "no value"
  from "could not read" (MeridianDSL.cpp:2467-2487), e.g. an RPC argument without a value. A request
  whose parameters could not be written is accepted without them, also when it was cut off behind them.
- The writer of a program does not check MAX_PROGRAM_SIZE, its reader does.

### Bounds

The instances are the smallest that contain the cases of the hazards.
Five nodes overfill a ring of two and two, so eviction, promotion from the
secondary, and the refusal and replacement of a full ring all happen; three rings let a node move past another. Three
nodes on two rings of one and two let a node leave and enter the managed ring while a candidate is dropped.
A cache of two under three nodes evicts; three times let entries share a timeout or outlive later
ones. Three queries are a root, a middle and a leaf, and also two roots due at once; three
ids let an id be taken again while somebody still holds it. Five probes over three descriptors
reuse numbers and run out of them. Four packets put one before and two behind the stuck
one. Two threads and two per scan let a thread append itself while the other is
seen; two calls and two copies of a reply let an answer meet a thread in its next call and leave
stale entries in the list, more than one iteration sees. Three nodes are the least for a search that comes back to a node other than the
first, and for gossip about a third party. In `multi` two targets make partial lists possible and
three turns let a node begin again while measurements of its first turn are under way. In `relay`
sends of 20 and receives of 30 bytes cut packets of up to 60 bytes within fields and across
packets, a third connection replaces one of the first two, and the samples hold each
class of packet with lists up to one entry too many, and values two and three deep.

Bounds of the models that are not bounds of the code, each named in its module: `MaxQueries` and `MaxClock`
(QueryTable), `MaxFD`, `MaxPackets`, `MaxCalls`, `MaxReplies`, `MaxRepeated`, `ClockTimes`, `MaxTurns` (MultiConstraint),
`MaxConns` and `MaxPushes` (Rendezvous), and `MaxOutstanding` with
`GossipBound` in Membership, which starts a round of gossip only after the last one is over.
`rings` uses symmetry in the nodes (no liveness is checked there). `CHECK_DEADLOCK FALSE`
stands where the bounded supply of probes, packets or calls ends, or a search or an overlay rests.

### Fairness, and why the code gives it

| Module | Assumed | Because |
|---|---|---|
| RingManage | WF of the query's timeout and replacement | `DueIsHandled` |
| QueryTable | WF of the running handler and of the loop | one thread, handlers have no unbounded loop |
| ProbeConnections | WF of Timeout | `DueIsHandled`; the network is given none |
| OutQueue | SF of PacketsLeave | the socket goes on accepting packets; select reports it (1087-1120) |
| DSLScheduler | WF of ScanStep | the loop reaches the scan in every iteration; replies are given none |
| ClosestSearch | WF of Timeout; of delivery only in timely behaviours | `DueIsHandled` |
| MultiConstraint | WF of Timeout; of Arrives and Measured in timely behaviours | as ClosestSearch |
| Rendezvous | a descriptor with packets waiting is served, or its connection goes; a readable client reads (weak fairness with ENABLED written out) | select reports it in each iteration; TCP takes bytes in the end or gives the connection up |
| Membership | WF of timers, of the end of a packet's travel (arrival or loss), and of Forget; of answers only in timely overlays; SF of gossip with each member | the scheduler's period; cache timeout; rand() chooses among all the members of a ring |

## 4. What is proved

TLAPS checks every leaf; the theorems hold for all constants that satisfy the
module's ASSUME. Each proof has the same frame: an inductive invariant `IInv` (under this or the
name given), a lemma that Init establishes it, one that each action preserves it, and the
theorem by temporal logic.

**RingProofs** (RingSet) — `RingsWellFormed`, `RingsMatchLatencies` as invariants,
`FrozenRingsKeepMembers` and `SwapMovesFirewalledOut` as action properties. None of the first three is
inductive alone: that erasing a node removes it from its ring needs that it stands there once and in the
ring its latency selects, which needs the sizes to be respected. `IInv` is their conjunction. The
lemmas say what the helpers do to one ring (`SwapPopFacts`, `EraseFacts`, `PushFacts`, `SwapFacts`,
`SetMembersFacts`); `NextIInv` has one step per action. `FillVectorComplete` holds because the ring number does not fall as the latency rises
(`RingNumberMonotone`), so that the rings between those of the two bounds hold every latency between
them. That `ringEndUS` exists (`RingEndsExist`) takes induction over ring numbers, done
with the least counterexample (lemma `UpTo`, from the library's `WFMin`). Assumed: at least one
primary and one secondary place, and a base of at least 2 (the command line does not check either).

**RingProofs** (RingManage) — `DumpStaysCurrent`, `RingsConsistent` as invariants, `ReportersStay` and
`SilentLeave` as action properties. `QueryInv` adds that a query asks candidates only. The
argument for the dump is that a step leaves each ring's query as it was (`SameQuery`) or leaves it `Current`:
`OthersSpareFrozen` for insertions and erasures, `SwapSparesFrozen` for the swaps of
performRingManagement (the ring it picks has more eligible members than a swap needs), `EndKeepsOthers`
for the two ways a query ends. For `RingsConsistent` neither invariant will do without the other (`QueryInv`): the dump
bounds what a query erases and installs, and the rings' consistency tells that what it erases is where the
latencies say. A drop order drops each candidate once (`OrderFacts`), so that what is installed
is all of the candidates (`ReplacementFacts`); erasing a list of members leaves the others
(`EraseAllFacts`, by induction along the list), although each erasure may promote one.
`ReportOutcome` and `TimeoutOutcome` sum up what the end of a query does to its ring, and
both action properties follow.

**LatencyCacheProofs** — `CacheConsistent`, and that LatencyCache implements BoundedCache
(`CacheRefinement`): every step, by `InsertStep` and `EraseStep`, keeps `IInv` and is a step of the
abstract cache. `Mirrored` is what makes the eviction the abstract
one: without it the head of the first vector might not be cached. That a
first timeout exists uses the well-foundedness of the naturals (`EarliestExists`).

**SelectProofs** (ProbeConnections) — `ConnectionsConsistent`, `NoConnectionOutlivesProbe` and the action
property `DNSConnectionIsOwn` for any number of probes and descriptors. The invariants are proved
together (`ConnInv`): the erasure of a stolen descriptor (`ErasingStolenKeepsConn`) keeps the
select sets right only because each open socket is in exactly one map. A DNS connection is safe from
other probes because one that waits has the connection of its descriptor still (`DNSOwned`); a TCP probe may not.

**SelectProofs** (OutQueue) — `QueueConsistent` for any number of packets and any outcomes of a turn of
writePending. It is inductive as it stands; the work is in `SomeLeave`: of a line whose
numbers rise, taking some of those in front away and keeping the others' places leaves a line that rises and
lacks just what was taken. That the positions of the packets sent can be listed in order (`ListExists`, by
induction), and that such a list names all of them (`ListFacts`, by counting), is what makes the order of
`Leave` exist and forget nothing.

**SelectProofs** (the host of Rendezvous) — `HostConsistent` for any clients, descriptors, traffic and sizes of sends.
`HostInv` adds to `MapsInStep` that what is not NULL in the queues is a list and that the connections waiting for
accept have an owner. A lemma says what each change does to maps that agree (`RemoveGood`,
`AcceptGood`, `RelayGood`, `ServeGood`); the order of accept and close matters in
`ClientComesBack`: the new descriptor is free while the old one is open, so it is none that select
had reported writable, and nobody is asked for a packet who has none (`Asked`). Assumed: NULL is no
list (`NullIsNoList`; that it is no descriptor is an assumption of the module).

**SelectProofs** (the stream of Rendezvous) — `StreamConsistent` for any traffic, any sizes of sends and recvs
and any number of clients and connections. The code has no such notion as a stream: the host knows packets with a
position, the network bytes, the client a buffer. The invariant `TunnelInv` names it: for each running client
there are bytes `lost` such that what it holds, then what is on the wire, then `lost` is the concatenation of the PULLs it
has not taken (`Flow`), and while its connection is open `lost` is what its queue still has to send. `lost`
is kept when the connection goes, so that the bytes held stay a prefix. It also takes that no
connection is open twice (`OneSocket`), and that nothing was queued for one that waits for accept (`InLine`),
so that a client that comes back begins with an empty stream. Each change of one end is a lemma about a
`Flow` (`FlowQueued`, `FlowSent`, `FlowWaits`, `FlowTaken`). The client cuts at the right place
because a buffer that begins with a whole PULL is parsed and one that ends within is not
(`WholePullParsed`, `ShortPullRefused`), and two ways to cut one list in two overlap (`Overlap`); the second is
also why its buffer has room: what it holds is less than a PULL, which fits a packet. That a packet read from a
PULL is the one that was sent is `AllReadAsWritten` of PacketProofs. The module assumes that addresses are pairs of
numbers, that a packet has room for a byte and that the traffic is among the samples.

**PacketProofs** (Buffers, Values, Packets) — what a node writes is read as it was written, and cut short it is
refused, for any numbers, addresses, strings, lists and values (`AllReadAsWritten`; the theorem
`PacketsStayReadAsWritten` of SelectProofs states it of the run's property). The modules assume what the
fields of a packet and of an ASTNode hold (`SamplesAssumption`, `ValuesAssumption`, both of which TLC evaluates on the
run's). The argument goes from the bytes up:

- a number is a list of bytes that is read where it lies, wherever that is (`Lies`, `Shifted`), and not if the
  buffer ends within it;
- packets begin with rows of fields of fixed widths (`Row`, `FrontIsRead`), and a list of entries of one
  width lies at the multiples of it (`EntriesFlat`), so that its length and all its rows are read, or the last field
  that fits is followed by one that does not (`ListPacketIsRead`). Each class is then a row, or a row and a list
  (`MeasureReads` to `InfoReads`);
- `Marshal`, `Sendable` and `AsRead` recurse over values. That such a function exists, and is what it is
  defined to be, is shown by the depth of the values (`MarshalFacts`); that `unmarshal_ast`'s recursion
  ends, because every part lies behind the type it belongs to, by the places of the buffer (`ValueSame`,
  `ReadExists`, `UnmarshalFacts`). The library's induction theorems cannot be used for this; both inductions take the
  least counterexample instead (`SmallestExists`);
- a value of each type is read where it lies if its parts are, wherever they lie (`ValueIsRead`, by the
  loop over the parts, `PartsAreRead`), in full or cut off by the end of the buffer; then every value is, by depth
  again. A part that is empty makes its array, struct or parameters empty (`EmptyParts`), as the code does;
- a DSL_REQUEST is a row, the program's strings and its parameters (`ProgramIsRead`), a DSL_REPLY a row and a
  value (`ReplyReads`). A call cut within its parameters loses them and is not refused: the code's
  behaviour, which `CutShort` names.

Hypotheses, of this and of the stream: NULL is no list, number, PULL or call (`NullIsApart`), and values have
a depth (`ValuesAreFinite`: an ASTNode is a finite tree).

**QueryTableProofs** — `TableConsistent` and `NoUseAfterDelete` for any number of queries, ids
and times and any depth of calls. `IInv` says that the maps agree (`Agree`), that what is not born has no
trace (`Fresh`), that a subscriber is older than what it subscribed to (`Tree`), how the frames
of the stack follow each other (`Frames`), and what the sweep of handleTimeout may point to
(`SweepLive`, `SweepIdle`). The key lemma is `SubscriberIsNew`: the query that is told of an answer is
not itself on the stack, because a chain of answers that turns to a younger query turns to the
youngest of it. So nothing that is running can be finished and deleted from above.

**SelectProofs** (DSLScheduler) — `NoThreadForgotten` and `AnswerIsForCall`, whatever irregular cases
occur and however often a reply comes. `ListInv` adds to the first that the scan stays within the list and
that what is ready is ahead of it (`ScanInList`, `ReadyAhead`, `TriggerSet`). For the second, `CallsInv` says
that a call which is not answered yet is the one its thread is blocked in, or that its thread was made to leave it
by a repeated reply (`RepliedAgain`); since a DSLReqQuery stays as long as its thread, that is not forgotten.

**ClosestSearchProofs** — `SearchConsistent` and `AtMostOneAnswer` for any nodes, latencies, rings,
beta and timing, and `AnswersNeverWorse` if measuring twice gives the same (`Steady`; a node
measured as near may since have become far). Every action is an `Effect`: one node's query changes in one
of seven `Kinds` (begins, works, forwards, ends, returns, loops, drops) and sends what goes with it,
so the invariants are proved by kind and not by handler. `IInv` is `Typed`, `OneWorks` (one
request under way or one node at work, never two), `OneAnswers` (the client's request is under way, owed
by one node, or answered) and `WaitsAreOwed`. `ThresholdBelow` is the arithmetic: rounded as
llround does, the threshold is not above the average it is a part of.

**MembershipProofs** — `MembersAreMeasurable` for any overlay. That no node has itself in its rings
is not checked where nodes are added; it holds because queries are for others, an answer comes from the
node asked, and a packet of gossip never names its receiver nor goes to its sender
(`GoodQueries`, `GoodPackets`, `GoodCaches`, `GoodRings`; queries are a bag, and the bag lemmas say
what adding and removing one leaves).

**MultiConstraintProofs** — `MCConsistent`, and that MultiConstraint implements ClosestSearch
(`MeasuringImplementsSearch`). `IInv` types each of the five populations (`QueriesGood`, `PacketsGood`,
`ServesGood`, `ProbesGood`, `AsksGood`) by what may be in it *at each moment*: a query in its first phase has
measured some targets, in a later one all of them; a report bears latencies of the node that sent it, a list of a
HandleReq is never complete, an answer has the latencies of the node it names. The refinement has a lemma per
handler (`DirectResultSeen`, `IndirectResultSeen`, `ForwardSeen`, `TimeoutSeen` ...) that says which step of
ClosestSearch is seen, or that none is (`Unseen`): all that the three measuring queries do, and what
arrives late, partly or twice, is none. The theorem assumes `SteadyLatencies`: a node that is measured twice gives
the same. Without it the mapping fails, not the code: two answers that differ only in
their latencies look like one packet to ClosestSearch, and the second would come from nowhere. The run makes the
same assumption.

**Checked by TLC only**: liveness (TLAPS has no fairness or ENABLED). No module declares a
RECURSIVE operator; the recursions of the model are recursive functions, and where a proof needs what one computes,
as of the values above, it is by a least counterexample.

## 5. What is not modelled

- **Information service.** Its loop is the rendezvous host's without the replacement of
  connections; the rest is the text of an HTML page.
- **Evaluator, scanner and parser of MQL.** A sequential interpreter without state that others share.
  Its switches are in `DSLScheduler`, its values on the wire in `Values`.
- **HandleGetDistance\* and ReqProbeSelf\*** (Query.cpp:2479-2719) beyond the answer they give the thread in
  `DSLScheduler`: they add the answers of independent probes up into a matrix.
- **Hypervolume.** Floating point through qhull and BLAS; any choice is allowed where it chooses.
- **ICMP.** It differs from Ping in the socket and the packet.
- **Process lifecycle** (fork, pipe, stop) except as `Crash` of `Membership`; restarts of a node with its
  old address; memory exhaustion except in `DSLScheduler`.
- **Demos, launchers, gateways, build files.** One request, one answer, no state that lasts.
- Details of the packets that no property tells apart: the members of an INFO_PACKET are one list and not grouped by
  ring; fields of a struct are read in the order they lie in, which is the order of the std::map they were written
  from; a function's name is taken by its length, where the code stops at the first 0 (the byte behind it).
- In the query table, the failure of insertNewQuery and the query that tells its subscriber without
  finishing (DSLReqQuery; its effect is in `DSLScheduler`).
- Byte order, logging, option parsing; compression and the hash of the magic number; duplicated packets in
  the closest-node search, and lists of targets so long that a RET_RESPONSE does not fit its packet
  (both under hazards).
