----------------------------- MODULE QueryTable -----------------------------
(***************************************************************************)
(* Class QueryTable and the calls its queries make through it.             *)
(* queryTimeoutMap finds a query by its id, timeoutQueryMap orders the     *)
(* same queries by the time they are due.  The table hands out raw         *)
(* pointers: a handler runs on one, may notify another query or insert a   *)
(* new one before it returns, and updateTimeout deletes the query that     *)
(* finished.  The call stack of the process is therefore state here.       *)
(*                                                                         *)
(* Queries are objects, numbered as they are born.  Ids are query ids,     *)
(* which getNewQueryID takes again as soon as they are out of the table.   *)
(* The subclasses of Query differ, for the table, in what they may call:   *)
(*   root    Gossip, QueryScheduler, HandleReq*, HandleClosest*,           *)
(*           HandleMC*, HandleGetDistance*, RingManage: nobody subscribes  *)
(*           to them, and they create queries in any handler;              *)
(*   middle  AddNode, ReqProbeSelf*: created by a root, create in init;    *)
(*   leaf    Probe*, ReqProbe*: create nothing.                            *)
(* A middle or a leaf tells its subscriber when it has its answer.         *)
(***************************************************************************)
EXTENDS Integers, Sequences, FiniteSets

CONSTANTS
  MaxQueries,     \* bound: so many queries are born
  Ids,
  MaxClock,       \* bound: the clock stops there
  None

ASSUME QueryTableAssumption ==
  /\ MaxQueries \in Nat
  /\ MaxClock \in Nat
  /\ None \notin Ids \cup (1 .. MaxQueries)

VARIABLES
  table,          \* [byId, byTime]: queryTimeoutMap and timeoutQueryMap
  heap,           \* the query objects: unborn, a query, or deleted
  stack,          \* the handlers being run, innermost last
  sweep,          \* what is left of handleTimeout's list: the due queries of each time
  phase,          \* where the event loop is: at its timeouts or its events
  clock

tableVars == <<table, heap, stack, sweep, phase, clock>>

Queries == 1 .. MaxQueries
Times == 0 .. MaxClock + 1
Roles == {"root", "middle", "leaf"}
Calls == {"init", "notify", "timeout"}
NoSlot == [query |-> None, at |-> 0]

QueryObject == [state : {"live"}, role : Roles, id : Ids, subscriber : Ids \cup {None}]
Slot == [query : Queries, at : Times] \cup {NoSlot}
Frame == [query : Queries, call : Calls, told : BOOLEAN]
NoSweep == [t \in Times |-> <<>>]
TableState == [byId : [Ids -> Slot], byTime : [Times -> Seq(Queries)]]

Unborn == [state |-> "unborn"]
Deleted == [state |-> "deleted"]

Live(q) == heap[q].state = "live"
Elems(s) == {s[i] : i \in 1 .. Len(s)}

Init ==
  /\ table = [byId |-> [i \in Ids |-> NoSlot], byTime |-> [t \in Times |-> <<>>]]
  /\ heap = [q \in Queries |-> Unborn]
  /\ stack = <<>>
  /\ sweep = NoSweep
  /\ phase = "timeouts"
  /\ clock = 0

----------------------------------------------------------------------------
(* The two maps *)

InTable(id) == table.byId[id] # NoSlot

AddTimeout(tab, q, id, at) ==
  [byId |-> [tab.byId EXCEPT ![id] = [query |-> q, at |-> at]],
   byTime |-> [tab.byTime EXCEPT ![at] = Append(@, q)]]

\* "v[i] = v.back(); v.pop_back()" at the position of q.
VectorErase(v, q) ==
  LET at == CHOOSE i \in 1 .. Len(v) : v[i] = q
  IN  [k \in 1 .. Len(v) - 1 |-> IF k = at THEN v[Len(v)] ELSE v[k]]

\* Faulty variant: only the map from ids forgets the query.
RemoveFromIdMap(tab, q, id) == [tab EXCEPT !.byId[id] = NoSlot]

RemoveOldTimeout(tab, q, id) ==
  [byId |-> [tab.byId EXCEPT ![id] = NoSlot],
   byTime |-> [tab.byTime EXCEPT ![tab.byId[id].at] = VectorErase(@, q)]]

DueTimes == {t \in 0 .. clock : table.byTime[t] # <<>>}

----------------------------------------------------------------------------
(* What a handler does *)

Top == stack[Len(stack)]
Caller(s) == SubSeq(s, 1, Len(s) - 1)
Running == stack # <<>>

\* Faulty variant: a middle query retries, creating a query in any handler.
CreatesAnyTime(f) ==
  \/ heap[f.query].role = "root"
  \/ heap[f.query].role = "middle"

Creates(f) ==
  \/ heap[f.query].role = "root"
  \/ heap[f.query].role = "middle" /\ f.call = "init"

Tells(f) ==
  /\ f.call = "notify"
  /\ heap[f.query].role # "root"
  /\ heap[f.query].subscriber # None
  /\ ~f.told

\* Faulty variant: a scheduler forgets to move its time.
KeepsItsTime(f) ==
  LET now == table.byId[heap[f.query].id].at
      later == {t \in Times : t > clock} IN
  CASE heap[f.query].role = "root" /\ f.call = "timeout" -> {None, now} \cup later
    [] heap[f.query].role = "root" /\ f.call = "notify" -> {None, now} \cup later
    [] f.call = "timeout" \/ f.told -> {None}
    [] OTHER -> {None, now}

\* The time a query is left due at when its handler returns; None if it finished.
\* A packet or latency the handler rejects leaves timeoutTV as it was.  A query that
\* has told its subscriber is over; DSLReqQuery, which tells on every packet and stays
\* (Query.cpp:2154), is the one that is not (DSLScheduler).
Outcomes(f) ==
  LET now == table.byId[heap[f.query].id].at
      later == {t \in Times : t > clock} IN
  CASE heap[f.query].role = "root" /\ f.call = "timeout" -> {None} \cup later
    [] heap[f.query].role = "root" /\ f.call = "notify" -> {None, now} \cup later
    [] f.call = "timeout" \/ f.told -> {None}
    [] heap[f.query].subscriber = None -> {None, now}
    [] OTHER -> {now}

\* Out of the table; deleted if finished, else back at its new time.
UpdateTimeout(q, next) ==
  LET id == heap[q].id
      left == RemoveOldTimeout(table, q, id) IN
  IF next = None
  THEN /\ table' = left
       /\ heap' = [heap EXCEPT ![q] = Deleted]
  ELSE /\ table' = AddTimeout(left, q, id, next)
       /\ heap' = heap

Call(q, call) == [query |-> q, call |-> call, told |-> FALSE]

\* new, insertNewQuery, subscribeLatency, then init() on the new query.
InsertNewQuery(q, role, id, subscriber, at) ==
  /\ heap[q] = Unborn /\ \A p \in 1 .. q - 1 : heap[p] # Unborn
  /\ ~InTable(id)
  /\ at > clock
  /\ heap' = [heap EXCEPT ![q] = [state |-> "live", role |-> role, id |-> id,
                                  subscriber |-> subscriber]]
  /\ table' = AddTimeout(table, q, id, at)
  /\ stack' = Append(stack, Call(q, "init"))

----------------------------------------------------------------------------
(* Steps of a handler *)

\* The running handler makes a query of its own; a scheduler or HandleReq also
\* makes queries nobody waits for.
CreateQuery(q, role, id, at) ==
  /\ Running /\ Creates(Top) /\ ~Top.told
  /\ role \in IF heap[Top.query].role = "root" THEN Roles ELSE {"leaf"}
  /\ InsertNewQuery(q, role, id,
                    IF role = "root" THEN None ELSE heap[Top.query].id, at)
  /\ UNCHANGED <<sweep, phase, clock>>

\* init() found every latency in a cache: it notifies the query itself and then
\* returns without touching it.
NotifySelf ==
  /\ Running /\ Top.call = "init" /\ heap[Top.query].role = "root"
  /\ stack' = Append(Caller(stack), Call(Top.query, "notify"))
  /\ UNCHANGED <<table, heap, sweep, phase, clock>>

\* notifyQLatency on the subscriber's id; nothing happens if no query has it.
TellSubscriber ==
  /\ Running /\ Tells(Top)
  /\ LET slot == table.byId[heap[Top.query].subscriber]
         told == [stack EXCEPT ![Len(stack)].told = TRUE]
     IN  stack' = IF slot = NoSlot THEN told
                  ELSE Append(told, Call(slot.query, "notify"))
  /\ UNCHANGED <<table, heap, sweep, phase, clock>>

ReturnFromInit ==
  /\ Running /\ Top.call = "init"
  /\ stack' = Caller(stack)
  /\ UNCHANGED <<table, heap, sweep, phase, clock>>

\* The handler returns into notifyQPacket, notifyQLatency or handleTimeout.
ReturnFromHandler ==
  /\ Running /\ Top.call # "init"
  /\ \E next \in Outcomes(Top) : UpdateTimeout(Top.query, next)
  /\ stack' = Caller(stack)
  /\ UNCHANGED <<sweep, phase, clock>>

----------------------------------------------------------------------------
(* The event loop *)

\* A packet, or the end of a probe connection, for the query with this id.
Deliver(id) ==
  /\ phase = "events" /\ ~Running
  /\ InTable(id)
  /\ stack' = <<Call(table.byId[id].query, "notify")>>
  /\ phase' = "timeouts"
  /\ UNCHANGED <<table, heap, sweep, clock>>

\* A request from another node, or a node to add: a query starts from the loop.
StartQuery(q, role, id, at) ==
  /\ phase = "events" /\ ~Running
  /\ role # "leaf"
  /\ InsertNewQuery(q, role, id, None, at)
  /\ phase' = "timeouts"
  /\ UNCHANGED <<sweep, clock>>

NoEvent ==
  /\ phase = "events" /\ ~Running
  /\ phase' = "timeouts"
  /\ UNCHANGED <<table, heap, stack, sweep, clock>>

\* timeoutLength against nextTimeout: nothing is due, select may wait.
NothingDue ==
  /\ phase = "timeouts" /\ ~Running /\ sweep = NoSweep
  /\ DueTimes = {}
  /\ phase' = "events"
  /\ UNCHANGED <<table, heap, stack, sweep, clock>>

\* handleTimeout copies the pointers of all the queries that are due.
HandleTimeout ==
  /\ phase = "timeouts" /\ ~Running /\ sweep = NoSweep
  /\ DueTimes # {}
  /\ sweep' = [t \in Times |-> IF t <= clock THEN table.byTime[t] ELSE <<>>]
  /\ UNCHANGED <<table, heap, stack, phase, clock>>

\* curQuery->handleTimeout() on the next of them, in the order of timeoutQueryMap.
TimeOutNext ==
  /\ ~Running
  /\ \E t \in Times :
       /\ sweep[t] # <<>> /\ \A u \in Times : u < t => sweep[u] = <<>>
       /\ stack' = <<Call(Head(sweep[t]), "timeout")>>
       /\ sweep' = [sweep EXCEPT ![t] = Tail(@)]
  /\ UNCHANGED <<table, heap, phase, clock>>

Tick ==
  /\ clock < MaxClock
  /\ clock' = clock + 1
  /\ UNCHANGED <<table, heap, stack, sweep, phase>>

HandlerStep ==
  \/ \E q \in Queries, role \in Roles, id \in Ids, at \in Times : CreateQuery(q, role, id, at)
  \/ NotifySelf
  \/ TellSubscriber
  \/ ReturnFromInit
  \/ ReturnFromHandler

LoopStep ==
  \/ \E id \in Ids : Deliver(id)
  \/ \E q \in Queries, role \in Roles, id \in Ids, at \in Times : StartQuery(q, role, id, at)
  \/ NoEvent
  \/ NothingDue
  \/ HandleTimeout
  \/ TimeOutNext

Next == HandlerStep \/ LoopStep \/ Tick

Spec == Init /\ [][Next]_tableVars

\* The process always runs on: the handlers return and the loop goes round.
FairSpec == Spec /\ WF_tableVars(HandlerStep \/ LoopStep)

----------------------------------------------------------------------------
(* Properties *)

TypeOK ==
  /\ table \in TableState
  /\ heap \in [Queries -> QueryObject \cup {Unborn, Deleted}]
  /\ stack \in Seq(Frame)
  /\ sweep \in [Times -> Seq(Queries)]
  /\ phase \in {"timeouts", "events"}
  /\ clock \in 0 .. MaxClock

\* Every query that exists is found by its own id, and stands exactly once in the
\* vector of the time queryTimeoutMap has for it: the asserts of removeOldTimeout
\* and retrieveOldTimeout (QueryTable.cpp:50, 62, 75) cannot fail, no query leaks
\* and no deleted one is left behind.
MapsAgree ==
  /\ \A id \in Ids : InTable(id) =>
       LET slot == table.byId[id] IN
       /\ Live(slot.query) /\ heap[slot.query].id = id
       /\ slot.query \in Elems(table.byTime[slot.at])
  /\ \A q \in Queries : Live(q) => table.byId[heap[q].id].query = q
  /\ \A t \in Times : \A i \in 1 .. Len(table.byTime[t]) :
       LET q == table.byTime[t][i] IN
       /\ Live(q) /\ table.byId[heap[q].id].at = t
       /\ \A j \in 1 .. Len(table.byTime[t]) : table.byTime[t][j] = q => i = j

\* The state is well-formed and the two maps of the table agree.
TableConsistent == TypeOK /\ MapsAgree

\* No handler runs on, or returns to, a query that has been deleted under it, and
\* handleTimeout's list of raw pointers only holds queries that still exist:
\* whoever notifies whom, and whichever ids are taken again.
NoUseAfterDelete ==
  /\ \A i \in 1 .. Len(stack) : Live(stack[i].query)
  /\ \A t \in Times : \A i \in 1 .. Len(sweep[t]) : Live(sweep[t][i])

\* A query whose time has come is finished or moved to a later time, whatever
\* its handler does and whatever it calls: the loop gets past its timeouts.
Due(q) == \E t \in 0 .. clock : q \in Elems(table.byTime[t])
DueIsHandled == \A q \in Queries : Due(q) ~> ~Due(q)

=============================================================================
