---------------------------- MODULE DSLScheduler ----------------------------
(***************************************************************************)
(* The threads that evaluate MQL programs on a node.  A DSLRecvQuery owns  *)
(* a thread; g_psList is the list of queries to be run, and the event loop *)
(* runs a few of them in each iteration by notifyQLatency.  A thread that  *)
(* calls another node, or asks for distances, makes a query for the call,  *)
(* sets itself PS_BLOCKED and switches back to the loop; the answer sets   *)
(* it PS_READY and puts it on the list again.                              *)
(*                                                                         *)
(* Evaluation between two switches is one step with any of its outcomes.   *)
(***************************************************************************)
EXTENDS Integers, Sequences, FiniteSets

CONSTANTS
  Threads,
  MaxPerIteration,    \* MAX_THREADS_PER_ITERATION
  MaxCalls,           \* bound on the calls of a thread
  MaxReplies,         \* bound on how often the network delivers one DSL reply
  MaxRepeated,        \* bound on the calls whose reply comes more than once
  Occurs              \* the irregular cases that occur, of IrregularCases

\* noSources: distances are asked from an empty array of nodes.
\* noMemory:  ASTCreate finds no room for the array of measurements.
\* notSent:   DSLReqQuery::init fails, as when the TTL is used up.
IrregularCases == {"noSources", "noMemory", "notSent"}

ASSUME DSLSchedulerAssumption ==
  /\ MaxPerIteration \in Nat \ {0}
  /\ MaxCalls \in Nat
  /\ MaxReplies \in Nat \ {0}
  /\ MaxRepeated \in Nat
  /\ Occurs \subseteq IrregularCases

VARIABLES
  thread,         \* the DSLRecvQuery of each thread and its parser state
  calls,          \* the DSLReqQuery and HandleGetDistance queries in the table
  psList,         \* g_psList
  dummyBit,       \* FD_ISSET(g_dummySock, &g_writeSet)
  scan            \* the entries seen in the scheduling loop; Idle outside it

dslVars == <<thread, calls, psList, dummyBit, scan>>

Idle == -1
CallNumber == 0 .. MaxCalls
\* answer is the call whose answer last made the thread ready, 0 once it has run on;
\* turn changes each time the thread runs; lost is history: no answer comes to the
\* call it is blocked in, which was not sent or ended without telling it.
Thread == [state : {"new", "ready", "blocked", "gone"}, call : CallNumber,
           answer : CallNumber, turn : {0, 1}, lost : BOOLEAN]
Call == [thread : Threads, number : CallNumber, kind : {"rpc", "distance"},
         sent : BOOLEAN, replies : 0 .. MaxReplies]

InTable(t) == thread[t].state \in {"ready", "blocked"}
ThreadsIn(s) == {s[i] : i \in 1 .. Len(s)}

DSLInit ==
  /\ thread = [t \in Threads |->
       [state |-> "new", call |-> 0, answer |-> 0, turn |-> 0, lost |-> FALSE]]
  /\ calls = {}
  /\ psList = <<>>
  /\ dummyBit = FALSE
  /\ scan = Idle

\* A DSL_REQUEST packet that parses: a new query and its thread.
DSLRequest(t) ==
  /\ scan = Idle
  /\ thread[t].state = "new"
  /\ thread' = [thread EXCEPT ![t].state = "ready"]
  /\ psList' = Append(psList, t)
  /\ dummyBit' = TRUE
  /\ UNCHANGED <<calls, scan>>

----------------------------------------------------------------------------
(* The scheduling loop *)

StartScan ==
  /\ scan = Idle /\ dummyBit
  /\ scan' = 0
  /\ UNCHANGED <<thread, calls, psList, dummyBit>>

Examines == scan # Idle /\ scan < MaxPerIteration /\ scan < Len(psList)
Examined == psList[scan + 1]

\* A query that is gone or blocked only loses its place in the list.
SkipThread ==
  /\ Examines /\ thread[Examined].state # "ready"
  /\ scan' = scan + 1
  /\ UNCHANGED <<thread, calls, psList, dummyBit>>

Ran(t, state, call, lost) ==
  thread' = [thread EXCEPT ![t] = [state |-> state, call |-> call, answer |-> 0,
                                   turn |-> 1 - @.turn, lost |-> lost]]

Runs(t) == Examines /\ Examined = t /\ thread[t].state = "ready" /\ scan' = scan + 1

\* Faulty variant: a thread that runs on keeps its place.
RunsOnInPlace(t) ==
  /\ Runs(t)
  /\ Ran(t, "ready", thread[t].call, FALSE)
  /\ psList' = SubSeq(psList, 1, scan + 1) \o <<t>> \o SubSeq(psList, scan + 2, Len(psList))
  /\ UNCHANGED <<calls, dummyBit>>

\* The instructions of this turn are used up.
RunsOn(t) ==
  /\ Runs(t)
  /\ Ran(t, "ready", thread[t].call, FALSE)
  /\ psList' = Append(psList, t)
  /\ UNCHANGED <<calls, dummyBit>>

\* The program ends, or dies: a reply is sent or not, the query is finished.
Ends(t) ==
  /\ Runs(t)
  /\ Ran(t, "gone", thread[t].call, FALSE)
  /\ UNCHANGED <<calls, psList, dummyBit>>

NewCall(t, kind, sent) ==
  [thread |-> t, number |-> thread[t].call + 1, kind |-> kind, sent |-> sent, replies |-> 0]

\* handleRPC: the call query is made and its init's result ignored.
CallsNode(t) ==
  /\ Runs(t) /\ thread[t].call < MaxCalls
  /\ \E sent \in IF "notSent" \in Occurs THEN BOOLEAN ELSE {TRUE} :
       /\ Ran(t, "blocked", thread[t].call + 1, ~sent)
       /\ calls' = calls \cup {NewCall(t, "rpc", sent)}
  /\ psList' = Append(psList, t)
  /\ UNCHANGED dummyBit

\* handleGetDistGeneric with nodes to ask.
AsksDistance(t) ==
  /\ Runs(t) /\ thread[t].call < MaxCalls
  /\ Ran(t, "blocked", thread[t].call + 1, FALSE)
  /\ calls' = calls \cup {NewCall(t, "distance", TRUE)}
  /\ psList' = Append(psList, t)
  /\ UNCHANGED dummyBit

\* The same with no nodes: init() notifies the new query, whose results set the
\* thread ready and list it; then the thread sets itself blocked.
AsksNoSources(t) ==
  /\ "noSources" \in Occurs
  /\ Runs(t) /\ thread[t].call < MaxCalls
  /\ Ran(t, "blocked", thread[t].call + 1, TRUE)
  /\ psList' = psList \o <<t, t>>
  /\ dummyBit' = TRUE
  /\ UNCHANGED calls

\* clear_vect: the entries seen go; the trigger is turned off if none is left.
EndScan ==
  /\ scan # Idle /\ ~Examines
  /\ psList' = SubSeq(psList, scan + 1, Len(psList))
  /\ dummyBit' = (scan < Len(psList))
  /\ scan' = Idle
  /\ UNCHANGED <<thread, calls>>

----------------------------------------------------------------------------
(* Answers *)

\* Faulty variant: the thread is made ready but not listed.
WakeUnlisted(c) ==
  /\ thread' = [thread EXCEPT ![c.thread] = [@ EXCEPT !.state = "ready", !.answer = c.number]]
  /\ UNCHANGED <<psList, dummyBit>>

Wake(c) ==
  /\ thread' = [thread EXCEPT ![c.thread] = [@ EXCEPT !.state = "ready", !.answer = c.number]]
  /\ psList' = Append(psList, c.thread)
  /\ dummyBit' = TRUE

\* DSLReqQuery::handleEvent passes the reply to the thread's query and stays, so
\* it passes on each copy that the network delivers, and neither query looks which
\* call it was for.
Reply(c) ==
  /\ scan = Idle
  /\ c \in calls /\ c.kind = "rpc" /\ c.sent
  /\ c.replies < MaxReplies
  /\ c.replies = 1 => Cardinality({d \in calls : d.replies > 1}) < MaxRepeated
  /\ InTable(c.thread)
  /\ calls' = (calls \ {c}) \cup {[c EXCEPT !.replies = @ + 1]}
  /\ Wake(c)
  /\ UNCHANGED scan

\* Faulty variant: the call that returns its results stays in the table.
DistanceStays(c) ==
  /\ scan = Idle
  /\ c \in calls /\ c.kind = "distance"
  /\ IF InTable(c.thread) THEN Wake(c) ELSE UNCHANGED <<thread, psList, dummyBit>>
  /\ UNCHANGED <<calls, scan>>

\* All rows are in, or the call's own timeout came: returnResults.
DistanceReturns(c) ==
  /\ scan = Idle
  /\ c \in calls /\ c.kind = "distance"
  /\ calls' = calls \ {c}
  /\ IF InTable(c.thread) THEN Wake(c) ELSE UNCHANGED <<thread, psList, dummyBit>>
  /\ UNCHANGED scan

\* The same when the array cannot be created: the call ends, the thread is not told.
DistanceReturnsNothing(c) ==
  /\ "noMemory" \in Occurs
  /\ scan = Idle
  /\ c \in calls /\ c.kind = "distance"
  /\ InTable(c.thread)
  /\ calls' = calls \ {c}
  /\ thread' = [thread EXCEPT ![c.thread].lost = TRUE]
  /\ UNCHANGED <<psList, dummyBit, scan>>

\* The DSLRecvQuery times out, and in the same handleTimeout its DSLReqQueries,
\* which copied its time.  Its places in the list stay.
TimeOut(t) ==
  /\ scan = Idle
  /\ InTable(t)
  /\ thread' = [thread EXCEPT ![t].state = "gone"]
  /\ calls' = {c \in calls : c.thread # t \/ c.kind = "distance"}
  /\ UNCHANGED <<psList, dummyBit, scan>>

ScanStep ==
  \/ StartScan
  \/ SkipThread
  \/ \E t \in Threads : RunsOn(t) \/ Ends(t) \/ CallsNode(t) \/ AsksDistance(t) \/ AsksNoSources(t)
  \/ EndScan

DSLNext ==
  \/ \E t \in Threads : DSLRequest(t) \/ TimeOut(t)
  \/ ScanStep
  \/ \E c \in calls : Reply(c) \/ DistanceReturns(c) \/ DistanceReturnsNothing(c)

DSLSpec == DSLInit /\ [][DSLNext]_dslVars

\* The loop goes round as long as there is a thread to run.
DSLFairSpec == DSLSpec /\ WF_dslVars(ScanStep)

----------------------------------------------------------------------------
(* Properties *)

DSLTypeOK ==
  /\ thread \in [Threads -> Thread]
  /\ calls \subseteq Call
  /\ psList \in Seq(Threads)
  /\ dummyBit \in BOOLEAN
  /\ scan \in {Idle} \cup 0 .. MaxPerIteration

\* A thread that can run on stands in the list behind the entries already seen,
\* and the trigger of the loop is set exactly while the list has entries: no
\* answer and no turn of a thread is lost between addPS, the scheduling loop's
\* deferred erase and its copy of the list's end.
ReadyIsListed ==
  LET seen == IF scan = Idle THEN 0 ELSE scan
      left == SubSeq(psList, seen + 1, Len(psList)) IN
  /\ \A t \in Threads : thread[t].state = "ready" => t \in ThreadsIn(left)
  /\ scan = Idle => (dummyBit <=> psList # <<>>)

\* A blocked thread has a call of its own in the table that was sent and has not been
\* answered yet, so that its answer or its timeout wakes it.  Left out are the threads
\* that nothing but their own timeout will wake: their call could not be sent
\* (handleRPC ignores what init returns, Query.cpp:2289), or it ended before they
\* were blocked (2652, 2811) or without a result to give (2697).
BlockedIsAwaited ==
  \A t \in Threads : thread[t].state = "blocked" /\ ~thread[t].lost =>
    \E c \in calls : c.thread = t /\ c.number = thread[t].call /\ c.sent /\ c.replies = 0

\* No thread is forgotten between addPS, the scheduling loop and the answers: one that
\* can run is in the list, one that is blocked has a call whose answer is still to come,
\* unless it lost that call.
NoThreadForgotten == DSLTypeOK /\ ReadyIsListed /\ BlockedIsAwaited

\* A reply to call n of the thread, or to an earlier one, came more than once.
RepliedAgain(t, n) == \E c \in calls : c.thread = t /\ c.number <= n /\ c.replies > 1

\* The answer that makes a thread ready is the answer to the call it is in, unless the
\* network delivered a reply twice.  Nothing but the order of events ties one to the
\* other: the thread takes what it was last given (getRPCRecv and getQueryReturn,
\* Query.cpp:2294, 2827).  A reply that comes again is taken for the answer to the next
\* call, whose own answer then comes late and is taken for that of the one after.  So
\* behind each answer that is not for the thread's call there is a repeated reply, to
\* the call that was answered or to one before it; calls that are not sent, end before
\* the thread is blocked, end without telling it or time out never cause one.
AnswerIsForCall ==
  \A t \in Threads :
    thread[t].state = "ready" /\ thread[t].answer \notin {0, thread[t].call} =>
      RepliedAgain(t, thread[t].answer)

\* However many threads run on without blocking, each of them gets its turn.
ReadyRuns ==
  \A t \in Threads, turn \in {0, 1} :
    []<>~(thread[t].state = "ready" /\ thread[t].turn = turn)

=============================================================================
