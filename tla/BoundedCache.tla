---------------------------- MODULE BoundedCache ----------------------------
(***************************************************************************)
(* What the probing queries expect of a latency cache: at most MaxSize     *)
(* nodes, each with its last measurement and the time until which it may   *)
(* be used; a measurement of a new node displaces one whose time ends      *)
(* first, and only when there is no room.                                  *)
(***************************************************************************)
EXTENDS Integers, FiniteSets

CONSTANTS Nodes, LatenciesUS, ClockTimes, MaxSize, Period, None

VARIABLES entries, clock

Entry == [timeout : {t + Period : t \in ClockTimes}, latencyUS : LatenciesUS]

Held == {n \in Nodes : entries[n] # None}

Init == clock \in ClockTimes /\ entries = [n \in Nodes |-> None]

\* The nodes given up for a measurement of n.
Victims(n) ==
  IF Cardinality(Held \ {n}) < MaxSize THEN {{}}
  ELSE {{v} : v \in {v \in Held \ {n} :
          \A m \in Held \ {n} : entries[v].timeout <= entries[m].timeout}}

Measure(n, latencyUS) ==
  /\ MaxSize > 0
  /\ \E out \in Victims(n) :
       entries' = [m \in Nodes |->
         IF m = n THEN [timeout |-> clock + Period, latencyUS |-> latencyUS]
         ELSE IF m \in out THEN None ELSE entries[m]]
  /\ UNCHANGED clock

Forget(n) ==
  /\ entries' = [entries EXCEPT ![n] = None]
  /\ UNCHANGED clock

\* The wall clock, which may also be set back.
SetClock == clock' \in ClockTimes /\ UNCHANGED entries

Next ==
  \/ \E n \in Nodes, l \in LatenciesUS : Measure(n, l)
  \/ \E n \in Nodes : Forget(n)
  \/ SetClock

Spec == Init /\ [][Next]_<<entries, clock>>
=============================================================================
