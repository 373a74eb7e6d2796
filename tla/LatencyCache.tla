---------------------------- MODULE LatencyCache ----------------------------
(***************************************************************************)
(* Class LatencyCache: the results of recent TCP, DNS and ping probes.     *)
(* latencyMap finds a node's entry, timeoutMap orders the nodes by the     *)
(* time their entry ends; every operation keeps both in step by hand.      *)
(* Times are whole units of gettimeofday after normalizeTime.              *)
(***************************************************************************)
EXTENDS Integers, Sequences, FiniteSets

CONSTANTS
  Nodes, LatenciesUS,
  ClockTimes,     \* the wall-clock times that occur
  MaxSize,        \* PROBE_CACHE_SIZE
  Period,         \* PROBE_CACHE_TIMEOUT_US
  None

ASSUME LatencyCacheAssumption ==
  /\ IsFiniteSet(Nodes)
  /\ ClockTimes \subseteq Nat
  /\ MaxSize \in Nat
  /\ Period \in Nat
  /\ None \notin [timeout : {t + Period : t \in ClockTimes}, latencyUS : LatenciesUS]

VARIABLES
  cache,          \* [latencyMap, timeoutMap]; no vector is the empty sequence
  clock

cacheVars == <<cache, clock>>

Timeouts == {t + Period : t \in ClockTimes}
Entry == [timeout : Timeouts, latencyUS : LatenciesUS]
CacheState == [latencyMap : [Nodes -> Entry \cup {None}],
               timeoutMap : [Timeouts -> Seq(Nodes)]]

Elems(s) == {s[i] : i \in 1 .. Len(s)}
Held(c) == {n \in Nodes : c.latencyMap[n] # None}

Init ==
  /\ clock \in ClockTimes
  /\ cache = [latencyMap |-> [n \in Nodes |-> None],
              timeoutMap |-> [t \in Timeouts |-> <<>>]]

----------------------------------------------------------------------------
(* The operations *)

\* "v[i] = v.back(); v.pop_back()" at the first position of n.
VectorErase(v, n) ==
  IF n \in Elems(v)
  THEN LET at == CHOOSE i \in 1 .. Len(v) : v[i] = n
       IN  [k \in 1 .. Len(v) - 1 |-> IF k = at THEN v[Len(v)] ELSE v[k]]
  ELSE v

\* Faulty variant: the node stays in its timeout vector.
EraseLatencyOnly(c, n) == [c EXCEPT !.latencyMap[n] = None]

EraseEntry(c, n) ==
  IF c.latencyMap[n] = None THEN c
  ELSE [latencyMap |-> [c.latencyMap EXCEPT ![n] = None],
        timeoutMap |-> [c.timeoutMap EXCEPT
          ![c.latencyMap[n].timeout] = VectorErase(@, n)]]

\* timeoutMap.begin(): the earliest time with a vector.
FirstTimeout(c) ==
  CHOOSE t \in Timeouts : /\ c.timeoutMap[t] # <<>>
                          /\ \A u \in Timeouts : c.timeoutMap[u] # <<>> => t <= u

\* Faulty variant: the bound is tested before the node's old entry goes.
MakeRoomFirst(c, n) ==
  IF Cardinality(Held(c)) >= MaxSize
  THEN EraseEntry(EraseEntry(c, Head(c.timeoutMap[FirstTimeout(c)])), n)
  ELSE EraseEntry(c, n)

\* The old entry of n goes, then the one that ends first if there is no room.
MakeRoom(c, n) ==
  LET left == EraseEntry(c, n)
  IN  IF Cardinality(Held(left)) >= MaxSize
      THEN EraseEntry(left, Head(left.timeoutMap[FirstTimeout(left)]))
      ELSE left

AddEntry(c, n, timeout, latencyUS) ==
  [latencyMap |-> [c.latencyMap EXCEPT
     ![n] = [timeout |-> timeout, latencyUS |-> latencyUS]],
   timeoutMap |-> [c.timeoutMap EXCEPT ![timeout] = Append(@, n)]]

insertMeasurement(n, latencyUS) ==
  /\ MaxSize # 0
  /\ cache' = AddEntry(MakeRoom(cache, n), n, clock + Period, latencyUS)
  /\ UNCHANGED clock

eraseEntry(n) ==
  /\ cache' = EraseEntry(cache, n)
  /\ UNCHANGED clock

\* getLatency: an entry whose time has come is not used, and not removed.
getLatency(n) ==
  IF cache.latencyMap[n] # None /\ cache.latencyMap[n].timeout > clock
  THEN cache.latencyMap[n].latencyUS ELSE None

SetClock == clock' \in ClockTimes /\ UNCHANGED cache

Next ==
  \/ \E n \in Nodes, l \in LatenciesUS : insertMeasurement(n, l)
  \/ \E n \in Nodes : eraseEntry(n)
  \/ SetClock

Spec == Init /\ [][Next]_cacheVars

----------------------------------------------------------------------------
(* Properties *)

CacheTypeOK ==
  /\ clock \in ClockTimes
  /\ cache \in CacheState

InStep(c) ==
  /\ \A n \in Nodes, t \in Timeouts :
       n \in Elems(c.timeoutMap[t]) <=>
         c.latencyMap[n] # None /\ c.latencyMap[n].timeout = t
  /\ \A t \in Timeouts : \A i, j \in 1 .. Len(c.timeoutMap[t]) :
       c.timeoutMap[t][i] = c.timeoutMap[t][j] => i = j

\* Both maps hold the same nodes with the same times, each once; otherwise
\* eraseEntry would fail its assert (LatencyCache.cpp:119), insertMeasurement
\* evict a node that is gone, or the destructor fail (LatencyCache.cpp:40).
Mirrored == InStep(cache)

\* The cache never outgrows its bound: one eviction always makes room.
Bounded == Cardinality(Held(cache)) <= MaxSize

\* Whatever is measured and looked up, under a clock that jumps both ways, the two
\* maps agree with each other and stay within the bound.
CacheConsistent == CacheTypeOK /\ Mirrored /\ Bounded

\* Seen through latencyMap alone the class is a bounded cache that gives up
\* an entry only when full, and then one that ends first.
Abstract == INSTANCE BoundedCache WITH entries <- cache.latencyMap

ImplementsBoundedCache == Abstract!Spec
=============================================================================
