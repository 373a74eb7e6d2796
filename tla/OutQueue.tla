------------------------------ MODULE OutQueue ------------------------------
(***************************************************************************)
(* The UDP packets a node has still to send: g_outPacketList, the bit of   *)
(* g_meridSock in g_writeSet, and errno, which writePending reads after    *)
(* performSend whether or not a system call has set it.                    *)
(* Packets are numbered as they are queued.  A packet to a node behind a   *)
(* firewall is wrapped in a PUSH packet, and may be too long for that.     *)
(***************************************************************************)
EXTENDS Integers, Sequences, FiniteSets

CONSTANTS
  Kinds,          \* of {"direct", "wrapped", "unwrappable"}, those that occur
  MaxPackets      \* bound on the packets ever queued

ASSUME OutQueueAssumption ==
  /\ Kinds \subseteq {"direct", "wrapped", "unwrappable"}
  /\ MaxPackets \in Nat

VARIABLES
  outPacketList,  \* the packets queued: [number, kind]
  writeBit,       \* FD_ISSET(g_meridSock, &g_writeSet)
  errno,          \* "EAGAIN" or anything else
  sent,           \* history: the numbers of the packets sent, in order
  dropped,        \* history: the numbers of the packets given up
  next            \* the number of the next packet

queueVars == <<outPacketList, writeBit, errno, sent, dropped, next>>

Packet == [number : 1 .. MaxPackets, kind : Kinds]
Elems(s) == {s[i] : i \in 1 .. Len(s)}

OutInit ==
  /\ outPacketList = <<>>
  /\ writeBit = FALSE
  /\ errno = "other"
  /\ sent = <<>>
  /\ dropped = {}
  /\ next = 1

\* Faulty variant: the newest packet goes first.
AddOutPacketFirst(kind) ==
  /\ next <= MaxPackets
  /\ outPacketList' = <<[number |-> next, kind |-> kind]>> \o outPacketList
  /\ writeBit' = TRUE
  /\ next' = next + 1
  /\ UNCHANGED <<errno, sent, dropped>>

AddOutPacket(kind) ==
  /\ next <= MaxPackets
  /\ outPacketList' = Append(outPacketList, [number |-> next, kind |-> kind])
  /\ writeBit' = TRUE
  /\ next' = next + 1
  /\ UNCHANGED <<errno, sent, dropped>>

----------------------------------------------------------------------------
(* writePending: performSend on one packet after the other *)

Outcomes == {"sent", "error"}
Wrappable(i) == outPacketList[i].kind # "unwrappable"

\* errno when the first packets have gone with these outcomes: sendto sets it
\* when it fails, performSend does not when the packet is too long to wrap.
ErrnoAfter(outcome, n) ==
  IF \E i \in 1 .. n : Wrappable(i) /\ outcome[i] = "error" THEN "other" ELSE errno

\* Faulty variant: a packet too long to wrap is never given up.
PassesIfWrappable(outcome, i) == Wrappable(i)

\* performSend on packet i does not end in EAGAIN.
Passes(outcome, i) ==
  \/ Wrappable(i)
  \/ outcome[i] = "error" /\ ErrnoAfter(outcome, i - 1) # "EAGAIN"

Numbers(list) == [i \in 1 .. Len(list) |-> list[i].number]

\* The first n packets leave the queue: sent, or given up on an error.
Leave(outcome, n) ==
  LET gone == {i \in 1 .. n : outcome[i] = "sent"}
      order == CHOOSE f \in [1 .. Cardinality(gone) -> gone] :
                 \A a, b \in 1 .. Cardinality(gone) : a < b => f[a] < f[b]
  IN
  /\ sent' = sent \o [k \in 1 .. Cardinality(gone) |-> outPacketList[order[k]].number]
  /\ dropped' = dropped \cup {outPacketList[i].number : i \in (1 .. n) \ gone}
  /\ outPacketList' = SubSeq(outPacketList, n + 1, Len(outPacketList))

\* The loop breaks: sendto would block on the next packet, or performSend failed
\* on it before sendto and errno is an old EAGAIN.
BlockAt(outcome, n) ==
  /\ n < Len(outPacketList)
  /\ \/ Wrappable(n + 1) /\ errno' = "EAGAIN"
     \/ /\ ~Wrappable(n + 1) /\ ErrnoAfter(outcome, n) = "EAGAIN"
        /\ errno' = ErrnoAfter(outcome, n)
  /\ Leave(outcome, n)
  /\ writeBit' = writeBit

AllLeave(outcome) ==
  /\ errno' = ErrnoAfter(outcome, Len(outPacketList))
  /\ Leave(outcome, Len(outPacketList))
  /\ writeBit' = FALSE

WritePending ==
  /\ writeBit
  /\ \E n \in 0 .. Len(outPacketList) : \E outcome \in [1 .. n -> Outcomes] :
       /\ \A i \in 1 .. n : Passes(outcome, i)
       /\ \/ BlockAt(outcome, n)
          \/ n = Len(outPacketList) /\ AllLeave(outcome)
  /\ UNCHANGED next

\* A system call of another part of the process fails with another error.
OtherCallFails ==
  /\ errno # "other"
  /\ errno' = "other"
  /\ UNCHANGED <<outPacketList, writeBit, sent, dropped, next>>

OutNext ==
  \/ \E kind \in Kinds : AddOutPacket(kind)
  \/ WritePending
  \/ OtherCallFails

OutSpec == OutInit /\ [][OutNext]_queueVars

\* The socket takes a packet, or refuses it, again and again.
PacketsLeave == WritePending /\ Len(outPacketList') < Len(outPacketList)
OutFairSpec == OutSpec /\ SF_queueVars(PacketsLeave)

----------------------------------------------------------------------------
(* Properties *)

OutTypeOK ==
  /\ outPacketList \in Seq(Packet)
  /\ writeBit \in BOOLEAN
  /\ errno \in {"EAGAIN", "other"}
  /\ sent \in Seq(1 .. MaxPackets)
  /\ dropped \subseteq 1 .. MaxPackets
  /\ next \in 1 .. MaxPackets + 1

\* select watches the socket exactly while there is a packet to send: the assert
\* of writePending (MeridianProcess.cpp:461) cannot fail, and no packet is left
\* queued with nobody to send it.
WatchedIffQueued == writeBit <=> outPacketList # <<>>

\* Each packet queued is still queued, or was sent once, or was given up; those
\* sent went in the order they were queued, ahead of those that wait.
PacketsInOrder ==
  LET line == sent \o Numbers(outPacketList) IN
  /\ \A i, j \in 1 .. Len(line) : i < j => line[i] < line[j]
  /\ Elems(line) \cup dropped = 1 .. next - 1
  /\ Elems(line) \cap dropped = {}

\* The state is well-formed, the select bit follows the queue, and refusals and
\* errors lose, repeat or overtake no packet.
QueueConsistent == OutTypeOK /\ WatchedIffQueued /\ PacketsInOrder

\* The head of the queue is too long to wrap, and errno still says EAGAIN.
Stuck == outPacketList # <<>> /\ ~Wrappable(1) /\ errno = "EAGAIN"

\* While the socket keeps taking packets, every packet queued is sent or given up,
\* in whatever order refusals, errors and new packets come, as long as no stale
\* errno holds up the head of the queue for ever.
EveryPacketLeaves ==
  []<>~Stuck => \A n \in 1 .. MaxPackets : n < next ~> n \in dropped \cup Elems(sent)

=============================================================================
