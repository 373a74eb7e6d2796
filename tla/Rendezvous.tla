------------------------------ MODULE Rendezvous ------------------------------
(* The tunnel to a node behind a firewall.  The node, a client, holds a TCP      *)
(* connection to its rendezvous node, the host.  Whoever sends it a packet sends *)
(* the host a PUSH; the host queues it as a PULL on the client's connection,     *)
(* writes the queue out as the connection takes it, and the client cuts the      *)
(* stream back into packets.  The host may meet a client that comes back while   *)
(* its old connection is still there; clients may stop at any time.              *)
EXTENDS Packets

CONSTANTS
  Clients,    \* the addresses of the nodes behind a firewall
  Traffic,    \* what is sent to them: pairs of a sender and a packet
  RendvFDs,   \* the descriptors the host has left for their connections
  SendSizes,  \* the bytes a send may take, if it does not take all
  RecvSizes,  \* the bytes a recv may return, if it does not return all
  MaxConns,   \* a bound: the connections that are opened
  MaxPushes   \* a bound: the PUSH packets that are sent

ASSUME RendezvousAssumption ==
  /\ Clients \subseteq Nodes /\ Traffic \subseteq Nodes \X Samples
  /\ SendSizes \subseteq Nat \ {0} /\ RecvSizes \subseteq Nat \ {0}
  /\ MaxConns \in Nat /\ MaxPushes \in Nat
  /\ Null \notin RendvFDs

VARIABLES
  host,         \* "runs", or why it does not
  connections,  \* g_rendvConnections: the descriptor of each client, Null if none
  queue,        \* g_rendvQueue: the packets waiting on a descriptor, Null if no entry
  rendvWriteSet,  \* those of their descriptors that are in g_writeSet
  rendvSocket,  \* rendvSocket[fd]: the connection that is open at fd, 0 if none
  backlog,      \* the connections that wait for accept
  owner,        \* owner[k]: the client that opened connection k
  wire,         \* wire[k]: the bytes on their way to it
  tunnel,       \* tunnel[c]: the connection of a running client (g_rendvFD), 0 if stopped
  received,     \* received[c]: the bytes in g_rendvRecvPacket
  pushes,       \* how much of MaxPushes has been used
  pushed,       \* pushed[k]: history, what was queued for the running client of k
  taken         \* taken[c]: history, what a running client took from its tunnel

mapVars == <<connections, queue, rendvWriteSet, rendvSocket>>
clientVars == <<tunnel, received, taken>>
rendvVars == <<host, mapVars, backlog, owner, wire, clientVars, pushes, pushed>>

Conns == 1 .. MaxConns
Running(k) == k # 0 /\ tunnel[owner[k]] = k

RendvInit ==
  /\ host = "runs"
  /\ connections = [c \in Clients |-> Null]
  /\ queue = [fd \in RendvFDs |-> Null]
  /\ rendvWriteSet = {}
  /\ rendvSocket = [fd \in RendvFDs |-> 0]
  /\ backlog = <<>> /\ owner = <<>>
  /\ wire = [k \in Conns |-> <<>>]
  /\ tunnel = [c \in Clients |-> 0]
  /\ received = [c \in Clients |-> <<>>]
  /\ pushes = 0
  /\ pushed = [k \in Conns |-> <<>>]
  /\ taken = [c \in Clients |-> <<>>]

----------------------------------------------------------------------------
(* The client *)

\* createRendavousTunnel of a client that starts: it is connected before the host
\* accepts.  (If it cannot connect it does not start.)
StartClient(c) ==
  /\ host = "runs" /\ tunnel[c] = 0 /\ Len(owner) < MaxConns
  /\ owner' = Append(owner, c)
  /\ backlog' = Append(backlog, Len(owner) + 1)
  /\ tunnel' = [tunnel EXCEPT ![c] = Len(owner) + 1]
  /\ UNCHANGED <<host, mapVars, wire, received, taken, pushes, pushed>>

\* recv into what is left of the buffer may return this many bytes.
Room(c) == MaxPacketSize - Len(received[c])
Receivable(c) ==
  LET most == IF Len(wire[tunnel[c]]) <= Room(c) THEN Len(wire[tunnel[c]]) ELSE Room(c)
  IN {n \in RecvSizes \cup {most} : n <= most} \ {0}

\* handleRendavous of the client: after recv one packet, if it is all there, is cut off
\* the front of the buffer and handled; what is behind it stays for the next recv.
Recv(c) ==
  /\ tunnel[c] # 0
  /\ \E n \in Receivable(c), k \in {tunnel[c]} :
     \E buf \in {received[c] \o SubSeq(wire[k], 1, n)} : \E pull \in {ParsePull(buf)} :
       /\ wire' = [wire EXCEPT ![k] = SubSeq(@, n + 1, Len(@))]
       /\ IF pull = Null
          THEN received' = [received EXCEPT ![c] = buf] /\ UNCHANGED taken
          ELSE /\ received' = [received EXCEPT ![c] = pull.rest]
               /\ taken' = [taken EXCEPT ![c] = Append(@,
                    [from |-> pull.from, packet |-> Parses(pull.from, pull.payload)])]
  /\ UNCHANGED <<host, mapVars, backlog, owner, tunnel, pushes, pushed>>

\* recv returns 0, as it does at the end of the stream and for a full buffer, or -1:
\* the select loop ends and the node with it, as when it is stopped.
StopClient(c) ==
  /\ tunnel[c] # 0
  /\ tunnel' = [tunnel EXCEPT ![c] = 0]
  /\ received' = [received EXCEPT ![c] = <<>>]
  /\ taken' = [taken EXCEPT ![c] = <<>>]
  /\ wire' = [wire EXCEPT ![tunnel[c]] = <<>>]
  /\ pushed' = [pushed EXCEPT ![tunnel[c]] = <<>>]
  /\ UNCHANGED <<host, mapVars, backlog, owner, pushes>>

----------------------------------------------------------------------------
(* The host: a PUSH arrives *)

Connected(dest) == dest \in Clients /\ connections[dest] # Null

\* The packet goes to the back of the queue of its client's connection.  (It has one:
\* the "Inconsistent rendavous state" of line 568 is excluded by MapsInStep.)
Relay(pull, sender, p) ==
  LET fd == connections[pull.dest] IN
  /\ queue' = [queue EXCEPT ![fd] = Append(@, [bytes |-> pull.bytes, pos |-> 0])]
  /\ rendvWriteSet' = rendvWriteSet \cup {fd}
  /\ pushed' = IF Running(rendvSocket[fd])
               THEN [pushed EXCEPT ![rendvSocket[fd]] = Append(@, [from |-> sender, packet |-> p])]
               ELSE pushed
  /\ UNCHANGED <<host, connections>>

\* handleNewPacket on the PUSH in which a sender wrapped a packet for client c.
\* PushPacket::parse has no answer if the header of a PULL, longer than that of a PUSH,
\* leaves the packet no room; the host goes on with the NULL it got and is gone.
ReceivePush(sender, p, c) ==
  /\ host = "runs" /\ pushes < MaxPushes /\ pushes' = pushes + 1
  /\ \E payload \in {Creates(p)} \ {Null} :
     \E push \in {WrapPush(c, payload)} \ {Null} : \E pull \in {ParsePush(sender, push)} :
       \/ pull = Null /\ host' = "no PULL" /\ UNCHANGED <<connections, queue, rendvWriteSet, pushed>>
       \/ /\ pull # Null /\ ~Connected(pull.dest)
          /\ UNCHANGED <<host, connections, queue, rendvWriteSet, pushed>>
       \/ pull # Null /\ Connected(pull.dest) /\ Relay(pull, sender, p)
  /\ UNCHANGED <<rendvSocket, backlog, owner, wire, clientVars>>

----------------------------------------------------------------------------
(* The host: handleRendavous *)

Maps == [connections |-> connections, queue |-> queue,
         writeSet |-> rendvWriteSet, socket |-> rendvSocket]

\* removeRendavousConnection
RemoveConnection(h, c) ==
  LET fd == h.connections[c] IN
  [h EXCEPT !.connections[c] = Null, !.queue[fd] = Null,
            !.writeSet = @ \ {fd}, !.socket[fd] = 0]

\* Faulty variant: an old connection is closed first, and its descriptor used again.
AcceptAfterClose(fd) ==
  LET k == Head(backlog)
      c == owner[k]
      new == IF connections[c] = Null THEN fd ELSE connections[c]
  IN [Maps EXCEPT !.connections[c] = new, !.queue[new] = <<>>, !.socket[new] = k,
                  !.writeSet = @ \ {new}]

\* The connection first in line gets descriptor fd; then an old connection of the same
\* client is removed.
Accept(fd) ==
  LET k == Head(backlog)
      c == owner[k]
      opened == [Maps EXCEPT !.socket[fd] = k]
      left == IF connections[c] = Null THEN opened ELSE RemoveConnection(opened, c)
  IN [left EXCEPT !.connections[c] = fd, !.queue[fd] = <<>>]

\* The bytes that send may take of the packet in front: all that are left, or some, or
\* none because the connection has failed.
SendOutcomes(q) ==
  LET left == Len(Head(q).bytes) - Head(q).pos
  IN {0, left} \cup {n \in SendSizes : n < left}

\* Faulty variant: a packet that was taken in part is sent again from its start.
ShorterRestarts(q, n) == IF Head(q).pos + n = Len(Head(q).bytes) THEN Tail(q) ELSE q

\* The queue when n bytes of the packet in front have gone, and those bytes.
Shorter(q, n) ==
  IF Head(q).pos + n = Len(Head(q).bytes) THEN Tail(q)
  ELSE <<[Head(q) EXCEPT !.pos = @ + n]>> \o Tail(q)
Taken(q, n) == SubSeq(Head(q).bytes, Head(q).pos + 1, Head(q).pos + n)

\* The loop over the connections, when send takes sent[fd] bytes of those served.
ServeAll(h, sent) ==
  LET dead == {fd \in DOMAIN sent : sent[fd] = 0}   \* deleteVector
      left == [fd \in RendvFDs |-> IF fd \in dead THEN Null
                              ELSE IF fd \in DOMAIN sent /\ sent[fd] # 0
                              THEN Shorter(h.queue[fd], sent[fd])
                              ELSE h.queue[fd]] IN
  /\ connections' = [c \in Clients |-> IF h.connections[c] \in dead THEN Null ELSE h.connections[c]]
  /\ queue' = left
  /\ rendvWriteSet' = {fd \in h.writeSet : fd \in DOMAIN sent => left[fd] \notin {Null, <<>>}}
  /\ rendvSocket' = [fd \in RendvFDs |-> IF fd \in dead THEN 0 ELSE h.socket[fd]]
  /\ wire' = [k \in Conns |-> wire[k] \o
       (IF \E fd \in DOMAIN sent : h.socket[fd] = k /\ Running(k) /\ sent[fd] # 0
        THEN LET fd == CHOOSE f \in DOMAIN sent : h.socket[f] = k IN Taken(h.queue[fd], sent[fd])
        ELSE <<>>)]
  /\ UNCHANGED host

\* select found the listener readable, or not, and these descriptors writable.  The
\* loop then asks the packet in front of each of their queues.
HandleRendavous(accepts, fd, writable) ==
  /\ host = "runs"
  /\ accepts \/ writable # {}
  /\ backlog' = IF accepts THEN Tail(backlog) ELSE backlog
  /\ \E h \in {IF accepts THEN Accept(fd) ELSE Maps} :
     \E ready \in {{h.connections[c] : c \in Clients} \cap writable} :
       IF \E f \in ready : h.queue[f] \in {Null, <<>>}
       THEN host' = "no packet" /\ UNCHANGED <<mapVars, wire>>
       ELSE \E sent \in [ready -> UNION {SendOutcomes(h.queue[f]) : f \in ready}] :
              (\A f \in ready : sent[f] \in SendOutcomes(h.queue[f])) /\ ServeAll(h, sent)
  /\ UNCHANGED <<owner, clientVars, pushes, pushed>>

HostTurn ==
  \E writable \in SUBSET rendvWriteSet :
    \/ HandleRendavous(FALSE, Null, writable)
    \/ /\ backlog # <<>>
       /\ \E fd \in RendvFDs : rendvSocket[fd] = 0 /\ HandleRendavous(TRUE, fd, writable)

RendvNext ==
  \/ \E c \in Clients : StartClient(c) \/ StopClient(c) \/ Recv(c)
  \/ \E t \in Traffic, c \in Clients : ReceivePush(t[1], t[2], c)
  \/ HostTurn

RendvSpec == RendvInit /\ [][RendvNext]_rendvVars

\* What waits on a descriptor gets on, or the connection goes: TCP has room for more
\* bytes in the end, or has given the connection up, and select says so.  In the same
\* way a client finds its tunnel readable.  Each is WF_rendvVars of HandleRendavous, or of
\* Recv, with ENABLED written out.
Waiting(fd) == host = "runs" /\ fd \in rendvWriteSet
Serves(fd) ==
  queue'[fd] = Null \/ Len(queue'[fd]) < Len(queue[fd]) \/ Head(queue'[fd]) # Head(queue[fd])
Readable(c) == tunnel[c] # 0 /\ Receivable(c) # {}
Reads(c) == tunnel'[c] = tunnel[c] /\ Len(wire'[tunnel[c]]) < Len(wire[tunnel[c]])

RendvFairSpec ==
  /\ RendvSpec
  /\ \A fd \in RendvFDs : []<>~Waiting(fd) \/ []<><<Waiting(fd) /\ Serves(fd)>>_rendvVars
  /\ \A c \in Clients : []<>~Readable(c) \/ []<><<Readable(c) /\ Reads(c)>>_rendvVars

----------------------------------------------------------------------------
(* Properties *)

RendvTypeOK ==
  /\ host \in {"runs", "no PULL", "no packet"}
  /\ connections \in [Clients -> RendvFDs \cup {Null}]
  /\ DOMAIN queue = RendvFDs
  /\ rendvWriteSet \subseteq RendvFDs
  /\ rendvSocket \in [RendvFDs -> 0 .. Len(owner)]
  /\ tunnel \in [Clients -> 0 .. Len(owner)]

\* g_rendvConnections, g_rendvQueue and g_writeSet are kept in step by hand: each
\* connection has a descriptor of its own with a queue, nothing else has one, and a
\* descriptor is watched exactly while packets wait on it.
MapsInStep ==
  /\ \A c, d \in Clients : connections[c] # Null /\ connections[c] = connections[d] => c = d
  /\ \A fd \in RendvFDs :
       /\ queue[fd] # Null <=> \E c \in Clients : connections[c] = fd
       /\ queue[fd] # Null <=> rendvSocket[fd] # 0
       /\ fd \in rendvWriteSet <=> queue[fd] \notin {Null, <<>>}
  /\ \A c \in Clients : connections[c] # Null => owner[rendvSocket[connections[c]]] = c

\* What a running node writes another reads, field by field and value by value; cut short
\* anywhere it is refused whole, or is an answer without a value, so a list is never
\* taken for a shorter one.
PacketsReadAsWritten == host = "runs" => ReadAsWritten

\* The maps agree, whatever clients come back, fail or are replaced, and the loop never
\* asks an empty queue for the packet in front (MeridianProcess.cpp:1342, 1345).
HostConsistent == RendvTypeOK /\ MapsInStep /\ host # "no packet"

\* The bytes that host and network still hold for the client of connection k.
Unsent(fd) ==
  FlattenSeq([i \in 1 .. Len(queue[fd]) |->
                SubSeq(queue[fd][i].bytes, queue[fd][i].pos + 1, Len(queue[fd][i].bytes))])

PullOf(e, c) == ParsePush(e.from, WrapPush(c, Creates(e.packet))).bytes

\* A client takes from its tunnel the packets that were pushed, in that order, as their
\* senders wrote them and under the senders' addresses; what it has not taken is all in
\* its buffer, on the wire and, as long as its connection is open, in its queue.
TunnelKeepsStream ==
  \A c \in Clients : tunnel[c] # 0 =>
    LET k == tunnel[c]
        more == [i \in 1 .. Len(pushed[k]) - Len(taken[c]) |-> PullOf(pushed[k][Len(taken[c]) + i], c)]
        held == received[c] \o wire[k]
    IN /\ Len(taken[c]) <= Len(pushed[k])
       /\ \A i \in DOMAIN taken[c] : taken[c][i] =
            [from |-> pushed[k][i].from, packet |-> Received(pushed[k][i].packet, pushed[k][i].from)]
       /\ IF \E fd \in RendvFDs : rendvSocket[fd] = k
          THEN FlattenSeq(more) = held \o Unsent(CHOOSE fd \in RendvFDs : rendvSocket[fd] = k)
          ELSE IsPrefix(held, FlattenSeq(more))

\* The client never asks for 0 bytes, which it would take for the end of the stream.
BufferHasRoom == \A c \in Clients : Room(c) > 0

StreamConsistent == TunnelKeepsStream /\ BufferHasRoom

\* As long as the host runs every queue drains, and the first packet that is queued for
\* a client reaches it, unless the connection fails or the client stops.
QueuesDrain == \A fd \in RendvFDs : host = "runs" ~> host # "runs" \/ fd \notin rendvWriteSet
FirstPacketArrives ==
  \A c \in Clients, k \in Conns :
    tunnel[c] = k /\ pushed[k] # <<>> ~>
      tunnel[c] # k \/ taken[c] # <<>> \/ host # "runs" \/ \A fd \in RendvFDs : rendvSocket[fd] # k
PacketsMoveOn == QueuesDrain /\ FirstPacketArrives
============================================================================
