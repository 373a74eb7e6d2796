---------------------------- MODULE MCMembership ----------------------------
(* Small overlays of Membership for TLC: one seed node s, and x and y that     *)
(* know of s only.                                                             *)
EXTENDS Membership

CONSTANTS s, x, y

SeedsOfAll == [n \in Nodes |-> IF n = s THEN {} ELSE {s}]
RoomForAll == [n \in Nodes |-> Nodes]

\* The rings of s are full of nodes nearer than x.
NoRoomForX == [n \in Nodes |-> IF n = s THEN Nodes \ {x} ELSE Nodes]

\* All in one ring, and y in a ring of its own.
OneRing == [n \in Nodes |-> [m \in Nodes |-> 0]]
TwoRings == [n \in Nodes |-> [m \in Nodes |-> IF m = y THEN 1 ELSE 0]]

\* Two firewalled nodes and their seed, which may end; packets lost or late.
BehindFirewalls ==
    [firewalled |-> {x, y}, room |-> RoomForAll, ring |-> TwoRings,
     pushPull |-> TRUE, timely |-> FALSE, mortal |-> {s}]

\* The seed has no room for x; what is sent arrives.
SeedIsFull ==
    [firewalled |-> {}, room |-> NoRoomForX, ring |-> TwoRings,
     pushPull |-> TRUE, timely |-> TRUE, mortal |-> {}]

\* y ends for good; packets lost or late.
OneEnds ==
    [firewalled |-> {}, room |-> RoomForAll, ring |-> OneRing,
     pushPull |-> FALSE, timely |-> FALSE, mortal |-> {y}]

ThreeOverlays == {BehindFirewalls, SeedIsFull, OneEnds}
==============================================================================
