---------------------------- MODULE MCRendezvous ----------------------------
(* Nodes, packets and traffic of Rendezvous for TLC.                          *)
EXTENDS Rendezvous

\* c1 and c2 are behind a firewall, s1 and s2 send to them.
c1 == <<1, 3>>
c2 == <<2, 3>>
s1 == <<3, 1>>
s2 == <<3, 2>>
AllNodes == {c1, c2, s1, s2}
BothClients == {c1, c2}

\* The values of programs, two or three deep, among them some that cannot be sent,
\* that have a part without a value, or that fit an answer but no request.
Seven == [type |-> INT_TYPE, val |-> 7]
Text == [type |-> STRING_TYPE, val |-> <<41, 5>>]
Base == {Empty, Seven, Text, [type |-> STRING_TYPE, val |-> NoString],
         [type |-> DOUBLE_TYPE, val |-> 8], [type |-> ADT_TYPE]}
Some1(parts) == {<<>>} \cup {<<v>> : v \in parts} \cup {<<v, Seven>> : v \in parts}
Structs(parts) ==
  {[type |-> VAR_ADT_TYPE, adt |-> <<42, 2>>, fields |-> [i \in DOMAIN l |-> <<<<42 + i, i>>, l[i]>>]] :
     l \in Some1(parts)}
Flat == Base \cup Structs(Base)
Arrays == {[type |-> ARRAY_TYPE, of |-> t, adt |-> NoString, list |-> l] :
             t \in {INT_TYPE, STRING_TYPE}, l \in Some1(Base)}
          \cup {[type |-> ARRAY_TYPE, of |-> ADT_TYPE, adt |-> <<42, 2>>, list |-> l] :
                   l \in Some1(Structs({Seven, Empty}))}
Calls == {[type |-> SEP_TYPE, list |-> l] : l \in Some1(Flat)}
AllValues == Flat \cup Arrays \cup Calls
Program(size) == [size |-> size, packed |-> <<50, 2>>]

\* A packet of every class, with every number of targets up to one that is too many.
Some(n) == [i \in 1 .. n |-> <<i \div 4, i>>]
Known(n) == [i \in 1 .. n |-> <<i \div 4, i, 7 - i>>]
Rings(n) == [i \in 1 .. n |-> <<i % 2, i \div 4, i, i + 5>>]
Ids == {0, 3, 6, 15}
Lists == 0 .. 7
AllSamples ==
  [type : PlainTypes, id : Ids]
  \cup {[type |-> t, id |-> i, rendv |-> r, targets |-> Some(n)] :
          t \in MeasureTypes, i \in {6}, r \in {<<0, 0>>, s1}, n \in Lists}
  \cup {[type |-> t, id |-> i, rendv |-> r, betaNum |-> 1, betaDen |-> 2, targets |-> Known(n)] :
          t \in ConstraintTypes, i \in {6}, r \in {<<0, 0>>, s1}, n \in Lists}
  \cup {[type |-> t, id |-> i, rendv |-> r, betaNum |-> 1, betaDen |-> 2, targets |-> Some(n)] :
          t \in ClosestTypes, i \in {6}, r \in {<<0, 0>>, s1}, n \in Lists}
  \cup {[type |-> RET_INFO, id |-> i, node |-> n] : i \in Ids, n \in {<<0, 0>>, s2}}
  \cup {[type |-> RET_RESPONSE, id |-> 6, node |-> m, targets |-> Known(n)] :
          m \in {<<0, 0>>, s2}, n \in Lists}
  \cup {[type |-> RET_PING_REQ, id |-> 6, targets |-> Known(n)] : n \in Lists}
  \cup {[type |-> t, id |-> 6, rendv |-> r, targets |-> Rings(n)] :
          t \in GossipTypes, r \in {<<0, 0>>, s1}, n \in Lists}
  \cup {[type |-> INFO_PACKET, id |-> 6, targets |-> Rings(n)] : n \in Lists}
  \cup {[type |-> DSL_REQUEST, id |-> 6, rendv |-> s1, msRemain |-> 1, ttl |-> 2,
          text |-> t, func |-> <<40, 2>>, param |-> v] :
          t \in {Program(4), Program(9)}, v \in AllValues}
  \cup {[type |-> DSL_REPLY, id |-> 6, value |-> v] : v \in AllValues}

\* A PONG, an answer that means its sender, and a request that fits a PUSH of 60 bytes
\* but no PULL.
Pong == [type |-> 15, id |-> 6]
Answer == [type |-> RET_RESPONSE, id |-> 6, node |-> <<0, 0>>, targets |-> Known(1)]
TooLong == [type |-> 3, id |-> 6, rendv |-> <<0, 0>>, targets |-> Some(3)]
SomeTraffic == {<<s1, Pong>>, <<s2, Answer>>, <<s1, TooLong>>}
=============================================================================
