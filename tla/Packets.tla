------------------------------- MODULE Packets -------------------------------
(* The packets of Marshal.h: what createRealPacket writes, and what parse makes  *)
(* of it.  Writers and readers are written by hand, one pair for each class, and *)
(* nothing but their agreement field by field keeps them in step.                *)
(* The hash behind MAGIC_NUMBER and the compression of programs are abstracted.  *)
EXTENDS Values

CONSTANTS
  Samples,         \* the packets that nodes write, as records of their fields
  Nodes,           \* the addresses of nodes, <<addr, port>>
  WordSize,        \* the number of values of a uint32_t, for the halves of an id
  MagicNumber,
  MaxProgramSize   \* MAX_PROGRAM_SIZE, of the text of an MQL program

ASSUME PacketsAssumption ==
  /\ WordSize \in Nat \ {0} /\ MagicNumber \in Nat /\ MaxProgramSize \in Nat
  /\ Nodes \subseteq Nat \X Nat

\* The types of each class.
MeasureTypes == {3, 5, 7}
ConstraintTypes == {1, 20, 21}
ClosestTypes == {2, 4, 6}
PlainTypes == {14, 15, 16, 17, 18}
GossipTypes == {10, 23}
RET_RESPONSE == 9
PUSH == 11
PULL == 12
RET_PING_REQ == 13
RET_INFO == 19
INFO_PACKET == 22
DSL_REQUEST == 24
DSL_REPLY == 25

\* What a packet of each class holds; the addresses are those of any nodes.
ASSUME SamplesAssumption ==
  \A p \in Samples :
    \/ p \in [type : MeasureTypes, id : Nat, rendv : Nat \X Nat, targets : Seq(Nat \X Nat)]
    \/ p \in [type : ConstraintTypes, id : Nat, rendv : Nat \X Nat, betaNum : Nat, betaDen : Nat,
             targets : Seq(Nat \X Nat \X Nat)]
    \/ p \in [type : ClosestTypes, id : Nat, rendv : Nat \X Nat, betaNum : Nat, betaDen : Nat,
             targets : Seq(Nat \X Nat)]
    \/ p \in [type : PlainTypes, id : Nat]
    \/ p \in [type : {RET_INFO}, id : Nat, node : Nat \X Nat]
    \/ p \in [type : {RET_RESPONSE}, id : Nat, node : Nat \X Nat, targets : Seq(Nat \X Nat \X Nat)]
    \/ p \in [type : {RET_PING_REQ}, id : Nat, targets : Seq(Nat \X Nat \X Nat)]
    \/ p \in [type : GossipTypes, id : Nat, rendv : Nat \X Nat,
             targets : Seq(Nat \X Nat \X Nat \X Nat)]
    \/ p \in [type : {INFO_PACKET}, id : Nat, targets : Seq(Nat \X Nat \X Nat \X Nat)]
    \/ /\ p \in [type : {DSL_REQUEST}, id : Nat, rendv : Nat \X Nat, msRemain : Nat, ttl : Nat,
                text : [size : Nat, packed : Nat \X Nat], func : Nat \X Nat, param : Values]
       /\ IsString(p.text.packed) /\ IsString(p.func)
    \/ p \in [type : {DSL_REPLY}, id : Nat, value : Values]

----------------------------------------------------------------------------
(* What most packets have: the id, addresses, and lists of nodes *)

\* write_id with its to32, write_rendv, and the NodeIdents of a list.
WriteId(type, id) ==
  Char(type) \o Uint(id \div WordSize) \o Uint(id % WordSize) \o Uint(MagicNumber)
WriteIdent(n) == Uint(n[1]) \o Ushort(n[2])
WriteIdentInt(n) == WriteIdent(n) \o Uint(n[3])
WriteIdentRendv(n) == WriteIdent(n) \o WriteIdent(<<n[3], n[4]>>)
Idents(list) == [i \in DOMAIN list |-> WriteIdent(list[i])]
IdentInts(list) == [i \in DOMAIN list |-> WriteIdentInt(list[i])]
IdentRendvs(list) == [i \in DOMAIN list |-> WriteIdentRendv(list[i])]

\* The type, the id and the magic number, which begin every packet.
HeaderWidths == <<1, 4, 4, 4>>
IdentWidths == <<4, 2>>
Opens(fields, type) ==
  /\ \A i \in DOMAIN fields : fields[i] # Null
  /\ fields[1] = type /\ fields[4] = MagicNumber
To64(fields) == fields[2] * WordSize + fields[3]

----------------------------------------------------------------------------
(* The requests.  betas is there in those of a search only. *)

CreateReqGeneric(p) ==
  IF p.targets = <<>> THEN Null
  ELSE Complete(WriteId(p.type, p.id) \o WriteIdent(p.rendv)
                \o WriteList(Idents(p.targets)))

ParseReqGeneric(type, buf) ==
  LET f == RetrieveAll(buf, 0, HeaderWidths \o IdentWidths)
      targets == RetrieveList(buf, 19, IdentWidths)
  IN IF ~Opens(f, type) \/ targets = Null THEN Null
     ELSE [type |-> type, id |-> To64(f), rendv |-> <<f[5], f[6]>>, targets |-> targets]

CreateReqConstraint(p) ==
  IF p.targets = <<>> THEN Null
  ELSE Complete(WriteId(p.type, p.id) \o WriteIdent(p.rendv) \o Ushort(p.betaNum)
                \o Ushort(p.betaDen) \o WriteList(IdentInts(p.targets)))

ParseReqConstraint(type, buf) ==
  LET f == RetrieveAll(buf, 0, HeaderWidths \o IdentWidths \o <<2, 2>>)
      targets == RetrieveList(buf, 23, <<4, 2, 4>>)
  IN IF ~Opens(f, type) \/ targets = Null THEN Null
     ELSE [type |-> type, id |-> To64(f), rendv |-> <<f[5], f[6]>>,
           betaNum |-> f[7], betaDen |-> f[8], targets |-> targets]

CreateReqClosest(p) ==
  IF p.targets = <<>> THEN Null
  ELSE Complete(WriteId(p.type, p.id) \o WriteIdent(p.rendv) \o Ushort(p.betaNum)
                \o Ushort(p.betaDen) \o WriteList(Idents(p.targets)))

\* Faulty variant: the numerator and the denominator of beta change places.
ParseReqClosestSwapped(type, buf) ==
  LET f == RetrieveAll(buf, 0, HeaderWidths \o IdentWidths \o <<2, 2>>)
      targets == RetrieveList(buf, 23, IdentWidths)
  IN IF ~Opens(f, type) \/ targets = Null THEN Null
     ELSE [type |-> type, id |-> To64(f), rendv |-> <<f[5], f[6]>>,
           betaNum |-> f[8], betaDen |-> f[7], targets |-> targets]

ParseReqClosest(type, buf) ==
  LET f == RetrieveAll(buf, 0, HeaderWidths \o IdentWidths \o <<2, 2>>)
      targets == RetrieveList(buf, 23, IdentWidths)
  IN IF ~Opens(f, type) \/ targets = Null THEN Null
     ELSE [type |-> type, id |-> To64(f), rendv |-> <<f[5], f[6]>>,
           betaNum |-> f[7], betaDen |-> f[8], targets |-> targets]

----------------------------------------------------------------------------
(* The answers *)

\* PING, PONG, CREATE_RENDV, RET_RENDV and RET_ERROR.
CreatePlain(p) == Complete(WriteId(p.type, p.id))

ParsePlain(type, buf) ==
  LET f == RetrieveAll(buf, 0, HeaderWidths)
  IN IF Opens(f, type) THEN [type |-> type, id |-> To64(f)] ELSE Null

\* An address of 0:0 stands for whoever the packet comes from.
Address(node, from) == IF node = <<0, 0>> THEN from ELSE node

CreateRetInfo(p) == Complete(WriteId(p.type, p.id) \o WriteIdent(p.node))

ParseRetInfo(type, from, buf) ==
  LET f == RetrieveAll(buf, 0, HeaderWidths \o IdentWidths)
  IN IF ~Opens(f, type) THEN Null
     ELSE [type |-> type, id |-> To64(f), node |-> Address(<<f[5], f[6]>>, from)]

\* The targets are those of a map: one latency for each, in the order of ltNodeIdent.
CreateRetResponse(p) ==
  Complete(WriteId(p.type, p.id) \o WriteIdent(p.node) \o WriteList(IdentInts(p.targets)))

ParseRetResponse(type, from, buf) ==
  LET f == RetrieveAll(buf, 0, HeaderWidths \o IdentWidths)
      targets == RetrieveList(buf, 19, <<4, 2, 4>>)
  IN IF ~Opens(f, type) \/ targets = Null THEN Null
     ELSE [type |-> type, id |-> To64(f), node |-> Address(<<f[5], f[6]>>, from),
           targets |-> targets]

CreateRetPing(p) == Complete(WriteId(p.type, p.id) \o WriteList(IdentInts(p.targets)))

ParseRetPing(type, buf) ==
  LET f == RetrieveAll(buf, 0, HeaderWidths)
      nodes == RetrieveList(buf, 13, <<4, 2, 4>>)
  IN IF ~Opens(f, type) \/ nodes = Null THEN Null
     ELSE [type |-> type, id |-> To64(f), targets |-> nodes]

CreateGossip(p) ==
  Complete(WriteId(p.type, p.id) \o WriteIdent(p.rendv) \o WriteList(IdentRendvs(p.targets)))

ParseGossip(type, buf) ==
  LET f == RetrieveAll(buf, 0, HeaderWidths \o IdentWidths)
      targets == RetrieveList(buf, 19, IdentWidths \o IdentWidths)
  IN IF ~Opens(f, type) \/ targets = Null THEN Null
     ELSE [type |-> type, id |-> To64(f), rendv |-> <<f[5], f[6]>>, targets |-> targets]

\* The rings of a node, as <<ring, addr, port, latencyUS>>: the count goes into a
\* place kept for it once the members have been written.
CreateInfo(p) ==
  Complete(WriteId(p.type, p.id)
           \o WriteList([i \in DOMAIN p.targets |->
                          Uint(p.targets[i][1]) \o WriteIdentInt(Tail(p.targets[i]))]))

\* The code leaves the id out and groups the members by ring, in the order of the list.
ParseInfo(type, buf) ==
  LET f == RetrieveAll(buf, 0, HeaderWidths)
      members == RetrieveList(buf, 13, <<4, 4, 2, 4>>)
  IN IF ~Opens(f, type) \/ members = Null THEN Null
     ELSE [type |-> type, id |-> To64(f), targets |-> members]

----------------------------------------------------------------------------
(* The packets of MQL programs *)

\* marshal_packet: the program, its size before and after compression first, the name
\* of the function that is called and the parameters.
MarshalPacket(p) ==
  Uint(p.text.size) \o WriteStr(p.text.packed) \o WriteStr(p.func) \o Marshal[p.param]

CreateDSLRequest(p) ==
  IF ~Sendable[p.param] THEN Null
  ELSE Complete(WriteId(p.type, p.id) \o WriteIdent(p.rendv) \o Ushort(p.msRemain)
                \o Ushort(p.ttl) \o MarshalPacket(p))

\* unmarshal_packet of what is behind counter.  Any read beyond the end refuses it
\* (rb.error() of its caller); parameters that cannot be read do not.  The code takes
\* the function's name up to the first 0, not by its length; that is the same here, for
\* names hold no 0 and the type of the parameters, whose first byte is 0, comes next.
UnmarshalPacket(buf, counter) ==
  LET text == RetrieveStr(buf, counter + 4)
      func == IF text.at = Null THEN text ELSE RetrieveStr(buf, text.at)
      call(size, param) ==
        IF size = Null \/ param.at = Null THEN Null
        ELSE IF size > MaxProgramSize THEN Null
        ELSE [text |-> [size |-> size, packed |-> text.str], func |-> func.str,
              param |-> param.value]
  IN call(Retrieve(buf, counter, 4), IF func.at = Null THEN Failed ELSE Unmarshal(buf)[func.at])

ParseDSLRequest(type, buf) ==
  LET request(f, call) ==
        IF ~Opens(f, type) \/ call = Null THEN Null
        ELSE [type |-> type, id |-> To64(f), rendv |-> <<f[5], f[6]>>, msRemain |-> f[7],
              ttl |-> f[8], text |-> call.text, func |-> call.func, param |-> call.param]
  IN request(RetrieveAll(buf, 0, HeaderWidths \o IdentWidths \o <<2, 2>>),
             UnmarshalPacket(buf, 23))

\* An answer is a value; one that cannot be read is an answer without a value.
CreateDSLReply(p) ==
  IF ~Sendable[p.value] THEN Null
  ELSE Complete(WriteId(p.type, p.id) \o Marshal[p.value])

ParseDSLReply(type, buf) ==
  LET f == RetrieveAll(buf, 0, HeaderWidths)
  IN IF ~Opens(f, type) THEN Null
     ELSE [type |-> type, id |-> To64(f), value |-> Unmarshal(buf)[13].value]

----------------------------------------------------------------------------
(* PUSH and PULL: a packet on its way to a node behind a firewall *)

\* performSend: a packet for dest goes to the rendezvous node inside a PUSH.
WrapPush(dest, payload) == Complete(WriteId(PUSH, 0) \o WriteIdent(dest) \o payload)

\* What the rendezvous node makes of a PUSH from a node: a PULL for dest.
ParsePush(from, buf) ==
  LET f == RetrieveAll(buf, 0, HeaderWidths \o IdentWidths)
      payload == SubSeq(buf, 20, Len(buf))
      pull == Complete(WriteId(PULL, 0) \o WriteIdent(from) \o Uint(Len(payload)) \o payload)
  IN IF ~Opens(f, PUSH) \/ pull = Null THEN Null
     ELSE [dest |-> <<f[5], f[6]>>, bytes |-> pull]

\* Faulty variant: a packet that ends where the bytes end is taken for incomplete.
ParsePullBehind(buf) ==
  LET f == RetrieveAll(buf, 0, HeaderWidths \o IdentWidths \o <<4>>)
      end == 23 + f[7]
  IN IF ~Opens(f, PULL) THEN Null
     ELSE IF Len(buf) <= end THEN Null
     ELSE [from |-> <<f[5], f[6]>>, payload |-> SubSeq(buf, 24, end),
           rest |-> SubSeq(buf, end + 1, Len(buf))]

\* The first PULL of the bytes received so far, and what remains of them.
ParsePull(buf) ==
  LET f == RetrieveAll(buf, 0, HeaderWidths \o IdentWidths \o <<4>>)
      end == 23 + f[7]
  IN IF ~Opens(f, PULL) THEN Null
     ELSE IF Len(buf) < end THEN Null
     ELSE [from |-> <<f[5], f[6]>>, payload |-> SubSeq(buf, 24, end),
           rest |-> SubSeq(buf, end + 1, Len(buf))]

----------------------------------------------------------------------------
(* The class of a type *)

Creates(p) ==
  CASE p.type \in MeasureTypes -> CreateReqGeneric(p)
    [] p.type \in ConstraintTypes -> CreateReqConstraint(p)
    [] p.type \in ClosestTypes -> CreateReqClosest(p)
    [] p.type \in PlainTypes -> CreatePlain(p)
    [] p.type = RET_INFO -> CreateRetInfo(p)
    [] p.type = RET_RESPONSE -> CreateRetResponse(p)
    [] p.type = RET_PING_REQ -> CreateRetPing(p)
    [] p.type \in GossipTypes -> CreateGossip(p)
    [] p.type = INFO_PACKET -> CreateInfo(p)
    [] p.type = DSL_REQUEST -> CreateDSLRequest(p)
    [] p.type = DSL_REPLY -> CreateDSLReply(p)

\* The packet that a node makes of the bytes it gets from another.
Parses(from, buf) ==
  LET type == Retrieve(buf, 0, 1) IN
  CASE type \in MeasureTypes -> ParseReqGeneric(type, buf)
    [] type \in ConstraintTypes -> ParseReqConstraint(type, buf)
    [] type \in ClosestTypes -> ParseReqClosest(type, buf)
    [] type \in PlainTypes -> ParsePlain(type, buf)
    [] type = RET_INFO -> ParseRetInfo(type, from, buf)
    [] type = RET_RESPONSE -> ParseRetResponse(type, from, buf)
    [] type = RET_PING_REQ -> ParseRetPing(type, buf)
    [] type \in GossipTypes -> ParseGossip(type, buf)
    [] type = INFO_PACKET -> ParseInfo(type, buf)
    [] type = DSL_REQUEST -> ParseDSLRequest(type, buf)
    [] type = DSL_REPLY -> ParseDSLReply(type, buf)
    [] OTHER -> Null

\* The packet as its reader is to see it.  (A launcher may send a program that is too
\* long; a node sends on the one it has.)
Received(p, from) ==
  CASE p.type \in {RET_RESPONSE, RET_INFO} -> [p EXCEPT !.node = Address(@, from)]
    [] p.type = DSL_REQUEST ->
         IF p.text.size > MaxProgramSize THEN Null ELSE [p EXCEPT !.param = AsRead[@]]
    [] p.type = DSL_REPLY -> [p EXCEPT !.value = AsRead[@]]
    [] OTHER -> p

\* What may be made of the first bytes of a packet: nothing, an answer without a value, or
\* the call without parameters that it is taken for in full.
CutShort(p) ==
  {Null} \cup CASE p.type = DSL_REPLY -> {[p EXCEPT !.value = Empty]}
              [] p.type = DSL_REQUEST -> {[p EXCEPT !.param = Empty]} \cap {[p EXCEPT !.param = AsRead[@]]}
              [] OTHER -> {}

\* Whatever the class of a packet, and even if an address in it is the writer's own.
ReadAsWritten ==
  \A p \in Samples, from \in Nodes : LET buf == Creates(p) IN
    buf # Null =>
      /\ Parses(from, buf) = Received(p, from)
      /\ \A k \in 0 .. Len(buf) - 1 : Parses(from, SubSeq(buf, 1, k)) \in CutShort(p)
============================================================================
