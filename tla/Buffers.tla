------------------------------- MODULE Buffers -------------------------------
(* The buffers that packets are written to and read from: RealPacket and         *)
(* BufferWrapper of Marshal.h.                                                   *)
(*                                                                               *)
(* A payload is a sequence of bytes, and byte j of a field of w bytes with value *)
(* v is <<v, j, w>>: a read that meets the field gets v, one that does not gets  *)
(* nothing.  Byte order is abstracted.                                           *)
EXTENDS Naturals, Sequences, FiniteSets, SequencesExt

CONSTANTS
  MaxPacketSize,  \* MAX_UDP_PACKET_SIZE, the size of a RealPacket
  Null            \* NULL, or -1, of an operation that fails

ASSUME BuffersAssumption == MaxPacketSize \in Nat \ {0}

----------------------------------------------------------------------------
(* Writing: RealPacket *)

Field(value, width) == [j \in 1 .. width |-> <<value, j, width>>]
Char(value) == Field(value, 1)
Ushort(value) == Field(value, 2)
Uint(value) == Field(value, 4)

\* A string is <<contents, size>>; its size goes before it.
NoString == <<0, 0>>
WriteStr(s) == Uint(s[2]) \o Field(s[1], s[2])

\* An append that does not fit fails, and so does every one after it.
Complete(bytes) == IF Len(bytes) <= MaxPacketSize THEN bytes ELSE Null

WriteList(entries) == Uint(Len(entries)) \o FlattenSeq(entries)

----------------------------------------------------------------------------
(* Reading: BufferWrapper *)

\* retrieve_char, retrieve_ushort, retrieve_uint: the field behind counter.
Retrieve(buf, counter, width) ==
  IF /\ counter + width <= Len(buf)
     /\ \A j \in 1 .. width : buf[counter + j] = <<buf[counter + 1][1], j, width>>
  THEN buf[counter + 1][1]
  ELSE Null

\* The widths of the fields before field i.
Before(widths, i) ==
  LET sum[k \in 0 .. Len(widths)] == IF k = 0 THEN 0 ELSE sum[k - 1] + widths[k]
  IN sum[i - 1]

RetrieveAll(buf, counter, widths) ==
  [i \in 1 .. Len(widths) |-> Retrieve(buf, counter + Before(widths, i), widths[i])]

\* The loop over numEntry; the error flag is looked at when it ends.
RetrieveList(buf, counter, widths) ==
  LET numEntry == Retrieve(buf, counter, 4)
      size == Before(widths, Len(widths) + 1)
  IN IF numEntry = Null \/ counter + 4 + numEntry * size > Len(buf) THEN Null
     ELSE [i \in 1 .. numEntry |->
             RetrieveAll(buf, counter + 4 + (i - 1) * size, widths)]

\* A string, and where it ends: Null if the buffer has no such string.
RetrieveStr(buf, counter) ==
  LET size == Retrieve(buf, counter, 4) IN
  CASE size = Null -> [str |-> NoString, at |-> Null]
    [] size = 0 -> [str |-> NoString, at |-> counter + 4]
    [] OTHER -> LET value == Retrieve(buf, counter + 4, size)
                IN [str |-> <<value, size>>,
                    at |-> IF value = Null THEN Null ELSE counter + 4 + size]
============================================================================
