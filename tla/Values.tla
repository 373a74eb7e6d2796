-------------------------------- MODULE Values --------------------------------
(* The values of MQL programs on their way between nodes: marshal_ast writes a  *)
(* value behind the header of a DSL packet, unmarshal_ast reads it back, both   *)
(* by recursion over the value.                                                 *)
EXTENDS Buffers

CONSTANT
  Values     \* the values that occur, with the parts of each

\* The types that can be sent, of ASTType; the entries of an array have a type too.
EMPTY_TYPE == 0
INT_TYPE == 1
DOUBLE_TYPE == 2
STRING_TYPE == 5
SEP_TYPE == 7        \* the parameters of a call
ADT_TYPE == 23
VAR_ADT_TYPE == 24   \* a struct: its fields are pairs of a name and a value
ARRAY_TYPE == 27
BaseTypes == {EMPTY_TYPE, INT_TYPE, DOUBLE_TYPE, STRING_TYPE, SEP_TYPE, VAR_ADT_TYPE, ARRAY_TYPE}

Empty == [type |-> EMPTY_TYPE]

Parts(v) ==
  CASE v.type \in {ARRAY_TYPE, SEP_TYPE} -> v.list
    [] v.type = VAR_ADT_TYPE -> [i \in DOMAIN v.fields |-> v.fields[i][2]]
    [] OTHER -> <<>>

IsString(s) == s \in Nat \X Nat /\ (s[2] = 0 => s = NoString)

\* What an ASTNode of each type holds: a number stands for a text, an int or a double.
ASSUME ValuesAssumption ==
  \A v \in Values : v.type \in Nat /\ (v.type \in BaseTypes =>
    \/ v = Empty
    \/ v \in [type : {INT_TYPE, DOUBLE_TYPE}, val : Nat]
    \/ v \in [type : {STRING_TYPE}, val : Nat \X Nat] /\ IsString(v.val)
    \/ /\ v \in [type : {ARRAY_TYPE}, of : Nat, adt : Nat \X Nat, list : Seq(Values)]
       /\ IsString(v.adt) /\ (v.of # ADT_TYPE => v.adt = NoString)
    \/ /\ v \in [type : {VAR_ADT_TYPE}, adt : Nat \X Nat, fields : Seq((Nat \X Nat) \X Values)]
       /\ IsString(v.adt) /\ \A i \in DOMAIN v.fields : IsString(v.fields[i][1])
    \/ v \in [type : {SEP_TYPE}, list : Seq(Values)])

\* The values marshal_ast does not give up on.
Sendable[v \in Values] ==
  v.type \in BaseTypes /\ \A i \in DOMAIN Parts(v) : Sendable[Parts(v)[i]]

\* marshal_ast of a value that can be sent, whose parts are written as "written" says.
WriteValue(written, v) ==
  Uint(v.type) \o
  CASE v.type = EMPTY_TYPE -> <<>>
    [] v.type = INT_TYPE -> Uint(v.val)
    [] v.type = DOUBLE_TYPE -> Field(v.val, 8)
    [] v.type = STRING_TYPE -> WriteStr(v.val)
    [] v.type = ARRAY_TYPE ->
         Uint(v.of) \o WriteStr(IF v.of = ADT_TYPE THEN v.adt ELSE NoString)
         \o WriteList([i \in DOMAIN v.list |-> written[v.list[i]]])
    [] v.type = VAR_ADT_TYPE ->
         WriteStr(v.adt)
         \o WriteList([i \in DOMAIN v.fields |->
                         WriteStr(v.fields[i][1]) \o written[v.fields[i][2]]])
    [] v.type = SEP_TYPE -> WriteList([i \in DOMAIN v.list |-> written[v.list[i]]])
Marshal[v \in Values] == WriteValue(Marshal, v)

\* What is read at a place of a buffer: a value, and where it ends.  A read beyond the
\* end sets the error flag, "at" is Null; an unknown type, or an empty part, does not.
Failed == [value |-> Empty, at |-> Null]
GivenUp(at) == [value |-> Empty, at |-> at]

\* The list read so far, and what the loop over the parts of a list makes of it: nothing
\* once a part was empty.
NoPart(at) == [list |-> <<>>, at |-> at, on |-> TRUE]
WithPart(sofar, name, part) ==
  [list |-> Append(sofar.list, IF name = Null THEN part.value ELSE <<name, part.value>>),
   at |-> part.at, on |-> part.value # Empty]
Whole(made, parts) ==
  IF parts.on THEN [value |-> made, at |-> parts.at] ELSE GivenUp(parts.at)
Simple(type, val, end) ==
  IF val = Null THEN Failed ELSE [value |-> [type |-> type, val |-> val], at |-> end]

\* A value is read with what is read behind it, from "read".
ReadAt(read, p) == IF p = Null THEN Failed ELSE read[p]

\* One more part, behind its name or not; all of them, from place p on; and those of
\* a list, which begins with their number.
MorePart(buf, read, sofar, names) ==
  LET name == RetrieveStr(buf, sofar.at) IN
  CASE ~sofar.on -> sofar
    [] sofar.on /\ names -> WithPart(sofar, name.str, ReadAt(read, name.at))
    [] OTHER -> WithPart(sofar, Null, ReadAt(read, sofar.at))
ReadParts(buf, read, n, p, names) ==
  LET loop[i \in 0 .. n] ==
        IF i = 0 THEN NoPart(p) ELSE MorePart(buf, read, loop[i - 1], names)
  IN loop[n]
ReadList(buf, read, p, names) ==
  LET n == IF p = Null THEN Null ELSE Retrieve(buf, p, 4)
  IN IF n = Null THEN [NoPart(Null) EXCEPT !.on = FALSE]
     ELSE ReadParts(buf, read, n, p + 4, names)

ReadString(buf, p) ==
  LET s == RetrieveStr(buf, p) IN Simple(STRING_TYPE, IF s.at = Null THEN Null ELSE s.str, s.at)
ReadArray(buf, read, p) ==
  LET adt == RetrieveStr(buf, p + 4)
      all == ReadList(buf, read, adt.at, FALSE)
  IN Whole([type |-> ARRAY_TYPE, of |-> Retrieve(buf, p, 4), adt |-> adt.str, list |-> all.list], all)
\* The code's fields are a std::map, which a writer goes through in order: what it
\* wrote is read in that order and has no name twice.
ReadStruct(buf, read, p) ==
  LET adt == RetrieveStr(buf, p)
      all == ReadList(buf, read, adt.at, TRUE)
  IN Whole([type |-> VAR_ADT_TYPE, adt |-> adt.str, fields |-> all.list], all)
ReadCall(buf, read, p) ==
  LET all == ReadList(buf, read, p, FALSE) IN Whole([type |-> SEP_TYPE, list |-> all.list], all)

\* unmarshal_ast
ReadValue(buf, read, at) ==
  LET type == Retrieve(buf, at, 4) IN
  CASE type = Null -> Failed
    [] type = INT_TYPE -> Simple(type, Retrieve(buf, at + 4, 4), at + 8)
    [] type = DOUBLE_TYPE -> Simple(type, Retrieve(buf, at + 4, 8), at + 12)
    [] type = STRING_TYPE -> ReadString(buf, at + 4)
    [] type = ARRAY_TYPE -> ReadArray(buf, read, at + 4)
    [] type = VAR_ADT_TYPE -> ReadStruct(buf, read, at + 4)
    [] type = SEP_TYPE -> ReadCall(buf, read, at + 4)
    [] OTHER -> GivenUp(at + 4)
Unmarshal(buf) ==
  LET read[at \in 0 .. Len(buf)] == ReadValue(buf, read, at) IN read

\* As its reader is to see it: a value with an empty part, as the list of parameters
\* has one if a parameter has no value, becomes empty itself.
AsRead[v \in Values] ==
  IF \E i \in DOMAIN Parts(v) : AsRead[Parts(v)[i]] = Empty THEN Empty ELSE v
============================================================================
