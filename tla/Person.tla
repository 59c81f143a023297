--------------------------------- MODULE Person ---------------------------------
(***************************************************************************)
(* The generated class of pro.proto: a message of proto2, which remembers  *)
(* in a bit for each field whether the field is set (_has_bits_).  What is *)
(* written, counted, merged and cleared depends on the bits alone, so that *)
(* a value behind a bit that is not set would survive Clear.               *)
(***************************************************************************)
EXTENDS WireFormat

FieldNumber == [name |-> 1, id |-> 2, email |-> 3]
Fields == DOMAIN FieldNumber
Strings == {"name", "email"}
FieldOrder == <<"name", "id", "email">>

Empty(f) == IF f \in Strings THEN << >> ELSE 0
Type(f) == IF f \in Strings THEN LengthType ELSE VarintType

SharedCtor == [name |-> << >>, id |-> 0, email |-> << >>, has |-> {}, unknown |-> << >>]

\* The accessors.  mutable_ and set_allocated_ of a string set its bit as well,
\* release_ and set_allocated_ of nothing clear it as clear_ does.
set_name(p, s) == [p EXCEPT !.name = s, !.has = @ \union {"name"}]
clear_name(p) == [p EXCEPT !.name = << >>, !.has = @ \ {"name"}]
set_id(p, n) == [p EXCEPT !.id = n, !.has = @ \union {"id"}]
clear_id(p) == [p EXCEPT !.id = 0, !.has = @ \ {"id"}]
set_email(p, s) == [p EXCEPT !.email = s, !.has = @ \union {"email"}]
clear_email(p) == [p EXCEPT !.email = << >>, !.has = @ \ {"email"}]

\* Only strings whose bit is set are emptied; the id always is.
Clear(p) ==
  [f \in DOMAIN p |-> IF f \in Strings \ p.has THEN p[f] ELSE SharedCtor[f]]

CopyConstructor(from) ==
  [f \in DOMAIN from |-> IF f \in Strings \ from.has THEN << >> ELSE from[f]]

\* A field whose bit is not set is not written.
Written(p, f) == IF f \in p.has THEN <<Field(FieldNumber[f], Type(f), p[f])>> ELSE << >>

OnWire(p) == FlattenSeq([i \in DOMAIN FieldOrder |-> Written(p, FieldOrder[i])]) \o p.unknown

InternalSerialize(p) == Encode(OnWire(p))
ByteSizeLong(p) == EncodedLength(OnWire(p))

\* Mutant of Stored: the bit of the id is forgotten.
Stored_NoBit(p, read) ==
  IF \E f \in Fields : FieldNumber[f] = read.number /\ Type(f) = read.type
  THEN LET f == CHOOSE f \in Fields : FieldNumber[f] = read.number
       IN  [p EXCEPT ![f] = read.value, !.has = @ \union ({f} \intersect Strings)]
  ELSE [p EXCEPT !.unknown = Append(@, read)]

\* The bit of a string is set when its bytes are read, that of the id at the end
\* of the parse, whether it succeeds or not.
Stored(p, read) ==
  IF \E f \in Fields : FieldNumber[f] = read.number /\ Type(f) = read.type
  THEN LET f == CHOOSE f \in Fields : FieldNumber[f] = read.number
       IN  [p EXCEPT ![f] = read.value, !.has = @ \union {f}]
  ELSE [p EXCEPT !.unknown = Append(@, read)]

InternalParse(p, bytes) ==
  LET read == Decode(bytes) IN [msg |-> FoldLeft(Stored, p, read.fields), ok |-> read.ok]

Parse(p, bytes) == InternalParse(Clear(p), bytes)

MergeFrom(p, from) ==
  [f \in DOMAIN p |->
     CASE f = "unknown" -> p[f] \o from[f]
       [] f = "has" -> p[f] \union from[f]
       [] OTHER -> IF f \in from.has THEN from[f] ELSE p[f]]

CopyFrom(p, from) == MergeFrom(Clear(p), from)

\* <<this, other>> after the members, the bits and the unknown fields have been
\* swapped one by one.
InternalSwap(p, other) ==
  LET taking(a, b) ==
        [f \in DOMAIN a |-> IF f \in {"has", "name", "email", "id", "unknown"} THEN b[f] ELSE a[f]]
  IN  <<taking(p, other), taking(other, p)>>

\* No message lives in an arena, as in CameraMeasurement.
Swap(p, other) == InternalSwap(p, other)
MoveAssign(p, from) == InternalSwap(p, from)
MoveConstructor(from) == MoveAssign(SharedCtor, from)
=============================================================================
