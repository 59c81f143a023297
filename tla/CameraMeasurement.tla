--------------------------- MODULE CameraMeasurement ---------------------------
(***************************************************************************)
(* The generated class of picture.proto: a message of proto3, whose fields *)
(* have no presence.  A field that holds its default value is not written, *)
(* not counted and not merged.  A message is a record with a field for     *)
(* each of the proto file's and the unknown fields it was parsed with.     *)
(***************************************************************************)
EXTENDS WireFormat

FieldNumber ==
  [name |-> 1, width |-> 2, height |-> 3, quality |-> 4, image |-> 5, simtime |-> 6]
Fields == DOMAIN FieldNumber
Strings == {"name", "image"}
FieldOrder == <<"name", "width", "height", "quality", "image", "simtime">>

Empty(f) == IF f \in Strings THEN << >> ELSE 0
Type(f) == IF f \in Strings THEN LengthType ELSE VarintType

\* The constructor, and the state Clear returns to.
SharedCtor ==
  [name |-> << >>, width |-> 0, height |-> 0, quality |-> 0, image |-> << >>, simtime |-> 0,
   unknown |-> << >>]

\* The accessors.  A string field may also be written through mutable_ or
\* set_allocated_, and emptied by clear_ or release_: set to << >>.
set_name(m, s) == [m EXCEPT !.name = s]
set_width(m, n) == [m EXCEPT !.width = n]
set_height(m, n) == [m EXCEPT !.height = n]
set_quality(m, i) == [m EXCEPT !.quality = i]
set_image(m, s) == [m EXCEPT !.image = s]
set_simtime(m, n) == [m EXCEPT !.simtime = n]

Clear(m) == SharedCtor

\* The strings are copied when there is something to copy, the scalars from
\* width to quality as one block of memory.
CopyConstructor(from) ==
  [f \in DOMAIN from |-> IF f \in Strings /\ from[f] = << >> THEN SharedCtor[f] ELSE from[f]]

\* A field that holds its default value is not written.
Written(m, f) ==
  IF m[f] = Empty(f) THEN << >>
  ELSE <<Field(FieldNumber[f], Type(f), IF f = "quality" THEN ZigZag(m[f]) ELSE m[f])>>

OnWire(m) == FlattenSeq([i \in DOMAIN FieldOrder |-> Written(m, FieldOrder[i])]) \o m.unknown

InternalSerialize(m) == Encode(OnWire(m))
ByteSizeLong(m) == EncodedLength(OnWire(m))

\* A field the class knows, with the wire type it expects, is stored; any other
\* is kept as unknown.
Stored(m, read) ==
  IF \E f \in Fields : FieldNumber[f] = read.number /\ Type(f) = read.type
  THEN LET f == CHOOSE f \in Fields : FieldNumber[f] = read.number
       IN  [m EXCEPT ![f] = IF f = "quality" THEN UnZigZag(read.value) ELSE read.value]
  ELSE [m EXCEPT !.unknown = Append(@, read)]

\* The names this model gives a message are plain ASCII: the check of the
\* encoding of a name never fails.
InternalParse(m, bytes) ==
  LET read == Decode(bytes) IN [msg |-> FoldLeft(Stored, m, read.fields), ok |-> read.ok]

ParseFromString(m, bytes) == InternalParse(Clear(m), bytes)

\* Mutant of MergeFrom: a field is merged only where the target has none.
MergeFrom_KeepsOwn(m, from) ==
  [f \in DOMAIN m |->
     IF f = "unknown" THEN m[f] \o from[f]
     ELSE IF m[f] = Empty(f) THEN from[f] ELSE m[f]]

MergeFrom(m, from) ==
  [f \in DOMAIN m |->
     IF f = "unknown" THEN m[f] \o from[f]
     ELSE IF from[f] # Empty(f) THEN from[f] ELSE m[f]]

CopyFrom(m, from) == MergeFrom(Clear(m), from)

\* The members from width to quality, which lie side by side.
Block == {"width", "height", "simtime", "quality"}

\* The scalars are swapped as one block of memory.  <<this, other>> afterwards.
InternalSwap(m, other) ==
  LET taking(a, b) == [f \in DOMAIN a |-> IF f \in Strings \union Block \union {"unknown"}
                                         THEN b[f] ELSE a[f]]
  IN  <<taking(m, other), taking(other, m)>>

\* No message lives in an arena: swapping is InternalSwap, and so is assigning a
\* message that may be moved, which is left with what the target had.
Swap(m, other) == InternalSwap(m, other)
MoveAssign(m, from) == InternalSwap(m, from)
MoveConstructor(from) == MoveAssign(SharedCtor, from)
=============================================================================
