------------------------------ MODULE WireFormat ------------------------------
(***************************************************************************)
(* The protocol buffer library, as the generated classes of socket/proto   *)
(* and pro/proto use it: how a field is written to bytes and what the      *)
(* parser makes of any bytes.  The parse does not need the message type:   *)
(* it cuts the bytes into fields, and the classes decide which of them     *)
(* they know.                                                              *)
(*                                                                         *)
(* Groups (wire types 3 and 4), which neither message has, end the parse.  *)
(* Numbers stay below 2^31.                                                *)
(***************************************************************************)
EXTENDS Integers, Sequences, SequencesExt

Byte == 0 .. 255
Position == Nat \ {0}
VarintType == 0
Fixed64Type == 1
LengthType == 2
Fixed32Type == 5

\* Seven bits a byte, the lowest first; every byte but the last has bit 8 set.
Varint[n \in Nat] ==
  IF n < 128 THEN <<n>> ELSE <<128 + (n % 128)>> \o Varint[n \div 128]

VarintSize[n \in Nat] == IF n < 128 THEN 1 ELSE 1 + VarintSize[n \div 128]

ZigZag(i) == IF i >= 0 THEN 2 * i ELSE -(2 * i) - 1
UnZigZag(n) == IF n % 2 = 0 THEN n \div 2 ELSE -((n + 1) \div 2)

\* A field as the wire has it: a number, or the bytes that follow.
Field(number, type, value) == [number |-> number, type |-> type, value |-> value]

EncodeField(f) ==
  Varint[8 * f.number + f.type]
    \o (CASE f.type = VarintType -> Varint[f.value]
          [] f.type = LengthType -> Varint[Len(f.value)] \o f.value
          [] OTHER -> f.value)

Encode(fields) == FlattenSeq([i \in DOMAIN fields |-> EncodeField(fields[i])])

EncodedSize(f) ==
  VarintSize[8 * f.number + f.type]
    + (CASE f.type = VarintType -> VarintSize[f.value]
         [] f.type = LengthType -> VarintSize[Len(f.value)] + Len(f.value)
         [] OTHER -> Len(f.value))

\* The size of the fields, as it is computed before they are written.
EncodedLength(fields) == FoldLeft(LAMBDA n, f : n + EncodedSize(f), 0, fields)

\* The parser may look past the end of the bytes, where it finds zeros, and
\* notices afterwards.
At(bytes, p) == IF p <= Len(bytes) THEN bytes[p] ELSE 0

ReadVarint(bytes, p) ==
  LET digits[q \in Position] == IF At(bytes, q) < 128 THEN q ELSE digits[q + 1]
      last == digits[p]
      value[q \in Position] == (At(bytes, q) % 128) + (IF q = last THEN 0 ELSE 128 * value[q + 1])
  IN  [value |-> value[p], next |-> last + 1]

Take(bytes, p, n) == [i \in 1 .. n |-> At(bytes, p + i - 1)]

\* The field at position p and the position behind it.
ReadField(bytes, p) ==
  LET tag == ReadVarint(bytes, p)
      type == tag.value % 8
      number == tag.value \div 8
      length == ReadVarint(bytes, tag.next)
  IN  CASE type = VarintType ->
             [field |-> Field(number, type, length.value), next |-> length.next]
        [] type = LengthType ->
             [field |-> Field(number, type, Take(bytes, length.next, length.value)),
              next |-> length.next + length.value]
        [] type = Fixed64Type ->
             [field |-> Field(number, type, Take(bytes, tag.next, 8)), next |-> tag.next + 8]
        [] type = Fixed32Type ->
             [field |-> Field(number, type, Take(bytes, tag.next, 4)), next |-> tag.next + 4]

Readable(bytes, p) ==
  LET tag == ReadVarint(bytes, p).value
  IN  tag >= 8 /\ tag % 8 \in {VarintType, LengthType, Fixed64Type, Fixed32Type}

\* The fields of the bytes, and whether they end with the last field.  A tag
\* of 0, such as the zeros behind a message in a larger buffer, ends the parse;
\* so do tags that no field can have.  What was read until then is kept, even a
\* last field that reaches past the end.
Decode(bytes) ==
  LET from[p \in Position] ==
        IF p > Len(bytes) THEN [fields |-> << >>, ok |-> p = Len(bytes) + 1]
        ELSE IF ~Readable(bytes, p) THEN [fields |-> << >>, ok |-> FALSE]
        ELSE LET read == ReadField(bytes, p)
             IN  [from[read.next] EXCEPT !.fields = <<read.field>> \o @]
  IN  from[1]
=============================================================================
