------------------------- MODULE PictureQueue_proofs --------------------------
(***************************************************************************)
(* Proofs about protocol buffers on the wire, and about the two programs   *)
(* that send them: the picture queue of socket/ and the file transfer of   *)
(* pro/.                                                                   *)
(*                                                                         *)
(*  1. The wire format: what was encoded is decoded again, for numbers,    *)
(*     fields and lists of fields, from wherever it stands in a buffer and *)
(*     with zeros behind it.                                               *)
(*  2. CameraMeasurement: reading what was written of a message merges it, *)
(*     so that a message is parsed back from its bytes.                    *)
(*  3. The picture queue, for any pictures, queues of any length and any   *)
(*     number of starts of either process.  A receiver gets pictures in    *)
(*     the order of the sends, and none from before its time: the          *)
(*     invariant follows the numbers of the messages through the queues,   *)
(*     for a new queue is empty, and whatever enters a queue later is      *)
(*     newer than all there is.  So every start of a receiver makes a      *)
(*     MessageChannel.  What it shows is what was sent: the invariant says *)
(*     what the buffer holds in front and behind.                          *)
(*  4. Person and the file transfer: the same laws, for the class whose    *)
(*     fields have presence; and that the reader never shows a mixture of  *)
(*     two records.  The invariant says what the file can hold and what a  *)
(*     reading can have got in each round of the writer.                   *)
(***************************************************************************)
EXTENDS PictureQueue, FileTransfer, SequenceLemmas

-----------------------------------------------------------------------------
(* Numbers *)

\* A sequence of one byte, and a byte before others.
Single(b) == <<b>>
ByteBefore(b, s) == <<b>> \o s

\* What a sequence of one byte is.
LEMMA SingleFacts ==
  ASSUME NEW S, NEW b \in S
  PROVE  /\ Single(b) \in Seq(S) /\ Len(Single(b)) = 1 /\ Single(b)[1] = b
         /\ Single(b) # << >>
BY DEF Single

\* What a byte before others is.
LEMMA ByteBeforeFacts ==
  ASSUME NEW S, NEW b \in S, NEW s \in Seq(S)
  PROVE  /\ ByteBefore(b, s) \in Seq(S) /\ Len(ByteBefore(b, s)) = 1 + Len(s) /\ Len(s) \in Nat
         /\ ByteBefore(b, s) = Single(b) \o s
         /\ ByteBefore(b, s) # << >>
<1>1. <<b>> \in Seq(S) /\ Len(<<b>>) = 1 /\ <<b>> = Single(b)
  BY DEF Single
<1>2. <<b>> \o s \in Seq(S) /\ Len(<<b>> \o s) = Len(<<b>>) + Len(s) /\ Len(s) \in Nat
  BY <1>1, ConcatProperties, LenProperties
<1>3. ByteBefore(b, s) = <<b>> \o s
  BY Zenon DEF ByteBefore
<1>4. Len(ByteBefore(b, s)) # 0
  BY <1>1, <1>2, <1>3
<1> QED BY <1>1, <1>2, <1>3, <1>4, EmptySeq

\* What the numbers of seven bits a byte are.
LEMMA VarintStep ==
  ASSUME NEW n \in Nat
  PROVE  /\ Varint[n] \in Seq(Byte) /\ Len(Varint[n]) \in Nat \ {0}
         /\ n < 128 => Varint[n] = Single(n)
         /\ ~(n < 128) => Varint[n] = ByteBefore(128 + (n % 128), Varint[n \div 128])
<1> DEFINE V == Seq(Byte) \ {<< >>}
           S == 0 .. 127
           base == [k \in S |-> Single(k)]
           next == [k \in Nat |-> k \div 128]
           G == [k \in Nat |-> [s \in V |-> ByteBefore(128 + (k % 128), s)]]
           measure == [k \in Nat |-> k]
<1>1. ASSUME NEW k \in S PROVE Single(k) \in V
  <2>1. k \in Byte
    BY DEF Byte
  <2> QED BY <2>1, SingleFacts
<1>2. measure \in [Nat -> Nat]
  OBVIOUS
<1>3. \A k \in Nat : k \in S => base[k] \in V
  BY <1>1
<1>4. \A k \in Nat : k \notin S => next[k] \in Nat /\ measure[next[k]] < measure[k]
  OBVIOUS
<1>5. ASSUME NEW k \in Nat, NEW s \in V
      PROVE  G[k][s] = ByteBefore(128 + (k % 128), s) /\ G[k][s] \in V
  <2>1. 128 + (k % 128) \in Byte
    BY DEF Byte
  <2>2. ByteBefore(128 + (k % 128), s) \in V
    BY <2>1, ByteBeforeFacts
  <2> QED BY <2>2
<1> HIDE DEF V, base, next, G, measure
<1>6. PICK f \in [Nat -> V] : \A k \in Nat : f[k] = IF k \in S THEN base[k] ELSE G[k][f[next[k]]]
  <2>1. V # {}
    <3>1. 0 \in S
      OBVIOUS
    <3> QED BY <1>1, <3>1
  <2>2. \A k \in Nat : \A s \in V : k \notin S => G[k][s] \in V
    BY <1>5
  <2>3. Recursive(Nat, V, S, base, next, G, measure)
    BY <1>2, <1>3, <1>4, <2>1, <2>2 DEF Recursive
  <2> HIDE DEF S
  <2> QED BY <2>3, RecursionExists
<1>7. ASSUME NEW k \in Nat
      PROVE  f[k] = IF k < 128 THEN <<k>> ELSE <<128 + (k % 128)>> \o f[k \div 128]
  <2>1. CASE k < 128
    <3>1. k \in S /\ base[k] = Single(k)
      BY <2>1 DEF base
    <3>2. f[k] = Single(k)
      BY <1>6, <3>1
    <3> QED BY <2>1, <3>2, Zenon DEF Single
  <2>2. CASE ~(k < 128)
    <3>1. k \notin S /\ next[k] = k \div 128 /\ k \div 128 \in Nat
      BY <2>2 DEF next
    <3>2. f[k \div 128] \in V /\ f[k] = G[k][f[k \div 128]]
      BY <1>6, <3>1
    <3>3. f[k] = ByteBefore(128 + (k % 128), f[k \div 128])
      BY <1>5, <3>2
    <3> QED BY <2>2, <3>3, Zenon DEF ByteBefore
  <2> QED BY <2>1, <2>2
<1>8. f = [k \in Nat |-> IF k < 128 THEN <<k>> ELSE <<128 + (k % 128)>> \o f[k \div 128]]
  <2> DEFINE e(k) == IF k < 128 THEN <<k>> ELSE <<128 + (k % 128)>> \o f[k \div 128]
  <2>1. \A k \in Nat : f[k] = e(k)
    BY <1>7, Zenon
  <2> HIDE DEF e
  <2>2. f = [k \in Nat |-> e(k)]
    BY <1>6, <2>1
  <2> QED BY <2>2 DEF e
<1>9. Varint = [k \in Nat |-> IF k < 128 THEN <<k>> ELSE <<128 + (k % 128)>> \o Varint[k \div 128]]
  <2> DEFINE Solves(g) == g = [k \in Nat |-> IF k < 128 THEN <<k>> ELSE <<128 + (k % 128)>> \o g[k \div 128]]
  <2>1. Varint = CHOOSE g : Solves(g)
    BY Zenon DEF Varint
  <2>2. Solves(f)
    BY <1>8, Zenon
  <2> HIDE DEF Solves
  <2>3. Solves(Varint)
    BY <2>1, <2>2
  <2> QED BY <2>3, Zenon DEF Solves
<1>10. ASSUME NEW k \in Nat
       PROVE  Varint[k] = IF k < 128 THEN Single(k) ELSE ByteBefore(128 + (k % 128), Varint[k \div 128])
  <2> DEFINE e(j) == IF j < 128 THEN <<j>> ELSE <<128 + (j % 128)>> \o Varint[j \div 128]
  <2>1. Varint = [j \in Nat |-> e(j)]
    BY <1>9, Zenon
  <2> HIDE DEF e
  <2>2. Varint[k] = e(k)
    BY <2>1
  <2> QED BY <2>2, Zenon DEF e, Single, ByteBefore
<1> DEFINE P == {k \in Nat : \A j \in 0 .. k : Varint[j] \in V}
<1>11. 0 \in P
  <2>1. Varint[0] \in V
    BY <1>1, <1>10
  <2> QED BY <2>1
<1>12. ASSUME NEW k \in Nat, k \in P PROVE k + 1 \in P
  <2>1. CASE k + 1 < 128
    <3>1. Varint[k + 1] \in V
      BY <1>1, <1>10, <2>1
    <3> QED BY <1>12, <3>1
  <2>2. CASE ~(k + 1 < 128)
    <3>1. (k + 1) \div 128 \in 0 .. k
      BY <2>2
    <3>2. Varint[(k + 1) \div 128] \in V
      BY <1>12, <3>1
    <3>3. Varint[k + 1] \in V
      <4>1. Varint[k + 1] = ByteBefore(128 + ((k + 1) % 128), Varint[(k + 1) \div 128])
        BY <1>10, <2>2
      <4> DEFINE r == Varint[(k + 1) \div 128]
                 j == k + 1
      <4>2. j \in Nat
        OBVIOUS
      <4>3. r \in V /\ Varint[j] = ByteBefore(128 + (j % 128), r)
        BY <3>2, <4>1
      <4> HIDE DEF r, j
      <4>4. G[j][r] = ByteBefore(128 + (j % 128), r) /\ G[j][r] \in V
        BY <1>5, <4>2, <4>3
      <4> QED BY <4>3, <4>4 DEF j
    <3> QED BY <1>12, <3>3
  <2> QED BY <2>1, <2>2
<1> HIDE DEF P
<1>13. n \in P
  BY <1>11, <1>12, SetInduction
<1>14. Varint[n] \in V
  BY <1>13 DEF P
<1>15. Len(Varint[n]) \in Nat \ {0}
  BY <1>14, LenProperties, EmptySeq DEF V
<1> QED BY <1>10, <1>14, <1>15 DEF V

\* The size that is computed for a number is that of its bytes.
LEMMA VarintSizeIsLength ==
  ASSUME NEW n \in Nat
  PROVE  VarintSize[n] = Len(Varint[n])
<1> DEFINE Size(k) == Len(Varint[k])
           f == [k \in Nat |-> Size(k)]
<1>1. ASSUME NEW k \in Nat PROVE Size(k) = IF k < 128 THEN 1 ELSE 1 + Size(k \div 128)
  <2> DEFINE r == Varint[k \div 128]
  <2>1. CASE k < 128
    <3>1. Varint[k] = Single(k) /\ Len(Single(k)) = 1
      BY <2>1, VarintStep, SingleFacts
    <3> QED BY <2>1, <3>1
  <2>2. CASE ~(k < 128)
    <3>1. k \div 128 \in Nat /\ 128 + (k % 128) \in Byte
      BY DEF Byte
    <3>2. r \in Seq(Byte) /\ Varint[k] = ByteBefore(128 + (k % 128), r)
      BY <2>2, <3>1, VarintStep
    <3> HIDE DEF r
    <3>3. Len(Varint[k]) = 1 + Len(r)
      BY <3>1, <3>2, ByteBeforeFacts
    <3> QED BY <2>2, <3>3 DEF r
  <2> QED BY <2>1, <2>2
<1> HIDE DEF Size
<1>2. ASSUME NEW k \in Nat PROVE f[k] = IF k < 128 THEN 1 ELSE 1 + f[k \div 128]
  <2>1. k \div 128 \in Nat
    OBVIOUS
  <2> QED BY <1>1, <2>1
<1>3. f = [k \in Nat |-> IF k < 128 THEN 1 ELSE 1 + f[k \div 128]]
  BY <1>2
<1> HIDE DEF f
<1>4. VarintSize = [k \in Nat |-> IF k < 128 THEN 1 ELSE 1 + VarintSize[k \div 128]]
  BY <1>3 DEF VarintSize
<1>5. \A k \in Nat : VarintSize[k] = IF k < 128 THEN 1 ELSE 1 + VarintSize[k \div 128]
  BY <1>4
<1> DEFINE P == {k \in Nat : \A j \in 0 .. k : VarintSize[j] = Size(j)}
<1>6. 0 \in P
  <2>1. VarintSize[0] = 1 /\ Size(0) = 1
    BY <1>1, <1>5
  <2> QED BY <2>1
<1>7. ASSUME NEW k \in Nat, k \in P PROVE k + 1 \in P
  <2>1. VarintSize[k + 1] = Size(k + 1)
    <3>1. k + 1 < 128 \/ (k + 1) \div 128 \in 0 .. k
      OBVIOUS
    <3> QED BY <1>1, <1>5, <1>7, <3>1
  <2> QED BY <1>7, <2>1
<1> HIDE DEF P
<1>8. n \in P
  BY <1>6, <1>7, SetInduction
<1> QED BY <1>8 DEF P, Size

-----------------------------------------------------------------------------
(* Reading a number *)

\* The two functions that ReadVarint computes: where the digits of a number end,
\* and the value of the digits up to there.
IsDigits(bytes, f) ==
  f = [q \in Position |-> IF At(bytes, q) < 128 THEN q ELSE f[q + 1]]
IsValue(bytes, last, f) ==
  f = [q \in Position |-> (At(bytes, q) % 128) + (IF q = last THEN 0 ELSE 128 * f[q + 1])]
Digits(bytes) == CHOOSE f : IsDigits(bytes, f)
Value(bytes, last) == CHOOSE f : IsValue(bytes, last, f)

\* The seven lower bits of a byte.
LEMMA LowBits ==
  ASSUME NEW b \in Byte
  PROVE  b % 128 = (IF b < 128 THEN b ELSE b - 128) /\ b % 128 \in Nat
BY DEF Byte

\* What the parser looks at is a byte, and zero past the end.
LEMMA AtFacts ==
  ASSUME NEW bytes \in Seq(Byte), NEW q \in Position
  PROVE  /\ At(bytes, q) \in Byte /\ Len(bytes) \in Nat
         /\ q > Len(bytes) => At(bytes, q) = 0
<1>1. Len(bytes) \in Nat
  BY LenProperties
<1>2. CASE q <= Len(bytes)
  <2>1. bytes[q] \in Byte
    BY <1>1, <1>2, ElementOfSeq DEF Position
  <2> QED BY <1>1, <1>2, <2>1 DEF At, Position
<1>3. CASE ~(q <= Len(bytes))
  BY <1>1, <1>3 DEF At, Byte, Position
<1> QED BY <1>1, <1>2, <1>3

\* The end of a number is found: there are zeros past the end of the bytes.
LEMMA DigitsExist ==
  ASSUME NEW bytes \in Seq(Byte)
  PROVE  IsDigits(bytes, Digits(bytes))
<1> DEFINE l == Len(bytes)
           S == {q \in Position : At(bytes, q) < 128}
           base == [q \in Position |-> q]
           next == [q \in Position |-> q + 1]
           G == [q \in Position |-> [y \in Position |-> y]]
           measure == [q \in Position |-> IF q > l THEN 0 ELSE l + 1 - q]
<1>1. l \in Nat
  BY LenProperties
<1>2. \A q \in Position : q \notin S => q <= l
  BY <1>1, AtFacts DEF Position
<1> HIDE DEF l, S
<1>3. Recursive(Position, Position, S, base, next, G, measure)
  <2>1. Position # {}
    <3>1. 1 \in Position
      BY DEF Position
    <3> QED BY <3>1
  <2>2. measure \in [Position -> Nat]
    BY <1>1 DEF Position
  <2>3. ASSUME NEW x \in Position, x \notin S
        PROVE  next[x] \in Position /\ measure[next[x]] < measure[x]
    BY <1>1, <1>2, <2>3 DEF Position
  <2>4. \A x \in Position : \A y \in Position : G[x][y] \in Position
    OBVIOUS
  <2>5. \A x \in Position : base[x] \in Position
    OBVIOUS
  <2> HIDE DEF base, next, G, measure
  <2> QED BY <2>1, <2>2, <2>3, <2>4, <2>5 DEF Recursive
<1> HIDE DEF measure
<1>4. PICK f \in [Position -> Position] :
        \A x \in Position : f[x] = IF x \in S THEN base[x] ELSE G[x][f[next[x]]]
  <2> HIDE DEF base, next, G
  <2> QED BY <1>3, RecursionExists
<1>5. \A q \in Position : f[q] = IF At(bytes, q) < 128 THEN q ELSE f[q + 1]
  <2>1. ASSUME NEW q \in Position PROVE q + 1 \in Position
    BY DEF Position
  <2> QED BY <1>4, <2>1 DEF S
<1>6. IsDigits(bytes, f)
  BY <1>5 DEF IsDigits
<1> QED BY <1>6 DEF Digits

\* The value of the digits of a number is defined wherever the number ends.
LEMMA ValueExists ==
  ASSUME NEW bytes \in Seq(Byte), NEW last \in Position
  PROVE  IsValue(bytes, last, Value(bytes, last))
<1> DEFINE l == Len(bytes)
           S == {q \in Position : q > l \/ q = last}
           base == [q \in Position |-> At(bytes, q) % 128]
           next == [q \in Position |-> q + 1]
           G == [q \in Position |-> [y \in Nat |-> (At(bytes, q) % 128) + 128 * y]]
           measure == [q \in Position |-> IF q > l THEN 0 ELSE l + 1 - q]
<1>1. l \in Nat
  BY LenProperties
<1>2. ASSUME NEW q \in Position
      PROVE  At(bytes, q) % 128 \in Nat /\ (q > l => At(bytes, q) % 128 = 0)
  <2>1. At(bytes, q) \in Byte /\ (q > l => At(bytes, q) = 0)
    BY AtFacts
  <2> QED BY <2>1, LowBits
<1>3. \A q \in Position : q \notin S => q <= l
  BY <1>1 DEF Position
<1> HIDE DEF l
<1>4. Recursive(Position, Nat, S, base, next, G, measure)
  <2>1. measure \in [Position -> Nat]
    BY <1>1 DEF Position
  <2>2. ASSUME NEW x \in Position, x \notin S
        PROVE  next[x] \in Position /\ measure[next[x]] < measure[x]
    <3> HIDE DEF S
    <3> QED BY <1>1, <1>3, <2>2 DEF Position
  <2>3. ASSUME NEW x \in Position, NEW y \in Nat PROVE G[x][y] \in Nat
    <3>1. G[x][y] = (At(bytes, x) % 128) + 128 * y
      OBVIOUS
    <3> HIDE DEF G
    <3> QED BY <1>2, <3>1
  <2>4. \A x \in Position : base[x] \in Nat
    BY <1>2
  <2> HIDE DEF base, next, G, measure, S
  <2> QED BY <2>1, <2>2, <2>3, <2>4 DEF Recursive
<1> HIDE DEF measure
<1>5. PICK f \in [Position -> Nat] :
        \A x \in Position : f[x] = IF x \in S THEN base[x] ELSE G[x][f[next[x]]]
  <2> HIDE DEF base, next, G, S
  <2> QED BY <1>4, RecursionExists
<1>6. ASSUME NEW q \in Position
      PROVE  f[q] = (At(bytes, q) % 128) + (IF q = last THEN 0 ELSE 128 * f[q + 1])
  <2>1. q + 1 \in Position /\ (q > l => q + 1 > l)
    BY <1>1 DEF Position
  <2>2. f[q + 1] \in Nat /\ f[q] \in Nat
    BY <1>5, <2>1
  <2>3. CASE q = last
    <3>1. f[q] = At(bytes, q) % 128
      BY <1>5, <2>3
    <3> QED BY <1>2, <2>3, <3>1
  <2>4. CASE q # last /\ q > l
    <3>1. f[q] = At(bytes, q) % 128 /\ f[q + 1] = At(bytes, q + 1) % 128
      BY <1>5, <2>1, <2>4
    <3>2. f[q] = 0 /\ f[q + 1] = 0 /\ At(bytes, q) % 128 = 0
      BY <1>2, <2>1, <2>4, <3>1
    <3> QED BY <2>4, <3>2
  <2>5. CASE q # last /\ ~(q > l)
    <3>1. q \notin S
      BY <2>5
    <3>2. f[q] = G[q][f[next[q]]] /\ next[q] = q + 1
      <4> HIDE DEF G, S
      <4> QED BY <1>5, <3>1
    <3>3. f[q] = (At(bytes, q) % 128) + 128 * f[q + 1]
      <4> DEFINE y == f[q + 1]
      <4>1. y \in Nat /\ f[q] = G[q][y]
        BY <2>2, <3>2
      <4> HIDE DEF y
      <4>2. G[q][y] = (At(bytes, q) % 128) + 128 * y
        BY <4>1
      <4> QED BY <4>1, <4>2 DEF y
    <3> QED BY <2>5, <3>3
  <2> QED BY <2>3, <2>4, <2>5
<1>7. IsValue(bytes, last, f)
  <2> DEFINE e(q) == (At(bytes, q) % 128) + (IF q = last THEN 0 ELSE 128 * f[q + 1])
  <2>1. \A q \in Position : f[q] = e(q)
    BY <1>6
  <2> HIDE DEF e
  <2>2. f = [q \in Position |-> e(q)]
    BY <1>5, <2>1
  <2> QED BY <2>2, Zenon DEF e, IsValue
<1> QED BY <1>7, Zenon DEF Value

\* What a number is read as: its first byte, and what follows if that has bit 8.
LEMMA ReadVarintStep ==
  ASSUME NEW bytes \in Seq(Byte), NEW p \in Position
  PROVE  LET r == ReadVarint(bytes, p)
             s == ReadVarint(bytes, p + 1)
         IN  /\ r.value \in Nat /\ r.next \in Position /\ r.next > p
             /\ At(bytes, p) < 128 => r.value = At(bytes, p) /\ r.next = p + 1
             /\ ~(At(bytes, p) < 128) =>
                  r.value = At(bytes, p) - 128 + 128 * s.value /\ r.next = s.next
<1> DEFINE d == Digits(bytes)
           v(q) == Value(bytes, d[q])[q]
           l == Len(bytes)
<1>1. ASSUME NEW q \in Position
      PROVE  ReadVarint(bytes, q).value = v(q) /\ ReadVarint(bytes, q).next = d[q] + 1
  <2>1. ReadVarint(bytes, q) = [value |-> v(q), next |-> d[q] + 1]
    BY Zenon DEF ReadVarint, Digits, Value, IsDigits, IsValue
  <2> HIDE DEF v, d
  <2> QED BY <2>1
<1>2. ASSUME NEW q \in Position
      PROVE  q + 1 \in Position /\ d[q] = IF At(bytes, q) < 128 THEN q ELSE d[q + 1]
  <2>1. IsDigits(bytes, d)
    BY DigitsExist
  <2> HIDE DEF d
  <2> QED BY <2>1 DEF IsDigits, Position
<1> HIDE DEF d
<1>3. ASSUME NEW q \in Position, NEW k \in Position
      PROVE  Value(bytes, k)[q]
               = (At(bytes, q) % 128) + (IF q = k THEN 0 ELSE 128 * Value(bytes, k)[q + 1])
  <2> DEFINE f == Value(bytes, k)
             e(x) == (At(bytes, x) % 128) + (IF x = k THEN 0 ELSE 128 * f[x + 1])
  <2>1. f = [x \in Position |-> e(x)]
    BY ValueExists, Zenon DEF IsValue
  <2> HIDE DEF e
  <2>2. f[q] = e(q)
    BY <2>1
  <2> QED BY <2>2 DEF e
<1>4. ASSUME NEW q \in Position
      PROVE  /\ At(bytes, q) \in Nat /\ l \in Nat /\ (q > l => At(bytes, q) = 0)
             /\ At(bytes, q) % 128 = (IF At(bytes, q) < 128 THEN At(bytes, q) ELSE At(bytes, q) - 128)
  <2>1. At(bytes, q) \in Byte /\ l \in Nat /\ (q > l => At(bytes, q) = 0)
    BY AtFacts
  <2>2. \A b \in Byte : b \in Nat
    BY DEF Byte
  <2> QED BY <2>1, <2>2, LowBits
<1> DEFINE w(q) == Value(bytes, d[q])
<1>5. ASSUME NEW q \in Position, d[q] \in Position
      PROVE  /\ At(bytes, q) < 128 => v(q) = At(bytes, q)
             /\ ~(At(bytes, q) < 128) /\ d[q] >= q + 1 => v(q) = At(bytes, q) - 128 + 128 * v(q + 1)
  <2>1. w(q)[q] = (At(bytes, q) % 128) + (IF q = d[q] THEN 0 ELSE 128 * w(q)[q + 1])
    BY <1>3, <1>5
  <2>2. CASE At(bytes, q) < 128
    <3>1. q = d[q] /\ At(bytes, q) % 128 = At(bytes, q) /\ At(bytes, q) \in Nat
      BY <1>2, <1>4, <2>2
    <3> HIDE DEF w
    <3>2. w(q)[q] = At(bytes, q)
      BY <2>1, <3>1
    <3> QED BY <2>2, <3>2 DEF w
  <2>3. CASE ~(At(bytes, q) < 128)
    <3> SUFFICES ASSUME d[q] >= q + 1 PROVE v(q) = At(bytes, q) - 128 + 128 * v(q + 1)
      BY <2>3
    <3>1. d[q] = d[q + 1] /\ q # d[q] /\ At(bytes, q) % 128 = At(bytes, q) - 128
      BY <1>2, <1>4, <2>3 DEF Position
    <3>2. w(q + 1) = w(q)
      BY <3>1, Zenon
    <3>3. v(q) = w(q)[q] /\ v(q + 1) = w(q)[q + 1]
      BY <3>2, Zenon
    <3> HIDE DEF w, v
    <3> QED BY <2>1, <3>1, <3>3
  <2> QED BY <2>2, <2>3
<1> HIDE DEF v, w
<1> DEFINE T == {k \in Nat : \A q \in Position : q + k > l =>
                               d[q] \in Position /\ d[q] >= q /\ v(q) \in Nat}
<1>6. 0 \in T
  <2> SUFFICES ASSUME NEW q \in Position, q > l
               PROVE  d[q] \in Position /\ d[q] >= q /\ v(q) \in Nat
    BY DEF Position
  <2>1. At(bytes, q) = 0 /\ d[q] = q
    BY <1>2, <1>4
  <2> QED BY <1>5, <2>1 DEF Position
<1>7. ASSUME NEW k \in Nat, k \in T PROVE k + 1 \in T
  <2> SUFFICES ASSUME NEW q \in Position, q + (k + 1) > l
               PROVE  d[q] \in Position /\ d[q] >= q /\ v(q) \in Nat
    OBVIOUS
  <2>1. CASE At(bytes, q) < 128
    <3>1. d[q] = q
      BY <1>2, <2>1
    <3>2. v(q) = At(bytes, q)
      BY <1>5, <2>1, <3>1
    <3> QED BY <1>4, <3>1, <3>2 DEF Position
  <2>2. CASE ~(At(bytes, q) < 128)
    <3>1. q + 1 \in Position /\ q + 1 + k > l /\ d[q] = d[q + 1] /\ q \in Nat
      BY <1>2, <1>4, <2>2 DEF Position
    <3>2. d[q + 1] \in Position /\ d[q + 1] >= q + 1 /\ v(q + 1) \in Nat
      BY <1>7, <3>1
    <3>3. v(q) = At(bytes, q) - 128 + 128 * v(q + 1)
      BY <1>5, <2>2, <3>1, <3>2
    <3>4. At(bytes, q) - 128 + 128 * v(q + 1) \in Nat
      BY <1>4, <2>2, <3>2
    <3> QED BY <3>1, <3>2, <3>3, <3>4 DEF Position
  <2> QED BY <2>1, <2>2
<1> HIDE DEF T
<1>8. ASSUME NEW q \in Position PROVE d[q] \in Position /\ d[q] >= q /\ v(q) \in Nat
  <2>1. l \in T /\ l \in Nat
    BY <1>4, <1>6, <1>7, SetInduction
  <2>2. q + l > l
    BY <2>1 DEF Position
  <2> QED BY <2>1, <2>2 DEF T
<1>9. p + 1 \in Position /\ d[p] \in Position /\ d[p] >= p /\ v(p) \in Nat
      /\ d[p + 1] \in Position /\ d[p + 1] >= p + 1
  BY <1>2, <1>8
<1>10. CASE At(bytes, p) < 128
  BY <1>1, <1>2, <1>5, <1>9, <1>10 DEF Position
<1>11. CASE ~(At(bytes, p) < 128)
  BY <1>1, <1>2, <1>5, <1>9, <1>11 DEF Position
<1> QED BY <1>10, <1>11

\* The bytes have s at position p.
Holds(bytes, p, s) ==
  /\ p + Len(s) <= Len(bytes) + 1
  /\ \A i \in 1 .. Len(s) : bytes[p + i - 1] = s[i]

\* What is held where two sequences are held.
LEMMA HoldsFacts ==
  ASSUME NEW bytes \in Seq(Byte)
  PROVE  /\ \A p \in Position : \A s, t \in Seq(Byte) :
              Holds(bytes, p, s \o t) =>
                /\ Holds(bytes, p, s) /\ Holds(bytes, p + Len(s), t)
                /\ p + Len(s) \in Position
         /\ Holds(bytes, 1, bytes)
         /\ \A p \in Position : \A b \in Byte :
              Holds(bytes, p, Single(b)) => At(bytes, p) = b
<1>1. Len(bytes) \in Nat
  BY LenProperties
<1>2. ASSUME NEW p \in Position, NEW s \in Seq(Byte), NEW t \in Seq(Byte), Holds(bytes, p, s \o t)
      PROVE  /\ Holds(bytes, p, s) /\ Holds(bytes, p + Len(s), t)
             /\ p + Len(s) \in Position
  <2> DEFINE u == s \o t
             m == Len(s)
             n == Len(t)
  <2>1. /\ m \in Nat /\ n \in Nat /\ Len(u) = m + n /\ p \in Nat
        /\ \A i \in 1 .. m + n : u[i] = IF i <= m THEN s[i] ELSE t[i - m]
    BY ConcatProperties, LenProperties DEF Position
  <2>2. /\ p + Len(u) <= Len(bytes) + 1
        /\ \A i \in 1 .. Len(u) : bytes[p + i - 1] = u[i]
    BY <1>2 DEF Holds
  <2> HIDE DEF u, m, n
  <2>3. Holds(bytes, p, s)
    <3>1. p + m <= Len(bytes) + 1
      BY <1>1, <2>1, <2>2
    <3>2. ASSUME NEW i \in 1 .. m PROVE bytes[p + i - 1] = s[i]
      <4>1. i \in 1 .. m + n /\ i <= m
        BY <2>1
      <4> QED BY <2>1, <2>2, <4>1
    <3> QED BY <3>1, <3>2 DEF Holds, m
  <2>4. Holds(bytes, p + m, t)
    <3>1. p + m + n <= Len(bytes) + 1
      BY <1>1, <2>1, <2>2
    <3>2. ASSUME NEW i \in 1 .. n PROVE bytes[p + m + i - 1] = t[i]
      <4>1. m + i \in 1 .. m + n /\ ~(m + i <= m) /\ m + i - m = i /\ p + (m + i) - 1 = p + m + i - 1
        BY <2>1
      <4>2. bytes[p + (m + i) - 1] = u[m + i] /\ u[m + i] = t[m + i - m]
        BY <2>1, <2>2, <4>1
      <4> QED BY <4>1, <4>2
    <3> QED BY <3>1, <3>2 DEF Holds, n
  <2> QED BY <2>1, <2>3, <2>4 DEF m, Position
<1>3. Holds(bytes, 1, bytes)
  BY <1>1 DEF Holds
<1>4. ASSUME NEW p \in Position, NEW b \in Byte, Holds(bytes, p, Single(b))
      PROVE  At(bytes, p) = b
  <2>1. Len(Single(b)) = 1 /\ Single(b)[1] = b
    BY SingleFacts
  <2>2. 1 \in 1 .. 1 /\ p + 1 <= Len(bytes) + 1 /\ bytes[p + 1 - 1] = b
    BY <1>4, <2>1 DEF Holds
  <2>3. p <= Len(bytes) /\ p + 1 - 1 = p
    BY <1>1, <2>2 DEF Position
  <2> QED BY <2>2, <2>3 DEF At
<1> QED BY <1>2, <1>3, <1>4

\* A number that was written is read again.
LEMMA VarintRead ==
  ASSUME NEW bytes \in Seq(Byte), NEW n \in Nat, NEW p \in Position,
         Holds(bytes, p, Varint[n])
  PROVE  /\ ReadVarint(bytes, p).value = n
         /\ ReadVarint(bytes, p).next = p + Len(Varint[n])
<1> DEFINE Reads(k, q) ==
             /\ ReadVarint(bytes, q).value = k
             /\ ReadVarint(bytes, q).next = q + Len(Varint[k])
           T == {k \in Nat : \A j \in 0 .. k : \A q \in Position :
                               Holds(bytes, q, Varint[j]) => Reads(j, q)}
<1>1. ASSUME NEW k \in Nat, NEW q \in Position, k < 128, Holds(bytes, q, Varint[k])
      PROVE  Reads(k, q)
  <2>1. Varint[k] = Single(k) /\ k \in Byte /\ Len(Single(k)) = 1
    <3>1. k \in Byte
      BY <1>1 DEF Byte
    <3> QED BY <1>1, <3>1, VarintStep, SingleFacts
  <2>2. At(bytes, q) = k
    BY <1>1, <2>1, HoldsFacts
  <2> QED BY <1>1, <2>1, <2>2, ReadVarintStep
<1>2. ASSUME NEW k \in Nat, NEW q \in Position, ~(k < 128), Holds(bytes, q, Varint[k]),
             \A r \in Position : Holds(bytes, r, Varint[k \div 128]) => Reads(k \div 128, r)
      PROVE  Reads(k, q)
  <2> DEFINE j == k \div 128
             b == 128 + (k % 128)
             s == Varint[j]
  <2>1. j \in Nat /\ b \in Byte /\ b \in Nat /\ ~(b < 128) /\ k = b - 128 + 128 * j
    BY DEF Byte
  <2>2. s \in Seq(Byte) /\ Varint[k] = ByteBefore(b, s)
    BY <1>2, <2>1, VarintStep
  <2> HIDE DEF j, b, s
  <2>3. /\ Single(b) \in Seq(Byte) /\ Len(Single(b)) = 1 /\ ByteBefore(b, s) = Single(b) \o s
        /\ Len(Varint[k]) = 1 + Len(s) /\ Len(s) \in Nat
    <3>1. Single(b) \in Seq(Byte) /\ Len(Single(b)) = 1
      BY <2>1, SingleFacts
    <3>2. ByteBefore(b, s) = Single(b) \o s /\ Len(ByteBefore(b, s)) = 1 + Len(s) /\ Len(s) \in Nat
      BY <2>1, <2>2, ByteBeforeFacts
    <3> QED BY <2>2, <3>1, <3>2
  <2>4. Holds(bytes, q, Single(b)) /\ Holds(bytes, q + 1, s) /\ q + 1 \in Position
    BY <1>2, <2>2, <2>3, HoldsFacts
  <2>5. At(bytes, q) = b
    BY <2>1, <2>4, HoldsFacts
  <2>6. Reads(j, q + 1)
    BY <1>2, <2>4 DEF j, s
  <2>7. /\ ReadVarint(bytes, q).value = b - 128 + 128 * ReadVarint(bytes, q + 1).value
        /\ ReadVarint(bytes, q).next = ReadVarint(bytes, q + 1).next
    BY <2>1, <2>5, ReadVarintStep
  <2>8. Len(s) = Len(Varint[j])
    BY DEF s
  <2>9. q + 1 + Len(s) = q + (1 + Len(s))
    BY <2>3 DEF Position
  <2> QED BY <2>1, <2>3, <2>6, <2>7, <2>8, <2>9
<1> HIDE DEF Reads
<1>3. 0 \in T
  BY <1>1
<1>4. ASSUME NEW k \in Nat, k \in T PROVE k + 1 \in T
  <2> SUFFICES ASSUME NEW q \in Position, Holds(bytes, q, Varint[k + 1]) PROVE Reads(k + 1, q)
    BY <1>4
  <2>1. CASE k + 1 < 128
    BY <1>1, <2>1
  <2>2. CASE ~(k + 1 < 128)
    <3>1. (k + 1) \div 128 \in 0 .. k
      BY <2>2
    <3>2. \A r \in Position : Holds(bytes, r, Varint[(k + 1) \div 128]) => Reads((k + 1) \div 128, r)
      BY <1>4, <3>1
    <3> QED BY <1>2, <2>2, <3>2
  <2> QED BY <2>1, <2>2
<1> HIDE DEF T
<1>5. n \in T
  BY <1>3, <1>4, SetInduction
<1>6. n \in 0 .. n
  OBVIOUS
<1> QED BY <1>5, <1>6 DEF T, Reads

-----------------------------------------------------------------------------
(* Reading a field *)

\* Fields as a parse can find them.
ValuesOf(type) ==
  CASE type = VarintType -> Nat
    [] type = LengthType -> Seq(Byte)
    [] type = Fixed64Type -> {s \in Seq(Byte) : Len(s) = 8}
    [] OTHER -> {s \in Seq(Byte) : Len(s) = 4}
WireTypes == {VarintType, LengthType, Fixed64Type, Fixed32Type}
WireFields ==
  {f \in [number : Position, type : WireTypes, value : UNION {ValuesOf(t) : t \in WireTypes}] :
     f.value \in ValuesOf(f.type)}

\* The bytes taken at a place are those that stand there.
LEMMA TakeFacts ==
  ASSUME NEW bytes \in Seq(Byte), NEW p \in Position, NEW n \in Nat
  PROVE  /\ Take(bytes, p, n) \in Seq(Byte) /\ Len(Take(bytes, p, n)) = n
         /\ \A s \in Seq(Byte) : Holds(bytes, p, s) /\ Len(s) = n => Take(bytes, p, n) = s
<1> DEFINE t == Take(bytes, p, n)
<1>1. \A i \in 1 .. n : p + i - 1 \in Position
  BY DEF Position
<1>2. t = [i \in 1 .. n |-> At(bytes, p + i - 1)]
  BY DEF Take
<1>3. \A i \in 1 .. n : At(bytes, p + i - 1) \in Byte
  BY <1>1, AtFacts
<1>4. t \in Seq(Byte) /\ Len(t) = n
  <2> HIDE DEF t
  <2>1. t \in [1 .. n -> Byte]
    BY <1>2, <1>3
  <2> QED BY <2>1
<1>5. ASSUME NEW s \in Seq(Byte), Holds(bytes, p, s), Len(s) = n PROVE t = s
  <2>1. \A i \in 1 .. n : t[i] = s[i]
    <3> SUFFICES ASSUME NEW i \in 1 .. n PROVE t[i] = s[i]
      OBVIOUS
    <3>1. p + i - 1 <= Len(bytes) /\ bytes[p + i - 1] = s[i]
      BY <1>5, LenProperties DEF Holds, Position
    <3> QED BY <1>2, <3>1 DEF At
  <2> HIDE DEF t
  <2> QED BY <1>4, <1>5, <2>1, SeqEqual
<1> QED BY <1>4, <1>5

\* The wire types differ, and have three bits.
LEMMA WireTypeFacts ==
  /\ VarintType # LengthType /\ VarintType # Fixed64Type /\ VarintType # Fixed32Type
  /\ LengthType # Fixed64Type /\ LengthType # Fixed32Type /\ Fixed64Type # Fixed32Type
  /\ WireTypes \subseteq 0 .. 7
  /\ ValuesOf(VarintType) = Nat /\ ValuesOf(LengthType) = Seq(Byte)
  /\ ValuesOf(Fixed64Type) = {s \in Seq(Byte) : Len(s) = 8}
  /\ ValuesOf(Fixed32Type) = {s \in Seq(Byte) : Len(s) = 4}
<1>1. /\ VarintType # LengthType /\ VarintType # Fixed64Type /\ VarintType # Fixed32Type
      /\ LengthType # Fixed64Type /\ LengthType # Fixed32Type /\ Fixed64Type # Fixed32Type
      /\ WireTypes \subseteq 0 .. 7
  BY DEF WireTypes, VarintType, LengthType, Fixed64Type, Fixed32Type
<1> QED BY <1>1 DEF ValuesOf

\* What is read for a tag of each type.
LEMMA ReadFieldCases ==
  ASSUME NEW bytes, NEW p
  PROVE  LET tag == ReadVarint(bytes, p)
             type == tag.value % 8
             length == ReadVarint(bytes, tag.next)
             Reads(v, n) ==
               ReadField(bytes, p) = [field |-> Field(tag.value \div 8, type, v), next |-> n]
         IN  /\ type = VarintType => Reads(length.value, length.next)
             /\ type = LengthType =>
                  Reads(Take(bytes, length.next, length.value), length.next + length.value)
             /\ type = Fixed64Type => Reads(Take(bytes, tag.next, 8), tag.next + 8)
             /\ type = Fixed32Type => Reads(Take(bytes, tag.next, 4), tag.next + 4)
BY WireTypeFacts, Zenon DEF ReadField

\* What a tag is made of.
LEMMA TagFacts ==
  ASSUME NEW x \in Position, NEW y \in 0 .. 7
  PROVE  /\ 8 * x + y \in Nat /\ 8 * x + y >= 8
         /\ (8 * x + y) % 8 = y /\ (8 * x + y) \div 8 = x
<1>1. x \in Nat /\ x >= 1 /\ y \in Nat /\ y < 8
  BY DEF Position
<1>2. 8 * x + y \in Nat /\ 8 * x + y >= 8
  BY <1>1
<1>3. (8 * x + y) \div 8 = x
  BY <1>1
<1>4. (8 * x + y) % 8 = y
  BY <1>1
<1> QED BY <1>2, <1>3, <1>4

\* What the constructor of a field yields is a field.
LEMMA FieldIsField ==
  ASSUME NEW n \in Position, NEW t \in WireTypes, NEW v \in ValuesOf(t)
  PROVE  /\ Field(n, t, v) \in WireFields
         /\ Field(n, t, v).number = n /\ Field(n, t, v).type = t /\ Field(n, t, v).value = v
<1> DEFINE f == Field(n, t, v)
<1>1. f = [number |-> n, type |-> t, value |-> v]
  BY DEF Field
<1>2. v \in UNION {ValuesOf(u) : u \in WireTypes}
  OBVIOUS
<1> HIDE DEF f
<1> QED BY <1>1, <1>2 DEF WireFields, f

\* A field that is read is one, and ends behind its position.
LEMMA ReadFieldType ==
  ASSUME NEW bytes \in Seq(Byte), NEW p \in Position, Readable(bytes, p)
  PROVE  /\ ReadField(bytes, p).field \in WireFields
         /\ ReadField(bytes, p).next \in Position /\ ReadField(bytes, p).next > p
<1> DEFINE tag == ReadVarint(bytes, p)
           type == tag.value % 8
           number == tag.value \div 8
           length == ReadVarint(bytes, tag.next)
           read == ReadField(bytes, p)
           small(n) == Take(bytes, tag.next, n)
           long == Take(bytes, length.next, length.value)
           Reads(v, n) == read = [field |-> Field(number, type, v), next |-> n]
<1>1. tag.value \in Nat /\ tag.next \in Position /\ tag.next > p
  BY ReadVarintStep
<1>2. length.value \in Nat /\ length.next \in Position /\ length.next > tag.next
  BY <1>1, ReadVarintStep
<1>3. tag.value >= 8 /\ type \in WireTypes
  BY DEF Readable, WireTypes
<1>4. number \in Position
  BY <1>1, <1>3 DEF Position
<1>5. /\ type = VarintType => Reads(length.value, length.next)
      /\ type = LengthType => Reads(long, length.next + length.value)
      /\ type = Fixed64Type => Reads(small(8), tag.next + 8)
      /\ type = Fixed32Type => Reads(small(4), tag.next + 4)
  BY ReadFieldCases, Zenon
<1>6. /\ long \in Seq(Byte)
      /\ small(8) \in Seq(Byte) /\ Len(small(8)) = 8
      /\ small(4) \in Seq(Byte) /\ Len(small(4)) = 4
  <2>1. \A q \in Position : \A k \in Nat :
          Take(bytes, q, k) \in Seq(Byte) /\ Len(Take(bytes, q, k)) = k
    BY TakeFacts
  <2>2. 8 \in Nat /\ 4 \in Nat
    OBVIOUS
  <2> HIDE DEF tag, length
  <2> QED BY <1>1, <1>2, <2>1, <2>2
<1> HIDE DEF tag, type, number, length, read, small, long
<1>7. \E v \in ValuesOf(type), n \in Position : n > p /\ Reads(v, n)
  <2> HIDE DEF Reads
  <2>1. CASE type = VarintType
    BY <1>1, <1>2, <1>5, <2>1, WireTypeFacts DEF Position
  <2>2. CASE type = LengthType
    <3>1. length.next + length.value \in Position /\ length.next + length.value > p
      BY <1>1, <1>2 DEF Position
    <3> QED BY <1>5, <1>6, <2>2, <3>1, WireTypeFacts
  <2>3. CASE type = Fixed64Type
    <3>1. tag.next + 8 \in Position /\ tag.next + 8 > p
      BY <1>1 DEF Position
    <3> QED BY <1>5, <1>6, <2>3, <3>1, WireTypeFacts
  <2>4. CASE type = Fixed32Type
    <3>1. tag.next + 4 \in Position /\ tag.next + 4 > p
      BY <1>1 DEF Position
    <3> QED BY <1>5, <1>6, <2>4, <3>1, WireTypeFacts
  <2> QED BY <1>3, <2>1, <2>2, <2>3, <2>4 DEF WireTypes
<1>8. PICK v \in ValuesOf(type), n \in Position : n > p /\ Reads(v, n)
  BY <1>7
<1>9. Field(number, type, v) \in WireFields
  BY <1>3, <1>4, FieldIsField
<1>10. read.field \in WireFields /\ read.next \in Position /\ read.next > p
  BY <1>8, <1>9
<1> QED BY <1>10 DEF read

-----------------------------------------------------------------------------
(* Writing a field *)

\* What is written behind the tag.
Body(f) ==
  CASE f.type = VarintType -> Varint[f.value]
    [] f.type = LengthType -> Varint[Len(f.value)] \o f.value
    [] OTHER -> f.value

\* A field is written as its tag and a body; its size is the one computed before.
LEMMA EncodeFieldFacts ==
  ASSUME NEW f \in WireFields
  PROVE  /\ f.number \in Position /\ f.type \in WireTypes /\ f.value \in ValuesOf(f.type)
         /\ f = Field(f.number, f.type, f.value)
         /\ 8 * f.number + f.type \in Nat
         /\ Body(f) \in Seq(Byte) /\ EncodeField(f) = Varint[8 * f.number + f.type] \o Body(f)
         /\ EncodeField(f) \in Seq(Byte)
         /\ EncodedSize(f) = Len(EncodeField(f))
<1> DEFINE n == 8 * f.number + f.type
           v == f.value
<1>1. f.number \in Position /\ f.type \in WireTypes /\ v \in ValuesOf(f.type)
  BY DEF WireFields
<1>2. f = Field(f.number, f.type, f.value)
  BY DEF Field, WireFields
<1>3. n \in Nat /\ Varint[n] \in Seq(Byte)
  <2>1. n \in Nat
    <3>1. f.number \in Position /\ f.type \in 0 .. 7
      BY <1>1, WireTypeFacts
    <3> QED BY <3>1, TagFacts
  <2> QED BY <2>1, VarintStep
<1>4. EncodeField(f) = Varint[n] \o Body(f)
  BY Zenon DEF EncodeField, Body
<1> DEFINE size == CASE f.type = VarintType -> VarintSize[v]
                     [] f.type = LengthType -> VarintSize[Len(v)] + Len(v)
                     [] OTHER -> Len(v)
<1>5. Body(f) \in Seq(Byte) /\ size = Len(Body(f))
  <2>1. CASE f.type = VarintType
    <3>1. Body(f) = Varint[v] /\ size = VarintSize[v]
      BY <2>1, WireTypeFacts, Zenon DEF Body
    <3>2. v \in Nat
      BY <1>1, <2>1, WireTypeFacts
    <3> HIDE DEF v, size
    <3> QED BY <3>1, <3>2, VarintStep, VarintSizeIsLength
  <2>2. CASE f.type = LengthType
    <3>1. Body(f) = Varint[Len(v)] \o v /\ size = VarintSize[Len(v)] + Len(v)
      BY <2>2, WireTypeFacts, Zenon DEF Body
    <3>2. v \in Seq(Byte) /\ Len(v) \in Nat
      BY <1>1, <2>2, WireTypeFacts, LenProperties
    <3>3. Varint[Len(v)] \in Seq(Byte) /\ VarintSize[Len(v)] = Len(Varint[Len(v)])
      BY <3>2, VarintStep, VarintSizeIsLength
    <3> DEFINE w == Varint[Len(v)]
    <3> HIDE DEF v, size, w
    <3>4. w \o v \in Seq(Byte) /\ Len(w \o v) = Len(w) + Len(v)
      BY <3>2, <3>3, ConcatProperties DEF w
    <3> QED BY <3>1, <3>3, <3>4 DEF w
  <2>3. CASE f.type # VarintType /\ f.type # LengthType
    <3>1. Body(f) = v /\ size = Len(v)
      BY <2>3, Zenon DEF Body
    <3>2. v \in Seq(Byte)
      BY <1>1, <2>3, WireTypeFacts DEF WireTypes
    <3> HIDE DEF v, size
    <3> QED BY <3>1, <3>2
  <2> QED BY <2>1, <2>2, <2>3
<1>6. EncodedSize(f) = VarintSize[n] + size
  BY Zenon DEF EncodedSize
<1> HIDE DEF n, v, size
<1>7. EncodeField(f) \in Seq(Byte) /\ EncodedSize(f) = Len(EncodeField(f))
  <2> DEFINE w == Varint[n]
             b == Body(f)
  <2>1. VarintSize[n] = Len(w) /\ w \in Seq(Byte) /\ b \in Seq(Byte) /\ EncodeField(f) = w \o b
    BY <1>3, <1>4, <1>5, VarintSizeIsLength
  <2> HIDE DEF w, b
  <2>2. w \o b \in Seq(Byte) /\ Len(w \o b) = Len(w) + Len(b)
    BY <2>1, ConcatProperties
  <2> QED BY <1>5, <1>6, <2>1, <2>2 DEF b
<1> QED BY <1>1, <1>2, <1>3, <1>4, <1>5, <1>7 DEF n, v

\* A field that was written is read again.
LEMMA FieldRead ==
  ASSUME NEW bytes \in Seq(Byte), NEW p \in Position, NEW f \in WireFields,
         Holds(bytes, p, EncodeField(f))
  PROVE  /\ Readable(bytes, p) /\ p <= Len(bytes)
         /\ ReadField(bytes, p).field = f
         /\ ReadField(bytes, p).next = p + Len(EncodeField(f))
<1> DEFINE n == 8 * f.number + f.type
           t == Varint[n]
           b == Body(f)
           v == f.value
           tag == ReadVarint(bytes, p)
           length == ReadVarint(bytes, tag.next)
           read == ReadField(bytes, p)
           Reads(w, q) == read = [field |-> Field(tag.value \div 8, tag.value % 8, w), next |-> q]
<1>1. /\ f.number \in Position /\ f.type \in WireTypes /\ v \in ValuesOf(f.type)
      /\ f = Field(f.number, f.type, f.value)
      /\ n \in Nat /\ b \in Seq(Byte) /\ EncodeField(f) = t \o b
  BY EncodeFieldFacts
<1>2. t \in Seq(Byte) /\ Len(t) \in Nat \ {0} /\ Len(b) \in Nat
  <2> HIDE DEF n, b
  <2> QED BY <1>1, VarintStep, LenProperties
<1>3. n % 8 = f.type /\ n \div 8 = f.number /\ n >= 8
  <2>1. f.number \in Position /\ f.type \in 0 .. 7
    BY <1>1, WireTypeFacts
  <2> QED BY <2>1, TagFacts
<1> HIDE DEF n, b
<1>4. Holds(bytes, p, t) /\ Holds(bytes, p + Len(t), b) /\ p + Len(t) \in Position
  <2> HIDE DEF t
  <2> QED BY <1>1, <1>2, HoldsFacts
<1>5. tag.value = n /\ tag.next = p + Len(t)
  BY <1>1, <1>4, VarintRead
<1>6. Readable(bytes, p)
  BY <1>1, <1>3, <1>5 DEF Readable, WireTypes
<1>7. p <= Len(bytes)
  <2> HIDE DEF t
  <2> QED BY <1>2, <1>4, LenProperties DEF Holds, Position
<1>8. Len(EncodeField(f)) = Len(t) + Len(b)
  <2> HIDE DEF t
  <2> QED BY <1>1, <1>2, ConcatProperties
<1>9. /\ f.type = VarintType => Reads(length.value, length.next)
      /\ f.type = LengthType =>
           Reads(Take(bytes, length.next, length.value), length.next + length.value)
      /\ f.type = Fixed64Type => Reads(Take(bytes, tag.next, 8), tag.next + 8)
      /\ f.type = Fixed32Type => Reads(Take(bytes, tag.next, 4), tag.next + 4)
  <2>1. tag.value % 8 = f.type
    BY <1>3, <1>5
  <2> QED BY <2>1, ReadFieldCases, Zenon
<1> HIDE DEF tag, t, length, read
<1>10. Reads(v, p + Len(t) + Len(b))
  <2> HIDE DEF Reads
  <2>1. CASE f.type = VarintType
    <3>1. b = Varint[v]
      BY <2>1, WireTypeFacts, Zenon DEF Body, b, v
    <3>2. v \in Nat
      BY <1>1, <2>1, WireTypeFacts
    <3> HIDE DEF v
    <3>3. length.value = v /\ length.next = p + Len(t) + Len(b)
      BY <1>4, <1>5, <3>1, <3>2, VarintRead DEF length
    <3> QED BY <1>9, <2>1, <3>3
  <2>2. CASE f.type = LengthType
    <3> DEFINE w == Varint[Len(v)]
    <3>1. b = w \o v
      BY <2>2, WireTypeFacts, Zenon DEF Body, b, v
    <3>2. v \in Seq(Byte) /\ Len(v) \in Nat
      BY <1>1, <2>2, WireTypeFacts, LenProperties
    <3> HIDE DEF v
    <3>3. w \in Seq(Byte) /\ Len(w) \in Nat
      BY <3>2, VarintStep
    <3> HIDE DEF w
    <3>4. /\ Holds(bytes, p + Len(t), w) /\ Holds(bytes, p + Len(t) + Len(w), v)
          /\ p + Len(t) + Len(w) \in Position
      BY <1>4, <3>1, <3>2, <3>3, HoldsFacts
    <3>5. length.value = Len(v) /\ length.next = p + Len(t) + Len(w)
      BY <1>4, <1>5, <3>2, <3>4, VarintRead DEF length, w
    <3>6. Take(bytes, length.next, length.value) = v
      BY <3>2, <3>4, <3>5, TakeFacts
    <3>7. length.next + length.value = p + Len(t) + Len(b)
      <4>1. Len(b) = Len(w) + Len(v)
        BY <3>1, <3>2, <3>3, ConcatProperties
      <4> QED BY <1>2, <3>2, <3>3, <3>5, <4>1 DEF Position
    <3> QED BY <1>9, <2>2, <3>6, <3>7
  <2>3. ASSUME NEW k \in Nat, v \in Seq(Byte), Len(v) = k, b = v
        PROVE  Take(bytes, tag.next, k) = v /\ tag.next + k = p + Len(t) + Len(b)
    BY <1>4, <1>5, <2>3, TakeFacts
  <2>4. CASE f.type = Fixed64Type
    <3>1. b = v
      BY <2>4, WireTypeFacts, Zenon DEF Body, b, v
    <3>2. v \in Seq(Byte) /\ Len(v) = 8 /\ 8 \in Nat
      BY <1>1, <2>4, WireTypeFacts
    <3> QED BY <1>9, <2>3, <2>4, <3>1, <3>2
  <2>5. CASE f.type = Fixed32Type
    <3>1. b = v
      BY <2>5, WireTypeFacts, Zenon DEF Body, b, v
    <3>2. v \in Seq(Byte) /\ Len(v) = 4 /\ 4 \in Nat
      BY <1>1, <2>5, WireTypeFacts
    <3> QED BY <1>9, <2>3, <2>5, <3>1, <3>2
  <2> QED BY <1>1, <2>1, <2>2, <2>4, <2>5 DEF WireTypes
<1>11. tag.value \div 8 = f.number /\ tag.value % 8 = f.type
  BY <1>3, <1>5
<1>12. read.field = f /\ read.next = p + Len(t) + Len(b)
  BY <1>1, <1>10, <1>11
<1>13. p + Len(t) + Len(b) = p + Len(EncodeField(f))
  BY <1>2, <1>8 DEF Position
<1> QED BY <1>6, <1>7, <1>12, <1>13 DEF read

-----------------------------------------------------------------------------
(* Reading and writing fields *)

Results == [fields : Seq(WireFields), ok : BOOLEAN]
Nothing(ok) == [fields |-> << >>, ok |-> ok]
Prepended(f, r) == [r EXCEPT !.fields = <<f>> \o @]

\* The function that Decode computes: what is read from each position on.
IsReading(bytes, f) ==
  f = [p \in Position |->
        IF p > Len(bytes) THEN [fields |-> << >>, ok |-> p = Len(bytes) + 1]
        ELSE IF ~Readable(bytes, p) THEN [fields |-> << >>, ok |-> FALSE]
        ELSE LET read == ReadField(bytes, p)
             IN  [f[read.next] EXCEPT !.fields = <<read.field>> \o @]]
Reading(bytes) == CHOOSE f : IsReading(bytes, f)

\* What the parser has at its end, and with one field more in front.
LEMMA ResultFacts ==
  /\ \A ok \in BOOLEAN : /\ Nothing(ok) \in Results
                         /\ Nothing(ok).fields = << >> /\ Nothing(ok).ok = ok
  /\ \A f \in WireFields : \A r \in Results :
       /\ Prepended(f, r) \in Results
       /\ Prepended(f, r).fields = <<f>> \o r.fields
       /\ Prepended(f, r).ok = r.ok
<1>1. << >> \in Seq(WireFields)
  BY EmptySeq
<1>2. ASSUME NEW ok \in BOOLEAN
      PROVE  Nothing(ok) \in Results /\ Nothing(ok).fields = << >> /\ Nothing(ok).ok = ok
  BY <1>1 DEF Nothing, Results
<1>3. ASSUME NEW f \in WireFields, NEW r \in Results
      PROVE  /\ Prepended(f, r) \in Results
             /\ Prepended(f, r).fields = <<f>> \o r.fields
             /\ Prepended(f, r).ok = r.ok
  <2> DEFINE s == <<f>> \o r.fields
  <2>1. r.fields \in Seq(WireFields) /\ <<f>> \in Seq(WireFields)
    BY DEF Results
  <2>2. s \in Seq(WireFields)
    BY <2>1, ConcatProperties
  <2>3. Prepended(f, r) = [r EXCEPT !.fields = s]
    BY DEF Prepended
  <2> HIDE DEF s
  <2>4. Prepended(f, r) \in Results /\ Prepended(f, r).fields = s /\ Prepended(f, r).ok = r.ok
    BY <2>2, <2>3 DEF Results
  <2> QED BY <2>4 DEF s
<1> QED BY <1>2, <1>3

\* What is read from a position on.
LEMMA ReadingStep ==
  ASSUME NEW bytes \in Seq(Byte), NEW p \in Position
  PROVE  LET r == Reading(bytes)
             read == ReadField(bytes, p)
         IN  /\ r[p] \in Results
             /\ p > Len(bytes) => r[p] = Nothing(p = Len(bytes) + 1)
             /\ p <= Len(bytes) /\ ~Readable(bytes, p) => r[p] = Nothing(FALSE)
             /\ p <= Len(bytes) /\ Readable(bytes, p) =>
                  r[p] = Prepended(read.field, r[read.next])
<1> DEFINE l == Len(bytes)
           S == {q \in Position : q > l \/ ~Readable(bytes, q)}
           base == [q \in Position |-> Nothing(q = l + 1)]
           next == [q \in Position |-> ReadField(bytes, q).next]
           G == [q \in Position |-> [y \in Results |-> Prepended(ReadField(bytes, q).field, y)]]
           measure == [q \in Position |-> IF q > l THEN 0 ELSE l + 1 - q]
<1>1. l \in Nat
  BY LenProperties
<1> HIDE DEF l
<1>2. Recursive(Position, Results, S, base, next, G, measure)
  <2>1. measure \in [Position -> Nat]
    BY <1>1 DEF Position
  <2>2. ASSUME NEW x \in Position, x \notin S
        PROVE  next[x] \in Position /\ measure[next[x]] < measure[x]
    <3>1. next[x] \in Position /\ next[x] > x /\ x <= l
      <4>1. x <= l /\ Readable(bytes, x)
        BY <1>1, <2>2 DEF Position
      <4> QED BY <4>1, ReadFieldType
    <3> HIDE DEF next, S
    <3> QED BY <1>1, <3>1 DEF Position
  <2>3. ASSUME NEW x \in Position, x \notin S, NEW y \in Results PROVE G[x][y] \in Results
    <3>1. Readable(bytes, x)
      BY <2>3
    <3> QED BY <3>1, ReadFieldType, ResultFacts
  <2>4. \A x \in Position : base[x] \in Results
    BY ResultFacts
  <2>5. Results # {}
    BY ResultFacts
  <2> HIDE DEF base, next, G, measure, S
  <2> QED BY <2>1, <2>2, <2>3, <2>4, <2>5 DEF Recursive
<1> HIDE DEF measure
<1>3. PICK f \in [Position -> Results] :
        \A x \in Position : f[x] = IF x \in S THEN base[x] ELSE G[x][f[next[x]]]
  <2> HIDE DEF base, next, G, S
  <2> QED BY <1>2, RecursionExists
<1> DEFINE Step(g, q) ==
             IF q > l THEN Nothing(q = l + 1)
             ELSE IF ~Readable(bytes, q) THEN Nothing(FALSE)
             ELSE Prepended(ReadField(bytes, q).field, g[ReadField(bytes, q).next])
<1>4. ASSUME NEW q \in Position PROVE f[q] = Step(f, q)
  <2>1. CASE q > l
    BY <1>3, <2>1
  <2>2. CASE ~(q > l) /\ ~Readable(bytes, q)
    <3>1. (q = l + 1) = FALSE
      BY <1>1, <2>2
    <3>2. f[q] = base[q]
      BY <1>3, <2>2
    <3> QED BY <2>2, <3>1, <3>2
  <2>3. CASE ~(q > l) /\ Readable(bytes, q)
    <3>1. q \notin S
      BY <2>3
    <3>2. f[q] = G[q][f[next[q]]]
      <4> HIDE DEF G, S, next
      <4> QED BY <1>3, <3>1
    <3>3. next[q] = ReadField(bytes, q).next /\ next[q] \in Position
      BY <2>3, ReadFieldType
    <3> DEFINE y == f[next[q]]
    <3>4. y \in Results
      BY <1>3, <3>3
    <3> HIDE DEF y
    <3>5. G[q][y] = Prepended(ReadField(bytes, q).field, y)
      BY <3>4
    <3> QED BY <2>3, <3>2, <3>3, <3>5 DEF y
  <2> QED BY <2>1, <2>2, <2>3
<1>5. f = [q \in Position |-> Step(f, q)]
  <2> HIDE DEF Step
  <2> QED BY <1>3, <1>4
<1>6. IsReading(bytes, f)
  BY <1>5, Zenon DEF IsReading, Nothing, Prepended, l
<1> DEFINE r == Reading(bytes)
<1>7. r = [q \in Position |-> Step(r, q)]
  <2>1. IsReading(bytes, r)
    BY <1>6, Zenon DEF Reading
  <2> HIDE DEF r
  <2> QED BY <2>1, Zenon DEF IsReading, Nothing, Prepended, l
<1> HIDE DEF r
<1>8. ASSUME NEW q \in Position PROVE r[q] = Step(r, q)
  <2> HIDE DEF Step
  <2> QED BY <1>7
<1> DEFINE T == {k \in Nat : \A q \in Position : q + k > l => r[q] \in Results}
<1>9. 0 \in T
  <2> SUFFICES ASSUME NEW q \in Position, q > l PROVE r[q] \in Results
    BY DEF Position
  <2>1. r[q] = Nothing(q = l + 1)
    BY <1>8
  <2> QED BY <2>1, ResultFacts
<1>10. ASSUME NEW k \in Nat, k \in T PROVE k + 1 \in T
  <2> SUFFICES ASSUME NEW q \in Position, q + (k + 1) > l PROVE r[q] \in Results
    OBVIOUS
  <2>1. CASE q > l \/ ~Readable(bytes, q)
    BY <1>8, <2>1, ResultFacts
  <2>2. CASE ~(q > l) /\ Readable(bytes, q)
    <3> DEFINE m == ReadField(bytes, q).next
    <3>1. m \in Position /\ m > q /\ ReadField(bytes, q).field \in WireFields
      BY <2>2, ReadFieldType
    <3>2. r[q] = Prepended(ReadField(bytes, q).field, r[m])
      BY <1>8, <2>2
    <3> HIDE DEF m
    <3>3. m + k > l
      BY <1>1, <3>1 DEF Position
    <3>4. r[m] \in Results
      BY <1>10, <3>1, <3>3
    <3> DEFINE y == r[m]
               g == ReadField(bytes, q).field
    <3>5. y \in Results /\ g \in WireFields /\ r[q] = Prepended(g, y)
      BY <3>1, <3>2, <3>4
    <3> HIDE DEF y, g
    <3>6. Prepended(g, y) \in Results
      BY <3>5, ResultFacts
    <3> QED BY <3>5, <3>6
  <2> QED BY <2>1, <2>2
<1> HIDE DEF T
<1>11. r[p] \in Results
  <2>1. l \in T
    BY <1>1, <1>9, <1>10, SetInduction
  <2>2. p + l > l
    BY <1>1 DEF Position
  <2> QED BY <2>1, <2>2 DEF T
<1>12. r[p] = Step(r, p) /\ (p <= l <=> ~(p > l))
  <2>1. r[p] = Step(r, p)
    BY <1>8
  <2>2. p <= l <=> ~(p > l)
    BY <1>1 DEF Position
  <2> QED BY <2>1, <2>2
<1> QED BY <1>11, <1>12, Zenon DEF r, l

\* What encoding appends.
LEMMA EncodeFacts ==
  /\ Encode(<< >>) = << >>
  /\ \A F \in Seq(WireFields) : Encode(F) \in Seq(Byte)
  /\ \A F \in Seq(WireFields) : \A f \in WireFields :
       Encode(Append(F, f)) = Encode(F) \o EncodeField(f)
<1> DEFINE Coded(F) == [i \in DOMAIN F |-> EncodeField(F[i])]
<1>1. ASSUME NEW F \in Seq(WireFields)
      PROVE  Coded(F) \in Seq(Seq(Byte)) /\ Len(Coded(F)) = Len(F) /\ DOMAIN F = 1 .. Len(F)
             /\ Len(F) \in Nat
  <2>1. DOMAIN F = 1 .. Len(F) /\ Len(F) \in Nat
    BY LenProperties
  <2>2. \A i \in 1 .. Len(F) : F[i] \in WireFields
    BY ElementOfSeq
  <2>3. \A i \in 1 .. Len(F) : EncodeField(F[i]) \in Seq(Byte)
    BY <2>2, EncodeFieldFacts
  <2>4. Coded(F) \in [1 .. Len(F) -> Seq(Byte)]
    BY <2>1, <2>3
  <2> QED BY <2>1, <2>4
<1>2. Encode(<< >>) = << >>
  <2>1. Coded(<< >>) = << >>
    OBVIOUS
  <2>2. FlattenSeq(<< >>) = << >>
    BY DEF FlattenSeq
  <2> QED BY <2>1, <2>2 DEF Encode
<1>3. ASSUME NEW F \in Seq(WireFields)
      PROVE  Encode(F) = FlattenSeq(Coded(F)) /\ Encode(F) \in Seq(Byte)
  <2>1. Encode(F) = FlattenSeq(Coded(F))
    BY Zenon DEF Encode
  <2> HIDE DEF Coded
  <2> QED BY <1>1, <2>1, FlattenFacts
<1>4. ASSUME NEW F \in Seq(WireFields), NEW f \in WireFields
      PROVE  Encode(Append(F, f)) = Encode(F) \o EncodeField(f)
  <2> DEFINE u == Append(F, f)
             e == EncodeField(f)
             c == Coded(F)
  <2>1. /\ u \in Seq(WireFields) /\ Len(u) = Len(F) + 1 /\ Len(F) \in Nat
        /\ \A i \in 1 .. Len(F) : u[i] = F[i]
        /\ u[Len(F) + 1] = f
    BY AppendProperties, LenProperties
  <2>2. /\ c \in Seq(Seq(Byte)) /\ e \in Seq(Byte) /\ Len(c) = Len(F)
        /\ \A i \in 1 .. Len(F) : c[i] = EncodeField(F[i])
    BY <1>1, EncodeFieldFacts
  <2>3. Coded(u) \in Seq(Seq(Byte)) /\ Len(Coded(u)) = Len(F) + 1
        /\ \A i \in 1 .. Len(F) + 1 : Coded(u)[i] = EncodeField(u[i])
    BY <1>1, <2>1
  <2> DEFINE d == Coded(u)
             a == Append(c, e)
  <2>4. /\ a \in Seq(Seq(Byte)) /\ Len(a) = Len(F) + 1
        /\ \A i \in 1 .. Len(F) : a[i] = c[i]
        /\ a[Len(F) + 1] = e
    <3> HIDE DEF c, e
    <3> QED BY <2>2, AppendProperties
  <2> HIDE DEF u, c, d, a
  <2>5. \A i \in 1 .. Len(F) + 1 : d[i] = a[i]
    <3> SUFFICES ASSUME NEW i \in 1 .. Len(F) + 1 PROVE d[i] = a[i]
      OBVIOUS
    <3>1. CASE i \in 1 .. Len(F)
      BY <2>1, <2>2, <2>3, <2>4, <3>1 DEF d
    <3>2. CASE i = Len(F) + 1
      BY <2>1, <2>3, <2>4, <3>2 DEF d
    <3> QED BY <2>1, <3>1, <3>2
  <2>6. d = a
    BY <2>3, <2>4, <2>5, SeqEqual DEF d
  <2>7. FlattenSeq(a) = FlattenSeq(c) \o e
    <3> HIDE DEF e
    <3> QED BY <2>2, FlattenFacts DEF a
  <2> QED BY <1>3, <2>1, <2>6, <2>7, Zenon DEF d, u, c
<1> QED BY <1>2, <1>3, <1>4

\* A field in front of a list is a field behind the list before it.
LEMMA FieldsAssociate ==
  ASSUME NEW s \in Seq(WireFields), NEW f \in WireFields, NEW t \in Seq(WireFields)
  PROVE  s \o (<<f>> \o t) = Append(s, f) \o t
<1>1. <<f>> \in Seq(WireFields)
  OBVIOUS
<1>2. s \o (<<f>> \o t) = (s \o <<f>>) \o t
  BY <1>1, ConcatAssociative
<1>3. s \o <<f>> = Append(s, f)
  BY AppendIsConcat
<1> QED BY <1>2, <1>3

\* Fields that were written are read again, and then what is behind them.
LEMMA EncodedIsRead ==
  ASSUME NEW bytes \in Seq(Byte), NEW p \in Position, NEW F \in Seq(WireFields),
         Holds(bytes, p, Encode(F))
  PROVE  LET q == p + Len(Encode(F))
         IN  /\ q \in Position
             /\ Reading(bytes)[p].fields = F \o Reading(bytes)[q].fields
             /\ Reading(bytes)[p].ok = Reading(bytes)[q].ok
<1> DEFINE r == Reading(bytes)
           Reads(s, q) == /\ q + Len(Encode(s)) \in Position
                          /\ r[q].fields = s \o r[q + Len(Encode(s))].fields
                          /\ r[q].ok = r[q + Len(Encode(s))].ok
           T == {s \in Seq(WireFields) : Holds(bytes, p, Encode(s)) => Reads(s, p)}
<1>1. << >> \in T
  <2>1. r[p].fields \in Seq(WireFields)
    <3>1. r[p] \in Results
      BY ReadingStep
    <3> QED BY <3>1 DEF Results
  <2> HIDE DEF r
  <2>2. p + 0 = p /\ << >> \o r[p].fields = r[p].fields
    BY <2>1, ConcatEmptySeq DEF Position
  <2>3. Len(<< >>) = 0 /\ << >> \in Seq(WireFields)
    BY EmptySeq
  <2> QED BY <2>2, <2>3, EncodeFacts
<1>2. ASSUME NEW s \in Seq(WireFields), NEW f \in WireFields, s \in T PROVE Append(s, f) \in T
  <2> DEFINE u == Encode(s)
             e == EncodeField(f)
             c == Encode(Append(s, f))
             q == p + Len(u)
             g == ReadField(bytes, q).field
             n == ReadField(bytes, q).next
  <2> SUFFICES ASSUME Holds(bytes, p, c) PROVE Reads(Append(s, f), p)
    BY AppendProperties
  <2>1. u \in Seq(Byte) /\ e \in Seq(Byte) /\ c = u \o e
    BY EncodeFacts, EncodeFieldFacts
  <2>2. Len(u) \in Nat /\ Len(e) \in Nat /\ Len(c) = Len(u) + Len(e)
    <3> HIDE DEF u, e, c
    <3> QED BY <2>1, ConcatProperties, LenProperties
  <2>3. Holds(bytes, p, u) /\ Holds(bytes, q, e) /\ q \in Position
    <3> HIDE DEF u, e, c
    <3> QED BY <2>1, HoldsFacts
  <2>4. r[p].fields = s \o r[q].fields /\ r[p].ok = r[q].ok
    BY <1>2, <2>3
  <2>5. Readable(bytes, q) /\ q <= Len(bytes) /\ g = f /\ n = q + Len(e)
    <3> HIDE DEF q
    <3> QED BY <2>3, FieldRead
  <2>6. r[q] = Prepended(g, r[n]) /\ n \in Position
    <3> HIDE DEF q
    <3> QED BY <2>3, <2>5, ReadingStep, ReadFieldType
  <2>7. r[n] \in Results
    <3> HIDE DEF n
    <3> QED BY <2>6, ReadingStep
  <2> HIDE DEF r, u, e, c, q, g, n
  <2> DEFINE y == r[n]
  <2>8. y \in Results /\ g \in WireFields /\ r[q] = Prepended(g, y)
    BY <2>5, <2>6, <2>7
  <2> HIDE DEF y
  <2>9. r[q].fields = <<f>> \o y.fields /\ r[q].ok = y.ok /\ y.fields \in Seq(WireFields)
    <3>1. Prepended(g, y).fields = <<g>> \o y.fields /\ Prepended(g, y).ok = y.ok
      BY <2>8, ResultFacts
    <3>2. y.fields \in Seq(WireFields)
      BY <2>8 DEF Results
    <3> QED BY <2>5, <2>8, <3>1, <3>2
  <2>10. r[p].fields = Append(s, f) \o y.fields /\ r[p].ok = y.ok
    <3>1. s \o (<<f>> \o y.fields) = Append(s, f) \o y.fields
      BY <2>9, FieldsAssociate
    <3> QED BY <2>4, <2>9, <3>1
  <2>11. n = p + Len(c)
    BY <2>2, <2>5 DEF Position, q
  <2> QED BY <2>6, <2>10, <2>11 DEF y, c
<1> HIDE DEF T
<1>3. F \in T
  BY <1>1, <1>2, SequenceInduction
<1> QED BY <1>3 DEF T

\* The size that is computed before fields are written is that of their bytes.
LEMMA EncodedLengthIsLength ==
  ASSUME NEW F \in Seq(WireFields)
  PROVE  EncodedLength(F) = Len(Encode(F))
<1> DEFINE G == [n \in Nat |-> [f \in WireFields |-> n + EncodedSize(f)]]
           IsSum(f) == f = [s \in SUBSET DOMAIN F |->
                             IF s = {} THEN 0 ELSE f[s \ {Max(s)}] + EncodedSize(F[Max(s)])]
           sum == CHOOSE f : IsSum(f)
           D == SUBSET DOMAIN F
<1>1. EncodedLength(F) = sum[DOMAIN F]
  BY Zenon DEF EncodedLength, FoldLeft, MapThenFoldSet
<1>2. \A f \in WireFields : EncodedSize(f) \in Nat /\ EncodedSize(f) = Len(EncodeField(f))
  <2> SUFFICES ASSUME NEW f \in WireFields
               PROVE  EncodedSize(f) \in Nat /\ EncodedSize(f) = Len(EncodeField(f))
    OBVIOUS
  <2>1. EncodedSize(f) = Len(EncodeField(f)) /\ EncodeField(f) \in Seq(Byte)
    BY EncodeFieldFacts
  <2> QED BY <2>1, LenProperties
<1>3. Foldable(Nat, WireFields, 0, G)
  BY <1>2 DEF Foldable
<1>4. \A n \in Nat, f \in WireFields : G[n][f] = n + EncodedSize(f)
  OBVIOUS
<1>5. \A s \in D : s # {} => F[Max(s)] \in WireFields /\ s \ {Max(s)} \in D
  <2>1. Len(F) \in Nat /\ DOMAIN F = 1 .. Len(F) /\ \A i \in 1 .. Len(F) : F[i] \in WireFields
    BY LenProperties, ElementOfSeq
  <2> QED BY <2>1, MaxFacts
<1>6. IsSum(sum)
  <2>1. PICK f \in [D -> Nat] :
          \A s \in D : f[s] = IF s = {} THEN 0 ELSE G[f[s \ {Max(s)}]][F[Max(s)]]
    <3>1. PICK f : Iteration(Nat, 0, G, F, f)
      <4> HIDE DEF G
      <4> QED BY <1>3, IterationExists
    <3> HIDE DEF G
    <3> QED BY <3>1 DEF Iteration
  <2>2. ASSUME NEW s \in D
        PROVE  f[s] = IF s = {} THEN 0 ELSE f[s \ {Max(s)}] + EncodedSize(F[Max(s)])
    <3> HIDE DEF G, D
    <3>1. CASE s = {}
      BY <2>1, <3>1
    <3>2. CASE s # {}
      <4> DEFINE n == f[s \ {Max(s)}]
                 e == F[Max(s)]
      <4>1. n \in Nat /\ e \in WireFields /\ f[s] = G[n][e]
        BY <1>5, <2>1, <3>2
      <4> HIDE DEF n, e
      <4>2. f[s] = n + EncodedSize(e)
        BY <1>4, <4>1
      <4> QED BY <3>2, <4>2 DEF n, e
    <3> QED BY <3>1, <3>2
  <2>3. IsSum(f)
    <3> DEFINE e(s) == IF s = {} THEN 0 ELSE f[s \ {Max(s)}] + EncodedSize(F[Max(s)])
    <3>1. \A s \in D : f[s] = e(s)
      BY <2>2
    <3> HIDE DEF e
    <3>2. f = [s \in D |-> e(s)]
      BY <2>1, <3>1
    <3> QED BY <3>2, Zenon DEF e
  <2> HIDE DEF IsSum
  <2> QED BY <2>3, Zenon
<1> HIDE DEF sum
<1>7. ASSUME NEW s \in D
      PROVE  sum[s] = IF s = {} THEN 0 ELSE sum[s \ {Max(s)}] + EncodedSize(F[Max(s)])
  <2> DEFINE e(t) == IF t = {} THEN 0 ELSE sum[t \ {Max(t)}] + EncodedSize(F[Max(t)])
  <2>1. sum = [t \in D |-> e(t)]
    BY <1>6, Zenon
  <2> HIDE DEF e, D
  <2>2. sum[s] = e(s)
    BY <2>1
  <2> QED BY <2>2 DEF e
<1> HIDE DEF G
<1>8. Iterates(Nat, 0, G, F, sum)
  <2> SUFFICES ASSUME NEW s \in D
               PROVE  /\ s = {} => sum[s] = 0
                      /\ s # {} /\ sum[s \ {Max(s)}] \in Nat =>
                           sum[s] = G[sum[s \ {Max(s)}]][F[Max(s)]]
    BY DEF Iterates
  <2>1. CASE s = {}
    BY <1>7, <2>1
  <2>2. CASE s # {}
    <3> SUFFICES ASSUME sum[s \ {Max(s)}] \in Nat
                 PROVE  sum[s] = G[sum[s \ {Max(s)}]][F[Max(s)]]
      BY <2>2
    <3> DEFINE n == sum[s \ {Max(s)}]
               e == F[Max(s)]
    <3>1. n \in Nat /\ e \in WireFields /\ sum[s] = n + EncodedSize(e)
      BY <1>5, <1>7, <2>2
    <3> HIDE DEF n, e
    <3>2. sum[s] = G[n][e]
      BY <1>4, <3>1
    <3> QED BY <3>2 DEF n, e
  <2> QED BY <2>1, <2>2
<1>9. EncodedLength(F) = Folded(Nat, 0, G, F)
  BY <1>1, <1>3, <1>8, IterationFolds
<1> DEFINE T == {s \in Seq(WireFields) : Folded(Nat, 0, G, s) = Len(Encode(s))}
<1>10. << >> \in T
  BY <1>3, FoldedFacts, EncodeFacts, EmptySeq
<1>11. ASSUME NEW s \in Seq(WireFields), NEW f \in WireFields, s \in T PROVE Append(s, f) \in T
  <2> DEFINE u == Encode(s)
             e == EncodeField(f)
             n == Folded(Nat, 0, G, s)
  <2>1. u \in Seq(Byte) /\ e \in Seq(Byte) /\ Encode(Append(s, f)) = u \o e
    BY EncodeFacts, EncodeFieldFacts
  <2>2. n = Len(u) /\ n \in Nat /\ EncodedSize(f) = Len(e)
    BY <1>2, <1>3, <1>11, FoldedFacts
  <2>3. Folded(Nat, 0, G, Append(s, f)) = G[n][f]
    BY <1>3, FoldedFacts
  <2> HIDE DEF u, e, n
  <2>4. Len(u \o e) = Len(u) + Len(e)
    BY <2>1, ConcatProperties
  <2>5. G[n][f] = n + EncodedSize(f)
    BY <1>4, <2>2
  <2> QED BY <2>1, <2>2, <2>3, <2>4, <2>5, AppendProperties
<1> HIDE DEF T
<1>12. F \in T
  BY <1>10, <1>11, SequenceInduction
<1> QED BY <1>9, <1>12 DEF T

-----------------------------------------------------------------------------
(* Whole messages *)

\* Lists of fields that are written one behind the other are one list.
LEMMA EncodeConcat ==
  ASSUME NEW F \in Seq(WireFields), NEW E \in Seq(WireFields)
  PROVE  Encode(F \o E) = Encode(F) \o Encode(E)
<1> DEFINE T == {s \in Seq(WireFields) : Encode(F \o s) = Encode(F) \o Encode(s)}
<1>1. << >> \in T
  <2>1. F \o << >> = F /\ << >> \in Seq(WireFields)
    BY ConcatEmptySeq, EmptySeq
  <2>2. Encode(F) \o << >> = Encode(F)
    BY EncodeFacts, ConcatEmptySeq
  <2> QED BY <2>1, <2>2, EncodeFacts
<1>2. ASSUME NEW s \in Seq(WireFields), NEW f \in WireFields, s \in T PROVE Append(s, f) \in T
  <2>1. F \o Append(s, f) = Append(F \o s, f) /\ F \o s \in Seq(WireFields)
    BY ConcatAppends, ConcatProperties
  <2> DEFINE a == Encode(F)
             b == Encode(s)
             c == EncodeField(f)
             u == F \o s
  <2>2. a \in Seq(Byte) /\ b \in Seq(Byte) /\ c \in Seq(Byte)
    BY EncodeFacts, EncodeFieldFacts
  <2>3. Encode(Append(s, f)) = b \o c /\ Encode(u) = a \o b
    BY <1>2, EncodeFacts
  <2>4. Encode(Append(u, f)) = Encode(u) \o c
    <3>1. u \in Seq(WireFields)
      BY <2>1
    <3> HIDE DEF u
    <3> QED BY <3>1, EncodeFacts
  <2>5. (a \o b) \o c = a \o (b \o c)
    <3> HIDE DEF a, b, c
    <3> QED BY <2>2, ConcatAssociative
  <2> QED BY <2>1, <2>3, <2>4, <2>5, AppendProperties
<1> HIDE DEF T
<1>3. E \in T
  BY <1>1, <1>2, SequenceInduction
<1> QED BY <1>3 DEF T

\* Zeros behind a message end its parse.
Zeros(s) == \A i \in 1 .. Len(s) : s[i] = 0

\* Decoding is reading from the first byte on.
LEMMA DecodeIsReading ==
  ASSUME NEW bytes
  PROVE  Decode(bytes) = Reading(bytes)[1]
BY Zenon DEF Decode, Reading, IsReading

\* A zero is no tag: what stands behind a message in its buffer ends the parse.
LEMMA ZeroUnreadable ==
  ASSUME NEW bytes \in Seq(Byte), NEW p \in Position, At(bytes, p) = 0
  PROVE  ~Readable(bytes, p)
<1> DEFINE v == ReadVarint(bytes, p).value
<1>1. v = 0
  BY ReadVarintStep
<1>2. Readable(bytes, p) => v >= 8
  BY Zenon DEF Readable
<1> HIDE DEF v
<1> QED BY <1>1, <1>2

\* What a parse finds is what was written, and whether nothing is behind it.
LEMMA EncodedIsDecoded ==
  ASSUME NEW F \in Seq(WireFields), NEW z \in Seq(Byte), Zeros(z)
  PROVE  Decode(Encode(F) \o z) = [fields |-> F, ok |-> z = << >>]
<1> DEFINE e == Encode(F)
           b == e \o z
           q == 1 + Len(e)
<1>1. e \in Seq(Byte)
  BY EncodeFacts
<1>2. /\ b \in Seq(Byte) /\ Len(b) = Len(e) + Len(z) /\ Len(e) \in Nat /\ Len(z) \in Nat
      /\ \A i \in 1 .. Len(e) + Len(z) : b[i] = IF i <= Len(e) THEN e[i] ELSE z[i - Len(e)]
      /\ (z = << >> <=> Len(z) = 0)
  <2> HIDE DEF e
  <2> QED BY <1>1, ConcatProperties, LenProperties, EmptySeq
<1>3. Holds(b, 1, e) /\ 1 \in Position
  <2> HIDE DEF b, e
  <2> QED BY <1>2 DEF Holds, Position
<1> DEFINE r == Reading(b)
<1>4. q \in Position /\ r[1].fields = F \o r[q].fields /\ r[1].ok = r[q].ok
  <2> HIDE DEF b
  <2> QED BY <1>2, <1>3, EncodedIsRead
<1>5. r[1] \in Results
  <2> HIDE DEF b
  <2> QED BY <1>2, <1>3, ReadingStep
<1>6. r[q] = Nothing(z = << >>)
  <2>1. CASE z = << >>
    <3>1. q > Len(b) /\ (q = Len(b) + 1) = TRUE
      <4> HIDE DEF b, e
      <4> QED BY <1>2, <2>1
    <3>2. r[q] = Nothing(q = Len(b) + 1)
      <4> HIDE DEF b, q
      <4> QED BY <1>2, <1>4, <3>1, ReadingStep
    <3> QED BY <2>1, <3>1, <3>2
  <2>2. CASE z # << >>
    <3>1. q <= Len(b) /\ b[q] = 0
      <4> HIDE DEF b, e
      <4> QED BY <1>2, <2>2 DEF Zeros
    <3>2. At(b, q) = 0
      <4> HIDE DEF b, q
      <4> QED BY <3>1 DEF At
    <3>3. r[q] = Nothing(FALSE)
      <4> HIDE DEF b, q
      <4> QED BY <1>2, <1>4, <3>1, <3>2, ZeroUnreadable, ReadingStep
    <3>4. (z = << >>) = FALSE
      BY <2>2
    <3> QED BY <3>3, <3>4
  <2> QED BY <2>1, <2>2
<1>7. Decode(b) = r[1]
  BY DecodeIsReading
<1> HIDE DEF r, b, e, q
<1>8. r[q].fields = << >> /\ r[q].ok = (z = << >>)
  <2> DEFINE ok == z = << >>
  <2>1. ok \in BOOLEAN /\ r[q] = Nothing(ok)
    BY <1>6
  <2> HIDE DEF ok
  <2>2. r[q].fields = << >> /\ r[q].ok = ok
    BY <2>1, ResultFacts
  <2> QED BY <2>2 DEF ok
<1>9. F \o << >> = F
  BY ConcatEmptySeq
<1>10. Decode(b) = [fields |-> F, ok |-> z = << >>]
  <2>1. r[1].fields = F /\ r[1].ok = (z = << >>)
    BY <1>4, <1>8, <1>9
  <2>2. r[1] = [fields |-> r[1].fields, ok |-> r[1].ok]
    BY <1>5 DEF Results
  <2> QED BY <1>7, <2>1, <2>2
<1> QED BY <1>10 DEF b, e

-----------------------------------------------------------------------------
(* Measurements *)

\* A field of the class has the number and the type of the one that is read.
Known(read) == \E f \in Fields : FieldNumber[f] = read.number /\ Type(f) = read.type
UnknownFields == {r \in WireFields : ~Known(r)}
Measurements ==
  [name : Seq(Byte), width : Nat, height : Nat, quality : Int, image : Seq(Byte), simtime : Nat,
   unknown : Seq(UnknownFields)]

\* A quality comes back from its number on the wire.
LEMMA ZigZagFacts ==
  ASSUME NEW i \in Int
  PROVE  ZigZag(i) \in Nat /\ UnZigZag(ZigZag(i)) = i
<1>1. CASE i >= 0
  BY <1>1 DEF ZigZag, UnZigZag
<1>2. CASE ~(i >= 0)
  BY <1>2 DEF ZigZag, UnZigZag
<1> QED BY <1>1, <1>2

\* Every number on the wire is some quality.
LEMMA UnZigZagType ==
  ASSUME NEW n \in Nat
  PROVE  UnZigZag(n) \in Int
BY DEF UnZigZag

\* The fields of CameraMeasurement and their numbers.
LEMMA FieldsAre ==
  /\ Fields = {"name", "width", "height", "quality", "image", "simtime"}
  /\ FieldNumber["name"] = 1 /\ FieldNumber["width"] = 2 /\ FieldNumber["height"] = 3
  /\ FieldNumber["quality"] = 4 /\ FieldNumber["image"] = 5 /\ FieldNumber["simtime"] = 6
BY DEF Fields, FieldNumber

\* The number tells the field.
LEMMA NumbersDiffer ==
  /\ \A f, g \in Fields : FieldNumber[f] = FieldNumber[g] => f = g
  /\ \A f \in Fields : FieldNumber[f] \in Position /\ Type(f) \in WireTypes
  /\ \A f \in Fields : Type(f) = IF f \in Strings THEN LengthType ELSE VarintType
  /\ "unknown" \notin Fields
<1>1. \A f, g \in Fields : FieldNumber[f] = FieldNumber[g] => f = g
  BY FieldsAre
<1>2. \A f \in Fields : FieldNumber[f] \in Position
  BY FieldsAre DEF Position
<1>3. \A f \in Fields : Type(f) \in WireTypes
  BY DEF Type, WireTypes
<1> QED BY <1>1, <1>2, <1>3, FieldsAre DEF Type

\* A field of two messages that are merged, and a message by its fields.
Later(m, from, f) == IF from[f] # Empty(f) THEN from[f] ELSE m[f]
Measurement(name, width, height, quality, image, simtime, unknown) ==
  [name |-> name, width |-> width, height |-> height, quality |-> quality, image |-> image,
   simtime |-> simtime, unknown |-> unknown]

\* MergeFrom, field by field.
LEMMA MergeIs ==
  ASSUME NEW m \in Measurements, NEW from \in Measurements
  PROVE  MergeFrom(m, from) =
           Measurement(Later(m, from, "name"), Later(m, from, "width"), Later(m, from, "height"),
                       Later(m, from, "quality"), Later(m, from, "image"),
                       Later(m, from, "simtime"), m["unknown"] \o from["unknown"])
<1> DEFINE e(f) == IF f = "unknown" THEN m[f] \o from[f]
                   ELSE IF from[f] # Empty(f) THEN from[f] ELSE m[f]
<1>1. MergeFrom(m, from) = [f \in DOMAIN m |-> e(f)]
  BY Zenon DEF MergeFrom
<1>2. DOMAIN m = {"name", "width", "height", "quality", "image", "simtime", "unknown"}
  BY DEF Measurements
<1>3. \A f \in Fields : e(f) = Later(m, from, f)
  BY NumbersDiffer DEF Later
<1>4. e("unknown") = m["unknown"] \o from["unknown"]
  OBVIOUS
<1> HIDE DEF e
<1>5. MergeFrom(m, from) =
        Measurement(e("name"), e("width"), e("height"), e("quality"), e("image"), e("simtime"),
                    e("unknown"))
  BY <1>1, <1>2 DEF Measurement
<1> QED BY <1>3, <1>4, <1>5, FieldsAre

\* The copy constructor copies every field.
LEMMA CopyIs ==
  ASSUME NEW m \in Measurements
  PROVE  CopyConstructor(m) = m
BY DEF CopyConstructor, Measurements, SharedCtor, Strings

\* Swap exchanges every field, the strings and the block of numbers.
LEMMA SwapIs ==
  ASSUME NEW m \in Measurements, NEW other \in Measurements
  PROVE  Swap(m, other) = <<other, m>>
BY DEF Swap, InternalSwap, Measurements, SharedCtor, Strings, Block

\* The default message, which Clear restores, adds nothing when it is merged into.
LEMMA CtorFacts ==
  /\ SharedCtor \in Measurements
  /\ \A m : Clear(m) = SharedCtor
  /\ \A m \in Measurements : MergeFrom(SharedCtor, m) = m
<1>1. << >> \in Seq(Byte) /\ << >> \in Seq(UnknownFields)
  BY EmptySeq
<1>2. SharedCtor \in Measurements
  BY <1>1 DEF SharedCtor, Measurements
<1>3. ASSUME NEW m \in Measurements PROVE MergeFrom(SharedCtor, m) = m
  <2>1. /\ m["unknown"] \in Seq(UnknownFields)
        /\ m = Measurement(m["name"], m["width"], m["height"], m["quality"], m["image"],
                           m["simtime"], m["unknown"])
    BY DEF Measurements, Measurement
  <2>2. SharedCtor["unknown"] \o m["unknown"] = m["unknown"]
    <3>1. SharedCtor["unknown"] = << >>
      BY DEF SharedCtor
    <3> QED BY <2>1, <3>1, ConcatEmptySeq
  <2>3. \A f \in Fields : Later(SharedCtor, m, f) = m[f]
    BY FieldsAre DEF Later, Empty, SharedCtor, Strings
  <2> QED BY <1>2, <2>1, <2>2, <2>3, MergeIs, FieldsAre
<1> QED BY <1>2, <1>3 DEF Clear

-----------------------------------------------------------------------------
(* Parsing *)

\* What a field that is read does to a message.
LEMMA StoredFacts ==
  ASSUME NEW m \in Measurements
  PROVE  /\ \A r \in WireFields : Stored(m, r) \in Measurements
         /\ \A r \in UnknownFields : Stored(m, r) = [m EXCEPT !.unknown = Append(m.unknown, r)]
         /\ \A f \in Fields : \A v \in ValuesOf(Type(f)) :
              Stored(m, Field(FieldNumber[f], Type(f), v)) =
                [m EXCEPT ![f] = IF f = "quality" THEN UnZigZag(v) ELSE v]
<1>1. ASSUME NEW r \in UnknownFields
      PROVE  /\ Stored(m, r) = [m EXCEPT !.unknown = Append(m.unknown, r)]
             /\ Stored(m, r) \in Measurements
  <2>1. Stored(m, r) = [m EXCEPT !.unknown = Append(m.unknown, r)]
    BY DEF Stored, UnknownFields, Known
  <2>2. m.unknown \in Seq(UnknownFields)
    BY DEF Measurements
  <2> DEFINE u == Append(m.unknown, r)
  <2>3. u \in Seq(UnknownFields)
    BY <2>2, AppendProperties
  <2> HIDE DEF u
  <2>4. [m EXCEPT !.unknown = u] \in Measurements
    BY <2>3 DEF Measurements
  <2> QED BY <2>1, <2>4 DEF u
<1>2. ASSUME NEW r \in WireFields, NEW f \in Fields, FieldNumber[f] = r.number, Type(f) = r.type
      PROVE  /\ Stored(m, r) = [m EXCEPT ![f] = IF f = "quality" THEN UnZigZag(r.value) ELSE r.value]
             /\ Stored(m, r) \in Measurements
  <2>1. (CHOOSE g \in Fields : FieldNumber[g] = r.number) = f
    BY <1>2, NumbersDiffer
  <2>2. Stored(m, r) = [m EXCEPT ![f] = IF f = "quality" THEN UnZigZag(r.value) ELSE r.value]
    BY <1>2, <2>1, Zenon DEF Stored
  <2>3. r.value \in ValuesOf(Type(f))
    BY <1>2 DEF WireFields
  <2>4. r.value \in IF f \in Strings THEN Seq(Byte) ELSE Nat
    BY <2>3, NumbersDiffer, WireTypeFacts
  <2> DEFINE v == IF f = "quality" THEN UnZigZag(r.value) ELSE r.value
  <2>5. v \in IF f \in Strings THEN Seq(Byte) ELSE IF f = "quality" THEN Int ELSE Nat
    BY <2>4, UnZigZagType DEF Strings
  <2> HIDE DEF v
  <2>6. [m EXCEPT ![f] = v] \in Measurements
    BY <2>5, FieldsAre DEF Measurements, Strings
  <2> QED BY <2>2, <2>6 DEF v
<1>3. ASSUME NEW r \in WireFields PROVE Stored(m, r) \in Measurements
  <2>1. CASE Known(r)
    BY <1>2, <2>1 DEF Known
  <2>2. CASE ~Known(r)
    BY <1>1, <2>2 DEF UnknownFields
  <2> QED BY <2>1, <2>2
<1>4. ASSUME NEW f \in Fields, NEW v \in ValuesOf(Type(f))
      PROVE  Stored(m, Field(FieldNumber[f], Type(f), v)) =
               [m EXCEPT ![f] = IF f = "quality" THEN UnZigZag(v) ELSE v]
  <2> DEFINE r == Field(FieldNumber[f], Type(f), v)
  <2>1. r \in WireFields /\ r.number = FieldNumber[f] /\ r.type = Type(f) /\ r.value = v
    BY NumbersDiffer, FieldIsField
  <2> HIDE DEF r
  <2> QED BY <1>2, <2>1 DEF r
<1> QED BY <1>1, <1>3, <1>4

Storing == [m \in Measurements |-> [r \in WireFields |-> Stored(m, r)]]

\* What a list of fields does to a message is a fold.
LEMMA StoredFolds ==
  ASSUME NEW m \in Measurements, NEW F \in Seq(WireFields)
  PROVE  /\ FoldLeft(Stored, m, F) = Folded(Measurements, m, Storing, F)
         /\ Foldable(Measurements, WireFields, m, Storing)
<1> DEFINE IsResult(f) == f = [s \in SUBSET DOMAIN F |->
                             IF s = {} THEN m ELSE Stored(f[s \ {Max(s)}], F[Max(s)])]
           result == CHOOSE f : IsResult(f)
           D == SUBSET DOMAIN F
<1>1. FoldLeft(Stored, m, F) = result[DOMAIN F]
  BY Zenon DEF FoldLeft, MapThenFoldSet
<1>2. \A v \in Measurements, r \in WireFields :
        Storing[v][r] = Stored(v, r) /\ Stored(v, r) \in Measurements
  BY StoredFacts DEF Storing
<1>3. Foldable(Measurements, WireFields, m, Storing)
  BY StoredFacts DEF Foldable, Storing
<1>4. \A s \in D : s # {} => F[Max(s)] \in WireFields /\ s \ {Max(s)} \in D
  <2>1. Len(F) \in Nat /\ DOMAIN F = 1 .. Len(F) /\ \A i \in 1 .. Len(F) : F[i] \in WireFields
    BY LenProperties, ElementOfSeq
  <2> QED BY <2>1, MaxFacts
<1>5. IsResult(result)
  <2>1. PICK f : Iteration(Measurements, m, Storing, F, f)
    BY <1>3, IterationExists
  <2>2. ASSUME NEW s \in D
        PROVE  f[s] = IF s = {} THEN m ELSE Stored(f[s \ {Max(s)}], F[Max(s)])
    <3> HIDE DEF D
    <3>0. f \in [D -> Measurements] /\ f[s] = IF s = {} THEN m ELSE Storing[f[s \ {Max(s)}]][F[Max(s)]]
      BY <2>1 DEF Iteration, D
    <3>1. CASE s = {}
      BY <3>0, <3>1
    <3>2. CASE s # {}
      <4> DEFINE v == f[s \ {Max(s)}]
                 r == F[Max(s)]
      <4>1. v \in Measurements /\ r \in WireFields /\ f[s] = Storing[v][r]
        BY <1>4, <3>0, <3>2
      <4> HIDE DEF v, r
      <4>2. f[s] = Stored(v, r)
        BY <1>2, <4>1
      <4> QED BY <3>2, <4>2 DEF v, r
    <3> QED BY <3>1, <3>2
  <2>3. IsResult(f)
    <3> DEFINE e(s) == IF s = {} THEN m ELSE Stored(f[s \ {Max(s)}], F[Max(s)])
    <3>1. \A s \in D : f[s] = e(s)
      BY <2>2
    <3> HIDE DEF e
    <3>2. f = [s \in D |-> e(s)]
      BY <2>1, <3>1 DEF Iteration
    <3> QED BY <3>2, Zenon DEF e
  <2> HIDE DEF IsResult
  <2> QED BY <2>3, Zenon
<1> HIDE DEF result
<1>6. ASSUME NEW s \in D
      PROVE  result[s] = IF s = {} THEN m ELSE Stored(result[s \ {Max(s)}], F[Max(s)])
  <2> DEFINE e(t) == IF t = {} THEN m ELSE Stored(result[t \ {Max(t)}], F[Max(t)])
  <2>1. result = [t \in D |-> e(t)]
    BY <1>5, Zenon
  <2> HIDE DEF e, D
  <2>2. result[s] = e(s)
    BY <2>1
  <2> QED BY <2>2 DEF e
<1>7. Iterates(Measurements, m, Storing, F, result)
  <2> SUFFICES ASSUME NEW s \in D
               PROVE  /\ s = {} => result[s] = m
                      /\ s # {} /\ result[s \ {Max(s)}] \in Measurements =>
                           result[s] = Storing[result[s \ {Max(s)}]][F[Max(s)]]
    BY DEF Iterates
  <2>1. CASE s = {}
    BY <1>6, <2>1
  <2>2. CASE s # {}
    <3> SUFFICES ASSUME result[s \ {Max(s)}] \in Measurements
                 PROVE  result[s] = Storing[result[s \ {Max(s)}]][F[Max(s)]]
      BY <2>2
    <3> DEFINE v == result[s \ {Max(s)}]
               r == F[Max(s)]
    <3>1. v \in Measurements /\ r \in WireFields /\ result[s] = Stored(v, r)
      BY <1>4, <1>6, <2>2
    <3> HIDE DEF v, r
    <3>2. result[s] = Storing[v][r]
      BY <1>2, <3>1
    <3> QED BY <3>2 DEF v, r
  <2> QED BY <2>1, <2>2
<1> QED BY <1>1, <1>3, <1>7, IterationFolds

\* A field as it is merged.
Merged(m, b, f) == IF b[f] = Empty(f) THEN m ELSE [m EXCEPT ![f] = b[f]]

\* What is written for a field, and what reading it does.
LEMMA WrittenFacts ==
  ASSUME NEW b \in Measurements, NEW f \in Fields
  PROVE  /\ Written(b, f) \in Seq(WireFields)
         /\ \A m \in Measurements :
              /\ Folded(Measurements, m, Storing, Written(b, f)) = Merged(m, b, f)
              /\ Merged(m, b, f) \in Measurements
<1> DEFINE v == IF f = "quality" THEN ZigZag(b[f]) ELSE b[f]
           r == Field(FieldNumber[f], Type(f), v)
<1>1. v \in ValuesOf(Type(f)) /\ (IF f = "quality" THEN UnZigZag(v) ELSE v) = b[f]
  <2>1. b[f] \in IF f \in Strings THEN Seq(Byte) ELSE IF f = "quality" THEN Int ELSE Nat
    BY FieldsAre DEF Measurements, Strings
  <2>2. "quality" \notin Strings
    BY DEF Strings
  <2>3. CASE f = "quality"
    <3>1. b[f] \in Int
      BY <2>1, <2>2, <2>3
    <3>2. v \in Nat /\ UnZigZag(v) = b[f]
      BY <2>3, <3>1, ZigZagFacts
    <3> QED BY <2>2, <2>3, <3>2, NumbersDiffer, WireTypeFacts
  <2>4. CASE f # "quality"
    <3>1. v = b[f]
      BY <2>4
    <3> QED BY <2>1, <2>4, <3>1, NumbersDiffer, WireTypeFacts
  <2> QED BY <2>3, <2>4
<1> HIDE DEF v
<1>2. r \in WireFields
  BY <1>1, NumbersDiffer, FieldIsField
<1>3. Written(b, f) = IF b[f] = Empty(f) THEN << >> ELSE <<r>>
  BY Zenon DEF Written, v
<1>4. \A m \in Measurements : Stored(m, r) = [m EXCEPT ![f] = b[f]] /\ Stored(m, r) \in Measurements
  BY <1>1, <1>2, StoredFacts
<1> HIDE DEF r
<1>5. << >> \in Seq(WireFields) /\ <<r>> \in Seq(WireFields) /\ <<r>> = Append(<< >>, r)
  BY <1>2, EmptySeq
<1>6. Written(b, f) \in Seq(WireFields)
  BY <1>3, <1>5
<1>7. ASSUME NEW m \in Measurements
      PROVE  /\ Folded(Measurements, m, Storing, Written(b, f)) = Merged(m, b, f)
             /\ Merged(m, b, f) \in Measurements
  <2>1. Foldable(Measurements, WireFields, m, Storing)
    BY <1>5, StoredFolds
  <2>2. Folded(Measurements, m, Storing, << >>) = m
    BY <2>1, FoldedFacts
  <2>3. Folded(Measurements, m, Storing, <<r>>) = Storing[m][r]
    <3> DEFINE e == << >>
    <3>1. e \in Seq(WireFields) /\ <<r>> = Append(e, r) /\ Folded(Measurements, m, Storing, e) = m
      BY <1>5, <2>2
    <3> HIDE DEF e
    <3>2. Folded(Measurements, m, Storing, Append(e, r))
            = Storing[Folded(Measurements, m, Storing, e)][r]
      BY <1>2, <2>1, <3>1, FoldedFacts
    <3> QED BY <3>1, <3>2
  <2>4. Storing[m][r] = [m EXCEPT ![f] = b[f]]
    BY <1>2, <1>4 DEF Storing
  <2>5. CASE b[f] = Empty(f)
    BY <1>3, <2>2, <2>5 DEF Merged
  <2>6. CASE b[f] # Empty(f)
    BY <1>3, <1>4, <2>3, <2>4, <2>6 DEF Merged
  <2> QED BY <2>5, <2>6
<1> QED BY <1>6, <1>7

\* The fields that are written, one behind the other.
LEMMA OnWireIs ==
  ASSUME NEW m \in Measurements
  PROVE  /\ OnWire(m) = Written(m, "name") \o Written(m, "width") \o Written(m, "height")
                          \o Written(m, "quality") \o Written(m, "image") \o Written(m, "simtime")
                          \o m.unknown
         /\ OnWire(m) \in Seq(WireFields) /\ m.unknown \in Seq(WireFields)
<1> DEFINE w(f) == Written(m, f)
           c == [i \in DOMAIN FieldOrder |-> Written(m, FieldOrder[i])]
           S == Seq(WireFields)
<1>1. \A f \in Fields : w(f) \in S
  BY WrittenFacts
<1>2. w("name") \in S /\ w("width") \in S /\ w("height") \in S /\ w("quality") \in S
      /\ w("image") \in S /\ w("simtime") \in S
  BY <1>1, FieldsAre
<1> HIDE DEF w
<1>3. c = <<w("name"), w("width"), w("height"), w("quality"), w("image"), w("simtime")>>
  BY DEF FieldOrder, w
<1>4. /\ <<w("name")>> \in Seq(S)
      /\ <<w("name"), w("width")>> \in Seq(S)
      /\ <<w("name"), w("width"), w("height")>> \in Seq(S)
      /\ <<w("name"), w("width"), w("height"), w("quality")>> \in Seq(S)
      /\ <<w("name"), w("width"), w("height"), w("quality"), w("image")>> \in Seq(S)
  <2> HIDE DEF S
  <2> QED BY <1>2
<1>5. /\ <<w("name"), w("width")>> = Append(<<w("name")>>, w("width"))
      /\ <<w("name"), w("width"), w("height")>> = Append(<<w("name"), w("width")>>, w("height"))
      /\ <<w("name"), w("width"), w("height"), w("quality")>>
           = Append(<<w("name"), w("width"), w("height")>>, w("quality"))
      /\ <<w("name"), w("width"), w("height"), w("quality"), w("image")>>
           = Append(<<w("name"), w("width"), w("height"), w("quality")>>, w("image"))
      /\ <<w("name"), w("width"), w("height"), w("quality"), w("image"), w("simtime")>>
           = Append(<<w("name"), w("width"), w("height"), w("quality"), w("image")>>, w("simtime"))
  OBVIOUS
<1>6. FlattenSeq(<<w("name")>>) = w("name")
  <2>1. << >> \in Seq(S) /\ <<w("name")>> = Append(<< >>, w("name"))
    BY EmptySeq
  <2>2. FlattenSeq(Append(<< >>, w("name"))) = FlattenSeq(<< >>) \o w("name") /\ FlattenSeq(<< >>) = << >>
    BY <1>2, <2>1, FlattenFacts
  <2>3. << >> \o w("name") = w("name")
    BY <1>2, ConcatEmptySeq
  <2> QED BY <2>1, <2>2, <2>3
<1>7. ASSUME NEW s \in Seq(S), NEW e \in S PROVE FlattenSeq(Append(s, e)) = FlattenSeq(s) \o e
  BY <1>7, FlattenFacts
<1>8. FlattenSeq(c) = w("name") \o w("width") \o w("height") \o w("quality") \o w("image") \o w("simtime")
  <2> HIDE DEF S
  <2>1. FlattenSeq(<<w("name"), w("width")>>) = w("name") \o w("width")
    BY <1>2, <1>4, <1>5, <1>6, <1>7
  <2>2. FlattenSeq(<<w("name"), w("width"), w("height")>>) = w("name") \o w("width") \o w("height")
    BY <1>2, <1>4, <1>5, <1>7, <2>1
  <2>3. FlattenSeq(<<w("name"), w("width"), w("height"), w("quality")>>)
          = w("name") \o w("width") \o w("height") \o w("quality")
    BY <1>2, <1>4, <1>5, <1>7, <2>2
  <2>4. FlattenSeq(<<w("name"), w("width"), w("height"), w("quality"), w("image")>>)
          = w("name") \o w("width") \o w("height") \o w("quality") \o w("image")
    BY <1>2, <1>4, <1>5, <1>7, <2>3
  <2>5. FlattenSeq(<<w("name"), w("width"), w("height"), w("quality"), w("image"), w("simtime")>>)
          = w("name") \o w("width") \o w("height") \o w("quality") \o w("image") \o w("simtime")
    BY <1>2, <1>4, <1>5, <1>7, <2>4
  <2> QED BY <1>3, <2>5
<1>9. m.unknown \in Seq(WireFields)
  <2>1. m.unknown \in Seq(UnknownFields)
    BY DEF Measurements
  <2> QED BY <2>1 DEF UnknownFields
<1>10. OnWire(m) = FlattenSeq(c) \o m.unknown
  BY Zenon DEF OnWire
<1>11. OnWire(m) \in Seq(WireFields)
  <2>1. FlattenSeq(c) \in S
    <3>1. c \in Seq(S)
      <4>1. <<w("name"), w("width"), w("height"), w("quality"), w("image"), w("simtime")>> \in Seq(S)
        <5> HIDE DEF S
        <5> QED BY <1>2
      <4> QED BY <1>3, <4>1
    <3> HIDE DEF c
    <3> QED BY <3>1, FlattenFacts
  <2> HIDE DEF c
  <2> QED BY <1>9, <1>10, <2>1, ConcatProperties
<1> QED BY <1>8, <1>9, <1>10, <1>11, Zenon DEF w

\* Unknown fields are kept.
LEMMA UnknownKept ==
  ASSUME NEW m \in Measurements, NEW U \in Seq(UnknownFields)
  PROVE  Folded(Measurements, m, Storing, U) = [m EXCEPT !.unknown = m.unknown \o U]
<1> DEFINE T == {u \in Seq(UnknownFields) :
                   Folded(Measurements, m, Storing, u) = [m EXCEPT !.unknown = m.unknown \o u]}
<1>0. /\ m.unknown \in Seq(UnknownFields) /\ << >> \in Seq(WireFields)
      /\ Seq(UnknownFields) \subseteq Seq(WireFields) /\ UnknownFields \subseteq WireFields
  BY EmptySeq DEF Measurements, UnknownFields
<1>1. Foldable(Measurements, WireFields, m, Storing)
  BY <1>0, StoredFolds
<1>2. << >> \in T
  <2>1. m.unknown \o << >> = m.unknown /\ << >> \in Seq(UnknownFields)
    BY <1>0, ConcatEmptySeq, EmptySeq
  <2>2. [m EXCEPT !.unknown = m.unknown] = m
    BY DEF Measurements
  <2>3. Folded(Measurements, m, Storing, << >>) = m
    BY <1>1, FoldedFacts
  <2> QED BY <2>1, <2>2, <2>3
<1>3. ASSUME NEW u \in Seq(UnknownFields), NEW r \in UnknownFields, u \in T PROVE Append(u, r) \in T
  <2> DEFINE v == Folded(Measurements, m, Storing, u)
             s == m.unknown \o u
             t == m.unknown \o Append(u, r)
  <2>1. v = [m EXCEPT !.unknown = s] /\ v \in Measurements
    BY <1>0, <1>1, <1>3, FoldedFacts
  <2>2. t = Append(s, r)
    <3>1. Append(u, r) = u \o <<r>> /\ <<r>> \in Seq(UnknownFields) /\ s \in Seq(UnknownFields)
      BY <1>0, AppendIsConcat, ConcatProperties
    <3>2. Append(s, r) = s \o <<r>>
      <4> HIDE DEF s
      <4> QED BY <3>1, AppendIsConcat
    <3> DEFINE a == m.unknown
               e == <<r>>
    <3>3. a \o (u \o e) = (a \o u) \o e
      <4>1. a \in Seq(UnknownFields) /\ e \in Seq(UnknownFields)
        BY <1>0, <3>1
      <4> HIDE DEF a, e
      <4> QED BY <4>1, ConcatAssociative
    <3> QED BY <3>1, <3>2, <3>3
  <2>3. Folded(Measurements, m, Storing, Append(u, r)) = Storing[v][r]
    BY <1>0, <1>1, FoldedFacts
  <2> HIDE DEF v, s, t
  <2>4. Storing[v][r] = Stored(v, r)
    BY <1>0, <2>1 DEF Storing
  <2>5. Stored(v, r) = [v EXCEPT !.unknown = Append(v.unknown, r)]
    BY <2>1, StoredFacts
  <2>6. v.unknown = s
    BY <2>1 DEF Measurements
  <2>7. [v EXCEPT !.unknown = t] = [m EXCEPT !.unknown = t]
    BY <2>1 DEF Measurements
  <2>8. Append(u, r) \in Seq(UnknownFields)
    BY AppendProperties
  <2> QED BY <2>2, <2>3, <2>4, <2>5, <2>6, <2>7, <2>8 DEF t
<1> HIDE DEF T
<1>4. U \in T
  BY <1>2, <1>3, SequenceInduction
<1> QED BY <1>4 DEF T

\* What was written of a message, when it is read, is merged.
LEMMA OnWireMerges ==
  ASSUME NEW m \in Measurements, NEW b \in Measurements
  PROVE  /\ FoldLeft(Stored, m, OnWire(b)) = MergeFrom(m, b)
         /\ MergeFrom(m, b) \in Measurements
<1> DEFINE w(f) == Written(b, f)
           R(v, s) == Folded(Measurements, v, Storing, s)
<1>1. /\ w("name") \in Seq(WireFields) /\ w("width") \in Seq(WireFields)
      /\ w("height") \in Seq(WireFields) /\ w("quality") \in Seq(WireFields)
      /\ w("image") \in Seq(WireFields) /\ w("simtime") \in Seq(WireFields)
      /\ b.unknown \in Seq(WireFields) /\ OnWire(b) \in Seq(WireFields)
      /\ OnWire(b) = w("name") \o w("width") \o w("height") \o w("quality") \o w("image")
                       \o w("simtime") \o b.unknown
  BY OnWireIs, WrittenFacts, FieldsAre
<1>2. ASSUME NEW v \in Measurements, NEW s \in Seq(WireFields), NEW t \in Seq(WireFields)
      PROVE  /\ s \o t \in Seq(WireFields) /\ R(v, s) \in Measurements
             /\ R(v, s \o t) = R(R(v, s), t)
  <2>1. Foldable(Measurements, WireFields, v, Storing)
    BY <1>1, StoredFolds
  <2> QED BY <2>1, FoldedFacts, FoldedConcat, ConcatProperties
<1>3. \A v \in Measurements : \A f \in Fields :
        R(v, w(f)) = Merged(v, b, f) /\ Merged(v, b, f) \in Measurements
  BY WrittenFacts
<1> DEFINE m1 == Merged(m, b, "name")
           m2 == Merged(m1, b, "width")
           m3 == Merged(m2, b, "height")
           m4 == Merged(m3, b, "quality")
           m5 == Merged(m4, b, "image")
           m6 == Merged(m5, b, "simtime")
<1>4. /\ m1 \in Measurements /\ m2 \in Measurements /\ m3 \in Measurements
      /\ m4 \in Measurements /\ m5 \in Measurements /\ m6 \in Measurements
  BY <1>3, FieldsAre
<1>5. R(m, OnWire(b)) = R(m6, b.unknown)
  <2> DEFINE s1 == w("name")
             s2 == s1 \o w("width")
             s3 == s2 \o w("height")
             s4 == s3 \o w("quality")
             s5 == s4 \o w("image")
             s6 == s5 \o w("simtime")
             W == Seq(WireFields)
  <2> HIDE DEF R, W
  <2>1. s1 \in W /\ R(m, s1) = m1
    BY <1>1, <1>3, FieldsAre DEF W
  <2> USE DEF W
  <2> HIDE DEF w, m1, s1
  <2>2. s2 \in W /\ R(m, s2) = m2
    BY <1>1, <1>2, <1>3, <1>4, <2>1, FieldsAre
  <2> HIDE DEF s2, m2
  <2>3. s3 \in W /\ R(m, s3) = m3
    BY <1>1, <1>2, <1>3, <1>4, <2>2, FieldsAre
  <2> HIDE DEF s3, m3
  <2>4. s4 \in W /\ R(m, s4) = m4
    BY <1>1, <1>2, <1>3, <1>4, <2>3, FieldsAre
  <2> HIDE DEF s4, m4
  <2>5. s5 \in W /\ R(m, s5) = m5
    BY <1>1, <1>2, <1>3, <1>4, <2>4, FieldsAre
  <2> HIDE DEF s5, m5
  <2>6. s6 \in W /\ R(m, s6) = m6
    BY <1>1, <1>2, <1>3, <1>4, <2>5, FieldsAre
  <2>7. OnWire(b) = s6 \o b.unknown
    BY <1>1, Zenon DEF s1, s2, s3, s4, s5
  <2> HIDE DEF s6, m6
  <2>8. b.unknown \in W
    BY <1>1
  <2> QED BY <1>2, <2>6, <2>7, <2>8
<1> HIDE DEF R
<1>6. R(m6, b.unknown) = [m6 EXCEPT !.unknown = m6.unknown \o b.unknown]
  <2>1. b.unknown \in Seq(UnknownFields)
    BY DEF Measurements
  <2> HIDE DEF m6
  <2> QED BY <1>4, <2>1, UnknownKept DEF R
<1>7. ASSUME NEW v \in Measurements, NEW f \in Fields, NEW u, u = Merged(v, b, f)
      PROVE  /\ u[f] = Later(v, b, f)
             /\ \A g \in Fields \union {"unknown"} : g # f => u[g] = v[g]
  <2>1. DOMAIN v = Fields \union {"unknown"}
    BY FieldsAre DEF Measurements
  <2>2. CASE b[f] = Empty(f)
    BY <1>7, <2>2 DEF Merged, Later
  <2>3. CASE b[f] # Empty(f)
    BY <1>7, <2>1, <2>3 DEF Merged, Later
  <2> QED BY <2>2, <2>3
<1>8. /\ m6["name"] = Later(m, b, "name") /\ m6["width"] = Later(m, b, "width")
      /\ m6["height"] = Later(m, b, "height") /\ m6["quality"] = Later(m, b, "quality")
      /\ m6["image"] = Later(m, b, "image") /\ m6["simtime"] = Later(m, b, "simtime")
      /\ m6["unknown"] = m["unknown"]
  <2> DEFINE Others(u, v, f) == \A g \in Fields \union {"unknown"} : g # f => u[g] = v[g]
  <2> HIDE DEF m6
  <2>6. m6["simtime"] = Later(m5, b, "simtime") /\ Others(m6, m5, "simtime")
    <3> HIDE DEF m5
    <3> QED BY <1>4, <1>7, FieldsAre DEF m6
  <2> HIDE DEF m5
  <2>5. m5["image"] = Later(m4, b, "image") /\ Others(m5, m4, "image")
    <3> HIDE DEF m4
    <3> QED BY <1>4, <1>7, FieldsAre DEF m5
  <2> HIDE DEF m4
  <2>4. m4["quality"] = Later(m3, b, "quality") /\ Others(m4, m3, "quality")
    <3> HIDE DEF m3
    <3> QED BY <1>4, <1>7, FieldsAre DEF m4
  <2> HIDE DEF m3
  <2>3. m3["height"] = Later(m2, b, "height") /\ Others(m3, m2, "height")
    <3> HIDE DEF m2
    <3> QED BY <1>4, <1>7, FieldsAre DEF m3
  <2> HIDE DEF m2
  <2>2. m2["width"] = Later(m1, b, "width") /\ Others(m2, m1, "width")
    <3> HIDE DEF m1
    <3> QED BY <1>4, <1>7, FieldsAre DEF m2
  <2> HIDE DEF m1
  <2>1. m1["name"] = Later(m, b, "name") /\ Others(m1, m, "name")
    BY <1>4, <1>7, FieldsAre DEF m1
  <2>7. ASSUME NEW u, NEW f, u[f] = m[f] PROVE Later(u, b, f) = Later(m, b, f)
    BY <2>7 DEF Later
  <2> QED BY <2>1, <2>2, <2>3, <2>4, <2>5, <2>6, <2>7, FieldsAre
<1> HIDE DEF m6
<1> DEFINE u == m6["unknown"] \o b["unknown"]
           r == [m6 EXCEPT !.unknown = u]
<1>10. r = Measurement(m6["name"], m6["width"], m6["height"], m6["quality"], m6["image"],
                       m6["simtime"], u)
  <2>1. m6 = Measurement(m6["name"], m6["width"], m6["height"], m6["quality"], m6["image"],
                         m6["simtime"], m6["unknown"])
    BY <1>4 DEF Measurements, Measurement
  <2>2. \A z : [m6 EXCEPT !.unknown = z] =
                 Measurement(m6["name"], m6["width"], m6["height"], m6["quality"], m6["image"],
                             m6["simtime"], z)
    BY <2>1 DEF Measurement
  <2> HIDE DEF u
  <2> QED BY <2>2
<1>11. r = MergeFrom(m, b)
  <2> HIDE DEF r
  <2> QED BY <1>8, <1>10, MergeIs, Zenon
<1>12. MergeFrom(m, b) \in Measurements
  <2>1. m6.unknown \in Seq(UnknownFields) /\ b.unknown \in Seq(UnknownFields)
    BY <1>4 DEF Measurements
  <2>2. u \in Seq(UnknownFields)
    BY <2>1, ConcatProperties
  <2> HIDE DEF u
  <2>3. r \in Measurements
    BY <1>4, <2>2 DEF Measurements
  <2> QED BY <1>11, <2>3
<1>13. FoldLeft(Stored, m, OnWire(b)) = R(m, OnWire(b))
  BY <1>1, StoredFolds DEF R
<1> QED BY <1>5, <1>6, <1>11, <1>12, <1>13

-----------------------------------------------------------------------------
(* Measurements, parsed *)

\* A message is written as bytes, as many as ByteSizeLong computed.
LEMMA SerializeFacts ==
  ASSUME NEW m \in Measurements
  PROVE  /\ InternalSerialize(m) \in Seq(Byte)
         /\ ByteSizeLong(m) = Len(InternalSerialize(m))
<1> DEFINE F == OnWire(m)
<1>1. F \in Seq(WireFields)
  BY OnWireIs
<1>2. InternalSerialize(m) = Encode(F) /\ ByteSizeLong(m) = EncodedLength(F)
  BY Zenon DEF InternalSerialize, ByteSizeLong
<1> HIDE DEF F
<1> QED BY <1>1, <1>2, EncodeFacts, EncodedLengthIsLength

\* What a parse is: the fields of the bytes, stored in a new message.
LEMMA ParseIs ==
  ASSUME NEW m, NEW bytes
  PROVE  ParseFromString(m, bytes) =
           [msg |-> FoldLeft(Stored, SharedCtor, Decode(bytes).fields), ok |-> Decode(bytes).ok]
BY Zenon DEF ParseFromString, InternalParse, Clear

\* Any bytes are parsed to a message.
LEMMA ParsedType ==
  ASSUME NEW m, NEW bytes \in Seq(Byte)
  PROVE  ParseFromString(m, bytes).msg \in Measurements
<1> DEFINE r == Reading(bytes)[1]
           F == r.fields
<1>1. r \in Results /\ r = Decode(bytes)
  <2>1. 1 \in Position
    BY DEF Position
  <2>2. \A p \in Position : Reading(bytes)[p] \in Results
    BY ReadingStep
  <2> QED BY <2>1, <2>2, DecodeIsReading
<1> HIDE DEF r
<1>2. F \in Seq(WireFields)
  BY <1>1 DEF Results
<1>3. ParseFromString(m, bytes).msg = FoldLeft(Stored, SharedCtor, F)
  BY <1>1, ParseIs
<1> HIDE DEF F
<1>4. /\ FoldLeft(Stored, SharedCtor, F) = Folded(Measurements, SharedCtor, Storing, F)
      /\ Foldable(Measurements, WireFields, SharedCtor, Storing)
  BY <1>2, CtorFacts, StoredFolds
<1>5. Folded(Measurements, SharedCtor, Storing, F) \in Measurements
  BY <1>2, <1>4, FoldedFacts
<1> QED BY <1>3, <1>4, <1>5

\* A message is parsed back from its bytes, with zeros behind them or without.
LEMMA ParsedBack ==
  ASSUME NEW m, NEW p \in Measurements, NEW z \in Seq(Byte), Zeros(z)
  PROVE  ParseFromString(m, InternalSerialize(p) \o z) = [msg |-> p, ok |-> z = << >>]
<1> DEFINE F == OnWire(p)
           b == Encode(F) \o z
<1>1. F \in Seq(WireFields) /\ InternalSerialize(p) = Encode(F)
  BY OnWireIs, Zenon DEF InternalSerialize
<1>2. FoldLeft(Stored, SharedCtor, F) = p
  BY CtorFacts, OnWireMerges
<1> HIDE DEF F
<1>3. Decode(b) = [fields |-> F, ok |-> z = << >>]
  BY <1>1, EncodedIsDecoded
<1> HIDE DEF b
<1>4. ParseFromString(m, b) = [msg |-> FoldLeft(Stored, SharedCtor, F), ok |-> z = << >>]
  BY <1>3, ParseIs
<1> QED BY <1>1, <1>2, <1>4 DEF b

\* Two messages, one behind the other, are merged.
LEMMA ParsedPair ==
  ASSUME NEW m, NEW a \in Measurements, NEW b \in Measurements
  PROVE  ParseFromString(m, InternalSerialize(a) \o InternalSerialize(b))
           = [msg |-> MergeFrom(a, b), ok |-> TRUE]
<1> DEFINE F == OnWire(a)
           E == OnWire(b)
           U == F \o E
           e == << >>
<1>1. /\ F \in Seq(WireFields) /\ E \in Seq(WireFields)
      /\ InternalSerialize(a) = Encode(F) /\ InternalSerialize(b) = Encode(E)
  BY OnWireIs, Zenon DEF InternalSerialize
<1>2. /\ FoldLeft(Stored, SharedCtor, F) = a
      /\ FoldLeft(Stored, a, E) = MergeFrom(a, b)
  BY CtorFacts, OnWireMerges
<1> HIDE DEF F, E
<1>3. U \in Seq(WireFields) /\ Encode(U) = Encode(F) \o Encode(E)
  BY <1>1, ConcatProperties, EncodeConcat
<1>4. FoldLeft(Stored, SharedCtor, U) = FoldLeft(Stored, a, E)
  <2>1. /\ FoldLeft(Stored, SharedCtor, F) = Folded(Measurements, SharedCtor, Storing, F)
        /\ FoldLeft(Stored, SharedCtor, U) = Folded(Measurements, SharedCtor, Storing, U)
        /\ FoldLeft(Stored, a, E) = Folded(Measurements, a, Storing, E)
        /\ Foldable(Measurements, WireFields, SharedCtor, Storing)
    <3> HIDE DEF U
    <3> QED BY <1>1, <1>3, CtorFacts, StoredFolds
  <2>2. Folded(Measurements, SharedCtor, Storing, U)
          = Folded(Measurements, Folded(Measurements, SharedCtor, Storing, F), Storing, E)
    BY <1>1, <2>1, FoldedConcat
  <2> QED BY <1>2, <2>1, <2>2
<1> HIDE DEF U
<1>5. e \in Seq(Byte) /\ Zeros(e) /\ (e = << >>) = TRUE
  BY EmptySeq DEF Zeros
<1>6. Encode(U) \o e = Encode(U)
  BY <1>3, EncodeFacts, ConcatEmptySeq
<1> HIDE DEF e
<1>7. Decode(Encode(U)) = [fields |-> U, ok |-> TRUE]
  BY <1>3, <1>5, <1>6, EncodedIsDecoded
<1> DEFINE c == Encode(U)
<1> HIDE DEF c
<1>8. ParseFromString(m, c) = [msg |-> FoldLeft(Stored, SharedCtor, U), ok |-> TRUE]
  BY <1>7, ParseIs DEF c
<1> QED BY <1>1, <1>2, <1>3, <1>4, <1>8 DEF c

\* The laws of the class, for any two messages.
LEMMA ClassLaws ==
  ASSUME NEW a \in Measurements, NEW b \in Measurements
  PROVE  /\ ParseFromString(a, InternalSerialize(a) \o InternalSerialize(b))
              = [msg |-> MergeFrom(a, b), ok |-> TRUE]
         /\ ByteSizeLong(a) = Len(InternalSerialize(a))
         /\ CopyFrom(a, b) = b /\ CopyConstructor(b) = b
         /\ Swap(a, b) = <<b, a>> /\ MoveConstructor(a) = <<a, SharedCtor>>
<1>1. CopyFrom(a, b) = b
  BY CtorFacts DEF CopyFrom
<1>2. MoveConstructor(a) = <<a, SharedCtor>>
  BY CtorFacts, SwapIs DEF MoveConstructor, MoveAssign, Swap
<1> QED BY <1>1, <1>2, ParsedPair, SerializeFacts, CopyIs, SwapIs

Messages == {Message(n, p) : n \in Nat, p \in Pictures \union {SharedCtor}}

Rises(s) == \A i, j \in DOMAIN s : i < j => s[i].num < s[j].num
Between(s, low, high) == \A i \in DOMAIN s : low < s[i].num /\ s[i].num <= high
Precede(s, t) == \A i \in DOMAIN s : \A j \in DOMAIN t : s[i].num < t[j].num

-----------------------------------------------------------------------------
(* Sequences of messages *)

\* What a sequence of messages is.
LEMMA MessageFacts ==
  ASSUME NEW s \in Seq(Messages)
  PROVE  /\ Len(s) \in Nat /\ DOMAIN s = 1 .. Len(s)
         /\ \A i \in DOMAIN s : s[i] \in Messages /\ s[i].num \in Nat
<1>1. Len(s) \in Nat /\ DOMAIN s = 1 .. Len(s)
  BY LenProperties
<1>2. \A i \in DOMAIN s : s[i] \in Messages
  BY <1>1, ElementOfSeq
<1>3. \A m \in Messages : m.num \in Nat
  BY DEF Messages, Message
<1> QED BY <1>1, <1>2, <1>3

\* The message sent next keeps a queue in order, and what precedes it.
LEMMA AppendFacts ==
  ASSUME NEW s \in Seq(Messages), NEW m \in Messages,
         NEW low \in Nat, NEW high \in Nat, low <= high,
         Rises(s), Between(s, low, high), m.num = high + 1
  PROVE  /\ Append(s, m) \in Seq(Messages)
         /\ Rises(Append(s, m)) /\ Between(Append(s, m), low, high + 1)
         /\ \A t \in Seq(Messages) :
              Precede(t, s) /\ Between(t, low, high) => Precede(t, Append(s, m))
<1> DEFINE u == Append(s, m)
           l == Len(s)
<1>1. /\ u \in Seq(Messages) /\ Len(u) = l + 1
      /\ \A i \in 1 .. l : u[i] = s[i]
      /\ u[l + 1] = m
  BY AppendProperties
<1>2. l \in Nat /\ DOMAIN s = 1 .. l /\ DOMAIN u = 1 .. l + 1
  BY <1>1, LenProperties
<1>3. \A i \in DOMAIN s : s[i].num \in Nat /\ s[i].num <= high /\ low < s[i].num
  BY MessageFacts DEF Between
<1> HIDE DEF u, l
<1>4. \A i \in DOMAIN u : \/ i \in DOMAIN s /\ u[i] = s[i]
                          \/ i = l + 1 /\ u[i] = m
  BY <1>1, <1>2
<1>5. Rises(u)
  <2> SUFFICES ASSUME NEW i \in DOMAIN u, NEW j \in DOMAIN u, i < j PROVE u[i].num < u[j].num
    BY DEF Rises
  <2>1. i \in Int /\ j \in Int /\ j <= l + 1 /\ i # l + 1
    BY <1>2
  <2>2. i \in DOMAIN s /\ u[i] = s[i]
    BY <1>4, <2>1
  <2>3. CASE j \in DOMAIN s /\ u[j] = s[j]
    BY <2>2, <2>3 DEF Rises
  <2>4. CASE u[j] = m
    BY <1>3, <2>2, <2>4
  <2> QED BY <1>4, <2>3, <2>4
<1>6. Between(u, low, high + 1)
  <2> SUFFICES ASSUME NEW i \in DOMAIN u PROVE low < u[i].num /\ u[i].num <= high + 1
    BY DEF Between
  <2>1. CASE i \in DOMAIN s /\ u[i] = s[i]
    BY <1>3, <2>1
  <2>2. CASE u[i] = m
    BY <2>2
  <2> QED BY <1>4, <2>1, <2>2
<1>7. ASSUME NEW t \in Seq(Messages), Precede(t, s), Between(t, low, high) PROVE Precede(t, u)
  <2> SUFFICES ASSUME NEW i \in DOMAIN t, NEW j \in DOMAIN u PROVE t[i].num < u[j].num
    BY DEF Precede
  <2>1. CASE j \in DOMAIN s /\ u[j] = s[j]
    BY <1>7, <2>1 DEF Precede
  <2>2. CASE u[j] = m
    <3>1. t[i].num \in Nat
      BY <1>7, MessageFacts
    <3> QED BY <1>7, <2>2, <3>1 DEF Between
  <2> QED BY <1>4, <2>1, <2>2
<1> QED BY <1>1, <1>5, <1>6, <1>7 DEF u

\* A queue without its head stays in order, behind the head.
LEMMA TailFacts ==
  ASSUME NEW s \in Seq(Messages), s # << >>, Rises(s)
  PROVE  /\ Head(s) \in Messages /\ Tail(s) \in Seq(Messages)
         /\ 1 \in DOMAIN s /\ Head(s) = s[1]
         /\ Rises(Tail(s))
         /\ \A i \in DOMAIN Tail(s) : Head(s).num < Tail(s)[i].num
         /\ \A low, high : Between(s, low, high) => Between(Tail(s), low, high)
         /\ \A t : Precede(t, s) => Precede(t, Tail(s))
<1> DEFINE u == Tail(s)
           l == Len(s)
<1>1. /\ Head(s) \in Messages /\ u \in Seq(Messages) /\ Len(u) = l - 1
      /\ \A i \in 1 .. Len(u) : u[i] = s[i + 1]
  BY HeadTailProperties
<1>2. l \in Nat /\ DOMAIN s = 1 .. l /\ DOMAIN u = 1 .. l - 1
  BY <1>1, LenProperties
<1>3. l >= 1
  BY <1>2, EmptySeq
<1>4. 1 \in DOMAIN s /\ Head(s) = s[1]
  BY <1>2, <1>3
<1> HIDE DEF u, l
<1>5. \A i \in DOMAIN u : /\ i \in Int /\ i + 1 \in DOMAIN s /\ 1 < i + 1
                          /\ u[i] = s[i + 1]
  BY <1>1, <1>2
<1>6. Rises(u)
  <2> SUFFICES ASSUME NEW i \in DOMAIN u, NEW j \in DOMAIN u, i < j PROVE u[i].num < u[j].num
    BY DEF Rises
  <2>1. i + 1 < j + 1
    BY <1>5
  <2> QED BY <1>5, <2>1 DEF Rises
<1>7. \A i \in DOMAIN u : Head(s).num < u[i].num
  BY <1>4, <1>5 DEF Rises
<1>8. \A low, high : Between(s, low, high) => Between(u, low, high)
  BY <1>5 DEF Between
<1>9. \A t : Precede(t, s) => Precede(t, u)
  BY <1>5 DEF Precede
<1> QED BY <1>1, <1>4, <1>6, <1>7, <1>8, <1>9 DEF u

-----------------------------------------------------------------------------
(* The invariant *)

TypeInv ==
  /\ sent \in Nat /\ before \in Nat /\ before <= sent
  /\ picture \in Pictures \union {SharedCtor}
  /\ queues \in Seq(Seq(Messages))
  /\ named \in 0 .. Newest /\ msgq \in 0 .. Newest
  /\ received \in Seq(Messages)

\* A sender that sends has a queue, and so has a receiver that receives; no
\* queue has the name from when the receiver removes it until it makes one.
QueuesExist ==
  /\ sender = "sending" => msgq # 0
  /\ receiver = "receiving" => Newest # 0
  /\ receiver = "removed" => named = 0

\* The numbers rise in every queue, and what the newest one holds is newer than
\* its receiver and than all that it has received.
NumbersRise ==
  /\ \A q \in 1 .. Newest : Rises(queues[q]) /\ Between(queues[q], 0, sent)
  /\ Rises(received) /\ Between(received, before, sent)
  /\ Newest # 0 => Between(queues[Newest], before, sent) /\ Precede(received, queues[Newest])

QueueInv == TypeInv /\ QueuesExist /\ NumbersRise

\* The invariant holds before anything runs.
LEMMA InitQueueInv == Init => QueueInv
<1> SUFFICES ASSUME Init PROVE QueueInv
  OBVIOUS
<1>1. queues \in Seq(Seq(Messages)) /\ received \in Seq(Messages) /\ Len(queues) = 0
  BY EmptySeq DEF Init
<1>2. TypeInv
  BY <1>1 DEF Init, TypeInv, Newest
<1>3. QueuesExist
  BY DEF Init, QueuesExist
<1>4. NumbersRise
  BY <1>1 DEF Init, NumbersRise, Newest, Rises, Between
<1> QED BY <1>2, <1>3, <1>4 DEF QueueInv

\* A step of a process that sends, takes and makes nothing.
LEMMA StillStep ==
  ASSUME QueueInv, UNCHANGED <<sent, before, queues, received>>,
         picture' \in Pictures \union {SharedCtor},
         named' \in {0, named}, msgq' \in {0, msgq, named}, QueuesExist'
  PROVE  QueueInv'
<1>1. Len(queues) \in Nat
  BY LenProperties DEF QueueInv, TypeInv
<1>2. TypeInv'
  BY <1>1 DEF QueueInv, TypeInv, Newest
<1>3. NumbersRise'
  BY DEF QueueInv, NumbersRise, Newest
<1> QED BY <1>2, <1>3 DEF QueueInv

\* One queue changes its contents.
LEMMA OneQueue ==
  ASSUME QueueInv, NEW q \in 1 .. Newest, NEW s \in Seq(Messages),
         queues' = [queues EXCEPT ![q] = s]
  PROVE  /\ queues' \in Seq(Seq(Messages)) /\ Newest' = Newest /\ Newest \in Nat
         /\ queues'[q] = s /\ queues[q] \in Seq(Messages)
         /\ \A r \in 1 .. Newest : r # q => queues'[r] = queues[r]
<1>1. queues \in Seq(Seq(Messages)) /\ Newest \in Nat
  BY LenProperties DEF QueueInv, TypeInv, Newest
<1>2. DOMAIN queues = 1 .. Newest
  BY <1>1, LenProperties DEF Newest
<1>3. queues' \in Seq(Seq(Messages)) /\ Len(queues') = Len(queues)
      /\ \A r \in 1 .. Len(queues) : queues'[r] = IF r = q THEN s ELSE queues[r]
  BY <1>1, ExceptSeq DEF Newest
<1>4. queues[q] \in Seq(Messages)
  BY <1>1, ElementOfSeq DEF Newest
<1> QED BY <1>1, <1>3, <1>4 DEF Newest

\* A message that is sent is newer than all there is.
LEMMA SendStep == QueueInv /\ Send => QueueInv'
<1> SUFFICES ASSUME QueueInv, Send PROVE QueueInv'
  OBVIOUS
<1> DEFINE m == Message(sent + 1, picture)
           s == Append(queues[msgq], m)
<1>1. /\ sent \in Nat /\ before \in Nat /\ before <= sent /\ sent' = sent + 1
      /\ UNCHANGED <<sender, picture, msgq, receiver, before, received, named>>
      /\ queues' = [queues EXCEPT ![msgq] = s]
  BY DEF QueueInv, TypeInv, Send, senderVars, receiverVars
<1>2. msgq \in 1 .. Newest /\ Newest \in Nat
  BY LenProperties DEF QueueInv, TypeInv, QueuesExist, Send, Newest
<1>3. queues[msgq] \in Seq(Messages)
  BY <1>2, ElementOfSeq DEF QueueInv, TypeInv, Newest
<1>4. m \in Messages /\ m.num = sent + 1
  BY <1>1 DEF QueueInv, TypeInv, Messages, Message
<1>5. Rises(queues[msgq]) /\ Between(queues[msgq], 0, sent)
  BY <1>2 DEF QueueInv, NumbersRise
<1> HIDE DEF m
<1>6. s \in Seq(Messages) /\ Rises(s) /\ Between(s, 0, sent + 1)
  BY <1>1, <1>3, <1>4, <1>5, AppendFacts
<1>7. msgq = Newest => Between(s, before, sent + 1) /\ Precede(received, s)
  <2> SUFFICES ASSUME msgq = Newest PROVE Between(s, before, sent + 1) /\ Precede(received, s)
    OBVIOUS
  <2>1. /\ Between(queues[msgq], before, sent) /\ Precede(received, queues[msgq])
        /\ Between(received, before, sent) /\ received \in Seq(Messages)
    BY <1>2 DEF QueueInv, TypeInv, NumbersRise
  <2> QED BY <1>1, <1>3, <1>4, <1>5, <2>1, AppendFacts
<1> HIDE DEF s
<1>8. /\ queues' \in Seq(Seq(Messages)) /\ Newest' = Newest
      /\ queues'[msgq] = s
      /\ \A r \in 1 .. Newest : r # msgq => queues'[r] = queues[r]
  BY <1>1, <1>2, <1>6, OneQueue
<1>9. TypeInv' /\ QueuesExist'
  BY <1>1, <1>8 DEF QueueInv, TypeInv, QueuesExist
<1>10. \A u \in Seq(Messages) : \A low : Between(u, low, sent) => Between(u, low, sent + 1)
  <2> SUFFICES ASSUME NEW u \in Seq(Messages), NEW low, Between(u, low, sent)
               PROVE  Between(u, low, sent + 1)
    OBVIOUS
  <2>1. \A i \in DOMAIN u : u[i].num \in Nat
    BY MessageFacts
  <2> QED BY <1>1, <2>1 DEF Between
<1>11. \A r \in 1 .. Newest : queues[r] \in Seq(Messages)
  BY ElementOfSeq DEF QueueInv, TypeInv, Newest
<1>12. \A r \in 1 .. Newest' : Rises(queues'[r]) /\ Between(queues'[r], 0, sent')
  <2> SUFFICES ASSUME NEW r \in 1 .. Newest PROVE Rises(queues'[r]) /\ Between(queues'[r], 0, sent + 1)
    BY <1>1, <1>8
  <2>1. CASE r = msgq
    BY <1>6, <1>8, <2>1
  <2>2. CASE r # msgq
    BY <1>8, <1>10, <1>11, <2>2 DEF QueueInv, NumbersRise
  <2> QED BY <2>1, <2>2
<1>13. Rises(received') /\ Between(received', before', sent')
  BY <1>1, <1>10 DEF QueueInv, TypeInv, NumbersRise
<1>14. Between(queues'[Newest], before, sent + 1) /\ Precede(received, queues'[Newest])
  <2>1. CASE Newest = msgq
    BY <1>7, <1>8, <2>1
  <2>2. CASE Newest # msgq
    <3>1. Newest \in 1 .. Newest
      BY <1>2
    <3> QED BY <1>8, <1>10, <1>11, <2>2, <3>1 DEF QueueInv, NumbersRise
  <2> QED BY <2>1, <2>2
<1>15. NumbersRise'
  BY <1>1, <1>8, <1>12, <1>13, <1>14 DEF NumbersRise
<1> QED BY <1>9, <1>15 DEF QueueInv

\* A receiver that makes its queue finds it empty: whatever it will get is newer.
LEMMA OpenOrCreateStep == QueueInv /\ OpenOrCreate => QueueInv'
<1> SUFFICES ASSUME QueueInv, OpenOrCreate PROVE QueueInv'
  OBVIOUS
<1>1. /\ queues' = Append(queues, << >>) /\ named' = Newest + 1
      /\ before' = sent /\ received' = << >>
      /\ UNCHANGED <<sender, picture, msgq, sent>> /\ receiver' = "receiving"
  BY DEF QueueInv, QueuesExist, OpenOrCreate, senderVars, Newest
<1>2. queues \in Seq(Seq(Messages)) /\ << >> \in Seq(Messages) /\ Newest \in Nat
  BY EmptySeq, LenProperties DEF QueueInv, TypeInv, Newest
<1>3. /\ queues' \in Seq(Seq(Messages)) /\ Newest' = Newest + 1
      /\ \A q \in 1 .. Newest : queues'[q] = queues[q]
      /\ queues'[Newest + 1] = << >>
  BY <1>1, <1>2, AppendProperties DEF Newest
<1>4. TypeInv' /\ QueuesExist'
  BY <1>1, <1>2, <1>3 DEF QueueInv, TypeInv, QueuesExist
<1>5. /\ Rises(<< >>) /\ \A low, high : Between(<< >>, low, high)
      /\ Precede(<< >>, << >>)
  BY DEF Rises, Between, Precede
<1>6. \A q \in 1 .. Newest + 1 : q \in 1 .. Newest \/ q = Newest + 1
  BY <1>2
<1>7. NumbersRise'
  BY <1>1, <1>3, <1>5, <1>6 DEF QueueInv, NumbersRise
<1> QED BY <1>4, <1>7 DEF QueueInv

\* The head of the newest queue comes behind all that was received.
LEMMA ReceiveStep == QueueInv /\ Receive => QueueInv'
<1> SUFFICES ASSUME QueueInv, Receive PROVE QueueInv'
  OBVIOUS
<1> DEFINE s == queues[Newest]
           h == Head(s)
           t == Tail(s)
<1>1. /\ UNCHANGED <<sender, picture, msgq, receiver, before, named, sent>>
      /\ received' = Append(received, h) /\ s # << >>
      /\ queues' = [queues EXCEPT ![Newest] = t]
  BY DEF Receive, senderVars
<1>2. Newest \in 1 .. Newest /\ Newest \in Nat
  BY LenProperties DEF QueueInv, TypeInv, QueuesExist, Receive, Newest
<1>3. s \in Seq(Messages)
  BY <1>2, ElementOfSeq DEF QueueInv, TypeInv, Newest
<1>4. /\ Rises(s) /\ Between(s, 0, sent) /\ Between(s, before, sent) /\ Precede(received, s)
      /\ Rises(received) /\ Between(received, before, sent) /\ received \in Seq(Messages)
  BY <1>2 DEF QueueInv, TypeInv, NumbersRise
<1> HIDE DEF s
<1>5. /\ h \in Messages /\ t \in Seq(Messages) /\ Rises(t)
      /\ 1 \in DOMAIN s /\ h = s[1]
      /\ \A i \in DOMAIN t : h.num < t[i].num
      /\ Between(t, 0, sent) /\ Between(t, before, sent) /\ Precede(received, t)
  BY <1>1, <1>3, <1>4, TailFacts
<1> HIDE DEF h, t
<1>6. /\ before < h.num /\ h.num <= sent
      /\ \A i \in DOMAIN received : received[i].num < h.num
  BY <1>4, <1>5 DEF Between, Precede
<1>7. /\ received' \in Seq(Messages)
      /\ \A i \in DOMAIN received' : \/ i \in DOMAIN received /\ received'[i] = received[i]
                                     \/ i \notin DOMAIN received /\ received'[i] = h
      /\ \A i, j \in DOMAIN received' : i < j => i \in DOMAIN received
  <2>1. /\ received' \in Seq(Messages) /\ Len(received') = Len(received) + 1
        /\ \A i \in 1 .. Len(received) : received'[i] = received[i]
        /\ received'[Len(received) + 1] = h
    BY <1>1, <1>4, <1>5, AppendProperties
  <2>2. /\ Len(received) \in Nat /\ DOMAIN received = 1 .. Len(received)
        /\ DOMAIN received' = 1 .. Len(received) + 1
    BY <1>4, <2>1, LenProperties
  <2> QED BY <2>1, <2>2
<1>8. Rises(received') /\ Between(received', before, sent) /\ Precede(received', t)
  <2>1. Rises(received')
    BY <1>4, <1>6, <1>7 DEF Rises
  <2>2. Between(received', before, sent)
    BY <1>4, <1>6, <1>7 DEF Between
  <2>3. Precede(received', t)
    BY <1>5, <1>7 DEF Precede
  <2> QED BY <2>1, <2>2, <2>3
<1>9. /\ queues' \in Seq(Seq(Messages)) /\ Newest' = Newest
      /\ queues'[Newest] = t
      /\ \A r \in 1 .. Newest : r # Newest => queues'[r] = queues[r]
  BY <1>1, <1>2, <1>5, OneQueue
<1>10. TypeInv' /\ QueuesExist'
  BY <1>1, <1>7, <1>9 DEF QueueInv, TypeInv, QueuesExist
<1>11. \A r \in 1 .. Newest : Rises(queues'[r]) /\ Between(queues'[r], 0, sent)
  BY <1>5, <1>9 DEF QueueInv, NumbersRise
<1>12. NumbersRise'
  BY <1>1, <1>5, <1>8, <1>9, <1>11 DEF NumbersRise
<1> QED BY <1>10, <1>12 DEF QueueInv

\* Every step keeps the invariant.
LEMMA NextQueueInv == QueueInv /\ [Next]_vars => QueueInv'
<1> SUFFICES ASSUME QueueInv, [Next]_vars PROVE QueueInv'
  OBVIOUS
<1>0. picture \in Pictures \union {SharedCtor}
  BY DEF QueueInv, TypeInv
<1>1. ASSUME NEW p \in Pictures, SenderStarts(p) PROVE QueueInv'
  BY <1>1, StillStep DEF SenderStarts, receiverVars, QueueInv, QueuesExist, Newest
<1>2. CASE Wait \/ SenderEnds
  BY <1>0, <1>2, StillStep DEF Wait, SenderEnds, receiverVars, QueueInv, QueuesExist, Newest
<1>3. CASE Open
  BY <1>0, <1>3, StillStep DEF Open, receiverVars, QueueInv, QueuesExist, Newest
<1>4. CASE Send
  BY <1>4, SendStep
<1>5. CASE RemoveQueue \/ ReceiverEnds
  BY <1>0, <1>5, StillStep DEF RemoveQueue, ReceiverEnds, senderVars, QueueInv, QueuesExist, Newest
<1>6. CASE OpenOrCreate
  BY <1>6, OpenOrCreateStep
<1>7. CASE Receive
  BY <1>7, ReceiveStep
<1>8. CASE UNCHANGED vars
  BY <1>0, <1>8, StillStep DEF vars, senderVars, receiverVars, QueueInv, QueuesExist, Newest
<1> QED BY <1>1, <1>2, <1>3, <1>4, <1>5, <1>6, <1>7, <1>8 DEF Next

\* A receiver never takes a picture that was sent before it made its queue,
\* and takes those that were in the order of the sends, none of them twice.
THEOREM InOrder == Spec => []PicturesInOrder
<1>1. QueueInv => PicturesInOrder
  BY DEF QueueInv, NumbersRise, Rises, Between, PicturesInOrder
<1> QED BY <1>1, InitQueueInv, NextQueueInv, PTL DEF Spec

-----------------------------------------------------------------------------
(* The queues are a channel *)

\* The numbers of the messages in s.
NumbersOf(s) == [i \in DOMAIN s |-> s[i].num]

LEMMA NumbersFacts ==
  ASSUME NEW s \in Seq(Messages)
  PROVE  /\ NumbersOf(s) \in Seq(Nat)
         /\ DOMAIN NumbersOf(s) = 1 .. Len(s) /\ Len(NumbersOf(s)) = Len(s) /\ Len(s) \in Nat
         /\ DOMAIN s = 1 .. Len(s)
         /\ \A i \in DOMAIN s : NumbersOf(s)[i] = s[i].num /\ s[i].num \in Nat
<1> DEFINE n == NumbersOf(s)
<1>1. Len(s) \in Nat /\ DOMAIN s = 1 .. Len(s) /\ \A i \in DOMAIN s : s[i] \in Messages
  BY LenProperties, ElementOfSeq
<1>2. \A m \in Messages : m.num \in Nat
  BY DEF Messages, Message
<1>3. DOMAIN n = 1 .. Len(s) /\ \A i \in DOMAIN s : n[i] = s[i].num /\ s[i].num \in Nat
  BY <1>1, <1>2 DEF NumbersOf
<1>4. n \in [1 .. Len(s) -> Nat]
  BY <1>1, <1>2 DEF NumbersOf
<1> HIDE DEF n
<1>5. n \in Seq(Nat)
  BY <1>1, <1>4, SeqDef
<1>6. Len(n) = Len(s)
  BY <1>1, <1>3, <1>5, LenProperties
<1> QED BY <1>1, <1>3, <1>5, <1>6 DEF n

LEMMA NumbersAppend ==
  ASSUME NEW s \in Seq(Messages), NEW h \in Messages
  PROVE  NumbersOf(Append(s, h)) = Append(NumbersOf(s), h.num)
<1> DEFINE u == Append(s, h)
           e == h.num
           v == NumbersOf(s)
<1>1. /\ u \in Seq(Messages) /\ Len(u) = Len(s) + 1
      /\ \A i \in 1 .. Len(s) : u[i] = s[i]
      /\ u[Len(s) + 1] = h
  BY AppendProperties
<1>2. e \in Nat
  BY DEF Messages, Message
<1> HIDE DEF e
<1>3. v \in Seq(Nat) /\ Len(v) = Len(s) /\ Len(s) \in Nat
      /\ \A i \in 1 .. Len(s) : v[i] = s[i].num
  BY NumbersFacts
<1> HIDE DEF v
<1>4. /\ Append(v, e) \in Seq(Nat) /\ Len(Append(v, e)) = Len(s) + 1
      /\ \A i \in 1 .. Len(s) : Append(v, e)[i] = s[i].num
      /\ Append(v, e)[Len(s) + 1] = e
  BY <1>2, <1>3, AppendProperties
<1> HIDE DEF u
<1>5. /\ NumbersOf(u) \in Seq(Nat) /\ Len(NumbersOf(u)) = Len(s) + 1
      /\ \A i \in 1 .. Len(s) + 1 : NumbersOf(u)[i] = u[i].num
  BY <1>1, NumbersFacts
<1>6. \A i \in 1 .. Len(s) + 1 : NumbersOf(u)[i] = Append(v, e)[i]
  <2> SUFFICES ASSUME NEW i \in 1 .. Len(s) + 1 PROVE NumbersOf(u)[i] = Append(v, e)[i]
    OBVIOUS
  <2>1. CASE i = Len(s) + 1
    BY <1>1, <1>4, <1>5, <2>1 DEF e
  <2>2. CASE i # Len(s) + 1
    <3>1. i \in 1 .. Len(s)
      BY <1>3, <2>2
    <3> QED BY <1>1, <1>4, <1>5, <3>1
  <2> QED BY <2>1, <2>2
<1>7. NumbersOf(u) = Append(v, e)
  BY <1>4, <1>5, <1>6, SeqEqual
<1> QED BY <1>7 DEF u, v, e

\* What is taken was sent after the queue was made and after all that was taken.
LEMMA RefinesTake ==
  ASSUME QueueInv, Receive
  PROVE  Channel!Take
<1> DEFINE h == Head(queues[Newest])
<1>1. /\ receiver = "receiving" /\ received' = Append(received, h) /\ queues[Newest] # << >>
      /\ sent' = sent /\ before' = before /\ receiver' = receiver
  BY DEF Receive
<1>2. Newest \in 1 .. Newest /\ Newest \in Nat
  BY LenProperties DEF QueueInv, TypeInv, QueuesExist, Receive, Newest
<1>3. queues[Newest] \in Seq(Messages)
  BY <1>2, ElementOfSeq DEF QueueInv, TypeInv, Newest
<1>4. h \in Messages /\ h = queues[Newest][1] /\ 1 \in DOMAIN queues[Newest]
  BY <1>1, <1>3, TailFacts
<1>5. /\ before < h.num /\ h.num <= sent
      /\ \A i \in DOMAIN received : received[i].num < h.num
      /\ before \in Nat /\ sent \in Nat /\ received \in Seq(Messages)
      /\ Rises(received) /\ Between(received, before, sent)
  BY <1>2, <1>4 DEF QueueInv, TypeInv, NumbersRise, Between, Precede
<1> DEFINE n == h.num
           t == NumbersOf(received)
<1>6. n \in Nat
  BY <1>4 DEF Messages, Message
<1>7. NumbersOf(received)' = Append(t, n)
  <2>1. NumbersOf(received') = Append(t, n)
    BY <1>1, <1>4, <1>5, NumbersAppend
  <2>2. NumbersOf(received)' = NumbersOf(received')
    BY DEF NumbersOf
  <2> QED BY <2>1, <2>2
<1> HIDE DEF h
<1>8. /\ Len(t) \in Nat /\ DOMAIN t = 1 .. Len(t)
      /\ \A i \in DOMAIN t : t[i] < n /\ t[i] \in Nat /\ before < t[i]
      /\ \A i, j \in DOMAIN t : i < j => t[i] < t[j]
  <2>1. /\ DOMAIN t = 1 .. Len(received) /\ Len(t) = Len(received) /\ Len(received) \in Nat
        /\ DOMAIN received = 1 .. Len(received)
        /\ \A i \in DOMAIN received : t[i] = received[i].num /\ received[i].num \in Nat
    BY <1>5, NumbersFacts
  <2> HIDE DEF t
  <2> QED BY <1>5, <2>1 DEF Rises, Between
<1> HIDE DEF t, n
<1>9. before < n /\ n <= sent
  BY <1>5 DEF n
<1>10. Len(t) < sent - before
  <2>1. \A i \in DOMAIN t : t[i] \in before + 1 .. n - 1
    BY <1>5, <1>6, <1>8
  <2>2. Len(t) < n - before
    BY <1>5, <1>6, <1>8, <1>9, <2>1, RoomBelow
  <2> QED BY <1>5, <1>6, <1>8, <1>9, <2>2
<1>11. n \in before + 1 .. sent /\ \A i \in DOMAIN t : t[i] < n
  BY <1>5, <1>6, <1>8, <1>9
<1>12. Channel!Take
  <2>1. /\ (receiver = "receiving")
        /\ Len(NumbersOf(received)) < sent - before
        /\ NumbersOf(received)' = Append(NumbersOf(received), n)
        /\ \A i \in DOMAIN NumbersOf(received) : NumbersOf(received)[i] < n
    BY <1>1, <1>7, <1>10, <1>11 DEF t
  <2>2. UNCHANGED <<sent, before, receiver = "receiving">>
    BY <1>1
  <2> QED BY <1>11, <2>1, <2>2, Zenon DEF Channel!Take, NumbersOf
<1> QED BY <1>12

\* Every step of the two programs is one of the channel, or none.
LEMMA RefinesStep == QueueInv /\ [Next]_vars => [Channel!Next]_(Channel!vars)
<1> SUFFICES ASSUME QueueInv, [Next]_vars PROVE Channel!Next \/ UNCHANGED Channel!vars
  OBVIOUS
<1>1. CASE Send
  <2>1. sent' = sent + 1 /\ UNCHANGED <<before, receiver, received>>
    BY <1>1 DEF Send, receiverVars
  <2>2. Channel!Post
    BY <2>1 DEF Channel!Post
  <2> QED BY <2>2 DEF Channel!Next
<1>2. CASE Receive
  BY <1>2, RefinesTake DEF Channel!Next
<1>3. CASE OpenOrCreate
  <2>1. /\ receiver = "removed" /\ receiver' = "receiving"
        /\ before' = sent /\ sent' = sent /\ received' = << >>
    BY <1>3 DEF OpenOrCreate
  <2>2. [i \in DOMAIN received |-> received[i].num]' = << >>
    BY <2>1
  <2>3. Channel!Renew
    BY <2>1, <2>2 DEF Channel!Renew
  <2> QED BY <2>3 DEF Channel!Next
<1>4. CASE ReceiverEnds
  <2>1. receiver' = "down" /\ UNCHANGED <<before, received, sent>>
    BY <1>4 DEF ReceiverEnds
  <2>2. CASE receiver = "receiving"
    <3>1. Channel!Close
      BY <2>1, <2>2 DEF Channel!Close
    <3> QED BY <3>1 DEF Channel!Next
  <2>3. CASE receiver # "receiving"
    BY <2>1, <2>3 DEF Channel!vars
  <2> QED BY <2>2, <2>3
<1>5. CASE RemoveQueue
  <2>1. receiver = "down" /\ receiver' = "removed" /\ UNCHANGED <<before, received, sent>>
    BY <1>5 DEF RemoveQueue
  <2> QED BY <2>1 DEF Channel!vars
<1>6. CASE (\E p \in Pictures : SenderStarts(p)) \/ Wait \/ Open \/ SenderEnds \/ UNCHANGED vars
  <2>1. UNCHANGED <<before, receiver, received, sent>>
    BY <1>6 DEF SenderStarts, Wait, Open, SenderEnds, vars, receiverVars
  <2> QED BY <2>1 DEF Channel!vars
<1> QED BY <1>1, <1>2, <1>3, <1>4, <1>5, <1>6 DEF Next

\* The queues are a channel: whichever senders of which age there are, and
\* whatever queues they still hold, a receiver takes what was sent since it made
\* its own, in the order of the sends and none twice.
THEOREM Refinement == Spec => ImplementsChannel
<1>1. Init => Channel!Init
  <2> SUFFICES ASSUME Init PROVE Channel!Init
    OBVIOUS
  <2>1. [i \in DOMAIN received |-> received[i].num] = << >>
    BY DEF Init
  <2> QED BY <2>1 DEF Init, Channel!Init
<1> QED BY <1>1, RefinesStep, InitQueueInv, NextQueueInv, PTL DEF Spec, ImplementsChannel, Channel!Spec

-----------------------------------------------------------------------------
(* The buffer *)

\* No message that was received is longer than n.
Within(n) == \A i \in DOMAIN received : Len(received[i].data) <= n

\* The buffer of the receiver holds bytes, begins with the message received last,
\* and is as zero as it was behind the longest of all.
BufferInv ==
  /\ received_data \in Seq(Byte)
  /\ receiver = "receiving" \/ received # << >> => Len(received_data) = max_len_message
  /\ received # << >> => Holds(received_data, 1, received[Len(received)].data)
  /\ \A n \in Nat : Within(n) => \A i \in 1 .. Len(received_data) : i > n => received_data[i] = 0

\* A picture no field of which was set is written as no bytes.
LEMMA CtorSerializes == InternalSerialize(SharedCtor) = << >>
<1>1. \A f \in Fields : Written(SharedCtor, f) = << >>
  BY FieldsAre DEF Written, Empty, SharedCtor, Strings
<1>2. SharedCtor.unknown = << >>
  BY DEF SharedCtor
<1>3. << >> \o << >> = << >>
  OBVIOUS
<1>4. OnWire(SharedCtor) = << >>
  <2> DEFINE e == << >>
  <2>1. OnWire(SharedCtor) = e \o e \o e \o e \o e \o e \o e
    <3>1. SharedCtor \in Measurements
      BY CtorFacts
    <3>2. /\ Written(SharedCtor, "name") = e /\ Written(SharedCtor, "width") = e
          /\ Written(SharedCtor, "height") = e /\ Written(SharedCtor, "quality") = e
          /\ Written(SharedCtor, "image") = e /\ Written(SharedCtor, "simtime") = e
          /\ SharedCtor.unknown = e
      BY <1>1, <1>2, FieldsAre
    <3> HIDE DEF e
    <3>3. OnWire(SharedCtor) =
            Written(SharedCtor, "name") \o Written(SharedCtor, "width")
              \o Written(SharedCtor, "height") \o Written(SharedCtor, "quality")
              \o Written(SharedCtor, "image") \o Written(SharedCtor, "simtime")
              \o SharedCtor.unknown
      BY <3>1, OnWireIs
    <3> QED BY <3>2, <3>3, Zenon
  <2>2. e \o e = e
    BY <1>3
  <2> HIDE DEF e
  <2> QED BY <2>1, <2>2, Zenon DEF e
<1> QED BY <1>4, EncodeFacts DEF InternalSerialize

\* A picture, or the one before the first, is a message that fits the buffer.
LEMMA PicturesAreMeasurements ==
  ASSUME NEW p \in Pictures \union {SharedCtor}
  PROVE  p \in Measurements /\ Len(InternalSerialize(p)) <= max_len_message
<1>1. CASE p \in Pictures
  <2>1. << >> \in Seq(UnknownFields)
    BY EmptySeq
  <2>2. p \in Measurements
    BY <1>1, <2>1, PictureAssumption DEF Measurements
  <2>3. Len(InternalSerialize(p)) \in 1 .. max_len_message
    BY <1>1, PictureAssumption
  <2> QED BY <2>2, <2>3, QueueAssumption
<1>2. CASE p = SharedCtor
  BY <1>2, CtorFacts, CtorSerializes, QueueAssumption
<1> QED BY <1>1, <1>2

\* What a message carries.
LEMMA DataFacts ==
  ASSUME NEW m \in Messages
  PROVE  /\ m.picture \in Measurements /\ m.data = InternalSerialize(m.picture)
         /\ m.data \in Seq(Byte) /\ Len(m.data) \in Nat /\ Len(m.data) <= max_len_message
<1>1. m.picture \in Pictures \union {SharedCtor} /\ m.data = InternalSerialize(m.picture)
  BY DEF Messages, Message
<1>2. m.picture \in Measurements /\ Len(InternalSerialize(m.picture)) <= max_len_message
  BY <1>1, PicturesAreMeasurements
<1> QED BY <1>1, <1>2, SerializeFacts, LenProperties

\* Writing over the front of a buffer.
LEMMA OverwrittenFacts ==
  ASSUME NEW buffer \in Seq(Byte), NEW data \in Seq(Byte), Len(data) <= Len(buffer)
  PROVE  LET b == Overwritten(buffer, data)
         IN  /\ b \in Seq(Byte) /\ Len(b) = Len(buffer)
             /\ \A i \in 1 .. Len(buffer) : b[i] = IF i <= Len(data) THEN data[i] ELSE buffer[i]
             /\ Holds(b, 1, data)
<1> DEFINE l == Len(buffer)
           k == Len(data)
           r == SubSeq(buffer, k + 1, l)
           b == data \o r
<1>1. l \in Nat /\ k \in Nat /\ k <= l
  BY LenProperties
<1>2. r \in Seq(Byte) /\ Len(r) = l - k /\ \A i \in 1 .. l - k : r[i] = buffer[i + k]
  <2>1. /\ r \in Seq(Byte)
        /\ Len(r) = IF k + 1 <= l THEN l - (k + 1) + 1 ELSE 0
        /\ \A i \in 1 .. l - (k + 1) + 1 : r[i] = buffer[k + 1 + i - 1]
    <3>1. k + 1 \in 1 .. l + 1 /\ l \in k + 1 - 1 .. l
      BY <1>1
    <3> QED BY <1>1, <3>1, SubSeqProperties
  <2> HIDE DEF r, l, k
  <2>2. l - (k + 1) + 1 = l - k /\ Len(r) = l - k
    BY <1>1, <2>1
  <2>3. ASSUME NEW i \in 1 .. l - k PROVE r[i] = buffer[i + k]
    <3>1. k + 1 + i - 1 = i + k
      BY <1>1
    <3> QED BY <2>1, <2>2, <3>1
  <2> QED BY <2>1, <2>2, <2>3
<1>3. /\ b \in Seq(Byte) /\ Len(b) = k + Len(r)
      /\ \A i \in 1 .. k + Len(r) : b[i] = IF i <= k THEN data[i] ELSE r[i - k]
  <2> HIDE DEF r
  <2> QED BY <1>2, ConcatProperties
<1>4. Overwritten(buffer, data) = b
  BY DEF Overwritten
<1> HIDE DEF b, r, l, k
<1>5. Len(b) = l /\ \A i \in 1 .. l : b[i] = IF i <= k THEN data[i] ELSE buffer[i]
  <2>1. Len(b) = l /\ \A i \in 1 .. l : b[i] = IF i <= k THEN data[i] ELSE r[i - k]
    <3>1. k + Len(r) = l
      BY <1>1, <1>2
    <3> QED BY <1>3, <3>1, Zenon
  <2>2. \A i \in 1 .. l : ~(i <= k) => i - k \in 1 .. l - k /\ (i - k) + k = i
    BY <1>1
  <2> QED BY <1>2, <2>1, <2>2
<1>6. Holds(b, 1, data)
  BY <1>1, <1>5 DEF Holds, k
<1> QED BY <1>3, <1>4, <1>5, <1>6 DEF l, k

\* The invariant holds before anything runs.
LEMMA InitBufferInv == Init => BufferInv
<1> SUFFICES ASSUME Init PROVE BufferInv
  OBVIOUS
<1>1. received_data \in Seq(Byte) /\ Len(received_data) = 0
  BY EmptySeq DEF Init
<1>2. receiver = "down" /\ received = << >>
  BY DEF Init
<1> QED BY <1>1, <1>2 DEF BufferInv

\* A new buffer is zero.
LEMMA NewBuffer == OpenOrCreate => BufferInv'
<1> SUFFICES ASSUME OpenOrCreate PROVE BufferInv'
  OBVIOUS
<1> DEFINE n == max_len_message
           b == [i \in 1 .. n |-> 0]
<1>1. n \in Nat /\ 0 \in Byte
  BY QueueAssumption DEF Byte
<1>2. b \in Seq(Byte) /\ Len(b) = n /\ \A i \in 1 .. n : b[i] = 0
  <2> HIDE DEF n
  <2> QED BY <1>1
<1>3. received_data' = b /\ received' = << >>
  BY DEF OpenOrCreate
<1> HIDE DEF b
<1> QED BY <1>2, <1>3 DEF BufferInv

\* A message is written over the front of the buffer and leaves the rest.
LEMMA ReceiveBuffer == QueueInv /\ BufferInv /\ Receive => BufferInv'
<1> SUFFICES ASSUME QueueInv, BufferInv, Receive PROVE BufferInv'
  OBVIOUS
<1> DEFINE h == Head(queues[Newest])
           d == h.data
           b == received_data
           c == Overwritten(b, d)
           l == Len(received)
<1>1. /\ received_data' = c /\ received' = Append(received, h) /\ queues[Newest] # << >>
      /\ receiver = "receiving" /\ receiver' = receiver
  BY DEF Receive
<1>2. h \in Messages
  <2>1. Newest \in 1 .. Newest
    BY LenProperties DEF QueueInv, TypeInv, QueuesExist, Receive, Newest
  <2>2. queues[Newest] \in Seq(Messages)
    BY <2>1, ElementOfSeq DEF QueueInv, TypeInv, Newest
  <2> QED BY <1>1, <2>2, HeadTailProperties
<1>3. d \in Seq(Byte) /\ Len(d) \in Nat /\ Len(d) <= Len(b) /\ b \in Seq(Byte) /\ Len(b) \in Nat
      /\ Len(b) = max_len_message
  <2> HIDE DEF h
  <2> QED BY <1>1, <1>2, DataFacts, LenProperties DEF BufferInv
<1>4. /\ c \in Seq(Byte) /\ Len(c) = Len(b) /\ Holds(c, 1, d)
      /\ \A i \in 1 .. Len(b) : c[i] = IF i <= Len(d) THEN d[i] ELSE b[i]
  <2> HIDE DEF d, b
  <2> QED BY <1>3, OverwrittenFacts
<1>5. /\ received \in Seq(Messages) /\ l \in Nat /\ DOMAIN received = 1 .. l
      /\ received' \in Seq(Messages) /\ Len(received') = l + 1
      /\ \A i \in 1 .. l : received'[i] = received[i]
      /\ received'[l + 1] = h
      /\ DOMAIN received' = 1 .. l + 1
  <2>1. received \in Seq(Messages)
    BY DEF QueueInv, TypeInv
  <2> HIDE DEF h
  <2> QED BY <1>1, <1>2, <2>1, AppendProperties, LenProperties
<1> HIDE DEF h, b, c, l
<1>6. \A n \in Nat : Within(n)' => Within(n) /\ Len(d) <= n
  <2> SUFFICES ASSUME NEW n \in Nat, Within(n)' PROVE Within(n) /\ Len(d) <= n
    OBVIOUS
  <2>1. \A i \in 1 .. l + 1 : Len(received'[i].data) <= n
    BY <1>5 DEF Within
  <2>2. l + 1 \in 1 .. l + 1 /\ \A i \in 1 .. l : i \in 1 .. l + 1
    BY <1>5
  <2> QED BY <1>5, <2>1, <2>2 DEF Within
<1>7. ASSUME NEW n \in Nat, Within(n)', NEW i \in 1 .. Len(b), i > n PROVE c[i] = 0
  <2>1. Within(n) /\ Len(d) <= n
    BY <1>6, <1>7
  <2>2. b[i] = 0
    BY <1>7, <2>1 DEF BufferInv, b
  <2>3. ~(i <= Len(d))
    BY <1>3, <1>7, <2>1
  <2> QED BY <1>4, <2>2, <2>3
<1>8. received'[Len(received')].data = d
  BY <1>5
<1> HIDE DEF d
<1>9. /\ received_data' \in Seq(Byte) /\ Len(received_data') = max_len_message
      /\ Holds(received_data', 1, received'[Len(received')].data)
      /\ \A n \in Nat : Within(n)' =>
           \A i \in 1 .. Len(received_data') : i > n => received_data'[i] = 0
  BY <1>1, <1>3, <1>4, <1>7, <1>8
<1> QED BY <1>9 DEF BufferInv

\* Every step keeps the invariant.
LEMMA NextBufferInv == QueueInv /\ BufferInv /\ [Next]_vars => BufferInv'
<1> SUFFICES ASSUME QueueInv, BufferInv, [Next]_vars PROVE BufferInv'
  OBVIOUS
<1>1. ASSUME UNCHANGED <<received_data, received>>,
             receiver' = "receiving" => receiver = "receiving"
      PROVE  BufferInv'
  BY <1>1 DEF BufferInv, Within
<1>2. CASE OpenOrCreate
  BY <1>2, NewBuffer
<1>3. CASE Receive
  BY <1>3, ReceiveBuffer
<1>4. CASE (\E p \in Pictures : SenderStarts(p)) \/ Wait \/ Open \/ Send \/ SenderEnds
  BY <1>1, <1>4 DEF SenderStarts, Wait, Open, Send, SenderEnds, receiverVars
<1>5. CASE RemoveQueue \/ ReceiverEnds \/ UNCHANGED vars
  BY <1>1, <1>5 DEF RemoveQueue, ReceiverEnds, vars, receiverVars
<1> QED BY <1>2, <1>3, <1>4, <1>5 DEF Next

\* What the receiver shows, where no earlier message was longer.
LEMMA LastIsShown ==
  ASSUME QueueInv, BufferInv, received # << >>,
         Within(Len(received[Len(received)].data))
  PROVE  recv_pic = received[Len(received)].picture
<1> DEFINE m == received[Len(received)]
           d == m.data
           b == received_data
           k == Len(d)
           l == Len(b)
           z == SubSeq(b, k + 1, l)
<1>1. m \in Messages
  <2>1. received \in Seq(Messages) /\ Len(received) \in Nat /\ Len(received) # 0
    BY LenProperties, EmptySeq DEF QueueInv, TypeInv
  <2> QED BY <2>1, ElementOfSeq
<1>2. /\ m.picture \in Measurements /\ d = InternalSerialize(m.picture)
      /\ d \in Seq(Byte) /\ k \in Nat
  <2> HIDE DEF m
  <2> QED BY <1>1, DataFacts
<1>3. /\ b \in Seq(Byte) /\ l \in Nat /\ Holds(b, 1, d)
      /\ \A i \in 1 .. l : i > k => b[i] = 0
  BY <1>2, LenProperties DEF BufferInv
<1> HIDE DEF m, d, b
<1>4. k <= l /\ \A i \in 1 .. k : b[i] = d[i]
  BY <1>2, <1>3 DEF Holds
<1>5. z \in Seq(Byte) /\ Len(z) = l - k /\ \A i \in 1 .. l - k : z[i] = b[i + k]
  <2>1. /\ z \in Seq(Byte)
        /\ Len(z) = IF k + 1 <= l THEN l - (k + 1) + 1 ELSE 0
        /\ \A i \in 1 .. l - (k + 1) + 1 : z[i] = b[k + 1 + i - 1]
    <3>1. k + 1 \in 1 .. l + 1 /\ l \in k + 1 - 1 .. l
      BY <1>2, <1>3, <1>4
    <3> QED BY <1>3, <3>1, SubSeqProperties
  <2> HIDE DEF z, k, l
  <2> QED BY <1>2, <1>3, <1>4, <2>1
<1> HIDE DEF z, k, l
<1>6. Zeros(z)
  BY <1>2, <1>3, <1>5 DEF Zeros
<1>7. d \o z = b
  <2>1. Len(d) + Len(z) = l
    BY <1>2, <1>3, <1>4, <1>5 DEF k
  <2>2. \A i \in 1 .. l : b[i] = IF i <= Len(d) THEN d[i] ELSE z[i - Len(d)]
    <3>1. \A i \in 1 .. l : ~(i <= k) => i - k \in 1 .. l - k /\ (i - k) + k = i
      BY <1>2, <1>3, <1>4
    <3>2. \A i \in 1 .. l : i <= k => i \in 1 .. k
      BY <1>2, <1>3
    <3>3. \A i \in 1 .. l : ~(i <= k) => b[i] = z[i - k]
      BY <1>5, <3>1
    <3> QED BY <1>4, <3>2, <3>3 DEF k
  <2> QED BY <1>2, <1>3, <1>5, <2>1, <2>2, IsConcat DEF l
<1> DEFINE p == m.picture
<1>8. p \in Measurements /\ InternalSerialize(p) \o z = b
  BY <1>2, <1>7
<1> HIDE DEF p
<1>9. ParseFromString(SharedCtor, b) = [msg |-> p, ok |-> z = << >>]
  <2> HIDE DEF Zeros
  <2>1. ParseFromString(SharedCtor, InternalSerialize(p) \o z) = [msg |-> p, ok |-> z = << >>]
    BY <1>5, <1>6, <1>8, ParsedBack
  <2> QED BY <1>8, <2>1
<1>10. ParseFromString(SharedCtor, b).msg = p
  BY <1>9
<1> QED BY <1>10 DEF recv_pic, b, p, m

\* The receiver shows the picture that was sent, whatever it received before, when
\* no earlier message was longer: it parses the whole buffer, in which zeros follow
\* the message and end the parse.
THEOREM ShowsWhatWasSent == Spec => []ShownIsSent
<1>1. QueueInv /\ BufferInv => ShownIsSent
  <2> SUFFICES ASSUME QueueInv, BufferInv, NEW i \in {Len(received)} \ {0},
                      \A j \in DOMAIN received : Len(received[j].data) <= Len(received[i].data)
               PROVE  recv_pic = received[i].picture
    BY DEF ShownIsSent
  <2>1. i = Len(received) /\ received # << >>
    BY EmptySeq
  <2> QED BY <2>1, LastIsShown DEF Within
<1> QED BY <1>1, InitQueueInv, NextQueueInv, InitBufferInv, NextBufferInv, PTL DEF Spec

\* The sender's picture and the one shown follow the laws of the generated class:
\* parsing the bytes of two messages merges them, ByteSizeLong announces what is
\* written, and copying, swapping and moving lose no field.
THEOREM LawsHold == Spec => []PictureLaws
<1>1. QueueInv /\ BufferInv => PictureLaws
  <2> SUFFICES ASSUME QueueInv, BufferInv, NEW a \in {picture, recv_pic}, NEW b \in {picture, recv_pic}
               PROVE  /\ ParseFromString(a, InternalSerialize(a) \o InternalSerialize(b))
                           = [msg |-> MergeFrom(a, b), ok |-> TRUE]
                      /\ ByteSizeLong(a) = Len(InternalSerialize(a))
                      /\ CopyFrom(a, b) = b /\ CopyConstructor(b) = b
                      /\ Swap(a, b) = <<b, a>> /\ MoveConstructor(a) = <<a, SharedCtor>>
    BY Zenon DEF PictureLaws
  <2>1. picture \in Measurements
    BY PicturesAreMeasurements DEF QueueInv, TypeInv
  <2>2. recv_pic \in Measurements
    BY ParsedType DEF BufferInv, recv_pic
  <2>3. a \in Measurements /\ b \in Measurements
    BY <2>1, <2>2
  <2> QED BY <2>3, ClassLaws
<1> QED BY <1>1, InitQueueInv, NextQueueInv, InitBufferInv, NextBufferInv, PTL DEF Spec

-----------------------------------------------------------------------------
(* Persons *)

\* The library as the file transfer has it is the one of this module.
LEMMA SameLibrary ==
  /\ \A bytes : tutorial!Decode(bytes) = Decode(bytes)
  /\ \A F : tutorial!Encode(F) = Encode(F) /\ tutorial!EncodedLength(F) = EncodedLength(F)
  /\ \A s : tutorial!FlattenSeq(s) = FlattenSeq(s)
  /\ \A n, t, v : tutorial!Field(n, t, v) = Field(n, t, v)
  /\ tutorial!Byte = Byte /\ tutorial!VarintType = VarintType /\ tutorial!LengthType = LengthType
<1>1. ASSUME NEW bytes PROVE tutorial!Decode(bytes) = Decode(bytes)
  BY Zenon DEF tutorial!Decode, Decode, tutorial!Position, Position, tutorial!ReadField, ReadField,
    tutorial!Readable, Readable, tutorial!ReadVarint, ReadVarint, tutorial!At, At, tutorial!Take, Take,
    tutorial!Field, Field, tutorial!VarintType, VarintType, tutorial!LengthType, LengthType,
    tutorial!Fixed64Type, Fixed64Type, tutorial!Fixed32Type, Fixed32Type
<1>2. ASSUME NEW F PROVE tutorial!Encode(F) = Encode(F)
  BY Zenon DEF tutorial!Encode, Encode, tutorial!EncodeField, EncodeField, tutorial!Varint, Varint,
    tutorial!FlattenSeq, FlattenSeq, tutorial!VarintType, VarintType, tutorial!LengthType, LengthType
<1>3. ASSUME NEW F PROVE tutorial!EncodedLength(F) = EncodedLength(F)
  BY Zenon DEF tutorial!EncodedLength, EncodedLength, tutorial!FoldLeft, FoldLeft,
    tutorial!MapThenFoldSet, MapThenFoldSet, tutorial!Max, Max, tutorial!EncodedSize, EncodedSize,
    tutorial!VarintSize, VarintSize, tutorial!VarintType, VarintType, tutorial!LengthType, LengthType
<1>4. \A s : tutorial!FlattenSeq(s) = FlattenSeq(s)
  BY Zenon DEF tutorial!FlattenSeq, FlattenSeq
<1>5. \A n, t, v : tutorial!Field(n, t, v) = Field(n, t, v)
  BY Zenon DEF tutorial!Field, Field
<1>6. tutorial!Byte = Byte /\ tutorial!VarintType = VarintType /\ tutorial!LengthType = LengthType
  BY DEF tutorial!Byte, Byte, tutorial!VarintType, VarintType, tutorial!LengthType, LengthType
<1> QED BY <1>1, <1>2, <1>3, <1>4, <1>5, <1>6

\* Fields that a person keeps as unknown, and a person no bit of which is wrong.
PersonHas(read) ==
  \E f \in tutorial!Fields : tutorial!FieldNumber[f] = read.number /\ tutorial!Type(f) = read.type
OtherFields == {r \in WireFields : ~PersonHas(r)}
PersonRecords ==
  [name : Seq(Byte), id : Nat, email : Seq(Byte), has : SUBSET tutorial!Fields,
   unknown : Seq(OtherFields)]
Persons == {p \in PersonRecords : \A f \in tutorial!Fields \ p.has : p[f] = tutorial!Empty(f)}

\* A person by its members, and by its fields.
PersonOf(name, id, email, has, unknown) ==
  [name |-> name, id |-> id, email |-> email, has |-> has, unknown |-> unknown]
FieldValues(f) == IF f \in tutorial!Strings THEN Seq(Byte) ELSE Nat

\* The fields of Person and their numbers.
LEMMA PersonFields ==
  /\ tutorial!Fields = {"name", "id", "email"}
  /\ tutorial!FieldNumber["name"] = 1 /\ tutorial!FieldNumber["id"] = 2
  /\ tutorial!FieldNumber["email"] = 3
  /\ tutorial!Strings = {"name", "email"}
BY DEF tutorial!Fields, tutorial!FieldNumber, tutorial!Strings

\* The number tells the field, and the type of the field its values.
LEMMA PersonNumbers ==
  /\ \A f, g \in tutorial!Fields : tutorial!FieldNumber[f] = tutorial!FieldNumber[g] => f = g
  /\ \A f \in tutorial!Fields :
       /\ tutorial!FieldNumber[f] \in Position /\ tutorial!Type(f) \in WireTypes
       /\ ValuesOf(tutorial!Type(f)) = FieldValues(f)
       /\ tutorial!Empty(f) \in FieldValues(f)
<1>1. \A f, g \in tutorial!Fields : tutorial!FieldNumber[f] = tutorial!FieldNumber[g] => f = g
  BY PersonFields
<1>2. \A f \in tutorial!Fields : tutorial!FieldNumber[f] \in Position
  BY PersonFields DEF Position
<1>3. \A f \in tutorial!Fields : tutorial!Type(f) \in WireTypes
  BY SameLibrary DEF tutorial!Type, WireTypes
<1>4. \A f \in tutorial!Fields : ValuesOf(tutorial!Type(f)) = FieldValues(f)
  BY SameLibrary, WireTypeFacts DEF tutorial!Type, FieldValues
<1>5. \A f \in tutorial!Fields : tutorial!Empty(f) \in FieldValues(f)
  BY EmptySeq DEF tutorial!Empty, FieldValues
<1> QED BY <1>1, <1>2, <1>3, <1>4, <1>5

\* What the members of a person are.
LEMMA PersonMembers ==
  ASSUME NEW p \in Persons
  PROVE  /\ p["name"] \in Seq(Byte) /\ p["id"] \in Nat /\ p["email"] \in Seq(Byte)
         /\ p["has"] \in SUBSET tutorial!Fields /\ p["unknown"] \in Seq(OtherFields)
         /\ p = PersonOf(p["name"], p["id"], p["email"], p["has"], p["unknown"])
         /\ \A f \in tutorial!Fields : f \notin p["has"] => p[f] = tutorial!Empty(f)
         /\ \A f \in tutorial!Fields : p[f] \in FieldValues(f)
<1>1. p \in PersonRecords /\ \A f \in tutorial!Fields \ p.has : p[f] = tutorial!Empty(f)
  BY DEF Persons
<1>2. /\ p["name"] \in Seq(Byte) /\ p["id"] \in Nat /\ p["email"] \in Seq(Byte)
      /\ p["has"] \in SUBSET tutorial!Fields /\ p["unknown"] \in Seq(OtherFields)
      /\ p = PersonOf(p["name"], p["id"], p["email"], p["has"], p["unknown"])
  BY <1>1 DEF PersonRecords, PersonOf
<1>3. \A f \in tutorial!Fields : p[f] \in FieldValues(f)
  BY <1>2, PersonFields DEF FieldValues
<1> QED BY <1>1, <1>2, <1>3

\* Members that make a person.
LEMMA IsPerson ==
  ASSUME NEW name \in Seq(Byte), NEW id \in Nat, NEW email \in Seq(Byte),
         NEW has \in SUBSET tutorial!Fields, NEW unknown \in Seq(OtherFields),
         "name" \notin has => name = tutorial!Empty("name"),
         "id" \notin has => id = tutorial!Empty("id"),
         "email" \notin has => email = tutorial!Empty("email")
  PROVE  PersonOf(name, id, email, has, unknown) \in Persons
<1> DEFINE p == PersonOf(name, id, email, has, unknown)
<1>1. p \in PersonRecords /\ p["name"] = name /\ p["id"] = id /\ p["email"] = email /\ p["has"] = has
  BY DEF PersonOf, PersonRecords
<1> HIDE DEF p
<1>2. \A f \in tutorial!Fields \ p.has : p[f] = tutorial!Empty(f)
  BY <1>1, PersonFields
<1> QED BY <1>1, <1>2 DEF Persons, p

\* The default person, which Clear restores.
LEMMA PersonCtor ==
  /\ tutorial!SharedCtor \in Persons
  /\ \A f \in tutorial!Fields : tutorial!SharedCtor[f] = tutorial!Empty(f)
  /\ tutorial!SharedCtor["has"] = {} /\ tutorial!SharedCtor["unknown"] = << >>
  /\ \A p \in Persons : tutorial!Clear(p) = tutorial!SharedCtor
<1>1. /\ tutorial!SharedCtor = PersonOf(<< >>, 0, << >>, {}, << >>)
      /\ tutorial!Empty("name") = << >> /\ tutorial!Empty("id") = 0 /\ tutorial!Empty("email") = << >>
      /\ << >> \in Seq(Byte) /\ << >> \in Seq(OtherFields)
  BY EmptySeq, PersonFields DEF tutorial!SharedCtor, tutorial!Empty, PersonOf
<1>2. tutorial!SharedCtor \in Persons
  <2> DEFINE e == << >>
             h == {}
             z == 0
  <2>1. /\ e \in Seq(Byte) /\ e \in Seq(OtherFields) /\ h \in SUBSET tutorial!Fields /\ z \in Nat
        /\ tutorial!SharedCtor = PersonOf(e, z, e, h, e)
        /\ tutorial!Empty("name") = e /\ tutorial!Empty("id") = z /\ tutorial!Empty("email") = e
    BY <1>1
  <2> HIDE DEF e, h, z
  <2>2. PersonOf(e, z, e, h, e) \in Persons
    BY <2>1, IsPerson
  <2> QED BY <2>1, <2>2
<1>3. /\ \A f \in tutorial!Fields : tutorial!SharedCtor[f] = tutorial!Empty(f)
      /\ tutorial!SharedCtor["has"] = {} /\ tutorial!SharedCtor["unknown"] = << >>
  BY <1>1, PersonFields DEF PersonOf
<1>4. ASSUME NEW p \in Persons PROVE tutorial!Clear(p) = tutorial!SharedCtor
  <2> DEFINE e(f) == IF f \in tutorial!Strings \ p.has THEN p[f] ELSE tutorial!SharedCtor[f]
  <2>1. tutorial!Clear(p) = [f \in DOMAIN p |-> e(f)]
    BY Zenon DEF tutorial!Clear
  <2>2. DOMAIN p = {"name", "id", "email", "has", "unknown"}
    BY PersonMembers DEF PersonOf
  <2>3. \A f \in DOMAIN p : e(f) = tutorial!SharedCtor[f]
    BY <1>3, PersonMembers, PersonFields
  <2> HIDE DEF e
  <2>4. tutorial!Clear(p) = [f \in {"name", "id", "email", "has", "unknown"} |-> tutorial!SharedCtor[f]]
    BY <2>1, <2>2, <2>3
  <2>5. tutorial!SharedCtor = [f \in {"name", "id", "email", "has", "unknown"} |-> tutorial!SharedCtor[f]]
    BY DEF tutorial!SharedCtor
  <2> QED BY <2>4, <2>5
<1> QED BY <1>2, <1>3, <1>4

\* A field of two persons that are merged.
LaterOf(p, from, f) == IF f \in from["has"] THEN from[f] ELSE p[f]

\* MergeFrom, member by member.
LEMMA PersonMergeIs ==
  ASSUME NEW p \in Persons, NEW from \in Persons
  PROVE  /\ tutorial!MergeFrom(p, from) =
              PersonOf(LaterOf(p, from, "name"), LaterOf(p, from, "id"), LaterOf(p, from, "email"),
                       p["has"] \union from["has"], p["unknown"] \o from["unknown"])
         /\ tutorial!MergeFrom(p, from) \in Persons
<1> DEFINE e(f) == CASE f = "unknown" -> p[f] \o from[f]
                     [] f = "has" -> p[f] \union from[f]
                     [] OTHER -> IF f \in from.has THEN from[f] ELSE p[f]
           u == p["unknown"] \o from["unknown"]
           h == p["has"] \union from["has"]
<1>1. tutorial!MergeFrom(p, from) = [f \in DOMAIN p |-> e(f)]
  BY Zenon DEF tutorial!MergeFrom
<1>2. DOMAIN p = {"name", "id", "email", "has", "unknown"}
  BY PersonMembers DEF PersonOf
<1>3. \A f \in tutorial!Fields : e(f) = LaterOf(p, from, f)
  BY PersonFields DEF LaterOf
<1>4. e("unknown") = u /\ e("has") = h
  OBVIOUS
<1> HIDE DEF e
<1>5. tutorial!MergeFrom(p, from) = PersonOf(e("name"), e("id"), e("email"), e("has"), e("unknown"))
  BY <1>1, <1>2 DEF PersonOf
<1>6. u \in Seq(OtherFields) /\ h \in SUBSET tutorial!Fields
  BY PersonMembers, ConcatProperties
<1>7. tutorial!MergeFrom(p, from) =
        PersonOf(LaterOf(p, from, "name"), LaterOf(p, from, "id"), LaterOf(p, from, "email"), h, u)
  BY <1>3, <1>4, <1>5, PersonFields
<1>8. \A f \in tutorial!Fields : /\ LaterOf(p, from, f) \in FieldValues(f)
                                 /\ f \notin h => LaterOf(p, from, f) = tutorial!Empty(f)
  BY PersonMembers DEF LaterOf
<1> HIDE DEF h, u
<1>9. FieldValues("name") = Seq(Byte) /\ FieldValues("id") = Nat /\ FieldValues("email") = Seq(Byte)
  BY PersonFields DEF FieldValues
<1>10. PersonOf(LaterOf(p, from, "name"), LaterOf(p, from, "id"), LaterOf(p, from, "email"), h, u)
         \in Persons
  BY <1>6, <1>8, <1>9, PersonFields, IsPerson
<1> QED BY <1>7, <1>10, Zenon DEF h, u

\* Merging into the default person copies; the copy constructor and Swap take every member.
LEMMA PersonCopies ==
  ASSUME NEW a \in Persons, NEW b \in Persons
  PROVE  /\ tutorial!MergeFrom(tutorial!SharedCtor, b) = b
         /\ tutorial!CopyConstructor(b) = b
         /\ tutorial!Swap(a, b) = <<b, a>>
<1>1. tutorial!MergeFrom(tutorial!SharedCtor, b) = b
  <2> DEFINE c == tutorial!SharedCtor
  <2>1. c \in Persons /\ \A f \in tutorial!Fields : LaterOf(c, b, f) = b[f]
    BY PersonCtor, PersonMembers DEF LaterOf
  <2>2. c["has"] \union b["has"] = b["has"]
    BY PersonCtor
  <2>3. c["unknown"] \o b["unknown"] = b["unknown"]
    BY PersonCtor, PersonMembers, ConcatEmptySeq
  <2> HIDE DEF c
  <2>4. tutorial!MergeFrom(c, b) = PersonOf(b["name"], b["id"], b["email"], b["has"], b["unknown"])
    BY <2>1, <2>2, <2>3, PersonMergeIs, PersonFields
  <2> QED BY <2>4, PersonMembers DEF c
<1>2. tutorial!CopyConstructor(b) = b
  <2> DEFINE e(f) == IF f \in tutorial!Strings \ b.has THEN << >> ELSE b[f]
  <2>1. tutorial!CopyConstructor(b) = [f \in DOMAIN b |-> e(f)]
    BY Zenon DEF tutorial!CopyConstructor
  <2>2. \A f \in DOMAIN b : e(f) = b[f]
    BY PersonMembers, PersonFields DEF tutorial!Empty
  <2> HIDE DEF e
  <2>3. b = [f \in DOMAIN b |-> b[f]]
    BY PersonMembers DEF PersonOf
  <2> QED BY <2>1, <2>2, <2>3
<1>3. tutorial!Swap(a, b) = <<b, a>>
  <2>1. /\ a = PersonOf(a["name"], a["id"], a["email"], a["has"], a["unknown"])
        /\ b = PersonOf(b["name"], b["id"], b["email"], b["has"], b["unknown"])
    BY PersonMembers
  <2> QED BY <2>1 DEF tutorial!Swap, tutorial!InternalSwap, PersonOf
<1> QED BY <1>1, <1>2, <1>3

\* A person with one field set.
WithField(p, f, v) == [p EXCEPT ![f] = v, !.has = p["has"] \union {f}]

\* A setter changes its field and sets its bit.
LEMMA WithFieldFacts ==
  ASSUME NEW p \in Persons, NEW f \in tutorial!Fields, NEW v \in FieldValues(f)
  PROVE  /\ WithField(p, f, v) \in Persons
         /\ WithField(p, f, v)[f] = v
         /\ WithField(p, f, v)["has"] = p["has"] \union {f}
         /\ WithField(p, f, v)["unknown"] = p["unknown"]
         /\ \A g \in tutorial!Fields : g # f => WithField(p, f, v)[g] = p[g]
<1> DEFINE q == WithField(p, f, v)
           h == p["has"] \union {f}
<1>1. p = PersonOf(p["name"], p["id"], p["email"], p["has"], p["unknown"])
  BY PersonMembers
<1>2. h \in SUBSET tutorial!Fields
  BY PersonMembers
<1>3. q = [p EXCEPT ![f] = v, !.has = h]
  BY DEF WithField
<1> HIDE DEF q
<1>4. /\ q[f] = v /\ q["has"] = h /\ q["unknown"] = p["unknown"]
      /\ \A g \in tutorial!Fields : g # f => q[g] = p[g]
      /\ q = PersonOf(q["name"], q["id"], q["email"], h, p["unknown"])
  <2> HIDE DEF h
  <2> QED BY <1>1, <1>3, PersonFields DEF PersonOf
<1>5. \A g \in tutorial!Fields : q[g] \in FieldValues(g) /\ (g \notin h => q[g] = tutorial!Empty(g))
  BY <1>4, PersonMembers
<1> HIDE DEF h
<1>6. FieldValues("name") = Seq(Byte) /\ FieldValues("id") = Nat /\ FieldValues("email") = Seq(Byte)
  BY PersonFields DEF FieldValues
<1>7. p["unknown"] \in Seq(OtherFields)
  BY PersonMembers
<1> DEFINE a == q["name"]
           b == q["id"]
           c == q["email"]
           u == p["unknown"]
<1>8. /\ a \in Seq(Byte) /\ b \in Nat /\ c \in Seq(Byte) /\ u \in Seq(OtherFields)
      /\ "name" \notin h => a = tutorial!Empty("name")
      /\ "id" \notin h => b = tutorial!Empty("id")
      /\ "email" \notin h => c = tutorial!Empty("email")
      /\ q = PersonOf(a, b, c, h, u)
  BY <1>4, <1>5, <1>6, <1>7, PersonFields
<1> HIDE DEF a, b, c, u
<1>9. PersonOf(a, b, c, h, u) \in Persons
  BY <1>2, <1>8, IsPerson
<1> QED BY <1>4, <1>8, <1>9 DEF q, h

\* A person with other unknown fields.
LEMMA WithUnknownFacts ==
  ASSUME NEW p \in Persons, NEW u \in Seq(OtherFields)
  PROVE  /\ [p EXCEPT !.unknown = u] \in Persons
         /\ [p EXCEPT !.unknown = u]["unknown"] = u
         /\ [p EXCEPT !.unknown = u] = PersonOf(p["name"], p["id"], p["email"], p["has"], u)
<1>1. p = PersonOf(p["name"], p["id"], p["email"], p["has"], p["unknown"])
  BY PersonMembers
<1>2. /\ [p EXCEPT !.unknown = u] = PersonOf(p["name"], p["id"], p["email"], p["has"], u)
      /\ [p EXCEPT !.unknown = u]["unknown"] = u
  BY <1>1 DEF PersonOf
<1> DEFINE a == p["name"]
           b == p["id"]
           c == p["email"]
           h == p["has"]
<1>3. /\ a \in Seq(Byte) /\ b \in Nat /\ c \in Seq(Byte) /\ h \in SUBSET tutorial!Fields
      /\ "name" \notin h => a = tutorial!Empty("name")
      /\ "id" \notin h => b = tutorial!Empty("id")
      /\ "email" \notin h => c = tutorial!Empty("email")
  BY PersonMembers, PersonFields
<1>4. PersonOf(a, b, c, h, u) \in Persons
  <2> HIDE DEF a, b, c, h
  <2> QED BY <1>3, IsPerson
<1> QED BY <1>2, <1>4

\* What a field that is read does to a person.
LEMMA PersonStored ==
  ASSUME NEW p \in Persons
  PROVE  /\ \A r \in WireFields : tutorial!Stored(p, r) \in Persons
         /\ \A r \in OtherFields :
              tutorial!Stored(p, r) = [p EXCEPT !.unknown = Append(p["unknown"], r)]
         /\ \A f \in tutorial!Fields : \A v \in FieldValues(f) :
              tutorial!Stored(p, Field(tutorial!FieldNumber[f], tutorial!Type(f), v)) = WithField(p, f, v)
<1>1. ASSUME NEW r \in OtherFields
      PROVE  /\ tutorial!Stored(p, r) = [p EXCEPT !.unknown = Append(p["unknown"], r)]
             /\ tutorial!Stored(p, r) \in Persons
  <2>1. tutorial!Stored(p, r) = [p EXCEPT !.unknown = Append(p["unknown"], r)]
    BY DEF tutorial!Stored, OtherFields, PersonHas
  <2> DEFINE u == Append(p["unknown"], r)
  <2>2. u \in Seq(OtherFields)
    BY PersonMembers, AppendProperties
  <2> HIDE DEF u
  <2>3. [p EXCEPT !.unknown = u] \in Persons
    BY <2>2, WithUnknownFacts
  <2> QED BY <2>1, <2>3 DEF u
<1>2. ASSUME NEW r \in WireFields, NEW f \in tutorial!Fields,
             tutorial!FieldNumber[f] = r.number, tutorial!Type(f) = r.type
      PROVE  tutorial!Stored(p, r) = WithField(p, f, r.value) /\ tutorial!Stored(p, r) \in Persons
  <2>1. (CHOOSE g \in tutorial!Fields : tutorial!FieldNumber[g] = r.number) = f
    BY <1>2, PersonNumbers
  <2>2. tutorial!Stored(p, r) = [p EXCEPT ![f] = r.value, !.has = @ \union {f}]
    BY <1>2, <2>1, Zenon DEF tutorial!Stored
  <2>3. r.value \in FieldValues(f)
    BY <1>2, PersonNumbers DEF WireFields
  <2>4. p.has = p["has"] /\ f # "has"
    BY PersonFields
  <2> DEFINE v == r.value
  <2>5. tutorial!Stored(p, r) = WithField(p, f, v)
    <3> HIDE DEF v
    <3>1. [p EXCEPT ![f] = v, !.has = @ \union {f}] = [p EXCEPT ![f] = v, !.has = p["has"] \union {f}]
      BY <2>4
    <3> QED BY <2>2, <3>1 DEF WithField, v
  <2>6. v \in FieldValues(f)
    BY <2>3
  <2> HIDE DEF v
  <2>7. WithField(p, f, v) \in Persons
    BY <2>6, WithFieldFacts
  <2> QED BY <2>5, <2>7 DEF v
<1>3. ASSUME NEW r \in WireFields PROVE tutorial!Stored(p, r) \in Persons
  <2>1. CASE PersonHas(r)
    BY <1>2, <2>1 DEF PersonHas
  <2>2. CASE ~PersonHas(r)
    BY <1>1, <2>2 DEF OtherFields
  <2> QED BY <2>1, <2>2
<1>4. ASSUME NEW f \in tutorial!Fields, NEW v \in FieldValues(f)
      PROVE  tutorial!Stored(p, Field(tutorial!FieldNumber[f], tutorial!Type(f), v)) = WithField(p, f, v)
  <2> DEFINE r == Field(tutorial!FieldNumber[f], tutorial!Type(f), v)
  <2>1. r \in WireFields /\ r.number = tutorial!FieldNumber[f] /\ r.type = tutorial!Type(f) /\ r.value = v
    BY PersonNumbers, FieldIsField
  <2> HIDE DEF r
  <2> QED BY <1>2, <2>1 DEF r
<1> QED BY <1>1, <1>3, <1>4

StoringPerson == [p \in Persons |-> [r \in WireFields |-> tutorial!Stored(p, r)]]
AfterReading(p, F) == Folded(Persons, p, StoringPerson, F)

\* What a list of fields does to a person is a fold.
LEMMA PersonFolds ==
  ASSUME NEW p \in Persons, NEW F \in Seq(WireFields)
  PROVE  /\ tutorial!FoldLeft(tutorial!Stored, p, F) = AfterReading(p, F)
         /\ Foldable(Persons, WireFields, p, StoringPerson)
<1> DEFINE IsResult(f) == f = [s \in SUBSET DOMAIN F |->
                             IF s = {} THEN p ELSE tutorial!Stored(f[s \ {Max(s)}], F[Max(s)])]
           result == CHOOSE f : IsResult(f)
           D == SUBSET DOMAIN F
<1>1. tutorial!FoldLeft(tutorial!Stored, p, F) = result[DOMAIN F]
  BY Zenon DEF tutorial!FoldLeft, tutorial!MapThenFoldSet, tutorial!Max, Max
<1>2. \A v \in Persons, r \in WireFields :
        StoringPerson[v][r] = tutorial!Stored(v, r) /\ tutorial!Stored(v, r) \in Persons
  BY PersonStored DEF StoringPerson
<1>3. Foldable(Persons, WireFields, p, StoringPerson)
  BY PersonStored DEF Foldable, StoringPerson
<1>4. \A s \in D : s # {} => F[Max(s)] \in WireFields /\ s \ {Max(s)} \in D
  <2>1. Len(F) \in Nat /\ DOMAIN F = 1 .. Len(F) /\ \A i \in 1 .. Len(F) : F[i] \in WireFields
    BY LenProperties, ElementOfSeq
  <2> QED BY <2>1, MaxFacts
<1>5. IsResult(result)
  <2>1. PICK f : Iteration(Persons, p, StoringPerson, F, f)
    BY <1>3, IterationExists
  <2>2. ASSUME NEW s \in D
        PROVE  f[s] = IF s = {} THEN p ELSE tutorial!Stored(f[s \ {Max(s)}], F[Max(s)])
    <3> HIDE DEF D
    <3>0. /\ f \in [D -> Persons]
          /\ f[s] = IF s = {} THEN p ELSE StoringPerson[f[s \ {Max(s)}]][F[Max(s)]]
      BY <2>1 DEF Iteration, D
    <3>1. CASE s = {}
      BY <3>0, <3>1
    <3>2. CASE s # {}
      <4> DEFINE v == f[s \ {Max(s)}]
                 r == F[Max(s)]
      <4>1. v \in Persons /\ r \in WireFields /\ f[s] = StoringPerson[v][r]
        BY <1>4, <3>0, <3>2
      <4> HIDE DEF v, r
      <4>2. f[s] = tutorial!Stored(v, r)
        BY <1>2, <4>1
      <4> QED BY <3>2, <4>2 DEF v, r
    <3> QED BY <3>1, <3>2
  <2>3. IsResult(f)
    <3> DEFINE e(s) == IF s = {} THEN p ELSE tutorial!Stored(f[s \ {Max(s)}], F[Max(s)])
    <3>1. \A s \in D : f[s] = e(s)
      BY <2>2
    <3> HIDE DEF e
    <3>2. f = [s \in D |-> e(s)]
      BY <2>1, <3>1 DEF Iteration
    <3> QED BY <3>2, Zenon DEF e
  <2> HIDE DEF IsResult
  <2> QED BY <2>3, Zenon
<1> HIDE DEF result
<1>6. ASSUME NEW s \in D
      PROVE  result[s] = IF s = {} THEN p ELSE tutorial!Stored(result[s \ {Max(s)}], F[Max(s)])
  <2> DEFINE e(t) == IF t = {} THEN p ELSE tutorial!Stored(result[t \ {Max(t)}], F[Max(t)])
  <2>1. result = [t \in D |-> e(t)]
    BY <1>5, Zenon
  <2> HIDE DEF e, D
  <2>2. result[s] = e(s)
    BY <2>1
  <2> QED BY <2>2 DEF e
<1>7. Iterates(Persons, p, StoringPerson, F, result)
  <2> SUFFICES ASSUME NEW s \in D
               PROVE  /\ s = {} => result[s] = p
                      /\ s # {} /\ result[s \ {Max(s)}] \in Persons =>
                           result[s] = StoringPerson[result[s \ {Max(s)}]][F[Max(s)]]
    BY DEF Iterates
  <2>1. CASE s = {}
    BY <1>6, <2>1
  <2>2. CASE s # {}
    <3> SUFFICES ASSUME result[s \ {Max(s)}] \in Persons
                 PROVE  result[s] = StoringPerson[result[s \ {Max(s)}]][F[Max(s)]]
      BY <2>2
    <3> DEFINE v == result[s \ {Max(s)}]
               r == F[Max(s)]
    <3>1. v \in Persons /\ r \in WireFields /\ result[s] = tutorial!Stored(v, r)
      BY <1>4, <1>6, <2>2
    <3> HIDE DEF v, r
    <3>2. result[s] = StoringPerson[v][r]
      BY <1>2, <3>1
    <3> QED BY <3>2 DEF v, r
  <2> QED BY <2>1, <2>2
<1> QED BY <1>1, <1>3, <1>7, IterationFolds DEF AfterReading

\* Reading nothing, one field more, and two lists of fields.
LEMMA ReadingPersons ==
  ASSUME NEW p \in Persons
  PROVE  /\ AfterReading(p, << >>) = p
         /\ \A s \in Seq(WireFields) : AfterReading(p, s) \in Persons
         /\ \A s \in Seq(WireFields) : \A r \in WireFields :
              AfterReading(p, Append(s, r)) = tutorial!Stored(AfterReading(p, s), r)
         /\ \A s, t \in Seq(WireFields) :
              AfterReading(p, s \o t) = AfterReading(AfterReading(p, s), t)
         /\ \A r \in WireFields : AfterReading(p, <<r>>) = tutorial!Stored(p, r)
<1> DEFINE e == << >>
<1>1. e \in Seq(WireFields)
  BY EmptySeq
<1>2. Foldable(Persons, WireFields, p, StoringPerson)
  BY <1>1, PersonFolds
<1>3. /\ AfterReading(p, e) = p
      /\ \A s \in Seq(WireFields) : AfterReading(p, s) \in Persons
  BY <1>2, FoldedFacts DEF AfterReading
<1>4. ASSUME NEW s \in Seq(WireFields), NEW r \in WireFields
      PROVE  AfterReading(p, Append(s, r)) = tutorial!Stored(AfterReading(p, s), r)
  <2>1. AfterReading(p, Append(s, r)) = StoringPerson[AfterReading(p, s)][r]
    BY <1>2, FoldedFacts DEF AfterReading
  <2> QED BY <1>3, <2>1 DEF StoringPerson
<1>5. ASSUME NEW s \in Seq(WireFields), NEW t \in Seq(WireFields)
      PROVE  AfterReading(p, s \o t) = AfterReading(AfterReading(p, s), t)
  BY <1>2, FoldedConcat DEF AfterReading
<1>6. ASSUME NEW r \in WireFields PROVE AfterReading(p, <<r>>) = tutorial!Stored(p, r)
  <2>1. <<r>> = Append(e, r)
    OBVIOUS
  <2> HIDE DEF e
  <2> QED BY <1>1, <1>3, <1>4, <2>1
<1> QED BY <1>3, <1>4, <1>5, <1>6

\* A field as it is merged.
MergedField(p, b, f) == IF f \in b["has"] THEN WithField(p, f, b[f]) ELSE p

\* What is written for a field, and what reading it does.
LEMMA PersonWritten ==
  ASSUME NEW b \in Persons, NEW f \in tutorial!Fields
  PROVE  /\ tutorial!Written(b, f) \in Seq(WireFields)
         /\ \A p \in Persons : /\ AfterReading(p, tutorial!Written(b, f)) = MergedField(p, b, f)
                               /\ MergedField(p, b, f) \in Persons
<1> DEFINE r == Field(tutorial!FieldNumber[f], tutorial!Type(f), b[f])
           w == tutorial!Written(b, f)
<1>1. r \in WireFields /\ b[f] \in FieldValues(f)
  <2>1. b[f] \in FieldValues(f)
    BY PersonMembers
  <2> QED BY <2>1, PersonNumbers, FieldIsField
<1>2. w = IF f \in b["has"] THEN <<r>> ELSE << >>
  <2>1. tutorial!Field(tutorial!FieldNumber[f], tutorial!Type(f), b[f]) = r
    BY SameLibrary
  <2> QED BY <2>1, Zenon DEF tutorial!Written
<1>3. \A p \in Persons : tutorial!Stored(p, r) = WithField(p, f, b[f])
  BY <1>1, PersonStored
<1> HIDE DEF r, w
<1>4. << >> \in Seq(WireFields) /\ <<r>> \in Seq(WireFields)
  BY <1>1, EmptySeq
<1>5. w \in Seq(WireFields)
  BY <1>2, <1>4
<1>6. ASSUME NEW p \in Persons
      PROVE  AfterReading(p, w) = MergedField(p, b, f) /\ MergedField(p, b, f) \in Persons
  <2>1. AfterReading(p, w) \in Persons
    BY <1>5, ReadingPersons
  <2>2. CASE f \in b["has"]
    BY <1>1, <1>2, <1>3, <2>1, <2>2, ReadingPersons DEF MergedField
  <2>3. CASE f \notin b["has"]
    BY <1>2, <2>1, <2>3, ReadingPersons DEF MergedField
  <2> QED BY <2>2, <2>3
<1> QED BY <1>5, <1>6 DEF w

\* The fields that are written, one behind the other.
LEMMA PersonOnWire ==
  ASSUME NEW p \in Persons
  PROVE  /\ tutorial!OnWire(p) = tutorial!Written(p, "name") \o tutorial!Written(p, "id")
                                \o tutorial!Written(p, "email") \o p["unknown"]
         /\ tutorial!OnWire(p) \in Seq(WireFields) /\ p["unknown"] \in Seq(WireFields)
<1> DEFINE w(f) == tutorial!Written(p, f)
           c == [i \in DOMAIN tutorial!FieldOrder |-> w(tutorial!FieldOrder[i])]
           S == Seq(WireFields)
           x == w("name")
           y == w("id")
           z == w("email")
           u == p["unknown"]
<1>1. x \in S /\ y \in S /\ z \in S
  BY PersonWritten, PersonFields
<1>2. u \in S
  <2>1. u \in Seq(OtherFields)
    BY PersonMembers
  <2> QED BY <2>1 DEF OtherFields
<1>3. tutorial!OnWire(p) = FlattenSeq(c) \o u
  BY SameLibrary, Zenon DEF tutorial!OnWire
<1> HIDE DEF w
<1>4. c = <<x, y, z>>
  BY DEF tutorial!FieldOrder
<1> HIDE DEF c, x, y, z, u
<1>5. FlattenSeq(<<x, y, z>>) = x \o y \o z
  <2> HIDE DEF S
  <2> DEFINE e == << >>
             d == <<x>>
             g == <<x, y>>
  <2>1. e \in Seq(S) /\ d \in Seq(S) /\ g \in Seq(S)
        /\ d = Append(e, x) /\ g = Append(d, y) /\ <<x, y, z>> = Append(g, z)
    BY <1>1
  <2>2. FlattenSeq(e) = << >>
    BY DEF FlattenSeq
  <2> HIDE DEF e, d, g
  <2>3. ASSUME NEW s \in Seq(S), NEW t \in S PROVE FlattenSeq(Append(s, t)) = FlattenSeq(s) \o t
    BY <2>3, FlattenFacts DEF S
  <2>4. FlattenSeq(d) = x
    <3>1. << >> \o x = x
      BY <1>1, ConcatEmptySeq DEF S
    <3> QED BY <1>1, <2>1, <2>2, <2>3, <3>1
  <2> QED BY <1>1, <2>1, <2>3, <2>4
<1>6. x \o y \o z \in S
  BY <1>1, ConcatProperties
<1>7. tutorial!OnWire(p) = x \o y \o z \o u
  BY <1>3, <1>4, <1>5
<1>8. (x \o y \o z) \o u \in S
  <2> DEFINE v == x \o y \o z
  <2>1. v \in S
    BY <1>6
  <2> HIDE DEF v
  <2>2. v \o u \in S
    BY <1>2, <2>1, ConcatProperties
  <2> QED BY <2>2 DEF v
<1> QED BY <1>2, <1>7, <1>8 DEF w, x, y, z, u

\* Unknown fields are kept.
LEMMA OthersKept ==
  ASSUME NEW p \in Persons, NEW U \in Seq(OtherFields)
  PROVE  AfterReading(p, U) = [p EXCEPT !.unknown = p["unknown"] \o U]
<1> DEFINE T == {u \in Seq(OtherFields) :
                   AfterReading(p, u) = [p EXCEPT !.unknown = p["unknown"] \o u]}
<1>0. /\ p["unknown"] \in Seq(OtherFields) /\ << >> \in Seq(OtherFields)
      /\ Seq(OtherFields) \subseteq Seq(WireFields) /\ OtherFields \subseteq WireFields
  BY PersonMembers, EmptySeq DEF OtherFields
<1>1. << >> \in T
  <2>1. p["unknown"] \o << >> = p["unknown"]
    BY <1>0, ConcatEmptySeq
  <2>2. [p EXCEPT !.unknown = p["unknown"]] = p
    <3>1. p = PersonOf(p["name"], p["id"], p["email"], p["has"], p["unknown"])
      BY PersonMembers
    <3> QED BY <3>1 DEF PersonOf
  <2>3. AfterReading(p, << >>) = p
    BY ReadingPersons
  <2> QED BY <1>0, <2>1, <2>2, <2>3
<1>2. ASSUME NEW u \in Seq(OtherFields), NEW r \in OtherFields, u \in T PROVE Append(u, r) \in T
  <2> DEFINE v == AfterReading(p, u)
             s == p["unknown"] \o u
             t == p["unknown"] \o Append(u, r)
  <2>1. v = [p EXCEPT !.unknown = s] /\ s \in Seq(OtherFields)
    BY <1>0, <1>2, ConcatProperties
  <2>2. t = Append(s, r) /\ t \in Seq(OtherFields)
    <3>1. t = Append(s, r)
      <4> DEFINE a == p["unknown"]
      <4>1. a \in Seq(OtherFields)
        BY <1>0
      <4> HIDE DEF a, v, T
      <4>2. a \o Append(u, r) = Append(a \o u, r)
        BY <4>1, ConcatAppends
      <4> QED BY <4>2 DEF a
    <3>2. Append(s, r) \in Seq(OtherFields)
      <4> HIDE DEF s
      <4> QED BY <2>1, AppendProperties
    <3> QED BY <3>1, <3>2
  <2>3. AfterReading(p, Append(u, r)) = tutorial!Stored(v, r)
    BY <1>0, ReadingPersons
  <2> HIDE DEF v, s, t
  <2>4. v \in Persons /\ v["unknown"] = s
        /\ v = PersonOf(p["name"], p["id"], p["email"], p["has"], s)
    BY <2>1, WithUnknownFacts
  <2>5. tutorial!Stored(v, r) = [v EXCEPT !.unknown = t]
    BY <2>2, <2>4, PersonStored
  <2>6. [v EXCEPT !.unknown = t] = PersonOf(p["name"], p["id"], p["email"], p["has"], t)
    BY <2>4 DEF PersonOf
  <2>7. [p EXCEPT !.unknown = t] = PersonOf(p["name"], p["id"], p["email"], p["has"], t)
    BY <2>2, WithUnknownFacts
  <2>8. Append(u, r) \in Seq(OtherFields)
    BY AppendProperties
  <2> QED BY <2>3, <2>5, <2>6, <2>7, <2>8 DEF t
<1> HIDE DEF T
<1>3. U \in T
  BY <1>1, <1>2, SequenceInduction
<1> QED BY <1>3 DEF T

\* What was written of a person, when it is read, is merged.
LEMMA PersonMerges ==
  ASSUME NEW p \in Persons, NEW b \in Persons
  PROVE  AfterReading(p, tutorial!OnWire(b)) = tutorial!MergeFrom(p, b)
<1> DEFINE x == tutorial!Written(b, "name")
           y == tutorial!Written(b, "id")
           z == tutorial!Written(b, "email")
           u == b["unknown"]
           p1 == MergedField(p, b, "name")
           p2 == MergedField(p1, b, "id")
           p3 == MergedField(p2, b, "email")
<1>1. /\ x \in Seq(WireFields) /\ y \in Seq(WireFields) /\ z \in Seq(WireFields)
      /\ u \in Seq(WireFields) /\ tutorial!OnWire(b) = x \o y \o z \o u
  BY PersonOnWire, PersonWritten, PersonFields
<1>2. \A q \in Persons : \A f \in tutorial!Fields :
        AfterReading(q, tutorial!Written(b, f)) = MergedField(q, b, f)
        /\ MergedField(q, b, f) \in Persons
  BY PersonWritten
<1>3. p1 \in Persons /\ AfterReading(p, x) = p1
  BY <1>2, PersonFields
<1>4. p2 \in Persons /\ AfterReading(p1, y) = p2
  <2> HIDE DEF p1
  <2> QED BY <1>2, <1>3, PersonFields
<1>5. p3 \in Persons /\ AfterReading(p2, z) = p3
  <2> HIDE DEF p2
  <2> QED BY <1>2, <1>4, PersonFields
<1>6. AfterReading(p, tutorial!OnWire(b)) = AfterReading(p3, u)
  <2> HIDE DEF x, y, z, u, p1, p2, p3
  <2> DEFINE v == x \o y
             w == v \o z
  <2>1. v \in Seq(WireFields) /\ AfterReading(p, v) = p2
    BY <1>1, <1>3, <1>4, ConcatProperties, ReadingPersons
  <2>2. w \in Seq(WireFields) /\ AfterReading(p, w) = p3
    <3> HIDE DEF v
    <3> QED BY <1>1, <1>5, <2>1, ConcatProperties, ReadingPersons
  <2>3. tutorial!OnWire(b) = w \o u
    BY <1>1
  <2> HIDE DEF w
  <2> QED BY <1>1, <2>2, <2>3, ReadingPersons
<1>7. AfterReading(p3, u) = [p3 EXCEPT !.unknown = p3["unknown"] \o u]
  <2>1. u \in Seq(OtherFields)
    BY PersonMembers
  <2> HIDE DEF p3, u
  <2> QED BY <1>5, <2>1, OthersKept
<1>8. ASSUME NEW q \in Persons, NEW f \in tutorial!Fields, NEW r, r = MergedField(q, b, f)
      PROVE  /\ r[f] = LaterOf(q, b, f)
             /\ \A g \in tutorial!Fields : g # f => r[g] = q[g]
             /\ r["has"] = q["has"] \union (b["has"] \intersect {f})
             /\ r["unknown"] = q["unknown"]
  <2>1. CASE f \in b["has"]
    <3>1. b[f] \in FieldValues(f)
      BY PersonMembers
    <3> DEFINE v == b[f]
    <3>2. v \in FieldValues(f)
      BY <3>1
    <3>3. r = WithField(q, f, v)
      BY <1>8, <2>1 DEF MergedField
    <3>4. LaterOf(q, b, f) = v
      BY <2>1 DEF LaterOf
    <3> HIDE DEF v
    <3>5. /\ r[f] = v /\ r["has"] = q["has"] \union {f} /\ r["unknown"] = q["unknown"]
          /\ \A g \in tutorial!Fields : g # f => r[g] = q[g]
      BY <3>2, <3>3, WithFieldFacts
    <3> QED BY <2>1, <3>4, <3>5
  <2>2. CASE f \notin b["has"]
    BY <1>8, <2>2 DEF MergedField, LaterOf
  <2> QED BY <2>1, <2>2
<1> DEFINE Others(r, q, f) == /\ \A g \in tutorial!Fields : g # f => r[g] = q[g]
                              /\ r["has"] = q["has"] \union (b["has"] \intersect {f})
                              /\ r["unknown"] = q["unknown"]
<1>9. /\ p3["name"] = LaterOf(p, b, "name") /\ p3["id"] = LaterOf(p, b, "id")
      /\ p3["email"] = LaterOf(p, b, "email") /\ p3["unknown"] = p["unknown"]
      /\ p3["has"] = p["has"] \union b["has"]
  <2> HIDE DEF p3
  <2>3. p3["email"] = LaterOf(p2, b, "email") /\ Others(p3, p2, "email")
    <3> HIDE DEF p2
    <3> QED BY <1>4, <1>8, PersonFields DEF p3
  <2> HIDE DEF p2
  <2>2. p2["id"] = LaterOf(p1, b, "id") /\ Others(p2, p1, "id")
    <3> HIDE DEF p1
    <3> QED BY <1>3, <1>8, PersonFields DEF p2
  <2> HIDE DEF p1
  <2>1. p1["name"] = LaterOf(p, b, "name") /\ Others(p1, p, "name")
    BY <1>8, PersonFields DEF p1
  <2>4. ASSUME NEW q, NEW f, q[f] = p[f] PROVE LaterOf(q, b, f) = LaterOf(p, b, f)
    BY <2>4 DEF LaterOf
  <2>5. p3["has"] = p["has"] \union b["has"]
    <3>1. b["has"] \subseteq {"name", "id", "email"}
      BY PersonMembers, PersonFields
    <3> QED BY <2>1, <2>2, <2>3, <3>1
  <2> QED BY <2>1, <2>2, <2>3, <2>4, <2>5, PersonFields
<1> HIDE DEF p3
<1> DEFINE v == p3["unknown"] \o u
<1>10. v \in Seq(OtherFields)
  BY <1>5, PersonMembers, ConcatProperties
<1>11. v = p["unknown"] \o b["unknown"]
  BY <1>9
<1> HIDE DEF v
<1>12. [p3 EXCEPT !.unknown = v] = PersonOf(p3["name"], p3["id"], p3["email"], p3["has"], v)
  BY <1>5, <1>10, WithUnknownFacts
<1>13. [p3 EXCEPT !.unknown = v] = tutorial!MergeFrom(p, b)
  BY <1>9, <1>11, <1>12, PersonMergeIs
<1> QED BY <1>6, <1>7, <1>13 DEF v

\* A person is written as bytes, as many as ByteSizeLong computed.
LEMMA PersonSerialize ==
  ASSUME NEW p \in Persons
  PROVE  /\ tutorial!InternalSerialize(p) = Encode(tutorial!OnWire(p))
         /\ tutorial!InternalSerialize(p) \in Seq(Byte)
         /\ tutorial!ByteSizeLong(p) = Len(tutorial!InternalSerialize(p))
<1> DEFINE F == tutorial!OnWire(p)
<1>1. F \in Seq(WireFields)
  BY PersonOnWire
<1>2. tutorial!InternalSerialize(p) = Encode(F) /\ tutorial!ByteSizeLong(p) = EncodedLength(F)
  BY SameLibrary, Zenon DEF tutorial!InternalSerialize, tutorial!ByteSizeLong
<1> HIDE DEF F
<1>3. Encode(F) \in Seq(Byte) /\ EncodedLength(F) = Len(Encode(F))
  BY <1>1, EncodeFacts, EncodedLengthIsLength
<1> QED BY <1>2, <1>3 DEF F

\* What is parsed, from a message that is cleared first.
LEMMA PersonParse ==
  ASSUME NEW p \in Persons, NEW bytes \in Seq(Byte)
  PROVE  /\ Decode(bytes).fields \in Seq(WireFields)
         /\ tutorial!Parse(p, bytes).msg = AfterReading(tutorial!SharedCtor, Decode(bytes).fields)
         /\ tutorial!Parse(p, bytes).msg \in Persons
<1> DEFINE r == Reading(bytes)[1]
           F == Decode(bytes).fields
<1>1. r \in Results /\ r = Decode(bytes)
  <2>1. 1 \in Position
    BY DEF Position
  <2>2. \A q \in Position : Reading(bytes)[q] \in Results
    BY ReadingStep
  <2> QED BY <2>1, <2>2, DecodeIsReading
<1> HIDE DEF r
<1>2. F \in Seq(WireFields)
  BY <1>1 DEF Results
<1>3. tutorial!Clear(p) = tutorial!SharedCtor /\ tutorial!SharedCtor \in Persons
  BY PersonCtor
<1>4. tutorial!Parse(p, bytes).msg = tutorial!FoldLeft(tutorial!Stored, tutorial!SharedCtor, F)
  <2>1. tutorial!Parse(p, bytes) =
          [msg |-> tutorial!FoldLeft(tutorial!Stored, tutorial!SharedCtor, F), ok |-> Decode(bytes).ok]
    BY <1>3, SameLibrary, Zenon DEF tutorial!Parse, tutorial!InternalParse
  <2> QED BY <2>1
<1> HIDE DEF F
<1>5. tutorial!FoldLeft(tutorial!Stored, tutorial!SharedCtor, F) = AfterReading(tutorial!SharedCtor, F)
  BY <1>2, <1>3, PersonFolds
<1>6. AfterReading(tutorial!SharedCtor, F) \in Persons
  BY <1>2, <1>3, ReadingPersons
<1> QED BY <1>2, <1>4, <1>5, <1>6 DEF F

\* Two persons, one behind the other, are merged.
LEMMA PersonPair ==
  ASSUME NEW p \in Persons, NEW a \in Persons, NEW b \in Persons
  PROVE  tutorial!Parse(p, tutorial!InternalSerialize(a) \o tutorial!InternalSerialize(b)).msg
           = tutorial!MergeFrom(a, b)
<1> DEFINE F == tutorial!OnWire(a)
           E == tutorial!OnWire(b)
           U == F \o E
           c == tutorial!SharedCtor
           e == << >>
           bytes == Encode(U)
<1>1. /\ F \in Seq(WireFields) /\ E \in Seq(WireFields)
      /\ tutorial!InternalSerialize(a) = Encode(F) /\ tutorial!InternalSerialize(b) = Encode(E)
  BY PersonOnWire, PersonSerialize
<1>2. AfterReading(c, F) = a /\ AfterReading(a, E) = tutorial!MergeFrom(a, b) /\ c \in Persons
  BY PersonCtor, PersonCopies, PersonMerges
<1> HIDE DEF F, E, c
<1>3. U \in Seq(WireFields) /\ Encode(U) = Encode(F) \o Encode(E) /\ Encode(U) \in Seq(Byte)
  BY <1>1, ConcatProperties, EncodeConcat, EncodeFacts
<1>4. AfterReading(c, U) = tutorial!MergeFrom(a, b)
  BY <1>1, <1>2, ReadingPersons
<1> HIDE DEF U
<1>5. e \in Seq(Byte) /\ Zeros(e)
  BY EmptySeq DEF Zeros
<1>6. Encode(U) \o e = Encode(U)
  BY <1>3, ConcatEmptySeq
<1> HIDE DEF e
<1>7. Decode(Encode(U)).fields = U
  <2>1. Decode(Encode(U) \o e) = [fields |-> U, ok |-> e = << >>]
    BY <1>3, <1>5, EncodedIsDecoded
  <2> QED BY <1>6, <2>1
<1>8. bytes \in Seq(Byte) /\ Decode(bytes).fields = U
  BY <1>3, <1>7
<1> HIDE DEF bytes
<1>9. tutorial!Parse(p, bytes).msg = AfterReading(c, U)
  BY <1>8, PersonParse DEF c
<1> QED BY <1>1, <1>3, <1>4, <1>9 DEF bytes

-----------------------------------------------------------------------------
(* The file transfer *)

\* The two messages and all bytes.
FileInv ==
  /\ person \in Persons /\ getperson \in Persons
  /\ round \in Nat
  /\ file \in Seq(Byte) /\ buffered \in Seq(Byte) /\ got \in Seq(Byte)

\* A person with one field cleared.
WithoutField(p, f) == [p EXCEPT ![f] = tutorial!Empty(f), !.has = p["has"] \ {f}]

\* A field that is cleared has its default value again.
LEMMA WithoutFieldIsPerson ==
  ASSUME NEW p \in Persons, NEW f \in tutorial!Fields
  PROVE  WithoutField(p, f) \in Persons
<1> DEFINE q == WithoutField(p, f)
           h == p["has"] \ {f}
           v == tutorial!Empty(f)
<1>1. p = PersonOf(p["name"], p["id"], p["email"], p["has"], p["unknown"])
  BY PersonMembers
<1>2. h \in SUBSET tutorial!Fields
  BY PersonMembers
<1>3. q = [p EXCEPT ![f] = v, !.has = h]
  BY DEF WithoutField
<1> HIDE DEF q
<1>4. /\ q[f] = v
      /\ \A g \in tutorial!Fields : g # f => q[g] = p[g]
      /\ q = PersonOf(q["name"], q["id"], q["email"], h, p["unknown"])
  <2> HIDE DEF h, v
  <2> QED BY <1>1, <1>3, PersonFields DEF PersonOf
<1>5. \A g \in tutorial!Fields : q[g] \in FieldValues(g) /\ (g \notin h => q[g] = tutorial!Empty(g))
  BY <1>4, PersonMembers, PersonNumbers
<1> HIDE DEF h, v
<1>6. FieldValues("name") = Seq(Byte) /\ FieldValues("id") = Nat /\ FieldValues("email") = Seq(Byte)
  BY PersonFields DEF FieldValues
<1> DEFINE a == q["name"]
           b == q["id"]
           c == q["email"]
           u == p["unknown"]
<1>7. /\ a \in Seq(Byte) /\ b \in Nat /\ c \in Seq(Byte) /\ u \in Seq(OtherFields)
      /\ "name" \notin h => a = tutorial!Empty("name")
      /\ "id" \notin h => b = tutorial!Empty("id")
      /\ "email" \notin h => c = tutorial!Empty("email")
      /\ q = PersonOf(a, b, c, h, u)
  BY <1>4, <1>5, <1>6, PersonMembers, PersonFields
<1> HIDE DEF a, b, c, u
<1>8. PersonOf(a, b, c, h, u) \in Persons
  BY <1>2, <1>7, IsPerson
<1> QED BY <1>7, <1>8 DEF q

\* The record of a turn is a person, whatever was in the message before.
LEMMA FilledFacts ==
  ASSUME NEW p \in Persons, NEW n \in Nat
  PROVE  /\ Filled(p, n) \in Persons
         /\ tutorial!clear_email(tutorial!clear_name(tutorial!clear_id(p))) \in Persons
<1> DEFINE a == tutorial!set_name(p, Name)
           b == tutorial!set_email(a, Email)
           c == tutorial!set_id(b, n)
<1>1. /\ Name \in FieldValues("name") /\ Email \in FieldValues("email") /\ n \in FieldValues("id")
      /\ "name" \in tutorial!Fields /\ "email" \in tutorial!Fields /\ "id" \in tutorial!Fields
  BY SameLibrary, PersonFields, ByteAssumption DEF FieldValues
<1>2. ASSUME NEW q \in Persons
      PROVE  /\ tutorial!set_name(q, Name) = WithField(q, "name", Name)
             /\ tutorial!set_email(q, Email) = WithField(q, "email", Email)
             /\ tutorial!set_id(q, n) = WithField(q, "id", n)
  <2>1. q = PersonOf(q["name"], q["id"], q["email"], q["has"], q["unknown"])
    BY PersonMembers
  <2> QED BY <2>1 DEF tutorial!set_name, tutorial!set_email, tutorial!set_id, WithField, PersonOf
<1>3. \A q \in Persons : /\ WithField(q, "name", Name) \in Persons
                         /\ WithField(q, "email", Email) \in Persons
                         /\ WithField(q, "id", n) \in Persons
  BY <1>1, WithFieldFacts
<1>4. a \in Persons
  BY <1>2, <1>3
<1>5. b \in Persons
  <2> HIDE DEF a
  <2> QED BY <1>2, <1>3, <1>4
<1>6. c \in Persons
  <2> HIDE DEF b
  <2> QED BY <1>2, <1>3, <1>5
<1>7. Filled(p, n) = c
  BY Zenon DEF Filled
<1>8. tutorial!clear_email(tutorial!clear_name(tutorial!clear_id(p))) \in Persons
  <2>1. ASSUME NEW q \in Persons
        PROVE  /\ tutorial!clear_name(q) \in Persons /\ tutorial!clear_id(q) \in Persons
               /\ tutorial!clear_email(q) \in Persons
    <3>1. tutorial!Empty("name") = << >> /\ tutorial!Empty("id") = 0 /\ tutorial!Empty("email") = << >>
      BY PersonFields DEF tutorial!Empty
    <3>2. /\ tutorial!clear_name(q) = WithoutField(q, "name")
          /\ tutorial!clear_id(q) = WithoutField(q, "id")
          /\ tutorial!clear_email(q) = WithoutField(q, "email")
      BY <3>1, Zenon DEF tutorial!clear_name, tutorial!clear_id, tutorial!clear_email, WithoutField
    <3> QED BY <1>1, <3>2, WithoutFieldIsPerson
  <2> QED BY <2>1
<1> HIDE DEF c
<1> QED BY <1>6, <1>7, <1>8

\* The invariant holds before either program runs.
LEMMA InitFileInv == TransferInit => FileInv
<1> SUFFICES ASSUME TransferInit PROVE FileInv
  OBVIOUS
<1>1. << >> \in Seq(Byte)
  BY EmptySeq
<1>2. /\ person = tutorial!SharedCtor /\ getperson = tutorial!SharedCtor /\ round = 0
      /\ buffered = << >> /\ got = << >>
      /\ file \in Old \/ file = << >>
  BY DEF TransferInit
<1>3. file \in Seq(Byte)
  BY <1>1, <1>2, SameLibrary, ByteAssumption
<1> QED BY <1>1, <1>2, <1>3, PersonCtor DEF FileInv

\* Every step of either program keeps the invariant.
LEMMA NextFileInv ==
  FileInv /\ [TransferNext]_transferVars => FileInv'
<1> SUFFICES ASSUME FileInv, [TransferNext]_transferVars PROVE FileInv'
  OBVIOUS
<1> USE DEF transferVars, fileVars, writerVars, readerVars
<1>0. << >> \in Seq(Byte) /\ 123 \in Nat
  BY EmptySeq
<1>1. CASE WriterStarts
  <2>1. Text \in Seq(Byte)
    <3>1. 105 \in Byte /\ 110 \in Byte /\ 116 \in Byte
      BY DEF Byte
    <3> QED BY <3>1 DEF Text
  <2>2. person' = Filled(person, 123) /\ buffered' = Text /\ file' = << >>
        /\ UNCHANGED <<round, got, getperson>>
    BY <1>1 DEF WriterStarts, Truncate
  <2>3. Filled(person, 123) \in Persons
    BY <1>0, FilledFacts DEF FileInv
  <2> QED BY <1>0, <2>1, <2>2, <2>3 DEF FileInv
<1>2. CASE OpenOutput
  <2>1. /\ UNCHANGED <<person, round, got, getperson>>
        /\ file' = file \/ file' = << >>
        /\ buffered' = buffered \/ buffered' = tutorial!InternalSerialize(person)
    BY <1>2 DEF OpenOutput, Truncate
  <2>2. tutorial!InternalSerialize(person) \in Seq(Byte)
    BY PersonSerialize DEF FileInv
  <2> QED BY <1>0, <2>1, <2>2 DEF FileInv
<1>3. CASE CloseOutput
  <2> DEFINE p == tutorial!clear_email(tutorial!clear_name(tutorial!clear_id(person)))
             q == Filled(p, round)
             s == file \o buffered
  <2>1. /\ person' = q /\ file' = s /\ buffered' = << >> /\ round' = round + 1
        /\ UNCHANGED <<got, getperson>>
    BY <1>3 DEF CloseOutput
  <2>2. p \in Persons
    BY <1>0, FilledFacts DEF FileInv
  <2>3. q \in Persons
    <3> HIDE DEF p
    <3> QED BY <2>2, FilledFacts DEF FileInv
  <2>4. s \in Seq(Byte)
    BY ConcatProperties DEF FileInv
  <2> HIDE DEF p, q, s
  <2> QED BY <1>0, <2>1, <2>3, <2>4 DEF FileInv
<1>4. CASE WriterDies
  BY <1>0, <1>4 DEF WriterDies, FileInv
<1>5. CASE ReaderStarts
  BY <1>5 DEF ReaderStarts, FileInv
<1>6. CASE OpenInput
  BY <1>0, <1>6 DEF OpenInput, FileInv
<1>7. CASE ReadMore
  <2> DEFINE r == SubSeq(file, Len(got) + 1, Len(file))
             s == got \o r
  <2>1. /\ got' = s
        /\ UNCHANGED <<person, round, file, buffered, getperson>>
    BY <1>7 DEF ReadMore, Continued
  <2>2. r \in Seq(Byte)
    <3>1. /\ Len(got) \in Nat /\ Len(file) \in Nat /\ Len(file) > Len(got) /\ file \in Seq(Byte)
      BY <1>7, LenProperties DEF FileInv, ReadMore
    <3>2. Len(got) + 1 \in 1 .. Len(file) + 1 /\ Len(file) \in Len(got) + 1 - 1 .. Len(file)
      BY <3>1
    <3> QED BY <3>1, <3>2, SubSeqProperties
  <2> HIDE DEF r
  <2>3. s \in Seq(Byte)
    BY <2>2, ConcatProperties DEF FileInv
  <2> HIDE DEF s
  <2> QED BY <2>1, <2>3 DEF FileInv
<1>8. CASE ReadEnd
  <2>1. /\ getperson' = tutorial!Parse(getperson, got).msg
        /\ UNCHANGED <<person, round, file, buffered, got>>
    BY <1>8 DEF ReadEnd
  <2>2. tutorial!Parse(getperson, got).msg \in Persons
    BY PersonParse DEF FileInv
  <2> QED BY <2>1, <2>2 DEF FileInv
<1>9. CASE UNCHANGED transferVars
  BY <1>9 DEF FileInv
<1> QED BY <1>1, <1>2, <1>3, <1>4, <1>5, <1>6, <1>7, <1>8, <1>9 DEF TransferNext

\* The writer's person and the reader's follow the laws of the generated class: a
\* field without its bit has its default value, and parsing, merging, copying,
\* swapping and clearing keep fields and bits together, in every round of the
\* writer and for whatever the file held before.
THEOREM FileLawsHold == TransferSpec => []PersonLaws
<1>1. FileInv => PersonLaws
  <2> SUFFICES ASSUME FileInv, NEW a \in {person, getperson}, NEW b \in {person, getperson}
               PROVE  /\ \A f \in tutorial!Fields \ a.has : a[f] = tutorial!Empty(f)
                      /\ tutorial!Clear(a) = tutorial!SharedCtor
                      /\ tutorial!Parse(a, tutorial!InternalSerialize(a) \o tutorial!InternalSerialize(b)).msg
                           = tutorial!MergeFrom(a, b)
                      /\ tutorial!ByteSizeLong(a) = Len(tutorial!InternalSerialize(a))
                      /\ tutorial!CopyFrom(a, b) = b /\ tutorial!CopyConstructor(b) = b
                      /\ tutorial!Swap(a, b) = <<b, a>>
                      /\ tutorial!MoveConstructor(a) = <<a, tutorial!SharedCtor>>
    BY Zenon DEF PersonLaws
  <2>1. a \in Persons /\ b \in Persons
    BY DEF FileInv
  <2>2. \A f \in tutorial!Fields \ a.has : a[f] = tutorial!Empty(f)
    BY <2>1 DEF Persons
  <2>3. tutorial!Clear(a) = tutorial!SharedCtor /\ tutorial!SharedCtor \in Persons
    BY <2>1, PersonCtor
  <2>4. tutorial!CopyFrom(a, b) = b
    BY <2>1, <2>3, PersonCopies DEF tutorial!CopyFrom
  <2>5. tutorial!MoveConstructor(a) = <<a, tutorial!SharedCtor>>
    BY <2>1, <2>3, PersonCopies DEF tutorial!MoveConstructor, tutorial!MoveAssign, tutorial!Swap
  <2> QED BY <2>1, <2>2, <2>3, <2>4, <2>5, PersonPair, PersonSerialize, PersonCopies
<1>2. TransferInit => FileInv
  BY InitFileInv
<1>3. FileInv /\ [TransferNext]_transferVars => FileInv'
  BY NextFileInv
<1> QED BY <1>1, <1>2, <1>3, PTL DEF TransferSpec

-----------------------------------------------------------------------------
(* What the reader shows *)

\* What the file can hold when the writer has started and is in a round, and
\* what a reading can have got by then.
FilesOf(r) ==
  IF r = 0 THEN {<< >>} ELSE IF r = 1 THEN {<< >>, Text}
  ELSE {<< >>} \union {Serialized(n) : n \in 0 .. r - 2}
TornReadings == {Continued(b, Serialized(n)) : b \in EarlierReadings, n \in 0 .. Rounds - 2}
ReadingsOf(r) ==
  IF r = 0 THEN Old \union {<< >>} ELSE IF r = 1 THEN EarlierReadings
  ELSE EarlierReadings \union TornReadings

\* Where the writer is tells what it has in hand, what is in the file and what a
\* reading can have got.
WriterInv ==
  /\ round \in 0 .. Rounds
  /\ writer \in {"start", "open", "written", "closed", "done", "ended"}
  /\ writer = "start" =>
       /\ round = 0 /\ person = tutorial!SharedCtor
       /\ file \in Old \union {<< >>} /\ got \in {<< >>, file}
  /\ writer = "open" => round = 0
  /\ writer = "closed" => round # 0
  /\ writer \in {"open", "written", "closed"} => round < Rounds
  /\ writer # "start" => person = Record(IF round = 0 THEN 123 ELSE round - 1)
  /\ writer \in {"open", "written"} =>
       file = << >> /\ buffered = IF round = 0 THEN Text ELSE Serialized(round - 1)
  /\ writer # "start" => file \in FilesOf(round)
  /\ got \in ReadingsOf(round)


\* A message of a person is parsed back; no bytes are the default person.
LEMMA PersonBack ==
  ASSUME NEW p \in Persons, NEW a \in Persons
  PROVE  /\ tutorial!Parse(p, tutorial!InternalSerialize(a)).msg = a
         /\ tutorial!Parse(p, << >>).msg = tutorial!SharedCtor
         /\ \A bytes \in Seq(Byte) :
              tutorial!Parse(p, bytes).msg = tutorial!Parse(tutorial!SharedCtor, bytes).msg
<1> DEFINE F == tutorial!OnWire(a)
           c == tutorial!SharedCtor
           e == << >>
<1>1. F \in Seq(WireFields) /\ tutorial!InternalSerialize(a) = Encode(F) /\ Encode(F) \in Seq(Byte)
  BY PersonOnWire, PersonSerialize, EncodeFacts
<1>2. AfterReading(c, F) = a /\ c \in Persons /\ AfterReading(c, e) = c
  BY PersonCtor, PersonCopies, PersonMerges, ReadingPersons
<1>3. e \in Seq(Byte) /\ e \in Seq(WireFields) /\ Zeros(e) /\ Encode(e) = e
  BY EmptySeq, EncodeFacts DEF Zeros
<1> HIDE DEF F, e, c
<1>4. ASSUME NEW E \in Seq(WireFields), Encode(E) \in Seq(Byte)
      PROVE  tutorial!Parse(p, Encode(E)).msg = AfterReading(c, E)
  <2> DEFINE bytes == Encode(E)
  <2>1. bytes \o e = bytes
    BY <1>4, ConcatEmptySeq DEF e
  <2>2. Decode(bytes \o e) = [fields |-> E, ok |-> e = << >>]
    BY <1>3, EncodedIsDecoded
  <2>3. bytes \in Seq(Byte) /\ Decode(bytes).fields = E
    BY <1>4, <2>1, <2>2
  <2> HIDE DEF bytes
  <2>4. tutorial!Parse(p, bytes).msg = AfterReading(c, E)
    BY <2>3, PersonParse DEF c
  <2> QED BY <2>4 DEF bytes
<1>5. tutorial!Parse(p, Encode(F)).msg = a
  BY <1>1, <1>2, <1>4
<1>6. tutorial!Parse(p, e).msg = c
  BY <1>2, <1>3, <1>4
<1>7. ASSUME NEW bytes \in Seq(Byte)
      PROVE  tutorial!Parse(p, bytes).msg = tutorial!Parse(c, bytes).msg
  BY <1>2, PersonParse DEF c
<1> QED BY <1>1, <1>5, <1>6, <1>7 DEF e, c

\* What the accessors do to the members.
LEMMA AccessorsOf ==
  /\ \A a, b, c, h, u, x :
       tutorial!set_name(PersonOf(a, b, c, h, u), x) = PersonOf(x, b, c, h \union {"name"}, u)
  /\ \A a, b, c, h, u, x :
       tutorial!set_id(PersonOf(a, b, c, h, u), x) = PersonOf(a, x, c, h \union {"id"}, u)
  /\ \A a, b, c, h, u, x :
       tutorial!set_email(PersonOf(a, b, c, h, u), x) = PersonOf(a, b, x, h \union {"email"}, u)
  /\ \A a, b, c, h, u :
       tutorial!clear_name(PersonOf(a, b, c, h, u)) = PersonOf(<< >>, b, c, h \ {"name"}, u)
  /\ \A a, b, c, h, u :
       tutorial!clear_id(PersonOf(a, b, c, h, u)) = PersonOf(a, 0, c, h \ {"id"}, u)
  /\ \A a, b, c, h, u :
       tutorial!clear_email(PersonOf(a, b, c, h, u)) = PersonOf(a, b, << >>, h \ {"email"}, u)
<1>1. ASSUME NEW a, NEW b, NEW c, NEW h, NEW u, NEW x
      PROVE  tutorial!set_name(PersonOf(a, b, c, h, u), x) = PersonOf(x, b, c, h \union {"name"}, u)
  <2> DEFINE p == PersonOf(a, b, c, h, u)
             v == x
             k == h \union {"name"}
             q == [p EXCEPT !.name = v]
  <2>1. p.has = h /\ q = PersonOf(v, b, c, h, u)
    BY DEF PersonOf
  <2>2. [q EXCEPT !.has = k] = PersonOf(v, b, c, k, u)
    <3> HIDE DEF q, v, k
    <3> QED BY <2>1 DEF PersonOf
  <2> QED BY <2>1, <2>2, Zenon DEF tutorial!set_name
<1>2. ASSUME NEW a, NEW b, NEW c, NEW h, NEW u
      PROVE  tutorial!clear_name(PersonOf(a, b, c, h, u)) = PersonOf(<< >>, b, c, h \ {"name"}, u)
  <2> DEFINE p == PersonOf(a, b, c, h, u)
             v == << >>
             k == h \ {"name"}
             q == [p EXCEPT !.name = v]
  <2>1. p.has = h /\ q = PersonOf(v, b, c, h, u)
    BY DEF PersonOf
  <2>2. [q EXCEPT !.has = k] = PersonOf(v, b, c, k, u)
    <3> HIDE DEF q, v, k
    <3> QED BY <2>1 DEF PersonOf
  <2> QED BY <2>1, <2>2, Zenon DEF tutorial!clear_name
<1>3. ASSUME NEW a, NEW b, NEW c, NEW h, NEW u, NEW x
      PROVE  tutorial!set_id(PersonOf(a, b, c, h, u), x) = PersonOf(a, x, c, h \union {"id"}, u)
  <2> DEFINE p == PersonOf(a, b, c, h, u)
             v == x
             k == h \union {"id"}
             q == [p EXCEPT !.id = v]
  <2>1. p.has = h /\ q = PersonOf(a, v, c, h, u)
    BY DEF PersonOf
  <2>2. [q EXCEPT !.has = k] = PersonOf(a, v, c, k, u)
    <3> HIDE DEF q, v, k
    <3> QED BY <2>1 DEF PersonOf
  <2> QED BY <2>1, <2>2, Zenon DEF tutorial!set_id
<1>4. ASSUME NEW a, NEW b, NEW c, NEW h, NEW u
      PROVE  tutorial!clear_id(PersonOf(a, b, c, h, u)) = PersonOf(a, 0, c, h \ {"id"}, u)
  <2> DEFINE p == PersonOf(a, b, c, h, u)
             v == 0
             k == h \ {"id"}
             q == [p EXCEPT !.id = v]
  <2>1. p.has = h /\ q = PersonOf(a, v, c, h, u)
    BY DEF PersonOf
  <2>2. [q EXCEPT !.has = k] = PersonOf(a, v, c, k, u)
    <3> HIDE DEF q, v, k
    <3> QED BY <2>1 DEF PersonOf
  <2> QED BY <2>1, <2>2, Zenon DEF tutorial!clear_id
<1>5. ASSUME NEW a, NEW b, NEW c, NEW h, NEW u, NEW x
      PROVE  tutorial!set_email(PersonOf(a, b, c, h, u), x) = PersonOf(a, b, x, h \union {"email"}, u)
  <2> DEFINE p == PersonOf(a, b, c, h, u)
             v == x
             k == h \union {"email"}
             q == [p EXCEPT !.email = v]
  <2>1. p.has = h /\ q = PersonOf(a, b, v, h, u)
    BY DEF PersonOf
  <2>2. [q EXCEPT !.has = k] = PersonOf(a, b, v, k, u)
    <3> HIDE DEF q, v, k
    <3> QED BY <2>1 DEF PersonOf
  <2> QED BY <2>1, <2>2, Zenon DEF tutorial!set_email
<1>6. ASSUME NEW a, NEW b, NEW c, NEW h, NEW u
      PROVE  tutorial!clear_email(PersonOf(a, b, c, h, u)) = PersonOf(a, b, << >>, h \ {"email"}, u)
  <2> DEFINE p == PersonOf(a, b, c, h, u)
             v == << >>
             k == h \ {"email"}
             q == [p EXCEPT !.email = v]
  <2>1. p.has = h /\ q = PersonOf(a, b, v, h, u)
    BY DEF PersonOf
  <2>2. [q EXCEPT !.has = k] = PersonOf(a, b, v, k, u)
    <3> HIDE DEF q, v, k
    <3> QED BY <2>1 DEF PersonOf
  <2> QED BY <2>1, <2>2, Zenon DEF tutorial!clear_email
<1> QED BY <1>1, <1>2, <1>3, <1>4, <1>5, <1>6

\* A record is a person all fields of which are set; clearing them leaves none.
LEMMA RecordFacts ==
  ASSUME NEW n \in Nat
  PROVE  /\ Record(n) \in Persons
         /\ Record(n) = PersonOf(Name, n, Email, {"name", "id", "email"}, << >>)
         /\ tutorial!clear_email(tutorial!clear_name(tutorial!clear_id(Record(n)))) = tutorial!SharedCtor
         /\ Filled(tutorial!SharedCtor, n) = Record(n)
<1>1. Filled(tutorial!SharedCtor, n) = Record(n) /\ tutorial!SharedCtor \in Persons
  BY PersonCtor, Zenon DEF Record
<1>2. Record(n) \in Persons
  BY <1>1, FilledFacts
<1> DEFINE u == << >>
           z == 0
           none == {}
           one == {"name"}
           two == {"name", "email"}
           all == {"name", "id", "email"}
           last == {"email"}
           p1 == PersonOf(Name, z, u, one, u)
           p2 == PersonOf(Name, z, Email, two, u)
           p3 == PersonOf(Name, n, Email, all, u)
           p4 == PersonOf(u, z, Email, last, u)
           c == PersonOf(u, z, u, none, u)
<1>3. /\ none \union {"name"} = one /\ one \union {"email"} = two /\ two \union {"id"} = all
      /\ all \ {"id"} = two /\ two \ {"name"} = last /\ last \ {"email"} = none
  OBVIOUS
<1>4. tutorial!SharedCtor = c
  BY DEF tutorial!SharedCtor, PersonOf
<1>5. << >> = u /\ 0 = z
  OBVIOUS
<1> HIDE DEF u, z, none, one, two, all, last
<1>6. tutorial!set_name(c, Name) = p1 /\ tutorial!set_email(p1, Email) = p2 /\ tutorial!set_id(p2, n) = p3
  BY <1>3, <1>5, AccessorsOf
<1>7. tutorial!clear_id(p3) = p2 /\ tutorial!clear_name(p2) = p4 /\ tutorial!clear_email(p4) = c
  BY <1>3, <1>5, AccessorsOf
<1> HIDE DEF p1, p2, p3, p4, c
<1>8. Record(n) = p3
  BY <1>4, <1>6, Zenon DEF Record, Filled
<1>9. tutorial!clear_email(tutorial!clear_name(tutorial!clear_id(p3))) = tutorial!SharedCtor
  BY <1>4, <1>7, Zenon
<1> QED BY <1>1, <1>2, <1>8, <1>9 DEF p3, all, u

\* Records whose number takes one byte are equally long.
LEMMA RecordLengths ==
  ASSUME NEW m \in 0 .. 127, NEW n \in 0 .. 127
  PROVE  Len(Serialized(m)) = Len(Serialized(n))
<1> DEFINE f(k) == Field(2, VarintType, k)
           A == <<Field(1, LengthType, Name)>>
           E == <<Field(3, LengthType, Email)>>
           e == << >>
<1>1. tutorial!Type("name") = LengthType /\ tutorial!Type("email") = LengthType
      /\ tutorial!Type("id") = VarintType
  BY PersonFields, SameLibrary DEF tutorial!Type
<1>2. ASSUME NEW k \in 0 .. 127
      PROVE  /\ Serialized(k) = Encode(A \o <<f(k)>> \o E \o e)
             /\ A \in Seq(WireFields) /\ E \in Seq(WireFields) /\ f(k) \in WireFields
  <2> DEFINE p == Record(k)
             h == {"name", "id", "email"}
             x == tutorial!Written(p, "name")
             y == tutorial!Written(p, "id")
             z == tutorial!Written(p, "email")
  <2>1. /\ p \in Persons /\ p["name"] = Name /\ p["id"] = k /\ p["email"] = Email
        /\ p["has"] = h /\ p["unknown"] = e
    <3>1. k \in Nat
      OBVIOUS
    <3>2. p \in Persons /\ p = PersonOf(Name, k, Email, h, e)
      BY <3>1, RecordFacts
    <3> HIDE DEF p
    <3> QED BY <3>2 DEF PersonOf
  <2>2. Serialized(k) = tutorial!InternalSerialize(p)
    BY Zenon DEF Serialized
  <2> HIDE DEF p
  <2>3. Serialized(k) = Encode(x \o y \o z \o e)
    BY <2>1, <2>2, PersonOnWire, PersonSerialize
  <2>4. ASSUME NEW g \in h PROVE tutorial!Written(p, g) = <<Field(tutorial!FieldNumber[g], tutorial!Type(g), p[g])>>
    <3>1. tutorial!Field(tutorial!FieldNumber[g], tutorial!Type(g), p[g])
            = Field(tutorial!FieldNumber[g], tutorial!Type(g), p[g])
      BY SameLibrary
    <3>2. g \in p.has
      BY <2>1
    <3> QED BY <3>1, <3>2, Zenon DEF tutorial!Written
  <2>5. x = A /\ y = <<f(k)>> /\ z = E
    BY <1>1, <2>1, <2>4, PersonFields
  <2>6. x \in Seq(WireFields) /\ y \in Seq(WireFields) /\ z \in Seq(WireFields)
    BY <2>1, PersonWritten, PersonFields
  <2> HIDE DEF x, z, A, E, f
  <2>7. f(k) \in WireFields
    <3>1. y = <<f(k)>> /\ y \in Seq(WireFields)
      BY <2>5, <2>6
    <3> HIDE DEF y
    <3>2. Len(y) = 1 /\ y[1] = f(k)
      BY <3>1
    <3> QED BY <3>1, <3>2, ElementOfSeq
  <2> HIDE DEF y
  <2> QED BY <2>3, <2>5, <2>6, <2>7
<1>3. ASSUME NEW k \in 0 .. 127
      PROVE  Len(EncodeField(f(k))) = Len(Varint[16]) + 1 /\ EncodeField(f(k)) \in Seq(Byte)
  <2> DEFINE r == f(k)
             v == Varint[16]
             b == Body(r)
  <2>1. r.number = 2 /\ r.type = VarintType /\ r.value = k /\ 8 * r.number + r.type = 16
    BY DEF Field, VarintType
  <2>2. r \in WireFields
    BY <1>2
  <2> HIDE DEF r
  <2>3. b = Varint[k]
    BY <2>1, WireTypeFacts, Zenon DEF Body
  <2>4. Varint[k] = Single(k) /\ Len(Single(k)) = 1 /\ v \in Seq(Byte)
    <3>1. k \in Nat /\ k < 128 /\ 16 \in Nat
      OBVIOUS
    <3> QED BY <3>1, VarintStep, SingleFacts
  <2>5. b \in Seq(Byte) /\ EncodeField(r) = v \o b /\ EncodeField(r) \in Seq(Byte)
    BY <2>1, <2>2, EncodeFieldFacts
  <2>6. Len(b) = 1
    BY <2>3, <2>4
  <2> HIDE DEF v, b
  <2>7. Len(v \o b) = Len(v) + Len(b)
    BY <2>4, <2>5, ConcatProperties DEF v
  <2> QED BY <2>5, <2>6, <2>7 DEF v, r
<1> HIDE DEF f, A, E
<1>4. ASSUME NEW k \in 0 .. 127
      PROVE  Len(Serialized(k)) = Len(Encode(A)) + (Len(Varint[16]) + 1) + Len(Encode(E))
  <2> DEFINE y == <<f(k)>>
             a == Encode(A)
             b == EncodeField(f(k))
             c == Encode(E)
  <2>1. A \in Seq(WireFields) /\ E \in Seq(WireFields) /\ f(k) \in WireFields
        /\ y \in Seq(WireFields) /\ e \in Seq(WireFields)
    <3> DEFINE r == f(k)
    <3>1. A \in Seq(WireFields) /\ E \in Seq(WireFields) /\ r \in WireFields
      BY <1>2
    <3> HIDE DEF r
    <3>2. <<r>> \in Seq(WireFields)
      BY <3>1
    <3> QED BY <3>1, <3>2, EmptySeq DEF r
  <2>2. Encode(y) = b
    <3>1. y = Append(e, f(k)) /\ Encode(e) = e
      BY EncodeFacts
    <3>2. Encode(Append(e, f(k))) = Encode(e) \o b
      BY <2>1, EncodeFacts
    <3>3. e \o b = b
      BY <1>3, ConcatEmptySeq
    <3> QED BY <3>1, <3>2, <3>3
  <2> HIDE DEF y
  <2>3. A \o y \in Seq(WireFields) /\ Encode(A \o y) = a \o b
    BY <2>1, <2>2, ConcatProperties, EncodeConcat
  <2> DEFINE Ay == A \o y
  <2>4. Ay \in Seq(WireFields) /\ Encode(Ay) = a \o b
    BY <2>3
  <2> HIDE DEF Ay
  <2>5. Ay \o E \in Seq(WireFields) /\ Encode(Ay \o E) = (a \o b) \o c
    BY <2>1, <2>4, ConcatProperties, EncodeConcat
  <2> DEFINE AyE == Ay \o E
  <2>6. AyE \o e = AyE
    BY <2>5, ConcatEmptySeq
  <2>7. Serialized(k) = (a \o b) \o c
    <3>1. Serialized(k) = Encode(A \o y \o E \o e)
      BY <1>2 DEF y
    <3> QED BY <2>5, <2>6, <3>1 DEF Ay
  <2>8. a \in Seq(Byte) /\ b \in Seq(Byte) /\ c \in Seq(Byte) /\ Len(b) = Len(Varint[16]) + 1
    BY <1>3, <2>1, EncodeFacts
  <2> HIDE DEF a, b, c
  <2>9. a \o b \in Seq(Byte) /\ Len(a \o b) = Len(a) + Len(b)
    BY <2>8, ConcatProperties
  <2> DEFINE ab == a \o b
  <2>10. ab \in Seq(Byte) /\ Len(ab) = Len(a) + Len(b)
    BY <2>9
  <2> HIDE DEF ab
  <2>11. Len(ab \o c) = Len(ab) + Len(c)
    BY <2>8, <2>10, ConcatProperties
  <2> QED BY <2>7, <2>8, <2>10, <2>11 DEF ab, a, c
<1> QED BY <1>4

\* A reading that goes on has got no less than there is.
LEMMA ContinuedFacts ==
  ASSUME NEW b \in Seq(Byte), NEW s \in Seq(Byte)
  PROVE  /\ Continued(b, s) \in Seq(Byte)
         /\ Len(Continued(b, s)) >= Len(s) /\ Len(s) \in Nat /\ Len(Continued(b, s)) \in Nat
         /\ Continued(<< >>, s) = s
<1> DEFINE r == SubSeq(s, Len(b) + 1, Len(s))
           t == b \o r
<1>1. Len(b) \in Nat /\ Len(s) \in Nat /\ \A i \in 1 .. Len(s) : s[i] \in Byte
  BY LenProperties, ElementOfSeq
<1>2. r \in Seq(Byte) /\ Len(r) = IF Len(b) + 1 <= Len(s) THEN Len(s) - Len(b) ELSE 0
  <2>1. \A i \in Len(b) + 1 .. Len(s) : s[i] \in Byte
    BY <1>1
  <2>2. Len(b) + 1 \in Int /\ Len(s) \in Int
    BY <1>1
  <2> DEFINE x == Len(b) + 1
             y == Len(s)
  <2>3. x \in Int /\ y \in Int /\ \A i \in x .. y : s[i] \in Byte
    BY <2>1, <2>2
  <2> HIDE DEF x, y
  <2>4. SubSeq(s, x, y) \in Seq(Byte) /\ Len(SubSeq(s, x, y)) = IF x <= y THEN y - x + 1 ELSE 0
    BY <2>3, SubSeqProperties
  <2> QED BY <1>1, <2>4 DEF x, y
<1>3. t \in Seq(Byte) /\ Len(t) = Len(b) + Len(r)
  <2> HIDE DEF r
  <2> QED BY <1>2, ConcatProperties
<1>4. Continued(b, s) = IF Len(s) > Len(b) THEN t ELSE b
  BY Zenon DEF Continued
<1>5. Continued(<< >>, s) = s
  <2> DEFINE e == << >>
             q == SubSeq(s, 1, Len(s))
  <2>1. Len(e) = 0 /\ e \in Seq(Byte)
    BY EmptySeq
  <2>2. q = s
    <3>1. /\ q \in Seq(Byte) /\ Len(q) = Len(s)
          /\ \A i \in 1 .. Len(s) : q[i] = s[i]
      BY <1>1, SubSeqProperties
    <3> HIDE DEF q
    <3> QED BY <3>1, SeqEqual
  <2>3. Continued(e, s) = IF Len(s) > Len(e) THEN e \o SubSeq(s, Len(e) + 1, Len(s)) ELSE e
    BY Zenon DEF Continued
  <2>4. Continued(e, s) = IF Len(s) > 0 THEN e \o q ELSE e
    BY <1>1, <2>1, <2>3
  <2>5. e \o q = s
    BY <2>2, ConcatEmptySeq
  <2>6. Len(s) = 0 => s = << >>
    BY EmptySeq
  <2> QED BY <1>1, <2>4, <2>5, <2>6
<1> HIDE DEF t, r
<1> QED BY <1>1, <1>2, <1>3, <1>4, <1>5

\* A parse of what a reading can have got shows nothing or one record.
LEMMA ReadingShowsOne ==
  ASSUME NEW p \in Persons, NEW b \in EarlierReadings \union TornReadings, b \in Seq(Byte)
  PROVE  ShowsNothingOrOne(tutorial!Parse(p, b).msg)
<1> DEFINE c == tutorial!SharedCtor
           e == << >>
<1>1. tutorial!Parse(p, b).msg = tutorial!Parse(c, b).msg /\ c \in Persons
  BY PersonCtor, PersonBack
<1>2. CASE b = << >>
  <2>1. tutorial!Parse(p, b).msg = c /\ c.has = {}
    BY <1>1, <1>2, PersonCtor, PersonBack
  <2> QED BY <2>1 DEF ShowsNothingOrOne
<1>3. CASE b \in EarlierReadings \ {<< >>}
  BY <1>1, <1>3, TornAssumption
<1>4. CASE b \in TornReadings
  <2>1. PICK a \in EarlierReadings, n \in 0 .. Rounds - 2 : b = Continued(a, Serialized(n))
    BY <1>4 DEF TornReadings
  <2>2. CASE a = << >>
    <3>1. n \in Nat /\ Record(n) \in Persons
      BY RecordFacts
    <3>2. Serialized(n) = tutorial!InternalSerialize(Record(n))
      BY Zenon DEF Serialized
    <3>3. Serialized(n) \in Seq(Byte)
      BY <3>1, <3>2, PersonSerialize
    <3>4. b = Serialized(n)
      BY <2>1, <2>2, <3>3, ContinuedFacts
    <3>5. tutorial!Parse(p, b).msg = Record(n)
      BY <3>1, <3>2, <3>4, PersonBack
    <3> QED BY <3>5 DEF ShowsNothingOrOne
  <2>3. CASE a # << >>
    BY <1>1, <2>1, <2>3, TornAssumption
  <2> QED BY <2>2, <2>3
<1> QED BY <1>2, <1>3, <1>4

\* Byte sequences, and what a reading gets when it goes on.
LEMMA WhatIsInTheFile ==
  /\ Text \in Seq(Byte) /\ << >> \in Seq(Byte) /\ Len(Text) = 3 /\ Len(<< >>) = 0
  /\ \A n \in 0 .. Rounds - 2 : Serialized(n) \in Seq(Byte)
  /\ \A b \in EarlierReadings : b \in Seq(Byte)
  /\ \A m, n \in 0 .. Rounds - 2 : Len(Serialized(m)) = Len(Serialized(n))
<1>1. Text \in Seq(Byte) /\ << >> \in Seq(Byte) /\ Len(Text) = 3 /\ Len(<< >>) = 0
  <2>1. 105 \in Byte /\ 110 \in Byte /\ 116 \in Byte
    BY DEF Byte
  <2> QED BY <2>1, EmptySeq DEF Text
<1>2. ASSUME NEW n \in 0 .. Rounds - 2 PROVE Serialized(n) \in Seq(Byte)
  <2>1. n \in Nat /\ Record(n) \in Persons
    BY RecordFacts
  <2>2. Serialized(n) = tutorial!InternalSerialize(Record(n))
    BY Zenon DEF Serialized
  <2> QED BY <2>1, <2>2, PersonSerialize
<1>3. ASSUME NEW b \in EarlierReadings PROVE b \in Seq(Byte)
  <2>1. \A a \in Old \union {<< >>} : a \in Seq(Byte)
    BY <1>1, SameLibrary, ByteAssumption
  <2>2. CASE b \in Old \union {<< >>}
    BY <2>1, <2>2
  <2>3. CASE b \notin Old \union {<< >>}
    <3>1. PICK a \in Old \union {<< >>} : b = Continued(a, Text)
      BY <2>3 DEF EarlierReadings
    <3> QED BY <1>1, <2>1, <3>1, ContinuedFacts
  <2> QED BY <2>2, <2>3
<1>4. ASSUME NEW m \in 0 .. Rounds - 2, NEW n \in 0 .. Rounds - 2
      PROVE  Len(Serialized(m)) = Len(Serialized(n))
  <2>1. Rounds - 2 < 128 /\ Rounds \in Nat
    BY TornAssumption, LoopAssumption
  <2>2. m \in 0 .. 127 /\ n \in 0 .. 127
    BY <2>1
  <2> QED BY <2>2, RecordLengths
<1> QED BY <1>1, <1>2, <1>3, <1>4

\* A reading that goes on gets one of the readings that are possible by then.
LEMMA GoesOn ==
  ASSUME NEW r \in 0 .. Rounds, NEW b \in ReadingsOf(r), NEW s \in FilesOf(r), Len(s) > Len(b)
  PROVE  Continued(b, s) \in ReadingsOf(r)
<1>1. Rounds \in Nat
  BY LoopAssumption
<1>2. CASE r = 0
  <2>1. s = << >> /\ b \in Seq(Byte)
    BY <1>2, WhatIsInTheFile DEF FilesOf, ReadingsOf, EarlierReadings
  <2> QED BY <2>1, WhatIsInTheFile, LenProperties
<1>3. CASE r = 1
  <2>1. b \in EarlierReadings /\ s \in {<< >>, Text}
    BY <1>3 DEF FilesOf, ReadingsOf
  <2>2. s = Text
    BY <2>1, WhatIsInTheFile, LenProperties
  <2>3. b \in Old \union {<< >>}
    <3>1. ASSUME NEW a \in Old \union {<< >>}, b = Continued(a, Text) PROVE FALSE
      <4>1. a \in Seq(Byte) /\ Text \in Seq(Byte)
        BY WhatIsInTheFile DEF EarlierReadings
      <4>2. Len(b) >= Len(Text) /\ Len(b) \in Nat /\ Len(Text) \in Nat
        BY <3>1, <4>1, ContinuedFacts
      <4> QED BY <2>2, <4>2
    <3> QED BY <2>1, <3>1 DEF EarlierReadings
  <2> QED BY <1>3, <2>2, <2>3 DEF ReadingsOf, EarlierReadings
<1>4. CASE r # 0 /\ r # 1
  <2>1. b \in EarlierReadings \union TornReadings
    BY <1>4 DEF ReadingsOf
  <2>2. PICK n \in 0 .. r - 2 : s = Serialized(n)
    <3>1. s # << >>
      <4>1. b \in Seq(Byte)
        <5>1. ASSUME NEW a \in EarlierReadings, NEW n \in 0 .. Rounds - 2
              PROVE  Continued(a, Serialized(n)) \in Seq(Byte)
          BY WhatIsInTheFile, ContinuedFacts
        <5> QED BY <2>1, <5>1, WhatIsInTheFile DEF TornReadings
      <4> QED BY <4>1, WhatIsInTheFile, LenProperties
    <3> QED BY <1>4, <3>1 DEF FilesOf
  <2>3. n \in 0 .. Rounds - 2
    BY <1>1, <1>4
  <2>4. b \in EarlierReadings
    <3>1. ASSUME NEW a \in EarlierReadings, NEW m \in 0 .. Rounds - 2, b = Continued(a, Serialized(m))
          PROVE  FALSE
      <4>1. a \in Seq(Byte) /\ Serialized(m) \in Seq(Byte) /\ Len(Serialized(m)) = Len(Serialized(n))
        BY <2>3, WhatIsInTheFile
      <4>2. Len(b) >= Len(Serialized(m)) /\ Len(b) \in Nat /\ Len(Serialized(m)) \in Nat
        BY <3>1, <4>1, ContinuedFacts
      <4> QED BY <2>2, <4>1, <4>2
    <3> QED BY <2>1, <3>1 DEF TornReadings
  <2>5. Continued(b, s) \in TornReadings
    BY <2>2, <2>3, <2>4 DEF TornReadings
  <2> QED BY <1>4, <2>5 DEF ReadingsOf
<1> QED BY <1>2, <1>3, <1>4

\* The later the round, the more can have been read.
LEMMA ReadingsGrow ==
  ASSUME NEW r \in 0 .. Rounds
  PROVE  ReadingsOf(r) \subseteq ReadingsOf(r + 1) /\ << >> \in ReadingsOf(r)
         /\ ReadingsOf(r) \subseteq EarlierReadings \union TornReadings
<1>1. r + 1 # 0 /\ (r + 1 = 1 => r = 0) /\ (r = 0 => r + 1 = 1)
  BY LoopAssumption
<1>2. Old \union {<< >>} \subseteq EarlierReadings
  BY DEF EarlierReadings
<1>3. << >> \in EarlierReadings
  BY <1>2
<1> QED BY <1>1, <1>2, <1>3 DEF ReadingsOf

\* The invariant holds before the writer starts.
LEMMA InitWriterInv == TransferInit => WriterInv
<1> SUFFICES ASSUME TransferInit PROVE WriterInv
  OBVIOUS
<1>1. 0 \in 0 .. Rounds
  BY LoopAssumption
<1>2. got \in ReadingsOf(0)
  BY DEF TransferInit, ReadingsOf
<1> QED BY <1>1, <1>2 DEF TransferInit, WriterInv

\* Every step of either program keeps it.
LEMMA NextWriterInv == FileInv /\ WriterInv /\ [TransferNext]_transferVars => WriterInv'
<1> SUFFICES ASSUME FileInv, WriterInv, [TransferNext]_transferVars PROVE WriterInv'
  OBVIOUS
<1> USE DEF transferVars, fileVars, writerVars, readerVars
<1>0. Rounds \in Nat /\ Rounds >= 2 /\ round \in 0 .. Rounds /\ round \in Nat
  BY LoopAssumption DEF WriterInv
<1>1. CASE WriterStarts
  <2>1. /\ writer = "start" /\ writer' = "open" /\ round' = 0 /\ round = 0 /\ got' = got
        /\ file' = << >> /\ buffered' = Text
        /\ person' = Record(123)
    <3>1. Filled(tutorial!SharedCtor, 123) = Record(123)
      BY RecordFacts
    <3> QED BY <1>1, <3>1 DEF WriterStarts, Truncate, WriterInv
  <2>2. file' \in FilesOf(0)
    BY <2>1 DEF FilesOf
  <2> QED BY <1>0, <2>1, <2>2 DEF WriterInv
<1>2. CASE OpenOutput
  <2>1. /\ writer \in {"open", "closed"} /\ writer' = "written" /\ round < Rounds
        /\ UNCHANGED <<round, person, got>>
    BY <1>2 DEF OpenOutput
  <2>2. file' \in FilesOf(round) /\ file' = << >>
        /\ buffered' = IF round = 0 THEN Text ELSE Serialized(round - 1)
    <3>1. CASE writer = "open"
      BY <1>2, <2>1, <3>1 DEF OpenOutput, WriterInv, FilesOf
    <3>2. CASE writer = "closed"
      <4>1. file' = << >> /\ buffered' = tutorial!InternalSerialize(person) /\ round # 0
            /\ person = Record(round - 1)
        BY <1>2, <3>2 DEF OpenOutput, Truncate, WriterInv
      <4>2. buffered' = Serialized(round - 1)
        BY <4>1, Zenon DEF Serialized
      <4> QED BY <4>1, <4>2 DEF FilesOf
    <3> QED BY <2>1, <3>1, <3>2
  <2> QED BY <2>1, <2>2 DEF WriterInv
<1>3. CASE CloseOutput
  <2>1. /\ writer = "written" /\ round < Rounds /\ file = << >> /\ file' = file \o buffered
        /\ buffered = IF round = 0 THEN Text ELSE Serialized(round - 1)
        /\ round' = round + 1 /\ got' = got
        /\ writer' = IF round' = Rounds THEN "done" ELSE "closed"
    BY <1>3 DEF CloseOutput, WriterInv
  <2>2. person' = Record(round)
    <3>1. PICK n \in Nat : person = Record(n)
      <4>1. IF round = 0 THEN 123 \in Nat ELSE round - 1 \in Nat
        BY <1>0
      <4> QED BY <2>1, <4>1 DEF WriterInv
    <3>2. tutorial!clear_email(tutorial!clear_name(tutorial!clear_id(person))) = tutorial!SharedCtor
      BY <3>1, RecordFacts
    <3>3. person' = Filled(tutorial!SharedCtor, round)
      BY <1>3, <3>2 DEF CloseOutput
    <3> QED BY <1>0, <3>3, RecordFacts
  <2>3. file' = buffered
    <3>1. << >> \o buffered = buffered
      BY ConcatEmptySeq DEF FileInv
    <3> QED BY <2>1, <3>1
  <2>4. file' \in FilesOf(round + 1)
    <3>1. CASE round = 0
      BY <2>1, <2>3, <3>1 DEF FilesOf
    <3>2. CASE round # 0
      <4>1. round + 1 # 0 /\ round + 1 # 1 /\ round - 1 \in 0 .. (round + 1) - 2
        BY <1>0, <3>2
      <4> QED BY <2>1, <2>3, <3>2, <4>1 DEF FilesOf
    <3> QED BY <3>1, <3>2
  <2>5. got' \in ReadingsOf(round + 1)
    BY <1>0, <2>1, ReadingsGrow DEF WriterInv
  <2>6. round + 1 \in 0 .. Rounds /\ round + 1 # 0 /\ (round + 1) - 1 = round
        /\ (round + 1 # Rounds => round + 1 < Rounds)
    BY <1>0, <2>1
  <2> QED BY <2>1, <2>2, <2>4, <2>5, <2>6 DEF WriterInv
<1>4. CASE WriterDies
  BY <1>4 DEF WriterDies, WriterInv
<1>5. CASE ReaderStarts
  BY <1>5 DEF ReaderStarts, WriterInv
<1>6. CASE OpenInput
  BY <1>0, <1>6, ReadingsGrow DEF OpenInput, WriterInv
<1>7. CASE ReadMore
  <2>1. got' = Continued(got, file) /\ UNCHANGED <<file, writerVars>> /\ Len(file) > Len(got)
    BY <1>7 DEF ReadMore
  <2>2. CASE writer = "start"
    <3>1. file \in Old \union {<< >>} /\ got \in {<< >>, file} /\ round = 0
      BY <2>2 DEF WriterInv
    <3>2. Len(file) \in Nat /\ file \in Seq(Byte)
      BY LenProperties DEF FileInv
    <3>3. got = << >>
      BY <2>1, <3>1, <3>2
    <3>4. got' = file
      BY <2>1, <3>2, <3>3, ContinuedFacts
    <3>5. got' \in ReadingsOf(0)
      BY <3>1, <3>4 DEF ReadingsOf
    <3> QED BY <2>1, <2>2, <3>1, <3>4, <3>5 DEF WriterInv
  <2>3. CASE writer # "start"
    <3>1. got' \in ReadingsOf(round)
      BY <1>0, <2>1, <2>3, GoesOn DEF WriterInv
    <3> QED BY <2>1, <2>3, <3>1 DEF WriterInv
  <2> QED BY <2>2, <2>3
<1>8. CASE ReadEnd
  BY <1>8 DEF ReadEnd, WriterInv
<1>9. CASE UNCHANGED transferVars
  BY <1>9 DEF WriterInv
<1> QED BY <1>1, <1>2, <1>3, <1>4, <1>5, <1>6, <1>7, <1>8, <1>9 DEF TransferNext

\* A turn of the reader that ends shows what it has got.
LEMMA NextShowsOne ==
  FileInv /\ WriterInv /\ ShowsOneRecord /\ [TransferNext]_transferVars => ShowsOneRecord'
<1> SUFFICES ASSUME FileInv, WriterInv, ShowsOneRecord, [TransferNext]_transferVars
             PROVE  ShowsOneRecord'
  OBVIOUS
<1>1. CASE ReadEnd
  <2>1. getperson' = tutorial!Parse(getperson, got).msg
    BY <1>1 DEF ReadEnd
  <2>2. got \in EarlierReadings \union TornReadings
    BY ReadingsGrow DEF WriterInv
  <2>3. ShowsNothingOrOne(tutorial!Parse(getperson, got).msg)
    BY <2>2, ReadingShowsOne DEF FileInv
  <2>4. ShowsNothingOrOne(getperson')
    BY <2>1, <2>3
  <2> QED BY <2>4 DEF ShowsOneRecord, ShowsNothingOrOne
<1>2. CASE ~ReadEnd
  <2>1. getperson' = getperson
    BY <1>2 DEF TransferNext, transferVars, readerVars, WriterStarts, OpenOutput, CloseOutput,
      WriterDies, ReaderStarts, OpenInput, ReadMore
  <2> QED BY <2>1 DEF ShowsOneRecord, ShowsNothingOrOne
<1> QED BY <1>1, <1>2

\* However a reading falls between the writer's steps, and wherever the writer
\* is killed, the reader shows no field or the fields of one record: in all
\* rounds a reading holds what was in the file beforehand, "int", a record, or
\* one of the former that went on in one of the latter.
THEOREM OneRecordShown == TransferSpec => []ShowsOneRecord
<1>1. TransferInit => FileInv /\ WriterInv /\ ShowsOneRecord
  <2>1. TransferInit => ShowsOneRecord
    <3>1. TransferInit => getperson = tutorial!SharedCtor
      BY DEF TransferInit
    <3>2. tutorial!SharedCtor.has = {}
      BY PersonCtor
    <3> QED BY <3>1, <3>2 DEF ShowsOneRecord, ShowsNothingOrOne
  <2> QED BY <2>1, InitFileInv, InitWriterInv
<1>2. FileInv /\ WriterInv /\ ShowsOneRecord /\ [TransferNext]_transferVars
        => (FileInv /\ WriterInv /\ ShowsOneRecord)'
  BY NextFileInv, NextWriterInv, NextShowsOne
<1> QED BY <1>1, <1>2, PTL DEF TransferSpec
=============================================================================
