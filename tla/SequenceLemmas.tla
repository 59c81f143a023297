---------------------------- MODULE SequenceLemmas ---------------------------
(***************************************************************************)
(* Lemmas the proofs about several components need: about messages that    *)
(* are numbered in the order of the calls that sent them and pass through  *)
(* queues (the sockets and the walk communication; 0 stands for bytes that *)
(* are no message any more, which have no place in the order), functions   *)
(* that are defined by recursion, what a sequence of sequences flattens    *)
(* to, and folds over a sequence.                                          *)
(***************************************************************************)
EXTENDS Integers, Sequences, SequencesExt, SequenceTheorems, WellFoundedInduction, TLAPS

-----------------------------------------------------------------------------
(* Numbered messages *)

\* The messages in s come in the order of their numbers, none twice.
Rising(s) ==
  \A i, j \in DOMAIN s : i < j /\ s[i] # 0 /\ s[j] # 0 => s[i] < s[j]

\* The messages in s were sent before those in t.
Before(s, t) ==
  \A i \in DOMAIN s, j \in DOMAIN t : s[i] # 0 /\ t[j] # 0 => s[i] < t[j]

\* The message e was sent after those in s, or before those in t.
Above(e, s) == \A i \in DOMAIN s : s[i] # 0 /\ e # 0 => s[i] < e

Below(e, t) == \A j \in DOMAIN t : t[j] # 0 /\ e # 0 => e < t[j]

\* Everything in s is a message.
Whole(s) == \A i \in DOMAIN s : s[i] # 0

\* A queue that is empty is in order.
LEMMA EmptyRises ==
  /\ Rising(<< >>) /\ Whole(<< >>)
  /\ \A s : Before(<< >>, s) /\ Before(s, << >>)
  /\ \A e : Above(e, << >>) /\ Below(e, << >>)
BY DEF Rising, Before, Above, Below, Whole

\* Taking the head off a queue keeps what is known of the queue, and the head
\* inherits it and was sent before the rest.
LEMMA TailRises ==
  ASSUME NEW S \in SUBSET Nat, NEW s \in Seq(S), s # << >>
  PROVE  /\ Head(s) \in S
         /\ Tail(s) \in Seq(S) /\ Len(s) \in Nat \ {0} /\ Len(Tail(s)) = Len(s) - 1
         /\ Rising(s) => Rising(Tail(s)) /\ Below(Head(s), Tail(s))
         /\ Whole(s) => Whole(Tail(s)) /\ Head(s) # 0
         /\ \A t : Before(s, t) => Before(Tail(s), t) /\ Below(Head(s), t)
         /\ \A t : Before(t, s) => Before(t, Tail(s)) /\ Above(Head(s), t)
         /\ \A e : Below(e, s) => Below(e, Tail(s))
         /\ \A e : Above(e, s) => Above(e, Tail(s)) /\ (Head(s) # 0 /\ e # 0 => Head(s) < e)
<1>1. Len(s) \in Nat \ {0} /\ DOMAIN s = 1 .. Len(s)
  BY LenProperties, EmptySeq
<1>2. /\ Tail(s) \in Seq(S) /\ Len(Tail(s)) = Len(s) - 1
      /\ \A i \in 1 .. Len(Tail(s)) : Tail(s)[i] = s[i + 1]
  BY HeadTailProperties
<1>3. DOMAIN Tail(s) = 1 .. Len(s) - 1
  BY <1>2, LenProperties
<1>4. Head(s) = s[1] /\ 1 \in DOMAIN s /\ Head(s) \in S
  BY <1>1, HeadTailProperties
<1>5. \A i \in DOMAIN Tail(s) : i + 1 \in DOMAIN s /\ Tail(s)[i] = s[i + 1] /\ i \in Nat \ {0}
  BY <1>1, <1>2, <1>3
<1>6. Rising(s) => Rising(Tail(s))
  <2> SUFFICES ASSUME Rising(s), NEW i \in DOMAIN Tail(s), NEW j \in DOMAIN Tail(s),
                      i < j, Tail(s)[i] # 0, Tail(s)[j] # 0
               PROVE  Tail(s)[i] < Tail(s)[j]
    BY DEF Rising
  <2>1. i + 1 < j + 1
    BY <1>5
  <2> QED BY <1>5, <2>1 DEF Rising
<1>7. Rising(s) => Below(Head(s), Tail(s))
  <2> SUFFICES ASSUME Rising(s), Head(s) # 0, NEW j \in DOMAIN Tail(s), Tail(s)[j] # 0
               PROVE  Head(s) < Tail(s)[j]
    BY DEF Below
  <2>1. 1 < j + 1
    BY <1>5
  <2> QED BY <1>4, <1>5, <2>1 DEF Rising
<1>8. Whole(s) => Whole(Tail(s)) /\ Head(s) # 0
  BY <1>4, <1>5 DEF Whole
<1>9. \A t : Before(s, t) => Before(Tail(s), t) /\ Below(Head(s), t)
  BY <1>4, <1>5 DEF Before, Below
<1>10. \A t : Before(t, s) => Before(t, Tail(s)) /\ Above(Head(s), t)
  BY <1>4, <1>5 DEF Before, Above
<1>11. \A e : Below(e, s) => Below(e, Tail(s))
  BY <1>5 DEF Below
<1>12. \A e : Above(e, s) => Above(e, Tail(s)) /\ (Head(s) # 0 /\ e # 0 => Head(s) < e)
  BY <1>4, <1>5 DEF Above
<1> QED BY <1>1, <1>2, <1>4, <1>6, <1>7, <1>8, <1>9, <1>10, <1>11, <1>12

\* A message that was sent after all of a queue may be put at its end.
LEMMA AppendRises ==
  ASSUME NEW S \in SUBSET Nat, NEW s \in Seq(S), NEW e \in S
  PROVE  /\ Append(s, e) \in Seq(S) /\ Len(s) \in Nat /\ Len(Append(s, e)) = Len(s) + 1
         /\ Rising(s) /\ Above(e, s) => Rising(Append(s, e))
         /\ Whole(s) /\ e # 0 => Whole(Append(s, e))
         /\ \A t : Before(s, t) /\ Below(e, t) => Before(Append(s, e), t)
         /\ \A t : Before(t, s) /\ Above(e, t) => Before(t, Append(s, e))
         /\ \A f : Below(f, s) /\ (e # 0 /\ f # 0 => f < e) => Below(f, Append(s, e))
         /\ \A f : Above(f, s) /\ (e # 0 /\ f # 0 => e < f) => Above(f, Append(s, e))
<1> DEFINE a == Append(s, e)
<1>1. Len(s) \in Nat /\ DOMAIN s = 1 .. Len(s)
  BY LenProperties
<1>2. /\ a \in Seq(S) /\ Len(a) = Len(s) + 1
      /\ \A i \in 1 .. Len(s) : a[i] = s[i]
      /\ a[Len(s) + 1] = e
  BY AppendProperties
<1>3. DOMAIN a = 1 .. Len(s) + 1
  BY <1>2, LenProperties
<1> HIDE DEF a
<1>4. \A i \in DOMAIN a : (i \in DOMAIN s /\ a[i] = s[i]) \/ (i = Len(s) + 1 /\ a[i] = e)
  BY <1>1, <1>2, <1>3
<1>5. Rising(s) /\ Above(e, s) => Rising(a)
  <2> SUFFICES ASSUME Rising(s), Above(e, s), NEW i \in DOMAIN a, NEW j \in DOMAIN a,
                      i < j, a[i] # 0, a[j] # 0
               PROVE  a[i] < a[j]
    BY DEF Rising
  <2>1. i \in DOMAIN s
    BY <1>1, <1>3
  <2> QED BY <1>1, <1>4, <2>1 DEF Rising, Above
<1>6. Whole(s) /\ e # 0 => Whole(a)
  BY <1>4 DEF Whole
<1>7. \A t : Before(s, t) /\ Below(e, t) => Before(a, t)
  BY <1>4 DEF Before, Below
<1>8. \A t : Before(t, s) /\ Above(e, t) => Before(t, a)
  BY <1>4 DEF Before, Above
<1>9. \A f : Below(f, s) /\ (e # 0 /\ f # 0 => f < e) => Below(f, a)
  BY <1>4 DEF Below
<1>10. \A f : Above(f, s) /\ (e # 0 /\ f # 0 => e < f) => Above(f, a)
  BY <1>4 DEF Above
<1> QED BY <1>1, <1>2, <1>5, <1>6, <1>7, <1>8, <1>9, <1>10 DEF a

\* A queue that loses its first messages stays in order.
LEMMA SuffixRises ==
  ASSUME NEW S \in SUBSET Nat, NEW s \in Seq(S), NEW n \in 0 .. Len(s)
  PROVE  LET r == SubSeq(s, n + 1, Len(s))
         IN  /\ r \in Seq(S) /\ Len(r) = Len(s) - n
             /\ Rising(s) => Rising(r)
             /\ \A t : Before(t, s) => Before(t, r)
             /\ \A e : Above(e, s) => Above(e, r)
<1> DEFINE r == SubSeq(s, n + 1, Len(s))
<1>1. Len(s) \in Nat /\ DOMAIN s = 1 .. Len(s) /\ n \in Nat
  BY LenProperties
<1>2. \A i \in n + 1 .. Len(s) : s[i] \in S
  BY <1>1, ElementOfSeq
<1>3. /\ r \in Seq(S)
      /\ Len(r) = Len(s) - n
      /\ \A i \in 1 .. Len(s) - n : r[i] = s[i + n]
  <2>1. n + 1 \in Int /\ Len(s) \in Int /\ n <= Len(s)
    BY <1>1
  <2>2. /\ r \in Seq(S)
        /\ Len(r) = IF n + 1 <= Len(s) THEN Len(s) - (n + 1) + 1 ELSE 0
        /\ \A i \in 1 .. Len(s) - (n + 1) + 1 : r[i] = s[n + 1 + i - 1]
    BY <1>2, <2>1, SubSeqProperties
  <2> HIDE DEF r
  <2>3. Len(s) - (n + 1) + 1 = Len(s) - n
    BY <2>1
  <2>4. Len(r) = Len(s) - n
    <3>1. CASE n + 1 <= Len(s)
      BY <2>2, <2>3, <3>1
    <3>2. CASE ~(n + 1 <= Len(s))
      <4>1. Len(r) = 0
        BY <2>2, <3>2
      <4>2. Len(s) \in Int /\ n \in Int /\ n <= Len(s)
        BY <1>1, <2>1
      <4>3. Len(s) = n
        BY <3>2, <4>2
      <4> QED BY <1>1, <4>1, <4>3
    <3> QED BY <3>1, <3>2
  <2>5. ASSUME NEW i \in 1 .. Len(s) - n
        PROVE  r[i] = s[i + n]
    <3>1. n + 1 + i - 1 = i + n
      BY <1>1
    <3>2. r[i] = s[n + 1 + i - 1]
      BY <2>2, <2>3
    <3> QED BY <3>1, <3>2
  <2> QED BY <2>2, <2>4, <2>5
<1>4. DOMAIN r = 1 .. Len(r)
  BY <1>3, LenProperties
<1> HIDE DEF r
<1>5. \A i \in DOMAIN r : i + n \in DOMAIN s /\ r[i] = s[i + n] /\ i \in Int
  BY <1>1, <1>3, <1>4
<1>6. Rising(s) => Rising(r)
  <2> SUFFICES ASSUME Rising(s), NEW i \in DOMAIN r, NEW j \in DOMAIN r,
                      i < j, r[i] # 0, r[j] # 0
               PROVE  r[i] < r[j]
    BY DEF Rising
  <2>1. i + n < j + n
    BY <1>1, <1>5
  <2> QED BY <1>5, <2>1 DEF Rising
<1>7. \A t : Before(t, s) => Before(t, r)
  BY <1>5 DEF Before
<1>8. \A e : Above(e, s) => Above(e, r)
  BY <1>5 DEF Above
<1> QED BY <1>3, <1>5, <1>6, <1>7, <1>8 DEF r

-----------------------------------------------------------------------------
(* Induction and recursion *)

\* Induction over the natural numbers, for a set of them.
LEMMA SetInduction ==
  ASSUME NEW S, 0 \in S, \A n \in Nat : n \in S => n + 1 \in S
  PROVE  \A n \in Nat : n \in S
<1> SUFFICES ASSUME NEW k \in Nat, k \notin S PROVE FALSE
  OBVIOUS
<1> DEFINE T == {n \in Nat : n \notin S}
<1>1. PICK m \in T : \A y \in T : ~ (<<y, m>> \in OpToRel(<, Nat))
  <2>1. T \subseteq Nat /\ T # {} OBVIOUS
  <2> QED BY <2>1, NatLessThanWellFounded, WFMin
<1>2. m # 0  OBVIOUS
<1>3. m - 1 \in Nat /\ m - 1 \in S
  <2>1. m - 1 \in Nat BY <1>2
  <2>2. <<m - 1, m>> \in OpToRel(<, Nat)  BY <2>1 DEF OpToRel
  <2> QED BY <2>1, <2>2, <1>1
<1> QED BY <1>3

\* Induction over the sequences, for a set of them.
LEMMA SequenceInduction ==
  ASSUME NEW S, NEW T, << >> \in T,
         \A s \in Seq(S), e \in S : s \in T => Append(s, e) \in T
  PROVE  \A s \in Seq(S) : s \in T
<1> DEFINE P == {k \in Nat : \A s \in Seq(S) : Len(s) = k => s \in T}
<1>1. 0 \in P
  BY EmptySeq
<1>2. ASSUME NEW k \in Nat, k \in P PROVE k + 1 \in P
  <2> SUFFICES ASSUME NEW s \in Seq(S), Len(s) = k + 1 PROVE s \in T
    OBVIOUS
  <2>1. s # << >>
    BY EmptySeq
  <2>2. PICK t \in Seq(S), e \in S : s = Append(t, e)
    BY <2>1, SequenceEmptyOrAppend
  <2>3. Len(t) = k
    BY <2>2, AppendProperties, LenProperties
  <2> QED BY <1>2, <2>2, <2>3
<1> HIDE DEF P
<1>3. \A k \in Nat : k \in P
  BY <1>1, <1>2, SetInduction
<1> QED BY <1>3, LenProperties DEF P

\* In a rising sequence of numbers above a bound the k-th is k above it or more.
LEMMA KthIsAbove ==
  ASSUME NEW s, Len(s) \in Nat, DOMAIN s = 1 .. Len(s), NEW low \in Nat,
         \A i \in DOMAIN s : s[i] \in Nat /\ low < s[i],
         \A i, j \in DOMAIN s : i < j => s[i] < s[j]
  PROVE  \A k \in DOMAIN s : low + k <= s[k]
<1> DEFINE P == {k \in Nat : k \in DOMAIN s => low + k <= s[k]}
<1>1. 0 \in P
  OBVIOUS
<1>2. ASSUME NEW k \in Nat, k \in P PROVE k + 1 \in P
  <2> SUFFICES ASSUME k + 1 \in DOMAIN s PROVE low + (k + 1) <= s[k + 1]
    OBVIOUS
  <2>1. CASE k = 0
    BY <2>1
  <2>2. CASE k # 0
    <3>1. k \in DOMAIN s /\ k < k + 1
      BY <2>2
    <3>2. s[k] < s[k + 1] /\ s[k] \in Int /\ s[k + 1] \in Int
      BY <3>1
    <3> QED BY <1>2, <3>1, <3>2
  <2> QED BY <2>1, <2>2
<1> HIDE DEF P
<1>3. \A k \in Nat : k \in P
  BY <1>1, <1>2, SetInduction
<1> QED BY <1>3 DEF P

\* A number that is above all of a rising sequence: as many numbers as there are
\* in the sequence lie between its lower bound and it.
LEMMA RoomBelow ==
  ASSUME NEW s, Len(s) \in Nat, DOMAIN s = 1 .. Len(s), NEW low \in Nat, NEW m \in Nat, low < m,
         \A i \in DOMAIN s : s[i] \in low + 1 .. m - 1,
         \A i, j \in DOMAIN s : i < j => s[i] < s[j]
  PROVE  Len(s) < m - low
<1>1. \A k \in DOMAIN s : low + k <= s[k]
  <2>1. \A i \in DOMAIN s : s[i] \in Nat /\ low < s[i]
    OBVIOUS
  <2> QED BY <2>1, KthIsAbove
<1>2. CASE Len(s) = 0
  BY <1>2
<1>3. CASE Len(s) # 0
  <2>1. Len(s) \in DOMAIN s
    BY <1>3
  <2>2. low + Len(s) <= s[Len(s)] /\ s[Len(s)] \in low + 1 .. m - 1
    BY <1>1, <2>1
  <2> QED BY <2>2
<1> QED BY <1>2, <1>3

\* A set of numbers between two bounds has a largest one.
LEMMA LargestExists ==
  ASSUME NEW low \in Int, NEW high \in Int, NEW E \in SUBSET (low .. high), E # {}
  PROVE  \E m \in E : \A n \in E : n <= m
<1> SUFFICES ASSUME \A m \in E : \E n \in E : m < n
             PROVE  FALSE
  OBVIOUS
<1> DEFINE P == {k \in Nat : \E e \in E : e >= low + k}
<1>0. \E e \in E : e >= low + 0 /\ e <= high
  <2>1. PICK e : e \in E
    OBVIOUS
  <2>2. e \in low .. high
    BY <2>1
  <2> QED BY <2>1, <2>2
<1>1. 0 \in P
  BY <1>0
<1>2. ASSUME NEW k \in Nat, k \in P PROVE k + 1 \in P
  <2>1. PICK e \in E : e >= low + k
    BY <1>2
  <2>2. PICK n \in E : e < n
    OBVIOUS
  <2> QED BY <2>1, <2>2
<1> HIDE DEF P
<1>3. high - low + 1 \in Nat
  BY <1>0
<1>4. high - low + 1 \in P
  BY <1>1, <1>2, <1>3, SetInduction
<1> QED BY <1>3, <1>4 DEF P

\* A function on D that is defined by recursion: the arguments in S need none, and
\* the others one, of next[x], out of whose value G makes theirs.  A number, which
\* measures the argument, falls in every call.
Recursive(D, V, S, base, next, G, measure) ==
  /\ V # {} /\ measure \in [D -> Nat]
  /\ \A x \in D : x \in S => base[x] \in V
  /\ \A x \in D : x \notin S => next[x] \in D /\ measure[next[x]] < measure[x]
  /\ \A x \in D : \A y \in V : x \notin S => G[x][y] \in V

\* There is such a function.
LEMMA RecursionExists ==
  ASSUME NEW D, NEW V, NEW S, NEW base, NEW next, NEW G, NEW measure,
         Recursive(D, V, S, base, next, G, measure)
  PROVE  \E f \in [D -> V] :
           \A x \in D : f[x] = IF x \in S THEN base[x] ELSE G[x][f[next[x]]]
<1> USE DEF Recursive
<1>0. PICK v : v \in V
  OBVIOUS
<1> DEFINE Value(f, x) == IF x \in S THEN base[x] ELSE G[x][f[next[x]]]
           Solves(f, k) == f \in [D -> V] /\ \A x \in D : measure[x] < k => f[x] = Value(f, x)
           P == {k \in Nat : \E f : Solves(f, k)}
           U == {k \in Nat : \A f, g : Solves(f, k) /\ Solves(g, k) =>
                               \A x \in D : measure[x] < k => f[x] = g[x]}
<1>1. ASSUME NEW x \in D PROVE measure[x] \in Nat
  OBVIOUS
<1>2. ASSUME NEW f \in [D -> V], NEW x \in D PROVE Value(f, x) \in V
  OBVIOUS
<1>3. 0 \in P
  <2>1. Solves([x \in D |-> v], 0)
    BY <1>0, <1>1
  <2> QED BY <2>1
<1>4. ASSUME NEW k \in Nat, k \in P PROVE k + 1 \in P
  <2>1. PICK f : Solves(f, k)
    BY <1>4
  <2> DEFINE g == [x \in D |-> Value(f, x)]
  <2>2. g \in [D -> V]
    BY <1>2, <2>1
  <2>3. ASSUME NEW x \in D, measure[x] < k + 1 PROVE g[x] = Value(g, x)
    <3>1. CASE x \in S
      BY <3>1
    <3>2. CASE x \notin S
      <4>1. next[x] \in D /\ measure[next[x]] < k
        BY <1>1, <2>3, <3>2
      <4>2. g[next[x]] = f[next[x]]
        BY <2>1, <4>1
      <4> QED BY <3>2, <4>2
    <3> QED BY <3>1, <3>2
  <2> HIDE DEF g
  <2>4. Solves(g, k + 1)
    BY <2>2, <2>3
  <2> QED BY <2>4
<1>5. 0 \in U
  BY <1>1
<1>6. ASSUME NEW k \in Nat, k \in U PROVE k + 1 \in U
  <2> SUFFICES ASSUME NEW f, NEW g, Solves(f, k + 1), Solves(g, k + 1),
                      NEW x \in D, measure[x] < k + 1
               PROVE  f[x] = g[x]
    OBVIOUS
  <2>1. Solves(f, k) /\ Solves(g, k)
    BY <1>1
  <2>2. CASE x \in S
    BY <2>2
  <2>3. CASE x \notin S
    <3>1. next[x] \in D /\ measure[next[x]] < k
      BY <1>1, <2>3
    <3>2. f[next[x]] = g[next[x]]
      BY <1>6, <2>1, <3>1
    <3> QED BY <2>3, <3>2
  <2> QED BY <2>2, <2>3
<1> HIDE DEF P, U
<1>7. \A k \in Nat : k \in P /\ k \in U
  BY <1>3, <1>4, <1>5, <1>6, SetInduction
<1> DEFINE At(k) == CHOOSE f : Solves(f, k)
           h == [x \in D |-> At(measure[x] + 1)[x]]
<1>8. \A k \in Nat : Solves(At(k), k)
  BY <1>7 DEF P
<1>9. ASSUME NEW j \in Nat, NEW k \in Nat, j <= k, NEW x \in D, measure[x] < j
      PROVE  At(j)[x] = At(k)[x]
  <2>1. Solves(At(j), j) /\ Solves(At(k), k)
    BY <1>8
  <2> DEFINE f == At(j)
             g == At(k)
  <2> HIDE DEF f, g
  <2>2. Solves(f, j) /\ Solves(g, k)
    BY <2>1 DEF f, g
  <2>3. Solves(g, j)
    BY <1>1, <1>9, <2>2
  <2> HIDE DEF Solves
  <2>4. f[x] = g[x]
    BY <1>7, <1>9, <2>2, <2>3 DEF U
  <2> QED BY <2>4 DEF f, g
<1> HIDE DEF At
<1>10. ASSUME NEW x \in D PROVE h[x] \in V /\ h[x] = Value(h, x)
  <2> DEFINE k == measure[x] + 1
             f == At(k)
  <2>1. k \in Nat /\ measure[x] < k /\ Solves(f, k)
    BY <1>1, <1>8
  <2> HIDE DEF f
  <2>2. h[x] = f[x] /\ f[x] = Value(f, x) /\ f[x] \in V
    BY <2>1 DEF f
  <2>3. CASE x \in S
    BY <2>2, <2>3
  <2>4. CASE x \notin S
    <3> DEFINE y == next[x]
    <3>1. y \in D /\ measure[y] + 1 <= k /\ measure[y] + 1 \in Nat /\ measure[y] < measure[y] + 1
      BY <1>1, <2>4
    <3>2. h[y] = At(measure[y] + 1)[y]
      BY <3>1
    <3>3. At(measure[y] + 1)[y] = At(k)[y]
      BY <1>9, <2>1, <3>1
    <3> QED BY <2>2, <2>4, <3>2, <3>3 DEF f
  <2> QED BY <2>3, <2>4
<1> HIDE DEF h
<1>11. h \in [D -> V]
  BY <1>10 DEF h
<1> QED BY <1>10, <1>11

-----------------------------------------------------------------------------
(* Concatenations *)

\* One sequence behind another, as one idea.
Join(u, v) == u \o v

\* f holds the concatenations of the first sequences of s.
Flattens(f, s) ==
  f = [i \in 1 .. Len(s) |-> IF i = 1 THEN s[i] ELSE Join(f[i - 1], s[i])]

\* There is such a function.
LEMMA FlattenExists ==
  ASSUME NEW S, NEW s \in Seq(Seq(S))
  PROVE  \E f : Flattens(f, s)
<1> DEFINE F(f, k) == f = [i \in 1 .. k |-> IF i = 1 THEN s[i] ELSE Join(f[i - 1], s[i])]
           P == {k \in Nat : \E f : F(f, k)}
<1>1. 0 \in P
  <2> DEFINE f == [i \in 1 .. 0 |-> s[i]]
  <2>1. F(f, 0)
    OBVIOUS
  <2> QED BY <2>1
<1>2. ASSUME NEW k \in Nat, k \in P PROVE k + 1 \in P
  <2>1. PICK f : F(f, k)
    BY <1>2
  <2> DEFINE g == [i \in 1 .. k + 1 |->
                     IF i = k + 1 THEN IF i = 1 THEN s[i] ELSE Join(f[k], s[i]) ELSE f[i]]
  <2>2. F(g, k + 1)
    <3> SUFFICES ASSUME NEW i \in 1 .. k + 1
                 PROVE  g[i] = IF i = 1 THEN s[i] ELSE Join(g[i - 1], s[i])
      OBVIOUS
    <3>1. CASE i = k + 1
      BY <3>1
    <3>2. CASE i # k + 1
      <4>1. i \in 1 .. k /\ g[i] = f[i] /\ (i # 1 => i - 1 \in 1 .. k + 1 /\ g[i - 1] = f[i - 1])
        BY <3>2
      <4> QED BY <2>1, <4>1
    <3> QED BY <3>1, <3>2
  <2> HIDE DEF g, F
  <2>3. \E h : F(h, k + 1)
    BY <2>2
  <2> QED BY <2>3
<1> HIDE DEF P
<1>3. Len(s) \in P
  BY <1>1, <1>2, SetInduction, LenProperties
<1> QED BY <1>3 DEF P, Flattens

\* What a flattened sequence is: nothing, or one more sequence behind it.
LEMMA FlattenFacts ==
  ASSUME NEW S, NEW s \in Seq(Seq(S))
  PROVE  /\ FlattenSeq(<< >>) = << >>
         /\ FlattenSeq(s) \in Seq(S)
         /\ \A e \in Seq(S) : FlattenSeq(Append(s, e)) = FlattenSeq(s) \o e
<1>1. FlattenSeq(<< >>) = << >>
  BY DEF FlattenSeq
<1>2. ASSUME NEW t \in Seq(Seq(S)), Len(t) # 0
      PROVE  LET f == CHOOSE f : Flattens(f, t)
             IN  /\ Flattens(f, t) /\ FlattenSeq(t) = f[Len(t)]
                 /\ f[1] = t[1] /\ \A i \in 2 .. Len(t) : f[i] = Join(f[i - 1], t[i])
                 /\ \A i \in 1 .. Len(t) : f[i] \in Seq(S)
  <2> DEFINE f == CHOOSE f : Flattens(f, t)
             l == Len(t)
  <2>1. Flattens(f, t)
    BY FlattenExists
  <2>2. FlattenSeq(t) = f[l]
    BY <1>2 DEF FlattenSeq, Flattens, Join
  <2> HIDE DEF f
  <2>3. \A i \in 1 .. l : f[i] = IF i = 1 THEN t[i] ELSE Join(f[i - 1], t[i])
    BY <2>1 DEF Flattens
  <2>4. l \in Nat /\ l # 0 /\ \A i \in 1 .. l : t[i] \in Seq(S)
    BY <1>2, LenProperties, ElementOfSeq
  <2> HIDE DEF l
  <2>5. f[1] = t[1] /\ \A i \in 2 .. l : f[i] = Join(f[i - 1], t[i])
    BY <2>3, <2>4
  <2>6. \A i \in 1 .. l : f[i] \in Seq(S)
    <3> DEFINE P == {k \in Nat : k + 1 <= l => f[k + 1] \in Seq(S)}
    <3>1. 0 \in P
      BY <2>4, <2>5
    <3>2. ASSUME NEW k \in Nat, k \in P PROVE k + 1 \in P
      <4> SUFFICES ASSUME k + 1 + 1 <= l PROVE f[k + 1 + 1] \in Seq(S)
        OBVIOUS
      <4>1. k + 1 + 1 \in 2 .. l /\ k + 1 + 1 - 1 = k + 1 /\ f[k + 1] \in Seq(S)
        BY <2>4, <3>2
      <4>2. f[k + 1 + 1] = Join(f[k + 1], t[k + 1 + 1]) /\ t[k + 1 + 1] \in Seq(S)
        BY <2>4, <2>5, <4>1
      <4> QED BY <4>1, <4>2, ConcatProperties DEF Join
    <3> HIDE DEF P
    <3>3. \A k \in Nat : k \in P
      BY <3>1, <3>2, SetInduction
    <3>4. ASSUME NEW i \in 1 .. l PROVE f[i] \in Seq(S)
      <4>1. i - 1 \in Nat /\ i - 1 + 1 = i /\ i <= l
        BY <2>4
      <4> QED BY <3>3, <4>1 DEF P
    <3> QED BY <3>4
  <2> QED BY <2>1, <2>2, <2>5, <2>6 DEF f, l
<1>3. FlattenSeq(s) \in Seq(S)
  <2>1. CASE Len(s) = 0
    BY <2>1, EmptySeq DEF FlattenSeq
  <2>2. CASE Len(s) # 0
    <3>1. Len(s) \in 1 .. Len(s)
      BY <2>2, LenProperties
    <3> QED BY <1>2, <2>2, <3>1
  <2> QED BY <2>1, <2>2
<1>4. ASSUME NEW e \in Seq(S) PROVE FlattenSeq(Append(s, e)) = FlattenSeq(s) \o e
  <2> DEFINE t == Append(s, e)
             n == Len(s)
             f == CHOOSE f : Flattens(f, s)
             g == CHOOSE g : Flattens(g, t)
  <2>1. /\ t \in Seq(Seq(S)) /\ Len(t) = n + 1 /\ n \in Nat
        /\ \A i \in 1 .. n : t[i] = s[i]
        /\ t[n + 1] = e
    BY AppendProperties, LenProperties
  <2> HIDE DEF t
  <2>2. /\ FlattenSeq(t) = g[n + 1]
        /\ g[1] = t[1] /\ \A i \in 2 .. n + 1 : g[i] = Join(g[i - 1], t[i])
    <3>1. Len(t) # 0
      BY <2>1
    <3> QED BY <1>2, <2>1, <3>1
  <2>3. CASE n = 0
    <3>1. s = << >>
      BY <2>3, EmptySeq
    <3>2. FlattenSeq(t) = e
      BY <2>1, <2>2, <2>3
    <3> QED BY <1>1, <3>1, <3>2, ConcatEmptySeq DEF t
  <2>4. CASE n # 0
    <3>1. /\ FlattenSeq(s) = f[n]
          /\ f[1] = s[1] /\ \A i \in 2 .. n : f[i] = Join(f[i - 1], s[i])
      BY <1>2, <2>4
    <3> HIDE DEF f, g, n
    <3> DEFINE P == {k \in Nat : k + 1 <= n => g[k + 1] = f[k + 1]}
    <3>2. 0 \in P
      BY <2>1, <2>2, <3>1
    <3>3. ASSUME NEW k \in Nat, k \in P PROVE k + 1 \in P
      <4> SUFFICES ASSUME k + 1 + 1 <= n PROVE g[k + 1 + 1] = f[k + 1 + 1]
        OBVIOUS
      <4>1. k + 1 + 1 \in 2 .. n /\ k + 1 + 1 \in 2 .. n + 1 /\ k + 1 + 1 - 1 = k + 1 /\ g[k + 1] = f[k + 1]
        BY <2>1, <3>3
      <4>2. g[k + 1 + 1] = Join(g[k + 1], t[k + 1 + 1]) /\ f[k + 1 + 1] = Join(f[k + 1], s[k + 1 + 1])
        BY <2>2, <3>1, <4>1
      <4>3. t[k + 1 + 1] = s[k + 1 + 1]
        BY <2>1, <4>1
      <4> QED BY <4>1, <4>2, <4>3
    <3> HIDE DEF P
    <3>4. n - 1 \in P
      <4>1. n - 1 \in Nat
        BY <2>1, <2>4
      <4> QED BY <3>2, <3>3, <4>1, SetInduction
    <3>5. g[n] = f[n]
      BY <2>1, <2>4, <3>4 DEF P
    <3>6. g[n + 1] = Join(g[n], e)
      BY <2>1, <2>2, <2>4
    <3> QED BY <2>2, <3>1, <3>5, <3>6 DEF t, Join
  <2> QED BY <2>3, <2>4
<1> QED BY <1>1, <1>3, <1>4

\* What follows a sequence leaves it a prefix.
LEMMA PrefixOfConcat ==
  ASSUME NEW S, NEW s \in Seq(S), NEW t \in Seq(S)
  PROVE  IsPrefix(s, s \o t)
<1>1. Len(s) \in Nat /\ Len(t) \in Nat /\ Len(s \o t) = Len(s) + Len(t)
  BY LenProperties, ConcatProperties
<1>2. SubSeq(s, 1, Len(s)) = SubSeq(s \o t, 1, Len(s))
  <2>1. CASE Len(s) = 0
    BY <2>1, SubSeqEmpty
  <2>2. CASE Len(s) # 0
    <3>1. 1 \in 1 .. Len(s) /\ Len(s) \in 1 .. Len(s)
      BY <1>1, <2>2
    <3> QED BY <3>1, SubSeqOfConcat1
  <2> QED BY <2>1, <2>2
<1> QED BY <1>1, <1>2 DEF IsPrefix

\* A sequence put in front of others is the beginning of what they flatten to.
LEMMA FlattenPrepends ==
  ASSUME NEW S, NEW s \in Seq(Seq(S)), NEW w \in Seq(S)
  PROVE  FlattenSeq(<<w>> \o s) = w \o FlattenSeq(s)
<1> DEFINE T == {t \in Seq(Seq(S)) : FlattenSeq(<<w>> \o t) = w \o FlattenSeq(t)}
<1>0. << >> \in Seq(Seq(S)) /\ << >> \in Seq(S) /\ <<w>> \in Seq(Seq(S))
  BY EmptySeq
<1>1. << >> \in T
  <2>1. <<w>> \o << >> = <<w>>
    BY <1>0, ConcatEmptySeq
  <2>2. FlattenSeq(<<w>>) = w
    <3>1. <<w>> = Append(<< >>, w)
      OBVIOUS
    <3>2. FlattenSeq(Append(<< >>, w)) = FlattenSeq(<< >>) \o w /\ FlattenSeq(<< >>) = << >>
      BY <1>0, FlattenFacts
    <3>3. << >> \o w = w
      BY ConcatEmptySeq
    <3> QED BY <3>1, <3>2, <3>3
  <2>3. FlattenSeq(<< >>) = << >>
    BY <1>0, FlattenFacts
  <2> QED BY <1>0, <2>1, <2>2, <2>3, ConcatEmptySeq
<1>2. ASSUME NEW t \in Seq(Seq(S)), NEW e \in Seq(S), t \in T PROVE Append(t, e) \in T
  <2> DEFINE u == <<w>> \o t
  <2>1. u \in Seq(Seq(S)) /\ Append(t, e) \in Seq(Seq(S))
    BY <1>0, ConcatProperties, AppendProperties
  <2>2. <<w>> \o Append(t, e) = Append(u, e)
    <3>1. Append(t, e) = t \o <<e>> /\ Append(u, e) = u \o <<e>>
      BY <2>1, AppendIsConcat
    <3>2. <<e>> \in Seq(Seq(S))
      OBVIOUS
    <3>3. (<<w>> \o t) \o <<e>> = <<w>> \o (t \o <<e>>)
      BY <1>0, <3>2, ConcatAssociative
    <3> QED BY <3>1, <3>3
  <2> DEFINE ft == FlattenSeq(t)
  <2>3. FlattenSeq(Append(t, e)) = ft \o e /\ ft \in Seq(S)
    BY FlattenFacts
  <2>4. FlattenSeq(Append(u, e)) = FlattenSeq(u) \o e
    BY <2>1, FlattenFacts
  <2>5. FlattenSeq(u) = w \o ft
    BY <1>2
  <2> HIDE DEF u, ft
  <2>6. (w \o ft) \o e = w \o (ft \o e)
    BY <2>3, ConcatAssociative
  <2> QED BY <2>1, <2>2, <2>3, <2>4, <2>5, <2>6
<1> HIDE DEF T
<1>3. s \in T
  BY <1>1, <1>2, SequenceInduction
<1> QED BY <1>3 DEF T

\* An element appended to the second of two sequences.
LEMMA ConcatAppends ==
  ASSUME NEW S, NEW s \in Seq(S), NEW t \in Seq(S), NEW e \in S
  PROVE  s \o Append(t, e) = Append(s \o t, e)
<1> DEFINE u == s \o t
           w == <<e>>
<1>1. u \in Seq(S) /\ w \in Seq(S) /\ Append(t, e) = t \o w
  BY AppendIsConcat, ConcatProperties
<1>2. s \o (t \o w) = u \o w
  <2>1. w \in Seq(S)
    BY <1>1
  <2> HIDE DEF w
  <2> QED BY <2>1, ConcatAssociative
<1>3. Append(u, e) = u \o w
  <2>1. u \in Seq(S)
    BY <1>1
  <2> HIDE DEF u
  <2> QED BY <2>1, AppendIsConcat
<1> QED BY <1>1, <1>2, <1>3

\* A sequence that is two others, one behind the other.
LEMMA IsConcat ==
  ASSUME NEW S, NEW b \in Seq(S), NEW s \in Seq(S), NEW t \in Seq(S),
         Len(b) = Len(s) + Len(t),
         \A i \in 1 .. Len(b) : b[i] = IF i <= Len(s) THEN s[i] ELSE t[i - Len(s)]
  PROVE  s \o t = b
<1> DEFINE u == s \o t
           l == Len(b)
<1>1. /\ u \in Seq(S) /\ Len(u) = Len(s) + Len(t)
      /\ \A i \in 1 .. Len(s) + Len(t) : u[i] = IF i <= Len(s) THEN s[i] ELSE t[i - Len(s)]
  BY ConcatProperties
<1> HIDE DEF u
<1>2. Len(u) = l /\ \A i \in 1 .. l : u[i] = b[i]
  BY <1>1
<1>3. u = b
  BY <1>1, <1>2, SeqEqual
<1> QED BY <1>3 DEF u

-----------------------------------------------------------------------------
(* Folds *)

\* An operator on values V and elements S, as a function, and a value to begin with.
Foldable(V, S, base, G) == base \in V /\ G \in [V -> [S -> V]]

\* The function FoldLeft computes, for the set of indices of a sequence: with G[v][e]
\* for the operator.
Iterates(V, base, G, seq, f) ==
  \A s \in SUBSET DOMAIN seq :
    /\ s = {} => f[s] = base
    /\ s # {} /\ f[s \ {Max(s)}] \in V => f[s] = G[f[s \ {Max(s)}]][seq[Max(s)]]

\* Such a function whose values are all of V.
Iteration(V, base, G, seq, f) ==
  /\ f \in [SUBSET DOMAIN seq -> V]
  /\ \A s \in SUBSET DOMAIN seq :
       f[s] = IF s = {} THEN base ELSE G[f[s \ {Max(s)}]][seq[Max(s)]]

\* The values of a fold after each element, and after the last.
Folds(V, base, G, seq, h) ==
  /\ h \in [0 .. Len(seq) -> V] /\ h[0] = base
  /\ \A k \in 1 .. Len(seq) : h[k] = G[h[k - 1]][seq[k]]
Folded(V, base, G, seq) == (CHOOSE h : Folds(V, base, G, seq, h))[Len(seq)]

\* The maximum of a set of positions.
LEMMA MaxFacts ==
  ASSUME NEW n \in Nat
  PROVE  /\ \A s \in SUBSET (1 .. n) : s # {} =>
              /\ Max(s) \in s /\ Max(s) \in 1 .. n
              /\ \A y \in s : y <= Max(s)
         /\ \A k \in 1 .. n : Max(1 .. k) = k /\ (1 .. k) \ {k} = 1 .. k - 1
<1>1. ASSUME NEW s \in SUBSET (1 .. n), s # {}
      PROVE  Max(s) \in s /\ Max(s) \in 1 .. n /\ \A y \in s : y <= Max(s)
  <2>1. \E m \in s : \A y \in s : y <= m
    <3>1. 1 \in Int /\ n \in Int
      OBVIOUS
    <3> QED BY <1>1, <3>1, LargestExists
  <2>2. \E m \in s : \A y \in s : m >= y
    BY <2>1
  <2>3. Max(s) \in s /\ \A y \in s : Max(s) >= y
    BY <2>2 DEF Max
  <2> QED BY <2>3
<1>2. ASSUME NEW k \in 1 .. n PROVE Max(1 .. k) = k /\ (1 .. k) \ {k} = 1 .. k - 1
  <2>1. 1 .. k \in SUBSET (1 .. n) /\ k \in 1 .. k
    OBVIOUS
  <2>2. Max(1 .. k) \in 1 .. k /\ k <= Max(1 .. k)
    BY <1>1, <2>1
  <2> QED BY <2>2
<1> QED BY <1>1, <1>2

\* The functions for sequences that agree at the beginning agree there.
LEMMA FoldsAgree ==
  ASSUME NEW V, NEW S, NEW base, NEW G, Foldable(V, S, base, G),
         NEW s \in Seq(S), NEW t \in Seq(S), NEW f, NEW h,
         Folds(V, base, G, s, f), Folds(V, base, G, t, h),
         Len(s) <= Len(t), \A i \in 1 .. Len(s) : s[i] = t[i]
  PROVE  \A k \in 0 .. Len(s) : f[k] = h[k]
<1>1. Len(s) \in Nat /\ Len(t) \in Nat
  BY LenProperties
<1> DEFINE P == {k \in Nat : k <= Len(s) => f[k] = h[k]}
<1>2. 0 \in P
  BY DEF Folds
<1>3. ASSUME NEW k \in Nat, k \in P PROVE k + 1 \in P
  <2> SUFFICES ASSUME k + 1 <= Len(s) PROVE f[k + 1] = h[k + 1]
    OBVIOUS
  <2>1. k + 1 \in 1 .. Len(s) /\ k + 1 \in 1 .. Len(t) /\ k + 1 - 1 = k
    BY <1>1
  <2>2. f[k] = h[k] /\ s[k + 1] = t[k + 1]
    BY <1>1, <1>3, <2>1
  <2>3. f[k + 1] = G[f[k]][s[k + 1]] /\ h[k + 1] = G[h[k]][t[k + 1]]
    BY <2>1 DEF Folds
  <2> QED BY <2>2, <2>3
<1> HIDE DEF P
<1>4. \A k \in Nat : k \in P
  BY <1>2, <1>3, SetInduction
<1> QED BY <1>1, <1>4 DEF P

\* There is a fold of every sequence.
LEMMA FoldsExist ==
  ASSUME NEW V, NEW S, NEW base, NEW G, Foldable(V, S, base, G), NEW s \in Seq(S)
  PROVE  \E h : Folds(V, base, G, s, h)
<1>0. /\ Len(s) \in Nat /\ \A i \in 1 .. Len(s) : s[i] \in S
      /\ base \in V /\ G \in [V -> [S -> V]]
  BY LenProperties, ElementOfSeq DEF Foldable
<1> DEFINE F(h, n) == /\ h \in [0 .. n -> V] /\ h[0] = base
                      /\ \A k \in 1 .. n : h[k] = G[h[k - 1]][s[k]]
           P == {n \in Nat : n <= Len(s) => \E h : F(h, n)}
<1>1. 0 \in P
  <2>1. F([k \in 0 .. 0 |-> base], 0)
    BY <1>0
  <2> HIDE DEF F
  <2> QED BY <2>1
<1>2. ASSUME NEW n \in Nat, n \in P PROVE n + 1 \in P
  <2> SUFFICES ASSUME n + 1 <= Len(s) PROVE \E h : F(h, n + 1)
    <3> HIDE DEF F
    <3> QED OBVIOUS
  <2>1. PICK h : F(h, n)
    <3>1. n <= Len(s)
      BY <1>0
    <3> HIDE DEF F
    <3> QED BY <1>2, <3>1
  <2> DEFINE v == G[h[n]][s[n + 1]]
             g == [k \in 0 .. n + 1 |-> IF k = n + 1 THEN v ELSE h[k]]
  <2>2. v \in V
    <3>1. h[n] \in V /\ s[n + 1] \in S
      BY <1>0, <2>1
    <3> QED BY <1>0, <3>1
  <2>3. g \in [0 .. n + 1 -> V] /\ g[0] = base
    BY <2>1, <2>2
  <2>4. ASSUME NEW k \in 1 .. n + 1 PROVE g[k] = G[g[k - 1]][s[k]]
    <3>1. CASE k = n + 1
      BY <3>1
    <3>2. CASE k # n + 1
      <4>1. k \in 1 .. n /\ k - 1 \in 0 .. n /\ g[k] = h[k] /\ g[k - 1] = h[k - 1]
        BY <3>2
      <4> QED BY <2>1, <4>1
    <3> QED BY <3>1, <3>2
  <2> HIDE DEF g
  <2>5. F(g, n + 1)
    BY <2>3, <2>4
  <2> HIDE DEF F
  <2> QED BY <2>5
<1> HIDE DEF P
<1>3. Len(s) \in P
  BY <1>0, <1>1, <1>2, SetInduction
<1>4. PICK h : F(h, Len(s))
  <2>1. Len(s) <= Len(s)
    BY <1>0
  <2> HIDE DEF F
  <2> QED BY <1>3, <2>1 DEF P
<1>5. Folds(V, base, G, s, h)
  BY <1>4 DEF Folds
<1> QED BY <1>5

\* A fold goes through the elements one by one.
LEMMA FoldedFacts ==
  ASSUME NEW V, NEW S, NEW base, NEW G, Foldable(V, S, base, G)
  PROVE  /\ Folded(V, base, G, << >>) = base
         /\ \A s \in Seq(S) : Folded(V, base, G, s) \in V
         /\ \A s \in Seq(S) : \A e \in S :
              Folded(V, base, G, Append(s, e)) = G[Folded(V, base, G, s)][e]
         /\ \A s \in Seq(S) : \A h :
              Folds(V, base, G, s, h) => h[Len(s)] = Folded(V, base, G, s)
<1> DEFINE f(s) == CHOOSE h : Folds(V, base, G, s, h)
<1>1. ASSUME NEW s \in Seq(S)
      PROVE  /\ Folds(V, base, G, s, f(s)) /\ Folded(V, base, G, s) = f(s)[Len(s)]
             /\ Len(s) \in Nat
    BY FoldsExist, LenProperties DEF Folded
<1> HIDE DEF f
<1>2. Folded(V, base, G, << >>) = base
  <2>1. << >> \in Seq(S) /\ Len(<< >>) = 0
    BY EmptySeq
  <2> QED BY <1>1, <2>1 DEF Folds
<1>3. ASSUME NEW s \in Seq(S) PROVE Folded(V, base, G, s) \in V
  <2>1. Len(s) \in 0 .. Len(s)
    BY <1>1
  <2> QED BY <1>1, <2>1 DEF Folds
<1>4. ASSUME NEW s \in Seq(S), NEW e \in S
      PROVE  Folded(V, base, G, Append(s, e)) = G[Folded(V, base, G, s)][e]
  <2> DEFINE t == Append(s, e)
             n == Len(s)
  <2>1. /\ t \in Seq(S) /\ Len(t) = n + 1 /\ n \in Nat
        /\ \A i \in 1 .. n : t[i] = s[i]
        /\ t[n + 1] = e
    BY AppendProperties, LenProperties
  <2> HIDE DEF t
  <2>2. Folds(V, base, G, s, f(s)) /\ Folds(V, base, G, t, f(t))
    BY <1>1, <2>1
  <2>3. f(s)[n] = f(t)[n]
    <3>1. \A k \in 0 .. n : f(s)[k] = f(t)[k]
      BY <2>1, <2>2, FoldsAgree
    <3> QED BY <2>1, <3>1
  <2>4. f(t)[n + 1] = G[f(t)[n]][e]
    <3>1. n + 1 \in 1 .. n + 1 /\ n + 1 - 1 = n
      BY <2>1
    <3> QED BY <2>1, <2>2, <3>1 DEF Folds
  <2> QED BY <1>1, <2>1, <2>3, <2>4 DEF t
<1>5. ASSUME NEW s \in Seq(S), NEW h, Folds(V, base, G, s, h)
      PROVE  h[Len(s)] = Folded(V, base, G, s)
  <2>1. PICK g : g = f(s)
    OBVIOUS
  <2>2. Folds(V, base, G, s, g) /\ Folded(V, base, G, s) = g[Len(s)] /\ Len(s) \in 0 .. Len(s)
    BY <1>1, <2>1
  <2>3. \A k \in 0 .. Len(s) : h[k] = g[k]
    <3>1. Len(s) <= Len(s) /\ \A i \in 1 .. Len(s) : s[i] = s[i]
      BY <1>1
    <3> QED BY <1>5, <2>2, <3>1, FoldsAgree
  <2> QED BY <2>2, <2>3
<1> QED BY <1>2, <1>3, <1>4, <1>5

\* Folding two sequences, one behind the other, goes on from the fold of the first.
LEMMA FoldedConcat ==
  ASSUME NEW V, NEW S, NEW base, NEW G, Foldable(V, S, base, G),
         NEW s \in Seq(S), NEW t \in Seq(S)
  PROVE  Folded(V, base, G, s \o t) = Folded(V, Folded(V, base, G, s), G, t)
<1> DEFINE b == Folded(V, base, G, s)
           T == {u \in Seq(S) : Folded(V, base, G, s \o u) = Folded(V, b, G, u)}
<1>0. Foldable(V, S, b, G)
  <2>1. b \in V
    BY FoldedFacts
  <2> QED BY <2>1 DEF Foldable
<1>1. << >> \in T
  <2>1. s \o << >> = s /\ << >> \in Seq(S)
    BY ConcatEmptySeq, EmptySeq
  <2>2. Folded(V, b, G, << >>) = b
    <3> HIDE DEF b
    <3> QED BY <1>0, FoldedFacts
  <2> QED BY <2>1, <2>2
<1>2. ASSUME NEW u \in Seq(S), NEW e \in S, u \in T PROVE Append(u, e) \in T
  <2> DEFINE v == s \o u
  <2>1. s \o Append(u, e) = Append(v, e) /\ v \in Seq(S) /\ Append(u, e) \in Seq(S)
    <3>1. Append(u, e) = u \o <<e>> /\ <<e>> \in Seq(S) /\ v \in Seq(S)
      BY AppendIsConcat, ConcatProperties
    <3>2. Append(v, e) = v \o <<e>>
      <4> HIDE DEF v
      <4> QED BY <3>1, AppendIsConcat
    <3>3. s \o (u \o <<e>>) = (s \o u) \o <<e>>
      BY <3>1, ConcatAssociative
    <3> QED BY <3>1, <3>2, <3>3, AppendProperties
  <2>2. Folded(V, base, G, v) = Folded(V, b, G, u)
    BY <1>2
  <2> HIDE DEF v, b
  <2>3. Folded(V, base, G, Append(v, e)) = G[Folded(V, base, G, v)][e]
    BY <2>1, FoldedFacts
  <2>4. Folded(V, b, G, Append(u, e)) = G[Folded(V, b, G, u)][e]
    BY <1>0, FoldedFacts
  <2> QED BY <2>1, <2>2, <2>3, <2>4
<1> HIDE DEF T
<1>3. t \in T
  BY <1>1, <1>2, SequenceInduction
<1> QED BY <1>3 DEF T

\* What FoldLeft computes is a fold: its function exists, and gives the same.
LEMMA IterationExists ==
  ASSUME NEW V, NEW S, NEW base, NEW G, Foldable(V, S, base, G), NEW seq \in Seq(S)
  PROVE  \E f : Iteration(V, base, G, seq, f)
<1> DEFINE n == Len(seq)
           D == SUBSET (1 .. n)
           E == {{}}
           first == [s \in D |-> base]
           next == [s \in D |-> s \ {Max(s)}]
           H == [s \in D |-> [v \in V |-> G[v][seq[Max(s)]]]]
           measure == [s \in D |-> IF s = {} THEN 0 ELSE Max(s)]
<1>1. /\ n \in Nat /\ DOMAIN seq = 1 .. n /\ \A i \in 1 .. n : seq[i] \in S
      /\ base \in V /\ G \in [V -> [S -> V]]
  BY LenProperties, ElementOfSeq DEF Foldable
<1> HIDE DEF n
<1>2. \A s \in SUBSET (1 .. n) : s # {} => Max(s) \in s /\ Max(s) \in 1 .. n /\ \A y \in s : y <= Max(s)
  BY <1>1, MaxFacts
<1>3. Recursive(D, V, E, first, next, H, measure)
  <2>1. measure \in [D -> Nat]
    <3>1. \A s \in D : s # {} => Max(s) \in Nat
      BY <1>2
    <3> QED BY <3>1
  <2>2. ASSUME NEW s \in D, s \notin E
        PROVE  next[s] \in D /\ measure[next[s]] < measure[s]
    <3> DEFINE r == s \ {Max(s)}
    <3>1. next[s] = r /\ r \in D /\ s # {} /\ Max(s) \in 1 .. n /\ measure[s] = Max(s)
      BY <1>2, <2>2
    <3>2. CASE r = {}
      BY <1>1, <3>1, <3>2
    <3>3. CASE r # {}
      <4>1. Max(r) \in r /\ measure[r] = Max(r)
        BY <1>2, <3>1, <3>3
      <4>2. Max(r) <= Max(s) /\ Max(r) # Max(s) /\ Max(r) \in 1 .. n
        BY <1>2, <3>1, <4>1
      <4>3. Max(r) < Max(s)
        BY <1>1, <3>1, <4>2
      <4> HIDE DEF r, measure, next, D
      <4> QED BY <3>1, <4>1, <4>3
    <3> QED BY <3>2, <3>3
  <2>3. ASSUME NEW s \in D, s \notin E, NEW v \in V PROVE H[s][v] \in V
    <3>1. seq[Max(s)] \in S
      BY <1>1, <1>2, <2>3
    <3> QED BY <1>1, <3>1
  <2>4. \A s \in D : s \in E => first[s] \in V
    BY <1>1
  <2>5. V # {}
    BY <1>1
  <2> HIDE DEF D, E, first, next, H, measure
  <2> QED BY <2>1, <2>2, <2>3, <2>4, <2>5 DEF Recursive
<1> HIDE DEF measure
<1>4. PICK f \in [D -> V] : \A s \in D : f[s] = IF s \in E THEN first[s] ELSE H[s][f[next[s]]]
  <2> HIDE DEF D, E, first, next, H
  <2> QED BY <1>3, RecursionExists
<1>5. ASSUME NEW s \in D PROVE f[s] = IF s = {} THEN base ELSE G[f[s \ {Max(s)}]][seq[Max(s)]]
  <2>1. CASE s = {}
    BY <1>4, <2>1
  <2>2. CASE s # {}
    <3>1. s \notin E /\ next[s] = s \ {Max(s)} /\ next[s] \in D
      BY <2>2
    <3>2. f[s] = H[s][f[next[s]]]
      <4> HIDE DEF H, E, next
      <4> QED BY <1>4, <3>1
    <3> DEFINE v == f[next[s]]
    <3>3. v \in V
      BY <1>4, <3>1
    <3> HIDE DEF v
    <3>4. H[s][v] = G[v][seq[Max(s)]]
      BY <3>3
    <3> QED BY <2>2, <3>1, <3>2, <3>4 DEF v
  <2> QED BY <2>1, <2>2
<1>6. Iteration(V, base, G, seq, f)
  BY <1>1, <1>4, <1>5 DEF Iteration
<1> QED BY <1>6

\* A function that iterates over the sets of positions computes the fold.
LEMMA IterationFolds ==
  ASSUME NEW V, NEW S, NEW base, NEW G, Foldable(V, S, base, G), NEW seq \in Seq(S),
         NEW f, Iterates(V, base, G, seq, f)
  PROVE  f[DOMAIN seq] = Folded(V, base, G, seq)
<1> DEFINE n == Len(seq)
           h == [k \in 0 .. n |-> f[1 .. k]]
<1>1. /\ n \in Nat /\ DOMAIN seq = 1 .. n /\ \A i \in 1 .. n : seq[i] \in S
      /\ base \in V /\ G \in [V -> [S -> V]]
  BY LenProperties, ElementOfSeq DEF Foldable
<1> HIDE DEF n
<1>2. f[1 .. 0] = base
  <2>1. 1 .. 0 = {}
    OBVIOUS
  <2> QED BY <2>1 DEF Iterates
<1>3. ASSUME NEW k \in 1 .. n, f[1 .. k - 1] \in V
      PROVE  f[1 .. k] = G[f[1 .. k - 1]][seq[k]]
  <2> DEFINE s == 1 .. k
  <2>1. s \in SUBSET DOMAIN seq /\ s # {}
    <3>1. k \in s /\ \A i \in s : i \in 1 .. n
      BY <1>1
    <3> HIDE DEF s
    <3> QED BY <1>1, <3>1
  <2>2. Max(s) = k /\ s \ {k} = 1 .. k - 1
    BY <1>1, MaxFacts
  <2> HIDE DEF s
  <2>3. f[s \ {Max(s)}] \in V
    BY <1>3, <2>2
  <2>4. f[s] = G[f[s \ {Max(s)}]][seq[Max(s)]]
    BY <2>1, <2>3 DEF Iterates
  <2> QED BY <2>2, <2>4 DEF s
<1> DEFINE P == {k \in Nat : k <= n => f[1 .. k] \in V}
<1>4. 0 \in P
  BY <1>1, <1>2
<1>5. ASSUME NEW k \in Nat, k \in P PROVE k + 1 \in P
  <2> SUFFICES ASSUME k + 1 <= n PROVE f[1 .. (k + 1)] \in V
    OBVIOUS
  <2>1. k + 1 \in 1 .. n /\ (k + 1) - 1 = k /\ f[1 .. k] \in V
    BY <1>1, <1>5
  <2>2. f[1 .. (k + 1)] = G[f[1 .. k]][seq[k + 1]]
    BY <1>3, <2>1
  <2>3. seq[k + 1] \in S
    BY <1>1, <2>1
  <2> QED BY <1>1, <2>1, <2>2, <2>3
<1> HIDE DEF P
<1>6. \A k \in 0 .. n : f[1 .. k] \in V
  <2>1. \A k \in Nat : k \in P
    BY <1>4, <1>5, SetInduction
  <2> QED BY <1>1, <2>1 DEF P
<1>7. Folds(V, base, G, seq, h)
  <2>1. h \in [0 .. n -> V] /\ h[0] = base
    BY <1>1, <1>2, <1>6
  <2>2. ASSUME NEW k \in 1 .. n PROVE h[k] = G[h[k - 1]][seq[k]]
    <3>1. k \in 0 .. n /\ k - 1 \in 0 .. n
      BY <1>1
    <3> QED BY <1>3, <1>6, <3>1
  <2> HIDE DEF h
  <2> QED BY <2>1, <2>2 DEF Folds, n
<1>8. h[n] = f[1 .. n]
  BY <1>1
<1> HIDE DEF h
<1>9. h[n] = Folded(V, base, G, seq)
  BY <1>7, FoldedFacts DEF n
<1> QED BY <1>1, <1>8, <1>9
=============================================================================
