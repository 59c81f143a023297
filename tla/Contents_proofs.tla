--------------------------- MODULE Contents_proofs ---------------------------
(***************************************************************************)
(* Proofs about what a datagram of the information sharing says.           *)
(*                                                                         *)
(* The first part is about the names in it, for every dictionary and every *)
(* text: the loop of serializeTextImpl computes the greedy parse.  The     *)
(* parse is a recursive function of the position in the text, so that the  *)
(* facts about it are inductions from the end of the text.                 *)
(*                                                                         *)
(* The second part is about the other fields, for any set of calls, poses  *)
(* of any size and a buffer of any size: what a receiver stores is what    *)
(* one call said.                                                          *)
(***************************************************************************)
EXTENDS SerializeDict, SharingData, SequenceLemmas

-----------------------------------------------------------------------------
(* The greedy parse *)

\* Where the words that begin at p end, and where the longest of them ends.
Ends(p) == {e \in p .. Len(text) : Listed(SubSeq(text, p, e))}
Longest(p) == CHOOSE m \in Ends(p) : \A n \in Ends(p) : n <= m

\* f holds the parses of the text from every position.
Parses(f) ==
  f = [p \in 1 .. Len(text) + 1 |->
         IF Ends(p) = {} THEN << >>
         ELSE <<SubSeq(text, p, Longest(p))>> \o f[Longest(p) + 1]]

Parse == CHOOSE f : Parses(f)

\* It is the recursive function GreedyParse defines.
LEMMA GreedyParseIsParse == GreedyParse = Parse[1]
BY DEF GreedyParse, Parse, Parses, Ends, Longest

\* Where a word begins, there is a longest one.
LEMMA LongestFacts ==
  ASSUME text \in Seq(Nat), NEW p \in Nat, Ends(p) # {}
  PROVE  /\ Longest(p) \in Ends(p) /\ Longest(p) \in p .. Len(text)
         /\ \A n \in Ends(p) : n <= Longest(p)
<1> DEFINE E == Ends(p)
           l == Len(text)
<1>1. l \in Int /\ p \in Int /\ E \in SUBSET (p .. l) /\ E # {}
  BY LenProperties DEF Ends
<1> HIDE DEF E, l
<1>2. \E m \in E : \A n \in E : n <= m
  BY <1>1, LargestExists
<1> QED BY <1>1, <1>2 DEF Longest, E, l

\* There is such a function: an induction from the end of the text.
LEMMA ParseExists ==
  ASSUME text \in Seq(Nat)
  PROVE  \E f : Parses(f)
<1> DEFINE l == Len(text)
           F(f, k) == f = [p \in l + 1 - k .. l + 1 |->
                             IF Ends(p) = {} THEN << >>
                             ELSE <<SubSeq(text, p, Longest(p))>> \o f[Longest(p) + 1]]
           P == {k \in Nat : k <= l => \E f : F(f, k)}
<1>1. l \in Nat
  BY LenProperties
<1>2. \A p \in Nat : Ends(p) # {} => Longest(p) \in p .. l
  BY LongestFacts
<1>3. Ends(l + 1) = {}
  BY <1>1 DEF Ends
<1> HIDE DEF l, F
<1>4. 0 \in P
  <2> DEFINE f == [p \in l + 1 - 0 .. l + 1 |-> << >>]
  <2>1. F(f, 0)
    BY <1>1, <1>3 DEF F
  <2> QED BY <2>1
<1>5. ASSUME NEW k \in Nat, k \in P PROVE k + 1 \in P
  <2> SUFFICES ASSUME k + 1 <= l PROVE \E f : F(f, k + 1)
    OBVIOUS
  <2>1. PICK f : F(f, k)
    BY <1>1, <1>5
  <2> DEFINE g == [p \in l + 1 - (k + 1) .. l + 1 |->
                     IF p = l - k
                     THEN IF Ends(p) = {} THEN << >>
                          ELSE <<SubSeq(text, p, Longest(p))>> \o f[Longest(p) + 1]
                     ELSE f[p]]
  <2>2. ASSUME NEW p \in l + 1 - (k + 1) .. l + 1
        PROVE  g[p] = IF Ends(p) = {} THEN << >>
                      ELSE <<SubSeq(text, p, Longest(p))>> \o g[Longest(p) + 1]
    <3>1. p \in Nat /\ (Ends(p) # {} => Longest(p) + 1 \in l + 1 - k .. l + 1 /\ Longest(p) + 1 # l - k)
      BY <1>1, <1>2
    <3>2. Ends(p) # {} => g[Longest(p) + 1] = f[Longest(p) + 1]
      BY <1>1, <3>1
    <3>3. CASE p = l - k
      BY <3>2, <3>3
    <3>4. CASE p # l - k
      <4>1. p \in l + 1 - k .. l + 1 /\ g[p] = f[p]
        BY <1>1, <3>4
      <4>2. f[p] = IF Ends(p) = {} THEN << >>
                   ELSE <<SubSeq(text, p, Longest(p))>> \o f[Longest(p) + 1]
        BY <2>1, <4>1 DEF F
      <4> QED BY <3>2, <4>1, <4>2
    <3> QED BY <3>3, <3>4
  <2>3. F(g, k + 1)
    BY <2>2 DEF F
  <2> HIDE DEF g
  <2> QED BY <2>3
<1> HIDE DEF P
<1>6. l \in P
  BY <1>1, <1>4, <1>5, SetInduction
<1>7. \E f : F(f, l)
  BY <1>1, <1>6 DEF P
<1>8. l + 1 - l = 1
  BY <1>1
<1> QED BY <1>7, <1>8 DEF Parses, F, l

\* What the parse from a position is: nothing, or the longest word and the
\* parse of the rest.
LEMMA ParseFacts ==
  ASSUME text \in Seq(Nat), NEW p \in 1 .. Len(text) + 1
  PROVE  /\ Ends(p) = {} => Parse[p] = << >>
         /\ Ends(p) # {} =>
              Parse[p] = <<SubSeq(text, p, Longest(p))>> \o Parse[Longest(p) + 1]
BY ParseExists DEF Parses, Parse

\* Words of the dictionary, one behind the other.
WordLists == {w \in Seq(Seq(Nat)) : \A i \in DOMAIN w : Listed(w[i])}

\* All parts of the parse are words of the dictionary.
LEMMA ParseIsWords ==
  ASSUME text \in Seq(Nat), NEW p \in 1 .. Len(text) + 1
  PROVE  Parse[p] \in WordLists
<1> DEFINE l == Len(text)
           P == {k \in Nat : \A q \in 1 .. l + 1 : q + k >= l + 1 => Parse[q] \in WordLists}
<1>1. l \in Nat
  BY LenProperties
<1>2. << >> \in WordLists
  BY EmptySeq DEF WordLists
<1>3. \A q \in 1 .. l + 1 : (Ends(q) = {} => Parse[q] = << >>)
           /\ (Ends(q) # {} => Parse[q] = <<SubSeq(text, q, Longest(q))>> \o Parse[Longest(q) + 1])
  BY ParseFacts
<1>4. ASSUME NEW q \in 1 .. l + 1, Ends(q) # {}
      PROVE  Longest(q) \in q .. l /\ <<SubSeq(text, q, Longest(q))>> \in WordLists
  <2>1. q \in Nat /\ Longest(q) \in q .. l /\ Longest(q) \in Ends(q)
    BY <1>1, <1>4, LongestFacts
  <2>2. Listed(SubSeq(text, q, Longest(q)))
    BY <2>1 DEF Ends
  <2>3. SubSeq(text, q, Longest(q)) \in Seq(Nat)
    <3>1. \A i \in q .. Longest(q) : text[i] \in Nat
      BY <1>1, <2>1, ElementOfSeq
    <3> QED BY <1>1, <2>1, <3>1, SubSeqProperties
  <2> DEFINE w == SubSeq(text, q, Longest(q))
  <2> HIDE DEF w
  <2>4. w \in Seq(Nat) /\ Listed(w)
    BY <2>2, <2>3 DEF w
  <2>5. <<w>> \in WordLists
    BY <2>4 DEF WordLists
  <2> QED BY <2>1, <2>5 DEF w
<1>5. \A v, w \in WordLists : v \o w \in WordLists
  <2> SUFFICES ASSUME NEW v \in WordLists, NEW w \in WordLists PROVE v \o w \in WordLists
    OBVIOUS
  <2>1. v \in Seq(Seq(Nat)) /\ w \in Seq(Seq(Nat))
    BY DEF WordLists
  <2>2. Len(v) \in Nat /\ Len(w) \in Nat /\ DOMAIN v = 1 .. Len(v) /\ DOMAIN w = 1 .. Len(w)
    BY <2>1, LenProperties
  <2> DEFINE c == v \o w
  <2>3. c \in Seq(Seq(Nat)) /\ Len(c) = Len(v) + Len(w)
        /\ \A i \in 1 .. Len(v) + Len(w) : c[i] = IF i <= Len(v) THEN v[i] ELSE w[i - Len(v)]
    BY <2>1, ConcatProperties
  <2>4. DOMAIN c = 1 .. Len(c)
    BY <2>3, LenProperties
  <2> HIDE DEF c
  <2>5. ASSUME NEW i \in DOMAIN c PROVE Listed(c[i])
    <3>1. CASE i <= Len(v)
      BY <2>2, <2>3, <2>4, <3>1 DEF WordLists
    <3>2. CASE ~(i <= Len(v))
      <4>1. i - Len(v) \in DOMAIN w
        BY <2>2, <2>3, <2>4, <3>2
      <4> QED BY <2>2, <2>3, <2>4, <3>2, <4>1 DEF WordLists
    <3> QED BY <3>1, <3>2
  <2> QED BY <2>3, <2>5 DEF WordLists, c
<1> HIDE DEF l
<1>6. 0 \in P
  <2> SUFFICES ASSUME NEW q \in 1 .. l + 1, q + 0 >= l + 1 PROVE Parse[q] \in WordLists
    OBVIOUS
  <2>1. q = l + 1 /\ q .. l = {}
    BY <1>1
  <2>2. ~(Ends(q) # {})
    BY <1>4, <2>1
  <2> QED BY <1>2, <1>3, <2>2
<1>7. ASSUME NEW k \in Nat, k \in P PROVE k + 1 \in P
  <2> SUFFICES ASSUME NEW q \in 1 .. l + 1, q + (k + 1) >= l + 1 PROVE Parse[q] \in WordLists
    OBVIOUS
  <2>1. CASE Ends(q) = {}
    BY <1>2, <1>3, <2>1
  <2>2. CASE Ends(q) # {}
    <3>0. Longest(q) \in q .. l
      BY <1>4, <2>2
    <3>1. Longest(q) + 1 \in 1 .. l + 1 /\ Longest(q) + 1 + k >= l + 1
      BY <1>1, <3>0
    <3>2. Parse[Longest(q) + 1] \in WordLists
      BY <1>7, <3>1
    <3> QED BY <1>3, <1>4, <1>5, <2>2, <3>2
  <2> QED BY <2>1, <2>2
<1> HIDE DEF P
<1>8. l + 1 \in Nat /\ l + 1 \in P
  BY <1>1, <1>6, <1>7, SetInduction
<1> QED BY <1>1, <1>8 DEF P, l

-----------------------------------------------------------------------------
(* Types *)

\* The types of what the loop works on.
LEMMA TextFacts ==
  ASSUME TypeOK
  PROVE  /\ text \in Seq(Nat) /\ Len(text) \in Nat
         /\ lines \in Seq(Seq(Nat)) /\ DOMAIN lines = 1 .. Len(lines) /\ Len(lines) \in Nat
         /\ start \in Nat /\ itr \in Nat /\ word_end_pos \in Nat
<1>1. text \in Seq(Nat) /\ lines \in Seq(Seq(Nat))
  BY DictionaryAssumption, TextAssumption DEF TypeOK
<1>2. Len(text) \in Nat /\ DOMAIN lines = 1 .. Len(lines) /\ Len(lines) \in Nat
  BY <1>1, LenProperties
<1> QED BY <1>1, <1>2 DEF TypeOK

\* The number of a word is that of a line with the word.
LEMMA NumberFacts ==
  ASSUME TypeOK, NEW word, Listed(word)
  PROVE  Number(word) \in 1 .. Len(lines) /\ lines[Number(word)] = word
<1> DEFINE E == {i \in DOMAIN lines : lines[i] = word}
           l == Len(lines)
<1>1. l \in Int /\ 1 \in Int /\ E \in SUBSET (1 .. l) /\ E # {} /\ DOMAIN lines = 1 .. l
  BY TextFacts DEF Listed
<1> HIDE DEF l
<1>2. \E m \in E : \A n \in E : n <= m
  <2> HIDE DEF E
  <2> QED BY <1>1, LargestExists
<1>3. \E i \in DOMAIN lines : lines[i] = word /\ \A j \in DOMAIN lines : lines[j] = word => j <= i
  BY <1>2
<1> QED BY <1>1, <1>3 DEF Number, l

\* A number stored in a char is a char, and itself when it fits.
LEMMA ToCharFacts ==
  ASSUME NEW n \in Nat
  PROVE  /\ ToChar(n) \in -(SCHAR_MAX + 1) .. SCHAR_MAX
         /\ n <= SCHAR_MAX => ToChar(n) = n
<1>1. Chars \in Nat \ {0} /\ Chars = SCHAR_MAX + 1 + (SCHAR_MAX + 1) /\ SCHAR_MAX \in Nat \ {0}
  BY CharAssumption DEF Chars
<1> HIDE DEF Chars
<1>2. n % Chars \in 0 .. Chars - 1 /\ (n < Chars => n % Chars = n)
  BY <1>1
<1> QED BY <1>1, <1>2 DEF ToChar

\* The receiver makes a sequence of letters of whatever it gets.
LEMMA DecodedTyped ==
  ASSUME TypeOK
  PROVE  [i \in DOMAIN return_seq |-> Word(return_seq[i])] \in Seq(Seq(Nat))
<1>1. return_seq \in Seq(Int)
  BY CharAssumption DEF TypeOK
<1>2. Len(return_seq) \in Nat /\ DOMAIN return_seq = 1 .. Len(return_seq)
  BY <1>1, LenProperties
<1>3. \A n : Word(n) \in Seq(Nat)
  BY TextFacts, EmptySeq, ElementOfSeq DEF Word
<1> QED BY <1>2, <1>3

\* What is found in the dictionary is one of the words there are.
LEMMA SubStringTyped ==
  ASSUME TypeOK, itr <= Len(text), NEW s, s = SubString, Listed(s)
  PROVE  s \in Words
BY DEF TypeOK, Listed, Words

LEMMA NextTypeOK == TypeOK /\ [Next]_vars => TypeOK'
<1> SUFFICES ASSUME TypeOK, [Next]_vars PROVE TypeOK'
  OBVIOUS
<1>0. /\ text \in Seq(Nat) /\ Len(text) \in Nat /\ (text = << >> <=> Len(text) = 0)
      /\ start \in Nat /\ itr \in Nat /\ word_end_pos \in Nat
  BY TextFacts, EmptySeq
<1>1. CASE Scan
  <2>1. LongestSoFar \in Words \union {<< >>}
    BY <1>1, SubStringTyped DEF LongestSoFar, Scan, TypeOK
  <2>2. EndSoFar \in 1 .. itr
    BY <1>0 DEF EndSoFar, TypeOK
  <2> QED BY <1>0, <1>1, <2>1, <2>2 DEF Scan, TypeOK
<1>2. CASE Emit
  <2>1. EndSoFar \in 1 .. itr
    BY <1>0 DEF EndSoFar, TypeOK
  <2>2. ToChar(Number(LongestSoFar)) \in -(SCHAR_MAX + 1) .. SCHAR_MAX
    <3>1. Number(LongestSoFar) \in Nat
      BY <1>2, NumberFacts, TextFacts DEF Emit
    <3> QED BY <3>1, ToCharFacts
  <2>3. return_seq' \in Seq(-(SCHAR_MAX + 1) .. SCHAR_MAX)
    BY <1>2, <2>2, AppendProperties DEF Emit, TypeOK
  <2>4. CASE EndSoFar = Len(text) /\ phase' = "encoded" /\ UNCHANGED <<itr, start>>
    BY <1>0, <1>2, <2>1, <2>3, <2>4 DEF Emit, TypeOK
  <2>5. CASE EndSoFar # Len(text) /\ itr' = EndSoFar + 1 /\ start' = EndSoFar + 1 /\ UNCHANGED phase
    BY <1>0, <1>2, <2>1, <2>3, <2>5 DEF Emit, TypeOK
  <2> QED BY <1>2, <2>4, <2>5 DEF Emit
<1>3. CASE GiveUp
  <2>1. LongestSoFar \in Words \union {<< >>}
    BY <1>3, SubStringTyped DEF LongestSoFar, GiveUp, TypeOK
  <2>2. EndSoFar \in 1 .. itr
    BY <1>0 DEF EndSoFar, TypeOK
  <2> QED BY <1>0, <1>3, <2>1, <2>2 DEF GiveUp, TypeOK
<1>4. CASE Nothing
  BY <1>4 DEF Nothing, TypeOK
<1>5. CASE Decode
  <2>1. decoded' \in Seq(Nat)
    BY <1>5, DecodedTyped, FlattenFacts DEF Decode
  <2> QED BY <1>5, <2>1 DEF Decode, TypeOK
<1>6. CASE UNCHANGED vars
  BY <1>6 DEF vars, TypeOK
<1> QED BY <1>1, <1>2, <1>3, <1>4, <1>5, <1>6 DEF Next

LEMMA InitTypeOK == Init => TypeOK
<1> SUFFICES ASSUME Init PROVE TypeOK
  OBVIOUS
<1>1. text \in Seq(Nat)
  BY TextAssumption DEF Init, commandToNumSequence
<1>2. Len(text) \in Nat /\ (text = << >> <=> Len(text) = 0)
  BY <1>1, LenProperties, EmptySeq
<1> QED BY <1>2, EmptySeq DEF Init, commandToNumSequence, TypeOK

\* The positions stay in the text, the bytes in a char.
THEOREM TypeCorrect == Spec => []TypeOK
BY InitTypeOK, NextTypeOK, PTL DEF Spec

-----------------------------------------------------------------------------
(* The loop *)

\* The bytes of a list of words.
Code(w) == [i \in DOMAIN w |-> ToChar(Number(w[i]))]

\* One more word is one more byte.
LEMMA CodeAppends ==
  ASSUME NEW w \in Seq(Seq(Nat)), NEW word \in Seq(Nat)
  PROVE  Code(Append(w, word)) = Append(Code(w), ToChar(Number(word)))
<1> DEFINE a == Append(w, word)
           c(x) == ToChar(Number(x))
           l == Len(w)
<1>1. a \in Seq(Seq(Nat)) /\ Len(a) = l + 1 /\ (\A i \in 1 .. l : a[i] = w[i]) /\ a[l + 1] = word
  BY AppendProperties
<1>2. DOMAIN a = 1 .. l + 1 /\ DOMAIN w = 1 .. l /\ l \in Nat
  BY <1>1, LenProperties
<1> DEFINE T == {c(x) : x \in Seq(Nat)}
           u == [i \in 1 .. l + 1 |-> c(a[i])]
           v == [i \in 1 .. l |-> c(w[i])]
<1>3. c(word) \in T /\ \A i \in 1 .. l : w[i] \in Seq(Nat) /\ c(w[i]) \in T
  BY ElementOfSeq
<1>4. Code(a) = u /\ Code(w) = v
  BY <1>2 DEF Code
<1> HIDE DEF a, l, c, T
<1>5. v \in Seq(T) /\ Len(v) = l
  BY <1>2, <1>3
<1>6. \A i \in 1 .. l + 1 : u[i] \in T
  <2> SUFFICES ASSUME NEW i \in 1 .. l + 1 PROVE c(a[i]) \in T
    OBVIOUS
  <2>1. CASE i = l + 1
    BY <1>1, <1>3, <2>1
  <2>2. CASE i \in 1 .. l
    BY <1>1, <1>3, <2>2
  <2> QED BY <1>2, <2>1, <2>2
<1>7. u \in Seq(T) /\ Len(u) = l + 1
  BY <1>2, <1>6
<1> DEFINE d == c(word)
           b == Append(v, d)
<1>8. b \in Seq(T) /\ Len(b) = l + 1 /\ (\A i \in 1 .. l : b[i] = v[i]) /\ b[l + 1] = d
  <2>1. d \in T
    BY <1>3
  <2> HIDE DEF v, d
  <2> QED BY <1>5, <2>1, AppendProperties
<1>9. ASSUME NEW i \in 1 .. l + 1 PROVE u[i] = b[i]
  <2>1. CASE i = l + 1
    BY <1>1, <1>8, <2>1
  <2>2. CASE i \in 1 .. l
    BY <1>1, <1>8, <2>2
  <2> QED BY <1>2, <2>1, <2>2
<1> HIDE DEF u, v, b
<1>10. u = b
  BY <1>7, <1>8, <1>9, SeqEqual
<1> QED BY <1>4, <1>10 DEF a, b, c, d

\* The loop has seen the words that begin at start and end before itr, and has
\* kept the longest.
Seen ==
  \/ /\ found_word = << >>
     /\ \A e \in start .. itr - 1 : e \notin Ends(start)
  \/ /\ word_end_pos \in start .. itr - 1 /\ word_end_pos \in Ends(start)
     /\ found_word = SubSeq(text, start, word_end_pos)
     /\ \A e \in start .. itr - 1 : e \in Ends(start) => e <= word_end_pos

\* The condition: a blank line is harmless when there is nothing to send.
Plain == ~HasBlankLine \/ text = << >>

\* What was put out and what the parse of the rest will add is the greedy parse
\* of the text.
PutOut ==
  \E w \in Seq(Seq(Nat)) : return_seq = Code(w) /\ GreedyParse = w \o Parse[start]

\* At the end nothing is left to add.
ScanInv ==
  Plain => IF phase = "scan" THEN Seen /\ PutOut ELSE return_seq = Code(GreedyParse)

\* A turn of the loop looks at one more letter.
LEMMA LooksFarther ==
  ASSUME TypeOK, Seen, itr <= Len(text)
  PROVE  \/ /\ LongestSoFar = << >> /\ ~Listed(SubString)
            /\ \A e \in start .. itr : e \notin Ends(start)
         \/ /\ EndSoFar \in start .. itr /\ EndSoFar \in Ends(start)
            /\ LongestSoFar = SubSeq(text, start, EndSoFar)
            /\ \A e \in start .. itr : e \in Ends(start) => e <= EndSoFar
<1>1. start \in Nat /\ itr \in Nat /\ start <= itr /\ Len(text) \in Nat
  BY TextFacts DEF TypeOK
<1>2. Listed(SubString) <=> itr \in Ends(start)
  BY <1>1 DEF SubString, Ends
<1>3. CASE Listed(SubString)
  BY <1>1, <1>2, <1>3 DEF LongestSoFar, EndSoFar, SubString
<1>4. CASE ~Listed(SubString)
  BY <1>1, <1>2, <1>4 DEF Seen, LongestSoFar, EndSoFar
<1> QED BY <1>3, <1>4

\* The parse depends on the dictionary and the text alone.
LEMMA Frozen ==
  ASSUME UNCHANGED <<lines, text>>
  PROVE  /\ GreedyParse' = GreedyParse /\ Parse' = Parse /\ Plain' = Plain
         /\ \A w : Code(w)' = Code(w)
<1>1. Parse' = Parse
  BY DEF Parse, Parses, Ends, Longest, Listed
<1>2. GreedyParse' = GreedyParse
  BY DEF GreedyParse, Listed
<1>3. \A w : Code(w)' = Code(w)
  BY DEF Code, Number
<1> QED BY <1>1, <1>2, <1>3 DEF Plain, HasBlankLine, Listed

\* When no more word begins at start, all the words have been put out.
LEMMA PutOutAll ==
  ASSUME TypeOK, PutOut, Ends(start) = {}
  PROVE  return_seq = Code(GreedyParse)
<1>1. PICK w \in Seq(Seq(Nat)) : return_seq = Code(w) /\ GreedyParse = w \o Parse[start]
  BY DEF PutOut
<1>2. text \in Seq(Nat) /\ start \in 1 .. Len(text) + 1
  BY TextFacts, EmptySeq DEF TypeOK
<1>3. Parse[start] = << >>
  BY <1>2, ParseFacts
<1> QED BY <1>1, <1>3, ConcatEmptySeq

\* A turn of the loop, a word that is put out, and the ends of the loop.
LEMMA ScanStep == TypeOK /\ ScanInv /\ Scan => ScanInv'
<1> SUFFICES ASSUME TypeOK, Seen, PutOut, Scan PROVE Seen' /\ PutOut'
  BY Frozen DEF Scan, ScanInv
<1>1. UNCHANGED <<lines, text, start, return_seq>> /\ itr' = itr + 1 /\ itr' - 1 = itr /\ itr <= Len(text)
      /\ found_word' = LongestSoFar /\ word_end_pos' = EndSoFar
  BY TextFacts DEF Scan
<1>2. PutOut'
  <2>1. PICK w \in Seq(Seq(Nat)) : return_seq = Code(w) /\ GreedyParse = w \o Parse[start]
    BY DEF PutOut
  <2>2. return_seq' = Code(w)' /\ GreedyParse' = w \o Parse'[start']
    BY <1>1, <2>1, Frozen
  <2> QED BY <2>2 DEF PutOut
<1>3. Seen'
  <2>1. \/ /\ LongestSoFar = << >>
           /\ \A e \in start .. itr : e \notin Ends(start)
        \/ /\ EndSoFar \in start .. itr /\ EndSoFar \in Ends(start)
           /\ LongestSoFar = SubSeq(text, start, EndSoFar)
           /\ \A e \in start .. itr : e \in Ends(start) => e <= EndSoFar
    BY <1>1, LooksFarther
  <2>2. Ends(start)' = Ends(start)
    BY <1>1 DEF Ends, Listed
  <2>3. SubSeq(text, start, EndSoFar) = SubSeq(text', start', word_end_pos')
    BY <1>1
  <2> QED BY <1>1, <2>1, <2>2, <2>3 DEF Seen
<1> QED BY <1>2, <1>3

LEMMA EmitStep == TypeOK /\ ScanInv /\ Emit => ScanInv'
<1> SUFFICES ASSUME TypeOK, ScanInv, Emit, Plain PROVE ScanInv'
  BY Frozen DEF Emit, ScanInv
<1>1. /\ UNCHANGED <<lines, text>> /\ itr = Len(text) /\ phase = "scan"
      /\ Listed(LongestSoFar) /\ return_seq' = Append(return_seq, ToChar(Number(LongestSoFar)))
      /\ found_word' = << >>
  BY DEF Emit
<1>2. Seen /\ PutOut
  BY <1>1 DEF ScanInv
<1>3. /\ text \in Seq(Nat) /\ Len(text) \in Nat /\ start \in Nat /\ start \in 1 .. Len(text)
      /\ text # << >>
  BY <1>1, TextFacts, EmptySeq DEF TypeOK
<1>4. LongestSoFar # << >>
  BY <1>1, <1>3 DEF Plain, HasBlankLine
<1>5. /\ EndSoFar \in start .. Len(text) /\ EndSoFar \in Ends(start)
      /\ LongestSoFar = SubSeq(text, start, EndSoFar)
      /\ \A e \in start .. Len(text) : e \in Ends(start) => e <= EndSoFar
  BY <1>1, <1>2, <1>3, <1>4, LooksFarther
<1>6. EndSoFar = Longest(start)
  <2>1. /\ Longest(start) \in Ends(start) /\ Longest(start) \in start .. Len(text)
        /\ \A n \in Ends(start) : n <= Longest(start)
    BY <1>3, <1>5, LongestFacts
  <2> QED BY <1>3, <1>5, <2>1
<1>7. PICK w \in Seq(Seq(Nat)) : return_seq = Code(w) /\ GreedyParse = w \o Parse[start]
  BY <1>2 DEF PutOut
<1> DEFINE x == LongestSoFar
           rest == Parse[EndSoFar + 1]
<1>8. x \in Seq(Nat)
  BY <1>1, TextFacts, ElementOfSeq DEF Listed
<1>9. rest \in Seq(Seq(Nat))
  <2>1. EndSoFar + 1 \in 1 .. Len(text) + 1
    BY <1>3, <1>5
  <2> QED BY <1>3, <2>1, ParseIsWords DEF WordLists
<1>10. Parse[start] = <<x>> \o rest
  <2>1. start \in 1 .. Len(text) + 1 /\ Ends(start) # {}
    BY <1>3, <1>5
  <2>2. Parse[start] = <<SubSeq(text, start, Longest(start))>> \o Parse[Longest(start) + 1]
    BY <1>3, <2>1, ParseFacts
  <2> QED BY <1>5, <1>6, <2>2
<1>11. GreedyParse = Append(w, x) \o rest
  <2> HIDE DEF x, rest
  <2>1. <<x>> \in Seq(Seq(Nat)) /\ Append(w, x) = w \o <<x>>
    BY <1>8, AppendIsConcat
  <2>2. (w \o <<x>>) \o rest = w \o (<<x>> \o rest)
    BY <1>9, <2>1, ConcatAssociative
  <2> QED BY <1>7, <1>10, <2>1, <2>2
<1>12. return_seq' = Code(Append(w, x)) /\ Append(w, x) \in Seq(Seq(Nat))
  BY <1>1, <1>7, <1>8, CodeAppends, AppendProperties
<1> HIDE DEF x
<1>13. CASE EndSoFar = Len(text) /\ phase' = "encoded"
  <2>1. Ends(EndSoFar + 1) = {} /\ EndSoFar + 1 \in 1 .. Len(text) + 1
    BY <1>3, <1>13 DEF Ends
  <2>2. rest = << >>
    BY <1>3, <2>1, ParseFacts
  <2>3. GreedyParse = Append(w, x)
    BY <1>11, <1>12, <2>2, ConcatEmptySeq
  <2>4. return_seq' = Code(GreedyParse)'
    <3>1. \A v : Code(v)' = Code(v)
      BY <1>1, Frozen
    <3>2. Code(GreedyParse)' = Code(GreedyParse)
      BY <1>1, Frozen DEF Code, Number
    <3> QED BY <1>12, <2>3, <3>2
  <2> QED BY <1>13, <2>4 DEF ScanInv
<1>14. CASE itr' = EndSoFar + 1 /\ start' = EndSoFar + 1 /\ UNCHANGED phase
  <2>1. Seen'
    <3>1. start' .. itr' - 1 = {}
      BY <1>3, <1>5, <1>14
    <3> QED BY <1>1, <3>1 DEF Seen
  <2>2. PutOut'
    <3>1. PICK v \in Seq(Seq(Nat)) : v = Append(w, x)
      BY <1>12
    <3>2. return_seq' = Code(v)' /\ GreedyParse' = v \o Parse'[start']
      BY <1>1, <1>11, <1>12, <1>14, <3>1, Frozen
    <3> QED BY <3>2 DEF PutOut
  <2> QED BY <1>1, <1>14, <2>1, <2>2 DEF ScanInv
<1> QED BY <1>13, <1>14 DEF Emit

\* When the loop ends without a word, or without a letter, no word begins at start.
LEMMA EndsWell ==
  ASSUME TypeOK, ScanInv, GiveUp \/ Nothing, Plain
  PROVE  return_seq = Code(GreedyParse)
<1>1. Seen /\ PutOut
  BY DEF ScanInv, GiveUp, Nothing
<1>2. Len(text) \in Nat /\ start \in Nat /\ start <= itr
  BY TextFacts DEF TypeOK
<1>3. CASE GiveUp
  <2>1. itr = Len(text) /\ ~Listed(LongestSoFar)
    BY <1>3 DEF GiveUp
  <2>0. EndSoFar \in Ends(start) => Listed(SubSeq(text, start, EndSoFar))
    BY DEF Ends
  <2>3. itr <= Len(text)
    BY <1>2, <2>1
  <2>4. \/ \A e \in start .. itr : e \notin Ends(start)
        \/ EndSoFar \in Ends(start) /\ LongestSoFar = SubSeq(text, start, EndSoFar)
    BY <1>1, <2>3, LooksFarther
  <2>2. \A e \in start .. Len(text) : e \notin Ends(start)
    BY <2>0, <2>1, <2>4
  <2>5. Ends(start) = {}
    BY <2>2 DEF Ends
  <2> QED BY <1>1, <2>5, PutOutAll
<1>4. CASE Nothing
  <2>1. Len(text) = 0 /\ start = 1
    BY <1>2, <1>4, EmptySeq DEF Nothing, TypeOK
  <2>2. Ends(start) = {}
    BY <2>1 DEF Ends
  <2> QED BY <1>1, <2>2, PutOutAll
<1> QED BY <1>3, <1>4

LEMMA NextScanInv == TypeOK /\ ScanInv /\ [Next]_vars => ScanInv'
<1> SUFFICES ASSUME TypeOK, ScanInv, [Next]_vars PROVE ScanInv'
  OBVIOUS
<1>1. ASSUME UNCHANGED <<lines, text>> PROVE Code(GreedyParse)' = Code(GreedyParse) /\ Plain' = Plain
  BY <1>1, Frozen DEF Code, Number
<1>2. CASE Scan
  BY <1>2, ScanStep
<1>3. CASE Emit
  BY <1>3, EmitStep
<1>4. CASE GiveUp \/ Nothing
  BY <1>1, <1>4, EndsWell DEF GiveUp, Nothing, ScanInv
<1>5. CASE Decode
  BY <1>1, <1>5 DEF Decode, ScanInv
<1>6. CASE UNCHANGED vars
  <2>1. UNCHANGED <<lines, text, start, itr, word_end_pos, found_word, return_seq, phase>>
    BY <1>6 DEF vars
  <2>2. Seen' = Seen
    BY <2>1 DEF Seen, Ends, Listed
  <2>3. PutOut' = PutOut
    BY <2>1 DEF PutOut, Code, Number, GreedyParse, Parse, Parses, Ends, Longest, Listed
  <2> QED BY <1>1, <2>1, <2>2, <2>3 DEF ScanInv
<1> QED BY <1>2, <1>3, <1>4, <1>5, <1>6 DEF Next

-----------------------------------------------------------------------------
(* The way back *)

\* The receiver has decoded the bytes one by one.
DecodedInv ==
  phase = "decoded" => decoded = FlattenSeq([i \in DOMAIN return_seq |-> Word(return_seq[i])])

IInv == TypeOK /\ ScanInv /\ DecodedInv

LEMMA NextIInv == IInv /\ [Next]_vars => IInv'
<1> SUFFICES ASSUME IInv, [Next]_vars PROVE IInv'
  OBVIOUS
<1>1. TypeOK' /\ ScanInv'
  BY NextTypeOK, NextScanInv DEF IInv
<1>2. DecodedInv'
  BY DEF IInv, DecodedInv, Next, Scan, Emit, GiveUp, Nothing, Decode, vars, Word
<1> QED BY <1>1, <1>2 DEF IInv

LEMMA InitIInv == Init => IInv
<1> SUFFICES ASSUME Init PROVE IInv
  OBVIOUS
<1>1. TypeOK /\ DecodedInv
  BY InitTypeOK DEF Init, DecodedInv
<1>2. Seen
  BY DEF Seen, Init
<1>3. PutOut
  <2>1. text \in Seq(Nat) /\ 1 \in 1 .. Len(text) + 1
    BY <1>1, TextFacts
  <2>2. Parse[1] \in Seq(Seq(Nat))
    BY <2>1, ParseIsWords DEF WordLists
  <2>3. << >> \in Seq(Seq(Nat)) /\ Code(<< >>) = << >> /\ << >> \o Parse[1] = Parse[1]
    BY <2>2, EmptySeq, ConcatEmptySeq DEF Code
  <2> QED BY <2>3, GreedyParseIsParse DEF PutOut, Init
<1> QED BY <1>1, <1>2, <1>3 DEF IInv, ScanInv, Init

LEMMA Invariance == Spec => []IInv
BY InitIInv, NextIInv, PTL DEF Spec

\* The greedy parse is a sequence of words.
LEMMA GreedyParseIsWords ==
  ASSUME TypeOK
  PROVE  /\ GreedyParse \in Seq(Seq(Nat)) /\ GreedyParse \in WordLists
         /\ DOMAIN GreedyParse = 1 .. Len(GreedyParse)
         /\ GreedyParse = [i \in DOMAIN GreedyParse |-> GreedyParse[i]]
<1>1. text \in Seq(Nat) /\ 1 \in 1 .. Len(text) + 1
  BY TextFacts
<1>2. GreedyParse \in WordLists /\ GreedyParse \in Seq(Seq(Nat))
  BY <1>1, ParseIsWords, GreedyParseIsParse DEF WordLists
<1>3. GreedyParse \in [1 .. Len(GreedyParse) -> Seq(Nat)] /\ DOMAIN GreedyParse = 1 .. Len(GreedyParse)
  BY <1>2, LenProperties
<1> QED BY <1>2, <1>3

\* The receiver makes of the bytes what the greedy parse was.
LEMMA WhatArrives ==
  ASSUME IInv, phase = "decoded", Plain, FitsInChar
  PROVE  decoded = FlattenSeq(GreedyParse)
<1> DEFINE g == GreedyParse
           b == [i \in DOMAIN return_seq |-> Word(return_seq[i])]
<1>1. return_seq = Code(g) /\ decoded = FlattenSeq(b)
  BY DEF IInv, ScanInv, DecodedInv
<1>2. DOMAIN return_seq = DOMAIN g /\ \A i \in DOMAIN g : return_seq[i] = ToChar(Number(g[i]))
  BY <1>1 DEF Code
<1>3. ASSUME NEW i \in DOMAIN g PROVE Word(return_seq[i]) = g[i]
  <2>1. Listed(g[i])
    BY GreedyParseIsWords DEF WordLists, IInv
  <2> DEFINE n == Number(g[i])
  <2>2. n \in 1 .. Len(lines) /\ lines[n] = g[i] /\ DOMAIN lines = 1 .. Len(lines) /\ Len(lines) \in Nat
    BY <2>1, NumberFacts, TextFacts DEF IInv
  <2>3. return_seq[i] = ToChar(n)
    BY <1>2
  <2> HIDE DEF n, g
  <2>4. n \in Nat /\ n <= SCHAR_MAX
    BY <2>2, CharAssumption DEF FitsInChar
  <2>5. ToChar(n) = n
    BY <2>4, ToCharFacts
  <2> QED BY <2>2, <2>3, <2>5 DEF Word
<1>4. g = [i \in DOMAIN g |-> g[i]]
  BY GreedyParseIsWords DEF IInv
<1> HIDE DEF g
<1>5. b = g
  BY <1>2, <1>3, <1>4
<1> QED BY <1>1, <1>5 DEF g

\* What the parse from a position on flattens to is the beginning of what is
\* left of the text.
LEMMA ParseBegins ==
  ASSUME text \in Seq(Nat), NEW p \in 1 .. Len(text) + 1
  PROVE  /\ FlattenSeq(Parse[p]) \in Seq(Nat)
         /\ \E u \in Seq(Nat) : FlattenSeq(Parse[p]) \o u = SubSeq(text, p, Len(text))
<1> DEFINE l == Len(text)
           Done(n) == /\ FlattenSeq(Parse[n]) \in Seq(Nat)
                      /\ \E u \in Seq(Nat) : FlattenSeq(Parse[n]) \o u = SubSeq(text, n, l)
           P == {k \in Nat : \A q \in 1 .. l + 1 : q + k >= l + 1 => Done(q)}
<1>0. \A r, s, t \in Seq(Nat) : (r \o s) \o t = r \o (s \o t)
  BY ConcatAssociative
<1>1. l \in Nat
  BY LenProperties
<1>2. ASSUME NEW q \in 1 .. l + 1 PROVE SubSeq(text, q, l) \in Seq(Nat)
  <2>1. \A i \in q .. l : text[i] \in Nat
    BY <1>1, ElementOfSeq
  <2> QED BY <1>1, <2>1, SubSeqProperties
<1>3. ASSUME NEW q \in 1 .. l + 1, Ends(q) = {} PROVE Done(q)
  <2>1. Parse[q] = << >>
    BY <1>3, ParseFacts
  <2>2. << >> \in Seq(Seq(Nat)) /\ << >> \in Seq(Nat)
    BY EmptySeq
  <2>3. FlattenSeq(<< >>) = << >>
    BY <2>2, FlattenFacts
  <2>4. << >> \o SubSeq(text, q, l) = SubSeq(text, q, l)
    BY <1>2, ConcatEmptySeq
  <2> QED BY <1>2, <2>1, <2>2, <2>3, <2>4
<1>4. ASSUME NEW q \in 1 .. l + 1, Ends(q) # {}, Done(Longest(q) + 1) PROVE Done(q)
  <2> DEFINE e == Longest(q)
  <2>1. q \in Nat /\ e \in q .. l /\ e + 1 \in 1 .. l + 1
    <3>1. q \in Nat
      BY <1>1
    <3>2. e \in q .. l
      BY <1>4, <3>1, LongestFacts
    <3> QED BY <1>1, <3>1, <3>2
  <2> DEFINE w == SubSeq(text, q, e)
             v == SubSeq(text, e + 1, l)
             rest == Parse[e + 1]
             f == FlattenSeq(rest)
  <2>2. Parse[q] = <<w>> \o rest
    BY <1>4, ParseFacts
  <2>3. rest \in Seq(Seq(Nat))
    BY <2>1, ParseIsWords DEF WordLists
  <2>4. w \in Seq(Nat)
    <3>1. \A i \in q .. e : text[i] \in Nat
      BY <1>1, <2>1, ElementOfSeq
    <3> QED BY <2>1, <3>1, SubSeqProperties
  <2>5. w \o v = SubSeq(text, q, l)
    <3>1. q \in 1 .. l + 1 /\ e \in q - 1 .. l /\ l \in e .. l
      BY <1>1, <2>1
    <3> QED BY <1>1, <3>1, ConcatAdjacentSubSeq
  <2>6. PICK u \in Seq(Nat) : f \o u = v
    BY <1>4
  <2>7. f \in Seq(Nat)
    BY <1>4
  <2> HIDE DEF w, v, rest, e
  <2>8. FlattenSeq(<<w>> \o rest) = w \o f
    BY <2>3, <2>4, FlattenPrepends
  <2> HIDE DEF f
  <2>9. w \o f \in Seq(Nat)
    BY <2>4, <2>7, ConcatProperties
  <2>10. (w \o f) \o u = w \o (f \o u)
    BY <1>0, <2>4, <2>7
  <2> QED BY <2>2, <2>5, <2>6, <2>8, <2>9, <2>10
<1>5. \A q \in 1 .. l + 1 : Ends(q) # {} => Longest(q) \in q .. l
  <2> SUFFICES ASSUME NEW q \in 1 .. l + 1, Ends(q) # {} PROVE Longest(q) \in q .. l
    OBVIOUS
  <2>1. q \in Nat
    BY <1>1
  <2> QED BY <2>1, LongestFacts
<1>6. Ends(l + 1) = {}
  BY <1>1 DEF Ends
<1> HIDE DEF l, Done
<1>7. 0 \in P
  <2> SUFFICES ASSUME NEW q \in 1 .. l + 1, q + 0 >= l + 1 PROVE Done(q)
    OBVIOUS
  <2>1. q = l + 1
    BY <1>1
  <2> QED BY <1>3, <1>6, <2>1
<1>8. ASSUME NEW k \in Nat, k \in P PROVE k + 1 \in P
  <2> SUFFICES ASSUME NEW q \in 1 .. l + 1, q + (k + 1) >= l + 1 PROVE Done(q)
    OBVIOUS
  <2>1. CASE Ends(q) = {}
    BY <1>3, <2>1
  <2>2. CASE Ends(q) # {}
    <3>1. Longest(q) + 1 \in 1 .. l + 1 /\ Longest(q) + 1 + k >= l + 1
      BY <1>1, <1>5, <2>2
    <3>2. Done(Longest(q) + 1)
      BY <1>8, <3>1
    <3> QED BY <1>4, <2>2, <3>2
  <2> QED BY <2>1, <2>2
<1> HIDE DEF P
<1>9. l + 1 \in Nat /\ l + 1 \in P
  BY <1>1, <1>7, <1>8, SetInduction
<1>10. Done(p)
  <2>1. p \in 1 .. l + 1 /\ p + (l + 1) >= l + 1
    BY <1>1 DEF l
  <2> QED BY <1>9, <2>1 DEF P
<1> QED BY <1>10 DEF Done, l

\* Unless the file has a blank line, the bytes are those of the greedy parse.
THEOREM EncodingIsGreedy == Spec => []EncodesGreedily
<1>1. IInv => EncodesGreedily
  BY DEF IInv, ScanInv, Plain, Code, EncodesGreedily
<1> QED BY <1>1, Invariance, PTL

\* What has arrived is the text or a beginning of it, whatever the text.
LEMMA BeginningArrives == IInv => ShowsBeginning
<1> SUFFICES ASSUME IInv, phase = "decoded", FitsInChar, ~HasBlankLine
             PROVE  IsPrefix(decoded, text)
  BY DEF ShowsBeginning
<1>1. text \in Seq(Nat) /\ Len(text) \in Nat /\ 1 \in 1 .. Len(text) + 1
  BY TextFacts DEF IInv
<1>2. decoded = FlattenSeq(Parse[1])
  BY WhatArrives, GreedyParseIsParse DEF Plain
<1>3. PICK u \in Seq(Nat) : FlattenSeq(Parse[1]) \o u = SubSeq(text, 1, Len(text))
  BY <1>1, ParseBegins
<1>4. FlattenSeq(Parse[1]) \in Seq(Nat)
  BY <1>1, ParseBegins
<1>5. SubSeq(text, 1, Len(text)) = text
  BY <1>1, SubSeqFull
<1>6. decoded \in Seq(Nat) /\ decoded \o u = text
  BY <1>2, <1>3, <1>4, <1>5
<1>7. IsPrefix(decoded, decoded \o u)
  BY <1>6, PrefixOfConcat
<1> QED BY <1>6, <1>7

-----------------------------------------------------------------------------
(* Texts that are made of words *)

\* f tells from which positions on the text is made of words.
Composes(f) ==
  f = [p \in 1 .. Len(text) + 1 |->
         p = Len(text) + 1 \/ \E e \in p .. Len(text) : Listed(SubSeq(text, p, e)) /\ f[e + 1]]

Parts == CHOOSE f : Composes(f)

\* It is the recursive function Composed defines.
LEMMA ComposedIsParts == Composed = Parts[1]
BY DEF Composed, Parts, Composes

\* There is such a function.
LEMMA PartsExist ==
  ASSUME text \in Seq(Nat)
  PROVE  \E f : Composes(f)
<1> DEFINE l == Len(text)
           F(f, k) == f = [p \in l + 1 - k .. l + 1 |->
                             p = l + 1 \/ \E e \in p .. l : Listed(SubSeq(text, p, e)) /\ f[e + 1]]
           P == {k \in Nat : k <= l => \E f : F(f, k)}
<1>1. l \in Nat
  BY LenProperties
<1> HIDE DEF l, F
<1>4. 0 \in P
  <2> DEFINE f == [p \in l + 1 - 0 .. l + 1 |-> TRUE]
  <2>1. ASSUME NEW p \in l + 1 - 0 .. l + 1
        PROVE  f[p] = (p = l + 1 \/ \E e \in p .. l : Listed(SubSeq(text, p, e)) /\ f[e + 1])
    <3>1. p = l + 1
      BY <1>1
    <3> QED BY <3>1
  <2>2. F(f, 0)
    BY <2>1 DEF F
  <2> QED BY <2>2
<1>5. ASSUME NEW k \in Nat, k \in P PROVE k + 1 \in P
  <2> SUFFICES ASSUME k + 1 <= l PROVE \E f : F(f, k + 1)
    OBVIOUS
  <2>1. PICK f : F(f, k)
    BY <1>1, <1>5
  <2> DEFINE g == [p \in l + 1 - (k + 1) .. l + 1 |->
                     IF p = l - k
                     THEN \E e \in p .. l : Listed(SubSeq(text, p, e)) /\ f[e + 1]
                     ELSE f[p]]
  <2>2. ASSUME NEW p \in l + 1 - (k + 1) .. l + 1
        PROVE  g[p] = (p = l + 1 \/ \E e \in p .. l : Listed(SubSeq(text, p, e)) /\ g[e + 1])
    <3>1. \A e \in p .. l : e + 1 \in l + 1 - k .. l + 1 /\ e + 1 # l - k
      BY <1>1
    <3>2. ASSUME NEW e \in p .. l PROVE g[e + 1] = f[e + 1]
      <4>1. e + 1 \in l + 1 - (k + 1) .. l + 1 /\ e + 1 # l - k
        BY <1>1, <3>1
      <4> QED BY <4>1, Zenon
    <3>3. CASE p = l - k
      <4>1. g[p] = \E e \in p .. l : Listed(SubSeq(text, p, e)) /\ f[e + 1]
        BY <3>3
      <4>2. p # l + 1
        BY <1>1, <3>3
      <4> QED BY <3>2, <4>1, <4>2
    <3>4. CASE p # l - k
      <4>1. p \in l + 1 - k .. l + 1 /\ g[p] = f[p]
        BY <1>1, <3>4
      <4>2. f[p] = (p = l + 1 \/ \E e \in p .. l : Listed(SubSeq(text, p, e)) /\ f[e + 1])
        BY <2>1, <4>1 DEF F
      <4> QED BY <3>2, <4>1, <4>2
    <3> QED BY <3>3, <3>4
  <2>3. F(g, k + 1)
    BY <2>2 DEF F
  <2> HIDE DEF g
  <2> QED BY <2>3
<1> HIDE DEF P
<1>6. l \in P
  BY <1>1, <1>4, <1>5, SetInduction
<1>7. \E f : F(f, l)
  BY <1>1, <1>6 DEF P
<1>8. l + 1 - l = 1
  BY <1>1
<1> QED BY <1>7, <1>8 DEF Composes, F, l

\* Where a text is made of words, one begins, and the rest is made of words.
LEMMA PartsFacts ==
  ASSUME text \in Seq(Nat), NEW p \in 1 .. Len(text) + 1, Parts[p]
  PROVE  p = Len(text) + 1 \/ \E e \in Ends(p) : Parts[e + 1]
<1>1. Composes(Parts)
  BY PartsExist DEF Parts
<1> QED BY <1>1 DEF Composes, Ends

\* When no word begins another one, no two words begin at the same place.
LEMMA OneEnd ==
  ASSUME TypeOK, PrefixFree, NEW p \in 1 .. Len(text), NEW e \in Ends(p), NEW m \in Ends(p)
  PROVE  ~(e < m)
<1> SUFFICES ASSUME e < m PROVE FALSE
  OBVIOUS
<1>1. text \in Seq(Nat) /\ Len(text) \in Nat
  BY TextFacts
<1>2. /\ e \in p .. Len(text) /\ m \in p .. Len(text)
      /\ Listed(SubSeq(text, p, e)) /\ Listed(SubSeq(text, p, m))
  BY DEF Ends
<1> DEFINE u == SubSeq(text, p, e)
           v == SubSeq(text, p, m)
           w == SubSeq(text, e + 1, m)
<1>3. u \in Seq(Nat) /\ v \in Seq(Nat) /\ w \in Seq(Nat) /\ Len(u) = e - p + 1 /\ Len(v) = m - p + 1
  <2>1. (\A i \in p .. e : text[i] \in Nat) /\ (\A i \in p .. m : text[i] \in Nat)
        /\ (\A i \in e + 1 .. m : text[i] \in Nat)
    BY <1>1, <1>2, ElementOfSeq
  <2>2. p \in Int /\ e \in Int /\ m \in Int /\ e + 1 \in Int /\ p <= e /\ p <= m
    BY <1>1, <1>2
  <2> QED BY <2>1, <2>2, SubSeqProperties
<1>4. u \o w = v
  <2>1. p \in 1 .. Len(text) + 1 /\ e \in p - 1 .. Len(text) /\ m \in e .. Len(text)
    BY <1>1, <1>2
  <2> QED BY <1>1, <2>1, ConcatAdjacentSubSeq
<1>5. u # v
  BY <1>1, <1>2, <1>3
<1> HIDE DEF u, v, w
<1>6. IsPrefix(u, v)
  BY <1>3, <1>4, PrefixOfConcat
<1>7. PICK i, j \in DOMAIN lines : lines[i] = u /\ lines[j] = v
  BY <1>2 DEF Listed, u, v
<1> QED BY <1>5, <1>6, <1>7 DEF PrefixFree, IsStrictPrefix

\* There the greedy parse loses nothing.
LEMMA PartsFlatten ==
  ASSUME TypeOK, PrefixFree, NEW p \in 1 .. Len(text) + 1, Parts[p]
  PROVE  FlattenSeq(Parse[p]) = SubSeq(text, p, Len(text))
<1> DEFINE l == Len(text)
           Done(n) == FlattenSeq(Parse[n]) = SubSeq(text, n, l)
           P == {k \in Nat : \A q \in 1 .. l + 1 : Parts[q] /\ q + k >= l + 1 => Done(q)}
<1>1. l \in Nat /\ text \in Seq(Nat)
  BY TextFacts
<1>2. \A q \in 1 .. l + 1 : Parts[q] =>
        q = l + 1 \/ \E e \in Ends(q) : Parts[e + 1]
  BY <1>1, PartsFacts
<1>3. Done(l + 1)
  <2>1. Ends(l + 1) = {} /\ l + 1 \in 1 .. l + 1
    BY <1>1 DEF Ends
  <2>2. Parse[l + 1] = << >>
    BY <1>1, <2>1, ParseFacts
  <2>3. FlattenSeq(<< >>) = << >>
    <3>1. << >> \in Seq(Seq(Nat))
      BY EmptySeq
    <3> QED BY <3>1, FlattenFacts
  <2>4. SubSeq(text, l + 1, l) = << >>
    <3>1. l + 1 \in Int /\ l \in Int /\ l < l + 1
      BY <1>1
    <3> QED BY <3>1, SubSeqEmpty
  <2> QED BY <2>2, <2>3, <2>4
<1>4. ASSUME NEW q \in 1 .. l, NEW e \in Ends(q), Done(e + 1)
      PROVE  Done(q)
  <2>1. q \in Nat /\ Ends(q) # {} /\ e \in q .. l /\ q \in 1 .. l + 1
    <3>1. e \in q .. l
      BY DEF Ends
    <3>2. q \in Nat /\ q \in 1 .. l + 1
      BY <1>1
    <3> QED BY <3>1, <3>2
  <2>2. Longest(q) \in Ends(q) /\ Longest(q) \in q .. l /\ e <= Longest(q)
    BY <1>1, <1>4, <2>1, LongestFacts
  <2>3. ~(e < Longest(q))
    BY <1>4, <2>2, OneEnd
  <2>4. Longest(q) = e
    BY <1>1, <2>1, <2>2, <2>3
  <2> DEFINE w == SubSeq(text, q, e)
             v == SubSeq(text, e + 1, l)
             rest == Parse[e + 1]
  <2>5. Parse[q] = <<w>> \o rest
    <3>1. Parse[q] = <<SubSeq(text, q, Longest(q))>> \o Parse[Longest(q) + 1]
      BY <1>1, <2>1, ParseFacts
    <3> QED BY <2>4, <3>1
  <2>6. rest \in Seq(Seq(Nat))
    <3>1. e + 1 \in 1 .. l + 1
      BY <1>1, <2>1
    <3> QED BY <1>1, <3>1, ParseIsWords DEF WordLists
  <2>7. w \in Seq(Nat)
    <3>1. \A i \in q .. e : text[i] \in Nat
      BY <1>1, <2>1, ElementOfSeq
    <3> QED BY <2>1, <3>1, SubSeqProperties
  <2>8. w \o v = SubSeq(text, q, l)
    <3>1. q \in 1 .. l + 1 /\ e \in q - 1 .. l /\ l \in e .. l
      BY <1>1, <2>1
    <3> QED BY <1>1, <3>1, ConcatAdjacentSubSeq
  <2>9. FlattenSeq(rest) = v
    BY <1>4
  <2> HIDE DEF w, v, rest
  <2>10. FlattenSeq(<<w>> \o rest) = w \o FlattenSeq(rest)
    BY <2>6, <2>7, FlattenPrepends
  <2> QED BY <2>5, <2>8, <2>9, <2>10
<1>5. \A q \in 1 .. l + 1 : \A e \in Ends(q) : q \in Nat /\ e \in q .. l
  BY <1>1 DEF Ends
<1> HIDE DEF l, Done
<1>6. 0 \in P
  <2> SUFFICES ASSUME NEW q \in 1 .. l + 1, q + 0 >= l + 1 PROVE Done(q)
    OBVIOUS
  <2>1. q = l + 1
    BY <1>1
  <2> QED BY <1>3, <2>1
<1>7. ASSUME NEW k \in Nat, k \in P PROVE k + 1 \in P
  <2> SUFFICES ASSUME NEW q \in 1 .. l + 1, Parts[q], q + (k + 1) >= l + 1 PROVE Done(q)
    OBVIOUS
  <2>1. CASE q = l + 1
    BY <1>3, <2>1
  <2>2. CASE q # l + 1
    <3>1. PICK e \in Ends(q) : Parts[e + 1]
      BY <1>2, <2>2
    <3>2. e \in q .. l /\ q \in 1 .. l
      BY <1>1, <1>5, <2>2, <3>1
    <3>3. e + 1 \in 1 .. l + 1 /\ e + 1 + k >= l + 1
      BY <1>1, <3>2
    <3>4. Done(e + 1)
      BY <1>7, <3>1, <3>3
    <3> QED BY <1>4, <3>1, <3>2, <3>4
  <2> QED BY <2>1, <2>2
<1> HIDE DEF P
<1>8. l + 1 \in Nat /\ l + 1 \in P
  BY <1>1, <1>6, <1>7, SetInduction
<1>9. Done(p)
  <2>1. p \in 1 .. l + 1 /\ p + (l + 1) >= l + 1
    BY <1>1 DEF l
  <2> QED BY <1>8, <2>1 DEF P
<1> QED BY <1>9 DEF Done, l

\* With a dictionary that fits in a char a text is decoded as it was sent or as
\* a beginning of it; and as it was sent, if it is made of words and no word of
\* the dictionary begins another one.
THEOREM TextsComeBack == Spec => []RoundTrip
<1>1. ASSUME IInv, phase = "decoded", FitsInChar, PrefixFree, Composed
      PROVE  decoded = text
  <2>1. /\ text \in Seq(Nat) /\ Len(text) \in Nat /\ 1 \in 1 .. Len(text) + 1 /\ Parts[1]
        /\ Len(lines) \in Nat
    <3>1. Parts[1]
      BY <1>1, ComposedIsParts, Zenon
    <3> QED BY <1>1, <3>1, TextFacts DEF IInv
  <2>2. Plain
    <3> SUFFICES ASSUME HasBlankLine, text # << >> PROVE FALSE
      BY DEF Plain
    <3>1. Len(text) \in Nat /\ Len(text) # 0
      BY <2>1, EmptySeq
    <3>2. PICK e \in 1 .. Len(text) : Listed(SubSeq(text, 1, e))
      <4>1. 1 # Len(text) + 1
        BY <3>1
      <4>2. \E e \in Ends(1) : Parts[e + 1]
        BY <2>1, <4>1, PartsFacts
      <4> QED BY <4>2 DEF Ends
    <3> DEFINE w == SubSeq(text, 1, e)
    <3>3. w \in Seq(Nat) /\ Len(w) = e /\ e \in Nat \ {0}
      <4>1. \A i \in 1 .. e : text[i] \in Nat
        BY <2>1, ElementOfSeq
      <4>2. e \in Int /\ 1 <= e /\ e - 1 + 1 = e
        BY <2>1
      <4> QED BY <4>1, <4>2, SubSeqProperties
    <3>4. PICK i, j \in DOMAIN lines : lines[i] = << >> /\ lines[j] = w
      BY <3>2 DEF HasBlankLine, Listed
    <3> HIDE DEF w
    <3>5. IsPrefix(<< >>, w)
      <4>1. << >> \in Seq(Nat) /\ << >> \o w = w
        BY <3>3, EmptySeq, ConcatEmptySeq
      <4> QED BY <3>3, <4>1, PrefixOfConcat
    <3>6. << >> # w
      BY <3>3, EmptySeq
    <3> QED BY <1>1, <3>4, <3>5, <3>6 DEF PrefixFree, IsStrictPrefix
  <2>3. decoded = FlattenSeq(GreedyParse)
    BY <1>1, <2>2, WhatArrives
  <2>4. FlattenSeq(Parse[1]) = SubSeq(text, 1, Len(text))
    BY <1>1, <2>1, PartsFlatten DEF IInv
  <2> QED BY <2>1, <2>3, <2>4, GreedyParseIsParse, SubSeqFull
<1>2. IInv => RoundTrip
  BY <1>1, BeginningArrives DEF RoundTrip
<1> QED BY <1>2, Invariance, PTL

-----------------------------------------------------------------------------
(* The fields of a datagram *)

\* The datagrams sendCommonInfo makes.
Messages == [status : 0 .. 3, fps : 0 .. 255, voltage : 0 .. 255,
             temperature : 0 .. 255, highest_servo : 0 .. 255, lists : [Lists -> Nat],
             ball_gl_cf : [confidence : 0 .. 100, is_detect : BOOLEAN,
                           pos_x : Int, pos_theta : Int],
             self_pos_cf : [confidence : 0 .. 100, is_detect : BOOLEAN,
                            pos_x : Int, pos_theta : Int]]

\* upTo holds the bytes up to the end of each of the first k fields.
Lengths(message, upTo, k) ==
  upTo = [m \in 0 .. k |-> IF m = 0 THEN 0 ELSE upTo[m - 1] + Size(TagOrder[m], message)]

\* There is such a function.
LEMMA LengthExists ==
  ASSUME NEW message, NEW n \in Nat
  PROVE  \E upTo : Lengths(message, upTo, n)
<1> DEFINE P == {k \in Nat : \E upTo : Lengths(message, upTo, k)}
<1>1. 0 \in P
  <2> DEFINE f == [m \in 0 .. 0 |-> 0]
  <2>1. Lengths(message, f, 0)
    BY DEF Lengths
  <2> QED BY <2>1
<1>2. ASSUME NEW k \in Nat, k \in P PROVE k + 1 \in P
  <2>1. PICK f : Lengths(message, f, k)
    BY <1>2
  <2> DEFINE g == [m \in 0 .. k + 1 |-> IF m = k + 1 THEN f[k] + Size(TagOrder[m], message) ELSE f[m]]
  <2>2. Lengths(message, g, k + 1)
    <3> SUFFICES ASSUME NEW m \in 0 .. k + 1
                 PROVE  g[m] = IF m = 0 THEN 0 ELSE g[m - 1] + Size(TagOrder[m], message)
      BY DEF Lengths
    <3>1. CASE m = k + 1
      BY <3>1
    <3>2. CASE m # k + 1
      BY <2>1, <3>2 DEF Lengths
    <3> QED BY <3>1, <3>2
  <2> QED BY <2>2
<1> HIDE DEF P
<1>3. n \in P
  BY <1>1, <1>2, SetInduction
<1> QED BY <1>3 DEF P

\* A field takes a number of bytes.
LEMMA SizeIsNatural ==
  ASSUME NEW message \in Messages, NEW field
  PROVE  Size(field, message) \in Nat
<1>1. CASE field \in Lists
  <2>1. message.lists[field] \in Nat
    BY <1>1 DEF Messages
  <2>2. \A a, b \in Nat : a * b \in Nat
    OBVIOUS
  <2>3. message.lists[field] * PoseSize \in Nat
    BY <2>1, <2>2, SizeAssumption, CallsAssumption
  <2>4. Size(field, message) = message.lists[field] * PoseSize
    BY <1>1 DEF Size, Lists
  <2> QED BY <2>3, <2>4
<1>2. CASE field \notin Lists
  BY <1>2, SizeAssumption, CallsAssumption DEF Size, Lists
<1> QED BY <1>1, <1>2

\* A field ends where the one before it ends, and its own bytes.
LEMMA LengthSteps ==
  ASSUME NEW message \in Messages
  PROVE  /\ Length(0, message) = 0
         /\ \A n \in 1 .. Len(TagOrder) :
              Length(n, message) = Length(n - 1, message) + Size(TagOrder[n], message)
<1> DEFINE f == CHOOSE upTo : Lengths(message, upTo, Len(TagOrder))
<1>1. \A n : Length(n, message) = f[n]
  BY DEF Length, Lengths
<1>2. Len(TagOrder) \in Nat
  BY DEF TagOrder
<1>3. Lengths(message, f, Len(TagOrder))
  BY <1>2, LengthExists
<1> DEFINE l == Len(TagOrder)
<1> HIDE DEF f
<1>4. \A n \in 0 .. l : f[n] = IF n = 0 THEN 0 ELSE f[n - 1] + Size(TagOrder[n], message)
  BY <1>3 DEF Lengths
<1>5. l \in Nat
  BY <1>2
<1> HIDE DEF l
<1>6. f[0] = 0 /\ \A n \in 1 .. l : f[n] = f[n - 1] + Size(TagOrder[n], message)
  BY <1>4, <1>5
<1> QED BY <1>1, <1>6 DEF l

\* No field ends behind the last one.
LEMMA LengthRises ==
  ASSUME NEW message \in Messages, NEW n \in 1 .. Len(TagOrder)
  PROVE  Length(n, message) \in Nat /\ Length(n, message) <= Length(Len(TagOrder), message)
<1> DEFINE l == Len(TagOrder)
           L(k) == Length(k, message)
<1>1. l \in Nat
  BY DEF TagOrder
<1>2. L(0) = 0 /\ \A k \in 1 .. l : L(k) = L(k - 1) + Size(TagOrder[k], message)
  BY LengthSteps
<1>3. \A k \in 1 .. l : Size(TagOrder[k], message) \in Nat
  BY SizeIsNatural
<1> HIDE DEF l, L
<1> DEFINE P == {k \in Nat : k <= l => L(k) \in Nat /\ \A i \in 0 .. k : L(i) \in Nat /\ L(i) <= L(k)}
<1>4. 0 \in P
  BY <1>2
<1>5. ASSUME NEW k \in Nat, k \in P PROVE k + 1 \in P
  <2> SUFFICES ASSUME k + 1 <= l
               PROVE  L(k + 1) \in Nat /\ \A i \in 0 .. k + 1 : L(i) \in Nat /\ L(i) <= L(k + 1)
    OBVIOUS
  <2>1. k + 1 \in 1 .. l /\ k + 1 - 1 = k
    BY <1>1
  <2>2. L(k + 1) = L(k) + Size(TagOrder[k + 1], message)
    BY <1>2, <2>1
  <2>3. L(k) \in Nat /\ \A i \in 0 .. k : L(i) \in Nat /\ L(i) <= L(k)
    BY <1>1, <1>5
  <2>4. L(k + 1) \in Nat /\ L(k) <= L(k + 1)
    BY <1>3, <2>1, <2>2, <2>3
  <2>5. ASSUME NEW i \in 0 .. k + 1 PROVE L(i) \in Nat /\ L(i) <= L(k + 1)
    <3>1. CASE i = k + 1
      BY <2>4, <3>1
    <3>2. CASE i \in 0 .. k
      BY <2>3, <2>4, <3>2
    <3> QED BY <3>1, <3>2
  <2> QED BY <2>4, <2>5
<1> HIDE DEF P
<1>6. l \in P
  BY <1>1, <1>4, <1>5, SetInduction
<1> QED BY <1>1, <1>6 DEF P, l, L

\* Once the team's color has come through, everything has.
LEMMA AllOrNothing ==
  ASSUME NEW message \in Messages
  PROVE  /\ "team_color" \in Present(message) <=> Length(Len(TagOrder), message) <= buffer_size_
         /\ "team_color" \in Present(message) => \A n \in 1 .. Len(TagOrder) : TagOrder[n] \in Present(message)
<1>1. Len(TagOrder) = 13 /\ \A n \in 1 .. 13 : TagOrder[n] = "team_color" <=> n = 13
  BY DEF TagOrder
<1>2. \A n \in 1 .. 13 : Length(n, message) \in Nat /\ Length(n, message) <= Length(13, message)
  BY <1>1, LengthRises
<1>3. Present(message) = {TagOrder[i] : i \in {n \in 1 .. 13 : Length(n, message) <= buffer_size_}}
  BY <1>1 DEF Present
<1>4. "team_color" \in Present(message) <=> Length(13, message) <= buffer_size_
  BY <1>1, <1>3
<1> QED BY <1>1, <1>2, <1>3, <1>4, SizeAssumption, CallsAssumption

-----------------------------------------------------------------------------
\* What a receiver can find in a row.
Rows == [status : 0 .. 3, fps : -128 .. 127, voltage : -128 .. 127,
         temperature : -128 .. 127, highest_servo : -128 .. 127,
         lists : [Lists -> Nat], ball_gl_cf : StoredPlaces, self_pos_cf : StoredPlaces]

\* A coordinate loses its fraction, and nothing else.
LEMMA Cuts == \A n \in Int : Cut(n, 10) \in Int /\ CutOff(Cut(n, 10), n, 10)
BY DEF Cut, CutOff

\* What sendCommonInfo makes of a call.
LEMMA MessageFacts ==
  ASSUME NEW call \in Calls, NEW byte \in Casts(call.ball_gl_cf.cf),
         NEW detected \in call.ball_gl_cf.is_detect
  PROVE  Message(call, byte, detected) \in Messages
<1>1. /\ call.ball_gl_cf \in Places /\ call.lists \in [Lists -> Nat]
      /\ call.fps \in Int /\ call.Temperature \in Int /\ call.servo1temp \in Int /\ call.MotorVoltage \in Int
      /\ call.fallen \in BOOLEAN /\ call.idle \in BOOLEAN
  BY SizeAssumption, CallsAssumption
<1>2. /\ call.ball_gl_cf.cf \in Int /\ call.ball_gl_cf.x \in Int /\ call.ball_gl_cf.th \in Int
      /\ detected \in BOOLEAN
  BY <1>1 DEF Places
<1>3. byte \in 0 .. 255
  BY <1>2 DEF Casts, Byte
<1>4. Pos2DCfsetter(call.ball_gl_cf, byte, detected) \in
        [confidence : 0 .. 100, is_detect : BOOLEAN, pos_x : Int, pos_theta : Int]
  BY <1>2, <1>3 DEF Pos2DCfsetter, ClampedConfidence, Cut
<1>5. Status(call) \in 0 .. 3
  BY <1>1 DEF Status
<1>6. call.MotorVoltage \div 8 \in Int /\ call.servo1temp \div 256 \in Int
  BY <1>1
<1>7. /\ Byte(call.fps) \in 0 .. 255 /\ Byte(call.MotorVoltage \div 8) \in 0 .. 255
      /\ Byte(call.Temperature) \in 0 .. 255 /\ Byte(call.servo1temp \div 256) \in 0 .. 255
  BY <1>1, <1>6 DEF Byte
<1> QED BY <1>1, <1>4, <1>5, <1>7 DEF Message, Messages

RowTypes ==
  /\ wire = None \/ wire \in Messages
  /\ row \in Rows
  /\ said \in Calls \union {NoCall} /\ heard \in Calls \union {NoCall}

LEMMA InitTypes == DataInit => RowTypes
BY DEF DataInit, RowTypes, Rows, StoredPlaces, NoPlace

\* Whichever fields are present.
LEMMA RowsStayTyped ==
  ASSUME row \in Rows, NEW message \in Messages, NEW present
  PROVE  Updated(message, present) \in Rows
<1>1. /\ message.status \in 0 .. 3 /\ message.fps \in 0 .. 255 /\ message.voltage \in 0 .. 255
      /\ message.temperature \in 0 .. 255 /\ message.highest_servo \in 0 .. 255
      /\ message.lists \in [Lists -> Nat]
  BY DEF Messages
<1>2. /\ FromChar(message.status) \in 0 .. 3 /\ FromChar(message.fps) \in -128 .. 127
      /\ FromChar(message.voltage) \in -128 .. 127 /\ FromChar(message.temperature) \in -128 .. 127
      /\ FromChar(message.highest_servo) \in -128 .. 127
  BY <1>1 DEF FromChar
<1>3. \A place \in [confidence : 0 .. 100, is_detect : BOOLEAN, pos_x : Int, pos_theta : Int] :
        Stored(place) \in StoredPlaces
  BY DEF Stored, StoredPlaces, FromChar
<1>4. Stored(message.ball_gl_cf) \in StoredPlaces /\ Stored(message.self_pos_cf) \in StoredPlaces
  BY <1>3 DEF Messages
<1>5. [l \in Lists |-> IF l \in present /\ message.lists[l] > 0 THEN message.lists[l] ELSE row.lists[l]]
        \in [Lists -> Nat]
  BY <1>1 DEF Rows
<1> QED BY <1>2, <1>4, <1>5 DEF Updated, Rows

LEMMA NextTypes == RowTypes /\ [DataNext]_dataVars => RowTypes'
<1> SUFFICES ASSUME RowTypes, [DataNext]_dataVars PROVE RowTypes'
  OBVIOUS
<1>1. ASSUME NEW call \in Calls, sendCommonInfo(call) PROVE RowTypes'
  BY <1>1, MessageFacts DEF sendCommonInfo, RowTypes
<1>2. CASE receivedDataHandler
  <2>1. wire \in Messages
    BY <1>2 DEF receivedDataHandler, RowTypes
  <2>2. Updated(wire, Present(wire)) \in Rows
    BY <2>1, RowsStayTyped DEF RowTypes
  <2> QED BY <1>2, <2>2 DEF receivedDataHandler, RowTypes
<1>3. CASE Lose
  BY <1>3 DEF Lose, RowTypes
<1>4. CASE UNCHANGED dataVars
  BY <1>4 DEF dataVars, RowTypes
<1> QED BY <1>1, <1>2, <1>3, <1>4 DEF DataNext

\* A datagram holds bytes, and a row what the getters may return.
THEOREM RowsTyped == DataSpec => []DataTypeOK
<1>1. RowTypes => DataTypeOK
  BY DEF RowTypes, DataTypeOK, Messages, Rows
<1>2. RowTypes /\ [DataNext]_dataVars => RowTypes'
  BY NextTypes
<1> QED BY <1>1, <1>2, InitTypes, PTL DEF DataSpec

\* The datagram on the way is what a call said, and so is the row.
WireIsACall ==
  wire # None =>
    /\ said \in Calls
    /\ \E byte \in Casts(said.ball_gl_cf.cf), detected \in said.ball_gl_cf.is_detect :
         wire = Message(said, byte, detected)

RowInv == RowTypes /\ WireIsACall /\ RowIsOneCall

\* The step that matters: the handler stores a whole datagram.
LEMMA HandlerStores ==
  ASSUME RowInv, receivedDataHandler, "team_color" \in Present(wire)
  PROVE  RowIsOneCall'
<1>1. wire # None /\ wire \in Messages /\ said \in Calls /\ row \in Rows
  BY DEF RowInv, RowTypes, WireIsACall, receivedDataHandler
<1>2. PICK byte \in Casts(said.ball_gl_cf.cf), detected \in said.ball_gl_cf.is_detect :
        wire = Message(said, byte, detected)
  BY <1>1 DEF RowInv, WireIsACall
<1> DEFINE present == Present(wire)
<1>3. row' = Updated(wire, present) /\ heard' = said
  BY DEF receivedDataHandler
<1>4. /\ "status" \in present /\ "fps" \in present /\ "voltage" \in present
      /\ "temperature" \in present /\ "highest_servo" \in present
      /\ "ball_gl_cf" \in present /\ "self_pos_cf" \in present
      /\ \A l \in Lists : l \in present
  <2>1. Len(TagOrder) = 13 /\ \A n \in 1 .. 13 : TagOrder[n] \in present
    BY <1>1, AllOrNothing DEF TagOrder
  <2> HIDE DEF present
  <2>2. TagOrder[2] \in present /\ TagOrder[3] \in present /\ TagOrder[4] \in present
    BY <2>1
  <2>3. TagOrder[5] \in present /\ TagOrder[6] \in present /\ TagOrder[7] \in present
    BY <2>1
  <2>4. TagOrder[8] \in present /\ TagOrder[9] \in present /\ TagOrder[10] \in present
    BY <2>1
  <2>5. TagOrder[11] \in present /\ TagOrder[12] \in present
    BY <2>1
  <2> QED BY <2>2, <2>3, <2>4, <2>5 DEF TagOrder, Lists
<1> HIDE DEF present
<1>5. /\ row'.status = FromChar(wire.status)
      /\ row'.fps = FromChar(wire.fps)
      /\ row'.voltage = FromChar(wire.voltage)
      /\ row'.temperature = FromChar(wire.temperature)
      /\ row'.highest_servo = FromChar(wire.highest_servo)
      /\ row'.ball_gl_cf = Stored(wire.ball_gl_cf)
      /\ row'.self_pos_cf = Stored(wire.self_pos_cf)
      /\ \A l \in Lists : wire.lists[l] > 0 => row'.lists[l] = wire.lists[l]
  BY <1>3, <1>4 DEF Updated
<1>6. /\ said.ball_gl_cf \in Places
      /\ said.fps \in Int /\ said.Temperature \in Int /\ said.servo1temp \in Int /\ said.MotorVoltage \in Int
      /\ said.fallen \in BOOLEAN /\ said.idle \in BOOLEAN
  BY <1>1, SizeAssumption, CallsAssumption
<1>7. /\ (row'.status % 2 = 1) = said.fallen
      /\ (row'.status >= 2) = said.idle
  <2>1. row'.status = Status(said)
    <3>1. Status(said) \in 0 .. 3
      BY <1>6 DEF Status
    <3>2. wire.status = Status(said)
      BY <1>2 DEF Message
    <3> QED BY <1>5, <3>1, <3>2 DEF FromChar
  <2> QED BY <1>6, <2>1 DEF Status
<1>8. /\ said.fps \in Small => row'.fps = said.fps
      /\ said.MotorVoltage \div 8 \in Small => row'.voltage = said.MotorVoltage \div 8
      /\ said.Temperature \in Small => row'.temperature = said.Temperature
      /\ said.servo1temp \div 256 \in Small => row'.highest_servo = said.servo1temp \div 256
  <2>1. \A n \in Small : FromChar(Byte(n)) = n
    BY DEF Small, Byte, FromChar
  <2>2. /\ wire.fps = Byte(said.fps) /\ wire.voltage = Byte(said.MotorVoltage \div 8)
        /\ wire.temperature = Byte(said.Temperature)
        /\ wire.highest_servo = Byte(said.servo1temp \div 256)
    BY <1>2 DEF Message
  <2> QED BY <1>5, <2>1, <2>2
<1>9. /\ row'.ball_gl_cf.is_detect \in said.ball_gl_cf.is_detect
      /\ row'.ball_gl_cf.x = Cut(said.ball_gl_cf.x, 10)
      /\ row'.ball_gl_cf.th = Cut(said.ball_gl_cf.th, 10)
  BY <1>2, <1>5 DEF Message, Pos2DCfsetter, Stored
<1>10. CutOff(row'.ball_gl_cf.x, said.ball_gl_cf.x, 10) /\ CutOff(row'.ball_gl_cf.th, said.ball_gl_cf.th, 10)
  <2>1. said.ball_gl_cf.x \in Int /\ said.ball_gl_cf.th \in Int
    BY <1>6 DEF Places
  <2> QED BY <1>9, <2>1, Cuts
<1>11. \A l \in Lists : said.lists[l] > 0 => row'.lists[l] = said.lists[l]
  BY <1>2, <1>5 DEF Message
<1>12. said.ball_gl_cf.cf \in Confidences => row'.ball_gl_cf.cf = said.ball_gl_cf.cf
  <2> DEFINE cf == said.ball_gl_cf.cf
  <2> SUFFICES ASSUME cf \in Confidences PROVE row'.ball_gl_cf.cf = cf
    OBVIOUS
  <2>1. row'.ball_gl_cf.cf = FromChar(ClampedConfidence(byte))
    BY <1>2, <1>5 DEF Message, Pos2DCfsetter, Stored
  <2>2. byte \in Casts(cf)
    OBVIOUS
  <2> HIDE DEF cf
  <2>3. byte = cf
    BY <2>2 DEF Casts, Byte, Confidences
  <2>4. FromChar(ClampedConfidence(cf)) = cf
    BY DEF FromChar, ClampedConfidence, Confidences
  <2> QED BY <2>1, <2>3, <2>4 DEF cf
<1> QED BY <1>3, <1>7, <1>8, <1>9, <1>10, <1>11, <1>12 DEF RowIsOneCall

LEMMA NextRowInv == RowInv /\ [DataNext]_dataVars => RowInv'
<1> SUFFICES ASSUME RowInv, [DataNext]_dataVars PROVE RowInv'
  OBVIOUS
<1>1. RowTypes'
  BY NextTypes DEF RowInv
<1>2. ASSUME NEW call \in Calls, sendCommonInfo(call) PROVE WireIsACall' /\ RowIsOneCall'
  BY <1>2 DEF sendCommonInfo, RowInv, WireIsACall, RowIsOneCall
<1>3. ASSUME receivedDataHandler PROVE WireIsACall' /\ RowIsOneCall'
  <2>1. WireIsACall'
    BY <1>3 DEF receivedDataHandler, WireIsACall
  <2>2. RowIsOneCall'
    <3>1. CASE "team_color" \in Present(wire)
      BY <1>3, <3>1, HandlerStores
    <3>2. CASE "team_color" \notin Present(wire)
      <4>1. UNCHANGED <<row, heard>>
        BY <1>3, <3>2 DEF receivedDataHandler
      <4> QED BY <4>1 DEF RowInv, RowIsOneCall
    <3> QED BY <3>1, <3>2
  <2> QED BY <2>1, <2>2
<1>4. CASE Lose
  BY <1>1, <1>4 DEF Lose, RowInv, WireIsACall, RowIsOneCall
<1>5. CASE UNCHANGED dataVars
  BY <1>1, <1>5 DEF dataVars, RowInv, WireIsACall, RowIsOneCall
<1> QED BY <1>1, <1>2, <1>3, <1>4, <1>5 DEF DataNext, RowInv

\* What the getters return is what the last call that came through said, for
\* figures that are in their ranges, whatever was lost or cut between its
\* datagrams and however long the lists are.
THEOREM OneCall == DataSpec => []RowIsOneCall
<1>1. DataInit => RowInv
  BY InitTypes DEF RowInv, WireIsACall, RowIsOneCall, DataInit
<1>2. RowInv => RowIsOneCall
  BY DEF RowInv
<1>3. RowInv /\ [DataNext]_dataVars => RowInv'
  BY NextRowInv
<1> QED BY <1>1, <1>2, <1>3, PTL DEF DataSpec

\* A datagram that is longer than the receive buffer changes no field of the
\* row: the last field it would have had is the one the handler needs first.
THEOREM CutDropped == DataSpec => CutDatagramsAreDropped
<1>1. RowTypes /\ [DataNext]_dataVars =>
        [wire # None /\ Length(Len(TagOrder), wire) > buffer_size_ => UNCHANGED row]_dataVars
  <2> SUFFICES ASSUME RowTypes, DataNext, wire # None,
                      Length(Len(TagOrder), wire) > buffer_size_
               PROVE  UNCHANGED row
    OBVIOUS
  <2>1. wire \in Messages
    BY DEF RowTypes
  <2>2. Length(Len(TagOrder), wire) \in Nat
    <3>1. Len(TagOrder) = 13
      BY DEF TagOrder
    <3> QED BY <2>1, <3>1, LengthRises
  <2>3. "team_color" \notin Present(wire)
    BY <2>1, <2>2, AllOrNothing, SizeAssumption, CallsAssumption
  <2> QED BY <2>3 DEF DataNext, sendCommonInfo, receivedDataHandler, Lose
<1>2. RowTypes /\ [DataNext]_dataVars => RowTypes'
  BY NextTypes
<1> QED BY <1>1, <1>2, InitTypes, PTL DEF DataSpec, CutDatagramsAreDropped
=============================================================================
