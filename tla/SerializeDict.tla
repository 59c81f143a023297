---------------------------- MODULE SerializeDict ----------------------------
(***************************************************************************)
(* SerializeStringByDict (devInfoshare/InfoShare/infoshare.{h,cpp}): the   *)
(* dictionary that turns a command or a behaviour name, a concatenation of *)
(* words, into a string of one byte per word, and back.                    *)
(*                                                                         *)
(* A text is a sequence of letters; a dictionary is the sequence of lines  *)
(* of its file, a line being a word.  The sender scans the text with       *)
(* serializeTextImpl, one action per turn of its loop; the receiver, which *)
(* reads its own copy of the same file, then decodes the bytes.            *)
(***************************************************************************)
EXTENDS Integers, Sequences, FiniteSets, SequencesExt

CONSTANTS
  SCHAR_MAX,      \* the largest char: 127 on the robots
  Dictionaries,   \* the contents dictionary files may have
  Texts           \* the texts an application may send

Words == UNION {{file[i] : i \in DOMAIN file} : file \in Dictionaries}

ASSUME CharAssumption == SCHAR_MAX \in Nat \ {0}
ASSUME DictionaryAssumption ==
  \A file \in Dictionaries : file \in Seq(Seq(Nat)) /\ file # << >>
ASSUME TextAssumption == Texts \subseteq Seq(Nat)

VARIABLES
  lines,          \* the dictionary file
  text,           \* the text to send
  itr,            \* position of the loop in the text
  start,          \* where sub_string begins: it ends at itr
  word_end_pos,   \* end of the longest word found so far
  found_word,     \* that word, empty when there is none
  return_seq,     \* the bytes of the words found
  decoded,        \* what the receiver made of them
  phase           \* scan, encoded or decoded

vars == <<lines, text, itr, start, word_end_pos, found_word, return_seq, decoded, phase>>

-----------------------------------------------------------------------------
(* The dictionaries, built line by line by the constructor *)

\* command_to_num_: a word listed twice keeps its last number.
Listed(word) == \E i \in DOMAIN lines : lines[i] = word
Number(word) == CHOOSE i \in DOMAIN lines :
                  lines[i] = word /\ \A j \in DOMAIN lines : lines[j] = word => j <= i

\* num_to_command_: operator[] makes an empty word for any other number.
Word(number) == IF number \in DOMAIN lines THEN lines[number] ELSE << >>

\* The values a char may have.
Chars == 2 * (SCHAR_MAX + 1)

\* Mutant of ToChar: numbers stored from 0 upwards.
ToChar_ZeroBased(number) ==
  LET byte == (number - 1) % Chars
  IN IF byte > SCHAR_MAX THEN byte - Chars ELSE byte

\* The number is stored in a char, and read back from one.  char is taken to be
\* signed, as on x86; where it is not the bytes from 128 on come back as they are.
ToChar(number) ==
  LET byte == number % Chars
  IN IF byte > SCHAR_MAX THEN byte - Chars ELSE byte

-----------------------------------------------------------------------------
\* commandToNumSequence or behaviorNameToNumSequence: the same scan with the
\* dictionary of the commands or the one of the behaviour names.
commandToNumSequence == lines \in Dictionaries /\ text \in Texts

Init ==
  /\ commandToNumSequence
  /\ itr = 1 /\ start = 1
  /\ word_end_pos = 1
  /\ found_word = << >>
  /\ return_seq = << >> /\ decoded = << >>
  /\ phase = "scan"

SubString == SubSeq(text, start, itr)
LongestSoFar == IF Listed(SubString) THEN SubString ELSE found_word
EndSoFar == IF Listed(SubString) THEN itr ELSE word_end_pos

\* Mutant of Scan: the first word found is kept, not the longest.
Scan_KeepsFirst ==
  /\ phase = "scan" /\ itr < Len(text)
  /\ found_word' = IF found_word = << >> THEN LongestSoFar ELSE found_word
  /\ word_end_pos' = IF found_word = << >> THEN EndSoFar ELSE word_end_pos
  /\ itr' = itr + 1
  /\ UNCHANGED <<lines, text, start, return_seq, decoded, phase>>

\* A turn of the loop before the last letter.
Scan ==
  /\ phase = "scan" /\ itr < Len(text)
  /\ found_word' = LongestSoFar
  /\ word_end_pos' = EndSoFar
  /\ itr' = itr + 1
  /\ UNCHANGED <<lines, text, start, return_seq, decoded, phase>>

\* The last letter: the longest word found is put out and the scan goes back
\* to the letter after it.  When no word was found and the file has a blank
\* line, the empty word has a number, and word_end_pos is that of an earlier
\* word.
Emit ==
  /\ phase = "scan" /\ itr = Len(text)
  /\ Listed(LongestSoFar)
  /\ return_seq' = Append(return_seq, ToChar(Number(LongestSoFar)))
  /\ found_word' = << >>
  /\ word_end_pos' = EndSoFar
  /\ IF EndSoFar = Len(text)
     THEN phase' = "encoded" /\ UNCHANGED <<itr, start>>
     ELSE itr' = EndSoFar + 1 /\ start' = EndSoFar + 1 /\ UNCHANGED phase
  /\ UNCHANGED <<lines, text, decoded>>

\* Mutant of GiveUp: instead of leaving the loop, the scan begins again.
GiveUp_Retries ==
  /\ phase = "scan" /\ itr = Len(text)
  /\ ~Listed(LongestSoFar)
  /\ found_word' = << >>
  /\ itr' = start
  /\ UNCHANGED <<lines, text, start, word_end_pos, return_seq, decoded, phase>>

\* The last letter with no word found: at throws, the handler at the end of
\* the function catches, and the words put out so far are returned.
GiveUp ==
  /\ phase = "scan" /\ itr = Len(text)
  /\ ~Listed(LongestSoFar)
  /\ found_word' = LongestSoFar
  /\ word_end_pos' = EndSoFar
  /\ phase' = "encoded"
  /\ UNCHANGED <<lines, text, itr, start, return_seq, decoded>>

\* An empty text.
Nothing ==
  /\ phase = "scan" /\ Len(text) < itr
  /\ phase' = "encoded"
  /\ UNCHANGED <<lines, text, itr, start, word_end_pos, found_word, return_seq, decoded>>

\* numSequenceToCommand and numSequenceToBehaviorName.
Decode ==
  /\ phase = "encoded"
  /\ decoded' = FlattenSeq([i \in DOMAIN return_seq |-> Word(return_seq[i])])
  /\ phase' = "decoded"
  /\ UNCHANGED <<lines, text, itr, start, word_end_pos, found_word, return_seq>>

Next == Scan \/ Emit \/ GiveUp \/ Nothing \/ Decode

Spec == Init /\ [][Next]_vars

\* The function runs to its end: nothing in it waits.
FairSpec == Spec /\ WF_vars(Next)

-----------------------------------------------------------------------------
(* Properties *)

\* The type invariant.
TypeOK ==
  /\ lines \in Dictionaries /\ text \in Texts
  /\ itr \in 1 .. (IF text = << >> THEN 1 ELSE Len(text))
  /\ start \in 1 .. itr
  /\ word_end_pos \in 1 .. itr
  /\ found_word \in Words \union {<< >>}
  /\ return_seq \in Seq(-(SCHAR_MAX + 1) .. SCHAR_MAX)
  /\ decoded \in Seq(Nat)
  /\ phase \in {"scan", "encoded", "decoded"}

\* The greedy parse of the text from position p: the longest word that begins
\* there, then the parse of the rest, until no word begins.
GreedyParse ==
  LET parse[p \in 1 .. Len(text) + 1] ==
        LET ends == {e \in p .. Len(text) : Listed(SubSeq(text, p, e))}
        IN IF ends = {}
           THEN << >>
           ELSE LET e == CHOOSE m \in ends : \A n \in ends : n <= m
                IN <<SubSeq(text, p, e)>> \o parse[e + 1]
  IN parse[1]

\* The dictionary file has a blank line.
HasBlankLine == Listed(<< >>)

\* Unless the file has a blank line, the loop, with its backward jumps, computes
\* the greedy parse of the text, a word at a time and whatever words there are.
EncodesGreedily ==
  phase # "scan" /\ ~HasBlankLine =>
    return_seq = [i \in DOMAIN GreedyParse |-> ToChar(Number(GreedyParse[i]))]

\* The numbers of this dictionary fit in a char, whether it is signed or not.
FitsInChar == Len(lines) <= SCHAR_MAX

\* Whatever the text, known or unknown words in it, the receiver shows the text
\* or a beginning of it, never anything the sender did not say: no letter is
\* skipped, read twice or taken for another.
ShowsBeginning ==
  phase = "decoded" /\ FitsInChar /\ ~HasBlankLine => IsPrefix(decoded, text)

PrefixFree == \A i, j \in DOMAIN lines : ~IsStrictPrefix(lines[i], lines[j])

\* The text is a concatenation of words of the dictionary.
Composed ==
  LET parses[p \in 1 .. Len(text) + 1] ==
        p = Len(text) + 1 \/ \E e \in p .. Len(text) :
                               Listed(SubSeq(text, p, e)) /\ parses[e + 1]
  IN parses[1]

\* What arrives is the text or a beginning of it, and the whole of it when it is
\* made of words of a dictionary in which no word begins another one.
RoundTrip ==
  /\ ShowsBeginning
  /\ phase = "decoded" /\ FitsInChar /\ PrefixFree /\ Composed => decoded = text

\* The scan, which jumps back to the end of the last word, comes to an end.  With
\* a blank line in the file it need not: where no word begins, the empty one is
\* put out over and over.
Terminates == <>(phase = "decoded")
=============================================================================
