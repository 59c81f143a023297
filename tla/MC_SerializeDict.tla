-------------------------- MODULE MC_SerializeDict ---------------------------
(* Small dictionaries over a small alphabet, for TLC. *)
EXTENDS SerializeDict

Letters == 1 .. 2

\* The words of up to three letters.
ShortWords == UNION {[1 .. n -> Letters] : n \in 1 .. 3}

\* Every dictionary file of one or two lines (twice the same line too), three
\* words of one, two and three letters, and a dictionary of 200 words of one
\* letter each, whose numbers leave the range of a signed char.
MC_Dictionaries ==
  UNION {[1 .. n -> ShortWords] : n \in 1 .. 2}
    \union {<<u, v, w>> : u \in [1 .. 1 -> Letters], v \in [1 .. 2 -> Letters],
                           w \in [1 .. 3 -> Letters]}
    \union {[i \in 1 .. 200 |-> <<i>>]}

\* Every text of up to five letters, most of which no dictionary can express,
\* and texts on both sides of the last number that fits.
MC_Texts ==
  UNION {[1 .. n -> Letters] : n \in 0 .. 5}
    \union {<<127, 1>>, <<128, 1>>, <<1, 128, 2>>, <<200>>}
=============================================================================
