--------------------------- MODULE MC_PictureQueue ----------------------------
(* Three small pictures, for TLC. *)
EXTENDS PictureQueue

\* Images of '0' as in the source, which is also the tag of the time; a time of
\* two bytes; and fields the sender of the source leaves at their defaults.
MC_Pictures ==
  { Composed(<<48, 48>>, 300, 2, 1), Composed(<< >>, 1, 3, 1),
    set_name(set_quality(Composed(<<48>>, 5, 0, 16), -1), <<97>>) }
=============================================================================
