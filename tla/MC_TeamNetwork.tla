--------------------------- MODULE MC_TeamNetwork ----------------------------
(* Two robots and a third process with a number that is already taken. *)
EXTENDS TeamNetwork, TLC
CONSTANTS a, b, c, home

ThreeProcesses == (a :> 1) @@ (b :> 2) @@ (c :> 1)
OneNetwork == [p \in {a, b, c} |-> home]
Addresses == (a :> home) @@ (b :> Dotless) @@ (c :> home)
OnePair == {<<a, b>>}
=============================================================================
