------------------------ MODULE MCClearanceLauncher ------------------------
(* The instances of ClearanceLauncher that are model-checked. *)
EXTENDS ClearanceLauncher, TLC

CONSTANTS c1, c2, c3

TwoCommands == {c1, c2}
ThreeCommands == {c1, c2, c3}

\* Commands are only told apart by what they do.
AnyOrder == Permutations(Commands)
=============================================================================
