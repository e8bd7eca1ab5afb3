---------------------------- MODULE MCGssBackup -----------------------------
(* Small instances of GssBackup. *)
EXTENDS GssBackup, TLC

CONSTANTS k1, k2

\* Counts below the floor of two, a floor beside the default, the default.
MCKeepLow == [backup |-> 1, undo |-> 1]
MCKeepMixed == [backup |-> 1, undo |-> 3]
MCKeepDefault == [backup |-> 3, undo |-> 3]

\* The keys are interchangeable.
KeySymmetry == Permutations(Keys)
=============================================================================
