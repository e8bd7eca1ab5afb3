---------------------------- MODULE MCGssRestore ----------------------------
(* Small instances of GssRestore. *)
EXTENDS GssRestore, TLC

CONSTANTS k1, k2

MCKeepLow == [backup |-> 1, undo |-> 1]
MCKeepDefault == [backup |-> 3, undo |-> 3]

\* The keys are interchangeable.
KeySymmetry == Permutations(Keys)
=============================================================================
