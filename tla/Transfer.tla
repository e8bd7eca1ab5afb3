------------------------------ MODULE Transfer ------------------------------
(***************************************************************************)
(* What a file transfer promises: the receiver gets the pieces of one      *)
(* source's file, each once and in their order, and calls the transfer     *)
(* complete when it has the last one.                                      *)
(***************************************************************************)
EXTENDS Naturals, Sequences

CONSTANT Sources

VARIABLES
    size,       \* the number of pieces
    got,        \* the pieces received, with the source of each
    complete

tVars == <<size, got, complete>>

Init == size \in Nat \ {0} /\ got = <<>> /\ complete = FALSE

Piece(src, i) == [src |-> src, piece |-> i]

Deliver(src) ==
    /\ ~complete
    /\ \A i \in DOMAIN got : got[i].src = src
    /\ got' = Append(got, Piece(src, Len(got) + 1))
    /\ complete' = (Len(got') = size)
    /\ UNCHANGED size

Next == \E src \in Sources : Deliver(src)

Spec == Init /\ [][Next]_tVars
=============================================================================
