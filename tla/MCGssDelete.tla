---------------------------- MODULE MCGssDelete -----------------------------
(* Small instances of GssDelete. *)
EXTENDS GssDelete, TLC

CONSTANTS c1, c2, c3

\* Three clients, one with two shortcuts and one with an image, in folders of
\* which one is empty, with a row of every kind that refers to them.
MCDb ==
    [clients |-> {c1, c2, c3},
     views |-> {[id |-> 1, client |-> None, parent |-> None],
                [id |-> 2, client |-> None, parent |-> 1],
                [id |-> 3, client |-> c1, parent |-> 1],
                [id |-> 4, client |-> c1, parent |-> 5],
                [id |-> 5, client |-> None, parent |-> 1],
                [id |-> 6, client |-> c2, parent |-> 5],
                [id |-> 7, client |-> c3, parent |-> 1]},
     uses |-> {[id |-> 8, kind |-> "task", view |-> 3],
               [id |-> 9, kind |-> "custom", view |-> 4],
               [id |-> 10, kind |-> "report", view |-> 4],
               [id |-> 11, kind |-> "decommission", view |-> 2]},
     owned |-> {[id |-> 12, kind |-> "config", client |-> c1],
                [id |-> 13, kind |-> "config", client |-> c2],
                [id |-> 14, kind |-> "inventory", client |-> c2],
                [id |-> 15, kind |-> "image", client |-> c3]}]
=============================================================================
