----------------------------- MODULE GssPromise -----------------------------
(***************************************************************************)
(* What the backup and restore scripts promise together, without any file, *)
(* registry key or service: the server serves one whole state at a time,   *)
(* and after it was off it serves a state that it has served before, never *)
(* a mixture of two.                                                       *)
(***************************************************************************)
CONSTANTS States, Off

VARIABLES
    serving,    \* the state being served, or Off
    known       \* every state served so far

pVars == <<serving, known>>

Init == serving \in States /\ known = {serving}

\* Users change the state, or the suite is set up anew.
Change ==
    /\ serving' \in States \ known
    /\ known' = known \cup {serving'}

SwitchOff ==
    /\ serving # Off
    /\ serving' = Off
    /\ UNCHANGED known

\* With or without a restore in between.
SwitchOn ==
    /\ serving = Off
    /\ serving' \in known
    /\ UNCHANGED known

Next == Change \/ SwitchOff \/ SwitchOn

Spec == Init /\ [][Next]_pVars
=============================================================================
