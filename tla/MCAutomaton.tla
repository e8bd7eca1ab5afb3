---------------------------- MODULE MCAutomaton -----------------------------
(* Small instances of Automaton. *)
EXTENDS Automaton

\* A caller that waits for each reply, one like the tests, and one that does
\* not wait, and one without sockets; all let restart() find the lock held.
MCSettings == {{"next", "stop"}, {"loop", "next"}, {"runbg", "ctrl-c", "stop"}, {"nosocket"}}
MCLoop == {{"loop"}}
=============================================================================
