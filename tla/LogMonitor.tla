----------------------------- MODULE LogMonitor -----------------------------
(***************************************************************************)
(* tail.wsf: it opens a file again and again, reads the whole of it and    *)
(* writes what is new, while the program that owns the file appends to it, *)
(* rewrites it, deletes it, or keeps it locked.                            *)
(***************************************************************************)
EXTENDS Naturals, Sequences, SequencesExt

CONSTANTS
    Text,       \* what the file is made of
    MaxLen,     \* bound: the length of the file
    MaxChanges  \* bound: rewrites and deletions

Restarting == "Restarting"

ASSUME MonitorAssumption ==
    /\ Text # {} /\ Restarting \notin Text
    /\ MaxLen \in Nat \ {0} /\ MaxChanges \in Nat

VARIABLES
    file,       \* its contents
    present,    \* whether it is there
    locked,     \* whether its owner lets nobody else open it
    changes,    \* rewrites and deletions so far
    pc,         \* the script: where it is
    pos, prev,  \* the length and the text of the reading before
    screen,     \* what it has written
    appended    \* observed: nothing but appended to since the last reading

owner == <<file, present, locked, changes>>
script == <<pc, pos, prev, screen>>
mVars == <<owner, script, appended>>

MInit ==
    /\ file = <<>> /\ present = FALSE /\ locked = FALSE /\ changes = 0
    /\ pc = "open" /\ pos = 0 /\ prev = <<>> /\ screen = <<>>
    /\ appended = TRUE

-----------------------------------------------------------------------------
(* The owner of the file. *)

Extend(c) ==
    /\ Len(file) < MaxLen
    /\ file' = Append(file, c)
    /\ present' = TRUE
    /\ UNCHANGED <<locked, changes, script, appended>>

\* Truncated, and perhaps written anew at once.
Rewrite ==
    /\ present /\ changes < MaxChanges
    /\ file' \in {<<>>} \cup {<<c>> : c \in Text}
    /\ changes' = changes + 1
    /\ appended' = FALSE
    /\ UNCHANGED <<present, locked, script>>

\* A file that the script has open is not deleted.
Delete ==
    /\ present /\ pc = "open" /\ changes < MaxChanges
    /\ file' = <<>> /\ present' = FALSE
    /\ changes' = changes + 1
    /\ appended' = FALSE
    /\ UNCHANGED <<locked, script>>

Lock ==
    /\ pc = "open"
    /\ locked' = ~locked
    /\ UNCHANGED <<file, present, changes, script, appended>>

-----------------------------------------------------------------------------
(* The script. *)

Open_Once ==
    /\ pc = "open"
    /\ pc' = IF present /\ ~locked THEN "atend" ELSE "gone"
    /\ UNCHANGED <<owner, pos, prev, screen, appended>>

\* It sleeps and tries again until the file can be opened.
Open ==
    /\ pc = "open" /\ present /\ ~locked
    /\ pc' = "atend"
    /\ UNCHANGED <<owner, pos, prev, screen, appended>>

\* Left and Mid
Left(s, n) == SubSeq(s, 1, IF n > Len(s) THEN Len(s) ELSE n)
Mid(s, n) == SubSeq(s, n, Len(s))

\* Anything but a continuation starts the display anew.
Continues_Whole(str) == str = prev
Continues(str) == Left(str, pos) = prev

Kept_Always(str) == pos
Kept(str) == IF Continues(str) THEN pos ELSE 0

Show(str) ==
    /\ screen' = IF str = prev THEN screen
                   ELSE screen \o (IF Continues(str) THEN <<>> ELSE <<Restarting>>)
                               \o Mid(str, Kept(str) + 1)
    /\ pos' = Len(str)
    /\ prev' = str
    /\ pc' = "open"
    /\ appended' = TRUE

\* A stream at its end is taken for an empty text and not read.
AtEnd ==
    /\ pc = "atend"
    /\ IF file = <<>> THEN Show(<<>>)
         ELSE pc' = "read" /\ UNCHANGED <<pos, prev, screen, appended>>
    /\ UNCHANGED owner

\* Reading past the end, in a file that was truncated meanwhile, is an error.
ReadAll ==
    /\ pc = "read"
    /\ IF file # <<>> THEN Show(file)
         ELSE pc' = "stopped" /\ UNCHANGED <<pos, prev, screen, appended>>
    /\ UNCHANGED owner

MonitorStep == Open \/ AtEnd \/ ReadAll

Owner == (\E c \in Text : Extend(c)) \/ Rewrite \/ Delete \/ Lock

MNext == MonitorStep \/ Owner

\* The script polls as long as it can.
MSpec == MInit /\ [][MNext]_mVars /\ WF_mVars(MonitorStep)

-----------------------------------------------------------------------------
(* Properties *)

\* What is displayed since the display last started anew.
Starts(text) == {i \in DOMAIN text : text[i] = Restarting}
LastStart(text) == IF Starts(text) = {} THEN 0 ELSE Max(Starts(text))
Displayed == Mid(screen, LastStart(screen) + 1)

\* Whatever the owner did to the file between two readings, the display is one
\* text that was in the file, from its beginning, nothing twice and nothing left
\* out (tail.wsf 115-125).
DisplayIsReading == Displayed = prev /\ pos = Len(prev)

\* The display starts anew only when the file was more than appended to
\* (tail.wsf:36, "If we detect the previous contents of the file have changed").
RestartsForChange == [][Starts(screen') # Starts(screen) => ~appended]_mVars

\* Once the owner leaves it alone, all of the file comes to be displayed, unless
\* a truncation in the middle of a reading has stopped the script.
CatchesUp == <>[](present /\ ~locked)
               => <>[](pc = "stopped" \/ Displayed = file)
=============================================================================
