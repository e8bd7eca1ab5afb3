------------------------------ MODULE SendRecv ------------------------------
(***************************************************************************)
(* sndrcv of scapy's sendrecv.py: a child process sends the stimuli, the   *)
(* parent matches what it receives with them, and rounds are repeated for  *)
(* the stimuli without an answer.  The two run at the same time and are    *)
(* joined by a pipe: the child writes its sending times when it is through,*)
(* or dies without a word, and only then does the parent's timeout begin.  *)
(*                                                                         *)
(* A reply is [of, n]: the n-th packet that the stimulus `of' provoked.    *)
(* It may pass for the answer to other stimuli as well (Passes); of those  *)
(* it is compared with the ones of its own hash.  The lists of hsent keep  *)
(* the order of All, so hsent is the set of what is in them.               *)
(***************************************************************************)
EXTENDS Integers, Sequences, FiniteSets, SequencesExt

CONSTANTS
    All,            \* all_stimuli, in the caller's order
    Hash,           \* hashret of each stimulus and of the replies to it, its
                    \* values numbered in the order of hsent.values()
    Passes,         \* Passes[s]: the stimuli a reply to s answers
    Retries,        \* the values of the argument retry
    Timeouts,       \* subset of BOOLEAN: TRUE for a positive timeout, else none
    MaxReplies,     \* bound: the packets each stimulus provokes
    MaxMishaps      \* bound: how often Ctrl-C is pressed or a child goes wrong

Stimuli == Range(All)

ASSUME SendRecvAssumption ==
    /\ All \in Seq(Stimuli) /\ All # <<>>
    /\ \A i, j \in DOMAIN All : All[i] = All[j] => i = j
    /\ Hash \in [Stimuli -> Nat]
    /\ Passes \in [Stimuli -> SUBSET Stimuli]
    /\ \A s \in Stimuli : s \in Passes[s]
    /\ Retries \subseteq Int /\ Timeouts \subseteq BOOLEAN
    /\ MaxReplies \in [Stimuli -> Nat] /\ MaxMishaps \in Nat

VARIABLES
    timed, multi, chainCC,  \* arguments
    retry, autostop,        \* rounds left, and what to set it to after success
    pc,                     \* where the parent is
    tobesent,               \* the stimuli of this round, then `remain'
    hsent,                  \* the stimuli that may still be answered
    flagged,                \* those with the attribute _answered (multi)
    ans, notans,
    inmask,                 \* the pipe is still among the descriptors to select
    stoptime,               \* "none", "set" or "past"
    stime,                  \* sent_time of the parent's packets
    raised,                 \* KeyboardInterrupt was passed on to the caller
    child, emit,            \* the child, and what it has still to send
    net,                    \* replies under way or waiting in the socket
    provoked,               \* how many replies each stimulus has had
    sent, round,            \* observed: the round each was last sent in
    fruitless, cut,         \* observed: rounds without success; whether a child
                            \* was cut short in what it sends or writes
    slipped,                \* observed: stimuli Ctrl-C left half matched
    mishaps

arguments == <<timed, multi, chainCC>>
matching == <<hsent, flagged, ans, notans>>
waiting == <<inmask, stoptime>>
childVars == <<child, emit, sent>>
network == <<net, provoked>>
progress == <<retry, autostop, tobesent, round, fruitless>>
srVars == <<arguments, matching, waiting, childVars, network, progress, pc,
            stime, raised, cut, slipped, mishaps>>

\* sent_time: the stimulus and the round the time was really taken for.
Never == <<>>

SRInit ==
    /\ timed \in Timeouts /\ multi \in BOOLEAN /\ chainCC \in BOOLEAN
    /\ \E r \in Retries : /\ retry = IF r < 0 THEN -r ELSE r
                          /\ autostop = IF r < 0 THEN -r ELSE 0
    /\ pc = "round"
    /\ tobesent = All
    /\ hsent = Stimuli
    /\ flagged = {} /\ ans = {} /\ notans = Len(All)
    /\ inmask = FALSE /\ stoptime = "none"
    /\ stime = [s \in Stimuli |-> Never]
    /\ raised = FALSE
    /\ child = "none" /\ emit = <<>>
    /\ net = {} /\ provoked = [s \in Stimuli |-> 0]
    /\ sent = [s \in Stimuli |-> 0] /\ round = 0
    /\ fruitless = 0 /\ cut = FALSE /\ slipped = {} /\ mishaps = 0

-----------------------------------------------------------------------------
(* The child. *)

ChildSends ==
    /\ child = "sending" /\ emit # <<>>
    /\ sent' = [sent EXCEPT ![Head(emit)] = round]
    /\ emit' = Tail(emit)
    /\ UNCHANGED <<arguments, matching, waiting, child, network, progress, pc,
                   stime, raised, cut, slipped, mishaps>>

Mishap == mishaps < MaxMishaps /\ mishaps' = mishaps + 1

\* pks.send raises an exception, which ends the emission.
ChildFails ==
    /\ child = "sending" /\ emit # <<>>
    /\ emit' = <<>> /\ cut' = TRUE
    /\ Mishap
    /\ UNCHANGED <<arguments, matching, waiting, child, sent, network, progress,
                   pc, stime, raised, slipped>>

\* It is killed, or something in its last block fails and is passed over:
\* nothing is written, and the parent finds the end of the pipe.
ChildDies ==
    /\ child = "sending"
    /\ child' = "dead" /\ emit' = <<>> /\ cut' = TRUE
    /\ Mishap
    /\ UNCHANGED <<arguments, matching, waiting, sent, network, progress, pc,
                   stime, raised, slipped>>

\* It writes the sending times it knows to the pipe.
ChildThrough ==
    /\ child = "sending" /\ emit = <<>>
    /\ child' = "through"
    /\ UNCHANGED <<arguments, matching, waiting, emit, sent, network, progress,
                   pc, stime, raised, cut, slipped, mishaps>>

-----------------------------------------------------------------------------
(* The parent. *)

Fork ==
    /\ pc = "round"
    /\ child' = "sending" /\ emit' = tobesent
    /\ inmask' = TRUE /\ stoptime' = "none"
    /\ round' = round + 1
    /\ pc' = "top"
    /\ UNCHANGED <<arguments, matching, sent, network, retry, autostop, tobesent,
                   fruitless, stime, raised, cut, slipped, mishaps>>

Top ==
    /\ pc = "top"
    /\ pc' = IF stoptime = "past" THEN "collect" ELSE "select"
    /\ UNCHANGED <<arguments, matching, waiting, childVars, network, progress,
                   stime, raised, cut, slipped, mishaps>>

PipeReady == inmask /\ child \in {"through", "dead"}

\* Variant: every packet starts the timeout again.
Hear_EachPacket ==
    IF PipeReady \/ ~inmask
    THEN inmask' = FALSE /\ stoptime' = IF timed THEN "set" ELSE "none"
    ELSE UNCHANGED waiting

\* The pipe is readable: the timeout starts here, if there is one.
Hear ==
    IF PipeReady
    THEN inmask' = FALSE /\ stoptime' = IF timed THEN "set" ELSE "none"
    ELSE UNCHANGED waiting

Index(s) == CHOOSE i \in DOMAIN All : All[i] = s

\* Variant: the last stimulus that it answers.
Earliest_Last(S) == CHOOSE s \in S : \A t \in S : Index(s) >= Index(t)

\* The loop over a list of hsent ends at its first stimulus of S.
Earliest(S) == CHOOSE s \in S : \A t \in S : Index(s) <= Index(t)

\* The stimuli of the reply's hash that it answers.
Rivals(s) == {p \in Passes[s] : Hash[p] = Hash[s]}
Fits(r) == hsent \cap Rivals(r.of)

\* Variant: an answered stimulus stays in the list although multi is off.
Answer_Kept(r) ==
    LET s == Earliest(Fits(r))
    IN  /\ ans' = ans \cup {<<s, r>>}
        /\ notans' = IF s \in flagged THEN notans ELSE notans - 1
        /\ flagged' = flagged \cup {s}
        /\ UNCHANGED hsent

\* Without multi the stimulus is taken out of its list; with it, it stays and
\* is only flagged.
Answer(r) ==
    LET s == Earliest(Fits(r))
    IN  /\ ans' = ans \cup {<<s, r>>}
        /\ IF multi
           THEN /\ notans' = IF s \in flagged THEN notans ELSE notans - 1
                /\ flagged' = flagged \cup {s}
                /\ UNCHANGED hsent
           ELSE /\ notans' = notans - 1
                /\ hsent' = hsent \ {s}
                /\ UNCHANGED flagged

\* select returns with a packet that answers something, and perhaps with the
\* pipe too.
Receive ==
    /\ pc = "select"
    /\ Hear
    /\ \E r \in net :
         /\ net' = net \ {r}
         /\ IF Fits(r) = {} THEN UNCHANGED matching ELSE Answer(r)
    /\ pc' = IF notans' = 0 /\ ~multi THEN "collect" ELSE "top"
    /\ UNCHANGED <<arguments, childVars, provoked, progress, stime, raised, cut,
                   slipped, mishaps>>

\* It returns with the pipe only, or with a packet of somebody else's.
HearOnly ==
    /\ pc = "select"
    /\ Hear
    /\ pc' = "top"
    /\ UNCHANGED <<arguments, matching, childVars, network, progress, stime,
                   raised, cut, slipped, mishaps>>

SelectTimesOut ==
    /\ pc = "select" /\ stoptime = "past" /\ ~PipeReady
    /\ pc' = "collect"
    /\ UNCHANGED <<arguments, matching, waiting, childVars, network, progress,
                   stime, raised, cut, slipped, mishaps>>

\* Ctrl-C reaches the child too unless it has left the process group.
Pressed ==
    /\ Mishap
    /\ emit' = <<>>
    /\ cut' = (cut \/ emit # <<>>)

\* Around the matching it is caught, and passed on only if chainCC.
Caught == raised' = chainCC /\ pc' = "collect"

Interrupt ==
    /\ pc \in {"top", "select"}
    /\ Pressed /\ Caught
    /\ UNCHANGED <<arguments, matching, waiting, child, sent, network, progress,
                   stime, slipped>>

\* In the middle of the matching, when the answer is in the list already: the
\* stimulus is not taken out yet, or taken out and not counted, or with multi
\* counted and not flagged.
InterruptAnswer ==
    /\ pc = "select"
    /\ Pressed /\ Caught
    /\ \E r \in net :
         /\ Fits(r) # {}
         /\ net' = net \ {r}
         /\ \/ Answer(r) /\ UNCHANGED slipped
            \/ LET s == Earliest(Fits(r))
               IN  /\ ans' = ans \cup {<<s, r>>}
                   /\ slipped' = slipped \cup {s}
                   /\ \/ UNCHANGED <<hsent, flagged, notans>>
                      \/ /\ ~multi
                         /\ hsent' = hsent \ {s}
                         /\ UNCHANGED <<flagged, notans>>
                      \/ /\ multi /\ s \notin flagged
                         /\ notans' = notans - 1
                         /\ UNCHANGED <<hsent, flagged>>
    /\ UNCHANGED <<arguments, waiting, child, sent, provoked, progress, stime>>

\* Before the fork, while the parent waits for the times and between two rounds
\* nothing catches it.
InterruptElsewhere ==
    /\ pc \in {"round", "collect", "decide"}
    /\ Pressed
    /\ raised' = TRUE /\ pc' = "done"
    /\ UNCHANGED <<arguments, matching, waiting, child, sent, network, progress,
                   stime, slipped>>

Time(s) == IF sent[s] = round THEN <<s, round>> ELSE stime[s]

\* The child's list of times, which leaves out packets that were never sent.
Timed == {i \in DOMAIN All : Time(All[i]) # Never}
Times ==
    [n \in 1..Cardinality(Timed) |->
        Time(All[CHOOSE i \in Timed : Cardinality({j \in Timed : j <= i}) = n])]

\* Variant: the times are given to the packets of this round.
Collect_ThisRound ==
    /\ pc = "collect" /\ child \in {"through", "dead"}
    /\ child' = "none"
    /\ stime' = [s \in Stimuli |->
                    LET at == {i \in DOMAIN tobesent \cap DOMAIN Times :
                                 child = "through" /\ tobesent[i] = s}
                    IN  IF at = {} THEN stime[s] ELSE Times[CHOOSE i \in at : TRUE]]
    /\ pc' = IF raised THEN "done" ELSE "decide"
    /\ UNCHANGED <<arguments, matching, waiting, emit, sent, network, progress,
                   raised, cut, slipped, mishaps>>

\* The parent waits for the child and copies the times it wrote, the n-th to
\* the n-th stimulus; a child that has died is worth a warning.
Collect ==
    /\ pc = "collect" /\ child \in {"through", "dead"}
    /\ child' = "none"
    /\ stime' = [s \in Stimuli |->
                    IF child = "through" /\ Index(s) \in DOMAIN Times
                    THEN Times[Index(s)] ELSE stime[s]]
    /\ pc' = IF raised THEN "done" ELSE "decide"
    /\ UNCHANGED <<arguments, matching, waiting, emit, sent, network, progress,
                   raised, cut, slipped, mishaps>>

\* What the lists of hsent hold, without what is flagged.
Remain == hsent \ flagged

\* The lists of hsent one after the other, in the order of hsent.values().
Listings(S) ==
    {q \in SetToSeqs(S) : \A i, j \in DOMAIN q : i < j =>
        \/ Hash[q[i]] < Hash[q[j]]
        \/ Hash[q[i]] = Hash[q[j]] /\ Index(q[i]) < Index(q[j])}

\* Variant: a round with success counts as one of the tries.
NextRetry_NoReset == retry - 1

\* autostop: a round with an answer sets the number of tries back.
NextRetry ==
    (IF autostop > 0 /\ Remain # {} /\ Cardinality(Remain) # Len(tobesent)
     THEN autostop ELSE retry) - 1

Decide ==
    /\ pc = "decide"
    /\ tobesent' \in Listings(Remain)
    /\ retry' = IF Remain = {} THEN retry ELSE NextRetry
    /\ pc' = IF Remain = {} \/ NextRetry < 0 THEN "done" ELSE "round"
    /\ fruitless' = IF Cardinality(Remain) = Len(tobesent) THEN fruitless + 1 ELSE 0
    /\ UNCHANGED <<arguments, matching, waiting, childVars, network, autostop,
                   round, stime, raised, cut, slipped, mishaps>>

-----------------------------------------------------------------------------
(* The surroundings. *)

Tick ==
    /\ stoptime = "set"
    /\ stoptime' = "past"
    /\ UNCHANGED <<arguments, matching, inmask, childVars, network, progress, pc,
                   stime, raised, cut, slipped, mishaps>>

\* A host answers a packet it got; replies can be lost, repeated or late.
Reply ==
    /\ pc # "done"
    /\ \E s \in Stimuli :
         /\ sent[s] > 0 /\ provoked[s] < MaxReplies[s]
         /\ provoked' = [provoked EXCEPT ![s] = @ + 1]
         /\ net' = net \cup {[of |-> s, n |-> provoked[s] + 1]}
    /\ UNCHANGED <<arguments, matching, waiting, childVars, progress, pc, stime,
                   raised, cut, slipped, mishaps>>

Child == ChildSends \/ ChildThrough
Pressing == Interrupt \/ InterruptAnswer \/ InterruptElsewhere
Parent == Fork \/ Top \/ Receive \/ HearOnly \/ SelectTimesOut \/ Collect \/ Decide

SRNext ==
    Child \/ ChildFails \/ ChildDies \/ Parent \/ Pressing \/ Tick \/ Reply

\* Both processes go on and time passes; no reply is promised.
SRSpec == SRInit /\ [][SRNext]_srVars
                 /\ WF_srVars(Child) /\ WF_srVars(Parent) /\ WF_srVars(Tick)

-----------------------------------------------------------------------------
(* Properties. *)

Returned == pc = "done" /\ ~raised
Answered == {a[1] : a \in ans}

\* The two lists sndrcv returns share the stimuli out: none is lost, none is in
\* both, none is answered twice unless multi is set, no packet answers two, and
\* the count it prints is right.  Only the stimulus at which Ctrl-C cuts a
\* matching in two (sendrecv.py 146-156, 166-168) can be in both, and only then
\* can the count be wrong.
Partition ==
    Returned =>
        /\ Range(tobesent) \cup Answered = Stimuli
        /\ Range(tobesent) \cap Answered \subseteq slipped
        /\ slipped = {} => notans = Len(tobesent)
        /\ Len(tobesent) = Cardinality(Range(tobesent))
        /\ \A a, b \in ans : a[2] = b[2] => a = b
        /\ ~multi => \A a, b \in ans : a[1] = b[1] => a = b \/ a[1] \in slipped

\* What passes for an answer to s passes for one to all its rivals.
Alike == \A s \in Stimuli : \A p \in Rivals(s) : Rivals(p) = Rivals(s)

\* When no host answers a stimulus twice, one is only reported as answered if it
\* was sent, even where replies pass for answers to several stimuli, come late
\* or belong to a packet of an earlier round, and emissions were cut short
\* (sendrecv.py 140-157).
AnsweredWasSent ==
    Alike /\ (\A s \in Stimuli : provoked[s] <= 1)
        => \A s \in Answered : sent[s] > 0

\* "if positive, how many times to resend unanswered packets; if negative,
\* how many times to retry when no more packets are answered" (sendrecv.py 306-313).
GivesUpInTime ==
    Returned /\ tobesent # <<>> =>
        IF autostop > 0
        THEN fruitless = IF fruitless = round THEN autostop + 1 ELSE autostop
        ELSE round \in {1 + r : r \in Retries}

\* The time kept for a stimulus is that of its own last sending, over any number
\* of rounds.  When an emission was cut short or a child died the list of times
\* can have gaps or be missing (sendrecv.py 98-108, 171-177).
SentTimesRight ==
    Returned /\ ~cut => \A s \in Stimuli : stime[s] = <<s, sent[s]>>

\* With a timeout sndrcv returns, whatever else arrives on the socket.
SndrcvReturns == timed ~> pc = "done"
=============================================================================
