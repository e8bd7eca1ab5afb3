----------------------------- MODULE Automaton ------------------------------
(***************************************************************************)
(* The engine of scapy's automaton.py: the caller's thread and the control *)
(* threads that run the automaton, joined by two ObjectPipes, cmdin for    *)
(* commands and cmdout for replies, and by the lock `started', which a     *)
(* control thread holds while it lives and stop() waits for.               *)
(*                                                                         *)
(* The automaton itself is a sequence of states 1..Last; a state may send  *)
(* one packet and may wait for an event before it goes on to the next one. *)
(* What it returns at its end is the argument it was started with.         *)
(***************************************************************************)
EXTENDS Integers, Sequences, FiniteSets

CONSTANTS
    Last,           \* the final state
    Sends, Waits,   \* the states that send a packet, and that wait
    Intercepts,     \* interception_points
    Breaks,         \* breakpoints
    Settings,       \* what happens beyond run and restart, see below
    MaxSessions     \* bound: the control threads ever started

\* "next"     the caller singlesteps, with next()
\* "stop"     calls stop() without starting again
\* "loop"     gives its verdict on a packet with wait=False, then calls run()
\* "runbg"    also runs the automaton without waiting for a reply
\* "ctrl-c"   interrupts a run() that waits
\* "hasty"    calls restart() before the thread it started holds the lock
\* "nosocket" the control thread cannot open its sockets
AllSettings == {"next", "stop", "loop", "runbg", "ctrl-c", "hasty",
                "nosocket"}

States == 1..Last
Sessions == 1..MaxSessions
NoOne == 0
Caller == MaxSessions + 1

ASSUME AutomatonAssumption ==
    /\ Last \in Nat \ {0} /\ MaxSessions \in Nat \ {0}
    /\ Sends \subseteq States \ {Last} /\ Waits \subseteq States \ {Last}
    /\ Intercepts \subseteq States /\ Breaks \subseteq States
    /\ Settings \subseteq SUBSET AllSettings

VARIABLES
    cmdin, cmdout,  \* the two pipes
    started,        \* who holds the lock: NoOne, a thread or the Caller
    at,             \* where each control thread is
    resume,         \* where its iterator goes on
    state, bp, singlestep,  \* the automaton: state, breakpointed, singlestep
    api,            \* the call the caller is in: "free", "run", "stop", "restart"
    got,            \* the last reply a call returned, since then answered or not
    session,        \* the thread the last start() made
    setting,        \* one of Settings
    accepted,       \* observed: the packets the caller was shown and accepted,
    delivered       \* and those that were sent at an interception point

pipes == <<cmdin, cmdout>>
engine == <<at, resume, state, bp, singlestep>>
caller == <<api, got, session, setting>>
packets == <<accepted, delivered>>
atVars == <<pipes, started, engine, caller, packets>>

\* A reply carries the thread it comes from, whose argument it returns, and the
\* state it is about, if it is about one.
Reply(type, t, s) == [type |-> type, from |-> t, state |-> s]
NoReply == Reply("none", NoOne, NoOne)
Fatal == {"END", "EXCEPTION"}

AInit ==
    /\ cmdin = <<>> /\ cmdout = <<>>
    /\ started = NoOne
    /\ at = [t \in Sessions |-> IF t = 1 THEN "start" ELSE "none"]
    /\ resume = "enter" /\ state = 1 /\ bp = NoOne /\ singlestep = TRUE
    /\ api = "free" /\ got = NoReply /\ session = 1
    /\ setting \in Settings
    /\ accepted = {} /\ delivered = {}

-----------------------------------------------------------------------------
(* The control thread, _do_control with _do_iter. *)

Move(t, place) == at' = [at EXCEPT ![t] = place]

\* with self.started: then the automaton is set up anew, all but breakpointed.
Acquire(t) ==
    /\ at[t] = "start" /\ started = NoOne
    /\ started' = t
    /\ state' = 1 /\ resume' = "enter" /\ singlestep' = TRUE
    /\ Move(t, "command")
    /\ UNCHANGED <<pipes, bp, caller, packets>>

\* An exception before the loop of commands ends the thread without a reply.
SetupFails(t) ==
    /\ at[t] = "start" /\ started = NoOne
    /\ "nosocket" \in setting
    /\ started' = t
    /\ Move(t, "exit")
    /\ UNCHANGED <<pipes, resume, state, bp, singlestep, caller, packets>>

\* The next command says how to go on; anything that is no command goes on too.
Command(t) ==
    /\ at[t] = "command" /\ cmdin # <<>>
    /\ cmdin' = Tail(cmdin)
    /\ singlestep' = CASE Head(cmdin) = "RUN" -> FALSE
                       [] Head(cmdin) = "NEXT" -> TRUE
                       [] OTHER -> singlestep
    /\ Move(t, CASE Head(cmdin) = "FREEZE" -> "command"
                 [] Head(cmdin) = "STOP" -> "exit"
                 [] OTHER -> resume)
    /\ UNCHANGED <<cmdout, started, resume, state, bp, caller, packets>>

\* A breakpoint stops the automaton once each time it comes to the state.
Break(t) ==
    /\ at[t] = "enter" /\ state \in Breaks /\ bp # state
    /\ bp' = state
    /\ cmdout' = Append(cmdout, Reply("BREAKPOINT", t, state))
    /\ resume' = "enter"
    /\ Move(t, "command")
    /\ UNCHANGED <<cmdin, started, state, singlestep, caller, packets>>

Entered(t) == at[t] = "enter" /\ (state \in Breaks => bp = state)

\* The next state is requested and yielded to _do_control.
Advance(t) ==
    /\ state' = state + 1
    /\ resume' = "enter"
    /\ IF singlestep
       THEN /\ cmdout' = Append(cmdout, Reply("SINGLESTEP", t, state + 1))
            /\ Move(t, "command")
       ELSE UNCHANGED cmdout /\ Move(t, "enter")

\* What follows the state's function: listen, or go on at once.
Proceed(t) ==
    IF state \in Waits
    THEN Move(t, "listen") /\ UNCHANGED <<cmdout, state, resume>>
    ELSE Advance(t)

Run(t) ==
    /\ Entered(t) /\ state # Last
    /\ state \in Sends => state \notin Intercepts
    /\ bp' = NoOne
    /\ Proceed(t)
    /\ UNCHANGED <<cmdin, started, singlestep, caller, packets>>

\* send() at an interception point asks for a verdict and waits for it.
Intercept(t) ==
    /\ Entered(t) /\ state \in Sends \cap Intercepts
    /\ bp' = NoOne
    /\ cmdout' = Append(cmdout, Reply("INTERCEPT", t, state))
    /\ Move(t, "verdict")
    /\ UNCHANGED <<cmdin, started, resume, state, singlestep, caller, packets>>

Verdicts == {"ACCEPT", "REJECT"}

\* Variant: whatever is not a rejection lets the packet pass.
Verdict_Lenient(t) ==
    /\ at[t] = "verdict" /\ cmdin # <<>>
    /\ cmdin' = Tail(cmdin)
    /\ delivered' = IF Head(cmdin) # "REJECT"
                    THEN delivered \cup {<<t, state>>} ELSE delivered
    /\ Proceed(t)
    /\ UNCHANGED <<started, bp, singlestep, caller, accepted>>

\* The packet goes out, changed or not, or is dropped.
Verdict(t) ==
    /\ at[t] = "verdict" /\ cmdin # <<>> /\ Head(cmdin) \in Verdicts
    /\ cmdin' = Tail(cmdin)
    /\ delivered' = IF Head(cmdin) = "ACCEPT"
                    THEN delivered \cup {<<t, state>>} ELSE delivered
    /\ Proceed(t)
    /\ UNCHANGED <<started, bp, singlestep, caller, accepted>>

\* "INTERCEPT: unknown verdict": the automaton ends with an AutomatonError.
UnknownVerdict(t) ==
    /\ at[t] = "verdict" /\ cmdin # <<>> /\ Head(cmdin) \notin Verdicts
    /\ cmdin' = Tail(cmdin)
    /\ cmdout' = Append(cmdout, Reply("EXCEPTION", t, NoOne))
    /\ Move(t, "exit")
    /\ UNCHANGED <<started, resume, state, bp, singlestep, caller, packets>>

\* select() returns with cmdin: the command is taken, then listening goes on.
ListenCommand(t) ==
    /\ at[t] = "listen" /\ cmdin # <<>>
    /\ resume' = "listen"
    /\ Move(t, "command")
    /\ UNCHANGED <<pipes, started, state, bp, singlestep, caller, packets>>

\* It returns with a packet, an event or a timeout that the state waits for.
ListenEvent(t) ==
    /\ at[t] = "listen"
    /\ Advance(t)
    /\ UNCHANGED <<cmdin, started, bp, singlestep, caller, packets>>

Finish(t) ==
    /\ Entered(t) /\ state = Last
    /\ bp' = NoOne
    /\ cmdout' = Append(cmdout, Reply("END", t, NoOne))
    /\ Move(t, "exit")
    /\ UNCHANGED <<cmdin, started, resume, state, singlestep, caller, packets>>

\* Variant: the lock is not given back.
Exit_KeepsLock(t) ==
    /\ at[t] = "exit"
    /\ Move(t, "dead")
    /\ UNCHANGED <<pipes, started, resume, state, bp, singlestep, caller, packets>>

Exit(t) ==
    /\ at[t] = "exit"
    /\ started' = NoOne
    /\ Move(t, "dead")
    /\ UNCHANGED <<pipes, resume, state, bp, singlestep, caller, packets>>

Control(t) ==
    \/ Acquire(t) \/ SetupFails(t) \/ Command(t) \/ Break(t) \/ Run(t)
    \/ Intercept(t) \/ Verdict(t) \/ UnknownVerdict(t) \/ ListenCommand(t)
    \/ Finish(t) \/ Exit(t)

-----------------------------------------------------------------------------
(* The caller.  Between two calls it may do what the setting allows; it runs   *)
(* the automaton only while it is alive, and answers what was intercepted.   *)

Send(commands) == cmdin' = cmdin \o commands

Alive == got.type \notin Fatal \cup {"stopped"}

\* run() or next(), then the reply is waited for.
CallRun ==
    /\ api = "free" /\ Alive /\ got.type # "INTERCEPT"
    /\ \/ Send(<<"RUN">>)
       \/ "next" \in setting /\ Send(<<"NEXT">>)
    /\ api' = "run"
    /\ UNCHANGED <<cmdout, started, engine, got, session, setting, packets>>

\* The packet a verdict is on is that of the reply the caller got last.
Accepts(v) ==
    accepted' = IF v = "ACCEPT" THEN accepted \cup {<<got.from, got.state>>}
                                ELSE accepted

\* Variant: the argument wait is not passed on.
CallVerdict_NoWait ==
    /\ api = "free" /\ got.type = "INTERCEPT"
    /\ \E v \in Verdicts : Send(<<v>>) /\ Accepts(v)
    /\ got' = NoReply
    /\ UNCHANGED <<cmdout, started, engine, api, session, setting, delivered>>

\* accept_packet or reject_packet, which go on waiting like run() when they
\* are called with wait=True.
CallVerdict ==
    /\ api = "free" /\ got.type = "INTERCEPT"
    /\ \E v \in Verdicts : Send(<<v>>) /\ Accepts(v)
    /\ got' = NoReply
    /\ api' = IF "loop" \in setting THEN "free" ELSE "run"
    /\ UNCHANGED <<cmdout, started, engine, session, setting, delivered>>

CallRunbg ==
    /\ api = "free" /\ Alive /\ got.type # "INTERCEPT"
    /\ "runbg" \in setting /\ Len(cmdin) < 2
    /\ Send(<<"RUN">>)
    /\ UNCHANGED <<cmdout, started, engine, caller, packets>>

RunReturns ==
    /\ api = "run" /\ cmdout # <<>>
    /\ got' = Head(cmdout)
    /\ cmdout' = Tail(cmdout)
    /\ api' = "free"
    /\ UNCHANGED <<cmdin, started, engine, session, setting, packets>>

\* Ctrl-C: run() sends FREEZE and returns without a reply.
CtrlC ==
    /\ api = "run" /\ "ctrl-c" \in setting /\ Len(cmdin) < 2
    /\ Send(<<"FREEZE">>)
    /\ got' = NoReply
    /\ api' = "free"
    /\ UNCHANGED <<cmdout, started, engine, session, setting, packets>>

CallStop ==
    /\ api = "free"
    /\ at[session] = "start" => "hasty" \in setting
    /\ Send(<<"STOP">>)
    /\ \/ session < MaxSessions /\ api' = "restart"
       \/ "stop" \in setting /\ api' = "stop"
    /\ UNCHANGED <<cmdout, started, engine, got, session, setting, packets>>

\* Variant: only the commands are flushed.
Flush_Commands == cmdin' = <<>> /\ UNCHANGED cmdout

\* What nobody has read is thrown away.
Flush == cmdin' = <<>> /\ cmdout' = <<>>

\* Variant: stop() does not wait for the control thread.
Stopped_NoLock ==
    /\ api \in {"stop", "restart"}
    /\ UNCHANGED pipes
    /\ got' = Reply("stopped", NoOne, NoOne)
    /\ api' = IF api = "restart" THEN "starting" ELSE "free"
    /\ UNCHANGED <<started, engine, session, setting, packets>>

\* with self.started: the pipes are flushed once the control thread is gone.
Stopped ==
    /\ api \in {"stop", "restart"} /\ started = NoOne
    /\ Flush
    /\ got' = Reply("stopped", NoOne, NoOne)
    /\ api' = IF api = "restart" THEN "starting" ELSE "free"
    /\ UNCHANGED <<started, engine, session, setting, packets>>

\* start(): a new control thread, unless the lock is held.
Start ==
    /\ api = "starting"
    /\ IF started = NoOne
       THEN /\ session' = session + 1
            /\ at' = [at EXCEPT ![session + 1] = "start"]
       ELSE UNCHANGED <<session, at>>
    /\ got' = NoReply
    /\ api' = "free"
    /\ UNCHANGED <<pipes, started, resume, state, bp, singlestep, setting,
                   packets>>

Call == CallRun \/ CallVerdict \/ CallRunbg \/ CtrlC \/ CallStop

ANext ==
    \/ \E t \in Sessions : Control(t) \/ ListenEvent(t)
    \/ Call \/ RunReturns \/ Stopped \/ Start

\* The threads run, calls under way go on, and what a state waits for happens;
\* what the caller calls is up to it.
ASpec ==
    /\ AInit /\ [][ANext]_atVars
    /\ \A t \in Sessions : WF_atVars(Control(t)) /\ SF_atVars(ListenEvent(t))
    /\ WF_atVars(RunReturns \/ Stopped \/ Start)

-----------------------------------------------------------------------------
(* Properties. *)

Running == {t \in Sessions : at[t] \notin {"none", "start", "dead"}}

\* A call never returns what an earlier start of the automaton said or ended with.
AnswersAreCurrent == api # "restart" /\ got.from # NoOne => got.from = session

\* One control thread at a time runs the automaton, and none does when stop()
\* has returned and until start() is called.
OneControl ==
    /\ Cardinality(Running) <= 1
    /\ got.type = "stopped" => Running = {}

\* A packet of an interception point leaves only if the caller was shown this
\* packet of this control thread and accepted it: no verdict is taken for that on
\* another packet, over single steps, breakpoints, Ctrl-C and restarts, although
\* verdicts and commands come out of one pipe (automaton.py:412-430).
OnlyAcceptedLeave == delivered \subseteq accepted

\* A caller that waits for every reply and answers every interception is never told
\* that its verdict is unknown, whatever breakpoints and single steps it uses.
VerdictsUnderstood ==
    setting \cap {"loop", "runbg", "ctrl-c"} = {} => got.type # "EXCEPTION"

\* Nor is one that does it as the loop around run() in the tests does.
LoopWorks == got.type # "EXCEPTION"

\* Every run() and every stop() comes back, unless the control thread could not
\* be set up: the exception stays in that thread, and run() waits for ever.
CallsReturn == ("nosocket" \notin setting /\ api # "free") ~> api = "free"
=============================================================================
