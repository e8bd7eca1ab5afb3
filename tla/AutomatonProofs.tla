-------------------------- MODULE AutomatonProofs ---------------------------
(***************************************************************************)
(* That scapy's automaton engine has at most one control thread at a time, *)
(* for any automaton, any number of starts and any caller.  If restart()   *)
(* never overtakes the thread it started: that none runs while it is       *)
(* stopped, that no reply of an earlier thread is left over, that an       *)
(* intercepted packet leaves only if the caller accepted this one, and     *)
(* that caller and thread take turns.                                      *)
(***************************************************************************)
EXTENDS Automaton, FiniteSetTheorems, TLAPS

Places == {"none", "start", "command", "enter", "verdict", "listen", "exit",
           "dead"}
ReplyTypes == {"END", "EXCEPTION", "BREAKPOINT", "SINGLESTEP", "INTERCEPT"}

Replies == [type : ReplyTypes, from : Sessions, state : Nat]

\* What the threads and their replies can be.
EngineTypeOK ==
    /\ at \in [Sessions -> Places]
    /\ resume \in {"enter", "listen"} /\ state \in Nat
    /\ cmdout \in Seq(Replies)
    /\ session \in Sessions
    /\ api \in {"free", "run", "stop", "restart", "starting"}
    /\ api \in {"restart", "starting"} => session < MaxSessions
    /\ setting \in Settings

\* A thread that runs holds the lock.
LockHeld == \A t \in Running : started = t

EngineInv == EngineTypeOK /\ LockHeld

LEMMA SessionsNotNoOne == ASSUME NEW t \in Sessions PROVE t # NoOne
BY AutomatonAssumption DEF Sessions, NoOne

\* A thread leaves the lock alone and goes on, with at most one reply more.
GoesOn(t) ==
    /\ \E place \in Places \ {"none", "start", "dead"} : Move(t, place)
    /\ resume' \in {"enter", "listen"} /\ state' \in Nat
    /\ \/ UNCHANGED cmdout
       \/ \E type \in ReplyTypes, s \in Nat :
            cmdout' = Append(cmdout, Reply(type, t, s))
    /\ UNCHANGED <<started, session, api, setting>>

LEMMA ProceedGoesOn ==
    ASSUME NEW t \in Sessions, EngineTypeOK, Proceed(t) \/ Advance(t)
    PROVE  /\ \E place \in Places \ {"none", "start", "dead"} : Move(t, place)
           /\ resume' \in {"enter", "listen"} /\ state' \in Nat
           /\ \/ UNCHANGED cmdout
              \/ \E type \in ReplyTypes, s \in Nat :
                   cmdout' = Append(cmdout, Reply(type, t, s))
BY DEF Proceed, Advance, EngineTypeOK, Places, ReplyTypes

LEMMA StepsGoOn ==
    ASSUME NEW t \in Sessions, EngineTypeOK,
           \/ Command(t) \/ Break(t) \/ Run(t) \/ Intercept(t) \/ Verdict(t)
           \/ UnknownVerdict(t) \/ ListenCommand(t) \/ ListenEvent(t) \/ Finish(t)
    PROVE  GoesOn(t) /\ t \in Running /\ UNCHANGED got
<1>1. CASE Command(t)
  BY <1>1 DEF Command, GoesOn, Running, EngineTypeOK, Places, caller
<1>2. CASE Break(t)
  BY <1>2 DEF Break, GoesOn, Running, EngineTypeOK, Places, ReplyTypes, caller
<1>3. CASE Run(t)
  BY <1>3, ProceedGoesOn DEF Run, Entered, GoesOn, Running, caller
<1>4. CASE Intercept(t)
  BY <1>4 DEF Intercept, Entered, GoesOn, Running, EngineTypeOK, Places,
              ReplyTypes, caller
<1>5. CASE Verdict(t)
  BY <1>5, ProceedGoesOn DEF Verdict, GoesOn, Running, caller
<1>6. CASE UnknownVerdict(t)
  BY <1>6 DEF UnknownVerdict, GoesOn, Running, EngineTypeOK, Places, ReplyTypes,
              NoOne, caller
<1>7. CASE ListenCommand(t)
  BY <1>7 DEF ListenCommand, GoesOn, Running, EngineTypeOK, Places, pipes, caller
<1>8. CASE ListenEvent(t)
  BY <1>8, ProceedGoesOn DEF ListenEvent, GoesOn, Running, caller
<1>9. CASE Finish(t)
  BY <1>9 DEF Finish, Entered, GoesOn, Running, EngineTypeOK, Places, ReplyTypes,
              NoOne, caller
<1> QED BY <1>1, <1>2, <1>3, <1>4, <1>5, <1>6, <1>7, <1>8, <1>9

LEMMA GoesOnInv ==
    ASSUME NEW t \in Sessions, EngineInv, GoesOn(t), t \in Running
    PROVE  EngineInv' /\ Running' = Running
<1>1. PICK place \in Places \ {"none", "start", "dead"} : Move(t, place)
  BY DEF GoesOn
<1>2. at' = [at EXCEPT ![t] = place] /\ at' \in [Sessions -> Places]
  BY <1>1 DEF Move, EngineInv, EngineTypeOK
<1>3. Running' = Running
  BY <1>2 DEF Running, EngineInv, EngineTypeOK, Places
<1>4. cmdout' \in Seq(Replies)
  <2>1. CASE UNCHANGED cmdout
    BY <2>1 DEF EngineInv, EngineTypeOK
  <2>2. ASSUME NEW type \in ReplyTypes, NEW s \in Nat,
               cmdout' = Append(cmdout, Reply(type, t, s))
        PROVE  cmdout' \in Seq(Replies)
    <3>1. Reply(type, t, s) \in Replies
      BY DEF Reply, Replies
    <3>2. cmdout \in Seq(Replies)
      BY DEF EngineInv, EngineTypeOK
    <3> QED BY <2>2, <3>1, <3>2
  <2> QED BY <2>1, <2>2 DEF GoesOn
<1>5. EngineTypeOK'
  BY <1>2, <1>4 DEF GoesOn, EngineInv, EngineTypeOK
<1>6. LockHeld'
  BY <1>3 DEF GoesOn, EngineInv, LockHeld
<1> QED BY <1>3, <1>5, <1>6 DEF EngineInv

LEMMA InitInv == AInit => EngineInv
<1> SUFFICES ASSUME AInit PROVE EngineInv
  OBVIOUS
<1>1. cmdout \in Seq(Replies)
  BY DEF AInit
<1>2. EngineTypeOK
  BY <1>1, AutomatonAssumption DEF AInit, EngineTypeOK, Places, Sessions
<1>3. LockHeld
  BY DEF AInit, LockHeld, Running
<1> QED BY <1>2, <1>3 DEF EngineInv

\* A thread gets the lock when nobody has it, and gives it back as it ends.
LEMMA AcquireInv ==
    ASSUME NEW t \in Sessions, EngineInv, Acquire(t) \/ SetupFails(t)
    PROVE  EngineInv' /\ at[t] = "start" /\ at' = [at EXCEPT ![t] = at'[t]]
                      /\ UNCHANGED caller
<1>1. /\ at[t] = "start" /\ started = NoOne /\ started' = t
      /\ \E place \in {"command", "exit"} : at' = [at EXCEPT ![t] = place]
      /\ UNCHANGED caller /\ UNCHANGED pipes /\ resume' \in {"enter", "listen"}
      /\ state' \in Nat
  BY DEF Acquire, SetupFails, Move, EngineInv, EngineTypeOK, pipes, caller
<1>2. Running = {}
  BY <1>1, SessionsNotNoOne DEF EngineInv, LockHeld, Running
<1>3. EngineTypeOK'
  BY <1>1 DEF EngineInv, EngineTypeOK, Places, pipes, caller
<1>4. Running' = {t}
  BY <1>1, <1>2 DEF Running, EngineInv, EngineTypeOK, Places
<1>5. LockHeld'
  BY <1>1, <1>4 DEF LockHeld
<1> QED BY <1>1, <1>3, <1>5 DEF EngineInv, EngineTypeOK

LEMMA ExitInv ==
    ASSUME NEW t \in Sessions, EngineInv, Exit(t)
    PROVE  /\ EngineInv' /\ at[t] = "exit" /\ at' = [at EXCEPT ![t] = "dead"]
           /\ UNCHANGED caller
<1>1. /\ at[t] = "exit" /\ at' = [at EXCEPT ![t] = "dead"] /\ started' = NoOne
      /\ UNCHANGED <<caller, cmdout, resume, state>>
  BY DEF Exit, Move, pipes
<1>2. Running = {t}
  BY <1>1 DEF EngineInv, LockHeld, Running
<1>3. Running' = {}
  BY <1>1, <1>2 DEF Running, EngineInv, EngineTypeOK
<1>4. EngineTypeOK'
  BY <1>1 DEF EngineInv, EngineTypeOK, Places, caller
<1> QED BY <1>1, <1>3, <1>4 DEF EngineInv, LockHeld

LEMMA CallInv ==
    ASSUME EngineInv, Call \/ RunReturns \/ Stopped
    PROVE  EngineInv' /\ UNCHANGED at
<1>1. UNCHANGED <<at, resume, state, started, session, setting>>
  BY DEF Call, CallRun, CallVerdict, CallRunbg, CtrlC, CallStop, RunReturns,
         Stopped, engine, caller
<1>2. cmdout' \in Seq(Replies)
  <2>1. CASE Call
    BY <2>1 DEF Call, CallRun, CallVerdict, CallRunbg, CtrlC, CallStop,
                EngineInv, EngineTypeOK
  <2>2. CASE RunReturns
    <3>1. cmdout \in Seq(Replies) /\ cmdout # <<>>
      BY <2>2 DEF RunReturns, EngineInv, EngineTypeOK
    <3>2. cmdout' = Tail(cmdout)
      BY <2>2 DEF RunReturns
    <3> QED BY <3>1, <3>2
  <2>3. CASE Stopped
    BY <2>3 DEF Stopped, Flush
  <2> QED BY <2>1, <2>2, <2>3
<1>3. /\ api' \in {"free", "run", "stop", "restart", "starting"}
      /\ api' \in {"restart", "starting"} => session < MaxSessions
  BY DEF Call, CallRun, CallVerdict, CallRunbg, CtrlC, CallStop, RunReturns,
         Stopped, EngineInv, EngineTypeOK, caller
<1> QED BY <1>1, <1>2, <1>3 DEF EngineInv, EngineTypeOK, LockHeld, Running

LEMMA StartInv == ASSUME EngineInv, Start PROVE EngineInv'
<1>1. session < MaxSessions /\ session \in Nat /\ MaxSessions \in Nat
      /\ session + 1 \in Sessions
  BY AutomatonAssumption DEF Start, EngineInv, EngineTypeOK, Sessions
<1>2. EngineTypeOK'
  BY <1>1 DEF Start, EngineInv, EngineTypeOK, Places, pipes
<1>3. Running' \subseteq Running
  BY <1>1 DEF Start, Running, EngineInv, EngineTypeOK
<1> QED BY <1>2, <1>3 DEF Start, EngineInv, LockHeld

LEMMA StepInv == EngineInv /\ [ANext]_atVars => EngineInv'
<1> SUFFICES ASSUME EngineInv, [ANext]_atVars PROVE EngineInv'
  OBVIOUS
<1>1. ASSUME NEW t \in Sessions, Control(t) \/ ListenEvent(t)
      PROVE  EngineInv'
  BY <1>1, StepsGoOn, GoesOnInv, AcquireInv, ExitInv DEF Control, EngineInv
<1>2. CASE Call \/ RunReturns \/ Stopped
  BY <1>2, CallInv
<1>3. CASE Start
  BY <1>3, StartInv
<1>4. CASE UNCHANGED atVars
  BY <1>4 DEF atVars, pipes, engine, caller, EngineInv, EngineTypeOK, LockHeld,
              Running
<1> QED BY <1>1, <1>2, <1>3, <1>4 DEF ANext

LEMMA EngineAlways == ASpec => []EngineInv
<1>1. AInit => EngineInv
  BY InitInv
<1>2. EngineInv /\ [ANext]_atVars => EngineInv'
  BY StepInv
<1> QED BY <1>1, <1>2, PTL DEF ASpec

-----------------------------------------------------------------------------
LEMMA AtMostOne == EngineInv => Cardinality(Running) <= 1
<1> SUFFICES ASSUME EngineInv PROVE Cardinality(Running) <= 1
  OBVIOUS
<1>1. CASE Running = {}
  BY <1>1, FS_EmptySet
<1>2. CASE Running # {}
  <2>1. Running = {started}
    BY <1>2 DEF EngineInv, LockHeld
  <2> QED BY <2>1, FS_Singleton
<1> QED BY <1>1, <1>2

\* For every automaton and every caller, also one that calls restart() before
\* the last control thread has started: never two control threads at once
\* (automaton.py:513, with self.started).
THEOREM OneThreadAtATime == ASpec => [](Cardinality(Running) <= 1)
BY EngineAlways, AtMostOne, PTL
-----------------------------------------------------------------------------
(* A caller that never calls restart() hastily: every thread but the last is  *)
(* dead, and the last one has started before the caller stops it.             *)

Patient ==
    /\ "hasty" \notin setting
    /\ \A t \in Sessions : /\ t < session => at[t] = "dead"
                           /\ t > session => at[t] = "none"
    /\ at[session] # "none"
    /\ (api \in {"stop", "restart", "starting"} => at[session] # "start")
    /\ (api = "starting" \/ got.type = "stopped" => at[session] = "dead")

PatientInv == EngineInv /\ Patient

\* Only the last thread can be anywhere but at its beginning or its end.
LEMMA TheLastThread ==
    ASSUME PatientInv, NEW t \in Sessions, at[t] \notin {"none", "dead"}
    PROVE  t = session
<1>1. t \in Int /\ session \in Int
  BY AutomatonAssumption DEF PatientInv, EngineInv, EngineTypeOK, Sessions
<1>2. ~ (t < session) /\ ~ (t > session)
  BY DEF PatientInv, Patient
<1> QED BY <1>1, <1>2

\* The last thread goes on, and neither it nor the caller is stopped.
LEMMA LastThreadGoes ==
    ASSUME PatientInv, NEW t \in Sessions, NEW place,
           at[t] \notin {"none", "dead"}, place \notin {"none", "start"},
           at' = [at EXCEPT ![t] = place],
           UNCHANGED <<api, got, session, setting>>
    PROVE  Patient'
<1>1. t = session
  BY TheLastThread
<1>2. at'[session] = place /\ \A u \in Sessions \ {session} : at'[u] = at[u]
  BY <1>1 DEF PatientInv, EngineInv, EngineTypeOK
<1>3. \A u \in Sessions : /\ u < session => at'[u] = "dead"
                          /\ u > session => at'[u] = "none"
  <2> SUFFICES ASSUME NEW u \in Sessions
               PROVE  /\ u < session => at'[u] = "dead"
                      /\ u > session => at'[u] = "none"
    OBVIOUS
  <2>1. u \in Int /\ session \in Int
    BY AutomatonAssumption DEF PatientInv, EngineInv, EngineTypeOK, Sessions
  <2>2. u < session \/ u > session => u # session
    BY <2>1
  <2> QED BY <1>2, <2>2 DEF PatientInv, Patient
<1>4. api # "starting" /\ got.type # "stopped"
  BY <1>1 DEF PatientInv, Patient
<1> QED BY <1>2, <1>3, <1>4 DEF PatientInv, Patient

LEMMA ThreadPatient ==
    ASSUME PatientInv, NEW t \in Sessions, Control(t) \/ ListenEvent(t)
    PROVE  PatientInv'
<1>1. CASE Acquire(t) \/ SetupFails(t)
  <2>1. EngineInv'
    BY <1>1, AcquireInv DEF PatientInv
  <2>2. at[t] = "start" /\ \E place \in {"command", "exit"} :
                               at' = [at EXCEPT ![t] = place]
    BY <1>1 DEF Acquire, SetupFails, Move
  <2>3. UNCHANGED <<api, got, session, setting>>
    BY <1>1 DEF Acquire, SetupFails, caller
  <2>4. Patient'
    BY <2>2, <2>3, LastThreadGoes
  <2> QED BY <2>1, <2>4 DEF PatientInv
<1>2. CASE Exit(t)
  <2>1. EngineInv' /\ at[t] = "exit" /\ at' = [at EXCEPT ![t] = "dead"]
        /\ UNCHANGED <<api, got, session, setting>>
    BY <1>2, ExitInv DEF PatientInv, caller
  <2>2. Patient'
    BY <2>1, LastThreadGoes
  <2> QED BY <2>1, <2>2 DEF PatientInv
<1>3. CASE \/ Command(t) \/ Break(t) \/ Run(t) \/ Intercept(t) \/ Verdict(t)
           \/ UnknownVerdict(t) \/ ListenCommand(t) \/ ListenEvent(t)
           \/ Finish(t)
  <2>1. GoesOn(t) /\ t \in Running /\ UNCHANGED got
    BY <1>3, StepsGoOn DEF PatientInv, EngineInv
  <2>2. EngineInv'
    BY <2>1, GoesOnInv DEF PatientInv
  <2>3. UNCHANGED <<api, got, session, setting>>
    BY <2>1 DEF GoesOn
  <2>4. PICK place \in Places \ {"none", "start", "dead"} :
            at' = [at EXCEPT ![t] = place]
    BY <2>1 DEF GoesOn, Move
  <2>5. at[t] \notin {"none", "dead"}
    BY <2>1 DEF Running
  <2>6. Patient'
    BY <2>3, <2>4, <2>5, LastThreadGoes
  <2> QED BY <2>2, <2>6 DEF PatientInv
<1> QED BY <1>1, <1>2, <1>3 DEF Control

LEMMA CallPatient ==
    ASSUME PatientInv, Call \/ RunReturns \/ Stopped
    PROVE  PatientInv'
<1>1. EngineInv' /\ UNCHANGED at
  BY CallInv DEF PatientInv
<1>2. UNCHANGED <<session, setting>>
  BY DEF Call, CallRun, CallVerdict, CallRunbg, CtrlC, CallStop, RunReturns,
         Stopped, caller
<1>3. CASE Call
  <2>1. got' = got \/ got'.type = "none"
    BY <1>3 DEF Call, CallRun, CallVerdict, CallRunbg, CtrlC, CallStop, caller,
                NoReply, Reply
  <2>2. api' \in {"free", "run"} \/ (api' \in {"stop", "restart"}
                                     /\ at[session] # "start")
    BY <1>3 DEF Call, CallRun, CallVerdict, CallRunbg, CtrlC, CallStop, caller,
                PatientInv, Patient
  <2> QED BY <1>1, <1>2, <2>1, <2>2 DEF PatientInv, Patient
<1>4. CASE RunReturns
  <2>1. cmdout \in Seq(Replies) /\ cmdout # <<>>
    BY <1>4 DEF RunReturns, PatientInv, EngineInv, EngineTypeOK
  <2>2. Head(cmdout) \in Replies
    BY <2>1
  <2>3. got'.type # "stopped" /\ api' = "free"
    BY <1>4, <2>2 DEF RunReturns, Replies, ReplyTypes
  <2> QED BY <1>1, <1>2, <2>3 DEF PatientInv, Patient
<1>5. CASE Stopped
  <2>1. Running = {}
    BY <1>5, SessionsNotNoOne DEF Stopped, PatientInv, EngineInv, LockHeld,
                                  Running
  <2>2. session \in Sessions
    BY DEF PatientInv, EngineInv, EngineTypeOK
  <2>3. at[session] = "dead"
    BY <1>5, <2>1, <2>2 DEF Stopped, PatientInv, Patient, Running
  <2> QED BY <1>1, <1>2, <2>3 DEF PatientInv, Patient
<1> QED BY <1>3, <1>4, <1>5

LEMMA StartPatient == ASSUME PatientInv, Start PROVE PatientInv'
<1>1. EngineInv'
  BY StartInv DEF PatientInv
<1>2. api' = "free" /\ got'.type = "none" /\ setting' = setting
  BY DEF Start, NoReply, Reply
<1>3. CASE UNCHANGED <<session, at>>
  BY <1>1, <1>2, <1>3 DEF PatientInv, Patient
<1>4. CASE session' = session + 1 /\ at' = [at EXCEPT ![session + 1] = "start"]
  <2>1. session \in Int /\ session + 1 \in Sessions /\ Sessions \subseteq Int
    BY AutomatonAssumption DEF Start, PatientInv, EngineInv, EngineTypeOK,
                               Sessions
  <2>2. at[session] = "dead"
    BY DEF Start, PatientInv, Patient
  <2>3. \A t \in Sessions : t # session + 1 => at'[t] = at[t]
    BY <1>4
  <2>4. at'[session'] = "start"
    BY <1>4, <2>1 DEF PatientInv, EngineInv, EngineTypeOK
  <2>5. \A t \in Sessions : /\ t < session' => at'[t] = "dead"
                            /\ t > session' => at'[t] = "none"
    <3> SUFFICES ASSUME NEW t \in Sessions
                 PROVE  /\ t < session + 1 => at'[t] = "dead"
                        /\ t > session + 1 => at'[t] = "none"
      BY <1>4
    <3>1. CASE t < session + 1
      <4>1. t # session + 1 /\ (t < session \/ t = session)
            /\ ~ (t > session + 1)
        BY <2>1, <3>1
      <4> QED BY <2>2, <2>3, <4>1 DEF PatientInv, Patient
    <3>2. CASE t > session + 1
      <4>1. t # session + 1 /\ t > session /\ ~ (t < session + 1)
        BY <2>1, <3>2
      <4> QED BY <2>3, <4>1 DEF PatientInv, Patient
    <3> QED BY <3>1, <3>2
  <2> QED BY <1>1, <1>2, <2>4, <2>5 DEF PatientInv, Patient
<1> QED BY <1>3, <1>4 DEF Start

LEMMA PatientStep == PatientInv /\ [ANext]_atVars => PatientInv'
<1> SUFFICES ASSUME PatientInv, [ANext]_atVars PROVE PatientInv'
  OBVIOUS
<1>1. ASSUME NEW t \in Sessions, Control(t) \/ ListenEvent(t)
      PROVE  PatientInv'
  BY <1>1, ThreadPatient
<1>2. CASE Call \/ RunReturns \/ Stopped
  BY <1>2, CallPatient
<1>3. CASE Start
  BY <1>3, StartPatient
<1>4. CASE UNCHANGED atVars
  <2>1. EngineInv'
    BY <1>4, StepInv DEF PatientInv
  <2>2. Patient'
    BY <1>4 DEF atVars, engine, caller, PatientInv, Patient
  <2> QED BY <2>1, <2>2 DEF PatientInv
<1> QED BY <1>1, <1>2, <1>3, <1>4 DEF ANext

LEMMA PatientInit ==
    AInit /\ (\A S \in Settings : "hasty" \notin S) => PatientInv
<1> SUFFICES ASSUME AInit, \A S \in Settings : "hasty" \notin S
             PROVE  PatientInv
  OBVIOUS
<1>1. EngineInv
  BY InitInv
<1>2. "hasty" \notin setting
  BY DEF AInit
<1>3. \A t \in Sessions : /\ t < session => at[t] = "dead"
                          /\ t > session => at[t] = "none"
  BY AutomatonAssumption DEF AInit, Sessions
<1>4. at[session] # "none"
  BY AutomatonAssumption DEF AInit, Sessions
<1>5. api = "free" /\ got.type = "none"
  BY DEF AInit, NoReply, Reply
<1> QED BY <1>1, <1>2, <1>3, <1>4, <1>5 DEF PatientInv, Patient

LEMMA PatientOneControl == PatientInv => OneControl
<1> SUFFICES ASSUME PatientInv PROVE OneControl
  OBVIOUS
<1>1. Cardinality(Running) <= 1
  BY AtMostOne DEF PatientInv
<1>2. ASSUME got.type = "stopped" PROVE Running = {}
  <2>1. at[session] = "dead"
    BY <1>2 DEF PatientInv, Patient
  <2>2. \A t \in Sessions : t \in Running => t = session
    BY TheLastThread DEF Running
  <2> QED BY <2>1, <2>2 DEF Running
<1> QED BY <1>1, <1>2 DEF OneControl

\* If no caller restarts hastily, one control thread at a time runs the automaton
\* and none from the return of stop() until start() (automaton.py:513 and :703).
THEOREM OneControlHolds ==
    (\A S \in Settings : "hasty" \notin S) => (ASpec => []OneControl)
<1> SUFFICES ASSUME \A S \in Settings : "hasty" \notin S
             PROVE  ASpec => []OneControl
  OBVIOUS
<1>1. AInit => PatientInv
  BY PatientInit
<1>2. PatientInv /\ [ANext]_atVars => PatientInv'
  BY PatientStep
<1>3. PatientInv => OneControl
  BY PatientOneControl
<1> QED BY <1>1, <1>2, <1>3, PTL DEF ASpec

-----------------------------------------------------------------------------
(* What the caller is told.  Only the last thread says anything; what the    *)
(* threads before it said has been read or flushed when it starts.           *)

AnswersInv ==
    /\ \A i \in 1..Len(cmdout) : cmdout[i].from = session
    /\ got.from # NoOne => got.from = session
    /\ api = "starting" => cmdout = <<>>

\* Caller and thread take turns: there is a command to be read, or the thread
\* works, or there is a reply to be read, or both wait; and what the thread
\* waits for as a verdict is one.
Quiet == setting \cap {"loop", "runbg", "ctrl-c"} = {}

Here == at[session]
Halted == Here \notin {"none", "enter", "listen"}

Resting ==
    /\ cmdin = <<>> /\ cmdout = <<>> /\ Halted
    /\ Here = "verdict" <=> got.type = "INTERCEPT"
Commanded ==
    /\ cmdout = <<>> /\ Halted
    /\ \E c \in Verdicts \cup {"RUN", "NEXT"} :
         cmdin = <<c>> /\ (Here = "verdict" <=> c \in Verdicts)
Working == cmdin = <<>> /\ cmdout = <<>> /\ Here \in {"enter", "listen"}
Answered ==
    /\ cmdin = <<>> /\ Halted /\ Here # "start"
    /\ \E type \in ReplyTypes \ {"EXCEPTION"} :
         /\ \E s \in Nat : cmdout = <<Reply(type, session, s)>>
         /\ Here = "verdict" <=> type = "INTERCEPT"

TurnInv ==
    /\ got.type # "EXCEPTION"
    /\ api = "free" => Resting
    /\ api = "run" => Commanded \/ Working \/ Answered
    /\ api = "starting" => cmdin = <<>> /\ cmdout = <<>>

\* A step of a thread is a step of the last one, to another place.
LEMMA LastThreadSteps ==
    ASSUME PatientInv, NEW t \in Sessions, Control(t) \/ ListenEvent(t)
    PROVE  /\ t = session /\ at[t] \notin {"none", "dead"}
           /\ UNCHANGED <<api, got, session, setting>>
           /\ api # "starting"
           /\ \A place : Move(t, place) => Here' = place
           /\ \/ UNCHANGED cmdout
              \/ \E type \in ReplyTypes, s \in Nat :
                   cmdout' = Append(cmdout, Reply(type, t, s))
<1>1. at[t] \notin {"none", "dead"}
  BY DEF Control, Acquire, SetupFails, Command, Break, Run, Intercept, Entered,
         Verdict, UnknownVerdict, ListenCommand, ListenEvent, Finish, Exit
<1>2. t = session
  BY <1>1, TheLastThread
<1>3. UNCHANGED <<api, got, session, setting>>
  BY DEF Control, Acquire, SetupFails, Command, Break, Run, Intercept, Verdict,
         UnknownVerdict, ListenCommand, ListenEvent, Finish, Exit, caller
<1>4. api # "starting"
  BY <1>1, <1>2 DEF PatientInv, Patient
<1>5. \A place : Move(t, place) => Here' = place
  BY <1>2, <1>3 DEF Move, Here, PatientInv, EngineInv, EngineTypeOK
<1>6. \/ UNCHANGED cmdout
      \/ \E type \in ReplyTypes, s \in Nat :
           cmdout' = Append(cmdout, Reply(type, t, s))
  <2>1. CASE Acquire(t) \/ SetupFails(t) \/ Exit(t)
    BY <2>1 DEF Acquire, SetupFails, Exit, pipes
  <2>2. CASE ~(Acquire(t) \/ SetupFails(t) \/ Exit(t))
    <3>1. GoesOn(t)
      BY <2>2, StepsGoOn DEF Control, PatientInv, EngineInv
    <3> QED BY <3>1 DEF GoesOn
  <2> QED BY <2>1, <2>2
<1> QED BY <1>1, <1>2, <1>3, <1>4, <1>5, <1>6

LEMMA StoppedDead == ASSUME PatientInv, Stopped PROVE Here = "dead"
<1>1. Running = {}
  BY SessionsNotNoOne DEF Stopped, PatientInv, EngineInv, LockHeld, Running
<1> QED BY <1>1 DEF Stopped, PatientInv, Patient, Running, Here, EngineInv,
                    EngineTypeOK

LEMMA CallLeaves ==
    ASSUME Call
    PROVE  /\ UNCHANGED <<cmdout, at, session, setting>>
           /\ got' = got \/ got' = NoReply
           /\ api' # "starting" \/ UNCHANGED api
BY DEF Call, CallRun, CallVerdict, CallRunbg, CtrlC, CallStop, engine, caller

LEMMA AnswersStep ==
    ASSUME PatientInv, AnswersInv, [ANext]_atVars
    PROVE  AnswersInv'
<1> USE DEF AnswersInv
<1>0. cmdout \in Seq(Replies) /\ session \in Sessions
  BY DEF PatientInv, EngineInv, EngineTypeOK
<1>1. ASSUME NEW t \in Sessions, Control(t) \/ ListenEvent(t)
      PROVE  AnswersInv'
  <2>1. /\ UNCHANGED <<api, got, session>> /\ t = session /\ api # "starting"
        /\ \/ UNCHANGED cmdout
           \/ \E type \in ReplyTypes, s \in Nat :
                cmdout' = Append(cmdout, Reply(type, t, s))
    BY <1>1, LastThreadSteps
  <2>2. CASE UNCHANGED cmdout
    BY <2>1, <2>2
  <2>3. ASSUME NEW type \in ReplyTypes, NEW s \in Nat,
               cmdout' = Append(cmdout, Reply(type, session, s))
        PROVE  AnswersInv'
    <3>1. \A i \in 1..Len(cmdout') :
            cmdout'[i] = IF i = Len(cmdout) + 1 THEN Reply(type, session, s)
                         ELSE cmdout[i]
      BY <1>0, <2>3 DEF Reply, Replies
    <3>2. \A i \in 1..Len(cmdout') : i # Len(cmdout) + 1 => i \in 1..Len(cmdout)
      BY <1>0, <2>3
    <3>3. Reply(type, session, s).from = session
      BY DEF Reply
    <3> QED BY <2>1, <3>1, <3>2, <3>3
  <2> QED BY <2>1, <2>2, <2>3
<1>2. CASE Call
  BY <1>2, CallLeaves DEF NoReply, Reply
<1>3. CASE RunReturns
  <2>1. /\ cmdout # <<>> /\ cmdout' = Tail(cmdout) /\ got' = Head(cmdout)
        /\ UNCHANGED session /\ api' = "free"
    BY <1>3 DEF RunReturns
  <2>2. Head(cmdout) = cmdout[1] /\ 1 \in 1..Len(cmdout)
    BY <1>0, <2>1
  <2>3. /\ \A i \in 1..Len(cmdout') : i + 1 \in 1..Len(cmdout)
        /\ \A i \in 1..Len(cmdout') : cmdout'[i] = cmdout[i + 1]
    BY <1>0, <2>1
  <2> QED BY <2>1, <2>2, <2>3
<1>4. CASE Stopped
  BY <1>4 DEF Stopped, Flush, Reply
<1>5. CASE Start
  <2>1. cmdout = <<>> /\ cmdout' = <<>> /\ got'.from = NoOne /\ api' = "free"
    BY <1>5 DEF Start, NoReply, Reply, pipes
  <2> QED BY <2>1
<1>6. CASE UNCHANGED atVars
  BY <1>6 DEF atVars, pipes, caller
<1> QED BY <1>1, <1>2, <1>3, <1>4, <1>5, <1>6 DEF ANext

\* If no caller restarts hastily, no call ever returns what an earlier start of
\* the automaton said, however many replies stop() and restart() found unread
\* (automaton.py:703-716).
THEOREM AnswersAlwaysCurrent ==
    (\A S \in Settings : "hasty" \notin S) => (ASpec => []AnswersAreCurrent)
<1> SUFFICES ASSUME \A S \in Settings : "hasty" \notin S
             PROVE  ASpec => []AnswersAreCurrent
  OBVIOUS
<1>1. AInit => PatientInv /\ AnswersInv
  <2>1. AInit => AnswersInv
    BY DEF AInit, AnswersInv, NoReply, Reply
  <2> QED BY <2>1, PatientInit
<1>2. PatientInv /\ AnswersInv /\ [ANext]_atVars => (PatientInv /\ AnswersInv)'
  BY PatientStep, AnswersStep
<1>3. AnswersInv => AnswersAreCurrent
  BY DEF AnswersInv, AnswersAreCurrent
<1> QED BY <1>1, <1>2, <1>3, PTL DEF ASpec

\* After its function a state listens, or the thread reports a single step, or
\* it enters the next state.
LEMMA ProceedTurns ==
    ASSUME NEW t \in Sessions, PatientInv, t = session, UNCHANGED session,
           cmdin' = <<>>, cmdout = <<>>, Proceed(t) \/ Advance(t)
    PROVE  (Working \/ Answered)'
<1>1. \A place : Move(t, place) => Here' = place
  BY DEF Move, Here, PatientInv, EngineInv, EngineTypeOK
<1>2. CASE Move(t, "listen") /\ UNCHANGED cmdout
  BY <1>1, <1>2 DEF Working
<1>3. CASE Move(t, "enter") /\ UNCHANGED cmdout
  BY <1>1, <1>3 DEF Working
<1>4. CASE /\ Move(t, "command")
           /\ cmdout' = Append(cmdout, Reply("SINGLESTEP", t, state + 1))
  <2>1. /\ cmdout' = <<Reply("SINGLESTEP", session', state + 1)>>
        /\ Here' = "command" /\ state + 1 \in Nat
    BY <1>1, <1>4 DEF PatientInv, EngineInv, EngineTypeOK
  <2> QED BY <2>1 DEF Answered, Halted, ReplyTypes
<1> QED BY <1>2, <1>3, <1>4 DEF Proceed, Advance

LEMMA TurnThread ==
    ASSUME PatientInv, TurnInv, Quiet,
           NEW t \in Sessions, Control(t) \/ ListenEvent(t)
    PROVE  TurnInv'
<1>1. /\ t = session /\ UNCHANGED <<api, got, session, setting>>
      /\ api # "starting"
      /\ \A place : Move(t, place) => Here' = place
  BY LastThreadSteps
<1>2. CASE api \notin {"free", "run"}
  BY <1>1, <1>2 DEF TurnInv
<1>3. CASE api \in {"free", "run"}
  <2>1. got'.type # "EXCEPTION"
    BY <1>1 DEF TurnInv
  <2>2. Resting \/ (api = "run" /\ (Commanded \/ Working \/ Answered))
    BY <1>3 DEF TurnInv
  <2>3. CASE Acquire(t) \/ SetupFails(t)
    <3>1. /\ Here = "start" /\ Here' \in {"command", "exit"}
          /\ UNCHANGED <<cmdin, cmdout>>
      BY <1>1, <2>3 DEF Acquire, SetupFails, Here, pipes
    <3> QED BY <1>1, <2>1, <2>2, <3>1
            DEF TurnInv, Resting, Commanded, Working, Answered, Halted
  <2>4. CASE Command(t)
    <3>1. /\ Here = "command" /\ cmdin # <<>> /\ cmdin' = Tail(cmdin)
          /\ UNCHANGED cmdout
      BY <1>1, <2>4 DEF Command, Here
    <3>2. Commanded /\ api = "run"
      BY <2>2, <3>1 DEF Resting, Working, Answered
    <3>3. PICK c \in {"RUN", "NEXT"} : cmdin = <<c>>
      BY <3>1, <3>2 DEF Commanded
    <3>4. Head(cmdin) = c /\ Tail(cmdin) = <<>>
      BY <3>3
    <3>5. Move(t, resume)
      BY <2>4, <3>4 DEF Command
    <3>6. Here' \in {"enter", "listen"}
      BY <1>1, <3>5 DEF PatientInv, EngineInv, EngineTypeOK
    <3> QED BY <1>1, <2>1, <3>1, <3>2, <3>4, <3>6
            DEF TurnInv, Working, Commanded
  <2>5. CASE Run(t) \/ ListenEvent(t)
    <3>1. Here \in {"enter", "listen"} /\ UNCHANGED cmdin
      BY <1>1, <2>5 DEF Run, Entered, ListenEvent, Here
    <3>2. Working /\ api = "run"
      BY <2>2, <3>1 DEF Resting, Commanded, Answered, Halted
    <3>3. (Working \/ Answered)'
      BY <1>1, <2>5, <3>1, <3>2, ProceedTurns DEF Working, Run, ListenEvent
    <3> QED BY <1>1, <2>1, <3>2, <3>3 DEF TurnInv
  <2>6. ASSUME NEW type \in ReplyTypes \ {"EXCEPTION"}, NEW s \in Nat,
               cmdout' = Append(cmdout, Reply(type, t, s)), UNCHANGED cmdin,
               Here = "enter", Here' \in {"command", "verdict", "exit"},
               Here' = "verdict" <=> type = "INTERCEPT"
        PROVE  TurnInv'
    <3>1. Working /\ api = "run"
      BY <2>2, <2>6 DEF Resting, Commanded, Answered, Halted
    <3>2. cmdin' = <<>> /\ cmdout' = <<Reply(type, session', s)>>
      BY <1>1, <2>6, <3>1 DEF Working
    <3>3. Answered'
      BY <2>6, <3>2 DEF Answered, Halted
    <3> QED BY <1>1, <2>1, <3>1, <3>3 DEF TurnInv
  <2>7. CASE Break(t)
    <3>1. /\ Here = "enter" /\ Move(t, "command") /\ UNCHANGED cmdin
          /\ cmdout' = Append(cmdout, Reply("BREAKPOINT", t, state))
      BY <1>1, <2>7 DEF Break, Here
    <3>2. state \in Nat /\ NoOne \in Nat
      BY DEF PatientInv, EngineInv, EngineTypeOK, NoOne
    <3> QED BY <1>1, <2>6, <3>1, <3>2 DEF ReplyTypes
  <2>8. CASE Intercept(t)
    <3>1. /\ Here = "enter" /\ Move(t, "verdict") /\ UNCHANGED cmdin
          /\ cmdout' = Append(cmdout, Reply("INTERCEPT", t, state))
      BY <1>1, <2>8 DEF Intercept, Entered, Here
    <3>2. state \in Nat /\ NoOne \in Nat
      BY DEF PatientInv, EngineInv, EngineTypeOK, NoOne
    <3> QED BY <1>1, <2>6, <3>1, <3>2 DEF ReplyTypes
  <2>9. CASE Finish(t)
    <3>1. /\ Here = "enter" /\ Move(t, "exit") /\ UNCHANGED cmdin
          /\ cmdout' = Append(cmdout, Reply("END", t, NoOne))
      BY <1>1, <2>9 DEF Finish, Entered, Here
    <3>2. state \in Nat /\ NoOne \in Nat
      BY DEF PatientInv, EngineInv, EngineTypeOK, NoOne
    <3> QED BY <1>1, <2>6, <3>1, <3>2 DEF ReplyTypes
  <2>10. CASE Verdict(t) \/ UnknownVerdict(t)
    <3>1. Here = "verdict" /\ cmdin # <<>>
      BY <1>1, <2>10 DEF Verdict, UnknownVerdict, Here
    <3>2. Commanded /\ api = "run"
      BY <2>2, <3>1 DEF Resting, Working, Answered
    <3>3. PICK c \in Verdicts : cmdin = <<c>>
      BY <3>1, <3>2 DEF Commanded
    <3>4. Head(cmdin) \in Verdicts /\ Tail(cmdin) = <<>>
      BY <3>3
    <3>5. Proceed(t) /\ cmdin' = <<>> /\ cmdout = <<>>
      BY <2>10, <3>2, <3>4 DEF Verdict, UnknownVerdict, Commanded
    <3>6. (Working \/ Answered)'
      BY <1>1, <3>5, ProceedTurns
    <3> QED BY <1>1, <2>1, <3>2, <3>6 DEF TurnInv
  <2>11. CASE ListenCommand(t)
    <3>1. Here = "listen" /\ cmdin # <<>>
      BY <1>1, <2>11 DEF ListenCommand, Here
    <3> QED BY <2>2, <3>1 DEF Resting, Commanded, Working, Answered, Halted
  <2>12. CASE Exit(t)
    <3>1. /\ Here = "exit" /\ Here' = "dead" /\ UNCHANGED <<cmdin, cmdout>>
      BY <1>1, <2>12 DEF Exit, Here, pipes
    <3> QED BY <1>1, <2>1, <2>2, <3>1
            DEF TurnInv, Resting, Commanded, Working, Answered, Halted
  <2> QED BY <2>3, <2>4, <2>5, <2>7, <2>8, <2>9, <2>10, <2>11, <2>12
          DEF Control
<1> QED BY <1>2, <1>3

LEMMA TurnCaller ==
    ASSUME PatientInv, TurnInv, Quiet, Call \/ RunReturns \/ Stopped \/ Start
    PROVE  TurnInv'
<1>1. CASE CallRun
  <2>1. /\ Resting /\ got.type # "INTERCEPT" /\ got' = got /\ api' = "run"
        /\ \E c \in {"RUN", "NEXT"} : cmdin' = cmdin \o <<c>>
        /\ Here' = Here /\ cmdout' = cmdout
    BY <1>1 DEF CallRun, TurnInv, Send, Here, engine
  <2>2. PICK c \in {"RUN", "NEXT"} : cmdin' = <<c>>
    BY <2>1 DEF Resting
  <2>3. Commanded'
    BY <2>1, <2>2 DEF Resting, Commanded, Halted, Verdicts
  <2> QED BY <2>1, <2>3 DEF TurnInv
<1>2. CASE CallVerdict
  <2>1. /\ Resting /\ got.type = "INTERCEPT" /\ got' = NoReply /\ api' = "run"
        /\ \E c \in Verdicts : cmdin' = cmdin \o <<c>>
        /\ Here' = Here /\ cmdout' = cmdout
    BY <1>2 DEF CallVerdict, TurnInv, Send, Here, engine, Quiet
  <2>2. PICK c \in Verdicts : cmdin' = <<c>>
    BY <2>1 DEF Resting
  <2>3. Commanded'
    BY <2>1, <2>2 DEF Resting, Commanded, Halted
  <2> QED BY <2>1, <2>3 DEF TurnInv, NoReply, Reply
<1>3. CASE CallRunbg \/ CtrlC
  BY <1>3 DEF CallRunbg, CtrlC, Quiet
<1>4. CASE CallStop
  BY <1>4 DEF CallStop, TurnInv
<1>5. CASE RunReturns
  <2>1. /\ api = "run" /\ cmdout # <<>> /\ got' = Head(cmdout)
        /\ cmdout' = Tail(cmdout) /\ api' = "free" /\ cmdin' = cmdin
        /\ Here' = Here
    BY <1>5 DEF RunReturns, Here, engine
  <2>2. Answered
    BY <2>1 DEF TurnInv, Commanded, Working
  <2>3. PICK type \in ReplyTypes \ {"EXCEPTION"} :
            /\ \E s \in Nat : cmdout = <<Reply(type, session, s)>>
            /\ Here = "verdict" <=> type = "INTERCEPT"
    BY <2>2 DEF Answered
  <2>4. got'.type = type /\ cmdout' = <<>>
    BY <2>1, <2>3 DEF Reply
  <2>5. Resting'
    BY <2>1, <2>2, <2>3, <2>4 DEF Answered, Resting, Halted
  <2> QED BY <2>1, <2>4, <2>5 DEF TurnInv
<1>6. CASE Stopped
  <2>1. /\ cmdin' = <<>> /\ cmdout' = <<>> /\ got'.type = "stopped"
        /\ api' \in {"starting", "free"} /\ Here' = Here
    BY <1>6 DEF Stopped, Flush, Reply, Here, engine
  <2>2. Here = "dead"
    BY <1>6, StoppedDead
  <2> QED BY <2>1, <2>2 DEF TurnInv, Resting, Halted
<1>7. CASE Start
  <2>1. /\ cmdin' = <<>> /\ cmdout' = <<>> /\ got'.type = "none"
        /\ api' = "free"
    BY <1>7 DEF Start, TurnInv, NoReply, Reply, pipes
  <2>2. Here' \in {"dead", "start"}
    <3>1. session + 1 \in Sessions
      BY <1>7, AutomatonAssumption DEF Start, PatientInv, EngineInv,
                                       EngineTypeOK, Sessions
    <3> QED BY <1>7, <3>1 DEF Start, Here, PatientInv, Patient, EngineInv,
                              EngineTypeOK
  <2> QED BY <2>1, <2>2 DEF TurnInv, Resting, Halted
<1> QED BY <1>1, <1>2, <1>3, <1>4, <1>5, <1>6, <1>7 DEF Call

LEMMA TurnStep ==
    PatientInv /\ (Quiet => TurnInv) /\ [ANext]_atVars => (Quiet => TurnInv)'
<1> SUFFICES ASSUME PatientInv, Quiet => TurnInv, [ANext]_atVars, Quiet'
             PROVE  TurnInv'
  OBVIOUS
<1>1. UNCHANGED setting
  BY DEF ANext, Control, Acquire, SetupFails, Command, Break, Run, Intercept,
         Verdict, UnknownVerdict, ListenCommand, ListenEvent, Finish, Exit,
         Call, CallRun, CallVerdict, CallRunbg, CtrlC, CallStop, RunReturns,
         Stopped, Start, caller, atVars
<1>2. Quiet /\ TurnInv
  BY <1>1 DEF Quiet
<1>3. CASE UNCHANGED atVars
  BY <1>2, <1>3 DEF atVars, pipes, engine, caller, TurnInv, Resting, Commanded,
                    Working, Answered, Halted, Here
<1> QED BY <1>2, <1>3, TurnThread, TurnCaller DEF ANext

\* A caller that waits for every reply and never restarts hastily is never told
\* that its verdict is unknown: for every automaton, with any breakpoints, single
\* steps, interceptions, stops and restarts (automaton.py:412-430, 676-695).
THEOREM VerdictsAlwaysUnderstood ==
    (\A S \in Settings : "hasty" \notin S) => (ASpec => []VerdictsUnderstood)
<1> SUFFICES ASSUME \A S \in Settings : "hasty" \notin S
             PROVE  ASpec => []VerdictsUnderstood
  OBVIOUS
<1> DEFINE Inv == PatientInv /\ (Quiet => TurnInv)
<1>1. AInit => Inv
  <2>1. AInit => TurnInv
    BY AutomatonAssumption
       DEF AInit, TurnInv, Resting, Halted, Here, NoReply, Reply, Sessions
  <2> QED BY <2>1, PatientInit
<1>2. Inv /\ [ANext]_atVars => Inv'
  BY PatientStep, TurnStep
<1>3. Inv => VerdictsUnderstood
  BY DEF TurnInv, Quiet, VerdictsUnderstood
<1> QED BY <1>1, <1>2, <1>3, PTL DEF ASpec

-----------------------------------------------------------------------------
(* Which packet a verdict is on.  Of the reply that shows a packet, the       *)
(* caller's knowledge of it and the verdict on it there is one at most, and   *)
(* only while the thread waits for it or has ended.                           *)

Commands == {"RUN", "NEXT", "FREEZE", "STOP"} \cup Verdicts

Shown(i) == i \in 1..Len(cmdout) /\ cmdout[i].type = "INTERCEPT"
Judged(i) == i \in 1..Len(cmdin) /\ cmdin[i] \in Verdicts
Known == got.type = "INTERCEPT"

\* Nothing is under way about a packet.
NoneAsked == ~Known /\ \A i \in Nat : ~Shown(i) /\ ~Judged(i)

\* What is under way is about the packet the thread waits with.
OneAsked ==
    /\ \A i \in Nat : Shown(i) => cmdout[i].state = state
    /\ Known => got.state = state
    /\ \A i \in Nat : Judged(i) /\ cmdin[i] = "ACCEPT"
                       => <<session, state>> \in accepted
    /\ \A i, j \in Nat : /\ Shown(i) /\ Shown(j) => i = j
                         /\ Judged(i) /\ Judged(j) => i = j
                         /\ ~(Shown(i) /\ Judged(j))
                         /\ Known => ~Shown(i) /\ ~Judged(i)

AskedInv ==
    /\ cmdin \in Seq(Commands)
    /\ OnlyAcceptedLeave
    /\ Known => got.from = session
    /\ api = "starting" => cmdin = <<>>
    /\ Here \notin {"verdict", "exit", "dead"} => NoneAsked
    /\ Here = "verdict" => OneAsked

\* A command more at the end of the pipe, or one less at its head.
LEMMA OneMoreCommand ==
    ASSUME cmdin \in Seq(Commands), NEW c \in Commands, cmdin' = cmdin \o <<c>>
    PROVE  /\ cmdin' \in Seq(Commands)
           /\ \A i \in Nat : Judged(i)' <=>
                Judged(i) \/ (i = Len(cmdin) + 1 /\ c \in Verdicts)
           /\ \A i \in Nat : Judged(i) => cmdin'[i] = cmdin[i]
           /\ cmdin'[Len(cmdin) + 1] = c /\ Len(cmdin) + 1 \in Nat
BY DEF Judged

LEMMA OneCommandLess ==
    ASSUME cmdin \in Seq(Commands), cmdin # <<>>, cmdin' = Tail(cmdin)
    PROVE  /\ cmdin' \in Seq(Commands) /\ Head(cmdin) = cmdin[1]
           /\ \A i \in Nat : Judged(i)' <=> i > 0 /\ Judged(i + 1)
           /\ \A i \in Nat : Judged(i)' => cmdin'[i] = cmdin[i + 1]
           /\ Judged(1) <=> Head(cmdin) \in Verdicts
BY DEF Judged

LEMMA OneMoreReply ==
    ASSUME cmdout \in Seq(Replies), NEW type \in ReplyTypes, NEW t \in Sessions,
           NEW s \in Nat, cmdout' = Append(cmdout, Reply(type, t, s))
    PROVE  /\ \A i \in Nat : Shown(i)' <=>
                Shown(i) \/ (i = Len(cmdout) + 1 /\ type = "INTERCEPT")
           /\ \A i \in Nat : Shown(i) => cmdout'[i] = cmdout[i]
           /\ cmdout'[Len(cmdout) + 1].state = s
<1>1. Reply(type, t, s) \in Replies /\ Reply(type, t, s).type = type
      /\ Reply(type, t, s).state = s
  BY DEF Reply, Replies
<1> QED BY <1>1 DEF Shown

LEMMA OneReplyLess ==
    ASSUME cmdout \in Seq(Replies), cmdout # <<>>, cmdout' = Tail(cmdout)
    PROVE  /\ Head(cmdout) = cmdout[1] /\ Head(cmdout) \in Replies
           /\ \A i \in Nat : Shown(i)' <=> i > 0 /\ Shown(i + 1)
           /\ \A i \in Nat : Shown(i)' => cmdout'[i] = cmdout[i + 1]
           /\ Shown(1) <=> Head(cmdout).type = "INTERCEPT"
BY DEF Shown

LEMMA NoneStays ==
    ASSUME NoneAsked, UNCHANGED got,
           \/ UNCHANGED cmdin
           \/ cmdin \in Seq(Commands) /\ cmdin # <<>> /\ cmdin' = Tail(cmdin),
           \/ UNCHANGED cmdout
           \/ /\ cmdout \in Seq(Replies)
              /\ \E type \in ReplyTypes \ {"INTERCEPT"}, t \in Sessions, s \in Nat :
                   cmdout' = Append(cmdout, Reply(type, t, s))
    PROVE  NoneAsked'
<1>1. \A i \in Nat : ~Judged(i)'
  <2>1. CASE UNCHANGED cmdin
    BY <2>1 DEF NoneAsked, Judged
  <2>2. CASE cmdin \in Seq(Commands) /\ cmdin # <<>> /\ cmdin' = Tail(cmdin)
    BY <2>2, OneCommandLess DEF NoneAsked
  <2> QED BY <2>1, <2>2
<1>2. \A i \in Nat : ~Shown(i)'
  <2>1. CASE UNCHANGED cmdout
    BY <2>1 DEF NoneAsked, Shown
  <2>2. ASSUME cmdout \in Seq(Replies), NEW type \in ReplyTypes \ {"INTERCEPT"},
               NEW t \in Sessions, NEW s \in Nat,
               cmdout' = Append(cmdout, Reply(type, t, s))
        PROVE  \A i \in Nat : ~Shown(i)'
    BY <2>2, OneMoreReply DEF NoneAsked
  <2> QED BY <2>1, <2>2
<1> QED BY <1>1, <1>2 DEF NoneAsked, Known

LEMMA AskedThread ==
    ASSUME PatientInv, AskedInv, NEW t \in Sessions, Control(t) \/ ListenEvent(t)
    PROVE  AskedInv'
<1>1. /\ t = session /\ UNCHANGED <<api, got, session>> /\ api # "starting"
      /\ \A place : Move(t, place) => Here' = place
  BY LastThreadSteps
<1>2. /\ cmdout \in Seq(Replies) /\ state \in Nat /\ NoOne \in Nat
      /\ resume \in {"enter", "listen"}
  BY DEF PatientInv, EngineInv, EngineTypeOK, NoOne
<1>3. Known' = Known /\ (Known' => got'.from = session')
  BY <1>1 DEF AskedInv, Known
<1>4. CASE Acquire(t) \/ SetupFails(t) \/ Exit(t) \/ ListenCommand(t)
  <2>1. /\ Here \in {"start", "listen", "exit"}
        /\ Here \in {"start", "listen"} => Here' \in {"command", "exit"}
        /\ Here = "exit" => Here' = "dead"
        /\ UNCHANGED <<cmdin, cmdout, accepted, delivered>>
    BY <1>1, <1>4 DEF Acquire, SetupFails, Exit, ListenCommand, Here, pipes,
                      packets
  <2>2. Here # "exit" => NoneAsked'
    BY <1>1, <2>1, NoneStays DEF AskedInv
  <2> QED BY <1>1, <1>3, <2>1, <2>2 DEF AskedInv, OnlyAcceptedLeave
<1>5. CASE Command(t)
  <2>1. /\ Here = "command" /\ cmdin # <<>> /\ cmdin' = Tail(cmdin)
        /\ UNCHANGED <<cmdout, accepted, delivered>>
        /\ Here' \in {"command", "exit", "enter", "listen"}
    BY <1>1, <1>2, <1>5 DEF Command, Here, packets
  <2>2. NoneAsked' /\ cmdin' \in Seq(Commands)
    BY <1>1, <2>1, NoneStays, OneCommandLess DEF AskedInv
  <2> QED BY <1>1, <1>3, <2>1, <2>2 DEF AskedInv, OnlyAcceptedLeave
<1>6. CASE Break(t) \/ Run(t) \/ ListenEvent(t) \/ Finish(t)
  <2>1. /\ Here \in {"enter", "listen"}
        /\ UNCHANGED <<cmdin, accepted, delivered>>
        /\ Here' \in {"command", "exit", "enter", "listen"}
    BY <1>1, <1>6 DEF Break, Run, ListenEvent, Finish, Entered, Proceed, Advance,
                      Here, packets
  <2>2. \/ UNCHANGED cmdout
        \/ \E type \in ReplyTypes \ {"INTERCEPT"}, s \in Nat :
             cmdout' = Append(cmdout, Reply(type, t, s))
    BY <1>2, <1>6 DEF Break, Run, ListenEvent, Finish, Proceed, Advance,
                      ReplyTypes
  <2>3. NoneAsked'
    BY <1>1, <1>2, <2>1, <2>2, NoneStays DEF AskedInv
  <2> QED BY <1>1, <1>3, <2>1, <2>3 DEF AskedInv, OnlyAcceptedLeave
<1>7. CASE Intercept(t)
  <2>1. /\ Here = "enter" /\ Here' = "verdict"
        /\ UNCHANGED <<cmdin, accepted, delivered, state>>
        /\ cmdout' = Append(cmdout, Reply("INTERCEPT", t, state))
        /\ "INTERCEPT" \in ReplyTypes
    BY <1>1, <1>7 DEF Intercept, Entered, Here, packets, ReplyTypes
  <2>2. /\ \A i \in Nat : Shown(i)' <=> i = Len(cmdout) + 1
        /\ cmdout'[Len(cmdout) + 1].state = state
    BY <1>2, <2>1, OneMoreReply DEF AskedInv, NoneAsked
  <2>3. ~Known' /\ \A i \in Nat : ~Judged(i)'
    BY <1>3, <2>1 DEF AskedInv, NoneAsked, Judged
  <2>4. OneAsked'
    BY <2>1, <2>2, <2>3 DEF OneAsked
  <2> QED BY <1>1, <1>3, <2>1, <2>4 DEF AskedInv, OnlyAcceptedLeave
<1>8. CASE Verdict(t)
  <2>1. /\ Here = "verdict" /\ cmdin # <<>> /\ Head(cmdin) \in Verdicts
        /\ cmdin' = Tail(cmdin) /\ UNCHANGED accepted
        /\ delivered' = IF Head(cmdin) = "ACCEPT"
                        THEN delivered \cup {<<session, state>>} ELSE delivered
        /\ Here' \in {"command", "enter", "listen"}
    BY <1>1, <1>8 DEF Verdict, Proceed, Advance, Here
  <2>2. \/ UNCHANGED cmdout
        \/ \E type \in ReplyTypes \ {"INTERCEPT"}, s \in Nat :
             cmdout' = Append(cmdout, Reply(type, t, s))
    BY <1>2, <1>8 DEF Verdict, Proceed, Advance, ReplyTypes
  <2>3. /\ Judged(1) /\ Head(cmdin) = cmdin[1] /\ cmdin' \in Seq(Commands)
        /\ \A i \in Nat : Judged(i)' <=> i > 0 /\ Judged(i + 1)
    BY <2>1, OneCommandLess DEF AskedInv
  <2>4. /\ ~Known /\ \A i \in Nat : ~Shown(i) /\ (Judged(i) => i = 1)
        /\ Head(cmdin) = "ACCEPT" => <<session, state>> \in accepted
    BY <2>1, <2>3 DEF AskedInv, OneAsked
  <2>5. \A i \in Nat : ~Judged(i)'
    BY <2>3, <2>4
  <2>6. \A i \in Nat : ~Shown(i)'
    <3>1. CASE UNCHANGED cmdout
      BY <2>4, <3>1 DEF Shown
    <3>2. CASE ~UNCHANGED cmdout
      <4>1. PICK type \in ReplyTypes \ {"INTERCEPT"}, s \in Nat :
                cmdout' = Append(cmdout, Reply(type, t, s))
        BY <2>2, <3>2
      <4> QED BY <1>2, <2>4, <4>1, OneMoreReply
    <3> QED BY <3>1, <3>2
  <2>7. NoneAsked'
    BY <1>3, <2>4, <2>5, <2>6 DEF NoneAsked
  <2> QED BY <1>1, <1>3, <2>1, <2>3, <2>4, <2>7 DEF AskedInv, OnlyAcceptedLeave
<1>9. CASE UnknownVerdict(t)
  <2>1. /\ Here' = "exit" /\ cmdin # <<>> /\ cmdin' = Tail(cmdin)
        /\ UNCHANGED <<accepted, delivered>>
    BY <1>1, <1>9 DEF UnknownVerdict, packets
  <2>2. cmdin' \in Seq(Commands)
    BY <2>1, OneCommandLess DEF AskedInv
  <2> QED BY <1>1, <1>3, <2>1, <2>2 DEF AskedInv, OnlyAcceptedLeave
<1> QED BY <1>4, <1>5, <1>6, <1>7, <1>8, <1>9 DEF Control

\* The caller sends a command that is no verdict.
LEMMA CommandSent ==
    ASSUME AskedInv, NEW c \in Commands \ Verdicts, Send(<<c>>),
           UNCHANGED <<cmdout, engine, session, packets>>,
           got' = got \/ got' = NoReply, api' # "starting"
    PROVE  AskedInv'
<1>1. /\ cmdin' = cmdin \o <<c>> /\ Here' = Here
      /\ UNCHANGED <<state, accepted, delivered>>
      /\ Known' => Known /\ got' = got
  BY DEF Send, Here, engine, packets, Known, NoReply, Reply
<1>2. /\ cmdin' \in Seq(Commands) /\ \A i \in Nat : Judged(i)' <=> Judged(i)
      /\ \A i \in Nat : Judged(i) => cmdin'[i] = cmdin[i]
  BY <1>1, OneMoreCommand DEF AskedInv
<1>3. \A i \in Nat : Shown(i)' <=> Shown(i)
  BY DEF Shown
<1>4. NoneAsked => NoneAsked'
  BY <1>1, <1>2, <1>3 DEF NoneAsked
<1>5. OneAsked => OneAsked'
  BY <1>1, <1>2, <1>3 DEF OneAsked
<1> QED BY <1>1, <1>2, <1>4, <1>5 DEF AskedInv, OnlyAcceptedLeave

LEMMA AskedCaller ==
    ASSUME PatientInv, AnswersInv, AskedInv,
           Call \/ RunReturns \/ Stopped \/ Start
    PROVE  AskedInv'
<1>1. cmdout \in Seq(Replies) /\ cmdin \in Seq(Commands)
  BY DEF PatientInv, EngineInv, EngineTypeOK, AskedInv
<1>2. CASE CallRun \/ CallRunbg \/ CtrlC \/ CallStop
  <2>1. /\ \E c \in {"RUN", "NEXT", "FREEZE", "STOP"} : Send(<<c>>)
        /\ UNCHANGED <<cmdout, engine, session, packets>>
        /\ got' = got \/ got' = NoReply
        /\ api' # "starting"
    BY <1>2 DEF CallRun, CallRunbg, CtrlC, CallStop, caller
  <2>2. {"RUN", "NEXT", "FREEZE", "STOP"} \subseteq Commands \ Verdicts
    BY DEF Commands, Verdicts
  <2> QED BY <2>1, <2>2, CommandSent
<1>3. CASE CallVerdict
  <2>1. PICK v \in Verdicts : Send(<<v>>) /\ Accepts(v)
    BY <1>3 DEF CallVerdict
  <2>2. /\ v \in Commands /\ cmdin' = cmdin \o <<v>> /\ Known /\ ~Known'
        /\ UNCHANGED <<cmdout, state, session, delivered>> /\ Here' = Here
        /\ got.from = session /\ api' # "starting"
    BY <1>3, <2>1 DEF CallVerdict, Commands, Send, Known, NoReply, Reply, engine,
                      Here, AskedInv
  <2>3. /\ accepted \subseteq accepted'
        /\ v = "ACCEPT" => <<session, got.state>> \in accepted'
    BY <2>1, <2>2 DEF Accepts
  <2>4. /\ cmdin' \in Seq(Commands) /\ cmdin'[Len(cmdin) + 1] = v
        /\ \A i \in Nat : Judged(i)' <=> Judged(i) \/ i = Len(cmdin) + 1
        /\ \A i \in Nat : Shown(i)' <=> Shown(i)
    BY <1>1, <2>2, OneMoreCommand DEF Shown
  <2>5. Here \in {"verdict", "exit", "dead"}
    BY <2>2 DEF AskedInv, NoneAsked
  <2>6. Here = "verdict" => OneAsked'
    BY <2>2, <2>3, <2>4 DEF AskedInv, OneAsked
  <2> QED BY <2>2, <2>3, <2>4, <2>5, <2>6 DEF AskedInv, OnlyAcceptedLeave
<1>4. CASE RunReturns
  <2>1. /\ cmdout # <<>> /\ cmdout' = Tail(cmdout) /\ got' = Head(cmdout)
        /\ UNCHANGED <<cmdin, state, session, accepted, delivered>>
        /\ Here' = Here /\ api' = "free"
    BY <1>4 DEF RunReturns, engine, packets, Here
  <2>2. /\ Head(cmdout) = cmdout[1]
        /\ Shown(1) <=> Head(cmdout).type = "INTERCEPT"
        /\ \A i \in Nat : Shown(i)' <=> i > 0 /\ Shown(i + 1)
        /\ \A i \in Nat : Shown(i)' => cmdout'[i] = cmdout[i + 1]
    BY <1>1, <2>1, OneReplyLess
  <2>3. 1 \in 1..Len(cmdout)
    BY <1>1, <2>1
  <2>4. /\ got' = cmdout[1] /\ 1 \in 1..Len(cmdout)
        /\ Known' <=> Shown(1)
        /\ \A i \in Nat : Shown(i)' <=> i > 0 /\ Shown(i + 1)
        /\ \A i \in Nat : Shown(i)' => cmdout'[i] = cmdout[i + 1]
    BY <2>1, <2>2, <2>3 DEF Known
  <2>5. got'.from = session'
    BY <2>1, <2>4 DEF AnswersInv
  <2>6. \A i \in Nat : Judged(i)' <=> Judged(i)
    BY <2>1 DEF Judged
  <2>7. NoneAsked => NoneAsked'
    BY <2>4, <2>6 DEF NoneAsked
  <2>8. ASSUME OneAsked PROVE OneAsked'
    <3>1. ASSUME NEW i \in Nat, NEW j \in Nat, Shown(i)', Shown(j)' PROVE i = j
      <4>1. i + 1 \in Nat /\ j + 1 \in Nat /\ Shown(i + 1) /\ Shown(j + 1)
        BY <2>4, <3>1
      <4>2. i + 1 = j + 1
        BY <2>8, <4>1 DEF OneAsked
      <4> QED BY <4>2
    <3>2. Known' => \A i \in Nat : ~Shown(i)' /\ ~Judged(i)'
      <4>1. ASSUME Shown(1), NEW i \in Nat PROVE ~Shown(i)' /\ ~Judged(i)'
        <5>1. Shown(i + 1) => i + 1 = 1
          BY <2>4, <2>8, <4>1 DEF OneAsked
        <5> QED BY <2>4, <2>6, <2>8, <4>1, <5>1 DEF OneAsked
      <4> QED BY <2>4, <4>1
    <3>3. Known' => got'.state = state
      BY <2>4, <2>8 DEF OneAsked
    <3>4. \A i \in Nat : Shown(i)' => cmdout'[i].state = state
      BY <2>4, <2>8 DEF OneAsked
    <3>5. \A i, j \in Nat : ~(Shown(i)' /\ Judged(j)')
                           /\ (Judged(i)' /\ Judged(j)' => i = j)
      BY <2>4, <2>6, <2>8 DEF OneAsked
    <3>6. \A i \in Nat : Judged(i)' /\ cmdin'[i] = "ACCEPT"
                        => <<session', state'>> \in accepted'
      BY <2>1, <2>6, <2>8 DEF OneAsked
    <3> QED BY <2>1, <3>1, <3>2, <3>3, <3>4, <3>5, <3>6 DEF OneAsked
  <2> QED BY <2>1, <2>5, <2>7, <2>8 DEF AskedInv, OnlyAcceptedLeave
<1>5. CASE Stopped
  <2>1. /\ cmdin' = <<>> /\ cmdout' = <<>> /\ got'.type = "stopped"
        /\ UNCHANGED <<accepted, delivered>> /\ Here' = Here /\ Here = "dead"
    BY <1>5, StoppedDead DEF Stopped, Flush, Reply, Here, engine, packets
  <2> QED BY <2>1 DEF AskedInv, Known, OnlyAcceptedLeave
<1>6. CASE Start
  <2>1. /\ cmdin' = <<>> /\ cmdout' = <<>> /\ got'.type = "none"
        /\ UNCHANGED <<accepted, delivered>> /\ api' = "free"
    BY <1>6 DEF Start, AnswersInv, AskedInv, NoReply, Reply, pipes, packets
  <2>2. NoneAsked' /\ ~Known'
    BY <2>1 DEF NoneAsked, Known, Shown, Judged
  <2>3. Here' # "verdict"
    <3>1. session + 1 \in Sessions /\ at[session] = "dead"
      BY <1>6, AutomatonAssumption DEF Start, PatientInv, Patient, EngineInv,
                                       EngineTypeOK, Sessions
    <3> QED BY <1>6, <3>1 DEF Start, Here, PatientInv, EngineInv, EngineTypeOK
  <2> QED BY <2>1, <2>2, <2>3 DEF AskedInv, OnlyAcceptedLeave
<1> QED BY <1>2, <1>3, <1>4, <1>5, <1>6 DEF Call

\* If no caller restarts hastily, an intercepted packet leaves only if the caller
\* was shown this packet of this thread and accepted it, for every automaton and
\* whatever else the caller sends: run() and next() before their reply is read,
\* Ctrl-C, stop() and restart() (automaton.py:412-430).
THEOREM OnlyAcceptedEverLeave ==
    (\A S \in Settings : "hasty" \notin S) => (ASpec => []OnlyAcceptedLeave)
<1> SUFFICES ASSUME \A S \in Settings : "hasty" \notin S
             PROVE  ASpec => []OnlyAcceptedLeave
  OBVIOUS
<1> DEFINE Inv == PatientInv /\ AnswersInv /\ AskedInv
<1>1. AInit => Inv
  <2>1. AInit => AnswersInv
    BY DEF AInit, AnswersInv, NoReply, Reply
  <2>2. AInit => AskedInv
    BY AutomatonAssumption
       DEF AInit, AskedInv, NoneAsked, OnlyAcceptedLeave, Known, Shown, Judged,
           Here, NoReply, Reply, Sessions
  <2> QED BY <2>1, <2>2, PatientInit
<1>2. Inv /\ [ANext]_atVars => Inv'
  <2> SUFFICES ASSUME Inv, [ANext]_atVars PROVE Inv'
    OBVIOUS
  <2>1. PatientInv' /\ AnswersInv'
    BY PatientStep, AnswersStep
  <2>2. UNCHANGED atVars => AskedInv'
    BY DEF atVars, pipes, engine, caller, packets, AskedInv, NoneAsked, OneAsked,
           OnlyAcceptedLeave, Known, Shown, Judged, Here
  <2>3. AskedInv'
    BY <2>2, AskedThread, AskedCaller DEF ANext
  <2> QED BY <2>1, <2>3
<1>3. Inv => OnlyAcceptedLeave
  BY DEF AskedInv
<1> QED BY <1>1, <1>2, <1>3, PTL DEF ASpec
=============================================================================
