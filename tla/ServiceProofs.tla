--------------------------- MODULE ServiceProofs ---------------------------
(***************************************************************************)
(* Theorems about Service, for every set of requests and guesses and every *)
(* clock.                                                                  *)
(***************************************************************************)
EXTENDS Service, TLAPS

\* What the invariants need to know of the values of the variables.
Shape ==
    /\ pc \in [Requests -> {"none", "poll", "sleep", "replied", "gone", "dropped"}]
    /\ phase \in {"binding", "serving", "draining", "closed", "failed"}
    /\ task \in [Tasks -> {"running", "ok", "err", "masked", "panic"}]
    /\ task["ctrl_c"] \in {"running", "ok"}
    /\ cause \in Tasks \cup {"none"}
    /\ main \in {"notStarted", "starting", "startError", "joining", "panicked", "killed"}
                  \cup Returned

\* Requests are in flight only while the server has them, and are dropped only
\* with the process.
RequestInv ==
    /\ phase \in {"binding", "closed", "failed"} => InFlight = {}
    /\ task["server"] = "ok" => phase = "closed"
    /\ task["server"] \in {"err", "masked"} => phase = "failed"
    /\ task["server"] # "panic"
    /\ Alive => \A r \in Requests : pc[r] # "dropped"
    /\ RequestsServed

\* A shutdown has a cause, a task whose own error is kept unless it is ctrl-c, and
\* whoever returned because of it was told. What main returns is what its tasks
\* returned, all of them.
ShutdownInv ==
    /\ sent <=> cause # "none"
    /\ cause \in {"engine", "server"} => task[cause] = "err"
    /\ \A t \in Tasks : task[t] = "masked" => cause # t
    /\ \A t \in Tasks : task[t] \in {"ok", "err", "masked"} => sent
    /\ phase \in {"draining", "closed"} => sent
    /\ main \in {"notStarted", "starting"} =>
           ~sent /\ \A t \in Tasks : task[t] = "running"
    /\ main \in Returned =>
           main = Joined /\ \A t \in Tasks : task[t] \notin {"running", "panic"}

SInv == Shape /\ RequestInv /\ ShutdownInv

-----------------------------------------------------------------------------
\* At the start every task runs and nothing was asked.
LEMMA SInvInit == Init => SInv
BY DEF Init, ServerInit, SInv, Shape, RequestInv, ShutdownInv, Alive, Returned,
       RequestsServed, InFlight, Tasks

\* Whatever the last process left, the next starts like the first.
LEMMA SInvStart == Start => SInv'
BY DEF Start, SInv, Shape, RequestInv, ShutdownInv, Alive, Returned,
       RequestsServed, InFlight, Tasks

\* A request that is handled, arrives or goes away leaves the tasks alone.
LEMMA RequestStep ==
    ASSUME NEW r \in Requests, Arrive(r) \/ Disconnect(r) \/ Handler(r), Shape
    PROVE  /\ UNCHANGED phase
           /\ pc' \in [Requests -> {"none", "poll", "sleep", "replied", "gone", "dropped"}]
           /\ \A q \in Requests : pc'[q] = "dropped" => pc[q] = "dropped"
           /\ phase \in {"binding", "closed", "failed"} => InFlight' \subseteq InFlight
<1>1. CASE Arrive(r)
  BY <1>1 DEF Arrive, Shape, InFlight
<1>2. CASE Disconnect(r)
  BY <1>2 DEF Disconnect, Shape, InFlight
<1>3. CASE Poll(r)
  BY <1>3 DEF Poll, Respond, Shape, InFlight
<1>4. CASE Wake(r)
  BY <1>4 DEF Wake, Respond, Shape, InFlight
<1> QED
  BY <1>1, <1>2, <1>3, <1>4 DEF Handler

\* A task that fails either starts the shutdown or finds it started.
LEMMA FailStep ==
    ASSUME SInv, NEW t \in {"engine", "server"}, Fails(t), task[t] = "running"
    PROVE  /\ sent' /\ cause # t
           /\ cause' = IF sent THEN cause ELSE t
           /\ \/ task' = [task EXCEPT ![t] = "err"]
              \/ task' = [task EXCEPT ![t] = "masked"] /\ sent
<1>0. cause # t
  BY DEF SInv, ShutdownInv
<1>1. CASE Receivers \ {t} = {}
  <2>1. task["ctrl_c"] # "running"
    BY <1>1 DEF Receivers, Tasks
  <2>2. sent
    BY <2>1 DEF SInv, Shape, ShutdownInv, Tasks
  <2> QED
    BY <1>0, <1>1, <2>2 DEF Fails, Returns
<1>2. CASE Receivers \ {t} # {}
  BY <1>0, <1>2 DEF Fails, Returns, Send
<1> QED
  BY <1>1, <1>2

\* The invariant is inductive.
LEMMA SInvStep == SInv /\ [Next]_vars => SInv'
<1> SUFFICES ASSUME SInv, [Next]_vars
             PROVE  SInv'
  OBVIOUS
<1> USE DEF SInv
<1>1. CASE UNCHANGED vars
  BY <1>1 DEF vars, serverVars, requestVars, taskVars, Shape, RequestInv,
              ShutdownInv, Joined, Failed, Alive, RequestsServed, InFlight
\* A step within a process: main goes on, and all depends on the tasks, the
\* channel and the phase.
<1>2. ASSUME Up, UNCHANGED main
      PROVE  /\ main = "joining" /\ main' = "joining" /\ main' \notin Returned
             /\ Alive /\ Alive' /\ Up'
  BY <1>2 DEF Up, Alive, Returned
<1>3. CASE EngineStops \/ EnginePanics
  <2>1. Up /\ UNCHANGED <<pc, phase, sent, cause, main>> /\ task["engine"] = "running"
    BY <1>3 DEF EngineStops, EnginePanics, Runs, serverVars, requestVars
  <2>2. \/ task' = [task EXCEPT !["engine"] = "ok"] /\ sent
        \/ task' = [task EXCEPT !["engine"] = "panic"]
    BY <1>3 DEF EngineStops, EnginePanics, Returns
  <2> QED
    BY <1>2, <2>1, <2>2 DEF Shape, RequestInv, ShutdownInv, RequestsServed, InFlight, Tasks
<1>4. CASE EngineFails
  <2>1. /\ task["engine"] = "running" /\ Up /\ Fails("engine")
        /\ UNCHANGED <<pc, phase, main>>
    BY <1>4 DEF EngineFails, Runs, serverVars, requestVars
  <2>2. /\ sent' /\ cause # "engine"
        /\ cause' = IF sent THEN cause ELSE "engine"
        /\ \/ task' = [task EXCEPT !["engine"] = "err"]
           \/ task' = [task EXCEPT !["engine"] = "masked"] /\ sent
    BY <2>1, FailStep
  <2> QED
    BY <1>2, <2>1, <2>2 DEF Shape, RequestInv, ShutdownInv, RequestsServed, InFlight, Tasks
<1>5. CASE ServerBinds
  <2>1. /\ task["server"] = "running" /\ Up /\ phase = "binding"
        /\ UNCHANGED <<pc, main>> /\ phase' \in {"serving", "failed"}
    BY <1>5 DEF ServerBinds, Bind, Runs, requestVars
  <2>2. CASE phase' = "serving"
    <3>1. UNCHANGED <<task, sent, cause>>
      BY <1>5, <2>2 DEF ServerBinds
    <3> QED
      BY <1>2, <2>1, <2>2, <3>1
         DEF Shape, RequestInv, ShutdownInv, RequestsServed, InFlight, Tasks
  <2>3. CASE phase' = "failed"
    <3>1. /\ sent' /\ cause # "server"
          /\ cause' = IF sent THEN cause ELSE "server"
          /\ \/ task' = [task EXCEPT !["server"] = "err"]
             \/ task' = [task EXCEPT !["server"] = "masked"] /\ sent
      BY <1>5, <2>1, <2>3, FailStep DEF ServerBinds
    <3> QED
      BY <1>2, <2>1, <2>3, <3>1
         DEF Shape, RequestInv, ShutdownInv, RequestsServed, InFlight, Tasks
  <2> QED
    BY <2>1, <2>2, <2>3
<1>6. CASE ServerDrains \/ ServerReturns
  <2>1. /\ Up /\ UNCHANGED <<pc, sent, cause, main>> /\ sent
        /\ \/ phase = "serving" /\ phase' = "draining" /\ UNCHANGED task
           \/ /\ phase = "draining" /\ phase' = "closed" /\ InFlight = {}
              /\ task["server"] = "running" /\ task' = [task EXCEPT !["server"] = "ok"]
    BY <1>6 DEF ServerDrains, Drain, ServerReturns, Close, Returns, Runs, taskVars,
                requestVars, ShutdownInv
  <2> QED
    BY <1>2, <2>1 DEF Shape, RequestInv, ShutdownInv, RequestsServed, InFlight, Tasks
<1>7. CASE CtrlC \/ CtrlCReturns
  <2>1. /\ Up /\ UNCHANGED <<pc, phase, main>> /\ sent'
        /\ task["ctrl_c"] = "running" /\ task' = [task EXCEPT !["ctrl_c"] = "ok"]
        /\ cause' = IF sent THEN cause ELSE "ctrl_c"
    BY <1>7 DEF CtrlC, CtrlCReturns, Send, Returns, Runs, serverVars, requestVars
  <2> QED
    BY <1>2, <2>1 DEF Shape, RequestInv, ShutdownInv, RequestsServed, InFlight, Tasks
<1>8. CASE MainReturns \/ Killed
  <2>1. /\ UNCHANGED <<phase, task, sent, cause>> /\ Alive
        /\ pc' = [r \in Requests |-> IF r \in InFlight THEN "dropped" ELSE pc[r]]
    BY <1>8 DEF MainReturns, Killed, DropRequests, Up, Alive
  <2>2. \/ main' = "killed" \/ main' = "panicked"
        \/ /\ main' \in Returned /\ main' = Joined
           /\ \A t \in Tasks : task[t] \notin {"running", "panic"}
    BY <1>8 DEF MainReturns, Killed, Joined, Returned
  <2>3. main' \in Returned => InFlight = {}
    BY <2>2 DEF Joined, Shape, RequestInv, Returned, Tasks
  <2>4. Shape'
    BY <2>1, <2>2 DEF Shape
  <2>5. RequestInv'
    <3>1. InFlight' = {}
      BY <2>1 DEF InFlight
    <3>2. main' \notin {"killed", "panicked"} => \A r \in Requests : pc'[r] # "dropped"
      BY <2>1, <2>2, <2>3 DEF RequestInv, InFlight
    <3>3. ~Alive'
      BY <2>2 DEF Alive, Returned
    <3> QED
      BY <2>1, <3>1, <3>2, <3>3 DEF RequestInv, RequestsServed
  <2>6. ShutdownInv'
    <3>1. main' \notin {"notStarted", "starting"}
      BY <2>2 DEF Returned
    <3>2. Joined' = Joined
      BY <2>1 DEF Joined, Failed
    <3>3. main' \in Returned =>
              main' = Joined' /\ \A t \in Tasks : task'[t] \notin {"running", "panic"}
      BY <2>1, <2>2, <3>2 DEF Returned
    <3> QED
      BY <2>1, <3>1, <3>3 DEF ShutdownInv
  <2> QED
    BY <2>4, <2>5, <2>6
<1>9. CASE \/ Time
           \/ \E g \in Guesses, verdict \in Verdicts : EngineRecords(g, verdict)
  <2>1. UNCHANGED <<phase, pc, task, sent, cause, main>>
    <3>1. CASE Time
      BY <3>1 DEF Time, Tick, taskVars
    <3>2. CASE \E g \in Guesses, verdict \in Verdicts : EngineRecords(g, verdict)
      BY <3>2 DEF EngineRecords, Record, taskVars, requestVars
    <3> QED
      BY <1>9, <3>1, <3>2
  <2> QED
    BY <2>1 DEF Shape, RequestInv, ShutdownInv, Joined, Failed, Alive,
                RequestsServed, InFlight
<1>10. ASSUME NEW r \in Requests, Client(r) \/ Handle(r)
       PROVE  SInv'
  <2>1. UNCHANGED <<task, sent, cause, main>>
    BY <1>10 DEF Client, Handle, taskVars
  <2>2. Up /\ (Arrive(r) \/ Disconnect(r) \/ Handler(r))
    BY <1>10 DEF Client, Handle
  <2>3. /\ UNCHANGED phase
        /\ pc' \in [Requests -> {"none", "poll", "sleep", "replied", "gone", "dropped"}]
        /\ \A q \in Requests : pc'[q] = "dropped" => pc[q] = "dropped"
        /\ phase \in {"binding", "closed", "failed"} => InFlight' \subseteq InFlight
    BY <2>2, RequestStep
  <2>4. Shape'
    BY <2>1, <2>3 DEF Shape
  <2>5. RequestInv'
    BY <2>1, <2>2, <2>3 DEF RequestInv, Up, Alive, RequestsServed
  <2> QED
    BY <1>2, <2>1, <2>2, <2>3, <2>4, <2>5 DEF ShutdownInv
<1>11. CASE Start
  BY <1>11, SInvStart
<1>12. CASE Spawn \/ \E how \in {"startError", "panicked"} : StartFails(how)
  <2>1. UNCHANGED <<phase, pc, task, sent, cause>>
    BY <1>12 DEF Spawn, StartFails, serverVars, requestVars
  <2>2. main = "starting" /\ main' \in {"joining", "startError", "panicked"}
    BY <1>12 DEF Spawn, StartFails
  <2> QED
    BY <2>1, <2>2 DEF Shape, RequestInv, ShutdownInv, Returned, Alive,
                      RequestsServed, InFlight
<1> QED
  BY <1>1, <1>3, <1>4, <1>5, <1>6, <1>7, <1>8, <1>9, <1>10, <1>11, <1>12
     DEF Next, Process, EngineTask, ServerTask

-----------------------------------------------------------------------------
(***************************************************************************)
(* How long a request waits, and what it is told in the end: the invariant *)
(* bounds what it has waited by the time since it was last run, and the    *)
(* age of an answer it has not seen by the length of its sleep.            *)
(***************************************************************************)

\* The first tick at which a request gives up.
Deadline == (TimeoutSeconds + 1) * TicksPerSecond

\* The values of the server's variables.
Values ==
    /\ DOMAIN answers \subseteq Guesses /\ DOMAIN age = DOMAIN answers
    /\ \A g \in DOMAIN answers : answers[g] \in Verdicts /\ age[g] \in 0 .. MaxAge
    /\ guess \in [Requests -> Guesses]
    /\ waited \in [Requests -> Nat] /\ since \in [Requests -> Nat]
    /\ reply \in [Requests -> {"none", "noContent"} \cup Verdicts]
    /\ \A r \in Requests : pc[r] = "replied" <=> reply[r] # "none"

\* A request was in time when it was last run, and is run again before long.
InTime(r) ==
    /\ pc[r] = "none" => waited[r] = 0 /\ since[r] = 0
    /\ pc[r] = "poll" => since[r] <= MaxLate /\ waited[r] < Deadline + since[r]
    /\ pc[r] = "sleep" =>
           since[r] <= PollTicks + MaxLate /\ waited[r] < Deadline + MaxLate + since[r]
    /\ waited[r] < Deadline + PollTicks + 2 * MaxLate
    /\ GaveUp(r) => waited[r] >= Deadline

\* An answer that a sleeping request has not seen was recorded while it slept.
Unseen(r) ==
    pc[r] = "sleep" /\ guess[r] \in DOMAIN answers => age[guess[r]] <= since[r]

TInv == Values /\ \A r \in Requests : InTime(r) /\ Unseen(r)

-----------------------------------------------------------------------------
\* The clock's constants are numbers.
LEMMA ClockTypes ==
    /\ PollTicks \in Nat \ {0} /\ MaxLate \in Nat /\ Deadline \in Nat \ {0}
    /\ MaxAge = PollTicks + MaxLate + 1
<1>1. \A m, n \in Nat \ {0} : m * n \in Nat \ {0}
  OBVIOUS
<1>2. TimeoutSeconds + 1 \in Nat \ {0} /\ TicksPerSecond \in Nat \ {0}
  BY ClockAssumption
<1> QED
  BY <1>1, <1>2, ClockAssumption DEF Deadline, MaxAge

\* Whole units are above k just when k + 1 of them have passed.
LEMMA WholeUnits ==
    ASSUME NEW a \in Nat, NEW b \in Nat \ {0}, NEW k \in Nat
    PROVE  a \div b > k <=> a >= (k + 1) * b
OBVIOUS

\* The seconds waited are above the timeout just when the deadline has passed.
LEMMA TimedOutAtDeadline ==
    ASSUME NEW r \in Requests, waited[r] \in Nat
    PROVE  TimedOut(r) <=> waited[r] >= Deadline
BY WholeUnits, ClockAssumption DEF TimedOut, Deadline

-----------------------------------------------------------------------------
\* At the start nobody has waited and nothing is answered.
LEMMA TInvInit == Init => TInv
BY ClockTypes
   DEF Init, ServerInit, NoAnswers, NoAges, TInv, Values, InTime, Unseen, GaveUp,
       Verdicts

\* Nor at the start of another process.
LEMMA TInvStart == Start => TInv'
BY ClockTypes
   DEF Start, NoAnswers, NoAges, TInv, Values, InTime, Unseen, GaveUp, Verdicts

\* A request that is left alone keeps its bounds, unless time passes.
LEMMA LeftAlone ==
    ASSUME TInv, NEW r \in Requests,
           pc'[r] = pc[r], waited'[r] = waited[r], since'[r] = since[r],
           reply'[r] = reply[r], UNCHANGED guess,
           guess[r] \in DOMAIN answers' =>
               \/ guess[r] \in DOMAIN answers /\ age'[guess[r]] = age[guess[r]]
               \/ age'[guess[r]] = 0
    PROVE  InTime(r)' /\ Unseen(r)'
BY DEF TInv, Values, InTime, Unseen, GaveUp

\* The engine records an answer, whose age is 0.
LEMMA RecordKeepsTime ==
    ASSUME TInv, NEW g \in Guesses, NEW verdict \in Verdicts, Record(g, verdict)
    PROVE  TInv'
<1>1. UNCHANGED requestVars
  BY DEF Record
<1>2. Values'
  BY <1>1, ClockTypes DEF Record, requestVars, TInv, Values
<1>3. ASSUME NEW r \in Requests
      PROVE  InTime(r)' /\ Unseen(r)'
  BY <1>1, LeftAlone DEF Record, requestVars, TInv, Values
<1> QED
  BY <1>2, <1>3 DEF TInv

\* A step of the server that touches its phase only.
LEMMA PhaseKeepsTime ==
    ASSUME TInv, UNCHANGED <<answers, age, requestVars>>
    PROVE  TInv'
BY DEF TInv, Values, InTime, Unseen, GaveUp, requestVars

\* One request arrives, goes away or is run; the others are left alone.
LEMMA RequestKeepsTime ==
    ASSUME TInv, Shape, NEW r \in Requests, Arrive(r) \/ Disconnect(r) \/ Handler(r)
    PROVE  TInv'
<1>1. /\ UNCHANGED <<answers, age, guess, waited>>
      /\ \A q \in Requests \ {r} :
            pc'[q] = pc[q] /\ since'[q] = since[q] /\ reply'[q] = reply[q]
  BY DEF Arrive, Disconnect, Handler, Poll, Wake, Respond, TInv, Values, Shape
<1>2. Values'
  <2>1. CASE Arrive(r) \/ Disconnect(r)
    BY <2>1 DEF Arrive, Disconnect, InFlight, TInv, Values, Shape
  <2>2. CASE Poll(r)
    BY <2>2 DEF Poll, Respond, TInv, Values, Shape, Verdicts
  <2>3. CASE Wake(r)
    BY <2>3 DEF Wake, Respond, TInv, Values, Shape, Verdicts
  <2> QED
    BY <2>1, <2>2, <2>3 DEF Handler
<1>3. InTime(r)' /\ Unseen(r)'
  <2> USE ClockTypes DEF TInv, Values, Shape, InTime, Unseen, GaveUp
  <2>1. CASE Arrive(r)
    BY <2>1 DEF Arrive
  <2>2. CASE Disconnect(r)
    BY <2>2 DEF Disconnect
  <2>3. CASE Poll(r)
    BY <2>3 DEF Poll, Respond, Verdicts
  <2>4. CASE Wake(r)
    BY <2>4, TimedOutAtDeadline DEF Wake, Respond
  <2> QED
    BY <2>1, <2>2, <2>3, <2>4 DEF Handler
<1>4. ASSUME NEW q \in Requests \ {r}
      PROVE  InTime(q)' /\ Unseen(q)'
  BY <1>1, LeftAlone
<1> QED
  BY <1>2, <1>3, <1>4 DEF TInv

\* Time passes for the requests in flight while none of them is overdue.
LEMMA TickKeepsTime ==
    ASSUME TInv, Shape, Tick
    PROVE  TInv'
<1>1. Values'
  BY ClockTypes DEF Tick, TInv, Values
<1>2. ASSUME NEW r \in Requests
      PROVE  InTime(r)'
  <2>1. CASE r \in InFlight
    BY <2>1, ClockTypes DEF Tick, TInv, Values, Shape, InTime, GaveUp, InFlight, Due
  <2>2. CASE r \notin InFlight
    BY <2>2, ClockTypes DEF Tick, TInv, Values, Shape, InTime, GaveUp, InFlight
  <2> QED
    BY <2>1, <2>2
<1>3. ASSUME NEW r \in Requests
      PROVE  Unseen(r)'
  <2> SUFFICES ASSUME pc[r] = "sleep", guess[r] \in DOMAIN answers
               PROVE  age'[guess[r]] <= since'[r]
    BY DEF Tick, Unseen
  <2>1. since'[r] = since[r] + 1
    BY DEF Tick, InFlight
  <2>2. age[guess[r]] <= since[r] /\ age[guess[r]] \in 0 .. MaxAge /\ since[r] \in Nat
    BY DEF TInv, Values, Unseen
  <2>3. age'[guess[r]] <= age[guess[r]] + 1
    BY <2>2, ClockTypes DEF Tick, TInv, Values
  <2>4. age'[guess[r]] \in Nat
    BY <2>2, ClockTypes DEF Tick, TInv, Values
  <2> QED
    BY <2>1, <2>2, <2>3, <2>4
<1> QED
  BY <1>1, <1>2, <1>3 DEF TInv

\* The process ends: requests in flight are dropped, with what they have waited.
LEMMA DropKeepsTime ==
    ASSUME TInv, Shape, DropRequests
    PROVE  TInv'
<1>1. /\ UNCHANGED <<answers, age, guess, waited, since, reply>>
      /\ pc' = [r \in Requests |-> IF r \in InFlight THEN "dropped" ELSE pc[r]]
  BY DEF DropRequests
<1>2. Values'
  BY <1>1 DEF TInv, Values, InFlight
<1>3. ASSUME NEW r \in Requests
      PROVE  InTime(r)' /\ Unseen(r)'
  BY <1>1 DEF TInv, InTime, Unseen, GaveUp, InFlight
<1> QED
  BY <1>2, <1>3 DEF TInv

-----------------------------------------------------------------------------
\* The invariant is inductive.
LEMMA TInvStep == SInv /\ TInv /\ [Next]_vars => TInv'
<1> SUFFICES ASSUME SInv, TInv, [Next]_vars
             PROVE  TInv'
  OBVIOUS
<1>0. Shape
  BY DEF SInv
<1>1. CASE \/ EngineTask \/ ServerTask \/ CtrlC \/ CtrlCReturns \/ Spawn
           \/ \E how \in {"startError", "panicked"} : StartFails(how)
           \/ UNCHANGED vars
  <2>1. UNCHANGED <<answers, age, requestVars>>
    BY <1>1
       DEF EngineTask, EngineStops, EngineFails, EnginePanics, ServerTask,
           ServerBinds, Bind, ServerDrains, Drain, ServerReturns, Close, CtrlC,
           CtrlCReturns, Spawn, StartFails, vars, serverVars
  <2> QED
    BY <2>1, PhaseKeepsTime
<1>2. CASE \E g \in Guesses, verdict \in Verdicts : EngineRecords(g, verdict)
  BY <1>2, RecordKeepsTime DEF EngineRecords
<1>3. CASE \E r \in Requests : Client(r) \/ Handle(r)
  BY <1>0, <1>3, RequestKeepsTime DEF Client, Handle
<1>4. CASE Time
  BY <1>0, <1>4, TickKeepsTime DEF Time
<1>5. CASE MainReturns \/ Killed
  BY <1>0, <1>5, DropKeepsTime DEF MainReturns, Killed
<1>6. CASE Start
  BY <1>6, TInvStart
<1> QED
  BY <1>1, <1>2, <1>3, <1>4, <1>5, <1>6 DEF Next, Process

\* The channel holds a boolean.
SentType == sent \in BOOLEAN

LEMMA SentStep == SentType /\ [Next]_vars => SentType'
  BY DEF SentType, Next, Process, Start, Spawn, StartFails, MainReturns, Killed,
         DropRequests, EngineTask, EngineStops, EngineFails, EnginePanics,
         ServerTask, ServerBinds, ServerDrains, ServerReturns, CtrlC,
         CtrlCReturns, EngineRecords, Client, Handle, Time, Fails, Send, vars,
         taskVars

(***************************************************************************)
(* All that holds of the service, as one inductive invariant.              *)
(***************************************************************************)
SafeInv == SInv /\ TInv /\ SentType

LEMMA SafeInit == Init => SafeInv
<1>1. Init => SentType
  BY DEF Init, SentType
<1> QED
  BY <1>1, SInvInit, TInvInit DEF SafeInv

LEMMA SafeStep == SafeInv /\ [Next]_vars => SafeInv'
  BY SInvStep, TInvStep, SentStep DEF SafeInv

LEMMA SafeCorrect == Spec => []SafeInv
  BY SafeInit, SafeStep, PTL DEF Spec

\* What a process that is safe promises of its state.
LEMMA SafeStates ==
    SafeInv => /\ TypeOK /\ RequestsServed /\ CleanExitAsked /\ CauseKept
               /\ EndIsTold /\ GivesUpAfterTimeout /\ AnsweredInTime
<1> SUFFICES ASSUME SInv, TInv, SentType
             PROVE  /\ TypeOK /\ RequestsServed /\ CleanExitAsked /\ CauseKept
                    /\ EndIsTold /\ GivesUpAfterTimeout /\ AnsweredInTime
  BY DEF SafeInv
<1>1. TypeOK
  BY DEF SInv, Shape, RequestInv, ShutdownInv, TInv, Values, SentType, Joined,
         Failed, Returned, TypeOK, ServerTypeOK, Tasks
<1>2. RequestsServed
  BY DEF SInv, RequestInv
<1>3. CleanExitAsked
  BY DEF SInv, Shape, RequestInv, ShutdownInv, Joined, Failed, Returned, CleanExitAsked, Tasks
<1>4. CauseKept
  BY DEF SInv, Shape, ShutdownInv, Joined, Failed, Returned, CauseKept, Tasks
<1>5. GivesUpAfterTimeout
  BY DEF TInv, InTime, GivesUpAfterTimeout, Deadline
<1>6. AnsweredInTime
  BY DEF TInv, InTime, AnsweredInTime, Deadline
<1>7. EndIsTold
  BY DEF SInv, ShutdownInv, EndIsTold
<1> QED
  BY <1>1, <1>2, <1>3, <1>4, <1>5, <1>6, <1>7

\* What a request that gives up has missed.
NotStale ==
    \A r \in Requests :
        pc[r] = "sleep" /\ GaveUp(r)' /\ guess[r] \in DOMAIN answers =>
            age[guess[r]] <= PollTicks + MaxLate

\* An answer that a sleeping request has not seen is no older than its sleep.
LEMMA SafeSleep == SafeInv => NotStale
<1> SUFFICES ASSUME TInv, NEW r \in Requests,
                    pc[r] = "sleep", guess[r] \in DOMAIN answers
             PROVE  age[guess[r]] <= PollTicks + MaxLate
  BY DEF SafeInv, NotStale
<1>1. age[guess[r]] <= since[r] /\ since[r] <= PollTicks + MaxLate
  BY DEF TInv, Unseen, InTime
<1>2. age[guess[r]] \in Nat /\ since[r] \in Nat
  BY ClockTypes DEF TInv, Values
<1> QED
  BY <1>1, <1>2, ClockTypes

-----------------------------------------------------------------------------
\* The variables of the service and of its server keep their types.
THEOREM TypeCorrect == Spec => []TypeOK
  BY SafeCorrect, SafeStates, PTL

\* Unless the engine panics or the process is killed, no request is dropped.
THEOREM RequestsServedCorrect == Spec => []RequestsServed
  BY SafeCorrect, SafeStates, PTL

\* A process that ended well was stopped by its ctrl-c task, and its server has
\* drained.
THEOREM CleanExitAskedCorrect == Spec => []CleanExitAsked
  BY SafeCorrect, SafeStates, PTL

\* Which failure is reported: the engine's if it started the shutdown, the
\* server's if that did and the engine has not failed since.
THEOREM CauseKeptCorrect == Spec => []CauseKept
  BY SafeCorrect, SafeStates, PTL

\* No task returns without the others being told, or having been told, to stop.
THEOREM EndIsToldCorrect == Spec => []EndIsTold
  BY SafeCorrect, SafeStates, PTL

\* Nobody is told that there is no answer before the timeout has passed.
THEOREM GivesUpAfterTimeoutCorrect == Spec => []GivesUpAfterTimeout
  BY SafeCorrect, SafeStates, PTL

\* Nobody waits much longer than that.
THEOREM AnsweredInTimeCorrect == Spec => []AnsweredInTime
  BY SafeCorrect, SafeStates, PTL

\* A request that gives up has missed at most the answers of its last sleep.
THEOREM NoStaleMissCorrect == Spec => NoStaleMiss
<1>1. SafeInv /\ [Next]_vars => [NotStale]_serverVars
  BY SafeSleep
<1> QED
  BY <1>1, SafeCorrect, PTL DEF Spec, NoStaleMiss, NotStale
=============================================================================
