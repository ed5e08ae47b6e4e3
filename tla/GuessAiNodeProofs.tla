------------------------- MODULE GuessAiNodeProofs -------------------------
(***************************************************************************)
(* Theorems about the node, for every page size, every set of requests and *)
(* guesses and every clock: its engine is the engine of Engine and keeps   *)
(* what was proved of it, its tasks are those of Service and keep what was *)
(* proved of them, and what the two say together of money, answers and the *)
(* end of the process.                                                     *)
(***************************************************************************)
EXTENDS GuessAiNode, EnginePayoutProofs

\* What was proved of Service, of the node's variables.
SP == INSTANCE ServiceProofs WITH answers <- verdicts, pc <- rpc

\* The invariants of the engine, all of them.
EngineInv ==
    /\ IInv /\ KeyInv /\ RegInv /\ FileInv /\ ExitInv /\ PayoutInv /\ AInv
    /\ PaidInv /\ NothingSkipped

\* main is at its start as long as GuessAiEngine::new runs. The engine's task
\* runs as long as the engine does then, has received what was sent, and returns
\* the way the engine exited.
TaskInv ==
    /\ main # "notStarted" => boot > 0
    /\ main = "starting" <=> pc # "down" /\ caller = "new"
    /\ S!Runs("engine") => pc # "down" /\ shutdown = sent
    /\ ~S!Runs("engine") /\ main # "starting" => pc = "down"
    /\ main = "starting" => ~shutdown
    /\ pc # "down" /\ caller = "shutdown" => shutdown
    /\ task["engine"] = "ok" => boot > 0 /\ exits[boot] = "ok"

\* The server reads what the engine recorded.
AnswerInv ==
    /\ verdicts = Shared(answers)
    /\ age = [g \in DOMAIN verdicts |-> age[g]]

\* The guess of a key lies behind the loop, and behind the cursor in the file.
Behind(k) ==
    \E e \in DOMAIN events :
        /\ IsGuess(e) /\ AnswerKey(events[e]) = k
        /\ e <= pos /\ (cursorFile # Torn => e <= cursorFile)

\* What is paid is a guess. One that this process judged was not paid by an
\* earlier one that ended well, and one that ended well has gone past every guess
\* it judged.
JudgedInv ==
    /\ \A i \in DOMAIN payouts : IsGuess(payouts[i].event)
    /\ \A i \in DOMAIN payouts :
          AnswerKey(events[payouts[i].event]) \in DOMAIN answers /\ payouts[i].boot < boot =>
              exits[payouts[i].boot] # "ok"
    /\ pc = "down" /\ boot > 0 /\ exits[boot] = "ok" =>
          \A k \in DOMAIN answers : Behind(k)

\* What a player was told is what this process recorded, or what an earlier one
\* told, which has gone past the guess if it ended well.
ToldInv ==
    /\ \A w \in toldWrong :
          /\ w.boot \in 1 .. boot
          /\ w.boot = boot => w.guess \in DOMAIN answers /\ ~answers[w.guess]
          /\ w.boot <= Len(exits) /\ exits[w.boot] = "ok" => Behind(w.guess)
    /\ ToldAsPaid

NodeInv == EngineInv /\ JudgedInv /\ SP!SafeInv /\ TaskInv /\ AnswerInv /\ ToldInv

-----------------------------------------------------------------------------
\* The node's Service and that of its theorems are one.
LEMMA SameInit == S!Init <=> SP!Init
  BY DEF S!Init, SP!Init, S!ServerInit, SP!ServerInit, S!Tasks, SP!Tasks,
         S!NoAnswers, SP!NoAnswers, S!NoAges, SP!NoAges

LEMMA SameTasks ==
    /\ S!EngineTask <=> SP!EngineTask
    /\ S!ServerTask <=> SP!ServerTask
    /\ S!CtrlC <=> SP!CtrlC
    /\ S!CtrlCReturns <=> SP!CtrlCReturns
    /\ S!Time <=> SP!Time
BY DEF S!EngineTask, S!EngineStops, S!EngineFails, S!EnginePanics, S!ServerTask,
       S!ServerBinds, S!ServerDrains, S!ServerReturns, S!CtrlC, S!CtrlCReturns,
       S!Time, S!Runs, S!Up, S!Returns, S!Fails, S!Send, S!Receivers,
       S!Tasks, S!Bind, S!Drain, S!Close, S!Tick, S!InFlight, S!Due,
       S!MaxAge, S!serverVars, S!requestVars, S!taskVars,
       SP!EngineTask, SP!EngineStops, SP!EngineFails, SP!EnginePanics,
       SP!ServerTask, SP!ServerBinds, SP!ServerDrains, SP!ServerReturns,
       SP!CtrlC, SP!CtrlCReturns, SP!Time, SP!Runs, SP!Up, SP!Returns,
       SP!Fails, SP!Send, SP!Receivers, SP!Tasks, SP!Bind, SP!Drain,
       SP!Close, SP!Tick, SP!InFlight, SP!Due, SP!MaxAge,
       SP!serverVars, SP!requestVars, SP!taskVars

LEMMA SameProcess == S!Process <=> SP!Process
BY DEF S!Process, S!Start, S!StartFails, S!Spawn, S!MainReturns, S!Killed,
       S!Alive, S!Up, S!Joined, S!Failed, S!DropRequests, S!InFlight, S!Tasks,
       S!NoAnswers, S!NoAges, S!serverVars, S!requestVars,
       SP!Process, SP!Start, SP!StartFails, SP!Spawn, SP!MainReturns,
       SP!Killed, SP!Alive, SP!Up, SP!Joined, SP!Failed, SP!DropRequests,
       SP!InFlight, SP!Tasks, SP!NoAnswers, SP!NoAges, SP!serverVars,
       SP!requestVars

LEMMA SameRequests ==
    /\ \A g, verdict : S!EngineRecords(g, verdict) <=> SP!EngineRecords(g, verdict)
    /\ \A r : S!Client(r) <=> SP!Client(r)
    /\ \A r : S!Handle(r) <=> SP!Handle(r)
BY DEF S!EngineRecords, S!Record, S!Client, S!Arrive, S!Disconnect, S!Handle,
       S!Handler, S!Poll, S!Wake, S!TimedOut, S!Respond, S!Runs, S!Up,
       S!InFlight, S!requestVars, S!taskVars,
       SP!EngineRecords, SP!Record, SP!Client, SP!Arrive, SP!Disconnect,
       SP!Handle, SP!Handler, SP!Poll, SP!Wake, SP!TimedOut, SP!Respond,
       SP!Runs, SP!Up, SP!InFlight, SP!requestVars, SP!taskVars

LEMMA SameNext == [S!Next]_(S!vars) <=> [SP!Next]_(SP!vars)
BY SameTasks, SameProcess, SameRequests
   DEF S!Next, SP!Next, S!Verdicts, SP!Verdicts, S!vars, SP!vars,
       S!serverVars, SP!serverVars, S!requestVars, SP!requestVars, S!taskVars,
       SP!taskVars

\* The types of the service's variables, and what it promises of them.
LEMMA SameStates ==
    /\ S!TypeOK <=> SP!TypeOK
    /\ S!RequestsServed <=> SP!RequestsServed
    /\ S!CleanExitAsked <=> SP!CleanExitAsked
    /\ S!CauseKept <=> SP!CauseKept
    /\ S!EndIsTold <=> SP!EndIsTold
    /\ S!GivesUpAfterTimeout <=> SP!GivesUpAfterTimeout
    /\ S!AnsweredInTime <=> SP!AnsweredInTime
BY DEF S!TypeOK, S!ServerTypeOK, S!RequestsServed, S!CleanExitAsked, S!CauseKept,
       S!EndIsTold, S!GivesUpAfterTimeout, S!GaveUp, S!AnsweredInTime, S!Verdicts,
       S!MaxAge, S!InFlight, S!Tasks, S!Returned, S!Failed,
       SP!TypeOK, SP!ServerTypeOK, SP!RequestsServed, SP!CleanExitAsked,
       SP!CauseKept, SP!EndIsTold, SP!GivesUpAfterTimeout, SP!GaveUp,
       SP!AnsweredInTime, SP!Verdicts, SP!MaxAge, SP!InFlight, SP!Tasks,
       SP!Returned, SP!Failed

-----------------------------------------------------------------------------
(***************************************************************************)
(* The node's engine is that of Engine.                                    *)
(***************************************************************************)
\* What the engine does in the node, a shutdown it receives and the contract's
\* events are steps of Engine; no other step of the node touches its variables.
LEMMA NodeIsEngine == [NodeNext]_nodeVars => [Next]_vars
BY DEF NodeNext, NodeStart, NewRuns, EngineRuns, TaskRuns, Receives, Handles,
       Plays, Time, Publish, NodeKill, NodeRetired, nodeVars, Next, Environment

\* The invariants of the engine are inductive together.
LEMMA EngineInvStep == EngineInv /\ [Next]_vars => EngineInv'
<1> SUFFICES ASSUME EngineInv, [Next]_vars
             PROVE  EngineInv'
  OBVIOUS
<1>1. /\ IInv /\ KeyInv /\ RegInv /\ FileInv /\ ExitInv /\ PayoutInv /\ AInv
      /\ PaidInv /\ NothingSkipped
  BY DEF EngineInv
<1>2. IInv' /\ KeyInv' /\ RegInv' /\ FileInv'
  BY <1>1, IInvStep, KeyStep, RegStep, FileStep
<1>3. ExitInv'
  BY <1>1, ExitStep
<1>4. PayoutInv'
  BY <1>1, <1>3, PayoutStep
<1>5. AInv' /\ PaidInv'
  BY <1>1, AInvStep, PaidStep
<1>6. NothingSkipped'
  BY <1>1, SkipNothingStep
<1> QED
  BY <1>2, <1>3, <1>4, <1>5, <1>6 DEF EngineInv

\* Before the first process nothing was handled, recorded or paid.
LEMMA EngineInvInit == Init => EngineInv
<1> SUFFICES ASSUME Init
             PROVE  EngineInv
  OBVIOUS
<1>1. KeyInv /\ RegInv /\ FileInv /\ ExitInv
  BY DEF Init, KeyInv, RegInv, FileInv, Running, ExitInv, GracefulStop
<1>2. PayoutInv /\ PaidInv
  BY DEF Init, PayoutInv, PaidHere, PaidEarlier, PaidAgainOnlyAfterCrash,
         PaidInv, PaidGuessAnsweredRight
<1>3. AInv
  BY DEF Init, AInv, LogInv, GuessInv, NoAnswers
<1>4. NothingSkipped
  BY DEF Init, NothingSkipped, Stream!NothingSkipped
<1> QED
  BY <1>1, <1>2, <1>3, <1>4, IInvInit DEF EngineInv

-----------------------------------------------------------------------------
(***************************************************************************)
(* The node implements Service.                                            *)
(***************************************************************************)
\* Who called the routine the engine is in: new until it has its first secret,
\* and whoever stops the loop was told to.
LEMMA CallerStep ==
    ASSUME IInv, EngineStep
    PROVE  /\ caller # "new" => caller' # "new"
           /\ caller = "new" => UNCHANGED answers
           /\ caller' = "shutdown" => caller = "shutdown" \/ shutdown
<1>1. CASE GenerateSecret
  BY <1>1
     DEF GenerateSecret, SubmitKey, FirstSecret, NextSecret, RotatedSecret,
         GenerateErr, gameVars, IInv, LoopInv
<1>2. CASE HandleEvent
  BY <1>2
     DEF HandleEvent, DispatchGuess, DispatchRotate, DispatchOther, RightGuess,
         WrongGuess, CheckHint, Withdraw, Hint, HandlerErr, EmptyChoices,
         TransactionPanics, gameVars, IInv, LoopInv
<1>3. CASE Run
  BY <1>3
     DEF Run, ReadCursor, ReadCursorFails, FetchPage, QueryFails, PageDone,
         StopOnSignal, TruncateFile, WriteFile, WriteFails, vars, gameVars,
         IInv, LoopInv
<1> QED
  BY <1>1, <1>2, <1>3 DEF EngineStep

\* What the engine's task does to the answers: nothing, or it records one that
\* was not there, and goes on.
LEMMA EngineAnswers ==
    ASSUME IInv, AInv, EngineStep
    PROVE  \/ UNCHANGED answers
           \/ /\ pc' # "down"
              /\ \E verdict \in BOOLEAN : RecordAnswer(verdict)
              /\ AnswerKey(Event) \notin DOMAIN answers
<1>1. pc # "down" /\ [Next]_vars
  BY StepOrExit DEF Next
<1>2. CASE pc = "checkGuess" /\ \E verdict \in BOOLEAN : RecordAnswer(verdict)
  <2>1. AnswerKey(Event) \notin DOMAIN answers
    BY <1>2, NotAnsweredYet
  <2>2. CASE RightGuess \/ WrongGuess
    BY <1>2, <2>1, <2>2 DEF RightGuess, WrongGuess
  <2>3. CASE HandlerErr \/ EmptyChoices
    BY <2>3 DEF HandlerErr, EmptyChoices, gameVars
  <2> QED
    BY <1>2, <2>2, <2>3
       DEF EngineStep, GenerateSecret, HandleEvent, Run, SubmitKey, FirstSecret,
           NextSecret, RotatedSecret, GenerateErr, DispatchGuess,
           DispatchRotate, DispatchOther, CheckHint, Withdraw, Hint,
           TransactionPanics, ReadCursor, ReadCursorFails, FetchPage,
           QueryFails, PageDone, StopOnSignal, TruncateFile, WriteFile, WriteFails
<1> QED
  BY <1>1, <1>2, AnswersChange

\* The engine returns without an error only when it was told to.
LEMMA EngineExits ==
    ASSUME IInv, ExitInv, TaskInv, EngineStep, pc' = "down"
    PROVE  /\ exits'[boot] = "ok" => shutdown
           /\ UNCHANGED <<boot, shutdown>> /\ boot > 0
<1>1. pc # "down" /\ UNCHANGED <<boot, shutdown>> /\ boot > 0
  BY StepOrExit DEF process, ExitInv
<1>2. CASE Exit("error") \/ Exit("panic")
  BY <1>1, <1>2, ExitAppends
<1>3. CASE Exit("ok") /\ (StopOnSignal \/ WriteFile)
  BY <1>1, <1>3 DEF StopOnSignal, WriteFile, Exit, TaskInv
<1> QED
  BY <1>1, <1>2, <1>3, StepOrExit

\* The server sees an answer that is recorded, if players ask about its guess.
LEMMA SharedRecord ==
    ASSUME NEW verdict \in BOOLEAN, RecordAnswer(verdict)
    PROVE  Shared(answers') =
               IF AnswerKey(Event) \in Guesses
               THEN [g \in DOMAIN Shared(answers) \cup {AnswerKey(Event)} |->
                        IF g = AnswerKey(Event)
                        THEN IF verdict THEN "correct" ELSE "wrong"
                        ELSE Shared(answers)[g]]
               ELSE Shared(answers)
<1> DEFINE key == AnswerKey(Event)
<1>1. answers' = [k \in DOMAIN answers \cup {key} |->
                     IF k = key THEN verdict ELSE answers[k]]
  BY DEF RecordAnswer
<1> HIDE DEF key
<1>2. /\ DOMAIN answers' = DOMAIN answers \cup {key}
      /\ \A k \in DOMAIN answers' : answers'[k] = IF k = key THEN verdict ELSE answers[k]
  BY <1>1
<1>3. CASE key \in Guesses
  BY <1>2, <1>3 DEF Shared, key
<1>4. CASE key \notin Guesses
  BY <1>2, <1>4 DEF Shared, key
<1> QED
  BY <1>3, <1>4 DEF key

\* A step of the engine is a step of the task that Service takes it for.
LEMMA EngineRefines ==
    ASSUME NodeInv, EngineRuns
    PROVE  [S!Next]_(S!vars)
<1> USE DEF S!vars, S!serverVars, S!requestVars, S!taskVars
<1>1. /\ EngineStep /\ S!Runs("engine") /\ verdicts' = Shared(answers') /\ EngineReturns
      /\ age' = [g \in DOMAIN verdicts' |-> IF g \in DOMAIN age THEN age[g] ELSE 0]
      /\ UNCHANGED <<phase, rpc, guess, waited, since, reply, main, toldWrong>>
  BY DEF EngineRuns
<1>2. /\ verdicts = Shared(answers) /\ DOMAIN age = DOMAIN verdicts
      /\ age = [g \in DOMAIN verdicts |-> age[g]]
      /\ shutdown = sent
  BY <1>1 DEF NodeInv, AnswerInv, TaskInv
<1>0. IInv /\ ExitInv /\ AInv /\ TaskInv
  BY DEF NodeInv, EngineInv
<1>3. ASSUME UNCHANGED answers
      PROVE  UNCHANGED <<verdicts, age>>
  BY <1>1, <1>2, <1>3
<1>4. CASE pc' = "down"
  <2>1. UNCHANGED answers
    BY <1>0, <1>1, <1>4, EngineAnswers
  <2>2. exits'[boot] = "ok" => sent
    BY <1>0, <1>1, <1>2, <1>4, EngineExits
  <2>3. S!EngineTask
    <3>1. UNCHANGED <<verdicts, age>>
      BY <1>3, <2>1
    <3>2. CASE exits'[boot] = "ok" /\ S!Returns("engine", "ok") /\ UNCHANGED <<sent, cause>>
      BY <1>1, <2>2, <3>1, <3>2 DEF S!EngineTask, S!EngineStops
    <3>3. CASE exits'[boot] = "panic" /\ S!Returns("engine", "panic") /\ UNCHANGED <<sent, cause>>
      BY <1>1, <3>1, <3>3 DEF S!EngineTask, S!EnginePanics
    <3>4. CASE exits'[boot] = "error" /\ S!Fails("engine")
      BY <1>1, <3>1, <3>4 DEF S!EngineTask, S!EngineFails
    <3> QED
      BY <1>1, <1>4, <3>2, <3>3, <3>4 DEF EngineReturns
  <2> QED
    BY <2>3 DEF S!Next
<1>5. CASE pc' # "down" /\ UNCHANGED answers
  BY <1>1, <1>3, <1>5 DEF EngineReturns
<1>6. CASE pc' # "down" /\ ~UNCHANGED answers
  <2>1. PICK verdict \in BOOLEAN : RecordAnswer(verdict)
    BY <1>0, <1>1, <1>6, EngineAnswers
  <2>2. AnswerKey(Event) \notin DOMAIN answers
    BY <1>0, <1>1, <1>6, EngineAnswers
  <2>3. CASE AnswerKey(Event) \in Guesses
    <3> DEFINE key == AnswerKey(Event)
               what == IF verdict THEN "correct" ELSE "wrong"
    <3>1. key \notin DOMAIN verdicts
      BY <1>2, <2>2 DEF Shared
    <3>2. verdicts' = [h \in DOMAIN verdicts \cup {key} |->
                          IF h = key THEN what ELSE verdicts[h]]
      BY <1>1, <1>2, <2>1, <2>3, SharedRecord
    <3>3. age' = [h \in DOMAIN verdicts' |-> IF h = key THEN 0 ELSE age[h]]
      <4> HIDE DEF key, what
      <4> QED
        BY <1>1, <1>2, <3>1, <3>2
    <3>4. UNCHANGED <<task, sent, cause>>
      BY <1>1, <1>6 DEF EngineReturns
    <3>5. what \in S!Verdicts
      BY DEF S!Verdicts
    <3> HIDE DEF key, what
    <3>6. S!EngineRecords(key, what)
      BY <1>1, <3>1, <3>2, <3>3, <3>4 DEF S!EngineRecords, S!Record
    <3> QED
      BY <2>3, <3>5, <3>6 DEF S!Next, key
  <2>4. CASE AnswerKey(Event) \notin Guesses
    <3>1. verdicts' = verdicts
      BY <1>1, <1>2, <2>1, <2>4, SharedRecord
    <3>2. age' = age
      BY <1>1, <1>2, <3>1
    <3> QED
      BY <1>1, <1>6, <3>1, <3>2 DEF EngineReturns
  <2> QED
    BY <2>3, <2>4
<1> QED
  BY <1>4, <1>5, <1>6

\* Every step of the node is a step of Service, or none of its business.
LEMMA NodeIsService == NodeInv /\ [NodeNext]_nodeVars => [S!Next]_(S!vars)
<1> SUFFICES ASSUME NodeInv, [NodeNext]_nodeVars
             PROVE  [S!Next]_(S!vars)
  OBVIOUS
<1>1. CASE EngineRuns
  BY <1>1, EngineRefines
<1>2. CASE TaskRuns \/ Time
  BY <1>2 DEF TaskRuns, Time, S!Next, S!Process
<1>3. CASE \E r \in Requests : Handles(r) \/ Plays(r)
  BY <1>3 DEF Handles, Plays, S!Next
<1>4. CASE NodeStart \/ NodeKill
  BY <1>4 DEF NodeStart, NodeKill, S!Next, S!Process
<1>5. CASE NewRuns
  BY <1>5 DEF NewRuns, serverVars, taskVars, S!Next, S!Process, S!vars,
              S!serverVars, S!requestVars, S!taskVars
<1>6. CASE Publish \/ NodeRetired \/ UNCHANGED nodeVars
  BY <1>6 DEF Publish, NodeRetired, nodeVars, serverVars, taskVars, S!vars,
              S!serverVars, S!requestVars, S!taskVars
<1> QED
  BY <1>1, <1>2, <1>3, <1>4, <1>5, <1>6 DEF NodeNext

-----------------------------------------------------------------------------
(***************************************************************************)
(* The node's parts go together.                                           *)
(***************************************************************************)
\* What the tasks other than the engine's, and main, do to it, to the channel and
\* to the answers; main waits for the engine's task.
LEMMA OtherTasks ==
    ASSUME SP!SafeInv, S!ServerTask \/ S!CtrlC \/ S!CtrlCReturns \/ S!MainReturns
    PROVE  /\ S!Up /\ task'["engine"] = task["engine"]
           /\ UNCHANGED sent \/ sent' = TRUE
           /\ UNCHANGED main \/ (main' # "starting" /\ task["engine"] # "running")
           /\ UNCHANGED <<verdicts, age, guess, reply>>
<1>1. /\ task \in [S!Tasks -> {"running", "ok", "err", "masked", "panic"}]
      /\ task["server"] # "panic" /\ task["ctrl_c"] # "panic"
  BY DEF SP!SafeInv, SP!SInv, SP!Shape, SP!RequestInv, SP!Tasks, S!Tasks
<1>2. CASE S!ServerBinds
  BY <1>1, <1>2 DEF S!ServerBinds, S!Bind, S!Runs, S!Fails, S!Send, S!Returns,
                    S!Tasks, S!requestVars
<1>3. CASE S!ServerDrains
  BY <1>3 DEF S!ServerDrains, S!Drain, S!Runs, S!taskVars, S!requestVars
<1>4. CASE S!ServerReturns \/ S!CtrlC \/ S!CtrlCReturns
  BY <1>1, <1>4 DEF S!ServerReturns, S!Close, S!CtrlC, S!CtrlCReturns, S!Send,
                    S!Runs, S!Returns, S!Tasks, S!serverVars, S!requestVars
<1>5. CASE S!MainReturns
  BY <1>1, <1>5 DEF S!MainReturns, S!DropRequests, S!Joined, S!Tasks
<1> QED
  BY <1>2, <1>3, <1>4, <1>5 DEF S!ServerTask

\* The engine and what main and the engine's task wait for go together.
LEMMA TaskStep == NodeInv /\ [NodeNext]_nodeVars => TaskInv'
<1> SUFFICES ASSUME NodeInv, [NodeNext]_nodeVars
             PROVE  TaskInv'
  OBVIOUS
<1>1. IInv /\ ExitInv /\ SP!SafeInv /\ TaskInv
  BY DEF NodeInv, EngineInv
<1>2. /\ task \in [S!Tasks -> {"running", "ok", "err", "masked", "panic"}]
      /\ main = "starting" => ~sent /\ \A t \in S!Tasks : task[t] = "running"
  BY <1>1 DEF SP!SafeInv, SP!SInv, SP!Shape, SP!ShutdownInv, SP!Tasks, S!Tasks
<1>3. CASE NodeStart
  <2>1. boot' > 0
    BY <1>1, <1>3 DEF NodeStart, Start, IInv, TypeOK, ProcessTypeOK
  <2> QED
    BY <1>3, <2>1 DEF NodeStart, Start, S!Start, S!Tasks, TaskInv, S!Runs, S!Up
<1>4. CASE NewRuns
  <2>1. /\ EngineStep /\ main = "starting" /\ UNCHANGED <<boot, shutdown>>
        /\ caller' = "shutdown" => caller = "shutdown" \/ shutdown
    BY <1>1, <1>4, StepOrExit, CallerStep DEF NewRuns, process
  <2>2. /\ caller = "new" /\ ~shutdown /\ ~sent /\ task["engine"] = "running"
        /\ caller' # "shutdown" /\ boot > 0
    BY <1>1, <1>2, <2>1 DEF TaskInv, S!Tasks
  <2>3. CASE pc' = "down"
    BY <1>4, <2>1, <2>2, <2>3 DEF NewRuns, S!StartFails, TaskInv, S!Runs, S!Up
  <2>4. CASE pc' # "down" /\ caller' = "new"
    BY <1>4, <2>1, <2>2, <2>4 DEF NewRuns, taskVars, TaskInv, S!Runs, S!Up
  <2>5. CASE pc' # "down" /\ caller' # "new"
    <3>1. shutdown = sent
      BY <1>1, <2>2 DEF SP!SafeInv, SP!SentType, IInv, TypeOK, ProcessTypeOK
    <3> QED
      BY <1>4, <2>1, <2>2, <2>5, <3>1 DEF NewRuns, S!Spawn, TaskInv, S!Runs, S!Up
  <2> QED
    BY <2>3, <2>4, <2>5
<1>5. CASE EngineRuns
  <2>1. /\ EngineStep /\ S!Runs("engine") /\ EngineReturns /\ UNCHANGED main
        /\ UNCHANGED <<boot, shutdown>> /\ pc # "down" /\ main = "joining"
        /\ caller' = "shutdown" => caller = "shutdown" \/ shutdown
    BY <1>1, <1>5, StepOrExit, CallerStep DEF EngineRuns, process, S!Runs, S!Up
  <2>2. caller' # "new"
    BY <1>1, <2>1, CallerStep DEF TaskInv
  <2>3. CASE pc' # "down"
    BY <1>1, <2>1, <2>2, <2>3 DEF EngineReturns, TaskInv, S!Runs, S!Up
  <2>4. CASE pc' = "down"
    <3>1. task'["engine"] # "running" /\ (task'["engine"] = "ok" => exits'[boot] = "ok")
      BY <1>2, <2>1, <2>4 DEF EngineReturns, S!Returns, S!Fails, S!Tasks
    <3>2. boot > 0
      BY <1>1, <2>1 DEF ExitInv
    <3> QED
      BY <2>1, <2>4, <3>1, <3>2 DEF TaskInv, S!Runs
  <2> QED
    BY <2>3, <2>4
<1>6. CASE TaskRuns
  <2>1. /\ S!Up /\ task'["engine"] = task["engine"]
        /\ UNCHANGED sent \/ sent' = TRUE
        /\ UNCHANGED main \/ (main' # "starting" /\ task["engine"] # "running")
        /\ Receives
    BY <1>1, <1>6, OtherTasks DEF TaskRuns
  <2>2. UNCHANGED <<pc, caller, boot, exits>> /\ main # "starting"
    BY <2>1 DEF Receives, RequestShutdown, vars, process, S!Up
  <2>3. pc # "down" /\ caller = "shutdown" => shutdown'
    BY <1>1, <2>1 DEF TaskInv, Receives, RequestShutdown, vars, process
  <2>4. S!Runs("engine") => shutdown' = sent'
    <3> SUFFICES ASSUME S!Runs("engine")
                 PROVE  shutdown' = sent'
      OBVIOUS
    <3>1. pc # "down" /\ shutdown = sent
      BY <1>1 DEF TaskInv
    <3>2. CASE sent' # sent
      BY <2>1, <3>1, <3>2 DEF Receives, RequestShutdown
    <3>3. CASE sent' = sent
      BY <2>1, <3>1, <3>3 DEF Receives, vars, process
    <3> QED
      BY <3>2, <3>3
  <2> QED
    BY <1>1, <2>1, <2>2, <2>3, <2>4 DEF TaskInv, S!Runs, S!Up
<1>7. CASE NodeKill
  <2>1. main' = "killed" /\ UNCHANGED <<task, sent>> /\ S!Alive
    BY <1>7 DEF NodeKill, S!Killed, S!DropRequests
  <2>2. pc' = "down" /\ UNCHANGED <<boot, shutdown>> /\ (pc = "down" => UNCHANGED exits)
    BY <1>7 DEF NodeKill, Kill, Exit, vars, process
  <2>3. boot > 0 /\ (pc # "down" => task["engine"] = "running")
    BY <1>1, <1>2, <2>1 DEF TaskInv, S!Runs, S!Alive, S!Tasks
  <2> QED
    BY <1>1, <2>1, <2>2, <2>3 DEF TaskInv, S!Runs, S!Up
<1>8. CASE UNCHANGED <<pc, caller, boot, exits, shutdown, task, sent, main>>
  BY <1>1, <1>8 DEF TaskInv, S!Runs, S!Up
<1> QED
  BY <1>3, <1>4, <1>5, <1>6, <1>7, <1>8
     DEF NodeNext, Time, Handles, Plays, Publish, PublishGuess, PublishOther,
         NodeRetired, S!Time, S!Client, S!Handle, S!taskVars, taskVars, process,
         nodeVars, vars

\* The server reads what the engine records.
LEMMA AnswerStep == NodeInv /\ [NodeNext]_nodeVars => AnswerInv'
<1> SUFFICES ASSUME NodeInv, [NodeNext]_nodeVars
             PROVE  AnswerInv'
  OBVIOUS
<1>1. /\ verdicts = Shared(answers)
      /\ age = [g \in DOMAIN verdicts |-> age[g]]
  BY DEF NodeInv, AnswerInv
<1>2. IInv /\ SP!SafeInv /\ TaskInv
  BY DEF NodeInv, EngineInv
<1>3. CASE EngineRuns
  BY <1>3 DEF EngineRuns, AnswerInv, Shared
<1>4. ASSUME UNCHANGED <<answers, verdicts, age>>
      PROVE  AnswerInv'
  BY <1>1, <1>4 DEF AnswerInv, Shared
<1>5. CASE NodeStart
  <2>1. answers' = NoAnswers /\ verdicts' = S!NoAnswers /\ age' = S!NoAges
    BY <1>5 DEF NodeStart, Start, S!Start
  <2> QED
    BY <2>1 DEF AnswerInv, Shared, NoAnswers, S!NoAnswers, S!NoAges
<1>6. CASE NewRuns
  <2>1. UNCHANGED answers
    BY <1>2, <1>6, CallerStep DEF NewRuns, TaskInv
  <2>2. UNCHANGED <<verdicts, age>>
    BY <1>6 DEF NewRuns, S!StartFails, S!Spawn, S!serverVars, serverVars
  <2> QED
    BY <1>4, <2>1, <2>2
<1>7. CASE TaskRuns
  <2>1. UNCHANGED answers
    BY <1>7 DEF TaskRuns, Receives, RequestShutdown, vars, gameVars
  <2> QED
    BY <1>2, <1>4, <1>7, <2>1, OtherTasks DEF TaskRuns
<1>8. CASE Time
  <2>1. UNCHANGED <<answers, verdicts>> /\ DOMAIN age' = DOMAIN age
    BY <1>8 DEF Time, S!Time, S!Tick, vars, gameVars
  <2>2. age' = [g \in DOMAIN age |-> age'[g]]
    BY <1>8 DEF Time, S!Time, S!Tick
  <2>3. DOMAIN age = DOMAIN verdicts
    BY <1>1
  <2> QED
    BY <1>1, <2>1, <2>2, <2>3 DEF AnswerInv, Shared
<1>9. CASE \E r \in Requests : Handles(r) \/ Plays(r)
  BY <1>4, <1>9
     DEF Handles, Plays, S!Handle, S!Handler, S!Poll, S!Wake, S!Respond,
         S!Client, S!Arrive, S!Disconnect, vars, gameVars
<1>10. CASE NodeKill
  BY <1>4, <1>10 DEF NodeKill, S!Killed, S!DropRequests, Kill, vars, gameVars
<1>11. CASE Publish \/ NodeRetired \/ UNCHANGED nodeVars
  BY <1>4, <1>11 DEF Publish, PublishGuess, PublishOther, NodeRetired, nodeVars,
                     vars, gameVars, serverVars
<1> QED
  BY <1>3, <1>5, <1>6, <1>7, <1>8, <1>9, <1>10, <1>11 DEF NodeNext

-----------------------------------------------------------------------------
(***************************************************************************)
(* What one process tells a player and what another pays.                  *)
(***************************************************************************)
\* Only the start of a process changes its number.
LEMMA BootIsStart ==
    ASSUME IInv, [Next]_vars, boot' # boot
    PROVE  Start
<1>1. CASE EngineStep
  BY <1>1, StepOrExit DEF process
<1> QED
  BY <1>1 DEF Next, Environment, PublishGuess, PublishOther, RequestShutdown,
              Kill, Retired, process, vars

\* A process ends well at the stop of its loop or at the save that follows.
LEMMA GoodExit ==
    ASSUME IInv, ExitInv, [Next]_vars, pc # "down", pc' = "down",
           boot' > 0, exits'[boot'] = "ok"
    PROVE  StopOnSignal \/ WriteFile
<1>1. UNCHANGED boot
  BY BootIsStart DEF Start
<1>2. ASSUME NEW why \in {"error", "panic", "killed"}, Exit(why)
      PROVE  FALSE
  BY <1>1, <1>2, ExitAppends
<1>3. EngineStep
  BY <1>2 DEF Kill, Next, Environment, PublishGuess, PublishOther,
              RequestShutdown, Start, Retired, vars
<1> QED
  BY <1>2, <1>3, StepOrExit

\* Neither the loop nor the file moves back past the file.
LEMMA BehindStays ==
    ASSUME IInv, [Next]_vars, NEW k, Behind(k)
    PROVE  Behind(k)'
<1>1. PICK e \in DOMAIN events :
         /\ IsGuess(e) /\ AnswerKey(events[e]) = k
         /\ e <= pos /\ (cursorFile # Torn => e <= cursorFile)
  BY DEF Behind
<1>2. e \in DOMAIN events' /\ events'[e] = events[e]
  BY EventsKept DEF IInv
<1>3. e \in Nat /\ pos \in Nat
  BY EventType DEF IInv, TypeOK, LoopTypeOK, ChainTypeOK
<1>4. e <= pos' /\ (cursorFile' # Torn => e <= cursorFile')
  BY <1>1, <1>3, StreamStep
     DEF Stream!Next, Stream!vars, Stream!Publish, Stream!Consume,
         Stream!Erase, Stream!Save, Stream!Recover
<1> QED
  BY <1>1, <1>2, <1>4 DEF Behind, IsGuess

\* A guess is judged anew only after a process that did not end well, and a
\* process stops well behind what it judged.
LEMMA JudgedStep == EngineInv /\ EngineInv' /\ JudgedInv /\ [Next]_vars => JudgedInv'
<1> SUFFICES ASSUME EngineInv, EngineInv', JudgedInv, [Next]_vars
             PROVE  JudgedInv'
  OBVIOUS
<1>1. /\ IInv /\ ExitInv /\ PayoutInv /\ AInv /\ PaidInv /\ ExitInv'
      /\ boot \in Nat /\ pos \in Nat
  BY DEF EngineInv, IInv, TypeOK, ProcessTypeOK, LoopTypeOK, ChainTypeOK
<1>2. ASSUME NEW i \in DOMAIN payouts'
      PROVE  events'[payouts'[i].event].kind = "guess"
  <2>1. CASE i \in DOMAIN payouts /\ payouts'[i] = payouts[i]
    BY <1>1, <2>1, EventsKept DEF PaidInv, IInv, JudgedInv, IsGuess
  <2>2. CASE pc = "withdraw" /\ payouts'[i].event = Current
    BY <1>1, <2>2, CurrentInLog, EventsKept DEF IInv, LoopInv, AInv, GuessInv, IsGuess
  <2> QED
    BY <1>1, <1>2, <2>1, <2>2, PayoutsGrow
<1>3. ASSUME NEW i \in DOMAIN payouts', payouts'[i].boot < boot',
             AnswerKey(events'[payouts'[i].event]) \in DOMAIN answers'
      PROVE  exits'[payouts'[i].boot] # "ok"
  <2>1. UNCHANGED boot
    <3>1. CASE Start
      BY <1>3, <3>1 DEF Start, NoAnswers
    <3> QED
      BY <1>1, <3>1, BootIsStart
  <2>2. i \in DOMAIN payouts /\ payouts'[i] = payouts[i]
    BY <1>1, <1>3, <2>1, PayoutsGrow
  <2>3. /\ payouts[i].event \in DOMAIN events
        /\ events'[payouts[i].event] = events[payouts[i].event]
        /\ payouts[i].boot \in 1 .. boot
    BY <1>1, <2>2, EventsKept DEF PaidInv, PayoutInv, IInv
  <2>4. /\ payouts[i].boot \in 1 .. Len(exits)
        /\ exits'[payouts[i].boot] = exits[payouts[i].boot]
    <3>1. payouts[i].boot \in 1 .. Len(exits)
      <4>1. Len(exits) = boot \/ Len(exits) = boot - 1
        BY <1>1 DEF ExitInv
      <4> QED
        BY <1>1, <1>3, <2>1, <2>2, <2>3, <4>1
    <3> QED
      BY <1>1, <3>1, ExitsStep
  <2>5. CASE AnswerKey(events[payouts[i].event]) \in DOMAIN answers
    BY <1>3, <2>1, <2>2, <2>4, <2>5 DEF JudgedInv
  <2>6. CASE AnswerKey(events[payouts[i].event]) \notin DOMAIN answers
    <3>1. pc = "checkGuess" /\ \E verdict \in BOOLEAN : RecordAnswer(verdict)
      BY <1>1, <1>3, <2>1, <2>2, <2>3, <2>6, AnswersChange, BootStep
    <3>2. AnswerKey(events[payouts[i].event]) = AnswerKey(Event)
      BY <1>3, <2>2, <2>3, <2>6, <3>1 DEF RecordAnswer
    <3>3. Current \in DOMAIN events /\ IsGuess(Current)
      BY <1>1, <3>1, CurrentInLog DEF IInv, LoopInv, AInv, GuessInv
    <3>4. payouts[i].event = Current
      BY <1>1, <2>2, <2>3, <3>2, <3>3 DEF JudgedInv, AInv, LogInv, Event
    <3>5. ~(payouts[i].event <= pos)
      BY <1>1, <3>4 DEF Current
    <3> QED
      BY <1>1, <2>2, <2>4, <3>5 DEF PayoutInv, PaidEarlier
  <2> QED
    BY <2>5, <2>6
<1>4. ASSUME pc' = "down", boot' > 0, exits'[boot'] = "ok", NEW k \in DOMAIN answers'
      PROVE  Behind(k)'
  <2>1. UNCHANGED boot
    BY <1>1, <1>4, BootIsStart DEF Start
  <2>2. CASE pc = "down"
    <3>1. UNCHANGED <<answers, exits>>
      BY <1>1, <2>1, <2>2, BootStep, ExitsStep
    <3> QED
      BY <1>1, <1>4, <2>1, <2>2, <3>1, BehindStays DEF JudgedInv
  <2>3. CASE pc # "down"
    <3>1. StopOnSignal \/ WriteFile
      BY <1>1, <1>4, <2>3, GoodExit
    <3>2. pc \in Early /\ UNCHANGED <<events, answers, pos>>
      BY <3>1 DEF StopOnSignal, WriteFile, Early, Loop, chainVars, loopVars, gameVars
    <3>3. PICK e \in DOMAIN events : IsGuess(e) /\ AnswerKey(events[e]) = k /\ Answered(e)
      BY <1>1, <1>4, <2>3, <3>2 DEF AInv, AnswersInv
    <3>4. e <= pos
      BY <3>2, <3>3 DEF Answered
    <3>5. pos' = cursor' /\ cursorFile' = cursor'
      BY <1>1, <1>4 DEF ExitInv, GracefulStop
    <3> QED
      BY <3>2, <3>3, <3>4, <3>5 DEF Behind, IsGuess
  <2> QED
    BY <2>2, <2>3
<1> QED
  BY <1>2, <1>3, <1>4 DEF JudgedInv, IsGuess

\* A step that tells nobody anything leaves what was told in agreement with what
\* was paid: the engine pays what it has judged right itself, and what an earlier
\* process told is not before it unless that one did not end well.
LEMMA ToldKept ==
    ASSUME EngineInv, JudgedInv, JudgedInv', EngineInv', ToldInv, [Next]_vars,
           UNCHANGED toldWrong
    PROVE  ToldInv'
<1>1. /\ IInv /\ ExitInv /\ PayoutInv /\ AInv /\ PaidInv /\ ExitInv'
      /\ boot \in Nat /\ pos \in Nat /\ Len(exits) \in Nat
  BY DEF EngineInv, IInv, TypeOK, ProcessTypeOK, LoopTypeOK, ChainTypeOK
<1>2. /\ boot' \in {boot, boot + 1}
      /\ \A b \in 1 .. Len(exits) : exits'[b] = exits[b]
      /\ Len(exits) = boot \/ Len(exits) = boot - 1
  BY <1>1, ExitsStep DEF ExitInv
<1>3. ASSUME NEW w \in toldWrong
      PROVE  /\ w.boot \in 1 .. boot /\ w.boot \in 1 .. boot'
             /\ w.boot = boot' => w.guess \in DOMAIN answers' /\ ~answers'[w.guess]
  <2>1. w.boot \in 1 .. boot /\ w.boot \in 1 .. boot'
    BY <1>1, <1>2, <1>3 DEF ToldInv
  <2>2. ASSUME w.boot = boot'
        PROVE  w.guess \in DOMAIN answers' /\ ~answers'[w.guess]
    <3>1. boot' = boot
      BY <1>1, <1>2, <2>1, <2>2
    <3>2. w.guess \in DOMAIN answers /\ ~answers[w.guess]
      BY <1>3, <2>2, <3>1 DEF ToldInv
    <3>3. CASE pc = "down"
      BY <1>1, <3>1, <3>2, <3>3, BootStep
    <3>4. CASE pc # "down"
      BY <1>1, <3>2, <3>4, AnswersKept
    <3> QED
      BY <3>3, <3>4
  <2> QED
    BY <2>1, <2>2
<1>4. ASSUME NEW w \in toldWrong, w.boot <= Len(exits'), exits'[w.boot] = "ok"
      PROVE  Behind(w.guess)'
  <2>1. CASE w.boot <= Len(exits)
    <3>1. exits[w.boot] = "ok"
      BY <1>1, <1>2, <1>3, <1>4, <2>1
    <3> QED
      BY <1>1, <1>4, <2>1, <3>1, BehindStays DEF ToldInv
  <2>2. CASE ~(w.boot <= Len(exits))
    <3>1. pc' = "down" /\ UNCHANGED boot /\ Len(exits') = boot
      BY <1>1, <1>4, <2>2, ExitsStep
    <3>2. w.boot = boot'
      BY <1>1, <1>2, <1>3, <1>4, <2>2, <3>1
    <3>3. boot' > 0 /\ w.guess \in DOMAIN answers'
      BY <1>1, <1>3, <1>4, <3>1, <3>2
    <3> QED
      BY <1>4, <3>1, <3>2, <3>3 DEF JudgedInv
  <2> QED
    BY <2>1, <2>2
<1>5. ASSUME NEW i \in DOMAIN payouts', NEW w \in toldWrong,
             w.guess = AnswerKey(events'[payouts'[i].event])
      PROVE  \/ payouts'[i].boot < w.boot /\ exits'[payouts'[i].boot] # "ok"
             \/ w.boot < payouts'[i].boot /\ exits'[w.boot] # "ok"
  <2>1. CASE i \in DOMAIN payouts /\ payouts'[i] = payouts[i]
    <3>1. events'[payouts[i].event] = events[payouts[i].event]
      BY <1>1, <2>1, EventsKept DEF PaidInv, IInv
    <3>2. \/ payouts[i].boot < w.boot /\ exits[payouts[i].boot] # "ok"
          \/ w.boot < payouts[i].boot /\ exits[w.boot] # "ok"
      BY <1>5, <2>1, <3>1 DEF ToldInv, ToldAsPaid
    <3>3. payouts[i].boot \in 1 .. boot /\ w.boot \in 1 .. boot
      BY <1>1, <1>3, <2>1 DEF PayoutInv
    <3>4. /\ payouts[i].boot < w.boot => payouts[i].boot \in 1 .. Len(exits)
          /\ w.boot < payouts[i].boot => w.boot \in 1 .. Len(exits)
      BY <1>1, <1>2, <3>3
    <3> QED
      BY <1>2, <2>1, <3>2, <3>4
  <2>2. CASE /\ pc = "withdraw" /\ UNCHANGED boot
             /\ payouts'[i].event = Current /\ payouts'[i].boot = boot
    <3>1. Current \in DOMAIN events /\ IsGuess(Current)
      BY <1>1, <2>2, CurrentInLog DEF IInv, LoopInv, AInv, GuessInv
    <3>2. w.guess = AnswerKey(Event)
      BY <1>1, <1>5, <2>2, <3>1, EventsKept DEF IInv, Event
    <3>3. w.boot # boot
      BY <1>1, <2>2, <3>2 DEF PaidInv, ToldInv
    <3>4. w.boot \in 1 .. Len(exits) /\ w.boot < boot
      BY <1>1, <1>2, <1>3, <3>3
    <3>5. exits[w.boot] # "ok"
      <4> SUFFICES ASSUME exits[w.boot] = "ok"
                   PROVE  FALSE
        OBVIOUS
      <4>1. PICK e \in DOMAIN events :
               IsGuess(e) /\ AnswerKey(events[e]) = w.guess /\ e <= pos
        BY <3>4 DEF ToldInv, Behind
      <4>2. e = Current
        BY <1>1, <3>1, <3>2, <4>1 DEF AInv, LogInv, Event
      <4> QED
        BY <1>1, <4>1, <4>2 DEF Current
    <3> QED
      BY <1>2, <2>2, <3>4, <3>5
  <2> QED
    BY <1>1, <1>5, <2>1, <2>2, PayoutsGrow
<1>6. ToldAsPaid'
  BY <1>5 DEF ToldAsPaid
<1> QED
  BY <1>3, <1>4, <1>6 DEF ToldInv

\* A player is told what the server reads, which this process judged: it has not
\* paid it, and an earlier process that has did not end well.
LEMMA ToldStep ==
    ASSUME NodeInv, NEW r \in Requests, Handles(r)
    PROVE  ToldInv'
<1>1. /\ IInv /\ ExitInv /\ PayoutInv /\ AInv /\ PaidInv /\ JudgedInv /\ ToldInv
      /\ boot \in Nat /\ UNCHANGED vars
  BY DEF Handles, NodeInv, EngineInv, IInv, TypeOK, ProcessTypeOK
<1>2. UNCHANGED <<boot, answers, exits, events, payouts, pos, cursorFile>>
  BY <1>1 DEF vars, process, gameVars, chainVars, loopVars
<1> DEFINE new == [guess |-> guess[r], boot |-> boot]
<1>3. ASSUME reply'[r] = "wrong"
      PROVE  guess[r] \in DOMAIN answers /\ ~answers[guess[r]]
  <2>1. /\ reply \in [Requests -> {"none", "noContent"} \cup SP!Verdicts]
        /\ \A q \in Requests : rpc[q] = "replied" <=> reply[q] # "none"
    BY DEF NodeInv, SP!SafeInv, SP!TInv, SP!Values
  <2>2. guess[r] \in DOMAIN verdicts /\ verdicts[guess[r]] = "wrong"
    BY <1>3, <2>1 DEF Handles, S!Handle, S!Handler, S!Poll, S!Wake, S!Respond
  <2> QED
    BY <2>2 DEF NodeInv, AnswerInv, Shared
<1>4. ASSUME reply'[r] = "wrong"
      PROVE  boot > 0
  BY <1>1, <1>2, <1>4 DEF Handles, S!Handle, S!Up, NodeInv, TaskInv
<1>5. toldWrong' = toldWrong \/ (toldWrong' = toldWrong \cup {new} /\ reply'[r] = "wrong")
  BY DEF Handles
<1>6. CASE toldWrong' = toldWrong
  BY <1>1, <1>2, <1>6 DEF ToldInv, ToldAsPaid, Behind, IsGuess
<1>7. CASE toldWrong' = toldWrong \cup {new} /\ reply'[r] = "wrong"
  <2>1. new.boot \in 1 .. boot
    BY <1>1, <1>4, <1>7
  <2>2. boot <= Len(exits) /\ exits[boot] = "ok" => Behind(guess[r])
    <3>1. boot <= Len(exits) => pc = "down"
      BY <1>1 DEF ExitInv
    <3> QED
      BY <1>1, <1>3, <1>4, <1>7, <3>1 DEF JudgedInv
  <2>3. ASSUME NEW i \in DOMAIN payouts, guess[r] = AnswerKey(events[payouts[i].event])
        PROVE  payouts[i].boot < boot /\ exits[payouts[i].boot] # "ok"
    <3>1. payouts[i].boot # boot
      BY <1>1, <1>3, <1>7, <2>3 DEF PaidInv, PaidGuessAnsweredRight
    <3>2. payouts[i].boot < boot
      BY <1>1, <3>1 DEF PayoutInv
    <3> QED
      BY <1>1, <1>3, <1>7, <2>3, <3>2 DEF JudgedInv
  <2>4. ToldAsPaid'
    <3> SUFFICES ASSUME NEW i \in DOMAIN payouts, NEW w \in toldWrong',
                        w.guess = AnswerKey(events[payouts[i].event])
                 PROVE  \/ payouts[i].boot < w.boot /\ exits[payouts[i].boot] # "ok"
                        \/ w.boot < payouts[i].boot /\ exits[w.boot] # "ok"
      BY <1>2 DEF ToldAsPaid
    <3>1. CASE w = new
      BY <2>3, <3>1
    <3>2. CASE w \in toldWrong
      BY <1>1, <3>2 DEF ToldInv, ToldAsPaid
    <3> QED
      BY <1>7, <3>1, <3>2
  <2>5. ASSUME NEW w \in toldWrong'
        PROVE  /\ w.boot \in 1 .. boot
               /\ w.boot = boot => w.guess \in DOMAIN answers /\ ~answers[w.guess]
               /\ w.boot <= Len(exits) /\ exits[w.boot] = "ok" => Behind(w.guess)
    <3>1. CASE w = new
      BY <1>3, <1>7, <2>1, <2>2, <3>1
    <3>2. CASE w \in toldWrong
      BY <1>1, <3>2 DEF ToldInv
    <3> QED
      BY <1>7, <2>5, <3>1, <3>2
  <2>6. \A k : Behind(k) => Behind(k)'
    BY <1>2 DEF Behind, IsGuess
  <2> HIDE DEF new
  <2> QED
    BY <1>2, <2>4, <2>5, <2>6 DEF ToldInv
<1> QED
  BY <1>5, <1>6, <1>7

-----------------------------------------------------------------------------
(***************************************************************************)
(* The invariant of the node.                                              *)
(***************************************************************************)
\* It holds before the first process.
LEMMA NodeInvInit == NodeInit => NodeInv
<1> SUFFICES ASSUME NodeInit
             PROVE  NodeInv
  OBVIOUS
<1>1. EngineInv
  BY EngineInvInit DEF NodeInit
<1>2. SP!SafeInv
  BY SameInit, SP!SafeInit, ClockAssumption DEF NodeInit
<1>3. JudgedInv /\ ToldInv
  BY DEF NodeInit, Init, JudgedInv, ToldInv, ToldAsPaid
<1>4. TaskInv
  BY DEF NodeInit, Init, S!Init, TaskInv, S!Runs, S!Up, S!Tasks
<1>5. AnswerInv
  <2>1. answers = NoAnswers /\ verdicts = S!NoAnswers /\ age = S!NoAges
    BY DEF NodeInit, Init, S!Init, S!ServerInit
  <2> QED
    BY <2>1 DEF AnswerInv, Shared, NoAnswers, S!NoAnswers, S!NoAges
<1> QED
  BY <1>1, <1>2, <1>3, <1>4, <1>5 DEF NodeInv

\* The invariant is inductive.
LEMMA NodeInvStep == NodeInv /\ [NodeNext]_nodeVars => NodeInv'
<1> SUFFICES ASSUME NodeInv, [NodeNext]_nodeVars
             PROVE  NodeInv'
  OBVIOUS
<1>1. [Next]_vars
  BY NodeIsEngine
<1>2. EngineInv'
  BY <1>1, EngineInvStep DEF NodeInv
<1>3. JudgedInv'
  BY <1>1, <1>2, JudgedStep DEF NodeInv
<1>4. SP!SafeInv'
  BY NodeIsService, SameNext, SP!SafeStep, ClockAssumption DEF NodeInv
<1>5. ToldInv'
  <2>1. CASE UNCHANGED toldWrong
    BY <1>1, <1>2, <1>3, <2>1, ToldKept DEF NodeInv
  <2>2. CASE \E r \in Requests : Handles(r)
    BY <2>2, ToldStep
  <2> QED
    BY <2>1, <2>2 DEF NodeNext, NodeStart, NewRuns, EngineRuns, TaskRuns, Plays,
                      Time, Publish, NodeKill, NodeRetired, nodeVars
<1> QED
  BY <1>2, <1>3, <1>4, <1>5, TaskStep, AnswerStep DEF NodeInv

\* The invariant holds throughout.
LEMMA NodeInvCorrect == NodeSpec => []NodeInv
  BY NodeInvInit, NodeInvStep, PTL DEF NodeSpec

-----------------------------------------------------------------------------
(***************************************************************************)
(* What the node promises.                                                 *)
(***************************************************************************)
\* The two halves of the node keep their types and agree about the engine's
\* task, the shutdown and the answers.
THEOREM NodeTypeCorrect == NodeSpec => []NodeTypeOK
<1>1. NodeInv => NodeTypeOK
  <2>1. SP!SafeInv => S!TypeOK
    BY SP!SafeStates, SameStates, ClockAssumption
  <2> QED
    BY <2>1 DEF NodeInv, EngineInv, IInv, TaskInv, AnswerInv, NodeTypeOK
<1> QED
  BY <1>1, NodeInvCorrect, PTL

\* A player whose guess was paid is told that it was wrong only by another
\* process than the one that paid, and only because the earlier of the two did
\* not end well: whatever the restarts, a process pays what it has judged right
\* itself and never judges what one that ended well has.
THEOREM ToldAsPaidCorrect == NodeSpec => []ToldAsPaid
<1>1. NodeInv => ToldAsPaid
  BY DEF NodeInv, ToldInv
<1> QED
  BY <1>1, NodeInvCorrect, PTL

\* A process that ends well was asked to, has saved the cursor of the last event
\* it handled, and has cut nobody off.
THEOREM CleanExitLosesNothingCorrect == NodeSpec => []CleanExitLosesNothing
<1>1. NodeInv => CleanExitLosesNothing
  <2> SUFFICES ASSUME NodeInv, main = "ok"
               PROVE  /\ cause = "ctrl_c" /\ pos = cursor /\ cursorFile = cursor
                      /\ \A r \in Requests : rpc[r] \notin {"poll", "sleep", "dropped"}
    BY DEF CleanExitLosesNothing
  <2>1. SP!CleanExitAsked /\ SP!RequestsServed
    BY SP!SafeStates, ClockAssumption DEF NodeInv
  <2>2. cause = "ctrl_c" /\ phase = "closed"
    BY <2>1 DEF SP!CleanExitAsked
  <2>3. task["engine"] = "ok" /\ SP!InFlight = {}
    BY <2>2 DEF NodeInv, SP!SafeInv, SP!SInv, SP!Shape, SP!ShutdownInv,
                SP!RequestInv, SP!Tasks, SP!Returned, SP!Joined, SP!Failed
  <2>4. \A r \in Requests : rpc[r] \notin {"poll", "sleep", "dropped"}
    BY <2>1, <2>3 DEF SP!InFlight, SP!RequestsServed
  <2>5. pc = "down" /\ exits[boot] = "ok" /\ boot > 0
    BY <2>3 DEF NodeInv, TaskInv, S!Runs
  <2>6. pos = cursor /\ cursorFile = cursor
    BY <2>5 DEF NodeInv, EngineInv, ExitInv, GracefulStop
  <2> QED
    BY <2>2, <2>4, <2>6
<1> QED
  BY <1>1, NodeInvCorrect, PTL

\* The node is a process as Service describes it, but for its fairness: the
\* engine records each answer once, fails, panics, or returns without an error
\* when it was told to stop, and does nothing else to the other tasks.
THEOREM NodeImplementsServiceSafety == NodeSpec => S!Init /\ [][S!Next]_(S!vars)
<1>1. NodeInit => S!Init
  BY DEF NodeInit
<1> QED
  BY <1>1, NodeIsService, NodeInvCorrect, PTL DEF NodeSpec

\* What was proved of the engine on its own holds of it among the other tasks.
THEOREM NodeKeepsEngine ==
    NodeSpec => /\ [](/\ NothingSkipped /\ GracefulStop /\ SecretUnderKey
                      /\ PaidAgainOnlyAfterCrash /\ PaidGuessAnsweredRight)
                /\ AnswersStable /\ SecretRegistered /\ SelectWithinPage
<1> DEFINE Kept == Running => \A k \in DOMAIN answers :
                       k \in DOMAIN answers' /\ answers'[k] = answers[k]
           Installs == secret' # secret /\ secret' # NoSecret => chainKey' = secret'.key
           Nearer == EngineStep => IF pc = "select" THEN StepsToSelect' <= 5 * Limit + 3
                                   ELSE StepsToSelect' < StepsToSelect
<1>1. NodeInv => /\ NothingSkipped /\ GracefulStop /\ SecretUnderKey
                 /\ PaidAgainOnlyAfterCrash /\ PaidGuessAnsweredRight
  BY DEF NodeInv, EngineInv, ExitInv, KeyInv, SecretUnderKey, Running, PayoutInv, PaidInv
<1>2. NodeInv /\ [NodeNext]_nodeVars => [Kept]_vars
  BY NodeIsEngine, AnswersKept DEF NodeInv, EngineInv, Running
<1>3. NodeInv /\ [NodeNext]_nodeVars => [Installs]_vars
  BY NodeIsEngine, SecretInstalled DEF NodeInv, EngineInv
<1>4. NodeInv /\ NodeInv' /\ [NodeNext]_nodeVars => [Nearer]_vars
  BY SelectStep DEF NodeInv, EngineInv
<1> QED
  BY <1>1, <1>2, <1>3, <1>4, NodeInvCorrect, PTL
     DEF NodeSpec, AnswersStable, SecretRegistered, SelectWithinPage

\* What was proved of the service with any engine holds with this one.
THEOREM NodeKeepsService ==
    NodeSpec => /\ [](/\ S!RequestsServed /\ S!CleanExitAsked /\ S!CauseKept
                      /\ S!EndIsTold /\ S!GivesUpAfterTimeout /\ S!AnsweredInTime)
                /\ S!NoStaleMiss
<1> DEFINE NotStale ==
        \A r \in Requests :
            rpc[r] = "sleep" /\ S!GaveUp(r)' /\ guess[r] \in DOMAIN verdicts =>
                age[guess[r]] <= PollTicks + MaxLate
<1>1. NodeInv => /\ S!RequestsServed /\ S!CleanExitAsked /\ S!CauseKept
                 /\ S!EndIsTold /\ S!GivesUpAfterTimeout /\ S!AnsweredInTime
  BY SP!SafeStates, SameStates, ClockAssumption DEF NodeInv
<1>2. NodeInv => NotStale
  BY SP!SafeSleep, ClockAssumption DEF NodeInv, SP!NotStale, SP!GaveUp, S!GaveUp
<1>3. NodeInv /\ [NodeNext]_nodeVars => [NotStale]_(S!serverVars)
  BY <1>2
<1> QED
  BY <1>1, <1>3, NodeInvCorrect, PTL DEF NodeSpec, S!NoStaleMiss
=============================================================================
