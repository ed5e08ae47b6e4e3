------------------------------ MODULE Service ------------------------------
(***************************************************************************)
(* The process: main starts the engine, the answer server and the ctrl-c   *)
(* task, joins them, and returns what became of them.  A shutdown is a     *)
(* value sent once on a watch channel; each task has a receiver of its     *)
(* own, made before any task runs, and none sees the value of another.     *)
(* A process that is gone, however it ended, may be started again.         *)
(*                                                                         *)
(* The engine is what Engine promises of it: it records answers, returns   *)
(* without an error only when it saw the shutdown, and may fail or panic   *)
(* at any time.                                                            *)
(***************************************************************************)
EXTENDS GuessServer

VARIABLES
    task,      \* how each task is doing
    sent,      \* the channel holds true
    cause,     \* history: the task that sent the shutdown first
    main       \* where main is, or how the process ended

taskVars == <<task, sent, cause, main>>
vars == <<serverVars, taskVars>>

Tasks == {"engine", "server", "ctrl_c"}

Up == main = "joining"
Alive == main \in {"starting", "joining"}
Runs(t) == Up /\ task[t] = "running"

\* Receivers of the channel that have not been dropped. A task owns its receiver
\* until it returns; the server's goes with the future that waits for it.
Receivers ==
    {t \in Tasks : task[t] = "running"
                       /\ (t = "server" => phase \in {"binding", "serving"})}

Init ==
    /\ ServerInit
    /\ task = [t \in Tasks |-> "running"]
    /\ sent = FALSE /\ cause = "none"
    /\ main = "notStarted"

-----------------------------------------------------------------------------
\* The operator starts the process, which reads its configuration and creates
\* the shutdown channel. It knows nothing of an earlier one.
Start ==
    /\ ~Alive
    /\ answers' = NoAnswers /\ age' = NoAges /\ phase' = "binding"
    /\ pc' = [r \in Requests |-> "none"]
    /\ guess' \in [Requests -> Guesses]
    /\ waited' = [r \in Requests |-> 0] /\ since' = [r \in Requests |-> 0]
    /\ reply' = [r \in Requests |-> "none"]
    /\ task' = [t \in Tasks |-> "running"]
    /\ sent' = FALSE /\ cause' = "none"
    /\ main' = "starting"

\* A configuration that cannot be used, or GuessAiEngine::new, ends it early.
StartFails(how) ==
    /\ main = "starting"
    /\ main' = how
    /\ UNCHANGED <<serverVars, task, sent, cause>>

\* GuessAiEngine::new has returned, and main spawns the three tasks.
Spawn ==
    /\ main = "starting"
    /\ main' = "joining"
    /\ UNCHANGED <<serverVars, task, sent, cause>>

Returns(t, how) == task' = [task EXCEPT ![t] = how]

Send(t) ==
    /\ sent' = TRUE
    /\ cause' = IF sent THEN cause ELSE t

\* Mutation of Fails: the shutdown is only sent by the ctrl-c task.
FailsQuietly(t) == Returns(t, "err") /\ UNCHANGED <<sent, cause>>
\* spawn_with_shutdown, for a future that returned an error and was dropped: the
\* shutdown is sent, and when nobody is left to receive it the error of send
\* takes the place of the task's own.
Fails(t) ==
    IF Receivers \ {t} = {}
    THEN Returns(t, "masked") /\ UNCHANGED <<sent, cause>>
    ELSE Returns(t, "err") /\ Send(t)

EngineStops ==
    /\ Runs("engine") /\ sent
    /\ Returns("engine", "ok")
    /\ UNCHANGED <<serverVars, sent, cause, main>>

EngineFails ==
    /\ Runs("engine")
    /\ Fails("engine")
    /\ UNCHANGED <<serverVars, main>>

EnginePanics ==
    /\ Runs("engine")
    /\ Returns("engine", "panic")
    /\ UNCHANGED <<serverVars, sent, cause, main>>

EngineRecords(g, verdict) ==
    /\ Runs("engine")
    /\ Record(g, verdict)
    /\ UNCHANGED taskVars

ServerBinds ==
    /\ Runs("server")
    /\ Bind
    /\ IF phase' = "failed" THEN Fails("server") ELSE UNCHANGED <<task, sent, cause>>
    /\ UNCHANGED main

ServerDrains ==
    /\ Runs("server") /\ sent
    /\ Drain
    /\ UNCHANGED taskVars

ServerReturns ==
    /\ Runs("server")
    /\ Close
    /\ Returns("server", "ok")
    /\ UNCHANGED <<sent, cause, main>>

\* The first branch of the ctrl-c task, taken when the operator presses ctrl-c
\* and when the signal handler cannot be installed: its result is not looked at.
CtrlC ==
    /\ Runs("ctrl_c")
    /\ Send("ctrl_c")
    /\ Returns("ctrl_c", "ok")
    /\ UNCHANGED <<serverVars, main>>

\* Its second: another task has sent the shutdown.
CtrlCReturns ==
    /\ Runs("ctrl_c") /\ sent
    /\ Returns("ctrl_c", "ok")
    /\ UNCHANGED <<serverVars, sent, cause, main>>

Client(r) ==
    /\ Up
    /\ Arrive(r) \/ Disconnect(r)
    /\ UNCHANGED taskVars

Handle(r) ==
    /\ Up
    /\ Handler(r)
    /\ UNCHANGED taskVars

Time ==
    /\ Up
    /\ Tick
    /\ UNCHANGED taskVars

Failed(t) == task[t] \in {"err", "masked"}
\* Mutation of Joined: main looks at the engine's result only.
JoinedEngine ==
    IF \E t \in Tasks : task[t] = "panic" THEN "panicked"
    ELSE IF Failed("engine") THEN "engineError" ELSE "ok"
\* Mutation of Joined: the server's result is looked at first.
JoinedServerFirst ==
    IF \E t \in Tasks : task[t] = "panic" THEN "panicked"
    ELSE IF Failed("server") THEN "serverError"
    ELSE IF Failed("engine") THEN "engineError" ELSE "ok"
\* try_join! is over at the first panic, otherwise when all have returned; then
\* handle_tasks_results returns the engine's error, if there is none the
\* server's, and logs no other.
Joined ==
    IF \E t \in Tasks : task[t] = "panic" THEN "panicked"
    ELSE IF Failed("engine") THEN "engineError"
    ELSE IF Failed("server") THEN "serverError" ELSE "ok"

\* What still runs is gone with the process.
DropRequests ==
    /\ pc' = [r \in Requests |-> IF r \in InFlight THEN "dropped" ELSE pc[r]]
    /\ UNCHANGED <<answers, age, phase, guess, waited, since, reply, task, sent, cause>>

MainReturns ==
    /\ Up
    /\ \/ \E t \in Tasks : task[t] = "panic"
       \/ \A t \in Tasks : task[t] # "running"
    /\ main' = Joined
    /\ DropRequests

\* The process is killed, or its machine goes down.
Killed ==
    /\ Alive
    /\ main' = "killed"
    /\ DropRequests

-----------------------------------------------------------------------------
EngineTask == EngineStops \/ EngineFails \/ EnginePanics
ServerTask == ServerBinds \/ ServerDrains \/ ServerReturns

Process ==
    \/ Start \/ Spawn \/ MainReturns \/ Killed
    \/ \E how \in {"startError", "panicked"} : StartFails(how)

Next ==
    \/ Process \/ EngineTask \/ ServerTask \/ CtrlC \/ CtrlCReturns \/ Time
    \/ \E g \in Guesses, verdict \in Verdicts : EngineRecords(g, verdict)
    \/ \E r \in Requests : Client(r) \/ Handle(r)

(***************************************************************************)
(* The runtime runs the tasks that are ready, time passes, and an engine   *)
(* that was told to stop does (ShutdownCompletes of Engine).  Nobody need  *)
(* press ctrl-c, kill the process or start it, and GuessAiEngine::new may  *)
(* wait for ever.                                                          *)
(***************************************************************************)
Fairness ==
    /\ WF_vars(sent /\ EngineTask) /\ WF_vars(ServerTask)
    /\ WF_vars(CtrlCReturns) /\ WF_vars(MainReturns) /\ WF_vars(Time)
    /\ \A r \in Requests : WF_vars(Handle(r))

Spec == Init /\ [][Next]_vars /\ Fairness

-----------------------------------------------------------------------------
Returned == {"ok", "engineError", "serverError"}

\* The values of the variables; main returns without an error only if no task
\* failed, and only once all have returned.
TypeOK ==
    /\ ServerTypeOK
    /\ task \in [Tasks -> {"running", "ok", "err", "masked", "panic"}]
    /\ sent \in BOOLEAN /\ cause \in Tasks \cup {"none"}
    /\ main \in {"notStarted", "starting", "startError", "joining", "panicked", "killed"}
                  \cup Returned
    /\ main = "ok" => \A t \in Tasks : task[t] = "ok"

\* Unless the engine panics or the process is killed, every request that has
\* arrived is served before the process ends, whichever task failed and whoever
\* asked for the shutdown.
RequestsServed ==
    (\E r \in Requests : pc[r] = "dropped") => main \in {"panicked", "killed"}

\* The process ends well only after its ctrl-c task has sent the shutdown: no
\* failure of another task, in whatever order they are stopped, passes for a
\* clean exit.
CleanExitAsked == main = "ok" => cause = "ctrl_c" /\ phase = "closed"

\* Which failure is reported. The error of a task is replaced by that of the
\* channel only in a shutdown that another task started. If the engine started
\* it by failing, main returns the engine's own error; if the server did, main
\* returns the server's, unless the engine has failed as well since, whose error
\* or whose failure to send then hides it.
CauseKept ==
    /\ \A t \in Tasks : task[t] = "masked" => cause \notin {"none", t}
    /\ main \in Returned /\ cause = "engine" =>
           main = "engineError" /\ task["engine"] = "err"
    /\ main \in Returned /\ cause = "server" =>
           /\ task["server"] = "err"
           /\ main # "ok"
           /\ main = "engineError" => Failed("engine")

\* Once a task has returned, because it failed or because it was stopped, the
\* shutdown is on the channel: no task goes on running beside one that is gone
\* without being told, not even if the two fail together.
EndIsTold == (\E t \in Tasks : task[t] \in {"ok", "err", "masked"}) => sent

\* The failure of one task ends the process: no task is left waiting for a
\* shutdown that never comes.
FailureEndsProcess ==
    (\E t \in Tasks : task[t] \in {"err", "masked", "panic"}) ~> ~Up

\* So does ctrl-c, requests in flight notwithstanding.
CtrlCEndsProcess == cause = "ctrl_c" ~> ~Up
=============================================================================
