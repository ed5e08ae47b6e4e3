----------------------------- MODULE GuessAiNode -----------------------------
(***************************************************************************)
(* The guess-ai node, over all its processes: the engine of Engine is what *)
(* main of Service waits for at the start, and its engine's task then. The *)
(* two meet in GuessAiEngine::new; in the answers, which the engine records *)
(* and the server reads; in the shutdown, which any task sends and the     *)
(* engine receives; in the end of the engine's task, which main waits for; *)
(* and in the kill that takes them all.                                    *)
(***************************************************************************)
EXTENDS Engine

CONSTANTS
    Requests, PollTicks, TicksPerSecond, TimeoutSeconds, MaxLate,   \* of GuessServer
    Games, Counts    \* bound: games and counts of the guesses players ask about

ASSUME ClockAssumption ==
    /\ PollTicks \in Nat \ {0} /\ TicksPerSecond \in Nat \ {0}
    /\ TimeoutSeconds \in Nat /\ MaxLate \in Nat
ASSUME GuessesAssumption == Games \subseteq Nat /\ Counts \subseteq Nat

Guesses == Games \X Counts

VARIABLES
    verdicts, age, phase, rpc, guess, waited, since, reply,   \* of GuessServer
    task, sent, cause, main,                                  \* of Service
    toldWrong    \* history: guesses some process told a player were wrong

serverVars == <<verdicts, age, phase, rpc, guess, waited, since, reply>>
taskVars == <<task, sent, cause, main>>
nodeVars == <<vars, serverVars, taskVars, toldWrong>>

S == INSTANCE Service WITH answers <- verdicts, pc <- rpc

\* The shared answers as the server returns them, for the guesses players ask
\* about.
Shared(told) ==
    [g \in DOMAIN told \cap Guesses |-> IF told[g] THEN "correct" ELSE "wrong"]

NodeInit == Init /\ S!Init /\ toldWrong = {}

-----------------------------------------------------------------------------
\* The operator starts the node, for the first time or again.
NodeStart == Start /\ S!Start /\ UNCHANGED toldWrong

\* A step of GuessAiEngine::new. main goes on when it has returned the engine.
NewRuns ==
    /\ main = "starting" /\ EngineStep
    /\ IF pc' = "down"
       THEN S!StartFails(IF exits'[boot] = "panic" THEN "panicked" ELSE "startError")
       ELSE IF caller' = "new" THEN UNCHANGED <<serverVars, taskVars>> ELSE S!Spawn
    /\ UNCHANGED toldWrong

\* How the engine's task returns, when the engine has exited.
EngineReturns ==
    IF pc' # "down" THEN UNCHANGED <<task, sent, cause>>
    ELSE \/ exits'[boot] = "ok" /\ S!Returns("engine", "ok") /\ UNCHANGED <<sent, cause>>
         \/ exits'[boot] = "panic" /\ S!Returns("engine", "panic") /\ UNCHANGED <<sent, cause>>
         \/ exits'[boot] = "error" /\ S!Fails("engine")

\* A step of the engine, seen by the server in the answers it shares.
EngineRuns ==
    /\ S!Runs("engine")
    /\ EngineStep
    /\ verdicts' = Shared(answers')
    /\ age' = [g \in DOMAIN verdicts' |-> IF g \in DOMAIN age THEN age[g] ELSE 0]
    /\ EngineReturns
    /\ UNCHANGED <<phase, rpc, guess, waited, since, reply, main, toldWrong>>

\* Mutation of Receives: the engine's receiver is made after the tasks run.
ReceivesNothing == UNCHANGED vars
\* A shutdown that is sent changes the engine's receiver, if there is one.
Receives ==
    IF sent' # sent /\ pc # "down" THEN RequestShutdown ELSE UNCHANGED vars

\* A step of another task, or of main.
TaskRuns ==
    /\ S!ServerTask \/ S!CtrlC \/ S!CtrlCReturns \/ S!MainReturns
    /\ Receives
    /\ UNCHANGED toldWrong

Handles(r) ==
    /\ S!Handle(r)
    /\ toldWrong' = IF reply'[r] = "wrong"
                    THEN toldWrong \cup {[guess |-> guess[r], boot |-> boot]}
                    ELSE toldWrong
    /\ UNCHANGED vars
Plays(r) == S!Client(r) /\ UNCHANGED <<vars, toldWrong>>
Time == S!Time /\ UNCHANGED <<vars, toldWrong>>

\* The contract goes on, whether the node is up or not.
Publish ==
    /\ PublishGuess \/ PublishOther
    /\ UNCHANGED <<serverVars, taskVars, toldWrong>>

\* The process is killed, with the engine if it still runs.
NodeKill ==
    /\ S!Killed
    /\ IF pc = "down" THEN UNCHANGED vars ELSE Kill
    /\ UNCHANGED toldWrong

\* The bound on processes is reached: nobody starts the node again.
NodeRetired ==
    /\ ~S!Alive /\ boot = MaxBoots
    /\ UNCHANGED nodeVars

NodeNext ==
    \/ NodeStart \/ NewRuns \/ EngineRuns \/ TaskRuns \/ Time \/ Publish
    \/ NodeKill \/ NodeRetired
    \/ \E r \in Requests : Handles(r) \/ Plays(r)

(***************************************************************************)
(* The fairness of Engine, and that of Service but for the engine's task,  *)
(* whose end Service assumes and this module shows.                        *)
(***************************************************************************)
NodeFairness ==
    /\ WF_nodeVars(EngineRuns /\ pc # "select")
    /\ SF_nodeVars(EngineRuns /\ StopOnSignal)
    /\ WF_nodeVars(S!ServerTask /\ TaskRuns)
    /\ WF_nodeVars(S!CtrlCReturns /\ TaskRuns)
    /\ WF_nodeVars(S!MainReturns /\ TaskRuns)
    /\ WF_nodeVars(Time)
    /\ \A r \in Requests : WF_nodeVars(Handles(r))

NodeSpec == NodeInit /\ [][NodeNext]_nodeVars /\ NodeFairness

-----------------------------------------------------------------------------
\* The two modules' variables agree: main is at its start as long as
\* GuessAiEngine::new runs, and the engine's task runs as long as the engine
\* does; it has received what was sent, and the server reads what the engine has
\* recorded.
NodeTypeOK ==
    /\ TypeOK /\ S!TypeOK
    /\ main = "starting" <=> pc # "down" /\ caller = "new"
    /\ S!Runs("engine") => pc # "down" /\ shutdown = sent
    /\ ~S!Runs("engine") /\ main # "starting" => pc = "down"
    /\ verdicts = Shared(answers)

\* The engine is what Service takes it for: it records each answer once, fails
\* or panics, returns without an error only on a shutdown, and returns in the
\* end when there is one.
ImplementsService == S!Spec

\* A player whose guess was paid has not been told that it was wrong, neither
\* before nor after, except by another process than the one that paid, which
\* judged the guess anew because the earlier of the two had not ended well.
ToldAsPaid ==
    \A i \in DOMAIN payouts : \A w \in toldWrong :
        w.guess = AnswerKey(events[payouts[i].event]) =>
            \/ payouts[i].boot < w.boot /\ exits[payouts[i].boot] # "ok"
            \/ w.boot < payouts[i].boot /\ exits[w.boot] # "ok"

\* A process that ends well was asked to and has lost nothing: the cursor it saved
\* is that of the last event it handled, and no player's request was cut off.
CleanExitLosesNothing ==
    main = "ok" =>
        /\ cause = "ctrl_c" /\ pos = cursor /\ cursorFile = cursor
        /\ \A r \in Requests : rpc[r] \notin {"poll", "sleep", "dropped"}
=============================================================================
