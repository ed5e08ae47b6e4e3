------------------------------- MODULE Engine -------------------------------
(***************************************************************************)
(* The GuessAI engine: the loop that reads the events of the game contract *)
(* page by page, the handler of each kind of event, the generation of a    *)
(* secret, the cursor file, and the process around them, which may be      *)
(* asked to stop, may panic, may be killed and may be started again.       *)
(*                                                                         *)
(* Every await of the code ends a step, and so does the release of the     *)
(* lock on the answers, so whatever the environment does in between (a new *)
(* event, a shutdown request, a kill, a look at the answers) can happen    *)
(* between any two steps.                                                  *)
(***************************************************************************)
EXTENDS Naturals, Sequences

CONSTANTS
    Limit,           \* events in a page of query_events
    HintWaitCounts,  \* values hint_wait_count may have in the configuration
    Torn,            \* contents of a cursor file whose write was cut
    MaxEvents,       \* bound: events the contract emits
    MaxBoots         \* bound: times the process is started

ASSUME LimitAssumption == Limit \in Nat \ {0}
ASSUME HintWaitAssumption == HintWaitCounts \subseteq Nat /\ HintWaitCounts # {}
ASSUME TornAssumption == Torn \notin Nat
ASSUME BoundsAssumption == MaxEvents \in Nat /\ MaxBoots \in Nat

VARIABLES
    (* the chain *)
    events,            \* the contract's event log
    game,              \* the game being played: its id and its guess count
    chainKey,          \* node key registered in the contract
    payouts,           \* withdrawals executed: event, process, secret in force
    (* the disk *)
    cursorFile,        \* 0 (no file), the cursor saved in it, or Torn
    (* the engine *)
    pc,                \* the await the engine is at
    caller,            \* who called the routine pc is in
    cursor,            \* 0 is None, n is the id of the n-th event
    hasNextPage,
    pos,               \* events the loop has gone past
    genKey,            \* key passed to generate_new_secret
    clientPrivateKey,
    secret,
    hints,
    answers,
    (* the process *)
    boot,              \* number of this incarnation
    hintWaitCount,     \* what it read in the configuration
    shutdown,          \* value of the shutdown channel
    (* history *)
    exits,             \* how each incarnation ended, in order
    done               \* events whose handling returned, in any incarnation

chainVars == <<events, game, chainKey, payouts>>
loopVars  == <<cursor, hasNextPage, pos>>
gameVars  == <<clientPrivateKey, secret, hints, answers>>
process == <<boot, hintWaitCount, shutdown>>
vars == <<chainVars, cursorFile, pc, caller, loopVars, genKey, gameVars,
          process, exits, done>>

-----------------------------------------------------------------------------
NoKey == <<0, 0>>

\* Definitions commented as the mutation of another are not part of Spec: each
\* is what a plausible mistake would make of that definition.

\* A fresh key or secret is named by the incarnation and the event it was
\* drawn for; event 0 stands for the start of the process.
Fresh(event) == <<boot, event>>

NoSecret == [made |-> NoKey, key |-> NoKey]
NoAnswers == [k \in {} |-> FALSE]

\* NewGuessEvent: the guess's place in its game.
Guess(g) == [kind |-> "guess", game |-> g.id, count |-> g.count]
Rotate == [kind |-> "rotate", game |-> 0, count |-> 0]
\* PublishEvent, NewGuessGameEvent, TDXQuoteResubmittedEvent, an unknown type
\* and an event that fails to parse: the loop only logs them.
Other == [kind |-> "other", game |-> 0, count |-> 0]

Current == pos + 1
Event == events[Current]
AnswerKey(e) == <<e.game, e.count>>

HintDue == hintWaitCount # 0 /\ Event.count % hintWaitCount = 0

Init ==
    /\ events = <<>>
    /\ game = [id |-> 1, count |-> 0]
    /\ chainKey = NoKey
    /\ payouts = <<>>
    /\ cursorFile = 0
    /\ pc = "down" /\ caller = "new"
    /\ cursor = 0 /\ hasNextPage = FALSE /\ pos = 0
    /\ genKey = NoKey
    /\ clientPrivateKey = NoKey /\ secret = NoSecret
    /\ hints = <<>> /\ answers = NoAnswers
    /\ boot = 0 /\ hintWaitCount \in HintWaitCounts /\ shutdown = FALSE
    /\ exits = <<>>
    /\ done = {}

-----------------------------------------------------------------------------
(***************************************************************************)
(* The environment: the contract, the operator, the machine.               *)
(***************************************************************************)

\* A player guesses, in the current game or as the first of a new one.
PublishGuess ==
    /\ Len(events) < MaxEvents
    /\ \E g \in {[game EXCEPT !.count = @ + 1], [id |-> game.id + 1, count |-> 1]} :
          /\ game' = g
          /\ events' = Append(events, Guess(g))
    /\ UNCHANGED <<chainKey, payouts, cursorFile, pc, caller, loopVars, genKey,
                   gameVars, process, exits, done>>

\* The contract asks for a rotation, or emits an event the engine only logs.
PublishOther ==
    /\ Len(events) < MaxEvents
    /\ \E e \in {Rotate, Other} : events' = Append(events, e)
    /\ UNCHANGED <<game, chainKey, payouts, cursorFile, pc, caller, loopVars,
                   genKey, gameVars, process, exits, done>>

\* Ctrl-C, or another task of the process that failed, sends true on the
\* channel; neither task exists before GuessAiEngine::new has returned.
RequestShutdown ==
    /\ pc # "down" /\ caller # "new" /\ ~shutdown
    /\ shutdown' = TRUE
    /\ UNCHANGED <<chainVars, cursorFile, pc, caller, loopVars, genKey,
                   gameVars, boot, hintWaitCount, exits, done>>

\* The process is gone. What its memory held stays in the variables, where no
\* action reads it, until Start.
Exit(why) ==
    /\ pc' = "down"
    /\ exits' = Append(exits, why)

Kill ==
    /\ pc # "down"
    /\ Exit("killed")
    /\ UNCHANGED <<chainVars, cursorFile, caller, loopVars, genKey, gameVars,
                   process, done>>

\* main reads the configuration, creates the shutdown channel and calls
\* GuessAiEngine::new, which draws the first key.
Start ==
    /\ pc = "down" /\ boot < MaxBoots
    /\ boot' = boot + 1
    /\ hintWaitCount' \in HintWaitCounts
    /\ shutdown' = FALSE
    /\ genKey' = <<boot + 1, 0>>
    /\ clientPrivateKey' = NoKey /\ secret' = NoSecret
    /\ hints' = <<>> /\ answers' = NoAnswers
    /\ pc' = "submitKey" /\ caller' = "new"
    /\ UNCHANGED <<chainVars, cursorFile, loopVars, exits, done>>

\* The bound on incarnations is reached: nothing happens any more.
Retired ==
    /\ pc = "down" /\ boot = MaxBoots
    /\ UNCHANGED vars

-----------------------------------------------------------------------------
(***************************************************************************)
(* The end of an event, whatever its handler returned: the loop logs an    *)
(* error and goes on to the next event of the page.                        *)
(***************************************************************************)
EventDone ==
    /\ pos' = Current
    /\ done' = done \cup {Current}
    /\ pc' = "dispatch"

(***************************************************************************)
(* generate_new_secret: register the key, then ask the model for a secret. *)
(***************************************************************************)
SubmitKey ==
    /\ pc = "submitKey"
    /\ chainKey' = genKey
    /\ pc' = "requestSecret"
    /\ UNCHANGED <<events, game, payouts, cursorFile, caller, loopVars, genKey,
                   gameVars, process, exits, done>>

\* The secret GuessAiEngine::new starts with.
FirstSecret ==
    /\ pc = "requestSecret" /\ caller = "new"
    /\ clientPrivateKey' = genKey
    /\ secret' = [made |-> Fresh(0), key |-> genKey]
    /\ pc' = "readCursor" /\ caller' = "run"
    /\ UNCHANGED <<chainVars, cursorFile, loopVars, genKey, hints, answers,
                   process, exits, done>>

\* The secret of the game after a win. todo! ends the process right after.
NextSecret ==
    /\ pc = "requestSecret" /\ caller = "guess"
    /\ secret' = [made |-> Fresh(Current), key |-> genKey]
    /\ hints' = <<>>
    /\ Exit("panic")
    /\ UNCHANGED <<chainVars, cursorFile, caller, loopVars, genKey,
                   clientPrivateKey, answers, process, done>>

\* The secret of a rotation is installed together with its key.
RotatedSecret ==
    /\ pc = "requestSecret" /\ caller = "rotate"
    /\ clientPrivateKey' = genKey
    /\ secret' = [made |-> Fresh(Current), key |-> genKey]
    /\ EventDone
    /\ UNCHANGED <<chainVars, cursorFile, caller, cursor, hasNextPage, genKey,
                   hints, answers, process, exits>>

\* Mutation of GenerateErr: the event of a failed handler is handled again.
GenerateErrRetried ==
    /\ pc \in {"submitKey", "requestSecret"} /\ caller # "new"
    /\ pc' = "dispatch"
    /\ UNCHANGED <<chainVars, cursorFile, caller, loopVars, genKey, gameVars,
                   process, exits, done>>

\* Building the transaction, the request or the parsing of its reply fails:
\* new gives up, a handler returns the error with the old secret in force.
GenerateErr ==
    /\ pc \in {"submitKey", "requestSecret"}
    /\ \/ /\ caller = "new"
          /\ Exit("error")
          /\ UNCHANGED <<pos, done>>
       \/ /\ caller # "new"
          /\ EventDone
          /\ UNCHANGED exits
    /\ UNCHANGED <<chainVars, cursorFile, caller, cursor, hasNextPage, genKey,
                   gameVars, process>>

-----------------------------------------------------------------------------
(***************************************************************************)
(* handle_event, and what each handler does between its awaits.            *)
(***************************************************************************)
DispatchGuess ==
    /\ pc = "dispatch" /\ pos < cursor /\ Event.kind = "guess"
    /\ pc' = "checkGuess" /\ caller' = "guess"
    /\ UNCHANGED <<chainVars, cursorFile, loopVars, genKey, gameVars, process, exits, done>>

\* Mutation of DispatchRotate: the key is installed before its secret is there.
DispatchRotateEarly ==
    /\ pc = "dispatch" /\ pos < cursor /\ Event.kind = "rotate"
    /\ genKey' = Fresh(Current) /\ clientPrivateKey' = Fresh(Current)
    /\ pc' = "submitKey" /\ caller' = "rotate"
    /\ UNCHANGED <<chainVars, cursorFile, loopVars, secret, hints, answers,
                   process, exits, done>>

\* The handler draws its key before it calls generate_new_secret.
DispatchRotate ==
    /\ pc = "dispatch" /\ pos < cursor /\ Event.kind = "rotate"
    /\ genKey' = Fresh(Current)
    /\ pc' = "submitKey" /\ caller' = "rotate"
    /\ UNCHANGED <<chainVars, cursorFile, loopVars, gameVars, process,
                   exits, done>>

DispatchOther ==
    /\ pc = "dispatch" /\ pos < cursor /\ Event.kind = "other"
    /\ EventDone
    /\ UNCHANGED <<chainVars, cursorFile, caller, cursor, hasNextPage, genKey,
                   gameVars, process, exits>>

\* Mutation of RecordAnswer: only the first guess of a game is recorded.
RecordFirstAnswer(verdict) ==
    LET key == AnswerKey(Event) IN
    IF \E k \in DOMAIN answers : k[1] = key[1]
    THEN answers' = answers
    ELSE answers' = [k \in DOMAIN answers \cup {key} |->
                        IF k = key THEN verdict ELSE answers[k]]

RecordAnswer(verdict) ==
    LET key == AnswerKey(Event) IN
    answers' = [k \in DOMAIN answers \cup {key} |->
                   IF k = key THEN verdict ELSE answers[k]]

\* The model judged the guess right: the winner is to be paid.
RightGuess ==
    /\ pc = "checkGuess"
    /\ RecordAnswer(TRUE)
    /\ pc' = "withdraw"
    /\ UNCHANGED <<chainVars, cursorFile, caller, loopVars, genKey,
                   clientPrivateKey, secret, hints, process, exits, done>>

\* The model judged it wrong.
WrongGuess ==
    /\ pc = "checkGuess"
    /\ RecordAnswer(FALSE)
    /\ pc' = "checkHint"
    /\ UNCHANGED <<chainVars, cursorFile, caller, loopVars, genKey,
                   clientPrivateKey, secret, hints, process, exits, done>>

\* Every hint_wait_count guesses a hint is due; the remainder by a
\* hint_wait_count of 0 is a panic.
CheckHint ==
    /\ pc = "checkHint"
    /\ \/ hintWaitCount = 0 /\ Exit("panic") /\ UNCHANGED <<pos, done>>
       \/ HintDue /\ pc' = "hint" /\ UNCHANGED <<pos, done, exits>>
       \/ hintWaitCount # 0 /\ ~HintDue /\ EventDone /\ UNCHANGED exits
    /\ UNCHANGED <<chainVars, cursorFile, caller, cursor, hasNextPage, genKey,
                   gameVars, process>>

PayWinner ==
    payouts' = Append(payouts,
                  [event |-> Current, boot |-> boot, secret |-> secret])

\* The winner is paid, then a secret is generated under the key in use.
Withdraw ==
    /\ pc = "withdraw"
    /\ PayWinner
    /\ genKey' = clientPrivateKey
    /\ pc' = "submitKey"
    /\ UNCHANGED <<events, game, chainKey, cursorFile, caller, loopVars,
                   gameVars, process, exits, done>>

\* The hint is kept and todo! ends the process.
Hint ==
    /\ pc = "hint"
    /\ hints' = Append(hints, secret)
    /\ Exit("panic")
    /\ UNCHANGED <<chainVars, cursorFile, caller, loopVars, genKey,
                   clientPrivateKey, secret, answers, process, done>>

\* Mutation of HandlerErr: the event of a failed handler is handled again.
HandlerErrRetried ==
    /\ pc \in {"checkGuess", "withdraw", "hint"}
    /\ pc' = "dispatch"
    /\ UNCHANGED <<chainVars, cursorFile, caller, loopVars, genKey, gameVars,
                   process, exits, done>>

\* The request fails, its reply does not parse, or the transaction cannot be
\* built: the handler returns the error before it has changed anything else.
HandlerErr ==
    /\ pc \in {"checkGuess", "withdraw", "hint"}
    /\ EventDone
    /\ UNCHANGED <<chainVars, cursorFile, caller, cursor, hasNextPage, genKey,
                   gameVars, process, exits>>

\* choices[0] of a reply without choices.
EmptyChoices ==
    /\ pc \in {"checkGuess", "hint", "requestSecret"}
    /\ Exit("panic")
    /\ UNCHANGED <<chainVars, cursorFile, caller, loopVars, genKey, gameVars,
                   process, done>>

\* Mutation of TransactionPanics: the result of a transaction is not looked at.
TransactionUnchecked ==
    /\ pc = "submitKey"
    /\ pc' = "requestSecret"
    /\ UNCHANGED <<chainVars, cursorFile, caller, loopVars, genKey, gameVars,
                   process, exits, done>>

\* execute_transaction_must_succeed panics unless it learns of a success: the
\* transaction was not executed, or was and the reply to it was lost.
TransactionPanics ==
    /\ pc \in {"submitKey", "withdraw"}
    /\ \/ UNCHANGED <<chainKey, payouts>>
       \/ pc = "submitKey" /\ chainKey' = genKey /\ UNCHANGED payouts
       \/ pc = "withdraw" /\ PayWinner /\ UNCHANGED chainKey
    /\ Exit("panic")
    /\ UNCHANGED <<events, game, cursorFile, caller, loopVars, genKey, gameVars,
                   process, done>>

-----------------------------------------------------------------------------
(***************************************************************************)
(* run: the cursor is read once, then pages are fetched and processed.     *)
(***************************************************************************)
\* Mutation of ReadCursor: a file that does not parse counts as missing.
ReadCursorLenient ==
    /\ pc = "readCursor"
    /\ cursor' = IF cursorFile = Torn THEN 0 ELSE cursorFile
    /\ pos' = cursor'
    /\ hasNextPage' = FALSE
    /\ pc' = "select"
    /\ UNCHANGED <<chainVars, cursorFile, caller, genKey, gameVars, process,
                   exits, done>>

ReadCursor ==
    /\ pc = "readCursor" /\ cursorFile # Torn
    /\ cursor' = cursorFile /\ pos' = cursorFile
    /\ hasNextPage' = FALSE
    /\ pc' = "select"
    /\ UNCHANGED <<chainVars, cursorFile, caller, genKey, gameVars, process, exits, done>>

\* The file is not TOML, cannot be read, or the RPC client cannot be built.
ReadCursorFails ==
    /\ pc = "readCursor"
    /\ Exit("error")
    /\ UNCHANGED <<chainVars, cursorFile, caller, loopVars, genKey, gameVars,
                   process, done>>

Available == Len(events) - cursor
\* Mutation of NextCursor: every page is taken to be full.
NextCursorUnbounded == cursor + Limit
NextCursor == IF Available < Limit THEN Len(events) ELSE cursor + Limit

\* query_events answers with the page that follows cursor, and the cursor moves
\* to the end of the page before the page is processed.
FetchPage ==
    /\ pc = "select"
    /\ cursor' = NextCursor
    /\ hasNextPage' = (Available > Limit)
    /\ pc' = "dispatch" /\ caller' = "run"
    /\ UNCHANGED <<chainVars, cursorFile, pos, genKey, gameVars, process,
                   exits, done>>

\* query_events fails: the error is logged and the query made again at once,
\* from the same cursor and as often as it takes.
QueryFails ==
    /\ pc = "select"
    /\ UNCHANGED vars

\* The page is done. The cursor file is written after the last page only, and
\* not at all while the cursor is None.
PageDone ==
    /\ pc = "dispatch" /\ pos = cursor
    /\ pc' = IF hasNextPage \/ cursor = 0 THEN "select" ELSE "truncate"
    /\ caller' = "run"
    /\ UNCHANGED <<chainVars, cursorFile, loopVars, genKey, gameVars, process, exits, done>>

\* Mutation of StopOnSignal: the signal is also seen between two events.
StopWithinPage ==
    /\ pc \in {"select", "dispatch"} /\ shutdown
    /\ caller' = "shutdown"
    /\ IF cursor = 0
       THEN Exit("ok")
       ELSE pc' = "truncate" /\ UNCHANGED exits
    /\ UNCHANGED <<chainVars, cursorFile, loopVars, genKey, gameVars, process,
                   done>>

\* Mutation of StopOnSignal: the loop is left without a last save.
StopUnsaved ==
    /\ pc = "select" /\ shutdown
    /\ caller' = "shutdown"
    /\ Exit("ok")
    /\ UNCHANGED <<chainVars, cursorFile, loopVars, genKey, gameVars, process,
                   done>>

\* changed() is chosen by select!, between two pages and never within one.
StopOnSignal ==
    /\ pc = "select" /\ shutdown
    /\ caller' = "shutdown"
    /\ IF cursor = 0
       THEN Exit("ok")
       ELSE pc' = "truncate" /\ UNCHANGED exits
    /\ UNCHANGED <<chainVars, cursorFile, loopVars, genKey, gameVars, process, done>>

\* std::fs::write empties the file, then writes the cursor to it.
TruncateFile ==
    /\ pc = "truncate"
    /\ cursorFile' = Torn
    /\ pc' = "write"
    /\ UNCHANGED <<chainVars, caller, loopVars, genKey, gameVars, process,
                   exits, done>>

\* Mutation of WriteFile: no break after the save on shutdown.
WriteFileAndGoOn ==
    /\ pc = "write"
    /\ cursorFile' = cursor
    /\ pc' = "select"
    /\ UNCHANGED <<chainVars, caller, loopVars, genKey, gameVars, process,
                   exits, done>>

WriteFile ==
    /\ pc = "write"
    /\ cursorFile' = cursor
    /\ IF caller = "shutdown"
       THEN Exit("ok")
       ELSE pc' = "select" /\ UNCHANGED exits
    /\ UNCHANGED <<chainVars, caller, loopVars, genKey, gameVars, process,
                   done>>

\* The file cannot be opened, or the disk is full: run returns the error.
WriteFails ==
    /\ pc \in {"truncate", "write"}
    /\ Exit("error")
    /\ UNCHANGED <<chainVars, cursorFile, caller, loopVars, genKey, gameVars,
                   process, done>>

-----------------------------------------------------------------------------
GenerateSecret == SubmitKey \/ FirstSecret \/ NextSecret \/ RotatedSecret \/ GenerateErr

HandleEvent ==
    \/ DispatchGuess \/ DispatchRotate \/ DispatchOther
    \/ RightGuess \/ WrongGuess \/ CheckHint \/ Withdraw \/ Hint
    \/ HandlerErr \/ EmptyChoices \/ TransactionPanics

Run ==
    \/ ReadCursor \/ ReadCursorFails \/ FetchPage \/ QueryFails \/ PageDone
    \/ StopOnSignal \/ TruncateFile \/ WriteFile \/ WriteFails

EngineStep == GenerateSecret \/ HandleEvent \/ Run

Environment == PublishGuess \/ PublishOther \/ RequestShutdown \/ Kill \/ Start

Next == EngineStep \/ Environment \/ Retired

(***************************************************************************)
(* The engine's task goes on as long as it is not waiting, and what a      *)
(* handler waits for answers in the end, with a result or an error. A      *)
(* query for events may fail, or not be answered, for ever. select! looks  *)
(* at its branches in random order and so takes a shutdown signal that     *)
(* stays in the channel.                                                   *)
(***************************************************************************)
Fairness == WF_vars(EngineStep /\ pc # "select") /\ SF_vars(StopOnSignal)

Spec == Init /\ [][Next]_vars /\ Fairness

-----------------------------------------------------------------------------
(***************************************************************************)
(* Properties.                                                             *)
(***************************************************************************)
Running == pc \notin {"down", "readCursor"} /\ caller # "new"

Keys == Nat \X Nat
Kinds == {"guess", "rotate", "other"}
Handlers ==
    {"checkGuess", "checkHint", "withdraw", "hint", "submitKey", "requestSecret"}
Loop == {"select", "dispatch", "truncate", "write"}
Secrets == [made : Keys, key : Keys]

ChainTypeOK ==
    /\ events \in Seq([kind : Kinds, game : Nat, count : Nat])
    /\ game \in [id : Nat, count : Nat]
    /\ chainKey \in Keys
    /\ payouts \in Seq([event : Nat, boot : Nat, secret : Secrets])

LoopTypeOK ==
    /\ cursorFile \in Nat \cup {Torn}
    /\ cursor \in 0 .. Len(events)
    /\ pos \in 0 .. cursor
    /\ hasNextPage \in BOOLEAN
    /\ done \subseteq 1 .. Len(events)

GameTypeOK ==
    /\ genKey \in Keys
    /\ clientPrivateKey \in Keys
    /\ secret \in Secrets
    /\ hints \in Seq(Secrets)
    /\ DOMAIN answers \subseteq Nat \X Nat
    /\ \A k \in DOMAIN answers : answers[k] \in BOOLEAN

ProcessTypeOK ==
    /\ pc \in {"down", "readCursor"} \cup Handlers \cup Loop
    /\ caller \in {"new", "run", "guess", "rotate", "shutdown"}
    /\ boot \in Nat
    /\ hintWaitCount \in Nat
    /\ shutdown \in BOOLEAN
    /\ exits \in Seq({"ok", "error", "panic", "killed"})

\* The values of the variables. In particular the cursor is None or an event
\* of the log, the loop never goes past it, and only events of the log are ever
\* handled.
TypeOK == ChainTypeOK /\ LoopTypeOK /\ GameTypeOK /\ ProcessTypeOK

\* The subscriber implements the event stream consumer: the loop's position is
\* the consumer's, the cursor file its checkpoint.
Stream == INSTANCE EventStream WITH
    Lost <- Torn, published <- Len(events), next <- pos,
    checkpoint <- cursorFile, consumed <- done

\* Whatever pages, failures, kills and restarts there were, the engine's steps
\* on the log and on the cursor file are steps of a consumer that takes the
\* events one by one, in order, and saves only where it is.
ImplementsStream == Stream!Spec

\* No event is skipped: those before the cursor that a restart would read from
\* the file have all been handled, though run advances its own cursor before
\* it processes a page.
NothingSkipped == Stream!NothingSkipped

\* A process that ended well has saved its cursor, and had handled every event
\* before it: the next one neither skips nor repeats an event.
GracefulStop ==
    pc = "down" /\ boot > 0 /\ exits[boot] = "ok" =>
        /\ pos = cursor
        /\ cursorFile = cursor

\* An event pays twice only if the process that paid it first ended without
\* saving its cursor: no error that a handler returns makes the engine pay
\* again, and neither does a graceful restart.
PaidAgainOnlyAfterCrash ==
    \A i, j \in DOMAIN payouts :
        i < j /\ payouts[i].event = payouts[j].event =>
            /\ payouts[i].boot < payouts[j].boot
            /\ exits[payouts[i].boot] # "ok"

\* The answers players poll for agree with the money: a guess that this
\* process paid is recorded as right.
PaidGuessAnsweredRight ==
    \A i \in DOMAIN payouts :
        payouts[i].boot = boot =>
            LET k == AnswerKey(events[payouts[i].event]) IN
            k \in DOMAIN answers /\ answers[k]

\* An answer, once a player may have read it, is neither withdrawn nor changed
\* as long as the process lives.
AnswersStable ==
    [][Running => \A k \in DOMAIN answers :
                      k \in DOMAIN answers' /\ answers'[k] = answers[k]]_vars

\* The secret and the key it was requested under change together, whichever
\* step of a rotation or of a new game fails.
SecretUnderKey == Running => secret.key = clientPrivateKey

\* A secret comes into force only while its own key is the one registered in the
\* contract, whatever became of the keys registered for secrets that failed.
SecretRegistered ==
    [][secret' # secret /\ secret' # NoSecret => chainKey' = secret'.key]_vars

\* Steps the engine takes at most until it looks at the shutdown signal again:
\* five for each event left in the page (its dispatch, the check, the withdrawal,
\* the key, the secret) and three at the end of the page.
StepsToSelect ==
    LET left == IF caller = "new" THEN 3 ELSE 5 * (cursor - pos) IN
    [down |-> 0, select |-> 0, readCursor |-> 1, write |-> 1, truncate |-> 2,
     dispatch |-> left + 3, checkGuess |-> left + 2, checkHint |-> left,
     hint |-> left - 1, withdraw |-> left + 1, submitKey |-> left,
     requestSecret |-> left - 1][pc]

\* A shutdown is seen within a page: whatever its handlers do or return, the
\* engine is back at select! after as many steps as the events of one page take.
SelectWithinPage ==
    [][EngineStep =>
          IF pc = "select" THEN StepsToSelect' <= 5 * Limit + 3
          ELSE StepsToSelect' < StepsToSelect]_vars

\* An event of the log is handled, unless the process ends or no query for
\* events is answered from some time on: no error of a handler, no query that
\* failed before and no order of pages leaves an event behind.
EventsHandled ==
    \A i \in 1 .. MaxEvents :
        pc = "select" /\ i <= Len(events) ~>
            i \in done \/ pc = "down" \/ [](pc = "select")

\* A requested shutdown ends the process, whether events keep coming or the
\* queries for them fail for ever.
ShutdownCompletes == shutdown /\ pc # "down" ~> pc = "down"
=============================================================================
