# Verification of the GuessAI node

`guess-ai` is a service that runs a word-guessing game. A contract on the Sui
blockchain takes the players' guesses and emits events; the service reads the
events, asks a language model whether a guess is right, pays the winner from the
game's treasury, draws the next secret word, and serves the verdicts to players
over HTTP. This directory holds TLA+ modules translated from that service's
source, the TLC configurations that check them on small instances, and theorems
that the TLA+ proof system (TLAPS) proves for every value of the constants.

Paths below are relative to `src/guess-ai/src/` unless they start with `cli/`
(`src/guess-ai/cli/src/`).

## Inventory

| Part | Code | State | Operations | Interacts with |
|---|---|---|---|---|
| Event subscriber | `engine.rs` `GuessAiEngine::run` | `cursor`, the page being processed | read the cursor, fetch a page, handle its events, save the cursor, stop | RPC node (calls), cursor file, shutdown channel, handlers |
| Cursor file | `engine.rs` `mod cursor` | one TOML file | read, overwrite | the subscriber of this process and of the next |
| Event parsing | `engine.rs` `mod events` | none | type from name, JSON to struct | the subscriber |
| Guess handler | `engine.rs` `handle_new_guess_event` | `answers`, `secret`, `hints` | judge, record the answer, pay, draw the next secret, give a hint | model API, Sui client, HTTP server (shared `answers`) |
| Rotation handler | `engine.rs` `handle_rotate_tdx_quote_event` | `client_private_key`, `secret`, `random_seed` | new key, new secret | secret generation |
| Secret generation | `generate_secret.rs` | none | register the key on chain, ask the model for a word | Sui client, model API |
| Sui client | `client.rs` | wallet | two transactions | the contract |
| Atoma SDK | `atoma.rs`, `types.rs` | a question under way: its key, its salt | a chat completion, encrypted and signed or (without the default build feature) in clear | model API |
| Answer server | `http_server/` | requests in flight | poll `answers` for up to 15 s, drain on shutdown | `answers`, shutdown channel |
| Service | `main.rs` | shutdown channel, three tasks | start, forward ctrl-c and failures, join | all of the above |
| Configuration | `config.rs`, `http_server/config.rs` | none | load | all of the above |
| Admin client and server | `cli/cli.rs`, `cli/server.rs` | wallet behind an `RwLock` | six parameter-setting transactions | the contract |
| Twitter client, TDX quotes | `twitter.rs`, `tdx.rs` | none | never called; not compiled | none |

The game contract itself is not in the repository. It is modelled from what the
engine reads of it and sends to it, and marked external.

### What is hard here

* **The cursor and the work it stands for move apart.** `run` sets `cursor` to
  the end of a page *before* it handles the page (line 597), saves it to the file
  only after a page without a next page (641), and the save itself is a truncation
  followed by a write (1031). The process may end between any two of these: by
  `todo!` after every win (381) and every hint (418), by an index into an empty
  reply (331, 413), by a transaction that "must succeed" (`client.rs` 117, 192), by
  a `?` on the file, or by being killed, and the operator starts it again
  (`docker-compose.yaml` gives the node's container no restart policy). The next process
  then judges the guesses of the page anew, under another secret.
* **Money, answers, key and secret change in different steps**, each of which can
  fail: the answer is recorded, then the winner is paid, then a key is registered,
  then the next secret is requested. What is left when one fails is the error
  handling of this code: an error is logged and the next event is taken. A query for
  events that fails is logged and made again at once, without a limit (588).
* **Shutdown** is a branch of `tokio::select!` that is only looked at between pages.
* **Two readers of one map.** HTTP requests poll the answers while the engine
  writes them, and give up by a clock that is looked at after the sleep and before the
  answers (`http_server/server.rs` 101).
* **Replies name no request.** The key pair of a question is the engine's and is used
  again and again; what ties a reply to its question is the salt in the key it is
  encrypted with (`atoma.rs` 185). Its checks fail one by one, some by an error, some by a
  panic (213, 571).
* **One lock across a transaction.** The admin server's handlers hold the client from before
  a transaction is built until it is executed (`cli/server.rs` 92); a caller may go away at
  any await, and a transaction may be executed after its caller has given it up.
* **Three tasks, one channel.** Any task may fail first; the others learn of it by a
  `watch` channel whose `send` fails once nobody listens (`main.rs` 109), and the
  server must finish requests that wait for answers of an engine that has stopped. Of
  several failures only one is reported: the engine's, then the server's (169).

`PROJECT.json` lists these hazards line by line, with the properties that cover
each.

### What makes each part correct

* Subscriber and cursor file: no event is skipped, by any sequence of pages,
  errors, crashes and restarts; events are taken in order; a graceful stop neither
  skips nor repeats one; an event is handled in the end, unless the process ends or its
  queries for events are never answered again; a shutdown request ends the process even
  then.
* Guess handler: an event is not paid twice unless the process that paid it first did not
  end well; within a process, a paid guess reads as right and a published answer does not
  change.
* Rotation, secret generation: the secret in force was requested under the key in
  use.
* Answer server: every request ends within its time, an answer that was there for a
  poll to see is returned, and a server that was told to stop stops.
* Service: the failure of one task ends the process, requests in flight are served
  first, the process ends well only if it was asked to, and the failure that started a
  shutdown is reported, unless it is the server's and the engine fails on its way down:
  then the engine's error is returned and the server's is neither returned nor logged.
* Confidential requests: a reply the engine gets was made for its question, and a
  question ends with it, with an error, or with the process.
* Admin client and server: commands take effect in the order in which they are answered, an
  error means no effect, nobody waits for the lock for ever, and a request reaches its
  handler.
* The node as a whole, over all its processes: the engine keeps what `main` assumes of it, a
  player is told that a paid guess is wrong only when two processes judged it because the
  earlier did not end well, and a clean exit loses nothing.

## Modules

| Module | What it is |
|---|---|
| `EventStream` | Abstract specification of the subscriber: a consumer takes the events of a stream in order, saves its position now and then (not atomically), and goes back to the saved position when it starts again. |
| `Engine` | The engine and the process around it, as the code has it. |
| `EngineClaims` | `Engine` with what the code's comments say and the code does not do. |
| `GuessServer` | The answer polling server: requests, the clock, graceful shutdown. |
| `GuessServerClaims` | `GuessServer` with what its comment says and the code does not do. |
| `Service` | `main`: extends `GuessServer` with the start of the process, the three tasks, the shutdown channel and the end of the process. |
| `GuessAiNode` | The composition: `Engine` as what `main` of `Service` waits for at its start and as its engine's task, over all processes of the node. It implements `Service`. |
| `ModelRequest` | Abstract specification of a question to the model. |
| `ConfidentialChat` | The Atoma SDK: a question encrypted for a node, and the checks of its reply. |
| `AdminClient` | The six commands of the operator and the lock they share. |
| `AdminServer` | The HTTP server in front of `AdminClient`: routes, extractors, shutdown. |
| `EventStreamProofs` | The abstract consumer skips nothing. |
| `EngineProofs` | Of `Engine`: types, the refinement of `EventStream` and `NothingSkipped`, `SelectWithinPage`, `SecretUnderKey`, `SecretRegistered`, `GracefulStop`. |
| `EnginePayoutProofs` | Of `Engine`: `PaidAgainOnlyAfterCrash`, `AnswersStable`, `PaidGuessAnsweredRight`. |
| `ServiceProofs` | Every property of `Service` but its liveness. |
| `GuessAiNodeProofs` | Every property of `GuessAiNode` but the liveness in `ImplementsService`; what is proved of `Engine` and of `Service`, carried over to it. |
| `ConfidentialChatProofs` | `TypeOK`, `AnswersItsRequest`, the safety part of `ImplementsModelRequest`. |
| `AdminClientProofs` | `TypeOK`, `LastOkHolds`, `ErrMeansUntouched`. |
| `AdminServerProofs` | `AdminServer` implements `AdminClient`, keeps what it promises, and sets one of the six settings. |

### How `Engine` corresponds to the code

A step of the model is the code from one `await` (or system call, or release of the lock on
the answers) to the next; `pc` names where the engine is then, `caller` the routine that
called the shared ones. So everything the environment may do, it may do at each of these.

| `pc` | Where the code is | Actions that leave it |
|---|---|---|
| `down` | no process | `Start` |
| `submitKey` | `submit_node_public_key` in `generate_new_secret` | `SubmitKey`, `GenerateErr`, `TransactionPanics` |
| `requestSecret` | the model call after it | `FirstSecret` (caller `new`), `NextSecret` (`guess`), `RotatedSecret` (`rotate`), `GenerateErr`, `EmptyChoices` |
| `readCursor` | start of `run` | `ReadCursor`, `ReadCursorFails` |
| `select` | `tokio::select!` | `FetchPage`, `QueryFails`, `StopOnSignal` |
| `dispatch` | top of the `for` over the page | `DispatchGuess`, `DispatchRotate`, `DispatchOther`, `PageDone` |
| `checkGuess` | model call that judges a guess | `RightGuess`, `WrongGuess`, `HandlerErr`, `EmptyChoices` |
| `checkHint` | the answers are unlocked after a wrong guess (349) | `CheckHint` |
| `withdraw` | `withdraw_funds_from_treasury_pool` | `Withdraw`, `HandlerErr`, `TransactionPanics` |
| `hint` | model call for a hint | `Hint`, `HandlerErr`, `EmptyChoices` |
| `truncate`, `write` | inside `std::fs::write` | `TruncateFile`, `WriteFile`, `WriteFails` |

Other state: `events` is the contract's log and `cursor` the number of the last
event of the page fetched last (0 is `None`); `pos` counts the events of the log the
loop is past, the program's position in `for sui_event in data`; `cursorFile` is 0
(no file), a cursor, or `Torn`; `payouts` are the withdrawals the chain executed;
`exits` and `done` are history. A key or secret is named by the incarnation and the
event it was drawn for, so two draws never coincide.

What is abstracted: the text of guesses, prompts, explanations and hints (a verdict
is a choice); the random seed; gas; the sender; logging; the JSON of events (an event
whose name is unknown or whose JSON does not parse is only logged, like the
informational ones, and is `Other`). `confidential-compute` changes how a request is made,
not what the engine does with its result.

`QueryFails` is the `Err` branch of a query (588-595): it is logged and made again from the
same cursor, at once and without a limit. It changes no state, and nothing obliges a query
to succeed (see Fairness). `CheckHint` is a step of its own because the answer is recorded
before it: with a `hint_wait_count` of 0, which the configuration accepts, a wrong guess is
there for players to read before the remainder by zero ends the engine.

`TransactionPanics` has the transaction executed or not:
`execute_transaction_must_succeed` panics on a failure and also when the reply is
lost. `Exit` ends the process at once for a panic (the join of a panicked task
fails, `try_join!` returns and so does `main`) and for a normal or an error return of
`run`; the answer server's draining after that is part of `Service`.

`Kill` may strike at any step.

### How `GuessServer` corresponds to the code

| `pc` of a request | Where `get_guess_response_handler` is | Actions that leave it |
|---|---|---|
| `none` | not called | `Arrive` |
| `poll` | about to take the read lock (86) | `Poll` |
| `sleep` | in `tokio::time::sleep` (97) | `Wake` |
| `replied` | returned | none |
| `gone` | its future was dropped with the connection | none |
| `dropped` | its future was dropped with the process | none |

`phase` is the point `start_server` is at: `TcpListener::bind` (45), serving, draining
after `changed()` (50), or returned, with `Ok` or with the error of `bind`. `Disconnect`
may take a request that polls or sleeps.

Time passes by `Tick`. `waited` is `start_time.elapsed()`, `since` the time since the
handler was last run. A handler cannot be run early, and `Tick` waits for a handler
that is `MaxLate` ticks overdue: this is the bound on scheduling delay that
`AnsweredInTime` needs, and any delay up to it occurs. `age` counts the ticks since an
answer was recorded, up to the largest value `NoStaleMiss` tells apart. The health route
has no state. The engine's write and a look at the map hold the lock across no `await`
that waits for anything, so each is one step.

### How `Service` corresponds to the code

`main` is where `main` is: `starting`, up to the return of `GuessAiEngine::new`; `joining`,
in `try_join!`; or how the process ended, `ok`, `engineError` or `serverError` by
`handle_tasks_results`, `startError` or `panicked` before that (`StartFails`, a panicked
task), or `killed`. A process that is gone may be started again (`Start`), and knows nothing
of the one before: its requests went with their connections.

`task` is the state of the three spawned futures: `running`, returned `ok` or `err`,
`masked` (returned the error of `send` in place of its own), or `panic`. `sent` is the
value of the watch channel. A receiver counts as long as its owner has not dropped it:
the engine's lives in `self` until `run` returns; the server's goes with the future
passed to `with_graceful_shutdown`, once that has seen the value, or with `bind`'s error;
the last one is owned by the ctrl-c task. `main` itself keeps none, having moved
`shutdown_rx` into that task (55). So `send` fails only when every other task is past its
receiver (`Receivers`), and the ctrl-c task's own `send` cannot.

Each receiver is cloned before anything is sent, so none has seen the value when its
task starts: `sent` is enough of a guard for `EngineStops`, `ServerDrains`,
`CtrlCReturns`. The engine of this module is the outline of `Engine`: it records
answers, returns `Ok` only after the signal (`StopOnSignal` is the only way `run` ends
well), and may fail or panic at any step; neither the server nor the ctrl-c task has a
panic of its own. `CtrlC` is the branch `_ = ctrl_c()` of `main.rs` 130, which an error of the
signal handler takes as well as the operator's ctrl-c: what is said of a ctrl-c below is
said of both. `MainReturns` is `try_join!`, over at once when a task has panicked
(its `JoinError`) and otherwise when all three have returned, since an `Err` *inside* a
task's result is not an error of the join; then `handle_tasks_results`, which looks at the
engine's result first, then at the server's, and returns the first error (`Joined`). What
is still running ends with the runtime, which is when a request is `dropped`.

### How `GuessAiNode` corresponds to the code

`GuessAiNode` extends `Engine` and instantiates `Service` with variables of its own, of
which `rpc` is the `pc` of requests and `verdicts` the answers as the server returns them.
Its initial states and its engine's steps are those of `Engine`: any number of processes,
from any cursor an earlier one saved and after any payouts it made, with any
`hint_wait_count`. The two are tied together at the places where the code does it:

| What is shared | In the code | In the model |
|---|---|---|
| the start | `main` awaits `GuessAiEngine::new` (`main.rs` 48) | `NodeStart` is a `Start` of both; `NewRuns` is a step of `new`, after the last of which the tasks are spawned, or the process ends early |
| the answers | `Answers`, an `Arc<RwLock<..>>` | `EngineRuns` sets `verdicts` to `Shared(answers)` |
| the shutdown | the watch channel; the engine's receiver is cloned before the tasks start (`main.rs` 47, 57) | `Receives`: a step that sets `sent` is a `RequestShutdown` of the engine |
| the engine's end | `spawn_with_shutdown` around `run` (`main.rs` 57, 95) | `EngineReturns`: the exit that `Engine` records is the task's result |
| the end of the process | the runtime ends with `main`; a kill takes both | `MainReturns` finds the engine's task done, since no other task panics; `NodeKill` is a kill of both |

`toldWrong` is history: who was told that which guess is wrong, by which process.

A win and a hint end the engine by `todo!`, so `main` ends with a panic and requests in flight
are dropped: a player who polls at the moment of a win is not answered by this process.

### How `ConfidentialChat` corresponds to the code

| `pc` | Where `confidential_chat_completions` is | Actions that leave it |
|---|---|---|
| `idle` | not called | `Ask` |
| `lookup` | in `request_node_public_url` (182) | `Post`, `LookupFails`, `CallDropped` |
| `post` | in `send` (210) or `json` (225) | `Accept`, `Reject`, `VerifyPanics`, `PostFails`, `CallDropped` |
| `down` | the process has ended | `Restart` |

What follows a reply is computed without an await, so each way through the checks is a
step: `Decodes` (219-240), `Decrypts` (`decrypt_chat_completions_response`), `HashMatches`
and `SignatureHolds` (`verify_response_hash_and_signature`), in that order. A reply is the
request it was made for and what is wrong with it (`Faults`), which is named by the first
check that sees it. The service may answer with the reply to any request made before. A
key derived from two key pairs and a salt is their triple; that distinct triples give
distinct keys, and that AES-GCM does not decrypt under another key, is assumed. The number
of the question stands for its text and for the salt drawn for it. The signature is that of
whichever key the reply carries: the code compares that key with no other, and the module
claims nothing of it.

### How `AdminClient` and `AdminServer` correspond to the code

A call is one request of the operator. `queued` is `write().await`, `build` the part up to
the signed transaction (which asks the RPC node for gas and objects, line 89-106), `submit`
and `executed` are inside `execute_transaction_must_succeed` (115-118), before and after
the contract has executed it. The six commands differ in their arguments and the function
of the contract, and are one action each around the steps they share. A call's number is
the value that it sets. `Drop` is hyper dropping the handler with its connection; with the
future goes the guard. `late` are the transactions submitted by calls that got no answer,
because they were dropped or because the client panicked: any of them may still be
executed. tokio's `RwLock` is not poisoned by a panic.

`AdminServer` adds what runs before a handler: the router, and `Path`, which takes its
value from the parameters of the route that matched. `run_server` lets requests in flight
finish. It has no liveness of its own: its one run is that of the finding, and what it
does right is proved (`AdminServerProofs`).

## Runs

| Run | Module, configuration | Question |
|---|---|---|
| `engine` | `Engine`, `Engine.cfg` | The safety and action properties and the refinement of `EventStream`: 3 events, pages of 2, 2 incarnations, a hint every second guess. |
| `engine_live` | `Engine`, `EngineLive.cfg` | The liveness properties, with queries that may fail for ever: 2 events, pages of 1, 2 incarnations, a `hint_wait_count` of 0 (a remainder by zero at the first wrong guess) or a hint every second guess. |
| `page_saved`, `won_secret`, `shutdown_save`, `withdrawal` | `EngineClaims`, `Engine*.cfg` | Four sentences of the comments that the code does not keep (see Findings): 2 events, pages of 1, 1 incarnation. |
| `service` | `Service`, `Service.cfg` | The tasks and the end of the process, and the times of requests: 2 requests for one guess, a poll every tick, 2 ticks to a second, a timeout of 1 second, handlers up to 1 tick late; any number of starts and kills. 576,478 distinct states. |
| `available` | `GuessServerClaims`, `GuessServerAvailable.cfg` | A sentence of the handler's comment that the code does not keep; the same values. |
| `chat` | `ConfidentialChat`, `ConfidentialChat.cfg` | Which replies are accepted, and the refinement of `ModelRequest`, liveness included: 3 questions, 2 client keys, 2 nodes. |
| `admin` | `AdminClient`, `AdminClient.cfg` | What an answer says of the contract, and the lock: 3 calls of two commands at a time, in three pairs. |
| `admin_routes` | `AdminServer`, `AdminRoutes.cfg` | Whether requests reach their handlers: 2 requests, any of the six commands. |
| `node` | `GuessAiNode`, `GuessAiNode.cfg` | The refinement of `Service` by the composition, with its fairness, and what the two say together of money, answers and a clean exit: 2 processes, ended and started at any step, 1 event, a `hint_wait_count` of 0, 1 or 2, 1 request, which gives up after one second. 512,128 distinct states. |

Bounds of `GuessServer` and `Service`. Two requests that ask for the same guess see its
answer at different points of their loops, and one can hold up the drain that the other
does not. One guess suffices, as requests do not interact and a guess without an answer
is the state before `Record`. The code's constants (10 ms, 15 s) enter by their ratio
only: two ticks to a second is the least with which `as_secs()` drops something, and a
timeout of one second the least that a mistake by one second can be told from.
`waited` stays below its bound because requests end (`AnsweredInTime`). A process that has
ended can be started again, so nothing limits the number of processes, and deadlock is
checked.

Bounds of `GuessAiNode`. Each of its properties concerns one guess: an answer and its payout, the
engine's end, the cursor of the last event. One event, a guess or not, is enough for a page
before the shutdown and an empty one after it, and for a second process that starts from a
missing, a saved or a torn file and judges the guess again; with pages of several events it
is the run `engine` that deals. With `hint_wait_count` 1 a wrong guess is followed by a hint,
with 2 it is not, with 0 by a panic. One request is enough to be in flight while the engine
records, fails, panics or stops; how requests interact is `service`'s question. The invariants
were also checked once with two events (with `hint_wait_count` 0 and 1: 10,626,960 distinct
states, too many for a run that is repeated), and the theorems hold for any number of events,
processes and requests.

Bounds of `ConfidentialChat`. A reply is mixed up with that of one other question; the third
question makes an earlier one that was not the last. Two keys on either side give pairs
that are reused and pairs that are not.

Bounds of `AdminClient`. Three calls of two commands: two of one command whose order is at
stake and a third between or behind them, of either command. The pairs put every command
in some instance; no step depends on which it is. The state in which all calls have ended
and no transaction is on its way idles, so deadlock is checked.

Bounds of `Engine`. Three events and pages of two give a page with a next page, a page without,
a partial page, and events that arrive while a page is processed; two incarnations
give a restart after every way to end, with a file that is missing, old, current or
torn. The payout properties need one event paid by two processes, or two events paid
by one: both fit. `MaxEvents` and `MaxBoots` occur only in guards of environment
actions (`PublishGuess`, `PublishOther`, `Start`); at the last incarnation's end
`Retired` lets the model idle, so deadlock is checked. The theorems have no bounds.
`Limit` is positive: the RPC node refuses a page size of 0. Symmetry is not used.

### Properties of `Engine`

* `TypeOK`: the types; also that the loop never goes past its page, nor the page past
  the log.
* `NothingSkipped`, `ImplementsStream`: the hazard is the early `cursor = next_cursor`.
  The refinement maps the consumer's position to `pos`, its checkpoint to
  `cursorFile`. It says in particular that only `pos` is ever saved, that events are
  handled one by one in order, and that a process without a readable file never
  starts to consume.
* `GracefulStop`: after `Ok(())` the file holds the cursor and the whole page is done.
* `PaidAgainOnlyAfterCrash`: an event's second payout is by a later process, and the
  process of the first did not end well.
* `PaidGuessAnsweredRight`: what this process has paid, its answers say is right.
* `AnswersStable` (action property): an answer is never removed or changed while the
  process runs. It depends on every event being handled once per process.
* `SecretUnderKey`: through every failure of a rotation or a new game.
* `SecretRegistered` (action property): a secret comes into force only while its own key is
  the one the contract has. The two may differ later, and while a failed one is not made
  good; a key that was registered and left is never the one of a new secret.
* `SelectWithinPage` (action property): the steps the engine can still take before it looks
  at the shutdown signal again (`StepsToSelect`) decrease with each step it takes, and are
  at most `5 * Limit + 3` when it leaves `select!`. An event takes at most five: its
  dispatch, the check, the withdrawal, the key, the secret. This is what `ShutdownCompletes`
  rests on, without the fairness: no handler, whatever it meets, brings the loop back to
  an event or to a page it has begun.
* `EventsHandled`: at the top of the loop, each event of the log will be handled, or the
  process will end, or the engine stays at `select!` for ever, because from some time on no
  query for events is answered with a page. An error in between, of a query or of a handler,
  leaves no event behind. Nothing better holds of the code: the query is made again without a
  limit and without giving up.
* `ShutdownCompletes`: a requested shutdown ends the process, even if every query fails.

### Properties of `GuessServer` and `Service`

* `GivesUpAfterTimeout`, `AnsweredInTime`: `as_secs() > 15` gives up no earlier than
  16 seconds after the start, and at most a sleep and two late runs after that.
* `NoStaleMiss` (action property): the answer a request gives up on, if there is one, is
  newer than one sleep and one delay, that is, newer than the request's last look.
* `RequestEnds`: whatever the engine does, a request ends.
* `RequestsServed`: requests in flight are dropped with the process only when the engine
  panicked or the process was killed. `CleanExitAsked`: an exit without error needs ctrl-c
  and a drained server.
* `CauseKept`: which failure `main` returns. If the engine's failure started the shutdown, it
  is the engine's own error. If the server's did (a failed `bind`), it is the server's, unless
  the engine fails as well before it has stopped, say with an error of its last save: then
  the engine's error is returned, and that of the server is neither returned nor logged.
  A task's error is replaced by that of `send` only if the shutdown had another cause; the
  one path to it is a task that fails after every other has seen the signal.
* `EndIsTold`: once a task has returned, in whatever way but a panic, the shutdown is on the
  channel. It is what `FailureEndsProcess` rests on: `Fails` does not send when nobody is left
  to receive, and the property says that the others had then been told already.
* `FailureEndsProcess`, `CtrlCEndsProcess`: both rest on the server's drain ending.
* `TypeOK`: the types, and the link between a request's state, its reply and the server's
  phase (`ServerTypeOK`).

### Properties of `GuessAiNode`

* `ImplementsService`: with the engine in the place of its outline, every step is one of
  `Service`, and the fairness `Service` assumes of the engine's task is a consequence of
  the engine's own.
* `ToldAsPaid`: a paid guess that a player was told is wrong was judged by two processes, one
  that paid and another that told, and the earlier of the two did not end well. That this does
  happen is the point: every win panics before the cursor is saved (381), the page is replayed,
  and the guess is judged against another secret. Both orders are reached in the run: paid and
  then told wrong, and told wrong and then paid. What cannot happen is that one process says
  both, or that a process judges again what one that ended well had judged. It takes the
  engine's record, the map, the server's reply, the cursor file and the restart.
* `CleanExitLosesNothing`: when `main` returns without an error, ctrl-c was pressed, the
  cursor of the last event handled is in the file, and no request was cut off.
* `NodeTypeOK`: the types of both, and that what they share agrees.

### Properties of `ConfidentialChat`, `AdminClient` and `AdminServer`

* `AnswersItsRequest`: with reused keys and a service that mixes up and repeats replies,
  the reply that is accepted was made for the question at hand.
* `ImplementsModelRequest`: the question is one request to the engine: answered with its own
  reply, failed, or ended with the process, and one of these in the end.
* `LastOkHolds`: a setting has the value of the last call that returned `Ok`, or that of a
  call whose caller never got an answer. The exception is real: a call that was given up is
  executed after a later one that was answered, and the lock does not prevent it.
* `ErrMeansUntouched`: a call that returned an error has changed nothing and never will.
* `CallsEnd`: a call that waits for the client ends, whatever became of those before it.
* `TypeOK` (`AdminClient`): the lock is held by the call that is past it, and free otherwise.
* `RoutesServed`: the claim of `create_router`'s doc; see Findings.

Each property is paired with a mutation of a mapped definition that TLC must find to
violate it (`PROJECT.json`, "mutants"; the definitions commented "Mutation of" in the
modules).

### Fairness

`WF_vars(EngineStep /\ pc # "select")`: the engine's task is scheduled whenever it is not
waiting, and what a handler waits for answers in the end, with a result or an error. For
transactions that is `request_timeout` or the client's default; for the model API it is an
assumption, since `reqwest::Client::new()` sets no timeout (`atoma.rs` 209, 284).
Without it neither liveness property holds: the engine would wait at `checkGuess` and
never look at the shutdown signal. Nothing is assumed of the queries for events: each may
fail, or not be answered.

`SF_vars(StopOnSignal)`: `tokio::select!` polls its branches in random order each time
round, and `changed()` is ready as long as the value has not been seen; with pages
always coming, or queries always failing, `select` is reached again and again and the branch
is taken with probability 1. Weak fairness is not enough: the action is disabled while a page is
handled.

`GuessServer` and `Service` assume weak fairness of the handlers, of the clock, and of
the tasks (`WF_vars(ServerTask)` also says that `bind` ends). `WF_vars(sent /\ EngineTask)` is
what `ShutdownCompletes` shows of `Engine`: told to stop, the engine stops, fails or
panics. It inherits the assumption about the model API made above. `Start`, `Spawn`, `CtrlC`
and `Killed` have no fairness: nobody need start, stop or kill the process, and
`GuessAiEngine::new` may wait for ever.

`GuessAiNode` assumes of the engine what `Engine` does and of the other tasks what `Service`
does, and nothing of the engine's task as such: `WF_vars(sent /\ EngineTask)` is part of
what `ImplementsService` shows.

`ConfidentialChat` assumes that the two requests of a question are answered or fail
(`WF_vars(Lookup)`, `WF_vars(Reply)`): this is the same assumption about the model API,
put where the code makes it. `AdminClient` assumes that a transaction comes to an end
(`WF_vars(Command(c))`), and of the lock that those who wait get it in turn: tokio's
`RwLock` is first in, first out, so a call that waits is overtaken by none that came
later, and `SF_vars(Acquire(c))` is the weaker statement that no call is passed over for
ever.

Nothing is assumed of the environment: events need not come, processes need not be
started again, requests need not arrive and nobody need press ctrl-c.

## Findings

* `page_saved`: `engine.rs` 540 says the cursor file is updated after each page; it is
  written only when `has_next_page` is false (641).
* `won_secret`: after a payout, `generate_new_secret` may fail (366) and leaves the
  secret that was won in force, although "we start a new game with new word" (363). The
  next right guess is paid for the same word.
* `shutdown_save`: "Ensures cursor is saved on shutdown" (541). A shutdown that is
  requested while a guess is handled is not seen before the handler's `todo!`.
* `withdrawal`: "Treasury withdrawal fails" is listed among the errors returned
  (241-244); the client panics (`client.rs` 192).
* `available`: "will wait for the response to be available and will return it"
  (`http_server/server.rs` 78). After the last sleep only the time is looked at (101): an
  answer recorded during it is not returned.

* `admin_routes`: create_router "sets up the routes for the CLI server, including: Setting
  the fee rate increase per guess per milli" and four more with a value
  (`cli/server.rs` 51-57). Their handlers take the value by `Path` (90, 128, 149, 182, 215)
  from routes that have no parameter (16-21): every such request is answered with an
  internal server error. `set_game_inactive`, which takes none, is served.

Seen but not checked by a run, in the Atoma SDK: `request_node_public_url` is documented to
return an error for a non-success status and panics on one that is not an error either
(`atoma.rs` 87-89, 123); a reply that does not parse is documented as
`ParseResponseError` (91-92) and is reported, like a failed post, as
`RequestNodePublicUrlError` (127, 214); the doc of `verify_signature` lists status codes
(533-536) that it does not return. Elsewhere: a torn cursor file makes every later start fail, and
every idle poll rewrites the file; the key on chain and the engine's key differ after
a rotation whose model call fails; a handler's failed event is never taken up again,
so a winner whose withdrawal could not be built is not paid although the answer says
"correct"; `request_timeout` is read as seconds in `main.rs` (as `config.rs` 45
documents) and as milliseconds in `build_client` (`engine.rs` 159).

## Proofs

Assumptions: the named ASSUMEs of the modules, no more. `Engine`: a page holds at least
one event, `hint_wait_count` is one of a non-empty set of naturals, `Torn` is not a
number, the bounds are naturals. `GuessServer`, and `GuessAiNode`, which instantiates it:
the clock's constants are naturals, the pace and the ticks of a second positive. `GuessAiNode`:
games and counts are numbers. Nothing more is assumed of `hint_wait_count`, here or there.
`ConfidentialChat`: there are keys. `AdminClient`: calls are of the six commands. The bounds
are arbitrary.

Each proof module has the same shape: an inductive invariant as a conjunction of named
parts, one lemma for each part that says that a step preserves it (`KeyStep`, `PayoutStep`,
`SInvStep`, ...), one that says that it holds throughout, and the theorems. The step lemmas
speak of `[Next]_vars` and not of `Spec`, so that a module that composes or refines can use
them for steps of its own.

* `EngineProofs`. The inductive invariant is `IInv == TypeOK /\ LoopInv`. `LoopInv`
  says where the loop stands in its page: past all of it whenever `pc` is `select`,
  `truncate` or `write`, strictly inside it while a handler is at work, and never
  behind the file. Types alone are not inductive (a handler that finished the last
  event twice would take `pos` past `cursor`), nor is the refinement: a write maps to
  the abstract `Save` only because `pos = cursor` there. One lemma per group of
  variables shows that a step preserves it; `TypeCorrect`, `StreamStep` and
  `EngineImplementsStream` follow. `NothingSkipped` is proved of the abstract
  consumer once (`StreamSkipsNothing`) and carried over by the refinement
  (`EngineSkipsNothing`). `SelectWithinPage` follows from `LoopInv` as well
  (`SelectStep`): a handler at work has an event of its page before it, and a page has
  at most `Limit`.

  `SecretUnderKey` needs to know which key a secret is being requested under (`KeyInv`);
  `SecretRegistered` follows from `RegInv`: between the registration of a key and the
  secret under it, nothing touches either. `GracefulStop` needs that the file is whole
  when the loop stops (`FileInv`) and that incarnations end one after the other
  (`ExitInv`).
* `EnginePayoutProofs`. `PaidAgainOnlyAfterCrash` needs to know where the payouts made so far
  lie (`PayoutInv`): behind the loop of the process that made them, or at the event at hand
  while its new secret is generated (`PaidHere`), and behind the file if that process
  ended well (`PaidEarlier`). The other two theorems need that an answer is never recorded
  over another. `LogInv` says why keys differ (the contract's numbering is ordered, and no
  guess of the log is after the game it plays), `AnswersInv` that every answer is that of a
  guess the loop has gone past or has at hand; together they give `NotAnsweredYet` at the one
  step that records. `PaidInv` then carries the answer from the verdict to the payout.
* `ServiceProofs`. The inductive invariant is `SafeInv == SInv /\ TInv /\ SentType`, and
  `SInv == Shape /\ RequestInv /\ ShutdownInv`.
  `RequestInv` ties the server task's result to its phase and the phase to the requests in
  flight: when all tasks have returned, the server has closed or failed to bind, so
  `MainReturns` finds nothing in flight unless a task panicked, and that can only be the
  engine. `ShutdownInv` says that a value on the channel has a cause (ctrl-c, or a task
  that returned its own error) and that it is there once a task has returned; a masked
  error implies that its receivers were gone, the ctrl-c task's among them, hence that
  the shutdown was under way (`FailStep`). It also says that `main`'s result is what `Joined` makes of
  tasks that have all returned, from which `CauseKept` follows, and that a process starts with
  an empty channel. `TInv` bounds, for each place a request can be
  at, what it has waited by the time since it was last run: it was in time when it last
  looked at the clock (`InTime`), and an answer it has not seen is no older than its sleep
  (`Unseen`). `TimedOutAtDeadline` turns the whole seconds of the code into ticks.
* `GuessAiNodeProofs`. The composition is reasoned about with what was proved of its parts.
  Its initial states are those of `Engine` and every step of it is one of `Engine` or leaves
  that alone (`NodeIsEngine`), so all of the engine's lemmas apply, those about restarts
  included (`EngineInv`). Every step is also one of `Service` (`NodeIsService`), whose proofs are
  instantiated with the composition's variables (`SP`), which gives `SP!SafeInv`. The other
  conjuncts of `NodeInv` are the composition's own, and say what the two hold in common.
  `TaskInv`: `main` is at its start while `new` runs, then the engine's task runs as long as the
  engine does, its receiver has the value when the channel does, and its end is the task's
  result. `AnswerInv`: the map the server reads is the engine's record. That the engine's own
  steps are steps of `Service` (`EngineRefines`) takes both: an answer is recorded over none and
  after the engine's end nothing is, and a return without an error had seen the shutdown; a
  remainder by zero is a step like the others, after the one that records.

  `ToldAsPaid` relates processes, so it needs to know how far an earlier one went. `JudgedInv`
  says that a guess this process judged was not paid by an earlier one that ended well, and
  that a process that ended well has gone past all it judged, with the loop and with the file
  (`Behind`); what is behind the file is never judged again (`BehindStays`). `ToldInv` says of
  everyone who was told that a guess is wrong that this process recorded it so, or that an
  earlier one did, which has gone past the guess if it ended well. A payout is then by another
  process than the one that told (`AnswersInv` and `PaidInv` give one verdict for each process),
  and the earlier of the two had not ended well (`JudgedStep`, `ToldStep`).
  `CleanExitLosesNothing` is `TaskInv` with `GracefulStop` and `CleanExitAsked`.
  `NodeImplementsServiceSafety` is the safety part of `ImplementsService`; `NodeKeepsEngine`
  and `NodeKeepsService` restate for the whole node, over all its processes, what was proved of
  its parts.
* `ConfidentialChatProofs`. A request in flight is one of those sent, and its key names its
  question through the salt, so the reply that decrypts is its own (`AcceptStep`). Every
  step maps to one of `ModelRequest` (`ModelStep`).
* `AdminClientProofs`. The invariant is the lock's (`TypeOK`) and says of every call whether
  its transaction can still be executed: of a call that returned `Ok` or an error it
  cannot.
* `AdminServerProofs`. To the client, a request that the server refuses is a call that waits
  for the lock and never gets it; under this mapping every step of the server is one of
  the client (`ClientStep`), whose proofs are instantiated and give `LastOkHolds` and
  `ErrMeansUntouched`. `ServerInv` says that whatever is past the extractors has no value to
  take from a path: so of the six settings the server can only end a game
  (`AdminServerOnlySetsInactive`), which is finding `admin_routes` for every request there may
  be.

TLC checked each of these invariants before it was proved.

Only model-checked: liveness, which the proof system does not reach (fairness and ENABLED).
These are `EventsHandled`, `ShutdownCompletes`, `RequestEnds`, `FailureEndsProcess`,
`CtrlCEndsProcess`, `CallsEnd`, and the fairness in `ImplementsService` and
`ImplementsModelRequest`. Their safety cores are proved: `SelectWithinPage` for the engine's
loop, `EndIsTold` for the tasks, `AnsweredInTime` for requests, and `TypeOK` of `AdminClient`
for the lock, which is free once its holder has ended.

## Plan

Done: all modules named in the inventory, and the theorems above, among them one for every
safety and action property that a run checks. What is left, in this order:

1. The counterpart of `SelectWithinPage` for the other waits: how many steps of its holder
   the lock of `AdminClient` is held for, how many polls a request makes.
2. The JSON of events: which numbers of the chain (strings of `u64`) are taken, and which
   event types share a prefix (`GuessAiEventIdentifier`).

## Not modelled

Prompts are text. The Twitter client is constructed and never called. TDX quotes are not
compiled. Loading the configuration is parsing, without state. The deployment scripts
build and start the process. `docker-compose.yaml` restarts the proxy by itself, not the
node: a `Start` is the operator's. Nor does it give the cursor file a volume, so a container
that is created anew starts without one; the model keeps the file from one process to the
next, as a container that is started again does. The memory that the answers take
(they are never pruned) has no effect on any step.
