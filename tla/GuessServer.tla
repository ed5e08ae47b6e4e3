---------------------------- MODULE GuessServer ----------------------------
(***************************************************************************)
(* The HTTP server players ask for the verdict on their guess.  A request  *)
(* polls the answers the engine shares with the server, and sleeps between *)
(* two polls, until it finds its answer or has waited too long.  The       *)
(* answers are behind a lock that nobody holds across an await, so a look  *)
(* and a write are steps.                                                  *)
(*                                                                         *)
(* Time passes in ticks.  A task that is due is run at most MaxLate ticks  *)
(* later.                                                                  *)
(***************************************************************************)
EXTENDS Naturals

CONSTANTS
    Requests,         \* requests that may arrive
    Guesses,          \* game id and guess number a request asks for
    PollTicks,        \* WAIT_BETWEEN_GUESS_RESPONSE_CHECKS_MS
    TicksPerSecond,
    TimeoutSeconds,   \* GUESS_RESPONSE_TIMEOUT_SEC
    MaxLate           \* bound: delay of a task that is due

ASSUME ClockAssumption ==
    /\ PollTicks \in Nat \ {0} /\ TicksPerSecond \in Nat \ {0}
    /\ TimeoutSeconds \in Nat /\ MaxLate \in Nat

VARIABLES
    answers,   \* guess -> verdict, as far as the engine has recorded them
    age,       \* history: ticks since an answer was recorded, saturated
    phase,     \* of the server: binding, serving, draining, closed, failed
    pc,        \* of a request
    guess,     \* what it asks for
    waited,    \* ticks since start_time
    since,     \* ticks since it was last run
    reply      \* what it was answered

requestVars == <<pc, guess, waited, since, reply>>
serverVars == <<answers, age, phase, requestVars>>

\* Answer::correct, with its explanation left out.
Verdicts == {"correct", "wrong"}

InFlight == {r \in Requests : pc[r] \in {"poll", "sleep"}}

\* A request that is overdue at its next tick must be run before it.
Due(r) == IF pc[r] = "poll" THEN 0 ELSE PollTicks
MaxAge == PollTicks + MaxLate + 1

NoAnswers == [g \in {} |-> "wrong"]
NoAges == [g \in {} |-> 0]

ServerInit ==
    /\ answers = NoAnswers /\ age = NoAges
    /\ phase = "binding"
    /\ pc = [r \in Requests |-> "none"]
    /\ guess \in [Requests -> Guesses]
    /\ waited = [r \in Requests |-> 0] /\ since = [r \in Requests |-> 0]
    /\ reply = [r \in Requests |-> "none"]

-----------------------------------------------------------------------------
\* The engine records an answer, once for each guess.
Record(g, verdict) ==
    /\ g \notin DOMAIN answers
    /\ answers' = [h \in DOMAIN answers \cup {g} |->
                      IF h = g THEN verdict ELSE answers[h]]
    /\ age' = [h \in DOMAIN answers' |-> IF h = g THEN 0 ELSE age[h]]
    /\ UNCHANGED <<phase, requestVars>>

\* TcpListener::bind; when it fails start_server returns the error.
Bind ==
    /\ phase = "binding"
    /\ phase' \in {"serving", "failed"}
    /\ UNCHANGED <<answers, age, requestVars>>

Arrive(r) ==
    /\ phase = "serving" /\ pc[r] = "none"
    /\ pc' = [pc EXCEPT ![r] = "poll"]
    /\ UNCHANGED <<answers, age, phase, guess, waited, since, reply>>

\* The handler is dropped with its connection.
Disconnect(r) ==
    /\ r \in InFlight
    /\ pc' = [pc EXCEPT ![r] = "gone"]
    /\ UNCHANGED <<answers, age, phase, guess, waited, since, reply>>

Respond(r, what) ==
    /\ pc' = [pc EXCEPT ![r] = "replied"]
    /\ reply' = [reply EXCEPT ![r] = what]
    /\ UNCHANGED <<answers, age, phase, guess, waited, since>>

\* Mutation of Poll: no sleep after a look that found nothing.
PollWithoutSleep(r) ==
    /\ pc[r] = "poll" /\ guess[r] \in DOMAIN answers
    /\ Respond(r, answers[guess[r]])

\* One look at the answers.
Poll(r) ==
    /\ pc[r] = "poll"
    /\ IF guess[r] \in DOMAIN answers
       THEN Respond(r, answers[guess[r]])
       ELSE /\ pc' = [pc EXCEPT ![r] = "sleep"]
            /\ since' = [since EXCEPT ![r] = 0]
            /\ UNCHANGED <<answers, age, phase, guess, waited, reply>>

\* Mutations of TimedOut: elapsed() compared in full rather than in seconds;
\* start_time taken anew at each turn of the loop.
TimedOutExactly(r) == waited[r] > TimeoutSeconds * TicksPerSecond
TimedOutPerTurn(r) == since[r] \div TicksPerSecond > TimeoutSeconds
\* as_secs() drops the fraction of a second.
TimedOut(r) == waited[r] \div TicksPerSecond > TimeoutSeconds

\* Mutation of Wake: the answers are looked at once, before the loop.
WakeWithoutLooking(r) ==
    /\ pc[r] = "sleep" /\ since[r] >= PollTicks
    /\ IF TimedOut(r)
       THEN Respond(r, "noContent")
       ELSE /\ since' = [since EXCEPT ![r] = 0]
            /\ UNCHANGED <<answers, age, phase, pc, guess, waited, reply>>

\* The end of a sleep: the time is looked at before the answers are again.
Wake(r) ==
    /\ pc[r] = "sleep" /\ since[r] >= PollTicks
    /\ IF TimedOut(r)
       THEN Respond(r, "noContent")
       ELSE /\ pc' = [pc EXCEPT ![r] = "poll"]
            /\ since' = [since EXCEPT ![r] = 0]
            /\ UNCHANGED <<answers, age, phase, guess, waited, reply>>

Tick ==
    /\ InFlight # {}
    /\ \A r \in InFlight : since[r] < Due(r) + MaxLate
    /\ waited' = [r \in Requests |-> waited[r] + IF r \in InFlight THEN 1 ELSE 0]
    /\ since' = [r \in Requests |-> since[r] + IF r \in InFlight THEN 1 ELSE 0]
    /\ age' = [g \in DOMAIN age |-> IF age[g] < MaxAge THEN age[g] + 1 ELSE MaxAge]
    /\ UNCHANGED <<answers, phase, pc, guess, reply>>

\* Graceful shutdown: no new request is taken and those in flight go on.
Drain ==
    /\ phase = "serving"
    /\ phase' = "draining"
    /\ UNCHANGED <<answers, age, requestVars>>

\* Mutations of Close: the server waits for requests whose connection is gone;
\* it does not wait for its requests at all.
CloseOnReplies ==
    /\ phase = "draining" /\ \A r \in Requests : pc[r] \in {"none", "replied"}
    /\ phase' = "closed"
    /\ UNCHANGED <<answers, age, requestVars>>

CloseAtOnce ==
    /\ phase = "draining"
    /\ phase' = "closed"
    /\ UNCHANGED <<answers, age, requestVars>>

Close ==
    /\ phase = "draining" /\ InFlight = {}
    /\ phase' = "closed"
    /\ UNCHANGED <<answers, age, requestVars>>

-----------------------------------------------------------------------------
Handler(r) == Poll(r) \/ Wake(r)

ServerStopped ==
    /\ phase \in {"closed", "failed"} /\ InFlight = {}
    /\ UNCHANGED serverVars

ServerNext ==
    \/ \E g \in Guesses, verdict \in Verdicts : Record(g, verdict)
    \/ \E r \in Requests : Arrive(r) \/ Disconnect(r) \/ Handler(r)
    \/ Bind \/ Tick \/ Drain \/ Close \/ ServerStopped

\* Handlers are run, time passes and a server that has drained returns.
ServerFairness ==
    /\ \A r \in Requests : WF_serverVars(Handler(r))
    /\ WF_serverVars(Tick) /\ WF_serverVars(Close)

ServerSpec == ServerInit /\ [][ServerNext]_serverVars /\ ServerFairness

-----------------------------------------------------------------------------
\* The values of the variables; a request has its reply when it is replied to,
\* and none is in flight before the server serves or after it has returned.
ServerTypeOK ==
    /\ DOMAIN answers \subseteq Guesses /\ DOMAIN age = DOMAIN answers
    /\ \A g \in DOMAIN answers : answers[g] \in Verdicts /\ age[g] \in 0 .. MaxAge
    /\ phase \in {"binding", "serving", "draining", "closed", "failed"}
    /\ pc \in [Requests -> {"none", "poll", "sleep", "replied", "gone", "dropped"}]
    /\ guess \in [Requests -> Guesses]
    /\ waited \in [Requests -> Nat] /\ since \in [Requests -> Nat]
    /\ reply \in [Requests -> {"none", "noContent"} \cup Verdicts]
    /\ \A r \in Requests : pc[r] = "replied" <=> reply[r] # "none"
    /\ phase \in {"binding", "closed", "failed"} => InFlight = {}

GaveUp(r) == pc[r] = "replied" /\ reply[r] = "noContent"

\* GUESS_RESPONSE_TIMEOUT_SEC is compared with whole seconds: a request gives
\* up in the second after the last one it may wait for, and never before.
GivesUpAfterTimeout ==
    \A r \in Requests :
        GaveUp(r) => waited[r] >= (TimeoutSeconds + 1) * TicksPerSecond

\* A request is never held longer than the timeout, the rest of that second,
\* one sleep, and the delay of the two runs of its handler that these span.
AnsweredInTime ==
    \A r \in Requests :
        waited[r] < (TimeoutSeconds + 1) * TicksPerSecond + PollTicks + 2 * MaxLate

\* An answer recorded long enough ago for a poll to have seen it is not missed,
\* not even by a request that runs out of time.
NoStaleMiss ==
    [][\A r \in Requests :
          pc[r] = "sleep" /\ GaveUp(r)' /\ guess[r] \in DOMAIN answers =>
              age[guess[r]] <= PollTicks + MaxLate]_serverVars

\* A request ends, with a reply or with its connection.
RequestEnds == \A r \in Requests : pc[r] = "poll" ~> r \notin InFlight
=============================================================================
