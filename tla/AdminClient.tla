----------------------------- MODULE AdminClient -----------------------------
(***************************************************************************)
(* SuiClientContext of the cli crate: each command of the operator is one  *)
(* transaction on the game contract.  Those who use the client share it    *)
(* behind a lock and hold the lock for one command.                        *)
(*                                                                         *)
(* A caller may go away: the future of its call is dropped at the await it *)
(* is at, and the lock is free.  A transaction that was submitted by then, *)
(* or whose reply was lost, may still be executed.                         *)
(***************************************************************************)
EXTENDS Naturals

CONSTANTS
    MaxCalls,   \* bound: calls made
    Mixes       \* bound: sets of commands that calls are made of together

\* The functions of the contract that the client calls.
CommandNames ==
    {"set_fee_rate_increase_per_guess_per_mille", "set_game_inactive",
     "set_agent_address", "set_starting_fee", "set_update_fee_every_n_guesses",
     "set_protocol_fee_per_mille"}

ASSUME MixesAssumption == Mixes # {} /\ \A K \in Mixes : K \subseteq CommandNames
ASSUME CallsAssumption == MaxCalls \in Nat

\* Calls are numbered as they arrive; a number is also the value the call sets.
Calls == 1 .. MaxCalls
None == 0
Commands == UNION Mixes

VARIABLES
    pc,          \* of a call: none, queued, build, submit, executed, or how it ended
    command,     \* what a call asks for
    lock,        \* the call that holds the client, or None
    late,        \* unanswered calls whose transaction may still be executed
    settings,    \* the contract: the call that last set the value of a command
    lastOk       \* history: the last call of a command to return Ok

vars == <<pc, command, lock, late, settings, lastOk>>

Holding == {"build", "submit", "executed"}
Ends == {"ok", "err", "panic", "dropped"}

Init ==
    /\ pc = [c \in Calls |-> "none"]
    /\ \E K \in Mixes : command \in [Calls -> K]
    /\ lock = None
    /\ late = {}
    /\ settings = [k \in Commands |-> None]
    /\ lastOk = [k \in Commands |-> None]

-----------------------------------------------------------------------------
\* Definitions commented as the mutation of another are not part of Spec.

Arrive(c) ==
    /\ pc[c] = "none" /\ \A d \in 1 .. c - 1 : pc[d] # "none"
    /\ pc' = [pc EXCEPT ![c] = "queued"]
    /\ UNCHANGED <<command, lock, late, settings, lastOk>>

\* write() returns.
Acquire(c) ==
    /\ pc[c] = "queued" /\ lock = None
    /\ pc' = [pc EXCEPT ![c] = "build"]
    /\ lock' = c
    /\ UNCHANGED <<command, late, settings, lastOk>>

\* A call ends, and its guard with it.
Ended(c, how) ==
    /\ pc' = [pc EXCEPT ![c] = how]
    /\ lock' = IF lock = c THEN None ELSE lock

\* There is no client, or the transaction cannot be built.
BuildFails(c) ==
    /\ pc[c] = "build"
    /\ Ended(c, "err")
    /\ UNCHANGED <<command, late, settings, lastOk>>

\* Mutation of Submit: the lock is released before the transaction is executed.
SubmitUnlocked(c) ==
    /\ pc[c] = "build"
    /\ Ended(c, "submit")
    /\ UNCHANGED <<command, late, settings, lastOk>>

\* The transaction is built, signed and handed over for execution.
Submit(c) ==
    /\ pc[c] = "build"
    /\ pc' = [pc EXCEPT ![c] = "submit"]
    /\ UNCHANGED <<command, lock, late, settings, lastOk>>

Set(c) == settings' = [settings EXCEPT ![command[c]] = c]

Execute(c) ==
    /\ pc[c] = "submit"
    /\ Set(c)
    /\ pc' = [pc EXCEPT ![c] = "executed"]
    /\ UNCHANGED <<command, lock, late, lastOk>>

Succeed(c) ==
    /\ pc[c] = "executed"
    /\ Ended(c, "ok")
    /\ lastOk' = [lastOk EXCEPT ![command[c]] = c]
    /\ UNCHANGED <<command, late, settings>>

\* A transaction that its call no longer waits for may still be on its way.
MayBeLate(c) ==
    late' \in IF pc[c] = "submit" THEN {late, late \cup {c}} ELSE {late}

\* Mutations of Panic: the failure is returned as an error; the lock is not
\* released.
PanicAsErr(c) ==
    /\ pc[c] \in {"submit", "executed"}
    /\ Ended(c, "err")
    /\ MayBeLate(c)
    /\ UNCHANGED <<command, settings, lastOk>>

PanicLocked(c) ==
    /\ pc[c] \in {"submit", "executed"}
    /\ pc' = [pc EXCEPT ![c] = "panic"]
    /\ MayBeLate(c)
    /\ UNCHANGED <<command, lock, settings, lastOk>>

\* execute_transaction_must_succeed panics on a transaction that failed, and on
\* one it does not learn about. A panic does not poison this lock.
Panic(c) ==
    /\ pc[c] \in {"submit", "executed"}
    /\ Ended(c, "panic")
    /\ MayBeLate(c)
    /\ UNCHANGED <<command, settings, lastOk>>

\* Mutation of Drop: the lock goes with the transaction, not with the call.
DropLocked(c) ==
    /\ pc[c] \in {"queued"} \cup Holding
    /\ IF pc[c] = "submit"
       THEN pc' = [pc EXCEPT ![c] = "dropped"] /\ UNCHANGED lock
       ELSE Ended(c, "dropped")
    /\ MayBeLate(c)
    /\ UNCHANGED <<command, settings, lastOk>>

\* The caller has gone away.
Drop(c) ==
    /\ pc[c] \in {"queued"} \cup Holding
    /\ Ended(c, "dropped")
    /\ MayBeLate(c)
    /\ UNCHANGED <<command, settings, lastOk>>

\* The contract executes the transaction of a call that got no answer.
ExecuteLate(c) ==
    /\ c \in late
    /\ late' = late \ {c}
    /\ Set(c)
    /\ UNCHANGED <<pc, command, lock, lastOk>>

-----------------------------------------------------------------------------
\* What every command does with the lock in hand.
Transaction(c) ==
    BuildFails(c) \/ Submit(c) \/ Execute(c) \/ Succeed(c) \/ Panic(c)

SetFeeRateIncrease(c) ==
    command[c] = "set_fee_rate_increase_per_guess_per_mille" /\ Transaction(c)
SetGameInactive(c) == command[c] = "set_game_inactive" /\ Transaction(c)
SetAgentAddress(c) == command[c] = "set_agent_address" /\ Transaction(c)
SetStartingFee(c) == command[c] = "set_starting_fee" /\ Transaction(c)
SetUpdateFeeEveryNGuesses(c) ==
    command[c] = "set_update_fee_every_n_guesses" /\ Transaction(c)
SetProtocolFee(c) == command[c] = "set_protocol_fee_per_mille" /\ Transaction(c)

Command(c) ==
    \/ SetFeeRateIncrease(c) \/ SetGameInactive(c) \/ SetAgentAddress(c)
    \/ SetStartingFee(c) \/ SetUpdateFeeEveryNGuesses(c) \/ SetProtocolFee(c)

Call(c) == Arrive(c) \/ Acquire(c) \/ Command(c) \/ Drop(c)

\* Every call has ended, and every transaction has been executed or lost.
AllEnded ==
    /\ \A c \in Calls : pc[c] \in Ends
    /\ UNCHANGED vars

Next == (\E c \in Calls : Call(c) \/ ExecuteLate(c)) \/ AllEnded

(***************************************************************************)
(* A transaction comes to an end, and the lock hands itself to those who   *)
(* wait in the order they came, so that each of them gets it in the end.   *)
(***************************************************************************)
Fairness == \A c \in Calls : WF_vars(Command(c)) /\ SF_vars(Acquire(c))

Spec == Init /\ [][Next]_vars /\ Fairness

-----------------------------------------------------------------------------
\* The values of the variables. The lock is held by the one call that is past
\* it and has not ended, and by nobody otherwise.
TypeOK ==
    /\ pc \in [Calls -> {"none", "queued"} \cup Holding \cup Ends]
    /\ command \in [Calls -> Commands]
    /\ lock \in Calls \cup {None}
    /\ \A c \in Calls : pc[c] \in Holding <=> lock = c
    /\ late \subseteq {c \in Calls : pc[c] \in {"panic", "dropped"}}
    /\ settings \in [Commands -> Calls \cup {None}]
    /\ lastOk \in [Commands -> Calls \cup {None}]

\* The contract has, for each command, the value of the last call that returned
\* Ok, unless a call whose caller got no answer has overwritten it: two calls
\* that were both answered never take effect in another order than they return.
LastOkHolds ==
    \A k \in Commands :
        settings[k] # lastOk[k] =>
            settings[k] # None /\ pc[settings[k]] \in {"executed", "panic", "dropped"}

\* A call that returns an error has changed nothing and never will: the operator
\* may make it again.
ErrMeansUntouched ==
    \A c \in Calls :
        pc[c] = "err" => c \notin late /\ \A k \in Commands : settings[k] # c

\* A call that waits for the client gets an answer or is given up, however
\* those before it end.
CallsEnd == \A c \in Calls : pc[c] = "queued" ~> pc[c] \in Ends
=============================================================================
