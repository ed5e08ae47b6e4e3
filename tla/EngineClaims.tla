---------------------------- MODULE EngineClaims ----------------------------
(***************************************************************************)
(* What the comments of engine.rs say of the engine and the code does not  *)
(* do: TLC finds each of these violated by a behaviour of Engine's Spec.   *)
(***************************************************************************)
EXTENDS Engine

\* "Updates cursor file after processing each page of events" (run): when the
\* next page is asked for, the file holds the cursor.
EachPageSaved == Running /\ pc = "select" => cursorFile = cursor

\* "The game ended, we start a new game with new word" (handle_new_guess_event,
\* after the withdrawal): a secret is paid for once.
WonSecretRetired ==
    \A i, j \in DOMAIN payouts :
        payouts[i].secret = payouts[j].secret => i = j

\* "Ensures cursor is saved on shutdown" (run): a process that was asked to stop
\* and was not killed, and whose disk did not fail, leaves its cursor saved.
ShutdownSavesCursor ==
    pc = "down" /\ boot > 0 /\ shutdown /\ exits[boot] \notin {"killed", "error"} =>
        cursor = 0 \/ cursorFile = cursor

\* "Returns ... a GuessAiEngineError if: ... Treasury withdrawal fails"
\* (handle_new_guess_event): a withdrawal does not end the process.
WithdrawalErrorReturned ==
    [][pc = "withdraw" /\ pc' = "down" => exits'[boot] # "panic"]_vars
=============================================================================
