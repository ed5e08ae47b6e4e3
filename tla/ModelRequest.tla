---------------------------- MODULE ModelRequest ----------------------------
(***************************************************************************)
(* What the engine relies on when it asks the model something: one request *)
(* at a time, and each ends with the reply to that request, with an error, *)
(* or with the process.                                                    *)
(***************************************************************************)
EXTENDS Naturals

VARIABLES
    asked,      \* requests made so far; a request is named by its number
    call,       \* idle, waiting, or down with the process
    answered    \* which request got the reply to which

vars == <<asked, call, answered>>

Init == asked = 0 /\ call = "idle" /\ answered = {}

Ask ==
    /\ call = "idle"
    /\ asked' = asked + 1
    /\ call' = "waiting"
    /\ UNCHANGED answered

Answer ==
    /\ call = "waiting"
    /\ answered' = answered \cup {<<asked, asked>>}
    /\ call' = "idle"
    /\ UNCHANGED asked

Fail ==
    /\ call = "waiting"
    /\ call' \in {"idle", "down"}
    /\ UNCHANGED <<asked, answered>>

Restart ==
    /\ call = "down"
    /\ call' = "idle"
    /\ UNCHANGED <<asked, answered>>

Return == Answer \/ Fail

Next == Ask \/ Return \/ Restart

\* A request does not wait for ever.
Spec == Init /\ [][Next]_vars /\ WF_vars(Return)
=============================================================================
