---------------------------- MODULE EventStream ----------------------------
(***************************************************************************)
(* What the event subscriber promises of the stream it reads: every event  *)
(* published is consumed, in order, at least once.  A consumer is at       *)
(* position `next`; it saves that position in a checkpoint now and then    *)
(* and, when it starts again, goes back to the position it last saved.  A  *)
(* save is not atomic: the old checkpoint is lost before the new one is    *)
(* there, and a consumer without a checkpoint to recover stops for good.   *)
(***************************************************************************)
EXTENDS Naturals

CONSTANT Lost   \* the checkpoint while it is replaced

VARIABLES
    published,   \* number of events in the stream
    next,        \* events the consumer has gone past since it started
    checkpoint,  \* the position saved last, or Lost
    consumed     \* events consumed by any incarnation of the consumer

vars == <<published, next, checkpoint, consumed>>

TypeOK ==
    /\ published \in Nat
    /\ next \in 0 .. published
    /\ checkpoint \in Nat \cup {Lost}
    /\ consumed \subseteq 1 .. published

Init ==
    /\ published = 0
    /\ next = 0
    /\ checkpoint = 0
    /\ consumed = {}

Publish ==
    /\ published' = published + 1
    /\ UNCHANGED <<next, checkpoint, consumed>>

\* The event after the last one consumed, never another.
Consume ==
    /\ next < published
    /\ next' = next + 1
    /\ consumed' = consumed \cup {next + 1}
    /\ UNCHANGED <<published, checkpoint>>

Erase ==
    /\ checkpoint' = Lost
    /\ UNCHANGED <<published, next, consumed>>

\* Only the consumer's own position is ever saved.
Save ==
    /\ checkpoint' = next
    /\ UNCHANGED <<published, next, consumed>>

Recover ==
    /\ checkpoint # Lost
    /\ next' = checkpoint
    /\ UNCHANGED <<published, checkpoint, consumed>>

Next == Publish \/ Consume \/ Erase \/ Save \/ Recover

Spec == Init /\ [][Next]_vars

-----------------------------------------------------------------------------
\* No event is skipped: whatever was consumed, by whichever incarnation, is a
\* prefix of the stream, and neither the consumer's position nor its
\* checkpoint lies beyond it.
NothingSkipped ==
    /\ \A i \in consumed : 1 .. i \subseteq consumed
    /\ 1 .. next \subseteq consumed
    /\ checkpoint # Lost => checkpoint <= next
=============================================================================
