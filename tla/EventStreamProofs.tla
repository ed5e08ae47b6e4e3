------------------------- MODULE EventStreamProofs -------------------------
(***************************************************************************)
(* What the abstract consumer of EventStream guarantees.                   *)
(***************************************************************************)
EXTENDS EventStream, TLAPS

\* The position, the checkpoint and the number of events are numbers, and the
\* consumer is never past the end of the stream.
LEMMA StreamTypeCorrect == Spec => []TypeOK
<1> DEFINE IInv == TypeOK /\ (checkpoint # Lost => checkpoint <= next)
<1>1. Init => IInv
  BY DEF Init, TypeOK
<1>2. IInv /\ [Next]_vars => IInv'
  <2> SUFFICES ASSUME IInv, [Next]_vars
               PROVE  IInv'
    OBVIOUS
  <2>1. CASE Publish
    BY <2>1 DEF Publish, TypeOK
  <2>2. CASE Consume
    BY <2>2 DEF Consume, TypeOK
  <2>3. CASE Erase
    BY <2>3 DEF Erase, TypeOK
  <2>4. CASE Save
    BY <2>4 DEF Save, TypeOK
  <2>5. CASE Recover
    BY <2>5 DEF Recover, TypeOK
  <2>6. CASE UNCHANGED vars
    BY <2>6 DEF vars, TypeOK
  <2> QED
    BY <2>1, <2>2, <2>3, <2>4, <2>5, <2>6 DEF Next
<1> QED
  BY <1>1, <1>2, PTL DEF Spec

\* Whatever is consumed is the event after the last, and a position that is
\* recovered was saved.
LEMMA SkipStep == TypeOK /\ NothingSkipped /\ [Next]_vars => NothingSkipped'
<1> SUFFICES ASSUME TypeOK, NothingSkipped, [Next]_vars
             PROVE  NothingSkipped'
  OBVIOUS
<1>1. CASE Publish
  BY <1>1 DEF Publish, NothingSkipped
<1>2. CASE Consume
  <2>1. 1 .. next' \subseteq consumed'
    BY <1>2 DEF Consume, TypeOK, NothingSkipped
  <2>2. \A i \in consumed' : 1 .. i \subseteq consumed'
    BY <1>2, <2>1 DEF Consume, TypeOK, NothingSkipped
  <2>3. checkpoint' # Lost => checkpoint' <= next'
    BY <1>2 DEF Consume, TypeOK, NothingSkipped
  <2> QED
    BY <2>1, <2>2, <2>3 DEF NothingSkipped
<1>3. CASE Erase
  BY <1>3 DEF Erase, NothingSkipped
<1>4. CASE Save
  BY <1>4 DEF Save, TypeOK, NothingSkipped
<1>5. CASE Recover
  BY <1>5 DEF Recover, TypeOK, NothingSkipped
<1>6. CASE UNCHANGED vars
  BY <1>6 DEF vars, NothingSkipped
<1> QED
  BY <1>1, <1>2, <1>3, <1>4, <1>5, <1>6 DEF Next

\* No event is skipped: what was consumed is a prefix of the stream that
\* reaches up to the consumer's position, and so to any checkpoint.
THEOREM StreamSkipsNothing == Spec => []NothingSkipped
<1>1. Init => NothingSkipped
  BY DEF Init, NothingSkipped
<1>2. TypeOK /\ NothingSkipped /\ [Next]_vars => NothingSkipped'
  BY SkipStep
<1> QED
  BY <1>1, <1>2, StreamTypeCorrect, PTL DEF Spec
=============================================================================
