------------------------- MODULE AdminClientProofs -------------------------
(***************************************************************************)
(* Proofs about AdminClient, for any number of calls of any commands.      *)
(***************************************************************************)
EXTENDS AdminClient, TLAPS

\* What the contract holds was set by a call of that command that has executed
\* its transaction.
SetByExecuted ==
    \A k \in Commands :
        settings[k] # None =>
            /\ command[settings[k]] = k
            /\ pc[settings[k]] \in {"executed", "ok", "panic", "dropped"}

\* Between the execution of a call and its answer only a transaction that
\* nobody waits for can take its place.
ExecutedStays ==
    \A c \in Calls :
        pc[c] = "executed" =>
            LET s == settings[command[c]] IN
            s # None /\ (s = c \/ pc[s] \in {"panic", "dropped"})

Inv == TypeOK /\ SetByExecuted /\ ExecutedStays /\ LastOkHolds

LEMMA NoneIsNoCall == None \notin Calls
  BY CallsAssumption DEF None, Calls

LEMMA CommandOfCommands == \A K \in Mixes : [Calls -> K] \subseteq [Calls -> Commands]
<1> SUFFICES ASSUME NEW K \in Mixes, NEW f \in [Calls -> K]
             PROVE  f \in [Calls -> Commands]
  OBVIOUS
<1>1. K \subseteq Commands
  BY DEF Commands
<1> QED
  BY <1>1

LEMMA TypeInit == Init => TypeOK
<1> SUFFICES ASSUME Init PROVE TypeOK
  OBVIOUS
<1>1. command \in [Calls -> Commands]
  BY CommandOfCommands DEF Init
<1> QED
  BY <1>1, NoneIsNoCall DEF Init, TypeOK, Holding

LEMMA TypeStep == TypeOK /\ [Next]_vars => TypeOK'
<1> SUFFICES ASSUME TypeOK, [Next]_vars PROVE TypeOK'
  OBVIOUS
<1> USE NoneIsNoCall DEF TypeOK, Holding, Ends
<1>1. ASSUME NEW c \in Calls, Arrive(c) PROVE TypeOK'
  BY <1>1 DEF Arrive
<1>2. ASSUME NEW c \in Calls, Acquire(c) PROVE TypeOK'
  BY <1>2 DEF Acquire
<1>3. ASSUME NEW c \in Calls, BuildFails(c) PROVE TypeOK'
  BY <1>3 DEF BuildFails, Ended
<1>4. ASSUME NEW c \in Calls, Submit(c) PROVE TypeOK'
  BY <1>4 DEF Submit
<1>5. ASSUME NEW c \in Calls, Execute(c) PROVE TypeOK'
  BY <1>5 DEF Execute, Set
<1>6. ASSUME NEW c \in Calls, Succeed(c) PROVE TypeOK'
  BY <1>6 DEF Succeed, Ended
<1>7. ASSUME NEW c \in Calls, Panic(c) PROVE TypeOK'
  BY <1>7 DEF Panic, Ended, MayBeLate
<1>8. ASSUME NEW c \in Calls, Drop(c) PROVE TypeOK'
  BY <1>8 DEF Drop, Ended, MayBeLate
<1>9. ASSUME NEW c \in Calls, ExecuteLate(c) PROVE TypeOK'
  BY <1>9 DEF ExecuteLate, Set
<1>10. CASE UNCHANGED vars
  BY <1>10 DEF vars
<1> QED
  BY <1>1, <1>2, <1>3, <1>4, <1>5, <1>6, <1>7, <1>8, <1>9, <1>10
     DEF Next, Call, Command, SetFeeRateIncrease, SetGameInactive,
         SetAgentAddress, SetStartingFee, SetUpdateFeeEveryNGuesses,
         SetProtocolFee, Transaction, AllEnded

\* TypeOK of AdminClient is an invariant of it: above all, no two calls are past
\* the lock at once, and a call that ends leaves it free.
THEOREM TypeCorrect == Spec => []TypeOK
<1>1. Init => TypeOK
  BY TypeInit
<1>2. TypeOK /\ [Next]_vars => TypeOK'
  BY TypeStep
<1> QED
  BY <1>1, <1>2, PTL DEF Spec

-----------------------------------------------------------------------------
LEMMA InvInit == Init => Inv
  BY TypeInit DEF Init, Inv, SetByExecuted, ExecutedStays, LastOkHolds

LEMMA InvStep == Inv /\ [Next]_vars => Inv'
<1> SUFFICES ASSUME Inv, [Next]_vars
             PROVE  SetByExecuted' /\ ExecutedStays' /\ LastOkHolds'
  BY TypeStep DEF Inv
<1> USE NoneIsNoCall
    DEF Inv, TypeOK, Holding, Ends, SetByExecuted, ExecutedStays, LastOkHolds
<1>1. ASSUME NEW c \in Calls, Arrive(c) \/ Acquire(c) \/ Submit(c) \/ BuildFails(c)
      PROVE  SetByExecuted' /\ ExecutedStays' /\ LastOkHolds'
  <2>1. UNCHANGED <<command, settings, lastOk>>
    BY <1>1 DEF Arrive, Acquire, Submit, BuildFails
  <2>2. pc[c] \in {"none", "queued", "build"} /\ pc'[c] # "executed"
        /\ \A d \in Calls \ {c} : pc'[d] = pc[d]
    BY <1>1 DEF Arrive, Acquire, Submit, BuildFails, Ended
  <2> QED
    BY <2>1, <2>2
<1>2. ASSUME NEW c \in Calls, Execute(c)
      PROVE  SetByExecuted' /\ ExecutedStays' /\ LastOkHolds'
  <2>1. \A d \in Calls : pc[d] \notin {"executed"}
    BY <1>2 DEF Execute
  <2> QED
    BY <1>2, <2>1 DEF Execute, Set
<1>3. ASSUME NEW c \in Calls, Succeed(c)
      PROVE  SetByExecuted' /\ ExecutedStays' /\ LastOkHolds'
  <2>1. \A d \in Calls \ {c} : pc[d] # "executed" /\ pc'[d] = pc[d]
    BY <1>3 DEF Succeed, Ended
  <2>2. pc[c] = "executed" /\ pc'[c] = "ok" /\ UNCHANGED <<command, settings>>
        /\ lastOk' = [lastOk EXCEPT ![command[c]] = c]
    BY <1>3 DEF Succeed, Ended
  <2> QED
    BY <2>1, <2>2
<1>4. ASSUME NEW c \in Calls, Panic(c) \/ Drop(c)
      PROVE  SetByExecuted' /\ ExecutedStays' /\ LastOkHolds'
  <2>1. UNCHANGED <<command, settings, lastOk>>
    BY <1>4 DEF Panic, Drop
  <2>2. pc[c] \notin {"ok", "panic", "dropped"} /\ pc'[c] \in {"panic", "dropped"}
        /\ \A d \in Calls \ {c} : pc'[d] = pc[d]
    BY <1>4 DEF Panic, Drop, Ended
  <2> QED
    BY <2>1, <2>2
<1>5. ASSUME NEW c \in Calls, ExecuteLate(c)
      PROVE  SetByExecuted' /\ ExecutedStays' /\ LastOkHolds'
  BY <1>5 DEF ExecuteLate, Set
<1>6. CASE UNCHANGED vars
  BY <1>6 DEF vars
<1> QED
  BY <1>1, <1>2, <1>3, <1>4, <1>5, <1>6
     DEF Next, Call, Command, SetFeeRateIncrease, SetGameInactive,
         SetAgentAddress, SetStartingFee, SetUpdateFeeEveryNGuesses,
         SetProtocolFee, Transaction, AllEnded

\* Calls that were answered take effect on the contract in the order they
\* return Ok, whatever others panic, are dropped, or are executed late.
THEOREM LastOkHoldsCorrect == Spec => []LastOkHolds
<1>1. Inv => LastOkHolds
  BY DEF Inv
<1> QED
  BY <1>1, InvInit, InvStep, PTL DEF Spec

\* A call that returned an error has changed nothing and never will.
THEOREM ErrMeansUntouchedCorrect == Spec => []ErrMeansUntouched
<1>1. Inv => ErrMeansUntouched
  BY NoneIsNoCall DEF Inv, TypeOK, SetByExecuted, ErrMeansUntouched
<1> QED
  BY <1>1, InvInit, InvStep, PTL DEF Spec
=============================================================================
