------------------------- MODULE EnginePayoutProofs -------------------------
(***************************************************************************)
(* The money and the answers players poll for: an event is paid twice only *)
(* after a crash, no answer changes while the process lives, and a guess   *)
(* that was paid is recorded as right.                                     *)
(*                                                                         *)
(* The last two rest on the contract, which numbers the guesses of a game  *)
(* and the games, so that no two guesses have one key; and on the loop,    *)
(* which handles an event once in a process, so that no key is recorded    *)
(* twice.                                                                  *)
(***************************************************************************)
EXTENDS EngineProofs

\* A payout of this process lies behind the loop, or is that of the event for
\* which a new secret is being generated.
PaidHere ==
    \A i \in DOMAIN payouts :
        payouts[i].boot = boot /\ pc # "down" =>
            /\ Running
            /\ \/ payouts[i].event <= pos
               \/ /\ payouts[i].event = Current
                  /\ pc \in {"submitKey", "requestSecret"}

\* A payout of a process that ended well lies behind the loop and the file.
PaidEarlier ==
    \A i \in DOMAIN payouts :
        payouts[i].boot <= Len(exits) /\ exits[payouts[i].boot] = "ok" =>
            /\ payouts[i].event <= pos
            /\ cursorFile # Torn => payouts[i].event <= cursorFile

PayoutInv ==
    /\ \A i \in DOMAIN payouts : payouts[i].boot \in 1 .. boot
    /\ PaidHere
    /\ PaidEarlier
    /\ PaidAgainOnlyAfterCrash

-----------------------------------------------------------------------------
\* What a step may do to the payouts: nothing, or add one of the event at hand.
LEMMA PayoutsStep ==
    ASSUME IInv, [Next]_vars
    PROVE  \/ UNCHANGED payouts
           \/ /\ pc = "withdraw" /\ PayWinner
              /\ UNCHANGED <<boot, pos, cursorFile, caller>>
              /\ \/ pc' = "submitKey" /\ UNCHANGED exits
                 \/ Exit("panic")
<1>1. CASE Withdraw
  BY <1>1 DEF Withdraw, process, loopVars
<1>2. CASE TransactionPanics
  BY <1>2 DEF TransactionPanics, process, loopVars
<1> QED
  BY <1>1, <1>2
     DEF Next, EngineStep, GenerateSecret, HandleEvent, Run, Environment,
         PublishGuess, PublishOther, RequestShutdown, Kill, Start, Retired,
         SubmitKey, FirstSecret, NextSecret, RotatedSecret, GenerateErr,
         DispatchGuess, DispatchRotate, DispatchOther, RightGuess, WrongGuess,
         CheckHint, Hint, HandlerErr, EmptyChoices, ReadCursor,
         ReadCursorFails, FetchPage, QueryFails, PageDone, StopOnSignal,
         TruncateFile, WriteFile, WriteFails, vars, chainVars

\* Ended incarnations stay as they ended; the running one may start or end.
LEMMA ExitsStep ==
    ASSUME IInv, ExitInv, [Next]_vars
    PROVE  /\ boot' \in {boot, boot + 1}
           /\ \A b \in 1 .. Len(exits) : exits'[b] = exits[b]
           /\ \/ UNCHANGED exits
              \/ /\ pc # "down" /\ pc' = "down" /\ UNCHANGED boot
                 /\ Len(exits) = boot - 1 /\ Len(exits') = boot
<1>1. CASE PublishGuess \/ PublishOther \/ RequestShutdown \/ Retired \/ UNCHANGED vars
  BY <1>1 DEF PublishGuess, PublishOther, RequestShutdown, Retired, vars, process
<1>2. CASE Start
  BY <1>2 DEF Start
<1>3. ASSUME pc # "down", UNCHANGED process,
             NEW why \in {"ok", "error", "panic", "killed"}, Exit(why)
      PROVE  /\ boot' = boot /\ pc' = "down"
             /\ Len(exits) = boot - 1 /\ Len(exits') = boot
             /\ \A b \in 1 .. Len(exits) : exits'[b] = exits[b]
  BY <1>3, ExitAppends DEF process, Exit, ExitInv
<1>4. CASE Kill
  BY <1>3, <1>4 DEF Kill
<1>5. CASE EngineStep
  <2>1. pc # "down" /\ UNCHANGED process
    BY <1>5, StepOrExit
  <2>2. CASE UNCHANGED exits
    BY <2>1, <2>2 DEF process
  <2>3. CASE Exit("error") \/ Exit("panic") \/ Exit("ok")
    BY <1>3, <2>1, <2>3
  <2> QED
    BY <1>5, <2>2, <2>3, StepOrExit
<1> QED
  BY <1>1, <1>2, <1>4, <1>5 DEF Next, Environment

\* A payout is of an event, a number.
LEMMA PayoutEvent ==
    ASSUME IInv, NEW i \in DOMAIN payouts
    PROVE  payouts[i].event \in Nat
<1> DEFINE Payout == [event : Nat, boot : Nat, secret : Secrets]
<1>1. payouts \in Seq(Payout)
  BY DEF IInv, TypeOK, ChainTypeOK
<1>2. payouts[i] \in Payout
  <2> HIDE DEF Payout
  <2>1. i \in 1 .. Len(payouts)
    BY <1>1
  <2> QED
    BY <1>1, <2>1, ElementOfSeq
<1> QED
  BY <1>2

\* Without a withdrawal, what this process has paid stays behind its loop.
LEMMA PaidHereStep ==
    ASSUME IInv, PayoutInv, [Next]_vars, UNCHANGED payouts
    PROVE  PaidHere'
<1> USE DEF PaidHere, Running
<1>0. PaidHere /\ boot \in Nat /\ \A i \in DOMAIN payouts : payouts[i].boot \in 1 .. boot
  BY DEF PayoutInv, IInv, TypeOK, ProcessTypeOK
<1>1. CASE pc' = "down"
  BY <1>1
<1>2. ASSUME UNCHANGED <<pc, caller, pos, boot>>
      PROVE  PaidHere'
  BY <1>0, <1>2 DEF Current
<1>3. CASE PublishGuess \/ PublishOther \/ Retired \/ QueryFails \/ UNCHANGED vars
  BY <1>2, <1>3
     DEF PublishGuess, PublishOther, Retired, QueryFails, vars, loopVars, process
<1>4. CASE RequestShutdown
  BY <1>2, <1>4 DEF RequestShutdown, loopVars
<1>5. CASE Start
  BY <1>0, <1>5 DEF Start
<1>6. ASSUME pc # "down", ~Running, UNCHANGED boot
      PROVE  PaidHere'
  BY <1>0, <1>6
<1>7. CASE FirstSecret \/ ReadCursor
  BY <1>6, <1>7 DEF FirstSecret, ReadCursor, process
<1>8. ASSUME pc # "down", EventDone, UNCHANGED <<caller, boot>>
      PROVE  PaidHere'
  <2>1. pos \in Nat /\ pos' = pos + 1
    BY <1>8 DEF EventDone, Current, IInv, TypeOK, LoopTypeOK, ChainTypeOK
  <2>2. ASSUME NEW i \in DOMAIN payouts, payouts[i].boot = boot
        PROVE  payouts[i].event <= pos'
    <3>1. payouts[i].event \in Nat
      BY <2>2, PayoutEvent
    <3> QED
      BY <1>0, <1>8, <2>1, <2>2, <3>1 DEF Current
  <2> QED
    BY <1>0, <1>8, <2>2 DEF EventDone
<1>9. CASE RotatedSecret \/ DispatchOther \/ HandlerErr
  BY <1>8, <1>9 DEF RotatedSecret, DispatchOther, HandlerErr, process
<1>10. CASE GenerateErr
  BY <1>1, <1>8, <1>10 DEF GenerateErr, Exit, process
<1>11. CASE CheckHint
  <2>1. CASE EventDone
    BY <1>8, <1>11, <2>1 DEF CheckHint, process
  <2>2. CASE pc' = "hint" /\ UNCHANGED pos
    BY <1>0, <1>11, <2>2 DEF CheckHint, process
  <2> QED
    BY <1>1, <1>11, <2>1, <2>2 DEF CheckHint, Exit
<1>12. CASE SubmitKey
  BY <1>0, <1>12 DEF SubmitKey, process, loopVars, Current
<1>13. ASSUME pc \in {"dispatch", "checkGuess", "select", "truncate", "write"},
              pc' \in Loop \cup Handlers, caller' # "new", UNCHANGED <<pos, boot>>
       PROVE  PaidHere'
  BY <1>0, <1>13 DEF Loop, Handlers
<1>14. CASE DispatchGuess \/ DispatchRotate \/ RightGuess \/ WrongGuess
  BY <1>13, <1>14
     DEF DispatchGuess, DispatchRotate, RightGuess, WrongGuess, process,
         loopVars, Handlers, IInv, LoopInv
<1>15. CASE FetchPage \/ PageDone
  BY <1>13, <1>15 DEF FetchPage, PageDone, process, loopVars, Loop
<1>16. CASE StopOnSignal \/ TruncateFile \/ WriteFile
  BY <1>1, <1>13, <1>16
     DEF StopOnSignal, TruncateFile, WriteFile, Exit, process, loopVars, Loop,
         IInv, LoopInv
<1>17. CASE Kill \/ NextSecret \/ Hint \/ EmptyChoices \/ TransactionPanics
            \/ ReadCursorFails \/ WriteFails
  BY <1>1, <1>17
     DEF Kill, NextSecret, Hint, EmptyChoices, TransactionPanics,
         ReadCursorFails, WriteFails, Exit
<1>18. CASE Withdraw
  <2>1. payouts' = Append(payouts, [event |-> Current, boot |-> boot, secret |-> secret])
    BY <1>18 DEF Withdraw, PayWinner
  <2>2. Len(payouts') = Len(payouts) + 1
    BY <2>1 DEF IInv, TypeOK, ChainTypeOK
  <2> QED
    BY <2>2 DEF IInv, TypeOK, ChainTypeOK
<1> QED
  BY <1>3, <1>4, <1>5, <1>7, <1>9, <1>10, <1>11, <1>12, <1>14, <1>15, <1>16,
     <1>17, <1>18
     DEF Next, EngineStep, Environment, GenerateSecret, HandleEvent, Run

\* Without a withdrawal, what a process that ended well has paid stays behind
\* the loop and behind the cursor file, which never move back past it.
LEMMA PaidEarlierStep ==
    ASSUME IInv, ExitInv, ExitInv', PayoutInv, PaidHere, [Next]_vars,
           UNCHANGED payouts
    PROVE  PaidEarlier'
<1> SUFFICES ASSUME NEW i \in DOMAIN payouts,
                    payouts[i].boot <= Len(exits'),
                    exits'[payouts[i].boot] = "ok"
             PROVE  /\ payouts[i].event <= pos'
                    /\ cursorFile' # Torn => payouts[i].event <= cursorFile'
  BY DEF PaidEarlier
<1>1. /\ payouts[i].event \in Nat /\ payouts[i].boot \in 1 .. boot
      /\ pos \in Nat /\ boot \in Nat /\ Len(exits) \in Nat
  <2>1. payouts[i].event \in Nat
    BY PayoutEvent
  <2>2. payouts[i].boot \in 1 .. boot
    BY DEF PayoutInv
  <2>3. pos \in Nat
    BY DEF IInv, TypeOK, ChainTypeOK, LoopTypeOK
  <2>4. boot \in Nat /\ exits \in Seq({"ok", "error", "panic", "killed"})
    BY DEF IInv, TypeOK, ProcessTypeOK
  <2> QED
    BY <2>1, <2>2, <2>3, <2>4
<1>2. CASE payouts[i].boot <= Len(exits)
  <2>1. exits[payouts[i].boot] = "ok"
    BY <1>1, <1>2, ExitsStep
  <2>2. /\ payouts[i].event <= pos
        /\ cursorFile # Torn => payouts[i].event <= cursorFile
    BY <1>2, <2>1 DEF PayoutInv, PaidEarlier
  <2> QED
    BY <1>1, <2>2, StreamStep
       DEF Stream!Next, Stream!vars, Stream!Publish, Stream!Consume,
           Stream!Erase, Stream!Save, Stream!Recover
<1>3. CASE ~(payouts[i].boot <= Len(exits))
  <2>1. /\ pc # "down" /\ pc' = "down" /\ UNCHANGED boot
        /\ Len(exits) = boot - 1 /\ Len(exits') = boot
    BY <1>3, ExitsStep
  <2>2. payouts[i].boot = boot /\ boot > 0 /\ exits'[boot'] = "ok"
    BY <1>1, <1>3, <2>1
  <2>3. pos' = cursor' /\ cursorFile' = cursor'
    BY <2>1, <2>2 DEF ExitInv, GracefulStop
  <2>4. payouts[i].event <= pos'
    <3>1. ASSUME NEW why \in {"error", "panic", "killed"}, Exit(why)
          PROVE  FALSE
      BY <2>1, <2>2, <3>1, ExitAppends
    <3>2. ~Kill /\ EngineStep
      BY <2>1, <3>1
         DEF Kill, Next, Environment, PublishGuess, PublishOther,
             RequestShutdown, Start, Retired, vars
    <3>3. StopOnSignal \/ WriteFile
      BY <2>1, <3>1, <3>2, StepOrExit
    <3>4. pc \in {"select", "write"} /\ pos' = pos
      BY <3>3 DEF StopOnSignal, WriteFile, loopVars
    <3> QED
      BY <2>1, <2>2, <3>4 DEF PaidHere
  <2> QED
    BY <2>3, <2>4
<1> QED
  BY <1>2, <1>3

\* A payout is of the event at hand, which only a process that did not end
\* well can have paid before.
LEMMA PayoutStep == IInv /\ ExitInv /\ ExitInv' /\ PayoutInv /\ [Next]_vars => PayoutInv'
<1> SUFFICES ASSUME IInv, ExitInv, ExitInv', PayoutInv, [Next]_vars
             PROVE  PayoutInv'
  OBVIOUS
<1>1. /\ payouts \in Seq([event : Nat, boot : Nat, secret : Secrets])
      /\ boot \in Nat /\ Len(exits) \in Nat
      /\ \A i \in DOMAIN payouts : payouts[i].boot \in 1 .. boot
      /\ PaidHere /\ PaidEarlier /\ PaidAgainOnlyAfterCrash
  BY DEF PayoutInv, IInv, TypeOK, ChainTypeOK, ProcessTypeOK
<1>2. CASE UNCHANGED payouts
  <2>1. \A i \in DOMAIN payouts' : payouts'[i].boot \in 1 .. boot'
    BY <1>1, <1>2, ExitsStep
  <2>2. PaidAgainOnlyAfterCrash'
    <3> SUFFICES ASSUME NEW i \in DOMAIN payouts, NEW j \in DOMAIN payouts,
                        i < j, payouts[i].event = payouts[j].event
                 PROVE  /\ payouts[i].boot < payouts[j].boot
                        /\ exits'[payouts[i].boot] # "ok"
      BY <1>2 DEF PaidAgainOnlyAfterCrash
    <3>1. /\ payouts[i].boot < payouts[j].boot
          /\ exits[payouts[i].boot] # "ok"
      BY <1>1 DEF PaidAgainOnlyAfterCrash
    <3>2. payouts[i].boot \in 1 .. boot /\ payouts[j].boot \in 1 .. boot
      BY <1>1
    <3>3. payouts[i].boot \in 1 .. Len(exits)
      <4>1. boot \in Nat /\ Len(exits) \in Nat
        BY <1>1
      <4>2. Len(exits) = boot \/ Len(exits) = boot - 1
        BY DEF ExitInv
      <4> QED
        BY <3>1, <3>2, <4>1, <4>2
    <3>4. exits'[payouts[i].boot] = exits[payouts[i].boot]
      BY <3>3, ExitsStep
    <3> QED
      BY <3>1, <3>4
  <2> QED
    BY <1>1, <1>2, <2>1, <2>2, PaidHereStep, PaidEarlierStep DEF PayoutInv
<1>3. CASE /\ pc = "withdraw" /\ PayWinner
           /\ UNCHANGED <<boot, pos, cursorFile, caller>>
           /\ \/ pc' = "submitKey" /\ UNCHANGED exits
              \/ Exit("panic")
  <2> DEFINE n == Len(payouts) + 1
             new == [event |-> Current, boot |-> boot, secret |-> secret]
  <2>1. /\ DOMAIN payouts' = 1 .. n /\ DOMAIN payouts = 1 .. n - 1 /\ n \in Nat
        /\ payouts'[n] = new
        /\ \A i \in 1 .. n - 1 : payouts'[i] = payouts[i]
    BY <1>1, <1>3, PayoutType, AppendProperties DEF PayWinner, IInv
  <2>2. boot > 0 /\ Len(exits) = boot - 1 /\ pos \in Nat /\ Running
    BY <1>3 DEF ExitInv, Running, IInv, TypeOK, LoopTypeOK, ChainTypeOK, LoopInv
  <2>3. /\ \A b \in 1 .. Len(exits) : exits'[b] = exits[b]
        /\ boot \in 1 .. Len(exits') => exits'[boot] # "ok"
    <3>1. CASE pc' = "submitKey" /\ UNCHANGED exits
      BY <2>2, <3>1
    <3>2. CASE Exit("panic")
      BY <1>3, <2>2, <3>2, ExitAppends
    <3> QED
      BY <1>3, <3>1, <3>2
  <2>4. ASSUME NEW i \in 1 .. n - 1
        PROVE  /\ payouts[i].event \in Nat /\ payouts[i].boot \in 1 .. boot
               /\ payouts[i].boot = boot => payouts[i].event <= pos
               /\ payouts[i].boot < boot /\ exits[payouts[i].boot] = "ok" =>
                     payouts[i].event <= pos
    BY <1>1, <1>3, <2>1, <2>2, <2>4, PayoutEvent DEF PaidHere, PaidEarlier
  <2>5. \A i \in DOMAIN payouts' : payouts'[i].boot \in 1 .. boot'
    <3> SUFFICES ASSUME NEW i \in 1 .. n
                 PROVE  payouts'[i].boot \in 1 .. boot
      BY <1>3, <2>1
    <3>1. CASE i = n
      BY <1>1, <2>1, <2>2, <3>1
    <3>2. CASE i \in 1 .. n - 1
      BY <2>1, <2>4, <3>2
    <3> QED
      BY <2>1, <3>1, <3>2
  <2>6. PaidHere'
    <3> SUFFICES ASSUME NEW i \in 1 .. n, payouts'[i].boot = boot, pc' # "down"
                 PROVE  /\ Running'
                        /\ \/ payouts'[i].event <= pos
                           \/ /\ payouts'[i].event = Current
                              /\ pc' \in {"submitKey", "requestSecret"}
      BY <1>3, <2>1 DEF PaidHere, Current
    <3>1. pc' = "submitKey" /\ Running'
      BY <1>3, <2>2 DEF Exit, Running
    <3>2. CASE i = n
      BY <2>1, <3>1, <3>2
    <3>3. CASE i \in 1 .. n - 1
      BY <2>1, <2>4, <3>1, <3>3
    <3> QED
      BY <2>1, <3>1, <3>2, <3>3
  <2>7. PaidEarlier'
    <3> SUFFICES ASSUME NEW i \in 1 .. n,
                        payouts'[i].boot <= Len(exits'),
                        exits'[payouts'[i].boot] = "ok"
                 PROVE  /\ payouts'[i].event <= pos'
                        /\ cursorFile' # Torn => payouts'[i].event <= cursorFile'
      BY <2>1 DEF PaidEarlier
    <3>1. payouts'[i].boot # boot
      <4>1. ASSUME payouts'[i].boot = boot
            PROVE  FALSE
        <5>1. boot \in 1 .. Len(exits') /\ exits'[boot] = "ok"
          <6> HIDE DEF n, new
          <6>1. Len(exits') \in Nat
            BY DEF ExitInv, Running, IInv, TypeOK, ProcessTypeOK
          <6> QED
            BY <1>1, <2>2, <4>1, <6>1
        <5> QED
          BY <2>3, <5>1
      <4> QED
        BY <4>1
    <3>2. i \in 1 .. n - 1
      BY <2>1, <3>1
    <3>3. payouts[i].boot <= Len(exits) /\ exits[payouts[i].boot] = "ok"
      <4>1. payouts'[i] = payouts[i] /\ payouts[i].boot \in 1 .. boot
        BY <2>1, <2>4, <3>2
      <4>2. boot \in Nat /\ Len(exits) = boot - 1
        BY <1>1, <2>2
      <4>3. payouts[i].boot \in 1 .. Len(exits)
        <5> HIDE DEF n, new
        <5> QED
          BY <3>1, <4>1, <4>2
      <4>4. exits'[payouts[i].boot] = exits[payouts[i].boot]
        BY <2>3, <4>3
      <4> QED
        BY <4>1, <4>2, <4>3, <4>4
    <3>4. /\ payouts[i].event <= pos
          /\ cursorFile # Torn => payouts[i].event <= cursorFile
      BY <1>1, <2>1, <3>2, <3>3 DEF PaidEarlier
    <3> QED
      BY <1>3, <2>1, <3>2, <3>4
  <2>8. PaidAgainOnlyAfterCrash'
    <3> SUFFICES ASSUME NEW i \in 1 .. n, NEW j \in 1 .. n, i < j,
                        payouts'[i].event = payouts'[j].event
                 PROVE  /\ payouts'[i].boot < payouts'[j].boot
                        /\ exits'[payouts'[i].boot] # "ok"
      BY <2>1 DEF PaidAgainOnlyAfterCrash
    <3>1. i \in 1 .. n - 1 /\ payouts'[i] = payouts[i]
      BY <2>1
    <3>2. CASE j = n
      <4>1. payouts[i].event = pos + 1 /\ payouts'[j].boot = boot
        BY <2>1, <3>1, <3>2 DEF Current
      <4>2. payouts[i].boot < boot /\ exits[payouts[i].boot] # "ok"
        <5>1. /\ payouts[i].event \in Nat /\ payouts[i].boot \in 1 .. boot
              /\ payouts[i].boot = boot => payouts[i].event <= pos
              /\ payouts[i].boot < boot /\ exits[payouts[i].boot] = "ok" =>
                    payouts[i].event <= pos
          BY <2>4, <3>1
        <5>2. ~(payouts[i].event <= pos)
          BY <2>2, <4>1
        <5> QED
          BY <1>1, <5>1, <5>2
      <4>3. payouts[i].boot \in 1 .. Len(exits)
        <5>1. boot \in Nat /\ Len(exits) = boot - 1 /\ payouts[i].boot \in 1 .. boot
          BY <1>1, <2>2, <2>4, <3>1
        <5> HIDE DEF n, new
        <5> QED
          BY <4>2, <5>1
      <4>4. exits'[payouts[i].boot] = exits[payouts[i].boot]
        BY <2>3, <4>3
      <4> QED
        BY <3>1, <4>1, <4>2, <4>4
    <3>3. CASE j \in 1 .. n - 1
      <4>1. /\ payouts[i].boot < payouts[j].boot
            /\ exits[payouts[i].boot] # "ok"
        BY <1>1, <2>1, <3>1, <3>3 DEF PaidAgainOnlyAfterCrash
      <4>2. payouts[i].boot \in 1 .. boot /\ payouts[j].boot \in 1 .. boot
        BY <2>4, <3>1, <3>3
      <4>3. payouts[i].boot \in 1 .. Len(exits)
        <5>1. boot \in Nat /\ Len(exits) = boot - 1
          BY <1>1, <2>2
        <5> HIDE DEF n, new
        <5> QED
          BY <4>1, <4>2, <5>1
      <4>4. exits'[payouts[i].boot] = exits[payouts[i].boot]
        BY <2>3, <4>3
      <4>5. payouts'[j] = payouts[j]
        BY <2>1, <3>3
      <4> QED
        BY <3>1, <4>1, <4>4, <4>5
    <3> QED
      BY <2>1, <3>2, <3>3
  <2> QED
    BY <2>5, <2>6, <2>7, <2>8 DEF PayoutInv
<1> QED
  BY <1>2, <1>3, PayoutsStep

\* Payouts stay behind the loop of their process, and those of a process that
\* ended well behind the cursor file; so the event at hand was paid before only
\* by a process that did not end well.
LEMMA PayoutInvCorrect == Spec => []PayoutInv
<1>1. Init => PayoutInv
  BY DEF Init, PayoutInv, PaidHere, PaidEarlier, PaidAgainOnlyAfterCrash
<1>2. IInv /\ ExitInv /\ ExitInv' /\ PayoutInv /\ [Next]_vars => PayoutInv'
  BY PayoutStep
<1> QED
  BY <1>1, <1>2, IInvCorrect, ExitInvCorrect, PTL DEF Spec

\* An event pays twice only if the process that paid it first ended without
\* saving its cursor.
THEOREM PaidAgainOnlyAfterCrashCorrect == Spec => []PaidAgainOnlyAfterCrash
<1>1. PayoutInv => PaidAgainOnlyAfterCrash
  BY DEF PayoutInv
<1> QED
  BY <1>1, PayoutInvCorrect, PTL

-----------------------------------------------------------------------------
\* The guesses of the log.
IsGuess(i) == events[i].kind = "guess"

\* The order in which the contract numbers guesses.
NotAfter(game1, count1, game2, count2) ==
    game1 < game2 \/ (game1 = game2 /\ count1 <= count2)

\* No two guesses of the log have one key, and none is after the game.
LogInv ==
    /\ \A i \in DOMAIN events :
          IsGuess(i) => NotAfter(events[i].game, events[i].count, game.id, game.count)
    /\ \A i, j \in DOMAIN events :
          IsGuess(i) /\ IsGuess(j) /\ AnswerKey(events[i]) = AnswerKey(events[j]) => i = j

\* A guess is at hand in the handler of guesses.
GuessInv ==
    /\ pc \in {"checkGuess", "checkHint", "withdraw", "hint"} => IsGuess(Current)
    /\ pc \in {"submitKey", "requestSecret"} /\ caller = "guess" => IsGuess(Current)
    /\ pc = "readCursor" \/ (caller = "new" /\ pc # "down") => DOMAIN answers = {}

\* Where the answer to the guess at hand, if any, is not recorded yet.
Early == Loop \cup {"checkGuess"}
Answered(i) == i <= pos \/ (i = Current /\ pc \notin Early)

\* Every answer is that of a guess the loop has gone past or has at hand.
AnswersInv ==
    \A k \in DOMAIN answers :
        \E i \in DOMAIN events : IsGuess(i) /\ AnswerKey(events[i]) = k /\ Answered(i)

AInv == LogInv /\ GuessInv /\ (pc # "down" => AnswersInv)

-----------------------------------------------------------------------------
\* The events of the log have kinds, games and counts.
LEMMA EventType ==
    ASSUME TypeOK, NEW i \in DOMAIN events
    PROVE  /\ i \in 1 .. Len(events)
           /\ events[i] \in [kind : Kinds, game : Nat, count : Nat]
<1>1. i \in 1 .. Len(events)
  BY DEF TypeOK, ChainTypeOK
<1> QED
  BY <1>1, ElementOfSeq DEF TypeOK, ChainTypeOK

\* A new event leaves those of the log in place.
LEMMA EventsGrow ==
    ASSUME TypeOK, NEW e \in [kind : Kinds, game : Nat, count : Nat],
           events' = Append(events, e)
    PROVE  /\ Len(events') = Len(events) + 1
           /\ DOMAIN events' = DOMAIN events \cup {Len(events) + 1}
           /\ \A i \in DOMAIN events : events'[i] = events[i]
           /\ events'[Len(events) + 1] = e
<1> DEFINE Entry == [kind : Kinds, game : Nat, count : Nat]
<1>1. events \in Seq(Entry) /\ e \in Entry
  BY DEF TypeOK, ChainTypeOK
<1> HIDE DEF Entry
<1>2. /\ events' \in Seq(Entry)
      /\ Len(events') = Len(events) + 1
      /\ \A i \in 1 .. Len(events) : events'[i] = events[i]
      /\ events'[Len(events) + 1] = e
  BY <1>1, AppendProperties
<1>3. DOMAIN events' = 1 .. Len(events') /\ DOMAIN events = 1 .. Len(events)
  BY <1>1, <1>2
<1>4. 1 .. Len(events') = 1 .. Len(events) \cup {Len(events) + 1}
  BY <1>1, <1>2
<1> QED
  BY <1>2, <1>3, <1>4

\* The key of a guess that is published is after all of the log's.
LEMMA LogStep == TypeOK /\ LogInv /\ [Next]_vars => LogInv'
<1> SUFFICES ASSUME TypeOK, LogInv, [Next]_vars
             PROVE  LogInv'
  OBVIOUS
<1>1. CASE UNCHANGED <<events, game>>
  BY <1>1 DEF LogInv, IsGuess, AnswerKey
<1>2. CASE PublishOther
  <2>1. PICK e \in {Rotate, Other} : events' = Append(events, e)
    BY <1>2 DEF PublishOther
  <2>2. e \in [kind : Kinds, game : Nat, count : Nat] /\ e.kind # "guess"
    BY DEF Rotate, Other, Kinds
  <2> QED
    BY <1>2, <2>1, <2>2, EventsGrow DEF PublishOther, LogInv, IsGuess, AnswerKey
<1>3. CASE PublishGuess
  <2>1. PICK g \in {[game EXCEPT !.count = @ + 1], [id |-> game.id + 1, count |-> 1]} :
            game' = g /\ events' = Append(events, Guess(g))
    BY <1>3 DEF PublishGuess
  <2>2. /\ game \in [id : Nat, count : Nat]
        /\ g \in [id : Nat, count : Nat]
        /\ \/ g.id = game.id /\ g.count = game.count + 1
           \/ g.id = game.id + 1
    <3>1. game \in [id : Nat, count : Nat]
      BY DEF TypeOK, ChainTypeOK
    <3>2. CASE g = [game EXCEPT !.count = @ + 1]
      BY <3>1, <3>2
    <3>3. CASE g = [id |-> game.id + 1, count |-> 1]
      BY <3>1, <3>3
    <3> QED
      BY <2>1, <3>1, <3>2, <3>3
  <2>3. Guess(g) \in [kind : Kinds, game : Nat, count : Nat]
    BY <2>2 DEF Guess, Kinds
  <2>4. ASSUME NEW i \in DOMAIN events, IsGuess(i)
        PROVE  /\ events[i].game \in Nat /\ events[i].count \in Nat
               /\ NotAfter(events[i].game, events[i].count, game.id, game.count)
    BY <2>4, EventType DEF LogInv
  <2>5. ASSUME NEW i \in DOMAIN events, IsGuess(i)
        PROVE  /\ NotAfter(events[i].game, events[i].count, g.id, g.count)
               /\ AnswerKey(events[i]) # AnswerKey(Guess(g))
    <3>1. /\ NotAfter(events[i].game, events[i].count, g.id, g.count)
          /\ events[i].game # g.id \/ events[i].count # g.count
      BY <2>2, <2>4, <2>5 DEF NotAfter
    <3>2. Guess(g).game = g.id /\ Guess(g).count = g.count
      BY DEF Guess
    <3> QED
      BY <3>1, <3>2 DEF AnswerKey
  <2>6. NotAfter(Guess(g).game, Guess(g).count, g.id, g.count)
    BY <2>2 DEF NotAfter, Guess
  <2> QED
    BY <2>1, <2>3, <2>5, <2>6, EventsGrow DEF LogInv, IsGuess
<1> QED
  BY <1>1, <1>2, <1>3
     DEF Next, EngineStep, GenerateSecret, HandleEvent, Run, Environment,
         RequestShutdown, Kill, Start, Retired, SubmitKey, FirstSecret,
         NextSecret, RotatedSecret, GenerateErr, DispatchGuess, DispatchRotate,
         DispatchOther, RightGuess, WrongGuess, CheckHint, Withdraw, Hint,
         HandlerErr, EmptyChoices, TransactionPanics, ReadCursor,
         ReadCursorFails, FetchPage, QueryFails, PageDone, StopOnSignal,
         TruncateFile, WriteFile, WriteFails, vars, chainVars

-----------------------------------------------------------------------------
\* Events of the log stay where they are.
LEMMA EventsKept ==
    ASSUME TypeOK, [Next]_vars
    PROVE  /\ Len(events') >= Len(events)
           /\ \A i \in DOMAIN events : i \in DOMAIN events' /\ events'[i] = events[i]
<1>1. CASE UNCHANGED events
  BY <1>1 DEF TypeOK, ChainTypeOK
<1>2. ASSUME NEW e \in [kind : Kinds, game : Nat, count : Nat],
             events' = Append(events, e)
      PROVE  /\ Len(events') >= Len(events)
             /\ \A i \in DOMAIN events : i \in DOMAIN events' /\ events'[i] = events[i]
  BY <1>2, EventsGrow DEF TypeOK, ChainTypeOK
<1>3. CASE PublishOther
  <2>1. Rotate \in [kind : Kinds, game : Nat, count : Nat]
        /\ Other \in [kind : Kinds, game : Nat, count : Nat]
    BY DEF Rotate, Other, Kinds
  <2> QED
    BY <1>2, <1>3, <2>1 DEF PublishOther
<1>4. CASE PublishGuess
  <2>1. PICK g \in {[game EXCEPT !.count = @ + 1], [id |-> game.id + 1, count |-> 1]} :
            events' = Append(events, Guess(g))
    BY <1>4 DEF PublishGuess
  <2>2. Guess(g) \in [kind : Kinds, game : Nat, count : Nat]
    <3>1. game \in [id : Nat, count : Nat]
      BY DEF TypeOK, ChainTypeOK
    <3>2. CASE g = [game EXCEPT !.count = @ + 1]
      BY <3>1, <3>2 DEF Guess, Kinds
    <3>3. CASE g = [id |-> game.id + 1, count |-> 1]
      BY <3>1, <3>3 DEF Guess, Kinds
    <3> QED
      BY <2>1, <3>2, <3>3
  <2> QED
    BY <1>2, <2>1, <2>2
<1> QED
  BY <1>1, <1>3, <1>4
     DEF Next, EngineStep, GenerateSecret, HandleEvent, Run, Environment,
         RequestShutdown, Kill, Start, Retired, SubmitKey, FirstSecret,
         NextSecret, RotatedSecret, GenerateErr, DispatchGuess, DispatchRotate,
         DispatchOther, RightGuess, WrongGuess, CheckHint, Withdraw, Hint,
         HandlerErr, EmptyChoices, TransactionPanics, ReadCursor,
         ReadCursorFails, FetchPage, QueryFails, PageDone, StopOnSignal,
         TruncateFile, WriteFile, WriteFails, vars, chainVars

\* A handler's event is one of the log.
LEMMA CurrentInLog ==
    ASSUME IInv, pos < cursor
    PROVE  Current \in DOMAIN events
BY DEF IInv, TypeOK, ChainTypeOK, LoopTypeOK, Current

\* The handler of guesses is entered for a guess only, and no answer is
\* recorded before the loop is.
LEMMA GuessStep == IInv /\ GuessInv /\ [Next]_vars => GuessInv'
<1> SUFFICES ASSUME IInv, GuessInv, [Next]_vars
             PROVE  GuessInv'
  OBVIOUS
<1> USE DEF GuessInv
<1>1. CASE PublishGuess \/ PublishOther
  <2>1. UNCHANGED <<pc, caller, pos, answers>>
    BY <1>1 DEF PublishGuess, PublishOther, loopVars, gameVars
  <2>2. ASSUME pos < cursor, IsGuess(Current)
        PROVE  IsGuess(Current)'
    BY <2>1, <2>2, CurrentInLog, EventsKept DEF IInv, IsGuess, Current
  <2> QED
    BY <2>1, <2>2 DEF IInv, LoopInv
<1>2. CASE UNCHANGED <<events, pc, caller, pos, answers>>
  BY <1>2 DEF IsGuess, Current
<1>3. CASE Start
  BY <1>3 DEF Start, NoAnswers
<1>4. CASE pc' = "down"
  BY <1>4
<1>5. CASE SubmitKey \/ FirstSecret
  BY <1>5
     DEF SubmitKey, FirstSecret, IsGuess, Current, chainVars, loopVars, gameVars
<1>6. CASE DispatchGuess \/ DispatchRotate
  BY <1>6
     DEF DispatchGuess, DispatchRotate, IsGuess, Event, Current, chainVars,
         loopVars, gameVars
<1>7. CASE RightGuess \/ WrongGuess \/ CheckHint \/ Withdraw
  BY <1>7
     DEF RightGuess, WrongGuess, CheckHint, Withdraw, EventDone, Exit, IsGuess,
         Current, chainVars, loopVars, gameVars, IInv, LoopInv
<1>8. CASE pc' \in Loop /\ caller' # "new"
  BY <1>8 DEF Loop
<1>9. CASE RotatedSecret \/ DispatchOther \/ HandlerErr \/ GenerateErr
  BY <1>8, <1>9
     DEF RotatedSecret, DispatchOther, HandlerErr, GenerateErr, EventDone, Exit,
         Loop, IInv, LoopInv
<1>10. CASE ReadCursor
  BY <1>10 DEF ReadCursor, gameVars
<1>11. CASE FetchPage \/ PageDone \/ StopOnSignal \/ TruncateFile \/ WriteFile
  BY <1>8, <1>11
     DEF FetchPage, PageDone, StopOnSignal, TruncateFile, WriteFile, Exit, Loop,
         IInv, LoopInv
<1> QED
  BY <1>1, <1>2, <1>3, <1>4, <1>5, <1>6, <1>7, <1>9, <1>10, <1>11
     DEF Next, EngineStep, GenerateSecret, HandleEvent, Run, Environment,
         RequestShutdown, Kill, Retired, NextSecret, Hint, EmptyChoices,
         TransactionPanics, ReadCursorFails, QueryFails, WriteFails, Exit, vars,
         chainVars, loopVars, gameVars

-----------------------------------------------------------------------------
\* Between two steps of a running loop a guess that has its answer keeps it in
\* sight: the loop stays on it or goes past it.
LEMMA LoopGoesOn ==
    ASSUME IInv, [Next]_vars, pc \notin {"down", "readCursor"}
    PROVE  \/ pc' = "down"
           \/ pos' = Current
           \/ UNCHANGED pos /\ (pc \in Early \/ pc' \notin Early)
<1> USE DEF Early, Loop
<1>1. CASE UNCHANGED <<pc, pos>>
  BY <1>1
<1>2. CASE GenerateSecret \/ HandleEvent
  BY <1>2
     DEF GenerateSecret, SubmitKey, FirstSecret, NextSecret, RotatedSecret,
         GenerateErr, HandleEvent, DispatchGuess, DispatchRotate,
         DispatchOther, RightGuess, WrongGuess, CheckHint, Withdraw, Hint,
         HandlerErr, EmptyChoices, TransactionPanics, EventDone, Exit, loopVars
<1>3. CASE Run
  BY <1>3
     DEF Run, ReadCursor, ReadCursorFails, FetchPage, QueryFails, PageDone,
         StopOnSignal, TruncateFile, WriteFile, WriteFails, Exit, loopVars, vars
<1> QED
  BY <1>1, <1>2, <1>3
     DEF Next, EngineStep, Environment, PublishGuess, PublishOther,
         RequestShutdown, Kill, Start, Retired, Exit, loopVars, vars

LEMMA AnsweredStays ==
    ASSUME IInv, [Next]_vars, pc \notin {"down", "readCursor"}, pc' # "down",
           NEW i \in Nat, Answered(i)
    PROVE  Answered(i)'
<1>1. pos \in Nat
  BY DEF IInv, TypeOK, LoopTypeOK, ChainTypeOK
<1> QED
  BY <1>1, LoopGoesOn DEF Answered, Current

\* The only steps of a running process that touch the answers record one for
\* the guess at hand.
LEMMA AnswersChange ==
    ASSUME [Next]_vars, pc # "down"
    PROVE  \/ UNCHANGED answers
           \/ /\ pc = "checkGuess" /\ UNCHANGED events
              /\ \E verdict \in BOOLEAN :
                    RecordAnswer(verdict) /\ (pc' = "withdraw" => verdict)
              /\ UNCHANGED pos /\ pc' \notin Early
<1>1. CASE RightGuess
  BY <1>1 DEF RightGuess, chainVars, loopVars, Early, Loop
<1>2. CASE WrongGuess
  BY <1>2 DEF WrongGuess, chainVars, loopVars, Early, Loop
<1> QED
  BY <1>1, <1>2
     DEF Next, EngineStep, GenerateSecret, HandleEvent, Run, Environment,
         PublishGuess, PublishOther, RequestShutdown, Kill, Start, Retired,
         SubmitKey, FirstSecret, NextSecret, RotatedSecret, GenerateErr,
         DispatchGuess, DispatchRotate, DispatchOther, CheckHint, Withdraw,
         Hint, HandlerErr, EmptyChoices, TransactionPanics, ReadCursor,
         ReadCursorFails, FetchPage, QueryFails, PageDone, StopOnSignal,
         TruncateFile, WriteFile, WriteFails, vars, gameVars

\* No answer is there for a guess whose handler asks the model about it: it
\* would be that of another guess with the same key.
LEMMA NotAnsweredYet ==
    ASSUME IInv, AInv, pc = "checkGuess"
    PROVE  AnswerKey(Event) \notin DOMAIN answers
<1>1. Current \in DOMAIN events /\ IsGuess(Current)
  BY CurrentInLog DEF AInv, GuessInv, IInv, LoopInv
<1>2. ASSUME NEW i \in DOMAIN events, IsGuess(i), Answered(i)
      PROVE  AnswerKey(events[i]) # AnswerKey(Event)
  <2>1. i # Current
    <3>1. pos \in Nat
      BY DEF IInv, TypeOK, LoopTypeOK, ChainTypeOK
    <3> QED
      BY <1>2, <3>1 DEF Answered, Early, Current
  <2> QED
    BY <1>1, <1>2, <2>1 DEF AInv, LogInv, Event
<1> QED
  BY <1>2 DEF AInv, AnswersInv

\* An answer that is there stays as it is.
LEMMA AnswersKept ==
    ASSUME IInv, AInv, [Next]_vars, pc # "down"
    PROVE  \A k \in DOMAIN answers : k \in DOMAIN answers' /\ answers'[k] = answers[k]
<1>1. CASE UNCHANGED answers
  BY <1>1
<1>2. ASSUME pc = "checkGuess", NEW verdict \in BOOLEAN, RecordAnswer(verdict)
      PROVE  \A k \in DOMAIN answers : k \in DOMAIN answers' /\ answers'[k] = answers[k]
  BY <1>2, NotAnsweredYet DEF RecordAnswer
<1> QED
  BY <1>1, <1>2, AnswersChange

\* A process that is up has answered only guesses its loop has reached.
LEMMA AnswersStep ==
    ASSUME IInv, AInv, [Next]_vars, pc' # "down"
    PROVE  AnswersInv'
<1>1. CASE pc = "down"
  <2>1. Start
    BY <1>1
       DEF Next, EngineStep, GenerateSecret, HandleEvent, Run, Environment,
           PublishGuess, PublishOther, RequestShutdown, Kill, Retired,
           SubmitKey, FirstSecret, NextSecret, RotatedSecret, GenerateErr,
           DispatchGuess, DispatchRotate, DispatchOther, RightGuess,
           WrongGuess, CheckHint, Withdraw, Hint, HandlerErr, EmptyChoices,
           TransactionPanics, ReadCursor, ReadCursorFails, FetchPage,
           QueryFails, PageDone, StopOnSignal, TruncateFile, WriteFile,
           WriteFails, vars
  <2> QED
    BY <2>1 DEF Start, NoAnswers, AnswersInv
<1>2. CASE pc = "readCursor"
  BY <1>2, AnswersChange DEF AInv, GuessInv, AnswersInv
<1>3. CASE pc \notin {"down", "readCursor"}
  <2>1. ASSUME NEW i \in DOMAIN events, IsGuess(i), Answered(i)
        PROVE  /\ i \in DOMAIN events' /\ IsGuess(i)' /\ Answered(i)'
               /\ AnswerKey(events[i]) = AnswerKey(events'[i])
    <3>1. i \in Nat
      BY EventType DEF IInv
    <3> QED
      BY <1>3, <2>1, <3>1, AnsweredStays, EventsKept DEF IInv, IsGuess
  <2>2. ASSUME NEW k \in DOMAIN answers
        PROVE  \E i \in DOMAIN events' :
                  IsGuess(i)' /\ AnswerKey(events'[i]) = k /\ Answered(i)'
    <3>1. PICK i \in DOMAIN events : IsGuess(i) /\ AnswerKey(events[i]) = k /\ Answered(i)
      BY <1>3 DEF AInv, AnswersInv
    <3> QED
      BY <2>1, <3>1
  <2>3. CASE UNCHANGED answers
    BY <2>2, <2>3 DEF AnswersInv
  <2>4. CASE /\ pc = "checkGuess" /\ UNCHANGED events
             /\ UNCHANGED pos /\ pc' \notin Early
             /\ \E verdict \in BOOLEAN : RecordAnswer(verdict)
    <3>1. Current \in DOMAIN events /\ IsGuess(Current) /\ Current \in Nat
      BY <2>4, CurrentInLog, EventType DEF AInv, GuessInv, IInv, LoopInv
    <3>2. PICK n \in Nat : n = Current
      BY <3>1
    <3>3. n \in DOMAIN events' /\ IsGuess(n)' /\ Answered(n)'
      BY <2>4, <3>1, <3>2 DEF IsGuess, Answered, Current
    <3>4. DOMAIN answers' = DOMAIN answers \cup {AnswerKey(events'[n])}
      BY <2>4, <3>2 DEF RecordAnswer, Event
    <3> QED
      BY <2>2, <3>3, <3>4 DEF AnswersInv
  <2> QED
    BY <1>3, <2>3, <2>4, AnswersChange
<1> QED
  BY <1>1, <1>2, <1>3

\* The invariant is inductive.
LEMMA AInvStep == IInv /\ AInv /\ [Next]_vars => AInv'
  BY LogStep, GuessStep, AnswersStep DEF AInv, IInv

\* It holds throughout.
LEMMA AInvCorrect == Spec => []AInv
<1>1. Init => AInv
  BY DEF Init, AInv, LogInv, GuessInv, NoAnswers
<1>2. IInv /\ AInv /\ [Next]_vars => AInv'
  BY AInvStep
<1> QED
  BY <1>1, <1>2, IInvCorrect, PTL DEF Spec

\* What a player may have read stays as it is until the process ends.
THEOREM AnswersStableCorrect == Spec => AnswersStable
<1> DEFINE Kept == Running => \A k \in DOMAIN answers :
                      k \in DOMAIN answers' /\ answers'[k] = answers[k]
<1>1. IInv /\ AInv /\ [Next]_vars => [Kept]_vars
  BY AnswersKept DEF Running
<1> QED
  BY <1>1, IInvCorrect, AInvCorrect, PTL DEF Spec, AnswersStable

-----------------------------------------------------------------------------
\* A guess is paid after it was recorded as right.
PaidInv ==
    /\ \A i \in DOMAIN payouts : payouts[i].event \in DOMAIN events
    /\ pc = "withdraw" =>
           AnswerKey(Event) \in DOMAIN answers /\ answers[AnswerKey(Event)]
    /\ PaidGuessAnsweredRight

\* The payouts of a step are those there were, and perhaps one of the guess at
\* hand, by this process.
LEMMA PayoutsGrow ==
    ASSUME IInv, [Next]_vars, NEW i \in DOMAIN payouts'
    PROVE  \/ i \in DOMAIN payouts /\ payouts'[i] = payouts[i]
           \/ /\ pc = "withdraw" /\ UNCHANGED boot
              /\ payouts'[i].event = Current /\ payouts'[i].boot = boot
<1>1. CASE UNCHANGED payouts
  BY <1>1
<1>2. CASE pc = "withdraw" /\ PayWinner
  <2> DEFINE paid == [event |-> Current, boot |-> boot, secret |-> secret]
             Payout == [event : Nat, boot : Nat, secret : Secrets]
  <2>1. payouts \in Seq(Payout) /\ paid \in Payout
    BY PayoutType DEF IInv, TypeOK, ChainTypeOK
  <2>2. payouts' = Append(payouts, paid) /\ paid.event = Current /\ paid.boot = boot
    BY <1>2 DEF PayWinner
  <2>3. (i \in DOMAIN payouts /\ payouts'[i] = payouts[i]) \/ payouts'[i] = paid
    <3> HIDE DEF paid, Payout
    <3> QED
      BY <2>1, <2>2
  <2>4. UNCHANGED boot
    BY <1>2, <2>1, <2>2, PayoutsStep
  <2> QED
    BY <1>2, <2>2, <2>3, <2>4
<1> QED
  BY <1>1, <1>2, PayoutsStep

\* A new process is the one after the last, and starts with no answers.
LEMMA BootStep ==
    ASSUME [Next]_vars
    PROVE  \/ UNCHANGED boot /\ (pc = "down" => UNCHANGED answers)
           \/ boot' = boot + 1
  BY DEF Next, EngineStep, GenerateSecret, HandleEvent, Run, Environment,
         PublishGuess, PublishOther, RequestShutdown, Kill, Start, Retired,
         SubmitKey, FirstSecret, NextSecret, RotatedSecret, GenerateErr,
         DispatchGuess, DispatchRotate, DispatchOther, RightGuess, WrongGuess,
         CheckHint, Withdraw, Hint, HandlerErr, EmptyChoices,
         TransactionPanics, ReadCursor, ReadCursorFails, FetchPage, QueryFails,
         PageDone, StopOnSignal, TruncateFile, WriteFile, WriteFails, process,
         gameVars, vars

\* What a step preserves: what was paid was answered, and stays so.
LEMMA PaidStep ==
    ASSUME IInv, AInv, PayoutInv, PaidInv, [Next]_vars
    PROVE  PaidInv'
<1>1. ASSUME NEW i \in DOMAIN payouts'
      PROVE  payouts'[i].event \in DOMAIN events'
  <2>1. CASE i \in DOMAIN payouts /\ payouts'[i] = payouts[i]
    BY <2>1, EventsKept DEF PaidInv, IInv
  <2>2. CASE pc = "withdraw" /\ payouts'[i].event = Current
    BY <2>2, CurrentInLog, EventsKept DEF IInv, LoopInv
  <2> QED
    BY <1>1, <2>1, <2>2, PayoutsGrow
<1>2. ASSUME pc' = "withdraw"
      PROVE  AnswerKey(Event)' \in DOMAIN answers' /\ answers'[AnswerKey(Event)']
  <2>1. CASE RightGuess
    BY <2>1 DEF RightGuess, RecordAnswer, AnswerKey, Event, Current, chainVars, loopVars
  <2>2. CASE pc = "withdraw" /\ UNCHANGED pos
    <3>1. Event' = Event
      BY <2>2, CurrentInLog, EventsKept DEF IInv, LoopInv, Event, Current
    <3> QED
      BY <2>2, <3>1, AnswersKept DEF PaidInv, AnswerKey
  <2> QED
    BY <1>2, <2>1, <2>2
       DEF Next, EngineStep, GenerateSecret, HandleEvent, Run, Environment,
           PublishGuess, PublishOther, RequestShutdown, Kill, Start, Retired,
           SubmitKey, FirstSecret, NextSecret, RotatedSecret, GenerateErr,
           DispatchGuess, DispatchRotate, DispatchOther, WrongGuess, CheckHint,
           Withdraw, Hint, HandlerErr, EmptyChoices, TransactionPanics,
           ReadCursor, ReadCursorFails, FetchPage, QueryFails, PageDone,
           StopOnSignal, TruncateFile, WriteFile, WriteFails, EventDone, Exit,
           loopVars, vars
<1>3. ASSUME NEW i \in DOMAIN payouts', payouts'[i].boot = boot'
      PROVE  LET k == AnswerKey(events'[payouts'[i].event])
             IN  k \in DOMAIN answers' /\ answers'[k]
  <2>1. CASE /\ i \in DOMAIN payouts /\ payouts'[i] = payouts[i]
             /\ UNCHANGED boot
    <3>1. events'[payouts'[i].event] = events[payouts[i].event]
      BY <2>1, EventsKept DEF PaidInv, IInv
    <3>2. LET k == AnswerKey(events[payouts[i].event])
          IN  k \in DOMAIN answers /\ answers[k]
      BY <1>3, <2>1 DEF PaidInv, PaidGuessAnsweredRight
    <3>3. CASE pc # "down"
      BY <3>1, <3>2, <3>3, AnswersKept
    <3>4. CASE UNCHANGED answers
      BY <3>1, <3>2, <3>4
    <3> QED
      BY <2>1, <3>3, <3>4, BootStep DEF IInv, TypeOK, ProcessTypeOK
  <2>2. CASE pc = "withdraw" /\ UNCHANGED boot /\ payouts'[i].event = Current
    <3>1. events'[Current] = Event
      BY <2>2, CurrentInLog, EventsKept DEF IInv, LoopInv, Event
    <3> QED
      BY <2>2, <3>1, AnswersKept DEF PaidInv
  <2>3. CASE i \in DOMAIN payouts /\ payouts'[i] = payouts[i] /\ boot' # boot
    <3>1. payouts[i].boot \in 1 .. boot /\ boot \in Nat
      BY <2>3 DEF PayoutInv, IInv, TypeOK, ProcessTypeOK
    <3>2. boot' = boot + 1
      BY <2>3, BootStep
    <3> QED
      BY <1>3, <2>3, <3>1, <3>2
  <2> QED
    BY <1>3, <2>1, <2>2, <2>3, PayoutsGrow
<1> QED
  BY <1>1, <1>2, <1>3 DEF PaidInv, PaidGuessAnsweredRight

\* The answers players poll for agree with the money, in every process.
THEOREM PaidGuessAnsweredRightCorrect == Spec => []PaidGuessAnsweredRight
<1>1. Init => PaidInv
  BY DEF Init, PaidInv, PaidGuessAnsweredRight
<1>2. IInv /\ AInv /\ PayoutInv /\ PaidInv /\ [Next]_vars => PaidInv'
  BY PaidStep
<1>3. PaidInv => PaidGuessAnsweredRight
  BY DEF PaidInv
<1> QED
  BY <1>1, <1>2, <1>3, IInvCorrect, AInvCorrect, PayoutInvCorrect, PTL DEF Spec
=============================================================================
