---------------------------- MODULE EngineProofs ----------------------------
(***************************************************************************)
(* Theorems about Engine, for every page size, every value of              *)
(* hint_wait_count and every bound.                                        *)
(***************************************************************************)
EXTENDS Engine, TLAPS, SequenceTheorems

(***************************************************************************)
(* Where the loop stands in its page.  It is past the whole page whenever  *)
(* it asks for another or saves the cursor, and within the page whenever a *)
(* handler is at work; the file is never ahead of it.  GuessAiEngine::new  *)
(* only generates a secret.                                                *)
(***************************************************************************)
LoopInv ==
    /\ pc \in {"select", "truncate", "write"} => pos = cursor
    /\ pc \in {"checkGuess", "checkHint", "withdraw", "hint"} => pos < cursor
    /\ pc \in {"submitKey", "requestSecret"} /\ caller # "new" => pos < cursor
    /\ caller = "new" => pc \in {"down", "submitKey", "requestSecret"}
    /\ cursorFile # Torn => cursorFile <= pos

IInv == TypeOK /\ LoopInv

-----------------------------------------------------------------------------
\* A withdrawal is recorded with the event, the process and the secret.
LEMMA PayoutType ==
    ASSUME TypeOK
    PROVE  [event |-> Current, boot |-> boot, secret |-> secret]
              \in [event : Nat, boot : Nat, secret : Secrets]
BY DEF TypeOK, LoopTypeOK, GameTypeOK, ProcessTypeOK, Current

\* The log, the game, the registered key and the payouts keep their types.
LEMMA ChainTypeStep == TypeOK /\ [Next]_vars => ChainTypeOK'
<1> SUFFICES ASSUME TypeOK, [Next]_vars
             PROVE  ChainTypeOK'
  OBVIOUS
<1> USE DEF ChainTypeOK
<1>0. ChainTypeOK
  BY DEF TypeOK
<1>1. CASE PublishGuess
  <2>1. PICK g \in {[game EXCEPT !.count = @ + 1], [id |-> game.id + 1, count |-> 1]} :
            game' = g /\ events' = Append(events, Guess(g))
    BY <1>1 DEF PublishGuess
  <2>2. g \in [id : Nat, count : Nat]
    <3>1. game \in [id : Nat, count : Nat]
      BY <1>0
    <3>2. CASE g = [game EXCEPT !.count = @ + 1]
      BY <3>1, <3>2
    <3>3. CASE g = [id |-> game.id + 1, count |-> 1]
      BY <3>1, <3>3
    <3> QED
      BY <3>2, <3>3
  <2>3. Guess(g) \in [kind : Kinds, game : Nat, count : Nat]
    BY <2>2 DEF Guess, Kinds
  <2> QED
    BY <1>0, <1>1, <2>1, <2>2, <2>3 DEF PublishGuess
<1>2. CASE PublishOther
  BY <1>0, <1>2 DEF PublishOther, Rotate, Other, Kinds
<1>3. CASE SubmitKey
  BY <1>0, <1>3 DEF SubmitKey, TypeOK, GameTypeOK
<1>4. CASE Withdraw
  BY <1>0, <1>4, PayoutType DEF Withdraw, PayWinner
<1>5. CASE TransactionPanics
  <2>1. UNCHANGED <<events, game>>
    BY <1>5 DEF TransactionPanics
  <2>2. chainKey' \in Keys
    BY <1>0, <1>5 DEF TransactionPanics, TypeOK, GameTypeOK
  <2>3. payouts' = payouts \/ PayWinner
    BY <1>5 DEF TransactionPanics
  <2>4. payouts' \in Seq([event : Nat, boot : Nat, secret : Secrets])
    <3>1. CASE payouts' = payouts
      BY <1>0, <3>1
    <3>2. CASE PayWinner
      BY <1>0, <3>2, PayoutType DEF PayWinner
    <3> QED
      BY <2>3, <3>1, <3>2
  <2> QED
    BY <1>0, <2>1, <2>2, <2>4
<1>6. CASE UNCHANGED chainVars
  BY <1>0, <1>6 DEF chainVars
<1> QED
  BY <1>1, <1>2, <1>3, <1>4, <1>5, <1>6
     DEF Next, EngineStep, GenerateSecret, HandleEvent, Run, Environment,
         RequestShutdown, Kill, Start, Retired, FirstSecret, NextSecret,
         RotatedSecret, GenerateErr, DispatchGuess, DispatchRotate,
         DispatchOther, RightGuess, WrongGuess, CheckHint, Hint, HandlerErr,
         EmptyChoices, ReadCursor, ReadCursorFails, FetchPage, QueryFails,
         PageDone, StopOnSignal, TruncateFile, WriteFile, WriteFails, vars

\* The loop stays within its page and the file behind it.
LEMMA LoopStep == IInv /\ [Next]_vars => LoopTypeOK' /\ LoopInv'
<1> SUFFICES ASSUME IInv, [Next]_vars
             PROVE  LoopTypeOK' /\ LoopInv'
  OBVIOUS
<1> USE LimitAssumption, TornAssumption DEF IInv, TypeOK, LoopTypeOK, LoopInv
<1>1. CASE PublishGuess
  <2>1. Len(events') = Len(events) + 1
    BY <1>1 DEF PublishGuess, ChainTypeOK
  <2> QED
    BY <1>1, <2>1 DEF PublishGuess, loopVars, ChainTypeOK
<1>2. CASE PublishOther
  <2>1. Len(events') = Len(events) + 1
    BY <1>2 DEF PublishOther, ChainTypeOK
  <2> QED
    BY <1>2, <2>1 DEF PublishOther, loopVars, ChainTypeOK
<1>3. CASE RequestShutdown
  BY <1>3 DEF RequestShutdown, chainVars, loopVars, ChainTypeOK
<1>4. CASE Kill
  BY <1>4 DEF Kill, Exit, chainVars, loopVars, ChainTypeOK
<1>5. CASE Start
  BY <1>5 DEF Start, chainVars, loopVars, ChainTypeOK
<1>6. CASE Retired
  BY <1>6 DEF Retired, vars, chainVars, loopVars, ChainTypeOK
<1>7. CASE SubmitKey
  BY <1>7 DEF SubmitKey, loopVars, ChainTypeOK
<1>8. CASE FirstSecret
  BY <1>8 DEF FirstSecret, chainVars, loopVars, ChainTypeOK
<1>9. CASE NextSecret
  BY <1>9 DEF NextSecret, Exit, chainVars, loopVars, ChainTypeOK
<1>10. CASE RotatedSecret
  BY <1>10 DEF RotatedSecret, EventDone, Current, chainVars, ChainTypeOK
<1>11. CASE GenerateErr
  <2>1. Len(events) \in Nat /\ UNCHANGED <<events, cursorFile, cursor, hasNextPage>>
    BY <1>11 DEF GenerateErr, chainVars, ChainTypeOK
  <2>2. CASE caller = "new"
    BY <1>11, <2>1, <2>2 DEF GenerateErr, Exit
  <2>3. CASE caller # "new" /\ EventDone
    BY <1>11, <2>1, <2>3 DEF GenerateErr, EventDone, Current
  <2> QED
    BY <1>11, <2>2, <2>3 DEF GenerateErr
<1>12. CASE DispatchGuess
  BY <1>12 DEF DispatchGuess, chainVars, loopVars, ChainTypeOK
<1>13. CASE DispatchRotate
  BY <1>13 DEF DispatchRotate, chainVars, loopVars, ChainTypeOK
<1>14. CASE DispatchOther
  BY <1>14 DEF DispatchOther, EventDone, Current, chainVars, ChainTypeOK
<1>15. CASE RightGuess \/ WrongGuess
  BY <1>15 DEF RightGuess, WrongGuess, chainVars, loopVars, ChainTypeOK
<1>16. CASE CheckHint
  <2>1. Len(events) \in Nat /\ UNCHANGED <<events, cursorFile, cursor, hasNextPage>>
    BY <1>16 DEF CheckHint, chainVars, ChainTypeOK
  <2>2. CASE pc' \in {"down", "hint"} /\ UNCHANGED <<pos, done>>
    BY <1>16, <2>1, <2>2 DEF CheckHint
  <2>3. CASE EventDone
    BY <1>16, <2>1, <2>3 DEF CheckHint, EventDone, Current
  <2> QED
    BY <1>16, <2>2, <2>3 DEF CheckHint, Exit
<1>17. CASE Withdraw
  BY <1>17 DEF Withdraw, loopVars, ChainTypeOK
<1>18. CASE Hint
  BY <1>18 DEF Hint, Exit, chainVars, loopVars, ChainTypeOK
<1>19. CASE HandlerErr
  BY <1>19 DEF HandlerErr, EventDone, Current, chainVars, ChainTypeOK
<1>20. CASE EmptyChoices
  BY <1>20 DEF EmptyChoices, Exit, chainVars, loopVars, ChainTypeOK
<1>21. CASE TransactionPanics
  BY <1>21 DEF TransactionPanics, Exit, loopVars, ChainTypeOK
<1>22. CASE ReadCursor
  <2>1. cursorFile \in Nat /\ Len(events) \in Nat
    BY <1>22 DEF ReadCursor, ChainTypeOK
  <2>2. cursorFile <= Len(events)
    BY <1>22, <2>1 DEF ReadCursor
  <2>3. UNCHANGED <<events, cursorFile, done>>
    BY <1>22 DEF ReadCursor, chainVars
  <2>4. cursor' = cursorFile /\ pos' = cursorFile /\ hasNextPage' = FALSE
    BY <1>22 DEF ReadCursor
  <2>6. pc' = "select" /\ caller' # "new"
    BY <1>22 DEF ReadCursor
  <2>5. hasNextPage' \in BOOLEAN
    BY <2>4
  <2> QED
    BY <2>1, <2>2, <2>3, <2>4, <2>5, <2>6
<1>23. CASE ReadCursorFails
  BY <1>23 DEF ReadCursorFails, Exit, chainVars, loopVars, ChainTypeOK
<1>24. CASE FetchPage
  <2>1. Len(events) \in Nat
    BY DEF ChainTypeOK
  <2>2. NextCursor \in cursor .. Len(events)
    BY <2>1 DEF NextCursor, Available
  <2> QED
    BY <1>24, <2>1, <2>2 DEF FetchPage, chainVars
<1>25. CASE PageDone
  BY <1>25 DEF PageDone, chainVars, loopVars, ChainTypeOK
<1>26. CASE StopOnSignal
  BY <1>26 DEF StopOnSignal, Exit, chainVars, loopVars, ChainTypeOK
<1>27. CASE TruncateFile
  BY <1>27 DEF TruncateFile, chainVars, loopVars, ChainTypeOK
<1>28. CASE WriteFile
  BY <1>28 DEF WriteFile, Exit, chainVars, loopVars, ChainTypeOK
<1>29. CASE WriteFails
  BY <1>29 DEF WriteFails, Exit, chainVars, loopVars, ChainTypeOK
<1>30. CASE QueryFails \/ UNCHANGED vars
  BY <1>30 DEF QueryFails, vars, chainVars, loopVars
<1> QED
  BY <1>1, <1>2, <1>3, <1>4, <1>5, <1>6, <1>7, <1>8, <1>9, <1>10, <1>11,
     <1>12, <1>13, <1>14, <1>15, <1>16, <1>17, <1>18, <1>19, <1>20, <1>21,
     <1>22, <1>23, <1>24, <1>25, <1>26, <1>27, <1>28, <1>29, <1>30
     DEF Next, EngineStep, GenerateSecret, HandleEvent, Run, Environment

\* Keys, secret, hints and answers keep their types: the key that is installed
\* is one that was drawn, and an answer is recorded under a game and a guess.
LEMMA GameTypeStep == IInv /\ [Next]_vars => GameTypeOK'
<1> SUFFICES ASSUME IInv, [Next]_vars
             PROVE  GameTypeOK'
  OBVIOUS
<1> USE DEF IInv
<1>0. GameTypeOK
  BY DEF TypeOK
<1>1. ASSUME NEW e \in Nat
      PROVE  Fresh(e) \in Keys
  BY DEF TypeOK, ProcessTypeOK, Fresh, Keys
<1>2. Current \in Nat
  BY DEF TypeOK, LoopTypeOK, ChainTypeOK, Current
<1>3. NoKey \in Keys
  BY DEF NoKey, Keys
<1>4. CASE Start
  <2>1. <<boot + 1, 0>> \in Keys
    BY DEF TypeOK, ProcessTypeOK, Keys
  <2> QED
    BY <1>3, <1>4, <2>1 DEF Start, GameTypeOK, NoSecret, Secrets, NoAnswers
<1>5. CASE FirstSecret
  BY <1>0, <1>1, <1>5 DEF FirstSecret, GameTypeOK, Secrets
<1>6. CASE NextSecret
  BY <1>0, <1>1, <1>2, <1>6 DEF NextSecret, GameTypeOK, Secrets
<1>7. CASE RotatedSecret
  BY <1>0, <1>1, <1>2, <1>7 DEF RotatedSecret, GameTypeOK, Secrets
<1>8. CASE DispatchRotate
  BY <1>0, <1>1, <1>2, <1>8 DEF DispatchRotate, gameVars, GameTypeOK
<1>9. ASSUME NEW verdict \in BOOLEAN, RecordAnswer(verdict), pc = "checkGuess"
      PROVE  /\ DOMAIN answers' \subseteq Nat \X Nat
             /\ \A k \in DOMAIN answers' : answers'[k] \in BOOLEAN
  <2>1. Current \in 1 .. Len(events)
    BY <1>9 DEF IInv, LoopInv, TypeOK, ChainTypeOK, LoopTypeOK, Current
  <2>2. Event \in [kind : Kinds, game : Nat, count : Nat]
    BY <2>1, ElementOfSeq DEF TypeOK, ChainTypeOK, Event
  <2>3. AnswerKey(Event) \in Nat \X Nat
    BY <2>2 DEF AnswerKey
  <2> QED
    BY <1>0, <1>9, <2>3 DEF RecordAnswer, GameTypeOK
<1>10. CASE RightGuess
  BY <1>0, <1>9, <1>10 DEF RightGuess, GameTypeOK
<1>11. CASE WrongGuess
  BY <1>0, <1>9, <1>11 DEF WrongGuess, GameTypeOK
<1>12. CASE Withdraw
  BY <1>0, <1>12 DEF Withdraw, gameVars, GameTypeOK
<1>13. CASE Hint
  BY <1>0, <1>13 DEF Hint, GameTypeOK
<1>14. CASE UNCHANGED <<genKey, gameVars>>
  BY <1>0, <1>14 DEF gameVars, GameTypeOK
<1> QED
  BY <1>4, <1>5, <1>6, <1>7, <1>8, <1>10, <1>11, <1>12, <1>13, <1>14
     DEF Next, EngineStep, GenerateSecret, HandleEvent, Run, Environment,
         PublishGuess, PublishOther, RequestShutdown, Kill, Retired, SubmitKey,
         GenerateErr, DispatchGuess, DispatchOther, CheckHint, HandlerErr,
         EmptyChoices, TransactionPanics, ReadCursor, ReadCursorFails,
         FetchPage, QueryFails,
         PageDone, StopOnSignal, TruncateFile, WriteFile, WriteFails, vars

\* The process keeps its type, whichever way it starts, goes on or exits.
LEMMA ProcessTypeStep == TypeOK /\ [Next]_vars => ProcessTypeOK'
<1> SUFFICES ASSUME TypeOK, [Next]_vars
             PROVE  ProcessTypeOK'
  OBVIOUS
<1> USE DEF Handlers, Loop, Kinds
<1>0. ProcessTypeOK
  BY DEF TypeOK
<1>1. CASE Start
  <2>1. boot' \in Nat /\ hintWaitCount' \in Nat
    BY <1>0, <1>1, HintWaitAssumption DEF Start, ProcessTypeOK
  <2>2. shutdown' \in BOOLEAN
    BY <1>1 DEF Start
  <2>3. /\ pc' \in {"down", "readCursor"} \cup Handlers \cup Loop
        /\ caller' \in {"new", "run", "guess", "rotate", "shutdown"}
        /\ exits' \in Seq({"ok", "error", "panic", "killed"})
    BY <1>0, <1>1 DEF Start, ProcessTypeOK
  <2> QED
    BY <2>1, <2>2, <2>3 DEF ProcessTypeOK
<1>2. CASE RequestShutdown
  BY <1>0, <1>2 DEF RequestShutdown, ProcessTypeOK
<1>3. ASSUME UNCHANGED process,
             pc' \in {"down", "readCursor"} \cup Handlers \cup Loop,
             caller' \in {"new", "run", "guess", "rotate", "shutdown"},
             \/ UNCHANGED exits
             \/ \E why \in {"ok", "error", "panic", "killed"} : Exit(why)
      PROVE  ProcessTypeOK'
  BY <1>0, <1>3 DEF Exit, process, ProcessTypeOK
<1>4. CASE PublishGuess \/ PublishOther
  BY <1>0, <1>3, <1>4 DEF PublishGuess, PublishOther, ProcessTypeOK
<1>5. CASE Kill \/ Retired
  BY <1>0, <1>3, <1>5 DEF Kill, Exit, Retired, vars, ProcessTypeOK
<1>6. CASE GenerateSecret
  BY <1>0, <1>3, <1>6
     DEF GenerateSecret, SubmitKey, FirstSecret, NextSecret, RotatedSecret,
         GenerateErr, EventDone, Exit, ProcessTypeOK
<1>7. CASE HandleEvent
  BY <1>0, <1>3, <1>7
     DEF HandleEvent, DispatchGuess, DispatchRotate, DispatchOther, RightGuess,
         WrongGuess, CheckHint, Withdraw, Hint, HandlerErr, EmptyChoices,
         TransactionPanics, EventDone, Exit, ProcessTypeOK
<1>8. CASE Run
  BY <1>0, <1>3, <1>8
     DEF Run, ReadCursor, ReadCursorFails, FetchPage, QueryFails, PageDone,
         StopOnSignal, TruncateFile, WriteFile, WriteFails, Exit, vars,
         ProcessTypeOK
<1>9. CASE UNCHANGED vars
  BY <1>0, <1>3, <1>9 DEF vars, ProcessTypeOK
<1> QED
  BY <1>1, <1>2, <1>4, <1>5, <1>6, <1>7, <1>8, <1>9
     DEF Next, EngineStep, Environment

\* A process that was never started is at the start of the log.
LEMMA IInvInit == Init => IInv
<1> SUFFICES ASSUME Init
             PROVE  IInv
  OBVIOUS
<1>1. ChainTypeOK
  BY DEF Init, ChainTypeOK, NoKey, Keys
<1>2. LoopTypeOK
  <2>1. hasNextPage \in BOOLEAN
    BY DEF Init
  <2> QED
    BY <2>1 DEF Init, LoopTypeOK
<1>3. GameTypeOK
  BY DEF Init, GameTypeOK, NoKey, NoSecret, NoAnswers, Keys, Secrets
<1>4. ProcessTypeOK
  <2>1. shutdown \in BOOLEAN
    BY DEF Init
  <2> QED
    BY <2>1, HintWaitAssumption DEF Init, ProcessTypeOK
<1>5. LoopInv
  BY DEF Init, LoopInv
<1> QED
  BY <1>1, <1>2, <1>3, <1>4, <1>5 DEF IInv, TypeOK

\* The types and the place of the loop in its page are an inductive invariant.
LEMMA IInvStep == IInv /\ [Next]_vars => IInv'
  BY ChainTypeStep, LoopStep, GameTypeStep, ProcessTypeStep DEF IInv, TypeOK

\* It holds throughout.
LEMMA IInvCorrect == Spec => []IInv
  BY IInvInit, IInvStep, PTL DEF Spec

\* Type correctness: the loop never goes past its cursor, nor the cursor past
\* the log, whatever the size of the pages and however the process ends.
THEOREM TypeCorrect == Spec => []TypeOK
<1>1. IInv => TypeOK
  BY DEF IInv
<1> QED
  BY IInvCorrect, <1>1, PTL

-----------------------------------------------------------------------------
\* Every step of the engine is a step of the consumer, or none of its business.
LEMMA StreamStep == IInv /\ [Next]_vars => [Stream!Next]_(Stream!vars)
<1> SUFFICES ASSUME IInv, [Next]_vars
             PROVE  Stream!Next \/ UNCHANGED Stream!vars
  OBVIOUS
<1> USE DEF Stream!Next, Stream!vars
<1>1. ASSUME UNCHANGED <<events, pos, cursorFile, done>>
      PROVE  UNCHANGED Stream!vars
  BY <1>1
<1>2. CASE PublishGuess \/ PublishOther
  <2>1. Len(events') = Len(events) + 1
    BY <1>2 DEF PublishGuess, PublishOther, IInv, TypeOK, ChainTypeOK
  <2> QED
    BY <1>2, <2>1 DEF PublishGuess, PublishOther, loopVars, Stream!Publish
<1>3. ASSUME EventDone, UNCHANGED <<events, cursorFile>>, pos < cursor
      PROVE  Stream!Consume
  <2>1. pos < Len(events)
    BY <1>3 DEF IInv, TypeOK, LoopTypeOK, ChainTypeOK
  <2> QED
    BY <1>3, <2>1 DEF EventDone, Current, Stream!Consume
<1>4. CASE ReadCursor
  BY <1>4 DEF ReadCursor, chainVars, Stream!Recover
<1>5. CASE TruncateFile
  BY <1>5 DEF TruncateFile, chainVars, loopVars, Stream!Erase
<1>6. CASE WriteFile
  BY <1>6 DEF WriteFile, chainVars, loopVars, Stream!Save, IInv, LoopInv
<1>7. CASE GenerateSecret
  <2>1. CASE RotatedSecret
    BY <1>3, <2>1 DEF RotatedSecret, chainVars, IInv, LoopInv
  <2>2. CASE GenerateErr
    BY <1>1, <1>3, <2>2 DEF GenerateErr, chainVars, IInv, LoopInv
  <2> QED
    BY <1>1, <1>7, <2>1, <2>2
       DEF GenerateSecret, SubmitKey, FirstSecret, NextSecret, chainVars,
           loopVars
<1>8. CASE HandleEvent
  <2>1. CASE DispatchOther
    BY <1>3, <2>1 DEF DispatchOther, chainVars
  <2>2. CASE CheckHint
    BY <1>1, <1>3, <2>2 DEF CheckHint, chainVars, IInv, LoopInv
  <2>3. CASE HandlerErr
    BY <1>3, <2>3 DEF HandlerErr, chainVars, IInv, LoopInv
  <2> QED
    BY <1>1, <1>8, <2>1, <2>2, <2>3
       DEF HandleEvent, DispatchGuess, DispatchRotate, RightGuess, WrongGuess,
           Withdraw, Hint, EmptyChoices, TransactionPanics, chainVars, loopVars
<1>9. CASE ReadCursorFails \/ FetchPage \/ PageDone \/ StopOnSignal \/ WriteFails
  BY <1>1, <1>9
     DEF ReadCursorFails, FetchPage, PageDone, StopOnSignal, WriteFails,
         chainVars, loopVars
<1>10. CASE RequestShutdown \/ Kill \/ Start \/ Retired \/ QueryFails \/ UNCHANGED vars
  BY <1>1, <1>10
     DEF RequestShutdown, Kill, Start, Retired, QueryFails, vars, chainVars,
         loopVars
<1> QED
  BY <1>2, <1>4, <1>5, <1>6, <1>7, <1>8, <1>9, <1>10
     DEF Next, EngineStep, Environment, Run

\* The subscriber implements the event stream consumer.
THEOREM EngineImplementsStream == Spec => ImplementsStream
<1>1. Init => Stream!Init
  BY DEF Init, Stream!Init
<1> QED
  BY <1>1, StreamStep, IInvCorrect, PTL DEF Spec, ImplementsStream, Stream!Spec

\* What the abstract consumer guarantees, carried over by the refinement.
StreamFacts == INSTANCE EventStreamProofs WITH
    Lost <- Torn, published <- Len(events), next <- pos,
    checkpoint <- cursorFile, consumed <- done

\* The same module under both names.
LEMMA SameStream ==
    /\ Stream!Init <=> StreamFacts!Init
    /\ [Stream!Next]_(Stream!vars) <=> [StreamFacts!Next]_(StreamFacts!vars)
    /\ Stream!NothingSkipped <=> StreamFacts!NothingSkipped
BY DEF Stream!Init, StreamFacts!Init, Stream!Next, StreamFacts!Next, Stream!vars,
       StreamFacts!vars, Stream!Publish, Stream!Consume, Stream!Erase,
       Stream!Save, Stream!Recover, StreamFacts!Publish, StreamFacts!Consume,
       StreamFacts!Erase, StreamFacts!Save, StreamFacts!Recover,
       Stream!NothingSkipped, StreamFacts!NothingSkipped

\* No step of the engine skips an event, from wherever its process starts.
LEMMA SkipNothingStep == IInv /\ NothingSkipped /\ [Next]_vars => NothingSkipped'
<1> SUFFICES ASSUME IInv, NothingSkipped, [Next]_vars
             PROVE  NothingSkipped'
  OBVIOUS
<1>1. [StreamFacts!Next]_(StreamFacts!vars)
  BY StreamStep, SameStream
<1>2. StreamFacts!TypeOK
  BY DEF IInv, TypeOK, ChainTypeOK, LoopTypeOK, StreamFacts!TypeOK
<1>3. StreamFacts!NothingSkipped'
  BY <1>1, <1>2, SameStream, StreamFacts!SkipStep DEF NothingSkipped
<1> QED
  BY <1>3 DEF NothingSkipped, Stream!NothingSkipped, StreamFacts!NothingSkipped

\* No event is skipped: before the position of the loop, and before the cursor
\* in the file, every event of the log has been handled.
THEOREM EngineSkipsNothing == Spec => []NothingSkipped
<1>1. Init => NothingSkipped
  BY DEF Init, NothingSkipped, Stream!NothingSkipped
<1> QED
  BY <1>1, SkipNothingStep, IInvCorrect, PTL DEF Spec

-----------------------------------------------------------------------------
\* Each step of the engine leaves it fewer to take before it is at select!
\* again, and from there a page of at most Limit events is ahead.
LEMMA SelectStep ==
    ASSUME IInv, IInv', EngineStep
    PROVE  IF pc = "select" THEN StepsToSelect' <= 5 * Limit + 3
           ELSE StepsToSelect' < StepsToSelect
<1>1. /\ cursor \in Nat /\ pos \in Nat /\ pos <= cursor /\ Len(events) \in Nat
      /\ cursor <= Len(events)
  BY DEF IInv, TypeOK, LoopTypeOK, ChainTypeOK
<1>2. /\ pc \in {"checkGuess", "checkHint", "withdraw", "hint"} => pos < cursor
      /\ pc \in {"submitKey", "requestSecret"} /\ caller # "new" => pos < cursor
      /\ caller = "new" => pc \in {"down", "submitKey", "requestSecret"}
      /\ pc = "select" => pos = cursor
  BY DEF IInv, LoopInv
\* The process ends.
<1>3. ASSUME pc \in Handlers \cup (Loop \ {"select"}) \cup {"readCursor"}, pc' = "down"
      PROVE  StepsToSelect' < StepsToSelect
  BY <1>1, <1>2, <1>3 DEF StepsToSelect, Handlers, Loop
\* The event is over, whatever its handler returned.
<1>4. ASSUME pc \in Handlers \cup {"dispatch"}, pos < cursor, caller # "new",
             EventDone, UNCHANGED <<cursor, caller>>
      PROVE  StepsToSelect' < StepsToSelect
  <2>1. pos' = pos + 1 /\ cursor' = cursor /\ caller' # "new" /\ pc' = "dispatch"
    BY <1>4 DEF EventDone, Current
  <2> QED
    BY <1>1, <1>4, <2>1 DEF StepsToSelect, Handlers
\* The handler goes on to its next await.
<1>5. ASSUME UNCHANGED <<cursor, pos>>, pos < cursor, caller # "new", caller' # "new",
             <<pc, pc'>> \in {<<"dispatch", "checkGuess">>, <<"dispatch", "submitKey">>,
                              <<"checkGuess", "withdraw">>, <<"checkGuess", "checkHint">>,
                              <<"checkHint", "hint">>,
                              <<"withdraw", "submitKey">>,
                              <<"submitKey", "requestSecret">>}
      PROVE  StepsToSelect' < StepsToSelect
  BY <1>1, <1>5 DEF StepsToSelect
<1>6. CASE SubmitKey
  <2>1. CASE caller = "new"
    BY <1>6, <2>1 DEF SubmitKey, StepsToSelect
  <2>2. CASE caller # "new"
    BY <1>2, <1>5, <1>6, <2>2 DEF SubmitKey, loopVars
  <2> QED
    BY <1>6, <2>1, <2>2 DEF SubmitKey
<1>7. CASE FirstSecret
  BY <1>7 DEF FirstSecret, StepsToSelect
<1>8. CASE NextSecret \/ EmptyChoices \/ TransactionPanics \/ Hint
  BY <1>3, <1>8
     DEF NextSecret, EmptyChoices, TransactionPanics, Hint, Exit, Handlers
<1>9. CASE RotatedSecret
  BY <1>2, <1>4, <1>9 DEF RotatedSecret, Handlers
<1>10. CASE GenerateErr
  <2>1. CASE caller = "new" /\ Exit("error")
    BY <1>3, <1>10, <2>1 DEF GenerateErr, Exit, Handlers
  <2>2. CASE caller # "new" /\ EventDone
    BY <1>2, <1>4, <1>10, <2>2 DEF GenerateErr, Handlers
  <2> QED
    BY <1>10, <2>1, <2>2 DEF GenerateErr
<1>11. CASE DispatchGuess \/ DispatchRotate
  BY <1>2, <1>5, <1>11 DEF DispatchGuess, DispatchRotate, loopVars
<1>12. CASE DispatchOther
  BY <1>2, <1>4, <1>12 DEF DispatchOther
<1>13. CASE RightGuess \/ WrongGuess \/ Withdraw
  BY <1>2, <1>5, <1>13 DEF RightGuess, WrongGuess, Withdraw, loopVars
<1>14. CASE CheckHint
  <2>1. pc = "checkHint" /\ UNCHANGED <<cursor, caller>>
    BY <1>14 DEF CheckHint
  <2>2. CASE Exit("panic")
    BY <1>3, <2>1, <2>2 DEF Exit, Handlers
  <2>3. CASE pc' = "hint" /\ UNCHANGED pos
    BY <1>2, <1>5, <2>1, <2>3
  <2>4. CASE EventDone
    BY <1>2, <1>4, <2>1, <2>4 DEF Handlers
  <2> QED
    BY <1>14, <2>2, <2>3, <2>4 DEF CheckHint
<1>15. CASE HandlerErr
  BY <1>2, <1>4, <1>15 DEF HandlerErr, Handlers
<1>16. CASE ReadCursor
  BY <1>16 DEF ReadCursor, StepsToSelect
<1>17. CASE ReadCursorFails \/ WriteFails
  BY <1>3, <1>17 DEF ReadCursorFails, WriteFails, Exit, Loop
<1>18. CASE FetchPage
  <2>1. cursor' - pos' \in 0 .. Limit
    BY <1>1, <1>2, <1>18, LimitAssumption DEF FetchPage, NextCursor, Available
  <2>2. StepsToSelect' = 5 * (cursor' - pos') + 3 /\ pc = "select"
    BY <1>18 DEF FetchPage, StepsToSelect
  <2> QED
    BY <2>1, <2>2, LimitAssumption
<1>19. CASE PageDone
  <2>1. StepsToSelect = 3 /\ pc = "dispatch"
    BY <1>1, <1>2, <1>19 DEF PageDone, StepsToSelect
  <2>2. StepsToSelect' \in {0, 2}
    BY <1>19 DEF PageDone, StepsToSelect
  <2> QED
    BY <2>1, <2>2
<1>20. CASE StopOnSignal
  <2>1. pc = "select" /\ StepsToSelect' \in {0, 2}
    BY <1>20 DEF StopOnSignal, Exit, StepsToSelect
  <2> QED
    BY <2>1, LimitAssumption
<1>21. CASE TruncateFile \/ WriteFile
  BY <1>21 DEF TruncateFile, WriteFile, Exit, StepsToSelect
<1>22. CASE QueryFails
  <2>1. pc = "select" /\ StepsToSelect' = StepsToSelect
    BY <1>22 DEF QueryFails, vars, loopVars, StepsToSelect
  <2>2. StepsToSelect = 0
    BY <2>1 DEF StepsToSelect
  <2> QED
    BY <2>1, <2>2, LimitAssumption
<1> QED
  BY <1>6, <1>7, <1>8, <1>9, <1>10, <1>11, <1>12, <1>13, <1>14, <1>15, <1>16,
     <1>17, <1>18, <1>19, <1>20, <1>21, <1>22
     DEF EngineStep, GenerateSecret, HandleEvent, Run

\* A shutdown is seen within a page: the engine is back at select! after at most
\* five of its own steps for each event of a page and three more, whatever the
\* requests, the transactions and the handlers return.
THEOREM SelectWithinPageCorrect == Spec => SelectWithinPage
<1>1. IInv /\ IInv' /\ [Next]_vars =>
         [EngineStep =>
             IF pc = "select" THEN StepsToSelect' <= 5 * Limit + 3
             ELSE StepsToSelect' < StepsToSelect]_vars
  BY SelectStep
<1> QED
  BY <1>1, IInvCorrect, PTL DEF Spec, SelectWithinPage

-----------------------------------------------------------------------------
(***************************************************************************)
(* The secret and its keys, and how an incarnation ends.                   *)
(***************************************************************************)

\* A secret is requested either under the key in use or, by a rotation, under
\* a key that will be installed with it.
KeyInv ==
    /\ pc # "down" /\ caller # "new" => secret.key = clientPrivateKey
    /\ pc \in {"submitKey", "requestSecret"} /\ caller = "guess" =>
           genKey = clientPrivateKey

\* While a secret is requested, its key is the one registered.
RegInv == pc = "requestSecret" => chainKey = genKey

\* The file is whole except while it is written, which only matters to a
\* process that has read it.
FileInv == Running /\ pc # "write" => cursorFile # Torn

\* Every incarnation but the one that runs has ended, in its own way.
ExitInv ==
    /\ pc = "down" => Len(exits) = boot
    /\ pc # "down" => boot > 0 /\ Len(exits) = boot - 1
    /\ GracefulStop

\* No step separates the secret from the key it was requested under.
LEMMA KeyStep == IInv /\ KeyInv /\ [Next]_vars => KeyInv'
<1> SUFFICES ASSUME IInv, KeyInv, [Next]_vars
             PROVE  KeyInv'
  OBVIOUS
<1> USE DEF KeyInv, IInv, LoopInv
<1>1. CASE PublishGuess \/ PublishOther \/ Retired \/ UNCHANGED vars
  BY <1>1 DEF PublishGuess, PublishOther, Retired, vars, gameVars
<1>2. CASE RequestShutdown
  BY <1>2 DEF RequestShutdown, gameVars
<1>3. CASE Kill
  BY <1>3 DEF Kill, Exit
<1>4. CASE Start
  BY <1>4 DEF Start
<1>5. CASE SubmitKey \/ FirstSecret
  BY <1>5 DEF SubmitKey, FirstSecret, gameVars
<1>6. CASE NextSecret
  BY <1>6 DEF NextSecret, Exit
<1>7. CASE RotatedSecret
  BY <1>7 DEF RotatedSecret, EventDone
<1>8. CASE GenerateErr
  BY <1>8 DEF GenerateErr, EventDone, Exit, gameVars
<1>9. CASE HandleEvent
  BY <1>9 DEF HandleEvent, DispatchGuess, DispatchRotate, DispatchOther,
              RightGuess, WrongGuess, CheckHint, Withdraw, Hint, HandlerErr,
              EmptyChoices, TransactionPanics, EventDone, Exit, gameVars
<1>10. CASE Run
  BY <1>10 DEF Run, ReadCursor, ReadCursorFails, FetchPage, QueryFails,
               PageDone, StopOnSignal, TruncateFile, WriteFile, WriteFails,
               Exit, gameVars, vars
<1> QED
  BY <1>1, <1>2, <1>3, <1>4, <1>5, <1>6, <1>7, <1>8, <1>9, <1>10
     DEF Next, EngineStep, Environment, GenerateSecret

\* The secret and the key it was requested under change together.
THEOREM SecretUnderKeyCorrect == Spec => []SecretUnderKey
<1>1. Init => KeyInv
  BY DEF Init, KeyInv
<1>2. IInv /\ KeyInv /\ [Next]_vars => KeyInv'
  BY KeyStep
<1>3. KeyInv => SecretUnderKey
  BY DEF KeyInv, SecretUnderKey, Running
<1> QED
  BY <1>1, <1>2, <1>3, IInvCorrect, PTL DEF Spec

-----------------------------------------------------------------------------
\* A secret is requested only where its key has just been registered.
LEMMA RegStep == RegInv /\ [Next]_vars => RegInv'
<1> SUFFICES ASSUME RegInv, [Next]_vars
             PROVE  RegInv'
  OBVIOUS
<1>1. CASE SubmitKey
  BY <1>1 DEF SubmitKey, RegInv
<1>2. CASE UNCHANGED <<pc, chainKey, genKey>>
  BY <1>2 DEF RegInv
<1>3. CASE pc' # "requestSecret"
  BY <1>3 DEF RegInv
<1> QED
  BY <1>1, <1>2, <1>3
     DEF Next, EngineStep, GenerateSecret, HandleEvent, Run, Environment,
         PublishGuess, PublishOther, RequestShutdown, Kill, Start, Retired,
         FirstSecret, NextSecret, RotatedSecret, GenerateErr, DispatchGuess,
         DispatchRotate, DispatchOther, RightGuess, WrongGuess, CheckHint,
         Withdraw, Hint, HandlerErr, EmptyChoices, TransactionPanics,
         ReadCursor, ReadCursorFails, FetchPage, QueryFails, PageDone,
         StopOnSignal, TruncateFile, WriteFile, WriteFails, EventDone, Exit,
         vars, chainVars

\* Nothing comes between the registration of a key and the secret under it.
LEMMA RegInvCorrect == Spec => []RegInv
<1>1. Init => RegInv
  BY DEF Init, RegInv
<1>2. RegInv /\ [Next]_vars => RegInv'
  BY RegStep
<1> QED
  BY <1>1, <1>2, PTL DEF Spec

\* Each of the three places that install a secret follows a request made under
\* the key that is registered.
LEMMA SecretInstalled ==
    ASSUME RegInv, [Next]_vars
    PROVE  secret' # secret /\ secret' # NoSecret => chainKey' = secret'.key
<1>1. CASE FirstSecret \/ NextSecret \/ RotatedSecret
  BY <1>1 DEF FirstSecret, NextSecret, RotatedSecret, RegInv, chainVars
<1>2. CASE Start
  BY <1>2 DEF Start
<1>3. CASE UNCHANGED secret
  BY <1>3
<1> QED
  BY <1>1, <1>2, <1>3
     DEF Next, EngineStep, GenerateSecret, HandleEvent, Run, Environment,
         PublishGuess, PublishOther, RequestShutdown, Kill, Retired, SubmitKey,
         GenerateErr, DispatchGuess, DispatchRotate, DispatchOther, RightGuess,
         WrongGuess, CheckHint, Withdraw, Hint, HandlerErr, EmptyChoices,
         TransactionPanics, ReadCursor, ReadCursorFails, FetchPage, QueryFails,
         PageDone, StopOnSignal, TruncateFile, WriteFile, WriteFails, vars,
         gameVars

\* A secret comes into force only under the key that is registered.
THEOREM SecretRegisteredCorrect == Spec => SecretRegistered
<1> DEFINE Installs == secret' # secret /\ secret' # NoSecret => chainKey' = secret'.key
<1>1. RegInv /\ [Next]_vars => [Installs]_vars
  BY SecretInstalled
<1> QED
  BY <1>1, RegInvCorrect, PTL DEF Spec, SecretRegistered

-----------------------------------------------------------------------------
\* Only a write tears the file, and the process that is up ends the write.
LEMMA FileStep == IInv /\ FileInv /\ [Next]_vars => FileInv'
<1> SUFFICES ASSUME IInv, FileInv, [Next]_vars
             PROVE  FileInv'
  OBVIOUS
<1> USE DEF FileInv, Running, IInv, LoopInv
<1>1. CASE PublishGuess \/ PublishOther \/ Retired \/ UNCHANGED vars
  BY <1>1 DEF PublishGuess, PublishOther, Retired, vars
<1>2. CASE RequestShutdown
  BY <1>2 DEF RequestShutdown
<1>3. CASE Kill
  BY <1>3 DEF Kill, Exit
<1>4. CASE Start
  BY <1>4 DEF Start
<1>5. CASE SubmitKey \/ FirstSecret
  BY <1>5 DEF SubmitKey, FirstSecret
<1>6. CASE NextSecret
  BY <1>6 DEF NextSecret, Exit
<1>7. CASE RotatedSecret
  BY <1>7 DEF RotatedSecret, EventDone
<1>8. CASE GenerateErr
  BY <1>8 DEF GenerateErr, EventDone, Exit
<1>9. CASE HandleEvent
  BY <1>9 DEF HandleEvent, DispatchGuess, DispatchRotate, DispatchOther,
              RightGuess, WrongGuess, CheckHint, Withdraw, Hint, HandlerErr,
              EmptyChoices, TransactionPanics, EventDone, Exit
<1>10. CASE WriteFile
  BY <1>10, TornAssumption DEF WriteFile, Exit, IInv, TypeOK, LoopTypeOK, ChainTypeOK
<1>11. CASE Run /\ ~WriteFile
  BY <1>11 DEF Run, ReadCursor, ReadCursorFails, FetchPage, QueryFails,
               PageDone, StopOnSignal, TruncateFile, WriteFails, Exit, vars
<1> QED
  BY <1>1, <1>2, <1>3, <1>4, <1>5, <1>6, <1>7, <1>8, <1>9, <1>10, <1>11
     DEF Next, EngineStep, Environment, GenerateSecret, Run

\* While the process is up its cursor file can be read, unless it is being
\* written.
LEMMA FileInvCorrect == Spec => []FileInv
<1>1. Init => FileInv
  BY DEF Init, FileInv, Running
<1>2. IInv /\ FileInv /\ [Next]_vars => FileInv'
  BY FileStep
<1> QED
  BY <1>1, <1>2, IInvCorrect, PTL DEF Spec

-----------------------------------------------------------------------------
\* An exit appends how this incarnation ended and leaves the others alone.
LEMMA ExitAppends ==
    ASSUME IInv, ExitInv, pc # "down", UNCHANGED boot,
           NEW why \in {"ok", "error", "panic", "killed"}, Exit(why)
    PROVE  /\ Len(exits') = boot' /\ boot' > 0
           /\ exits'[boot'] = why
           /\ \A b \in 1 .. Len(exits) : exits'[b] = exits[b]
<1>1. exits \in Seq({"ok", "error", "panic", "killed"}) /\ boot \in Nat
  BY DEF IInv, TypeOK, ProcessTypeOK
<1>2. exits' = Append(exits, why)
  BY DEF Exit
<1>3. boot > 0 /\ Len(exits) = boot - 1
  BY DEF ExitInv
<1>4. /\ Len(exits') = Len(exits) + 1
      /\ exits'[Len(exits) + 1] = why
      /\ \A b \in 1 .. Len(exits) : exits'[b] = exits[b]
  BY <1>1, <1>2, AppendProperties
<1> QED
  BY <1>1, <1>3, <1>4

\* A step of the engine either goes on within its incarnation or ends it.
LEMMA StepOrExit ==
    ASSUME IInv, EngineStep
    PROVE  /\ pc # "down" /\ UNCHANGED process
           /\ \/ pc' # "down" /\ UNCHANGED exits
              \/ Exit("error") \/ Exit("panic")
              \/ Exit("ok") /\ (StopOnSignal \/ WriteFile)
<1>1. CASE GenerateSecret
  BY <1>1 DEF GenerateSecret, SubmitKey, FirstSecret, NextSecret, RotatedSecret,
              GenerateErr, EventDone
<1>2. CASE HandleEvent
  BY <1>2 DEF HandleEvent, DispatchGuess, DispatchRotate, DispatchOther,
              RightGuess, WrongGuess, CheckHint, Withdraw, Hint, HandlerErr,
              EmptyChoices, TransactionPanics, EventDone
<1>3. CASE Run
  BY <1>3 DEF Run, ReadCursor, ReadCursorFails, FetchPage, QueryFails,
              PageDone, StopOnSignal, TruncateFile, WriteFile, WriteFails, vars
<1> QED
  BY <1>1, <1>2, <1>3 DEF EngineStep

\* Each exit is the next of the list, and one that is ok leaves loop and file
\* together.
LEMMA ExitStep == IInv /\ FileInv /\ ExitInv /\ [Next]_vars => ExitInv'
<1> SUFFICES ASSUME IInv, FileInv, ExitInv, [Next]_vars
             PROVE  ExitInv'
  OBVIOUS
<1>1. CASE PublishGuess \/ PublishOther \/ Retired \/ UNCHANGED vars
  <2>1. UNCHANGED <<pc, boot, exits, pos, cursor, cursorFile>>
    BY <1>1 DEF PublishGuess, PublishOther, Retired, vars, loopVars, process
  <2> QED
    BY <2>1 DEF ExitInv, GracefulStop
<1>2. CASE RequestShutdown
  <2>1. UNCHANGED <<pc, boot, exits, pos, cursor, cursorFile>>
    BY <1>2 DEF RequestShutdown, loopVars
  <2> QED
    BY <2>1 DEF ExitInv, GracefulStop
<1>3. CASE Start
  <2>1. pc = "down" /\ pc' # "down" /\ boot' = boot + 1 /\ UNCHANGED exits
    BY <1>3 DEF Start
  <2> QED
    BY <2>1 DEF ExitInv, GracefulStop, IInv, TypeOK, ProcessTypeOK
<1>4. ASSUME pc # "down", UNCHANGED boot, NEW why \in {"error", "panic", "killed"},
             Exit(why)
      PROVE  ExitInv'
  <2>1. Len(exits') = boot' /\ boot' > 0 /\ exits'[boot'] = why /\ pc' = "down"
    BY <1>4, ExitAppends DEF Exit
  <2> QED
    BY <2>1 DEF ExitInv, GracefulStop
<1>5. CASE Kill
  BY <1>4, <1>5 DEF Kill, process
<1>6. CASE EngineStep
  <2>1. pc # "down" /\ UNCHANGED boot
    BY <1>6, StepOrExit DEF process
  <2>2. CASE pc' # "down" /\ UNCHANGED exits
    BY <2>1, <2>2 DEF ExitInv, GracefulStop
  <2>3. CASE Exit("error") \/ Exit("panic")
    BY <1>4, <2>1, <2>3
  <2>4. CASE Exit("ok") /\ (StopOnSignal \/ WriteFile)
    <3>1. Len(exits') = boot' /\ boot' > 0 /\ pc' = "down"
      BY <2>1, <2>4, ExitAppends DEF Exit
    <3>2. pos' = cursor'
      BY <2>4 DEF StopOnSignal, WriteFile, loopVars, IInv, LoopInv
    <3>3. cursorFile' = cursor'
      <4>1. CASE WriteFile
        BY <4>1 DEF WriteFile, loopVars
      <4>2. CASE StopOnSignal
        <5>1. cursor = 0
          BY <2>4, <4>2 DEF StopOnSignal, Exit
        <5>2. pc = "select" /\ cursorFile # Torn
          BY <4>2 DEF StopOnSignal, FileInv, Running, IInv, LoopInv
        <5>3. cursorFile = 0
          BY <5>1, <5>2 DEF IInv, LoopInv, TypeOK, LoopTypeOK
        <5> QED
          BY <4>2, <5>1, <5>3 DEF StopOnSignal, loopVars
      <4> QED
        BY <2>4, <4>1, <4>2
    <3> QED
      BY <3>1, <3>2, <3>3 DEF ExitInv, GracefulStop
  <2> QED
    BY <1>6, <2>2, <2>3, <2>4, StepOrExit
<1> QED
  BY <1>1, <1>2, <1>3, <1>5, <1>6 DEF Next, Environment

\* Incarnations end one after another; one that ended well had gone past its
\* whole page and left its cursor in the file.
LEMMA ExitInvCorrect == Spec => []ExitInv
<1>1. Init => ExitInv
  BY DEF Init, ExitInv, GracefulStop
<1>2. IInv /\ FileInv /\ ExitInv /\ [Next]_vars => ExitInv'
  BY ExitStep
<1> QED
  BY <1>1, <1>2, IInvCorrect, FileInvCorrect, PTL DEF Spec

\* A process that ended well has handled every event before its cursor and has
\* saved that cursor.
THEOREM GracefulStopCorrect == Spec => []GracefulStop
<1>1. ExitInv => GracefulStop
  BY DEF ExitInv
<1> QED
  BY <1>1, ExitInvCorrect, PTL
=============================================================================
