------------------------- MODULE AdminServerProofs -------------------------
(***************************************************************************)
(* Theorems about AdminServer, for any number of requests of any commands: *)
(* the routes and the shutdown in front of the client leave it what it is, *)
(* and what gets through them is set_game_inactive.                        *)
(***************************************************************************)
EXTENDS AdminServer, TLAPS

\* A request that is refused is, to the client, a call that never gets the
\* lock.
Client == INSTANCE AdminClientProofs WITH
    pc <- [c \in Calls |-> IF pc[c] = "refused" THEN "queued" ELSE pc[c]]

\* Only requests whose value is found in the path reach a handler, and none
\* is with the server once it is closed.
ServerInv ==
    /\ pc \in [Calls -> {"none", "queued", "refused"} \cup Holding \cup Ends]
    /\ phase \in {"serving", "draining", "closed"}
    /\ \A c \in Calls : pc[c] \in {"queued"} \cup Holding \cup Ends => Extracts(c)
    /\ late \subseteq {c \in Calls : pc[c] \in Ends}
    /\ phase = "closed" => InFlight = {}

-----------------------------------------------------------------------------
LEMMA ServerInvInit == ServerInit => ServerInv
BY DEF ServerInit, Init, ServerInv, InFlight, Holding, Ends

\* No handler lets a request past its extractors, and none is left when the
\* server closes.
LEMMA ServerInvStep == ServerInv /\ [ServerNext]_serverVars => ServerInv'
<1> SUFFICES ASSUME ServerInv, [ServerNext]_serverVars
             PROVE  ServerInv'
  OBVIOUS
<1> USE DEF ServerInv, Holding, Ends, Extracts, InFlight
<1>1. ASSUME NEW c \in Calls, Request(c)
      PROVE  ServerInv'
  BY <1>1 DEF Request, Arrive
<1>2. ASSUME NEW c \in Calls, Refuse(c)
      PROVE  ServerInv'
  BY <1>2 DEF Refuse
<1>3. ASSUME NEW c \in Calls, Handle(c)
      PROVE  ServerInv'
  <2>1. UNCHANGED <<command, phase>> /\ pc[c] \in {"queued"} \cup Holding
    BY <1>3 DEF Handle, Acquire, Drop, Command, SetFeeRateIncrease,
                SetGameInactive, SetAgentAddress, SetStartingFee,
                SetUpdateFeeEveryNGuesses, SetProtocolFee, Transaction,
                BuildFails, Submit, Execute, Succeed, Panic
  <2>2. /\ \E how \in Holding \cup Ends : pc' = [pc EXCEPT ![c] = how]
        /\ late' \subseteq late \cup {c}
        /\ late' # late => pc'[c] \in Ends
    BY <1>3 DEF Handle, Acquire, Drop, Command, SetFeeRateIncrease,
                SetGameInactive, SetAgentAddress, SetStartingFee,
                SetUpdateFeeEveryNGuesses, SetProtocolFee, Transaction,
                BuildFails, Submit, Execute, Succeed, Panic, Ended, MayBeLate
  <2> QED
    BY <2>1, <2>2
<1>4. ASSUME NEW c \in Calls, Executed(c)
      PROVE  ServerInv'
  BY <1>4 DEF Executed, ExecuteLate
<1>5. CASE Drain \/ Close
  BY <1>5 DEF Drain, Close, vars
<1>6. CASE Stopped \/ UNCHANGED serverVars
  BY <1>6 DEF Stopped, serverVars, vars
<1> QED
  BY <1>1, <1>2, <1>3, <1>4, <1>5, <1>6 DEF ServerNext

LEMMA ServerInvCorrect == ServerSpec => []ServerInv
  BY ServerInvInit, ServerInvStep, PTL DEF ServerSpec

-----------------------------------------------------------------------------
LEMMA ClientInit == ServerInit => Client!Init
<1> SUFFICES ASSUME ServerInit
             PROVE  Client!Init
  OBVIOUS
<1>1. [c \in Calls |-> IF pc[c] = "refused" THEN "queued" ELSE pc[c]]
         = [c \in Calls |-> "none"]
  BY DEF ServerInit, Init
<1> QED
  BY <1>1 DEF ServerInit, Init, Client!Init, Client!Calls, Client!Commands,
              Client!None, Calls, Commands, None

\* Every step of the server is one of its client, where a refusal is a call
\* that waits for ever, or leaves the client alone.
LEMMA ClientStep == ServerInv /\ [ServerNext]_serverVars => [Client!Next]_(Client!vars)
<1> SUFFICES ASSUME ServerInv, [ServerNext]_serverVars
             PROVE  Client!Next \/ UNCHANGED Client!vars
  BY DEF Client!vars
<1> DEFINE clientPc == [c \in Calls |-> IF pc[c] = "refused" THEN "queued" ELSE pc[c]]
<1>1. Client!Calls = Calls /\ Client!None = None /\ Client!Holding = Holding
  BY DEF Client!Calls, Calls, Client!None, None, Client!Holding, Holding
<1>2. ASSUME NEW c \in Calls, NEW how, how # "refused", pc[c] # "refused",
             pc' = [pc EXCEPT ![c] = how]
      PROVE  clientPc' = [clientPc EXCEPT ![c] = how] /\ clientPc[c] = pc[c]
  BY <1>2 DEF ServerInv
<1>3. ASSUME NEW c \in Calls, Request(c)
      PROVE  Client!Next
  <2>1. clientPc' = [clientPc EXCEPT ![c] = "queued"] /\ clientPc[c] = pc[c]
    BY <1>2, <1>3 DEF Request, Arrive
  <2>2. \A d \in 1 .. c - 1 : clientPc[d] # "none"
    BY <1>3, CallsAssumption DEF Request, Arrive, Calls
  <2>3. Client!Arrive(c)
    BY <1>3, <2>1, <2>2 DEF Request, Arrive, Client!Arrive
  <2> QED
    BY <1>1, <2>3 DEF Client!Next, Client!Call
<1>4. ASSUME NEW c \in Calls, Refuse(c)
      PROVE  Client!Next
  <2>1. clientPc' = [clientPc EXCEPT ![c] = "queued"] /\ clientPc[c] = "none"
    BY <1>4 DEF Refuse, ServerInv
  <2>2. \A d \in 1 .. c - 1 : clientPc[d] # "none"
    BY <1>4, CallsAssumption DEF Refuse, Calls
  <2>3. Client!Arrive(c)
    BY <1>4, <2>1, <2>2 DEF Refuse, Client!Arrive
  <2> QED
    BY <1>1, <2>3 DEF Client!Next, Client!Call
<1>5. ASSUME NEW c \in Calls, Handle(c)
      PROVE  Client!Next
  <2> USE <1>1, <1>2
  <2>1. CASE Acquire(c)
    <3>1. Client!Acquire(c)
      BY <2>1 DEF Acquire, Client!Acquire
    <3> QED
      BY <3>1 DEF Client!Next, Client!Call
  <2>2. CASE Drop(c)
    <3>1. pc[c] \in {"queued"} \cup Holding /\ pc' = [pc EXCEPT ![c] = "dropped"]
      BY <2>2 DEF Drop, Ended
    <3>2. clientPc' = [clientPc EXCEPT ![c] = "dropped"] /\ clientPc[c] = pc[c]
      BY <3>1 DEF Holding
    <3>3. Client!Drop(c)
      BY <2>2, <3>1, <3>2
         DEF Drop, Ended, MayBeLate, Client!Drop, Client!Ended, Client!MayBeLate
    <3> QED
      BY <3>3 DEF Client!Next, Client!Call
  <2>3. CASE Command(c)
    <3>1. Transaction(c)
      BY <2>3 DEF Command, SetFeeRateIncrease, SetGameInactive, SetAgentAddress,
                  SetStartingFee, SetUpdateFeeEveryNGuesses, SetProtocolFee
    <3>2. Client!Transaction(c)
      BY <3>1
         DEF Transaction, BuildFails, Submit, Execute, Succeed, Panic, Ended,
             Set, MayBeLate, Client!Transaction, Client!BuildFails,
             Client!Submit, Client!Execute, Client!Succeed, Client!Panic,
             Client!Ended, Client!Set, Client!MayBeLate
    <3>3. Client!Command(c)
      BY <2>3, <3>2
         DEF Command, SetFeeRateIncrease, SetGameInactive, SetAgentAddress,
             SetStartingFee, SetUpdateFeeEveryNGuesses, SetProtocolFee,
             Client!Command, Client!SetFeeRateIncrease, Client!SetGameInactive,
             Client!SetAgentAddress, Client!SetStartingFee,
             Client!SetUpdateFeeEveryNGuesses, Client!SetProtocolFee
    <3> QED
      BY <3>3 DEF Client!Next, Client!Call
  <2> QED
    BY <1>5, <2>1, <2>2, <2>3 DEF Handle
<1>6. ASSUME NEW c \in Calls, Executed(c)
      PROVE  Client!Next
  <2>1. Client!ExecuteLate(c)
    BY <1>6 DEF Executed, ExecuteLate, Set, Client!ExecuteLate, Client!Set
  <2> QED
    BY <1>1, <2>1 DEF Client!Next
<1>7. CASE Drain \/ Close \/ Stopped \/ UNCHANGED serverVars
  BY <1>7 DEF Drain, Close, Stopped, serverVars, vars, Client!vars
<1> QED
  BY <1>3, <1>4, <1>5, <1>6, <1>7 DEF ServerNext

-----------------------------------------------------------------------------
\* What the client's invariant says of the server's own variables.
LEMMA ClientFacts ==
    ASSUME ServerInv, Client!Inv
    PROVE  /\ lock \in Calls \cup {None}
           /\ lock # None => pc[lock] \in Holding
           /\ settings \in [Commands -> Calls \cup {None}]
           /\ \A k \in Commands :
                 settings[k] # None =>
                     /\ command[settings[k]] = k
                     /\ pc[settings[k]] \in {"executed", "ok", "panic", "dropped"}
           /\ \A k \in Commands :
                 settings[k] # lastOk[k] =>
                     settings[k] # None /\ pc[settings[k]] \in {"executed", "panic", "dropped"}
           /\ late \subseteq {c \in Calls : pc[c] \in {"panic", "dropped"}}
<1> DEFINE clientPc == [c \in Calls |-> IF pc[c] = "refused" THEN "queued" ELSE pc[c]]
<1>1. /\ Client!Calls = Calls /\ Client!None = None /\ Client!Commands = Commands
      /\ Client!Holding = Holding
  BY DEF Client!Calls, Calls, Client!None, None, Client!Commands, Commands,
         Client!Holding, Holding
<1>2. \A c \in Calls, S \in SUBSET (Holding \cup Ends) : clientPc[c] \in S => pc[c] \in S
  BY DEF Holding, Ends
<1>3. Client!TypeOK /\ Client!SetByExecuted /\ Client!LastOkHolds
  BY DEF Client!Inv
<1>4. None \notin Calls
  BY CallsAssumption DEF None, Calls
<1>5. lock \in Calls \cup {None} /\ (lock # None => clientPc[lock] \in Holding)
  BY <1>1, <1>3 DEF Client!TypeOK
<1>6. settings \in [Commands -> Calls \cup {None}]
  BY <1>1, <1>3 DEF Client!TypeOK
<1>7. late \subseteq {c \in Calls : clientPc[c] \in {"panic", "dropped"}}
  BY <1>1, <1>3 DEF Client!TypeOK
<1>8. \A k \in Commands :
          settings[k] # None =>
              /\ command[settings[k]] = k
              /\ clientPc[settings[k]] \in {"executed", "ok", "panic", "dropped"}
  BY <1>1, <1>3 DEF Client!SetByExecuted
<1>9. \A k \in Commands :
          settings[k] # lastOk[k] =>
              /\ settings[k] # None
              /\ clientPc[settings[k]] \in {"executed", "panic", "dropped"}
  BY <1>1, <1>3 DEF Client!LastOkHolds
<1> HIDE DEF clientPc
<1> QED
  BY <1>2, <1>4, <1>5, <1>6, <1>7, <1>8, <1>9 DEF Holding, Ends

\* All that holds of the client holds of it behind the server.
LEMMA ClientInvCorrect == ServerSpec => []Client!Inv
<1>1. Client!Init => Client!Inv
  BY Client!InvInit, MixesAssumption, CallsAssumption DEF CommandNames, Client!CommandNames
<1>2. Client!Inv /\ [Client!Next]_(Client!vars) => Client!Inv'
  BY Client!InvStep, MixesAssumption, CallsAssumption DEF CommandNames, Client!CommandNames
<1> QED
  BY <1>1, <1>2, ClientInit, ClientStep, ServerInvCorrect, PTL DEF ServerSpec

\* The HTTP server only makes calls of the client, one after another as the
\* requests come, and neither its routes nor its shutdown change how a call goes.
THEOREM AdminServerImplementsClient ==
    ServerSpec => Client!Init /\ [][Client!Next]_(Client!vars)
  BY ClientInit, ClientStep, ServerInvCorrect, PTL DEF ServerSpec

\* Requests that were answered with a success take effect on the contract in
\* the order of their answers, and one answered with an error had none, though
\* connections break and the server is shut down in between.
THEOREM AdminServerKeepsClient == ServerSpec => [](LastOkHolds /\ ErrMeansUntouched)
<1>1. ServerInv /\ Client!Inv => LastOkHolds /\ ErrMeansUntouched
  BY ClientFacts, CallsAssumption DEF LastOkHolds, ErrMeansUntouched, None, Calls
<1> QED
  BY <1>1, ServerInvCorrect, ClientInvCorrect, PTL

\* What a route without a parameter can do: of the six settings of the game,
\* the server changes none but whether it is active.
OnlyGameInactive == \A k \in Commands : settings[k] # None => k = "set_game_inactive"

\* Five of the six commands never reach the contract through the HTTP server:
\* their handlers take the value to set from a path that has none.
THEOREM AdminServerOnlySetsInactive == ServerSpec => []OnlyGameInactive
<1>1. ASSUME ServerInv, Client!Inv, NEW k \in Commands, settings[k] # None
      PROVE  k = "set_game_inactive"
  <2>1. settings[k] \in Calls /\ command[settings[k]] = k /\ Extracts(settings[k])
    BY <1>1, ClientFacts DEF ServerInv, Holding, Ends
  <2>2. k \in CommandNames
    BY MixesAssumption DEF Commands
  <2> QED
    BY <2>1, <2>2 DEF Extracts, TakesPath, HasParameter
<1>2. ServerInv /\ Client!Inv => OnlyGameInactive
  BY <1>1 DEF OnlyGameInactive
<1> QED
  BY <1>2, ServerInvCorrect, ClientInvCorrect, PTL
=============================================================================
