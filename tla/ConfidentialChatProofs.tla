----------------------- MODULE ConfidentialChatProofs -----------------------
(***************************************************************************)
(* Proofs about ConfidentialChat, for any keys and any number of requests. *)
(***************************************************************************)
EXTENDS ConfidentialChat, TLAPS

\* A request and the key it was encrypted with name each other: the salt of a
\* key is that of one request only.
SaltNamesRequest == \A r \in sent : r.key[3] = r.question

Inv == TypeOK /\ SaltNamesRequest /\ AnswersItsRequest

\* The types hold when the process starts, and every step keeps them.
LEMMA TypeInit == Init => TypeOK
  BY KeysAssumption, RequestsAssumption DEF Init, TypeOK

LEMMA TypeStep == TypeOK /\ [Next]_vars => TypeOK'
<1> SUFFICES ASSUME TypeOK, [Next]_vars PROVE TypeOK'
  OBVIOUS
<1> USE RequestsAssumption DEF TypeOK
<1>1. CASE Ask
  BY <1>1 DEF Ask
<1>2. CASE Post
  <2> PICK nodeKey \in NodeKeys :
            request' = Encrypt(nodeKey) /\ sent' = sent \cup {Encrypt(nodeKey)}
    BY <1>2 DEF Post
  <2>1. Encrypt(nodeKey) \in Requests /\ Encrypt(nodeKey).question = asked
    BY DEF Encrypt, SymmetricKey, Salt, Requests
  <2> QED
    BY <1>2, <2>1 DEF Post
<1>3. CASE LookupFails \/ PostFails \/ CallDropped \/ Restart
  BY <1>3 DEF LookupFails, PostFails, CallDropped, Restart
<1>4. CASE Accept
  <2> PICK m \in Replies : answered' = answered \cup {<<asked, m.to.question>>}
    BY <1>4 DEF Accept
  <2>1. m.to.question \in 1 .. asked
    BY DEF Replies
  <2> QED
    BY <1>4, <2>1 DEF Accept
<1>5. CASE Reject \/ VerifyPanics
  BY <1>5 DEF Reject, VerifyPanics
<1>6. CASE Finished \/ UNCHANGED vars
  BY <1>6 DEF Finished, vars
<1> QED
  BY <1>1, <1>2, <1>3, <1>4, <1>5, <1>6 DEF Next, Lookup, Reply

\* TypeOK of ConfidentialChat is an invariant of it.
THEOREM TypeCorrect == Spec => []TypeOK
<1>1. Init => TypeOK
  BY TypeInit
<1>2. TypeOK /\ [Next]_vars => TypeOK'
  BY TypeStep
<1> QED
  BY <1>1, <1>2, PTL DEF Spec

-----------------------------------------------------------------------------
LEMMA InvInit == Init => Inv
  BY TypeInit DEF Init, Inv, SaltNamesRequest, AnswersItsRequest

\* The two actions that touch what Inv relates: a request is encrypted with the
\* salt drawn for it, and a reply that decrypts was encrypted with the salt of
\* the request that waits.
LEMMA PostStep == Inv /\ Post => SaltNamesRequest' /\ AnswersItsRequest'
<1> SUFFICES ASSUME Inv, Post PROVE SaltNamesRequest' /\ AnswersItsRequest'
  OBVIOUS
<1> PICK nodeKey \in NodeKeys : sent' = sent \cup {Encrypt(nodeKey)}
  BY DEF Post
<1>1. Encrypt(nodeKey).key[3] = Encrypt(nodeKey).question
  BY DEF Encrypt, SymmetricKey, Salt
<1> QED
  BY <1>1 DEF Inv, Post, SaltNamesRequest, AnswersItsRequest

LEMMA AcceptStep == Inv /\ Accept => SaltNamesRequest' /\ AnswersItsRequest'
<1> SUFFICES ASSUME Inv, Accept PROVE SaltNamesRequest' /\ AnswersItsRequest'
  OBVIOUS
<1> PICK m \in Replies : Accepts(m) /\ answered' = answered \cup {<<asked, m.to.question>>}
  BY DEF Accept
<1>1. m.to \in sent /\ m.to.key = request.key
  BY DEF Replies, Accepts, Decrypts
<1>2. request \in sent /\ request.question = asked
  BY DEF Inv, TypeOK, Accept
<1>3. m.to.question = asked
  BY <1>1, <1>2 DEF Inv, SaltNamesRequest
<1> QED
  BY <1>3 DEF Inv, Accept, SaltNamesRequest, AnswersItsRequest

LEMMA InvStep == Inv /\ [Next]_vars => Inv'
<1> SUFFICES ASSUME Inv, [Next]_vars PROVE Inv'
  OBVIOUS
<1>1. TypeOK'
  BY TypeStep DEF Inv
<1>2. CASE Post
  BY <1>1, <1>2, PostStep DEF Inv
<1>3. CASE Accept
  BY <1>1, <1>3, AcceptStep DEF Inv
<1>4. CASE ~Post /\ ~Accept
  <2>1. UNCHANGED <<sent, answered>>
    BY <1>4 DEF Next, Lookup, Reply, Ask, LookupFails, PostFails, CallDropped,
                Restart, Reject, VerifyPanics, Finished, vars
  <2> QED
    BY <1>1, <2>1 DEF Inv, SaltNamesRequest, AnswersItsRequest
<1> QED
  BY <1>2, <1>3, <1>4

\* The engine is never given the reply to another question, however many
\* requests share its key pair and the node's.
THEOREM AnswersItsRequestCorrect == Spec => []AnswersItsRequest
<1>1. Inv => AnswersItsRequest
  BY DEF Inv
<1> QED
  BY <1>1, InvInit, InvStep, PTL DEF Spec

-----------------------------------------------------------------------------
(***************************************************************************)
(* The refinement, without its fairness: every step of a confidential      *)
(* request is one of the engine's request to the model, or a stutter.      *)
(***************************************************************************)
LEMMA ModelInit == Init => Model!Init
  BY DEF Init, Model!Init

LEMMA ModelStep == Inv /\ Inv' /\ [Next]_vars => [Model!Next]_Model!vars
<1> SUFFICES ASSUME Inv, Inv', [Next]_vars
             PROVE  [Model!Next]_Model!vars
  OBVIOUS
<1> USE DEF Model!vars
<1>1. CASE Ask
  BY <1>1 DEF Ask, Model!Next, Model!Ask
<1>2. CASE Post
  BY <1>2 DEF Post
<1>3. CASE LookupFails \/ PostFails \/ CallDropped \/ Reject \/ VerifyPanics
  BY <1>3 DEF LookupFails, PostFails, CallDropped, Reject, VerifyPanics,
              Model!Next, Model!Return, Model!Fail
<1>4. CASE Restart
  BY <1>4 DEF Restart, Model!Next, Model!Restart
<1>5. CASE Accept
  <2> PICK m \in Replies : answered' = answered \cup {<<asked, m.to.question>>}
    BY <1>5 DEF Accept
  <2>1. m.to.question = asked
    <3>1. <<asked, m.to.question>> \in answered'
      OBVIOUS
    <3>2. \A a \in answered' : a[1] = a[2]
      BY DEF Inv, AnswersItsRequest
    <3> QED
      BY <3>1, <3>2
  <2> QED
    BY <1>5, <2>1 DEF Accept, Model!Next, Model!Return, Model!Answer
<1>6. CASE Finished \/ UNCHANGED vars
  BY <1>6 DEF Finished, vars
<1> QED
  BY <1>1, <1>2, <1>3, <1>4, <1>5, <1>6 DEF Next, Lookup, Reply

\* ConfidentialChat keeps the safety part of ModelRequest, which is what the
\* engine's steps that wait for the model take for granted.
THEOREM ImplementsModelRequestSafety ==
    Spec => Model!Init /\ [][Model!Next]_Model!vars
  BY InvInit, InvStep, ModelInit, ModelStep, PTL DEF Spec
=============================================================================
