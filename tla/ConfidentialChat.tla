-------------------------- MODULE ConfidentialChat --------------------------
(***************************************************************************)
(* AtomaSdk: a question to the model is encrypted for a node, sent to it,  *)
(* and its reply is decrypted, hashed again and its signature checked.     *)
(*                                                                         *)
(* The service in between is outside the repository.  It may list any key  *)
(* for a node, and answer a request with the reply to any request made so  *)
(* far, early or late, once or often, whole or damaged.                    *)
(*                                                                         *)
(* Ciphers and hashes are what they are for: a text decrypts under the key *)
(* it was encrypted with and no other, and two texts with one hash are     *)
(* equal.                                                                  *)
(***************************************************************************)
EXTENDS Naturals

CONSTANTS
    ClientKeys,    \* key pairs the engine makes its requests with
    NodeKeys,      \* public keys of nodes
    MaxRequests    \* bound: requests made

ASSUME KeysAssumption == ClientKeys # {} /\ NodeKeys # {}
ASSUME RequestsAssumption == MaxRequests \in Nat

VARIABLES
    pc,          \* idle, lookup, post, or down with the process
    asked,       \* requests made so far
    client,      \* client_private_key of the call
    request,     \* what is posted, with the key it is encrypted with
    sent,        \* history: requests that may have reached a node
    answered     \* history: which request got the reply to which

vars == <<pc, asked, client, request, sent, answered>>

NoRequest == [question |-> 0, key |-> <<>>]

\* What can be wrong with a reply, at the first of the checks that sees it.
Faults == {"none", "envelope", "encoding", "ciphertext", "fields", "unsigned",
           "rewritten", "signature", "scheme", "signatureBytes"}

Init ==
    /\ pc = "idle"
    /\ asked = 0
    /\ client \in ClientKeys
    /\ request = NoRequest
    /\ sent = {}
    /\ answered = {}

-----------------------------------------------------------------------------
\* Definitions commented as the mutation of another are not part of Spec.

\* The caller's key is reused; the number of the request stands for its text.
Ask ==
    /\ pc = "idle" /\ asked < MaxRequests
    /\ asked' = asked + 1
    /\ client' \in ClientKeys
    /\ pc' = "lookup"
    /\ UNCHANGED <<request, sent, answered>>

\* Mutation of Salt: one salt for all requests.
ConstantSalt == 0
\* Drawn at random for each request.
Salt == asked

\* Diffie-Hellman between the two keys, expanded with the salt.
SymmetricKey(clientKey, nodeKey, salt) == <<clientKey, nodeKey, salt>>

Encrypt(nodeKey) ==
    [question |-> asked, key |-> SymmetricKey(client, nodeKey, Salt)]

\* Mutation of Post: the previous request is posted again.
PostOther ==
    /\ pc = "lookup"
    /\ \E nodeKey \in NodeKeys : sent' = sent \cup {Encrypt(nodeKey)}
    /\ pc' = "post"
    /\ UNCHANGED <<asked, client, request, answered>>

\* The service names a node; the question is encrypted for it and posted.
Post ==
    /\ pc = "lookup"
    /\ \E nodeKey \in NodeKeys :
          /\ request' = Encrypt(nodeKey)
          /\ sent' = sent \cup {Encrypt(nodeKey)}
    /\ pc' = "post"
    /\ UNCHANGED <<asked, client, answered>>

\* The connection or the service fails, the body is not what is expected, or
\* the key is not 32 bytes in base64.
LookupFails ==
    /\ pc = "lookup"
    /\ pc' = "idle"
    /\ UNCHANGED <<asked, client, request, sent, answered>>

\* Mutation of PostFails: a request that failed is made again.
PostRetried ==
    /\ pc = "post"
    /\ pc' = "lookup"
    /\ UNCHANGED <<asked, client, request, sent, answered>>

PostFails ==
    /\ pc = "post"
    /\ pc' = "idle"
    /\ UNCHANGED <<asked, client, request, sent, answered>>

\* error_for_status().unwrap_err() on a status that is neither a success nor
\* an error; or the process ends for a reason of its own.
CallDropped ==
    /\ pc \in {"lookup", "post"}
    /\ pc' = "down"
    /\ UNCHANGED <<asked, client, request, sent, answered>>

Restart ==
    /\ pc = "down"
    /\ pc' = "idle"
    /\ UNCHANGED <<asked, client, request, sent, answered>>

-----------------------------------------------------------------------------
\* A reply is encrypted with the key of the request it was made for.
Replies == [to : sent, fault : Faults]

\* The body and the base64 of its fields, among them the lengths of the nonce
\* and of the hash; then AES-GCM, and the reply's own JSON.
Decodes(m) == m.fault \notin {"envelope", "encoding"}
Decrypts(m) ==
    /\ m.to.key = request.key
    /\ m.fault \notin {"ciphertext", "fields"}

\* verify_response_hash_and_signature: both are there, and the hash is that of
\* the reply as it is serialised again, which a field that the type does not
\* declare does not survive.
HashMatches(m) == m.fault \notin {"unsigned", "rewritten"}
\* verify_signature.
SignatureHolds(m) == m.fault \notin {"signature", "scheme"}
\* It unwraps the signature's bytes.
SignaturePanics(m) == m.fault = "signatureBytes"

Accepts(m) ==
    /\ Decodes(m) /\ Decrypts(m)
    /\ HashMatches(m) /\ SignatureHolds(m) /\ ~SignaturePanics(m)

Accept ==
    /\ pc = "post"
    /\ \E m \in Replies :
          /\ Accepts(m)
          /\ answered' = answered \cup {<<asked, m.to.question>>}
    /\ pc' = "idle"
    /\ UNCHANGED <<asked, client, request, sent>>

Reject ==
    /\ pc = "post"
    /\ \E m \in Replies :
          ~Decodes(m) \/ ~Decrypts(m) \/ ~HashMatches(m) \/ ~SignatureHolds(m)
    /\ pc' = "idle"
    /\ UNCHANGED <<asked, client, request, sent, answered>>

VerifyPanics ==
    /\ pc = "post"
    /\ \E m \in Replies :
          Decodes(m) /\ Decrypts(m) /\ HashMatches(m) /\ SignaturePanics(m)
    /\ pc' = "down"
    /\ UNCHANGED <<asked, client, request, sent, answered>>

-----------------------------------------------------------------------------
Lookup == Post \/ LookupFails
Reply == Accept \/ Reject \/ VerifyPanics \/ PostFails

\* The bound on requests is reached.
Finished ==
    /\ pc = "idle" /\ asked = MaxRequests
    /\ UNCHANGED vars

Next == Ask \/ Lookup \/ Reply \/ CallDropped \/ Restart \/ Finished

(***************************************************************************)
(* The client has no timeout of its own: that both requests are answered   *)
(* in the end, or their connections break, is assumed of the network.      *)
(***************************************************************************)
Fairness == WF_vars(Lookup) /\ WF_vars(Reply)

Spec == Init /\ [][Next]_vars /\ Fairness

-----------------------------------------------------------------------------
Requests == [question : Nat, key : ClientKeys \X NodeKeys \X Nat]

\* The values of the variables. A request that waits for its reply is one that
\* was sent, and it is the last.
TypeOK ==
    /\ pc \in {"idle", "lookup", "post", "down"}
    /\ asked \in 0 .. MaxRequests /\ (pc # "idle" => asked > 0)
    /\ client \in ClientKeys
    /\ sent \subseteq Requests
    /\ \A r \in sent : r.question \in 1 .. asked
    /\ pc = "post" => request \in sent /\ request.question = asked
    /\ answered \subseteq (1 .. asked) \X (1 .. asked)

\* A reply the engine gets was made for the very question it asked, though its
\* key pair and the node may be those of other requests and the service may
\* mix up replies or deliver them again: nothing else in a reply names its
\* request.
AnswersItsRequest == \A a \in answered : a[1] = a[2]

\* What a question goes through is, to the engine, one request that is answered
\* with its own reply, fails, or ends with the process.
Model == INSTANCE ModelRequest WITH
    call <- IF pc \in {"lookup", "post"} THEN "waiting" ELSE pc
ImplementsModelRequest == Model!Spec
=============================================================================
