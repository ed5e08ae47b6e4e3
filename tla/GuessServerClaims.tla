------------------------- MODULE GuessServerClaims -------------------------
(***************************************************************************)
(* What the comment of the polling handler says and the code does not do.  *)
(***************************************************************************)
EXTENDS GuessServer

\* "This function will wait for the response to be available and will return
\* it" (get_guess_response_handler): no request is answered without its
\* response while that is available.
AvailableIsReturned ==
    [][\A r \in Requests :
          ~GaveUp(r) /\ GaveUp(r)' => guess[r] \notin DOMAIN answers]_serverVars
=============================================================================
