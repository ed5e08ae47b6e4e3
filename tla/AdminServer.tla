----------------------------- MODULE AdminServer -----------------------------
(***************************************************************************)
(* The HTTP server in front of AdminClient: a route for each command, and  *)
(* a handler that takes the lock, makes the call and answers how it ended. *)
(*                                                                         *)
(* A handler's extractors run before it does.  Path takes the parameters   *)
(* of the route, and a route without any makes it refuse the request.      *)
(***************************************************************************)
EXTENDS AdminClient

VARIABLE phase     \* of the server: serving, draining or closed

serverVars == <<vars, phase>>

\* Handlers that take the value to set from the path.
TakesPath == CommandNames \ {"set_game_inactive"}
\* Routes that have a parameter in their path: "/set_starting_fee" and the
\* others are words alone.
HasParameter == {}

Extracts(c) == command[c] \in TakesPath => command[c] \in HasParameter

InFlight == {c \in Calls : pc[c] \in {"queued"} \cup Holding}

ServerInit == Init /\ phase = "serving"

\* The request gets to its handler.
Request(c) ==
    /\ phase = "serving" /\ Extracts(c)
    /\ Arrive(c)
    /\ UNCHANGED phase

\* It is answered before: internal server error.
Refuse(c) ==
    /\ phase = "serving" /\ ~Extracts(c)
    /\ pc[c] = "none" /\ \A d \in 1 .. c - 1 : pc[d] # "none"
    /\ pc' = [pc EXCEPT ![c] = "refused"]
    /\ UNCHANGED <<command, lock, late, settings, lastOk, phase>>

\* Ok is answered as a success, Err as an internal server error, and a panic
\* breaks the connection.
Handle(c) ==
    /\ Acquire(c) \/ Command(c) \/ Drop(c)
    /\ UNCHANGED phase

\* A shutdown lets the requests in flight finish.
Drain ==
    /\ phase = "serving"
    /\ phase' = "draining"
    /\ UNCHANGED vars

Close ==
    /\ phase = "draining" /\ InFlight = {}
    /\ phase' = "closed"
    /\ UNCHANGED vars

Executed(c) == ExecuteLate(c) /\ UNCHANGED phase

Stopped == phase = "closed" /\ late = {} /\ UNCHANGED serverVars

ServerNext ==
    \/ \E c \in Calls : Request(c) \/ Refuse(c) \/ Handle(c) \/ Executed(c)
    \/ Drain \/ Close \/ Stopped

ServerSpec == ServerInit /\ [][ServerNext]_serverVars

-----------------------------------------------------------------------------
\* "This function sets up the routes for the CLI server, including: Setting the
\* fee rate increase per guess per milli, ..." (create_router): a request for a
\* command that has a route is not turned away by the server itself.
RoutesServed == \A c \in Calls : pc[c] # "refused"
=============================================================================
