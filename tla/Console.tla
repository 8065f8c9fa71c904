-------------------------------- MODULE Console --------------------------------
(***************************************************************************)
(* The console's requests from the middleware to their handlers: Auth, and *)
(* behind it the chat (the router of cmd/server/main.go).  A request that  *)
(* the middleware let in for POST /chat becomes a turn of Chat; the turn   *)
(* goes on while other requests log in, log out and are limited.           *)
(***************************************************************************)
EXTENDS Auth, Chat

\* A turn is a request.
ASSUME ConsoleAssumption == Turns = Requests

vars == <<mix, now, sessions, limits, req, arrived, born, loggedOut, grants, history, order, turn>>

Init == AuthInit /\ ChatInit

\* The middleware has let a chat request in: Chat handles it.
HandleChat(r) ==
  /\ req[r].pc = "handle" /\ req[r].kind = "chat"
  /\ \/ ChatBegins(r) /\ req' = [req EXCEPT ![r] = [pc |-> "chat"]]
     \/ ChatRefused(r) /\ req' = [req EXCEPT ![r] = Done]
  /\ UNCHANGED <<mix, now, sessions, limits, arrived, born, loggedOut, grants>>

\* A turn is over, and with it the request.
FinishChat(r) ==
  /\ ChatReturns(r)
  /\ req' = [req EXCEPT ![r] = Done]
  /\ UNCHANGED <<mix, now, sessions, limits, arrived, born, loggedOut, grants>>

ChatStep(r) == (TurnStep(r) /\ UNCHANGED authVars) \/ FinishChat(r)

Next ==
  \/ Tick /\ UNCHANGED chatVars
  \/ \E r \in Requests :
       \/ AuthStep(r) /\ UNCHANGED chatVars
       \/ HandleChat(r)
       \/ ChatStep(r)
       \/ ContextEnds(r) /\ UNCHANGED authVars

Spec == Init /\ [][Next]_vars

===============================================================================
