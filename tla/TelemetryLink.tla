---------------------------- MODULE TelemetryLink ----------------------------
(***************************************************************************)
(* The web socket of the globe view and the indicator of its state, which  *)
(* every page shows.  Each visit of the globe opens a socket of its own;   *)
(* the events of a closed one still arrive, and write the same store.      *)
(* What the messages say only changes the text of the view, left out here. *)
(***************************************************************************)
EXTENDS Naturals

CONSTANT MaxVisits   \* bound: visits of the globe

ASSUME LinkAssumption == MaxVisits \in Nat

VARIABLES
  onGlobe,
  visits,           \* the sockets opened so far
  sockets,          \* the state of each
  connectionState

linkVars == <<onGlobe, visits, sockets, connectionState>>

Sockets == 1..MaxVisits
SocketStates == {"none", "connecting", "open", "closing", "broken", "closed"}

LinkTypeOK ==
  /\ onGlobe \in BOOLEAN
  /\ visits \in 0..MaxVisits
  /\ sockets \in [Sockets -> SocketStates]
  /\ connectionState \in {"connected", "disconnected", "connecting"}
  /\ \A n \in Sockets : sockets[n] = "none" <=> n > visits

LinkInit ==
  /\ onGlobe = FALSE
  /\ visits = 0
  /\ sockets = [n \in Sockets |-> "none"]
  /\ connectionState = "connecting"

\* The effect of the hook.
OpenGlobe ==
  /\ ~onGlobe
  /\ visits < MaxVisits
  /\ onGlobe' = TRUE
  /\ visits' = visits + 1
  /\ sockets' = [sockets EXCEPT ![visits + 1] = "connecting"]
  /\ connectionState' = "connecting"

\* Its clean-up closes the socket, and leaves the store to the socket's events.
LeaveGlobe ==
  /\ onGlobe
  /\ onGlobe' = FALSE
  /\ sockets' = [sockets EXCEPT ![visits] = IF @ \in {"connecting", "open"} THEN "closing" ELSE @]
  /\ UNCHANGED <<visits, connectionState>>

-----------------------------------------------------------------------------
(***************************************************************************)
(* The events of a socket.                                                 *)
(***************************************************************************)
OnOpen(n) ==
  /\ sockets[n] = "connecting"
  /\ sockets' = [sockets EXCEPT ![n] = "open"]
  /\ connectionState' = "connected"
  /\ UNCHANGED <<onGlobe, visits>>

\* Mutant: the socket of a left globe reports to nobody.
OnCloseIfMounted(n) ==
  /\ sockets[n] \in {"closing", "broken"}
  /\ sockets' = [sockets EXCEPT ![n] = "closed"]
  /\ connectionState' = IF sockets[n] = "broken" THEN "disconnected" ELSE connectionState
  /\ UNCHANGED <<onGlobe, visits>>

\* Either side has closed it; an error, if there is one, comes with this event
\* and does the same.
OnClose(n) ==
  /\ sockets[n] \in {"closing", "broken"}
  /\ sockets' = [sockets EXCEPT ![n] = "closed"]
  /\ connectionState' = "disconnected"
  /\ UNCHANGED <<onGlobe, visits>>

\* A message that is not JSON.
OnGarbledMessage(n) ==
  /\ sockets[n] = "open"
  /\ connectionState' = "disconnected"
  /\ UNCHANGED <<onGlobe, visits, sockets>>

\* The server refuses or ends the connection, or dies: its stream ends with an
\* exception, for one, when the last line of the log it reads is not complete.
ServerEnds(n) ==
  /\ sockets[n] \in {"connecting", "open"}
  /\ sockets' = [sockets EXCEPT ![n] = "broken"]
  /\ UNCHANGED <<onGlobe, visits, connectionState>>

LinkEvents ==
  \E n \in Sockets : OnOpen(n) \/ OnClose(n) \/ OnGarbledMessage(n) \/ ServerEnds(n)

-----------------------------------------------------------------------------
(***************************************************************************)
(* What the indicator promises.                                            *)
(***************************************************************************)

\* "WebSocket Linked" is shown only as long as some socket that opened has not
\* reported its end; and once the last one has, "Link Down" is shown, whatever
\* sockets of earlier visits reported in between.
LinkIsShown ==
  /\ connectionState = "connected" =>
       \E n \in Sockets : sockets[n] \in {"open", "closing", "broken"}
  /\ visits > 0 /\ (\A n \in 1..visits : sockets[n] = "closed") =>
       connectionState = "disconnected"

=============================================================================
