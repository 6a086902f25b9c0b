------------------------------- MODULE Simulator -------------------------------
(***************************************************************************)
(* The ns-3 event list, as the applications see it.  A datagram on its way *)
(* is the event that will call the receive callback of the destination's   *)
(* socket; a call to Simulator::Schedule adds the event of a handler.  One *)
(* event runs at a time, to its end.  Times are abstracted: any pending    *)
(* event may be the next one.  An event for the same instant (ScheduleNow) *)
(* is then part of the event that schedules it: whatever could run in      *)
(* between could as well have run before.                                  *)
(***************************************************************************)
EXTENDS PaxosTypes

VARIABLES
  requestEvents,  \* pending events that carry a RequestFrame
  events,         \* pending events that carry a PaxosFrame
  stopped         \* the servers whose StopApplication has run

simVars == <<requestEvents, events, stopped>>

RequestHandler == {"ReceiveRequest", "CreateProposalFromRequest"}

Handler == {"ReceiveMessage", "SendAcceptMessage"}

RequestEvent == [at : Server, fn : RequestHandler, frame : RequestFrame]
Event        == [at : Server, fn : Handler, frame : PaxosFrame]

SimTypeOK ==
  /\ requestEvents \subseteq RequestEvent
  /\ events \subseteq Event
  /\ stopped \subseteq Server

SimInit ==
  /\ requestEvents = {}
  /\ events = {}
  /\ stopped = {}

\* Socket::SendTo: the datagram will reach the socket of server t.
Datagram(t, f) == [at |-> t, fn |-> "ReceiveMessage", frame |-> f]

\* Mutations: the sender is not skipped; the last node is not reached.
BugBroadcastToSelf(s, f) == {Datagram(t, f) : t \in Server}
BugBroadcastShort(s, f)  == {Datagram(t, f) : t \in (0 .. NumNodes - 2) \ {s}}

\* The loop over m_nodes that skips the sender itself.
Broadcast(s, f) == {Datagram(t, f) : t \in Server \ {s}}

\* Mutation: the servers stop at times of their own.
BugStopApart == TRUE

(***************************************************************************)
(* All applications stop at the same time, and their StopApplication       *)
(* events were inserted when the nodes were initialised, before any event  *)
(* of the run: they run one after the other with nothing in between.       *)
(***************************************************************************)
BetweenEvents == stopped \in {{}, Server}

\* Mutation: the stop time is not looked at.
BugNeverStops == FALSE

\* Simulator::Now() >= m_stopTime
PastStopTime == stopped # {}

\* A queue disc of a link on the way is over its limit, or its CoDel drops
\* (PointToPoint): a datagram is lost.
DropMessage(e) ==
  /\ Lossy
  /\ e.fn = "ReceiveMessage"
  /\ events' = events \ {e}
  /\ UNCHANGED <<requestEvents, stopped>>

DropRequest(r) ==
  /\ Lossy
  /\ r.fn = "ReceiveRequest"
  /\ requestEvents' = requestEvents \ {r}
  /\ UNCHANGED <<events, stopped>>
================================================================================
