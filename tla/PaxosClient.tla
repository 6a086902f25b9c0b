------------------------------ MODULE PaxosClient ------------------------------
(***************************************************************************)
(* PaxosAppClient: one client that periodically sends a request with a     *)
(* random value to the next server, round robin.                           *)
(***************************************************************************)
EXTENDS Simulator

VARIABLES
  m_lastServerId,  \* the server the last request went to
  sendEvent,       \* whether a SendRequest is pending
  requested        \* history: the k-th request's value and destination

clientVars == <<m_lastServerId, sendEvent, requested>>

ClientTypeOK ==
  /\ m_lastServerId \in Server
  /\ sendEvent \in BOOLEAN
  /\ requested \in Seq([to : Server, value : Value])
  /\ Len(requested) <= MaxRequests

(***************************************************************************)
(* No constructor sets m_lastServerId, so that its first value is any      *)
(* 32-bit number; SendRequest uses it modulo the number of servers.        *)
(* LastServerIds bounds the ones explored: Server is all there are.        *)
(***************************************************************************)
ClientInit ==
  /\ m_lastServerId \in LastServerIds
  /\ sendEvent = TRUE
  /\ requested = <<>>

\* Mutation: the server ids run past the last one.
BugNoModulo == m_lastServerId + 1

NextServer == (m_lastServerId + 1) % NumNodes

\* The client sends a request and schedules the next, until the stop time.
SendRequest ==
  /\ BetweenEvents
  /\ sendEvent
  /\ \/ /\ PastStopTime
        /\ sendEvent' = FALSE
        /\ UNCHANGED <<m_lastServerId, requested, requestEvents>>
     \/ /\ ~PastStopTime
        /\ Len(requested) < MaxRequests
        /\ \E v \in Value :
             /\ requested' = Append(requested, [to |-> NextServer, value |-> v])
             /\ requestEvents' = requestEvents \cup
                  {[at |-> NextServer, fn |-> "ReceiveRequest",
                    frame |-> [id |-> Len(requested) + 1, value |-> v]]}
        /\ m_lastServerId' = NextServer
        /\ UNCHANGED sendEvent
  /\ UNCHANGED <<events, stopped>>
================================================================================
