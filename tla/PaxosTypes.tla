------------------------------ MODULE PaxosTypes ------------------------------
(***************************************************************************)
(* The data of sync-paxos (paxos-common.h, paxos-frame.h): who takes part, *)
(* what a client asks for, the frames that travel between servers and the  *)
(* proposal objects a server keeps.                                        *)
(***************************************************************************)
EXTENDS Integers, Sequences, FiniteSets

CONSTANTS
  NumNodes,     \* m_numNodes: the number of servers (numLeaf in main)
  IsAsync,      \* PaxosAppServer::s_async: which of the two protocols runs
  Leader,       \* PaxosAppServer::s_leader, used only when IsAsync
  QueueLimit,   \* the limit of m_waitingProposals (1000 in the code)
  Value,        \* the values a client may ask for
  MaxRequests,  \* bound: the number of requests the client sends
  Lossy,        \* whether the network may drop a datagram
  LastServerIds \* what the client's m_lastServerId may hold at the start

Server == 0 .. NumNodes - 1

ASSUME NumNodesAssumption == NumNodes \in Nat \ {0}
ASSUME ModeAssumption     == IsAsync \in BOOLEAN /\ Lossy \in BOOLEAN
ASSUME LeaderAssumption   == Leader \in Server
ASSUME BoundsAssumption   == QueueLimit \in Nat /\ MaxRequests \in Nat
ASSUME LastIdsAssumption  == LastServerIds \subseteq Server

(***************************************************************************)
(* A proposal id is the timestamp of the client's request.  There is one   *)
(* client and its send interval is positive, so that timestamps are        *)
(* distinct and increase: the k-th request has timestamp k.                *)
(***************************************************************************)
Id == 1 .. MaxRequests

RequestFrame == [id : Id, value : Value]

MessageType == {"PROPOSAL", "ACCEPT", "DECISION", "DECISION_ACK"}

\* The fields of PaxosFrame a handler reads; its three times are left out.
PaxosFrame ==
  [type : MessageType, proposerId : Server, proposalId : Id, value : Value,
   acceptorId : Server]

(***************************************************************************)
(* What a Proposal object holds while it is in m_proposals.  decided says  *)
(* that m_decisionTime is not zero.                                        *)
(***************************************************************************)
Proposal ==
  [id : Id, value : Value, numAck : Nat, decided : BOOLEAN,
   numDecisionAck : Nat]

\* What is left of it in m_acceptedProposals and m_decidedProposalQueue.
Decision == [id : Id, value : Value, proposer : Server]

LeaderState == {"UNINITIALIZED", "WAITING_REQUEST", "PROPOSED"}

\* Mutation: >= for >, half of the servers is enough.
BugHalfIsEnough(n) == n >= NumNodes \div 2

\* The test getNumAck() > (m_numNodes / 2), on unsigned integers.
EnoughVotes(n) == n > NumNodes \div 2
===============================================================================
