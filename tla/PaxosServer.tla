------------------------------ MODULE PaxosServer ------------------------------
(***************************************************************************)
(* PaxosAppServer: listener, proposer and acceptor of one server, in the   *)
(* synchronous protocol (every server proposes in its own time slot and    *)
(* decides on a majority of ACCEPTs) and in the asynchronous one (only the *)
(* leader proposes, one proposal at a time, and a decision is complete on  *)
(* a majority of DECISION_ACKs).  One action per event handler; each       *)
(* consumes the event that called it.                                      *)
(***************************************************************************)
EXTENDS Simulator, SequencesExt

VARIABLES
  m_waitingProposals,      \* requests not proposed yet, first come first served
  m_proposals,             \* proposals made and not finished, at most one per id
  m_acceptedProposals,     \* what the server accepted as an acceptor, by id
  m_decidedProposalQueue,  \* decisions, in the order the min-heap pops them
  m_leaderState,
  proposeEvents,           \* how many DoSyncPropose/DoAsyncPropose are pending
  decisionLog              \* the file StopApplication writes

acceptorVars == <<m_acceptedProposals>>
proposerVars == <<m_waitingProposals, m_proposals, m_leaderState, proposeEvents>>
learnerVars  == <<m_decidedProposalQueue, decisionLog>>
serverVars   == <<acceptorVars, proposerVars, learnerVars>>

ServerTypeOK ==
  /\ m_waitingProposals \in [Server -> Seq(RequestFrame)]
  /\ m_proposals \in [Server -> SUBSET Proposal]
  /\ m_acceptedProposals \in [Server -> SUBSET Decision]
  /\ m_decidedProposalQueue \in [Server -> Seq(Decision)]
  /\ m_leaderState \in [Server -> LeaderState]
  /\ proposeEvents \in [Server -> Nat]
  /\ decisionLog \in [Server -> Seq(Decision)]

(***************************************************************************)
(* The state once the start events have run: StartProposerThread has       *)
(* scheduled the first slot of every synchronous server; the asynchronous  *)
(* leader has found its queue empty and scheduled its first poll.          *)
(***************************************************************************)
ServerInit ==
  /\ m_waitingProposals = [s \in Server |-> <<>>]
  /\ m_proposals = [s \in Server |-> {}]
  /\ m_acceptedProposals = [s \in Server |-> {}]
  /\ m_decidedProposalQueue = [s \in Server |-> <<>>]
  /\ m_leaderState = [s \in Server |-> IF IsAsync /\ s = Leader
                                       THEN "WAITING_REQUEST"
                                       ELSE "UNINITIALIZED"]
  /\ proposeEvents = [s \in Server |-> IF IsAsync /\ s # Leader THEN 0 ELSE 1]
  /\ decisionLog = [s \in Server |-> <<>>]

\* unordered_map::operator[] and erase: an entry replaces the one of its key.
Erase(m, i)  == {x \in m : x.id # i}
Insert(m, x) == Erase(m, x.id) \cup {x}

\* Mutation: a queue in order of arrival.
BugPushBack(q, d) == Append(q, d)

\* priority_queue::push: before the entries with a larger id.
Push(q, d) ==
  InsertAt(q, Cardinality({k \in DOMAIN q : q[k].id <= d.id}) + 1, d)
--------------------------------------------------------------------------------
(***************************************************************************)
(* Listener.                                                               *)
(***************************************************************************)
\* Mutation: the packet is not taken out of the socket.
BugReadTwice(r) ==
  /\ r.fn = "ReceiveRequest"
  /\ requestEvents' =
       requestEvents \cup {[r EXCEPT !.fn = "CreateProposalFromRequest"]}
  /\ UNCHANGED <<events, stopped, serverVars>>

ReceiveRequest(r) ==
  /\ r.fn = "ReceiveRequest"
  /\ requestEvents' =
       IF IsAsync /\ r.at # Leader
       THEN requestEvents \ {r}
       ELSE (requestEvents \ {r})
              \cup {[r EXCEPT !.fn = "CreateProposalFromRequest"]}
  /\ UNCHANGED <<events, stopped, serverVars>>

CreateProposalFromRequest(r) ==
  /\ r.fn = "CreateProposalFromRequest"
  /\ requestEvents' = requestEvents \ {r}
  /\ \/ /\ Len(m_waitingProposals[r.at]) > QueueLimit
        /\ UNCHANGED m_waitingProposals
     \/ /\ Len(m_waitingProposals[r.at]) <= QueueLimit
        /\ m_waitingProposals' =
             [m_waitingProposals EXCEPT ![r.at] = Append(@, r.frame)]
  /\ UNCHANGED <<events, stopped, m_proposals, m_leaderState, proposeEvents,
                 acceptorVars, learnerVars>>
--------------------------------------------------------------------------------
\* Mutations: a server waits for its votes; the last request is left behind.
BugWaitForVotes(s)  == m_waitingProposals[s] # <<>> /\ m_proposals[s] = {}
BugKeepLast(s)      == Len(m_waitingProposals[s]) > 1

\* There is a request to propose.
HasRequest(s) == m_waitingProposals[s] # <<>>

(***************************************************************************)
(* Proposer.  DoPropose, given the entries of m_proposals[s] and the       *)
(* pending events at the point of the call.                                *)
(***************************************************************************)
DoPropose(s, proposals, pending) ==
  LET request == Head(m_waitingProposals[s])
      proposal == [id |-> request.id, value |-> request.value, numAck |-> 1,
                   decided |-> FALSE, numDecisionAck |-> 1]
      frame == [type |-> "PROPOSAL", proposerId |-> s,
                proposalId |-> request.id, value |-> request.value,
                acceptorId |-> 0]
  IN  /\ events' = pending \cup Broadcast(s, frame)
      /\ m_proposals' = [m_proposals EXCEPT ![s] = Insert(proposals, proposal)]
      /\ m_waitingProposals' = [m_waitingProposals EXCEPT ![s] = Tail(@)]

\* Mutation: the slot does not look at the stop time.
BugForgetStop(s) ==
  /\ ~IsAsync
  /\ proposeEvents[s] > 0
  /\ \/ HasRequest(s) /\ DoPropose(s, m_proposals[s], events)
     \/ ~HasRequest(s) /\ UNCHANGED <<events, m_waitingProposals, m_proposals>>
  /\ UNCHANGED <<requestEvents, stopped, m_leaderState, proposeEvents, acceptorVars,
                 learnerVars>>

\* The event of a server's slot; it schedules the next one unless stopped.
DoSyncPropose(s) ==
  /\ ~IsAsync
  /\ proposeEvents[s] > 0
  /\ \/ /\ PastStopTime
        /\ proposeEvents' = [proposeEvents EXCEPT ![s] = @ - 1]
        /\ UNCHANGED <<events, m_waitingProposals, m_proposals>>
     \/ /\ ~PastStopTime
        /\ HasRequest(s)
        /\ DoPropose(s, m_proposals[s], events)
        /\ UNCHANGED proposeEvents
     \/ /\ ~PastStopTime
        /\ ~HasRequest(s)
        /\ UNCHANGED <<events, m_waitingProposals, m_proposals, proposeEvents>>
  /\ UNCHANGED <<requestEvents, stopped, m_leaderState, acceptorVars,
                 learnerVars>>

(***************************************************************************)
(* The body of DoAsyncPropose at the leader: propose the next request, or  *)
(* poll the queue again in a microsecond; polls is the number of polls     *)
(* pending when it is called.                                              *)
(***************************************************************************)
AsyncPropose(s, proposals, pending, polls) ==
  \/ /\ PastStopTime
     /\ events' = pending
     /\ m_proposals' = [m_proposals EXCEPT ![s] = proposals]
     /\ proposeEvents' = [proposeEvents EXCEPT ![s] = polls]
     /\ UNCHANGED <<m_waitingProposals, m_leaderState>>
  \/ /\ ~PastStopTime
     /\ HasRequest(s)
     /\ DoPropose(s, proposals, pending)
     /\ m_leaderState' = [m_leaderState EXCEPT ![s] = "PROPOSED"]
     /\ proposeEvents' = [proposeEvents EXCEPT ![s] = polls]
  \/ /\ ~PastStopTime
     /\ ~HasRequest(s)
     /\ events' = pending
     /\ m_proposals' = [m_proposals EXCEPT ![s] = proposals]
     /\ proposeEvents' = [proposeEvents EXCEPT ![s] = polls + 1]
     /\ UNCHANGED <<m_waitingProposals, m_leaderState>>

\* Mutation: the poll is scheduled again after a proposal, too.
BugKeepPolling(s) ==
  /\ IsAsync
  /\ proposeEvents[s] > 0
  /\ AsyncPropose(s, m_proposals[s], events,
                  proposeEvents[s] - (IF HasRequest(s) THEN 0 ELSE 1))
  /\ UNCHANGED <<requestEvents, stopped, acceptorVars, learnerVars>>

DoAsyncPropose(s) ==
  /\ IsAsync
  /\ proposeEvents[s] > 0
  /\ AsyncPropose(s, m_proposals[s], events, proposeEvents[s] - 1)
  /\ UNCHANGED <<requestEvents, stopped, acceptorVars, learnerVars>>
--------------------------------------------------------------------------------
(***************************************************************************)
(* Acceptor and learner.                                                   *)
(***************************************************************************)
DoReceivedProposalMessage(e) ==
  LET f == e.frame
      accepted == [id |-> f.proposalId, value |-> f.value,
                   proposer |-> f.proposerId]
  IN  /\ m_acceptedProposals' =
           [m_acceptedProposals EXCEPT ![e.at] = Insert(@, accepted)]
      /\ events' = (events \ {e})
           \cup {[at |-> e.at, fn |-> "SendAcceptMessage",
                  frame |-> [f EXCEPT !.acceptorId = e.at]]}
      /\ UNCHANGED <<requestEvents, stopped, proposerVars, learnerVars>>

\* Mutation: the ACCEPT is sent again and again.
BugResendAccept(e) ==
  LET f == [e.frame EXCEPT !.type = "ACCEPT", !.acceptorId = e.at]
  IN  /\ e.fn = "SendAcceptMessage"
      /\ events' = events \cup {Datagram(f.proposerId, f)}
      /\ UNCHANGED <<requestEvents, stopped, serverVars>>

SendAcceptMessage(e) ==
  LET f == [e.frame EXCEPT !.type = "ACCEPT", !.acceptorId = e.at]
  IN  /\ e.fn = "SendAcceptMessage"
      /\ events' = (events \ {e}) \cup {Datagram(f.proposerId, f)}
      /\ UNCHANGED <<requestEvents, stopped, serverVars>>

\* Mutations: the DECISION names the acceptor as its proposer; its loop over
\* m_nodes does not skip the sender.
BugWrongProposer(s, f) ==
  Broadcast(s, [f EXCEPT !.type = "DECISION", !.proposerId = f.acceptorId])

BugDecisionToSelf(s, f) ==
  {Datagram(t, [f EXCEPT !.type = "DECISION"]) : t \in Server}

\* The DECISION is the ACCEPT frame of the deciding vote, with a new type.
SendDecisionMessage(s, f) == Broadcast(s, [f EXCEPT !.type = "DECISION"])

\* Mutation: a proposal decided already is decided by every further vote.
BugDecideAgain(p) == EnoughVotes(p.numAck)

\* The vote just counted is the deciding one.
Decides(p) == EnoughVotes(p.numAck) /\ ~p.decided

(***************************************************************************)
(* A vote for a proposal still in the map is counted.  The first count     *)
(* above half of the servers decides: a synchronous proposer is then done  *)
(* with the proposal, an asynchronous one keeps it for a second round.     *)
(***************************************************************************)
DoReceivedAcceptMessage(e) ==
  LET s == e.at
      f == e.frame
      known == {p \in m_proposals[s] : p.id = f.proposalId /\ f.proposerId = s}
      rest == events \ {e}
  IN  /\ \/ /\ known = {}
            /\ events' = rest
            /\ UNCHANGED <<m_proposals, m_decidedProposalQueue>>
         \/ \E p \in known :
              LET q == [p EXCEPT !.numAck = @ + 1]
                  d == [q EXCEPT !.decided = TRUE, !.numDecisionAck = 1]
              IN  \/ /\ ~Decides(q)
                     /\ events' = rest
                     /\ m_proposals' =
                          [m_proposals EXCEPT ![s] = Insert(@, q)]
                     /\ UNCHANGED m_decidedProposalQueue
                  \/ /\ Decides(q)
                     /\ IsAsync
                     /\ events' = rest \cup SendDecisionMessage(s, f)
                     /\ m_proposals' =
                          [m_proposals EXCEPT ![s] = Insert(@, d)]
                     /\ UNCHANGED m_decidedProposalQueue
                  \/ /\ Decides(q)
                     /\ ~IsAsync
                     /\ events' = rest \cup SendDecisionMessage(s, f)
                     /\ m_proposals' =
                          [m_proposals EXCEPT ![s] = Erase(@, p.id)]
                     /\ m_decidedProposalQueue' =
                          [m_decidedProposalQueue EXCEPT ![s] =
                             Push(@, [id |-> p.id, value |-> p.value,
                                      proposer |-> s])]
      /\ UNCHANGED <<requestEvents, stopped, m_waitingProposals, m_leaderState,
                     proposeEvents, acceptorVars, decisionLog>>

DoReceivedDecisionMessage(e) ==
  LET s == e.at
      f == e.frame
      ack == [type |-> "DECISION_ACK", proposerId |-> s,
              proposalId |-> f.proposalId, value |-> f.value, acceptorId |-> 0]
  IN  /\ events' = (events \ {e})
           \cup (IF IsAsync THEN {Datagram(f.proposerId, ack)} ELSE {})
      /\ m_decidedProposalQueue' =
           [m_decidedProposalQueue EXCEPT ![s] =
              Push(@, [id |-> f.proposalId, value |-> f.value,
                       proposer |-> f.proposerId])]
      /\ UNCHANGED <<requestEvents, stopped, proposerVars, acceptorVars,
                     decisionLog>>

(***************************************************************************)
(* Only asynchronous servers send DECISION_ACKs.  The one that completes a *)
(* majority ends the proposal and starts the next.  (It sets the           *)
(* proposal's m_decisionAckTime, which the test finds zero in every        *)
(* proposal of the map, because it leaves the map there.)                  *)
(***************************************************************************)
DoReceivedDecisionAckMessage(e) ==
  LET s == e.at
      known == {p \in m_proposals[s] : p.id = e.frame.proposalId}
      rest == events \ {e}
  IN  /\ IsAsync
      /\ \/ /\ known = {}
            /\ events' = rest
            /\ UNCHANGED <<proposerVars, m_decidedProposalQueue>>
         \/ \E p \in known :
              LET q == [p EXCEPT !.numDecisionAck = @ + 1]
              IN  \/ /\ ~EnoughVotes(q.numDecisionAck)
                     /\ events' = rest
                     /\ m_proposals' =
                          [m_proposals EXCEPT ![s] = Insert(@, q)]
                     /\ UNCHANGED <<m_waitingProposals, m_leaderState,
                                    proposeEvents, m_decidedProposalQueue>>
                  \/ /\ EnoughVotes(q.numDecisionAck)
                     /\ m_decidedProposalQueue' =
                          [m_decidedProposalQueue EXCEPT ![s] =
                             Push(@, [id |-> p.id, value |-> p.value,
                                      proposer |-> s])]
                     /\ AsyncPropose(s, Erase(m_proposals[s], p.id), rest,
                                     proposeEvents[s])
      /\ UNCHANGED <<requestEvents, stopped, acceptorVars, decisionLog>>
--------------------------------------------------------------------------------
\* Mutation: the loop's bound is the size of the queue it is popping.
BugHalfLogged(s) ==
  SubSeq(m_decidedProposalQueue[s], 1,
         (Len(m_decidedProposalQueue[s]) + 1) \div 2)

\* What StopApplication pops and writes.
LoggedDecisions(s) == m_decidedProposalQueue[s]

(***************************************************************************)
(* StopApplication pops the decided proposals into the server's log.  The  *)
(* sockets stay open and pending events stay pending.                      *)
(***************************************************************************)
StopApplication(s) ==
  /\ stopped = 0 .. s - 1
  /\ stopped' = stopped \cup {s}
  /\ decisionLog' = [decisionLog EXCEPT ![s] = LoggedDecisions(s)]
  /\ m_decidedProposalQueue' = [m_decidedProposalQueue EXCEPT ![s] = <<>>]
  /\ UNCHANGED <<requestEvents, events, proposerVars, acceptorVars>>

(***************************************************************************)
(* A datagram reaches the paxos socket of its server: the handler of its   *)
(* type, scheduled for the same instant, runs.                             *)
(***************************************************************************)
ReceiveMessage(e) ==
  /\ e.fn = "ReceiveMessage"
  /\ \/ e.frame.type = "PROPOSAL" /\ DoReceivedProposalMessage(e)
     \/ e.frame.type = "ACCEPT" /\ DoReceivedAcceptMessage(e)
     \/ e.frame.type = "DECISION" /\ DoReceivedDecisionMessage(e)
     \/ e.frame.type = "DECISION_ACK" /\ DoReceivedDecisionAckMessage(e)

\* A pending event of server s, other than its StopApplication, is run.
RequestStep(s) ==
  /\ BetweenEvents
  /\ \E r \in requestEvents :
       /\ r.at = s
       /\ ReceiveRequest(r) \/ CreateProposalFromRequest(r)

ProposeStep(s) ==
  /\ BetweenEvents
  /\ DoSyncPropose(s) \/ DoAsyncPropose(s)

MessageStep(s) ==
  /\ BetweenEvents
  /\ \E e \in events :
       /\ e.at = s
       /\ ReceiveMessage(e) \/ SendAcceptMessage(e)
================================================================================
