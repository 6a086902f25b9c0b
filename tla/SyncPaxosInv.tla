----------------------------- MODULE SyncPaxosInv -----------------------------
(***************************************************************************)
(* Strengthenings that make the safety properties of SyncPaxos inductive.  *)
(***************************************************************************)
EXTENDS SyncPaxos

\* The client asked server s for value v with its i-th request.
Asked(i, v, s) ==
  /\ i \in DOMAIN requested
  /\ requested[i].to = s
  /\ requested[i].value = v

RequestsMatch(R) == \A r \in R : Asked(r.frame.id, r.frame.value, r.at)

\* A DECISION_ACK names its sender as the proposer; it is sent to the proposer.
ProposerOf(e) ==
  IF e.frame.type = "DECISION_ACK" THEN e.at ELSE e.frame.proposerId

EventsMatch(E) ==
  \A e \in E :
    /\ Asked(e.frame.proposalId, e.frame.value, ProposerOf(e))
    /\ e.fn = "SendAcceptMessage" => e.frame.type = "PROPOSAL"

WaitingMatch(s, q) == \A k \in DOMAIN q : Asked(q[k].id, q[k].value, s)

ProposalsMatch(s, P) == \A p \in P : Asked(p.id, p.value, s)

DecisionsMatch(D) == \A d \in D : Asked(d.id, d.value, d.proposer)

(***************************************************************************)
(* Every trace of a proposal id, wherever it is, is of the one request     *)
(* with that timestamp: its value and the server that was asked.           *)
(***************************************************************************)
Match ==
  /\ RequestsMatch(requestEvents)
  /\ EventsMatch(events)
  /\ \A s \in Server :
       /\ WaitingMatch(s, m_waitingProposals[s])
       /\ ProposalsMatch(s, m_proposals[s])
       /\ DecisionsMatch(m_acceptedProposals[s])
       /\ DecisionsMatch(ToSet(m_decidedProposalQueue[s]))
       /\ DecisionsMatch(ToSet(decisionLog[s]))
-------------------------------------------------------------------------------
\* Nobody has been asked to vote for proposal i yet, or everybody has voted.
NoVoteOut(i) == \A e \in VoteEvent : e.frame.proposalId # i

(***************************************************************************)
(* A request not proposed yet is in one place, and no vote on it is out.   *)
(***************************************************************************)
RequestsFresh ==
  \A r \in requestEvents :
    /\ NoVoteOut(r.frame.id)
    /\ \A k \in DOMAIN m_waitingProposals[r.at] :
         m_waitingProposals[r.at][k].id # r.frame.id
    /\ \A x \in requestEvents : x.frame.id = r.frame.id => x = r

WaitingFresh ==
  \A s \in Server : \A k \in DOMAIN m_waitingProposals[s] :
    /\ NoVoteOut(m_waitingProposals[s][k].id)
    /\ \A j \in DOMAIN m_waitingProposals[s] :
         m_waitingProposals[s][j].id = m_waitingProposals[s][k].id => j = k

DecisionOf(e) ==
  [id |-> e.frame.proposalId, value |-> e.frame.value,
   proposer |-> ProposerOf(e)]

(***************************************************************************)
(* The votes on their way: never the proposer's own, one per acceptor and  *)
(* proposal, and recorded by the acceptor before they are sent.            *)
(***************************************************************************)
VotesWellFormed ==
  \A e \in VoteEvent :
    /\ VoterOf(e) # e.frame.proposerId
    /\ e.frame.type = "ACCEPT" => e.at = e.frame.proposerId
    /\ (e.frame.type = "ACCEPT" \/ e.fn = "SendAcceptMessage")
         => DecisionOf(e) \in m_acceptedProposals[VoterOf(e)]
    /\ \A x \in VoteEvent :
         (VoterOf(x) = VoterOf(e) /\ x.frame.proposalId = e.frame.proposalId)
           => x = e

\* A DECISION_ACK answers a DECISION.
AcksFollowDecisions ==
  \A e \in events :
    e.frame.type = "DECISION_ACK" => Majority(Voters(DecisionOf(e)))

(***************************************************************************)
(* The inductive invariant of the votes, for either protocol.              *)
(***************************************************************************)
VotingInv ==
  /\ Match
  /\ RequestsFresh
  /\ WaitingFresh
  /\ VotesWellFormed
  /\ VotesAreCast
  /\ AcksFollowDecisions
  /\ DecidedByMajority
-------------------------------------------------------------------------------
IdsOf(D) == {d.id : d \in D}

\* The requests on their way or waiting, and the ids each server has learned.
FreshIds ==
  {r.frame.id : r \in requestEvents}
    \cup UNION {IdsOf(ToSet(m_waitingProposals[s])) : s \in Server}

LearnedIds == [s \in Server |-> IdsOf(Learned(s))]

(***************************************************************************)
(* Neither a message of pending events E nor a server that learned L[s]    *)
(* shows that proposal i is decided.                                       *)
(***************************************************************************)
NoTrace(i, E, L) ==
  /\ \A e \in E : e.frame.proposalId = i => e.frame.type \notin {"DECISION", "DECISION_ACK"}
  /\ \A s \in Server : i \notin L[s]

(***************************************************************************)
(* A decision leaves traces only once it is taken and is learned once, in  *)
(* terms of fresh requests F, pending events E, proposals P and learned    *)
(* ids L: what a handler does to the four can then be taken in two steps.  *)
(***************************************************************************)
FreshOK(F, E, P, L) ==
  \A i \in F : /\ NoTrace(i, E, L)
               /\ \A s \in Server : \A p \in P[s] : p.id # i

ProposalsOK(E, P, L) ==
  \A s \in Server : \A p \in P[s] :
    /\ p.decided \/ NoTrace(p.id, E, L)
    /\ p.id \notin L[s]
    /\ \A q \in P[s] : q.id = p.id => q = p

DecisionsOK(E, L) ==
  \A e \in E : e.frame.type = "DECISION" =>
    /\ e.at # e.frame.proposerId
    /\ e.frame.proposalId \notin L[e.at]
    /\ \A x \in E :
         (x.frame.type = "DECISION" /\ x.at = e.at
            /\ x.frame.proposalId = e.frame.proposalId) => x = e

LearningOK(F, E, P, L) == FreshOK(F, E, P, L) /\ ProposalsOK(E, P, L) /\ DecisionsOK(E, L)

\* The ids of q increase.
Ordered(q) == \A j, k \in DOMAIN q : j < k => q[j].id < q[k].id

(***************************************************************************)
(* A queue is in order, and so is the log written from it; before it stops *)
(* a server has no log.                                                    *)
(***************************************************************************)
LogsOK ==
  \A s \in Server :
    /\ Ordered(m_decidedProposalQueue[s])
    /\ Ordered(decisionLog[s])
    /\ IdsOf(ToSet(m_decidedProposalQueue[s])) \cap IdsOf(ToSet(decisionLog[s])) = {}
    /\ s \notin stopped => decisionLog[s] = <<>>

(***************************************************************************)
(* The inductive invariant of learning, for either protocol.               *)
(***************************************************************************)
LearningInv == LearningOK(FreshIds, events, m_proposals, LearnedIds) /\ LogsOK

(***************************************************************************)
(* The synchronous proposer learns first; while the applications stop,     *)
(* nothing is left in the queues of those that have.                       *)
(***************************************************************************)
ProposerFirst ==
  /\ \A s \in Server : \A d \in Learned(s) : d \in Learned(d.proposer)
  /\ \A d \in Announced : d \in Learned(d.proposer)
  /\ stopped # Server => \A s \in stopped : m_decidedProposalQueue[s] = <<>>

SlotLogInv == ~IsAsync => ProposerFirst /\ ProposerLogIsComplete
-------------------------------------------------------------------------------
\* In the asynchronous protocol nobody but the leader proposes.
OnlyLeader ==
  /\ \A s \in Server \ {Leader} : /\ m_waitingProposals[s] = <<>>
                                  /\ m_proposals[s] = {}
                                  /\ proposeEvents[s] = 0
  /\ \A r \in requestEvents : r.fn = "CreateProposalFromRequest" => r.at = Leader
  /\ \A e \in events : ProposerOf(e) = Leader

AckEvent == {e \in events : e.frame.type = "DECISION_ACK"}

\* The DECISION_ACK of server t for proposal i is on its way.
AckPending(t, i) ==
  \E e \in AckEvent : e.frame.proposerId = t /\ e.frame.proposalId = i

\* A DECISION_ACK comes from a server that has learned, once of each.
AcksWellFormed ==
  \A e \in AckEvent :
    /\ e.frame.proposerId \in Server \ {Leader}
    /\ DecisionOf(e) \in Learned(e.frame.proposerId)
    /\ \A x \in AckEvent :
         (x.frame.proposerId = e.frame.proposerId
            /\ x.frame.proposalId = e.frame.proposalId) => x = e

\* The servers whose DECISION_ACK for the leader's proposal p has come or is lost.
Confirmed(p) ==
  {t \in Server \ {Leader} : /\ DecisionFor(Leader, p) \in Learned(t)
                             /\ ~AckPending(t, p.id)}

AcksCounted ==
  \A p \in m_proposals[Leader] : p.numDecisionAck <= 1 + Cardinality(Confirmed(p))

\* The leader is polling, or has one proposal, or is done.
OneJob ==
  \/ proposeEvents[Leader] = 1 /\ m_proposals[Leader] = {}
  \/ proposeEvents[Leader] = 0 /\ \E p \in m_proposals[Leader] : m_proposals[Leader] = {p}
  \/ proposeEvents[Leader] = 0 /\ m_proposals[Leader] = {} /\ stopped # {}

(***************************************************************************)
(* The inductive invariant of the asynchronous leader's second round.      *)
(***************************************************************************)
SecondRoundInv ==
  IsAsync =>
    OnlyLeader /\ OneJob /\ AcksWellFormed /\ AcksCounted /\ CompleteOnMajority

(***************************************************************************)
(* Only the asynchronous leader holds decisions taken and not finished,    *)
(* and nobody has learned or is told of anything it has not taken.         *)
(***************************************************************************)
NoneKept == \A s \in Server : (IsAsync /\ s = Leader) \/ Taken(s) = {}

ChosenInv ==
  /\ NoneKept
  /\ IsAsync =>
       /\ \A s \in Server : Learned(s) \subseteq Learned(Leader) \cup Taken(Leader)
       /\ Announced \subseteq Learned(Leader) \cup Taken(Leader)
===============================================================================
