---------------------- MODULE SyncPaxosRefinement_proofs -----------------------
(***************************************************************************)
(* SyncPaxos implements AbstractPaxos: every step of the servers, with the *)
(* messages, counters and queues hidden, is one the abstract specification *)
(* allows, or changes nothing it can see.                                  *)
(***************************************************************************)
EXTENDS SyncPaxosSecondRound_proofs

(***************************************************************************)
(* What a step of SyncPaxos is, seen from AbstractPaxos.                   *)
(***************************************************************************)
TakenStays == \A s \in Server : Taken(s)' = Taken(s)

LearnedStill == \A s \in Server : Learned(s)' = Learned(s)

LearnedBy(s, d) == /\ Learned(s)' = Learned(s) \cup {d}
                   /\ \A t \in Server \ {s} : Learned(t)' = Learned(t)

\* Nobody accepts, decides or learns.
Quiet ==
  /\ UNCHANGED m_acceptedProposals
  /\ TakenStays /\ LearnedStill
  /\ Announced' \subseteq Announced

\* A server that is asked for its vote gives it.
Accepting(e) ==
  /\ e.frame.type = "PROPOSAL"
  /\ e.at \in Server
  /\ m_acceptedProposals' =
       [m_acceptedProposals EXCEPT ![e.at] = Insert(@, DecisionOf(e))]
  /\ TakenStays /\ LearnedStill
  /\ Announced' \subseteq Announced

\* The proposer s of p counts the deciding vote.
Choosing(s, p) ==
  LET d == DecisionFor(s, p)
  IN  /\ ~p.decided
      /\ UNCHANGED m_acceptedProposals
      /\ Announced' \subseteq Announced \cup {d}
      /\ \/ /\ IsAsync /\ s = Leader
            /\ Taken(s) = {} /\ Taken(s)' = {d}
            /\ LearnedStill
         \/ /\ ~IsAsync
            /\ TakenStays
            /\ LearnedBy(s, d)

\* A server other than the proposer learns from a DECISION.
Learning(e) ==
  /\ e.frame.type = "DECISION"
  /\ e.at \in Server
  /\ UNCHANGED m_acceptedProposals
  /\ TakenStays /\ LearnedBy(e.at, DecisionOf(e))
  /\ Announced' \subseteq Announced

\* The asynchronous leader counts the acknowledgement that completes p.
Completing(p) ==
  LET d == DecisionFor(Leader, p)
  IN  /\ IsAsync
      /\ UNCHANGED m_acceptedProposals
      /\ Taken(Leader) = {d} /\ Taken(Leader)' = {}
      /\ LearnedBy(Leader, d)
      /\ d \notin Learned(Leader)
      /\ Announced' \subseteq Announced

AbstractStep ==
  \/ Quiet
  \/ \E e \in events : Accepting(e) \/ Learning(e)
  \/ \E s \in Server : \E p \in m_proposals[s] : Choosing(s, p)
  \/ \E p \in m_proposals[Leader] : Completing(p)
-------------------------------------------------------------------------------
(***************************************************************************)
(* The handlers.                                                           *)
(***************************************************************************)
\* A proposal that is not decided is not taken.
LEMMA NothingTaken ==
  ASSUME NEW s \in Server
  PROVE  /\ Taken(s) = {} <=> \A p \in m_proposals[s] : ~p.decided
         /\ Taken(s)' = {} <=> \A p \in m_proposals'[s] : ~p.decided
  BY DEF Taken, DecisionFor

\* A handler that touches none of it is quiet.
LEMMA RestingStep ==
  ASSUME UNCHANGED <<m_proposals, m_acceptedProposals>>, LearnedStill,
         Announced' \subseteq Announced
  PROVE  Quiet
  BY DEF Quiet, TakenStays, Taken, DecisionFor

\* Nothing new is announced when no new DECISION is sent.
LEMMA AnnouncedShrinks ==
  ASSUME \A e \in events' : e.frame.type = "DECISION" => e \in events
  PROVE  Announced' \subseteq Announced
  BY DEF Announced

\* A slot: what it proposes, PROPOSALs included, is not seen by AbstractPaxos.
LEMMA SyncProposeAbstract ==
  ASSUME TypeOK, TypeOK', ChosenInv, NEW s \in Server, DoSyncPropose(s)
  PROVE  Quiet
<1>1. ~IsAsync /\ UNCHANGED <<m_decidedProposalQueue, decisionLog, m_acceptedProposals>>
  BY DEF DoSyncPropose, learnerVars, acceptorVars
<1>2. \A t \in Server : Taken(t) = {}
  BY <1>1 DEF ChosenInv, NoneKept
<1>3. CASE DoPropose(s, m_proposals[s], events)
  <2> DEFINE request == Head(m_waitingProposals[s])
             p == [id |-> request.id, value |-> request.value, numAck |-> 1,
                   decided |-> FALSE, numDecisionAck |-> 1]
             frame == [type |-> "PROPOSAL", proposerId |-> s,
                       proposalId |-> request.id, value |-> request.value,
                       acceptorId |-> 0]
  <2>1. /\ events' = events \cup Broadcast(s, frame)
        /\ m_proposals' = [m_proposals EXCEPT ![s] = Insert(m_proposals[s], p)]
    BY <1>3 DEF DoPropose
  <2>2. \A e \in Broadcast(s, frame) : e.frame.type = "PROPOSAL"
    BY DEF Broadcast, Datagram
  <2>3. ~p.decided
    OBVIOUS
  <2> HIDE DEF p, request, frame
  <2>4. Announced' \subseteq Announced
    BY <2>1, <2>2, AnnouncedShrinks
  <2>5. \A t \in Server : \A x \in m_proposals'[t] : x \in m_proposals[t] \/ x = p
    BY <2>1 DEF TypeOK, ServerTypeOK, Insert, Erase
  <2>6. \A t \in Server : Taken(t)' = {}
    BY <1>2, <2>3, <2>5, NothingTaken
  <2>7. QED
    BY <1>1, <1>2, <2>4, <2>6 DEF Quiet, TakenStays, LearnedStill, Learned
<1>4. CASE UNCHANGED <<events, m_proposals>>
  <2>1. Announced' = Announced /\ \A t \in Server : Taken(t)' = Taken(t)
    BY <1>4 DEF Announced, Taken
  <2>2. QED
    BY <1>1, <1>2, <2>1 DEF Quiet, TakenStays, LearnedStill, Learned
<1>5. QED
  BY <1>3, <1>4 DEF DoSyncPropose

\* A poll of the leader: the same.
LEMMA AsyncProposeAbstract ==
  ASSUME TypeOK, TypeOK', SecondRoundInv, NEW s \in Server, DoAsyncPropose(s)
  PROVE  Quiet
<1>1. /\ IsAsync /\ proposeEvents[s] > 0
      /\ AsyncPropose(s, m_proposals[s], events, proposeEvents[s] - 1)
      /\ UNCHANGED <<requestEvents, stopped, m_acceptedProposals,
                     m_decidedProposalQueue, decisionLog>>
  BY DEF DoAsyncPropose, learnerVars, acceptorVars
<1>2. OnlyLeader /\ OneJob
  BY <1>1 DEF SecondRoundInv
<1>3. s = Leader
  BY <1>1, <1>2 DEF OnlyLeader
<1>4. proposeEvents[s] = 1 /\ m_proposals[s] = {}
  BY <1>1, <1>2, <1>3 DEF OneJob
<1>5. AsyncPropose(Leader, {}, events, 0)
  <2>1. proposeEvents[s] - 1 = 0
    BY <1>4
  <2>2. QED
    BY <1>1, <1>3, <1>4, <2>1
<1>6. /\ OnlyLeader'
      /\ \A p \in m_proposals'[Leader] : ~p.decided
      /\ \A e \in events' : e.frame.type \in {"DECISION", "DECISION_ACK"} => e \in events
  BY <1>1, <1>2, <1>5, LeaderProposes
<1>7. Announced' \subseteq Announced
  BY <1>6, AnnouncedShrinks
<1>8. \A t \in Server : Taken(t) = {} /\ Taken(t)' = {}
  BY <1>2, <1>3, <1>4, <1>6, NothingTaken DEF OnlyLeader
<1>9. QED
  BY <1>1, <1>7, <1>8 DEF Quiet, TakenStays, LearnedStill, Learned

\* A PROPOSAL is accepted.
LEMMA VoteAbstract ==
  ASSUME TypeOK, Match, NEW e \in events, e.at \in Server,
         \/ e.frame.type = "PROPOSAL" /\ DoReceivedProposalMessage(e)
         \/ SendAcceptMessage(e)
  PROVE  Quiet \/ Accepting(e)
<1>1. e.frame \in PaxosFrame
  BY DEF TypeOK, SimTypeOK, Event
<1>2. UNCHANGED <<m_proposals, m_decidedProposalQueue, decisionLog>>
  BY DEF DoReceivedProposalMessage, SendAcceptMessage, serverVars, proposerVars,
     learnerVars
<1>3. LearnedStill
  BY <1>2 DEF LearnedStill, Learned
<1>4. CASE e.frame.type = "PROPOSAL" /\ DoReceivedProposalMessage(e)
  <2> DEFINE n == [at |-> e.at, fn |-> "SendAcceptMessage",
                   frame |-> [e.frame EXCEPT !.acceptorId = e.at]]
  <2>1. n.frame.type = "PROPOSAL"
    BY <1>1, <1>4 DEF PaxosFrame
  <2>2. events' = (events \ {e}) \cup {n}
    BY <1>4 DEF DoReceivedProposalMessage
  <2>3. m_acceptedProposals' =
          [m_acceptedProposals EXCEPT ![e.at] = Insert(@, DecisionOf(e))]
    BY <1>4 DEF DoReceivedProposalMessage, DecisionOf, ProposerOf
  <2> HIDE DEF n
  <2>4. Announced' \subseteq Announced
    BY <2>1, <2>2, AnnouncedShrinks
  <2>5. TakenStays
    BY <1>2 DEF TakenStays, Taken
  <2>6. QED
    BY <1>3, <1>4, <2>3, <2>4, <2>5 DEF Accepting
<1>5. CASE SendAcceptMessage(e)
  <2> DEFINE f == [e.frame EXCEPT !.type = "ACCEPT", !.acceptorId = e.at]
             n == Datagram(f.proposerId, f)
  <2>1. n.frame.type = "ACCEPT"
    BY <1>1 DEF PaxosFrame, Datagram
  <2>2. events' = (events \ {e}) \cup {n} /\ UNCHANGED m_acceptedProposals
    BY <1>5 DEF SendAcceptMessage, serverVars, acceptorVars
  <2> HIDE DEF n
  <2>3. Announced' \subseteq Announced
    BY <2>1, <2>2, AnnouncedShrinks
  <2>4. QED
    BY <1>2, <1>3, <2>2, <2>3, RestingStep
<1>6. QED
  BY <1>4, <1>5

\* The frames of the DECISION announce what the proposer decides.
LEMMA DecisionIsSent ==
  ASSUME TypeOK, Match, NEW e \in events, NEW s \in Server, NEW p \in m_proposals[s],
         p.id = e.frame.proposalId, e.frame.proposerId = s, e.frame.type = "ACCEPT",
         events' = (events \ {e}) \cup SendDecisionMessage(s, e.frame)
  PROVE  Announced' \subseteq Announced \cup {DecisionFor(s, p)}
<1> DEFINE f == e.frame
<1>1. f \in PaxosFrame
  BY DEF TypeOK, SimTypeOK, Event
<1>2. p.value = f.value
  BY DEF Match, ProposalsMatch, EventsMatch, ProposerOf, Asked
<1>3. ASSUME NEW x \in SendDecisionMessage(s, f)
      PROVE  [id |-> x.frame.proposalId, value |-> x.frame.value,
              proposer |-> x.frame.proposerId] = DecisionFor(s, p)
  <2>1. x.frame = [f EXCEPT !.type = "DECISION"]
    BY DEF SendDecisionMessage, Broadcast, Datagram
  <2>2. /\ x.frame.proposalId = f.proposalId /\ x.frame.value = f.value
        /\ x.frame.proposerId = f.proposerId
    BY <1>1, <2>1 DEF PaxosFrame
  <2>3. QED
    BY <1>2, <2>2 DEF DecisionFor
<1>4. QED
  BY <1>3 DEF Announced

\* An ACCEPT is counted, or chooses.
LEMMA ReceivedAcceptAbstract ==
  ASSUME TypeOK, TypeOK', Match, SecondRoundInv, SecondRoundInv', ChosenInv,
         NEW e \in events, e.at \in Server, e.frame.type = "ACCEPT",
         DoReceivedAcceptMessage(e)
  PROVE  Quiet \/ \E p \in m_proposals[e.at] : Choosing(e.at, p)
<1> DEFINE s == e.at
           f == e.frame
           known == {p \in m_proposals[s] : p.id = f.proposalId /\ f.proposerId = s}
           rest == events \ {e}
           q(p) == [p EXCEPT !.numAck = @ + 1]
           d(p) == [q(p) EXCEPT !.decided = TRUE, !.numDecisionAck = 1]
           v(p) == [id |-> p.id, value |-> p.value, proposer |-> s]
<1>1. UNCHANGED <<m_acceptedProposals, decisionLog>>
  BY DEF DoReceivedAcceptMessage, acceptorVars
<1>2. CASE events' = rest /\ UNCHANGED <<m_proposals, m_decidedProposalQueue>>
  <2>1. Announced' \subseteq Announced
    BY <1>2 DEF Announced
  <2>2. LearnedStill
    BY <1>1, <1>2 DEF LearnedStill, Learned
  <2>3. QED
    BY <1>1, <1>2, <2>1, <2>2, RestingStep
<1>3. ASSUME NEW p \in known
      PROVE  /\ p \in m_proposals[s] /\ f.proposerId = s /\ p.id = f.proposalId
             /\ p \in Proposal
             /\ q(p).id = p.id /\ q(p).value = p.value /\ q(p).decided = p.decided
             /\ d(p).id = p.id /\ d(p).value = p.value /\ d(p).decided
             /\ v(p) = DecisionFor(s, p) /\ v(p) \in Decision
             /\ IsAsync => s = Leader /\ m_proposals[s] = {p}
  <2>1. p \in m_proposals[s] /\ f.proposerId = s /\ p \in Proposal /\ p.id = f.proposalId
    BY DEF TypeOK, ServerTypeOK
  <2>2. IsAsync => s = Leader /\ m_proposals[s] = {p}
    BY <2>1 DEF SecondRoundInv, OnlyLeader, OneJob
  <2>3. QED
    BY <2>1, <2>2 DEF Proposal, DecisionFor, Decision
\* One vote more.
<1>4. ASSUME NEW p \in known, events' = rest, UNCHANGED m_decidedProposalQueue,
             m_proposals' = [m_proposals EXCEPT ![s] = Insert(@, q(p))]
      PROVE  Quiet
  <2> DEFINE n == q(p)
  <2>1. /\ p \in m_proposals[s] /\ n.id = p.id /\ n.value = p.value
        /\ n.decided = p.decided /\ s \in Server
        /\ IsAsync => s = Leader /\ m_proposals[s] = {p}
    BY <1>3
  <2>2. /\ m_proposals'[s] = Insert(m_proposals[s], n)
        /\ \A t \in Server \ {s} : m_proposals'[t] = m_proposals[t]
    BY <1>4, <2>1 DEF TypeOK, ServerTypeOK
  <2> HIDE DEF n, q, known, s, f, d, v
  <2>3. Taken(s)' = Taken(s)
    <3>1. CASE IsAsync
      <4>1. m_proposals'[s] = {n}
        BY <2>1, <2>2, <3>1 DEF Insert, Erase
      <4>2. QED
        BY <2>1, <3>1, <4>1 DEF Taken, DecisionFor
    <3>2. CASE ~IsAsync
      <4>1. \A x \in m_proposals[s] : ~x.decided
        BY <2>1, <3>2, NothingTaken DEF ChosenInv, NoneKept
      <4>2. \A x \in m_proposals'[s] : ~x.decided
        BY <2>1, <2>2, <4>1 DEF Insert, Erase
      <4>3. QED
        BY <2>1, <4>1, <4>2, NothingTaken
    <3>3. QED
      BY <3>1, <3>2
  <2>4. TakenStays
    BY <2>2, <2>3 DEF TakenStays, Taken, DecisionFor
  <2>5. Announced' \subseteq Announced
    BY <1>4 DEF Announced
  <2>6. QED
    BY <1>1, <1>4, <2>4, <2>5 DEF Quiet, LearnedStill, Learned
\* The asynchronous leader decides.
<1>5. ASSUME IsAsync, NEW p \in known, ~p.decided, UNCHANGED m_decidedProposalQueue,
             events' = rest \cup SendDecisionMessage(s, f),
             m_proposals' = [m_proposals EXCEPT ![s] = Insert(@, d(p))]
      PROVE  Choosing(s, p)
  <2> DEFINE n == d(p)
  <2>1. /\ p \in m_proposals[s] /\ n.id = p.id /\ n.value = p.value /\ n.decided
        /\ s = Leader /\ m_proposals[s] = {p} /\ s \in Server
        /\ p.id = f.proposalId /\ f.proposerId = s
    BY <1>3, <1>5
  <2>2. m_proposals'[s] = Insert(m_proposals[s], n)
    BY <1>5, <2>1 DEF TypeOK, ServerTypeOK
  <2>3. Announced' \subseteq Announced \cup {DecisionFor(s, p)}
    BY <1>5, <2>1, DecisionIsSent
  <2> HIDE DEF n, q, known, s, f, d, v
  <2>4. m_proposals'[s] = {n}
    BY <2>1, <2>2 DEF Insert, Erase
  <2>5. Taken(s) = {} /\ Taken(s)' = {DecisionFor(s, p)}
    BY <1>5, <2>1, <2>4 DEF Taken, DecisionFor
  <2>6. QED
    BY <1>1, <1>5, <2>1, <2>3, <2>5 DEF Choosing, LearnedStill, Learned
\* A synchronous proposer decides and learns.
<1>6. ASSUME ~IsAsync, NEW p \in known, ~p.decided,
             events' = rest \cup SendDecisionMessage(s, f),
             m_proposals' = [m_proposals EXCEPT ![s] = Erase(@, p.id)],
             m_decidedProposalQueue' = [m_decidedProposalQueue EXCEPT ![s] = Push(@, v(p))]
      PROVE  Choosing(s, p)
  <2>1. /\ p \in m_proposals[s] /\ s \in Server
        /\ p.id = f.proposalId /\ f.proposerId = s
        /\ v(p) = DecisionFor(s, p) /\ v(p) \in Decision
    BY <1>3
  <2>2. Announced' \subseteq Announced \cup {DecisionFor(s, p)}
    BY <1>6, <2>1, DecisionIsSent
  <2> HIDE DEF q, known, s, f, d, v
  <2>3. LearnedBy(s, DecisionFor(s, p))
    BY <1>1, <1>6, <2>1, PushLearns DEF LearnedBy
  <2>4. \A t \in Server : m_proposals'[t] \subseteq m_proposals[t]
    BY <1>6, <2>1 DEF TypeOK, ServerTypeOK, Erase
  <2>5. TakenStays
    BY <1>6, <2>4, NothingTaken DEF TakenStays, ChosenInv, NoneKept
  <2>6. QED
    BY <1>1, <1>6, <2>2, <2>3, <2>5 DEF Choosing
<1>7. \/ events' = rest /\ UNCHANGED <<m_proposals, m_decidedProposalQueue>>
      \/ \E p \in known :
           \/ /\ events' = rest
              /\ m_proposals' = [m_proposals EXCEPT ![s] = Insert(@, q(p))]
              /\ UNCHANGED m_decidedProposalQueue
           \/ /\ ~q(p).decided
              /\ IsAsync
              /\ events' = rest \cup SendDecisionMessage(s, f)
              /\ m_proposals' = [m_proposals EXCEPT ![s] = Insert(@, d(p))]
              /\ UNCHANGED m_decidedProposalQueue
           \/ /\ ~q(p).decided
              /\ ~IsAsync
              /\ events' = rest \cup SendDecisionMessage(s, f)
              /\ m_proposals' = [m_proposals EXCEPT ![s] = Erase(@, p.id)]
              /\ m_decidedProposalQueue' =
                   [m_decidedProposalQueue EXCEPT ![s] = Push(@, v(p))]
  BY Zenon DEF DoReceivedAcceptMessage, Decides
<1>8. \A p \in known : q(p).decided = p.decided
  BY <1>3
<1> HIDE DEF known, q, d, v, rest
<1>9. ASSUME NEW p \in known
      PROVE  p \in m_proposals[s]
  BY DEF known
<1>10. QED
  BY <1>2, <1>4, <1>5, <1>6, <1>7, <1>8, <1>9

\* A DECISION is learned.
LEMMA ReceivedDecisionAbstract ==
  ASSUME TypeOK, NEW e \in events, e.at \in Server, e.frame.type = "DECISION",
         DoReceivedDecisionMessage(e)
  PROVE  Learning(e)
<1> DEFINE v == DecisionOf(e)
<1>1. e.frame \in PaxosFrame
  BY DEF TypeOK, SimTypeOK, Event
<1>2. /\ v = [id |-> e.frame.proposalId, value |-> e.frame.value,
              proposer |-> e.frame.proposerId]
      /\ v \in Decision
  BY <1>1 DEF DecisionOf, ProposerOf, PaxosFrame, Decision
<1>3. /\ m_decidedProposalQueue' = [m_decidedProposalQueue EXCEPT ![e.at] = Push(@, v)]
      /\ UNCHANGED <<decisionLog, m_proposals, m_acceptedProposals>>
  BY <1>2 DEF DoReceivedDecisionMessage, proposerVars, acceptorVars
<1>4. \A x \in events' : x.frame.type = "DECISION" => x \in events
  BY DEF DoReceivedDecisionMessage, Datagram
<1> HIDE DEF v
<1>5. LearnedBy(e.at, v)
  BY <1>2, <1>3, PushLearns DEF LearnedBy
<1>6. Announced' \subseteq Announced
  BY <1>4, AnnouncedShrinks
<1>7. QED
  BY <1>3, <1>5, <1>6 DEF Learning, TakenStays, Taken, DecisionFor, v

\* An acknowledgement is on its way only for a proposal that is decided.
LEMMA ReceivedDecisionAckAbstract ==
  ASSUME TypeOK, TypeOK', LearningInv, SecondRoundInv,
         NEW e \in events, e.at \in Server, e.frame.type = "DECISION_ACK",
         DoReceivedDecisionAckMessage(e)
  PROVE  Quiet \/ \E p \in m_proposals[Leader] : Completing(p)
<1> DEFINE s == e.at
           known == {p \in m_proposals[s] : p.id = e.frame.proposalId}
           rest == events \ {e}
           q(p) == [p EXCEPT !.numDecisionAck = @ + 1]
<1>1. IsAsync /\ UNCHANGED <<requestEvents, stopped, decisionLog, m_acceptedProposals>>
  BY DEF DoReceivedDecisionAckMessage, acceptorVars
<1>2. OnlyLeader /\ OneJob
  BY <1>1 DEF SecondRoundInv
<1>3. s = Leader
  BY <1>2 DEF OnlyLeader, ProposerOf
<1>4. CASE events' = rest /\ UNCHANGED <<proposerVars, m_decidedProposalQueue>>
  <2>1. Announced' \subseteq Announced
    BY <1>4 DEF Announced
  <2>2. LearnedStill
    BY <1>1, <1>4 DEF LearnedStill, Learned
  <2>3. QED
    BY <1>1, <1>4, <2>1, <2>2, RestingStep DEF proposerVars
<1>5. ASSUME NEW p \in known
      PROVE  /\ p \in m_proposals[Leader] /\ p \in Proposal
             /\ m_proposals[Leader] = {p} /\ proposeEvents[Leader] = 0
             /\ p.decided /\ p.id \notin LearnedIds[Leader]
             /\ q(p).id = p.id /\ q(p).value = p.value /\ q(p).decided = p.decided
  <2>1. p \in m_proposals[Leader] /\ p.id = e.frame.proposalId
    BY <1>3
  <2>2. p \in Proposal
    BY <2>1, LeaderAssumption DEF TypeOK, ServerTypeOK
  <2>3. m_proposals[Leader] = {p} /\ proposeEvents[Leader] = 0
    BY <1>2, <2>1 DEF OneJob
  <2>4. p.decided /\ p.id \notin LearnedIds[Leader]
    <3>1. ProposalsOK(events, m_proposals, LearnedIds)
      BY DEF LearningInv, LearningOK
    <3>2. ~NoTrace(p.id, events, LearnedIds)
      BY <2>1 DEF NoTrace
    <3>3. QED
      BY <2>1, <3>1, <3>2, LeaderAssumption DEF ProposalsOK
  <2>5. QED
    BY <2>1, <2>2, <2>3, <2>4 DEF Proposal
<1>6. ASSUME NEW p \in known, events' = rest,
             m_proposals' = [m_proposals EXCEPT ![s] = Insert(@, q(p))],
             UNCHANGED m_decidedProposalQueue
      PROVE  Quiet
  <2> DEFINE n == q(p)
  <2>1. /\ m_proposals[Leader] = {p}
        /\ n.id = p.id /\ n.value = p.value /\ n.decided = p.decided
    BY <1>5
  <2>2. /\ m_proposals'[Leader] = Insert({p}, n)
        /\ \A t \in Server \ {Leader} : m_proposals'[t] = m_proposals[t]
    BY <1>3, <1>6, <2>1, LeaderAssumption DEF TypeOK, ServerTypeOK
  <2> HIDE DEF n
  <2>3. m_proposals'[Leader] = {n}
    BY <2>1, <2>2 DEF Insert, Erase
  <2>4. TakenStays
    BY <2>1, <2>2, <2>3 DEF TakenStays, Taken, DecisionFor
  <2>5. Announced' \subseteq Announced
    BY <1>6 DEF Announced
  <2>6. QED
    BY <1>1, <1>6, <2>4, <2>5 DEF Quiet, LearnedStill, Learned
<1>7. ASSUME NEW p \in known,
             m_decidedProposalQueue' =
               [m_decidedProposalQueue EXCEPT ![s] =
                  Push(@, [id |-> p.id, value |-> p.value, proposer |-> s])],
             AsyncPropose(s, Erase(m_proposals[s], p.id), rest, proposeEvents[s])
      PROVE  Completing(p)
  <2> DEFINE v == DecisionFor(Leader, p)
  <2>1. /\ p \in Proposal /\ m_proposals[Leader] = {p} /\ proposeEvents[Leader] = 0
        /\ p.decided /\ p.id \notin LearnedIds[Leader]
    BY <1>5
  <2>2. v \in Decision /\ v.id = p.id
    BY <2>1, LeaderAssumption DEF DecisionFor, Proposal, Decision
  <2>3. m_decidedProposalQueue' = [m_decidedProposalQueue EXCEPT ![Leader] = Push(@, v)]
    BY <1>3, <1>7 DEF DecisionFor
  <2>4. AsyncPropose(Leader, {}, rest, 0)
    <3>1. Erase(m_proposals[s], p.id) = {}
      BY <1>3, <2>1 DEF Erase
    <3>2. QED
      BY <1>3, <1>7, <2>1, <3>1
  <2>5. Taken(Leader) = {v}
    BY <2>1 DEF Taken
  <2> HIDE DEF q, known, s, v
  <2>6. LearnedBy(Leader, v)
    BY <1>1, <2>2, <2>3, LeaderAssumption, PushLearns DEF LearnedBy
  <2>7. v \notin Learned(Leader)
    BY <2>1, <2>2, LeaderAssumption DEF LearnedIds, IdsOf
  <2>8. /\ \A x \in m_proposals'[Leader] : ~x.decided
        /\ \A x \in events' : x.frame.type = "DECISION" => x \in rest
    BY <1>1, <1>2, <2>4, LeaderProposes
  <2>9. Taken(Leader)' = {}
    BY <2>8, LeaderAssumption, NothingTaken
  <2>10. Announced' \subseteq Announced
    BY <2>8, AnnouncedShrinks
  <2>11. QED
    BY <1>1, <2>5, <2>6, <2>7, <2>9, <2>10 DEF Completing, v
<1>8. \/ events' = rest /\ UNCHANGED <<proposerVars, m_decidedProposalQueue>>
      \/ \E p \in known :
           \/ /\ events' = rest
              /\ m_proposals' = [m_proposals EXCEPT ![s] = Insert(@, q(p))]
              /\ UNCHANGED m_decidedProposalQueue
           \/ /\ m_decidedProposalQueue' =
                   [m_decidedProposalQueue EXCEPT ![s] =
                      Push(@, [id |-> p.id, value |-> p.value, proposer |-> s])]
              /\ AsyncPropose(s, Erase(m_proposals[s], p.id), rest,
                              proposeEvents[s])
  BY Zenon DEF DoReceivedDecisionAckMessage
<1>9. \A p \in known : p \in m_proposals[Leader]
  BY <1>5
<1> HIDE DEF s, known, rest, q
<1>10. QED
  BY <1>4, <1>6, <1>7, <1>8, <1>9

\* Writing the log changes nothing learned.
LEMMA StopAbstract ==
  ASSUME TypeOK, LearningInv, NEW s \in Server, StopApplication(s)
  PROVE  Quiet
<1>1. /\ decisionLog' = [decisionLog EXCEPT ![s] = m_decidedProposalQueue[s]]
      /\ m_decidedProposalQueue' = [m_decidedProposalQueue EXCEPT ![s] = <<>>]
      /\ stopped = 0 .. s - 1
      /\ UNCHANGED <<events, m_proposals, m_acceptedProposals>>
  BY DEF StopApplication, LoggedDecisions, proposerVars, acceptorVars
<1>2. decisionLog[s] = <<>> /\ ToSet(<<>>) = {}
  BY <1>1 DEF LearningInv, LogsOK, Server, ToSet
<1>3. LearnedStill
  BY <1>1, <1>2 DEF LearnedStill, Learned, TypeOK, ServerTypeOK
<1>4. Announced' \subseteq Announced
  BY <1>1 DEF Announced
<1>5. QED
  BY <1>1, <1>3, <1>4, RestingStep

\* Every step of the system is one of these, and only the client's makes a request.
LEMMA AbstractCases ==
  ASSUME TypeOK, TypeOK', Match, LearningInv, SecondRoundInv, SecondRoundInv',
         ChosenInv, [Next]_vars
  PROVE  /\ AbstractStep
         /\ UNCHANGED requested \/ (SendRequest /\ Quiet)
<1>1. ASSUME UNCHANGED <<events, m_proposals, m_acceptedProposals,
                         m_decidedProposalQueue, decisionLog>>
      PROVE  Quiet
  BY <1>1, RestingStep DEF LearnedStill, Learned, Announced
<1>2. ASSUME NEW r \in requestEvents, ReceiveRequest(r) \/ CreateProposalFromRequest(r)
      PROVE  Quiet
  BY <1>1, <1>2 DEF ReceiveRequest, CreateProposalFromRequest, serverVars, acceptorVars,
     proposerVars, learnerVars
<1>3. ASSUME NEW s \in Server, DoSyncPropose(s) \/ DoAsyncPropose(s)
      PROVE  Quiet
  BY <1>3, SyncProposeAbstract, AsyncProposeAbstract
<1>4. ASSUME NEW e \in events, e.at \in Server,
             \/ e.frame.type = "PROPOSAL" /\ DoReceivedProposalMessage(e)
             \/ SendAcceptMessage(e)
             \/ e.frame.type = "ACCEPT" /\ DoReceivedAcceptMessage(e)
             \/ e.frame.type = "DECISION" /\ DoReceivedDecisionMessage(e)
             \/ e.frame.type = "DECISION_ACK" /\ DoReceivedDecisionAckMessage(e)
      PROVE  AbstractStep
  BY <1>4, VoteAbstract, ReceivedAcceptAbstract, ReceivedDecisionAbstract,
     ReceivedDecisionAckAbstract DEF AbstractStep
<1>5. ASSUME SendRequest, UNCHANGED serverVars
      PROVE  Quiet
  BY <1>1, <1>5 DEF SendRequest, serverVars, acceptorVars, proposerVars, learnerVars
<1>6. ASSUME events' \subseteq events, UNCHANGED serverVars
      PROVE  Quiet
  BY <1>6, RestingStep DEF LearnedStill, Learned, Announced, serverVars, acceptorVars,
     proposerVars, learnerVars
<1>7. UNCHANGED vars => UNCHANGED <<serverVars, clientVars, events>>
  BY DEF vars, simVars
<1>8. \/ \E r \in requestEvents :
           /\ ReceiveRequest(r) \/ CreateProposalFromRequest(r)
           /\ UNCHANGED clientVars
      \/ \E s \in Server : /\ DoSyncPropose(s) \/ DoAsyncPropose(s)
                           /\ UNCHANGED clientVars
      \/ \E e \in events :
           /\ e.at \in Server
           /\ \/ e.frame.type = "PROPOSAL" /\ DoReceivedProposalMessage(e)
              \/ SendAcceptMessage(e)
              \/ e.frame.type = "ACCEPT" /\ DoReceivedAcceptMessage(e)
              \/ e.frame.type = "DECISION" /\ DoReceivedDecisionMessage(e)
              \/ e.frame.type = "DECISION_ACK" /\ DoReceivedDecisionAckMessage(e)
           /\ UNCHANGED clientVars
      \/ \E s \in Server : StopApplication(s) /\ UNCHANGED clientVars
      \/ SendRequest /\ UNCHANGED serverVars
      \/ events' \subseteq events /\ UNCHANGED <<serverVars, clientVars>>
  BY <1>7, StepCases, Zenon DEF DropMessage, DropRequest
<1>9. QED
  BY <1>2, <1>3, <1>4, <1>5, <1>6, <1>8, StopAbstract DEF AbstractStep, clientVars
-------------------------------------------------------------------------------
(***************************************************************************)
(* What is announced or learned is chosen.                                 *)
(***************************************************************************)
Chosen == UNION {Learned(s) \cup Taken(s) : s \in Server}

\* What is chosen, by who has it.
LEMMA ChosenAre ==
  ASSUME ChosenInv
  PROVE  /\ IsAsync => Chosen = Learned(Leader) \cup Taken(Leader)
         /\ ~IsAsync => Chosen = UNION {Learned(s) : s \in Server}
  BY LeaderAssumption DEF Chosen, ChosenInv, NoneKept

\* ChosenInv holds at the start.
LEMMA ChosenInit == Init => ChosenInv
<1> SUFFICES ASSUME Init PROVE ChosenInv
  OBVIOUS
<1>1. Announced = {}
  BY DEF Init, SimInit, Announced
<1>2. ASSUME NEW s \in Server
      PROVE  m_proposals[s] = {} /\ m_decidedProposalQueue[s] = <<>> /\ decisionLog[s] = <<>>
  BY DEF Init, ServerInit
<1>3. ToSet(<<>>) = {}
  BY DEF ToSet
<1>4. \A s \in Server : Learned(s) = {} /\ Taken(s) = {}
  BY <1>2, <1>3 DEF Learned, Taken
<1>5. QED
  BY <1>1, <1>4 DEF ChosenInv, NoneKept

\* Every kind of step keeps ChosenInv.
LEMMA ChosenStep ==
  ASSUME TypeOK, SecondRoundInv', ChosenInv, AbstractStep
  PROVE  ChosenInv'
<1> DEFINE C == Learned(Leader) \cup Taken(Leader)
           D == Learned(Leader)' \cup Taken(Leader)'
<1>1. ASSUME IsAsync
      PROVE  \A s \in Server : s = Leader \/ Taken(s)' = {}
  BY <1>1, NothingTaken DEF SecondRoundInv, OnlyLeader
<1>2. ASSUME ~IsAsync
      PROVE  \A s \in Server : Taken(s)' = {}
  BY <1>2 DEF ChosenInv, NoneKept, AbstractStep, Quiet, Accepting, Choosing, Learning,
     Completing, TakenStays
<1>3. NoneKept'
  BY <1>1, <1>2 DEF NoneKept, Taken, DecisionFor
<1>4. ASSUME IsAsync
      PROVE  /\ \A s \in Server : Learned(s)' \subseteq D
             /\ Announced' \subseteq D
  <2>1. (\A s \in Server : Learned(s) \subseteq C) /\ Announced \subseteq C
    BY <1>4 DEF ChosenInv
  <2>2. CASE Quiet \/ \E e \in events : Accepting(e)
    BY <2>1, <2>2, LeaderAssumption DEF Quiet, Accepting, TakenStays, LearnedStill
  <2>3. ASSUME NEW e \in events, Learning(e)
        PROVE  /\ \A s \in Server : Learned(s)' \subseteq D
               /\ Announced' \subseteq D
    <3>1. DecisionOf(e) \in Announced
      BY <2>3 DEF Learning, Announced, DecisionOf, ProposerOf
    <3>2. C \subseteq D
      BY <2>3, LeaderAssumption DEF Learning, LearnedBy, TakenStays
    <3> HIDE DEF C, D
    <3>3. QED
      BY <2>1, <2>3, <3>1, <3>2 DEF Learning, LearnedBy
  <2>4. ASSUME NEW s \in Server, NEW p \in m_proposals[s], Choosing(s, p)
        PROVE  /\ \A t \in Server : Learned(t)' \subseteq D
               /\ Announced' \subseteq D
    BY <1>4, <2>1, <2>4, LeaderAssumption DEF Choosing, LearnedStill
  <2>5. ASSUME NEW p \in m_proposals[Leader], Completing(p)
        PROVE  /\ \A t \in Server : Learned(t)' \subseteq D
               /\ Announced' \subseteq D
    BY <2>1, <2>5, LeaderAssumption DEF Completing, LearnedBy
  <2>6. QED
    BY <2>2, <2>3, <2>4, <2>5 DEF AbstractStep
<1>5. QED
  BY <1>3, <1>4 DEF ChosenInv, Learned, Taken, Announced, DecisionFor
-------------------------------------------------------------------------------
(***************************************************************************)
(* The steps of AbstractPaxos.                                             *)
(***************************************************************************)
\* The instance has its own copy of Cardinality.
LEMMA SameMajority ==
  ASSUME NEW S, 2 * Cardinality(S) > NumNodes
  PROVE  Abstract!IsMajority(S)
<1>1. Abstract!Cardinality(S) = Cardinality(S)
  BY Zenon DEF Abstract!Cardinality, Cardinality
<1>2. QED
  BY <1>1 DEF Abstract!IsMajority

\* The requests are the history of the client.
LEMMA RequestedIs ==
  ASSUME NEW d \in Decision, Asked(d.id, d.value, d.proposer)
  PROVE  d.id \in DOMAIN requested /\ Abstract!Requested(d.id) = d
  BY DEF Asked, Decision, Abstract!Requested

\* A quiet step leaves all that AbstractPaxos sees of the servers.
LEMMA QuietIsStutter ==
  ASSUME Quiet
  PROVE  /\ m_acceptedProposals' = m_acceptedProposals
         /\ Chosen' = Chosen
         /\ [s \in Server |-> Learned(s)]' = [s \in Server |-> Learned(s)]
<1>1. Chosen' = Chosen
  BY DEF Quiet, TakenStays, LearnedStill, Chosen
<1>2. QED
  BY <1>1 DEF Quiet, LearnedStill

\* The request of the client is the Request of AbstractPaxos.
LEMMA RequestMaps ==
  ASSUME TypeOK, Quiet, SendRequest
  PROVE  Abstract!Request \/ UNCHANGED Abstract!absVars
<1>1. /\ UNCHANGED m_acceptedProposals
      /\ Chosen' = Chosen
      /\ [s \in Server |-> Learned(s)]' = [s \in Server |-> Learned(s)]
  BY QuietIsStutter
<1>2. CASE UNCHANGED requested
  BY <1>1, <1>2 DEF Abstract!absVars, Chosen
<1>3. CASE /\ Len(requested) < MaxRequests
           /\ \E v \in Value :
                requested' = Append(requested, [to |-> NextServer, value |-> v])
  <2>1. NextServer \in Server
    BY NumNodesAssumption DEF TypeOK, ClientTypeOK, NextServer, Server
  <2>2. QED
    BY <1>1, <1>3, <2>1 DEF Abstract!Request, Abstract!Server, Server, Chosen
<1>4. QED
  BY <1>2, <1>3 DEF SendRequest

\* A PROPOSAL recorded is an Accept of AbstractPaxos.
LEMMA AcceptMaps ==
  ASSUME TypeOK, Match, VotesWellFormed, NEW e \in events, Accepting(e),
         UNCHANGED requested
  PROVE  Abstract!Next
<1> DEFINE d == DecisionOf(e)
<1>1. e.frame \in PaxosFrame /\ e.at \in Server
  BY DEF TypeOK, SimTypeOK, Event, Accepting
<1>2. d \in Decision /\ d.proposer = e.frame.proposerId
      /\ d.id = e.frame.proposalId /\ d.value = e.frame.value
  BY <1>1 DEF DecisionOf, ProposerOf, Decision, PaxosFrame, Accepting
<1>3. Asked(d.id, d.value, d.proposer)
  BY <1>2 DEF Match, EventsMatch, ProposerOf, Accepting
<1>4. e.at # d.proposer
  BY <1>2 DEF VotesWellFormed, VoteEvent, VoterOf, Accepting
<1> HIDE DEF d
<1>5. Insert(m_acceptedProposals[e.at], d) = m_acceptedProposals[e.at] \cup {d}
  <2>1. \A x \in m_acceptedProposals[e.at] : x \in Decision /\ Asked(x.id, x.value, x.proposer)
    BY <1>1 DEF Match, DecisionsMatch, TypeOK, ServerTypeOK
  <2>2. \A x \in m_acceptedProposals[e.at] : x.id = d.id => x = d
    BY <1>2, <1>3, <2>1 DEF Asked, Decision
  <2>3. QED
    BY <2>2 DEF Insert, Erase
<1>6. m_acceptedProposals' = [m_acceptedProposals EXCEPT ![e.at] = @ \cup {d}]
  BY <1>5 DEF Accepting, d
<1>7. Chosen' = Chosen /\ [s \in Server |-> Learned(s)]' = [s \in Server |-> Learned(s)]
  BY DEF Accepting, TakenStays, LearnedStill, Chosen
<1>8. Abstract!Accept(e.at, d)
  BY <1>4, <1>6, <1>7 DEF Abstract!Accept, Chosen
<1>9. d.id \in DOMAIN requested /\ Abstract!Requested(d.id) = d
  BY <1>2, <1>3, RequestedIs
<1>10. QED
  BY <1>1, <1>8, <1>9 DEF Abstract!Next, Abstract!Server, Server

\* A deciding vote is a Choose of AbstractPaxos, at a synchronous proposer with its learning.
LEMMA ChooseMaps ==
  ASSUME TypeOK, Match, LearningInv, ChosenInv, ChosenInv', DecidedByMajority',
         NEW s \in Server, NEW p \in m_proposals[s], Choosing(s, p),
         UNCHANGED requested
  PROVE  Abstract!Next
<1> DEFINE d == DecisionFor(s, p)
           L == [t \in Server |-> Learned(t)]
<1>1. d \in Decision /\ d.id = p.id /\ d.proposer = s
  BY DEF DecisionFor, TypeOK, ServerTypeOK, Proposal, Decision
<1>2. Asked(d.id, d.value, d.proposer)
  BY DEF Match, ProposalsMatch, DecisionFor
<1>3. \A t \in Server : d \notin Learned(t)
  <2>1. NoTrace(p.id, events, LearnedIds)
    BY DEF LearningInv, LearningOK, ProposalsOK, Choosing
  <2>2. QED
    BY <1>1, <2>1 DEF NoTrace, LearnedIds, IdsOf
<1>4. d \notin Chosen
  BY <1>3, LeaderAssumption, ChosenAre DEF Choosing
<1>5. d \in Learned(s)' \cup Taken(s)'
  BY DEF Choosing, LearnedBy
<1>6. Abstract!IsMajority({d.proposer} \cup {t \in Server : d \in m_acceptedProposals[t]})
  <2>1. d \in Decided'
    BY <1>5 DEF Decided, DecisionFor
  <2>2. Majority(Voters(d))'
    BY <2>1 DEF DecidedByMajority
  <2>3. m_acceptedProposals' = m_acceptedProposals
    BY DEF Choosing
  <2> HIDE DEF d
  <2>4. 2 * Cardinality({d.proposer} \cup {t \in Server : d \in m_acceptedProposals[t]})
          > NumNodes
    BY <2>2, <2>3 DEF Majority, Voters
  <2>5. QED
    BY <2>4, SameMajority
<1>7. CASE IsAsync
  <2>1. L' = L /\ s = Leader /\ Taken(s) = {} /\ Taken(s)' = {d}
    BY <1>7 DEF Choosing, LearnedStill
  <2>2. Chosen = Learned(Leader) /\ Chosen' = Learned(Leader)' \cup {d}
    BY <1>7, <2>1, ChosenAre, LeaderAssumption DEF ChosenInv, NoneKept, Chosen
  <2>3. Learned(Leader)' = Learned(Leader)
    BY <1>7, LeaderAssumption DEF Choosing, LearnedStill
  <2>4. Chosen' = Chosen \cup {d}
    BY <2>2, <2>3
  <2> HIDE DEF d
  <2>5. Abstract!Choose(d)
    <3>1. Chosen = L[Leader] /\ d.proposer = Leader
      BY <1>1, <2>1, <2>2, LeaderAssumption
    <3>2. UNCHANGED <<m_acceptedProposals, requested>>
      BY DEF Choosing
    <3>3. QED
      BY <1>4, <1>6, <1>7, <2>1, <2>4, <3>1, <3>2
      DEF Abstract!Choose, Abstract!Server, Server, Chosen
  <2>6. d.id \in DOMAIN requested /\ Abstract!Requested(d.id) = d
    BY <1>1, <1>2, RequestedIs
  <2>7. QED
    BY <2>5, <2>6 DEF Abstract!Next
<1>8. CASE ~IsAsync
  <2>1. LearnedBy(s, d) /\ TakenStays
    BY <1>8 DEF Choosing
  <2> HIDE DEF d
  <2>2. L' = [L EXCEPT ![d.proposer] = @ \cup {d}]
    BY <1>1, <2>1 DEF LearnedBy
  <2>3. Chosen' = Chosen \cup {d}
    BY <2>1 DEF LearnedBy, TakenStays, Chosen
  <2>4. Abstract!Choose(d)
    <3>1. UNCHANGED <<m_acceptedProposals, requested>>
      BY DEF Choosing
    <3>2. QED
      BY <1>4, <1>6, <1>8, <2>2, <2>3, <3>1
      DEF Abstract!Choose, Abstract!Server, Server, Chosen
  <2>5. d.id \in DOMAIN requested /\ Abstract!Requested(d.id) = d
    BY <1>1, <1>2, RequestedIs
  <2>6. QED
    BY <2>4, <2>5 DEF Abstract!Next
<1>9. QED
  BY <1>7, <1>8

\* A DECISION learned is a Learn of AbstractPaxos.
LEMMA LearnMaps ==
  ASSUME TypeOK, Match, LearningInv, ChosenInv, ChosenInv', SlotLogInv,
         NEW e \in events, Learning(e), UNCHANGED requested
  PROVE  Abstract!Next
<1> DEFINE d == DecisionOf(e)
           s == e.at
           L == [t \in Server |-> Learned(t)]
<1>1. e.frame \in PaxosFrame /\ s \in Server
  BY DEF TypeOK, SimTypeOK, Event, Learning
<1>2. d \in Decision /\ d.id = e.frame.proposalId
      /\ d.value = e.frame.value /\ d.proposer = e.frame.proposerId
  BY <1>1 DEF DecisionOf, ProposerOf, Decision, PaxosFrame, Learning
<1>3. Asked(d.id, d.value, d.proposer)
  BY <1>2 DEF Match, EventsMatch, ProposerOf, Learning
<1>4. s # d.proposer /\ d \notin Learned(s)
  <2>1. s # e.frame.proposerId /\ e.frame.proposalId \notin LearnedIds[s]
    BY DEF LearningInv, LearningOK, DecisionsOK, Learning
  <2>2. QED
    BY <1>1, <1>2, <2>1 DEF LearnedIds, IdsOf
<1>5. d \in Announced
  BY <1>2 DEF Announced, DecisionOf, ProposerOf, Learning
<1>6. LearnedBy(s, d) /\ TakenStays /\ m_acceptedProposals' = m_acceptedProposals
  BY DEF Learning
<1> HIDE DEF d, s
<1>7. d \in Chosen
  <2>1. CASE IsAsync
    BY <1>5, <2>1, ChosenAre DEF ChosenInv
  <2>2. CASE ~IsAsync
    <3>1. d \in Learned(d.proposer) /\ d.proposer \in Server
      BY <1>2, <1>5, <2>2 DEF SlotLogInv, ProposerFirst, Decision
    <3>2. QED
      BY <3>1 DEF Chosen
  <2>3. QED
    BY <2>1, <2>2
<1>8. Chosen' = Chosen
  <2>1. Chosen' \subseteq Chosen \cup {d}
    BY <1>6 DEF Chosen, LearnedBy, TakenStays
  <2>2. Chosen \subseteq Chosen'
    BY <1>6 DEF Chosen, LearnedBy, TakenStays
  <2>3. QED
    BY <1>7, <2>1, <2>2
<1>9. L' = [L EXCEPT ![s] = @ \cup {d}]
  BY <1>1, <1>6 DEF LearnedBy
<1>10. Abstract!Learn(s, d)
  BY <1>1, <1>4, <1>6, <1>7, <1>8, <1>9 DEF Abstract!Learn, Chosen
<1>11. d.id \in DOMAIN requested /\ Abstract!Requested(d.id) = d
  BY <1>2, <1>3, RequestedIs
<1>12. QED
  BY <1>1, <1>10, <1>11 DEF Abstract!Next, Abstract!Server, Server

\* A completing DECISION_ACK is the Learn of the leader.
LEMMA CompleteMaps ==
  ASSUME TypeOK, Match, ChosenInv, ChosenInv', SecondRoundInv',
         NEW p \in m_proposals[Leader], Completing(p), UNCHANGED requested
  PROVE  Abstract!Next
<1> DEFINE d == DecisionFor(Leader, p)
           L == [t \in Server |-> Learned(t)]
<1>1. d \in Decision /\ d.id = p.id /\ d.proposer = Leader
  BY LeaderAssumption DEF DecisionFor, TypeOK, ServerTypeOK, Proposal, Decision
<1>2. Asked(d.id, d.value, d.proposer)
  BY LeaderAssumption DEF Match, ProposalsMatch, DecisionFor
<1>3. /\ IsAsync /\ LearnedBy(Leader, d) /\ d \notin Learned(Leader)
      /\ Taken(Leader) = {d} /\ Taken(Leader)' = {}
      /\ m_acceptedProposals' = m_acceptedProposals
  BY DEF Completing
<1>4. Abstract!IsMajority({Leader} \cup {t \in Server : d \in Learned(t)})
  <2> DEFINE S == {t \in Server : d \in Learned(t)'}
  <2>1. d \in Learned(Leader)'
    BY <1>3 DEF LearnedBy
  <2>2. 2 * Cardinality(S) > NumNodes
    BY <1>3, <2>1 DEF SecondRoundInv, CompleteOnMajority, Majority, Learned, DecisionFor
  <2>3. S = {Leader} \cup {t \in Server : d \in Learned(t)}
    BY <1>3, LeaderAssumption DEF LearnedBy
  <2> HIDE DEF S
  <2>4. QED
    BY <2>2, <2>3, SameMajority
<1> HIDE DEF d
<1>5. d \in Chosen /\ Chosen' = Chosen
  <2>1. Chosen = Learned(Leader) \cup {d}
    BY <1>3, ChosenAre
  <2>2. Chosen' = Learned(Leader)'
    BY <1>3, LeaderAssumption DEF Chosen, ChosenInv, NoneKept
  <2>3. QED
    BY <1>3, <2>1, <2>2 DEF LearnedBy
<1>6. L' = [L EXCEPT ![Leader] = @ \cup {d}]
  BY <1>3, LeaderAssumption DEF LearnedBy
<1>7. Abstract!Learn(Leader, d)
  <2>1. d \notin L[Leader]
    BY <1>3, LeaderAssumption
  <2>2. {t \in Server : d \in L[t]} = {t \in Server : d \in Learned(t)}
    OBVIOUS
  <2>3. Abstract!IsMajority({Leader} \cup {t \in Server : d \in L[t]})
    BY <1>4, <2>2
  <2>4. QED
    BY <1>3, <1>5, <1>6, <2>1, <2>3
    DEF Abstract!Learn, Abstract!Server, Server, Chosen
<1>8. d.id \in DOMAIN requested /\ Abstract!Requested(d.id) = d
  BY <1>1, <1>2, RequestedIs
<1>9. QED
  BY <1>7, <1>8, LeaderAssumption DEF Abstract!Next, Abstract!Server, Server

\* Every step maps to a step or a stutter.
LEMMA StepMaps ==
  ASSUME TypeOK, Match, VotingParts, LearningInv, SlotLogInv, SecondRoundInv,
         ChosenInv, [Next]_vars
  PROVE  ChosenInv' /\ [Abstract!Next]_(Abstract!absVars)
<1>1. TypeOK' /\ VotingParts' /\ SecondRoundInv'
  BY TypeStep, VotingStep, SecondRoundStep
<1>2. AbstractStep /\ (UNCHANGED requested \/ (SendRequest /\ Quiet))
  BY <1>1, AbstractCases
<1>3. ChosenInv'
  BY <1>1, <1>2, ChosenStep
<1>4. CASE Quiet /\ UNCHANGED requested
  BY <1>3, <1>4, QuietIsStutter DEF Abstract!absVars, Chosen
<1>5. CASE SendRequest /\ Quiet
  BY <1>3, <1>5, RequestMaps DEF Abstract!Next
<1>6. ASSUME NEW e \in events, Accepting(e) \/ Learning(e), UNCHANGED requested
      PROVE  Abstract!Next
  BY <1>3, <1>6, AcceptMaps, LearnMaps DEF VotingParts
<1>7. ASSUME NEW s \in Server, NEW p \in m_proposals[s], Choosing(s, p),
             UNCHANGED requested
      PROVE  Abstract!Next
  BY <1>1, <1>3, <1>7, ChooseMaps DEF VotingParts
<1>8. ASSUME NEW p \in m_proposals[Leader], Completing(p), UNCHANGED requested
      PROVE  Abstract!Next
  BY <1>1, <1>3, <1>8, CompleteMaps
<1>9. QED
  BY <1>2, <1>3, <1>4, <1>5, <1>6, <1>7, <1>8 DEF AbstractStep
-------------------------------------------------------------------------------
\* The initial states map to initial states.
LEMMA InitMaps == Init => Abstract!Init
<1> SUFFICES ASSUME Init PROVE Abstract!Init
  OBVIOUS
<1>1. requested = <<>>
  BY DEF Init, ClientInit
<1>2. ASSUME NEW s \in Server
      PROVE  /\ m_proposals[s] = {} /\ m_decidedProposalQueue[s] = <<>>
             /\ decisionLog[s] = <<>>
  BY DEF Init, ServerInit
<1>3. m_acceptedProposals = [s \in Server |-> {}]
  BY DEF Init, ServerInit
<1>4. ToSet(<<>>) = {}
  BY DEF ToSet
<1>5. \A s \in Server : Learned(s) = {} /\ Taken(s) = {}
  BY <1>2, <1>4 DEF Learned, Taken
<1>6. Chosen = {}
  BY <1>5 DEF Chosen
<1>7. QED
  BY <1>1, <1>3, <1>5, <1>6 DEF Abstract!Init, Abstract!Server, Server, Chosen

(***************************************************************************)
(* The servers implement AbstractPaxos, in both protocols and whatever the *)
(* network loses: a request is chosen only when a majority has accepted    *)
(* it, and once; the asynchronous leader chooses nothing before it has     *)
(* learned all it has chosen, which it does after a majority has; nothing  *)
(* is learned that is not chosen, and nothing twice.                       *)
(***************************************************************************)
THEOREM RefinementCorrect == Spec => ImplementsAbstract
<1>1. Init => Abstract!Init /\ ChosenInv
  BY InitMaps, ChosenInit
<1>2. TypeOK /\ Match /\ VotingParts /\ LearningInv /\ SlotLogInv
        /\ SecondRoundInv /\ ChosenInv /\ [Next]_vars
        => ChosenInv' /\ [Abstract!Next]_(Abstract!absVars)
  BY StepMaps
<1>3. QED
  BY <1>1, <1>2, TypeCorrect, LearningCorrect, SlotLogCorrect, SecondRoundCorrect, PTL
  DEF Spec, ImplementsAbstract, Abstract!Spec
================================================================================
