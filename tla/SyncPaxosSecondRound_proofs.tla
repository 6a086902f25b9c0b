---------------------- MODULE SyncPaxosSecondRound_proofs ----------------------
(***************************************************************************)
(* The asynchronous protocol: only the leader proposes, one proposal at a  *)
(* time, and a proposal is complete when a majority has learned it.  The   *)
(* invariant is SecondRoundInv.                                            *)
(***************************************************************************)
EXTENDS SyncPaxosLearning_proofs

(***************************************************************************)
(* The conjuncts, when little changes.                                     *)
(***************************************************************************)
LearnedGrow == \A t \in Server : Learned(t) \subseteq Learned(t)'

\* Nobody but the leader has anything to propose, still.
LEMMA OnlyLeaderStays ==
  ASSUME OnlyLeader,
         \A s \in Server \ {Leader} :
           /\ m_waitingProposals'[s] = m_waitingProposals[s]
           /\ m_proposals'[s] = m_proposals[s]
           /\ proposeEvents'[s] = proposeEvents[s],
         \A r \in requestEvents' :
           r \in requestEvents \/ r.fn = "ReceiveRequest" \/ r.at = Leader,
         \A e \in events' : e \in events \/ ProposerOf(e) = Leader
  PROVE  OnlyLeader'
<1>1. \A s \in Server \ {Leader} : /\ m_waitingProposals'[s] = <<>>
                                   /\ m_proposals'[s] = {}
                                   /\ proposeEvents'[s] = 0
  BY DEF OnlyLeader
<1>2. \A r \in requestEvents' : r.fn = "CreateProposalFromRequest" => r.at = Leader
  BY DEF OnlyLeader
<1>3. \A e \in events' : ProposerOf(e) = Leader
  BY DEF OnlyLeader
<1>4. QED
  BY <1>1, <1>2, <1>3 DEF OnlyLeader, ProposerOf

\* A DECISION_ACK is an event.
LEMMA AckType ==
  ASSUME TypeOK, OnlyLeader, NEW e \in AckEvent
  PROVE  /\ e \in events /\ e.frame \in PaxosFrame /\ e.at = Leader
         /\ DecisionOf(e) = [id |-> e.frame.proposalId, value |-> e.frame.value,
                             proposer |-> Leader]
  BY DEF AckEvent, TypeOK, SimTypeOK, Event, OnlyLeader, ProposerOf, DecisionOf

\* DECISION_ACKs stay well formed when none is added.
LEMMA AcksStayWellFormed ==
  ASSUME AcksWellFormed, LearnedGrow, AckEvent' \subseteq AckEvent
  PROVE  AcksWellFormed'
<1>1. \A e \in AckEvent' :
        /\ e.frame.proposerId \in Server \ {Leader}
        /\ DecisionOf(e) \in Learned(e.frame.proposerId)'
        /\ \A x \in AckEvent' :
             (x.frame.proposerId = e.frame.proposerId
                /\ x.frame.proposalId = e.frame.proposalId) => x = e
  BY DEF AcksWellFormed, LearnedGrow
<1>2. QED
  BY <1>1 DEF AcksWellFormed, DecisionOf, ProposerOf, Learned

\* A server whose ack has been received or lost has confirmed for good.
LEMMA ConfirmedStays ==
  ASSUME LearnedGrow, NEW o, NEW p, o.id = p.id, o.value = p.value,
         \A t \in Confirmed(o) : ~AckPending(t, p.id)'
  PROVE  Confirmed(o) \subseteq Confirmed(p)'
<1>1. DecisionFor(Leader, o) = DecisionFor(Leader, p)
  BY DEF DecisionFor
<1>2. ASSUME NEW t \in Confirmed(o)
      PROVE  t \in Server \ {Leader} /\ DecisionFor(Leader, p) \in Learned(t)'
  BY <1>1 DEF Confirmed, LearnedGrow
<1>3. QED
  BY <1>2 DEF Confirmed, DecisionFor, AckPending

\* The counts stay right when no confirmation is taken back.
LEMMA AcksStayCounted ==
  ASSUME TypeOK, TypeOK', AcksCounted,
         \A p \in m_proposals'[Leader] :
           \/ p.numDecisionAck <= 1
           \/ p.numDecisionAck <= 1 + Cardinality(Confirmed(p)')
           \/ \E o \in m_proposals[Leader] :
                /\ p.numDecisionAck = o.numDecisionAck
                /\ Confirmed(o) \subseteq Confirmed(p)'
  PROVE  AcksCounted'
<1> SUFFICES ASSUME NEW p \in m_proposals'[Leader]
             PROVE  p.numDecisionAck <= 1 + Cardinality(Confirmed(p)')
  BY DEF AcksCounted, Confirmed, DecisionFor, Learned, AckPending, AckEvent
<1>1. p.numDecisionAck \in Nat
  BY LeaderAssumption DEF TypeOK, ServerTypeOK, Proposal
<1>2. Confirmed(p)' \in SUBSET Server
  BY DEF Confirmed
<1>3. Cardinality(Confirmed(p)') \in Nat
  BY <1>2, SizeOfServers
<1>4. CASE p.numDecisionAck <= 1
  BY <1>1, <1>3, <1>4
<1>5. ASSUME NEW o \in m_proposals[Leader], p.numDecisionAck = o.numDecisionAck,
             Confirmed(o) \subseteq Confirmed(p)'
      PROVE  p.numDecisionAck <= 1 + Cardinality(Confirmed(p)')
  <2>1. Confirmed(o) \in SUBSET Server
    BY DEF Confirmed
  <2>2. /\ Cardinality(Confirmed(o)) \in Nat
        /\ Cardinality(Confirmed(o)) <= Cardinality(Confirmed(p)')
    BY <1>2, <1>5, <2>1, SizeOfServers
  <2>3. o.numDecisionAck <= 1 + Cardinality(Confirmed(o))
    BY DEF AcksCounted
  <2>4. QED
    BY <1>1, <1>3, <1>5, <2>2, <2>3
<1>6. QED
  BY <1>4, <1>5

\* What is complete stays complete.
LEMMA CompleteStays ==
  ASSUME TypeOK, IsAsync, CompleteOnMajority, LearnedGrow,
         \A d \in Learned(Leader)' :
           \/ d \in Learned(Leader)
           \/ 2 * Cardinality({s \in Server : d \in Learned(s)'}) > NumNodes
  PROVE  CompleteOnMajority'
<1> SUFFICES ASSUME NEW d \in Learned(Leader)'
             PROVE  2 * Cardinality({s \in Server : d \in Learned(s)'}) > NumNodes
  BY DEF CompleteOnMajority, Majority, Learned
<1>1. CASE d \in Learned(Leader)
  <2> DEFINE S == {s \in Server : d \in Learned(s)}
             T == {s \in Server : d \in Learned(s)'}
  <2>1. S \subseteq T
    BY DEF LearnedGrow
  <2>2. 2 * Cardinality(S) > NumNodes
    BY <1>1 DEF CompleteOnMajority, Majority
  <2>3. S \in SUBSET Server /\ T \in SUBSET Server
    OBVIOUS
  <2> HIDE DEF S, T
  <2>4. /\ Cardinality(S) \in Nat /\ Cardinality(T) \in Nat
        /\ Cardinality(S) <= Cardinality(T)
    BY <2>1, <2>3, SizeOfServers
  <2>5. 2 * Cardinality(T) > NumNodes
    BY <2>2, <2>4, ServersFinite
  <2>6. QED
    BY <2>5 DEF T
<1>2. QED
  BY <1>1

(***************************************************************************)
(* No acknowledgement is sent or counted, and the leader learns nothing.   *)
(***************************************************************************)
LEMMA NothingConfirmed ==
  ASSUME TypeOK, TypeOK', IsAsync, SecondRoundInv, LearnedGrow,
         Learned(Leader)' \subseteq Learned(Leader),
         AckEvent' \subseteq AckEvent,
         \A p \in m_proposals'[Leader] :
           \/ p.numDecisionAck <= 1
           \/ \E o \in m_proposals[Leader] :
                /\ p.id = o.id /\ p.value = o.value
                /\ p.numDecisionAck = o.numDecisionAck,
         OnlyLeader', OneJob'
  PROVE  SecondRoundInv'
<1>1. /\ OnlyLeader /\ OneJob /\ AcksWellFormed /\ AcksCounted
      /\ CompleteOnMajority
  BY DEF SecondRoundInv
<1>2. AcksWellFormed'
  BY <1>1, AcksStayWellFormed
<1>3. ASSUME NEW t, NEW i, AckPending(t, i)'
      PROVE  AckPending(t, i)
  BY <1>3 DEF AckPending
<1>4. ASSUME NEW p, NEW o, p.id = o.id, p.value = o.value
      PROVE  Confirmed(o) \subseteq Confirmed(p)'
  <2>1. \A t \in Confirmed(o) : ~AckPending(t, o.id)
    BY DEF Confirmed
  <2>2. \A t \in Confirmed(o) : ~AckPending(t, p.id)'
    BY <1>3, <1>4, <2>1
  <2>3. QED
    BY <1>4, <2>2, ConfirmedStays
<1>5. AcksCounted'
  BY <1>1, <1>4, AcksStayCounted
<1>6. CompleteOnMajority'
  BY <1>1, CompleteStays
<1>7. QED
  BY <1>2, <1>5, <1>6 DEF SecondRoundInv
-------------------------------------------------------------------------------
(***************************************************************************)
(* The handlers.                                                           *)
(***************************************************************************)
\* A step that leaves the proposals and the leader's work alone.
LEMMA LeaderRests ==
  ASSUME TypeOK, TypeOK', IsAsync, SecondRoundInv, LearnedGrow,
         Learned(Leader)' \subseteq Learned(Leader),
         UNCHANGED <<m_proposals, proposeEvents>>,
         stopped \subseteq stopped',
         AckEvent' \subseteq AckEvent,
         \A s \in Server \ {Leader} : m_waitingProposals'[s] = m_waitingProposals[s],
         \A r \in requestEvents' :
           r \in requestEvents \/ r.fn = "ReceiveRequest" \/ r.at = Leader,
         \A e \in events' : e \in events \/ ProposerOf(e) = Leader
  PROVE  SecondRoundInv'
<1>1. OnlyLeader /\ OneJob
  BY DEF SecondRoundInv
<1>2. OnlyLeader'
  BY <1>1, OnlyLeaderStays
<1>3. OneJob'
  BY <1>1 DEF OneJob
<1>4. QED
  BY <1>2, <1>3, NothingConfirmed

\* The listener and the client do not touch the second round.
LEMMA ReceiveRequestRound ==
  ASSUME TypeOK, TypeOK', IsAsync, SecondRoundInv, NEW r \in requestEvents,
         ReceiveRequest(r)
  PROVE  SecondRoundInv'
<1> DEFINE n == [r EXCEPT !.fn = "CreateProposalFromRequest"]
<1>1. n.at = r.at
  BY DEF TypeOK, SimTypeOK, RequestEvent
<1>2. requestEvents' = IF r.at # Leader THEN requestEvents \ {r}
                       ELSE (requestEvents \ {r}) \cup {n}
  BY DEF ReceiveRequest
<1>3. UNCHANGED <<events, stopped, m_waitingProposals, m_proposals, proposeEvents,
                  m_decidedProposalQueue, decisionLog>>
  BY DEF ReceiveRequest, serverVars, proposerVars, learnerVars
<1> HIDE DEF n
<1>4. \A x \in requestEvents' : x \in requestEvents \/ x.at = Leader
  BY <1>1, <1>2
<1>5. AckEvent' = AckEvent
  BY <1>3 DEF AckEvent
<1>6. \A t \in Server : Learned(t)' = Learned(t)
  BY <1>3 DEF Learned
<1>7. QED
  BY <1>3, <1>4, <1>5, <1>6, LeaderAssumption, LeaderRests DEF LearnedGrow

\* A proposal created is queued, at the leader only.
LEMMA CreateProposalRound ==
  ASSUME TypeOK, TypeOK', IsAsync, SecondRoundInv, NEW r \in requestEvents,
         CreateProposalFromRequest(r)
  PROVE  SecondRoundInv'
<1>1. r.at = Leader
  BY DEF SecondRoundInv, OnlyLeader, CreateProposalFromRequest
<1>2. /\ requestEvents' \subseteq requestEvents
      /\ UNCHANGED <<events, stopped, m_proposals, proposeEvents,
                     m_decidedProposalQueue, decisionLog>>
      /\ \/ UNCHANGED m_waitingProposals
         \/ m_waitingProposals' =
              [m_waitingProposals EXCEPT ![r.at] = Append(@, r.frame)]
  BY DEF CreateProposalFromRequest, learnerVars
<1>3. \A s \in Server \ {Leader} : m_waitingProposals'[s] = m_waitingProposals[s]
  BY <1>1, <1>2 DEF TypeOK, ServerTypeOK
<1>4. AckEvent' = AckEvent
  BY <1>2 DEF AckEvent
<1>5. \A t \in Server : Learned(t)' = Learned(t)
  BY <1>2 DEF Learned
<1>6. QED
  BY <1>2, <1>3, <1>4, <1>5, LeaderAssumption, LeaderRests DEF LearnedGrow

\* A request sent is no job yet.
LEMMA SendRequestRound ==
  ASSUME TypeOK, TypeOK', IsAsync, SecondRoundInv, SendRequest, UNCHANGED serverVars
  PROVE  SecondRoundInv'
<1>1. UNCHANGED <<events, stopped, m_waitingProposals, m_proposals, proposeEvents,
                  m_decidedProposalQueue, decisionLog>>
  BY DEF SendRequest, serverVars, proposerVars, learnerVars
<1>2. \A x \in requestEvents' : x \in requestEvents \/ x.fn = "ReceiveRequest"
  <2>1. CASE UNCHANGED requestEvents
    BY <2>1
  <2>2. ASSUME NEW v \in Value,
               requestEvents' = requestEvents \cup
                 {[at |-> NextServer, fn |-> "ReceiveRequest",
                   frame |-> [id |-> Len(requested) + 1, value |-> v]]}
        PROVE  \A x \in requestEvents' : x \in requestEvents \/ x.fn = "ReceiveRequest"
    BY <2>2
  <2>3. QED
    BY <2>1, <2>2 DEF SendRequest
<1>3. AckEvent' = AckEvent
  BY <1>1 DEF AckEvent
<1>4. \A t \in Server : Learned(t)' = Learned(t)
  BY <1>1 DEF Learned
<1>5. QED
  BY <1>1, <1>2, <1>3, <1>4, LeaderAssumption, LeaderRests DEF LearnedGrow

(***************************************************************************)
(* DoAsyncPropose at a leader without a proposal: polls is what is pending *)
(* besides the call.                                                       *)
(***************************************************************************)
LEMMA LeaderProposes ==
  ASSUME TypeOK, TypeOK', IsAsync, OnlyLeader, UNCHANGED <<requestEvents, stopped>>,
         NEW pending \in SUBSET events, AsyncPropose(Leader, {}, pending, 0)
  PROVE  /\ OnlyLeader' /\ OneJob'
         /\ \A p \in m_proposals'[Leader] : p.numDecisionAck = 1 /\ ~p.decided
         /\ \A e \in events' : e.frame.type \in {"DECISION", "DECISION_ACK"} => e \in pending
<1> DEFINE request == Head(m_waitingProposals[Leader])
           p == [id |-> request.id, value |-> request.value, numAck |-> 1,
                 decided |-> FALSE, numDecisionAck |-> 1]
           frame == [type |-> "PROPOSAL", proposerId |-> Leader,
                     proposalId |-> request.id, value |-> request.value,
                     acceptorId |-> 0]
<1>1. \A s \in Server \ {Leader} : /\ m_waitingProposals'[s] = m_waitingProposals[s]
                                   /\ m_proposals'[s] = m_proposals[s]
                                   /\ proposeEvents'[s] = proposeEvents[s]
  BY DEF AsyncPropose, DoPropose, TypeOK, ServerTypeOK
<1>2. CASE DoPropose(Leader, {}, pending) /\ ~PastStopTime
           /\ proposeEvents' = [proposeEvents EXCEPT ![Leader] = 0]
  <2>1. /\ events' = pending \cup Broadcast(Leader, frame)
        /\ m_proposals' = [m_proposals EXCEPT ![Leader] = Insert({}, p)]
    BY <1>2 DEF DoPropose
  <2>2. \A e \in Broadcast(Leader, frame) :
          e.frame.type = "PROPOSAL" /\ e.frame.proposerId = Leader
    BY DEF Broadcast, Datagram
  <2>3. p.numDecisionAck = 1 /\ ~p.decided
    OBVIOUS
  <2> HIDE DEF request, p, frame
  <2>4. m_proposals'[Leader] = {p} /\ proposeEvents'[Leader] = 0
    BY <1>2, <2>1, LeaderAssumption DEF TypeOK, ServerTypeOK, Insert, Erase
  <2>5. OneJob'
    BY <2>4 DEF OneJob
  <2>6. OnlyLeader'
    BY <1>1, <2>1, <2>2, OnlyLeaderStays DEF ProposerOf
  <2>7. QED
    BY <2>1, <2>2, <2>3, <2>4, <2>5, <2>6
<1>3. CASE /\ events' = pending
           /\ m_proposals' = [m_proposals EXCEPT ![Leader] = {}]
           /\ \/ PastStopTime /\ proposeEvents' = [proposeEvents EXCEPT ![Leader] = 0]
              \/ proposeEvents' = [proposeEvents EXCEPT ![Leader] = 0 + 1]
  <2>1. m_proposals'[Leader] = {}
    BY <1>3, LeaderAssumption DEF TypeOK, ServerTypeOK
  <2>2. \/ stopped # {} /\ proposeEvents'[Leader] = 0
        \/ proposeEvents'[Leader] = 1
    BY <1>3, LeaderAssumption DEF TypeOK, ServerTypeOK, PastStopTime
  <2>3. OneJob'
    BY <2>1, <2>2 DEF OneJob
  <2>4. OnlyLeader'
    BY <1>1, <1>3, OnlyLeaderStays
  <2>5. QED
    BY <1>3, <2>1, <2>3, <2>4
<1>4. QED
  BY <1>2, <1>3 DEF AsyncPropose

\* A poll finds a job, or polls again.
LEMMA AsyncProposeRound ==
  ASSUME TypeOK, TypeOK', SecondRoundInv, NEW s \in Server, DoAsyncPropose(s)
  PROVE  SecondRoundInv'
<1>1. /\ IsAsync /\ proposeEvents[s] > 0
      /\ AsyncPropose(s, m_proposals[s], events, proposeEvents[s] - 1)
      /\ UNCHANGED <<requestEvents, stopped, m_decidedProposalQueue, decisionLog>>
  BY DEF DoAsyncPropose, learnerVars
<1>2. OnlyLeader /\ OneJob
  BY <1>1 DEF SecondRoundInv
<1>3. s = Leader
  BY <1>1, <1>2 DEF OnlyLeader
<1>4. proposeEvents[s] = 1 /\ m_proposals[s] = {}
  BY <1>1, <1>2, <1>3 DEF OneJob
<1>5. AsyncPropose(Leader, {}, events, 0)
  <2>1. proposeEvents[s] - 1 = 0
    BY <1>4
  <2>2. QED
    BY <1>1, <1>3, <1>4, <2>1
<1>6. /\ OnlyLeader' /\ OneJob'
      /\ \A p \in m_proposals'[Leader] : p.numDecisionAck = 1
      /\ \A e \in events' : e.frame.type \in {"DECISION", "DECISION_ACK"} => e \in events
  BY <1>1, <1>2, <1>5, LeaderProposes
<1>7. AckEvent' \subseteq AckEvent
  BY <1>6 DEF AckEvent
<1>8. \A t \in Server : Learned(t)' = Learned(t)
  BY <1>1 DEF Learned
<1>9. QED
  BY <1>1, <1>6, <1>7, <1>8, LeaderAssumption, NothingConfirmed DEF LearnedGrow

\* PROPOSALs and their votes are of the first round.
LEMMA VoteRound ==
  ASSUME TypeOK, TypeOK', Match, IsAsync, SecondRoundInv, NEW e \in events,
         \/ e.frame.type = "PROPOSAL" /\ DoReceivedProposalMessage(e)
         \/ SendAcceptMessage(e)
  PROVE  SecondRoundInv'
<1>1. UNCHANGED <<requestEvents, stopped, m_waitingProposals, m_proposals,
                  proposeEvents, m_decidedProposalQueue, decisionLog>>
  BY DEF DoReceivedProposalMessage, SendAcceptMessage, serverVars, proposerVars,
     learnerVars
<1>2. e.frame \in PaxosFrame
  BY DEF TypeOK, SimTypeOK, Event
<1>3. PICK n : /\ events' = (events \ {e}) \cup {n}
               /\ n.frame.type \in {"PROPOSAL", "ACCEPT"}
               /\ n.frame.proposerId = e.frame.proposerId
  <2>1. CASE e.frame.type = "PROPOSAL" /\ DoReceivedProposalMessage(e)
    <3> DEFINE n == [at |-> e.at, fn |-> "SendAcceptMessage",
                     frame |-> [e.frame EXCEPT !.acceptorId = e.at]]
    <3>1. n.frame.type = "PROPOSAL" /\ n.frame.proposerId = e.frame.proposerId
      BY <1>2, <2>1 DEF PaxosFrame
    <3>2. events' = (events \ {e}) \cup {n}
      BY <2>1 DEF DoReceivedProposalMessage
    <3> HIDE DEF n
    <3>3. QED
      BY <3>1, <3>2
  <2>2. CASE SendAcceptMessage(e)
    <3> DEFINE f == [e.frame EXCEPT !.type = "ACCEPT", !.acceptorId = e.at]
               n == Datagram(f.proposerId, f)
    <3>1. n.frame.type = "ACCEPT" /\ n.frame.proposerId = e.frame.proposerId
      BY <1>2 DEF PaxosFrame, Datagram
    <3>2. events' = (events \ {e}) \cup {n}
      BY <2>2 DEF SendAcceptMessage
    <3> HIDE DEF n
    <3>3. QED
      BY <3>1, <3>2
  <2>3. QED
    BY <2>1, <2>2
<1>4. e.frame.type # "DECISION_ACK" => ProposerOf(n) = Leader
  BY <1>3 DEF ProposerOf, SecondRoundInv, OnlyLeader
<1>5. AckEvent' \subseteq AckEvent
  BY <1>3 DEF AckEvent
<1>6. \A t \in Server : Learned(t)' = Learned(t)
  BY <1>1 DEF Learned
<1>7. e.frame.type # "DECISION_ACK"
  BY DEF SendAcceptMessage, Match, EventsMatch
<1>8. QED
  BY <1>1, <1>3, <1>4, <1>5, <1>6, <1>7, LeaderAssumption, LeaderRests DEF LearnedGrow

\* The leader counts a vote, which may decide.
LEMMA ReceivedAcceptRound ==
  ASSUME TypeOK, TypeOK', IsAsync, SecondRoundInv,
         NEW e \in events, e.at \in Server, e.frame.type = "ACCEPT",
         DoReceivedAcceptMessage(e)
  PROVE  SecondRoundInv'
<1> DEFINE s == e.at
           f == e.frame
           known == {p \in m_proposals[s] : p.id = f.proposalId /\ f.proposerId = s}
           rest == events \ {e}
           q(p) == [p EXCEPT !.numAck = @ + 1]
           d(p) == [q(p) EXCEPT !.decided = TRUE, !.numDecisionAck = 1]
<1>1. UNCHANGED <<requestEvents, stopped, m_waitingProposals, proposeEvents,
                  decisionLog>>
  BY DEF DoReceivedAcceptMessage
<1>2. OnlyLeader /\ OneJob
  BY DEF SecondRoundInv
<1>3. f \in PaxosFrame
  BY DEF TypeOK, SimTypeOK, Event
<1>4. CASE events' = rest /\ UNCHANGED <<m_proposals, m_decidedProposalQueue>>
  <2>1. AckEvent' \subseteq AckEvent
    BY <1>4 DEF AckEvent
  <2>2. \A t \in Server : Learned(t)' = Learned(t)
    BY <1>1, <1>4 DEF Learned
  <2>3. QED
    BY <1>1, <1>4, <2>1, <2>2, LeaderAssumption, LeaderRests DEF LearnedGrow
<1>5. ASSUME NEW p \in known, UNCHANGED m_decidedProposalQueue,
             \/ /\ events' = rest
                /\ m_proposals' = [m_proposals EXCEPT ![s] = Insert(@, q(p))]
             \/ /\ events' = rest \cup SendDecisionMessage(s, f)
                /\ m_proposals' = [m_proposals EXCEPT ![s] = Insert(@, d(p))]
      PROVE  SecondRoundInv'
  <2>1. /\ p \in m_proposals[s] /\ f.proposerId = s /\ p \in Proposal
    BY DEF TypeOK, ServerTypeOK
  <2>2. s = Leader
    BY <1>2, <2>1 DEF OnlyLeader
  <2>3. /\ q(p).id = p.id /\ q(p).value = p.value
        /\ q(p).numDecisionAck = p.numDecisionAck
        /\ d(p).id = p.id /\ d(p).value = p.value /\ d(p).numDecisionAck = 1
    BY <2>1 DEF Proposal
  <2>4. m_proposals[Leader] = {p} /\ proposeEvents[Leader] = 0
    BY <1>2, <2>1, <2>2 DEF OneJob
  <2>5. ASSUME NEW x \in SendDecisionMessage(s, f)
        PROVE  x.frame.type = "DECISION" /\ x.frame.proposerId = Leader
    <3>1. x.frame = [f EXCEPT !.type = "DECISION"]
      BY DEF SendDecisionMessage, Broadcast, Datagram
    <3>2. x.frame.type = "DECISION" /\ x.frame.proposerId = f.proposerId
      BY <1>3, <3>1 DEF PaxosFrame
    <3>3. QED
      BY <2>1, <2>2, <3>2
  <2> HIDE DEF q, d, known, f
  <2>6. m_proposals'[Leader] = {q(p)} \/ m_proposals'[Leader] = {d(p)}
    <3>1. \/ m_proposals'[Leader] = Insert({p}, q(p))
          \/ m_proposals'[Leader] = Insert({p}, d(p))
      BY <1>5, <2>2, <2>4, LeaderAssumption DEF TypeOK, ServerTypeOK
    <3>2. QED
      BY <2>3, <3>1 DEF Insert, Erase
  <2>7. OneJob'
    BY <1>1, <2>4, <2>6 DEF OneJob
  <2>8. \A x \in events' : x \in events \/ (x.frame.type = "DECISION"
                                             /\ x.frame.proposerId = Leader)
    BY <1>5, <2>5
  <2>9. OnlyLeader'
    <3>1. \A t \in Server \ {Leader} : m_proposals'[t] = m_proposals[t]
      BY <1>5, <2>2 DEF TypeOK, ServerTypeOK
    <3>2. \A x \in events' : x \in events \/ ProposerOf(x) = Leader
      BY <2>8 DEF ProposerOf
    <3>3. QED
      BY <1>1, <1>2, <3>1, <3>2, OnlyLeaderStays
  <2>10. AckEvent' \subseteq AckEvent
    BY <2>8 DEF AckEvent
  <2>11. \A t \in Server : Learned(t)' = Learned(t)
    BY <1>1, <1>5 DEF Learned
  <2>12. \A x \in m_proposals'[Leader] :
           \/ x.numDecisionAck <= 1
           \/ \E o \in m_proposals[Leader] :
                /\ x.id = o.id /\ x.value = o.value
                /\ x.numDecisionAck = o.numDecisionAck
    BY <2>3, <2>4, <2>6
  <2>13. QED
    BY <2>7, <2>9, <2>10, <2>11, <2>12, LeaderAssumption, NothingConfirmed DEF LearnedGrow
<1>6. \/ events' = rest /\ UNCHANGED <<m_proposals, m_decidedProposalQueue>>
      \/ \E p \in known :
           /\ UNCHANGED m_decidedProposalQueue
           /\ \/ /\ events' = rest
                 /\ m_proposals' = [m_proposals EXCEPT ![s] = Insert(@, q(p))]
              \/ /\ events' = rest \cup SendDecisionMessage(s, f)
                 /\ m_proposals' = [m_proposals EXCEPT ![s] = Insert(@, d(p))]
  BY Zenon DEF DoReceivedAcceptMessage
<1> HIDE DEF s, f, known, rest, q, d
<1>7. QED
  BY <1>4, <1>5, <1>6

(***************************************************************************)
(* A server that learns had not confirmed: the decision was not in its     *)
(* queue, and none of its acknowledgements for it is on its way.           *)
(***************************************************************************)
LEMMA ReceivedDecisionRound ==
  ASSUME TypeOK, TypeOK', Match, LearningInv, IsAsync, SecondRoundInv,
         NEW e \in events, e.at \in Server, e.frame.type = "DECISION",
         DoReceivedDecisionMessage(e)
  PROVE  SecondRoundInv'
<1> DEFINE s == e.at
           f == e.frame
           ack == [type |-> "DECISION_ACK", proposerId |-> s,
                   proposalId |-> f.proposalId, value |-> f.value,
                   acceptorId |-> 0]
           n == Datagram(f.proposerId, ack)
           v == [id |-> f.proposalId, value |-> f.value, proposer |-> f.proposerId]
<1>1. f \in PaxosFrame
  BY DEF TypeOK, SimTypeOK, Event
<1>2. /\ events' = (events \ {e}) \cup {n}
      /\ m_decidedProposalQueue' =
           [m_decidedProposalQueue EXCEPT ![s] = Push(@, v)]
      /\ UNCHANGED <<requestEvents, stopped, m_waitingProposals, m_proposals,
                     proposeEvents, decisionLog>>
  BY DEF DoReceivedDecisionMessage, proposerVars
<1>3. /\ OnlyLeader /\ OneJob /\ AcksWellFormed /\ AcksCounted /\ CompleteOnMajority
  BY DEF SecondRoundInv
<1>4. f.proposerId = Leader
  BY <1>3 DEF OnlyLeader, ProposerOf
<1>5. s # f.proposerId /\ f.proposalId \notin LearnedIds[s]
  BY DEF LearningInv, LearningOK, DecisionsOK
<1>6. v \in Decision /\ v.id = f.proposalId /\ s \in Server \ {Leader}
  BY <1>1, <1>4, <1>5 DEF PaxosFrame, Decision
<1>7. /\ n.frame.type = "DECISION_ACK" /\ n.at = Leader
      /\ n.frame.proposerId = s /\ n.frame.proposalId = f.proposalId
      /\ DecisionOf(n) = v /\ ProposerOf(n) = Leader
  BY <1>4 DEF Datagram, DecisionOf, ProposerOf
<1> HIDE DEF n, v, f, s
<1>8. /\ Learned(s)' = Learned(s) \cup {v}
      /\ \A t \in Server \ {s} : Learned(t)' = Learned(t)
  BY <1>2, <1>6, PushLearns
<1>9. LearnedGrow
  BY <1>8 DEF LearnedGrow
<1>10. AckEvent' \subseteq AckEvent \cup {n}
  BY <1>2 DEF AckEvent
<1>11. \A d \in Learned(s) : d.id # f.proposalId
  BY <1>5, <1>6 DEF LearnedIds, IdsOf
<1>12. \A x \in AckEvent :
         ~(x.frame.proposerId = s /\ x.frame.proposalId = f.proposalId)
  <2>1. \A x \in AckEvent : DecisionOf(x) \in Learned(x.frame.proposerId)
    BY <1>3 DEF AcksWellFormed
  <2>2. \A x \in AckEvent : DecisionOf(x).id = x.frame.proposalId
    BY DEF DecisionOf
  <2> HIDE DEF DecisionOf
  <2>3. QED
    BY <1>11, <2>1, <2>2
<1>13. AcksWellFormed'
  <2>1. ASSUME NEW x \in AckEvent'
        PROVE  /\ x.frame.proposerId \in Server \ {Leader}
               /\ DecisionOf(x) \in Learned(x.frame.proposerId)'
               /\ \A y \in AckEvent' :
                    (y.frame.proposerId = x.frame.proposerId
                       /\ y.frame.proposalId = x.frame.proposalId) => y = x
    <3>1. CASE x = n
      BY <1>6, <1>7, <1>8, <1>10, <1>12, <3>1
    <3>2. CASE x \in AckEvent
      BY <1>3, <1>7, <1>9, <1>10, <1>12, <3>2 DEF AcksWellFormed, LearnedGrow
    <3>3. QED
      BY <1>10, <3>1, <3>2
  <2>2. QED
    BY <2>1 DEF AcksWellFormed, DecisionOf, ProposerOf, Learned
<1>14. ASSUME NEW p \in m_proposals[Leader]
       PROVE  Confirmed(p) \subseteq Confirmed(p)'
  <2>1. \A t \in Confirmed(p) : ~AckPending(t, p.id) /\ DecisionFor(Leader, p) \in Learned(t)
    BY DEF Confirmed
  <2>2. \A t \in Confirmed(p) : ~AckPending(t, p.id)'
    <3> SUFFICES ASSUME NEW t \in Confirmed(p), AckPending(t, p.id)'
                 PROVE  FALSE
      OBVIOUS
    <3>1. PICK x \in AckEvent' : x.frame.proposerId = t /\ x.frame.proposalId = p.id
      BY DEF AckPending
    <3>2. x \notin AckEvent
      BY <2>1, <3>1 DEF AckPending
    <3>3. t = s /\ p.id = f.proposalId
      BY <1>7, <1>10, <3>1, <3>2
    <3>4. QED
      BY <1>11, <2>1, <3>3 DEF DecisionFor
  <2>3. QED
    BY <1>9, <2>2, ConfirmedStays
<1>15. AcksCounted'
  BY <1>2, <1>3, <1>14, AcksStayCounted
<1>16. CompleteOnMajority'
  BY <1>3, <1>6, <1>8, <1>9, LeaderAssumption, CompleteStays
<1>17. OnlyLeader' /\ OneJob'
  <2>1. \A x \in events' : x \in events \/ ProposerOf(x) = Leader
    BY <1>2, <1>7
  <2>2. OnlyLeader'
    BY <1>2, <1>3, <2>1, OnlyLeaderStays
  <2>3. QED
    BY <1>2, <1>3, <2>2 DEF OneJob
<1>18. QED
  BY <1>13, <1>15, <1>16, <1>17 DEF SecondRoundInv

(***************************************************************************)
(* The ack of a server is received once: the server joins the confirmed.   *)
(***************************************************************************)
LEMMA AckConfirms ==
  ASSUME TypeOK, TypeOK', Match, SecondRoundInv, IsAsync, LearnedGrow,
         NEW e \in AckEvent, AckEvent' \subseteq AckEvent \ {e},
         NEW p \in m_proposals[Leader], p.id = e.frame.proposalId
  PROVE  /\ Cardinality(Confirmed(p)') \in Nat
         /\ p.numDecisionAck + 1 <= 1 + Cardinality(Confirmed(p)')
<1> DEFINE t == e.frame.proposerId
<1>1. OnlyLeader /\ AcksWellFormed /\ AcksCounted
  BY DEF SecondRoundInv
<1>2. /\ e \in events /\ e.at = Leader /\ e.frame.type = "DECISION_ACK"
      /\ DecisionOf(e) = [id |-> e.frame.proposalId, value |-> e.frame.value,
                          proposer |-> Leader]
  BY <1>1, AckType DEF AckEvent
<1>3. DecisionFor(Leader, p) = DecisionOf(e)
  <2>1. Asked(p.id, p.value, Leader)
    BY LeaderAssumption DEF Match, ProposalsMatch
  <2>2. Asked(e.frame.proposalId, e.frame.value, Leader)
    BY <1>2 DEF Match, EventsMatch, ProposerOf
  <2>3. p.value = e.frame.value
    BY <2>1, <2>2 DEF Asked
  <2>4. QED
    BY <1>2, <2>3 DEF DecisionFor
<1>4. t \in Server \ {Leader} /\ DecisionOf(e) \in Learned(t)
  BY <1>1 DEF AcksWellFormed
<1>5. \A x \in AckEvent' : ~(x.frame.proposerId = t /\ x.frame.proposalId = p.id)
  BY <1>1 DEF AcksWellFormed
<1>6. AckPending(t, p.id) /\ ~AckPending(t, p.id)'
  BY <1>5 DEF AckPending
<1>7. Confirmed(p) \subseteq Confirmed(p)'
  <2>1. \A u \in Confirmed(p) : ~AckPending(u, p.id)'
    BY DEF Confirmed, AckPending
  <2>2. QED
    BY <2>1, ConfirmedStays
<1>8. t \notin Confirmed(p)
  BY <1>6 DEF Confirmed
<1> HIDE DEF t
<1>9. t \in Confirmed(p)'
  <2>1. DecisionFor(Leader, p) \in Learned(t)'
    BY <1>3, <1>4 DEF LearnedGrow
  <2>2. QED
    BY <1>4, <1>6, <2>1 DEF Confirmed, DecisionFor
<1>10. Confirmed(p) \in SUBSET Server /\ Confirmed(p)' \in SUBSET Server
  BY DEF Confirmed
<1>11. /\ Cardinality(Confirmed(p)) \in Nat /\ Cardinality(Confirmed(p)') \in Nat
       /\ Cardinality(Confirmed(p)) + 1 <= Cardinality(Confirmed(p)')
  BY <1>7, <1>8, <1>9, <1>10, OneMoreServer
<1>12. p.numDecisionAck <= 1 + Cardinality(Confirmed(p))
  BY <1>1 DEF AcksCounted
<1>13. p.numDecisionAck \in Nat
  BY LeaderAssumption DEF TypeOK, ServerTypeOK, Proposal
<1>14. QED
  BY <1>11, <1>12, <1>13

\* The confirmed and the leader are a majority when the count is.
LEMMA ConfirmedIsMajority ==
  ASSUME LearnedGrow, NEW p, NEW v, v = DecisionFor(Leader, p), v \in Learned(Leader)',
         NEW n \in Nat, EnoughVotes(n),
         Cardinality(Confirmed(p)') \in Nat, n <= 1 + Cardinality(Confirmed(p)')
  PROVE  2 * Cardinality({s \in Server : v \in Learned(s)'}) > NumNodes
<1> DEFINE C == Confirmed(p)'
           T == {s \in Server : v \in Learned(s)'}
<1>1. /\ C \in SUBSET Server /\ T \in SUBSET Server /\ C \subseteq T
      /\ Leader \in T /\ Leader \notin C
  BY LeaderAssumption DEF Confirmed, DecisionFor
<1>2. n <= 1 + Cardinality(C)
  OBVIOUS
<1> HIDE DEF C, T
<1>3. /\ Cardinality(C) \in Nat /\ Cardinality(T) \in Nat
      /\ Cardinality(C) + 1 <= Cardinality(T)
  BY <1>1, OneMoreServer
<1>4. n > NumNodes \div 2 /\ NumNodes \in Nat
  BY ServersFinite DEF EnoughVotes
<1>5. 2 * Cardinality(T) > NumNodes
  BY <1>2, <1>3, <1>4
<1>6. QED
  BY <1>5 DEF T

\* The leader counts an acknowledgement, which may complete its proposal.
LEMMA ReceivedDecisionAckRound ==
  ASSUME TypeOK, TypeOK', Match, LearningInv, SecondRoundInv,
         NEW e \in events, e.at \in Server, e.frame.type = "DECISION_ACK",
         DoReceivedDecisionAckMessage(e)
  PROVE  SecondRoundInv'
<1> DEFINE s == e.at
           known == {p \in m_proposals[s] : p.id = e.frame.proposalId}
           rest == events \ {e}
           q(p) == [p EXCEPT !.numDecisionAck = @ + 1]
<1>1. IsAsync /\ UNCHANGED <<requestEvents, stopped, decisionLog>>
  BY DEF DoReceivedDecisionAckMessage
<1>2. /\ OnlyLeader /\ OneJob /\ AcksWellFormed /\ AcksCounted /\ CompleteOnMajority
  BY <1>1 DEF SecondRoundInv
<1>3. s = Leader /\ e \in AckEvent
  BY <1>2 DEF OnlyLeader, ProposerOf, AckEvent
<1>4. CASE events' = rest /\ UNCHANGED <<proposerVars, m_decidedProposalQueue>>
  <2>1. AckEvent' \subseteq AckEvent
    BY <1>4 DEF AckEvent
  <2>2. \A t \in Server : Learned(t)' = Learned(t)
    BY <1>1, <1>4 DEF Learned
  <2>3. QED
    BY <1>1, <1>4, <2>1, <2>2, LeaderAssumption, LeaderRests DEF LearnedGrow, proposerVars
<1>5. ASSUME NEW p \in known
      PROVE  /\ p \in m_proposals[Leader] /\ p \in Proposal /\ p.id = e.frame.proposalId
             /\ m_proposals[Leader] = {p} /\ proposeEvents[Leader] = 0
             /\ q(p).id = p.id /\ q(p).value = p.value
             /\ q(p).numDecisionAck = p.numDecisionAck + 1
  <2>1. p \in m_proposals[Leader] /\ p.id = e.frame.proposalId
    BY <1>3
  <2>2. p \in Proposal
    BY <2>1, LeaderAssumption DEF TypeOK, ServerTypeOK
  <2>3. m_proposals[Leader] = {p} /\ proposeEvents[Leader] = 0
    BY <1>2, <2>1 DEF OneJob
  <2>4. QED
    BY <2>1, <2>2, <2>3 DEF Proposal
\* One acknowledgement more.
<1>6. ASSUME NEW p \in known, events' = rest,
             m_proposals' = [m_proposals EXCEPT ![s] = Insert(@, q(p))],
             UNCHANGED <<m_waitingProposals, m_leaderState, proposeEvents,
                         m_decidedProposalQueue>>
      PROVE  SecondRoundInv'
  <2> DEFINE n == q(p)
  <2>1. /\ p \in m_proposals[Leader] /\ p.id = e.frame.proposalId
        /\ m_proposals[Leader] = {p} /\ proposeEvents[Leader] = 0
        /\ n.id = p.id /\ n.value = p.value
        /\ n.numDecisionAck = p.numDecisionAck + 1
    BY <1>5
  <2>2. AckEvent' \subseteq AckEvent \ {e}
    BY <1>6 DEF AckEvent
  <2>3. \A t \in Server : Learned(t)' = Learned(t)
    BY <1>1, <1>6 DEF Learned
  <2> HIDE DEF n
  <2>4. m_proposals'[Leader] = {n}
    <3>1. m_proposals'[Leader] = Insert({p}, n)
      BY <1>3, <1>6, <2>1, LeaderAssumption DEF TypeOK, ServerTypeOK, n
    <3>2. QED
      BY <2>1, <3>1 DEF Insert, Erase
  <2>5. OneJob'
    BY <1>6, <2>1, <2>4 DEF OneJob
  <2>6. OnlyLeader'
    <3>1. \A t \in Server \ {Leader} : m_proposals'[t] = m_proposals[t]
      BY <1>3, <1>6 DEF TypeOK, ServerTypeOK
    <3>2. QED
      BY <1>1, <1>2, <1>6, <3>1, OnlyLeaderStays
  <2>7. p.numDecisionAck + 1 <= 1 + Cardinality(Confirmed(p)')
    BY <1>1, <1>3, <2>1, <2>2, <2>3, AckConfirms DEF LearnedGrow
  <2>8. Confirmed(n)' = Confirmed(p)'
    BY <2>1 DEF Confirmed, DecisionFor
  <2>9. n.numDecisionAck <= 1 + Cardinality(Confirmed(n)')
    BY <2>1, <2>7, <2>8
  <2>10. AcksCounted'
    BY <1>2, <2>4, <2>9, AcksStayCounted
  <2>11. AcksWellFormed'
    BY <1>2, <2>2, <2>3, AcksStayWellFormed DEF LearnedGrow
  <2>12. CompleteOnMajority'
    BY <1>1, <1>2, <2>3, LeaderAssumption, CompleteStays DEF LearnedGrow
  <2>13. QED
    BY <2>5, <2>6, <2>10, <2>11, <2>12 DEF SecondRoundInv
\* The proposal is complete, and the next one may be made.
<1>7. ASSUME NEW p \in known, EnoughVotes(q(p).numDecisionAck),
             m_decidedProposalQueue' =
               [m_decidedProposalQueue EXCEPT ![s] =
                  Push(@, [id |-> p.id, value |-> p.value, proposer |-> s])],
             AsyncPropose(s, Erase(m_proposals[s], p.id), rest, proposeEvents[s])
      PROVE  SecondRoundInv'
  <2> DEFINE v == DecisionFor(Leader, p)
             k == p.numDecisionAck + 1
  <2>1. /\ p \in m_proposals[Leader] /\ p \in Proposal /\ p.id = e.frame.proposalId
        /\ m_proposals[Leader] = {p} /\ proposeEvents[Leader] = 0
        /\ q(p).numDecisionAck = k
    BY <1>5
  <2>2. v \in Decision
    BY <2>1, LeaderAssumption DEF DecisionFor, Proposal, Decision
  <2>3. k \in Nat /\ EnoughVotes(k)
    BY <1>7, <2>1 DEF Proposal
  <2>4. m_decidedProposalQueue' = [m_decidedProposalQueue EXCEPT ![Leader] = Push(@, v)]
    BY <1>3, <1>7 DEF DecisionFor
  <2>5. AsyncPropose(Leader, {}, rest, 0)
    <3>1. Erase(m_proposals[s], p.id) = {}
      BY <1>3, <2>1 DEF Erase
    <3>2. QED
      BY <1>3, <1>7, <2>1, <3>1
  <2> HIDE DEF q, known, s, v, k
  <2>6. /\ Learned(Leader)' = Learned(Leader) \cup {v}
        /\ \A t \in Server \ {Leader} : Learned(t)' = Learned(t)
    BY <1>1, <2>2, <2>4, LeaderAssumption, PushLearns
  <2>7. LearnedGrow
    BY <2>6 DEF LearnedGrow
  <2>8. /\ OnlyLeader' /\ OneJob'
        /\ \A x \in m_proposals'[Leader] : x.numDecisionAck = 1
        /\ \A x \in events' : x.frame.type = "DECISION_ACK" => x \in rest
    BY <1>1, <1>2, <2>5, LeaderProposes
  <2>9. AckEvent' \subseteq AckEvent \ {e}
    BY <2>8 DEF AckEvent
  <2>10. AcksWellFormed'
    BY <1>2, <2>7, <2>9, AcksStayWellFormed
  <2>11. AcksCounted'
    BY <1>2, <2>8, AcksStayCounted
  <2>12. /\ Cardinality(Confirmed(p)') \in Nat
         /\ k <= 1 + Cardinality(Confirmed(p)')
    BY <1>1, <1>3, <2>1, <2>7, <2>9, AckConfirms DEF k
  <2>13. 2 * Cardinality({t \in Server : v \in Learned(t)'}) > NumNodes
    BY <2>3, <2>6, <2>7, <2>12, ConfirmedIsMajority DEF v
  <2>14. CompleteOnMajority'
    BY <1>1, <1>2, <2>6, <2>7, <2>13, CompleteStays
  <2>15. QED
    BY <2>8, <2>10, <2>11, <2>14 DEF SecondRoundInv
<1>8. \/ events' = rest /\ UNCHANGED <<proposerVars, m_decidedProposalQueue>>
      \/ \E p \in known :
           \/ /\ events' = rest
              /\ m_proposals' = [m_proposals EXCEPT ![s] = Insert(@, q(p))]
              /\ UNCHANGED <<m_waitingProposals, m_leaderState, proposeEvents,
                             m_decidedProposalQueue>>
           \/ /\ EnoughVotes(q(p).numDecisionAck)
              /\ m_decidedProposalQueue' =
                   [m_decidedProposalQueue EXCEPT ![s] =
                      Push(@, [id |-> p.id, value |-> p.value, proposer |-> s])]
              /\ AsyncPropose(s, Erase(m_proposals[s], p.id), rest,
                              proposeEvents[s])
  BY Zenon DEF DoReceivedDecisionAckMessage
<1> HIDE DEF s, known, rest, q
<1>9. QED
  BY <1>4, <1>6, <1>7, <1>8
-------------------------------------------------------------------------------
(***************************************************************************)
(* The invariant.                                                          *)
(***************************************************************************)
LEMMA SecondRoundInit == Init => SecondRoundInv
<1> SUFFICES ASSUME Init, IsAsync
             PROVE  /\ OnlyLeader /\ OneJob /\ AcksWellFormed /\ AcksCounted
                    /\ CompleteOnMajority
  BY DEF SecondRoundInv
<1>1. requestEvents = {} /\ events = {}
  BY DEF Init, SimInit
<1>2. ASSUME NEW s \in Server
      PROVE  /\ m_waitingProposals[s] = <<>> /\ m_proposals[s] = {}
             /\ m_decidedProposalQueue[s] = <<>> /\ decisionLog[s] = <<>>
             /\ proposeEvents[s] = IF s = Leader THEN 1 ELSE 0
  BY DEF Init, ServerInit
<1>3. OnlyLeader
  BY <1>1, <1>2 DEF OnlyLeader
<1>4. OneJob
  BY <1>2, LeaderAssumption DEF OneJob
<1>5. AcksWellFormed
  BY <1>1 DEF AcksWellFormed, AckEvent
<1>6. AcksCounted
  BY <1>2, LeaderAssumption DEF AcksCounted
<1>7. Learned(Leader) = {}
  BY <1>2, LeaderAssumption DEF Learned, ToSet
<1>8. QED
  BY <1>3, <1>4, <1>5, <1>6, <1>7 DEF CompleteOnMajority

\* Every step keeps the invariant of the second round.
LEMMA SecondRoundStep ==
  TypeOK /\ Match /\ LearningInv /\ SecondRoundInv /\ [Next]_vars => SecondRoundInv'
<1> SUFFICES ASSUME TypeOK, Match, LearningInv, SecondRoundInv, [Next]_vars, IsAsync
             PROVE  SecondRoundInv'
  BY DEF SecondRoundInv
<1>1. TypeOK' /\ LearnedGrow
  BY TypeStep, LearnedStays DEF LearnedGrow, LearningInv
<1>2. ASSUME NEW r \in requestEvents,
             ReceiveRequest(r) \/ CreateProposalFromRequest(r)
      PROVE  SecondRoundInv'
  BY <1>1, <1>2, ReceiveRequestRound, CreateProposalRound
<1>3. ASSUME NEW s \in Server, DoAsyncPropose(s)
      PROVE  SecondRoundInv'
  BY <1>1, <1>3, AsyncProposeRound
<1>4. ASSUME NEW e \in events,
             \/ e.frame.type = "PROPOSAL" /\ DoReceivedProposalMessage(e)
             \/ SendAcceptMessage(e)
      PROVE  SecondRoundInv'
  BY <1>1, <1>4, VoteRound
<1>5. ASSUME NEW e \in events, e.at \in Server,
             \/ e.frame.type = "ACCEPT" /\ DoReceivedAcceptMessage(e)
             \/ e.frame.type = "DECISION" /\ DoReceivedDecisionMessage(e)
             \/ e.frame.type = "DECISION_ACK" /\ DoReceivedDecisionAckMessage(e)
      PROVE  SecondRoundInv'
  BY <1>1, <1>5, ReceivedAcceptRound, ReceivedDecisionRound, ReceivedDecisionAckRound
<1>6. ASSUME NEW s \in Server, StopApplication(s)
      PROVE  SecondRoundInv'
  <2>1. /\ decisionLog' = [decisionLog EXCEPT ![s] = m_decidedProposalQueue[s]]
        /\ m_decidedProposalQueue' = [m_decidedProposalQueue EXCEPT ![s] = <<>>]
        /\ stopped \subseteq stopped'
        /\ UNCHANGED <<requestEvents, events, m_waitingProposals, m_proposals,
                       proposeEvents>>
    BY <1>6 DEF StopApplication, LoggedDecisions, proposerVars
  <2>2. ToSet(<<>>) = {}
    BY DEF ToSet
  <2>3. Learned(Leader)' \subseteq Learned(Leader)
    BY <2>1, <2>2, LeaderAssumption DEF Learned, TypeOK, ServerTypeOK
  <2>4. AckEvent' = AckEvent
    BY <2>1 DEF AckEvent
  <2>5. QED
    BY <1>1, <2>1, <2>3, <2>4, LeaderRests
<1>7. ASSUME SendRequest, UNCHANGED serverVars
      PROVE  SecondRoundInv'
  BY <1>1, <1>7, SendRequestRound
<1>8. ASSUME events' \subseteq events, requestEvents' \subseteq requestEvents,
             UNCHANGED <<serverVars, stopped>>
      PROVE  SecondRoundInv'
  <2>1. UNCHANGED <<m_waitingProposals, m_proposals, proposeEvents,
                    m_decidedProposalQueue, decisionLog>>
    BY <1>8 DEF serverVars, proposerVars, learnerVars
  <2>2. Learned(Leader)' = Learned(Leader)
    BY <2>1 DEF Learned
  <2>3. AckEvent' \subseteq AckEvent
    BY <1>8 DEF AckEvent
  <2>4. QED
    BY <1>1, <1>8, <2>1, <2>2, <2>3, LeaderRests
<1>9. QED
  <2>1. CASE UNCHANGED vars
    BY <2>1, <1>8 DEF vars, simVars
  <2>2. CASE \E e \in events : DropMessage(e) /\ UNCHANGED <<serverVars, clientVars>>
    BY <2>2, <1>8 DEF DropMessage
  <2>3. CASE \E r \in requestEvents :
               DropRequest(r) /\ UNCHANGED <<serverVars, clientVars>>
    BY <2>3, <1>8 DEF DropRequest
  <2>4. ~(\E s \in Server : DoSyncPropose(s))
    BY DEF DoSyncPropose
  <2>5. QED
    BY <1>2, <1>3, <1>4, <1>5, <1>6, <1>7, <2>1, <2>2, <2>3, <2>4, StepCases

\* The invariant of the second round holds always.
LEMMA SecondRoundCorrect == Spec => []SecondRoundInv
<1>1. Init => SecondRoundInv
  BY SecondRoundInit
<1>2. TypeOK /\ Match /\ LearningInv /\ SecondRoundInv /\ [Next]_vars => SecondRoundInv'
  BY SecondRoundStep
<1>3. QED
  BY <1>1, <1>2, TypeCorrect, LearningCorrect, PTL DEF Spec

(***************************************************************************)
(* The leader never has two proposals, or a proposal and a poll: the last  *)
(* ack completes the proposal and starts the next, and an ack that comes   *)
(* later finds no proposal and starts nothing.                             *)
(***************************************************************************)
THEOREM OneProposalCorrect == Spec => []OneProposalAtATime
<1>1. SecondRoundInv => OneProposalAtATime
  <2> SUFFICES ASSUME SecondRoundInv, IsAsync
               PROVE  /\ proposeEvents[Leader] + Cardinality(m_proposals[Leader]) <= 1
                      /\ proposeEvents[Leader] + Cardinality(m_proposals[Leader]) = 0
                           => stopped # {}
    BY DEF OneProposalAtATime
  <2>1. OneJob
    BY DEF SecondRoundInv
  <2>2. Cardinality({}) = 0
    BY FS_EmptySet
  <2>3. \A p : Cardinality({p}) = 1
    BY FS_Singleton
  <2> DEFINE jobs == Cardinality(m_proposals[Leader])
             polls == proposeEvents[Leader]
  <2>4. \/ polls = 1 /\ jobs = 0
        \/ polls = 0 /\ jobs = 1
        \/ polls = 0 /\ jobs = 0 /\ stopped # {}
    <3>1. CASE polls = 1 /\ m_proposals[Leader] = {}
      BY <2>2, <3>1
    <3>2. CASE polls = 0 /\ \E p \in m_proposals[Leader] : m_proposals[Leader] = {p}
      BY <2>3, <3>2
    <3>3. CASE polls = 0 /\ m_proposals[Leader] = {} /\ stopped # {}
      BY <2>2, <3>3
    <3>4. QED
      BY <2>1, <3>1, <3>2, <3>3 DEF OneJob
  <2> HIDE DEF jobs, polls
  <2>5. polls + jobs <= 1 /\ (polls + jobs = 0 => stopped # {})
    BY <2>4
  <2>6. QED
    BY <2>5 DEF jobs, polls
<1>2. QED
  BY <1>1, SecondRoundCorrect, PTL

(***************************************************************************)
(* When the leader counts a decision as complete, a majority has learned   *)
(* it: the counter m_numDecisionAck, which does not know whom it counted,  *)
(* counts only servers that have learned, and none of them twice.          *)
(***************************************************************************)
THEOREM CompleteOnMajorityCorrect == Spec => []CompleteOnMajority
<1>1. SecondRoundInv => CompleteOnMajority
  BY DEF SecondRoundInv, CompleteOnMajority
<1>2. QED
  BY <1>1, SecondRoundCorrect, PTL
================================================================================
