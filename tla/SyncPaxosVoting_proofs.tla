------------------------ MODULE SyncPaxosVoting_proofs -------------------------
(***************************************************************************)
(* Every decision has a majority of votes.  The invariant is VotingInv:    *)
(* the votes on their way are of one per acceptor and proposal, a vote     *)
(* counted is one recorded, and a request that is not proposed yet has no  *)
(* votes.                                                                  *)
(***************************************************************************)
EXTENDS SyncPaxosAgreement_proofs

(***************************************************************************)
(* Sets of servers and their sizes.                                        *)
(***************************************************************************)
LEMMA ServersFinite ==
  /\ IsFiniteSet(Server)
  /\ NumNodes \in Nat
<1>1. NumNodes \in Nat /\ NumNodes - 1 \in Int /\ 0 \in Int
  BY NumNodesAssumption
<1>2. QED
  BY <1>1, FS_Interval DEF Server

\* Sets of servers are finite, and a larger one has no fewer.
LEMMA SizeOfServers ==
  ASSUME NEW S \in SUBSET Server, NEW T \in SUBSET Server, S \subseteq T
  PROVE  /\ IsFiniteSet(S) /\ IsFiniteSet(T)
         /\ Cardinality(S) \in Nat /\ Cardinality(T) \in Nat
         /\ Cardinality(S) <= Cardinality(T)
<1>1. IsFiniteSet(T)
  BY ServersFinite, FS_Subset
<1>2. IsFiniteSet(S) /\ Cardinality(S) <= Cardinality(T)
  BY <1>1, FS_Subset
<1>3. QED
  BY <1>1, <1>2, FS_CardinalityType

\* A set with one server more has one vote more.
LEMMA OneMoreServer ==
  ASSUME NEW S \in SUBSET Server, NEW T \in SUBSET Server, NEW x \in T,
         S \subseteq T, x \notin S
  PROVE  /\ Cardinality(S) \in Nat /\ Cardinality(T) \in Nat
         /\ Cardinality(S) + 1 <= Cardinality(T)
<1>1. IsFiniteSet(S) /\ Cardinality(S) \in Nat /\ Cardinality(T) \in Nat
  BY SizeOfServers
<1>2. Cardinality(S \cup {x}) = Cardinality(S) + 1
  BY <1>1, FS_AddElement
<1>3. Cardinality(S \cup {x}) <= Cardinality(T)
  BY SizeOfServers
<1>4. QED
  BY <1>1, <1>2, <1>3
-------------------------------------------------------------------------------
(***************************************************************************)
(* What an acceptor has recorded it keeps, so that majorities stay.        *)
(***************************************************************************)
AcceptedGrows ==
  \A t \in Server : m_acceptedProposals[t] \subseteq m_acceptedProposals'[t]

\* A majority that grows stays one.
LEMMA MajorityStays ==
  ASSUME AcceptedGrows, NEW d, d.proposer \in Server, Majority(Voters(d))
  PROVE  Majority(Voters(d))'
<1> DEFINE S == {s \in Server : d \in m_acceptedProposals[s]}
           T == {s \in Server : d \in m_acceptedProposals'[s]}
<1>1. S \subseteq T
  BY DEF AcceptedGrows
<1>2. {d.proposer} \cup S \in SUBSET Server /\ {d.proposer} \cup T \in SUBSET Server
  OBVIOUS
<1>3. 2 * Cardinality({d.proposer} \cup S) > NumNodes
  BY DEF Majority, Voters
<1>4. 2 * Cardinality({d.proposer} \cup T) > NumNodes
  <2> DEFINE A == {d.proposer} \cup S
             B == {d.proposer} \cup T
  <2>1. A \in SUBSET Server /\ B \in SUBSET Server /\ A \subseteq B
    BY <1>1, <1>2
  <2> HIDE DEF A, B
  <2>2. /\ Cardinality(A) \in Nat /\ Cardinality(B) \in Nat
        /\ Cardinality(A) <= Cardinality(B)
    BY <2>1, SizeOfServers
  <2>3. 2 * Cardinality(A) > NumNodes
    BY <1>3 DEF A
  <2>4. 2 * Cardinality(B) > NumNodes
    BY <2>2, <2>3, ServersFinite
  <2>5. QED
    BY <2>4 DEF B
<1>5. QED
  BY <1>4 DEF Majority, Voters

\* A vote once cast stays cast, unless it is asked for again.
LEMMA CastStays ==
  ASSUME AcceptedGrows, NEW s \in Server, NEW p,
         \A t \in Server : VotePending(t, p.id)' => VotePending(t, p.id)
  PROVE  /\ Cast(s, p) \subseteq Cast(s, p)'
         /\ Cast(s, p) \in SUBSET Server /\ Cast(s, p)' \in SUBSET Server
         /\ Cardinality(Cast(s, p)) \in Nat /\ Cardinality(Cast(s, p)') \in Nat
         /\ Cardinality(Cast(s, p)) <= Cardinality(Cast(s, p)')
<1>1. Cast(s, p) \subseteq Cast(s, p)'
  BY DEF Cast, AcceptedGrows, DecisionFor
<1>2. Cast(s, p) \in SUBSET Server /\ Cast(s, p)' \in SUBSET Server
  BY DEF Cast
<1>3. QED
  BY <1>1, <1>2, SizeOfServers
-------------------------------------------------------------------------------
(***************************************************************************)
(* The parts of VotingInv, each after a step that adds no vote.            *)
(***************************************************************************)
LEMMA RequestsStayFresh ==
  ASSUME RequestsFresh, VoteEvent' \subseteq VoteEvent,
         requestEvents' \subseteq requestEvents, UNCHANGED m_waitingProposals
  PROVE  RequestsFresh'
<1>1. ASSUME NEW i, NoVoteOut(i)
      PROVE  NoVoteOut(i)'
  BY <1>1 DEF NoVoteOut
<1>2. QED
  BY <1>1 DEF RequestsFresh

\* WaitingFresh, when no vote is added and the queues are as they were.
LEMMA WaitingStaysFresh ==
  ASSUME WaitingFresh, VoteEvent' \subseteq VoteEvent,
         UNCHANGED m_waitingProposals
  PROVE  WaitingFresh'
<1>1. ASSUME NEW i, NoVoteOut(i)
      PROVE  NoVoteOut(i)'
  BY <1>1 DEF NoVoteOut
<1>2. QED
  BY <1>1 DEF WaitingFresh

\* VotesWellFormed, when no vote is added.
LEMMA VotesStayWellFormed ==
  ASSUME VotesWellFormed, AcceptedGrows, VoteEvent' \subseteq VoteEvent,
         \A e \in VoteEvent : VoterOf(e) \in Server
  PROVE  VotesWellFormed'
<1> SUFFICES ASSUME NEW e \in VoteEvent'
             PROVE  /\ VoterOf(e) # e.frame.proposerId
                    /\ e.frame.type = "ACCEPT" => e.at = e.frame.proposerId
                    /\ (e.frame.type = "ACCEPT" \/ e.fn = "SendAcceptMessage")
                         => DecisionOf(e) \in m_acceptedProposals'[VoterOf(e)]
                    /\ \A x \in VoteEvent' :
                         (VoterOf(x) = VoterOf(e)
                            /\ x.frame.proposalId = e.frame.proposalId) => x = e
  BY DEF VotesWellFormed, VoterOf, DecisionOf, ProposerOf
<1>1. e \in VoteEvent /\ VoterOf(e) \in Server
  OBVIOUS
<1>2. QED
  BY <1>1 DEF VotesWellFormed, AcceptedGrows

(***************************************************************************)
(* Every proposal of the next state is new, has its count from before, or  *)
(* has a count that is right.                                              *)
(***************************************************************************)
LEMMA VotesStayCast ==
  ASSUME VotesAreCast, AcceptedGrows, TypeOK, TypeOK',
         \A t \in Server : \A p \in m_proposals'[t] :
           \/ p.numAck <= 1
           \/ p.numAck <= 1 + Cardinality(Cast(t, p)')
           \/ /\ p \in m_proposals[t]
              /\ \A u \in Server : VotePending(u, p.id)' => VotePending(u, p.id)
  PROVE  VotesAreCast'
<1> SUFFICES ASSUME NEW t \in Server, NEW p \in m_proposals'[t]
             PROVE  p.numAck <= 1 + Cardinality(Cast(t, p)')
  BY DEF VotesAreCast
<1>1. p.numAck \in Nat
  BY DEF TypeOK, ServerTypeOK, Proposal
<1>2. Cast(t, p)' \in SUBSET Server
  BY DEF Cast
<1>3. Cardinality(Cast(t, p)') \in Nat
  BY <1>2, SizeOfServers
<1>4. CASE p.numAck <= 1
  BY <1>1, <1>3, <1>4
<1>5. CASE /\ p \in m_proposals[t]
           /\ \A u \in Server : VotePending(u, p.id)' => VotePending(u, p.id)
  <2>1. /\ Cardinality(Cast(t, p)) \in Nat
        /\ Cardinality(Cast(t, p)) <= Cardinality(Cast(t, p)')
    BY <1>5, CastStays
  <2>2. p.numAck <= 1 + Cardinality(Cast(t, p))
    BY <1>5 DEF VotesAreCast
  <2>3. QED
    BY <1>1, <1>3, <2>1, <2>2
<1>6. QED
  BY <1>4, <1>5

\* A step takes no vote back.
LEMMA VotePendingShrinks ==
  ASSUME VoteEvent' \subseteq VoteEvent, NEW u, NEW i, VotePending(u, i)'
  PROVE  VotePending(u, i)
  BY DEF VotePending, VoterOf

\* AcksFollowDecisions, when new DECISION_ACKs are of decisions of a majority.
LEMMA AcksStillFollow ==
  ASSUME AcksFollowDecisions, AcceptedGrows, TypeOK,
         \A e \in events' :
           e.frame.type = "DECISION_ACK"
             => e \in events \/ Majority(Voters(DecisionOf(e)))'
  PROVE  AcksFollowDecisions'
<1> SUFFICES ASSUME NEW e \in events', e.frame.type = "DECISION_ACK"
             PROVE  Majority(Voters(DecisionOf(e)))'
  BY DEF AcksFollowDecisions
<1>1. CASE e \in events
  <2> DEFINE d == DecisionOf(e)
  <2>1. d.proposer \in Server
    BY <1>1 DEF DecisionOf, ProposerOf, TypeOK, SimTypeOK, Event
  <2>2. Majority(Voters(d))
    BY <1>1 DEF AcksFollowDecisions
  <2>3. d = DecisionOf(e)'
    BY DEF DecisionOf, ProposerOf
  <2> HIDE DEF d
  <2>4. Majority(Voters(d))'
    BY <2>1, <2>2, MajorityStays
  <2>5. QED
    BY <2>3, <2>4 DEF Majority, Voters
<1>2. QED
  BY <1>1

\* Voters are servers.
LEMMA VoterType ==
  ASSUME TypeOK, NEW e \in VoteEvent
  PROVE  /\ VoterOf(e) \in Server
         /\ e \in events /\ e.frame \in PaxosFrame /\ e.at \in Server
  BY DEF TypeOK, SimTypeOK, Event, PaxosFrame, VoteEvent, VoterOf

\* The proposer of a decision is a server.
LEMMA DecidedType ==
  ASSUME TypeOK, NEW d \in Decided
  PROVE  d.proposer \in Server
<1>1. ASSUME NEW s \in Server, d \in Learned(s)
      PROVE  d.proposer \in Server
  <2>1. /\ m_decidedProposalQueue[s] \in Seq(Decision)
        /\ decisionLog[s] \in Seq(Decision)
    BY DEF TypeOK, ServerTypeOK
  <2>2. d \in Decision
    BY <1>1, <2>1 DEF Learned, ToSet
  <2>3. QED
    BY <2>2 DEF Decision
<1>2. ASSUME NEW s \in Server, d \in Taken(s)
      PROVE  d.proposer \in Server
  BY <1>2 DEF Taken, DecisionFor
<1>3. CASE d \in Announced
  BY <1>3 DEF Announced, TypeOK, SimTypeOK, Event, PaxosFrame
<1>4. QED
  BY <1>1, <1>2, <1>3 DEF Decided

\* Decided are the decisions of before and, of a majority, the new ones.
LEMMA DecidedStays ==
  ASSUME TypeOK, AcceptedGrows, DecidedByMajority, NEW N,
         \A d \in N : Majority(Voters(d))',
         \A s \in Server : /\ Learned(s)' \subseteq Decided \cup N
                           /\ Taken(s)' \subseteq Decided \cup N,
         Announced' \subseteq Decided \cup N
  PROVE  DecidedByMajority'
<1> SUFFICES ASSUME NEW d \in Decided'
             PROVE  Majority(Voters(d))'
  BY DEF DecidedByMajority
<1>1. d \in Decided \cup N
  BY DEF Decided
<1>2. CASE d \in Decided
  <2>1. d.proposer \in Server
    BY <1>2, DecidedType
  <2>2. Majority(Voters(d))
    BY <1>2 DEF DecidedByMajority
  <2>3. QED
    BY <2>1, <2>2, MajorityStays
<1>3. QED
  BY <1>1, <1>2
-------------------------------------------------------------------------------
(***************************************************************************)
(* A vote goes on: the acceptor has recorded, or sends its ACCEPT.         *)
(***************************************************************************)
LEMMA VoteMoves ==
  ASSUME TypeOK, TypeOK', RequestsFresh, WaitingFresh, VotesWellFormed,
         VotesAreCast, AcceptedGrows,
         NEW e \in VoteEvent, NEW n, events' = (events \ {e}) \cup {n},
         n.frame.type \in {"PROPOSAL", "ACCEPT"}, VoterOf(n) = VoterOf(e),
         n.frame.proposalId = e.frame.proposalId,
         n.frame.proposerId = e.frame.proposerId,
         n.frame.type = "ACCEPT" => n.at = n.frame.proposerId,
         DecisionOf(n) \in m_acceptedProposals'[VoterOf(n)],
         UNCHANGED <<requestEvents, m_waitingProposals, m_proposals>>
  PROVE  RequestsFresh' /\ WaitingFresh' /\ VotesWellFormed' /\ VotesAreCast'
<1>1. VoteEvent' = (VoteEvent \ {e}) \cup {n}
  BY DEF VoteEvent
<1>2. ASSUME NEW i
      PROVE  NoVoteOut(i)' <=> NoVoteOut(i)
  BY <1>1 DEF NoVoteOut
<1>3. RequestsFresh' /\ WaitingFresh'
  BY <1>2 DEF RequestsFresh, WaitingFresh
<1>4. ASSUME NEW u \in Server, NEW i, VotePending(u, i)'
      PROVE  VotePending(u, i)
  <2>1. PICK x \in VoteEvent' : VoterOf(x) = u /\ x.frame.proposalId = i
    BY <1>4 DEF VotePending, VoterOf
  <2>2. QED
    BY <1>1, <2>1 DEF VotePending
<1>5. VotesAreCast'
  BY <1>4, VotesStayCast
<1>6. VotesWellFormed'
  <2> SUFFICES ASSUME NEW x \in VoteEvent'
               PROVE  /\ VoterOf(x) # x.frame.proposerId
                      /\ x.frame.type = "ACCEPT" => x.at = x.frame.proposerId
                      /\ (x.frame.type = "ACCEPT" \/ x.fn = "SendAcceptMessage")
                           => DecisionOf(x) \in m_acceptedProposals'[VoterOf(x)]
                      /\ \A y \in VoteEvent' :
                           (VoterOf(y) = VoterOf(x)
                              /\ y.frame.proposalId = x.frame.proposalId) => y = x
    BY DEF VotesWellFormed, VoterOf, DecisionOf, ProposerOf
  <2>1. CASE x = n
    BY <1>1, <2>1 DEF VotesWellFormed
  <2>2. CASE x \in VoteEvent /\ x # e
    <3>1. VoterOf(x) \in Server
      BY <2>2, VoterType
    <3>2. QED
      BY <1>1, <2>2, <3>1 DEF VotesWellFormed, AcceptedGrows
  <2>3. QED
    BY <1>1, <2>1, <2>2
<1>7. QED
  BY <1>3, <1>5, <1>6

(***************************************************************************)
(* A vote is counted: the acceptor is one of those that have cast theirs,  *)
(* and was not before.                                                     *)
(***************************************************************************)
LEMMA VoteCounted ==
  ASSUME TypeOK, Match, VotesWellFormed, VotesAreCast, AcceptedGrows,
         NEW e \in VoteEvent, e.frame.type = "ACCEPT",
         VoteEvent' \subseteq VoteEvent \ {e},
         NEW s \in Server, s = e.frame.proposerId,
         NEW p \in m_proposals[s], p.id = e.frame.proposalId
  PROVE  /\ Cardinality(Cast(s, p)') \in Nat
         /\ p.numAck \in Nat
         /\ p.numAck + 1 <= 1 + Cardinality(Cast(s, p)')
         /\ DecisionFor(s, p) = DecisionOf(e)
<1> DEFINE voter == VoterOf(e)
<1>1. voter \in Server /\ e \in events
  BY VoterType
<1>2. DecisionFor(s, p) = DecisionOf(e)
  <2>1. Asked(p.id, p.value, s)
    BY DEF Match, ProposalsMatch
  <2>2. Asked(e.frame.proposalId, e.frame.value, s)
    BY <1>1 DEF Match, EventsMatch, ProposerOf
  <2>3. p.value = e.frame.value
    BY <2>1, <2>2 DEF Asked
  <2>4. QED
    BY <2>3 DEF DecisionFor, DecisionOf, ProposerOf
<1>3. voter # s /\ DecisionFor(s, p) \in m_acceptedProposals[voter]
  BY <1>2 DEF VotesWellFormed
<1>4. VotePending(voter, p.id)
  BY DEF VotePending
<1>5. ~VotePending(voter, p.id)'
  <2>1. SUFFICES ASSUME NEW x \in VoteEvent', VoterOf(x) = voter,
                        x.frame.proposalId = p.id
                 PROVE  FALSE
    BY DEF VotePending, VoterOf
  <2>2. x \in VoteEvent /\ x # e
    OBVIOUS
  <2>3. QED
    BY <2>1, <2>2 DEF VotesWellFormed
<1>6. voter \notin Cast(s, p)
  BY <1>4 DEF Cast
<1>7. voter \in Cast(s, p)'
  <2>1. DecisionFor(s, p) \in m_acceptedProposals'[voter]
    BY <1>1, <1>3 DEF AcceptedGrows
  <2>2. QED
    BY <1>1, <1>3, <1>5, <2>1 DEF Cast, DecisionFor
<1>8. /\ Cast(s, p) \subseteq Cast(s, p)'
      /\ Cast(s, p) \in SUBSET Server /\ Cast(s, p)' \in SUBSET Server
  BY CastStays, VotePendingShrinks
<1>9. /\ Cardinality(Cast(s, p)) \in Nat
      /\ Cardinality(Cast(s, p)') \in Nat
      /\ Cardinality(Cast(s, p)) + 1 <= Cardinality(Cast(s, p)')
  BY <1>6, <1>7, <1>8, OneMoreServer
<1>10. p.numAck \in Nat
  BY DEF TypeOK, ServerTypeOK, Proposal
<1>11. p.numAck <= 1 + Cardinality(Cast(s, p))
  BY DEF VotesAreCast
<1>12. QED
  BY <1>2, <1>9, <1>10, <1>11

\* Enough votes are a majority of the servers, whether NumNodes is odd or not.
LEMMA EnoughIsMajority ==
  ASSUME NEW s \in Server, NEW p, NEW n \in Nat, EnoughVotes(n),
         Cardinality(Cast(s, p)') \in Nat, n <= 1 + Cardinality(Cast(s, p)')
  PROVE  Majority(Voters(DecisionFor(s, p)))'
<1> DEFINE d == DecisionFor(s, p)
           C == Cast(s, p)'
           V == {s} \cup {t \in Server : d \in m_acceptedProposals'[t]}
<1>1. V \in SUBSET Server /\ C \in SUBSET Server /\ C \subseteq V
      /\ s \in V /\ s \notin C
  BY DEF Cast, DecisionFor
<1> HIDE DEF V, C
<1>2. Cardinality(V) \in Nat /\ Cardinality(C) + 1 <= Cardinality(V)
  BY <1>1, OneMoreServer
<1>3. n <= 1 + Cardinality(C) /\ Cardinality(C) \in Nat
  BY DEF C
<1>4. n > NumNodes \div 2 /\ NumNodes \in Nat
  BY ServersFinite DEF EnoughVotes
<1>5. 2 * n > NumNodes
  BY <1>4
<1>6. 2 * Cardinality(V) > NumNodes
  BY <1>2, <1>3, <1>4, <1>5
<1>7. Voters(d)' = V
  BY DEF Voters, V, DecisionFor
<1>8. QED
  BY <1>6, <1>7 DEF Majority, DecisionFor
-------------------------------------------------------------------------------
(***************************************************************************)
(* A proposal is made: its request was fresh, so that every acceptor is    *)
(* asked for its vote the first time.                                      *)
(***************************************************************************)
LEMMA ProposeVotes ==
  ASSUME TypeOK, TypeOK', Match, RequestsFresh, WaitingFresh,
         VotesWellFormed, VotesAreCast, UNCHANGED requestEvents, AcceptedGrows,
         NEW s \in Server, HasRequest(s),
         NEW proposals \in SUBSET m_proposals[s], NEW pending \in SUBSET events,
         DoPropose(s, proposals, pending)
  PROVE  /\ RequestsFresh' /\ WaitingFresh'
         /\ VotesWellFormed' /\ VotesAreCast'
         /\ Announced' \subseteq Announced
         /\ \A t \in Server : Taken(t)' \subseteq Taken(t)
         /\ \A e \in events' : e.frame.type = "DECISION_ACK" => e \in events
<1> DEFINE q == m_waitingProposals[s]
           request == Head(q)
           i == request.id
           proposal == [id |-> i, value |-> request.value, numAck |-> 1,
                        decided |-> FALSE, numDecisionAck |-> 1]
           frame == [type |-> "PROPOSAL", proposerId |-> s, proposalId |-> i,
                     value |-> request.value, acceptorId |-> 0]
<1>1. q \in Seq(RequestFrame) /\ q # <<>> /\ WaitingMatch(s, q)
  BY DEF TypeOK, ServerTypeOK, HasRequest, Match
<1>2. /\ Len(q) \in Nat /\ Len(q) >= 1 /\ DOMAIN q = 1 .. Len(q)
      /\ request = q[1]
  BY <1>1, LenProperties, EmptySeq
<1>3. /\ Len(Tail(q)) = Len(q) - 1
      /\ DOMAIN Tail(q) = 1 .. Len(q) - 1
      /\ \A k \in 1 .. Len(q) - 1 : Tail(q)[k] = q[k + 1]
  <2>1. /\ Len(Tail(q)) = Len(q) - 1
        /\ Tail(q) \in Seq(RequestFrame)
        /\ \A k \in 1 .. Len(Tail(q)) : Tail(q)[k] = q[k + 1]
    BY <1>1, HeadTailProperties
  <2>2. DOMAIN Tail(q) = 1 .. Len(Tail(q))
    BY <2>1, LenProperties
  <2>3. QED
    BY <2>1, <2>2
<1>4. Asked(i, request.value, s)
  BY <1>1, <1>2 DEF WaitingMatch
<1>5. NoVoteOut(i)
  BY <1>2 DEF WaitingFresh
<1>6. /\ events' = pending \cup Broadcast(s, frame)
      /\ m_proposals' = [m_proposals EXCEPT ![s] = Insert(proposals, proposal)]
      /\ m_waitingProposals' = [m_waitingProposals EXCEPT ![s] = Tail(q)]
  BY DEF DoPropose
<1>7. ASSUME NEW e \in Broadcast(s, frame)
      PROVE  /\ e.frame.type = "PROPOSAL" /\ e.fn = "ReceiveMessage"
             /\ e.at \in Server \ {s} /\ e.frame.proposerId = s
             /\ e.frame.proposalId = i /\ VoterOf(e) = e.at
             /\ e = Datagram(e.at, frame)
  BY <1>7 DEF Broadcast, Datagram, VoterOf
<1> HIDE DEF q, request, i, proposal, frame
<1>8. VoteEvent' \subseteq VoteEvent \cup Broadcast(s, frame)
  BY <1>6 DEF VoteEvent
<1>9. ASSUME NEW j, j # i, NoVoteOut(j)
      PROVE  NoVoteOut(j)'
  BY <1>7, <1>8, <1>9 DEF NoVoteOut
\* Other servers have other requests, and so has the rest of this queue.
<1>10. ASSUME NEW t \in Server, NEW k \in DOMAIN m_waitingProposals'[t]
       PROVE  /\ m_waitingProposals'[t][k].id # i
              /\ \E j \in DOMAIN m_waitingProposals[t] :
                   /\ m_waitingProposals'[t][k] = m_waitingProposals[t][j]
                   /\ j = IF t = s THEN k + 1 ELSE k
  <2>1. CASE t = s
    <3>1. m_waitingProposals'[t] = Tail(q)
      BY <1>6, <2>1 DEF TypeOK, ServerTypeOK
    <3>2. k \in 1 .. Len(q) - 1
      BY <1>3, <3>1
    <3>3. k + 1 \in DOMAIN q /\ 1 \in DOMAIN q /\ k + 1 # 1
      BY <1>2, <3>2
    <3>4. q[k + 1].id # i
      BY <1>2, <3>3 DEF WaitingFresh, q, i
    <3>5. m_waitingProposals'[t][k] = q[k + 1]
      BY <1>3, <3>1, <3>2
    <3>6. QED
      BY <2>1, <3>3, <3>4, <3>5 DEF q
  <2>2. CASE t # s
    <3>1. m_waitingProposals'[t] = m_waitingProposals[t]
      BY <1>6, <2>2 DEF TypeOK, ServerTypeOK
    <3>2. Asked(m_waitingProposals[t][k].id, m_waitingProposals[t][k].value, t)
      BY <3>1 DEF Match, WaitingMatch
    <3>3. QED
      BY <1>4, <2>2, <3>1, <3>2 DEF Asked
  <2>3. QED
    BY <2>1, <2>2
<1>11. WaitingFresh'
  <2> SUFFICES ASSUME NEW t \in Server, NEW k \in DOMAIN m_waitingProposals'[t]
               PROVE  /\ \A e \in VoteEvent' :
                           e.frame.proposalId # m_waitingProposals'[t][k].id
                      /\ \A j \in DOMAIN m_waitingProposals'[t] :
                           m_waitingProposals'[t][j].id
                             = m_waitingProposals'[t][k].id => j = k
    BY DEF WaitingFresh, NoVoteOut
  <2>1. PICK l \in DOMAIN m_waitingProposals[t] :
          /\ m_waitingProposals'[t][k] = m_waitingProposals[t][l]
          /\ l = IF t = s THEN k + 1 ELSE k
    BY <1>10
  <2>2. NoVoteOut(m_waitingProposals[t][l].id)
    BY DEF WaitingFresh
  <2>3. ASSUME NEW e \in VoteEvent'
        PROVE  e.frame.proposalId # m_waitingProposals'[t][k].id
    BY <1>7, <1>8, <1>10, <2>1, <2>2 DEF NoVoteOut
  <2>4. ASSUME NEW j \in DOMAIN m_waitingProposals'[t],
               m_waitingProposals'[t][j].id = m_waitingProposals'[t][k].id
        PROVE  j = k
    <3>1. PICK g \in DOMAIN m_waitingProposals[t] :
            /\ m_waitingProposals'[t][j] = m_waitingProposals[t][g]
            /\ g = IF t = s THEN j + 1 ELSE j
      BY <1>10
    <3>2. g = l
      BY <2>1, <2>4, <3>1 DEF WaitingFresh
    <3>3. j \in Int /\ k \in Int
      <4>1. m_waitingProposals'[t] \in Seq(RequestFrame)
        BY DEF TypeOK, ServerTypeOK
      <4>2. QED
        BY <4>1, LenProperties
    <3>4. QED
      BY <2>1, <3>1, <3>2, <3>3
  <2>5. QED
    BY <2>3, <2>4
<1>12. RequestsFresh'
  <2> SUFFICES ASSUME NEW r \in requestEvents
               PROVE  /\ NoVoteOut(r.frame.id)'
                      /\ \A k \in DOMAIN m_waitingProposals'[r.at] :
                           m_waitingProposals'[r.at][k].id # r.frame.id
                      /\ \A x \in requestEvents :
                           x.frame.id = r.frame.id => x = r
    BY DEF RequestsFresh
  <2>1. r.at \in Server /\ Asked(r.frame.id, r.frame.value, r.at)
    BY DEF TypeOK, SimTypeOK, RequestEvent, Match, RequestsMatch
  <2>2. r.frame.id # i
    <3>1. SUFFICES ASSUME r.frame.id = i PROVE FALSE
      OBVIOUS
    <3>2. r.at = s
      BY <1>4, <2>1, <3>1 DEF Asked
    <3>3. q[1].id = i /\ 1 \in DOMAIN q
      BY <1>2 DEF i
    <3>4. QED
      BY <3>1, <3>2, <3>3 DEF RequestsFresh, q
  <2>3. NoVoteOut(r.frame.id)'
    BY <1>9, <2>2 DEF RequestsFresh
  <2>4. ASSUME NEW k \in DOMAIN m_waitingProposals'[r.at]
        PROVE  m_waitingProposals'[r.at][k].id # r.frame.id
    BY <1>10, <2>1 DEF RequestsFresh
  <2>5. QED
    BY <2>3, <2>4 DEF RequestsFresh
<1>13. VotesWellFormed'
  <2> SUFFICES ASSUME NEW e \in VoteEvent'
               PROVE  /\ VoterOf(e) # e.frame.proposerId
                      /\ e.frame.type = "ACCEPT" => e.at = e.frame.proposerId
                      /\ (e.frame.type = "ACCEPT" \/ e.fn = "SendAcceptMessage")
                           => DecisionOf(e) \in m_acceptedProposals'[VoterOf(e)]
                      /\ \A x \in VoteEvent' :
                           (VoterOf(x) = VoterOf(e)
                              /\ x.frame.proposalId = e.frame.proposalId) => x = e
    BY DEF VotesWellFormed, VoterOf, DecisionOf, ProposerOf
  <2>1. CASE e \in VoteEvent
    <3>1. VoterOf(e) \in Server
      BY <2>1, VoterType
    <3>2. e.frame.proposalId # i
      BY <1>5, <2>1 DEF NoVoteOut
    <3>3. ASSUME NEW x \in VoteEvent', VoterOf(x) = VoterOf(e),
                 x.frame.proposalId = e.frame.proposalId
          PROVE  x = e
      <4>1. x \in VoteEvent
        BY <1>7, <1>8, <3>2, <3>3
      <4>2. QED
        BY <2>1, <3>3, <4>1 DEF VotesWellFormed
    <3>4. QED
      BY <2>1, <3>1, <3>3 DEF VotesWellFormed, AcceptedGrows
  <2>2. CASE e \in Broadcast(s, frame)
    <3>1. ASSUME NEW x \in VoteEvent', VoterOf(x) = VoterOf(e),
                 x.frame.proposalId = e.frame.proposalId
          PROVE  x = e
      <4>1. x \in Broadcast(s, frame)
        BY <1>5, <1>7, <1>8, <2>2, <3>1 DEF NoVoteOut
      <4>2. x.at = e.at
        BY <1>7, <2>2, <3>1, <4>1
      <4>3. QED
        BY <1>7, <2>2, <4>1, <4>2
    <3>2. QED
      BY <1>7, <2>2, <3>1
  <2>3. QED
    BY <1>8, <2>1, <2>2
<1>14. ASSUME NEW t \in Server, NEW p \in m_proposals'[t]
       PROVE  p = proposal \/ (p \in m_proposals[t] /\ p.id # i)
  <2>1. CASE t = s
    BY <1>6, <2>1 DEF TypeOK, ServerTypeOK, Insert, Erase, proposal
  <2>2. CASE t # s
    <3>1. p \in m_proposals[t]
      BY <1>6, <2>2 DEF TypeOK, ServerTypeOK
    <3>2. Asked(p.id, p.value, t)
      BY <3>1 DEF Match, ProposalsMatch
    <3>3. QED
      BY <1>4, <2>2, <3>1, <3>2 DEF Asked
  <2>3. QED
    BY <2>1, <2>2
<1>15. VotesAreCast'
  <2>1. ASSUME NEW t \in Server, NEW p \in m_proposals'[t]
        PROVE  \/ p.numAck <= 1
               \/ /\ p \in m_proposals[t]
                  /\ \A u \in Server : VotePending(u, p.id)' => VotePending(u, p.id)
    <3>1. CASE p = proposal
      BY <3>1 DEF proposal
    <3>2. CASE p \in m_proposals[t] /\ p.id # i
      <4>1. ASSUME NEW u \in Server, VotePending(u, p.id)'
            PROVE  VotePending(u, p.id)
        <5>1. PICK x \in VoteEvent' : VoterOf(x) = u /\ x.frame.proposalId = p.id
          BY <4>1 DEF VotePending, VoterOf
        <5>2. x \in VoteEvent
          BY <1>7, <1>8, <3>2, <5>1
        <5>3. QED
          BY <5>1, <5>2 DEF VotePending
      <4>2. QED
        BY <3>2, <4>1
    <3>3. QED
      BY <1>14, <3>1, <3>2
  <2>2. QED
    BY <2>1, VotesStayCast
<1>16. Announced' \subseteq Announced
  BY <1>6, <1>7 DEF Announced
<1>17. ASSUME NEW t \in Server
       PROVE  Taken(t)' \subseteq Taken(t)
  BY <1>14 DEF Taken, DecisionFor, proposal
<1>18. \A e \in events' : e.frame.type = "DECISION_ACK" => e \in events
  BY <1>6, <1>7
<1>19. QED
  BY <1>11, <1>12, <1>13, <1>15, <1>16, <1>17, <1>18
-------------------------------------------------------------------------------
(***************************************************************************)
(* The parts of VotingInv other than Match, for the steps below.           *)
(***************************************************************************)
VotingParts ==
  /\ RequestsFresh
  /\ WaitingFresh
  /\ VotesWellFormed
  /\ VotesAreCast
  /\ AcksFollowDecisions
  /\ DecidedByMajority

\* A step of the client or of a listener changes nothing a vote is about.
LEMMA VotesUntouched ==
  ASSUME VotingParts, TypeOK, RequestsFresh', WaitingFresh',
         UNCHANGED <<events, m_proposals, m_acceptedProposals,
                     m_decidedProposalQueue, decisionLog>>
  PROVE  VotingParts'
<1>1. AcceptedGrows
  BY DEF AcceptedGrows
<1>2. VoteEvent' = VoteEvent
  BY DEF VoteEvent
<1>3. VotesWellFormed'
  BY <1>1, <1>2, VotesStayWellFormed, VoterType DEF VotingParts
<1>4. VotesAreCast'
  BY DEF VotingParts, VotesAreCast, Cast, DecisionFor, VotePending, VoteEvent, VoterOf
<1>5. AcksFollowDecisions'
  BY <1>1, AcksStillFollow DEF VotingParts
<1>6. /\ \A s \in Server : Learned(s)' = Learned(s) /\ Taken(s)' = Taken(s)
      /\ Announced' = Announced
  BY DEF Learned, Taken, DecisionFor, Announced
<1>7. Decided' = Decided
  BY <1>6 DEF Decided
<1>8. DecidedByMajority'
  BY <1>7 DEF VotingParts, DecidedByMajority, Majority, Voters
<1>9. QED
  BY <1>3, <1>4, <1>5, <1>8 DEF VotingParts

(***************************************************************************)
(* A step that asks for no vote and counts none: decisions N, of majority, *)
(* may be learned, a proposal may be finished, or its DECISION_ACKs        *)
(* counted.                                                                *)
(***************************************************************************)
LEMMA NoNewVotes ==
  ASSUME TypeOK, TypeOK', VotingParts, NEW N,
         \A d \in N : Majority(Voters(d))',
         events' \subseteq events, requestEvents' \subseteq requestEvents,
         UNCHANGED <<m_waitingProposals, m_acceptedProposals>>,
         \A s \in Server : \A p \in m_proposals'[s] :
           \E o \in m_proposals[s] :
             /\ p.id = o.id /\ p.value = o.value
             /\ p.numAck = o.numAck /\ p.decided = o.decided,
         \A s \in Server : Learned(s)' \subseteq Learned(s) \cup N
  PROVE  VotingParts'
<1>1. AcceptedGrows
  BY DEF AcceptedGrows
<1>2. VoteEvent' \subseteq VoteEvent
  BY DEF VoteEvent
<1>3. RequestsFresh' /\ WaitingFresh'
  BY <1>2, RequestsStayFresh, WaitingStaysFresh DEF VotingParts
<1>4. VotesWellFormed'
  BY <1>1, <1>2, VotesStayWellFormed, VoterType DEF VotingParts
<1>5. VotesAreCast'
  <2>1. ASSUME NEW s \in Server, NEW p \in m_proposals'[s]
        PROVE  p.numAck <= 1 + Cardinality(Cast(s, p)')
    <3>1. PICK o \in m_proposals[s] : /\ p.id = o.id /\ p.value = o.value
                                     /\ p.numAck = o.numAck
      BY <2>1
    <3>2. Cast(s, p)' = Cast(s, o)'
      BY <3>1 DEF Cast, DecisionFor
    <3>3. /\ Cardinality(Cast(s, o)) \in Nat /\ Cardinality(Cast(s, o)') \in Nat
          /\ Cardinality(Cast(s, o)) <= Cardinality(Cast(s, o)')
      BY <1>1, <1>2, CastStays, VotePendingShrinks
    <3>4. o.numAck <= 1 + Cardinality(Cast(s, o)) /\ o.numAck \in Nat
      BY DEF VotingParts, VotesAreCast, TypeOK, ServerTypeOK, Proposal
    <3>5. o.numAck <= 1 + Cardinality(Cast(s, o)')
      BY <3>3, <3>4
    <3>6. QED
      BY <3>1, <3>2, <3>5
  <2>2. QED
    BY <2>1 DEF VotesAreCast
<1>6. AcksFollowDecisions'
  BY <1>1, AcksStillFollow DEF VotingParts
<1>7. ASSUME NEW s \in Server
      PROVE  /\ Learned(s)' \subseteq Decided \cup N
             /\ Taken(s)' \subseteq Decided \cup N
  <2>1. Taken(s)' \subseteq Taken(s)
    BY DEF Taken, DecisionFor
  <2>2. Taken(s) \subseteq Decided /\ Learned(s) \subseteq Decided
    BY DEF Decided
  <2>3. QED
    BY <2>1, <2>2
<1>8. Announced' \subseteq Decided \cup N
  BY DEF Announced, Decided
<1>9. DecidedByMajority'
  BY <1>1, <1>7, <1>8, DecidedStays DEF VotingParts
<1>10. QED
  BY <1>3, <1>4, <1>5, <1>6, <1>9 DEF VotingParts

\* A request received has no votes out.
LEMMA ReceiveRequestVotes ==
  ASSUME TypeOK, VotingParts, NEW r \in requestEvents, ReceiveRequest(r)
  PROVE  VotingParts'
<1> DEFINE n == [r EXCEPT !.fn = "CreateProposalFromRequest"]
<1>1. n.frame = r.frame /\ n.at = r.at
  BY DEF TypeOK, SimTypeOK, RequestEvent
<1>2. requestEvents' \subseteq (requestEvents \ {r}) \cup {n}
  BY DEF ReceiveRequest
<1>3. UNCHANGED <<events, serverVars>>
  BY DEF ReceiveRequest
<1> HIDE DEF n
<1>4. ASSUME NEW i, NoVoteOut(i)
      PROVE  NoVoteOut(i)'
  BY <1>3, <1>4 DEF NoVoteOut, VoteEvent
<1>5. RequestsFresh'
  BY <1>1, <1>2, <1>3, <1>4 DEF VotingParts, RequestsFresh, serverVars, proposerVars
<1>6. WaitingFresh'
  BY <1>3, <1>4 DEF VotingParts, WaitingFresh, serverVars, proposerVars
<1>7. QED
  BY <1>3, <1>5, <1>6, VotesUntouched DEF serverVars, acceptorVars,
     proposerVars, learnerVars

\* A request queued has no votes out.
LEMMA CreateProposalVotes ==
  ASSUME TypeOK, Match, VotingParts, NEW r \in requestEvents, r.at \in Server,
         CreateProposalFromRequest(r)
  PROVE  VotingParts'
<1> DEFINE q == m_waitingProposals[r.at]
<1>1. q \in Seq(RequestFrame) /\ r.frame \in RequestFrame
  BY DEF TypeOK, SimTypeOK, ServerTypeOK, RequestEvent
<1>2. /\ DOMAIN Append(q, r.frame) = 1 .. Len(q) + 1
      /\ DOMAIN q = 1 .. Len(q) /\ Len(q) \in Nat
      /\ \A i \in 1 .. Len(q) : Append(q, r.frame)[i] = q[i]
      /\ Append(q, r.frame)[Len(q) + 1] = r.frame
  <2>1. /\ Append(q, r.frame) \in Seq(RequestFrame)
        /\ Len(Append(q, r.frame)) = Len(q) + 1
        /\ \A i \in 1 .. Len(q) : Append(q, r.frame)[i] = q[i]
        /\ Append(q, r.frame)[Len(q) + 1] = r.frame
    BY <1>1, AppendProperties
  <2>2. QED
    BY <1>1, <2>1, LenProperties
<1>3. /\ requestEvents' = requestEvents \ {r}
      /\ UNCHANGED <<events, m_proposals, m_acceptedProposals,
                     m_decidedProposalQueue, decisionLog>>
      /\ \/ UNCHANGED m_waitingProposals
         \/ m_waitingProposals' =
              [m_waitingProposals EXCEPT ![r.at] = Append(q, r.frame)]
  BY DEF CreateProposalFromRequest, acceptorVars, learnerVars
\* An entry of a queue is the request, or is an entry of before.
<1>4. ASSUME NEW t \in Server, NEW k \in DOMAIN m_waitingProposals'[t]
      PROVE  \/ /\ k \in DOMAIN m_waitingProposals[t]
                /\ m_waitingProposals'[t][k] = m_waitingProposals[t][k]
             \/ /\ t = r.at /\ k = Len(q) + 1
                /\ m_waitingProposals'[t][k] = r.frame
  <2>1. CASE UNCHANGED m_waitingProposals
    BY <2>1
  <2>2. CASE m_waitingProposals' =
               [m_waitingProposals EXCEPT ![r.at] = Append(q, r.frame)]
    <3>1. CASE t = r.at
      <4>1. m_waitingProposals'[t] = Append(q, r.frame)
        BY <2>2, <3>1 DEF TypeOK, ServerTypeOK
      <4>2. k \in 1 .. Len(q) + 1
        BY <1>2, <4>1
      <4>3. CASE k = Len(q) + 1
        BY <1>2, <3>1, <4>1, <4>3
      <4>4. CASE k \in 1 .. Len(q)
        BY <1>2, <3>1, <4>1, <4>4
      <4>5. QED
        BY <1>2, <4>2, <4>3, <4>4
    <3>2. CASE t # r.at
      BY <2>2, <3>2 DEF TypeOK, ServerTypeOK
    <3>3. QED
      BY <3>1, <3>2
  <2>3. QED
    BY <1>3, <2>1, <2>2
<1>5. ASSUME NEW i, NoVoteOut(i)
      PROVE  NoVoteOut(i)'
  BY <1>3, <1>5 DEF NoVoteOut, VoteEvent
<1> HIDE DEF q
<1>6. RequestsFresh'
  <2> SUFFICES ASSUME NEW x \in requestEvents \ {r}
               PROVE  /\ NoVoteOut(x.frame.id)'
                      /\ \A k \in DOMAIN m_waitingProposals'[x.at] :
                           m_waitingProposals'[x.at][k].id # x.frame.id
                      /\ \A y \in requestEvents \ {r} :
                           y.frame.id = x.frame.id => y = x
    BY <1>3 DEF RequestsFresh
  <2>1. x.at \in Server
    BY DEF TypeOK, SimTypeOK, RequestEvent
  <2>2. x.frame.id # r.frame.id
    BY DEF VotingParts, RequestsFresh
  <2>3. ASSUME NEW k \in DOMAIN m_waitingProposals'[x.at]
        PROVE  m_waitingProposals'[x.at][k].id # x.frame.id
    BY <1>4, <2>1, <2>2 DEF VotingParts, RequestsFresh
  <2>4. QED
    BY <1>5, <2>3 DEF VotingParts, RequestsFresh
<1>7. WaitingFresh'
  <2> SUFFICES ASSUME NEW t \in Server, NEW k \in DOMAIN m_waitingProposals'[t]
               PROVE  /\ \A e \in VoteEvent' :
                           e.frame.proposalId # m_waitingProposals'[t][k].id
                      /\ \A j \in DOMAIN m_waitingProposals'[t] :
                           m_waitingProposals'[t][j].id
                             = m_waitingProposals'[t][k].id => j = k
    BY DEF WaitingFresh, NoVoteOut
  <2>1. VoteEvent' = VoteEvent
    BY <1>3 DEF VoteEvent
  <2>2. NoVoteOut(r.frame.id) /\ \A j \in DOMAIN m_waitingProposals[r.at] :
          m_waitingProposals[r.at][j].id # r.frame.id
    BY DEF VotingParts, RequestsFresh
  <2>3. QED
    BY <1>4, <2>1, <2>2 DEF VotingParts, WaitingFresh, NoVoteOut
<1>8. QED
  BY <1>3, <1>6, <1>7, VotesUntouched

\* The id of a new request is one that no request has had.
LEMMA SendRequestVotes ==
  ASSUME TypeOK, Match, VotingParts, SendRequest, UNCHANGED serverVars
  PROVE  VotingParts'
<1>1. UNCHANGED <<events, serverVars>>
  BY DEF SendRequest
<1>2. ASSUME NEW i
      PROVE  NoVoteOut(i)' <=> NoVoteOut(i)
  BY <1>1 DEF NoVoteOut, VoteEvent
<1>3. WaitingFresh'
  BY <1>1, <1>2 DEF VotingParts, WaitingFresh, serverVars, proposerVars
<1>4. RequestsFresh'
  <2>1. CASE UNCHANGED requestEvents
    BY <1>1, <1>2, <2>1 DEF VotingParts, RequestsFresh, serverVars, proposerVars
  <2>2. ASSUME NEW v \in Value,
               requestEvents' = requestEvents \cup
                 {[at |-> NextServer, fn |-> "ReceiveRequest",
                   frame |-> [id |-> Len(requested) + 1, value |-> v]]}
        PROVE  RequestsFresh'
    <3> DEFINE i == Len(requested) + 1
               n == [at |-> NextServer, fn |-> "ReceiveRequest",
                     frame |-> [id |-> i, value |-> v]]
    <3>1. i \notin DOMAIN requested
      <4>1. requested \in Seq([to : Server, value : Value])
        BY DEF TypeOK, ClientTypeOK
      <4>2. DOMAIN requested = 1 .. Len(requested) /\ Len(requested) \in Nat
        BY <4>1, LenProperties
      <4>3. QED
        BY <4>2
    <3>2. NextServer \in Server
      <4>1. m_lastServerId + 1 \in Int /\ NumNodes \in Nat /\ NumNodes > 0
        BY NumNodesAssumption DEF TypeOK, ClientTypeOK, Server
      <4>2. QED
        BY <4>1 DEF NextServer, Server
    <3>3. n.at = NextServer /\ n.frame.id = i
      OBVIOUS
    <3>4. requestEvents' = requestEvents \cup {n}
      BY <2>2
    <3> HIDE DEF i, n
    <3>5. NoVoteOut(i)
      BY <3>1 DEF NoVoteOut, VoteEvent, Match, EventsMatch, Asked
    <3>6. \A k \in DOMAIN m_waitingProposals[NextServer] :
            m_waitingProposals[NextServer][k].id # i
      BY <3>1, <3>2 DEF Match, WaitingMatch, Asked
    <3>7. \A r \in requestEvents : r.frame.id # i
      BY <3>1 DEF Match, RequestsMatch, Asked
    <3>8. UNCHANGED m_waitingProposals
      BY <1>1 DEF serverVars, proposerVars
    <3>9. ASSUME NEW r \in requestEvents'
          PROVE  /\ NoVoteOut(r.frame.id)
                 /\ \A k \in DOMAIN m_waitingProposals[r.at] :
                      m_waitingProposals[r.at][k].id # r.frame.id
                 /\ \A x \in requestEvents' : x.frame.id = r.frame.id => x = r
      <4>1. CASE r = n
        BY <3>3, <3>4, <3>5, <3>6, <3>7, <4>1
      <4>2. CASE r \in requestEvents
        BY <3>3, <3>4, <3>7, <4>2 DEF VotingParts, RequestsFresh
      <4>3. QED
        BY <3>4, <4>1, <4>2
    <3>10. QED
      BY <1>2, <3>8, <3>9 DEF RequestsFresh
  <2>3. QED
    BY <2>1, <2>2 DEF SendRequest
<1>5. QED
  BY <1>1, <1>3, <1>4, VotesUntouched DEF serverVars, acceptorVars,
     proposerVars, learnerVars

(***************************************************************************)
(* The body of either protocol's propose handler, when decisions N, of     *)
(* majority, may just have been learned.                                   *)
(***************************************************************************)
LEMMA ProposeKeepsVotes ==
  ASSUME TypeOK, TypeOK', Match, VotingParts, NEW N,
         \A d \in N : Majority(Voters(d))',
         UNCHANGED <<requestEvents, m_acceptedProposals>>,
         \A s \in Server : Learned(s)' \subseteq Learned(s) \cup N,
         NEW s \in Server, HasRequest(s),
         NEW proposals \in SUBSET m_proposals[s], NEW pending \in SUBSET events,
         DoPropose(s, proposals, pending)
  PROVE  VotingParts'
<1>1. AcceptedGrows
  BY DEF AcceptedGrows
<1>2. /\ RequestsFresh' /\ WaitingFresh'
      /\ VotesWellFormed' /\ VotesAreCast'
      /\ Announced' \subseteq Announced
      /\ \A t \in Server : Taken(t)' \subseteq Taken(t)
      /\ \A e \in events' : e.frame.type = "DECISION_ACK" => e \in events
  BY <1>1, ProposeVotes DEF VotingParts
<1>3. AcksFollowDecisions'
  BY <1>1, <1>2, AcksStillFollow DEF VotingParts
<1>4. ASSUME NEW t \in Server
      PROVE  /\ Learned(t)' \subseteq Decided \cup N
             /\ Taken(t)' \subseteq Decided \cup N
  BY <1>2 DEF Decided
<1>5. Announced' \subseteq Decided \cup N
  BY <1>2 DEF Decided
<1>6. DecidedByMajority'
  BY <1>1, <1>4, <1>5, DecidedStays DEF VotingParts
<1>7. QED
  BY <1>2, <1>3, <1>6 DEF VotingParts

\* DoAsyncPropose asks everyone for the first time.
LEMMA AsyncProposeKeepsVotes ==
  ASSUME TypeOK, TypeOK', Match, VotingParts, NEW N,
         \A d \in N : Majority(Voters(d))',
         UNCHANGED <<requestEvents, m_acceptedProposals>>,
         \A s \in Server : Learned(s)' \subseteq Learned(s) \cup N,
         NEW s \in Server, NEW proposals \in SUBSET m_proposals[s],
         NEW pending \in SUBSET events, NEW polls,
         AsyncPropose(s, proposals, pending, polls)
  PROVE  VotingParts'
<1>1. CASE HasRequest(s) /\ DoPropose(s, proposals, pending)
  BY <1>1, ProposeKeepsVotes
<1>2. CASE /\ events' = pending
           /\ m_proposals' = [m_proposals EXCEPT ![s] = proposals]
           /\ UNCHANGED m_waitingProposals
  <2>1. \A t \in Server : m_proposals'[t] \subseteq m_proposals[t]
    BY <1>2 DEF TypeOK, ServerTypeOK
  <2>2. QED
    BY <1>2, <2>1, NoNewVotes
<1>3. QED
  BY <1>1, <1>2 DEF AsyncPropose
-------------------------------------------------------------------------------
(***************************************************************************)
(* The acceptor.                                                           *)
(***************************************************************************)
\* What VoteMoves leaves to show: no decision is touched.
LEMMA VoteMovesOn ==
  ASSUME TypeOK, VotingParts, AcceptedGrows,
         RequestsFresh' /\ WaitingFresh' /\ VotesWellFormed' /\ VotesAreCast',
         NEW n, events' \subseteq events \cup {n},
         n.frame.type \in {"PROPOSAL", "ACCEPT"},
         UNCHANGED <<m_proposals, m_decidedProposalQueue, decisionLog>>
  PROVE  VotingParts'
<1>1. AcksFollowDecisions'
  BY AcksStillFollow DEF VotingParts
<1> DEFINE N == {}
<1>2. ASSUME NEW s \in Server
      PROVE  /\ Learned(s)' \subseteq Decided \cup N
             /\ Taken(s)' \subseteq Decided \cup N
  <2>1. Learned(s)' = Learned(s) /\ Taken(s)' = Taken(s)
    BY DEF Learned, Taken, DecisionFor
  <2>2. QED
    BY <2>1 DEF Decided
<1>3. Announced' \subseteq Decided \cup N
  BY DEF Announced, Decided
<1>4. \A d \in N : Majority(Voters(d))'
  OBVIOUS
<1> HIDE DEF N
<1>5. DecidedByMajority'
  BY <1>2, <1>3, <1>4, DecidedStays DEF VotingParts
<1>6. QED
  BY <1>1, <1>5 DEF VotingParts

\* A PROPOSAL is recorded before its vote is scheduled.
LEMMA ReceivedProposalVotes ==
  ASSUME TypeOK, TypeOK', Match, VotingParts,
         NEW e \in events, e.at \in Server, e.fn = "ReceiveMessage",
         e.frame.type = "PROPOSAL", DoReceivedProposalMessage(e)
  PROVE  VotingParts'
<1> DEFINE f == e.frame
           s == e.at
           accepted == [id |-> f.proposalId, value |-> f.value,
                        proposer |-> f.proposerId]
           n == [at |-> s, fn |-> "SendAcceptMessage",
                 frame |-> [f EXCEPT !.acceptorId = s]]
<1>1. f \in PaxosFrame /\ Asked(f.proposalId, f.value, f.proposerId)
  BY DEF TypeOK, SimTypeOK, Event, Match, EventsMatch, ProposerOf
<1>2. /\ events' = (events \ {e}) \cup {n}
      /\ m_acceptedProposals' =
           [m_acceptedProposals EXCEPT ![s] = Insert(@, accepted)]
      /\ UNCHANGED <<requestEvents, m_waitingProposals, m_proposals,
                     m_decidedProposalQueue, decisionLog>>
  BY DEF DoReceivedProposalMessage, proposerVars, learnerVars
<1>3. /\ n.at = s /\ n.frame.type = "PROPOSAL"
      /\ n.frame.proposalId = f.proposalId /\ n.frame.value = f.value
      /\ n.frame.proposerId = f.proposerId
  BY <1>1 DEF PaxosFrame
<1>4. VoterOf(n) = s /\ VoterOf(e) = s /\ e \in VoteEvent
  BY <1>3 DEF VoterOf, VoteEvent
<1>5. DecisionOf(n) = accepted
  BY <1>3 DEF DecisionOf, ProposerOf
<1>6. accepted \in Decision /\ m_acceptedProposals[s] \subseteq Decision
  BY <1>1 DEF PaxosFrame, Decision, TypeOK, ServerTypeOK
\* An entry of the same id is the same: it is overwritten with itself.
<1>7. ASSUME NEW x \in m_acceptedProposals[s], x.id = f.proposalId
      PROVE  x = accepted
  <2>1. Asked(x.id, x.value, x.proposer)
    BY DEF Match, DecisionsMatch
  <2>2. x.value = f.value /\ x.proposer = f.proposerId
    BY <1>1, <1>7, <2>1 DEF Asked
  <2>3. x = [id |-> x.id, value |-> x.value, proposer |-> x.proposer]
    BY <1>6 DEF Decision
  <2>4. QED
    BY <1>7, <2>2, <2>3
<1>8. accepted.id = f.proposalId
  OBVIOUS
<1> HIDE DEF n, accepted
<1>9. m_acceptedProposals[s] \subseteq Insert(m_acceptedProposals[s], accepted)
  BY <1>7, <1>8 DEF Insert, Erase
<1>10. AcceptedGrows /\ accepted \in m_acceptedProposals'[s]
  BY <1>2, <1>9 DEF AcceptedGrows, Insert, TypeOK, ServerTypeOK
<1>11. DecisionOf(n) \in m_acceptedProposals'[VoterOf(n)]
  BY <1>4, <1>5, <1>10
<1>12. RequestsFresh' /\ WaitingFresh' /\ VotesWellFormed' /\ VotesAreCast'
  BY <1>2, <1>3, <1>4, <1>10, <1>11, VoteMoves DEF VotingParts
<1>13. QED
  BY <1>2, <1>3, <1>10, <1>12, VoteMovesOn

\* The scheduled vote becomes an ACCEPT.
LEMMA SendAcceptVotes ==
  ASSUME TypeOK, TypeOK', Match, VotingParts,
         NEW e \in events, e.at \in Server, SendAcceptMessage(e)
  PROVE  VotingParts'
<1> DEFINE f == [e.frame EXCEPT !.type = "ACCEPT", !.acceptorId = e.at]
           n == Datagram(f.proposerId, f)
<1>1. e.frame \in PaxosFrame /\ e.fn = "SendAcceptMessage"
      /\ e.frame.type = "PROPOSAL"
  BY DEF TypeOK, SimTypeOK, Event, Match, EventsMatch, SendAcceptMessage
<1>2. events' = (events \ {e}) \cup {n} /\ UNCHANGED <<requestEvents, serverVars>>
  BY DEF SendAcceptMessage
<1>3. /\ f.type = "ACCEPT" /\ f.proposalId = e.frame.proposalId
      /\ f.value = e.frame.value /\ f.proposerId = e.frame.proposerId
      /\ f.acceptorId = e.at
  BY <1>1 DEF PaxosFrame
<1>4. n.frame = f /\ n.at = f.proposerId
  BY DEF Datagram
<1> HIDE DEF f, n
<1>5. e \in VoteEvent /\ VoterOf(e) = e.at /\ VoterOf(n) = e.at
  BY <1>1, <1>3, <1>4 DEF VoteEvent, VoterOf
<1>6. DecisionOf(n) = DecisionOf(e)
  BY <1>1, <1>3, <1>4 DEF DecisionOf, ProposerOf
<1>7. DecisionOf(e) \in m_acceptedProposals[e.at]
  BY <1>1, <1>5 DEF VotingParts, VotesWellFormed
<1>8. UNCHANGED <<m_acceptedProposals, m_waitingProposals, m_proposals,
                  m_decidedProposalQueue, decisionLog>>
  BY <1>2 DEF serverVars, acceptorVars, proposerVars, learnerVars
<1>9. AcceptedGrows
  BY <1>8 DEF AcceptedGrows
<1>10. DecisionOf(n) \in m_acceptedProposals'[VoterOf(n)]
  BY <1>5, <1>6, <1>7, <1>8
<1>11. RequestsFresh' /\ WaitingFresh' /\ VotesWellFormed' /\ VotesAreCast'
  BY <1>2, <1>3, <1>4, <1>5, <1>8, <1>9, <1>10, VoteMoves DEF VotingParts
<1>12. QED
  BY <1>2, <1>3, <1>4, <1>8, <1>9, <1>11, VoteMovesOn
-------------------------------------------------------------------------------
(***************************************************************************)
(* The proposer counts the vote of ACCEPT e for its proposal p; when that  *)
(* is the deciding one, N holds the decision.                              *)
(***************************************************************************)
LEMMA CountingKeepsVotes ==
  ASSUME TypeOK, TypeOK', Match, VotingParts,
         NEW e \in VoteEvent, e.frame.type = "ACCEPT",
         NEW s \in Server, s = e.frame.proposerId,
         NEW p \in m_proposals[s], p.id = e.frame.proposalId,
         NEW N \in SUBSET {DecisionFor(s, p)},
         N # {} => EnoughVotes(p.numAck + 1),
         \A x \in events' :
           \/ x \in events \ {e}
           \/ /\ x.frame.type = "DECISION"
              /\ DecisionOf(x) = DecisionOf(e)
              /\ N # {},
         UNCHANGED <<requestEvents, m_waitingProposals, m_acceptedProposals>>,
         \A t \in Server \ {s} : m_proposals'[t] = m_proposals[t],
         \A x \in m_proposals'[s] :
           \/ x \in m_proposals[s]
           \/ /\ x.id = p.id /\ x.value = p.value /\ x.numAck = p.numAck + 1
              /\ x.decided => p.decided \/ N # {},
         \A t \in Server : Learned(t)' \subseteq Learned(t) \cup N
  PROVE  VotingParts'
<1>1. AcceptedGrows
  BY DEF AcceptedGrows
<1>2. VoteEvent' \subseteq VoteEvent \ {e} /\ VoteEvent' \subseteq VoteEvent
  BY DEF VoteEvent
<1>3. RequestsFresh' /\ WaitingFresh'
  BY <1>2, RequestsStayFresh, WaitingStaysFresh DEF VotingParts
<1>4. VotesWellFormed'
  BY <1>1, <1>2, VotesStayWellFormed, VoterType DEF VotingParts
<1>5. /\ Cardinality(Cast(s, p)') \in Nat
      /\ p.numAck \in Nat
      /\ p.numAck + 1 <= 1 + Cardinality(Cast(s, p)')
      /\ DecisionFor(s, p) = DecisionOf(e)
  BY <1>1, <1>2, VoteCounted DEF VotingParts
<1>6. VotesAreCast'
  <2>1. ASSUME NEW t \in Server, NEW x \in m_proposals'[t]
        PROVE  \/ x.numAck <= 1 + Cardinality(Cast(t, x)')
               \/ /\ x \in m_proposals[t]
                  /\ \A u \in Server : VotePending(u, x.id)' => VotePending(u, x.id)
    <3>1. \A u \in Server : VotePending(u, x.id)' => VotePending(u, x.id)
      BY <1>2, VotePendingShrinks
    <3>2. CASE x \in m_proposals[t]
      BY <3>1, <3>2
    <3>3. CASE /\ t = s /\ x.id = p.id /\ x.value = p.value
               /\ x.numAck = p.numAck + 1
      <4>1. Cast(t, x)' = Cast(s, p)'
        BY <3>3 DEF Cast, DecisionFor
      <4>2. QED
        BY <1>5, <3>3, <4>1
    <3>4. QED
      BY <3>2, <3>3
  <2>2. QED
    BY <1>1, <2>1, VotesStayCast DEF VotingParts
<1>7. \A d \in N : Majority(Voters(d))'
  <2>1. SUFFICES ASSUME N # {} PROVE Majority(Voters(DecisionFor(s, p)))'
    BY DEF Majority, Voters
  <2>2. p.numAck + 1 \in Nat
    BY <1>5
  <2>3. QED
    BY <1>5, <2>1, <2>2, EnoughIsMajority
<1>8. AcksFollowDecisions'
  <2>1. \A x \in events' : x.frame.type = "DECISION_ACK" => x \in events
    OBVIOUS
  <2>2. QED
    BY <1>1, <2>1, AcksStillFollow DEF VotingParts
<1>9. ASSUME NEW t \in Server
      PROVE  /\ Learned(t)' \subseteq Decided \cup N
             /\ Taken(t)' \subseteq Decided \cup N
  <2>1. Taken(t) \subseteq Decided /\ Learned(t) \subseteq Decided
    BY DEF Decided
  <2>2. ASSUME NEW x \in m_proposals'[t], x.decided
        PROVE  DecisionFor(t, x) \in Taken(t) \cup N
    <3>1. CASE x \in m_proposals[t]
      BY <2>2, <3>1 DEF Taken
    <3>2. CASE /\ t = s /\ x.id = p.id /\ x.value = p.value
               /\ p.decided \/ N # {}
      <4>1. DecisionFor(t, x) = DecisionFor(s, p)
        BY <3>2 DEF DecisionFor
      <4>2. QED
        BY <3>2, <4>1 DEF Taken
    <3>3. QED
      BY <2>2, <3>1, <3>2
  <2>3. Taken(t)' \subseteq Taken(t) \cup N
    BY <2>2 DEF Taken, DecisionFor
  <2>4. QED
    BY <2>1, <2>3
<1>10. Announced' \subseteq Decided \cup N
  <2> SUFFICES ASSUME NEW x \in events', x.frame.type = "DECISION"
               PROVE  DecisionOf(x) \in Decided \cup N
    BY DEF Announced, DecisionOf, ProposerOf
  <2>1. CASE x \in events
    BY <2>1 DEF Announced, Decided, DecisionOf, ProposerOf
  <2>2. CASE DecisionOf(x) = DecisionOf(e) /\ N # {}
    BY <1>5, <2>2
  <2>3. QED
    BY <2>1, <2>2
<1>11. DecidedByMajority'
  BY <1>1, <1>7, <1>9, <1>10, DecidedStays DEF VotingParts
<1>12. QED
  BY <1>3, <1>4, <1>6, <1>8, <1>11 DEF VotingParts

\* An ACCEPT counted is a vote cast.
LEMMA ReceivedAcceptVotes ==
  ASSUME TypeOK, TypeOK', Match, VotingParts,
         NEW e \in events, e.at \in Server, e.frame.type = "ACCEPT",
         DoReceivedAcceptMessage(e)
  PROVE  VotingParts'
<1> DEFINE s == e.at
           f == e.frame
           known == {p \in m_proposals[s] : p.id = f.proposalId /\ f.proposerId = s}
           rest == events \ {e}
           q(p) == [p EXCEPT !.numAck = @ + 1]
           d(p) == [q(p) EXCEPT !.decided = TRUE, !.numDecisionAck = 1]
<1>1. UNCHANGED <<requestEvents, m_waitingProposals, m_acceptedProposals,
                  decisionLog>>
  BY DEF DoReceivedAcceptMessage, acceptorVars
<1>2. CASE events' = rest /\ UNCHANGED <<m_proposals, m_decidedProposalQueue>>
  <2> DEFINE N == {}
  <2>1. \A x \in N : Majority(Voters(x))'
    OBVIOUS
  <2>2. \A t \in Server : Learned(t)' \subseteq Learned(t) \cup N
    BY <1>1, <1>2 DEF Learned
  <2> HIDE DEF N
  <2>3. QED
    BY <1>1, <1>2, <2>1, <2>2, NoNewVotes
<1>3. ASSUME NEW p \in known,
             \/ /\ events' = rest
                /\ m_proposals' = [m_proposals EXCEPT ![s] = Insert(@, q(p))]
                /\ UNCHANGED m_decidedProposalQueue
             \/ /\ Decides(q(p))
                /\ events' = rest \cup SendDecisionMessage(s, f)
                /\ m_proposals' = [m_proposals EXCEPT ![s] = Insert(@, d(p))]
                /\ UNCHANGED m_decidedProposalQueue
             \/ /\ Decides(q(p))
                /\ events' = rest \cup SendDecisionMessage(s, f)
                /\ m_proposals' = [m_proposals EXCEPT ![s] = Erase(@, p.id)]
                /\ m_decidedProposalQueue' =
                     [m_decidedProposalQueue EXCEPT ![s] =
                        Push(@, [id |-> p.id, value |-> p.value, proposer |-> s])]
      PROVE  VotingParts'
  <2> DEFINE N == IF Decides(q(p)) THEN {DecisionFor(s, p)} ELSE {}
  <2>1. /\ p \in m_proposals[s] /\ p.id = f.proposalId /\ f.proposerId = s
        /\ e \in VoteEvent /\ s \in Server
    BY DEF VoteEvent
  <2>2. p \in Proposal /\ f \in PaxosFrame
        /\ m_decidedProposalQueue[s] \in Seq(Decision)
    BY <2>1 DEF TypeOK, SimTypeOK, ServerTypeOK, Event
  <2>3. /\ q(p).id = p.id /\ q(p).value = p.value
        /\ q(p).numAck = p.numAck + 1 /\ q(p).decided = p.decided
    BY <2>2 DEF Proposal
  <2>4. /\ d(p).id = p.id /\ d(p).value = p.value
        /\ d(p).numAck = p.numAck + 1
    BY <2>2 DEF Proposal
  <2>5. N \in SUBSET {DecisionFor(s, p)} /\ (Decides(q(p)) => DecisionFor(s, p) \in N)
    OBVIOUS
  <2>6. N # {} => EnoughVotes(p.numAck + 1)
    BY <2>3 DEF Decides
  <2>7. DecisionFor(s, p) \in Decision
    BY <2>2 DEF DecisionFor, Proposal, Decision
  <2>8. ToSet(Push(m_decidedProposalQueue[s], DecisionFor(s, p)))
          = ToSet(m_decidedProposalQueue[s]) \cup {DecisionFor(s, p)}
    BY <2>2, <2>7, PushSet
  <2>9. DecisionFor(s, p) = [id |-> p.id, value |-> p.value, proposer |-> s]
    BY DEF DecisionFor
  <2>10. ASSUME NEW x \in SendDecisionMessage(s, f)
         PROVE  x.frame.type = "DECISION" /\ DecisionOf(x) = DecisionOf(e)
    <3>1. x.frame = [f EXCEPT !.type = "DECISION"]
      BY DEF SendDecisionMessage, Broadcast, Datagram
    <3>2. /\ x.frame.type = "DECISION" /\ x.frame.proposalId = f.proposalId
          /\ x.frame.value = f.value /\ x.frame.proposerId = f.proposerId
      BY <2>2, <3>1 DEF PaxosFrame
    <3>3. QED
      BY <3>2 DEF DecisionOf, ProposerOf
  <2> HIDE DEF N, q, d, s, f, rest, known
  <2>11. \A x \in events' :
           \/ x \in events \ {e}
           \/ x.frame.type = "DECISION" /\ DecisionOf(x) = DecisionOf(e) /\ N # {}
    BY <1>3, <2>5, <2>10 DEF rest
  <2>12. \A t \in Server \ {s} : m_proposals'[t] = m_proposals[t]
    BY <1>3, <2>1 DEF TypeOK, ServerTypeOK
  <2>13. \A x \in m_proposals'[s] :
           \/ x \in m_proposals[s]
           \/ /\ x.id = p.id /\ x.value = p.value /\ x.numAck = p.numAck + 1
              /\ x.decided => p.decided \/ N # {}
    <3>1. \/ m_proposals'[s] = Insert(m_proposals[s], q(p))
          \/ m_proposals'[s] = Insert(m_proposals[s], d(p)) /\ Decides(q(p))
          \/ m_proposals'[s] = Erase(m_proposals[s], p.id)
      BY <1>3, <2>1 DEF TypeOK, ServerTypeOK
    <3>2. QED
      BY <2>3, <2>4, <2>5, <3>1 DEF Insert, Erase
  <2>14. ASSUME NEW t \in Server
         PROVE  Learned(t)' \subseteq Learned(t) \cup N
    <3>1. CASE UNCHANGED m_decidedProposalQueue
      BY <1>1, <3>1 DEF Learned
    <3>2. CASE /\ Decides(q(p))
               /\ m_decidedProposalQueue' =
                    [m_decidedProposalQueue EXCEPT ![s] =
                       Push(@, DecisionFor(s, p))]
      <4>1. CASE t = s
        <5>1. m_decidedProposalQueue'[t]
                = Push(m_decidedProposalQueue[s], DecisionFor(s, p))
          BY <2>1, <3>2, <4>1 DEF TypeOK, ServerTypeOK
        <5>2. ToSet(m_decidedProposalQueue'[t])
                = ToSet(m_decidedProposalQueue[t]) \cup {DecisionFor(s, p)}
          BY <2>8, <4>1, <5>1
        <5>3. QED
          BY <1>1, <2>5, <3>2, <5>2 DEF Learned
      <4>2. CASE t # s
        <5>1. m_decidedProposalQueue'[t] = m_decidedProposalQueue[t]
          BY <3>2, <4>2 DEF TypeOK, ServerTypeOK
        <5>2. QED
          BY <1>1, <5>1 DEF Learned
      <4>3. QED
        BY <4>1, <4>2
    <3>3. QED
      BY <1>3, <2>9, <3>1, <3>2
  <2>15. e.frame.type = "ACCEPT" /\ s = e.frame.proposerId /\ p.id = e.frame.proposalId
    BY <2>1 DEF f
  <2>16. QED
    BY <1>1, <2>1, <2>5, <2>6, <2>11, <2>12, <2>13, <2>14, <2>15, CountingKeepsVotes
<1>4. \/ /\ events' = rest
         /\ UNCHANGED <<m_proposals, m_decidedProposalQueue>>
      \/ \E p \in known :
           \/ /\ events' = rest
              /\ m_proposals' = [m_proposals EXCEPT ![s] = Insert(@, q(p))]
              /\ UNCHANGED m_decidedProposalQueue
           \/ /\ Decides(q(p))
              /\ events' = rest \cup SendDecisionMessage(s, f)
              /\ m_proposals' = [m_proposals EXCEPT ![s] = Insert(@, d(p))]
              /\ UNCHANGED m_decidedProposalQueue
           \/ /\ Decides(q(p))
              /\ events' = rest \cup SendDecisionMessage(s, f)
              /\ m_proposals' = [m_proposals EXCEPT ![s] = Erase(@, p.id)]
              /\ m_decidedProposalQueue' =
                   [m_decidedProposalQueue EXCEPT ![s] =
                      Push(@, [id |-> p.id, value |-> p.value, proposer |-> s])]
  BY Zenon DEF DoReceivedAcceptMessage
<1> HIDE DEF s, f, known, rest, q, d
<1>5. QED
  BY <1>2, <1>3, <1>4
-------------------------------------------------------------------------------
(***************************************************************************)
(* The learner and the second round.                                       *)
(***************************************************************************)
\* What a server has learned when one more decision is in its queue.
LEMMA LearnedGrows ==
  ASSUME TypeOK, NEW s \in Server, NEW d \in Decision,
         m_decidedProposalQueue' =
           [m_decidedProposalQueue EXCEPT ![s] = Push(@, d)],
         UNCHANGED decisionLog, NEW t \in Server
  PROVE  Learned(t)' \subseteq Learned(t) \cup {d}
<1>1. m_decidedProposalQueue[s] \in Seq(Decision)
  BY DEF TypeOK, ServerTypeOK
<1>2. CASE t = s
  <2>1. m_decidedProposalQueue'[t] = Push(m_decidedProposalQueue[s], d)
    BY <1>2 DEF TypeOK, ServerTypeOK
  <2>2. ToSet(m_decidedProposalQueue'[t])
          = ToSet(m_decidedProposalQueue[t]) \cup {d}
    BY <1>1, <1>2, <2>1, PushSet
  <2>3. QED
    BY <2>2 DEF Learned
<1>3. CASE t # s
  <2>1. m_decidedProposalQueue'[t] = m_decidedProposalQueue[t]
    BY <1>3 DEF TypeOK, ServerTypeOK
  <2>2. QED
    BY <2>1 DEF Learned
<1>4. QED
  BY <1>2, <1>3

\* A DECISION of a majority is learned.
LEMMA ReceivedDecisionVotes ==
  ASSUME TypeOK, TypeOK', Match, VotingParts,
         NEW e \in events, e.at \in Server, e.frame.type = "DECISION",
         DoReceivedDecisionMessage(e)
  PROVE  VotingParts'
<1> DEFINE s == e.at
           f == e.frame
           ack == [type |-> "DECISION_ACK", proposerId |-> s,
                   proposalId |-> f.proposalId, value |-> f.value,
                   acceptorId |-> 0]
           n == Datagram(f.proposerId, ack)
           d == DecisionOf(e)
<1>1. d = [id |-> f.proposalId, value |-> f.value, proposer |-> f.proposerId]
      /\ f \in PaxosFrame /\ d \in Decision
  BY DEF DecisionOf, ProposerOf, TypeOK, SimTypeOK, Event, PaxosFrame, Decision
<1>2. /\ events' \subseteq events \cup {n}
      /\ m_decidedProposalQueue' =
           [m_decidedProposalQueue EXCEPT ![s] = Push(@, d)]
      /\ UNCHANGED <<requestEvents, m_waitingProposals, m_proposals,
                     m_acceptedProposals, decisionLog>>
  BY <1>1 DEF DoReceivedDecisionMessage, proposerVars, acceptorVars
<1>3. n.frame.type = "DECISION_ACK" /\ DecisionOf(n) = d
  BY <1>1 DEF Datagram, DecisionOf, ProposerOf
<1> HIDE DEF n, d
<1>4. d \in Decided
  BY DEF d, DecisionOf, ProposerOf, Decided, Announced
<1>5. Majority(Voters(d))
  BY <1>4 DEF VotingParts, DecidedByMajority
<1>6. AcceptedGrows /\ d.proposer \in Server
  BY <1>1, <1>2 DEF AcceptedGrows, Decision
<1>7. Majority(Voters(d))'
  BY <1>5, <1>6, MajorityStays
<1>8. VoteEvent' \subseteq VoteEvent
  BY <1>2, <1>3 DEF VoteEvent
<1>9. RequestsFresh' /\ WaitingFresh'
  BY <1>2, <1>8, RequestsStayFresh, WaitingStaysFresh DEF VotingParts
<1>10. VotesWellFormed'
  BY <1>6, <1>8, VotesStayWellFormed, VoterType DEF VotingParts
<1>11. VotesAreCast'
  BY <1>2, <1>6, <1>8, VotePendingShrinks, VotesStayCast DEF VotingParts
<1>12. AcksFollowDecisions'
  <2>1. \A x \in events' :
          x.frame.type = "DECISION_ACK"
            => x \in events \/ Majority(Voters(DecisionOf(x)))'
    <3>1. Majority(Voters(DecisionOf(n)))'
      BY <1>3, <1>7 DEF Majority, Voters
    <3>2. QED
      BY <1>2, <3>1
  <2>2. QED
    BY <1>6, <2>1, AcksStillFollow DEF VotingParts
<1>13. ASSUME NEW t \in Server
       PROVE  /\ Learned(t)' \subseteq Decided \cup {d}
              /\ Taken(t)' \subseteq Decided \cup {d}
  <2>1. Learned(t)' \subseteq Learned(t) \cup {d}
    BY <1>1, <1>2, LearnedGrows DEF d
  <2>2. Taken(t)' = Taken(t)
    BY <1>2 DEF Taken, DecisionFor
  <2>3. QED
    BY <2>1, <2>2 DEF Decided
<1>14. Announced' \subseteq Decided \cup {d}
  BY <1>2, <1>3 DEF Announced, Decided
<1>15. DecidedByMajority'
  <2>1. \A x \in {d} : Majority(Voters(x))'
    BY <1>7
  <2>2. QED
    BY <1>6, <1>13, <1>14, <2>1, DecidedStays DEF VotingParts
<1>16. QED
  BY <1>9, <1>10, <1>11, <1>12, <1>15 DEF VotingParts

\* A DECISION_ACK is of a decision of a majority.
LEMMA ReceivedDecisionAckVotes ==
  ASSUME TypeOK, TypeOK', Match, VotingParts,
         NEW e \in events, e.at \in Server, e.frame.type = "DECISION_ACK",
         DoReceivedDecisionAckMessage(e)
  PROVE  VotingParts'
<1> DEFINE s == e.at
           known == {p \in m_proposals[s] : p.id = e.frame.proposalId}
           rest == events \ {e}
           q(p) == [p EXCEPT !.numDecisionAck = @ + 1]
<1>1. UNCHANGED <<requestEvents, m_acceptedProposals, decisionLog>>
  BY DEF DoReceivedDecisionAckMessage, acceptorVars
<1>2. CASE /\ events' = rest
           /\ UNCHANGED <<m_waitingProposals, m_decidedProposalQueue>>
           /\ \/ UNCHANGED m_proposals
              \/ \E p \in known :
                   m_proposals' = [m_proposals EXCEPT ![s] = Insert(@, q(p))]
  <2> DEFINE N == {}
  <2>1. \A x \in N : Majority(Voters(x))'
    OBVIOUS
  <2>2. \A t \in Server : Learned(t)' \subseteq Learned(t) \cup N
    BY <1>1, <1>2 DEF Learned
  <2> HIDE DEF N
  <2>3. ASSUME NEW t \in Server, NEW x \in m_proposals'[t]
        PROVE  \E o \in m_proposals[t] :
                 /\ x.id = o.id /\ x.value = o.value
                 /\ x.numAck = o.numAck /\ x.decided = o.decided
    <3>1. CASE x \in m_proposals[t]
      BY <3>1
    <3>2. ASSUME NEW p \in known,
                 m_proposals' = [m_proposals EXCEPT ![s] = Insert(@, q(p))]
          PROVE  \/ x \in m_proposals[t]
                 \/ t = s /\ x = q(p)
      BY <2>3, <3>2 DEF TypeOK, ServerTypeOK, Insert, Erase
    <3>3. ASSUME NEW p \in known
          PROVE  /\ q(p).id = p.id /\ q(p).value = p.value
                 /\ q(p).numAck = p.numAck /\ q(p).decided = p.decided
                 /\ p \in m_proposals[s]
      BY DEF TypeOK, ServerTypeOK, Proposal
    <3> HIDE DEF s, known, q
    <3>4. QED
      BY <1>2, <2>3, <3>1, <3>2, <3>3
  <2>4. QED
    BY <1>1, <1>2, <2>1, <2>2, <2>3, NoNewVotes
\* The ack follows a DECISION of this proposal, which has a majority.
<1>3. ASSUME NEW p \in known,
             m_decidedProposalQueue' =
               [m_decidedProposalQueue EXCEPT ![s] =
                  Push(@, [id |-> p.id, value |-> p.value, proposer |-> s])],
             AsyncPropose(s, Erase(m_proposals[s], p.id), rest, proposeEvents[s])
      PROVE  VotingParts'
  <2> DEFINE d == DecisionOf(e)
  <2>1. p \in m_proposals[s] /\ p.id = e.frame.proposalId
    OBVIOUS
  <2>2. p \in Proposal /\ e.frame \in PaxosFrame
    BY <2>1 DEF TypeOK, SimTypeOK, ServerTypeOK, Event
  <2>3. Asked(p.id, p.value, s) /\ Asked(p.id, e.frame.value, s)
    BY <2>1 DEF Match, ProposalsMatch, EventsMatch, ProposerOf
  <2>4. p.value = e.frame.value
    BY <2>3 DEF Asked
  <2>5. d = [id |-> p.id, value |-> p.value, proposer |-> s] /\ d.proposer = s
    BY <2>1, <2>4 DEF DecisionOf, ProposerOf
  <2>6. d \in Decision
    BY <2>2, <2>5 DEF Proposal, Decision
  <2>7. Majority(Voters(d))
    BY DEF VotingParts, AcksFollowDecisions
  <2> HIDE DEF d
  <2>8. Majority(Voters(d))'
    BY <1>1, <2>5, <2>7, MajorityStays DEF AcceptedGrows
  <2>9. \A x \in {d} : Majority(Voters(x))'
    BY <2>8
  <2>10. m_decidedProposalQueue' =
           [m_decidedProposalQueue EXCEPT ![s] = Push(@, d)]
    BY <1>3, <2>5
  <2>11. \A t \in Server : Learned(t)' \subseteq Learned(t) \cup {d}
    BY <1>1, <2>6, <2>10, LearnedGrows
  <2>12. Erase(m_proposals[s], p.id) \in SUBSET m_proposals[s]
         /\ rest \in SUBSET events
    BY DEF Erase
  <2> HIDE DEF s, rest, known
  <2>13. s \in Server
    BY DEF s
  <2>14. QED
    BY <1>1, <1>3, <2>9, <2>11, <2>12, <2>13, AsyncProposeKeepsVotes
<1>4. \/ /\ events' = rest
         /\ UNCHANGED <<proposerVars, m_decidedProposalQueue>>
      \/ \E p \in known :
           \/ /\ events' = rest
              /\ m_proposals' = [m_proposals EXCEPT ![s] = Insert(@, q(p))]
              /\ UNCHANGED <<m_waitingProposals, m_leaderState, proposeEvents,
                             m_decidedProposalQueue>>
           \/ /\ m_decidedProposalQueue' =
                   [m_decidedProposalQueue EXCEPT ![s] =
                      Push(@, [id |-> p.id, value |-> p.value, proposer |-> s])]
              /\ AsyncPropose(s, Erase(m_proposals[s], p.id), rest,
                              proposeEvents[s])
  BY Zenon DEF DoReceivedDecisionAckMessage
<1> HIDE DEF s, known, rest, q
<1>5. QED
  BY <1>2, <1>3, <1>4 DEF proposerVars

\* Writing the log moves decisions only.
LEMMA StopVotes ==
  ASSUME TypeOK, TypeOK', VotingParts, NEW s \in Server, StopApplication(s)
  PROVE  VotingParts'
<1>1. /\ decisionLog' =
           [decisionLog EXCEPT ![s] = m_decidedProposalQueue[s]]
      /\ m_decidedProposalQueue' = [m_decidedProposalQueue EXCEPT ![s] = <<>>]
      /\ UNCHANGED <<requestEvents, events, m_waitingProposals, m_proposals,
                     m_acceptedProposals>>
  BY DEF StopApplication, LoggedDecisions, proposerVars, acceptorVars
<1>2. ToSet(<<>>) = {}
  BY DEF ToSet
<1>3. ASSUME NEW t \in Server
      PROVE  Learned(t)' \subseteq Learned(t)
  BY <1>1, <1>2 DEF Learned, TypeOK, ServerTypeOK
<1> DEFINE M == {}
<1>4. \A x \in M : Majority(Voters(x))'
  OBVIOUS
<1> HIDE DEF M
<1>5. QED
  BY <1>1, <1>3, <1>4, NoNewVotes
-------------------------------------------------------------------------------
(***************************************************************************)
(* The invariant.                                                          *)
(***************************************************************************)
LEMMA VotingInit == Init => VotingParts
<1> SUFFICES ASSUME Init PROVE VotingParts
  OBVIOUS
<1>1. requestEvents = {} /\ events = {}
  BY DEF Init, SimInit
<1>2. ASSUME NEW s \in Server
      PROVE  /\ m_waitingProposals[s] = <<>> /\ m_proposals[s] = {}
             /\ m_decidedProposalQueue[s] = <<>> /\ decisionLog[s] = <<>>
  BY DEF Init, ServerInit
<1>3. DOMAIN <<>> = {} /\ ToSet(<<>>) = {}
  BY DEF ToSet
<1>4. Decided = {}
  BY <1>1, <1>2, <1>3 DEF Decided, Learned, Taken, Announced
<1>5. QED
  BY <1>1, <1>2, <1>3, <1>4 DEF VotingParts, RequestsFresh, WaitingFresh,
     VotesWellFormed, VoteEvent, VotesAreCast, AcksFollowDecisions,
     DecidedByMajority

\* Every step keeps the parts of VotingInv.
LEMMA VotingStep == TypeOK /\ Match /\ VotingParts /\ [Next]_vars => VotingParts'
<1> SUFFICES ASSUME TypeOK, Match, VotingParts, [Next]_vars PROVE VotingParts'
  OBVIOUS
<1>1. TypeOK'
  BY TypeStep
<1>2. ASSUME NEW r \in requestEvents, ReceiveRequest(r)
      PROVE  VotingParts'
  BY <1>2, ReceiveRequestVotes
<1>3. ASSUME NEW r \in requestEvents, r.at \in Server, CreateProposalFromRequest(r)
      PROVE  VotingParts'
  BY <1>3, CreateProposalVotes
\* The handlers that may propose, and the steps of nobody, learn nothing.
<1> DEFINE N == {}
<1>4. \A d \in N : Majority(Voters(d))'
  OBVIOUS
<1> HIDE DEF N
<1>5. ASSUME NEW s \in Server, DoSyncPropose(s)
      PROVE  VotingParts'
  <2>1. UNCHANGED <<requestEvents, m_acceptedProposals, m_decidedProposalQueue,
                    decisionLog>>
    BY <1>5 DEF DoSyncPropose, acceptorVars, learnerVars
  <2>2. \A t \in Server : Learned(t)' \subseteq Learned(t) \cup N
    BY <2>1 DEF Learned
  <2>3. CASE HasRequest(s) /\ DoPropose(s, m_proposals[s], events)
    BY <1>1, <1>4, <2>1, <2>2, <2>3, ProposeKeepsVotes
  <2>4. CASE UNCHANGED <<events, m_waitingProposals, m_proposals>>
    BY <1>1, <1>4, <2>1, <2>2, <2>4, NoNewVotes
  <2>5. QED
    BY <1>5, <2>3, <2>4 DEF DoSyncPropose
<1>6. ASSUME NEW s \in Server, DoAsyncPropose(s)
      PROVE  VotingParts'
  <2>1. UNCHANGED <<requestEvents, m_acceptedProposals, m_decidedProposalQueue,
                    decisionLog>>
    BY <1>6 DEF DoAsyncPropose, acceptorVars, learnerVars
  <2>2. \A t \in Server : Learned(t)' \subseteq Learned(t) \cup N
    BY <2>1 DEF Learned
  <2>3. AsyncPropose(s, m_proposals[s], events, proposeEvents[s] - 1)
    BY <1>6 DEF DoAsyncPropose
  <2>4. QED
    BY <1>1, <1>4, <2>1, <2>2, <2>3, AsyncProposeKeepsVotes
<1>7. ASSUME NEW e \in events, e.at \in Server, e.fn = "ReceiveMessage",
             e.frame.type = "PROPOSAL", DoReceivedProposalMessage(e)
      PROVE  VotingParts'
  BY <1>1, <1>7, ReceivedProposalVotes
<1>8. ASSUME NEW e \in events, e.at \in Server, SendAcceptMessage(e)
      PROVE  VotingParts'
  BY <1>1, <1>8, SendAcceptVotes
<1>9. ASSUME NEW e \in events, e.at \in Server, e.frame.type = "ACCEPT",
             DoReceivedAcceptMessage(e)
      PROVE  VotingParts'
  BY <1>1, <1>9, ReceivedAcceptVotes
<1>10. ASSUME NEW e \in events, e.at \in Server, e.frame.type = "DECISION",
              DoReceivedDecisionMessage(e)
       PROVE  VotingParts'
  BY <1>1, <1>10, ReceivedDecisionVotes
<1>11. ASSUME NEW e \in events, e.at \in Server, e.frame.type = "DECISION_ACK",
              DoReceivedDecisionAckMessage(e)
       PROVE  VotingParts'
  BY <1>1, <1>11, ReceivedDecisionAckVotes
<1>12. ASSUME NEW s \in Server, StopApplication(s)
       PROVE  VotingParts'
  BY <1>1, <1>12, StopVotes
<1>13. ASSUME SendRequest, UNCHANGED serverVars
       PROVE  VotingParts'
  BY <1>13, SendRequestVotes
<1>14. ASSUME events' \subseteq events, requestEvents' \subseteq requestEvents,
              UNCHANGED serverVars
       PROVE  VotingParts'
  <2>1. \A t \in Server : Learned(t)' \subseteq Learned(t) \cup N
    BY <1>14 DEF Learned, serverVars, learnerVars
  <2>2. QED
    BY <1>1, <1>4, <1>14, <2>1, NoNewVotes DEF serverVars, acceptorVars, proposerVars
<1>15. QED
  <2>1. CASE UNCHANGED vars
    BY <2>1, <1>14 DEF vars, simVars
  <2>2. CASE \E e \in events : DropMessage(e) /\ UNCHANGED <<serverVars, clientVars>>
    BY <2>2, <1>14 DEF DropMessage
  <2>3. CASE \E r \in requestEvents :
               DropRequest(r) /\ UNCHANGED <<serverVars, clientVars>>
    BY <2>3, <1>14 DEF DropRequest
  <2>4. QED
    BY <1>2, <1>3, <1>5, <1>6, <1>7, <1>8, <1>9, <1>10, <1>11, <1>12, <1>13,
       <2>1, <2>2, <2>3, StepCases

(***************************************************************************)
(* The invariant of the votes holds in both protocols, for any number of   *)
(* servers and with any datagrams lost: per proposal one vote of every     *)
(* acceptor is on its way or counted, and recorded before it is sent.      *)
(***************************************************************************)
THEOREM VotingCorrect == Spec => []VotingInv
<1>1. Init => VotingParts
  BY VotingInit
<1>2. TypeOK /\ Match /\ VotingParts /\ [Next]_vars => VotingParts'
  BY VotingStep
<1>3. Match /\ VotingParts => VotingInv
  BY DEF VotingParts, VotingInv
<1>4. QED
  BY <1>1, <1>2, <1>3, TypeCorrect, MatchCorrect, PTL DEF Spec

(***************************************************************************)
(* A decision taken, announced, learned or logged has the votes of more    *)
(* than half of the servers: m_numAck > m_numNodes / 2, without knowing    *)
(* whom it counted, is enough, for an odd and for an even number.          *)
(***************************************************************************)
THEOREM DecidedByMajorityCorrect == Spec => []DecidedByMajority
<1>1. VotingInv => DecidedByMajority
  BY DEF VotingInv
<1>2. QED
  BY <1>1, VotingCorrect, PTL

(***************************************************************************)
(* m_numAck never counts a vote that was not cast, or one twice.           *)
(***************************************************************************)
THEOREM VotesAreCastCorrect == Spec => []VotesAreCast
<1>1. VotingInv => VotesAreCast
  BY DEF VotingInv
<1>2. QED
  BY <1>1, VotingCorrect, PTL
===============================================================================
