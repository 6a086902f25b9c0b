----------------------------- MODULE TimedPaxosInv -----------------------------
(***************************************************************************)
(* Strengthenings that make the safety properties of TimedPaxos inductive. *)
(***************************************************************************)
EXTENDS TimedPaxos, SyncPaxosInv

(***************************************************************************)
(* The stop events are what PastStopTime says: they have run, one at       *)
(* least, when the stop time has come.                                     *)
(***************************************************************************)
ClockInv ==
  /\ TimeTypeOK
  /\ stopped = {} <=> now < m_stopTime

\* Any two slots to come are a slot apart, and less than a period.
SlotsApart ==
  \A s, t \in Server :
    (s # t /\ proposeEvents[s] > 0 /\ proposeEvents[t] > 0 /\ proposeAt[s] <= proposeAt[t])
      => /\ proposeAt[s] + SlotWidth <= proposeAt[t]
         /\ proposeAt[t] + SlotWidth <= proposeAt[s] + m_proposePeriod

\* The PROPOSALs on their way arrive before the next slot.
ArriveBeforeSlots ==
  \A e \in ProposalsOnTheWay : \A s \in Server :
    proposeEvents[s] > 0 => due[e] < proposeAt[s]

SlotInv == ~IsAsync => SlotsApart /\ ArriveBeforeSlots /\ OneSlotOnTheWay

\* The requests sent so far have increasing timestamps before the next.
TimestampInv ==
  /\ TimestampsIncrease
  /\ sendEvent => \A i \in DOMAIN requestedAt : requestedAt[i] < sendAt
-------------------------------------------------------------------------------
LongestMessage == Max(MessageDelay)
LongestRequest == Max(RequestDelay)

\* How long after its proposal an event of a proposal may still be to come.
LatestAfter(e) ==
  CASE e.fn = "SendAcceptMessage"        -> LongestMessage + HandlingDelay
    [] e.fn # "SendAcceptMessage" /\ e.frame.type = "PROPOSAL"
                                         -> LongestMessage
    [] e.fn # "SendAcceptMessage" /\ e.frame.type = "ACCEPT"
                                         -> 2 * LongestMessage + HandlingDelay
    [] e.fn # "SendAcceptMessage" /\ e.frame.type = "DECISION"
                                         -> 3 * LongestMessage + HandlingDelay
    [] OTHER                             -> 4 * LongestMessage + HandlingDelay

(***************************************************************************)
(* The events of a proposal come in the time of the messages that led to   *)
(* them.                                                                   *)
(***************************************************************************)
MessagesInTime ==
  \A e \in events :
    /\ e.frame.proposalId \in DOMAIN proposedAt
    /\ due[e] <= proposedAt[e.frame.proposalId] + LatestAfter(e)
    /\ e.frame.type = "DECISION_ACK" => IsAsync

\* A proposal is made before the stop time, once, of a request no longer fresh.
ProposedOnce ==
  /\ DOMAIN proposedAt \subseteq DOMAIN requested \ FreshIds
  /\ \A s \in Server : Ids(m_proposals[s]) \subseteq DOMAIN proposedAt
  /\ \A i \in DOMAIN proposedAt :
       proposedAt[i] \in Nat /\ proposedAt[i] <= now /\ proposedAt[i] < m_stopTime

ProposalInv == ProposedOnce /\ MessagesInTime

\* The time to the next slot, or to the next poll.
ProposeInterval == IF IsAsync THEN PollInterval ELSE m_proposePeriod

\* No slot, poll or request is scheduled from the stop time on.
TimersInTime ==
  /\ \A s \in Server :
       /\ proposeEvents[s] <= 1
       /\ proposeEvents[s] > 0 => /\ proposeAt[s] <= now + ProposeInterval
                                  /\ proposeAt[s] <= m_stopTime + ProposeInterval
  /\ sendEvent => sendAt <= m_stopTime + m_sendInterval

\* When request i, delayed by d, calls the handler of r.
HandledAt(r, d) ==
  requestedAt[r.frame.id] + d + (IF r.fn = "ReceiveRequest" THEN 0 ELSE HandlingDelay)

\* A request was sent before the stop time, and is handled after its delay.
RequestsInTime ==
  /\ Len(requestedAt) = Len(requested)
  /\ \A i \in DOMAIN requestedAt : requestedAt[i] < m_stopTime
  /\ \A r \in requestEvents :
       /\ r.frame.id \in DOMAIN requested
       /\ \E d \in RequestDelay : due[r] = HandledAt(r, d)

DeadlineInv == ProposalInv /\ TimersInTime /\ RequestsInTime /\ EndsInTime
-------------------------------------------------------------------------------
DecisionPending(t, i) ==
  \E e \in events : e.frame.type = "DECISION" /\ e.at = t /\ e.frame.proposalId = i

\* The acceptors that have answered the PROPOSAL of p: they were counted.
Answered(s, p) == {t \in Server \ {s} : ~VotePending(t, p.id)}

\* The learners that have answered the DECISION of p.
Confirming(s, p) ==
  {t \in Server \ {s} : ~DecisionPending(t, p.id) /\ ~AckPending(t, p.id)}

(***************************************************************************)
(* Nothing is lost: a proposal that stays undecided, or incomplete, has    *)
(* counted every answer, and those are not enough.                         *)
(***************************************************************************)
AnswersOf(s, p) ==
  /\ p.decided => IsAsync
  /\ ~p.decided => /\ 1 + Cardinality(Answered(s, p)) <= p.numAck
                   /\ ~EnoughVotes(p.numAck)
  /\ p.decided => /\ 1 + Cardinality(Confirming(s, p)) <= p.numDecisionAck
                  /\ ~EnoughVotes(p.numDecisionAck)

AnswersCounted == \A s \in Server : \A p \in m_proposals[s] : AnswersOf(s, p)

\* Of a proposal made, the decision is to be taken, on its way or learned.
Undecided(s, i) == \E p \in m_proposals[s] : p.id = i /\ ~p.decided

SentToAll(s, i) ==
  /\ \A t \in Server \ {s} : i \in LearnedIds[t] \/ DecisionPending(t, i)
  /\ i \in LearnedIds[s] \/ \E p \in m_proposals[s] : p.id = i

DecisionComesFor(i) == \E s \in Server : Undecided(s, i) \/ SentToAll(s, i)

DecisionComes == \A i \in DOMAIN proposedAt : DecisionComesFor(i)

AnswerInv == AnswersCounted /\ DecisionComes
-------------------------------------------------------------------------------
(***************************************************************************)
(* A synchronous server has at most one proposal unfinished, that of its   *)
(* last slot, a period before its next.                                    *)
(***************************************************************************)
LastSlotOnly ==
  ~IsAsync =>
    \A s \in Server :
      /\ \A p, q \in m_proposals[s] : p = q
      /\ \A p \in m_proposals[s] :
           proposeEvents[s] > 0 => proposedAt[p.id] + m_proposePeriod <= proposeAt[s]
-------------------------------------------------------------------------------
\* The requests arrive at a server in the order in which they were sent.
RequestsInOrder ==
  /\ sendEvent => \A i \in DOMAIN requestedAt : requestedAt[i] + m_sendInterval <= sendAt
  /\ \A i, j \in DOMAIN requestedAt :
       i < j => requestedAt[i] + m_sendInterval <= requestedAt[j]
  /\ \A s \in Server :
       /\ \A j, k \in DOMAIN m_waitingProposals[s] :
            j < k => m_waitingProposals[s][j].id < m_waitingProposals[s][k].id
       /\ \A r \in requestEvents : \A k \in DOMAIN m_waitingProposals[s] :
            r.at = s => m_waitingProposals[s][k].id < r.frame.id

\* A request is on its way, waits, or has been proposed, while slots go on.
NoRequestLost ==
  stopped = {} =>
    /\ \A s \in Server : proposeEvents[s] > 0
    /\ DOMAIN requested \subseteq FreshIds \cup DOMAIN proposedAt

\* The k-th request that waits is proposed k slots from now, within its time.
WaitingInTime ==
  \A s \in Server : \A k \in DOMAIN m_waitingProposals[s] :
    LET i == m_waitingProposals[s][k].id
    IN  /\ k <= Position(i)
        /\ proposeEvents[s] > 0 =>
             proposeAt[s] + (k - 1) * m_proposePeriod
               <= ArrivesBy(i) + Position(i) * m_proposePeriod

QueueInv == ~IsAsync => RequestsInOrder /\ NoRequestLost /\ WaitingInTime
================================================================================
