------------------------------ MODULE TimedPaxos -------------------------------
(***************************************************************************)
(* SyncPaxos with the times of the code, in nanoseconds from the start of  *)
(* the applications.  The event list runs the event with the least time;   *)
(* of those with the same time the stop events first, the others in any    *)
(* order.  Datagrams are not lost.                                         *)
(***************************************************************************)
EXTENDS SyncPaxos

CONSTANTS
  clockSyncError,       \* the options of the synchronous mode
  boundedMessageDelay,
  linkDelay,            \* the option of the asynchronous mode
  Word,                 \* 2^32: the range of uint32_t
  MessageDelay,         \* how long a datagram between servers may take
  RequestDelay,         \* how long one of the client may take
  StopTimes             \* the values of m_stopTime explored

ASSUME ConfigAssumption ==
  /\ clockSyncError \in Nat /\ boundedMessageDelay \in Nat /\ linkDelay \in Nat
  /\ Word \in Nat \ {0}
ASSUME DelayAssumption ==
  MessageDelay \subseteq Nat /\ RequestDelay \subseteq Nat
ASSUME LongestAssumption ==
  \A D \in {MessageDelay, RequestDelay} : \E d \in D : \A x \in D : x <= d
ASSUME StopAssumption == StopTimes \subseteq Nat \ {0}

VARIABLES
  now,          \* Simulator::Now(): the time of the event run last
  due,          \* the time of each pending event that carries a frame
  proposeAt,    \* the time of each server's pending DoSync/DoAsyncPropose
  sendAt,       \* the time of the client's pending SendRequest
  m_stopTime,   \* the attribute all applications share
  requestedAt,  \* history: the timestamp of each request
  proposedAt    \* history: m_proposeTime, by proposal id

timeVars == <<now, due, proposeAt, sendAt, m_stopTime, requestedAt, proposedAt>>
timedVars == <<vars, timeVars>>

\* How far apart the first slots of two neighbours are.
SlotWidth == 2 * clockSyncError + boundedMessageDelay

\* Mutations: the period of one server alone; a period never computed.
BugPeriodOfOne  == SlotWidth
BugPeriodUnset  == 0

m_proposePeriod == SlotWidth * NumNodes

\* Mutation: nanoseconds taken for microseconds.
BugIntervalInMicros ==
  (IF IsAsync THEN linkDelay \div 5000000 ELSE boundedMessageDelay \div 100000000) % Word

\* The client's interval, a uint32_t.
m_sendInterval ==
  (IF IsAsync THEN linkDelay \div 5 ELSE boundedMessageDelay \div 10) % Word

\* MicroSeconds(1): the leader's poll.  NanoSeconds(10): two handlers.
PollInterval  == 1000
HandlingDelay == 10

DelayOf(x) ==
  CASE x.fn = "ReceiveMessage" -> MessageDelay
    [] x.fn = "ReceiveRequest" -> RequestDelay
    [] OTHER                   -> {HandlingDelay}

Pending == requestEvents \cup events
--------------------------------------------------------------------------------
TimedInit ==
  /\ Init
  /\ now = 0
  /\ due = [x \in Pending |-> 0]
  /\ proposeAt = [s \in Server |-> IF IsAsync THEN PollInterval ELSE s * SlotWidth]
  /\ sendAt = 0
  /\ m_stopTime \in StopTimes
  /\ requestedAt = <<>>
  /\ proposedAt = [i \in {} |-> 0]

\* No pending event is earlier than t.
Earliest(t) ==
  /\ \A x \in Pending : t <= due[x]
  /\ \A s \in Server : proposeEvents[s] > 0 => t <= proposeAt[s]
  /\ sendEvent => t <= sendAt
  /\ stopped # Server => t <= m_stopTime

\* Mutation: among events of one time the stop events come in any order.
BugStopInAnyOrder(t) == Earliest(t) /\ now' = t

(***************************************************************************)
(* An event of time t, other than a stop event, may be the next to run:    *)
(* the stop events were inserted first and precede the others of their     *)
(* time.                                                                   *)
(***************************************************************************)
RunsAt(t) ==
  /\ Earliest(t)
  /\ stopped # Server => t < m_stopTime
  /\ now' = t

\* Mutation: the delay is taken for a time.
BugAbsoluteTime(t) ==
  \E delay \in [Pending' \ Pending -> MessageDelay \cup RequestDelay \cup {HandlingDelay}] :
    /\ \A x \in DOMAIN delay : delay[x] \in DelayOf(x)
    /\ due' = [x \in Pending' |-> IF x \in Pending THEN due[x] ELSE delay[x]]

\* The events inserted by a step at time t get their times.
Schedule(t) ==
  \E delay \in [Pending' \ Pending -> MessageDelay \cup RequestDelay \cup {HandlingDelay}] :
    /\ \A x \in DOMAIN delay : delay[x] \in DelayOf(x)
    /\ due' = [x \in Pending' |-> IF x \in Pending THEN due[x] ELSE t + delay[x]]

Ids(P) == {p.id : p \in P}

\* History: the proposals made in a step at time t.
NoteProposals(t) ==
  proposedAt' =
    [i \in DOMAIN proposedAt
             \cup UNION {Ids(m_proposals'[s]) \ Ids(m_proposals[s]) : s \in Server} |->
       IF i \in DOMAIN proposedAt THEN proposedAt[i] ELSE t]

TimedRequestStep ==
  /\ \E r \in requestEvents :
       /\ RunsAt(due[r])
       /\ ReceiveRequest(r) \/ CreateProposalFromRequest(r)
       /\ Schedule(due[r])
  /\ UNCHANGED <<clientVars, proposeAt, sendAt, m_stopTime, requestedAt, proposedAt>>

\* Each DoSyncPropose schedules the next, each idle DoAsyncPropose a poll.
TimedProposeStep(s) ==
  LET t == proposeAt[s]
  IN  /\ RunsAt(t)
      /\ DoSyncPropose(s) \/ DoAsyncPropose(s)
      /\ proposeAt' =
           [proposeAt EXCEPT
              ![s] = t + (IF IsAsync THEN PollInterval ELSE m_proposePeriod)]
      /\ Schedule(t)
      /\ NoteProposals(t)
      /\ UNCHANGED <<clientVars, sendAt, m_stopTime, requestedAt>>

\* The completing DECISION_ACK may find the queue empty and start to poll.
TimedMessageStep ==
  /\ \E e \in events :
       /\ RunsAt(due[e])
       /\ ReceiveMessage(e) \/ SendAcceptMessage(e)
       /\ proposeAt' =
            [s \in Server |-> IF proposeEvents'[s] > proposeEvents[s]
                              THEN due[e] + PollInterval
                              ELSE proposeAt[s]]
       /\ Schedule(due[e])
       /\ NoteProposals(due[e])
  /\ UNCHANGED <<clientVars, sendAt, m_stopTime, requestedAt>>

(***************************************************************************)
(* The timestamp of a request is the time it is sent.  After the last of   *)
(* MaxRequests requests, a bound, the client waits for the stop time.      *)
(***************************************************************************)
TimedSendRequest ==
  LET t == sendAt
      next == t + m_sendInterval
  IN  /\ RunsAt(t)
      /\ SendRequest
      /\ sendAt' = IF Len(requested') < MaxRequests \/ next > m_stopTime
                   THEN next
                   ELSE m_stopTime
      /\ requestedAt' = IF PastStopTime THEN requestedAt ELSE Append(requestedAt, t)
      /\ Schedule(t)
      /\ UNCHANGED <<serverVars, proposeAt, m_stopTime, proposedAt>>

TimedStop(s) ==
  /\ Earliest(m_stopTime)
  /\ now' = m_stopTime
  /\ StopApplication(s)
  /\ UNCHANGED <<clientVars, due, proposeAt, sendAt, m_stopTime, requestedAt, proposedAt>>

TimedEnd ==
  /\ RunEnded
  /\ UNCHANGED timedVars

TimedNext ==
  \/ TimedRequestStep
  \/ \E s \in Server : TimedProposeStep(s)
  \/ TimedMessageStep
  \/ TimedSendRequest
  \/ \E s \in Server : TimedStop(s)
  \/ TimedEnd

TimedSpec == TimedInit /\ [][TimedNext]_timedVars

\* Run takes the next event from the list as long as there is one.
TimedFairSpec == TimedSpec /\ WF_timedVars(TimedNext)
--------------------------------------------------------------------------------
(***************************************************************************)
(* The type of the times, and that time does not go back: nothing pending  *)
(* is due before now.                                                      *)
(***************************************************************************)
TimeTypeOK ==
  /\ now \in Nat
  /\ due \in [Pending -> Nat]
  /\ proposeAt \in [Server -> Nat]
  /\ sendAt \in Nat
  /\ m_stopTime \in StopTimes
  /\ requestedAt \in Seq(Nat)
  /\ DOMAIN proposedAt \subseteq Id
  /\ Earliest(now)

(***************************************************************************)
(* The untimed model writes the test Now() >= m_stopTime as: the stop      *)
(* events have run.  Whenever a handler runs the two are the same.         *)
(***************************************************************************)
StopIsTimed == BetweenEvents => (PastStopTime <=> now >= m_stopTime)

(***************************************************************************)
(* Timestamps are distinct and increase, so that a request's index can     *)
(* stand for its timestamp, and the proposal id made of it is its own.     *)
(***************************************************************************)
TimestampsIncrease ==
  /\ Len(requestedAt) = Len(requested)
  /\ \A i, j \in DOMAIN requestedAt : i < j => requestedAt[i] < requestedAt[j]

(***************************************************************************)
(* What time slots are for: the PROPOSALs on their way are all of one      *)
(* server and one slot, so that acceptors record proposals in the order in *)
(* which they are made.                                                    *)
(***************************************************************************)
ProposalsOnTheWay ==
  {e \in events : e.fn = "ReceiveMessage" /\ e.frame.type = "PROPOSAL"}

OneSlotOnTheWay ==
  ~IsAsync =>
    \A x, y \in ProposalsOnTheWay : x.frame.proposalId = y.frame.proposalId

\* A synchronous server is done with a proposal when its next slot comes.
DoneBeforeNextSlot ==
  ~IsAsync => \A s \in Server : Cardinality(m_proposals[s]) <= 1

(***************************************************************************)
(* The slots of a synchronous server serve its requests in their order:    *)
(* one that has k requests before it is proposed k + 1 periods after it    *)
(* arrived at the latest, whatever happens to the proposals before it.     *)
(***************************************************************************)
ArrivesBy(i) == requestedAt[i] + Max(RequestDelay) + HandlingDelay
Position(i)  == Cardinality({j \in 1 .. i : requested[j].to = requested[i].to})

ProposedInTime ==
  ~IsAsync =>
    \A i \in DOMAIN requested :
      (now < m_stopTime /\ now > ArrivesBy(i) + Position(i) * m_proposePeriod)
        => i \in DOMAIN proposedAt

(***************************************************************************)
(* A proposal is learned by every server within the time of its messages:  *)
(* PROPOSAL, ACCEPT, DECISION, and at the asynchronous leader DECISION_ACK.*)
(***************************************************************************)
DecisionTime == (IF IsAsync THEN 4 ELSE 3) * Max(MessageDelay) + HandlingDelay

LearnedInTime ==
  \A i \in DOMAIN proposedAt :
    now > proposedAt[i] + DecisionTime
      => \A s \in Server : \E d \in Learned(s) : d.id = i

(***************************************************************************)
(* The run ends soon after the stop time: the last slot, poll or request   *)
(* finds it has passed, and the messages then on their way are the last.   *)
(***************************************************************************)
LastEvent ==
  m_stopTime + Max({m_proposePeriod, PollInterval, m_sendInterval, DecisionTime,
                    Max(RequestDelay) + HandlingDelay})

EndsInTime == now <= LastEvent

\* The program ends.
Terminates == <>RunEnded

(***************************************************************************)
(* With times, the program still does nothing but what SyncPaxos says: the *)
(* properties of every behaviour there hold here.                          *)
(***************************************************************************)
Untimed == Spec

(***************************************************************************)
(* What SyncPaxos assumes of the event list to show its liveness follows   *)
(* from the times: every slot, poll, request and message gets its turn.    *)
(***************************************************************************)
UntimedFairness == Fairness

(***************************************************************************)
(* "Maximum message delay" (m_boundedMessageDelay): no message takes       *)
(* longer.                                                                 *)
(***************************************************************************)
MessagesBounded ==
  \A e \in events : e.fn = "ReceiveMessage" => due[e] <= now + boundedMessageDelay
================================================================================
