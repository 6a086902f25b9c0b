--------------------------- MODULE TimedPaxos_proofs ---------------------------
(***************************************************************************)
(* What the times of the code give: the stop events are the stop time, so  *)
(* that every timed behaviour is one of SyncPaxos; requests have           *)
(* timestamps of their own; and time slots keep proposals apart.           *)
(***************************************************************************)
EXTENDS TimedPaxosInv, SyncPaxosSecondRound_proofs

(***************************************************************************)
(* The constants.                                                          *)
(***************************************************************************)
LEMMA IntervalTypes ==
  /\ SlotWidth \in Nat
  /\ m_proposePeriod \in Nat
  /\ m_sendInterval \in Nat
<1>1. SlotWidth \in Nat
  BY ConfigAssumption DEF SlotWidth
<1>2. m_proposePeriod \in Nat
  BY <1>1, NumNodesAssumption DEF m_proposePeriod
<1>3. linkDelay \div 5 \in Nat /\ boundedMessageDelay \div 10 \in Nat
  BY ConfigAssumption
<1>4. m_sendInterval \in Nat
  BY <1>3, ConfigAssumption DEF m_sendInterval
<1>5. QED
  BY <1>1, <1>2, <1>4

\* Every delay is a natural number.
LEMMA DelayTypes ==
  ASSUME NEW x
  PROVE  DelayOf(x) \subseteq Nat
  BY DelayAssumption DEF DelayOf, HandlingDelay

(***************************************************************************)
(* What a step schedules is not due before the step.                       *)
(***************************************************************************)
LEMMA ScheduleType ==
  ASSUME NEW t \in Nat, due \in [Pending -> Nat],
         \A x \in Pending : t <= due[x],
         Schedule(t)
  PROVE  /\ due' \in [Pending' -> Nat]
         /\ \A x \in Pending' : t <= due'[x]
<1>1. PICK delay \in [Pending' \ Pending -> MessageDelay \cup RequestDelay \cup {HandlingDelay}] :
        /\ \A x \in DOMAIN delay : delay[x] \in DelayOf(x)
        /\ due' = [x \in Pending' |-> IF x \in Pending THEN due[x] ELSE t + delay[x]]
  BY DEF Schedule
<1>2. ASSUME NEW x \in Pending', x \notin Pending
      PROVE  delay[x] \in Nat
  BY <1>1, <1>2, DelayTypes
<1>3. QED
  BY <1>1, <1>2

(***************************************************************************)
(* A handler runs before all stop events or after them.                    *)
(***************************************************************************)
LEMMA RunsBetweenStops ==
  ASSUME ClockInv, NEW t \in Nat, now <= t, RunsAt(t)
  PROVE  /\ BetweenEvents
         /\ stopped = {} <=> t < m_stopTime
         /\ Earliest(t) /\ now' = t
<1>1. now \in Nat /\ m_stopTime \in Nat
  BY StopAssumption DEF ClockInv, TimeTypeOK
<1>2. Server # {}
  BY NumNodesAssumption DEF Server
<1>3. QED
  BY <1>1, <1>2 DEF RunsAt, ClockInv, BetweenEvents

\* The times at which each of the timed actions runs its event.
LEMMA EventTimes ==
  ASSUME ClockInv
  PROVE  /\ \A x \in Pending : due[x] \in Nat /\ now <= due[x]
         /\ \A s \in Server : /\ proposeAt[s] \in Nat
                              /\ proposeEvents[s] > 0 => now <= proposeAt[s]
         /\ sendAt \in Nat /\ (sendEvent => now <= sendAt)
  BY DEF ClockInv, TimeTypeOK, Earliest

\* The servers stop at the stop time, not before it has come.
LEMMA StopsInTime ==
  ASSUME ClockInv, NEW s \in Server, TimedStop(s)
  PROVE  now <= m_stopTime
<1>1. s \in Int /\ stopped = 0 .. s - 1
  BY NumNodesAssumption DEF Server, TimedStop, StopApplication
<1>2. s \notin stopped
  BY <1>1
<1>3. QED
  BY <1>2 DEF ClockInv, TimeTypeOK, Earliest

(***************************************************************************)
(* Every timed step is one of SyncPaxos.                                   *)
(***************************************************************************)
LEMMA StepIsUntimed ==
  ASSUME TypeOK, ClockInv, TimedNext
  PROVE  [Next]_vars
<1>1. CASE TimedRequestStep
  <2>1. PICK r \in requestEvents : /\ RunsAt(due[r])
                                   /\ ReceiveRequest(r) \/ CreateProposalFromRequest(r)
    BY <1>1 DEF TimedRequestStep
  <2>2. r.at \in Server /\ r \in Pending
    BY DEF TypeOK, SimTypeOK, RequestEvent, Pending
  <2>3. BetweenEvents
    BY <2>1, <2>2, EventTimes, RunsBetweenStops
  <2>4. RequestStep(r.at) /\ UNCHANGED clientVars
    BY <1>1, <2>1, <2>3 DEF RequestStep, TimedRequestStep
  <2>5. QED
    BY <2>2, <2>4 DEF Next, ServerStep
<1>2. ASSUME NEW s \in Server, TimedProposeStep(s)
      PROVE  [Next]_vars
  <2>1. /\ RunsAt(proposeAt[s])
        /\ DoSyncPropose(s) \/ DoAsyncPropose(s)
        /\ UNCHANGED clientVars
    BY <1>2 DEF TimedProposeStep
  <2>2. proposeEvents[s] > 0
    BY <2>1 DEF DoSyncPropose, DoAsyncPropose
  <2>3. BetweenEvents
    BY <2>1, <2>2, EventTimes, RunsBetweenStops
  <2>4. QED
    BY <2>1, <2>3 DEF Next, ServerStep, ProposeStep
<1>3. CASE TimedMessageStep
  <2>1. PICK e \in events : /\ RunsAt(due[e])
                            /\ ReceiveMessage(e) \/ SendAcceptMessage(e)
    BY <1>3 DEF TimedMessageStep
  <2>2. e.at \in Server /\ e \in Pending
    BY DEF TypeOK, SimTypeOK, Event, Pending
  <2>3. BetweenEvents
    BY <2>1, <2>2, EventTimes, RunsBetweenStops
  <2>4. MessageStep(e.at) /\ UNCHANGED clientVars
    BY <1>3, <2>1, <2>3 DEF MessageStep, TimedMessageStep
  <2>5. QED
    BY <2>2, <2>4 DEF Next, ServerStep
<1>4. CASE TimedSendRequest
  BY <1>4 DEF TimedSendRequest, Next, ClientStep
<1>5. ASSUME NEW s \in Server, TimedStop(s)
      PROVE  [Next]_vars
  BY <1>5 DEF TimedStop, Next, ServerStep
<1>6. CASE TimedEnd
  BY <1>6 DEF TimedEnd, timedVars
<1>7. QED
  BY <1>1, <1>2, <1>3, <1>4, <1>5, <1>6 DEF TimedNext

\* The invariant of the clock holds at the start.
LEMMA ClockInit == TimedInit => ClockInv
<1> SUFFICES ASSUME TimedInit PROVE ClockInv
  OBVIOUS
<1>1. /\ now = 0 /\ sendAt = 0 /\ stopped = {}
      /\ m_stopTime \in StopTimes /\ m_stopTime \in Nat \ {0}
  BY StopAssumption DEF TimedInit, Init, SimInit
<1>2. /\ due \in [Pending -> Nat]
      /\ \A x \in Pending : due[x] = 0
  BY DEF TimedInit
<1>3. proposeAt \in [Server -> Nat]
  <2>1. \A s \in Server : s * SlotWidth \in Nat
    BY IntervalTypes, NumNodesAssumption DEF Server
  <2>2. QED
    BY <2>1 DEF TimedInit, PollInterval
<1>4. requestedAt \in Seq(Nat) /\ DOMAIN proposedAt \subseteq Id
  BY EmptySeq DEF TimedInit
<1>5. Earliest(now)
  BY <1>1, <1>2, <1>3 DEF Earliest
<1>6. QED
  BY <1>1, <1>2, <1>3, <1>4, <1>5 DEF ClockInv, TimeTypeOK

(***************************************************************************)
(* A handler of time t that leaves nothing earlier than t pending keeps    *)
(* ClockInv.                                                               *)
(***************************************************************************)
LEMMA HandlerKeepsClock ==
  ASSUME ClockInv, NEW t \in Nat, now <= t, RunsAt(t),
         stopped' = stopped, m_stopTime' = m_stopTime,
         due' \in [Pending' -> Nat], \A x \in Pending' : t <= due'[x],
         proposeAt' \in [Server -> Nat],
         \A s \in Server : proposeEvents'[s] > 0 => t <= proposeAt'[s],
         sendAt' \in Nat, sendEvent' => t <= sendAt',
         requestedAt' \in Seq(Nat), DOMAIN proposedAt' \subseteq Id
  PROVE  ClockInv'
<1>1. /\ stopped = {} <=> t < m_stopTime
      /\ Earliest(t) /\ now' = t
  BY RunsBetweenStops
<1>2. m_stopTime \in StopTimes
  BY DEF ClockInv, TimeTypeOK
<1>3. Earliest(now)'
  BY <1>1 DEF Earliest
<1>4. QED
  BY <1>1, <1>2, <1>3 DEF ClockInv, TimeTypeOK

\* The proposals noted have ids.
LEMMA NotedTypes ==
  ASSUME NEW t, TypeOK', DOMAIN proposedAt \subseteq Id, NoteProposals(t)
  PROVE  DOMAIN proposedAt' \subseteq Id
<1>1. \A s \in Server : m_proposals'[s] \subseteq Proposal
  BY DEF TypeOK, ServerTypeOK
<1>2. \A s \in Server : Ids(m_proposals'[s]) \subseteq Id
  BY <1>1 DEF Ids, Proposal
<1>3. QED
  BY <1>2 DEF NoteProposals

\* Every step keeps the invariant of the clock.
LEMMA ClockStep == TypeOK /\ TypeOK' /\ ClockInv /\ [TimedNext]_timedVars => ClockInv'
<1> SUFFICES ASSUME TypeOK, TypeOK', ClockInv, [TimedNext]_timedVars
             PROVE  ClockInv'
  OBVIOUS
<1>a. /\ due \in [Pending -> Nat] /\ proposeAt \in [Server -> Nat]
      /\ sendAt \in Nat /\ requestedAt \in Seq(Nat)
      /\ DOMAIN proposedAt \subseteq Id
      /\ m_stopTime \in StopTimes /\ m_stopTime \in Nat
      /\ proposeEvents \in [Server -> Nat]
  BY StopAssumption DEF ClockInv, TimeTypeOK, TypeOK, ServerTypeOK
<1>1. CASE TimedRequestStep
  <2>1. PICK r \in requestEvents : /\ RunsAt(due[r])
                                   /\ ReceiveRequest(r) \/ CreateProposalFromRequest(r)
                                   /\ Schedule(due[r])
    BY <1>1 DEF TimedRequestStep
  <2>2. due[r] \in Nat /\ now <= due[r]
    BY EventTimes DEF Pending
  <2>3. Earliest(due[r])
    BY <2>1 DEF RunsAt
  <2>4. due' \in [Pending' -> Nat] /\ \A x \in Pending' : due[r] <= due'[x]
    BY <1>a, <2>1, <2>2, <2>3, ScheduleType DEF Earliest
  <2>5. stopped' = stopped /\ proposeEvents' = proposeEvents
    BY <2>1 DEF ReceiveRequest, CreateProposalFromRequest, serverVars, proposerVars
  <2>6. UNCHANGED <<sendEvent, proposeAt, sendAt, m_stopTime, requestedAt, proposedAt>>
    BY <1>1 DEF TimedRequestStep, clientVars
  <2>7. QED
    BY <1>a, <2>1, <2>2, <2>3, <2>4, <2>5, <2>6, HandlerKeepsClock DEF Earliest
<1>2. ASSUME NEW s \in Server, TimedProposeStep(s)
      PROVE  ClockInv'
  <2> DEFINE t == proposeAt[s]
  <2>1. /\ RunsAt(t) /\ Schedule(t) /\ NoteProposals(t)
        /\ DoSyncPropose(s) \/ DoAsyncPropose(s)
        /\ proposeAt' = [proposeAt EXCEPT
             ![s] = t + (IF IsAsync THEN PollInterval ELSE m_proposePeriod)]
        /\ UNCHANGED <<sendEvent, sendAt, m_stopTime, requestedAt>>
    BY <1>2 DEF TimedProposeStep, clientVars
  <2>2. proposeEvents[s] > 0
    BY <2>1 DEF DoSyncPropose, DoAsyncPropose
  <2>3. t \in Nat /\ now <= t
    BY <2>2, EventTimes
  <2>4. Earliest(t)
    BY <2>1 DEF RunsAt
  <2>5. due' \in [Pending' -> Nat] /\ \A x \in Pending' : t <= due'[x]
    BY <1>a, <2>1, <2>3, <2>4, ScheduleType DEF Earliest
  <2>6. /\ stopped' = stopped
        /\ \A u \in Server \ {s} : proposeEvents'[u] = proposeEvents[u]
    BY <1>a, <2>1 DEF DoSyncPropose, DoAsyncPropose, AsyncPropose
  <2>7. /\ proposeAt' \in [Server -> Nat]
        /\ \A u \in Server : proposeEvents'[u] > 0 => t <= proposeAt'[u]
    <3>1. PollInterval \in Nat /\ m_proposePeriod \in Nat
      BY IntervalTypes DEF PollInterval
    <3>2. proposeAt' \in [Server -> Nat] /\ t <= proposeAt'[s]
      BY <1>a, <2>1, <2>3, <3>1
    <3>3. \A u \in Server \ {s} : proposeAt'[u] = proposeAt[u]
      BY <1>a, <2>1
    <3>4. QED
      BY <2>4, <2>6, <3>2, <3>3 DEF Earliest
  <2>8. DOMAIN proposedAt' \subseteq Id
    BY <1>a, <2>1, NotedTypes
  <2>9. sendAt' \in Nat /\ (sendEvent' => t <= sendAt') /\ requestedAt' \in Seq(Nat)
    BY <1>a, <2>1, <2>4 DEF Earliest
  <2>10. QED
    BY <2>1, <2>3, <2>5, <2>6, <2>7, <2>8, <2>9, HandlerKeepsClock
<1>3. CASE TimedMessageStep
  <2>1. PICK e \in events :
          /\ RunsAt(due[e])
          /\ ReceiveMessage(e) \/ SendAcceptMessage(e)
          /\ proposeAt' = [s \in Server |-> IF proposeEvents'[s] > proposeEvents[s]
                                            THEN due[e] + PollInterval
                                            ELSE proposeAt[s]]
          /\ Schedule(due[e])
          /\ NoteProposals(due[e])
    BY <1>3 DEF TimedMessageStep
  <2>2. due[e] \in Nat /\ now <= due[e]
    BY EventTimes DEF Pending
  <2>3. Earliest(due[e])
    BY <2>1 DEF RunsAt
  <2>4. due' \in [Pending' -> Nat] /\ \A x \in Pending' : due[e] <= due'[x]
    BY <1>a, <2>1, <2>2, <2>3, ScheduleType DEF Earliest
  <2>5. stopped' = stopped
    BY <2>1 DEF ReceiveMessage, SendAcceptMessage, DoReceivedProposalMessage,
       DoReceivedAcceptMessage, DoReceivedDecisionMessage, DoReceivedDecisionAckMessage
  <2>6. UNCHANGED <<sendEvent, sendAt, m_stopTime, requestedAt>>
    BY <1>3 DEF TimedMessageStep, clientVars
  <2>7. /\ proposeAt' \in [Server -> Nat]
        /\ \A s \in Server : proposeEvents'[s] > 0 => due[e] <= proposeAt'[s]
    <3>1. proposeEvents' \in [Server -> Nat]
      BY DEF TypeOK, ServerTypeOK
    <3>2. QED
      BY <1>a, <2>1, <2>2, <2>3, <3>1 DEF Earliest, PollInterval
  <2>8. DOMAIN proposedAt' \subseteq Id
    BY <1>a, <2>1, NotedTypes
  <2>9. sendAt' \in Nat /\ (sendEvent' => due[e] <= sendAt') /\ requestedAt' \in Seq(Nat)
    BY <1>a, <2>3, <2>6 DEF Earliest
  <2>10. QED
    BY <2>1, <2>2, <2>4, <2>5, <2>6, <2>7, <2>8, <2>9, HandlerKeepsClock
<1>4. CASE TimedSendRequest
  <2> DEFINE t == sendAt
             next == t + m_sendInterval
  <2>1. /\ RunsAt(t) /\ Schedule(t) /\ SendRequest
        /\ sendAt' = IF Len(requested') < MaxRequests \/ next > m_stopTime
                     THEN next ELSE m_stopTime
        /\ requestedAt' = IF PastStopTime THEN requestedAt ELSE Append(requestedAt, t)
        /\ UNCHANGED <<proposeEvents, proposeAt, m_stopTime, proposedAt>>
    BY <1>4 DEF TimedSendRequest, serverVars, proposerVars
  <2>2. sendEvent /\ stopped' = stopped
    BY <2>1 DEF SendRequest
  <2>3. t \in Nat /\ now <= t
    BY <2>2, EventTimes
  <2>4. Earliest(t)
    BY <2>1 DEF RunsAt
  <2>5. due' \in [Pending' -> Nat] /\ \A x \in Pending' : t <= due'[x]
    BY <1>a, <2>1, <2>3, <2>4, ScheduleType DEF Earliest
  <2>6. sendAt' \in Nat /\ t <= sendAt'
    <3>1. next \in Nat /\ t <= next
      BY <2>3, IntervalTypes
    <3>2. QED
      BY <1>a, <2>1, <2>3, <3>1
  <2>7. requestedAt' \in Seq(Nat)
    BY <1>a, <2>1, <2>3, AppendProperties
  <2>8. proposeAt' \in [Server -> Nat]
        /\ \A s \in Server : proposeEvents'[s] > 0 => t <= proposeAt'[s]
    BY <1>a, <2>1, <2>4 DEF Earliest
  <2>9. DOMAIN proposedAt' \subseteq Id
    BY <1>a, <2>1
  <2>10. QED
    BY <2>1, <2>2, <2>3, <2>5, <2>6, <2>7, <2>8, <2>9, HandlerKeepsClock
<1>5. ASSUME NEW s \in Server, TimedStop(s)
      PROVE  ClockInv'
  <2>1. /\ Earliest(m_stopTime) /\ now' = m_stopTime
        /\ s \in stopped'
        /\ UNCHANGED <<requestEvents, events, proposeEvents, sendEvent, due,
                       proposeAt, sendAt, m_stopTime, requestedAt, proposedAt>>
    BY <1>5 DEF TimedStop, StopApplication, clientVars, proposerVars
  <2>2. Earliest(now)' /\ Pending' = Pending
    BY <2>1, <1>a DEF Earliest, Pending
  <2>3. QED
    BY <1>a, <2>1, <2>2 DEF ClockInv, TimeTypeOK
<1>6. CASE UNCHANGED timedVars
  BY <1>6, <1>a DEF timedVars, timeVars, vars, simVars, clientVars, serverVars,
     proposerVars, ClockInv, TimeTypeOK, Earliest, Pending
<1>7. QED
  BY <1>1, <1>2, <1>3, <1>4, <1>5, <1>6 DEF TimedNext, TimedEnd

(***************************************************************************)
(* The invariant of the clock: the times are well typed, nothing pending   *)
(* is in the past, and the stop time has come when the servers stop.       *)
(***************************************************************************)
THEOREM ClockCorrect == TimedSpec => [](TypeOK /\ ClockInv)
<1>1. TimedInit => TypeOK /\ ClockInv
  BY TypeInit, ClockInit DEF TimedInit
<1>2. TypeOK /\ ClockInv /\ [TimedNext]_timedVars => (TypeOK /\ ClockInv)'
  <2> SUFFICES ASSUME TypeOK, ClockInv, [TimedNext]_timedVars
               PROVE  (TypeOK /\ ClockInv)'
    OBVIOUS
  <2>1. [Next]_vars
    BY StepIsUntimed DEF timedVars
  <2>2. TypeOK'
    BY <2>1, TypeStep
  <2>3. QED
    BY <2>2, ClockStep
<1>3. QED
  BY <1>1, <1>2, PTL DEF TimedSpec

\* Time does not go back: no pending event is due before Simulator::Now().
THEOREM TimesCorrect == TimedSpec => []TimeTypeOK
<1>1. ClockInv => TimeTypeOK
  BY DEF ClockInv
<1>2. QED
  BY <1>1, ClockCorrect, PTL

\* The test Now() >= m_stopTime of the handlers is the state of the stop events.
THEOREM StopIsTimedCorrect == TimedSpec => []StopIsTimed
<1>1. TypeOK /\ ClockInv => StopIsTimed
  BY StopAssumption DEF ClockInv, TimeTypeOK, StopIsTimed, PastStopTime
<1>2. QED
  BY <1>1, ClockCorrect, PTL

(***************************************************************************)
(* With times, the program does nothing but what SyncPaxos says.           *)
(***************************************************************************)
THEOREM UntimedCorrect == TimedSpec => Untimed
<1>1. TimedInit => Init
  BY DEF TimedInit
<1>2. (TypeOK /\ ClockInv) /\ [TimedNext]_timedVars => [Next]_vars
  BY StepIsUntimed DEF timedVars
<1>3. QED
  BY <1>1, <1>2, ClockCorrect, PTL DEF TimedSpec, Untimed, Spec

(***************************************************************************)
(* Timestamps: with a positive interval each request is later than those   *)
(* before it.  The interval is zero for a bound below 10 ns, and for a     *)
(* multiple of 2^32 * 10 ns.                                               *)
(***************************************************************************)
LEMMA TimestampStep ==
  ASSUME m_sendInterval > 0, TypeOK, ClockInv, TimestampInv, [TimedNext]_timedVars
  PROVE  TimestampInv'
<1>1. CASE TimedSendRequest
  <2> DEFINE t == sendAt
             next == t + m_sendInterval
  <2>1. /\ RunsAt(t) /\ SendRequest
        /\ sendAt' = IF Len(requested') < MaxRequests \/ next > m_stopTime
                     THEN next ELSE m_stopTime
        /\ requestedAt' = IF PastStopTime THEN requestedAt ELSE Append(requestedAt, t)
    BY <1>1 DEF TimedSendRequest
  <2>2. sendEvent
    BY <2>1 DEF SendRequest
  <2>3. t \in Nat /\ m_stopTime \in Nat /\ requestedAt \in Seq(Nat)
        /\ m_sendInterval \in Nat /\ requested \in Seq([to : Server, value : Value])
    BY StopAssumption, IntervalTypes
       DEF ClockInv, TimeTypeOK, TypeOK, ClientTypeOK
  <2>4. CASE PastStopTime
    BY <2>1, <2>4 DEF SendRequest, TimestampInv, TimestampsIncrease
  <2>5. CASE ~PastStopTime
    <3>1. PICK v \in Value : requested' = Append(requested, [to |-> NextServer, value |-> v])
      BY <2>1, <2>5 DEF SendRequest
    <3>2. /\ Len(requested') = Len(requested) + 1
          /\ Len(requestedAt') = Len(requestedAt) + 1
          /\ \A i \in 1 .. Len(requestedAt) : requestedAt'[i] = requestedAt[i]
          /\ requestedAt'[Len(requestedAt) + 1] = t
          /\ Len(requestedAt) = Len(requested)
          /\ DOMAIN requestedAt' = 1 .. Len(requestedAt) + 1
      BY <2>1, <2>3, <2>5, <3>1 DEF TimestampInv, TimestampsIncrease
    <3>3. \A i \in 1 .. Len(requestedAt) : requestedAt[i] \in Nat /\ requestedAt[i] < t
      BY <2>2, <2>3 DEF TimestampInv
    <3>4. t < sendAt'
      <4>1. stopped # Server
        BY <2>5, NumNodesAssumption DEF PastStopTime, Server
      <4>2. QED
        BY <2>1, <2>3, <4>1 DEF RunsAt
    <3>5. Len(requestedAt) \in Nat
      BY <2>3
    <3>6. TimestampsIncrease'
      <4>1. \A i, j \in 1 .. Len(requestedAt) : i < j => requestedAt[i] < requestedAt[j]
        BY <2>3 DEF TimestampInv, TimestampsIncrease
      <4>2. ASSUME NEW i \in DOMAIN requestedAt', NEW j \in DOMAIN requestedAt', i < j
            PROVE  requestedAt'[i] < requestedAt'[j]
        <5>1. i \in 1 .. Len(requestedAt)
          BY <3>2, <3>5, <4>2
        <5>2. CASE j \in 1 .. Len(requestedAt)
          BY <3>2, <4>1, <4>2, <5>1, <5>2
        <5>3. CASE j = Len(requestedAt) + 1
          BY <3>2, <3>3, <5>1, <5>3
        <5>4. QED
          BY <3>2, <3>5, <5>2, <5>3
      <4>3. QED
        BY <3>2, <4>2 DEF TimestampsIncrease
    <3>7. \A i \in DOMAIN requestedAt' : requestedAt'[i] < sendAt'
      <4>1. t \in Nat /\ sendAt' \in Nat
        BY <2>1, <2>3
      <4>2. QED
        BY <3>2, <3>3, <3>4, <3>5, <4>1
    <3>8. QED
      BY <3>6, <3>7 DEF TimestampInv
  <2>6. QED
    BY <2>4, <2>5
<1>2. CASE UNCHANGED <<requested, requestedAt, sendEvent, sendAt>>
  BY <1>2 DEF TimestampInv, TimestampsIncrease
<1>3. QED
  BY <1>1, <1>2 DEF TimedNext, TimedRequestStep, TimedProposeStep, TimedMessageStep,
     TimedStop, TimedEnd, timedVars, timeVars, vars, clientVars

\* If the interval is positive, the timestamps of requests are distinct and increase.
THEOREM TimestampsCorrect ==
  m_sendInterval > 0 => (TimedSpec => []TimestampsIncrease)
<1> SUFFICES ASSUME m_sendInterval > 0
             PROVE  TimedSpec => []TimestampsIncrease
  OBVIOUS
<1>1. TimedInit => TimestampInv
  BY DEF TimedInit, Init, ClientInit, TimestampInv, TimestampsIncrease
<1>2. (TypeOK /\ ClockInv) /\ TimestampInv /\ [TimedNext]_timedVars => TimestampInv'
  BY TimestampStep
<1>3. TimestampInv => TimestampsIncrease
  BY DEF TimestampInv
<1>4. QED
  BY <1>1, <1>2, <1>3, ClockCorrect, PTL DEF TimedSpec

(***************************************************************************)
(* Time slots.  Initially server s has the slot s * SlotWidth.             *)
(***************************************************************************)
LEMMA TimesMonotone ==
  ASSUME NEW a \in Nat, NEW b \in Nat, NEW w \in Nat, a <= b
  PROVE  a * w <= b * w
<1>1. PICK k \in Nat : b = a + k
  <2>1. b - a \in Nat /\ b = a + (b - a)
    OBVIOUS
  <2>2. QED
    BY <2>1
<1>2. b * w = a * w + k * w
  BY <1>1
<1>3. k * w \in Nat /\ a * w \in Nat
  OBVIOUS
<1>4. QED
  BY <1>2, <1>3

\* The first slots of two servers are a slot apart.
LEMMA FirstSlotsApart ==
  ASSUME NEW s \in Server, NEW t \in Server, s # t, s * SlotWidth <= t * SlotWidth
  PROVE  /\ s * SlotWidth + SlotWidth <= t * SlotWidth
         /\ t * SlotWidth + SlotWidth <= s * SlotWidth + m_proposePeriod
<1>1. /\ s \in Nat /\ t \in Nat /\ SlotWidth \in Nat /\ NumNodes \in Nat
      /\ t + 1 <= NumNodes
  BY IntervalTypes, NumNodesAssumption DEF Server
<1>2. /\ s * SlotWidth \in Nat /\ t * SlotWidth \in Nat
      /\ (s + 1) * SlotWidth = s * SlotWidth + SlotWidth
      /\ (t + 1) * SlotWidth = t * SlotWidth + SlotWidth
      /\ NumNodes * SlotWidth = m_proposePeriod
  BY <1>1 DEF m_proposePeriod
<1>3. (t + 1) * SlotWidth <= NumNodes * SlotWidth
  BY <1>1, TimesMonotone
<1>4. (s + 1) * SlotWidth <= t * SlotWidth
  <2>1. CASE s < t
    BY <1>1, <2>1, TimesMonotone
  <2>2. CASE t < s
    <3>1. (t + 1) * SlotWidth <= s * SlotWidth
      BY <1>1, <2>2, TimesMonotone
    <3>2. SlotWidth = 0
      BY <1>1, <1>2, <3>1
    <3>3. QED
      BY <1>1, <3>2
  <2>3. QED
    BY <1>1, <2>1, <2>2
<1>5. QED
  BY <1>1, <1>2, <1>3, <1>4

\* A period has at least one slot.
LEMMA SlotWithinPeriod == SlotWidth <= m_proposePeriod
<1>1. SlotWidth \in Nat /\ NumNodes \in Nat /\ 1 <= NumNodes
  BY IntervalTypes, NumNodesAssumption
<1>2. 1 * SlotWidth <= NumNodes * SlotWidth
  BY <1>1, TimesMonotone
<1>3. QED
  BY <1>1, <1>2 DEF m_proposePeriod

\* The invariant of the slots holds at the start.
LEMMA SlotInit == TimedInit => SlotInv
<1> SUFFICES ASSUME TimedInit, ~IsAsync
             PROVE  SlotsApart /\ ArriveBeforeSlots /\ OneSlotOnTheWay
  BY DEF SlotInv
<1>1. \A s \in Server : proposeAt[s] = s * SlotWidth
  BY DEF TimedInit
<1>2. ProposalsOnTheWay = {}
  BY DEF TimedInit, Init, SimInit, ProposalsOnTheWay
<1>3. QED
  BY <1>1, <1>2, FirstSlotsApart DEF SlotsApart, ArriveBeforeSlots, OneSlotOnTheWay

(***************************************************************************)
(* Only a slot sends PROPOSALs.                                            *)
(***************************************************************************)
LEMMA NoNewProposals ==
  ASSUME SlotInv, NEW t, Schedule(t), proposeAt' = proposeAt,
         proposeEvents' = proposeEvents, ProposalsOnTheWay' \subseteq ProposalsOnTheWay
  PROVE  SlotInv'
<1>1. \A x \in ProposalsOnTheWay' : due'[x] = due[x]
  BY DEF Schedule, ProposalsOnTheWay, Pending
<1>2. QED
  BY <1>1 DEF SlotInv, SlotsApart, ArriveBeforeSlots, OneSlotOnTheWay

\* Only a propose event puts PROPOSALs on their way in the synchronous protocol.
LEMMA HandlersDoNotPropose ==
  ASSUME ~IsAsync, NEW e \in events, ReceiveMessage(e) \/ SendAcceptMessage(e)
  PROVE  /\ ProposalsOnTheWay' \subseteq ProposalsOnTheWay
         /\ proposeEvents' = proposeEvents
<1>1. CASE DoReceivedProposalMessage(e)
  BY <1>1 DEF DoReceivedProposalMessage, ProposalsOnTheWay, proposerVars
<1>2. CASE SendAcceptMessage(e)
  <2> DEFINE f == [e.frame EXCEPT !.type = "ACCEPT", !.acceptorId = e.at]
  <2>1. events' = (events \ {e}) \cup {Datagram(f.proposerId, f)}
    BY <1>2 DEF SendAcceptMessage
  <2>2. f.type # "PROPOSAL"
    OBVIOUS
  <2>3. Datagram(f.proposerId, f).frame = f
    BY DEF Datagram
  <2>4. QED
    BY <1>2, <2>1, <2>2, <2>3
       DEF SendAcceptMessage, ProposalsOnTheWay, serverVars, proposerVars
<1>3. CASE DoReceivedAcceptMessage(e)
  <2> DEFINE f == [e.frame EXCEPT !.type = "DECISION"]
  <2>1. \/ events' = events \ {e}
        \/ events' = (events \ {e}) \cup Broadcast(e.at, f)
    BY <1>3 DEF DoReceivedAcceptMessage, SendDecisionMessage
  <2>2. f.type # "PROPOSAL"
    OBVIOUS
  <2>3. \A x \in Broadcast(e.at, f) : x.frame = f
    BY DEF Broadcast, Datagram
  <2>4. proposeEvents' = proposeEvents
    BY <1>3 DEF DoReceivedAcceptMessage
  <2>5. QED
    BY <2>1, <2>2, <2>3, <2>4 DEF ProposalsOnTheWay
<1>4. CASE DoReceivedDecisionMessage(e)
  BY <1>4 DEF DoReceivedDecisionMessage, ProposalsOnTheWay, proposerVars
<1>5. CASE DoReceivedDecisionAckMessage(e)
  BY <1>5 DEF DoReceivedDecisionAckMessage
<1>6. QED
  BY <1>1, <1>2, <1>3, <1>4, <1>5 DEF ReceiveMessage

(***************************************************************************)
(* A slot: the PROPOSALs of earlier slots have arrived, and the ones it    *)
(* sends will before the next slot, its own or another server's.           *)
(***************************************************************************)
LEMMA SlotKeepsInv ==
  ASSUME ~IsAsync, \A d \in MessageDelay : d < SlotWidth,
         TypeOK, TypeOK', ClockInv, SlotInv, NEW s \in Server, TimedProposeStep(s)
  PROVE  SlotInv'
<1> DEFINE t == proposeAt[s]
<1>1. /\ RunsAt(t) /\ Schedule(t) /\ DoSyncPropose(s)
      /\ proposeAt' = [proposeAt EXCEPT ![s] = t + m_proposePeriod]
  BY DEF TimedProposeStep, DoAsyncPropose
<1>2. /\ proposeAt \in [Server -> Nat] /\ due \in [Pending -> Nat]
      /\ SlotWidth \in Nat /\ m_proposePeriod \in Nat
      /\ SlotWidth <= m_proposePeriod /\ t \in Nat
      /\ proposeEvents \in [Server -> Nat]
  BY IntervalTypes, SlotWithinPeriod DEF ClockInv, TimeTypeOK, TypeOK, ServerTypeOK
<1>3. /\ proposeEvents[s] > 0
      /\ \A u \in Server : proposeEvents'[u] > 0 => proposeEvents[u] > 0
  BY <1>1, <1>2 DEF DoSyncPropose
<1>4. /\ \A x \in Pending : t <= due[x]
      /\ \A u \in Server : proposeEvents[u] > 0 => t <= proposeAt[u]
  BY <1>1 DEF RunsAt, Earliest
<1>5. ProposalsOnTheWay = {}
  <2>1. \A e \in ProposalsOnTheWay : due[e] < t
    BY <1>3 DEF SlotInv, ArriveBeforeSlots
  <2>2. \A e \in ProposalsOnTheWay : due[e] \in Nat /\ t <= due[e]
    BY <1>2, <1>4 DEF ProposalsOnTheWay, Pending
  <2>3. QED
    BY <1>2, <2>1, <2>2
<1>6. \A u \in Server \ {s} :
        proposeEvents[u] > 0 => /\ t + SlotWidth <= proposeAt[u]
                                /\ proposeAt[u] + SlotWidth <= t + m_proposePeriod
  BY <1>3, <1>4 DEF SlotInv, SlotsApart
<1>7. SlotsApart'
  <2> SUFFICES ASSUME NEW u \in Server, NEW v \in Server, u # v,
                      proposeEvents'[u] > 0, proposeEvents'[v] > 0,
                      proposeAt'[u] <= proposeAt'[v]
               PROVE  /\ proposeAt'[u] + SlotWidth <= proposeAt'[v]
                      /\ proposeAt'[v] + SlotWidth <= proposeAt'[u] + m_proposePeriod
    BY DEF SlotsApart, SlotWidth, m_proposePeriod
  <2>1. /\ proposeEvents[u] > 0 /\ proposeEvents[v] > 0
        /\ proposeAt[u] \in Nat /\ proposeAt[v] \in Nat
    BY <1>2, <1>3
  <2>2. CASE u # s /\ v # s
    BY <1>1, <1>2, <2>1, <2>2 DEF SlotInv, SlotsApart
  <2>3. CASE u = s
    <3>1. /\ proposeAt'[u] = t + m_proposePeriod /\ proposeAt'[v] = proposeAt[v]
          /\ proposeAt[v] + SlotWidth <= t + m_proposePeriod
      BY <1>1, <1>2, <1>6, <2>1, <2>3
    <3>2. QED
      BY <1>2, <2>1, <3>1
  <2>4. CASE v = s
    <3>1. /\ proposeAt'[v] = t + m_proposePeriod /\ proposeAt'[u] = proposeAt[u]
          /\ t + SlotWidth <= proposeAt[u]
          /\ proposeAt[u] + SlotWidth <= t + m_proposePeriod
      BY <1>1, <1>2, <1>6, <2>1, <2>4
    <3>2. QED
      BY <1>2, <2>1, <3>1
  <2>5. QED
    BY <2>2, <2>3, <2>4
<1>8. \A e \in ProposalsOnTheWay' : e \in Pending' \ Pending
  <2>1. ASSUME NEW e \in ProposalsOnTheWay', e \in requestEvents
        PROVE  FALSE
    BY <2>1 DEF ProposalsOnTheWay, TypeOK, SimTypeOK, RequestEvent, RequestHandler
  <2>2. QED
    BY <1>5, <2>1 DEF ProposalsOnTheWay, Pending
<1>9. OneSlotOnTheWay'
  <2>1. CASE events' = events
    BY <1>5, <2>1 DEF OneSlotOnTheWay, ProposalsOnTheWay
  <2>2. ASSUME DoPropose(s, m_proposals[s], events)
        PROVE  OneSlotOnTheWay'
    <3> DEFINE request == Head(m_waitingProposals[s])
               frame == [type |-> "PROPOSAL", proposerId |-> s,
                         proposalId |-> request.id, value |-> request.value,
                         acceptorId |-> 0]
    <3>1. events' = events \cup Broadcast(s, frame)
      BY <2>2 DEF DoPropose
    <3>2. \A e \in Broadcast(s, frame) : e.frame.proposalId = request.id
      BY DEF Broadcast, Datagram
    <3>3. \A e \in ProposalsOnTheWay' : e.frame.proposalId = request.id
      BY <1>5, <3>1, <3>2 DEF ProposalsOnTheWay
    <3>4. QED
      BY <3>3 DEF OneSlotOnTheWay
  <2>3. QED
    BY <1>1, <2>1, <2>2 DEF DoSyncPropose
<1>10. \A e \in ProposalsOnTheWay' : due'[e] \in Nat /\ due'[e] < t + SlotWidth
  <2>1. PICK delay \in [Pending' \ Pending -> MessageDelay \cup RequestDelay \cup {HandlingDelay}] :
          /\ \A x \in DOMAIN delay : delay[x] \in DelayOf(x)
          /\ due' = [x \in Pending' |-> IF x \in Pending THEN due[x] ELSE t + delay[x]]
    BY <1>1 DEF Schedule
  <2>2. \A e \in ProposalsOnTheWay' : delay[e] \in MessageDelay /\ due'[e] = t + delay[e]
    BY <1>8, <2>1 DEF DelayOf, ProposalsOnTheWay
  <2>3. \A d \in MessageDelay : d \in Nat /\ d < SlotWidth
    BY DelayAssumption
  <2>4. QED
    BY <1>2, <2>2, <2>3
<1>11. ArriveBeforeSlots'
  <2> SUFFICES ASSUME NEW e \in ProposalsOnTheWay', NEW u \in Server, proposeEvents'[u] > 0
               PROVE  due'[e] < proposeAt'[u]
    BY DEF ArriveBeforeSlots
  <2>1. proposeAt'[u] \in Nat /\ t + SlotWidth <= proposeAt'[u]
    <3>1. CASE u = s
      BY <1>1, <1>2, <3>1
    <3>2. CASE u # s
      BY <1>1, <1>2, <1>3, <1>6, <3>2
    <3>3. QED
      BY <3>1, <3>2
  <2>2. QED
    BY <1>2, <1>10, <2>1
<1>12. QED
  BY <1>7, <1>9, <1>11 DEF SlotInv

\* Every step keeps the invariant of the slots, if messages take less than a slot.
LEMMA SlotStep ==
  ASSUME \A d \in MessageDelay : d < SlotWidth,
         TypeOK, TypeOK', ClockInv, SlotInv, [TimedNext]_timedVars
  PROVE  SlotInv'
<1> SUFFICES ASSUME ~IsAsync PROVE SlotInv'
  BY DEF SlotInv
<1>1. CASE TimedRequestStep
  <2>1. PICK r \in requestEvents : /\ ReceiveRequest(r) \/ CreateProposalFromRequest(r)
                                   /\ Schedule(due[r])
    BY <1>1 DEF TimedRequestStep
  <2>2. /\ events' = events /\ proposeEvents' = proposeEvents
        /\ proposeAt' = proposeAt
    BY <1>1, <2>1 DEF ReceiveRequest, CreateProposalFromRequest, serverVars,
       proposerVars, TimedRequestStep
  <2>3. QED
    BY <2>1, <2>2, NoNewProposals DEF ProposalsOnTheWay
<1>2. ASSUME NEW s \in Server, TimedProposeStep(s)
      PROVE  SlotInv'
  BY <1>2, SlotKeepsInv
<1>3. CASE TimedMessageStep
  <2>1. PICK e \in events :
          /\ ReceiveMessage(e) \/ SendAcceptMessage(e)
          /\ proposeAt' = [s \in Server |-> IF proposeEvents'[s] > proposeEvents[s]
                                            THEN due[e] + PollInterval
                                            ELSE proposeAt[s]]
          /\ Schedule(due[e])
    BY <1>3 DEF TimedMessageStep
  <2>2. /\ ProposalsOnTheWay' \subseteq ProposalsOnTheWay
        /\ proposeEvents' = proposeEvents
    BY <2>1, HandlersDoNotPropose
  <2>3. proposeAt' = proposeAt
    <3>1. proposeEvents \in [Server -> Nat] /\ proposeAt \in [Server -> Nat]
      BY DEF TypeOK, ServerTypeOK, ClockInv, TimeTypeOK
    <3>2. QED
      BY <2>1, <2>2, <3>1
  <2>4. QED
    BY <2>1, <2>2, <2>3, NoNewProposals
<1>4. CASE TimedSendRequest
  BY <1>4, NoNewProposals DEF TimedSendRequest, SendRequest, serverVars, proposerVars,
     ProposalsOnTheWay
<1>5. CASE UNCHANGED <<events, due, proposeEvents, proposeAt>>
  BY <1>5 DEF SlotInv, SlotsApart, ArriveBeforeSlots, OneSlotOnTheWay, ProposalsOnTheWay
<1>6. QED
  BY <1>1, <1>2, <1>3, <1>4, <1>5 DEF TimedNext, TimedStop, StopApplication, TimedEnd,
     timedVars, timeVars, vars, simVars, serverVars, proposerVars

(***************************************************************************)
(* What the slots are for: when every message takes less than a slot, the  *)
(* PROPOSALs on their way are all of one slot, at any time and for any     *)
(* number of servers.                                                      *)
(***************************************************************************)
THEOREM SlotsCorrect ==
  (\A d \in MessageDelay : d < SlotWidth) => (TimedSpec => []OneSlotOnTheWay)
<1> SUFFICES ASSUME \A d \in MessageDelay : d < SlotWidth
             PROVE  TimedSpec => []OneSlotOnTheWay
  OBVIOUS
<1>1. TimedInit => SlotInv
  BY SlotInit
<1>2. (TypeOK /\ ClockInv) /\ (TypeOK /\ ClockInv)' /\ SlotInv /\ [TimedNext]_timedVars
        => SlotInv'
  BY SlotStep
<1>3. SlotInv => OneSlotOnTheWay
  BY DEF SlotInv, OneSlotOnTheWay
<1>4. QED
  BY <1>1, <1>2, <1>3, ClockCorrect, PTL DEF TimedSpec

-------------------------------------------------------------------------------
(***************************************************************************)
(* Deadlines.  The invariants of SyncPaxos are at hand in every state.     *)
(***************************************************************************)
UntimedInv == Match /\ VotingParts /\ LearningInv /\ SecondRoundInv

\* Types, the clock and the invariants of SyncPaxos.
BasicInv == TypeOK /\ ClockInv /\ UntimedInv

\* They hold in every state of a timed behaviour.
LEMMA BasicCorrect == TimedSpec => []BasicInv
  BY UntimedCorrect, ClockCorrect, LearningCorrect, SecondRoundCorrect, PTL
     DEF Untimed, BasicInv, UntimedInv

(***************************************************************************)
(* The longest delays.                                                     *)
(***************************************************************************)
LEMMA LongestIsMax ==
  ASSUME NEW D \in {MessageDelay, RequestDelay}
  PROVE  Max(D) \in Nat /\ Max(D) \in D /\ \A d \in D : d \in Nat /\ d <= Max(D)
<1>1. D \subseteq Nat
  BY DelayAssumption
<1>2. \E x \in D : \A y \in D : x >= y
  BY <1>1, LongestAssumption
<1>3. Max(D) \in D /\ \A y \in D : Max(D) >= y
  BY <1>2 DEF Max
<1>4. QED
  BY <1>1, <1>3

\* Every delay is at most the longest of its kind.
LEMMA LongestDelays ==
  /\ LongestMessage \in Nat /\ \A d \in MessageDelay : d \in Nat /\ d <= LongestMessage
  /\ LongestRequest \in Nat /\ \A d \in RequestDelay : d \in Nat /\ d <= LongestRequest
  BY LongestIsMax DEF LongestMessage, LongestRequest

\* The longest message is one of them.
LEMMA LongestIsOne == LongestMessage \in MessageDelay
  BY LongestIsMax DEF LongestMessage

\* A message is not for ever: the times of LatestAfter.
LEMMA LatestType ==
  ASSUME NEW e
  PROVE  LatestAfter(e) \in Nat
  BY LongestDelays DEF LatestAfter, HandlingDelay

\* The largest of five numbers is no less than each.
LEMMA MaxOfFive ==
  ASSUME NEW a \in Nat, NEW b \in Nat, NEW c \in Nat, NEW d \in Nat, NEW e \in Nat
  PROVE  LET m == Max({a, b, c, d, e})
         IN  m \in Nat /\ a <= m /\ b <= m /\ c <= m /\ d <= m /\ e <= m
<1> DEFINE S == {a, b, c, d, e}
<1>1. \E x \in S : \A y \in S : x >= y
  <2>1. PICK x \in {a, b} : x >= a /\ x >= b
    OBVIOUS
  <2>2. PICK y \in {x, c} : y >= x /\ y >= c
    BY <2>1
  <2>3. PICK z \in {y, d} : z >= y /\ z >= d
    BY <2>1, <2>2
  <2>4. PICK w \in {z, e} : w >= z /\ w >= e
    BY <2>1, <2>2, <2>3
  <2>5. w \in S
    BY <2>1, <2>2, <2>3, <2>4
  <2>6. w >= a /\ w >= b /\ w >= c /\ w >= d /\ w >= e
    BY <2>1, <2>2, <2>3, <2>4
  <2>7. QED
    BY <2>5, <2>6
<1>2. Max(S) \in S /\ \A y \in S : Max(S) >= y
  BY <1>1 DEF Max
<1>3. QED
  BY <1>2

\* The last event is not before the time of any kind of event.
LEMMA LastEventBounds ==
  ASSUME m_stopTime \in Nat
  PROVE  /\ LastEvent \in Nat
         /\ m_stopTime + ProposeInterval <= LastEvent
         /\ m_stopTime + m_sendInterval <= LastEvent
         /\ m_stopTime + DecisionTime <= LastEvent
         /\ m_stopTime + LongestRequest + HandlingDelay <= LastEvent
         /\ DecisionTime \in Nat /\ ProposeInterval \in Nat
<1>1. DecisionTime \in Nat
  BY LongestDelays DEF DecisionTime, HandlingDelay, LongestMessage
<1>2. LongestRequest + HandlingDelay \in Nat
  BY LongestDelays DEF HandlingDelay
<1>3. m_proposePeriod \in Nat /\ PollInterval \in Nat /\ m_sendInterval \in Nat
  BY IntervalTypes DEF PollInterval
<1> DEFINE a == LongestRequest + HandlingDelay
           m == Max({m_proposePeriod, PollInterval, m_sendInterval, DecisionTime, a})
<1>4. /\ m \in Nat /\ m_proposePeriod <= m /\ PollInterval <= m /\ m_sendInterval <= m
      /\ DecisionTime <= m /\ a <= m
  BY <1>1, <1>2, <1>3, MaxOfFive
<1>5. LastEvent = m_stopTime + m
  BY DEF LastEvent, LongestRequest
<1>6. ProposeInterval \in Nat /\ ProposeInterval <= m
  BY <1>3, <1>4 DEF ProposeInterval
<1>7. LongestRequest \in Nat /\ HandlingDelay \in Nat
  BY LongestDelays DEF HandlingDelay
<1> HIDE DEF m
<1>8. QED
  BY <1>1, <1>3, <1>4, <1>5, <1>6, <1>7
-------------------------------------------------------------------------------
(***************************************************************************)
(* What a handler schedules, and which proposals it makes.                 *)
(***************************************************************************)
\* A pending event keeps its time, one that is inserted gets that of its delay.
LEMMA ScheduledTimes ==
  ASSUME NEW t, Schedule(t)
  PROVE  /\ \A x \in Pending' : x \in Pending => due'[x] = due[x]
         /\ \A x \in Pending' : x \notin Pending => \E d \in DelayOf(x) : due'[x] = t + d
<1>1. PICK delay \in [Pending' \ Pending -> MessageDelay \cup RequestDelay \cup {HandlingDelay}] :
        /\ \A x \in DOMAIN delay : delay[x] \in DelayOf(x)
        /\ due' = [x \in Pending' |-> IF x \in Pending THEN due[x] ELSE t + delay[x]]
  BY DEF Schedule
<1>2. QED
  BY <1>1

\* An event has a handler of its own, never one of requests.
LEMMA EventsAreNotRequests ==
  ASSUME TypeOK, NEW n \in Event
  PROVE  n \notin requestEvents
  BY DEF TypeOK, SimTypeOK, Event, Handler, RequestEvent, RequestHandler

\* The message n is sent for the event e of the same proposal, within its time.
Follows(n, e) ==
  /\ n.frame.proposalId = e.frame.proposalId
  /\ \A d \in DelayOf(n) : LatestAfter(e) + d <= LatestAfter(n)
  /\ n.frame.type = "DECISION_ACK" => IsAsync

\* The message n is a PROPOSAL of a request taken up in this step.
Proposes(n) ==
  /\ n.fn = "ReceiveMessage" /\ n.frame.type = "PROPOSAL"
  /\ n.frame.proposalId \in FreshIds \ FreshIds'
  /\ \E s \in Server : n.frame.proposalId \in Ids(m_proposals'[s])

\* The proposals a step makes are of requests that were fresh; none after the stop.
MakesProposals ==
  /\ FreshIds' \subseteq FreshIds
  /\ PastStopTime => \A s \in Server : Ids(m_proposals'[s]) \subseteq Ids(m_proposals[s])
  /\ \A s \in Server :
       Ids(m_proposals'[s]) \subseteq
         Ids(m_proposals[s]) \cup ((FreshIds \ FreshIds') \cap DOMAIN requested)

\* DoPropose takes up one request, and broadcasts its PROPOSAL.
LEMMA ProposeEvents ==
  ASSUME TypeOK, TypeOK', Match, VotingParts, UNCHANGED requestEvents,
         NEW s \in Server, HasRequest(s), ~PastStopTime,
         NEW proposals \in SUBSET m_proposals[s], NEW pending,
         DoPropose(s, proposals, pending)
  PROVE  /\ MakesProposals
         /\ \A n \in events' : n \in pending \/ Proposes(n)
<1> DEFINE i == Head(m_waitingProposals[s]).id
           p == [id |-> i, value |-> Head(m_waitingProposals[s]).value, numAck |-> 1,
                 decided |-> FALSE, numDecisionAck |-> 1]
           f == [type |-> "PROPOSAL", proposerId |-> s, proposalId |-> i,
                 value |-> Head(m_waitingProposals[s]).value, acceptorId |-> 0]
<1>1. /\ m_waitingProposals' =
           [m_waitingProposals EXCEPT ![s] = Tail(m_waitingProposals[s])]
      /\ m_proposals' = [m_proposals EXCEPT ![s] = Insert(proposals, p)]
      /\ events' = pending \cup Broadcast(s, f)
  BY DEF DoPropose
<1>2. /\ i \in FreshIds \ FreshIds' /\ FreshIds' \subseteq FreshIds
      /\ i \in DOMAIN requested
  BY <1>1, ProposeTakes DEF Asked
<1>3. p.id = i /\ f.proposalId = i /\ f.type = "PROPOSAL"
  OBVIOUS
<1> HIDE DEF p, f, i
<1>4. m_proposals'[s] = Insert(proposals, p)
      /\ \A t \in Server \ {s} : m_proposals'[t] = m_proposals[t]
  BY <1>1 DEF TypeOK, ServerTypeOK
<1>5. p \in m_proposals'[s]
  BY <1>4 DEF Insert
<1>6. i \in Ids(m_proposals'[s])
  BY <1>3, <1>5 DEF Ids
<1>7. MakesProposals
  <2>1. \A x \in m_proposals'[s] : x.id \in Ids(m_proposals[s]) \cup {i}
    BY <1>3, <1>4 DEF Insert, Erase, Ids
  <2>2. Ids(m_proposals'[s]) \subseteq Ids(m_proposals[s]) \cup {i}
    BY <2>1 DEF Ids
  <2>3. \A t \in Server \ {s} : Ids(m_proposals'[t]) = Ids(m_proposals[t])
    BY <1>4 DEF Ids
  <2>4. QED
    BY <1>2, <2>2, <2>3 DEF MakesProposals
<1>8. \A n \in Broadcast(s, f) : n.fn = "ReceiveMessage" /\ n.frame = f
  BY DEF Broadcast, Datagram
<1>9. QED
  BY <1>1, <1>2, <1>3, <1>6, <1>7, <1>8 DEF Proposes

\* The cases of LatestAfter and DelayOf.
LEMMA LatestCases ==
  ASSUME NEW e
  PROVE  /\ e.fn = "SendAcceptMessage" =>
              LatestAfter(e) = LongestMessage + 10 /\ DelayOf(e) = {10}
         /\ e.fn = "ReceiveMessage" => DelayOf(e) = MessageDelay
         /\ e.fn = "ReceiveMessage" /\ e.frame.type = "PROPOSAL" =>
              LatestAfter(e) = LongestMessage
         /\ e.fn = "ReceiveMessage" /\ e.frame.type = "ACCEPT" =>
              LatestAfter(e) = 2 * LongestMessage + 10
         /\ e.fn = "ReceiveMessage" /\ e.frame.type = "DECISION" =>
              LatestAfter(e) = 3 * LongestMessage + 10
         /\ e.fn = "ReceiveMessage" /\ e.frame.type = "DECISION_ACK" =>
              LatestAfter(e) = 4 * LongestMessage + 10
  BY DEF LatestAfter, DelayOf, HandlingDelay

\* A handler that makes no proposal.
LEMMA MakesNone ==
  ASSUME FreshIds' \subseteq FreshIds,
         \A s \in Server : Ids(m_proposals'[s]) \subseteq Ids(m_proposals[s])
  PROVE  MakesProposals
  BY DEF MakesProposals

\* A vote moves on at the acceptor.
LEMMA VoteFollows ==
  ASSUME TypeOK, NEW e \in events,
         \/ /\ e.fn = "ReceiveMessage" /\ e.frame.type = "PROPOSAL"
            /\ DoReceivedProposalMessage(e)
         \/ SendAcceptMessage(e)
  PROVE  /\ MakesProposals
         /\ \A n \in events' : n \in events \/ Follows(n, e)
<1>1. e.frame \in PaxosFrame
  BY DEF TypeOK, SimTypeOK, Event
<1>2. UNCHANGED <<requestEvents, m_waitingProposals, m_proposals>>
  BY DEF DoReceivedProposalMessage, SendAcceptMessage, serverVars, proposerVars
<1>3. MakesProposals
  BY <1>2, RequestsTaken, MakesNone
<1>4. CASE e.fn = "ReceiveMessage" /\ e.frame.type = "PROPOSAL" /\ DoReceivedProposalMessage(e)
  <2> DEFINE n == [at |-> e.at, fn |-> "SendAcceptMessage",
                   frame |-> [e.frame EXCEPT !.acceptorId = e.at]]
  <2>1. /\ n.fn = "SendAcceptMessage" /\ n.frame.type = "PROPOSAL"
        /\ n.frame.proposalId = e.frame.proposalId
    BY <1>1, <1>4 DEF PaxosFrame
  <2>2. events' = (events \ {e}) \cup {n}
    BY <1>4 DEF DoReceivedProposalMessage
  <2> HIDE DEF n
  <2>3. Follows(n, e)
    BY <1>4, <2>1, LatestCases, LongestDelays DEF Follows
  <2>4. QED
    BY <1>3, <2>2, <2>3
<1>5. CASE SendAcceptMessage(e)
  <2> DEFINE f == [e.frame EXCEPT !.type = "ACCEPT", !.acceptorId = e.at]
             n == Datagram(f.proposerId, f)
  <2>1. /\ n.fn = "ReceiveMessage" /\ n.frame.type = "ACCEPT"
        /\ n.frame.proposalId = e.frame.proposalId
    BY <1>1 DEF PaxosFrame, Datagram
  <2>2. events' = (events \ {e}) \cup {n} /\ e.fn = "SendAcceptMessage"
    BY <1>5 DEF SendAcceptMessage
  <2> HIDE DEF n
  <2>3. Follows(n, e)
    BY <2>1, <2>2, LatestCases, LongestDelays DEF Follows
  <2>4. QED
    BY <1>3, <2>2, <2>3
<1>6. QED
  BY <1>4, <1>5

\* A vote is counted, and may decide.
LEMMA AcceptFollows ==
  ASSUME TypeOK, NEW e \in events, e.at \in Server, e.fn = "ReceiveMessage",
         e.frame.type = "ACCEPT", DoReceivedAcceptMessage(e)
  PROVE  /\ MakesProposals
         /\ \A n \in events' : n \in events \/ Follows(n, e)
<1> DEFINE s == e.at
           f == [e.frame EXCEPT !.type = "DECISION"]
<1>1. e.frame \in PaxosFrame
  BY DEF TypeOK, SimTypeOK, Event
<1>2. UNCHANGED <<requestEvents, m_waitingProposals>>
  BY DEF DoReceivedAcceptMessage
<1>3. events' \subseteq events \cup Broadcast(s, f)
  BY DEF DoReceivedAcceptMessage, SendDecisionMessage
<1>4. /\ \A t \in Server \ {s} : m_proposals'[t] = m_proposals[t]
      /\ \A x \in m_proposals'[s] : \E p \in m_proposals[s] : x.id = p.id
  <2> DEFINE known == {p \in m_proposals[s] :
                         p.id = e.frame.proposalId /\ e.frame.proposerId = s}
             q(p) == [p EXCEPT !.numAck = @ + 1]
             d(p) == [q(p) EXCEPT !.decided = TRUE, !.numDecisionAck = 1]
  <2>1. \/ UNCHANGED m_proposals
        \/ \E p \in known :
             \/ m_proposals' = [m_proposals EXCEPT ![s] = Insert(@, q(p))]
             \/ m_proposals' = [m_proposals EXCEPT ![s] = Insert(@, d(p))]
             \/ m_proposals' = [m_proposals EXCEPT ![s] = Erase(@, p.id)]
    BY Zenon DEF DoReceivedAcceptMessage
  <2>2. \A p \in m_proposals[s] : q(p).id = p.id /\ d(p).id = p.id
    BY DEF TypeOK, ServerTypeOK, Proposal
  <2>3. m_proposals \in [Server -> SUBSET Proposal]
    BY DEF TypeOK, ServerTypeOK
  <2> HIDE DEF q, d, s
  <2>4. ASSUME NEW p \in m_proposals[s], NEW x, x.id = p.id,
               \/ m_proposals' = [m_proposals EXCEPT ![s] = Insert(@, x)]
               \/ m_proposals' = [m_proposals EXCEPT ![s] = Erase(@, p.id)]
        PROVE  /\ \A t \in Server \ {s} : m_proposals'[t] = m_proposals[t]
               /\ \A y \in m_proposals'[s] : \E o \in m_proposals[s] : y.id = o.id
    <3>1. /\ \A t \in Server \ {s} : m_proposals'[t] = m_proposals[t]
          /\ m_proposals'[s] \subseteq m_proposals[s] \cup {x}
      BY <2>3, <2>4 DEF Insert, Erase
    <3>2. QED
      BY <2>4, <3>1
  <2>5. QED
    BY <2>1, <2>2, <2>4
<1>5. MakesProposals
  <2>1. FreshIds' \subseteq FreshIds
    BY <1>2, RequestsTaken
  <2>2. \A t \in Server : Ids(m_proposals'[t]) \subseteq Ids(m_proposals[t])
    BY <1>4 DEF Ids
  <2>3. QED
    BY <2>1, <2>2, MakesNone
<1>6. f.type = "DECISION" /\ f.proposalId = e.frame.proposalId
  BY <1>1 DEF PaxosFrame
<1>7. \A n \in Broadcast(s, f) : n.fn = "ReceiveMessage" /\ n.frame = f
  BY DEF Broadcast, Datagram
<1> HIDE DEF f
<1>8. \A n \in Broadcast(s, f) : Follows(n, e)
  BY <1>6, <1>7, LatestCases, LongestDelays DEF Follows
<1>9. QED
  BY <1>3, <1>5, <1>8

\* A decision is learned, and acknowledged in the asynchronous protocol.
LEMMA DecisionFollows ==
  ASSUME TypeOK, NEW e \in events, e.fn = "ReceiveMessage",
         e.frame.type = "DECISION", DoReceivedDecisionMessage(e)
  PROVE  /\ MakesProposals
         /\ \A n \in events' : n \in events \/ Follows(n, e)
<1> DEFINE ack == [type |-> "DECISION_ACK", proposerId |-> e.at,
                   proposalId |-> e.frame.proposalId, value |-> e.frame.value,
                   acceptorId |-> 0]
           n == Datagram(e.frame.proposerId, ack)
<1>1. UNCHANGED <<requestEvents, m_waitingProposals, m_proposals>>
  BY DEF DoReceivedDecisionMessage, proposerVars
<1>2. MakesProposals
  BY <1>1, RequestsTaken, MakesNone
<1>3. events' \subseteq events \cup (IF IsAsync THEN {n} ELSE {})
  BY DEF DoReceivedDecisionMessage
<1>4. /\ n.fn = "ReceiveMessage" /\ n.frame.type = "DECISION_ACK"
      /\ n.frame.proposalId = e.frame.proposalId
  BY DEF Datagram
<1> HIDE DEF n
<1>5. IsAsync => Follows(n, e)
  BY <1>4, LatestCases, LongestDelays DEF Follows
<1>6. QED
  BY <1>2, <1>3, <1>5

\* DoAsyncPropose takes up a request, or none.
LEMMA AsyncProposeEvents ==
  ASSUME TypeOK, TypeOK', Match, VotingParts, UNCHANGED requestEvents,
         NEW s \in Server, NEW proposals \in SUBSET m_proposals[s], NEW pending,
         NEW polls, AsyncPropose(s, proposals, pending, polls)
  PROVE  /\ MakesProposals
         /\ \A n \in events' : n \in pending \/ Proposes(n)
<1>1. CASE ~PastStopTime /\ HasRequest(s) /\ DoPropose(s, proposals, pending)
  BY <1>1, ProposeEvents
<1>2. CASE /\ events' = pending
           /\ m_proposals' = [m_proposals EXCEPT ![s] = proposals]
           /\ UNCHANGED m_waitingProposals
  <2>1. FreshIds' \subseteq FreshIds
    BY <1>2, RequestsTaken
  <2>2. \A t \in Server : m_proposals'[t] \subseteq m_proposals[t]
    BY <1>2 DEF TypeOK, ServerTypeOK
  <2>3. \A t \in Server : Ids(m_proposals'[t]) \subseteq Ids(m_proposals[t])
    BY <2>2 DEF Ids
  <2>4. QED
    BY <1>2, <2>1, <2>3, MakesNone
<1>3. QED
  BY <1>1, <1>2 DEF AsyncPropose

\* A DECISION_ACK is counted; the completing one starts the next proposal.
LEMMA AckFollows ==
  ASSUME TypeOK, TypeOK', Match, VotingParts, NEW e \in events, e.at \in Server,
         e.fn = "ReceiveMessage", e.frame.type = "DECISION_ACK",
         DoReceivedDecisionAckMessage(e)
  PROVE  /\ MakesProposals
         /\ \A n \in events' : n \in events \/ Proposes(n)
<1> DEFINE s == e.at
           known == {p \in m_proposals[s] : p.id = e.frame.proposalId}
           q(p) == [p EXCEPT !.numDecisionAck = @ + 1]
<1>1. UNCHANGED requestEvents
  BY DEF DoReceivedDecisionAckMessage
<1>2. \/ events' = events \ {e} /\ UNCHANGED <<m_waitingProposals, m_proposals>>
      \/ \E p \in known :
           /\ events' = events \ {e} /\ UNCHANGED m_waitingProposals
           /\ m_proposals' = [m_proposals EXCEPT ![s] = Insert(@, q(p))]
      \/ \E p \in known :
           AsyncPropose(s, Erase(m_proposals[s], p.id), events \ {e}, proposeEvents[s])
  BY Zenon DEF DoReceivedDecisionAckMessage, proposerVars
<1>3. \A p \in m_proposals[s] : q(p).id = p.id
  BY DEF TypeOK, ServerTypeOK, Proposal
<1>4. m_proposals \in [Server -> SUBSET Proposal]
  BY DEF TypeOK, ServerTypeOK
<1> HIDE DEF q
<1>5. CASE events' = events \ {e} /\ UNCHANGED <<m_waitingProposals, m_proposals>>
  BY <1>1, <1>5, RequestsTaken, MakesNone
<1>6. ASSUME NEW p \in m_proposals[s], events' = events \ {e},
             UNCHANGED m_waitingProposals,
             m_proposals' = [m_proposals EXCEPT ![s] = Insert(@, q(p))]
      PROVE  MakesProposals
  <2>1. FreshIds' \subseteq FreshIds
    BY <1>1, <1>6, RequestsTaken
  <2>2. /\ \A t \in Server \ {s} : m_proposals'[t] = m_proposals[t]
        /\ m_proposals'[s] \subseteq m_proposals[s] \cup {q(p)}
    BY <1>4, <1>6 DEF Insert, Erase
  <2>3. \A t \in Server : Ids(m_proposals'[t]) \subseteq Ids(m_proposals[t])
    BY <1>3, <2>2 DEF Ids
  <2>4. QED
    BY <2>1, <2>3, MakesNone
<1>7. ASSUME NEW p \in m_proposals[s],
             AsyncPropose(s, Erase(m_proposals[s], p.id), events \ {e}, proposeEvents[s])
      PROVE  /\ MakesProposals
             /\ \A n \in events' : n \in events \/ Proposes(n)
  <2>1. Erase(m_proposals[s], p.id) \subseteq m_proposals[s]
    BY DEF Erase
  <2>2. QED
    BY <1>1, <1>7, <2>1, AsyncProposeEvents
<1>8. QED
  BY <1>2, <1>5, <1>6, <1>7

\* What the handler of an event e schedules: messages that follow, or PROPOSALs.
LEMMA HandlerFollows ==
  ASSUME TypeOK, TypeOK', Match, VotingParts, NEW e \in events,
         ReceiveMessage(e) \/ SendAcceptMessage(e)
  PROVE  /\ MakesProposals
         /\ \A n \in events' : n \in events \/ Follows(n, e) \/ Proposes(n)
<1>1. e.at \in Server
  BY EventsAtServers
<1>2. QED
  BY <1>1, VoteFollows, AcceptFollows, DecisionFollows, AckFollows DEF ReceiveMessage

\* What a slot or a poll schedules: PROPOSALs.
LEMMA SlotProposes ==
  ASSUME TypeOK, TypeOK', Match, VotingParts, NEW s \in Server,
         DoSyncPropose(s) \/ DoAsyncPropose(s)
  PROVE  /\ MakesProposals
         /\ \A n \in events' : n \in events \/ Proposes(n)
<1>1. UNCHANGED requestEvents
  BY DEF DoSyncPropose, DoAsyncPropose
<1>2. CASE ~PastStopTime /\ HasRequest(s) /\ DoPropose(s, m_proposals[s], events)
  BY <1>1, <1>2, ProposeEvents
<1>3. CASE UNCHANGED <<events, m_waitingProposals, m_proposals>>
  BY <1>1, <1>3, RequestsTaken, MakesNone
<1>4. CASE AsyncPropose(s, m_proposals[s], events, proposeEvents[s] - 1)
  BY <1>1, <1>4, AsyncProposeEvents
<1>5. QED
  BY <1>2, <1>3, <1>4 DEF DoSyncPropose, DoAsyncPropose
-------------------------------------------------------------------------------
(***************************************************************************)
(* Proposals are made before the stop time, and their messages come in     *)
(* time.                                                                   *)
(***************************************************************************)
\* The proposals made in a step at time t are noted with t, the others as before.
LEMMA NotedTimes ==
  ASSUME NEW t \in Nat, NoteProposals(t), ProposedOnce, MakesProposals,
         UNCHANGED requested
  PROVE  /\ DOMAIN proposedAt' \subseteq DOMAIN requested' \ FreshIds'
         /\ \A s \in Server : Ids(m_proposals'[s]) \subseteq DOMAIN proposedAt'
         /\ DOMAIN proposedAt \subseteq DOMAIN proposedAt'
         /\ \A i \in DOMAIN proposedAt : proposedAt'[i] = proposedAt[i]
         /\ \A i \in DOMAIN proposedAt' \ DOMAIN proposedAt :
              /\ proposedAt'[i] = t
              /\ \E s \in Server : i \in Ids(m_proposals'[s]) \ Ids(m_proposals[s])
<1> DEFINE New == UNION {Ids(m_proposals'[s]) \ Ids(m_proposals[s]) : s \in Server}
<1>1. /\ DOMAIN proposedAt' = DOMAIN proposedAt \cup New
      /\ \A i \in DOMAIN proposedAt' :
           proposedAt'[i] = IF i \in DOMAIN proposedAt THEN proposedAt[i] ELSE t
  BY DEF NoteProposals
<1>2. New \subseteq (FreshIds \ FreshIds') \cap DOMAIN requested
  BY DEF MakesProposals
<1>3. \A s \in Server : Ids(m_proposals'[s]) \subseteq DOMAIN proposedAt \cup New
  BY DEF ProposedOnce
<1>4. \A i \in New : \E s \in Server : i \in Ids(m_proposals'[s]) \ Ids(m_proposals[s])
  OBVIOUS
<1>5. DOMAIN proposedAt \subseteq DOMAIN requested \ FreshIds' /\ FreshIds' \subseteq FreshIds
  BY DEF ProposedOnce, MakesProposals
<1> HIDE DEF New
<1>6. QED
  BY <1>1, <1>2, <1>3, <1>4, <1>5

(***************************************************************************)
(* A handler of time t keeps ProposalInv: what it schedules is a PROPOSAL  *)
(* made in the step, or follows from the event e it handles.               *)
(***************************************************************************)
LEMMA HandlerKeepsProposals ==
  ASSUME TypeOK, TypeOK', ClockInv, ProposalInv, NEW t \in Nat, now <= t, RunsAt(t),
         Schedule(t), NoteProposals(t), MakesProposals,
         UNCHANGED <<requested, m_stopTime>>,
         \A n \in events' : \/ n \in events
                            \/ Proposes(n)
                            \/ \E e \in events : due[e] = t /\ Follows(n, e)
  PROVE  ProposalInv'
<1>1. /\ stopped = {} <=> t < m_stopTime
      /\ now' = t /\ now \in Nat /\ m_stopTime \in Nat
      /\ due \in [Pending -> Nat]
  BY StopAssumption, RunsBetweenStops DEF ClockInv, TimeTypeOK
<1>2. /\ DOMAIN proposedAt' \subseteq DOMAIN requested' \ FreshIds'
      /\ \A s \in Server : Ids(m_proposals'[s]) \subseteq DOMAIN proposedAt'
      /\ \A i \in DOMAIN proposedAt :
           i \in DOMAIN proposedAt' /\ proposedAt'[i] = proposedAt[i]
      /\ \A i \in DOMAIN proposedAt' \ DOMAIN proposedAt :
           /\ proposedAt'[i] = t
           /\ \E s \in Server : i \in Ids(m_proposals'[s]) \ Ids(m_proposals[s])
  BY NotedTimes DEF ProposalInv
<1>3. ASSUME NEW i \in DOMAIN proposedAt'
      PROVE  /\ proposedAt'[i] \in Nat /\ proposedAt'[i] <= now'
             /\ proposedAt'[i] < m_stopTime'
  <2>1. CASE i \in DOMAIN proposedAt
    <3>1. proposedAt[i] \in Nat /\ proposedAt[i] <= now /\ proposedAt[i] < m_stopTime
      BY <2>1 DEF ProposalInv, ProposedOnce
    <3>2. QED
      BY <1>1, <1>2, <2>1, <3>1
  <2>2. CASE i \notin DOMAIN proposedAt
    <3>1. ~PastStopTime
      BY <1>2, <2>2 DEF MakesProposals
    <3>2. QED
      BY <1>1, <1>2, <2>2, <3>1 DEF PastStopTime
  <2>3. QED
    BY <2>1, <2>2
<1>4. ProposedOnce'
  BY <1>2, <1>3 DEF ProposedOnce, Ids
<1>5. /\ \A x \in Pending' : x \in Pending => due'[x] = due[x]
      /\ \A x \in Pending' : x \notin Pending => \E d \in DelayOf(x) : due'[x] = t + d
  BY ScheduledTimes
<1>6. ASSUME NEW n \in events'
      PROVE  /\ n.frame.proposalId \in DOMAIN proposedAt'
             /\ due'[n] <= proposedAt'[n.frame.proposalId] + LatestAfter(n)
             /\ n.frame.type = "DECISION_ACK" => IsAsync
  <2> DEFINE i == n.frame.proposalId
  <2>1. n \in Pending' /\ n \in Event
    BY DEF Pending, TypeOK, SimTypeOK
  <2>2. CASE n \in events
    <3>1. /\ n \in Pending /\ i \in DOMAIN proposedAt
          /\ due[n] <= proposedAt[i] + LatestAfter(n)
          /\ n.frame.type = "DECISION_ACK" => IsAsync
      BY <2>2 DEF Pending, ProposalInv, MessagesInTime
    <3>2. QED
      BY <1>2, <1>5, <2>1, <3>1
  <2>3. CASE n \notin events
    <3>1. n \notin Pending
      BY <2>1, <2>3, EventsAreNotRequests DEF Pending
    <3>2. PICK d \in DelayOf(n) : due'[n] = t + d
      BY <1>5, <2>1, <3>1
    <3>3. CASE Proposes(n)
      <4>1. /\ i \in DOMAIN proposedAt' \ DOMAIN proposedAt
            /\ n.fn = "ReceiveMessage" /\ n.frame.type = "PROPOSAL"
        BY <1>2, <3>3 DEF Proposes, ProposalInv, ProposedOnce
      <4>2. proposedAt'[i] = t /\ LatestAfter(n) = LongestMessage /\ d \in MessageDelay
        BY <1>2, <4>1, LatestCases
      <4>3. d \in Nat /\ LongestMessage \in Nat /\ d <= LongestMessage
        BY <4>2, LongestDelays
      <4>4. QED
        BY <3>2, <4>1, <4>2, <4>3
    <3>4. ASSUME NEW e \in events, due[e] = t, Follows(n, e)
          PROVE  /\ i \in DOMAIN proposedAt'
                 /\ due'[n] <= proposedAt'[i] + LatestAfter(n)
                 /\ n.frame.type = "DECISION_ACK" => IsAsync
      <4>1. /\ i = e.frame.proposalId /\ i \in DOMAIN proposedAt
            /\ t <= proposedAt[i] + LatestAfter(e)
            /\ LatestAfter(e) + d <= LatestAfter(n)
        BY <3>4 DEF Follows, ProposalInv, MessagesInTime
      <4>2. /\ proposedAt[i] \in Nat /\ LatestAfter(e) \in Nat /\ LatestAfter(n) \in Nat
            /\ d \in Nat
        BY <4>1, LatestType, DelayTypes DEF ProposalInv, ProposedOnce
      <4> HIDE DEF i
      <4>3. t + d <= proposedAt[i] + LatestAfter(n)
        BY <4>1, <4>2
      <4>4. QED
        BY <1>2, <3>2, <3>4, <4>1, <4>3 DEF Follows
    <3>5. QED
      BY <2>3, <3>3, <3>4
  <2>4. QED
    BY <2>2, <2>3
<1>7. MessagesInTime'
  BY <1>6 DEF MessagesInTime, LatestAfter
<1>8. QED
  BY <1>4, <1>7 DEF ProposalInv

\* The invariant of proposals is kept by a step that runs no handler of a server.
LEMMA ProposalsUntouched ==
  ASSUME ProposalInv, now \in Nat, now' \in Nat, now <= now',
         UNCHANGED <<m_proposals, proposedAt, m_stopTime, events>>,
         \A x \in events : due'[x] = due[x],
         DOMAIN requested \subseteq DOMAIN requested',
         \A i \in FreshIds' : i \in FreshIds \/ i \notin DOMAIN requested
  PROVE  ProposalInv'
<1>1. ProposedOnce'
  BY DEF ProposalInv, ProposedOnce, Ids
<1>2. MessagesInTime'
  BY DEF ProposalInv, MessagesInTime, LatestAfter
<1>3. QED
  BY <1>1, <1>2 DEF ProposalInv

\* What the client sends is fresh and new, and nothing else is.
LEMMA SendIsNew ==
  ASSUME TypeOK, SendRequest, UNCHANGED serverVars
  PROVE  /\ DOMAIN requested \subseteq DOMAIN requested'
         /\ \A i \in FreshIds' : i \in FreshIds \/ i \notin DOMAIN requested
<1>1. UNCHANGED m_waitingProposals
  BY DEF serverVars, proposerVars
<1>2. CASE UNCHANGED <<requested, requestEvents>>
  BY <1>1, <1>2 DEF FreshIds
<1>3. ASSUME NEW v \in Value,
             requested' = Append(requested, [to |-> NextServer, value |-> v]),
             requestEvents' = requestEvents \cup
               {[at |-> NextServer, fn |-> "ReceiveRequest",
                 frame |-> [id |-> Len(requested) + 1, value |-> v]]}
      PROVE  /\ DOMAIN requested \subseteq DOMAIN requested'
             /\ \A i \in FreshIds' : i \in FreshIds \/ i \notin DOMAIN requested
  <2>1. /\ DOMAIN requested = 1 .. Len(requested) /\ Len(requested) \in Nat
        /\ DOMAIN requested' = 1 .. Len(requested) + 1
    BY <1>3 DEF TypeOK, ClientTypeOK
  <2>2. \A r \in requestEvents' : r \in requestEvents \/ r.frame.id = Len(requested) + 1
    BY <1>3
  <2>3. \A i \in FreshIds' : i \in FreshIds \/ i = Len(requested) + 1
    BY <1>1, <2>2 DEF FreshIds
  <2>4. QED
    BY <2>1, <2>3
<1>4. QED
  BY <1>2, <1>3 DEF SendRequest

\* ProposalInv holds at the start.
LEMMA ProposalInit == TimedInit => ProposalInv
  BY DEF TimedInit, Init, SimInit, ServerInit, ProposalInv, ProposedOnce,
     MessagesInTime, Ids

\* Every step keeps the invariant of proposals.
LEMMA ProposalStep ==
  ASSUME TypeOK, TypeOK', ClockInv, Match, VotingParts, ProposalInv,
         [TimedNext]_timedVars
  PROVE  ProposalInv'
<1>a. /\ now \in Nat /\ m_stopTime \in Nat /\ due \in [Pending -> Nat]
      /\ proposeAt \in [Server -> Nat] /\ sendAt \in Nat
  BY StopAssumption DEF ClockInv, TimeTypeOK
<1>1. CASE TimedRequestStep
  <2>1. PICK r \in requestEvents : /\ RunsAt(due[r])
                                   /\ ReceiveRequest(r) \/ CreateProposalFromRequest(r)
                                   /\ Schedule(due[r])
    BY <1>1 DEF TimedRequestStep
  <2>2. /\ UNCHANGED <<requested, proposedAt, m_stopTime>>
        /\ UNCHANGED <<events, m_proposals>>
    BY <1>1, <2>1 DEF TimedRequestStep, clientVars, ReceiveRequest,
       CreateProposalFromRequest, serverVars, proposerVars
  <2>3. now' \in Nat /\ now <= now'
    BY <2>1, EventTimes DEF RunsAt, Pending
  <2>4. \A x \in events : due'[x] = due[x]
    BY <2>1, <2>2, ScheduledTimes DEF Pending
  <2>5. FreshIds' \subseteq FreshIds
    BY <2>1, RequestHandlersTake
  <2>6. QED
    BY <1>a, <2>2, <2>3, <2>4, <2>5, ProposalsUntouched
<1>2. ASSUME NEW s \in Server, TimedProposeStep(s)
      PROVE  ProposalInv'
  <2> DEFINE t == proposeAt[s]
  <2>1. /\ RunsAt(t) /\ Schedule(t) /\ NoteProposals(t)
        /\ DoSyncPropose(s) \/ DoAsyncPropose(s)
        /\ UNCHANGED <<requested, m_stopTime>>
    BY <1>2 DEF TimedProposeStep, clientVars
  <2>2. t \in Nat /\ now <= t
    BY <2>1, EventTimes DEF DoSyncPropose, DoAsyncPropose
  <2>3. MakesProposals /\ \A n \in events' : n \in events \/ Proposes(n)
    BY <2>1, SlotProposes
  <2>4. QED
    BY <2>1, <2>2, <2>3, HandlerKeepsProposals
<1>3. CASE TimedMessageStep
  <2>1. PICK e \in events : /\ RunsAt(due[e])
                            /\ ReceiveMessage(e) \/ SendAcceptMessage(e)
                            /\ Schedule(due[e])
                            /\ NoteProposals(due[e])
    BY <1>3 DEF TimedMessageStep
  <2>2. UNCHANGED <<requested, m_stopTime>>
    BY <1>3 DEF TimedMessageStep, clientVars
  <2>3. due[e] \in Nat /\ now <= due[e]
    BY EventTimes DEF Pending
  <2>4. /\ MakesProposals
        /\ \A n \in events' : n \in events \/ Follows(n, e) \/ Proposes(n)
    BY <2>1, HandlerFollows
  <2>5. QED
    BY <2>1, <2>2, <2>3, <2>4, HandlerKeepsProposals
<1>4. CASE TimedSendRequest
  <2>1. /\ RunsAt(sendAt) /\ SendRequest /\ Schedule(sendAt)
        /\ UNCHANGED serverVars /\ UNCHANGED <<m_stopTime, proposedAt>>
    BY <1>4 DEF TimedSendRequest
  <2>2. UNCHANGED <<events, m_proposals>>
    BY <2>1 DEF SendRequest, serverVars, proposerVars
  <2>3. now' \in Nat /\ now <= now'
    BY <2>1, EventTimes DEF RunsAt, SendRequest
  <2>4. \A x \in events : due'[x] = due[x]
    BY <2>1, <2>2, ScheduledTimes DEF Pending
  <2>5. QED
    BY <1>a, <2>1, <2>2, <2>3, <2>4, SendIsNew, ProposalsUntouched
<1>5. ASSUME NEW s \in Server, TimedStop(s)
      PROVE  ProposalInv'
  <2>1. /\ now' = m_stopTime /\ Earliest(m_stopTime)
        /\ UNCHANGED <<requestEvents, events, m_waitingProposals, m_proposals, due,
                       requested, proposedAt, m_stopTime>>
    BY <1>5 DEF TimedStop, StopApplication, clientVars, proposerVars
  <2>2. now <= m_stopTime
    BY <1>5, StopsInTime
  <2>3. FreshIds' = FreshIds
    BY <2>1 DEF FreshIds
  <2>4. QED
    BY <1>a, <2>1, <2>2, <2>3, ProposalsUntouched
<1>6. CASE UNCHANGED timedVars
  <2>1. UNCHANGED <<requestEvents, events, m_waitingProposals, m_proposals, due,
                    requested, proposedAt, m_stopTime, now>>
    BY <1>6 DEF timedVars, timeVars, vars, simVars, serverVars, proposerVars, clientVars
  <2>2. FreshIds' = FreshIds
    BY <2>1 DEF FreshIds
  <2>3. QED
    BY <1>a, <2>1, <2>2, ProposalsUntouched
<1>7. QED
  BY <1>1, <1>2, <1>3, <1>4, <1>5, <1>6 DEF TimedNext, TimedEnd

(***************************************************************************)
(* No timer is set from the stop time on, and requests are handled in the  *)
(* time they take.                                                         *)
(***************************************************************************)
\* A server has one chain of propose events, whichever the protocol.
LEMMA OneChain ==
  ASSUME TypeOK', SecondRoundInv', NEW s \in Server, IsAsync
  PROVE  proposeEvents'[s] <= 1
<1>1. CASE s = Leader
  BY <1>1 DEF SecondRoundInv, OneJob
<1>2. CASE s # Leader
  BY <1>2 DEF SecondRoundInv, OnlyLeader
<1>3. QED
  BY <1>1, <1>2

\* A poll is started by a DECISION_ACK only before the stop.
LEMMA HandlersStartPolls ==
  ASSUME TypeOK, NEW e \in events, ReceiveMessage(e) \/ SendAcceptMessage(e),
         NEW s \in Server
  PROVE  \/ proposeEvents'[s] = proposeEvents[s]
         \/ IsAsync /\ ~PastStopTime /\ proposeEvents'[s] = proposeEvents[s] + 1
<1>1. CASE UNCHANGED proposeEvents
  BY <1>1
<1>2. CASE DoReceivedDecisionAckMessage(e)
  <2>1. /\ IsAsync
        /\ \/ UNCHANGED proposeEvents
           \/ \E E, P : AsyncPropose(e.at, P, E, proposeEvents[e.at])
    BY <1>2 DEF DoReceivedDecisionAckMessage, proposerVars
  <2>2. ASSUME NEW E, NEW P, AsyncPropose(e.at, P, E, proposeEvents[e.at])
        PROVE  \/ proposeEvents'[s] = proposeEvents[s]
               \/ ~PastStopTime /\ proposeEvents'[s] = proposeEvents[s] + 1
    BY <2>2 DEF AsyncPropose, TypeOK, ServerTypeOK
  <2>3. QED
    BY <2>1, <2>2
<1>3. QED
  BY <1>1, <1>2 DEF ReceiveMessage, DoReceivedProposalMessage, SendAcceptMessage,
     DoReceivedAcceptMessage, DoReceivedDecisionMessage, serverVars, proposerVars

\* A slot or poll of server s leaves the timers of the others alone.
LEMMA SlotsOfOthers ==
  ASSUME TypeOK, NEW s \in Server, DoSyncPropose(s) \/ DoAsyncPropose(s)
  PROVE  /\ \A u \in Server \ {s} : proposeEvents'[u] = proposeEvents[u]
         /\ ~IsAsync => proposeEvents'[s] <= proposeEvents[s]
         /\ ~IsAsync /\ PastStopTime => proposeEvents'[s] = proposeEvents[s] - 1
         /\ IsAsync /\ PastStopTime => proposeEvents'[s] = proposeEvents[s] - 1
<1>1. proposeEvents \in [Server -> Nat]
  BY DEF TypeOK, ServerTypeOK
<1>2. CASE DoSyncPropose(s)
  BY <1>1, <1>2 DEF DoSyncPropose
<1>3. CASE DoAsyncPropose(s)
  BY <1>1, <1>3 DEF DoAsyncPropose, AsyncPropose
<1>4. QED
  BY <1>2, <1>3

\* TimersInTime holds at the start.
LEMMA TimersInit == TimedInit => TimersInTime
<1> SUFFICES ASSUME TimedInit PROVE TimersInTime
  OBVIOUS
<1>1. /\ now = 0 /\ sendAt = 0 /\ m_stopTime \in Nat
      /\ \A s \in Server : proposeEvents[s] <= 1
  BY StopAssumption DEF TimedInit, Init, ServerInit
<1>2. \A s \in Server : proposeAt[s] \in Nat /\ proposeAt[s] <= ProposeInterval
  <2>1. CASE IsAsync
    BY <2>1 DEF TimedInit, ProposeInterval, PollInterval
  <2>2. CASE ~IsAsync
    <3> SUFFICES ASSUME NEW s \in Server
                 PROVE  s * SlotWidth \in Nat /\ s * SlotWidth <= m_proposePeriod
      BY <2>2 DEF TimedInit, ProposeInterval
    <3>1. s \in Nat /\ NumNodes \in Nat /\ s <= NumNodes /\ SlotWidth \in Nat
      BY NumNodesAssumption, IntervalTypes DEF Server
    <3>2. s * SlotWidth <= NumNodes * SlotWidth
      BY <3>1, TimesMonotone
    <3>3. s * SlotWidth \in Nat /\ NumNodes * SlotWidth = m_proposePeriod
      BY <3>1 DEF m_proposePeriod
    <3>4. QED
      BY <3>2, <3>3
  <2>3. QED
    BY <2>1, <2>2
<1>3. ProposeInterval \in Nat /\ m_sendInterval \in Nat
  BY IntervalTypes DEF ProposeInterval, PollInterval
<1>4. QED
  BY <1>1, <1>2, <1>3 DEF TimersInTime

\* Every step keeps TimersInTime.
LEMMA TimersStep ==
  ASSUME TypeOK, TypeOK', ClockInv, SecondRoundInv', TimersInTime,
         [TimedNext]_timedVars
  PROVE  TimersInTime'
<1>a. /\ now \in Nat /\ m_stopTime \in Nat /\ proposeAt \in [Server -> Nat]
      /\ sendAt \in Nat /\ proposeEvents \in [Server -> Nat]
      /\ proposeEvents' \in [Server -> Nat]
      /\ ProposeInterval \in Nat /\ m_sendInterval \in Nat /\ PollInterval \in Nat
  BY StopAssumption, IntervalTypes
     DEF ClockInv, TimeTypeOK, TypeOK, ServerTypeOK, ProposeInterval, PollInterval
<1>b. ASSUME now' \in Nat, now <= now',
             UNCHANGED <<proposeEvents, proposeAt, sendEvent, sendAt, m_stopTime>>
      PROVE  TimersInTime'
  <2>1. ASSUME NEW s \in Server
        PROVE  /\ proposeEvents'[s] <= 1
               /\ proposeEvents'[s] > 0 => /\ proposeAt'[s] <= now' + ProposeInterval
                                           /\ proposeAt'[s] <= m_stopTime' + ProposeInterval
    BY <1>a, <1>b DEF TimersInTime
  <2>2. sendEvent' => sendAt' <= m_stopTime' + m_sendInterval
    BY <1>b DEF TimersInTime
  <2>3. QED
    BY <2>1, <2>2 DEF TimersInTime, ProposeInterval, m_proposePeriod, m_sendInterval,
       PollInterval, SlotWidth
<1>1. CASE TimedRequestStep
  <2>1. PICK r \in requestEvents : /\ RunsAt(due[r])
                                   /\ ReceiveRequest(r) \/ CreateProposalFromRequest(r)
    BY <1>1 DEF TimedRequestStep
  <2>2. now' \in Nat /\ now <= now'
    BY <2>1, EventTimes DEF RunsAt, Pending
  <2>3. QED
    BY <1>b, <1>1, <2>1, <2>2 DEF TimedRequestStep, clientVars, ReceiveRequest,
       CreateProposalFromRequest, serverVars, proposerVars
<1>2. ASSUME NEW s \in Server, TimedProposeStep(s)
      PROVE  TimersInTime'
  <2> DEFINE t == proposeAt[s]
  <2>1. /\ RunsAt(t)
        /\ DoSyncPropose(s) \/ DoAsyncPropose(s)
        /\ proposeAt' = [proposeAt EXCEPT ![s] = t + ProposeInterval]
        /\ UNCHANGED <<sendEvent, sendAt, m_stopTime>>
    BY <1>2 DEF TimedProposeStep, clientVars, ProposeInterval
  <2>2. t \in Nat /\ now <= t
    BY <2>1, EventTimes DEF DoSyncPropose, DoAsyncPropose
  <2>3. now' = t /\ (stopped = {} <=> t < m_stopTime)
    BY <2>1, <2>2, RunsBetweenStops
  <2>4. ASSUME NEW u \in Server
        PROVE  /\ proposeEvents'[u] <= 1
               /\ proposeEvents'[u] > 0 => /\ proposeAt'[u] <= now' + ProposeInterval
                                           /\ proposeAt'[u] <= m_stopTime' + ProposeInterval
    <3>1. CASE u = s
      <4>1. proposeEvents'[s] <= 1
        BY <1>a, <2>1, OneChain, SlotsOfOthers DEF TimersInTime
      <4>2. PastStopTime => proposeEvents'[s] = 0
        BY <1>a, <2>1, SlotsOfOthers DEF TimersInTime, DoSyncPropose, DoAsyncPropose
      <4>3. proposeAt'[s] = t + ProposeInterval
        BY <1>a, <2>1
      <4>4. QED
        BY <1>a, <2>1, <2>2, <2>3, <3>1, <4>1, <4>2, <4>3 DEF PastStopTime
    <3>2. CASE u # s
      <4>1. proposeEvents'[u] = proposeEvents[u] /\ proposeAt'[u] = proposeAt[u]
        BY <1>a, <2>1, <3>2, SlotsOfOthers
      <4>2. QED
        BY <1>a, <2>1, <2>2, <2>3, <4>1 DEF TimersInTime
    <3>3. QED
      BY <3>1, <3>2
  <2>5. QED
    BY <2>1, <2>4 DEF TimersInTime, ProposeInterval, m_proposePeriod, m_sendInterval,
       PollInterval, SlotWidth
<1>3. CASE TimedMessageStep
  <2>1. PICK e \in events :
          /\ RunsAt(due[e])
          /\ ReceiveMessage(e) \/ SendAcceptMessage(e)
          /\ proposeAt' = [s \in Server |-> IF proposeEvents'[s] > proposeEvents[s]
                                            THEN due[e] + PollInterval
                                            ELSE proposeAt[s]]
    BY <1>3 DEF TimedMessageStep
  <2> DEFINE t == due[e]
  <2>2. UNCHANGED <<sendEvent, sendAt, m_stopTime>>
    BY <1>3 DEF TimedMessageStep, clientVars
  <2>3. t \in Nat /\ now <= t
    BY EventTimes DEF Pending
  <2>4. now' = t /\ (stopped = {} <=> t < m_stopTime)
    BY <2>1, <2>3, RunsBetweenStops
  <2>5. ASSUME NEW u \in Server
        PROVE  /\ proposeEvents'[u] <= 1
               /\ proposeEvents'[u] > 0 => /\ proposeAt'[u] <= now' + ProposeInterval
                                           /\ proposeAt'[u] <= m_stopTime' + ProposeInterval
    <3> HIDE DEF t
    <3>1. CASE proposeEvents'[u] = proposeEvents[u]
      <4>1. proposeAt'[u] = proposeAt[u]
        BY <1>a, <2>1, <3>1
      <4>2. QED
        BY <1>a, <2>2, <2>3, <2>4, <3>1, <4>1 DEF TimersInTime
    <3>2. CASE IsAsync /\ ~PastStopTime /\ proposeEvents'[u] = proposeEvents[u] + 1
      <4>1. proposeAt'[u] = t + ProposeInterval
        BY <1>a, <2>1, <3>2 DEF t, ProposeInterval
      <4>2. proposeEvents'[u] <= 1
        BY <3>2, OneChain
      <4>3. QED
        BY <1>a, <2>2, <2>3, <2>4, <3>2, <4>1, <4>2 DEF PastStopTime
    <3>3. QED
      BY <2>1, <3>1, <3>2, HandlersStartPolls
  <2>6. QED
    BY <2>2, <2>5 DEF TimersInTime, ProposeInterval, m_proposePeriod, m_sendInterval,
       PollInterval, SlotWidth
<1>4. CASE TimedSendRequest
  <2> DEFINE next == sendAt + m_sendInterval
  <2>1. /\ RunsAt(sendAt) /\ SendRequest
        /\ sendAt' = IF Len(requested') < MaxRequests \/ next > m_stopTime
                     THEN next ELSE m_stopTime
        /\ UNCHANGED <<proposeEvents, proposeAt, m_stopTime>>
    BY <1>4 DEF TimedSendRequest, serverVars, proposerVars
  <2>2. sendAt \in Nat /\ now <= sendAt
    BY <2>1, EventTimes DEF SendRequest
  <2>3. now' = sendAt /\ (stopped = {} <=> sendAt < m_stopTime)
    BY <2>1, <2>2, RunsBetweenStops
  <2>4. ASSUME NEW u \in Server
        PROVE  /\ proposeEvents'[u] <= 1
               /\ proposeEvents'[u] > 0 => /\ proposeAt'[u] <= now' + ProposeInterval
                                           /\ proposeAt'[u] <= m_stopTime' + ProposeInterval
    BY <1>a, <2>1, <2>2, <2>3 DEF TimersInTime
  <2>5. sendEvent' => sendAt' <= m_stopTime' + m_sendInterval
    <3>1. PastStopTime => ~sendEvent'
      BY <2>1 DEF SendRequest
    <3>2. QED
      BY <1>a, <2>1, <2>3, <3>1 DEF PastStopTime
  <2>6. QED
    BY <2>4, <2>5 DEF TimersInTime, ProposeInterval, m_proposePeriod, m_sendInterval,
       PollInterval, SlotWidth
<1>5. ASSUME NEW s \in Server, TimedStop(s)
      PROVE  TimersInTime'
  <2>1. /\ now' = m_stopTime
        /\ UNCHANGED <<proposeEvents, proposeAt, sendEvent, sendAt, m_stopTime>>
    BY <1>5 DEF TimedStop, StopApplication, clientVars, proposerVars
  <2>2. now <= m_stopTime
    BY <1>5, StopsInTime
  <2>3. QED
    BY <1>a, <1>b, <2>1, <2>2
<1>6. CASE UNCHANGED timedVars
  BY <1>6, <1>a, <1>b DEF timedVars, timeVars, vars, serverVars, proposerVars, clientVars
<1>7. QED
  BY <1>1, <1>2, <1>3, <1>4, <1>5, <1>6 DEF TimedNext, TimedEnd

\* A request not touched by a step that lets time pass is handled as before.
LEMMA RequestsUntouched ==
  ASSUME RequestsInTime, UNCHANGED <<requested, requestedAt, requestEvents, m_stopTime>>,
         \A x \in requestEvents : due'[x] = due[x]
  PROVE  RequestsInTime'
  BY DEF RequestsInTime, HandledAt

\* Every request has a time, before the stop time.
LEMMA RequestedTimes ==
  ASSUME TypeOK, ClockInv, Len(requestedAt) = Len(requested)
  PROVE  /\ DOMAIN requestedAt = DOMAIN requested
         /\ \A i \in DOMAIN requested : requestedAt[i] \in Nat
<1>1. requestedAt \in Seq(Nat) /\ requested \in Seq([to : Server, value : Value])
  BY DEF ClockInv, TimeTypeOK, TypeOK, ClientTypeOK
<1>2. DOMAIN requestedAt = 1 .. Len(requestedAt) /\ DOMAIN requested = 1 .. Len(requested)
  BY <1>1, LenProperties
<1>3. \A i \in 1 .. Len(requestedAt) : requestedAt[i] \in Nat
  BY <1>1, ElementOfSeq
<1>4. QED
  BY <1>2, <1>3

\* The handler of a received request is scheduled 10 ns later.
LEMMA ReceivedInTime ==
  ASSUME TypeOK, ClockInv, RequestsInTime, NEW r \in requestEvents,
         ReceiveRequest(r) \/ CreateProposalFromRequest(r), Schedule(due[r]),
         UNCHANGED <<requested, requestedAt, m_stopTime>>
  PROVE  RequestsInTime'
<1> DEFINE n == [r EXCEPT !.fn = "CreateProposalFromRequest"]
<1>1. r \in RequestEvent /\ requestEvents' \subseteq (requestEvents \ {r}) \cup {n}
  BY DEF ReceiveRequest, CreateProposalFromRequest, TypeOK, SimTypeOK
<1>2. n.frame = r.frame /\ n.fn = "CreateProposalFromRequest"
  BY <1>1 DEF RequestEvent
<1> HIDE DEF n
<1>3. /\ \A x \in Pending' : x \in Pending => due'[x] = due[x]
      /\ \A x \in Pending' : x \notin Pending => \E d \in DelayOf(x) : due'[x] = due[r] + d
  BY ScheduledTimes
<1>4. ASSUME NEW x \in requestEvents'
      PROVE  /\ x.frame.id \in DOMAIN requested
             /\ \E d \in RequestDelay : due'[x] = HandledAt(x, d)
  <2>1. x \in Pending'
    BY DEF Pending
  <2>2. CASE x \in requestEvents
    <3>1. due'[x] = due[x]
      BY <1>3, <2>1, <2>2 DEF Pending
    <3>2. QED
      BY <2>2, <3>1 DEF RequestsInTime
  <2>3. CASE x \notin requestEvents
    <3>1. x = n /\ r.fn = "ReceiveRequest"
      BY <1>1, <2>3 DEF ReceiveRequest, CreateProposalFromRequest
    <3>2. x \notin events
      BY <1>2, <3>1 DEF TypeOK, SimTypeOK, Event, Handler
    <3>3. due'[x] = due[r] + 10
      <4>1. \E d \in DelayOf(x) : due'[x] = due[r] + d
        <5>1. x \notin Pending
          BY <2>3, <3>2 DEF Pending
        <5>2. QED
          BY <1>3, <2>1, <5>1
      <4>2. DelayOf(x) = {10}
        BY <1>2, <3>1 DEF DelayOf, HandlingDelay
      <4>3. QED
        BY <4>1, <4>2
    <3>4. PICK d \in RequestDelay : due[r] = HandledAt(r, d)
      BY DEF RequestsInTime
    <3>5. /\ HandledAt(r, d) = requestedAt[r.frame.id] + d + 0
          /\ HandledAt(x, d) = requestedAt[r.frame.id] + d + 10
      BY <1>2, <3>1 DEF HandledAt, HandlingDelay
    <3>6. r.frame.id \in DOMAIN requestedAt /\ requestedAt[r.frame.id] \in Nat
      BY RequestedTimes DEF RequestsInTime
    <3>7. d \in Nat
      BY DelayAssumption
    <3>8. due'[x] = HandledAt(x, d)
      BY <3>3, <3>4, <3>5, <3>6, <3>7
    <3>9. QED
      BY <1>2, <3>1, <3>8 DEF RequestsInTime
  <2>4. QED
    BY <2>2, <2>3
<1>5. QED
  BY <1>4 DEF RequestsInTime, HandledAt

\* The request that is sent arrives after its delay.
LEMMA SentInTime ==
  ASSUME TypeOK, TypeOK', ClockInv, RequestsInTime, TimedSendRequest
  PROVE  RequestsInTime'
<1> DEFINE t == sendAt
<1>1. /\ RunsAt(t) /\ SendRequest /\ Schedule(t) /\ UNCHANGED m_stopTime
      /\ requestedAt' = IF PastStopTime THEN requestedAt ELSE Append(requestedAt, t)
  BY DEF TimedSendRequest
<1>2. t \in Nat /\ now <= t
  BY <1>1, EventTimes DEF SendRequest
<1>3. stopped = {} <=> t < m_stopTime
  BY <1>1, <1>2, RunsBetweenStops
<1>4. /\ \A x \in Pending' : x \in Pending => due'[x] = due[x]
      /\ \A x \in Pending' : x \notin Pending => \E d \in DelayOf(x) : due'[x] = t + d
  BY <1>1, ScheduledTimes
<1>5. CASE PastStopTime
  <2>1. UNCHANGED <<requested, requestedAt, requestEvents>>
    BY <1>1, <1>5 DEF SendRequest
  <2>2. \A x \in requestEvents : due'[x] = due[x]
    BY <1>4, <2>1 DEF Pending
  <2>3. QED
    BY <1>1, <2>1, <2>2, RequestsUntouched
<1>6. CASE ~PastStopTime
  <2> DEFINE k == Len(requested) + 1
  <2>1. PICK v \in Value :
          /\ requested' = Append(requested, [to |-> NextServer, value |-> v])
          /\ requestEvents' = requestEvents \cup
               {[at |-> NextServer, fn |-> "ReceiveRequest",
                 frame |-> [id |-> k, value |-> v]]}
    BY <1>1, <1>6 DEF SendRequest
  <2>2. /\ requestedAt \in Seq(Nat) /\ requested \in Seq([to : Server, value : Value])
        /\ Len(requestedAt) = Len(requested)
        /\ requestedAt' = Append(requestedAt, t)
    BY <1>1, <1>6 DEF ClockInv, TimeTypeOK, TypeOK, ClientTypeOK, RequestsInTime
  <2>3. /\ Len(requested) \in Nat /\ DOMAIN requested = 1 .. Len(requested)
        /\ DOMAIN requested' = 1 .. k /\ DOMAIN requestedAt' = 1 .. k
        /\ DOMAIN requestedAt = 1 .. Len(requested)
        /\ Len(requested') = k /\ Len(requestedAt') = k
        /\ \A i \in 1 .. Len(requested) : requestedAt'[i] = requestedAt[i]
        /\ requestedAt'[k] = t
    BY <2>1, <2>2
  <2> HIDE DEF k
  <2>4. \A i \in DOMAIN requestedAt' : requestedAt'[i] < m_stopTime'
    <3>1. \A i \in 1 .. Len(requested) : requestedAt[i] < m_stopTime
      BY <2>3 DEF RequestsInTime
    <3>2. \A i \in 1 .. k : i \in 1 .. Len(requested) \/ i = k
      BY <2>3 DEF k
    <3>3. QED
      BY <1>1, <1>3, <1>6, <2>3, <3>1, <3>2 DEF PastStopTime
  <2>5. ASSUME NEW x \in requestEvents'
        PROVE  /\ x.frame.id \in DOMAIN requested'
               /\ \E d \in RequestDelay : due'[x] = HandledAt(x, d)'
    <3>1. x \in Pending'
      BY DEF Pending
    <3>2. CASE x \in requestEvents
      <4>1. x.frame.id \in 1 .. Len(requested) /\ due'[x] = due[x]
        BY <1>4, <2>3, <3>1, <3>2 DEF Pending, RequestsInTime
      <4>2. PICK d \in RequestDelay : due[x] = HandledAt(x, d)
        BY <3>2 DEF RequestsInTime
      <4>3. HandledAt(x, d)' = HandledAt(x, d)
        BY <2>3, <4>1 DEF HandledAt
      <4>4. x.frame.id \in 1 .. k
        BY <2>3, <4>1 DEF k
      <4>5. QED
        BY <2>3, <4>1, <4>2, <4>3, <4>4
    <3>3. CASE x \notin requestEvents
      <4>1. x.fn = "ReceiveRequest" /\ x.frame.id = k
        BY <2>1, <3>3
      <4>2. x \notin events
        BY <4>1 DEF TypeOK, SimTypeOK, Event, Handler
      <4>3. DelayOf(x) = RequestDelay
        BY <4>1 DEF DelayOf
      <4>4. PICK d \in RequestDelay : due'[x] = t + d
        BY <1>4, <3>1, <3>3, <4>2, <4>3 DEF Pending
      <4>5. HandledAt(x, d)' = t + d + 0 /\ d \in Nat
        BY <2>3, <4>1, DelayAssumption DEF HandledAt
      <4>6. k \in DOMAIN requested'
        BY <2>3 DEF k
      <4>7. QED
        BY <1>2, <4>1, <4>4, <4>5, <4>6
    <3>4. QED
      BY <3>2, <3>3
  <2>6. QED
    BY <2>3, <2>4, <2>5 DEF RequestsInTime
<1>7. QED
  BY <1>5, <1>6

\* Every step keeps RequestsInTime.
LEMMA RequestsStep ==
  ASSUME TypeOK, TypeOK', ClockInv, RequestsInTime, [TimedNext]_timedVars
  PROVE  RequestsInTime'
<1>1. CASE TimedRequestStep
  <2>1. PICK r \in requestEvents : /\ ReceiveRequest(r) \/ CreateProposalFromRequest(r)
                                   /\ Schedule(due[r])
    BY <1>1 DEF TimedRequestStep
  <2>2. QED
    BY <1>1, <2>1, ReceivedInTime DEF TimedRequestStep, clientVars
<1>2. CASE TimedSendRequest
  BY <1>2, SentInTime
<1>3. ASSUME NEW t, Schedule(t),
             UNCHANGED <<requested, requestedAt, requestEvents, m_stopTime>>
      PROVE  RequestsInTime'
  <2>1. \A x \in requestEvents : due'[x] = due[x]
    BY <1>3, ScheduledTimes DEF Pending
  <2>2. QED
    BY <1>3, <2>1, RequestsUntouched
<1>4. ASSUME NEW s \in Server, TimedProposeStep(s)
      PROVE  RequestsInTime'
  BY <1>3, <1>4 DEF TimedProposeStep, clientVars, DoSyncPropose, DoAsyncPropose
<1>5. CASE TimedMessageStep
  <2>1. PICK e \in events : Schedule(due[e]) /\ (ReceiveMessage(e) \/ SendAcceptMessage(e))
    BY <1>5 DEF TimedMessageStep
  <2>2. UNCHANGED requestEvents
    BY <2>1 DEF ReceiveMessage, SendAcceptMessage, DoReceivedProposalMessage,
       DoReceivedAcceptMessage, DoReceivedDecisionMessage, DoReceivedDecisionAckMessage
  <2>3. QED
    BY <1>3, <1>5, <2>1, <2>2 DEF TimedMessageStep, clientVars
<1>6. CASE UNCHANGED <<requested, requestedAt, requestEvents, m_stopTime, due>>
  BY <1>6, RequestsUntouched
<1>7. QED
  BY <1>1, <1>2, <1>4, <1>5, <1>6 DEF TimedNext, TimedStop, StopApplication, TimedEnd,
     timedVars, timeVars, vars, simVars, clientVars

(***************************************************************************)
(* No event of the run is later than LastEvent.                            *)
(***************************************************************************)
LEMMA EndsStep ==
  ASSUME TypeOK, ClockInv, ProposalInv, TimersInTime, RequestsInTime, EndsInTime,
         [TimedNext]_timedVars
  PROVE  EndsInTime'
<1>a. /\ m_stopTime \in Nat /\ now \in Nat
      /\ UNCHANGED m_stopTime
  BY StopAssumption DEF ClockInv, TimeTypeOK, TimedNext, TimedRequestStep,
     TimedProposeStep, TimedMessageStep, TimedSendRequest, TimedStop, TimedEnd,
     timedVars, timeVars
<1>b. LastEvent' = LastEvent
  BY <1>a DEF LastEvent, m_proposePeriod, m_sendInterval, PollInterval, DecisionTime,
     HandlingDelay, SlotWidth
<1>c. /\ LastEvent \in Nat
      /\ m_stopTime + ProposeInterval <= LastEvent
      /\ m_stopTime + m_sendInterval <= LastEvent
      /\ m_stopTime + DecisionTime <= LastEvent
      /\ m_stopTime + LongestRequest + HandlingDelay <= LastEvent
      /\ DecisionTime \in Nat /\ ProposeInterval \in Nat /\ m_sendInterval \in Nat
  BY <1>a, LastEventBounds, IntervalTypes
<1>1. ASSUME NEW r \in requestEvents
      PROVE  due[r] <= LastEvent
  <2>1. PICK d \in RequestDelay : due[r] = HandledAt(r, d)
    BY DEF RequestsInTime
  <2>2. /\ r.frame.id \in DOMAIN requestedAt /\ requestedAt[r.frame.id] \in Nat
        /\ requestedAt[r.frame.id] < m_stopTime
    BY RequestedTimes DEF RequestsInTime
  <2>3. /\ d \in Nat /\ d <= LongestRequest /\ LongestRequest \in Nat
        /\ HandlingDelay = 10
    BY LongestDelays DEF HandlingDelay
  <2>4. HandledAt(r, d) <= m_stopTime + LongestRequest + HandlingDelay
        /\ HandledAt(r, d) \in Nat
    BY <1>a, <2>2, <2>3 DEF HandledAt
  <2>5. QED
    BY <1>a, <1>c, <2>1, <2>3, <2>4
<1>2. ASSUME NEW e \in events
      PROVE  due[e] <= LastEvent
  <2> DEFINE i == e.frame.proposalId
  <2>1. /\ due[e] <= proposedAt[i] + LatestAfter(e)
        /\ proposedAt[i] \in Nat /\ proposedAt[i] < m_stopTime
        /\ e.frame.type = "DECISION_ACK" => IsAsync
    BY DEF ProposalInv, MessagesInTime, ProposedOnce
  <2>2. due[e] \in Nat
    BY DEF ClockInv, TimeTypeOK, Pending
  <2>3. LatestAfter(e) <= DecisionTime /\ LatestAfter(e) \in Nat
    <3>1. /\ e.frame.type \in MessageType /\ e.fn \in Handler
          /\ LongestMessage \in Nat /\ LongestMessage = Max(MessageDelay)
      BY LongestDelays DEF TypeOK, SimTypeOK, Event, PaxosFrame, LongestMessage
    <3>2. DecisionTime = IF IsAsync THEN 4 * LongestMessage + 10
                                    ELSE 3 * LongestMessage + 10
      BY <3>1 DEF DecisionTime, HandlingDelay
    <3>3. QED
      BY <2>1, <3>1, <3>2, LatestCases DEF MessageType, Handler
  <2> HIDE DEF i
  <2>4. QED
    BY <1>a, <1>c, <2>1, <2>2, <2>3
<1>3. ASSUME NEW s \in Server, proposeEvents[s] > 0
      PROVE  proposeAt[s] <= LastEvent
  <2>1. proposeAt[s] <= m_stopTime + ProposeInterval /\ proposeAt[s] \in Nat
    BY <1>3, EventTimes DEF TimersInTime
  <2>2. QED
    BY <1>a, <1>c, <2>1
<1>4. sendEvent => sendAt <= LastEvent
  BY <1>a, <1>c, EventTimes DEF TimersInTime
<1>5. CASE TimedRequestStep
  BY <1>1, <1>5, <1>b DEF TimedRequestStep, RunsAt, EndsInTime
<1>6. ASSUME NEW s \in Server, TimedProposeStep(s)
      PROVE  EndsInTime'
  BY <1>3, <1>6, <1>b DEF TimedProposeStep, RunsAt, EndsInTime, DoSyncPropose,
     DoAsyncPropose
<1>7. CASE TimedMessageStep
  BY <1>2, <1>7, <1>b DEF TimedMessageStep, RunsAt, EndsInTime
<1>8. CASE TimedSendRequest
  BY <1>4, <1>8, <1>b DEF TimedSendRequest, RunsAt, EndsInTime, SendRequest
<1>9. ASSUME NEW s \in Server, TimedStop(s)
      PROVE  EndsInTime'
  BY <1>9, <1>a, <1>b, <1>c DEF TimedStop, EndsInTime
<1>10. CASE UNCHANGED timedVars
  BY <1>10, <1>b DEF timedVars, timeVars, EndsInTime
<1>11. QED
  BY <1>5, <1>6, <1>7, <1>8, <1>9, <1>10 DEF TimedNext, TimedEnd

(***************************************************************************)
(* The invariant of the deadlines: every event of a proposal is due within *)
(* the messages that led to it, no timer runs past the stop time by more   *)
(* than its interval, and a request is handled after its delay.            *)
(***************************************************************************)
LEMMA DeadlineCorrect == TimedSpec => []DeadlineInv
<1>1. TimedInit => DeadlineInv
  <2> SUFFICES ASSUME TimedInit PROVE DeadlineInv
    OBVIOUS
  <2>1. RequestsInTime
    BY DEF TimedInit, Init, SimInit, ClientInit, RequestsInTime
  <2>2. EndsInTime
    BY StopAssumption, LastEventBounds DEF TimedInit, EndsInTime
  <2>3. QED
    BY <2>1, <2>2, ProposalInit, TimersInit DEF DeadlineInv
<1>2. BasicInv /\ BasicInv' /\ DeadlineInv /\ [TimedNext]_timedVars => DeadlineInv'
  BY ProposalStep, TimersStep, RequestsStep, EndsStep
     DEF BasicInv, UntimedInv, DeadlineInv
<1>3. QED
  BY <1>1, <1>2, BasicCorrect, PTL DEF TimedSpec

(***************************************************************************)
(* The run ends soon after the stop time, whatever the number of servers   *)
(* and requests: no event runs later than a period, a poll, an interval or *)
(* the time of a decision after it.                                        *)
(***************************************************************************)
THEOREM EndsInTimeCorrect == TimedSpec => []EndsInTime
<1>1. DeadlineInv => EndsInTime
  BY DEF DeadlineInv
<1>2. QED
  BY <1>1, DeadlineCorrect, PTL

-------------------------------------------------------------------------------
(***************************************************************************)
(* Answers.  No datagram is lost, so that what a proposal has not counted  *)
(* is on its way.                                                          *)
(***************************************************************************)
\* One vote is not enough for two servers or more.
LEMMA OneIsNotEnough == NumNodes > 1 => ~EnoughVotes(1)
  BY NumNodesAssumption DEF EnoughVotes

\* The servers that have answered are servers.
LEMMA AnsweredType ==
  ASSUME NEW s, NEW p
  PROVE  /\ Answered(s, p) \in SUBSET Server /\ Answered(s, p)' \in SUBSET Server
         /\ Confirming(s, p) \in SUBSET Server /\ Confirming(s, p)' \in SUBSET Server
  BY DEF Answered, Confirming

\* A step that counts nothing leaves what is on its way on its way.
LEMMA AnswersStay ==
  ASSUME NEW s \in Server, NEW p \in Proposal, AnswersOf(s, p),
         \A t \in Server : VotePending(t, p.id) => VotePending(t, p.id)',
         p.decided => \A t \in Server :
           (DecisionPending(t, p.id) \/ AckPending(t, p.id))
             => (DecisionPending(t, p.id) \/ AckPending(t, p.id))'
  PROVE  AnswersOf(s, p)'
<1>1. p.numAck \in Nat /\ p.numDecisionAck \in Nat
  BY DEF Proposal
<1>2. Answered(s, p)' \subseteq Answered(s, p)
  BY DEF Answered
<1>3. p.decided => Confirming(s, p)' \subseteq Confirming(s, p)
  BY DEF Confirming
<1>4. /\ Cardinality(Answered(s, p)') \in Nat /\ Cardinality(Answered(s, p)) \in Nat
      /\ Cardinality(Answered(s, p)') <= Cardinality(Answered(s, p))
  BY <1>2, AnsweredType, SizeOfServers
<1>5. p.decided => /\ Cardinality(Confirming(s, p)') \in Nat
                   /\ Cardinality(Confirming(s, p)) \in Nat
                   /\ Cardinality(Confirming(s, p)') <= Cardinality(Confirming(s, p))
  BY <1>3, AnsweredType, SizeOfServers
<1>6. ~p.decided => 1 + Cardinality(Answered(s, p)') <= p.numAck
  BY <1>1, <1>4 DEF AnswersOf
<1>7. p.decided => 1 + Cardinality(Confirming(s, p)') <= p.numDecisionAck
  BY <1>1, <1>5 DEF AnswersOf
<1>8. QED
  BY <1>6, <1>7 DEF AnswersOf

\* Nobody has answered what is just proposed, or just decided.
LEMMA NobodyAnswered ==
  ASSUME NumNodes > 1, NEW s \in Server, NEW p,
         \/ /\ ~p.decided /\ p.numAck = 1
            /\ \A t \in Server \ {s} : VotePending(t, p.id)'
         \/ /\ p.decided /\ p.numDecisionAck = 1 /\ IsAsync
            /\ \A t \in Server \ {s} : DecisionPending(t, p.id)'
  PROVE  AnswersOf(s, p)'
<1>1. Cardinality({}) = 0
  BY FS_EmptySet
<1>2. CASE /\ ~p.decided /\ p.numAck = 1
           /\ \A t \in Server \ {s} : VotePending(t, p.id)'
  <2>1. Answered(s, p)' = {}
    BY <1>2 DEF Answered
  <2>2. QED
    BY <1>1, <1>2, <2>1, OneIsNotEnough DEF AnswersOf
<1>3. CASE /\ p.decided /\ p.numDecisionAck = 1 /\ IsAsync
           /\ \A t \in Server \ {s} : DecisionPending(t, p.id)'
  <2>1. Confirming(s, p)' = {}
    BY <1>3 DEF Confirming
  <2>2. QED
    BY <1>1, <1>3, <2>1, OneIsNotEnough DEF AnswersOf
<1>4. QED
  BY <1>2, <1>3

\* A server that answers is one more.
LEMMA OneMoreAnswer ==
  ASSUME NEW A \in SUBSET Server, NEW B \in SUBSET Server, NEW v, B \subseteq A \cup {v}
  PROVE  /\ Cardinality(A) \in Nat /\ Cardinality(B) \in Nat
         /\ Cardinality(B) <= Cardinality(A) + 1
<1>1. /\ B \ {v} \in SUBSET Server /\ B \ {v} \subseteq A
      /\ IsFiniteSet(B) /\ IsFiniteSet(B \ {v})
      /\ Cardinality(B \ {v}) \in Nat /\ Cardinality(A) \in Nat
      /\ Cardinality(B \ {v}) <= Cardinality(A)
      /\ Cardinality(B) \in Nat
  BY SizeOfServers
<1>2. CASE v \in B
  <2>1. Cardinality(B \ {v}) = Cardinality(B) - 1
    BY <1>1, <1>2, FS_RemoveElement
  <2>2. QED
    BY <1>1, <2>1
<1>3. CASE v \notin B
  <2>1. B \ {v} = B
    BY <1>3
  <2>2. QED
    BY <1>1, <2>1
<1>4. QED
  BY <1>2, <1>3

\* A vote of v that does not decide is counted.
LEMMA VoteAnswers ==
  ASSUME NEW s \in Server, NEW p \in Proposal, AnswersOf(s, p), NEW v,
         NEW q, q.id = p.id, q.numAck = p.numAck + 1, q.decided = p.decided,
         q.numDecisionAck = p.numDecisionAck,
         ~EnoughVotes(q.numAck) \/ p.decided,
         \A t \in Server \ {v} : VotePending(t, p.id) => VotePending(t, p.id)',
         \A t \in Server :
           (DecisionPending(t, p.id) \/ AckPending(t, p.id))
             => (DecisionPending(t, p.id) \/ AckPending(t, p.id))'
  PROVE  AnswersOf(s, q)'
<1>1. p.numAck \in Nat /\ p.numDecisionAck \in Nat
  BY DEF Proposal
<1>2. Answered(s, q)' \subseteq Answered(s, p) \cup {v}
  BY DEF Answered
<1>3. Confirming(s, q)' \subseteq Confirming(s, p)
  BY DEF Confirming
<1>4. /\ Cardinality(Answered(s, q)') \in Nat /\ Cardinality(Answered(s, p)) \in Nat
      /\ Cardinality(Answered(s, q)') <= Cardinality(Answered(s, p)) + 1
  BY <1>2, AnsweredType, OneMoreAnswer
<1>5. /\ Cardinality(Confirming(s, q)') \in Nat
      /\ Cardinality(Confirming(s, p)) \in Nat
      /\ Cardinality(Confirming(s, q)') <= Cardinality(Confirming(s, p))
  BY <1>3, AnsweredType, SizeOfServers
<1>6. ~q.decided => 1 + Cardinality(Answered(s, q)') <= q.numAck
  BY <1>1, <1>4 DEF AnswersOf
<1>7. q.decided => 1 + Cardinality(Confirming(s, q)') <= q.numDecisionAck
  BY <1>1, <1>5 DEF AnswersOf
<1>8. QED
  BY <1>6, <1>7 DEF AnswersOf

\* A DECISION_ACK of v that does not complete is counted.
LEMMA AckAnswers ==
  ASSUME NEW s \in Server, NEW p \in Proposal, AnswersOf(s, p), NEW v,
         NEW q, q.id = p.id, q.numAck = p.numAck, q.decided = p.decided,
         q.numDecisionAck = p.numDecisionAck + 1,
         ~EnoughVotes(q.numDecisionAck),
         \A t \in Server : VotePending(t, p.id) => VotePending(t, p.id)',
         \A t \in Server \ {v} :
           (DecisionPending(t, p.id) \/ AckPending(t, p.id))
             => (DecisionPending(t, p.id) \/ AckPending(t, p.id))'
  PROVE  AnswersOf(s, q)'
<1>1. p.numAck \in Nat /\ p.numDecisionAck \in Nat
  BY DEF Proposal
<1>2. Answered(s, q)' \subseteq Answered(s, p)
  BY DEF Answered
<1>3. Confirming(s, q)' \subseteq Confirming(s, p) \cup {v}
  BY DEF Confirming
<1>4. /\ Cardinality(Answered(s, q)') \in Nat /\ Cardinality(Answered(s, p)) \in Nat
      /\ Cardinality(Answered(s, q)') <= Cardinality(Answered(s, p))
  BY <1>2, AnsweredType, SizeOfServers
<1>5. /\ Cardinality(Confirming(s, q)') \in Nat
      /\ Cardinality(Confirming(s, p)) \in Nat
      /\ Cardinality(Confirming(s, q)') <= Cardinality(Confirming(s, p)) + 1
  BY <1>3, AnsweredType, OneMoreAnswer
<1>6. ~q.decided => 1 + Cardinality(Answered(s, q)') <= q.numAck
  BY <1>1, <1>4 DEF AnswersOf
<1>7. q.decided => 1 + Cardinality(Confirming(s, q)') <= q.numDecisionAck
  BY <1>1, <1>5 DEF AnswersOf
<1>8. QED
  BY <1>6, <1>7 DEF AnswersOf

(***************************************************************************)
(* A decision goes on: what is on its way is learned when it arrives, and  *)
(* a proposal is finished only by learning its decision.                   *)
(***************************************************************************)
LEMMA DecisionStillComes ==
  ASSUME NEW i, DecisionComesFor(i),
         \A t \in Server : LearnedIds[t] \subseteq LearnedIds'[t],
         \A t \in Server : DecisionPending(t, i) =>
                             DecisionPending(t, i)' \/ i \in LearnedIds'[t],
         \A t \in Server : \A p \in m_proposals[t] : p.id = i =>
           \/ p.decided /\ i \in LearnedIds'[t]
           \/ \E o \in m_proposals'[t] : o.id = i /\ o.decided = p.decided
  PROVE  DecisionComesFor(i)'
<1>1. PICK s \in Server : Undecided(s, i) \/ SentToAll(s, i)
  BY DEF DecisionComesFor
<1>2. CASE Undecided(s, i)
  <2>1. Undecided(s, i)'
    BY <1>2 DEF Undecided
  <2>2. QED
    BY <2>1 DEF DecisionComesFor
<1>3. CASE SentToAll(s, i)
  <2>1. \A t \in Server \ {s} : i \in LearnedIds'[t] \/ DecisionPending(t, i)'
    BY <1>3 DEF SentToAll
  <2>2. i \in LearnedIds'[s] \/ \E p \in m_proposals'[s] : p.id = i
    BY <1>3 DEF SentToAll
  <2>3. SentToAll(s, i)'
    BY <2>1, <2>2 DEF SentToAll
  <2>4. QED
    BY <2>3 DEF DecisionComesFor
<1>4. QED
  BY <1>1, <1>2, <1>3

\* What a step keeps of the answers and decisions to come.
AnswersKept ==
  /\ AnswersCounted'
  /\ \A i \in Id : DecisionComesFor(i) => DecisionComesFor(i)'
  /\ \A s \in Server : \A p \in m_proposals'[s] : p.id \in Ids(m_proposals[s]) \/ ~p.decided

\* The messages of a proposal that no handler has consumed are still on their way.
LEMMA PendingStays ==
  ASSUME NEW t, NEW i, \A x \in events : x.frame.proposalId = i => x \in events'
  PROVE  /\ VotePending(t, i) => VotePending(t, i)'
         /\ DecisionPending(t, i) => DecisionPending(t, i)'
         /\ AckPending(t, i) => AckPending(t, i)'
<1>1. VotePending(t, i) => VotePending(t, i)'
  BY DEF VotePending, VoteEvent, VoterOf
<1>2. AckPending(t, i) => AckPending(t, i)'
  BY DEF AckPending, AckEvent
<1>3. QED
  BY <1>1, <1>2 DEF DecisionPending

\* When e alone is consumed, it was what was pending, or that still is.
LEMMA PendingWithout ==
  ASSUME NEW t, NEW i, NEW e, events \ {e} \subseteq events'
  PROVE  /\ VotePending(t, i) => \/ VotePending(t, i)'
                                 \/ /\ e.frame.type \in {"PROPOSAL", "ACCEPT"}
                                    /\ VoterOf(e) = t /\ e.frame.proposalId = i
         /\ DecisionPending(t, i) => \/ DecisionPending(t, i)'
                                     \/ /\ e.frame.type = "DECISION"
                                        /\ e.at = t /\ e.frame.proposalId = i
         /\ AckPending(t, i) => \/ AckPending(t, i)'
                                \/ /\ e.frame.type = "DECISION_ACK"
                                   /\ e.frame.proposerId = t /\ e.frame.proposalId = i
<1>1. VotePending(t, i) => \/ VotePending(t, i)'
                           \/ /\ e.frame.type \in {"PROPOSAL", "ACCEPT"}
                              /\ VoterOf(e) = t /\ e.frame.proposalId = i
  BY DEF VotePending, VoteEvent, VoterOf
<1>2. AckPending(t, i) => \/ AckPending(t, i)'
                          \/ /\ e.frame.type = "DECISION_ACK"
                             /\ e.frame.proposerId = t /\ e.frame.proposalId = i
  BY DEF AckPending, AckEvent
<1>3. QED
  BY <1>1, <1>2 DEF DecisionPending

\* A handler that leaves the proposals alone.
LEMMA AnswersUntouched ==
  ASSUME TypeOK, AnswersCounted, UNCHANGED m_proposals,
         \A t \in Server : LearnedIds[t] \subseteq LearnedIds'[t],
         \A t \in Server, i \in Id : VotePending(t, i) => VotePending(t, i)',
         \A t \in Server, i \in Id :
           DecisionPending(t, i) => DecisionPending(t, i)' \/ i \in LearnedIds'[t],
         IsAsync => \A t \in Server, i \in Id :
           (DecisionPending(t, i) \/ AckPending(t, i))
             => (DecisionPending(t, i) \/ AckPending(t, i))'
  PROVE  AnswersKept
<1>1. \A s \in Server : \A p \in m_proposals[s] : p \in Proposal /\ p.id \in Id
  BY DEF TypeOK, ServerTypeOK, Proposal
<1>2. ASSUME NEW s \in Server, NEW p \in m_proposals[s]
      PROVE  AnswersOf(s, p)'
  <2>1. AnswersOf(s, p) /\ (p.decided => IsAsync)
    BY DEF AnswersCounted, AnswersOf
  <2>2. QED
    BY <1>1, <2>1, AnswersStay
<1>3. AnswersCounted'
  BY <1>2 DEF AnswersCounted
<1>4. ASSUME NEW i \in Id, DecisionComesFor(i)
      PROVE  DecisionComesFor(i)'
  BY <1>4, DecisionStillComes
<1>5. QED
  BY <1>3, <1>4 DEF AnswersKept, Ids

\* A handler of no message of a server.
LEMMA EventsUntouched ==
  ASSUME TypeOK, AnswersCounted, UNCHANGED <<m_proposals, events>>,
         \A t \in Server : LearnedIds[t] \subseteq LearnedIds'[t]
  PROVE  AnswersKept
<1>1. \A t, i : /\ VotePending(t, i) => VotePending(t, i)'
                /\ DecisionPending(t, i) => DecisionPending(t, i)'
                /\ AckPending(t, i) => AckPending(t, i)'
  BY PendingStays
<1>2. QED
  BY <1>1, AnswersUntouched

\* A broadcast reaches every server but its sender.
LEMMA BroadcastReaches ==
  ASSUME NEW s, NEW f, NEW t \in Server \ {s}, Broadcast(s, f) \subseteq events'
  PROVE  \E x \in events' : x.frame = f /\ x.at = t
<1>1. Datagram(t, f) \in events'
  BY DEF Broadcast
<1>2. Datagram(t, f).frame = f /\ Datagram(t, f).at = t
  BY DEF Datagram
<1>3. QED
  BY <1>1, <1>2

(***************************************************************************)
(* DoPropose, called with the entries proposals and the events pending:    *)
(* what was taken out before the call is a decision that was learned.      *)
(***************************************************************************)
LEMMA ProposeAnswers ==
  ASSUME NumNodes > 1, TypeOK, TypeOK', Match, VotingParts, LearningInv, AnswersCounted,
         UNCHANGED requestEvents, NEW s \in Server, HasRequest(s),
         NEW proposals \in SUBSET m_proposals[s], NEW pending,
         DoPropose(s, proposals, pending),
         \A x \in events : x \in pending \/
           /\ x.frame.type = "DECISION_ACK"
           /\ \A t \in Server \ {s} : \A p \in m_proposals[t] : p.id # x.frame.proposalId
           /\ \A p \in proposals : p.id # x.frame.proposalId,
         \A p \in m_proposals[s] \ proposals : p.decided /\ p.id \in LearnedIds'[s],
         \A t \in Server : LearnedIds[t] \subseteq LearnedIds'[t]
  PROVE  AnswersKept
<1>1. PICK i, n, f :
        /\ i = Head(m_waitingProposals[s]).id
        /\ n.id = i /\ ~n.decided /\ n.numAck = 1
        /\ f.proposalId = i /\ f.type = "PROPOSAL"
        /\ m_waitingProposals' =
             [m_waitingProposals EXCEPT ![s] = Tail(m_waitingProposals[s])]
        /\ m_proposals' = [m_proposals EXCEPT ![s] = Insert(proposals, n)]
        /\ events' = pending \cup Broadcast(s, f)
  <2> DEFINE i == Head(m_waitingProposals[s]).id
             n == [id |-> i, value |-> Head(m_waitingProposals[s]).value, numAck |-> 1,
                   decided |-> FALSE, numDecisionAck |-> 1]
             f == [type |-> "PROPOSAL", proposerId |-> s, proposalId |-> i,
                   value |-> Head(m_waitingProposals[s]).value, acceptorId |-> 0]
  <2>1. /\ m_waitingProposals' =
             [m_waitingProposals EXCEPT ![s] = Tail(m_waitingProposals[s])]
        /\ m_proposals' = [m_proposals EXCEPT ![s] = Insert(proposals, n)]
        /\ events' = pending \cup Broadcast(s, f)
    BY DEF DoPropose
  <2>2. /\ n.id = i /\ ~n.decided /\ n.numAck = 1
        /\ f.proposalId = i /\ f.type = "PROPOSAL"
    OBVIOUS
  <2> HIDE DEF n, f
  <2>3. QED
    BY <2>1, <2>2
<1>2. i \in FreshIds
  BY <1>1, ProposeTakes
<1>3. \A t \in Server : \A p \in m_proposals[t] : p.id # i
  BY <1>2 DEF LearningInv, LearningOK, FreshOK
<1>5. /\ \A t \in Server \ {s} : m_proposals'[t] = m_proposals[t]
      /\ m_proposals'[s] = proposals \cup {n}
  <2>1. Insert(proposals, n) = proposals \cup {n}
    BY <1>1, <1>3 DEF Insert, Erase
  <2>2. QED
    BY <1>1, <2>1 DEF TypeOK, ServerTypeOK
<1>6. \A t \in Server \ {s} : VotePending(t, n.id)'
  <2> SUFFICES ASSUME NEW t \in Server \ {s} PROVE VotePending(t, n.id)'
    OBVIOUS
  <2>1. PICK x \in events' : x.frame = f /\ x.at = t
    BY <1>1, BroadcastReaches
  <2>2. x \in VoteEvent' /\ VoterOf(x) = t /\ x.frame.proposalId = n.id
    BY <1>1, <2>1 DEF VoteEvent, VoterOf
  <2>3. QED
    BY <2>2 DEF VotePending, VoterOf
<1>7. \A x \in events : x \in events' \/
           /\ x.frame.type = "DECISION_ACK"
           /\ \A t \in Server \ {s} : \A p \in m_proposals[t] : p.id # x.frame.proposalId
           /\ \A p \in proposals : p.id # x.frame.proposalId
  BY <1>1
<1>8. ASSUME NEW t \in Server, NEW p \in m_proposals'[t], p # n \/ t # s
      PROVE  AnswersOf(t, p)'
  <2>1. p \in m_proposals[t] /\ p \in Proposal
        /\ \A x \in events : x.frame.proposalId = p.id => x \in events'
    BY <1>5, <1>7, <1>8 DEF TypeOK, ServerTypeOK
  <2>2. AnswersOf(t, p)
    BY <2>1 DEF AnswersCounted
  <2>3. \A u \in Server : /\ VotePending(u, p.id) => VotePending(u, p.id)'
                          /\ DecisionPending(u, p.id) => DecisionPending(u, p.id)'
                          /\ AckPending(u, p.id) => AckPending(u, p.id)'
    BY <2>1, PendingStays
  <2>4. QED
    BY <2>1, <2>2, <2>3, AnswersStay
<1>9. AnswersOf(s, n)'
  BY <1>1, <1>6, NobodyAnswered
<1>10. AnswersCounted'
  BY <1>8, <1>9 DEF AnswersCounted
<1>11. ASSUME NEW j \in Id, DecisionComesFor(j)
       PROVE  DecisionComesFor(j)'
  <2>1. \A t \in Server : DecisionPending(t, j) => DecisionPending(t, j)'
    BY <1>7 DEF DecisionPending
  <2>2. \A t \in Server : \A p \in m_proposals[t] : p.id = j =>
          \/ p.decided /\ j \in LearnedIds'[t]
          \/ \E o \in m_proposals'[t] : o.id = j /\ o.decided = p.decided
    BY <1>5
  <2>3. QED
    BY <1>11, <2>1, <2>2, DecisionStillComes
<1>12. \A t \in Server : \A p \in m_proposals'[t] : p.id \in Ids(m_proposals[t]) \/ ~p.decided
  BY <1>1, <1>5 DEF Ids
<1>13. QED
  BY <1>10, <1>11, <1>12 DEF AnswersKept

\* DoAsyncPropose, called in the same way.
LEMMA AsyncProposeAnswers ==
  ASSUME NumNodes > 1, TypeOK, TypeOK', Match, VotingParts, LearningInv, AnswersCounted,
         UNCHANGED requestEvents, NEW s \in Server,
         NEW proposals \in SUBSET m_proposals[s], NEW pending, NEW polls,
         AsyncPropose(s, proposals, pending, polls),
         \A x \in events : x \in pending \/
           /\ x.frame.type = "DECISION_ACK"
           /\ \A t \in Server \ {s} : \A p \in m_proposals[t] : p.id # x.frame.proposalId
           /\ \A p \in proposals : p.id # x.frame.proposalId,
         \A p \in m_proposals[s] \ proposals : p.decided /\ p.id \in LearnedIds'[s],
         \A t \in Server : LearnedIds[t] \subseteq LearnedIds'[t]
  PROVE  AnswersKept
<1>1. CASE HasRequest(s) /\ DoPropose(s, proposals, pending)
  BY <1>1, ProposeAnswers
<1>2. CASE /\ events' = pending
           /\ m_proposals' = [m_proposals EXCEPT ![s] = proposals]
  <2>1. /\ \A t \in Server \ {s} : m_proposals'[t] = m_proposals[t]
        /\ m_proposals'[s] = proposals
    BY <1>2 DEF TypeOK, ServerTypeOK
  <2>2. ASSUME NEW t \in Server, NEW p \in m_proposals'[t]
        PROVE  AnswersOf(t, p)'
    <3>1. p \in m_proposals[t] /\ p \in Proposal
          /\ \A x \in events : x.frame.proposalId = p.id => x \in events'
      BY <1>2, <2>1, <2>2 DEF TypeOK, ServerTypeOK
    <3>2. AnswersOf(t, p)
      BY <3>1 DEF AnswersCounted
    <3>3. \A u \in Server : /\ VotePending(u, p.id) => VotePending(u, p.id)'
                            /\ DecisionPending(u, p.id) => DecisionPending(u, p.id)'
                            /\ AckPending(u, p.id) => AckPending(u, p.id)'
      BY <3>1, PendingStays
    <3>4. QED
      BY <3>1, <3>2, <3>3, AnswersStay
  <2>3. AnswersCounted'
    BY <2>2 DEF AnswersCounted
  <2>4. ASSUME NEW j \in Id, DecisionComesFor(j)
        PROVE  DecisionComesFor(j)'
    <3>1. \A t \in Server : DecisionPending(t, j) => DecisionPending(t, j)'
      BY <1>2 DEF DecisionPending
    <3>2. \A t \in Server : \A p \in m_proposals[t] : p.id = j =>
            \/ p.decided /\ j \in LearnedIds'[t]
            \/ \E o \in m_proposals'[t] : o.id = j /\ o.decided = p.decided
      BY <2>1
    <3>3. QED
      BY <2>4, <3>1, <3>2, DecisionStillComes
  <2>5. QED
    BY <2>1, <2>3, <2>4 DEF AnswersKept, Ids
<1>3. QED
  BY <1>1, <1>2 DEF AsyncPropose


(***************************************************************************)
(* A handler of a message e of proposal i that changes nothing of the      *)
(* others.                                                                 *)
(***************************************************************************)
LEMMA OneProposalChanges ==
  ASSUME TypeOK, AnswersCounted, NEW i, NEW e, e.frame.proposalId = i,
         events \ {e} \subseteq events',
         \A t \in Server : LearnedIds[t] \subseteq LearnedIds'[t],
         \A t \in Server : \A x \in m_proposals[t] : x.id # i => x \in m_proposals'[t],
         \A t \in Server : \A x \in m_proposals'[t] :
           \/ x \in m_proposals[t] /\ x.id # i
           \/ x.id = i /\ i \in Ids(m_proposals[t]) /\ AnswersOf(t, x)',
         DecisionComesFor(i) => DecisionComesFor(i)'
  PROVE  AnswersKept
<1>1. ASSUME NEW j, j # i
      PROVE  \A t : /\ VotePending(t, j) => VotePending(t, j)'
                    /\ DecisionPending(t, j) => DecisionPending(t, j)'
                    /\ AckPending(t, j) => AckPending(t, j)'
  <2>1. \A x \in events : x.frame.proposalId = j => x \in events'
    BY <1>1
  <2>2. QED
    BY <2>1, PendingStays
<1>2. ASSUME NEW t \in Server, NEW x \in m_proposals'[t], x \in m_proposals[t], x.id # i
      PROVE  AnswersOf(t, x)'
  <2>1. AnswersOf(t, x) /\ x \in Proposal
    BY <1>2 DEF AnswersCounted, TypeOK, ServerTypeOK
  <2>2. \A u : /\ VotePending(u, x.id) => VotePending(u, x.id)'
               /\ DecisionPending(u, x.id) => DecisionPending(u, x.id)'
               /\ AckPending(u, x.id) => AckPending(u, x.id)'
    BY <1>1, <1>2
  <2>3. QED
    BY <2>1, <2>2, AnswersStay
<1>3. AnswersCounted'
  BY <1>2 DEF AnswersCounted
<1>4. ASSUME NEW j \in Id, DecisionComesFor(j), j # i
      PROVE  DecisionComesFor(j)'
  <2>1. \A t \in Server : DecisionPending(t, j) => DecisionPending(t, j)'
    BY <1>1, <1>4
  <2>2. \A t \in Server : \A p \in m_proposals[t] : p.id = j =>
          \E o \in m_proposals'[t] : o.id = j /\ o.decided = p.decided
    BY <1>4
  <2>3. QED
    BY <1>4, <2>1, <2>2, DecisionStillComes
<1>5. \A t \in Server : \A p \in m_proposals'[t] : p.id \in Ids(m_proposals[t])
  BY DEF Ids
<1>6. QED
  BY <1>3, <1>4, <1>5 DEF AnswersKept

\* A message other than a DECISION, of a proposal nobody has any more, is ignored.
LEMMA AnswerIgnored ==
  ASSUME TypeOK, AnswersCounted, NEW e, e.frame.type # "DECISION",
         events \ {e} \subseteq events', UNCHANGED m_proposals,
         \A t \in Server : LearnedIds[t] \subseteq LearnedIds'[t],
         \A t \in Server : \A x \in m_proposals[t] : x.id # e.frame.proposalId
  PROVE  AnswersKept
<1>1. PICK i : i = e.frame.proposalId
  OBVIOUS
<1>2. \A t : DecisionPending(t, i) => DecisionPending(t, i)'
  BY PendingWithout
<1>3. DecisionComesFor(i) => DecisionComesFor(i)'
  BY <1>1, <1>2, DecisionStillComes
<1>4. QED
  BY <1>1, <1>3, OneProposalChanges

\* What Insert and Erase do to the proposals of server s.
LEMMA InsertReplaces ==
  ASSUME TypeOK, NEW s \in Server, NEW q,
         m_proposals' = [m_proposals EXCEPT ![s] = Insert(@, q)]
  PROVE  /\ \A t \in Server : \A x \in m_proposals[t] :
              x.id # q.id => x \in m_proposals'[t]
         /\ \A t \in Server : \A x \in m_proposals'[t] :
              \/ x \in m_proposals[t] /\ (t = s => x.id # q.id)
              \/ t = s /\ x = q
         /\ q \in m_proposals'[s]
<1>1. /\ m_proposals'[s] = Insert(m_proposals[s], q)
      /\ \A t \in Server \ {s} : m_proposals'[t] = m_proposals[t]
  BY DEF TypeOK, ServerTypeOK
<1>2. QED
  BY <1>1 DEF Insert, Erase

LEMMA EraseRemoves ==
  ASSUME TypeOK, NEW s \in Server, NEW i,
         m_proposals' = [m_proposals EXCEPT ![s] = Erase(@, i)]
  PROVE  /\ \A t \in Server : \A x \in m_proposals[t] : x.id # i => x \in m_proposals'[t]
         /\ \A t \in Server : \A x \in m_proposals'[t] :
              x \in m_proposals[t] /\ (t = s => x.id # i)
<1>1. /\ m_proposals'[s] = Erase(m_proposals[s], i)
      /\ \A t \in Server \ {s} : m_proposals'[t] = m_proposals[t]
  BY DEF TypeOK, ServerTypeOK
<1>2. QED
  BY <1>1 DEF Erase

\* The entry p of a proposal that counts one answer more.
LEMMA AnswerCounted ==
  ASSUME TypeOK, Match, LearningInv, AnswersCounted, NEW s \in Server,
         NEW p \in m_proposals[s], NEW e, e.frame.proposalId = p.id,
         e.frame.type # "DECISION", events \ {e} \subseteq events',
         \A t \in Server : LearnedIds[t] \subseteq LearnedIds'[t],
         NEW q, q.id = p.id, q.decided = p.decided, AnswersOf(s, q)',
         m_proposals' = [m_proposals EXCEPT ![s] = Insert(@, q)]
  PROVE  AnswersKept
<1>1. \A t \in Server : \A x \in m_proposals[t] : x.id = p.id => t = s /\ x = p
  BY OneProposer DEF LearningInv, LearningOK, ProposalsOK
<1>2. /\ \A t \in Server : \A x \in m_proposals[t] : x.id # p.id => x \in m_proposals'[t]
      /\ \A t \in Server : \A x \in m_proposals'[t] :
           \/ x \in m_proposals[t] /\ (t = s => x.id # p.id)
           \/ t = s /\ x = q
      /\ q \in m_proposals'[s]
  <2>1. /\ \A t \in Server : \A x \in m_proposals[t] :
             x.id # q.id => x \in m_proposals'[t]
        /\ \A t \in Server : \A x \in m_proposals'[t] :
             \/ x \in m_proposals[t] /\ (t = s => x.id # q.id)
             \/ t = s /\ x = q
        /\ q \in m_proposals'[s]
    BY InsertReplaces
  <2>2. QED
    BY <2>1
<1>3. \A t : DecisionPending(t, p.id) => DecisionPending(t, p.id)'
  BY PendingWithout
<1>4. DecisionComesFor(p.id) => DecisionComesFor(p.id)'
  <2>1. \A t \in Server : \A x \in m_proposals[t] : x.id = p.id =>
          \E o \in m_proposals'[t] : o.id = p.id /\ o.decided = x.decided
    BY <1>1, <1>2
  <2>2. QED
    BY <1>3, <2>1, DecisionStillComes
<1>5. p.id \in Ids(m_proposals[s])
  BY DEF Ids
<1>6. \A t \in Server : \A x \in m_proposals'[t] :
        \/ x \in m_proposals[t] /\ x.id # p.id
        \/ x.id = p.id /\ p.id \in Ids(m_proposals[t]) /\ AnswersOf(t, x)'
  BY <1>1, <1>2, <1>5
<1>7. QED
  BY <1>2, <1>4, <1>6, OneProposalChanges

(***************************************************************************)
(* The handlers of messages.                                               *)
(***************************************************************************)
\* A vote moves on at the acceptor, and stays a vote of that acceptor.
LEMMA VoteStaysOut ==
  ASSUME TypeOK, AnswersCounted, NEW e \in events,
         \/ e.frame.type = "PROPOSAL" /\ DoReceivedProposalMessage(e)
         \/ SendAcceptMessage(e) /\ e.frame.type = "PROPOSAL",
         \A t \in Server : LearnedIds[t] \subseteq LearnedIds'[t]
  PROVE  AnswersKept
<1>1. e.frame \in PaxosFrame
  BY DEF TypeOK, SimTypeOK, Event
<1>2. UNCHANGED m_proposals
  BY DEF DoReceivedProposalMessage, SendAcceptMessage, serverVars, proposerVars
<1>3. PICK n : /\ events' = (events \ {e}) \cup {n}
               /\ n.frame.type \in {"PROPOSAL", "ACCEPT"} /\ VoterOf(n) = VoterOf(e)
               /\ n.frame.proposalId = e.frame.proposalId
  <2>1. CASE e.frame.type = "PROPOSAL" /\ DoReceivedProposalMessage(e)
    <3> DEFINE n == [at |-> e.at, fn |-> "SendAcceptMessage",
                     frame |-> [e.frame EXCEPT !.acceptorId = e.at]]
    <3>1. /\ n.frame.type = "PROPOSAL" /\ n.at = e.at
          /\ n.frame.proposalId = e.frame.proposalId
      BY <1>1, <2>1 DEF PaxosFrame
    <3>2. events' = (events \ {e}) \cup {n}
      BY <2>1 DEF DoReceivedProposalMessage
    <3> HIDE DEF n
    <3>3. VoterOf(n) = VoterOf(e)
      BY <2>1, <3>1 DEF VoterOf
    <3>4. QED
      BY <3>1, <3>2, <3>3
  <2>2. CASE SendAcceptMessage(e) /\ e.frame.type = "PROPOSAL"
    <3> DEFINE f == [e.frame EXCEPT !.type = "ACCEPT", !.acceptorId = e.at]
               n == Datagram(f.proposerId, f)
    <3>1. /\ n.frame.type = "ACCEPT" /\ n.frame.acceptorId = e.at
          /\ n.frame.proposalId = e.frame.proposalId
      BY <1>1 DEF PaxosFrame, Datagram
    <3>2. events' = (events \ {e}) \cup {n}
      BY <2>2 DEF SendAcceptMessage
    <3> HIDE DEF n
    <3>3. VoterOf(n) = VoterOf(e)
      BY <2>2, <3>1 DEF VoterOf
    <3>4. QED
      BY <3>1, <3>2, <3>3
  <2>3. QED
    BY <2>1, <2>2
<1>4. events \ {e} \subseteq events' /\ n \in events' /\ e.frame.type = "PROPOSAL"
  BY <1>3
<1>5. ASSUME NEW t \in Server, NEW i \in Id
      PROVE  /\ VotePending(t, i) => VotePending(t, i)'
             /\ DecisionPending(t, i) => DecisionPending(t, i)'
             /\ AckPending(t, i) => AckPending(t, i)'
  <2>1. CASE VoterOf(e) = t /\ e.frame.proposalId = i
    <3>1. n \in VoteEvent' /\ VoterOf(n) = t /\ n.frame.proposalId = i
      BY <1>3, <1>4, <2>1 DEF VoteEvent
    <3>2. VotePending(t, i)'
      BY <3>1 DEF VotePending, VoterOf
    <3>3. QED
      BY <1>4, <3>2, PendingWithout
  <2>2. CASE ~(VoterOf(e) = t /\ e.frame.proposalId = i)
    BY <1>4, <2>2, PendingWithout
  <2>3. QED
    BY <2>1, <2>2
<1>6. QED
  BY <1>2, <1>5, AnswersUntouched

\* A DECISION is learned, and in the asynchronous protocol acknowledged.
LEMMA DecisionAnswers ==
  ASSUME TypeOK, AnswersCounted, NEW e \in events, e.frame.type = "DECISION",
         DoReceivedDecisionMessage(e),
         \A t \in Server : LearnedIds[t] \subseteq LearnedIds'[t]
  PROVE  AnswersKept
<1> DEFINE ack == [type |-> "DECISION_ACK", proposerId |-> e.at,
                   proposalId |-> e.frame.proposalId, value |-> e.frame.value,
                   acceptorId |-> 0]
           v == [id |-> e.frame.proposalId, value |-> e.frame.value,
                 proposer |-> e.frame.proposerId]
<1>1. e.frame \in PaxosFrame /\ e.at \in Server
  BY DEF TypeOK, SimTypeOK, Event
<1>2. /\ UNCHANGED <<m_proposals, decisionLog>>
      /\ events \ {e} \subseteq events'
      /\ m_decidedProposalQueue' = [m_decidedProposalQueue EXCEPT ![e.at] = Push(@, v)]
      /\ IsAsync => Datagram(e.frame.proposerId, ack) \in events'
  BY DEF DoReceivedDecisionMessage, proposerVars
<1>3. v \in Decision /\ v.id = e.frame.proposalId
  BY <1>1 DEF PaxosFrame, Decision
<1>4. e.frame.proposalId \in LearnedIds'[e.at]
  <2> HIDE DEF v
  <2>1. UNCHANGED decisionLog
    BY <1>2
  <2>2. Learned(e.at)' = Learned(e.at) \cup {v}
    BY <1>1, <1>2, <1>3, <2>1, PushLearns
  <2>3. QED
    BY <1>1, <1>3, <2>2 DEF LearnedIds, IdsOf
<1>5. IsAsync => AckPending(e.at, e.frame.proposalId)'
  <2> SUFFICES ASSUME IsAsync PROVE AckPending(e.at, e.frame.proposalId)'
    OBVIOUS
  <2>1. PICK n \in events' : n.frame = ack
    BY <1>2 DEF Datagram
  <2>2. /\ n.frame.type = "DECISION_ACK" /\ n.frame.proposerId = e.at
        /\ n.frame.proposalId = e.frame.proposalId
    BY <2>1
  <2>3. QED
    BY <2>2 DEF AckPending, AckEvent
<1> HIDE DEF ack, v
<1>6. ASSUME NEW t \in Server, NEW i \in Id
      PROVE  /\ VotePending(t, i) => VotePending(t, i)'
             /\ DecisionPending(t, i) => DecisionPending(t, i)' \/ i \in LearnedIds'[t]
             /\ IsAsync => ((DecisionPending(t, i) \/ AckPending(t, i))
                              => (DecisionPending(t, i) \/ AckPending(t, i))')
  <2>1. /\ VotePending(t, i) => VotePending(t, i)'
        /\ DecisionPending(t, i) => \/ DecisionPending(t, i)'
                                    \/ e.at = t /\ e.frame.proposalId = i
        /\ AckPending(t, i) => AckPending(t, i)'
    BY <1>2, PendingWithout
  <2>2. QED
    BY <1>4, <1>5, <2>1
<1>7. QED
  BY <1>2, <1>6, AnswersUntouched

\* An ACCEPT is counted, or decides: then a DECISION is sent to all others.
LEMMA AcceptAnswers ==
  ASSUME NumNodes > 1, TypeOK, Match, VotingParts, LearningInv, AnswersCounted,
         NEW e \in events, e.at \in Server, e.frame.type = "ACCEPT",
         DoReceivedAcceptMessage(e),
         \A t \in Server : LearnedIds[t] \subseteq LearnedIds'[t]
  PROVE  AnswersKept
<1> DEFINE s == e.at
           i == e.frame.proposalId
           known == {p \in m_proposals[s] : p.id = i /\ e.frame.proposerId = s}
           q(p) == [p EXCEPT !.numAck = @ + 1]
           d(p) == [q(p) EXCEPT !.decided = TRUE, !.numDecisionAck = 1]
           f == [e.frame EXCEPT !.type = "DECISION"]
<1>1. \/ known = {} /\ events' = events \ {e} /\ UNCHANGED m_proposals
      \/ \E p \in known :
           \/ /\ ~Decides(q(p))
              /\ events' = events \ {e}
              /\ m_proposals' = [m_proposals EXCEPT ![s] = Insert(@, q(p))]
           \/ /\ IsAsync
              /\ events' = (events \ {e}) \cup Broadcast(s, f)
              /\ m_proposals' = [m_proposals EXCEPT ![s] = Insert(@, d(p))]
           \/ /\ events' = (events \ {e}) \cup Broadcast(s, f)
              /\ m_proposals' = [m_proposals EXCEPT ![s] = Erase(@, p.id)]
              /\ m_decidedProposalQueue' =
                   [m_decidedProposalQueue EXCEPT ![s] =
                      Push(@, [id |-> p.id, value |-> p.value, proposer |-> s])]
  BY Zenon DEF DoReceivedAcceptMessage, SendDecisionMessage
<1>2. events \ {e} \subseteq events' /\ UNCHANGED decisionLog
  <2>1. UNCHANGED <<requestEvents, stopped, m_waitingProposals, m_leaderState,
                    proposeEvents, acceptorVars, decisionLog>>
    BY Zenon DEF DoReceivedAcceptMessage
  <2> HIDE DEF q, d, f, s, known
  <2>2. QED
    BY <1>1, <2>1
<1>3. e.frame \in PaxosFrame /\ i = e.frame.proposalId
  BY DEF TypeOK, SimTypeOK, Event
<1>4. e.frame.proposerId = s
  BY DEF VotingParts, VotesWellFormed, VoteEvent
<1>5. \A t \in Server : \A x \in m_proposals[t] : x.id = i => t = s
  BY <1>4 DEF Match, EventsMatch, ProposerOf, ProposalsMatch, Asked
<1>6. CASE known = {} /\ UNCHANGED m_proposals
  <2>1. \A t \in Server : \A x \in m_proposals[t] : x.id # i
    BY <1>4, <1>5, <1>6
  <2>2. QED
    BY <1>2, <1>6, <2>1, AnswerIgnored
<1>7. ASSUME NEW p \in known
      PROVE  /\ p \in m_proposals[s] /\ p \in Proposal /\ p.id = i /\ AnswersOf(s, p)
             /\ q(p).id = i /\ q(p).decided = p.decided
             /\ q(p).numAck = p.numAck + 1 /\ q(p).numDecisionAck = p.numDecisionAck
             /\ d(p).id = i /\ d(p).decided /\ d(p).numDecisionAck = 1
  <2>1. p \in m_proposals[s] /\ p \in Proposal /\ p.id = i /\ AnswersOf(s, p)
    BY DEF TypeOK, ServerTypeOK, AnswersCounted
  <2>2. QED
    BY <2>1 DEF Proposal
<1>8. f.type = "DECISION" /\ f.proposalId = i
  BY <1>3 DEF PaxosFrame
<1> HIDE DEF q, d, f
<1>9. ASSUME NEW p \in known, ~Decides(q(p)),
             m_proposals' = [m_proposals EXCEPT ![s] = Insert(@, q(p))]
      PROVE  AnswersKept
  <2>1. ~EnoughVotes(q(p).numAck) \/ p.decided
    BY <1>7, <1>9 DEF Decides
  <2>2. /\ \A t \in Server \ {VoterOf(e)} : VotePending(t, p.id) => VotePending(t, p.id)'
        /\ \A t \in Server :
             (DecisionPending(t, p.id) \/ AckPending(t, p.id))
               => (DecisionPending(t, p.id) \/ AckPending(t, p.id))'
    BY <1>2, PendingWithout
  <2>3. PICK x : x = q(p)
    OBVIOUS
  <2>4. AnswersOf(s, x)'
    BY <1>7, <2>1, <2>2, <2>3, VoteAnswers
  <2>5. /\ p \in m_proposals[s] /\ e.frame.proposalId = p.id /\ s \in Server
        /\ x.id = p.id /\ x.decided = p.decided
        /\ m_proposals' = [m_proposals EXCEPT ![s] = Insert(@, x)]
    BY <1>7, <1>9, <2>3
  <2> HIDE DEF s, known, i
  <2>6. QED
    BY <1>2, <2>4, <2>5, AnswerCounted
\* The deciding vote.
<1>10. ASSUME NEW p \in known, events' = (events \ {e}) \cup Broadcast(s, f)
       PROVE  \A t \in Server \ {s} : DecisionPending(t, i)'
  <2> SUFFICES ASSUME NEW t \in Server \ {s} PROVE DecisionPending(t, i)'
    OBVIOUS
  <2>1. PICK x \in events' : x.frame = f /\ x.at = t
    BY <1>10, BroadcastReaches
  <2>2. QED
    BY <1>8, <2>1 DEF DecisionPending
<1>11. ASSUME NEW p \in known, IsAsync,
              events' = (events \ {e}) \cup Broadcast(s, f),
              m_proposals' = [m_proposals EXCEPT ![s] = Insert(@, d(p))]
       PROVE  AnswersKept
  <2>1. PICK x : x = d(p)
    OBVIOUS
  <2>2. \A t \in Server \ {s} : DecisionPending(t, i)'
    BY <1>10, <1>11
  <2>3. x.id = i /\ x.decided /\ x.numDecisionAck = 1 /\ p.id = i /\ p \in m_proposals[s]
    BY <1>7, <2>1
  <2>4. AnswersOf(s, x)'
    BY <1>11, <2>2, <2>3, NobodyAnswered
  <2>5. /\ \A t \in Server : \A y \in m_proposals[t] : y.id # i => y \in m_proposals'[t]
        /\ \A t \in Server : \A y \in m_proposals'[t] :
             \/ y \in m_proposals[t] /\ (t = s => y.id # i)
             \/ t = s /\ y = x
        /\ x \in m_proposals'[s]
    <3>1. m_proposals' = [m_proposals EXCEPT ![s] = Insert(@, x)]
      BY <1>11, <2>1
    <3>2. /\ \A t \in Server : \A y \in m_proposals[t] :
               y.id # x.id => y \in m_proposals'[t]
          /\ \A t \in Server : \A y \in m_proposals'[t] :
               \/ y \in m_proposals[t] /\ (t = s => y.id # x.id)
               \/ t = s /\ y = x
          /\ x \in m_proposals'[s]
      BY <3>1, InsertReplaces
    <3>3. QED
      BY <2>3, <3>2
  <2>6. i \in Ids(m_proposals[s])
    BY <2>3 DEF Ids
  <2>7. \A t \in Server : \A y \in m_proposals'[t] :
          \/ y \in m_proposals[t] /\ y.id # i
          \/ y.id = i /\ i \in Ids(m_proposals[t]) /\ AnswersOf(t, y)'
    BY <1>5, <2>3, <2>4, <2>5, <2>6
  <2>8. SentToAll(s, i)'
    BY <2>2, <2>3, <2>5 DEF SentToAll
  <2>9. DecisionComesFor(i)'
    BY <2>8 DEF DecisionComesFor
  <2> HIDE DEF s, known, i
  <2>10. QED
    BY <1>2, <1>3, <2>5, <2>7, <2>9, OneProposalChanges
<1>12. ASSUME NEW p \in known,
              events' = (events \ {e}) \cup Broadcast(s, f),
              m_proposals' = [m_proposals EXCEPT ![s] = Erase(@, p.id)],
              m_decidedProposalQueue' =
                [m_decidedProposalQueue EXCEPT ![s] =
                   Push(@, [id |-> p.id, value |-> p.value, proposer |-> s])]
       PROVE  AnswersKept
  <2> DEFINE v == [id |-> p.id, value |-> p.value, proposer |-> s]
  <2>1. v \in Decision /\ v.id = i /\ p.id = i
    BY <1>7 DEF Proposal, Decision
  <2>2. m_decidedProposalQueue' = [m_decidedProposalQueue EXCEPT ![s] = Push(@, v)]
    BY <1>12
  <2> HIDE DEF v
  <2>3. i \in LearnedIds'[s]
    <3>1. Learned(s)' = Learned(s) \cup {v}
      BY <1>2, <2>1, <2>2, PushLearns
    <3>2. QED
      BY <2>1, <3>1 DEF LearnedIds, IdsOf
  <2>4. \A t \in Server \ {s} : DecisionPending(t, i)'
    BY <1>10, <1>12
  <2>5. SentToAll(s, i)'
    BY <2>3, <2>4 DEF SentToAll
  <2>6. DecisionComesFor(i)'
    BY <2>5 DEF DecisionComesFor
  <2>7. /\ \A t \in Server : \A x \in m_proposals[t] : x.id # i => x \in m_proposals'[t]
        /\ \A t \in Server : \A x \in m_proposals'[t] :
             x \in m_proposals[t] /\ (t = s => x.id # i)
    <3>1. m_proposals' = [m_proposals EXCEPT ![s] = Erase(@, i)]
      BY <1>12, <2>1
    <3> HIDE DEF i
    <3>2. QED
      BY <3>1, EraseRemoves
  <2>8. \A t \in Server : \A x \in m_proposals'[t] : x \in m_proposals[t] /\ x.id # i
    BY <1>5, <2>7
  <2> HIDE DEF s, known, i
  <2>9. QED
    BY <1>2, <1>3, <2>6, <2>7, <2>8, OneProposalChanges
<1>13. QED
  BY <1>1, <1>6, <1>9, <1>11, <1>12

\* A DECISION_ACK is counted, or completes the proposal and starts the next.
LEMMA AckReceivedAnswers ==
  ASSUME NumNodes > 1, TypeOK, TypeOK', Match, VotingParts, LearningInv,
         SecondRoundInv, AnswersCounted,
         NEW e \in events, e.at \in Server, e.frame.type = "DECISION_ACK",
         DoReceivedDecisionAckMessage(e),
         \A t \in Server : LearnedIds[t] \subseteq LearnedIds'[t]
  PROVE  AnswersKept
<1> DEFINE s == e.at
           i == e.frame.proposalId
           known == {p \in m_proposals[s] : p.id = i}
           q(p) == [p EXCEPT !.numDecisionAck = @ + 1]
<1>1. \/ known = {} /\ events' = events \ {e} /\ UNCHANGED m_proposals
      \/ \E p \in known :
           \/ /\ ~EnoughVotes(q(p).numDecisionAck)
              /\ events' = events \ {e}
              /\ m_proposals' = [m_proposals EXCEPT ![s] = Insert(@, q(p))]
           \/ /\ m_decidedProposalQueue' =
                   [m_decidedProposalQueue EXCEPT ![s] =
                      Push(@, [id |-> p.id, value |-> p.value, proposer |-> s])]
              /\ AsyncPropose(s, Erase(m_proposals[s], p.id), events \ {e},
                              proposeEvents[s])
  BY Zenon DEF DoReceivedDecisionAckMessage, proposerVars
<1>2. UNCHANGED <<requestEvents, stopped, acceptorVars, decisionLog>> /\ IsAsync
  BY Zenon DEF DoReceivedDecisionAckMessage
<1>3. s = Leader /\ \A t \in Server \ {s} : m_proposals[t] = {}
  BY <1>2 DEF SecondRoundInv, OnlyLeader, ProposerOf
<1>4. CASE known = {} /\ events' = events \ {e} /\ UNCHANGED m_proposals
  <2>1. \A t \in Server : \A x \in m_proposals[t] : x.id # i
    BY <1>3, <1>4
  <2>2. QED
    BY <1>4, <2>1, AnswerIgnored
<1>5. ASSUME NEW p \in known
      PROVE  /\ p \in m_proposals[s] /\ p \in Proposal /\ p.id = i /\ AnswersOf(s, p)
             /\ q(p).id = i /\ q(p).decided = p.decided /\ q(p).numAck = p.numAck
             /\ q(p).numDecisionAck = p.numDecisionAck + 1
  <2>1. p \in m_proposals[s] /\ p \in Proposal /\ p.id = i /\ AnswersOf(s, p)
    BY DEF TypeOK, ServerTypeOK, AnswersCounted
  <2>2. QED
    BY <2>1 DEF Proposal
<1> HIDE DEF q
<1>6. ASSUME NEW p \in known, ~EnoughVotes(q(p).numDecisionAck),
             events' = events \ {e},
             m_proposals' = [m_proposals EXCEPT ![s] = Insert(@, q(p))]
      PROVE  AnswersKept
  <2>1. events \ {e} \subseteq events'
    BY <1>6
  <2>2. /\ \A t \in Server : VotePending(t, p.id) => VotePending(t, p.id)'
        /\ \A t \in Server \ {e.frame.proposerId} :
             (DecisionPending(t, p.id) \/ AckPending(t, p.id))
               => (DecisionPending(t, p.id) \/ AckPending(t, p.id))'
    BY <2>1, PendingWithout
  <2>3. PICK x : x = q(p)
    OBVIOUS
  <2>4. AnswersOf(s, x)'
    BY <1>5, <1>6, <2>2, <2>3, AckAnswers
  <2>5. /\ p \in m_proposals[s] /\ e.frame.proposalId = p.id /\ s \in Server
        /\ x.id = p.id /\ x.decided = p.decided
        /\ m_proposals' = [m_proposals EXCEPT ![s] = Insert(@, x)]
    BY <1>5, <1>6, <2>3
  <2> HIDE DEF s, known, i
  <2>6. QED
    BY <2>1, <2>4, <2>5, AnswerCounted
\* The completing DECISION_ACK.
<1>7. ASSUME NEW p \in known,
             m_decidedProposalQueue' =
               [m_decidedProposalQueue EXCEPT ![s] =
                  Push(@, [id |-> p.id, value |-> p.value, proposer |-> s])],
             AsyncPropose(s, Erase(m_proposals[s], p.id), events \ {e}, proposeEvents[s])
      PROVE  AnswersKept
  <2> DEFINE v == [id |-> p.id, value |-> p.value, proposer |-> s]
             rest == events \ {e}
             erased == Erase(m_proposals[s], p.id)
  <2>1. v \in Decision /\ v.id = i /\ p.id = i /\ p \in m_proposals[s] /\ s \in Server
    BY <1>5 DEF Proposal, Decision
  <2>2. m_decidedProposalQueue' = [m_decidedProposalQueue EXCEPT ![s] = Push(@, v)]
    BY <1>7
  <2> HIDE DEF v
  <2>3. i \in LearnedIds'[s]
    <3>1. Learned(s)' = Learned(s) \cup {v}
      BY <1>2, <2>1, <2>2, PushLearns
    <3>2. QED
      BY <2>1, <3>1 DEF LearnedIds, IdsOf
  <2>4. p.decided /\ \A x \in m_proposals[s] : x.id = p.id => x = p
    BY <2>1 DEF LearningInv, LearningOK, ProposalsOK, NoTrace
  <2>5. /\ erased \in SUBSET m_proposals[s]
        /\ \A x \in erased : x.id # i
        /\ \A x \in m_proposals[s] \ erased : x.decided /\ x.id \in LearnedIds'[s]
    BY <2>1, <2>3, <2>4 DEF Erase
  <2>6. \A x \in events : x \in rest \/
          /\ x.frame.type = "DECISION_ACK"
          /\ \A t \in Server \ {s} : \A o \in m_proposals[t] : o.id # x.frame.proposalId
          /\ \A o \in erased : o.id # x.frame.proposalId
    BY <1>3, <2>5
  <2>7. AsyncPropose(s, erased, rest, proposeEvents[s]) /\ UNCHANGED requestEvents
    BY <1>2, <1>7
  <2> HIDE DEF s, rest, erased, known
  <2>8. QED
    BY <2>1, <2>5, <2>6, <2>7, AsyncProposeAnswers
<1>8. QED
  BY <1>1, <1>4, <1>6, <1>7

\* A slot or a poll.
LEMMA SlotAnswers ==
  ASSUME NumNodes > 1, TypeOK, TypeOK', Match, VotingParts, LearningInv, AnswersCounted,
         NEW s \in Server, DoSyncPropose(s) \/ DoAsyncPropose(s),
         \A t \in Server : LearnedIds[t] \subseteq LearnedIds'[t]
  PROVE  AnswersKept
<1>1. UNCHANGED requestEvents
  BY DEF DoSyncPropose, DoAsyncPropose
<1>2. m_proposals[s] \in SUBSET m_proposals[s] /\ m_proposals[s] \ m_proposals[s] = {}
  OBVIOUS
<1>3. CASE HasRequest(s) /\ DoPropose(s, m_proposals[s], events)
  BY <1>1, <1>2, <1>3, ProposeAnswers
<1>4. CASE UNCHANGED <<events, m_proposals>>
  BY <1>4, EventsUntouched
<1>5. CASE AsyncPropose(s, m_proposals[s], events, proposeEvents[s] - 1)
  BY <1>1, <1>2, <1>5, AsyncProposeAnswers
<1>6. QED
  BY <1>3, <1>4, <1>5 DEF DoSyncPropose, DoAsyncPropose

\* A message of a server.
LEMMA MessageAnswers ==
  ASSUME NumNodes > 1, TypeOK, TypeOK', Match, VotingParts, LearningInv,
         SecondRoundInv, AnswersCounted,
         NEW e \in events, ReceiveMessage(e) \/ SendAcceptMessage(e),
         \A t \in Server : LearnedIds[t] \subseteq LearnedIds'[t]
  PROVE  AnswersKept
<1>1. e.at \in Server
  BY EventsAtServers
<1>2. e.fn = "SendAcceptMessage" => e.frame.type = "PROPOSAL"
  BY DEF Match, EventsMatch
<1>3. CASE e.frame.type = "PROPOSAL" /\ (DoReceivedProposalMessage(e) \/ SendAcceptMessage(e))
  BY <1>3, VoteStaysOut
<1>4. CASE e.frame.type = "ACCEPT" /\ DoReceivedAcceptMessage(e)
  BY <1>1, <1>4, AcceptAnswers
<1>5. CASE e.frame.type = "DECISION" /\ DoReceivedDecisionMessage(e)
  BY <1>5, DecisionAnswers
<1>6. CASE e.frame.type = "DECISION_ACK" /\ DoReceivedDecisionAckMessage(e)
  BY <1>1, <1>6, AckReceivedAnswers
<1>7. QED
  BY <1>2, <1>3, <1>4, <1>5, <1>6 DEF ReceiveMessage, SendAcceptMessage

\* What is learned stays learned.
LEMMA LearnedIdsStay ==
  ASSUME TypeOK, ClockInv, Match, LogsOK, [TimedNext]_timedVars
  PROVE  \A t \in Server : LearnedIds[t] \subseteq LearnedIds'[t]
<1>1. [Next]_vars
  BY StepIsUntimed DEF timedVars
<1>2. \A t \in Server : Learned(t) \subseteq Learned(t)'
  BY <1>1, LearnedStays
<1>3. QED
  BY <1>2 DEF LearnedIds, IdsOf

\* A proposal just made is undecided, the decisions to come are kept.
LEMMA AnswersNoted ==
  ASSUME AnswersKept, DecisionComes, DOMAIN proposedAt \subseteq Id,
         \A i \in DOMAIN proposedAt' :
           \/ i \in DOMAIN proposedAt
           \/ \E s \in Server : i \in Ids(m_proposals'[s]) \ Ids(m_proposals[s])
  PROVE  AnswerInv'
<1>1. ASSUME NEW i \in DOMAIN proposedAt', NEW s \in Server,
             i \in Ids(m_proposals'[s]) \ Ids(m_proposals[s])
      PROVE  DecisionComesFor(i)'
  <2>1. PICK p \in m_proposals'[s] : p.id = i
    BY <1>1 DEF Ids
  <2>2. ~p.decided
    BY <1>1, <2>1 DEF AnswersKept
  <2>3. Undecided(s, i)'
    BY <2>1, <2>2 DEF Undecided
  <2>4. QED
    BY <2>3 DEF DecisionComesFor
<1>2. ASSUME NEW i \in DOMAIN proposedAt
      PROVE  DecisionComesFor(i)'
  BY DEF AnswersKept, DecisionComes
<1>3. DecisionComes'
  BY <1>1, <1>2 DEF DecisionComes
<1>4. QED
  BY <1>3 DEF AnswerInv, AnswersKept

\* AnswerInv is inductive.
LEMMA AnswerStep ==
  ASSUME NumNodes > 1, BasicInv, BasicInv', AnswerInv, [TimedNext]_timedVars
  PROVE  AnswerInv'
<1>1. /\ TypeOK /\ TypeOK' /\ ClockInv /\ Match /\ VotingParts /\ LearningInv
      /\ SecondRoundInv /\ AnswersCounted /\ DecisionComes
  BY DEF BasicInv, UntimedInv, AnswerInv
<1>2. \A t \in Server : LearnedIds[t] \subseteq LearnedIds'[t]
  BY <1>1, LearnedIdsStay DEF LearningInv
<1>3. DOMAIN proposedAt \subseteq Id
  BY <1>1 DEF ClockInv, TimeTypeOK
<1>4. CASE UNCHANGED <<events, m_proposals, proposedAt>>
  <2>1. AnswersKept
    BY <1>1, <1>2, <1>4, EventsUntouched
  <2>2. QED
    BY <1>1, <1>3, <1>4, <2>1, AnswersNoted
<1>5. ASSUME NEW t, NoteProposals(t)
      PROVE  \A i \in DOMAIN proposedAt' :
               \/ i \in DOMAIN proposedAt
               \/ \E s \in Server : i \in Ids(m_proposals'[s]) \ Ids(m_proposals[s])
  BY <1>5 DEF NoteProposals
<1>6. ASSUME NEW s \in Server, TimedProposeStep(s)
      PROVE  AnswerInv'
  <2>1. /\ DoSyncPropose(s) \/ DoAsyncPropose(s)
        /\ NoteProposals(proposeAt[s])
    BY <1>6 DEF TimedProposeStep
  <2>2. AnswersKept
    BY <1>1, <1>2, <2>1, SlotAnswers
  <2>3. QED
    BY <1>1, <1>3, <1>5, <2>1, <2>2, AnswersNoted
<1>7. CASE TimedMessageStep
  <2>1. PICK e \in events : /\ ReceiveMessage(e) \/ SendAcceptMessage(e)
                            /\ NoteProposals(due[e])
    BY <1>7 DEF TimedMessageStep
  <2>2. AnswersKept
    BY <1>1, <1>2, <2>1, MessageAnswers
  <2>3. QED
    BY <1>1, <1>3, <1>5, <2>1, <2>2, AnswersNoted
<1>8. CASE TimedRequestStep
  BY <1>4, <1>8 DEF TimedRequestStep, ReceiveRequest, CreateProposalFromRequest,
     serverVars, proposerVars
<1>9. CASE TimedSendRequest
  BY <1>4, <1>9 DEF TimedSendRequest, SendRequest, serverVars, proposerVars
<1>10. ASSUME NEW s \in Server, TimedStop(s)
       PROVE  AnswerInv'
  BY <1>4, <1>10 DEF TimedStop, StopApplication, proposerVars
<1>11. CASE UNCHANGED timedVars
  BY <1>4, <1>11 DEF timedVars, timeVars, vars, simVars, serverVars, proposerVars
<1>12. QED
  BY <1>6, <1>7, <1>8, <1>9, <1>10, <1>11 DEF TimedNext, TimedEnd

\* AnswerInv holds in every state of two servers or more.
LEMMA AnswerCorrect == NumNodes > 1 => (TimedSpec => []AnswerInv)
<1> SUFFICES ASSUME NumNodes > 1 PROVE TimedSpec => []AnswerInv
  OBVIOUS
<1>1. TimedInit => AnswerInv
  <2> SUFFICES ASSUME TimedInit PROVE AnswerInv
    OBVIOUS
  <2>1. (\A s \in Server : m_proposals[s] = {}) /\ DOMAIN proposedAt = {}
    BY DEF TimedInit, Init, ServerInit
  <2>2. QED
    BY <2>1 DEF AnswerInv, AnswersCounted, DecisionComes
<1>2. BasicInv /\ BasicInv' /\ AnswerInv /\ [TimedNext]_timedVars => AnswerInv'
  BY AnswerStep
<1>3. QED
  BY <1>1, <1>2, BasicCorrect, PTL DEF TimedSpec

\* When no message of it is on its way, nothing of p has stayed uncounted.
LEMMA AllAnswered ==
  ASSUME TypeOK, AnswersCounted, NEW s \in Server, NEW p \in m_proposals[s],
         \A e \in events : e.frame.proposalId # p.id
  PROVE  FALSE
<1>1. /\ p.numAck \in Nat /\ p.numDecisionAck \in Nat /\ p.decided \in BOOLEAN
  BY DEF TypeOK, ServerTypeOK, Proposal
<1>2. Answered(s, p) = Server \ {s} /\ Confirming(s, p) = Server \ {s}
  BY DEF Answered, Confirming, VotePending, VoteEvent, DecisionPending, AckPending,
     AckEvent
<1>3. Cardinality(Server \ {s}) = NumNodes - 1
  <2>1. IsFiniteSet(Server) /\ Cardinality(Server) = NumNodes
    BY NumNodesAssumption, FS_Interval DEF Server
  <2>2. QED
    BY <2>1, FS_RemoveElement
<1>4. \/ 1 + (NumNodes - 1) <= p.numAck /\ ~EnoughVotes(p.numAck)
      \/ 1 + (NumNodes - 1) <= p.numDecisionAck /\ ~EnoughVotes(p.numDecisionAck)
  BY <1>1, <1>2, <1>3 DEF AnswersCounted, AnswersOf
<1>5. QED
  BY <1>1, <1>4, NumNodesAssumption DEF EnoughVotes

(***************************************************************************)
(* A proposal is learned by every server within the time of its messages,  *)
(* when there are two servers at least: a server alone asks nobody, and    *)
(* decides when a vote arrives.                                            *)
(***************************************************************************)
THEOREM LearnedInTimeCorrect ==
  NumNodes > 1 => (TimedSpec => []LearnedInTime)
<1> SUFFICES ASSUME NumNodes > 1 PROVE TimedSpec => []LearnedInTime
  OBVIOUS
<1>1. BasicInv /\ DeadlineInv /\ AnswerInv => LearnedInTime
  <2> SUFFICES ASSUME BasicInv, DeadlineInv, AnswerInv, NEW i \in DOMAIN proposedAt,
                      now > proposedAt[i] + DecisionTime, NEW t \in Server
               PROVE  \E d \in Learned(t) : d.id = i
    BY DEF LearnedInTime
  <2>1. /\ TypeOK /\ Earliest(now) /\ now \in Nat /\ due \in [Pending -> Nat]
        /\ proposedAt[i] \in Nat /\ AnswersCounted
        /\ \A e \in events :
             /\ due[e] <= proposedAt[e.frame.proposalId] + LatestAfter(e)
             /\ e.frame.type = "DECISION_ACK" => IsAsync
    BY DEF BasicInv, ClockInv, TimeTypeOK, DeadlineInv, ProposalInv, ProposedOnce,
       MessagesInTime, AnswerInv
  <2>2. \A e \in events : e.frame.proposalId # i
    <3> SUFFICES ASSUME NEW e \in events, e.frame.proposalId = i PROVE FALSE
      OBVIOUS
    <3>1. /\ due[e] <= proposedAt[i] + LatestAfter(e) /\ now <= due[e]
          /\ due[e] \in Nat /\ LatestAfter(e) \in Nat
      BY <2>1, LatestType DEF Earliest, Pending
    <3>2. LatestAfter(e) <= DecisionTime /\ DecisionTime \in Nat
      <4>1. /\ e.fn \in {"ReceiveMessage", "SendAcceptMessage"}
            /\ e.frame.type \in {"PROPOSAL", "ACCEPT", "DECISION", "DECISION_ACK"}
        BY <2>1 DEF TypeOK, SimTypeOK, Event, Handler, PaxosFrame, MessageType
      <4>2. /\ LongestMessage \in Nat
            /\ DecisionTime = (IF IsAsync THEN 4 ELSE 3) * LongestMessage + 10
        BY LongestDelays DEF DecisionTime, LongestMessage, HandlingDelay
      <4>3. e.frame.type = "DECISION_ACK" => IsAsync
        BY <2>1
      <4>4. LatestAfter(e) <= (IF IsAsync THEN 4 ELSE 3) * LongestMessage + 10
        BY <4>1, <4>2, <4>3, LatestCases
      <4>5. QED
        BY <4>2, <4>4
    <3>3. QED
      BY <2>1, <3>1, <3>2
  <2>3. PICK s \in Server : Undecided(s, i) \/ SentToAll(s, i)
    BY DEF AnswerInv, DecisionComes, DecisionComesFor
  <2>4. \A p \in m_proposals[s] : p.id # i
    BY <2>1, <2>2, AllAnswered
  <2>5. SentToAll(s, i)
    BY <2>3, <2>4 DEF Undecided
  <2>6. i \in LearnedIds[t]
    BY <2>2, <2>4, <2>5 DEF SentToAll, DecisionPending
  <2>7. QED
    BY <2>6 DEF LearnedIds, IdsOf
<1>2. QED
  BY <1>1, BasicCorrect, DeadlineCorrect, AnswerCorrect, PTL

-------------------------------------------------------------------------------
(***************************************************************************)
(* The last slot.  When messages are short, the votes of a slot have been  *)
(* counted when the next comes, and they are enough.                       *)
(***************************************************************************)
\* A proposal whose votes have all come is decided.
LEMMA AllVoted ==
  ASSUME ~IsAsync, TypeOK, AnswersCounted, NEW s \in Server, NEW p \in m_proposals[s],
         \A t \in Server : ~VotePending(t, p.id)
  PROVE  FALSE
<1>1. p.numAck \in Nat /\ ~p.decided
  BY DEF TypeOK, ServerTypeOK, Proposal, AnswersCounted, AnswersOf
<1>2. Answered(s, p) = Server \ {s}
  BY DEF Answered
<1>3. Cardinality(Server \ {s}) = NumNodes - 1
  <2>1. IsFiniteSet(Server) /\ Cardinality(Server) = NumNodes
    BY NumNodesAssumption, FS_Interval DEF Server
  <2>2. QED
    BY <2>1, FS_RemoveElement
<1>4. 1 + (NumNodes - 1) <= p.numAck /\ ~EnoughVotes(p.numAck)
  BY <1>1, <1>2, <1>3 DEF AnswersCounted, AnswersOf
<1>5. QED
  BY <1>1, <1>4, NumNodesAssumption DEF EnoughVotes

\* When the slot of server s comes, s has nothing unfinished.
LEMMA SlotIsFree ==
  ASSUME ~IsAsync, \A d \in MessageDelay : 2 * d + HandlingDelay < m_proposePeriod,
         BasicInv, ProposalInv, AnswersCounted, LastSlotOnly,
         NEW s \in Server, proposeEvents[s] > 0, Earliest(proposeAt[s])
  PROVE  m_proposals[s] = {}
<1> SUFFICES ASSUME NEW p \in m_proposals[s] PROVE FALSE
  OBVIOUS
<1>1. /\ TypeOK /\ due \in [Pending -> Nat] /\ proposeAt[s] \in Nat
      /\ \A e \in events : due[e] <= proposedAt[e.frame.proposalId] + LatestAfter(e)
      /\ p.id \in DOMAIN proposedAt /\ proposedAt[p.id] \in Nat
      /\ proposedAt[p.id] + m_proposePeriod <= proposeAt[s]
  BY DEF BasicInv, ClockInv, TimeTypeOK, ProposalInv, ProposedOnce, MessagesInTime,
     LastSlotOnly, Ids
<1>2. ASSUME NEW e \in VoteEvent, e.frame.proposalId = p.id
      PROVE  FALSE
  <2>1. /\ e \in events /\ e.frame.type \in {"PROPOSAL", "ACCEPT"}
        /\ e.fn \in {"ReceiveMessage", "SendAcceptMessage"}
    BY <1>1 DEF VoteEvent, TypeOK, SimTypeOK, Event, Handler
  <2>2. LatestAfter(e) <= 2 * LongestMessage + 10
    BY <2>1, LatestCases, LongestDelays
  <2>3. 2 * LongestMessage + 10 < m_proposePeriod /\ m_proposePeriod \in Nat
    BY LongestDelays, LongestIsOne, IntervalTypes DEF HandlingDelay
  <2>4. /\ proposeAt[s] <= due[e] /\ due[e] \in Nat /\ LatestAfter(e) \in Nat
        /\ due[e] <= proposedAt[p.id] + LatestAfter(e)
    BY <1>1, <1>2, <2>1, LatestType DEF Earliest, Pending
  <2>5. QED
    BY <1>1, <2>2, <2>3, <2>4, LongestDelays
<1>3. \A t \in Server : ~VotePending(t, p.id)
  BY <1>2 DEF VotePending
<1>4. QED
  BY <1>1, <1>3, AllVoted

\* A synchronous slot makes one proposal more, or none.
LEMMA SlotAddsOne ==
  ASSUME TypeOK, NEW s \in Server, DoSyncPropose(s)
  PROVE  /\ \A u \in Server \ {s} : m_proposals'[u] = m_proposals[u]
         /\ \E n : m_proposals'[s] \subseteq m_proposals[s] \cup {n}
<1>1. CASE DoPropose(s, m_proposals[s], events)
  <2>1. PICK n : m_proposals' = [m_proposals EXCEPT ![s] = Insert(m_proposals[s], n)]
    BY <1>1 DEF DoPropose
  <2>2. QED
    BY <2>1 DEF TypeOK, ServerTypeOK, Insert, Erase
<1>2. CASE UNCHANGED m_proposals
  BY <1>2
<1>3. QED
  BY <1>1, <1>2 DEF DoSyncPropose

\* LastSlotOnly is inductive when messages are short.
LEMMA LastSlotStep ==
  ASSUME \A d \in MessageDelay : 2 * d + HandlingDelay < m_proposePeriod,
         BasicInv, BasicInv', ProposalInv, AnswersCounted, LastSlotOnly,
         [TimedNext]_timedVars
  PROVE  LastSlotOnly'
<1> SUFFICES ASSUME ~IsAsync PROVE LastSlotOnly'
  BY DEF LastSlotOnly
<1>1. /\ TypeOK /\ TypeOK' /\ ClockInv /\ Match /\ VotingParts /\ LearningInv /\ LearningInv'
      /\ proposeAt \in [Server -> Nat] /\ ProposedOnce
  BY DEF BasicInv, UntimedInv, ClockInv, TimeTypeOK, ProposalInv
<1>2. CASE UNCHANGED <<m_proposals, proposeEvents, proposeAt, proposedAt>>
  BY <1>2 DEF LastSlotOnly
<1>3. ASSUME NEW s \in Server, TimedProposeStep(s)
      PROVE  LastSlotOnly'
  <2> DEFINE t == proposeAt[s]
  <2>1. /\ RunsAt(t) /\ DoSyncPropose(s) /\ proposeEvents[s] > 0 /\ NoteProposals(t)
        /\ proposeAt' = [proposeAt EXCEPT ![s] = t + m_proposePeriod]
        /\ UNCHANGED requested
    BY <1>3 DEF TimedProposeStep, DoSyncPropose, DoAsyncPropose, clientVars
  <2>2. m_proposals[s] = {}
    BY <2>1, SlotIsFree DEF RunsAt
  <2>3. PICK n : m_proposals'[s] \subseteq {n}
    BY <1>1, <2>1, <2>2, SlotAddsOne
  <2>4. MakesProposals
    BY <1>1, <2>1, SlotProposes
  <2>5. /\ \A i \in DOMAIN proposedAt : proposedAt'[i] = proposedAt[i]
        /\ \A i \in DOMAIN proposedAt' \ DOMAIN proposedAt : proposedAt'[i] = t
        /\ Ids(m_proposals'[s]) \subseteq DOMAIN proposedAt'
    BY <1>1, <2>1, <2>4, NotedTimes
  <2>6. \A p \in m_proposals'[s] : proposedAt'[p.id] = t
    <3>1. \A p \in m_proposals'[s] : p.id \in FreshIds
      BY <2>2, <2>4 DEF MakesProposals, Ids
    <3>2. \A p \in m_proposals'[s] : p.id \notin DOMAIN proposedAt
      BY <1>1, <3>1 DEF ProposedOnce
    <3>3. QED
      BY <2>5, <3>2 DEF Ids
  <2>7. /\ proposeAt'[s] = t + m_proposePeriod /\ t \in Nat /\ m_proposePeriod \in Nat
        /\ \A u \in Server \ {s} : /\ proposeAt'[u] = proposeAt[u]
                                   /\ proposeEvents'[u] = proposeEvents[u]
                                   /\ m_proposals'[u] = m_proposals[u]
    BY <1>1, <2>1, SlotAddsOne, SlotsOfOthers, IntervalTypes
  <2>8. \A u \in Server : \A p \in m_proposals[u] : proposedAt'[p.id] = proposedAt[p.id]
    BY <1>1, <2>5 DEF ProposedOnce, Ids
  <2>9. \A p \in m_proposals'[s] : proposedAt'[p.id] + m_proposePeriod <= proposeAt'[s]
    BY <2>6, <2>7
  <2>10. QED
    BY <2>3, <2>7, <2>8, <2>9 DEF LastSlotOnly
<1>4. CASE TimedMessageStep
  <2>1. PICK e \in events : /\ ReceiveMessage(e) \/ SendAcceptMessage(e)
                            /\ NoteProposals(due[e])
    BY <1>4 DEF TimedMessageStep
  <2>2. proposeEvents' = proposeEvents
    BY <2>1, HandlersDoNotPropose
  <2>3. \A s \in Server : proposeAt'[s] = proposeAt[s]
    <3>1. proposeEvents \in [Server -> Nat]
      BY <1>1 DEF TypeOK, ServerTypeOK
    <3>2. QED
      BY <1>4, <2>2, <3>1 DEF TimedMessageStep
  <2>4. \A s \in Server : Ids(m_proposals'[s]) \subseteq Ids(m_proposals[s])
    <3>1. FreshIds' = FreshIds
      <4>1. UNCHANGED <<requestEvents, m_waitingProposals>>
        <5>1. CASE DoReceivedAcceptMessage(e)
          <6>1. UNCHANGED <<requestEvents, stopped, m_waitingProposals, m_leaderState,
                            proposeEvents, acceptorVars, decisionLog>>
            BY <5>1, Zenon DEF DoReceivedAcceptMessage
          <6>2. QED
            BY <6>1
        <5>2. CASE DoReceivedProposalMessage(e) \/ DoReceivedDecisionMessage(e)
          BY <5>2 DEF DoReceivedProposalMessage, DoReceivedDecisionMessage, proposerVars
        <5>3. CASE DoReceivedDecisionAckMessage(e)
          BY <5>3 DEF DoReceivedDecisionAckMessage
        <5>4. CASE SendAcceptMessage(e)
          BY <5>4 DEF SendAcceptMessage, serverVars, proposerVars
        <5>5. QED
          BY <2>1, <5>1, <5>2, <5>3, <5>4 DEF ReceiveMessage
      <4>2. QED
        BY <4>1 DEF FreshIds
    <3>2. MakesProposals
      BY <1>1, <2>1, HandlerFollows
    <3>3. QED
      BY <3>1, <3>2 DEF MakesProposals
  <2>5. \A s \in Server : \A p \in m_proposals'[s] : \E o \in m_proposals[s] : o.id = p.id
    BY <2>4 DEF Ids
  <2>6. \A i \in DOMAIN proposedAt : proposedAt'[i] = proposedAt[i]
    BY <2>1 DEF NoteProposals
  <2>7. \A s \in Server : \A p \in m_proposals[s] : proposedAt'[p.id] = proposedAt[p.id]
    BY <1>1, <2>6 DEF ProposedOnce, Ids
  <2>8. \A s \in Server : \A p, q \in m_proposals'[s] : p.id = q.id => p = q
    BY <1>1 DEF LearningInv, LearningOK, ProposalsOK
  <2>9. ASSUME NEW s \in Server, NEW p \in m_proposals'[s]
        PROVE  /\ \A q \in m_proposals'[s] : p = q
               /\ proposeEvents'[s] > 0 =>
                    proposedAt'[p.id] + m_proposePeriod <= proposeAt'[s]
    <3>1. PICK o \in m_proposals[s] : o.id = p.id
      BY <2>5
    <3>2. \A q \in m_proposals[s] : q = o
      BY DEF LastSlotOnly
    <3>3. \A q \in m_proposals'[s] : q.id = p.id
      BY <2>5, <3>1, <3>2
    <3>4. proposeEvents[s] > 0 => proposedAt[o.id] + m_proposePeriod <= proposeAt[s]
      BY DEF LastSlotOnly
    <3>5. proposedAt'[p.id] = proposedAt[o.id]
      BY <2>7, <3>1
    <3>6. QED
      BY <2>2, <2>3, <2>8, <3>3, <3>4, <3>5
  <2>10. QED
    BY <2>9 DEF LastSlotOnly
<1>5. CASE TimedRequestStep
  BY <1>2, <1>5 DEF TimedRequestStep, ReceiveRequest, CreateProposalFromRequest,
     serverVars, proposerVars
<1>6. CASE TimedSendRequest
  BY <1>2, <1>6 DEF TimedSendRequest, serverVars, proposerVars
<1>7. ASSUME NEW s \in Server, TimedStop(s)
      PROVE  LastSlotOnly'
  BY <1>2, <1>7 DEF TimedStop, StopApplication, proposerVars
<1>8. CASE UNCHANGED timedVars
  BY <1>2, <1>8 DEF timedVars, timeVars, vars, serverVars, proposerVars
<1>9. QED
  BY <1>3, <1>4, <1>5, <1>6, <1>7, <1>8 DEF TimedNext, TimedEnd

(***************************************************************************)
(* A synchronous server is done with a proposal when its next slot comes,  *)
(* when PROPOSAL and ACCEPT take less than a period.                       *)
(***************************************************************************)
THEOREM DoneBeforeNextSlotCorrect ==
  (/\ NumNodes > 1
   /\ \A d \in MessageDelay : 2 * d + HandlingDelay < m_proposePeriod)
    => (TimedSpec => []DoneBeforeNextSlot)
<1> SUFFICES ASSUME NumNodes > 1,
                    \A d \in MessageDelay : 2 * d + HandlingDelay < m_proposePeriod
             PROVE  TimedSpec => []DoneBeforeNextSlot
  OBVIOUS
<1>1. TimedInit => LastSlotOnly
  <2> SUFFICES ASSUME TimedInit PROVE LastSlotOnly
    OBVIOUS
  <2>1. \A s \in Server : m_proposals[s] = {}
    BY DEF TimedInit, Init, ServerInit
  <2>2. QED
    BY <2>1 DEF LastSlotOnly
<1>2. BasicInv /\ BasicInv' /\ DeadlineInv /\ AnswerInv /\ LastSlotOnly
        /\ [TimedNext]_timedVars => LastSlotOnly'
  BY LastSlotStep DEF DeadlineInv, AnswerInv
<1>3. LastSlotOnly => DoneBeforeNextSlot
  <2> SUFFICES ASSUME LastSlotOnly, ~IsAsync, NEW s \in Server
               PROVE  Cardinality(m_proposals[s]) <= 1
    BY DEF DoneBeforeNextSlot
  <2>1. \A p, q \in m_proposals[s] : p = q
    BY DEF LastSlotOnly
  <2>2. QED
    BY <2>1, AtMostOne
<1>4. QED
  BY <1>1, <1>2, <1>3, BasicCorrect, DeadlineCorrect, AnswerCorrect, PTL DEF TimedSpec
-------------------------------------------------------------------------------
(***************************************************************************)
(* The queues.  A request keeps its place behind those sent before it to   *)
(* the same server, and a slot takes one of them each period.              *)
(***************************************************************************)
QueueParts == RequestsInOrder /\ NoRequestLost /\ WaitingInTime

\* A request has a position, at least the first and at most that of its timestamp.
LEMMA PositionType ==
  ASSUME NEW i \in DOMAIN requested, DOMAIN requested \subseteq Nat \ {0}
  PROVE  Position(i) \in Nat /\ 1 <= Position(i) /\ Position(i) <= i
<1> DEFINE S == {j \in 1 .. i : requested[j].to = requested[i].to}
<1>1. i \in Nat /\ i >= 1
  OBVIOUS
<1>2. S \subseteq 1 .. i /\ i \in S
  BY <1>1
<1>3. IsFiniteSet(1 .. i) /\ Cardinality(1 .. i) = i
  BY <1>1, FS_Interval
<1>4. IsFiniteSet(S) /\ Cardinality(S) <= i
  BY <1>2, <1>3, FS_Subset
<1>5. IsFiniteSet({i}) /\ Cardinality({i}) = 1
  BY FS_Singleton
<1>6. {i} \subseteq S
  BY <1>2
<1>7. Cardinality({i}) <= Cardinality(S)
  BY <1>4, <1>6, FS_Subset
<1>8. Cardinality(S) \in Nat
  BY <1>4, FS_CardinalityType
<1>9. Position(i) = Cardinality(S)
  BY DEF Position
<1> HIDE DEF S
<1>10. QED
  BY <1>4, <1>5, <1>7, <1>8, <1>9

\* A later request to the same server has a later position.
LEMMA PositionGrows ==
  ASSUME NEW m \in DOMAIN requested, NEW i \in DOMAIN requested, m < i,
         DOMAIN requested \subseteq Nat \ {0}, requested[m].to = requested[i].to
  PROVE  Position(m) + 1 <= Position(i)
<1> DEFINE S(x) == {j \in 1 .. x : requested[j].to = requested[x].to}
           T == S(m) \cup {i}
<1>1. m \in Nat /\ i \in Nat /\ m >= 1 /\ i >= 1
  OBVIOUS
<1>2. IsFiniteSet(S(m)) /\ IsFiniteSet(S(i))
  <2>1. IsFiniteSet(1 .. m) /\ IsFiniteSet(1 .. i)
    BY <1>1, FS_Interval
  <2>2. S(m) \subseteq 1 .. m /\ S(i) \subseteq 1 .. i
    OBVIOUS
  <2>3. QED
    BY <2>1, <2>2, FS_Subset
<1>3. i \notin S(m) /\ T \subseteq S(i)
  BY <1>1
<1>4. Cardinality(T) = Cardinality(S(m)) + 1
  BY <1>2, <1>3, FS_AddElement
<1>5. Cardinality(T) <= Cardinality(S(i))
  BY <1>2, <1>3, FS_Subset
<1>6. Position(m) = Cardinality(S(m)) /\ Position(i) = Cardinality(S(i))
  BY DEF Position
<1>7. QED
  BY <1>4, <1>5, <1>6

\* A request is fresh when it is on its way or waits, before a step and after it.
LEMMA FreshMember ==
  ASSUME NEW i
  PROVE  /\ i \in FreshIds <=>
              \/ \E r \in requestEvents : r.frame.id = i
              \/ \E s \in Server : \E k \in DOMAIN m_waitingProposals[s] :
                   m_waitingProposals[s][k].id = i
         /\ i \in FreshIds' <=>
              \/ \E r \in requestEvents' : r.frame.id = i
              \/ \E s \in Server : \E k \in DOMAIN m_waitingProposals'[s] :
                   m_waitingProposals'[s][k].id = i
  BY DEF FreshIds, IdsOf, ToSet

\* What waits was requested of the server it waits at.
LEMMA WaitingRequested ==
  ASSUME TypeOK, Match, NEW s \in Server
  PROVE  /\ m_waitingProposals[s] \in Seq(RequestFrame)
         /\ \A k \in DOMAIN m_waitingProposals[s] :
              /\ m_waitingProposals[s][k].id \in DOMAIN requested
              /\ requested[m_waitingProposals[s][k].id].to = s
         /\ DOMAIN requested = 1 .. Len(requested) /\ Len(requested) \in Nat
         /\ DOMAIN requested \subseteq Nat \ {0} /\ Len(requested) <= MaxRequests
<1>1. requested \in Seq([to : Server, value : Value]) /\ Len(requested) <= MaxRequests
  BY DEF TypeOK, ClientTypeOK
<1>2. DOMAIN requested = 1 .. Len(requested) /\ Len(requested) \in Nat
  BY <1>1, LenProperties
<1>3. m_waitingProposals[s] \in Seq(RequestFrame)
  BY DEF TypeOK, ServerTypeOK
<1>4. QED
  BY <1>1, <1>2, <1>3 DEF Match, WaitingMatch, Asked

\* The invariant of the queues is kept by a step that leaves requests alone.
LEMMA QueueUntouched ==
  ASSUME QueueParts,
         UNCHANGED <<requestEvents, m_waitingProposals, proposeEvents, proposeAt,
                     requested, requestedAt, sendEvent, sendAt>>,
         stopped' = {} => stopped = {},
         DOMAIN proposedAt \subseteq DOMAIN proposedAt'
  PROVE  QueueParts'
<1>1. RequestsInOrder'
  BY DEF QueueParts, RequestsInOrder
<1>2. NoRequestLost'
  <2>1. FreshIds' = FreshIds
    BY DEF FreshIds
  <2>2. QED
    BY <2>1 DEF QueueParts, NoRequestLost
<1>3. WaitingInTime'
  BY DEF QueueParts, WaitingInTime, ArrivesBy, Position
<1>4. QED
  BY <1>1, <1>2, <1>3 DEF QueueParts

\* What a slot takes from the queue of its server: the first request, if any.
LEMMA SlotTakes ==
  ASSUME ~IsAsync, TypeOK, NEW s \in Server, DoSyncPropose(s)
  PROVE  /\ \A u \in Server \ {s} : m_waitingProposals'[u] = m_waitingProposals[u]
         /\ UNCHANGED <<requestEvents, stopped>>
         /\ \/ /\ PastStopTime
               /\ m_waitingProposals'[s] = m_waitingProposals[s]
               /\ proposeEvents'[s] = proposeEvents[s] - 1
            \/ /\ m_waitingProposals'[s] = <<>> /\ m_waitingProposals[s] = <<>>
               /\ proposeEvents'[s] = proposeEvents[s]
            \/ /\ m_waitingProposals[s] # <<>>
               /\ m_waitingProposals'[s] = Tail(m_waitingProposals[s])
               /\ proposeEvents'[s] = proposeEvents[s]
               /\ Head(m_waitingProposals[s]).id \in Ids(m_proposals'[s])
<1>1. /\ m_waitingProposals \in [Server -> Seq(RequestFrame)]
      /\ proposeEvents \in [Server -> Nat]
      /\ m_proposals \in [Server -> SUBSET Proposal]
  BY DEF TypeOK, ServerTypeOK
<1>2. UNCHANGED <<requestEvents, stopped>>
  BY DEF DoSyncPropose
<1>3. CASE PastStopTime
  BY <1>1, <1>2, <1>3 DEF DoSyncPropose
<1>4. CASE UNCHANGED <<m_waitingProposals, proposeEvents>> /\ ~HasRequest(s)
  BY <1>1, <1>2, <1>4 DEF HasRequest
<1>5. CASE HasRequest(s) /\ DoPropose(s, m_proposals[s], events) /\ UNCHANGED proposeEvents
  <2>1. PICK p : /\ p.id = Head(m_waitingProposals[s]).id
                 /\ m_proposals' = [m_proposals EXCEPT ![s] = Insert(m_proposals[s], p)]
                 /\ m_waitingProposals' =
                      [m_waitingProposals EXCEPT ![s] = Tail(m_waitingProposals[s])]
    BY <1>5 DEF DoPropose
  <2>2. m_proposals'[s] = Insert(m_proposals[s], p)
    BY <1>1, <2>1
  <2>3. p.id \in Ids(m_proposals'[s])
    BY <2>2 DEF Insert, Ids
  <2>4. QED
    BY <1>1, <1>2, <1>5, <2>1, <2>3 DEF HasRequest
<1>6. QED
  BY <1>3, <1>4, <1>5 DEF DoSyncPropose

\* The k-th of the tail is the next of the sequence.
LEMMA TailShifts ==
  ASSUME NEW S, NEW q \in Seq(S), q # <<>>
  PROVE  /\ DOMAIN Tail(q) = 1 .. Len(q) - 1
         /\ \A k \in DOMAIN Tail(q) : k + 1 \in DOMAIN q /\ Tail(q)[k] = q[k + 1]
         /\ \A k \in DOMAIN q : k = 1 \/ (k - 1 \in DOMAIN Tail(q) /\ Tail(q)[k - 1] = q[k])
         /\ Head(q) = q[1] /\ DOMAIN q = 1 .. Len(q) /\ Len(q) \in Nat \ {0}
<1>1. /\ Tail(q) \in Seq(S) /\ Len(Tail(q)) = Len(q) - 1
      /\ \A k \in 1 .. Len(Tail(q)) : Tail(q)[k] = q[k + 1]
  BY HeadTailProperties
<1>2. /\ DOMAIN Tail(q) = 1 .. Len(Tail(q)) /\ DOMAIN q = 1 .. Len(q)
      /\ Len(q) \in Nat /\ Len(q) # 0
  BY <1>1, LenProperties, EmptySeq
<1>3. Head(q) = q[1]
  BY HeadTailProperties
<1> DEFINE r == Tail(q)
<1> HIDE DEF r
<1>4. DOMAIN r = 1 .. Len(q) - 1 /\ \A k \in 1 .. Len(q) - 1 : r[k] = q[k + 1]
  BY <1>1, <1>2 DEF r
<1>5. /\ DOMAIN r = 1 .. Len(q) - 1
      /\ \A k \in DOMAIN r : k + 1 \in DOMAIN q /\ r[k] = q[k + 1]
      /\ \A k \in DOMAIN q : k = 1 \/ (k - 1 \in DOMAIN r /\ r[k - 1] = q[k])
  <2>1. ASSUME NEW k \in DOMAIN r
        PROVE  k + 1 \in DOMAIN q /\ r[k] = q[k + 1]
    BY <1>2, <1>4
  <2>2. ASSUME NEW k \in DOMAIN q, k # 1
        PROVE  k - 1 \in DOMAIN r /\ r[k - 1] = q[k]
    <3>1. k - 1 \in 1 .. Len(q) - 1 /\ (k - 1) + 1 = k
      BY <1>2, <2>2
    <3>2. QED
      BY <1>4, <3>1
  <2>3. QED
    BY <1>4, <2>1, <2>2
<1>6. QED
  BY <1>2, <1>3, <1>5 DEF r

\* One slot later each request that waits is one place nearer: WaitingInTime is kept.
LEMMA SlotShifts ==
  ASSUME ~IsAsync, TypeOK, ClockInv, Match, TimersInTime, RequestsInTime, QueueParts,
         NEW s \in Server, TimedProposeStep(s)
  PROVE  WaitingInTime'
<1>1. /\ DoSyncPropose(s) /\ UNCHANGED <<requested, requestedAt>>
      /\ proposeAt' = [proposeAt EXCEPT ![s] = proposeAt[s] + m_proposePeriod]
  BY DEF TimedProposeStep, clientVars, DoAsyncPropose
<1>2. /\ proposeAt \in [Server -> Nat] /\ m_proposePeriod \in Nat
      /\ proposeEvents \in [Server -> Nat] /\ proposeEvents[s] <= 1
  BY IntervalTypes DEF ClockInv, TimeTypeOK, TypeOK, ServerTypeOK, TimersInTime
<1>3. \A i : Position(i)' = Position(i) /\ ArrivesBy(i)' = ArrivesBy(i)
  BY <1>1 DEF Position, ArrivesBy
<1>4. /\ \A u \in Server \ {s} : proposeAt'[u] = proposeAt[u]
      /\ proposeAt'[s] = proposeAt[s] + m_proposePeriod
  BY <1>1, <1>2
<1>5. ASSUME NEW u \in Server, NEW k \in DOMAIN m_waitingProposals'[u]
      PROVE  LET i == m_waitingProposals'[u][k].id
             IN  /\ k <= Position(i)
                 /\ proposeEvents'[u] > 0 =>
                      proposeAt'[u] + (k - 1) * m_proposePeriod
                        <= ArrivesBy(i) + Position(i) * m_proposePeriod
  <2>1. CASE u # s
    <3>1. /\ m_waitingProposals'[u] = m_waitingProposals[u]
          /\ proposeEvents'[u] = proposeEvents[u] /\ proposeAt'[u] = proposeAt[u]
      BY <1>1, <1>4, <2>1, SlotTakes, SlotsOfOthers
    <3>2. QED
      BY <1>5, <3>1 DEF QueueParts, WaitingInTime
  <2>2. CASE u = s /\ m_waitingProposals'[s] = m_waitingProposals[s]
               /\ proposeEvents'[s] = proposeEvents[s] - 1
    BY <1>2, <1>5, <2>2 DEF QueueParts, WaitingInTime
  <2>3. CASE u = s /\ m_waitingProposals'[s] = <<>>
    BY <1>5, <2>3
  <2>4. CASE /\ u = s /\ m_waitingProposals[s] # <<>>
             /\ m_waitingProposals'[s] = Tail(m_waitingProposals[s])
             /\ proposeEvents'[s] = proposeEvents[s]
    <3> DEFINE q == m_waitingProposals[s]
    <3>1. q \in Seq(RequestFrame) /\ q # <<>>
      BY <2>4, WaitingRequested
    <3>2. /\ k + 1 \in DOMAIN q /\ m_waitingProposals'[s][k] = q[k + 1]
          /\ k \in Nat
      BY <1>5, <2>4, <3>1, TailShifts
    <3>3. PICK i : i = q[k + 1].id
      OBVIOUS
    <3>4. /\ i \in DOMAIN requested /\ DOMAIN requested \subseteq Nat \ {0}
          /\ Position(i) \in Nat
      BY <3>2, <3>3, WaitingRequested, PositionType
    <3>5. /\ k + 1 <= Position(i)
          /\ proposeEvents[s] > 0 =>
               proposeAt[s] + ((k + 1) - 1) * m_proposePeriod
                 <= ArrivesBy(i) + Position(i) * m_proposePeriod
      BY <3>2, <3>3 DEF QueueParts, WaitingInTime
    <3>6. ((k + 1) - 1) * m_proposePeriod = m_proposePeriod + (k - 1) * m_proposePeriod
      <4>1. ((k + 1) - 1) * m_proposePeriod = k * m_proposePeriod
        BY <3>2
      <4>2. k * m_proposePeriod = m_proposePeriod + (k - 1) * m_proposePeriod
        BY <1>2, <3>2
      <4>3. QED
        BY <4>1, <4>2
    <3>7. /\ (k - 1) * m_proposePeriod \in Int /\ proposeAt[s] \in Nat
      BY <1>2, <3>2
    <3>8. proposeAt[s] + ((k + 1) - 1) * m_proposePeriod
            = (proposeAt[s] + m_proposePeriod) + (k - 1) * m_proposePeriod
      BY <1>2, <3>6, <3>7
    <3>9. m_waitingProposals'[u][k].id = i
      BY <2>4, <3>2, <3>3
    <3>10. k <= Position(i)
      BY <3>2, <3>4, <3>5
    <3> HIDE DEF q
    <3>11. QED
      BY <1>4, <2>4, <3>5, <3>8, <3>9, <3>10
  <2>5. QED
    BY <1>1, <2>1, <2>2, <2>3, <2>4, SlotTakes
<1>6. QED
  BY <1>3, <1>5 DEF WaitingInTime

\* A slot keeps the invariant of the queues.
LEMMA SlotQueue ==
  ASSUME ~IsAsync, TypeOK, TypeOK', ClockInv, Match, VotingParts, ProposedOnce,
         TimersInTime, RequestsInTime, QueueParts, NEW s \in Server, TimedProposeStep(s)
  PROVE  QueueParts'
<1>1. /\ DoSyncPropose(s) /\ NoteProposals(proposeAt[s]) /\ proposeAt[s] \in Nat
      /\ UNCHANGED <<requested, requestedAt, sendEvent, sendAt>>
  BY DEF TimedProposeStep, clientVars, DoAsyncPropose, ClockInv, TimeTypeOK
<1>2. WaitingInTime'
  BY SlotShifts
<1>3. UNCHANGED <<requestEvents, stopped>>
  BY <1>1, SlotTakes
<1>4. ASSUME NEW u \in Server
      PROVE  \/ m_waitingProposals'[u] = m_waitingProposals[u]
             \/ m_waitingProposals'[u] = <<>>
             \/ /\ u = s /\ m_waitingProposals[u] # <<>>
                /\ m_waitingProposals'[u] = Tail(m_waitingProposals[u])
  BY <1>1, SlotTakes
<1>5. ASSUME NEW u \in Server
      PROVE  /\ \A j, k \in DOMAIN m_waitingProposals'[u] :
                  j < k => m_waitingProposals'[u][j].id < m_waitingProposals'[u][k].id
             /\ \A r \in requestEvents : \A k \in DOMAIN m_waitingProposals'[u] :
                  r.at = u => m_waitingProposals'[u][k].id < r.frame.id
  <2>1. /\ \A j, k \in DOMAIN m_waitingProposals[u] :
             j < k => m_waitingProposals[u][j].id < m_waitingProposals[u][k].id
        /\ \A r \in requestEvents : \A k \in DOMAIN m_waitingProposals[u] :
             r.at = u => m_waitingProposals[u][k].id < r.frame.id
    BY DEF QueueParts, RequestsInOrder
  <2>2. CASE m_waitingProposals'[u] = m_waitingProposals[u]
    BY <2>1, <2>2
  <2>3. CASE m_waitingProposals'[u] = <<>>
    BY <2>3
  <2>4. CASE /\ m_waitingProposals[u] # <<>>
             /\ m_waitingProposals'[u] = Tail(m_waitingProposals[u])
    <3> DEFINE q == m_waitingProposals[u]
    <3>1. q \in Seq(RequestFrame) /\ q # <<>>
      BY <2>4, WaitingRequested
    <3>2. /\ DOMAIN Tail(q) = 1 .. Len(q) - 1 /\ Len(q) \in Nat
          /\ \A k \in DOMAIN Tail(q) : k + 1 \in DOMAIN q /\ Tail(q)[k] = q[k + 1]
      BY <3>1, TailShifts
    <3>3. \A k \in DOMAIN m_waitingProposals'[u] :
            /\ k \in Nat /\ k + 1 \in DOMAIN q
            /\ m_waitingProposals'[u][k] = q[k + 1]
      BY <2>4, <3>2
    <3>4. ASSUME NEW j \in DOMAIN m_waitingProposals'[u],
                 NEW k \in DOMAIN m_waitingProposals'[u], j < k
          PROVE  m_waitingProposals'[u][j].id < m_waitingProposals'[u][k].id
      <4>1. j + 1 < k + 1
        BY <3>3, <3>4
      <4>2. QED
        BY <2>1, <3>3, <3>4, <4>1
    <3>5. QED
      BY <2>1, <3>3, <3>4
  <2>5. QED
    BY <1>4, <2>2, <2>3, <2>4
<1>6. RequestsInOrder'
  BY <1>1, <1>3, <1>5 DEF QueueParts, RequestsInOrder
<1>7. NoRequestLost'
  <2> SUFFICES ASSUME stopped' = {}
               PROVE  /\ \A u \in Server : proposeEvents'[u] > 0
                      /\ DOMAIN requested' \subseteq FreshIds' \cup DOMAIN proposedAt'
    BY DEF NoRequestLost
  <2>1. /\ stopped = {} /\ ~PastStopTime
        /\ \A u \in Server : proposeEvents[u] > 0
        /\ DOMAIN requested \subseteq FreshIds \cup DOMAIN proposedAt
    BY <1>3 DEF PastStopTime, QueueParts, NoRequestLost
  <2>2. \A u \in Server : proposeEvents'[u] = proposeEvents[u]
    BY <1>1, <2>1, SlotTakes, SlotsOfOthers
  <2>3. MakesProposals
    BY <1>1, SlotProposes
  <2>4. /\ DOMAIN proposedAt \subseteq DOMAIN proposedAt'
        /\ Ids(m_proposals'[s]) \subseteq DOMAIN proposedAt'
    BY <1>1, <2>3, NotedTimes
  <2>5. ASSUME NEW i \in FreshIds
        PROVE  i \in FreshIds' \cup DOMAIN proposedAt'
    <3>1. CASE \E r \in requestEvents : r.frame.id = i
      BY <1>3, <3>1, FreshMember
    <3>2. ASSUME NEW u \in Server, NEW k \in DOMAIN m_waitingProposals[u],
                 m_waitingProposals[u][k].id = i
          PROVE  i \in FreshIds' \cup DOMAIN proposedAt'
      <4>1. CASE m_waitingProposals'[u] = m_waitingProposals[u]
        BY <3>2, <4>1, FreshMember
      <4>2. CASE u = s /\ m_waitingProposals[s] = <<>>
        BY <3>2, <4>2
      <4>3. CASE /\ u = s /\ m_waitingProposals[s] # <<>>
                 /\ m_waitingProposals'[s] = Tail(m_waitingProposals[s])
                 /\ Head(m_waitingProposals[s]).id \in Ids(m_proposals'[s])
        <5> DEFINE q == m_waitingProposals[s]
        <5>1. q \in Seq(RequestFrame) /\ q # <<>>
          BY <4>3, WaitingRequested
        <5>2. \/ k = 1 /\ Head(q) = q[1]
              \/ k - 1 \in DOMAIN Tail(q) /\ Tail(q)[k - 1] = q[k]
          BY <3>2, <4>3, <5>1, TailShifts
        <5>3. CASE k = 1 /\ Head(q) = q[1]
          BY <2>4, <3>2, <4>3, <5>3
        <5>4. CASE k - 1 \in DOMAIN Tail(q) /\ Tail(q)[k - 1] = q[k]
          <6>1. \E j \in DOMAIN m_waitingProposals'[s] : m_waitingProposals'[s][j].id = i
            BY <3>2, <4>3, <5>4
          <6>2. QED
            BY <6>1, FreshMember
        <5>5. QED
          BY <5>2, <5>3, <5>4
      <4>4. QED
        BY <1>1, <4>1, <4>2, <4>3, SlotTakes
    <3>3. QED
      BY <3>1, <3>2, FreshMember
  <2>6. QED
    BY <1>1, <2>1, <2>2, <2>4, <2>5
<1>8. QED
  BY <1>2, <1>6, <1>7 DEF QueueParts

\* A request that has arrived is handled next: the queues are as they were.
LEMMA ReceiveQueue ==
  ASSUME ~IsAsync, TypeOK, QueueParts, NEW r \in requestEvents, ReceiveRequest(r),
         UNCHANGED <<requested, requestedAt, proposeAt, sendEvent, sendAt, proposedAt>>
  PROVE  QueueParts'
<1>1. r \in RequestEvent /\ UNCHANGED <<stopped, m_waitingProposals, proposeEvents>>
  BY DEF ReceiveRequest, serverVars, proposerVars, TypeOK, SimTypeOK
<1>2. PICK n : /\ n.at = r.at /\ n.frame = r.frame
               /\ requestEvents' = (requestEvents \ {r}) \cup {n}
  <2>1. requestEvents' =
          (requestEvents \ {r}) \cup {[r EXCEPT !.fn = "CreateProposalFromRequest"]}
    BY DEF ReceiveRequest
  <2>2. [r EXCEPT !.fn = "CreateProposalFromRequest"].at = r.at
        /\ [r EXCEPT !.fn = "CreateProposalFromRequest"].frame = r.frame
    BY <1>1 DEF RequestEvent
  <2>3. QED
    BY <2>1, <2>2
<1>3. \A x \in requestEvents' :
        \E y \in requestEvents : x.at = y.at /\ x.frame.id = y.frame.id
  BY <1>2
<1>4. RequestsInOrder'
  <2>1. \A s \in Server : \A x \in requestEvents' : \A k \in DOMAIN m_waitingProposals[s] :
          x.at = s => m_waitingProposals[s][k].id < x.frame.id
    BY <1>3 DEF QueueParts, RequestsInOrder
  <2>2. QED
    BY <1>1, <2>1 DEF QueueParts, RequestsInOrder
<1>5. NoRequestLost'
  <2>1. ASSUME NEW i \in FreshIds
        PROVE  i \in FreshIds'
    <3>1. CASE \E x \in requestEvents : x.frame.id = i
      <4>1. \E x \in requestEvents' : x.frame.id = i
        BY <1>2, <3>1
      <4>2. QED
        BY <4>1, FreshMember
    <3>2. QED
      BY <1>1, <3>1, FreshMember
  <2>2. QED
    BY <1>1, <2>1 DEF QueueParts, NoRequestLost
<1>6. WaitingInTime'
  BY <1>1 DEF QueueParts, WaitingInTime, ArrivesBy, Position
<1>7. QED
  BY <1>4, <1>5, <1>6 DEF QueueParts

\* The requests that wait at a server are no more than the timestamps before.
LEMMA QueueHasRoom ==
  ASSUME TypeOK, Match, QueueParts, MaxRequests <= QueueLimit + 1,
         NEW r \in requestEvents, r.at \in Server
  PROVE  /\ Len(m_waitingProposals[r.at]) \in Nat
         /\ Len(m_waitingProposals[r.at]) <= QueueLimit
<1> DEFINE q == m_waitingProposals[r.at]
           n == Len(q)
<1>1. /\ q \in Seq(RequestFrame) /\ n \in Nat /\ DOMAIN q = 1 .. n
      /\ QueueLimit \in Nat /\ MaxRequests \in Nat
  BY WaitingRequested, LenProperties, BoundsAssumption
<1>2. CASE n = 0
  BY <1>1, <1>2
<1>3. CASE n > 0
  <2>1. n \in DOMAIN q
    BY <1>1, <1>3
  <2>2. PICK m : m = q[n].id
    OBVIOUS
  <2>3. /\ m \in DOMAIN requested /\ DOMAIN requested = 1 .. Len(requested)
        /\ DOMAIN requested \subseteq Nat \ {0} /\ Len(requested) \in Nat
        /\ Len(requested) <= MaxRequests
    BY <2>1, <2>2, WaitingRequested
  <2>4. n <= Position(m) /\ m < r.frame.id
    BY <2>1, <2>2 DEF QueueParts, WaitingInTime, RequestsInOrder
  <2>5. Position(m) <= m /\ Position(m) \in Nat
    BY <2>3, PositionType
  <2>6. r.frame.id \in DOMAIN requested
    BY DEF Match, RequestsMatch, Asked
  <2> HIDE DEF n, q
  <2>7. r.frame.id \in Nat /\ r.frame.id <= MaxRequests /\ m \in Nat
    BY <1>1, <2>3, <2>6
  <2>8. n <= QueueLimit
    BY <1>1, <2>4, <2>5, <2>7
  <2>9. QED
    BY <1>1, <2>8 DEF n, q
<1>4. QED
  BY <1>1, <1>2, <1>3

\* Requests that do not overtake one another are handled in their order.
LEMMA HandledInOrder ==
  ASSUME \A d1, d2 \in RequestDelay : d1 < d2 + m_sendInterval,
         TypeOK, ClockInv, VotingParts, RequestsInTime, RequestsInOrder,
         NEW r \in requestEvents, r.fn = "CreateProposalFromRequest", Earliest(due[r]),
         NEW x \in requestEvents, x # r
  PROVE  r.frame.id < x.frame.id
<1>1. PICK i, j : i = r.frame.id /\ j = x.frame.id
  OBVIOUS
<1>2. /\ i \in DOMAIN requestedAt /\ j \in DOMAIN requestedAt
      /\ requestedAt[i] \in Nat /\ requestedAt[j] \in Nat
      /\ i \in Nat /\ j \in Nat
  <2>1. requested \in Seq([to : Server, value : Value])
    BY DEF TypeOK, ClientTypeOK
  <2>2. DOMAIN requested = 1 .. Len(requested) /\ Len(requested) \in Nat
    BY <2>1, LenProperties
  <2>3. i \in DOMAIN requested /\ j \in DOMAIN requested
    BY <1>1 DEF RequestsInTime
  <2>4. QED
    BY <2>2, <2>3, RequestedTimes DEF RequestsInTime
<1>3. PICK d \in RequestDelay : due[r] = requestedAt[i] + d + 10
  BY <1>1 DEF RequestsInTime, HandledAt, HandlingDelay
<1>4. PICK c \in RequestDelay :
        due[x] = requestedAt[j] + c \/ due[x] = requestedAt[j] + c + 10
  <2>1. PICK c \in RequestDelay : due[x] = HandledAt(x, c)
    BY DEF RequestsInTime
  <2>2. c \in Nat
    BY DelayAssumption
  <2>3. due[x] = requestedAt[j] + c + 0 \/ due[x] = requestedAt[j] + c + 10
    BY <1>1, <2>1 DEF HandledAt, HandlingDelay
  <2>4. QED
    BY <1>2, <2>2, <2>3
<1>5. due[r] <= due[x]
  BY DEF Earliest, Pending
<1>6. i # j
  BY <1>1 DEF VotingParts, RequestsFresh
<1>7. ~ j < i
  <2> SUFFICES ASSUME j < i PROVE FALSE
    OBVIOUS
  <2>1. requestedAt[j] + m_sendInterval <= requestedAt[i]
    BY <1>2 DEF RequestsInOrder
  <2>2. c \in Nat /\ d \in Nat /\ m_sendInterval \in Nat /\ c < d + m_sendInterval
    BY DelayAssumption, IntervalTypes
  <2>3. QED
    BY <1>2, <1>3, <1>4, <1>5, <2>1, <2>2
<1>8. QED
  BY <1>1, <1>2, <1>6, <1>7

\* One place later is one period later.
LEMMA NextPlace ==
  ASSUME NEW t \in Nat, NEW w \in Nat, NEW n \in Nat, NEW a \in Nat, NEW b \in Nat,
         NEW p \in Nat, NEW q \in Nat,
         t + (n - 1) * w <= a + p * w, a <= b, p + 1 <= q
  PROVE  t + n * w <= b + q * w
<1>1. (p + 1) * w <= q * w
  <2>1. p + 1 \in Nat
    OBVIOUS
  <2>2. QED
    BY <2>1, TimesMonotone
<1>2. (p + 1) * w = p * w + w /\ n * w = (n - 1) * w + w
  OBVIOUS
<1>3. PICK x, y, z : x = (n - 1) * w /\ y = p * w /\ z = q * w
  OBVIOUS
<1>4. x \in Int /\ y \in Nat /\ z \in Nat
  BY <1>3
<1>5. t + x <= a + y /\ y + w <= z /\ n * w = x + w
  BY <1>1, <1>2, <1>3
<1>6. QED
  BY <1>3, <1>4, <1>5

\* A request arrives in time, and a later one is to arrive later.
LEMMA ArrivesByType ==
  ASSUME TypeOK, ClockInv, RequestsInTime, NEW i \in DOMAIN requested
  PROVE  /\ requestedAt[i] \in Nat /\ ArrivesBy(i) \in Nat
         /\ ArrivesBy(i) = requestedAt[i] + LongestRequest + 10
<1>1. requestedAt[i] \in Nat /\ LongestRequest \in Nat
  BY RequestedTimes, LongestDelays DEF RequestsInTime
<1>2. ArrivesBy(i) = requestedAt[i] + LongestRequest + HandlingDelay
  BY DEF ArrivesBy, LongestRequest
<1>3. HandlingDelay = 10
  BY DEF HandlingDelay
<1>4. QED
  BY <1>1, <1>2, <1>3

\* When a request joins the queue, its place and its time are what they should be.
LEMMA JoinsInTime ==
  ASSUME ~IsAsync, TypeOK, ClockInv, Match, TimersInTime, RequestsInTime, QueueParts,
         NEW r \in requestEvents, r.fn = "CreateProposalFromRequest",
         NEW i \in DOMAIN requested, i = r.frame.id, NEW s \in Server, s = r.at,
         NEW n \in Nat, n = Len(m_waitingProposals[s])
  PROVE  /\ n + 1 <= Position(i)
         /\ proposeEvents[s] > 0 =>
              proposeAt[s] + n * m_proposePeriod
                <= ArrivesBy(i) + Position(i) * m_proposePeriod
<1>1. /\ proposeAt[s] \in Nat /\ m_proposePeriod \in Nat /\ now \in Nat
      /\ proposeEvents[s] > 0 => proposeAt[s] <= now + m_proposePeriod
  BY IntervalTypes DEF ClockInv, TimeTypeOK, TimersInTime, ProposeInterval
<1>2. DOMAIN requested \subseteq Nat \ {0} /\ requested[i].to = s
  BY WaitingRequested DEF Match, RequestsMatch, Asked
<1>3. Position(i) \in Nat /\ 1 <= Position(i)
  BY <1>2, PositionType
<1>4. ArrivesBy(i) \in Nat
  BY ArrivesByType
<1>5. now <= ArrivesBy(i)
  <2>1. PICK d \in RequestDelay : due[r] = requestedAt[i] + d + 10
    BY DEF RequestsInTime, HandledAt, HandlingDelay
  <2>2. d \in Nat /\ d <= LongestRequest /\ LongestRequest \in Nat
    BY LongestDelays
  <2>3. now <= due[r]
    BY EventTimes DEF Pending
  <2>4. requestedAt[i] \in Nat /\ ArrivesBy(i) = requestedAt[i] + LongestRequest + 10
    BY ArrivesByType
  <2>5. PICK a, b, c : a = requestedAt[i] /\ b = ArrivesBy(i) /\ c = LongestRequest
    OBVIOUS
  <2>6. /\ a \in Nat /\ b \in Nat /\ c \in Nat /\ d \in Nat /\ now \in Nat
        /\ b = a + c + 10 /\ now <= a + d + 10 /\ d <= c
    BY <1>1, <1>4, <2>1, <2>2, <2>3, <2>4, <2>5
  <2>7. now <= b
    BY <2>6
  <2>8. QED
    BY <2>5, <2>7
<1>6. CASE n = 0
  <2>1. 1 * m_proposePeriod <= Position(i) * m_proposePeriod
    BY <1>1, <1>3, TimesMonotone
  <2>2. 1 * m_proposePeriod = m_proposePeriod /\ n * m_proposePeriod = 0
        /\ Position(i) * m_proposePeriod \in Nat
    BY <1>1, <1>3, <1>6
  <2>3. QED
    BY <1>1, <1>3, <1>4, <1>5, <1>6, <2>1, <2>2
<1>7. CASE n > 0
  <2>1. n \in DOMAIN m_waitingProposals[s]
    BY <1>7, WaitingRequested, LenProperties
  <2>2. PICK m : m = m_waitingProposals[s][n].id
    OBVIOUS
  <2>3. m \in DOMAIN requested /\ requested[m].to = s
    BY <2>1, <2>2, WaitingRequested
  <2>4. /\ n <= Position(m)
        /\ proposeEvents[s] > 0 =>
             proposeAt[s] + (n - 1) * m_proposePeriod
               <= ArrivesBy(m) + Position(m) * m_proposePeriod
        /\ m < i
    BY <2>1, <2>2 DEF QueueParts, WaitingInTime, RequestsInOrder
  <2>5. Position(m) \in Nat /\ Position(m) + 1 <= Position(i)
    BY <1>2, <2>3, <2>4, PositionType, PositionGrows
  <2>6. requestedAt[m] + m_sendInterval <= requestedAt[i] /\ m_sendInterval \in Nat
    BY <2>3, <2>4, RequestedTimes, IntervalTypes DEF QueueParts, RequestsInOrder, RequestsInTime
  <2>7. /\ requestedAt[m] \in Nat /\ requestedAt[i] \in Nat /\ ArrivesBy(m) \in Nat
        /\ ArrivesBy(m) = requestedAt[m] + LongestRequest + 10
        /\ ArrivesBy(i) = requestedAt[i] + LongestRequest + 10
        /\ LongestRequest \in Nat
    BY <2>3, ArrivesByType, LongestDelays
  <2>8. ArrivesBy(m) <= ArrivesBy(i)
    <3>1. PICK a, b, c : a = requestedAt[m] /\ b = requestedAt[i] /\ c = LongestRequest
      OBVIOUS
    <3>2. /\ a \in Nat /\ b \in Nat /\ c \in Nat /\ m_sendInterval \in Nat
          /\ a + m_sendInterval <= b
      BY <2>6, <2>7, <3>1
    <3>3. a + c + 10 <= b + c + 10
      BY <3>2
    <3>4. QED
      BY <2>7, <3>1, <3>3
  <2>9. n + 1 <= Position(i)
    BY <1>3, <2>4, <2>5
  <2>10. QED
    BY <1>1, <1>3, <1>4, <2>4, <2>5, <2>7, <2>8, <2>9, NextPlace
<1>8. QED
  BY <1>6, <1>7

\* A request that joins the queue of its server keeps the invariant of the queues.
LEMMA CreateQueue ==
  ASSUME \A d1, d2 \in RequestDelay : d1 < d2 + m_sendInterval,
         MaxRequests <= QueueLimit + 1,
         ~IsAsync, TypeOK, ClockInv, Match, VotingParts, TimersInTime, RequestsInTime,
         QueueParts, NEW r \in requestEvents, CreateProposalFromRequest(r),
         Earliest(due[r]),
         UNCHANGED <<requested, requestedAt, proposeAt, sendEvent, sendAt, proposedAt>>
  PROVE  QueueParts'
<1>1. PICK s \in Server, i \in DOMAIN requested, n \in Nat :
        s = r.at /\ i = r.frame.id /\ n = Len(m_waitingProposals[s])
  <2>1. r.at \in Server /\ r.frame.id \in DOMAIN requested
    BY DEF TypeOK, SimTypeOK, RequestEvent, RequestsInTime
  <2>2. QED
    BY <2>1, QueueHasRoom
<1>2. /\ r.fn = "CreateProposalFromRequest"
      /\ requestEvents' = requestEvents \ {r}
      /\ m_waitingProposals' =
           [m_waitingProposals EXCEPT ![s] = Append(m_waitingProposals[s], r.frame)]
      /\ UNCHANGED <<stopped, proposeEvents>>
  BY <1>1, QueueHasRoom, BoundsAssumption DEF CreateProposalFromRequest
<1>3. /\ m_waitingProposals'[s] = Append(m_waitingProposals[s], r.frame)
      /\ \A u \in Server \ {s} : m_waitingProposals'[u] = m_waitingProposals[u]
  BY <1>2 DEF TypeOK, ServerTypeOK
<1>4. /\ DOMAIN m_waitingProposals[s] = 1 .. n
      /\ DOMAIN m_waitingProposals'[s] = 1 .. n + 1
      /\ \A k \in 1 .. n : m_waitingProposals'[s][k] = m_waitingProposals[s][k]
      /\ m_waitingProposals'[s][n + 1] = r.frame
  <2>1. m_waitingProposals[s] \in Seq(RequestFrame) /\ r.frame \in RequestFrame
    BY DEF TypeOK, ServerTypeOK, SimTypeOK, RequestEvent
  <2>2. QED
    BY <1>1, <1>3, <2>1
<1>5. ASSUME NEW u \in Server, NEW k \in DOMAIN m_waitingProposals'[u]
      PROVE  \/ /\ k \in DOMAIN m_waitingProposals[u]
                /\ m_waitingProposals'[u][k] = m_waitingProposals[u][k]
             \/ u = s /\ k = n + 1 /\ m_waitingProposals'[u][k] = r.frame
  <2>1. CASE u = s
    <3>1. k \in 1 .. n \/ k = n + 1
      BY <1>4, <1>5, <2>1
    <3>2. QED
      BY <1>4, <2>1, <3>1
  <2>2. QED
    BY <1>3, <2>1
<1>6. \A u \in Server : \A k \in DOMAIN m_waitingProposals[u] :
        k \in Nat /\ (u = s => k < n + 1)
  BY <1>4, WaitingRequested, LenProperties
<1>7. RequestsInOrder'
  <2>1. ASSUME NEW u \in Server, NEW j \in DOMAIN m_waitingProposals'[u],
               NEW k \in DOMAIN m_waitingProposals'[u], j < k
        PROVE  m_waitingProposals'[u][j].id < m_waitingProposals'[u][k].id
    <3>1. CASE k \in DOMAIN m_waitingProposals[u]
               /\ m_waitingProposals'[u][k] = m_waitingProposals[u][k]
      <4>1. ~ (u = s /\ j = n + 1)
        BY <1>6, <2>1, <3>1
      <4>2. /\ j \in DOMAIN m_waitingProposals[u]
            /\ m_waitingProposals'[u][j] = m_waitingProposals[u][j]
        BY <1>5, <2>1, <4>1
      <4>3. QED
        BY <2>1, <3>1, <4>2 DEF QueueParts, RequestsInOrder
    <3>2. CASE u = s /\ k = n + 1 /\ m_waitingProposals'[u][k] = r.frame
      <4>1. j # n + 1
        BY <2>1, <3>2
      <4>2. /\ j \in DOMAIN m_waitingProposals[u]
            /\ m_waitingProposals'[u][j] = m_waitingProposals[u][j]
        BY <1>5, <2>1, <4>1
      <4>3. QED
        BY <1>1, <3>2, <4>2 DEF QueueParts, RequestsInOrder
    <3>3. QED
      BY <1>5, <2>1, <3>1, <3>2
  <2>2. ASSUME NEW u \in Server, NEW x \in requestEvents',
               NEW k \in DOMAIN m_waitingProposals'[u], x.at = u
        PROVE  m_waitingProposals'[u][k].id < x.frame.id
    <3>1. x \in requestEvents /\ x # r
      BY <1>2, <2>2
    <3>2. CASE k \in DOMAIN m_waitingProposals[u]
               /\ m_waitingProposals'[u][k] = m_waitingProposals[u][k]
      BY <2>2, <3>1, <3>2 DEF QueueParts, RequestsInOrder
    <3>3. CASE m_waitingProposals'[u][k] = r.frame
      BY <1>2, <3>1, <3>3, HandledInOrder DEF QueueParts
    <3>4. QED
      BY <1>5, <2>2, <3>2, <3>3
  <2>3. QED
    BY <2>1, <2>2 DEF QueueParts, RequestsInOrder
<1>8. NoRequestLost'
  <2>1. ASSUME NEW j \in FreshIds
        PROVE  j \in FreshIds'
    <3>1. CASE \E x \in requestEvents : x.frame.id = j
      <4>1. PICK x \in requestEvents : x.frame.id = j
        BY <3>1
      <4>2. CASE x = r
        <5>1. n + 1 \in DOMAIN m_waitingProposals'[s]
          BY <1>4
        <5>2. \E k \in DOMAIN m_waitingProposals'[s] : m_waitingProposals'[s][k].id = j
          BY <1>4, <4>1, <4>2, <5>1
        <5>3. QED
          BY <5>2, FreshMember
      <4>3. CASE x # r
        <5>1. x \in requestEvents'
          BY <1>2, <4>3
        <5>2. QED
          BY <4>1, <5>1, FreshMember
      <4>4. QED
        BY <4>2, <4>3
    <3>2. ASSUME NEW u \in Server, NEW k \in DOMAIN m_waitingProposals[u],
                 m_waitingProposals[u][k].id = j
          PROVE  j \in FreshIds'
      <4>1. k \in DOMAIN m_waitingProposals'[u]
            /\ m_waitingProposals'[u][k] = m_waitingProposals[u][k]
        <5>1. CASE u = s
          <6>1. k \in 1 .. n /\ k \in 1 .. n + 1
            BY <1>4, <3>2, <5>1
          <6>2. QED
            BY <1>4, <5>1, <6>1
        <5>2. QED
          BY <1>3, <3>2, <5>1
      <4>2. QED
        BY <3>2, <4>1, FreshMember
    <3>3. QED
      BY <3>1, <3>2, FreshMember
  <2>2. QED
    BY <1>2, <2>1 DEF QueueParts, NoRequestLost
<1>9. WaitingInTime'
  <2>1. \A j : Position(j)' = Position(j) /\ ArrivesBy(j)' = ArrivesBy(j)
    BY DEF Position, ArrivesBy
  <2>2. ASSUME NEW u \in Server, NEW k \in DOMAIN m_waitingProposals'[u]
        PROVE  LET j == m_waitingProposals'[u][k].id
               IN  /\ k <= Position(j)
                   /\ proposeEvents[u] > 0 =>
                        proposeAt[u] + (k - 1) * m_proposePeriod
                          <= ArrivesBy(j) + Position(j) * m_proposePeriod
    <3>1. CASE k \in DOMAIN m_waitingProposals[u]
               /\ m_waitingProposals'[u][k] = m_waitingProposals[u][k]
      BY <3>1 DEF QueueParts, WaitingInTime
    <3>2. CASE u = s /\ k = n + 1 /\ m_waitingProposals'[u][k] = r.frame
      <4>1. /\ n + 1 <= Position(i)
            /\ proposeEvents[s] > 0 =>
                 proposeAt[s] + n * m_proposePeriod
                   <= ArrivesBy(i) + Position(i) * m_proposePeriod
        BY <1>1, <1>2, JoinsInTime
      <4>2. (n + 1) - 1 = n
        OBVIOUS
      <4>3. QED
        BY <1>1, <3>2, <4>1, <4>2
    <3>3. QED
      BY <1>5, <2>2, <3>1, <3>2
  <2>3. QED
    BY <1>2, <2>1, <2>2 DEF WaitingInTime
<1>10. QED
  BY <1>7, <1>8, <1>9 DEF QueueParts

\* The request that is sent is the last in every order.
LEMMA SendQueue ==
  ASSUME TypeOK, ClockInv, Match, RequestsInTime, QueueParts, TimedSendRequest
  PROVE  QueueParts'
<1> DEFINE t == sendAt
<1>1. /\ RunsAt(t) /\ SendRequest
      /\ sendAt' = IF Len(requested') < MaxRequests \/ t + m_sendInterval > m_stopTime
                   THEN t + m_sendInterval ELSE m_stopTime
      /\ requestedAt' = IF PastStopTime THEN requestedAt ELSE Append(requestedAt, t)
      /\ UNCHANGED <<m_waitingProposals, proposeEvents, proposeAt, proposedAt, stopped>>
  BY DEF TimedSendRequest, SendRequest, serverVars, proposerVars
<1>2. /\ t \in Nat /\ m_stopTime \in Nat /\ m_sendInterval \in Nat
      /\ requestedAt \in Seq(Nat) /\ requested \in Seq([to : Server, value : Value])
      /\ Len(requestedAt) = Len(requested)
  BY StopAssumption, IntervalTypes
     DEF ClockInv, TimeTypeOK, TypeOK, ClientTypeOK, RequestsInTime
<1>3. CASE PastStopTime
  <2>1. UNCHANGED <<requested, requestedAt, requestEvents>> /\ ~sendEvent'
    BY <1>1, <1>3 DEF SendRequest
  <2>2. RequestsInOrder'
    BY <1>1, <2>1 DEF QueueParts, RequestsInOrder
  <2>3. NoRequestLost'
    BY <1>1, <1>3 DEF NoRequestLost, PastStopTime
  <2>4. WaitingInTime'
    BY <1>1, <2>1 DEF QueueParts, WaitingInTime, ArrivesBy, Position
  <2>5. QED
    BY <2>2, <2>3, <2>4 DEF QueueParts
<1>4. CASE ~PastStopTime
  <2>1. PICK n \in Nat : n = Len(requested)
    BY <1>2
  <2>2. PICK v \in Value :
          /\ requested' = Append(requested, [to |-> NextServer, value |-> v])
          /\ requestEvents' = requestEvents \cup
               {[at |-> NextServer, fn |-> "ReceiveRequest",
                 frame |-> [id |-> n + 1, value |-> v]]}
    BY <1>1, <1>4, <2>1 DEF SendRequest
  <2>3. /\ DOMAIN requested = 1 .. n /\ DOMAIN requestedAt = 1 .. n
        /\ DOMAIN requested' = 1 .. n + 1 /\ DOMAIN requestedAt' = 1 .. n + 1
        /\ \A i \in 1 .. n : requested'[i] = requested[i] /\ requestedAt'[i] = requestedAt[i]
        /\ requestedAt'[n + 1] = t
    BY <1>1, <1>2, <1>4, <2>1, <2>2
  <2>4. \A i \in 1 .. n : requestedAt[i] \in Nat /\ requestedAt[i] + m_sendInterval <= t
    <3>1. \A i \in 1 .. n : requestedAt[i] \in Nat
      BY <1>2, <2>3
    <3>2. sendEvent
      BY <1>1 DEF SendRequest
    <3>3. \A i \in DOMAIN requestedAt : requestedAt[i] + m_sendInterval <= t
      BY <3>2 DEF QueueParts, RequestsInOrder
    <3>4. QED
      BY <2>3, <3>1, <3>3
  <2>5. t + m_sendInterval <= sendAt' /\ sendAt' \in Nat
    BY <1>1, <1>2
  <2>6. RequestsInOrder'
    <3>1. \A i \in DOMAIN requestedAt' : requestedAt'[i] + m_sendInterval <= sendAt'
      <4>1. ASSUME NEW i \in DOMAIN requestedAt'
            PROVE  requestedAt'[i] + m_sendInterval <= sendAt'
        <5>1. CASE i = n + 1
          BY <2>3, <2>5, <5>1
        <5>2. CASE i \in 1 .. n
          <6>1. requestedAt'[i] = requestedAt[i] /\ requestedAt[i] \in Nat
                /\ requestedAt[i] + m_sendInterval <= t
            BY <2>3, <2>4, <5>2
          <6>2. QED
            BY <1>2, <2>5, <6>1
        <5>3. QED
          BY <2>3, <5>1, <5>2
      <4>2. QED
        BY <4>1
    <3>2. ASSUME NEW i \in DOMAIN requestedAt', NEW j \in DOMAIN requestedAt', i < j
          PROVE  requestedAt'[i] + m_sendInterval <= requestedAt'[j]
      <4>1. i \in 1 .. n
        BY <2>3, <3>2
      <4>2. CASE j \in 1 .. n
        BY <2>3, <3>2, <4>1, <4>2 DEF QueueParts, RequestsInOrder
      <4>3. CASE j = n + 1
        BY <2>3, <2>4, <4>1, <4>3
      <4>4. QED
        BY <2>3, <4>2, <4>3
    <3>3. ASSUME NEW s \in Server, NEW r \in requestEvents',
                 NEW k \in DOMAIN m_waitingProposals[s], r.at = s
          PROVE  m_waitingProposals[s][k].id < r.frame.id
      <4>1. CASE r \in requestEvents
        BY <3>3, <4>1 DEF QueueParts, RequestsInOrder
      <4>2. CASE r \notin requestEvents
        <5>1. r.frame.id = n + 1
          BY <2>2, <4>2
        <5>2. m_waitingProposals[s][k].id \in 1 .. n
          BY <2>3, WaitingRequested
        <5>3. QED
          BY <5>1, <5>2
      <4>3. QED
        BY <4>1, <4>2
    <3>4. QED
      BY <1>1, <3>1, <3>2, <3>3 DEF QueueParts, RequestsInOrder
  <2>7. NoRequestLost'
    <3>1. FreshIds \subseteq FreshIds'
      <4>1. requestEvents \subseteq requestEvents'
        BY <2>2
      <4>2. ASSUME NEW i \in FreshIds
            PROVE  i \in FreshIds'
        <5>1. CASE \E r \in requestEvents : r.frame.id = i
          <6>1. \E r \in requestEvents' : r.frame.id = i
            BY <4>1, <5>1
          <6>2. QED
            BY <6>1, FreshMember
        <5>2. CASE \E s \in Server : \E k \in DOMAIN m_waitingProposals[s] :
                      m_waitingProposals[s][k].id = i
          <6>1. \E s \in Server : \E k \in DOMAIN m_waitingProposals'[s] :
                  m_waitingProposals'[s][k].id = i
            BY <1>1, <5>2
          <6>2. QED
            BY <6>1, FreshMember
        <5>3. QED
          BY <4>2, <5>1, <5>2, FreshMember
      <4>3. QED
        BY <4>2
    <3>2. n + 1 \in FreshIds'
      <4> DEFINE r == [at |-> NextServer, fn |-> "ReceiveRequest",
                       frame |-> [id |-> n + 1, value |-> v]]
      <4>1. r \in requestEvents' /\ r.frame.id = n + 1
        BY <2>2
      <4> HIDE DEF r
      <4>2. \E x \in requestEvents' : x.frame.id = n + 1
        BY <4>1
      <4>3. QED
        BY <4>2, FreshMember
    <3>3. \A i \in DOMAIN requested' : i \in DOMAIN requested \/ i = n + 1
      BY <2>3
    <3>4. QED
      BY <1>1, <3>1, <3>2, <3>3 DEF QueueParts, NoRequestLost
  <2>8. WaitingInTime'
    <3>1. ASSUME NEW i \in 1 .. n
          PROVE  Position(i)' = Position(i) /\ ArrivesBy(i)' = ArrivesBy(i)
      <4>1. \A j \in 1 .. i : j \in 1 .. n
        OBVIOUS
      <4>2. {j \in 1 .. i : requested'[j].to = requested'[i].to}
              = {j \in 1 .. i : requested[j].to = requested[i].to}
        BY <2>3, <4>1
      <4>3. QED
        BY <2>3, <4>2 DEF Position, ArrivesBy
    <3>2. \A s \in Server : \A k \in DOMAIN m_waitingProposals[s] :
            m_waitingProposals[s][k].id \in 1 .. n
      BY <2>3, WaitingRequested
    <3>3. QED
      BY <1>1, <3>1, <3>2 DEF QueueParts, WaitingInTime
  <2>9. QED
    BY <2>6, <2>7, <2>8 DEF QueueParts
<1>5. QED
  BY <1>3, <1>4

\* QueueInv is inductive, when requests arrive in order and the queue has room.
LEMMA QueueStep ==
  ASSUME \A d1, d2 \in RequestDelay : d1 < d2 + m_sendInterval,
         MaxRequests <= QueueLimit + 1,
         BasicInv, BasicInv', DeadlineInv, QueueInv, [TimedNext]_timedVars
  PROVE  QueueInv'
<1> SUFFICES ASSUME ~IsAsync PROVE QueueParts'
  BY DEF QueueInv, QueueParts
<1>1. /\ TypeOK /\ TypeOK' /\ ClockInv /\ Match /\ VotingParts /\ ProposedOnce
      /\ TimersInTime /\ RequestsInTime /\ QueueParts
      /\ proposeAt \in [Server -> Nat]
  BY DEF BasicInv, UntimedInv, DeadlineInv, ProposalInv, QueueInv, QueueParts,
     ClockInv, TimeTypeOK
<1>2. CASE TimedRequestStep
  <2>1. PICK r \in requestEvents : /\ ReceiveRequest(r) \/ CreateProposalFromRequest(r)
                                   /\ RunsAt(due[r])
    BY <1>2 DEF TimedRequestStep
  <2>2. UNCHANGED <<requested, requestedAt, proposeAt, sendEvent, sendAt, proposedAt>>
    BY <1>2 DEF TimedRequestStep, clientVars
  <2>3. Earliest(due[r])
    BY <2>1 DEF RunsAt
  <2>4. CASE ReceiveRequest(r)
    BY <1>1, <2>2, <2>4, ReceiveQueue
  <2>5. CASE CreateProposalFromRequest(r)
    BY <1>1, <2>2, <2>3, <2>5, CreateQueue
  <2>6. QED
    BY <2>1, <2>4, <2>5
<1>3. ASSUME NEW s \in Server, TimedProposeStep(s)
      PROVE  QueueParts'
  BY <1>1, <1>3, SlotQueue
<1>4. CASE TimedMessageStep
  <2>1. PICK e \in events : /\ ReceiveMessage(e) \/ SendAcceptMessage(e)
                            /\ NoteProposals(due[e])
    BY <1>4 DEF TimedMessageStep
  <2>2. proposeEvents' = proposeEvents
    BY <2>1, HandlersDoNotPropose
  <2>3. proposeAt' = proposeAt
    <3>1. proposeEvents \in [Server -> Nat]
      BY <1>1 DEF TypeOK, ServerTypeOK
    <3>2. \A s \in Server : ~ proposeEvents'[s] > proposeEvents[s]
      BY <2>2, <3>1
    <3>3. proposeAt' = [s \in Server |-> proposeAt[s]]
      BY <1>4, <3>2 DEF TimedMessageStep
    <3>4. QED
      BY <1>1, <3>3
  <2>4. UNCHANGED <<requestEvents, stopped, m_waitingProposals>>
    <3>1. CASE DoReceivedAcceptMessage(e)
      <4>1. UNCHANGED <<requestEvents, stopped, m_waitingProposals, m_leaderState,
                        proposeEvents, acceptorVars, decisionLog>>
        BY <3>1, Zenon DEF DoReceivedAcceptMessage
      <4>2. QED
        BY <4>1
    <3>2. CASE DoReceivedProposalMessage(e) \/ DoReceivedDecisionMessage(e)
      BY <3>2 DEF DoReceivedProposalMessage, DoReceivedDecisionMessage, proposerVars
    <3>3. CASE DoReceivedDecisionAckMessage(e)
      BY <3>3 DEF DoReceivedDecisionAckMessage
    <3>4. CASE SendAcceptMessage(e)
      BY <3>4 DEF SendAcceptMessage, serverVars, proposerVars
    <3>5. QED
      BY <2>1, <3>1, <3>2, <3>3, <3>4 DEF ReceiveMessage
  <2>5. DOMAIN proposedAt \subseteq DOMAIN proposedAt'
    BY <2>1 DEF NoteProposals
  <2>6. UNCHANGED <<requested, requestedAt, sendEvent, sendAt>>
    BY <1>4 DEF TimedMessageStep, clientVars
  <2>7. QED
    BY <1>1, <2>2, <2>3, <2>4, <2>5, <2>6, QueueUntouched
<1>5. CASE TimedSendRequest
  BY <1>1, <1>5, SendQueue
<1>6. ASSUME NEW s \in Server, TimedStop(s)
      PROVE  QueueParts'
  <2>1. stopped' # {}
    BY <1>6 DEF TimedStop, StopApplication
  <2>2. UNCHANGED <<requestEvents, m_waitingProposals, proposeEvents, proposeAt,
                    requested, requestedAt, sendEvent, sendAt, proposedAt>>
    BY <1>6 DEF TimedStop, StopApplication, proposerVars, clientVars
  <2>3. QED
    BY <1>1, <2>1, <2>2, QueueUntouched
<1>7. CASE UNCHANGED timedVars
  BY <1>1, <1>7, QueueUntouched
     DEF timedVars, timeVars, vars, simVars, serverVars, proposerVars, clientVars
<1>8. QED
  BY <1>2, <1>3, <1>4, <1>5, <1>6, <1>7 DEF TimedNext, TimedEnd

(***************************************************************************)
(* A slot for every request: a synchronous server proposes a request that  *)
(* has k before it within k + 1 periods of its arrival, when requests do   *)
(* not overtake one another and the queue does not drop them.              *)
(***************************************************************************)
THEOREM ProposedInTimeCorrect ==
  (/\ \A d1, d2 \in RequestDelay : d1 < d2 + m_sendInterval
   /\ MaxRequests <= QueueLimit + 1)
    => (TimedSpec => []ProposedInTime)
<1> SUFFICES ASSUME \A d1, d2 \in RequestDelay : d1 < d2 + m_sendInterval,
                    MaxRequests <= QueueLimit + 1
             PROVE  TimedSpec => []ProposedInTime
  OBVIOUS
<1>1. TimedInit => QueueInv
  BY DEF TimedInit, Init, SimInit, ServerInit, ClientInit, QueueInv, RequestsInOrder,
     NoRequestLost, WaitingInTime
<1>2. BasicInv /\ BasicInv' /\ DeadlineInv /\ QueueInv /\ [TimedNext]_timedVars => QueueInv'
  BY QueueStep
<1>3. BasicInv /\ DeadlineInv /\ QueueInv => ProposedInTime
  <2> SUFFICES ASSUME BasicInv, DeadlineInv, QueueInv, ~IsAsync,
                      NEW i \in DOMAIN requested, now < m_stopTime,
                      now > ArrivesBy(i) + Position(i) * m_proposePeriod,
                      i \notin DOMAIN proposedAt
               PROVE  FALSE
    BY DEF ProposedInTime
  <2>1. /\ TypeOK /\ ClockInv /\ Match /\ RequestsInTime /\ QueueParts
        /\ now \in Nat /\ m_stopTime \in Nat /\ m_proposePeriod \in Nat
    BY StopAssumption, IntervalTypes
       DEF BasicInv, UntimedInv, DeadlineInv, QueueInv, QueueParts, ClockInv, TimeTypeOK
  <2>2. DOMAIN requested \subseteq Nat \ {0}
    <3>1. requested \in Seq([to : Server, value : Value])
      BY <2>1 DEF TypeOK, ClientTypeOK
    <3>2. DOMAIN requested = 1 .. Len(requested) /\ Len(requested) \in Nat
      BY <3>1, LenProperties
    <3>3. QED
      BY <3>2
  <2>3. Position(i) \in Nat /\ ArrivesBy(i) \in Nat
    BY <2>1, <2>2, PositionType, ArrivesByType
  <2>4. Position(i) * m_proposePeriod \in Nat
    BY <2>1, <2>3
  <2>5. stopped = {}
    BY DEF BasicInv, ClockInv
  <2>6. i \in FreshIds /\ \A s \in Server : proposeEvents[s] > 0
    BY <2>1, <2>5 DEF QueueParts, NoRequestLost
  <2>7. ASSUME NEW r \in requestEvents, r.frame.id = i
        PROVE  FALSE
    <3>1. now <= due[r]
      BY <2>1, EventTimes DEF Pending
    <3>2. PICK d \in RequestDelay : due[r] = HandledAt(r, d)
      BY <2>1 DEF RequestsInTime
    <3>3. PICK a, b, c : a = requestedAt[i] /\ b = ArrivesBy(i) /\ c = LongestRequest
      OBVIOUS
    <3>4. /\ a \in Nat /\ b \in Nat /\ c \in Nat /\ d \in Nat /\ d <= c
          /\ b = a + c + 10
      BY <2>1, <3>3, ArrivesByType, LongestDelays
    <3>5. now <= a + d + 10
      <4>1. due[r] = a + d + 0 \/ due[r] = a + d + 10
        BY <2>7, <3>2, <3>3 DEF HandledAt, HandlingDelay
      <4>2. QED
        BY <2>1, <3>1, <3>4, <4>1
    <3>6. now <= b
      BY <2>1, <3>4, <3>5
    <3>7. QED
      BY <2>1, <2>3, <2>4, <3>3, <3>6
  <2>8. ASSUME NEW s \in Server, NEW k \in DOMAIN m_waitingProposals[s],
               m_waitingProposals[s][k].id = i
        PROVE  FALSE
    <3>1. proposeAt[s] + (k - 1) * m_proposePeriod
            <= ArrivesBy(i) + Position(i) * m_proposePeriod
      BY <2>1, <2>6, <2>8 DEF QueueParts, WaitingInTime
    <3>2. now <= proposeAt[s] /\ proposeAt[s] \in Nat
      BY <2>1, <2>6, EventTimes
    <3>3. k \in Nat /\ k >= 1
      BY <2>1, WaitingRequested, LenProperties
    <3>4. (k - 1) * m_proposePeriod \in Nat
      BY <2>1, <3>3
    <3>5. QED
      BY <2>1, <2>3, <2>4, <3>1, <3>2, <3>4
  <2>9. QED
    BY <2>6, <2>7, <2>8, FreshMember
<1>4. QED
  BY <1>1, <1>2, <1>3, BasicCorrect, DeadlineCorrect, PTL DEF TimedSpec

(***************************************************************************)
(* The theorems about SyncPaxos hold with times.                           *)
(***************************************************************************)
THEOREM TimedAgreement == TimedSpec => [](DecisionAgreement /\ DecidedByMajority)
  BY UntimedCorrect, AgreementCorrect, DecidedByMajorityCorrect, PTL DEF Untimed
================================================================================
