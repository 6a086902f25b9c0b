------------------------ MODULE SyncPaxosTypes_proofs -------------------------
(***************************************************************************)
(* Type correctness of SyncPaxos, for any number of servers, either        *)
(* protocol, any queue limit, any number of requests and any losses.       *)
(***************************************************************************)
EXTENDS SyncPaxos, FiniteSetTheorems, SequenceTheorems, TLAPS

(***************************************************************************)
(* The queue of decisions.  Push keeps what is in the queue and adds one   *)
(* entry, wherever the id puts it.                                         *)
(***************************************************************************)
LEMMA PushIndex ==
  ASSUME NEW S, NEW q \in Seq(S), NEW d
  PROVE  Cardinality({k \in DOMAIN q : q[k].id <= d.id}) \in 0 .. Len(q)
<1> DEFINE K == {k \in DOMAIN q : q[k].id <= d.id}
<1>1. Len(q) \in Nat /\ DOMAIN q = 1 .. Len(q)
  BY LenProperties
<1>2. IsFiniteSet(1 .. Len(q)) /\ Cardinality(1 .. Len(q)) = Len(q)
  BY <1>1, FS_Interval
<1>3. K \in SUBSET (1 .. Len(q))
  BY <1>1
<1>4. IsFiniteSet(K) /\ Cardinality(K) <= Len(q)
  BY <1>2, <1>3, FS_Subset
<1>5. Cardinality(K) \in Nat
  BY <1>4, FS_CardinalityType
<1>6. QED
  BY <1>1, <1>4, <1>5

\* The elements of a heap after a push.
LEMMA PushElements ==
  ASSUME NEW S, NEW q \in Seq(S), NEW d \in S
  PROVE  LET n == Cardinality({k \in DOMAIN q : q[k].id <= d.id})
         IN  /\ Push(q, d) \in Seq(S)
             /\ Len(Push(q, d)) = Len(q) + 1
             /\ \A i \in 1 .. Len(q) + 1 :
                  Push(q, d)[i] = IF i <= n THEN q[i]
                                  ELSE IF i = n + 1 THEN d ELSE q[i - 1]
<1> DEFINE n == Cardinality({k \in DOMAIN q : q[k].id <= d.id})
           front == SubSeq(q, 1, n)
           back == SubSeq(q, n + 1, Len(q))
<1>1. n \in Nat /\ n <= Len(q) /\ Len(q) \in Nat
  BY PushIndex, LenProperties
<1> HIDE DEF n
<1>2. DOMAIN q = 1 .. Len(q) /\ \A i \in 1 .. Len(q) : q[i] \in S
  BY LenProperties, ElementOfSeq
<1>3. /\ front \in Seq(S)
      /\ Len(front) = n
      /\ \A i \in 1 .. n : front[i] = q[i]
  <2>1. \A i \in 1 .. n : q[i] \in S
    BY <1>1, <1>2
  <2>2. QED
    BY <1>1, <2>1, SubSeqProperties
<1>4. /\ back \in Seq(S)
      /\ Len(back) = Len(q) - n
      /\ \A i \in 1 .. Len(q) - n : back[i] = q[n + i]
  <2>1. \A i \in n + 1 .. Len(q) : q[i] \in S
    BY <1>1, <1>2
  <2>2. n + 1 \in Int /\ Len(q) \in Int
    BY <1>1
  <2>3. /\ back \in Seq(S)
        /\ Len(back) = IF n + 1 <= Len(q) THEN Len(q) - (n + 1) + 1 ELSE 0
        /\ \A i \in 1 .. Len(q) - (n + 1) + 1 : back[i] = q[(n + 1) + i - 1]
    BY <2>1, <2>2, SubSeqProperties
  <2>4. QED
    BY <1>1, <2>3
<1> HIDE DEF front, back
<1>5. Push(q, d) = (front \o <<d>>) \o back
  <2>1. Push(q, d) = InsertAt(q, n + 1, d)
    BY DEF Push, n
  <2>2. (n + 1) - 1 = n
    BY <1>1
  <2>3. QED
    BY <2>1, <2>2 DEF InsertAt, front, back
<1>6. <<d>> \in Seq(S) /\ Len(<<d>>) = 1 /\ <<d>>[1] = d
  OBVIOUS
<1>7. /\ front \o <<d>> \in Seq(S)
      /\ Len(front \o <<d>>) = n + 1
      /\ \A i \in 1 .. n + 1 :
           (front \o <<d>>)[i] = IF i <= n THEN q[i] ELSE d
  <2>1. /\ front \o <<d>> \in Seq(S)
        /\ Len(front \o <<d>>) = n + 1
        /\ \A i \in 1 .. n + 1 :
             (front \o <<d>>)[i] = IF i <= n THEN front[i] ELSE <<d>>[i - n]
    BY <1>3, <1>6, ConcatProperties
  <2>2. QED
    BY <1>1, <1>3, <1>6, <2>1
<1>8. /\ Push(q, d) \in Seq(S)
      /\ Len(Push(q, d)) = Len(q) + 1
      /\ \A i \in 1 .. Len(q) + 1 :
           Push(q, d)[i] = IF i <= n THEN q[i]
                           ELSE IF i = n + 1 THEN d ELSE q[i - 1]
  <2>1. /\ Push(q, d) \in Seq(S)
        /\ Len(Push(q, d)) = (n + 1) + (Len(q) - n)
        /\ \A i \in 1 .. (n + 1) + (Len(q) - n) :
             Push(q, d)[i] = IF i <= n + 1 THEN (front \o <<d>>)[i]
                             ELSE back[i - (n + 1)]
    <3> DEFINE left == front \o <<d>>
    <3>1. left \in Seq(S) /\ Len(left) = n + 1 /\ Push(q, d) = left \o back
      BY <1>5, <1>7
    <3> HIDE DEF left
    <3>2. /\ left \o back \in Seq(S)
          /\ Len(left \o back) = Len(left) + Len(back)
          /\ \A i \in 1 .. Len(left) + Len(back) : (left \o back)[i] =
               IF i <= Len(left) THEN left[i] ELSE back[i - Len(left)]
      BY <1>4, <3>1, ConcatProperties
    <3>3. QED
      BY <1>4, <3>1, <3>2 DEF left
  <2>2. (n + 1) + (Len(q) - n) = Len(q) + 1
    BY <1>1
  <2>3. ASSUME NEW i \in 1 .. Len(q) + 1
        PROVE  Push(q, d)[i] = IF i <= n THEN q[i]
                               ELSE IF i = n + 1 THEN d ELSE q[i - 1]
    <3>1. Push(q, d)[i] = IF i <= n + 1 THEN (front \o <<d>>)[i]
                          ELSE back[i - (n + 1)]
      BY <2>1, <2>2
    <3>2. CASE i <= n + 1
      BY <1>1, <1>7, <3>1, <3>2
    <3>3. CASE i > n + 1
      <4>1. i - (n + 1) \in 1 .. Len(q) - n /\ n + (i - (n + 1)) = i - 1
        BY <1>1, <3>3
      <4>2. QED
        BY <1>1, <1>4, <3>1, <3>3, <4>1
    <3>4. QED
      BY <1>1, <3>2, <3>3
  <2>4. QED
    BY <2>1, <2>2, <2>3
<1>9. QED
  BY <1>8 DEF n

\* Push keeps the type and adds one element.
LEMMA PushProperties ==
  ASSUME NEW S, NEW q \in Seq(S), NEW d \in S
  PROVE  /\ Push(q, d) \in Seq(S)
         /\ Len(Push(q, d)) = Len(q) + 1
         /\ ToSet(Push(q, d)) = ToSet(q) \cup {d}
<1> DEFINE n == Cardinality({k \in DOMAIN q : q[k].id <= d.id})
<1>1. n \in Nat /\ n <= Len(q) /\ Len(q) \in Nat
  BY PushIndex, LenProperties
<1>2. DOMAIN q = 1 .. Len(q) /\ \A i \in 1 .. Len(q) : q[i] \in S
  BY LenProperties, ElementOfSeq
<1>3. /\ Push(q, d) \in Seq(S)
      /\ Len(Push(q, d)) = Len(q) + 1
      /\ \A i \in 1 .. Len(q) + 1 :
           Push(q, d)[i] = IF i <= n THEN q[i]
                           ELSE IF i = n + 1 THEN d ELSE q[i - 1]
  BY PushElements
<1> HIDE DEF n
<1>4. DOMAIN Push(q, d) = 1 .. Len(q) + 1
  BY <1>3, LenProperties
<1>5. ToSet(Push(q, d)) \subseteq ToSet(q) \cup {d}
  BY <1>1, <1>2, <1>3, <1>4 DEF ToSet
<1>6. d \in ToSet(Push(q, d))
  <2>1. n + 1 \in 1 .. Len(q) + 1 /\ Push(q, d)[n + 1] = d
    BY <1>1, <1>3
  <2>2. QED
    BY <1>4, <2>1 DEF ToSet
<1>7. ASSUME NEW i \in 1 .. Len(q)
       PROVE  q[i] \in ToSet(Push(q, d))
  <2>1. CASE i <= n
    <3>1. i \in 1 .. Len(q) + 1 /\ Push(q, d)[i] = q[i]
      BY <1>1, <1>3, <2>1
    <3>2. QED
      BY <1>4, <3>1 DEF ToSet
  <2>2. CASE i > n
    <3>1. i + 1 \in 1 .. Len(q) + 1 /\ Push(q, d)[i + 1] = q[i]
      BY <1>1, <1>3, <2>2
    <3>2. QED
      BY <1>4, <3>1 DEF ToSet
  <2>3. QED
    BY <1>1, <2>1, <2>2
<1>8. QED
  BY <1>2, <1>3, <1>5, <1>6, <1>7 DEF ToSet

\* The set of a heap after a push.
LEMMA PushSet ==
  ASSUME NEW q \in Seq(Decision), NEW d \in Decision
  PROVE  ToSet(Push(q, d)) = ToSet(q) \cup {d}
  BY PushProperties
-------------------------------------------------------------------------------
(***************************************************************************)
(* The steps, one disjunct per event handler.                              *)
(***************************************************************************)
LEMMA StepCases ==
  ASSUME [Next]_vars
  PROVE  \/ \E r \in requestEvents : ReceiveRequest(r) /\ UNCHANGED clientVars
         \/ \E r \in requestEvents : /\ r.at \in Server
                                     /\ CreateProposalFromRequest(r)
                                     /\ UNCHANGED clientVars
         \/ \E s \in Server : DoSyncPropose(s) /\ UNCHANGED clientVars
         \/ \E s \in Server : DoAsyncPropose(s) /\ UNCHANGED clientVars
         \/ \E e \in events : /\ e.at \in Server /\ e.fn = "ReceiveMessage"
                              /\ e.frame.type = "PROPOSAL"
                              /\ DoReceivedProposalMessage(e)
                              /\ UNCHANGED clientVars
         \/ \E e \in events : /\ e.at \in Server
                              /\ SendAcceptMessage(e)
                              /\ UNCHANGED clientVars
         \/ \E e \in events : /\ e.at \in Server /\ e.fn = "ReceiveMessage"
                              /\ e.frame.type = "ACCEPT"
                              /\ DoReceivedAcceptMessage(e)
                              /\ UNCHANGED clientVars
         \/ \E e \in events : /\ e.at \in Server /\ e.fn = "ReceiveMessage"
                              /\ e.frame.type = "DECISION"
                              /\ DoReceivedDecisionMessage(e)
                              /\ UNCHANGED clientVars
         \/ \E e \in events : /\ e.at \in Server /\ e.fn = "ReceiveMessage"
                              /\ e.frame.type = "DECISION_ACK"
                              /\ DoReceivedDecisionAckMessage(e)
                              /\ UNCHANGED clientVars
         \/ \E s \in Server : StopApplication(s) /\ UNCHANGED clientVars
         \/ SendRequest /\ UNCHANGED serverVars
         \/ \E e \in events : DropMessage(e) /\ UNCHANGED <<serverVars, clientVars>>
         \/ \E r \in requestEvents :
              DropRequest(r) /\ UNCHANGED <<serverVars, clientVars>>
         \/ UNCHANGED vars
  BY Zenon DEF Next, ServerStep, RequestStep, ProposeStep, MessageStep, ReceiveMessage,
     ClientStep, NetworkStep, SimulationEnds
-------------------------------------------------------------------------------
(***************************************************************************)
(* Types.                                                                  *)
(***************************************************************************)
LEMMA DatagramType ==
  ASSUME NEW t \in Server, NEW f \in PaxosFrame
  PROVE  Datagram(t, f) \in Event
  BY DEF Datagram, Event, Handler

\* What is broadcast are events.
LEMMA BroadcastType ==
  ASSUME NEW s \in Server, NEW f \in PaxosFrame
  PROVE  Broadcast(s, f) \subseteq Event
  BY DatagramType DEF Broadcast

\* Erase keeps the type of a container.
LEMMA EraseType ==
  ASSUME NEW T, NEW m \in SUBSET T, NEW i
  PROVE  Erase(m, i) \in SUBSET T
  BY DEF Erase

\* Insert keeps the type of a container.
LEMMA InsertType ==
  ASSUME NEW T, NEW m \in SUBSET T, NEW x \in T
  PROVE  Insert(m, x) \in SUBSET T
  BY DEF Insert, Erase

\* DoPropose, called by both protocols.
LEMMA DoProposeType ==
  ASSUME TypeOK, NEW s \in Server, HasRequest(s),
         NEW proposals \in SUBSET Proposal, NEW pending \in SUBSET Event,
         DoPropose(s, proposals, pending)
  PROVE  /\ events' \subseteq Event
         /\ m_proposals' \in [Server -> SUBSET Proposal]
         /\ m_waitingProposals' \in [Server -> Seq(RequestFrame)]
<1> DEFINE request == Head(m_waitingProposals[s])
           proposal == [id |-> request.id, value |-> request.value,
                        numAck |-> 1, decided |-> FALSE, numDecisionAck |-> 1]
           frame == [type |-> "PROPOSAL", proposerId |-> s,
                     proposalId |-> request.id, value |-> request.value,
                     acceptorId |-> 0]
<1>1. request \in RequestFrame /\ Tail(m_waitingProposals[s]) \in Seq(RequestFrame)
  BY HeadTailProperties DEF TypeOK, ServerTypeOK, HasRequest
<1>2. 0 \in Server
  BY NumNodesAssumption DEF Server
<1>3. proposal \in Proposal /\ frame \in PaxosFrame
  BY <1>1, <1>2 DEF RequestFrame, Proposal, PaxosFrame, MessageType
<1>4. events' = pending \cup Broadcast(s, frame)
  BY DEF DoPropose
<1>5. m_proposals' = [m_proposals EXCEPT ![s] = Insert(proposals, proposal)]
  BY DEF DoPropose
<1>6. Insert(proposals, proposal) \in SUBSET Proposal
  BY <1>3, InsertType
<1>7. m_waitingProposals' = [m_waitingProposals EXCEPT ![s] = Tail(@)]
  BY DEF DoPropose
<1>8. QED
  BY <1>1, <1>3, <1>4, <1>5, <1>6, <1>7, BroadcastType DEF TypeOK, ServerTypeOK

\* DoAsyncPropose keeps the types.
LEMMA AsyncProposeType ==
  ASSUME TypeOK, NEW s \in Server, NEW polls \in Nat,
         NEW proposals \in SUBSET Proposal, NEW pending \in SUBSET Event,
         AsyncPropose(s, proposals, pending, polls)
  PROVE  /\ events' \subseteq Event
         /\ m_proposals' \in [Server -> SUBSET Proposal]
         /\ m_waitingProposals' \in [Server -> Seq(RequestFrame)]
         /\ m_leaderState' \in [Server -> LeaderState]
         /\ proposeEvents' \in [Server -> Nat]
<1>1. CASE HasRequest(s) /\ DoPropose(s, proposals, pending)
            /\ m_leaderState' = [m_leaderState EXCEPT ![s] = "PROPOSED"]
            /\ proposeEvents' = [proposeEvents EXCEPT ![s] = polls]
  BY <1>1, DoProposeType DEF TypeOK, ServerTypeOK, LeaderState
<1>2. CASE /\ events' = pending
           /\ m_proposals' = [m_proposals EXCEPT ![s] = proposals]
           /\ \/ proposeEvents' = [proposeEvents EXCEPT ![s] = polls]
              \/ proposeEvents' = [proposeEvents EXCEPT ![s] = polls + 1]
           /\ UNCHANGED <<m_waitingProposals, m_leaderState>>
  <2>1. m_proposals' \in [Server -> SUBSET Proposal]
    BY <1>2 DEF TypeOK, ServerTypeOK
  <2>2. polls + 1 \in Nat
    OBVIOUS
  <2>3. proposeEvents' \in [Server -> Nat]
    BY <1>2, <2>2 DEF TypeOK, ServerTypeOK
  <2>4. QED
    BY <1>2, <2>1, <2>3 DEF TypeOK, ServerTypeOK
<1>3. QED
  BY <1>1, <1>2 DEF AsyncPropose

(***************************************************************************)
(* Type correctness: in every reachable state every variable has its type. *)
(* In particular the client only addresses servers there are, ids stay     *)
(* within the requests made, and what handlers schedule can be handled.    *)
(***************************************************************************)
LEMMA TypeInit == Init => TypeOK
<1> SUFFICES ASSUME Init PROVE TypeOK
  OBVIOUS
<1>1. SimTypeOK
  BY DEF Init, SimInit, SimTypeOK
<1>2. ServerTypeOK
  <2>1. \A T : <<>> \in Seq(T)
    BY EmptySeq
  <2>2. QED
    BY <2>1 DEF Init, ServerInit, ServerTypeOK, LeaderState
<1>3. ClientTypeOK
  <2>1. <<>> \in Seq([to : Server, value : Value]) /\ Len(<<>>) = 0
    BY EmptySeq
  <2>2. QED
    BY <2>1, LastIdsAssumption, BoundsAssumption
       DEF Init, ClientInit, ClientTypeOK
<1>4. QED
  BY <1>1, <1>2, <1>3 DEF TypeOK

\* TypeOK is kept by every step.
LEMMA TypeStep == TypeOK /\ [Next]_vars => TypeOK'
<1> SUFFICES ASSUME TypeOK, [Next]_vars PROVE TypeOK'
  OBVIOUS
<1> USE DEF TypeOK
<1>1. ASSUME NEW r \in requestEvents, ReceiveRequest(r), UNCHANGED clientVars
      PROVE  TypeOK'
  <2>1. [r EXCEPT !.fn = "CreateProposalFromRequest"] \in RequestEvent
    BY DEF SimTypeOK, RequestEvent, RequestHandler
  <2>2. SimTypeOK'
    BY <1>1, <2>1 DEF ReceiveRequest, SimTypeOK
  <2>3. ServerTypeOK' /\ ClientTypeOK'
    BY <1>1 DEF ReceiveRequest, ServerTypeOK, ClientTypeOK, serverVars,
       acceptorVars, proposerVars, learnerVars, clientVars
  <2>4. QED
    BY <2>2, <2>3
<1>2. ASSUME NEW r \in requestEvents, r.at \in Server,
             CreateProposalFromRequest(r), UNCHANGED clientVars
      PROVE  TypeOK'
  <2>1. r.frame \in RequestFrame
    BY DEF SimTypeOK, RequestEvent
  <2>2. Append(m_waitingProposals[r.at], r.frame) \in Seq(RequestFrame)
    BY <1>2, <2>1, AppendProperties DEF ServerTypeOK
  <2>3. m_waitingProposals' \in [Server -> Seq(RequestFrame)]
    BY <1>2, <2>2 DEF CreateProposalFromRequest, ServerTypeOK
  <2>4. QED
    BY <1>2, <2>3 DEF CreateProposalFromRequest, SimTypeOK, ServerTypeOK,
       ClientTypeOK, acceptorVars, learnerVars, clientVars
<1>3. ASSUME NEW s \in Server, DoSyncPropose(s), UNCHANGED clientVars
      PROVE  TypeOK'
  <2>1. /\ events' \subseteq Event
        /\ m_proposals' \in [Server -> SUBSET Proposal]
        /\ m_waitingProposals' \in [Server -> Seq(RequestFrame)]
    <3>1. CASE HasRequest(s) /\ DoPropose(s, m_proposals[s], events)
      <4>1. m_proposals[s] \in SUBSET Proposal /\ events \in SUBSET Event
        BY DEF SimTypeOK, ServerTypeOK
      <4>2. QED
        BY <3>1, <4>1, DoProposeType
    <3>2. CASE UNCHANGED <<events, m_waitingProposals, m_proposals>>
      BY <3>2 DEF SimTypeOK, ServerTypeOK
    <3>3. QED
      BY <1>3, <3>1, <3>2 DEF DoSyncPropose
  <2>2. proposeEvents' \in [Server -> Nat]
    <3>1. proposeEvents[s] \in Nat /\ proposeEvents[s] > 0
      BY <1>3 DEF DoSyncPropose, ServerTypeOK
    <3>2. proposeEvents[s] - 1 \in Nat
      BY <3>1
    <3>3. QED
      BY <1>3, <3>2 DEF DoSyncPropose, ServerTypeOK
  <2>3. UNCHANGED <<requestEvents, stopped, m_leaderState, m_acceptedProposals,
                    m_decidedProposalQueue, decisionLog, m_lastServerId,
                    sendEvent, requested>>
    BY <1>3 DEF DoSyncPropose, acceptorVars, learnerVars, clientVars
  <2>4. QED
    BY <2>1, <2>2, <2>3 DEF SimTypeOK, ServerTypeOK, ClientTypeOK
<1>4. ASSUME NEW s \in Server, DoAsyncPropose(s), UNCHANGED clientVars
      PROVE  TypeOK'
  <2>1. /\ m_proposals[s] \in SUBSET Proposal
        /\ events \in SUBSET Event
        /\ proposeEvents[s] \in Nat
    BY DEF SimTypeOK, ServerTypeOK
  <2>2. proposeEvents[s] - 1 \in Nat
    BY <1>4, <2>1 DEF DoAsyncPropose
  <2>3. AsyncPropose(s, m_proposals[s], events, proposeEvents[s] - 1)
    BY <1>4 DEF DoAsyncPropose
  <2>4. /\ events' \subseteq Event
        /\ m_proposals' \in [Server -> SUBSET Proposal]
        /\ m_waitingProposals' \in [Server -> Seq(RequestFrame)]
        /\ m_leaderState' \in [Server -> LeaderState]
        /\ proposeEvents' \in [Server -> Nat]
    BY <2>1, <2>2, <2>3, AsyncProposeType
  <2>5. UNCHANGED <<requestEvents, stopped, m_acceptedProposals,
                    m_decidedProposalQueue, decisionLog, m_lastServerId,
                    sendEvent, requested>>
    BY <1>4 DEF DoAsyncPropose, acceptorVars, learnerVars, clientVars
  <2>6. QED
    BY <2>4, <2>5 DEF SimTypeOK, ServerTypeOK, ClientTypeOK
<1>5. ASSUME NEW e \in events, e.at \in Server, DoReceivedProposalMessage(e),
             UNCHANGED clientVars
      PROVE  TypeOK'
  <2> DEFINE f == e.frame
             accepted == [id |-> f.proposalId, value |-> f.value,
                          proposer |-> f.proposerId]
             next == [at |-> e.at, fn |-> "SendAcceptMessage",
                      frame |-> [f EXCEPT !.acceptorId = e.at]]
  <2>1. f \in PaxosFrame
    BY DEF SimTypeOK, Event
  <2>2. accepted \in Decision /\ next \in Event
    BY <1>5, <2>1 DEF PaxosFrame, Decision, Event, Handler
  <2>3. m_acceptedProposals[e.at] \in SUBSET Decision
    BY <1>5 DEF ServerTypeOK
  <2>4. Insert(m_acceptedProposals[e.at], accepted) \in SUBSET Decision
    BY <2>2, <2>3, InsertType
  <2>5. m_acceptedProposals' \in [Server -> SUBSET Decision]
    BY <1>5, <2>4 DEF DoReceivedProposalMessage, ServerTypeOK
  <2>6. events' \subseteq Event
    BY <1>5, <2>2 DEF DoReceivedProposalMessage, SimTypeOK
  <2>7. UNCHANGED <<requestEvents, stopped, proposerVars, learnerVars, clientVars>>
    BY <1>5 DEF DoReceivedProposalMessage
  <2>8. QED
    BY <2>5, <2>6, <2>7 DEF SimTypeOK, ServerTypeOK, ClientTypeOK,
       proposerVars, learnerVars, clientVars
<1>6. ASSUME NEW e \in events, e.at \in Server, SendAcceptMessage(e),
             UNCHANGED clientVars
      PROVE  TypeOK'
  <2> DEFINE f == [e.frame EXCEPT !.type = "ACCEPT", !.acceptorId = e.at]
  <2>1. f \in PaxosFrame /\ f.proposerId \in Server
    BY <1>6 DEF SimTypeOK, Event, PaxosFrame, MessageType
  <2>2. events' \subseteq Event
    BY <1>6, <2>1, DatagramType DEF SendAcceptMessage, SimTypeOK
  <2>3. UNCHANGED <<requestEvents, stopped, serverVars, clientVars>>
    BY <1>6 DEF SendAcceptMessage
  <2>4. QED
    BY <2>2, <2>3 DEF SimTypeOK, ServerTypeOK, ClientTypeOK, serverVars,
       acceptorVars, proposerVars, learnerVars, clientVars
<1>7. ASSUME NEW e \in events, e.at \in Server, DoReceivedAcceptMessage(e),
             UNCHANGED clientVars
      PROVE  TypeOK'
  <2> DEFINE s == e.at
             f == e.frame
             known == {p \in m_proposals[s] : p.id = f.proposalId /\ f.proposerId = s}
             rest == events \ {e}
             q(p) == [p EXCEPT !.numAck = @ + 1]
             d(p) == [q(p) EXCEPT !.decided = TRUE, !.numDecisionAck = 1]
             decision(p) == [id |-> p.id, value |-> p.value, proposer |-> s]
  <2>1. f \in PaxosFrame /\ [f EXCEPT !.type = "DECISION"] \in PaxosFrame
    BY DEF SimTypeOK, Event, PaxosFrame, MessageType
  <2>2. rest \subseteq Event /\ SendDecisionMessage(s, f) \subseteq Event
    BY <1>7, <2>1, BroadcastType DEF SimTypeOK, SendDecisionMessage
  <2>3. m_proposals[s] \in SUBSET Proposal
        /\ m_decidedProposalQueue[s] \in Seq(Decision)
    BY <1>7 DEF ServerTypeOK
  <2>4. ASSUME NEW p \in known
        PROVE  /\ Insert(m_proposals[s], q(p)) \in SUBSET Proposal
               /\ Insert(m_proposals[s], d(p)) \in SUBSET Proposal
               /\ Erase(m_proposals[s], p.id) \in SUBSET Proposal
               /\ Push(m_decidedProposalQueue[s], decision(p)) \in Seq(Decision)
    <3>1. p \in Proposal
      BY <2>3
    <3>2. q(p) \in Proposal
      BY <3>1 DEF Proposal
    <3>3. d(p) \in Proposal
      <4> HIDE DEF q
      <4>1. QED
        BY <3>2 DEF Proposal
    <3>4. decision(p) \in Decision
      BY <1>7, <3>1 DEF Proposal, Decision
    <3> HIDE DEF q, d, decision
    <3>5. Insert(m_proposals[s], q(p)) \in SUBSET Proposal
      BY <2>3, <3>2, InsertType
    <3>6. /\ Insert(m_proposals[s], d(p)) \in SUBSET Proposal
          /\ Erase(m_proposals[s], p.id) \in SUBSET Proposal
      BY <2>3, <3>3, InsertType, EraseType
    <3>7. Push(m_decidedProposalQueue[s], decision(p)) \in Seq(Decision)
      BY <2>3, <3>4, PushProperties
    <3>8. QED
      BY <3>5, <3>6, <3>7
  <2>5. \/ /\ events' = rest
           /\ UNCHANGED <<m_proposals, m_decidedProposalQueue>>
        \/ \E p \in known :
             \/ /\ events' = rest
                /\ m_proposals' = [m_proposals EXCEPT ![s] = Insert(@, q(p))]
                /\ UNCHANGED m_decidedProposalQueue
             \/ /\ events' = rest \cup SendDecisionMessage(s, f)
                /\ m_proposals' = [m_proposals EXCEPT ![s] = Insert(@, d(p))]
                /\ UNCHANGED m_decidedProposalQueue
             \/ /\ events' = rest \cup SendDecisionMessage(s, f)
                /\ m_proposals' = [m_proposals EXCEPT ![s] = Erase(@, p.id)]
                /\ m_decidedProposalQueue' =
                     [m_decidedProposalQueue EXCEPT ![s] = Push(@, decision(p))]
    BY <1>7, Zenon DEF DoReceivedAcceptMessage
  <2> HIDE DEF q, d, decision, known, rest
  <2>6. events' \subseteq Event
    BY <2>2, <2>5
  <2>7. m_proposals' \in [Server -> SUBSET Proposal]
    <3>1. m_proposals \in [Server -> SUBSET Proposal]
      BY DEF ServerTypeOK
    <3>2. CASE UNCHANGED m_proposals
      BY <3>1, <3>2
    <3>3. ASSUME NEW m \in SUBSET Proposal,
                 m_proposals' = [m_proposals EXCEPT ![s] = m]
          PROVE  m_proposals' \in [Server -> SUBSET Proposal]
      BY <3>1, <3>3
    <3>4. QED
      BY <2>4, <2>5, <3>2, <3>3
  <2>8. m_decidedProposalQueue' \in [Server -> Seq(Decision)]
    BY <1>7, <2>4, <2>5 DEF ServerTypeOK
  <2>9. UNCHANGED <<requestEvents, stopped, m_waitingProposals, m_leaderState,
                    proposeEvents, m_acceptedProposals, decisionLog, clientVars>>
    BY <1>7 DEF DoReceivedAcceptMessage, acceptorVars
  <2>10. QED
    BY <2>6, <2>7, <2>8, <2>9 DEF SimTypeOK, ServerTypeOK, ClientTypeOK,
       clientVars
<1>8. ASSUME NEW e \in events, e.at \in Server, DoReceivedDecisionMessage(e),
             UNCHANGED clientVars
      PROVE  TypeOK'
  <2> DEFINE s == e.at
             f == e.frame
             ack == [type |-> "DECISION_ACK", proposerId |-> s,
                     proposalId |-> f.proposalId, value |-> f.value,
                     acceptorId |-> 0]
             decision == [id |-> f.proposalId, value |-> f.value,
                          proposer |-> f.proposerId]
  <2>1. f \in PaxosFrame /\ f.proposerId \in Server /\ 0 \in Server
    BY NumNodesAssumption DEF SimTypeOK, Event, PaxosFrame, Server
  <2>2. ack \in PaxosFrame /\ decision \in Decision
    BY <1>8, <2>1 DEF PaxosFrame, MessageType, Decision
  <2>3. Datagram(f.proposerId, ack) \in Event
    BY <2>1, <2>2, DatagramType
  <2>4. m_decidedProposalQueue[s] \in Seq(Decision)
    BY <1>8 DEF ServerTypeOK
  <2>5. Push(m_decidedProposalQueue[s], decision) \in Seq(Decision)
    BY <2>2, <2>4, PushProperties
  <2>6. m_decidedProposalQueue' \in [Server -> Seq(Decision)]
    BY <1>8, <2>5 DEF DoReceivedDecisionMessage, ServerTypeOK
  <2>7. events' \subseteq Event
    BY <1>8, <2>3 DEF DoReceivedDecisionMessage, SimTypeOK
  <2>8. UNCHANGED <<requestEvents, stopped, proposerVars, acceptorVars,
                    decisionLog, clientVars>>
    BY <1>8 DEF DoReceivedDecisionMessage
  <2>9. QED
    BY <2>6, <2>7, <2>8 DEF SimTypeOK, ServerTypeOK, ClientTypeOK,
       proposerVars, acceptorVars, clientVars
<1>9. ASSUME NEW e \in events, e.at \in Server, DoReceivedDecisionAckMessage(e),
             UNCHANGED clientVars
      PROVE  TypeOK'
  <2> DEFINE s == e.at
             known == {p \in m_proposals[s] : p.id = e.frame.proposalId}
             rest == events \ {e}
             q(p) == [p EXCEPT !.numDecisionAck = @ + 1]
             decision(p) == [id |-> p.id, value |-> p.value, proposer |-> s]
  <2>1. /\ rest \in SUBSET Event
        /\ m_proposals[s] \in SUBSET Proposal
        /\ m_decidedProposalQueue[s] \in Seq(Decision)
        /\ proposeEvents[s] \in Nat
    BY <1>9 DEF SimTypeOK, ServerTypeOK
  <2>2. ASSUME NEW p \in known
        PROVE  /\ Insert(m_proposals[s], q(p)) \in SUBSET Proposal
               /\ Erase(m_proposals[s], p.id) \in SUBSET Proposal
               /\ Push(m_decidedProposalQueue[s], decision(p)) \in Seq(Decision)
    <3>1. p \in Proposal
      BY <2>1
    <3>2. q(p) \in Proposal /\ decision(p) \in Decision
      BY <1>9, <3>1 DEF Proposal, Decision
    <3> HIDE DEF q, decision
    <3>3. /\ Insert(m_proposals[s], q(p)) \in SUBSET Proposal
          /\ Erase(m_proposals[s], p.id) \in SUBSET Proposal
      BY <2>1, <3>2, InsertType, EraseType
    <3>4. Push(m_decidedProposalQueue[s], decision(p)) \in Seq(Decision)
      BY <2>1, <3>2, PushProperties
    <3>5. QED
      BY <3>3, <3>4
  <2>3. \/ /\ events' = rest
           /\ UNCHANGED <<proposerVars, m_decidedProposalQueue>>
        \/ \E p \in known :
             \/ /\ events' = rest
                /\ m_proposals' = [m_proposals EXCEPT ![s] = Insert(@, q(p))]
                /\ UNCHANGED <<m_waitingProposals, m_leaderState, proposeEvents,
                               m_decidedProposalQueue>>
             \/ /\ m_decidedProposalQueue' =
                     [m_decidedProposalQueue EXCEPT ![s] = Push(@, decision(p))]
                /\ AsyncPropose(s, Erase(m_proposals[s], p.id), rest,
                                proposeEvents[s])
    BY <1>9, Zenon DEF DoReceivedDecisionAckMessage
  <2> HIDE DEF q, decision, known, rest
  <2>4. /\ events' \subseteq Event
        /\ m_proposals' \in [Server -> SUBSET Proposal]
        /\ m_waitingProposals' \in [Server -> Seq(RequestFrame)]
        /\ m_leaderState' \in [Server -> LeaderState]
        /\ proposeEvents' \in [Server -> Nat]
    <3>1. CASE events' = rest /\ UNCHANGED proposerVars
      BY <2>1, <3>1 DEF proposerVars, ServerTypeOK
    <3>2. ASSUME NEW p \in known, events' = rest,
                 m_proposals' = [m_proposals EXCEPT ![s] = Insert(@, q(p))],
                 UNCHANGED <<m_waitingProposals, m_leaderState, proposeEvents>>
          PROVE  m_proposals' \in [Server -> SUBSET Proposal]
      BY <1>9, <2>2, <3>2 DEF ServerTypeOK
    <3>3. ASSUME NEW p \in known,
                 AsyncPropose(s, Erase(m_proposals[s], p.id), rest,
                              proposeEvents[s])
          PROVE  <2>4!1 /\ <2>4!2 /\ <2>4!3 /\ <2>4!4 /\ <2>4!5
      BY <1>9, <2>1, <2>2, <3>3, AsyncProposeType
    <3>4. QED
      BY <2>1, <2>3, <3>1, <3>2, <3>3 DEF ServerTypeOK
  <2>5. m_decidedProposalQueue' \in [Server -> Seq(Decision)]
    BY <1>9, <2>2, <2>3 DEF ServerTypeOK
  <2>6. UNCHANGED <<requestEvents, stopped, acceptorVars, decisionLog, clientVars>>
    BY <1>9 DEF DoReceivedDecisionAckMessage
  <2>7. QED
    BY <2>4, <2>5, <2>6 DEF SimTypeOK, ServerTypeOK, ClientTypeOK,
       acceptorVars, clientVars
<1>10. ASSUME NEW s \in Server, StopApplication(s), UNCHANGED clientVars
       PROVE  TypeOK'
  <2>1. \A T : <<>> \in Seq(T)
    BY EmptySeq
  <2>2. m_decidedProposalQueue[s] \in Seq(Decision)
    BY DEF ServerTypeOK
  <2>3. decisionLog' \in [Server -> Seq(Decision)]
    BY <1>10, <2>2 DEF StopApplication, LoggedDecisions, ServerTypeOK
  <2>4. m_decidedProposalQueue' \in [Server -> Seq(Decision)]
    BY <1>10, <2>1 DEF StopApplication, ServerTypeOK
  <2>5. stopped' \subseteq Server
    BY <1>10 DEF StopApplication, SimTypeOK
  <2>6. UNCHANGED <<requestEvents, events, proposerVars, acceptorVars, clientVars>>
    BY <1>10 DEF StopApplication
  <2>7. QED
    BY <2>3, <2>4, <2>5, <2>6 DEF SimTypeOK, ServerTypeOK, ClientTypeOK,
       proposerVars, acceptorVars, clientVars
<1>11. ASSUME SendRequest, UNCHANGED serverVars
       PROVE  TypeOK'
  <2>1. NextServer \in Server
    <3>1. m_lastServerId + 1 \in Int /\ NumNodes \in Nat /\ NumNodes > 0
      BY NumNodesAssumption DEF ClientTypeOK, Server
    <3>2. QED
      BY <3>1 DEF NextServer, Server
  <2>2. Len(requested) \in Nat /\ requested \in Seq([to : Server, value : Value])
    BY LenProperties DEF ClientTypeOK
  <2>3. ASSUME NEW v \in Value, Len(requested) < MaxRequests
        PROVE  /\ [at |-> NextServer, fn |-> "ReceiveRequest",
                   frame |-> [id |-> Len(requested) + 1, value |-> v]] \in RequestEvent
               /\ Append(requested, [to |-> NextServer, value |-> v])
                    \in Seq([to : Server, value : Value])
               /\ Len(Append(requested, [to |-> NextServer, value |-> v]))
                    <= MaxRequests
    <3>1. Len(requested) + 1 \in Id
      BY <2>2, <2>3, BoundsAssumption DEF Id
    <3>2. [to |-> NextServer, value |-> v] \in [to : Server, value : Value]
      BY <2>1
    <3>3. Len(Append(requested, [to |-> NextServer, value |-> v]))
            = Len(requested) + 1
          /\ Append(requested, [to |-> NextServer, value |-> v])
               \in Seq([to : Server, value : Value])
      BY <2>2, <3>2, AppendProperties
    <3>4. QED
      BY <2>1, <2>2, <2>3, <3>1, <3>3, BoundsAssumption
         DEF RequestEvent, RequestHandler, RequestFrame
  <2>4. requestEvents' \subseteq RequestEvent /\ ClientTypeOK'
    BY <1>11, <2>1, <2>3 DEF SendRequest, SimTypeOK, ClientTypeOK
  <2>5. UNCHANGED <<events, stopped, serverVars>>
    BY <1>11 DEF SendRequest
  <2>6. QED
    BY <2>4, <2>5 DEF SimTypeOK, ServerTypeOK, serverVars, acceptorVars,
       proposerVars, learnerVars
<1>12. ASSUME UNCHANGED <<stopped, serverVars, clientVars>>,
              events' \subseteq events, requestEvents' \subseteq requestEvents
       PROVE  TypeOK'
  BY <1>12 DEF SimTypeOK, ServerTypeOK, ClientTypeOK, serverVars, acceptorVars,
     proposerVars, learnerVars, clientVars
<1>13. QED
  BY <1>1, <1>2, <1>3, <1>4, <1>5, <1>6, <1>7, <1>8, <1>9, <1>10, <1>11, <1>12,
     StepCases DEF DropMessage, DropRequest, vars, simVars

\* Every reachable state is well typed: TypeOK is inductive.
THEOREM TypeCorrect == Spec => []TypeOK
  BY TypeInit, TypeStep, PTL DEF Spec
================================================================================
