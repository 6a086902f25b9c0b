---------------------- MODULE SyncPaxosAgreement_proofs -----------------------
(***************************************************************************)
(* Agreement: whatever a server holds under a proposal id is the request   *)
(* with that timestamp.  The invariant is Match; it is inductive relative  *)
(* to type correctness.                                                    *)
(***************************************************************************)
EXTENDS SyncPaxosInv, SyncPaxosTypes_proofs

\* Proving Match after a step that makes no request.
LEMMA MatchWithoutRequest ==
  ASSUME UNCHANGED requested,
         RequestsMatch(requestEvents'),
         EventsMatch(events'),
         \A s \in Server : /\ WaitingMatch(s, m_waitingProposals'[s])
                           /\ ProposalsMatch(s, m_proposals'[s])
                           /\ DecisionsMatch(m_acceptedProposals'[s])
                           /\ DecisionsMatch(ToSet(m_decidedProposalQueue'[s]))
                           /\ DecisionsMatch(ToSet(decisionLog'[s]))
  PROVE  Match'
<1>1. ASSUME NEW i, NEW v, NEW s, Asked(i, v, s)
      PROVE  Asked(i, v, s)'
  BY <1>1 DEF Asked
<1>2. RequestsMatch(requestEvents)' /\ EventsMatch(events)'
  BY <1>1 DEF RequestsMatch, EventsMatch
<1>3. ASSUME NEW s \in Server
      PROVE  /\ WaitingMatch(s, m_waitingProposals[s])'
             /\ ProposalsMatch(s, m_proposals[s])'
             /\ DecisionsMatch(m_acceptedProposals[s])'
             /\ DecisionsMatch(ToSet(m_decidedProposalQueue[s]))'
             /\ DecisionsMatch(ToSet(decisionLog[s]))'
  BY <1>1 DEF WaitingMatch, ProposalsMatch, DecisionsMatch
<1>4. QED
  BY <1>2, <1>3 DEF Match

\* What a proposal sends and keeps is the request it was made of.
LEMMA DoProposeMatch ==
  ASSUME TypeOK, Match, NEW s \in Server, HasRequest(s),
         NEW proposals, NEW pending,
         ProposalsMatch(s, proposals), EventsMatch(pending),
         DoPropose(s, proposals, pending)
  PROVE  /\ EventsMatch(events')
         /\ \A t \in Server : /\ WaitingMatch(t, m_waitingProposals'[t])
                              /\ ProposalsMatch(t, m_proposals'[t])
<1> DEFINE q == m_waitingProposals[s]
           request == Head(q)
           proposal == [id |-> request.id, value |-> request.value,
                        numAck |-> 1, decided |-> FALSE, numDecisionAck |-> 1]
           frame == [type |-> "PROPOSAL", proposerId |-> s,
                     proposalId |-> request.id, value |-> request.value,
                     acceptorId |-> 0]
<1>1. q \in Seq(RequestFrame) /\ q # <<>> /\ WaitingMatch(s, q)
  BY DEF TypeOK, ServerTypeOK, HasRequest, Match
<1>2. /\ Len(q) \in Nat /\ Len(q) >= 1 /\ DOMAIN q = 1 .. Len(q)
      /\ Head(q) = q[1]
  BY <1>1, LenProperties, EmptySeq
<1>3. Asked(request.id, request.value, s)
  BY <1>1, <1>2 DEF WaitingMatch
<1>4. WaitingMatch(s, Tail(q))
  <2>1. /\ Len(Tail(q)) = Len(q) - 1
        /\ Tail(q) \in Seq(RequestFrame)
        /\ \A i \in 1 .. Len(Tail(q)) : Tail(q)[i] = q[i + 1]
    BY <1>1, HeadTailProperties
  <2>2. DOMAIN Tail(q) = 1 .. Len(Tail(q))
    BY <2>1, LenProperties
  <2>3. QED
    BY <1>1, <1>2, <2>1, <2>2 DEF WaitingMatch
<1>5. ProposalsMatch(s, Insert(proposals, proposal))
  BY <1>3 DEF ProposalsMatch, Insert, Erase
<1>6. EventsMatch(pending \cup Broadcast(s, frame))
  BY <1>3 DEF EventsMatch, ProposerOf, Broadcast, Datagram
<1>7. /\ events' = pending \cup Broadcast(s, frame)
      /\ m_proposals' = [m_proposals EXCEPT ![s] = Insert(proposals, proposal)]
      /\ m_waitingProposals' = [m_waitingProposals EXCEPT ![s] = Tail(q)]
  BY DEF DoPropose
<1> HIDE DEF q, proposal, frame
<1>8. QED
  BY <1>4, <1>5, <1>6, <1>7 DEF Match, TypeOK, ServerTypeOK

\* The same for the body of DoAsyncPropose.
LEMMA AsyncProposeMatch ==
  ASSUME TypeOK, Match, NEW s \in Server,
         NEW proposals, NEW pending, NEW polls,
         ProposalsMatch(s, proposals), EventsMatch(pending),
         AsyncPropose(s, proposals, pending, polls)
  PROVE  /\ EventsMatch(events')
         /\ \A t \in Server : /\ WaitingMatch(t, m_waitingProposals'[t])
                              /\ ProposalsMatch(t, m_proposals'[t])
<1>1. CASE HasRequest(s) /\ DoPropose(s, proposals, pending)
  BY <1>1, DoProposeMatch
<1>2. CASE /\ events' = pending
           /\ m_proposals' = [m_proposals EXCEPT ![s] = proposals]
           /\ UNCHANGED m_waitingProposals
  BY <1>2 DEF Match, TypeOK, ServerTypeOK
<1>3. QED
  BY <1>1, <1>2 DEF AsyncPropose

\* Match holds at the start: there is nothing yet.
LEMMA MatchInit == Init => Match
<1> SUFFICES ASSUME Init PROVE Match
  OBVIOUS
<1>1. DOMAIN <<>> = {} /\ ToSet(<<>>) = {}
  BY DEF ToSet
<1>2. requestEvents = {} /\ events = {}
  BY DEF Init, SimInit
<1>3. ASSUME NEW s \in Server
      PROVE  /\ m_waitingProposals[s] = <<>> /\ m_proposals[s] = {}
             /\ m_acceptedProposals[s] = {} /\ m_decidedProposalQueue[s] = <<>>
             /\ decisionLog[s] = <<>>
  BY DEF Init, ServerInit
<1>4. QED
  BY <1>1, <1>2, <1>3 DEF Match, RequestsMatch, EventsMatch, WaitingMatch,
     ProposalsMatch, DecisionsMatch

\* Every step keeps Match.
LEMMA MatchStep == TypeOK /\ Match /\ [Next]_vars => Match'
<1> SUFFICES ASSUME TypeOK, Match, [Next]_vars PROVE Match'
  OBVIOUS
<1>1. ASSUME NEW r \in requestEvents, ReceiveRequest(r), UNCHANGED clientVars
      PROVE  Match'
  <2>1. RequestsMatch(requestEvents')
    <3>1. requestEvents' \subseteq
            requestEvents \cup {[r EXCEPT !.fn = "CreateProposalFromRequest"]}
      BY <1>1 DEF ReceiveRequest
    <3>2. LET x == [r EXCEPT !.fn = "CreateProposalFromRequest"]
          IN  x.frame = r.frame /\ x.at = r.at
      BY DEF TypeOK, SimTypeOK, RequestEvent
    <3>3. QED
      BY <3>1, <3>2 DEF Match, RequestsMatch
  <2>2. UNCHANGED <<events, serverVars, clientVars>>
    BY <1>1 DEF ReceiveRequest
  <2>3. QED
    BY <2>1, <2>2, MatchWithoutRequest DEF Match, serverVars, acceptorVars,
       proposerVars, learnerVars, clientVars
<1>2. ASSUME NEW r \in requestEvents, r.at \in Server,
             CreateProposalFromRequest(r), UNCHANGED clientVars
      PROVE  Match'
  <2> DEFINE q == m_waitingProposals[r.at]
  <2>1. q \in Seq(RequestFrame) /\ r.frame \in RequestFrame
        /\ WaitingMatch(r.at, q) /\ Asked(r.frame.id, r.frame.value, r.at)
    BY <1>2 DEF TypeOK, SimTypeOK, ServerTypeOK, RequestEvent, Match, RequestsMatch
  <2>2. WaitingMatch(r.at, Append(q, r.frame))
    <3>1. /\ Append(q, r.frame) \in Seq(RequestFrame)
          /\ Len(Append(q, r.frame)) = Len(q) + 1
          /\ \A i \in 1 .. Len(q) : Append(q, r.frame)[i] = q[i]
          /\ Append(q, r.frame)[Len(q) + 1] = r.frame
      BY <2>1, AppendProperties
    <3>2. /\ DOMAIN Append(q, r.frame) = 1 .. Len(q) + 1
          /\ DOMAIN q = 1 .. Len(q) /\ Len(q) \in Nat
      BY <2>1, <3>1, LenProperties
    <3>3. ASSUME NEW k \in 1 .. Len(q) + 1
          PROVE  LET w == Append(q, r.frame)[k] IN Asked(w.id, w.value, r.at)
      <4>1. CASE k = Len(q) + 1
        BY <2>1, <3>1, <4>1
      <4>2. CASE k \in 1 .. Len(q)
        BY <2>1, <3>1, <3>2, <4>2 DEF WaitingMatch
      <4>3. QED
        BY <3>2, <4>1, <4>2
    <3>4. QED
      BY <3>2, <3>3 DEF WaitingMatch
  <2>3. \A s \in Server : WaitingMatch(s, m_waitingProposals'[s])
    BY <1>2, <2>2 DEF CreateProposalFromRequest, TypeOK, ServerTypeOK, Match
  <2>4. RequestsMatch(requestEvents')
    BY <1>2 DEF CreateProposalFromRequest, Match, RequestsMatch
  <2>5. UNCHANGED <<events, m_proposals, acceptorVars, learnerVars, clientVars>>
    BY <1>2 DEF CreateProposalFromRequest
  <2>6. QED
    BY <2>3, <2>4, <2>5, MatchWithoutRequest DEF Match, acceptorVars,
       learnerVars, clientVars
<1>3. ASSUME NEW s \in Server, DoSyncPropose(s), UNCHANGED clientVars
      PROVE  Match'
  <2>1. /\ EventsMatch(events')
        /\ \A t \in Server : /\ WaitingMatch(t, m_waitingProposals'[t])
                             /\ ProposalsMatch(t, m_proposals'[t])
    <3>1. CASE HasRequest(s) /\ DoPropose(s, m_proposals[s], events)
      BY <3>1, DoProposeMatch DEF Match
    <3>2. CASE UNCHANGED <<events, m_waitingProposals, m_proposals>>
      BY <3>2 DEF Match
    <3>3. QED
      BY <1>3, <3>1, <3>2 DEF DoSyncPropose
  <2>2. UNCHANGED <<requestEvents, m_acceptedProposals, m_decidedProposalQueue,
                    decisionLog, requested>>
    BY <1>3 DEF DoSyncPropose, acceptorVars, learnerVars, clientVars
  <2>3. QED
    BY <2>1, <2>2, MatchWithoutRequest DEF Match
<1>4. ASSUME NEW s \in Server, DoAsyncPropose(s), UNCHANGED clientVars
      PROVE  Match'
  <2>1. AsyncPropose(s, m_proposals[s], events, proposeEvents[s] - 1)
    BY <1>4 DEF DoAsyncPropose
  <2>2. /\ EventsMatch(events')
        /\ \A t \in Server : /\ WaitingMatch(t, m_waitingProposals'[t])
                             /\ ProposalsMatch(t, m_proposals'[t])
    BY <2>1, AsyncProposeMatch DEF Match
  <2>3. UNCHANGED <<requestEvents, m_acceptedProposals, m_decidedProposalQueue,
                    decisionLog, requested>>
    BY <1>4 DEF DoAsyncPropose, acceptorVars, learnerVars, clientVars
  <2>4. QED
    BY <2>2, <2>3, MatchWithoutRequest DEF Match
<1>5. ASSUME NEW e \in events, e.at \in Server, e.frame.type = "PROPOSAL",
             DoReceivedProposalMessage(e), UNCHANGED clientVars
      PROVE  Match'
  <2> DEFINE f == e.frame
             accepted == [id |-> f.proposalId, value |-> f.value,
                          proposer |-> f.proposerId]
             next == [at |-> e.at, fn |-> "SendAcceptMessage",
                      frame |-> [f EXCEPT !.acceptorId = e.at]]
  <2>1. f \in PaxosFrame /\ Asked(f.proposalId, f.value, f.proposerId)
    BY <1>5 DEF TypeOK, SimTypeOK, Event, Match, EventsMatch, ProposerOf
  <2>2. /\ next.frame.type = "PROPOSAL" /\ next.frame.proposalId = f.proposalId
        /\ next.frame.value = f.value /\ next.frame.proposerId = f.proposerId
    BY <1>5, <2>1 DEF PaxosFrame
  <2>3. events' = (events \ {e}) \cup {next}
    BY <1>5 DEF DoReceivedProposalMessage
  <2> HIDE DEF next
  <2>4. EventsMatch(events')
    BY <2>1, <2>2, <2>3 DEF Match, EventsMatch, ProposerOf
  <2>5. m_acceptedProposals' =
          [m_acceptedProposals EXCEPT ![e.at] = Insert(@, accepted)]
    BY <1>5 DEF DoReceivedProposalMessage
  <2>6. DecisionsMatch(Insert(m_acceptedProposals[e.at], accepted))
    BY <1>5, <2>1 DEF Match, DecisionsMatch, Insert, Erase
  <2>7. \A s \in Server : DecisionsMatch(m_acceptedProposals'[s])
    BY <1>5, <2>5, <2>6 DEF TypeOK, ServerTypeOK, Match
  <2>8. UNCHANGED <<requestEvents, proposerVars, learnerVars, clientVars>>
    BY <1>5 DEF DoReceivedProposalMessage
  <2>9. QED
    BY <2>4, <2>7, <2>8, MatchWithoutRequest DEF Match, proposerVars,
       learnerVars, clientVars
<1>6. ASSUME NEW e \in events, e.at \in Server, SendAcceptMessage(e),
             UNCHANGED clientVars
      PROVE  Match'
  <2> DEFINE f == [e.frame EXCEPT !.type = "ACCEPT", !.acceptorId = e.at]
  <2>1. e.frame \in PaxosFrame /\ e.frame.type = "PROPOSAL"
        /\ Asked(e.frame.proposalId, e.frame.value, e.frame.proposerId)
    BY <1>6 DEF TypeOK, SimTypeOK, Event, Match, EventsMatch, ProposerOf,
       SendAcceptMessage
  <2>2. f.proposalId = e.frame.proposalId /\ f.value = e.frame.value
        /\ f.proposerId = e.frame.proposerId
    BY <2>1 DEF PaxosFrame
  <2>3. events' = (events \ {e}) \cup {Datagram(f.proposerId, f)}
    BY <1>6 DEF SendAcceptMessage
  <2> HIDE DEF f
  <2>4. EventsMatch(events')
    BY <2>1, <2>2, <2>3 DEF Match, EventsMatch, ProposerOf, Datagram
  <2>5. UNCHANGED <<requestEvents, serverVars, clientVars>>
    BY <1>6 DEF SendAcceptMessage
  <2>6. QED
    BY <2>4, <2>5, MatchWithoutRequest DEF Match, serverVars, acceptorVars,
       proposerVars, learnerVars, clientVars
<1>7. ASSUME NEW e \in events, e.at \in Server, e.frame.type = "ACCEPT",
             DoReceivedAcceptMessage(e), UNCHANGED clientVars
      PROVE  Match'
  <2> DEFINE s == e.at
             f == e.frame
             known == {p \in m_proposals[s] : p.id = f.proposalId /\ f.proposerId = s}
             rest == events \ {e}
             q(p) == [p EXCEPT !.numAck = @ + 1]
             d(p) == [q(p) EXCEPT !.decided = TRUE, !.numDecisionAck = 1]
             decision(p) == [id |-> p.id, value |-> p.value, proposer |-> s]
  <2>1. f \in PaxosFrame /\ Asked(f.proposalId, f.value, f.proposerId)
    BY <1>7 DEF TypeOK, SimTypeOK, Event, Match, EventsMatch, ProposerOf
  <2>2. EventsMatch(rest) /\ EventsMatch(rest \cup SendDecisionMessage(s, f))
    BY <2>1 DEF Match, EventsMatch, ProposerOf, SendDecisionMessage, Broadcast, Datagram,
       PaxosFrame
  <2>3. /\ m_proposals[s] \subseteq Proposal
        /\ ProposalsMatch(s, m_proposals[s])
        /\ m_decidedProposalQueue[s] \in Seq(Decision)
        /\ DecisionsMatch(ToSet(m_decidedProposalQueue[s]))
    BY <1>7 DEF TypeOK, ServerTypeOK, Match
  <2>4. ASSUME NEW p \in known
        PROVE  /\ ProposalsMatch(s, Insert(m_proposals[s], q(p)))
               /\ ProposalsMatch(s, Insert(m_proposals[s], d(p)))
               /\ ProposalsMatch(s, Erase(m_proposals[s], p.id))
               /\ DecisionsMatch(ToSet(Push(m_decidedProposalQueue[s], decision(p))))
    <3>1. p \in Proposal /\ Asked(p.id, p.value, s)
      BY <2>3 DEF ProposalsMatch
    <3>2. /\ q(p).id = p.id /\ q(p).value = p.value
          /\ d(p).id = p.id /\ d(p).value = p.value
      BY <3>1 DEF Proposal
    <3>3. decision(p) \in Decision
      BY <1>7, <3>1 DEF Proposal, Decision
    <3>4. decision(p).id = p.id /\ decision(p).value = p.value
          /\ decision(p).proposer = s
      OBVIOUS
    <3> HIDE DEF q, d, decision
    <3>5. ToSet(Push(m_decidedProposalQueue[s], decision(p)))
            = ToSet(m_decidedProposalQueue[s]) \cup {decision(p)}
      BY <2>3, <3>3, PushSet
    <3>6. DecisionsMatch(ToSet(Push(m_decidedProposalQueue[s], decision(p))))
      BY <2>3, <3>1, <3>4, <3>5 DEF DecisionsMatch
    <3>7. QED
      BY <2>3, <3>1, <3>2, <3>6 DEF ProposalsMatch, Insert, Erase
  <2>5. \/ /\ events' = rest
           /\ UNCHANGED <<m_proposals, m_decidedProposalQueue>>
        \/ \E p \in known :
             \/ /\ events' = rest
                /\ m_proposals' = [m_proposals EXCEPT ![s] = Insert(@, q(p))]
                /\ UNCHANGED m_decidedProposalQueue
             \/ /\ events' = rest \cup SendDecisionMessage(s, f)
                /\ m_proposals' = [m_proposals EXCEPT ![s] = Insert(@, d(p))]
                /\ UNCHANGED m_decidedProposalQueue
             \/ /\ events' = rest \cup SendDecisionMessage(s, f)
                /\ m_proposals' = [m_proposals EXCEPT ![s] = Erase(@, p.id)]
                /\ m_decidedProposalQueue' =
                     [m_decidedProposalQueue EXCEPT ![s] = Push(@, decision(p))]
    BY <1>7, Zenon DEF DoReceivedAcceptMessage
  <2> HIDE DEF q, d, decision, known, rest
  <2>6. EventsMatch(events')
    BY <2>2, <2>5
  <2>7. \A t \in Server : ProposalsMatch(t, m_proposals'[t])
    <3>1. CASE UNCHANGED m_proposals
      BY <3>1 DEF Match
    <3>2. ASSUME NEW m, ProposalsMatch(s, m),
                 m_proposals' = [m_proposals EXCEPT ![s] = m]
          PROVE  \A t \in Server : ProposalsMatch(t, m_proposals'[t])
      BY <3>2 DEF Match, TypeOK, ServerTypeOK
    <3>3. QED
      BY <2>4, <2>5, <3>1, <3>2
  <2>8. \A t \in Server : DecisionsMatch(ToSet(m_decidedProposalQueue'[t]))
    BY <2>4, <2>5 DEF Match, TypeOK, ServerTypeOK
  <2>9. UNCHANGED <<requestEvents, m_waitingProposals, acceptorVars, decisionLog,
                    clientVars>>
    BY <1>7 DEF DoReceivedAcceptMessage
  <2>10. QED
    BY <2>6, <2>7, <2>8, <2>9, MatchWithoutRequest DEF Match, acceptorVars,
       clientVars
<1>8. ASSUME NEW e \in events, e.at \in Server, e.frame.type = "DECISION",
             DoReceivedDecisionMessage(e), UNCHANGED clientVars
      PROVE  Match'
  <2> DEFINE s == e.at
             f == e.frame
             ack == [type |-> "DECISION_ACK", proposerId |-> s,
                     proposalId |-> f.proposalId, value |-> f.value,
                     acceptorId |-> 0]
             decision == [id |-> f.proposalId, value |-> f.value,
                          proposer |-> f.proposerId]
  <2>1. f \in PaxosFrame /\ Asked(f.proposalId, f.value, f.proposerId)
    BY <1>8 DEF TypeOK, SimTypeOK, Event, Match, EventsMatch, ProposerOf
  <2>2. events' \subseteq events \cup {Datagram(f.proposerId, ack)}
    BY <1>8 DEF DoReceivedDecisionMessage
  <2>3. EventsMatch(events')
    BY <2>1, <2>2 DEF Match, EventsMatch, ProposerOf, Datagram
  <2>4. /\ decision \in Decision
        /\ m_decidedProposalQueue[s] \in Seq(Decision)
        /\ DecisionsMatch(ToSet(m_decidedProposalQueue[s]))
    BY <1>8, <2>1 DEF PaxosFrame, Decision, TypeOK, ServerTypeOK, Match
  <2>5. ToSet(Push(m_decidedProposalQueue[s], decision))
          = ToSet(m_decidedProposalQueue[s]) \cup {decision}
    BY <2>4, PushSet
  <2>6. DecisionsMatch(ToSet(Push(m_decidedProposalQueue[s], decision)))
    BY <2>1, <2>4, <2>5 DEF DecisionsMatch
  <2>7. m_decidedProposalQueue' =
          [m_decidedProposalQueue EXCEPT ![s] = Push(@, decision)]
    BY <1>8 DEF DoReceivedDecisionMessage
  <2>8. \A t \in Server : DecisionsMatch(ToSet(m_decidedProposalQueue'[t]))
    BY <2>6, <2>7 DEF Match, TypeOK, ServerTypeOK
  <2>9. UNCHANGED <<requestEvents, proposerVars, acceptorVars, decisionLog,
                    clientVars>>
    BY <1>8 DEF DoReceivedDecisionMessage
  <2>10. QED
    BY <2>3, <2>8, <2>9, MatchWithoutRequest DEF Match, proposerVars,
       acceptorVars, clientVars
<1>9. ASSUME NEW e \in events, e.at \in Server,
             DoReceivedDecisionAckMessage(e), UNCHANGED clientVars
      PROVE  Match'
  <2> DEFINE s == e.at
             known == {p \in m_proposals[s] : p.id = e.frame.proposalId}
             rest == events \ {e}
             q(p) == [p EXCEPT !.numDecisionAck = @ + 1]
             decision(p) == [id |-> p.id, value |-> p.value, proposer |-> s]
  <2>1. EventsMatch(rest)
    BY DEF Match, EventsMatch
  <2>2. /\ m_proposals[s] \subseteq Proposal
        /\ ProposalsMatch(s, m_proposals[s])
        /\ m_decidedProposalQueue[s] \in Seq(Decision)
        /\ DecisionsMatch(ToSet(m_decidedProposalQueue[s]))
    BY <1>9 DEF TypeOK, ServerTypeOK, Match
  <2>3. ASSUME NEW p \in known
        PROVE  /\ ProposalsMatch(s, Insert(m_proposals[s], q(p)))
               /\ ProposalsMatch(s, Erase(m_proposals[s], p.id))
               /\ DecisionsMatch(ToSet(Push(m_decidedProposalQueue[s], decision(p))))
    <3>1. p \in Proposal /\ Asked(p.id, p.value, s)
      BY <2>2 DEF ProposalsMatch
    <3>2. q(p).id = p.id /\ q(p).value = p.value
      BY <3>1 DEF Proposal
    <3>3. decision(p) \in Decision
      BY <1>9, <3>1 DEF Proposal, Decision
    <3>4. decision(p).id = p.id /\ decision(p).value = p.value
          /\ decision(p).proposer = s
      OBVIOUS
    <3> HIDE DEF q, decision
    <3>5. ToSet(Push(m_decidedProposalQueue[s], decision(p)))
            = ToSet(m_decidedProposalQueue[s]) \cup {decision(p)}
      BY <2>2, <3>3, PushSet
    <3>6. DecisionsMatch(ToSet(Push(m_decidedProposalQueue[s], decision(p))))
      BY <2>2, <3>1, <3>4, <3>5 DEF DecisionsMatch
    <3>7. QED
      BY <2>2, <3>1, <3>2, <3>6 DEF ProposalsMatch, Insert, Erase
  <2>4. \/ /\ events' = rest
           /\ UNCHANGED <<proposerVars, m_decidedProposalQueue>>
        \/ \E p \in known :
             \/ /\ events' = rest
                /\ m_proposals' = [m_proposals EXCEPT ![s] = Insert(@, q(p))]
                /\ UNCHANGED <<m_waitingProposals, m_leaderState, proposeEvents,
                               m_decidedProposalQueue>>
             \/ /\ m_decidedProposalQueue' =
                     [m_decidedProposalQueue EXCEPT ![s] = Push(@, decision(p))]
                /\ AsyncPropose(s, Erase(m_proposals[s], p.id), rest,
                                proposeEvents[s])
    BY <1>9, Zenon DEF DoReceivedDecisionAckMessage
  <2> HIDE DEF q, decision, known, rest
  <2>5. /\ EventsMatch(events')
        /\ \A t \in Server : /\ WaitingMatch(t, m_waitingProposals'[t])
                             /\ ProposalsMatch(t, m_proposals'[t])
    <3>1. CASE events' = rest /\ UNCHANGED proposerVars
      BY <2>1, <3>1 DEF proposerVars, Match
    <3>2. ASSUME NEW p \in known, events' = rest,
                 m_proposals' = [m_proposals EXCEPT ![s] = Insert(@, q(p))],
                 UNCHANGED m_waitingProposals
          PROVE  <2>5!1 /\ <2>5!2
      BY <1>9, <2>1, <2>3, <3>2 DEF Match, TypeOK, ServerTypeOK
    <3>3. ASSUME NEW p \in known,
                 AsyncPropose(s, Erase(m_proposals[s], p.id), rest,
                              proposeEvents[s])
          PROVE  <2>5!1 /\ <2>5!2
      BY <1>9, <2>1, <2>3, <3>3, AsyncProposeMatch
    <3>4. QED
      BY <2>4, <3>1, <3>2, <3>3
  <2>6. \A t \in Server : DecisionsMatch(ToSet(m_decidedProposalQueue'[t]))
    BY <2>3, <2>4 DEF Match, TypeOK, ServerTypeOK
  <2>7. UNCHANGED <<requestEvents, acceptorVars, decisionLog, clientVars>>
    BY <1>9 DEF DoReceivedDecisionAckMessage
  <2>8. QED
    BY <2>5, <2>6, <2>7, MatchWithoutRequest DEF Match, acceptorVars, clientVars
<1>10. ASSUME NEW s \in Server, StopApplication(s), UNCHANGED clientVars
       PROVE  Match'
  <2>1. DecisionsMatch(ToSet(<<>>))
    BY DEF DecisionsMatch, ToSet
  <2>2. \A t \in Server : /\ DecisionsMatch(ToSet(m_decidedProposalQueue'[t]))
                          /\ DecisionsMatch(ToSet(decisionLog'[t]))
    BY <1>10, <2>1 DEF StopApplication, LoggedDecisions, Match, TypeOK, ServerTypeOK
  <2>3. UNCHANGED <<requestEvents, events, proposerVars, acceptorVars, clientVars>>
    BY <1>10 DEF StopApplication
  <2>4. QED
    BY <2>2, <2>3, MatchWithoutRequest DEF Match, proposerVars, acceptorVars,
       clientVars
<1>11. ASSUME SendRequest, UNCHANGED serverVars
       PROVE  Match'
  <2>1. CASE UNCHANGED <<requested, requestEvents, events, serverVars>>
    BY <2>1, MatchWithoutRequest DEF Match, serverVars, acceptorVars,
       proposerVars, learnerVars
  <2>2. ASSUME NEW v \in Value,
               requested' = Append(requested, [to |-> NextServer, value |-> v]),
               requestEvents' = requestEvents \cup
                 {[at |-> NextServer, fn |-> "ReceiveRequest",
                   frame |-> [id |-> Len(requested) + 1, value |-> v]]}
        PROVE  Match'
    <3> DEFINE n == Len(requested) + 1
               new == [to |-> NextServer, value |-> v]
    <3>1. requested \in Seq([to : Server, value : Value])
      BY DEF TypeOK, ClientTypeOK
    <3>2. /\ Len(requested) \in Nat /\ DOMAIN requested = 1 .. Len(requested)
          /\ DOMAIN requested' = 1 .. Len(requested) + 1
          /\ \A i \in 1 .. Len(requested) : requested'[i] = requested[i]
          /\ requested'[Len(requested) + 1] = new
      BY <2>2, <3>1
    <3>3. n \in DOMAIN requested' /\ requested'[n] = new
      BY <3>2
    <3>4. ASSUME NEW i, NEW w, NEW s, Asked(i, w, s)
          PROVE  Asked(i, w, s)'
      BY <3>2, <3>4 DEF Asked
    <3>5. ASSUME NEW r \in requestEvents'
          PROVE  Asked(r.frame.id, r.frame.value, r.at)'
      <4>1. CASE r \in requestEvents
        BY <3>4, <4>1 DEF Match, RequestsMatch
      <4>2. CASE r.frame.id = n /\ r.frame.value = v /\ r.at = NextServer
        BY <3>3, <4>2 DEF Asked
      <4>3. QED
        BY <2>2, <4>1, <4>2
    <3>6. RequestsMatch(requestEvents)'
      BY <3>5 DEF RequestsMatch
    <3>7. UNCHANGED <<events, serverVars>>
      BY <1>11 DEF SendRequest
    <3>8. EventsMatch(events)'
      BY <3>4, <3>7 DEF Match, EventsMatch, ProposerOf
    <3>9. ASSUME NEW s \in Server
          PROVE  /\ WaitingMatch(s, m_waitingProposals[s])'
                 /\ ProposalsMatch(s, m_proposals[s])'
                 /\ DecisionsMatch(m_acceptedProposals[s])'
                 /\ DecisionsMatch(ToSet(m_decidedProposalQueue[s]))'
                 /\ DecisionsMatch(ToSet(decisionLog[s]))'
      BY <3>4, <3>7 DEF Match, WaitingMatch, ProposalsMatch, DecisionsMatch,
         serverVars, acceptorVars, proposerVars, learnerVars
    <3>10. QED
      BY <3>6, <3>8, <3>9 DEF Match
  <2>3. QED
    BY <1>11, <2>1, <2>2 DEF SendRequest
<1>12. ASSUME UNCHANGED <<serverVars, clientVars>>,
              events' \subseteq events, requestEvents' \subseteq requestEvents
       PROVE  Match'
  <2>1. RequestsMatch(requestEvents') /\ EventsMatch(events')
    BY <1>12 DEF Match, RequestsMatch, EventsMatch
  <2>2. QED
    BY <1>12, <2>1, MatchWithoutRequest DEF Match, serverVars, acceptorVars,
       proposerVars, learnerVars, clientVars
<1>13. QED
  <2>1. CASE UNCHANGED vars
    BY <2>1, <1>12 DEF vars, simVars
  <2>2. CASE \E e \in events : DropMessage(e) /\ UNCHANGED <<serverVars, clientVars>>
    BY <2>2, <1>12 DEF DropMessage
  <2>3. CASE \E r \in requestEvents :
               DropRequest(r) /\ UNCHANGED <<serverVars, clientVars>>
    BY <2>3, <1>12 DEF DropRequest
  <2>4. QED
    BY <1>1, <1>2, <1>3, <1>4, <1>5, <1>6, <1>7, <1>8, <1>9, <1>10, <1>11,
       <2>1, <2>2, <2>3, StepCases

\* Match holds always.
LEMMA MatchCorrect == Spec => []Match
<1>1. Init => Match
  BY MatchInit
<1>2. TypeOK /\ Match /\ [Next]_vars => Match'
  BY MatchStep
<1>3. QED
  BY <1>1, <1>2, TypeCorrect, PTL DEF Spec
-------------------------------------------------------------------------------
\* Agreement is what Match says of the places a decision can be in.
LEMMA MatchIsAgreement == Match => DecisionAgreement
<1> SUFFICES ASSUME Match, NEW d \in Decided
             PROVE  Asked(d.id, d.value, d.proposer)
  BY DEF DecisionAgreement, Asked
<1>1. CASE \E s \in Server : d \in Learned(s)
  BY <1>1 DEF Learned, Match, DecisionsMatch
<1>2. CASE \E s \in Server : d \in Taken(s)
  BY <1>2 DEF Taken, DecisionFor, Match, ProposalsMatch
<1>3. CASE d \in Announced
  BY <1>3 DEF Announced, Match, EventsMatch, ProposerOf
<1>4. QED
  BY <1>1, <1>2, <1>3 DEF Decided

(***************************************************************************)
(* Agreement and validity of the decisions, of both protocols: every       *)
(* decision taken, announced, learned or logged under a proposal id is the *)
(* client's request with that timestamp, by the server it was sent to.     *)
(***************************************************************************)
THEOREM AgreementCorrect == Spec => []DecisionAgreement
  BY MatchCorrect, MatchIsAgreement, PTL
===============================================================================
