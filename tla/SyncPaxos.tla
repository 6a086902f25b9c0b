------------------------------ MODULE SyncPaxos -------------------------------
(***************************************************************************)
(* The whole simulation main() sets up: NumNodes servers, one client and   *)
(* the network between them, from the start of the applications until the  *)
(* event list is empty.                                                    *)
(***************************************************************************)
EXTENDS PaxosServer, PaxosClient

vars == <<simVars, serverVars, clientVars>>

Init == SimInit /\ ServerInit /\ ClientInit

ServerStep(s) ==
  /\ RequestStep(s) \/ ProposeStep(s) \/ MessageStep(s) \/ StopApplication(s)
  /\ UNCHANGED clientVars

ClientStep ==
  /\ SendRequest
  /\ UNCHANGED serverVars

\* The network loses a datagram, of a server or of the client.
NetworkStep ==
  /\ BetweenEvents
  /\ (\E e \in events : DropMessage(e)) \/ (\E r \in requestEvents : DropRequest(r))
  /\ UNCHANGED <<serverVars, clientVars>>

\* The event list is empty: Simulator::Run returns.
RunEnded ==
  /\ stopped = Server
  /\ events = {}
  /\ requestEvents = {}
  /\ \A s \in Server : proposeEvents[s] = 0
  /\ ~sendEvent

SimulationEnds ==
  /\ RunEnded
  /\ UNCHANGED vars

Next ==
  \/ \E s \in Server : ServerStep(s)
  \/ ClientStep
  \/ NetworkStep
  \/ SimulationEnds

Spec == Init /\ [][Next]_vars

(***************************************************************************)
(* The event list runs every event that is in it, because time advances:   *)
(* polls and slots are a positive time apart.  Nothing is assumed of the   *)
(* moment the applications stop, but once one has, the others do too.      *)
(***************************************************************************)
Fairness ==
  /\ \A s \in Server : /\ WF_vars(RequestStep(s) /\ UNCHANGED clientVars)
                       /\ WF_vars(ProposeStep(s) /\ UNCHANGED clientVars)
                       /\ WF_vars(MessageStep(s) /\ UNCHANGED clientVars)
  /\ \A s \in Server \ {0} : WF_vars(StopApplication(s) /\ UNCHANGED clientVars)
  /\ WF_vars(ClientStep)

FairSpec == Spec /\ Fairness
-------------------------------------------------------------------------------
(***************************************************************************)
(* Where a decision, or a vote for one, can be seen.                       *)
(***************************************************************************)
Learned(s) == ToSet(m_decidedProposalQueue[s]) \cup ToSet(decisionLog[s])

\* What is decided when proposal p of server s is.
DecisionFor(s, p) == [id |-> p.id, value |-> p.value, proposer |-> s]

\* Decisions the proposer has taken and not finished (asynchronous only).
Taken(s) == {DecisionFor(s, p) : p \in {q \in m_proposals[s] : q.decided}}

Announced ==
  {[id |-> e.frame.proposalId, value |-> e.frame.value,
    proposer |-> e.frame.proposerId] :
     e \in {x \in events : x.frame.type = "DECISION"}}

Decided == (UNION {Learned(s) \cup Taken(s) : s \in Server}) \cup Announced

\* A proposer votes for its own proposal; the others do by accepting it.
Voters(d) == {d.proposer} \cup {s \in Server : d \in m_acceptedProposals[s]}

Majority(S) == 2 * Cardinality(S) > NumNodes

\* The vote of acceptor t for proposal i is asked for and not yet counted.
VoteEvent == {e \in events : e.frame.type \in {"PROPOSAL", "ACCEPT"}}
VoterOf(e) == IF e.frame.type = "ACCEPT" THEN e.frame.acceptorId ELSE e.at
VotePending(t, i) ==
  \E e \in VoteEvent : VoterOf(e) = t /\ e.frame.proposalId = i

\* The acceptors whose vote for proposal p of server s is cast.
Cast(s, p) ==
  {t \in Server \ {s} : /\ DecisionFor(s, p) \in m_acceptedProposals[t]
                        /\ ~VotePending(t, p.id)}
-------------------------------------------------------------------------------
TypeOK == SimTypeOK /\ ServerTypeOK /\ ClientTypeOK

(***************************************************************************)
(* A decision, wherever it is (taken, on its way, learned or logged), is   *)
(* one that a majority of the servers voted for: the same id, value and    *)
(* proposer.  Acceptors record before they answer, and the counter         *)
(* m_numAck, which does not know whom it counted, counts nobody twice.     *)
(***************************************************************************)
DecidedByMajority == \A d \in Decided : Majority(Voters(d))

(***************************************************************************)
(* Agreement and validity: two servers never hold different decisions      *)
(* under one proposal id, and what they hold is what the client asked for  *)
(* with that timestamp, proposed by the server it asked.                   *)
(***************************************************************************)
DecisionAgreement ==
  \A d \in Decided :
    /\ d.id \in DOMAIN requested
    /\ d.proposer = requested[d.id].to
    /\ d.value = requested[d.id].value

(***************************************************************************)
(* A server learns a decision at most once, although votes keep arriving   *)
(* after the deciding one and the proposal has left m_proposals: no id is  *)
(* twice in its queue, in its log, or in the two together.                 *)
(***************************************************************************)
DecidedOnce ==
  \A s \in Server :
    LET q == decisionLog[s] \o m_decidedProposalQueue[s]
    IN  \A j, k \in DOMAIN q : q[j].id = q[k].id => j = k

(***************************************************************************)
(* The votes counted for a proposal are votes cast: at most its proposer   *)
(* and the acceptors that accepted it and whose ACCEPT is not on its way.  *)
(***************************************************************************)
VotesAreCast ==
  \A s \in Server : \A p \in m_proposals[s] :
    p.numAck <= 1 + Cardinality(Cast(s, p))

(***************************************************************************)
(* The asynchronous leader works on one proposal at a time: it is polling  *)
(* its queue, or it has one unfinished proposal, never both, never twice.  *)
(* Late DECISION_ACKs do not start a second chain of DoAsyncPropose.       *)
(***************************************************************************)
OneProposalAtATime ==
  IsAsync =>
    LET work == proposeEvents[Leader] + Cardinality(m_proposals[Leader])
    IN  /\ work <= 1
        /\ work = 0 => stopped # {}

(***************************************************************************)
(* The second round of the asynchronous protocol: when the leader counts a *)
(* decision as complete, a majority of the servers has learned it, the     *)
(* leader included.                                                        *)
(***************************************************************************)
CompleteOnMajority ==
  IsAsync =>
    \A d \in Learned(Leader) : Majority({s \in Server : d \in Learned(s)})

(***************************************************************************)
(* In the synchronous protocol nobody knows more than the proposer: what   *)
(* is in a server's log when all have stopped is in the proposer's log,    *)
(* too.                                                                    *)
(***************************************************************************)
ProposerLogIsComplete ==
  (~IsAsync /\ stopped = Server) =>
    \A s \in Server : \A d \in ToSet(decisionLog[s]) :
      d \in ToSet(decisionLog[d.proposer])

(***************************************************************************)
(* A server's log is in the order of the proposal ids, the order of the    *)
(* client's requests, in whatever order the decisions were learned.        *)
(***************************************************************************)
LogIsOrdered ==
  \A s \in Server : \A j, k \in DOMAIN decisionLog[s] :
    j < k => decisionLog[s][j].id < decisionLog[s][k].id

(***************************************************************************)
(* A request is in one place: on its way, waiting, proposed, or decided by *)
(* its server.  None is proposed twice or put back.                        *)
(***************************************************************************)
RequestInOnePlace ==
  \A i \in DOMAIN requested :
    LET places ==
          {<<"event", r>> : r \in {x \in requestEvents : x.frame.id = i}}
          \cup (UNION {{<<"waiting", s, k>> :
                          k \in {j \in DOMAIN m_waitingProposals[s] :
                                   m_waitingProposals[s][j].id = i}} : s \in Server})
          \cup {<<"proposed", s>> :
                  s \in {t \in Server : \E p \in m_proposals[t] : p.id = i}}
          \cup {<<"decided", s>> :
                  s \in {t \in Server : \E d \in Learned(t) : d.id = i
                                                    /\ d.proposer = t}}
    IN  Cardinality(places) <= 1

\* A decision a server has learned stays learned, in its queue or in its log.
DecisionsStay == [][\A s \in Server : Learned(s) \subseteq Learned(s)']_vars
(***************************************************************************)
(* Refinement: with the messages, the vote counters and the queues hidden, *)
(* the servers do what AbstractPaxos allows.  A request is chosen when its *)
(* proposer has counted a majority, complete or not.                       *)
(***************************************************************************)
Abstract == INSTANCE AbstractPaxos WITH
  accepted <- m_acceptedProposals,
  chosen   <- UNION {Learned(s) \cup Taken(s) : s \in Server},
  learned  <- [s \in Server |-> Learned(s)]

ImplementsAbstract == Abstract!Spec
-------------------------------------------------------------------------------
(***************************************************************************)
(* Liveness, when no datagram is lost: what a server has proposed is       *)
(* learned by every server, also when the applications stop in between.    *)
(***************************************************************************)
ProposedIsLearnedByAll ==
  \A i \in Id :
    (\E s \in Server : \E p \in m_proposals[s] : p.id = i)
      ~> (\A s \in Server : \E d \in Learned(s) : d.id = i)

(***************************************************************************)
(* A queued request is eventually learned by every server, unless the      *)
(* applications stop before it is proposed.                                *)
(***************************************************************************)
WaitingIsLearned ==
  \A i \in Id :
    (\E s \in Server : \E r \in ToSet(m_waitingProposals[s]) : r.id = i)
      ~> (stopped # {} \/ \A s \in Server : \E d \in Learned(s) : d.id = i)

(***************************************************************************)
(* A server that waits for votes does not block its own slot or the others *)
(* (synchronous protocol): lost datagrams do not keep a request waiting.   *)
(***************************************************************************)
SlotsGoOn ==
  \A i \in Id : \A s \in Server :
    (\E r \in ToSet(m_waitingProposals[s]) : r.id = i)
      ~> (stopped # {} \/ \A r \in ToSet(m_waitingProposals[s]) : r.id # i)

\* Once the applications stop, the event list empties and the run ends.
StopEndsRun == stopped # {} ~> RunEnded
-------------------------------------------------------------------------------
(***************************************************************************)
(* What documentation and comments say, and the code does not.             *)
(***************************************************************************)

\* "Set the queue length limit to 1000": no more than that many wait.
QueueWithinLimit == \A s \in Server : Len(m_waitingProposals[s]) <= QueueLimit

\* "Decided --> WaitingRequest": a leader with no proposal to finish waits.
IdleLeaderWaits ==
  (IsAsync /\ m_proposals[Leader] = {})
    => m_leaderState[Leader] = "WAITING_REQUEST"

(***************************************************************************)
(* "Proposed --> Proposing : Timeout.": a leader whose proposal is         *)
(* unfinished while nothing is on its way proposes again, unless it is     *)
(* stopped before.                                                         *)
(***************************************************************************)
TimeoutReproposes ==
  (IsAsync /\ m_proposals[Leader] # {} /\ events = {} /\ stopped = {})
    ~> (stopped # {} \/ \E e \in events : e.frame.type = "PROPOSAL")

(***************************************************************************)
(* "Request (to all servers)": then the server that can propose gets it,   *)
(* and without losses a request is learned unless the applications stop.   *)
(***************************************************************************)
RequestIsLearned ==
  \A i \in Id :
    (i \in DOMAIN requested)
      ~> (stopped # {} \/ \A s \in Server : \E d \in Learned(s) : d.id = i)
===============================================================================
