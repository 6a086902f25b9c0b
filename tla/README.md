# SyncDC sync-paxos: a TLA+ verification project

This directory specifies, model-checks and proves properties of the program in
`src/sync-paxos/`: a simulation, on the ns-3 network simulator, of a replicated
log in a data centre. Five servers agree on the requests of one client, by a
*synchronous* protocol in which every server proposes in time slots of its own,
or by an *asynchronous* one in which a fixed leader proposes. Line numbers refer
to the files of that directory unless a path says otherwise.

## 1. Inventory

| component | state | operations | speaks to |
|---|---|---|---|
| client (`paxos-app-client.cc`) | `m_lastServerId`, `m_sendInterval`, a pending `SendRequest` | `SendRequest` (79-119): one request with the current time as timestamp and a random value to the next server, round robin, until the stop time | listener, by UDP |
| listener (`paxos-app-server-listener.cc`) | `m_waitingProposals` | `ReceiveRequest` (42-66, ignores requests at asynchronous followers), `CreateProposalFromRequest` (68-94, 10 ns later, queue limit) | proposer, by the queue |
| proposer (`paxos-app-server-proposer.cc`) | `m_proposals`, `m_leaderState`, a pending `DoSyncPropose` or `DoAsyncPropose` | `DoSyncPropose` (45-62, once per period), `DoAsyncPropose` (64-91, a poll every microsecond while the queue is empty), `DoPropose` (93-163) | acceptors, by PROPOSAL |
| acceptor and learner (`paxos-app-server.cc`) | `m_acceptedProposals`, `m_decidedProposalQueue`, the log file | four handlers behind `ReceiveMessage` (166-210), `SendAcceptMessage` (237-255, 10 ns after the proposal), `SendDecisionMessage` (307-335), `StopApplication` (84-110, writes the log) | each other, by ACCEPT, DECISION, DECISION_ACK |
| proposals and frames (`paxos-common.*`, `paxos-frame.*`) | fields | accessors, comparison, serialisation | |
| topology (`paxos-topology-clos.cc`) | nodes, links, addresses | set-up; interval of the client (208-217); start and stop times (225-241) | |
| main (`paxos-main.cc`) | options | set-up, `Simulator::Run` | |
| ns-3 (`src/ns-3.45`, vendored) | event list, sockets, device queues | runs one event at a time, in the order of time | all |

Nothing here is parallel: ns-3 runs one event to its end before the next. What
is hard is the *order* of events. Datagrams between two servers take a time of
their own, so that messages of one proposal, and of different proposals, arrive
in any order; votes arrive after the decision they are no longer needed for;
a poll, a slot or a request comes in between; all applications stop at one
instant, with datagrams on their way that are still delivered afterwards; and a
full device queue loses datagrams that nobody repeats. What makes each part
correct:

* client and listener: a request is queued at most once, at the server asked;
* proposer: each queued request is proposed once; a synchronous server never
  waits for votes; the asynchronous leader works on one proposal at a time, and
  goes on after each;
* acceptor: it records a proposal before its vote can be counted;
* learner: decisions stand for majorities, agree everywhere, are learned once,
  logged in order, and reach every server if no datagram is lost;
* the run: it ends after the stop time.

The network below the sockets is part of what the program runs on: each link has
a queue disc (FqCoDel, installed with the first address), a device with a queue
of its own and flow control between the two. It decides which datagrams are
lost, and in which order those of one socket arrive.

`PROJECT.json` lists the hazards, each at the line where it bites, with the
properties that catch it.

## 2. Plan, and where it stands

| stage | modules | state |
|---|---|---|
| 1. one module per component, their composition, the properties | `PaxosTypes`, `Simulator`, `PaxosServer`, `PaxosClient`, `SyncPaxos` | done |
| 2. the promise without messages, and the refinement | `AbstractPaxos` | done, and proved |
| 3. the inductive invariants and the proofs of every safety property of `SyncPaxos` | `SyncPaxosInv`, `SyncPaxos..._proofs` | done |
| 4. time: slots, polls, delays, the client's interval with its 32 bits, the stop time | `TimedPaxos`, `TimedPaxosInv`, `TimedPaxos_proofs` | done, and every safety property proved; this took in the planned module on the configuration arithmetic |
| 5. the ns-3 event list, and a link with its queues | `EventList`, `PointToPoint`, `PointToPointInv`, `Channel`, `PointToPoint_proofs` | done, and every safety property and the refinement proved |
| 6. `Serialize`/`Deserialize` of `paxos-frame.cc` | none | left out: each writes and reads the same fields in the same order, in 8 or 4 bytes, without a branch or a state; a model of it would restate it |

## 3. The modules and the code

| module | models | state |
|---|---|---|
| `PaxosTypes` | `paxos-common.*`, `paxos-frame.*`: the fields a handler reads | constants only |
| `Simulator` | the event list and the sockets, as the applications see them | `requestEvents`, `events`, `stopped` |
| `PaxosServer` | `PaxosAppServer`: listener, proposer, acceptor, learner | `m_waitingProposals`, `m_proposals`, `m_acceptedProposals`, `m_decidedProposalQueue`, `m_leaderState`, `proposeEvents`, `decisionLog` |
| `PaxosClient` | `PaxosAppClient` | `m_lastServerId`, `sendEvent`, `requested` (a history) |
| `SyncPaxos` | `main` and the topology: everything together; the untimed properties | |
| `TimedPaxos` | the same, with the times of the code | `now`, `due`, `proposeAt`, `sendAt`, `m_stopTime`; histories `requestedAt`, `proposedAt` |
| `AbstractPaxos` | the promise of the protocols | `requested`, `accepted`, `chosen`, `learned` |
| `EventList` | `DefaultSimulatorImpl`: keys, insertion, order | `m_events`, `m_uid`, `m_currentTs`, `m_currentUid` |
| `PointToPoint` | one direction of a link: traffic control, queue disc, flow control, device, channel, with the stop events in the same event list | `flows`, `m_running`, `quota`, `m_stoppedByDevice`, `m_queue`, `m_txMachineState`, `appsStopped`; histories `sent`, `received`, `lost` |
| `Channel` | what a link promises its flows | `sent`, `received`, `lost` |
| `SyncPaxosInv`, `TimedPaxosInv`, `PointToPointInv` | the inductive invariants of the three | |
| `MCSyncPaxos`, `MCTimedPaxos` | the instances for TLC; the second has the link delays of `main` | |

How state corresponds to the code:

* An element of `events` or `requestEvents` is a pending ns-3 event that carries
  a frame: a datagram on its way (`fn` is `ReceiveMessage` or `ReceiveRequest`)
  or a handler scheduled with a delay (`SendAcceptMessage`,
  `CreateProposalFromRequest`, both 10 ns later). A set stands for the list: a
  datagram sent a second time would, in some order of events, be sent after the
  first was consumed, and the runs would show what it does.
* `ReceiveMessage` calls its handler with `Simulator::ScheduleNow`. The model
  makes the two one action: everything that could run between them, at the same
  instant, touches the state as well before the first.
* `Simulator::Now() >= m_stopTime` is `PastStopTime`. All applications stop at
  one instant, and their `StopApplication` events, inserted when the nodes are
  initialised, precede all others of that instant; so they run one after the
  other, in node order, with nothing in between (`BetweenEvents`). This is no
  longer an assumption: `StopsFirst` shows it of the event list with its
  insertion numbers, and `StopIsTimed` that the two tests agree.
* A `Proposal` object of the code passes through three containers. The model
  keeps, in each, the fields that are read there: `numAck`, `decided` (the
  decision time is not zero) and `numDecisionAck` in `m_proposals`, id, value and
  proposer elsewhere. `unordered_map` is a set with at most one entry per id
  (`Insert`, `Erase`); the min-heap is a sequence in the order it pops (`Push`).
* A request's timestamp is its index: one client and a positive interval make
  timestamps distinct and increasing (`TimestampsIncrease`).
* `m_lastServerId` is set by no constructor: `ClientInit` chooses any server.
* Each handler is one action, with its early returns as disjuncts.
* `TimedPaxos` extends `SyncPaxos` and conjoins to each action the time of the
  event it runs (`RunsAt`) and the times of those it inserts (`Schedule`). Times
  are nanoseconds from the start of the applications; among events of one time,
  other than the stop events, any may be first.
* In `PointToPoint` one step is one event, but for the loop `QueueDisc::Run`, whose
  turns are steps (`Restart`) with no event in between. A flow is a queue of
  FqCoDel. `DequeuePacket` and `Transmit` test `IsStopped` with nothing in between,
  so that no packet is ever requeued, and `m_requeued` is left out.

Operators named `Bug...` are not part of the specification: each is a mutation of
the definition after it, a mistake that code could plausibly have, and each
property is shown to fail with one of them (`PROJECT.json`, `mutants`).

## 4. Runs, bounds and what they show

| cfg | instance | states | shows |
|---|---|---|---|
| `MCSync3` | synchronous, 3 servers, 2 requests, 2 values | 407k | majorities, agreement, decided once, logs ordered and complete at the proposer, refinement |
| `MCAsync3` | asynchronous, 3 servers, 4 requests, limit 0 | 355k | one proposal at a time, a request in one place, refinement |
| `MCAsync4Lossy` | asynchronous, 4 servers, 1 request, losses | 29k | the votes of both rounds, the inductive invariant, with an even number of servers |
| `MCSync2Lossy` | synchronous, 2 servers, 3 requests, losses, limit 0 | 39k | slots go on without votes, the run ends |
| `MCAsync2Live` | asynchronous, 2 servers, 5 requests, no losses, any first server | 15k | what is queued or proposed is learned by all |
| `MCTimedSync3` | synchronous with times, 3 servers, 4 requests, D = 10 ms, e = 10 ns, three stop times | 29k | slots, deadlines of proposing, learning and ending, refinement of `SyncPaxos` with its fairness |
| `MCPointToPoint` | 2 flows of 5 packets, a device queue of 2 and a queue disc of 3, quota 2, 2 applications | 48k | flow control, order and delivery on a link, stop events |
| `Find...` | the smallest that shows it | | the five disagreements of section 6 |

Why the bounds are enough. Three servers are the least with a majority that is
neither one nor all of them, so that a vote comes after the deciding one; four
are the least even number where half is a quorum of others; two suffice where
the point is a server that gets no vote. Two requests give two proposals in
every relative order, of different proposers in the synchronous protocol; the
asynchronous leader sees one request in `NumNodes`, so that four give three
servers' leader two and five give two servers' leader two or three, one waiting
while the other is decided. A limit of 0 or 1 stands for 1000: the code
compares it with the length once, and the queue reaches it. `MaxRequests` bounds
the client, which may also be stopped before (any time is the stop time).
`LastServerIds` is fixed where the servers are otherwise alike. Values can be
exchanged (`ValueSymmetry`); servers are numbers and cannot.

In `MCTimedSync3` a message takes either the time of four hops of `main`'s links or
all of `D`, and the client's ten requests a `D` meet slots that serve one server
each; the three stop times fall inside a slot, at the very time of a slot event
(30000060) and after everything is decided. Four requests give every server one
and the first a second, which waits a period. `Word` is 2147483647, the largest
integer of TLC, for 2^32: no interval of these runs reaches either. In
`MCPointToPoint` a queue of two stands for the device's 100 packets, one of three for
the queue disc's 10240, a quota of two for 64; packets come at the same time, faster
and slower than the link transmits. A queue disc of three has every way to drop:
CoDel drops at the head; a flow that alone fills the disc, whose CoDel queue has the
same limit, loses the packet that comes; and when two flows share the full disc up
to two of the oldest packets of one go. Five packets are the least with which one
flow can fill the disc behind a device that is full.

## 5. Fairness

`FairSpec` has weak fairness for each server's requests, messages and propose
events, for the client and for the stop events that follow the first. The code
justifies it: every pending event has a finite time, time advances (polls,
slots and requests are a positive time apart), and ns-3 runs every event it
reaches. That this is so is checked, not only argued: `TimedFairSpec` assumes
nothing but that `Simulator::Run` takes the next event as long as there is one,
and `UntimedFairness` shows the fairness of `FairSpec` to follow from it and the
times. With a period of zero (a mutant) it does not: time stands still.
`LinkFairSpec` assumes the same of the link's event list.
Nothing is assumed of the moment the applications stop, nor of the
network: a datagram may always be lost where `Lossy` holds, and none has to be.
Liveness that needs every datagram is checked with `Lossy = FALSE`; `AllArrive`
and `ImplementsChannel` say of a link which ones it does not lose.

## 6. Findings

Each is a run that TLC ends with a counterexample.

* `FindQueueLimit`: the waiting queue holds one more than the "limit to 1000" of
  listener.cc:70, because the length is tested before the push.
* `FindLeaderState`: `m_leaderState` stays `PROPOSED` after a proposal is complete;
  asyn-leader.puml:11 says `Decided --> WaitingRequest`.
* `FindTimeout`: the timer of asyn-leader.puml:7 is commented out (proposer.cc:82);
  the asynchronous leader that loses its votes never proposes again.
* `FindRequest`: the client sends a request to one server, not "to all servers"
  (README.md:24, in a diagram titled `Synchronous Paxos System`; config.yaml:10 says
  `RoundRobin`, as the code does), and asynchronous followers ignore it.
* `FindSlot`: `m_boundedMessageDelay` is the "Maximum message delay"
  (paxos-app-server.h:120) and main.cc:76-77 wants the links to keep it, but the
  batch's bound of 5us is less than the 22.5us a message takes over four 5us hops;
  nothing compares the two.

Observed on the way, and not disagreements with any text: the client's interval
is a 32-bit integer quotient, zero for a bound below 10 ns (5 ns with
`linkDelay`) and reduced modulo 2^32 ns above 42.9 s, and with an interval of zero
time never advances; a synchronous client sends ten requests in one bound, and each
slot serves one, so that queues grow to their limit in a long run; `config.yaml`
describes a client with a period of 10 us that no code reads.

## 7. Proofs

Of `SyncPaxos`, for every number of servers, either protocol, any queue limit,
values, number of requests and first server, with or without losses, from the
assumptions on the constants in `PaxosTypes` alone:

* `TypeCorrect`: `TypeOK` is inductive. The one part that needs an argument is the
  heap: `PushProperties` shows that inserting at the counted position keeps the
  sequence and adds one element.
* `AgreementCorrect`: agreement and validity. It is not inductive, since a decision
  is copied from a frame that was copied from another. `Match` says of *every*
  place an id can be (both event sets, the queue, the three containers, the
  log) that value and proposer are those of the request with that timestamp;
  it is inductive relative to `TypeOK`, and implies `DecisionAgreement`.
* `VotingCorrect`, `DecidedByMajorityCorrect`, `VotesAreCastCorrect`: majorities.
  `m_numAck` is a number without names, so the invariant must say why it counts
  nobody twice. `VotesWellFormed`: for an acceptor and a proposal at most one event
  is pending, the PROPOSAL, the scheduled `SendAcceptMessage` or the ACCEPT,
  never the proposer's own, and recorded from the second stage on.
  `VotesAreCast`: the count is at most one plus the acceptors that have recorded
  and have nothing pending; an ACCEPT consumed moves its sender into that set
  (`VoteCounted`). `WaitingFresh` and `RequestsFresh`: no vote is out for a request that is
  not proposed yet, so that a proposal asks everyone for the first time
  (`ProposeVotes`). `AcksFollowDecisions` gives the majority when the asynchronous
  leader learns on DECISION_ACKs. `Match` makes `Insert` overwrite an accepted
  proposal only with itself, so that recorded votes stay (`AcceptedGrows`).
  `EnoughIsMajority` is the integer division.
* `DecidedOnceCorrect`, `RequestInOnePlaceCorrect`, `LogIsOrderedCorrect`,
  `ProposerLogCorrect`, `DecisionsStayCorrect`: learning. `LearningInv` follows an id
  through requests, queues, `m_proposals`, DECISIONs and logs and says that it is
  in one of them only, per server. Its part `LearningOK(F, E, P, L)` has the
  unproposed ids, the events, the proposals and the learned ids as parameters,
  so that a handler which decides and sends, or proposes and broadcasts, is
  taken in two steps with a state between them that the program never shows.
  `LogsOK` is the order and the form of queue and log. `SlotLogInv` adds that the
  synchronous proposer has learned what it announced.
* `OneProposalCorrect`, `CompleteOnMajorityCorrect`: the second round, from
  `SecondRoundInv`: only the leader proposes, it has one job (`OneJob`), a
  DECISION_ACK is of a server that has learned the decision and is counted once
  (`AcksWellFormed`, `AcksCounted`).
* `RefinementCorrect`: `Spec => ImplementsAbstract`. Each handler, seen through the
  mapping, is quiet, or accepts, chooses, learns or completes one proposal;
  `ChosenInv` says that what is learned stays chosen when the proposer
  erases it.

Of `TimedPaxos`:

* `UntimedCorrect`: a timed behaviour is one of `SyncPaxos`, so that all of the above
  holds with times (`TimedAgreement` is one instance). The step that needs the
  clock is the guard on the stop (`StopIsTimedCorrect`).
* `TimesCorrect`: `TimeTypeOK`, the part of it that matters being `Earliest(now)`:
  nothing pending is ever due before the present.
* `TimestampsCorrect`, under the hypothesis that the interval is positive.
* `SlotsCorrect`, under the hypothesis that every message takes *less* than
  `2 * clockSyncError + boundedMessageDelay`. It is needed: with an error of zero and
  a message that takes all of the bound, the next slot's event may come first.
  `SlotInv` says that slots of different servers stay a slot apart, also across
  the end of a period.

* `EndsInTimeCorrect`, without a hypothesis: `DeadlineInv` bounds each pending event.
  `MessagesInTime` gives every message of a proposal its latest time, counted from the
  proposal in message delays, the kind of the message telling how many came before
  it (`LatestAfter`); `ProposedOnce` and `TimersInTime`: no proposal, slot, poll or
  request is made from the stop time on.
* `LearnedInTimeCorrect`, for two servers or more (a server alone asks nobody, and
  decides only when a vote arrives). Two facts make it: a message later than its
  time cannot be pending (`DeadlineInv`), and a proposal for which nothing is pending
  cannot be undecided. The second is `AnswerInv`, the counterpart of the vote
  counting above: there a count is at most, here at least, one plus the acceptors
  that have answered. So if all have answered there are enough votes, and
  `DecisionComes` follows the decision to every log.
* `DoneBeforeNextSlotCorrect`, for two servers or more and messages with twice
  their delay and 10 ns less than a period. Both are needed: a vote that takes longer
  finds the next proposal made. A period is `NumNodes` slots, each at least as wide as
  `m_boundedMessageDelay`, so with three servers or more messages within that bound
  satisfy the hypothesis. The batch's shortest bound is 5 us and a message takes
  22.5 us on `main`'s links (`FindSlot`): the theorem says nothing of such a run.
  `LastSlotOnly` says when the one unfinished proposal was made.
* `ProposedInTimeCorrect`, under two hypotheses. Requests do not overtake one another:
  `d1 < d2 + m_sendInterval` for any two delays. The requests of one server take
  one path, which keeps their order (`Channel`); without the hypothesis a late one
  finds earlier places taken. And `MaxRequests <= QueueLimit + 1`, so that the queue,
  which keeps one more than its limit (`FindQueueLimit`), drops none: a dropped
  request is never proposed. With it no position in the queue is assumed; the
  invariant `QueueInv` says that queues are in the order of sending
  (`RequestsInOrder`), that no request is lost between client and proposal
  (`NoRequestLost`), and that the k-th that waits has at least k slots' time left
  (`WaitingInTime`).

Of `PointToPoint`, for any sizes, quota, delays, flows, applications and number of
packets:

* `LinkTypeCorrect`: the types, that pending events have different numbers
  (`ListInv`, from `InsertedNumbers`), and that none is in the past.
* `DeviceHasRoomCorrect`, `NeverStallsCorrect`: flow control. `DeviceInv`: at most one
  wake-up is pending, at the present time and before the device is done, so that
  a stopped queue lacks at most one packet. `RunInv`: a run of the queue disc
  has one packet to send, or room for one; so it never makes two turns that leave
  it with work, and the quota, whose end nobody would notice, is never used up.
* `StopsFirstCorrect`: the insertion numbers of the stop events are the least.
* `ChannelCorrect`: `LinkSpec => ImplementsChannel`, each flow in order and once.
  `FlowInv` says where the packets of a flow are that have neither arrived nor been
  dropped: on the channel, in the device, in the queue disc, in this order, and
  they are all those after the last one received that are not lost (`Stream`).
  What a handler does to a flow is one of six moves of a `Stream` (`StreamSend`,
  `StreamRefuse`, `StreamLose`, `StreamQueue`, `StreamTransmit`, `StreamArrive`), or two
  in a row when a packet finds the device ready or the disc over its limit.
  `StreamRefuse` is the packet that finds its flow full: the newest is lost, while
  older ones of the flow are on their way. `ReceiveInv` gives the order on the channel:
  a transmission that starts later has a later key in the event list. That the
  device has room (above) is needed: a full device would drop a packet after it
  left the queue disc.

Only model-checked: all liveness (`ProposedIsLearnedByAll`, `WaitingIsLearned`,
`SlotsGoOn`, `StopEndsRun`, `Terminates`, `UntimedFairness`, `AllArrive`), which is beyond
the prover, as are `ENABLED`, induction over data and recursive operators (there
are none here). Every safety property and every refinement that a run checks is a
theorem.

## 8. Not modelled, and why

* ns-3 beyond what the program uses and beyond one link: `src/ns-3.45` is a vendored
  copy of the whole simulator, more than 99 % of the lines of this repository
  (wireless, LTE, routing protocols, TCP, bindings, examples, tests). The program
  calls none of it, so a share of the repository's lines says little here:
  of the program's own files every function with a state change is modelled.
* Of the link: the order in which FqCoDel serves flows (any) and when CoDel drops
  (whenever it may), byte counts, and the IP layer; a node forwards a datagram by
  handing it to its next link, so that the order of a flow along a path is that
  of its links. `PointToPoint` and `SyncPaxos` are not composed into one module:
  what `SyncPaxos` assumes is less than what a link promises (any order, any
  loss where `Lossy`).
* Several threads, `Cancel`, `Remove` and `Simulator::Stop` of the event list: the program
  uses none of them.
* Clock errors: the servers read one simulated clock; `clockSyncError` only
  widens the slots, as in `TimedPaxos`.
* Dead code: `proposeTimerExpired`, `StopListenerThread`, `StopProposerThread` have no
  caller. `lossRate`, `failureRate` and `configFilePath` are read and have no
  effect. Nobody reads `m_propState`.
* The client's `StopApplication` closes its socket; its `SendRequest` sends nothing
  from that instant on, so no state depends on it.
* Serialisation (section 2), logging, plots, scripts and the build.
