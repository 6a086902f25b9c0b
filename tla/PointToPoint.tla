----------------------------- MODULE PointToPoint ------------------------------
(***************************************************************************)
(* One direction of an ns-3 link, with what is installed above it: the     *)
(* traffic control layer and its queue disc (FqCoDel), the flow control    *)
(* between queue disc and device, the device with its drop-tail queue, and *)
(* the channel.  Sockets hand packets to it in events of their own; the    *)
(* applications' stop events are in the same event list.                   *)
(*                                                                         *)
(* QueueDisc::Run is a loop within one event.  The model makes each turn   *)
(* of it a step (Restart); no event runs before it ends (m_running).       *)
(* DequeuePacket and Transmit test IsStopped with nothing in between, so   *)
(* that no packet is ever requeued, and m_requeued is left out.            *)
(***************************************************************************)
EXTENDS EventList, FiniteSetsExt, SequencesExt

CONSTANTS
  Flow,        \* flows that use the link: a queue of the queue disc each
  MaxSize,     \* of the device queue (100 packets)
  Limit,       \* MaxSize of the queue disc (10240 packets)
  m_quota,     \* turns of QueueDisc::Run (64)
  CoDelDrops,  \* whether the CoDel queue of a flow may drop packets
  TxTime,      \* the time to transmit a packet
  Delay,       \* of the channel
  Gaps,        \* the times between two packets of a flow
  MaxPackets,  \* bound: the packets sent of each flow
  NumApps,     \* applications, each with a stop event
  StopTime     \* m_stopTime of all of them

ASSUME SizeAssumption ==
  MaxSize \in Nat \ {0} /\ Limit \in Nat \ {0} /\ m_quota \in Nat \ {0}
ASSUME DropsAssumption == CoDelDrops \in BOOLEAN
ASSUME TimesAssumption ==
  /\ TxTime \in Nat \ {0} /\ Delay \in Nat /\ Gaps \subseteq Nat /\ StopTime \in Nat
  /\ MaxPackets \in Nat \ {0} /\ NumApps \in Nat
ASSUME FlowAssumption == IsFiniteSet(Flow)

VARIABLES
  flows,              \* the packets of each flow in the queue disc
  m_running,          \* QueueDisc::Run is in its loop
  quota,              \* the turns it has left
  m_stoppedByDevice,  \* NetDeviceQueue: the queue disc must not send
  m_queue,            \* the device's queue
  m_txMachineState,
  appsStopped,        \* how many stop events have run
  sent,               \* history: how many packets of each flow were sent
  received,           \* history: the packets of each flow that arrived,
  lost                \* history: and those the queue disc dropped

discVars   == <<flows, m_running, quota>>
deviceVars == <<m_stoppedByDevice, m_queue, m_txMachineState>>
linkVars   == <<listVars, discVars, deviceVars, appsStopped, sent, received, lost>>

Packet   == [flow : Flow, n : 1 .. MaxPackets]
NoPacket == [flow |-> "none", n |-> 0]

Function == {"Send", "TransmitComplete", "Receive", "Wake", "Stop"}

Call(delay, fn, arg) == [delay |-> delay, fn |-> fn, arg |-> arg]

\* How many packets the queue disc holds, and whether it holds any.
Backlog    == FoldSet(LAMBDA f, n : n + Len(flows[f]), 0, Flow)
HasBacklog == \E f \in Flow : flows[f] # <<>>
--------------------------------------------------------------------------------
(***************************************************************************)
(* The stop events were inserted when the applications were initialised,   *)
(* before any of the events that send packets.                             *)
(***************************************************************************)
StopEvents == {[ts |-> StopTime, uid |-> a, fn |-> "Stop", arg |-> NoPacket] :
                 a \in 1 .. NumApps}

FirstSend(f, u) ==
  [ts |-> 0, uid |-> u, fn |-> "Send", arg |-> [flow |-> f, n |-> 1]]

LinkInit ==
  /\ \E order \in Bijection(Flow, NumApps + 1 .. NumApps + Cardinality(Flow)) :
       m_events = StopEvents \cup {FirstSend(f, order[f]) : f \in Flow}
  /\ m_uid = NumApps + Cardinality(Flow) + 1
  /\ m_currentTs = 0
  /\ m_currentUid = 0
  /\ flows = [f \in Flow |-> <<>>]
  /\ m_running = FALSE
  /\ quota = 0
  /\ m_stoppedByDevice = FALSE
  /\ m_queue = <<>>
  /\ m_txMachineState = "READY"
  /\ appsStopped = 0
  /\ sent = [f \in Flow |-> 0]
  /\ received = [f \in Flow |-> <<>>]
  /\ lost = [f \in Flow |-> {}]
--------------------------------------------------------------------------------
(***************************************************************************)
(* Device.  Mutation: the test for room forgets the packet to come.        *)
(***************************************************************************)
BugRoomForOneMore(q) == Len(q) > MaxSize

\* No room for one packet more: the device queue counts packets.
WouldOverflow(q) == Len(q) + 1 > MaxSize

\* The calls of TransmitStart, at the device and at the channel.
TransmitStart(p) ==
  <<Call(TxTime, "TransmitComplete", NoPacket), Call(TxTime + Delay, "Receive", p)>>

\* Mutation: the lambda of PacketDequeued is not scheduled.
BugNoWake(q) == TransmitStart(Head(q))

\* Dequeue's trace PacketDequeued schedules the wake-up; then TransmitStart.
SendHead(q) == <<Call(0, "Wake", NoPacket)>> \o TransmitStart(Head(q))

(***************************************************************************)
(* PointToPointNetDevice::Send, called by the queue disc: a packet that    *)
(* finds no room is discarded; one that fills the queue stops it.          *)
(***************************************************************************)
DeviceSend(p) ==
  LET q == Append(m_queue, p)
  IN  \/ /\ Len(m_queue) + 1 > MaxSize
         /\ m_stoppedByDevice' = TRUE
         /\ Schedule(<<>>)
         /\ UNCHANGED <<m_queue, m_txMachineState>>
      \/ /\ Len(m_queue) + 1 <= MaxSize
         /\ m_stoppedByDevice' = (m_stoppedByDevice \/ WouldOverflow(q))
         /\ \/ /\ m_txMachineState = "READY"
               /\ m_queue' = Tail(q)
               /\ m_txMachineState' = "BUSY"
               /\ Schedule(SendHead(q))
            \/ /\ m_txMachineState = "BUSY"
               /\ m_queue' = q
               /\ Schedule(<<>>)
               /\ UNCHANGED m_txMachineState

TransmitComplete(e) ==
  /\ e.fn = "TransmitComplete"
  /\ \/ /\ m_queue = <<>>
        /\ m_txMachineState' = "READY"
        /\ ProcessOneEvent(e, <<>>)
        /\ UNCHANGED m_queue
     \/ /\ m_queue # <<>>
        /\ m_queue' = Tail(m_queue)
        /\ m_txMachineState' = "BUSY"
        /\ ProcessOneEvent(e, SendHead(m_queue))
  /\ UNCHANGED <<discVars, m_stoppedByDevice, appsStopped, sent, received, lost>>

\* The other end hands the packet to its node.
Receive(e) ==
  /\ e.fn = "Receive"
  /\ received' = [received EXCEPT ![e.arg.flow] = Append(@, e.arg.n)]
  /\ ProcessOneEvent(e, <<>>)
  /\ UNCHANGED <<discVars, deviceVars, appsStopped, sent, lost>>
--------------------------------------------------------------------------------
(***************************************************************************)
(* Queue disc.                                                             *)
(***************************************************************************)
RunBegin ==
  /\ m_running' = TRUE
  /\ quota' = m_quota

\* The scheduled lambda of PacketDequeued: room again, Wake calls Run.
Wake(e) ==
  /\ e.fn = "Wake"
  /\ ProcessOneEvent(e, <<>>)
  /\ \/ /\ WouldOverflow(m_queue)
        /\ UNCHANGED <<m_stoppedByDevice, m_running, quota>>
     \/ /\ ~WouldOverflow(m_queue)
        /\ m_stoppedByDevice' = FALSE
        /\ \/ m_stoppedByDevice /\ RunBegin
           \/ ~m_stoppedByDevice /\ UNCHANGED <<m_running, quota>>
  /\ UNCHANGED <<flows, m_queue, m_txMachineState, appsStopped, sent, received, lost>>

\* The k oldest packets of flow f leave the queue disc, the last of them to
\* the device if it is dequeued and not dropped.
TakeHeads(queues, f, k) == [queues EXCEPT ![f] = SubSeq(@, k + 1, Len(@))]
LoseHeads(queues, f, k) == [lost EXCEPT ![f] = @ \cup ToSet(SubSeq(queues[f], 1, k))]

\* CoDelQueueDisc::DoEnqueue: the queue of a flow has the limit of the disc.
FlowFull(f) == Len(flows[f]) + 1 > Limit

(***************************************************************************)
(* FqCoDelQueueDisc::DoEnqueue: a flow that fills the disc alone loses the *)
(* packet that comes; when the disc is over its limit afterwards, up to    *)
(* half of a flow is dropped, its oldest packets.  (It is the flow with    *)
(* the most bytes; sizes are abstracted.)                                  *)
(***************************************************************************)
Enqueue(p) ==
  LET added == [flows EXCEPT ![p.flow] = Append(@, p.n)]
  IN  \/ /\ FlowFull(p.flow)
         /\ lost' = [lost EXCEPT ![p.flow] = @ \cup {p.n}]
         /\ UNCHANGED flows
      \/ /\ ~FlowFull(p.flow)
         /\ Backlog + 1 <= Limit
         /\ flows' = added
         /\ UNCHANGED lost
      \/ /\ ~FlowFull(p.flow)
         /\ Backlog + 1 > Limit
         /\ \E f \in Flow :
              \E k \in 1 .. (Len(added[f]) + 1) \div 2 :
                /\ flows' = TakeHeads(added, f, k)
                /\ lost' = LoseHeads(added, f, k)

(***************************************************************************)
(* A socket sends its next packet: TrafficControlLayer::Send queues it and *)
(* runs the queue disc.  The socket's later packets are scheduled.         *)
(***************************************************************************)
Send(e) ==
  /\ e.fn = "Send"
  /\ Enqueue(e.arg)
  /\ RunBegin
  /\ sent' = [sent EXCEPT ![e.arg.flow] = @ + 1]
  /\ \/ /\ e.arg.n < MaxPackets
        /\ \E gap \in Gaps :
             ProcessOneEvent(e, <<Call(gap, "Send", [e.arg EXCEPT !.n = @ + 1])>>)
     \/ /\ e.arg.n = MaxPackets
        /\ ProcessOneEvent(e, <<>>)
  /\ UNCHANGED <<deviceVars, appsStopped, received>>

RunEnd ==
  /\ m_running' = FALSE
  /\ quota' = 0

\* Mutation: the queue disc does not look whether the device is stopped.
BugIgnoreStop == HasBacklog

\* DequeuePacket returns a packet.
MayDequeue == HasBacklog /\ ~m_stoppedByDevice

(***************************************************************************)
(* A turn of QueueDisc::Run: a packet of any flow that has one (the order  *)
(* of flows is abstracted) goes to the device, those of the flow before it *)
(* dropped where CoDel may; then the loop ends if the disc is empty or the *)
(* device stopped, or the quota used up.                                   *)
(***************************************************************************)
Restart ==
  /\ m_running
  /\ \/ /\ ~MayDequeue
        /\ RunEnd
        /\ UNCHANGED <<listVars, flows, deviceVars, lost>>
     \/ /\ MayDequeue
        /\ \E f \in {g \in Flow : flows[g] # <<>>} :
             \E k \in 1 .. (IF CoDelDrops THEN Len(flows[f]) ELSE 1) :
               /\ flows' = TakeHeads(flows, f, k)
               /\ lost' = LoseHeads(flows, f, k - 1)
               /\ DeviceSend([flow |-> f, n |-> flows[f][k]])
        /\ \/ /\ HasBacklog' /\ ~m_stoppedByDevice' /\ quota > 1
              /\ quota' = quota - 1
              /\ UNCHANGED m_running
           \/ /\ ~HasBacklog' \/ m_stoppedByDevice' \/ quota = 1
              /\ RunEnd
  /\ UNCHANGED <<appsStopped, sent, received>>
--------------------------------------------------------------------------------
\* An application stops: what it does then is the business of PaxosServer.
Stop(e) ==
  /\ e.fn = "Stop"
  /\ appsStopped' = appsStopped + 1
  /\ ProcessOneEvent(e, <<>>)
  /\ UNCHANGED <<discVars, deviceVars, sent, received, lost>>

RunEvent ==
  /\ ~m_running
  /\ \E e \in m_events :
       Send(e) \/ TransmitComplete(e) \/ Receive(e) \/ Wake(e) \/ Stop(e)

\* Run returns when the event list is empty.
RunReturns ==
  /\ ~m_running
  /\ m_events = {}
  /\ UNCHANGED linkVars

LinkNext == RunEvent \/ Restart \/ RunReturns

LinkSpec == LinkInit /\ [][LinkNext]_linkVars

LinkFairSpec == LinkSpec /\ WF_linkVars(LinkNext)
--------------------------------------------------------------------------------
PendingCalls(fn) == {e \in m_events : e.fn = fn}

(***************************************************************************)
(* The types, and that the event list neither goes back in time nor gives  *)
(* a number twice.                                                         *)
(***************************************************************************)
LinkTypeOK ==
  /\ m_events \subseteq [ts : Nat, uid : 1 .. m_uid - 1, fn : Function,
                         arg : Packet \cup {NoPacket}]
  /\ \A x, y \in m_events : x.uid = y.uid => x = y
  /\ m_uid \in Nat /\ m_currentTs \in Nat /\ m_currentUid \in 0 .. m_uid - 1
  /\ flows \in [Flow -> Seq(1 .. MaxPackets)]
  /\ m_running \in BOOLEAN /\ quota \in 0 .. m_quota
  /\ m_stoppedByDevice \in BOOLEAN
  /\ m_queue \in Seq(Packet)
  /\ m_txMachineState \in {"READY", "BUSY"}
  /\ appsStopped \in 0 .. NumApps
  /\ sent \in [Flow -> 0 .. MaxPackets]
  /\ received \in [Flow -> Seq(1 .. MaxPackets)]
  /\ lost \in [Flow -> SUBSET (1 .. MaxPackets)]
  /\ \A e \in m_events : m_currentTs <= e.ts

(***************************************************************************)
(* The applications stop one after the other, before everything else of    *)
(* that time and with nothing in between, however the other events of the  *)
(* same time got into the list.  (Simulator's BetweenEvents, TimedPaxos'   *)
(* RunsAt.)                                                                *)
(***************************************************************************)
StopsFirst ==
  /\ appsStopped \notin {0, NumApps} => \E e \in PendingCalls("Stop") : IsNext(e)
  /\ m_currentTs > StopTime => appsStopped = NumApps
  /\ m_currentTs = StopTime /\ m_currentUid > NumApps => appsStopped = NumApps

(***************************************************************************)
(* "BUG! No room in the device queue": a queue that is not stopped has     *)
(* room, although the wake-up that ends a stop comes in an event of its    *)
(* own, after the packet that made room and maybe after others.            *)
(***************************************************************************)
DeviceHasRoom == ~m_stoppedByDevice => Len(m_queue) < MaxSize

(***************************************************************************)
(* Nothing waits for an event that does not come: a busy device has one    *)
(* TransmitComplete pending, a device with packets is busy, and packets    *)
(* stay in the queue disc only behind a stopped device queue that is full  *)
(* or about to be woken.                                                   *)
(***************************************************************************)
DeviceGoesOn ==
  /\ \A x, y \in PendingCalls("TransmitComplete") : x = y
  /\ PendingCalls("TransmitComplete") # {} <=> m_txMachineState = "BUSY"
  /\ m_queue # <<>> => m_txMachineState = "BUSY"
  /\ m_stoppedByDevice => /\ m_txMachineState = "BUSY"
                          /\ Len(m_queue) = MaxSize \/ PendingCalls("Wake") # {}

NeverStalls ==
  /\ DeviceGoesOn
  /\ HasBacklog => m_running \/ m_stoppedByDevice

(***************************************************************************)
(* The packets of a flow that are not dropped arrive in order and once,    *)
(* and one that is dropped is not overtaken before.                        *)
(***************************************************************************)
AsChannel == INSTANCE Channel

ImplementsChannel == AsChannel!Spec

\* A packet sent arrives, unless the queue disc drops it.
AllArrive ==
  \A f \in Flow : \A n \in 1 .. MaxPackets :
    sent[f] = n ~> n \in ToSet(received[f]) \cup lost[f]
================================================================================
