---------------------------- MODULE PointToPointInv ----------------------------
(***************************************************************************)
(* Strengthenings that make the safety properties of PointToPoint and its  *)
(* refinement of Channel inductive.                                        *)
(***************************************************************************)
EXTENDS PointToPoint

(***************************************************************************)
(* Pending events are not in the past, and a Send carries a packet.        *)
(***************************************************************************)
EventInv ==
  /\ m_currentTs \in Nat /\ m_uid \in Nat
  /\ \A e \in m_events : e.ts \in Nat /\ e.uid \in Nat /\ e.uid < m_uid /\ m_currentTs <= e.ts
  /\ \A e \in PendingCalls("Send") : e.arg \in Packet

\* The stop events still to run are the last ones of them, before which
\* nothing else of their time runs.
StopInv ==
  /\ appsStopped \in 0 .. NumApps /\ m_currentUid \in Nat /\ NumApps < m_uid
  /\ PendingCalls("Stop") = {e \in StopEvents : appsStopped < e.uid}
  /\ \A e \in m_events : e.fn # "Stop" => NumApps < e.uid
  /\ appsStopped > 0 => StopTime <= m_currentTs
  /\ (appsStopped < NumApps /\ m_currentTs = StopTime) => m_currentUid <= NumApps

(***************************************************************************)
(* What makes DeviceHasRoom and NeverStalls inductive: at most one wake-up *)
(* is pending, at the present time and before the device is done with its  *)
(* packet, so that a stopped device queue lacks at most the packet just    *)
(* sent.                                                                   *)
(***************************************************************************)
DeviceInv ==
  /\ m_txMachineState \in {"READY", "BUSY"}
  /\ m_queue \in Seq(Packet) /\ Len(m_queue) <= MaxSize
  /\ m_stoppedByDevice \in BOOLEAN
  /\ m_stoppedByDevice => MaxSize <= Len(m_queue) + 1
  /\ \A x, y \in PendingCalls("Wake") : x = y
  /\ \A w \in PendingCalls("Wake") : /\ m_txMachineState = "BUSY"
                                     /\ w.ts = m_currentTs
                                     /\ \A c \in PendingCalls("TransmitComplete") : w.ts < c.ts

\* No flow has a packet but one, which has one.
OnePacket ==
  \A f, g \in Flow : (flows[f] # <<>> /\ flows[g] # <<>>) => f = g /\ Len(flows[f]) = 1

\* The queue disc, when it runs, has one packet to send or room for one, so
\* that its quota never ends a run.
RunInv ==
  /\ flows \in [Flow -> Seq(1 .. MaxPackets)]
  /\ m_running \in BOOLEAN
  /\ m_running => quota \in Nat \ {0}
  /\ (m_running /\ ~m_stoppedByDevice) =>
       OnePacket \/ (m_txMachineState = "BUSY" /\ Len(m_queue) + 1 = MaxSize)

LinkInv == EventInv /\ DeviceInv /\ RunInv /\ DeviceHasRoom /\ NeverStalls
--------------------------------------------------------------------------------
\* The events have numbers of their own.
ListInv ==
  /\ m_events \subseteq [ts : Nat, uid : 1 .. m_uid - 1, fn : Function,
                         arg : Packet \cup {NoPacket}]
  /\ \A x, y \in m_events : x.uid = y.uid => x = y
  /\ m_uid \in Nat /\ m_currentUid \in 0 .. m_uid - 1

\* The turns left to the queue disc's loop.
QuotaInv == quota \in 0 .. m_quota

\* The next packet of a flow is the one after those sent, and no other.
SendInv ==
  /\ sent \in [Flow -> 0 .. MaxPackets]
  /\ \A e \in PendingCalls("Send") : e.arg.n = sent[e.arg.flow] + 1
  /\ \A x, y \in PendingCalls("Send") : x.arg.flow = y.arg.flow => x = y

\* The packets of a flow on the channel arrive in their order, and before
\* any whose transmission starts from now on.
ArrivesBefore(x, y) == x.arg.n < y.arg.n /\ Earlier(x, y)

ReceiveInv ==
  /\ \A e \in PendingCalls("Receive") : /\ e.arg \in Packet
                                        /\ e.ts <= m_currentTs + (TxTime + Delay)
  /\ \A x, y \in PendingCalls("Receive") :
       x.arg.flow = y.arg.flow => x = y \/ ArrivesBefore(x, y) \/ ArrivesBefore(y, x)

\* Queue disc and device keep the packets of a flow in their order.
Increasing(s) == \A i, j \in DOMAIN s : i < j => s[i] < s[j]

InOrder(q) ==
  \A i, j \in DOMAIN q : (i < j /\ q[i].flow = q[j].flow) => q[i].n < q[j].n

OrderInv == InOrder(m_queue) /\ \A f \in Flow : Increasing(flows[f])

(***************************************************************************)
(* Where the packets of a flow are that have neither arrived nor been      *)
(* dropped: first those on the channel, then those in the device's queue,  *)
(* then those in the queue disc.                                           *)
(***************************************************************************)
OfFlow(q, f) == {q[i].n : i \in {j \in DOMAIN q : q[j].flow = f}}

InFlight(f) == {e.arg.n : e \in {x \in PendingCalls("Receive") : x.arg.flow = f}}
InDevice(f) == OfFlow(m_queue, f)
InDisc(f)   == ToSet(flows[f])

Stream(flying, queued, waiting, last, total, dropped) ==
  /\ total \in Nat /\ last \in 0 .. total /\ dropped \subseteq 1 .. total
  /\ flying \cup queued \cup waiting = (last + 1 .. total) \ dropped
  /\ \A a \in flying : \A b \in queued \cup waiting : a < b
  /\ \A b \in queued : \A c \in waiting : b < c

StreamInv ==
  /\ received \in [Flow -> Seq(1 .. MaxPackets)]
  /\ lost \in [Flow -> SUBSET (1 .. MaxPackets)]
  /\ \A f \in Flow : Stream(InFlight(f), InDevice(f), InDisc(f),
                            AsChannel!LastReceived(f), sent[f], lost[f])

FlowInv == SendInv /\ ReceiveInv /\ OrderInv /\ StreamInv
================================================================================
