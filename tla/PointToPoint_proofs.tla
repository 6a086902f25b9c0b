-------------------------- MODULE PointToPoint_proofs --------------------------
(***************************************************************************)
(* The event list runs the applications' stop events one after the other,  *)
(* the flow control between queue disc and device neither overruns the     *)
(* device nor stalls, and the link implements Channel: for any times,      *)
(* sizes, quota and number of flows.                                       *)
(***************************************************************************)
EXTENDS PointToPointInv, SequenceTheorems, FiniteSetTheorems, TLAPS

(***************************************************************************)
(* What a handler schedules.                                               *)
(***************************************************************************)
Calls == {c \in Seq([delay : Nat, fn : Function, arg : Packet \cup {NoPacket}]) :
            \A i \in DOMAIN c : c[i].fn = "Send" => c[i].arg \in Packet}

\* A handler that schedules nothing.
LEMMA NoCalls ==
  ASSUME NEW t
  PROVE  <<>> \in Calls /\ Len(<<>>) = 0 /\ Inserted(t, <<>>) = {}
  BY DEF Calls, Inserted

\* A handler that schedules one event.
LEMMA OneCall ==
  ASSUME NEW t, NEW delay \in Nat, NEW fn \in Function,
         NEW arg \in Packet \cup {NoPacket}, fn = "Send" => arg \in Packet
  PROVE  /\ <<Call(delay, fn, arg)>> \in Calls
         /\ Inserted(t, <<Call(delay, fn, arg)>>) =
              {[ts |-> t + delay, uid |-> m_uid + 1 - 1, fn |-> fn, arg |-> arg]}
  BY DEF Calls, Inserted, Call

\* The transmission of the first packet of q, and the wake-up before it.
LEMMA SendHeadCalls ==
  ASSUME NEW t, NEW q \in Seq(Packet), q # <<>>
  PROVE  /\ SendHead(q) \in Calls
         /\ Inserted(t, SendHead(q)) =
              {[ts |-> t + 0, uid |-> m_uid + 1 - 1, fn |-> "Wake", arg |-> NoPacket],
               [ts |-> t + TxTime, uid |-> m_uid + 2 - 1,
                fn |-> "TransmitComplete", arg |-> NoPacket],
               [ts |-> t + (TxTime + Delay), uid |-> m_uid + 3 - 1,
                fn |-> "Receive", arg |-> Head(q)]}
<1> DEFINE wake == Call(0, "Wake", NoPacket)
           complete == Call(TxTime, "TransmitComplete", NoPacket)
           receive == Call(TxTime + Delay, "Receive", Head(q))
<1>1. SendHead(q) = <<wake, complete, receive>>
  <2>1. ASSUME NEW w, NEW c, NEW r
        PROVE  <<w>> \o <<c, r>> = <<w, c, r>>
    <3> DEFINE joined == <<w>> \o <<c, r>>
               listed == <<w, c, r>>
    <3>1. joined \in Seq({w, c, r}) /\ listed \in Seq({w, c, r})
      OBVIOUS
    <3>2. Len(joined) = 3 /\ Len(listed) = 3
      OBVIOUS
    <3>3. joined[1] = listed[1] /\ joined[2] = listed[2] /\ joined[3] = listed[3]
      OBVIOUS
    <3> HIDE DEF joined, listed
    <3>4. \A i \in 1 .. Len(joined) : joined[i] = listed[i]
      BY <3>2, <3>3
    <3>5. joined = listed
      BY <3>1, <3>2, <3>4, SeqEqual
    <3>6. QED
      BY <3>5 DEF joined, listed
  <2>2. QED
    BY <2>1 DEF SendHead, TransmitStart
<1>2. Head(q) \in Packet
  OBVIOUS
<1>3. DOMAIN <<wake, complete, receive>> = {1, 2, 3}
  OBVIOUS
<1>4. /\ wake \in [delay : Nat, fn : Function, arg : Packet \cup {NoPacket}]
      /\ complete \in [delay : Nat, fn : Function, arg : Packet \cup {NoPacket}]
      /\ receive \in [delay : Nat, fn : Function, arg : Packet \cup {NoPacket}]
  BY <1>2, TimesAssumption DEF Call, Function
<1>5. SendHead(q) \in Calls
  <2>1. <<wake, complete, receive>> \in
          Seq([delay : Nat, fn : Function, arg : Packet \cup {NoPacket}])
    BY <1>4
  <2>2. \A i \in {1, 2, 3} : <<wake, complete, receive>>[i].fn # "Send"
    BY DEF Call
  <2>3. QED
    BY <1>1, <1>3, <2>1, <2>2 DEF Calls
<1>6. Inserted(t, SendHead(q)) =
        {[ts |-> t + <<wake, complete, receive>>[i].delay, uid |-> m_uid + i - 1,
          fn |-> <<wake, complete, receive>>[i].fn,
          arg |-> <<wake, complete, receive>>[i].arg] : i \in {1, 2, 3}}
  BY <1>1, <1>3 DEF Inserted
<1>7. QED
  BY <1>5, <1>6 DEF Call

\* The device schedules no stop event.
LEMMA SendHeadStops ==
  ASSUME NEW t, NEW q \in Seq(Packet), q # <<>>, NEW x \in Inserted(t, SendHead(q))
  PROVE  x.fn # "Stop"
  BY SendHeadCalls

\* The keys of the events a handler inserts.
LEMMA InsertedTypes ==
  ASSUME EventInv, NEW t \in Nat, NEW calls \in Calls, NEW x \in Inserted(t, calls)
  PROVE  /\ x.ts \in Nat /\ t <= x.ts
         /\ x.uid \in Nat /\ m_uid <= x.uid /\ x.uid < m_uid + Len(calls)
         /\ x.fn = "Send" => x.arg \in Packet
         /\ \E i \in DOMAIN calls : x.fn = calls[i].fn
<1>1. PICK i \in DOMAIN calls :
        x = [ts |-> t + calls[i].delay, uid |-> m_uid + i - 1,
             fn |-> calls[i].fn, arg |-> calls[i].arg]
  BY DEF Inserted
<1>2. calls \in Seq([delay : Nat, fn : Function, arg : Packet \cup {NoPacket}])
  BY DEF Calls
<1>3. i \in 1 .. Len(calls) /\ Len(calls) \in Nat
  BY <1>2
<1>4. calls[i].delay \in Nat
  <2>1. calls[i] \in [delay : Nat, fn : Function, arg : Packet \cup {NoPacket}]
    BY <1>2, <1>3, ElementOfSeq
  <2>2. QED
    BY <2>1
<1>5. calls[i].fn = "Send" => calls[i].arg \in Packet
  BY DEF Calls
<1>6. QED
  BY <1>1, <1>3, <1>4, <1>5 DEF EventInv

\* The event that runs is not later than any other.
LEMMA NextEvent ==
  ASSUME EventInv, NEW e, NEW calls, ProcessOneEvent(e, calls)
  PROVE  /\ e \in m_events /\ e.ts \in Nat /\ m_currentTs <= e.ts
         /\ \A x \in m_events : e.ts <= x.ts
         /\ m_currentTs' = e.ts
  BY DEF EventInv, ProcessOneEvent, IsNext, Earlier

\* An event runs: those pending stay well formed and not in the past.
LEMMA EventInvProcess ==
  ASSUME EventInv, NEW e, NEW calls \in Calls, ProcessOneEvent(e, calls)
  PROVE  EventInv'
<1>1. /\ e.ts \in Nat /\ \A x \in m_events : e.ts <= x.ts
      /\ m_currentTs' = e.ts
  BY NextEvent
<1>2. /\ m_events' = (m_events \ {e}) \cup Inserted(e.ts, calls)
      /\ m_uid' = m_uid + Len(calls) /\ Len(calls) \in Nat
  BY DEF ProcessOneEvent, Calls
<1>3. QED
  BY <1>1, <1>2, InsertedTypes DEF EventInv, PendingCalls

\* The running event schedules more: the same.
LEMMA EventInvSchedule ==
  ASSUME EventInv, NEW calls \in Calls, Schedule(calls)
  PROVE  EventInv'
<1>1. /\ m_events' = m_events \cup Inserted(m_currentTs, calls)
      /\ m_uid' = m_uid + Len(calls) /\ Len(calls) \in Nat
      /\ m_currentTs' = m_currentTs
  BY DEF Schedule, Calls
<1>2. QED
  BY <1>1, InsertedTypes DEF EventInv, PendingCalls

(***************************************************************************)
(* An event that is not the device's leaves the device as it is.           *)
(***************************************************************************)
LEMMA DeviceUntouched ==
  ASSUME EventInv, DeviceInv, DeviceHasRoom, DeviceGoesOn,
         NEW e, NEW calls \in Calls, ProcessOneEvent(e, calls),
         e.fn \notin {"TransmitComplete", "Wake"},
         \A i \in DOMAIN calls : calls[i].fn \notin {"TransmitComplete", "Wake"},
         UNCHANGED deviceVars
  PROVE  (DeviceInv /\ DeviceHasRoom /\ DeviceGoesOn)'
<1>1. \A x \in Inserted(e.ts, calls) : x.fn \notin {"TransmitComplete", "Wake"}
  BY NextEvent, InsertedTypes
<1>2. m_events' = (m_events \ {e}) \cup Inserted(e.ts, calls)
  BY DEF ProcessOneEvent
<1>3. /\ PendingCalls("TransmitComplete")' = PendingCalls("TransmitComplete")
      /\ PendingCalls("Wake")' = PendingCalls("Wake")
  BY <1>1, <1>2 DEF PendingCalls
<1>4. \A w \in PendingCalls("Wake") : w.ts = m_currentTs'
  <2>1. \A w \in PendingCalls("Wake") :
          w.ts = m_currentTs /\ e.ts <= w.ts /\ m_currentTs <= e.ts
    BY NextEvent DEF DeviceInv, PendingCalls
  <2>2. QED
    BY <2>1, NextEvent DEF EventInv
<1>5. QED
  BY <1>3, <1>4 DEF deviceVars, DeviceInv, DeviceHasRoom, DeviceGoesOn

\* A queue that loses its head is one shorter.
LEMMA OneLess ==
  ASSUME NEW short, NEW long \in Nat \ {0}, NEW max \in Nat \ {0},
         short = long - 1, long <= max
  PROVE  /\ short <= max /\ short \in Nat
         /\ long = max => max <= short + 1
         /\ long # max => short < max
  OBVIOUS

(***************************************************************************)
(* The device starts to transmit the first packet of q, with nothing of    *)
(* its own pending.                                                        *)
(***************************************************************************)
LEMMA DeviceSends ==
  ASSUME NEW t \in Nat, NEW rest, NEW q \in Seq(Packet),
         q # <<>>, Len(q) <= MaxSize,
         m_events' = rest \cup Inserted(t, SendHead(q)),
         m_currentTs' = t,
         \A x \in rest : x.fn \notin {"TransmitComplete", "Wake"},
         m_queue' = Tail(q), m_txMachineState' = "BUSY",
         m_stoppedByDevice' \in BOOLEAN,
         m_stoppedByDevice' <=> Len(q) = MaxSize
  PROVE  (DeviceInv /\ DeviceHasRoom /\ DeviceGoesOn)'
<1> DEFINE wake == [ts |-> t + 0, uid |-> m_uid + 1 - 1, fn |-> "Wake", arg |-> NoPacket]
           complete == [ts |-> t + TxTime, uid |-> m_uid + 2 - 1,
                        fn |-> "TransmitComplete", arg |-> NoPacket]
           receive == [ts |-> t + (TxTime + Delay), uid |-> m_uid + 3 - 1,
                       fn |-> "Receive", arg |-> Head(q)]
<1>1. m_events' = rest \cup {wake, complete, receive}
  BY SendHeadCalls
<1>2. PendingCalls("Wake")' = {wake} /\ PendingCalls("TransmitComplete")' = {complete}
  BY <1>1 DEF PendingCalls
<1>3. wake.ts = t /\ wake.ts < complete.ts
  BY TimesAssumption
<1>4. m_queue' \in Seq(Packet) /\ Len(m_queue') = Len(q) - 1 /\ Len(q) \in Nat \ {0}
  OBVIOUS
<1>5. MaxSize \in Nat \ {0}
  BY SizeAssumption
<1> HIDE DEF wake, complete
<1>6. /\ Len(m_queue') <= MaxSize /\ Len(m_queue') \in Nat
      /\ Len(q) = MaxSize => MaxSize <= Len(m_queue') + 1
      /\ Len(q) # MaxSize => Len(m_queue') < MaxSize
  BY <1>4, <1>5, OneLess
<1>7. DeviceInv'
  <2>1. \A w \in PendingCalls("Wake")' :
          w.ts = m_currentTs' /\ \A c \in PendingCalls("TransmitComplete")' : w.ts < c.ts
    BY <1>2, <1>3
  <2>2. m_stoppedByDevice' => MaxSize <= Len(m_queue') + 1
    BY <1>6
  <2>3. \A x, y \in PendingCalls("Wake")' : x = y
    BY <1>2
  <2>4. QED
    BY <1>4, <1>6, <2>1, <2>2, <2>3 DEF DeviceInv
<1>8. DeviceHasRoom'
  BY <1>6 DEF DeviceHasRoom
<1>9. DeviceGoesOn'
  BY <1>2 DEF DeviceGoesOn
<1>10. QED
  BY <1>7, <1>8, <1>9

(***************************************************************************)
(* When the device is done with a packet no wake-up is pending.            *)
(***************************************************************************)
LEMMA CompleteAlone ==
  ASSUME EventInv, DeviceInv, NEW e, NEW calls, ProcessOneEvent(e, calls),
         e.fn = "TransmitComplete"
  PROVE  PendingCalls("Wake") = {}
<1> SUFFICES ASSUME NEW w \in PendingCalls("Wake")
             PROVE  FALSE
  OBVIOUS
<1>1. e \in PendingCalls("TransmitComplete") /\ w \in m_events
  BY NextEvent DEF PendingCalls
<1>2. w.ts < e.ts /\ e.ts <= w.ts /\ e.ts \in Nat /\ w.ts \in Nat
  BY <1>1, NextEvent DEF DeviceInv, EventInv
<1>3. QED
  BY <1>2

\* TransmitComplete keeps the invariant of the device.
LEMMA TransmitCompleteStep ==
  ASSUME LinkInv, NEW e, TransmitComplete(e)
  PROVE  (EventInv /\ DeviceInv /\ DeviceHasRoom /\ DeviceGoesOn)'
<1>1. EventInv /\ DeviceInv /\ DeviceHasRoom /\ DeviceGoesOn
  BY DEF LinkInv, NeverStalls
<1>2. e.fn = "TransmitComplete" /\ m_stoppedByDevice' = m_stoppedByDevice
  BY DEF TransmitComplete
<1>3. MaxSize \in Nat \ {0} /\ Len(m_queue) \in Nat /\ m_queue \in Seq(Packet)
  BY <1>1, SizeAssumption DEF DeviceInv
<1>4. CASE m_queue = <<>>
  <2>1. /\ ProcessOneEvent(e, <<>>)
        /\ m_txMachineState' = "READY" /\ m_queue' = m_queue
    BY <1>4 DEF TransmitComplete
  <2>2. PendingCalls("Wake") = {} /\ e \in PendingCalls("TransmitComplete")
    BY <1>1, <1>2, <2>1, CompleteAlone, NextEvent DEF PendingCalls
  <2>3. m_events' = m_events \ {e}
    BY <2>1, NoCalls DEF ProcessOneEvent
  <2>4. PendingCalls("Wake")' = {} /\ PendingCalls("TransmitComplete")' = {}
    BY <1>1, <2>2, <2>3 DEF PendingCalls, DeviceGoesOn
  <2>5. Len(m_queue) = 0 /\ ~m_stoppedByDevice
    BY <1>1, <1>3, <1>4, <2>2 DEF DeviceGoesOn
  <2>6. EventInv'
    BY <1>1, <2>1, NoCalls, EventInvProcess
  <2>7. DeviceInv' /\ DeviceHasRoom' /\ DeviceGoesOn'
    BY <1>1, <1>2, <1>3, <1>4, <2>1, <2>4, <2>5
    DEF DeviceInv, DeviceHasRoom, DeviceGoesOn
  <2>8. QED
    BY <2>6, <2>7
<1>5. CASE m_queue # <<>>
  <2>1. /\ ProcessOneEvent(e, SendHead(m_queue))
        /\ m_txMachineState' = "BUSY" /\ m_queue' = Tail(m_queue)
    BY <1>5 DEF TransmitComplete
  <2>2. PendingCalls("Wake") = {} /\ e \in PendingCalls("TransmitComplete")
    BY <1>1, <1>2, <2>1, CompleteAlone, NextEvent DEF PendingCalls
  <2>3. /\ m_events' = (m_events \ {e}) \cup Inserted(e.ts, SendHead(m_queue))
        /\ m_currentTs' = e.ts /\ e.ts \in Nat
    BY <1>1, <2>1, NextEvent DEF ProcessOneEvent
  <2>4. \A x \in m_events \ {e} : x.fn \notin {"TransmitComplete", "Wake"}
    BY <1>1, <2>2 DEF PendingCalls, DeviceGoesOn
  <2>5. m_stoppedByDevice <=> Len(m_queue) = MaxSize
    BY <1>1, <1>3, <2>2 DEF DeviceGoesOn, DeviceHasRoom
  <2>6. EventInv'
    BY <1>1, <1>3, <1>5, <2>1, SendHeadCalls, EventInvProcess
  <2>7. m_stoppedByDevice \in BOOLEAN /\ Len(m_queue) <= MaxSize
    BY <1>1 DEF DeviceInv
  <2>8. QED
    BY <1>2, <1>3, <1>5, <2>1, <2>3, <2>4, <2>5, <2>6, <2>7, DeviceSends
<1>6. QED
  BY <1>4, <1>5

(***************************************************************************)
(* A wake-up that finds room ends the stop, and runs a queue disc that has *)
(* room for one packet.                                                    *)
(***************************************************************************)
LEMMA WakeStep ==
  ASSUME LinkInv, NEW e, Wake(e), ~m_running
  PROVE  LinkInv'
<1>1. EventInv /\ DeviceInv /\ RunInv /\ DeviceHasRoom /\ DeviceGoesOn
  BY DEF LinkInv, NeverStalls
<1>2. /\ e.fn = "Wake" /\ ProcessOneEvent(e, <<>>)
      /\ UNCHANGED <<flows, m_queue, m_txMachineState>>
  BY DEF Wake
<1>3. MaxSize \in Nat \ {0} /\ m_quota \in Nat \ {0} /\ Len(m_queue) \in Nat
  BY <1>1, SizeAssumption DEF DeviceInv
<1>4. e \in PendingCalls("Wake") /\ m_events' = m_events \ {e} /\ m_currentTs' = e.ts
  BY <1>1, <1>2, NextEvent, NoCalls DEF ProcessOneEvent, PendingCalls
<1>5. /\ PendingCalls("Wake")' = {}
      /\ PendingCalls("TransmitComplete")' = PendingCalls("TransmitComplete")
      /\ m_txMachineState = "BUSY"
  BY <1>1, <1>2, <1>4 DEF PendingCalls, DeviceInv
<1>6. EventInv'
  BY <1>1, <1>2, NoCalls, EventInvProcess
<1>7. CASE WouldOverflow(m_queue)
  <2>1. Len(m_queue) = MaxSize
    BY <1>1, <1>3, <1>7 DEF WouldOverflow, DeviceInv
  <2>2. UNCHANGED <<m_stoppedByDevice, m_running, quota>>
    BY <1>7 DEF Wake
  <2>3. (DeviceInv /\ DeviceHasRoom /\ DeviceGoesOn)'
    BY <1>1, <1>2, <1>3, <1>5, <2>1, <2>2 DEF DeviceInv, DeviceHasRoom, DeviceGoesOn
  <2>4. RunInv' /\ (HasBacklog => m_running \/ m_stoppedByDevice)'
    BY <1>1, <1>2, <2>2 DEF RunInv, OnePacket, LinkInv, NeverStalls, HasBacklog
  <2>5. QED
    BY <1>6, <2>3, <2>4 DEF LinkInv, NeverStalls
<1>8. CASE ~WouldOverflow(m_queue)
  <2>1. /\ Len(m_queue) < MaxSize /\ ~m_stoppedByDevice'
        /\ m_stoppedByDevice => RunBegin
        /\ ~m_stoppedByDevice => UNCHANGED <<m_running, quota>>
    BY <1>3, <1>8 DEF WouldOverflow, Wake
  <2>2. (DeviceInv /\ DeviceHasRoom /\ DeviceGoesOn)'
    <3>1. m_stoppedByDevice' = FALSE
      BY <1>8 DEF Wake
    <3>2. QED
      BY <1>1, <1>2, <1>3, <1>5, <2>1, <3>1 DEF DeviceInv, DeviceHasRoom, DeviceGoesOn
  <2>3. CASE m_stoppedByDevice
    <3>1. Len(m_queue) + 1 = MaxSize
      BY <1>1, <1>3, <2>1, <2>3 DEF DeviceInv
    <3>2. m_running' = TRUE /\ quota' = m_quota
      BY <2>1, <2>3 DEF RunBegin
    <3>3. RunInv' /\ (HasBacklog => m_running \/ m_stoppedByDevice)'
      BY <1>1, <1>2, <1>3, <1>5, <3>1, <3>2 DEF RunInv
    <3>4. QED
      BY <1>6, <2>2, <3>3 DEF LinkInv, NeverStalls
  <2>4. CASE ~m_stoppedByDevice
    <3>1. UNCHANGED <<m_running, quota>>
      BY <2>1, <2>4
    <3>2. RunInv' /\ (HasBacklog => m_running \/ m_stoppedByDevice)'
      BY <1>1, <1>2, <2>4, <3>1 DEF RunInv, LinkInv, NeverStalls, HasBacklog
    <3>3. QED
      BY <1>6, <2>2, <3>2 DEF LinkInv, NeverStalls
  <2>5. QED
    BY <2>3, <2>4
<1>9. QED
  BY <1>7, <1>8

(***************************************************************************)
(* Packets of the queue disc.                                              *)
(***************************************************************************)
LEMMA TakeHeadsType ==
  ASSUME NEW queues \in [Flow -> Seq(1 .. MaxPackets)], NEW f \in Flow,
         NEW k \in 1 .. Len(queues[f])
  PROVE  /\ TakeHeads(queues, f, k) \in [Flow -> Seq(1 .. MaxPackets)]
         /\ Len(TakeHeads(queues, f, k)[f]) = Len(queues[f]) - k
         /\ \A g \in Flow \ {f} : TakeHeads(queues, f, k)[g] = queues[g]
<1>1. queues[f] \in Seq(1 .. MaxPackets) /\ Len(queues[f]) \in Nat
  OBVIOUS
<1>2. \A i \in k + 1 .. Len(queues[f]) : queues[f][i] \in 1 .. MaxPackets
  <2>1. \A i \in k + 1 .. Len(queues[f]) : i \in 1 .. Len(queues[f])
    BY <1>1
  <2>2. QED
    BY <1>1, <2>1, ElementOfSeq
<1>3. /\ SubSeq(queues[f], k + 1, Len(queues[f])) \in Seq(1 .. MaxPackets)
      /\ Len(SubSeq(queues[f], k + 1, Len(queues[f]))) = Len(queues[f]) - k
  <2>1. k \in Int /\ k <= Len(queues[f])
    BY <1>1
  <2>2. QED
    BY <1>1, <1>2, <2>1, SubSeqProperties
<1>4. QED
  BY <1>3 DEF TakeHeads

\* Half of a length, rounded up, is within it.
LEMMA UpToHalf ==
  ASSUME NEW n \in Nat, NEW k \in 1 .. (n + 1) \div 2
  PROVE  k \in 1 .. n
<1>1. (n + 1) \div 2 <= n \/ n = 0
  OBVIOUS
<1>2. n = 0 => (n + 1) \div 2 = 0
  OBVIOUS
<1>3. (n + 1) \div 2 \in Nat
  OBVIOUS
<1>4. QED
  BY <1>1, <1>2, <1>3

(***************************************************************************)
(* A socket's packet finds the queue disc empty or the device stopped.     *)
(***************************************************************************)
LEMMA EnqueueStep ==
  ASSUME RunInv, NEW p \in Packet, Enqueue(p)
  PROVE  /\ flows' \in [Flow -> Seq(1 .. MaxPackets)]
         /\ ~HasBacklog => OnePacket'
<1> DEFINE added == [flows EXCEPT ![p.flow] = Append(@, p.n)]
<1>1. /\ flows \in [Flow -> Seq(1 .. MaxPackets)]
      /\ p.flow \in Flow /\ p.n \in 1 .. MaxPackets
  BY DEF RunInv, Packet
<1>2. added \in [Flow -> Seq(1 .. MaxPackets)]
  BY <1>1
<1>3. ASSUME ~HasBacklog
      PROVE  /\ Len(added[p.flow]) = 1
             /\ \A g \in Flow \ {p.flow} : added[g] = <<>>
  BY <1>1, <1>3 DEF HasBacklog
<1> HIDE DEF added
<1>4. CASE FlowFull(p.flow) /\ flows' = flows
  <2>1. ~HasBacklog => Len(flows[p.flow]) = 0
    BY <1>1 DEF HasBacklog
  <2>2. HasBacklog
    BY <1>4, <2>1, SizeAssumption DEF FlowFull
  <2>3. QED
    BY <1>1, <1>4, <2>2
<1>5. CASE flows' = added
  BY <1>2, <1>3, <1>5 DEF OnePacket
<1>6. ASSUME NEW f \in Flow, NEW k \in 1 .. (Len(added[f]) + 1) \div 2,
             flows' = TakeHeads(added, f, k)
      PROVE  /\ flows' \in [Flow -> Seq(1 .. MaxPackets)]
             /\ ~HasBacklog => OnePacket'
  <2>1. Len(added[f]) \in Nat
    BY <1>2
  <2>2. k \in 1 .. Len(added[f])
    BY <2>1, UpToHalf
  <2>3. /\ flows' \in [Flow -> Seq(1 .. MaxPackets)]
        /\ Len(flows'[f]) = Len(added[f]) - k
        /\ \A g \in Flow \ {f} : flows'[g] = added[g]
    BY <1>2, <1>6, <2>2, TakeHeadsType
  <2>4. ASSUME ~HasBacklog
        PROVE  OnePacket'
    <3>1. f = p.flow
      BY <1>3, <2>1, <2>2, <2>4
    <3>2. Len(flows'[f]) = 0 /\ \A g \in Flow \ {f} : flows'[g] = <<>>
      <4>1. Len(added[f]) = 1
        BY <1>3, <2>4, <3>1
      <4>2. k = 1
        BY <2>2, <4>1
      <4>3. \A g \in Flow \ {f} : added[g] = <<>>
        BY <1>3, <2>4, <3>1
      <4>4. QED
        BY <2>3, <4>1, <4>2, <4>3
    <3>3. flows'[f] = <<>>
      BY <2>3, <3>2
    <3>4. QED
      BY <3>2, <3>3 DEF OnePacket
  <2>5. QED
    BY <2>3, <2>4
<1>7. \/ FlowFull(p.flow) /\ flows' = flows
      \/ flows' = added
      \/ \E f \in Flow : \E k \in 1 .. (Len(added[f]) + 1) \div 2 :
           flows' = TakeHeads(added, f, k)
  BY Zenon DEF Enqueue, added
<1>8. QED
  BY <1>4, <1>5, <1>6, <1>7

\* What a socket schedules: its next packet, or nothing.
LEMMA SendCalls ==
  ASSUME EventInv, NEW e, Send(e)
  PROVE  \E calls \in Calls : /\ ProcessOneEvent(e, calls)
                              /\ \A i \in DOMAIN calls : calls[i].fn = "Send"
<1>1. e \in PendingCalls("Send") /\ e.arg \in Packet
  BY DEF Send, ProcessOneEvent, IsNext, PendingCalls, EventInv
<1>2. CASE e.arg.n < MaxPackets
  <2> DEFINE next == [e.arg EXCEPT !.n = @ + 1]
  <2>1. PICK gap \in Gaps : ProcessOneEvent(e, <<Call(gap, "Send", next)>>)
    <3>1. e.arg.n # MaxPackets
      BY <1>2, TimesAssumption
    <3>2. QED
      BY <3>1 DEF Send
  <2>2. next \in Packet
    BY <1>1, <1>2, TimesAssumption DEF Packet
  <2>3. gap \in Nat /\ "Send" \in Function
    BY TimesAssumption DEF Function
  <2> HIDE DEF next
  <2>4. <<Call(gap, "Send", next)>> \in Calls
    BY <2>2, <2>3, OneCall
  <2>5. \A i \in DOMAIN <<Call(gap, "Send", next)>> : <<Call(gap, "Send", next)>>[i].fn = "Send"
    BY DEF Call
  <2>6. QED
    BY <2>1, <2>4, <2>5
<1>3. CASE ~(e.arg.n < MaxPackets)
  <2>1. ProcessOneEvent(e, <<>>)
    BY <1>3, Zenon DEF Send
  <2>2. QED
    BY <2>1, NoCalls
<1>4. QED
  BY <1>2, <1>3

\* A packet from a socket keeps the invariant of the link.
LEMMA SendStep ==
  ASSUME LinkInv, NEW e, Send(e), ~m_running
  PROVE  LinkInv'
<1>1. EventInv /\ DeviceInv /\ RunInv /\ DeviceHasRoom /\ DeviceGoesOn
  BY DEF LinkInv, NeverStalls
<1>2. PICK calls \in Calls : /\ ProcessOneEvent(e, calls)
                             /\ \A i \in DOMAIN calls : calls[i].fn = "Send"
  BY <1>1, SendCalls
<1>3. /\ e.fn = "Send" /\ Enqueue(e.arg) /\ UNCHANGED deviceVars
      /\ m_running' = TRUE /\ quota' = m_quota
  BY DEF Send, RunBegin
<1>4. EventInv'
  BY <1>1, <1>2, EventInvProcess
<1>5. (DeviceInv /\ DeviceHasRoom /\ DeviceGoesOn)'
  <2>1. \A i \in DOMAIN calls : calls[i].fn \notin {"TransmitComplete", "Wake"}
    BY <1>2
  <2>2. QED
    BY <1>1, <1>2, <1>3, <2>1, DeviceUntouched
<1>6. RunInv'
  <2>1. e.arg \in Packet
    BY <1>1, <1>2, <1>3, NextEvent DEF EventInv, PendingCalls
  <2>2. /\ flows' \in [Flow -> Seq(1 .. MaxPackets)]
        /\ ~HasBacklog => OnePacket'
    BY <1>1, <1>3, <2>1, EnqueueStep
  <2>3. HasBacklog => m_stoppedByDevice'
    BY <1>3 DEF LinkInv, NeverStalls, deviceVars
  <2>4. QED
    BY <1>3, <2>2, <2>3, SizeAssumption DEF RunInv
<1>7. (HasBacklog => m_running \/ m_stoppedByDevice)'
  BY <1>3
<1>8. QED
  BY <1>4, <1>5, <1>6, <1>7 DEF LinkInv, NeverStalls

\* Events that neither queue disc nor device sees.
LEMMA QuietStep ==
  ASSUME LinkInv, NEW e, Receive(e) \/ Stop(e)
  PROVE  LinkInv'
<1>1. EventInv /\ DeviceInv /\ RunInv /\ DeviceHasRoom /\ DeviceGoesOn
  BY DEF LinkInv, NeverStalls
<1>2. /\ e.fn \in {"Receive", "Stop"} /\ ProcessOneEvent(e, <<>>)
      /\ UNCHANGED <<discVars, deviceVars>>
  BY DEF Receive, Stop
<1>3. EventInv'
  BY <1>1, <1>2, NoCalls, EventInvProcess
<1>4. (DeviceInv /\ DeviceHasRoom /\ DeviceGoesOn)'
  <2>1. e.fn \notin {"TransmitComplete", "Wake"} /\ DOMAIN <<>> = {}
    BY <1>2
  <2>2. QED
    BY <1>1, <1>2, <2>1, NoCalls, DeviceUntouched
<1>5. RunInv' /\ (HasBacklog => m_running \/ m_stoppedByDevice)'
  BY <1>2 DEF discVars, deviceVars, LinkInv, NeverStalls, RunInv, OnePacket, HasBacklog
<1>6. QED
  BY <1>3, <1>4, <1>5 DEF LinkInv, NeverStalls

(***************************************************************************)
(* The queue disc hands the device a packet: there is room, and the last   *)
(* room stops the queue.                                                   *)
(***************************************************************************)
LEMMA DeviceSendStep ==
  ASSUME LinkInv, ~m_stoppedByDevice, NEW p \in Packet, DeviceSend(p)
  PROVE  /\ (EventInv /\ DeviceInv /\ DeviceHasRoom /\ DeviceGoesOn)'
         /\ (m_txMachineState = "BUSY" /\ Len(m_queue) + 1 = MaxSize) => m_stoppedByDevice'
<1> DEFINE q == Append(m_queue, p)
<1>1. EventInv /\ DeviceInv /\ DeviceHasRoom /\ DeviceGoesOn
  BY DEF LinkInv, NeverStalls
<1>2. MaxSize \in Nat \ {0} /\ Len(m_queue) \in Nat /\ Len(m_queue) < MaxSize
  BY <1>1, SizeAssumption DEF DeviceInv, DeviceHasRoom
<1>3. q \in Seq(Packet) /\ q # <<>> /\ Len(q) = Len(m_queue) + 1 /\ Len(q) <= MaxSize
  BY <1>1, <1>2 DEF DeviceInv
<1>4. WouldOverflow(q) <=> Len(q) = MaxSize
  BY <1>2, <1>3 DEF WouldOverflow
<1>5. /\ m_stoppedByDevice' = (m_stoppedByDevice \/ WouldOverflow(q))
      /\ \/ /\ m_txMachineState = "READY"
            /\ m_queue' = Tail(q)
            /\ m_txMachineState' = "BUSY"
            /\ Schedule(SendHead(q))
         \/ /\ m_txMachineState = "BUSY"
            /\ m_queue' = q
            /\ Schedule(<<>>)
            /\ UNCHANGED m_txMachineState
  BY <1>2 DEF DeviceSend
<1> HIDE DEF q
<1>6. /\ m_stoppedByDevice' \in BOOLEAN
      /\ m_stoppedByDevice' <=> Len(q) = MaxSize
  BY <1>4, <1>5
<1>7. CASE m_txMachineState = "READY"
  <2>1. m_queue' = Tail(q) /\ m_txMachineState' = "BUSY" /\ Schedule(SendHead(q))
    BY <1>5, <1>7
  <2>2. /\ m_events' = m_events \cup Inserted(m_currentTs, SendHead(q))
        /\ m_currentTs' = m_currentTs /\ m_currentTs \in Nat
    BY <1>1, <2>1 DEF Schedule, EventInv
  <2>3. \A x \in m_events : x.fn \notin {"TransmitComplete", "Wake"}
    BY <1>1, <1>7 DEF DeviceInv, DeviceGoesOn, PendingCalls
  <2>4. EventInv'
    BY <1>1, <1>3, <2>1, SendHeadCalls, EventInvSchedule
  <2>5. (DeviceInv /\ DeviceHasRoom /\ DeviceGoesOn)'
    BY <1>3, <1>6, <2>1, <2>2, <2>3, DeviceSends
  <2>6. QED
    BY <1>7, <2>4, <2>5
<1>8. CASE m_txMachineState = "BUSY"
  <2>1. m_queue' = q /\ m_txMachineState' = "BUSY" /\ Schedule(<<>>)
    BY <1>5, <1>8
  <2>2. m_events' = m_events /\ m_currentTs' = m_currentTs
    BY <2>1, NoCalls DEF Schedule
  <2>3. EventInv'
    BY <1>1, <2>1, NoCalls, EventInvSchedule
  <2>4. /\ PendingCalls("TransmitComplete")' = PendingCalls("TransmitComplete")
        /\ PendingCalls("Wake")' = PendingCalls("Wake")
    BY <2>2 DEF PendingCalls
  <2>5. /\ Len(q) = MaxSize => MaxSize <= Len(q) + 1
        /\ Len(q) # MaxSize => Len(q) < MaxSize
    BY <1>2, <1>3
  <2>6. DeviceInv'
    BY <1>1, <1>3, <1>6, <1>8, <2>1, <2>2, <2>4, <2>5 DEF DeviceInv
  <2>7. DeviceHasRoom'
    BY <1>6, <2>1, <2>5 DEF DeviceHasRoom
  <2>8. DeviceGoesOn'
    BY <1>1, <1>6, <1>8, <2>1, <2>4 DEF DeviceGoesOn
  <2>9. (Len(m_queue) + 1 = MaxSize) => m_stoppedByDevice'
    BY <1>3, <1>6
  <2>10. QED
    BY <2>3, <2>6, <2>7, <2>8, <2>9
<1>9. QED
  BY <1>1, <1>7, <1>8 DEF DeviceInv

\* A turn of the queue disc keeps the invariant of the link.
LEMMA RestartStep ==
  ASSUME LinkInv, Restart
  PROVE  LinkInv'
<1>1. /\ EventInv /\ DeviceInv /\ RunInv /\ DeviceHasRoom /\ DeviceGoesOn
      /\ m_running
  BY DEF LinkInv, NeverStalls, Restart
<1>2. CASE ~MayDequeue
  <2>1. /\ HasBacklog => m_stoppedByDevice
        /\ m_running' = FALSE
        /\ UNCHANGED <<listVars, flows, deviceVars>>
    BY <1>2 DEF Restart, MayDequeue, RunEnd
  <2>2. (EventInv /\ DeviceInv /\ DeviceHasRoom /\ DeviceGoesOn)'
    BY <1>1, <2>1
    DEF listVars, deviceVars, EventInv, DeviceInv, DeviceHasRoom, DeviceGoesOn, PendingCalls
  <2>3. RunInv' /\ (HasBacklog => m_running \/ m_stoppedByDevice)'
    BY <1>1, <2>1 DEF deviceVars, RunInv, HasBacklog
  <2>4. QED
    BY <2>2, <2>3 DEF LinkInv, NeverStalls
<1>3. CASE MayDequeue
  <2>1. PICK f \in {g \in Flow : flows[g] # <<>>} :
          \E k \in 1 .. (IF CoDelDrops THEN Len(flows[f]) ELSE 1) :
            /\ flows' = TakeHeads(flows, f, k)
            /\ DeviceSend([flow |-> f, n |-> flows[f][k]])
    BY <1>3 DEF Restart
  <2>2. PICK k \in 1 .. (IF CoDelDrops THEN Len(flows[f]) ELSE 1) :
          /\ flows' = TakeHeads(flows, f, k)
          /\ DeviceSend([flow |-> f, n |-> flows[f][k]])
    BY <2>1
  <2>3. flows \in [Flow -> Seq(1 .. MaxPackets)] /\ flows[f] \in Seq(1 .. MaxPackets)
    BY <1>1 DEF RunInv
  <2>4. k \in 1 .. Len(flows[f])
    <3>1. Len(flows[f]) \in Nat \ {0}
      BY <2>3
    <3>2. QED
      BY <3>1
  <2>5. [flow |-> f, n |-> flows[f][k]] \in Packet
    BY <2>3, <2>4, ElementOfSeq DEF Packet
  <2>6. ~m_stoppedByDevice
    BY <1>3 DEF MayDequeue
  <2>7. /\ (EventInv /\ DeviceInv /\ DeviceHasRoom /\ DeviceGoesOn)'
        /\ (m_txMachineState = "BUSY" /\ Len(m_queue) + 1 = MaxSize) => m_stoppedByDevice'
    BY <2>2, <2>5, <2>6, DeviceSendStep
  <2>8. /\ flows' \in [Flow -> Seq(1 .. MaxPackets)]
        /\ Len(flows'[f]) = Len(flows[f]) - k
        /\ \A g \in Flow \ {f} : flows'[g] = flows[g]
    BY <2>2, <2>3, <2>4, TakeHeadsType
  <2>9. OnePacket => ~HasBacklog'
    <3>1. SUFFICES ASSUME OnePacket
                   PROVE  \A g \in Flow : flows'[g] = <<>>
      BY DEF HasBacklog
    <3>2. Len(flows[f]) = 1 /\ \A g \in Flow \ {f} : flows[g] = <<>>
      BY <3>1 DEF OnePacket
    <3>3. Len(flows'[f]) = 0
      BY <2>4, <2>8, <3>2
    <3>4. flows'[f] = <<>>
      BY <2>8, <3>3
    <3>5. QED
      BY <2>8, <3>2, <3>4
  <2>10. ~HasBacklog' \/ m_stoppedByDevice'
    BY <1>1, <2>6, <2>7, <2>9 DEF RunInv
  <2>11. m_running' = FALSE
    BY <1>3, <2>10 DEF Restart, RunEnd
  <2>12. RunInv'
    BY <2>8, <2>11 DEF RunInv
  <2>13. QED
    BY <2>7, <2>10, <2>12 DEF LinkInv, NeverStalls
<1>4. QED
  BY <1>2, <1>3

\* The invariant of the link holds at the start.
LEMMA LinkInvInit == LinkInit => LinkInv
<1> SUFFICES ASSUME LinkInit PROVE LinkInv
  OBVIOUS
<1>1. PICK order \in Bijection(Flow, NumApps + 1 .. NumApps + Cardinality(Flow)) :
        m_events = StopEvents \cup {FirstSend(f, order[f]) : f \in Flow}
  BY DEF LinkInit
<1>2. \A f \in Flow : order[f] \in NumApps + 1 .. NumApps + Cardinality(Flow)
  <2>1. order \in [Flow -> NumApps + 1 .. NumApps + Cardinality(Flow)]
    BY Zenon DEF Bijection, Injection
  <2>2. QED
    BY <2>1
<1>3. Cardinality(Flow) \in Nat
  BY FlowAssumption, FS_CardinalityType
<1>4. m_currentTs = 0 /\ m_uid = NumApps + Cardinality(Flow) + 1
  BY DEF LinkInit
<1>5. EventInv
  <2>1. \A e \in StopEvents :
          e.ts \in Nat /\ e.uid \in Nat /\ e.uid < m_uid /\ 0 <= e.ts /\ e.fn = "Stop"
    BY <1>3, <1>4, TimesAssumption DEF StopEvents
  <2>2. \A f \in Flow :
          LET e == FirstSend(f, order[f])
          IN  /\ e.ts \in Nat /\ e.uid \in Nat /\ e.uid < m_uid /\ 0 <= e.ts
              /\ e.arg \in Packet
    BY <1>2, <1>3, <1>4, TimesAssumption DEF FirstSend, Packet
  <2>3. QED
    BY <1>1, <1>3, <1>4, <2>1, <2>2, TimesAssumption DEF EventInv, PendingCalls
<1>6. PendingCalls("Wake") = {} /\ PendingCalls("TransmitComplete") = {}
  BY <1>1 DEF PendingCalls, StopEvents, FirstSend
<1>7. DeviceInv /\ DeviceHasRoom /\ DeviceGoesOn
  <2>1. /\ m_txMachineState = "READY" /\ m_queue = <<>> /\ m_stoppedByDevice = FALSE
        /\ Len(m_queue) = 0 /\ m_queue \in Seq(Packet)
    BY DEF LinkInit
  <2>2. 0 < MaxSize /\ 0 <= MaxSize
    BY SizeAssumption
  <2>3. QED
    BY <1>6, <2>1, <2>2 DEF DeviceInv, DeviceHasRoom, DeviceGoesOn
<1>8. RunInv /\ ~HasBacklog
  <2>1. flows = [f \in Flow |-> <<>>] /\ m_running = FALSE
    BY DEF LinkInit
  <2>2. flows \in [Flow -> Seq(1 .. MaxPackets)]
    <3>1. <<>> \in Seq(1 .. MaxPackets)
      OBVIOUS
    <3>2. QED
      BY <2>1, <3>1
  <2>3. \A f \in Flow : flows[f] = <<>>
    BY <2>1
  <2>4. QED
    BY <2>1, <2>2, <2>3 DEF RunInv, HasBacklog
<1>9. QED
  BY <1>5, <1>7, <1>8 DEF LinkInv, NeverStalls

\* Every step keeps the invariant of the link.
LEMMA LinkInvNext ==
  ASSUME LinkInv, [LinkNext]_linkVars
  PROVE  LinkInv'
<1>1. ASSUME NEW e \in m_events, Send(e), ~m_running
      PROVE  LinkInv'
  BY <1>1, SendStep
<1>2. ASSUME NEW e \in m_events, TransmitComplete(e), ~m_running
      PROVE  LinkInv'
  <2>1. (EventInv /\ DeviceInv /\ DeviceHasRoom /\ DeviceGoesOn)'
    BY <1>2, TransmitCompleteStep
  <2>2. UNCHANGED discVars /\ m_stoppedByDevice' = m_stoppedByDevice
    BY <1>2 DEF TransmitComplete
  <2>3. RunInv' /\ (HasBacklog => m_running \/ m_stoppedByDevice)'
    BY <1>2, <2>2 DEF discVars, LinkInv, RunInv, NeverStalls, HasBacklog
  <2>4. QED
    BY <2>1, <2>3 DEF LinkInv, NeverStalls
<1>3. ASSUME NEW e \in m_events, Receive(e) \/ Stop(e)
      PROVE  LinkInv'
  BY <1>3, QuietStep
<1>4. ASSUME NEW e \in m_events, Wake(e), ~m_running
      PROVE  LinkInv'
  BY <1>4, WakeStep
<1>5. CASE Restart
  BY <1>5, RestartStep
<1>6. CASE UNCHANGED linkVars
  BY <1>6 DEF linkVars, listVars, discVars, deviceVars, LinkInv, EventInv, DeviceInv,
     RunInv, OnePacket, HasBacklog, DeviceHasRoom, NeverStalls, DeviceGoesOn, PendingCalls
<1>7. QED
  BY <1>1, <1>2, <1>3, <1>4, <1>5, <1>6 DEF LinkNext, RunEvent, RunReturns

\* The invariant of the link holds always.
LEMMA LinkInvCorrect == LinkSpec => []LinkInv
<1>1. LinkInit => LinkInv
  BY LinkInvInit
<1>2. LinkInv /\ [LinkNext]_linkVars => LinkInv'
  BY LinkInvNext
<1>3. QED
  BY <1>1, <1>2, PTL DEF LinkSpec

(***************************************************************************)
(* The device is never given a packet it has no room for, whatever the     *)
(* sizes of its queue and the times of sending, transmission and channel.  *)
(***************************************************************************)
THEOREM DeviceHasRoomCorrect == LinkSpec => []DeviceHasRoom
<1>1. LinkInv => DeviceHasRoom
  BY DEF LinkInv
<1>2. QED
  BY <1>1, LinkInvCorrect, PTL

(***************************************************************************)
(* Packets never wait for an event that does not come: a run of the queue  *)
(* disc is ended by its quota never, by the stopped device always with a   *)
(* wake-up to come.                                                        *)
(***************************************************************************)
THEOREM NeverStallsCorrect == LinkSpec => []NeverStalls
<1>1. LinkInv => NeverStalls
  BY DEF LinkInv
<1>2. QED
  BY <1>1, LinkInvCorrect, PTL

(***************************************************************************)
(* The stop events.                                                        *)
(***************************************************************************)
StopEvent(a) == [ts |-> StopTime, uid |-> a, fn |-> "Stop", arg |-> NoPacket]

\* The stop event that runs is the first of those left.
LEMMA NextStop ==
  ASSUME StopInv, appsStopped < NumApps
  PROVE  /\ StopEvent(appsStopped + 1) \in m_events
         /\ appsStopped + 1 \in 1 .. NumApps
  BY TimesAssumption DEF StopInv, StopEvents, StopEvent, PendingCalls

\* No event but a stop event precedes one.
LEMMA OtherEventStops ==
  ASSUME EventInv, StopInv, NEW e, NEW calls \in Calls, ProcessOneEvent(e, calls),
         e.fn # "Stop", \A x \in Inserted(e.ts, calls) : x.fn # "Stop",
         appsStopped' = appsStopped
  PROVE  StopInv'
<1>1. /\ e \in m_events /\ e.ts \in Nat /\ m_currentTs <= e.ts /\ m_currentTs \in Nat
      /\ m_currentTs' = e.ts /\ m_currentUid' = e.uid
      /\ m_events' = (m_events \ {e}) \cup Inserted(e.ts, calls)
      /\ m_uid' = m_uid + Len(calls) /\ Len(calls) \in Nat
      /\ e.uid \in Nat /\ NumApps < e.uid
  BY NextEvent DEF ProcessOneEvent, Calls, EventInv, StopInv
<1>2. NumApps \in Nat /\ m_uid \in Nat /\ NumApps < m_uid /\ NumApps < m_uid'
  BY <1>1, TimesAssumption DEF EventInv, StopInv
<1>3. PendingCalls("Stop")' = PendingCalls("Stop")
  BY <1>1 DEF PendingCalls
<1>4. \A x \in m_events' : x.fn # "Stop" => NumApps < x.uid
  <2>1. \A x \in Inserted(e.ts, calls) : x.uid \in Nat /\ m_uid <= x.uid
    BY <1>1, InsertedTypes
  <2>2. \A x \in Inserted(e.ts, calls) : NumApps < x.uid
    BY <1>2, <2>1
  <2>3. QED
    BY <1>1, <2>2 DEF StopInv
<1>5. appsStopped > 0 => StopTime <= e.ts
  BY <1>1, TimesAssumption DEF StopInv
<1>6. appsStopped < NumApps => e.ts # StopTime
  <2>1. SUFFICES ASSUME appsStopped < NumApps, e.ts = StopTime
                 PROVE  FALSE
    OBVIOUS
  <2>2. /\ StopEvent(appsStopped + 1) \in m_events
        /\ appsStopped + 1 \in 1 .. NumApps
    BY <2>1, NextStop
  <2>3. /\ StopEvent(appsStopped + 1).uid = appsStopped + 1
        /\ StopEvent(appsStopped + 1).ts = StopTime
        /\ StopEvent(appsStopped + 1).fn = "Stop"
    BY DEF StopEvent
  <2>4. Earlier(e, StopEvent(appsStopped + 1))
    BY <2>2, <2>3 DEF ProcessOneEvent, IsNext
  <2>5. e.uid < appsStopped + 1
    BY <2>1, <2>3, <2>4, TimesAssumption DEF Earlier
  <2>6. QED
    BY <1>1, <1>2, <2>2, <2>5
<1>7. QED
  BY <1>1, <1>2, <1>3, <1>4, <1>5, <1>6 DEF StopInv

\* The stop events run in their order.
LEMMA StopStep ==
  ASSUME EventInv, StopInv, NEW e, Stop(e)
  PROVE  StopInv'
<1>1. /\ ProcessOneEvent(e, <<>>) /\ e.fn = "Stop" /\ appsStopped' = appsStopped + 1
  BY DEF Stop
<1>2. /\ e \in m_events /\ e.ts \in Nat
      /\ m_currentTs' = e.ts /\ m_currentUid' = e.uid
      /\ m_events' = m_events \ {e} /\ m_uid' = m_uid + 0
  BY <1>1, NextEvent, NoCalls DEF ProcessOneEvent
<1>3. e \in PendingCalls("Stop") /\ m_uid' = m_uid
  BY <1>1, <1>2 DEF PendingCalls, EventInv
<1>4. PICK a \in 1 .. NumApps : e = StopEvent(a) /\ appsStopped < a
  BY <1>3 DEF StopInv, StopEvents, StopEvent
<1>5. appsStopped \in Nat /\ appsStopped < NumApps /\ NumApps \in Nat
  BY <1>4, TimesAssumption DEF StopInv
<1>6. a = appsStopped + 1
  <2>1. SUFFICES ASSUME a # appsStopped + 1
                 PROVE  FALSE
    OBVIOUS
  <2>2. /\ StopEvent(appsStopped + 1) \in m_events
        /\ appsStopped + 1 \in 1 .. NumApps
    BY <1>5, NextStop
  <2>3. StopEvent(appsStopped + 1) # e
    BY <1>4, <2>1 DEF StopEvent
  <2>4. Earlier(e, StopEvent(appsStopped + 1))
    BY <1>1, <2>2, <2>3 DEF ProcessOneEvent, IsNext
  <2>5. a < appsStopped + 1
    BY <1>4, <2>4, TimesAssumption DEF Earlier, StopEvent
  <2>6. QED
    BY <1>4, <1>5, <2>5
<1>7. PendingCalls("Stop")' = {x \in StopEvents : appsStopped' < x.uid}
  <2>1. PendingCalls("Stop")' = PendingCalls("Stop") \ {e}
    BY <1>2 DEF PendingCalls
  <2>2. \A x \in StopEvents : appsStopped + 1 < x.uid <=> appsStopped < x.uid /\ x # e
    BY <1>4, <1>5, <1>6 DEF StopEvents, StopEvent
  <2>3. QED
    BY <1>1, <2>1, <2>2 DEF StopInv
<1>8. e.ts = StopTime /\ e.uid = a
  BY <1>4 DEF StopEvent
<1>9. \A x \in m_events' : x.fn # "Stop" => NumApps < x.uid
  BY <1>2 DEF StopInv
<1>10. StopTime \in Nat
  BY TimesAssumption
<1>11. QED
  BY <1>1, <1>2, <1>3, <1>4, <1>5, <1>6, <1>7, <1>8, <1>9, <1>10 DEF StopInv

\* No handler but StopApplication's is called or scheduled as a stop.
LEMMA OtherHandlers ==
  ASSUME EventInv, DeviceInv, NEW e,
         Send(e) \/ TransmitComplete(e) \/ Receive(e) \/ Wake(e)
  PROVE  /\ e.fn # "Stop" /\ appsStopped' = appsStopped
         /\ \E calls \in Calls : /\ ProcessOneEvent(e, calls)
                                 /\ \A x \in Inserted(e.ts, calls) : x.fn # "Stop"
<1>1. e.fn # "Stop" /\ appsStopped' = appsStopped
  BY DEF Send, TransmitComplete, Receive, Wake
<1>2. CASE Send(e)
  <2>1. PICK calls \in Calls : /\ ProcessOneEvent(e, calls)
                               /\ \A i \in DOMAIN calls : calls[i].fn = "Send"
    BY <1>2, SendCalls
  <2>2. \A x \in Inserted(e.ts, calls) : x.fn # "Stop"
    BY <2>1, NextEvent, InsertedTypes
  <2>3. QED
    BY <1>1, <2>1, <2>2
<1>3. CASE ProcessOneEvent(e, <<>>)
  BY <1>1, <1>3, NoCalls
<1>4. CASE m_queue # <<>> /\ ProcessOneEvent(e, SendHead(m_queue))
  <2>1. m_queue \in Seq(Packet)
    BY DEF DeviceInv
  <2>2. \A x \in Inserted(e.ts, SendHead(m_queue)) : x.fn # "Stop"
    BY <1>4, <2>1, SendHeadStops
  <2>3. QED
    BY <1>1, <1>4, <2>1, <2>2, SendHeadCalls
<1>5. QED
  BY <1>2, <1>3, <1>4 DEF TransmitComplete, Receive, Wake

\* What a turn of the queue disc schedules.
LEMMA RestartCalls ==
  ASSUME DeviceInv, RunInv, Restart
  PROVE  \/ UNCHANGED listVars
         \/ \E calls \in Calls : /\ Schedule(calls)
                                 /\ \A x \in Inserted(m_currentTs, calls) : x.fn # "Stop"
<1>1. CASE ~MayDequeue
  BY <1>1 DEF Restart
<1>2. CASE MayDequeue
  <2>1. PICK f \in {g \in Flow : flows[g] # <<>>} :
          \E k \in 1 .. (IF CoDelDrops THEN Len(flows[f]) ELSE 1) :
            DeviceSend([flow |-> f, n |-> flows[f][k]])
    BY <1>2 DEF Restart
  <2>2. PICK k \in 1 .. (IF CoDelDrops THEN Len(flows[f]) ELSE 1) :
          DeviceSend([flow |-> f, n |-> flows[f][k]])
    BY <2>1
  <2>3. flows[f] \in Seq(1 .. MaxPackets) /\ Len(flows[f]) \in Nat \ {0}
    BY DEF RunInv
  <2>4. k \in 1 .. Len(flows[f])
    BY <2>3
  <2>5. PICK p : p = [flow |-> f, n |-> flows[f][k]]
    OBVIOUS
  <2>6. p \in Packet
    BY <2>3, <2>4, <2>5, ElementOfSeq DEF Packet
  <2>7. PICK q : q = Append(m_queue, p)
    OBVIOUS
  <2>8. q \in Seq(Packet) /\ q # <<>>
    BY <2>6, <2>7 DEF DeviceInv
  <2>9. SendHead(q) \in Calls /\ \A x \in Inserted(m_currentTs, SendHead(q)) : x.fn # "Stop"
    BY <2>8, SendHeadCalls, SendHeadStops
  <2>10. Schedule(<<>>) \/ Schedule(SendHead(q))
    BY <2>2, <2>5, <2>7 DEF DeviceSend
  <2>11. QED
    BY <2>9, <2>10, NoCalls
<1>3. QED
  BY <1>1, <1>2

\* A packet handed to the device stops nothing.
LEMMA RestartStops ==
  ASSUME EventInv, DeviceInv, RunInv, StopInv, Restart
  PROVE  StopInv'
<1>1. appsStopped' = appsStopped
  BY DEF Restart
<1>2. CASE UNCHANGED listVars
  BY <1>1, <1>2 DEF listVars, StopInv, PendingCalls
<1>3. ASSUME NEW calls \in Calls, Schedule(calls),
             \A x \in Inserted(m_currentTs, calls) : x.fn # "Stop"
      PROVE  StopInv'
  <2>1. /\ m_events' = m_events \cup Inserted(m_currentTs, calls)
        /\ m_uid' = m_uid + Len(calls) /\ Len(calls) \in Nat
        /\ UNCHANGED <<m_currentTs, m_currentUid>>
    BY <1>3 DEF Schedule, Calls
  <2>2. PendingCalls("Stop")' = PendingCalls("Stop")
    BY <1>3, <2>1 DEF PendingCalls
  <2>3. NumApps \in Nat /\ m_uid \in Nat /\ NumApps < m_uid /\ NumApps < m_uid'
    BY <2>1, TimesAssumption DEF EventInv, StopInv
  <2>4. \A x \in Inserted(m_currentTs, calls) : x.uid \in Nat /\ m_uid <= x.uid
    BY InsertedTypes DEF EventInv
  <2>5. \A x \in m_events' : x.fn # "Stop" => NumApps < x.uid
    BY <2>1, <2>3, <2>4 DEF StopInv
  <2>6. QED
    BY <1>1, <2>1, <2>2, <2>3, <2>5 DEF StopInv
<1>4. QED
  BY <1>2, <1>3, RestartCalls

\* The invariant of the stop events holds at the start.
LEMMA StopInvInit == LinkInit => StopInv
<1> SUFFICES ASSUME LinkInit PROVE StopInv
  OBVIOUS
<1>1. PICK order \in Bijection(Flow, NumApps + 1 .. NumApps + Cardinality(Flow)) :
        m_events = StopEvents \cup {FirstSend(f, order[f]) : f \in Flow}
  BY DEF LinkInit
<1>2. \A f \in Flow : order[f] \in NumApps + 1 .. NumApps + Cardinality(Flow)
  <2>1. order \in [Flow -> NumApps + 1 .. NumApps + Cardinality(Flow)]
    BY Zenon DEF Bijection, Injection
  <2>2. QED
    BY <2>1
<1>3. Cardinality(Flow) \in Nat
  BY FlowAssumption, FS_CardinalityType
<1>4. /\ m_currentTs = 0 /\ m_currentUid = 0 /\ appsStopped = 0
      /\ m_uid = NumApps + Cardinality(Flow) + 1
  BY DEF LinkInit
<1>5. PendingCalls("Stop") = {e \in StopEvents : appsStopped < e.uid}
  <2>1. PendingCalls("Stop") = StopEvents
    BY <1>1 DEF PendingCalls, StopEvents, FirstSend
  <2>2. \A e \in StopEvents : 0 < e.uid
    BY TimesAssumption DEF StopEvents
  <2>3. QED
    BY <1>4, <2>1, <2>2
<1>6. \A e \in m_events : e.fn # "Stop" => NumApps < e.uid
  BY <1>1, <1>2, <1>3, TimesAssumption DEF StopEvents, FirstSend
<1>7. QED
  BY <1>3, <1>4, <1>5, <1>6, TimesAssumption DEF StopInv

\* Every step keeps the invariant of the stop events.
LEMMA StopInvNext ==
  ASSUME LinkInv, StopInv, [LinkNext]_linkVars
  PROVE  StopInv'
<1>1. EventInv /\ DeviceInv /\ RunInv
  BY DEF LinkInv
<1>2. ASSUME NEW e, Send(e) \/ TransmitComplete(e) \/ Receive(e) \/ Wake(e)
      PROVE  StopInv'
  BY <1>1, <1>2, OtherHandlers, OtherEventStops
<1>3. ASSUME NEW e, Stop(e)
      PROVE  StopInv'
  BY <1>1, <1>3, StopStep
<1>4. CASE Restart
  BY <1>1, <1>4, RestartStops
<1>5. CASE UNCHANGED linkVars
  BY <1>5 DEF linkVars, listVars, StopInv, PendingCalls
<1>6. QED
  BY <1>2, <1>3, <1>4, <1>5 DEF LinkNext, RunEvent, RunReturns

(***************************************************************************)
(* All applications stop with nothing in between and before everything     *)
(* else of that time, for any number of them: what the protocol's model    *)
(* takes for granted with BetweenEvents.                                   *)
(***************************************************************************)
THEOREM StopsFirstCorrect == LinkSpec => []StopsFirst
<1>1. LinkInit => LinkInv /\ StopInv
  BY LinkInvInit, StopInvInit
<1>2. LinkInv /\ StopInv /\ [LinkNext]_linkVars => LinkInv' /\ StopInv'
  BY LinkInvNext, StopInvNext
<1>3. LinkInv /\ StopInv => StopsFirst
  <2> SUFFICES ASSUME LinkInv, StopInv PROVE StopsFirst
    OBVIOUS
  <2>1. /\ appsStopped \in 0 .. NumApps /\ NumApps \in Nat /\ StopTime \in Nat
        /\ m_currentTs \in Nat /\ m_currentUid \in Nat
    BY TimesAssumption DEF StopInv, LinkInv, EventInv
  <2> DEFINE next == StopEvent(appsStopped + 1)
  <2>2. next.ts = StopTime /\ next.uid = appsStopped + 1 /\ next.fn = "Stop"
    BY DEF StopEvent
  <2>3. ASSUME appsStopped < NumApps
        PROVE  next \in PendingCalls("Stop") /\ m_currentTs <= StopTime
    BY <2>2, <2>3, NextStop DEF PendingCalls, LinkInv, EventInv
  <2>4. ASSUME appsStopped < NumApps, appsStopped > 0
        PROVE  IsNext(next)
    <3>1. SUFFICES ASSUME NEW x \in m_events \ {next}
                   PROVE  Earlier(next, x)
      BY <2>3, <2>4 DEF IsNext, PendingCalls
    <3>2. x.ts \in Nat /\ x.uid \in Nat /\ m_currentTs <= x.ts /\ StopTime <= m_currentTs
      BY <2>4 DEF LinkInv, EventInv, StopInv
    <3>3. CASE x.fn = "Stop"
      <4>1. PICK a \in 1 .. NumApps : x = StopEvent(a) /\ appsStopped < a
        BY <3>3 DEF StopInv, StopEvents, StopEvent, PendingCalls
      <4>2. a # appsStopped + 1
        BY <4>1
      <4>3. x.ts = StopTime /\ x.uid = a
        BY <4>1 DEF StopEvent
      <4>4. QED
        BY <2>1, <2>2, <4>1, <4>2, <4>3 DEF Earlier
    <3>4. CASE x.fn # "Stop"
      <4>1. NumApps < x.uid
        BY <3>4 DEF StopInv
      <4>2. QED
        BY <2>1, <2>2, <2>4, <3>2, <4>1 DEF Earlier
    <3>5. QED
      BY <3>3, <3>4
  <2> HIDE DEF next
  <2>5. appsStopped \notin {0, NumApps} => \E e \in PendingCalls("Stop") : IsNext(e)
    BY <2>1, <2>3, <2>4
  <2>6. m_currentTs > StopTime => appsStopped = NumApps
    BY <2>1, <2>3
  <2>7. (m_currentTs = StopTime /\ m_currentUid > NumApps) => appsStopped = NumApps
    BY <2>1 DEF StopInv
  <2>8. QED
    BY <2>5, <2>6, <2>7 DEF StopsFirst
<1>4. QED
  BY <1>1, <1>2, <1>3, PTL DEF LinkSpec
--------------------------------------------------------------------------------
(***************************************************************************)
(* The packets of a flow on their way: what may happen to them.            *)
(***************************************************************************)

\* A packet is sent: it waits behind all others.
LEMMA StreamSend ==
  ASSUME NEW flying, NEW queued, NEW waiting, NEW last, NEW total, NEW dropped,
         Stream(flying, queued, waiting, last, total, dropped)
  PROVE  Stream(flying, queued, waiting \cup {total + 1}, last, total + 1, dropped)
<1>1. total \in Nat /\ last \in 0 .. total /\ dropped \subseteq 1 .. total
  BY DEF Stream
<1>2. (last + 1 .. total + 1) \ dropped = ((last + 1 .. total) \ dropped) \cup {total + 1}
  BY <1>1
<1>3. \A a \in flying \cup queued : a < total + 1
  <2>1. \A a \in flying \cup queued : a \in last + 1 .. total
    BY DEF Stream
  <2>2. QED
    BY <1>1, <2>1
<1>4. dropped \subseteq 1 .. total + 1 /\ last \in 0 .. total + 1
  BY <1>1
<1>5. QED
  BY <1>1, <1>2, <1>3, <1>4 DEF Stream

\* A packet that is sent is dropped instead of waiting.
LEMMA StreamRefuse ==
  ASSUME NEW flying, NEW queued, NEW waiting, NEW last, NEW total, NEW dropped,
         Stream(flying, queued, waiting, last, total, dropped)
  PROVE  Stream(flying, queued, waiting, last, total + 1, dropped \cup {total + 1})
<1>1. total \in Nat /\ last \in 0 .. total /\ dropped \subseteq 1 .. total
  BY DEF Stream
<1>2. (last + 1 .. total + 1) \ (dropped \cup {total + 1}) = (last + 1 .. total) \ dropped
  BY <1>1
<1>3. dropped \cup {total + 1} \subseteq 1 .. total + 1 /\ last \in 0 .. total + 1
  BY <1>1
<1>4. total + 1 \in Nat
  BY <1>1
<1>5. QED
  BY <1>2, <1>3, <1>4 DEF Stream

\* Waiting packets are dropped.
LEMMA StreamLose ==
  ASSUME NEW flying, NEW queued, NEW waiting, NEW last, NEW total, NEW dropped,
         Stream(flying, queued, waiting, last, total, dropped),
         NEW gone \in SUBSET waiting
  PROVE  /\ Stream(flying, queued, waiting \ gone, last, total, dropped \cup gone)
         /\ gone \subseteq last + 1 .. total
<1>1. total \in Nat /\ last \in 0 .. total /\ dropped \subseteq 1 .. total
  BY DEF Stream
<1>2. gone \subseteq last + 1 .. total
  BY DEF Stream
<1>3. gone \subseteq 1 .. total
  BY <1>1, <1>2
<1>4. \A x \in flying \cup queued : x \notin gone
  <2>1. \A x \in flying \cup queued : x \in Int /\ \A c \in waiting : x < c
    BY <1>1 DEF Stream
  <2>2. QED
    BY <2>1
<1>5. flying \cup queued \cup (waiting \ gone) = (last + 1 .. total) \ (dropped \cup gone)
  BY <1>4 DEF Stream
<1>6. QED
  BY <1>1, <1>2, <1>3, <1>5 DEF Stream

\* The first of the waiting packets goes to the device.
LEMMA StreamQueue ==
  ASSUME NEW flying, NEW queued, NEW waiting, NEW last, NEW total, NEW dropped,
         Stream(flying, queued, waiting, last, total, dropped),
         NEW n \in waiting, \A c \in waiting \ {n} : n < c
  PROVE  Stream(flying, queued \cup {n}, waiting \ {n}, last, total, dropped)
  BY DEF Stream

\* The device transmits the first packet it has.
LEMMA StreamTransmit ==
  ASSUME NEW flying, NEW queued, NEW waiting, NEW last, NEW total, NEW dropped,
         Stream(flying, queued, waiting, last, total, dropped),
         NEW n \in queued, \A b \in queued \ {n} : n < b
  PROVE  Stream(flying \cup {n}, queued \ {n}, waiting, last, total, dropped)
  BY DEF Stream

\* The first packet on the channel arrives: those before it are lost.
LEMMA StreamArrive ==
  ASSUME NEW flying, NEW queued, NEW waiting, NEW last, NEW total, NEW dropped,
         Stream(flying, queued, waiting, last, total, dropped),
         NEW n \in flying, \A a \in flying \ {n} : n < a
  PROVE  /\ Stream(flying \ {n}, queued, waiting, n, total, dropped)
         /\ n \in last + 1 .. total /\ n \notin dropped
         /\ last + 1 .. n - 1 \subseteq dropped
<1>1. total \in Nat /\ last \in 0 .. total /\ dropped \subseteq 1 .. total
  BY DEF Stream
<1>2. n \in last + 1 .. total /\ n \notin dropped
  BY DEF Stream
<1>3. \A x \in (flying \cup queued \cup waiting) \ {n} : n < x
  BY DEF Stream
<1>4. ASSUME NEW x \in last + 1 .. n - 1
      PROVE  x \in dropped
  <2>1. x \in last + 1 .. total /\ ~(n < x) /\ x # n
    BY <1>1, <1>2
  <2>2. QED
    BY <1>3, <2>1 DEF Stream
<1>5. (flying \ {n}) \cup queued \cup waiting = (n + 1 .. total) \ dropped
  <2>1. \A b \in queued \cup waiting : b # n
    <3>1. \A b \in queued \cup waiting : n < b
      BY DEF Stream
    <3>2. n \in Int
      BY <1>1, <1>2
    <3>3. QED
      BY <3>1, <3>2
  <2>2. (flying \ {n}) \cup queued \cup waiting = (flying \cup queued \cup waiting) \ {n}
    BY <2>1
  <2>3. \A x \in (flying \cup queued \cup waiting) \ {n} : x \in last + 1 .. total /\ n < x
    BY <1>3 DEF Stream
  <2>4. \A x \in (flying \cup queued \cup waiting) \ {n} : x \in (n + 1 .. total) \ dropped
    BY <1>1, <1>2, <2>3 DEF Stream
  <2>5. \A x \in (n + 1 .. total) \ dropped : x \in ((last + 1 .. total) \ dropped) \ {n}
    BY <1>1, <1>2
  <2>6. QED
    BY <2>2, <2>4, <2>5 DEF Stream
<1>6. n \in 0 .. total
  BY <1>1, <1>2
<1>7. QED
  BY <1>1, <1>2, <1>4, <1>5, <1>6 DEF Stream

(***************************************************************************)
(* An increasing sequence without its first elements.                      *)
(***************************************************************************)
LEMMA DropFirst ==
  ASSUME NEW s \in Seq(Int), Increasing(s), NEW k \in 0 .. Len(s)
  PROVE  /\ Increasing(SubSeq(s, k + 1, Len(s)))
         /\ ToSet(SubSeq(s, 1, k)) \subseteq ToSet(s)
         /\ ToSet(SubSeq(s, k + 1, Len(s))) = ToSet(s) \ ToSet(SubSeq(s, 1, k))
<1>1. Len(s) \in Nat /\ k \in Nat /\ DOMAIN s = 1 .. Len(s)
  BY LenProperties
<1>2. \A i \in 1 .. Len(s) : s[i] \in Int
  BY ElementOfSeq
<1> DEFINE head == SubSeq(s, 1, k)
           rest == SubSeq(s, k + 1, Len(s))
<1>3. /\ DOMAIN head = 1 .. k
      /\ \A i \in 1 .. k : head[i] = s[i]
  <2>1. \A i \in 1 .. k : s[i] \in Int
    BY <1>1, <1>2
  <2>2. head \in Seq(Int) /\ Len(head) = k
    BY <1>1, <2>1, SubSeqProperties
  <2>3. \A i \in 1 .. k : head[i] = s[i]
    BY <1>1
  <2>4. QED
    BY <2>2, <2>3, LenProperties
<1>4. /\ DOMAIN rest = 1 .. Len(s) - k
      /\ \A i \in 1 .. Len(s) - k : rest[i] = s[k + i]
  <2>1. \A i \in k + 1 .. Len(s) : s[i] \in Int
    BY <1>1, <1>2
  <2>2. rest \in Seq(Int) /\ Len(rest) = Len(s) - k
    <3>1. PICK m \in Int : m = k + 1
      BY <1>1
    <3>2. Len(s) \in Int /\ \A j \in m .. Len(s) : s[j] \in Int
      BY <1>1, <2>1, <3>1
    <3>3. /\ SubSeq(s, m, Len(s)) \in Seq(Int)
          /\ Len(SubSeq(s, m, Len(s))) = IF m <= Len(s) THEN Len(s) - m + 1 ELSE 0
      BY <3>2, SubSeqProperties
    <3>4. rest = SubSeq(s, m, Len(s))
      BY <3>1, Zenon
    <3> HIDE DEF rest
    <3>5. Len(rest) = IF m <= Len(s) THEN Len(s) - m + 1 ELSE 0
      BY <3>3, <3>4
    <3>6. Len(rest) = Len(s) - k
      <4>1. PICK n \in Nat : n = Len(s)
        BY <1>1, Zenon
      <4>2. k \in Nat /\ k <= n
        BY <1>1, <4>1
      <4>3. m <= n \/ (n - k = 0 /\ ~(m <= n))
        BY <3>1, <4>2
      <4>4. n - m + 1 = n - k
        BY <3>1, <4>2
      <4>5. QED
        BY <3>5, <4>1, <4>3, <4>4
    <3>7. QED
      BY <3>3, <3>4, <3>6
  <2>3. \A i \in 1 .. Len(s) - k : rest[i] = s[k + i]
    BY <1>1
  <2>4. QED
    BY <2>2, <2>3, LenProperties
<1> HIDE DEF head, rest
<1>5. \A i, j \in 1 .. Len(s) : i < j => s[i] < s[j]
  BY <1>1 DEF Increasing
<1>6. Increasing(rest)
  <2>1. SUFFICES ASSUME NEW i \in 1 .. Len(s) - k, NEW j \in 1 .. Len(s) - k, i < j
                 PROVE  rest[i] < rest[j]
    BY <1>4 DEF Increasing
  <2>2. k + i \in 1 .. Len(s) /\ k + j \in 1 .. Len(s) /\ k + i < k + j
    BY <1>1, <2>1
  <2>3. s[k + i] < s[k + j]
    BY <1>5, <2>2
  <2>4. QED
    BY <1>4, <2>3
<1>7. ToSet(head) = {s[i] : i \in 1 .. k}
  BY <1>3 DEF ToSet
<1>8. ToSet(rest) = {s[i] : i \in k + 1 .. Len(s)}
  <2>1. \A i \in 1 .. Len(s) - k : k + i \in k + 1 .. Len(s)
    BY <1>1
  <2>2. \A i \in k + 1 .. Len(s) : i - k \in 1 .. Len(s) - k /\ k + (i - k) = i
    BY <1>1
  <2>3. ToSet(rest) = {s[k + i] : i \in 1 .. Len(s) - k}
    BY <1>4 DEF ToSet
  <2>4. \A i \in k + 1 .. Len(s) : s[i] \in {s[k + j] : j \in 1 .. Len(s) - k}
    BY <2>2
  <2>5. QED
    BY <2>1, <2>3, <2>4
<1>9. ToSet(s) = {s[i] : i \in 1 .. Len(s)}
  BY <1>1 DEF ToSet
<1>10. ASSUME NEW i \in 1 .. k, NEW j \in k + 1 .. Len(s)
       PROVE  s[i] # s[j]
  <2>1. i \in 1 .. Len(s) /\ j \in 1 .. Len(s) /\ i < j
    BY <1>1
  <2>2. QED
    BY <1>2, <1>5, <2>1
<1>11. 1 .. Len(s) = (1 .. k) \cup (k + 1 .. Len(s))
  BY <1>1
<1>12. QED
  BY <1>6, <1>7, <1>8, <1>9, <1>10, <1>11 DEF head, rest

\* The first element of an increasing sequence is the least, and taking it
\* after k - 1 others takes k.
LEMMA TakeFirst ==
  ASSUME NEW s \in Seq(Int), Increasing(s), NEW k \in 1 .. Len(s)
  PROVE  /\ ToSet(SubSeq(s, 1, k)) = ToSet(SubSeq(s, 1, k - 1)) \cup {s[k]}
         /\ s[k] \in ToSet(s) \ ToSet(SubSeq(s, 1, k - 1))
         /\ \A c \in (ToSet(s) \ ToSet(SubSeq(s, 1, k - 1))) \ {s[k]} : s[k] < c
<1>1. Len(s) \in Nat /\ k \in Nat /\ k >= 1 /\ k <= Len(s) /\ DOMAIN s = 1 .. Len(s)
  BY LenProperties
<1>2. \A i \in 1 .. Len(s) : s[i] \in Int
  BY ElementOfSeq
<1>3. ASSUME NEW h \in 0 .. Len(s)
      PROVE  ToSet(SubSeq(s, 1, h)) = {s[i] : i \in 1 .. h}
  <2>1. \A i \in 1 .. h : s[i] \in Int
    BY <1>1, <1>2
  <2>2. SubSeq(s, 1, h) \in Seq(Int) /\ Len(SubSeq(s, 1, h)) = h
    BY <1>1, <2>1, SubSeqProperties
  <2>3. DOMAIN SubSeq(s, 1, h) = 1 .. h
    BY <2>2, LenProperties
  <2>4. \A i \in 1 .. h : SubSeq(s, 1, h)[i] = s[i]
    BY <1>1
  <2>5. QED
    BY <2>3, <2>4 DEF ToSet
<1>4. /\ ToSet(SubSeq(s, 1, k)) = {s[i] : i \in 1 .. k}
      /\ ToSet(SubSeq(s, 1, k - 1)) = {s[i] : i \in 1 .. k - 1}
  <2>1. k \in 0 .. Len(s) /\ k - 1 \in 0 .. Len(s)
    BY <1>1
  <2>2. QED
    BY <1>3, <2>1
<1>5. 1 .. k = (1 .. k - 1) \cup {k}
  BY <1>1
<1>6. ToSet(s) = {s[i] : i \in 1 .. Len(s)}
  BY <1>1 DEF ToSet
<1>7. \A i, j \in 1 .. Len(s) : i < j => s[i] < s[j]
  BY <1>1 DEF Increasing
<1>8. \A i \in 1 .. k - 1 : i \in 1 .. Len(s) /\ i < k
  BY <1>1
<1>9. \A i \in 1 .. k - 1 : s[i] # s[k]
  BY <1>1, <1>2, <1>7, <1>8
<1>10. ASSUME NEW c \in (ToSet(s) \ ToSet(SubSeq(s, 1, k - 1))) \ {s[k]}
       PROVE  s[k] < c
  <2>1. PICK i \in 1 .. Len(s) : c = s[i]
    BY <1>6
  <2>2. i \notin 1 .. k - 1 /\ i # k
    BY <1>4, <2>1
  <2>3. k < i
    BY <1>1, <2>1, <2>2
  <2>4. QED
    BY <1>1, <1>7, <2>1, <2>3
<1>11. QED
  BY <1>1, <1>4, <1>5, <1>6, <1>9, <1>10
(***************************************************************************)
(* The device's queue: a packet of each flow is behind the earlier ones.   *)
(***************************************************************************)
LEMMA AppendOfFlow ==
  ASSUME NEW q \in Seq(Packet), NEW p \in Packet, InOrder(q),
         \A n \in OfFlow(q, p.flow) : n < p.n
  PROVE  /\ InOrder(Append(q, p))
         /\ OfFlow(Append(q, p), p.flow) = OfFlow(q, p.flow) \cup {p.n}
         /\ \A f \in Flow \ {p.flow} : OfFlow(Append(q, p), f) = OfFlow(q, f)
<1>1. /\ Len(q) \in Nat /\ DOMAIN q = 1 .. Len(q)
      /\ DOMAIN Append(q, p) = 1 .. Len(q) + 1
  BY AppendProperties, LenProperties
<1>2. PICK n \in Nat : n = Len(q)
  BY <1>1, Zenon
<1>3. PICK a : a = Append(q, p)
  OBVIOUS
<1>4. /\ DOMAIN q = 1 .. n /\ DOMAIN a = 1 .. n + 1
      /\ \A i \in 1 .. n : a[i] = q[i]
      /\ a[n + 1] = p
  BY <1>1, <1>2, <1>3, AppendProperties
<1>5. 1 .. n + 1 = (1 .. n) \cup {n + 1} /\ \A i \in 1 .. n : i < n + 1 /\ i # n + 1
  OBVIOUS
<1>6. \A i \in 1 .. n : q[i].flow = p.flow => q[i].n < p.n
  BY <1>4 DEF OfFlow
<1>7. InOrder(a)
  <2>1. SUFFICES ASSUME NEW i \in 1 .. n + 1, NEW j \in 1 .. n + 1, i < j, a[i].flow = a[j].flow
                 PROVE  a[i].n < a[j].n
    BY <1>4 DEF InOrder
  <2>2. i \in 1 .. n
    BY <2>1
  <2>3. CASE j \in 1 .. n
    BY <1>4, <2>1, <2>2, <2>3 DEF InOrder
  <2>4. CASE j = n + 1
    BY <1>4, <1>6, <2>1, <2>2, <2>4
  <2>5. QED
    BY <1>5, <2>3, <2>4
<1>8. OfFlow(a, p.flow) = OfFlow(q, p.flow) \cup {p.n}
  BY <1>4, <1>5 DEF OfFlow
<1>9. \A f \in Flow \ {p.flow} : OfFlow(a, f) = OfFlow(q, f)
  BY <1>4, <1>5 DEF OfFlow
<1>10. QED
  BY <1>3, <1>7, <1>8, <1>9

\* The head of the queue is the first of its flow.
LEMMA TailOfFlow ==
  ASSUME NEW q \in Seq(Packet), q # <<>>, InOrder(q)
  PROVE  /\ Head(q) \in Packet /\ Tail(q) \in Seq(Packet) /\ InOrder(Tail(q))
         /\ Head(q).n \in OfFlow(q, Head(q).flow)
         /\ \A b \in OfFlow(q, Head(q).flow) \ {Head(q).n} : Head(q).n < b
         /\ OfFlow(Tail(q), Head(q).flow) = OfFlow(q, Head(q).flow) \ {Head(q).n}
         /\ \A f \in Flow \ {Head(q).flow} : OfFlow(Tail(q), f) = OfFlow(q, f)
<1>1. /\ Len(q) \in Nat /\ DOMAIN q = 1 .. Len(q) /\ Len(q) # 0
      /\ Tail(q) \in Seq(Packet) /\ Len(Tail(q)) = Len(q) - 1
  BY LenProperties, HeadTailProperties
<1>2. PICK n \in Nat \ {0} : n = Len(q)
  BY <1>1, Zenon
<1>3. PICK h, t : h = Head(q) /\ t = Tail(q)
  OBVIOUS
<1>4. /\ h = q[1] /\ DOMAIN q = 1 .. n /\ DOMAIN t = 1 .. n - 1
      /\ \A i \in 1 .. n - 1 : t[i] = q[i + 1]
  BY <1>1, <1>2, <1>3, HeadTailProperties, LenProperties
<1>5. \A i \in 1 .. n : q[i] \in Packet
  BY <1>2, ElementOfSeq
<1>6. h \in Packet /\ \A i \in 1 .. n : q[i].n \in Nat
  BY <1>4, <1>5 DEF Packet
<1>7. \A i \in 1 .. n : (i # 1 /\ q[i].flow = h.flow) => h.n < q[i].n
  <2>1. \A i \in 1 .. n : 1 < i \/ i = 1
    OBVIOUS
  <2>2. 1 \in 1 .. n
    OBVIOUS
  <2>3. QED
    BY <1>4, <2>1, <2>2 DEF InOrder
<1>8. InOrder(t)
  <2>1. SUFFICES ASSUME NEW i \in 1 .. n - 1, NEW j \in 1 .. n - 1, i < j, t[i].flow = t[j].flow
                 PROVE  t[i].n < t[j].n
    BY <1>4 DEF InOrder
  <2>2. i + 1 \in 1 .. n /\ j + 1 \in 1 .. n /\ i + 1 < j + 1
    BY <2>1
  <2>3. q[i + 1].flow = q[j + 1].flow
    BY <1>4, <2>1
  <2>4. q[i + 1].n < q[j + 1].n
    BY <1>4, <2>2, <2>3 DEF InOrder
  <2>5. QED
    BY <1>4, <2>4
<1>9. ASSUME NEW f
      PROVE  OfFlow(t, f) = {q[i].n : i \in {j \in 1 .. n : j # 1 /\ q[j].flow = f}}
  <2>1. \A i \in 1 .. n - 1 : i + 1 \in 1 .. n /\ i + 1 # 1
    OBVIOUS
  <2>2. \A i \in 1 .. n : i # 1 => i - 1 \in 1 .. n - 1 /\ i - 1 + 1 = i
    OBVIOUS
  <2>3. OfFlow(t, f) = {t[i].n : i \in {j \in 1 .. n - 1 : t[j].flow = f}}
    BY <1>4, Zenon DEF OfFlow
  <2>4. ASSUME NEW i \in 1 .. n - 1, t[i].flow = f
        PROVE  t[i].n \in {q[k].n : k \in {j \in 1 .. n : j # 1 /\ q[j].flow = f}}
    BY <1>4, <2>1, <2>4
  <2>5. ASSUME NEW i \in 1 .. n, i # 1, q[i].flow = f
        PROVE  q[i].n \in {t[k].n : k \in {j \in 1 .. n - 1 : t[j].flow = f}}
    <3>1. PICK j \in 1 .. n - 1 : j + 1 = i
      BY <2>2, <2>5
    <3>2. t[j] = q[i]
      BY <1>4, <3>1
    <3>3. QED
      BY <2>5, <3>2
  <2>6. QED
    BY <2>3, <2>4, <2>5
<1>10. 1 \in 1 .. n
  OBVIOUS
<1>11. h.n \in OfFlow(q, h.flow)
  BY <1>4, <1>10 DEF OfFlow
<1>12. \A b \in OfFlow(q, h.flow) \ {h.n} : h.n < b
  BY <1>4, <1>7 DEF OfFlow
<1>13. OfFlow(t, h.flow) = OfFlow(q, h.flow) \ {h.n}
  <2>1. \A i \in 1 .. n : (i # 1 /\ q[i].flow = h.flow) => q[i].n # h.n
    <3>1. \A i \in 1 .. n : q[i].n \in Int
      BY <1>6
    <3>2. QED
      BY <1>7, <3>1, <1>4, <1>10
  <2>2. OfFlow(t, h.flow) = {q[i].n : i \in {j \in 1 .. n : j # 1 /\ q[j].flow = h.flow}}
    BY <1>9, Zenon
  <2>3. OfFlow(q, h.flow) = {q[i].n : i \in {j \in 1 .. n : q[j].flow = h.flow}}
    BY <1>4, Zenon DEF OfFlow
  <2>4. QED
    BY <1>4, <1>10, <2>1, <2>2, <2>3
<1>14. ASSUME NEW f \in Flow \ {h.flow}
       PROVE  OfFlow(t, f) = OfFlow(q, f)
  <2>1. OfFlow(t, f) = {q[i].n : i \in {j \in 1 .. n : j # 1 /\ q[j].flow = f}}
    BY <1>9, Zenon
  <2>2. OfFlow(q, f) = {q[i].n : i \in {j \in 1 .. n : q[j].flow = f}}
    BY <1>4, Zenon DEF OfFlow
  <2>3. \A j \in 1 .. n : q[j].flow = f => j # 1
    BY <1>4
  <2>4. QED
    BY <2>1, <2>2, <2>3
<1>15. QED
  BY <1>1, <1>3, <1>6, <1>8, <1>11, <1>12, <1>13, <1>14
(***************************************************************************)
(* The channel.  A step without a transmission leaves the packets on it.   *)
(***************************************************************************)
LEMMA FlightUntouched ==
  ASSUME EventInv, ReceiveInv, PendingCalls("Receive")' = PendingCalls("Receive"),
         m_currentTs' \in Nat, m_currentTs <= m_currentTs'
  PROVE  ReceiveInv' /\ \A f \in Flow : InFlight(f)' = InFlight(f)
<1>1. \A e \in PendingCalls("Receive") : e.ts <= m_currentTs' + (TxTime + Delay)
  <2>1. \A e \in PendingCalls("Receive") : e.ts \in Nat /\ e.ts <= m_currentTs + (TxTime + Delay)
    BY DEF EventInv, ReceiveInv, PendingCalls
  <2>2. m_currentTs \in Nat /\ TxTime \in Nat /\ Delay \in Nat
    BY TimesAssumption DEF EventInv
  <2>3. QED
    BY <2>1, <2>2
<1>2. QED
  BY <1>1 DEF ReceiveInv, InFlight

\* A transmission ends at a time.
LEMMA FlightTime == \A t \in Nat : t + (TxTime + Delay) \in Nat
  BY TimesAssumption

\* A transmission starts: its packet arrives after all others of its flow.
LEMMA FlightGrows ==
  ASSUME EventInv, ReceiveInv, NEW r, r.arg \in Packet, r.uid \in Nat, m_uid <= r.uid,
         r.ts = m_currentTs' + (TxTime + Delay),
         PendingCalls("Receive")' = PendingCalls("Receive") \cup {r},
         m_currentTs' \in Nat, m_currentTs <= m_currentTs',
         \A n \in InFlight(r.arg.flow) : n < r.arg.n
  PROVE  /\ ReceiveInv'
         /\ InFlight(r.arg.flow)' = InFlight(r.arg.flow) \cup {r.arg.n}
         /\ \A f \in Flow \ {r.arg.flow} : InFlight(f)' = InFlight(f)
<1>1. /\ m_currentTs \in Nat /\ TxTime \in Nat /\ Delay \in Nat /\ m_uid \in Nat
      /\ r.ts \in Nat
  <2>1. m_currentTs \in Nat /\ TxTime \in Nat /\ Delay \in Nat /\ m_uid \in Nat
    BY TimesAssumption, Zenon DEF EventInv
  <2>2. m_currentTs' + (TxTime + Delay) \in Nat
    BY FlightTime
  <2>3. QED
    BY <2>1, <2>2, Zenon
<1>2. \A e \in PendingCalls("Receive") :
        /\ e.ts \in Nat /\ e.uid \in Nat /\ e.uid < m_uid
        /\ e.ts <= m_currentTs + (TxTime + Delay)
  BY DEF EventInv, ReceiveInv, PendingCalls
<1>3. \A e \in PendingCalls("Receive") : e.ts <= r.ts /\ e.uid < r.uid
  BY <1>1, <1>2
<1>4. \A e \in PendingCalls("Receive") : Earlier(e, r)
  BY <1>1, <1>2, <1>3 DEF Earlier
<1>5. \A e \in PendingCalls("Receive") : e.arg.flow = r.arg.flow => ArrivesBefore(e, r)
  BY <1>4 DEF InFlight, ArrivesBefore
<1>6. \A e \in PendingCalls("Receive")' :
        e.arg \in Packet /\ e.ts <= m_currentTs' + (TxTime + Delay)
  BY <1>1, <1>2, <1>3 DEF ReceiveInv
<1>7. \A x, y \in PendingCalls("Receive")' :
        x.arg.flow = y.arg.flow => x = y \/ ArrivesBefore(x, y) \/ ArrivesBefore(y, x)
  BY <1>5 DEF ReceiveInv
<1>8. ReceiveInv'
  BY <1>6, <1>7 DEF ReceiveInv, ArrivesBefore, Earlier
<1>9. QED
  BY <1>8 DEF InFlight

\* The event of an arrival is that of the first packet of its flow.
LEMMA FirstArrives ==
  ASSUME EventInv, ReceiveInv, NEW e, IsNext(e), e.fn = "Receive"
  PROVE  /\ e.arg \in Packet /\ e.arg.n \in InFlight(e.arg.flow)
         /\ \A n \in InFlight(e.arg.flow) \ {e.arg.n} : e.arg.n < n
         /\ {x.arg.n : x \in {y \in PendingCalls("Receive") \ {e} :
                                y.arg.flow = e.arg.flow}}
              = InFlight(e.arg.flow) \ {e.arg.n}
<1>1. e \in PendingCalls("Receive") /\ e.ts \in Nat /\ e.uid \in Nat /\ e.arg \in Packet
  BY DEF IsNext, PendingCalls, EventInv, ReceiveInv
<1>2. ASSUME NEW x \in PendingCalls("Receive"), x # e, x.arg.flow = e.arg.flow
      PROVE  e.arg.n < x.arg.n
  <2>1. Earlier(e, x) /\ x.ts \in Nat /\ x.uid \in Nat
    BY <1>2 DEF IsNext, PendingCalls, EventInv
  <2>2. ~Earlier(x, e)
    BY <1>1, <2>1 DEF Earlier
  <2>3. QED
    BY <1>1, <1>2, <2>2 DEF ReceiveInv, ArrivesBefore
<1>3. e.arg.n \in Int
  BY <1>1 DEF Packet
<1>4. \A x \in PendingCalls("Receive") : (x # e /\ x.arg.flow = e.arg.flow) => x.arg.n # e.arg.n
  BY <1>2, <1>3
<1>5. QED
  BY <1>1, <1>2, <1>4 DEF InFlight

(***************************************************************************)
(* The device starts to transmit the first packet of q, to which the step  *)
(* has brought its queue.                                                  *)
(***************************************************************************)
LEMMA Transmits ==
  ASSUME EventInv, ReceiveInv, NEW q \in Seq(Packet), q # <<>>, InOrder(q),
         NEW rest, m_events' = rest \cup Inserted(m_currentTs', SendHead(q)),
         {e \in rest : e.fn = "Receive"} = PendingCalls("Receive"),
         m_currentTs' \in Nat, m_currentTs <= m_currentTs', m_queue' = Tail(q),
         NEW waiting, NEW last, NEW total, NEW dropped,
         \A f \in Flow : Stream(InFlight(f), OfFlow(q, f), waiting[f], last[f],
                                total[f], dropped[f])
  PROVE  /\ ReceiveInv' /\ InOrder(m_queue')
         /\ {e \in rest : e.fn = "Send"} = PendingCalls("Send")'
         /\ \A f \in Flow : Stream(InFlight(f)', InDevice(f)', waiting[f], last[f],
                                   total[f], dropped[f])
<1> DEFINE t == m_currentTs'
           wake == [ts |-> t + 0, uid |-> m_uid + 1 - 1, fn |-> "Wake", arg |-> NoPacket]
           complete == [ts |-> t + TxTime, uid |-> m_uid + 2 - 1,
                        fn |-> "TransmitComplete", arg |-> NoPacket]
           receive == [ts |-> t + (TxTime + Delay), uid |-> m_uid + 3 - 1,
                       fn |-> "Receive", arg |-> Head(q)]
<1>1. m_events' = rest \cup {wake, complete, receive}
  BY SendHeadCalls
<1>2. /\ PendingCalls("Receive")' = PendingCalls("Receive") \cup {receive}
      /\ {e \in rest : e.fn = "Send"} = PendingCalls("Send")'
  BY <1>1 DEF PendingCalls
<1>3. PICK h : h = Head(q)
  OBVIOUS
<1>4. /\ h \in Packet /\ Tail(q) \in Seq(Packet) /\ InOrder(Tail(q))
      /\ h.n \in OfFlow(q, h.flow)
      /\ \A b \in OfFlow(q, h.flow) \ {h.n} : h.n < b
      /\ OfFlow(Tail(q), h.flow) = OfFlow(q, h.flow) \ {h.n}
      /\ \A f \in Flow \ {h.flow} : OfFlow(Tail(q), f) = OfFlow(q, f)
  BY <1>3, TailOfFlow
<1>5. PICK r : r = receive
  OBVIOUS
<1>6. /\ r.arg = h /\ r.uid = m_uid + 3 - 1 /\ r.ts = m_currentTs' + (TxTime + Delay)
  BY <1>3, <1>5
<1>7. r.uid \in Nat /\ m_uid <= r.uid
  BY <1>6 DEF EventInv
<1>8. h.flow \in Flow
  BY <1>4 DEF Packet
<1>9. \A n \in InFlight(h.flow) : n < h.n
  BY <1>4, <1>8 DEF Stream
<1>10. /\ ReceiveInv'
       /\ InFlight(h.flow)' = InFlight(h.flow) \cup {h.n}
       /\ \A f \in Flow \ {h.flow} : InFlight(f)' = InFlight(f)
  <2> HIDE DEF receive, wake, complete, t
  <2>1. PendingCalls("Receive")' = PendingCalls("Receive") \cup {r}
    BY <1>2, <1>5
  <2>2. r.arg \in Packet /\ \A n \in InFlight(r.arg.flow) : n < r.arg.n
    BY <1>4, <1>6, <1>9
  <2>3. /\ ReceiveInv'
        /\ InFlight(r.arg.flow)' = InFlight(r.arg.flow) \cup {r.arg.n}
        /\ \A f \in Flow \ {r.arg.flow} : InFlight(f)' = InFlight(f)
    BY <1>6, <1>7, <2>1, <2>2, FlightGrows
  <2>4. QED
    BY <1>6, <2>3
<1>11. \A f \in Flow : InDevice(f)' = OfFlow(Tail(q), f)
  BY DEF InDevice
<1>12. ASSUME NEW f \in Flow
       PROVE  Stream(InFlight(f)', InDevice(f)', waiting[f], last[f], total[f], dropped[f])
  <2>1. CASE f = h.flow
    <3>1. Stream(InFlight(f), OfFlow(q, f), waiting[f], last[f], total[f], dropped[f])
      OBVIOUS
    <3>2. h.n \in OfFlow(q, f) /\ \A b \in OfFlow(q, f) \ {h.n} : h.n < b
      BY <1>4, <2>1
    <3>3. Stream(InFlight(f) \cup {h.n}, OfFlow(q, f) \ {h.n}, waiting[f], last[f],
                 total[f], dropped[f])
      BY <3>1, <3>2, StreamTransmit
    <3>4. InFlight(f)' = InFlight(f) \cup {h.n} /\ InDevice(f)' = OfFlow(q, f) \ {h.n}
      BY <1>4, <1>10, <1>11, <2>1
    <3>5. QED
      BY <3>3, <3>4
  <2>2. CASE f # h.flow
    <3>1. InFlight(f)' = InFlight(f) /\ InDevice(f)' = OfFlow(q, f)
      BY <1>4, <1>10, <1>11, <2>2
    <3>2. QED
      BY <3>1
  <2>3. QED
    BY <2>1, <2>2
<1>13. InOrder(m_queue')
  BY <1>4
<1>14. QED
  BY <1>2, <1>10, <1>12, <1>13
(***************************************************************************)
(* The queue disc.  A packet is added behind those of its flow.            *)
(***************************************************************************)
LEMMA AddsPacket ==
  ASSUME NEW s \in Seq(Nat), NEW n \in Nat, Increasing(s), \A m \in ToSet(s) : m < n
  PROVE  Increasing(Append(s, n)) /\ ToSet(Append(s, n)) = ToSet(s) \cup {n}
<1>1. /\ Len(s) \in Nat /\ DOMAIN s = 1 .. Len(s)
      /\ DOMAIN Append(s, n) = 1 .. Len(s) + 1
  BY AppendProperties, LenProperties
<1>2. PICK l \in Nat : l = Len(s)
  BY <1>1, Zenon
<1>3. PICK a : a = Append(s, n)
  OBVIOUS
<1>4. /\ DOMAIN s = 1 .. l /\ DOMAIN a = 1 .. l + 1
      /\ \A i \in 1 .. l : a[i] = s[i]
      /\ a[l + 1] = n
  BY <1>1, <1>2, <1>3, AppendProperties
<1>5. 1 .. l + 1 = (1 .. l) \cup {l + 1} /\ \A i \in 1 .. l : i < l + 1 /\ i # l + 1
  OBVIOUS
<1>6. \A i \in 1 .. l : s[i] < n
  BY <1>4 DEF ToSet
<1>7. Increasing(a)
  <2>1. SUFFICES ASSUME NEW i \in 1 .. l + 1, NEW j \in 1 .. l + 1, i < j
                 PROVE  a[i] < a[j]
    BY <1>4 DEF Increasing
  <2>2. i \in 1 .. l
    BY <2>1
  <2>3. CASE j \in 1 .. l
    BY <1>4, <2>1, <2>2, <2>3 DEF Increasing
  <2>4. CASE j = l + 1
    BY <1>4, <1>6, <2>2, <2>4
  <2>5. QED
    BY <1>5, <2>3, <2>4
<1>8. ToSet(a) = ToSet(s) \cup {n}
  <2>1. ToSet(a) = {a[i] : i \in 1 .. l + 1} /\ ToSet(s) = {s[i] : i \in 1 .. l}
    BY <1>4, Zenon DEF ToSet
  <2>2. QED
    BY <1>4, <1>5, <2>1
<1>9. QED
  BY <1>3, <1>7, <1>8

\* The packets of a flow are numbered.
LEMMA NumbersOfFlow ==
  ASSUME NEW s \in Seq(1 .. MaxPackets)
  PROVE  s \in Seq(Nat) /\ s \in Seq(Int) /\ Len(s) \in Nat
<1>1. 1 .. MaxPackets \subseteq Nat /\ Nat \subseteq Int
  OBVIOUS
<1>2. \A i \in 1 .. Len(s) : s[i] \in 1 .. MaxPackets
  BY ElementOfSeq
<1>3. QED
  BY <1>1, <1>2, LenProperties

\* What is lost when the k oldest packets of flow f leave.
LEMMA HeadsLost ==
  ASSUME NEW queues \in [Flow -> Seq(1 .. MaxPackets)], \A g \in Flow : Increasing(queues[g]),
         NEW f \in Flow, NEW k \in 0 .. Len(queues[f]),
         lost \in [Flow -> SUBSET (1 .. MaxPackets)]
  PROVE  /\ LoseHeads(queues, f, k) \in [Flow -> SUBSET (1 .. MaxPackets)]
         /\ \A g \in Flow : /\ lost[g] \subseteq LoseHeads(queues, f, k)[g]
                            /\ LoseHeads(queues, f, k)[g] \ lost[g] \subseteq ToSet(queues[g])
<1>1. PICK s : s = queues[f]
  OBVIOUS
<1>2. s \in Seq(Int) /\ Increasing(s) /\ k \in 0 .. Len(s)
  <2>1. s \in Seq(1 .. MaxPackets) /\ Increasing(s)
    BY <1>1
  <2>2. QED
    BY <1>1, <2>1, NumbersOfFlow
<1>3. ToSet(SubSeq(s, 1, k)) \subseteq ToSet(s)
  BY <1>2, DropFirst
<1>4. ToSet(s) \subseteq 1 .. MaxPackets
  <2>1. s \in Seq(1 .. MaxPackets)
    BY <1>1
  <2>2. \A i \in 1 .. Len(s) : s[i] \in 1 .. MaxPackets
    BY <2>1, ElementOfSeq
  <2>3. DOMAIN s = 1 .. Len(s)
    BY <2>1, LenProperties
  <2>4. QED
    BY <2>2, <2>3 DEF ToSet
<1>5. QED
  BY <1>1, <1>3, <1>4 DEF LoseHeads

\* The k oldest packets of flow f leave, and are lost.
LEMMA LosesHeads ==
  ASSUME NEW queues \in [Flow -> Seq(1 .. MaxPackets)], \A g \in Flow : Increasing(queues[g]),
         NEW f \in Flow, NEW k \in 0 .. Len(queues[f]),
         lost \in [Flow -> SUBSET (1 .. MaxPackets)],
         NEW flying, NEW queued, NEW last, NEW total,
         \A g \in Flow : Stream(flying[g], queued[g], ToSet(queues[g]), last[g], total[g], lost[g])
  PROVE  /\ \A g \in Flow : Increasing(TakeHeads(queues, f, k)[g])
         /\ \A g \in Flow : Stream(flying[g], queued[g], ToSet(TakeHeads(queues, f, k)[g]),
                                   last[g], total[g], LoseHeads(queues, f, k)[g])
<1>1. PICK s : s = queues[f]
  OBVIOUS
<1>2. s \in Seq(Int) /\ Increasing(s) /\ k \in 0 .. Len(s)
  <2>1. s \in Seq(1 .. MaxPackets) /\ Increasing(s)
    BY <1>1
  <2>2. QED
    BY <1>1, <2>1, NumbersOfFlow
<1>3. PICK gone : gone = ToSet(SubSeq(s, 1, k))
  OBVIOUS
<1>4. /\ Increasing(SubSeq(s, k + 1, Len(s)))
      /\ gone \subseteq ToSet(s)
      /\ ToSet(SubSeq(s, k + 1, Len(s))) = ToSet(s) \ gone
  BY <1>2, <1>3, DropFirst
<1>5. /\ TakeHeads(queues, f, k)[f] = SubSeq(s, k + 1, Len(s))
      /\ \A g \in Flow \ {f} : TakeHeads(queues, f, k)[g] = queues[g]
  BY <1>1 DEF TakeHeads
<1>6. /\ LoseHeads(queues, f, k)[f] = lost[f] \cup gone
      /\ \A g \in Flow \ {f} : LoseHeads(queues, f, k)[g] = lost[g]
  BY <1>1, <1>3 DEF LoseHeads
<1>7. Stream(flying[f], queued[f], ToSet(s) \ gone, last[f], total[f], lost[f] \cup gone)
  <2>1. Stream(flying[f], queued[f], ToSet(s), last[f], total[f], lost[f])
    BY <1>1
  <2>2. gone \in SUBSET ToSet(s)
    BY <1>4
  <2>3. QED
    BY <2>1, <2>2, StreamLose
<1>8. QED
  BY <1>1, <1>4, <1>5, <1>6, <1>7

\* The k-th packet of flow f leaves for the device, those before it are lost.
LEMMA TakesPacket ==
  ASSUME NEW queues \in [Flow -> Seq(1 .. MaxPackets)], \A g \in Flow : Increasing(queues[g]),
         NEW f \in Flow, NEW k \in 1 .. Len(queues[f]),
         lost \in [Flow -> SUBSET (1 .. MaxPackets)],
         NEW flying, NEW queued, NEW last, NEW total,
         \A g \in Flow : Stream(flying[g], queued[g], ToSet(queues[g]), last[g], total[g], lost[g])
  PROVE  /\ \A g \in Flow : Increasing(TakeHeads(queues, f, k)[g])
         /\ Stream(flying[f], queued[f] \cup {queues[f][k]}, ToSet(TakeHeads(queues, f, k)[f]),
                   last[f], total[f], LoseHeads(queues, f, k - 1)[f])
         /\ \A n \in queued[f] : n < queues[f][k]
         /\ \A g \in Flow \ {f} :
              Stream(flying[g], queued[g], ToSet(TakeHeads(queues, f, k)[g]),
                     last[g], total[g], LoseHeads(queues, f, k - 1)[g])
         /\ LoseHeads(queues, f, k - 1) \in [Flow -> SUBSET (1 .. MaxPackets)]
         /\ \A g \in Flow :
              /\ lost[g] \subseteq LoseHeads(queues, f, k - 1)[g]
              /\ LoseHeads(queues, f, k - 1)[g] \ lost[g] \subseteq ToSet(queues[g])
<1>1. PICK s : s = queues[f]
  OBVIOUS
<1>2. s \in Seq(Int) /\ Increasing(s) /\ k \in 1 .. Len(s) /\ Len(s) \in Nat
  <2>1. s \in Seq(1 .. MaxPackets) /\ Increasing(s)
    BY <1>1
  <2>2. QED
    BY <1>1, <2>1, NumbersOfFlow
<1>3. k \in 0 .. Len(s) /\ k - 1 \in 0 .. Len(s) /\ k - 1 \in 0 .. Len(queues[f])
      /\ k \in 0 .. Len(queues[f])
  BY <1>1, <1>2
<1>4. PICK j : j = k - 1
  OBVIOUS
<1>5. PICK gone : gone = ToSet(SubSeq(s, 1, j))
  OBVIOUS
<1>6. /\ ToSet(SubSeq(s, j + 1, Len(s))) = ToSet(s) \ gone
      /\ ToSet(SubSeq(s, k + 1, Len(s))) = ToSet(s) \ ToSet(SubSeq(s, 1, k))
  BY <1>2, <1>3, <1>4, <1>5, DropFirst
<1>7. /\ ToSet(SubSeq(s, 1, k)) = gone \cup {s[k]}
      /\ s[k] \in ToSet(s) \ gone
      /\ \A c \in (ToSet(s) \ gone) \ {s[k]} : s[k] < c
  BY <1>2, <1>4, <1>5, TakeFirst
<1>8. /\ TakeHeads(queues, f, j)[f] = SubSeq(s, j + 1, Len(s))
      /\ TakeHeads(queues, f, k)[f] = SubSeq(s, k + 1, Len(s))
      /\ \A g \in Flow \ {f} : /\ TakeHeads(queues, f, j)[g] = queues[g]
                               /\ TakeHeads(queues, f, k)[g] = queues[g]
  BY <1>1 DEF TakeHeads
<1>9. /\ \A g \in Flow : Stream(flying[g], queued[g], ToSet(TakeHeads(queues, f, j)[g]),
                                last[g], total[g], LoseHeads(queues, f, j)[g])
      /\ LoseHeads(queues, f, j) \in [Flow -> SUBSET (1 .. MaxPackets)]
      /\ \A g \in Flow : /\ lost[g] \subseteq LoseHeads(queues, f, j)[g]
                         /\ LoseHeads(queues, f, j)[g] \ lost[g] \subseteq ToSet(queues[g])
  <2>1. j \in 0 .. Len(queues[f])
    BY <1>3, <1>4
  <2>2. \A g \in Flow : Stream(flying[g], queued[g], ToSet(TakeHeads(queues, f, j)[g]),
                               last[g], total[g], LoseHeads(queues, f, j)[g])
    BY <2>1, LosesHeads
  <2>3. LoseHeads(queues, f, j) \in [Flow -> SUBSET (1 .. MaxPackets)]
    BY <2>1, HeadsLost
  <2>4. \A g \in Flow : /\ lost[g] \subseteq LoseHeads(queues, f, j)[g]
                        /\ LoseHeads(queues, f, j)[g] \ lost[g] \subseteq ToSet(queues[g])
    BY <2>1, HeadsLost
  <2>5. QED
    BY <2>2, <2>3, <2>4
<1>10. \A g \in Flow : Increasing(TakeHeads(queues, f, k)[g])
  BY <1>3, LosesHeads
<1>11. Stream(flying[f], queued[f], ToSet(s) \ gone, last[f], total[f], LoseHeads(queues, f, j)[f])
  BY <1>6, <1>8, <1>9
<1>12. Stream(flying[f], queued[f] \cup {s[k]}, (ToSet(s) \ gone) \ {s[k]}, last[f], total[f],
              LoseHeads(queues, f, j)[f])
  BY <1>7, <1>11, StreamQueue
<1>13. \A n \in queued[f] : n < s[k]
  BY <1>7, <1>11 DEF Stream
<1>14. ToSet(TakeHeads(queues, f, k)[f]) = (ToSet(s) \ gone) \ {s[k]}
  BY <1>6, <1>7, <1>8
<1>15. \A g \in Flow \ {f} :
         Stream(flying[g], queued[g], ToSet(TakeHeads(queues, f, k)[g]), last[g], total[g],
                LoseHeads(queues, f, j)[g])
  BY <1>8, <1>9
<1>16. QED
  BY <1>1, <1>4, <1>9, <1>10, <1>12, <1>13, <1>14, <1>15
(***************************************************************************)
(* The steps.  One that neither sends, transmits, drops nor delivers.      *)
(***************************************************************************)
LEMMA FlowUntouched ==
  ASSUME EventInv, FlowInv,
         PendingCalls("Send")' = PendingCalls("Send"),
         PendingCalls("Receive")' = PendingCalls("Receive"),
         m_currentTs' \in Nat, m_currentTs <= m_currentTs',
         UNCHANGED <<flows, m_queue, sent, received, lost>>
  PROVE  FlowInv'
<1>1. SendInv'
  BY DEF FlowInv, SendInv
<1>2. ReceiveInv' /\ \A f \in Flow : InFlight(f)' = InFlight(f)
  BY FlightUntouched DEF FlowInv
<1>3. OrderInv'
  BY DEF FlowInv, OrderInv
<1>4. \A f \in Flow : /\ InDevice(f)' = InDevice(f) /\ InDisc(f)' = InDisc(f)
                      /\ AsChannel!LastReceived(f)' = AsChannel!LastReceived(f)
  BY DEF InDevice, InDisc, AsChannel!LastReceived
<1>5. StreamInv'
  BY <1>2, <1>4 DEF FlowInv, StreamInv
<1>6. QED
  BY <1>1, <1>2, <1>3, <1>5 DEF FlowInv

\* An event that is neither a socket's nor the channel's, and schedules
\* nothing.
LEMMA QuietFlow ==
  ASSUME EventInv, FlowInv, NEW e, ProcessOneEvent(e, <<>>), e.fn \notin {"Send", "Receive"},
         UNCHANGED <<flows, m_queue, sent, received, lost>>
  PROVE  FlowInv'
<1>1. m_events' = m_events \ {e}
  BY NoCalls DEF ProcessOneEvent
<1>2. /\ PendingCalls("Send")' = PendingCalls("Send")
      /\ PendingCalls("Receive")' = PendingCalls("Receive")
  BY <1>1 DEF PendingCalls
<1>3. m_currentTs' \in Nat /\ m_currentTs <= m_currentTs'
  BY NextEvent
<1>4. QED
  BY <1>2, <1>3, FlowUntouched

\* A packet arrives: the next of its flow that is not lost.
LEMMA ReceiveFlow ==
  ASSUME EventInv, FlowInv, NEW e, Receive(e)
  PROVE  FlowInv' /\ e.arg.flow \in Flow /\ AsChannel!Deliver(e.arg.flow)
<1>1. /\ e.fn = "Receive" /\ ProcessOneEvent(e, <<>>) /\ IsNext(e)
      /\ received' = [received EXCEPT ![e.arg.flow] = Append(@, e.arg.n)]
      /\ UNCHANGED <<flows, m_queue, sent, lost>>
  BY DEF Receive, ProcessOneEvent, discVars, deviceVars
<1>2. PICK f, n : f = e.arg.flow /\ n = e.arg.n
  OBVIOUS
<1>3. ReceiveInv /\ StreamInv /\ SendInv /\ OrderInv
  BY DEF FlowInv
<1>4. /\ e.arg \in Packet /\ n \in InFlight(f)
      /\ \A m \in InFlight(f) \ {n} : n < m
      /\ {x.arg.n : x \in {y \in PendingCalls("Receive") \ {e} : y.arg.flow = f}}
           = InFlight(f) \ {n}
  BY <1>1, <1>2, <1>3, FirstArrives
<1>5. f \in Flow /\ n \in 1 .. MaxPackets
  BY <1>2, <1>4 DEF Packet
<1>6. m_events' = m_events \ {e} /\ m_currentTs' \in Nat /\ m_currentTs <= m_currentTs'
  BY <1>1, NextEvent, NoCalls DEF ProcessOneEvent
<1>7. /\ PendingCalls("Send")' = PendingCalls("Send")
      /\ PendingCalls("Receive")' = PendingCalls("Receive") \ {e}
  BY <1>1, <1>6 DEF PendingCalls
<1>8. InFlight(f)' = InFlight(f) \ {n}
  BY <1>4, <1>7 DEF InFlight
<1>9. \A g \in Flow \ {f} : InFlight(g)' = InFlight(g)
  BY <1>2, <1>7 DEF InFlight
<1>10. SendInv' /\ OrderInv'
  BY <1>1, <1>3, <1>7 DEF SendInv, OrderInv
<1>11. ReceiveInv'
  <2>1. \A x \in PendingCalls("Receive") :
          x.ts \in Nat /\ x.ts <= m_currentTs + (TxTime + Delay)
    BY <1>3 DEF EventInv, ReceiveInv, PendingCalls
  <2>2. m_currentTs \in Nat /\ TxTime \in Nat /\ Delay \in Nat
    BY TimesAssumption DEF EventInv
  <2>3. \A x \in PendingCalls("Receive") : x.ts <= m_currentTs' + (TxTime + Delay)
    BY <1>6, <2>1, <2>2
  <2>4. QED
    BY <1>3, <1>7, <2>3 DEF ReceiveInv
<1>12. /\ received \in [Flow -> Seq(1 .. MaxPackets)]
       /\ lost \in [Flow -> SUBSET (1 .. MaxPackets)]
       /\ Stream(InFlight(f), InDevice(f), InDisc(f),
                 AsChannel!LastReceived(f), sent[f], lost[f])
  BY <1>3, <1>5 DEF StreamInv
<1>13. /\ Stream(InFlight(f) \ {n}, InDevice(f), InDisc(f), n, sent[f], lost[f])
       /\ n \in AsChannel!LastReceived(f) + 1 .. sent[f] /\ n \notin lost[f]
       /\ AsChannel!LastReceived(f) + 1 .. n - 1 \subseteq lost[f]
  BY <1>4, <1>12, StreamArrive
<1>14. /\ received' \in [Flow -> Seq(1 .. MaxPackets)]
       /\ AsChannel!LastReceived(f)' = n
       /\ \A g \in Flow \ {f} : received'[g] = received[g]
  <2>1. PICK s \in Seq(1 .. MaxPackets) : s = received[f]
    BY <1>5, <1>12
  <2>2. Append(s, n) \in Seq(1 .. MaxPackets)
    BY <1>5, AppendProperties
  <2>3. Append(s, n) # <<>> /\ Append(s, n)[Len(Append(s, n))] = n
    BY <1>5, AppendProperties
  <2>4. /\ received' = [received EXCEPT ![f] = Append(s, n)]
        /\ received'[f] = Append(s, n)
    BY <1>1, <1>2, <1>5, <1>12, <2>1
  <2>5. AsChannel!LastReceived(f)' = n
    BY <2>3, <2>4 DEF AsChannel!LastReceived
  <2>6. QED
    BY <1>12, <2>2, <2>4, <2>5
<1>15. \A g \in Flow : InDevice(g)' = InDevice(g) /\ InDisc(g)' = InDisc(g)
  BY <1>1 DEF InDevice, InDisc
<1>16. \A g \in Flow \ {f} : AsChannel!LastReceived(g)' = AsChannel!LastReceived(g)
  BY <1>14 DEF AsChannel!LastReceived
<1>17. StreamInv'
  <2>1. ASSUME NEW g \in Flow
        PROVE  Stream(InFlight(g)', InDevice(g)', InDisc(g)', AsChannel!LastReceived(g)',
                      sent'[g], lost'[g])
    <3>1. CASE g = f
      BY <1>1, <1>8, <1>13, <1>14, <1>15, <3>1
    <3>2. CASE g # f
      BY <1>1, <1>3, <1>9, <1>15, <1>16, <3>2 DEF StreamInv
    <3>3. QED
      BY <3>1, <3>2
  <2>2. QED
    BY <1>1, <1>12, <1>14, <2>1 DEF StreamInv
<1>18. AsChannel!Deliver(f)
  <2>1. received' = [received EXCEPT ![f] = Append(@, n)]
    BY <1>1, <1>2
  <2>2. QED
    BY <1>1, <1>13, <2>1 DEF AsChannel!Deliver
<1>19. QED
  BY <1>2, <1>5, <1>10, <1>11, <1>17, <1>18 DEF FlowInv

\* The device is done with a packet, and may go on with the next one.
LEMMA TransmitFlow ==
  ASSUME EventInv, DeviceInv, FlowInv, NEW e, TransmitComplete(e)
  PROVE  FlowInv' /\ UNCHANGED <<sent, received, lost>>
<1>1. e.fn = "TransmitComplete" /\ UNCHANGED <<flows, sent, received, lost>>
  BY DEF TransmitComplete, discVars
<1>2. CASE m_queue = <<>>
  <2>1. ProcessOneEvent(e, <<>>) /\ m_queue' = m_queue
    BY <1>2 DEF TransmitComplete
  <2>2. QED
    BY <1>1, <2>1, QuietFlow
<1>3. CASE m_queue # <<>>
  <2>1. ProcessOneEvent(e, SendHead(m_queue)) /\ m_queue' = Tail(m_queue)
    BY <1>3 DEF TransmitComplete
  <2>2. /\ m_events' = (m_events \ {e}) \cup Inserted(m_currentTs', SendHead(m_queue))
        /\ m_currentTs' \in Nat /\ m_currentTs <= m_currentTs'
    BY <2>1, NextEvent DEF ProcessOneEvent
  <2>3. /\ {x \in m_events \ {e} : x.fn = "Receive"} = PendingCalls("Receive")
        /\ {x \in m_events \ {e} : x.fn = "Send"} = PendingCalls("Send")
    BY <1>1 DEF PendingCalls
  <2>4. m_queue \in Seq(Packet) /\ InOrder(m_queue) /\ ReceiveInv
    BY DEF DeviceInv, FlowInv, OrderInv
  <2>5. PICK waiting, last :
          /\ waiting = [f \in Flow |-> InDisc(f)]
          /\ last = [f \in Flow |-> AsChannel!LastReceived(f)]
    OBVIOUS
  <2>6. \A f \in Flow : Stream(InFlight(f), OfFlow(m_queue, f), waiting[f], last[f],
                               sent[f], lost[f])
    BY <2>5 DEF FlowInv, StreamInv, InDevice
  <2>7. /\ ReceiveInv' /\ InOrder(m_queue')
        /\ {x \in m_events \ {e} : x.fn = "Send"} = PendingCalls("Send")'
        /\ \A f \in Flow : Stream(InFlight(f)', InDevice(f)', waiting[f], last[f],
                                  sent[f], lost[f])
    BY <1>3, <2>1, <2>2, <2>3, <2>4, <2>6, Transmits
  <2>8. \A f \in Flow : /\ InDisc(f)' = waiting[f]
                        /\ AsChannel!LastReceived(f)' = last[f]
    BY <1>1, <2>5 DEF InDisc, AsChannel!LastReceived
  <2>9. StreamInv'
    BY <1>1, <2>7, <2>8 DEF FlowInv, StreamInv
  <2>10. SendInv'
    BY <1>1, <2>3, <2>7 DEF FlowInv, SendInv
  <2>11. OrderInv'
    BY <1>1, <2>7 DEF FlowInv, OrderInv
  <2>12. QED
    BY <1>1, <2>7, <2>9, <2>10, <2>11 DEF FlowInv
<1>4. QED
  BY <1>2, <1>3
\* A turn of the queue disc: packets of a flow are lost, and the next one of
\* it goes to the device, which may transmit it.
LEMMA DequeueFlow ==
  ASSUME LinkInv, FlowInv, ~m_stoppedByDevice,
         NEW f \in Flow, NEW k \in 1 .. Len(flows[f]),
         flows' = TakeHeads(flows, f, k), lost' = LoseHeads(flows, f, k - 1),
         DeviceSend([flow |-> f, n |-> flows[f][k]]), UNCHANGED <<sent, received>>
  PROVE  FlowInv' /\ AsChannel!Lose
<1>1. /\ EventInv /\ DeviceInv /\ RunInv /\ DeviceHasRoom /\ DeviceGoesOn
      /\ SendInv /\ ReceiveInv /\ OrderInv /\ StreamInv
  BY DEF LinkInv, NeverStalls, FlowInv
<1>2. PICK p : p = [flow |-> f, n |-> flows[f][k]]
  OBVIOUS
<1>3. /\ flows \in [Flow -> Seq(1 .. MaxPackets)] /\ m_queue \in Seq(Packet)
      /\ InOrder(m_queue) /\ lost \in [Flow -> SUBSET (1 .. MaxPackets)]
      /\ \A g \in Flow : Increasing(flows[g])
  BY <1>1 DEF RunInv, DeviceInv, OrderInv, StreamInv
<1>4. p \in Packet /\ p.flow = f /\ p.n = flows[f][k]
  <2>1. flows[f] \in Seq(1 .. MaxPackets)
    BY <1>3
  <2>2. flows[f][k] \in 1 .. MaxPackets
    BY <2>1, ElementOfSeq
  <2>3. QED
    BY <1>2, <2>2 DEF Packet
<1>5. PICK flying, queued, last, taken, gone :
        /\ flying = [g \in Flow |-> InFlight(g)]
        /\ queued = [g \in Flow |-> InDevice(g)]
        /\ last = [g \in Flow |-> AsChannel!LastReceived(g)]
        /\ taken = TakeHeads(flows, f, k)
        /\ gone = LoseHeads(flows, f, k - 1)
  OBVIOUS
<1>6. \A g \in Flow : Stream(flying[g], queued[g], ToSet(flows[g]), last[g], sent[g], lost[g])
  BY <1>1, <1>5 DEF StreamInv, InDisc
<1>7. /\ \A g \in Flow : Increasing(taken[g])
      /\ Stream(flying[f], queued[f] \cup {p.n}, ToSet(taken[f]), last[f], sent[f], gone[f])
      /\ \A n \in queued[f] : n < p.n
      /\ \A g \in Flow \ {f} :
           Stream(flying[g], queued[g], ToSet(taken[g]), last[g], sent[g], gone[g])
      /\ gone \in [Flow -> SUBSET (1 .. MaxPackets)]
      /\ \A g \in Flow : /\ lost[g] \subseteq gone[g]
                         /\ gone[g] \ lost[g] \subseteq last[g] + 1 .. sent[g]
  <2>1. \A g \in Flow : Increasing(TakeHeads(flows, f, k)[g])
    BY <1>3, <1>6, TakesPacket
  <2>2. Stream(flying[f], queued[f] \cup {flows[f][k]}, ToSet(TakeHeads(flows, f, k)[f]),
               last[f], sent[f], LoseHeads(flows, f, k - 1)[f])
    BY <1>3, <1>6, TakesPacket
  <2>3. \A n \in queued[f] : n < flows[f][k]
    BY <1>3, <1>6, TakesPacket
  <2>4. \A g \in Flow \ {f} :
          Stream(flying[g], queued[g], ToSet(TakeHeads(flows, f, k)[g]),
                 last[g], sent[g], LoseHeads(flows, f, k - 1)[g])
    BY <1>3, <1>6, TakesPacket
  <2>5. LoseHeads(flows, f, k - 1) \in [Flow -> SUBSET (1 .. MaxPackets)]
    BY <1>3, <1>6, TakesPacket
  <2>6. \A g \in Flow : /\ lost[g] \subseteq LoseHeads(flows, f, k - 1)[g]
                        /\ LoseHeads(flows, f, k - 1)[g] \ lost[g] \subseteq ToSet(flows[g])
    BY <1>3, <1>6, TakesPacket
  <2>7. \A g \in Flow : ToSet(flows[g]) \subseteq last[g] + 1 .. sent[g]
    BY <1>6 DEF Stream
  <2>8. \A g \in Flow : gone[g] \ lost[g] \subseteq last[g] + 1 .. sent[g]
    BY <1>5, <2>6, <2>7
  <2>9. QED
    BY <1>4, <1>5, <2>1, <2>2, <2>3, <2>4, <2>5, <2>6, <2>8
<1>8. PICK q : q = Append(m_queue, p)
  OBVIOUS
<1>9. /\ q \in Seq(Packet) /\ q # <<>> /\ InOrder(q)
      /\ OfFlow(q, f) = queued[f] \cup {p.n}
      /\ \A g \in Flow \ {f} : OfFlow(q, g) = queued[g]
  <2>1. \A n \in OfFlow(m_queue, p.flow) : n < p.n
    BY <1>4, <1>5, <1>7 DEF InDevice
  <2>2. /\ InOrder(Append(m_queue, p))
        /\ OfFlow(Append(m_queue, p), p.flow) = OfFlow(m_queue, p.flow) \cup {p.n}
        /\ \A g \in Flow \ {p.flow} : OfFlow(Append(m_queue, p), g) = OfFlow(m_queue, g)
    BY <1>3, <1>4, <2>1, AppendOfFlow
  <2>3. Append(m_queue, p) \in Seq(Packet) /\ Append(m_queue, p) # <<>>
    BY <1>3, <1>4, AppendProperties
  <2>4. QED
    BY <1>4, <1>5, <1>8, <2>2, <2>3 DEF InDevice
<1>10. PICK waiting : waiting = [g \in Flow |-> ToSet(taken[g])]
  OBVIOUS
<1>11. \A g \in Flow : Stream(InFlight(g), OfFlow(q, g), waiting[g], last[g], sent[g], gone[g])
  <2>1. ASSUME NEW g \in Flow
        PROVE  Stream(InFlight(g), OfFlow(q, g), waiting[g], last[g], sent[g], gone[g])
    <3>1. InFlight(g) = flying[g] /\ waiting[g] = ToSet(taken[g])
      BY <1>5, <1>10
    <3>2. CASE g = f
      BY <1>7, <1>9, <3>1, <3>2
    <3>3. CASE g # f
      BY <1>7, <1>9, <3>1, <3>3
    <3>4. QED
      BY <3>2, <3>3
  <2>2. QED
    BY <2>1
<1>12. /\ \A g \in Flow : InDisc(g)' = waiting[g]
       /\ \A g \in Flow : AsChannel!LastReceived(g)' = last[g]
       /\ lost' = gone /\ flows' = taken
  BY <1>5, <1>10 DEF InDisc, AsChannel!LastReceived
<1>13. Len(m_queue) + 1 <= MaxSize
  BY <1>1, <1>3, SizeAssumption, LenProperties DEF DeviceHasRoom
<1>14. \/ m_queue' = Tail(q) /\ Schedule(SendHead(q))
       \/ m_queue' = q /\ Schedule(<<>>)
  <2>1. Len(m_queue) \in Nat /\ MaxSize \in Nat
    BY <1>3, SizeAssumption, LenProperties
  <2>2. ~(Len(m_queue) + 1 > MaxSize)
    BY <1>13, <2>1
  <2>3. QED
    BY <1>2, <1>8, <2>2 DEF DeviceSend
<1>15. ASSUME m_queue' = Tail(q), Schedule(SendHead(q))
       PROVE  FlowInv'
  <2>1. /\ m_events' = m_events \cup Inserted(m_currentTs', SendHead(q))
        /\ m_currentTs' \in Nat /\ m_currentTs <= m_currentTs'
    BY <1>1, <1>15 DEF Schedule, EventInv
  <2>2. /\ {e \in m_events : e.fn = "Receive"} = PendingCalls("Receive")
        /\ {e \in m_events : e.fn = "Send"} = PendingCalls("Send")
    BY DEF PendingCalls
  <2>3. /\ ReceiveInv' /\ InOrder(m_queue')
        /\ {e \in m_events : e.fn = "Send"} = PendingCalls("Send")'
        /\ \A g \in Flow : Stream(InFlight(g)', InDevice(g)', waiting[g], last[g],
                                  sent[g], gone[g])
    BY <1>1, <1>9, <1>11, <1>15, <2>1, <2>2, Transmits
  <2>4. StreamInv'
    BY <1>1, <1>7, <1>12, <2>3 DEF StreamInv
  <2>5. SendInv'
    BY <1>1, <2>2, <2>3 DEF SendInv
  <2>6. OrderInv'
    BY <1>7, <1>12, <2>3 DEF OrderInv
  <2>7. ReceiveInv'
    BY <2>3, Zenon
  <2>8. QED
    BY <2>4, <2>5, <2>6, <2>7 DEF FlowInv
<1>16. ASSUME m_queue' = q, Schedule(<<>>)
       PROVE  FlowInv'
  <2>1. m_events' = m_events /\ m_currentTs' = m_currentTs
    BY <1>16, NoCalls DEF Schedule
  <2>2. /\ PendingCalls("Send")' = PendingCalls("Send")
        /\ PendingCalls("Receive")' = PendingCalls("Receive")
    BY <2>1 DEF PendingCalls
  <2>3. m_currentTs \in Nat /\ m_currentTs <= m_currentTs
    BY <1>1 DEF EventInv
  <2>4. ReceiveInv' /\ \A g \in Flow : InFlight(g)' = InFlight(g)
    BY <1>1, <2>1, <2>2, <2>3, FlightUntouched
  <2>5. \A g \in Flow : InDevice(g)' = OfFlow(q, g)
    BY <1>16 DEF InDevice
  <2>6. StreamInv'
    BY <1>1, <1>7, <1>11, <1>12, <2>4, <2>5 DEF StreamInv
  <2>7. SendInv'
    BY <1>1, <2>2 DEF SendInv
  <2>8. OrderInv'
    BY <1>7, <1>9, <1>12, <1>16 DEF OrderInv
  <2>9. QED
    BY <2>4, <2>6, <2>7, <2>8 DEF FlowInv
<1>17. AsChannel!Lose
  <2>1. \A g \in Flow : last[g] = AsChannel!LastReceived(g)
    BY <1>5
  <2>2. AsChannel!MayLose
    BY <1>7, <1>12, <2>1 DEF AsChannel!MayLose
  <2>3. QED
    BY <2>2 DEF AsChannel!Lose
<1>18. QED
  BY <1>14, <1>15, <1>16, <1>17

\* A step of the queue disc's loop.
LEMMA RestartFlow ==
  ASSUME LinkInv, FlowInv, Restart
  PROVE  FlowInv' /\ (AsChannel!Lose \/ UNCHANGED <<sent, received, lost>>)
<1>1. EventInv /\ RunInv /\ UNCHANGED <<sent, received>>
  BY DEF LinkInv, Restart
<1>2. CASE ~MayDequeue
  <2>1. UNCHANGED <<listVars, flows, m_queue, sent, received, lost>>
    BY <1>2 DEF Restart, deviceVars
  <2>2. /\ PendingCalls("Send")' = PendingCalls("Send")
        /\ PendingCalls("Receive")' = PendingCalls("Receive")
        /\ m_currentTs' = m_currentTs /\ m_currentTs \in Nat
    BY <1>1, <2>1 DEF listVars, PendingCalls, EventInv
  <2>3. QED
    BY <1>1, <2>1, <2>2, FlowUntouched
<1>3. CASE MayDequeue
  <2>1. PICK f \in {g \in Flow : flows[g] # <<>>} :
          \E k \in 1 .. (IF CoDelDrops THEN Len(flows[f]) ELSE 1) :
            /\ flows' = TakeHeads(flows, f, k)
            /\ lost' = LoseHeads(flows, f, k - 1)
            /\ DeviceSend([flow |-> f, n |-> flows[f][k]])
    BY <1>3 DEF Restart
  <2>2. PICK k \in 1 .. (IF CoDelDrops THEN Len(flows[f]) ELSE 1) :
          /\ flows' = TakeHeads(flows, f, k)
          /\ lost' = LoseHeads(flows, f, k - 1)
          /\ DeviceSend([flow |-> f, n |-> flows[f][k]])
    BY <2>1
  <2>3. k \in 1 .. Len(flows[f])
    <3>1. flows[f] \in Seq(1 .. MaxPackets) /\ flows[f] # <<>>
      BY <1>1 DEF RunInv
    <3>2. Len(flows[f]) \in Nat \ {0}
      BY <3>1
    <3>3. QED
      BY <3>2
  <2>4. ~m_stoppedByDevice
    BY <1>3 DEF MayDequeue
  <2>5. FlowInv' /\ AsChannel!Lose
    BY <1>1, <2>2, <2>3, <2>4, DequeueFlow
  <2>6. QED
    BY <2>5
<1>4. QED
  BY <1>2, <1>3
\* A socket sends: its next packet is the one after.
LEMMA SendNumbers ==
  ASSUME EventInv, SendInv, NEW e, Send(e)
  PROVE  /\ SendInv'
         /\ e.arg \in Packet /\ e.arg.n = sent[e.arg.flow] + 1
         /\ PendingCalls("Receive")' = PendingCalls("Receive")
         /\ m_currentTs' \in Nat /\ m_currentTs <= m_currentTs'
<1>1. PICK f, n : f = e.arg.flow /\ n = e.arg.n
  OBVIOUS
<1>2. /\ e \in PendingCalls("Send") /\ e.fn = "Send"
      /\ sent' = [sent EXCEPT ![f] = @ + 1]
  BY <1>1 DEF Send, ProcessOneEvent, IsNext, PendingCalls
<1>3. /\ e.arg \in Packet /\ f \in Flow /\ n \in 1 .. MaxPackets /\ n = sent[f] + 1
      /\ sent \in [Flow -> 0 .. MaxPackets]
      /\ \A x \in PendingCalls("Send") : x.arg \in Packet /\ x.arg.flow \in Flow
  BY <1>1, <1>2 DEF EventInv, SendInv, Packet
<1>4. \A x \in PendingCalls("Send") \ {e} : x.arg.flow # f
  BY <1>1, <1>2 DEF SendInv
<1>5. /\ sent' \in [Flow -> 0 .. MaxPackets] /\ sent'[f] = n
      /\ \A g \in Flow \ {f} : sent'[g] = sent[g]
  BY <1>2, <1>3
<1>6. \A x \in PendingCalls("Send") \ {e} : x.arg.n = sent'[x.arg.flow] + 1
  BY <1>3, <1>4, <1>5 DEF SendInv
<1>7. PICK calls \in Calls : /\ ProcessOneEvent(e, calls)
                             /\ \A i \in DOMAIN calls : calls[i].fn = "Send"
  BY SendCalls
<1>8. m_currentTs' \in Nat /\ m_currentTs <= m_currentTs' /\ m_currentTs' = e.ts
  BY <1>7, NextEvent
<1>9. PendingCalls("Receive")' = PendingCalls("Receive")
  <2>1. m_events' = (m_events \ {e}) \cup Inserted(e.ts, calls)
    BY <1>7 DEF ProcessOneEvent
  <2>2. \A x \in Inserted(e.ts, calls) : x.fn = "Send"
    BY <1>7, <1>8, InsertedTypes
  <2>3. QED
    BY <1>2, <2>1, <2>2 DEF PendingCalls
<1>10. CASE n < MaxPackets
  <2> DEFINE next == [e.arg EXCEPT !.n = @ + 1]
  <2>1. PICK gap \in Gaps : ProcessOneEvent(e, <<Call(gap, "Send", next)>>)
    <3>1. e.arg.n # MaxPackets
      BY <1>1, <1>3, <1>10
    <3>2. QED
      BY <3>1 DEF Send
  <2>2. next \in Packet /\ next.flow = f /\ next.n = n + 1
    <3>1. n + 1 \in 1 .. MaxPackets /\ e.arg.n + 1 = n + 1
      BY <1>1, <1>3, <1>10, TimesAssumption
    <3>2. next = [flow |-> f, n |-> n + 1]
      BY <1>1, <1>3, <3>1 DEF Packet
    <3>3. QED
      BY <1>3, <3>1, <3>2 DEF Packet
  <2>3. gap \in Nat /\ "Send" \in Function
    BY TimesAssumption DEF Function
  <2> HIDE DEF next
  <2>4. Inserted(e.ts, <<Call(gap, "Send", next)>>) =
          {[ts |-> e.ts + gap, uid |-> m_uid + 1 - 1, fn |-> "Send", arg |-> next]}
    BY <2>2, <2>3, OneCall
  <2>5. PICK w : w = [ts |-> e.ts + gap, uid |-> m_uid + 1 - 1, fn |-> "Send", arg |-> next]
    OBVIOUS
  <2>6. m_events' = (m_events \ {e}) \cup {w} /\ w.fn = "Send" /\ w.arg = next
    BY <2>1, <2>4, <2>5 DEF ProcessOneEvent
  <2>7. PendingCalls("Send")' = (PendingCalls("Send") \ {e}) \cup {w}
    BY <2>6 DEF PendingCalls
  <2>8. SendInv'
    BY <1>4, <1>5, <1>6, <2>2, <2>6, <2>7 DEF SendInv
  <2>9. QED
    BY <1>1, <1>3, <1>8, <1>9, <2>8
<1>11. CASE ~(n < MaxPackets)
  <2>1. ProcessOneEvent(e, <<>>)
    BY <1>1, <1>11, Zenon DEF Send
  <2>2. PendingCalls("Send")' = PendingCalls("Send") \ {e}
    BY <2>1, NoCalls DEF ProcessOneEvent, PendingCalls
  <2>3. SendInv'
    BY <1>4, <1>5, <1>6, <2>2 DEF SendInv
  <2>4. QED
    BY <1>1, <1>3, <1>8, <1>9, <2>3
<1>12. QED
  BY <1>10, <1>11

\* A socket's packet joins its flow in the queue disc, which may drop the
\* oldest ones of a flow, or is dropped itself.
LEMMA SendFlow ==
  ASSUME EventInv, RunInv, FlowInv, NEW e, Send(e)
  PROVE  FlowInv' /\ e.arg.flow \in Flow /\ AsChannel!Send(e.arg.flow)
<1>1. SendInv /\ ReceiveInv /\ OrderInv /\ StreamInv
  BY DEF FlowInv
<1>2. PICK f, n : f = e.arg.flow /\ n = e.arg.n
  OBVIOUS
<1>3. /\ SendInv' /\ e.arg \in Packet /\ n = sent[f] + 1
      /\ PendingCalls("Receive")' = PendingCalls("Receive")
      /\ m_currentTs' \in Nat /\ m_currentTs <= m_currentTs'
  BY <1>1, <1>2, SendNumbers
<1>4. /\ Enqueue(e.arg) /\ sent' = [sent EXCEPT ![f] = @ + 1]
      /\ UNCHANGED <<m_queue, received>>
  BY <1>2 DEF Send, deviceVars
<1>5. f \in Flow /\ n \in 1 .. MaxPackets
  BY <1>2, <1>3 DEF Packet
<1>6. ReceiveInv' /\ \A g \in Flow : InFlight(g)' = InFlight(g)
  BY <1>1, <1>3, FlightUntouched
<1>7. PICK flying, queued, last, total :
        /\ flying = [g \in Flow |-> InFlight(g)]
        /\ queued = [g \in Flow |-> InDevice(g)]
        /\ last = [g \in Flow |-> AsChannel!LastReceived(g)]
        /\ total = sent'
  OBVIOUS
<1>8. PICK added : added = [flows EXCEPT ![f] = Append(@, n)]
  OBVIOUS
<1>9. /\ flows \in [Flow -> Seq(1 .. MaxPackets)] /\ sent \in [Flow -> 0 .. MaxPackets]
      /\ lost \in [Flow -> SUBSET (1 .. MaxPackets)] /\ \A g \in Flow : Increasing(flows[g])
  BY <1>1 DEF RunInv, SendInv, OrderInv, StreamInv
<1>10. \A g \in Flow : Stream(flying[g], queued[g], ToSet(flows[g]), last[g], sent[g], lost[g])
  BY <1>1, <1>7 DEF StreamInv, InDisc
<1>11. PICK s \in Seq(1 .. MaxPackets) : s = flows[f]
  BY <1>5, <1>9
<1>12. /\ Increasing(Append(s, n)) /\ ToSet(Append(s, n)) = ToSet(s) \cup {n}
       /\ Append(s, n) \in Seq(1 .. MaxPackets)
  <2>1. s \in Seq(Nat) /\ Increasing(s) /\ n \in Nat
    BY <1>5, <1>9, <1>11, NumbersOfFlow
  <2>2. \A m \in ToSet(s) : m < n
    <3>1. ToSet(s) \subseteq last[f] + 1 .. sent[f] /\ sent[f] \in Nat /\ last[f] \in Nat
      BY <1>5, <1>10, <1>11 DEF Stream
    <3>2. QED
      BY <1>3, <3>1
  <2>3. Append(s, n) \in Seq(1 .. MaxPackets)
    BY <1>5, AppendProperties
  <2>4. QED
    BY <2>1, <2>2, <2>3, AddsPacket
<1>13. /\ added \in [Flow -> Seq(1 .. MaxPackets)]
       /\ added[f] = Append(s, n)
       /\ \A g \in Flow \ {f} : added[g] = flows[g]
  BY <1>5, <1>8, <1>9, <1>11, <1>12
<1>14. \A g \in Flow : Increasing(added[g])
  BY <1>9, <1>12, <1>13
<1>15. total[f] = n /\ \A g \in Flow \ {f} : total[g] = sent[g]
  BY <1>3, <1>4, <1>5, <1>7, <1>9
<1>16. \A g \in Flow : Stream(flying[g], queued[g], ToSet(added[g]), last[g], total[g], lost[g])
  <2>1. Stream(flying[f], queued[f], ToSet(s) \cup {sent[f] + 1}, last[f], sent[f] + 1, lost[f])
    <3>1. Stream(flying[f], queued[f], ToSet(s), last[f], sent[f], lost[f])
      BY <1>5, <1>10, <1>11
    <3>2. QED
      BY <3>1, StreamSend
  <2>2. Stream(flying[f], queued[f], ToSet(added[f]), last[f], total[f], lost[f])
    BY <1>3, <1>12, <1>13, <1>15, <2>1
  <2>3. \A g \in Flow \ {f} :
          Stream(flying[g], queued[g], ToSet(added[g]), last[g], total[g], lost[g])
    BY <1>10, <1>13, <1>15
  <2>4. QED
    BY <2>2, <2>3
<1>17. \A g \in Flow : /\ InDevice(g)' = queued[g] /\ InFlight(g)' = flying[g]
                       /\ AsChannel!LastReceived(g)' = last[g]
  BY <1>4, <1>6, <1>7 DEF InDevice, AsChannel!LastReceived
<1>18. /\ \A g \in Flow : Increasing(flows'[g])
       /\ \A g \in Flow :
            Stream(flying[g], queued[g], ToSet(flows'[g]), last[g], total[g], lost'[g])
       /\ lost' \in [Flow -> SUBSET (1 .. MaxPackets)]
       /\ \A g \in Flow : lost[g] \subseteq lost'[g] /\ lost'[g] \ lost[g] \subseteq ToSet(added[g])
  <2>1. \/ flows' = added /\ lost' = lost
        \/ flows' = flows /\ lost' = [lost EXCEPT ![f] = @ \cup {n}]
        \/ \E h \in Flow : \E k \in 1 .. (Len(added[h]) + 1) \div 2 :
             flows' = TakeHeads(added, h, k) /\ lost' = LoseHeads(added, h, k)
    BY <1>2, <1>4, <1>8 DEF Enqueue
  <2>2. CASE flows' = added /\ lost' = lost
    BY <1>9, <1>14, <1>16, <2>2
  <2>3. ASSUME NEW h \in Flow, NEW k \in 1 .. (Len(added[h]) + 1) \div 2,
               flows' = TakeHeads(added, h, k), lost' = LoseHeads(added, h, k)
        PROVE  /\ \A g \in Flow : Increasing(flows'[g])
               /\ \A g \in Flow : Stream(flying[g], queued[g], ToSet(flows'[g]), last[g],
                                         total[g], lost'[g])
               /\ lost' \in [Flow -> SUBSET (1 .. MaxPackets)]
               /\ \A g \in Flow : /\ lost[g] \subseteq lost'[g]
                                  /\ lost'[g] \ lost[g] \subseteq ToSet(added[g])
    <3>1. Len(added[h]) \in Nat
      BY <1>13, LenProperties
    <3>2. k \in 1 .. Len(added[h])
      BY <3>1, UpToHalf
    <3>3. k \in 0 .. Len(added[h])
      BY <3>1, <3>2
    <3>4. \A g \in Flow : Increasing(TakeHeads(added, h, k)[g])
      BY <1>9, <1>13, <1>14, <1>16, <3>3, LosesHeads
    <3>5. \A g \in Flow : Stream(flying[g], queued[g], ToSet(TakeHeads(added, h, k)[g]),
                                 last[g], total[g], LoseHeads(added, h, k)[g])
      BY <1>9, <1>13, <1>14, <1>16, <3>3, LosesHeads
    <3>6. LoseHeads(added, h, k) \in [Flow -> SUBSET (1 .. MaxPackets)]
      BY <1>9, <1>13, <1>14, <3>3, HeadsLost
    <3>7. \A g \in Flow : /\ lost[g] \subseteq LoseHeads(added, h, k)[g]
                          /\ LoseHeads(added, h, k)[g] \ lost[g] \subseteq ToSet(added[g])
      BY <1>9, <1>13, <1>14, <3>3, HeadsLost
    <3>8. QED
      BY <2>3, <3>4, <3>5, <3>6, <3>7
  <2>4. CASE flows' = flows /\ lost' = [lost EXCEPT ![f] = @ \cup {n}]
    <3>1. /\ lost'[f] = lost[f] \cup {n} /\ \A g \in Flow \ {f} : lost'[g] = lost[g]
          /\ lost' \in [Flow -> SUBSET (1 .. MaxPackets)]
      BY <1>5, <1>9, <2>4
    <3>2. Stream(flying[f], queued[f], ToSet(s), last[f], total[f], lost[f] \cup {n})
      <4>1. Stream(flying[f], queued[f], ToSet(s), last[f], sent[f], lost[f])
        BY <1>5, <1>10, <1>11
      <4>2. Stream(flying[f], queued[f], ToSet(s), last[f], sent[f] + 1,
                   lost[f] \cup {sent[f] + 1})
        BY <4>1, StreamRefuse
      <4>3. QED
        BY <1>3, <1>15, <4>2
    <3>3. \A g \in Flow :
            Stream(flying[g], queued[g], ToSet(flows'[g]), last[g], total[g], lost'[g])
      BY <1>10, <1>11, <1>15, <2>4, <3>1, <3>2
    <3>4. \A g \in Flow : lost[g] \subseteq lost'[g] /\ lost'[g] \ lost[g] \subseteq ToSet(added[g])
      <4>1. n \in ToSet(added[f])
        BY <1>12, <1>13
      <4>2. QED
        BY <3>1, <4>1
    <3>5. QED
      BY <1>9, <2>4, <3>1, <3>3, <3>4
  <2>5. QED
    BY <2>1, <2>2, <2>3, <2>4
<1>19. StreamInv'
  <2>1. received' \in [Flow -> Seq(1 .. MaxPackets)]
    BY <1>1, <1>4 DEF StreamInv
  <2>2. QED
    BY <1>7, <1>17, <1>18, <2>1 DEF StreamInv, InDisc
<1>20. OrderInv'
  BY <1>1, <1>4, <1>18 DEF OrderInv
<1>21. AsChannel!Send(f)
  <2>1. \A g \in Flow : ToSet(added[g]) \subseteq last[g] + 1 .. sent'[g]
    BY <1>7, <1>16 DEF Stream
  <2>2. AsChannel!MayLose
    BY <1>7, <1>18, <2>1 DEF AsChannel!MayLose
  <2>3. QED
    BY <1>4, <2>2 DEF AsChannel!Send
<1>22. QED
  BY <1>2, <1>3, <1>5, <1>6, <1>19, <1>20, <1>21 DEF FlowInv
\* At the start nothing is on its way.
LEMMA FlowInvInit == LinkInit => FlowInv /\ AsChannel!Init
<1> SUFFICES ASSUME LinkInit PROVE FlowInv /\ AsChannel!Init
  OBVIOUS
<1>1. PICK order \in Bijection(Flow, NumApps + 1 .. NumApps + Cardinality(Flow)) :
        m_events = StopEvents \cup {FirstSend(f, order[f]) : f \in Flow}
  BY DEF LinkInit
<1>2. /\ PendingCalls("Receive") = {}
      /\ PendingCalls("Send") = {FirstSend(f, order[f]) : f \in Flow}
  BY <1>1 DEF PendingCalls, StopEvents, FirstSend
<1>3. /\ sent = [f \in Flow |-> 0] /\ received = [f \in Flow |-> <<>>]
      /\ lost = [f \in Flow |-> {}] /\ flows = [f \in Flow |-> <<>>] /\ m_queue = <<>>
  BY DEF LinkInit
<1>4. AsChannel!Init
  BY <1>3 DEF AsChannel!Init
<1>5. SendInv
  <2>1. sent \in [Flow -> 0 .. MaxPackets]
    BY <1>3, TimesAssumption
  <2>2. \A x \in PendingCalls("Send") :
          \E f \in Flow : x = FirstSend(f, order[f]) /\ x.arg.flow = f /\ x.arg.n = 1
    BY <1>2 DEF FirstSend
  <2>3. \A f \in Flow : sent[f] + 1 = 1
    BY <1>3
  <2>4. QED
    BY <2>1, <2>2, <2>3 DEF SendInv
<1>6. ReceiveInv
  BY <1>2 DEF ReceiveInv
<1>7. /\ DOMAIN m_queue = {} /\ \A f \in Flow : flows[f] = <<>> /\ DOMAIN flows[f] = {}
  BY <1>3
<1>8. OrderInv
  BY <1>7 DEF OrderInv, InOrder, Increasing
<1>9. ASSUME NEW f \in Flow
      PROVE  Stream(InFlight(f), InDevice(f), InDisc(f), AsChannel!LastReceived(f),
                    sent[f], lost[f])
  <2>1. InFlight(f) = {} /\ InDevice(f) = {} /\ InDisc(f) = {}
    BY <1>2, <1>7 DEF InFlight, InDevice, OfFlow, InDisc, ToSet
  <2>2. sent[f] = 0 /\ lost[f] = {} /\ AsChannel!LastReceived(f) = 0
    BY <1>3 DEF AsChannel!LastReceived
  <2>3. Stream({}, {}, {}, 0, 0, {})
    BY DEF Stream
  <2>4. QED
    BY <2>1, <2>2, <2>3
<1>10. StreamInv
  <2>1. <<>> \in Seq(1 .. MaxPackets)
    OBVIOUS
  <2>2. QED
    BY <1>3, <1>9, <2>1 DEF StreamInv
<1>11. QED
  BY <1>4, <1>5, <1>6, <1>8, <1>10 DEF FlowInv

\* Every step keeps the packets in their order, and is one of the channel's
\* or none.
LEMMA FlowInvNext ==
  ASSUME LinkInv, FlowInv, [LinkNext]_linkVars
  PROVE  FlowInv' /\ [AsChannel!Next]_<<sent, received, lost>>
<1>1. EventInv /\ DeviceInv /\ RunInv
  BY DEF LinkInv
<1>2. ASSUME NEW e, Send(e)
      PROVE  FlowInv' /\ AsChannel!Next
  <2>1. FlowInv' /\ e.arg.flow \in Flow /\ AsChannel!Send(e.arg.flow)
    BY <1>1, <1>2, SendFlow
  <2>2. QED
    BY <2>1 DEF AsChannel!Next
<1>3. ASSUME NEW e, Receive(e)
      PROVE  FlowInv' /\ AsChannel!Next
  <2>1. FlowInv' /\ e.arg.flow \in Flow /\ AsChannel!Deliver(e.arg.flow)
    BY <1>1, <1>3, ReceiveFlow
  <2>2. QED
    BY <2>1 DEF AsChannel!Next
<1>4. ASSUME NEW e, TransmitComplete(e)
      PROVE  FlowInv' /\ UNCHANGED <<sent, received, lost>>
  BY <1>1, <1>4, TransmitFlow
<1>5. ASSUME NEW e, Wake(e) \/ Stop(e)
      PROVE  FlowInv' /\ UNCHANGED <<sent, received, lost>>
  <2>1. /\ ProcessOneEvent(e, <<>>) /\ e.fn \notin {"Send", "Receive"}
        /\ UNCHANGED <<flows, m_queue, sent, received, lost>>
    BY <1>5 DEF Wake, Stop, discVars, deviceVars
  <2>2. QED
    BY <1>1, <2>1, QuietFlow
<1>6. CASE Restart
  <2>1. FlowInv' /\ (AsChannel!Lose \/ UNCHANGED <<sent, received, lost>>)
    BY <1>6, RestartFlow
  <2>2. QED
    BY <2>1 DEF AsChannel!Next
<1>7. CASE UNCHANGED linkVars
  <2>1. UNCHANGED <<listVars, flows, m_queue, sent, received, lost>>
    BY <1>7 DEF linkVars, discVars, deviceVars
  <2>2. /\ PendingCalls("Send")' = PendingCalls("Send")
        /\ PendingCalls("Receive")' = PendingCalls("Receive")
        /\ m_currentTs' = m_currentTs /\ m_currentTs \in Nat
    BY <1>1, <2>1 DEF listVars, PendingCalls, EventInv
  <2>3. FlowInv'
    BY <1>1, <2>1, <2>2, FlowUntouched
  <2>4. QED
    BY <2>1, <2>3
<1>8. QED
  BY <1>2, <1>3, <1>4, <1>5, <1>6, <1>7 DEF LinkNext, RunEvent, RunReturns

(***************************************************************************)
(* Whatever socket, queue disc, device and channel do, the packets of a    *)
(* flow that are not dropped arrive in the order in which they are sent    *)
(* and once, and a dropped one is not overtaken before it is dropped: for  *)
(* any flows, sizes, times and number of packets.                          *)
(***************************************************************************)
THEOREM ChannelCorrect == LinkSpec => ImplementsChannel
<1>1. LinkInit => FlowInv /\ AsChannel!Init
  BY FlowInvInit
<1>2. LinkInv /\ FlowInv /\ [LinkNext]_linkVars
        => FlowInv' /\ [AsChannel!Next]_<<sent, received, lost>>
  BY FlowInvNext
<1>3. QED
  BY <1>1, <1>2, LinkInvCorrect, PTL DEF LinkSpec, ImplementsChannel, AsChannel!Spec

--------------------------------------------------------------------------------
(***************************************************************************)
(* The numbers of the events.  Events inserted have new ones.              *)
(***************************************************************************)
LEMMA InsertedNumbers ==
  ASSUME NEW t \in Nat, NEW calls \in Calls, m_uid \in Nat, 1 <= m_uid
  PROVE  /\ Inserted(t, calls) \subseteq
              [ts : Nat, uid : m_uid .. m_uid + Len(calls) - 1, fn : Function,
               arg : Packet \cup {NoPacket}]
         /\ \A x, y \in Inserted(t, calls) : x.uid = y.uid => x = y
         /\ Len(calls) \in Nat
<1>1. /\ calls \in Seq([delay : Nat, fn : Function, arg : Packet \cup {NoPacket}])
      /\ Len(calls) \in Nat /\ DOMAIN calls = 1 .. Len(calls)
  BY LenProperties DEF Calls
<1> DEFINE event(i) == [ts |-> t + calls[i].delay, uid |-> m_uid + i - 1,
                        fn |-> calls[i].fn, arg |-> calls[i].arg]
<1>2. Inserted(t, calls) = {event(i) : i \in 1 .. Len(calls)}
  BY <1>1 DEF Inserted
<1>3. ASSUME NEW i \in 1 .. Len(calls)
      PROVE  /\ event(i) \in [ts : Nat, uid : m_uid .. m_uid + Len(calls) - 1, fn : Function,
                              arg : Packet \cup {NoPacket}]
             /\ event(i).uid = m_uid + i - 1
  <2>1. calls[i] \in [delay : Nat, fn : Function, arg : Packet \cup {NoPacket}]
    BY <1>1, ElementOfSeq
  <2>2. t + calls[i].delay \in Nat /\ m_uid + i - 1 \in m_uid .. m_uid + Len(calls) - 1
    BY <1>1, <2>1
  <2>3. QED
    BY <2>1, <2>2
<1>4. ASSUME NEW i \in 1 .. Len(calls), NEW j \in 1 .. Len(calls),
             event(i).uid = event(j).uid
      PROVE  event(i) = event(j)
  <2>1. m_uid + i - 1 = m_uid + j - 1
    BY <1>4
  <2>2. i = j
    BY <2>1
  <2>3. QED
    BY <2>2
<1> HIDE DEF event
<1>5. QED
  BY <1>1, <1>2, <1>3, <1>4

\* Events leave and are inserted: those pending keep numbers of their own.
LEMMA NumbersStep ==
  ASSUME ListInv, NEW t \in Nat, NEW calls \in Calls, NEW rest \in SUBSET m_events,
         m_events' = rest \cup Inserted(t, calls), m_uid' = m_uid + Len(calls),
         m_currentUid' = m_currentUid \/ \E e \in m_events : m_currentUid' = e.uid
  PROVE  ListInv'
<1>1. m_uid \in Nat /\ m_currentUid \in 0 .. m_uid - 1
  BY DEF ListInv
<1>2. 1 <= m_uid
  BY <1>1
<1>3. /\ Inserted(t, calls) \subseteq
           [ts : Nat, uid : m_uid .. m_uid + Len(calls) - 1, fn : Function,
            arg : Packet \cup {NoPacket}]
      /\ \A x, y \in Inserted(t, calls) : x.uid = y.uid => x = y
      /\ Len(calls) \in Nat
  BY <1>1, <1>2, InsertedNumbers
<1>4. rest \subseteq [ts : Nat, uid : 1 .. m_uid - 1, fn : Function, arg : Packet \cup {NoPacket}]
  BY DEF ListInv
<1>5. PICK n \in Nat : n = m_uid + Len(calls)
  BY <1>1, <1>3
<1>6. /\ 1 .. m_uid - 1 \subseteq 1 .. n - 1 /\ m_uid .. m_uid + Len(calls) - 1 \subseteq 1 .. n - 1
      /\ (1 .. m_uid - 1) \cap (m_uid .. m_uid + Len(calls) - 1) = {}
      /\ 0 .. m_uid - 1 \subseteq 0 .. n - 1 /\ 1 .. m_uid - 1 \subseteq 0 .. n - 1
  BY <1>1, <1>2, <1>3, <1>5
<1>7. m_events' \subseteq [ts : Nat, uid : 1 .. n - 1, fn : Function, arg : Packet \cup {NoPacket}]
  BY <1>3, <1>4, <1>6
<1>8. \A x, y \in m_events' : x.uid = y.uid => x = y
  <2>1. \A x \in rest : x.uid \in 1 .. m_uid - 1
    BY <1>4
  <2>2. \A x \in Inserted(t, calls) : x.uid \in m_uid .. m_uid + Len(calls) - 1
    BY <1>3
  <2>3. \A x, y \in rest : x.uid = y.uid => x = y
    BY DEF ListInv
  <2>4. \A x \in rest : \A y \in Inserted(t, calls) : x.uid # y.uid
    BY <1>6, <2>1, <2>2
  <2>5. QED
    BY <1>3, <2>3, <2>4
<1>9. m_currentUid' \in 0 .. n - 1
  <2>1. \A e \in m_events : e.uid \in 1 .. m_uid - 1
    BY DEF ListInv
  <2>2. QED
    BY <1>1, <1>6, <2>1
<1>10. m_uid' = n
  BY <1>5
<1>11. QED
  BY <1>5, <1>7, <1>8, <1>9, <1>10 DEF ListInv
\* At the start the numbers are those of the order of insertion.
LEMMA ListInvInit == LinkInit => ListInv /\ QuotaInv
<1> SUFFICES ASSUME LinkInit PROVE ListInv /\ QuotaInv
  OBVIOUS
<1>1. PICK order \in Bijection(Flow, NumApps + 1 .. NumApps + Cardinality(Flow)) :
        m_events = StopEvents \cup {FirstSend(f, order[f]) : f \in Flow}
  BY DEF LinkInit
<1>2. /\ order \in [Flow -> NumApps + 1 .. NumApps + Cardinality(Flow)]
      /\ \A f, g \in Flow : order[f] = order[g] => f = g
  BY Zenon DEF Bijection, Injection, IsInjective
<1>3. /\ m_currentUid = 0 /\ m_uid = NumApps + Cardinality(Flow) + 1 /\ quota = 0
      /\ Cardinality(Flow) \in Nat /\ NumApps \in Nat
  BY FlowAssumption, TimesAssumption, FS_CardinalityType DEF LinkInit
<1>4. PICK c \in Nat : c = Cardinality(Flow)
  BY <1>3
<1>5. \A x \in StopEvents :
        /\ x \in [ts : Nat, uid : 1 .. NumApps, fn : Function, arg : Packet \cup {NoPacket}]
        /\ x = [ts |-> StopTime, uid |-> x.uid, fn |-> "Stop", arg |-> NoPacket]
  BY TimesAssumption DEF StopEvents, Function
<1>6. \A f \in Flow :
        /\ FirstSend(f, order[f]) \in [ts : Nat, uid : NumApps + 1 .. NumApps + c,
                                       fn : Function, arg : Packet \cup {NoPacket}]
        /\ FirstSend(f, order[f]).uid = order[f]
  BY <1>2, <1>4, TimesAssumption DEF FirstSend, Function, Packet
<1>7. /\ 1 .. NumApps \subseteq 1 .. m_uid - 1
      /\ NumApps + 1 .. NumApps + c \subseteq 1 .. m_uid - 1
      /\ (1 .. NumApps) \cap (NumApps + 1 .. NumApps + c) = {}
      /\ m_uid \in Nat /\ m_currentUid \in 0 .. m_uid - 1
  BY <1>3, <1>4
<1>8. m_events \subseteq [ts : Nat, uid : 1 .. m_uid - 1, fn : Function,
                          arg : Packet \cup {NoPacket}]
  BY <1>1, <1>5, <1>6, <1>7
<1>9. \A x, y \in m_events : x.uid = y.uid => x = y
  <2>1. \A x, y \in StopEvents : x.uid = y.uid => x = y
    BY <1>5
  <2>2. \A f, g \in Flow :
          FirstSend(f, order[f]).uid = FirstSend(g, order[g]).uid => f = g
    BY <1>2, <1>6
  <2>3. \A x \in StopEvents : \A f \in Flow : x.uid # FirstSend(f, order[f]).uid
    BY <1>5, <1>6, <1>7
  <2>4. QED
    BY <1>1, <2>1, <2>2, <2>3
<1>10. ListInv
  BY <1>7, <1>8, <1>9 DEF ListInv
<1>11. QED
  BY <1>3, <1>10, SizeAssumption DEF QuotaInv

\* Every step keeps the numbers, and the turns left within the quota.
LEMMA ListInvNext ==
  ASSUME LinkInv, ListInv, QuotaInv, [LinkNext]_linkVars
  PROVE  ListInv' /\ QuotaInv'
<1>1. EventInv /\ DeviceInv /\ RunInv
  BY DEF LinkInv
<1>2. ASSUME NEW e, NEW calls \in Calls, ProcessOneEvent(e, calls)
      PROVE  ListInv'
  <2>1. /\ e \in m_events /\ m_events' = (m_events \ {e}) \cup Inserted(e.ts, calls)
        /\ m_uid' = m_uid + Len(calls) /\ m_currentUid' = e.uid /\ e.ts \in Nat
    BY <1>1, <1>2, NextEvent DEF ProcessOneEvent
  <2>2. m_events \ {e} \in SUBSET m_events
    OBVIOUS
  <2>3. QED
    BY <2>1, <2>2, NumbersStep
<1>3. ASSUME NEW e, Send(e) \/ TransmitComplete(e) \/ Receive(e) \/ Wake(e) \/ Stop(e)
      PROVE  ListInv'
  BY <1>1, <1>2, <1>3, OtherHandlers, NoCalls DEF Stop
<1>4. ASSUME NEW e, Send(e) \/ TransmitComplete(e) \/ Receive(e) \/ Wake(e) \/ Stop(e)
      PROVE  QuotaInv'
  <2>1. quota' = m_quota \/ quota' = quota
    BY <1>4 DEF Send, TransmitComplete, Receive, Wake, Stop, RunBegin, discVars
  <2>2. QED
    BY <2>1, SizeAssumption DEF QuotaInv
<1>5. CASE Restart
  <2>1. ListInv'
    <3>1. CASE UNCHANGED listVars
      BY <3>1 DEF listVars, ListInv
    <3>2. ASSUME NEW calls \in Calls, Schedule(calls)
          PROVE  ListInv'
      <4>1. /\ m_events' = m_events \cup Inserted(m_currentTs, calls)
            /\ m_uid' = m_uid + Len(calls) /\ m_currentUid' = m_currentUid
            /\ m_currentTs \in Nat
        BY <1>1, <3>2 DEF Schedule, EventInv
      <4>2. m_events \in SUBSET m_events
        OBVIOUS
      <4>3. QED
        BY <4>1, <4>2, NumbersStep
    <3>3. QED
      BY <1>1, <1>5, <3>1, <3>2, RestartCalls
  <2>2. quota' = 0 \/ (quota > 1 /\ quota' = quota - 1)
    BY <1>5 DEF Restart, RunEnd
  <2>3. QuotaInv'
    BY <2>2, SizeAssumption DEF QuotaInv
  <2>4. QED
    BY <2>1, <2>3
<1>6. CASE UNCHANGED linkVars
  BY <1>6 DEF linkVars, listVars, discVars, ListInv, QuotaInv
<1>7. QED
  BY <1>3, <1>4, <1>5, <1>6 DEF LinkNext, RunEvent, RunReturns

(***************************************************************************)
(* The types of the link's state; no two pending events have one number,   *)
(* and none of them is in the past.                                        *)
(***************************************************************************)
THEOREM LinkTypeCorrect == LinkSpec => []LinkTypeOK
<1>1. LinkInit => LinkInv /\ StopInv /\ FlowInv /\ ListInv /\ QuotaInv
  BY LinkInvInit, StopInvInit, FlowInvInit, ListInvInit
<1>2. LinkInv /\ StopInv /\ FlowInv /\ ListInv /\ QuotaInv /\ [LinkNext]_linkVars
        => (LinkInv /\ StopInv /\ FlowInv /\ ListInv /\ QuotaInv)'
  BY LinkInvNext, StopInvNext, FlowInvNext, ListInvNext
<1>3. LinkInv /\ StopInv /\ FlowInv /\ ListInv /\ QuotaInv => LinkTypeOK
  BY DEF LinkInv, EventInv, DeviceInv, RunInv, StopInv, FlowInv, SendInv, StreamInv,
     ListInv, QuotaInv, LinkTypeOK
<1>4. QED
  BY <1>1, <1>2, <1>3, PTL DEF LinkSpec
================================================================================
