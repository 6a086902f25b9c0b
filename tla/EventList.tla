------------------------------- MODULE EventList -------------------------------
(***************************************************************************)
(* DefaultSimulatorImpl: the list of pending events.  An event is run at a *)
(* time; of those with the same time the one inserted first.  Each event   *)
(* has a number (uid) of its own, given in the order of insertion.         *)
(***************************************************************************)
EXTENDS Integers, Sequences, FiniteSets

VARIABLES
  m_events,     \* pending events
  m_uid,        \* the number of the next one inserted
  m_currentTs,  \* the time and number of the one run last, or running
  m_currentUid

listVars == <<m_events, m_uid, m_currentTs, m_currentUid>>

\* Mutation: of two events with the same time the last one inserted is first.
BugLastFirst(x, y) == x.ts < y.ts \/ (x.ts = y.ts /\ x.uid > y.uid)

\* The order of Scheduler::EventKey.
Earlier(x, y) == x.ts < y.ts \/ (x.ts = y.ts /\ x.uid < y.uid)

\* RemoveNext takes event e.
IsNext(e) ==
  /\ e \in m_events
  /\ \A x \in m_events \ {e} : Earlier(e, x)

(***************************************************************************)
(* A call asks for function fn with argument arg after a delay.  calls is  *)
(* what is scheduled one after the other while the clock shows time t.     *)
(* Mutation: the delay is taken for the time.                              *)
(***************************************************************************)
BugAbsoluteDelay(t, calls) ==
  {[ts |-> calls[i].delay, uid |-> m_uid + i - 1,
    fn |-> calls[i].fn, arg |-> calls[i].arg] : i \in DOMAIN calls}

Inserted(t, calls) ==
  {[ts |-> t + calls[i].delay, uid |-> m_uid + i - 1,
    fn |-> calls[i].fn, arg |-> calls[i].arg] : i \in DOMAIN calls}

\* Schedule, ScheduleNow and ScheduleWithContext, called while an event runs.
Schedule(calls) ==
  /\ m_events' = m_events \cup Inserted(m_currentTs, calls)
  /\ m_uid' = m_uid + Len(calls)
  /\ UNCHANGED <<m_currentTs, m_currentUid>>

\* Event e runs, and schedules calls.
ProcessOneEvent(e, calls) ==
  /\ IsNext(e)
  /\ m_currentTs' = e.ts
  /\ m_currentUid' = e.uid
  /\ m_events' = (m_events \ {e}) \cup Inserted(e.ts, calls)
  /\ m_uid' = m_uid + Len(calls)
================================================================================
