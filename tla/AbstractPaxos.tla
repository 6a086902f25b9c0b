---------------------------- MODULE AbstractPaxos -----------------------------
(***************************************************************************)
(* What sync-paxos promises, without messages, counters or queues: what is *)
(* requested, what each server has accepted, what has been chosen and what *)
(* each server has learned.                                                *)
(***************************************************************************)
EXTENDS PaxosTypes

VARIABLES
  requested,  \* the requests, in the order they were made
  accepted,   \* what each server has accepted
  chosen,     \* what has been decided
  learned     \* the decisions each server knows of

absVars == <<requested, accepted, chosen, learned>>

Init ==
  /\ requested = <<>>
  /\ accepted = [s \in Server |-> {}]
  /\ chosen = {}
  /\ learned = [s \in Server |-> {}]

\* The one decision there can be on the i-th request.
Requested(i) ==
  [id |-> i, value |-> requested[i].value, proposer |-> requested[i].to]

IsMajority(S) == 2 * Cardinality(S) > NumNodes

Request ==
  /\ Len(requested) < MaxRequests
  /\ \E s \in Server, v \in Value :
       requested' = Append(requested, [to |-> s, value |-> v])
  /\ UNCHANGED <<accepted, chosen, learned>>

\* A server other than the proposer votes for a request.
Accept(s, d) ==
  /\ s # d.proposer
  /\ accepted' = [accepted EXCEPT ![s] = @ \cup {d}]
  /\ UNCHANGED <<requested, chosen, learned>>

(***************************************************************************)
(* A majority has voted: the request is chosen.  A synchronous proposer    *)
(* knows at once.  The asynchronous leader chooses only when everything    *)
(* chosen before is complete, that is, when it has learned it itself.      *)
(***************************************************************************)
Choose(d) ==
  /\ d \notin chosen
  /\ IsMajority({d.proposer} \cup {s \in Server : d \in accepted[s]})
  /\ chosen' = chosen \cup {d}
  /\ \/ /\ IsAsync
        /\ d.proposer = Leader
        /\ chosen = learned[Leader]
        /\ UNCHANGED learned
     \/ /\ ~IsAsync
        /\ learned' = [learned EXCEPT ![d.proposer] = @ \cup {d}]
  /\ UNCHANGED <<requested, accepted>>

\* The asynchronous leader is the one to learn last, after a majority has.
Learn(s, d) ==
  /\ d \in chosen
  /\ d \notin learned[s]
  /\ s = d.proposer =>
       IsMajority({s} \cup {t \in Server : d \in learned[t]})
  /\ learned' = [learned EXCEPT ![s] = @ \cup {d}]
  /\ UNCHANGED <<requested, accepted, chosen>>

Next ==
  \/ Request
  \/ \E i \in DOMAIN requested, s \in Server : Accept(s, Requested(i))
  \/ \E i \in DOMAIN requested : Choose(Requested(i))
  \/ \E i \in DOMAIN requested, s \in Server : Learn(s, Requested(i))

Spec == Init /\ [][Next]_absVars
===============================================================================
