-------------------------------- MODULE Channel --------------------------------
(***************************************************************************)
(* What a link promises its flows: of the packets of one flow those that   *)
(* are not lost arrive, in the order in which they are sent and none       *)
(* twice; and what is lost is lost before later ones overtake it.  Nothing *)
(* is promised about packets of different flows.                           *)
(***************************************************************************)
EXTENDS Integers, Sequences

CONSTANT Flow  \* the flows: packets with the same addresses and ports

VARIABLES
  sent,      \* how many packets of each flow have been sent
  received,  \* the numbers of those that have arrived
  lost       \* and of those that never will

Init ==
  /\ sent = [f \in Flow |-> 0]
  /\ received = [f \in Flow |-> <<>>]
  /\ lost = [f \in Flow |-> {}]

LastReceived(f) == IF received[f] = <<>> THEN 0 ELSE received[f][Len(received[f])]

\* Packets on their way may be lost.
MayLose ==
  /\ DOMAIN lost' = Flow
  /\ \A f \in Flow : /\ lost[f] \subseteq lost'[f]
                     /\ lost'[f] \ lost[f] \subseteq LastReceived(f) + 1 .. sent'[f]

Send(f) ==
  /\ sent' = [sent EXCEPT ![f] = @ + 1]
  /\ MayLose
  /\ UNCHANGED received

\* The next packet arrives, of those not lost.
Deliver(f) ==
  /\ \E n \in LastReceived(f) + 1 .. sent[f] :
       /\ n \notin lost[f]
       /\ LastReceived(f) + 1 .. n - 1 \subseteq lost[f]
       /\ received' = [received EXCEPT ![f] = Append(@, n)]
  /\ UNCHANGED <<sent, lost>>

Lose ==
  /\ MayLose
  /\ UNCHANGED <<sent, received>>

Next == Lose \/ \E f \in Flow : Send(f) \/ Deliver(f)

Spec == Init /\ [][Next]_<<sent, received, lost>>
================================================================================
