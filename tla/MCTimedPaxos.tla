----------------------------- MODULE MCTimedPaxos -----------------------------
(***************************************************************************)
(* TimedPaxos instantiated for TLC, with the links of main().              *)
(***************************************************************************)
EXTENDS TimedPaxos

\* A hop of b bytes: delayLeaf2Spine = delayHost2Leaf = 5us, and 1Gbps.
SyncHop(b) == 5000 + 8 * b

\* A PaxosFrame goes up to a spine and down: 4 hops; a RequestFrame goes down.
Frame        == 4 * SyncHop(78)
RequestDelays == {2 * SyncHop(42)}

\* As fast as the links are, or as slow as the protocol allows for.
BoundedDelays == {Frame, boundedMessageDelay}
LinkDelays    == {Frame}
================================================================================
