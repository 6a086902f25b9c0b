----------------------- MODULE SyncPaxosLearning_proofs ------------------------
(***************************************************************************)
(* Learning: no server learns a decision twice, logs are in the order of   *)
(* the requests, a request is in one place, and the synchronous proposer's *)
(* log is complete.                                                        *)
(***************************************************************************)
EXTENDS SyncPaxosVoting_proofs

(***************************************************************************)
(* What the handlers do to the requests, events, proposals and learned ids *)
(* of LearningOK.  First: nothing is taken or learned.                     *)
(***************************************************************************)
LEMMA NothingNew ==
  ASSUME NEW F, NEW E, NEW P, NEW L, LearningOK(F, E, P, L),
         NEW F2 \in SUBSET F, NEW E2, NEW P2, NEW L2,
         \A e \in E2 : /\ e.at \in Server
                       /\ e \in E \/ e.frame.type \in {"PROPOSAL", "ACCEPT"},
         \A s \in Server : L2[s] \subseteq L[s],
         \A s \in Server : \A p \in P2[s] :
           \E o \in P[s] : p.id = o.id /\ p.decided = o.decided,
         \A s \in Server : \A p, q \in P2[s] : p.id = q.id => p = q
  PROVE  LearningOK(F2, E2, P2, L2)
<1>1. ASSUME NEW i, NoTrace(i, E, L)
      PROVE  NoTrace(i, E2, L2)
  BY <1>1 DEF NoTrace
<1>2. FreshOK(F2, E2, P2, L2)
  <2> SUFFICES ASSUME NEW i \in F2
               PROVE  /\ NoTrace(i, E2, L2)
                      /\ \A s \in Server : \A p \in P2[s] : p.id # i
    BY DEF FreshOK
  <2>1. i \in F
    OBVIOUS
  <2>2. /\ NoTrace(i, E, L)
        /\ \A s \in Server : \A p \in P[s] : p.id # i
    BY <2>1 DEF LearningOK, FreshOK
  <2>3. QED
    BY <1>1, <2>2
<1>3. ProposalsOK(E2, P2, L2)
  <2> SUFFICES ASSUME NEW s \in Server, NEW p \in P2[s]
               PROVE  /\ p.decided \/ NoTrace(p.id, E2, L2)
                      /\ p.id \notin L2[s]
                      /\ \A q \in P2[s] : q.id = p.id => q = p
    BY DEF ProposalsOK
  <2>1. PICK o \in P[s] : p.id = o.id /\ p.decided = o.decided
    OBVIOUS
  <2>2. (o.decided \/ NoTrace(o.id, E, L)) /\ o.id \notin L[s]
    BY DEF LearningOK, ProposalsOK
  <2>3. QED
    BY <1>1, <2>1, <2>2
<1>4. DecisionsOK(E2, L2)
  <2> SUFFICES ASSUME NEW e \in E2, e.frame.type = "DECISION"
               PROVE  /\ e.at # e.frame.proposerId
                      /\ e.frame.proposalId \notin L2[e.at]
                      /\ \A x \in E2 :
                           (x.frame.type = "DECISION" /\ x.at = e.at
                              /\ x.frame.proposalId = e.frame.proposalId) => x = e
    BY DEF DecisionsOK
  <2>1. e \in E
    OBVIOUS
  <2>2. QED
    BY <2>1 DEF LearningOK, DecisionsOK
<1>5. QED
  BY <1>2, <1>3, <1>4 DEF LearningOK

\* A fresh request is proposed.
LEMMA NewProposal ==
  ASSUME NEW F, NEW E, NEW P, NEW L, LearningOK(F, E, P, L),
         NEW s \in Server, NEW p, p.id \in F,
         NEW F2 \in SUBSET F, p.id \notin F2, NEW E2, NEW P2,
         \A e \in E2 : e \in E \/ e.frame.type \in {"PROPOSAL", "ACCEPT"},
         \A t \in Server : \A x \in P2[t] : x \in P[t] \/ (t = s /\ x = p)
  PROVE  LearningOK(F2, E2, P2, L)
<1>1. ASSUME NEW i, NoTrace(i, E, L)
      PROVE  NoTrace(i, E2, L)
  BY <1>1 DEF NoTrace
<1>2. /\ NoTrace(p.id, E, L)
      /\ \A t \in Server : \A x \in P[t] : x.id # p.id
  BY DEF LearningOK, FreshOK
<1>3. FreshOK(F2, E2, P2, L)
  <2> SUFFICES ASSUME NEW i \in F2
               PROVE  /\ NoTrace(i, E2, L)
                      /\ \A t \in Server : \A x \in P2[t] : x.id # i
    BY DEF FreshOK
  <2>1. i \in F /\ i # p.id
    OBVIOUS
  <2>2. /\ NoTrace(i, E, L)
        /\ \A t \in Server : \A x \in P[t] : x.id # i
    BY <2>1 DEF LearningOK, FreshOK
  <2>3. QED
    BY <1>1, <2>1, <2>2
<1>4. ProposalsOK(E2, P2, L)
  <2> SUFFICES ASSUME NEW t \in Server, NEW x \in P2[t]
               PROVE  /\ x.decided \/ NoTrace(x.id, E2, L)
                      /\ x.id \notin L[t]
                      /\ \A q \in P2[t] : q.id = x.id => q = x
    BY DEF ProposalsOK
  <2>1. CASE x \in P[t]
    <3>1. /\ x.decided \/ NoTrace(x.id, E, L)
          /\ x.id \notin L[t]
          /\ \A q \in P[t] : q.id = x.id => q = x
      BY <2>1 DEF LearningOK, ProposalsOK
    <3>2. x.id # p.id
      BY <1>2, <2>1
    <3>3. QED
      BY <1>1, <3>1, <3>2
  <2>2. CASE t = s /\ x = p
    BY <1>1, <1>2, <2>2 DEF NoTrace
  <2>3. QED
    BY <2>1, <2>2
<1>5. DecisionsOK(E2, L)
  <2> SUFFICES ASSUME NEW e \in E2, e.frame.type = "DECISION"
               PROVE  /\ e.at # e.frame.proposerId
                      /\ e.frame.proposalId \notin L[e.at]
                      /\ \A x \in E2 :
                           (x.frame.type = "DECISION" /\ x.at = e.at
                              /\ x.frame.proposalId = e.frame.proposalId) => x = e
    BY DEF DecisionsOK
  <2>1. e \in E
    OBVIOUS
  <2>2. QED
    BY <2>1 DEF LearningOK, DecisionsOK
<1>6. QED
  BY <1>3, <1>4, <1>5 DEF LearningOK

(***************************************************************************)
(* Proposal p of server s is decided: it leaves the map or stays, decided, *)
(* and the DECISION goes to other servers, one each.                       *)
(***************************************************************************)
LEMMA NewDecision ==
  ASSUME NEW F, NEW E, NEW P, NEW L, LearningOK(F, E, P, L),
         NEW s \in Server, NEW p \in P[s], ~p.decided,
         \A t \in Server : \A x \in P[t] : x.id = p.id => t = s,
         NEW E2, NEW P2, NEW L2,
         \A e \in E2 :
           /\ e.at \in Server
           /\ \/ e \in E
              \/ /\ e.frame.type = "DECISION" /\ e.frame.proposalId = p.id
                 /\ e.frame.proposerId = s /\ e.at # s,
         \A e, x \in E2 : (e \notin E /\ x \notin E /\ x.at = e.at) => x = e,
         \A t \in Server : \A x \in P2[t] :
           x \in P[t] \/ (x.id = p.id /\ x.decided /\ t = s),
         \A x, y \in P2[s] : x.id = y.id => x = y,
         \A x \in P2[s] : x.id = p.id => x.decided,
         \A t \in Server \ {s} : L2[t] \subseteq L[t],
         \/ L2[s] \subseteq L[s]
         \/ L2[s] \subseteq L[s] \cup {p.id} /\ \A x \in P2[s] : x.id # p.id
  PROVE  LearningOK(F, E2, P2, L2)
<1>1. NoTrace(p.id, E, L)
  BY DEF LearningOK, ProposalsOK
<1>2. ASSUME NEW i, i # p.id, NoTrace(i, E, L)
      PROVE  NoTrace(i, E2, L2)
  <2>1. \A e \in E2 :
          e.frame.proposalId = i => e.frame.type \notin {"DECISION", "DECISION_ACK"}
    BY <1>2 DEF NoTrace
  <2>2. \A t \in Server : i \notin L2[t]
    BY <1>2 DEF NoTrace
  <2>3. QED
    BY <2>1, <2>2 DEF NoTrace
<1>3. FreshOK(F, E2, P2, L2)
  <2> SUFFICES ASSUME NEW i \in F
               PROVE  /\ NoTrace(i, E2, L2)
                      /\ \A t \in Server : \A x \in P2[t] : x.id # i
    BY DEF FreshOK
  <2>1. /\ NoTrace(i, E, L)
        /\ \A t \in Server : \A x \in P[t] : x.id # i
    BY DEF LearningOK, FreshOK
  <2>2. i # p.id
    BY <2>1
  <2>3. QED
    BY <1>2, <2>1, <2>2
<1>4. ProposalsOK(E2, P2, L2)
  <2> SUFFICES ASSUME NEW t \in Server, NEW x \in P2[t]
               PROVE  /\ x.decided \/ NoTrace(x.id, E2, L2)
                      /\ x.id \notin L2[t]
                      /\ \A q \in P2[t] : q.id = x.id => q = x
    BY DEF ProposalsOK
  <2>1. CASE x.id = p.id
    <3>1. t = s
      BY <2>1
    <3>2. x.decided
      BY <2>1, <3>1
    <3>3. p.id \notin L[s]
      BY <1>1 DEF NoTrace
    <3>4. QED
      BY <2>1, <3>1, <3>2, <3>3
  <2>2. CASE x.id # p.id
    <3>1. x \in P[t]
      BY <2>2
    <3>2. /\ x.decided \/ NoTrace(x.id, E, L)
          /\ x.id \notin L[t]
          /\ \A q \in P[t] : q.id = x.id => q = x
      BY <3>1 DEF LearningOK, ProposalsOK
    <3>3. x.id \notin L2[t]
      BY <2>2, <3>2
    <3>4. \A q \in P2[t] : q.id = x.id => q = x
      BY <2>2, <3>2
    <3>5. QED
      BY <1>2, <2>2, <3>2, <3>3, <3>4
  <2>3. QED
    BY <2>1, <2>2
<1>5. DecisionsOK(E2, L2)
  <2> SUFFICES ASSUME NEW e \in E2, e.frame.type = "DECISION"
               PROVE  /\ e.at # e.frame.proposerId
                      /\ e.frame.proposalId \notin L2[e.at]
                      /\ \A x \in E2 :
                           (x.frame.type = "DECISION" /\ x.at = e.at
                              /\ x.frame.proposalId = e.frame.proposalId) => x = e
    BY DEF DecisionsOK
  <2>1. \A x \in E : x.frame.type = "DECISION" => x.frame.proposalId # p.id
    BY <1>1 DEF NoTrace
  <2>2. CASE e \in E
    <3>1. /\ e.at # e.frame.proposerId
          /\ e.frame.proposalId \notin L[e.at]
          /\ \A x \in E :
               (x.frame.type = "DECISION" /\ x.at = e.at
                  /\ x.frame.proposalId = e.frame.proposalId) => x = e
      BY <2>2 DEF LearningOK, DecisionsOK
    <3>2. e.frame.proposalId # p.id
      BY <2>1, <2>2
    <3>3. \A x \in E2 : x.frame.proposalId = e.frame.proposalId => x \in E
      BY <3>2
    <3>4. e.frame.proposalId \notin L2[e.at]
      BY <3>1, <3>2
    <3>5. QED
      BY <3>1, <3>3, <3>4
  <2>3. CASE e \notin E
    <3>1. e.at \in Server \ {s} /\ e.frame.proposerId = s /\ e.frame.proposalId = p.id
      BY <2>3
    <3>2. p.id \notin L2[e.at]
      BY <1>1, <3>1 DEF NoTrace
    <3>3. \A x \in E2 : x.frame.type = "DECISION" /\ x.frame.proposalId = p.id
                         => x \notin E
      BY <2>1
    <3>4. QED
      BY <2>3, <3>1, <3>2, <3>3
  <2>4. QED
    BY <2>2, <2>3
<1>6. QED
  BY <1>3, <1>4, <1>5 DEF LearningOK

(***************************************************************************)
(* Server t learns the DECISION e it receives, and may send its ack.       *)
(***************************************************************************)
LEMMA DecisionLearned ==
  ASSUME NEW F, NEW E, NEW P, NEW L, LearningOK(F, E, P, L),
         NEW e \in E, e.frame.type = "DECISION", e.at \in Server,
         NEW i, i = e.frame.proposalId,
         \A x \in P[e.at] : x.id # i,
         NEW E2, NEW L2,
         \A x \in E2 : /\ x.at \in Server
                       /\ \/ x \in E \ {e}
                          \/ x.frame.type = "DECISION_ACK" /\ x.frame.proposalId = i,
         \A t \in Server \ {e.at} : L2[t] \subseteq L[t],
         L2[e.at] \subseteq L[e.at] \cup {i}
  PROVE  LearningOK(F, E2, P, L2)
<1>1. ~NoTrace(i, E, L)
  BY DEF NoTrace
<1>2. ASSUME NEW j, NoTrace(j, E, L)
      PROVE  NoTrace(j, E2, L2)
  <2>1. j # i
    BY <1>1, <1>2
  <2>2. \A x \in E2 :
          x.frame.proposalId = j => x.frame.type \notin {"DECISION", "DECISION_ACK"}
    BY <1>2, <2>1 DEF NoTrace
  <2>3. \A t \in Server : j \notin L2[t]
    BY <1>2, <2>1 DEF NoTrace
  <2>4. QED
    BY <2>2, <2>3 DEF NoTrace
<1>3. FreshOK(F, E2, P, L2)
  BY <1>2 DEF LearningOK, FreshOK
<1>4. ProposalsOK(E2, P, L2)
  <2> SUFFICES ASSUME NEW t \in Server, NEW x \in P[t]
               PROVE  /\ x.decided \/ NoTrace(x.id, E2, L2)
                      /\ x.id \notin L2[t]
                      /\ \A q \in P[t] : q.id = x.id => q = x
    BY DEF ProposalsOK
  <2>1. /\ x.decided \/ NoTrace(x.id, E, L)
        /\ x.id \notin L[t]
        /\ \A q \in P[t] : q.id = x.id => q = x
    BY DEF LearningOK, ProposalsOK
  <2>2. x.id \notin L2[t]
    BY <2>1
  <2>3. QED
    BY <1>2, <2>1, <2>2
<1>5. DecisionsOK(E2, L2)
  <2> SUFFICES ASSUME NEW d \in E2, d.frame.type = "DECISION"
               PROVE  /\ d.at # d.frame.proposerId
                      /\ d.frame.proposalId \notin L2[d.at]
                      /\ \A x \in E2 :
                           (x.frame.type = "DECISION" /\ x.at = d.at
                              /\ x.frame.proposalId = d.frame.proposalId) => x = d
    BY DEF DecisionsOK
  <2>1. d \in E /\ d # e /\ d.at \in Server
    OBVIOUS
  <2>2. /\ d.at # d.frame.proposerId
        /\ d.frame.proposalId \notin L[d.at]
        /\ \A x \in E :
             (x.frame.type = "DECISION" /\ x.at = d.at
                /\ x.frame.proposalId = d.frame.proposalId) => x = d
    BY <2>1 DEF LearningOK, DecisionsOK
  <2>3. \A x \in E2 : x.frame.type = "DECISION" => x \in E
    OBVIOUS
  <2>4. d.frame.proposalId \notin L2[d.at]
    BY <2>1, <2>2
  <2>5. QED
    BY <2>2, <2>3, <2>4
<1>6. QED
  BY <1>3, <1>4, <1>5 DEF LearningOK

(***************************************************************************)
(* The DECISION_ACK e completes proposal p of server s, which learns it.   *)
(***************************************************************************)
LEMMA ProposalCompleted ==
  ASSUME NEW F, NEW E, NEW P, NEW L, LearningOK(F, E, P, L),
         \A x \in E : x.at \in Server,
         NEW s \in Server, NEW p \in P[s],
         NEW e \in E, e.frame.type = "DECISION_ACK", e.frame.proposalId = p.id,
         \A x \in E : x.frame.type = "DECISION" /\ x.frame.proposalId = p.id
                        => x.frame.proposerId = s,
         NEW P2, NEW L2,
         \A t \in Server \ {s} : P2[t] = P[t] /\ L2[t] \subseteq L[t],
         \A x \in P2[s] : x \in P[s] /\ x.id # p.id,
         L2[s] \subseteq L[s] \cup {p.id},
         \A t \in Server : \A x \in P[t] : x.id = p.id => t = s
  PROVE  LearningOK(F, E \ {e}, P2, L2)
<1>1. ~NoTrace(p.id, E, L)
  BY DEF NoTrace
<1>2. ASSUME NEW j, NoTrace(j, E, L)
      PROVE  NoTrace(j, E \ {e}, L2)
  <2>1. j # p.id
    BY <1>1, <1>2
  <2>2. \A t \in Server : j \notin L2[t]
    BY <1>2, <2>1 DEF NoTrace
  <2>3. QED
    BY <1>2, <2>2 DEF NoTrace
<1>3. FreshOK(F, E \ {e}, P2, L2)
  <2> SUFFICES ASSUME NEW i \in F
               PROVE  /\ NoTrace(i, E \ {e}, L2)
                      /\ \A t \in Server : \A x \in P2[t] : x.id # i
    BY DEF FreshOK
  <2>1. /\ NoTrace(i, E, L)
        /\ \A t \in Server : \A x \in P[t] : x.id # i
    BY DEF LearningOK, FreshOK
  <2>2. QED
    BY <1>2, <2>1
<1>4. ProposalsOK(E \ {e}, P2, L2)
  <2> SUFFICES ASSUME NEW t \in Server, NEW x \in P2[t]
               PROVE  /\ x.decided \/ NoTrace(x.id, E \ {e}, L2)
                      /\ x.id \notin L2[t]
                      /\ \A q \in P2[t] : q.id = x.id => q = x
    BY DEF ProposalsOK
  <2>1. x \in P[t] /\ x.id # p.id
    OBVIOUS
  <2>2. /\ x.decided \/ NoTrace(x.id, E, L)
        /\ x.id \notin L[t]
        /\ \A q \in P[t] : q.id = x.id => q = x
    BY <2>1 DEF LearningOK, ProposalsOK
  <2>3. x.id \notin L2[t]
    BY <2>1, <2>2
  <2>4. \A q \in P2[t] : q \in P[t]
    OBVIOUS
  <2>5. QED
    BY <1>2, <2>2, <2>3, <2>4
<1>5. DecisionsOK(E \ {e}, L2)
  <2> SUFFICES ASSUME NEW d \in E, d.frame.type = "DECISION"
               PROVE  /\ d.at # d.frame.proposerId
                      /\ d.frame.proposalId \notin L2[d.at]
                      /\ \A x \in E :
                           (x.frame.type = "DECISION" /\ x.at = d.at
                              /\ x.frame.proposalId = d.frame.proposalId) => x = d
    BY DEF DecisionsOK
  <2>1. /\ d.at # d.frame.proposerId
        /\ d.frame.proposalId \notin L[d.at]
        /\ \A x \in E :
             (x.frame.type = "DECISION" /\ x.at = d.at
                /\ x.frame.proposalId = d.frame.proposalId) => x = d
    BY DEF LearningOK, DecisionsOK
  <2>2. d.frame.proposalId = p.id => d.at # s
    BY <2>1
  <2>3. d.frame.proposalId \notin L2[d.at]
    BY <2>1, <2>2
  <2>4. QED
    BY <2>1, <2>3
<1>6. QED
  BY <1>3, <1>4, <1>5 DEF LearningOK
-------------------------------------------------------------------------------
(***************************************************************************)
(* Logs.  A decision pushed onto a queue in order of the ids leaves it in  *)
(* order, and the entries before it are those with smaller ids.            *)
(***************************************************************************)
LEMMA PushPlace ==
  ASSUME NEW q \in Seq(Decision), NEW d \in Decision, Ordered(q),
         NEW k \in DOMAIN q
  PROVE  k <= Cardinality({j \in DOMAIN q : q[j].id <= d.id}) <=> q[k].id <= d.id
<1> DEFINE S == {j \in DOMAIN q : q[j].id <= d.id}
           c == Cardinality(S)
<1>1. Len(q) \in Nat /\ DOMAIN q = 1 .. Len(q) /\ c \in 0 .. Len(q)
  BY LenProperties, PushIndex
<1>2. \A j \in DOMAIN q : q[j].id \in Int
  <2>1. \A j \in 1 .. Len(q) : q[j] \in Decision
    BY ElementOfSeq
  <2>2. QED
    BY <1>1, <2>1 DEF Decision, Id
<1>3. d.id \in Int
  BY DEF Decision, Id
<1>4. IsFiniteSet(S)
  <2>1. IsFiniteSet(1 .. Len(q))
    BY <1>1, FS_Interval
  <2>2. QED
    BY <1>1, <2>1, FS_Subset
<1>5. ASSUME NEW j \in S
      PROVE  /\ 1 .. j \in SUBSET S
             /\ j <= c
  <2>1. j \in DOMAIN q /\ q[j].id <= d.id
    OBVIOUS
  <2>2. ASSUME NEW i \in 1 .. j
        PROVE  i \in S
    <3>1. i \in DOMAIN q /\ (i < j \/ i = j)
      BY <1>1, <2>1
    <3>2. q[i].id <= q[j].id
      BY <1>2, <2>1, <3>1 DEF Ordered
    <3>3. QED
      BY <1>2, <1>3, <2>1, <3>1, <3>2
  <2>3. 1 .. j \in SUBSET S
    BY <2>2
  <2>4. Cardinality(1 .. j) = j
    BY <1>1, <2>1, FS_Interval
  <2> HIDE DEF S
  <2>5. Cardinality(1 .. j) <= c
    BY <1>4, <2>3, FS_Subset DEF c
  <2>6. QED
    BY <2>3, <2>4, <2>5
<1>6. S \subseteq 1 .. c
  BY <1>1, <1>5
<1>7. S = 1 .. c
  <2>1. IsFiniteSet(1 .. c) /\ Cardinality(1 .. c) = c
    BY <1>1, FS_Interval
  <2>2. c = Cardinality(S)
    OBVIOUS
  <2> HIDE DEF S, c
  <2>3. QED
    BY <1>6, <2>1, <2>2, FS_Subset
<1>8. k \in 1 .. c <=> k <= c
  BY <1>1
<1>9. QED
  BY <1>7, <1>8

\* Pushing keeps a queue ordered.
LEMMA PushOrdered ==
  ASSUME NEW q \in Seq(Decision), NEW d \in Decision, Ordered(q),
         \A k \in DOMAIN q : q[k].id # d.id
  PROVE  Ordered(Push(q, d))
<1> DEFINE c == Cardinality({k \in DOMAIN q : q[k].id <= d.id})
           p == Push(q, d)
<1>1. Len(q) \in Nat /\ DOMAIN q = 1 .. Len(q) /\ c \in 0 .. Len(q)
  BY LenProperties, PushIndex
<1>2. /\ p \in Seq(Decision)
      /\ Len(p) = Len(q) + 1
      /\ \A i \in 1 .. Len(q) + 1 :
           p[i] = IF i <= c THEN q[i] ELSE IF i = c + 1 THEN d ELSE q[i - 1]
  BY PushElements
<1>3. DOMAIN p = 1 .. Len(q) + 1
  BY <1>1, <1>2, LenProperties
<1>4. ASSUME NEW k \in DOMAIN q
      PROVE  /\ q[k].id \in Int
             /\ k <= c => q[k].id < d.id
             /\ k > c => d.id < q[k].id
  <2>1. q[k].id \in Int /\ d.id \in Int
    <3>1. q[k] \in Decision
      BY <1>1, ElementOfSeq
    <3>2. QED
      BY <3>1 DEF Decision, Id
  <2>2. k <= c <=> q[k].id <= d.id
    BY PushPlace
  <2>3. q[k].id # d.id
    OBVIOUS
  <2> HIDE DEF c
  <2>4. QED
    BY <1>1, <2>1, <2>2, <2>3
<1> HIDE DEF c, p
<1>5. d.id \in Int
  BY DEF Decision, Id
<1>6. ASSUME NEW i \in DOMAIN p, NEW j \in DOMAIN p, i < j
      PROVE  p[i].id < p[j].id
  <2>1. /\ i \in 1 .. Len(q) + 1 /\ j \in 1 .. Len(q) + 1
        /\ p[i] = IF i <= c THEN q[i] ELSE IF i = c + 1 THEN d ELSE q[i - 1]
        /\ p[j] = IF j <= c THEN q[j] ELSE IF j = c + 1 THEN d ELSE q[j - 1]
    BY <1>2, <1>3
  <2>2. CASE j <= c
    <3>1. i \in DOMAIN q /\ j \in DOMAIN q /\ p[i] = q[i] /\ p[j] = q[j]
      BY <1>1, <1>6, <2>1, <2>2
    <3>2. QED
      BY <1>6, <3>1 DEF Ordered
  <2>3. CASE j = c + 1
    <3>1. i \in DOMAIN q /\ i <= c /\ p[i] = q[i] /\ p[j] = d
      BY <1>1, <1>6, <2>1, <2>3
    <3>2. QED
      BY <1>4, <3>1
  <2>4. CASE j > c + 1 /\ i <= c
    <3>1. /\ i \in DOMAIN q /\ j - 1 \in DOMAIN q /\ i < j - 1
          /\ p[i] = q[i] /\ p[j] = q[j - 1]
      BY <1>1, <2>1, <2>4
    <3>2. QED
      BY <3>1 DEF Ordered
  <2>5. CASE j > c + 1 /\ i = c + 1
    <3>1. j - 1 \in DOMAIN q /\ j - 1 > c /\ p[i] = d /\ p[j] = q[j - 1]
      BY <1>1, <2>1, <2>5
    <3>2. QED
      BY <1>4, <3>1
  <2>6. CASE j > c + 1 /\ i > c + 1
    <3>1. /\ i - 1 \in DOMAIN q /\ j - 1 \in DOMAIN q /\ i - 1 < j - 1
          /\ p[i] = q[i - 1] /\ p[j] = q[j - 1]
      BY <1>1, <1>6, <2>1, <2>6
    <3>2. QED
      BY <3>1 DEF Ordered
  <2>7. QED
    BY <1>1, <2>1, <2>2, <2>3, <2>4, <2>5, <2>6
<1>7. QED
  BY <1>6 DEF Ordered, p

\* Server s learns d, which it has not learned before.
LEMMA PushKeepsLogs ==
  ASSUME TypeOK, LogsOK, NEW s \in Server, NEW d \in Decision,
         d.id \notin LearnedIds[s],
         m_decidedProposalQueue' =
           [m_decidedProposalQueue EXCEPT ![s] = Push(@, d)],
         UNCHANGED <<decisionLog, stopped>>
  PROVE  LogsOK'
<1> DEFINE q == m_decidedProposalQueue[s]
<1>1. q \in Seq(Decision)
  BY DEF TypeOK, ServerTypeOK
<1>2. \A x \in ToSet(q) \cup ToSet(decisionLog[s]) : x.id # d.id
  BY DEF LearnedIds, IdsOf, Learned
<1>3. Ordered(q)
  BY DEF LogsOK
<1>4. \A k \in DOMAIN q : q[k].id # d.id
  BY <1>2 DEF ToSet
<1> HIDE DEF q
<1>5. Ordered(Push(q, d)) /\ ToSet(Push(q, d)) = ToSet(q) \cup {d}
  BY <1>1, <1>3, <1>4, PushOrdered, PushSet
<1>6. ASSUME NEW t \in Server
      PROVE  /\ Ordered(m_decidedProposalQueue'[t])
             /\ Ordered(decisionLog'[t])
             /\ IdsOf(ToSet(m_decidedProposalQueue'[t]))
                  \cap IdsOf(ToSet(decisionLog'[t])) = {}
             /\ t \notin stopped' => decisionLog'[t] = <<>>
  <2>1. /\ Ordered(m_decidedProposalQueue[t])
        /\ Ordered(decisionLog[t])
        /\ IdsOf(ToSet(m_decidedProposalQueue[t])) \cap IdsOf(ToSet(decisionLog[t])) = {}
        /\ t \notin stopped => decisionLog[t] = <<>>
    BY DEF LogsOK
  <2>2. CASE t = s
    <3>1. m_decidedProposalQueue'[t] = Push(q, d)
      BY <2>2 DEF q, TypeOK, ServerTypeOK
    <3>2. IdsOf(ToSet(q) \cup {d}) \cap IdsOf(ToSet(decisionLog[s])) = {}
      BY <1>2, <2>1, <2>2 DEF IdsOf, q
    <3>3. QED
      BY <1>5, <2>1, <2>2, <3>1, <3>2
  <2>3. CASE t # s
    <3>1. m_decidedProposalQueue'[t] = m_decidedProposalQueue[t]
      BY <2>3 DEF TypeOK, ServerTypeOK
    <3>2. QED
      BY <2>1, <3>1
  <2>4. QED
    BY <2>2, <2>3
<1>7. QED
  BY <1>6 DEF LogsOK, Ordered, IdsOf

\* The ids a server has learned when a decision is pushed.
LEMMA LearnedIdsGrow ==
  ASSUME TypeOK, NEW s \in Server, NEW d \in Decision,
         m_decidedProposalQueue' =
           [m_decidedProposalQueue EXCEPT ![s] = Push(@, d)],
         UNCHANGED decisionLog
  PROVE  /\ \A t \in Server \ {s} : LearnedIds'[t] \subseteq LearnedIds[t]
         /\ LearnedIds'[s] \subseteq LearnedIds[s] \cup {d.id}
<1>1. Learned(s)' \subseteq Learned(s) \cup {d}
  BY LearnedGrows
<1>2. ASSUME NEW t \in Server \ {s}
      PROVE  Learned(t)' = Learned(t)
  BY DEF Learned, TypeOK, ServerTypeOK
<1>3. \A t \in Server : LearnedIds[t] = {x.id : x \in Learned(t)}
                        /\ LearnedIds'[t] = {x.id : x \in Learned(t)'}
  BY DEF LearnedIds, IdsOf
<1>4. QED
  BY <1>1, <1>2, <1>3
-------------------------------------------------------------------------------
(***************************************************************************)
(* The handlers.                                                           *)
(***************************************************************************)
\* A proposal id belongs to one server.
LEMMA OneProposer ==
  ASSUME Match, NEW s \in Server, NEW p \in m_proposals[s],
         NEW t \in Server, NEW x \in m_proposals[t], x.id = p.id
  PROVE  t = s
  BY DEF Match, ProposalsMatch, Asked

\* Every event is at a server.
LEMMA EventsAtServers ==
  ASSUME TypeOK, NEW e \in events
  PROVE  e.at \in Server
  BY DEF TypeOK, SimTypeOK, Event

\* No request is taken up, and nothing is decided or learned.
LEMMA LearningUntouched ==
  ASSUME TypeOK', LearningInv, FreshIds' \subseteq FreshIds,
         \A e \in events' : e \in events \/ e.frame.type \in {"PROPOSAL", "ACCEPT"},
         UNCHANGED <<m_decidedProposalQueue, decisionLog, stopped>>,
         \A s \in Server : \A p \in m_proposals'[s] :
           \E o \in m_proposals[s] : p.id = o.id /\ p.decided = o.decided,
         \A s \in Server : \A p, q \in m_proposals'[s] : p.id = q.id => p = q
  PROVE  LearningInv'
<1>1. LearnedIds' = LearnedIds
  BY DEF LearnedIds, Learned
<1>2. \A e \in events' : e.at \in Server
  BY DEF TypeOK, SimTypeOK, Event
<1>3. LearningOK(FreshIds, events, m_proposals, LearnedIds) /\ LogsOK
  BY DEF LearningInv
<1>4. \A s \in Server : LearnedIds'[s] \subseteq LearnedIds[s]
  BY <1>1
<1>5. LearningOK(FreshIds', events', m_proposals', LearnedIds')
  BY <1>2, <1>3, <1>4, NothingNew
<1>6. LogsOK'
  BY <1>3 DEF LogsOK, Ordered, IdsOf
<1>7. QED
  BY <1>5, <1>6 DEF LearningInv, LearningOK, FreshOK, ProposalsOK, DecisionsOK, NoTrace

\* The same, with every map of proposals as it was.
LEMMA NothingLearned ==
  ASSUME TypeOK', LearningInv, FreshIds' \subseteq FreshIds,
         \A e \in events' : e \in events \/ e.frame.type \in {"PROPOSAL", "ACCEPT"},
         UNCHANGED <<m_proposals, m_decidedProposalQueue, decisionLog, stopped>>
  PROVE  LearningInv'
<1>1. \A s \in Server : \A p, q \in m_proposals[s] : p.id = q.id => p = q
  BY DEF LearningInv, LearningOK, ProposalsOK
<1>2. QED
  BY <1>1, LearningUntouched

\* A request that is consumed is not pending any more.
LEMMA RequestsTaken ==
  ASSUME requestEvents' \subseteq requestEvents, UNCHANGED m_waitingProposals
  PROVE  FreshIds' \subseteq FreshIds
  BY DEF FreshIds

(***************************************************************************)
(* A request is received and its handler scheduled, then queued or turned  *)
(* away: no id becomes fresh.                                              *)
(***************************************************************************)
LEMMA RequestHandlersTake ==
  ASSUME TypeOK, NEW r \in requestEvents,
         ReceiveRequest(r) \/ CreateProposalFromRequest(r)
  PROVE  FreshIds' \subseteq FreshIds
<1>0. CASE ReceiveRequest(r)
  <2> DEFINE n == [r EXCEPT !.fn = "CreateProposalFromRequest"]
  <2>1. n.frame = r.frame
    BY DEF TypeOK, SimTypeOK, RequestEvent
  <2>2. requestEvents' \subseteq (requestEvents \ {r}) \cup {n}
    BY <1>0 DEF ReceiveRequest
  <2>3. UNCHANGED m_waitingProposals
    BY <1>0 DEF ReceiveRequest, serverVars, proposerVars
  <2> HIDE DEF n
  <2>4. QED
    BY <2>1, <2>2, <2>3 DEF FreshIds
<1> SUFFICES ASSUME CreateProposalFromRequest(r)
             PROVE  FreshIds' \subseteq FreshIds
  BY <1>0
<1> DEFINE q == m_waitingProposals[r.at]
<1>1. /\ requestEvents' = requestEvents \ {r}
      /\ \/ UNCHANGED m_waitingProposals
         \/ m_waitingProposals' =
              [m_waitingProposals EXCEPT ![r.at] = Append(q, r.frame)]
  BY DEF CreateProposalFromRequest
<1>2. q \in Seq(RequestFrame) /\ r.frame \in RequestFrame /\ r.at \in Server
  BY DEF TypeOK, SimTypeOK, ServerTypeOK, RequestEvent
<1>3. ToSet(Append(q, r.frame)) \subseteq ToSet(q) \cup {r.frame}
  <2>1. /\ DOMAIN Append(q, r.frame) = 1 .. Len(q) + 1
        /\ DOMAIN q = 1 .. Len(q) /\ Len(q) \in Nat
        /\ \A i \in 1 .. Len(q) : Append(q, r.frame)[i] = q[i]
        /\ Append(q, r.frame)[Len(q) + 1] = r.frame
    BY <1>2, AppendProperties, LenProperties
  <2> HIDE DEF q
  <2>2. QED
    BY <2>1 DEF ToSet
<1>4. ASSUME NEW t \in Server
      PROVE  ToSet(m_waitingProposals'[t])
               \subseteq ToSet(m_waitingProposals[t]) \cup {r.frame}
  <2>1. CASE UNCHANGED m_waitingProposals
    BY <2>1
  <2>2. CASE m_waitingProposals' =
               [m_waitingProposals EXCEPT ![r.at] = Append(q, r.frame)]
    <3>1. CASE t = r.at
      <4>1. m_waitingProposals'[t] = Append(q, r.frame)
        BY <1>2, <2>2, <3>1 DEF TypeOK, ServerTypeOK
      <4>2. QED
        BY <1>3, <3>1, <4>1
    <3>2. CASE t # r.at
      BY <2>2, <3>2 DEF TypeOK, ServerTypeOK
    <3>3. QED
      BY <3>1, <3>2
  <2>3. QED
    BY <1>1, <2>1, <2>2
<1> HIDE DEF q
<1>5. FreshIds' \subseteq FreshIds
  <2>1. \A t \in Server : IdsOf(ToSet(m_waitingProposals'[t]))
                            \subseteq IdsOf(ToSet(m_waitingProposals[t])) \cup {r.frame.id}
    BY <1>4 DEF IdsOf
  <2>2. r.frame.id \in FreshIds
    BY DEF FreshIds
  <2>3. \A t \in Server : IdsOf(ToSet(m_waitingProposals[t])) \subseteq FreshIds
    BY DEF FreshIds
  <2>4. {x.frame.id : x \in requestEvents'} \subseteq FreshIds
    BY <1>1 DEF FreshIds
  <2>5. FreshIds' = {x.frame.id : x \in requestEvents'}
                      \cup UNION {IdsOf(ToSet(m_waitingProposals'[t])) : t \in Server}
    BY DEF FreshIds, IdsOf
  <2>6. QED
    BY <2>1, <2>2, <2>3, <2>4, <2>5
<1>6. QED
  BY <1>5

\* The ids a request has left no trace of stay so when it is received or queued.
LEMMA RequestHandlersLearning ==
  ASSUME TypeOK, TypeOK', LearningInv, NEW r \in requestEvents,
         ReceiveRequest(r) \/ CreateProposalFromRequest(r)
  PROVE  LearningInv'
<1>1. UNCHANGED <<events, stopped, m_proposals, m_decidedProposalQueue, decisionLog>>
  BY DEF ReceiveRequest, CreateProposalFromRequest, serverVars, proposerVars, learnerVars
<1>2. QED
  BY <1>1, RequestHandlersTake, NothingLearned

\* The id of a new request is one that nothing in the system has.
LEMMA SendRequestLearning ==
  ASSUME TypeOK, TypeOK', Match, LearningInv, SendRequest, UNCHANGED serverVars
  PROVE  LearningInv'
<1> DEFINE i == Len(requested) + 1
<1>1. UNCHANGED <<events, stopped, m_waitingProposals, m_proposals,
                  m_decidedProposalQueue, decisionLog>>
  BY DEF SendRequest, serverVars, proposerVars, learnerVars
<1>2. i \notin DOMAIN requested
  <2>1. requested \in Seq([to : Server, value : Value])
    BY DEF TypeOK, ClientTypeOK
  <2>2. DOMAIN requested = 1 .. Len(requested) /\ Len(requested) \in Nat
    BY <2>1, LenProperties
  <2>3. QED
    BY <2>2
<1>3. \A r \in requestEvents' : r \in requestEvents \/ r.frame.id = i
  <2>1. CASE UNCHANGED requestEvents
    BY <2>1
  <2>2. ASSUME NEW v \in Value,
               requestEvents' = requestEvents \cup
                 {[at |-> NextServer, fn |-> "ReceiveRequest",
                   frame |-> [id |-> i, value |-> v]]}
        PROVE  \A r \in requestEvents' : r \in requestEvents \/ r.frame.id = i
    BY <2>2
  <2>3. QED
    BY <2>1, <2>2 DEF SendRequest
<1> HIDE DEF i
<1>4. FreshIds' \subseteq FreshIds \cup {i}
  BY <1>1, <1>3 DEF FreshIds
<1>5. LearnedIds' = LearnedIds
  BY <1>1 DEF LearnedIds, Learned
<1>6. NoTrace(i, events, LearnedIds)
  <2>1. \A e \in events : e.frame.proposalId # i
    BY <1>2 DEF Match, EventsMatch, Asked
  <2>2. \A s \in Server : i \notin LearnedIds[s]
    BY <1>2 DEF Match, DecisionsMatch, Asked, LearnedIds, IdsOf, Learned
  <2>3. QED
    BY <2>1, <2>2 DEF NoTrace
<1>7. \A s \in Server : \A p \in m_proposals[s] : p.id # i
  BY <1>2 DEF Match, ProposalsMatch, Asked
<1>8. FreshOK(FreshIds', events, m_proposals, LearnedIds)
  BY <1>4, <1>6, <1>7 DEF LearningInv, LearningOK, FreshOK
<1>9. LearningOK(FreshIds', events, m_proposals, LearnedIds)
  BY <1>8 DEF LearningInv, LearningOK
<1>10. LogsOK'
  BY <1>1 DEF LearningInv, LogsOK, Ordered, IdsOf
<1>11. QED
  BY <1>1, <1>5, <1>9, <1>10 DEF LearningInv, LearningOK, FreshOK, ProposalsOK,
     DecisionsOK, NoTrace

\* DoPropose takes a fresh id, of a request to its server, which is fresh no more.
LEMMA ProposeTakes ==
  ASSUME TypeOK, Match, VotingParts, UNCHANGED requestEvents,
         NEW s \in Server, HasRequest(s),
         m_waitingProposals' =
           [m_waitingProposals EXCEPT ![s] = Tail(m_waitingProposals[s])]
  PROVE  /\ \E v : Asked(Head(m_waitingProposals[s]).id, v, s)
         /\ Head(m_waitingProposals[s]).id \in FreshIds
         /\ Head(m_waitingProposals[s]).id \notin FreshIds'
         /\ FreshIds' \subseteq FreshIds
<1> DEFINE q == m_waitingProposals[s]
           i == Head(q).id
           F2 == FreshIds'
<1>1. q \in Seq(RequestFrame) /\ q # <<>>
  BY DEF TypeOK, ServerTypeOK, HasRequest
<1>2. /\ Len(q) \in Nat /\ Len(q) >= 1 /\ DOMAIN q = 1 .. Len(q)
      /\ Head(q) = q[1] /\ 1 \in DOMAIN q
  BY <1>1, LenProperties, EmptySeq
<1>3. \A x \in ToSet(Tail(q)) : x \in ToSet(q) /\ x.id # i
  <2>1. /\ Len(Tail(q)) = Len(q) - 1
        /\ Tail(q) \in Seq(RequestFrame)
        /\ \A k \in 1 .. Len(Tail(q)) : Tail(q)[k] = q[k + 1]
    BY <1>1, HeadTailProperties
  <2>2. DOMAIN Tail(q) = 1 .. Len(q) - 1
    BY <2>1, LenProperties
  <2>3. ASSUME NEW k \in DOMAIN Tail(q)
        PROVE  Tail(q)[k] \in ToSet(q) /\ Tail(q)[k].id # i
    <3>1. k + 1 \in DOMAIN q /\ k + 1 # 1 /\ Tail(q)[k] = q[k + 1]
      BY <1>2, <2>1, <2>2
    <3>2. q[k + 1].id # q[1].id
      BY <1>2, <3>1 DEF VotingParts, WaitingFresh
    <3>3. QED
      BY <1>2, <3>1, <3>2 DEF ToSet
  <2> HIDE DEF q
  <2>4. QED
    BY <2>3 DEF ToSet
<1>4. \E v : Asked(i, v, s)
  BY <1>2 DEF Match, WaitingMatch
<1>5. i \in FreshIds
  <2>1. Head(q) \in ToSet(q)
    BY <1>2 DEF ToSet
  <2>2. QED
    BY <2>1 DEF FreshIds, IdsOf
<1>6. \A r \in requestEvents : r.frame.id # i
  <2> SUFFICES ASSUME NEW r \in requestEvents, r.frame.id = i
               PROVE  FALSE
    OBVIOUS
  <2>1. r.at = s
    BY <1>4 DEF Match, RequestsMatch, Asked
  <2>2. \A k \in DOMAIN q : q[k].id # i
    BY <2>1 DEF VotingParts, RequestsFresh
  <2>3. QED
    BY <1>2, <2>2
<1> HIDE DEF q, i
<1>7. ASSUME NEW t \in Server
      PROVE  \A x \in ToSet(m_waitingProposals'[t]) :
               x \in ToSet(m_waitingProposals[t]) /\ x.id # i
  <2>1. CASE t = s
    <3>1. m_waitingProposals'[t] = Tail(q)
      BY <2>1 DEF TypeOK, ServerTypeOK, q
    <3>2. QED
      BY <1>3, <2>1, <3>1 DEF q
  <2>2. CASE t # s
    <3>1. m_waitingProposals'[t] = m_waitingProposals[t]
      BY <2>2 DEF TypeOK, ServerTypeOK
    <3>2. \A k \in DOMAIN m_waitingProposals[t] : m_waitingProposals[t][k].id # i
      BY <1>4, <2>2 DEF Match, WaitingMatch, Asked
    <3>3. \A x \in ToSet(m_waitingProposals[t]) : x.id # i
      BY <3>2 DEF ToSet
    <3>4. QED
      BY <3>1, <3>3
  <2>3. QED
    BY <2>1, <2>2
<1>8. F2 \subseteq FreshIds /\ i \notin F2
  <2>1. F2 = {r.frame.id : r \in requestEvents}
               \cup UNION {{x.id : x \in ToSet(m_waitingProposals'[t])} : t \in Server}
    BY DEF FreshIds, IdsOf
  <2>2. \A r \in requestEvents : r.frame.id \in FreshIds
    BY DEF FreshIds
  <2>3. \A t \in Server : \A x \in ToSet(m_waitingProposals[t]) : x.id \in FreshIds
    BY DEF FreshIds, IdsOf
  <2>4. QED
    BY <1>6, <1>7, <2>1, <2>2, <2>3
<1>9. QED
  BY <1>4, <1>5, <1>8 DEF q, i

(***************************************************************************)
(* DoPropose, once the ids learned are L: the id it takes is fresh, and    *)
(* nowhere else.                                                           *)
(***************************************************************************)
LEMMA ProposeLearning ==
  ASSUME TypeOK, TypeOK', Match, VotingParts, UNCHANGED requestEvents,
         NEW s \in Server, HasRequest(s), NEW L,
         NEW proposals, NEW pending, DoPropose(s, proposals, pending),
         LearningOK(FreshIds, pending, [m_proposals EXCEPT ![s] = proposals], L)
  PROVE  LearningOK(FreshIds', events', m_proposals', L)
<1> DEFINE q == m_waitingProposals[s]
           i == Head(q).id
           p == [id |-> i, value |-> Head(q).value, numAck |-> 1,
                 decided |-> FALSE, numDecisionAck |-> 1]
           P == [m_proposals EXCEPT ![s] = proposals]
           F2 == FreshIds'
           E2 == events'
           P2 == m_proposals'
<1>1. /\ m_waitingProposals' = [m_waitingProposals EXCEPT ![s] = Tail(q)]
      /\ m_proposals' = [m_proposals EXCEPT ![s] = Insert(proposals, p)]
      /\ \A e \in events' : e \in pending \/ e.frame.type = "PROPOSAL"
  BY DEF DoPropose, Broadcast, Datagram
<1>2. p.id = i /\ i \in FreshIds /\ F2 \subseteq FreshIds /\ i \notin F2
  BY <1>1, ProposeTakes
<1> HIDE DEF q, i, p, P
<1>3. ASSUME NEW t \in Server, NEW x \in P2[t]
      PROVE  x \in P[t] \/ (t = s /\ x = p)
  <2>1. CASE t = s
    <3>1. P2[t] = Insert(proposals, p) /\ P[t] = proposals
      BY <1>1, <2>1 DEF P, TypeOK, ServerTypeOK
    <3>2. QED
      BY <1>3, <2>1, <3>1 DEF Insert, Erase
  <2>2. CASE t # s
    BY <1>1, <2>2 DEF P, TypeOK, ServerTypeOK
  <2>3. QED
    BY <2>1, <2>2
<1>4. \A e \in E2 : e \in pending \/ e.frame.type \in {"PROPOSAL", "ACCEPT"}
  BY <1>1
<1>5. LearningOK(FreshIds, pending, P, L)
  BY DEF P
<1> HIDE DEF F2, E2, P2
<1>6. LearningOK(F2, E2, P2, L)
  BY <1>2, <1>3, <1>4, <1>5, NewProposal
<1>7. QED
  BY <1>6 DEF F2, E2, P2

\* DoAsyncPropose proposes, or polls.
LEMMA AsyncProposeLearning ==
  ASSUME TypeOK, TypeOK', Match, VotingParts, UNCHANGED requestEvents,
         NEW s \in Server, NEW L, NEW polls,
         NEW proposals, NEW pending, AsyncPropose(s, proposals, pending, polls),
         LearningOK(FreshIds, pending, [m_proposals EXCEPT ![s] = proposals], L)
  PROVE  LearningOK(FreshIds', events', m_proposals', L)
<1>1. CASE HasRequest(s) /\ DoPropose(s, proposals, pending)
  BY <1>1, ProposeLearning
<1>2. CASE /\ events' = pending
           /\ m_proposals' = [m_proposals EXCEPT ![s] = proposals]
           /\ UNCHANGED m_waitingProposals
  <2>1. FreshIds' = FreshIds
    BY <1>2 DEF FreshIds
  <2>2. QED
    BY <1>2, <2>1
<1>3. QED
  BY <1>1, <1>2 DEF AsyncPropose
\* A vote moves on at the acceptor.
LEMMA VotingLearning ==
  ASSUME TypeOK, TypeOK', LearningInv, NEW e \in events,
         \/ e.frame.type = "PROPOSAL" /\ DoReceivedProposalMessage(e)
         \/ SendAcceptMessage(e)
  PROVE  LearningInv'
<1>1. e.frame \in PaxosFrame
  BY DEF TypeOK, SimTypeOK, Event
<1>2. UNCHANGED <<requestEvents, stopped, m_waitingProposals, m_proposals,
                  m_decidedProposalQueue, decisionLog>>
  BY DEF DoReceivedProposalMessage, SendAcceptMessage, serverVars, proposerVars,
     learnerVars
<1>3. \A x \in events' : x \in events \/ x.frame.type \in {"PROPOSAL", "ACCEPT"}
  <2>1. CASE e.frame.type = "PROPOSAL" /\ DoReceivedProposalMessage(e)
    <3> DEFINE n == [at |-> e.at, fn |-> "SendAcceptMessage",
                     frame |-> [e.frame EXCEPT !.acceptorId = e.at]]
    <3>1. n.frame.type = "PROPOSAL"
      BY <1>1, <2>1 DEF PaxosFrame
    <3>2. events' = (events \ {e}) \cup {n}
      BY <2>1 DEF DoReceivedProposalMessage
    <3> HIDE DEF n
    <3>3. QED
      BY <3>1, <3>2
  <2>2. CASE SendAcceptMessage(e)
    <3> DEFINE f == [e.frame EXCEPT !.type = "ACCEPT", !.acceptorId = e.at]
               n == Datagram(f.proposerId, f)
    <3>1. n.frame.type = "ACCEPT"
      BY <1>1 DEF PaxosFrame, Datagram
    <3>2. events' = (events \ {e}) \cup {n}
      BY <2>2 DEF SendAcceptMessage
    <3> HIDE DEF n
    <3>3. QED
      BY <3>1, <3>2
  <2>3. QED
    BY <2>1, <2>2
<1>4. FreshIds' \subseteq FreshIds
  BY <1>2, RequestsTaken
<1>5. QED
  BY <1>2, <1>3, <1>4, NothingLearned

\* An entry of a proposal is replaced by one with a counter changed.
LEMMA InsertCounted ==
  ASSUME TypeOK, LearningInv, NEW s \in Server, NEW p \in m_proposals[s],
         NEW q, q.id = p.id, q.decided = p.decided,
         m_proposals' = [m_proposals EXCEPT ![s] = Insert(@, q)]
  PROVE  /\ \A t \in Server : \A x \in m_proposals'[t] :
              \E o \in m_proposals[t] : x.id = o.id /\ x.decided = o.decided
         /\ \A t \in Server : \A x, y \in m_proposals'[t] : x.id = y.id => x = y
<1>1. \A t \in Server : \A x, y \in m_proposals[t] : x.id = y.id => x = y
  BY DEF LearningInv, LearningOK, ProposalsOK
<1>2. ASSUME NEW t \in Server
      PROVE  /\ \A x \in m_proposals'[t] :
                  \E o \in m_proposals[t] : x.id = o.id /\ x.decided = o.decided
             /\ \A x, y \in m_proposals'[t] : x.id = y.id => x = y
  <2>1. CASE t = s
    <3>1. m_proposals'[t] = Insert(m_proposals[s], q)
      BY <2>1 DEF TypeOK, ServerTypeOK
    <3>2. QED
      BY <1>1, <2>1, <3>1 DEF Insert, Erase
  <2>2. CASE t # s
    <3>1. m_proposals'[t] = m_proposals[t]
      BY <2>2 DEF TypeOK, ServerTypeOK
    <3>2. QED
      BY <1>1, <3>1
  <2>3. QED
    BY <2>1, <2>2
<1>3. QED
  BY <1>2

\* An ACCEPT is counted, or decides.
LEMMA ReceivedAcceptLearning ==
  ASSUME TypeOK, TypeOK', Match, LearningInv,
         NEW e \in events, e.at \in Server, e.frame.type = "ACCEPT",
         DoReceivedAcceptMessage(e)
  PROVE  LearningInv'
<1> DEFINE s == e.at
           f == e.frame
           known == {p \in m_proposals[s] : p.id = f.proposalId /\ f.proposerId = s}
           rest == events \ {e}
           q(p) == [p EXCEPT !.numAck = @ + 1]
           d(p) == [q(p) EXCEPT !.decided = TRUE, !.numDecisionAck = 1]
<1>1. UNCHANGED <<requestEvents, stopped, m_waitingProposals, decisionLog>>
  BY DEF DoReceivedAcceptMessage
<1>2. FreshIds' = FreshIds
  BY <1>1 DEF FreshIds
<1>3. CASE events' = rest /\ UNCHANGED <<m_proposals, m_decidedProposalQueue>>
  BY <1>1, <1>2, <1>3, NothingLearned
<1>4. ASSUME NEW p \in known
      PROVE  /\ p \in m_proposals[s] /\ p.id = f.proposalId /\ f.proposerId = s
             /\ p \in Proposal /\ f \in PaxosFrame
             /\ q(p).id = p.id /\ q(p).decided = p.decided
             /\ d(p).id = p.id /\ d(p).decided
  <2>1. p \in m_proposals[s] /\ p.id = f.proposalId /\ f.proposerId = s
    OBVIOUS
  <2>2. p \in Proposal /\ f \in PaxosFrame
    BY <2>1 DEF TypeOK, SimTypeOK, ServerTypeOK, Event
  <2>3. QED
    BY <2>1, <2>2 DEF Proposal
<1>5. ASSUME NEW p \in known, events' = rest,
             m_proposals' = [m_proposals EXCEPT ![s] = Insert(@, q(p))],
             UNCHANGED m_decidedProposalQueue
      PROVE  LearningInv'
  <2>1. /\ p \in m_proposals[s] /\ q(p).id = p.id /\ q(p).decided = p.decided
        /\ s \in Server
    BY <1>4
  <2> HIDE DEF q, known, s
  <2>2. /\ \A t \in Server : \A x \in m_proposals'[t] :
             \E o \in m_proposals[t] : x.id = o.id /\ x.decided = o.decided
        /\ \A t \in Server : \A x, y \in m_proposals'[t] : x.id = y.id => x = y
    BY <1>5, <2>1, InsertCounted
  <2>3. QED
    BY <1>1, <1>2, <1>5, <2>2, LearningUntouched
\* The vote decides.
<1>6. ASSUME NEW p \in known, Decides(q(p)),
             events' = rest \cup SendDecisionMessage(s, f),
             \/ /\ m_proposals' = [m_proposals EXCEPT ![s] = Insert(@, d(p))]
                /\ UNCHANGED m_decidedProposalQueue
             \/ /\ m_proposals' = [m_proposals EXCEPT ![s] = Erase(@, p.id)]
                /\ m_decidedProposalQueue' =
                     [m_decidedProposalQueue EXCEPT ![s] =
                        Push(@, [id |-> p.id, value |-> p.value, proposer |-> s])]
      PROVE  LearningInv'
  <2> DEFINE v == [id |-> p.id, value |-> p.value, proposer |-> s]
             L2 == LearnedIds'
             E2 == events'
             P2 == m_proposals'
  <2>1. /\ p \in m_proposals[s] /\ ~p.decided /\ s \in Server
        /\ v \in Decision /\ v.id = p.id
    BY <1>4, <1>6 DEF Decides, Proposal, Decision
  <2>2. \A t \in Server : \A x \in m_proposals[t] : x.id = p.id => t = s
    BY <2>1, OneProposer
  <2>3. ASSUME NEW x \in SendDecisionMessage(s, f)
        PROVE  /\ x.frame.type = "DECISION" /\ x.frame.proposalId = p.id
               /\ x.frame.proposerId = s /\ x.at \in Server \ {s}
               /\ x = Datagram(x.at, [f EXCEPT !.type = "DECISION"])
    <3>1. /\ x.frame = [f EXCEPT !.type = "DECISION"] /\ x.at \in Server \ {s}
          /\ x = Datagram(x.at, [f EXCEPT !.type = "DECISION"])
      BY DEF SendDecisionMessage, Broadcast, Datagram
    <3>2. /\ x.frame.type = "DECISION" /\ x.frame.proposalId = f.proposalId
          /\ x.frame.proposerId = f.proposerId
      BY <1>4, <3>1 DEF PaxosFrame
    <3>3. QED
      BY <1>4, <3>1, <3>2
  <2>4. LearningOK(FreshIds, events, m_proposals, LearnedIds) /\ LogsOK
    BY DEF LearningInv
  <2>5. /\ p.id \notin LearnedIds[s]
        /\ \A x, y \in m_proposals[s] : x.id = y.id => x = y
    BY <2>1, <2>4 DEF LearningOK, ProposalsOK
  <2>6. \A x \in E2 :
          /\ x.at \in Server
          /\ \/ x \in events
             \/ /\ x.frame.type = "DECISION" /\ x.frame.proposalId = p.id
                /\ x.frame.proposerId = s /\ x.at # s
    BY <1>6, <2>3, EventsAtServers
  <2>7. \A x, y \in E2 : (x \notin events /\ y \notin events /\ y.at = x.at) => y = x
    BY <1>6, <2>3
  <2>8. /\ p \in m_proposals[s] /\ d(p).id = p.id /\ d(p).decided
    BY <1>4
  <2>9. CASE /\ m_proposals' = [m_proposals EXCEPT ![s] = Insert(@, d(p))]
             /\ UNCHANGED m_decidedProposalQueue
    <3> HIDE DEF s, f, known, rest, q, d
    <3>1. LearnedIds' = LearnedIds
      BY <1>1, <2>9 DEF LearnedIds, Learned
    <3>2. /\ P2[s] = Insert(m_proposals[s], d(p))
          /\ \A t \in Server \ {s} : P2[t] = m_proposals[t]
      BY <2>1, <2>9 DEF TypeOK, ServerTypeOK
    <3>3. /\ \A t \in Server : \A x \in P2[t] :
               x \in m_proposals[t] \/ (x.id = p.id /\ x.decided /\ t = s)
          /\ \A x, y \in P2[s] : x.id = y.id => x = y
          /\ \A x \in P2[s] : x.id = p.id => x.decided
      BY <2>5, <2>8, <3>2 DEF Insert, Erase
    <3>4. /\ \A t \in Server \ {s} : L2[t] \subseteq LearnedIds[t]
          /\ L2[s] \subseteq LearnedIds[s]
      BY <3>1
    <3> HIDE DEF L2, E2, P2
    <3>5. LearningOK(FreshIds, E2, P2, L2)
      BY <2>1, <2>2, <2>4, <2>6, <2>7, <3>3, <3>4, NewDecision
    <3>6. LogsOK'
      BY <1>1, <2>4, <2>9 DEF LogsOK, Ordered, IdsOf
    <3>7. QED
      BY <1>2, <3>5, <3>6 DEF LearningInv, LearningOK, FreshOK, ProposalsOK,
         DecisionsOK, NoTrace, L2, E2, P2
  <2>10. CASE /\ m_proposals' = [m_proposals EXCEPT ![s] = Erase(@, p.id)]
              /\ m_decidedProposalQueue' =
                   [m_decidedProposalQueue EXCEPT ![s] = Push(@, v)]
    <3> HIDE DEF s, f, known, rest, q, d, v
    <3>1. /\ \A t \in Server \ {s} : L2[t] \subseteq LearnedIds[t]
          /\ L2[s] \subseteq LearnedIds[s] \cup {p.id}
      BY <1>1, <2>1, <2>10, LearnedIdsGrow
    <3>2. /\ P2[s] = Erase(m_proposals[s], p.id)
          /\ \A t \in Server \ {s} : P2[t] = m_proposals[t]
      BY <2>1, <2>10 DEF TypeOK, ServerTypeOK
    <3>3. /\ \A t \in Server : \A x \in P2[t] :
               x \in m_proposals[t] \/ (x.id = p.id /\ x.decided /\ t = s)
          /\ \A x, y \in P2[s] : x.id = y.id => x = y
          /\ \A x \in P2[s] : x.id # p.id
      BY <2>5, <3>2 DEF Erase
    <3>4. LogsOK'
      BY <1>1, <2>1, <2>4, <2>5, <2>10, PushKeepsLogs
    <3> HIDE DEF L2, E2, P2
    <3>5. LearningOK(FreshIds, E2, P2, L2)
      BY <2>1, <2>2, <2>4, <2>6, <2>7, <3>1, <3>3, NewDecision
    <3>6. QED
      BY <1>2, <3>4, <3>5 DEF LearningInv, LearningOK, FreshOK, ProposalsOK,
         DecisionsOK, NoTrace, L2, E2, P2
  <2>11. QED
    BY <1>6, <2>9, <2>10
<1>7. \/ events' = rest /\ UNCHANGED <<m_proposals, m_decidedProposalQueue>>
      \/ \E p \in known :
           \/ /\ events' = rest
              /\ m_proposals' = [m_proposals EXCEPT ![s] = Insert(@, q(p))]
              /\ UNCHANGED m_decidedProposalQueue
           \/ /\ Decides(q(p))
              /\ events' = rest \cup SendDecisionMessage(s, f)
              /\ \/ /\ m_proposals' = [m_proposals EXCEPT ![s] = Insert(@, d(p))]
                    /\ UNCHANGED m_decidedProposalQueue
                 \/ /\ m_proposals' = [m_proposals EXCEPT ![s] = Erase(@, p.id)]
                    /\ m_decidedProposalQueue' =
                         [m_decidedProposalQueue EXCEPT ![s] =
                            Push(@, [id |-> p.id, value |-> p.value,
                                     proposer |-> s])]
  BY Zenon DEF DoReceivedAcceptMessage
<1> HIDE DEF s, f, known, rest, q, d
<1>8. QED
  BY <1>3, <1>5, <1>6, <1>7
\* A DECISION is learned.
LEMMA ReceivedDecisionLearning ==
  ASSUME TypeOK, TypeOK', Match, LearningInv,
         NEW e \in events, e.at \in Server, e.frame.type = "DECISION",
         DoReceivedDecisionMessage(e)
  PROVE  LearningInv'
<1> DEFINE s == e.at
           i == e.frame.proposalId
           ack == [type |-> "DECISION_ACK", proposerId |-> s, proposalId |-> i,
                   value |-> e.frame.value, acceptorId |-> 0]
           n == Datagram(e.frame.proposerId, ack)
           v == DecisionOf(e)
           L2 == LearnedIds'
           E2 == events'
<1>1. e.frame \in PaxosFrame
  BY DEF TypeOK, SimTypeOK, Event
<1>2. /\ v = [id |-> i, value |-> e.frame.value, proposer |-> e.frame.proposerId]
      /\ v \in Decision /\ v.id = i /\ s \in Server
  BY <1>1 DEF DecisionOf, ProposerOf, PaxosFrame, Decision
<1>3. /\ events' \subseteq (events \ {e}) \cup {n}
      /\ m_decidedProposalQueue' =
           [m_decidedProposalQueue EXCEPT ![s] = Push(@, v)]
      /\ UNCHANGED <<requestEvents, stopped, m_waitingProposals, m_proposals, decisionLog>>
  BY <1>2 DEF DoReceivedDecisionMessage, proposerVars
<1>4. n.frame.type = "DECISION_ACK" /\ n.frame.proposalId = i /\ n.at \in Server
  BY <1>1 DEF Datagram, PaxosFrame
<1>5. LearningOK(FreshIds, events, m_proposals, LearnedIds) /\ LogsOK
  BY DEF LearningInv
<1>6. e.at # e.frame.proposerId /\ i \notin LearnedIds[s]
  BY <1>5 DEF LearningOK, DecisionsOK
<1>7. \A x \in m_proposals[e.at] : x.id # i
  BY <1>6 DEF Match, ProposalsMatch, EventsMatch, ProposerOf, Asked
<1> HIDE DEF v, n
<1>8. /\ \A t \in Server \ {s} : L2[t] \subseteq LearnedIds[t]
      /\ L2[s] \subseteq LearnedIds[s] \cup {i}
  <2>1. /\ \A t \in Server \ {s} : LearnedIds'[t] \subseteq LearnedIds[t]
        /\ LearnedIds'[s] \subseteq LearnedIds[s] \cup {v.id}
    BY <1>2, <1>3, LearnedIdsGrow
  <2>2. QED
    BY <1>2, <2>1
<1>9. \A x \in E2 :
        /\ x.at \in Server
        /\ \/ x \in events \ {e}
           \/ x.frame.type = "DECISION_ACK" /\ x.frame.proposalId = i
  BY <1>3, <1>4, EventsAtServers
<1>10. LogsOK'
  BY <1>2, <1>3, <1>5, <1>6, PushKeepsLogs
<1>11. FreshIds' = FreshIds
  BY <1>3 DEF FreshIds
<1>12. /\ \A t \in Server \ {e.at} : L2[t] \subseteq LearnedIds[t]
       /\ L2[e.at] \subseteq LearnedIds[e.at] \cup {i}
       /\ i = e.frame.proposalId
  BY <1>8
<1> HIDE DEF L2, E2, i, s
<1>13. LearningOK(FreshIds, E2, m_proposals, L2)
  BY <1>5, <1>7, <1>9, <1>12, DecisionLearned
<1>14. QED
  BY <1>3, <1>10, <1>11, <1>13 DEF LearningInv, LearningOK, FreshOK, ProposalsOK,
     DecisionsOK, NoTrace, L2, E2

\* A DECISION_ACK is counted, or completes the proposal.
LEMMA ReceivedDecisionAckLearning ==
  ASSUME TypeOK, TypeOK', Match, VotingParts, LearningInv,
         NEW e \in events, e.at \in Server, e.frame.type = "DECISION_ACK",
         DoReceivedDecisionAckMessage(e)
  PROVE  LearningInv'
<1> DEFINE s == e.at
           known == {p \in m_proposals[s] : p.id = e.frame.proposalId}
           rest == events \ {e}
           q(p) == [p EXCEPT !.numDecisionAck = @ + 1]
<1>1. UNCHANGED <<requestEvents, stopped, decisionLog>>
  BY DEF DoReceivedDecisionAckMessage
<1>2. UNCHANGED m_waitingProposals => FreshIds' = FreshIds
  BY <1>1 DEF FreshIds
<1>3. CASE /\ events' = rest
           /\ UNCHANGED <<m_waitingProposals, m_proposals, m_decidedProposalQueue>>
  BY <1>1, <1>2, <1>3, NothingLearned
<1>4. ASSUME NEW p \in known
      PROVE  /\ p \in m_proposals[s] /\ p \in Proposal /\ p.id = e.frame.proposalId
             /\ q(p).id = p.id /\ q(p).decided = p.decided
  BY DEF TypeOK, ServerTypeOK, Proposal
<1>5. ASSUME NEW p \in known, events' = rest,
             m_proposals' = [m_proposals EXCEPT ![s] = Insert(@, q(p))],
             UNCHANGED <<m_waitingProposals, m_decidedProposalQueue>>
      PROVE  LearningInv'
  <2>1. /\ p \in m_proposals[s] /\ q(p).id = p.id /\ q(p).decided = p.decided
        /\ s \in Server
    BY <1>4
  <2> HIDE DEF q, known, s
  <2>2. /\ \A t \in Server : \A x \in m_proposals'[t] :
             \E o \in m_proposals[t] : x.id = o.id /\ x.decided = o.decided
        /\ \A t \in Server : \A x, y \in m_proposals'[t] : x.id = y.id => x = y
    BY <1>5, <2>1, InsertCounted
  <2>3. QED
    BY <1>1, <1>2, <1>5, <2>2, LearningUntouched
\* The ack completes the proposal, and the next one may be made.
<1>6. ASSUME NEW p \in known,
             m_decidedProposalQueue' =
               [m_decidedProposalQueue EXCEPT ![s] =
                  Push(@, [id |-> p.id, value |-> p.value, proposer |-> s])],
             AsyncPropose(s, Erase(m_proposals[s], p.id), rest, proposeEvents[s])
      PROVE  LearningInv'
  <2> DEFINE v == [id |-> p.id, value |-> p.value, proposer |-> s]
             L2 == LearnedIds'
             m == Erase(m_proposals[s], p.id)
             P2 == [m_proposals EXCEPT ![s] = m]
  <2>1. /\ p \in m_proposals[s] /\ s \in Server /\ e.frame.proposalId = p.id
        /\ v \in Decision /\ v.id = p.id
    BY <1>4 DEF Proposal, Decision
  <2>2. \A t \in Server : \A x \in m_proposals[t] : x.id = p.id => t = s
    BY <2>1, OneProposer
  <2>3. LearningOK(FreshIds, events, m_proposals, LearnedIds) /\ LogsOK
    BY DEF LearningInv
  <2>4. p.id \notin LearnedIds[s]
    BY <2>1, <2>3 DEF LearningOK, ProposalsOK
  <2>5. \A x \in events : x.frame.type = "DECISION" /\ x.frame.proposalId = p.id
                            => x.frame.proposerId = s
    BY <2>1 DEF Match, ProposalsMatch, EventsMatch, ProposerOf, Asked
  <2>6. m_decidedProposalQueue' = [m_decidedProposalQueue EXCEPT ![s] = Push(@, v)]
    BY <1>6
  <2> HIDE DEF s, known, q, v
  <2>7. LogsOK'
    BY <1>1, <2>1, <2>3, <2>4, <2>6, PushKeepsLogs
  <2>8. /\ \A t \in Server \ {s} : L2[t] \subseteq LearnedIds[t]
        /\ L2[s] \subseteq LearnedIds[s] \cup {p.id}
    BY <1>1, <2>1, <2>6, LearnedIdsGrow
  <2>9. /\ \A t \in Server \ {s} : P2[t] = m_proposals[t]
        /\ \A x \in P2[s] : x \in m_proposals[s] /\ x.id # p.id
    BY <2>1 DEF TypeOK, ServerTypeOK, Erase
  <2> HIDE DEF L2, P2, m
  <2>10. LearningOK(FreshIds, rest, P2, L2)
    BY <2>1, <2>2, <2>3, <2>5, <2>8, <2>9, EventsAtServers, ProposalCompleted
  <2>11. LearningOK(FreshIds', events', m_proposals', L2)
    BY <1>1, <1>6, <2>1, <2>10, AsyncProposeLearning DEF P2, m
  <2>12. QED
    BY <2>7, <2>11 DEF LearningInv, LearningOK, FreshOK, ProposalsOK, DecisionsOK,
       NoTrace, L2
<1>7. \/ /\ events' = rest
         /\ UNCHANGED <<proposerVars, m_decidedProposalQueue>>
      \/ \E p \in known :
           \/ /\ events' = rest
              /\ m_proposals' = [m_proposals EXCEPT ![s] = Insert(@, q(p))]
              /\ UNCHANGED <<m_waitingProposals, m_leaderState, proposeEvents,
                             m_decidedProposalQueue>>
           \/ /\ m_decidedProposalQueue' =
                   [m_decidedProposalQueue EXCEPT ![s] =
                      Push(@, [id |-> p.id, value |-> p.value, proposer |-> s])]
              /\ AsyncPropose(s, Erase(m_proposals[s], p.id), rest,
                              proposeEvents[s])
  BY Zenon DEF DoReceivedDecisionAckMessage
<1> HIDE DEF s, known, rest, q
<1>8. QED
  BY <1>3, <1>5, <1>6, <1>7 DEF proposerVars

\* A server stops: its queue becomes its log.
LEMMA StopLearning ==
  ASSUME TypeOK, TypeOK', LearningInv, NEW s \in Server, StopApplication(s)
  PROVE  LearningInv'
<1>1. /\ decisionLog' = [decisionLog EXCEPT ![s] = m_decidedProposalQueue[s]]
      /\ m_decidedProposalQueue' = [m_decidedProposalQueue EXCEPT ![s] = <<>>]
      /\ UNCHANGED <<requestEvents, events, m_waitingProposals, m_proposals>>
      /\ stopped = 0 .. s - 1 /\ stopped' = stopped \cup {s}
  BY DEF StopApplication, LoggedDecisions, proposerVars
<1>2. s \notin stopped
  BY <1>1 DEF Server
<1>3. LearningOK(FreshIds, events, m_proposals, LearnedIds) /\ LogsOK
  BY DEF LearningInv
<1>4. DOMAIN <<>> = {} /\ ToSet(<<>>) = {}
  BY DEF ToSet
<1>5. ASSUME NEW t \in Server
      PROVE  /\ LearnedIds'[t] \subseteq LearnedIds[t]
             /\ Ordered(m_decidedProposalQueue'[t])
             /\ Ordered(decisionLog'[t])
             /\ IdsOf(ToSet(m_decidedProposalQueue'[t]))
                  \cap IdsOf(ToSet(decisionLog'[t])) = {}
             /\ t \notin stopped' => decisionLog'[t] = <<>>
  <2>1. /\ Ordered(m_decidedProposalQueue[t])
        /\ Ordered(decisionLog[t])
        /\ IdsOf(ToSet(m_decidedProposalQueue[t])) \cap IdsOf(ToSet(decisionLog[t])) = {}
        /\ t \notin stopped => decisionLog[t] = <<>>
    BY <1>3 DEF LogsOK
  <2>2. CASE t = s
    <3>1. decisionLog'[t] = m_decidedProposalQueue[t] /\ m_decidedProposalQueue'[t] = <<>>
      BY <1>1, <2>2 DEF TypeOK, ServerTypeOK
    <3>2. LearnedIds'[t] \subseteq LearnedIds[t]
      BY <1>4, <3>1 DEF LearnedIds, Learned, IdsOf
    <3>3. QED
      BY <1>1, <1>4, <2>1, <2>2, <3>1, <3>2 DEF Ordered, IdsOf
  <2>3. CASE t # s
    <3>1. /\ decisionLog'[t] = decisionLog[t]
          /\ m_decidedProposalQueue'[t] = m_decidedProposalQueue[t]
      BY <1>1, <2>3 DEF TypeOK, ServerTypeOK
    <3>2. LearnedIds'[t] = LearnedIds[t]
      BY <3>1 DEF LearnedIds, Learned
    <3>3. QED
      BY <1>1, <2>1, <3>1, <3>2
  <2>4. QED
    BY <2>2, <2>3
<1>6. LogsOK'
  BY <1>5 DEF LogsOK, Ordered, IdsOf
<1>7. LearningOK(FreshIds, events, m_proposals, LearnedIds')
  <2>1. \A x \in events : x.at \in Server
    BY EventsAtServers
  <2>2. \A t \in Server : \A x, y \in m_proposals[t] : x.id = y.id => x = y
    BY <1>3 DEF LearningOK, ProposalsOK
  <2> DEFINE L2 == LearnedIds'
  <2>3. \A t \in Server : L2[t] \subseteq LearnedIds[t]
    BY <1>5
  <2> HIDE DEF L2
  <2>4. LearningOK(FreshIds, events, m_proposals, L2)
    BY <1>3, <2>1, <2>2, <2>3, NothingNew
  <2>5. QED
    BY <2>4 DEF L2
<1>8. FreshIds' = FreshIds
  BY <1>1 DEF FreshIds
<1>9. QED
  BY <1>1, <1>6, <1>7, <1>8 DEF LearningInv, LearningOK, FreshOK, ProposalsOK, DecisionsOK,
     NoTrace
-------------------------------------------------------------------------------
(***************************************************************************)
(* The invariant.                                                          *)
(***************************************************************************)
LEMMA LearningInit == Init => LearningInv
<1> SUFFICES ASSUME Init PROVE LearningInv
  OBVIOUS
<1>1. requestEvents = {} /\ events = {}
  BY DEF Init, SimInit
<1>2. ASSUME NEW s \in Server
      PROVE  /\ m_waitingProposals[s] = <<>> /\ m_proposals[s] = {}
             /\ m_decidedProposalQueue[s] = <<>> /\ decisionLog[s] = <<>>
  BY DEF Init, ServerInit
<1>3. DOMAIN <<>> = {} /\ ToSet(<<>>) = {}
  BY DEF ToSet
<1>4. FreshIds = {}
  BY <1>1, <1>2, <1>3 DEF FreshIds, IdsOf
<1>5. LogsOK
  BY <1>2, <1>3 DEF LogsOK, Ordered, IdsOf
<1>6. QED
  BY <1>1, <1>2, <1>4, <1>5 DEF LearningInv, LearningOK, FreshOK, ProposalsOK, DecisionsOK

\* Every step keeps the invariant of learning.
LEMMA LearningStep ==
  TypeOK /\ Match /\ VotingParts /\ LearningInv /\ [Next]_vars => LearningInv'
<1> SUFFICES ASSUME TypeOK, Match, VotingParts, LearningInv, [Next]_vars
             PROVE  LearningInv'
  OBVIOUS
<1>1. TypeOK'
  BY TypeStep
<1>2. ASSUME NEW r \in requestEvents, ReceiveRequest(r) \/ CreateProposalFromRequest(r)
      PROVE  LearningInv'
  BY <1>1, <1>2, RequestHandlersLearning
<1> DEFINE L2 == LearnedIds'
<1>4. ASSUME UNCHANGED <<m_decidedProposalQueue, decisionLog, stopped>>,
             LearningOK(FreshIds', events', m_proposals', LearnedIds)
      PROVE  LearningInv'
  <2>1. LearnedIds' = LearnedIds
    BY <1>4 DEF LearnedIds, Learned
  <2>2. LogsOK'
    BY <1>4 DEF LearningInv, LogsOK, Ordered, IdsOf
  <2>3. QED
    BY <1>4, <2>1, <2>2 DEF LearningInv, LearningOK, FreshOK, ProposalsOK, DecisionsOK,
       NoTrace
<1>5. ASSUME NEW s \in Server
      PROVE  LearningOK(FreshIds, events, [m_proposals EXCEPT ![s] = m_proposals[s]],
                        LearnedIds)
  BY DEF LearningInv, TypeOK, ServerTypeOK
<1>6. ASSUME NEW s \in Server, DoSyncPropose(s)
      PROVE  LearningInv'
  <2>1. UNCHANGED <<requestEvents, m_decidedProposalQueue, decisionLog, stopped>>
    BY <1>6 DEF DoSyncPropose, learnerVars
  <2>2. CASE HasRequest(s) /\ DoPropose(s, m_proposals[s], events)
    BY <1>1, <1>4, <1>5, <2>1, <2>2, ProposeLearning
  <2>3. CASE UNCHANGED <<events, m_waitingProposals, m_proposals>>
    <3>1. FreshIds' \subseteq FreshIds
      BY <2>1, <2>3, RequestsTaken
    <3>2. QED
      BY <1>1, <2>1, <2>3, <3>1, NothingLearned
  <2>4. QED
    BY <1>6, <2>2, <2>3 DEF DoSyncPropose
<1>7. ASSUME NEW s \in Server, DoAsyncPropose(s)
      PROVE  LearningInv'
  <2>1. UNCHANGED <<requestEvents, m_decidedProposalQueue, decisionLog, stopped>>
    BY <1>7 DEF DoAsyncPropose, learnerVars
  <2>2. AsyncPropose(s, m_proposals[s], events, proposeEvents[s] - 1)
    BY <1>7 DEF DoAsyncPropose
  <2>3. QED
    BY <1>1, <1>4, <1>5, <2>1, <2>2, AsyncProposeLearning
<1>8. ASSUME NEW e \in events,
             \/ e.frame.type = "PROPOSAL" /\ DoReceivedProposalMessage(e)
             \/ SendAcceptMessage(e)
      PROVE  LearningInv'
  BY <1>1, <1>8, VotingLearning
<1>9. ASSUME NEW e \in events, e.at \in Server, e.frame.type = "ACCEPT",
             DoReceivedAcceptMessage(e)
      PROVE  LearningInv'
  BY <1>1, <1>9, ReceivedAcceptLearning
<1>10. ASSUME NEW e \in events, e.at \in Server, e.frame.type = "DECISION",
              DoReceivedDecisionMessage(e)
       PROVE  LearningInv'
  BY <1>1, <1>10, ReceivedDecisionLearning
<1>11. ASSUME NEW e \in events, e.at \in Server, e.frame.type = "DECISION_ACK",
              DoReceivedDecisionAckMessage(e)
       PROVE  LearningInv'
  BY <1>1, <1>11, ReceivedDecisionAckLearning
<1>12. ASSUME NEW s \in Server, StopApplication(s)
       PROVE  LearningInv'
  BY <1>1, <1>12, StopLearning
<1>13. ASSUME SendRequest, UNCHANGED serverVars
       PROVE  LearningInv'
  BY <1>1, <1>13, SendRequestLearning
<1>14. ASSUME events' \subseteq events, requestEvents' \subseteq requestEvents,
              UNCHANGED <<serverVars, stopped>>
       PROVE  LearningInv'
  <2>1. UNCHANGED <<m_waitingProposals, m_proposals, m_decidedProposalQueue, decisionLog>>
    BY <1>14 DEF serverVars, proposerVars, learnerVars
  <2>2. FreshIds' \subseteq FreshIds
    BY <1>14, <2>1, RequestsTaken
  <2>3. QED
    BY <1>1, <1>14, <2>1, <2>2, NothingLearned
<1>15. QED
  <2>1. CASE UNCHANGED vars
    BY <2>1, <1>14 DEF vars, simVars
  <2>2. CASE \E e \in events : DropMessage(e) /\ UNCHANGED <<serverVars, clientVars>>
    BY <2>2, <1>14 DEF DropMessage
  <2>3. CASE \E r \in requestEvents :
               DropRequest(r) /\ UNCHANGED <<serverVars, clientVars>>
    BY <2>3, <1>14 DEF DropRequest
  <2>4. QED
    BY <1>2, <1>6, <1>7, <1>8, <1>9, <1>10, <1>11, <1>12, <1>13,
       <2>1, <2>2, <2>3, StepCases

(***************************************************************************)
(* The invariant of learning holds in both protocols and with any losses:  *)
(* a request nobody has proposed has left no trace, a proposal's decision  *)
(* leaves one only once it is taken, at most one DECISION for it is on its *)
(* way to a server, and queues and logs are in order.                      *)
(***************************************************************************)
THEOREM LearningCorrect == Spec => [](Match /\ VotingParts /\ LearningInv)
<1>1. Init => VotingParts /\ LearningInv
  BY VotingInit, LearningInit
<1>2. TypeOK /\ Match /\ VotingParts /\ LearningInv /\ [Next]_vars
        => VotingParts' /\ LearningInv'
  BY VotingStep, LearningStep
<1>3. QED
  BY <1>1, <1>2, TypeCorrect, MatchCorrect, PTL DEF Spec

\* The two parts of what a server has learned hold different ids, each once.
LEMMA LogsHoldOnce ==
  ASSUME TypeOK, LearningInv
  PROVE  DecidedOnce
<1> SUFFICES ASSUME NEW s \in Server,
                    NEW j \in DOMAIN (decisionLog[s] \o m_decidedProposalQueue[s]),
                    NEW k \in DOMAIN (decisionLog[s] \o m_decidedProposalQueue[s]),
                    (decisionLog[s] \o m_decidedProposalQueue[s])[j].id
                      = (decisionLog[s] \o m_decidedProposalQueue[s])[k].id
             PROVE  j = k
  BY DEF DecidedOnce
<1> DEFINE a == decisionLog[s]
           b == m_decidedProposalQueue[s]
<1>1. a \in Seq(Decision) /\ b \in Seq(Decision)
  BY DEF TypeOK, ServerTypeOK
<1>2. /\ Len(a) \in Nat /\ DOMAIN a = 1 .. Len(a)
      /\ Len(b) \in Nat /\ DOMAIN b = 1 .. Len(b)
  BY <1>1, LenProperties
<1>3. /\ Ordered(a) /\ Ordered(b)
      /\ IdsOf(ToSet(a)) \cap IdsOf(ToSet(b)) = {}
  BY DEF LearningInv, LogsOK
<1> HIDE DEF a, b
<1>4. /\ DOMAIN (a \o b) = 1 .. Len(a) + Len(b)
      /\ \A i \in 1 .. Len(a) + Len(b) :
           (a \o b)[i] = IF i <= Len(a) THEN a[i] ELSE b[i - Len(a)]
  BY <1>1, ConcatProperties, LenProperties
<1>5. \A x \in DOMAIN a, y \in DOMAIN b : a[x].id # b[y].id
  BY <1>3 DEF IdsOf, ToSet
<1>6. ASSUME NEW q \in Seq(Decision), Ordered(q), NEW x \in DOMAIN q,
             NEW y \in DOMAIN q, q[x].id = q[y].id
      PROVE  x = y
  <2>1. Len(q) \in Nat /\ DOMAIN q = 1 .. Len(q)
    BY <1>6, LenProperties
  <2>2. q[x].id \in Int
    <3>1. q[x] \in Decision
      BY <1>6, <2>1, ElementOfSeq
    <3>2. QED
      BY <3>1 DEF Decision, Id
  <2>3. ~(x < y) /\ ~(y < x)
    BY <1>6, <2>2 DEF Ordered
  <2>4. QED
    BY <2>1, <2>3
<1>7. /\ j \in 1 .. Len(a) + Len(b) /\ k \in 1 .. Len(a) + Len(b)
      /\ (a \o b)[j].id = (a \o b)[k].id
  BY <1>4 DEF a, b
<1>8. CASE j <= Len(a) /\ k <= Len(a)
  <2>1. j \in DOMAIN a /\ k \in DOMAIN a /\ a[j].id = a[k].id
    BY <1>2, <1>4, <1>7, <1>8
  <2>2. QED
    BY <1>1, <1>3, <1>6, <2>1
<1>9. CASE j > Len(a) /\ k > Len(a)
  <2>1. /\ j - Len(a) \in DOMAIN b /\ k - Len(a) \in DOMAIN b
        /\ b[j - Len(a)].id = b[k - Len(a)].id
    BY <1>2, <1>4, <1>7, <1>9
  <2>2. j - Len(a) = k - Len(a)
    BY <1>1, <1>3, <1>6, <2>1
  <2>3. QED
    BY <1>2, <1>7, <2>2
<1>10. CASE j <= Len(a) /\ k > Len(a)
  <2>1. j \in DOMAIN a /\ k - Len(a) \in DOMAIN b /\ a[j].id = b[k - Len(a)].id
    BY <1>2, <1>4, <1>7, <1>10
  <2>2. QED
    BY <1>5, <2>1
<1>11. CASE j > Len(a) /\ k <= Len(a)
  <2>1. k \in DOMAIN a /\ j - Len(a) \in DOMAIN b /\ a[k].id = b[j - Len(a)].id
    BY <1>2, <1>4, <1>7, <1>11
  <2>2. QED
    BY <1>5, <2>1
<1>12. QED
  BY <1>2, <1>7, <1>8, <1>9, <1>10, <1>11

(***************************************************************************)
(* No server learns a decision twice: votes that arrive after the deciding *)
(* one, and acks after the completing one, find no undecided proposal.     *)
(***************************************************************************)
THEOREM DecidedOnceCorrect == Spec => []DecidedOnce
<1>1. TypeOK /\ LearningInv => DecidedOnce
  BY LogsHoldOnce
<1>2. QED
  BY <1>1, TypeCorrect, LearningCorrect, PTL

(***************************************************************************)
(* A server's log lists the decisions in the order of the requests, in     *)
(* whatever order the messages came.                                       *)
(***************************************************************************)
THEOREM LogIsOrderedCorrect == Spec => []LogIsOrdered
<1>1. LearningInv => LogIsOrdered
  BY DEF LearningInv, LogsOK, LogIsOrdered, Ordered
<1>2. QED
  BY <1>1, LearningCorrect, PTL
-------------------------------------------------------------------------------
(***************************************************************************)
(* A request is in one place.                                              *)
(***************************************************************************)
LEMMA AtMostOne ==
  ASSUME NEW S, \A x, y \in S : x = y
  PROVE  Cardinality(S) <= 1
<1>1. CASE S = {}
  BY <1>1, FS_EmptySet
<1>2. CASE S # {}
  <2>1. PICK x : S = {x}
    BY <1>2
  <2>2. QED
    BY <2>1, FS_Singleton
<1>3. QED
  BY <1>1, <1>2

\* The invariant leaves a request one place.
LEMMA PlacesAreOne ==
  ASSUME TypeOK, Match, VotingParts, LearningInv
  PROVE  RequestInOnePlace
<1> SUFFICES ASSUME NEW i \in DOMAIN requested
             PROVE  LET places ==
                          {<<"event", r>> : r \in {x \in requestEvents : x.frame.id = i}}
                          \cup (UNION {{<<"waiting", s, k>> :
                                          k \in {j \in DOMAIN m_waitingProposals[s] :
                                                   m_waitingProposals[s][j].id = i}} :
                                         s \in Server})
                          \cup {<<"proposed", s>> :
                                  s \in {t \in Server : \E p \in m_proposals[t] : p.id = i}}
                          \cup {<<"decided", s>> :
                                  s \in {t \in Server : \E d \in Learned(t) :
                                                          d.id = i /\ d.proposer = t}}
                    IN  Cardinality(places) <= 1
  BY DEF RequestInOnePlace
<1> DEFINE o == requested[i].to
           Sent == {x \in requestEvents : x.frame.id = i}
           Queued(s) == {j \in DOMAIN m_waitingProposals[s] : m_waitingProposals[s][j].id = i}
           Proposing == {t \in Server : \E p \in m_proposals[t] : p.id = i}
           Deciding == {t \in Server : \E d \in Learned(t) : d.id = i /\ d.proposer = t}
\* Whoever has it is the server that was asked.
<1>1. /\ \A r \in Sent : r.at = o
      /\ \A s \in Server : \A k \in Queued(s) : s = o
      /\ \A s \in Proposing : s = o
      /\ \A s \in Deciding : s = o
  <2>1. \A r \in Sent : r.at = o
    BY DEF Match, RequestsMatch, Asked
  <2>2. \A s \in Server : \A k \in Queued(s) : s = o
    BY DEF Match, WaitingMatch, Asked
  <2>3. \A s \in Proposing : s = o
    BY DEF Match, ProposalsMatch, Asked
  <2>4. \A s \in Deciding : s = o
    BY DEF Match, DecisionsMatch, Asked, Learned
  <2>5. QED
    BY <2>1, <2>2, <2>3, <2>4
\* It is at most once in each, and in one of them only.
<1>2. /\ \A r, x \in Sent : r = x
      /\ \A r \in Sent : Queued(o) = {}
  <2>1. \A r, x \in Sent : r = x
    BY DEF VotingParts, RequestsFresh
  <2>2. \A r \in Sent : Queued(o) = {}
    BY <1>1 DEF VotingParts, RequestsFresh
  <2>3. QED
    BY <2>1, <2>2
<1>3. \A s \in Server : \A j, k \in Queued(s) : j = k
  BY DEF VotingParts, WaitingFresh
<1>4. (Sent # {} \/ \E s \in Server : Queued(s) # {}) => i \in FreshIds
  <2>1. Sent # {} => i \in FreshIds
    BY DEF FreshIds
  <2>2. \A s \in Server : Queued(s) # {} => i \in IdsOf(ToSet(m_waitingProposals[s]))
    BY DEF IdsOf, ToSet
  <2>3. QED
    BY <2>1, <2>2 DEF FreshIds
<1>5. i \in FreshIds => Proposing = {} /\ Deciding = {}
  BY DEF LearningInv, LearningOK, FreshOK, NoTrace, LearnedIds, IdsOf
<1>6. Proposing = {} \/ Deciding = {}
  <2> SUFFICES ASSUME NEW s \in Proposing, NEW t \in Deciding
               PROVE  FALSE
    OBVIOUS
  <2>1. s = t /\ s \in Server
    BY <1>1
  <2>2. i \in LearnedIds[t]
    BY DEF LearnedIds, IdsOf
  <2>3. QED
    BY <2>1, <2>2 DEF LearningInv, LearningOK, ProposalsOK
<1> DEFINE places == {<<"event", r>> : r \in Sent}
                       \cup (UNION {{<<"waiting", s, k>> : k \in Queued(s)} : s \in Server})
                       \cup {<<"proposed", s>> : s \in Proposing}
                       \cup {<<"decided", s>> : s \in Deciding}
<1>7. /\ \A s, t \in Proposing : s = t
      /\ \A s, t \in Deciding : s = t
      /\ \A s, t \in Server : Queued(s) # {} /\ Queued(t) # {} => s = t
      /\ Sent # {} => \A s \in Server : Queued(s) = {}
  BY <1>1, <1>2
<1> HIDE DEF o, Sent, Queued, Proposing, Deciding
<1>8. \A x, y \in places : x = y
  <2>1. ASSUME NEW x \in places
        PROVE  \/ \E r \in Sent : x = <<"event", r>>
               \/ \E s \in Server : \E k \in Queued(s) : x = <<"waiting", s, k>>
               \/ \E s \in Proposing : x = <<"proposed", s>>
               \/ \E s \in Deciding : x = <<"decided", s>>
    OBVIOUS
  <2> HIDE DEF places
  <2>2. TAKE x, y \in places
  <2>3. CASE \E r \in Sent : x = <<"event", r>>
    BY <1>2, <1>4, <1>5, <1>7, <2>1, <2>3
  <2>4. CASE \E s \in Server : \E k \in Queued(s) : x = <<"waiting", s, k>>
    BY <1>3, <1>4, <1>5, <1>7, <2>1, <2>4
  <2>5. CASE \E s \in Proposing : x = <<"proposed", s>>
    BY <1>4, <1>5, <1>6, <1>7, <2>1, <2>5
  <2>6. CASE \E s \in Deciding : x = <<"decided", s>>
    BY <1>4, <1>5, <1>6, <1>7, <2>1, <2>6
  <2>7. QED
    BY <2>1, <2>3, <2>4, <2>5, <2>6
<1>9. Cardinality(places) <= 1
  <2> HIDE DEF places
  <2>1. QED
    BY <1>8, AtMostOne
<1>10. QED
  BY <1>9 DEF Sent, Queued, Proposing, Deciding

(***************************************************************************)
(* A request is on its way, waiting, proposed or decided by its server,    *)
(* never two of these: none is proposed twice, and none proposed again     *)
(* once it is decided.                                                     *)
(***************************************************************************)
THEOREM RequestInOnePlaceCorrect == Spec => []RequestInOnePlace
<1>1. TypeOK /\ Match /\ VotingParts /\ LearningInv => RequestInOnePlace
  BY PlacesAreOne
<1>2. QED
  BY <1>1, TypeCorrect, LearningCorrect, PTL
-------------------------------------------------------------------------------
(***************************************************************************)
(* What a server has learned it keeps, and the synchronous proposer learns *)
(* first.                                                                  *)
(***************************************************************************)
\* The same as LearnedGrows, with nothing lost.
LEMMA PushLearns ==
  ASSUME TypeOK, NEW s \in Server, NEW d \in Decision,
         m_decidedProposalQueue' =
           [m_decidedProposalQueue EXCEPT ![s] = Push(@, d)],
         UNCHANGED decisionLog
  PROVE  /\ Learned(s)' = Learned(s) \cup {d}
         /\ \A t \in Server \ {s} : Learned(t)' = Learned(t)
<1>1. m_decidedProposalQueue[s] \in Seq(Decision)
  BY DEF TypeOK, ServerTypeOK
<1>2. m_decidedProposalQueue'[s] = Push(m_decidedProposalQueue[s], d)
  BY DEF TypeOK, ServerTypeOK
<1>3. ToSet(m_decidedProposalQueue'[s]) = ToSet(m_decidedProposalQueue[s]) \cup {d}
  BY <1>1, <1>2, PushSet
<1>4. \A t \in Server \ {s} : m_decidedProposalQueue'[t] = m_decidedProposalQueue[t]
  BY DEF TypeOK, ServerTypeOK
<1>5. QED
  BY <1>3, <1>4 DEF Learned

(***************************************************************************)
(* What a step does to queues, logs and announcements: nothing; a server   *)
(* decides; it receives a DECISION; the leader completes; a server stops.  *)
(***************************************************************************)
LEMMA LearningCases ==
  ASSUME TypeOK, Match, [Next]_vars
  PROVE  \/ /\ UNCHANGED <<m_decidedProposalQueue, decisionLog, stopped>>
            /\ IsAsync \/ Announced' \subseteq Announced
         \/ /\ BetweenEvents
            /\ UNCHANGED <<decisionLog, stopped>>
            /\ \E s \in Server : \E d \in Decision :
                 /\ m_decidedProposalQueue' =
                      [m_decidedProposalQueue EXCEPT ![s] = Push(@, d)]
                 /\ \/ IsAsync
                    \/ d.proposer = s /\ Announced' \subseteq Announced \cup {d}
                    \/ d \in Announced /\ Announced' \subseteq Announced
         \/ \E s \in Server : StopApplication(s)
<1> DEFINE Quiet == /\ UNCHANGED <<m_decidedProposalQueue, decisionLog, stopped>>
                    /\ IsAsync \/ Announced' \subseteq Announced
           Learns == /\ BetweenEvents
                     /\ UNCHANGED <<decisionLog, stopped>>
                     /\ \E s \in Server : \E d \in Decision :
                          /\ m_decidedProposalQueue' =
                               [m_decidedProposalQueue EXCEPT ![s] = Push(@, d)]
                          /\ \/ IsAsync
                             \/ d.proposer = s /\ Announced' \subseteq Announced \cup {d}
                             \/ d \in Announced /\ Announced' \subseteq Announced
           Stops == \E s \in Server : StopApplication(s)
           QuietStep == /\ UNCHANGED <<m_decidedProposalQueue, decisionLog, stopped>>
                        /\ \A e \in events' :
                             e \in events \/ e.frame.type \in {"PROPOSAL", "ACCEPT"}
<1>1. QuietStep => Quiet
  BY DEF Announced
<1>2. BetweenEvents \/ Stops \/ UNCHANGED vars
  BY DEF Next, ServerStep, RequestStep, ProposeStep, MessageStep, ClientStep,
     SendRequest, NetworkStep, SimulationEnds
<1> HIDE DEF Quiet, Stops
<1>3. ASSUME NEW r \in requestEvents, ReceiveRequest(r) \/ CreateProposalFromRequest(r)
      PROVE  Quiet
  BY <1>1, <1>3 DEF ReceiveRequest, CreateProposalFromRequest, serverVars, learnerVars
<1>4. ASSUME NEW s \in Server, NEW P, NEW E, DoPropose(s, P, E), E \subseteq events
      PROVE  \A e \in events' : e \in events \/ e.frame.type \in {"PROPOSAL", "ACCEPT"}
  BY <1>4 DEF DoPropose, Broadcast, Datagram
<1>5. ASSUME NEW s \in Server, DoSyncPropose(s)
      PROVE  Quiet
  <2>1. UNCHANGED <<m_decidedProposalQueue, decisionLog, stopped>>
    BY <1>5 DEF DoSyncPropose, learnerVars
  <2>2. DoPropose(s, m_proposals[s], events) \/ UNCHANGED events
    BY <1>5 DEF DoSyncPropose
  <2>3. QED
    BY <1>1, <1>4, <2>1, <2>2
<1>6. ASSUME NEW s \in Server, DoAsyncPropose(s)
      PROVE  Quiet
  BY <1>6 DEF DoAsyncPropose, learnerVars, Quiet
<1>7. ASSUME NEW e \in events,
             \/ e.frame.type = "PROPOSAL" /\ DoReceivedProposalMessage(e)
             \/ SendAcceptMessage(e)
      PROVE  Quiet
  <2>1. e.frame \in PaxosFrame
    BY DEF TypeOK, SimTypeOK, Event
  <2>2. CASE e.frame.type = "PROPOSAL" /\ DoReceivedProposalMessage(e)
    <3> DEFINE n == [at |-> e.at, fn |-> "SendAcceptMessage",
                     frame |-> [e.frame EXCEPT !.acceptorId = e.at]]
    <3>1. n.frame.type = "PROPOSAL"
      BY <2>1, <2>2 DEF PaxosFrame
    <3>2. /\ events' = (events \ {e}) \cup {n}
          /\ UNCHANGED <<m_decidedProposalQueue, decisionLog, stopped>>
      BY <2>2 DEF DoReceivedProposalMessage, learnerVars
    <3> HIDE DEF n
    <3>3. QED
      BY <1>1, <3>1, <3>2
  <2>3. CASE SendAcceptMessage(e)
    <3> DEFINE f == [e.frame EXCEPT !.type = "ACCEPT", !.acceptorId = e.at]
               n == Datagram(f.proposerId, f)
    <3>1. n.frame.type = "ACCEPT"
      BY <2>1 DEF PaxosFrame, Datagram
    <3>2. /\ events' = (events \ {e}) \cup {n}
          /\ UNCHANGED <<m_decidedProposalQueue, decisionLog, stopped>>
      BY <2>3 DEF SendAcceptMessage, serverVars, learnerVars
    <3> HIDE DEF n
    <3>3. QED
      BY <1>1, <3>1, <3>2
  <2>4. QED
    BY <1>7, <2>2, <2>3
<1>8. ASSUME BetweenEvents, NEW e \in events, e.at \in Server,
             e.frame.type = "ACCEPT", DoReceivedAcceptMessage(e)
      PROVE  Quiet \/ Learns
  <2> DEFINE s == e.at
             f == e.frame
             v(p) == [id |-> p.id, value |-> p.value, proposer |-> s]
  <2>1. UNCHANGED <<stopped, decisionLog>>
    BY <1>8 DEF DoReceivedAcceptMessage
  <2>2. CASE events' = events \ {e} /\ UNCHANGED m_decidedProposalQueue
    BY <1>1, <2>1, <2>2
  <2>3. CASE IsAsync /\ UNCHANGED m_decidedProposalQueue
    BY <2>1, <2>3 DEF Quiet
  <2>4. ASSUME NEW p \in m_proposals[s], p.id = f.proposalId, f.proposerId = s,
               events' = (events \ {e}) \cup SendDecisionMessage(s, f),
               m_decidedProposalQueue' =
                 [m_decidedProposalQueue EXCEPT ![s] = Push(@, v(p))]
        PROVE  Learns
    <3>1. p \in Proposal /\ f \in PaxosFrame
      BY <1>8, <2>4 DEF TypeOK, SimTypeOK, ServerTypeOK, Event
    <3>2. v(p) \in Decision /\ v(p).proposer = s
      BY <1>8, <3>1 DEF Proposal, Decision
    <3>3. p.value = f.value
      BY <1>8, <2>4 DEF Match, ProposalsMatch, EventsMatch, ProposerOf, Asked
    <3>4. ASSUME NEW x \in SendDecisionMessage(s, f)
          PROVE  [id |-> x.frame.proposalId, value |-> x.frame.value,
                  proposer |-> x.frame.proposerId] = v(p)
      <4>1. x.frame = [f EXCEPT !.type = "DECISION"]
        BY DEF SendDecisionMessage, Broadcast, Datagram
      <4>2. /\ x.frame.proposalId = f.proposalId /\ x.frame.value = f.value
            /\ x.frame.proposerId = f.proposerId
        BY <3>1, <4>1 DEF PaxosFrame
      <4>3. QED
        BY <2>4, <3>3, <4>2
    <3>5. Announced' \subseteq Announced \cup {v(p)}
      <4> HIDE DEF s, f, v
      <4>1. QED
        BY <2>4, <3>4 DEF Announced
    <3>6. QED
      BY <1>8, <2>1, <2>4, <3>2, <3>5
  <2>5. \/ events' = events \ {e} /\ UNCHANGED m_decidedProposalQueue
        \/ IsAsync /\ UNCHANGED m_decidedProposalQueue
        \/ \E p \in {x \in m_proposals[s] : x.id = f.proposalId /\ f.proposerId = s} :
             /\ events' = (events \ {e}) \cup SendDecisionMessage(s, f)
             /\ m_decidedProposalQueue' =
                  [m_decidedProposalQueue EXCEPT ![s] = Push(@, v(p))]
    BY <1>8, Zenon DEF DoReceivedAcceptMessage
  <2> HIDE DEF Learns, v, s, f
  <2>6. QED
    BY <2>2, <2>3, <2>4, <2>5
<1>9. ASSUME BetweenEvents, NEW e \in events, e.at \in Server,
             e.frame.type = "DECISION", DoReceivedDecisionMessage(e)
      PROVE  Learns
  <2> DEFINE v == [id |-> e.frame.proposalId, value |-> e.frame.value,
                   proposer |-> e.frame.proposerId]
  <2>1. e.frame \in PaxosFrame
    BY DEF TypeOK, SimTypeOK, Event
  <2>2. v \in Decision /\ v \in Announced
    BY <1>9, <2>1 DEF Decision, PaxosFrame, Announced
  <2>3. /\ m_decidedProposalQueue' =
             [m_decidedProposalQueue EXCEPT ![e.at] = Push(@, v)]
        /\ UNCHANGED <<decisionLog, stopped>>
        /\ ~IsAsync => events' = events \ {e}
    BY <1>9 DEF DoReceivedDecisionMessage
  <2>4. IsAsync \/ Announced' \subseteq Announced
    BY <2>3 DEF Announced
  <2> HIDE DEF v
  <2>5. QED
    BY <1>9, <2>2, <2>3, <2>4
<1>10. ASSUME BetweenEvents, NEW e \in events, e.at \in Server,
              e.frame.type = "DECISION_ACK", DoReceivedDecisionAckMessage(e)
       PROVE  Quiet \/ Learns
  <2> DEFINE s == e.at
             v(p) == [id |-> p.id, value |-> p.value, proposer |-> s]
  <2>1. IsAsync /\ UNCHANGED <<stopped, decisionLog>>
    BY <1>10 DEF DoReceivedDecisionAckMessage
  <2>2. \/ UNCHANGED m_decidedProposalQueue
        \/ \E p \in m_proposals[s] :
             m_decidedProposalQueue' = [m_decidedProposalQueue EXCEPT ![s] = Push(@, v(p))]
    BY <1>10, Zenon DEF DoReceivedDecisionAckMessage
  <2>3. \A p \in m_proposals[s] : v(p) \in Decision
    BY <1>10 DEF TypeOK, ServerTypeOK, Proposal, Decision
  <2> HIDE DEF v
  <2>4. QED
    BY <1>10, <2>1, <2>2, <2>3 DEF Quiet
<1> HIDE DEF Learns, QuietStep
<1>11. ASSUME SendRequest, UNCHANGED serverVars
       PROVE  Quiet
  BY <1>1, <1>11 DEF SendRequest, serverVars, learnerVars, QuietStep
<1>12. ASSUME events' \subseteq events, UNCHANGED <<serverVars, stopped>>
       PROVE  Quiet
  BY <1>1, <1>12 DEF serverVars, learnerVars, QuietStep
<1>13. Quiet \/ Learns \/ Stops
  <2>1. CASE UNCHANGED vars
    BY <2>1, <1>12 DEF vars, simVars
  <2>2. CASE \E e \in events : DropMessage(e) /\ UNCHANGED <<serverVars, clientVars>>
    BY <2>2, <1>12 DEF DropMessage
  <2>3. CASE \E r \in requestEvents :
               DropRequest(r) /\ UNCHANGED <<serverVars, clientVars>>
    BY <2>3, <1>12 DEF DropRequest
  <2>4. QED
    BY <1>2, <1>3, <1>5, <1>6, <1>7, <1>8, <1>9, <1>10, <1>11,
       <2>1, <2>2, <2>3, StepCases DEF Stops
<1>14. QED
  BY <1>13 DEF Quiet, Learns, Stops

\* No step takes a learned decision away.
LEMMA LearnedStays ==
  ASSUME TypeOK, Match, LogsOK, [Next]_vars
  PROVE  \A s \in Server : Learned(s) \subseteq Learned(s)'
<1>1. CASE UNCHANGED <<m_decidedProposalQueue, decisionLog>>
  BY <1>1 DEF Learned
<1>2. ASSUME NEW s \in Server, NEW d \in Decision,
             m_decidedProposalQueue' =
               [m_decidedProposalQueue EXCEPT ![s] = Push(@, d)],
             UNCHANGED decisionLog
      PROVE  \A t \in Server : Learned(t) \subseteq Learned(t)'
  BY <1>2, PushLearns
<1>3. ASSUME NEW s \in Server, StopApplication(s)
      PROVE  \A t \in Server : Learned(t) \subseteq Learned(t)'
  <2>1. /\ decisionLog' = [decisionLog EXCEPT ![s] = m_decidedProposalQueue[s]]
        /\ m_decidedProposalQueue' = [m_decidedProposalQueue EXCEPT ![s] = <<>>]
        /\ stopped = 0 .. s - 1
    BY <1>3 DEF StopApplication, LoggedDecisions
  <2>2. decisionLog[s] = <<>> /\ ToSet(<<>>) = {}
    BY <2>1 DEF LogsOK, Server, ToSet
  <2>3. QED
    BY <2>1, <2>2 DEF Learned, TypeOK, ServerTypeOK
<1>4. QED
  BY <1>1, <1>2, <1>3, LearningCases

(***************************************************************************)
(* No server forgets a decision: StopApplication moves the queue into the  *)
(* log, which is empty before, and no other handler takes anything out.    *)
(***************************************************************************)
THEOREM DecisionsStayCorrect == Spec => DecisionsStay
<1>1. TypeOK /\ Match /\ LearningInv /\ [Next]_vars
        => [\A s \in Server : Learned(s) \subseteq Learned(s)']_vars
  BY LearnedStays DEF LearningInv
<1>2. QED
  BY <1>1, TypeCorrect, LearningCorrect, PTL DEF Spec, DecisionsStay
-------------------------------------------------------------------------------
\* While the synchronous servers run, or stop one after the other.
LEMMA SlotLogStep ==
  ASSUME TypeOK, TypeOK', Match, LearningInv, SlotLogInv, [Next]_vars
  PROVE  SlotLogInv'
<1> SUFFICES ASSUME ~IsAsync PROVE ProposerFirst' /\ ProposerLogIsComplete'
  BY DEF SlotLogInv
<1>1. ProposerFirst /\ ProposerLogIsComplete
  BY DEF SlotLogInv
<1>2. \A s \in Server : Learned(s) \subseteq Learned(s)'
  BY LearnedStays DEF LearningInv
<1>3. \A s \in Server : \A d \in Learned(s)' : d.proposer \in Server
  <2> SUFFICES ASSUME NEW s \in Server, NEW d \in Learned(s)' PROVE d.proposer \in Server
    OBVIOUS
  <2>1. m_decidedProposalQueue'[s] \in Seq(Decision) /\ decisionLog'[s] \in Seq(Decision)
    BY DEF TypeOK, ServerTypeOK
  <2>2. d \in Decision
    BY <2>1 DEF Learned, ToSet
  <2>3. QED
    BY <2>2 DEF Decision
<1>4. \A d \in Announced : d.proposer \in Server
  BY DEF Announced, TypeOK, SimTypeOK, Event, PaxosFrame
<1>5. \A s \in Server : \A d \in Learned(s) : d.proposer \in Server
  BY <1>2, <1>3
<1>6. CASE /\ UNCHANGED <<m_decidedProposalQueue, decisionLog, stopped>>
           /\ Announced' \subseteq Announced
  <2>1. \A s \in Server : Learned(s)' = Learned(s)
    BY <1>6 DEF Learned
  <2>2. ProposerFirst'
    <3>1. \A s \in Server : \A d \in Learned(s)' : d \in Learned(d.proposer)'
      BY <1>1, <1>5, <2>1 DEF ProposerFirst
    <3>2. \A d \in Announced' : d \in Learned(d.proposer)'
      BY <1>1, <1>4, <1>6, <2>1 DEF ProposerFirst
    <3>3. stopped' # Server => \A s \in stopped' : m_decidedProposalQueue'[s] = <<>>
      BY <1>1, <1>6 DEF ProposerFirst
    <3>4. QED
      BY <3>1, <3>2, <3>3 DEF ProposerFirst, Learned
  <2>3. QED
    BY <1>1, <1>6, <2>2 DEF ProposerLogIsComplete
<1>7. ASSUME BetweenEvents, UNCHANGED <<decisionLog, stopped>>,
             NEW s \in Server, NEW d \in Decision,
             m_decidedProposalQueue' =
               [m_decidedProposalQueue EXCEPT ![s] = Push(@, d)],
             \/ d.proposer = s /\ Announced' \subseteq Announced \cup {d}
             \/ d \in Announced /\ Announced' \subseteq Announced
      PROVE  ProposerFirst' /\ ProposerLogIsComplete'
  <2>1. /\ Learned(s)' = Learned(s) \cup {d}
        /\ \A t \in Server \ {s} : Learned(t)' = Learned(t)
    BY <1>7, PushLearns
  <2>2. d.proposer \in Server /\ d \in Learned(d.proposer)'
    BY <1>1, <1>2, <1>4, <1>7, <2>1 DEF ProposerFirst, Decision
  <2>3. \A t \in Server : \A x \in Learned(t)' : x \in Learned(x.proposer)'
    BY <1>1, <1>2, <1>5, <2>1, <2>2 DEF ProposerFirst
  <2>4. \A x \in Announced' : x \in Learned(x.proposer)'
    BY <1>1, <1>2, <1>4, <1>7, <2>2 DEF ProposerFirst
  <2>5. stopped' # Server => stopped' = {}
    BY <1>7 DEF BetweenEvents
  <2>6. ProposerFirst'
    BY <2>3, <2>4, <2>5 DEF ProposerFirst, Learned
  <2>7. QED
    BY <1>1, <1>7, <2>6 DEF ProposerLogIsComplete
<1>8. ASSUME NEW s \in Server, StopApplication(s)
      PROVE  ProposerFirst' /\ ProposerLogIsComplete'
  <2>1. /\ decisionLog' = [decisionLog EXCEPT ![s] = m_decidedProposalQueue[s]]
        /\ m_decidedProposalQueue' = [m_decidedProposalQueue EXCEPT ![s] = <<>>]
        /\ stopped = 0 .. s - 1 /\ stopped' = stopped \cup {s} /\ UNCHANGED events
    BY <1>8 DEF StopApplication, LoggedDecisions
  <2>2. stopped # Server
    <3>1. s \in Int /\ s \notin 0 .. s - 1
      BY NumNodesAssumption DEF Server
    <3>2. QED
      BY <2>1, <3>1
  <2>3. \A t \in stopped' : t \in Server /\ m_decidedProposalQueue'[t] = <<>>
    BY <1>1, <2>1, <2>2 DEF ProposerFirst, TypeOK, SimTypeOK, ServerTypeOK
  <2>4. ToSet(<<>>) = {}
    BY DEF ToSet
  <2>5. \A t \in Server : Learned(t)' \subseteq Learned(t)
    BY <2>1, <2>4 DEF Learned, TypeOK, ServerTypeOK
  <2>6. \A t \in Server : \A d \in Learned(t)' : d \in Learned(d.proposer)'
    BY <1>1, <1>2, <1>3, <2>5 DEF ProposerFirst
  <2>7. \A d \in Announced' : d \in Learned(d.proposer)'
    BY <1>1, <1>2, <1>4, <2>1 DEF ProposerFirst, Announced
  <2>8. ProposerFirst'
    BY <2>3, <2>6, <2>7 DEF ProposerFirst, Learned
  <2>9. ProposerLogIsComplete'
    <3> SUFFICES ASSUME stopped' = Server, NEW t \in Server,
                        NEW d \in ToSet(decisionLog'[t])
                 PROVE  d \in ToSet(decisionLog'[d.proposer])
      BY DEF ProposerLogIsComplete
    <3>1. d \in Learned(t)'
      BY DEF Learned
    <3>2. d \in Learned(d.proposer)' /\ d.proposer \in Server
      BY <1>3, <2>6, <3>1
    <3>3. m_decidedProposalQueue'[d.proposer] = <<>>
      BY <2>3, <3>2
    <3>4. QED
      BY <2>4, <3>2, <3>3 DEF Learned
  <2>10. QED
    BY <2>8, <2>9
<1>9. QED
  BY <1>6, <1>7, <1>8, LearningCases

\* The synchronous proposer learns first, always.
LEMMA SlotLogCorrect == Spec => []SlotLogInv
<1>1. Init => SlotLogInv
  <2> SUFFICES ASSUME Init PROVE SlotLogInv
    OBVIOUS
  <2>1. events = {} /\ stopped = {}
    BY DEF Init, SimInit
  <2>2. \A s \in Server : m_decidedProposalQueue[s] = <<>> /\ decisionLog[s] = <<>>
    BY DEF Init, ServerInit
  <2>3. ToSet(<<>>) = {}
    BY DEF ToSet
  <2>4. QED
    BY <2>1, <2>2, <2>3 DEF SlotLogInv, ProposerFirst, ProposerLogIsComplete,
       Announced, Learned
<1>2. TypeOK /\ Match /\ LearningInv /\ SlotLogInv /\ [Next]_vars => SlotLogInv'
  BY TypeStep, SlotLogStep
<1>3. QED
  BY <1>1, <1>2, TypeCorrect, LearningCorrect, PTL DEF Spec

(***************************************************************************)
(* In the synchronous protocol the proposer of a decision has it before    *)
(* anybody else, and the logs are written with nothing run in between: no  *)
(* log has a decision that its proposer's log lacks.                       *)
(***************************************************************************)
THEOREM ProposerLogCorrect == Spec => []ProposerLogIsComplete
<1>1. SlotLogInv => ProposerLogIsComplete
  BY DEF SlotLogInv, ProposerLogIsComplete
<1>2. QED
  BY <1>1, SlotLogCorrect, PTL
================================================================================
