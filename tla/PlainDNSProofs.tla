--------------------------- MODULE PlainDNSProofs ---------------------------
(***************************************************************************)
(* Theorems about the tracker of plain resolvers, for any resolvers, ports *)
(* and limits, frames that are lost or captured twice, and resolvers that  *)
(* come and go: its maps keep their shapes, no resolver shows more answers *)
(* and timeouts than requests, and no query stays open for long; and, when *)
(* nothing is lost, doubled or changed, no client's query is counted as    *)
(* one more of the router's.                                               *)
(***************************************************************************)
EXTENDS PlainDNS, FiniteSetTheorems, SequenceTheorems, TLAPS

Counter == [Fields -> Nat]
Record  == [query : 1..scenario.queries, question : Question, at : Times]
Mark    == [at : Times, left : Nat \ {0}]
Sent    == [from : {"router", "client"}, key : Keys, question : Question,
            at : Times, frames : 0..2, replies : Nat]

TrackerOK ==
  /\ Known \subseteq Resolver
  /\ \A r \in Known : count[r] \in Counter
  /\ DOMAIN pending \subseteq Keys
  /\ \A k \in DOMAIN pending : pending[k] \in Record
  /\ DOMAIN forwarded \subseteq Marks
  /\ \A m \in DOMAIN forwarded : forwarded[m] \in Mark

\* The ticker has been on time, and the queries are as many as there may be.
Steady ==
  /\ swept <= clock /\ clock - swept <= SweepEvery
  /\ Len(asked) <= scenario.queries

\* What is open is open at a resolver that is known, and was not overdue when
\* the ticker last ran.
Owned ==
  /\ IsFiniteSet(DOMAIN pending)
  /\ \A k \in DOMAIN pending : k.resolver \in Known /\ swept - pending[k].at < Timeout

\* What is open at a resolver.
OpenAt(r) == {k \in DOMAIN pending : k.resolver = r}

Balanced(c, open) ==
  /\ c.requests >= c.responses + c.timeouts + open
  /\ c.responses >= c.errors + c.nxdomain

IInv == TypeOK /\ Steady /\ Owned /\ Balance

-----------------------------------------------------------------------------
(* The parts of the invariant.                                             *)

LEMMA Bounds ==
  /\ Timeout \in Nat /\ Timeout > 0 /\ SweepEvery \in Nat /\ SweepEvery > 0
BY PlainAssumption

LEMMA ScenarioType ==
  ASSUME scenario \in Scenarios
  PROVE  /\ scenario.resolvers \subseteq Resolver /\ scenario.time \in Nat
         /\ scenario.queries \in Nat
BY PlainAssumption

LEMMA Shapes ==
  TypeOK <=> /\ scenario \in Scenarios /\ clock \in Times /\ swept \in Times
             /\ TrackerOK /\ asked \in Seq(Sent)
BY DEF TypeOK, TrackerOK, Counter, Record, Mark, Sent

LEMMA BalanceParts ==
  Balance <=> \A r \in Known : Balanced(count[r], Cardinality(OpenAt(r)))
BY DEF Balance, Balanced, OpenAt

LEMMA OpenIsFinite ==
  ASSUME Owned, NEW r
  PROVE  IsFiniteSet(OpenAt(r)) /\ Cardinality(OpenAt(r)) \in Nat
<1>1. OpenAt(r) \in SUBSET (DOMAIN pending)
  BY DEF OpenAt
<1> QED BY <1>1, FS_Subset, FS_CardinalityType DEF Owned

LEMMA AddOne ==
  ASSUME NEW S, NEW x, IsFiniteSet(S)
  PROVE  /\ Cardinality(S \union {x}) \in Nat
         /\ Cardinality(S \union {x}) <= Cardinality(S) + 1
<1>1. Cardinality(S) \in Nat
  BY FS_CardinalityType
<1> QED BY <1>1, FS_AddElement

LEMMA BumpType ==
  ASSUME NEW c \in Counter, NEW F
  PROVE  /\ Bump(c, F) \in Counter
         /\ \A f \in Fields : Bump(c, F)[f] = IF f \in F THEN c[f] + 1 ELSE c[f]
BY DEF Bump, Counter

LEMMA MarkType ==
  ASSUME NEW k \in Keys, NEW q \in Question
  PROVE  MarkOf(k, q) \in Marks
BY DEF MarkOf, Keys, Marks

-----------------------------------------------------------------------------
(* A query is recorded.                                                    *)

\* A frame is not counted, and uses a mark up at the most; or it is.
LEMMA RecordCases ==
  ASSUME NEW i, NEW k, NEW q, RecordQuery(i, k, q)
  PROVE  \/ /\ UNCHANGED <<count, pending>>
            /\ \/ UNCHANGED forwarded
               \/ /\ MarkOf(k, q) \in DOMAIN forwarded
                  /\ forwarded' = Spent(MarkOf(k, q))
         \/ /\ k.resolver \in Known /\ UNCHANGED forwarded
            /\ pending' = Put(pending, k, [query |-> i, question |-> q, at |-> clock])
            /\ count' = [count EXCEPT ![k.resolver] = Bump(@, {"requests"})]
BY DEF RecordQuery, tracker, Suppressed

LEMMA SpentType ==
  ASSUME TrackerOK, NEW m \in DOMAIN forwarded
  PROVE  /\ DOMAIN Spent(m) \subseteq Marks
         /\ \A x \in DOMAIN Spent(m) : Spent(m)[x] \in Mark
<1>1. forwarded[m] \in Mark /\ DOMAIN forwarded \subseteq Marks
      /\ \A x \in DOMAIN forwarded : forwarded[x] \in Mark
  BY DEF TrackerOK
<1>2. CASE forwarded[m].left = 1
  BY <1>1, <1>2 DEF Spent, Drop
<1>3. CASE forwarded[m].left # 1
  <2>1. Spent(m) = [forwarded EXCEPT ![m].left = @ - 1]
    BY <1>3 DEF Spent
  <2>2. [forwarded[m] EXCEPT !.left = @ - 1] \in Mark
    BY <1>1, <1>3 DEF Mark
  <2> QED BY <1>1, <2>1, <2>2
<1> QED BY <1>2, <1>3

\* The counters and the open queries once a query is counted.
LEMMA CountedStep ==
  ASSUME TypeOK, Steady, Owned, Balance,
         NEW i \in 1..scenario.queries, NEW k \in Keys, NEW q \in Question,
         k.resolver \in Known, UNCHANGED <<scenario, clock, swept, forwarded>>,
         pending' = Put(pending, k, [query |-> i, question |-> q, at |-> clock]),
         count' = [count EXCEPT ![k.resolver] = Bump(@, {"requests"})]
  PROVE  TrackerOK' /\ Owned' /\ Balance'
<1> DEFINE new == [query |-> i, question |-> q, at |-> clock]
<1>1. /\ TrackerOK /\ scenario \in Scenarios /\ clock \in Times /\ swept \in Times
      /\ scenario.time \in Nat /\ clock \in Nat /\ swept \in Nat
  BY Shapes, ScenarioType DEF Times
<1>2. new \in Record
  BY <1>1 DEF Record
<1>3. /\ DOMAIN pending' = DOMAIN pending \union {k} /\ pending'[k] = new
      /\ \A x \in DOMAIN pending \ {k} : pending'[x] = pending[x]
  BY DEF Put
<1>4. /\ DOMAIN count' = Known
      /\ count'[k.resolver] = Bump(count[k.resolver], {"requests"})
      /\ \A r \in Known \ {k.resolver} : count'[r] = count[r]
  BY DEF Known
<1>5. count[k.resolver] \in Counter
  BY <1>1 DEF TrackerOK
<1>6. TrackerOK'
  <2>1. \A r \in DOMAIN count' : count'[r] \in Counter
    BY <1>1, <1>4, <1>5, BumpType DEF TrackerOK
  <2>2. \A x \in DOMAIN pending' : pending'[x] \in Record'
    BY <1>1, <1>2, <1>3 DEF TrackerOK, Record, Times
  <2>3. /\ DOMAIN forwarded' \subseteq Marks
        /\ \A m \in DOMAIN forwarded' : forwarded'[m] \in Mark'
    BY <1>1 DEF TrackerOK, Mark, Times
  <2> QED BY <1>1, <1>3, <1>4, <2>1, <2>2, <2>3 DEF TrackerOK, Known, Counter
<1>7. Owned'
  <2>1. IsFiniteSet(DOMAIN pending')
    BY <1>3, FS_AddElement DEF Owned
  <2>2. swept - new.at < Timeout
    BY <1>1, Bounds DEF Steady
  <2>3. ASSUME NEW x \in DOMAIN pending'
        PROVE  x.resolver \in DOMAIN count' /\ swept' - pending'[x].at < Timeout
    BY <1>3, <1>4, <2>2, <2>3 DEF Owned
  <2> QED BY <2>1, <2>3 DEF Owned, Known
<1>8. Balance'
  <2> SUFFICES ASSUME NEW r \in Known
               PROVE  Balanced(count'[r], Cardinality(OpenAt(r)'))
    BY <1>4 DEF Balance, Balanced, OpenAt, Known
  <2>1. Balanced(count[r], Cardinality(OpenAt(r))) /\ count[r] \in Counter
    BY <1>1, BalanceParts DEF TrackerOK
  <2>2. Cardinality(OpenAt(r)) \in Nat /\ IsFiniteSet(OpenAt(r))
    BY OpenIsFinite
  <2>3. CASE r = k.resolver
    <3>1. OpenAt(r)' = OpenAt(r) \union {k}
      BY <1>3, <2>3 DEF OpenAt
    <3>2. /\ Cardinality(OpenAt(r)') \in Nat
          /\ Cardinality(OpenAt(r)') <= Cardinality(OpenAt(r)) + 1
      BY <2>2, <3>1, AddOne
    <3>3. /\ count'[r].requests = count[r].requests + 1
          /\ \A f \in Fields \ {"requests"} : count'[r][f] = count[r][f]
      BY <1>4, <2>1, <2>3, BumpType DEF Fields
    <3> QED BY <2>1, <2>2, <3>2, <3>3 DEF Balanced, Counter, Fields
  <2>4. CASE r # k.resolver
    <3>1. OpenAt(r)' = OpenAt(r)
      BY <1>3, <2>4 DEF OpenAt
    <3> QED BY <1>4, <2>1, <2>4, <3>1
  <2> QED BY <2>3, <2>4
<1> QED BY <1>6, <1>7, <1>8

\* The counters and the open queries stay, and the marks keep their shape.
LEMMA MarksStep ==
  ASSUME TypeOK, Owned, Balance, UNCHANGED <<scenario, swept, count, pending>>,
         DOMAIN forwarded' \subseteq Marks,
         \A m \in DOMAIN forwarded' : forwarded'[m] \in Mark
  PROVE  TrackerOK' /\ Owned' /\ Balance'
<1>1. TrackerOK
  BY Shapes
<1>2. TrackerOK'
  BY <1>1 DEF TrackerOK, Known, Counter, Record, Mark, Times
<1>3. Owned' /\ Balance'
  BY DEF Owned, Balance, Known
<1> QED BY <1>2, <1>3

LEMMA RecordStep ==
  ASSUME TypeOK, Steady, Owned, Balance,
         NEW i \in 1..scenario.queries, NEW k \in Keys, NEW q \in Question,
         RecordQuery(i, k, q), UNCHANGED <<scenario, clock, swept>>
  PROVE  TrackerOK' /\ Owned' /\ Balance'
<1>1. TrackerOK
  BY Shapes
<1>2. CASE UNCHANGED tracker
  BY <1>1, <1>2, MarksStep DEF tracker, TrackerOK
<1>3. CASE /\ UNCHANGED <<count, pending>> /\ MarkOf(k, q) \in DOMAIN forwarded
           /\ forwarded' = Spent(MarkOf(k, q))
  BY <1>1, <1>3, MarksStep, SpentType
<1>4. CASE /\ k.resolver \in Known /\ UNCHANGED forwarded
           /\ pending' = Put(pending, k, [query |-> i, question |-> q, at |-> clock])
           /\ count' = [count EXCEPT ![k.resolver] = Bump(@, {"requests"})]
  BY <1>4, CountedStep
<1> QED BY <1>2, <1>3, <1>4, RecordCases DEF tracker

\* One more query, or one more frame or reply of a query.
LEMMA AskedStep ==
  ASSUME TypeOK, Steady, NEW from \in {"router", "client"}, NEW k \in Keys,
         NEW q \in Question, NEW frames \in {0, 1}, Ask(from, k, q, frames),
         UNCHANGED <<scenario, clock, swept>>
  PROVE  /\ asked' \in Seq(Sent)' /\ Steady'
         /\ Len(asked) + 1 \in 1..scenario.queries
<1>1. /\ asked \in Seq(Sent) /\ scenario.queries \in Nat /\ clock \in Times
      /\ Len(asked) \in Nat /\ Len(asked) < scenario.queries
  BY Shapes, ScenarioType DEF Ask
<1>2. PICK new \in Sent : asked' = Append(asked, new)
  BY <1>1 DEF Ask, Sent
<1>3. asked' \in Seq(Sent) /\ Len(asked') = Len(asked) + 1
  BY <1>1, <1>2
<1>4. Sent' = Sent
  BY DEF Sent, Times
<1> QED BY <1>1, <1>3, <1>4 DEF Steady

LEMMA TouchedStep ==
  ASSUME TypeOK, Steady, NEW i \in 1..Len(asked), NEW new \in Sent,
         asked' = [asked EXCEPT ![i] = new], UNCHANGED <<scenario, clock, swept>>
  PROVE  asked' \in Seq(Sent)' /\ Steady' /\ i \in 1..scenario.queries
<1>1. asked \in Seq(Sent) /\ scenario.queries \in Nat /\ Len(asked) \in Nat
  BY Shapes, ScenarioType
<1>2. asked' \in Seq(Sent) /\ Len(asked') = Len(asked)
  BY <1>1
<1>3. Sent' = Sent
  BY DEF Sent, Times
<1> QED BY <1>1, <1>2, <1>3 DEF Steady

LEMMA Together ==
  ASSUME TypeOK, UNCHANGED <<scenario, clock, swept>>, asked' \in Seq(Sent)',
         Steady', TrackerOK', Owned', Balance'
  PROVE  IInv'
<1>1. /\ scenario' \in Scenarios /\ clock' \in Times' /\ swept' \in Times'
  BY Shapes DEF Times
<1>2. TypeOK'
  BY <1>1 DEF TypeOK, TrackerOK, Counter, Record, Mark, Sent
<1> QED BY <1>2 DEF IInv

LEMMA RouterAsksStep ==
  ASSUME IInv, UNCHANGED scenario, NEW k \in Keys, NEW q \in Question,
         RouterAsks(k, q)
  PROVE  IInv'
<1>1. Ask("router", k, q, 1) /\ UNCHANGED <<scenario, clock, swept>>
  BY DEF RouterAsks
<1>2. asked' \in Seq(Sent)' /\ Steady' /\ Len(asked) + 1 \in 1..scenario.queries
  BY <1>1, AskedStep DEF IInv
<1>3. CASE RecordQuery(Len(asked) + 1, k, q)
  BY <1>1, <1>2, <1>3, RecordStep, Together DEF IInv
<1>4. CASE UNCHANGED tracker
  BY <1>1, <1>2, <1>4, Shapes, MarksStep, Together DEF IInv, tracker, TrackerOK
<1> QED BY <1>3, <1>4 DEF RouterAsks

LEMMA ClientAsksStep ==
  ASSUME IInv, UNCHANGED scenario, NEW k \in Keys, NEW q \in Question,
         ClientAsks(k, q)
  PROVE  IInv'
<1>1. /\ Ask("client", k, q, 0) /\ UNCHANGED <<scenario, clock, swept, count, pending>>
      /\ forwarded' = Marked(MarkOf(k, q)) \/ UNCHANGED forwarded
  BY DEF ClientAsks
<1>2. asked' \in Seq(Sent)' /\ Steady'
  BY <1>1, AskedStep DEF IInv
<1>3. /\ DOMAIN forwarded \subseteq Marks /\ clock \in Times
      /\ \A m \in DOMAIN forwarded : forwarded[m] \in Mark
  BY Shapes DEF IInv, TrackerOK
<1>4. DOMAIN forwarded' \subseteq Marks /\ \A m \in DOMAIN forwarded' : forwarded'[m] \in Mark
  <2>1. CASE forwarded' = Marked(MarkOf(k, q))
    <3> DEFINE m == MarkOf(k, q)
               x == [at |-> clock,
                     left |-> 1 + IF m \in DOMAIN forwarded THEN forwarded[m].left ELSE 0]
    <3>1. x \in Mark /\ m \in Marks
      BY <1>3, MarkType DEF Mark
    <3>2. forwarded' = Put(forwarded, m, x)
      BY <2>1 DEF Marked
    <3> HIDE DEF m, x
    <3> QED BY <1>3, <3>1, <3>2 DEF Put
  <2> QED BY <1>1, <1>3, <2>1
<1> QED BY <1>1, <1>2, <1>4, MarksStep, Together DEF IInv

LEMMA EgressStep ==
  ASSUME IInv, UNCHANGED scenario, NEW i \in 1..Len(asked), Egress(i)
  PROVE  IInv'
<1>1. asked[i] \in Sent /\ asked \in Seq(Sent)
  BY Shapes DEF IInv
<1> DEFINE new == [asked[i] EXCEPT !.frames = @ + 1]
<1>2. /\ asked' = [asked EXCEPT ![i] = new] /\ UNCHANGED <<scenario, clock, swept>>
      /\ RecordQuery(i, asked[i].key, asked[i].question) /\ asked[i].frames < 2
  BY <1>1 DEF Egress, Sent
<1>3. new \in Sent /\ asked[i].key \in Keys /\ asked[i].question \in Question
  <2>1. asked[i].frames \in 0..2 /\ asked[i].frames < 2
    BY <1>1, <1>2 DEF Sent
  <2>2. asked[i].frames + 1 \in 0..2
    BY <2>1
  <2> QED BY <1>1, <2>2 DEF Sent
<1>4. asked' \in Seq(Sent)' /\ Steady' /\ i \in 1..scenario.queries
  BY <1>2, <1>3, TouchedStep DEF IInv
<1>5. TrackerOK' /\ Owned' /\ Balance'
  BY <1>2, <1>3, <1>4, RecordStep DEF IInv
<1> QED BY <1>2, <1>4, <1>5, Together DEF IInv

-----------------------------------------------------------------------------
(* An answer, the ticker and discovery.                                    *)

LEMMA RemoveOne ==
  ASSUME NEW S, NEW x \in S, IsFiniteSet(S)
  PROVE  Cardinality(S \ {x}) = Cardinality(S) - 1
BY FS_RemoveElement

\* What is left of the open queries keeps its shape.
LEMMA DropType ==
  ASSUME NEW K
  PROVE  /\ DOMAIN Drop(pending, K) = DOMAIN pending \ K
         /\ \A k \in DOMAIN pending \ K : Drop(pending, K)[k] = pending[k]
BY DEF Drop

\* An answer is to one query, and is of one kind.
LEMMA AnsweredStep ==
  ASSUME TypeOK, Owned, Balance, NEW k \in DOMAIN pending, NEW rcode \in RCodes,
         k.resolver \in Known, UNCHANGED <<scenario, clock, swept, forwarded>>,
         pending' = Drop(pending, {k}),
         count' = [count EXCEPT ![k.resolver] = Bump(@, Answered(rcode))]
  PROVE  TrackerOK' /\ Owned' /\ Balance'
<1>1. TrackerOK
  BY Shapes
<1>2. /\ DOMAIN pending' = DOMAIN pending \ {k}
      /\ \A x \in DOMAIN pending' : pending'[x] = pending[x]
  BY DropType
<1>3. /\ DOMAIN count' = Known
      /\ count'[k.resolver] = Bump(count[k.resolver], Answered(rcode))
      /\ \A r \in Known \ {k.resolver} : count'[r] = count[r]
  BY DEF Known
<1>4. count[k.resolver] \in Counter
  BY <1>1 DEF TrackerOK
<1>5. TrackerOK'
  <2>1. \A r \in DOMAIN count' : count'[r] \in Counter
    BY <1>1, <1>3, <1>4, BumpType DEF TrackerOK
  <2>2. \A x \in DOMAIN pending' : pending'[x] \in Record'
    BY <1>1, <1>2 DEF TrackerOK, Record, Times
  <2>3. /\ DOMAIN forwarded' \subseteq Marks
        /\ \A m \in DOMAIN forwarded' : forwarded'[m] \in Mark'
    BY <1>1 DEF TrackerOK, Mark, Times
  <2> QED BY <1>1, <1>2, <1>3, <2>1, <2>2, <2>3 DEF TrackerOK, Known, Counter
<1>6. Owned'
  <2>1. IsFiniteSet(DOMAIN pending')
    BY <1>2, FS_RemoveElement DEF Owned
  <2>2. ASSUME NEW x \in DOMAIN pending'
        PROVE  x.resolver \in DOMAIN count' /\ swept' - pending'[x].at < Timeout
    BY <1>2, <1>3, <2>2 DEF Owned
  <2> QED BY <2>1, <2>2 DEF Owned, Known
<1>7. Balance'
  <2> SUFFICES ASSUME NEW r \in Known
               PROVE  Balanced(count'[r], Cardinality(OpenAt(r)'))
    BY <1>3 DEF Balance, Balanced, OpenAt, Known
  <2>1. Balanced(count[r], Cardinality(OpenAt(r))) /\ count[r] \in Counter
    BY <1>1, BalanceParts DEF TrackerOK
  <2>2. Cardinality(OpenAt(r)) \in Nat /\ IsFiniteSet(OpenAt(r))
    BY OpenIsFinite
  <2>3. CASE r = k.resolver
    <3>1. OpenAt(r)' = OpenAt(r) \ {k} /\ k \in OpenAt(r)
      BY <1>2, <2>3 DEF OpenAt
    <3>2. Cardinality(OpenAt(r)') = Cardinality(OpenAt(r)) - 1
      BY <2>2, <3>1, RemoveOne
    <3>3. \A f \in Fields : count'[r][f] =
            IF f \in Answered(rcode) THEN count[r][f] + 1 ELSE count[r][f]
      BY <1>3, <2>1, <2>3, BumpType
    <3>4. /\ "responses" \in Answered(rcode)
          /\ Answered(rcode) \intersect {"requests", "timeouts"} = {}
          /\ "errors" \notin Answered(rcode) \/ "nxdomain" \notin Answered(rcode)
      BY DEF Answered, RCodes
    <3>5. /\ count'[r].requests = count[r].requests
          /\ count'[r].timeouts = count[r].timeouts
          /\ count'[r].responses = count[r].responses + 1
          /\ count'[r].errors + count'[r].nxdomain
               <= count[r].errors + count[r].nxdomain + 1
          /\ count'[r].errors \in Nat /\ count'[r].nxdomain \in Nat
      BY <2>1, <3>3, <3>4 DEF Fields, Counter
    <3> QED BY <2>1, <2>2, <3>2, <3>5 DEF Balanced, Counter, Fields
  <2>4. CASE r # k.resolver
    <3>1. OpenAt(r)' = OpenAt(r)
      BY <1>2, <2>4 DEF OpenAt
    <3> QED BY <1>3, <2>1, <2>4, <3>1
  <2> QED BY <2>3, <2>4
<1> QED BY <1>5, <1>6, <1>7

LEMMA RecordResponseStep ==
  ASSUME IInv, UNCHANGED scenario, NEW i \in 1..Len(asked), NEW rcode \in RCodes,
         RecordResponse(i, rcode)
  PROVE  IInv'
<1>1. asked[i] \in Sent /\ asked \in Seq(Sent)
  BY Shapes DEF IInv
<1> DEFINE new == [asked[i] EXCEPT !.replies = @ + 1]
<1>2. asked' = [asked EXCEPT ![i] = new] /\ UNCHANGED <<scenario, clock, swept, forwarded>>
  BY <1>1 DEF RecordResponse, Sent
<1>3. new \in Sent
  BY <1>1 DEF Sent
<1>4. asked' \in Seq(Sent)' /\ Steady'
  BY <1>2, <1>3, TouchedStep DEF IInv
<1>5. TrackerOK' /\ Owned' /\ Balance'
  <2> DEFINE k == asked[i].key
  <2>1. CASE /\ k.resolver \in Known /\ k \in DOMAIN pending
             /\ pending' = Drop(pending, {k})
             /\ count' = [count EXCEPT ![k.resolver] = Bump(@, Answered(rcode))]
    BY <1>2, <2>1, AnsweredStep DEF IInv
  <2>2. CASE UNCHANGED <<count, pending>>
    BY <1>2, <2>2, Shapes, MarksStep DEF IInv, TrackerOK
  <2> QED BY <2>1, <2>2 DEF RecordResponse
<1> QED BY <1>2, <1>4, <1>5, Together DEF IInv

\* What is overdue is counted where it was open, and the rest is not overdue.
LEMMA SweepStep ==
  ASSUME IInv, UNCHANGED scenario, Sweep
  PROVE  IInv'
<1>1. /\ TrackerOK /\ TypeOK /\ Steady /\ Owned /\ Balance
      /\ scenario.time \in Nat /\ clock \in Nat /\ swept \in Nat /\ clock \in Times
      /\ Len(asked) \in Nat
  BY Shapes, ScenarioType DEF IInv, Times
<1>2. /\ DOMAIN pending' = DOMAIN pending \ Overdue
      /\ \A k \in DOMAIN pending' : pending'[k] = pending[k]
      /\ swept' = clock /\ UNCHANGED <<scenario, clock, asked>>
  BY DropType DEF Sweep
<1> DEFINE late(r) == {k \in Overdue : k.resolver = r}
<1>3. /\ DOMAIN count' = Known
      /\ \A r \in Known :
           count'[r] = [count[r] EXCEPT !.timeouts = @ + Cardinality(late(r))]
  BY DEF Sweep, Known
<1>4. ASSUME NEW r \in Known
      PROVE  /\ late(r) = OpenAt(r) \intersect Overdue
             /\ OpenAt(r)' = OpenAt(r) \ Overdue
             /\ Cardinality(late(r)) \in Nat
             /\ Cardinality(OpenAt(r)') = Cardinality(OpenAt(r)) - Cardinality(late(r))
             /\ Cardinality(OpenAt(r)) \in Nat
  <2>1. late(r) = OpenAt(r) \intersect Overdue /\ OpenAt(r)' = OpenAt(r) \ Overdue
    BY <1>2 DEF Overdue, OpenAt
  <2>2. IsFiniteSet(OpenAt(r)) /\ Cardinality(OpenAt(r)) \in Nat
    BY <1>1, OpenIsFinite
  <2>3. IsFiniteSet(late(r)) /\ Cardinality(late(r)) \in Nat
    BY <2>1, <2>2, FS_Subset, FS_CardinalityType
  <2>4. Cardinality(OpenAt(r) \ Overdue) =
          Cardinality(OpenAt(r)) - Cardinality(OpenAt(r) \intersect Overdue)
    BY <2>2, FS_Difference
  <2> QED BY <2>1, <2>2, <2>3, <2>4
<1> HIDE DEF late
<1>5. ASSUME NEW r \in Known
      PROVE  count'[r] \in Counter /\ Balanced(count'[r], Cardinality(OpenAt(r)'))
  <2>1. Balanced(count[r], Cardinality(OpenAt(r))) /\ count[r] \in Counter
    BY <1>1, BalanceParts DEF TrackerOK
  <2>2. count'[r] \in Counter
    BY <1>3, <1>4, <2>1 DEF Counter, Fields
  <2>3. /\ count'[r].timeouts = count[r].timeouts + Cardinality(late(r))
        /\ \A f \in Fields \ {"timeouts"} : count'[r][f] = count[r][f]
    BY <1>3, <2>1 DEF Counter, Fields
  <2> QED BY <1>4, <2>1, <2>2, <2>3 DEF Balanced, Counter, Fields
<1>6. Balance'
  BY <1>3, <1>5 DEF Balance, Balanced, OpenAt, Known
<1>7. TrackerOK'
  <2>1. \A k \in DOMAIN pending' : pending'[k] \in Record'
    BY <1>1, <1>2 DEF TrackerOK, Record, Times
  <2>2. /\ DOMAIN forwarded' \subseteq Marks
        /\ \A m \in DOMAIN forwarded' : forwarded'[m] \in Mark'
    BY <1>1, <1>2 DEF Sweep, Drop, TrackerOK, Mark, Times
  <2> QED BY <1>1, <1>2, <1>3, <1>5, <2>1, <2>2 DEF TrackerOK, Known, Counter
<1>8. Owned'
  <2>1. IsFiniteSet(DOMAIN pending')
    BY <1>1, <1>2, FS_Difference DEF Owned
  <2>2. ASSUME NEW k \in DOMAIN pending'
        PROVE  k.resolver \in DOMAIN count' /\ swept' - pending'[k].at < Timeout
    <3>1. pending[k].at \in Nat
      BY <1>1, <1>2 DEF TrackerOK, Record, Times
    <3>2. clock - pending[k].at < Timeout
      BY <1>1, <1>2, <3>1, Bounds DEF Overdue
    <3> QED BY <1>1, <1>2, <1>3, <3>2 DEF Owned
  <2> QED BY <2>1, <2>2 DEF Owned, Known
<1>9. Steady'
  BY <1>1, <1>2, Bounds DEF Steady
<1>10. TypeOK'
  <2>1. asked' \in Seq(Sent)' /\ scenario' \in Scenarios /\ clock' \in Times' /\ swept' \in Times'
    BY <1>1, <1>2, Shapes DEF Sent, Times
  <2> QED BY <1>7, <2>1 DEF TypeOK, TrackerOK, Counter, Record, Mark, Sent
<1> QED BY <1>6, <1>8, <1>9, <1>10 DEF IInv

\* A resolver that is new has nothing open, for what was is forgotten.
LEMMA UpdateResolversStep ==
  ASSUME IInv, UNCHANGED scenario, NEW S \in SUBSET scenario.resolvers,
         UpdateResolvers(S)
  PROVE  IInv'
<1>1. /\ TrackerOK /\ TypeOK /\ Steady /\ Owned /\ Balance /\ asked \in Seq(Sent)
      /\ S \subseteq Resolver /\ scenario \in Scenarios
  BY Shapes, ScenarioType DEF IInv
<1>2. /\ DOMAIN pending' = DOMAIN pending \ Orphaned(S)
      /\ \A k \in DOMAIN pending' : pending'[k] = pending[k]
      /\ UNCHANGED <<scenario, clock, swept, forwarded, asked>>
      /\ DOMAIN count' = S
      /\ \A r \in S : count'[r] = IF r \in Known THEN count[r] ELSE Zero
  BY DropType DEF UpdateResolvers
<1>3. \A k \in DOMAIN pending' : k.resolver \in S
  BY <1>2 DEF Orphaned
<1>4. Zero \in Counter /\ \A f \in Fields : Zero[f] = 0
  BY DEF Zero, Counter
<1>5. ASSUME NEW r \in S
      PROVE  count'[r] \in Counter /\ Balanced(count'[r], Cardinality(OpenAt(r)'))
  <2>1. CASE r \in Known
    <3>1. OpenAt(r)' = OpenAt(r)
      BY <1>2 DEF OpenAt, Orphaned
    <3> QED BY <1>1, <1>2, <2>1, <3>1, BalanceParts DEF TrackerOK
  <2>2. CASE r \notin Known
    <3>1. OpenAt(r)' = {}
      BY <1>1, <1>2, <2>2 DEF OpenAt, Owned
    <3>2. Cardinality(OpenAt(r)') = 0
      BY <3>1, FS_EmptySet
    <3> QED BY <1>2, <1>4, <2>2, <3>2 DEF Balanced, Fields
  <2> QED BY <2>1, <2>2
<1>6. Balance'
  BY <1>2, <1>5 DEF Balance, Balanced, OpenAt, Known
<1>7. TrackerOK'
  <2>1. \A k \in DOMAIN pending' : pending'[k] \in Record'
    BY <1>1, <1>2 DEF TrackerOK, Record, Times
  <2>2. /\ DOMAIN forwarded' \subseteq Marks
        /\ \A m \in DOMAIN forwarded' : forwarded'[m] \in Mark'
    BY <1>1, <1>2 DEF TrackerOK, Mark, Times
  <2> QED BY <1>1, <1>2, <1>5, <2>1, <2>2 DEF TrackerOK, Known, Counter
<1>8. Owned'
  <2>1. IsFiniteSet(DOMAIN pending \ Orphaned(S))
    BY <1>1, FS_Difference DEF Owned
  <2> QED BY <1>1, <1>2, <1>3, <2>1 DEF Owned, Known
<1>9. asked' \in Seq(Sent)' /\ Steady'
  BY <1>1, <1>2 DEF Sent, Times, Steady
<1> QED BY <1>1, <1>2, <1>6, <1>7, <1>8, <1>9, Together

LEMMA TickStep ==
  ASSUME IInv, UNCHANGED scenario, Tick
  PROVE  IInv'
<1>1. /\ TrackerOK /\ TypeOK /\ Steady /\ Owned /\ Balance /\ asked \in Seq(Sent)
      /\ scenario.time \in Nat /\ clock \in Nat /\ swept \in Nat
  BY Shapes, ScenarioType DEF IInv, Times
<1>2. /\ clock < scenario.time /\ clock - swept < SweepEvery /\ clock' = clock + 1
      /\ UNCHANGED <<scenario, swept, count, pending, forwarded, asked>>
  BY DEF Tick, tracker
<1>3. Steady'
  BY <1>1, <1>2, Bounds DEF Steady
<1>4. Owned' /\ Balance'
  BY <1>1, <1>2 DEF Owned, Balance, Known
<1>5. TrackerOK' /\ asked' \in Seq(Sent)' /\ clock' \in Times' /\ swept' \in Times'
  BY <1>1, <1>2, Shapes DEF TrackerOK, Known, Counter, Record, Mark, Sent, Times
<1>6. TypeOK'
  BY <1>2, <1>5, Shapes DEF IInv, TypeOK, TrackerOK, Counter, Record, Mark, Sent
<1> QED BY <1>3, <1>4, <1>6 DEF IInv

-----------------------------------------------------------------------------
(* The theorems.                                                           *)

LEMMA InitIInv == Init => IInv
<1> SUFFICES ASSUME Init PROVE IInv
  OBVIOUS
<1>1. /\ scenario \in Scenarios /\ scenario.resolvers \subseteq Resolver
      /\ scenario.time \in Nat /\ scenario.queries \in Nat
  BY ScenarioType DEF Init
<1>2. /\ Known = scenario.resolvers /\ DOMAIN pending = {} /\ DOMAIN forwarded = {}
      /\ \A r \in Known : count[r] = Zero
  BY DEF Init, Known
<1>3. Zero \in Counter /\ \A f \in Fields : Zero[f] = 0
  BY DEF Zero, Counter
<1>4. TrackerOK
  BY <1>1, <1>2, <1>3 DEF TrackerOK
<1>5. asked \in Seq(Sent) /\ Len(asked) = 0 /\ clock \in Times /\ swept \in Times
  BY <1>1 DEF Init, Times
<1>6. Owned
  BY <1>2, FS_EmptySet DEF Owned
<1>7. Balance
  <2>1. \A r : OpenAt(r) = {}
    BY <1>2 DEF OpenAt
  <2>2. \A r \in Known : Balanced(count[r], Cardinality(OpenAt(r)))
    <3>1. \A r : Cardinality(OpenAt(r)) = 0
      BY <2>1, FS_EmptySet
    <3>2. \A r \in Known, f \in Fields : count[r][f] = 0
      BY <1>2, <1>3
    <3> QED BY <3>1, <3>2 DEF Balanced, Fields
  <2> QED BY <2>2, BalanceParts
<1>8. Steady
  BY <1>1, <1>5, Bounds DEF Init, Steady
<1> QED BY <1>1, <1>4, <1>5, <1>6, <1>7, <1>8, Shapes DEF IInv

LEMMA NextIInv == IInv /\ [Next]_vars => IInv'
<1> SUFFICES ASSUME IInv, [Next]_vars PROVE IInv'
  OBVIOUS
<1>1. CASE UNCHANGED vars
  BY <1>1 DEF vars, tracker, IInv, TypeOK, Steady, Owned, Balance, Known, Times
<1>2. CASE Next
  <2>1. UNCHANGED scenario
    BY <1>2 DEF Next
  <2>2. ASSUME NEW k \in Keys, NEW q \in Question, RouterAsks(k, q) \/ ClientAsks(k, q)
        PROVE  IInv'
    BY <2>1, <2>2, RouterAsksStep, ClientAsksStep
  <2>3. ASSUME NEW i \in 1..Len(asked),
               Egress(i) \/ \E rcode \in RCodes : RecordResponse(i, rcode)
        PROVE  IInv'
    BY <2>1, <2>3, EgressStep, RecordResponseStep
  <2>4. CASE Sweep
    BY <2>1, <2>4, SweepStep
  <2>5. CASE \E S \in SUBSET scenario.resolvers : UpdateResolvers(S)
    BY <2>1, <2>5, UpdateResolversStep
  <2>6. CASE Tick
    BY <2>1, <2>6, TickStep
  <2> QED BY <1>2, <2>2, <2>3, <2>4, <2>5, <2>6 DEF Next
<1> QED BY <1>1, <1>2

LEMMA AlwaysIInv == Spec => []IInv
BY InitIInv, NextIInv, PTL DEF Spec

\* The maps of the tracker keep their shapes (plain_dns.go): a counter never
\* falls below zero, and a mark that is kept has something left.
THEOREM TypeCorrect == Spec => []TypeOK
<1>1. IInv => TypeOK
  BY DEF IInv
<1> QED BY <1>1, AlwaysIInv, PTL

\* No resolver ever shows more answers and timeouts than requests, counting
\* what is open (RecordQuery, RecordResponse, Sweep, UpdateResolvers).
THEOREM AlwaysBalanced == Spec => []Balance
<1>1. IInv => Balance
  BY DEF IInv
<1> QED BY <1>1, AlwaysIInv, PTL

\* No query stays open for its limit and a period of the ticker (Sweep), with
\* any limit and any period.
THEOREM AlwaysPrompt == Spec => []Prompt
<1>1. ASSUME IInv PROVE Prompt
  <2>1. /\ clock \in Nat /\ swept \in Nat /\ clock - swept <= SweepEvery
        /\ TrackerOK /\ Owned
    BY <1>1, Shapes, ScenarioType DEF IInv, Steady, Times
  <2>2. ASSUME NEW k \in DOMAIN pending
        PROVE  clock - pending[k].at < Timeout + SweepEvery
    <3>1. pending[k].at \in Nat /\ swept - pending[k].at < Timeout
      BY <2>1 DEF TrackerOK, Record, Times, Owned
    <3> QED BY <2>1, <3>1, Bounds
  <2> QED BY <2>2 DEF Prompt
<1> QED BY <1>1, AlwaysIInv, PTL

-----------------------------------------------------------------------------
(* Whose queries are counted.                                              *)

\* Every frame is captured, once, and the resolvers stay.
Quiet == ~(scenario.twice \/ scenario.loss \/ scenario.churn)

\* The clients' queries of mark m that may still go out, how many frames the
\* mark is good for, the router's own queries to r and those of U that go to r.
InTransit(m) == {i \in 1..Len(asked) :
                  /\ asked[i].from = "client" /\ asked[i].frames = 0
                  /\ MarkOf(asked[i].key, asked[i].question) = m
                  /\ clock - asked[i].at <= Transit}
Left(m)      == IF m \in DOMAIN forwarded THEN forwarded[m].left ELSE 0
Own(r)       == {i \in 1..Len(asked) : asked[i].from = "router" /\ asked[i].key.resolver = r}
To(U, r)     == {i \in U : asked[i].key.resolver = r}

\* A query of the router may use up the mark of a client's and go uncounted;
\* the client's is then counted in its place.  U are the clients' queries that
\* may be: all others have a mark, and so many of the router's are not counted.
Covers(U) ==
  /\ \A m \in Marks : Cardinality(InTransit(m) \ U) <= Left(m)
  /\ \A r \in Known : count[r].requests + Cardinality(To(U, r)) <= Cardinality(Own(r))

\* A mark is as young as the youngest query that set it.
Fresh == \A m \in DOMAIN forwarded : \A i \in InTransit(m) : asked[i].at <= forwarded[m].at

Sane == \A i \in 1..Len(asked) :
          /\ asked[i].at <= clock /\ asked[i].key.resolver \in Known
          /\ asked[i].from = "router" => asked[i].frames > 0

Attributed ==
  Quiet => /\ Known = scenario.resolvers /\ Sane /\ Fresh
           /\ \E U \in SUBSET (1..Len(asked)) : Covers(U)

OwnInv == IInv /\ Attributed

LEMMA SentTypes ==
  ASSUME IInv
  PROVE  /\ Len(asked) \in Nat /\ clock \in Nat /\ asked \in Seq(Sent) /\ TrackerOK
         /\ \A i \in 1..Len(asked) :
              /\ asked[i] \in Sent /\ asked[i].key \in Keys /\ asked[i].question \in Question
              /\ asked[i].at \in Nat /\ asked[i].frames \in 0..2
              /\ asked[i].from \in {"router", "client"}
              /\ MarkOf(asked[i].key, asked[i].question) \in Marks
         /\ \A m \in DOMAIN forwarded : /\ m \in Marks /\ forwarded[m].left \in Nat \ {0}
                                        /\ forwarded[m].at \in Nat
         /\ \A r \in Known : count[r].requests \in Nat
<1>1. Len(asked) \in Nat /\ clock \in Nat /\ asked \in Seq(Sent) /\ TrackerOK
      /\ scenario.time \in Nat
  BY Shapes, ScenarioType DEF IInv, Times
<1>2. ASSUME NEW i \in 1..Len(asked)
      PROVE  /\ asked[i] \in Sent /\ asked[i].key \in Keys /\ asked[i].question \in Question
             /\ asked[i].at \in Nat /\ asked[i].frames \in 0..2
             /\ asked[i].from \in {"router", "client"}
             /\ MarkOf(asked[i].key, asked[i].question) \in Marks
  <2>1. asked[i] \in Sent BY <1>1
  <2>2. /\ asked[i].key \in Keys /\ asked[i].question \in Question
        /\ asked[i].at \in Nat /\ asked[i].frames \in 0..2
        /\ asked[i].from \in {"router", "client"}
    BY <1>1, <2>1 DEF Sent, Times
  <2> QED BY <2>1, <2>2, MarkType
<1>3. \A m \in DOMAIN forwarded : /\ m \in Marks /\ forwarded[m].left \in Nat \ {0}
                                  /\ forwarded[m].at \in Nat
  BY <1>1 DEF TrackerOK, Mark, Times
<1>4. \A r \in Known : count[r].requests \in Nat
  BY <1>1 DEF TrackerOK, Counter, Fields
<1> QED BY <1>1, <1>2, <1>3, <1>4

LEMMA FiniteTypes ==
  ASSUME IInv, NEW U \in SUBSET (1..Len(asked))
  PROVE  /\ IsFiniteSet(U) /\ Cardinality(U) \in Nat
         /\ \A m : /\ IsFiniteSet(InTransit(m) \ U) /\ Cardinality(InTransit(m) \ U) \in Nat
         /\ \A r : /\ IsFiniteSet(Own(r)) /\ Cardinality(Own(r)) \in Nat
                   /\ IsFiniteSet(To(U, r)) /\ Cardinality(To(U, r)) \in Nat
<1>1. Len(asked) \in Nat BY SentTypes
<1>2. IsFiniteSet(1..Len(asked)) BY <1>1, FS_Interval
<1>3. ASSUME NEW S, S \subseteq 1..Len(asked) PROVE IsFiniteSet(S) /\ Cardinality(S) \in Nat
  <2>1. S \in SUBSET (1..Len(asked)) BY <1>3
  <2> QED BY <1>2, <2>1, FS_Subset, FS_CardinalityType
<1>4. /\ \A m : InTransit(m) \ U \subseteq 1..Len(asked)
      /\ \A r : Own(r) \subseteq 1..Len(asked) /\ To(U, r) \subseteq 1..Len(asked)
  BY DEF InTransit, Own, To
<1> QED BY <1>3, <1>4

LEMMA Fewer ==
  ASSUME NEW S, IsFiniteSet(S), NEW T \in SUBSET S
  PROVE  Cardinality(T) <= Cardinality(S)
BY FS_Subset

\* A mark that is used is good for one frame less.
LEMMA SpentLeft ==
  ASSUME IInv, NEW m \in DOMAIN forwarded, forwarded' = Spent(m)
  PROVE  /\ Left(m) \in Nat \ {0} /\ Left(m)' = Left(m) - 1
         /\ \A x : x # m => Left(x)' = Left(x)
         /\ DOMAIN forwarded' \subseteq DOMAIN forwarded
         /\ \A x \in DOMAIN forwarded' : forwarded'[x].at = forwarded[x].at
<1>1. forwarded[m] \in Mark /\ forwarded[m].left \in Nat \ {0}
  BY SentTypes DEF TrackerOK
<1>2. CASE forwarded[m].left = 1
  <2>1. forwarded' = [x \in DOMAIN forwarded \ {m} |-> forwarded[x]]
    BY <1>2 DEF Spent, Drop
  <2> QED BY <1>1, <1>2, <2>1 DEF Left
<1>3. CASE forwarded[m].left # 1
  <2>1. forwarded' = [forwarded EXCEPT ![m].left = @ - 1] BY <1>3 DEF Spent
  <2>2. /\ DOMAIN forwarded' = DOMAIN forwarded
        /\ \A x \in DOMAIN forwarded \ {m} : forwarded'[x] = forwarded[x]
    BY <2>1
  <2>3. forwarded'[m] = [forwarded[m] EXCEPT !.left = @ - 1] BY <2>1
  <2>4. forwarded'[m].left = forwarded[m].left - 1 /\ forwarded'[m].at = forwarded[m].at
    BY <1>1, <2>3 DEF Mark
  <2> QED BY <1>1, <2>2, <2>4 DEF Left
<1> QED BY <1>2, <1>3

\* One more query.
LEMMA Asked ==
  ASSUME IInv, NEW from, NEW k, NEW q, NEW frames, Ask(from, k, q, frames), clock' = clock
  PROVE  LET j == Len(asked) + 1
         IN /\ Len(asked') = j /\ Len(asked) \in Nat
            /\ asked'[j] = [from |-> from, key |-> k, question |-> q, at |-> clock,
                            frames |-> frames, replies |-> 0]
            /\ \A i \in 1..Len(asked) : asked'[i] = asked[i]
            /\ \A m : InTransit(m)' = InTransit(m) \union
                 IF from = "client" /\ frames = 0 /\ MarkOf(k, q) = m THEN {j} ELSE {}
            /\ \A r : Own(r)' = Own(r) \union
                 IF from = "router" /\ k.resolver = r THEN {j} ELSE {}
            /\ \A U \in SUBSET (1..Len(asked)) : \A r : To(U, r)' = To(U, r)
<1> DEFINE j == Len(asked) + 1
           a == [from |-> from, key |-> k, question |-> q, at |-> clock,
                 frames |-> frames, replies |-> 0]
<1>1. /\ Len(asked') = j /\ Len(asked) \in Nat /\ asked'[j] = a
      /\ \A i \in 1..Len(asked) : asked'[i] = asked[i]
  BY SentTypes DEF Ask
<1>2. /\ a.from = from /\ a.key = k /\ a.question = q /\ a.at = clock /\ a.frames = frames
      /\ clock - clock <= Transit
  BY SentTypes, PlainAssumption
<1>3. 1..Len(asked') = (1..Len(asked)) \union {j} /\ j \notin 1..Len(asked) BY <1>1
<1> HIDE DEF a, j
<1>4. ASSUME NEW m
      PROVE  InTransit(m)' = InTransit(m) \union
               IF from = "client" /\ frames = 0 /\ MarkOf(k, q) = m THEN {j} ELSE {}
  <2>1. InTransit(m)' = {i \in 1..Len(asked') :
                  /\ asked'[i].from = "client" /\ asked'[i].frames = 0
                  /\ MarkOf(asked'[i].key, asked'[i].question) = m
                  /\ clock - asked'[i].at <= Transit}
    BY DEF InTransit, MarkOf
  <2> QED BY <1>1, <1>2, <1>3, <2>1 DEF InTransit
<1>5. ASSUME NEW r
      PROVE  Own(r)' = Own(r) \union IF from = "router" /\ k.resolver = r THEN {j} ELSE {}
  BY <1>1, <1>2, <1>3 DEF Own
<1>6. \A U \in SUBSET (1..Len(asked)) : \A r : To(U, r)' = To(U, r)
  BY <1>1 DEF To
<1> QED BY <1>1, <1>4, <1>5, <1>6 DEF j, a

\* A query touched, with a frame or a reply more.
LEMMA Touched ==
  ASSUME IInv, NEW i \in 1..Len(asked), NEW a, asked' = [asked EXCEPT ![i] = a],
         a.from = asked[i].from, a.key = asked[i].key, a.at = asked[i].at,
         a.question = asked[i].question, clock' = clock
  PROVE  /\ Len(asked') = Len(asked) /\ asked'[i] = a
         /\ \A x \in 1..Len(asked) : /\ asked'[x].from = asked[x].from
                                     /\ asked'[x].key = asked[x].key
                                     /\ asked'[x].at = asked[x].at
                                     /\ asked'[x].question = asked[x].question
                                     /\ x # i => asked'[x] = asked[x]
         /\ \A r : Own(r)' = Own(r)
         /\ \A U \in SUBSET (1..Len(asked)) : \A r : To(U, r)' = To(U, r)
         /\ \A m : InTransit(m)' = {x \in InTransit(m) : x # i} \union
              {x \in {i} : /\ a.from = "client" /\ a.frames = 0
                           /\ MarkOf(a.key, a.question) = m /\ clock - a.at <= Transit}
<1>1. /\ Len(asked') = Len(asked) /\ asked'[i] = a
      /\ \A x \in 1..Len(asked) : x # i => asked'[x] = asked[x]
  BY SentTypes
<1>2. \A x \in 1..Len(asked) : /\ asked'[x].from = asked[x].from
                               /\ asked'[x].key = asked[x].key
                               /\ asked'[x].at = asked[x].at
                               /\ asked'[x].question = asked[x].question
  BY <1>1
<1>3. \A r : Own(r)' = Own(r) BY <1>1, <1>2 DEF Own
<1>4. \A U \in SUBSET (1..Len(asked)) : \A r : To(U, r)' = To(U, r) BY <1>2 DEF To
<1>5. ASSUME NEW m
      PROVE  InTransit(m)' = {x \in InTransit(m) : x # i} \union
               {x \in {i} : /\ a.from = "client" /\ a.frames = 0
                            /\ MarkOf(a.key, a.question) = m /\ clock - a.at <= Transit}
  <2>1. InTransit(m)' = {x \in 1..Len(asked') :
                  /\ asked'[x].from = "client" /\ asked'[x].frames = 0
                  /\ MarkOf(asked'[x].key, asked'[x].question) = m
                  /\ clock - asked'[x].at <= Transit}
    BY DEF InTransit, MarkOf
  <2> QED BY <1>1, <2>1 DEF InTransit
<1> QED BY <1>1, <1>2, <1>3, <1>4, <1>5

\* The frame of a known resolver that leaves the router.
LEMMA Outcome ==
  ASSUME IInv, NEW i, NEW k, NEW q, RecordQuery(i, k, q), k.resolver \in Known
  PROVE  /\ Known' = Known
         /\ \/ /\ MarkOf(k, q) \in DOMAIN forwarded /\ forwarded' = Spent(MarkOf(k, q))
               /\ UNCHANGED count
            \/ /\ ~Suppressed(MarkOf(k, q)) /\ UNCHANGED forwarded
               /\ \A r \in Known : count'[r].requests
                    <= count[r].requests + IF r = k.resolver THEN 1 ELSE 0
               /\ \A r \in Known : count'[r].requests \in Nat
<1>1. count[k.resolver] \in Counter /\ \A r \in Known : count[r].requests \in Nat
  BY SentTypes DEF TrackerOK
<1>2. CASE count' = [count EXCEPT ![k.resolver] = Bump(@, {"requests"})]
  <2>1. Bump(count[k.resolver], {"requests"})["requests"] = count[k.resolver]["requests"] + 1
    BY <1>1, BumpType DEF Fields
  <2>2. DOMAIN count' = Known BY <1>2 DEF Known
  <2>3. ASSUME NEW r \in Known
        PROVE  count'[r].requests = count[r].requests + IF r = k.resolver THEN 1 ELSE 0
    <3>1. CASE r = k.resolver
      <4>1. count'[r] = Bump(count[k.resolver], {"requests"}) BY <1>2, <3>1 DEF Known
      <4> QED BY <2>1, <3>1, <4>1
    <3>2. CASE r # k.resolver
      <4>1. count'[r] = count[r] BY <1>2, <3>2 DEF Known
      <4> QED BY <1>1, <3>2, <4>1
    <3> QED BY <3>1, <3>2
  <2>4. \A r \in Known : count'[r].requests \in Nat
    <3>1. ASSUME NEW r \in Known PROVE count'[r].requests \in Nat
      <4>1. CASE r = k.resolver BY <1>1, <2>3, <4>1
      <4>2. CASE r # k.resolver BY <1>1, <2>3, <4>2
      <4> QED BY <4>1, <4>2
    <3> QED BY <3>1
  <2>5. \A r \in Known : count'[r].requests
                <= count[r].requests + IF r = k.resolver THEN 1 ELSE 0
    BY <2>3, <2>4
  <2>6. Known' = Known BY <2>2 DEF Known
  <2>7. count' # count
    BY <1>1, <2>3
  <2> QED BY <1>2, <2>4, <2>5, <2>6, <2>7 DEF RecordQuery, tracker
<1>3. CASE count' = count
  <2>1. Known' = Known BY <1>3 DEF Known
  <2>2. \A r \in Known : count'[r].requests
                <= count[r].requests + IF r = k.resolver THEN 1 ELSE 0
    <3>1. ASSUME NEW r \in Known
          PROVE  count[r].requests <= count[r].requests + IF r = k.resolver THEN 1 ELSE 0
      BY <1>1
    <3> QED BY <1>3, <3>1
  <2> QED BY <1>1, <1>3, <2>1, <2>2 DEF RecordQuery, tracker, Suppressed
<1> QED BY <1>2, <1>3 DEF RecordQuery, tracker

\* One frame less for a mark: one more of its queries may be without.
LEMMA Repay ==
  ASSUME IInv, NEW U \in SUBSET (1..Len(asked)), Covers(U), NEW m \in Marks, Left(m) >= 1,
         Left(m) \in Nat
  PROVE  \E V \in SUBSET (1..Len(asked)) :
           /\ U \subseteq V
           /\ Cardinality(InTransit(m) \ V) <= Left(m) - 1
           /\ \A x \in Marks \ {m} : Cardinality(InTransit(x) \ V) <= Left(x)
           /\ \A r : r # m.resolver => Cardinality(To(V, r)) = Cardinality(To(U, r))
           /\ Cardinality(To(V, m.resolver)) <= Cardinality(To(U, m.resolver)) + 1
<1>1. CASE InTransit(m) \ U = {}
  <2>1. Cardinality(InTransit(m) \ U) = 0 BY <1>1, FS_EmptySet
  <2>2. Cardinality(To(U, m.resolver)) \in Nat BY FiniteTypes
  <2>3. Cardinality(InTransit(m) \ U) <= Left(m) - 1 BY <2>1
  <2>4. \A x \in Marks : Cardinality(InTransit(x) \ U) <= Left(x) BY DEF Covers
  <2>5. Cardinality(To(U, m.resolver)) <= Cardinality(To(U, m.resolver)) + 1 BY <2>2
  <2> QED BY <2>3, <2>4, <2>5
<1>2. CASE InTransit(m) \ U # {}
  <2>1. PICK i : i \in InTransit(m) \ U BY <1>2
  <2> DEFINE V == U \union {i}
  <2>2. i \in 1..Len(asked) /\ asked[i].key.resolver = m.resolver
    BY <2>1 DEF InTransit, MarkOf
  <2>3. V \in SUBSET (1..Len(asked)) /\ U \subseteq V BY <2>2
  <2>4. Cardinality(InTransit(m) \ V) <= Left(m) - 1
    <3>1. InTransit(m) \ V = (InTransit(m) \ U) \ {i} OBVIOUS
    <3>2. Cardinality((InTransit(m) \ U) \ {i}) = Cardinality(InTransit(m) \ U) - 1
      BY <2>1, FiniteTypes, FS_RemoveElement
    <3>3. Cardinality(InTransit(m) \ U) \in Nat /\ Cardinality(InTransit(m) \ U) <= Left(m)
      BY FiniteTypes DEF Covers
    <3>4. Cardinality(InTransit(m) \ V) = Cardinality(InTransit(m) \ U) - 1
      BY ONLY <3>1, <3>2
    <3> QED BY ONLY <3>3, <3>4, Left(m) \in Nat
  <2>5. ASSUME NEW x \in Marks PROVE Cardinality(InTransit(x) \ V) <= Left(x)
    <3>1. InTransit(x) \ V \in SUBSET (InTransit(x) \ U) OBVIOUS
    <3>2. Cardinality(InTransit(x) \ V) <= Cardinality(InTransit(x) \ U)
      BY <3>1, FiniteTypes, Fewer
    <3>3. Cardinality(InTransit(x) \ U) <= Left(x) BY DEF Covers
    <3>4. Cardinality(InTransit(x) \ V) \in Nat /\ Cardinality(InTransit(x) \ U) \in Nat
      BY <2>3, FiniteTypes
    <3>5. Left(x) \in Nat BY SentTypes DEF Left
    <3> HIDE DEF V
    <3> QED BY <3>2, <3>3, <3>4, <3>5
  <2>6. ASSUME NEW r, r # m.resolver PROVE To(V, r) = To(U, r)
    BY <2>2, <2>6 DEF To
  <2>7. To(V, m.resolver) = To(U, m.resolver) \union {i} BY <2>2 DEF To
  <2>8. Cardinality(To(V, m.resolver)) <= Cardinality(To(U, m.resolver)) + 1
    BY <2>7, FiniteTypes, AddOne
  <2> HIDE DEF V
  <2> QED BY <2>3, <2>4, <2>5, <2>6, <2>8
<1> QED BY <1>1, <1>2

\* The next state keeps the invariant if it keeps its parts.
LEMMA Attribute ==
  ASSUME IInv', Quiet, Attributed, UNCHANGED scenario, Known' = Known, Sane', Fresh',
         NEW V \in SUBSET (1..Len(asked')), Covers(V)'
  PROVE  OwnInv'
BY DEF OwnInv, Attributed, Quiet

LEMMA QuietParts ==
  ASSUME OwnInv, Quiet
  PROVE  /\ IInv /\ Known = scenario.resolvers /\ Sane /\ Fresh
         /\ \E U \in SUBSET (1..Len(asked)) : Covers(U)
BY DEF OwnInv, Attributed

LEMMA RouterAsksOwn ==
  ASSUME OwnInv, Quiet, IInv', UNCHANGED scenario, NEW k \in Keys, NEW q \in Question,
         k.resolver \in scenario.resolvers, RouterAsks(k, q)
  PROVE  OwnInv'
<1> DEFINE j == Len(asked) + 1
           m == MarkOf(k, q)
<1>1. /\ IInv /\ Known = scenario.resolvers /\ Sane /\ Fresh
      /\ \E U \in SUBSET (1..Len(asked)) : Covers(U)
  BY QuietParts
<1>2. /\ Ask("router", k, q, 1) /\ clock' = clock /\ RecordQuery(j, k, q)
      /\ k.resolver \in Known /\ m \in Marks /\ m.resolver = k.resolver
  BY <1>1, MarkType DEF RouterAsks, Quiet, MarkOf
<1>3. /\ Len(asked') = j /\ Len(asked) \in Nat
      /\ asked'[j] = [from |-> "router", key |-> k, question |-> q, at |-> clock,
                      frames |-> 1, replies |-> 0]
      /\ \A i \in 1..Len(asked) : asked'[i] = asked[i]
      /\ \A x : InTransit(x)' = InTransit(x)
      /\ \A r : Own(r)' = Own(r) \union IF k.resolver = r THEN {j} ELSE {}
      /\ \A U \in SUBSET (1..Len(asked)) : \A r : To(U, r)' = To(U, r)
  <2>0. IInv /\ Ask("router", k, q, 1) /\ clock' = clock BY <1>1, <1>2
  <2>1. /\ Len(asked') = j /\ Len(asked) \in Nat
        /\ asked'[j] = [from |-> "router", key |-> k, question |-> q, at |-> clock,
                        frames |-> 1, replies |-> 0]
        /\ \A i \in 1..Len(asked) : asked'[i] = asked[i]
        /\ \A x : InTransit(x)' = InTransit(x) \union
             IF "router" = "client" /\ 1 = 0 /\ MarkOf(k, q) = x THEN {j} ELSE {}
        /\ \A r : Own(r)' = Own(r) \union
             IF "router" = "router" /\ k.resolver = r THEN {j} ELSE {}
        /\ \A U \in SUBSET (1..Len(asked)) : \A r : To(U, r)' = To(U, r)
    BY <2>0, Asked
  <2> HIDE DEF j
  <2> QED BY <2>1
<1>4. 1..Len(asked') = (1..Len(asked)) \union {j} /\ j \notin 1..Len(asked) BY <1>3
<1> HIDE DEF j, m
<1>5. Known' = Known BY <1>1, <1>2, Outcome
<1>6. Sane'
  <2> SUFFICES ASSUME NEW i \in 1..Len(asked')
               PROVE  /\ asked'[i].at <= clock' /\ asked'[i].key.resolver \in Known'
                      /\ asked'[i].from = "router" => asked'[i].frames > 0
    BY DEF Sane
  <2>1. CASE i = j
    <3>1. /\ asked'[i].at = clock /\ asked'[i].key = k /\ asked'[i].frames = 1
          /\ clock \in Nat
      BY <1>1, <1>3, <2>1, SentTypes
    <3> QED BY <1>2, <1>5, <3>1
  <2>2. CASE i \in 1..Len(asked) BY <1>1, <1>2, <1>3, <1>5, <2>2 DEF Sane
  <2> QED BY <1>4, <2>1, <2>2
<1>7. \A r : /\ Cardinality(Own(r)) \in Nat
             /\ Cardinality(Own(r)') = Cardinality(Own(r)) + IF r = k.resolver THEN 1 ELSE 0
  <2> SUFFICES ASSUME NEW r
               PROVE  /\ Cardinality(Own(r)) \in Nat
                      /\ Cardinality(Own(r)')
                           = Cardinality(Own(r)) + IF r = k.resolver THEN 1 ELSE 0
    OBVIOUS
  <2>1. IsFiniteSet(Own(r)) /\ Cardinality(Own(r)) \in Nat /\ j \notin Own(r)
    BY <1>1, <1>4, FiniteTypes DEF Own
  <2>2. CASE r = k.resolver
    <3>1. Own(r)' = Own(r) \union {j} BY <1>3, <2>2
    <3>2. Cardinality(Own(r)') = Cardinality(Own(r)) + 1 BY <2>1, <3>1, FS_AddElement
    <3> QED BY <2>1, <2>2, <3>2
  <2>3. CASE r # k.resolver
    <3>1. Own(r)' = Own(r) BY <1>3, <2>3
    <3> QED BY <2>1, <2>3, <3>1
  <2> QED BY <2>2, <2>3
<1>8. PICK U \in SUBSET (1..Len(asked)) : Covers(U) BY <1>1
<1>9. \A r \in Known : count[r].requests \in Nat BY <1>1, SentTypes
<1>10. CASE /\ m \in DOMAIN forwarded /\ forwarded' = Spent(m) /\ UNCHANGED count
  <2>1. /\ Left(m) \in Nat \ {0} /\ Left(m)' = Left(m) - 1
        /\ \A x : x # m => Left(x)' = Left(x)
        /\ DOMAIN forwarded' \subseteq DOMAIN forwarded
        /\ \A x \in DOMAIN forwarded' : forwarded'[x].at = forwarded[x].at
    BY <1>1, <1>10, SpentLeft
  <2>2. Fresh'
    <3>1. \A x \in DOMAIN forwarded' : \A i \in InTransit(x) :
            asked'[i].at <= forwarded'[x].at
      BY <1>1, <1>3, <2>1 DEF Fresh, InTransit
    <3> QED BY <1>3, <3>1 DEF Fresh
  <2>3. PICK V \in SUBSET (1..Len(asked)) :
          /\ Cardinality(InTransit(m) \ V) <= Left(m) - 1
          /\ \A x \in Marks \ {m} : Cardinality(InTransit(x) \ V) <= Left(x)
          /\ \A r : r # m.resolver => Cardinality(To(V, r)) = Cardinality(To(U, r))
          /\ Cardinality(To(V, m.resolver)) <= Cardinality(To(U, m.resolver)) + 1
    <3>1. m \in Marks /\ Left(m) >= 1 /\ Left(m) \in Nat BY <1>2, <2>1
    <3> QED BY ONLY <1>1, <1>8, <3>1, Repay
  <2>4. \A x \in Marks : Cardinality((InTransit(x) \ V)') <= Left(x)'
    <3>1. \A x : (InTransit(x) \ V)' = InTransit(x) \ V BY <1>3
    <3> QED BY <2>1, <2>3, <3>1
  <2>5. ASSUME NEW r \in Known
        PROVE  count'[r].requests + Cardinality(To(V, r)') <= Cardinality(Own(r)')
    <3>1. /\ count[r].requests + Cardinality(To(U, r)) <= Cardinality(Own(r))
          /\ Cardinality(To(U, r)) \in Nat /\ Cardinality(To(V, r)) \in Nat
          /\ To(V, r)' = To(V, r) /\ count'[r].requests = count[r].requests
      BY <1>1, <1>3, <1>8, <1>10, FiniteTypes DEF Covers
    <3>2. CASE r = k.resolver
      <4>1. Cardinality(To(V, r)) <= Cardinality(To(U, r)) + 1 BY <1>2, <2>3, <3>2
      <4>2. Cardinality(Own(r)') = Cardinality(Own(r)) + 1 BY <1>7, <3>2
      <4>3. Cardinality(Own(r)) \in Nat BY <1>7
      <4> QED BY <1>9, <3>1, <4>1, <4>2, <4>3
    <3>3. CASE r # k.resolver
      <4>1. Cardinality(To(V, r)) = Cardinality(To(U, r)) BY <1>2, <2>3, <3>3
      <4>2. Cardinality(Own(r)') = Cardinality(Own(r)) + 0 BY <1>7, <3>3
      <4>3. Cardinality(Own(r)) \in Nat BY <1>7
      <4> QED BY <1>9, <3>1, <4>1, <4>2, <4>3
    <3> QED BY <3>2, <3>3
  <2>6. Covers(V)' BY <1>5, <2>4, <2>5 DEF Covers
  <2>7. V \in SUBSET (1..Len(asked')) BY <1>4
  <2> QED BY <1>5, <1>6, <2>2, <2>6, <2>7, Attribute DEF OwnInv
<1>11. CASE /\ UNCHANGED forwarded
            /\ \A r \in Known : count'[r].requests
                 <= count[r].requests + IF r = k.resolver THEN 1 ELSE 0
            /\ \A r \in Known : count'[r].requests \in Nat
  <2>1. \A x : Left(x)' = Left(x) BY <1>11 DEF Left
  <2>2. Fresh'
    <3>1. \A x \in DOMAIN forwarded : \A i \in InTransit(x) : asked'[i].at <= forwarded[x].at
      BY <1>1, <1>3 DEF Fresh, InTransit
    <3> QED BY <1>3, <1>11, <3>1 DEF Fresh
  <2>3. \A x \in Marks : Cardinality((InTransit(x) \ U)') <= Left(x)'
    <3>1. \A x : (InTransit(x) \ U)' = InTransit(x) \ U BY <1>3
    <3> QED BY <1>8, <2>1, <3>1 DEF Covers
  <2>4. ASSUME NEW r \in Known
        PROVE  count'[r].requests + Cardinality(To(U, r)') <= Cardinality(Own(r)')
    <3>1. /\ count[r].requests + Cardinality(To(U, r)) <= Cardinality(Own(r))
          /\ Cardinality(To(U, r)) \in Nat /\ To(U, r)' = To(U, r)
          /\ Cardinality(Own(r)) \in Nat /\ count'[r].requests \in Nat
      BY <1>1, <1>3, <1>8, <1>11, FiniteTypes DEF Covers
    <3>2. CASE r = k.resolver
      <4>1. count'[r].requests <= count[r].requests + 1 BY <1>11, <3>2
      <4>2. Cardinality(Own(r)') = Cardinality(Own(r)) + 1 BY <1>7, <3>2
      <4> QED BY <1>9, <3>1, <4>1, <4>2
    <3>3. CASE r # k.resolver
      <4>1. count'[r].requests <= count[r].requests + 0 BY <1>11, <3>3
      <4>2. Cardinality(Own(r)') = Cardinality(Own(r)) + 0 BY <1>7, <3>3
      <4> QED BY <1>9, <3>1, <4>1, <4>2
    <3> QED BY <3>2, <3>3
  <2>5. Covers(U)' BY <1>5, <2>3, <2>4 DEF Covers
  <2>6. U \in SUBSET (1..Len(asked')) BY <1>4
  <2> QED BY <1>5, <1>6, <2>2, <2>5, <2>6, Attribute DEF OwnInv
<1> QED BY <1>1, <1>2, <1>10, <1>11, Outcome DEF m

LEMMA ClientAsksOwn ==
  ASSUME OwnInv, Quiet, IInv', UNCHANGED scenario, NEW k \in Keys, NEW q \in Question,
         k.resolver \in scenario.resolvers, ClientAsks(k, q)
  PROVE  OwnInv'
<1> DEFINE j == Len(asked) + 1
           m == MarkOf(k, q)
<1>1. /\ IInv /\ Known = scenario.resolvers /\ Sane /\ Fresh
      /\ \E U \in SUBSET (1..Len(asked)) : Covers(U)
  BY QuietParts
<1>2. /\ Ask("client", k, q, 0) /\ clock' = clock /\ forwarded' = Marked(m)
      /\ UNCHANGED count /\ k.resolver \in Known /\ m \in Marks
  BY <1>1, MarkType DEF ClientAsks, Quiet
<1>3. /\ Len(asked') = j /\ Len(asked) \in Nat
      /\ asked'[j] = [from |-> "client", key |-> k, question |-> q, at |-> clock,
                      frames |-> 0, replies |-> 0]
      /\ \A i \in 1..Len(asked) : asked'[i] = asked[i]
      /\ \A x : InTransit(x)' = InTransit(x) \union IF m = x THEN {j} ELSE {}
      /\ \A r : Own(r)' = Own(r)
      /\ \A U \in SUBSET (1..Len(asked)) : \A r : To(U, r)' = To(U, r)
  <2>0. IInv /\ Ask("client", k, q, 0) /\ clock' = clock BY <1>1, <1>2
  <2>1. /\ Len(asked') = j /\ Len(asked) \in Nat
        /\ asked'[j] = [from |-> "client", key |-> k, question |-> q, at |-> clock,
                        frames |-> 0, replies |-> 0]
        /\ \A i \in 1..Len(asked) : asked'[i] = asked[i]
        /\ \A x : InTransit(x)' = InTransit(x) \union
             IF "client" = "client" /\ 0 = 0 /\ MarkOf(k, q) = x THEN {j} ELSE {}
        /\ \A r : Own(r)' = Own(r) \union
             IF "client" = "router" /\ k.resolver = r THEN {j} ELSE {}
        /\ \A U \in SUBSET (1..Len(asked)) : \A r : To(U, r)' = To(U, r)
    BY <2>0, Asked
  <2> HIDE DEF j
  <2> QED BY <2>1
<1>4. 1..Len(asked') = (1..Len(asked)) \union {j} /\ j \notin 1..Len(asked) BY <1>3
<1> HIDE DEF j, m
<1>5. Known' = Known BY <1>2 DEF Known
<1>6. clock \in Nat BY <1>1, SentTypes
<1>7. Sane'
  <2> SUFFICES ASSUME NEW i \in 1..Len(asked')
               PROVE  /\ asked'[i].at <= clock' /\ asked'[i].key.resolver \in Known'
                      /\ asked'[i].from = "router" => asked'[i].frames > 0
    BY DEF Sane
  <2>1. CASE i = j
    <3>1. /\ asked'[i].at = clock /\ asked'[i].key = k /\ asked'[i].from = "client"
      BY <1>3, <2>1
    <3> QED BY <1>2, <1>5, <1>6, <3>1
  <2>2. CASE i \in 1..Len(asked) BY <1>1, <1>2, <1>3, <1>5, <2>2 DEF Sane
  <2> QED BY <1>4, <2>1, <2>2
<1>8. /\ DOMAIN forwarded' = DOMAIN forwarded \union {m}
      /\ forwarded'[m].at = clock /\ Left(m)' = Left(m) + 1 /\ Left(m) \in Nat
      /\ \A x \in DOMAIN forwarded \ {m} : forwarded'[x] = forwarded[x]
      /\ \A x : x # m => Left(x)' = Left(x)
  <2>1. forwarded' = Put(forwarded, m, [at |-> clock, left |-> 1 + Left(m)])
    BY <1>2 DEF Marked, Left
  <2>2. Left(m) \in Nat BY <1>1, SentTypes DEF Left
  <2>3. /\ DOMAIN forwarded' = DOMAIN forwarded \union {m}
        /\ forwarded'[m].at = clock /\ forwarded'[m].left = 1 + Left(m)
        /\ \A x \in DOMAIN forwarded \ {m} : forwarded'[x] = forwarded[x]
    BY <2>1 DEF Put
  <2> QED BY <2>2, <2>3 DEF Left
<1>9. Fresh'
  <2> SUFFICES ASSUME NEW x \in DOMAIN forwarded', NEW i \in InTransit(x)'
               PROVE  asked'[i].at <= forwarded'[x].at
    BY DEF Fresh
  <2>1. CASE i = j
    <3>1. x = m
      <4>1. i \notin InTransit(x) BY <1>4, <2>1 DEF InTransit
      <4> QED BY <1>3, <4>1
    <3> QED BY <1>3, <1>6, <1>8, <2>1, <3>1
  <2>2. CASE i # j
    <3>1. i \in InTransit(x) /\ i \in 1..Len(asked)
      <4>1. i \in InTransit(x) BY <1>3, <2>2
      <4> QED BY <4>1 DEF InTransit
    <3>2. asked'[i] = asked[i] /\ asked[i].at <= clock BY <1>1, <1>3, <3>1 DEF Sane
    <3>3. CASE x = m BY <1>8, <3>2, <3>3
    <3>4. CASE x # m BY <1>1, <1>8, <3>1, <3>2, <3>4 DEF Fresh
    <3> QED BY <3>3, <3>4
  <2> QED BY <2>1, <2>2
<1>10. PICK U \in SUBSET (1..Len(asked)) : Covers(U) BY <1>1
<1>11. \A x \in Marks : Cardinality((InTransit(x) \ U)') <= Left(x)'
  <2> SUFFICES ASSUME NEW x \in Marks PROVE Cardinality((InTransit(x) \ U)') <= Left(x)'
    OBVIOUS
  <2>1. /\ IsFiniteSet(InTransit(x) \ U) /\ Cardinality(InTransit(x) \ U) \in Nat
        /\ Cardinality(InTransit(x) \ U) <= Left(x)
    BY <1>1, <1>10, FiniteTypes DEF Covers
  <2>2. CASE x = m
    <3>1. (InTransit(x) \ U)' = (InTransit(x) \ U) \union {j} BY <1>3, <1>4, <2>2
    <3>2. /\ Cardinality((InTransit(x) \ U)') <= Cardinality(InTransit(x) \ U) + 1
          /\ Cardinality((InTransit(x) \ U)') \in Nat
      BY <2>1, <3>1, AddOne
    <3>3. Left(x)' = Left(x) + 1 /\ Left(x) \in Nat BY <1>8, <2>2
    <3> QED BY ONLY <2>1, <3>2, <3>3
  <2>3. CASE x # m
    <3>1. (InTransit(x) \ U)' = InTransit(x) \ U BY <1>3, <2>3
    <3> QED BY <1>8, <2>1, <2>3, <3>1
  <2> QED BY <2>2, <2>3
<1>12. \A r \in Known : count'[r].requests + Cardinality(To(U, r)') <= Cardinality(Own(r)')
  BY <1>2, <1>3, <1>10 DEF Covers
<1>13. Covers(U)' BY <1>5, <1>11, <1>12 DEF Covers
<1>14. U \in SUBSET (1..Len(asked')) BY <1>4
<1> QED BY <1>5, <1>7, <1>9, <1>13, <1>14, Attribute DEF OwnInv

LEMMA EgressOwn ==
  ASSUME OwnInv, Quiet, IInv', UNCHANGED scenario, NEW i \in 1..Len(asked), Egress(i),
         NEW k, NEW q, asked[i].key = k, asked[i].question = q
  PROVE  OwnInv'
<1> DEFINE m == MarkOf(k, q)
           a == [asked[i] EXCEPT !.frames = @ + 1]
<1>1. /\ IInv /\ Known = scenario.resolvers /\ Sane /\ Fresh
      /\ \E U \in SUBSET (1..Len(asked)) : Covers(U)
  BY QuietParts
<1>2. /\ asked[i] \in Sent /\ asked[i].from = "client" /\ asked[i].frames = 0
      /\ clock - asked[i].at <= Transit
  BY <1>1, SentTypes DEF Egress, Quiet, Sane
<1>3. /\ asked' = [asked EXCEPT ![i] = a] /\ clock' = clock /\ RecordQuery(i, k, q)
      /\ a.from = asked[i].from /\ a.key = asked[i].key /\ a.at = asked[i].at
      /\ a.question = asked[i].question /\ a.frames = 1
  BY <1>2 DEF Egress, Sent
<1>4. /\ k.resolver \in Known /\ m \in Marks /\ m.resolver = k.resolver
      /\ i \in InTransit(m)
  BY <1>1, <1>2, SentTypes DEF Sane, MarkOf, InTransit
<1> HIDE DEF a
<1>5. /\ Len(asked') = Len(asked) /\ asked'[i] = a
      /\ \A x \in 1..Len(asked) : /\ asked'[x].from = asked[x].from
                                  /\ asked'[x].key = asked[x].key
                                  /\ asked'[x].at = asked[x].at
                                  /\ x # i => asked'[x] = asked[x]
      /\ \A r : Own(r)' = Own(r)
      /\ \A U \in SUBSET (1..Len(asked)) : \A r : To(U, r)' = To(U, r)
      /\ \A x : InTransit(x)' = InTransit(x) \ {i}
  <2>1. /\ Len(asked') = Len(asked) /\ asked'[i] = a
        /\ \A x \in 1..Len(asked) : /\ asked'[x].from = asked[x].from
                                    /\ asked'[x].key = asked[x].key
                                    /\ asked'[x].at = asked[x].at
                                    /\ asked'[x].question = asked[x].question
                                    /\ x # i => asked'[x] = asked[x]
        /\ \A r : Own(r)' = Own(r)
        /\ \A U \in SUBSET (1..Len(asked)) : \A r : To(U, r)' = To(U, r)
        /\ \A n : InTransit(n)' = {x \in InTransit(n) : x # i} \union
             {x \in {i} : /\ a.from = "client" /\ a.frames = 0
                          /\ MarkOf(a.key, a.question) = n /\ clock - a.at <= Transit}
    BY <1>1, <1>3, Touched
  <2>2. \A n : InTransit(n)' = InTransit(n) \ {i} BY <1>3, <2>1
  <2> QED BY <2>1, <2>2
<1> HIDE DEF m
<1>6. Known' = Known BY <1>1, <1>3, <1>4, Outcome
<1>7. Sane'
  <2> SUFFICES ASSUME NEW x \in 1..Len(asked)
               PROVE  /\ asked'[x].at <= clock' /\ asked'[x].key.resolver \in Known'
                      /\ asked'[x].from = "router" => asked'[x].frames > 0
    BY <1>5 DEF Sane
  <2>1. /\ asked[x].at <= clock /\ asked[x].key.resolver \in Known
        /\ asked[x].from = "router" => asked[x].frames > 0
    BY <1>1 DEF Sane
  <2>2. CASE x = i BY <1>2, <1>3, <1>5, <1>6, <2>1, <2>2
  <2>3. CASE x # i BY <1>3, <1>5, <1>6, <2>1, <2>3
  <2> QED BY <2>2, <2>3
<1>8. PICK U \in SUBSET (1..Len(asked)) : Covers(U) BY <1>1
<1>9. \A r \in Known : /\ count[r].requests \in Nat /\ Cardinality(Own(r)) \in Nat
                       /\ Cardinality(To(U, r)) \in Nat
                       /\ count[r].requests + Cardinality(To(U, r)) <= Cardinality(Own(r))
  BY <1>1, <1>8, SentTypes, FiniteTypes DEF Covers
<1>10. ASSUME NEW x \in Marks
       PROVE  /\ IsFiniteSet(InTransit(x) \ U) /\ Cardinality(InTransit(x) \ U) \in Nat
              /\ Cardinality(InTransit(x) \ U) <= Left(x) /\ Left(x) \in Nat
  BY <1>1, <1>8, SentTypes, FiniteTypes DEF Covers, Left
<1>11. CASE /\ m \in DOMAIN forwarded /\ forwarded' = Spent(m) /\ UNCHANGED count
  <2>1. /\ Left(m) \in Nat \ {0} /\ Left(m)' = Left(m) - 1
        /\ \A x : x # m => Left(x)' = Left(x)
        /\ DOMAIN forwarded' \subseteq DOMAIN forwarded
        /\ \A x \in DOMAIN forwarded' : forwarded'[x].at = forwarded[x].at
    <3>1. IInv /\ m \in DOMAIN forwarded /\ forwarded' = Spent(m) BY <1>1, <1>11
    <3> QED BY ONLY <3>1, SpentLeft
  <2>2. Fresh'
    <3>1. \A x \in DOMAIN forwarded' : \A y \in InTransit(x) \ {i} :
            asked'[y].at <= forwarded'[x].at
      BY <1>1, <1>5, <2>1 DEF Fresh, InTransit
    <3> QED BY <1>5, <3>1 DEF Fresh
  <2>3. CASE i \notin U
    <3>1. ASSUME NEW x \in Marks PROVE Cardinality((InTransit(x) \ U)') <= Left(x)'
      <4>1. (InTransit(x) \ U)' = (InTransit(x) \ U) \ {i} BY <1>5
      <4>2. CASE x = m
        <5>1. i \in InTransit(x) \ U BY <1>4, <2>3, <4>2
        <5>2. Cardinality((InTransit(x) \ U) \ {i}) = Cardinality(InTransit(x) \ U) - 1
          <6>1. IsFiniteSet(InTransit(x) \ U) BY <1>10
          <6> QED BY ONLY <5>1, <6>1, FS_RemoveElement
        <5>3. Left(x)' = Left(x) - 1 BY <2>1, <4>2
        <5>4. Cardinality((InTransit(x) \ U)') = Cardinality(InTransit(x) \ U) - 1
          BY ONLY <4>1, <5>2
        <5>5. /\ Cardinality(InTransit(x) \ U) \in Nat /\ Left(x) \in Nat
              /\ Cardinality(InTransit(x) \ U) <= Left(x)
          BY <1>10
        <5> QED BY ONLY <5>3, <5>4, <5>5
      <4>3. CASE x # m
        <5>1. i \notin InTransit(x) BY <1>4, <4>3 DEF InTransit
        <5>2. (InTransit(x) \ U)' = InTransit(x) \ U BY <4>1, <5>1
        <5> QED BY <1>10, <2>1, <4>3, <5>2
      <4> QED BY <4>2, <4>3
    <3>2. \A r \in Known : count'[r].requests + Cardinality(To(U, r)') <= Cardinality(Own(r)')
      BY <1>5, <1>9, <1>11
    <3>3. Covers(U)' BY <1>6, <3>1, <3>2 DEF Covers
    <3>4. U \in SUBSET (1..Len(asked')) BY <1>5
    <3> QED BY <1>6, <1>7, <2>2, <3>3, <3>4, Attribute DEF OwnInv
  <2>4. CASE i \in U
    <3>1. PICK V \in SUBSET (1..Len(asked)) :
            /\ U \subseteq V
            /\ Cardinality(InTransit(m) \ V) <= Left(m) - 1
            /\ \A x \in Marks \ {m} : Cardinality(InTransit(x) \ V) <= Left(x)
            /\ \A r : r # m.resolver => Cardinality(To(V, r)) = Cardinality(To(U, r))
            /\ Cardinality(To(V, m.resolver)) <= Cardinality(To(U, m.resolver)) + 1
      <4>1. m \in Marks /\ Left(m) >= 1 /\ Left(m) \in Nat BY <1>4, <2>1
      <4> QED BY ONLY <1>1, <1>8, <4>1, Repay
    <3> DEFINE W == V \ {i}
    <3>2. \A x \in Marks : Cardinality((InTransit(x) \ W)') <= Left(x)'
      <4>1. \A x : (InTransit(x) \ W)' = InTransit(x) \ V BY <1>5, <2>4, <3>1
      <4> HIDE DEF W
      <4> SUFFICES ASSUME NEW x \in Marks PROVE Cardinality((InTransit(x) \ W)') <= Left(x)'
        OBVIOUS
      <4>2. Cardinality((InTransit(x) \ W)') = Cardinality(InTransit(x) \ V) BY <4>1
      <4>3. CASE x = m BY <2>1, <3>1, <4>2, <4>3
      <4>4. CASE x # m BY <2>1, <3>1, <4>2, <4>4
      <4> QED BY <4>3, <4>4
    <3>3. ASSUME NEW r \in Known
          PROVE  count'[r].requests + Cardinality(To(W, r)') <= Cardinality(Own(r)')
      <4>1. /\ To(W, r)' = To(W, r) /\ Own(r)' = Own(r) /\ count'[r] = count[r]
        BY <1>5, <1>11
      <4>2. /\ IsFiniteSet(To(V, r)) /\ Cardinality(To(V, r)) \in Nat
            /\ Cardinality(To(W, r)) \in Nat
        BY <1>1, FiniteTypes
      <4>3. CASE r = k.resolver
        <5>1. i \in To(V, r) BY <2>4, <3>1, <4>3 DEF To
        <5>2. To(W, r) = To(V, r) \ {i} BY DEF To
        <5>3. Cardinality(To(W, r)) = Cardinality(To(V, r)) - 1
          BY <4>2, <5>1, <5>2, FS_RemoveElement
        <5>4. Cardinality(To(V, r)) <= Cardinality(To(U, r)) + 1 BY <1>4, <3>1, <4>3
        <5> HIDE DEF W
        <5> QED BY <1>9, <4>1, <4>2, <5>3, <5>4
      <4>4. CASE r # k.resolver
        <5>1. To(W, r) = To(V, r) BY <4>4 DEF To
        <5>2. Cardinality(To(V, r)) = Cardinality(To(U, r)) BY <1>4, <3>1, <4>4
        <5> HIDE DEF W
        <5> QED BY <1>9, <4>1, <5>1, <5>2
      <4> QED BY <4>3, <4>4
    <3>4. Covers(W)' BY <1>6, <3>2, <3>3 DEF Covers
    <3>5. W \in SUBSET (1..Len(asked')) BY <1>5
    <3> HIDE DEF W
    <3> QED BY <1>6, <1>7, <2>2, <3>4, <3>5, Attribute DEF OwnInv
  <2> QED BY <2>3, <2>4
<1>12. CASE /\ ~Suppressed(m) /\ UNCHANGED forwarded
            /\ \A r \in Known : count'[r].requests
                 <= count[r].requests + IF r = k.resolver THEN 1 ELSE 0
            /\ \A r \in Known : count'[r].requests \in Nat
  <2>1. m \notin DOMAIN forwarded
    <3> SUFFICES ASSUME m \in DOMAIN forwarded PROVE Suppressed(m) BY <1>12
    <3>1. asked[i].at <= forwarded[m].at BY <1>1, <1>4 DEF Fresh
    <3>2. /\ asked[i].at \in Nat /\ forwarded[m].at \in Nat /\ clock \in Nat
          /\ Transit \in Nat /\ Suppress \in Nat /\ Transit <= Suppress
      BY <1>1, SentTypes, PlainAssumption
    <3> QED BY <1>2, <3>1, <3>2 DEF Suppressed
  <2>2. i \in U
    <3>1. Left(m) = 0 BY <2>1 DEF Left
    <3>2. Cardinality(InTransit(m) \ U) = 0 BY <1>4, <1>10, <3>1
    <3>3. InTransit(m) \ U = {} BY <1>4, <1>10, <3>2, FS_EmptySet
    <3> QED BY <1>4, <3>3
  <2>3. \A x : Left(x)' = Left(x) BY <1>12 DEF Left
  <2>4. Fresh'
    <3>1. \A x \in DOMAIN forwarded : \A y \in InTransit(x) \ {i} :
            asked'[y].at <= forwarded[x].at
      BY <1>1, <1>5 DEF Fresh, InTransit
    <3> QED BY <1>5, <1>12, <3>1 DEF Fresh
  <2> DEFINE V == U \ {i}
  <2>5. \A x \in Marks : Cardinality((InTransit(x) \ V)') <= Left(x)'
    <3>1. \A x : (InTransit(x) \ V)' = InTransit(x) \ U BY <1>5, <2>2
    <3> HIDE DEF V
    <3> QED BY <1>10, <2>3, <3>1
  <2>6. ASSUME NEW r \in Known
        PROVE  count'[r].requests + Cardinality(To(V, r)') <= Cardinality(Own(r)')
    <3>1. To(V, r)' = To(V, r) /\ Own(r)' = Own(r) BY <1>5
    <3>2. /\ IsFiniteSet(To(U, r)) /\ Cardinality(To(V, r)) \in Nat
          /\ count'[r].requests \in Nat
      BY <1>1, <1>12, FiniteTypes
    <3>3. CASE r = k.resolver
      <4>1. i \in To(U, r) BY <2>2, <3>3 DEF To
      <4>2. To(V, r) = To(U, r) \ {i} BY DEF To
      <4>3. Cardinality(To(V, r)) = Cardinality(To(U, r)) - 1
        BY <3>2, <4>1, <4>2, FS_RemoveElement
      <4>4. count'[r].requests <= count[r].requests + 1 BY <1>12, <3>3
      <4> HIDE DEF V
      <4> QED BY <1>9, <3>1, <3>2, <4>3, <4>4
    <3>4. CASE r # k.resolver
      <4>1. To(V, r) = To(U, r) BY <3>4 DEF To
      <4>2. count'[r].requests <= count[r].requests + 0 BY <1>12, <3>4
      <4> HIDE DEF V
      <4> QED BY <1>9, <3>1, <3>2, <4>1, <4>2
    <3> QED BY <3>3, <3>4
  <2>7. Covers(V)' BY <1>6, <2>5, <2>6 DEF Covers
  <2>8. V \in SUBSET (1..Len(asked')) BY <1>5
  <2> HIDE DEF V
  <2> QED BY <1>6, <1>7, <2>4, <2>7, <2>8, Attribute DEF OwnInv
<1> QED BY <1>1, <1>3, <1>4, <1>11, <1>12, Outcome DEF m

\* What neither counts a request nor a frame changes nothing.
LEMMA QuietStep ==
  ASSUME OwnInv, Quiet, IInv', UNCHANGED scenario, Known' = Known,
         \A r \in Known : count'[r].requests = count[r].requests,
         Len(asked') = Len(asked), clock <= clock', clock' \in Nat,
         \A x \in 1..Len(asked) : /\ asked'[x].from = asked[x].from
                                  /\ asked'[x].key = asked[x].key
                                  /\ asked'[x].at = asked[x].at
                                  /\ asked'[x].question = asked[x].question
                                  /\ asked'[x].frames = asked[x].frames,
         \A m \in DOMAIN forwarded' : m \in DOMAIN forwarded /\ forwarded'[m] = forwarded[m],
         \A m \in DOMAIN forwarded \ DOMAIN forwarded' : InTransit(m) = {}
  PROVE  OwnInv'
<1>1. /\ IInv /\ Known = scenario.resolvers /\ Sane /\ Fresh
      /\ \E U \in SUBSET (1..Len(asked)) : Covers(U)
  BY QuietParts
<1>2. PICK U \in SUBSET (1..Len(asked)) : Covers(U) BY <1>1
<1>3. \A m : InTransit(m)' \subseteq InTransit(m)
  <2> SUFFICES ASSUME NEW m, NEW x \in InTransit(m)' PROVE x \in InTransit(m) OBVIOUS
  <2>1. /\ x \in 1..Len(asked) /\ asked'[x].from = "client" /\ asked'[x].frames = 0
        /\ MarkOf(asked'[x].key, asked'[x].question) = m
        /\ clock' - asked'[x].at <= Transit
    BY DEF InTransit, MarkOf
  <2>2. asked[x].at \in Nat /\ clock \in Nat /\ Transit \in Nat
    BY <1>1, <2>1, SentTypes, PlainAssumption
  <2> QED BY <2>1, <2>2 DEF InTransit
<1>4. Sane'
  <2>1. \A x \in 1..Len(asked) : asked[x].at \in Nat /\ clock \in Nat BY <1>1, SentTypes
  <2> QED BY <1>1, <2>1 DEF Sane
<1>5. Fresh'
  <2> SUFFICES ASSUME NEW m \in DOMAIN forwarded', NEW x \in InTransit(m)'
               PROVE  asked'[x].at <= forwarded'[m].at
    BY DEF Fresh
  <2>1. x \in InTransit(m) /\ x \in 1..Len(asked) BY <1>3 DEF InTransit
  <2> QED BY <1>1, <2>1 DEF Fresh
<1>6. ASSUME NEW m \in Marks PROVE Cardinality((InTransit(m) \ U)') <= Left(m)'
  <2>1. (InTransit(m) \ U)' \in SUBSET (InTransit(m) \ U) BY <1>3
  <2>2. /\ IsFiniteSet(InTransit(m) \ U) /\ Cardinality(InTransit(m) \ U) \in Nat
        /\ Cardinality(InTransit(m) \ U) <= Left(m) /\ Left(m) \in Nat
    BY <1>1, <1>2, SentTypes, FiniteTypes DEF Covers, Left
  <2>3. /\ Cardinality((InTransit(m) \ U)') <= Cardinality(InTransit(m) \ U)
        /\ Cardinality((InTransit(m) \ U)') \in Nat
    BY <2>1, <2>2, FS_Subset, FS_CardinalityType
  <2>4. CASE m \in DOMAIN forwarded \ DOMAIN forwarded'
    <3>1. Cardinality(InTransit(m) \ U) = 0
      <4>1. InTransit(m) \ U = {} BY <2>4
      <4> QED BY <4>1, FS_EmptySet
    <3>2. Left(m)' = 0 BY <2>4 DEF Left
    <3> QED BY <2>2, <2>3, <3>1, <3>2
  <2>5. CASE m \notin DOMAIN forwarded \ DOMAIN forwarded'
    <3>1. Left(m)' = Left(m) BY <2>5 DEF Left
    <3> QED BY <2>2, <2>3, <3>1
  <2> QED BY <2>4, <2>5
<1>7. ASSUME NEW r \in Known
      PROVE  count'[r].requests + Cardinality(To(U, r)') <= Cardinality(Own(r)')
  <2>1. Own(r)' = Own(r) /\ To(U, r)' = To(U, r) BY DEF Own, To
  <2> QED BY <1>2, <2>1 DEF Covers
<1>8. Covers(U)' BY <1>6, <1>7 DEF Covers
<1>9. U \in SUBSET (1..Len(asked')) OBVIOUS
<1> QED BY <1>4, <1>5, <1>8, <1>9, Attribute DEF OwnInv

LEMMA RecordResponseOwn ==
  ASSUME OwnInv, Quiet, IInv', UNCHANGED scenario, NEW i \in 1..Len(asked),
         NEW rcode \in RCodes, RecordResponse(i, rcode)
  PROVE  OwnInv'
<1> DEFINE a == [asked[i] EXCEPT !.replies = @ + 1]
           k == asked[i].key
<1>1. IInv /\ asked[i] \in Sent /\ asked \in Seq(Sent) /\ clock \in Nat
  BY SentTypes DEF OwnInv
<1>2. /\ asked' = [asked EXCEPT ![i] = a] /\ clock' = clock /\ UNCHANGED forwarded
      /\ a.from = asked[i].from /\ a.key = asked[i].key /\ a.at = asked[i].at
      /\ a.question = asked[i].question /\ a.frames = asked[i].frames
  BY <1>1 DEF RecordResponse, Sent
<1> HIDE DEF a
<1>3. /\ Len(asked') = Len(asked) /\ asked'[i] = a
      /\ \A x \in 1..Len(asked) : x # i => asked'[x] = asked[x]
  BY <1>1, <1>2
<1>4. Known' = Known /\ \A r \in Known : count'[r].requests = count[r].requests
  <2>1. CASE UNCHANGED count BY <2>1 DEF Known
  <2>2. CASE /\ k.resolver \in Known
             /\ count' = [count EXCEPT ![k.resolver] = Bump(@, Answered(rcode))]
    <3>1. "requests" \notin Answered(rcode) BY DEF Answered, RCodes
    <3>2. count[k.resolver] \in Counter BY <1>1, <2>2, SentTypes DEF TrackerOK
    <3>3. Bump(count[k.resolver], Answered(rcode))["requests"] = count[k.resolver]["requests"]
      BY <3>1, <3>2, BumpType DEF Fields
    <3>4. count'[k.resolver] = Bump(count[k.resolver], Answered(rcode)) BY <2>2 DEF Known
    <3>5. \A r \in Known \ {k.resolver} : count'[r] = count[r] BY <2>2 DEF Known
    <3>6. Known' = Known BY <2>2 DEF Known
    <3> QED BY <3>3, <3>4, <3>5, <3>6
  <2> QED BY <2>1, <2>2 DEF RecordResponse
<1>5. \A x \in 1..Len(asked) : /\ asked'[x].from = asked[x].from
                               /\ asked'[x].key = asked[x].key
                               /\ asked'[x].at = asked[x].at
                               /\ asked'[x].question = asked[x].question
                               /\ asked'[x].frames = asked[x].frames
  BY <1>2, <1>3
<1>6. clock <= clock' /\ clock' \in Nat BY <1>1, <1>2
<1> QED BY <1>2, <1>3, <1>4, <1>5, <1>6, QuietStep

LEMMA SweepOwn ==
  ASSUME OwnInv, Quiet, IInv', UNCHANGED scenario, Sweep
  PROVE  OwnInv'
<1>1. IInv /\ TrackerOK /\ clock \in Nat /\ Fresh BY QuietParts, SentTypes
<1>2. /\ UNCHANGED <<clock, asked>>
      /\ forwarded' = Drop(forwarded, {m \in DOMAIN forwarded : clock - forwarded[m].at > Suppress})
      /\ count' = [r \in Known |-> [count[r] EXCEPT !.timeouts =
           @ + Cardinality({k \in Overdue : k.resolver = r})]]
  BY DEF Sweep
<1>3. Known' = Known /\ \A r \in Known : count'[r].requests = count[r].requests
  <2>1. \A r \in Known : count[r] \in Counter BY <1>1 DEF TrackerOK
  <2> QED BY <1>2, <2>1 DEF Known, Counter, Fields
<1>4. \A m \in DOMAIN forwarded' : m \in DOMAIN forwarded /\ forwarded'[m] = forwarded[m]
  BY <1>2 DEF Drop
<1>5. ASSUME NEW m \in DOMAIN forwarded \ DOMAIN forwarded' PROVE InTransit(m) = {}
  <2> SUFFICES ASSUME NEW i \in InTransit(m) PROVE FALSE OBVIOUS
  <2>1. clock - forwarded[m].at > Suppress BY <1>2 DEF Drop
  <2>2. i \in 1..Len(asked) /\ clock - asked[i].at <= Transit BY DEF InTransit
  <2>3. asked[i].at <= forwarded[m].at BY <1>1 DEF Fresh
  <2>4. /\ asked[i].at \in Nat /\ forwarded[m].at \in Nat
        /\ Transit \in Nat /\ Suppress \in Nat /\ Transit <= Suppress
    BY <1>1, <2>2, SentTypes, PlainAssumption
  <2> QED BY <1>1, <2>1, <2>2, <2>3, <2>4
<1>6. /\ Len(asked') = Len(asked) /\ clock <= clock' /\ clock' \in Nat
      /\ \A x \in 1..Len(asked) : asked'[x] = asked[x]
  BY <1>1, <1>2
<1> QED BY <1>3, <1>4, <1>5, <1>6, QuietStep

LEMMA TickOwn ==
  ASSUME OwnInv, Quiet, IInv', UNCHANGED scenario, Tick
  PROVE  OwnInv'
<1>1. IInv /\ clock \in Nat BY SentTypes DEF OwnInv
<1>2. UNCHANGED <<count, forwarded, asked>> /\ clock' = clock + 1 BY DEF Tick, tracker
<1>3. Known' = Known /\ clock <= clock' /\ clock' \in Nat BY <1>1, <1>2 DEF Known
<1> QED BY <1>2, <1>3, QuietStep

LEMMA InitOwn == Init => OwnInv
<1> SUFFICES ASSUME Init PROVE OwnInv OBVIOUS
<1>1. IInv BY InitIInv
<1>2. /\ asked = <<>> /\ forwarded = <<>> /\ Known = scenario.resolvers
      /\ \A r \in Known : count[r].requests = 0
  BY DEF Init, Known, Zero, Fields
<1>3. Sane /\ Fresh BY <1>2 DEF Sane, Fresh
<1>4. \A m, r : InTransit(m) \ {} = {} /\ To({}, r) = {} /\ Own(r) = {}
  BY <1>2 DEF InTransit, To, Own
<1>5. \A m, r : /\ Cardinality(InTransit(m) \ {}) = 0 /\ Cardinality(To({}, r)) = 0
                /\ Cardinality(Own(r)) = 0
  BY <1>4, FS_EmptySet
<1>6. \A m : Left(m) = 0 BY <1>2 DEF Left
<1>7. Covers({}) BY <1>2, <1>5, <1>6 DEF Covers
<1>8. {} \in SUBSET (1..Len(asked)) OBVIOUS
<1> QED BY <1>1, <1>2, <1>3, <1>7, <1>8 DEF OwnInv, Attributed

LEMMA NextOwn == OwnInv /\ [Next]_vars => OwnInv'
<1> SUFFICES ASSUME OwnInv, [Next]_vars PROVE OwnInv' OBVIOUS
<1>1. IInv' BY NextIInv DEF OwnInv
<1>2. UNCHANGED scenario BY DEF Next, vars
<1>3. CASE ~Quiet BY <1>1, <1>2, <1>3 DEF OwnInv, Attributed, Quiet
<1>4. CASE Quiet
  <2>1. CASE UNCHANGED vars
    <3>1. IInv /\ clock \in Nat BY SentTypes DEF OwnInv
    <3>2. UNCHANGED <<clock, count, forwarded, asked>> BY <2>1 DEF vars, tracker
    <3>3. Known' = Known /\ clock <= clock' /\ clock' \in Nat BY <3>1, <3>2 DEF Known
    <3> QED BY <1>1, <1>2, <1>4, <3>2, <3>3, QuietStep
  <2>2. ASSUME NEW k \in Keys, NEW q \in Question, k.resolver \in scenario.resolvers,
               RouterAsks(k, q) \/ ClientAsks(k, q)
        PROVE  OwnInv'
    BY <1>1, <1>2, <1>4, <2>2, RouterAsksOwn, ClientAsksOwn
  <2>3. ASSUME NEW i \in 1..Len(asked),
               Egress(i) \/ \E rcode \in RCodes : RecordResponse(i, rcode)
        PROVE  OwnInv'
    <3>1. PICK k, q : asked[i].key = k /\ asked[i].question = q OBVIOUS
    <3> QED BY <1>1, <1>2, <1>4, <2>3, <3>1, EgressOwn, RecordResponseOwn
  <2>4. CASE Sweep BY <1>1, <1>2, <1>4, <2>4, SweepOwn
  <2>5. ASSUME NEW S \in SUBSET scenario.resolvers, UpdateResolvers(S) PROVE OwnInv'
    BY <1>4, <2>5 DEF UpdateResolvers, Quiet
  <2>6. CASE Tick BY <1>1, <1>2, <1>4, <2>6, TickOwn
  <2> QED BY <2>1, <2>2, <2>3, <2>4, <2>5, <2>6 DEF Next
<1> QED BY <1>3, <1>4

\* When every frame is captured once and the resolvers stay, no more requests
\* are counted than the router has sent (ObserveDirectClientQuery, RecordQuery):
\* a client's query is counted only in the place of one of the router's that
\* used up its mark.
THEOREM OwnAlways == Spec => []OwnWhenSeenOnce
<1>1. OwnInv => OwnWhenSeenOnce
  <2> SUFFICES ASSUME OwnInv, Quiet, NEW r \in Known
               PROVE  count[r].requests <= Cardinality({i \in 1..Len(asked) :
                        asked[i].from = "router" /\ asked[i].key.resolver = r})
    BY DEF OwnWhenSeenOnce, OnlyOwnQueries, Quiet
  <2>1. PICK U \in SUBSET (1..Len(asked)) : Covers(U) BY QuietParts
  <2>2. /\ count[r].requests + Cardinality(To(U, r)) <= Cardinality(Own(r))
        /\ count[r].requests \in Nat /\ Cardinality(To(U, r)) \in Nat
        /\ Cardinality(Own(r)) \in Nat
    BY <2>1, SentTypes, FiniteTypes DEF Covers, OwnInv
  <2> QED BY <2>2 DEF Own
<1> QED BY <1>1, InitOwn, NextOwn, PTL DEF Spec
=============================================================================
