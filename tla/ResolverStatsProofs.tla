------------------------- MODULE ResolverStatsProofs -------------------------
(***************************************************************************)
(* Proofs about ResolverStats, for any resolvers, tags, names, limits and  *)
(* scenarios that StatsAssumption allows.                                  *)
(***************************************************************************)
EXTENDS ResolverStats, FiniteSetTheorems, FunctionTheorems, WellFoundedInduction, TLAPS

-----------------------------------------------------------------------------
(* The operators of the model.                                             *)

\* The constants that are numbers, and what follows for the ring.
LEMMA Constants ==
  /\ TimeoutLimit \in Nat /\ DefaultLimit \in Nat /\ LateKeep \in Nat
  /\ FallbackFrom \in Nat /\ FallbackTo \in Nat /\ RecentKeep \in Nat /\ Shield \in Nat
  /\ Minute \in Nat \ {0} /\ Buckets \in Nat \ {0} /\ SweepEvery \in Nat \ {0}
  /\ ProbeEvery \in Nat \ {0} /\ DiagEvery \in Nat \ {0} /\ DiagTime \in Nat \ {0}
  /\ DiagKeep \in Nat
BY StatsAssumption

LEMMA ScenarioTypes ==
  ASSUME NEW s \in Scenarios
  PROVE  /\ s.ports \in SUBSET Port /\ s.tags \in SUBSET Tag
         /\ s.loss \in BOOLEAN /\ s.churn \in BOOLEAN
         /\ s.probes \in BOOLEAN /\ s.diagnoses \in BOOLEAN
         /\ s.breaks \in Nat /\ s.time \in Nat /\ s.queries \in Nat /\ s.replies \in Nat
         /\ s.clients \in Nat /\ s.answers \in Nat
         /\ s.time >= Minute
BY StatsAssumption

\* Counters count.
LEMMA ZeroTypes == Zero \in Counters
BY DEF Zero, Counters

LEMMA AddTypes ==
  ASSUME NEW c \in Counters, NEW F, NEW n \in Nat
  PROVE  /\ Add(c, F, n) \in Counters
         /\ \A f \in Fields : Add(c, F, n)[f] = IF f \in F THEN c[f] + n ELSE c[f]
BY DEF Add, Counters

LEMMA BumpTypes ==
  ASSUME NEW c \in Counters, NEW F
  PROVE  /\ Bump(c, F) \in Counters
         /\ \A f \in Fields : Bump(c, F)[f] = IF f \in F THEN c[f] + 1 ELSE c[f]
BY AddTypes DEF Bump

LEMMA EmptyTypes ==
  ASSUME NEW n \in Nat
  PROVE  /\ EmptyBucket(n) \in BucketsOf
         /\ EmptyBucket(n).minute = n
         /\ EmptyBucket(n).wire = Zero
         /\ \A p \in Port : EmptyBucket(n).cohort[p] = Zero
BY ZeroTypes DEF EmptyBucket, BucketsOf

LEMMA PutFacts ==
  ASSUME NEW f, NEW k, NEW v
  PROVE  /\ DOMAIN Put(f, k, v) = DOMAIN f \union {k}
         /\ Put(f, k, v)[k] = v
         /\ \A x \in DOMAIN f : x # k => Put(f, k, v)[x] = f[x]
BY DEF Put

LEMMA PutTypes ==
  ASSUME NEW D, NEW R, NEW f \in [D -> R], NEW k, NEW v \in R
  PROVE  Put(f, k, v) \in [D \union {k} -> R]
BY DEF Put

LEMMA DropFacts ==
  ASSUME NEW f, NEW K
  PROVE  /\ DOMAIN Drop(f, K) = DOMAIN f \ K
         /\ \A x \in DOMAIN f \ K : Drop(f, K)[x] = f[x]
BY DEF Drop

LEMMA DropTypes ==
  ASSUME NEW D, NEW R, NEW f \in [D -> R], NEW K
  PROVE  Drop(f, K) \in [D \ K -> R]
BY DEF Drop

\* A set of naturals has a least member, one below a bound a greatest.
LEMMA Least ==
  ASSUME NEW S \in SUBSET Nat, S # {}
  PROVE  \E x \in S : \A y \in S : x <= y
<1> DEFINE R == OpToRel(<, Nat)
<1>1. IsWellFoundedOn(R, Nat) BY NatLessThanWellFounded
<1>2. \A x, y \in Nat : y < x => <<y, x>> \in R BY DEF OpToRel
<1> HIDE DEF R
<1>3. PICK x \in S : \A y \in S : ~(<<y, x>> \in R) BY <1>1, WFMin
<1>4. \A y \in S : ~(y < x) BY <1>2, <1>3
<1>5. \A y \in S : x <= y BY <1>4
<1> QED BY <1>5

LEMMA Greatest ==
  ASSUME NEW n \in Nat, NEW S \in SUBSET (0..n), S # {}
  PROVE  \E x \in S : \A y \in S : y <= x
<1> DEFINE T == {t \in Nat : \E x \in S : t = n - x}
<1>1. T \in SUBSET Nat OBVIOUS
<1>2. T # {}
  <2> PICK x \in S : TRUE OBVIOUS
  <2> n - x \in T OBVIOUS
  <2> QED OBVIOUS
<1>3. PICK t \in T : \A y \in T : t <= y BY <1>1, <1>2, Least
<1>4. PICK x \in S : t = n - x OBVIOUS
<1>5. \A y \in S : y <= x
  <2> TAKE y \in S
  <2> n - y \in T OBVIOUS
  <2> t <= n - y BY <1>3
  <2> QED BY <1>4
<1> QED BY <1>5

-----------------------------------------------------------------------------
(* The ring.                                                               *)

\* A year is not needed: what was sent at most a ring of minutes before
\* another time and shares its bucket shares its minute.
LEMMA SlotTypes ==
  ASSUME NEW t \in Nat
  PROVE  MinuteOf(t) \in Nat /\ Slot(t) \in 0..(Buckets - 1)
BY Constants DEF MinuteOf, Slot

LEMMA SameRest ==
  ASSUME NEW a \in Nat, NEW b \in Nat, a <= b, b < a + Buckets, a % Buckets = b % Buckets
  PROVE  a = b
<1> Buckets \in Nat \ {0} BY Constants
<1>1. a = Buckets * (a \div Buckets) + (a % Buckets) /\ b = Buckets * (b \div Buckets) + (b % Buckets)
  OBVIOUS
<1>2. a \div Buckets \in Nat /\ b \div Buckets \in Nat OBVIOUS
<1>3. b - a = Buckets * ((b \div Buckets) - (a \div Buckets)) BY <1>1, <1>2
<1>4. CASE (b \div Buckets) - (a \div Buckets) >= 1
  <2>1. Buckets * ((b \div Buckets) - (a \div Buckets)) >= Buckets BY <1>4, <1>2
  <2> QED BY <2>1, <1>3
<1>5. CASE (b \div Buckets) - (a \div Buckets) <= 0
  <2>1. Buckets * ((b \div Buckets) - (a \div Buckets)) <= 0 BY <1>5, <1>2
  <2> QED BY <2>1, <1>3
<1>6. QED BY <1>4, <1>5, <1>2

LEMMA MinutesApart ==
  ASSUME NEW a \in Nat, NEW b \in Nat, a <= b, b - a <= Minute * (Buckets - 1)
  PROVE  MinuteOf(a) <= MinuteOf(b) /\ MinuteOf(b) <= MinuteOf(a) + Buckets - 1
<1> Minute \in Nat \ {0} /\ Buckets \in Nat \ {0} BY Constants
<1> DEFINE x == a \div Minute  y == b \div Minute  B == Buckets - 1
<1>1. /\ x \in Nat /\ y \in Nat /\ B \in Nat
      /\ Minute * x <= a /\ a < Minute * x + Minute
      /\ Minute * y <= b /\ b < Minute * y + Minute
  OBVIOUS
<1> HIDE DEF x, y, B
<1>2. b - a <= Minute * B BY DEF B
<1>3. y >= x
  <2> SUFFICES ASSUME y <= x - 1 PROVE FALSE BY <1>1
  <2>1. Minute * y <= Minute * (x - 1) BY <1>1
  <2> QED BY <2>1, <1>1
<1>4. y - x <= B
  <2> SUFFICES ASSUME y - x >= B + 1 PROVE FALSE BY <1>1
  <2>1. Minute * (y - x) >= Minute * (B + 1) BY <1>1
  <2>2. b - a > Minute * (y - x) - Minute BY <1>1
  <2> QED BY <2>1, <2>2, <1>2, <1>1
<1> QED BY <1>1, <1>3, <1>4 DEF MinuteOf, x, y, B

LEMMA SameSlot ==
  ASSUME NEW a \in Nat, NEW b \in Nat, a <= b, b - a <= Minute * (Buckets - 1),
         Slot(a) = Slot(b)
  PROVE  MinuteOf(a) = MinuteOf(b)
<1>1. MinuteOf(a) \in Nat /\ MinuteOf(b) \in Nat BY SlotTypes
<1>2. MinuteOf(a) <= MinuteOf(b) /\ MinuteOf(b) < MinuteOf(a) + Buckets
  BY MinutesApart, <1>1, Constants
<1> QED BY <1>1, <1>2, SameRest DEF Slot

\* Times whose buckets are touched together: those of one bucket are of one
\* minute.
Together(T) ==
  /\ T \subseteq Nat
  /\ \A s, t \in T : Slot(s) = Slot(t) => MinuteOf(s) = MinuteOf(t)

Ring == [0..(Buckets - 1) -> BucketsOf]

\* A bucket is left as it is, or emptied for the minute of one of T.
LEMMA OpenedFacts ==
  ASSUME NEW h \in Ring, NEW T, Together(T)
  PROVE  /\ Opened(h, T) \in Ring
         /\ \A t \in T : Opened(h, T)[Slot(t)].minute = MinuteOf(t)
         /\ \A i \in 0..(Buckets - 1) :
              \/ Opened(h, T)[i] = h[i]
              \/ \E t \in T : /\ i = Slot(t) /\ h[i].minute # MinuteOf(t)
                              /\ Opened(h, T)[i] = EmptyBucket(MinuteOf(t))
<1> USE DEF Ring
<1> DEFINE stale(i) == \E t \in T : Slot(t) = i /\ h[i].minute # MinuteOf(t)
           pick(i)  == CHOOSE t \in T : Slot(t) = i
<1>1. \A i \in 0..(Buckets - 1) :
        Opened(h, T)[i] = IF stale(i) THEN EmptyBucket(MinuteOf(pick(i))) ELSE h[i]
  BY DEF Opened
<1>2. DOMAIN Opened(h, T) = 0..(Buckets - 1) BY DEF Opened
<1>3. ASSUME NEW i \in 0..(Buckets - 1), stale(i)
      PROVE  \A t \in T : Slot(t) = i =>
               MinuteOf(pick(i)) = MinuteOf(t) /\ h[i].minute # MinuteOf(t)
  <2>1. pick(i) \in T /\ Slot(pick(i)) = i BY <1>3
  <2> HIDE DEF pick
  <2>2. \A t \in T : Slot(t) = i => MinuteOf(pick(i)) = MinuteOf(t) BY <2>1 DEF Together
  <2> QED BY <2>2, <1>3
<1>4. ASSUME NEW i \in 0..(Buckets - 1), stale(i)
      PROVE  \E t \in T : /\ i = Slot(t) /\ h[i].minute # MinuteOf(t)
                          /\ Opened(h, T)[i] = EmptyBucket(MinuteOf(t))
  BY <1>1, <1>3, <1>4
<1> HIDE DEF pick
<1>5. \A i \in 0..(Buckets - 1) : Opened(h, T)[i] \in BucketsOf
  <2> TAKE i \in 0..(Buckets - 1)
  <2>1. CASE stale(i)
    BY <2>1, <1>4, EmptyTypes, SlotTypes DEF Together
  <2>2. CASE ~stale(i) BY <2>2, <1>1
  <2> QED BY <2>1, <2>2
<1>6. ASSUME NEW t \in T PROVE Opened(h, T)[Slot(t)].minute = MinuteOf(t)
  <2>1. Slot(t) \in 0..(Buckets - 1) /\ MinuteOf(t) \in Nat BY SlotTypes DEF Together
  <2>2. CASE stale(Slot(t)) BY <2>1, <2>2, <1>1, <1>3, EmptyTypes
  <2>3. CASE ~stale(Slot(t)) BY <2>1, <2>3, <1>1
  <2> QED BY <2>2, <2>3
<1>7. Opened(h, T) \in Ring
  <2>1. Opened(h, T) = [i \in 0..(Buckets - 1) |-> Opened(h, T)[i]] BY DEF Opened
  <2> QED BY <2>1, <1>5
<1> QED BY <1>1, <1>4, <1>6, <1>7

LEMMA OpenedTypes ==
  ASSUME NEW h \in Ring, NEW T \in SUBSET Nat
  PROVE  Opened(h, T) \in Ring
<1> USE DEF Ring
<1> DEFINE stale(i) == \E t \in T : Slot(t) = i /\ h[i].minute # MinuteOf(t)
           pick(i)  == CHOOSE t \in T : Slot(t) = i
           value(i) == IF stale(i) THEN EmptyBucket(MinuteOf(pick(i))) ELSE h[i]
<1>1. Opened(h, T) = [i \in 0..(Buckets - 1) |-> value(i)] BY DEF Opened
<1>2. ASSUME NEW i \in 0..(Buckets - 1) PROVE value(i) \in BucketsOf
  <2>1. CASE stale(i)
    <3>1. pick(i) \in T BY <2>1
    <3> HIDE DEF pick
    <3>2. EmptyBucket(MinuteOf(pick(i))) \in BucketsOf BY <3>1, EmptyTypes, SlotTypes
    <3> QED BY <3>2, <2>1
  <2>2. CASE ~stale(i) BY <2>2
  <2> QED BY <2>1, <2>2
<1> HIDE DEF value
<1> QED BY <1>1, <1>2

Ready(h, t) == Opened(h, {t})

LEMMA OneTogether == ASSUME NEW t \in Nat PROVE Together({t})
BY DEF Together

LEMMA WireFacts ==
  ASSUME NEW h \in Ring, NEW t \in Nat, NEW F
  PROVE  LET o == Ready(h, t)
             w == Wire(h, t, F)
         IN /\ w \in Ring
            /\ \A i \in 0..(Buckets - 1) :
                 /\ w[i].minute = o[i].minute
                 /\ w[i].cohort = o[i].cohort
                 /\ w[i].wire = IF i = Slot(t) THEN Bump(o[i].wire, F) ELSE o[i].wire
<1> USE DEF Ring, Ready
<1> DEFINE o == Ready(h, t)
           w == Wire(h, t, F)
<1>1. o \in Ring BY OpenedFacts, OneTogether
<1>2. Slot(t) \in 0..(Buckets - 1) BY SlotTypes
<1>3. w = [o EXCEPT ![Slot(t)].wire = Bump(@, F)] BY DEF Wire
<1> HIDE DEF o, w
<1>4. \A i \in 0..(Buckets - 1) : o[i].wire \in Counters BY <1>1 DEF BucketsOf
<1>5. \A i \in 0..(Buckets - 1) : Bump(o[i].wire, F) \in Counters BY <1>4, BumpTypes
<1>6. w \in Ring BY <1>1, <1>2, <1>3, <1>5 DEF BucketsOf
<1>7. \A i \in 0..(Buckets - 1) :
        /\ w[i].minute = o[i].minute
        /\ w[i].cohort = o[i].cohort
        /\ w[i].wire = IF i = Slot(t) THEN Bump(o[i].wire, F) ELSE o[i].wire
  BY <1>1, <1>2, <1>3 DEF BucketsOf
<1> QED BY <1>6, <1>7 DEF o, w

LEMMA CohortFacts ==
  ASSUME NEW h \in Ring, NEW t \in Nat, NEW p \in Port, NEW F
  PROVE  LET o == Ready(h, t)
             w == Cohort(h, t, p, F)
         IN /\ w \in Ring
            /\ \A i \in 0..(Buckets - 1) :
                 /\ w[i].minute = o[i].minute
                 /\ w[i].wire = o[i].wire
                 /\ \A q \in Port :
                      w[i].cohort[q] = IF i = Slot(t) /\ q = p THEN Bump(o[i].cohort[q], F)
                                                               ELSE o[i].cohort[q]
<1> USE DEF Ring, Ready
<1> DEFINE o == Ready(h, t)
           w == Cohort(h, t, p, F)
<1>1. o \in Ring BY OpenedFacts, OneTogether
<1>2. Slot(t) \in 0..(Buckets - 1) BY SlotTypes
<1>3. w = [o EXCEPT ![Slot(t)].cohort[p] = Bump(@, F)] BY DEF Cohort
<1> HIDE DEF o, w
<1>4. \A i \in 0..(Buckets - 1), q \in Port : o[i].cohort[q] \in Counters BY <1>1 DEF BucketsOf
<1>5. \A i \in 0..(Buckets - 1), q \in Port : Bump(o[i].cohort[q], F) \in Counters
  BY <1>4, BumpTypes
<1>6. w \in Ring BY <1>1, <1>2, <1>3, <1>5 DEF BucketsOf
<1>7. \A i \in 0..(Buckets - 1) :
        /\ w[i].minute = o[i].minute
        /\ w[i].wire = o[i].wire
        /\ \A q \in Port :
             w[i].cohort[q] = IF i = Slot(t) /\ q = p THEN Bump(o[i].cohort[q], F)
                                                      ELSE o[i].cohort[q]
  BY <1>1, <1>2, <1>3 DEF BucketsOf
<1> QED BY <1>6, <1>7 DEF o, w

LEMMA HistoryTypes ==
  ASSUME NEW h \in [0..(Buckets - 1) -> BucketsOf], NEW t \in Nat, NEW F
  PROVE  /\ Wire(h, t, F) \in [0..(Buckets - 1) -> BucketsOf]
         /\ \A p \in Port : Cohort(h, t, p, F) \in [0..(Buckets - 1) -> BucketsOf]
<1> USE DEF Ring
<1>1. Wire(h, t, F) \in [0..(Buckets - 1) -> BucketsOf] BY WireFacts
<1>2. ASSUME NEW p \in Port PROVE Cohort(h, t, p, F) \in [0..(Buckets - 1) -> BucketsOf]
  BY CohortFacts
<1> QED BY <1>1, <1>2

-----------------------------------------------------------------------------
(* The type invariant.                                                     *)

\* The sets of the type invariant depend on the scenario, which stays.
LEMMA SameSets ==
  ASSUME scenario' = scenario
  PROVE  /\ Times' = Times /\ Numbers' = Numbers /\ Keys' = Keys
         /\ Questions' = Questions /\ Packets' = Packets /\ Upstreams' = Upstreams
BY DEF Times, Numbers, Keys, Questions, Packets, Upstreams

\* The ports of the keys are resolvers.
LEMMA KeyTypes ==
  ASSUME scenario \in Scenarios, NEW k \in Keys
  PROVE  k.port \in scenario.ports /\ k.port \in Port
BY ScenarioTypes DEF Keys

\* What the capture thread holds.
LEMMA HeldTypes ==
  ASSUME TypeOK, held # NoPacket
  PROVE  /\ held.kind \in {"query", "reply"} /\ held.key \in Keys
         /\ held.key.port \in Port /\ held.key.port \in scenario.ports
         /\ held.at \in Times /\ held.at \in Nat /\ held.query \in Numbers
         /\ held.kind = "query" => held.name \in Name
         /\ held.kind = "reply" => held.good \in BOOLEAN
<1>1. scenario.time \in Nat BY ScenarioTypes DEF TypeOK
<1>2. held \in Packets BY DEF TypeOK
<1>3. CASE held.kind = "query"
  <2>1. held \in [kind : {"query"}, key : Keys, name : Name, at : Times, query : Numbers]
    BY <1>2, <1>3 DEF Packets
  <2> QED BY <2>1, <1>1, <1>3, KeyTypes DEF Times, TypeOK
<1>4. CASE held.kind # "query"
  <2>1. held \in [kind : {"reply"}, key : Keys, good : BOOLEAN, at : Times, query : Numbers]
    BY <1>2, <1>4 DEF Packets
  <2> QED BY <2>1, <1>1, <1>4, KeyTypes DEF Times, TypeOK
<1> QED BY <1>3, <1>4

\* A step that takes a packet has one.
LEMMA Holding == held.kind \in {"query", "reply"} => held # NoPacket
BY DEF NoPacket

LEMMA NewTypes ==
  ASSUME NEW m \in Metas
  PROVE  NewUpstream(m) \in Upstreams
BY ZeroTypes DEF NewUpstream, Upstreams, Metas, Healths, Never

LEMMA TypesInit == Init => TypeOK
<1> SUFFICES ASSUME Init PROVE TypeOK OBVIOUS
<1> USE DEF Init
<1>1. /\ scenario.ports \in SUBSET Port /\ scenario.time \in Nat /\ scenario.queries \in Nat
      /\ scenario.time >= Minute
  BY ScenarioTypes
<1>2. Minute \in Nat \ {0} BY Constants
<1>3. Minute \in Times /\ 0 \in Times BY <1>1, <1>2 DEF Times
<1>4. upstream \in [scenario.ports -> Upstreams] BY NewTypes DEF Metas
<1>5. history \in [0..(Buckets - 1) -> BucketsOf] BY EmptyTypes
<1>6. total \in Counters BY ZeroTypes
<1>7. /\ fault \in [scenario.ports -> FaultKinds]
      /\ gone \in [Port -> [FaultKinds -> Times \union {Never}]]
      /\ fell \in [Port -> Times \union {Never}]
      /\ alert \in [Port -> {"none", "DOWN", "RECOVERED"}]
      /\ recent \in [Metas -> [Name -> SUBSET [when : Times, key : Keys, query : Numbers]]]
  BY DEF FaultKinds
<1>8. asked \in Seq([key : Keys, name : Name, at : Times, replies : 0..scenario.replies])
  OBVIOUS
<1>9. Len(asked) <= scenario.queries BY <1>1
<1>10. verdict \in [Numbers -> SUBSET Verdicts] BY DEF Numbers
<1>11. pending = <<>> /\ timedOut = <<>> /\ diagnosing = <<>> OBVIOUS
<1>12. DOMAIN pending = {} /\ DOMAIN timedOut = {} /\ DOMAIN diagnosing = {} BY <1>11
<1>13. /\ pending \in [DOMAIN pending -> [query : Numbers, name : Name, when : Times]]
       /\ timedOut \in [DOMAIN timedOut -> [query : Numbers, when : Times, at : Times]]
       /\ diagnosing \in [DOMAIN diagnosing -> {"bound", "plain"}]
  BY <1>12
<1> QED BY <1>3, <1>4, <1>5, <1>6, <1>7, <1>8, <1>9, <1>10, <1>12, <1>13 DEF TypeOK, Known

LEMMA AskedTypes ==
  ASSUME TypeOK, NEW i \in 1..Len(asked)
  PROVE  /\ asked[i] \in Questions /\ i \in Numbers
         /\ asked[i].key \in Keys /\ asked[i].key.port \in Port
         /\ asked[i].at \in Times /\ asked[i].at \in Nat
         /\ asked[i].replies \in Nat
<1>1. scenario.queries \in Nat /\ scenario.time \in Nat /\ scenario.replies \in Nat
  BY ScenarioTypes DEF TypeOK
<1>2. asked \in Seq(Questions) /\ Len(asked) <= scenario.queries BY DEF TypeOK
<1>3. Len(asked) \in Nat BY <1>2
<1>4. i \in Numbers BY <1>1, <1>2, <1>3 DEF Numbers
<1>5. asked[i] \in Questions BY <1>2
<1> QED BY <1>1, <1>4, <1>5, KeyTypes DEF Questions, Times, TypeOK

LEMMA TypesCapture ==
  ASSUME TypeOK, Capture
  PROVE  TypeOK'
<1> USE DEF Capture
<1>0. scenario.time \in Nat /\ scenario.queries \in Nat /\ scenario.replies \in Nat
  BY ScenarioTypes DEF TypeOK
<1>1. CASE \E k \in Keys, n \in Name : CaptureQuery(k, n)
  <2>1. PICK k \in Keys, n \in Name : CaptureQuery(k, n) BY <1>1
  <2> USE DEF CaptureQuery
  <2>2. Len(asked) \in Nat /\ Len(asked) + 1 <= scenario.queries /\ clock \in Times
    BY <2>1, <1>0 DEF TypeOK
  <2>3. Len(asked) + 1 \in Numbers BY <2>2, <1>0 DEF Numbers
  <2>4. [key |-> k, name |-> n, at |-> clock, replies |-> 0] \in Questions
    BY <2>2, <1>0 DEF Questions
  <2>5. asked' \in Seq(Questions) /\ Len(asked') <= scenario.queries
    BY <2>1, <2>2, <2>4 DEF TypeOK
  <2>6. held' \in Packets \union {NoPacket} BY <2>1, <2>2, <2>3 DEF Packets
  <2>7. scenario' = scenario BY <2>1
  <2> QED
    BY <2>1, <2>5, <2>6, <2>7, SameSets DEF TypeOK, store, diagnosis, Known
<1>2. CASE \E i \in 1..Len(asked), good \in BOOLEAN : CaptureReply(i, good)
  <2>1. PICK i \in 1..Len(asked), good \in BOOLEAN : CaptureReply(i, good) BY <1>2
  <2> USE DEF CaptureReply
  <2>2. asked[i] \in Questions /\ i \in Numbers /\ asked[i].key \in Keys /\ clock \in Times
    BY AskedTypes DEF TypeOK
  <2>3. [asked[i] EXCEPT !.replies = @ + 1] \in Questions BY <2>1, <2>2, <1>0 DEF Questions
  <2>4. asked' = [asked EXCEPT ![i] = [asked[i] EXCEPT !.replies = @ + 1]]
    BY <2>1
  <2>5. asked' \in Seq(Questions) /\ Len(asked') = Len(asked)
    BY <2>4, <2>3 DEF TypeOK
  <2>6. held' \in Packets \union {NoPacket} BY <2>1, <2>2 DEF Packets
  <2>7. scenario' = scenario BY <2>1
  <2> QED
    BY <2>1, <2>5, <2>6, <2>7, SameSets DEF TypeOK, store, diagnosis, Known
<1> QED BY <1>1, <1>2

LEMMA KnownTypes ==
  ASSUME TypeOK, NEW p \in Known
  PROVE  /\ p \in Port /\ p \in scenario.ports
         /\ upstream[p] \in Upstreams
         /\ upstream[p].count \in Counters
         /\ upstream[p].meta \in Metas /\ upstream[p].health \in Healths
         /\ upstream[p].fails \in Nat
         /\ upstream[p].observed \in Times \union {Never}
         /\ upstream[p].ran \in Times \union {Never}
<1>1. scenario.ports \in SUBSET Port BY ScenarioTypes DEF TypeOK
<1>2. upstream[p] \in Upstreams BY DEF TypeOK
<1> QED BY <1>1, <1>2 DEF TypeOK, Upstreams

LEMMA PendingTypes ==
  ASSUME TypeOK, NEW k \in DOMAIN pending
  PROVE  /\ k \in Keys /\ k.port \in Port /\ k.port \in scenario.ports
         /\ pending[k].query \in Numbers /\ pending[k].query \in Nat
         /\ pending[k].when \in Times /\ pending[k].when \in Nat
         /\ pending[k] = [query |-> pending[k].query, name |-> pending[k].name,
                          when |-> pending[k].when]
         /\ pending[k].name \in Name
<1>1. scenario.time \in Nat /\ scenario.queries \in Nat BY ScenarioTypes DEF TypeOK
<1>2. pending[k] \in [query : Numbers, name : Name, when : Times] /\ k \in Keys
  BY DEF TypeOK
<1> QED BY <1>1, <1>2, KeyTypes DEF Times, Numbers, TypeOK

LEMMA TimedOutTypes ==
  ASSUME TypeOK, NEW k \in DOMAIN timedOut
  PROVE  /\ k \in Keys /\ k.port \in Port
         /\ timedOut[k].query \in Numbers
         /\ timedOut[k].when \in Times /\ timedOut[k].when \in Nat
         /\ timedOut[k].at \in Times /\ timedOut[k].at \in Nat
<1>1. scenario.time \in Nat BY ScenarioTypes DEF TypeOK
<1>2. timedOut[k] \in [query : Numbers, when : Times, at : Times] /\ k \in Keys
  BY DEF TypeOK
<1> QED BY <1>1, <1>2, KeyTypes DEF Times, TypeOK

LEMMA ProfileTypes ==
  ASSUME TypeOK, NEW p
  PROVE  Profile(p) \in Metas
BY KnownTypes DEF Profile, Metas

\* A fallback has a source, and the source is what FallbackSources says.
LEMMA SourceFacts ==
  ASSUME TypeOK, held.kind = "query", FallbackSources # {}
  PROVE  /\ FallbackSource \in FallbackSources
         /\ \A o \in FallbackSources : o.query <= FallbackSource.query
         /\ FallbackSource.key \in DOMAIN pending
         /\ FallbackSource.key.port \in Port
         /\ FallbackSource.key.port # held.key.port
         /\ FallbackSource.when \in Times /\ FallbackSource.when \in Nat
         /\ FallbackSource.query \in Numbers
         /\ FallbackSource.when <= held.at /\ held.at - FallbackSource.when <= FallbackTo
         /\ FallbackSource \in recent[Profile(held.key.port)][held.name]
<1> DEFINE R == [when : Times, key : Keys, query : Numbers]
<1>1. scenario.time \in Nat /\ scenario.queries \in Nat BY ScenarioTypes DEF TypeOK
<1>2. held.name \in Name /\ held.at \in Nat BY HeldTypes, Holding
<1>3. recent[Profile(held.key.port)][held.name] \in SUBSET R
  BY <1>2, ProfileTypes DEF TypeOK
<1>4. FallbackSources \in SUBSET R BY <1>3 DEF FallbackSources, SeenLately
<1>5. \A r \in R : r.query \in 0..scenario.queries /\ r.query \in Numbers
                  /\ r.when \in Times /\ r.when \in Nat
                  /\ r.key.port \in Port
  BY <1>1, KeyTypes DEF Numbers, Times, TypeOK
<1> HIDE DEF R
<1> DEFINE Q == {r.query : r \in FallbackSources}
<1>6. Q \in SUBSET (0..scenario.queries) BY <1>4, <1>5
<1>7. Q # {} OBVIOUS
<1>8. PICK q \in Q : \A o \in Q : o <= q BY <1>1, <1>6, <1>7, Greatest
<1>9. PICK r \in FallbackSources : r.query = q OBVIOUS
<1>10. \A o \in FallbackSources : o.query <= r.query BY <1>8, <1>9
<1>11. /\ FallbackSource \in FallbackSources
       /\ \A o \in FallbackSources : o.query <= FallbackSource.query
  BY <1>10 DEF FallbackSource
<1>12. FallbackSource \in R BY <1>4, <1>11
<1>13. /\ FallbackSource \in recent[Profile(held.key.port)][held.name]
       /\ FallbackSource.key.port # held.key.port
       /\ FallbackSource.key \in DOMAIN pending
       /\ held.at - FallbackSource.when \in FallbackFrom..FallbackTo
  BY <1>11 DEF FallbackSources, SeenLately
<1>14. FallbackSource.when \in Nat BY <1>12, <1>5
<1>15. FallbackSource.when <= held.at /\ held.at - FallbackSource.when <= FallbackTo
  BY <1>13, <1>14, <1>2, Constants
<1> QED BY <1>11, <1>12, <1>13, <1>15, <1>5

LEMMA TypesQuery ==
  ASSUME TypeOK, RecordQuery
  PROVE  TypeOK'
<1> DEFINE p == held.key.port
           t == held.at
<1>1. /\ held # NoPacket /\ held.kind = "query" /\ scenario' = scenario
      /\ held' = NoPacket
  BY Holding DEF RecordQuery, Recorded
<1>2. /\ held.key \in Keys /\ p \in Port /\ p \in scenario.ports /\ t \in Times /\ t \in Nat /\ held.query \in Numbers
      /\ held.name \in Name
  BY <1>1, HeldTypes
<1>3. Profile(p) \in Metas BY ProfileTypes
<1>4. pending' \in [DOMAIN pending' -> [query : Numbers, name : Name, when : Times]]
      /\ DOMAIN pending' \subseteq Keys
  <2> DEFINE v == [query |-> held.query, name |-> held.name, when |-> t]
             V == [query : Numbers, name : Name, when : Times]
  <2>1. pending' = Put(pending, held.key, v) BY DEF RecordQuery
  <2>2. v \in V BY <1>2
  <2>3. pending \in [DOMAIN pending -> V] /\ DOMAIN pending \subseteq Keys BY DEF TypeOK
  <2> HIDE DEF v, V
  <2>4. pending' \in [DOMAIN pending' -> V] /\ DOMAIN pending' = DOMAIN pending \union {held.key}
    BY ONLY <2>1, <2>2, <2>3 DEF Put
  <2> QED BY <2>3, <2>4, <1>2 DEF V
<1>5. recent' \in [Metas -> [Name -> SUBSET [when : Times, key : Keys, query : Numbers]]]
  <2> DEFINE R == [when : Times, key : Keys, query : Numbers]
             new == [when |-> t, key |-> held.key, query |-> held.query]
  <2>1. new \in R BY <1>2
  <2>2. recent' = [recent EXCEPT ![Profile(p)][held.name] = SeenLately \union {new}]
    BY DEF RecordQuery
  <2>3. recent \in [Metas -> [Name -> SUBSET R]] BY DEF TypeOK
  <2> HIDE DEF R, new
  <2>4. SeenLately \in SUBSET R BY <2>3, <1>2, <1>3 DEF SeenLately
  <2>5. SeenLately \union {new} \in SUBSET R BY <2>1, <2>4
  <2>6. recent' \in [Metas -> [Name -> SUBSET R]] BY <2>2, <2>3, <2>5
  <2> QED BY <2>6 DEF R
<1> DEFINE st    == IF p \in Known THEN upstream[p] ELSE NewUpstream("unknown")
           new   == [st EXCEPT !.count = Bump(@, {"requests"})]
           known == Put(upstream, p, new)
           h     == Cohort(Wire(history, t, {"requests"}), t, p, {"requests"})
           from  == FallbackSource
<1>6. known \in [Known \union {p} -> Upstreams] /\ DOMAIN known = Known \union {p}
  <2>1. st \in Upstreams BY KnownTypes, NewTypes DEF Metas
  <2>2. st.count \in Counters BY <2>1 DEF Upstreams
  <2> HIDE DEF st
  <2>3. Bump(st.count, {"requests"}) \in Counters BY <2>2, BumpTypes
  <2>4. new \in Upstreams BY <2>1, <2>3 DEF Upstreams
  <2>5. upstream \in [Known -> Upstreams] BY DEF TypeOK
  <2> HIDE DEF new
  <2>6. known \in [Known \union {p} -> Upstreams] BY <2>4, <2>5, PutTypes
  <2> QED BY <2>6
<1>7. h \in [0..(Buckets - 1) -> BucketsOf] BY <1>2, HistoryTypes DEF TypeOK
<1> HIDE DEF known, h
<1>8. /\ upstream' \in [DOMAIN upstream' -> Upstreams] /\ DOMAIN upstream' = Known \union {p}
      /\ history' \in [0..(Buckets - 1) -> BucketsOf]
      /\ total' \in Counters
  <2>1. CASE FallbackSources = {}
    <3>1. upstream' = known /\ history' = h /\ total' = Bump(total, {"requests"})
      BY <2>1 DEF RecordQuery, known, h
    <3> QED BY <3>1, <1>6, <1>7, BumpTypes DEF TypeOK
  <2>2. CASE FallbackSources # {}
    <3>1. /\ upstream' = IF from.key.port \in Known
                         THEN [known EXCEPT ![from.key.port].count = Bump(@, {"fallbacks"})]
                         ELSE known
          /\ history' = Cohort(Wire(h, t, {"fallbacks"}), from.when, from.key.port, {"fallbacks"})
          /\ total' = Bump(total, {"requests", "fallbacks"})
      BY <2>2 DEF RecordQuery, known, h
    <3>2. from.when \in Nat /\ from.key.port \in Port BY <1>1, <2>2, SourceFacts
    <3>3. history' \in [0..(Buckets - 1) -> BucketsOf]
      BY <3>1, <3>2, <1>2, <1>7, HistoryTypes
    <3>4. \A q \in Known \union {p} : known[q] \in Upstreams /\ known[q].count \in Counters
      BY <1>6 DEF Upstreams
    <3>5. \A q \in Known \union {p} : Bump(known[q].count, {"fallbacks"}) \in Counters
      BY <3>4, BumpTypes
    <3>6. \A q \in Known \union {p} :
            [known[q] EXCEPT !.count = Bump(@, {"fallbacks"})] \in Upstreams
      BY <3>4, <3>5 DEF Upstreams
    <3>7. ASSUME from.key.port \in Known
          PROVE  upstream' = [known EXCEPT ![from.key.port] =
                                [known[from.key.port] EXCEPT !.count = Bump(@, {"fallbacks"})]]
      BY <3>1, <3>7
    <3>8. upstream' \in [Known \union {p} -> Upstreams] /\ DOMAIN upstream' = Known \union {p}
      BY <3>1, <3>6, <3>7, <1>6
    <3> QED BY <3>1, <3>3, <3>8, BumpTypes DEF TypeOK
  <2> QED BY <2>1, <2>2
<1>9. alert' \in [Port -> {"none", "DOWN", "RECOVERED"}] BY DEF RecordQuery, TypeOK
<1>10. verdict' \in [Numbers -> SUBSET Verdicts]
  BY DEF RecordQuery, Counted, TypeOK, Verdicts
<1>11. /\ UNCHANGED <<scenario, clock, swept, round, probing, diagnosis, asked, timedOut>>
       /\ scenario' = scenario
  BY DEF RecordQuery, Recorded
<1> QED
  BY <1>1, <1>2, <1>4, <1>5, <1>8, <1>9, <1>10, <1>11, SameSets DEF TypeOK, diagnosis, Known

\* One counter of a resolver that is known grows.
LEMMA CountTypes ==
  ASSUME TypeOK, NEW p \in Known, NEW F
  PROVE  [upstream EXCEPT ![p].count = Bump(@, F)] \in [Known -> Upstreams]
<1>1. upstream[p] \in Upstreams /\ upstream[p].count \in Counters BY KnownTypes
<1>2. Bump(upstream[p].count, F) \in Counters BY <1>1, BumpTypes
<1>3. [upstream[p] EXCEPT !.count = Bump(@, F)] \in Upstreams BY <1>1, <1>2 DEF Upstreams
<1>4. [upstream EXCEPT ![p].count = Bump(@, F)] =
        [upstream EXCEPT ![p] = [upstream[p] EXCEPT !.count = Bump(@, F)]]
  OBVIOUS
<1> QED BY <1>3, <1>4 DEF TypeOK

LEMMA TypesReply ==
  ASSUME TypeOK, ReplyIgnored \/ ReplyLate \/ ReplyUnmatched \/ ReplyMatched
  PROVE  TypeOK'
<1> DEFINE p == held.key.port
           k == held.key
<1>1. /\ held # NoPacket /\ held.kind = "reply" /\ scenario' = scenario /\ held' = NoPacket
      /\ UNCHANGED <<scenario, clock, swept, round, probing, diagnosis, asked>>
  BY Holding DEF ReplyIgnored, ReplyLate, ReplyUnmatched, ReplyMatched, Recorded
<1>2. /\ k \in Keys /\ p \in Port /\ held.at \in Times /\ held.at \in Nat
      /\ held.query \in Numbers /\ held.good \in BOOLEAN
  BY <1>1, HeldTypes
<1>3. CASE ReplyIgnored
  BY <1>1, <1>3, SameSets DEF ReplyIgnored, store, TypeOK, diagnosis, Known
<1>4. CASE ReplyUnmatched
  <2>1. upstream' \in [Known -> Upstreams] BY <1>4, CountTypes DEF ReplyUnmatched
  <2>2. DOMAIN upstream' = Known BY <2>1
  <2>3. total' \in Counters BY <1>4, BumpTypes DEF ReplyUnmatched, TypeOK
  <2> QED
    BY <1>1, <1>4, <2>1, <2>2, <2>3, SameSets DEF ReplyUnmatched, TypeOK, diagnosis, Known
<1>5. CASE ReplyLate
  <2> USE <1>5 DEF ReplyLate
  <2>1. upstream' \in [Known -> Upstreams] BY CountTypes
  <2>2. DOMAIN upstream' = Known BY <2>1
  <2>3. total' \in Counters BY BumpTypes DEF TypeOK
  <2> DEFINE V == [query : Numbers, when : Times, at : Times]
  <2>a. timedOut \in [DOMAIN timedOut -> V] /\ DOMAIN timedOut \subseteq Keys BY DEF TypeOK
  <2>b. timedOut' = Drop(timedOut, {k}) BY DEF Forget
  <2> HIDE DEF V
  <2>c. timedOut' \in [DOMAIN timedOut' -> V] /\ DOMAIN timedOut' \subseteq Keys
    BY ONLY <2>a, <2>b DEF Drop
  <2>4. /\ timedOut' \in [DOMAIN timedOut' -> [query : Numbers, when : Times, at : Times]]
        /\ DOMAIN timedOut' \subseteq Keys
    BY <2>c DEF V
  <2>5. timedOut[k].when \in Nat BY TimedOutTypes
  <2>6. history' \in [0..(Buckets - 1) -> BucketsOf]
    BY <2>5, <1>2, HistoryTypes DEF Since, TypeOK
  <2>7. verdict' \in [Numbers -> SUBSET Verdicts] BY <1>2 DEF Counted, TypeOK, Verdicts
  <2> QED
    BY <1>1, <2>1, <2>2, <2>3, <2>4, <2>6, <2>7, SameSets DEF TypeOK, diagnosis, Known
<1>6. CASE ReplyMatched
  <2> DEFINE what == IF held.good THEN "success" ELSE "errors"
             st   == [upstream[p] EXCEPT !.count = Bump(@, {"responses", what})]
  <2> USE <1>6 DEF ReplyMatched
  <2>0. p \in Known /\ k \in DOMAIN pending OBVIOUS
  <2>1. upstream[p] \in Upstreams /\ upstream[p].count \in Counters BY <2>0, KnownTypes
  <2>2. Bump(upstream[p].count, {"responses", what}) \in Counters BY <2>1, BumpTypes
  <2> HIDE DEF what
  <2>3. st \in Upstreams BY <2>1, <2>2 DEF Upstreams
  <2> HIDE DEF st
  <2>4. Answered(st) \in Upstreams BY <2>3, <1>2 DEF Answered, Upstreams, Healths
  <2>5. upstream' = [upstream EXCEPT ![p] = Answered(st)] \/ upstream' = [upstream EXCEPT ![p] = st]
    BY DEF st, what
  <2>6. upstream' \in [Known -> Upstreams] /\ DOMAIN upstream' = Known
    BY <2>3, <2>4, <2>5, <2>0 DEF TypeOK
  <2>7. total' \in Counters BY BumpTypes DEF TypeOK
  <2> DEFINE V == [query : Numbers, name : Name, when : Times]
  <2>a. pending \in [DOMAIN pending -> V] /\ DOMAIN pending \subseteq Keys BY DEF TypeOK
  <2>b. pending' = Drop(pending, {k}) BY DEF Settle
  <2> HIDE DEF V
  <2>c. pending' \in [DOMAIN pending' -> V] /\ DOMAIN pending' \subseteq Keys
    BY ONLY <2>a, <2>b DEF Drop
  <2>8. /\ pending' \in [DOMAIN pending' -> [query : Numbers, name : Name, when : Times]]
        /\ DOMAIN pending' \subseteq Keys
    BY <2>c DEF V
  <2>9. pending[k].when \in Nat /\ pending[k].query \in Numbers BY <2>0, PendingTypes
  <2>10. history' \in [0..(Buckets - 1) -> BucketsOf]
    BY <2>9, <1>2, HistoryTypes DEF Since, TypeOK
  <2>11. verdict' \in [Numbers -> SUBSET Verdicts] BY <2>9 DEF Counted, TypeOK, Verdicts
  <2>12. alert' \in [Port -> {"none", "DOWN", "RECOVERED"}] BY <1>2 DEF Recovered, TypeOK
  <2>13. UNCHANGED <<timedOut, recent>> OBVIOUS
  <2> QED
    BY <1>1, <2>6, <2>7, <2>8, <2>10, <2>11, <2>12, <2>13, SameSets DEF TypeOK, diagnosis, Known
<1> QED BY <1>3, <1>4, <1>5, <1>6

LEMMA TypesCleanup ==
  ASSUME TypeOK, CleanupTransient, IsFiniteSet(DOMAIN pending)
  PROVE  TypeOK'
<1> DEFINE counted == {k \in Overdue : k.port \in Known}
           of(p)   == {k \in counted : k.port = p}
           late    == [k \in Overdue |->
                        [query |-> pending[k].query, when |-> pending[k].when, at |-> clock]]
           T       == {clock} \union {Since(pending[k]) : k \in counted}
           h       == Opened(history, T)
<1>1. /\ scenario' = scenario /\ swept' = clock
      /\ UNCHANGED <<scenario, clock, held, round, probing, diagnosis, alert, asked>>
  BY DEF CleanupTransient
<1>2. scenario.time \in Nat /\ clock \in Nat /\ clock \in Times
  BY ScenarioTypes DEF TypeOK, Times
<1>3. Overdue \subseteq DOMAIN pending /\ IsFiniteSet(Overdue)
  BY FS_Subset DEF Overdue
<1>4. counted \subseteq Overdue /\ IsFiniteSet(counted) BY <1>3, FS_Subset
<1>5. \A S \in SUBSET counted : Cardinality(S) \in Nat
  BY <1>4, FS_Subset, FS_CardinalityType
<1>6. /\ upstream' \in [Known -> Upstreams] /\ DOMAIN upstream' = Known
      /\ total' \in Counters
      /\ history' \in [0..(Buckets - 1) -> BucketsOf]
  <2>1. CASE counted = {}
    <3>1. UNCHANGED <<upstream, total, history>> BY <2>1 DEF CleanupTransient
    <3> QED BY <3>1 DEF TypeOK, Known
  <2>2. CASE counted # {}
    <3> DEFINE n == Cardinality(counted)
               u(p) == [upstream[p] EXCEPT !.count = Add(@, {"timeouts"}, Cardinality(of(p)))]
               b(i) == [minute |-> h[i].minute,
                        wire   |-> IF i = Slot(clock)
                                   THEN Add(h[i].wire, {"timeouts", "errors"}, n)
                                   ELSE h[i].wire,
                        cohort |-> [p \in Port |-> Add(h[i].cohort[p], {"timeouts"},
                          Cardinality({k \in of(p) : Slot(Since(pending[k])) = i}))]]
    <3>1. /\ upstream' = [p \in Known |-> u(p)]
          /\ total' = Add(total, {"timeouts"}, n)
          /\ history' = [i \in DOMAIN h |-> b(i)]
      BY <2>2 DEF CleanupTransient
    <3>2. ASSUME NEW p \in Known PROVE u(p) \in Upstreams
      <4>1. upstream[p] \in Upstreams /\ upstream[p].count \in Counters BY KnownTypes
      <4>2. Cardinality(of(p)) \in Nat BY <1>5
      <4>3. Add(upstream[p].count, {"timeouts"}, Cardinality(of(p))) \in Counters
        BY <4>1, <4>2, AddTypes
      <4> HIDE DEF of
      <4> QED BY <4>1, <4>3 DEF Upstreams
    <3>3. total' \in Counters BY <3>1, <1>5, AddTypes DEF TypeOK
    <3>4. T \in SUBSET Nat
      BY <1>2, <1>3, <1>4, PendingTypes DEF Since
    <3>5. h \in [0..(Buckets - 1) -> BucketsOf] BY <3>4, OpenedTypes DEF TypeOK, Ring
    <3> HIDE DEF h
    <3>6. ASSUME NEW i \in 0..(Buckets - 1) PROVE b(i) \in BucketsOf
      <4>1. /\ h[i].minute \in Nat /\ h[i].wire \in Counters
            /\ \A p \in Port : h[i].cohort[p] \in Counters
        BY <3>5 DEF BucketsOf
      <4>2. Add(h[i].wire, {"timeouts", "errors"}, n) \in Counters BY <4>1, <1>5, AddTypes
      <4>3. \A p \in Port : {k \in of(p) : Slot(Since(pending[k])) = i} \in SUBSET counted
        OBVIOUS
      <4>4. \A p \in Port :
              Cardinality({k \in of(p) : Slot(Since(pending[k])) = i}) \in Nat
        BY <4>3, <1>5
      <4> DEFINE m(p) == Cardinality({k \in of(p) : Slot(Since(pending[k])) = i})
      <4>5. \A p \in Port : m(p) \in Nat BY <4>4
      <4> HIDE DEF m, n
      <4>6. \A p \in Port : Add(h[i].cohort[p], {"timeouts"}, m(p)) \in Counters
        BY <4>1, <4>5, AddTypes
      <4>7. [p \in Port |-> Add(h[i].cohort[p], {"timeouts"}, m(p))] \in [Port -> Counters]
        BY <4>6
      <4>8. b(i).cohort = [p \in Port |-> Add(h[i].cohort[p], {"timeouts"}, m(p))]
        BY DEF m
      <4> QED BY <4>1, <4>2, <4>7, <4>8 DEF BucketsOf
    <3> HIDE DEF b, u
    <3>7. DOMAIN h = 0..(Buckets - 1) BY <3>5
    <3>8. history' \in [0..(Buckets - 1) -> BucketsOf] BY <3>1, <3>6, <3>7
    <3>9. upstream' \in [Known -> Upstreams] BY <3>1, <3>2
    <3>10. DOMAIN upstream' = Known BY <3>1
    <3> QED BY <3>3, <3>8, <3>9, <3>10
  <2> QED BY <2>1, <2>2
<1>7. /\ pending' \in [DOMAIN pending' -> [query : Numbers, name : Name, when : Times]]
      /\ DOMAIN pending' \subseteq Keys
  <2> DEFINE V == [query : Numbers, name : Name, when : Times]
  <2>1. pending \in [DOMAIN pending -> V] /\ DOMAIN pending \subseteq Keys BY DEF TypeOK
  <2>2. pending' = Drop(pending, Overdue) BY DEF CleanupTransient, Settle
  <2> HIDE DEF V
  <2>3. pending' \in [DOMAIN pending' -> V] /\ DOMAIN pending' \subseteq Keys
    BY ONLY <2>1, <2>2 DEF Drop
  <2> QED BY <2>3 DEF V
<1>8. /\ timedOut' \in [DOMAIN timedOut' -> [query : Numbers, when : Times, at : Times]]
      /\ DOMAIN timedOut' \subseteq Keys
  <2> DEFINE V == [query : Numbers, when : Times, at : Times]
  <2>1. timedOut \in [DOMAIN timedOut -> V] /\ DOMAIN timedOut \subseteq Keys BY DEF TypeOK
  <2>2. timedOut' = [k \in (DOMAIN timedOut \ Expired) \union Overdue |->
                      IF k \in Overdue THEN late[k] ELSE timedOut[k]]
    BY DEF CleanupTransient
  <2>3. \A k \in Overdue : late[k] \in V /\ k \in Keys BY <1>2, <1>3, PendingTypes
  <2> HIDE DEF V, late
  <2>4. timedOut' \in [DOMAIN timedOut' -> V] /\ DOMAIN timedOut' \subseteq Keys
    BY ONLY <2>1, <2>2, <2>3
  <2> QED BY <2>4 DEF V
<1>9. recent' \in [Metas -> [Name -> SUBSET [when : Times, key : Keys, query : Numbers]]]
  BY DEF CleanupTransient, TypeOK
<1>10. verdict' \in [Numbers -> SUBSET Verdicts]
  <2>1. \A i \in Numbers : verdict[i] \union {"timeout"} \in SUBSET Verdicts
    BY DEF TypeOK, Verdicts
  <2> QED BY <2>1 DEF CleanupTransient, TypeOK
<1> QED
  BY <1>1, <1>2, <1>6, <1>7, <1>8, <1>9, <1>10, SameSets DEF TypeOK, diagnosis, Known

\* A probe's verdict and a diagnosis keep a resolver's shape.
LEMMA ProbedTypes ==
  ASSUME NEW st \in Upstreams, NEW ok \in BOOLEAN
  PROVE  Probed(st, ok) \in Upstreams
<1>1. CASE ok
  <2>1. Probed(st, ok) = [st EXCEPT !.health = "UP", !.fails = 0] BY <1>1 DEF Probed
  <2>2. "UP" \in Healths /\ 0 \in Nat BY DEF Healths
  <2> QED BY <2>1, <2>2 DEF Upstreams
<1>2. CASE ~ok
  <2> DEFINE v == IF Shielded(st) THEN "UP" ELSE IF st.fails > 0 THEN "DOWN" ELSE "DEGRADED"
  <2>1. Probed(st, ok) = [st EXCEPT !.fails = @ + 1, !.health = v] BY <1>2 DEF Probed
  <2>2. v \in Healths BY DEF Healths
  <2>3. st.fails + 1 \in Nat BY DEF Upstreams
  <2> HIDE DEF v
  <2> QED BY <2>1, <2>2, <2>3 DEF Upstreams
<1> QED BY <1>1, <1>2

LEMMA TypesProbe ==
  ASSUME TypeOK, NEW p \in scenario.ports, NEW ok \in BOOLEAN, SetHealth(p, ok)
  PROVE  TypeOK'
<1> USE DEF SetHealth
<1>1. /\ UNCHANGED <<scenario, clock, swept, pending, timedOut, recent, total, held,
                    round, diagRound, diagnosing, fault, gone, asked, verdict>>
      /\ scenario' = scenario /\ probing' = probing \ {p}
  OBVIOUS
<1>2. clock \in Times /\ clock \in Nat /\ p \in Port BY ScenarioTypes DEF TypeOK, Times
<1>3. CASE p \notin Known
  BY <1>1, <1>3, SameSets DEF TypeOK, Known
<1>4. CASE p \in Known
  <2> DEFINE st == Probed(upstream[p], ok)
  <2>1. st \in Upstreams BY <1>4, KnownTypes, ProbedTypes
  <2>2. /\ upstream' = [upstream EXCEPT ![p] = st]
        /\ history' = history \/ history' = Wire(history, clock, {"errors"})
        /\ fell' = fell \/ fell' = [fell EXCEPT ![p] = clock]
        /\ \/ alert' = alert \/ alert' = [alert EXCEPT ![p] = "DOWN"]
           \/ alert' = [alert EXCEPT ![p] = "RECOVERED"]
    BY <1>4 DEF Recovered
  <2> HIDE DEF st
  <2>3. upstream' \in [Known -> Upstreams] /\ DOMAIN upstream' = Known
    BY <2>1, <2>2 DEF TypeOK
  <2>4. history' \in [0..(Buckets - 1) -> BucketsOf]
    BY <2>2, <1>2, HistoryTypes DEF TypeOK
  <2>a. fell \in [Port -> Times \union {Never}]
        /\ alert \in [Port -> {"none", "DOWN", "RECOVERED"}]
    BY DEF TypeOK
  <2>b. fell' \in [Port -> Times \union {Never}] BY ONLY <2>a, <2>2, <1>2
  <2>c. alert' \in [Port -> {"none", "DOWN", "RECOVERED"}] BY ONLY <2>a, <2>2
  <2>5. /\ fell' \in [Port -> Times \union {Never}]
        /\ alert' \in [Port -> {"none", "DOWN", "RECOVERED"}]
    BY <2>b, <2>c
  <2> QED BY ONLY TypeOK, <1>1, <2>3, <2>4, <2>5, SameSets DEF TypeOK, Known
<1> QED BY <1>3, <1>4

LEMMA TypesDiagnose ==
  ASSUME TypeOK, NEW p \in scenario.ports, DiagnoseUpstream(p)
  PROVE  TypeOK'
<1> USE DEF DiagnoseUpstream
<1>1. /\ UNCHANGED <<scenario, clock, swept, pending, timedOut, recent, history, total,
                    held, round, probing, diagRound, fault, gone, fell, alert, asked, verdict>>
      /\ scenario' = scenario
  OBVIOUS
<1>2. /\ clock \in Nat /\ diagRound \in Nat /\ scenario.time \in Nat /\ clock <= scenario.time
      /\ p \in DOMAIN diagnosing
  BY ScenarioTypes DEF TypeOK, Times
<1>3. diagnosing \in [DOMAIN diagnosing -> {"bound", "plain"}]
      /\ DOMAIN diagnosing \subseteq scenario.ports
  BY DEF TypeOK
<1>4. ASSUME NEW found \in FaultKinds, Diagnosed(p, found) PROVE TypeOK'
  <2>1. diagnosing' = Drop(diagnosing, {p}) BY <1>4 DEF Diagnosed
  <2>2. /\ diagnosing' \in [DOMAIN diagnosing' -> {"bound", "plain"}]
        /\ DOMAIN diagnosing' \subseteq scenario.ports
    BY ONLY <2>1, <1>3 DEF Drop
  <2>3. upstream' \in [Known -> Upstreams] /\ DOMAIN upstream' = Known
    <3>1. CASE p \notin Known BY <1>4, <3>1 DEF Diagnosed, TypeOK, Known
    <3>2. CASE p \in Known
      <4>1. PICK t \in diagRound..clock :
              upstream' = [upstream EXCEPT ![p].ran = t, ![p].cause = found]
        BY <1>4, <3>2 DEF Diagnosed
      <4>2. t \in Times BY <1>2 DEF Times
      <4>3. upstream[p] \in Upstreams BY <3>2, KnownTypes
      <4>4. [upstream[p] EXCEPT !.ran = t, !.cause = found] \in Upstreams
        BY <4>2, <4>3 DEF Upstreams
      <4>5. upstream' = [upstream EXCEPT ![p] = [upstream[p] EXCEPT !.ran = t, !.cause = found]]
        BY <4>1, <3>2 DEF Known
      <4> QED BY <4>4, <4>5, <3>2 DEF TypeOK
    <3> QED BY <3>1, <3>2
  <2> QED BY ONLY TypeOK, <1>1, <2>2, <2>3, SameSets DEF TypeOK, Known
<1>5. ASSUME diagnosing' = [diagnosing EXCEPT ![p] = "plain"], UNCHANGED upstream PROVE TypeOK'
  <2>1. /\ diagnosing' \in [DOMAIN diagnosing' -> {"bound", "plain"}]
        /\ DOMAIN diagnosing' \subseteq scenario.ports
    BY <1>5, <1>3
  <2> QED BY ONLY TypeOK, <1>1, <1>5, <2>1, SameSets DEF TypeOK, Known
<1>6. \A step : Cause(step) \in FaultKinds BY DEF Cause, FaultKinds
<1>7. "UPSTREAM" \in FaultKinds BY DEF FaultKinds
<1> QED BY <1>4, <1>5, <1>6, <1>7

LEMMA TypesWatch ==
  ASSUME TypeOK, Watch
  PROVE  TypeOK'
<1>0. scenario.time \in Nat /\ clock \in Times /\ clock \in Nat
      /\ scenario.ports \in SUBSET Port
  BY ScenarioTypes DEF TypeOK, Times
<1>1. ASSUME NEW S \in SUBSET scenario.ports, UpdateDiscovery(S) PROVE TypeOK'
  <2> USE <1>1 DEF UpdateDiscovery
  <2> DEFINE u(p) == IF p \in Known THEN [upstream[p] EXCEPT !.meta = "found"]
                                   ELSE NewUpstream("found")
  <2>1. upstream' = [p \in S |-> u(p)] OBVIOUS
  <2>2. ASSUME NEW p \in S PROVE u(p) \in Upstreams
    <3>1. CASE p \in Known
      <4>1. upstream[p] \in Upstreams BY <3>1, KnownTypes
      <4>2. [upstream[p] EXCEPT !.meta = "found"] \in Upstreams
        BY <4>1 DEF Upstreams, Metas
      <4> QED BY <4>2, <3>1
    <3>2. CASE p \notin Known BY <3>2, NewTypes DEF Metas
    <3> QED BY <3>1, <3>2
  <2> HIDE DEF u
  <2>3. upstream' \in [S -> Upstreams] /\ DOMAIN upstream' = S BY <2>1, <2>2
  <2>4. alert' \in [Port -> {"none", "DOWN", "RECOVERED"}] BY DEF TypeOK
  <2>5. /\ UNCHANGED <<scenario, clock, swept, pending, timedOut, recent, history, total,
                      held, round, probing, diagnosis, asked, verdict>>
        /\ scenario' = scenario
    OBVIOUS
  <2> QED BY ONLY TypeOK, <2>3, <2>4, <2>5, S \in SUBSET scenario.ports, SameSets
          DEF TypeOK, Known, diagnosis
<1>2. CASE StartProbes
  BY <1>2, SameSets DEF StartProbes, TypeOK, Known, store, diagnosis
<1>3. ASSUME NEW p \in scenario.ports, CheckOne(p) PROVE TypeOK'
  BY <1>3, TypesProbe DEF CheckOne
<1>4. CASE StartDiagnoses
  <2> USE <1>4 DEF StartDiagnoses
  <2> DEFINE D == {p \in Known : Candidate(p)}
  <2>1. diagnosing' = [p \in D |-> "bound"] OBVIOUS
  <2>2. D \subseteq scenario.ports BY DEF TypeOK
  <2> HIDE DEF D
  <2>3. /\ diagnosing' \in [DOMAIN diagnosing' -> {"bound", "plain"}]
        /\ DOMAIN diagnosing' \subseteq scenario.ports
    BY <2>1, <2>2
  <2>4. /\ UNCHANGED <<scenario, clock, swept, store, held, round, probing, fault, gone,
                      fell, alert, asked, verdict>>
        /\ scenario' = scenario /\ diagRound' = clock
    OBVIOUS
  <2> QED BY ONLY TypeOK, <2>3, <2>4, SameSets DEF TypeOK, Known, store
<1>5. ASSUME NEW p \in scenario.ports, DiagnoseUpstream(p) PROVE TypeOK'
  BY <1>5, TypesDiagnose
<1>6. ASSUME NEW p \in scenario.ports, NEW f \in FaultKinds, FaultMoves(p, f) PROVE TypeOK'
  <2> USE <1>6 DEF FaultMoves
  <2>1. fault' \in [scenario.ports -> FaultKinds] BY DEF TypeOK
  <2>2. fault[p] \in FaultKinds /\ p \in Port BY <1>0 DEF TypeOK
  <2>3. gone' \in [Port -> [FaultKinds -> Times \union {Never}]] BY <2>2, <1>0 DEF TypeOK
  <2>4. /\ UNCHANGED <<scenario, clock, swept, store, held, round, probing, diagRound,
                      diagnosing, fell, alert, asked, verdict>>
        /\ scenario' = scenario
    OBVIOUS
  <2> QED BY ONLY TypeOK, <2>1, <2>3, <2>4, SameSets DEF TypeOK, Known, store
<1> QED BY <1>1, <1>2, <1>3, <1>4, <1>5, <1>6 DEF Watch

LEMMA TypesTick ==
  ASSUME TypeOK, Tick
  PROVE  TypeOK'
<1>1. scenario.time \in Nat BY ScenarioTypes DEF TypeOK
<1>2. clock' \in Times BY <1>1 DEF Tick, TypeOK, Times
<1> QED BY <1>2, SameSets DEF Tick, TypeOK, Known, store, diagnosis

\* The Store's maps are finite.
Finite == IsFiniteSet(DOMAIN pending) /\ IsFiniteSet(DOMAIN timedOut)

LEMMA FiniteNext ==
  ASSUME TypeOK, Finite, [Next]_vars
  PROVE  Finite'
<1> USE DEF Finite
<1>1. CASE UNCHANGED <<pending, timedOut>> BY <1>1
<1>2. CASE RecordQuery
  <2>1. DOMAIN pending' = DOMAIN pending \union {held.key} /\ UNCHANGED timedOut
    BY <1>2 DEF RecordQuery, Put
  <2> QED BY <2>1, FS_AddElement
<1>3. CASE ReplyLate
  BY <1>3, DropFacts, FS_Subset DEF ReplyLate, Forget
<1>4. CASE ReplyMatched
  BY <1>4, DropFacts, FS_Subset DEF ReplyMatched, Settle
<1>5. CASE CleanupTransient
  <2>1. DOMAIN pending' = DOMAIN pending \ Overdue
    BY <1>5, DropFacts DEF CleanupTransient, Settle
  <2>2. DOMAIN timedOut' = (DOMAIN timedOut \ Expired) \union Overdue
    BY <1>5 DEF CleanupTransient
  <2>3. IsFiniteSet(Overdue) /\ IsFiniteSet(DOMAIN timedOut \ Expired)
    BY FS_Subset, FS_Difference DEF Overdue
  <2>4. IsFiniteSet((DOMAIN timedOut \ Expired) \union Overdue) BY <2>3, FS_Union
  <2>5. IsFiniteSet(DOMAIN pending \ Overdue) BY FS_Difference
  <2> QED BY <2>1, <2>2, <2>4, <2>5
<1> QED
  BY <1>1, <1>2, <1>3, <1>4, <1>5
  DEF Next, vars, store, Capture, CaptureQuery, CaptureReply, Record, ReplyIgnored,
      ReplyUnmatched, Recorded, Watch, UpdateDiscovery, StartProbes, CheckOne, SetHealth,
      StartDiagnoses, DiagnoseUpstream, FaultMoves, Tick

LEMMA TypesNext ==
  ASSUME TypeOK, Finite, [Next]_vars
  PROVE  TypeOK'
<1>1. CASE UNCHANGED vars
  BY <1>1, SameSets DEF vars, store, diagnosis, TypeOK, Known
<1> QED
  BY <1>1, TypesCapture, TypesQuery, TypesReply, TypesCleanup, TypesWatch, TypesTick
  DEF Next, Record, Finite

\* For any resolvers, tags, names, limits and scenarios, the Store's maps and
\* counters keep their shapes, and the clocks stay within the scenario's time.
THEOREM TypeCorrect == Spec => []TypeOK
<1>1. Init => TypeOK BY TypesInit
<1>2. Init => Finite BY FS_EmptySet DEF Init, Finite
<1>3. TypeOK /\ Finite /\ [Next]_vars => TypeOK' /\ Finite' BY TypesNext, FiniteNext
<1> QED BY <1>1, <1>2, <1>3, PTL DEF Spec

-----------------------------------------------------------------------------
(* How old things may be.                                                  *)

Longest == IF TimeoutLimit > DefaultLimit THEN TimeoutLimit ELSE DefaultLimit

\* The ticker is not late, and a packet is recorded within a tick.
Clocks ==
  /\ Minute <= swept /\ swept <= clock /\ clock - swept <= SweepEvery
  /\ held # NoPacket => Minute <= held.at /\ held.at <= clock /\ clock - held.at <= 1

\* When the ticker last ran it left nothing that was over its limit.
Ages ==
  /\ \A k \in DOMAIN pending :
       /\ Minute <= pending[k].when /\ pending[k].when <= clock
       /\ swept - pending[k].when <= Longest + 1
  /\ \A k \in DOMAIN timedOut :
       /\ Minute <= timedOut[k].when
       /\ timedOut[k].when <= timedOut[k].at /\ timedOut[k].at <= clock
       /\ timedOut[k].at - timedOut[k].when <= Longest + 1 + SweepEvery
       /\ swept - timedOut[k].at <= LateKeep

LEMMA ClockTypes ==
  ASSUME TypeOK
  PROVE  clock \in Nat /\ swept \in Nat /\ round \in Nat /\ diagRound \in Nat
BY ScenarioTypes DEF TypeOK, Times

\* The steps that neither take a packet, nor sweep, nor let time pass.
Aside ==
  \/ Watch
  \/ UNCHANGED vars

LEMMA AsideFrame ==
  ASSUME Aside
  PROVE  UNCHANGED <<scenario, clock, swept, pending, timedOut, recent, total, held, asked,
                     verdict>>
BY DEF Aside, Watch, vars, store, UpdateDiscovery, StartProbes, CheckOne, SetHealth,
       StartDiagnoses, DiagnoseUpstream, FaultMoves

LEMMA RecordFrame ==
  ASSUME Record
  PROVE  /\ held # NoPacket /\ held' = NoPacket
         /\ UNCHANGED <<scenario, clock, swept, round, probing, diagnosis, asked>>
BY Holding DEF Record, RecordQuery, ReplyIgnored, ReplyLate, ReplyUnmatched, ReplyMatched, Recorded

LEMMA CaptureFrame ==
  ASSUME TypeOK, Capture
  PROVE  /\ held = NoPacket /\ UNCHANGED <<scenario, clock, swept, store, round, probing,
                                           diagnosis, alert, verdict>>
         /\ held' # NoPacket => held'.at = clock
<1>1. ASSUME NEW k \in Keys, NEW n \in Name, CaptureQuery(k, n)
      PROVE  /\ held = NoPacket /\ UNCHANGED <<scenario, clock, swept, store, round, probing,
                                               diagnosis, alert, verdict>>
             /\ held' # NoPacket => held'.at = clock
  BY <1>1 DEF CaptureQuery
<1>2. ASSUME NEW i \in 1..Len(asked), NEW good \in BOOLEAN, CaptureReply(i, good)
      PROVE  /\ held = NoPacket /\ UNCHANGED <<scenario, clock, swept, store, round, probing,
                                               diagnosis, alert, verdict>>
             /\ held' # NoPacket => held'.at = clock
  BY <1>2 DEF CaptureReply
<1> QED BY <1>1, <1>2 DEF Capture

LEMMA ClocksNext ==
  ASSUME TypeOK, Clocks, [Next]_vars
  PROVE  Clocks'
<1> USE DEF Clocks
<1>0. clock \in Nat /\ swept \in Nat /\ Minute \in Nat /\ SweepEvery \in Nat \ {0}
  BY ClockTypes, Constants
<1>1. CASE Aside BY <1>1, AsideFrame
<1>2. CASE Record BY <1>2, RecordFrame
<1>3. CASE Capture BY <1>0, <1>3, CaptureFrame
<1>4. CASE CleanupTransient BY <1>0, <1>4 DEF CleanupTransient
<1>5. CASE Tick BY <1>0, <1>5 DEF Tick
<1> QED BY <1>1, <1>2, <1>3, <1>4, <1>5 DEF Next, Aside

LEMMA AgesNext ==
  ASSUME TypeOK, Clocks, Ages, [Next]_vars
  PROVE  Ages'
<1>0. /\ clock \in Nat /\ swept \in Nat /\ Minute \in Nat /\ SweepEvery \in Nat \ {0}
      /\ LateKeep \in Nat /\ Longest \in Nat
      /\ \A k \in DOMAIN pending : pending[k].when \in Nat
      /\ \A k \in DOMAIN timedOut : timedOut[k].when \in Nat /\ timedOut[k].at \in Nat
  BY ClockTypes, Constants, PendingTypes, TimedOutTypes DEF Longest
<1>1. CASE UNCHANGED <<pending, timedOut, clock, swept>> BY <1>1 DEF Ages
<1>2. CASE RecordQuery
  <2>1. /\ held # NoPacket /\ UNCHANGED <<clock, swept, timedOut>> /\ held.at \in Nat
    BY <1>2, Holding, HeldTypes DEF RecordQuery, Recorded
  <2>2. pending' = Put(pending, held.key,
                       [query |-> held.query, name |-> held.name, when |-> held.at])
    BY <1>2 DEF RecordQuery
  <2>3. ASSUME NEW k \in DOMAIN pending'
        PROVE  \/ k \in DOMAIN pending /\ pending'[k] = pending[k]
               \/ pending'[k].when = held.at
    BY <2>2 DEF Put
  <2> QED BY <1>0, <2>1, <2>3 DEF Ages, Clocks
<1>3. CASE ReplyLate
  <2>1. timedOut' = Drop(timedOut, {held.key}) /\ UNCHANGED <<clock, swept, pending>>
    BY <1>3 DEF ReplyLate, Forget, Recorded
  <2>2. DOMAIN timedOut' \subseteq DOMAIN timedOut
        /\ \A k \in DOMAIN timedOut' : timedOut'[k] = timedOut[k]
    BY <2>1 DEF Drop
  <2> QED BY <2>1, <2>2 DEF Ages
<1>4. CASE ReplyMatched
  <2>1. pending' = Drop(pending, {held.key}) /\ UNCHANGED <<clock, swept, timedOut>>
    BY <1>4 DEF ReplyMatched, Settle, Recorded
  <2>2. DOMAIN pending' \subseteq DOMAIN pending
        /\ \A k \in DOMAIN pending' : pending'[k] = pending[k]
    BY <2>1 DEF Drop
  <2> QED BY <2>1, <2>2 DEF Ages
<1>5. CASE CleanupTransient
  <2>1. /\ pending' = Drop(pending, Overdue) /\ UNCHANGED clock /\ swept' = clock
        /\ timedOut' = [k \in (DOMAIN timedOut \ Expired) \union Overdue |->
             IF k \in Overdue
             THEN [query |-> pending[k].query, when |-> pending[k].when, at |-> clock]
             ELSE timedOut[k]]
    BY <1>5 DEF CleanupTransient, Settle
  <2>2. \A k \in DOMAIN pending' :
          k \in DOMAIN pending /\ k \notin Overdue /\ pending'[k] = pending[k]
    BY <2>1 DEF Drop
  <2>3. \A k : Limit(k.port) \in Nat /\ Limit(k.port) <= Longest
    BY Constants DEF Limit, Longest
  <2>4. \A k \in DOMAIN pending' : clock - pending'[k].when <= Longest
    BY <2>2, <2>3, <1>0 DEF Overdue
  <2>5. ASSUME NEW k \in DOMAIN timedOut'
        PROVE  /\ Minute <= timedOut'[k].when
               /\ timedOut'[k].when <= timedOut'[k].at /\ timedOut'[k].at <= clock
               /\ timedOut'[k].at - timedOut'[k].when <= Longest + 1 + SweepEvery
               /\ clock - timedOut'[k].at <= LateKeep
    <3>1. CASE k \in Overdue
      <4>1. k \in DOMAIN pending /\ timedOut'[k].when = pending[k].when /\ timedOut'[k].at = clock
        BY <2>1, <3>1 DEF Overdue
      <4> QED BY <4>1, <1>0 DEF Ages, Clocks
    <3>2. CASE k \notin Overdue
      <4>1. k \in DOMAIN timedOut /\ timedOut'[k] = timedOut[k] /\ k \notin Expired
        BY <2>1, <3>2
      <4> QED BY <4>1, <1>0 DEF Ages, Expired
    <3> QED BY <3>1, <3>2
  <2>6. \A k \in DOMAIN pending' :
          /\ Minute <= pending'[k].when /\ pending'[k].when <= clock
          /\ clock - pending'[k].when <= Longest + 1
    BY <2>2, <2>4, <1>0 DEF Ages
  <2>7. clock' = clock /\ swept' = clock BY <2>1
  <2> QED BY ONLY <2>5, <2>6, <2>7 DEF Ages
<1>6. CASE Tick
  <2>1. UNCHANGED <<pending, timedOut, swept>> /\ clock' = clock + 1 BY <1>6 DEF Tick, store
  <2> QED BY <2>1, <1>0 DEF Ages
<1>7. CASE Capture BY <1>1, <1>7, CaptureFrame DEF store
<1>8. CASE Aside BY <1>1, <1>8, AsideFrame
<1>9. CASE ReplyIgnored \/ ReplyUnmatched
  BY <1>1, <1>9 DEF ReplyIgnored, ReplyUnmatched, Recorded, store
<1> QED BY <1>2, <1>3, <1>4, <1>5, <1>6, <1>7, <1>8, <1>9 DEF Next, Aside, Record

\* What every later argument starts from.
Base == TypeOK /\ Finite /\ Clocks /\ Ages

LEMMA BaseInit == Init => Base
<1> SUFFICES ASSUME Init PROVE Base OBVIOUS
<1>1. TypeOK BY TypesInit
<1>2. Finite BY FS_EmptySet DEF Init, Finite
<1>3. Clocks BY Constants DEF Init, Clocks
<1>4. Ages BY DEF Init, Ages
<1> QED BY <1>1, <1>2, <1>3, <1>4 DEF Base

LEMMA BaseNext == Base /\ [Next]_vars => Base'
BY TypesNext, FiniteNext, ClocksNext, AgesNext DEF Base

LEMMA BaseAlways == Spec => []Base
BY BaseInit, BaseNext, PTL DEF Spec

\* Nothing is kept for longer than its limit and two periods of the ticker,
\* for any limits and period, so the maps that packets fill stay bounded by
\* what is asked in that time.
THEOREM KeptBriefly == Spec => []Prompt
<1>1. Base => Prompt
  <2> SUFFICES ASSUME Base PROVE Prompt OBVIOUS
  <2>0. /\ clock \in Nat /\ swept \in Nat /\ SweepEvery \in Nat \ {0}
        /\ LateKeep \in Nat /\ Longest \in Nat
        /\ \A k \in DOMAIN pending : pending[k].when \in Nat
        /\ \A k \in DOMAIN timedOut : timedOut[k].when \in Nat /\ timedOut[k].at \in Nat
    BY ClockTypes, Constants, PendingTypes, TimedOutTypes DEF Longest, Base
  <2>1. \A k \in DOMAIN pending : clock - pending[k].when <= 2 + SweepEvery + Longest
    BY <2>0 DEF Base, Ages, Clocks
  <2>2. \A k \in DOMAIN timedOut : clock - timedOut[k].at <= LateKeep + SweepEvery + 1
    BY <2>0 DEF Base, Ages, Clocks
  <2> QED BY <2>1, <2>2 DEF Prompt, Longest
<1> QED BY <1>1, BaseAlways, PTL

-----------------------------------------------------------------------------
(* Which query is which.                                                   *)

\* The i-th query was sent with key k at t, and its request is counted.
IsRequest(i, k, t) ==
  /\ i \in 1..Len(asked) /\ asked[i].key = k /\ asked[i].at = t
  /\ "request" \in verdict[i]

\* What the Store keeps of a query is true of it.  A query that is pending has
\* no outcome, and a query that is yet to be recorded has nothing.
Traced ==
  /\ \A i \in Numbers : i > Len(asked) => verdict[i] = {}
  /\ held # NoPacket => held.query \in 1..Len(asked) /\ asked[held.query].key = held.key
  /\ held.kind = "query" =>
       verdict[held.query] = {} /\ asked[held.query].at = held.at
  /\ \A k \in DOMAIN pending :
       /\ IsRequest(pending[k].query, k, pending[k].when)
       /\ verdict[pending[k].query] \intersect {"response", "timeout"} = {}
  /\ \A m \in Metas, n \in Name : \A r \in recent[m][n] : IsRequest(r.query, r.key, r.when)

\* Queries sent stay what they are.
LEMMA AskedGrows ==
  ASSUME TypeOK, [Next]_vars
  PROVE  /\ Len(asked) \in Nat /\ Len(asked') \in Nat /\ Len(asked) <= Len(asked')
         /\ \A i \in 1..Len(asked) :
              /\ asked'[i].key = asked[i].key /\ asked'[i].at = asked[i].at
              /\ asked'[i].name = asked[i].name
<1>0. asked \in Seq(Questions) BY DEF TypeOK
<1>1. ASSUME NEW k \in Keys, NEW n \in Name, CaptureQuery(k, n)
      PROVE  /\ Len(asked') = Len(asked) + 1
             /\ \A i \in 1..Len(asked) : asked'[i] = asked[i]
  BY <1>0, <1>1 DEF CaptureQuery
<1>2. ASSUME NEW j \in 1..Len(asked), NEW good \in BOOLEAN, CaptureReply(j, good)
      PROVE  /\ Len(asked') = Len(asked)
             /\ \A i \in 1..Len(asked) :
                  /\ asked'[i].key = asked[i].key /\ asked'[i].at = asked[i].at
                  /\ asked'[i].name = asked[i].name
  <2>1. asked' = [asked EXCEPT ![j] = [asked[j] EXCEPT !.replies = @ + 1]]
    BY <1>2 DEF CaptureReply
  <2>2. asked[j] \in Questions BY AskedTypes
  <2>3. LET v == [asked[j] EXCEPT !.replies = @ + 1]
        IN v.key = asked[j].key /\ v.at = asked[j].at /\ v.name = asked[j].name
    BY <2>2 DEF Questions
  <2> QED BY <1>0, <2>1, <2>3
<1>3. CASE UNCHANGED asked BY <1>0, <1>3
<1> QED
  BY <1>0, <1>1, <1>2, <1>3, RecordFrame, AsideFrame
  DEF Next, Aside, Capture, CleanupTransient, Tick

\* A captured packet is one of a query that was sent.
LEMMA CaptureTraced ==
  ASSUME TypeOK, Traced, Capture
  PROVE  /\ held' # NoPacket =>
              held'.query \in 1..Len(asked') /\ asked'[held'.query].key = held'.key
         /\ held'.kind = "query" =>
              verdict[held'.query] = {} /\ asked'[held'.query].at = held'.at
         /\ Len(asked') >= Len(asked)
<1>0. asked \in Seq(Questions) BY DEF TypeOK
<1>1. ASSUME NEW k \in Keys, NEW n \in Name, CaptureQuery(k, n)
      PROVE  /\ held' # NoPacket =>
                  held'.query \in 1..Len(asked') /\ asked'[held'.query].key = held'.key
             /\ held'.kind = "query" =>
                  verdict[held'.query] = {} /\ asked'[held'.query].at = held'.at
  <2>1. /\ Len(asked') = Len(asked) + 1
        /\ asked'[Len(asked) + 1] = [key |-> k, name |-> n, at |-> clock, replies |-> 0]
    BY <1>0, <1>1 DEF CaptureQuery
  <2>2. Len(asked) \in Nat /\ Len(asked) + 1 \in Numbers
    BY <1>0, <1>1, ScenarioTypes DEF CaptureQuery, TypeOK, Numbers
  <2>3. verdict[Len(asked) + 1] = {} BY <2>2 DEF Traced
  <2>4. \/ held' = NoPacket
        \/ held' = [kind |-> "query", key |-> k, name |-> n, at |-> clock,
                    query |-> Len(asked) + 1]
    BY <1>1 DEF CaptureQuery
  <2>5. CASE held' = NoPacket BY <2>5 DEF NoPacket
  <2>6. CASE held' # NoPacket
    <3>1. held'.query = Len(asked) + 1 /\ held'.key = k /\ held'.at = clock BY <2>4, <2>6
    <3> QED BY <3>1, <2>1, <2>2, <2>3
  <2> QED BY <2>5, <2>6
<1>2. ASSUME NEW i \in 1..Len(asked), NEW good \in BOOLEAN, CaptureReply(i, good)
      PROVE  /\ held' # NoPacket =>
                  held'.query \in 1..Len(asked') /\ asked'[held'.query].key = held'.key
             /\ held'.kind # "query"
  <2>1. asked[i] \in Questions BY AskedTypes
  <2>2. Len(asked') = Len(asked) /\ asked'[i].key = asked[i].key
    BY <1>0, <1>2, <2>1 DEF CaptureReply, Questions
  <2> QED BY <1>2, <2>2 DEF CaptureReply, NoPacket
<1>3. Len(asked') >= Len(asked) BY AskedGrows DEF Next
<1> QED BY <1>1, <1>2, <1>3 DEF Capture

\* A request stays one while the verdict keeps what it has.
LEMMA RequestStays ==
  ASSUME TypeOK, [Next]_vars, NEW i, NEW k, NEW t, IsRequest(i, k, t),
         "request" \in verdict'[i]
  PROVE  IsRequest(i, k, t)'
<1>1. i \in 1..Len(asked') BY AskedGrows DEF IsRequest
<1> QED BY <1>1, AskedGrows DEF IsRequest

\* What recent holds after a step is what it held or the query just recorded.
LEMMA RecentNext ==
  ASSUME TypeOK, [Next]_vars, NEW m \in Metas, NEW n \in Name, NEW r \in recent'[m][n]
  PROVE  \/ r \in recent[m][n]
         \/ RecordQuery /\ r = [when |-> held.at, key |-> held.key, query |-> held.query]
<1>0. recent \in [Metas -> [Name -> SUBSET [when : Times, key : Keys, query : Numbers]]]
  BY DEF TypeOK
<1>1. CASE UNCHANGED recent BY <1>1
<1>2. CASE RecordQuery
  <2> DEFINE M == Profile(held.key.port)
             N == held.name
             new == [when |-> held.at, key |-> held.key, query |-> held.query]
  <2>1. recent' = [recent EXCEPT ![M][N] = SeenLately \union {new}]
    BY <1>2 DEF RecordQuery
  <2>2. SeenLately \subseteq recent[M][N] BY DEF SeenLately
  <2> HIDE DEF M, N, new
  <2>3. recent'[m][n] = IF m = M /\ n = N THEN SeenLately \union {new} ELSE recent[m][n]
    BY <1>0, <2>1
  <2> QED BY <2>2, <2>3, <1>2 DEF new
<1>3. CASE CleanupTransient
  <2>1. recent'[m][n] = {o \in recent[m][n] : clock - o.when <= RecentKeep}
    BY <1>3 DEF CleanupTransient
  <2> QED BY <2>1
<1> QED
  BY <1>1, <1>2, <1>3, AsideFrame, CaptureFrame
  DEF Next, Aside, Record, ReplyIgnored, ReplyLate, ReplyUnmatched, ReplyMatched, Tick, store

\* Two keys wait for two queries.
LEMMA KeysApart ==
  ASSUME Traced, NEW k \in DOMAIN pending, NEW l \in DOMAIN pending,
         pending[k].query = pending[l].query
  PROVE  k = l
BY DEF Traced, IsRequest

\* What a step counts.
LEMMA VerdictNext ==
  ASSUME TypeOK, Traced, [Next]_vars, NEW i \in Numbers
  PROVE  /\ verdict[i] \subseteq verdict'[i]
         /\ "request" \in verdict'[i] \ verdict[i] => RecordQuery /\ i = held.query
         /\ "response" \in verdict'[i] \ verdict[i] =>
              ReplyMatched /\ i = pending[held.key].query
         /\ "timeout" \in verdict'[i] \ verdict[i] =>
              CleanupTransient /\ \E k \in Overdue : pending[k].query = i
         /\ i > Len(asked) => verdict'[i] = verdict[i]
<1>0. verdict \in [Numbers -> SUBSET Verdicts] /\ Len(asked) \in Nat BY DEF TypeOK
<1>1. CASE UNCHANGED verdict BY <1>1
<1>2. CASE RecordQuery
  <2>1. verdict' = [verdict EXCEPT ![held.query] = @ \union {"request"}]
    BY <1>2 DEF RecordQuery, Counted
  <2>2. held.query <= Len(asked) BY <1>2, <1>0, RecordFrame DEF Record, Traced
  <2> QED BY <1>0, <1>2, <2>1, <2>2
<1>3. CASE ReplyLate
  <2>1. verdict' = [verdict EXCEPT ![held.query] = @ \union {"late"}]
    BY <1>3 DEF ReplyLate, Counted
  <2>2. held.query <= Len(asked) BY <1>3, <1>0, RecordFrame DEF Record, Traced
  <2> QED BY <1>0, <2>1, <2>2
<1>4. CASE ReplyMatched
  <2>1. verdict' = [verdict EXCEPT ![pending[held.key].query] = @ \union {"response"}]
    BY <1>4 DEF ReplyMatched, Counted
  <2>2. pending[held.key].query <= Len(asked)
    BY <1>4, <1>0 DEF ReplyMatched, Traced, IsRequest
  <2> QED BY <1>0, <1>4, <2>1, <2>2
<1>5. CASE CleanupTransient
  <2>1. verdict'[i] = IF \E k \in Overdue : pending[k].query = i
                      THEN verdict[i] \union {"timeout"} ELSE verdict[i]
    BY <1>0, <1>5 DEF CleanupTransient
  <2>2. \A k \in Overdue : pending[k].query <= Len(asked)
    BY <1>0 DEF Overdue, Traced, IsRequest
  <2> QED BY <1>0, <1>5, <2>1, <2>2
<1> QED
  BY <1>1, <1>2, <1>3, <1>4, <1>5, AsideFrame, CaptureFrame
  DEF Next, Aside, Record, ReplyIgnored, ReplyUnmatched, Tick

\* What waits after a step waited before, or is the query just recorded.
LEMMA PendingNext ==
  ASSUME TypeOK, [Next]_vars, NEW k \in DOMAIN pending'
  PROVE  \/ /\ k \in DOMAIN pending /\ pending'[k] = pending[k]
            /\ RecordQuery => k # held.key
            /\ ReplyMatched => k # held.key
            /\ CleanupTransient => k \notin Overdue
         \/ /\ RecordQuery /\ k = held.key
            /\ pending'[k] = [query |-> held.query, name |-> held.name, when |-> held.at]
<1>1. CASE RecordQuery
  <2>1. pending' = Put(pending, held.key,
                       [query |-> held.query, name |-> held.name, when |-> held.at])
    BY <1>1 DEF RecordQuery
  <2>2. held.kind = "query" /\ swept' = swept /\ held # NoPacket /\ ~ReplyMatched
    BY <1>1, RecordFrame DEF RecordQuery, Record, ReplyMatched
  <2>3. ~CleanupTransient
    BY <1>1, <2>2, RecordFrame DEF Record, CleanupTransient
  <2>4. CASE k = held.key BY <1>1, <2>1, <2>4 DEF Put
  <2>5. CASE k # held.key BY <2>1, <2>2, <2>3, <2>5 DEF Put
  <2> QED BY <2>4, <2>5
<1>2. CASE ReplyMatched
  <2>1. pending' = Drop(pending, {held.key}) BY <1>2 DEF ReplyMatched, Settle
  <2>2. ~RecordQuery /\ ~CleanupTransient
    BY <1>2, RecordFrame DEF RecordQuery, Record, ReplyMatched, CleanupTransient
  <2> QED BY <2>1, <2>2 DEF Drop
<1>3. CASE CleanupTransient
  <2>1. pending' = Drop(pending, Overdue) BY <1>3 DEF CleanupTransient, Settle
  <2>2. ~RecordQuery /\ ~ReplyMatched
    BY <1>3, RecordFrame DEF Record, CleanupTransient
  <2> QED BY <2>1, <2>2 DEF Drop
<1>4. CASE UNCHANGED pending /\ ~RecordQuery /\ ~ReplyMatched /\ ~CleanupTransient
  BY <1>4
<1> QED
  BY <1>1, <1>2, <1>3, <1>4, AsideFrame, CaptureFrame
  DEF Next, Aside, Record, ReplyIgnored, ReplyLate, ReplyUnmatched, Tick, store

LEMMA TracedNext ==
  ASSUME TypeOK, Traced, [Next]_vars
  PROVE  Traced'
<1>0. Len(asked) \in Nat /\ Len(asked') \in Nat /\ Len(asked) <= Len(asked') /\ Numbers' = Numbers
      /\ Numbers \subseteq Nat
  <2>1. scenario' = scenario
    BY RecordFrame, AsideFrame, CaptureFrame DEF Next, Aside, CleanupTransient, Tick
  <2>2. scenario.queries \in Nat BY ScenarioTypes DEF TypeOK
  <2> QED BY <2>1, <2>2, AskedGrows, SameSets DEF Numbers
<1>1. \A i \in Numbers' : i > Len(asked') => verdict'[i] = {}
  BY <1>0, VerdictNext DEF Traced
<1>2. /\ held' # NoPacket => held'.query \in 1..Len(asked') /\ asked'[held'.query].key = held'.key
      /\ held'.kind = "query" =>
           verdict'[held'.query] = {} /\ asked'[held'.query].at = held'.at
  <2>1. CASE Capture
    <3>1. verdict' = verdict BY <2>1, CaptureFrame
    <3> QED BY <2>1, <3>1, CaptureTraced
  <2>2. CASE Record BY <2>2, RecordFrame DEF NoPacket
  <2>3. CASE UNCHANGED <<held, asked, verdict>> BY <2>3 DEF Traced
  <2>4. CASE CleanupTransient
    <3>1. UNCHANGED <<held, asked>> BY <2>4 DEF CleanupTransient
    <3>2. ASSUME held.kind = "query" PROVE verdict'[held.query] = {}
      <4>1. held # NoPacket BY <3>2, Holding
      <4>2. held.query \in Numbers /\ verdict[held.query] = {}
        BY <4>1, <3>2, HeldTypes DEF Traced
      <4>3. \A k \in Overdue : pending[k].query # held.query
        BY <4>2 DEF Overdue, Traced, IsRequest
      <4> QED BY <4>2, <4>3, <2>4 DEF CleanupTransient, TypeOK
    <3> QED BY <3>1, <3>2 DEF Traced
  <2> QED BY <2>1, <2>2, <2>3, <2>4, AsideFrame DEF Next, Aside, Tick
<1>3. ASSUME NEW k \in DOMAIN pending'
      PROVE  /\ IsRequest(pending[k].query, k, pending[k].when)'
             /\ verdict'[pending'[k].query] \intersect {"response", "timeout"} = {}
  <2>1. CASE /\ k \in DOMAIN pending /\ pending'[k] = pending[k]
             /\ RecordQuery => k # held.key
             /\ ReplyMatched => k # held.key
             /\ CleanupTransient => k \notin Overdue
    <3> DEFINE q == pending[k].query
    <3>1. q \in Numbers BY <2>1, PendingTypes
    <3>2. /\ IsRequest(q, k, pending[k].when) /\ verdict[q] \intersect {"response", "timeout"} = {}
          /\ "request" \in verdict[q]
      BY <2>1 DEF Traced, IsRequest
    <3>3. "request" \in verdict'[q] BY <3>1, <3>2, VerdictNext
    <3>4. IsRequest(q, k, pending[k].when)' BY <3>2, <3>3, <2>1, RequestStays DEF IsRequest
    <3>5. "response" \notin verdict'[q]
      <4>1. ReplyMatched => held.key \in DOMAIN pending /\ pending[held.key].query # q
        BY <2>1, KeysApart DEF ReplyMatched
      <4> QED BY <4>1, <3>1, <3>2, VerdictNext
    <3>6. "timeout" \notin verdict'[q]
      <4>1. CleanupTransient => \A l \in Overdue : pending[l].query # q
        BY <2>1, KeysApart DEF Overdue
      <4> QED BY <4>1, <3>1, <3>2, VerdictNext
    <3> QED BY <2>1, <3>4, <3>5, <3>6
  <2>2. CASE /\ RecordQuery /\ k = held.key
             /\ pending'[k] = [query |-> held.query, name |-> held.name, when |-> held.at]
    <3>1. held # NoPacket /\ held.kind = "query" /\ held.query \in Numbers
      BY <2>2, Holding, HeldTypes DEF RecordQuery
    <3>2. /\ held.query \in 1..Len(asked) /\ asked[held.query].key = k
          /\ asked[held.query].at = held.at /\ verdict[held.query] = {}
      BY <3>1, <2>2 DEF Traced
    <3>3. verdict'[held.query] = {"request"} /\ asked' = asked
      BY <2>2, <3>1, <3>2 DEF RecordQuery, Counted, Recorded, TypeOK
    <3> QED BY <2>2, <3>2, <3>3 DEF IsRequest
  <2> QED BY <2>1, <2>2, PendingNext
<1>4. ASSUME NEW m \in Metas, NEW n \in Name, NEW r \in recent'[m][n]
      PROVE  IsRequest(r.query, r.key, r.when)'
  <2>1. CASE r \in recent[m][n]
    <3>1. IsRequest(r.query, r.key, r.when) BY <2>1 DEF Traced
    <3>2. r.query \in Numbers BY <2>1 DEF TypeOK
    <3>3. "request" \in verdict'[r.query] BY <3>1, <3>2, VerdictNext DEF IsRequest
    <3> QED BY <3>1, <3>3, RequestStays
  <2>2. CASE RecordQuery /\ r = [when |-> held.at, key |-> held.key, query |-> held.query]
    <3>1. held # NoPacket /\ held.kind = "query" /\ held.query \in Numbers
      BY <2>2, Holding, HeldTypes DEF RecordQuery
    <3>2. /\ held.query \in 1..Len(asked) /\ asked[held.query].key = held.key
          /\ asked[held.query].at = held.at
      BY <3>1 DEF Traced
    <3>3. "request" \in verdict'[held.query] /\ asked' = asked
      BY <2>2, <3>1 DEF RecordQuery, Counted, Recorded, TypeOK
    <3> QED BY <2>2, <3>2, <3>3 DEF IsRequest
  <2> QED BY <2>1, <2>2, RecentNext
<1> QED BY <1>1, <1>2, <1>3, <1>4 DEF Traced

LEMMA OneVerdictNext ==
  ASSUME TypeOK, Traced, OneVerdict, [Next]_vars
  PROVE  OneVerdict'
<1>0. scenario' = scenario
  BY RecordFrame, AsideFrame, CaptureFrame DEF Next, Aside, CleanupTransient, Tick
<1>1. TypeOK => DOMAIN verdict = Numbers BY DEF TypeOK
<1>2. DOMAIN verdict' = Numbers
  BY <1>1, AsideFrame, CaptureFrame
  DEF Next, Aside, Record, RecordQuery, ReplyIgnored, ReplyLate, ReplyUnmatched, ReplyMatched,
      Counted, CleanupTransient, Tick
<1>3. ASSUME NEW i \in Numbers PROVE ~({"response", "timeout"} \subseteq verdict'[i])
  <2>1. ~({"response", "timeout"} \subseteq verdict[i]) BY <1>1, <1>3 DEF OneVerdict
  <2>2. CASE ReplyMatched /\ i = pending[held.key].query
    <3>1. "timeout" \notin verdict[i] BY <2>2 DEF Traced, ReplyMatched
    <3>2. ~CleanupTransient
      BY <2>2, RecordFrame DEF Record, CleanupTransient
    <3> QED BY <3>1, <3>2, VerdictNext
  <2>3. CASE CleanupTransient /\ \E k \in Overdue : pending[k].query = i
    <3>1. "response" \notin verdict[i] BY <2>3 DEF Traced, Overdue
    <3>2. ~ReplyMatched
      BY <2>3, RecordFrame DEF Record, CleanupTransient
    <3> QED BY <3>1, <3>2, VerdictNext
  <2> QED BY <2>1, <2>2, <2>3, VerdictNext
<1> QED BY <1>2, <1>3 DEF OneVerdict

LEMMA TracedInit == Init => Traced /\ OneVerdict
BY DEF Init, Traced, OneVerdict, Numbers, NoPacket

\* No query is counted both as answered and as timed out, for any queries that
\* share their keys, replies that come late or repeatedly, and limits.
THEOREM VerdictsAreFinal == Spec => []OneVerdict
<1>1. Init => Base /\ Traced /\ OneVerdict BY BaseInit, TracedInit
<1>2. Base /\ Traced /\ OneVerdict /\ [Next]_vars => (Base /\ Traced /\ OneVerdict)'
  BY BaseNext, TracedNext, OneVerdictNext DEF Base
<1> QED BY <1>1, <1>2, PTL DEF Spec

-----------------------------------------------------------------------------
(* The minutes of the ring.                                                *)

\* A time of which the ring still has the minute.
Live(t) == t \in Nat /\ Minute <= t /\ t <= clock /\ clock - t <= Minute * (Buckets - 1)

\* P is pending or timedOut, and h the history or one that a step passes through.
\* What P keeps of port p and minute m; the ring has the minutes of P; a bucket
\* is where its minute belongs; the account of queries, and that of late replies.
AllLive(P)       == IsFiniteSet(DOMAIN P) /\ \A k \in DOMAIN P : Live(P[k].when)
KeptAt(P, m, p)  == {k \in DOMAIN P : k.port = p /\ MinuteOf(P[k].when) = m}
Holds(h, P)      == \A k \in DOMAIN P : h[Slot(P[k].when)].minute = MinuteOf(P[k].when)
Aligned(h)       == \A i \in 0..(Buckets - 1) :
                      /\ h[i].minute <= MinuteOf(clock)
                      /\ h[i].minute # 0 => h[i].minute % Buckets = i
Covers(h, P)     == \A i \in 0..(Buckets - 1), p \in Port :
                      LET c == h[i].cohort[p]
                      IN /\ c.requests >= c.responses + c.timeouts
                                            + Cardinality(KeptAt(P, h[i].minute, p))
                         /\ c.responses = c.success + c.errors
LateCovers(h, P) == \A i \in 0..(Buckets - 1), p \in Port :
                      LET c == h[i].cohort[p]
                      IN c.timeouts >= c.late + Cardinality(KeptAt(P, h[i].minute, p))

LEMMA LiveSlots ==
  ASSUME clock \in Nat, NEW s, NEW t, Live(s), Live(t), Slot(s) = Slot(t)
  PROVE  MinuteOf(s) = MinuteOf(t)
<1>1. Minute * (Buckets - 1) \in Nat BY Constants
<1> DEFINE R == Minute * (Buckets - 1)
<1>2. CASE s <= t
  <2>1. t - s <= R BY <1>1, <1>2 DEF Live
  <2> QED BY <1>2, <2>1, SameSlot DEF Live
<1>3. CASE t <= s
  <2>1. s - t <= R BY <1>1, <1>3 DEF Live
  <2> QED BY <1>3, <2>1, SameSlot DEF Live
<1> QED BY <1>2, <1>3 DEF Live

LEMMA LiveTogether ==
  ASSUME clock \in Nat, NEW T, \A t \in T : Live(t)
  PROVE  Together(T)
BY LiveSlots DEF Together, Live

\* A live time is of a minute since the Store's start, and not of the future.
LEMMA LiveMinutes ==
  ASSUME clock \in Nat, NEW t, Live(t)
  PROVE  /\ MinuteOf(t) \in Nat /\ MinuteOf(t) >= 1 /\ MinuteOf(t) <= MinuteOf(clock)
         /\ Slot(t) \in 0..(Buckets - 1) /\ MinuteOf(t) % Buckets = Slot(t)
<1>1. Minute \in Nat \ {0} BY Constants
<1>2. t \div Minute >= 1
  <2> DEFINE q == t \div Minute
  <2>1. q \in Nat /\ t < Minute * q + Minute BY <1>1 DEF Live
  <2> HIDE DEF q
  <2>2. q = 0 => Minute * q = 0 BY <1>1
  <2>3. q # 0 BY <2>1, <2>2, <1>1 DEF Live
  <2> QED BY <2>1, <2>3 DEF q
<1>3. MinuteOf(t) <= MinuteOf(clock) BY MinutesApart DEF Live
<1> QED BY <1>2, <1>3, SlotTypes DEF MinuteOf, Slot, Live

LEMMA KeptFinite ==
  ASSUME NEW P, AllLive(P), NEW m, NEW p
  PROVE  IsFiniteSet(KeptAt(P, m, p)) /\ Cardinality(KeptAt(P, m, p)) \in Nat
<1>1. KeptAt(P, m, p) \in SUBSET DOMAIN P BY DEF KeptAt
<1> QED BY <1>1, FS_Subset, FS_CardinalityType DEF AllLive

\* A bucket that is opened for live times loses nothing that still counts.
LEMMA OpenKeeps ==
  ASSUME clock \in Nat, NEW h \in Ring, NEW T, \A t \in T : Live(t),
         NEW P, AllLive(P), Holds(h, P)
  PROVE  LET o == Opened(h, T)
         IN /\ o \in Ring
            /\ \A t \in T : o[Slot(t)].minute = MinuteOf(t)
            /\ Holds(o, P)
            /\ Aligned(h) => Aligned(o)
            /\ Covers(h, P) => Covers(o, P)
            /\ LateCovers(h, P) => LateCovers(o, P)
<1> DEFINE o == Opened(h, T)
<1>1. /\ o \in Ring /\ \A t \in T : o[Slot(t)].minute = MinuteOf(t)
      /\ \A i \in 0..(Buckets - 1) :
           \/ o[i] = h[i]
           \/ \E t \in T : /\ i = Slot(t) /\ h[i].minute # MinuteOf(t)
                           /\ o[i] = EmptyBucket(MinuteOf(t))
  <2>1. Together(T) BY LiveTogether
  <2> QED BY <2>1, OpenedFacts
<1> HIDE DEF o
<1>2. Holds(o, P)
  <2> SUFFICES ASSUME NEW k \in DOMAIN P PROVE o[Slot(P[k].when)].minute = MinuteOf(P[k].when)
    BY DEF Holds
  <2> DEFINE u == P[k].when
  <2>1. Live(u) /\ h[Slot(u)].minute = MinuteOf(u) BY DEF Holds, AllLive
  <2>2. Slot(u) \in 0..(Buckets - 1) BY <2>1, SlotTypes DEF Live
  <2>3. CASE o[Slot(u)] = h[Slot(u)] BY <2>1, <2>3
  <2>4. ASSUME NEW t \in T, Slot(u) = Slot(t), h[Slot(u)].minute # MinuteOf(t) PROVE FALSE
    BY <2>1, <2>4, LiveSlots
  <2> HIDE DEF u
  <2>5. QED BY <2>2, <2>3, <2>4, <1>1 DEF u
<1>3. ASSUME NEW t \in T, h[Slot(t)].minute # MinuteOf(t), NEW p
      PROVE  KeptAt(P, MinuteOf(t), p) = {}
  <2> SUFFICES ASSUME NEW k \in DOMAIN P, MinuteOf(P[k].when) = MinuteOf(t) PROVE FALSE
    BY DEF KeptAt
  <2>1. Slot(P[k].when) = Slot(t) BY DEF Slot
  <2> QED BY <2>1, <1>3 DEF Holds
<1>4. ASSUME Aligned(h) PROVE Aligned(o)
  <2> SUFFICES ASSUME NEW i \in 0..(Buckets - 1)
               PROVE  o[i].minute <= MinuteOf(clock) /\ (o[i].minute # 0 => o[i].minute % Buckets = i)
    BY DEF Aligned
  <2>1. CASE o[i] = h[i] BY <2>1, <1>4 DEF Aligned
  <2>2. ASSUME NEW t \in T, i = Slot(t), o[i] = EmptyBucket(MinuteOf(t))
        PROVE  o[i].minute <= MinuteOf(clock) /\ o[i].minute % Buckets = i
    <3>1. MinuteOf(t) \in Nat /\ MinuteOf(t) <= MinuteOf(clock) /\ MinuteOf(t) % Buckets = i
      BY <2>2, LiveMinutes
    <3> QED BY <3>1, <2>2, EmptyTypes
  <2> QED BY <1>1, <2>1, <2>2
<1>5. Zero.requests = 0 /\ Zero.responses = 0 /\ Zero.timeouts = 0 /\ Zero.success = 0
      /\ Zero.errors = 0 /\ Zero.late = 0
  BY DEF Zero, Fields
<1>6. ASSUME NEW i \in 0..(Buckets - 1), NEW p \in Port, o[i] # h[i]
      PROVE  o[i].cohort[p] = Zero /\ Cardinality(KeptAt(P, o[i].minute, p)) = 0
  <2>1. PICK t \in T : /\ i = Slot(t) /\ h[i].minute # MinuteOf(t)
                       /\ o[i] = EmptyBucket(MinuteOf(t))
    BY <1>1, <1>6
  <2>2. o[i].minute = MinuteOf(t) /\ o[i].cohort[p] = Zero
    BY <2>1, LiveMinutes, EmptyTypes
  <2> QED BY <2>1, <2>2, <1>3, FS_EmptySet
<1>7. ASSUME Covers(h, P) PROVE Covers(o, P)
  BY <1>5, <1>6, <1>7 DEF Covers
<1>8. ASSUME LateCovers(h, P) PROVE LateCovers(o, P)
  BY <1>5, <1>6, <1>8 DEF LateCovers
<1> QED BY <1>1, <1>2, <1>4, <1>7, <1>8 DEF o

\* What the router saw at a live time changes no resolver's account.
LEMMA WireKeeps ==
  ASSUME clock \in Nat, NEW h \in Ring, NEW t \in Nat, Live(t), NEW F,
         NEW P, AllLive(P), Holds(h, P)
  PROVE  LET w == Wire(h, t, F)
         IN /\ w \in Ring /\ w[Slot(t)].minute = MinuteOf(t)
            /\ Holds(w, P)
            /\ Aligned(h) => Aligned(w)
            /\ Covers(h, P) => Covers(w, P)
            /\ LateCovers(h, P) => LateCovers(w, P)
<1> DEFINE o == Ready(h, t)
           w == Wire(h, t, F)
<1>1. /\ w \in Ring
      /\ \A i \in 0..(Buckets - 1) : w[i].minute = o[i].minute /\ w[i].cohort = o[i].cohort
  <2>1. /\ w \in Ring
        /\ \A i \in 0..(Buckets - 1) :
             /\ w[i].minute = o[i].minute /\ w[i].cohort = o[i].cohort
             /\ w[i].wire = IF i = Slot(t) THEN Bump(o[i].wire, F) ELSE o[i].wire
    BY WireFacts
  <2> HIDE DEF o, w
  <2> QED BY <2>1
<1>2. /\ o[Slot(t)].minute = MinuteOf(t) /\ Holds(o, P)
      /\ Aligned(h) => Aligned(o)
      /\ Covers(h, P) => Covers(o, P)
      /\ LateCovers(h, P) => LateCovers(o, P)
  <2>1. \A s \in {t} : Live(s) OBVIOUS
  <2> HIDE DEF w
  <2> QED BY <2>1, OpenKeeps DEF Ready
<1> HIDE DEF o, w
<1>3. Slot(t) \in 0..(Buckets - 1) BY SlotTypes DEF Live
<1>4. Holds(w, P)
  <2>1. \A k \in DOMAIN P : Slot(P[k].when) \in 0..(Buckets - 1)
    BY SlotTypes DEF AllLive, Live
  <2> QED BY <2>1, <1>1, <1>2 DEF Holds
<1>5. Aligned(h) => Aligned(w) BY <1>1, <1>2 DEF Aligned
<1>6. Covers(h, P) => Covers(w, P) BY <1>1, <1>2 DEF Covers
<1>7. LateCovers(h, P) => LateCovers(w, P) BY <1>1, <1>2 DEF LateCovers
<1> QED BY <1>1, <1>2, <1>3, <1>4, <1>5, <1>6, <1>7 DEF w

\* What became of a query: the counters F of its resolver and its minute.
Once(i, t, q, p) == IF i = Slot(t) /\ q = p THEN 1 ELSE 0

Adds(o, w, t, p, F) ==
  \A i \in 0..(Buckets - 1) :
    /\ w[i].minute = o[i].minute /\ w[i].wire = o[i].wire
    /\ \A q \in Port, f \in Fields :
         w[i].cohort[q][f] = IF f \in F THEN o[i].cohort[q][f] + Once(i, t, q, p)
                                        ELSE o[i].cohort[q][f]

LEMMA CohortSteps ==
  ASSUME clock \in Nat, NEW h \in Ring, NEW t \in Nat, Live(t), NEW p \in Port, NEW F,
         NEW P, AllLive(P), Holds(h, P)
  PROVE  LET o == Ready(h, t)
             w == Cohort(h, t, p, F)
         IN /\ w \in Ring /\ w[Slot(t)].minute = MinuteOf(t)
            /\ Holds(w, P)
            /\ Aligned(h) => Aligned(w)
            /\ o \in Ring
            /\ Covers(h, P) => Covers(o, P)
            /\ LateCovers(h, P) => LateCovers(o, P)
            /\ Adds(o, w, t, p, F)
<1> DEFINE o == Ready(h, t)
           w == Cohort(h, t, p, F)
<1>1. /\ w \in Ring
      /\ \A i \in 0..(Buckets - 1) :
           /\ w[i].minute = o[i].minute /\ w[i].wire = o[i].wire
           /\ \A q \in Port :
                w[i].cohort[q] = IF i = Slot(t) /\ q = p THEN Bump(o[i].cohort[q], F)
                                                         ELSE o[i].cohort[q]
  BY CohortFacts
<1>2. /\ o \in Ring /\ o[Slot(t)].minute = MinuteOf(t) /\ Holds(o, P)
      /\ Aligned(h) => Aligned(o)
      /\ Covers(h, P) => Covers(o, P)
      /\ LateCovers(h, P) => LateCovers(o, P)
  <2>1. \A s \in {t} : Live(s) OBVIOUS
  <2> HIDE DEF w
  <2> QED BY <2>1, OpenKeeps DEF Ready
<1> HIDE DEF o, w
<1>3. Slot(t) \in 0..(Buckets - 1) BY SlotTypes DEF Live
<1>4. Holds(w, P)
  <2>1. \A k \in DOMAIN P : Slot(P[k].when) \in 0..(Buckets - 1)
    BY SlotTypes DEF AllLive, Live
  <2> QED BY <2>1, <1>1, <1>2 DEF Holds
<1>5. Aligned(h) => Aligned(w) BY <1>1, <1>2 DEF Aligned
<1>6. \A i \in 0..(Buckets - 1), q \in Port : o[i].cohort[q] \in Counters
  BY <1>2 DEF Ring, BucketsOf
<1>7. Adds(o, w, t, p, F)
  <2> SUFFICES ASSUME NEW i \in 0..(Buckets - 1), NEW q \in Port, NEW f \in Fields
               PROVE  w[i].cohort[q][f] = IF f \in F THEN o[i].cohort[q][f] + Once(i, t, q, p)
                                                     ELSE o[i].cohort[q][f]
    BY <1>1 DEF Adds
  <2>1. o[i].cohort[q] \in Counters /\ o[i].cohort[q][f] \in Nat BY <1>6 DEF Counters
  <2>2. Bump(o[i].cohort[q], F)[f] = IF f \in F THEN o[i].cohort[q][f] + 1 ELSE o[i].cohort[q][f]
    BY <2>1, BumpTypes
  <2> QED BY <1>1, <2>1, <2>2 DEF Once
<1> QED BY <1>1, <1>2, <1>3, <1>4, <1>5, <1>7 DEF w, o
LEMMA RingCounts ==
  ASSUME NEW h \in Ring, NEW i \in 0..(Buckets - 1)
  PROVE  /\ h[i].minute \in Nat
         /\ \A p \in Port, f \in Fields : h[i].cohort[p][f] \in Nat
BY DEF Ring, BucketsOf, Counters

\* Counters that are no part of an account leave it as it was.
LEMMA CohortQuiet ==
  ASSUME clock \in Nat, NEW h \in Ring, NEW t \in Nat, Live(t), NEW p \in Port, NEW F,
         NEW P, AllLive(P), Holds(h, P)
  PROVE  LET w == Cohort(h, t, p, F)
         IN /\ Covers(h, P) /\ F \subseteq {"late", "fallbacks"} => Covers(w, P)
            /\ LateCovers(h, P) /\ F \subseteq Fields \ {"late", "timeouts"} => LateCovers(w, P)
<1> DEFINE o == Ready(h, t)
           w == Cohort(h, t, p, F)
<1>1. /\ Covers(h, P) => Covers(o, P)
      /\ LateCovers(h, P) => LateCovers(o, P)
      /\ o \in Ring /\ Adds(o, w, t, p, F)
  BY CohortSteps
<1> HIDE DEF o, w
<1>2. \A i \in 0..(Buckets - 1), q \in Port, f \in Fields \ F :
        w[i].cohort[q][f] = o[i].cohort[q][f] /\ w[i].minute = o[i].minute
  BY <1>1 DEF Adds
<1>3. ASSUME Covers(h, P), F \subseteq {"late", "fallbacks"} PROVE Covers(w, P)
  <2>1. {"requests", "responses", "timeouts", "success", "errors"} \subseteq Fields \ F
    BY <1>3 DEF Fields
  <2> QED BY <2>1, <1>1, <1>2, <1>3 DEF Covers
<1>4. ASSUME LateCovers(h, P), F \subseteq Fields \ {"late", "timeouts"}
      PROVE  LateCovers(w, P)
  <2>1. {"late", "timeouts"} \subseteq Fields \ F BY <1>4 DEF Fields
  <2> QED BY <2>1, <1>1, <1>2, <1>4 DEF LateCovers
<1> QED BY <1>3, <1>4 DEF w

\* A query that is no longer kept, and one that is kept from now on.
LEMMA DropKept ==
  ASSUME NEW P, AllLive(P), NEW K
  PROVE  /\ AllLive(Drop(P, K))
         /\ \A h : Holds(h, P) => Holds(h, Drop(P, K))
         /\ \A m, p : KeptAt(Drop(P, K), m, p) = KeptAt(P, m, p) \ K
<1>1. DOMAIN Drop(P, K) = DOMAIN P \ K /\ \A x \in DOMAIN P \ K : Drop(P, K)[x] = P[x]
  BY DropFacts
<1>2. IsFiniteSet(DOMAIN P \ K)
  <2>1. DOMAIN P \ K \in SUBSET DOMAIN P OBVIOUS
  <2> QED BY <2>1, FS_Subset DEF AllLive
<1> QED BY <1>1, <1>2 DEF AllLive, Holds, KeptAt

LEMMA PutKept ==
  ASSUME clock \in Nat, NEW P, AllLive(P), NEW k, NEW v, Live(v.when)
  PROVE  /\ AllLive(Put(P, k, v))
         /\ \A h : Holds(h, P) /\ h[Slot(v.when)].minute = MinuteOf(v.when) =>
                     Holds(h, Put(P, k, v))
         /\ \A m, p : Cardinality(KeptAt(Put(P, k, v), m, p))
                        <= Cardinality(KeptAt(P, m, p))
                             + IF m = MinuteOf(v.when) /\ p = k.port THEN 1 ELSE 0
<1> DEFINE Q == Put(P, k, v)
<1>1. /\ DOMAIN Q = DOMAIN P \union {k} /\ Q[k] = v
      /\ \A x \in DOMAIN P : x # k => Q[x] = P[x]
  BY DEF Put
<1> HIDE DEF Q
<1>2. IsFiniteSet(DOMAIN Q) BY <1>1, FS_AddElement DEF AllLive
<1>3. AllLive(Q) BY <1>1, <1>2 DEF AllLive
<1>4. ASSUME NEW h, Holds(h, P), h[Slot(v.when)].minute = MinuteOf(v.when) PROVE Holds(h, Q)
  BY <1>1, <1>4 DEF Holds
<1>5. ASSUME NEW m, NEW p
      PROVE  Cardinality(KeptAt(Q, m, p))
               <= Cardinality(KeptAt(P, m, p))
                    + IF m = MinuteOf(v.when) /\ p = k.port THEN 1 ELSE 0
  <2> DEFINE A == KeptAt(P, m, p)
             B == KeptAt(Q, m, p)
  <2>1. IsFiniteSet(A) /\ Cardinality(A) \in Nat /\ IsFiniteSet(B) /\ Cardinality(B) \in Nat
    BY <1>3, KeptFinite
  <2>2. CASE m = MinuteOf(v.when) /\ p = k.port
    <3>1. B \subseteq A \union {k} BY <1>1 DEF KeptAt
    <3> HIDE DEF A, B
    <3> DEFINE C == A \union {k}
    <3>2. /\ IsFiniteSet(C)
          /\ Cardinality(C) = IF k \in A THEN Cardinality(A) ELSE Cardinality(A) + 1
      BY <2>1, FS_AddElement
    <3> HIDE DEF C
    <3>3. Cardinality(B) <= Cardinality(C) BY <3>1, <3>2, FS_Subset DEF C
    <3> QED BY <2>1, <2>2, <3>2, <3>3 DEF A, B
  <2>3. CASE ~(m = MinuteOf(v.when) /\ p = k.port)
    <3>1. B \subseteq A BY <1>1, <2>3 DEF KeptAt
    <3> HIDE DEF A, B
    <3>2. Cardinality(B) <= Cardinality(A) BY <2>1, <3>1, FS_Subset
    <3> QED BY <2>1, <2>3, <3>2 DEF A, B
  <2> QED BY <2>2, <2>3
<1> QED BY <1>3, <1>4, <1>5 DEF Q

\* The minute of a bucket is the minute of the times that share both.
LEMMA SlotOfMinute ==
  ASSUME clock \in Nat, NEW h, Aligned(h), NEW i \in 0..(Buckets - 1), NEW t \in Nat, Live(t),
         h[i].minute = MinuteOf(t)
  PROVE  i = Slot(t)
BY LiveMinutes DEF Aligned

\* A request and the query that waits for its outcome.
LEMMA RequestCovered ==
  ASSUME clock \in Nat, NEW h \in Ring, NEW t \in Nat, Live(t), NEW k, k.port \in Port, NEW v,
         v.when = t, NEW P, AllLive(P), Holds(h, P), Aligned(h), Covers(h, P)
  PROVE  Covers(Cohort(h, t, k.port, {"requests"}), Put(P, k, v))
<1> DEFINE p == k.port
           F == {"requests"}
           o == Ready(h, t)
           w == Cohort(h, t, p, F)
           Q == Put(P, k, v)
<1>0. p \in Port OBVIOUS
<1> HIDE DEF p, F
<1>1. /\ o \in Ring /\ w \in Ring /\ Covers(o, P) /\ Aligned(w)
      /\ Adds(o, w, t, p, F)
  BY <1>0, CohortSteps
<1>2. AllLive(Q) /\ \A m, q : Cardinality(KeptAt(Q, m, q))
                        <= Cardinality(KeptAt(P, m, q))
                             + IF m = MinuteOf(t) /\ q = p THEN 1 ELSE 0
  BY PutKept DEF p
<1> HIDE DEF o, w, Q
<1> SUFFICES ASSUME NEW i \in 0..(Buckets - 1), NEW q \in Port
             PROVE  LET c == w[i].cohort[q]
                    IN /\ c.requests >= c.responses + c.timeouts
                                          + Cardinality(KeptAt(Q, w[i].minute, q))
                       /\ c.responses = c.success + c.errors
  BY DEF Covers, Q, w, p, F
<1> DEFINE d == o[i].cohort[q]
           c == w[i].cohort[q]
           m == w[i].minute
           n == Once(i, t, q, p)
<1>3. /\ c.requests = d.requests + n /\ c.responses = d.responses /\ c.timeouts = d.timeouts
      /\ c.success = d.success /\ c.errors = d.errors
  BY <1>1, RingCounts DEF Fields, F, Adds
<1>4. /\ d.requests \in Nat /\ d.responses \in Nat /\ d.timeouts \in Nat
      /\ d.success \in Nat /\ d.errors \in Nat
  BY <1>1, RingCounts DEF Fields
<1>5. /\ d.requests >= d.responses + d.timeouts + Cardinality(KeptAt(P, m, q))
      /\ d.responses = d.success + d.errors
  BY <1>1 DEF Covers, Adds
<1>6. Cardinality(KeptAt(Q, m, q)) <= Cardinality(KeptAt(P, m, q)) + n
  <2>1. m = MinuteOf(t) => i = Slot(t) BY <1>1, SlotOfMinute DEF Adds
  <2>2. Cardinality(KeptAt(P, m, q)) \in Nat /\ Cardinality(KeptAt(Q, m, q)) \in Nat
    BY <1>2, KeptFinite
  <2> QED BY <2>1, <2>2, <1>2 DEF Once
<1>7. Cardinality(KeptAt(P, m, q)) \in Nat /\ Cardinality(KeptAt(Q, m, q)) \in Nat
  BY <1>2, KeptFinite
<1>8. n \in {0, 1} BY DEF Once
<1> HIDE DEF c, d, m, n
<1>9. /\ c.requests >= c.responses + c.timeouts + Cardinality(KeptAt(Q, m, q))
      /\ c.responses = c.success + c.errors
  BY <1>3, <1>4, <1>5, <1>6, <1>7, <1>8
<1> QED BY <1>9 DEF c, m

\* An outcome and the query that no longer waits for it; likewise a late reply
\* and the timeout that is no longer remembered.
LEMMA LessByOne ==
  ASSUME clock \in Nat, NEW P, AllLive(P), NEW k \in DOMAIN P, NEW w \in Ring,
         w[Slot(P[k].when)].minute = MinuteOf(P[k].when),
         NEW i \in 0..(Buckets - 1), NEW q \in Port
  PROVE  Cardinality(KeptAt(Drop(P, {k}), w[i].minute, q)) + Once(i, P[k].when, q, k.port)
           <= Cardinality(KeptAt(P, w[i].minute, q))
<1> DEFINE m == w[i].minute
           A == KeptAt(P, m, q)
           B == KeptAt(Drop(P, {k}), m, q)
<1>1. B = A \ {k} BY DropKept
<1>2. IsFiniteSet(A) /\ Cardinality(A) \in Nat BY KeptFinite
<1>3. k \notin A => B = A BY <1>1
<1>4. Once(i, P[k].when, q, k.port) = 1 => k \in A BY DEF KeptAt, Once
<1> HIDE DEF A, B
<1>5. Cardinality(B) = IF k \in A THEN Cardinality(A) - 1 ELSE Cardinality(A)
  BY <1>1, <1>2, FS_RemoveElement
<1>6. Once(i, P[k].when, q, k.port) \in {0, 1} BY DEF Once
<1>7. Cardinality(B) + Once(i, P[k].when, q, k.port) <= Cardinality(A)
  BY <1>2, <1>4, <1>5, <1>6
<1> QED BY <1>7 DEF A, B

LEMMA OutcomeCovered ==
  ASSUME clock \in Nat, NEW h \in Ring, NEW P, AllLive(P), Holds(h, P), NEW k \in DOMAIN P,
         P[k].when \in Nat, k.port \in Port, NEW what \in {"success", "errors"}, Covers(h, P)
  PROVE  Covers(Cohort(h, P[k].when, k.port, {"responses", what}), Drop(P, {k}))
<1> DEFINE t == P[k].when
           p == k.port
           F == {"responses", what}
           o == Ready(h, t)
           w == Cohort(h, t, p, F)
           Q == Drop(P, {k})
<1>0. p \in Port /\ t \in Nat /\ Live(t) BY DEF AllLive
<1> HIDE DEF p, F, t
<1>1. /\ o \in Ring /\ w \in Ring /\ Covers(o, P) /\ w[Slot(t)].minute = MinuteOf(t)
      /\ Adds(o, w, t, p, F)
  BY <1>0, CohortSteps
<1>2. AllLive(Q) BY DropKept
<1>3. \A i \in 0..(Buckets - 1), q \in Port :
        Cardinality(KeptAt(Q, w[i].minute, q)) + Once(i, t, q, p)
          <= Cardinality(KeptAt(P, w[i].minute, q))
  <2> HIDE DEF w
  <2> QED BY <1>1, LessByOne DEF t, p
<1> HIDE DEF o, w, Q
<1> SUFFICES ASSUME NEW i \in 0..(Buckets - 1), NEW q \in Port
             PROVE  LET c == w[i].cohort[q]
                    IN /\ c.requests >= c.responses + c.timeouts
                                          + Cardinality(KeptAt(Q, w[i].minute, q))
                       /\ c.responses = c.success + c.errors
  BY DEF Covers, Q, w, p, F, t
<1> DEFINE d == o[i].cohort[q]
           c == w[i].cohort[q]
           m == w[i].minute
           n == Once(i, t, q, p)
<1>4. /\ c.requests = d.requests /\ c.responses = d.responses + n /\ c.timeouts = d.timeouts
      /\ \/ c.success = d.success + n /\ c.errors = d.errors
         \/ c.success = d.success /\ c.errors = d.errors + n
  BY <1>1 DEF Fields, F, Adds
<1>5. /\ d.requests \in Nat /\ d.responses \in Nat /\ d.timeouts \in Nat
      /\ d.success \in Nat /\ d.errors \in Nat
  BY <1>1, RingCounts DEF Fields
<1>6. /\ d.requests >= d.responses + d.timeouts + Cardinality(KeptAt(P, m, q))
      /\ d.responses = d.success + d.errors
  BY <1>1 DEF Covers, Adds
<1>7. Cardinality(KeptAt(Q, m, q)) + n <= Cardinality(KeptAt(P, m, q)) BY <1>3
<1>8. Cardinality(KeptAt(P, m, q)) \in Nat /\ Cardinality(KeptAt(Q, m, q)) \in Nat
  BY <1>2, KeptFinite
<1>9. n \in {0, 1} BY DEF Once
<1> HIDE DEF c, d, m, n
<1>10. /\ c.requests >= c.responses + c.timeouts + Cardinality(KeptAt(Q, m, q))
       /\ c.responses = c.success + c.errors
  BY <1>4, <1>5, <1>6, <1>7, <1>8, <1>9
<1> QED BY <1>10 DEF c, m

LEMMA LateCovered ==
  ASSUME clock \in Nat, NEW h \in Ring, NEW P, AllLive(P), Holds(h, P), NEW k \in DOMAIN P,
         P[k].when \in Nat, k.port \in Port, LateCovers(h, P)
  PROVE  LateCovers(Cohort(h, P[k].when, k.port, {"late"}), Drop(P, {k}))
<1> DEFINE t == P[k].when
           p == k.port
           F == {"late"}
           o == Ready(h, t)
           w == Cohort(h, t, p, F)
           Q == Drop(P, {k})
<1>0. p \in Port /\ t \in Nat /\ Live(t) BY DEF AllLive
<1> HIDE DEF p, F, t
<1>1. /\ o \in Ring /\ w \in Ring /\ LateCovers(o, P) /\ w[Slot(t)].minute = MinuteOf(t)
      /\ Adds(o, w, t, p, F)
  BY <1>0, CohortSteps
<1>2. AllLive(Q) BY DropKept
<1>3. \A i \in 0..(Buckets - 1), q \in Port :
        Cardinality(KeptAt(Q, w[i].minute, q)) + Once(i, t, q, p)
          <= Cardinality(KeptAt(P, w[i].minute, q))
  <2> HIDE DEF w
  <2> QED BY <1>1, LessByOne DEF t, p
<1> HIDE DEF o, w, Q
<1> SUFFICES ASSUME NEW i \in 0..(Buckets - 1), NEW q \in Port
             PROVE  LET c == w[i].cohort[q]
                    IN c.timeouts >= c.late + Cardinality(KeptAt(Q, w[i].minute, q))
  BY DEF LateCovers, Q, w, p, F, t
<1> DEFINE d == o[i].cohort[q]
           c == w[i].cohort[q]
           m == w[i].minute
           n == Once(i, t, q, p)
<1>4. c.timeouts = d.timeouts /\ c.late = d.late + n BY <1>1 DEF Fields, F, Adds
<1>5. d.timeouts \in Nat /\ d.late \in Nat BY <1>1, RingCounts DEF Fields
<1>6. d.timeouts >= d.late + Cardinality(KeptAt(P, m, q)) BY <1>1 DEF LateCovers, Adds
<1>7. Cardinality(KeptAt(Q, m, q)) + n <= Cardinality(KeptAt(P, m, q)) BY <1>3
<1>8. Cardinality(KeptAt(P, m, q)) \in Nat /\ Cardinality(KeptAt(Q, m, q)) \in Nat
  BY <1>2, KeptFinite
<1>9. n \in {0, 1} BY DEF Once
<1> HIDE DEF c, d, m, n
<1>10. c.timeouts >= c.late + Cardinality(KeptAt(Q, m, q))
  BY <1>4, <1>5, <1>6, <1>7, <1>8, <1>9
<1> QED BY <1>10 DEF c, m

\* The account is in order: h is the history, P the queries without an answer
\* and T the timeouts that are remembered.
Books(h, P, T) ==
  /\ h \in Ring /\ Aligned(h) /\ Holds(h, P) /\ Holds(h, T) /\ Covers(h, P)
  /\ ~scenario.churn => LateCovers(h, T)

LEMMA WireBooks ==
  ASSUME clock \in Nat, NEW h, NEW P, AllLive(P), NEW T, AllLive(T), Books(h, P, T),
         NEW t \in Nat, Live(t), NEW F
  PROVE  Books(Wire(h, t, F), P, T)
<1>1. h \in Ring /\ Holds(h, P) /\ Holds(h, T) BY DEF Books
<1> DEFINE w == Wire(h, t, F)
<1>2. /\ w \in Ring /\ Holds(w, P)
      /\ Aligned(h) => Aligned(w)
      /\ Covers(h, P) => Covers(w, P)
  BY <1>1, WireKeeps
<1>3. Holds(w, T) /\ (LateCovers(h, T) => LateCovers(w, T)) BY <1>1, WireKeeps
<1> QED BY <1>2, <1>3 DEF Books

LEMMA FallbackBooks ==
  ASSUME clock \in Nat, NEW h, NEW P, AllLive(P), NEW T, AllLive(T), Books(h, P, T),
         NEW t \in Nat, Live(t), NEW p \in Port
  PROVE  Books(Cohort(h, t, p, {"fallbacks"}), P, T)
<1>1. h \in Ring /\ Holds(h, P) /\ Holds(h, T) BY DEF Books
<1> DEFINE F == {"fallbacks"}
           w == Cohort(h, t, p, F)
<1>2. F \subseteq {"late", "fallbacks"} /\ F \subseteq Fields \ {"late", "timeouts"}
  BY DEF Fields
<1> HIDE DEF F
<1>3. w \in Ring /\ Holds(w, P) /\ (Aligned(h) => Aligned(w)) BY <1>1, CohortSteps
<1>4. Holds(w, T) BY <1>1, CohortSteps
<1>5. Covers(h, P) => Covers(w, P) BY <1>1, <1>2, CohortQuiet
<1>6. LateCovers(h, T) => LateCovers(w, T) BY <1>1, <1>2, CohortQuiet
<1> HIDE DEF w
<1> QED BY <1>3, <1>4, <1>5, <1>6 DEF Books, w, F

LEMMA RequestBooks ==
  ASSUME clock \in Nat, NEW h, NEW P, AllLive(P), NEW T, AllLive(T), Books(h, P, T),
         NEW t \in Nat, Live(t), NEW k, k.port \in Port, NEW v, v.when = t
  PROVE  AllLive(Put(P, k, v)) /\ Books(Cohort(h, t, k.port, {"requests"}), Put(P, k, v), T)
<1>1. h \in Ring /\ Holds(h, P) /\ Holds(h, T) /\ Aligned(h) /\ Covers(h, P) BY DEF Books
<1> DEFINE F == {"requests"}
           w == Cohort(h, t, k.port, F)
<1>2. F \subseteq Fields \ {"late", "timeouts"} BY DEF Fields
<1>3. Covers(w, Put(P, k, v)) BY <1>1, RequestCovered
<1> HIDE DEF F
<1>4. w \in Ring /\ Holds(w, P) /\ Aligned(w) /\ w[Slot(t)].minute = MinuteOf(t)
  BY <1>1, CohortSteps
<1>5. Holds(w, T) BY <1>1, CohortSteps
<1>6. LateCovers(h, T) => LateCovers(w, T) BY <1>1, <1>2, CohortQuiet
<1> HIDE DEF w
<1>7. AllLive(Put(P, k, v)) /\ Holds(w, Put(P, k, v)) BY <1>4, PutKept
<1> QED BY <1>3, <1>4, <1>5, <1>6, <1>7 DEF Books, w, F

LEMMA OutcomeBooks ==
  ASSUME clock \in Nat, NEW h, NEW P, AllLive(P), NEW T, AllLive(T), Books(h, P, T),
         NEW k \in DOMAIN P, P[k].when \in Nat, k.port \in Port,
         NEW what \in {"success", "errors"}
  PROVE  Books(Cohort(h, P[k].when, k.port, {"responses", what}), Drop(P, {k}), T)
<1>1. h \in Ring /\ Holds(h, P) /\ Holds(h, T) /\ Aligned(h) /\ Covers(h, P) BY DEF Books
<1> DEFINE F == {"responses", what}
           t == P[k].when
           w == Cohort(h, t, k.port, F)
<1>2. F \subseteq Fields \ {"late", "timeouts"} BY DEF Fields
<1>3. Covers(w, Drop(P, {k})) BY <1>1, OutcomeCovered
<1>4. t \in Nat /\ Live(t) BY DEF AllLive
<1> HIDE DEF F, t
<1>5. w \in Ring /\ Holds(w, P) /\ Aligned(w) BY <1>1, <1>4, CohortSteps
<1>6. Holds(w, T) BY <1>1, <1>4, CohortSteps
<1>7. LateCovers(h, T) => LateCovers(w, T) BY <1>1, <1>2, <1>4, CohortQuiet
<1> HIDE DEF w
<1>8. Holds(w, Drop(P, {k})) BY <1>5, DropKept
<1> QED BY <1>3, <1>5, <1>6, <1>7, <1>8 DEF Books, w, t, F

LEMMA LateBooks ==
  ASSUME clock \in Nat, NEW h, NEW P, AllLive(P), NEW T, AllLive(T), Books(h, P, T),
         NEW k \in DOMAIN T, T[k].when \in Nat, k.port \in Port
  PROVE  Books(Cohort(h, T[k].when, k.port, {"late"}), P, Drop(T, {k}))
<1>1. h \in Ring /\ Holds(h, P) /\ Holds(h, T) /\ Aligned(h) /\ Covers(h, P) BY DEF Books
<1> DEFINE F == {"late"}
           t == T[k].when
           w == Cohort(h, t, k.port, F)
<1>2. F \subseteq {"late", "fallbacks"} OBVIOUS
<1>3. LateCovers(h, T) => LateCovers(w, Drop(T, {k})) BY <1>1, LateCovered
<1>4. t \in Nat /\ Live(t) BY DEF AllLive
<1> HIDE DEF F, t
<1>5. w \in Ring /\ Holds(w, P) /\ Aligned(w) BY <1>1, <1>4, CohortSteps
<1>6. Holds(w, T) BY <1>1, <1>4, CohortSteps
<1>7. Covers(w, P) BY <1>1, <1>2, <1>4, CohortQuiet
<1> HIDE DEF w
<1>8. Holds(w, Drop(T, {k})) BY <1>6, DropKept
<1> QED BY <1>3, <1>5, <1>6, <1>7, <1>8 DEF Books, w, t, F

\* The limits are short of the ring.
LEMMA AllAreLive ==
  ASSUME Base
  PROVE  /\ clock \in Nat /\ Live(clock)
         /\ AllLive(pending) /\ AllLive(timedOut)
         /\ held # NoPacket => Live(held.at)
         /\ \A t \in Nat : (Minute <= t /\ held # NoPacket /\ t <= held.at
                              /\ held.at - t <= FallbackTo) => Live(t)
<1> DEFINE R == Minute * (Buckets - 1)
<1>1. /\ clock \in Nat /\ swept \in Nat /\ SweepEvery \in Nat \ {0} /\ Minute \in Nat
      /\ LateKeep \in Nat /\ Longest \in Nat /\ FallbackTo \in Nat /\ R \in Nat
      /\ \A k \in DOMAIN pending : pending[k].when \in Nat
      /\ \A k \in DOMAIN timedOut : timedOut[k].when \in Nat /\ timedOut[k].at \in Nat
      /\ held # NoPacket => held.at \in Nat
  BY ClockTypes, Constants, PendingTypes, TimedOutTypes, HeldTypes DEF Longest, Base
<1>2. R > Longest + LateKeep + 2 * SweepEvery + 2 /\ R > FallbackTo + LateKeep + 2 * SweepEvery + 2
  BY StatsAssumption DEF Longest
<1>3. /\ Minute <= swept /\ swept <= clock /\ clock - swept <= SweepEvery
      /\ held # NoPacket => Minute <= held.at /\ held.at <= clock /\ clock - held.at <= 1
  BY DEF Base, Clocks
<1> HIDE DEF R
<1>4. Live(clock) BY <1>1, <1>3 DEF Live, R
<1>5. ASSUME NEW k \in DOMAIN pending PROVE Live(pending[k].when)
  <2>1. /\ Minute <= pending[k].when /\ pending[k].when <= clock
        /\ swept - pending[k].when <= Longest + 1
    BY DEF Base, Ages
  <2>2. clock - pending[k].when <= R BY <1>1, <1>2, <1>3, <2>1
  <2> QED BY <1>1, <2>1, <2>2 DEF Live, R
<1>6. ASSUME NEW k \in DOMAIN timedOut PROVE Live(timedOut[k].when)
  <2>1. /\ Minute <= timedOut[k].when
        /\ timedOut[k].when <= timedOut[k].at /\ timedOut[k].at <= clock
        /\ timedOut[k].at - timedOut[k].when <= Longest + 1 + SweepEvery
        /\ swept - timedOut[k].at <= LateKeep
    BY DEF Base, Ages
  <2>2. clock - timedOut[k].when <= R BY <1>1, <1>2, <1>3, <2>1
  <2>3. timedOut[k].when <= clock BY <1>1, <2>1
  <2> QED BY <1>1, <2>1, <2>2, <2>3 DEF Live, R
<1>7. held # NoPacket => Live(held.at)
  <2>1. held # NoPacket => clock - held.at <= R BY <1>1, <1>2, <1>3
  <2> QED BY <1>1, <1>3, <2>1 DEF Live, R
<1>8. \A t \in Nat : (Minute <= t /\ held # NoPacket /\ t <= held.at
                        /\ held.at - t <= FallbackTo) => Live(t)
  <2> TAKE t \in Nat
  <2> HAVE Minute <= t /\ held # NoPacket /\ t <= held.at /\ held.at - t <= FallbackTo
  <2>1. t <= clock /\ clock - t <= R BY <1>1, <1>2, <1>3
  <2> QED BY <2>1 DEF Live, R
<1>9. AllLive(pending) /\ AllLive(timedOut) BY <1>5, <1>6 DEF AllLive, Base, Finite
<1>10. clock \in Nat BY <1>1
<1> QED BY ONLY <1>4, <1>7, <1>8, <1>9, <1>10

LEMMA Apart ==
  ASSUME NEW A, IsFiniteSet(A), NEW B \in SUBSET A, NEW C \in SUBSET A, B \intersect C = {}
  PROVE  /\ Cardinality(A) \in Nat /\ Cardinality(B) \in Nat /\ Cardinality(C) \in Nat
         /\ Cardinality(B) + Cardinality(C) <= Cardinality(A)
<1>1. IsFiniteSet(B) /\ IsFiniteSet(C) BY FS_Subset
<1>2. /\ IsFiniteSet(B \union C)
      /\ Cardinality(B \union C) = Cardinality(B) + Cardinality(C) - Cardinality(B \intersect C)
  BY <1>1, FS_Union
<1>3. Cardinality(B \intersect C) = 0 BY FS_EmptySet
<1>4. B \union C \in SUBSET A OBVIOUS
<1>5. Cardinality(B \union C) <= Cardinality(A) BY <1>4, FS_Subset
<1>6. Cardinality(A) \in Nat /\ Cardinality(B) \in Nat /\ Cardinality(C) \in Nat
  BY <1>1, FS_CardinalityType
<1> QED BY <1>2, <1>3, <1>5, <1>6

LEMMA Joined ==
  ASSUME NEW A, IsFiniteSet(A), NEW B, IsFiniteSet(B), NEW C \in SUBSET (A \union B)
  PROVE  /\ Cardinality(A) \in Nat /\ Cardinality(B) \in Nat /\ Cardinality(C) \in Nat
         /\ Cardinality(C) <= Cardinality(A) + Cardinality(B)
<1>1. /\ IsFiniteSet(A \union B)
      /\ Cardinality(A \union B) = Cardinality(A) + Cardinality(B) - Cardinality(A \intersect B)
  BY FS_Union
<1>2. IsFiniteSet(C) /\ Cardinality(C) <= Cardinality(A \union B) BY <1>1, FS_Subset
<1>3. A \intersect B \in SUBSET A OBVIOUS
<1>4. IsFiniteSet(A \intersect B) BY <1>3, FS_Subset
<1>5. /\ Cardinality(A) \in Nat /\ Cardinality(B) \in Nat /\ Cardinality(C) \in Nat
      /\ Cardinality(A \intersect B) \in Nat /\ Cardinality(A \union B) \in Nat
  BY <1>1, <1>2, <1>4, FS_CardinalityType
<1> QED BY <1>1, <1>2, <1>5

\* The queries of resolver q and bucket i that a sweep counts as timeouts.
Lost(i, q) == {k \in Overdue : k.port \in Known /\ k.port = q /\ Slot(pending[k].when) = i}

\* What a sweep writes into the ring, if it counts anything.
LEMMA SweptRing ==
  ASSUME Base, CleanupTransient, {k \in Overdue : k.port \in Known} # {},
         NEW i \in 0..(Buckets - 1)
  PROVE  LET g == Opened(history, {clock} \union
                           {pending[k].when : k \in {k \in Overdue : k.port \in Known}})
         IN /\ history'[i].minute = g[i].minute
            /\ \A q \in Port : history'[i].cohort[q]
                                 = Add(g[i].cohort[q], {"timeouts"}, Cardinality(Lost(i, q)))
            /\ \/ history'[i].wire = g[i].wire
               \/ \E n : history'[i].wire = Add(g[i].wire, {"timeouts", "errors"}, n)
<1> DEFINE counted == {k \in Overdue : k.port \in Known}
           of(p)   == {k \in counted : k.port = p}
           h       == Opened(history, {clock} \union {Since(pending[k]) : k \in counted})
           X(p)    == {k \in of(p) : Slot(Since(pending[k])) = i}
           b(j)    == [minute |-> h[j].minute,
                       wire   |-> IF j = Slot(clock)
                                  THEN Add(h[j].wire, {"timeouts", "errors"}, Cardinality(counted))
                                  ELSE h[j].wire,
                       cohort |-> [p \in Port |-> Add(h[j].cohort[p], {"timeouts"},
                          Cardinality({k \in of(p) : Slot(Since(pending[k])) = j}))]]
<1>1. history' = [j \in DOMAIN h |-> b(j)] BY DEF CleanupTransient
<1>2. DOMAIN h = 0..(Buckets - 1) BY DEF Opened, Base, TypeOK
<1>3. history'[i] = b(i)
  <2> HIDE DEF b, h
  <2> QED BY <1>1, <1>2
<1>4. /\ history'[i].minute = h[i].minute
      /\ \A q \in Port : history'[i].cohort[q]
                           = Add(h[i].cohort[q], {"timeouts"}, Cardinality(X(q)))
      /\ \/ history'[i].wire = h[i].wire
         \/ \E n : history'[i].wire = Add(h[i].wire, {"timeouts", "errors"}, n)
  <2> HIDE DEF h, of, counted
  <2> QED BY <1>3
<1>5. \A q \in Port : X(q) = Lost(i, q) BY DEF Lost, Since
<1>6. h = Opened(history, {clock} \union {pending[k].when : k \in counted}) BY DEF Since
<1> HIDE DEF h, X
<1> DEFINE g == Opened(history, {clock} \union {pending[k].when : k \in counted})
<1>7. /\ history'[i].minute = g[i].minute
      /\ \A q \in Port : history'[i].cohort[q]
                           = Add(g[i].cohort[q], {"timeouts"}, Cardinality(Lost(i, q)))
      /\ \/ history'[i].wire = g[i].wire
         \/ \E n : history'[i].wire = Add(g[i].wire, {"timeouts", "errors"}, n)
  <2>1. h = g BY <1>6
  <2> HIDE DEF g
  <2> QED BY <1>4, <1>5, <2>1
<1> HIDE DEF g
<1> QED BY <1>7 DEF g

\* A sweep moves queries from those that wait to those that timed out.
LEMMA SweptMaps ==
  ASSUME Base, CleanupTransient
  PROVE  /\ pending' = Drop(pending, Overdue)
         /\ \A k \in DOMAIN timedOut' :
              \/ k \in Overdue /\ timedOut'[k].when = pending[k].when
              \/ k \in DOMAIN timedOut /\ k \notin Overdue /\ timedOut'[k] = timedOut[k]
         /\ AllLive(timedOut')
         /\ \A g : Holds(g, pending) /\ Holds(g, timedOut) => Holds(g, timedOut')
<1>1. pending' = Drop(pending, Overdue) BY DEF CleanupTransient, Settle
<1>2. timedOut' = [k \in (DOMAIN timedOut \ Expired) \union Overdue |->
                    IF k \in Overdue
                    THEN [query |-> pending[k].query, when |-> pending[k].when, at |-> clock]
                    ELSE timedOut[k]]
  BY DEF CleanupTransient
<1>3. \A k \in DOMAIN timedOut' :
        \/ k \in Overdue /\ timedOut'[k].when = pending[k].when
        \/ k \in DOMAIN timedOut /\ k \notin Overdue /\ timedOut'[k] = timedOut[k]
  BY <1>2
<1>4. Overdue \subseteq DOMAIN pending BY DEF Overdue
<1>5. AllLive(pending) /\ AllLive(timedOut) BY AllAreLive
<1>6. IsFiniteSet(DOMAIN timedOut')
  <2>1. IsFiniteSet(DOMAIN pending) /\ IsFiniteSet(DOMAIN timedOut) BY DEF Base, Finite
  <2>2. IsFiniteSet(DOMAIN pending \union DOMAIN timedOut) BY <2>1, FS_Union
  <2>3. DOMAIN timedOut' \in SUBSET (DOMAIN pending \union DOMAIN timedOut)
    BY <1>3, <1>4
  <2> QED BY <2>2, <2>3, FS_Subset
<1>7. AllLive(timedOut') BY <1>3, <1>4, <1>5, <1>6 DEF AllLive
<1>8. \A g : Holds(g, pending) /\ Holds(g, timedOut) => Holds(g, timedOut')
  BY <1>3, <1>4 DEF Holds
<1> QED BY <1>1, <1>3, <1>7, <1>8

LEMMA SweptBooks ==
  ASSUME Base, CleanupTransient, Books(history, pending, timedOut),
         ~scenario.churn => scenario.ports \subseteq Known
  PROVE  Books(history', pending', timedOut')
<1> DEFINE counted == {k \in Overdue : k.port \in Known}
           T       == {clock} \union {pending[k].when : k \in counted}
           g       == Opened(history, T)
           P       == pending'
           Q       == timedOut'
<1>1. /\ clock \in Nat /\ AllLive(pending) /\ AllLive(timedOut) /\ Live(clock)
      /\ Overdue \subseteq DOMAIN pending
  BY AllAreLive DEF Overdue
<1>2. /\ P = Drop(pending, Overdue) /\ AllLive(Q)
      /\ \A k \in DOMAIN Q :
           \/ k \in Overdue /\ Q[k].when = pending[k].when
           \/ k \in DOMAIN timedOut /\ k \notin Overdue /\ Q[k] = timedOut[k]
      /\ \A f : Holds(f, pending) /\ Holds(f, timedOut) => Holds(f, Q)
  BY SweptMaps
<1>3. /\ AllLive(P)
      /\ \A f : Holds(f, pending) => Holds(f, P)
      /\ \A m, p : KeptAt(P, m, p) = KeptAt(pending, m, p) \ Overdue
  BY <1>1, <1>2, DropKept
<1>4. ~scenario.churn => \A k \in Overdue : k.port \in Known
  BY <1>1, PendingTypes DEF Base
<1> HIDE DEF P, Q
<1>5. CASE counted = {}
  <2>1. history' = history BY <1>5 DEF CleanupTransient
  <2>2. Covers(history, P)
    <3>1. \A i \in 0..(Buckets - 1), p \in Port :
            /\ Cardinality(KeptAt(P, history[i].minute, p)) \in Nat
            /\ Cardinality(KeptAt(pending, history[i].minute, p)) \in Nat
            /\ Cardinality(KeptAt(P, history[i].minute, p))
                 <= Cardinality(KeptAt(pending, history[i].minute, p))
      <4> TAKE i \in 0..(Buckets - 1), p \in Port
      <4>1. KeptAt(P, history[i].minute, p) \subseteq KeptAt(pending, history[i].minute, p)
        BY <1>3
      <4> QED BY <4>1, <1>1, <1>3, KeptFinite, FS_Subset
    <3>2. history \in Ring /\ Covers(history, pending) BY DEF Books
    <3>3. \A i \in 0..(Buckets - 1), p \in Port :
            /\ history[i].cohort[p].requests \in Nat /\ history[i].cohort[p].responses \in Nat
            /\ history[i].cohort[p].timeouts \in Nat
      BY <3>2, RingCounts DEF Fields
    <3> QED BY <3>1, <3>2, <3>3 DEF Covers
  <2>3. ~scenario.churn => LateCovers(history, Q)
    <3> SUFFICES ASSUME ~scenario.churn PROVE LateCovers(history, Q) OBVIOUS
    <3>1. Overdue = {} BY <1>4, <1>5
    <3>2. \A m, p : KeptAt(Q, m, p) \subseteq KeptAt(timedOut, m, p)
      BY <3>1, <1>2 DEF KeptAt
    <3>3. \A i \in 0..(Buckets - 1), p \in Port :
            /\ Cardinality(KeptAt(Q, history[i].minute, p)) \in Nat
            /\ Cardinality(KeptAt(timedOut, history[i].minute, p)) \in Nat
            /\ Cardinality(KeptAt(Q, history[i].minute, p))
                 <= Cardinality(KeptAt(timedOut, history[i].minute, p))
      BY <3>2, <1>1, <1>2, KeptFinite, FS_Subset
    <3>4. history \in Ring /\ LateCovers(history, timedOut) BY DEF Books
    <3>5. \A i \in 0..(Buckets - 1), p \in Port :
            history[i].cohort[p].timeouts \in Nat /\ history[i].cohort[p].late \in Nat
      BY <3>4, RingCounts DEF Fields
    <3> QED BY <3>3, <3>4, <3>5 DEF LateCovers
  <2>4. scenario' = scenario BY DEF CleanupTransient
  <2> QED BY <2>1, <2>2, <2>3, <1>2, <1>3 DEF Books, P, Q
<1>6. CASE counted # {}
  <2> DEFINE w == history'
  <2>1. /\ \A i \in 0..(Buckets - 1) : w[i].minute = g[i].minute
        /\ \A i \in 0..(Buckets - 1), q \in Port :
             w[i].cohort[q] = Add(g[i].cohort[q], {"timeouts"}, Cardinality(Lost(i, q)))
    BY <1>6, SweptRing
  <2>2. w \in Ring
    <3>1. TypeOK' BY TypesNext DEF Base, Next
    <3> QED BY <3>1 DEF TypeOK, Ring
  <2>3. \A t \in T : Live(t) BY <1>1 DEF AllLive
  <2>4. history \in Ring /\ Holds(history, pending) /\ Holds(history, timedOut) BY DEF Books
  <2> HIDE DEF T, w
  <2>5. /\ g \in Ring /\ Holds(g, pending)
        /\ Aligned(history) => Aligned(g)
        /\ Covers(history, pending) => Covers(g, pending)
    BY <1>1, <2>3, <2>4, OpenKeeps
  <2>6. Holds(g, timedOut) /\ (LateCovers(history, timedOut) => LateCovers(g, timedOut))
    BY <1>1, <2>3, <2>4, OpenKeeps
  <2>7. Aligned(g) /\ Covers(g, pending) BY <2>5 DEF Books
  <2> HIDE DEF g
  <2>8. \A f, X : Holds(g, X) /\ AllLive(X) => Holds(w, X)
    <3>1. \A X : AllLive(X) => \A k \in DOMAIN X : Slot(X[k].when) \in 0..(Buckets - 1)
      BY SlotTypes DEF AllLive, Live
    <3> QED BY <3>1, <2>1 DEF Holds
  <2>9. Holds(w, P) /\ Holds(w, Q) BY <2>5, <2>6, <2>8, <1>2, <1>3
  <2>10. Aligned(w) BY <2>1, <2>7 DEF Aligned
  <2>11. ASSUME NEW i \in 0..(Buckets - 1), NEW q \in Port
         PROVE  /\ Lost(i, q) \in SUBSET KeptAt(pending, g[i].minute, q)
                /\ Lost(i, q) \subseteq Overdue /\ IsFiniteSet(Lost(i, q))
                /\ Cardinality(Lost(i, q)) \in Nat
    <3>1. Lost(i, q) \in SUBSET KeptAt(pending, g[i].minute, q)
      BY <1>1, <2>5 DEF Lost, KeptAt, Holds
    <3>2. IsFiniteSet(KeptAt(pending, g[i].minute, q)) BY <1>1, KeptFinite
    <3> QED BY <3>1, <3>2, FS_Subset, FS_CardinalityType DEF Lost
  <2>12. ASSUME NEW i \in 0..(Buckets - 1), NEW q \in Port, NEW f \in Fields
         PROVE  /\ g[i].cohort[q][f] \in Nat
                /\ w[i].cohort[q][f] = IF f = "timeouts"
                                       THEN g[i].cohort[q][f] + Cardinality(Lost(i, q))
                                       ELSE g[i].cohort[q][f]
    <3>1. g[i].cohort[q] \in Counters BY <2>5 DEF Ring, BucketsOf
    <3>2. Cardinality(Lost(i, q)) \in Nat BY <2>11
    <3>3. Add(g[i].cohort[q], {"timeouts"}, Cardinality(Lost(i, q)))[f]
            = IF f \in {"timeouts"} THEN g[i].cohort[q][f] + Cardinality(Lost(i, q))
                                    ELSE g[i].cohort[q][f]
      BY <3>1, <3>2, AddTypes
    <3> QED BY <3>1, <3>3, <2>1 DEF Counters
  <2>13. Covers(w, P)
    <3> SUFFICES ASSUME NEW i \in 0..(Buckets - 1), NEW q \in Port
                 PROVE  LET c == w[i].cohort[q]
                        IN /\ c.requests >= c.responses + c.timeouts
                                              + Cardinality(KeptAt(P, w[i].minute, q))
                           /\ c.responses = c.success + c.errors
      BY DEF Covers
    <3> DEFINE c == w[i].cohort[q]
               d == g[i].cohort[q]
               m == g[i].minute
               n == Cardinality(Lost(i, q))
    <3>1. /\ c.requests = d.requests /\ c.responses = d.responses
          /\ c.timeouts = d.timeouts + n /\ c.success = d.success /\ c.errors = d.errors
          /\ d.requests \in Nat /\ d.responses \in Nat /\ d.timeouts \in Nat
          /\ d.success \in Nat /\ d.errors \in Nat
      BY <2>12 DEF Fields
    <3>2. /\ d.requests >= d.responses + d.timeouts + Cardinality(KeptAt(pending, m, q))
          /\ d.responses = d.success + d.errors
      BY <2>7 DEF Covers
    <3>3. /\ Cardinality(KeptAt(P, m, q)) \in Nat /\ n \in Nat
          /\ Cardinality(KeptAt(pending, m, q)) \in Nat
          /\ Cardinality(KeptAt(P, m, q)) + n <= Cardinality(KeptAt(pending, m, q))
      <4> DEFINE A == KeptAt(pending, m, q)
                 B == KeptAt(P, m, q)
                 C == Lost(i, q)
      <4>1. C \in SUBSET A /\ C \subseteq Overdue BY <2>11
      <4>2. B \in SUBSET A /\ B \intersect C = {} BY <4>1, <1>3
      <4>3. IsFiniteSet(A) BY <1>1, KeptFinite
      <4> HIDE DEF A, B, C
      <4>4. /\ Cardinality(A) \in Nat /\ Cardinality(B) \in Nat /\ Cardinality(C) \in Nat
            /\ Cardinality(B) + Cardinality(C) <= Cardinality(A)
        BY <4>1, <4>2, <4>3, Apart
      <4> QED BY <4>4 DEF A, B, C
    <3>4. w[i].minute = m BY <2>1
    <3> HIDE DEF c, d, m, n
    <3>5. /\ c.requests >= c.responses + c.timeouts + Cardinality(KeptAt(P, m, q))
          /\ c.responses = c.success + c.errors
      BY <3>1, <3>2, <3>3
    <3> QED BY <3>4, <3>5 DEF c
  <2>14. ASSUME ~scenario.churn PROVE LateCovers(w, Q)
    <3> SUFFICES ASSUME NEW i \in 0..(Buckets - 1), NEW q \in Port
                 PROVE  LET c == w[i].cohort[q]
                        IN c.timeouts >= c.late + Cardinality(KeptAt(Q, w[i].minute, q))
      BY DEF LateCovers
    <3> DEFINE c == w[i].cohort[q]
               d == g[i].cohort[q]
               m == g[i].minute
               n == Cardinality(Lost(i, q))
    <3>1. /\ c.timeouts = d.timeouts + n /\ c.late = d.late
          /\ d.timeouts \in Nat /\ d.late \in Nat
      BY <2>12 DEF Fields
    <3>2. d.timeouts >= d.late + Cardinality(KeptAt(timedOut, m, q))
      <4>1. LateCovers(g, timedOut) BY <2>6, <2>14 DEF Books
      <4> QED BY <4>1 DEF LateCovers
    <3>3. /\ Cardinality(KeptAt(Q, m, q)) \in Nat /\ n \in Nat
          /\ Cardinality(KeptAt(timedOut, m, q)) \in Nat
          /\ Cardinality(KeptAt(Q, m, q)) <= Cardinality(KeptAt(timedOut, m, q)) + n
      <4> DEFINE A == KeptAt(timedOut, m, q)
                 B == Lost(i, q)
                 C == KeptAt(Q, m, q)
      <4>1. IsFiniteSet(A) /\ IsFiniteSet(B) BY <1>1, <2>11, KeptFinite
      <4>2. ASSUME NEW k \in Overdue, k.port = q, MinuteOf(pending[k].when) = m
            PROVE  k \in B
        <5>1. k.port \in Known BY <1>4, <2>14
        <5>2. Live(pending[k].when) /\ pending[k].when \in Nat BY <1>1 DEF AllLive, Live
        <5>3. i = Slot(pending[k].when) BY <1>1, <2>7, <4>2, <5>2, SlotOfMinute
        <5> QED BY <4>2, <5>1, <5>3 DEF Lost
      <4>3. C \in SUBSET (A \union B) BY <4>2, <1>2 DEF KeptAt
      <4> HIDE DEF A, B, C
      <4>4. /\ Cardinality(A) \in Nat /\ Cardinality(B) \in Nat /\ Cardinality(C) \in Nat
            /\ Cardinality(C) <= Cardinality(A) + Cardinality(B)
        BY <4>1, <4>3, Joined
      <4> QED BY <4>4 DEF A, B, C
    <3>4. w[i].minute = m BY <2>1
    <3> HIDE DEF c, d, m, n
    <3>5. c.timeouts >= c.late + Cardinality(KeptAt(Q, m, q)) BY <3>1, <3>2, <3>3
    <3> QED BY <3>4, <3>5 DEF c
  <2> QED BY <2>2, <2>9, <2>10, <2>13, <2>14 DEF Books, P, Q, w
<1> QED BY <1>5, <1>6

\* No question of the last seconds is from before the Store's start, and the
\* resolvers stay when discovery finds nothing new.
Started == \A m \in Metas, n \in Name : \A r \in recent[m][n] : Minute <= r.when
Settled == ~scenario.churn => scenario.ports \subseteq Known

LEMMA StartedNext ==
  ASSUME Base, Started, [Next]_vars
  PROVE  Started'
<1> SUFFICES ASSUME NEW m \in Metas, NEW n \in Name, NEW r \in recent'[m][n]
             PROVE  Minute <= r.when
  BY DEF Started
<1>1. CASE r \in recent[m][n] BY <1>1 DEF Started
<1>2. CASE RecordQuery /\ r = [when |-> held.at, key |-> held.key, query |-> held.query]
  <2>1. held # NoPacket BY <1>2, Holding DEF RecordQuery
  <2> QED BY <1>2, <2>1 DEF Base, Clocks
<1> QED BY <1>1, <1>2, RecentNext DEF Base

LEMMA SettledNext ==
  ASSUME TypeOK, Settled, [Next]_vars
  PROVE  Settled'
<1>1. scenario' = scenario
  BY RecordFrame, AsideFrame, CaptureFrame DEF Next, Aside, CleanupTransient, Tick
<1>2. ~scenario.churn => Known \subseteq DOMAIN upstream'
  <2>1. CASE UNCHANGED upstream BY <2>1 DEF Known
  <2>2. CASE RecordQuery
    BY <2>2 DEF RecordQuery, Put, Known
  <2>3. CASE ReplyLate \/ ReplyUnmatched \/ ReplyMatched
    BY <2>3 DEF ReplyLate, ReplyUnmatched, ReplyMatched, Known
  <2>4. CASE CleanupTransient BY <2>4 DEF CleanupTransient, Known
  <2>5. CASE Watch
    <3>1. ASSUME NEW S \in SUBSET scenario.ports, UpdateDiscovery(S)
          PROVE  scenario.churn
      BY <3>1 DEF UpdateDiscovery
    <3>2. ASSUME NEW p \in scenario.ports, CheckOne(p) PROVE DOMAIN upstream' = Known
      BY <3>2 DEF CheckOne, SetHealth, Known
    <3>3. ASSUME NEW p \in scenario.ports, DiagnoseUpstream(p) PROVE DOMAIN upstream' = Known
      BY <3>3 DEF DiagnoseUpstream, Diagnosed, Known
    <3>4. StartProbes \/ StartDiagnoses
            \/ (\E p \in scenario.ports, f \in FaultKinds : FaultMoves(p, f))
          => UNCHANGED upstream
      BY DEF StartProbes, StartDiagnoses, FaultMoves, store
    <3> QED BY <2>1, <2>5, <3>1, <3>2, <3>3, <3>4 DEF Watch
  <2> QED
    BY <2>1, <2>2, <2>3, <2>4, <2>5, CaptureFrame
    DEF Next, Record, ReplyIgnored, Tick, vars, store
<1> QED BY <1>1, <1>2 DEF Settled, Known

LEMMA QueryBooks ==
  ASSUME Base, Started, Books(history, pending, timedOut), RecordQuery
  PROVE  Books(history', pending', timedOut')
<1> DEFINE t == held.at
           k == held.key
           v == [query |-> held.query, name |-> held.name, when |-> t]
           Q == Put(pending, k, v)
           w == Wire(history, t, {"requests"})
           h == Cohort(w, t, k.port, {"requests"})
           from == FallbackSource
           x == Wire(h, t, {"fallbacks"})
<1>1. held # NoPacket /\ held.kind = "query" BY Holding DEF RecordQuery
<1>2. k.port \in Port /\ t \in Nat BY <1>1, HeldTypes DEF Base
<1>3. clock \in Nat /\ AllLive(pending) /\ AllLive(timedOut) /\ Live(t)
  BY <1>1, AllAreLive
<1>4. /\ pending' = Q /\ timedOut' = timedOut
      /\ \/ history' = h
         \/ /\ FallbackSources # {}
            /\ history' = Cohort(x, from.when, from.key.port, {"fallbacks"})
  BY DEF RecordQuery
<1>5. v.when = t OBVIOUS
<1> HIDE DEF v, t, k
<1>6. Books(w, pending, timedOut) BY <1>2, <1>3, WireBooks
<1> HIDE DEF w
<1>7. AllLive(Q) /\ Books(h, Q, timedOut) BY <1>2, <1>3, <1>5, <1>6, RequestBooks
<1> HIDE DEF h, Q
<1>8. ASSUME FallbackSources # {}
      PROVE  Books(Cohort(x, from.when, from.key.port, {"fallbacks"}), Q, timedOut)
  <2>1. /\ from.key.port \in Port /\ from.when \in Nat
        /\ from.when <= held.at /\ held.at - from.when <= FallbackTo
        /\ from \in recent[Profile(held.key.port)][held.name]
    BY <1>1, <1>8, SourceFacts DEF Base
  <2>2. Profile(held.key.port) \in Metas /\ held.name \in Name
    BY <1>1, HeldTypes, ProfileTypes DEF Base
  <2>3. Minute <= from.when BY <2>1, <2>2 DEF Started
  <2>4. Live(from.when) BY <1>1, <2>1, <2>3, AllAreLive
  <2>5. Books(x, Q, timedOut) BY <1>2, <1>3, <1>7, WireBooks
  <2> HIDE DEF x
  <2> QED BY <1>3, <1>7, <2>1, <2>4, <2>5, FallbackBooks
<1> QED BY <1>4, <1>7, <1>8

LEMMA ReplyBooks ==
  ASSUME Base, Books(history, pending, timedOut), ReplyLate \/ ReplyMatched
  PROVE  Books(history', pending', timedOut')
<1> DEFINE t == held.at
           k == held.key
<1>1. held # NoPacket BY Holding DEF ReplyLate, ReplyMatched
<1>2. k.port \in Port /\ t \in Nat BY <1>1, HeldTypes DEF Base
<1>3. clock \in Nat /\ AllLive(pending) /\ AllLive(timedOut) /\ Live(t)
  BY <1>1, AllAreLive
<1>4. CASE ReplyLate
  <2> DEFINE w == Wire(history, t, {"late"})
  <2>1. /\ k \in DOMAIN timedOut /\ timedOut' = Drop(timedOut, {k}) /\ pending' = pending
        /\ history' = Cohort(w, timedOut[k].when, k.port, {"late"})
    BY <1>4 DEF ReplyLate, Forget, Since
  <2>2. timedOut[k].when \in Nat BY <2>1, TimedOutTypes DEF Base
  <2> HIDE DEF t, k
  <2>3. Books(w, pending, timedOut) BY <1>2, <1>3, WireBooks
  <2> HIDE DEF w
  <2>4. Books(Cohort(w, timedOut[k].when, k.port, {"late"}), pending, Drop(timedOut, {k}))
    BY <1>2, <1>3, <2>1, <2>2, <2>3, LateBooks
  <2> QED BY <2>1, <2>4
<1>5. CASE ReplyMatched
  <2> DEFINE what == IF held.good THEN "success" ELSE "errors"
             w == Wire(history, t, {"responses", what})
  <2>1. /\ k \in DOMAIN pending /\ pending' = Drop(pending, {k}) /\ timedOut' = timedOut
        /\ history' = Cohort(w, pending[k].when, k.port, {"responses", what})
    BY <1>5 DEF ReplyMatched, Settle, Since
  <2>2. pending[k].when \in Nat BY <2>1, PendingTypes DEF Base
  <2>3. what \in {"success", "errors"} OBVIOUS
  <2> HIDE DEF t, k, what
  <2>4. Books(w, pending, timedOut) BY <1>2, <1>3, WireBooks
  <2> HIDE DEF w
  <2>5. Books(Cohort(w, pending[k].when, k.port, {"responses", what}),
              Drop(pending, {k}), timedOut)
    BY <1>2, <1>3, <2>1, <2>2, <2>3, <2>4, OutcomeBooks
  <2> QED BY <2>1, <2>5
<1> QED BY <1>4, <1>5

\* The books at the next step, from the books the step leaves behind.
LEMMA BooksLater ==
  ASSUME TypeOK, TypeOK', Clocks, scenario' = scenario, clock' = clock \/ clock' = clock + 1,
         NEW h, NEW P, NEW T, Books(h, P, T)
  PROVE  Books(h, P, T)'
<1>1. clock \in Nat /\ clock' \in Nat /\ clock <= clock'
  BY ClockTypes
<1>2. MinuteOf(clock) \in Nat /\ MinuteOf(clock') \in Nat BY <1>1, SlotTypes
<1>4. MinuteOf(clock) <= MinuteOf(clock')
  <2> DEFINE R == Minute * (Buckets - 1)
  <2>1. R > TimeoutLimit + LateKeep + 2 * SweepEvery + 2 BY StatsAssumption
  <2>2. R \in Nat BY Constants
  <2> HIDE DEF R
  <2>3. R >= 1
    <3>1. TimeoutLimit \in Nat /\ LateKeep \in Nat /\ SweepEvery \in Nat BY Constants
    <3> QED BY <2>1, <2>2, <3>1
  <2>4. clock' - clock <= R
    <3>1. ASSUME NEW a \in Nat, NEW b \in Nat, b = a \/ b = a + 1 PROVE b - a <= R
      BY <2>2, <2>3, <3>1
    <3> QED BY <1>1, <3>1
  <2> QED BY <1>1, <2>4, MinutesApart DEF R
<1>3. \A i \in 0..(Buckets - 1) : h[i].minute \in Nat BY RingCounts DEF Books
<1> QED BY <1>2, <1>3, <1>4 DEF Books, Aligned

BooksInv == Base /\ Traced /\ OneVerdict /\ Started /\ Settled /\ Books(history, pending, timedOut)

LEMMA BooksNext == BooksInv /\ [Next]_vars => BooksInv'
<1> SUFFICES ASSUME BooksInv, [Next]_vars PROVE BooksInv' OBVIOUS
<1> USE DEF BooksInv
<1>1. Base' BY BaseNext
<1>2. Traced' /\ OneVerdict' /\ Started' /\ Settled'
  BY TracedNext, OneVerdictNext, StartedNext, SettledNext DEF Base
<1>3. scenario' = scenario /\ (clock' = clock \/ clock' = clock + 1)
  BY RecordFrame, AsideFrame, CaptureFrame DEF Next, Aside, CleanupTransient, Tick, Base
<1>4. Books(history', pending', timedOut')
  <2>1. CASE UNCHANGED <<history, pending, timedOut>> BY <2>1
  <2>2. CASE RecordQuery BY <2>2, QueryBooks
  <2>3. CASE ReplyLate \/ ReplyMatched BY <2>3, ReplyBooks
  <2>4. CASE CleanupTransient BY <2>4, SweptBooks DEF Settled
  <2>5. CASE Watch
    <3>1. UNCHANGED <<pending, timedOut>> BY <2>5, AsideFrame DEF Aside
    <3>2. history' = history \/ history' = Wire(history, clock, {"errors"})
      BY <2>5 DEF Watch, UpdateDiscovery, StartProbes, CheckOne, SetHealth, StartDiagnoses,
                  DiagnoseUpstream, FaultMoves, store
    <3>3. Books(Wire(history, clock, {"errors"}), pending, timedOut) BY AllAreLive, WireBooks
    <3> QED BY <3>1, <3>2, <3>3
  <2> QED
    BY <2>1, <2>2, <2>3, <2>4, <2>5, CaptureFrame
    DEF Next, Record, ReplyIgnored, ReplyUnmatched, Tick, vars, store, Base
<1>5. Books(history, pending, timedOut)'
  <2>1. ASSUME NEW h, NEW P, NEW T, h = history', P = pending', T = timedOut'
        PROVE  Books(history, pending, timedOut)'
    <3>1. Books(h, P, T) BY <1>4, <2>1
    <3>2. Books(h, P, T)' BY <3>1, <1>1, <1>3, BooksLater DEF Base
    <3> QED BY <3>2, <2>1
  <2> QED BY <2>1
<1> QED BY <1>1, <1>2, <1>5

LEMMA BooksInit == Init => BooksInv
<1> SUFFICES ASSUME Init PROVE BooksInv OBVIOUS
<1>1. Base /\ Traced /\ OneVerdict BY BaseInit, TracedInit
<1>2. Started BY DEF Init, Started
<1>3. Settled BY DEF Init, Settled, Known
<1>4. /\ pending = <<>> /\ timedOut = <<>>
      /\ history = [i \in 0..(Buckets - 1) |-> EmptyBucket(0)]
  BY DEF Init
<1>5. \A i \in 0..(Buckets - 1) :
        history[i].minute = 0 /\ \A p \in Port : history[i].cohort[p] = Zero
  BY <1>4, EmptyTypes
<1>6. history \in Ring BY <1>1 DEF Base, TypeOK, Ring
<1>7. MinuteOf(clock) \in Nat BY <1>1, ClockTypes, SlotTypes DEF Base
<1>8. Aligned(history) BY <1>5, <1>7 DEF Aligned
<1>9. \A m, p : KeptAt(pending, m, p) = {} /\ KeptAt(timedOut, m, p) = {}
  BY <1>4 DEF KeptAt
<1>10. Holds(history, pending) /\ Holds(history, timedOut) BY <1>4 DEF Holds
<1>11. Covers(history, pending) /\ LateCovers(history, timedOut)
  BY <1>5, <1>9, FS_EmptySet DEF Covers, LateCovers, Zero, Fields
<1> QED BY <1>1, <1>2, <1>3, <1>6, <1>8, <1>10, <1>11 DEF BooksInv, Books

\* A query is counted once, has one outcome, and both are in the figures of
\* its minute: for any limits, reused keys, lost and repeated packets,
\* resolvers that come and go, and a ring of any length that a query does not
\* outlive.
THEOREM AccountsBalance == Spec => []Accounted
<1>1. BooksInv => Accounted
  <2> SUFFICES ASSUME BooksInv PROVE Accounted OBVIOUS
  <2>1. DOMAIN history = 0..(Buckets - 1) BY DEF BooksInv, Base, TypeOK
  <2>2. \A b, p : Waiting(b, p) = KeptAt(pending, b.minute, p)
                  /\ Remembered(b, p) = KeptAt(timedOut, b.minute, p)
    BY DEF Waiting, Remembered, KeptAt
  <2>3. CohortBalance BY <2>1, <2>2 DEF CohortBalance, BooksInv, Books, Covers
  <2>4. LateBalance BY <2>1, <2>2 DEF LateBalance, BooksInv, Books, LateCovers
  <2> QED BY <2>3, <2>4 DEF Accounted, BooksInv
<1> QED BY <1>1, BooksInit, BooksNext, PTL DEF Spec

-----------------------------------------------------------------------------
(* The health of the resolvers.                                            *)

\* What a step may do to a resolver that is known after it: nothing, start
\* afresh, find it well, find that it fails, or explain why it does.
SameHealth(p) ==
  /\ upstream'[p].health = upstream[p].health /\ upstream'[p].fails = upstream[p].fails
  /\ upstream'[p].observed = upstream[p].observed
  /\ alert'[p] = alert[p] /\ fell'[p] = fell[p]

SameCause(p) == upstream'[p].ran = upstream[p].ran /\ upstream'[p].cause = upstream[p].cause

Kept(p) == p \in Known /\ SameHealth(p) /\ SameCause(p)

Fresh(p) ==
  /\ upstream'[p].health = "UNKNOWN" /\ upstream'[p].ran = Never
  /\ upstream'[p].cause = "UNKNOWN" /\ alert'[p] = "none"

Well(p) ==
  /\ p \in Known /\ SameCause(p)
  /\ upstream'[p].health = "UP"
  /\ alert'[p] = IF upstream[p].health = "DOWN" THEN "RECOVERED" ELSE alert[p]

Fails(p) ==
  /\ p \in Known /\ SameCause(p)
  /\ upstream'[p].observed = upstream[p].observed
  /\ upstream'[p].fails = upstream[p].fails + 1
  /\ upstream'[p].health = IF Shielded(upstream[p]) THEN "UP"
                           ELSE IF upstream[p].fails > 0 THEN "DOWN" ELSE "DEGRADED"
  /\ IF upstream'[p].health = "DOWN" /\ upstream[p].health # "DOWN"
     THEN alert'[p] = "DOWN" /\ fell'[p] = clock
     ELSE alert'[p] = alert[p] /\ fell'[p] = fell[p]

Explained(p) ==
  /\ p \in Known /\ SameHealth(p)
  /\ p \in DOMAIN diagnosing /\ diagnosing' = Drop(diagnosing, {p})
  /\ upstream'[p].ran \in diagRound..clock
  /\ \/ DiagnoseOnce(p, diagnosing[p]) /\ upstream'[p].cause = Cause(diagnosing[p])
     \/ /\ ~DiagnoseOnce(p, diagnosing[p])
        /\ diagnosing[p] = "plain" \/ RouteOf[p] = "default"
        /\ upstream'[p].cause = "UPSTREAM"

Changes(p) == Kept(p) \/ Fresh(p) \/ Well(p) \/ Fails(p) \/ Explained(p)

LEMMA ChangesQuery ==
  ASSUME TypeOK, RecordQuery, NEW q \in DOMAIN upstream'
  PROVE  Kept(q) \/ Fresh(q)
<1> DEFINE p     == held.key.port
           st    == IF p \in Known THEN upstream[p] ELSE NewUpstream("unknown")
           new   == [st EXCEPT !.count = Bump(@, {"requests"})]
           known == Put(upstream, p, new)
           r     == FallbackSource.key.port
<1>1. held # NoPacket /\ p \in Port BY Holding, HeldTypes DEF RecordQuery
<1>2. \/ upstream' = known
      \/ r \in Known /\ upstream' = [known EXCEPT ![r].count = Bump(@, {"fallbacks"})]
  BY DEF RecordQuery
<1>3. fell' = fell /\ alert' = IF p \in Known THEN alert ELSE [alert EXCEPT ![p] = "none"]
  BY DEF RecordQuery, Recorded, diagnosis
<1>4. /\ st \in Upstreams
      /\ \A x \in Known : upstream[x] \in Upstreams
  BY KnownTypes, NewTypes DEF Metas
<1>5. /\ DOMAIN known = Known \union {p} /\ known[p] = new
      /\ \A x \in Known : x # p => known[x] = upstream[x]
  BY DEF Put, Known
<1> DEFINE Same(a, b) == /\ a.health = b.health /\ a.fails = b.fails /\ a.observed = b.observed
                         /\ a.ran = b.ran /\ a.cause = b.cause
<1>6. Same(new, st) /\ new \in Upstreams
  <2>1. st.count \in Counters BY <1>4 DEF Upstreams
  <2>2. Bump(st.count, {"requests"}) \in Counters BY <2>1, BumpTypes
  <2> HIDE DEF st
  <2> QED BY <1>4, <2>2 DEF Upstreams
<1>7. q \in Known \union {p} /\ Same(upstream'[q], known[q])
  <2>1. CASE upstream' = known BY <2>1, <1>5
  <2>2. CASE r \in Known /\ upstream' = [known EXCEPT ![r].count = Bump(@, {"fallbacks"})]
    <3> HIDE DEF known, r, p
    <3>1. upstream' = [known EXCEPT ![r] = [known[r] EXCEPT !.count = Bump(@, {"fallbacks"})]]
      BY <2>2
    <3>2. DOMAIN upstream' = DOMAIN known BY <3>1
    <3>3. q # r => upstream'[q] = known[q] BY <3>1, <3>2
    <3>4. q = r => upstream'[q] = [known[r] EXCEPT !.count = Bump(@, {"fallbacks"})]
      BY <3>1, <3>2
    <3>5. q = r => known[r] \in Upstreams BY <1>4, <1>5, <1>6, <3>2
    <3>6. q = r => Same(upstream'[q], known[q]) BY <3>4, <3>5 DEF Upstreams
    <3> QED BY <1>5, <3>2, <3>3, <3>6
  <2> QED BY <1>2, <2>1, <2>2
<1>8. CASE q # p
  <2>1. q \in Known /\ Same(upstream'[q], upstream[q]) /\ alert'[q] = alert[q]
    BY <1>3, <1>5, <1>7, <1>8, KnownTypes DEF TypeOK
  <2> QED BY <2>1, <1>3 DEF Kept, SameHealth, SameCause
<1>9. CASE q = p
  <2>1. Same(upstream'[q], st) BY <1>5, <1>6, <1>7, <1>9
  <2>2. CASE p \in Known
    BY <2>1, <2>2, <1>3, <1>9 DEF Kept, SameHealth, SameCause
  <2>3. CASE p \notin Known
    <3>1. alert'[p] = "none" BY <2>3, <1>1, <1>3 DEF TypeOK
    <3> QED BY <2>1, <2>3, <3>1, <1>9 DEF Fresh, NewUpstream
  <2> QED BY <2>2, <2>3
<1> QED BY <1>8, <1>9

LEMMA ChangesReply ==
  ASSUME TypeOK, ReplyLate \/ ReplyUnmatched \/ ReplyMatched, NEW q \in DOMAIN upstream'
  PROVE  Kept(q) \/ Well(q)
<1> DEFINE p == held.key.port
<1>1. p \in Known /\ fell' = fell /\ p \in Port
  BY KnownTypes DEF ReplyLate, ReplyUnmatched, ReplyMatched, Recorded, diagnosis
<1>2. upstream[p] \in Upstreams /\ upstream \in [Known -> Upstreams] BY <1>1, KnownTypes DEF TypeOK
<1>3. CASE ReplyLate \/ ReplyUnmatched
  <2>1. PICK F : upstream' = [upstream EXCEPT ![p] = [upstream[p] EXCEPT !.count = Bump(@, F)]]
    BY <1>3 DEF ReplyLate, ReplyUnmatched
  <2>2. q \in Known /\ (q # p => upstream'[q] = upstream[q]) BY <2>1 DEF Known
  <2>3. q = p => upstream'[q] = [upstream[p] EXCEPT !.count = Bump(@, F)] BY <2>1
  <2>4. alert' = alert BY <1>3 DEF ReplyLate, ReplyUnmatched
  <2> QED BY <1>1, <1>2, <2>2, <2>3, <2>4 DEF Kept, SameHealth, SameCause, Upstreams
<1>4. CASE ReplyMatched
  <2> DEFINE what == IF held.good THEN "success" ELSE "errors"
             c    == Bump(upstream[p].count, {"responses", what})
             st   == [upstream[p] EXCEPT !.count = c]
  <2>1. \/ upstream' = [upstream EXCEPT ![p] = Answered(st)] /\ alert' = Recovered(p, upstream[p])
        \/ upstream' = [upstream EXCEPT ![p] = st] /\ alert' = alert
    BY <1>4 DEF ReplyMatched
  <2> HIDE DEF c
  <2>2. st.health = upstream[p].health /\ st.fails = upstream[p].fails
        /\ st.observed = upstream[p].observed /\ st.ran = upstream[p].ran
        /\ st.cause = upstream[p].cause
    BY <1>2 DEF Upstreams
  <2>3. Answered(st).health = "UP" /\ Answered(st).ran = upstream[p].ran
        /\ Answered(st).cause = upstream[p].cause
    BY <1>2 DEF Upstreams, Answered
  <2> HIDE DEF st, p
  <2>4. DOMAIN upstream' = Known BY <2>1 DEF Known
  <2>5. q \in Known /\ (q # p => upstream'[q] = upstream[q] /\ alert'[q] = alert[q])
    BY <2>1, <2>4, KnownTypes DEF Recovered, TypeOK, Known
  <2>6. CASE q # p BY <1>1, <2>5, <2>6 DEF Kept, SameHealth, SameCause
  <2>7. CASE q = p /\ upstream' = [upstream EXCEPT ![p] = st] /\ alert' = alert
    <3>1. upstream'[q] = st BY <2>5, <2>7 DEF Known
    <3> QED BY <1>1, <2>2, <2>5, <2>7, <3>1 DEF Kept, SameHealth, SameCause
  <2>8. CASE q = p /\ upstream' = [upstream EXCEPT ![p] = Answered(st)]
             /\ alert' = Recovered(p, upstream[p])
    <3>1. upstream'[q] = Answered(st) BY <2>5, <2>8 DEF Known
    <3>2. alert'[q] = IF upstream[q].health = "DOWN" THEN "RECOVERED" ELSE alert[q]
      BY <1>1, <2>8 DEF Recovered, TypeOK
    <3> QED BY <2>3, <2>5, <2>8, <3>1, <3>2 DEF Well, SameCause
  <2> QED BY <2>1, <2>6, <2>7, <2>8
<1> QED BY <1>3, <1>4

LEMMA ChangesSweep ==
  ASSUME TypeOK, CleanupTransient, NEW q \in DOMAIN upstream'
  PROVE  Kept(q)
<1> DEFINE counted == {k \in Overdue : k.port \in Known}
           n       == Cardinality({k \in counted : k.port = q})
<1>1. fell' = fell /\ alert' = alert BY DEF CleanupTransient, diagnosis
<1>2. CASE upstream' = upstream BY <1>1, <1>2 DEF Kept, SameHealth, SameCause, Known
<1>3. CASE DOMAIN upstream' = Known
           /\ upstream'[q] = [upstream[q] EXCEPT !.count = Add(@, {"timeouts"}, n)]
  <2>1. q \in Known /\ upstream[q] \in Upstreams BY <1>3, KnownTypes
  <2> HIDE DEF n
  <2> QED BY <1>1, <1>3, <2>1 DEF Kept, SameHealth, SameCause, Upstreams
<1> QED BY <1>2, <1>3 DEF CleanupTransient

LEMMA ChangesDiscovery ==
  ASSUME TypeOK, NEW S \in SUBSET scenario.ports, UpdateDiscovery(S), NEW q \in DOMAIN upstream'
  PROVE  Kept(q) \/ Fresh(q)
<1>1. /\ fell' = fell /\ DOMAIN upstream' = S /\ q \in Port
      /\ upstream'[q] = IF q \in Known THEN [upstream[q] EXCEPT !.meta = "found"]
                                       ELSE NewUpstream("found")
      /\ alert'[q] = IF q \in S \intersect Known THEN alert[q] ELSE "none"
  BY ScenarioTypes DEF UpdateDiscovery, diagnosis, TypeOK
<1>2. CASE q \in Known
  BY <1>1, <1>2, KnownTypes DEF Kept, SameHealth, SameCause, Upstreams
<1>3. CASE q \notin Known
  BY <1>1, <1>3 DEF Fresh, NewUpstream
<1> QED BY <1>2, <1>3

LEMMA ChangesProbe ==
  ASSUME TypeOK, NEW p \in scenario.ports, NEW ok \in BOOLEAN, SetHealth(p, ok),
         NEW q \in DOMAIN upstream'
  PROVE  Kept(q) \/ Well(q) \/ Fails(q)
<1> DEFINE st   == Probed(upstream[p], ok)
           drop == st.health = "DOWN" /\ upstream[p].health # "DOWN"
<1>1. CASE UNCHANGED <<upstream, fell, alert>>
  BY <1>1 DEF Kept, SameHealth, SameCause, Known
<1>2. CASE /\ p \in Known /\ upstream' = [upstream EXCEPT ![p] = st]
           /\ fell' = IF drop THEN [fell EXCEPT ![p] = clock] ELSE fell
           /\ alert' = IF drop THEN [alert EXCEPT ![p] = "DOWN"]
                       ELSE IF ok THEN Recovered(p, upstream[p]) ELSE alert
  <2>1. /\ upstream[p] \in Upstreams /\ p \in Port /\ q \in Known
        /\ alert \in [Port -> {"none", "DOWN", "RECOVERED"}]
        /\ fell \in [Port -> Times \union {Never}]
    BY <1>2, KnownTypes DEF TypeOK, Known
  <2>2. CASE q # p
    <3>1. upstream'[q] = upstream[q] BY <1>2, <2>1, <2>2 DEF Known
    <3>2. fell'[q] = fell[q] BY <1>2, <2>1, <2>2
    <3>3. alert'[q] = alert[q] BY <1>2, <2>1, <2>2 DEF Recovered
    <3> QED BY <2>1, <3>1, <3>2, <3>3 DEF Kept, SameHealth, SameCause
  <2>3. CASE q = p /\ ok
    <3>1. st = [upstream[p] EXCEPT !.health = "UP", !.fails = 0] BY <2>3 DEF Probed
    <3>2. st.health = "UP" /\ st.ran = upstream[p].ran /\ st.cause = upstream[p].cause
      BY <3>1, <2>1 DEF Upstreams
    <3> HIDE DEF st
    <3>3. upstream'[q] = st BY <1>2, <2>3 DEF Known
    <3>4. alert'[q] = IF upstream[q].health = "DOWN" THEN "RECOVERED" ELSE alert[q]
      BY <1>2, <2>1, <2>3, <3>2 DEF Recovered
    <3> QED BY <2>1, <2>3, <3>2, <3>3, <3>4 DEF Well, SameCause
  <2>4. CASE q = p /\ ~ok
    <3> DEFINE v == IF Shielded(upstream[p]) THEN "UP"
                    ELSE IF upstream[p].fails > 0 THEN "DOWN" ELSE "DEGRADED"
    <3>1. st = [upstream[p] EXCEPT !.fails = @ + 1, !.health = v] BY <2>4 DEF Probed
    <3> HIDE DEF v
    <3>2. /\ st.health = v /\ st.ran = upstream[p].ran /\ st.cause = upstream[p].cause
          /\ st.observed = upstream[p].observed /\ st.fails = upstream[p].fails + 1
      BY <3>1, <2>1 DEF Upstreams
    <3> HIDE DEF st
    <3>3. upstream'[q] = st BY <1>2, <2>4 DEF Known
    <3>4. IF drop THEN alert'[q] = "DOWN" /\ fell'[q] = clock
                  ELSE alert'[q] = alert[q] /\ fell'[q] = fell[q]
      BY <1>2, <2>1, <2>4
    <3> QED BY <2>1, <2>4, <3>2, <3>3, <3>4 DEF Fails, SameCause, v
  <2> QED BY <2>2, <2>3, <2>4
<1> QED BY <1>1, <1>2 DEF SetHealth

LEMMA ChangesDiagnose ==
  ASSUME TypeOK, NEW p \in scenario.ports, DiagnoseUpstream(p), NEW q \in DOMAIN upstream'
  PROVE  \/ Kept(q) /\ (q \in DOMAIN diagnosing' <=> q \in DOMAIN diagnosing)
         \/ Explained(q)
<1> DEFINE step == diagnosing[p]
           Aim  == \/ Kept(q) /\ (q \in DOMAIN diagnosing' <=> q \in DOMAIN diagnosing)
                   \/ Explained(q)
<1>1. UNCHANGED <<fell, alert>> BY DEF DiagnoseUpstream
<1>2. p \in DOMAIN diagnosing BY DEF DiagnoseUpstream
<1>3. ASSUME upstream' = upstream, \/ diagnosing' = [diagnosing EXCEPT ![p] = "plain"]
                                   \/ p \notin Known /\ diagnosing' = Drop(diagnosing, {p})
      PROVE  Aim
  <2>1. q \in DOMAIN diagnosing' <=> q \in DOMAIN diagnosing
    BY <1>3 DEF Drop, Known
  <2> QED BY <1>1, <1>3, <2>1 DEF Kept, SameHealth, SameCause, Known
<1>4. ASSUME NEW t \in diagRound..clock, NEW found, p \in Known,
             upstream' = [upstream EXCEPT ![p].ran = t, ![p].cause = found],
             diagnosing' = Drop(diagnosing, {p}),
             \/ DiagnoseOnce(p, step) /\ found = Cause(step)
             \/ /\ ~DiagnoseOnce(p, step) /\ (step = "plain" \/ RouteOf[p] = "default")
                /\ found = "UPSTREAM"
      PROVE  Aim
  <2>1. /\ upstream' = [upstream EXCEPT ![p] = [upstream[p] EXCEPT !.ran = t, !.cause = found]]
        /\ upstream[p] \in Upstreams
    BY <1>4, KnownTypes DEF Known
  <2>2. q \in Known BY <2>1 DEF Known
  <2>3. CASE q # p
    <3>1. upstream'[q] = upstream[q] BY <2>1, <2>2, <2>3 DEF Known
    <3>2. q \in DOMAIN diagnosing' <=> q \in DOMAIN diagnosing BY <1>4, <2>3 DEF Drop
    <3> QED BY <1>1, <2>2, <3>1, <3>2 DEF Kept, SameHealth, SameCause
  <2>4. CASE q = p
    <3>1. upstream'[q] = [upstream[p] EXCEPT !.ran = t, !.cause = found]
      BY <2>1, <2>2, <2>4 DEF Known
    <3>2. SameHealth(q) BY <1>1, <2>1, <2>4, <3>1 DEF SameHealth, Upstreams
    <3>3. upstream'[q].ran = t /\ upstream'[q].cause = found BY <2>1, <3>1 DEF Upstreams
    <3> QED BY <1>2, <1>4, <2>2, <2>4, <3>2, <3>3 DEF Explained
  <2> QED BY <2>3, <2>4
<1>5. \/ upstream' = upstream /\ diagnosing' = [diagnosing EXCEPT ![p] = "plain"]
      \/ DiagnoseOnce(p, step) /\ Diagnosed(p, Cause(step))
      \/ ~DiagnoseOnce(p, step) /\ (step = "plain" \/ RouteOf[p] = "default")
           /\ Diagnosed(p, "UPSTREAM")
  BY DEF DiagnoseUpstream
<1> HIDE DEF Aim
<1> QED BY <1>3, <1>4, <1>5 DEF Diagnosed, Aim

LEMMA ChangesNext ==
  ASSUME TypeOK, [Next]_vars, NEW q \in DOMAIN upstream'
  PROVE  Changes(q)
<1>1. CASE UNCHANGED <<upstream, fell, alert>>
  BY <1>1 DEF Changes, Kept, SameHealth, SameCause, Known
<1>2. CASE Record
  BY <1>1, <1>2, ChangesQuery, ChangesReply
  DEF Changes, Record, ReplyIgnored, Recorded, store, diagnosis
<1>3. CASE CleanupTransient BY <1>3, ChangesSweep DEF Changes
<1>4. CASE Watch
  <2>1. ASSUME NEW S \in SUBSET scenario.ports, UpdateDiscovery(S) PROVE Changes(q)
    BY <2>1, ChangesDiscovery DEF Changes
  <2>2. ASSUME NEW p \in scenario.ports, CheckOne(p) PROVE Changes(q)
    BY <2>2, ChangesProbe DEF CheckOne, Changes
  <2>3. ASSUME NEW p \in scenario.ports, DiagnoseUpstream(p) PROVE Changes(q)
    BY <2>3, ChangesDiagnose DEF Changes
  <2>4. CASE StartProbes \/ StartDiagnoses
               \/ \E p \in scenario.ports, f \in FaultKinds : FaultMoves(p, f)
    BY <1>1, <2>4 DEF StartProbes, StartDiagnoses, FaultMoves, store, diagnosis
  <2> QED BY <1>4, <2>1, <2>2, <2>3, <2>4 DEF Watch
<1> QED
  BY <1>1, <1>2, <1>3, <1>4, CaptureFrame DEF Next, Tick, vars, store, diagnosis

\* A resolver is DOWN only after a probe that failed before the one that
\* brought it down, and with no good answer in the Shield.
Heralded ==
  \A p \in Known :
    /\ (upstream[p].health = "DOWN") <=> (alert[p] = "DOWN")
    /\ upstream[p].health = "DOWN" => ~Shielded(upstream[p]) /\ upstream[p].fails > 0

LEMMA HeraldedNext ==
  ASSUME TypeOK, Clocks, Heralded, [Next]_vars
  PROVE  Heralded'
<1> SUFFICES ASSUME NEW p \in DOMAIN upstream'
             PROVE  /\ (upstream'[p].health = "DOWN") <=> (alert'[p] = "DOWN")
                    /\ upstream'[p].health = "DOWN" =>
                         ~(Shielded(upstream[p])') /\ upstream'[p].fails > 0
  BY DEF Heralded, Known
<1>1. clock' = clock \/ clock' = clock + 1
  BY RecordFrame, AsideFrame, CaptureFrame DEF Next, Aside, CleanupTransient, Tick
<1>2. clock \in Nat /\ scenario.time \in Nat BY ClockTypes, ScenarioTypes DEF TypeOK
<1>3. ASSUME p \in Known, upstream'[p].observed = upstream[p].observed,
             ~Shielded(upstream[p])
      PROVE  ~(Shielded(upstream[p])')
  <2>1. upstream[p].observed \in Nat \union {Never} /\ Shield \in Nat
    BY <1>2, <1>3, KnownTypes, Constants DEF Times
  <2> QED BY <1>1, <1>2, <1>3, <2>1 DEF Shielded
<1>4. CASE Kept(p) BY <1>3, <1>4 DEF Kept, SameHealth, Heralded
<1>5. CASE Fresh(p) BY <1>5 DEF Fresh
<1>6. CASE Well(p) BY <1>6 DEF Well, Heralded
<1>7. CASE Fails(p)
  <2>1. upstream[p].fails \in Nat BY <1>7, KnownTypes DEF Fails
  <2> QED BY <1>3, <1>7, <2>1 DEF Fails, Heralded
<1>8. CASE Explained(p) BY <1>3, <1>8 DEF Explained, SameHealth, Heralded
<1> QED BY <1>4, <1>5, <1>6, <1>7, <1>8, ChangesNext DEF Changes

\* A resolver is reported DOWN exactly while it is held to be, no good answer
\* of it is younger than the Shield, and every DOWN that ends is reported: for
\* any probes, live traffic, resolvers that come and go, and Shield.
THEOREM DownIsTold == Spec => []DownIsAnnounced
<1>1. Init => Heralded
  <2> SUFFICES ASSUME Init, NEW p \in Known
               PROVE  upstream[p].health = "UNKNOWN" /\ alert[p] = "none"
    BY DEF Heralded
  <2>1. p \in scenario.ports /\ p \in Port BY ScenarioTypes DEF Init, Known
  <2> QED BY <2>1 DEF Init, NewUpstream
<1>2. Base /\ Heralded /\ [Next]_vars => Heralded' BY HeraldedNext DEF Base
<1>3. Heralded => DownIsAnnounced
  <2> SUFFICES ASSUME Heralded, NEW p \in Known
               PROVE  /\ (upstream[p].health = "DOWN") = (alert[p] = "DOWN")
                      /\ upstream[p].health = "DOWN" => ~Shielded(upstream[p])
    BY DEF DownIsAnnounced
  <2> QED BY DEF Heralded
<1> QED BY <1>1, <1>2, <1>3, BaseAlways, BaseInit, BaseNext, PTL DEF Spec

-----------------------------------------------------------------------------
(* What is blamed for a resolver that is DOWN.                             *)

\* The longest a round of diagnoses, or the wait for one, takes.
Slowest == IF DiagEvery > DiagTime THEN DiagEvery ELSE DiagTime

\* What cause c says is wrong with p.
Says(p, c) ==
  CASE c = "UPSTREAM" -> {"UPSTREAM"}
    [] c = "ROUTE" -> {"ROUTE", "LOCAL"}
    [] c = "LOCAL" /\ RouteOf[p] = "own" -> {"LOCAL"}
    [] OTHER -> {"ROUTE", "LOCAL"}

\* The diagnosis ticker is not late, and nothing happened in the future.
Rounds ==
  /\ diagRound <= clock
  /\ \A p \in Port, f \in FaultKinds : gone[p][f] <= clock
  /\ scenario.diagnoses =>
       /\ clock - diagRound <= Slowest
       /\ DOMAIN diagnosing # {} => clock - diagRound <= DiagTime

\* A cause was true when the diagnosis that found it ran, or later.
Truthful(p) ==
  upstream[p].ran # Never =>
    /\ upstream[p].ran <= clock /\ upstream[p].cause \in FaultKinds
    /\ \E f \in Says(p, upstream[p].cause) : fault[p] = f \/ gone[p][f] >= upstream[p].ran

\* What was DOWN when the last round began was diagnosed in it or not long
\* before, unless its turn is yet to come: then that is true of the round
\* before.
Diagnosable(p) ==
  upstream[p].health = "DOWN" =>
    /\ p \notin DOMAIN diagnosing /\ fell[p] < diagRound =>
         upstream[p].ran # Never /\ upstream[p].ran >= diagRound - DiagKeep
    /\ p \in DOMAIN diagnosing /\ fell[p] < diagRound - Slowest =>
         upstream[p].ran # Never /\ upstream[p].ran >= diagRound - Slowest - DiagKeep

CausesInv == Rounds /\ \A p \in Known : Truthful(p) /\ (scenario.diagnoses => Diagnosable(p))

LEMMA DiagnosisFrame ==
  ASSUME TypeOK, [Next]_vars
  PROVE  \/ UNCHANGED <<diagRound, diagnosing>>
         \/ StartDiagnoses
         \/ \E p \in scenario.ports : DiagnoseUpstream(p)
<1>1. CASE Watch
  BY <1>1 DEF Watch, UpdateDiscovery, StartProbes, CheckOne, SetHealth, FaultMoves, diagnosis
<1> QED
  BY <1>1, RecordFrame, CaptureFrame DEF Next, CleanupTransient, Tick, vars, diagnosis

\* What stops being wrong is remembered.
LEMMA FaultNext ==
  ASSUME TypeOK, [Next]_vars, NEW p \in Port, NEW f \in FaultKinds
  PROVE  /\ gone'[p][f] = gone[p][f] \/ gone'[p][f] = clock
         /\ p \in scenario.ports /\ fault[p] = f => fault'[p] = f \/ gone'[p][f] = clock
<1>1. CASE UNCHANGED <<fault, gone>> BY <1>1
<1>2. ASSUME NEW q \in scenario.ports, NEW g \in FaultKinds, FaultMoves(q, g)
      PROVE  /\ gone'[p][f] = gone[p][f] \/ gone'[p][f] = clock
             /\ p \in scenario.ports /\ fault[p] = f => fault'[p] = f \/ gone'[p][f] = clock
  <2>1. /\ fault' = [fault EXCEPT ![q] = g]
        /\ gone' = [gone EXCEPT ![q] = [gone[q] EXCEPT ![fault[q]] = clock]]
    BY <1>2 DEF FaultMoves
  <2>2. /\ fault \in [scenario.ports -> FaultKinds]
        /\ gone \in [Port -> [FaultKinds -> Times \union {Never}]] /\ q \in Port
    BY ScenarioTypes DEF TypeOK
  <2>3. gone'[p] = IF p = q THEN [gone[q] EXCEPT ![fault[q]] = clock] ELSE gone[p]
    BY <2>1, <2>2
  <2>4. fault[q] \in FaultKinds BY <2>2
  <2>5. p = q => gone'[p][f] = IF f = fault[q] THEN clock ELSE gone[p][f]
    BY <2>2, <2>3, <2>4
  <2> QED BY <2>1, <2>2, <2>3, <2>5
<1>3. CASE Watch
  <2>1. UNCHANGED <<fault, gone>>
          \/ \E q \in scenario.ports, g \in FaultKinds : FaultMoves(q, g)
    BY <1>3 DEF Watch, UpdateDiscovery, StartProbes, CheckOne, SetHealth, StartDiagnoses,
                DiagnoseUpstream, diagnosis
  <2> QED BY <1>1, <1>2, <2>1
<1> QED
  BY <1>1, <1>3, RecordFrame, CaptureFrame DEF Next, CleanupTransient, Tick, vars, diagnosis

LEMMA RoundsNext ==
  ASSUME TypeOK, Rounds, [Next]_vars
  PROVE  Rounds' /\ clock <= clock' /\ clock' \in Nat
<1>0. /\ clock \in Nat /\ diagRound \in Nat /\ DiagEvery \in Nat \ {0} /\ DiagTime \in Nat \ {0}
      /\ Slowest \in Nat /\ Slowest >= DiagTime /\ Slowest >= DiagEvery
  BY ClockTypes, Constants DEF Slowest
<1>1. scenario' = scenario /\ (clock' = clock \/ Tick)
  BY RecordFrame, AsideFrame, CaptureFrame DEF Next, Aside, CleanupTransient, Tick
<1>2. clock <= clock' /\ clock' \in Nat BY <1>0, <1>1 DEF Tick
<1>3. \A p \in Port, f \in FaultKinds : gone'[p][f] <= clock'
  <2> TAKE p \in Port, f \in FaultKinds
  <2>1. gone'[p][f] = gone[p][f] \/ gone'[p][f] = clock BY FaultNext
  <2>2. gone[p][f] <= clock BY DEF Rounds
  <2>3. gone[p][f] \in Nat \union {Never} BY ScenarioTypes DEF TypeOK, Times
  <2> QED BY <1>0, <1>2, <2>1, <2>2, <2>3 DEF Never
<1>4. CASE Tick
  <2>1. UNCHANGED <<diagRound, diagnosing>> /\ clock' = clock + 1
    BY <1>4 DEF Tick, diagnosis
  <2>2. ASSUME scenario.diagnoses
        PROVE  /\ clock - diagRound < Slowest
               /\ DOMAIN diagnosing # {} => clock - diagRound < DiagTime
    <3>1. clock - diagRound < IF diagnosing = <<>> THEN DiagEvery ELSE DiagTime
      BY <1>4, <2>2 DEF Tick
    <3>2. DOMAIN diagnosing # {} => diagnosing # <<>> OBVIOUS
    <3> QED BY <1>0, <3>1, <3>2
  <2> QED BY <1>0, <1>1, <1>2, <1>3, <2>1, <2>2 DEF Rounds
<1>5. CASE UNCHANGED <<diagRound, diagnosing, clock>>
  BY <1>1, <1>2, <1>3, <1>5 DEF Rounds
<1>6. CASE StartDiagnoses
  <2>1. diagRound' = clock /\ clock' = clock BY <1>6 DEF StartDiagnoses
  <2> QED BY <1>0, <1>1, <1>2, <1>3, <2>1 DEF Rounds
<1>7. ASSUME NEW p \in scenario.ports, DiagnoseUpstream(p) PROVE Rounds'
  <2>1. UNCHANGED <<diagRound, clock>> BY <1>7 DEF DiagnoseUpstream
  <2>2. DOMAIN diagnosing' \subseteq DOMAIN diagnosing
    BY <1>7 DEF DiagnoseUpstream, Diagnosed, Drop
  <2> QED BY <1>1, <1>3, <2>1, <2>2 DEF Rounds
<1> QED BY <1>1, <1>2, <1>4, <1>5, <1>6, <1>7, DiagnosisFrame

LEMMA SaysFaults == \A p, c : Says(p, c) \subseteq FaultKinds
BY DEF Says, FaultKinds

\* A diagnosis blames what is wrong while it asks.
LEMMA ExplainedTruly ==
  ASSUME TypeOK, NEW p \in Known, Explained(p)
  PROVE  /\ upstream'[p].cause \in FaultKinds
         /\ fault[p] \in Says(p, upstream'[p].cause)
<1>1. p \in scenario.ports /\ p \in Port BY ScenarioTypes DEF TypeOK
<1>2. fault[p] \in FaultKinds /\ RouteOf[p] \in {"default", "own"}
  BY <1>1, StatsAssumption DEF TypeOK
<1>3. diagnosing[p] \in {"bound", "plain"} BY DEF Explained, TypeOK
<1>4. CASE DiagnoseOnce(p, diagnosing[p]) /\ upstream'[p].cause = Cause(diagnosing[p])
  BY <1>2, <1>3, <1>4 DEF DiagnoseOnce, Cause, Says, FaultKinds
<1>5. CASE /\ ~DiagnoseOnce(p, diagnosing[p])
           /\ diagnosing[p] = "plain" \/ RouteOf[p] = "default"
           /\ upstream'[p].cause = "UPSTREAM"
  BY <1>2, <1>3, <1>5 DEF DiagnoseOnce, Says, FaultKinds
<1> QED BY <1>4, <1>5 DEF Explained

LEMMA TruthfulNext ==
  ASSUME TypeOK, Rounds, [Next]_vars, NEW p \in DOMAIN upstream', p \in Known => Truthful(p)
  PROVE  Truthful(p)'
<1>1. clock \in Nat /\ clock' \in Nat /\ clock <= clock' BY RoundsNext, ClockTypes
<1>2. CASE p \in Known /\ SameCause(p)
  <2> SUFFICES ASSUME upstream'[p].ran # Never
               PROVE  /\ upstream'[p].ran <= clock' /\ upstream'[p].cause \in FaultKinds
                      /\ \E f \in Says(p, upstream'[p].cause) :
                           fault'[p] = f \/ gone'[p][f] >= upstream'[p].ran
    BY DEF Truthful
  <2>1. /\ upstream[p].ran # Never /\ upstream[p].ran \in Nat
        /\ p \in scenario.ports /\ p \in Port
    BY <1>2, KnownTypes, ScenarioTypes DEF SameCause, TypeOK, Times
  <2>2. PICK f \in Says(p, upstream[p].cause) : fault[p] = f \/ gone[p][f] >= upstream[p].ran
    BY <1>2, <2>1 DEF Truthful
  <2>3. upstream[p].ran <= clock /\ upstream[p].cause \in FaultKinds
    BY <1>2, <2>1 DEF Truthful
  <2>4. f \in FaultKinds BY SaysFaults
  <2>5. /\ gone'[p][f] = gone[p][f] \/ gone'[p][f] = clock
        /\ fault[p] = f => fault'[p] = f \/ gone'[p][f] = clock
    BY <2>1, <2>4, FaultNext
  <2>6. fault'[p] = f \/ gone'[p][f] >= upstream[p].ran BY <1>1, <2>1, <2>2, <2>3, <2>5
  <2> QED BY <1>1, <1>2, <2>1, <2>2, <2>3, <2>6 DEF SameCause
<1>3. CASE Fresh(p) BY <1>3 DEF Fresh, Truthful
<1>4. CASE Explained(p)
  <2>1. p \in Known /\ p \in scenario.ports /\ p \in Port
    BY <1>4, ScenarioTypes DEF Explained, TypeOK
  <2>2. upstream'[p].ran \in Nat /\ upstream'[p].ran <= clock
    BY <1>1, <1>4, ClockTypes DEF Explained
  <2>3. /\ upstream'[p].cause \in FaultKinds /\ fault[p] \in Says(p, upstream'[p].cause)
        /\ fault[p] \in FaultKinds
    BY <1>4, <2>1, ExplainedTruly, SaysFaults
  <2>4. fault'[p] = fault[p] \/ gone'[p][fault[p]] = clock BY <2>1, <2>3, FaultNext
  <2>5. fault'[p] = fault[p] \/ gone'[p][fault[p]] >= upstream'[p].ran
    BY <1>1, <2>2, <2>4
  <2> QED BY <1>1, <2>2, <2>3, <2>5 DEF Truthful
<1> QED BY <1>2, <1>3, <1>4, ChangesNext DEF Changes, Kept, Well, Fails

\* What a step that leaves the round alone does to the other half.
LEMMA DiagnosableKept ==
  ASSUME TypeOK, Rounds, [Next]_vars, UNCHANGED diagRound,
         NEW p \in DOMAIN upstream', p \in Known => Diagnosable(p),
         Explained(p) \/ (p \in DOMAIN diagnosing' <=> p \in DOMAIN diagnosing)
  PROVE  Diagnosable(p)'
<1>1. /\ clock \in Nat /\ diagRound \in Nat /\ diagRound <= clock
      /\ Slowest \in Nat /\ DiagKeep \in Nat
  BY ClockTypes, Constants DEF Rounds, Slowest
<1>2. CASE Fresh(p) \/ Well(p) BY <1>2 DEF Fresh, Well, Diagnosable
<1>3. CASE Explained(p)
  <2>1. p \notin DOMAIN diagnosing' BY <1>3 DEF Explained, Drop
  <2>2. upstream'[p].ran \in Nat /\ upstream'[p].ran >= diagRound
    BY <1>1, <1>3 DEF Explained
  <2> QED BY <1>1, <2>1, <2>2 DEF Diagnosable, Never
<1>4. CASE Kept(p) /\ ~Explained(p)
  BY <1>4 DEF Kept, SameHealth, SameCause, Diagnosable
<1>5. CASE Fails(p) /\ ~Explained(p)
  <2>1. CASE upstream'[p].health = "DOWN" /\ upstream[p].health # "DOWN"
    <3>1. fell'[p] = clock BY <1>5, <2>1 DEF Fails
    <3> QED BY <1>1, <3>1 DEF Diagnosable
  <2>2. CASE upstream'[p].health # "DOWN" BY <2>2 DEF Diagnosable
  <2>3. CASE upstream'[p].health = "DOWN" /\ upstream[p].health = "DOWN"
    <3>1. fell'[p] = fell[p] /\ SameCause(p) /\ p \in Known BY <1>5, <2>3 DEF Fails
    <3> QED BY <1>5, <2>3, <3>1 DEF Diagnosable, SameCause
  <2> QED BY <2>1, <2>2, <2>3
<1> QED BY <1>2, <1>3, <1>4, <1>5, ChangesNext DEF Changes

\* A round begins only when the one before has ended, and leaves out what it
\* need not diagnose.
LEMMA DiagnosableStart ==
  ASSUME TypeOK, Rounds, StartDiagnoses, NEW p \in Known, Diagnosable(p)
  PROVE  Diagnosable(p)'
<1>1. /\ clock \in Nat /\ diagRound \in Nat /\ clock - diagRound <= Slowest
      /\ Slowest \in Nat /\ DiagKeep \in Nat
      /\ upstream[p].ran \in Nat \union {Never} /\ fell[p] \in Nat \union {Never}
  <2>1. p \in Port BY ScenarioTypes DEF TypeOK
  <2>2. fell[p] \in Times \union {Never} BY <2>1 DEF TypeOK
  <2> QED BY <2>2, ClockTypes, KnownTypes, Constants DEF Rounds, StartDiagnoses, Slowest, Times
<1>2. /\ p \notin DOMAIN diagnosing /\ diagRound' = clock
      /\ UNCHANGED <<upstream, fell>>
      /\ (p \in DOMAIN diagnosing') <=> Candidate(p)
  BY DEF StartDiagnoses, store
<1> SUFFICES ASSUME upstream[p].health = "DOWN"
             PROVE  /\ ~Candidate(p) /\ fell[p] < clock =>
                         upstream[p].ran # Never /\ upstream[p].ran >= clock - DiagKeep
                    /\ Candidate(p) /\ fell[p] < clock - Slowest =>
                         upstream[p].ran # Never /\ upstream[p].ran >= clock - Slowest - DiagKeep
  BY <1>2 DEF Diagnosable
<1>3. CASE ~Candidate(p) BY <1>1, <1>3 DEF Candidate
<1>4. CASE Candidate(p) /\ fell[p] < clock - Slowest
  <2>1. fell[p] < diagRound BY <1>1, <1>4 DEF Never
  <2>2. upstream[p].ran # Never /\ upstream[p].ran >= diagRound - DiagKeep
    BY <1>2, <2>1 DEF Diagnosable
  <2> QED BY <1>1, <1>4, <2>2
<1> QED BY <1>3, <1>4

LEMMA CausesNext ==
  ASSUME TypeOK, CausesInv, [Next]_vars
  PROVE  CausesInv'
<1>1. Rounds /\ Rounds' BY RoundsNext DEF CausesInv
<1>2. scenario' = scenario
  BY RecordFrame, AsideFrame, CaptureFrame DEF Next, Aside, CleanupTransient, Tick, vars
<1>3. ASSUME NEW p \in DOMAIN upstream' PROVE Truthful(p)'
  BY <1>1, TruthfulNext DEF CausesInv
<1>4. ASSUME NEW p \in DOMAIN upstream', scenario.diagnoses PROVE Diagnosable(p)'
  <2>1. p \in Known => Diagnosable(p) BY <1>4 DEF CausesInv
  <2>2. CASE StartDiagnoses
    <3>1. scenario.diagnoses /\ p \in Known BY <2>2 DEF StartDiagnoses, store, Known
    <3> QED BY <1>1, <2>1, <2>2, <3>1, DiagnosableStart
  <2>3. CASE UNCHANGED <<diagRound, diagnosing>> BY <1>1, <2>1, <2>3, DiagnosableKept
  <2>4. ASSUME NEW q \in scenario.ports, DiagnoseUpstream(q) PROVE Diagnosable(p)'
    <3>1. UNCHANGED diagRound BY <2>4 DEF DiagnoseUpstream
    <3>2. Explained(p) \/ (p \in DOMAIN diagnosing' <=> p \in DOMAIN diagnosing)
      BY <2>4, ChangesDiagnose
    <3> QED BY <1>1, <2>1, <3>1, <3>2, DiagnosableKept
  <2> QED BY <2>2, <2>3, <2>4, DiagnosisFrame
<1>5. \A p \in DOMAIN upstream' : Truthful(p)' /\ (scenario'.diagnoses => Diagnosable(p)')
  BY <1>2, <1>3, <1>4
<1> QED BY <1>1, <1>5 DEF CausesInv, Known

LEMMA CausesInit == Init => CausesInv
<1> SUFFICES ASSUME Init PROVE CausesInv OBVIOUS
<1>1. Minute \in Nat /\ Slowest \in Nat /\ DiagTime \in Nat BY Constants DEF Slowest
<1>2. Rounds
  <2>1. clock = Minute /\ diagRound = Minute /\ DOMAIN diagnosing = {} BY DEF Init
  <2>2. \A p \in Port, f \in FaultKinds : gone[p][f] = Never BY DEF Init
  <2> QED BY <1>1, <2>1, <2>2 DEF Rounds, Never
<1>3. \A p \in Known : upstream[p].ran = Never /\ upstream[p].health = "UNKNOWN"
  BY DEF Init, Known, NewUpstream
<1> QED BY <1>2, <1>3 DEF CausesInv, Truthful, Diagnosable

\* A resolver that has been DOWN for longer than two rounds of diagnoses can
\* take shows a cause, and one that was true when a diagnosis found it, no
\* longer ago than the repetition of diagnoses allows: for any duration of
\* the rounds, faults that come and go, and resolvers that do.
THEOREM CausesAreRecent == Spec => []CauseIsRecent
<1>1. TypeOK /\ CausesInv => CauseIsRecent
  <2> DEFINE lag == DiagTime + Slowest
             c(p) == upstream[p].cause
  <2> SUFFICES ASSUME TypeOK, CausesInv, NEW p \in Known, scenario.diagnoses,
                      upstream[p].health = "DOWN", clock - fell[p] > lag
               PROVE  c(p) # "UNKNOWN" /\ WasWrong(p, Says(p, c(p)), DiagKeep + lag)
    BY DEF CauseIsRecent, Says, Slowest
  <2>1. /\ clock \in Nat /\ diagRound \in Nat /\ fell[p] \in Nat \union {Never}
        /\ upstream[p].ran \in Nat \union {Never}
        /\ Slowest \in Nat /\ DiagTime \in Nat /\ DiagKeep \in Nat /\ p \in Port
    <3>1. p \in Port BY ScenarioTypes DEF TypeOK
    <3>2. fell[p] \in Times \union {Never} BY <3>1 DEF TypeOK
    <3> QED BY <3>1, <3>2, ClockTypes, KnownTypes, Constants DEF Slowest, Times
  <2>2. upstream[p].ran # Never /\ clock - upstream[p].ran <= DiagKeep + lag
    <3>1. clock - diagRound <= Slowest
          /\ (p \in DOMAIN diagnosing => clock - diagRound <= DiagTime)
      BY DEF CausesInv, Rounds
    <3>2. Diagnosable(p) BY DEF CausesInv
    <3>3. CASE p \in DOMAIN diagnosing
      <4>1. fell[p] < diagRound - Slowest BY <2>1, <3>1, <3>3 DEF Never
      <4>2. upstream[p].ran # Never /\ upstream[p].ran >= diagRound - Slowest - DiagKeep
        BY <3>2, <3>3, <4>1 DEF Diagnosable
      <4> QED BY <2>1, <3>1, <3>3, <4>2
    <3>4. CASE p \notin DOMAIN diagnosing
      <4>1. fell[p] < diagRound BY <2>1, <3>1, <3>4 DEF Never
      <4>2. upstream[p].ran # Never /\ upstream[p].ran >= diagRound - DiagKeep
        BY <3>2, <3>4, <4>1 DEF Diagnosable
      <4> QED BY <2>1, <3>1, <3>4, <4>2
    <3> QED BY <3>3, <3>4
  <2>3. /\ c(p) \in FaultKinds
        /\ \E f \in Says(p, c(p)) : fault[p] = f \/ gone[p][f] >= upstream[p].ran
    BY <2>2 DEF CausesInv, Truthful
  <2>4. PICK f \in Says(p, c(p)) : fault[p] = f \/ gone[p][f] >= upstream[p].ran BY <2>3
  <2>5. f \in FaultKinds BY SaysFaults
  <2>6. gone[p][f] \in Nat \union {Never} BY <2>1, <2>5, ScenarioTypes DEF TypeOK, Times
  <2>7. fault[p] = f \/ (gone[p][f] # Never /\ clock - gone[p][f] <= DiagKeep + lag)
    BY <2>1, <2>2, <2>4, <2>6 DEF Never
  <2> QED BY <2>3, <2>4, <2>7 DEF WasWrong, FaultKinds
<1>2. TypeOK /\ CausesInv /\ [Next]_vars => CausesInv' BY CausesNext
<1>3. Base => TypeOK BY DEF Base
<1> QED BY <1>1, <1>2, <1>3, CausesInit, BaseAlways, PTL DEF Spec

-----------------------------------------------------------------------------
(* The figures of a window.                                                *)

\* What is counted class by class is counted altogether.
OfClass(R, class, x) == {r \in R : class[r] = x}
InTurn(X, n)         == UNION {{x} \X (1..n[x]) : x \in X}

LEMMA CountedByClass ==
  ASSUME NEW R, IsFiniteSet(R), NEW X, NEW class, \A r \in R : class[r] \in X,
         NEW n, \A x \in X : n[x] = Cardinality(OfClass(R, class, x))
  PROVE  Cardinality(InTurn(X, n)) = Cardinality(R)
<1> USE DEF OfClass, InTurn
<1> DEFINE D(x) == {r \in R : class[r] = x}
           b == [x \in X |-> CHOOSE f : f \in Bijection(D(x), 1..n[x])]
           U == UNION {{x} \X (1..n[x]) : x \in X}
           F == [r \in R |-> <<class[r], b[class[r]][r]>>]
<1>1. ASSUME NEW x \in X PROVE b[x] \in Bijection(D(x), 1..n[x])
  <2>1. D(x) \in SUBSET R OBVIOUS
  <2>2. IsFiniteSet(D(x)) BY <2>1, FS_Subset
  <2>3. n[x] = Cardinality(D(x)) OBVIOUS
  <2>4. b[x] = CHOOSE f : f \in Bijection(D(x), 1..n[x]) OBVIOUS
  <2> HIDE DEF D, b
  <2>5. ExistsBijection(1..n[x], D(x)) BY <2>2, <2>3, FS_CardinalityType
  <2>6. ExistsBijection(D(x), 1..n[x]) BY <2>5, Fun_ExistsBijSymmetric
  <2>7. Bijection(D(x), 1..n[x]) # {} BY <2>6, Fun_ExistsBij
  <2> QED BY <2>4, <2>7
<1> HIDE DEF b
<1>2. ASSUME NEW x \in X
      PROVE  /\ \A r \in D(x) : b[x][r] \in 1..n[x]
             /\ \A r, s \in D(x) : b[x][r] = b[x][s] => r = s
             /\ \A k \in 1..n[x] : \E r \in D(x) : b[x][r] = k
  <2> DEFINE f == b[x]  S == D(x)  N == 1..n[x]
  <2>1. f \in Bijection(S, N) BY <1>1
  <2> HIDE DEF f, S, N
  <2>2. /\ f \in [S -> N] /\ \A r, s \in S : f[r] = f[s] => r = s
        /\ \A k \in N : \E r \in S : f[r] = k
    BY <2>1, Fun_BijectionProperties
  <2>3. \A r \in S : f[r] \in N BY <2>2
  <2> QED BY <2>2, <2>3 DEF f, S, N
<1>3. F \in [R -> U]
  <2> SUFFICES ASSUME NEW r \in R PROVE <<class[r], b[class[r]][r]>> \in U OBVIOUS
  <2>1. r \in D(class[r]) /\ class[r] \in X OBVIOUS
  <2>2. b[class[r]][r] \in 1..n[class[r]] BY <1>2, <2>1
  <2> QED BY <2>1, <2>2
<1>4. ASSUME NEW r \in R, NEW s \in R, F[r] = F[s] PROVE r = s
  <2>1. class[r] = class[s] /\ b[class[r]][r] = b[class[s]][s] BY <1>4
  <2>2. r \in D(class[r]) /\ s \in D(class[r]) /\ class[r] \in X BY <2>1
  <2>3. b[class[r]][r] = b[class[r]][s] BY <2>1
  <2> QED BY <1>2, <2>2, <2>3
<1>5. ASSUME NEW u \in U PROVE \E r \in R : F[r] = u
  <2>1. PICK x \in X : u \in {x} \X (1..n[x]) OBVIOUS
  <2>2. PICK k \in 1..n[x] : u = <<x, k>> BY <2>1
  <2>3. PICK r \in D(x) : b[x][r] = k BY <1>2, <2>2
  <2> QED BY <2>2, <2>3
<1> HIDE DEF F, U
<1>6. F \in Bijection(R, U) BY <1>3, <1>4, <1>5, Fun_IsBij
<1>7. ExistsBijection(R, U) BY <1>6, Fun_ExistsBij
<1>8. Cardinality(U) = Cardinality(R) BY <1>7, FS_Bijection
<1> QED BY <1>8 DEF U

\* The queries whose requests are counted; those of one resolver, and those of
\* one minute.
Requested    == {i \in 1..Len(asked) : "request" \in verdict[i]}
SentBy(R, p) == {i \in R : asked[i].key.port = p}
SentIn(R, x) == {i \in R : MinuteOf(asked[i].at) = x}

\* No query is from before the Store's start, or of the future.
SentInTime == \A i \in 1..Len(asked) : Minute <= asked[i].at /\ asked[i].at <= clock

\* A bucket of h shows the requests of R that are of its minute, and none of R
\* is of a minute whose bucket still holds an older one.
Shows(h, R) ==
  /\ \A i \in 0..(Buckets - 1) :
       /\ h[i].wire.requests = Cardinality(SentIn(R, h[i].minute))
       /\ \A p \in Port :
            h[i].cohort[p].requests = Cardinality(SentIn(SentBy(R, p), h[i].minute))
  /\ \A j \in R : h[Slot(asked[j].at)].minute >= MinuteOf(asked[j].at)

LEMMA Monotone ==
  ASSUME NEW a \in Nat, NEW b \in Nat, a <= b
  PROVE  MinuteOf(a) \in Nat /\ MinuteOf(b) \in Nat /\ MinuteOf(a) <= MinuteOf(b)
<1> DEFINE x == a \div Minute  y == b \div Minute
<1>1. Minute \in Nat \ {0} BY Constants
<1>2. /\ x \in Nat /\ y \in Nat
      /\ Minute * x <= a /\ a < Minute * x + Minute
      /\ Minute * y <= b /\ b < Minute * y + Minute
  BY <1>1
<1> HIDE DEF x, y
<1>3. x <= y
  <2> SUFFICES ASSUME y <= x - 1 PROVE FALSE BY <1>2
  <2>1. Minute * y <= Minute * (x - 1) BY <1>1, <1>2
  <2> QED BY <2>1, <1>1, <1>2
<1> QED BY <1>2, <1>3 DEF MinuteOf, x, y

LEMMA SentTypes ==
  ASSUME TypeOK, SentInTime, NEW R \in SUBSET (1..Len(asked))
  PROVE  /\ IsFiniteSet(R)
         /\ \A x, p : /\ IsFiniteSet(SentIn(R, x)) /\ Cardinality(SentIn(R, x)) \in Nat
                      /\ IsFiniteSet(SentIn(SentBy(R, p), x))
                      /\ Cardinality(SentIn(SentBy(R, p), x)) \in Nat
         /\ \A j \in R : /\ asked[j].at \in Nat /\ asked[j].key.port \in Port
                         /\ MinuteOf(asked[j].at) \in Nat /\ MinuteOf(asked[j].at) >= 1
                         /\ MinuteOf(asked[j].at) <= MinuteOf(clock)
                         /\ Slot(asked[j].at) \in 0..(Buckets - 1)
                         /\ MinuteOf(asked[j].at) % Buckets = Slot(asked[j].at)
<1>1. Len(asked) \in Nat BY DEF TypeOK
<1>2. IsFiniteSet(1..Len(asked)) BY <1>1, FS_Interval
<1>3. \A S : S \subseteq R => IsFiniteSet(S) /\ Cardinality(S) \in Nat
  <2> SUFFICES ASSUME NEW S, S \subseteq R PROVE IsFiniteSet(S) /\ Cardinality(S) \in Nat OBVIOUS
  <2>1. S \in SUBSET (1..Len(asked)) OBVIOUS
  <2> QED BY <1>2, <2>1, FS_Subset, FS_CardinalityType
<1>4. \A x, p : SentIn(R, x) \subseteq R /\ SentIn(SentBy(R, p), x) \subseteq R
  BY DEF SentIn, SentBy
<1>5. ASSUME NEW j \in R
      PROVE  /\ asked[j].at \in Nat /\ asked[j].key.port \in Port
             /\ MinuteOf(asked[j].at) \in Nat /\ MinuteOf(asked[j].at) >= 1
             /\ MinuteOf(asked[j].at) <= MinuteOf(clock)
             /\ Slot(asked[j].at) \in 0..(Buckets - 1)
             /\ MinuteOf(asked[j].at) % Buckets = Slot(asked[j].at)
  <2>1. /\ asked[j].at \in Nat /\ asked[j].key.port \in Port
        /\ Minute <= asked[j].at /\ asked[j].at <= clock /\ clock \in Nat
    BY AskedTypes, ClockTypes DEF SentInTime
  <2>2. /\ MinuteOf(asked[j].at) \in Nat /\ MinuteOf(asked[j].at) <= MinuteOf(clock)
        /\ Slot(asked[j].at) \in 0..(Buckets - 1)
    BY <2>1, Monotone, SlotTypes
  <2>3. Minute \in Nat /\ MinuteOf(Minute) = 1 /\ MinuteOf(Minute) <= MinuteOf(asked[j].at)
    <3>1. Minute \in Nat \ {0} BY Constants
    <3>2. MinuteOf(Minute) = 1 BY <3>1 DEF MinuteOf
    <3> QED BY <2>1, <3>1, <3>2, Monotone
  <2> QED BY <2>1, <2>2, <2>3 DEF Slot
<1> QED BY <1>3, <1>4, <1>5

\* A bucket that is opened for a live time held an older minute, or none.
LEMMA OpensOlder ==
  ASSUME clock \in Nat, NEW h \in Ring, Aligned(h), NEW t, Live(t),
         h[Slot(t)].minute # MinuteOf(t)
  PROVE  h[Slot(t)].minute < MinuteOf(t)
<1> DEFINE y == h[Slot(t)].minute  x == MinuteOf(t)
<1>1. /\ x \in Nat /\ x >= 1 /\ x <= MinuteOf(clock)
      /\ Slot(t) \in 0..(Buckets - 1) /\ x % Buckets = Slot(t)
  BY LiveMinutes
<1>2. y \in Nat /\ y <= MinuteOf(clock) /\ (y # 0 => y % Buckets = Slot(t))
  BY <1>1, RingCounts DEF Aligned
<1>3. MinuteOf(clock) \in Nat /\ MinuteOf(clock) <= x + Buckets - 1
  BY SlotTypes, MinutesApart DEF Live
<1> HIDE DEF x, y
<1>4. ~(y > x)
  <2> SUFFICES ASSUME y > x PROVE FALSE OBVIOUS
  <2>1. y < x + Buckets /\ x % Buckets = y % Buckets BY <1>1, <1>2, <1>3, Constants
  <2>2. x = y BY <1>1, <1>2, <2>1, SameRest
  <2> QED BY <2>2, <1>1
<1>5. y # x BY DEF x, y
<1> QED BY <1>1, <1>2, <1>4, <1>5 DEF x, y

LEMMA OpenShows ==
  ASSUME TypeOK, SentInTime, NEW h \in Ring, Aligned(h), NEW T, \A t \in T : Live(t),
         NEW R \in SUBSET (1..Len(asked)), Shows(h, R)
  PROVE  LET o == Opened(h, T)
         IN /\ o \in Ring /\ Aligned(o) /\ Shows(o, R)
            /\ \A t \in T : o[Slot(t)].minute = MinuteOf(t)
<1> DEFINE o == Opened(h, T)
<1>0. clock \in Nat BY ClockTypes
<1>1. /\ o \in Ring /\ Aligned(o) /\ \A t \in T : o[Slot(t)].minute = MinuteOf(t)
  <2> DEFINE P == <<>>
  <2>1. AllLive(P) /\ Holds(h, P)
    <3>1. DOMAIN P = {} OBVIOUS
    <3> QED BY <3>1, FS_EmptySet DEF AllLive, Holds
  <2> HIDE DEF P
  <2> QED BY <1>0, <2>1, OpenKeeps
<1>2. \A i \in 0..(Buckets - 1) :
        \/ o[i] = h[i]
        \/ \E t \in T : /\ i = Slot(t) /\ h[i].minute # MinuteOf(t)
                        /\ o[i] = EmptyBucket(MinuteOf(t))
  BY <1>0, LiveTogether, OpenedFacts
<1> HIDE DEF o
<1>3. ASSUME NEW i \in 0..(Buckets - 1), NEW t \in T, i = Slot(t), h[i].minute # MinuteOf(t),
             o[i] = EmptyBucket(MinuteOf(t))
      PROVE  /\ o[i].minute = MinuteOf(t) /\ h[i].minute < MinuteOf(t) /\ MinuteOf(t) \in Nat
             /\ SentIn(R, MinuteOf(t)) = {}
             /\ o[i].wire.requests = 0 /\ \A p \in Port : o[i].cohort[p].requests = 0
  <2>1. h[i].minute < MinuteOf(t) /\ MinuteOf(t) \in Nat /\ h[i].minute \in Nat
    BY <1>0, <1>3, OpensOlder, LiveMinutes, RingCounts
  <2>2. SentIn(R, MinuteOf(t)) = {}
    <3> SUFFICES ASSUME NEW j \in R, MinuteOf(asked[j].at) = MinuteOf(t) PROVE FALSE
      BY DEF SentIn
    <3>1. Slot(asked[j].at) = i BY <1>3 DEF Slot
    <3>2. h[i].minute >= MinuteOf(t) BY <3>1 DEF Shows
    <3> QED BY <2>1, <3>2
  <2>3. Zero.requests = 0 BY DEF Zero, Fields
  <2> QED BY <1>3, <2>1, <2>2, <2>3, EmptyTypes
<1>4. ASSUME NEW i \in 0..(Buckets - 1)
      PROVE  /\ o[i].wire.requests = Cardinality(SentIn(R, o[i].minute))
             /\ \A p \in Port :
                  o[i].cohort[p].requests = Cardinality(SentIn(SentBy(R, p), o[i].minute))
             /\ o[i].minute \in Nat /\ h[i].minute \in Nat /\ o[i].minute >= h[i].minute
  <2>0. h[i].minute \in Nat BY RingCounts
  <2>1. CASE o[i] = h[i] BY <2>0, <2>1 DEF Shows
  <2>2. ASSUME NEW t \in T, i = Slot(t), h[i].minute # MinuteOf(t),
               o[i] = EmptyBucket(MinuteOf(t))
        PROVE  /\ o[i].wire.requests = Cardinality(SentIn(R, o[i].minute))
               /\ \A p \in Port :
                    o[i].cohort[p].requests = Cardinality(SentIn(SentBy(R, p), o[i].minute))
               /\ o[i].minute \in Nat /\ o[i].minute >= h[i].minute
    <3>1. /\ o[i].minute = MinuteOf(t) /\ h[i].minute < MinuteOf(t) /\ MinuteOf(t) \in Nat
          /\ SentIn(R, MinuteOf(t)) = {}
          /\ o[i].wire.requests = 0 /\ \A p \in Port : o[i].cohort[p].requests = 0
      BY <1>3, <2>2
    <3>2. \A p : SentIn(SentBy(R, p), MinuteOf(t)) = {} BY <3>1 DEF SentIn, SentBy
    <3>3. /\ Cardinality(SentIn(R, o[i].minute)) = 0
          /\ \A p : Cardinality(SentIn(SentBy(R, p), o[i].minute)) = 0
      BY <3>1, <3>2, FS_EmptySet
    <3> QED BY <2>0, <3>1, <3>3
  <2> QED BY <1>2, <2>0, <2>1, <2>2
<1>5. ASSUME NEW j \in R PROVE o[Slot(asked[j].at)].minute >= MinuteOf(asked[j].at)
  <2>1. h[Slot(asked[j].at)].minute >= MinuteOf(asked[j].at) BY DEF Shows
  <2>2. Slot(asked[j].at) \in 0..(Buckets - 1) /\ MinuteOf(asked[j].at) \in Nat BY SentTypes
  <2> QED BY <2>1, <2>2, <1>4
<1>6. Shows(o, R) BY <1>4, <1>5 DEF Shows
<1> QED BY <1>1, <1>6 DEF o

\* The same buckets with other counters, but for the requests.
LEMMA SameShows ==
  ASSUME TypeOK, SentInTime, NEW R \in SUBSET (1..Len(asked)), NEW h, Shows(h, R), NEW w,
         \A i \in 0..(Buckets - 1) :
           /\ w[i].minute = h[i].minute /\ w[i].wire.requests = h[i].wire.requests
           /\ \A p \in Port : w[i].cohort[p].requests = h[i].cohort[p].requests
  PROVE  Shows(w, R)
<1>1. \A j \in R : Slot(asked[j].at) \in 0..(Buckets - 1) BY SentTypes
<1> QED BY <1>1 DEF Shows

LEMMA AlignedStays ==
  ASSUME NEW h, Aligned(h), NEW w,
         \A i \in 0..(Buckets - 1) : w[i].minute = h[i].minute
  PROVE  Aligned(w)
BY DEF Aligned

Ordered(h, R) == h \in Ring /\ Aligned(h) /\ Shows(h, R)

LEMMA WireShows ==
  ASSUME TypeOK, SentInTime, NEW R \in SUBSET (1..Len(asked)), NEW h, Ordered(h, R),
         NEW t, Live(t), NEW F, "requests" \notin F
  PROVE  Ordered(Wire(h, t, F), R)
<1> DEFINE o == Ready(h, t)
           w == Wire(h, t, F)
<1>0. clock \in Nat /\ t \in Nat /\ h \in Ring /\ Aligned(h) /\ Shows(h, R)
  BY ClockTypes DEF Live, Ordered
<1>1. /\ w \in Ring
      /\ \A i \in 0..(Buckets - 1) :
           /\ w[i].minute = o[i].minute /\ w[i].cohort = o[i].cohort
           /\ w[i].wire = IF i = Slot(t) THEN Bump(o[i].wire, F) ELSE o[i].wire
  BY <1>0, WireFacts
<1>2. o \in Ring /\ Aligned(o) /\ Shows(o, R)
  <2>1. \A s \in {t} : Live(s) OBVIOUS
  <2> HIDE DEF w
  <2> QED BY <1>0, <2>1, OpenShows DEF Ready
<1> HIDE DEF o, w
<1>3. ASSUME NEW i \in 0..(Buckets - 1) PROVE w[i].wire.requests = o[i].wire.requests
  <2>1. o[i].wire \in Counters BY <1>2 DEF Ring, BucketsOf
  <2>2. Bump(o[i].wire, F)["requests"] = o[i].wire["requests"]
    BY <2>1, BumpTypes DEF Fields
  <2> QED BY <1>1, <2>2
<1>4. Shows(w, R) BY <1>1, <1>2, <1>3, SameShows
<1>5. Aligned(w) BY <1>1, <1>2, AlignedStays
<1> QED BY <1>1, <1>4, <1>5 DEF w, Ordered

LEMMA CohortShows ==
  ASSUME TypeOK, SentInTime, NEW R \in SUBSET (1..Len(asked)), NEW h, Ordered(h, R),
         NEW t, Live(t), NEW p \in Port, NEW F, "requests" \notin F
  PROVE  Ordered(Cohort(h, t, p, F), R)
<1> DEFINE o == Ready(h, t)
           w == Cohort(h, t, p, F)
<1>0. clock \in Nat /\ t \in Nat /\ h \in Ring /\ Aligned(h) /\ Shows(h, R)
  BY ClockTypes DEF Live, Ordered
<1>1. /\ w \in Ring
      /\ \A i \in 0..(Buckets - 1) :
           /\ w[i].minute = o[i].minute /\ w[i].wire = o[i].wire
           /\ \A q \in Port :
                w[i].cohort[q] = IF i = Slot(t) /\ q = p THEN Bump(o[i].cohort[q], F)
                                                         ELSE o[i].cohort[q]
  BY <1>0, CohortFacts
<1>2. o \in Ring /\ Aligned(o) /\ Shows(o, R)
  <2>1. \A s \in {t} : Live(s) OBVIOUS
  <2> HIDE DEF w
  <2> QED BY <1>0, <2>1, OpenShows DEF Ready
<1> HIDE DEF o, w
<1>3. ASSUME NEW i \in 0..(Buckets - 1), NEW q \in Port
      PROVE  w[i].cohort[q].requests = o[i].cohort[q].requests
  <2>1. o[i].cohort[q] \in Counters BY <1>2 DEF Ring, BucketsOf
  <2>2. Bump(o[i].cohort[q], F)["requests"] = o[i].cohort[q]["requests"]
    BY <2>1, BumpTypes DEF Fields
  <2> QED BY <1>1, <2>2
<1>4. Shows(w, R) BY <1>1, <1>2, <1>3, SameShows
<1>5. Aligned(w) BY <1>1, <1>2, AlignedStays
<1> QED BY <1>1, <1>4, <1>5 DEF w, Ordered

\* The minute of a bucket tells its slot.
LEMMA OneSlot ==
  ASSUME clock \in Nat, NEW h \in Ring, Aligned(h), NEW t, Live(t),
         NEW i \in 0..(Buckets - 1), h[i].minute = MinuteOf(t)
  PROVE  i = Slot(t)
BY LiveMinutes DEF Aligned

\* The request of one more query.
LEMMA RequestShows ==
  ASSUME TypeOK, SentInTime, NEW R \in SUBSET (1..Len(asked)), NEW h, Ordered(h, R),
         NEW j \in 1..Len(asked), j \notin R, Live(asked[j].at)
  PROVE  LET t == asked[j].at
             p == asked[j].key.port
         IN Ordered(Cohort(Wire(h, t, {"requests"}), t, p, {"requests"}), R \union {j})
<1> DEFINE t == asked[j].at
           p == asked[j].key.port
           F == {"requests"}
           o == Ready(h, t)
           w == Wire(h, t, F)
           v == Ready(w, t)
           x == Cohort(w, t, p, F)
           Q == R \union {j}
<1>0. /\ clock \in Nat /\ t \in Nat /\ p \in Port /\ Live(t) /\ Slot(t) \in 0..(Buckets - 1)
      /\ MinuteOf(t) \in Nat /\ h \in Ring /\ Aligned(h) /\ Shows(h, R) /\ Q \in SUBSET (1..Len(asked))
      /\ "requests" \in F /\ "requests" \in Fields
  BY ClockTypes, AskedTypes, LiveMinutes DEF Ordered, Fields
<1> HIDE DEF t, p, F
<1>1. /\ w \in Ring
      /\ \A i \in 0..(Buckets - 1) :
           /\ w[i].minute = o[i].minute /\ w[i].cohort = o[i].cohort
           /\ w[i].wire = IF i = Slot(t) THEN Bump(o[i].wire, F) ELSE o[i].wire
  BY <1>0, WireFacts
<1>2. o \in Ring /\ Aligned(o) /\ Shows(o, R) /\ o[Slot(t)].minute = MinuteOf(t)
  <2>1. \A s \in {t} : Live(s) BY <1>0
  <2> HIDE DEF w
  <2> QED BY <1>0, <2>1, OpenShows DEF Ready
<1> HIDE DEF o, w
<1>3. /\ x \in Ring
      /\ \A i \in 0..(Buckets - 1) :
           /\ x[i].minute = v[i].minute /\ x[i].wire = v[i].wire
           /\ \A q \in Port :
                x[i].cohort[q] = IF i = Slot(t) /\ q = p THEN Bump(v[i].cohort[q], F)
                                                         ELSE v[i].cohort[q]
  BY <1>0, <1>1, CohortFacts
<1> HIDE DEF x
<1>4. \A i \in 0..(Buckets - 1) : v[i] = w[i]
  <2>1. Together({t}) BY <1>0, OneTogether
  <2>2. w[Slot(t)].minute = MinuteOf(t) BY <1>0, <1>1, <1>2
  <2> QED BY <1>1, <2>1, <2>2, OpenedFacts DEF Ready
<1> HIDE DEF v
<1>5. ASSUME NEW i \in 0..(Buckets - 1)
      PROVE  /\ x[i].minute = o[i].minute
             /\ x[i].wire.requests = o[i].wire.requests + IF i = Slot(t) THEN 1 ELSE 0
             /\ \A q \in Port : x[i].cohort[q].requests
                  = o[i].cohort[q].requests + IF i = Slot(t) /\ q = p THEN 1 ELSE 0
  <2>1. /\ o[i].wire \in Counters /\ o[i].wire["requests"] \in Nat
        /\ \A q \in Port : o[i].cohort[q] \in Counters /\ o[i].cohort[q]["requests"] \in Nat
    <3>1. o[i] \in BucketsOf BY <1>2 DEF Ring
    <3>2. o[i].wire \in Counters /\ \A q \in Port : o[i].cohort[q] \in Counters
      BY <3>1 DEF BucketsOf
    <3>3. \A c \in Counters : c["requests"] \in Nat BY <1>0 DEF Counters
    <3> QED BY <3>2, <3>3
  <2>2. Bump(o[i].wire, F)["requests"] = o[i].wire["requests"] + 1 BY <1>0, <2>1, BumpTypes
  <2>3. \A q \in Port : Bump(o[i].cohort[q], F)["requests"] = o[i].cohort[q]["requests"] + 1
    BY <1>0, <2>1, BumpTypes
  <2>4. x[i].minute = o[i].minute BY <1>1, <1>3, <1>4
  <2>5. x[i].wire["requests"] = o[i].wire["requests"] + IF i = Slot(t) THEN 1 ELSE 0
    BY <1>1, <1>3, <1>4, <2>1, <2>2
  <2>6. \A q \in Port : x[i].cohort[q]["requests"]
           = o[i].cohort[q]["requests"] + IF i = Slot(t) /\ q = p THEN 1 ELSE 0
    BY <1>1, <1>3, <1>4, <2>1, <2>3
  <2> QED BY <2>4, <2>5, <2>6
<1>6. ASSUME NEW i \in 0..(Buckets - 1)
      PROVE  o[i].minute = MinuteOf(t) <=> i = Slot(t)
  BY <1>0, <1>2, OneSlot
<1>7. ASSUME NEW i \in 0..(Buckets - 1)
      PROVE  /\ x[i].wire.requests = Cardinality(SentIn(Q, o[i].minute))
             /\ \A q \in Port :
                  x[i].cohort[q].requests = Cardinality(SentIn(SentBy(Q, q), o[i].minute))
  <2>1. /\ IsFiniteSet(SentIn(R, o[i].minute)) /\ j \notin SentIn(R, o[i].minute)
        /\ \A q : /\ IsFiniteSet(SentIn(SentBy(R, q), o[i].minute))
                  /\ j \notin SentIn(SentBy(R, q), o[i].minute)
    BY SentTypes DEF SentIn, SentBy
  <2>2. /\ o[i].wire.requests = Cardinality(SentIn(R, o[i].minute))
        /\ \A q \in Port :
             o[i].cohort[q].requests = Cardinality(SentIn(SentBy(R, q), o[i].minute))
        /\ Cardinality(SentIn(R, o[i].minute)) \in Nat
        /\ \A q : Cardinality(SentIn(SentBy(R, q), o[i].minute)) \in Nat
    BY <1>2, SentTypes DEF Shows
  <2>3. CASE i = Slot(t)
    <3>1. /\ SentIn(Q, o[i].minute) = SentIn(R, o[i].minute) \union {j}
          /\ SentIn(SentBy(Q, p), o[i].minute) = SentIn(SentBy(R, p), o[i].minute) \union {j}
          /\ \A q : q # p => SentIn(SentBy(Q, q), o[i].minute) = SentIn(SentBy(R, q), o[i].minute)
      BY <1>6, <2>3 DEF SentIn, SentBy, t, p
    <3>2. /\ Cardinality(SentIn(Q, o[i].minute)) = Cardinality(SentIn(R, o[i].minute)) + 1
          /\ Cardinality(SentIn(SentBy(Q, p), o[i].minute))
               = Cardinality(SentIn(SentBy(R, p), o[i].minute)) + 1
      BY <2>1, <3>1, FS_AddElement
    <3>3. x[i].wire.requests = Cardinality(SentIn(Q, o[i].minute))
      BY <1>5, <2>2, <2>3, <3>2
    <3>4. ASSUME NEW q \in Port
          PROVE  x[i].cohort[q].requests = Cardinality(SentIn(SentBy(Q, q), o[i].minute))
      <4>1. CASE q = p
        <5>1. x[i].cohort[p].requests = o[i].cohort[p].requests + 1 BY <1>0, <1>5, <2>3
        <5>2. o[i].cohort[p].requests = Cardinality(SentIn(SentBy(R, p), o[i].minute))
          BY <1>0, <2>2
        <5> QED BY <3>2, <4>1, <5>1, <5>2
      <4>2. CASE q # p
        <5>1. x[i].cohort[q].requests = o[i].cohort[q].requests + 0 BY <1>5, <4>2
        <5>2. /\ o[i].cohort[q].requests = Cardinality(SentIn(SentBy(R, q), o[i].minute))
              /\ Cardinality(SentIn(SentBy(R, q), o[i].minute)) \in Nat
          BY <2>2
        <5>3. SentIn(SentBy(Q, q), o[i].minute) = SentIn(SentBy(R, q), o[i].minute)
          BY <3>1, <4>2
        <5> HIDE DEF Q
        <5> QED BY <5>1, <5>2, <5>3
      <4> QED BY <4>1, <4>2
    <3> QED BY <3>3, <3>4
  <2>4. CASE i # Slot(t)
    <3>1. /\ SentIn(Q, o[i].minute) = SentIn(R, o[i].minute)
          /\ \A q : SentIn(SentBy(Q, q), o[i].minute) = SentIn(SentBy(R, q), o[i].minute)
      BY <1>6, <2>4 DEF SentIn, SentBy, t, p
    <3>2. /\ x[i].wire.requests = o[i].wire.requests + 0
          /\ \A q \in Port : x[i].cohort[q].requests = o[i].cohort[q].requests + 0
      BY <1>5, <2>4
    <3>3. x[i].wire.requests = Cardinality(SentIn(Q, o[i].minute)) BY <2>2, <3>1, <3>2
    <3>4. ASSUME NEW q \in Port
          PROVE  x[i].cohort[q].requests = Cardinality(SentIn(SentBy(Q, q), o[i].minute))
      <4>1. /\ o[i].cohort[q].requests = Cardinality(SentIn(SentBy(R, q), o[i].minute))
            /\ Cardinality(SentIn(SentBy(R, q), o[i].minute)) \in Nat
        BY <2>2
      <4>2. SentIn(SentBy(Q, q), o[i].minute) = SentIn(SentBy(R, q), o[i].minute)
        BY <3>1
      <4>3. x[i].cohort[q].requests = o[i].cohort[q].requests + 0 BY <3>2
      <4> HIDE DEF Q
      <4> QED BY <4>1, <4>2, <4>3
    <3> QED BY <3>3, <3>4
  <2> QED BY <2>3, <2>4
<1>8. ASSUME NEW k \in Q PROVE x[Slot(asked[k].at)].minute >= MinuteOf(asked[k].at)
  <2>1. CASE k \in R
    <3>1. o[Slot(asked[k].at)].minute >= MinuteOf(asked[k].at) BY <1>2, <2>1 DEF Shows
    <3>2. Slot(asked[k].at) \in 0..(Buckets - 1) BY <2>1, SentTypes
    <3> QED BY <1>5, <3>1, <3>2
  <2>2. CASE k = j
    <3>1. asked[k].at = t BY <2>2 DEF t
    <3> QED BY <1>0, <1>2, <1>5, <3>1
  <2> QED BY <2>1, <2>2
<1>9. Shows(x, Q) BY <1>5, <1>7, <1>8 DEF Shows
<1>10. Aligned(x) BY <1>2, <1>5, AlignedStays
<1> HIDE DEF Q
<1>11. Ordered(x, Q) BY <1>3, <1>9, <1>10 DEF Ordered
<1> QED BY <1>11 DEF x, Q, w, t, p, F

\* What a step adds to the requests.
LEMMA RequestedNext ==
  ASSUME TypeOK, Finite, Traced, [Next]_vars
  PROVE  \/ RecordQuery /\ Requested' = Requested \union {held.query}
         \/ ~RecordQuery /\ Requested' = Requested
<1>0. /\ Len(asked) \in Nat /\ Len(asked') \in Nat /\ Len(asked) <= Len(asked')
      /\ \A i \in 1..Len(asked') : i \in Numbers
  <2>1. TypeOK' BY TypesNext
  <2>2. scenario' = scenario
    BY RecordFrame, AsideFrame, CaptureFrame DEF Next, Aside, CleanupTransient, Tick, vars
  <2>3. Len(asked') <= scenario.queries /\ scenario.queries \in Nat
    BY <2>1, <2>2, ScenarioTypes DEF TypeOK
  <2> QED BY <2>3, AskedGrows DEF Numbers
<1>1. Requested \subseteq Requested' BY <1>0, VerdictNext DEF Requested
<1>2. ASSUME NEW i \in Requested' \ Requested PROVE RecordQuery /\ i = held.query
  <2>1. i \in Numbers /\ "request" \in verdict'[i] BY <1>0 DEF Requested
  <2>2. "request" \notin verdict[i]
    BY <1>0, <2>1, <1>2 DEF Traced, Requested
  <2> QED BY <2>1, <2>2, VerdictNext
<1>3. CASE RecordQuery
  <2>1. /\ held.query \in 1..Len(asked) /\ held.query \in Numbers
        /\ verdict' = [verdict EXCEPT ![held.query] = @ \union {"request"}]
    BY <1>0, <1>3, RecordFrame, HeldTypes DEF RecordQuery, Counted, Record, Traced
  <2>2. held.query \in Requested' BY <1>0, <2>1 DEF Requested, TypeOK
  <2> QED BY <1>1, <1>2, <1>3, <2>2
<1>4. CASE ~RecordQuery BY <1>1, <1>2, <1>4
<1> QED BY <1>3, <1>4

LEMMA SentInTimeNext ==
  ASSUME TypeOK, Clocks, SentInTime, [Next]_vars
  PROVE  SentInTime'
<1>0. /\ clock \in Nat /\ Minute \in Nat /\ Minute <= clock
      /\ clock' = clock \/ clock' = clock + 1
      /\ asked \in Seq(Questions)
  <2>1. clock \in Nat /\ Minute \in Nat /\ Minute <= clock
    BY ClockTypes, Constants DEF Clocks
  <2>2. clock' = clock \/ clock' = clock + 1
    BY RecordFrame, AsideFrame, CaptureFrame DEF Next, Aside, CleanupTransient, Tick, vars
  <2>3. asked \in Seq(Questions) BY DEF TypeOK
  <2> QED BY <2>1, <2>2, <2>3
<1>1. \A i \in 1..Len(asked) : asked[i].at \in Nat BY AskedTypes
<1>2. ASSUME NEW k \in Keys, NEW n \in Name, CaptureQuery(k, n) PROVE SentInTime'
  <2>1. asked' = Append(asked, [key |-> k, name |-> n, at |-> clock, replies |-> 0])
        /\ clock' = clock
    BY <1>2 DEF CaptureQuery
  <2>2. Len(asked') = Len(asked) + 1 /\ Len(asked) \in Nat
        /\ asked'[Len(asked) + 1].at = clock
        /\ \A i \in 1..Len(asked) : asked'[i] = asked[i]
    BY <1>0, <2>1
  <2> QED BY <1>0, <2>1, <2>2 DEF SentInTime
<1>3. CASE Len(asked') = Len(asked)
  <2> SUFFICES ASSUME NEW i \in 1..Len(asked)
               PROVE  Minute <= asked'[i].at /\ asked'[i].at <= clock'
    BY <1>3 DEF SentInTime
  <2>1. asked'[i].at = asked[i].at BY AskedGrows
  <2> QED BY <1>0, <1>1, <2>1 DEF SentInTime
<1>4. Len(asked') = Len(asked) \/ \E k \in Keys, n \in Name : CaptureQuery(k, n)
  <2>1. ASSUME NEW i \in 1..Len(asked), NEW good \in BOOLEAN, CaptureReply(i, good)
        PROVE  Len(asked') = Len(asked)
    BY <1>0, <2>1 DEF CaptureReply
  <2> QED
    BY <2>1, RecordFrame, AsideFrame DEF Next, Aside, Capture, CleanupTransient, Tick
<1> QED BY <1>2, <1>3, <1>4

LEMMA QueryShows ==
  ASSUME Base, Traced, Started, SentInTime, Ordered(history, Requested), RecordQuery
  PROVE  Ordered(history', Requested \union {held.query})
<1> DEFINE t == held.at
           p == held.key.port
           R == Requested
           j == held.query
           h == Cohort(Wire(history, t, {"requests"}), t, p, {"requests"})
           from == FallbackSource
           x == Wire(h, t, {"fallbacks"})
<1>1. held # NoPacket /\ held.kind = "query" /\ TypeOK BY Holding DEF RecordQuery, Base
<1>2. /\ j \in 1..Len(asked) /\ asked[j].at = t /\ asked[j].key.port = p /\ j \notin R
      /\ p \in Port /\ t \in Nat
    BY <1>1, HeldTypes DEF Traced, Requested
<1>3. clock \in Nat /\ Live(t) BY <1>1, AllAreLive
<1>4. /\ \/ history' = h
         \/ /\ FallbackSources # {}
            /\ history' = Cohort(x, from.when, from.key.port, {"fallbacks"})
  BY DEF RecordQuery
<1>5. R \in SUBSET (1..Len(asked)) BY DEF Requested
<1>6. R \union {j} \in SUBSET (1..Len(asked)) BY <1>2, <1>5
<1> HIDE DEF t, p, R, j
<1>7. Ordered(h, R \union {j}) BY <1>1, <1>2, <1>3, <1>5, RequestShows DEF R
<1> HIDE DEF h
<1>8. ASSUME FallbackSources # {}
      PROVE  Ordered(Cohort(x, from.when, from.key.port, {"fallbacks"}), R \union {j})
  <2>1. /\ from.key.port \in Port /\ from.when \in Nat
        /\ from.when <= held.at /\ held.at - from.when <= FallbackTo
        /\ from \in recent[Profile(held.key.port)][held.name]
    BY <1>1, <1>8, SourceFacts
  <2>2. Profile(held.key.port) \in Metas /\ held.name \in Name
    BY <1>1, HeldTypes, ProfileTypes
  <2>3. Minute <= from.when BY <2>1, <2>2 DEF Started
  <2>4. Live(from.when) BY <1>1, <2>1, <2>3, AllAreLive
  <2>5. Ordered(x, R \union {j}) BY <1>1, <1>3, <1>6, <1>7, WireShows
  <2> HIDE DEF x
  <2> QED BY <1>1, <1>6, <2>1, <2>4, <2>5, CohortShows
<1> QED BY <1>4, <1>7, <1>8 DEF R, j

LEMMA ReplyShows ==
  ASSUME Base, SentInTime, Ordered(history, Requested), ReplyLate \/ ReplyMatched
  PROVE  Ordered(history', Requested)
<1> DEFINE t == held.at
           k == held.key
           R == Requested
<1>1. held # NoPacket /\ TypeOK BY Holding DEF ReplyLate, ReplyMatched, Base
<1>2. k.port \in Port BY <1>1, HeldTypes
<1>3. AllLive(pending) /\ AllLive(timedOut) /\ Live(t) BY <1>1, AllAreLive
<1>4. R \in SUBSET (1..Len(asked)) BY DEF Requested
<1>5. CASE ReplyLate
  <2> DEFINE F == {"late"}
             w == Wire(history, t, F)
             u == timedOut[k].when
  <2>1. /\ k \in DOMAIN timedOut /\ history' = Cohort(w, u, k.port, F) /\ "requests" \notin F
    BY <1>5 DEF ReplyLate, Since
  <2>2. Live(u) BY <1>3, <2>1 DEF AllLive
  <2> HIDE DEF t, k, F, u, R
  <2>3. Ordered(w, R) BY <1>1, <1>3, <1>4, <2>1, WireShows DEF R
  <2> HIDE DEF w
  <2> QED BY <1>1, <1>2, <1>4, <2>1, <2>2, <2>3, CohortShows DEF R
<1>6. CASE ReplyMatched
  <2> DEFINE F == {"responses", IF held.good THEN "success" ELSE "errors"}
             w == Wire(history, t, F)
             u == pending[k].when
  <2>1. /\ k \in DOMAIN pending /\ history' = Cohort(w, u, k.port, F) /\ "requests" \notin F
    BY <1>6 DEF ReplyMatched, Since
  <2>2. Live(u) BY <1>3, <2>1 DEF AllLive
  <2> HIDE DEF t, k, F, u, R
  <2>3. Ordered(w, R) BY <1>1, <1>3, <1>4, <2>1, WireShows DEF R
  <2> HIDE DEF w
  <2> QED BY <1>1, <1>2, <1>4, <2>1, <2>2, <2>3, CohortShows DEF R
<1> QED BY <1>5, <1>6

LEMMA SweepShows ==
  ASSUME Base, SentInTime, Ordered(history, Requested), CleanupTransient
  PROVE  Ordered(history', Requested)
<1> DEFINE counted == {k \in Overdue : k.port \in Known}
           T == {clock} \union {pending[k].when : k \in counted}
           g == Opened(history, T)
<1>0. TypeOK /\ clock \in Nat /\ Requested \in SUBSET (1..Len(asked))
      /\ history \in Ring /\ Aligned(history) /\ Shows(history, Requested)
  BY ClockTypes DEF Base, Requested, Ordered
<1>1. CASE counted = {} BY <1>1 DEF CleanupTransient
<1>2. CASE counted # {}
  <2>1. \A t \in T : Live(t)
    <3>1. Live(clock) /\ AllLive(pending) BY AllAreLive
    <3>2. counted \subseteq DOMAIN pending BY DEF Overdue
    <3> QED BY <3>1, <3>2 DEF AllLive
  <2>2. \A i \in 0..(Buckets - 1) :
          /\ history'[i].minute = g[i].minute
          /\ \A q \in Port : history'[i].cohort[q]
                               = Add(g[i].cohort[q], {"timeouts"}, Cardinality(Lost(i, q)))
          /\ \/ history'[i].wire = g[i].wire
             \/ \E n : history'[i].wire = Add(g[i].wire, {"timeouts", "errors"}, n)
    BY <1>2, SweptRing
  <2> HIDE DEF T
  <2>3. g \in Ring /\ Aligned(g) /\ Shows(g, Requested) BY <1>0, <2>1, OpenShows
  <2> HIDE DEF g
  <2>4. ASSUME NEW i \in 0..(Buckets - 1)
        PROVE  /\ history'[i].wire.requests = g[i].wire.requests
               /\ \A q \in Port : history'[i].cohort[q].requests = g[i].cohort[q].requests
    <3>1. g[i] \in BucketsOf BY <2>3 DEF Ring
    <3>2. g[i].wire \in Counters /\ \A q \in Port : g[i].cohort[q] \in Counters
      BY <3>1 DEF BucketsOf
    <3>3. ASSUME NEW c \in Counters, NEW n, NEW F, "requests" \notin F
          PROVE  Add(c, F, n)["requests"] = c["requests"]
      BY <3>3 DEF Add, Counters, Fields
    <3>4. history'[i].wire["requests"] = g[i].wire["requests"] BY <2>2, <3>2, <3>3
    <3>5. \A q \in Port : history'[i].cohort[q]["requests"] = g[i].cohort[q]["requests"]
      BY <2>2, <3>2, <3>3
    <3> QED BY <3>4, <3>5
  <2>5. Shows(history', Requested) BY <1>0, <2>2, <2>3, <2>4, SameShows
  <2>6. Aligned(history') BY <2>2, <2>3, AlignedStays
  <2>7. history' \in Ring
    <3>1. [Next]_vars /\ Finite BY DEF Next, Base
    <3>2. TypeOK' BY <1>0, <3>1, TypesNext
    <3> QED BY <3>2 DEF TypeOK, Ring, BucketsOf, Counters
  <2> QED BY <2>5, <2>6, <2>7 DEF Ordered
<1> QED BY <1>1, <1>2

\* What was sent stays as it was.
LEMMA ShowsLater ==
  ASSUME TypeOK, [Next]_vars, NEW h, NEW R \in SUBSET (1..Len(asked)), Shows(h, R)
  PROVE  Shows(h, R)'
<1>1. \A j \in R : asked'[j].at = asked[j].at /\ asked'[j].key = asked[j].key
  BY AskedGrows
<1>2. \A x, p : /\ {i \in R : MinuteOf(asked'[i].at) = x} = SentIn(R, x)
                /\ {i \in {j \in R : asked'[j].key.port = p} : MinuteOf(asked'[i].at) = x}
                     = SentIn(SentBy(R, p), x)
  BY <1>1 DEF SentIn, SentBy
<1>3. ASSUME NEW x, NEW p
      PROVE  SentIn(R, x)' = SentIn(R, x) /\ SentIn(SentBy(R, p), x)' = SentIn(SentBy(R, p), x)
  <2>1. /\ SentIn(R, x)' = {i \in R : MinuteOf(asked'[i].at) = x}
        /\ SentIn(SentBy(R, p), x)'
             = {i \in {j \in R : asked'[j].key.port = p} : MinuteOf(asked'[i].at) = x}
    BY DEF SentIn, SentBy, MinuteOf
  <2> QED BY <1>2, <2>1
<1>4. ASSUME NEW i \in 0..(Buckets - 1)
      PROVE  /\ h[i].wire.requests = Cardinality(SentIn(R, h[i].minute)')
             /\ \A p \in Port :
                  h[i].cohort[p].requests = Cardinality(SentIn(SentBy(R, p), h[i].minute)')
  <2>1. /\ h[i].wire.requests = Cardinality(SentIn(R, h[i].minute))
        /\ \A p \in Port :
             h[i].cohort[p].requests = Cardinality(SentIn(SentBy(R, p), h[i].minute))
    BY DEF Shows
  <2> QED BY <2>1, <1>3
<1>5. \A j \in R : h[Slot(asked'[j].at)].minute >= MinuteOf(asked'[j].at)
  BY <1>1 DEF Shows
<1> QED BY <1>4, <1>5 DEF Shows, Slot, MinuteOf

\* Each bucket shows the requests of its minute.
ExactInv == BooksInv /\ SentInTime /\ Shows(history, Requested)

LEMMA ExactNext == ExactInv /\ [Next]_vars => ExactInv'
<1> SUFFICES ASSUME ExactInv, [Next]_vars PROVE ExactInv' OBVIOUS
<1>0. /\ Base /\ TypeOK /\ Finite /\ Clocks /\ Traced /\ Started /\ SentInTime
      /\ Ordered(history, Requested) /\ Requested \in SUBSET (1..Len(asked))
  BY DEF ExactInv, BooksInv, Books, Base, Ordered, Requested
<1>1. BooksInv' BY BooksNext DEF ExactInv
<1>2. SentInTime' BY <1>0, SentInTimeNext
<1>3. Ordered(history', Requested')
  <2>1. CASE RecordQuery
    <3>1. Ordered(history', Requested \union {held.query}) BY <1>0, <2>1, QueryShows
    <3> QED BY <1>0, <2>1, <3>1, RequestedNext
  <2>2. CASE ~RecordQuery
    <3>0. Requested' = Requested BY <1>0, <2>2, RequestedNext
    <3>1. CASE UNCHANGED history BY <1>0, <3>0, <3>1
    <3>2. CASE ReplyLate \/ ReplyMatched BY <1>0, <3>0, <3>2, ReplyShows
    <3>3. CASE CleanupTransient BY <1>0, <3>0, <3>3, SweepShows
    <3>4. CASE Watch
      <4>1. history' = history \/ history' = Wire(history, clock, {"errors"})
        BY <3>4 DEF Watch, UpdateDiscovery, StartProbes, CheckOne, SetHealth, StartDiagnoses,
                    DiagnoseUpstream, FaultMoves, store
      <4>2. Live(clock) /\ "requests" \notin {"errors"} BY <1>0, AllAreLive
      <4>3. Ordered(Wire(history, clock, {"errors"}), Requested) BY <1>0, <4>2, WireShows
      <4> QED BY <1>0, <3>0, <4>1, <4>3
    <3> QED
      BY <1>0, <2>2, <3>1, <3>2, <3>3, <3>4, CaptureFrame
      DEF Next, Record, ReplyIgnored, ReplyUnmatched, Tick, vars, store
  <2> QED BY <2>1, <2>2
<1>4. Requested' \in SUBSET (1..Len(asked))
  <2>1. RecordQuery => held.query \in 1..Len(asked)
    <3>1. RecordQuery => held # NoPacket /\ held.kind = "query"
      BY <1>0, Holding DEF RecordQuery
    <3> QED BY <1>0, <3>1 DEF Traced
  <2> QED BY <1>0, <2>1, RequestedNext
<1>5. Shows(history, Requested)'
  <2>1. ASSUME NEW h, NEW R, h = history', R = Requested'
        PROVE  Shows(history, Requested)'
    <3>1. Shows(h, R) /\ R \in SUBSET (1..Len(asked)) BY <1>3, <1>4, <2>1 DEF Ordered
    <3>2. Shows(h, R)' BY <1>0, <3>1, ShowsLater
    <3> QED BY <3>2, <2>1
  <2> QED BY <2>1
<1> QED BY <1>1, <1>2, <1>5 DEF ExactInv

LEMMA ExactInit == Init => ExactInv
<1> SUFFICES ASSUME Init PROVE ExactInv OBVIOUS
<1>1. BooksInv BY BooksInit
<1>2. asked = <<>> BY DEF Init
<1>3. SentInTime BY <1>2 DEF SentInTime
<1>4. Requested = {} BY <1>2 DEF Requested
<1>5. \A x, p : SentIn({}, x) = {} /\ SentIn(SentBy({}, p), x) = {} BY DEF SentIn, SentBy
<1>6. \A i \in 0..(Buckets - 1) : /\ history[i].wire = Zero
                                  /\ \A p \in Port : history[i].cohort[p] = Zero
  BY EmptyTypes DEF Init, EmptyBucket
<1>7. Zero.requests = 0 BY DEF Zero, Fields
<1>8. Shows(history, {}) BY <1>5, <1>6, <1>7, FS_EmptySet DEF Shows
<1> QED BY <1>1, <1>3, <1>4, <1>8 DEF ExactInv

\* What the buckets of some minutes show of the counters w, and the queries of Q
\* that are of one of those minutes.
ShownIn(S, w)    == UNION {{x} \X (1..w[x % Buckets]) :
                             x \in {x \in S : history[x % Buckets].minute = x}}
SentDuring(Q, S) == {i \in Q : MinuteOf(asked[i].at) \in S}

\* Counters of the buckets of some minutes add up to the queries of those.
LEMMA MinutesAddUp ==
  ASSUME ExactInv, NEW Q \in SUBSET Requested, NEW w,
         \A i \in 0..(Buckets - 1) : w[i] = Cardinality(SentIn(Q, history[i].minute)),
         NEW S \in SUBSET ((MinuteOf(clock) - Buckets + 1)..MinuteOf(clock))
  PROVE  Cardinality(ShownIn(S, w)) = Cardinality(SentDuring(Q, S))
<1> DEFINE X == {x \in S : history[x % Buckets].minute = x}
           D == {i \in Q : MinuteOf(asked[i].at) \in S}
           class == [i \in D |-> MinuteOf(asked[i].at)]
           n == [x \in X |-> w[x % Buckets]]
<1>0. /\ TypeOK /\ SentInTime /\ clock \in Nat /\ history \in Ring /\ Aligned(history)
      /\ Shows(history, Requested) /\ Q \in SUBSET (1..Len(asked))
  BY ClockTypes DEF ExactInv, BooksInv, Books, Base, Requested
<1>1. MinuteOf(clock) \in Nat /\ Buckets \in Nat \ {0} BY <1>0, SlotTypes, Constants
<1>2. IsFiniteSet(D)
  <2>1. D \in SUBSET (1..Len(asked)) BY <1>0
  <2> QED BY <1>0, <2>1, SentTypes
<1>3. ASSUME NEW j \in D PROVE class[j] \in X
  <2> DEFINE x == MinuteOf(asked[j].at)
             y == history[Slot(asked[j].at)].minute
  <2>1. /\ x \in Nat /\ x >= 1 /\ Slot(asked[j].at) \in 0..(Buckets - 1)
        /\ x % Buckets = Slot(asked[j].at)
    BY <1>0, SentTypes
  <2>2. y >= x BY <1>0 DEF Shows
  <2>3. y \in Nat /\ y <= MinuteOf(clock) /\ (y # 0 => y % Buckets = Slot(asked[j].at))
    BY <1>0, <2>1, RingCounts DEF Aligned
  <2>4. x \in S /\ class[j] = x OBVIOUS
  <2>5. y < x + Buckets BY <1>1, <2>1, <2>3, <2>4
  <2> HIDE DEF x, y
  <2>6. x % Buckets = y % Buckets BY <2>1, <2>2, <2>3
  <2>7. x = y BY <2>1, <2>2, <2>3, <2>5, <2>6, SameRest
  <2>8. history[x % Buckets].minute = x BY <2>1, <2>7 DEF y
  <2> QED BY <2>4, <2>8
<1>4. ASSUME NEW x \in X PROVE n[x] = Cardinality({r \in D : class[r] = x})
  <2>1. x \in S /\ x \in Int /\ history[x % Buckets].minute = x BY <1>1
  <2>2. x % Buckets \in 0..(Buckets - 1) BY <1>1, <2>1
  <2>3. n[x] = Cardinality(SentIn(Q, x)) BY <2>1, <2>2
  <2>4. SentIn(Q, x) = {r \in D : class[r] = x} BY <2>1 DEF SentIn
  <2> QED BY <2>3, <2>4
<1>5. Cardinality(InTurn(X, n)) = Cardinality(D)
  <2> HIDE DEF X, D, class, n
  <2>1. \A r \in D : class[r] \in X BY <1>3
  <2>2. \A x \in X : n[x] = Cardinality(OfClass(D, class, x)) BY <1>4 DEF OfClass
  <2> QED BY ONLY <1>2, <2>1, <2>2, CountedByClass
<1>6. {{x} \X (1..n[x]) : x \in X} = {{x} \X (1..w[x % Buckets]) : x \in X}
  <2>1. \A x \in X : n[x] = w[x % Buckets] OBVIOUS
  <2> HIDE DEF n, X
  <2> QED BY <2>1
<1>7. InTurn(X, n) = ShownIn(S, w)
  <2>1. InTurn(X, n) = UNION {{x} \X (1..n[x]) : x \in X} BY DEF InTurn
  <2>2. ShownIn(S, w) = UNION {{x} \X (1..w[x % Buckets]) : x \in X} BY DEF ShownIn
  <2> HIDE DEF n, X
  <2> QED BY <1>6, <2>1, <2>2
<1>8. SentDuring(Q, S) = D BY DEF SentDuring
<1> QED BY <1>5, <1>7, <1>8

\* One step further is as far from a multiple as before.
LEMMA StepOn ==
  ASSUME NEW a \in Nat, NEW s \in Nat \ {0}, a % s = 0
  PROVE  (a + s) % s = 0
<1>1. a = s * (a \div s) + (a % s) /\ a + s = s * ((a + s) \div s) + ((a + s) % s)
  OBVIOUS
<1>2. a \div s \in Nat /\ (a + s) \div s \in Nat /\ (a + s) % s \in 0..(s - 1) OBVIOUS
<1> DEFINE q == a \div s  b == (a + s) \div s  r == (a + s) % s  d == q + 1 - b
<1>3. q \in Nat /\ b \in Nat /\ r \in 0..(s - 1) /\ a = s * q /\ a + s = s * b + r
  BY <1>1, <1>2
<1> HIDE DEF q, b, r
<1>4. d \in Int /\ r = s * d BY <1>3
<1> HIDE DEF d
<1>5. CASE d >= 1
  <2>1. s * d >= s BY <1>4, <1>5
  <2> QED BY <1>3, <1>4, <2>1
<1>6. CASE d <= -1
  <2>1. s * d <= -s BY <1>4, <1>6
  <2> QED BY <1>3, <1>4, <2>1
<1>7. CASE d = 0
  <2>1. r = 0 BY <1>4, <1>7
  <2> QED BY <2>1 DEF r
<1> QED BY <1>4, <1>5, <1>6, <1>7

\* The requests a quality window or a graph shows are exactly those that were
\* sent in its minutes (windowStatsLocked, History): no bucket still shows an
\* older minute's, none is lost when a slot of the ring is taken over.
THEOREM WindowsAreExact == Spec => []WindowExact
<1>1. ExactInv => WindowExact
  <2> SUFFICES ASSUME ExactInv, NEW m \in 1..Buckets
               PROVE  LET recorded == {i \in 1..Len(asked) :
                            /\ "request" \in verdict[i]
                            /\ MinuteOf(asked[i].at) > MinuteOf(clock) - m}
                          points   == History(m, "requests")
                      IN /\ \A p \in Port :
                              Window(p, m, "requests") =
                                Cardinality({i \in recorded : asked[i].key.port = p})
                         /\ \A i \in recorded :
                              \E x \in DOMAIN points : MinuteOf(asked[i].at) >= x
                         /\ \A x \in DOMAIN points :
                              points[x] = Cardinality({i \in recorded :
                                /\ MinuteOf(asked[i].at) >= x
                                /\ x + StepOf[m] \in DOMAIN points
                                     => MinuteOf(asked[i].at) < x + StepOf[m]})
    BY DEF WindowExact
  <2> DEFINE M == MinuteOf(clock)
             R == {i \in 1..Len(asked) : "request" \in verdict[i] /\ MinuteOf(asked[i].at) > M - m}
             first == IF M - m + 1 < MinuteOf(Minute) THEN MinuteOf(Minute) ELSE M - m + 1
             s == StepOf[m]
             starts == {x \in first..M : (x - first) % s = 0}
             points == History(m, "requests")
  <2>0. /\ TypeOK /\ SentInTime /\ Shows(history, Requested) /\ Clocks
        /\ Requested \in SUBSET (1..Len(asked))
    BY DEF ExactInv, BooksInv, Base, Requested
  <2>1. /\ M \in Nat /\ M >= 1 /\ MinuteOf(Minute) = 1 /\ Buckets \in Nat \ {0}
        /\ s \in Nat \ {0} /\ m \in 1..Buckets
    <3>1. clock \in Nat /\ Minute \in Nat \ {0} /\ Minute <= clock
      BY <2>0, ClockTypes, Constants DEF Clocks
    <3>2. MinuteOf(Minute) = 1 BY <3>1 DEF MinuteOf
    <3>3. M \in Nat /\ M >= 1 BY <3>1, <3>2, Monotone
    <3>4. s \in Nat \ {0} BY StatsAssumption
    <3> QED BY <3>2, <3>3, <3>4, Constants
  <2>2. \A i \in Requested : /\ MinuteOf(asked[i].at) \in Nat /\ MinuteOf(asked[i].at) >= 1
                             /\ MinuteOf(asked[i].at) <= M
    BY <2>0, SentTypes
  <2>3. R = {i \in Requested : MinuteOf(asked[i].at) > M - m} BY DEF Requested
  <2>4. first \in Nat /\ first <= M /\ first >= 1 /\ first >= M - m + 1
        /\ (first = 1 \/ first = M - m + 1)
    BY <2>1
  <2>5. DOMAIN points = starts
        /\ \A x \in starts : points[x] =
             Cardinality(UNION {{y} \X (1..history[y % Buckets].wire["requests"]) :
               y \in {y \in {y \in x..(x + s - 1) : y <= M} : history[y % Buckets].minute = y}})
    BY DEF History, SumOver
  <2> HIDE DEF M, first, s, points
  <2>6. ASSUME NEW p \in Port
        PROVE  Window(p, m, "requests") = Cardinality({i \in R : asked[i].key.port = p})
    <3> DEFINE S == (M - m + 1)..M
               w == [i \in 0..(Buckets - 1) |-> history[i].cohort[p]["requests"]]
               Q == SentBy(Requested, p)
    <3>1. S \in SUBSET ((M - Buckets + 1)..M) BY <2>1
    <3>2. Q \in SUBSET Requested BY DEF SentBy
    <3>3. \A i \in 0..(Buckets - 1) : w[i] = Cardinality(SentIn(Q, history[i].minute))
      BY <2>0 DEF Shows
    <3>4. Window(p, m, "requests") =
            Cardinality(UNION {{x} \X (1..history[x % Buckets].cohort[p]["requests"]) :
                                 x \in {x \in S : history[x % Buckets].minute = x}})
      BY DEF Window, SumOver, M
    <3>5. \A x \in S : w[x % Buckets] = history[x % Buckets].cohort[p]["requests"]
      <4>1. \A x \in S : x % Buckets \in 0..(Buckets - 1) BY <2>1
      <4> QED BY <4>1
    <3>6. {i \in Q : MinuteOf(asked[i].at) \in S} = {i \in R : asked[i].key.port = p}
      BY <2>1, <2>2, <2>3 DEF SentBy
    <3> HIDE DEF S, w, Q, R
    <3>7. {{x} \X (1..w[x % Buckets]) : x \in {x \in S : history[x % Buckets].minute = x}}
            = {{x} \X (1..history[x % Buckets].cohort[p]["requests"]) :
                 x \in {x \in S : history[x % Buckets].minute = x}}
      BY <3>5
    <3>8. Cardinality(ShownIn(S, w)) = Cardinality(SentDuring(Q, S))
      <4>1. S \in SUBSET ((MinuteOf(clock) - Buckets + 1)..MinuteOf(clock)) BY <3>1 DEF M
      <4> QED BY ONLY ExactInv, <4>1, <3>2, <3>3, MinutesAddUp
    <3>9. ShownIn(S, w) = UNION {{x} \X (1..w[x % Buckets]) :
                                   x \in {x \in S : history[x % Buckets].minute = x}}
      BY DEF ShownIn
    <3>10. SentDuring(Q, S) = {i \in Q : MinuteOf(asked[i].at) \in S} BY DEF SentDuring
    <3> QED BY <3>4, <3>6, <3>7, <3>8, <3>9, <3>10
  <2>7. ASSUME NEW i \in R PROVE \E x \in starts : MinuteOf(asked[i].at) >= x
    <3>1. (first - first) % s = 0 BY <2>1, <2>4
    <3>2. first \in starts BY <2>1, <2>4, <3>1
    <3>3. MinuteOf(asked[i].at) >= first BY <2>1, <2>2, <2>3, <2>4
    <3> QED BY <3>2, <3>3
  <2>8. ASSUME NEW x \in starts
        PROVE  points[x] = Cardinality({i \in R :
                 /\ MinuteOf(asked[i].at) >= x
                 /\ x + s \in starts => MinuteOf(asked[i].at) < x + s})
    <3> DEFINE S == {y \in x..(x + s - 1) : y <= M}
               w == [i \in 0..(Buckets - 1) |-> history[i].wire["requests"]]
    <3>0. x \in Nat /\ x >= first /\ x <= M /\ (x - first) % s = 0 BY <2>1, <2>4
    <3>1. S \in SUBSET ((M - Buckets + 1)..M) BY <2>1, <2>4, <3>0
    <3>2. \A i \in 0..(Buckets - 1) : w[i] = Cardinality(SentIn(Requested, history[i].minute))
      BY <2>0 DEF Shows
    <3>3. \A y \in S : w[y % Buckets] = history[y % Buckets].wire["requests"]
      <4>1. \A y \in S : y % Buckets \in 0..(Buckets - 1) BY <2>1, <3>0
      <4> QED BY <4>1
    <3>4. x + s \in starts \/ x + s > M
      <4>1. x - first \in Nat BY <2>4, <3>0
      <4>2. ((x - first) + s) % s = 0 BY <2>1, <3>0, <4>1, StepOn
      <4>3. (x + s) - first = (x - first) + s BY <2>1, <2>4, <3>0
      <4> QED BY <2>1, <2>4, <3>0, <4>2, <4>3
    <3>5. {i \in Requested : MinuteOf(asked[i].at) \in S}
            = {i \in R : /\ MinuteOf(asked[i].at) >= x
                         /\ x + s \in starts => MinuteOf(asked[i].at) < x + s}
      <4> HIDE DEF starts, R
      <4> QED BY <2>1, <2>2, <2>3, <2>4, <3>0, <3>4
    <3>6. points[x] = Cardinality(UNION {{y} \X (1..history[y % Buckets].wire["requests"]) :
                        y \in {y \in S : history[y % Buckets].minute = y}})
      BY <2>5
    <3> HIDE DEF S, w, R, starts
    <3>7. {{y} \X (1..w[y % Buckets]) : y \in {y \in S : history[y % Buckets].minute = y}}
            = {{y} \X (1..history[y % Buckets].wire["requests"]) :
                 y \in {y \in S : history[y % Buckets].minute = y}}
      BY <3>3
    <3>8. Cardinality(ShownIn(S, w)) = Cardinality(SentDuring(Requested, S))
      <4>1. S \in SUBSET ((MinuteOf(clock) - Buckets + 1)..MinuteOf(clock)) BY <3>1 DEF M
      <4>2. Requested \in SUBSET Requested OBVIOUS
      <4> QED BY ONLY ExactInv, <4>1, <4>2, <3>2, MinutesAddUp
    <3>9. ShownIn(S, w) = UNION {{y} \X (1..w[y % Buckets]) :
                                   y \in {y \in S : history[y % Buckets].minute = y}}
      BY DEF ShownIn
    <3>10. SentDuring(Requested, S) = {i \in Requested : MinuteOf(asked[i].at) \in S}
      BY DEF SentDuring
    <3> QED BY <3>5, <3>6, <3>7, <3>8, <3>9, <3>10
  <2> QED BY <2>5, <2>6, <2>7, <2>8 DEF M, s, points
<1> QED BY <1>1, ExactInit, ExactNext, PTL DEF Spec

=============================================================================
