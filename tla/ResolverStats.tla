---------------------------- MODULE ResolverStats ----------------------------
(***************************************************************************)
(* The resolver side of the DNS module's Store: what it counts of the      *)
(* queries that the router's local DNS proxies send to their resolvers.    *)
(* One thread captures packets on the loopback interface, a ticker cleans  *)
(* up, one thread rediscovers the proxy ports, one probes them and one      *)
(* diagnoses those that are DOWN; the Store's lock makes each of their     *)
(* calls one step.                                                         *)
(*                                                                         *)
(* Time is counted in ticks.  A query is identified on the wire by the     *)
(* proxy's port and a tag (source port and DNS id), which may be used      *)
(* again; asked remembers which query is which.                            *)
(***************************************************************************)
EXTENDS Integers, Sequences, FiniteSets, FiniteSetsExt

CONSTANTS
  Port,          \* ports of the local DNS proxies, one per resolver
  Tag,           \* source ports and ids a proxy sends a query with
  Name,          \* question names (with their types)
  TimeoutLimit,  \* age at which a query of a discovered resolver times out
  DefaultLimit,  \* the same, for a resolver nobody has discovered
  LateKeep,      \* how long a timed out query is remembered; a minute
  FallbackFrom,  \* ages of a pending query that make the same question
  FallbackTo,    \*   to another resolver a fallback
  RecentKeep,    \* how long a question is remembered for that; 2 seconds
  Shield,        \* how long an answer outweighs failing probes; 90 seconds
  Minute,        \* ticks per bucket of the history
  Buckets,       \* buckets of the history; 1440
  StepOf,        \* minutes to a point of a graph, by the minutes it covers
  SweepEvery,    \* the cleanup ticker's period; 2 seconds
  ProbeEvery,    \* the health check's period
  RouteOf,       \* whether a resolver is bound to a route of its own
  DiagEvery,     \* the diagnosis ticker's period; 30 seconds
  DiagTime,      \* most ticks a round of diagnoses takes
  DiagKeep,      \* how long a diagnosis is not repeated; 5 minutes
  Scenarios      \* what may happen in a behaviour, and how much of it

ASSUME StatsAssumption ==
  /\ {TimeoutLimit, DefaultLimit, LateKeep, FallbackFrom, FallbackTo, RecentKeep,
      Shield} \subseteq Nat
  /\ {Minute, Buckets, SweepEvery, ProbeEvery, DiagEvery, DiagTime} \subseteq Nat \ {0}
  /\ DiagKeep \in Nat
  /\ StepOf \in [1..Buckets -> Nat \ {0}]
  /\ RouteOf \in [Port -> {"default", "own"}]
  \* The ports discovery may find, the tags in use, whether the capture may miss packets,
  \* discovery change its mind, the health checks and the diagnoses run, and
  \* bounds on the changes of what is wrong with a resolver, the time, the
  \* queries, the replies to each, the queries of clients and the answers to
  \* each of those.
  /\ Scenarios \subseteq
       [ports : SUBSET Port, tags : SUBSET Tag, loss : BOOLEAN, churn : BOOLEAN, probes : BOOLEAN,
        diagnoses : BOOLEAN, breaks : Nat, time : Nat, queries : Nat, replies : Nat,
        clients : Nat, answers : Nat]
  /\ \A s \in Scenarios : s.time >= Minute
  \* A query is forgotten, and no longer the source of a fallback, long before
  \* its minute leaves the history.
  /\ \A n \in {TimeoutLimit, DefaultLimit, FallbackTo} :
       Minute * (Buckets - 1) > n + LateKeep + 2 * SweepEvery + 2

VARIABLES
  scenario,   \* one of Scenarios, from the start
  clock,
  swept,      \* when the cleanup last ran
  upstream,   \* the resolvers the Store knows, by port
  pending,    \* queries without an answer, by key
  timedOut,   \* queries declared TIMEOUT, by key
  recent,     \* questions of the last seconds
  history,    \* the ring of minute buckets
  total,
  held,       \* the packet the capture thread has stamped and classified
  round,      \* when the last round of health checks began
  probing,    \* resolvers whose probe in this round is under way
  diagRound,  \* when the last round of diagnoses began
  diagnosing, \* resolvers whose diagnosis in this round is under way
  fault,      \* what is wrong on the way to a resolver that fails its probes
  gone,       \* history: when that last stopped being what is wrong
  fell,       \* history: when a resolver last went DOWN
  alert,      \* history: the last event reported of a resolver's health
  asked,      \* history: the queries sent, with the replies they got so far
  verdict     \* history: what the Store has counted for each of them

store     == <<upstream, pending, timedOut, recent, history, total>>
diagnosis == <<diagRound, diagnosing, fault, gone, fell>>
vars      == <<scenario, clock, swept, store, held, round, probing, diagnosis,
               alert, asked, verdict>>

Keys     == [port : scenario.ports, tag : scenario.tags]
Known    == DOMAIN upstream
Metas    == {"found", "unknown"}
Healths  == {"UNKNOWN", "UP", "DEGRADED", "DOWN"}
Fields   == {"requests", "responses", "late", "unmatched", "success", "errors",
             "timeouts", "fallbacks"}
Verdicts == {"request", "response", "timeout", "late"}
Never    == -1
\* The resolver itself, the route the policy gives it, or only the local proxy.
FaultKinds == {"UPSTREAM", "ROUTE", "LOCAL"}
NoPacket == [kind |-> "none"]

Zero         == [f \in Fields |-> 0]
Add(c, F, n) == [f \in DOMAIN c |-> IF f \in F THEN c[f] + n ELSE c[f]]
Bump(c, F)   == Add(c, F, 1)

NewUpstream(m) == [meta |-> m, count |-> Zero, health |-> "UNKNOWN",
                   fails |-> 0, observed |-> Never, ran |-> Never, cause |-> "UNKNOWN"]

EmptyBucket(n) == [minute |-> n, wire |-> Zero, cohort |-> [p \in Port |-> Zero]]

Put(f, k, v) == [x \in DOMAIN f \union {k} |-> IF x = k THEN v ELSE f[x]]
Drop(f, K)   == [x \in DOMAIN f \ K |-> f[x]]

Init ==
  /\ scenario \in Scenarios
  /\ clock = Minute /\ swept = Minute
  /\ upstream = [p \in scenario.ports |-> NewUpstream("found")]
  /\ pending = <<>> /\ timedOut = <<>>
  /\ recent = [m \in Metas |-> [n \in Name |-> {}]]
  /\ history = [i \in 0..(Buckets - 1) |-> EmptyBucket(0)]
  /\ total = Zero
  /\ held = NoPacket /\ round = 0 /\ probing = {}
  /\ diagRound = Minute /\ diagnosing = <<>>
  /\ fault \in [scenario.ports -> IF scenario.diagnoses THEN FaultKinds ELSE {"LOCAL"}]
  /\ gone = [p \in Port |-> [f \in FaultKinds |-> Never]]
  /\ fell = [p \in Port |-> Never]
  /\ alert = [p \in Port |-> "none"]
  /\ asked = <<>> /\ verdict = [i \in 1..scenario.queries |-> {}]

-----------------------------------------------------------------------------
(* The ring of minute buckets.                                             *)

MinuteOf(t) == t \div Minute
Slot(t)     == MinuteOf(t) % Buckets

\* historyBucketLocked: the buckets of the minutes of T, those that still hold
\* an older one emptied.  Times of T that share a bucket share a minute.
Opened(h, T) ==
  [i \in DOMAIN h |->
    IF \E t \in T : Slot(t) = i /\ h[i].minute # MinuteOf(t)
    THEN EmptyBucket(MinuteOf(CHOOSE t \in T : Slot(t) = i))
    ELSE h[i]]

\* What the router saw at t, and what became of the queries sent at t.
Wire(h, t, F)      == [Opened(h, {t}) EXCEPT ![Slot(t)].wire = Bump(@, F)]
Cohort(h, t, p, F) == [Opened(h, {t}) EXCEPT ![Slot(t)].cohort[p] = Bump(@, F)]

\* The sum of g(x) over the minutes x of S that the ring still holds.
SumOver(S, g(_)) ==
  Cardinality(UNION {{x} \X (1..g(history[x % Buckets])) :
                       x \in {x \in S : history[x % Buckets].minute = x}})

\* Mut... definitions are slips of the definition that follows them; each
\* is what one of the properties below is there to notice.
MutWindow(p, m, f) ==
  SumOver((MinuteOf(clock) - m)..MinuteOf(clock), LAMBDA b : b.cohort[p][f])

\* windowStatsLocked: a counter of resolver p over the last m minutes.
Window(p, m, f) ==
  SumOver((MinuteOf(clock) - m + 1)..MinuteOf(clock), LAMBDA b : b.cohort[p][f])

\* History: the points of a graph of the last m minutes, by their first
\* minute; none lies before the Store's start, and the last may be short.
History(m, f) ==
  LET now    == MinuteOf(clock)
      first  == IF now - m + 1 < MinuteOf(Minute) THEN MinuteOf(Minute) ELSE now - m + 1
      starts == {x \in first..now : (x - first) % StepOf[m] = 0}
  IN [x \in starts |-> SumOver({y \in x..(x + StepOf[m] - 1) : y <= now},
                               LAMBDA b : b.wire[f])]

-----------------------------------------------------------------------------
(* Shared by the handlers.                                                 *)

MutSettle(K) == pending

\* Queries that have had their outcome are no longer waited for.
Settle(K) == Drop(pending, K)

MutForget(k) == timedOut

\* One late reply uses the memory of its timeout up.
Forget(k) == Drop(timedOut, {k})

MutSince(q) == clock

\* An outcome belongs to the minute of its query, not to its own.
Since(q) == q.when

-----------------------------------------------------------------------------
(* The capture thread: it stamps a packet and looks its port up under the  *)
(* read lock, and takes the lock again to record it.                       *)

CaptureQuery(k, n) ==
  /\ held = NoPacket /\ Len(asked) < scenario.queries
  /\ asked' = Append(asked, [key |-> k, name |-> n, at |-> clock, replies |-> 0])
  /\ \/ held' = [kind |-> "query", key |-> k, name |-> n, at |-> clock,
                 query |-> Len(asked) + 1]
     \/ scenario.loss /\ held' = NoPacket
  /\ UNCHANGED <<scenario, clock, swept, store, round, probing, diagnosis, alert, verdict>>

\* A reply to the i-th query, perhaps a repeated one.
CaptureReply(i, good) ==
  /\ held = NoPacket /\ asked[i].replies < scenario.replies
  /\ asked' = [asked EXCEPT ![i].replies = @ + 1]
  /\ held' = IF asked[i].key.port \in Known
             THEN [kind |-> "reply", key |-> asked[i].key, good |-> good,
                   at |-> clock, query |-> i]
             ELSE NoPacket
  /\ UNCHANGED <<scenario, clock, swept, store, round, probing, diagnosis, alert, verdict>>

Counted(q, v) == verdict' = [verdict EXCEPT ![q] = @ \union {v}]

Recorded ==
  /\ held' = NoPacket
  /\ UNCHANGED <<scenario, clock, swept, round, probing, diagnosis, asked>>

Profile(p) == IF p \in Known THEN upstream[p].meta ELSE "unknown"

\* The same question, asked of the same profile within RecentKeep.
SeenLately ==
  {r \in recent[Profile(held.key.port)][held.name] : held.at - r.when <= RecentKeep}

\* Those sent to another resolver, still unanswered and of the right age.
FallbackSources ==
  {r \in SeenLately :
    /\ r.key.port # held.key.port /\ r.key \in DOMAIN pending
    /\ held.at - r.when \in FallbackFrom..FallbackTo}

\* The latest of them; queries are recorded in the order of their numbers.
FallbackSource ==
  CHOOSE r \in FallbackSources : \A o \in FallbackSources : o.query <= r.query

RecordQuery ==
  LET p     == held.key.port
      t     == held.at
      st    == IF p \in Known THEN upstream[p] ELSE NewUpstream("unknown")
      known == Put(upstream, p, [st EXCEPT !.count = Bump(@, {"requests"})])
      h     == Cohort(Wire(history, t, {"requests"}), t, p, {"requests"})
      from  == FallbackSource
  IN /\ held.kind = "query"
     /\ pending' = Put(pending, held.key,
                       [query |-> held.query, name |-> held.name, when |-> t])
     /\ recent' = [recent EXCEPT ![Profile(p)][held.name] =
                     SeenLately \union
                       {[when |-> t, key |-> held.key, query |-> held.query]}]
     /\ \/ /\ FallbackSources = {}
           /\ upstream' = known /\ history' = h
           /\ total' = Bump(total, {"requests"})
        \/ /\ FallbackSources # {}
           /\ upstream' =
                IF from.key.port \in Known
                THEN [known EXCEPT ![from.key.port].count = Bump(@, {"fallbacks"})]
                ELSE known
           /\ history' = Cohort(Wire(h, t, {"fallbacks"}),
                                from.when, from.key.port, {"fallbacks"})
           /\ total' = Bump(total, {"requests", "fallbacks"})
     /\ alert' = IF p \in Known THEN alert ELSE [alert EXCEPT ![p] = "none"]
     /\ Counted(held.query, "request")
     /\ Recorded /\ UNCHANGED timedOut

\* The reply's resolver is gone.
ReplyIgnored ==
  /\ held.kind = "reply" /\ held.key.port \notin Known
  /\ Recorded /\ UNCHANGED <<store, alert, verdict>>

\* Its query has already been declared TIMEOUT.
ReplyLate ==
  LET p == held.key.port
      k == held.key
  IN /\ held.kind = "reply" /\ p \in Known /\ k \in DOMAIN timedOut
     /\ timedOut' = Forget(k)
     /\ upstream' = [upstream EXCEPT ![p].count = Bump(@, {"late"})]
     /\ total' = Bump(total, {"late"})
     /\ history' = Cohort(Wire(history, held.at, {"late"}),
                          Since(timedOut[k]), p, {"late"})
     /\ Counted(held.query, "late")
     /\ Recorded /\ UNCHANGED <<pending, recent, alert>>

\* A duplicate, or the query was not seen.
ReplyUnmatched ==
  LET p == held.key.port IN
  /\ held.kind = "reply" /\ p \in Known
  /\ held.key \notin DOMAIN timedOut \union DOMAIN pending
  /\ upstream' = [upstream EXCEPT ![p].count = Bump(@, {"unmatched"})]
  /\ total' = Bump(total, {"unmatched"})
  /\ Recorded
  /\ UNCHANGED <<pending, timedOut, recent, history, alert, verdict>>

\* A good answer (NOERROR or NXDOMAIN) proves the resolver up.
Answered(st) ==
  [st EXCEPT !.observed = held.at, !.health = "UP", !.fails = 0]

MutRecovered(p, st) == [alert EXCEPT ![p] = st.health]

Recovered(p, st) ==
  IF st.health = "DOWN" THEN [alert EXCEPT ![p] = "RECOVERED"] ELSE alert

ReplyMatched ==
  LET p    == held.key.port
      k    == held.key
      what == IF held.good THEN "success" ELSE "errors"
      st   == [upstream[p] EXCEPT !.count = Bump(@, {"responses", what})]
  IN /\ held.kind = "reply" /\ p \in Known
     /\ k \in DOMAIN pending \ DOMAIN timedOut
     /\ pending' = Settle({k})
     /\ total' = Bump(total, {"responses"})
     /\ history' = Cohort(Wire(history, held.at, {"responses", what}),
                          Since(pending[k]), p, {"responses", what})
     /\ \/ /\ held.good
           /\ upstream' = [upstream EXCEPT ![p] = Answered(st)]
           /\ alert' = Recovered(p, upstream[p])
        \/ /\ ~held.good
           /\ upstream' = [upstream EXCEPT ![p] = st]
           /\ UNCHANGED alert
     /\ Counted(pending[k].query, "response")
     /\ Recorded /\ UNCHANGED <<timedOut, recent>>

-----------------------------------------------------------------------------
(* CleanupTransient, every SweepEvery ticks.                               *)

Limit(p) ==
  IF p \in Known /\ upstream[p].meta = "found" THEN TimeoutLimit ELSE DefaultLimit

Overdue == {k \in DOMAIN pending : clock - pending[k].when > Limit(k.port)}

MutExpired == {}

\* Late replies are recognised for a while; then the key is free.
Expired == {k \in DOMAIN timedOut : clock - timedOut[k].at > LateKeep}

\* The timeouts of resolvers the Store still knows are counted, each in the
\* minute of its query.
CleanupTransient ==
  LET counted == {k \in Overdue : k.port \in Known}
      of(p)   == {k \in counted : k.port = p}
      late    == [k \in Overdue |->
                   [query |-> pending[k].query, when |-> pending[k].when,
                    at |-> clock]]
      h       == Opened(history, {clock} \union {Since(pending[k]) : k \in counted})
  IN /\ \/ counted = {} /\ UNCHANGED <<upstream, total, history>>
        \/ /\ counted # {}
           /\ upstream' = [p \in Known |->
                [upstream[p] EXCEPT !.count = Add(@, {"timeouts"}, Cardinality(of(p)))]]
           /\ total' = Add(total, {"timeouts"}, Cardinality(counted))
           /\ history' = [i \in DOMAIN h |->
                [minute |-> h[i].minute,
                 wire   |-> IF i = Slot(clock)
                            THEN Add(h[i].wire, {"timeouts", "errors"}, Cardinality(counted))
                            ELSE h[i].wire,
                 cohort |-> [p \in Port |-> Add(h[i].cohort[p], {"timeouts"},
                              Cardinality({k \in of(p) : Slot(Since(pending[k])) = i}))]]]
     /\ pending' = Settle(Overdue)
     /\ timedOut' = [k \in (DOMAIN timedOut \ Expired) \union Overdue |->
                      IF k \in Overdue THEN late[k] ELSE timedOut[k]]
     /\ recent' = [m \in Metas |-> [n \in Name |->
            {r \in recent[m][n] : clock - r.when <= RecentKeep}]]
     /\ verdict' = [i \in DOMAIN verdict |->
            IF \E k \in Overdue : pending[k].query = i
            THEN verdict[i] \union {"timeout"} ELSE verdict[i]]
     /\ swept' = clock
     /\ UNCHANGED <<scenario, clock, held, round, probing, diagnosis, alert, asked>>

-----------------------------------------------------------------------------
(* Discovery and health.                                                   *)

\* Discovery found the ports S: known ones keep their counters.
UpdateDiscovery(S) ==
  /\ scenario.churn /\ S # Known
  /\ upstream' = [p \in S |->
       IF p \in Known THEN [upstream[p] EXCEPT !.meta = "found"]
                      ELSE NewUpstream("found")]
  /\ alert' = [p \in Port |-> IF p \in S \intersect Known THEN alert[p] ELSE "none"]
  /\ UNCHANGED <<scenario, clock, swept, pending, timedOut, recent, history, total,
                 held, round, probing, diagnosis, asked, verdict>>

\* A round probes every resolver of one snapshot and waits for all of them.
StartProbes ==
  /\ scenario.probes /\ probing = {} /\ clock - round >= ProbeEvery
  /\ probing' = Known /\ round' = clock
  /\ UNCHANGED <<scenario, clock, swept, store, held, diagnosis, alert, asked, verdict>>

Shielded(st) == st.observed # Never /\ clock - st.observed <= Shield

MutProbed(st, ok) ==
  IF ok THEN [st EXCEPT !.health = "UP", !.fails = 0]
  ELSE [st EXCEPT !.fails = @ + 1,
          !.health = IF st.fails > 0 THEN "DOWN" ELSE "DEGRADED"]

\* SetHealth: recent live traffic outweighs a failing probe.
Probed(st, ok) ==
  IF ok THEN [st EXCEPT !.health = "UP", !.fails = 0]
  ELSE [st EXCEPT !.fails = @ + 1,
          !.health = IF Shielded(st) THEN "UP"
                     ELSE IF st.fails > 0 THEN "DOWN" ELSE "DEGRADED"]

\* A resolver that goes DOWN also counts as one error of the minute.
SetHealth(p, ok) ==
  /\ p \in probing
  /\ probing' = probing \ {p}
  /\ \/ /\ p \in Known
        /\ LET st   == Probed(upstream[p], ok)
               drop == st.health = "DOWN" /\ upstream[p].health # "DOWN"
           IN /\ upstream' = [upstream EXCEPT ![p] = st]
              /\ history' = IF drop THEN Wire(history, clock, {"errors"}) ELSE history
              /\ fell' = IF drop THEN [fell EXCEPT ![p] = clock] ELSE fell
              /\ alert' = IF drop THEN [alert EXCEPT ![p] = "DOWN"]
                          ELSE IF ok THEN Recovered(p, upstream[p]) ELSE alert
     \/ p \notin Known /\ UNCHANGED <<upstream, history, fell, alert>>
  /\ UNCHANGED <<scenario, clock, swept, pending, timedOut, recent, total, held,
                 round, diagRound, diagnosing, fault, gone, asked, verdict>>

MutCandidate(p) == upstream[p].health = "DOWN" /\ upstream[p].ran = Never

\* DiagnosticCandidates: DOWN, and not diagnosed lately.
Candidate(p) ==
  /\ upstream[p].health = "DOWN"
  /\ upstream[p].ran # Never => clock - upstream[p].ran >= DiagKeep

\* A query to the local proxy; its answer, an error or its silence decide.
CheckOne(p) == \E ok \in BOOLEAN : SetHealth(p, ok)

\* diagnosticLoop: a round takes the candidates and ends when all are done.
StartDiagnoses ==
  /\ scenario.diagnoses /\ diagnosing = <<>> /\ clock - diagRound >= DiagEvery
  /\ diagRound' = clock
  /\ diagnosing' = [p \in {p \in Known : Candidate(p)} |-> "bound"]
  /\ UNCHANGED <<scenario, clock, swept, store, held, round, probing, fault, gone,
                    fell, alert, asked, verdict>>

\* SetDiagnostic: whatever resolver the port has by then gets the result.
Diagnosed(p, found) ==
  /\ diagnosing' = Drop(diagnosing, {p})
  /\ \/ /\ p \in Known
        /\ \E t \in diagRound..clock :
             upstream' = [upstream EXCEPT ![p].ran = t, ![p].cause = found]
     \/ p \notin Known /\ UNCHANGED upstream

\* healthCause of a direct query that succeeds: the resolver answers over the
\* route it is bound to, or only over the default one.
Cause(step) == IF step = "bound" THEN "LOCAL" ELSE "ROUTE"

\* Whether the resolver answers a query sent to it directly: it does unless
\* its name, a connection, the handshake or the answer itself fails.
DiagnoseOnce(p, step) ==
  \/ fault[p] = "LOCAL"
  \/ fault[p] = "ROUTE" /\ (step = "plain" \/ RouteOf[p] = "default")

\* diagnoseUpstream asks the resolver itself, over the route it is bound to
\* and, if that fails, over the default one.
DiagnoseUpstream(p) ==
  /\ p \in DOMAIN diagnosing
  /\ LET step  == diagnosing[p]
         works == DiagnoseOnce(p, step)
     IN \/ works /\ Diagnosed(p, Cause(step))
        \/ /\ ~works /\ step = "bound" /\ RouteOf[p] = "own"
           /\ diagnosing' = [diagnosing EXCEPT ![p] = "plain"]
           /\ UNCHANGED upstream
        \/ ~works /\ (step = "plain" \/ RouteOf[p] = "default") /\ Diagnosed(p, "UPSTREAM")
  /\ UNCHANGED <<scenario, clock, swept, pending, timedOut, recent, history, total,
                 held, round, probing, diagRound, fault, gone, fell, alert, asked,
                 verdict>>

\* Something else breaks.
FaultMoves(p, f) ==
  /\ fault[p] # f
  /\ Cardinality({g \in FaultKinds : gone[p][g] # Never}) < scenario.breaks
  /\ fault' = [fault EXCEPT ![p] = f]
  /\ gone' = [gone EXCEPT ![p][fault[p]] = clock]
  /\ UNCHANGED <<scenario, clock, swept, store, held, round, probing, diagRound,
                 diagnosing, fell, alert, asked, verdict>>

\* The tickers are not late and a packet is not held up for more than a tick.
Tick ==
  /\ clock < scenario.time
  /\ clock - swept < SweepEvery
  /\ held # NoPacket => held.at = clock
  /\ scenario.diagnoses =>
       clock - diagRound < IF diagnosing = <<>> THEN DiagEvery ELSE DiagTime
  /\ clock' = clock + 1
  /\ UNCHANGED <<scenario, swept, store, held, round, probing, diagnosis, alert,
                 asked, verdict>>

-----------------------------------------------------------------------------
Capture ==
  \/ \E k \in Keys, n \in Name : CaptureQuery(k, n)
  \/ \E i \in 1..Len(asked), good \in BOOLEAN : CaptureReply(i, good)

Record ==
  \/ RecordQuery
  \/ ReplyIgnored \/ ReplyLate \/ ReplyUnmatched \/ ReplyMatched

\* The threads that look after the resolvers.
Watch ==
  \/ \E S \in SUBSET scenario.ports : UpdateDiscovery(S)
  \/ StartProbes
  \/ \E p \in scenario.ports : CheckOne(p)
  \/ StartDiagnoses
  \/ \E p \in scenario.ports : DiagnoseUpstream(p)
  \/ \E p \in scenario.ports, f \in FaultKinds : FaultMoves(p, f)

Next == Capture \/ Record \/ CleanupTransient \/ Watch \/ Tick

Spec == Init /\ [][Next]_vars

-----------------------------------------------------------------------------
(* Properties.                                                             *)

Times    == 0..scenario.time
Numbers  == 1..scenario.queries
Counters == [Fields -> Nat]

\* A query that was sent, the state of a resolver, a minute of the history
\* and a stamped packet.
Questions == [key : Keys, name : Name, at : Times, replies : 0..scenario.replies]
Upstreams ==
  [meta : Metas, count : Counters, health : Healths, fails : Nat,
   observed : Times \union {Never}, ran : Times \union {Never},
   cause : FaultKinds \union {"UNKNOWN"}]
BucketsOf == [minute : Nat, wire : Counters, cohort : [Port -> Counters]]
Packets ==
  [kind : {"query"}, key : Keys, name : Name, at : Times, query : Numbers]
    \union [kind : {"reply"}, key : Keys, good : BOOLEAN, at : Times, query : Numbers]

TypeOK ==
  /\ scenario \in Scenarios
  /\ clock \in Times /\ swept \in Times /\ round \in Times /\ diagRound \in Times
  /\ Known \subseteq scenario.ports /\ upstream \in [Known -> Upstreams]
  /\ DOMAIN pending \subseteq Keys
  /\ pending \in [DOMAIN pending -> [query : Numbers, name : Name, when : Times]]
  /\ DOMAIN timedOut \subseteq Keys
  /\ timedOut \in [DOMAIN timedOut -> [query : Numbers, when : Times, at : Times]]
  /\ recent \in [Metas -> [Name -> SUBSET [when : Times, key : Keys, query : Numbers]]]
  /\ history \in [0..(Buckets - 1) -> BucketsOf]
  /\ total \in Counters
  /\ held \in Packets \union {NoPacket}
  /\ probing \subseteq scenario.ports
  /\ DOMAIN diagnosing \subseteq scenario.ports
  /\ diagnosing \in [DOMAIN diagnosing -> {"bound", "plain"}]
  /\ fault \in [scenario.ports -> FaultKinds]
  /\ gone \in [Port -> [FaultKinds -> Times \union {Never}]]
  /\ fell \in [Port -> Times \union {Never}]
  /\ alert \in [Port -> {"none", "DOWN", "RECOVERED"}]
  /\ asked \in Seq(Questions)
  /\ Len(asked) <= scenario.queries
  /\ verdict \in [Numbers -> SUBSET Verdicts]

\* The queries sent to p in bucket b that the Store is still waiting for.
Waiting(b, p) ==
  {k \in DOMAIN pending : k.port = p /\ MinuteOf(pending[k].when) = b.minute}

Remembered(b, p) ==
  {k \in DOMAIN timedOut : k.port = p /\ MinuteOf(timedOut[k].when) = b.minute}

\* A resolver's minute never shows an answer or a timeout without its
\* request: what was sent in it covers what came of it and what is still
\* pending, through reused keys, lost and repeated packets, resolvers that
\* come and go, and the wrapping of the ring.
CohortBalance ==
  \A i \in DOMAIN history, p \in Port :
    LET b == history[i]
        c == b.cohort[p]
    IN /\ c.requests >= c.responses + c.timeouts + Cardinality(Waiting(b, p))
       /\ c.responses = c.success + c.errors

\* While the set of resolvers stays the same, a minute never shows more late
\* replies than timeouts.
LateBalance ==
  ~scenario.churn => \A i \in DOMAIN history, p \in Port :
    LET b == history[i]
        c == b.cohort[p]
    IN c.timeouts >= c.late + Cardinality(Remembered(b, p))

\* The requests a quality window shows are exactly those of its minutes, for
\* every window the ring can hold, and so are those of a graph's points.
WindowExact ==
  \A m \in 1..Buckets :
    LET recorded == {i \in 1..Len(asked) :
                      /\ "request" \in verdict[i]
                      /\ MinuteOf(asked[i].at) > MinuteOf(clock) - m}
        points   == History(m, "requests")
    IN /\ \A p \in Port :
            Window(p, m, "requests") =
              Cardinality({i \in recorded : asked[i].key.port = p})
       /\ \A i \in recorded : \E x \in DOMAIN points : MinuteOf(asked[i].at) >= x
       /\ \A x \in DOMAIN points :
            points[x] = Cardinality({i \in recorded :
              /\ MinuteOf(asked[i].at) >= x
              /\ x + StepOf[m] \in DOMAIN points => MinuteOf(asked[i].at) < x + StepOf[m]})

\* No query is counted both as answered and as timed out.
OneVerdict == \A i \in DOMAIN verdict : ~({"response", "timeout"} \subseteq verdict[i])

\* The account of the resolvers: a query is counted once, has one outcome, and
\* both are in the same minute's figures.
Accounted == CohortBalance /\ LateBalance /\ OneVerdict

\* Nothing is kept for longer than its limit and two periods of the ticker,
\* so the maps that packets fill cannot grow without bound.
Prompt ==
  /\ \A k \in DOMAIN pending :
       clock - pending[k].when <= 2 + SweepEvery
         + IF TimeoutLimit > DefaultLimit THEN TimeoutLimit ELSE DefaultLimit
  /\ \A k \in DOMAIN timedOut : clock - timedOut[k].at <= LateKeep + SweepEvery + 1

\* A resolver is reported DOWN exactly while it is held to be, its last good
\* answer lies further back than Shield, and every DOWN that ends is reported.
DownIsAnnounced ==
  \A p \in Known :
    /\ (upstream[p].health = "DOWN") = (alert[p] = "DOWN")
    /\ upstream[p].health = "DOWN" => ~Shielded(upstream[p])

\* One of F is what is wrong with p, or was at most n ticks ago.
WasWrong(p, F, n) ==
  \E f \in F : fault[p] = f \/ (gone[p][f] # Never /\ clock - gone[p][f] <= n)

\* A resolver that stays DOWN is diagnosed, and diagnosed again: once it has
\* been DOWN for a while, the cause it shows is one that was there not long
\* ago.  Either it was not to be reached at all, or it answered directly, over
\* its own route if only the local proxy is blamed.
CauseIsRecent ==
  \A p \in Known :
    LET lag == DiagTime + IF DiagEvery > DiagTime THEN DiagEvery ELSE DiagTime IN
    scenario.diagnoses /\ upstream[p].health = "DOWN" /\ clock - fell[p] > lag
      => /\ upstream[p].cause # "UNKNOWN"
         /\ WasWrong(p, CASE upstream[p].cause = "UPSTREAM" -> {"UPSTREAM"}
                          [] upstream[p].cause = "ROUTE" -> {"ROUTE", "LOCAL"}
                          [] upstream[p].cause = "LOCAL" /\ RouteOf[p] = "own" -> {"LOCAL"}
                          [] OTHER -> {"ROUTE", "LOCAL"},
                     DiagKeep + lag)

\* Only "a response that arrives after the query was already declared
\* TIMEOUT" is late (RecordResponse): the reply to the very query the Store
\* is still waiting for is not.
LateIsAfterTimeout ==
  [][(held.kind = "reply" /\ held' = NoPacket /\ held.key \in DOMAIN pending =>
       (pending[held.key].query = held.query =>
          "late" \notin verdict'[held.query]))]_vars
=============================================================================
