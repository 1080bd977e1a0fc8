------------------------------ MODULE PlainDNS ------------------------------
(***************************************************************************)
(* The DNS module's tracker of plain resolvers: what it counts of the      *)
(* queries the router itself sends to the configured resolvers on port 53. *)
(* A client of the router may ask the same resolver directly.  Its query   *)
(* passes the capture twice, coming in and, behind NAT, going out; the     *)
(* tracker marks the first so as not to count the second.                  *)
(*                                                                         *)
(* One thread captures and records packets, a ticker sweeps, and the       *)
(* discovery thread replaces the set of resolvers; the tracker's lock      *)
(* makes each call one step.  Time is counted in ticks.                    *)
(***************************************************************************)
EXTENDS Integers, Sequences, FiniteSets

CONSTANTS
  Resolver,    \* endpoints: address and port
  Local,       \* local ports; UDP and TCP share nothing, one of them is modelled
  Id,          \* DNS ids
  Question,    \* names with their types
  Timeout,     \* plainDNSTimeout
  Suppress,    \* plainDNSForwardSuppress
  Duplicate,   \* age up to which the same query is taken for the same frame
  SweepEvery,  \* the ticker's period
  Transit,     \* a packet leaves the router within this time or not at all
  Scenarios    \* what may happen in a behaviour, and how much of it

ASSUME PlainAssumption ==
  /\ {Suppress, Duplicate, Transit} \subseteq Nat
  /\ {Timeout, SweepEvery} \subseteq Nat \ {0}
  \* The resolvers discovery may find, the local ports, whether a frame may
  \* be captured twice, be missed or dropped, whether discovery may change
  \* its mind, and bounds on the time, the queries and the replies to each.
  /\ Scenarios \subseteq
       [resolvers : SUBSET Resolver, locals : SUBSET Local, twice : BOOLEAN,
        loss : BOOLEAN, churn : BOOLEAN, time : Nat, queries : Nat, replies : Nat]
  /\ Transit <= Suppress

VARIABLES
  scenario,   \* one of Scenarios, from the start
  clock,
  swept,      \* when the ticker last ran
  count,      \* the known resolvers' counters
  pending,    \* queries without an answer, by key
  forwarded,  \* the marks: queries of clients on their way through
  asked       \* environment: every query sent, and the frames it caused

tracker == <<count, pending, forwarded>>
vars    == <<scenario, clock, swept, tracker, asked>>

Keys   == [resolver : Resolver, local : Local, id : Id]
Marks  == [resolver : Resolver, id : Id, question : Question]
Fields == {"requests", "responses", "errors", "nxdomain", "timeouts"}
RCodes == {"NOERROR", "NXDOMAIN", "SERVFAIL"}
Known  == DOMAIN count
Zero   == [f \in Fields |-> 0]

Bump(r, F)   == [f \in Fields |-> IF f \in F THEN r[f] + 1 ELSE r[f]]
Put(f, k, v) == [x \in DOMAIN f \union {k} |-> IF x = k THEN v ELSE f[x]]
Drop(f, K)   == [x \in DOMAIN f \ K |-> f[x]]

Init ==
  /\ scenario \in Scenarios
  /\ clock = 0 /\ swept = 0
  /\ count = [r \in scenario.resolvers |-> Zero]
  /\ pending = <<>> /\ forwarded = <<>> /\ asked = <<>>

-----------------------------------------------------------------------------
(* Frames.                                                                 *)

MarkOf(k, q) == [resolver |-> k.resolver, id |-> k.id, question |-> q]

MutMarked(m) == Put(forwarded, m, [at |-> clock, left |-> 1])

\* ObserveDirectClientQuery: one more query to expect on its way out.
Marked(m) ==
  Put(forwarded, m,
      [at |-> clock,
       left |-> 1 + IF m \in DOMAIN forwarded THEN forwarded[m].left ELSE 0])

Suppressed(m) ==
  /\ m \in DOMAIN forwarded
  /\ clock - forwarded[m].at <= Suppress

MutSpent(m) == [forwarded EXCEPT ![m].left = @ - 1]

\* A mark is good for as many frames as queries have set it.
Spent(m) ==
  IF forwarded[m].left = 1 THEN Drop(forwarded, {m})
  ELSE [forwarded EXCEPT ![m].left = @ - 1]

Repeats(k, q) ==
  /\ k \in DOMAIN pending
  /\ pending[k].question = q
  /\ clock - pending[k].at <= Duplicate

\* RecordQuery, on a frame of the i-th query that leaves the router.
RecordQuery(i, k, q) ==
  \/ k.resolver \notin Known /\ UNCHANGED tracker
  \/ /\ k.resolver \in Known /\ Suppressed(MarkOf(k, q))
     /\ forwarded' = Spent(MarkOf(k, q))
     /\ UNCHANGED <<count, pending>>
  \/ /\ k.resolver \in Known /\ ~Suppressed(MarkOf(k, q)) /\ Repeats(k, q)
     /\ UNCHANGED tracker
  \/ /\ k.resolver \in Known /\ ~Suppressed(MarkOf(k, q)) /\ ~Repeats(k, q)
     /\ pending' = Put(pending, k, [query |-> i, question |-> q, at |-> clock])
     /\ count' = [count EXCEPT ![k.resolver] = Bump(@, {"requests"})]
     /\ UNCHANGED forwarded

Ask(from, k, q, frames) ==
  /\ Len(asked) < scenario.queries
  /\ asked' = Append(asked, [from |-> from, key |-> k, question |-> q,
                             at |-> clock, frames |-> frames, replies |-> 0])

\* The router's DNS proxy asks.
RouterAsks(k, q) ==
  /\ Ask("router", k, q, 1)
  /\ \/ RecordQuery(Len(asked) + 1, k, q)
     \/ scenario.loss /\ UNCHANGED tracker
  /\ UNCHANGED <<clock, swept>>

\* A client's query comes in; k is the key it will have once it goes out.
ClientAsks(k, q) ==
  /\ Ask("client", k, q, 0)
  /\ \/ k.resolver \in Known /\ forwarded' = Marked(MarkOf(k, q))
     \/ (k.resolver \notin Known \/ scenario.loss) /\ UNCHANGED forwarded
  /\ UNCHANGED <<clock, swept, count, pending>>

\* A query goes out: a client's for the first time, or the same frame again.
Egress(i) ==
  LET a == asked[i] IN
  /\ a.frames < (IF scenario.twice THEN 2 ELSE 1)
  /\ clock - a.at <= Transit
  /\ asked' = [asked EXCEPT ![i].frames = @ + 1]
  /\ RecordQuery(i, a.key, a.question)
  /\ UNCHANGED <<clock, swept>>

Answered(rcode) == {"responses"} \union
  CASE rcode = "NOERROR"  -> {}
    [] rcode = "NXDOMAIN" -> {"nxdomain"}
    [] OTHER              -> {"errors"}

\* RecordResponse, on a reply to the i-th query, perhaps a repeated one.
RecordResponse(i, rcode) ==
  LET k == asked[i].key IN
  /\ asked[i].frames > 0 /\ asked[i].replies < scenario.replies
  /\ asked' = [asked EXCEPT ![i].replies = @ + 1]
  /\ \/ /\ k.resolver \in Known /\ k \in DOMAIN pending
        /\ pending' = Drop(pending, {k})
        /\ count' = [count EXCEPT ![k.resolver] = Bump(@, Answered(rcode))]
     \/ /\ k.resolver \notin Known \/ k \notin DOMAIN pending \/ scenario.loss
        /\ UNCHANGED <<count, pending>>
  /\ UNCHANGED <<clock, swept, forwarded>>

-----------------------------------------------------------------------------
(* The ticker and discovery.                                               *)

MutOverdue == {k \in DOMAIN pending : clock - pending[k].at > Timeout}

Overdue == {k \in DOMAIN pending : clock - pending[k].at >= Timeout}

Sweep ==
  /\ pending' = Drop(pending, Overdue)
  /\ count' = [r \in Known |->
       [count[r] EXCEPT !.timeouts =
          @ + Cardinality({k \in Overdue : k.resolver = r})]]
  /\ forwarded' = Drop(forwarded,
       {m \in DOMAIN forwarded : clock - forwarded[m].at > Suppress})
  /\ swept' = clock
  /\ UNCHANGED <<clock, asked>>

MutOrphaned(S) == {}

\* What was asked of a resolver that is no longer configured is forgotten.
Orphaned(S) == {k \in DOMAIN pending : k.resolver \notin S}

\* UpdateResolvers: resolvers that stay keep their counters.
UpdateResolvers(S) ==
  /\ scenario.churn /\ S # Known
  /\ count' = [r \in S |-> IF r \in Known THEN count[r] ELSE Zero]
  /\ pending' = Drop(pending, Orphaned(S))
  /\ UNCHANGED <<clock, swept, forwarded, asked>>

\* The ticker is never a whole period late.
Tick ==
  /\ clock < scenario.time
  /\ clock - swept < SweepEvery
  /\ clock' = clock + 1
  /\ UNCHANGED <<swept, tracker, asked>>

Next ==
  /\ \/ \E k \in Keys, q \in Question :
          /\ k.resolver \in scenario.resolvers /\ k.local \in scenario.locals
          /\ RouterAsks(k, q) \/ ClientAsks(k, q)
     \/ \E i \in 1..Len(asked) :
          Egress(i) \/ \E rcode \in RCodes : RecordResponse(i, rcode)
     \/ Sweep
     \/ \E S \in SUBSET scenario.resolvers : UpdateResolvers(S)
     \/ Tick
  /\ UNCHANGED scenario

Spec == Init /\ [][Next]_vars

-----------------------------------------------------------------------------
(* Properties.                                                             *)

Times == 0..scenario.time

\* The shapes of the tracker's maps; a mark always has something left.
TypeOK ==
  /\ scenario \in Scenarios
  /\ clock \in Times /\ swept \in Times
  /\ Known \subseteq Resolver
  /\ \A r \in Known : count[r] \in [Fields -> Nat]
  /\ DOMAIN pending \subseteq Keys
  /\ \A k \in DOMAIN pending :
       pending[k] \in [query : 1..scenario.queries, question : Question, at : Times]
  /\ DOMAIN forwarded \subseteq Marks
  /\ \A m \in DOMAIN forwarded : forwarded[m] \in [at : Times, left : Nat \ {0}]
  /\ asked \in Seq([from : {"router", "client"}, key : Keys, question : Question,
                    at : Times, frames : 0..2, replies : Nat])

\* A resolver never shows more answers and timeouts than requests, counting
\* what is still open: also when discovery drops it and finds it again with
\* fresh counters while its old replies are under way, and when a key is used
\* again.
Balance ==
  \A r \in Known :
    LET c == count[r] IN
    /\ c.requests >= c.responses + c.timeouts
                       + Cardinality({k \in DOMAIN pending : k.resolver = r})
    /\ c.responses >= c.errors + c.nxdomain

\* A query that was not answered is a timeout soon after its limit: the
\* ticker leaves nothing behind.
Prompt ==
  \A k \in DOMAIN pending : clock - pending[k].at < Timeout + SweepEvery

\* "the marker prevents that forwarded client flow from being miscounted as a
\* router DNS-proxy upstream query" (ObserveDirectClientQuery): whatever
\* clients ask of the same resolvers, no more requests are counted than the
\* router itself has sent.
OnlyOwnQueries ==
  \A r \in Known :
    count[r].requests <=
      Cardinality({i \in 1..Len(asked) :
                     asked[i].from = "router" /\ asked[i].key.resolver = r})

\* The same, as long as every frame is captured exactly once and discovery
\* does not add a resolver between a client's query coming in and going out.
OwnWhenSeenOnce ==
  ~(scenario.twice \/ scenario.loss \/ scenario.churn) => OnlyOwnQueries
=============================================================================
