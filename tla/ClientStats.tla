----------------------------- MODULE ClientStats -----------------------------
(***************************************************************************)
(* The client side of the DNS module's Store, together with its resolver   *)
(* side: what becomes of the queries that the devices in the home network  *)
(* send to the router.  A second thread captures them, and the answers to  *)
(* them, on the router's interfaces.  The Store links a client's query to  *)
(* the query to a resolver it seems to have caused, which the loopback     *)
(* thread reports, and charges the device with what comes of that.         *)
(*                                                                         *)
(* A client's query is told by its address, DNS id and question; the       *)
(* transport, which is part of every key, is left out, and so is what is   *)
(* only shown: latencies, top domains, resolver names and the event ring.  *)
(***************************************************************************)
EXTENDS ResolverStats

CONSTANTS
  Ip,            \* addresses of the home network
  Mac,           \* its devices
  Hosts,         \* which device may ask from which address, with which id
  Registries,    \* what the router may say of addresses and policies
  DedupWithin,   \* age below which a packet counts as a copy; 250 ms
  DedupKeep,     \* how long packets are remembered for that; 10 seconds
  MatchKeep,     \* age up to which a query may have caused another; 2 seconds
  ClientLimit,   \* age at which a client's query times out; 10 seconds
  ResponseLimit  \* age up to which an answer to it counts; 15 seconds

\* The profile of the resolvers that discovery finds is called "found" here,
\* and a device's policy is that or another one.
ASSUME ClientAssumption ==
  /\ Hosts \subseteq [ip : Ip, mac : Mac, id : Tag]
  /\ \A r \in Registries :
       DOMAIN r \subseteq Ip /\ \A a \in DOMAIN r :
         r[a] \in [mac : Mac, policy : {"found", "other"}]
  /\ {DedupWithin, DedupKeep, MatchKeep, ClientLimit, ResponseLimit} \subseteq Nat

VARIABLES
  registry,   \* what the router said of its addresses when last asked
  device,     \* counters, by device
  txn,        \* the clients' queries the Store took in
  recentTxn,  \* those an upstream query may be linked to
  waitingTxn, \* those without an outcome
  txnOf,      \* the client's query an upstream query is linked to, or 0
  heardQ,     \* when a query of a client was last taken in
  heardR,     \* when an answer was
  inbox,      \* the packets of the client capture thread, stamped
  sent,       \* history: the queries clients sent
  cause,      \* history: the one behind an upstream query, or 0
  open        \* history: what an upstream query could have been linked to

clientStore == <<registry, device, txn, recentTxn, waitingTxn, txnOf, heardQ, heardR>>
clientWorld == <<inbox, sent, cause, open>>
clientVars  == <<clientStore, clientWorld>>
allVars     == <<vars, clientVars>>

Txns == DOMAIN txn

DeviceFields == {"requests", "matched", "forwarded", "local", "responses", "errors",
                 "timeouts", "upErrors", "upTimeouts", "fallbacks"}
Outcomes     == {"FORWARDED", "CACHE_LOCAL", "ERROR", "CLIENT_TIMEOUT"}

Charge(d, m, F) == [d EXCEPT ![m] = Bump(@, F)]

ClientInit ==
  /\ Init
  /\ registry = <<>>
  /\ device = [m \in Mac |-> [f \in DeviceFields |-> 0]]
  /\ txn = <<>> /\ recentTxn = {} /\ waitingTxn = {}
  /\ txnOf = [i \in 1..scenario.queries |-> 0]
  /\ heardQ = <<>> /\ heardR = <<>>
  /\ inbox = <<>> /\ sent = <<>>
  /\ cause = [i \in 1..scenario.queries |-> 0]
  /\ open = [i \in 1..scenario.queries |-> {}]

-----------------------------------------------------------------------------
(* The client capture thread.                                              *)

\* A client asks.
ClientAsks(host, n) ==
  /\ Len(sent) < scenario.clients
  /\ sent' = Append(sent, [ip |-> host.ip, id |-> host.id, name |-> n, answers |-> 0])
  /\ inbox' = Append(inbox, [kind |-> "query", ip |-> host.ip, mac |-> host.mac,
                             id |-> host.id, name |-> n, ask |-> Len(sent) + 1, at |-> clock])
  /\ UNCHANGED <<vars, clientStore, cause, open>>

\* The router answers it, from wherever.
ClientIsAnswered(a, good) ==
  /\ sent[a].answers < scenario.answers
  /\ sent' = [sent EXCEPT ![a].answers = @ + 1]
  /\ inbox' = Append(inbox, [kind |-> "answer", ip |-> sent[a].ip, id |-> sent[a].id,
                             name |-> sent[a].name, good |-> good, at |-> clock])
  /\ UNCHANGED <<vars, clientStore, cause, open>>

IsCopy(heard, key, t) == key \in DOMAIN heard /\ t - heard[key] < DedupWithin

DropClientPacket ==
  LET p == Head(inbox) IN
  /\ inbox # <<>>
  /\ \/ p.kind = "query" /\ IsCopy(heardQ, <<p.ip, p.id, p.name>>, p.at)
     \/ p.kind = "answer" /\ IsCopy(heardR, <<p.ip, p.id, p.name, p.good>>, p.at)
  /\ inbox' = Tail(inbox)
  /\ UNCHANGED <<vars, clientStore, sent, cause, open>>

\* ensureClientStateLocked: the registry's word on an address goes before
\* the frame's.
Owner(p) ==
  IF p.ip \in DOMAIN registry THEN registry[p.ip] ELSE [mac |-> p.mac, policy |-> "found"]

RecordClientQuery ==
  LET p   == Head(inbox)
      own == Owner(p)
      old == {c \in recentTxn : /\ txn[c].policy = own.policy /\ txn[c].name = p.name
                                /\ p.at - txn[c].when > MatchKeep}
  IN /\ inbox # <<>> /\ p.kind = "query"
     /\ ~IsCopy(heardQ, <<p.ip, p.id, p.name>>, p.at)
     /\ heardQ' = Put(heardQ, <<p.ip, p.id, p.name>>, p.at)
     /\ device' = Charge(device, own.mac, {"requests"})
     /\ txn' = Append(txn, [ip |-> p.ip, id |-> p.id, name |-> p.name, mac |-> own.mac,
                            policy |-> own.policy, ask |-> p.ask, when |-> p.at,
                            matched |-> FALSE, outcome |-> "none"])
     /\ recentTxn' = (recentTxn \ old) \union {Len(txn) + 1}
     /\ waitingTxn' = waitingTxn \union {Len(txn) + 1}
     /\ inbox' = Tail(inbox)
     /\ UNCHANGED <<vars, registry, txnOf, heardR, sent, cause, open>>

\* The queries an answer may be for; the latest gets it.
Answerable(p) ==
  {c \in waitingTxn : /\ txn[c].ip = p.ip /\ txn[c].id = p.id /\ txn[c].name = p.name
                      /\ p.at - txn[c].when <= ResponseLimit}

MutStillWaiting(c) ==
  {d \in waitingTxn : ~(txn[d].ip = txn[c].ip /\ txn[d].id = txn[c].id
                          /\ txn[d].name = txn[c].name)}

StillWaiting(c) == waitingTxn \ {c}

Outcome(c, good) ==
  CASE ~good                  -> "ERROR"
    [] good /\ txn[c].matched  -> "FORWARDED"
    [] good /\ ~txn[c].matched -> "CACHE_LOCAL"

CountedAs == [FORWARDED |-> "forwarded", CACHE_LOCAL |-> "local", ERROR |-> "errors"]

RecordClientResponse ==
  LET p == Head(inbox) IN
  /\ inbox # <<>> /\ p.kind = "answer"
  /\ ~IsCopy(heardR, <<p.ip, p.id, p.name, p.good>>, p.at)
  /\ heardR' = Put(heardR, <<p.ip, p.id, p.name, p.good>>, p.at)
  /\ \/ /\ Answerable(p) = {}
        /\ UNCHANGED <<device, txn, waitingTxn>>
     \/ /\ Answerable(p) # {}
        /\ LET c == Max(Answerable(p))
               o == Outcome(c, p.good)
           IN /\ txn' = [txn EXCEPT ![c].outcome = o]
              /\ device' = Charge(device, txn[c].mac, {"responses", CountedAs[o]})
              /\ waitingTxn' = StillWaiting(c)
  /\ inbox' = Tail(inbox)
  /\ UNCHANGED <<vars, registry, recentTxn, txnOf, heardQ, sent, cause, open>>

-----------------------------------------------------------------------------
(* The steps of the resolver side, with what they do to the clients.       *)

\* A query to a resolver, caused by the client's query a that has no answer
\* yet, or by none.
CaptureCaused(k, n, a) ==
  /\ CaptureQuery(k, n)
  /\ a # 0 => sent[a].name = n /\ sent[a].answers = 0
  /\ cause' = [cause EXCEPT ![Len(asked')] = a]
  /\ UNCHANGED <<clientStore, inbox, sent, open>>

\* Recorded queries of the right policy and name that are not linked yet.
Linkable ==
  {c \in recentTxn :
    /\ txn[c].policy = Profile(held.key.port) /\ txn[c].name = held.name
    /\ ~txn[c].matched /\ held.at - txn[c].when <= MatchKeep}

SameId == {c \in Linkable : txn[c].id = held.key.tag}

MutMatch == IF SameId # {} THEN Max(SameId) ELSE 0

\* matchClientLocked: the latest with the same id, or else the latest.
Match ==
  CASE SameId # {}                    -> Max(SameId)
    [] SameId = {} /\ Linkable # {} -> Max(Linkable)
    [] Linkable = {}                 -> 0

MutHandover(d, c) == d

\* A fallback is charged to the device behind the query it replaces.
Handover(d, c) == IF c = 0 THEN d ELSE Charge(d, txn[c].mac, {"fallbacks"})

\* A fallback that matches no query of its own belongs to the same client.
RecordQueryOfClient ==
  LET from == IF FallbackSources = {} THEN 0 ELSE txnOf[FallbackSource.query]
  IN /\ RecordQuery
     /\ txnOf' = [txnOf EXCEPT ![held.query] = IF Match # 0 THEN Match ELSE from]
     /\ open' = [open EXCEPT ![held.query] =
                  {c \in waitingTxn : clock - txn[c].when <= MatchKeep
                                        /\ txn[c].policy = Profile(held.key.port)}]
     /\ \/ /\ Match # 0
           /\ txn' = [txn EXCEPT ![Match].matched = TRUE]
           /\ device' = Handover(Charge(device, txn[Match].mac, {"matched"}), from)
        \/ /\ Match = 0
           /\ device' = Handover(device, from)
           /\ UNCHANGED txn
     /\ UNCHANGED <<registry, recentTxn, waitingTxn, heardQ, heardR, inbox, sent, cause>>

\* An error of the resolver is charged to the client.
ReplyMatchedOfClient ==
  LET c == txnOf[pending[held.key].query] IN
  /\ ReplyMatched
  /\ \/ /\ ~held.good /\ c # 0
        /\ device' = Charge(device, txn[c].mac, {"upErrors"})
     \/ /\ held.good \/ c = 0
        /\ UNCHANGED device
  /\ UNCHANGED <<registry, txn, recentTxn, waitingTxn, txnOf, heardQ, heardR, clientWorld>>

\* Clients are charged with the timeouts of their resolvers, and their own
\* queries time out as well.
CleanupAll ==
  LET late       == {c \in waitingTxn : clock - txn[c].when > ClientLimit}
      charged(m) == {k \in Overdue : k.port \in Known /\ txnOf[pending[k].query]
                                       \in {c \in Txns : txn[c].mac = m}}
      fresh(heard) == Drop(heard, {k \in DOMAIN heard : clock - heard[k] > DedupKeep})
  IN /\ CleanupTransient
     /\ device' = [m \in Mac |->
                     Add(Add(device[m], {"upTimeouts"}, Cardinality(charged(m))),
                         {"timeouts"}, Cardinality({c \in late : txn[c].mac = m}))]
     /\ txn' = [c \in DOMAIN txn |->
                 IF c \in late THEN [txn[c] EXCEPT !.outcome = "CLIENT_TIMEOUT"] ELSE txn[c]]
     /\ waitingTxn' = waitingTxn \ late
     /\ recentTxn' = {c \in recentTxn : clock - txn[c].when <= MatchKeep}
     /\ heardQ' = fresh(heardQ) /\ heardR' = fresh(heardR)
     /\ UNCHANGED <<registry, txnOf, clientWorld>>

UpdateClientRegistry(r) ==
  /\ registry' = r
  /\ UNCHANGED <<vars, device, txn, recentTxn, waitingTxn, txnOf, heardQ, heardR,
                 clientWorld>>

\* Every half minute the router is asked whose its addresses are; it may say
\* the same again, or not answer.
ClientRegistryLoop ==
  /\ scenario.churn /\ scenario.clients > 0
  /\ \E r \in Registries \ {registry} : UpdateClientRegistry(r)

ClientTick ==
  /\ \A i \in DOMAIN inbox : inbox[i].at = clock
  /\ Tick /\ UNCHANGED clientVars

Clients ==
  \/ \E h \in Hosts, n \in Name : ClientAsks(h, n)
  \/ \E a \in DOMAIN sent, good \in BOOLEAN : ClientIsAnswered(a, good)
  \/ DropClientPacket
  \/ RecordClientQuery
  \/ RecordClientResponse
  \/ ClientRegistryLoop

Resolvers ==
  \/ \E k \in Keys, n \in Name, a \in 0..Len(sent) : CaptureCaused(k, n, a)
  \/ \E i \in 1..Len(asked), good \in BOOLEAN :
       CaptureReply(i, good) /\ UNCHANGED clientVars
  \/ RecordQueryOfClient
  \/ ReplyIgnored /\ UNCHANGED clientVars
  \/ ReplyLate /\ UNCHANGED clientVars
  \/ ReplyUnmatched /\ UNCHANGED clientVars
  \/ ReplyMatchedOfClient

ClientNext ==
  \/ Clients
  \/ Resolvers
  \/ CleanupAll
  \/ Watch /\ UNCHANGED clientVars
  \/ ClientTick

ClientSpec == ClientInit /\ [][ClientNext]_allVars

-----------------------------------------------------------------------------
(* Properties.                                                             *)

\* A query a device sent, one the Store took in, and a packet on the way there.
Asks        == 1..scenario.clients
Sent        == [ip : Ip, id : Tag, name : Name, answers : Nat]
Policies    == {"found", "other"}
Devices     == [DeviceFields -> Nat]
ClientQueries ==
  [ip : Ip, id : Tag, name : Name, mac : Mac, policy : Policies, ask : Asks, when : Times,
   matched : BOOLEAN, outcome : Outcomes \union {"none"}]
ClientPackets ==
  [kind : {"query"}, ip : Ip, mac : Mac, id : Tag, name : Name, ask : Asks, at : Times]
    \union [kind : {"answer"}, ip : Ip, id : Tag, name : Name, good : BOOLEAN, at : Times]

ClientTypeOK ==
  /\ TypeOK
  /\ registry \in Registries \union {<<>>}
  /\ device \in [Mac -> Devices]
  /\ txn \in Seq(ClientQueries)
  /\ recentTxn \subseteq Txns /\ waitingTxn \subseteq Txns
  /\ txnOf \in [Numbers -> {0} \union Txns]
  /\ heardQ \in [DOMAIN heardQ -> Times] /\ heardR \in [DOMAIN heardR -> Times]
  /\ sent \in Seq(Sent) /\ Len(sent) <= scenario.clients
  /\ inbox \in Seq(ClientPackets)
  /\ cause \in [Numbers -> {0} \union DOMAIN sent]
  /\ open \in [Numbers -> SUBSET Txns]

\* What a device asked is what was answered, what timed out, and what will
\* still have one of these outcomes, through retransmitted queries, repeated
\* and missing answers and devices that change their address.
ClientBalance ==
  \A m \in Mac :
    LET d == device[m] IN
    /\ d.requests = d.responses + d.timeouts
                      + Cardinality({c \in waitingTxn : txn[c].mac = m})
    /\ d.responses = d.forwarded + d.local + d.errors

\* A device is not charged with more failures of resolvers, past and still
\* possible, than queries to resolvers were put down to it.
Blame ==
  \A m \in Mac :
    LET linked == {k \in DOMAIN pending :
                    LET c == txnOf[pending[k].query] IN c # 0 /\ txn[c].mac = m}
        d      == device[m]
    IN d.upErrors + d.upTimeouts + Cardinality(linked) <= d.matched + d.fallbacks

\* The account of the devices.
DevicesAccounted == ClientBalance /\ Blame

\* A query that waits for its answer when the query it caused is recorded,
\* and that no other resembles, is not taken for one the router answered by
\* itself, whatever ids the two have.
LocalMeansLocal ==
  \A i \in DOMAIN open : \A c \in open[i] :
    LET alone == \A d \in Txns \ {c} :
                   txn[d].name = txn[c].name => txn[d].policy # txn[c].policy
    IN cause[i] = txn[c].ask /\ alone => txn[c].outcome # "CACHE_LOCAL"

\* Nothing of a client is kept for longer than its limit either.
AllPrompt ==
  /\ Prompt
  /\ \A c \in waitingTxn : clock - txn[c].when <= ClientLimit + SweepEvery + 1
  /\ \A c \in recentTxn : clock - txn[c].when <= MatchKeep + SweepEvery + 1
  /\ \A k \in DOMAIN heardQ : clock - heardQ[k] <= DedupKeep + SweepEvery + 1
  /\ \A k \in DOMAIN heardR : clock - heardR[k] <= DedupKeep + SweepEvery + 1
=============================================================================
