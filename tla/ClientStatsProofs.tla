-------------------------- MODULE ClientStatsProofs --------------------------
(***************************************************************************)
(* Proofs about ClientStats, for any devices, addresses, registries and    *)
(* limits, on top of what ResolverStatsProofs shows of the resolver side.  *)
(***************************************************************************)
EXTENDS ClientStats, ResolverStatsProofs

-----------------------------------------------------------------------------
(* The client side adds to the resolver side and changes nothing of it.    *)

LEMMA ResolverSteps == [ClientNext]_allVars => [Next]_vars
<1> SUFFICES ASSUME [ClientNext]_allVars PROVE [Next]_vars OBVIOUS
<1>1. CASE Clients
  BY <1>1 DEF Clients, ClientAsks, ClientIsAnswered, DropClientPacket, RecordClientQuery,
              RecordClientResponse, ClientRegistryLoop, UpdateClientRegistry
<1>2. CASE Resolvers
  <2>1. CASE \E k \in Keys, n \in Name, a \in 0..Len(sent) : CaptureCaused(k, n, a)
    BY <2>1 DEF CaptureCaused, Next, Capture
  <2>2. CASE \E i \in 1..Len(asked), good \in BOOLEAN : CaptureReply(i, good)
    BY <2>2 DEF Next, Capture
  <2>3. CASE Record BY <2>3 DEF Next
  <2> QED
    BY <1>2, <2>1, <2>2, <2>3 DEF Resolvers, Record, RecordQueryOfClient, ReplyMatchedOfClient
<1>3. CASE CleanupAll BY <1>3 DEF CleanupAll, Next
<1>4. CASE Watch \/ ClientTick BY <1>4 DEF ClientTick, Next
<1>5. CASE UNCHANGED allVars BY <1>5 DEF allVars
<1> QED BY <1>1, <1>2, <1>3, <1>4, <1>5 DEF ClientNext

\* With clients the resolver side does nothing it could not do without them,
\* so everything that is proved of it holds here.
THEOREM ClientsAddOn == ClientSpec => Spec
<1>1. ClientInit => Init BY DEF ClientInit
<1> QED BY <1>1, ResolverSteps, PTL DEF ClientSpec, Spec

-----------------------------------------------------------------------------
(* The operators of the model.                                             *)

LEMMA ClientConstants ==
  /\ DedupWithin \in Nat /\ DedupKeep \in Nat /\ MatchKeep \in Nat
  /\ ClientLimit \in Nat /\ ResponseLimit \in Nat
  /\ \A h \in Hosts : h.ip \in Ip /\ h.mac \in Mac /\ h.id \in Tag
BY ClientAssumption

LEMMA AddDevice ==
  ASSUME NEW d \in Devices, NEW F, NEW n \in Nat
  PROVE  /\ Add(d, F, n) \in Devices
         /\ \A f \in DeviceFields : Add(d, F, n)[f] = IF f \in F THEN d[f] + n ELSE d[f]
BY DEF Add, Devices

LEMMA ChargeFacts ==
  ASSUME NEW d \in [Mac -> Devices], NEW m \in Mac, NEW F
  PROVE  /\ Charge(d, m, F) \in [Mac -> Devices]
         /\ \A x \in Mac, f \in DeviceFields :
              Charge(d, m, F)[x][f] = IF x = m /\ f \in F THEN d[x][f] + 1 ELSE d[x][f]
<1>1. d[m] \in Devices OBVIOUS
<1>2. /\ Bump(d[m], F) \in Devices
      /\ \A f \in DeviceFields : Bump(d[m], F)[f] = IF f \in F THEN d[m][f] + 1 ELSE d[m][f]
  BY <1>1, AddDevice DEF Bump
<1>3. Charge(d, m, F) = [d EXCEPT ![m] = Bump(d[m], F)] BY DEF Charge
<1> QED BY <1>2, <1>3

\* The greatest of some of the queries that were taken in.
LEMMA MaxOfTxns ==
  ASSUME ClientTypeOK, NEW S \in SUBSET Txns, S # {}
  PROVE  Max(S) \in S
<1>1. Txns = 1..Len(txn) /\ Len(txn) \in Nat BY DEF ClientTypeOK, Txns
<1>2. S \in SUBSET (0..Len(txn)) BY <1>1
<1>3. PICK x \in S : \A y \in S : y <= x BY <1>1, <1>2, Greatest
<1>4. \A y \in S : x >= y BY <1>1, <1>2, <1>3
<1> QED BY <1>4 DEF Max

LEMMA TxnTypes ==
  ASSUME ClientTypeOK, NEW c \in Txns
  PROVE  /\ c \in Nat /\ c # 0 /\ c \in 1..Len(txn)
         /\ txn[c] \in ClientQueries
         /\ txn[c].ip \in Ip /\ txn[c].id \in Tag /\ txn[c].name \in Name
         /\ txn[c].mac \in Mac /\ txn[c].policy \in Policies /\ txn[c].ask \in Asks
         /\ txn[c].when \in Times /\ txn[c].when \in Nat /\ txn[c].matched \in BOOLEAN
         /\ txn[c].outcome \in Outcomes \union {"none"}
<1>1. scenario.time \in Nat BY ScenarioTypes DEF ClientTypeOK, TypeOK
<1>2. txn \in Seq(ClientQueries) /\ c \in DOMAIN txn BY DEF ClientTypeOK, Txns
<1>3. c \in 1..Len(txn) /\ Len(txn) \in Nat /\ txn[c] \in ClientQueries BY <1>2
<1> QED BY <1>1, <1>3 DEF ClientQueries, Times

\* An outcome and a link change nothing else of a query.
LEMMA OutcomeTypes ==
  ASSUME NEW t \in ClientQueries, NEW o \in Outcomes
  PROVE  LET u == [t EXCEPT !.outcome = o] IN
         /\ u \in ClientQueries /\ u.outcome = o
         /\ u.ip = t.ip /\ u.id = t.id /\ u.name = t.name /\ u.mac = t.mac
         /\ u.policy = t.policy /\ u.ask = t.ask /\ u.when = t.when /\ u.matched = t.matched
BY DEF ClientQueries

LEMMA LinkTypes ==
  ASSUME NEW t \in ClientQueries
  PROVE  LET u == [t EXCEPT !.matched = TRUE] IN
         /\ u \in ClientQueries /\ u.matched = TRUE
         /\ u.ip = t.ip /\ u.id = t.id /\ u.name = t.name /\ u.mac = t.mac
         /\ u.policy = t.policy /\ u.ask = t.ask /\ u.when = t.when /\ u.outcome = t.outcome
BY DEF ClientQueries

LEMMA TxnsFinite == ClientTypeOK => IsFiniteSet(Txns)
<1> SUFFICES ASSUME ClientTypeOK PROVE IsFiniteSet(Txns) OBVIOUS
<1>1. Txns = 1..Len(txn) /\ Len(txn) \in Nat BY DEF ClientTypeOK, Txns
<1> QED BY <1>1, FS_Interval

\* The packet at the head of the inbox.
LEMMA HeadTypes ==
  ASSUME ClientTypeOK, inbox # <<>>
  PROVE  LET p == Head(inbox) IN
         /\ p \in ClientPackets /\ Len(inbox) \in Nat /\ 1 \in DOMAIN inbox /\ p = inbox[1]
         /\ Tail(inbox) \in Seq(ClientPackets)
         /\ p.ip \in Ip /\ p.id \in Tag /\ p.name \in Name /\ p.at \in Times /\ p.at \in Nat
         /\ p.kind = "query" => p.mac \in Mac /\ p.ask \in Asks
         /\ p.kind = "answer" => p.good \in BOOLEAN
<1> DEFINE p == Head(inbox)
<1>1. scenario.time \in Nat BY ScenarioTypes DEF ClientTypeOK, TypeOK
<1>2. inbox \in Seq(ClientPackets) BY DEF ClientTypeOK
<1>3. /\ p \in ClientPackets /\ Len(inbox) \in Nat /\ 1 \in DOMAIN inbox /\ p = inbox[1]
      /\ Tail(inbox) \in Seq(ClientPackets)
  BY <1>2
<1> HIDE DEF p
<1>4. /\ p.ip \in Ip /\ p.id \in Tag /\ p.name \in Name /\ p.at \in Times
      /\ p.kind = "query" => p.mac \in Mac /\ p.ask \in Asks
      /\ p.kind = "answer" => p.good \in BOOLEAN
  BY <1>3 DEF ClientPackets
<1> QED BY <1>1, <1>3, <1>4 DEF p, Times

LEMMA OwnerTypes ==
  ASSUME ClientTypeOK, NEW p, p.mac \in Mac
  PROVE  Owner(p).mac \in Mac /\ Owner(p).policy \in Policies
<1>1. CASE p.ip \in DOMAIN registry
  <2>1. registry \in Registries BY <1>1 DEF ClientTypeOK
  <2> QED BY <1>1, <2>1, ClientAssumption DEF Owner, Policies
<1>2. CASE p.ip \notin DOMAIN registry BY <1>2 DEF Owner, Policies
<1> QED BY <1>1, <1>2

LEMMA MatchTypes ==
  ASSUME ClientTypeOK
  PROVE  /\ Match = 0 <=> Linkable = {}
         /\ Match # 0 => Match \in Linkable /\ Match \in Txns
<1>1. SameId \subseteq Linkable /\ Linkable \subseteq Txns
  BY DEF SameId, Linkable, ClientTypeOK
<1>2. CASE SameId # {}
  <2>1. Match = Max(SameId) BY <1>1, <1>2 DEF Match
  <2>2. Match \in SameId BY <1>1, <1>2, <2>1, MaxOfTxns
  <2> QED BY <1>1, <2>2, TxnTypes
<1>3. CASE SameId = {} /\ Linkable # {}
  <2>1. Match = Max(Linkable) BY <1>3 DEF Match
  <2>2. Match \in Linkable BY <1>1, <1>3, <2>1, MaxOfTxns
  <2> QED BY <1>1, <2>2, TxnTypes
<1>4. CASE Linkable = {} BY <1>1, <1>4 DEF Match
<1> QED BY <1>2, <1>3, <1>4

\* The client behind the query that a fallback replaces, if there is one.
From == IF FallbackSources = {} THEN 0 ELSE txnOf[FallbackSource.query]

LEMMA FromTypes ==
  ASSUME ClientTypeOK, held.kind = "query"
  PROVE  From \in {0} \union Txns
<1>1. CASE FallbackSources = {} BY <1>1 DEF From
<1>2. CASE FallbackSources # {}
  <2>1. FallbackSource.query \in Numbers BY <1>2, SourceFacts DEF ClientTypeOK
  <2> QED BY <1>2, <2>1 DEF From, ClientTypeOK
<1> QED BY <1>1, <1>2

-----------------------------------------------------------------------------
(* The type invariant.                                                     *)

LEMMA ScenarioStays ==
  ASSUME TypeOK, [Next]_vars
  PROVE  /\ scenario' = scenario
         /\ Times' = Times /\ Numbers' = Numbers /\ Asks' = Asks
         /\ ClientQueries' = ClientQueries /\ ClientPackets' = ClientPackets
<1>1. scenario' = scenario
  BY RecordFrame, AsideFrame, CaptureFrame DEF Next, Aside, CleanupTransient, Tick, vars
<1> QED BY <1>1 DEF Times, Numbers, Asks, ClientQueries, ClientPackets

LEMMA TypesClients ==
  ASSUME ClientTypeOK, TypeOK', [Next]_vars,
         \/ \E h \in Hosts, n \in Name : ClientAsks(h, n)
         \/ \E a \in DOMAIN sent, good \in BOOLEAN : ClientIsAnswered(a, good)
         \/ DropClientPacket
  PROVE  ClientTypeOK'
<1>0. /\ Len(sent) \in Nat /\ scenario.clients \in Nat /\ clock \in Times
      /\ sent \in Seq(Sent) /\ inbox \in Seq(ClientPackets)
  BY ScenarioTypes DEF ClientTypeOK, TypeOK
<1>1. SUFFICES /\ sent' \in Seq(Sent) /\ Len(sent') <= scenario.clients
               /\ inbox' \in Seq(ClientPackets)
               /\ DOMAIN sent \subseteq DOMAIN sent'
               /\ UNCHANGED <<clientStore, cause, open>>
  <2>1. scenario' = scenario BY ScenarioStays DEF ClientTypeOK
  <2>2. cause' \in [Numbers -> {0} \union DOMAIN sent'] BY <1>1 DEF ClientTypeOK
  <2> QED BY <1>1, <2>1, <2>2, ScenarioStays DEF ClientTypeOK, clientStore, Txns
<1>2. ASSUME NEW h \in Hosts, NEW n \in Name, ClientAsks(h, n)
      PROVE  /\ sent' \in Seq(Sent) /\ Len(sent') <= scenario.clients
             /\ inbox' \in Seq(ClientPackets)
             /\ DOMAIN sent \subseteq DOMAIN sent'
             /\ UNCHANGED <<clientStore, cause, open>>
  <2> DEFINE e == [ip |-> h.ip, id |-> h.id, name |-> n, answers |-> 0]
             p == [kind |-> "query", ip |-> h.ip, mac |-> h.mac,
                   id |-> h.id, name |-> n, ask |-> Len(sent) + 1, at |-> clock]
  <2>1. /\ sent' = Append(sent, e) /\ inbox' = Append(inbox, p)
        /\ Len(sent) < scenario.clients /\ UNCHANGED <<clientStore, cause, open>>
    BY <1>2 DEF ClientAsks
  <2>2. e \in Sent BY ClientConstants DEF Sent
  <2>3. Len(sent) + 1 \in Asks BY <1>0, <2>1 DEF Asks
  <2>4. p \in ClientPackets BY <1>0, <2>3, ClientConstants DEF ClientPackets
  <2> HIDE DEF e, p
  <2> QED BY <1>0, <2>1, <2>2, <2>4
<1>3. ASSUME NEW a \in DOMAIN sent, NEW good \in BOOLEAN, ClientIsAnswered(a, good)
      PROVE  /\ sent' \in Seq(Sent) /\ Len(sent') <= scenario.clients
             /\ inbox' \in Seq(ClientPackets)
             /\ DOMAIN sent \subseteq DOMAIN sent'
             /\ UNCHANGED <<clientStore, cause, open>>
  <2> DEFINE e == [sent[a] EXCEPT !.answers = @ + 1]
             p == [kind |-> "answer", ip |-> sent[a].ip, id |-> sent[a].id,
                   name |-> sent[a].name, good |-> good, at |-> clock]
  <2>1. /\ sent' = [sent EXCEPT ![a] = e] /\ inbox' = Append(inbox, p)
        /\ UNCHANGED <<clientStore, cause, open>>
    BY <1>3 DEF ClientIsAnswered
  <2>2. sent[a] \in Sent BY <1>0
  <2>3. e \in Sent BY <2>2 DEF Sent
  <2>4. p \in ClientPackets BY <1>0, <2>2 DEF Sent, ClientPackets
  <2> HIDE DEF e, p
  <2>5. Len(sent) <= scenario.clients BY DEF ClientTypeOK
  <2> QED BY <1>0, <2>1, <2>3, <2>4, <2>5
<1>4. CASE DropClientPacket
  <2>1. inbox # <<>> /\ inbox' = Tail(inbox) /\ UNCHANGED <<clientStore, sent, cause, open>>
    BY <1>4 DEF DropClientPacket
  <2> QED BY <1>0, <2>1, HeadTypes DEF ClientTypeOK
<1> QED BY <1>2, <1>3, <1>4

LEMMA TypesClientQuery ==
  ASSUME ClientTypeOK, TypeOK', [Next]_vars, RecordClientQuery
  PROVE  ClientTypeOK'
<1> DEFINE p   == Head(inbox)
           own == Owner(p)
           t   == [ip |-> p.ip, id |-> p.id, name |-> p.name, mac |-> own.mac,
                   policy |-> own.policy, ask |-> p.ask, when |-> p.at,
                   matched |-> FALSE, outcome |-> "none"]
<1>0. inbox # <<>> /\ p.kind = "query" BY DEF RecordClientQuery
<1>1. /\ p.ip \in Ip /\ p.id \in Tag /\ p.name \in Name /\ p.at \in Times
      /\ p.mac \in Mac /\ p.ask \in Asks /\ Tail(inbox) \in Seq(ClientPackets)
  BY <1>0, HeadTypes
<1>2. own.mac \in Mac /\ own.policy \in Policies BY <1>1, OwnerTypes
<1>3. /\ heardQ' = Put(heardQ, <<p.ip, p.id, p.name>>, p.at)
      /\ device' = Charge(device, own.mac, {"requests"})
      /\ txn' = Append(txn, t) /\ inbox' = Tail(inbox)
      /\ recentTxn' \subseteq recentTxn \union {Len(txn) + 1}
      /\ waitingTxn' = waitingTxn \union {Len(txn) + 1}
      /\ UNCHANGED <<registry, txnOf, heardR, sent, cause, open>>
  BY DEF RecordClientQuery
<1>4. t \in ClientQueries
  <2> HIDE DEF p, own
  <2> QED BY <1>1, <1>2 DEF ClientQueries
<1> HIDE DEF t, own, p
<1>5. txn \in Seq(ClientQueries) /\ Len(txn) \in Nat BY DEF ClientTypeOK
<1>6. txn' \in Seq(ClientQueries) /\ Txns' = Txns \union {Len(txn) + 1}
  BY <1>3, <1>4, <1>5 DEF Txns
<1>7. device' \in [Mac -> Devices] BY <1>2, <1>3, ChargeFacts DEF ClientTypeOK
<1>8. heardQ' \in [DOMAIN heardQ' -> Times]
  <2>1. heardQ \in [DOMAIN heardQ -> Times] BY DEF ClientTypeOK
  <2>2. heardQ' \in [DOMAIN heardQ \union {<<p.ip, p.id, p.name>>} -> Times]
    BY <1>1, <1>3, <2>1, PutTypes
  <2> QED BY <2>2
<1>9. scenario' = scenario /\ Times' = Times /\ Numbers' = Numbers
      /\ ClientQueries' = ClientQueries /\ ClientPackets' = ClientPackets
  BY ScenarioStays DEF ClientTypeOK
<1>10. recentTxn' \subseteq Txns' /\ waitingTxn' \subseteq Txns'
  BY <1>3, <1>6 DEF ClientTypeOK
<1>11. txnOf' \in [Numbers -> {0} \union Txns'] /\ open' \in [Numbers -> SUBSET Txns']
  BY <1>3, <1>6 DEF ClientTypeOK
<1>12. inbox' \in Seq(ClientPackets) BY <1>1, <1>3 DEF p
<1> QED
  BY <1>3, <1>6, <1>7, <1>8, <1>9, <1>10, <1>11, <1>12 DEF ClientTypeOK

LEMMA TypesClientResponse ==
  ASSUME ClientTypeOK, TypeOK', [Next]_vars, RecordClientResponse
  PROVE  ClientTypeOK'
<1> DEFINE p == Head(inbox)
           k == <<p.ip, p.id, p.name, p.good>>
<1>0. inbox # <<>> /\ p.kind = "answer" BY DEF RecordClientResponse
<1>1. p.at \in Times /\ Tail(inbox) \in Seq(ClientPackets) /\ p.good \in BOOLEAN
  BY <1>0, HeadTypes
<1>2. /\ heardR' = Put(heardR, k, p.at) /\ inbox' = Tail(inbox)
      /\ UNCHANGED <<registry, recentTxn, txnOf, heardQ, sent, cause, open>>
  BY DEF RecordClientResponse
<1>3. heardR' \in [DOMAIN heardR' -> Times]
  <2> HIDE DEF p, k
  <2>1. heardR \in [DOMAIN heardR -> Times] BY DEF ClientTypeOK
  <2>2. heardR' \in [DOMAIN heardR \union {k} -> Times] BY <1>1, <1>2, <2>1, PutTypes
  <2> QED BY <2>2
<1>4. /\ txn' \in Seq(ClientQueries) /\ Txns' = Txns
      /\ device' \in [Mac -> Devices] /\ waitingTxn' \subseteq Txns
  <2>0. txn \in Seq(ClientQueries) /\ device \in [Mac -> Devices] /\ waitingTxn \subseteq Txns
    BY DEF ClientTypeOK
  <2>1. CASE UNCHANGED <<device, txn, waitingTxn>> BY <2>0, <2>1 DEF Txns
  <2>2. CASE ~UNCHANGED <<device, txn, waitingTxn>>
    <3> DEFINE c == Max(Answerable(p))
               o == Outcome(c, p.good)
    <3>1. /\ Answerable(p) # {} /\ txn' = [txn EXCEPT ![c].outcome = o]
          /\ device' = Charge(device, txn[c].mac, {"responses", CountedAs[o]})
          /\ waitingTxn' = StillWaiting(c)
      BY <2>2 DEF RecordClientResponse
    <3>2. Answerable(p) \subseteq Txns BY <2>0 DEF Answerable
    <3>3. c \in Answerable(p) BY <3>1, <3>2, MaxOfTxns
    <3>4. c \in Txns /\ txn[c] \in ClientQueries /\ txn[c].mac \in Mac
          /\ txn[c].matched \in BOOLEAN
      BY <3>2, <3>3, TxnTypes
    <3>5. o \in Outcomes BY <1>1, <3>4 DEF Outcome, Outcomes
    <3> HIDE DEF c, o
    <3>6. txn' = [txn EXCEPT ![c] = [txn[c] EXCEPT !.outcome = o]] BY <3>1
    <3>7. [txn[c] EXCEPT !.outcome = o] \in ClientQueries BY <3>4, <3>5 DEF ClientQueries
    <3>8. device' \in [Mac -> Devices] BY <2>0, <3>1, <3>4, ChargeFacts
    <3>9. txn' \in Seq(ClientQueries) /\ DOMAIN txn' = DOMAIN txn
      BY <2>0, <3>4, <3>6, <3>7 DEF Txns
    <3> QED BY <2>0, <3>1, <3>8, <3>9 DEF StillWaiting, Txns
  <2> QED BY <2>1, <2>2
<1>5. /\ Times' = Times /\ Numbers' = Numbers /\ scenario' = scenario
      /\ ClientQueries' = ClientQueries /\ ClientPackets' = ClientPackets
  BY ScenarioStays DEF ClientTypeOK
<1>6. inbox' \in Seq(ClientPackets) BY <1>1, <1>2
<1> HIDE DEF p, k
<1> QED BY <1>2, <1>3, <1>4, <1>5, <1>6 DEF ClientTypeOK

LEMMA TypesQueryOfClient ==
  ASSUME ClientTypeOK, TypeOK', [Next]_vars, RecordQueryOfClient
  PROVE  ClientTypeOK'
<1>0. held.kind = "query" BY DEF RecordQueryOfClient, RecordQuery
<1>1. From \in {0} \union Txns /\ Match \in {0} \union Txns BY <1>0, FromTypes, MatchTypes
<1>2. /\ txn \in Seq(ClientQueries) /\ device \in [Mac -> Devices]
      /\ txnOf \in [Numbers -> {0} \union Txns] /\ open \in [Numbers -> SUBSET Txns]
      /\ waitingTxn \subseteq Txns
  BY DEF ClientTypeOK
<1>3. /\ txnOf' = [txnOf EXCEPT ![held.query] = IF Match # 0 THEN Match ELSE From]
      /\ open' = [open EXCEPT ![held.query] =
                    {c \in waitingTxn : clock - txn[c].when <= MatchKeep
                                          /\ txn[c].policy = Profile(held.key.port)}]
      /\ UNCHANGED <<registry, recentTxn, waitingTxn, heardQ, heardR, inbox, sent, cause>>
  BY DEF RecordQueryOfClient, From
<1>4. \/ /\ Match # 0 /\ txn' = [txn EXCEPT ![Match].matched = TRUE]
         /\ device' = Handover(Charge(device, txn[Match].mac, {"matched"}), From)
      \/ Match = 0 /\ txn' = txn /\ device' = Handover(device, From)
  BY DEF RecordQueryOfClient, From
<1>5. \A d \in [Mac -> Devices] : Handover(d, From) \in [Mac -> Devices]
  BY <1>1, TxnTypes, ChargeFacts DEF Handover
<1>6. txn' \in Seq(ClientQueries) /\ Txns' = Txns /\ device' \in [Mac -> Devices]
  <2>1. CASE Match # 0 /\ txn' = [txn EXCEPT ![Match].matched = TRUE]
             /\ device' = Handover(Charge(device, txn[Match].mac, {"matched"}), From)
    <3>1. Match \in Txns /\ txn[Match] \in ClientQueries /\ txn[Match].mac \in Mac
      BY <1>1, <2>1, TxnTypes
    <3>2. txn' = [txn EXCEPT ![Match] = [txn[Match] EXCEPT !.matched = TRUE]] BY <2>1
    <3>3. [txn[Match] EXCEPT !.matched = TRUE] \in ClientQueries BY <3>1 DEF ClientQueries
    <3>4. device' \in [Mac -> Devices] BY <1>2, <1>5, <2>1, <3>1, ChargeFacts
    <3> QED BY <1>2, <3>1, <3>2, <3>3, <3>4 DEF Txns
  <2>2. CASE Match = 0 /\ txn' = txn /\ device' = Handover(device, From)
    BY <1>2, <1>5, <2>2 DEF Txns
  <2> QED BY <1>4, <2>1, <2>2
<1>7. txnOf' \in [Numbers -> {0} \union Txns] BY <1>1, <1>2, <1>3
<1>8. open' \in [Numbers -> SUBSET Txns] BY <1>2, <1>3
<1>9. /\ Times' = Times /\ Numbers' = Numbers /\ scenario' = scenario
      /\ ClientQueries' = ClientQueries /\ ClientPackets' = ClientPackets
  BY ScenarioStays DEF ClientTypeOK
<1> QED BY <1>3, <1>6, <1>7, <1>8, <1>9 DEF ClientTypeOK

LEMMA TypesSweep ==
  ASSUME ClientTypeOK, Finite, TypeOK', [Next]_vars, CleanupAll
  PROVE  ClientTypeOK'
<1> DEFINE late       == {c \in waitingTxn : clock - txn[c].when > ClientLimit}
           charged(m) == {k \in Overdue : k.port \in Known /\ txnOf[pending[k].query]
                                            \in {c \in Txns : txn[c].mac = m}}
           a(m)       == Cardinality(charged(m))
           b(m)       == Cardinality({c \in late : txn[c].mac = m})
           gone1      == {k \in DOMAIN heardQ : clock - heardQ[k] > DedupKeep}
           gone2      == {k \in DOMAIN heardR : clock - heardR[k] > DedupKeep}
<1>1. /\ txn \in Seq(ClientQueries) /\ device \in [Mac -> Devices] /\ waitingTxn \subseteq Txns
      /\ heardQ \in [DOMAIN heardQ -> Times] /\ heardR \in [DOMAIN heardR -> Times]
  BY DEF ClientTypeOK
<1>2. /\ device' = [m \in Mac |-> Add(Add(device[m], {"upTimeouts"}, a(m)), {"timeouts"}, b(m))]
      /\ txn' = [c \in DOMAIN txn |->
                  IF c \in late THEN [txn[c] EXCEPT !.outcome = "CLIENT_TIMEOUT"] ELSE txn[c]]
      /\ waitingTxn' \subseteq waitingTxn /\ recentTxn' \subseteq recentTxn
      /\ heardQ' = Drop(heardQ, gone1) /\ heardR' = Drop(heardR, gone2)
      /\ UNCHANGED <<registry, txnOf, inbox, sent, cause, open>>
  BY DEF CleanupAll, clientWorld
<1>3. ASSUME NEW m \in Mac PROVE a(m) \in Nat /\ b(m) \in Nat
  <2>1. IsFiniteSet(charged(m)) /\ IsFiniteSet({c \in late : txn[c].mac = m})
    BY <1>1, TxnsFinite, FS_Subset DEF Finite, Overdue
  <2> QED BY <2>1, FS_CardinalityType
<1> HIDE DEF a, b, late, gone1, gone2
<1>4. device' \in [Mac -> Devices] BY <1>1, <1>2, <1>3, AddDevice
<1>5. txn' \in Seq(ClientQueries) /\ Txns' = Txns
  <2>1. \A c \in DOMAIN txn : txn[c] \in ClientQueries
                              /\ [txn[c] EXCEPT !.outcome = "CLIENT_TIMEOUT"] \in ClientQueries
    <3> TAKE c \in DOMAIN txn
    <3>1. txn[c] \in ClientQueries /\ "CLIENT_TIMEOUT" \in Outcomes BY <1>1 DEF Outcomes
    <3> QED BY <3>1, OutcomeTypes
  <2>2. DOMAIN txn = 1..Len(txn) /\ Len(txn) \in Nat BY <1>1
  <2>3. txn' \in [1..Len(txn) -> ClientQueries] BY <1>2, <2>1, <2>2
  <2> QED BY <1>2, <2>2, <2>3 DEF Txns
<1>6. heardQ' \in [DOMAIN heardQ' -> Times] /\ heardR' \in [DOMAIN heardR' -> Times]
  BY <1>1, <1>2 DEF Drop
<1>7. /\ Times' = Times /\ Numbers' = Numbers /\ scenario' = scenario
      /\ ClientQueries' = ClientQueries /\ ClientPackets' = ClientPackets
  BY ScenarioStays DEF ClientTypeOK
<1> QED BY <1>2, <1>4, <1>5, <1>6, <1>7 DEF ClientTypeOK

LEMMA ClientTypesNext ==
  ASSUME ClientTypeOK, Finite, [ClientNext]_allVars
  PROVE  ClientTypeOK'
<1>0. [Next]_vars BY ResolverSteps
<1>1. TypeOK' BY <1>0, TypesNext DEF ClientTypeOK
<1>2. /\ Times' = Times /\ Numbers' = Numbers /\ scenario' = scenario
      /\ ClientQueries' = ClientQueries /\ ClientPackets' = ClientPackets
  BY <1>0, ScenarioStays DEF ClientTypeOK
<1>3. CASE UNCHANGED clientVars
  BY <1>1, <1>2, <1>3 DEF ClientTypeOK, clientVars, clientStore, clientWorld, Txns
<1>4. CASE Clients
  <2>1. CASE ClientRegistryLoop
    BY <1>1, <1>2, <2>1
    DEF ClientTypeOK, ClientRegistryLoop, UpdateClientRegistry, clientWorld, Txns
  <2> QED
    BY <1>0, <1>1, <1>4, <2>1, TypesClients, TypesClientQuery, TypesClientResponse DEF Clients
<1>5. CASE Resolvers
  <2>1. ASSUME NEW k \in Keys, NEW n \in Name, NEW a \in 0..Len(sent), CaptureCaused(k, n, a)
        PROVE  ClientTypeOK'
    <3>1. cause' = [cause EXCEPT ![Len(asked')] = a] /\ UNCHANGED <<clientStore, inbox, sent, open>>
      BY <2>1 DEF CaptureCaused
    <3>2. a \in {0} \union DOMAIN sent BY DEF ClientTypeOK
    <3>3. cause' \in [Numbers -> {0} \union DOMAIN sent] BY <3>1, <3>2 DEF ClientTypeOK
    <3> QED BY <1>1, <1>2, <3>1, <3>3 DEF ClientTypeOK, clientStore, Txns
  <2>2. CASE ReplyMatchedOfClient
    <3> DEFINE c == txnOf[pending[held.key].query]
    <3>1. /\ \/ device' = Charge(device, txn[c].mac, {"upErrors"}) /\ c # 0
             \/ device' = device
          /\ UNCHANGED <<registry, txn, recentTxn, waitingTxn, txnOf, heardQ, heardR, clientWorld>>
          /\ held.key \in DOMAIN pending
      BY <2>2 DEF ReplyMatchedOfClient, ReplyMatched
    <3>2. c # 0 => c \in Txns BY <3>1, PendingTypes DEF ClientTypeOK
    <3>3. device' \in [Mac -> Devices] BY <3>1, <3>2, TxnTypes, ChargeFacts DEF ClientTypeOK
    <3> QED BY <1>1, <1>2, <3>1, <3>3 DEF ClientTypeOK, clientWorld, Txns
  <2> QED BY <1>0, <1>1, <1>3, <1>5, <2>1, <2>2, TypesQueryOfClient DEF Resolvers
<1>6. CASE CleanupAll BY <1>0, <1>1, <1>6, TypesSweep
<1> QED BY <1>3, <1>4, <1>5, <1>6 DEF ClientNext, ClientTick, allVars

LEMMA ClientTypesInit == ClientInit => ClientTypeOK
<1> SUFFICES ASSUME ClientInit PROVE ClientTypeOK OBVIOUS
<1>1. TypeOK BY TypesInit DEF ClientInit
<1>2. scenario.clients \in Nat BY <1>1, ScenarioTypes DEF TypeOK
<1>3. device \in [Mac -> Devices] BY DEF ClientInit, Devices
<1>4. txn = <<>> /\ heardQ = <<>> /\ heardR = <<>> /\ sent = <<>> /\ inbox = <<>>
  BY DEF ClientInit
<1>5. DOMAIN heardQ = {} /\ DOMAIN heardR = {} BY <1>4
<1> QED BY <1>1, <1>2, <1>3, <1>4, <1>5 DEF ClientInit, ClientTypeOK, Numbers

\* For any devices, addresses, registries and limits, what the Store keeps of
\* clients keeps its shape: every link, every list and every packet names
\* queries that were taken in.
THEOREM ClientTypesCorrect == ClientSpec => []ClientTypeOK
<1>1. Base => Finite BY DEF Base
<1> QED
  BY <1>1, ClientTypesInit, ClientTypesNext, ClientsAddOn, BaseAlways, PTL DEF ClientSpec

-----------------------------------------------------------------------------
(* What a step does to the queries that were taken in.                     *)

\* Who asked what, and when, stays.
SameQuery(c) ==
  /\ txn'[c].ip = txn[c].ip /\ txn'[c].id = txn[c].id /\ txn'[c].name = txn[c].name
  /\ txn'[c].mac = txn[c].mac /\ txn'[c].policy = txn[c].policy
  /\ txn'[c].ask = txn[c].ask /\ txn'[c].when = txn[c].when

\* An outcome comes once, and is not CACHE_LOCAL for a query with a link.
OutcomeNext(c) ==
  \/ txn'[c].outcome = txn[c].outcome /\ (c \in waitingTxn' <=> c \in waitingTxn)
  \/ /\ c \in waitingTxn /\ c \notin waitingTxn'
     /\ txn[c].matched => txn'[c].outcome # "CACHE_LOCAL"

TxnStays(c) ==
  /\ c \in Txns' /\ SameQuery(c)
  /\ txn[c].matched => txn'[c].matched
  /\ OutcomeNext(c)

\* The query that RecordClientQuery takes in.
NewTxn ==
  LET p == Head(inbox) IN
  [ip |-> p.ip, id |-> p.id, name |-> p.name, mac |-> Owner(p).mac,
   policy |-> Owner(p).policy, ask |-> p.ask, when |-> p.at,
   matched |-> FALSE, outcome |-> "none"]

LEMMA TxnAppended ==
  ASSUME ClientTypeOK, RecordClientQuery
  PROVE  /\ Txns' = Txns \union {Len(txn) + 1} /\ Len(txn) + 1 \notin Txns
         /\ Len(txn) \in Nat /\ txn' = Append(txn, NewTxn)
         /\ txn'[Len(txn) + 1] = NewTxn
         /\ \A c \in Txns : txn'[c] = txn[c]
         /\ waitingTxn' = waitingTxn \union {Len(txn) + 1}
<1>1. txn' = Append(txn, NewTxn) /\ waitingTxn' = waitingTxn \union {Len(txn) + 1}
  BY DEF RecordClientQuery, NewTxn
<1>2. txn \in Seq(ClientQueries) BY DEF ClientTypeOK
<1> QED BY <1>1, <1>2 DEF Txns

LEMMA TxnAnswered ==
  ASSUME ClientTypeOK, RecordClientResponse
  PROVE  \/ UNCHANGED <<device, txn, waitingTxn>>
         \/ \E c \in waitingTxn, o \in Outcomes \ {"CLIENT_TIMEOUT"} :
              /\ txn' = [txn EXCEPT ![c] = [txn[c] EXCEPT !.outcome = o]]
              /\ device' = Charge(device, txn[c].mac, {"responses", CountedAs[o]})
              /\ waitingTxn' = waitingTxn \ {c}
              /\ txn[c].matched => o # "CACHE_LOCAL"
<1> DEFINE p == Head(inbox)
           c == Max(Answerable(p))
           o == Outcome(c, p.good)
<1>1. SUFFICES ASSUME ~UNCHANGED <<device, txn, waitingTxn>>
               PROVE  /\ c \in waitingTxn /\ o \in Outcomes \ {"CLIENT_TIMEOUT"}
                      /\ txn' = [txn EXCEPT ![c] = [txn[c] EXCEPT !.outcome = o]]
                      /\ device' = Charge(device, txn[c].mac, {"responses", CountedAs[o]})
                      /\ waitingTxn' = waitingTxn \ {c}
                      /\ txn[c].matched => o # "CACHE_LOCAL"
  OBVIOUS
<1>2. /\ inbox # <<>> /\ p.kind = "answer" /\ Answerable(p) # {}
      /\ txn' = [txn EXCEPT ![c].outcome = o]
      /\ device' = Charge(device, txn[c].mac, {"responses", CountedAs[o]})
      /\ waitingTxn' = StillWaiting(c)
  BY <1>1 DEF RecordClientResponse
<1>3. Answerable(p) \subseteq waitingTxn /\ waitingTxn \subseteq Txns
  BY DEF Answerable, ClientTypeOK
<1>4. c \in waitingTxn /\ c \in Txns BY <1>2, <1>3, MaxOfTxns
<1>5. txn[c].matched \in BOOLEAN /\ p.good \in BOOLEAN BY <1>2, <1>4, TxnTypes, HeadTypes
<1>6. o \in Outcomes \ {"CLIENT_TIMEOUT"} /\ (txn[c].matched => o # "CACHE_LOCAL")
  BY <1>5 DEF Outcome, Outcomes
<1> HIDE DEF c, o
<1> QED BY <1>2, <1>4, <1>6 DEF StillWaiting

\* The queries that time out in a sweep.
Late == {c \in waitingTxn : clock - txn[c].when > ClientLimit}

LEMMA TxnSwept ==
  ASSUME ClientTypeOK, CleanupAll
  PROVE  /\ txn' = [c \in DOMAIN txn |->
                  IF c \in Late THEN [txn[c] EXCEPT !.outcome = "CLIENT_TIMEOUT"] ELSE txn[c]]
         /\ waitingTxn' = waitingTxn \ Late
BY DEF CleanupAll, Late

\* The steps that do nothing to them.
LEMMA TxnFrame ==
  ASSUME [ClientNext]_allVars
  PROVE  \/ UNCHANGED <<txn, recentTxn, waitingTxn>>
         \/ RecordClientQuery \/ RecordClientResponse \/ RecordQueryOfClient \/ CleanupAll
BY DEF ClientNext, Clients, Resolvers, ClientAsks, ClientIsAnswered, DropClientPacket,
       ClientRegistryLoop, UpdateClientRegistry, CaptureCaused, ReplyMatchedOfClient,
       ClientTick, allVars, clientVars, clientStore

LEMMA TxnLinked ==
  ASSUME ClientTypeOK, RecordQueryOfClient
  PROVE  /\ UNCHANGED <<recentTxn, waitingTxn>>
         /\ Match = 0 => txn' = txn
         /\ Match # 0 => txn' = [txn EXCEPT ![Match] = [txn[Match] EXCEPT !.matched = TRUE]]
BY DEF RecordQueryOfClient

LEMMA TxnNext ==
  ASSUME ClientTypeOK, [ClientNext]_allVars, NEW c \in Txns
  PROVE  TxnStays(c)
<1>0. txn[c] \in ClientQueries /\ txn \in Seq(ClientQueries) /\ DOMAIN txn = 1..Len(txn)
  BY TxnTypes DEF ClientTypeOK
<1>1. CASE UNCHANGED <<txn, recentTxn, waitingTxn>>
  BY <1>1 DEF TxnStays, SameQuery, OutcomeNext, Txns
<1>2. CASE RecordClientQuery
  <2>1. c \in Txns' /\ txn'[c] = txn[c] /\ (c \in waitingTxn' <=> c \in waitingTxn)
    BY <1>2, TxnAppended
  <2> QED BY <2>1 DEF TxnStays, SameQuery, OutcomeNext
<1>3. CASE RecordClientResponse
  <2>1. CASE UNCHANGED <<device, txn, waitingTxn>>
    BY <2>1 DEF TxnStays, SameQuery, OutcomeNext, Txns
  <2>2. ASSUME NEW d \in waitingTxn, NEW o \in Outcomes \ {"CLIENT_TIMEOUT"},
               txn' = [txn EXCEPT ![d] = [txn[d] EXCEPT !.outcome = o]],
               waitingTxn' = waitingTxn \ {d}, txn[d].matched => o # "CACHE_LOCAL"
        PROVE  TxnStays(c)
    <3>1. DOMAIN txn' = DOMAIN txn BY <2>2
    <3>2. CASE c # d
      <4>1. txn'[c] = txn[c] BY <2>2, <3>2 DEF Txns
      <4> QED BY <2>2, <3>1, <3>2, <4>1 DEF TxnStays, SameQuery, OutcomeNext, Txns
    <3>3. CASE c = d
      <4>1. txn'[c] = [txn[c] EXCEPT !.outcome = o] BY <2>2, <3>3 DEF Txns
      <4>2. /\ txn'[c].outcome = o /\ txn'[c].matched = txn[c].matched /\ SameQuery(c)
        BY <1>0, <4>1, OutcomeTypes DEF SameQuery
      <4> QED BY <2>2, <3>1, <3>3, <4>2 DEF TxnStays, OutcomeNext, Txns
    <3> QED BY <3>2, <3>3
  <2> QED BY <1>3, <2>1, <2>2, TxnAnswered
<1>4. CASE RecordQueryOfClient
  <2>1. CASE Match = 0 \/ Match # c
    <3>1. txn'[c] = txn[c] /\ DOMAIN txn' = DOMAIN txn /\ waitingTxn' = waitingTxn
      BY <1>4, <2>1, TxnLinked DEF Txns
    <3> QED BY <3>1 DEF TxnStays, SameQuery, OutcomeNext, Txns
  <2>2. CASE Match # 0 /\ Match = c
    <3>1. /\ txn' = [txn EXCEPT ![c] = [txn[c] EXCEPT !.matched = TRUE]]
          /\ waitingTxn' = waitingTxn
      BY <1>4, <2>2, TxnLinked
    <3>2. txn'[c] = [txn[c] EXCEPT !.matched = TRUE] /\ DOMAIN txn' = DOMAIN txn
      BY <3>1 DEF Txns
    <3>3. txn'[c].matched /\ txn'[c].outcome = txn[c].outcome /\ SameQuery(c)
      BY <1>0, <3>2, LinkTypes DEF SameQuery
    <3> QED BY <3>1, <3>2, <3>3 DEF TxnStays, OutcomeNext, Txns
  <2> QED BY <2>1, <2>2
<1>5. CASE CleanupAll
  <2>1. /\ txn'[c] = IF c \in Late THEN [txn[c] EXCEPT !.outcome = "CLIENT_TIMEOUT"] ELSE txn[c]
        /\ c \in Txns' /\ waitingTxn' = waitingTxn \ Late
    BY <1>5, TxnSwept DEF Txns
  <2>2. CASE c \notin Late
    BY <2>1, <2>2 DEF TxnStays, SameQuery, OutcomeNext
  <2>3. CASE c \in Late
    <3>1. "CLIENT_TIMEOUT" \in Outcomes BY DEF Outcomes
    <3>2. txn'[c].outcome = "CLIENT_TIMEOUT" /\ txn'[c].matched = txn[c].matched /\ SameQuery(c)
      BY <1>0, <2>1, <2>3, <3>1, OutcomeTypes DEF SameQuery
    <3> QED BY <2>1, <2>3, <3>2 DEF TxnStays, OutcomeNext, Late
  <2> QED BY <2>2, <2>3
<1> QED BY <1>1, <1>2, <1>3, <1>4, <1>5, TxnFrame

\* A query that was not there is the one that was just taken in.
LEMMA TxnCame ==
  ASSUME ClientTypeOK, [ClientNext]_allVars, NEW c \in Txns', c \notin Txns
  PROVE  RecordClientQuery /\ c = Len(txn) + 1 /\ txn'[c] = NewTxn
<1>1. CASE UNCHANGED txn BY <1>1 DEF Txns
<1>2. CASE RecordClientQuery BY <1>2, TxnAppended
<1>3. CASE RecordClientResponse
  <2>1. DOMAIN txn' = DOMAIN txn BY <1>3, TxnAnswered
  <2> QED BY <2>1 DEF Txns
<1>4. CASE RecordQueryOfClient
  <2>1. DOMAIN txn' = DOMAIN txn BY <1>4, TxnLinked
  <2> QED BY <2>1 DEF Txns
<1>5. CASE CleanupAll
  <2>1. DOMAIN txn' = DOMAIN txn BY <1>5, TxnSwept
  <2> QED BY <2>1 DEF Txns
<1> QED BY <1>1, <1>2, <1>3, <1>4, <1>5, TxnFrame

-----------------------------------------------------------------------------
(* How old the things of clients may be.                                   *)

\* A packet is recorded within a tick, and the last sweep left nothing that
\* was over its limit but what came late.
ClientAges ==
  /\ \A i \in DOMAIN inbox : inbox[i].at <= clock /\ clock - inbox[i].at <= 1
  /\ \A c \in waitingTxn : swept - txn[c].when <= ClientLimit + 1
  /\ \A c \in recentTxn : swept - txn[c].when <= MatchKeep + 1
  /\ \A k \in DOMAIN heardQ : swept - heardQ[k] <= DedupKeep + 1
  /\ \A k \in DOMAIN heardR : swept - heardR[k] <= DedupKeep + 1

LEMMA InboxTail ==
  ASSUME ClientTypeOK, inbox # <<>>, NEW i \in DOMAIN Tail(inbox)
  PROVE  \E j \in DOMAIN inbox : Tail(inbox)[i] = inbox[j]
<1>1. inbox \in Seq(ClientPackets) BY DEF ClientTypeOK
<1>2. Tail(inbox)[i] = inbox[i + 1] /\ i + 1 \in DOMAIN inbox BY <1>1
<1> QED BY <1>2

LEMMA InboxTypes ==
  ASSUME ClientTypeOK, NEW i \in DOMAIN inbox
  PROVE  inbox[i] \in ClientPackets /\ inbox[i].at \in Times /\ inbox[i].at \in Nat
<1>1. inbox[i] \in ClientPackets BY DEF ClientTypeOK
<1>2. scenario.time \in Nat BY ScenarioTypes DEF ClientTypeOK, TypeOK
<1> QED BY <1>1, <1>2 DEF ClientPackets, Times

\* The query that a device sent as its a-th asked for n.
AsksFor(a, n) == a \in DOMAIN sent /\ sent[a].name = n

PacketComes ==
  LET p == inbox'[Len(inbox) + 1] IN
  /\ UNCHANGED clock
  /\ inbox' = Append(inbox, p) /\ p.at = clock
  /\ p.kind = "query" => p.ask \in DOMAIN sent' /\ sent'[p.ask].name = p.name

\* A packet comes in, one is taken, time passes, or nothing changes.
LEMMA InboxNext ==
  ASSUME ClientTypeOK, [ClientNext]_allVars
  PROVE  \/ UNCHANGED <<inbox, clock>>
         \/ UNCHANGED clock /\ inbox # <<>> /\ inbox' = Tail(inbox)
         \/ PacketComes
         \/ UNCHANGED inbox /\ clock' = clock + 1 /\ \A i \in DOMAIN inbox : inbox[i].at = clock
<1>0. TypeOK BY DEF ClientTypeOK
<1>1. CASE Clients
  <2>1. ASSUME NEW h \in Hosts, NEW n \in Name, ClientAsks(h, n)
        PROVE  PacketComes
    <3> DEFINE p == [kind |-> "query", ip |-> h.ip, mac |-> h.mac,
                     id |-> h.id, name |-> n, ask |-> Len(sent) + 1, at |-> clock]
    <3>1. p.at = clock /\ inbox' = Append(inbox, p) /\ UNCHANGED clock
      BY <2>1 DEF ClientAsks, vars
    <3>2. Len(sent) + 1 \in DOMAIN sent' /\ sent'[Len(sent) + 1].name = n
      BY <2>1 DEF ClientAsks, ClientTypeOK
    <3>3. p.ask = Len(sent) + 1 /\ p.name = n OBVIOUS
    <3>4. inbox'[Len(inbox) + 1] = p BY <3>1 DEF ClientTypeOK
    <3> HIDE DEF p
    <3> QED BY <3>1, <3>2, <3>3, <3>4 DEF PacketComes
  <2>2. ASSUME NEW a \in DOMAIN sent, NEW good \in BOOLEAN, ClientIsAnswered(a, good)
        PROVE  PacketComes
    <3> DEFINE p == [kind |-> "answer", ip |-> sent[a].ip, id |-> sent[a].id,
                     name |-> sent[a].name, good |-> good, at |-> clock]
    <3>1. p.at = clock /\ inbox' = Append(inbox, p) /\ UNCHANGED clock
      BY <2>2 DEF ClientIsAnswered, vars
    <3>2. p.kind # "query" OBVIOUS
    <3>3. inbox'[Len(inbox) + 1] = p BY <3>1 DEF ClientTypeOK
    <3> HIDE DEF p
    <3> QED BY <3>1, <3>2, <3>3 DEF PacketComes
  <2> QED
    BY <1>1, <2>1, <2>2
    DEF Clients, DropClientPacket, RecordClientQuery, RecordClientResponse,
        ClientRegistryLoop, UpdateClientRegistry, clientWorld, vars
<1>2. CASE Resolvers
  <2>1. UNCHANGED inbox
    BY <1>2 DEF Resolvers, CaptureCaused, RecordQueryOfClient, ReplyMatchedOfClient,
                clientVars, clientWorld
  <2>2. Capture \/ Record
    <3>1. CASE \E k \in Keys, n \in Name, a \in 0..Len(sent) : CaptureCaused(k, n, a)
      BY <3>1 DEF CaptureCaused, Capture
    <3>2. CASE \E j \in 1..Len(asked), good \in BOOLEAN : CaptureReply(j, good)
      BY <3>2 DEF Capture
    <3> QED
      BY <1>2, <3>1, <3>2 DEF Resolvers, Record, RecordQueryOfClient, ReplyMatchedOfClient
  <2> QED BY <1>0, <2>1, <2>2, CaptureFrame, RecordFrame
<1>3. CASE CleanupAll BY <1>3 DEF CleanupAll, CleanupTransient, clientWorld
<1>4. CASE ClientTick BY <1>4 DEF ClientTick, Tick, clientVars, clientWorld
<1>5. CASE Watch /\ UNCHANGED clientVars
  BY <1>5, AsideFrame DEF Aside, clientVars, clientWorld
<1>6. CASE UNCHANGED allVars BY <1>6 DEF allVars, vars, clientVars, clientWorld
<1> QED BY <1>1, <1>2, <1>3, <1>4, <1>5, <1>6 DEF ClientNext

LEMMA InboxAges ==
  ASSUME ClientTypeOK, [ClientNext]_allVars, NEW i \in DOMAIN inbox',
         \A j \in DOMAIN inbox : inbox[j].at <= clock /\ clock - inbox[j].at <= 1
  PROVE  inbox'[i].at <= clock' /\ clock' - inbox'[i].at <= 1
<1>0. clock \in Nat /\ inbox \in Seq(ClientPackets) BY ClockTypes DEF ClientTypeOK
<1>1. CASE UNCHANGED <<inbox, clock>> BY <1>1
<1>2. CASE UNCHANGED clock /\ inbox # <<>> /\ inbox' = Tail(inbox)
  BY <1>2, InboxTail
<1>3. CASE PacketComes
  <2> DEFINE p == inbox'[Len(inbox) + 1]
  <2>1. p.at = clock /\ inbox' = Append(inbox, p) BY <1>3 DEF PacketComes
  <2> HIDE DEF p
  <2>2. inbox'[i] = p \/ (i \in DOMAIN inbox /\ inbox'[i] = inbox[i]) BY <1>0, <2>1
  <2> QED BY <1>0, <1>3, <2>1, <2>2 DEF PacketComes
<1>4. CASE /\ UNCHANGED inbox /\ clock' = clock + 1
           /\ \A j \in DOMAIN inbox : inbox[j].at = clock
  BY <1>0, <1>4
<1> QED BY <1>1, <1>2, <1>3, <1>4, InboxNext

\* A sweep is what moves swept.
LEMMA SweptStays ==
  ASSUME TypeOK, [ClientNext]_allVars
  PROVE  CleanupAll \/ swept' = swept
<1>1. CASE Clients
  BY <1>1 DEF Clients, ClientAsks, ClientIsAnswered, DropClientPacket, RecordClientQuery,
              RecordClientResponse, ClientRegistryLoop, UpdateClientRegistry, vars
<1>2. CASE Resolvers
  <2>1. CASE \E k \in Keys, n \in Name, a \in 0..Len(sent) : CaptureCaused(k, n, a)
    BY <2>1, CaptureFrame DEF CaptureCaused, Capture
  <2>2. CASE \E j \in 1..Len(asked), good \in BOOLEAN : CaptureReply(j, good)
    BY <2>2, CaptureFrame DEF Capture
  <2>3. CASE Record BY <2>3, RecordFrame
  <2> QED
    BY <1>2, <2>1, <2>2, <2>3 DEF Resolvers, Record, RecordQueryOfClient, ReplyMatchedOfClient
<1> QED
  BY <1>1, <1>2, AsideFrame DEF ClientNext, ClientTick, Tick, Aside, allVars, vars

LEMMA ClientAgesNext ==
  ASSUME ClientTypeOK, Clocks, ClientAges, [ClientNext]_allVars
  PROVE  ClientAges'
<1>0. /\ clock \in Nat /\ swept \in Nat /\ swept <= clock
      /\ ClientLimit \in Nat /\ MatchKeep \in Nat /\ DedupKeep \in Nat
      /\ \A c \in Txns : txn[c].when \in Nat
      /\ recentTxn \subseteq Txns /\ waitingTxn \subseteq Txns
  BY ClockTypes, ClientConstants, TxnTypes DEF ClientTypeOK, Clocks
<1>1. \A i \in DOMAIN inbox' : inbox'[i].at <= clock' /\ clock' - inbox'[i].at <= 1
  BY InboxAges DEF ClientAges
<1>2. \A c \in Txns : txn'[c].when = txn[c].when BY TxnNext DEF TxnStays, SameQuery
<1>3. CASE CleanupAll
  <2>1. swept' = clock BY <1>3 DEF CleanupAll, CleanupTransient
  <2>2. \A c \in waitingTxn' : clock - txn'[c].when <= ClientLimit + 1
    BY <1>0, <1>2, <1>3, TxnSwept DEF Late
  <2>3. \A c \in recentTxn' : clock - txn'[c].when <= MatchKeep + 1
    <3>1. recentTxn' = {c \in recentTxn : clock - txn[c].when <= MatchKeep}
      BY <1>3 DEF CleanupAll
    <3> QED BY <1>0, <1>2, <3>1
  <2>4. /\ \A k \in DOMAIN heardQ' : clock - heardQ'[k] <= DedupKeep + 1
        /\ \A k \in DOMAIN heardR' : clock - heardR'[k] <= DedupKeep + 1
    <3>1. /\ heardQ' = Drop(heardQ, {k \in DOMAIN heardQ : clock - heardQ[k] > DedupKeep})
          /\ heardR' = Drop(heardR, {k \in DOMAIN heardR : clock - heardR[k] > DedupKeep})
      BY <1>3 DEF CleanupAll
    <3>2. /\ \A k \in DOMAIN heardQ : heardQ[k] \in Nat
          /\ \A k \in DOMAIN heardR : heardR[k] \in Nat
      BY ScenarioTypes DEF ClientTypeOK, TypeOK, Times
    <3> QED BY <1>0, <3>1, <3>2 DEF Drop
  <2> QED BY ONLY <1>1, <2>1, <2>2, <2>3, <2>4 DEF ClientAges
<1>4. CASE RecordClientQuery
  <2> DEFINE p == Head(inbox)
  <2>1. inbox # <<>> /\ swept' = swept
    BY <1>4 DEF RecordClientQuery, vars
  <2>2. p.at \in Nat /\ swept - p.at <= 1
    BY <1>0, <2>1, HeadTypes DEF ClientAges
  <2>3. NewTxn.when = p.at BY DEF NewTxn
  <2> HIDE DEF p
  <2>4. \A c \in waitingTxn' : swept - txn'[c].when <= ClientLimit + 1
    BY <1>0, <1>2, <1>4, <2>2, <2>3, TxnAppended DEF ClientAges
  <2>5. \A c \in recentTxn' : swept - txn'[c].when <= MatchKeep + 1
    <3>1. recentTxn' \subseteq recentTxn \union {Len(txn) + 1}
      BY <1>4 DEF RecordClientQuery
    <3> QED BY <1>0, <1>2, <1>4, <2>2, <2>3, <3>1, TxnAppended DEF ClientAges
  <2>6. /\ \A k \in DOMAIN heardQ' : swept - heardQ'[k] <= DedupKeep + 1
        /\ \A k \in DOMAIN heardR' : swept - heardR'[k] <= DedupKeep + 1
    <3>1. heardQ' = Put(heardQ, <<p.ip, p.id, p.name>>, p.at) /\ heardR' = heardR
      BY <1>4 DEF RecordClientQuery, p
    <3>2. \A k \in DOMAIN heardQ' :
            heardQ'[k] = p.at \/ (k \in DOMAIN heardQ /\ heardQ'[k] = heardQ[k])
      BY <3>1 DEF Put
    <3> QED BY <1>0, <2>2, <3>1, <3>2 DEF ClientAges
  <2> QED BY ONLY <1>1, <2>1, <2>4, <2>5, <2>6 DEF ClientAges
<1>5. CASE RecordClientResponse
  <2> DEFINE p == Head(inbox)
             k == <<p.ip, p.id, p.name, p.good>>
  <2>1. /\ inbox # <<>> /\ swept' = swept /\ UNCHANGED <<recentTxn, heardQ>>
        /\ heardR' = Put(heardR, k, p.at)
    BY <1>5 DEF RecordClientResponse, vars
  <2>2. p.at \in Nat /\ swept - p.at <= 1
    BY <1>0, <2>1, HeadTypes DEF ClientAges
  <2>3. waitingTxn' \subseteq waitingTxn BY <1>5, TxnAnswered
  <2> HIDE DEF p, k
  <2>4. \A c \in waitingTxn' : swept - txn'[c].when <= ClientLimit + 1
    BY <1>0, <1>2, <2>3 DEF ClientAges
  <2>5. \A c \in recentTxn' : swept - txn'[c].when <= MatchKeep + 1
    BY <1>0, <1>2, <2>1 DEF ClientAges
  <2>6. \A l \in DOMAIN heardR' :
          heardR'[l] = p.at \/ (l \in DOMAIN heardR /\ heardR'[l] = heardR[l])
    BY <2>1 DEF Put
  <2>7. \A l \in DOMAIN heardR' : swept - heardR'[l] <= DedupKeep + 1
    BY <1>0, <2>2, <2>6 DEF ClientAges
  <2>8. \A l \in DOMAIN heardQ' : swept - heardQ'[l] <= DedupKeep + 1
    BY <2>1 DEF ClientAges
  <2> QED BY ONLY <1>1, <2>1, <2>4, <2>5, <2>7, <2>8 DEF ClientAges
<1>6. CASE UNCHANGED <<recentTxn, waitingTxn, heardQ, heardR, swept>>
  <2>1. \A c \in waitingTxn' : swept' - txn'[c].when <= ClientLimit + 1
    BY <1>0, <1>2, <1>6 DEF ClientAges
  <2>2. \A c \in recentTxn' : swept' - txn'[c].when <= MatchKeep + 1
    BY <1>0, <1>2, <1>6 DEF ClientAges
  <2>3. /\ \A k \in DOMAIN heardQ' : swept' - heardQ'[k] <= DedupKeep + 1
        /\ \A k \in DOMAIN heardR' : swept' - heardR'[k] <= DedupKeep + 1
    BY <1>6 DEF ClientAges
  <2> QED BY ONLY <1>1, <2>1, <2>2, <2>3 DEF ClientAges
<1>7. \/ CleanupAll \/ RecordClientQuery \/ RecordClientResponse
      \/ UNCHANGED <<recentTxn, waitingTxn, heardQ, heardR>>
  BY DEF ClientNext, Clients, Resolvers, ClientAsks, ClientIsAnswered, DropClientPacket,
         ClientRegistryLoop, UpdateClientRegistry, CaptureCaused, ReplyMatchedOfClient,
         RecordQueryOfClient, ClientTick, allVars, clientVars, clientStore
<1> QED BY <1>3, <1>4, <1>5, <1>6, <1>7, SweptStays DEF ClientTypeOK

\* What later arguments about clients start from.
ClientBase == Base /\ ClientTypeOK /\ ClientAges

LEMMA ClientBaseInit == ClientInit => ClientBase
<1> SUFFICES ASSUME ClientInit PROVE ClientBase OBVIOUS
<1>1. ClientAges BY DEF ClientInit, ClientAges
<1> QED BY <1>1, BaseInit, ClientTypesInit DEF ClientBase, ClientInit

LEMMA ClientBaseNext == ClientBase /\ [ClientNext]_allVars => ClientBase'
BY ResolverSteps, BaseNext, ClientTypesNext, ClientAgesNext DEF ClientBase, Base

LEMMA ClientBaseAlways == ClientSpec => []ClientBase
BY ClientBaseInit, ClientBaseNext, PTL DEF ClientSpec

\* Neither queries nor the memory of packets of clients or resolvers are kept
\* for longer than their limit and a period of the ticker allow: for any
\* limits and period, whatever packets come.
THEOREM AllKeptBriefly == ClientSpec => []AllPrompt
<1>1. ClientBase => /\ \A c \in waitingTxn : clock - txn[c].when <= ClientLimit + SweepEvery + 1
                    /\ \A c \in recentTxn : clock - txn[c].when <= MatchKeep + SweepEvery + 1
                    /\ \A k \in DOMAIN heardQ : clock - heardQ[k] <= DedupKeep + SweepEvery + 1
                    /\ \A k \in DOMAIN heardR : clock - heardR[k] <= DedupKeep + SweepEvery + 1
  <2> SUFFICES ASSUME ClientBase
               PROVE  /\ \A c \in waitingTxn : clock - txn[c].when <= ClientLimit + SweepEvery + 1
                      /\ \A c \in recentTxn : clock - txn[c].when <= MatchKeep + SweepEvery + 1
                      /\ \A k \in DOMAIN heardQ : clock - heardQ[k] <= DedupKeep + SweepEvery + 1
                      /\ \A k \in DOMAIN heardR : clock - heardR[k] <= DedupKeep + SweepEvery + 1
    OBVIOUS
  <2>1. /\ clock \in Nat /\ swept \in Nat /\ clock - swept <= SweepEvery /\ SweepEvery \in Nat
        /\ ClientLimit \in Nat /\ MatchKeep \in Nat /\ DedupKeep \in Nat
    BY ClockTypes, ClientConstants, Constants DEF ClientBase, Base, Clocks
  <2>2. \A c \in recentTxn \union waitingTxn : txn[c].when \in Nat
    BY TxnTypes DEF ClientBase, ClientTypeOK
  <2>3. /\ \A k \in DOMAIN heardQ : heardQ[k] \in Nat
        /\ \A k \in DOMAIN heardR : heardR[k] \in Nat
    BY ScenarioTypes DEF ClientBase, ClientTypeOK, TypeOK, Times
  <2> QED BY <2>1, <2>2, <2>3 DEF ClientBase, ClientAges
<1> QED BY <1>1, ClientBaseAlways, ClientsAddOn, KeptBriefly, PTL DEF AllPrompt

-----------------------------------------------------------------------------
(* The account of the devices.                                             *)

\* The queries of S that are a device's.
Owned(S, m) == {c \in S : txn[c].mac = m}

LEMMA OwnedFinite ==
  ASSUME ClientTypeOK, NEW S \in SUBSET Txns, NEW m
  PROVE  /\ IsFiniteSet(S) /\ IsFiniteSet(Owned(S, m))
         /\ Cardinality(Owned(S, m)) \in Nat
<1>1. IsFiniteSet(S) BY TxnsFinite, FS_Subset
<1>2. Owned(S, m) \subseteq S BY DEF Owned
<1> QED BY <1>1, <1>2, FS_Subset, FS_CardinalityType

LEMMA DeviceTypes ==
  ASSUME ClientTypeOK, NEW m \in Mac
  PROVE  device[m] \in Devices /\ \A f \in DeviceFields : device[m][f] \in Nat
BY DEF ClientTypeOK, Devices

\* The fields a device's queries are counted in.
QueryFields == {"requests", "responses", "timeouts", "forwarded", "local", "errors"}

\* A query to a resolver is put down to the device it seems to come from, and
\* a fallback to the device behind the query it replaces.
LEMMA DeviceLinked ==
  ASSUME ClientTypeOK, RecordQueryOfClient, NEW m \in Mac
  PROVE  /\ \A f \in DeviceFields \ {"matched", "fallbacks"} : device'[m][f] = device[m][f]
         /\ device'[m].matched = device[m].matched
              + IF Match # 0 /\ txn[Match].mac = m THEN 1 ELSE 0
         /\ device'[m].fallbacks = device[m].fallbacks
              + IF From # 0 /\ txn[From].mac = m THEN 1 ELSE 0
<1>0. held.kind = "query" /\ device \in [Mac -> Devices]
  BY DEF RecordQueryOfClient, RecordQuery, ClientTypeOK
<1>1. \/ /\ Match # 0
         /\ device' = Handover(Charge(device, txn[Match].mac, {"matched"}), From)
      \/ Match = 0 /\ device' = Handover(device, From)
  BY DEF RecordQueryOfClient, From
<1>2. (Match # 0 => txn[Match].mac \in Mac) /\ (From # 0 => txn[From].mac \in Mac)
  BY <1>0, MatchTypes, FromTypes, TxnTypes
<1>3. {"matched", "fallbacks"} \subseteq DeviceFields BY DEF DeviceFields
<1>4. ASSUME NEW d \in [Mac -> Devices], NEW f \in DeviceFields
      PROVE  Handover(d, From)[m][f] =
               IF f = "fallbacks" /\ From # 0 /\ txn[From].mac = m THEN d[m][f] + 1 ELSE d[m][f]
  <2>1. CASE From = 0 BY <2>1 DEF Handover
  <2>2. CASE From # 0
    <3>1. Handover(d, From) = Charge(d, txn[From].mac, {"fallbacks"}) BY <2>2 DEF Handover
    <3>2. txn[From].mac \in Mac BY <1>2, <2>2
    <3> QED BY <2>2, <3>1, <3>2, ChargeFacts
  <2> QED BY <2>1, <2>2
<1>5. \A f \in DeviceFields : device[m][f] \in Nat BY DeviceTypes
<1>6. CASE Match = 0 /\ device' = Handover(device, From)
  <2>1. \A f \in DeviceFields : device'[m][f] =
          IF f = "fallbacks" /\ From # 0 /\ txn[From].mac = m
          THEN device[m][f] + 1 ELSE device[m][f]
    BY <1>0, <1>4, <1>6
  <2> QED BY <1>3, <1>5, <1>6, <2>1
<1>7. CASE Match # 0 /\ device' = Handover(Charge(device, txn[Match].mac, {"matched"}), From)
  <2> DEFINE d == Charge(device, txn[Match].mac, {"matched"})
  <2>1. txn[Match].mac \in Mac BY <1>2, <1>7
  <2>2. /\ d \in [Mac -> Devices]
        /\ \A f \in DeviceFields : d[m][f] =
             IF m = txn[Match].mac /\ f \in {"matched"} THEN device[m][f] + 1 ELSE device[m][f]
    BY <1>0, <2>1, ChargeFacts
  <2> HIDE DEF d
  <2>3. \A f \in DeviceFields : device'[m][f] =
          IF f = "fallbacks" /\ From # 0 /\ txn[From].mac = m THEN d[m][f] + 1 ELSE d[m][f]
    BY <1>4, <1>7, <2>2 DEF d
  <2> QED BY <1>3, <1>5, <1>7, <2>2, <2>3
<1> QED BY <1>1, <1>6, <1>7

\* The client's query behind an upstream query that is pending, or 0.
Behind(k) == txnOf[pending[k].query]

\* An error of a resolver is charged to the device behind its query.
LEMMA DeviceReply ==
  ASSUME ClientTypeOK, ReplyMatchedOfClient, NEW m \in Mac
  PROVE  /\ \A f \in DeviceFields \ {"upErrors"} : device'[m][f] = device[m][f]
         /\ device'[m].upErrors = device[m].upErrors \/
              /\ device'[m].upErrors = device[m].upErrors + 1
              /\ Behind(held.key) # 0 /\ txn[Behind(held.key)].mac = m
<1> DEFINE c == Behind(held.key)
<1>1. /\ held.key \in DOMAIN pending
      /\ \/ c # 0 /\ device' = Charge(device, txn[c].mac, {"upErrors"})
         \/ device' = device
  BY DEF ReplyMatchedOfClient, ReplyMatched, Behind
<1>2. c # 0 => txn[c].mac \in Mac
  BY <1>1, PendingTypes, TxnTypes DEF ClientTypeOK, Behind
<1>3. device \in [Mac -> Devices] /\ "upErrors" \in DeviceFields
  BY DEF ClientTypeOK, DeviceFields
<1> HIDE DEF c
<1>4. CASE c # 0 /\ device' = Charge(device, txn[c].mac, {"upErrors"})
  <2>1. \A f \in DeviceFields : device'[m][f] =
          IF m = txn[c].mac /\ f \in {"upErrors"} THEN device[m][f] + 1 ELSE device[m][f]
    BY <1>2, <1>3, <1>4, ChargeFacts
  <2> QED BY <1>3, <1>4, <2>1 DEF c
<1>5. CASE device' = device BY <1>5
<1> QED BY <1>1, <1>4, <1>5

\* The pending queries of a device that a sweep gives up.
Charged(m) ==
  {k \in Overdue : k.port \in Known /\ txnOf[pending[k].query]
                                        \in {c \in Txns : txn[c].mac = m}}

LEMMA DeviceSwept ==
  ASSUME ClientTypeOK, Finite, CleanupAll, NEW m \in Mac
  PROVE  /\ \A f \in DeviceFields \ {"upTimeouts", "timeouts"} : device'[m][f] = device[m][f]
         /\ device'[m].upTimeouts = device[m].upTimeouts + Cardinality(Charged(m))
         /\ device'[m].timeouts = device[m].timeouts + Cardinality(Owned(Late, m))
         /\ IsFiniteSet(Charged(m)) /\ Cardinality(Charged(m)) \in Nat
<1> DEFINE a == Cardinality(Charged(m))
           b == Cardinality(Owned(Late, m))
<1>1. device'[m] = Add(Add(device[m], {"upTimeouts"}, a), {"timeouts"}, b)
  BY DEF CleanupAll, Charged, Owned, Late
<1>2. IsFiniteSet(Charged(m)) BY FS_Subset DEF Finite, Overdue, Charged
<1>3. a \in Nat /\ b \in Nat
  BY <1>2, FS_CardinalityType, OwnedFinite DEF Late, ClientTypeOK
<1> HIDE DEF a, b
<1>4. /\ Add(device[m], {"upTimeouts"}, a) \in Devices
      /\ \A f \in DeviceFields : Add(device[m], {"upTimeouts"}, a)[f] =
           IF f \in {"upTimeouts"} THEN device[m][f] + a ELSE device[m][f]
  BY <1>3, DeviceTypes, AddDevice
<1>5. \A f \in DeviceFields : device'[m][f] =
        IF f \in {"timeouts"} THEN Add(device[m], {"upTimeouts"}, a)[f] + b
                             ELSE Add(device[m], {"upTimeouts"}, a)[f]
  BY <1>1, <1>3, <1>4, AddDevice
<1>6. {"upTimeouts", "timeouts"} \subseteq DeviceFields BY DEF DeviceFields
<1> QED BY <1>2, <1>3, <1>4, <1>5, <1>6 DEF a, b

\* The steps that leave the devices alone.
LEMMA DeviceFrame ==
  ASSUME [ClientNext]_allVars
  PROVE  \/ UNCHANGED device
         \/ RecordClientQuery \/ RecordClientResponse
         \/ RecordQueryOfClient \/ ReplyMatchedOfClient \/ CleanupAll
BY DEF ClientNext, Clients, Resolvers, ClientAsks, ClientIsAnswered, DropClientPacket,
       ClientRegistryLoop, UpdateClientRegistry, CaptureCaused,
       ClientTick, allVars, clientVars, clientStore

\* What a device asked is what came of it.
Balanced(m) ==
  /\ device[m].requests = device[m].responses + device[m].timeouts
                             + Cardinality(Owned(waitingTxn, m))
  /\ device[m].responses = device[m].forwarded + device[m].local + device[m].errors

LEMMA BalancedNext ==
  ASSUME ClientTypeOK, ClientTypeOK', Finite, [ClientNext]_allVars, NEW m \in Mac, Balanced(m)
  PROVE  Balanced(m)'
<1> USE DEF QueryFields
<1>0. /\ waitingTxn \subseteq Txns /\ Cardinality(Owned(waitingTxn, m)) \in Nat
      /\ IsFiniteSet(Owned(waitingTxn, m))
      /\ \A f \in DeviceFields : device[m][f] \in Nat
      /\ QueryFields \subseteq DeviceFields /\ device \in [Mac -> Devices]
  BY OwnedFinite, DeviceTypes DEF ClientTypeOK, DeviceFields
<1>1. \A c \in Txns : txn'[c].mac = txn[c].mac BY TxnNext DEF TxnStays, SameQuery
<1>2. ASSUME UNCHANGED waitingTxn, \A f \in QueryFields : device'[m][f] = device[m][f]
      PROVE  Balanced(m)'
  <2>1. Owned(waitingTxn, m)' = Owned(waitingTxn, m) BY <1>0, <1>1, <1>2 DEF Owned
  <2> QED BY <1>2, <2>1 DEF Balanced
<1>3. CASE RecordClientQuery
  <2> DEFINE n == Len(txn) + 1
             o == Owner(Head(inbox)).mac
  <2>1. inbox # <<>> /\ Head(inbox).kind = "query" /\ device' = Charge(device, o, {"requests"})
    BY <1>3 DEF RecordClientQuery
  <2>2. o \in Mac BY <2>1, HeadTypes, OwnerTypes
  <2>3. /\ n \notin Txns /\ waitingTxn' = waitingTxn \union {n} /\ txn'[n].mac = o
    BY <1>3, TxnAppended DEF NewTxn
  <2>4. \A f \in DeviceFields : device'[m][f] =
          IF m = o /\ f \in {"requests"} THEN device[m][f] + 1 ELSE device[m][f]
    BY <1>0, <2>1, <2>2, ChargeFacts
  <2> HIDE DEF n, o
  <2>5. Owned(waitingTxn, m)' =
          IF m = o THEN Owned(waitingTxn, m) \union {n} ELSE Owned(waitingTxn, m)
    BY <1>0, <1>1, <2>3 DEF Owned
  <2>6. n \notin Owned(waitingTxn, m) BY <1>0, <2>3 DEF Owned
  <2>7. CASE m = o
    <3>1. Cardinality(Owned(waitingTxn, m)') = Cardinality(Owned(waitingTxn, m)) + 1
      BY <1>0, <2>5, <2>6, <2>7, FS_AddElement
    <3>2. /\ device'[m].requests = device[m].requests + 1
          /\ \A f \in QueryFields \ {"requests"} : device'[m][f] = device[m][f]
      BY <1>0, <2>4, <2>7
    <3> QED BY <1>0, <3>1, <3>2 DEF Balanced
  <2>8. CASE m # o
    <3>1. \A f \in QueryFields : device'[m][f] = device[m][f] BY <1>0, <2>4, <2>8
    <3>2. Owned(waitingTxn, m)' = Owned(waitingTxn, m) BY <2>5, <2>8
    <3> QED BY <3>1, <3>2 DEF Balanced
  <2> QED BY <2>7, <2>8
<1>4. CASE RecordClientResponse
  <2>1. CASE UNCHANGED <<device, txn, waitingTxn>> BY <1>2, <2>1
  <2>2. ASSUME NEW c \in waitingTxn, NEW o \in Outcomes \ {"CLIENT_TIMEOUT"},
               device' = Charge(device, txn[c].mac, {"responses", CountedAs[o]}),
               waitingTxn' = waitingTxn \ {c}
        PROVE  Balanced(m)'
    <3>1. txn[c].mac \in Mac BY <1>0, TxnTypes
    <3>2. \A f \in DeviceFields : device'[m][f] =
            IF m = txn[c].mac /\ f \in {"responses", CountedAs[o]}
            THEN device[m][f] + 1 ELSE device[m][f]
      BY <1>0, <2>2, <3>1, ChargeFacts
    <3>3. CountedAs[o] \in {"forwarded", "local", "errors"}
      BY DEF CountedAs, Outcomes
    <3>4. Owned(waitingTxn, m)' =
            IF m = txn[c].mac THEN Owned(waitingTxn, m) \ {c} ELSE Owned(waitingTxn, m)
      BY <1>0, <1>1, <2>2 DEF Owned
    <3>5. m = txn[c].mac => c \in Owned(waitingTxn, m) BY DEF Owned
    <3>6. CASE m # txn[c].mac
      <4>1. \A f \in QueryFields : device'[m][f] = device[m][f] BY <1>0, <3>2, <3>6
      <4>2. Owned(waitingTxn, m)' = Owned(waitingTxn, m) BY <3>4, <3>6
      <4> QED BY <4>1, <4>2 DEF Balanced
    <3>7. CASE m = txn[c].mac
      <4>1. /\ device'[m].responses = device[m].responses + 1
            /\ device'[m].requests = device[m].requests
            /\ device'[m].timeouts = device[m].timeouts
        BY <1>0, <3>2, <3>3, <3>7
      <4>2. /\ device[m].forwarded \in Nat /\ device[m].local \in Nat /\ device[m].errors \in Nat
            /\ \/ /\ device'[m].forwarded = device[m].forwarded + 1
                  /\ device'[m].local = device[m].local /\ device'[m].errors = device[m].errors
               \/ /\ device'[m].local = device[m].local + 1
                  /\ device'[m].forwarded = device[m].forwarded
                  /\ device'[m].errors = device[m].errors
               \/ /\ device'[m].errors = device[m].errors + 1
                  /\ device'[m].local = device[m].local
                  /\ device'[m].forwarded = device[m].forwarded
        BY <1>0, <3>2, <3>3, <3>7
      <4>3. Cardinality(Owned(waitingTxn, m)') = Cardinality(Owned(waitingTxn, m)) - 1
        <5> DEFINE S == Owned(waitingTxn, m)
        <5>1. S' = S \ {c} /\ c \in S /\ IsFiniteSet(S) BY <1>0, <3>4, <3>5, <3>7
        <5> HIDE DEF S
        <5>2. Cardinality(S \ {c}) = Cardinality(S) - 1 BY <5>1, FS_RemoveElement
        <5>3. Cardinality(S') = Cardinality(S) - 1 BY <5>1, <5>2
        <5> QED BY <5>3 DEF S
      <4>4. /\ device[m].requests \in Nat /\ device[m].responses \in Nat
            /\ device[m].timeouts \in Nat
        BY <1>0
      <4> QED BY <1>0, <4>1, <4>2, <4>3, <4>4 DEF Balanced
    <3> QED BY <3>6, <3>7
  <2> QED BY <1>4, <2>1, <2>2, TxnAnswered
<1>5. CASE RecordQueryOfClient
  <2>1. UNCHANGED waitingTxn BY <1>5, TxnLinked
  <2>2. \A f \in QueryFields : device'[m][f] = device[m][f]
    BY <1>0, <1>5, DeviceLinked
  <2> QED BY <1>2, <2>1, <2>2
<1>6. CASE ReplyMatchedOfClient
  <2>1. UNCHANGED waitingTxn BY <1>6 DEF ReplyMatchedOfClient
  <2>2. \A f \in QueryFields : device'[m][f] = device[m][f]
    BY <1>0, <1>6, DeviceReply
  <2> QED BY <1>2, <2>1, <2>2
<1>7. CASE CleanupAll
  <2>1. /\ \A f \in QueryFields \ {"timeouts"} : device'[m][f] = device[m][f]
        /\ device'[m].timeouts = device[m].timeouts + Cardinality(Owned(Late, m))
    BY <1>0, <1>7, DeviceSwept
  <2>2. waitingTxn' = waitingTxn \ Late /\ Late \subseteq waitingTxn
    BY <1>7, TxnSwept DEF Late
  <2>3. Owned(waitingTxn, m)' = Owned(waitingTxn, m) \ Owned(Late, m)
        /\ Owned(Late, m) \subseteq Owned(waitingTxn, m)
    BY <1>0, <1>1, <2>2 DEF Owned
  <2>4. /\ Cardinality(Owned(Late, m)) \in Nat
        /\ Cardinality(Owned(waitingTxn, m)') =
              Cardinality(Owned(waitingTxn, m)) - Cardinality(Owned(Late, m))
    <3>1. Owned(waitingTxn, m) \intersect Owned(Late, m) = Owned(Late, m) BY <2>3
    <3>2. Cardinality(Owned(Late, m)) \in Nat BY <1>0, <2>2, OwnedFinite
    <3> QED BY <1>0, <2>3, <3>1, <3>2, FS_Difference
  <2> QED BY <1>0, <2>1, <2>4 DEF Balanced
<1>8. CASE UNCHANGED device
  <2>1. CASE RecordClientQuery BY <1>3, <2>1
  <2>2. CASE RecordClientResponse BY <1>4, <2>2
  <2>3. CASE RecordQueryOfClient BY <1>5, <2>3
  <2>4. CASE CleanupAll BY <1>7, <2>4
  <2>5. CASE UNCHANGED waitingTxn BY <1>2, <1>8, <2>5
  <2> QED BY <2>1, <2>2, <2>3, <2>4, <2>5, TxnFrame
<1> QED BY <1>3, <1>4, <1>5, <1>6, <1>7, <1>8, DeviceFrame

\* The pending queries to resolvers that are put down to a device.
Linked(m) == {k \in DOMAIN pending : Behind(k) # 0 /\ txn[Behind(k)].mac = m}

LEMMA BehindTypes ==
  ASSUME ClientTypeOK, NEW k \in DOMAIN pending
  PROVE  Behind(k) \in {0} \union Txns /\ (Behind(k) # 0 => txn[Behind(k)].mac \in Mac)
<1>1. Behind(k) \in {0} \union Txns BY PendingTypes DEF ClientTypeOK, Behind
<1> QED BY <1>1, TxnTypes

\* A recorded query is one of the resolver side, with what that does to clients.
LEMMA RecordIsClients ==
  ASSUME TypeOK, [ClientNext]_allVars, RecordQuery
  PROVE  RecordQueryOfClient
<1>1. held # NoPacket /\ held' = NoPacket /\ held.kind = "query"
  BY RecordFrame DEF Record, RecordQuery
<1>2. ~Clients
  BY <1>1 DEF Clients, ClientAsks, ClientIsAnswered, DropClientPacket, RecordClientQuery,
              RecordClientResponse, ClientRegistryLoop, UpdateClientRegistry, vars
<1>3. ~CleanupAll /\ ~ClientTick /\ ~UNCHANGED allVars
  BY <1>1 DEF CleanupAll, CleanupTransient, ClientTick, Tick, allVars, vars
<1>4. ~Watch BY <1>1, AsideFrame DEF Aside
<1>5. Resolvers BY <1>2, <1>3, <1>4 DEF ClientNext
<1>6. ~\E k \in Keys, n \in Name, a \in 0..Len(sent) : CaptureCaused(k, n, a)
  BY <1>1 DEF CaptureCaused, CaptureQuery
<1>7. ~\E j \in 1..Len(asked), good \in BOOLEAN : CaptureReply(j, good)
  BY <1>1 DEF CaptureReply
<1>8. ~(ReplyIgnored \/ ReplyLate \/ ReplyUnmatched \/ ReplyMatched)
  BY <1>1 DEF ReplyIgnored, ReplyLate, ReplyUnmatched, ReplyMatched
<1> QED BY <1>5, <1>6, <1>7, <1>8 DEF Resolvers, ReplyMatchedOfClient

\* Only a query that is recorded gets a link.
LEMMA LinksNext ==
  ASSUME [ClientNext]_allVars
  PROVE  UNCHANGED txnOf \/ RecordQueryOfClient
BY DEF ClientNext, Clients, Resolvers, ClientAsks, ClientIsAnswered, DropClientPacket,
       ClientRegistryLoop, UpdateClientRegistry, CaptureCaused, ReplyMatchedOfClient,
       RecordClientQuery, RecordClientResponse, CleanupAll,
       ClientTick, allVars, clientVars, clientStore

LEMMA LinkedNext ==
  ASSUME ClientTypeOK, Traced, [ClientNext]_allVars, NEW m \in Mac, NEW k \in Linked(m)'
  PROVE  \/ /\ k \in Linked(m)
            /\ RecordQueryOfClient => k # held.key
            /\ ReplyMatchedOfClient => k # held.key
            /\ CleanupAll => k \notin Overdue
         \/ /\ RecordQueryOfClient /\ k = held.key
            /\ \/ Match # 0 /\ txn[Match].mac = m
               \/ Match = 0 /\ From # 0 /\ txn[From].mac = m
<1>0. TypeOK /\ [Next]_vars /\ k \in DOMAIN pending'
  BY ResolverSteps DEF ClientTypeOK, Linked
<1>1. \A c \in Txns : txn'[c].mac = txn[c].mac BY TxnNext DEF TxnStays, SameQuery
<1>2. txnOf'[pending'[k].query] # 0 /\ txn'[txnOf'[pending'[k].query]].mac = m
  BY DEF Linked, Behind
<1>3. CASE /\ k \in DOMAIN pending /\ pending'[k] = pending[k]
           /\ RecordQuery => k # held.key
           /\ ReplyMatched => k # held.key
           /\ CleanupTransient => k \notin Overdue
  <2>1. txnOf'[pending[k].query] = Behind(k)
    <3>1. CASE UNCHANGED txnOf BY <3>1 DEF Behind
    <3>2. CASE RecordQueryOfClient
      <4>1. verdict[held.query] = {}
        BY <3>2 DEF RecordQueryOfClient, RecordQuery, Traced
      <4>2. "request" \in verdict[pending[k].query] BY <1>3 DEF Traced, IsRequest
      <4>3. txnOf' = [txnOf EXCEPT ![held.query] = IF Match # 0 THEN Match ELSE From]
        BY <3>2 DEF RecordQueryOfClient, From
      <4> QED BY <4>1, <4>2, <4>3 DEF Behind
    <3> QED BY <3>1, <3>2, LinksNext
  <2>2. Behind(k) # 0 /\ txn'[Behind(k)].mac = m BY <1>2, <1>3, <2>1
  <2>3. Behind(k) \in Txns BY <1>3, <2>2, BehindTypes
  <2>4. k \in Linked(m) BY <1>1, <1>3, <2>2, <2>3 DEF Linked
  <2> QED BY <1>3, <2>4 DEF RecordQueryOfClient, ReplyMatchedOfClient, CleanupAll
<1>4. CASE /\ RecordQuery /\ k = held.key
           /\ pending'[k] = [query |-> held.query, name |-> held.name, when |-> held.at]
  <2> DEFINE c == IF Match # 0 THEN Match ELSE From
  <2>1. RecordQueryOfClient BY <1>0, <1>4, RecordIsClients
  <2>2. txnOf' = [txnOf EXCEPT ![held.query] = c] BY <2>1 DEF RecordQueryOfClient, From
  <2>3. held.query \in Numbers /\ held.kind = "query"
    BY <1>0, <1>4, RecordFrame, HeldTypes DEF Record, RecordQuery
  <2>4. txnOf'[held.query] = c BY <2>2, <2>3 DEF ClientTypeOK
  <2>5. c # 0 /\ txn'[c].mac = m BY <1>2, <1>4, <2>4
  <2>6. c \in Txns BY <2>3, <2>5, MatchTypes, FromTypes
  <2>7. txn[c].mac = m BY <1>1, <2>5, <2>6
  <2> QED BY <1>4, <2>1, <2>5, <2>7
<1> QED BY <1>0, <1>3, <1>4, PendingNext

\* A device is charged with no more than what is put down to it.
Blamed(m) ==
  device[m].upErrors + device[m].upTimeouts + Cardinality(Linked(m))
    <= device[m].matched + device[m].fallbacks

LEMMA BlamedNext ==
  ASSUME ClientTypeOK, Finite, Traced, [ClientNext]_allVars, NEW m \in Mac, Blamed(m)
  PROVE  Blamed(m)'
<1> DEFINE L == Linked(m)
           BlameFields == {"upErrors", "upTimeouts", "matched", "fallbacks"}
<1>0. /\ IsFiniteSet(L) /\ Cardinality(L) \in Nat
      /\ \A f \in DeviceFields : device[m][f] \in Nat
      /\ BlameFields \subseteq DeviceFields /\ device \in [Mac -> Devices]
  <2>1. IsFiniteSet(L) BY FS_Subset DEF Finite, Linked
  <2> QED BY <2>1, FS_CardinalityType, DeviceTypes DEF ClientTypeOK, DeviceFields
<1>1. CASE ~RecordQueryOfClient
  <2>1. L' \subseteq L BY <1>1, LinkedNext
  <2>2. IsFiniteSet(L') /\ Cardinality(L') \in Nat /\ Cardinality(L') <= Cardinality(L)
    BY <1>0, <2>1, FS_Subset, FS_CardinalityType
  <2>3. ASSUME \A f \in BlameFields : device'[m][f] = device[m][f] PROVE Blamed(m)'
    <3> HIDE DEF L
    <3>1. /\ device'[m].upErrors = device[m].upErrors /\ device'[m].upTimeouts = device[m].upTimeouts
          /\ device'[m].matched = device[m].matched /\ device'[m].fallbacks = device[m].fallbacks
          /\ device[m].upErrors \in Nat /\ device[m].upTimeouts \in Nat
          /\ device[m].matched \in Nat /\ device[m].fallbacks \in Nat
      BY <1>0, <2>3
    <3> QED BY <1>0, <2>2, <3>1 DEF Blamed, L
  <2>4. CASE RecordClientQuery
    <3> DEFINE o == Owner(Head(inbox)).mac
    <3>1. inbox # <<>> /\ Head(inbox).kind = "query" /\ device' = Charge(device, o, {"requests"})
      BY <2>4 DEF RecordClientQuery
    <3>2. o \in Mac BY <3>1, HeadTypes, OwnerTypes
    <3> HIDE DEF o
    <3>3. \A f \in DeviceFields : device'[m][f] =
            IF m = o /\ f \in {"requests"} THEN device[m][f] + 1 ELSE device[m][f]
      BY <1>0, <3>1, <3>2, ChargeFacts
    <3> QED BY <1>0, <2>3, <3>3
  <2>5. CASE RecordClientResponse
    <3>1. ASSUME NEW c \in waitingTxn, NEW o \in Outcomes \ {"CLIENT_TIMEOUT"},
                 device' = Charge(device, txn[c].mac, {"responses", CountedAs[o]})
          PROVE  Blamed(m)'
      <4>1. txn[c].mac \in Mac BY TxnTypes DEF ClientTypeOK
      <4>2. \A f \in DeviceFields : device'[m][f] =
              IF m = txn[c].mac /\ f \in {"responses", CountedAs[o]}
              THEN device[m][f] + 1 ELSE device[m][f]
        BY <1>0, <3>1, <4>1, ChargeFacts
      <4>3. CountedAs[o] \in {"forwarded", "local", "errors"} BY DEF CountedAs, Outcomes
      <4> QED BY <1>0, <2>3, <4>2, <4>3
    <3>2. CASE UNCHANGED device BY <2>3, <3>2
    <3> QED BY <2>5, <3>1, <3>2, TxnAnswered
  <2>6. CASE ReplyMatchedOfClient
    <3>1. /\ \A f \in BlameFields \ {"upErrors"} : device'[m][f] = device[m][f]
          /\ \/ device'[m].upErrors = device[m].upErrors
             \/ /\ device'[m].upErrors = device[m].upErrors + 1
                /\ Behind(held.key) # 0 /\ txn[Behind(held.key)].mac = m
      BY <1>0, <2>6, DeviceReply
    <3>2. CASE device'[m].upErrors = device[m].upErrors BY <2>3, <3>1, <3>2
    <3>3. CASE /\ device'[m].upErrors = device[m].upErrors + 1
               /\ Behind(held.key) # 0 /\ txn[Behind(held.key)].mac = m
      <4>1. held.key \in L
        BY <2>6, <3>3 DEF ReplyMatchedOfClient, ReplyMatched, Linked
      <4>2. L' \subseteq L \ {held.key} BY <1>1, <2>6, LinkedNext
      <4> HIDE DEF L
      <4>3. IsFiniteSet(L \ {held.key}) /\ Cardinality(L \ {held.key}) = Cardinality(L) - 1
        BY <1>0, <4>1, FS_RemoveElement
      <4>4. Cardinality(L') <= Cardinality(L) - 1 BY <4>2, <4>3, FS_Subset
      <4>5. /\ device'[m].upTimeouts = device[m].upTimeouts
            /\ device'[m].matched = device[m].matched /\ device'[m].fallbacks = device[m].fallbacks
            /\ device[m].upErrors \in Nat /\ device[m].upTimeouts \in Nat
            /\ device[m].matched \in Nat /\ device[m].fallbacks \in Nat
        BY <1>0, <3>1
      <4> QED BY <1>0, <2>2, <3>3, <4>4, <4>5 DEF Blamed, L
    <3> QED BY <3>1, <3>2, <3>3
  <2>7. CASE CleanupAll
    <3> DEFINE C == Charged(m)
    <3>1. /\ \A f \in BlameFields \ {"upTimeouts"} : device'[m][f] = device[m][f]
          /\ device'[m].upTimeouts = device[m].upTimeouts + Cardinality(C)
          /\ IsFiniteSet(C) /\ Cardinality(C) \in Nat
      BY <1>0, <2>7, DeviceSwept
    <3>2. C \subseteq L
      BY TxnTypes DEF Charged, Overdue, Linked, Behind
    <3>3. L' \subseteq L \ C BY <1>1, <2>7, LinkedNext DEF Charged
    <3> HIDE DEF L, C
    <3>4. IsFiniteSet(L \ C) /\ Cardinality(L \ C) = Cardinality(L) - Cardinality(C)
      <4>1. L \intersect C = C BY <3>2
      <4> QED BY <1>0, <4>1, FS_Difference
    <3>5. Cardinality(L') <= Cardinality(L) - Cardinality(C) BY <3>3, <3>4, FS_Subset
    <3>6. /\ device'[m].upErrors = device[m].upErrors
          /\ device'[m].matched = device[m].matched /\ device'[m].fallbacks = device[m].fallbacks
          /\ device[m].upErrors \in Nat /\ device[m].upTimeouts \in Nat
          /\ device[m].matched \in Nat /\ device[m].fallbacks \in Nat
      BY <1>0, <3>1
    <3> QED BY <1>0, <2>2, <3>1, <3>5, <3>6 DEF Blamed, L
  <2>8. CASE UNCHANGED device BY <2>3, <2>8
  <2> QED BY <1>1, <2>4, <2>5, <2>6, <2>7, <2>8, DeviceFrame
<1>2. CASE RecordQueryOfClient
  <2> DEFINE a == IF Match # 0 /\ txn[Match].mac = m THEN 1 ELSE 0
             b == IF From # 0 /\ txn[From].mac = m THEN 1 ELSE 0
  <2>1. /\ device'[m].upErrors = device[m].upErrors /\ device'[m].upTimeouts = device[m].upTimeouts
        /\ device'[m].matched = device[m].matched + a
        /\ device'[m].fallbacks = device[m].fallbacks + b
        /\ device[m].upErrors \in Nat /\ device[m].upTimeouts \in Nat
        /\ device[m].matched \in Nat /\ device[m].fallbacks \in Nat
    BY <1>0, <1>2, DeviceLinked
  <2>2. L' \subseteq L \union {held.key} BY <1>2, LinkedNext
  <2>3. a = 0 /\ b = 0 => L' \subseteq L BY <1>2, LinkedNext
  <2>4. a \in {0, 1} /\ b \in {0, 1} OBVIOUS
  <2> HIDE DEF L, a, b
  <2>5. /\ IsFiniteSet(L \union {held.key})
        /\ Cardinality(L \union {held.key}) <= Cardinality(L) + 1
    <3>1. IsFiniteSet(L) /\ Cardinality(L) \in Nat BY <1>0
    <3> DEFINE c == Cardinality(L)
    <3>2. /\ IsFiniteSet(L \union {held.key})
          /\ Cardinality(L \union {held.key}) = IF held.key \in L THEN c ELSE c + 1
      BY <3>1, FS_AddElement
    <3> HIDE DEF c
    <3>3. c \in Nat => (c <= c + 1 /\ c <= c) OBVIOUS
    <3> QED BY <3>1, <3>2, <3>3 DEF c
  <2>6. IsFiniteSet(L') /\ Cardinality(L') \in Nat
        /\ Cardinality(L') <= Cardinality(L \union {held.key})
    BY <2>2, <2>5, FS_Subset, FS_CardinalityType
  <2>7. Cardinality(L \union {held.key}) \in Nat BY <2>5, FS_CardinalityType
  <2>8. a = 0 /\ b = 0 => Cardinality(L') <= Cardinality(L) BY <1>0, <2>3, FS_Subset
  <2>9. Cardinality(L') <= Cardinality(L) + a + b
    BY <1>0, <2>4, <2>5, <2>6, <2>7, <2>8
  <2> QED BY <1>0, <2>1, <2>4, <2>6, <2>9 DEF Blamed, L
<1> QED BY <1>1, <1>2

DevicesInv == ClientBase /\ Traced /\ \A m \in Mac : Balanced(m) /\ Blamed(m)

LEMMA DevicesInit == ClientInit => DevicesInv
<1> SUFFICES ASSUME ClientInit PROVE DevicesInv OBVIOUS
<1>1. ClientBase /\ Traced BY ClientBaseInit, TracedInit DEF ClientInit
<1>2. ASSUME NEW m \in Mac PROVE Balanced(m) /\ Blamed(m)
  <2>1. \A f \in DeviceFields : device[m][f] = 0 BY DEF ClientInit
  <2>2. Owned(waitingTxn, m) = {} BY DEF ClientInit, Owned
  <2>3. Linked(m) = {}
    <3>1. pending = <<>> BY DEF ClientInit, Init
    <3> QED BY <3>1 DEF Linked
  <2> QED BY <2>1, <2>2, <2>3, FS_EmptySet DEF Balanced, Blamed, DeviceFields
<1> QED BY <1>1, <1>2 DEF DevicesInv

LEMMA DevicesNext == DevicesInv /\ [ClientNext]_allVars => DevicesInv'
<1> SUFFICES ASSUME DevicesInv, [ClientNext]_allVars PROVE DevicesInv' OBVIOUS
<1>1. ClientBase' BY ClientBaseNext DEF DevicesInv
<1>2. TypeOK /\ Finite /\ ClientTypeOK /\ Traced /\ ClientTypeOK'
  BY <1>1 DEF DevicesInv, ClientBase, Base
<1>3. Traced' BY <1>2, ResolverSteps, TracedNext
<1>4. \A m \in Mac : Balanced(m)' /\ Blamed(m)' BY <1>2, BalancedNext, BlamedNext DEF DevicesInv
<1> QED BY <1>1, <1>3, <1>4 DEF DevicesInv

LEMMA DevicesAlways == ClientSpec => []DevicesInv
BY DevicesInit, DevicesNext, PTL DEF ClientSpec

\* Every query a device asked was answered, timed out or still waits, each in
\* one way, and no device is charged with more failures of resolvers, past and
\* possible, than queries were put down to it: whatever is lost, repeated or
\* overtaken, and whoever has an address.
THEOREM DevicesBalance == ClientSpec => []DevicesAccounted
<1>1. DevicesInv => DevicesAccounted
  <2> SUFFICES ASSUME DevicesInv PROVE DevicesAccounted OBVIOUS
  <2>1. ASSUME NEW m \in Mac
        PROVE  {c \in waitingTxn : txn[c].mac = m} = Owned(waitingTxn, m)
    BY DEF Owned
  <2>2. ASSUME NEW m \in Mac
        PROVE  {k \in DOMAIN pending :
                 LET c == txnOf[pending[k].query] IN c # 0 /\ txn[c].mac = m} = Linked(m)
    BY DEF Linked, Behind
  <2>3. ClientBalance BY <2>1 DEF ClientBalance, DevicesInv, Balanced
  <2>4. Blame BY <2>2 DEF Blame, DevicesInv, Blamed
  <2> QED BY <2>3, <2>4 DEF DevicesAccounted
<1> QED BY <1>1, DevicesAlways, PTL

-----------------------------------------------------------------------------
(* What counts as answered by the router itself.                           *)

\* Everything the Store and the capture threads hold of a query is true of it.
\* A query to a resolver has nothing until it is sent.
Origins ==
  /\ \A i \in DOMAIN inbox : inbox[i].kind = "query" => AsksFor(inbox[i].ask, inbox[i].name)
  /\ \A c \in Txns : AsksFor(txn[c].ask, txn[c].name)
  /\ \A i \in Numbers : cause[i] # 0 => i <= Len(asked) /\ AsksFor(cause[i], asked[i].name)
  /\ held.kind = "query" => asked[held.query].name = held.name
  /\ \A i \in Numbers : i > Len(asked) => open[i] = {}

\* A query is forgotten no sooner than it has to be, and waits for its outcome.
Recalled ==
  /\ \A c \in Txns : clock - txn[c].when <= MatchKeep => c \in recentTxn
  /\ \A c \in waitingTxn : txn[c].outcome = "none"

\* No other query resembles c.
Alone(c) ==
  \A d \in Txns \ {c} : txn[d].name = txn[c].name => txn[d].policy # txn[c].policy

\* Once the query it caused is recorded, a query is linked.
LinkedInTime ==
  \A i \in Numbers : \A c \in open[i] :
    cause[i] = txn[c].ask /\ Alone(c) => txn[c].matched /\ txn[c].outcome # "CACHE_LOCAL"

\* What a device asked stays what it is.
LEMMA SentNext ==
  ASSUME ClientTypeOK, [ClientNext]_allVars, NEW a, NEW n, AsksFor(a, n)
  PROVE  AsksFor(a, n)'
<1>0. sent \in Seq(Sent) BY DEF ClientTypeOK
<1>1. ASSUME NEW h \in Hosts, NEW m \in Name, ClientAsks(h, m)
      PROVE  AsksFor(a, n)'
  BY <1>0, <1>1 DEF ClientAsks, AsksFor
<1>2. ASSUME NEW b \in DOMAIN sent, NEW good \in BOOLEAN, ClientIsAnswered(b, good)
      PROVE  AsksFor(a, n)'
  <2>1. sent' = [sent EXCEPT ![b] = [sent[b] EXCEPT !.answers = @ + 1]]
    BY <1>2 DEF ClientIsAnswered
  <2>2. sent[b] \in Sent BY <1>0
  <2>3. [sent[b] EXCEPT !.answers = @ + 1].name = sent[b].name BY <2>2 DEF Sent
  <2> QED BY <1>0, <2>1, <2>3 DEF AsksFor
<1>3. CASE UNCHANGED sent BY <1>3 DEF AsksFor
<1> QED
  BY <1>1, <1>2, <1>3
  DEF ClientNext, Clients, Resolvers, DropClientPacket, RecordClientQuery,
      RecordClientResponse, ClientRegistryLoop, UpdateClientRegistry, CaptureCaused,
      RecordQueryOfClient, ReplyMatchedOfClient, CleanupAll, ClientTick, clientWorld,
      clientVars, allVars

\* Only a query that is sent gets a cause.
LEMMA CauseNext ==
  ASSUME ClientTypeOK, [ClientNext]_allVars
  PROVE  \/ UNCHANGED cause
         \/ /\ UNCHANGED <<sent, open>> /\ Len(asked') = Len(asked) + 1
            /\ \E n, a : /\ asked'[Len(asked) + 1].name = n
                         /\ a # 0 => AsksFor(a, n)
                         /\ cause' = [cause EXCEPT ![Len(asked) + 1] = a]
<1>1. ASSUME NEW k \in Keys, NEW n \in Name, NEW a \in 0..Len(sent), CaptureCaused(k, n, a)
      PROVE  /\ UNCHANGED <<sent, open>> /\ Len(asked') = Len(asked) + 1
             /\ asked'[Len(asked) + 1].name = n
             /\ a # 0 => AsksFor(a, n)
             /\ cause' = [cause EXCEPT ![Len(asked) + 1] = a]
  <2>1. asked \in Seq(Questions) /\ sent \in Seq(Sent) BY DEF ClientTypeOK, TypeOK
  <2>2. asked' = Append(asked, [key |-> k, name |-> n, at |-> clock, replies |-> 0])
    BY <1>1 DEF CaptureCaused, CaptureQuery
  <2>3. /\ Len(asked') = Len(asked) + 1
        /\ asked'[Len(asked) + 1] = [key |-> k, name |-> n, at |-> clock, replies |-> 0]
    BY <2>1, <2>2
  <2>4. asked'[Len(asked) + 1].name = n BY <2>3
  <2>5. a # 0 => a \in DOMAIN sent BY <2>1
  <2> QED BY <1>1, <2>3, <2>4, <2>5 DEF CaptureCaused, AsksFor
<1> QED
  BY <1>1
  DEF ClientNext, Clients, Resolvers, ClientAsks, ClientIsAnswered, DropClientPacket,
      RecordClientQuery, RecordClientResponse, ClientRegistryLoop, UpdateClientRegistry,
      RecordQueryOfClient, ReplyMatchedOfClient, CleanupAll, ClientTick, clientWorld,
      clientVars, allVars

\* Only a query that is recorded finds queries to be linked to.
LEMMA OpenNext ==
  ASSUME [ClientNext]_allVars
  PROVE  UNCHANGED open \/ RecordQueryOfClient
BY DEF ClientNext, Clients, Resolvers, ClientAsks, ClientIsAnswered, DropClientPacket,
       ClientRegistryLoop, UpdateClientRegistry, CaptureCaused, ReplyMatchedOfClient,
       RecordClientQuery, RecordClientResponse, CleanupAll,
       ClientTick, allVars, clientVars, clientWorld

\* The query in the hands of the capture thread is one that was sent.
LEMMA HeldNext ==
  ASSUME TypeOK, [Next]_vars, held'.kind = "query"
  PROVE  \/ UNCHANGED held
         \/ asked'[held'.query].name = held'.name
<1>1. ASSUME NEW k \in Keys, NEW n \in Name, CaptureQuery(k, n)
      PROVE  asked'[held'.query].name = held'.name
  <2>1. asked \in Seq(Questions) BY DEF TypeOK
  <2>2. asked' = Append(asked, [key |-> k, name |-> n, at |-> clock, replies |-> 0])
    BY <1>1 DEF CaptureQuery
  <2>3. asked'[Len(asked) + 1] = [key |-> k, name |-> n, at |-> clock, replies |-> 0]
    BY <2>1, <2>2
  <2>4. held' = [kind |-> "query", key |-> k, name |-> n, at |-> clock,
                 query |-> Len(asked) + 1]
    BY <1>1 DEF CaptureQuery, NoPacket
  <2>5. held'.query = Len(asked) + 1 /\ held'.name = n BY <2>4
  <2> QED BY <2>3, <2>5
<1>2. ~\E i \in 1..Len(asked), good \in BOOLEAN : CaptureReply(i, good)
  BY DEF CaptureReply, NoPacket
<1>3. ~Record BY RecordFrame DEF NoPacket
<1> QED
  BY <1>1, <1>2, <1>3, AsideFrame
  DEF Next, Capture, Aside, CleanupTransient, Tick

LEMMA OriginsNext ==
  ASSUME ClientTypeOK, Traced, Origins, [ClientNext]_allVars
  PROVE  Origins'
<1>0. /\ TypeOK /\ [Next]_vars /\ Numbers' = Numbers /\ Numbers \subseteq Nat
      /\ inbox \in Seq(ClientPackets) /\ cause \in [Numbers -> {0} \union DOMAIN sent]
      /\ open \in [Numbers -> SUBSET Txns]
      /\ Len(asked) \in Nat /\ Len(asked') \in Nat /\ Len(asked) <= Len(asked')
  <2>1. TypeOK /\ [Next]_vars BY ResolverSteps DEF ClientTypeOK
  <2>2. scenario' = scenario /\ scenario.queries \in Nat
    BY <2>1, ScenarioStays, ScenarioTypes DEF TypeOK
  <2> QED BY <2>1, <2>2, AskedGrows DEF ClientTypeOK, Numbers
<1>1. ASSUME NEW i \in DOMAIN inbox', inbox'[i].kind = "query"
      PROVE  AsksFor(inbox[i].ask, inbox[i].name)'
  <2>1. CASE UNCHANGED inbox
    <3>1. AsksFor(inbox[i].ask, inbox[i].name) BY <1>1, <2>1 DEF Origins
    <3> QED BY <2>1, <3>1, SentNext
  <2>2. CASE inbox # <<>> /\ inbox' = Tail(inbox)
    <3>1. PICK j \in DOMAIN inbox : inbox'[i] = inbox[j] BY <2>2, <1>1, InboxTail
    <3>2. AsksFor(inbox[j].ask, inbox[j].name) BY <1>1, <3>1 DEF Origins
    <3> QED BY <3>1, <3>2, SentNext
  <2>3. CASE PacketComes
    <3> DEFINE p == inbox'[Len(inbox) + 1]
    <3>0. /\ inbox' = Append(inbox, p)
          /\ p.kind = "query" => p.ask \in DOMAIN sent' /\ sent'[p.ask].name = p.name
      BY <2>3 DEF PacketComes
    <3> HIDE DEF p
    <3>1. inbox'[i] = p \/ (i \in DOMAIN inbox /\ inbox'[i] = inbox[i])
      BY <1>0, <1>1, <3>0
    <3>2. CASE inbox'[i] = p BY <1>1, <3>0, <3>2 DEF AsksFor
    <3>3. CASE i \in DOMAIN inbox /\ inbox'[i] = inbox[i]
      <4>1. AsksFor(inbox[i].ask, inbox[i].name) BY <1>1, <3>3 DEF Origins
      <4> QED BY <3>3, <4>1, SentNext
    <3> QED BY <3>1, <3>2, <3>3
  <2> QED BY <2>1, <2>2, <2>3, InboxNext
<1>2. ASSUME NEW c \in Txns'
      PROVE  AsksFor(txn[c].ask, txn[c].name)'
  <2>1. CASE c \in Txns
    <3>1. txn'[c].ask = txn[c].ask /\ txn'[c].name = txn[c].name
      BY <2>1, TxnNext DEF TxnStays, SameQuery
    <3>2. AsksFor(txn[c].ask, txn[c].name) BY <2>1 DEF Origins
    <3> QED BY <3>1, <3>2, SentNext
  <2>2. CASE c \notin Txns
    <3>1. RecordClientQuery /\ txn'[c] = NewTxn BY <2>2, TxnCame
    <3>2. inbox # <<>> /\ Head(inbox).kind = "query" BY <3>1 DEF RecordClientQuery
    <3>3. AsksFor(Head(inbox).ask, Head(inbox).name) BY <3>2, HeadTypes DEF Origins
    <3>4. NewTxn.ask = Head(inbox).ask /\ NewTxn.name = Head(inbox).name BY DEF NewTxn
    <3> QED BY <3>1, <3>3, <3>4, SentNext
  <2> QED BY <2>1, <2>2
<1>3. ASSUME NEW i \in Numbers', cause'[i] # 0
      PROVE  i <= Len(asked') /\ AsksFor(cause[i], asked[i].name)'
  <2>1. ASSUME cause'[i] = cause[i]
        PROVE  i <= Len(asked') /\ AsksFor(cause[i], asked[i].name)'
    <3>1. i <= Len(asked) /\ AsksFor(cause[i], asked[i].name)
      BY <1>0, <1>3, <2>1 DEF Origins
    <3>2. i \in 1..Len(asked) BY <1>0, <3>1 DEF Numbers
    <3>3. asked'[i].name = asked[i].name BY <1>0, <3>2, AskedGrows
    <3>4. AsksFor(cause[i], asked[i].name)' BY <2>1, <3>1, <3>3, SentNext
    <3> QED BY <1>0, <3>1, <3>4
  <2>2. ASSUME NEW n, NEW a, Len(asked') = Len(asked) + 1, asked'[Len(asked) + 1].name = n,
               a # 0 => AsksFor(a, n), cause' = [cause EXCEPT ![Len(asked) + 1] = a],
               i = Len(asked) + 1
        PROVE  i <= Len(asked') /\ AsksFor(cause[i], asked[i].name)'
    <3>1. cause'[i] = a BY <1>0, <2>2
    <3>2. AsksFor(a, n)' BY <1>3, <2>2, <3>1, SentNext
    <3> QED BY <1>0, <2>2, <3>1, <3>2
  <2>3. \/ cause'[i] = cause[i]
        \/ \E n, a : /\ Len(asked') = Len(asked) + 1 /\ asked'[Len(asked) + 1].name = n
                     /\ a # 0 => AsksFor(a, n)
                     /\ cause' = [cause EXCEPT ![Len(asked) + 1] = a]
                     /\ i = Len(asked) + 1
    BY <1>0, CauseNext
  <2> QED BY <2>1, <2>2, <2>3
<1>4. held'.kind = "query" => asked'[held'.query].name = held'.name
  <2>1. CASE UNCHANGED held /\ held'.kind = "query"
    <3>1. held.query \in 1..Len(asked) BY <2>1, Holding DEF Traced
    <3> QED BY <1>0, <2>1, <3>1, AskedGrows DEF Origins
  <2> QED BY <1>0, <2>1, HeldNext
<1>5. ASSUME NEW i \in Numbers', i > Len(asked')
      PROVE  open'[i] = {}
  <2>1. open[i] = {}
    <3>1. i \in Numbers /\ i \in Nat BY <1>0, <1>5
    <3>2. Len(asked) \in Nat /\ Len(asked') \in Nat /\ Len(asked) <= Len(asked') BY <1>0
    <3>3. i > Len(asked) BY <1>5, <3>1, <3>2
    <3>4. \A j \in Numbers : j > Len(asked) => open[j] = {} BY DEF Origins
    <3> QED BY <3>1, <3>3, <3>4
  <2>2. CASE RecordQueryOfClient
    <3>1. held.query <= Len(asked) /\ \A j \in Numbers \ {held.query} : open'[j] = open[j]
      <4>1. held.kind = "query" BY <2>2 DEF RecordQueryOfClient, RecordQuery
      <4>2. held.query \in 1..Len(asked) BY <4>1, Holding DEF Traced
      <4>3. \A j \in Numbers \ {held.query} : open'[j] = open[j]
        BY <1>0, <2>2 DEF RecordQueryOfClient
      <4> QED BY <1>0, <4>2, <4>3
    <3>2. i # held.query BY <1>0, <1>5, <3>1
    <3> QED BY <1>0, <2>1, <3>1, <3>2
  <2> QED BY <2>1, <2>2, OpenNext
<1> QED BY <1>1, <1>2, <1>3, <1>4, <1>5 DEF Origins

LEMMA RecalledNext ==
  ASSUME ClientTypeOK, ClientAges, Recalled, [ClientNext]_allVars
  PROVE  Recalled'
<1>0. /\ clock \in Nat /\ MatchKeep \in Nat /\ \A c \in Txns : txn[c].when \in Nat
      /\ recentTxn \subseteq Txns /\ waitingTxn \subseteq Txns
  BY ClockTypes, ClientConstants, TxnTypes DEF ClientTypeOK
<1>1. clock' \in Nat /\ clock <= clock' BY <1>0, InboxNext DEF PacketComes
<1>2. ASSUME NEW c \in Txns', clock' - txn'[c].when <= MatchKeep
      PROVE  c \in recentTxn'
  <2>1. CASE c \notin Txns
    <3>1. RecordClientQuery /\ c = Len(txn) + 1 BY <2>1, TxnCame
    <3> QED BY <3>1 DEF RecordClientQuery
  <2>2. CASE c \in Txns
    <3>1. txn'[c].when = txn[c].when BY <2>2, TxnNext DEF TxnStays, SameQuery
    <3>2. clock - txn[c].when <= MatchKeep BY <1>0, <1>1, <1>2, <2>2, <3>1
    <3>3. c \in recentTxn BY <2>2, <3>2 DEF Recalled
    <3>4. CASE RecordClientQuery
      <4> DEFINE p == Head(inbox)
                 old == {d \in recentTxn :
                           /\ txn[d].policy = Owner(p).policy /\ txn[d].name = p.name
                           /\ p.at - txn[d].when > MatchKeep}
      <4>1. inbox # <<>> /\ recentTxn' = (recentTxn \ old) \union {Len(txn) + 1}
        BY <3>4 DEF RecordClientQuery
      <4>2. p.at \in Nat /\ p.at <= clock BY <4>1, HeadTypes DEF ClientAges
      <4>3. c \notin old BY <1>0, <2>2, <3>2, <4>2
      <4> QED BY <3>3, <4>1, <4>3
    <3>5. CASE CleanupAll
      <4>1. recentTxn' = {d \in recentTxn : clock - txn[d].when <= MatchKeep}
        BY <3>5 DEF CleanupAll
      <4> QED BY <3>2, <3>3, <4>1
    <3>6. CASE UNCHANGED recentTxn BY <3>3, <3>6
    <3>7. UNCHANGED recentTxn \/ RecordClientQuery \/ CleanupAll
      BY TxnFrame, TxnLinked DEF RecordClientResponse
    <3> QED BY <3>4, <3>5, <3>6, <3>7
  <2> QED BY <2>1, <2>2
<1>3. ASSUME NEW c \in waitingTxn'
      PROVE  txn'[c].outcome = "none"
  <2>1. CASE c \in Txns
    <3>1. TxnStays(c) BY <2>1, TxnNext
    <3>2. txn'[c].outcome = txn[c].outcome /\ c \in waitingTxn
      BY <1>3, <3>1 DEF TxnStays, OutcomeNext
    <3> QED BY <3>2 DEF Recalled
  <2>2. CASE c \notin Txns
    <3>1. c \in Txns'
      <4>1. CASE c \in waitingTxn BY <1>0, <2>2, <4>1
      <4>2. CASE RecordClientQuery BY <1>0, <1>3, <2>2, <4>2, TxnAppended
      <4>3. waitingTxn' \subseteq waitingTxn \/ RecordClientQuery
        BY TxnFrame, TxnAnswered, TxnLinked, TxnSwept
      <4> QED BY <1>3, <4>1, <4>2, <4>3
    <3>2. txn'[c] = NewTxn BY <2>2, <3>1, TxnCame
    <3> QED BY <3>2 DEF NewTxn
  <2> QED BY <2>1, <2>2
<1> QED BY <1>2, <1>3 DEF Recalled

\* A query that waits, is recent and resembles no other is linked when the
\* query it caused is recorded.
LEMMA LinkedWhenRecorded ==
  ASSUME ClientTypeOK, Clocks, Traced, Origins, Recalled, RecordQueryOfClient,
         [ClientNext]_allVars, NEW c \in open'[held.query],
         cause[held.query] = txn[c].ask, Alone(c)
  PROVE  txn'[c].matched /\ txn'[c].outcome # "CACHE_LOCAL"
<1>0. /\ TypeOK /\ held.kind = "query" /\ held # NoPacket /\ held.query \in Numbers
      /\ held.at \in Nat /\ held.at <= clock /\ clock \in Nat /\ MatchKeep \in Nat
  <2>1. TypeOK /\ held.kind = "query" /\ held # NoPacket
    BY Holding DEF ClientTypeOK, RecordQueryOfClient, RecordQuery
  <2> QED BY <2>1, HeldTypes, ClockTypes, ClientConstants DEF Clocks
<1>1. /\ c \in waitingTxn /\ clock - txn[c].when <= MatchKeep
      /\ txn[c].policy = Profile(held.key.port)
  <2>1. /\ open \in [Numbers -> SUBSET Txns]
        /\ open' = [open EXCEPT ![held.query] =
                      {d \in waitingTxn : clock - txn[d].when <= MatchKeep
                                            /\ txn[d].policy = Profile(held.key.port)}]
    BY DEF ClientTypeOK, RecordQueryOfClient
  <2> QED BY <1>0, <2>1
<1>2. c \in Txns BY <1>1 DEF ClientTypeOK
<1>3. txn[c].when \in Nat /\ txn[c].ask # 0 /\ txn[c].matched \in BOOLEAN
  BY <1>2, TxnTypes DEF Asks
<1>4. c \in recentTxn /\ txn[c].outcome = "none" BY <1>1, <1>2 DEF Recalled
<1>5. txn[c].name = held.name
  <2>1. AsksFor(cause[held.query], asked[held.query].name) BY <1>0, <1>3 DEF Origins
  <2>2. AsksFor(txn[c].ask, txn[c].name) BY <1>2 DEF Origins
  <2> QED BY <1>0, <2>1, <2>2 DEF Origins, AsksFor
<1>6. /\ txn[c].matched => txn'[c].matched
      /\ txn'[c].outcome = txn[c].outcome
  <2>1. TxnStays(c) /\ waitingTxn' = waitingTxn BY <1>2, TxnNext, TxnLinked
  <2> QED BY <1>1, <2>1 DEF TxnStays, OutcomeNext
<1>7. CASE ~txn[c].matched
  <2>1. c \in Linkable BY <1>0, <1>1, <1>3, <1>4, <1>5, <1>7 DEF Linkable
  <2>2. Match \in Linkable /\ Match \in Txns /\ Match # 0 BY <2>1, MatchTypes
  <2>3. txn[Match].name = txn[c].name /\ txn[Match].policy = txn[c].policy
    BY <2>1, <2>2 DEF Linkable
  <2>4. Match = c BY <2>2, <2>3 DEF Alone
  <2>5. txn' = [txn EXCEPT ![c] = [txn[c] EXCEPT !.matched = TRUE]] BY <2>2, <2>4, TxnLinked
  <2>6. txn'[c] = [txn[c] EXCEPT !.matched = TRUE] BY <1>2, <2>5 DEF Txns
  <2>7. txn'[c].matched BY <1>2, <2>6, TxnTypes, LinkTypes
  <2> QED BY <1>4, <1>6, <2>7
<1>8. CASE txn[c].matched BY <1>4, <1>6, <1>8
<1> QED BY <1>3, <1>7, <1>8

LEMMA LinkedInTimeNext ==
  ASSUME ClientTypeOK, Clocks, Traced, Origins, Recalled, LinkedInTime, [ClientNext]_allVars
  PROVE  LinkedInTime'
<1>0. /\ TypeOK /\ [Next]_vars /\ Numbers' = Numbers /\ Numbers \subseteq Nat
      /\ open \in [Numbers -> SUBSET Txns] /\ cause \in [Numbers -> {0} \union DOMAIN sent]
      /\ Len(asked) \in Nat
  <2>1. TypeOK /\ [Next]_vars BY ResolverSteps DEF ClientTypeOK
  <2>2. scenario' = scenario /\ scenario.queries \in Nat
    BY <2>1, ScenarioStays, ScenarioTypes DEF TypeOK
  <2> QED BY <2>1, <2>2, AskedGrows DEF ClientTypeOK, Numbers
<1>1. SUFFICES ASSUME NEW i \in Numbers, NEW c \in open'[i],
                      cause'[i] = txn'[c].ask, Alone(c)'
               PROVE  txn'[c].matched /\ txn'[c].outcome # "CACHE_LOCAL"
  BY <1>0 DEF LinkedInTime
<1>2. ASSUME c \in Txns
      PROVE  Alone(c)
  <2>1. \A d \in Txns : d \in Txns' /\ SameQuery(d) BY TxnNext DEF TxnStays
  <2> QED BY <1>1, <1>2, <2>1 DEF Alone, SameQuery
<1>3. CASE c \in open[i]
  <2>1. c \in Txns BY <1>0, <1>3
  <2>2. TxnStays(c) /\ txn'[c].ask = txn[c].ask BY <2>1, TxnNext DEF TxnStays, SameQuery
  <2>3. cause'[i] = cause[i]
    <3>1. i # Len(asked) + 1 BY <1>0, <1>3 DEF Origins
    <3> QED BY <1>0, <3>1, CauseNext
  <2>4. txn[c].matched /\ txn[c].outcome # "CACHE_LOCAL"
    BY <1>1, <1>2, <1>3, <2>1, <2>2, <2>3 DEF LinkedInTime
  <2> QED BY <2>2, <2>4 DEF TxnStays, OutcomeNext
<1>4. CASE c \notin open[i]
  <2>1. RecordQueryOfClient BY <1>1, <1>4, OpenNext
  <2>2. /\ i = held.query /\ c \in waitingTxn /\ UNCHANGED cause
    <3>1. /\ UNCHANGED cause
          /\ open' = [open EXCEPT ![held.query] =
                        {d \in waitingTxn : clock - txn[d].when <= MatchKeep
                                              /\ txn[d].policy = Profile(held.key.port)}]
      BY <2>1 DEF RecordQueryOfClient
    <3> QED BY <1>0, <1>1, <1>4, <3>1
  <2>3. c \in Txns BY <2>2 DEF ClientTypeOK
  <2>4. txn'[c].ask = txn[c].ask BY <2>3, TxnNext DEF TxnStays, SameQuery
  <2> QED BY <1>1, <1>2, <2>1, <2>2, <2>3, <2>4, LinkedWhenRecorded
<1> QED BY <1>3, <1>4

LocalInv == ClientBase /\ Traced /\ Origins /\ Recalled /\ LinkedInTime

LEMMA LocalInit == ClientInit => LocalInv
<1> SUFFICES ASSUME ClientInit PROVE LocalInv OBVIOUS
<1>1. ClientBase /\ Traced BY ClientBaseInit, TracedInit DEF ClientInit
<1>2. inbox = <<>> /\ txn = <<>> /\ waitingTxn = {} /\ held = NoPacket /\ Txns = {}
  BY DEF ClientInit, Init, Txns
<1>3. \A i \in Numbers : cause[i] = 0 /\ open[i] = {} BY DEF ClientInit, Numbers
<1>4. Origins BY <1>2, <1>3 DEF Origins, NoPacket
<1>5. Recalled BY <1>2 DEF Recalled
<1>6. LinkedInTime BY <1>3 DEF LinkedInTime
<1> QED BY <1>1, <1>4, <1>5, <1>6 DEF LocalInv

LEMMA LocalNext == LocalInv /\ [ClientNext]_allVars => LocalInv'
<1> SUFFICES ASSUME LocalInv, [ClientNext]_allVars PROVE LocalInv' OBVIOUS
<1>1. ClientTypeOK /\ TypeOK /\ Clocks /\ ClientAges /\ Traced /\ Origins /\ Recalled
      /\ LinkedInTime
  BY DEF LocalInv, ClientBase, Base
<1>2. ClientBase' BY ClientBaseNext DEF LocalInv
<1>3. Traced' BY <1>1, ResolverSteps, TracedNext
<1>4. Origins' /\ Recalled' /\ LinkedInTime'
  BY <1>1, OriginsNext, RecalledNext, LinkedInTimeNext
<1> QED BY <1>2, <1>3, <1>4 DEF LocalInv

\* A query that waits for its answer when the query it caused is recorded, and
\* that no other resembles, is never counted as one the router answered by
\* itself: for any number of devices, addresses and ids, and any limits.
THEOREM LocalMeansLocalAlways == ClientSpec => []LocalMeansLocal
<1>1. LocalInv => LocalMeansLocal
  <2> SUFFICES ASSUME LocalInv PROVE LocalMeansLocal OBVIOUS
  <2>1. DOMAIN open = Numbers BY DEF LocalInv, ClientBase, ClientTypeOK
  <2> QED BY <2>1 DEF LocalInv, LinkedInTime, Alone, LocalMeansLocal
<1> QED BY <1>1, LocalInit, LocalNext, PTL DEF ClientSpec

=============================================================================
