------------------------- MODULE IndexRefreshProofs -------------------------
(***************************************************************************)
(* Theorems about IndexRefresh: there is one refresh at a time, and no     *)
(* document or cache file is replaced by an older one, and a forced        *)
(* refresh is answered with its result unless that took a second URL, for  *)
(* any number of callers and URLs and any limits.                          *)
(***************************************************************************)
EXTENDS IndexRefresh, FiniteSetTheorems, TLAPS

\* A refresh: its stage, and what it got.
Fetch == [at : {"fetch", "save", "got", "failed"}, url : Nat, until : Nat, got : Nat]

Shape ==
  /\ clock \in Nat /\ started \in Nat /\ published \in Nat
  /\ doc \in Nat /\ cache \in Nat \union {NoFile}
  /\ initialized \in BOOLEAN /\ refreshing \in BOOLEAN
  /\ fetches = [i \in DOMAIN fetches |-> fetches[i]]
  /\ \A i \in DOMAIN fetches : fetches[i] \in Fetch

\* SingleFlight without counting.
Single ==
  /\ \A i, j \in DOMAIN fetches : i = j
  /\ refreshing = (DOMAIN fetches # {})

\* A process that has not taken a snapshot has nothing.
Untouched == ~initialized => doc = 0 /\ DOMAIN fetches = {}

\* Nothing is newer than what is published; what a refresh is about to save or
\* to install is not older than what is there.
Fresher ==
  /\ doc <= published /\ cache <= published
  /\ \A i \in DOMAIN fetches :
       /\ fetches[i].got <= published
       /\ fetches[i].at \in {"save", "got"} => fetches[i].got >= doc
       /\ fetches[i].at = "save" => fetches[i].got >= cache

IInv == Shape /\ Single /\ Untouched /\ Fresher

-----------------------------------------------------------------------------
LEMMA InitInvariant == Init => IInv
<1> SUFFICES ASSUME Init PROVE IInv
  OBVIOUS
<1>1. DOMAIN fetches = {} /\ fetches = [i \in DOMAIN fetches |-> fetches[i]]
  BY DEF Init
<1>2. published \in Nat
  BY RefreshAssumption DEF Init, Versions
<1>3. cache = NoFile /\ NoFile = -1 /\ doc = 0 /\ clock = 0 /\ started = 0
  BY DEF Init, NoFile
<1>4. Shape
  <2>1. initialized \in BOOLEAN /\ refreshing \in BOOLEAN BY DEF Init
  <2>2. \A i \in DOMAIN fetches : fetches[i] \in Fetch BY <1>1
  <2> QED BY <1>1, <1>2, <1>3, <2>1, <2>2 DEF Shape
<1>5. Single /\ Untouched BY <1>1, <1>3 DEF Init, Single, Untouched
<1>6. Fresher BY <1>1, <1>2, <1>3 DEF Fresher
<1> QED BY <1>4, <1>5, <1>6 DEF IInv

\* Starting a refresh when there is none makes it the only one.
LEMMA StartsOne ==
  ASSUME Shape, Single, Untouched, Fresher, ~refreshing, StartRefresh,
         initialized' \in BOOLEAN, initialized',
         doc' \in Nat, doc' <= published, UNCHANGED <<clock, published, cache>>
  PROVE  IInv'
<1> USE RefreshAssumption
<1>1. DOMAIN fetches = {} BY DEF Single
<1> DEFINE new == [at |-> "fetch", url |-> 1, until |-> clock + Attempt, got |-> 0]
<1>2. fetches' = [x \in {started + 1} |-> new]
  BY <1>1 DEF StartRefresh, Put
<1>3. DOMAIN fetches' = {started + 1} /\ fetches'[started + 1] = new
  BY <1>2
<1>4. new \in Fetch BY DEF Fetch, Shape
<1>5. Shape' BY <1>2, <1>3, <1>4 DEF Shape, StartRefresh
<1>6. Single' BY <1>3 DEF Single, StartRefresh
<1>7. Untouched' BY DEF Untouched
<1>8. Fresher' BY <1>3 DEF Fresher, Shape
<1> QED BY <1>5, <1>6, <1>7, <1>8 DEF IInv

LEMMA SnapshotStep ==
  ASSUME IInv, Snapshot, UNCHANGED <<clock, published, cache>>
  PROVE  IInv'
<1> USE DEF IInv
<1>1. initialized' /\ initialized' \in BOOLEAN BY DEF Snapshot, Loaded
<1>2. doc' \in Nat /\ doc' <= published
  BY DEF Snapshot, Loaded, Shape, Fresher, NoFile
<1>3. CASE Due /\ StartRefresh
  BY <1>1, <1>2, <1>3, StartsOne DEF Due
<1>4. CASE ~Due /\ UNCHANGED <<refreshing, lastAttempt, fetches, started>>
  <2>1. Shape' BY <1>1, <1>2, <1>4 DEF Shape
  <2>2. Single' BY <1>4 DEF Single
  <2>3. Untouched' BY <1>1 DEF Untouched
  <2>4. DOMAIN fetches # {} => doc' = doc
    BY DEF Untouched, Snapshot, Loaded
  <2>5. Fresher' BY <1>2, <1>4, <2>4 DEF Fresher
  <2> QED BY <2>1, <2>2, <2>3, <2>5
<1> QED BY <1>3, <1>4 DEF Snapshot

LEMMA ForceStep ==
  ASSUME IInv, NEW c \in Caller, ForceRefresh(c)
  PROVE  IInv'
<1> USE DEF IInv
<1>1. CASE UNCHANGED <<memory, fetches, started>>
  BY <1>1 DEF ForceRefresh, memory, Shape, Single, Untouched, Fresher
<1>2. CASE initialized /\ ~refreshing /\ StartRefresh /\ UNCHANGED <<initialized, doc>>
  BY <1>2, StartsOne DEF ForceRefresh, Shape, Fresher
<1> QED BY <1>1, <1>2 DEF ForceRefresh

\* A step of a refresh that changes nothing but its own record.
LEMMA RefreshStep ==
  ASSUME IInv, NEW i \in DOMAIN fetches, Refresh(i)
  PROVE  IInv'
<1> USE RefreshAssumption DEF IInv
<1>1. fetches[i] \in Fetch /\ \A j \in DOMAIN fetches : j = i
  BY DEF Shape, Single
<1>2. initialized BY DEF Untouched
<1>3. ASSUME NEW f \in Fetch, Moves(i, f), f.got <= published,
             f.at \in {"save", "got"} => f.got >= doc,
             f.at = "save" => f.got >= cache
      PROVE  IInv'
  <2>1. /\ DOMAIN fetches' = DOMAIN fetches /\ fetches'[i] = f
        /\ fetches' = [j \in DOMAIN fetches' |-> fetches'[j]]
    BY <1>3 DEF Moves
  <2> QED BY <1>1, <1>3, <2>1 DEF Moves, memory, Shape, Single, Untouched, Fresher
<1>4. CASE FetchAnswers(i)
  <2>1. CASE Moves(i, [fetches[i] EXCEPT !.at = "save", !.got = published])
    <3> DEFINE f == [fetches[i] EXCEPT !.at = "save", !.got = published]
    <3>1. f \in Fetch /\ f.got = published BY <1>1 DEF Fetch, Shape
    <3>2. f.got >= doc /\ f.got >= cache /\ f.got <= published
      BY <3>1 DEF Fresher, Shape, NoFile
    <3> HIDE DEF f
    <3> QED BY <1>3, <2>1, <3>1, <3>2 DEF f
  <2>2. CASE Moves(i, [fetches[i] EXCEPT !.at = "failed"])
    <3> DEFINE f == [fetches[i] EXCEPT !.at = "failed"]
    <3>1. f \in Fetch /\ f.at = "failed" /\ f.got <= published
      BY <1>1 DEF Fetch, Fresher
    <3> HIDE DEF f
    <3> QED BY <1>3, <2>2, <3>1 DEF f
  <2> QED BY <1>4, <2>1, <2>2 DEF FetchAnswers
<1>5. CASE FetchFails(i)
  <2>1. fetches[i].at = "fetch" BY <1>5 DEF FetchFails
  <2>2. CASE Moves(i, [fetches[i] EXCEPT !.url = @ + 1, !.until = clock + Attempt])
    <3> DEFINE f == [fetches[i] EXCEPT !.url = @ + 1, !.until = clock + Attempt]
    <3>1. fetches[i].url + 1 \in Nat /\ clock + Attempt \in Nat
      BY <1>1, RefreshAssumption DEF Fetch, Shape
    <3>2. f \in Fetch /\ f.at = "fetch" /\ f.got = fetches[i].got
      BY <1>1, <2>1, <3>1 DEF Fetch
    <3>3. f.got <= published
      BY <3>2 DEF Fresher
    <3> HIDE DEF f
    <3> QED BY <1>3, <2>2, <3>2, <3>3 DEF f
  <2>3. CASE Moves(i, [fetches[i] EXCEPT !.at = "failed"])
    <3> DEFINE f == [fetches[i] EXCEPT !.at = "failed"]
    <3>1. f \in Fetch /\ f.at = "failed" /\ f.got <= published
      BY <1>1 DEF Fetch, Fresher
    <3> HIDE DEF f
    <3> QED BY <1>3, <2>3, <3>1 DEF f
  <2> QED BY <1>5, <2>2, <2>3 DEF FetchFails
<1>6. CASE SaveCache(i)
  <2> DEFINE f == [fetches[i] EXCEPT !.at = "got"]
  <2>1. f \in Fetch /\ f.at = "got" /\ f.got = fetches[i].got BY <1>1 DEF Fetch
  <2>2. /\ DOMAIN fetches' = DOMAIN fetches /\ fetches'[i] = f
        /\ fetches' = [j \in DOMAIN fetches' |-> fetches'[j]]
    BY <1>6 DEF SaveCache
  <2>3. cache' \in Nat \union {NoFile} /\ cache' <= published
    BY <1>1, <1>6 DEF SaveCache, Shape, Fresher, Fetch
  <2>4. f.got >= doc /\ f.got <= published
    BY <1>6, <2>1 DEF SaveCache, Fresher
  <2> HIDE DEF f
  <2> QED BY <1>1, <1>6, <2>1, <2>2, <2>3, <2>4
          DEF SaveCache, memory, Shape, Single, Untouched, Fresher
<1>7. CASE FetchEnds(i)
  <2>1. DOMAIN fetches' = {} /\ fetches' = [j \in DOMAIN fetches' |-> fetches'[j]]
    BY <1>1, <1>7 DEF FetchEnds, Drop
  <2>2. doc' \in Nat /\ doc' <= published
    BY <1>1, <1>7 DEF FetchEnds, Finish, Shape, Fresher, Fetch
  <2>3. Shape' BY <1>7, <2>1, <2>2 DEF FetchEnds, Finish, Shape
  <2>4. Single' BY <1>7, <2>1 DEF FetchEnds, Finish, Single
  <2>5. Untouched' BY <1>2, <1>7 DEF FetchEnds, Untouched
  <2>6. Fresher' BY <1>7, <2>1, <2>2 DEF FetchEnds, Fresher
  <2> QED BY <2>3, <2>4, <2>5, <2>6
<1> QED BY <1>4, <1>5, <1>6, <1>7 DEF Refresh

LEMMA NextInvariant == IInv /\ [Next]_vars => IInv'
<1> SUFFICES ASSUME IInv, [Next]_vars PROVE IInv'
  OBVIOUS
<1>1. CASE ReadCatalog
  BY <1>1, SnapshotStep DEF ReadCatalog
<1>2. ASSUME NEW c \in Caller, ForceRefresh(c) PROVE IInv'
  BY <1>2, ForceStep
<1>3. ASSUME NEW c \in Caller, Progress(c) PROVE IInv'
  <2>1. CASE ForceFirst(c) BY <2>1, SnapshotStep DEF ForceFirst
  <2>2. CASE Answers(c)
    BY <2>2 DEF Answers, memory, IInv, Shape, Single, Untouched, Fresher
  <2> QED BY <1>3, <2>1, <2>2 DEF Progress, WaitReturns, OwnReturns
<1>4. ASSUME NEW i \in DOMAIN fetches, Refresh(i) PROVE IInv'
  BY <1>4, RefreshStep
<1>5. CASE Publish
  BY <1>5 DEF Publish, memory, IInv, Shape, Single, Untouched, Fresher, Fetch, NoFile
<1>6. CASE Restart
  <2>1. DOMAIN fetches' = {} /\ fetches' = [j \in DOMAIN fetches' |-> fetches'[j]]
    BY <1>6 DEF Restart
  <2>2. Shape' BY <1>6, <2>1 DEF Restart, Fresh, IInv, Shape
  <2>3. Single' /\ Untouched' BY <1>6, <2>1 DEF Restart, Fresh, Single, Untouched
  <2>4. Fresher' BY <1>6, <2>1 DEF Restart, Fresh, IInv, Shape, Fresher
  <2> QED BY <2>2, <2>3, <2>4 DEF IInv
<1>7. CASE Tick
  BY <1>7 DEF Tick, memory, IInv, Shape, Single, Untouched, Fresher
<1>8. CASE UNCHANGED vars
  BY <1>8 DEF vars, memory, IInv, Shape, Single, Untouched, Fresher
<1> QED BY <1>1, <1>2, <1>3, <1>4, <1>5, <1>6, <1>7, <1>8 DEF Next

LEMMA Invariance == Spec => []IInv
<1> QED BY InitInvariant, NextInvariant, PTL DEF Spec

-----------------------------------------------------------------------------
\* The flag of an index is set exactly while one refresh is under way, and
\* there is never a second one (refreshRouterForgeRegistry).
THEOREM OneRefresh == Spec => []SingleFlight
<1>1. IInv => SingleFlight
  <2> SUFFICES ASSUME IInv PROVE Cardinality(DOMAIN fetches) <= 1
    BY DEF IInv, Single, SingleFlight
  <2>1. CASE DOMAIN fetches = {}
    BY <2>1, FS_EmptySet
  <2>2. CASE DOMAIN fetches # {}
    <3>1. PICK i \in DOMAIN fetches : TRUE BY <2>2
    <3>2. DOMAIN fetches = {i} BY <3>1 DEF IInv, Single
    <3> QED BY <3>2, FS_Singleton
  <2> QED BY <2>1, <2>2
<1> QED BY <1>1, Invariance, PTL

\* While a process runs its document is never replaced by an older one,
\* neither is the cache file, and a new process starts from what that holds.
THEOREM DocumentsAge == Spec => NeverOlder
<1> DEFINE Newer ==
      /\ (initialized /\ initialized' => doc' >= doc)
      /\ cache' >= cache
      /\ (~initialized /\ initialized' => doc' >= cache)
<1>1. ASSUME IInv, [Next]_vars PROVE [Newer]_vars
  <2> USE <1>1 DEF IInv
  <2>1. doc \in Nat /\ cache \in Nat \union {NoFile} /\ NoFile = -1
    BY DEF Shape, NoFile
  <2>2. ASSUME UNCHANGED <<doc, cache, initialized>> PROVE Newer
    BY <2>1, <2>2
  <2>3. ASSUME Snapshot, UNCHANGED cache PROVE Newer
    <3>1. CASE initialized BY <2>1, <2>3, <3>1 DEF Snapshot, Loaded
    <3>2. CASE ~initialized
      BY <2>1, <2>3, <3>2 DEF Snapshot, Loaded
    <3> QED BY <3>1, <3>2
  <2>4. CASE ReadCatalog BY <2>3, <2>4 DEF ReadCatalog
  <2>5. ASSUME NEW c \in Caller, ForceRefresh(c) PROVE Newer
    <3>1. UNCHANGED <<doc, cache, initialized>> BY <2>5 DEF ForceRefresh, memory
    <3> QED BY <2>2, <3>1
  <2>6. ASSUME NEW c \in Caller, Progress(c) PROVE Newer
    <3>1. CASE ForceFirst(c) BY <2>3, <3>1 DEF ForceFirst
    <3>2. CASE Answers(c)
      <4>1. UNCHANGED <<doc, cache, initialized>> BY <3>2 DEF Answers, memory
      <4> QED BY <2>2, <4>1
    <3> QED BY <2>6, <3>1, <3>2 DEF Progress, WaitReturns, OwnReturns
  <2>7. ASSUME NEW i \in DOMAIN fetches, Refresh(i) PROVE Newer
    <3>1. CASE FetchAnswers(i)
      <4>1. UNCHANGED <<doc, cache, initialized>> BY <3>1 DEF FetchAnswers, Moves, memory
      <4> QED BY <2>2, <4>1
    <3>2. CASE FetchFails(i)
      <4>1. UNCHANGED <<doc, cache, initialized>> BY <3>2 DEF FetchFails, Moves, memory
      <4> QED BY <2>2, <4>1
    <3>3. CASE SaveCache(i)
      <4>1. cache' >= cache BY <2>1, <3>3 DEF SaveCache, Fresher
      <4> QED BY <2>1, <3>3, <4>1 DEF SaveCache, memory
    <3>4. CASE FetchEnds(i)
      <4>1. doc' >= doc
        BY <2>1, <3>4 DEF FetchEnds, Finish, Fresher
      <4> QED BY <2>1, <3>4, <4>1 DEF FetchEnds
    <3> QED BY <2>7, <3>1, <3>2, <3>3, <3>4 DEF Refresh
  <2>8. CASE Publish BY <2>2, <2>8 DEF Publish, memory
  <2>9. CASE Restart BY <2>1, <2>9 DEF Restart, Fresh
  <2>10. CASE Tick BY <2>2, <2>10 DEF Tick, memory
  <2>11. CASE UNCHANGED vars BY <2>11
  <2> QED BY <2>4, <2>5, <2>6, <2>7, <2>8, <2>9, <2>10, <2>11 DEF Next
<1> QED BY <1>1, Invariance, PTL DEF Spec, NeverOlder

-----------------------------------------------------------------------------
(* Types, and the callers that wait.                                       *)

Pending == {"init", "wait", "own"}

CallRecords == {NoCall} \union [at : {"done"}, need : Nat]
           \union [at : Pending, deadline : Nat, need : Nat]

\* The refresh under way is the last one, and no attempt takes too long.
Latest ==
  /\ finished <= started
  /\ \A i \in DOMAIN fetches :
       /\ i = started /\ finished < i /\ fetches[i].url \in 1..Urls
       /\ clock <= fetches[i].until /\ fetches[i].until <= clock + Attempt

\* The refresh a caller is answered for is over or under way, unless it is
\* begun by the caller's own snapshot; who waits for one that is at its first
\* URL does so for longer than the attempt takes.
Joined(c) ==
  call[c].at \in Pending =>
    LET n == call[c].need IN
    /\ n <= started => finished >= n \/ n \in DOMAIN fetches
    /\ n > started => call[c].at = "init" /\ n = started + 1 /\ ~initialized
    /\ call[c].at = "wait" /\ n \in DOMAIN fetches /\ fetches[n].url = 1 =>
         fetches[n].until <= call[c].deadline

JInv ==
  /\ IInv /\ TypeOK /\ call \in [Caller -> CallRecords] /\ Latest
  /\ ~initialized => lastAttempt = Never
  /\ \A c \in Caller : Joined(c)

LEMMA CallTypes ==
  /\ NoCall \in CallRecords /\ NoCall.at = "idle"
  /\ \A x \in CallRecords : x.at \in Pending => x.deadline \in Nat /\ x.need \in Nat
  /\ \A x \in CallRecords : x \in {NoCall} \union [at : {"done"}, need : Nat]
         \union [at : {"init", "wait", "own"}, deadline : Nat, need : Nat]
BY DEF CallRecords, NoCall, Pending

LEMMA InitJoined == Init => JInv
<1> SUFFICES ASSUME Init PROVE JInv
  OBVIOUS
<1>1. IInv /\ DOMAIN fetches = {} /\ started = 0 /\ finished = 0 /\ lastAttempt = Never
  BY InitInvariant DEF Init
<1>2. call \in [Caller -> CallRecords] /\ \A c \in Caller : call[c] = NoCall
  BY CallTypes DEF Init
<1>3. \A c \in Caller : call[c] \in {NoCall} \union [at : {"done"}, need : Nat]
         \union [at : {"init", "wait", "own"}, deadline : Nat, need : Nat]
  BY <1>2
<1>4. published \in Versions /\ doc \in Versions /\ 0 \in 0..MaxTime /\ 0 \in 0..MaxRefreshes
  BY RefreshAssumption DEF Init, Versions
<1>5. {initialized, refreshing, online} \subseteq BOOLEAN
  BY DEF Init
<1>6. TypeOK
  BY <1>1, <1>3, <1>4, <1>5 DEF Init, TypeOK, Sources
<1>7. Latest /\ \A c \in Caller : Joined(c)
  BY <1>1, <1>2, CallTypes DEF Latest, Joined, Pending
<1> QED BY <1>1, <1>2, <1>6, <1>7 DEF JInv

\* The types of the memory, the requests and the refreshes, one by one.
Core ==
  /\ clock \in 0..MaxTime /\ published \in Versions
  /\ {initialized, refreshing, online} \subseteq BOOLEAN
  /\ lastAttempt \in {Never} \union 0..MaxTime
  /\ doc \in Versions /\ source \in Sources
  /\ cache \in Versions \union {NoFile}
  /\ started \in 0..MaxRefreshes /\ finished \in 0..MaxRefreshes

Fetched == [at : {"fetch", "save", "got", "failed"}, url : 1..Urls, until : Nat,
            got : Versions]

FetchTypes ==
  /\ DOMAIN fetches \subseteq 1..MaxRefreshes
  /\ \A i \in DOMAIN fetches : fetches[i] \in
       [at : {"fetch", "save", "got", "failed"}, url : 1..Urls,
        until : Nat, got : Versions]

LEMMA TypeParts ==
  /\ TypeOK => Core /\ FetchTypes
  /\ Core' /\ FetchTypes' /\ call' \in [Caller -> CallRecords] => TypeOK'
BY CallTypes DEF TypeOK, Core, FetchTypes

LEMMA CoreMoves ==
  ASSUME JInv, [Next]_vars
  PROVE  Core'
<1> USE RefreshAssumption DEF JInv
<1>1. Core /\ FetchTypes BY TypeParts
<1>2. clock \in Nat /\ started \in Nat BY <1>1 DEF Core
<1>3. ASSUME StartRefresh PROVE started' \in 0..MaxRefreshes /\ refreshing' \in BOOLEAN /\ lastAttempt' \in 0..MaxTime
  BY <1>1, <1>3 DEF StartRefresh, Core
<1>4. ASSUME Snapshot, UNCHANGED <<clock, published, cache, finished>> PROVE Core'
  <2>1. initialized' \in BOOLEAN /\ doc' \in Versions /\ source' \in Sources
    BY <1>1, <1>4 DEF Snapshot, Loaded, Core, Sources, Versions
  <2>2. started' \in 0..MaxRefreshes /\ refreshing' \in BOOLEAN
          /\ lastAttempt' \in {Never} \union 0..MaxTime
    BY <1>1, <1>3, <1>4 DEF Snapshot, Core
  <2> QED BY <1>1, <1>4, <2>1, <2>2 DEF Snapshot, Core
<1>5. CASE ReadCatalog BY <1>4, <1>5 DEF ReadCatalog
<1>6. ASSUME NEW c \in Caller, ForceRefresh(c) PROVE Core'
  <2>1. CASE UNCHANGED <<memory, fetches, started>>
    BY <1>1, <1>6, <2>1 DEF ForceRefresh, memory, Core
  <2>2. CASE StartRefresh /\ UNCHANGED <<initialized, doc, source, online>>
    BY <1>1, <1>3, <1>6, <2>2 DEF ForceRefresh, Core
  <2> QED BY <1>6, <2>1, <2>2 DEF ForceRefresh
<1>7. ASSUME NEW c \in Caller, Progress(c) PROVE Core'
  <2>1. CASE ForceFirst(c) BY <1>4, <2>1 DEF ForceFirst
  <2>2. CASE Answers(c) BY <1>1, <2>2 DEF Answers, memory, Core
  <2> QED BY <1>7, <2>1, <2>2 DEF Progress, WaitReturns, OwnReturns
<1>8. ASSUME NEW i \in DOMAIN fetches, Refresh(i) PROVE Core'
  <2>1. fetches[i].got \in Versions /\ i \in 0..MaxRefreshes BY <1>1 DEF FetchTypes
  <2>2. CASE \E f : Moves(i, f) BY <1>1, <2>2 DEF Moves, memory, Core
  <2>3. CASE SaveCache(i)
    <3>1. cache' \in Versions \union {NoFile} BY <1>1, <2>1, <2>3 DEF SaveCache, Core
    <3> QED BY <1>1, <2>3, <3>1 DEF SaveCache, memory, Core
  <2>4. CASE FetchEnds(i)
    <3>1. doc' \in Versions /\ source' \in Sources /\ online' \in BOOLEAN /\ refreshing' \in BOOLEAN
      BY <1>1, <2>1, <2>4 DEF FetchEnds, Finish, Core, Sources
    <3> QED BY <1>1, <2>1, <2>4, <3>1 DEF FetchEnds, Core
  <2> QED BY <1>8, <2>2, <2>3, <2>4 DEF Refresh, FetchAnswers, FetchFails
<1>9. CASE Publish BY <1>1, <1>9 DEF Publish, memory, Core, Versions
<1>10. CASE Restart
  <2>1. doc' \in Versions /\ source' \in Sources /\ lastAttempt' \in {Never} \union 0..MaxTime
    BY <1>10 DEF Restart, Fresh, Versions, Sources
  <2>2. {initialized', refreshing', online'} \subseteq BOOLEAN
    BY <1>10 DEF Restart, Fresh
  <2> QED BY <1>1, <1>10, <2>1, <2>2 DEF Restart, Core, Versions
<1>11. CASE Tick BY <1>1, <1>11 DEF Tick, memory, Core
<1>12. CASE UNCHANGED vars BY <1>1, <1>12 DEF vars, memory, Core
<1> QED BY <1>5, <1>6, <1>7, <1>8, <1>9, <1>10, <1>11, <1>12 DEF Next

\* Starting a refresh when there is none.
LEMMA StartJoins ==
  ASSUME JInv, ~refreshing, StartRefresh, IInv', Core', call' \in [Caller -> CallRecords],
         UNCHANGED <<clock, finished>>, initialized',
         \A c \in Caller : call'[c].at \in Pending =>
           /\ call'[c].need <= started + 1
           /\ call'[c].need <= started => finished >= call'[c].need
           /\ call'[c].at = "wait" /\ call'[c].need = started + 1 =>
                call'[c].deadline >= clock + Attempt
  PROVE  JInv'
<1> USE RefreshAssumption
<1>1. DOMAIN fetches = {} BY DEF JInv, IInv, Single
<1>2. Core /\ clock \in Nat /\ started \in Nat /\ finished \in Nat /\ started' = started + 1
  BY TypeParts DEF JInv, Core, StartRefresh
<1> DEFINE new == [at |-> "fetch", url |-> 1, until |-> clock + Attempt, got |-> 0]
<1>3. DOMAIN fetches' = {started + 1} /\ fetches'[started + 1] = new
  BY <1>1 DEF StartRefresh, Put
<1>4. FetchTypes'
  BY <1>2, <1>3 DEF FetchTypes, Core, Versions
<1>5. Latest' BY <1>2, <1>3 DEF JInv, Latest
<1>6. ASSUME NEW c \in Caller PROVE Joined(c)'
  <2> SUFFICES ASSUME call'[c].at \in Pending PROVE Joined(c)'
    BY DEF Joined
  <2>1. call'[c].deadline \in Nat /\ call'[c].need \in Nat
    BY CallTypes
  <2> QED BY <1>2, <1>3, <2>1 DEF Joined
<1>7. TypeOK' BY <1>4, TypeParts
<1>8. \A c \in Caller : Joined(c)' BY <1>6
<1> QED BY <1>5, <1>7, <1>8 DEF JInv

\* A snapshot that starts none.
LEMMA SnapshotStays ==
  ASSUME JInv, Snapshot, ~Due
  PROVE  initialized /\ initialized' /\ UNCHANGED <<refreshing, lastAttempt, fetches, started, doc, source>>
<1>1. refreshing => DOMAIN fetches # {} BY DEF JInv, IInv, Single
<1>2. initialized BY <1>1 DEF JInv, IInv, Untouched, Due
<1> QED BY <1>2 DEF Snapshot, Loaded

LEMMA SnapshotJoins ==
  ASSUME JInv, Snapshot, IInv', Core', call' \in [Caller -> CallRecords],
         UNCHANGED <<clock, finished>>,
         \A c \in Caller : call'[c].at \in Pending /\ call'[c] # call[c] =>
           /\ call[c].at \in Pending /\ call'[c].need = call[c].need
           /\ call'[c].at = "wait" /\ call'[c].deadline = clock + Wait
  PROVE  JInv'
<1> USE RefreshAssumption
<1>1. Core /\ FetchTypes /\ clock \in Nat /\ started \in Nat /\ finished \in Nat
  BY TypeParts DEF JInv, Core
<1>2. initialized' BY DEF Snapshot, Loaded
<1>3. \A c \in Caller : call[c].at \in Pending => call[c].need \in Nat /\ call[c].deadline \in Nat
  BY CallTypes DEF JInv
<1>4. CASE Due /\ StartRefresh
  <2>1. DOMAIN fetches = {} BY <1>4 DEF JInv, IInv, Single, Due
  <2>2. ASSUME NEW c \in Caller, call'[c].at \in Pending
        PROVE  /\ call'[c].need <= started + 1
               /\ call'[c].need <= started => finished >= call'[c].need
               /\ call'[c].at = "wait" /\ call'[c].need = started + 1 =>
                    call'[c].deadline >= clock + Attempt
    <3>1. call[c].at \in Pending /\ call'[c].need = call[c].need /\ call[c].need \in Nat
      BY <1>3, <2>2
    <3>2. Joined(c) BY DEF JInv
    <3> QED BY <1>1, <2>1, <2>2, <3>1, <3>2 DEF Joined
  <2> QED BY <1>2, <1>4, <2>2, StartJoins DEF Due
<1>5. CASE ~Due
  <2>1. initialized /\ UNCHANGED <<refreshing, lastAttempt, fetches, started>>
    BY <1>5, SnapshotStays
  <2>2. FetchTypes' /\ Latest'
    BY <1>1, <2>1 DEF FetchTypes, Latest, JInv
  <2>3. ASSUME NEW c \in Caller PROVE Joined(c)'
    <3> SUFFICES ASSUME call'[c].at \in Pending PROVE Joined(c)'
      BY DEF Joined
    <3>1. call[c].at \in Pending /\ call'[c].need = call[c].need /\ call[c].need \in Nat
      BY <1>3
    <3>2. Joined(c) /\ call[c].need <= started
      BY <1>1, <2>1, <3>1 DEF JInv, Joined
    <3>3. \A i \in DOMAIN fetches : fetches[i].until <= clock + Attempt /\ fetches[i].until \in Nat
      BY <1>1 DEF JInv, Latest, FetchTypes
    <3>4. call'[c] # call[c] => call'[c].deadline = clock + Wait
      OBVIOUS
    <3> QED BY <1>1, <2>1, <3>1, <3>2, <3>3, <3>4 DEF Joined
  <2>4. TypeOK' BY <2>2, TypeParts
  <2>5. \A c \in Caller : Joined(c)' BY <2>3
  <2> QED BY <1>2, <2>2, <2>4, <2>5 DEF JInv
<1> QED BY <1>4, <1>5 DEF Snapshot

\* Steps of a refresh.
LEMMA RefreshJoins ==
  ASSUME JInv, NEW i \in DOMAIN fetches, Refresh(i), IInv', Core'
  PROVE  JInv'
<1> USE RefreshAssumption
<1>1. Core /\ FetchTypes /\ clock \in Nat /\ started \in Nat /\ finished \in Nat
  BY TypeParts DEF JInv, Core
<1>2. /\ fetches[i] \in Fetched /\ published \in Versions
      /\ i = started /\ finished < i /\ i \in Nat
      /\ clock <= fetches[i].until /\ fetches[i].until <= clock + Attempt
      /\ \A j \in DOMAIN fetches : j = i
  BY <1>1 DEF JInv, Core, FetchTypes, Fetched, Latest, IInv, Single
<1>3. initialized BY DEF JInv, IInv, Untouched
<1>4. ASSUME NEW f, fetches' = [fetches EXCEPT ![i] = f], f \in Fetched,
             UNCHANGED <<clock, initialized, lastAttempt, call, started, finished>>,
             \/ f.url = fetches[i].url /\ f.until = fetches[i].until
             \/ f.url > 1 /\ f.until = clock + Attempt
      PROVE  JInv'
  <2>1. DOMAIN fetches' = DOMAIN fetches /\ fetches'[i] = f
    BY <1>4
  <2>2. FetchTypes' BY <1>1, <1>2, <1>4, <2>1 DEF FetchTypes, Fetched
  <2>3. Latest' BY <1>1, <1>2, <1>4, <2>1 DEF Latest, Fetched
  <2>4. ASSUME NEW c \in Caller PROVE Joined(c)'
    <3>1. Joined(c) BY DEF JInv
    <3> QED BY <1>2, <1>3, <1>4, <2>1, <3>1 DEF Joined
  <2>5. TypeOK' BY <1>4, <2>2, TypeParts DEF JInv
  <2>6. \A c \in Caller : Joined(c)' BY <2>4
  <2> QED BY <1>3, <1>4, <2>3, <2>5, <2>6 DEF JInv
<1>5. CASE FetchAnswers(i)
  <2>1. CASE Moves(i, [fetches[i] EXCEPT !.at = "save", !.got = published])
    <3> DEFINE f == [fetches[i] EXCEPT !.at = "save", !.got = published]
    <3>1. f \in Fetched /\ f.url = fetches[i].url /\ f.until = fetches[i].until
      BY <1>2 DEF Fetched
    <3> HIDE DEF f
    <3> QED BY <1>4, <2>1, <3>1 DEF f, Moves, memory
  <2>2. CASE Moves(i, [fetches[i] EXCEPT !.at = "failed"])
    <3> DEFINE f == [fetches[i] EXCEPT !.at = "failed"]
    <3>1. f \in Fetched /\ f.url = fetches[i].url /\ f.until = fetches[i].until
      BY <1>2 DEF Fetched
    <3> HIDE DEF f
    <3> QED BY <1>4, <2>2, <3>1 DEF f, Moves, memory
  <2> QED BY <1>5, <2>1, <2>2 DEF FetchAnswers
<1>6. CASE FetchFails(i)
  <2>1. CASE MoreUrls(fetches[i])
    <3> DEFINE f == [fetches[i] EXCEPT !.url = @ + 1, !.until = clock + Attempt]
    <3>1. fetches[i].url \in Nat /\ fetches[i].url >= 1 /\ fetches[i].url + 1 \in 1..Urls
            /\ clock + Attempt \in Nat
      BY <1>1, <1>2, <2>1 DEF MoreUrls, Fetched
    <3>2. f \in Fetched BY <1>2, <3>1 DEF Fetched
    <3>3. f.url = fetches[i].url + 1 /\ f.until = clock + Attempt BY <1>2 DEF Fetched
    <3>4. Moves(i, f) BY <1>6, <2>1 DEF FetchFails
    <3>5. f.url > 1 BY <3>1, <3>3
    <3> HIDE DEF f
    <3> QED BY <1>4, <3>2, <3>3, <3>4, <3>5 DEF Moves, memory
  <2>2. CASE ~MoreUrls(fetches[i])
    <3> DEFINE f == [fetches[i] EXCEPT !.at = "failed"]
    <3>1. f \in Fetched /\ f.url = fetches[i].url /\ f.until = fetches[i].until
      BY <1>2 DEF Fetched
    <3>2. Moves(i, f) BY <1>6, <2>2 DEF FetchFails
    <3> HIDE DEF f
    <3> QED BY <1>4, <3>1, <3>2 DEF Moves, memory
  <2> QED BY <2>1, <2>2
<1>7. CASE SaveCache(i)
  <2> DEFINE f == [fetches[i] EXCEPT !.at = "got"]
  <2>1. f \in Fetched /\ f.url = fetches[i].url /\ f.until = fetches[i].until
    BY <1>2 DEF Fetched
  <2>2. fetches' = [fetches EXCEPT ![i] = f] BY <1>7 DEF SaveCache
  <2> HIDE DEF f
  <2> QED BY <1>4, <1>7, <2>1, <2>2 DEF SaveCache, memory
<1>8. CASE FetchEnds(i)
  <2>1. DOMAIN fetches' = {} BY <1>2, <1>8 DEF FetchEnds, Drop
  <2>2. FetchTypes' /\ Latest'
    BY <1>1, <1>2, <1>8, <2>1 DEF FetchTypes, Latest, FetchEnds
  <2>3. ASSUME NEW c \in Caller PROVE Joined(c)'
    <3>1. Joined(c) BY DEF JInv
    <3>2. call[c].at \in Pending => call[c].need \in Nat
      BY CallTypes DEF JInv
    <3> QED BY <1>1, <1>2, <1>3, <1>8, <2>1, <3>1, <3>2 DEF Joined, FetchEnds
  <2>4. TypeOK' BY <1>8, <2>2, TypeParts DEF FetchEnds, JInv
  <2>5. \A c \in Caller : Joined(c)' BY <2>3
  <2> QED BY <1>3, <1>8, <2>2, <2>4, <2>5 DEF FetchEnds, JInv
<1> QED BY <1>5, <1>6, <1>7, <1>8 DEF Refresh

\* Steps that start and end no refresh and leave the requests alone, or answer
\* one.
LEMMA StillJoined ==
  ASSUME JInv, IInv', Core', UNCHANGED <<initialized, lastAttempt, fetches, started, finished>>,
         clock' = clock \/ \A i \in DOMAIN fetches : clock' <= fetches[i].until,
         clock' >= clock, call' \in [Caller -> CallRecords],
         \A c \in Caller : call'[c] = call[c] \/ call'[c].at \notin Pending
  PROVE  JInv'
<1> USE RefreshAssumption
<1>1. Core /\ FetchTypes /\ clock \in Nat /\ clock' \in Nat
  BY TypeParts DEF JInv, Core
<1>2. TypeOK' BY <1>1, TypeParts DEF FetchTypes
<1>3. \A i \in DOMAIN fetches : fetches[i].until \in Nat BY <1>1 DEF FetchTypes
<1>4. Latest' BY <1>1, <1>3 DEF JInv, Latest
<1>5. \A c \in Caller : Joined(c)' BY DEF JInv, Joined
<1> QED BY <1>2, <1>4, <1>5 DEF JInv

LEMMA CallsFacts ==
  ASSUME JInv, NEW c \in Caller, NEW at \in Pending, NEW need \in Nat, Calls(c, at, need)
  PROVE  /\ call' \in [Caller -> CallRecords]
         /\ \A d \in Caller \ {c} : call'[d] = call[d]
         /\ call'[c] = [at |-> at, deadline |-> clock + Wait, need |-> need]
         /\ call'[c].at = at /\ call'[c].need = need /\ call'[c].deadline = clock + Wait
<1>1. clock + Wait \in Nat
  BY TypeParts, RefreshAssumption DEF JInv, Core
<1>2. [at |-> at, deadline |-> clock + Wait, need |-> need] \in CallRecords
  BY <1>1 DEF CallRecords
<1>3. call \in [Caller -> CallRecords] BY DEF JInv
<1> QED BY <1>2, <1>3 DEF Calls

LEMMA ForceJoins ==
  ASSUME JInv, IInv', Core', NEW c \in Caller, ForceRefresh(c)
  PROVE  JInv'
<1> USE RefreshAssumption
<1>1. /\ Core /\ FetchTypes /\ clock \in Nat /\ started \in Nat /\ finished \in Nat
      /\ started + 1 \in Nat
  BY TypeParts DEF JInv, Core
<1>2. \A d \in Caller : /\ Joined(d)
                        /\ call[d].at \in Pending => call[d].need \in Nat /\ call[d].deadline \in Nat
  BY CallTypes DEF JInv
<1>3. (refreshing <=> DOMAIN fetches # {}) /\ \A i \in DOMAIN fetches : i = started
  BY DEF JInv, IInv, Single, Latest
<1>4. \A i \in DOMAIN fetches : fetches[i].until <= clock + Attempt /\ fetches[i].until \in Nat
  BY <1>1 DEF JInv, Latest, FetchTypes
<1>5. ASSUME UNCHANGED <<memory, fetches, started>>,
             \/ ~initialized /\ Calls(c, "init", started + 1)
             \/ initialized /\ refreshing /\ Calls(c, "wait", started)
      PROVE  JInv'
  <2>1. /\ call' \in [Caller -> CallRecords]
        /\ \A d \in Caller \ {c} : call'[d] = call[d]
        /\ \/ ~initialized /\ call'[c].at = "init" /\ call'[c].need = started + 1
           \/ /\ initialized /\ refreshing /\ call'[c].at = "wait"
              /\ call'[c].need = started /\ call'[c].deadline = clock + Wait
    BY <1>1, <1>5, CallsFacts DEF Pending
  <2>2. UNCHANGED <<clock, initialized, lastAttempt, fetches, started, finished>>
    BY <1>5 DEF ForceRefresh, memory
  <2>3. FetchTypes' /\ Latest'
    BY <1>1, <2>2 DEF FetchTypes, Latest, JInv
  <2>4. Joined(c)'
    BY <1>1, <1>3, <1>4, <2>1, <2>2 DEF Joined, Pending
  <2>5. ASSUME NEW d \in Caller \ {c} PROVE Joined(d)'
    BY <1>2, <2>1, <2>2 DEF Joined
  <2>6. TypeOK' BY <2>1, <2>3, TypeParts
  <2>7. \A d \in Caller : Joined(d)' BY <2>4, <2>5
  <2> QED BY <2>1, <2>2, <2>3, <2>6, <2>7 DEF JInv
<1>6. CASE initialized /\ ~refreshing /\ StartRefresh /\ Calls(c, "own", started + 1)
             /\ UNCHANGED <<initialized, doc, source, online>>
  <2>1. /\ call' \in [Caller -> CallRecords]
        /\ \A d \in Caller \ {c} : call'[d] = call[d]
        /\ call'[c].at = "own" /\ call'[c].need = started + 1
    BY <1>1, <1>6, CallsFacts DEF Pending
  <2>2. ASSUME NEW d \in Caller, call'[d].at \in Pending
        PROVE  /\ call'[d].need <= started + 1
               /\ call'[d].need <= started => finished >= call'[d].need
               /\ call'[d].at = "wait" /\ call'[d].need = started + 1 =>
                    call'[d].deadline >= clock + Attempt
    <3>1. CASE d = c BY <1>1, <2>1, <3>1
    <3>2. CASE d # c
      BY <1>1, <1>2, <1>3, <1>6, <2>1, <2>2, <3>2 DEF Joined
    <3> QED BY <3>1, <3>2
  <2>3. UNCHANGED <<clock, finished>> BY DEF ForceRefresh
  <2> QED BY <1>6, <2>1, <2>2, <2>3, StartJoins
<1> QED BY <1>5, <1>6 DEF ForceRefresh

LEMMA NextJoined == JInv /\ [Next]_vars => JInv'
<1> SUFFICES ASSUME JInv, [Next]_vars PROVE JInv'
  OBVIOUS
<1> USE RefreshAssumption
<1>1. IInv' /\ Core'
  BY NextInvariant, CoreMoves DEF JInv
<1>2. /\ Core /\ FetchTypes /\ clock \in Nat /\ call \in [Caller -> CallRecords]
      /\ \A c \in Caller : call[c].at \in Pending => call[c].need \in Nat
  BY TypeParts, CallTypes DEF JInv, Core
<1>3. CASE ReadCatalog
  BY <1>1, <1>2, <1>3, SnapshotJoins DEF ReadCatalog
<1>4. ASSUME NEW c \in Caller, ForceRefresh(c) PROVE JInv'
  BY <1>1, <1>4, ForceJoins
<1>5. ASSUME NEW c \in Caller, Progress(c) PROVE JInv'
  <2>1. CASE ForceFirst(c)
    <3>1. call[c].at = "init" /\ call[c].need \in Nat /\ Calls(c, "wait", call[c].need)
      BY <1>2, <2>1 DEF ForceFirst, Pending
    <3>2. /\ call' \in [Caller -> CallRecords]
          /\ \A d \in Caller \ {c} : call'[d] = call[d]
          /\ call'[c].at = "wait" /\ call'[c].need = call[c].need
          /\ call'[c].deadline = clock + Wait
      BY <3>1, CallsFacts DEF Pending
    <3>3. \A d \in Caller : call'[d].at \in Pending /\ call'[d] # call[d] =>
            /\ call[d].at \in Pending /\ call'[d].need = call[d].need
            /\ call'[d].at = "wait" /\ call'[d].deadline = clock + Wait
      BY <3>1, <3>2 DEF Pending
    <3>4. Snapshot /\ UNCHANGED <<clock, finished>> BY <2>1 DEF ForceFirst
    <3> QED BY <1>1, <3>2, <3>3, <3>4, SnapshotJoins
  <2>2. CASE call[c].at \in Pending /\ Answers(c)
    <3>1. [at |-> "done", need |-> call[c].need] \in CallRecords
      BY <1>2, <2>2 DEF CallRecords
    <3>2. /\ call' \in [Caller -> CallRecords]
          /\ \A d \in Caller : call'[d] = call[d] \/ call'[d].at \notin Pending
      BY <1>2, <2>2, <3>1 DEF Answers, Pending
    <3>3. UNCHANGED <<clock, initialized, lastAttempt, fetches, started, finished>>
      BY <2>2 DEF Answers, memory
    <3> QED BY <1>1, <1>2, <3>2, <3>3, StillJoined
  <2> QED BY <1>5, <2>1, <2>2 DEF Progress, WaitReturns, OwnReturns, Pending
<1>6. ASSUME NEW i \in DOMAIN fetches, Refresh(i) PROVE JInv'
  BY <1>1, <1>6, RefreshJoins
<1>7. CASE Publish
  BY <1>1, <1>2, <1>7, StillJoined DEF Publish, memory
<1>8. CASE Restart
  <2>1. DOMAIN fetches' = {} /\ ~initialized' /\ lastAttempt' = Never
        /\ UNCHANGED <<clock, started, finished>>
    BY <1>8 DEF Restart, Fresh
  <2>2. call' \in [Caller -> CallRecords] /\ \A c \in Caller : call'[c] = NoCall
    BY <1>8, CallTypes DEF Restart
  <2>3. FetchTypes' BY <2>1 DEF FetchTypes
  <2>4. Latest' BY <2>1 DEF Latest, JInv
  <2>5. \A c \in Caller : Joined(c)' BY <2>2, CallTypes DEF Joined, Pending
  <2>6. TypeOK' BY <1>1, <2>2, <2>3, TypeParts
  <2> QED BY <1>1, <2>1, <2>2, <2>4, <2>5, <2>6 DEF JInv
<1>9. CASE Tick
  <2>1. \A i \in DOMAIN fetches : clock + 1 <= fetches[i].until
    BY <1>2, <1>9 DEF Tick, FetchTypes
  <2> QED BY <1>1, <1>2, <1>9, <2>1, StillJoined DEF Tick, memory
<1>10. CASE UNCHANGED vars
  BY <1>1, <1>2, <1>10, StillJoined DEF vars, memory
<1> QED BY <1>3, <1>4, <1>5, <1>6, <1>7, <1>8, <1>9, <1>10 DEF Next

LEMMA JoinedAlways == Spec => []JInv
<1> QED BY InitJoined, NextJoined, PTL DEF Spec

\* The memory, the files, the refreshes and the requests of an index keep their
\* types, and no refresh tries a URL it does not have.
THEOREM TypeCorrect == Spec => []TypeOK
<1>1. JInv => TypeOK BY DEF JInv
<1> QED BY <1>1, JoinedAlways, PTL

\* A forced refresh (forceRefreshRouterForgeRegistry) is answered with its
\* result unless that took a second URL: one attempt is shorter than the wait.
THEOREM AnswersInTime == Spec => AnswersUnlessFallback
<1> DEFINE Answered ==
      \A c \in Caller :
        call[c].at \in {"wait", "own"} /\ call'[c].at = "done" =>
          \/ finished >= call[c].need
          \/ fetches[call[c].need].url > 1
<1>1. ASSUME JInv, [Next]_vars PROVE [Answered]_vars
  <2> SUFFICES ASSUME NEW c \in Caller, Next,
                      call[c].at \in {"wait", "own"}, call'[c].at = "done"
               PROVE  finished >= call[c].need \/ fetches[call[c].need].url > 1
    BY <1>1
  <2> DEFINE n == call[c].need
  <2>1. /\ clock \in Nat /\ started \in Nat /\ FetchTypes
        /\ call \in [Caller -> CallRecords] /\ Joined(c) /\ Latest
        /\ n \in Nat /\ call[c].deadline \in Nat /\ IInv
    BY <1>1, TypeParts, CallTypes DEF JInv, Core, Pending
  <2>2. finished >= n \/ n \in DOMAIN fetches
    BY <2>1 DEF Joined, Pending
  <2>3. CASE OwnReturns(c) BY <2>3 DEF OwnReturns
  <2>4. CASE WaitReturns(c)
    <3>1. CASE ~refreshing
      BY <2>1, <2>2, <3>1 DEF IInv, Single
    <3>2. CASE clock > call[c].deadline /\ n \in DOMAIN fetches
      <4>1. fetches[n].url \in 1..Urls /\ fetches[n].until \in Nat /\ clock <= fetches[n].until
        BY <2>1, <3>2 DEF FetchTypes, Latest
      <4>2. fetches[n].url # 1
        BY <2>1, <2>4, <3>2, <4>1 DEF Joined, WaitReturns, Pending
      <4> QED BY <4>1, <4>2, RefreshAssumption
    <3> QED BY <2>2, <2>4, <3>1, <3>2 DEF WaitReturns, WaitOver
  <2>5. CASE \E d \in Caller : Answers(d) /\ (WaitReturns(d) \/ OwnReturns(d))
    <3>1. PICK d \in Caller : Answers(d) /\ (WaitReturns(d) \/ OwnReturns(d))
      BY <2>5
    <3>2. d = c BY <2>1, <3>1 DEF Answers
    <3> QED BY <2>3, <2>4, <3>1, <3>2
  <2>6. ASSUME NEW d \in Caller, NEW at \in Pending, NEW need, Calls(d, at, need)
        PROVE  FALSE
    BY <2>1, <2>6 DEF Calls, Pending
  <2>7. call'[c] = call[c] => FALSE BY <2>1
  <2>8. ~Restart BY <2>1, CallTypes DEF Restart
  <2>9. ASSUME NEW d \in Caller, ForceRefresh(d) \/ ForceFirst(d) PROVE FALSE
    <3>1. \E at \in Pending : \E need : Calls(d, at, need)
      BY <2>9 DEF ForceRefresh, ForceFirst, Pending
    <3> QED BY <2>6, <3>1
  <2>10. ASSUME NEW i, Refresh(i) PROVE FALSE
    BY <2>7, <2>10
       DEF Refresh, FetchAnswers, FetchFails, SaveCache, FetchEnds, Moves
  <2>11. ~ReadCatalog /\ ~Publish /\ ~Tick
    BY <2>7 DEF ReadCatalog, Publish, Tick
  <2>12. ASSUME NEW d \in Caller, WaitReturns(d) \/ OwnReturns(d) PROVE Answers(d)
    BY <2>12 DEF WaitReturns, OwnReturns
  <2> QED BY <2>5, <2>8, <2>9, <2>10, <2>11, <2>12 DEF Next, Progress
<1> QED BY <1>1, JoinedAlways, PTL DEF Spec, AnswersUnlessFallback
=============================================================================
