---------------------------- MODULE IndexRefresh ----------------------------
(***************************************************************************)
(* How Core keeps a remote index.  It has two, the Marketplace Registry    *)
(* and the release index of its channel, kept by the same code with other  *)
(* constants.  Reading the catalog takes a snapshot of the index and, once *)
(* an hour, starts a refresh in the background; the button "check for      *)
(* updates" forces one and waits for it.  A refresh tries its URLs one     *)
(* after the other, saves what it got to a cache file and installs it.     *)
(*                                                                         *)
(* Documents are numbered in the order they are published; 0 is the one    *)
(* the program is built with.  All URLs serve the newest one.  The mutex   *)
(* of the state makes each step one; the fetch and the file are worked on  *)
(* outside it.                                                             *)
(***************************************************************************)
EXTENDS Integers, FiniteSets

CONSTANTS
  Caller,     \* requests that force a refresh
  Urls,       \* number of URLs a refresh tries
  Attempt,    \* an attempt at one URL ends within this time
  Wait,       \* how long a forced refresh waits for one under way
  Interval,   \* how often a snapshot starts a refresh
  Restarts,   \* Core may be restarted
  MaxVersion, MaxRefreshes, MaxTime  \* bounds of the model

ASSUME RefreshAssumption ==
  /\ {Urls, Attempt, Interval} \subseteq Nat \ {0}
  /\ {Wait, MaxVersion, MaxRefreshes, MaxTime} \subseteq Nat
  /\ Restarts \in BOOLEAN
  /\ Attempt <= Wait  \* 6 and 8 seconds, or 8 and 10

VARIABLES
  clock,
  published,    \* environment: the newest document there is
  initialized, refreshing, lastAttempt, doc, source, online,
  cache,        \* the cache file
  fetches,      \* the refreshes under way, by serial number
  call,         \* the requests that force a refresh
  started, finished  \* history: serial numbers of refreshes

memory == <<initialized, refreshing, lastAttempt, doc, source, online>>
vars   == <<clock, published, memory, cache, fetches, call, started, finished>>

Versions == 0..MaxVersion
Sources  == {"bundled", "cache", "remote"}
Never    == -1
NoFile   == -1
NoCall   == [at |-> "idle"]

Put(f, k, v) == [x \in DOMAIN f \union {k} |-> IF x = k THEN v ELSE f[x]]
Drop(f, k)   == [x \in DOMAIN f \ {k} |-> f[x]]

\* A process that has just started.
Fresh ==
  /\ initialized' = FALSE /\ refreshing' = FALSE /\ lastAttempt' = Never
  /\ doc' = 0 /\ source' = "bundled" /\ online' = FALSE

Init ==
  /\ clock = 0 /\ published \in Versions
  /\ initialized = FALSE /\ refreshing = FALSE /\ lastAttempt = Never
  /\ doc = 0 /\ source = "bundled" /\ online = FALSE
  /\ cache = NoFile
  /\ fetches = <<>> /\ call = [c \in Caller |-> NoCall]
  /\ started = 0 /\ finished = 0

-----------------------------------------------------------------------------
(* Snapshots and forced refreshes.                                         *)

\* A refresh of its own goroutine or of the caller's begins.
StartRefresh ==
  /\ started < MaxRefreshes
  /\ started' = started + 1
  /\ refreshing' = TRUE /\ lastAttempt' = clock
  /\ fetches' = Put(fetches, started + 1,
                    [at |-> "fetch", url |-> 1, until |-> clock + Attempt, got |-> 0])

MutDue == lastAttempt = Never \/ clock - lastAttempt >= Interval

Due == ~refreshing /\ (lastAttempt = Never \/ clock - lastAttempt >= Interval)

\* What the first snapshot of a process loads: the cache file, if there is one.
Loaded ==
  /\ initialized' = TRUE
  /\ IF ~initialized /\ cache # NoFile
     THEN doc' = cache /\ source' = "cache"
     ELSE UNCHANGED <<doc, source>>

Snapshot ==
  /\ Loaded
  /\ \/ Due /\ StartRefresh
     \/ ~Due /\ UNCHANGED <<refreshing, lastAttempt, fetches, started>>
  /\ UNCHANGED online

\* readCatalog, for any page that shows the catalog.
ReadCatalog ==
  /\ ~initialized \/ Due
  /\ Snapshot
  /\ UNCHANGED <<clock, published, cache, call, finished>>

\* The answer is due for the refresh that is under way or begins now.
Calls(c, at, need) ==
  call' = [call EXCEPT ![c] = [at |-> at, deadline |-> clock + Wait, need |-> need]]

\* forceRefresh: without a snapshot it takes one first, joins a refresh
\* under way, or runs one itself.
ForceRefresh(c) ==
  /\ call[c] = NoCall
  /\ \/ /\ ~initialized /\ started < MaxRefreshes
        /\ Calls(c, "init", started + 1)
        /\ UNCHANGED <<memory, fetches, started>>
     \/ /\ initialized /\ refreshing
        /\ Calls(c, "wait", started)
        /\ UNCHANGED <<memory, fetches, started>>
     \/ /\ initialized /\ ~refreshing
        /\ StartRefresh
        /\ Calls(c, "own", started + 1)
        /\ UNCHANGED <<initialized, doc, source, online>>
  /\ UNCHANGED <<clock, published, cache, finished>>

ForceFirst(c) ==
  /\ call[c].at = "init"
  /\ Snapshot
  /\ Calls(c, "wait", call[c].need)
  /\ UNCHANGED <<clock, published, cache, finished>>

\* The status a forced refresh answers with.
Answers(c) ==
  /\ call' = [call EXCEPT ![c] = [at |-> "done", need |-> call[c].need]]
  /\ UNCHANGED <<clock, published, memory, cache, fetches, started, finished>>

MutWaitOver(c) == TRUE

\* waitRefresh: until no refresh is under way or the time is up.
WaitOver(c) == ~refreshing \/ clock > call[c].deadline

WaitReturns(c) ==
  /\ call[c].at = "wait" /\ WaitOver(c)
  /\ Answers(c)

OwnReturns(c) ==
  /\ call[c].at = "own" /\ finished >= call[c].need
  /\ Answers(c)

-----------------------------------------------------------------------------
(* The refresh.                                                            *)

Moves(i, f) ==
  /\ fetches' = [fetches EXCEPT ![i] = f]
  /\ UNCHANGED <<clock, published, memory, cache, call, started, finished>>

\* A URL answers with the newest document: with one that cannot be parsed,
\* the refresh has failed.
FetchAnswers(i) ==
  LET f == fetches[i] IN
  /\ f.at = "fetch"
  /\ \/ Moves(i, [f EXCEPT !.at = "save", !.got = published])
     \/ Moves(i, [f EXCEPT !.at = "failed"])

MutMoreUrls(f) == f.url <= Urls

MoreUrls(f) == f.url < Urls

\* It does not, and the next one is tried.
FetchFails(i) ==
  LET f == fetches[i] IN
  /\ f.at = "fetch"
  /\ \/ /\ MoreUrls(f)
        /\ Moves(i, [f EXCEPT !.url = @ + 1, !.until = clock + Attempt])
     \/ ~MoreUrls(f) /\ Moves(i, [f EXCEPT !.at = "failed"])

\* The cache file is replaced in one step, or stays as it is.
SaveCache(i) ==
  /\ fetches[i].at = "save"
  /\ cache' \in {cache, fetches[i].got}
  /\ fetches' = [fetches EXCEPT ![i].at = "got"]
  /\ UNCHANGED <<clock, published, memory, call, started, finished>>

MutFinish(i) ==
  /\ refreshing' = (fetches[i].at = "failed")
  /\ doc' = fetches[i].got /\ source' = "remote" /\ online' = TRUE

\* A failed refresh leaves the document alone.
Finish(i) ==
  /\ refreshing' = FALSE
  /\ \/ /\ fetches[i].at = "got"
        /\ doc' = fetches[i].got /\ source' = "remote" /\ online' = TRUE
     \/ /\ fetches[i].at = "failed"
        /\ online' = FALSE /\ UNCHANGED <<doc, source>>

FetchEnds(i) ==
  /\ fetches[i].at \in {"got", "failed"}
  /\ Finish(i)
  /\ fetches' = Drop(fetches, i)
  /\ finished' = i
  /\ UNCHANGED <<clock, published, initialized, lastAttempt, cache, call, started>>

Refresh(i) ==
  FetchAnswers(i) \/ FetchFails(i) \/ SaveCache(i) \/ FetchEnds(i)

-----------------------------------------------------------------------------
(* The environment.                                                        *)

Publish ==
  /\ published < MaxVersion
  /\ published' = published + 1
  /\ UNCHANGED <<clock, memory, cache, fetches, call, started, finished>>

\* A restart takes the refreshes under way and the requests with it.
Restart ==
  /\ Restarts /\ initialized
  /\ Fresh
  /\ fetches' = <<>> /\ call' = [c \in Caller |-> NoCall]
  /\ UNCHANGED <<clock, published, cache, started, finished>>

\* Only attempts and waiting take time.
Tick ==
  /\ clock < MaxTime
  /\ \A i \in DOMAIN fetches : fetches[i].at = "fetch" /\ clock < fetches[i].until
  /\ \A c \in Caller : call[c].at = "wait" => ~WaitOver(c)
  /\ \A c \in Caller : call[c].at \notin {"init"}
  /\ clock' = clock + 1
  /\ UNCHANGED <<published, memory, cache, fetches, call, started, finished>>

Progress(c) == ForceFirst(c) \/ WaitReturns(c) \/ OwnReturns(c)

Next ==
  \/ ReadCatalog
  \/ \E c \in Caller : ForceRefresh(c) \/ Progress(c)
  \/ \E i \in DOMAIN fetches : Refresh(i)
  \/ Publish \/ Restart \/ Tick

Spec == Init /\ [][Next]_vars

\* HTTP attempts have a time limit and goroutines are scheduled.
FairSpec ==
  /\ Spec
  /\ \A c \in Caller : WF_vars(Progress(c))
  /\ \A i \in 1..MaxRefreshes : WF_vars(i \in DOMAIN fetches /\ Refresh(i))

-----------------------------------------------------------------------------
(* Properties.                                                             *)

TypeOK ==
  /\ clock \in 0..MaxTime /\ published \in Versions
  /\ {initialized, refreshing, online} \subseteq BOOLEAN
  /\ lastAttempt \in {Never} \union 0..MaxTime
  /\ doc \in Versions /\ source \in Sources
  /\ cache \in Versions \union {NoFile}
  /\ DOMAIN fetches \subseteq 1..MaxRefreshes
  /\ \A i \in DOMAIN fetches : fetches[i] \in
       [at : {"fetch", "save", "got", "failed"}, url : 1..Urls,
        until : Nat, got : Versions]
  /\ \A c \in Caller : call[c] \in
       {NoCall} \union [at : {"done"}, need : Nat]
         \union [at : {"init", "wait", "own"}, deadline : Nat, need : Nat]
  /\ started \in 0..MaxRefreshes /\ finished \in 0..MaxRefreshes

\* The flag is set exactly while a refresh is under way, and there is never a
\* second one: two would write the same temporary file.
SingleFlight ==
  /\ Cardinality(DOMAIN fetches) <= 1
  /\ refreshing = (DOMAIN fetches # {})

\* As long as a process runs, the catalog never falls back to an older
\* document, whichever refreshes fail or overlap with whatever else happens;
\* the cache file does not either, and a restart finds what it holds.
NeverOlder ==
  [][/\ (initialized /\ initialized' => doc' >= doc)
     /\ cache' >= cache
     /\ (~initialized /\ initialized' => doc' >= cache)]_vars

\* The button "check for updates" "waits for the result" (docs/INSTALLATION.md,
\* docs/MARKETPLACE.md): it is answered only when the refresh it has joined or
\* begun is over.
AnswersWithResult ==
  [][\A c \in Caller :
       call[c].at \in {"wait", "own"} /\ call'[c].at = "done" =>
         finished >= call[c].need]_vars

\* It is at least when the first URL answers or refuses: the wait only runs
\* out on a refresh that had to try another URL.
AnswersUnlessFallback ==
  [][\A c \in Caller :
       call[c].at \in {"wait", "own"} /\ call'[c].at = "done" =>
         \/ finished >= call[c].need
         \/ fetches[call[c].need].url > 1]_vars

\* A forced refresh is answered, unless a restart has taken it.
ForceReturns ==
  \A c \in Caller : call[c] # NoCall ~> call[c] = NoCall \/ call[c].at = "done"
=============================================================================
