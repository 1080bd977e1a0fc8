--------------------------- MODULE PackageActions ---------------------------
(***************************************************************************)
(* The Marketplace's install, update and remove.  A request waits for the  *)
(* mutex of Core's process, is checked against a fresh catalog, and runs   *)
(* its plan: a package of RouterForge's own is downloaded, verified and    *)
(* given to opkg; others follow the steps of an approved manifest.  The    *)
(* request succeeds only if the catalog, read again, shows what was asked. *)
(*                                                                         *)
(* opkg is a process of its own with a lock of its own.  It runs package   *)
(* scripts, and those of Core and of a few modules stop or restart Core:   *)
(* the requests die with it, opkg goes on without them.  What opkg has     *)
(* started may outlive it: a request waits for whoever holds the pipe its  *)
(* opkg writes to, and a script whose opkg was killed goes on.             *)
(***************************************************************************)
EXTENDS Integers, Sequences, FiniteSets

CONSTANTS
  Req,         \* requests
  Core,        \* RouterForge Core: both the item and its package
  Item,        \* catalog items; the package of an item has its name
  Package,     \* all packages
  Restarters,  \* packages whose scripts restart Core
  Release,     \* items of the release index
  Plan,        \* the steps of each item's install, update and remove
  Conflict,    \* packages that refuse an item's installation
  Swap,        \* pairs of packages of which plans bring one for the other
  MaxVersion,  \* bound: versions are 1..MaxVersion
  Feed,        \* the versions opkg may find in its feeds
  Scenarios    \* what a behaviour is about

Action == {"install", "update", "remove"}

\* A step is of opkg, writes the file of a feed, or downloads a release and
\* installs that; its failure ends the plan or does not.  An empty plan is
\* one that Core may only show.
Step == [op : {"ipk", "lists", "feed", "install", "upgrade", "remove"},
         pkg : Package, must : BOOLEAN]

ASSUME PackageAssumption ==
  /\ Core \in Item /\ Item \subseteq Package /\ Core \in Release
  /\ Release \subseteq Item /\ Restarters \subseteq Package \ {Core}
  /\ Plan \in [Item -> [Action -> Seq(Step)]]
  /\ Conflict \in [Item -> SUBSET Package]
  /\ MaxVersion \in Nat \ {0, 1} /\ Feed \subseteq 1..MaxVersion
  \* The items requests ask for, the packages an administrator manages by
  \* hand, the items with new releases, and what is installed at first.
  /\ Scenarios \subseteq [items : SUBSET Item, hand : SUBSET (Package \ {Core}),
                          news : SUBSET Release, installed : SUBSET Package]
  /\ Plan[Core].install = <<>> /\ Plan[Core].remove = <<>>
  /\ \A i \in Item, a \in Action : \A k \in DOMAIN Plan[i][a] :
       Plan[i][a][k].op = "ipk" => i \in Release /\ Plan[i][a][k].pkg = i

\* Of the steps before the k-th one of a plan, one brings p or ends the plan,
\* and those since then leave p alone.
Brings(i, a, k, p) ==
  \E j \in 1..(k - 1) :
    /\ Plan[i][a][j] = [op |-> "install", pkg |-> p, must |-> TRUE]
    /\ \A l \in (j + 1)..k : Plan[i][a][l].pkg # p

\* A plan touches the old package of a pair only after it has brought the new
\* one; the administrator leaves both alone.
ASSUME SwapAssumption ==
  /\ Swap \subseteq [old : Package, new : Package]
  /\ \A w \in Swap :
       /\ w.old # w.new
       /\ \A s \in Scenarios : {w.old, w.new} \intersect s.hand = {}
       /\ \A i \in Item, a \in Action : \A k \in DOMAIN Plan[i][a] :
            Plan[i][a][k].pkg = w.old => Brings(i, a, k, w.new)

VARIABLES
  scenario,  \* one of Scenarios, from the start
  running,   \* the version of the Core process, None when there is none
  disk,      \* the version of Core's binary
  abi,       \* the marker without which the DNS module does not start
  holder,    \* the request that holds marketplaceInstallMu
  req,       \* the requests
  offer,     \* the versions the release index has
  files,     \* downloaded packages, by item and version, and which are whole
  feeds,     \* items whose feed file has been written
  db,        \* opkg's database: the versions of installed packages
  opkg,      \* the opkg process
  left       \* what has outlived the opkg that started it: for whom that
             \* ran, the package, and the script it is

core == <<running, disk, abi>>
vars == <<scenario, core, holder, req, offer, files, feeds, db, opkg, left>>

None     == 0
Version  == 1..MaxVersion
Nobody   == "nobody"
NoOpkg   == [at |-> "none"]
NoReq    == [at |-> "idle"]
Answered == {"idle", "ok", "failed"}

ASSUME RequestAssumption == None \notin Req /\ Nobody \notin Req

Init ==
  /\ scenario \in Scenarios
  /\ running = 1 /\ disk = 1 /\ abi = TRUE
  /\ holder = None /\ req = [r \in Req |-> NoReq]
  /\ offer = [i \in Release |-> MaxVersion - 1]
  /\ files = {} /\ feeds = {}
  /\ db = [p \in Package |->
             IF p \in scenario.installed \union {Core} THEN 1 ELSE None]
  /\ opkg = NoOpkg /\ left = {}

-----------------------------------------------------------------------------
(* The catalog.                                                            *)

\* Core is always installed; its version is that of the running process.
VersionShown(i) == IF i = Core THEN running ELSE db[i]

Installed(i) == VersionShown(i) # None

MutUpdateAvailable(i) == db[i] # None /\ db[i] # offer[i]

UpdateAvailable(i) == Installed(i) /\ VersionShown(i) # offer[i]

Allowed(i, a) ==
  /\ Plan[i][a] # <<>>
  /\ CASE a = "install" -> ~Installed(i)
       [] a = "remove"  -> Installed(i)
       [] a = "update"  -> Installed(i) /\ (i \in Release => UpdateAvailable(i))

MutCompleted(q) == Installed(q.item) = (q.action # "remove")

\* The catalog, read again, shows what was asked for.
Completed(q) ==
  /\ Installed(q.item) = (q.action # "remove")
  /\ q.action = "update" /\ q.item \in Release => VersionShown(q.item) = q.target

-----------------------------------------------------------------------------
(* A request, up to its plan.                                              *)

Goes(r, q) == req' = [req EXCEPT ![r] = q]

Post(r, i, a) ==
  /\ running # None /\ req[r] = NoReq
  /\ Goes(r, [at |-> "queued", item |-> i, action |-> a, live |-> TRUE,
              target |-> None, step |-> 1])
  /\ UNCHANGED <<core, holder, offer, files, feeds, db, opkg, left>>

\* The client hangs up, or the 180 seconds that began with the request are
\* over.
Expire(r) ==
  /\ req[r].at \notin Answered /\ req[r].live
  /\ Goes(r, [req[r] EXCEPT !.live = FALSE])
  /\ UNCHANGED <<core, holder, offer, files, feeds, db, opkg, left>>

Answer(r, result) ==
  /\ Goes(r, [at |-> result]) /\ holder' = None

MutFree == TRUE

Free == holder = None

\* The request gets the mutex; the catalog is read and the action refused or
\* begun, with the release it then shows as its target.  It is refused as
\* well if package management is off or a removal is not confirmed.
Enter(r) ==
  LET q == req[r] IN
  /\ q.at = "queued" /\ Free
  /\ \/ Answer(r, "failed")
     \/ /\ Allowed(q.item, q.action)
        /\ holder' = r
        /\ Goes(r, [q EXCEPT !.at = "plan",
                     !.target = IF q.item \in Release THEN offer[q.item] ELSE None])
  /\ UNCHANGED <<core, offer, files, feeds, db, opkg, left>>

-----------------------------------------------------------------------------
(* The plan.                                                               *)

StepOf(q) == Plan[q.item][q.action][q.step]

Ipk(q, whole) == [item |-> q.item, version |-> q.target, whole |-> whole]

\* The downloaded package is removed when its plan ends.
Cleaned(q) == files \ {Ipk(q, TRUE), Ipk(q, FALSE)}

MutMoreSteps(q) == q.step <= Len(Plan[q.item][q.action])

MoreSteps(q) == q.step < Len(Plan[q.item][q.action])

Advance(r) ==
  /\ IF MoreSteps(req[r])
     THEN Goes(r, [req[r] EXCEPT !.at = "plan", !.step = @ + 1])
     ELSE Goes(r, [req[r] EXCEPT !.at = "check"])
  /\ UNCHANGED holder

MutEndsPlan(q) == FALSE

EndsPlan(q) == StepOf(q).must

Fail(r) == IF EndsPlan(req[r]) THEN Answer(r, "failed") ELSE Advance(r)

\* A structured installation is refused while a conflicting package is there.
Refuses(q) ==
  q.action = "install" /\ q.step = 1 /\ \E p \in Conflict[q.item] : db[p] # None

Doing(r, ops) ==
  req[r].at = "plan" /\ ~Refuses(req[r]) /\ StepOf(req[r]).op \in ops

Conflicts(r) ==
  /\ req[r].at = "plan" /\ Refuses(req[r])
  /\ Answer(r, "failed")
  /\ UNCHANGED <<core, offer, files, feeds, db, opkg, left>>

\* The file is truncated and written anew.
Download(r) ==
  /\ Doing(r, {"ipk"})
  /\ files' = Cleaned(req[r]) \union {Ipk(req[r], FALSE)}
  /\ Goes(r, [req[r] EXCEPT !.at = "download"])
  /\ UNCHANGED <<core, holder, offer, feeds, db, opkg, left>>

\* It arrives and has the checksum of the release index, or is removed.
Downloaded(r) ==
  LET q == req[r] IN
  /\ q.at = "download"
  /\ \/ /\ q.live
        /\ files' = Cleaned(q) \union {Ipk(q, TRUE)}
        /\ Goes(r, [q EXCEPT !.at = "verified"])
        /\ UNCHANGED holder
     \/ files' = Cleaned(q) /\ Fail(r)
  /\ UNCHANGED <<core, offer, feeds, db, opkg, left>>

\* opkg is started, unless the request is over by then; another opkg may
\* hold the lock.
StartOpkg(r) ==
  LET q == req[r]
      s == StepOf(q)
  IN /\ q.at = "verified" \/ Doing(r, {"lists", "install", "upgrade", "remove"})
     /\ \/ /\ q.live /\ opkg = NoOpkg
           /\ \E v \in IF s.op = "ipk" THEN {q.target} ELSE Feed :
                opkg' = [at |-> "begin", pkg |-> s.pkg, by |-> r, to |-> v,
                         verb |-> IF s.op = "ipk" /\ q.action = "update"
                                  THEN "reinstall"
                                  ELSE IF s.op = "ipk" THEN "install" ELSE s.op,
                         ipk |-> s.op = "ipk"]
           /\ Goes(r, [q EXCEPT !.at = "run"])
           /\ UNCHANGED <<holder, files>>
        \/ /\ ~q.live \/ opkg # NoOpkg
           /\ files' = Cleaned(q)
           /\ Fail(r) /\ UNCHANGED opkg
     /\ UNCHANGED <<core, offer, feeds, db, left>>

\* Writing the feed's file does not depend on the client.
WriteFeed(r) ==
  /\ Doing(r, {"feed"})
  /\ \/ feeds' = feeds \union {req[r].item} /\ Advance(r)
     \/ Fail(r) /\ UNCHANGED feeds
  /\ UNCHANGED <<core, offer, files, db, opkg, left>>

\* opkg has ended, and so has everything else that could write to its output:
\* CombinedOutput waits for it, however the request is.
Ran(r) ==
  LET q == req[r] IN
  /\ q.at \in {"exit 0", "exit 1"} /\ \A c \in left : c.by # r
  /\ files' = Cleaned(q)
  /\ \/ q.at = "exit 0" /\ Advance(r)
     \/ q.at = "exit 1" /\ Fail(r)
  /\ UNCHANGED <<core, offer, feeds, db, opkg, left>>

Check(r) ==
  /\ req[r].at = "check"
  /\ Answer(r, IF Completed(req[r]) THEN "ok" ELSE "failed")
  /\ UNCHANGED <<core, offer, files, feeds, db, opkg, left>>

Work(r) ==
  \/ Conflicts(r) \/ Download(r) \/ Downloaded(r) \/ StartOpkg(r)
  \/ WriteFeed(r) \/ Ran(r) \/ Check(r)

-----------------------------------------------------------------------------
(* opkg and the package scripts.                                           *)

\* The requests die with the process.  Nobody waits any longer for what is
\* left, of which the scripts still matter.
CutOff(scripts) ==
  /\ req' = [r \in Req |-> NoReq] /\ holder' = None
  /\ left' = {[c EXCEPT !.by = Nobody] : c \in {s \in scripts : s.does # "rest"}}

\* prerm runs, if the package is installed.
BeforeUnpack ==
  /\ opkg.at = "begin" /\ opkg.verb # "lists"
  /\ opkg.verb = "remove" => db[opkg.pkg] # None
  /\ opkg.verb = "install" => db[opkg.pkg] = None \/ ~opkg.ipk

\* prerm of the installed version; the opkg of a request that dies is
\* nobody's then.
Prerm ==
  /\ BeforeUnpack
  /\ \/ /\ db[opkg.pkg] # None /\ opkg.pkg = Core
        /\ abi' = FALSE /\ running' = None /\ CutOff(left)
        /\ opkg' = [opkg EXCEPT !.at = "unpack", !.by = Nobody]
     \/ /\ db[opkg.pkg] # None /\ opkg.pkg \in Restarters
        /\ running' = disk /\ CutOff(left)
        /\ opkg' = [opkg EXCEPT !.at = "unpack", !.by = Nobody]
        /\ UNCHANGED abi
     \/ /\ db[opkg.pkg] = None \/ opkg.pkg \notin Restarters \union {Core}
        /\ opkg' = [opkg EXCEPT !.at = "unpack"]
        /\ UNCHANGED <<running, abi, req, holder, left>>
  /\ UNCHANGED <<disk, offer, files, feeds, db>>

\* A package from the Marketplace is read from the downloaded file.
Readable ==
  opkg.ipk => [item |-> opkg.pkg, version |-> opkg.to, whole |-> TRUE] \in files

Unpack ==
  /\ opkg.at = "unpack" /\ Readable
  /\ opkg' = [opkg EXCEPT !.at = "postinst"]
  /\ IF opkg.pkg = Core THEN disk' = opkg.to /\ abi' = TRUE
     ELSE UNCHANGED <<disk, abi>>
  /\ UNCHANGED <<running, holder, req, offer, files, feeds, db, left>>

\* postinst, unless the package is being removed.
Postinst ==
  /\ opkg.at = "postinst"
  /\ \/ /\ opkg.pkg \in Restarters \union {Core} /\ opkg.verb # "remove"
        /\ running' = disk /\ CutOff(left)
        /\ abi' = (abi \/ opkg.pkg = Core)
        /\ opkg' = [opkg EXCEPT !.at = "commit", !.by = Nobody]
     \/ /\ opkg.pkg \notin Restarters \union {Core} \/ opkg.verb = "remove"
        /\ opkg' = [opkg EXCEPT !.at = "commit"]
        /\ UNCHANGED <<running, abi, req, holder, left>>
  /\ UNCHANGED <<disk, offer, files, feeds, db>>

\* Of the package's own scripts, the one that restarts Core and is under way.
Script ==
  IF opkg.pkg \notin Restarters \union {Core} THEN {}
  ELSE IF BeforeUnpack /\ db[opkg.pkg] # None THEN {"prerm"}
  ELSE IF opkg.at = "postinst" /\ opkg.verb # "remove" THEN {"postinst"} ELSE {}

\* opkg ends, with everything it has started or all but one: something that
\* holds the pipe on which a request waits, or one of the scripts.
Exit(what, scripts) ==
  /\ opkg' = NoOpkg
  /\ IF opkg.by \in Req
     THEN /\ req' = [req EXCEPT ![opkg.by].at = what]
          /\ left' \in {left} \union
               {left \union {[by |-> opkg.by, pkg |-> opkg.pkg, does |-> d]} :
                 d \in {"rest"} \union scripts}
     ELSE UNCHANGED <<req, left>>
  /\ UNCHANGED <<core, holder, offer, files, feeds>>

Commit ==
  /\ opkg.at = "commit"
  /\ db' = [db EXCEPT ![opkg.pkg] = IF opkg.verb = "remove" THEN None ELSE opkg.to]
  /\ Exit("exit 0", {})

\* There is nothing to do but, maybe, to load the package lists.
NothingToDo ==
  /\ opkg.at = "begin"
  /\ \/ opkg.verb \in {"install", "upgrade"} /\ db[opkg.pkg] # None
     \/ opkg.verb \in {"upgrade", "remove"} /\ db[opkg.pkg] = None
     \/ opkg.verb = "lists"
  /\ Exit("exit 0", {}) /\ UNCHANGED db

\* The package is then what it was or no longer installed.
Breaks ==
  \/ UNCHANGED db
  \/ opkg.at # "begin" /\ db' = [db EXCEPT ![opkg.pkg] = None]

\* opkg fails, or an orphan dies when nobody reads what it writes.
OpkgFails ==
  /\ opkg # NoOpkg
  /\ Breaks /\ Exit("exit 1", {})

MutKilled(r) == FALSE

\* The context of a request kills the opkg it waits for, and only that.
Killed(r) == req[r].at = "run" /\ ~req[r].live

Kill(r) ==
  /\ Killed(r) /\ opkg # NoOpkg /\ opkg.by = r
  /\ Breaks /\ Exit("exit 1", Script)

\* What is left ends, or a script does what it was about to do.
ScriptEnds(c) ==
  /\ \/ left' = left \ {c}
        /\ UNCHANGED <<running, abi, req, holder, opkg>>
     \/ /\ c.does # "rest" /\ CutOff(left \ {c})
        /\ IF c.pkg = Core /\ c.does = "prerm"
           THEN abi' = FALSE /\ running' = None
           ELSE abi' = (abi \/ c.pkg = Core) /\ running' = disk
        /\ opkg' = IF opkg = NoOpkg THEN opkg ELSE [opkg EXCEPT !.by = Nobody]
  /\ UNCHANGED <<disk, offer, files, feeds, db>>

Opkg == Prerm \/ Unpack \/ Postinst \/ Commit \/ NothingToDo \/ OpkgFails

-----------------------------------------------------------------------------
(* The environment.                                                        *)

\* An administrator uses opkg by hand.
RunByHand(p, verb) ==
  /\ opkg = NoOpkg
  /\ \E v \in Feed :
       opkg' = [at |-> "begin", pkg |-> p, by |-> Nobody, to |-> v,
                verb |-> verb, ipk |-> FALSE]
  /\ UNCHANGED <<core, holder, req, offer, files, feeds, db, left>>

\* The background refresh of the release index brings a new version.
NewRelease(i) ==
  /\ offer[i] < MaxVersion
  /\ offer' = [offer EXCEPT ![i] = @ + 1]
  /\ UNCHANGED <<core, holder, req, files, feeds, db, opkg, left>>

\* The router restarts.
Reboot ==
  /\ running' = disk /\ CutOff({}) /\ opkg' = NoOpkg
  /\ IF opkg = NoOpkg THEN UNCHANGED db ELSE Breaks
  /\ UNCHANGED <<disk, abi, offer, files, feeds>>

Progress(r) == Enter(r) \/ Work(r) \/ Kill(r)

Next ==
  /\ \/ \E r \in Req :
          \/ \E i \in scenario.items, a \in Action : Post(r, i, a)
          \/ Expire(r) \/ Progress(r)
     \/ opkg # NoOpkg /\ Opkg
     \/ \E c \in left : ScriptEnds(c)
     \/ \E p \in scenario.hand, verb \in {"install", "remove"} :
          RunByHand(p, verb)
     \/ \E i \in scenario.news : NewRelease(i)
     \/ Reboot
  /\ UNCHANGED scenario

Spec == Init /\ [][Next]_vars

\* Every request runs out of time, and what it does itself ends.  opkg may
\* hang, and so may whatever it has started.
FairSpec ==
  /\ Spec
  /\ \A r \in Req : WF_vars(Expire(r) /\ UNCHANGED scenario)
                  /\ WF_vars(Progress(r) /\ UNCHANGED scenario)

-----------------------------------------------------------------------------
(* Properties.                                                             *)

Waiting == {"download", "verified", "run", "exit 0", "exit 1", "plan", "check"}

\* The shapes of the state; exactly the request that holds the mutex is past
\* its check, and only requests of a running Core exist.
TypeOK ==
  /\ running \in {None} \union Version /\ disk \in Version /\ abi \in BOOLEAN
  /\ offer \in [Release -> Version] /\ feeds \subseteq Item
  /\ files \subseteq [item : Release, version : Version, whole : BOOLEAN]
  /\ db \in [Package -> {None} \union Version]
  /\ opkg = NoOpkg \/ opkg \in
       [at : {"begin", "unpack", "postinst", "commit"}, pkg : Package,
        by : Req \union {Nobody}, to : Version, ipk : BOOLEAN,
        verb : {"lists", "install", "upgrade", "remove", "reinstall"}]
  /\ left \subseteq [by : Req \union {Nobody}, pkg : Package,
                    does : {"prerm", "postinst", "rest"}]
  /\ \A r \in Req :
       /\ req[r] \in [at : Answered] \/ req[r] \in
            [at : Waiting \union {"queued"}, item : Item, action : Action,
             live : BOOLEAN, target : {None} \union Version, step : Nat]
       /\ req[r].at \in Waiting =>
            holder = r /\ req[r].step \in DOMAIN Plan[req[r].item][req[r].action]

\* An action is reported successful only when opkg's database says so: the
\* item is installed, or gone, and an update has brought the very version the
\* index showed when it was allowed (docs/MARKETPLACE.md: a zero exit code of
\* opkg is not enough), whatever the administrator or the index did meanwhile.
OkIsDone ==
  [][\A r \in Req :
       req[r].at # "ok" /\ req'[r].at = "ok" =>
         LET q == req[r] IN
         /\ q.item # Core
         /\ (db[q.item] # None) = (q.action # "remove")
         /\ q.action = "update" /\ q.item \in Release => db[q.item] = q.target]_vars

\* What opkg reads for a request that waits for it is, until it ends, the
\* file that request has downloaded and verified.
InstallsVerified == opkg # NoOpkg /\ opkg.by # Nobody => Readable

\* An update of Core that broke off between its scripts leaves the DNS module
\* unable to start; as soon as Core runs again, the catalog offers the update
\* that repairs it.  (Unless Core is restarted by hand while a prerm of it
\* hangs whose opkg was killed: that may stop the next version, too.)
DnsRepairable ==
  running # None /\ ~abi =>
    Allowed(Core, "update") \/ (opkg # NoOpkg /\ opkg.pkg = Core)

\* A plan that exchanges a package, as those of nfqws2 and its web interface
\* do with the router's download program, loses the old one only while the
\* new one is there, whatever step fails and whoever restarts in between.
SwapsDownloader ==
  [][\A w \in Swap : db[w.old] # None /\ db'[w.old] = None => db[w.new] # None]_vars

\* Every request is answered or dies with Core, even if opkg hangs: the
\* mutex is held for good only if something that opkg has started never lets
\* go of its output.
ActionsEnd ==
  []<>(\A c \in left : c.by = Nobody) =>
    \A r \in Req : req[r].at \notin Answered ~> req[r].at \in Answered
=============================================================================
