----------------------------- MODULE ModuleHost -----------------------------
(***************************************************************************)
(* Core as the host of one module.  The module is a process of its own     *)
(* that listens on a Unix socket; opkg's package scripts stop and start    *)
(* it, those of DNS wait until it answers.  Core looks at the sockets,     *)
(* dials the first that exists and, if nobody answers, gives a page of the *)
(* module's UI the page that reconnects, and others a 503 which tells      *)
(* whether the package is installed.  Every request passes the             *)
(* authentication of AuthSettings.                                         *)
(*                                                                         *)
(* Of pages there is one: the frame of Core's UI probes the module's       *)
(* health and then loads its page; the reconnecting page in it does the    *)
(* same.                                                                   *)
(***************************************************************************)
EXTENDS AuthSettings, Integers, Sequences

CONSTANTS
  Owner,     \* the browser with the page
  Tries,     \* how often the scripts of DNS ask for its health
  Scenarios  \* what a behaviour is about

\* The requests and streams of browsers, whether sessions end and Core stops;
\* what opkg does, whether its scripts wait; whether there is a page; whether
\* the module is stopped and started by hand; the state of the second socket,
\* which an older version has left; and whether the module is there at first.
ScenarioFields ==
  [asks : SUBSET (Browser \X Want), streams : SUBSET Browser,
   ends : BOOLEAN, stops : BOOLEAN, verbs : SUBSET {"install", "upgrade", "remove"},
   waits : BOOLEAN, page : BOOLEAN, hand : BOOLEAN, old : {"none", "stale"},
   installed : BOOLEAN, collects : SUBSET {"sensors", "list", "rates", "cpu"}]

ASSUME HostAssumption ==
  /\ Owner \in Browser /\ Tries \in Nat \ {0}
  /\ Scenarios \subseteq ScenarioFields

VARIABLES
  scenario,  \* one of Scenarios, from the start
  db,        \* whether opkg's database has the package as installed
  disk,      \* the version of the binary and its init script, 0 without
  proc,      \* the module's process
  socket,    \* the files its socket may have
  script,    \* opkg and the package script it runs
  page,      \* what the page shows
  fetch      \* the request of the page and of the script

module   == <<db, disk, proc, socket, script>>
hostVars == <<scenario, module, page, fetch>>

Version   == 0..2
Requester == {"page", "script"}

Stopped  == [at |-> "stopped", version |-> 0]
NoScript == [at |-> "none", verb |-> "install", tries |-> 0]
NoFetch  == [at |-> "none", socket |-> 1, result |-> "none", version |-> 0]

HostInit ==
  /\ scenario \in Scenarios
  /\ db = scenario.installed /\ disk = IF db THEN 1 ELSE 0
  /\ proc = IF db THEN [at |-> "up", version |-> 1] ELSE Stopped
  /\ socket = [s \in 1..2 |-> IF s = 2 THEN scenario.old
                              ELSE IF db THEN "live" ELSE "none"]
  /\ script = NoScript
  /\ page = IF scenario.page THEN "wait" ELSE "none"
  /\ fetch = [r \in Requester |-> NoFetch]

-----------------------------------------------------------------------------
(* The module's process.                                                   *)

Start == proc' = [at |-> "starting", version |-> disk]

\* A process that is killed leaves its socket's file.
Kill(removed) ==
  /\ proc' = Stopped
  /\ socket' = [socket EXCEPT ![1] = IF removed THEN "none"
                                     ELSE IF @ = "live" THEN "stale" ELSE @]

\* The file is removed before the process listens, unless it cannot.
Listen ==
  /\ \/ /\ proc.at = "starting"
        /\ proc' = [proc EXCEPT !.at = "unbound"]
        /\ socket' = [socket EXCEPT ![1] = "none"]
     \/ /\ proc.at = "unbound"
        /\ proc' = [proc EXCEPT !.at = "up"]
        /\ socket' = [socket EXCEPT ![1] = "live"]
     \/ /\ proc.at = "unbound" /\ proc' = Stopped /\ UNCHANGED socket
  /\ UNCHANGED <<db, disk, script, page, fetch>>

\* An administrator stops or starts it, or it crashes.
ByHand ==
  /\ \/ proc # Stopped /\ Kill(FALSE)
     \/ proc = Stopped /\ disk # 0 /\ Start /\ UNCHANGED socket
  /\ UNCHANGED <<db, disk, script, page, fetch>>

-----------------------------------------------------------------------------
(* Requests to the module, through Core.                                   *)

Gets(r, result, version) ==
  fetch' = [fetch EXCEPT ![r] = [NoFetch EXCEPT !.at = "done", !.result = result,
                                                !.version = version]]

MutPublic(r) == FALSE

\* Package scripts run on the router itself; their question for the module's
\* health needs no session.
Public(r) == r = "script"

\* The first socket that exists, whether or not somebody listens on it.
First == IF socket[1] = "none" /\ socket[2] # "none" THEN 2 ELSE 1

\* The middleware lets the request pass, and a socket is chosen.
Request(r) ==
  /\ fetch[r].at = "none"
  /\ CASE ~core -> Gets(r, "no answer", 0)
       [] core /\ ~Public(r) /\ ~Passes(cookie[Owner]) -> Gets(r, "401", 0)
       [] OTHER -> fetch' = [fetch EXCEPT ![r].at = "dial", ![r].socket = First]
  /\ UNCHANGED <<module, page>>

ForUI(r) == r = "page" /\ page = "load"

\* Whoever listens answers; otherwise it is the proxy's error handler.
Dial(r) ==
  /\ fetch[r].at = "dial"
  /\ IF socket[fetch[r].socket] = "live" THEN Gets(r, "ok", proc.version)
     ELSE IF ForUI(r) THEN Gets(r, "reconnect", 0)
     ELSE fetch' = [fetch EXCEPT ![r].at = "look up"]
  /\ UNCHANGED <<module, page>>

LookUp(r) ==
  /\ fetch[r].at = "look up"
  /\ Gets(r, IF db THEN "not running" ELSE "not installed", 0)
  /\ UNCHANGED <<module, page>>

Forget(r) == fetch' = [fetch EXCEPT ![r] = NoFetch]

-----------------------------------------------------------------------------
(* The page.                                                               *)

\* The timers of 800 and 750 milliseconds.
Timer ==
  /\ page = "wait" /\ page' = "probe" /\ UNCHANGED <<module, fetch>>

Asks == page \in {"probe", "load"} /\ Request("page")

MutAfterProbe(result) ==
  CASE result = "ok" -> "load"
    [] result \in {"not installed", "not running"} -> "not installed"
    [] OTHER -> "wait"

\* What a page that has asked for the module's health does next.
AfterProbe(result) ==
  CASE result = "ok" -> "load"
    [] result = "not installed" -> "not installed"
    [] OTHER -> "wait"

\* The page of the module's UI that is loaded; what is not one stays until the
\* user reloads.
AfterLoad(result) ==
  CASE result = "ok" -> "shown"
    [] result = "reconnect" -> "probe"
    [] OTHER -> "lost"

Receive ==
  LET result == fetch["page"].result IN
  /\ fetch["page"].at = "done" /\ Forget("page")
  /\ page' = IF page = "probe" THEN AfterProbe(result) ELSE AfterLoad(result)
  /\ UNCHANGED module

\* The user follows a link in the module's UI, or reloads the page.
Navigate ==
  /\ \/ page = "shown" /\ page' = "load"
     \/ page \in {"lost", "not installed"} /\ page' = "probe"
  /\ UNCHANGED <<module, fetch>>

-----------------------------------------------------------------------------
(* opkg and the package scripts.                                           *)

ScriptGoes(at) == script' = [script EXCEPT !.at = at, !.tries = 0]

Opkg(verb) ==
  /\ script.at = "none" /\ db = (verb # "install")
  /\ script' = [NoScript EXCEPT !.at = "prerm", !.verb = verb]
  /\ UNCHANGED <<db, disk, proc, socket, page, fetch>>

\* The script of the installed version stops it and removes its socket.
Prerm ==
  /\ script.at = "prerm"
  /\ IF db THEN Kill(TRUE) ELSE UNCHANGED <<proc, socket>>
  /\ ScriptGoes("unpack")
  /\ UNCHANGED <<db, disk, page, fetch>>

Unpack ==
  /\ script.at = "unpack"
  /\ IF script.verb = "remove" THEN disk' = 0 /\ ScriptGoes("commit")
     ELSE disk' = 2 /\ ScriptGoes("stop")
  /\ UNCHANGED <<db, proc, socket, page, fetch>>

MutStops == FALSE

Stops == TRUE

\* postinst stops what may run, whoever has started it.
Stop ==
  /\ script.at = "stop"
  /\ IF Stops THEN Kill(FALSE) ELSE UNCHANGED <<proc, socket>>
  /\ ScriptGoes("start")
  /\ UNCHANGED <<db, disk, page, fetch>>

\* The init script starts nothing that runs already, and may fail to; only
\* the script of DNS minds that.
StartService ==
  /\ script.at = "start"
  /\ \/ /\ IF proc = Stopped THEN Start ELSE UNCHANGED proc
        /\ ScriptGoes(IF scenario.waits THEN "wait" ELSE "commit")
     \/ /\ UNCHANGED proc
        /\ ScriptGoes(IF scenario.waits THEN "failed" ELSE "commit")
  /\ UNCHANGED <<db, disk, socket, page, fetch>>

AsksHealth == script.at = "wait" /\ Request("script")

\* wget's answer; a second later the next one, up to Tries.
Answered ==
  /\ script.at = "wait" /\ fetch["script"].at = "done"
  /\ Forget("script")
  /\ IF fetch["script"].result = "ok" THEN ScriptGoes("commit")
     ELSE IF script.tries + 1 < Tries THEN script' = [script EXCEPT !.tries = @ + 1]
     ELSE ScriptGoes("failed")
  /\ UNCHANGED <<db, disk, proc, socket, page>>

\* opkg enters the result in its database.  A package whose script has failed
\* keeps its entry or is one that is not installed.
Commit ==
  /\ script.at \in {"commit", "failed"}
  /\ db' \in IF script.at = "commit" THEN {script.verb # "remove"} ELSE {db, FALSE}
  /\ script' = NoScript
  /\ UNCHANGED <<disk, proc, socket, page, fetch>>

Scripts ==
  \/ Prerm \/ Unpack \/ Stop \/ StartService \/ AsksHealth \/ Answered \/ Commit

-----------------------------------------------------------------------------
(* Together.                                                               *)

Serves == \E r \in Requester : Dial(r) \/ LookUp(r)

PageStep == Timer \/ Asks \/ Receive

HostStep ==
  \/ Listen
  \/ scenario.hand /\ ByHand
  \/ Serves \/ PageStep \/ Navigate
  \/ \E verb \in scenario.verbs : Opkg(verb)
  \/ Scripts

\* The requests in Core's process die with it.
Cut ==
  fetch' = [r \in Requester |->
     IF fetch[r].at \in {"dial", "look up"}
     THEN [NoFetch EXCEPT !.at = "done", !.result = "no answer"] ELSE fetch[r]]

AuthStep ==
  \/ \E a \in scenario.asks : Ask(a[1], a[2])
  \/ \E b \in Browser : Handle(b) \/ Stream(b)
  \/ \E b \in scenario.streams : Connect(b) \/ Disconnect(b)
  \/ scenario.ends /\ \E t \in Token : Expire(t)
  \/ CoreStarts

Restarts ==
  /\ scenario.stops /\ CoreStops
  /\ Cut /\ UNCHANGED <<module, page>>

HostNext ==
  /\ \/ HostStep /\ UNCHANGED authVars
     \/ AuthStep /\ UNCHANGED <<module, page, fetch>>
     \/ Restarts
  /\ UNCHANGED scenario

-----------------------------------------------------------------------------
(* Properties.                                                             *)

HostTypeOK ==
  /\ scenario \in Scenarios /\ db \in BOOLEAN /\ disk \in Version
  /\ proc \in [at : {"stopped", "starting", "unbound", "up"}, version : Version]
  /\ socket \in [1..2 -> {"none", "stale", "live"}]
  /\ script \in [at : {"none", "prerm", "unpack", "stop", "start", "wait",
                        "commit", "failed"},
                 verb : {"install", "upgrade", "remove"}, tries : 0..Tries - 1]
  /\ page \in {"none", "wait", "probe", "load", "shown", "lost", "not installed"}
  /\ fetch \in [Requester ->
       [at : {"none", "dial", "look up", "done"}, socket : 1..2,
        result : {"none", "ok", "401", "no answer", "reconnect", "not running",
                  "not installed"},
        version : Version]]
  /\ proc.at = "up" <=> socket[1] = "live"

\* Core, the module and the session of who looks at the page are there.
Stable == core /\ proc.at = "up" /\ db /\ Passes(cookie[Owner])

\* A page of an installed module that is stopped, updated or crashes shows its
\* UI again, without the user, once all is well (CHANGELOG.md: "retries until
\* runtime is ready").  Only an end of Core or of the session may
\* leave one that the user has to reload.
PageComesBack ==
  scenario.page /\ []db /\ <>[]Stable =>
    \/ []<>(page = "shown")
    \/ /\ <>(~core \/ ~Passes(cookie[Owner]))
       /\ []<>(page \in {"shown", "lost"})

\* A package script that ends well has heard from the version it has unpacked,
\* not from one it should have stopped; that Core asks for a session is never
\* why it ends badly.
PostinstTruth ==
  [][script.at = "wait" /\ script'.at # "wait" =>
       IF script'.at = "commit" THEN fetch["script"].version = disk
       ELSE fetch["script"].result # "401"]_hostVars
=============================================================================
