-------------------------- MODULE MonitoringProofs --------------------------
(***************************************************************************)
(* Theorems about Core and the modules it hosts, for any scenarios: what   *)
(* AuthSettings promises holds of the composition, and what a package      *)
(* script tells opkg is about the process of the version it has unpacked.  *)
(* The second half is about what Monitoring collects, for any requests,    *)
(* clock and counters: the readings that are shown are no older than the   *)
(* caches may be, and a rate or a load is what has been counted.           *)
(***************************************************************************)
EXTENDS Monitoring, AuthSettingsProofs, SequenceTheorems, FiniteSetTheorems

\* A script that waits asks the process of the version on disk, if any; only
\* such a script asks, and what it has heard is that version's answer.
OwnProcess ==
  script.at \in {"start", "wait"} => proc = Stopped \/ proc.version = disk

OwnAnswer ==
  /\ fetch["script"].at # "none" => script.at = "wait"
  /\ fetch["script"].at = "done" /\ fetch["script"].result = "ok" =>
       fetch["script"].version = disk
  /\ fetch["script"].result # "401"

HInv == HostTypeOK /\ OwnProcess /\ OwnAnswer /\ socket[2] # "live"

Processes == [at : {"stopped", "starting", "unbound", "up"}, version : Version]

Sockets == [1..2 -> {"none", "stale", "live"}]

Steps ==
  [at : {"none", "prerm", "unpack", "stop", "start", "wait", "commit", "failed"},
   verb : {"install", "upgrade", "remove"}, tries : 0..Tries - 1]

Fetches ==
  [at : {"none", "dial", "look up", "done"}, socket : 1..2,
   result : {"none", "ok", "401", "no answer", "reconnect", "not running",
             "not installed"},
   version : Version]

Pages == {"none", "wait", "probe", "load", "shown", "lost", "not installed"}

-----------------------------------------------------------------------------
(* The composition implements AuthSettings.                                *)

LEMMA ScenarioFacts ==
  ASSUME scenario \in Scenarios
  PROVE  /\ scenario.asks \subseteq Browser \X Want
         /\ scenario.streams \subseteq Browser
         /\ scenario.verbs \subseteq {"install", "upgrade", "remove"}
         /\ scenario.old \in {"none", "stale"}
         /\ scenario.page \in BOOLEAN /\ scenario.installed \in BOOLEAN
BY HostAssumption DEF ScenarioFields

LEMMA AuthStepRefines == scenario \in Scenarios /\ AuthStep => AuthNext
<1> SUFFICES ASSUME scenario \in Scenarios, AuthStep PROVE AuthNext
  OBVIOUS
<1>1. ASSUME NEW a \in scenario.asks, Ask(a[1], a[2])
      PROVE  \E b \in Browser : \E want \in Want : Ask(b, want)
  <2>1. a[1] \in Browser /\ a[2] \in Want
    BY ScenarioFacts
  <2> QED BY <1>1, <2>1
<1>2. \A b \in scenario.streams : b \in Browser
  BY ScenarioFacts
<1> QED BY <1>1, <1>2 DEF AuthStep, AuthNext

LEMMA StepRefines == scenario \in Scenarios /\ [Next]_vars => [AuthNext]_authVars
<1>1. scenario \in Scenarios /\ HostNext => [AuthNext]_authVars
  BY AuthStepRefines DEF HostNext, Restarts, AuthNext
<1>2. MonitorStep => UNCHANGED authVars
  BY DEF MonitorStep
<1> QED BY <1>1, <1>2 DEF Next, vars

\* The scenario is chosen once.
LEMMA ScenarioStays == Spec => []( scenario \in Scenarios)
<1>1. Init => scenario \in Scenarios
  BY DEF Init, HostInit
<1>2. scenario \in Scenarios /\ [Next]_vars => (scenario \in Scenarios)'
  BY DEF Next, HostNext, MonitorStep, hostVars, vars
<1> QED BY <1>1, <1>2, PTL DEF Spec

\* Core's authentication behaves as AuthSettings says, whatever pages, opkg
\* and the modules do.
THEOREM ImplementsAuth == Spec => AuthSpec
<1>1. Init => AuthInit BY DEF Init
<1> QED BY <1>1, StepRefines, ScenarioStays, PTL DEF Spec, AuthSpec

\* The setting survives a restart of Core in the composition, too.
THEOREM SettingSurvivesHosted == Spec => []SettingDurable
BY ImplementsAuth, SettingSurvives, PTL

-----------------------------------------------------------------------------
(* The host: the initial states, and what the steps leave alone.           *)

LEMMA ConstantShapes ==
  /\ Stopped \in Processes /\ Stopped.at = "stopped"
  /\ NoScript \in Steps /\ NoFetch \in Fetches
  /\ NoFetch.at = "none" /\ NoFetch.result = "none"
  /\ 0 \in Version
BY HostAssumption DEF Stopped, NoScript, NoFetch, Processes, Steps, Fetches, Version

LEMMA HostInitInvariant == HostInit => HInv
<1> SUFFICES ASSUME HostInit PROVE HInv
  OBVIOUS
<1>1. db \in BOOLEAN /\ disk \in Version
  BY ScenarioFacts DEF HostInit, Version
<1>2. proc \in Processes /\ (proc.at = "up" <=> db)
  BY <1>1 DEF HostInit, Stopped, Processes, Version
<1>3. /\ socket \in Sockets /\ (socket[1] = "live" <=> db)
      /\ socket[2] # "live"
  BY <1>1, ScenarioFacts DEF HostInit, Sockets
<1>4. script = NoScript /\ script \in Steps /\ fetch \in [Requester -> Fetches]
  BY ConstantShapes DEF HostInit
<1>5. page \in Pages
  BY ScenarioFacts DEF HostInit, Pages
<1>6. HostTypeOK
  BY <1>1, <1>2, <1>3, <1>4, <1>5
  DEF HostInit, HostTypeOK, Processes, Sockets, Steps, Fetches, Pages
<1>7. fetch["script"] = NoFetch /\ script.at = "none"
  BY DEF HostInit, Requester, NoScript
<1>8. OwnProcess /\ OwnAnswer
  BY <1>7, ConstantShapes DEF OwnProcess, OwnAnswer
<1> QED BY <1>3, <1>6, <1>8 DEF HInv

\* The named shapes.
LEMMA HostShapes ==
  HostTypeOK <=>
    /\ scenario \in Scenarios /\ db \in BOOLEAN /\ disk \in Version
    /\ proc \in Processes /\ socket \in Sockets /\ script \in Steps
    /\ page \in Pages /\ fetch \in [Requester -> Fetches]
    /\ proc.at = "up" <=> socket[1] = "live"
BY DEF HostTypeOK, Processes, Sockets, Steps, Fetches, Pages

LEMMA HostKeeps == HInv /\ UNCHANGED hostVars => HInv'
<1> SUFFICES ASSUME HInv, UNCHANGED hostVars PROVE HInv'
  OBVIOUS
<1>1. UNCHANGED <<scenario, db, disk, proc, socket, script, page, fetch>>
  BY DEF hostVars, module
<1>2. HostTypeOK'
  <2>1. HostTypeOK BY DEF HInv
  <2> QED BY <1>1, <2>1 DEF HostTypeOK, Steps, Processes, Sockets, Fetches
<1>3. OwnProcess' /\ OwnAnswer'
  BY <1>1 DEF HInv, OwnProcess, OwnAnswer
<1> QED BY <1>1, <1>2, <1>3 DEF HInv

\* A step of the module or opkg.
LEMMA ModuleKeeps ==
  ASSUME HInv, UNCHANGED <<scenario, page, fetch>>,
         db' \in BOOLEAN, disk' \in Version, proc' \in Processes,
         socket' \in Sockets, script' \in Steps,
         (proc.at = "up" <=> socket[1] = "live")', (socket[2] # "live")',
         OwnProcess',
         fetch["script"].at # "none" => script'.at = "wait" /\ disk' = disk
  PROVE  HInv'
<1>1. HostTypeOK'
  BY HostShapes DEF HInv, HostTypeOK, Processes, Sockets, Steps
<1>2. OwnAnswer'
  BY DEF HInv, OwnAnswer
<1> QED BY <1>1, <1>2 DEF HInv

\* A step of a request: only a script that waits asks as one, it hears the
\* version on disk, and never that it needs a session.
LEMMA FetchKeeps ==
  ASSUME HInv, NEW r \in Requester, NEW x \in Fetches,
         fetch' = [fetch EXCEPT ![r] = x], page' \in Pages,
         UNCHANGED <<scenario, module>>,
         r = "script" => /\ x.at # "none" => script.at = "wait"
                         /\ x.at = "done" /\ x.result = "ok" => x.version = disk
                         /\ x.result # "401"
  PROVE  HInv'
<1>1. fetch' \in [Requester -> Fetches]
  BY HostShapes DEF HInv
<1>2. HostTypeOK'
  BY <1>1 DEF HInv, HostTypeOK, module, Fetches, Pages
<1>3. OwnAnswer'
  <2>1. CASE r = "script"
    <3>1. fetch'["script"] = x BY <2>1, HostShapes DEF HInv
    <3> QED BY <2>1, <3>1 DEF OwnAnswer, module
  <2>2. CASE r # "script"
    <3>1. fetch'["script"] = fetch["script"]
      BY <2>2, HostShapes DEF HInv, Requester
    <3> QED BY <3>1 DEF HInv, OwnAnswer, module
  <2> QED BY <2>1, <2>2
<1>4. OwnProcess' /\ socket'[2] # "live"
  BY DEF HInv, OwnProcess, module
<1> QED BY <1>2, <1>3, <1>4 DEF HInv

-----------------------------------------------------------------------------
(* Requests to the module, and the page.                                   *)

LEMMA GetsKeeps ==
  ASSUME HInv, NEW r \in Requester,
         NEW result \in {"none", "ok", "401", "no answer", "reconnect",
                         "not running", "not installed"},
         NEW version \in Version, Gets(r, result, version),
         UNCHANGED <<scenario, module, page>>,
         r = "script" => /\ script.at = "wait" /\ result # "401"
                         /\ result = "ok" => version = disk
  PROVE  HInv'
<1> DEFINE x == [NoFetch EXCEPT !.at = "done", !.result = result, !.version = version]
<1>1. /\ x \in Fetches /\ x.at = "done" /\ x.result = result
      /\ x.version = version
  BY ConstantShapes DEF Fetches
<1>2. fetch' = [fetch EXCEPT ![r] = x]
  BY DEF Gets
<1>3. page' \in Pages
  BY HostShapes DEF HInv
<1> HIDE DEF x
<1> QED BY <1>1, <1>2, <1>3, FetchKeeps

LEMMA RequestStep ==
  ASSUME HInv, NEW r \in Requester, Request(r), UNCHANGED scenario,
         r = "script" => script.at = "wait"
  PROVE  HInv'
<1>1. CASE Gets(r, "no answer", 0)
  BY <1>1, GetsKeeps, ConstantShapes DEF Request
<1>2. CASE Gets(r, "401", 0) /\ ~Public(r)
  BY <1>2, GetsKeeps, ConstantShapes DEF Request, Public
<1>3. CASE fetch' = [fetch EXCEPT ![r].at = "dial", ![r].socket = First]
  <2> DEFINE x == [fetch[r] EXCEPT !.at = "dial", !.socket = First]
  <2>1. fetch[r] \in Fetches /\ fetch \in [Requester -> Fetches]
    BY HostShapes DEF HInv
  <2>2. First \in 1..2
    BY DEF First
  <2>3. x \in Fetches /\ x.at = "dial" /\ x.result = fetch[r].result
    BY <2>1, <2>2 DEF Fetches
  <2>4. fetch' = [fetch EXCEPT ![r] = x]
    BY <1>3, <2>1
  <2>5. page' \in Pages
    BY HostShapes DEF HInv, Request
  <2>6. r = "script" => x.result # "401"
    BY <2>3 DEF HInv, OwnAnswer
  <2> HIDE DEF x
  <2> QED BY <2>3, <2>4, <2>5, <2>6, FetchKeeps DEF Request
<1> QED BY <1>1, <1>2, <1>3 DEF Request

LEMMA ServesStep ==
  ASSUME HInv, Serves, UNCHANGED scenario
  PROVE  HInv'
<1>1. ASSUME NEW r \in Requester, Dial(r) PROVE HInv'
  <2>1. fetch[r].at = "dial" /\ fetch[r] \in Fetches /\ proc \in Processes
    BY <1>1, HostShapes DEF Dial, HInv
  <2>2. r = "script" => script.at = "wait"
    BY <2>1 DEF HInv, OwnAnswer
  <2>3. CASE socket[fetch[r].socket] = "live" /\ Gets(r, "ok", proc.version)
    <3>1. fetch[r].socket = 1
      <4>1. fetch[r].socket \in 1..2
        BY <2>1 DEF Fetches
      <4>2. fetch[r].socket # 2
        BY <2>3 DEF HInv
      <4> QED BY <4>1, <4>2
    <3>2. proc.at = "up" /\ proc # Stopped
      BY <2>3, <3>1, ConstantShapes DEF HInv, HostTypeOK
    <3>3. r = "script" => proc.version = disk
      BY <2>2, <3>2 DEF HInv, OwnProcess
    <3>4. proc.version \in Version
      BY <2>1 DEF Processes
    <3> QED BY <1>1, <2>2, <2>3, <3>3, <3>4, GetsKeeps DEF Dial
  <2>4. CASE Gets(r, "reconnect", 0)
    BY <1>1, <2>2, <2>4, GetsKeeps, ConstantShapes DEF Dial
  <2>5. CASE fetch' = [fetch EXCEPT ![r].at = "look up"]
    <3> DEFINE x == [fetch[r] EXCEPT !.at = "look up"]
    <3>1. x \in Fetches /\ x.at = "look up" /\ x.result = fetch[r].result
      BY <2>1 DEF Fetches
    <3>2. fetch' = [fetch EXCEPT ![r] = x] /\ page' \in Pages
      BY <1>1, <2>5, HostShapes DEF HInv, Dial
    <3>3. r = "script" => x.result # "401"
      BY <3>1 DEF HInv, OwnAnswer
    <3> HIDE DEF x
    <3> QED BY <1>1, <2>2, <3>1, <3>2, <3>3, FetchKeeps DEF Dial
  <2> QED BY <1>1, <2>3, <2>4, <2>5 DEF Dial
<1>2. ASSUME NEW r \in Requester, LookUp(r) PROVE HInv'
  <2>1. r = "script" => script.at = "wait"
    BY <1>2 DEF LookUp, HInv, OwnAnswer
  <2>2. CASE Gets(r, "not running", 0)
    BY <1>2, <2>1, <2>2, GetsKeeps, ConstantShapes DEF LookUp
  <2>3. CASE Gets(r, "not installed", 0)
    BY <1>2, <2>1, <2>3, GetsKeeps, ConstantShapes DEF LookUp
  <2> QED BY <1>2, <2>2, <2>3 DEF LookUp
<1> QED BY <1>1, <1>2 DEF Serves

\* Only the page changes.
LEMMA PageKeeps ==
  ASSUME HInv, page' \in Pages, UNCHANGED <<scenario, module, fetch>>
  PROVE  HInv'
<1>1. fetch' = [fetch EXCEPT !["page"] = fetch["page"]] /\ fetch["page"] \in Fetches
  BY HostShapes DEF HInv, Requester
<1> QED BY <1>1, FetchKeeps DEF Requester

LEMMA PageSteps ==
  ASSUME HInv, PageStep \/ Navigate, UNCHANGED scenario
  PROVE  HInv'
<1>1. CASE Timer
  BY <1>1, PageKeeps DEF Timer, Pages
<1>2. CASE Asks
  BY <1>2, RequestStep DEF Asks, Requester
<1>3. CASE Receive
  <2>1. page' \in Pages
    BY <1>3 DEF Receive, AfterProbe, AfterLoad, Pages
  <2> QED BY <1>3, <2>1, ConstantShapes, FetchKeeps DEF Receive, Forget, Requester
<1>4. CASE Navigate
  BY <1>4, PageKeeps DEF Navigate, Pages
<1> QED BY <1>1, <1>2, <1>3, <1>4 DEF PageStep

-----------------------------------------------------------------------------
(* The module's process and opkg.                                          *)

LEMMA KillFacts ==
  ASSUME HInv, NEW removed \in BOOLEAN, Kill(removed)
  PROVE  /\ proc' = Stopped /\ proc' \in Processes /\ socket' \in Sockets
         /\ (proc.at = "up" <=> socket[1] = "live")' /\ socket'[2] # "live"
<1>1. socket \in Sockets /\ socket[2] # "live"
  BY HostShapes DEF HInv
<1>2. socket' \in Sockets /\ socket'[1] # "live" /\ socket'[2] = socket[2]
  BY <1>1 DEF Kill, Sockets
<1> QED BY <1>1, <1>2, ConstantShapes DEF Kill

LEMMA StartFacts ==
  ASSUME HInv, Start
  PROVE  proc' \in Processes /\ proc'.at = "starting" /\ proc'.version = disk
BY HostShapes DEF HInv, Start, Processes

LEMMA ListenStep ==
  ASSUME HInv, Listen, UNCHANGED scenario
  PROVE  HInv'
<1>1. /\ proc \in Processes /\ socket \in Sockets /\ socket[2] # "live"
      /\ db \in BOOLEAN /\ disk \in Version /\ script \in Steps
      /\ proc.at = "up" <=> socket[1] = "live"
  BY HostShapes DEF HInv
<1>2. /\ proc' \in Processes /\ socket' \in Sockets
      /\ (proc.at = "up" <=> socket[1] = "live")' /\ socket'[2] # "live"
      /\ proc' = Stopped \/ proc'.version = proc.version
      /\ proc # Stopped
  <2>1. CASE /\ proc.at = "starting" /\ proc' = [proc EXCEPT !.at = "unbound"]
             /\ socket' = [socket EXCEPT ![1] = "none"]
    BY <1>1, <2>1, ConstantShapes DEF Processes, Sockets
  <2>2. CASE /\ proc.at = "unbound" /\ proc' = [proc EXCEPT !.at = "up"]
             /\ socket' = [socket EXCEPT ![1] = "live"]
    BY <1>1, <2>2, ConstantShapes DEF Processes, Sockets
  <2>3. CASE proc.at = "unbound" /\ proc' = Stopped /\ UNCHANGED socket
    BY <1>1, <2>3, ConstantShapes
  <2> QED BY <2>1, <2>2, <2>3 DEF Listen
<1>3. OwnProcess'
  BY <1>2 DEF HInv, OwnProcess, Listen
<1> QED BY <1>1, <1>2, <1>3, ModuleKeeps DEF Listen, HInv, OwnAnswer

LEMMA ByHandStep ==
  ASSUME HInv, ByHand, UNCHANGED scenario
  PROVE  HInv'
<1>1. /\ socket \in Sockets /\ socket[2] # "live" /\ db \in BOOLEAN
      /\ disk \in Version /\ script \in Steps
      /\ proc.at = "up" <=> socket[1] = "live"
  BY HostShapes DEF HInv
<1>2. CASE Kill(FALSE)
  <2>1. OwnProcess'
    BY <1>2, KillFacts DEF OwnProcess
  <2> QED BY <1>1, <1>2, <2>1, KillFacts, ModuleKeeps DEF ByHand, HInv, OwnAnswer
<1>3. CASE proc = Stopped /\ Start /\ UNCHANGED socket
  <2>1. OwnProcess'
    BY <1>3, StartFacts DEF OwnProcess, ByHand
  <2>2. socket'[1] # "live"
    BY <1>1, <1>3, ConstantShapes
  <2> QED BY <1>1, <1>3, <2>1, <2>2, StartFacts, ModuleKeeps DEF ByHand, HInv, OwnAnswer
<1> QED BY <1>2, <1>3 DEF ByHand

LEMMA ScriptGoesFacts ==
  ASSUME HInv, NEW at \in {"none", "prerm", "unpack", "stop", "start", "wait",
                           "commit", "failed"}, ScriptGoes(at)
  PROVE  script' \in Steps /\ script'.at = at
<1>1. script \in Steps /\ 0 \in 0..Tries - 1
  BY HostShapes, HostAssumption DEF HInv
<1> QED BY <1>1 DEF ScriptGoes, Steps

\* A step of opkg from one that does not wait.
LEMMA ScriptKeeps ==
  ASSUME HInv, UNCHANGED <<scenario, page, fetch>>, script.at # "wait",
         db' \in BOOLEAN, disk' \in Version, script' \in Steps,
         \/ UNCHANGED <<proc, socket>>
         \/ proc' = Stopped /\ (Kill(TRUE) \/ Kill(FALSE)),
         script'.at \in {"start", "wait"} =>
           proc' = Stopped \/ proc'.version = disk'
  PROVE  HInv'
<1>1. proc' \in Processes /\ socket' \in Sockets
      /\ (proc.at = "up" <=> socket[1] = "live")' /\ socket'[2] # "live"
  <2>1. CASE UNCHANGED <<proc, socket>>
    BY <2>1, HostShapes DEF HInv
  <2>2. CASE Kill(TRUE) \/ Kill(FALSE)
    BY <2>2, KillFacts
  <2> QED BY <2>1, <2>2
<1>2. fetch["script"].at = "none"
  BY DEF HInv, OwnAnswer
<1> QED BY <1>1, <1>2, ModuleKeeps DEF OwnProcess

LEMMA OpkgStep ==
  ASSUME HInv, NEW verb \in {"install", "upgrade", "remove"}, Opkg(verb),
         UNCHANGED scenario
  PROVE  HInv'
<1>1. script' \in Steps /\ script'.at = "prerm"
  BY ConstantShapes DEF Opkg, Steps
<1>2. db \in BOOLEAN /\ disk \in Version
  BY HostShapes DEF HInv
<1> QED BY <1>1, <1>2, ScriptKeeps DEF Opkg

LEMMA ScriptsStep ==
  ASSUME HInv, Scripts, UNCHANGED scenario
  PROVE  HInv'
<1>1. db \in BOOLEAN /\ disk \in Version /\ script \in Steps
      /\ 2 \in Version /\ 0 \in Version
  BY HostShapes DEF HInv, Version
<1>2. CASE Prerm
  <2>1. script' \in Steps /\ script'.at = "unpack"
    BY <1>2, ScriptGoesFacts DEF Prerm
  <2> QED BY <1>1, <1>2, <2>1, ScriptKeeps DEF Prerm, Kill
<1>3. CASE Unpack
  <2>1. script' \in Steps /\ script'.at \in {"commit", "stop"} /\ disk' \in Version
    BY <1>1, <1>3, ScriptGoesFacts DEF Unpack
  <2> QED BY <1>1, <1>3, <2>1, ScriptKeeps DEF Unpack
<1>4. CASE Stop
  <2>1. script' \in Steps /\ script'.at = "start" /\ Kill(FALSE)
    BY <1>4, ScriptGoesFacts DEF Stop, Stops
  <2> QED BY <1>1, <1>4, <2>1, ScriptKeeps DEF Stop, Kill
<1>5. CASE StartService
  <2>1. script' \in Steps /\ script'.at \in {"wait", "commit", "failed"}
    BY <1>5, ScriptGoesFacts DEF StartService
  <2>2. CASE UNCHANGED proc
    BY <1>1, <1>5, <2>1, <2>2, ScriptKeeps DEF StartService, HInv, OwnProcess
  <2>3. CASE proc = Stopped /\ Start
    <3>1. OwnProcess'
      BY <1>5, <2>3, StartFacts DEF OwnProcess, StartService
    <3>2. (proc.at = "up" <=> socket[1] = "live")' /\ socket' \in Sockets
          /\ socket'[2] # "live"
      BY <1>5, <2>3, StartFacts, ConstantShapes, HostShapes DEF StartService, HInv
    <3> QED BY <1>1, <1>5, <2>1, <2>3, <3>1, <3>2, StartFacts, ModuleKeeps
            DEF StartService, HInv, OwnAnswer
  <2> QED BY <1>5, <2>2, <2>3 DEF StartService
<1>6. CASE AsksHealth
  BY <1>6, RequestStep DEF AsksHealth, Requester
<1>7. CASE Answered
  <2>1. script' \in Steps
    <3>1. CASE script' = [script EXCEPT !.tries = @ + 1] /\ script.tries + 1 < Tries
      <4>1. script.tries \in 0..Tries - 1 /\ Tries \in Nat
        BY <1>1, HostAssumption DEF Steps
      <4>2. script.tries + 1 \in 0..Tries - 1
        BY <3>1, <4>1
      <4> QED BY <1>1, <3>1, <4>2 DEF Steps
    <3>2. CASE ScriptGoes("commit") \/ ScriptGoes("failed")
      BY <3>2, ScriptGoesFacts
    <3> QED BY <1>7, <3>1, <3>2 DEF Answered
  <2>2. fetch' = [fetch EXCEPT !["script"] = NoFetch] /\ "script" \in Requester
        /\ UNCHANGED <<db, disk, proc, socket, page>> /\ script.at = "wait"
    BY <1>7 DEF Answered, Forget, Requester
  <2>3. fetch' \in [Requester -> Fetches] /\ fetch'["script"] = NoFetch
    BY <2>2, HostShapes, ConstantShapes DEF HInv
  <2>4. HostTypeOK'
    BY <2>1, <2>2, <2>3 DEF HInv, HostTypeOK, Steps, Fetches
  <2>5. OwnProcess' /\ socket'[2] # "live"
    BY <2>2 DEF HInv, OwnProcess
  <2>6. OwnAnswer'
    BY <2>3, ConstantShapes DEF OwnAnswer
  <2> QED BY <2>4, <2>5, <2>6 DEF HInv
<1>8. CASE Commit
  <2>1. script' \in Steps /\ script'.at = "none" /\ db' \in BOOLEAN
    BY <1>1, <1>8, ConstantShapes DEF Commit, NoScript
  <2> QED BY <1>1, <1>8, <2>1, ScriptKeeps DEF Commit
<1> QED BY <1>2, <1>3, <1>4, <1>5, <1>6, <1>7, <1>8 DEF Scripts

-----------------------------------------------------------------------------
(* Together.                                                               *)

LEMMA RestartsStep ==
  ASSUME HInv, Restarts, UNCHANGED scenario
  PROVE  HInv'
<1> DEFINE x == [NoFetch EXCEPT !.at = "done", !.result = "no answer"]
<1>1. x \in Fetches /\ x.at = "done" /\ x.result = "no answer"
  BY ConstantShapes DEF Fetches
<1>2. fetch \in [Requester -> Fetches] /\ "script" \in Requester
  BY HostShapes DEF HInv, Requester
<1>3. fetch' = [r \in Requester |->
                  IF fetch[r].at \in {"dial", "look up"} THEN x ELSE fetch[r]]
  BY DEF Restarts, Cut
<1> HIDE DEF x
<1>4. fetch' \in [Requester -> Fetches]
  BY <1>1, <1>2, <1>3
<1>5. UNCHANGED <<db, disk, proc, socket, script, page>>
  BY DEF Restarts, module
<1>6. HostTypeOK'
  BY <1>4, <1>5 DEF HInv, HostTypeOK, Steps, Fetches
<1>7. OwnAnswer'
  BY <1>1, <1>2, <1>3, <1>5 DEF HInv, OwnAnswer
<1>8. OwnProcess' /\ socket'[2] # "live"
  BY <1>5 DEF HInv, OwnProcess
<1> QED BY <1>6, <1>7, <1>8 DEF HInv

LEMMA HostNextInvariant == HInv /\ [Next]_vars => HInv'
<1> SUFFICES ASSUME HInv, [Next]_vars PROVE HInv'
  OBVIOUS
<1>1. CASE UNCHANGED hostVars
  BY <1>1, HostKeeps
<1>2. CASE HostStep /\ UNCHANGED scenario
  <2>1. ASSUME NEW verb \in scenario.verbs, Opkg(verb) PROVE HInv'
    <3>1. verb \in {"install", "upgrade", "remove"}
      BY ScenarioFacts, HostShapes DEF HInv
    <3> QED BY <1>2, <2>1, <3>1, OpkgStep
  <2> QED BY <1>2, <2>1, ListenStep, ByHandStep, ServesStep, PageSteps, ScriptsStep
          DEF HostStep
<1>3. CASE AuthStep /\ UNCHANGED hostVars
  BY <1>3, HostKeeps
<1>4. CASE Restarts /\ UNCHANGED scenario
  BY <1>4, RestartsStep
<1> QED BY <1>1, <1>2, <1>3, <1>4 DEF Next, HostNext, MonitorStep, vars, hostVars

LEMMA HostInvariant == Spec => []HInv
<1>1. Init => HInv BY HostInitInvariant DEF Init
<1> QED BY <1>1, HostNextInvariant, PTL DEF Spec

\* The module's process, its socket, opkg, the page and its requests keep
\* their shapes, and a socket is live just while a process listens on it.
THEOREM HostTypeCorrect == Spec => []HostTypeOK
<1>1. HInv => HostTypeOK BY DEF HInv
<1> QED BY HostInvariant, <1>1, PTL

\* Only its answer, or that the service does not start, ends the wait.
LEMMA WaitEnds ==
  ASSUME HInv, [Next]_vars, script.at = "wait", script'.at # "wait"
  PROVE  IF script'.at = "commit" THEN fetch["script"].version = disk
         ELSE fetch["script"].result # "401"
<1>1. fetch["script"].result # "401"
  BY DEF HInv, OwnAnswer
<1>2. ASSUME script'.at = "commit" PROVE Answered
  <2>1. script' # script
    OBVIOUS
  <2>2. HostStep
    BY <2>1 DEF Next, HostNext, MonitorStep, Restarts, module, hostVars, vars
  <2>3. CASE Scripts
    <3>1. ~(Prerm \/ Unpack \/ Stop \/ StartService \/ Commit)
      BY DEF Prerm, Unpack, Stop, StartService, Commit
    <3>2. ~AsksHealth
      BY <2>1 DEF AsksHealth, Request, module
    <3> QED BY <2>3, <3>1, <3>2 DEF Scripts
  <2>4. CASE Listen \/ ByHand \/ Serves \/ PageStep \/ Navigate
    BY <2>1, <2>4 DEF Listen, ByHand, Serves, Dial, LookUp, PageStep, Timer, Asks,
       Request, Receive, Navigate, module
  <2>5. ASSUME NEW verb \in scenario.verbs, Opkg(verb) PROVE FALSE
    BY <2>5 DEF Opkg
  <2> QED BY <2>2, <2>3, <2>4, <2>5 DEF HostStep
<1>3. ASSUME script'.at = "commit"
      PROVE  fetch["script"].at = "done" /\ fetch["script"].result = "ok"
  <2>1. Answered /\ script \in Steps
    BY <1>2, <1>3, HostShapes DEF HInv
  <2>2. CASE script' = [script EXCEPT !.tries = @ + 1]
    BY <1>3, <2>1, <2>2 DEF Steps
  <2>3. CASE ScriptGoes("failed")
    BY <1>3, <2>1, <2>3, ScriptGoesFacts
  <2> QED BY <2>1, <2>2, <2>3 DEF Answered
<1>4. ASSUME script'.at = "commit" PROVE fetch["script"].version = disk
  BY <1>3, <1>4 DEF HInv, OwnAnswer
<1> QED BY <1>1, <1>4

\* The package script of DNS ends well only if the version it has unpacked
\* answers it, and never badly because Core wants a session (postinst,
\* auth.go 181-194).
THEOREM PostinstTells == Spec => PostinstTruth
<1>1. HInv /\ [Next]_vars =>
        [script.at = "wait" /\ script'.at # "wait" =>
           IF script'.at = "commit" THEN fetch["script"].version = disk
           ELSE fetch["script"].result # "401"]_hostVars
  BY WaitEnds
<1> QED BY <1>1, HostInvariant, PTL DEF Spec, PostinstTruth

-----------------------------------------------------------------------------
(* What is collected: the caches.                                          *)

\* What a reading may be older than the request that gets it.
Slack == Max({Interval - 1, ScanTime})

Queries ==
  [at : {"idle", "scan", "read", "done"}, asked : Int, began : Int, shown : Int]

Lists ==
  [of : SUBSET Interface, named : SUBSET Interface, tried : Int, read : Int,
   shown : Int, failed : BOOLEAN]

Scans ==
  [at : {"idle", "list", "names"}, read : Int, due : Int,
   found : SUBSET Interface, todo : SUBSET Interface]

\* How long reading the names of some interfaces takes.
Naming(todo) == NameTime * Cardinality(todo)

\* A scan ends in time, so that whatever is stored over a cache that was young
\* enough is young enough, too.
Scanned ==
  /\ scanned \in [began : Int, at : Int] /\ scanned.at = scanned.began
  /\ query \in [Query -> Queries]
  /\ \A q \in Query :
       /\ query[q].at # "idle" => query[q].asked <= now
       /\ query[q].at = "scan" =>
            query[q].began = query[q].asked /\ now <= query[q].began + ScanTime
       /\ query[q].at = "read" => scanned.began >= query[q].asked - Slack
       /\ query[q].at = "done" => query[q].shown >= query[q].asked - Slack
  /\ proc = Stopped => query = [q \in Query |-> NoQuery]

\* A list is stamped within the time of its reading: each call is given what
\* is left of that by the names that are still to be read.
Scanning ==
  /\ scan \in Scans /\ scan.todo \subseteq scan.found
  /\ scan.at # "names" => scan.todo = {}
  /\ scan.at # "idle" => scan.read <= now /\ now <= scan.due
  /\ scan.at = "list" => scan.due = scan.read + ListTime
  /\ scan.at = "names" =>
       scan.due + Naming(scan.todo) <=
         scan.read + ReadingTime + (IF scan.todo = {} THEN 0 ELSE NameTime)
  /\ proc = Stopped => scan = NoScan

Listed ==
  /\ router \subseteq Interface /\ list \in Lists
  /\ ~list.failed => /\ list.tried <= list.read + ReadingTime
                     /\ list.shown - list.read < KeepFor + ReadingTime

CInv == now \in Int /\ Scanned /\ Listed /\ Scanning

LEMMA Bounds ==
  /\ Interval \in Int /\ ScanTime \in Int /\ KeepFor \in Int
  /\ Interval > 0 /\ KeepFor > 0 /\ ScanTime >= 0
BY MonitoringAssumption

LEMMA MaxOfTwo ==
  ASSUME NEW a \in Int, NEW b \in Int
  PROVE  Max({a, b}) \in Int /\ Max({a, b}) >= a /\ Max({a, b}) >= b
<1>1. \E x \in {a, b} : \A y \in {a, b} : x >= y
  <2>1. CASE a >= b BY <2>1
  <2>2. CASE ~(a >= b) BY <2>2
  <2> QED BY <2>1, <2>2
<1>2. Max({a, b}) = CHOOSE x \in {a, b} : \A y \in {a, b} : x >= y
  BY DEF Max
<1>3. Max({a, b}) \in {a, b} /\ \A y \in {a, b} : Max({a, b}) >= y
  BY <1>1, <1>2
<1> QED BY <1>3

LEMMA SlackFacts == Slack \in Int /\ Slack >= Interval - 1 /\ Slack >= ScanTime
BY Bounds, MaxOfTwo DEF Slack

LEMMA NoQueryType == NoQuery \in Queries /\ NoQuery.at = "idle"
BY DEF NoQuery, Queries

-----------------------------------------------------------------------------
(* The sensors.                                                            *)

LEMMA AskSensorsStep ==
  ASSUME CInv, NEW q \in Query, AskSensors(q), UNCHANGED <<now, proc>>
  PROVE  Scanned'
<1> DEFINE at == IF now - scanned.at >= Interval THEN "scan" ELSE "read"
           x  == [NoQuery EXCEPT !.at = at, !.asked = now, !.began = now]
<1>1. /\ now \in Int /\ query \in [Query -> Queries]
      /\ scanned \in [began : Int, at : Int] /\ scanned.at = scanned.began
  BY DEF CInv, Scanned
<1>2. /\ x \in Queries /\ x.at = at /\ x.asked = now /\ x.began = now
      /\ at \in {"scan", "read"}
      /\ at = "read" => scanned.began >= now - Slack
  <2>1. at \in {"scan", "read"}
    OBVIOUS
  <2>2. at = "read" => scanned.began >= now - Slack
    BY <1>1, Bounds, SlackFacts
  <2> HIDE DEF at
  <2> QED BY <1>1, <2>1, <2>2, NoQueryType DEF Queries
<1>3. query' = [query EXCEPT ![q] = x] /\ scanned' = scanned
  BY DEF AskSensors
<1> HIDE DEF x, at
<1>4. query' \in [Query -> Queries] /\ query'[q] = x
      /\ \A r \in Query \ {q} : query'[r] = query[r]
  BY <1>1, <1>2, <1>3
<1>5. now <= now + ScanTime
  BY <1>1, Bounds
<1>6. proc # Stopped
  BY DEF AskSensors, Stopped
<1>7. ASSUME NEW r \in Query
      PROVE  /\ query'[r].at # "idle" => query'[r].asked <= now
             /\ query'[r].at = "scan" => /\ query'[r].began = query'[r].asked
                                        /\ now <= query'[r].began + ScanTime
             /\ query'[r].at = "read" => scanned.began >= query'[r].asked - Slack
             /\ query'[r].at = "done" => query'[r].shown >= query'[r].asked - Slack
  <2>1. CASE r = q
    BY <1>1, <1>2, <1>4, <1>5, <2>1
  <2>2. CASE r # q
    BY <1>4, <2>2 DEF CInv, Scanned
  <2> QED BY <2>1, <2>2
<1> QED BY <1>1, <1>3, <1>4, <1>6, <1>7 DEF Scanned

\* Whatever is stored was begun no longer ago than a scan takes.
LEMMA StoreSensorsStep ==
  ASSUME CInv, NEW q \in Query, StoreSensors(q), UNCHANGED <<now, proc>>
  PROVE  Scanned'
<1>1. /\ now \in Int /\ query \in [Query -> Queries] /\ query[q].at = "scan"
      /\ query[q].began = query[q].asked /\ now <= query[q].began + ScanTime
      /\ query[q].began \in Int
  BY DEF CInv, Scanned, StoreSensors, Queries
<1>2. /\ scanned' \in [began : Int, at : Int] /\ scanned'.at = scanned'.began
      /\ scanned'.began = query[q].began
  BY <1>1 DEF StoreSensors, Stamp
<1>3. /\ query' \in [Query -> Queries] /\ query'[q].at = "read"
      /\ query'[q].asked = query[q].asked
      /\ \A r \in Query \ {q} : query'[r] = query[r]
  BY <1>1 DEF StoreSensors, Queries
<1>4. proc # Stopped
  BY <1>1, NoQueryType DEF CInv, Scanned
<1>5. ASSUME NEW r \in Query
      PROVE  /\ query'[r].at # "idle" => query'[r].asked <= now
             /\ query'[r].at = "scan" => /\ query'[r].began = query'[r].asked
                                        /\ now <= query'[r].began + ScanTime
             /\ query'[r].at = "read" => scanned'.began >= query'[r].asked - Slack
             /\ query'[r].at = "done" => query'[r].shown >= query'[r].asked - Slack
  <2>1. query'[r].asked \in Int /\ query[r].asked \in Int
    BY <1>1, <1>3 DEF Queries
  <2>2. CASE r = q
    BY <1>1, <1>2, <1>3, <2>1, <2>2, Bounds, SlackFacts DEF CInv, Scanned
  <2>3. CASE r # q
    <3>1. query'[r] = query[r]
      BY <1>3, <2>3
    <3>2. query[r].at # "idle" => query[r].asked <= now
      BY DEF CInv, Scanned
    <3>3. query'[r].at = "read" => scanned'.began >= query'[r].asked - Slack
      BY <1>1, <1>2, <2>1, <3>1, <3>2, Bounds, SlackFacts
    <3> QED BY <3>1, <3>3 DEF CInv, Scanned
  <2> QED BY <2>2, <2>3
<1> QED BY <1>2, <1>3, <1>4, <1>5 DEF Scanned

\* A request that has read the cache, or has been answered.
LEMMA ReadSensorsStep ==
  ASSUME CInv, NEW q \in Query, ReadSensors(q) \/ AnswerSensors(q),
         UNCHANGED <<now, proc>>
  PROVE  Scanned'
<1>1. /\ now \in Int /\ query \in [Query -> Queries] /\ scanned' = scanned
      /\ query[q].at \in {"read", "done"} /\ scanned \in [began : Int, at : Int]
  BY DEF CInv, Scanned, ReadSensors, AnswerSensors
<1>2. proc # Stopped
  BY <1>1, NoQueryType DEF CInv, Scanned
<1>3. CASE ReadSensors(q)
  <2>1. /\ query' \in [Query -> Queries] /\ query'[q].at = "done"
        /\ query'[q].asked = query[q].asked /\ query'[q].shown = scanned.began
        /\ \A r \in Query \ {q} : query'[r] = query[r]
    BY <1>1, <1>3 DEF ReadSensors, Queries
  <2> QED BY <1>1, <1>2, <1>3, <2>1 DEF CInv, Scanned, ReadSensors
<1>4. CASE AnswerSensors(q)
  <2>1. /\ query' \in [Query -> Queries] /\ query'[q].at = "idle"
        /\ \A r \in Query \ {q} : query'[r] = query[r]
    BY <1>1, <1>4, NoQueryType DEF AnswerSensors
  <2> QED BY <1>1, <1>2, <2>1 DEF CInv, Scanned
<1> QED BY <1>3, <1>4

\* Time passes no further than a scan may take.
LEMMA TickStep ==
  ASSUME CInv, Tick, UNCHANGED proc
  PROVE  CInv'
<1>1. /\ now \in Int /\ now' = now + 1 /\ UNCHANGED <<scanned, query, router, list, scan>>
      /\ query \in [Query -> Queries]
  BY DEF CInv, Scanned, Tick, sensorVars, listVars
<1>2. \A q \in Query : query[q].asked \in Int /\ query[q].began \in Int
  BY <1>1 DEF Queries
<1>3. \A q \in Query :
        /\ query[q].at # "idle" => query[q].asked <= now'
        /\ query[q].at = "scan" => now' <= query[q].began + ScanTime
  BY <1>1, <1>2, Bounds DEF CInv, Scanned, Tick
<1>4. Scanned'
  BY <1>1, <1>3 DEF CInv, Scanned
<1>5. Scanning'
  <2>1. scan \in Scans /\ scan.due \in Int /\ scan.read \in Int
    BY DEF CInv, Scanning, Scans
  <2>2. scan.at # "idle" => scan.read <= now' /\ now' <= scan.due
    BY <1>1, <2>1 DEF CInv, Scanning, Tick
  <2> QED BY <1>1, <2>2 DEF CInv, Scanning, Naming
<1> QED BY <1>1, <1>4, <1>5 DEF CInv, Listed

-----------------------------------------------------------------------------
(* The router's list.                                                      *)

LEMMA NamingFacts ==
  /\ \A todo \in SUBSET Interface :
       /\ Naming(todo) \in Int /\ 0 <= Naming(todo)
       /\ Naming(todo) <= Naming(Interface)
       /\ \A i \in todo : Naming(todo \ {i}) = Naming(todo) - NameTime
  /\ Naming({}) = 0 /\ ReadingTime = ListTime + Naming(Interface)
<1>1. NameTime \in Nat /\ IsFiniteSet(Interface) /\ ListTime \in Nat
  BY MonitoringAssumption
<1>2. \A j, k \in Nat : j <= k => NameTime * j <= NameTime * k
  BY <1>1
<1>3. \A k \in Nat : NameTime * k \in Int /\ 0 <= NameTime * k
  BY <1>1
<1>4. \A k \in Int : NameTime * (k - 1) = NameTime * k - NameTime
  BY <1>1
<1>5. Cardinality(Interface) \in Nat
  BY <1>1, FS_CardinalityType
<1>6. ASSUME NEW todo \in SUBSET Interface
      PROVE  /\ Naming(todo) \in Int /\ 0 <= Naming(todo)
             /\ Naming(todo) <= Naming(Interface)
             /\ \A i \in todo : Naming(todo \ {i}) = Naming(todo) - NameTime
  <2>1. IsFiniteSet(todo) /\ Cardinality(todo) <= Cardinality(Interface)
    BY <1>1, FS_Subset
  <2>2. Cardinality(todo) \in Nat
    BY <2>1, FS_CardinalityType
  <2>3. \A i \in todo : Cardinality(todo \ {i}) = Cardinality(todo) - 1
    BY <2>1, FS_RemoveElement
  <2>4. Naming(todo) \in Int /\ 0 <= Naming(todo)
    BY <1>3, <2>2 DEF Naming
  <2>5. Naming(todo) <= Naming(Interface)
    BY <1>2, <1>5, <2>1, <2>2 DEF Naming
  <2>6. ASSUME NEW i \in todo PROVE Naming(todo \ {i}) = Naming(todo) - NameTime
    BY <1>4, <2>2, <2>3 DEF Naming
  <2> QED BY <2>4, <2>5, <2>6
<1>7. Cardinality({}) = 0
  BY FS_EmptySet
<1>8. Naming({}) = 0
  BY <1>1, <1>7 DEF Naming
<1>9. ReadingTime = ListTime + Naming(Interface)
  BY DEF ReadingTime, Naming
<1> QED BY <1>6, <1>8, <1>9

LEMMA ReadingTakes ==
  /\ ListTime \in Nat /\ NameTime \in Nat
  /\ ReadingTime \in Int /\ ReadingTime >= ListTime
<1>1. Naming(Interface) \in Int /\ 0 <= Naming(Interface)
  BY NamingFacts
<1> QED BY <1>1, NamingFacts, MonitoringAssumption

LEMMA NoScanType == NoScan \in Scans /\ NoScan.at = "idle" /\ NoScan.todo = {}
BY DEF NoScan, Scans

LEMMA AskInterfacesStep ==
  ASSUME CInv, AskInterfaces, UNCHANGED <<now, proc>>
  PROVE  Listed' /\ Scanning'
<1>1. /\ now \in Int /\ list \in Lists /\ router' = router
      /\ router \subseteq Interface /\ proc # Stopped
  BY DEF CInv, Listed, AskInterfaces, Stopped
<1>2. CASE Kept /\ list' = [list EXCEPT !.shown = now] /\ UNCHANGED scan
  <2>1. list' \in Lists
    BY <1>1, <1>2 DEF Lists
  <2>2. list.tried \in Int /\ list.read \in Int /\ now - list.tried < KeepFor
    BY <1>1, <1>2 DEF Lists, Kept
  <2>3. /\ list'.tried = list.tried /\ list'.read = list.read
        /\ list'.shown = now /\ list'.failed = list.failed
    BY <1>1, <1>2 DEF Lists
  <2>4. ~list.failed => list.tried <= list.read + ReadingTime
    BY DEF CInv, Listed
  <2>5. ~list.failed => now - list.read < KeepFor + ReadingTime
    BY <1>1, <2>2, <2>4, Bounds, ReadingTakes
  <2> QED BY <1>1, <1>2, <2>1, <2>3, <2>4, <2>5 DEF CInv, Listed, Scanning, Naming
<1>3. CASE /\ scan' = [NoScan EXCEPT !.at = "list", !.read = now,
                                     !.due = now + ListTime]
           /\ UNCHANGED list
  <2>1. /\ scan' \in Scans /\ scan'.at = "list" /\ scan'.read = now
        /\ scan'.due = now + ListTime /\ scan'.todo = {}
    <3>1. now + ListTime \in Int
      BY <1>1, ReadingTakes
    <3>2. scan' = [at |-> "list", read |-> now, due |-> now + ListTime,
                   found |-> {}, todo |-> {}]
      BY <1>3 DEF NoScan
    <3> QED BY <1>1, <3>1, <3>2 DEF Scans
  <2>2. now <= now + ListTime
    BY <1>1, ReadingTakes
  <2> QED BY <1>1, <1>3, <2>1, <2>2 DEF CInv, Listed, Scanning
<1> QED BY <1>2, <1>3 DEF AskInterfaces

LEMMA FailListStep ==
  ASSUME CInv, FailList
  PROVE  Listed' /\ Scanning'
<1>1. /\ now \in Int /\ list \in Lists /\ router' = router /\ Never \in Int
      /\ router \subseteq Interface /\ scan' = NoScan
  BY DEF CInv, Listed, FailList, Never
<1>2. list' \in Lists /\ list'.failed = TRUE
  BY <1>1 DEF Lists, FailList
<1> QED BY <1>1, <1>2, NoScanType DEF Listed, Scanning

\* The time a call is given, and what the names left take.
LEMMA DueFacts ==
  ASSUME now \in Int, NEW todo
  PROVE  /\ Due(todo) \in Int /\ now <= Due(todo)
         /\ Due(todo) = now + (IF todo = {} THEN 0 ELSE NameTime)
BY ReadingTakes DEF Due

LEMMA ReadListStep ==
  ASSUME CInv, ReadList, UNCHANGED <<now, proc>>
  PROVE  Listed' /\ Scanning'
<1> DEFINE todo == router \ list.named
<1>1. /\ now \in Int /\ scan \in Scans /\ router \subseteq Interface
      /\ scan.at = "list" /\ proc # Stopped
  BY NoScanType DEF CInv, Listed, Scanning, ReadList
<1>2. scan' = [scan EXCEPT !.at = "names", !.due = Due(todo), !.found = router,
                           !.todo = todo]
  BY DEF ReadList
<1>3. todo \subseteq router
  OBVIOUS
<1> HIDE DEF todo
<1>4. todo \subseteq Interface
  BY <1>1, <1>3
<1>5. /\ scan' \in Scans /\ scan'.at = "names" /\ scan'.due = Due(todo)
      /\ scan'.found = router /\ scan'.todo = todo /\ scan'.read = scan.read
  BY <1>1, <1>2, <1>4, DueFacts DEF Scans
<1>6. scan.read \in Int /\ scan.read <= now /\ now <= scan.read + ListTime
  BY <1>1 DEF CInv, Scanning, Scans
<1>7. Naming(todo) \in Int /\ Naming(todo) <= Naming(Interface)
  BY <1>4, NamingFacts
<1>8. ReadingTime = ListTime + Naming(Interface) /\ Naming(Interface) \in Int
  BY NamingFacts
<1>9. Due(todo) + Naming(todo) <=
        scan.read + ReadingTime + (IF todo = {} THEN 0 ELSE NameTime)
  BY <1>1, <1>6, <1>7, <1>8, DueFacts, ReadingTakes
<1>10. Scanning'
  BY <1>1, <1>3, <1>5, <1>6, <1>9, DueFacts DEF Scanning, Naming
<1>11. Listed'
  BY DEF CInv, Listed, ReadList
<1> QED BY <1>10, <1>11

LEMMA NameInterfaceStep ==
  ASSUME CInv, NEW i \in Interface, NameInterface(i), UNCHANGED <<now, proc>>
  PROVE  Listed' /\ Scanning'
<1> DEFINE todo == scan.todo \ {i}
<1>1. /\ now \in Int /\ scan \in Scans /\ list \in Lists /\ i \in scan.todo
      /\ scan.todo \subseteq Interface /\ scan.todo \subseteq scan.found
  BY DEF CInv, Listed, Scanning, Scans, NameInterface
<1>2. scan' = [scan EXCEPT !.todo = todo, !.due = Due(todo)]
  BY <1>1 DEF NameInterface, Scans
<1>3. todo \subseteq scan.todo /\ Naming(todo) = Naming(scan.todo) - NameTime
  BY <1>1, NamingFacts
<1>4. Naming(scan.todo) \in Int
  BY <1>1, NamingFacts
<1>5. todo = {} => Naming(todo) = 0
  BY NamingFacts
<1>6. /\ scan.due \in Int /\ scan.read \in Int
      /\ scan.at # "idle" => scan.read <= now /\ now <= scan.due
      /\ scan.at = "names" =>
           scan.due + Naming(scan.todo) <= scan.read + ReadingTime + NameTime
  BY <1>1 DEF CInv, Scanning, Scans
<1> HIDE DEF todo
<1>7. /\ scan' \in Scans /\ scan'.at = scan.at /\ scan'.due = Due(todo)
      /\ scan'.found = scan.found /\ scan'.todo = todo /\ scan'.read = scan.read
  BY <1>1, <1>2, <1>3, DueFacts DEF Scans
<1>8. scan.at = "names" =>
        Due(todo) + Naming(todo) <=
          scan.read + ReadingTime + (IF todo = {} THEN 0 ELSE NameTime)
  <2>1. CASE todo = {}
    BY <1>1, <1>3, <1>4, <1>5, <1>6, <2>1, DueFacts, ReadingTakes
  <2>2. CASE todo # {}
    BY <1>1, <1>3, <1>4, <1>6, <2>2, DueFacts, ReadingTakes
  <2> QED BY <2>1, <2>2
<1>9. scan.at = "names" /\ proc # Stopped
  BY <1>1, NoScanType DEF CInv, Scanning
<1>10. Scanning'
  BY <1>1, <1>3, <1>6, <1>7, <1>8, <1>9, DueFacts DEF Scanning, Naming
<1>11. Listed'
  <2>1. list' \in Lists /\ \A f \in {"tried", "read", "shown", "failed"} : list'[f] = list[f]
    BY <1>1 DEF NameInterface, Lists
  <2> QED BY <2>1 DEF CInv, Listed, NameInterface
<1> QED BY <1>10, <1>11

LEMMA ShowInterfacesStep ==
  ASSUME CInv, ShowInterfaces, UNCHANGED now
  PROVE  Listed' /\ Scanning'
<1>1. /\ now \in Int /\ list \in Lists /\ scan \in Scans /\ router' = router
      /\ router \subseteq Interface /\ scan' = NoScan
      /\ scan.at = "names" /\ scan.todo = {}
  BY DEF CInv, Listed, Scanning, ShowInterfaces
<1>2. scan.read \in Int /\ scan.due \in Int /\ now <= scan.due
  BY <1>1 DEF CInv, Scanning, Scans
<1>3. scan.due <= scan.read + ReadingTime
  <2>1. scan.due + Naming({}) <= scan.read + ReadingTime + 0
    BY <1>1 DEF CInv, Scanning
  <2> QED BY <1>2, <2>1, NamingFacts, ReadingTakes
<1>4. /\ list' \in Lists /\ list'.tried = now /\ list'.shown = now
      /\ list'.read = scan.read
  <2>1. scan.found \intersect list.named \in SUBSET Interface
    BY <1>1 DEF Lists
  <2> QED BY <1>1, <1>2, <2>1 DEF Lists, ShowInterfaces
<1>5. now <= scan.read + ReadingTime /\ now - scan.read < KeepFor + ReadingTime
  BY <1>1, <1>2, <1>3, ReadingTakes, Bounds
<1> QED BY <1>1, <1>4, <1>5, NoScanType DEF Listed, Scanning

LEMMA RouterStep ==
  ASSUME CInv, RouterChanges, UNCHANGED <<now, proc>>
  PROVE  Listed' /\ Scanning'
<1>1. router' \subseteq Interface /\ list' = list /\ scan' = scan
  BY DEF CInv, Listed, RouterChanges
<1> QED BY <1>1 DEF CInv, Listed, Scanning, Naming

LEMMA InterfacesStep ==
  ASSUME CInv, Interfaces, UNCHANGED <<now, proc>>
  PROVE  Listed' /\ Scanning'
BY RouterStep, AskInterfacesStep, FailListStep, ReadListStep, NameInterfaceStep,
   ShowInterfacesStep DEF Interfaces

-----------------------------------------------------------------------------
(* Together.                                                               *)

LEMMA NoListFacts == router \subseteq Interface /\ list = NoList => Listed
<1>1. NoList \in Lists /\ NoList.tried = NoList.read /\ NoList.shown = NoList.read
      /\ NoList.read \in Int
  BY DEF NoList, Lists, Never
<1> QED BY <1>1, ReadingTakes, Bounds DEF Listed

LEMMA InitCollectors == Init => CInv
<1> SUFFICES ASSUME Init PROVE CInv
  OBVIOUS
<1>1. now = 0 /\ scanned = Fresh(0) /\ query = [q \in Query |-> NoQuery]
      /\ router = {} /\ list = NoList /\ scan = NoScan
  BY DEF Init, MonitorInit
<1>2. Scanned
  BY <1>1, NoQueryType DEF Scanned, Fresh
<1>3. Listed
  BY <1>1, NoListFacts
<1>4. Scanning
  BY <1>1, NoScanType DEF Scanning
<1> QED BY <1>1, <1>2, <1>3, <1>4 DEF CInv

LEMMA SensorsKeep ==
  ASSUME CInv, UNCHANGED <<now, scanned, query, router, list, scan, proc>>
  PROVE  CInv'
BY DEF CInv, Scanned, Listed, Scanning, Naming

\* A process that starts has no requests yet, and one that ends none anymore.
LEMMA CollectorsStep ==
  ASSUME CInv, Collectors
  PROVE  CInv'
<1>1. /\ now \in Int /\ now' = now /\ router' = router
      /\ scanned \in [began : Int, at : Int] /\ scanned.at = scanned.began
      /\ query \in [Query -> Queries]
  BY DEF CInv, Scanned, Collectors
<1>2. Listed'
  <2>1. CASE list' = list
    BY <1>1, <2>1 DEF CInv, Listed
  <2>2. CASE list' = NoList
    <3>1. router' \subseteq Interface
      BY <1>1 DEF CInv, Listed
    <3>2. (router \subseteq Interface /\ list = NoList => Listed)'
      BY NoListFacts, PTL
    <3> QED BY <2>2, <3>1, <3>2 DEF NoList
  <2> QED BY <2>1, <2>2 DEF Collectors
<1>3. scanned' \in [began : Int, at : Int] /\ scanned'.at = scanned'.began
  BY <1>1 DEF Collectors, Fresh
<1>6. Scanning'
  <2>1. CASE proc' = Stopped
    <3>1. scan' = NoScan
      BY <2>1 DEF Collectors
    <3> QED BY <2>1, <3>1, NoScanType DEF Scanning
  <2>2. CASE proc' # Stopped
    <3>1. scan' = scan
      BY <2>2 DEF Collectors
    <3> QED BY <1>1, <2>2, <3>1 DEF CInv, Scanning, Naming
  <2> QED BY <2>1, <2>2
<1>4. CASE proc' = Stopped
  <2>1. query' = [q \in Query |-> NoQuery]
    BY <1>4 DEF Collectors
  <2> QED BY <1>1, <1>2, <1>3, <1>6, <2>1, NoQueryType DEF CInv, Scanned
<1>5. CASE proc' # Stopped
  <2>1. query' = query
    BY <1>5 DEF Collectors
  <2>2. CASE proc = Stopped
    <3>1. query = [q \in Query |-> NoQuery]
      BY <2>2 DEF CInv, Scanned
    <3> QED BY <1>1, <1>2, <1>3, <1>5, <1>6, <2>1, <3>1, NoQueryType DEF CInv, Scanned
  <2>3. CASE proc # Stopped
    <3>1. scanned' = scanned
      BY <2>3 DEF Collectors, Starts
    <3> QED BY <1>1, <1>2, <1>5, <1>6, <2>1, <3>1 DEF CInv, Scanned
  <2> QED BY <2>2, <2>3
<1> QED BY <1>4, <1>5

LEMMA NextCollectors == CInv /\ [Next]_vars => CInv'
<1> SUFFICES ASSUME CInv, [Next]_vars PROVE CInv'
  OBVIOUS
<1>1. CASE UNCHANGED vars
  BY <1>1, SensorsKeep DEF vars, hostVars, module, monitorVars, sensorVars, listVars
<1>2. CASE HostNext /\ Collectors
  BY <1>2, CollectorsStep
<1>3. CASE MonitorStep
  <2>1. proc' = proc
    BY <1>3 DEF MonitorStep, hostVars, module
  <2>2. CASE Sensors /\ UNCHANGED <<now, listVars>>
    <3>1. Scanned'
      BY <2>1, <2>2, AskSensorsStep, StoreSensorsStep, ReadSensorsStep DEF Sensors
    <3> QED BY <2>1, <2>2, <3>1 DEF CInv, Listed, Scanning, Naming, listVars
  <2>3. CASE Interfaces /\ UNCHANGED <<now, sensorVars>>
    <3>1. Listed' /\ Scanning'
      BY <2>1, <2>3, InterfacesStep
    <3> QED BY <2>1, <2>3, <3>1 DEF CInv, Scanned, sensorVars
  <2>4. CASE Tick
    BY <2>1, <2>4, TickStep
  <2>5. CASE UNCHANGED <<now, sensorVars, listVars>>
    BY <2>1, <2>5, SensorsKeep DEF sensorVars, listVars
  <2> QED BY <1>3, <2>2, <2>3, <2>4, <2>5 DEF MonitorStep
<1> QED BY <1>1, <1>2, <1>3 DEF Next

LEMMA CollectorsInvariant == Spec => []CInv
BY InitCollectors, NextCollectors, PTL DEF Spec

\* Whoever scans while others do, however long, and whoever stores last: the
\* readings a request gets are not older than the cache may be or a scan
\* takes; the interfaces are not older than their list is kept and reading it
\* takes, call by call (thermal.go 49-71, network.go 191-230).
THEOREM ReadingsAreFresh == Spec => []ReadingsFresh
<1>1. CInv => ReadingsFresh
  BY DEF CInv, Scanned, Listed, Slack, ReadingsFresh
<1> QED BY CollectorsInvariant, <1>1, PTL

-----------------------------------------------------------------------------
(* The rates.                                                              *)

Counts == Nat \union {Gone}

Moves == [count : Nat, whole : BOOLEAN]

\* A device that was there all the time has counted from the last reading, if
\* there was one; any other from nothing.
Counted(d) ==
  IF moved[d].whole
  THEN /\ device[d] # Gone
       /\ rates.previous[d] # Gone => device[d] = rates.previous[d] + moved[d].count
  ELSE device[d] # Gone => device[d] <= moved[d].count

RInv ==
  /\ device \in [Device -> Counts] /\ moved \in [Device -> Moves]
  /\ rates.previous \in [Device -> Counts]
  /\ \A d \in Device : Counted(d)
  /\ RatesAreReal

LEMMA CountFacts ==
  /\ Gone \in Int /\ Gone \notin Nat /\ 0 \in Counts /\ Counts \subseteq Int
  /\ \A n \in Counts : n # Gone => n \in Nat
BY DEF Gone, Counts

LEMMA UnmovedFacts ==
  ASSUME RInv, moved' = Unmoved
  PROVE  /\ moved' \in [Device -> Moves]
         /\ \A d \in Device : moved'[d].count = 0 /\ (moved'[d].whole <=> device[d] # Gone)
BY DEF Unmoved, Moves

LEMMA ReadingTypes ==
  ASSUME RInv, NEW current \in Readings
  PROVE  /\ current \in [Device -> Counts]
         /\ \A d \in Device : current[d] # Gone => current[d] = device[d]
BY DEF RInv, Readings, Counts

LEMMA KernelStep ==
  ASSUME RInv, Kernel
  PROVE  RInv'
<1>1. PICK d \in Device :
        \/ /\ device[d] # Gone
           /\ device' = [device EXCEPT ![d] = @ + 1]
           /\ moved' = [moved EXCEPT ![d].count = @ + 1]
        \/ /\ device' = [device EXCEPT ![d] = IF @ = Gone THEN 0 ELSE Gone]
           /\ moved' = [moved EXCEPT ![d].whole = FALSE]
  BY DEF Kernel
<1>2. /\ device \in [Device -> Counts] /\ moved \in [Device -> Moves]
      /\ rates.previous \in [Device -> Counts] /\ rates' = rates
      /\ moved[d].count \in Nat /\ moved[d].whole \in BOOLEAN
  BY DEF RInv, Kernel, Moves
<1>3. CASE /\ device[d] # Gone
           /\ device' = [device EXCEPT ![d] = @ + 1]
           /\ moved' = [moved EXCEPT ![d].count = @ + 1]
  <2>1. device'[d] = device[d] + 1 /\ device[d] \in Nat /\ device'[d] \in Nat
    BY <1>2, <1>3, CountFacts
  <2>2. /\ moved'[d].count = moved[d].count + 1 /\ moved'[d].whole = moved[d].whole
        /\ moved' \in [Device -> Moves]
    BY <1>2, <1>3 DEF Moves
  <2>3. \A e \in Device \ {d} : device'[e] = device[e] /\ moved'[e] = moved[e]
    BY <1>2, <1>3
  <2>4. device' \in [Device -> Counts]
    BY <1>2, <1>3, <2>1 DEF Counts
  <2>5. Counted(d)'
    <3>1. rates.previous[d] \in Counts /\ Counted(d) /\ device'[d] # Gone
      BY <1>2, <2>1, CountFacts DEF RInv
    <3> QED BY <1>2, <1>3, <2>1, <2>2, <3>1, CountFacts DEF Counted
  <2>6. \A e \in Device : Counted(e)'
    BY <1>2, <2>3, <2>5 DEF RInv, Counted
  <2> QED BY <1>2, <2>2, <2>4, <2>6 DEF RInv, RatesAreReal
<1>4. CASE /\ device' = [device EXCEPT ![d] = IF @ = Gone THEN 0 ELSE Gone]
           /\ moved' = [moved EXCEPT ![d].whole = FALSE]
  <2>1. device'[d] \in {0, Gone} /\ device' \in [Device -> Counts]
    BY <1>2, <1>4 DEF Counts
  <2>2. /\ moved'[d].count = moved[d].count /\ moved'[d].whole = FALSE
        /\ moved' \in [Device -> Moves]
    BY <1>2, <1>4 DEF Moves
  <2>3. \A e \in Device \ {d} : device'[e] = device[e] /\ moved'[e] = moved[e]
    BY <1>2, <1>4
  <2>4. Counted(d)'
    BY <1>2, <2>1, <2>2 DEF Counted
  <2>5. \A e \in Device : Counted(e)'
    BY <1>2, <2>3, <2>4 DEF RInv, Counted
  <2> QED BY <1>2, <2>1, <2>2, <2>5 DEF RInv, RatesAreReal
<1> QED BY <1>1, <1>3, <1>4

LEMMA SampleStep ==
  ASSUME RInv, Sample
  PROVE  RInv'
<1>1. PICK current \in Readings :
        rates' = [previous |-> Previous(current),
                  shown    |-> [d \in Device |-> Rate(current[d], rates.previous[d])],
                  counted  |-> moved]
  BY DEF Sample
<1>2. /\ current \in [Device -> Counts]
      /\ \A d \in Device : current[d] # Gone => current[d] = device[d]
  BY ReadingTypes
<1>3. /\ device' = device /\ rates'.previous = current /\ rates'.counted = moved
      /\ rates'.shown = [d \in Device |-> Rate(current[d], rates.previous[d])]
      /\ moved' = Unmoved
  BY <1>1 DEF Sample, Previous
<1>4. \A d \in Device : Counted(d)'
  <2> SUFFICES ASSUME NEW d \in Device PROVE Counted(d)'
    OBVIOUS
  <2>1. /\ moved'[d].count = 0 /\ (moved'[d].whole <=> device'[d] # Gone)
        /\ device'[d] = device[d] /\ rates'.previous[d] = current[d]
    BY <1>2, <1>3, UnmovedFacts
  <2>2. device[d] # Gone => device[d] \in Nat
    BY CountFacts DEF RInv
  <2>3. current[d] # Gone => current[d] = device[d]
    BY <1>2, <1>3
  <2> QED BY <2>1, <2>2, <2>3 DEF Counted
<1>5. ASSUME NEW d \in Device, rates'.shown[d] # Gone
      PROVE  IF moved[d].whole THEN rates'.shown[d] = moved[d].count
             ELSE rates'.shown[d] <= moved[d].count
  <2>1. /\ rates'.shown[d] = CounterDelta(current[d], rates.previous[d])
        /\ current[d] = device[d] /\ current[d] # Gone /\ rates.previous[d] # Gone
    BY <1>2, <1>3, <1>5 DEF Rate
  <2>2. device[d] \in Nat /\ rates.previous[d] \in Nat /\ moved[d].count \in Nat
    BY <2>1, CountFacts DEF RInv, Moves
  <2>3. Counted(d)
    BY DEF RInv
  <2>4. CASE moved[d].whole
    BY <2>1, <2>2, <2>3, <2>4 DEF Counted, CounterDelta
  <2>5. CASE ~moved[d].whole
    BY <2>1, <2>2, <2>3, <2>5 DEF Counted, CounterDelta
  <2> QED BY <2>4, <2>5
<1>6. RatesAreReal'
  BY <1>3, <1>5 DEF RatesAreReal
<1> QED BY <1>2, <1>3, <1>4, <1>6, UnmovedFacts DEF RInv

\* A collector that starts has read once.
LEMMA RatesStart ==
  ASSUME RInv, NEW first \in Readings, rates' = NoRates(first), moved' = Unmoved,
         device' = device
  PROVE  RInv'
<1>1. /\ first \in [Device -> Counts]
      /\ \A d \in Device : first[d] # Gone => first[d] = device[d]
  BY ReadingTypes
<1>2. rates'.previous = first /\ rates'.shown = [d \in Device |-> Gone]
  BY DEF NoRates
<1>3. \A d \in Device : Counted(d)'
  <2> SUFFICES ASSUME NEW d \in Device PROVE Counted(d)'
    OBVIOUS
  <2>1. /\ moved'[d].count = 0 /\ (moved'[d].whole <=> device'[d] # Gone)
        /\ device'[d] = device[d] /\ rates'.previous[d] = first[d]
    BY <1>1, <1>2, UnmovedFacts
  <2>2. device[d] # Gone => device[d] \in Nat
    BY CountFacts DEF RInv
  <2>3. first[d] # Gone => first[d] = device[d]
    BY <1>1, <1>2
  <2> QED BY <2>1, <2>2, <2>3 DEF Counted
<1> QED BY <1>1, <1>2, <1>3, UnmovedFacts DEF RInv, RatesAreReal

LEMMA InitRates == Init => RInv
<1> SUFFICES ASSUME Init PROVE RInv
  OBVIOUS
<1>1. /\ device = [d \in Device |-> 0] /\ rates.previous = device
      /\ rates.shown = [d \in Device |-> Gone] /\ moved = Unmoved
  BY DEF Init, MonitorInit, NoRates
<1>2. moved \in [Device -> Moves] /\ \A d \in Device : moved[d].count = 0
  BY <1>1 DEF Unmoved, Moves
<1>3. \A d \in Device : Counted(d)
  BY <1>1, <1>2, CountFacts DEF Counted
<1> QED BY <1>1, <1>2, <1>3 DEF RInv, RatesAreReal, Counts

LEMMA NextRates == RInv /\ [Next]_vars => RInv'
<1> SUFFICES ASSUME RInv, [Next]_vars PROVE RInv'
  OBVIOUS
<1>1. CASE UNCHANGED <<device, moved, rates>>
  BY <1>1 DEF RInv, Counted, RatesAreReal
<1>2. CASE HostNext /\ Collectors
  <2>1. CASE \E first \in Readings : rates' = NoRates(first) /\ moved' = Unmoved
    BY <1>2, <2>1, RatesStart DEF Collectors
  <2> QED BY <1>1, <1>2, <2>1 DEF Collectors
<1>3. CASE MonitorStep
  <2>1. CASE Rates
    BY <2>1, KernelStep, SampleStep DEF Rates, NetworkSample, StorageSample
  <2> QED BY <1>1, <1>3, <2>1 DEF MonitorStep, rateVars
<1> QED BY <1>1, <1>2, <1>3 DEF Next, vars, monitorVars, rateVars

\* Whatever interfaces and disks do between two readings, and whether or not
\* the counters could be read: a rate is what was counted, and no more than
\* that of a device that was away or has started anew (network.go 152-179,
\* storage.go 109-144).
THEOREM RatesAreMeasured == Spec => []RatesAreReal
<1>1. RInv => RatesAreReal BY DEF RInv
<1> QED BY InitRates, NextRates, <1>1, PTL DEF Spec

-----------------------------------------------------------------------------
(* The load of CPUs.                                                       *)

Times == [busy : Nat, idle : Nat, online : BOOLEAN]

Shares == {r \in [busy : Nat, total : Nat] : r.busy <= r.total /\ r.total > 0}

LInv ==
  /\ stat \in [Cpu -> Times] /\ load.previous \in [Cpu -> Times]
  /\ load.history \in [Cpu -> Seq(Shares)]
  /\ \A l \in load.latest : l.of \in Seq(Shares) /\ l.of # <<>>

LEMMA UsageType ==
  ASSUME NEW previous \in Times, NEW current \in Times,
         Total(current) > Total(previous)
  PROVE  CpuUsage(previous, current) \in Shares
<1> DEFINE total == Total(current) - Total(previous)
           idle  == current.idle - previous.idle
           busy  == IF current.idle < previous.idle \/ idle >= total THEN 0
                    ELSE total - idle
<1>1. /\ current.idle \in Nat /\ previous.idle \in Nat
      /\ current.busy \in Nat /\ previous.busy \in Nat
  BY DEF Times
<1>2. total \in Nat /\ total > 0
  BY <1>1 DEF Total
<1>3. busy \in Nat /\ busy <= total
  BY <1>1, <1>2
<1>4. CpuUsage(previous, current) = [busy |-> busy, total |-> total]
  BY DEF CpuUsage
<1> HIDE DEF busy, total
<1> QED BY <1>2, <1>3, <1>4 DEF Shares

\* The newest readings are kept, of any at least one.
LEMMA LastReadingsType ==
  ASSUME NEW S, NEW readings \in Seq(S), readings # <<>>
  PROVE  LastReadings(readings) \in Seq(S) /\ LastReadings(readings) # <<>>
<1> DEFINE n == Len(readings)
           m == IF n > Window THEN n - Window + 1 ELSE 1
<1>1. Window \in Nat /\ Window > 0 /\ n \in Nat /\ n > 0
  BY MonitoringAssumption
<1>2. m \in 1..n
  BY <1>1
<1>3. LastReadings(readings) = SubSeq(readings, m, n)
  BY DEF LastReadings
<1> HIDE DEF m
<1>4. Len(SubSeq(readings, m, n)) = n - m + 1 /\ SubSeq(readings, m, n) \in Seq(S)
  BY <1>1, <1>2, SubSeqProperties
<1>5. Len(LastReadings(readings)) >= 1 /\ LastReadings(readings) \in Seq(S)
  <2> HIDE DEF n
  <2> QED BY <1>1, <1>2, <1>3, <1>4
<1>6. Len(<<>>) = 0
  OBVIOUS
<1> QED BY <1>5, <1>6

LEMMA SampleCpusStep ==
  ASSUME LInv, SampleCpus
  PROVE  LInv'
<1> DEFINE seen == {c \in Cpu : Progress(c)}
           longer(c) == LastReadings(Append(load.history[c],
                                            CpuUsage(load.previous[c], stat[c])))
           history == [c \in Cpu |-> IF c \in seen THEN longer(c)
                                     ELSE load.history[c]]
<1>1. /\ stat' = stat
      /\ load'.previous = [c \in Cpu |-> IF stat[c].online THEN stat[c]
                                         ELSE load.previous[c]]
      /\ load'.history = history
      /\ load'.latest = IF seen = {} THEN load.latest
                        ELSE {[cpu |-> c, of |-> history[c]] : c \in seen}
  BY DEF SampleCpus
<1>2. load'.previous \in [Cpu -> Times]
  BY <1>1 DEF LInv
<1>3. ASSUME NEW c \in seen
      PROVE  longer(c) \in Seq(Shares) /\ longer(c) # <<>>
  <2>1. stat[c] \in Times /\ load.previous[c] \in Times
        /\ Total(stat[c]) > Total(load.previous[c])
    BY DEF LInv, Progress
  <2> DEFINE x == CpuUsage(load.previous[c], stat[c])
  <2>2. x \in Shares
    BY <2>1, UsageType
  <2>3. load.history[c] \in Seq(Shares)
    BY DEF LInv
  <2> HIDE DEF x
  <2>4. Append(load.history[c], x) \in Seq(Shares)
        /\ Append(load.history[c], x) # <<>>
    BY <2>2, <2>3
  <2> QED BY <2>4, LastReadingsType DEF x
<1> HIDE DEF longer
<1>4. history \in [Cpu -> Seq(Shares)]
  BY <1>3 DEF LInv
<1>5. \A c \in seen : history[c] \in Seq(Shares) /\ history[c] # <<>>
  BY <1>3
<1> HIDE DEF history
<1>6. \A l \in load'.latest : l.of \in Seq(Shares) /\ l.of # <<>>
  BY <1>1, <1>5 DEF LInv
<1> QED BY <1>1, <1>2, <1>4, <1>6 DEF LInv

LEMMA CpuRunsStep ==
  ASSUME LInv, CpuRuns
  PROVE  LInv'
<1>1. PICK c \in Cpu :
        \/ stat' = [stat EXCEPT ![c].busy = @ + 1]
        \/ stat' = [stat EXCEPT ![c].idle = @ + 1]
        \/ stat[c].idle > 0 /\ stat' = [stat EXCEPT ![c].idle = @ - 1]
        \/ stat' = [stat EXCEPT ![c].online = ~@]
  BY DEF CpuRuns
<1>2. stat \in [Cpu -> Times] /\ stat[c] \in Times
  BY DEF LInv
<1>3. stat' \in [Cpu -> Times]
  <2>1. CASE stat' = [stat EXCEPT ![c].busy = @ + 1]
    BY <1>2, <2>1 DEF Times
  <2>2. CASE stat' = [stat EXCEPT ![c].idle = @ + 1]
    BY <1>2, <2>2 DEF Times
  <2>3. CASE stat[c].idle > 0 /\ stat' = [stat EXCEPT ![c].idle = @ - 1]
    <3>1. stat[c].idle - 1 \in Nat
      BY <1>2, <2>3 DEF Times
    <3> QED BY <1>2, <2>3, <3>1 DEF Times
  <2>4. CASE stat' = [stat EXCEPT ![c].online = ~@]
    BY <1>2, <2>4 DEF Times
  <2> QED BY <1>1, <2>1, <2>2, <2>3, <2>4
<1> QED BY <1>3 DEF LInv, CpuRuns

LEMMA LoadStarts ==
  ASSUME LInv, load' = NoLoad(stat), stat' = stat
  PROVE  LInv'
<1>1. /\ load'.previous = stat /\ load'.history = [c \in Cpu |-> <<>>]
      /\ load'.latest = {}
  BY DEF NoLoad
<1>2. <<>> \in Seq(Shares)
  OBVIOUS
<1> QED BY <1>1, <1>2 DEF LInv

LEMMA InitLoads == Init => LInv
<1> SUFFICES ASSUME Init PROVE LInv
  OBVIOUS
<1>1. /\ stat = [c \in Cpu |-> [busy |-> 0, idle |-> 0, online |-> TRUE]]
      /\ load.previous = stat /\ load.history = [c \in Cpu |-> <<>>]
      /\ load.latest = {}
  BY DEF Init, MonitorInit, NoLoad
<1>2. <<>> \in Seq(Shares) /\ [busy |-> 0, idle |-> 0, online |-> TRUE] \in Times
  BY DEF Times
<1> QED BY <1>1, <1>2 DEF LInv

LEMMA NextLoads == LInv /\ [Next]_vars => LInv'
<1> SUFFICES ASSUME LInv, [Next]_vars PROVE LInv'
  OBVIOUS
<1>1. CASE UNCHANGED cpuVars
  BY <1>1 DEF LInv, cpuVars
<1>2. CASE HostNext /\ Collectors
  <2>1. CASE load' = NoLoad(stat)
    BY <1>2, <2>1, LoadStarts DEF Collectors
  <2> QED BY <1>1, <1>2, <2>1 DEF Collectors, cpuVars
<1>3. CASE MonitorStep
  <2>1. CASE Cpus
    BY <2>1, CpuRunsStep, SampleCpusStep DEF Cpus, SystemSample, ControlSample
  <2> QED BY <1>1, <1>3, <2>1 DEF MonitorStep
<1> QED BY <1>1, <1>2, <1>3 DEF Next, vars, monitorVars

\* Though the kernel takes idle time back and CPUs are put off- and online: a
\* load is made of readings of which each is a share of the time that passed
\* (system.go 107-149 and 220-235, Control's main.go 409-473).
THEOREM LoadsAreProper == Spec => []LoadsAreShares
<1>1. LInv => LoadsAreShares
  <2> SUFFICES ASSUME LInv, NEW l \in load.latest, NEW i \in DOMAIN l.of
               PROVE  l.of[i].busy \in 0..l.of[i].total /\ l.of[i].total > 0
    BY DEF LInv, LoadsAreShares
  <2>1. l.of[i] \in Shares
    BY DEF LInv
  <2> QED BY <2>1 DEF Shares
<1> QED BY InitLoads, NextLoads, <1>1, PTL DEF Spec

-----------------------------------------------------------------------------
(* What the loads add up to.                                               *)

\* A running sum of what a CPU's readings h say, with an upper bound.
Sums(h, sum, top) ==
  /\ sum \in [0..Len(h) -> 0..top] /\ sum[0] = 0
  /\ \A i \in 1..Len(h) : sum[i] = sum[i - 1] + h[i].busy
  /\ \A i, j \in 0..Len(h) : i <= j => sum[i] <= sum[j]

LEMMA NoSums ==
  ASSUME NEW top \in Nat
  PROVE  \E sum : Sums(<<>>, sum, top)
<1> DEFINE sum == [i \in 0..0 |-> 0]
<1>1. Len(<<>>) = 0 OBVIOUS
<1>2. Sums(<<>>, sum, top)
  BY <1>1 DEF Sums
<1> QED BY <1>2

LEMMA AppendSums ==
  ASSUME NEW h \in Seq(Shares), NEW x \in Shares, NEW sum, NEW top \in Nat,
         NEW next \in Nat, Sums(h, sum, top), top + x.busy <= next
  PROVE  \E s : Sums(Append(h, x), s, next)
<1> DEFINE n == Len(h)
           g == Append(h, x)
           s == [i \in 0..n + 1 |-> IF i <= n THEN sum[i] ELSE sum[n] + x.busy]
<1>1. n \in Nat /\ Len(g) = n + 1 /\ g[n + 1] = x /\ \A i \in 1..n : g[i] = h[i]
  OBVIOUS
<1>2. x.busy \in Nat
  BY DEF Shares
<1>3. \A i \in 0..n : sum[i] \in 0..top
  BY DEF Sums
<1> HIDE DEF n, g
<1>4. ASSUME NEW i \in 0..n + 1 PROVE s[i] \in 0..next /\ s[i] \in Nat
  <2>1. n \in 0..n /\ sum[n] \in 0..top
    BY <1>1, <1>3
  <2>2. CASE i <= n
    <3>1. i \in 0..n /\ s[i] = sum[i]
      BY <1>1, <2>2
    <3>2. sum[i] \in 0..top
      BY <1>3, <3>1
    <3> QED BY <1>2, <3>1, <3>2
  <2>3. CASE ~(i <= n)
    <3>1. s[i] = sum[n] + x.busy
      BY <2>3
    <3> HIDE DEF s
    <3> QED BY <1>2, <2>1, <3>1
  <2> QED BY <2>2, <2>3
<1>5. s[0] = 0 /\ s[n + 1] = sum[n] + x.busy /\ \A i \in 0..n : s[i] = sum[i]
  BY <1>1 DEF Sums
<1>6. \A i \in 1..n + 1 : s[i] = s[i - 1] + g[i].busy
  <2> SUFFICES ASSUME NEW i \in 1..n + 1 PROVE s[i] = s[i - 1] + g[i].busy
    OBVIOUS
  <2>1. CASE i = n + 1
    BY <1>1, <1>5, <2>1
  <2>2. CASE i # n + 1
    <3>1. i \in 1..n /\ i - 1 \in 0..n
      BY <1>1, <2>2
    <3>2. sum[i] = sum[i - 1] + h[i].busy
      BY <3>1 DEF Sums, n
    <3> QED BY <1>1, <1>5, <3>1, <3>2
  <2> QED BY <2>1, <2>2
<1>7. ASSUME NEW i \in 0..n + 1, NEW j \in 0..n + 1, i <= j
      PROVE  s[i] <= s[j]
  <2>1. CASE j <= n
    <3>1. i \in 0..n /\ j \in 0..n BY <1>1, <1>7, <2>1
    <3>2. sum[i] <= sum[j] BY <1>7, <3>1 DEF Sums, n
    <3> QED BY <1>5, <3>1, <3>2
  <2>2. CASE j = n + 1 /\ i <= n
    <3>1. i \in 0..n /\ n \in 0..n BY <1>1, <2>2
    <3>2. sum[i] <= sum[n] BY <3>1, <2>2 DEF Sums, n
    <3>3. sum[i] \in Nat /\ sum[n] \in Nat BY <1>3, <3>1
    <3> QED BY <1>2, <1>5, <2>2, <3>1, <3>2, <3>3
  <2>3. CASE i = n + 1
    <3>1. j = i BY <1>1, <1>7, <2>3
    <3> QED BY <1>4, <3>1
  <2> QED BY <1>1, <1>7, <2>1, <2>2, <2>3
<1>8. s \in [0..n + 1 -> 0..next]
  BY <1>4
<1> HIDE DEF s
<1>9. Sums(g, s, next)
  BY <1>1, <1>5, <1>6, <1>7, <1>8 DEF Sums
<1> QED BY <1>9 DEF g

\* The readings that are dropped take their share with them.
LEMMA LastSums ==
  ASSUME NEW h \in Seq(Shares), h # <<>>, NEW sum, NEW top \in Nat, Sums(h, sum, top)
  PROVE  /\ \E s : Sums(LastReadings(h), s, top)
         /\ Len(LastReadings(h)) <= Window
<1> DEFINE n == Len(h)
           m == IF n > Window THEN n - Window ELSE 0
           g == LastReadings(h)
           s == [i \in 0..n - m |-> sum[i + m] - sum[m]]
<1>1. Window \in Nat /\ Window > 0 /\ n \in Nat /\ n > 0
  BY MonitoringAssumption
<1>2. m \in Nat /\ m < n /\ n - m <= Window
  BY <1>1
<1>3. g = SubSeq(h, m + 1, n)
  BY <1>1 DEF LastReadings
<1> HIDE DEF m
<1>4. Len(g) = n - m /\ \A i \in 1..n - m : g[i] = h[i + m]
  <2>1. m + 1 \in 1..n /\ n \in 1..n BY <1>1, <1>2
  <2>2. Len(g) = n - (m + 1) + 1 /\ \A i \in 1..n - (m + 1) + 1 : g[i] = h[(m + 1) + i - 1]
    <3> HIDE DEF n
    <3> QED BY <1>1, <1>2, <1>3, <2>1, SubSeqProperties DEF n
  <2> QED BY <1>1, <1>2, <2>2
<1> HIDE DEF n, g
<1>5. \A i \in 0..n : sum[i] \in 0..top
  BY DEF Sums, n
<1>6. \A i, j \in 0..n : i <= j => sum[i] <= sum[j]
  BY DEF Sums, n
<1>7. \A i \in 0..n - m : /\ i + m \in 0..n /\ m \in 0..n
                          /\ sum[m] <= sum[i + m] /\ sum[i + m] - sum[m] \in 0..top
  <2> SUFFICES ASSUME NEW i \in 0..n - m
               PROVE  /\ i + m \in 0..n /\ m \in 0..n
                      /\ sum[m] <= sum[i + m] /\ sum[i + m] - sum[m] \in 0..top
    OBVIOUS
  <2>1. i + m \in 0..n /\ m \in 0..n /\ m <= i + m BY <1>1, <1>2
  <2>2. sum[m] <= sum[i + m] /\ sum[m] \in 0..top /\ sum[i + m] \in 0..top
    BY <1>5, <1>6, <2>1
  <2> QED BY <2>1, <2>2
<1>8. s \in [0..n - m -> 0..top] /\ s[0] = 0
  <2>1. 0 \in 0..n - m /\ 0 + m = m /\ sum[m] \in Nat BY <1>1, <1>2, <1>5
  <2>2. s[0] = sum[m] - sum[m] BY <2>1
  <2> QED BY <1>7, <2>1, <2>2
<1>9. ASSUME NEW i \in 1..n - m PROVE s[i] = s[i - 1] + g[i].busy
  <2>1. i + m \in 1..n /\ i \in 0..n - m /\ i - 1 \in 0..n - m /\ (i - 1) + m = (i + m) - 1
          /\ (i + m) - 1 \in 0..n /\ i + m \in 0..n
    BY <1>1, <1>2
  <2>2. sum[i + m] = sum[(i + m) - 1] + h[i + m].busy
    BY <2>1 DEF Sums, n
  <2>3. h[i + m].busy \in Nat
    <3>1. h[i + m] \in Shares BY <2>1 DEF n
    <3> QED BY <3>1 DEF Shares
  <2>4. sum[m] \in Nat /\ sum[(i + m) - 1] \in Nat
    BY <1>5, <1>7, <2>1
  <2>5. s[i] = sum[i + m] - sum[m] /\ s[i - 1] = sum[(i + m) - 1] - sum[m]
    BY <2>1
  <2> QED BY <1>4, <2>2, <2>3, <2>4, <2>5
<1>10. ASSUME NEW i \in 0..n - m, NEW j \in 0..n - m, i <= j
       PROVE  s[i] <= s[j]
  <2>1. i + m \in 0..n /\ j + m \in 0..n /\ i + m <= j + m /\ m \in 0..n
    BY <1>1, <1>2, <1>7, <1>10
  <2>2. sum[i + m] <= sum[j + m] /\ sum[i + m] \in Nat /\ sum[j + m] \in Nat /\ sum[m] \in Nat
    BY <1>5, <1>6, <2>1
  <2> QED BY <2>2
<1> HIDE DEF s
<1>11. Sums(g, s, top)
  BY <1>4, <1>8, <1>9, <1>10 DEF Sums
<1> QED BY <1>2, <1>4, <1>11 DEF g

\* What the readings of a CPU say was counted before the last of them.
SInv ==
  /\ LInv
  /\ \A c \in Cpu :
       /\ load.previous[c].busy <= stat[c].busy
       /\ Len(load.history[c]) <= Window
       /\ \E sum : Sums(load.history[c], sum, load.previous[c].busy)

\* What is said to have been busy of the time between two readings was.
LEMMA UsageBusy ==
  ASSUME NEW previous \in Times, NEW current \in Times,
         previous.busy <= current.busy
  PROVE  previous.busy + CpuUsage(previous, current).busy <= current.busy
BY DEF CpuUsage, Total, Times

LEMMA SampleCpusAdds ==
  ASSUME SInv, SampleCpus
  PROVE  SInv'
<1>1. LInv' BY SampleCpusStep DEF SInv
<1>2. ASSUME NEW c \in Cpu
      PROVE  /\ load'.previous[c].busy <= stat'[c].busy
             /\ Len(load'.history[c]) <= Window
             /\ \E sum : Sums(load'.history[c], sum, load'.previous[c].busy)
  <2> DEFINE old == load.previous[c]
             x   == CpuUsage(old, stat[c])
             h   == load.history[c]
  <2>1. /\ old \in Times /\ stat[c] \in Times /\ stat' = stat /\ old.busy <= stat[c].busy
        /\ old.busy \in Nat /\ stat[c].busy \in Nat /\ h \in Seq(Shares) /\ Len(h) <= Window
    BY DEF SampleCpus, SInv, LInv, Times
  <2>2. PICK sum : Sums(h, sum, old.busy)
    BY DEF SInv
  <2>3. load'.previous[c] = IF stat[c].online THEN stat[c] ELSE old
    BY DEF SampleCpus
  <2>4. CASE Progress(c)
    <3>1. x \in Shares /\ old.busy + x.busy <= stat[c].busy /\ load'.previous[c] = stat[c]
      BY <2>1, <2>3, <2>4, UsageType, UsageBusy DEF Progress
    <3>2. load'.history[c] = LastReadings(Append(h, x))
      BY <2>4 DEF SampleCpus
    <3> HIDE DEF x, h, old
    <3>3. PICK s : Sums(Append(h, x), s, stat[c].busy)
      BY <2>1, <2>2, <3>1, AppendSums
    <3>4. Append(h, x) \in Seq(Shares) /\ Append(h, x) # <<>>
      BY <2>1, <3>1
    <3>5. /\ \E t : Sums(LastReadings(Append(h, x)), t, stat[c].busy)
          /\ Len(LastReadings(Append(h, x))) <= Window
      BY <2>1, <3>3, <3>4, LastSums
    <3> QED BY <2>1, <3>1, <3>2, <3>5
  <2>5. CASE ~Progress(c)
    <3>1. load'.history[c] = h
      BY <2>5 DEF SampleCpus
    <3>2. load'.previous[c].busy \in Nat /\ old.busy <= load'.previous[c].busy
            /\ load'.previous[c].busy <= stat[c].busy
      BY <2>1, <2>3
    <3> HIDE DEF x, h, old
    <3>3. sum \in [0..Len(h) -> 0..load'.previous[c].busy]
      BY <2>1, <2>2, <3>2 DEF Sums
    <3>4. Sums(h, sum, load'.previous[c].busy)
      BY <2>2, <3>3 DEF Sums
    <3> QED BY <2>1, <3>1, <3>2, <3>4
  <2> QED BY <2>4, <2>5
<1> QED BY <1>1, <1>2 DEF SInv

LEMMA CpuRunsAdds ==
  ASSUME SInv, CpuRuns
  PROVE  SInv'
<1>1. LInv' /\ load' = load BY CpuRunsStep DEF SInv, CpuRuns
<1>2. \A c \in Cpu : stat[c] \in Times /\ load.previous[c] \in Times BY DEF SInv, LInv
<1>3. \A c \in Cpu : stat[c].busy <= stat'[c].busy /\ stat'[c].busy \in Nat
  <2> SUFFICES ASSUME NEW c \in Cpu
               PROVE  stat[c].busy <= stat'[c].busy /\ stat'[c].busy \in Nat
    OBVIOUS
  <2>1. stat[c] \in Times /\ stat'[c] \in Times BY <1>1 DEF LInv, SInv
  <2>2. PICK d \in Cpu :
          \/ stat' = [stat EXCEPT ![d].busy = @ + 1]
          \/ stat' = [stat EXCEPT ![d].idle = @ + 1]
          \/ stat' = [stat EXCEPT ![d].idle = @ - 1]
          \/ stat' = [stat EXCEPT ![d].online = ~@]
    BY DEF CpuRuns
  <2>3. stat \in [Cpu -> Times] BY DEF SInv, LInv
  <2>4. stat'[c].busy \in {stat[c].busy, stat[c].busy + 1}
    <3>1. CASE stat' = [stat EXCEPT ![d].busy = @ + 1] BY <2>1, <2>3, <3>1 DEF Times
    <3>2. CASE stat' = [stat EXCEPT ![d].idle = @ + 1] BY <2>1, <2>3, <3>2 DEF Times
    <3>3. CASE stat' = [stat EXCEPT ![d].idle = @ - 1] BY <2>1, <2>3, <3>3 DEF Times
    <3>4. CASE stat' = [stat EXCEPT ![d].online = ~@] BY <2>1, <2>3, <3>4 DEF Times
    <3> QED BY <2>2, <3>1, <3>2, <3>3, <3>4
  <2> QED BY <2>1, <2>4 DEF Times
<1>4. \A c \in Cpu : load.previous[c].busy <= stat'[c].busy
  BY <1>2, <1>3 DEF SInv, Times
<1> QED BY <1>1, <1>4 DEF SInv

LEMMA LoadStartsEmpty ==
  ASSUME LInv, LInv', load' = NoLoad(stat), stat' = stat
  PROVE  SInv'
<1>1. load'.previous = stat /\ load'.history = [c \in Cpu |-> <<>>]
  BY DEF NoLoad
<1>2. ASSUME NEW c \in Cpu
      PROVE  /\ load'.previous[c].busy <= stat'[c].busy
             /\ Len(load'.history[c]) <= Window
             /\ \E sum : Sums(load'.history[c], sum, load'.previous[c].busy)
  <2>1. stat[c].busy \in Nat BY DEF LInv, Times
  <2>2. Len(<<>>) = 0 /\ 0 <= Window BY MonitoringAssumption
  <2> QED BY <1>1, <2>1, <2>2, NoSums
<1> QED BY <1>2 DEF SInv

LEMMA InitSums == Init => SInv
<1> SUFFICES ASSUME Init PROVE SInv
  OBVIOUS
<1>1. LInv BY InitLoads
<1>2. load.previous = stat /\ load.history = [c \in Cpu |-> <<>>]
  BY DEF Init, MonitorInit, NoLoad
<1>3. ASSUME NEW c \in Cpu
      PROVE  /\ load.previous[c].busy <= stat[c].busy
             /\ Len(load.history[c]) <= Window
             /\ \E sum : Sums(load.history[c], sum, load.previous[c].busy)
  <2>1. stat[c].busy \in Nat BY <1>1 DEF LInv, Times
  <2>2. Len(<<>>) = 0 /\ 0 <= Window BY MonitoringAssumption
  <2> QED BY <1>2, <2>1, <2>2, NoSums
<1> QED BY <1>1, <1>3 DEF SInv

LEMMA NextSums == SInv /\ [Next]_vars => SInv'
<1> SUFFICES ASSUME SInv, [Next]_vars PROVE SInv'
  OBVIOUS
<1>1. CASE UNCHANGED cpuVars
  BY <1>1 DEF SInv, LInv, cpuVars
<1>2. CASE HostNext /\ Collectors
  <2>1. CASE load' = NoLoad(stat)
    BY <1>2, <2>1, LoadStarts, LoadStartsEmpty DEF Collectors, SInv
  <2> QED BY <1>1, <1>2, <2>1 DEF Collectors, cpuVars
<1>3. CASE MonitorStep
  <2>1. CASE Cpus
    BY <2>1, CpuRunsAdds, SampleCpusAdds DEF Cpus, SystemSample, ControlSample
  <2> QED BY <1>1, <1>3, <2>1 DEF MonitorStep
<1> QED BY <1>1, <1>2, <1>3 DEF Next, vars, monitorVars

LEMMA SumsInvariant == Spec => []SInv
BY InitSums, NextSums, PTL DEF Spec

\* The readings a load is made of, dropped and added as they are, never say
\* more than the CPU was busy.
THEOREM LoadsAddUpAlways == Spec => []LoadsAddUp
<1>1. SInv => LoadsAddUp
  <2> SUFFICES ASSUME SInv, NEW c \in Cpu
               PROVE  \E sum \in [0..Len(load.history[c]) -> 0..stat[c].busy] :
                        /\ sum[0] = 0
                        /\ \A i \in DOMAIN load.history[c] :
                             sum[i] = sum[i - 1] + load.history[c][i].busy
    BY DEF LoadsAddUp
  <2>1. PICK sum : Sums(load.history[c], sum, load.previous[c].busy)
    BY DEF SInv
  <2>2. load.previous[c].busy \in Nat /\ stat[c].busy \in Nat
          /\ load.previous[c].busy <= stat[c].busy /\ load.history[c] \in Seq(Shares)
    BY DEF SInv, LInv, Times
  <2>3. sum \in [0..Len(load.history[c]) -> 0..stat[c].busy]
    BY <2>1, <2>2 DEF Sums
  <2>4. DOMAIN load.history[c] = 1..Len(load.history[c])
    BY <2>2
  <2> QED BY <2>1, <2>3, <2>4 DEF Sums
<1> QED BY SumsInvariant, <1>1, PTL

\* Rates and loads are of what has happened, whatever comes and goes, is
\* counted anew, taken back or cannot be read in between.
THEOREM FiguresAreMeasured == Spec => []FiguresAreReal
BY RatesAreMeasured, LoadsAreProper, LoadsAddUpAlways, PTL DEF FiguresAreReal

-----------------------------------------------------------------------------
(* Types.                                                                  *)

\* What TypeOK says of the collectors and no other invariant does.
MInv ==
  /\ now \in 0..MaxTime /\ scanned \in [began : 0..now, at : 0..now]
  /\ query \in [Query -> [at : {"idle", "scan", "read", "done"}, asked : 0..now,
                          began : 0..now, shown : 0..now]]
  /\ list.of \subseteq list.named
  /\ device \in [Device -> -1..MaxCount] /\ rates.previous \in [Device -> -1..MaxCount]
  /\ stat \in [Cpu -> [busy : 0..MaxCount, idle : 0..MaxCount, online : BOOLEAN]]

Asking(n) ==
  [at : {"idle", "scan", "read", "done"}, asked : 0..n, began : 0..n, shown : 0..n]

LEMMA InitMonitor == Init => MInv
<1> SUFFICES ASSUME Init PROVE MInv
  OBVIOUS
<1> USE MonitoringAssumption DEF Init, MonitorInit
<1>1. now = 0 /\ 0 \in 0..MaxTime /\ 0 \in 0..0 /\ 0 \in -1..MaxCount /\ 0 \in 0..MaxCount
  OBVIOUS
<1>2. scanned \in [began : 0..now, at : 0..now] BY <1>1 DEF Fresh
<1>3. query \in [Query -> Asking(now)] BY <1>1 DEF NoQuery, Asking
<1>4. list.of \subseteq list.named BY DEF NoList
<1>5. device \in [Device -> -1..MaxCount] /\ rates.previous = device
  BY <1>1 DEF NoRates
<1>6. stat \in [Cpu -> [busy : 0..MaxCount, idle : 0..MaxCount, online : BOOLEAN]]
  BY <1>1
<1> QED BY <1>1, <1>2, <1>3, <1>4, <1>5, <1>6 DEF MInv, Asking

LEMMA SensorTypes ==
  ASSUME MInv, Sensors, now' = now
  PROVE  scanned' \in [began : 0..now, at : 0..now] /\ query' \in [Query -> Asking(now)]
<1>1. PICK q \in Query :
        AskSensors(q) \/ StoreSensors(q) \/ ReadSensors(q) \/ AnswerSensors(q)
  BY DEF Sensors
<1>2. /\ scanned \in [began : 0..now, at : 0..now] /\ query \in [Query -> Asking(now)]
      /\ now \in 0..now /\ 0 \in 0..now /\ query[q] \in Asking(now)
  BY MonitoringAssumption DEF MInv, Asking
<1>3. CASE AskSensors(q)
  <2> DEFINE x == [NoQuery EXCEPT !.at = IF now - scanned.at >= Interval THEN "scan" ELSE "read",
                                  !.asked = now, !.began = now]
  <2>1. x \in Asking(now) BY <1>2 DEF NoQuery, Asking
  <2>2. query' = [query EXCEPT ![q] = x] /\ scanned' = scanned BY <1>3 DEF AskSensors
  <2> HIDE DEF x
  <2> QED BY <1>2, <2>1, <2>2
<1>4. CASE StoreSensors(q)
  <2>1. [query[q] EXCEPT !.at = "read"] \in Asking(now) BY <1>2 DEF Asking
  <2> QED BY <1>2, <1>4, <2>1 DEF StoreSensors, Stamp, Asking
<1>5. CASE ReadSensors(q)
  <2> DEFINE x == [query[q] EXCEPT !.at = "done", !.shown = scanned.began]
  <2>1. x \in Asking(now) BY <1>2 DEF Asking
  <2>2. query' = [query EXCEPT ![q] = x] /\ scanned' = scanned
    BY <1>2, <1>5 DEF ReadSensors, Asking
  <2> HIDE DEF x
  <2> QED BY <1>2, <2>1, <2>2
<1>6. CASE AnswerSensors(q)
  <2>1. NoQuery \in Asking(now) BY <1>2 DEF NoQuery, Asking
  <2> QED BY <1>2, <1>6, <2>1 DEF AnswerSensors
<1> QED BY <1>1, <1>3, <1>4, <1>5, <1>6

LEMMA InterfaceTypes ==
  ASSUME MInv, Listed, Interfaces
  PROVE  list'.of \subseteq list'.named
<1>1. list \in Lists /\ list.of \subseteq list.named BY DEF MInv, Listed
<1>2. CASE list' = list BY <1>1, <1>2
<1>3. CASE list' = [list EXCEPT !.shown = now]
  BY <1>1, <1>3 DEF Lists
<1>4. CASE FailList
  BY <1>1, <1>4 DEF Lists, FailList
<1>5. CASE ShowInterfaces
  BY <1>1, <1>5 DEF Lists, ShowInterfaces
<1>6. ASSUME NEW i, NameInterface(i) PROVE list'.of \subseteq list'.named
  BY <1>1, <1>6 DEF Lists, NameInterface
<1> QED BY <1>2, <1>3, <1>4, <1>5, <1>6
        DEF Interfaces, RouterChanges, AskInterfaces, ReadList

LEMMA RateTypes ==
  ASSUME MInv, RInv, Rates
  PROVE  device' \in [Device -> -1..MaxCount] /\ rates'.previous \in [Device -> -1..MaxCount]
<1>1. /\ device \in [Device -> -1..MaxCount] /\ rates.previous \in [Device -> -1..MaxCount]
      /\ -1 \in -1..MaxCount /\ 0 \in -1..MaxCount
  BY MonitoringAssumption DEF MInv
<1>2. CASE Kernel
  <2>1. \A d \in Device : device[d] # MaxCount => device[d] + 1 \in -1..MaxCount
    BY <1>1, MonitoringAssumption
  <2> QED BY <1>1, <1>2, <2>1 DEF Kernel, Gone
<1>3. CASE Sample
  BY <1>1, <1>3 DEF Sample, Readings, Previous, Gone
<1> QED BY <1>2, <1>3 DEF Rates, NetworkSample, StorageSample

LEMMA CpuTypes ==
  ASSUME MInv, Cpus
  PROVE  stat' \in [Cpu -> [busy : 0..MaxCount, idle : 0..MaxCount, online : BOOLEAN]]
<1> DEFINE T == [busy : 0..MaxCount, idle : 0..MaxCount, online : BOOLEAN]
<1>1. stat \in [Cpu -> T] BY DEF MInv
<1>2. CASE CpuRuns
  <2>1. PICK c \in Cpu :
          \/ stat[c].busy < MaxCount /\ stat' = [stat EXCEPT ![c].busy = @ + 1]
          \/ stat[c].idle < MaxCount /\ stat' = [stat EXCEPT ![c].idle = @ + 1]
          \/ stat[c].idle > 0 /\ stat' = [stat EXCEPT ![c].idle = @ - 1]
          \/ stat' = [stat EXCEPT ![c].online = ~@]
    BY <1>2 DEF CpuRuns
  <2>2. stat[c] \in T BY <1>1
  <2>3. CASE stat[c].busy < MaxCount /\ stat' = [stat EXCEPT ![c].busy = @ + 1]
    <3>1. stat[c].busy + 1 \in 0..MaxCount BY <2>2, <2>3, MonitoringAssumption
    <3> QED BY <1>1, <2>2, <2>3, <3>1
  <2>4. CASE stat[c].idle < MaxCount /\ stat' = [stat EXCEPT ![c].idle = @ + 1]
    <3>1. stat[c].idle + 1 \in 0..MaxCount BY <2>2, <2>4, MonitoringAssumption
    <3> QED BY <1>1, <2>2, <2>4, <3>1
  <2>5. CASE stat[c].idle > 0 /\ stat' = [stat EXCEPT ![c].idle = @ - 1]
    <3>1. stat[c].idle - 1 \in 0..MaxCount BY <2>2, <2>5, MonitoringAssumption
    <3> QED BY <1>1, <2>2, <2>5, <3>1
  <2>6. CASE stat' = [stat EXCEPT ![c].online = ~@]
    BY <1>1, <2>2, <2>6
  <2> QED BY <2>1, <2>3, <2>4, <2>5, <2>6
<1>3. CASE SampleCpus BY <1>1, <1>3 DEF SampleCpus
<1> QED BY <1>2, <1>3 DEF Cpus, SystemSample, ControlSample

LEMMA TickTypes ==
  ASSUME MInv, Tick
  PROVE  /\ now' \in 0..MaxTime /\ scanned' \in [began : 0..now', at : 0..now']
         /\ query' \in [Query -> Asking(now')] /\ list' = list
<1>1. now \in Nat /\ now' = now + 1 /\ now' \in 0..MaxTime /\ \A n \in 0..now : n \in 0..now'
  BY MonitoringAssumption DEF Tick, MInv
<1>2. \A x \in Asking(now) : x \in Asking(now') BY <1>1 DEF Asking
<1>3. scanned' \in [began : 0..now', at : 0..now'] BY <1>1 DEF Tick, MInv, sensorVars
<1>4. query' = query /\ query \in [Query -> Asking(now)] /\ list' = list
  BY DEF Tick, MInv, Asking, sensorVars, listVars
<1> QED BY <1>1, <1>2, <1>3, <1>4

LEMMA NextMonitor == MInv /\ CInv /\ RInv /\ [Next]_vars => MInv'
<1> SUFFICES ASSUME MInv, CInv, RInv, [Next]_vars PROVE MInv'
  OBVIOUS
<1>1. CASE UNCHANGED <<now, scanned, query, list, device, rates, stat>>
  BY <1>1 DEF MInv
<1>2. CASE HostNext /\ Collectors
  <2>1. now' = now /\ device' = device /\ stat' = stat BY <1>2 DEF Collectors
  <2>2. now \in 0..now /\ 0 \in 0..now BY MonitoringAssumption DEF MInv
  <2>3. scanned' \in [began : 0..now, at : 0..now]
    BY <1>2, <2>2 DEF Collectors, Fresh, MInv
  <2>4. query' \in [Query -> Asking(now)]
    BY <1>2, <2>2 DEF Collectors, NoQuery, Asking, MInv
  <2>5. list'.of \subseteq list'.named
    BY <1>2 DEF Collectors, NoList, MInv
  <2>6. rates'.previous \in [Device -> -1..MaxCount]
    <3>1. \A first \in Readings : first \in [Device -> -1..MaxCount]
      BY MonitoringAssumption DEF Readings, MInv, Gone
    <3>2. \A first : NoRates(first).previous = first BY DEF NoRates
    <3> QED BY <1>2, <3>1, <3>2 DEF Collectors, MInv
  <2> QED BY <2>1, <2>3, <2>4, <2>5, <2>6 DEF MInv, Asking
<1>3. CASE MonitorStep
  <2>1. CASE Sensors /\ UNCHANGED <<now, listVars, rateVars, cpuVars>>
    BY <2>1, SensorTypes DEF MInv, Asking, listVars, rateVars, cpuVars
  <2>2. CASE Interfaces /\ UNCHANGED <<now, sensorVars, rateVars, cpuVars>>
    BY <2>2, InterfaceTypes DEF MInv, CInv, sensorVars, rateVars, cpuVars
  <2>3. CASE Tick /\ UNCHANGED <<rateVars, cpuVars>>
    BY <2>3, TickTypes DEF MInv, Asking, rateVars, cpuVars
  <2>4. CASE Rates /\ UNCHANGED <<now, sensorVars, listVars, cpuVars>>
    BY <2>4, RateTypes DEF MInv, sensorVars, listVars, cpuVars
  <2>5. CASE Cpus /\ UNCHANGED <<now, sensorVars, listVars, rateVars>>
    BY <2>5, CpuTypes DEF MInv, sensorVars, listVars, rateVars
  <2> QED BY <1>3, <2>1, <2>2, <2>3, <2>4, <2>5 DEF MonitorStep
<1> QED BY <1>1, <1>2, <1>3
        DEF Next, vars, monitorVars, sensorVars, listVars, rateVars, cpuVars

LEMMA MonitorInvariant == Spec => [](MInv /\ CInv /\ RInv)
<1>1. Init => MInv /\ CInv /\ RInv BY InitMonitor, InitCollectors, InitRates
<1>2. MInv /\ CInv /\ RInv /\ [Next]_vars => (MInv /\ CInv /\ RInv)'
  BY NextMonitor, NextCollectors, NextRates
<1> QED BY <1>1, <1>2, PTL DEF Spec

\* Core, the host and the collectors keep their types: no time lies ahead, a
\* module that does not run has no requests, and no CPU more readings than its
\* load is averaged over.
THEOREM TypeCorrect == Spec => []TypeOK
<1>1. AuthTypeOK /\ HostTypeOK /\ MInv /\ CInv /\ SInv => TypeOK
  <2> SUFFICES ASSUME AuthTypeOK, HostTypeOK, MInv, CInv, SInv PROVE TypeOK
    OBVIOUS
  <2>1. proc = Stopped => \A q \in Query : query[q] = NoQuery BY DEF CInv, Scanned
  <2>2. router \subseteq Interface BY DEF CInv, Listed
  <2>3. \A c \in Cpu : Len(load.history[c]) <= Window BY DEF SInv
  <2>4. /\ scan.at \in {"idle", "list", "names"} /\ scan.todo \subseteq scan.found
        /\ scan.at # "idle" => proc # Stopped /\ scan.read <= now /\ now <= scan.due
    BY NoScanType DEF CInv, Scanning, Scans
  <2> QED BY <2>1, <2>2, <2>3, <2>4 DEF MInv, TypeOK
<1>2. Spec => []AuthTypeOK BY ImplementsAuth, AuthTypeCorrect, PTL
<1> QED BY <1>1, <1>2, HostTypeCorrect, MonitorInvariant, SumsInvariant, PTL
=============================================================================
