# RouterForge: a verification project

TLA+ modules that model the parts of RouterForge whose correctness depends on
the order of events, the TLC configurations that check them on small instances,
and TLAPS proofs that carry the most important results over to every instance.
Paths are relative to the repository's root.

## 1. The system and its parts

RouterForge runs on Keenetic routers (Entware). A small Core serves the web UI
and the Marketplace; modules are separate packages, each with a process of its
own behind a unix socket; the router's own management system (NDMS) is reached
through its local HTTP interface (RCI).

| Part | Where | State | Operations | What makes it hard |
|---|---|---|---|---|
| DNS Control | `modules/dns/runtime/dns_control.go`, `dns_rci.go`, `dns_module_server.go` | none in memory but a mutex; the router's DNS sections; `dns-disabled.json` | Create, Update, Delete, Disable, Enable, List, Preview | a mutation is 10-20 RCI calls; any of them fails, is cut off with the client's connection, or is ignored by NDMS; other administrators write the same sections; rollback |
| DNS traffic store | `stats.go`, `health.go`, `capture_linux.go` | counters per resolver, pending and timed out queries, a ring of 1440 minutes, health | RecordQuery, RecordResponse, CleanupTransient, UpdateDiscovery, SetHealth | packets late, repeated, lost; keys reused; four threads; the ring wraps |
| Client outcomes | `clients_stats.go`, `client_capture_linux.go`, `client_registry.go` | client counters, open client queries | RecordClientQuery, RecordClientResponse, matching, UpdateClientRegistry | two capture threads see one query in either order |
| Plain DNS tracker | `plain_dns.go`, `plain_dns_nameserver.go` | resolvers, pending, marks of direct client queries | UpdateResolvers, ObserveDirectClientQuery, RecordQuery, RecordResponse, Sweep | duplicates, NAT copies, removed resolvers |
| Discovery, policies, diagnostics | `discovery.go`, `routing_discovery.go`, `dns_policy.go`, `diagnostics.go`, `profiling` | what the store holds | loops that poll NDMS or probe and replace a part of the store | results older than the state they are applied to |
| Release and registry indexes | `components/core/routerforge_release.go`, `routerforge_registry.go` | a document, a cache file, a refreshing flag | snapshot, background refresh, forced refresh | single flight, waiting with a limit, failed fetches |
| Catalog and Marketplace actions | `catalog.go`, `marketplace_install.go`, `marketplace_install_http.go` | packages installed by opkg, a mutex | plan, install, update, remove | checks before and after a package manager that can fail half way |
| Authentication | `auth.go`, `auth_crypt.go`, `web.go` | sessions, failed attempts, the setting and its file | login, logout, settings, every request, the SSE stream | two changes share a temporary file; streams outlive the request that was let in |
| Module proxy | `module_proxy.go`, `admin_proxy.go`, `ModuleFrame.svelte`, `modules/dns/packaging` | none in Core; a socket's file, the page's timers, the package script's loop | forwards to a module's socket; page and script ask until it is ready | a module that is installed, updated or crashes between any two steps |
| Monitoring runtime | `modules/monitoring-runtime` | last samples of counters, a cache of sensors, a list of interfaces | read-only telemetry with rates | scans of concurrent requests without a lock; counters that start anew, devices that come and go |
| Control helper | `components/control/main.go` | last readings of each CPU | read-only router queries for the UI | as above |
| Web UI, scripts, packaging | `components/core/frontend`, `modules/dns/frontend`, `scripts`, `marketplace` | - | - | - |

How they interact: the browser talks to the Core only. The Core forwards
`/api/modules/dns/...` to the DNS runtime's socket with the browser's request
context, so a closed connection cancels the module's work. The DNS runtime's
threads (two packet captures, the cleanup ticker, discovery, health,
diagnostics, the HTTP handlers) share one store under one lock; DNS Control has
a mutex of its own, held over a whole mutation.

## 2. DNS Control

### Modules

* `DNSControl` is the mutation engine. One request at a time owns the manager's
  mutex: `phase` says what it does next, `req`, `store`, `snap`, `desired`,
  `before` are its locals, and each action is one RCI call, one write of
  `dns-disabled.json` or one decision between two of them. A snapshot
  (`loadState`) is two reads, `GetProxy` and the action that consumes the
  second one; the third read of the code only feeds the display of dynamic
  resolvers.
* `ResolverCatalog` is what a client of the API is promised: a catalog edited
  atomically.
* `MCDNSControl` gives the constants values; `DNSControlProofs` holds the
  theorems.

| Code | Model |
|---|---|
| `Create`, `Update`, `Delete`, `Disable`, `Enable` | actions of the same names, after `Begin` and the first snapshot |
| `applyMutation` | `ApplyMutation`, `Baseline`, `Verify`, `Abandon` |
| `writeProtocols`, `restoreProtocols`, `replaceProtocol` | `ClearSection`, `PostSection`, `Save` with `Target` = desired or before |
| `reconcilePlainDNS`, `protocolEntryDelta` | `Removals`, `Additions`, `DeletePlain`, `PostPlain` |
| `verifyProtocols` | `Matches`, in `Verify` and `Recheck` |
| `loadDisabled`, `saveDisabled` | `store`, `SaveFile`, `SaveMetadata`, `ReturnError` |
| an RCI error, a timeout, a cancelled context | `CallFails`, `Abandon` |

What is abstracted. A section is a set of entries, so two identical physical
entries are one (the delta of the code works on bags). The identity of a
resolver and its protocol are functions of the entry. Requests that fail
validation before any call are not modelled. The names of dynamic resolvers
are refused like unknown ones. An unreadable disabled file ends a request like
a failed read. The reads of `/show/sc/...` return the live configuration,
including what has not been saved: the rollback depends on it, since it reads
the plain section again after an unsaved partial write. A call either takes
effect before its caller learns of an error, or never. A closed connection is
noticed by the call it cuts off. Whether the plain section can be read is a
constant of the firmware.

### Runs

| Run | Instance | What it shows |
|---|---|---|
| `control_rollback` | two DoT resolvers (one with two entries), one plain; failing, dropped and cut-off calls | `OkIsInstalled`, `RolledBackIsBefore`, `Undisturbed`, and `ImplementsCatalog`: every request is one atomic edit, none, or an admitted failure |
| `control_outside` | three instances: crashes and reboots with a plain neighbour, the same with a DoH neighbour and dropped calls, and another administrator who writes between any two calls | no save makes a half-written section permanent; Enable never drops the only copy; other sections stay; plain entries that administrator added survive an OK; a request that holds the mutex ends |
| `control_hangup` | the client hangs up | **violated**: the rollback runs with the cancelled context, the section stays empty (`docs/MODULES.md:148` promises a restore) |
| `control_overwrite` | another administrator, no faults | **violated**: an entry saved after the second snapshot is overwritten, against the comment at `dns_control.go:474` |

A member of `Scenarios` says what is installed at first and what may go
wrong in a behaviour: failed, dropped and cut-off calls, crashes, reboots,
another administrator. One is chosen in `Init`.

Bounds. Three or four entries with two per section are enough for a neighbour
in the section being rewritten, a resolver of several entries, and a section at
`SlotLimit` (2 instead of 8). Requests follow one another without bound.

Fairness. `FairSpec` asks for weak fairness of `Step`, the steps of the request
that holds the mutex: every RCI call ends within the client's 20 seconds
(`dns_rci.go:41`) and the rest is local. Nothing is assumed of administrators,
crashes or new requests.

### Proofs

`TypeCorrect` and `OthersUntouched` hold for every value of the constants.
`OthersUntouched` needs the inductive invariant `OwnSections`: what is still to
be written, cleared or removed belongs to the request's own sections.

`AlwaysUndisturbed`, `OkInstalled` and `RolledBackUndone` hold for every value
of the constants in which no scenario has another administrator
(`OnlyWriter`), through faults, drops, hang-ups, crashes and reboots.
`Undisturbed` is the inductive strengthening: the half of a snapshot in hand is
the router's, the file is the one that was read, and from
the save to the return the saved configuration is the live one. The readback
then carries over to the return. With another administrator the first conjunct
is false, and `control_overwrite` shows what is lost.

`SavesAreWhole` and `EnableLosesNothing` hold for every value of the constants:
the properties themselves speak of the behaviours without another
administrator (`SavesWholeSections` also without dropped calls). The first
needs `WriteSoFar`: a secure section the request is through with is the
target's, the one it has cleared is empty, and the plain entries it believes
installed are installed. The second needs that the file keeps under a resolver
only entries of that resolver (`OwnEntries`) and that an Enable under way wants
at least what the file keeps (`Enabling`). `AdminEntriesKept` allows everything
the model has; `OthersKept` says that until it rolls back a request has no plain
entry to remove but its own.

`RequestsAreAtomic` is the refinement of `ResolverCatalog`, for the scenarios
without another administrator, crashes and reboots (`Calm`). Its invariant,
`Atomic`, adds to the ones above that from the decision to the return the
snapshot is the catalog as the client sees it and the plan is the abstract edit
of that snapshot (`Decided`). The abstract edit happens in the step that
answers OK; every other step stutters, declines or, when the rollback failed,
tears the request's own sections.

`RequestsEnd` is checked by TLC only (liveness is out of the prover's reach).

## 3. The DNS traffic store

### The side of the resolvers

`ResolverStats` models the resolver side of `Store`. Time is counted in ticks;
the capture thread stamps a packet and finds its port (`CaptureQuery`,
`CaptureReply`), then takes the lock again to record it (`RecordQuery` and the
four outcomes of `RecordResponse`); the ticker's `CleanupTransient`,
`UpdateDiscovery`, the health rounds (`StartProbes`, `CheckOne`) and those of
the diagnoses (`StartDiagnoses`, `DiagnoseUpstream`) come in between. Every port
lies in the range 40500-40999 that the capture accepts without discovery.

A diagnosis chooses the resolvers that are `DOWN` under the lock, probes them
without it for up to a minute and stores its result under it again. What the
probes find is a function of what is broken (`fault`): the resolver, its own
route, the default route or the router's proxy, which `FaultMoves` breaks and
heals meanwhile. `History` is the graph: a point sums the minutes of its step.

`asked`, `verdict`, `alert` and `gone` are history variables.

### The side of the clients

`ClientStats` extends it by the second capture thread. `ClientAsks` and
`ClientIsAnswered` are what the devices and the router's DNS proxy do; their
packets wait in `inbox` until `RecordClientQuery` or `RecordClientResponse`
takes them, while the first thread records the upstream query a client's query
has caused, before or after it. `Match` is `matchClientLocked`, and
`Handover` the fallback's change of the link. `UpdateClientRegistry` replaces
what the router says of its addresses, while queries are open. `CleanupAll` is
the whole of `CleanupTransient`.

Left out on both sides: latencies, domain counts, fallback edges by pair, error
bursts, the flow and event rings (what is only shown), and the transport, which
is a part of every key and separates what it separates.

### Runs

| Run | What it shows |
|---|---|
| `stats_all` | see below, in nine scenarios: fallbacks between two resolvers with lost, late and repeated packets; resolvers that come and go under pending queries; probes with live answers and rediscovery; a time in which the ring wraps; diagnoses of a resolver whose fault moves; and with clients: two queries with one to a resolver, one while the registry changes, two that are only answered, one with a fallback |
| `stats_late` | **violated**: a key used again within a minute of a timeout makes the fresh answer late (`stats.go:382`) |

`Accounted` joins three balances. `CohortBalance`: in each minute of the ring,
what was asked then is what was answered, failed, timed out or is pending.
`LateBalance`: while the set of resolvers stays the same, no minute shows more
late answers than timeouts. `OneVerdict`: no query is counted both as answered
and as timed out.
`DevicesAccounted` joins `ClientBalance` (a device's queries are what was
answered, timed out or waits) and `Blame` (it is not charged with more failures
of resolvers than queries were put down to it). `LocalMeansLocal` is about the
matching: a query that no other resembles and whose upstream query was seen is
not shown as answered from the cache. `CauseIsRecent`: once a resolver
has been `DOWN` for longer than a diagnosis may take to come, it has a cause,
and one that was there not long ago (`DiagKeep`, and a round that begins when
its ticker is due or when the round before it is done, whichever is later).
`WindowExact`, `AllPrompt` and `DownIsAnnounced` are about the graphs, about
what is kept, and about alerts.

A scenario is a record of what may happen in a behaviour and how much of it.
`scenario` is chosen by `Init` and never changes, so one run checks several
small instances, each as large as its own question needs.

Bounds. A scenario's `time`, `queries`, `replies`, `clients`, `answers` and
`breaks` end a behaviour; that of the ring runs for 12 ticks with five minutes
of two ticks, the others for 3 to 8. The limits of the code keep their order,
not their ratios: fallback window <= recent names <= timeout < ring; and for
clients, copies <= links <= timeout < the age up to which an answer counts.
`StatsAssumption` states the one relation that matters, that a query is
forgotten, and is no longer the source of a fallback, long before its minute
leaves the ring (9 seconds and a minute against 24 hours). `Tick` assumes that the ticker is not late by more than a
period and that a stamped packet is recorded within a tick.

`Mut...` definitions are slips of the definition that follows them. They are
not part of a specification; each is what one of the properties is there to
notice.

### Proofs

`ResolverStatsProofs` and `ClientStatsProofs` prove every property of
`stats_all`, for any resolvers, devices, tags, limits and scenarios that the
assumptions allow.  The counters of a bucket are a function of their names, and
what is remembered of recent names is a set of queries, so that a step of the
code is one operator (`Bump`, `Opened`, `FallbackSource`) about which a lemma
can be stated.  `Base` joins what every argument starts from: types, finite
sets, the clock, and the ages of what is kept (`Ages`, which gives `Prompt`).

* `Traced`: what the store keeps of a query is true of it.  A pending query has
  been counted as a request of its minute and as nothing else.  This gives
  `OneVerdict`.
* `Books`: the account of each minute and resolver, as cardinalities of the
  sets of queries that are pending or timed out.  Every bucket that such a
  query belongs to is still the bucket of its minute (`Holds`): that is what the
  assumption about the ring is for.  Without churn the late answers are covered
  by the timeouts that are still remembered (`LateCovers`).
* `Shows`: a bucket's requests are the queries asked in its minute, and no query
  is of a minute whose bucket holds an older one.  A window or a point of the
  graph adds up buckets, and the sum is the number of queries by gluing
  bijections together (`CountedByClass`, `MinutesAddUp`); no induction over the
  sum is needed.
* `Heralded`: a resolver that is `DOWN` has failed a probe and has had no good
  answer within the `Shield`.
* `CausesInv`: a cause that is shown was the case when it was found
  (`Truthful`), and a resolver that fell before the running round is being
  diagnosed in it or was in the last (`Diagnosable`).

`ClientsAddOn` states that the client side only adds to the resolver side
(`ClientSpec => Spec`), by which all of this holds of the whole store.
`ClientAges` bounds the ages on the client's side.  `Balanced` and `Blamed` are
the two balances of a device with the queries that still wait or are still
linked to one of a resolver.  For `LocalMeansLocal`, `Origins` says that
everything held of a query is true of it, `Recalled` that a query is remembered
for as long as it may be matched, and `LinkedInTime` that one which nothing
resembles is linked as soon as the query it caused is recorded.

## 4. The plain DNS tracker

`PlainDNS` models `plainDNSTracker`. Its environment is explicit: `asked` holds
every query the router or a client has sent and how often its frame has been
seen. A client's query is marked as it comes in (`ClientAsks`,
`ObserveDirectClientQuery`) and may go out within `Transit`; each frame that
leaves is offered to `RecordQuery`, which spends a mark, ignores a duplicate or
counts. `RecordResponse`, `Sweep` and `UpdateResolvers` are the code's methods.
The tracker's mutex makes each of them one step. Latencies, rates and the
names of the resolvers are left out; UDP and TCP share nothing.

| Run | What it shows |
|---|---|
| `plain_all` | `Balance` and `Prompt` while frames are lost, seen twice and resolvers come and go; `OwnWhenSeenOnce`: the marks keep the clients' queries out of the router's count as long as every frame is captured once |
| `plain_twice` | **violated**: a client's frame captured twice on its way out spends two marks or none, and a client's query is counted as the router's, against the comment of `ObserveDirectClientQuery` |

Bounds. Two local ports share a resolver and three queries are sent in
`plain_all`'s first scenario: two clients and the router with the same id and
question, or one key used again. The second has two resolvers and two queries.

Proved for any resolvers, ports, limits and scenarios (`PlainDNSProofs`):
`TypeCorrect`, `AlwaysBalanced`, `AlwaysPrompt` and `OwnAlways`. `Balance` needs
that every open query is of a resolver that is known (`Owned`), or one that
comes back with fresh counters would be charged with old queries; `Prompt` needs
that nothing that is open was overdue when the ticker last ran, and the ticker
to be on time (`Steady`).

`OwnWhenSeenOnce` is not about single queries: a query of the router with the id
and question of a client's may spend the client's mark, and the client's is then
counted in its place. The invariant `Attributed` therefore says that there is a
set of clients' queries that may yet be counted (`U` in `Covers`): each of the
others has a mark left, and to every resolver at least as many of the router's
queries have gone uncounted as `U` has queries to it. A mark is as young as the
youngest query that set it (`Fresh`), and the router passes a query on within
`Transit`, before its mark is too old (`Transit <= Suppress`).

## 5. The registry and release indexes

`IndexRefresh` models one index; the registry and the release index are the
same code with other constants. Documents are numbered in the order they are
published, and all URLs serve the newest one. `fetches` holds the refreshes
under way as goroutines outside the lock, so a second one is a state of the
model, not excluded by it.

| Code | Model |
|---|---|
| `...Snapshot` | `Snapshot` in `ReadCatalog` and `ForceFirst` |
| `forceRefresh...` | `ForceRefresh`, `ForceFirst`, `OwnReturns` |
| `wait...Refresh` | `WaitReturns` |
| `refresh...` | `FetchAnswers`, `FetchFails`, `SaveCache`, `FetchEnds` |

| Run | What it shows |
|---|---|
| `refresh_all` | `SingleFlight`, `NeverOlder` through restarts and failed saves; `AnswersUnlessFallback`: a forced refresh is answered with its result unless that took a second URL; `ForceReturns` |
| `refresh_wait` | **violated**: with two URLs the wait (8 s, 10 s) ends before the refresh it has joined (2 x 6 s, 2 x 8 s), though `docs/INSTALLATION.md` says it waits for the result |

Bounds: two callers, two URLs, two documents, a tick of two seconds, so that
`Attempt` = 3 and `Wait` = 4 keep the code's relation of one attempt < wait <
two attempts. `MaxRefreshes` and `MaxTime` end a behaviour, which is why
deadlock is not checked. Fairness: an HTTP attempt ends by its client's
timeout, and goroutines are scheduled; nothing is assumed of the repository.

Proved for every value of the constants: `TypeCorrect`, `OneRefresh`,
`DocumentsAge` and `AnswersInTime`. The invariant `IInv` adds to `SingleFlight`
that nothing is newer than what is published and that a document about to be
saved or installed is not older than the cache and the document in use; it holds
only because nobody else installs a document meanwhile, which is why the two are
proved together. `JInv` adds what a waiting caller has joined (`Joined`): the
refresh it needs is the latest one or an earlier one that has ended, and while
that one is at its first URL it ends before the caller's deadline, because an
attempt is shorter than the wait.

## 6. Marketplace actions

`PackageActions` models a request from `runCatalogHTTPAction` to its answer,
the opkg it starts, the package scripts opkg runs, and what outlives an opkg.

| Code | Model |
|---|---|
| `runCatalogHTTPAction` | `Post`, `Expire` (180 s, or the client hangs up) |
| `runCatalogModuleAction` | `Enter`, `Check`, `Answer`; `holder` is `marketplaceInstallMu` |
| `readCatalog`, `deriveCatalogActions` | `VersionShown`, `Installed`, `UpdateAvailable`, `Allowed` |
| `runRouterForgeReleasePlan`, `downloadVerifiedAsset` | `Download`, `Downloaded`, `StartOpkg`, `Cleaned` |
| `runStructuredCatalogPlan`, `executeStructuredStep` | `Conflicts`, `WriteFeed`, `StartOpkg`, `Advance`, `Fail` |
| `runDirectOpkgPlan` | `StartOpkg`, `Ran` |
| `exec.CommandContext`: the process | `Killed`, `Kill` |
| `CombinedOutput`: the pipe | `left`, `Ran` |
| `packaging/prerm`, `packaging/postinst` | `Prerm`, `Postinst`, `ScriptEnds` |

opkg is external: it has one lock, runs `prerm`, unpacks, runs `postinst`,
then commits its database; it may fail, hang, or be killed at every point, and
leaves the package as it was or uninstalled. `prerm` of Core removes the marker
`module-abi-v1` and stops Core, `postinst` starts it; the scripts of Profiling
restart it. The requests die with Core, the opkg they have started does not.

A request waits for more than its opkg. The three calls of
`exec.CommandContext(...).CombinedOutput()` (`marketplace_install.go:290`,
`:319`, `:398`) set neither `WaitDelay` nor a process group: the context kills
opkg alone, and the call returns when every process that holds the pipe for the
output has closed it, the package scripts and the programs opkg has started
included. `left` has what outlives the opkg that started it: a script of Core or
of a package that restarts Core, which may still do what it was about to do
(`ScriptEnds`), or anything else ("rest"). `Ran`, with which a request goes on
and the mutex moves on, has to wait until nothing is left of its opkg. opkg's own
lock goes with opkg's process.

What is abstracted. An item has one package of its name. Versions are numbers;
the release index is known and only moves forward. opkg finds one of `Feed`'s
versions in its feeds; `opkg update` is an opkg (verb "lists") that changes no
package. Of what outlives an opkg one process is kept, the last to let go of the
output. The catalog is read in one step. A missing marker, an unknown item and a missing confirmation are one
refusal. Several download URLs are one download that arrives or does not. A
file is known by its item and version. A request is posted once in the life of
a process.

| Run | What it shows |
|---|---|
| `packages_all` | in four scenarios (Core and Profiling; a module with new releases and an administrator; the installation of nfqws2; its update and removal with a conflicting package): `InstallsVerified`, `DnsRepairable`, `OkIsDone`, `SwapsDownloader`, `ActionsEnd` |

Bounds: two requests, so that one waits for the mutex while the other works;
three versions, so that a release can come out between the plan and the check.
Fairness: the time of a request runs out, and what Core does itself ends. opkg
may hang for good, and so may whatever it has started. A hang of opkg itself is
ended by the context; a hang of a script or of a download program is not, and
holds the request and `marketplaceInstallMu` as long as it lasts. `ActionsEnd`
therefore has a hypothesis: again and again, no request waits for something its
opkg has left. Without it the property is false of the code.

`DnsRepairable` has a case it does not speak of: a `prerm` of Core whose opkg was
killed hangs, an administrator's opkg restarts Core, the restarted Core is updated
in another attempt, and only then the old `prerm` stops it and removes the
marker.

Proved for every value of the constants: `TypeCorrect`, `OpkgReadsVerified`,
`SuccessIsDone`, `ExchangesAreSafe` and, if no manifest has a step about Core's
package (`OnlyCoresPlan`) and no administrator restarts Core by hand through a
package's scripts (`NoRestartByHand`), `AlwaysRepairable`. The invariant of the first two: an opkg
that a request waits for was started by it for its own item and version, its file is there, and nobody else is past the check. The
last part is the mutual exclusion; without it another request could rewrite
the file. An opkg left over by a restart of Core waits for nobody and is not
covered: a new request for the same release may rewrite the file it reads.

`SuccessIsDone` needs that the release Core is updated to is never the one that
runs (`Outdated`): only a new process could see it, and the request dies with
the old one. `AlwaysRepairable` needs that a Core without its marker is older
than its release (`Repair`): the process is of the version on the disk, which is
no newer than the release, and an update that stops Core brings a newer one.
That fails only where opkg has lost Core's entry, and then no `prerm` runs and
the marker stays. A script that comes to life after its opkg must not undo this
(`Strays`): while a request waits for it no plan goes on, so that the opkg that
runs, if any, is an administrator's, and a `prerm` of Core that is left stops a
process older than the release.

`Swap` names the pairs of packages that a plan exchanges, in the embedded
manifests `wget-nossl` for `wget-ssl`. `SwapAssumption` says of the plans that
they touch the old package only after a step that brings the new one or ends the
plan, and of the administrator that he leaves both alone. `ExchangesAreSafe`
(`SwapsDownloader`) then needs that what a plan has brought stays while the plan
goes on, as only its request may start an opkg (`Brought`, `There`); and that an
opkg which touches the old package finds the new one even when its request has
died with Core (`Exchanges`).

## 7. Authentication, modules and monitoring

### Modules

Three modules, each extending the one before.

* `AuthSettings` is Core's optional authentication (`auth.go`, and the event
  stream of `web.go`). A change of the setting is a series of steps: the check,
  opening the temporary file, writing, chmod, rename, the memory, the session.
  Two changes share `security.json.tmp`; `on` says which file a change has open
  once another has moved or unlinked it. Each of the steps may fail.
* `ModuleHost` puts one module behind that: its process and socket, the proxy's
  choice of a socket, its call and its answer without one, the page in its
  frame, and the module's package scripts as opkg runs them. Every request
  passes the middleware.
* `Monitoring` adds what the monitoring modules and Control collect, which
  lives as long as the module's process does: Thermal's cache, Network's list
  of the router's interfaces and its reading, the rates of Network and Storage, the loads of System and
  Control.

| Code | Model |
|---|---|
| `handleConfig`, `saveConfig` | `Ask`, `Check`, `Open`, `Write`, `Chmod`, `Rename`, `Discard`, `Apply`, `Settle` |
| `handleLogin`, `handleLogout`, `sessionUser` | `Check`, `CreateSession`, `ClearSession`, `Expire` |
| `newAuthManager` | `Loaded`, in `CoreStarts` |
| `/api/events` | `Connect`, `CheckStream`, `Send`, `NextEvent`, `Disconnect` |
| `proxyModuleAPI`, `moduleUnavailable` | `Request`, `Dial`, `LookUp` |
| `authLoopbackModuleHealth` | `Public` |
| `ModuleFrame.svelte`, `moduleReconnectHTML` | `Timer`, `Asks`, `Receive`, `Navigate` |
| `packaging/prerm`, `packaging/postinst` of DNS | `Prerm`, `Stop`, `StartService`, `AsksHealth`, `Answered` |
| `thermalCollector` | `AskSensors`, `StoreSensors`, `ReadSensors`, `AnswerSensors` |
| `keeneticSnapshot` | `AskInterfaces`, `FailList`, `ReadList`, `NameInterface`, `ShowInterfaces` |
| `networkCollector`, `storageCollector` | `NetworkSample`, `StorageSample` |
| `systemCollector`, Control's `cpuSampler` | `SystemSample`, `ControlSample` |

What is abstracted. A password is right or wrong, or not looked at after too
many wrong ones. An expired session is one that is gone. The version of a
module is 1 or 2. A reading of counters and what is made of it are one step,
since only the collector's own loop writes them. A request that waits for
`keeneticMu` while another reads the list of interfaces is one that comes
afterwards. The reading itself is a series of calls, each with a time limit of
its own: the list, then one name after the other (`scan`). The router's answer
is taken to be as old as the call that asked for it.

### Run

`core_all` has nine scenarios, so that what has nothing to do with a question
stands still: two browsers that change the setting under restarts of Core; one
that changes it while the other logs in and out and has an event stream; a page
while DNS is upgraded, removed and installed and stopped and started by hand;
the same for a module whose scripts do not wait; a page while sessions end and
Core restarts; and one for each collector, under a module that restarts.

| Property | What it says |
|---|---|
| `SettingDurable` | unless two changes of the setting overlap, a restart brings the setting Core runs with, and never finds a file it cannot parse |
| `StreamsClose` | a stream without a session ends once authentication is on |
| `PageComesBack` | a page of an installed module comes back without the user after any stop, update or crash |
| `PostinstTruth` | a package script that ends well has heard from the version it has unpacked; a missing session never makes it end badly |
| `ReadingsFresh` | the sensors a request is shown are no older than the cache may be, or a scan takes; the router's interfaces, unless the last attempt to read them failed, no older than their list is kept plus what the calls of its reading take |
| `FiguresAreReal` | a rate is what was counted between two readings, a load a share of the time, whatever comes, goes or starts anew |

Overlapping changes of the setting are excluded by the history variable
`tangled`: the temporary file has one name, so the second truncates the first's,
and memory and file may be set in different orders. No document promises
anything for that case; the next change that is made alone mends it, which is
part of `SettingDurable`.

Bounds: two browsers, two tokens, two tries of the script, two requests for the
sensors. A collector treats each device and each CPU independently, so one of
each is enough. `MaxTime`, `MaxCount` and `ScanTime` end a behaviour; a scan
takes at most 2 where a cache is kept for 3, so that scans can overlap and end
in the other order. Each call for the router's interfaces takes at most 1
(`ListTime`, `NameTime`: 3 and 2 seconds in the code) where their list is kept
for 2. The bound of `ReadingsFresh` on the list is reached: `network.go:227` stamps
the list after the last call, not before the first as `thermal.go` does, so a
list may be shown for its 5 seconds and the duration of its reading.

Fairness: the page's timers and its requests go on, Core answers (`Serves`:
a dial of a socket ends), and a stream's steps happen: an event is due every two
seconds, and a write to a client that reads no more is assumed to fail in the
end. Nothing is assumed of users, opkg, the module or Core's restarts.
`PageComesBack` therefore asks for a module, a Core and a session that are
there from some time on.

### Proofs

`SettingSurvives` rests on an inductive invariant of five parts: a change that
saves wants one of the settings (`Wanted`); two that save are tangled and
neither is alone (`Apart`); unless changes are tangled whoever saves is alone
(`Single`); and what a change that is alone has made so far is what it wants
(`Own`), step by step from the temporary file to the file. `Apart` is what makes
the last step right: who sets the memory alone is the only one that saves, so
the file is still its own.

`ImplementsAuth` shows that the composition refines `AuthSettings`, by which
`SettingSurvives` holds of it, too. `PostinstTells` needs that from the step
after `stop` on, a process that runs is of the version on disk (`OwnProcess`),
and that only a waiting script asks (`OwnAnswer`). `ReadingsAreFresh` needs that
a scan under way was begun no longer ago than a scan takes: so what is stored
over a young cache is young enough; and of the list of interfaces, that the
limit of the call under way and those of the names still to be read never lead
beyond the time of a whole reading (`Scanning`). `RatesAreMeasured` keeps, for each device,
what it has counted since the last reading (`Counted`). That the loads of a CPU
add up to no more than it was busy is stated by their running sum (`LoadsAddUp`),
and kept because a new reading is what the CPU was busy since the last.
`FiguresAreMeasured` joins the three.

## 8. Where the code and its documentation differ

| Run | Code | What is said |
|---|---|---|
| `control_hangup` | `dns_control.go:483`: the rollback uses the cancelled context | `docs/MODULES.md:148` |
| `control_overwrite` | `dns_control.go:476`: entries saved after the second snapshot are overwritten | the comment at `dns_control.go:474` |
| `stats_late` | `stats.go:384`: a late answer is looked up by key, whatever question it answers | the comment at `stats.go:382` |
| `plain_twice` | `plain_dns.go:248`: a mark is spent on every copy of a frame | the comments at `plain_dns.go:204` and `plain_dns.go:264` |
| `refresh_wait` | `routerforge_registry.go:154` | `docs/INSTALLATION.md:130`, `docs/MARKETPLACE.md:51` |

Noted without a run: an update of Core leaves its downloaded package behind,
because the process that would remove it is stopped (`docs/MARKETPLACE.md`,
step 7 of the IPK check). A page that has been told that its module is not
installed never asks again, so one that is opened during a first installation
does not come back by itself; `PageComesBack` asks for a module that stays in
opkg's database. A package script that hangs for good keeps the mutex of the
Marketplace for good, past the 180 seconds of its request, and the requests that
wait for the mutex cannot be answered either (section 6): no document says
otherwise, and it takes a restart of Core to end it.

## 9. Proofs

Every theorem is `Spec => ...` for all values of the constants that satisfy
the module's named assumption. In each proof module an inductive invariant is
shown to hold initially and to be kept by each action, in a lemma per action
or per kind of action.

| Module | Theorems |
|---|---|
| `DNSControlProofs` | `TypeCorrect`, `OthersUntouched`, `AlwaysUndisturbed`, `OkInstalled`, `RolledBackUndone`, `EnableLosesNothing`, `SavesAreWhole`, `AdminEntriesKept`, `RequestsAreAtomic` |
| `ResolverStatsProofs` | `TypeCorrect`, `KeptBriefly`, `VerdictsAreFinal`, `AccountsBalance`, `DownIsTold`, `CausesAreRecent`, `WindowsAreExact` |
| `ClientStatsProofs` | `ClientsAddOn`, `ClientTypesCorrect`, `AllKeptBriefly`, `DevicesBalance`, `LocalMeansLocalAlways` |
| `PlainDNSProofs` | `TypeCorrect`, `AlwaysBalanced`, `AlwaysPrompt`, `OwnAlways` |
| `IndexRefreshProofs` | `TypeCorrect`, `OneRefresh`, `DocumentsAge`, `AnswersInTime` |
| `PackageActionsProofs` | `TypeCorrect`, `OpkgReadsVerified`, `SuccessIsDone`, `AlwaysRepairable`, `ExchangesAreSafe` |
| `AuthSettingsProofs` | `AuthTypeCorrect`, `SettingSurvives` |
| `MonitoringProofs` | `ImplementsAuth`, `SettingSurvivesHosted`, `HostTypeCorrect`, `PostinstTells`, `ReadingsAreFresh`, `RatesAreMeasured`, `LoadsAreProper`, `LoadsAddUpAlways`, `FiguresAreMeasured`, `TypeCorrect` |

Every invariant and every action property of a passing run is the statement of
one of these theorems, as is the refinement of `ResolverCatalog`. Only
model-checked are the liveness properties (`RequestsEnd`, `ForceReturns`,
`ActionsEnd`, `StreamsClose`, `PageComesBack`): liveness under fairness is out
of the prover's reach. What the five runs of section 8 find violated is false.

The library's induction theorems take an operator as a parameter, which the
provers cannot instantiate. Where a proof has to speak of sums or of all the
steps of a loop, the model states the sum by its running values or as a
cardinality, or the proof takes the least counterexample in `Nat`.

## 10. What is left

To be modelled: pure algorithms against reference definitions (the entry delta
on bags, the 95th percentile, the flow ring), and the fallback edges and error
bursts of the store.

Not to be modelled: the admin proxies and most of the control helper and the
monitoring runtime (stateless reads and parsing), discovery (it reads NDMS and
hands the result to the store, which is modelled), DNS information, the password
hash (`auth_crypt.go`), DNS packet parsing, profiling, the web UI's rendering,
the build scripts.
