----------------------------- MODULE DNSControl -----------------------------
(***************************************************************************)
(* The mutation engine of the DNS module (dnsControlManager).  One request *)
(* at a time owns the manager (its mutex is held from the first read to    *)
(* the return) and talks to the router's NDMS through a series of RCI      *)
(* calls.  Between any two calls another administrator can save DNS        *)
(* settings, the client can hang up (every call carries the request's      *)
(* context), a call can fail or be dropped silently, the module can die    *)
(* and the router can restart.                                             *)
(*                                                                         *)
(* A physical entry of the router's DNS settings is a member of Entry; the *)
(* logical resolver it belongs to is IdOf[e] (entries that differ only in  *)
(* their domain share it), and its protocol section is ProtoOf[IdOf[e]].   *)
(***************************************************************************)
EXTENDS Naturals, FiniteSets

CONSTANTS
  Entry,        \* physical name-server entries
  Id,           \* identities of logical resolvers (dnsResolverID)
  IdOf,         \* the resolver an entry is grouped under
  ProtoOf,      \* the protocol of a resolver
  SlotLimit,    \* most entries of a secure section; 8 in the code
  Scenarios     \* what the outside may do in a behaviour

Secure    == {"DoT", "DoH"}
Protocols == Secure \union {"DNS"}

ASSUME ConstantsAssumption ==
  /\ IdOf \in [Entry -> Id]
  /\ ProtoOf \in [Id -> Protocols]
  /\ SlotLimit \in Nat
  \* The entries there are; whether calls and file writes may fail, NDMS may
  \* report success and ignore a part of a call, the client may hang up,
  \* another administrator edits the same settings, the module may die and
  \* the router may restart from its startup configuration.
  /\ Scenarios \subseteq
       [entries : SUBSET Entry, faults : BOOLEAN, drops : BOOLEAN,
        disconnects : BOOLEAN, admin : BOOLEAN, crashes : BOOLEAN,
        reboots : BOOLEAN]

VARIABLES
  scenario,       \* one of Scenarios, from the start
  running,        \* entries of the router's live configuration
  startup,        \* entries of its saved configuration
  plainReadable,  \* this firmware lets the plain name servers be read
  disabled,       \* dns-disabled.json: the entries kept per disabled resolver
  phase,          \* what the request that owns the mutex does next
  half,           \* the first of a snapshot's two reads has been answered
  req,            \* that request
  alive,          \* its context has not been cancelled
  store,          \* its copy of the disabled file
  snap,           \* the snapshot it was decided on
  desired,        \* that snapshot, edited
  before,         \* the snapshot taken just before writing
  seen,           \* the secure sections of the snapshot under way
  base,           \* plain entries the reconciliation believes installed
  left,           \* protocols still to be written
  cleared,        \* the secure section being written has been cleared
  result,         \* how the last request ended
  adminAdded      \* history: entries an administrator added meanwhile

router  == <<scenario, running, startup, plainReadable>>
plan    == <<req, store, snap, desired>>
writing == <<base, left, cleared>>
vars    == <<router, disabled, phase, half, alive, plan, before, seen,
             writing, result, adminAdded>>

Faults      == scenario.faults
Drops       == scenario.drops
Disconnects == scenario.disconnects
AdminWrites == scenario.admin
Crashes     == scenario.crashes
Reboots     == scenario.reboots

Section(S, p)   == {e \in S : ProtoOf[IdOf[e]] = p}
Sections(S, P)  == {e \in S : ProtoOf[IdOf[e]] \in P}
EntriesOf(S, i) == {e \in S : IdOf[e] = i}

EditKinds   == {"create", "update"}
ToggleKinds == {"disable", "enable"}

\* A resolver specification is the set of entries it is written as; new is
\* the identity those entries give it.
Requests ==
  {r \in [kind : EditKinds, id : Id, new : Id, entries : SUBSET Entry] :
     /\ r.entries # {}
     /\ \A e \in r.entries : IdOf[e] = r.new
     /\ r.kind = "create" => r.id = r.new}
  \union {r \in [kind : {"delete"} \union ToggleKinds, id : Id, new : Id,
                 entries : {{}}] : r.new = r.id}
NoRequest == [kind |-> "none"]
NoFile    == [i \in Id |-> {}]

\* The protocol sections the request rewrites.
Changed == {ProtoOf[req.id], ProtoOf[req.new]}

ReadPhases  == {"snapshot", "baseline", "verify", "current", "recheck"}
WritePhases == {"write", "restore"}
Phases      == ReadPhases \union WritePhases \union {"idle", "metadata"}
\* From the first write to the return.
InMotion    == {"write", "verify", "metadata", "current", "restore", "recheck"}
Results     == {"none", "ok", "refused", "failed", "rolledback",
                "rollbackFailed", "crashed"}

Init ==
  /\ scenario \in Scenarios
  /\ running \in {S \in SUBSET scenario.entries :
       \A p \in Secure : Cardinality(Section(S, p)) <= SlotLimit}
  /\ startup = running
  /\ plainReadable \in BOOLEAN
  /\ disabled = NoFile
  /\ phase = "idle" /\ half = FALSE /\ alive = FALSE
  /\ req = NoRequest /\ store = NoFile /\ snap = {} /\ desired = {}
  /\ before = {} /\ seen = {}
  /\ base = {} /\ left = {} /\ cleared = FALSE
  /\ result = "none"
  /\ adminAdded = {}

-----------------------------------------------------------------------------
(* How a request moves on.                                                 *)

\* Mut... definitions are slips of the definition that follows them; each
\* is what one of the properties below is there to notice.
MutReturn(r) ==
  /\ UNCHANGED <<phase, half, alive, disabled>>
  /\ req' = NoRequest /\ store' = NoFile /\ snap' = {} /\ desired' = {}
  /\ before' = {} /\ seen' = {}
  /\ base' = {} /\ left' = {} /\ cleared' = FALSE
  /\ result' = r
  /\ adminAdded' = {}

\* The handler returns r and gives the mutex up; its locals are gone.
Return(r) ==
  /\ phase' = "idle" /\ half' = FALSE /\ alive' = FALSE
  /\ req' = NoRequest /\ store' = NoFile /\ snap' = {} /\ desired' = {}
  /\ before' = {} /\ seen' = {}
  /\ base' = {} /\ left' = {} /\ cleared' = FALSE
  /\ result' = r
  /\ adminAdded' = {}

\* applyMutation failed: Disable and Enable put back the file they read, and
\* ignore an error of that write.
ReturnError(r) ==
  /\ Return(r)
  /\ \/ req.kind \in ToggleKinds /\ disabled' = store
     \/ (req.kind \in ToggleKinds => Faults) /\ disabled' = disabled

Goto(ph) ==
  /\ phase' = ph /\ half' = FALSE /\ seen' = {}
  /\ UNCHANGED <<disabled, req, store, result, adminAdded>>

\* restoreProtocols reads the plain section again before it writes anything.
BeginRestore ==
  /\ Goto(IF "DNS" \in Changed THEN "current" ELSE "restore")
  /\ left' = Changed /\ cleared' = FALSE /\ base' = {}
  /\ UNCHANGED <<snap, desired, before>>

MutAbandon(up) == BeginRestore /\ alive' = up

\* After a failed call the request goes on with its context up or cancelled.
Abandon(up) ==
  \/ /\ phase \in {"write", "verify"}
     /\ BeginRestore /\ alive' = up
  \/ /\ phase \in {"snapshot", "baseline"}
     /\ ReturnError("failed")
  \/ /\ phase \in {"current", "restore", "recheck"}
     /\ ReturnError("rollbackFailed")

\* A call is refused, times out or is cut off by the client.  Nobody knows
\* whether NDMS acted on it; a cancelled context never sends one.
CallFails(runs, saves) ==
  \E up \in BOOLEAN :
    /\ IF alive THEN (up /\ Faults) \/ (~up /\ Disconnects) ELSE ~up
    /\ running' \in IF alive THEN runs \union {running} ELSE {running}
    /\ startup' \in IF alive THEN saves \union {startup} ELSE {startup}
    /\ Abandon(up)
    /\ UNCHANGED <<scenario, plainReadable>>

\* A call NDMS reports as done.  It was, unless it silently ignored a part.
CallDone(full, partial) ==
  /\ alive
  /\ running' \in IF Drops THEN partial ELSE {full}
  /\ UNCHANGED <<scenario, startup, plainReadable, alive>>

-----------------------------------------------------------------------------
(* loadState: two reads, one of both secure sections and one of the plain  *)
(* name servers, which some firmware does not offer.                       *)

GetProxy ==
  /\ phase \in ReadPhases /\ ~half /\ alive
  /\ half' = TRUE
  /\ seen' = Sections(running, Secure)
  /\ UNCHANGED <<router, disabled, phase, alive, plan, before, writing, result,
                 adminAdded>>

GetFails ==
  /\ phase \in ReadPhases
  /\ CallFails({}, {})

\* What the second read completes the snapshot to.
Read == seen \union IF plainReadable THEN Section(running, "DNS") ELSE {}

Loaded(ph) ==
  /\ phase = ph /\ half /\ alive
  /\ UNCHANGED router

-----------------------------------------------------------------------------
(* The five operations, decided on the first snapshot and the file.        *)

Begin(r) ==
  /\ phase = "idle" /\ r.entries \subseteq scenario.entries
  /\ phase' = "snapshot" /\ alive' = TRUE
  /\ req' = r /\ store' = disabled
  /\ result' = "none"
  /\ UNCHANGED <<router, disabled, half, snap, desired, before, seen, writing,
                 adminAdded>>

WithinLimits(S) ==
  \A p \in Changed \intersect Secure : Cardinality(Section(S, p)) <= SlotLimit

MutApplyMutation(d) ==
  /\ Goto("metadata")
  /\ snap' = Read /\ desired' = d
  /\ UNCHANGED <<alive, before, writing>>

\* applyMutation: the limits come first, then a fresh baseline is read.
ApplyMutation(d) ==
  \/ /\ WithinLimits(d)
     /\ Goto("baseline")
     /\ snap' = Read /\ desired' = d
     /\ UNCHANGED <<alive, before, writing>>
  \/ ~WithinLimits(d) /\ ReturnError("refused")

Refuse == Return("refused") /\ UNCHANGED disabled

\* A request about a disabled resolver only rewrites the file.
SaveFile(file) ==
  \/ disabled' = file /\ Return("ok")
  \/ Faults /\ Return("failed") /\ UNCHANGED disabled

Known(i) == EntriesOf(Read, i) # {}
Kept(i)  == store[i] # {}
MutTaken == Known(req.new)
Taken    == Known(req.new) \/ Kept(req.new)

Create ==
  /\ req.kind = "create" /\ Loaded("snapshot")
  /\ \/ Taken /\ Refuse
     \/ ~Taken /\ ApplyMutation(Read \union req.entries)

Update ==
  /\ req.kind = "update" /\ Loaded("snapshot")
  /\ LET clash == req.new # req.id /\ Taken IN
     \/ Kept(req.id) /\ clash /\ Refuse
     \/ /\ Kept(req.id) /\ ~clash
        /\ SaveFile([store EXCEPT ![req.id] = {}, ![req.new] = req.entries])
     \/ ~Kept(req.id) /\ (~Known(req.id) \/ clash) /\ Refuse
     \/ /\ ~Kept(req.id) /\ Known(req.id) /\ ~clash
        /\ ApplyMutation((Read \ EntriesOf(Read, req.id)) \union req.entries)

Delete ==
  /\ req.kind = "delete" /\ Loaded("snapshot")
  /\ \/ Kept(req.id) /\ SaveFile([store EXCEPT ![req.id] = {}])
     \/ ~Kept(req.id) /\ ~Known(req.id) /\ Refuse
     \/ /\ ~Kept(req.id) /\ Known(req.id)
        /\ ApplyMutation(Read \ EntriesOf(Read, req.id))

Disable ==
  /\ req.kind = "disable" /\ Loaded("snapshot")
  /\ \/ (~Known(req.id) \/ Kept(req.id)) /\ Refuse
     \/ /\ Known(req.id) /\ ~Kept(req.id)
        /\ ApplyMutation(Read \ EntriesOf(Read, req.id))

Enable ==
  /\ req.kind = "enable" /\ Loaded("snapshot")
  /\ \/ (~Kept(req.id) \/ Known(req.id)) /\ Refuse
     \/ /\ Kept(req.id) /\ ~Known(req.id)
        /\ ApplyMutation(Read \union store[req.id])

\* The second snapshot must show the sections the request was decided on.
Baseline ==
  /\ Loaded("baseline")
  /\ LET stale == \E p \in Changed :
           \/ p = "DNS" /\ ~plainReadable
           \/ Section(snap, p) # Section(Read, p)
     IN \/ stale /\ ReturnError("refused")
        \/ /\ ~stale
           /\ Goto("write")
           /\ before' = Read /\ base' = Section(Read, "DNS")
           /\ left' = Changed /\ cleared' = FALSE
           /\ UNCHANGED <<alive, snap, desired>>

-----------------------------------------------------------------------------
(* writeProtocols and the writing half of restoreProtocols: the same calls *)
(* with another target.                                                    *)

Target == IF phase = "write" THEN desired ELSE before

SectionDue(p) ==
  /\ phase \in WritePhases /\ p \in left
  /\ p = "DoH" => "DoT" \notin left

StillWriting ==
  UNCHANGED <<disabled, phase, half, plan, before, seen, result, adminAdded>>

MutSectionWritten(p) == left' = {} /\ cleared' = FALSE

SectionWritten(p) == left' = left \ {p} /\ cleared' = FALSE

MutEmptied(p) == running \ Sections(running, Secure)
Emptied(p)    == running \ Section(running, p)

\* replaceProtocol clears the section first ...
ClearSection(p) ==
  /\ p \in Secure /\ SectionDue(p) /\ ~cleared
  /\ \/ /\ CallDone(Emptied(p), {Emptied(p), running})
        /\ IF Section(Target, p) = {}
           THEN SectionWritten(p)
           ELSE cleared' = TRUE /\ UNCHANGED left
        /\ StillWriting /\ UNCHANGED base
     \/ CallFails({Emptied(p)}, {})

\* ... and posts all of its entries.
PostSection(p) ==
  LET S == Section(Target, p)
      posted == {running \union T : T \in SUBSET S}
  IN /\ p \in Secure /\ SectionDue(p) /\ cleared
     /\ \/ /\ CallDone(running \union S, posted)
           /\ SectionWritten(p)
           /\ StillWriting /\ UNCHANGED base
        \/ CallFails(posted, {})

\* reconcilePlainDNS: the difference between what is installed and what is
\* wanted, each removal a call of its own ...
MutRemovals == Section(running, "DNS") \ Section(Target, "DNS")
Removals  == base \ Section(Target, "DNS")
Additions == Section(Target, "DNS") \ base

DeletePlain(e) ==
  /\ phase \in WritePhases /\ left = {"DNS"} /\ e \in Removals
  /\ \/ /\ CallDone(running \ {e}, {running \ {e}, running})
        /\ base' = base \ {e}
        /\ StillWriting /\ UNCHANGED <<left, cleared>>
     \/ CallFails({running \ {e}}, {})

\* ... and the additions one.
PostPlain ==
  LET posted == {running \union T : T \in SUBSET Additions} IN
  /\ phase \in WritePhases /\ left = {"DNS"}
  /\ Removals = {} /\ Additions # {}
  /\ \/ /\ CallDone(running \union Additions, posted)
        /\ base' = base \union Additions
        /\ StillWriting /\ UNCHANGED <<left, cleared>>
     \/ CallFails(posted, {})

\* POST /system/configuration/save, once every section has been written.
Save ==
  /\ phase \in WritePhases /\ left \subseteq {"DNS"}
  /\ "DNS" \in left => Removals = {} /\ Additions = {}
  /\ \/ /\ alive
        /\ startup' = running
        /\ Goto(IF phase = "write" THEN "verify" ELSE "recheck")
        /\ left' = {} /\ cleared' = FALSE /\ base' = {}
        /\ UNCHANGED <<scenario, running, plainReadable, alive, snap, desired, before>>
     \/ CallFails({}, {running})

-----------------------------------------------------------------------------
(* Readback, rollback and the file.                                        *)

MutMatches(S) == Sections(Read, Changed \ {"DNS"}) = Sections(S, Changed \ {"DNS"})
Matches(S) == \A p \in Changed : Section(Read, p) = Section(S, p)

Verify ==
  /\ Loaded("verify")
  /\ \/ ~Matches(desired) /\ BeginRestore /\ UNCHANGED alive
     \/ /\ Matches(desired) /\ req.kind \in ToggleKinds
        /\ Goto("metadata")
        /\ UNCHANGED <<alive, snap, desired, before, writing>>
     \/ /\ Matches(desired) /\ req.kind \notin ToggleKinds
        /\ Return("ok") /\ UNCHANGED disabled

\* afterVerify: a toggled resolver enters or leaves the file last.
SaveMetadata ==
  LET kept == IF req.kind = "disable" THEN EntriesOf(snap, req.id) ELSE {} IN
  /\ phase = "metadata"
  /\ \/ disabled' = [store EXCEPT ![req.id] = kept] /\ Return("ok")
     \/ Faults /\ BeginRestore /\ UNCHANGED alive
  /\ UNCHANGED router

\* The plain entries a rollback starts from.
Current ==
  /\ Loaded("current")
  /\ Goto("restore")
  /\ base' = Section(Read, "DNS")
  /\ UNCHANGED <<alive, snap, desired, before, left, cleared>>

MutRecheck == Loaded("recheck") /\ ReturnError("rolledback")

Recheck ==
  /\ Loaded("recheck")
  /\ ReturnError(IF Matches(before) THEN "rolledback" ELSE "rollbackFailed")

-----------------------------------------------------------------------------
(* The environment.                                                        *)

\* Another administrator adds or removes an entry and saves.
AdminWrite(e) ==
  /\ AdminWrites /\ e \in scenario.entries
  /\ \/ /\ e \in running /\ running' = running \ {e}
        /\ adminAdded' = adminAdded \ {e}
     \/ /\ e \notin running /\ running' = running \union {e}
        /\ ProtoOf[IdOf[e]] \in Secure =>
             Cardinality(Section(running, ProtoOf[IdOf[e]])) < SlotLimit
        /\ adminAdded' = IF phase = "idle" THEN {} ELSE adminAdded \union {e}
  /\ startup' = running'
  /\ UNCHANGED <<scenario, plainReadable, disabled, phase, half, alive, plan,
                 before, seen, writing, result>>

\* The process dies and is started again; the file was replaced atomically.
Crash ==
  /\ Crashes /\ phase # "idle"
  /\ Return("crashed")
  /\ UNCHANGED <<router, disabled>>

Reboot ==
  /\ Reboots
  /\ running' = startup
  /\ Return("crashed")
  /\ UNCHANGED <<scenario, startup, plainReadable, disabled>>

-----------------------------------------------------------------------------
Decide == Create \/ Update \/ Delete \/ Disable \/ Enable

\* One step of the request that holds the mutex.
Step ==
  \/ GetProxy \/ GetFails \/ Decide \/ Baseline
  \/ \E p \in Secure : ClearSection(p) \/ PostSection(p)
  \/ \E e \in Entry : DeletePlain(e)
  \/ PostPlain \/ Save \/ Verify \/ SaveMetadata \/ Current \/ Recheck

Next ==
  \/ \E r \in Requests : Begin(r)
  \/ Step
  \/ \E e \in Entry : AdminWrite(e)
  \/ Crash \/ Reboot

Spec == Init /\ [][Next]_vars

\* Every RCI call has a 20 second timeout and every write of the file ends,
\* so a request that holds the mutex keeps moving.
FairSpec == Spec /\ WF_vars(Step)

-----------------------------------------------------------------------------
(* Properties.                                                             *)

TypeOK ==
  /\ scenario \in Scenarios
  /\ running \in SUBSET Entry /\ startup \in SUBSET Entry
  /\ plainReadable \in BOOLEAN
  /\ disabled \in [Id -> SUBSET Entry]
  /\ phase \in Phases /\ half \in BOOLEAN /\ alive \in BOOLEAN
  /\ req \in Requests \union {NoRequest}
  /\ phase # "idle" => req \in Requests
  /\ store \in [Id -> SUBSET Entry]
  /\ snap \in SUBSET Entry /\ desired \in SUBSET Entry
  /\ before \in SUBSET Entry /\ seen \in SUBSET Entry /\ base \in SUBSET Entry
  /\ left \in SUBSET Protocols /\ cleared \in BOOLEAN
  /\ result \in Results
  /\ adminAdded \in SUBSET Entry

\* Nobody else writing, what a request relies on between two calls is still
\* so: the half of a snapshot it holds is the router's, a changed section can
\* be read, the saved configuration is the live one from the save on, and the
\* file is only touched after the router holds what was asked.
Undisturbed ==
  /\ half => phase \in ReadPhases /\ seen = Sections(running, Secure)
  /\ phase # "idle" => result = "none" /\ store = disabled
  /\ phase \in InMotion /\ "DNS" \in Changed => plainReadable
  /\ phase \in {"verify", "metadata", "recheck"} => startup = running
  /\ phase = "metadata" =>
       Sections(running, Changed) = Sections(desired, Changed)

\* A mutation that answers OK left every section it rewrote exactly as
\* requested, live and in the configuration the router would restart from,
\* whatever calls failed, were dropped or were repaired on the way.
OkIsInstalled ==
  [][(phase \in {"verify", "metadata"} /\ result' = "ok" =>
       /\ Sections(running', Changed) = Sections(desired, Changed)
       /\ startup' = running')]_vars

\* A mutation that reports a rollback left the sections it touched as they
\* were, live and saved, and the file as it was read.
RolledBackIsBefore ==
  [][(result # "rolledback" /\ result' = "rolledback" =>
       /\ Sections(running', Changed) = Sections(before, Changed)
       /\ startup' = running'
       /\ disabled' = store)]_vars

\* No call of a request changes a section of another protocol.
OnlyChangedSections ==
  [][(Step => Sections(running', Protocols \ Changed) =
             Sections(running, Protocols \ Changed))]_vars

\* A save the module asks for never makes a cleared or half-written section
\* permanent: a restart at any moment finds each section whole, as long as
\* nobody else writes and NDMS does what it reports.
SavesWholeSections ==
  [][(Step /\ startup' # startup /\ ~AdminWrites /\ ~Drops =>
       Sections(startup', Changed) = Sections(Target, Changed))]_vars

\* Enable takes a resolver out of the file only when the router has all of
\* its entries, live and saved; no crash or restart in between loses it, as
\* long as nobody else writes.
EnableNeverLoses ==
  [][(\A i \in Id :
       phase # "idle" /\ req.kind = "enable" /\ ~AdminWrites
         /\ disabled[i] # disabled'[i]
         => disabled[i] \subseteq running' \intersect startup')]_vars

\* A plain mutation that answers OK kept every plain entry another
\* administrator added while it ran (its own resolver's entries apart).
PlainAdminKept ==
  [][(result' = "ok" /\ phase \in {"verify", "metadata"} =>
       {e \in Section(adminAdded, "DNS") : IdOf[e] \notin {req.id, req.new}}
         \subseteq running')]_vars

\* The same promise for the secure sections, as applyMutation's comment
\* makes it: it refuses to overwrite a section Keenetic changed in parallel.
SecureAdminKept ==
  [][(result' = "ok" /\ phase \in {"verify", "metadata"} =>
       {e \in Sections(adminAdded, Secure) : IdOf[e] \notin {req.id, req.new}}
         \subseteq running')]_vars

\* The documented outcome of a mutation: OK, or the previous sections are
\* restored.
OkOrRestored ==
  [][(phase \notin {"idle", "snapshot", "baseline"} /\ phase' = "idle" =>
       \/ result' = "ok"
       \/ Sections(running', Changed) = Sections(before, Changed))]_vars

\* A request that holds the mutex gives it up, so the next can start.
RequestsEnd == (phase # "idle") ~> (phase = "idle")

-----------------------------------------------------------------------------
(* What the settings are to a client: while a request is writing they are  *)
(* still the ones it started from, and a section that cannot be read does  *)
(* not exist.                                                              *)

Visible(S) == IF plainReadable THEN S ELSE Sections(S, Secure)

Committed ==
  IF phase \in InMotion
  THEN Sections(running, Protocols \ Changed) \union Sections(before, Changed)
  ELSE running

Catalog == INSTANCE ResolverCatalog
             WITH active <- Visible(Committed), outcome <- result

\* Without another writer and without a crash, the module's requests are
\* atomic edits of the catalog.
ImplementsCatalog == Catalog!Spec
=============================================================================
