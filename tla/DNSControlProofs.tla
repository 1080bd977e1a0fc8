-------------------------- MODULE DNSControlProofs --------------------------
(***************************************************************************)
(* Proofs about DNSControl for every set of entries, resolvers, protocols  *)
(* and every choice of what the environment may do: first its types and    *)
(* what no request ever touches, then what an answer is worth, whatever    *)
(* calls fail, are dropped or are cut off.  That is what an OK and a       *)
(* rollback guarantee while nobody else writes the same settings, what a   *)
(* save and the disabled file are safe for, what another administrator     *)
(* keeps, and that each request is one atomic edit of ResolverCatalog.     *)
(***************************************************************************)
EXTENDS DNSControl, TLAPS

\* What every read and write of a section keeps: sets of entries.
LEMMA SectionTypes ==
  ASSUME NEW S \in SUBSET Entry, NEW P, NEW p, NEW i
  PROVE  /\ Section(S, p) \in SUBSET Entry
         /\ Sections(S, P) \in SUBSET Entry
         /\ EntriesOf(S, i) \in SUBSET Entry
  BY DEF Section, Sections, EntriesOf

LEMMA ReadTypes == TypeOK => Read \in SUBSET Entry
  BY SectionTypes DEF TypeOK, Read

\* A request that is running names known resolvers, so it changes known
\* protocol sections.
LEMMA RequestTypes ==
  ASSUME TypeOK, phase # "idle"
  PROVE  /\ req \in Requests
         /\ req.id \in Id /\ req.new \in Id /\ req.entries \in SUBSET Entry
         /\ Changed \in SUBSET Protocols
  <1>1. req \in Requests
    BY DEF TypeOK
  <1>2. req.id \in Id /\ req.new \in Id /\ req.entries \in SUBSET Entry
    BY <1>1 DEF Requests
  <1>3. QED
    BY <1>1, <1>2, ConstantsAssumption DEF Changed

LEMMA ReturnTypes ==
  ASSUME TypeOK, NEW r \in Results, Return(r),
         running' \in SUBSET Entry, startup' \in SUBSET Entry,
         plainReadable' \in BOOLEAN, scenario' \in Scenarios,
         disabled' \in [Id -> SUBSET Entry]
  PROVE  TypeOK'
  BY DEF TypeOK, Return, Phases, NoRequest, NoFile

LEMMA ReturnErrorTypes ==
  ASSUME TypeOK, NEW r \in Results, ReturnError(r),
         running' \in SUBSET Entry, startup' \in SUBSET Entry,
         plainReadable' \in BOOLEAN, scenario' \in Scenarios
  PROVE  TypeOK'
  <1>1. disabled' \in [Id -> SUBSET Entry]
    BY DEF TypeOK, ReturnError
  <1>2. QED
    BY <1>1, ReturnTypes DEF ReturnError

LEMMA GotoTypes ==
  ASSUME TypeOK, phase # "idle", NEW ph \in Phases \ {"idle"}, Goto(ph),
         running' \in SUBSET Entry, startup' \in SUBSET Entry,
         plainReadable' \in BOOLEAN, scenario' \in Scenarios, alive' \in BOOLEAN,
         snap' \in SUBSET Entry, desired' \in SUBSET Entry,
         before' \in SUBSET Entry, base' \in SUBSET Entry,
         left' \in SUBSET Protocols, cleared' \in BOOLEAN
  PROVE  TypeOK'
  BY DEF TypeOK, Goto

LEMMA BeginRestoreTypes ==
  ASSUME TypeOK, phase # "idle", BeginRestore,
         running' \in SUBSET Entry, startup' \in SUBSET Entry,
         plainReadable' \in BOOLEAN, scenario' \in Scenarios, alive' \in BOOLEAN
  PROVE  TypeOK'
  <1>1. Changed \in SUBSET Protocols
    BY RequestTypes
  <1>2. PICK ph \in {"current", "restore"} : Goto(ph)
    BY DEF BeginRestore
  <1>3. snap' \in SUBSET Entry /\ desired' \in SUBSET Entry /\ before' \in SUBSET Entry
        /\ base' \in SUBSET Entry /\ left' \in SUBSET Protocols /\ cleared' \in BOOLEAN
    BY <1>1 DEF BeginRestore, TypeOK
  <1>4. QED
    BY <1>2, <1>3, GotoTypes DEF Phases, ReadPhases, WritePhases

LEMMA CallFailsTypes ==
  ASSUME TypeOK, NEW runs \in SUBSET (SUBSET Entry),
         NEW saves \in SUBSET (SUBSET Entry), CallFails(runs, saves)
  PROVE  TypeOK'
  <1>1. PICK up \in BOOLEAN :
          /\ running' \in IF alive THEN runs \union {running} ELSE {running}
          /\ startup' \in IF alive THEN saves \union {startup} ELSE {startup}
          /\ Abandon(up)
          /\ UNCHANGED <<scenario, plainReadable>>
    BY DEF CallFails
  <1>2. /\ running' \in SUBSET Entry /\ startup' \in SUBSET Entry
        /\ plainReadable' \in BOOLEAN /\ scenario' \in Scenarios
        /\ scenario' \in Scenarios
    BY <1>1 DEF TypeOK
  <1>3. CASE phase \in {"write", "verify"} /\ BeginRestore /\ alive' = up
    BY <1>2, <1>3, BeginRestoreTypes
  <1>4. CASE ReturnError("failed")
    BY <1>2, <1>4, ReturnErrorTypes DEF Results
  <1>5. CASE ReturnError("rollbackFailed")
    BY <1>2, <1>5, ReturnErrorTypes DEF Results
  <1>6. QED
    BY <1>1, <1>3, <1>4, <1>5 DEF Abandon

LEMMA SaveFileTypes ==
  ASSUME TypeOK, UNCHANGED router, NEW f \in [Id -> SUBSET Entry], SaveFile(f)
  PROVE  TypeOK'
  <1>1. disabled' \in [Id -> SUBSET Entry]
    BY DEF SaveFile, TypeOK
  <1>2. PICK r \in {"ok", "failed"} : Return(r)
    BY DEF SaveFile
  <1>3. QED
    BY <1>1, <1>2, ReturnTypes DEF TypeOK, router, Results

LEMMA RefuseTypes ==
  ASSUME TypeOK, UNCHANGED router, Refuse
  PROVE  TypeOK'
  BY ReturnTypes DEF TypeOK, router, Results, Refuse

LEMMA ApplyMutationTypes ==
  ASSUME TypeOK, phase = "snapshot", UNCHANGED router,
         NEW S \in SUBSET Entry, ApplyMutation(S)
  PROVE  TypeOK'
  <1>1. CASE Goto("baseline") /\ snap' = Read /\ desired' = S
              /\ UNCHANGED <<alive, before, writing>>
    BY <1>1, GotoTypes, ReadTypes
    DEF TypeOK, router, writing, Phases, ReadPhases
  <1>2. CASE ReturnError("refused")
    BY <1>2, ReturnErrorTypes DEF TypeOK, router, Results
  <1>3. QED
    BY <1>1, <1>2 DEF ApplyMutation

\* The five decisions: each refuses, rewrites the file or begins a mutation.
LEMMA DecideTypes == TypeOK /\ Decide => TypeOK'
  <1> SUFFICES ASSUME TypeOK, Decide PROVE TypeOK'
    OBVIOUS
  <1>1. phase = "snapshot" /\ UNCHANGED router
    BY DEF Decide, Create, Update, Delete, Disable, Enable, Loaded
  <1>2. /\ req.id \in Id /\ req.new \in Id /\ req.entries \in SUBSET Entry
        /\ Read \in SUBSET Entry
        /\ \A i \in Id : store[i] \in SUBSET Entry
        /\ EntriesOf(Read, req.id) \in SUBSET Entry
    BY <1>1, RequestTypes, ReadTypes, SectionTypes DEF TypeOK
  <1>3. /\ [store EXCEPT ![req.id] = {}, ![req.new] = req.entries]
             \in [Id -> SUBSET Entry]
        /\ [store EXCEPT ![req.id] = {}] \in [Id -> SUBSET Entry]
    BY <1>2 DEF TypeOK
  <1>4. CASE Create
    BY <1>1, <1>2, <1>4, RefuseTypes, ApplyMutationTypes DEF Create
  <1>5. CASE Update
    BY <1>1, <1>2, <1>3, <1>5, RefuseTypes, SaveFileTypes, ApplyMutationTypes
    DEF Update
  <1>6. CASE Delete
    BY <1>1, <1>2, <1>3, <1>6, RefuseTypes, SaveFileTypes, ApplyMutationTypes
    DEF Delete
  <1>7. CASE Disable
    BY <1>1, <1>2, <1>7, RefuseTypes, ApplyMutationTypes DEF Disable
  <1>8. CASE Enable
    BY <1>1, <1>2, <1>8, RefuseTypes, ApplyMutationTypes DEF Enable
  <1>9. QED
    BY <1>4, <1>5, <1>6, <1>7, <1>8 DEF Decide

\* The steps of loadState.
LEMMA GetTypes == TypeOK /\ (GetProxy \/ GetFails) => TypeOK'
  <1> SUFFICES ASSUME TypeOK, GetProxy \/ GetFails PROVE TypeOK'
    OBVIOUS
  <1>1. CASE GetProxy
    BY <1>1, SectionTypes DEF TypeOK, GetProxy, router, plan, writing
  <1>2. CASE GetFails
    BY <1>2, CallFailsTypes DEF GetFails
  <1>3. QED
    BY <1>1, <1>2

LEMMA BaselineTypes == TypeOK /\ Baseline => TypeOK'
  <1> SUFFICES ASSUME TypeOK, Baseline PROVE TypeOK'
    OBVIOUS
  <1>1. phase = "baseline" /\ UNCHANGED router
    BY DEF Baseline, Loaded
  <1>2. CASE ReturnError("refused")
    BY <1>1, <1>2, ReturnErrorTypes DEF TypeOK, router, Results
  <1>3. CASE /\ Goto("write") /\ before' = Read /\ base' = Section(Read, "DNS")
             /\ left' = Changed /\ cleared' = FALSE
             /\ UNCHANGED <<alive, snap, desired>>
    BY <1>1, <1>3, GotoTypes, ReadTypes, RequestTypes, SectionTypes
    DEF TypeOK, router, Phases, WritePhases
  <1>4. QED
    BY <1>2, <1>3 DEF Baseline

\* What a write leaves alone, and what it does to the router.
LEMMA CallDoneTypes ==
  ASSUME TypeOK, phase # "idle", NEW full \in SUBSET Entry,
         NEW partial \in SUBSET (SUBSET Entry),
         CallDone(full, partial), StillWriting,
         base' \in SUBSET Entry, left' \in SUBSET Protocols, cleared' \in BOOLEAN
  PROVE  TypeOK'
  <1>1. running' \in SUBSET Entry
    BY DEF CallDone
  <1>2. QED
    BY <1>1 DEF TypeOK, CallDone, StillWriting, plan

LEMMA TargetTypes ==
  TypeOK => /\ Target \in SUBSET Entry
            /\ Removals \in SUBSET Entry
            /\ Additions \in SUBSET Entry
  BY SectionTypes DEF TypeOK, Target, Removals, Additions

LEMMA ClearSectionTypes ==
  ASSUME TypeOK, NEW p \in Secure, ClearSection(p)
  PROVE  TypeOK'
  <1>1. phase # "idle" /\ Emptied(p) \in SUBSET Entry
    BY SectionTypes DEF TypeOK, ClearSection, SectionDue, WritePhases, Emptied
  <1>2. CASE /\ CallDone(Emptied(p), {Emptied(p), running})
             /\ IF Section(Target, p) = {}
                THEN SectionWritten(p)
                ELSE cleared' = TRUE /\ UNCHANGED left
             /\ StillWriting /\ UNCHANGED base
    <2>1. left' \in SUBSET Protocols /\ cleared' \in BOOLEAN /\ base' \in SUBSET Entry
      BY <1>2 DEF TypeOK, SectionWritten
    <2>2. {Emptied(p), running} \in SUBSET (SUBSET Entry)
      BY <1>1 DEF TypeOK
    <2>3. QED
      BY <1>1, <1>2, <2>1, <2>2, CallDoneTypes
  <1>3. CASE CallFails({Emptied(p)}, {})
    BY <1>1, <1>3, CallFailsTypes
  <1>4. QED
    BY <1>2, <1>3 DEF ClearSection

LEMMA PostSectionTypes ==
  ASSUME TypeOK, NEW p \in Secure, PostSection(p)
  PROVE  TypeOK'
  <1> DEFINE S == Section(Target, p)
             posted == {running \union T : T \in SUBSET S}
  <1>1. /\ phase # "idle"
        /\ running \union S \in SUBSET Entry
        /\ posted \in SUBSET (SUBSET Entry)
    BY TargetTypes, SectionTypes DEF TypeOK, PostSection, SectionDue, WritePhases
  <1>2. CASE CallDone(running \union S, posted) /\ SectionWritten(p)
              /\ StillWriting /\ UNCHANGED base
    <2>1. left' \in SUBSET Protocols /\ cleared' \in BOOLEAN /\ base' \in SUBSET Entry
      BY <1>2 DEF TypeOK, SectionWritten
    <2>2. QED
      BY <1>1, <1>2, <2>1, CallDoneTypes
  <1>3. CASE CallFails(posted, {})
    BY <1>1, <1>3, CallFailsTypes
  <1>4. QED
    BY <1>2, <1>3 DEF PostSection

LEMMA DeletePlainTypes ==
  ASSUME TypeOK, NEW e \in Entry, DeletePlain(e)
  PROVE  TypeOK'
  <1>1. /\ phase # "idle"
        /\ running \ {e} \in SUBSET Entry
        /\ {running \ {e}, running} \in SUBSET (SUBSET Entry)
    BY DEF TypeOK, DeletePlain, WritePhases
  <1>2. CASE /\ CallDone(running \ {e}, {running \ {e}, running})
             /\ base' = base \ {e}
             /\ StillWriting /\ UNCHANGED <<left, cleared>>
    <2>1. left' \in SUBSET Protocols /\ cleared' \in BOOLEAN /\ base' \in SUBSET Entry
      BY <1>2 DEF TypeOK
    <2>2. QED
      BY <1>1, <1>2, <2>1, CallDoneTypes
  <1>3. CASE CallFails({running \ {e}}, {})
    BY <1>1, <1>3, CallFailsTypes
  <1>4. QED
    BY <1>2, <1>3 DEF DeletePlain

LEMMA PostPlainTypes ==
  ASSUME TypeOK, PostPlain
  PROVE  TypeOK'
  <1> DEFINE posted == {running \union T : T \in SUBSET Additions}
  <1>1. /\ phase # "idle"
        /\ running \union Additions \in SUBSET Entry
        /\ posted \in SUBSET (SUBSET Entry)
    BY TargetTypes DEF TypeOK, PostPlain, WritePhases
  <1>2. CASE /\ CallDone(running \union Additions, posted)
             /\ base' = base \union Additions
             /\ StillWriting /\ UNCHANGED <<left, cleared>>
    <2>1. left' \in SUBSET Protocols /\ cleared' \in BOOLEAN /\ base' \in SUBSET Entry
      BY <1>2, TargetTypes DEF TypeOK
    <2>2. QED
      BY <1>1, <1>2, <2>1, CallDoneTypes
  <1>3. CASE CallFails(posted, {})
    BY <1>1, <1>3, CallFailsTypes
  <1>4. QED
    BY <1>2, <1>3 DEF PostPlain

LEMMA SaveTypes ==
  ASSUME TypeOK, Save
  PROVE  TypeOK'
  <1>1. phase # "idle"
    BY DEF Save, WritePhases
  <1>2. CASE /\ startup' = running
             /\ Goto(IF phase = "write" THEN "verify" ELSE "recheck")
             /\ left' = {} /\ cleared' = FALSE /\ base' = {}
             /\ UNCHANGED <<scenario, running, plainReadable, alive, snap, desired, before>>
    <2>1. PICK ph \in {"verify", "recheck"} : Goto(ph)
      BY <1>2
    <2>2. QED
      BY <1>1, <1>2, <2>1, GotoTypes DEF TypeOK, Phases, ReadPhases
  <1>3. CASE CallFails({}, {running})
    BY <1>3, CallFailsTypes DEF TypeOK
  <1>4. QED
    BY <1>2, <1>3 DEF Save

\* Verify, the file, and the two reads of a rollback.
LEMMA FinishTypes ==
  ASSUME TypeOK, Verify \/ SaveMetadata \/ Current \/ Recheck
  PROVE  TypeOK'
  <1>1. phase # "idle" /\ UNCHANGED router
    BY DEF Verify, SaveMetadata, Current, Recheck, Loaded
  <1>2. /\ running' \in SUBSET Entry /\ startup' \in SUBSET Entry
        /\ plainReadable' \in BOOLEAN /\ scenario' \in Scenarios
        /\ scenario' \in Scenarios
    BY <1>1 DEF TypeOK, router
  <1>3. CASE Verify
    <2>1. CASE BeginRestore /\ UNCHANGED alive
      BY <1>1, <1>2, <2>1, BeginRestoreTypes DEF TypeOK
    <2>2. CASE Goto("metadata") /\ UNCHANGED <<alive, snap, desired, before, writing>>
      BY <1>1, <1>2, <2>2, GotoTypes DEF TypeOK, writing, Phases
    <2>3. CASE Return("ok") /\ UNCHANGED disabled
      BY <1>2, <2>3, ReturnTypes DEF TypeOK, Results
    <2>4. QED
      BY <1>3, <2>1, <2>2, <2>3 DEF Verify
  <1>4. CASE SaveMetadata
    <2> DEFINE kept == IF req.kind = "disable" THEN EntriesOf(snap, req.id) ELSE {}
    <2>1. CASE disabled' = [store EXCEPT ![req.id] = kept] /\ Return("ok")
      <3>1. disabled' \in [Id -> SUBSET Entry]
        BY <1>1, <2>1, RequestTypes, SectionTypes DEF TypeOK
      <3>2. QED
        BY <1>2, <2>1, <3>1, ReturnTypes DEF Results
    <2>2. CASE BeginRestore /\ UNCHANGED alive
      BY <1>1, <1>2, <2>2, BeginRestoreTypes DEF TypeOK
    <2>3. QED
      BY <1>4, <2>1, <2>2 DEF SaveMetadata
  <1>5. CASE Current
    BY <1>1, <1>2, <1>5, GotoTypes, ReadTypes, SectionTypes
    DEF Current, TypeOK, Phases, WritePhases
  <1>6. CASE Recheck
    <2>1. PICK r \in {"rolledback", "rollbackFailed"} : ReturnError(r)
      BY <1>6 DEF Recheck
    <2>2. QED
      BY <1>2, <2>1, ReturnErrorTypes DEF Results
  <1>7. QED
    BY <1>3, <1>4, <1>5, <1>6

\* A new request and the environment.
LEMMA OutsideTypes ==
  ASSUME TypeOK,
         \/ \E r \in Requests : Begin(r)
         \/ \E e \in Entry : AdminWrite(e)
         \/ Crash \/ Reboot
  PROVE  TypeOK'
  <1>1. ASSUME NEW r \in Requests, Begin(r) PROVE TypeOK'
    BY <1>1 DEF TypeOK, Begin, router, writing, Phases, ReadPhases, Results
  <1>2. ASSUME NEW e \in Entry, AdminWrite(e) PROVE TypeOK'
    <2>1. /\ running' \in SUBSET Entry /\ startup' \in SUBSET Entry
          /\ adminAdded' \in SUBSET Entry
      BY <1>2 DEF TypeOK, AdminWrite
    <2>2. QED
      BY <1>2, <2>1 DEF TypeOK, AdminWrite, plan, writing
  <1>3. CASE Crash
    BY <1>3, ReturnTypes DEF TypeOK, Crash, router, Results
  <1>4. CASE Reboot
    BY <1>4, ReturnTypes DEF TypeOK, Reboot, Results
  <1>5. QED
    BY <1>1, <1>2, <1>3, <1>4

LEMMA StepTypes == TypeOK /\ Step => TypeOK'
  BY GetTypes, DecideTypes, BaselineTypes, ClearSectionTypes, PostSectionTypes,
     DeletePlainTypes, PostPlainTypes, SaveTypes, FinishTypes
  DEF Step

LEMMA NextTypes == TypeOK /\ [Next]_vars => TypeOK'
  <1>1. TypeOK /\ Next => TypeOK'
    BY StepTypes, OutsideTypes DEF Next
  <1>2. TypeOK /\ UNCHANGED vars => TypeOK'
    BY DEF TypeOK, vars, router, plan, writing
  <1>3. QED
    BY <1>1, <1>2

LEMMA InitTypes == Init => TypeOK
  BY ConstantsAssumption DEF Init, TypeOK, NoRequest, NoFile, Phases, Results

\* Every reachable state has the shapes the code's types and phases give it;
\* in particular whoever holds the mutex is a request, never nobody.
THEOREM TypeCorrect == Spec => []TypeOK
  BY InitTypes, NextTypes, PTL DEF Spec

-----------------------------------------------------------------------------
(* Sections no request owns.                                               *)

\* What a request is going to write lies in the sections it may write: this
\* is the part of the state that keeps its calls where they belong.
OwnSections ==
  /\ (left = {} \/ (phase # "idle" /\ left \subseteq Changed))
  /\ base = Section(base, "DNS")

LEMMA CallFailsLeaves ==
  ASSUME TypeOK, NEW runs, NEW saves, CallFails(runs, saves)
  PROVE  running' \in runs \union {running}
  BY DEF CallFails

\* A write of section p touches no other.
LEMMA WriteStays ==
  ASSUME TypeOK, OwnSections,
         \/ \E p \in Secure : ClearSection(p) \/ PostSection(p)
         \/ \E e \in Entry : DeletePlain(e)
         \/ PostPlain
  PROVE  \A e \in Entry : ProtoOf[IdOf[e]] \notin Changed =>
           (e \in running' <=> e \in running)
  <1>1. ASSUME NEW p \in Secure, ClearSection(p)
        PROVE  \A e \in Entry : ProtoOf[IdOf[e]] \notin Changed =>
                 (e \in running' <=> e \in running)
    <2>1. p \in Changed
      BY <1>1 DEF OwnSections, ClearSection, SectionDue
    <2>2. running' \in {Emptied(p), running}
      BY <1>1, CallFailsLeaves DEF ClearSection, CallDone
    <2>3. QED
      BY <2>1, <2>2 DEF Emptied, Section
  <1>2. ASSUME NEW p \in Secure, PostSection(p)
        PROVE  \A e \in Entry : ProtoOf[IdOf[e]] \notin Changed =>
                 (e \in running' <=> e \in running)
    <2>1. p \in Changed
      BY <1>2 DEF OwnSections, PostSection, SectionDue
    <2>2. \E T \in SUBSET Section(Target, p) : running' = running \union T
      <3>1. running = running \union {}
        OBVIOUS
      <3>2. running' \in {running \union T : T \in SUBSET Section(Target, p)} \union {running}
        BY <1>2, CallFailsLeaves DEF PostSection, CallDone
      <3>3. QED
        BY <3>1, <3>2
    <2>3. QED
      BY <2>1, <2>2 DEF Section
  <1>3. ASSUME NEW d \in Entry, DeletePlain(d)
        PROVE  \A e \in Entry : ProtoOf[IdOf[e]] \notin Changed =>
                 (e \in running' <=> e \in running)
    <2>1. ProtoOf[IdOf[d]] \in Changed
      BY <1>3 DEF OwnSections, DeletePlain, Removals, Section
    <2>2. running' \in {running \ {d}, running}
      BY <1>3, CallFailsLeaves DEF DeletePlain, CallDone
    <2>3. QED
      BY <2>1, <2>2
  <1>4. CASE PostPlain
    <2>1. "DNS" \in Changed
      BY <1>4 DEF OwnSections, PostPlain
    <2>2. \E T \in SUBSET Additions : running' = running \union T
      <3>1. running = running \union {}
        OBVIOUS
      <3>2. running' \in {running \union T : T \in SUBSET Additions} \union {running}
        BY <1>4, CallFailsLeaves DEF PostPlain, CallDone
      <3>3. QED
        BY <3>1, <3>2
    <2>3. QED
      BY <2>1, <2>2 DEF Additions, Section
  <1>5. QED
    BY <1>1, <1>2, <1>3, <1>4

\* Every other step of a request leaves the live configuration alone.
LEMMA OtherStepsStay ==
  ASSUME TypeOK,
         \/ GetProxy \/ GetFails \/ Decide \/ Baseline
         \/ Save \/ Verify \/ SaveMetadata \/ Current \/ Recheck
  PROVE  running' = running
  BY CallFailsLeaves
  DEF GetProxy, GetFails, Decide, Create, Update, Delete, Disable, Enable,
      Baseline, Save, Verify, SaveMetadata, Current, Recheck, Loaded, router

LEMMA StepStays ==
  ASSUME TypeOK, OwnSections, Step
  PROVE  Sections(running', Protocols \ Changed) = Sections(running, Protocols \ Changed)
  <1>1. TypeOK'
    BY StepTypes
  <1>2. CASE \/ \E p \in Secure : ClearSection(p) \/ PostSection(p)
             \/ \E e \in Entry : DeletePlain(e)
             \/ PostPlain
    <2>1. running \in SUBSET Entry /\ running' \in SUBSET Entry
      BY <1>1 DEF TypeOK
    <2>2. \A e \in Entry : ProtoOf[IdOf[e]] \notin Changed =>
            (e \in running' <=> e \in running)
      BY <1>2, WriteStays
    <2>3. QED
      BY <2>1, <2>2 DEF Sections
  <1>3. CASE \/ GetProxy \/ GetFails \/ Decide \/ Baseline
             \/ Save \/ Verify \/ SaveMetadata \/ Current \/ Recheck
    BY <1>3, OtherStepsStay
  <1>4. QED
    BY <1>2, <1>3 DEF Step

\* How OwnSections survives: a return empties both sets, and whatever else
\* moves the request on keeps or resets them.
LEMMA ReturnOwns ==
  ASSUME NEW r, Return(r) PROVE OwnSections'
  BY DEF Return, OwnSections, Section

LEMMA BeginRestoreOwns ==
  ASSUME BeginRestore PROVE OwnSections'
  BY DEF BeginRestore, Goto, OwnSections, Section, Changed

LEMMA CallFailsOwns ==
  ASSUME NEW runs, NEW saves, CallFails(runs, saves)
  PROVE  OwnSections'
  BY ReturnOwns, BeginRestoreOwns DEF CallFails, Abandon, ReturnError

LEMMA SameOwns ==
  ASSUME OwnSections, UNCHANGED req, phase' # "idle" \/ UNCHANGED phase,
         left' \subseteq left, base' = Section(base', "DNS")
  PROVE  OwnSections'
  BY DEF OwnSections, Changed

LEMMA StepOwns ==
  ASSUME TypeOK, OwnSections, Step
  PROVE  OwnSections'
  <1>1. CASE GetProxy
    BY <1>1, SameOwns DEF GetProxy, plan, writing, OwnSections
  <1>2. CASE GetFails
    BY <1>2, CallFailsOwns DEF GetFails
  <1>3. CASE Decide
    <2>1. CASE Goto("baseline") /\ UNCHANGED writing
      BY <2>1, SameOwns DEF Goto, writing, OwnSections
    <2>2. QED
      BY <1>3, <2>1, ReturnOwns
      DEF Decide, Create, Update, Delete, Disable, Enable, Refuse, SaveFile,
          ApplyMutation, ReturnError
  <1>4. CASE Baseline
    <2>1. CASE Goto("write") /\ left' = Changed /\ base' = Section(Read, "DNS")
      BY <2>1 DEF Goto, OwnSections, Changed, Section
    <2>2. QED
      BY <1>4, <2>1, ReturnOwns DEF Baseline, ReturnError
  <1>5. ASSUME NEW p \in Secure, ClearSection(p) PROVE OwnSections'
    <2>1. CASE CallFails({Emptied(p)}, {})
      BY <2>1, CallFailsOwns
    <2>2. CASE StillWriting /\ UNCHANGED base /\ left' \subseteq left
      BY <2>2, SameOwns DEF StillWriting, plan, OwnSections
    <2>3. QED
      BY <1>5, <2>1, <2>2 DEF ClearSection, SectionWritten
  <1>6. ASSUME NEW p \in Secure, PostSection(p) PROVE OwnSections'
    <2>1. ASSUME NEW runs, CallFails(runs, {}) PROVE OwnSections'
      BY <2>1, CallFailsOwns
    <2>2. CASE StillWriting /\ UNCHANGED base /\ left' \subseteq left
      BY <2>2, SameOwns DEF StillWriting, plan, OwnSections
    <2>3. QED
      BY <1>6, <2>1, <2>2 DEF PostSection, SectionWritten
  <1>7. ASSUME NEW e \in Entry, DeletePlain(e) PROVE OwnSections'
    <2>1. CASE CallFails({running \ {e}}, {})
      BY <2>1, CallFailsOwns
    <2>2. CASE StillWriting /\ base' = base \ {e} /\ UNCHANGED left
      <3>1. base' = Section(base', "DNS")
        BY <2>2 DEF OwnSections, Section
      <3>2. QED
        BY <2>2, <3>1, SameOwns DEF StillWriting, plan
    <2>3. QED
      BY <1>7, <2>1, <2>2 DEF DeletePlain
  <1>8. CASE PostPlain
    <2>1. ASSUME NEW runs, CallFails(runs, {}) PROVE OwnSections'
      BY <2>1, CallFailsOwns
    <2>2. CASE StillWriting /\ base' = base \union Additions /\ UNCHANGED left
      <3>1. base' = Section(base', "DNS")
        BY <2>2 DEF OwnSections, Section, Additions
      <3>2. QED
        BY <2>2, <3>1, SameOwns DEF StillWriting, plan
    <2>3. QED
      BY <1>8, <2>1, <2>2 DEF PostPlain
  <1>9. CASE Save
    <2>1. CASE left' = {} /\ base' = {}
      BY <2>1 DEF OwnSections, Section
    <2>2. QED
      BY <1>9, <2>1, CallFailsOwns DEF Save
  <1>10. CASE Verify \/ SaveMetadata
    <2>1. CASE Goto("metadata") /\ UNCHANGED writing
      BY <2>1, SameOwns DEF Goto, writing, OwnSections
    <2>2. QED
      BY <1>10, <2>1, ReturnOwns, BeginRestoreOwns DEF Verify, SaveMetadata
  <1>11. CASE Current
    <2>1. base' = Section(base', "DNS")
      BY <1>11 DEF Current, Section
    <2>2. QED
      BY <1>11, <2>1, SameOwns DEF Current, Goto
  <1>12. CASE Recheck
    BY <1>12, ReturnOwns DEF Recheck, ReturnError
  <1>13. QED
    BY <1>1, <1>2, <1>3, <1>4, <1>5, <1>6, <1>7, <1>8, <1>9, <1>10, <1>11, <1>12
    DEF Step

LEMMA NextOwns == TypeOK /\ OwnSections /\ [Next]_vars => OwnSections'
  <1> SUFFICES ASSUME TypeOK, OwnSections, [Next]_vars PROVE OwnSections'
    OBVIOUS
  <1>1. ASSUME NEW r \in Requests, Begin(r) PROVE OwnSections'
    BY <1>1 DEF Begin, writing, OwnSections
  <1>2. ASSUME NEW e \in Entry, AdminWrite(e) PROVE OwnSections'
    BY <1>2, SameOwns DEF AdminWrite, plan, writing, OwnSections
  <1>3. CASE Crash \/ Reboot
    BY <1>3, ReturnOwns DEF Crash, Reboot
  <1>4. CASE UNCHANGED vars
    BY <1>4, SameOwns DEF vars, plan, writing, OwnSections
  <1>5. QED
    BY <1>1, <1>2, <1>3, <1>4, StepOwns DEF Next

\* However many calls fail, are dropped or are repeated by a rollback, and
\* whatever else happens to the router meanwhile, a request only ever writes
\* the sections of the protocols it is about.
THEOREM OthersUntouched == Spec => OnlyChangedSections
  <1>1. Init => OwnSections
    BY DEF Init, OwnSections, Section
  <1>2. Spec => [](TypeOK /\ OwnSections)
    BY <1>1, NextOwns, TypeCorrect, PTL DEF Spec
  <1>3. TypeOK /\ OwnSections /\ [Next]_vars =>
          [Step => Sections(running', Protocols \ Changed) =
                   Sections(running, Protocols \ Changed)]_vars
    BY StepStays
  <1>4. QED
    BY <1>2, <1>3, PTL DEF Spec, OnlyChangedSections

-----------------------------------------------------------------------------
(* What an answer is worth.                                                *)

\* Nobody but the module edits these settings.
OnlyWriter == \A s \in Scenarios : ~s.admin

LEMMA ReturnUndisturbed ==
  ASSUME NEW r, Return(r) PROVE Undisturbed'
  BY DEF Return, Undisturbed, InMotion

\* A request that moves on between two snapshots keeps its footing if what
\* its new phase relies on holds.
LEMMA GotoUndisturbed ==
  ASSUME Undisturbed, phase # "idle", NEW ph, Goto(ph),
         ph \in InMotion /\ "DNS" \in Changed => plainReadable',
         ph \in {"verify", "metadata", "recheck"} => startup' = running',
         ph = "metadata" =>
           Sections(running', Changed) = Sections(desired', Changed)
  PROVE  Undisturbed'
  BY DEF Undisturbed, Goto, Changed

LEMMA BeginRestoreUndisturbed ==
  ASSUME Undisturbed, phase \in InMotion, BeginRestore, UNCHANGED plainReadable
  PROVE  Undisturbed'
  <1>1. PICK ph \in {"current", "restore"} : Goto(ph)
    BY DEF BeginRestore
  <1>2. QED
    BY <1>1, GotoUndisturbed DEF Undisturbed, InMotion

LEMMA CallFailsUndisturbed ==
  ASSUME Undisturbed, NEW runs, NEW saves, CallFails(runs, saves)
  PROVE  Undisturbed'
  <1>1. CASE phase \in {"write", "verify"} /\ BeginRestore /\ UNCHANGED plainReadable
    BY <1>1, BeginRestoreUndisturbed DEF InMotion
  <1>2. QED
    BY <1>1, ReturnUndisturbed DEF CallFails, Abandon, ReturnError

\* A write reported as done leaves the request where it was.
LEMMA StillWritingUndisturbed ==
  ASSUME Undisturbed, phase \in WritePhases, StillWriting, UNCHANGED plainReadable
  PROVE  Undisturbed'
  BY DEF Undisturbed, StillWriting, plan, WritePhases, ReadPhases, Changed

\* A completed snapshot shows the sections of the request as they are.
LEMMA ReadIsRunning ==
  ASSUME TypeOK, Undisturbed, phase \in InMotion, half, NEW S \in SUBSET Entry
  PROVE  Matches(S) => Sections(running, Changed) = Sections(S, Changed)
  <1>1. SUFFICES ASSUME Matches(S), NEW e \in Entry, ProtoOf[IdOf[e]] \in Changed
                 PROVE  e \in running <=> e \in S
    BY DEF Sections, TypeOK
  <1> DEFINE p == ProtoOf[IdOf[e]]
  <1>2. seen = Sections(running, Secure) /\ ("DNS" \in Changed => plainReadable)
    BY DEF Undisturbed
  <1>3. e \in Read <=> e \in S
    BY <1>1 DEF Matches, Section
  <1>4. CASE p = "DNS"
    BY <1>1, <1>2, <1>3, <1>4 DEF Read, Section, Sections, Secure
  <1>5. CASE p # "DNS"
    <2>1. p \in Secure
      BY <1>5, ConstantsAssumption DEF Protocols
    <2>2. QED
      BY <1>2, <1>3, <1>5, <2>1 DEF Read, Section, Sections
  <1>6. QED
    BY <1>4, <1>5

LEMMA DecideUndisturbed ==
  ASSUME Undisturbed, Decide PROVE Undisturbed'
  <1>1. CASE phase # "idle" /\ Goto("baseline")
    BY <1>1, GotoUndisturbed DEF InMotion
  <1>2. QED
    BY <1>1, ReturnUndisturbed
    DEF Decide, Create, Update, Delete, Disable, Enable, Loaded, Refuse,
        SaveFile, ApplyMutation, ReturnError

LEMMA BaselineUndisturbed ==
  ASSUME Undisturbed, Baseline PROVE Undisturbed'
  <1>1. CASE /\ Goto("write") /\ phase = "baseline" /\ UNCHANGED router
             /\ "DNS" \in Changed => plainReadable
    BY <1>1, GotoUndisturbed DEF router
  <1>2. QED
    BY <1>1, ReturnUndisturbed DEF Baseline, Loaded, ReturnError

LEMMA WriteUndisturbed ==
  ASSUME Undisturbed,
         \/ \E p \in Secure : ClearSection(p) \/ PostSection(p)
         \/ \E e \in Entry : DeletePlain(e)
         \/ PostPlain
  PROVE  Undisturbed'
  <1>1. ASSUME NEW runs, CallFails(runs, {}) PROVE Undisturbed'
    BY <1>1, CallFailsUndisturbed
  <1>2. CASE phase \in WritePhases /\ StillWriting /\ UNCHANGED plainReadable
    BY <1>2, StillWritingUndisturbed
  <1>3. QED
    BY <1>1, <1>2
    DEF ClearSection, PostSection, DeletePlain, PostPlain, SectionDue, CallDone

LEMMA SaveUndisturbed ==
  ASSUME Undisturbed, Save PROVE Undisturbed'
  <1>1. CASE /\ phase \in WritePhases /\ startup' = running
             /\ Goto(IF phase = "write" THEN "verify" ELSE "recheck")
             /\ UNCHANGED <<running, plainReadable>>
    <2>1. PICK ph \in {"verify", "recheck"} : Goto(ph)
      BY <1>1
    <2>2. "DNS" \in Changed => plainReadable
      BY <1>1 DEF Undisturbed, InMotion, WritePhases
    <2>3. QED
      BY <1>1, <2>1, <2>2, GotoUndisturbed DEF WritePhases
  <1>2. QED
    BY <1>1, CallFailsUndisturbed DEF Save

LEMMA FinishUndisturbed ==
  ASSUME TypeOK, Undisturbed, Verify \/ SaveMetadata \/ Current \/ Recheck
  PROVE  Undisturbed'
  <1>1. CASE Verify
    <2>1. CASE BeginRestore
      BY <1>1, <2>1, BeginRestoreUndisturbed DEF Verify, Loaded, router, InMotion
    <2>2. CASE Matches(desired) /\ Goto("metadata") /\ UNCHANGED desired
      <3>1. Sections(running, Changed) = Sections(desired, Changed)
        BY <1>1, <2>2, ReadIsRunning DEF Verify, Loaded, InMotion, TypeOK
      <3>2. startup = running /\ ("DNS" \in Changed => plainReadable)
        BY <1>1 DEF Undisturbed, Verify, Loaded, InMotion
      <3>3. QED
        BY <1>1, <2>2, <3>1, <3>2, GotoUndisturbed DEF Verify, Loaded, router
    <2>3. QED
      BY <1>1, <2>1, <2>2, ReturnUndisturbed DEF Verify
  <1>2. CASE SaveMetadata
    BY <1>2, ReturnUndisturbed, BeginRestoreUndisturbed
    DEF SaveMetadata, router, InMotion
  <1>3. CASE Current
    BY <1>3, GotoUndisturbed DEF Current, Loaded, router, Undisturbed, InMotion
  <1>4. CASE Recheck
    BY <1>4, ReturnUndisturbed DEF Recheck, ReturnError
  <1>5. QED
    BY <1>1, <1>2, <1>3, <1>4

LEMMA NextUndisturbed ==
  ASSUME ~AdminWrites, TypeOK, Undisturbed, [Next]_vars
  PROVE  Undisturbed'
  <1>1. CASE Step
    <2>1. CASE GetProxy
      BY <2>1 DEF GetProxy, Undisturbed, router, plan, Changed, ReadPhases
    <2>2. CASE GetFails
      BY <2>2, CallFailsUndisturbed DEF GetFails
    <2>3. QED
      BY <1>1, <2>1, <2>2, DecideUndisturbed, BaselineUndisturbed,
         WriteUndisturbed, SaveUndisturbed, FinishUndisturbed
      DEF Step
  <1>2. ASSUME NEW r \in Requests, Begin(r) PROVE Undisturbed'
    BY <1>2 DEF Begin, Undisturbed, InMotion, ReadPhases
  <1>3. ASSUME NEW e \in Entry, AdminWrite(e) PROVE FALSE
    BY <1>3 DEF AdminWrite
  <1>4. CASE Crash \/ Reboot
    BY <1>4, ReturnUndisturbed DEF Crash, Reboot
  <1>5. CASE UNCHANGED vars
    BY <1>5 DEF Undisturbed, vars, router, plan, Changed
  <1>6. QED
    BY <1>1, <1>2, <1>3, <1>4, <1>5 DEF Next

\* What the outside may do is settled from the start.
LEMMA ScenarioStays == TypeOK /\ [Next]_vars => UNCHANGED scenario
  <1> SUFFICES ASSUME TypeOK, [Next]_vars PROVE UNCHANGED scenario
    OBVIOUS
  <1>1. CASE \/ GetProxy \/ GetFails \/ Baseline \/ Save \/ Verify
             \/ SaveMetadata \/ Current \/ Recheck
    BY <1>1
    DEF GetProxy, GetFails, Baseline, Save, Verify, SaveMetadata, Current,
        Recheck, Loaded, CallFails, router
  <1>2. CASE Decide
    BY <1>2 DEF Decide, Create, Update, Delete, Disable, Enable, Loaded, router
  <1>3. ASSUME NEW p \in Secure, ClearSection(p) \/ PostSection(p)
        PROVE  UNCHANGED scenario
    BY <1>3 DEF ClearSection, PostSection, CallDone, CallFails
  <1>4. ASSUME NEW e \in Entry, DeletePlain(e) PROVE UNCHANGED scenario
    BY <1>4 DEF DeletePlain, CallDone, CallFails
  <1>5. CASE PostPlain
    BY <1>5 DEF PostPlain, CallDone, CallFails
  <1>6. QED
    BY <1>1, <1>2, <1>3, <1>4, <1>5
    DEF Next, Step, Begin, AdminWrite, Crash, Reboot, router, vars

LEMMA QuietUndisturbed == Spec => [](~AdminWrites => Undisturbed)
  <1>1. Init => Undisturbed
    BY DEF Init, Undisturbed, InMotion
  <1>2. /\ TypeOK /\ (~AdminWrites => Undisturbed) /\ [Next]_vars
        => (~AdminWrites => Undisturbed)'
    BY NextUndisturbed, ScenarioStays DEF AdminWrites
  <1>3. QED
    BY <1>1, <1>2, TypeCorrect, PTL DEF Spec

\* While the module is the only writer, what a request has read is what the
\* router has, and the file lags behind the router, never ahead of it.
THEOREM AlwaysUndisturbed ==
  ASSUME OnlyWriter
  PROVE  Spec => []Undisturbed
  <1>1. TypeOK /\ (~AdminWrites => Undisturbed) => Undisturbed
    BY DEF TypeOK, OnlyWriter, AdminWrites
  <1>2. QED
    BY <1>1, QuietUndisturbed, TypeCorrect, PTL

\* Only the two last steps of a mutation answer.
LEMMA Answers ==
  ASSUME TypeOK, Undisturbed, [Next]_vars, result' # result
  PROVE  \/ phase = "idle" /\ result' = "none"
         \/ phase = "snapshot"
         \/ result' \in {"refused", "failed", "rollbackFailed", "crashed"}
         \/ Verify /\ Matches(desired) /\ result' = "ok" /\ UNCHANGED router
         \/ phase = "metadata" /\ result' = "ok" /\ UNCHANGED router
         \/ /\ Recheck /\ Matches(before) /\ UNCHANGED router
            /\ result' = "rolledback" /\ disabled' \in {disabled, store}
  <1>1. ASSUME NEW up \in BOOLEAN, Abandon(up)
        PROVE  result' \in {"refused", "failed", "rollbackFailed"}
    BY <1>1 DEF Abandon, BeginRestore, Goto, ReturnError, Return
  <1>2. ASSUME NEW runs, NEW saves, CallFails(runs, saves)
        PROVE  result' \in {"refused", "failed", "rollbackFailed"}
    BY <1>1, <1>2 DEF CallFails
  <1>3. CASE \E r \in Requests : Begin(r)
    BY <1>3 DEF Begin
  <1>4. CASE \E e \in Entry : AdminWrite(e)
    BY <1>4 DEF AdminWrite
  <1>5. CASE Crash \/ Reboot
    BY <1>5 DEF Crash, Reboot, Return
  <1>6. CASE GetProxy \/ GetFails
    BY <1>2, <1>6 DEF GetProxy, GetFails
  <1>7. CASE Decide
    BY <1>7 DEF Decide, Create, Update, Delete, Disable, Enable, Loaded
  <1>8. CASE Baseline
    BY <1>8 DEF Baseline, Goto, ReturnError, Return
  <1>9. ASSUME NEW p \in Secure, ClearSection(p) \/ PostSection(p)
        PROVE  result' \in {"refused", "failed", "rollbackFailed"}
    BY <1>2, <1>9 DEF ClearSection, PostSection, StillWriting
  <1>10. ASSUME NEW e \in Entry, DeletePlain(e)
         PROVE  result' \in {"refused", "failed", "rollbackFailed"}
    BY <1>2, <1>10 DEF DeletePlain, StillWriting
  <1>11. CASE PostPlain
    BY <1>2, <1>11 DEF PostPlain, StillWriting
  <1>12. CASE Save
    BY <1>2, <1>12 DEF Save, Goto
  <1>13. CASE Verify
    BY <1>13 DEF Verify, Loaded, BeginRestore, Goto, Return
  <1>14. CASE SaveMetadata
    BY <1>14 DEF SaveMetadata, BeginRestore, Goto, Return
  <1>15. CASE Current
    BY <1>15 DEF Current, Goto
  <1>16. CASE Recheck
    BY <1>16 DEF Recheck, Loaded, ReturnError, Return
  <1>17. CASE UNCHANGED vars
    BY <1>17 DEF vars
  <1>18. QED
    BY <1>3, <1>4, <1>5, <1>6, <1>7, <1>8, <1>9, <1>10, <1>11, <1>12, <1>13,
       <1>14, <1>15, <1>16, <1>17
    DEF Next, Step

\* While nobody else writes, OK means installed: the sections of the request
\* are exactly the ones asked for, and a restart would find them again.
THEOREM OkInstalled ==
  ASSUME OnlyWriter
  PROVE  Spec => OkIsInstalled
  <1>1. ASSUME TypeOK, Undisturbed, [Next]_vars,
               phase \in {"verify", "metadata"}, result' = "ok"
        PROVE  /\ Sections(running', Changed) = Sections(desired, Changed)
               /\ startup' = running'
    <2>1. result' # result
      BY <1>1 DEF Undisturbed
    <2>2. UNCHANGED router /\ startup = running
      BY <1>1, <2>1, Answers DEF Undisturbed
    <2>3. Sections(running, Changed) = Sections(desired, Changed)
      <3>1. CASE phase = "metadata"
        BY <1>1, <3>1 DEF Undisturbed
      <3>2. CASE phase = "verify"
        <4>1. half /\ Matches(desired)
          BY <1>1, <2>1, <3>2, Answers DEF Verify, Loaded
        <4>2. QED
          BY <1>1, <3>2, <4>1, ReadIsRunning DEF InMotion, TypeOK
      <3>3. QED
        BY <1>1, <3>1, <3>2
    <2>4. QED
      BY <2>2, <2>3 DEF router
  <1>2. Spec => [](TypeOK /\ Undisturbed)
    BY AlwaysUndisturbed, TypeCorrect, PTL
  <1>3. TypeOK /\ Undisturbed /\ [Next]_vars =>
          [(phase \in {"verify", "metadata"} /\ result' = "ok" =>
             /\ Sections(running', Changed) = Sections(desired, Changed)
             /\ startup' = running')]_vars
    BY <1>1
  <1>4. QED
    BY <1>2, <1>3, PTL DEF Spec, OkIsInstalled

\* While nobody else writes, "rolled back" means undone: the sections of the
\* request and the file are what they were before it wrote anything.
THEOREM RolledBackUndone ==
  ASSUME OnlyWriter
  PROVE  Spec => RolledBackIsBefore
  <1>1. ASSUME TypeOK, Undisturbed, [Next]_vars,
               result # "rolledback", result' = "rolledback"
        PROVE  /\ Sections(running', Changed) = Sections(before, Changed)
               /\ startup' = running'
               /\ disabled' = store
    <2>1. CASE phase = "snapshot"
      <3>1. CASE GetProxy \/ GetFails \/ Decide
        BY <1>1, <2>1, <3>1
        DEF GetProxy, GetFails, CallFails, Abandon, Decide, Create, Update,
            Delete, Disable, Enable, Refuse, SaveFile, ApplyMutation, Goto,
            ReturnError, Return
      <3>2. QED
        BY <1>1, <2>1, <3>1
        DEF Next, Step, Begin, AdminWrite, Crash, Reboot, Return, vars,
            Baseline, Loaded, ClearSection, PostSection, SectionDue,
            DeletePlain, PostPlain, WritePhases, Save, Verify, SaveMetadata,
            Current, Recheck
    <2>2. CASE phase # "snapshot"
      <3>1. Recheck /\ Matches(before) /\ UNCHANGED router
            /\ disabled' \in {disabled, store}
        BY <1>1, <2>2, Answers
      <3>2. phase = "recheck" /\ half
        BY <3>1 DEF Recheck, Loaded
      <3>3. /\ startup = running /\ store = disabled
            /\ Sections(running, Changed) = Sections(before, Changed)
        BY <1>1, <3>1, <3>2, ReadIsRunning DEF Undisturbed, InMotion, TypeOK
      <3>4. QED
        BY <3>1, <3>3 DEF router
    <2>3. QED
      BY <2>1, <2>2
  <1>2. Spec => [](TypeOK /\ Undisturbed)
    BY AlwaysUndisturbed, TypeCorrect, PTL
  <1>3. TypeOK /\ Undisturbed /\ [Next]_vars =>
          [result # "rolledback" /\ result' = "rolledback" =>
             /\ Sections(running', Changed) = Sections(before, Changed)
             /\ startup' = running'
             /\ disabled' = store]_vars
    BY <1>1
  <1>4. QED
    BY <1>2, <1>3, PTL DEF Spec, RolledBackIsBefore

-----------------------------------------------------------------------------
(* The file.                                                               *)

\* What the file is about to be: as it is, as it was read, or changed for the
\* one resolver the request is about.
LEMMA FileMoves ==
  ASSUME TypeOK, [Next]_vars
  PROVE  \/ disabled' \in {disabled, store}
         \/ /\ phase = "snapshot" /\ req.kind \in {"update", "delete"}
            /\ disabled' \in {[store EXCEPT ![req.id] = {}],
                              [store EXCEPT ![req.id] = {}, ![req.new] = req.entries]}
         \/ phase = "metadata" /\ SaveMetadata
  <1>1. ASSUME NEW up \in BOOLEAN, Abandon(up)
        PROVE  disabled' \in {disabled, store}
    BY <1>1 DEF Abandon, BeginRestore, Goto, ReturnError
  <1>2. ASSUME NEW runs, NEW saves, CallFails(runs, saves)
        PROVE  disabled' \in {disabled, store}
    BY <1>1, <1>2 DEF CallFails
  <1>3. CASE \/ \E r \in Requests : Begin(r)
             \/ \E e \in Entry : AdminWrite(e)
             \/ Crash \/ Reboot \/ UNCHANGED vars
    BY <1>3 DEF Begin, AdminWrite, Crash, Reboot, vars
  <1>4. CASE GetProxy \/ GetFails
    BY <1>2, <1>4 DEF GetProxy, GetFails
  <1>5. ASSUME NEW d, ApplyMutation(d) PROVE disabled' \in {disabled, store}
    BY <1>5 DEF ApplyMutation, Goto, ReturnError
  <1>6. CASE Create \/ Disable \/ Enable
    BY <1>5, <1>6 DEF Create, Disable, Enable, Refuse
  <1>7. CASE Update \/ Delete
    BY <1>5, <1>7 DEF Update, Delete, Refuse, SaveFile, Loaded
  <1>8. CASE Baseline \/ Verify \/ Current \/ Recheck
    BY <1>8
    DEF Baseline, Verify, Current, Recheck, Goto, BeginRestore, Return, ReturnError
  <1>9. CASE SaveMetadata
    BY <1>9 DEF SaveMetadata
  <1>10. ASSUME NEW p \in Secure, ClearSection(p) \/ PostSection(p)
         PROVE  disabled' \in {disabled, store}
    BY <1>2, <1>10 DEF ClearSection, PostSection, StillWriting
  <1>11. ASSUME NEW e \in Entry, DeletePlain(e)
         PROVE  disabled' \in {disabled, store}
    BY <1>2, <1>11 DEF DeletePlain, StillWriting
  <1>12. CASE PostPlain \/ Save
    BY <1>2, <1>12 DEF PostPlain, Save, StillWriting, Goto
  <1>13. QED
    BY <1>3, <1>4, <1>6, <1>7, <1>8, <1>9, <1>10, <1>11, <1>12
    DEF Next, Step, Decide

\* A request copies the file when it begins and forgets the copy at the end.
LEMMA StoreMoves ==
  ASSUME TypeOK, [Next]_vars
  PROVE  store' \in {store, disabled, NoFile}
  <1>1. ASSUME NEW runs, NEW saves, CallFails(runs, saves)
        PROVE  store' \in {store, NoFile}
    BY <1>1 DEF CallFails, Abandon, BeginRestore, Goto, ReturnError, Return
  <1>2. CASE \/ \E r \in Requests : Begin(r)
             \/ \E e \in Entry : AdminWrite(e)
             \/ Crash \/ Reboot \/ UNCHANGED vars
    BY <1>2 DEF Begin, AdminWrite, Crash, Reboot, Return, vars, plan
  <1>3. CASE GetProxy \/ GetFails
    BY <1>1, <1>3 DEF GetProxy, GetFails, plan
  <1>4. CASE Decide
    BY <1>4
    DEF Decide, Create, Update, Delete, Disable, Enable, Refuse, SaveFile,
        ApplyMutation, Goto, ReturnError, Return
  <1>5. CASE Baseline \/ Verify \/ SaveMetadata \/ Current \/ Recheck
    BY <1>5
    DEF Baseline, Verify, SaveMetadata, Current, Recheck, Goto, BeginRestore,
        Return, ReturnError
  <1>6. ASSUME NEW p \in Secure, ClearSection(p) \/ PostSection(p)
        PROVE  store' \in {store, NoFile}
    BY <1>1, <1>6 DEF ClearSection, PostSection, StillWriting, plan
  <1>7. ASSUME NEW e \in Entry, DeletePlain(e) PROVE store' \in {store, NoFile}
    BY <1>1, <1>7 DEF DeletePlain, StillWriting, plan
  <1>8. CASE PostPlain \/ Save
    BY <1>1, <1>8 DEF PostPlain, Save, StillWriting, Goto, plan
  <1>9. QED
    BY <1>2, <1>3, <1>4, <1>5, <1>6, <1>7, <1>8 DEF Next, Step

\* The file keeps under a resolver only entries of that resolver.
OwnEntries ==
  \A i \in Id : \A e \in disabled[i] \union store[i] : IdOf[e] = i

LEMMA NextOwnEntries ==
  ASSUME TypeOK, OwnEntries, [Next]_vars
  PROVE  OwnEntries'
  <1>1. \A i \in Id : \A e \in store'[i] : IdOf[e] = i
    BY StoreMoves DEF OwnEntries, NoFile
  <1>2. \A i \in Id : \A e \in disabled'[i] : IdOf[e] = i
    <2>1. CASE disabled' \in {disabled, store}
      BY <2>1 DEF OwnEntries
    <2>2. CASE /\ phase = "snapshot" /\ req.kind \in {"update", "delete"}
               /\ disabled' \in {[store EXCEPT ![req.id] = {}],
                                 [store EXCEPT ![req.id] = {}, ![req.new] = req.entries]}
      <3>1. /\ req.id \in Id /\ req.new \in Id
            /\ \A e \in req.entries : IdOf[e] = req.new
        BY <2>2 DEF TypeOK, Requests, NoRequest
      <3>2. QED
        BY <2>2, <3>1 DEF OwnEntries, TypeOK
    <2>3. CASE phase = "metadata" /\ SaveMetadata
      <3>1. PICK kept \in {{}, EntriesOf(snap, req.id)} :
              disabled' \in {disabled, [store EXCEPT ![req.id] = kept]}
        BY <2>3 DEF SaveMetadata, BeginRestore, Goto
      <3>2. \A e \in kept : IdOf[e] = req.id
        BY <3>1 DEF EntriesOf
      <3>3. QED
        BY <3>1, <3>2 DEF OwnEntries, TypeOK
    <2>4. QED
      BY <2>1, <2>2, <2>3, FileMoves
  <1>3. QED
    BY <1>1, <1>2 DEF OwnEntries

\* Once the request is decided its plan stands until it returns, and once it
\* writes so does the snapshot it would put back.
LEMMA PlanStays ==
  ASSUME TypeOK, [Next]_vars, phase \in InMotion \union {"baseline"}
  PROVE  \/ phase' = "idle"
         \/ /\ UNCHANGED <<req, store, snap, desired>>
            /\ phase # "baseline" => UNCHANGED before
  <1>1. ASSUME BeginRestore PROVE UNCHANGED <<req, store, snap, desired, before>>
    BY <1>1 DEF BeginRestore, Goto
  <1>2. ASSUME NEW runs, NEW saves, CallFails(runs, saves)
        PROVE  phase' = "idle" \/ UNCHANGED <<req, store, snap, desired, before>>
    BY <1>1, <1>2 DEF CallFails, Abandon, ReturnError, Return
  <1>3. CASE \/ \E r \in Requests : Begin(r)
             \/ \E e \in Entry : AdminWrite(e)
             \/ Crash \/ Reboot \/ UNCHANGED vars
    BY <1>3 DEF Begin, AdminWrite, Crash, Reboot, Return, vars, plan, InMotion
  <1>4. CASE GetProxy \/ GetFails
    BY <1>2, <1>4 DEF GetProxy, GetFails, plan
  <1>5. CASE Decide
    BY <1>5
    DEF Decide, Create, Update, Delete, Disable, Enable, Loaded, InMotion
  <1>6. CASE Baseline
    BY <1>6 DEF Baseline, Loaded, Goto, Return, ReturnError, InMotion
  <1>7. CASE Verify \/ SaveMetadata \/ Current \/ Recheck
    BY <1>1, <1>7
    DEF Verify, SaveMetadata, Current, Recheck, Goto, Return, ReturnError
  <1>8. ASSUME NEW p \in Secure, ClearSection(p) \/ PostSection(p)
        PROVE  phase' = "idle" \/ UNCHANGED <<req, store, snap, desired, before>>
    BY <1>2, <1>8 DEF ClearSection, PostSection, StillWriting, plan
  <1>9. ASSUME NEW e \in Entry, DeletePlain(e)
        PROVE  phase' = "idle" \/ UNCHANGED <<req, store, snap, desired, before>>
    BY <1>2, <1>9 DEF DeletePlain, StillWriting, plan
  <1>10. CASE PostPlain \/ Save
    BY <1>2, <1>10 DEF PostPlain, Save, StillWriting, Goto, plan
  <1>11. QED
    BY <1>3, <1>4, <1>5, <1>6, <1>7, <1>8, <1>9, <1>10 DEF Next, Step

\* A request gets past its decision only from there.
LEMMA PlanStarts ==
  ASSUME TypeOK, [Next]_vars, phase' \in InMotion \union {"baseline"},
         phase \notin InMotion \union {"baseline"}
  PROVE  phase = "snapshot" /\ Decide
  <1>1. phase \in {"idle", "snapshot"}
    BY DEF TypeOK, Phases, ReadPhases, WritePhases, InMotion
  <1>2. ~(\E r \in Requests : Begin(r)) /\ ~(Crash \/ Reboot \/ UNCHANGED vars)
    BY DEF Begin, Crash, Reboot, Return, vars, InMotion
  <1>3. ~(\E e \in Entry : AdminWrite(e)) /\ ~GetProxy
    BY DEF AdminWrite, GetProxy
  <1>4. ~GetFails
    BY <1>1 DEF GetFails, CallFails, Abandon, ReturnError, Return, InMotion
  <1>5. QED
    BY <1>1, <1>2, <1>3, <1>4
    DEF Next, Step, Decide, Create, Update, Delete, Disable, Enable, Baseline,
        ClearSection, PostSection, SectionDue, DeletePlain, PostPlain, Save,
        Verify, SaveMetadata, Current, Recheck, Loaded, WritePhases

\* An Enable under way wants at least what the file keeps.
Enabling ==
  phase \in InMotion \union {"baseline"} /\ req.kind = "enable" =>
    store[req.id] \subseteq desired

LEMMA NextEnabling ==
  ASSUME TypeOK, Enabling, [Next]_vars PROVE Enabling'
  <1>1. CASE phase \in InMotion \union {"baseline"}
    BY <1>1, PlanStays DEF Enabling, InMotion
  <1>2. CASE /\ phase' \in InMotion \union {"baseline"}
             /\ phase \notin InMotion \union {"baseline"}
    <2>1. Decide /\ UNCHANGED req
      BY <1>2, PlanStarts
      DEF Decide, Create, Update, Delete, Disable, Enable, Refuse, SaveFile,
          ApplyMutation, Goto, ReturnError, Return, InMotion
    <2>2. SUFFICES ASSUME req.kind = "enable" PROVE Enabling'
      BY <2>1 DEF Enabling
    <2>3. ApplyMutation(Read \union store[req.id])
      BY <1>2, <2>1, <2>2
      DEF Decide, Create, Update, Delete, Disable, Enable, Refuse, Return, InMotion
    <2>4. QED
      BY <1>2, <2>1, <2>3
      DEF ApplyMutation, Goto, ReturnError, Return, InMotion, Enabling
  <1>3. QED
    BY <1>1, <1>2 DEF Enabling

\* Enabling a resolver never loses it: the file lets go of its entries only
\* in the step that finds all of them live and saved, whatever calls failed or
\* were dropped before it and wherever a crash or a restart cut in.
THEOREM EnableLosesNothing == Spec => EnableNeverLoses
  <1>1. Init => OwnEntries /\ Enabling
    BY DEF Init, OwnEntries, Enabling, NoFile, InMotion
  <1> DEFINE Inv == /\ TypeOK /\ OwnEntries /\ Enabling
                    /\ ~AdminWrites => Undisturbed
  <1>2. Spec => []Inv
    BY <1>1, NextOwnEntries, NextEnabling, QuietUndisturbed, TypeCorrect, PTL
    DEF Spec
  <1>3. ASSUME Inv, [Next]_vars, NEW i \in Id, phase # "idle",
               req.kind = "enable", ~AdminWrites, disabled[i] # disabled'[i]
        PROVE  disabled[i] \subseteq running' \intersect startup'
    <2>1. store = disabled
      BY <1>3 DEF Undisturbed
    <2>2. phase = "metadata" /\ SaveMetadata
      BY <1>3, <2>1, FileMoves
    <2>3. /\ disabled' = [store EXCEPT ![req.id] = {}]
          /\ running' = running /\ startup' = startup
      BY <1>3, <2>1, <2>2 DEF SaveMetadata, BeginRestore, Goto, router
    <2>4. i = req.id
      BY <1>3, <2>1, <2>3 DEF TypeOK
    <2>5. /\ startup = running
          /\ Sections(running, Changed) = Sections(desired, Changed)
      BY <1>3, <2>2 DEF Undisturbed
    <2>6. store[i] \subseteq desired
      BY <1>3, <2>2, <2>4 DEF Enabling, InMotion
    <2>7. \A e \in store[i] : ProtoOf[IdOf[e]] \in Changed
      BY <1>3, <2>4 DEF OwnEntries, Changed
    <2>8. QED
      BY <2>1, <2>3, <2>5, <2>6, <2>7 DEF Sections
  <1>4. Inv /\ [Next]_vars =>
          [(\A i \in Id :
              phase # "idle" /\ req.kind = "enable" /\ ~AdminWrites
                /\ disabled[i] # disabled'[i]
                => disabled[i] \subseteq running' \intersect startup')]_vars
    BY <1>3
  <1>5. QED
    BY <1>2, <1>4, PTL DEF Spec, EnableNeverLoses

-----------------------------------------------------------------------------
(* The sections under way.                                                 *)

\* How far a request has come: the secure sections it is through with are the
\* target's, the one it has cleared is empty, and the plain entries it
\* believes installed are.
WriteSoFar ==
  /\ phase = "current" => left = Changed /\ ~cleared
  /\ phase \in WritePhases =>
       /\ "DNS" \in Changed => "DNS" \in left /\ base = Section(running, "DNS")
       /\ \A p \in Secure \intersect Changed :
            p \notin left => Section(running, p) = Section(Target, p)
       /\ \A p \in Secure :
            SectionDue(p) /\ cleared => Section(running, p) = {}

LEMMA ElsewhereSoFar ==
  ASSUME phase' \notin WritePhases \union {"current"} PROVE WriteSoFar'
  BY DEF WriteSoFar, WritePhases

LEMMA BeginRestoreSoFar ==
  ASSUME BeginRestore PROVE WriteSoFar'
  BY DEF BeginRestore, Goto, WriteSoFar, WritePhases, SectionDue, Changed

LEMMA CallFailsSoFar ==
  ASSUME NEW runs, NEW saves, CallFails(runs, saves) PROVE WriteSoFar'
  <1>1. CASE phase' = "idle"
    BY <1>1, ElsewhereSoFar DEF WritePhases
  <1>2. CASE BeginRestore
    BY <1>2, BeginRestoreSoFar
  <1>3. QED
    BY <1>1, <1>2 DEF CallFails, Abandon, ReturnError, Return

\* A rollback and a first write start from the plain section as it is.
LEMMA StartSoFar ==
  ASSUME left' = Changed, ~cleared', UNCHANGED <<req, router>>,
         seen = Sections(running, Secure), base' = Section(Read, "DNS"),
         "DNS" \in Changed => plainReadable
  PROVE  WriteSoFar'
  <1>1. "DNS" \in Changed => Section(Read, "DNS") = Section(running, "DNS")
    BY DEF Read, Section, Sections, Secure
  <1>2. UNCHANGED Changed /\ UNCHANGED running
    BY DEF Changed, router
  <1>3. QED
    BY <1>1, <1>2 DEF WriteSoFar, SectionDue, Section, Changed

\* One call reported as done, of either protocol.
LEMMA ClearSoFar ==
  ASSUME TypeOK, ~Drops, WriteSoFar, NEW p \in Secure, ClearSection(p)
  PROVE  WriteSoFar'
  <1>1. CASE CallFails({Emptied(p)}, {})
    BY <1>1, CallFailsSoFar
  <1>2. CASE /\ running' = Emptied(p) /\ StillWriting /\ UNCHANGED base
             /\ IF Section(Target, p) = {}
                THEN SectionWritten(p)
                ELSE cleared' = TRUE /\ UNCHANGED left
    <2>1. phase \in WritePhases /\ SectionDue(p) /\ "DNS" # p
      BY DEF ClearSection, SectionDue, Secure
    <2>2. /\ UNCHANGED <<phase, base>>
          /\ UNCHANGED Changed /\ UNCHANGED Target
      BY <1>2 DEF StillWriting, plan, Changed, Target
    <2>3. /\ Section(running', p) = {}
          /\ \A q : q # p => Section(running', q) = Section(running, q)
      BY <1>2 DEF Emptied, Section
    <2>4. \A q \in Secure : SectionDue(q) => q = p
      BY <2>1 DEF SectionDue, Secure
    <2>5. CASE SectionWritten(p) /\ Section(Target, p) = {}
      BY <2>1, <2>2, <2>3, <2>5 DEF WriteSoFar, SectionWritten, WritePhases, Secure
    <2>6. CASE cleared' = TRUE /\ UNCHANGED left
      <3>1. \A q \in Secure : SectionDue(q)' => q = p
        BY <2>2, <2>4, <2>6 DEF SectionDue
      <3>2. p \in left
        BY <2>1 DEF SectionDue
      <3>3. QED
        BY <2>1, <2>2, <2>3, <2>6, <3>1, <3>2 DEF WriteSoFar, WritePhases
    <2>7. QED
      BY <1>2, <2>5, <2>6
  <1>3. QED
    BY <1>1, <1>2 DEF ClearSection, CallDone

LEMMA PostSoFar ==
  ASSUME TypeOK, ~Drops, WriteSoFar, NEW p \in Secure, PostSection(p)
  PROVE  WriteSoFar'
  <1>1. ASSUME NEW runs, CallFails(runs, {}) PROVE WriteSoFar'
    BY <1>1, CallFailsSoFar
  <1>2. CASE /\ running' = running \union Section(Target, p)
             /\ SectionWritten(p) /\ StillWriting /\ UNCHANGED base
    <2>1. /\ phase \in WritePhases /\ SectionDue(p) /\ "DNS" # p
          /\ Section(running, p) = {}
      BY DEF PostSection, SectionDue, Secure, WriteSoFar
    <2>2. /\ UNCHANGED <<phase, base>>
          /\ UNCHANGED Changed /\ UNCHANGED Target
      BY <1>2 DEF StillWriting, plan, Changed, Target
    <2>3. /\ Section(running', p) = Section(Target, p)
          /\ \A q : q # p => Section(running', q) = Section(running, q)
      BY <1>2, <2>1 DEF Section
    <2>4. QED
      BY <1>2, <2>1, <2>2, <2>3 DEF WriteSoFar, SectionWritten, WritePhases
  <1>3. QED
    BY <1>1, <1>2 DEF PostSection, CallDone

LEMMA PlainSoFar ==
  ASSUME TypeOK, OwnSections, ~Drops, WriteSoFar,
         (\E e \in Entry : DeletePlain(e)) \/ PostPlain
  PROVE  WriteSoFar'
  <1>1. ASSUME NEW runs, CallFails(runs, {}) PROVE WriteSoFar'
    BY <1>1, CallFailsSoFar
  <1>2. CASE /\ phase \in WritePhases /\ left = {"DNS"}
             /\ StillWriting /\ UNCHANGED <<left, cleared>>
             /\ \E e \in Entry :
                  /\ e \in Removals
                  /\ running' = running \ {e} /\ base' = base \ {e}
    <2>1. PICK e \in Removals : running' = running \ {e} /\ base' = base \ {e}
      BY <1>2
    <2>2. /\ UNCHANGED phase /\ UNCHANGED Changed /\ UNCHANGED Target
      BY <1>2 DEF StillWriting, plan, Changed, Target
    <2>3. ProtoOf[IdOf[e]] = "DNS"
      BY <1>2 DEF OwnSections, Removals, WriteSoFar, Section
    <2>4. /\ Section(running', "DNS") = Section(running, "DNS") \ {e}
          /\ \A q \in Secure : Section(running', q) = Section(running, q)
      BY <2>1, <2>3 DEF Section, Secure
    <2>5. QED
      BY <1>2, <2>1, <2>2, <2>4 DEF WriteSoFar, SectionDue, Secure, WritePhases
  <1>3. CASE /\ phase \in WritePhases /\ left = {"DNS"}
             /\ StillWriting /\ UNCHANGED <<left, cleared>>
             /\ running' = running \union Additions /\ base' = base \union Additions
    <2>1. /\ UNCHANGED phase /\ UNCHANGED Changed /\ UNCHANGED Target
      BY <1>3 DEF StillWriting, plan, Changed, Target
    <2>2. \A q \in Secure : Section(running', q) = Section(running, q)
      BY <1>3 DEF Section, Additions, Secure
    <2>3. Section(running', "DNS") = Section(running, "DNS") \union Additions
      BY <1>3 DEF Section, Additions
    <2>4. QED
      BY <1>3, <2>1, <2>2, <2>3 DEF WriteSoFar, SectionDue, Secure, WritePhases
  <1>4. QED
    BY <1>1, <1>2, <1>3 DEF DeletePlain, PostPlain, CallDone

LEMMA NextSoFar ==
  ASSUME ~AdminWrites, ~Drops, TypeOK, OwnSections, Undisturbed, WriteSoFar,
         [Next]_vars
  PROVE  WriteSoFar'
  <1>1. CASE GetProxy
    BY <1>1
    DEF GetProxy, router, plan, writing, WriteSoFar, ReadPhases, WritePhases, Changed
  <1>2. CASE GetFails
    BY <1>2, CallFailsSoFar DEF GetFails
  <1>3. CASE \E p \in Secure : ClearSection(p) \/ PostSection(p)
    BY <1>3, ClearSoFar, PostSoFar
  <1>4. CASE (\E e \in Entry : DeletePlain(e)) \/ PostPlain
    BY <1>4, PlainSoFar
  <1>5. CASE Save
    <2>1. CASE phase' \in {"verify", "recheck"}
      BY <2>1, ElsewhereSoFar DEF WritePhases
    <2>2. QED
      BY <1>5, <2>1, CallFailsSoFar DEF Save, Goto
  <1>6. CASE Baseline
    <2>1. CASE phase' = "idle"
      BY <2>1, ElsewhereSoFar DEF WritePhases
    <2>2. CASE phase' # "idle"
      <3>1. /\ Goto("write") /\ left' = Changed /\ ~cleared'
            /\ base' = Section(Read, "DNS") /\ UNCHANGED router
            /\ "DNS" \in Changed => plainReadable
        BY <1>6, <2>2 DEF Baseline, Loaded, ReturnError, Return
      <3>2. seen = Sections(running, Secure)
        BY <1>6 DEF Baseline, Loaded, Undisturbed
      <3>3. QED
        BY <3>1, <3>2, StartSoFar DEF Goto
    <2>3. QED
      BY <2>1, <2>2
  <1>7. CASE Current
    <2>1. /\ left' = Changed /\ ~cleared' /\ base' = Section(Read, "DNS")
          /\ UNCHANGED <<req, router>>
      BY <1>7 DEF Current, Loaded, Goto, WriteSoFar
    <2>2. /\ seen = Sections(running, Secure)
          /\ "DNS" \in Changed => plainReadable
      BY <1>7 DEF Current, Loaded, Undisturbed, InMotion
    <2>3. QED
      BY <2>1, <2>2, StartSoFar
  <1>8. CASE Decide \/ Verify \/ SaveMetadata \/ Recheck
    <2>1. CASE phase' \in {"idle", "baseline", "metadata"}
      BY <2>1, ElsewhereSoFar DEF WritePhases
    <2>2. QED
      BY <1>8, <2>1, BeginRestoreSoFar
      DEF Decide, Create, Update, Delete, Disable, Enable, Refuse, SaveFile,
          ApplyMutation, ReturnError, Return, Verify, SaveMetadata, Recheck, Goto
  <1>9. CASE (\E r \in Requests : Begin(r)) \/ Crash \/ Reboot
    BY <1>9, ElsewhereSoFar DEF Begin, Crash, Reboot, Return, WritePhases
  <1>10. CASE UNCHANGED vars
    BY <1>10
    DEF vars, router, plan, writing, WriteSoFar, SectionDue, Changed, Target
  <1>11. CASE \E e \in Entry : AdminWrite(e)
    BY <1>11 DEF AdminWrite
  <1>12. QED
    BY <1>1, <1>2, <1>3, <1>4, <1>5, <1>6, <1>7, <1>8, <1>9, <1>10, <1>11
    DEF Next, Step

\* Only the save of a write or of a rollback changes what a restart finds.
LEMMA SaveSaves ==
  ASSUME TypeOK, Step, startup' # startup
  PROVE  Save /\ startup' = running /\ running' = running
  <1>1. ASSUME NEW runs, CallFails(runs, {}) PROVE startup' = startup
    BY <1>1 DEF CallFails
  <1>2. CASE GetProxy \/ GetFails \/ Decide \/ Baseline
    BY <1>1, <1>2
    DEF GetProxy, GetFails, Decide, Create, Update, Delete, Disable, Enable,
        Baseline, Loaded, router
  <1>3. ASSUME NEW p \in Secure, ClearSection(p) \/ PostSection(p)
        PROVE  startup' = startup
    BY <1>1, <1>3 DEF ClearSection, PostSection, CallDone
  <1>4. ASSUME NEW e \in Entry, DeletePlain(e) PROVE startup' = startup
    BY <1>1, <1>4 DEF DeletePlain, CallDone
  <1>5. CASE PostPlain
    BY <1>1, <1>5 DEF PostPlain, CallDone
  <1>6. CASE Verify \/ SaveMetadata \/ Current \/ Recheck
    BY <1>6 DEF Verify, SaveMetadata, Current, Recheck, Loaded, router
  <1>7. CASE Save
    BY <1>7, CallFailsLeaves DEF Save, CallFails
  <1>8. QED
    BY <1>2, <1>3, <1>4, <1>5, <1>6, <1>7 DEF Step

\* Two configurations that agree on each section of the request agree on all.
LEMMA SameSections ==
  ASSUME TypeOK, \A p \in Changed : Section(running, p) = Section(Target, p)
  PROVE  Sections(running, Changed) = Sections(Target, Changed)
  BY DEF Sections, Section

\* When the module is the only writer and the router does what it reports,
\* every save it asks for, even one whose answer is lost, makes permanent
\* exactly the sections the request or its rollback was aiming at.
THEOREM SavesAreWhole == Spec => SavesWholeSections
  <1>1. Init => OwnSections /\ WriteSoFar
    BY DEF Init, OwnSections, Section, WriteSoFar, WritePhases
  <1> DEFINE Inv == /\ TypeOK /\ OwnSections
                    /\ ~AdminWrites => Undisturbed
                    /\ ~AdminWrites /\ ~Drops => WriteSoFar
  <1>2. Inv /\ [Next]_vars => (~AdminWrites /\ ~Drops => WriteSoFar)'
    BY NextSoFar, ScenarioStays DEF AdminWrites, Drops
  <1>3. Spec => []Inv
    BY <1>1, <1>2, NextOwns, QuietUndisturbed, TypeCorrect, PTL DEF Spec
  <1>4. ASSUME Inv, Step, startup' # startup, ~AdminWrites, ~Drops
        PROVE  Sections(startup', Changed) = Sections(Target, Changed)
    <2>1. Save /\ startup' = running /\ WriteSoFar
      BY <1>4, SaveSaves
    <2>2. /\ phase \in WritePhases /\ left \subseteq {"DNS"}
          /\ "DNS" \in left => Removals = {} /\ Additions = {}
      BY <2>1 DEF Save
    <2>3. ASSUME NEW p \in Changed \intersect Secure
          PROVE  Section(running, p) = Section(Target, p)
      BY <2>1, <2>2 DEF WriteSoFar, Secure
    <2>4. ASSUME "DNS" \in Changed
          PROVE  Section(running, "DNS") = Section(Target, "DNS")
      <3>1. base = Section(running, "DNS") /\ Removals = {} /\ Additions = {}
        BY <2>1, <2>2, <2>4 DEF WriteSoFar
      <3>2. QED
        BY <3>1 DEF Removals, Additions
    <2>5. Changed \subseteq Secure \union {"DNS"}
      BY <1>4, <2>2, RequestTypes DEF WritePhases, Protocols
    <2>6. QED
      BY <1>4, <2>1, <2>3, <2>4, <2>5, SameSections
  <1>5. Inv /\ [Next]_vars =>
          [(Step /\ startup' # startup /\ ~AdminWrites /\ ~Drops =>
              Sections(startup', Changed) = Sections(Target, Changed))]_vars
    BY <1>4
  <1>6. QED
    BY <1>3, <1>5, PTL DEF Spec, SavesWholeSections

-----------------------------------------------------------------------------
(* What another administrator adds meanwhile.                              *)

\* A plain entry of a resolver the request is not about.
Other(e) == ProtoOf[IdOf[e]] = "DNS" /\ IdOf[e] \notin {req.id, req.new}

\* Until it has to roll back, a request has lost no such entry of another
\* administrator, and it has none to remove.
OthersKept ==
  /\ phase = "idle" => adminAdded = {}
  /\ phase # "idle" => result = "none"
  /\ phase \notin {"idle", "current", "restore", "recheck"} =>
       \A e \in adminAdded : Other(e) => e \in running
  /\ phase = "baseline" => \A e \in snap : Other(e) => e \in desired
  /\ phase = "write" /\ "DNS" \in Changed =>
       \A e \in base : Other(e) => e \in desired

LEMMA ReturnKeeps ==
  ASSUME NEW r, Return(r) PROVE OthersKept'
  BY DEF Return, OthersKept

LEMMA BeginRestoreKeeps ==
  ASSUME OthersKept, phase # "idle", BeginRestore PROVE OthersKept'
  BY DEF BeginRestore, Goto, OthersKept

LEMMA CallFailsKeeps ==
  ASSUME OthersKept, phase # "idle",
         NEW runs, NEW saves, CallFails(runs, saves)
  PROVE  OthersKept'
  <1>1. \/ \E r : Return(r)
        \/ BeginRestore
    BY DEF CallFails, Abandon, ReturnError
  <1>2. QED
    BY <1>1, ReturnKeeps, BeginRestoreKeeps

\* A call reported as done that removes nobody else's plain entry.
LEMMA StillWritingKeeps ==
  ASSUME OthersKept, phase \in WritePhases, StillWriting,
         phase = "write" =>
           \A e \in running : Other(e) => e \in running',
         phase = "write" /\ "DNS" \in Changed =>
           \A e \in base' : e \in base \/ e \in desired
  PROVE  OthersKept'
  BY DEF OthersKept, StillWriting, plan, WritePhases, Other, Changed

LEMMA WriteKeeps ==
  ASSUME TypeOK, OwnSections, OthersKept,
         \/ \E p \in Secure : ClearSection(p) \/ PostSection(p)
         \/ \E e \in Entry : DeletePlain(e)
         \/ PostPlain
  PROVE  OthersKept'
  <1>1. phase \in WritePhases /\ phase # "idle"
    BY DEF ClearSection, PostSection, SectionDue, DeletePlain, PostPlain, WritePhases
  <1>2. ASSUME NEW runs, CallFails(runs, {}) PROVE OthersKept'
    BY <1>1, <1>2, CallFailsKeeps
  <1>3. ASSUME NEW p \in Secure, ClearSection(p) PROVE OthersKept'
    <2>1. CASE /\ running' \in {Emptied(p), running}
               /\ StillWriting /\ UNCHANGED base
      <3>1. \A e \in running : Other(e) => e \in running'
        BY <2>1 DEF Emptied, Section, Other, Secure
      <3>2. QED
        BY <1>1, <2>1, <3>1, StillWritingKeeps
    <2>2. QED
      BY <1>2, <1>3, <2>1 DEF ClearSection, CallDone
  <1>4. ASSUME NEW p \in Secure, PostSection(p) PROVE OthersKept'
    <2>1. CASE running \subseteq running' /\ StillWriting /\ UNCHANGED base
      BY <1>1, <2>1, StillWritingKeeps
    <2>2. QED
      BY <1>2, <1>4, <2>1 DEF PostSection, CallDone
  <1>5. ASSUME NEW d \in Entry, DeletePlain(d) PROVE OthersKept'
    <2>1. CASE /\ running' \in {running \ {d}, running}
               /\ base' = base \ {d} /\ StillWriting
      <3>1. d \in base /\ d \notin Target /\ "DNS" \in Changed
        BY <1>5 DEF DeletePlain, Removals, OwnSections, Section
      <3>2. phase = "write" => ~Other(d)
        BY <3>1 DEF OthersKept, Target
      <3>3. QED
        BY <1>1, <2>1, <3>2, StillWritingKeeps
    <2>2. QED
      BY <1>2, <1>5, <2>1 DEF DeletePlain, CallDone
  <1>6. CASE PostPlain
    <2>1. CASE /\ running \subseteq running'
               /\ base' = base \union Additions /\ StillWriting
      <3>1. phase = "write" => Additions \subseteq desired
        BY DEF Additions, Section, Target
      <3>2. QED
        BY <1>1, <2>1, <3>1, StillWritingKeeps
    <2>2. QED
      BY <1>2, <1>6, <2>1 DEF PostPlain, CallDone
  <1>7. QED
    BY <1>3, <1>4, <1>5, <1>6

LEMMA DecideKeeps ==
  ASSUME TypeOK, OthersKept, Decide PROVE OthersKept'
  <1>1. CASE \E r : Return(r)
    BY <1>1, ReturnKeeps
  <1>2. ASSUME NEW d, ApplyMutation(d), phase = "snapshot",
               UNCHANGED router, \A e \in Read : Other(e) => e \in d
        PROVE  OthersKept'
    <2>1. CASE \E r : Return(r)
      BY <2>1, ReturnKeeps
    <2>2. QED
      BY <1>2, <2>1
      DEF ApplyMutation, ReturnError, Goto, OthersKept, Other, router
  <1>3. CASE Create \/ Enable
    BY <1>1, <1>2, <1>3 DEF Create, Enable, Refuse, Loaded
  <1>4. CASE Update \/ Delete \/ Disable
    <2>1. \A e \in EntriesOf(Read, req.id) : ~Other(e)
      BY DEF EntriesOf, Other
    <2>2. QED
      BY <1>1, <1>2, <1>4, <2>1
      DEF Update, Delete, Disable, Refuse, SaveFile, Loaded
  <1>5. QED
    BY <1>3, <1>4 DEF Decide

LEMMA NextKeeps ==
  ASSUME TypeOK, OwnSections, OthersKept, [Next]_vars PROVE OthersKept'
  <1>1. CASE GetProxy
    BY <1>1
    DEF GetProxy, router, plan, writing, OthersKept, Other, Changed, ReadPhases
  <1>2. CASE GetFails
    BY <1>2, CallFailsKeeps DEF GetFails, ReadPhases
  <1>3. CASE \/ \E p \in Secure : ClearSection(p) \/ PostSection(p)
             \/ (\E e \in Entry : DeletePlain(e)) \/ PostPlain
    BY <1>3, WriteKeeps
  <1>4. CASE Save
    <2>1. CASE Goto(IF phase = "write" THEN "verify" ELSE "recheck") /\ UNCHANGED running
      BY <1>4, <2>1 DEF Save, WritePhases, Goto, OthersKept, Other
    <2>2. QED
      BY <1>4, <2>1, CallFailsKeeps DEF Save, WritePhases
  <1>5. CASE Baseline
    <2>1. CASE \E r : Return(r)
      BY <2>1, ReturnKeeps
    <2>2. CASE /\ Goto("write") /\ base' = Section(Read, "DNS")
               /\ UNCHANGED desired /\ UNCHANGED router
               /\ "DNS" \in Changed => Section(snap, "DNS") = Section(Read, "DNS")
      BY <1>5, <2>2
      DEF Baseline, Loaded, Goto, OthersKept, Other, Section, Changed, router
    <2>3. QED
      BY <1>5, <2>1, <2>2 DEF Baseline, Loaded, ReturnError
  <1>6. CASE Decide
    BY <1>6, DecideKeeps
  <1>7. CASE Verify \/ SaveMetadata \/ Recheck
    <2>1. CASE \E r : Return(r)
      BY <2>1, ReturnKeeps
    <2>2. CASE BeginRestore
      BY <1>7, <2>2, BeginRestoreKeeps DEF Verify, SaveMetadata, Recheck, Loaded
    <2>3. CASE Goto("metadata") /\ phase = "verify" /\ UNCHANGED running
      BY <2>3 DEF Goto, OthersKept, Other
    <2>4. QED
      BY <1>7, <2>1, <2>2, <2>3
      DEF Verify, SaveMetadata, Recheck, Loaded, ReturnError, router
  <1>8. CASE Current
    BY <1>8 DEF Current, Loaded, Goto, OthersKept
  <1>9. CASE \E r \in Requests : Begin(r)
    BY <1>9 DEF Begin, OthersKept
  <1>10. CASE Crash \/ Reboot
    BY <1>10, ReturnKeeps DEF Crash, Reboot
  <1>11. CASE UNCHANGED vars
    BY <1>11 DEF vars, router, plan, writing, OthersKept, Other, Changed
  <1>12. ASSUME NEW e \in Entry, AdminWrite(e) PROVE OthersKept'
    BY <1>12 DEF AdminWrite, plan, writing, OthersKept, Other, Changed
  <1>13. QED
    BY <1>1, <1>2, <1>3, <1>4, <1>5, <1>6, <1>7, <1>8, <1>9, <1>10, <1>11, <1>12
    DEF Next, Step

\* A plain change that answers OK took away none of the plain entries another
\* administrator added between its first read and its answer, because it only
\* ever removes entries of its own resolver; whatever calls failed or were
\* dropped meanwhile.
THEOREM AdminEntriesKept == Spec => PlainAdminKept
  <1>1. Init => OthersKept
    BY DEF Init, OthersKept
  <1>2. Init => OwnSections
    BY DEF Init, OwnSections, Section
  <1>3. Spec => [](TypeOK /\ OwnSections /\ OthersKept)
    BY <1>1, <1>2, NextOwns, NextKeeps, TypeCorrect, PTL DEF Spec
  <1>4. ASSUME TypeOK, OthersKept, [Next]_vars,
               result' = "ok", phase \in {"verify", "metadata"}
        PROVE  {e \in Section(adminAdded, "DNS") : IdOf[e] \notin {req.id, req.new}}
                 \subseteq running'
    <2>1. result = "none"
      BY <1>4 DEF OthersKept
    <2>2. Verify \/ SaveMetadata
      <3>1. ~\E r \in Requests : Begin(r)
        BY <1>4 DEF Begin
      <3>2. ~\E e \in Entry : AdminWrite(e)
        BY <1>4, <2>1 DEF AdminWrite
      <3>3. ~(Crash \/ Reboot \/ UNCHANGED vars)
        BY <1>4, <2>1 DEF Crash, Reboot, Return, vars
      <3>4. ~(GetProxy \/ GetFails)
        BY <1>4, <2>1
        DEF GetProxy, GetFails, CallFails, Abandon, BeginRestore, Goto
      <3>5. QED
        BY <1>4, <3>1, <3>2, <3>3, <3>4
        DEF Next, Step, Decide, Create, Update, Delete, Disable, Enable, Baseline,
            ClearSection, PostSection, SectionDue, DeletePlain, PostPlain, Save,
            Current, Recheck, Loaded, WritePhases
    <2>3. UNCHANGED running
      BY <2>2 DEF Verify, SaveMetadata, Loaded, router
    <2>4. QED
      BY <1>4, <2>3 DEF OthersKept, Other, Section
  <1>5. TypeOK /\ OthersKept /\ [Next]_vars =>
          [(result' = "ok" /\ phase \in {"verify", "metadata"} =>
             {e \in Section(adminAdded, "DNS") : IdOf[e] \notin {req.id, req.new}}
               \subseteq running')]_vars
    BY <1>4
  <1>6. QED
    BY <1>3, <1>5, PTL DEF Spec, PlainAdminKept

-----------------------------------------------------------------------------
(* The catalog.                                                            *)

\* Nobody else writes, nothing crashes and the router stays up.
Calm == \A s \in Scenarios : ~s.admin /\ ~s.crashes /\ ~s.reboots

\* The catalog a client sees.
ActiveNow == Visible(Committed)

Deciding == InMotion \union {"baseline"}

\* What the request makes of the catalog it has read, and the conditions
\* under which it may.
Edited ==
  /\ req.kind \in {"update", "delete", "disable"} =>
       EntriesOf(snap, req.id) # {} /\ store[req.id] = {}
  /\ req.kind \in EditKinds /\ (req.kind = "update" => req.new # req.id) =>
       EntriesOf(snap, req.new) = {} /\ store[req.new] = {}
  /\ req.kind = "enable" =>
       EntriesOf(snap, req.id) = {} /\ store[req.id] # {}
  /\ desired = (IF req.kind \in {"create", "enable"}
                THEN snap
                ELSE snap \ EntriesOf(snap, req.id))
               \union (IF req.kind = "enable" THEN store[req.id] ELSE req.entries)

\* Once decided, a request knows the catalog as its client sees it.
Decided == phase \in Deciding => snap = ActiveNow /\ Edited

LEMMA ReadIsVisible ==
  ASSUME TypeOK, Undisturbed, half PROVE Read = Visible(running)
  <1>1. seen = Sections(running, Secure)
    BY DEF Undisturbed
  <1>2. \A e \in running : ProtoOf[IdOf[e]] \in Secure \union {"DNS"}
    BY ConstantsAssumption DEF TypeOK, Protocols
  <1>3. QED
    BY <1>1, <1>2 DEF Read, Visible, Section, Sections

LEMMA PlainReadableStays ==
  ASSUME TypeOK, Step PROVE UNCHANGED plainReadable
  <1>1. CASE \/ GetProxy \/ GetFails \/ Baseline \/ Save \/ Verify
             \/ SaveMetadata \/ Current \/ Recheck
    BY <1>1
    DEF GetProxy, GetFails, Baseline, Save, Verify, SaveMetadata, Current,
        Recheck, Loaded, CallFails, router
  <1>2. CASE Decide
    BY <1>2 DEF Decide, Create, Update, Delete, Disable, Enable, Loaded, router
  <1>3. ASSUME NEW p \in Secure, ClearSection(p) \/ PostSection(p)
        PROVE  UNCHANGED plainReadable
    BY <1>3 DEF ClearSection, PostSection, CallDone, CallFails
  <1>4. ASSUME NEW e \in Entry, DeletePlain(e) PROVE UNCHANGED plainReadable
    BY <1>4 DEF DeletePlain, CallDone, CallFails
  <1>5. CASE PostPlain
    BY <1>5 DEF PostPlain, CallDone, CallFails
  <1>6. QED
    BY <1>1, <1>2, <1>3, <1>4, <1>5 DEF Step

\* The request that is writing goes on in silence, or it returns.
LEMMA InMotionSteps ==
  ASSUME TypeOK, Undisturbed, Step, phase \in InMotion
  PROVE  \/ phase' \in InMotion /\ UNCHANGED <<result, disabled>>
         \/ Return("ok") /\ (Verify \/ SaveMetadata)
         \/ Return("rolledback") /\ Recheck /\ UNCHANGED disabled
         \/ Return("rollbackFailed") /\ UNCHANGED disabled
  <1> DEFINE Goes == phase' \in InMotion /\ UNCHANGED <<result, disabled>>
             Fails == Return("rollbackFailed") /\ UNCHANGED disabled
  <1>1. store = disabled
    BY DEF Undisturbed, InMotion
  <1>2. ASSUME BeginRestore PROVE Goes
    BY <1>2 DEF BeginRestore, Goto, InMotion
  <1>3. ASSUME NEW runs, NEW saves, CallFails(runs, saves) PROVE Goes \/ Fails
    BY <1>1, <1>2, <1>3 DEF CallFails, Abandon, ReturnError, InMotion
  <1>4. CASE GetProxy \/ GetFails
    BY <1>3, <1>4 DEF GetProxy, GetFails, InMotion
  <1>5. CASE Decide \/ Baseline
    BY <1>5
    DEF Decide, Create, Update, Delete, Disable, Enable, Baseline, Loaded, InMotion
  <1>6. ASSUME NEW p \in Secure, ClearSection(p) \/ PostSection(p) PROVE Goes \/ Fails
    BY <1>3, <1>6 DEF ClearSection, PostSection, StillWriting
  <1>7. ASSUME NEW e \in Entry, DeletePlain(e) PROVE Goes \/ Fails
    BY <1>3, <1>7 DEF DeletePlain, StillWriting
  <1>8. CASE PostPlain
    BY <1>3, <1>8 DEF PostPlain, StillWriting
  <1>9. CASE Save \/ Current
    BY <1>3, <1>9 DEF Save, Current, Goto, InMotion
  <1>10. CASE Verify \/ SaveMetadata
    BY <1>2, <1>10 DEF Verify, SaveMetadata, Goto, InMotion
  <1>11. CASE Recheck
    BY <1>1, <1>11 DEF Recheck, ReturnError
  <1>12. QED
    BY <1>4, <1>5, <1>6, <1>7, <1>8, <1>9, <1>10, <1>11 DEF Step

\* The same of the request that takes its baseline.
LEMMA BaselineSteps ==
  ASSUME TypeOK, Undisturbed, Step, phase = "baseline"
  PROVE  /\ UNCHANGED running /\ UNCHANGED disabled
         /\ \/ phase' = "baseline" /\ UNCHANGED result
            \/ Return("failed") \/ Return("refused")
            \/ Baseline /\ Goto("write") /\ before' = Read
  <1>1. store = disabled
    BY DEF Undisturbed
  <1>2. GetProxy \/ GetFails \/ Baseline
    BY DEF Step, Decide, Create, Update, Delete, Disable, Enable, ClearSection,
       PostSection, SectionDue, DeletePlain, PostPlain, Save, Verify,
       SaveMetadata, Current, Recheck, Loaded, WritePhases
  <1>3. CASE GetProxy
    BY <1>3 DEF GetProxy, router
  <1>4. CASE GetFails
    BY <1>1, <1>4 DEF GetFails, CallFails, Abandon, ReturnError
  <1>5. CASE Baseline
    BY <1>1, <1>5 DEF Baseline, Loaded, ReturnError, Goto, router
  <1>6. QED
    BY <1>2, <1>3, <1>4, <1>5

\* While a request is decided the catalog does not change.
LEMMA ActiveStays ==
  ASSUME TypeOK, OwnSections, Undisturbed, Step, phase \in Deciding,
         phase' \in Deciding
  PROVE  ActiveNow' = ActiveNow
  <1>1. /\ Changed' = Changed /\ UNCHANGED plainReadable
        /\ phase # "baseline" => UNCHANGED before
    BY PlanStays, PlainReadableStays DEF Next, Deciding, InMotion, Changed
  <1>2. CASE phase \in InMotion
    <2>1. phase' \in InMotion
      BY <1>2, InMotionSteps DEF Deciding, Return
    <2>2. Sections(running', Protocols \ Changed) = Sections(running, Protocols \ Changed)
      BY StepStays
    <2>3. QED
      BY <1>1, <1>2, <2>1, <2>2 DEF ActiveNow, Visible, Committed, InMotion
  <1>3. CASE phase = "baseline" /\ phase' = "baseline"
    BY <1>1, <1>3, BaselineSteps DEF ActiveNow, Visible, Committed, InMotion
  <1>4. CASE phase = "baseline" /\ phase' # "baseline"
    <2>1. /\ Baseline /\ Goto("write") /\ before' = Read /\ UNCHANGED running
          /\ phase' = "write"
      BY <1>4, BaselineSteps DEF Deciding, InMotion, Return, Goto
    <2>2. "DNS" \in Changed => plainReadable
      BY <2>1 DEF Baseline, ReturnError, Return, Goto
    <2>3. Read = Visible(running)
      BY <2>1, ReadIsVisible DEF Baseline, Loaded
    <2>4. /\ \A e \in running : ProtoOf[IdOf[e]] \in Protocols
          /\ Changed \subseteq Protocols
      BY <1>4, ConstantsAssumption, RequestTypes DEF TypeOK
    <2>5. /\ Committed = running
          /\ Committed' = Sections(running, Protocols \ Changed)
                            \union Sections(Visible(running), Changed)
      BY <1>1, <1>4, <2>1, <2>3 DEF Committed, InMotion
    <2>6. Committed' = Committed
      BY <2>2, <2>4, <2>5 DEF Visible, Sections, Protocols
    <2>7. QED
      BY <1>1, <2>6 DEF ActiveNow, Visible
  <1>5. QED
    BY <1>2, <1>3, <1>4 DEF Deciding

LEMMA NextDecided ==
  ASSUME TypeOK, OwnSections, Undisturbed, Decided, Step PROVE Decided'
  <1>1. CASE phase \in Deciding /\ phase' \in Deciding
    <2>1. UNCHANGED <<req, store, snap, desired>>
      BY <1>1, PlanStays DEF Next, Deciding, InMotion
    <2>2. ActiveNow' = ActiveNow
      BY <1>1, ActiveStays
    <2>3. QED
      BY <1>1, <2>1, <2>2 DEF Decided, Edited, EntriesOf
  <1>2. CASE phase \notin Deciding /\ phase' \in Deciding
    <2>1. phase = "snapshot" /\ Decide /\ half
      BY <1>2, PlanStarts
      DEF Next, Deciding, Decide, Create, Update, Delete, Disable, Enable, Loaded
    <2>2. ASSUME NEW d, ApplyMutation(d), UNCHANGED router
          PROVE  /\ snap' = Read /\ desired' = d /\ UNCHANGED <<req, store>>
                 /\ snap' = ActiveNow'
      <3>1. /\ Goto("baseline") /\ snap' = Read /\ desired' = d
        BY <1>2, <2>2 DEF ApplyMutation, ReturnError, Return, Deciding, InMotion
      <3>2. Committed' = running /\ Visible(running)' = Visible(running)
        BY <2>2, <3>1 DEF Goto, Committed, InMotion, router, Visible
      <3>3. QED
        BY <2>1, <2>2, <3>1, <3>2, ReadIsVisible
        DEF Goto, ActiveNow, Visible, router
    <2>3. req \in Requests
      BY <2>1, RequestTypes
    <2>4. CASE Create
      BY <1>2, <2>2, <2>4
      DEF Create, Refuse, Return, Deciding, InMotion, Loaded, Taken, Known,
          Kept, Decided, Edited, EntriesOf, EditKinds
    <2>5. CASE Update
      BY <1>2, <2>2, <2>5
      DEF Update, Refuse, SaveFile, Return, Deciding, InMotion, Loaded, Taken,
          Known, Kept, Decided, Edited, EntriesOf, EditKinds
    <2>6. CASE Delete \/ Disable
      <3>1. req.entries = {}
        BY <2>3, <2>6 DEF Delete, Disable, Requests, EditKinds
      <3>2. QED
        BY <1>2, <2>2, <2>6, <3>1
        DEF Delete, Disable, Refuse, SaveFile, Return, Deciding, InMotion,
            Loaded, Known, Kept, Decided, Edited, EntriesOf, EditKinds
    <2>7. CASE Enable
      BY <1>2, <2>2, <2>7
      DEF Enable, Refuse, Return, Deciding, InMotion, Loaded, Known, Kept,
          Decided, Edited, EntriesOf, EditKinds
    <2>8. QED
      BY <2>1, <2>4, <2>5, <2>6, <2>7 DEF Decide
  <1>3. QED
    BY <1>1, <1>2 DEF Decided

\* What a request wants differs from what it found only in its own sections.
LEMMA DesiredElsewhere ==
  ASSUME TypeOK, OwnEntries, Decided, phase \in Deciding
  PROVE  \A e : ProtoOf[IdOf[e]] \notin Changed => (e \in desired <=> e \in snap)
  <1>1. req \in Requests /\ req.id \in Id
    BY RequestTypes DEF Deciding, InMotion
  <1>2. \A e \in req.entries : IdOf[e] = req.new
    BY <1>1 DEF Requests
  <1>3. \A e \in store[req.id] : IdOf[e] = req.id
    BY <1>1 DEF OwnEntries
  <1>4. QED
    BY <1>2, <1>3 DEF Decided, Edited, EntriesOf, Changed

\* When a request answers OK the client sees what was wanted.
LEMMA OkIsDesired ==
  ASSUME TypeOK, OwnSections, OwnEntries, Undisturbed, Decided,
         phase \in InMotion, Return("ok"), Verify \/ SaveMetadata
  PROVE  ActiveNow' = desired
  <1>1. UNCHANGED <<running, plainReadable>> /\ phase \in {"verify", "metadata"}
    BY DEF Verify, SaveMetadata, Loaded, router
  <1>2. Sections(running, Changed) = Sections(desired, Changed)
    <2>1. CASE SaveMetadata
      BY <2>1 DEF SaveMetadata, Undisturbed
    <2>2. CASE Verify
      <3>1. Matches(desired) /\ half
        BY <2>2 DEF Verify, Loaded, BeginRestore, Goto, Return
      <3>2. QED
        BY <3>1, ReadIsRunning DEF TypeOK
    <2>3. QED
      BY <2>1, <2>2
  <1>3. "DNS" \in Changed => plainReadable
    BY DEF Undisturbed
  <1>4. ActiveNow' = Visible(running)
    BY <1>1 DEF Return, ActiveNow, Visible, Committed, InMotion
  <1>5. snap = Visible(Sections(running, Protocols \ Changed)
                         \union Sections(before, Changed))
    BY DEF Decided, Deciding, ActiveNow, Committed
  <1>6. \A e : ProtoOf[IdOf[e]] \notin Changed => (e \in desired <=> e \in snap)
    BY DesiredElsewhere DEF Deciding
  <1>7. /\ running \subseteq Entry /\ desired \subseteq Entry
        /\ \A e \in Entry : ProtoOf[IdOf[e]] \in Protocols
    BY ConstantsAssumption DEF TypeOK
  <1>8. ASSUME NEW e \in Entry
        PROVE  e \in Visible(running) <=> e \in desired
    <2>1. CASE ProtoOf[IdOf[e]] \in Changed
      <3>1. e \in running <=> e \in desired
        BY <1>2, <2>1 DEF Sections
      <3>2. plainReadable \/ ProtoOf[IdOf[e]] \in Secure
        BY <1>3, <1>7, <2>1 DEF Protocols
      <3>3. QED
        BY <3>1, <3>2 DEF Visible, Sections
    <2>2. CASE ProtoOf[IdOf[e]] \notin Changed
      BY <1>5, <1>6, <1>7, <2>2 DEF Visible, Sections
    <2>3. QED
      BY <2>1, <2>2
  <1>9. QED
    BY <1>4, <1>7, <1>8 DEF Visible, Sections

\* Only a toggled resolver is left to be entered in the file.
Toggling == phase = "metadata" => req.kind \in ToggleKinds

LEMMA NextToggling ==
  ASSUME TypeOK, Undisturbed, Toggling, Step PROVE Toggling'
  <1>1. CASE phase \in InMotion
    <2>1. CASE Verify
      BY <2>1 DEF Verify, BeginRestore, Goto, Return, Toggling
    <2>2. CASE phase = "metadata"
      BY <2>2, PlanStays DEF Toggling, InMotion, Next
    <2>3. CASE ~Verify /\ phase # "metadata"
      <3>1. phase' # "metadata"
        BY <2>3
        DEF Step, GetProxy, GetFails, Decide, Create, Update, Delete, Disable,
            Enable, Baseline, ClearSection, PostSection, DeletePlain, PostPlain,
            Save, SaveMetadata, Current, Recheck, CallFails, Abandon,
            BeginRestore, ReturnError, Return, Goto, StillWriting, Loaded,
            SaveFile, ApplyMutation, Refuse
      <3>2. QED
        BY <3>1 DEF Toggling
    <2>4. QED
      BY <2>1, <2>2, <2>3
  <1>2. CASE phase \notin InMotion
    <2>1. phase' # "metadata"
      <3>1. ASSUME phase' = "metadata" PROVE FALSE
        <4>1. CASE phase = "baseline"
          BY <3>1, <4>1, BaselineSteps DEF Return, Goto
        <4>2. CASE phase # "baseline"
          BY <1>2, <3>1, <4>2, PlanStarts
          DEF Next, InMotion, Decide, Create, Update, Delete, Disable, Enable,
              Refuse, SaveFile, ApplyMutation, ReturnError, Return, Goto
        <4>3. QED
          BY <4>1, <4>2
      <3>2. QED
        BY <3>1
    <2>2. QED
      BY <2>1 DEF Toggling
  <1>3. QED
    BY <1>1, <1>2

CatalogStep == [Catalog!Next]_(Catalog!catalog)

LEMMA Stutters ==
  ASSUME ActiveNow' = ActiveNow, UNCHANGED <<disabled, result>>
  PROVE  CatalogStep
  BY DEF CatalogStep, Catalog!catalog, ActiveNow

LEMMA Declines ==
  ASSUME ActiveNow' = ActiveNow, UNCHANGED disabled,
         result' \in {"refused", "failed", "rolledback"}
  PROVE  CatalogStep
  BY DEF CatalogStep, Catalog!Next, Catalog!Decline, ActiveNow

\* A request that answered OK after writing made its edit, and only that.
LEMMA Commits ==
  ASSUME TypeOK, OwnSections, OwnEntries, Undisturbed, Decided, Toggling,
         phase \in InMotion, Return("ok"), Verify \/ SaveMetadata
  PROVE  CatalogStep
  <1>1. ActiveNow' = desired /\ result' = "ok" /\ snap = ActiveNow /\ Edited
    BY OkIsDesired DEF Return, Decided, Deciding
  <1>2. store = disabled /\ req \in Requests /\ req.id \in Id /\ req.new \in Id
    BY RequestTypes DEF Undisturbed, InMotion
  <1>3. \A i : Catalog!Of(i) = EntriesOf(snap, i)
    BY <1>1 DEF Catalog!Of, EntriesOf, ActiveNow
  <1>4. req.kind \in EditKinds =>
          req.entries \in Catalog!Specs(req.new)
    BY <1>2 DEF Requests, Catalog!Specs, ToggleKinds, EditKinds
  <1>5. CASE Verify
    <2>1. UNCHANGED disabled /\ req.kind \notin ToggleKinds
      BY <1>5 DEF Verify, Return, BeginRestore, Goto
    <2>2. CASE req.kind = "create"
      <3>1. desired = ActiveNow \union req.entries /\ req.id = req.new
        BY <1>1, <1>2, <2>2 DEF Edited, Requests, ToggleKinds
      <3>2. Catalog!Create(req.new)
        BY <1>1, <1>2, <1>3, <1>4, <2>1, <2>2, <3>1
        DEF Edited, EditKinds, Catalog!Create, Catalog!Free, Catalog!Active,
            Catalog!Parked, Catalog!Commit, ActiveNow
      <3>3. QED
        BY <1>2, <3>2 DEF CatalogStep, Catalog!Next
    <2>3. CASE req.kind = "update"
      <3>1. desired = (ActiveNow \ EntriesOf(snap, req.id)) \union req.entries
        BY <1>1, <2>3 DEF Edited
      <3>2. Catalog!Update(req.id, req.new)
        BY <1>1, <1>2, <1>3, <1>4, <2>1, <2>3, <3>1
        DEF Edited, EditKinds, Catalog!Update, Catalog!Free, Catalog!Active,
            Catalog!Parked, Catalog!Commit, ActiveNow
      <3>3. QED
        BY <1>2, <3>2 DEF CatalogStep, Catalog!Next
    <2>4. CASE req.kind = "delete"
      <3>1. desired = ActiveNow \ EntriesOf(snap, req.id)
        BY <1>1, <1>2, <2>4 DEF Edited, Requests, EditKinds
      <3>2. Catalog!Delete(req.id)
        BY <1>1, <1>2, <1>3, <2>1, <2>4, <3>1
        DEF Edited, Catalog!Delete, Catalog!Active, Catalog!Parked,
            Catalog!Commit, ActiveNow
      <3>3. QED
        BY <1>2, <3>2 DEF CatalogStep, Catalog!Next
    <2>5. QED
      BY <1>2, <2>1, <2>2, <2>3, <2>4 DEF Requests, EditKinds, ToggleKinds
  <1>6. CASE SaveMetadata
    <2>1. req.kind \in ToggleKinds
      BY <1>6 DEF SaveMetadata, Toggling
    <2>2. disabled' = [disabled EXCEPT ![req.id] =
            IF req.kind = "disable" THEN EntriesOf(snap, req.id) ELSE {}]
      BY <1>2, <1>6 DEF SaveMetadata, BeginRestore, Goto, Return
    <2>3. CASE req.kind = "disable"
      <3>1. desired = ActiveNow \ EntriesOf(snap, req.id)
        BY <1>1, <1>2, <2>3 DEF Edited, Requests, EditKinds
      <3>2. Catalog!Disable(req.id)
        BY <1>1, <1>2, <1>3, <2>2, <2>3, <3>1
        DEF Edited, Catalog!Disable, Catalog!Active, Catalog!Parked,
            Catalog!Commit, ActiveNow
      <3>3. QED
        BY <1>2, <3>2 DEF CatalogStep, Catalog!Next
    <2>4. CASE req.kind = "enable"
      <3>1. desired = ActiveNow \union disabled[req.id]
        BY <1>1, <1>2, <2>4 DEF Edited
      <3>2. Catalog!Enable(req.id)
        BY <1>1, <1>2, <1>3, <2>2, <2>4, <3>1
        DEF Edited, Catalog!Enable, Catalog!Active, Catalog!Parked,
            Catalog!Commit, ActiveNow
      <3>3. QED
        BY <1>2, <3>2 DEF CatalogStep, Catalog!Next
    <2>5. QED
      BY <2>1, <2>3, <2>4 DEF ToggleKinds
  <1>7. QED
    BY <1>5, <1>6

\* A request that gave up its rollback left the other sections alone.
LEMMA Tears ==
  ASSUME TypeOK, OwnSections, phase \in InMotion, Step,
         Return("rollbackFailed"), UNCHANGED disabled
  PROVE  CatalogStep
  <1>1. UNCHANGED plainReadable /\ req.id \in Id /\ req.new \in Id
    BY PlainReadableStays, RequestTypes DEF InMotion
  <1>2. Sections(running', Protocols \ Changed) = Sections(running, Protocols \ Changed)
    BY StepStays
  <1>3. /\ running \subseteq Entry /\ before \subseteq Entry /\ running' \subseteq Entry
        /\ \A e \in Entry : ProtoOf[IdOf[e]] \in Protocols
    BY StepTypes, ConstantsAssumption DEF TypeOK
  <1>4. /\ ActiveNow' = Visible(running)'
        /\ ActiveNow = Visible(Sections(running, Protocols \ Changed)
                                 \union Sections(before, Changed))
    BY DEF Return, ActiveNow, Visible, Committed, InMotion
  <1>5. ActiveNow' \in SUBSET Entry
    BY <1>3, <1>4 DEF Visible, Sections
  <1>6. \A e \in Entry : ProtoOf[IdOf[e]] \notin Changed =>
          (e \in ActiveNow' <=> e \in ActiveNow)
    BY <1>1, <1>2, <1>3, <1>4 DEF Visible, Sections
  <1>7. ActiveNow \subseteq Entry
    BY <1>3, <1>4 DEF Visible, Sections
  <1>8. {e \in ActiveNow' : ProtoOf[IdOf[e]] \notin {ProtoOf[req.id], ProtoOf[req.new]}}
          = {e \in ActiveNow : ProtoOf[IdOf[e]] \notin {ProtoOf[req.id], ProtoOf[req.new]}}
    BY <1>5, <1>6, <1>7 DEF Changed
  <1>9. Catalog!Tear(req.id, req.new)
    BY <1>5, <1>8 DEF Catalog!Tear, Return, ActiveNow
  <1>10. QED
    BY <1>1, <1>9 DEF CatalogStep, Catalog!Next

\* The decision itself edits at most what is disabled.
LEMMA Decides ==
  ASSUME TypeOK, Undisturbed, Decide PROVE CatalogStep
  <1>1. phase = "snapshot" /\ half /\ UNCHANGED router
    BY DEF Decide, Create, Update, Delete, Disable, Enable, Loaded
  <1>2. /\ store = disabled /\ req \in Requests
        /\ req.id \in Id /\ req.new \in Id
    BY <1>1, RequestTypes DEF Undisturbed
  <1>3. ActiveNow = Read
    BY <1>1, ReadIsVisible DEF ActiveNow, Visible, Committed, InMotion
  <1>4. \A i : Catalog!Of(i) = EntriesOf(Read, i)
    BY <1>3 DEF Catalog!Of, EntriesOf, ActiveNow
  <1>5. phase' \notin InMotion => ActiveNow' = ActiveNow
    BY <1>1 DEF ActiveNow, Visible, Committed, InMotion, router
  <1>6. ASSUME NEW d, ApplyMutation(d) PROVE CatalogStep
    <2>1. CASE Goto("baseline")
      BY <1>5, <2>1, Stutters DEF Goto, InMotion
    <2>2. CASE ReturnError("refused")
      BY <1>2, <1>5, <2>2, Declines DEF ReturnError, Return, InMotion
    <2>3. QED
      BY <1>6, <2>1, <2>2 DEF ApplyMutation
  <1>7. CASE Refuse
    BY <1>5, <1>7, Declines DEF Refuse, Return, InMotion
  <1>8. ASSUME NEW file, SaveFile(file)
        PROVE  \/ CatalogStep
               \/ disabled' = file /\ result' = "ok" /\ ActiveNow' = ActiveNow
    BY <1>5, <1>8, Declines DEF SaveFile, Return, InMotion
  <1>9. CASE Create \/ Disable \/ Enable
    BY <1>6, <1>7, <1>9 DEF Create, Disable, Enable
  <1>10. CASE Update
    <2>1. SUFFICES ASSUME
            Kept(req.id), ~(req.new # req.id /\ Taken),
            SaveFile([store EXCEPT ![req.id] = {}, ![req.new] = req.entries])
          PROVE  CatalogStep
      BY <1>6, <1>7, <1>10 DEF Update
    <2>2. SUFFICES ASSUME
            disabled' = [disabled EXCEPT ![req.id] = {}, ![req.new] = req.entries],
            result' = "ok", ActiveNow' = ActiveNow
          PROVE  CatalogStep
      BY <1>2, <1>8, <2>1
    <2>3. req.entries \in Catalog!Specs(req.new)
      BY <1>2, <1>10 DEF Update, Requests, Catalog!Specs, ToggleKinds, EditKinds
    <2>4. Catalog!Update(req.id, req.new)
      BY <1>2, <1>4, <2>1, <2>2, <2>3
      DEF Kept, Taken, Known, Catalog!Update, Catalog!Free, Catalog!Active,
          Catalog!Parked, Catalog!Commit, ActiveNow
    <2>5. QED
      BY <1>2, <2>4 DEF CatalogStep, Catalog!Next
  <1>11. CASE Delete
    <2>1. SUFFICES ASSUME Kept(req.id), SaveFile([store EXCEPT ![req.id] = {}])
                   PROVE  CatalogStep
      BY <1>6, <1>7, <1>11 DEF Delete
    <2>2. SUFFICES ASSUME disabled' = [disabled EXCEPT ![req.id] = {}],
                          result' = "ok", ActiveNow' = ActiveNow
                   PROVE  CatalogStep
      BY <1>2, <1>8, <2>1
    <2>3. Catalog!Delete(req.id)
      BY <1>2, <2>1, <2>2
      DEF Kept, Catalog!Delete, Catalog!Parked, Catalog!Commit, ActiveNow
    <2>4. QED
      BY <1>2, <2>3 DEF CatalogStep, Catalog!Next
  <1>12. QED
    BY <1>9, <1>10, <1>11 DEF Decide

Atomic ==
  /\ TypeOK /\ OwnSections /\ OwnEntries /\ Undisturbed
  /\ Decided /\ Toggling

LEMMA StepIsCatalogStep ==
  ASSUME Atomic, Step PROVE CatalogStep
  <1> USE DEF Atomic
  <1>1. CASE phase \in InMotion
    <2>1. CASE phase' \in InMotion /\ UNCHANGED <<result, disabled>>
      BY <1>1, <2>1, ActiveStays, Stutters DEF Deciding
    <2>2. CASE Return("ok") /\ (Verify \/ SaveMetadata)
      BY <1>1, <2>2, Commits
    <2>3. CASE Return("rolledback") /\ Recheck /\ UNCHANGED disabled
      <3>1. /\ Matches(before) /\ half /\ UNCHANGED router
        BY <2>3 DEF Recheck, Loaded, ReturnError, Return
      <3>2. Sections(running, Changed) = Sections(before, Changed)
        BY <1>1, <3>1, ReadIsRunning DEF TypeOK
      <3>3. \A e \in running : ProtoOf[IdOf[e]] \in Protocols
        BY ConstantsAssumption DEF TypeOK
      <3>4. Committed = running
        BY <1>1, <3>2, <3>3 DEF Committed, Sections
      <3>5. Committed' = running
        BY <2>3, <3>1 DEF Return, Committed, InMotion, router
      <3>6. QED
        BY <2>3, <3>1, <3>4, <3>5, Declines DEF ActiveNow, Visible, Return, router
    <2>4. CASE Return("rollbackFailed") /\ UNCHANGED disabled
      BY <1>1, <2>4, Tears
    <2>5. QED
      BY <1>1, <2>1, <2>2, <2>3, <2>4, InMotionSteps
  <1>2. CASE phase = "baseline"
    <2>1. CASE phase' \in Deciding /\ UNCHANGED <<result, disabled>>
      BY <1>2, <2>1, ActiveStays, Stutters DEF Deciding
    <2>2. CASE /\ Return("failed") \/ Return("refused")
               /\ UNCHANGED <<running, disabled>>
      <3>1. result' = "refused" \/ result' = "failed"
        BY <2>2 DEF Return
      <3>2. ActiveNow' = ActiveNow
        BY <1>2, <2>2, PlainReadableStays
        DEF Return, ActiveNow, Visible, Committed, InMotion
      <3>3. QED
        BY <2>2, <3>1, <3>2, Declines
    <2>3. QED
      BY <1>2, <2>1, <2>2, BaselineSteps DEF Goto, Deciding, InMotion
  <1>3. CASE Decide
    BY <1>3, Decides
  <1>4. CASE GetProxy /\ phase = "snapshot"
    BY <1>4, Stutters
    DEF GetProxy, router, plan, ActiveNow, Visible, Committed, InMotion
  <1>5. CASE GetFails /\ phase = "snapshot"
    <2>1. Return("failed") /\ UNCHANGED <<disabled, running, plainReadable>>
      BY <1>5 DEF GetFails, CallFails, Abandon, ReturnError, Undisturbed
    <2>2. QED
      BY <1>5, <2>1, Declines
      DEF Return, ActiveNow, Visible, Committed, InMotion
  <1>6. phase \notin InMotion \union {"baseline"} =>
          \/ Decide
          \/ phase = "snapshot" /\ (GetProxy \/ GetFails)
    <2>1. phase \in Phases
      BY DEF TypeOK
    <2>2. SUFFICES ASSUME phase \in {"idle", "snapshot"}
                   PROVE  \/ Decide
                          \/ phase = "snapshot" /\ (GetProxy \/ GetFails)
      BY <2>1 DEF Phases, ReadPhases, WritePhases, InMotion
    <2>3. GetProxy \/ GetFails => phase = "snapshot"
      BY <2>2 DEF GetProxy, GetFails, ReadPhases
    <2>4. GetProxy \/ GetFails \/ Decide
      BY <2>2
      DEF Step, Baseline, ClearSection, PostSection, SectionDue, DeletePlain,
          PostPlain, Save, Verify, SaveMetadata, Current, Recheck, Loaded,
          WritePhases
    <2>5. QED
      BY <2>3, <2>4
  <1>7. QED
    BY <1>1, <1>2, <1>3, <1>4, <1>5, <1>6

LEMMA AtomicInit == Init => Atomic
  <1>1. Init => TypeOK
    BY InitTypes
  <1>2. QED
    BY <1>1
    DEF Init, Atomic, OwnSections, OwnEntries, Undisturbed, Decided, Toggling,
        Deciding, InMotion, NoFile, Section

\* While nothing else writes and nothing restarts, DNS Control is the catalog
\* it promises: each request is, to its client, one atomic edit that answers
\* OK, no edit at all, or a failure that admits what it may have left behind,
\* in the request's own sections; whatever calls fail, are dropped or are cut
\* off on the way.
THEOREM RequestsAreAtomic ==
  ASSUME Calm PROVE Spec => ImplementsCatalog
  <1>1. Init => Atomic
    BY AtomicInit
  <1>2. ASSUME Atomic, [Next]_vars PROVE Atomic' /\ CatalogStep
    <2>1. ~AdminWrites /\ ~Crashes /\ ~Reboots
      BY <1>2 DEF Atomic, TypeOK, Calm, AdminWrites, Crashes, Reboots
    <2>2. TypeOK' /\ OwnSections' /\ OwnEntries' /\ Undisturbed'
      BY <1>2, <2>1, NextTypes, NextOwns, NextOwnEntries, NextUndisturbed DEF Atomic
    <2>3. CASE Step
      BY <1>2, <2>2, <2>3, NextDecided, NextToggling, StepIsCatalogStep DEF Atomic
    <2>4. ASSUME NEW r \in Requests, Begin(r) PROVE Atomic' /\ CatalogStep
      <3>1. Decided' /\ Toggling'
        BY <2>4 DEF Begin, Decided, Toggling, Deciding, InMotion
      <3>2. ActiveNow' = ActiveNow /\ UNCHANGED disabled /\ result' = "none"
        BY <2>4 DEF Begin, router, ActiveNow, Visible, Committed, InMotion
      <3>3. QED
        BY <2>2, <3>1, <3>2
        DEF Atomic, CatalogStep, Catalog!Next, Catalog!Ask, ActiveNow
    <2>5. CASE UNCHANGED vars
      <3>1. Decided' /\ Toggling'
        BY <1>2, <2>5
        DEF Atomic, vars, router, plan, Decided, Toggling, Deciding, Edited,
            EntriesOf, ActiveNow, Visible, Committed, Changed
      <3>2. ActiveNow' = ActiveNow /\ UNCHANGED <<disabled, result>>
        BY <2>5 DEF vars, router, plan, ActiveNow, Visible, Committed, Changed
      <3>3. QED
        BY <2>2, <3>1, <3>2, Stutters DEF Atomic
    <2>6. QED
      BY <1>2, <2>1, <2>3, <2>4, <2>5 DEF Next, AdminWrite, Crash, Reboot
  <1>3. Init => Catalog!Init
    BY ConstantsAssumption
    DEF Init, Catalog!Init, NoFile, Visible, Committed, InMotion, Sections
  <1>4. QED
    BY <1>1, <1>2, <1>3, PTL
    DEF Spec, ImplementsCatalog, Catalog!Spec, CatalogStep
=============================================================================
