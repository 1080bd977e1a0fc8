------------------------ MODULE PackageActionsProofs ------------------------
(***************************************************************************)
(* Theorems about PackageActions: its types, with the mutual exclusion of  *)
(* requests; that opkg reads, for a request that waits, the package which  *)
(* that request has verified; that success is only reported for what has   *)
(* been done; that an update of Core that broke off can be repaired; and   *)
(* that a plan which exchanges a package loses the old one only while the  *)
(* new one is there.  They hold for any items, plans and requests.         *)
(***************************************************************************)
EXTENDS PackageActions, TLAPS

Idle == [at : Answered]

Busy == [at : Waiting \union {"queued"}, item : Item, action : Action,
         live : BOOLEAN, target : {None} \union Version, step : Nat]

Opkgs == [at : {"begin", "unpack", "postinst", "commit"}, pkg : Package,
          by : Req \union {Nobody}, to : Version, ipk : BOOLEAN,
          verb : {"lists", "install", "upgrade", "remove", "reinstall"}]

Lefts == [by : Req \union {Nobody}, pkg : Package,
          does : {"prerm", "postinst", "rest"}]

Files == [item : Release, version : Version, whole : BOOLEAN]

Shape ==
  /\ scenario \in Scenarios
  /\ running \in {None} \union Version /\ disk \in Version /\ abi \in BOOLEAN
  /\ offer \in [Release -> Version] /\ feeds \subseteq Item
  /\ files \subseteq Files
  /\ db \in [Package -> {None} \union Version]
  /\ opkg = NoOpkg \/ opkg \in Opkgs
  /\ left \subseteq Lefts
  /\ req \in [Req -> Idle \union Busy]

\* The request that is past its check holds the mutex, has a step to do, and
\* a version to bring if its item has releases.
Held(r) ==
  /\ req[r].at = "queued" => req[r].step = 1
  /\ req[r].at \in Waiting =>
       /\ holder = r
       /\ req[r].step \in DOMAIN Plan[req[r].item][req[r].action]
       /\ req[r].item \in Release => req[r].target \in Version

\* Once a request has verified its package, the file stays.
Verified(r) ==
  /\ req[r].at \in {"download", "verified"} => StepOf(req[r]).op = "ipk"
  /\ req[r].at = "verified" => Ipk(req[r], TRUE) \in files

\* An opkg that somebody waits for is what its request has started.
Owned ==
  opkg # NoOpkg /\ opkg.by # Nobody =>
    /\ req[opkg.by].at = "run"
    /\ opkg.ipk => /\ opkg.pkg = req[opkg.by].item
                   /\ opkg.to = req[opkg.by].target
                   /\ Ipk(req[opkg.by], TRUE) \in files

IInv ==
  /\ Shape /\ Owned
  /\ \A r \in Req : Held(r) /\ Verified(r)

\* Only r, or nobody, is past its check, and opkg works for nobody.
Alone(r) ==
  /\ \A o \in Req \ {r} : req[o].at \notin Waiting
  /\ opkg = NoOpkg \/ opkg.by = Nobody

-----------------------------------------------------------------------------
LEMMA StepFacts ==
  ASSUME NEW i \in Item, NEW a \in Action, NEW k \in DOMAIN Plan[i][a]
  PROVE  /\ Plan[i][a][k] \in Step
         /\ k \in Nat \ {0} /\ Len(Plan[i][a]) \in Nat
         /\ k < Len(Plan[i][a]) => k + 1 \in DOMAIN Plan[i][a]
         /\ Plan[i][a][k].op = "ipk" => i \in Release /\ Plan[i][a][k].pkg = i
<1>1. Plan[i][a] \in Seq(Step) BY PackageAssumption
<1>2. DOMAIN Plan[i][a] = 1..Len(Plan[i][a]) /\ Len(Plan[i][a]) \in Nat
  BY <1>1
<1> QED BY <1>1, <1>2, PackageAssumption

LEMMA InitInvariant == Init => IInv
<1> SUFFICES ASSUME Init PROVE IInv
  OBVIOUS
<1> USE DEF Init
<1>1. req \in [Req -> Idle] /\ \A r \in Req : req[r].at = "idle"
  BY DEF NoReq, Idle, Answered
<1>2. 1 \in Version /\ MaxVersion - 1 \in Version
  BY PackageAssumption DEF Version
<1>3. Shape BY <1>1, <1>2 DEF Shape
<1>4. \A r \in Req : Held(r) /\ Verified(r)
  BY <1>1 DEF Held, Verified, Waiting
<1> QED BY <1>3, <1>4 DEF IInv, Owned

\* Whoever is past its check, or enters with the mutex free, is alone.
LEMMA AloneHolder ==
  ASSUME IInv, NEW r \in Req, req[r].at # "run",
         holder = None \/ req[r].at \in Waiting
  PROVE  Alone(r)
<1>1. \A o \in Req \ {r} : req[o].at \notin Waiting
  BY RequestAssumption DEF IInv, Held
<1>2. ASSUME opkg # NoOpkg, opkg.by # Nobody PROVE FALSE
  <2>1. opkg.by \in Req /\ req[opkg.by].at = "run"
    BY <1>2 DEF IInv, Shape, Opkgs, Owned
  <2> QED BY <1>1, <2>1 DEF Waiting
<1> QED BY <1>1, <1>2 DEF Alone

\* A step of the request that is alone.
LEMMA AloneStep ==
  ASSUME IInv, NEW r \in Req, Alone(r), NEW q \in Idle \union Busy, Goes(r, q),
         q.at \in Waiting =>
           /\ holder' = r /\ q.step \in DOMAIN Plan[q.item][q.action]
           /\ q.item \in Release => q.target \in Version,
         q.at # "queued",
         q.at \in {"download", "verified"} => StepOf(q).op = "ipk",
         q.at = "verified" => Ipk(q, TRUE) \in files',
         files' \subseteq Files, feeds' \subseteq Item,
         UNCHANGED <<scenario, core, offer, db, opkg, left>>
  PROVE  IInv'
<1>1. /\ req' \in [Req -> Idle \union Busy] /\ req'[r] = q
      /\ \A o \in Req \ {r} : req'[o] = req[o]
  BY DEF IInv, Shape, Goes
<1>2. Shape' BY <1>1 DEF IInv, Shape, core
<1>3. Owned' BY DEF Owned, Alone
<1>4. ASSUME NEW o \in Req PROVE Held(o)' /\ Verified(o)'
  <2>1. CASE o = r
    <3>1. req'[o] = q BY <1>1, <2>1
    <3>2. Held(o)' BY <2>1, <3>1 DEF Held
    <3>3. Verified(o)' BY <3>1 DEF Verified, StepOf, Ipk
    <3> QED BY <3>2, <3>3
  <2>2. CASE o # r
    <3>1. req'[o] = req[o] /\ Held(o) BY <1>1, <2>2 DEF IInv
    <3> QED BY <2>2, <3>1 DEF Alone, Held, Verified, Waiting
  <2> QED BY <2>1, <2>2
<1> QED BY <1>2, <1>3, <1>4 DEF IInv

\* What a step of the plan leaves alone; files may come and go.
Quiet == files' \subseteq Files /\ UNCHANGED <<scenario, core, offer, db, opkg, left>>

LEMMA Answers ==
  ASSUME IInv, NEW r \in Req, Alone(r), NEW result \in Answered,
         Answer(r, result), Quiet, feeds' \subseteq Item
  PROVE  IInv'
<1> DEFINE q == [at |-> result]
<1>1. q \in Idle /\ q.at = result BY DEF Idle
<1>2. q.at \notin Waiting /\ q.at \notin {"download", "verified", "queued"}
  BY <1>1 DEF Answered, Waiting
<1>3. Goes(r, q) BY DEF Answer
<1> HIDE DEF q
<1> QED BY <1>1, <1>2, <1>3, AloneStep DEF Quiet

LEMMA Advances ==
  ASSUME IInv, NEW r \in Req, Alone(r), req[r].at \in Waiting,
         Advance(r), Quiet, feeds' \subseteq Item
  PROVE  IInv'
<1>1. /\ req[r] \in Busy /\ holder = r /\ holder' = r
      /\ req[r].step \in DOMAIN Plan[req[r].item][req[r].action]
      /\ req[r].item \in Release => req[r].target \in Version
  BY DEF IInv, Shape, Held, Advance, Waiting, Idle, Answered
<1>2. CASE MoreSteps(req[r])
  <2>1. req[r].item \in Item /\ req[r].action \in Action /\ req[r].step \in Nat
    BY <1>1 DEF Busy
  <2> DEFINE n == req[r].step + 1
             q == [req[r] EXCEPT !.at = "plan", !.step = n]
  <2>2. Goes(r, q) BY <1>2 DEF Advance
  <2> HIDE DEF q
  <2>3. n \in Nat /\ n \in DOMAIN Plan[req[r].item][req[r].action]
    <3>1. req[r].step < Len(Plan[req[r].item][req[r].action])
      BY <1>2 DEF MoreSteps
    <3> DEFINE i == req[r].item
               a == req[r].action
               k == req[r].step
    <3>2. i \in Item /\ a \in Action /\ k \in DOMAIN Plan[i][a] /\ k < Len(Plan[i][a])
      BY <1>1, <2>1, <3>1
    <3> HIDE DEF i, a, k
    <3>3. k + 1 \in DOMAIN Plan[i][a] BY <3>2, StepFacts
    <3>4. req[r].step + 1 \in Nat BY <2>1
    <3> QED BY <3>3, <3>4 DEF i, a, k
  <2> HIDE DEF n
  <2>4. /\ q \in Busy /\ q.at = "plan" /\ q.step = n /\ q.item = req[r].item
        /\ q.action = req[r].action /\ q.target = req[r].target
    BY <1>1, <2>3 DEF q, Busy, Waiting
  <2> QED BY <1>1, <2>2, <2>3, <2>4, AloneStep DEF Quiet
<1>3. CASE ~MoreSteps(req[r])
  <2> DEFINE q == [req[r] EXCEPT !.at = "check"]
  <2>1. q \in Busy /\ q.at = "check" BY <1>1 DEF Busy, Waiting
  <2>2. /\ q.item = req[r].item /\ q.action = req[r].action
        /\ q.target = req[r].target /\ q.step = req[r].step
    BY <1>1 DEF Busy
  <2>3. Goes(r, q) BY <1>3 DEF Advance
  <2> HIDE DEF q
  <2> QED BY <1>1, <2>1, <2>2, <2>3, AloneStep DEF Quiet
<1> QED BY <1>2, <1>3

LEMMA Fails ==
  ASSUME IInv, NEW r \in Req, Alone(r), req[r].at \in Waiting,
         Fail(r), Quiet, feeds' \subseteq Item
  PROVE  IInv'
BY Answers, Advances DEF Fail, Answered

\* The next stage of the same step.
LEMMA Stage ==
  ASSUME IInv, NEW r \in Req, Alone(r), req[r].at \in Waiting,
         NEW at \in {"download", "verified"},
         Goes(r, [req[r] EXCEPT !.at = at]), StepOf(req[r]).op = "ipk",
         at = "verified" => Ipk(req[r], TRUE) \in files',
         Quiet, UNCHANGED <<holder, feeds>>
  PROVE  IInv'
<1> DEFINE q == [req[r] EXCEPT !.at = at]
<1>1. /\ req[r] \in Busy /\ holder = r
      /\ req[r].step \in DOMAIN Plan[req[r].item][req[r].action]
      /\ req[r].item \in Release => req[r].target \in Version
  BY DEF IInv, Shape, Held, Waiting, Idle, Answered
<1>2. q \in Busy /\ q.at = at BY <1>1 DEF Busy, Waiting
<1>3. /\ q.item = req[r].item /\ q.action = req[r].action
      /\ q.target = req[r].target /\ q.step = req[r].step
  BY <1>1 DEF Busy
<1>4. StepOf(q).op = "ipk" /\ (at = "verified" => Ipk(q, TRUE) \in files')
  BY <1>3 DEF StepOf, Ipk
<1>5. Goes(r, q) OBVIOUS
<1>6. feeds' \subseteq Item BY DEF IInv, Shape
<1> HIDE DEF q
<1> QED BY <1>1, <1>2, <1>3, <1>4, <1>5, <1>6, AloneStep DEF Quiet
-----------------------------------------------------------------------------
LEMMA EnterStep ==
  ASSUME IInv, NEW r \in Req, Enter(r), UNCHANGED scenario
  PROVE  IInv'
<1>1. Alone(r) /\ req[r] \in Busy
  BY AloneHolder DEF Enter, Free, IInv, Shape, Idle, Answered
<1>2. Quiet /\ feeds' \subseteq Item BY DEF Enter, Quiet, IInv, Shape
<1>3. CASE Answer(r, "failed") BY <1>1, <1>2, <1>3, Answers DEF Answered
<1>4. ASSUME Allowed(req[r].item, req[r].action), holder' = r,
             Goes(r, [req[r] EXCEPT !.at = "plan",
                       !.target = IF req[r].item \in Release
                                  THEN offer[req[r].item] ELSE None])
      PROVE IInv'
  <2> DEFINE t == IF req[r].item \in Release THEN offer[req[r].item] ELSE None
             q == [req[r] EXCEPT !.at = "plan", !.target = t]
  <2>1. t \in {None} \union Version /\ (req[r].item \in Release => t \in Version)
    BY DEF IInv, Shape
  <2>2. q \in Busy /\ q.at = "plan" /\ q.target = t
    BY <1>1, <2>1 DEF Busy, Waiting
  <2>3. q.item = req[r].item /\ q.action = req[r].action /\ q.step = req[r].step
    BY <1>1 DEF Busy
  <2>4. q.step \in DOMAIN Plan[q.item][q.action]
    <3>1. req[r].step = 1 BY DEF IInv, Held, Enter
    <3>2. Plan[req[r].item][req[r].action] \in Seq(Step) \ {<<>>}
      BY <1>1, <1>4, PackageAssumption DEF Allowed, Busy
    <3>3. 1 \in DOMAIN Plan[req[r].item][req[r].action] BY <3>2
    <3> QED BY <2>3, <3>1, <3>3
  <2>5. Goes(r, q) BY <1>4
  <2> HIDE DEF q
  <2> QED BY <1>1, <1>2, <1>4, <2>1, <2>2, <2>3, <2>4, <2>5, AloneStep DEF Quiet
<1> QED BY <1>3, <1>4 DEF Enter

\* What a request that carries its plan out is.
LEMMA Working ==
  ASSUME IInv, NEW r \in Req, req[r].at \in Waiting
  PROVE  /\ req[r] \in Busy /\ holder = r
         /\ req[r].item \in Item /\ req[r].action \in Action
         /\ req[r].step \in DOMAIN Plan[req[r].item][req[r].action]
         /\ req[r].item \in Release => req[r].target \in Version
         /\ req[r].target \in {None} \union Version
         /\ StepOf(req[r]) \in Step
         /\ StepOf(req[r]).op = "ipk" =>
              req[r].item \in Release /\ StepOf(req[r]).pkg = req[r].item
<1>1. /\ req[r] \in Busy /\ holder = r
      /\ req[r].step \in DOMAIN Plan[req[r].item][req[r].action]
      /\ req[r].item \in Release => req[r].target \in Version
  BY DEF IInv, Shape, Held, Waiting, Idle, Answered
<1>2. /\ req[r].item \in Item /\ req[r].action \in Action
      /\ req[r].target \in {None} \union Version
  BY <1>1 DEF Busy
<1>3. /\ StepOf(req[r]) \in Step
      /\ StepOf(req[r]).op = "ipk" =>
           req[r].item \in Release /\ StepOf(req[r]).pkg = req[r].item
  BY <1>1, <1>2, StepFacts DEF StepOf
<1> QED BY <1>1, <1>2, <1>3

\* The steps of a plan but for the one that starts opkg.
LEMMA WorkStep ==
  ASSUME IInv, NEW r \in Req, Work(r), ~StartOpkg(r), UNCHANGED scenario
  PROVE  IInv'
<1>1. req[r].at \in Waiting /\ req[r].at # "run"
  BY DEF Work, Conflicts, Download, Downloaded, WriteFeed, Ran, Check,
         Doing, Waiting
<1>2. Alone(r) BY <1>1, AloneHolder
<1>3. Cleaned(req[r]) \subseteq Files /\ files \subseteq Files /\ feeds \subseteq Item
  BY DEF Cleaned, IInv, Shape
<1>4. ASSUME req[r].item \in Release, NEW w \in BOOLEAN
      PROVE  Ipk(req[r], w) \in Files
  BY <1>1, <1>4, Working DEF Ipk, Files
<1>5. CASE Conflicts(r)
  BY <1>2, <1>3, <1>5, Answers DEF Conflicts, Quiet, Answered
<1>6. CASE Download(r)
  <2>1. StepOf(req[r]).op = "ipk" BY <1>6 DEF Download, Doing
  <2>2. Quiet BY <1>1, <1>3, <1>4, <1>6, <2>1, Working DEF Download, Quiet
  <2> QED BY <1>1, <1>2, <1>6, <2>1, <2>2, Stage DEF Download
<1>7. CASE Downloaded(r)
  <2>1. StepOf(req[r]).op = "ipk" BY <1>7 DEF Downloaded, IInv, Verified
  <2>2. files' = Cleaned(req[r]) \union {Ipk(req[r], TRUE)} \/ files' = Cleaned(req[r])
    BY <1>7 DEF Downloaded
  <2>3. Quiet
    BY <1>1, <1>3, <1>4, <1>7, <2>1, <2>2, Working DEF Downloaded, Quiet
  <2>4. CASE Fail(r)
    BY <1>1, <1>2, <1>3, <1>7, <2>3, <2>4, Fails DEF Downloaded
  <2>5. CASE /\ files' = Cleaned(req[r]) \union {Ipk(req[r], TRUE)}
             /\ Goes(r, [req[r] EXCEPT !.at = "verified"])
             /\ UNCHANGED holder
    BY <1>1, <1>2, <1>7, <2>1, <2>3, <2>5, Stage DEF Downloaded
  <2> QED BY <1>7, <2>4, <2>5 DEF Downloaded
<1>9. CASE WriteFeed(r)
  <2>1. Quiet BY <1>3, <1>9 DEF WriteFeed, Quiet
  <2>2. feeds' \subseteq Item BY <1>1, <1>3, <1>9, Working DEF WriteFeed
  <2> QED BY <1>1, <1>2, <1>9, <2>1, <2>2, Advances, Fails DEF WriteFeed
<1>10. CASE Ran(r)
  <2>1. Quiet BY <1>3, <1>10 DEF Ran, Quiet
  <2> QED BY <1>1, <1>2, <1>3, <1>10, <2>1, Advances, Fails DEF Ran
<1>11. CASE Check(r)
  <2>1. Quiet BY <1>3, <1>11 DEF Check, Quiet
  <2> QED BY <1>2, <1>3, <1>11, <2>1, Answers DEF Check, Answered
<1> QED BY <1>5, <1>6, <1>7, <1>9, <1>10, <1>11 DEF Work

LEMMA StartStep ==
  ASSUME IInv, NEW r \in Req, StartOpkg(r), UNCHANGED scenario
  PROVE  IInv'
<1> DEFINE s == StepOf(req[r])
<1>1. req[r].at \in Waiting /\ req[r].at # "run"
  BY DEF StartOpkg, Doing, Waiting
<1>2. Alone(r) BY <1>1, AloneHolder
<1>3. s.op = "ipk" => req[r].at = "verified"
  BY DEF StartOpkg, Doing
<1>4. CASE Fail(r) /\ files' = Cleaned(req[r]) /\ UNCHANGED opkg
  <2>1. Quiet BY <1>4 DEF StartOpkg, Quiet, Cleaned, IInv, Shape
  <2>2. feeds' \subseteq Item BY DEF StartOpkg, IInv, Shape
  <2> QED BY <1>1, <1>2, <1>4, <2>1, <2>2, Fails
<1>5. ASSUME NEW v \in IF s.op = "ipk" THEN {req[r].target} ELSE Feed,
             opkg' = [at |-> "begin", pkg |-> s.pkg, by |-> r, to |-> v,
                      verb |-> IF s.op = "ipk" /\ req[r].action = "update"
                               THEN "reinstall"
                               ELSE IF s.op = "ipk" THEN "install" ELSE s.op,
                      ipk |-> s.op = "ipk"],
             Goes(r, [req[r] EXCEPT !.at = "run"]),
             UNCHANGED <<holder, files>>
      PROVE  IInv'
  <2>1. UNCHANGED <<scenario, core, offer, feeds, db, left>> BY DEF StartOpkg
  <2>2. /\ req[r] \in Busy /\ holder = r /\ s \in Step
        /\ req[r].step \in DOMAIN Plan[req[r].item][req[r].action]
        /\ req[r].item \in Release => req[r].target \in Version
        /\ s.op = "ipk" => req[r].item \in Release /\ s.pkg = req[r].item
    BY <1>1, Working
  <2>3. v \in Version BY <2>2, PackageAssumption DEF Version
  <2>4. s.op = "ipk" \/ s.op \in {"lists", "install", "upgrade", "remove"}
    <3>1. req[r].at = "verified" => s.op = "ipk" BY DEF IInv, Verified
    <3> QED BY <3>1 DEF StartOpkg, Doing
  <2>5. opkg' \in Opkgs
    <3>1. s.pkg \in Package /\ (s.op = "ipk") \in BOOLEAN BY <2>2 DEF Step
    <3> QED BY <1>5, <2>3, <2>4, <3>1 DEF Opkgs
  <2> DEFINE q == [req[r] EXCEPT !.at = "run"]
  <2>6. /\ q \in Busy /\ q.at = "run" /\ q.item = req[r].item
        /\ q.action = req[r].action /\ q.target = req[r].target
        /\ q.step = req[r].step
    BY <2>2 DEF Busy, Waiting
  <2>7. /\ req' \in [Req -> Idle \union Busy] /\ req'[r] = q
        /\ \A o \in Req \ {r} : req'[o] = req[o]
    BY <1>5, <2>6 DEF IInv, Shape, Goes
  <2> HIDE DEF q
  <2>8. Shape' BY <1>5, <2>1, <2>5, <2>7 DEF IInv, Shape, core
  <2>9. Owned'
    <3>1. s.op = "ipk" => Ipk(req[r], TRUE) \in files
      BY <1>3 DEF IInv, Verified
    <3>2. s.op = "ipk" => Ipk(q, TRUE) \in files' /\ v = req[r].target
      BY <1>5, <2>6, <3>1 DEF Ipk
    <3>3. /\ opkg'.by = r /\ opkg'.pkg = s.pkg /\ opkg'.to = v
          /\ opkg'.ipk = (s.op = "ipk")
      BY <1>5
    <3> QED BY <2>2, <2>6, <2>7, <3>2, <3>3 DEF Owned, Ipk
  <2>10. ASSUME NEW o \in Req PROVE Held(o)' /\ Verified(o)'
    <3>1. CASE o = r
      <4>1. req'[o] = q BY <2>7, <3>1
      <4>2. Held(o)' BY <1>5, <2>2, <2>6, <3>1, <4>1 DEF Held
      <4>3. Verified(o)' BY <2>6, <4>1 DEF Verified
      <4> QED BY <4>2, <4>3
    <3>2. CASE o # r
      <4>1. req'[o] = req[o] /\ Held(o) BY <2>7, <3>2 DEF IInv
      <4> QED BY <1>2, <3>2, <4>1 DEF Alone, Held, Verified, Waiting
    <3> QED BY <3>1, <3>2
  <2> QED BY <2>8, <2>9, <2>10 DEF IInv
<1> QED BY <1>4, <1>5 DEF StartOpkg

-----------------------------------------------------------------------------
LEMMA PostStep ==
  ASSUME IInv, NEW r \in Req, NEW i \in Item, NEW a \in Action, Post(r, i, a),
         UNCHANGED scenario
  PROVE  IInv'
<1> DEFINE q == [at |-> "queued", item |-> i, action |-> a, live |-> TRUE,
                 target |-> None, step |-> 1]
<1>1. q \in Busy /\ q.at = "queued" /\ q.step = 1 BY DEF Busy
<1>2. Goes(r, q) /\ req[r].at = "idle" BY DEF Post, NoReq
<1> HIDE DEF q
<1>3. /\ req' \in [Req -> Idle \union Busy] /\ req'[r] = q
      /\ \A o \in Req \ {r} : req'[o] = req[o]
  BY <1>1, <1>2 DEF IInv, Shape, Goes
<1>4. UNCHANGED <<scenario, core, holder, offer, files, feeds, db, opkg, left>>
  BY DEF Post
<1>5. Shape' BY <1>3, <1>4 DEF IInv, Shape, core
<1>6. Owned'
  <2>1. opkg # NoOpkg /\ opkg.by # Nobody => opkg.by \in Req \ {r}
    BY <1>2 DEF IInv, Shape, Opkgs, Owned
  <2> QED BY <1>3, <1>4, <2>1 DEF IInv, Owned, Ipk
<1>7. ASSUME NEW o \in Req PROVE Held(o)' /\ Verified(o)'
  <2>1. CASE o = r
    <3>1. req'[o] = q BY <1>3, <2>1
    <3> QED BY <1>1, <3>1 DEF Held, Verified, Waiting
  <2>2. CASE o # r
    <3>1. req'[o] = req[o] /\ Held(o) /\ Verified(o) BY <1>3, <2>2 DEF IInv
    <3> QED BY <1>4, <3>1 DEF Held, Verified, StepOf, Ipk
  <2> QED BY <2>1, <2>2
<1> QED BY <1>5, <1>6, <1>7 DEF IInv

LEMMA ExpireStep ==
  ASSUME IInv, NEW r \in Req, Expire(r), UNCHANGED scenario
  PROVE  IInv'
<1> DEFINE q == [req[r] EXCEPT !.live = FALSE]
<1>1. req[r] \in Busy BY DEF Expire, IInv, Shape, Idle
<1>2. /\ q \in Busy /\ q.at = req[r].at /\ q.item = req[r].item
      /\ q.action = req[r].action /\ q.target = req[r].target
      /\ q.step = req[r].step
  BY <1>1 DEF Busy
<1>3. Goes(r, q) BY DEF Expire
<1> HIDE DEF q
<1>4. /\ req' \in [Req -> Idle \union Busy] /\ req'[r] = q
      /\ \A o \in Req \ {r} : req'[o] = req[o]
  BY <1>2, <1>3 DEF IInv, Shape, Goes
<1>5. UNCHANGED <<scenario, core, holder, offer, files, feeds, db, opkg, left>>
  BY DEF Expire
<1>6. Shape' BY <1>4, <1>5 DEF IInv, Shape, core
<1>7. \A o \in Req :
        /\ req'[o].at = req[o].at /\ req'[o].item = req[o].item
        /\ req'[o].action = req[o].action /\ req'[o].target = req[o].target
        /\ req'[o].step = req[o].step
  BY <1>2, <1>4
<1>8. Owned'
  <2>1. opkg # NoOpkg /\ opkg.by # Nobody => opkg.by \in Req
    BY DEF IInv, Shape, Opkgs
  <2> QED BY <1>5, <1>7, <2>1 DEF IInv, Owned, Ipk
<1>9. ASSUME NEW o \in Req PROVE Held(o)' /\ Verified(o)'
  BY <1>5, <1>7 DEF IInv, Held, Verified, StepOf, Ipk
<1> QED BY <1>6, <1>8, <1>9 DEF IInv

-----------------------------------------------------------------------------
\* All requests die; opkg goes on for nobody, or there is none.
LEMMA CutLeaves ==
  ASSUME NEW scripts, scripts \subseteq Lefts, CutOff(scripts)
  PROVE  left' \subseteq Lefts
<1>1. \A c \in Lefts : [c EXCEPT !.by = Nobody] \in Lefts
  BY DEF Lefts
<1> QED BY <1>1 DEF CutOff

LEMMA Dies ==
  ASSUME IInv, NEW scripts, scripts \subseteq Lefts, CutOff(scripts), NEW o,
         o = NoOpkg \/ (o \in Opkgs /\ o.by = Nobody), opkg' = o,
         running' \in {None} \union Version, disk' \in Version, abi' \in BOOLEAN,
         db' \in [Package -> {None} \union Version],
         UNCHANGED <<scenario, offer, files, feeds>>
  PROVE  IInv'
<1>1. req' \in [Req -> Idle] /\ \A r \in Req : req'[r].at = "idle"
  BY DEF CutOff, NoReq, Idle, Answered
<1>2. Shape' BY <1>1, CutLeaves DEF IInv, Shape
<1>3. Owned' BY DEF Owned
<1>4. \A r \in Req : Held(r)' /\ Verified(r)'
  BY <1>1 DEF Held, Verified, Waiting
<1> QED BY <1>2, <1>3, <1>4 DEF IInv

\* opkg goes on for whom it runs.
LEMMA GoesOn ==
  ASSUME IInv, opkg # NoOpkg,
         NEW at \in {"unpack", "postinst", "commit"},
         opkg' = [opkg EXCEPT !.at = at],
         disk' \in Version, abi' \in BOOLEAN,
         UNCHANGED <<scenario, running, holder, req, offer, files, feeds, db, left>>
  PROVE  IInv'
<1>1. opkg \in Opkgs BY DEF IInv, Shape
<1>2. /\ opkg' \in Opkgs /\ opkg'.by = opkg.by /\ opkg'.ipk = opkg.ipk
      /\ opkg'.pkg = opkg.pkg /\ opkg'.to = opkg.to
  BY <1>1 DEF Opkgs
<1>3. Shape' BY <1>2 DEF IInv, Shape
<1>4. Owned' BY <1>2 DEF IInv, Owned, Ipk
<1>5. \A r \in Req : Held(r)' /\ Verified(r)'
  BY DEF IInv, Held, Verified, StepOf, Ipk
<1> QED BY <1>3, <1>4, <1>5 DEF IInv

\* opkg ends; the request that waits for it, if there is one, learns how.
LEMMA ScriptTypes == Script \subseteq {"prerm", "postinst"}
BY DEF Script

LEMMA Ends ==
  ASSUME IInv, opkg # NoOpkg, NEW what \in {"exit 0", "exit 1"},
         NEW scripts \in SUBSET {"prerm", "postinst"}, Exit(what, scripts),
         db' \in [Package -> {None} \union Version], UNCHANGED scenario
  PROVE  IInv'
<1>1. UNCHANGED <<scenario, core, holder, offer, files, feeds>> /\ opkg' = NoOpkg
  BY DEF Exit
<1>2. opkg \in Opkgs BY DEF IInv, Shape
<1>3. Owned' BY <1>1 DEF Owned
<1>6. left' \subseteq Lefts
  <2>1. \A d \in {"rest"} \union scripts :
          opkg.by \in Req => [by |-> opkg.by, pkg |-> opkg.pkg, does |-> d] \in Lefts
    BY <1>2 DEF Opkgs, Lefts
  <2>2. left \subseteq Lefts
    BY DEF IInv, Shape
  <2>3. CASE left' = left
    BY <2>2, <2>3
  <2>4. ASSUME NEW d \in {"rest"} \union scripts, opkg.by \in Req,
               left' = left \union {[by |-> opkg.by, pkg |-> opkg.pkg, does |-> d]}
        PROVE  left' \subseteq Lefts
    BY <2>1, <2>2, <2>4
  <2> QED BY <2>3, <2>4 DEF Exit
<1>4. CASE opkg.by \notin Req
  <2>1. req' = req BY <1>4 DEF Exit
  <2>2. Shape' BY <1>1, <1>6, <2>1 DEF IInv, Shape, core
  <2>3. \A r \in Req : Held(r)' /\ Verified(r)'
    BY <1>1, <2>1 DEF IInv, Held, Verified, StepOf, Ipk
  <2> QED BY <1>3, <2>2, <2>3 DEF IInv
<1>5. CASE opkg.by \in Req
  <2> DEFINE r == opkg.by
             q == [req[r] EXCEPT !.at = what]
  <2>1. r \in Req /\ req[r].at = "run"
    BY <1>5, RequestAssumption DEF IInv, Owned
  <2> HIDE DEF r
  <2>2. req' = [req EXCEPT ![r].at = what] BY <1>5 DEF Exit, r
  <2>3. req[r] \in Busy BY <2>1 DEF IInv, Shape, Idle, Answered
  <2>4. /\ q \in Busy /\ q.at = what /\ q.item = req[r].item
        /\ q.action = req[r].action /\ q.target = req[r].target
        /\ q.step = req[r].step
    BY <2>3 DEF Busy, Waiting
  <2>5. req' = [req EXCEPT ![r] = q] BY <2>2
  <2> HIDE DEF q
  <2>6. /\ req' \in [Req -> Idle \union Busy] /\ req'[r] = q
        /\ \A o \in Req \ {r} : req'[o] = req[o]
    BY <2>1, <2>4, <2>5 DEF IInv, Shape
  <2>7. Shape' BY <1>1, <1>6, <2>6 DEF IInv, Shape, core
  <2>8. ASSUME NEW o \in Req PROVE Held(o)' /\ Verified(o)'
    <3>1. Held(o) /\ Verified(o) /\ Held(r) BY <2>1 DEF IInv
    <3>2. CASE o = r
      BY <1>1, <2>1, <2>4, <2>6, <3>1, <3>2 DEF Held, Verified, Waiting
    <3>3. CASE o # r
      BY <1>1, <2>6, <3>1, <3>3 DEF Held, Verified, StepOf, Ipk
    <3> QED BY <3>2, <3>3
  <2> QED BY <1>3, <2>7, <2>8 DEF IInv
<1> QED BY <1>4, <1>5

LEMMA OpkgStep ==
  ASSUME IInv, opkg # NoOpkg, Opkg, UNCHANGED scenario
  PROVE  IInv'
<1>1. opkg \in Opkgs BY DEF IInv, Shape
<1>0. left \subseteq Lefts BY DEF IInv, Shape
<1>2. ASSUME NEW at \in {"unpack", "postinst", "commit"}
      PROVE  LET o == [opkg EXCEPT !.at = at, !.by = Nobody]
             IN  o \in Opkgs /\ o.by = Nobody
  BY <1>1 DEF Opkgs
<1>3. CASE Prerm
  <2>1. UNCHANGED <<disk, offer, files, feeds, db>> BY <1>3 DEF Prerm
  <2>2. CASE /\ abi' = FALSE /\ running' = None /\ CutOff(left)
             /\ opkg' = [opkg EXCEPT !.at = "unpack", !.by = Nobody]
    BY <1>0, <1>2, <2>1, <2>2, Dies DEF IInv, Shape
  <2>3. CASE /\ running' = disk /\ CutOff(left) /\ UNCHANGED abi
             /\ opkg' = [opkg EXCEPT !.at = "unpack", !.by = Nobody]
    BY <1>0, <1>2, <2>1, <2>3, Dies DEF IInv, Shape
  <2>4. CASE /\ opkg' = [opkg EXCEPT !.at = "unpack"]
             /\ UNCHANGED <<running, abi, req, holder, left>>
    BY <2>1, <2>4, GoesOn DEF IInv, Shape
  <2> QED BY <1>3, <2>2, <2>3, <2>4 DEF Prerm
<1>4. CASE Unpack
  <2>1. disk' \in Version /\ abi' \in BOOLEAN
    BY <1>1, <1>4 DEF Unpack, IInv, Shape, Opkgs
  <2> QED BY <1>4, <2>1, GoesOn DEF Unpack
<1>5. CASE Postinst
  <2>1. UNCHANGED <<disk, offer, files, feeds, db>> /\ abi' \in BOOLEAN
    BY <1>5 DEF Postinst, IInv, Shape
  <2>2. CASE /\ running' = disk /\ CutOff(left)
             /\ opkg' = [opkg EXCEPT !.at = "commit", !.by = Nobody]
    BY <1>0, <1>2, <2>1, <2>2, Dies DEF IInv, Shape
  <2>3. CASE /\ opkg' = [opkg EXCEPT !.at = "commit"]
             /\ UNCHANGED <<running, abi, req, holder, left>>
    BY <2>1, <2>3, GoesOn DEF IInv, Shape
  <2> QED BY <1>5, <2>2, <2>3 DEF Postinst
<1>6. Breaks => db' \in [Package -> {None} \union Version]
  BY DEF Breaks, IInv, Shape
<1>7. CASE Commit
  <2>1. db' \in [Package -> {None} \union Version]
    BY <1>1, <1>7 DEF Commit, IInv, Shape, Opkgs
  <2> QED BY <1>7, <2>1, Ends DEF Commit
<1>8. CASE NothingToDo BY <1>8, Ends DEF NothingToDo, IInv, Shape
<1>9. CASE OpkgFails BY <1>6, <1>9, Ends DEF OpkgFails
<1> QED BY <1>3, <1>4, <1>5, <1>7, <1>8, <1>9 DEF Opkg

LEMMA KillStep ==
  ASSUME IInv, NEW r \in Req, Kill(r), UNCHANGED scenario
  PROVE  IInv'
<1>1. db' \in [Package -> {None} \union Version]
  BY DEF Kill, Breaks, IInv, Shape
<1> QED BY <1>1, ScriptTypes, Ends DEF Kill

LEMMA ByHandStep ==
  ASSUME IInv, NEW p \in Package, NEW verb \in {"install", "remove"},
         RunByHand(p, verb), UNCHANGED scenario
  PROVE  IInv'
<1>1. opkg' \in Opkgs /\ opkg'.by = Nobody
  BY PackageAssumption DEF RunByHand, Opkgs, Version
<1>2. UNCHANGED <<scenario, core, holder, req, offer, files, feeds, db, left>>
  BY DEF RunByHand
<1>3. Shape' BY <1>1, <1>2 DEF IInv, Shape, core
<1>4. Owned' BY <1>1 DEF Owned
<1>5. \A r \in Req : Held(r)' /\ Verified(r)'
  BY <1>2 DEF IInv, Held, Verified, StepOf, Ipk
<1> QED BY <1>3, <1>4, <1>5 DEF IInv

LEMMA ReleaseStep ==
  ASSUME IInv, NEW i \in Release, NewRelease(i), UNCHANGED scenario
  PROVE  IInv'
<1>1. UNCHANGED <<scenario, core, holder, req, files, feeds, db, opkg, left>>
  BY DEF NewRelease
<1>2. offer' \in [Release -> Version]
  BY PackageAssumption DEF NewRelease, IInv, Shape, Version
<1>3. Shape' BY <1>1, <1>2 DEF IInv, Shape, core
<1>4. Owned' BY <1>1 DEF IInv, Owned, Ipk
<1>5. \A r \in Req : Held(r)' /\ Verified(r)'
  BY <1>1 DEF IInv, Held, Verified, StepOf, Ipk
<1> QED BY <1>3, <1>4, <1>5 DEF IInv

LEMMA RebootStep ==
  ASSUME IInv, Reboot, UNCHANGED scenario
  PROVE  IInv'
<1>1. db' \in [Package -> {None} \union Version]
  BY DEF Reboot, Breaks, IInv, Shape
<1>2. {} \subseteq Lefts OBVIOUS
<1> QED BY <1>1, <1>2, Dies DEF Reboot, IInv, Shape

\* What is left ends, or a script of a killed opkg restarts or stops Core.
LEMMA ScriptStep ==
  ASSUME IInv, NEW c \in left, ScriptEnds(c), UNCHANGED scenario
  PROVE  IInv'
<1>1. UNCHANGED <<scenario, disk, offer, files, feeds, db>> /\ left \ {c} \subseteq Lefts
  BY DEF ScriptEnds, IInv, Shape
<1>2. CASE left' = left \ {c} /\ UNCHANGED <<running, abi, req, holder, opkg>>
  <2>1. Shape' BY <1>1, <1>2 DEF IInv, Shape
  <2>2. Owned' BY <1>1, <1>2 DEF IInv, Owned, Ipk
  <2>3. \A r \in Req : Held(r)' /\ Verified(r)'
    BY <1>1, <1>2 DEF IInv, Held, Verified, StepOf, Ipk
  <2> QED BY <2>1, <2>2, <2>3 DEF IInv
<1>3. CASE /\ CutOff(left \ {c})
           /\ running' \in {None, disk} /\ abi' \in BOOLEAN
           /\ opkg' = IF opkg = NoOpkg THEN opkg ELSE [opkg EXCEPT !.by = Nobody]
  <2>1. opkg' = NoOpkg \/ (opkg' \in Opkgs /\ opkg'.by = Nobody)
    BY <1>3 DEF IInv, Shape, Opkgs
  <2>2. running' \in {None} \union Version /\ disk' \in Version
    BY <1>1, <1>3 DEF IInv, Shape
  <2>3. db' \in [Package -> {None} \union Version]
    BY <1>1 DEF IInv, Shape
  <2> QED BY <1>1, <1>3, <2>1, <2>2, <2>3, Dies
<1>4. abi' \in BOOLEAN BY DEF ScriptEnds, IInv, Shape
<1> QED BY <1>2, <1>3, <1>4 DEF ScriptEnds

LEMMA NextInvariant == IInv /\ [Next]_vars => IInv'
<1> SUFFICES ASSUME IInv, [Next]_vars PROVE IInv'
  OBVIOUS
<1>1. CASE UNCHANGED vars
  BY <1>1 DEF vars, core, IInv, Shape, Owned, Held, Verified, StepOf, Ipk
<1>2. CASE Next
  <2>1. UNCHANGED scenario BY <1>2 DEF Next
  <2>2. /\ scenario.items \subseteq Item /\ scenario.news \subseteq Release
        /\ scenario.hand \subseteq Package
    BY PackageAssumption DEF IInv, Shape
  <2>3. ASSUME NEW r \in Req, NEW i \in scenario.items, NEW a \in Action,
               Post(r, i, a)
        PROVE  IInv'
    BY <2>1, <2>2, <2>3, PostStep
  <2>4. ASSUME NEW r \in Req, Expire(r) PROVE IInv'
    BY <2>1, <2>4, ExpireStep
  <2>5. ASSUME NEW r \in Req, Progress(r) PROVE IInv'
    BY <2>1, <2>5, EnterStep, StartStep, WorkStep, KillStep DEF Progress
  <2>6. CASE opkg # NoOpkg /\ Opkg BY <2>1, <2>6, OpkgStep
  <2>7. ASSUME NEW p \in scenario.hand, NEW verb \in {"install", "remove"},
               RunByHand(p, verb)
        PROVE  IInv'
    BY <2>1, <2>2, <2>7, ByHandStep
  <2>8. ASSUME NEW i \in scenario.news, NewRelease(i) PROVE IInv'
    BY <2>1, <2>2, <2>8, ReleaseStep
  <2>9. CASE Reboot BY <2>1, <2>9, RebootStep
  <2>10. ASSUME NEW c \in left, ScriptEnds(c) PROVE IInv'
    BY <2>1, <2>10, ScriptStep
  <2> QED BY <1>2, <2>3, <2>4, <2>5, <2>6, <2>7, <2>8, <2>9, <2>10 DEF Next
<1> QED BY <1>1, <1>2

LEMMA Invariance == Spec => []IInv
<1> QED BY InitInvariant, NextInvariant, PTL DEF Spec

-----------------------------------------------------------------------------
\* The state has its shapes, and only the request that holds
\* marketplaceInstallMu is past its check, at a step its plan has.
THEOREM TypeCorrect == Spec => []TypeOK
<1>1. IInv => TypeOK
  <2> SUFFICES ASSUME IInv PROVE TypeOK
    OBVIOUS
  <2>1. \A r \in Req :
          /\ req[r] \in Idle \union Busy
          /\ req[r].at \in Waiting =>
               holder = r /\ req[r].step \in DOMAIN Plan[req[r].item][req[r].action]
    BY DEF IInv, Shape, Held
  <2> QED BY <2>1 DEF IInv, Shape, TypeOK, Idle, Busy, Opkgs, Lefts, Files
<1> QED BY <1>1, Invariance, PTL

\* opkg reads, for a request that waits for it, the file that request has
\* downloaded and whose checksum it has verified (downloadVerifiedAsset).
THEOREM OpkgReadsVerified == Spec => []InstallsVerified
<1>1. IInv => InstallsVerified
  BY DEF IInv, Owned, InstallsVerified, Readable, Ipk
<1> QED BY <1>1, Invariance, PTL

-----------------------------------------------------------------------------
(* An update of Core.                                                      *)

CoreWaits(r) == req[r].at \in Waiting /\ req[r].item = Core

\* The release Core is updated to is not the one that runs.
Outdated == \A r \in Req : CoreWaits(r) => req[r].target # running

\* What a step of a request leaves of the others, and of its own.
Kept(r) ==
  /\ \A o \in Req \ {r} : req'[o] = req[o]
  /\ req[r].at \in Waiting
  /\ req'[r].at \in Answered \/
       (req'[r].item = req[r].item /\ req'[r].target = req[r].target)

\* Core can only be updated.
LEMMA CoreUpdates ==
  ASSUME NEW a \in Action, Plan[Core][a] # <<>> \/ DOMAIN Plan[Core][a] # {}
  PROVE  a = "update" /\ Plan[Core]["update"] # <<>>
<1>1. a # "install" /\ a # "remove"
  BY PackageAssumption
<1>2. DOMAIN <<>> = {}
  OBVIOUS
<1> QED BY <1>1, <1>2 DEF Action

LEMMA AnswerKeeps ==
  ASSUME IInv, NEW r \in Req, req[r].at \in Waiting, NEW result \in Answered,
         Answer(r, result)
  PROVE  Kept(r) /\ req'[r].at = result
BY DEF Answer, Goes, Kept, IInv, Shape

LEMMA StageKeeps ==
  ASSUME IInv, NEW r \in Req, req[r].at \in Waiting, NEW at,
         Goes(r, [req[r] EXCEPT !.at = at])
  PROVE  Kept(r) /\ req'[r].at = at
<1>1. req[r] \in Busy
  BY Working
<1>2. req'[r] = [req[r] EXCEPT !.at = at] /\ \A o \in Req \ {r} : req'[o] = req[o]
  BY DEF Goes, IInv, Shape
<1> QED BY <1>1, <1>2 DEF Kept, Busy

LEMMA AdvanceKeeps ==
  ASSUME IInv, NEW r \in Req, req[r].at \in Waiting, Advance(r)
  PROVE  Kept(r) /\ req'[r].at # "ok"
<1>1. CASE Goes(r, [req[r] EXCEPT !.at = "check"])
  BY <1>1, StageKeeps
<1>2. CASE Goes(r, [req[r] EXCEPT !.at = "plan", !.step = @ + 1])
  <2>1. req[r] \in Busy
    BY Working
  <2>2. /\ req'[r] = [req[r] EXCEPT !.at = "plan", !.step = @ + 1]
        /\ \A o \in Req \ {r} : req'[o] = req[o]
    BY <1>2 DEF Goes, IInv, Shape
  <2> QED BY <2>1, <2>2 DEF Kept, Busy
<1> QED BY <1>1, <1>2 DEF Advance

LEMMA FailKeeps ==
  ASSUME IInv, NEW r \in Req, req[r].at \in Waiting, Fail(r)
  PROVE  Kept(r) /\ req'[r].at # "ok"
BY AnswerKeeps, AdvanceKeeps DEF Fail, Answered

LEMMA WorkKeeps ==
  ASSUME IInv, NEW r \in Req, Work(r)
  PROVE  Kept(r) /\ (req'[r].at = "ok" => Check(r) /\ Completed(req[r]))
<1>1. req[r].at \in Waiting
  BY DEF Work, Conflicts, Download, Downloaded, StartOpkg, WriteFeed,
         Ran, Check, Doing, Waiting
<1>2. CASE Conflicts(r)
  BY <1>1, <1>2, AnswerKeeps DEF Conflicts, Answered
<1>3. CASE Download(r)
  BY <1>1, <1>3, StageKeeps DEF Download
<1>4. CASE Downloaded(r)
  BY <1>1, <1>4, StageKeeps, FailKeeps DEF Downloaded
<1>5. CASE StartOpkg(r)
  BY <1>1, <1>5, StageKeeps, FailKeeps DEF StartOpkg
<1>7. CASE WriteFeed(r)
  BY <1>1, <1>7, AdvanceKeeps, FailKeeps DEF WriteFeed
<1>8. CASE Ran(r)
  BY <1>1, <1>8, AdvanceKeeps, FailKeeps DEF Ran
<1>9. CASE Check(r)
  <2>1. CASE Completed(req[r])
    BY <1>1, <1>9, <2>1, AnswerKeeps DEF Check, Answered
  <2>2. CASE ~Completed(req[r])
    BY <1>1, <1>9, <2>2, AnswerKeeps DEF Check, Answered
  <2> QED BY <2>1, <2>2
<1> QED BY <1>2, <1>3, <1>4, <1>5, <1>7, <1>8, <1>9 DEF Work

\* A request that enters is refused, or has the release that is offered now.
LEMMA EnterKeeps ==
  ASSUME IInv, NEW r \in Req, Enter(r)
  PROVE  /\ \A o \in Req \ {r} : req'[o] = req[o]
         /\ req[r].at = "queued"
         /\ \/ req'[r].at = "failed"
            \/ /\ req'[r].at = "plan" /\ req'[r].item = req[r].item
               /\ req[r].item = Core =>
                    /\ req'[r].target = offer[Core]
                    /\ running # None /\ running # offer[Core]
<1>1. req[r].at = "queued" /\ req[r] \in Busy
  BY DEF Enter, IInv, Shape, Idle, Answered
<1>2. CASE Answer(r, "failed")
  BY <1>1, <1>2 DEF Answer, Goes, IInv, Shape
<1>3. CASE /\ Allowed(req[r].item, req[r].action)
           /\ Goes(r, [req[r] EXCEPT !.at = "plan",
                        !.target = IF req[r].item \in Release
                                   THEN offer[req[r].item] ELSE None])
  <2> DEFINE t == IF req[r].item \in Release THEN offer[req[r].item] ELSE None
  <2>1. /\ req'[r] = [req[r] EXCEPT !.at = "plan", !.target = t]
        /\ \A o \in Req \ {r} : req'[o] = req[o]
    BY <1>3 DEF Goes, IInv, Shape
  <2>2. req'[r].at = "plan" /\ req'[r].item = req[r].item /\ req'[r].target = t
    BY <1>1, <2>1 DEF Busy
  <2>3. ASSUME req[r].item = Core
        PROVE  t = offer[Core] /\ running # None /\ running # offer[Core]
    <3>1. Core \in Release /\ req[r].action \in Action
      BY <1>1, PackageAssumption DEF Busy
    <3>2. req[r].action = "update"
      BY <1>3, <2>3, <3>1, CoreUpdates DEF Allowed
    <3> QED BY <1>3, <2>3, <3>1, <3>2 DEF Allowed, Installed, UpdateAvailable, VersionShown
  <2> HIDE DEF t
  <2> QED BY <1>1, <2>1, <2>2, <2>3
<1> QED BY <1>1, <1>2, <1>3 DEF Enter

\* The request an opkg ends for learns how, and nobody else anything.
LEMMA ExitKeeps ==
  ASSUME IInv, opkg # NoOpkg, NEW what \in {"exit 0", "exit 1"}, NEW scripts,
         Exit(what, scripts)
  PROVE  \A o \in Req : \/ req'[o] = req[o]
                        \/ Kept(o) /\ req'[o].at = what
<1>1. CASE opkg.by \notin Req
  BY <1>1 DEF Exit
<1>2. CASE opkg.by \in Req
  <2> DEFINE r == opkg.by
  <2>1. r \in Req /\ req[r].at \in Waiting
    BY <1>2, RequestAssumption DEF IInv, Owned, Waiting
  <2>2. Goes(r, [req[r] EXCEPT !.at = what])
    BY <1>2 DEF Exit, Goes
  <2> HIDE DEF r
  <2>3. Kept(r) /\ req'[r].at = what
    BY <2>1, <2>2, StageKeeps
  <2> QED BY <2>3 DEF Kept
<1> QED BY <1>1, <1>2

\* What any step does to a request: one that is past its check and of Core
\* was so before, or has just been let in, and the process still runs; one
\* that succeeds has passed the final check; there are new ones only if Core
\* runs.
Follows(o) ==
  /\ req'[o].at \in Waiting /\ req'[o].item = Core =>
       /\ running' = running
       /\ \/ CoreWaits(o) /\ req'[o].target = req[o].target
          \/ req'[o].target = offer[Core] /\ running \notin {None, offer[Core]}
  /\ req'[o].at = "ok" => req[o].at = "ok" \/ (Check(o) /\ Completed(req[o]))
  /\ req[o].at \in Answered => req'[o].at \in Answered \/ running # None

LEMMA StaysFollows ==
  ASSUME NEW o \in Req, req'[o] = req[o], running' = running
  PROVE  Follows(o)
BY DEF Follows, CoreWaits

LEMMA KeptFollows ==
  ASSUME NEW o \in Req, Kept(o), running' = running,
         req'[o].at = "ok" => Check(o) /\ Completed(req[o])
  PROVE  Follows(o)
BY DEF Follows, Kept, CoreWaits, Waiting, Answered

LEMMA CutFollows ==
  ASSUME NEW o \in Req, NEW scripts, CutOff(scripts)
  PROVE  Follows(o)
<1>1. req'[o].at = "idle"
  BY DEF CutOff, NoReq
<1> QED BY <1>1 DEF Follows, Waiting, Answered

LEMMA OpkgFollows ==
  ASSUME IInv, opkg # NoOpkg, Opkg, NEW o \in Req
  PROVE  Follows(o)
<1>1. CASE CutOff(left)
  BY <1>1, CutFollows
<1>2. CASE UNCHANGED <<running, req>>
  BY <1>2, StaysFollows
<1>3. CASE \E what \in {"exit 0", "exit 1"} : Exit(what, {})
  <2>1. running' = running
    BY <1>3 DEF Exit, core
  <2>2. req'[o] = req[o] \/ (Kept(o) /\ req'[o].at \in {"exit 0", "exit 1"})
    BY <1>3, ExitKeeps
  <2> QED BY <2>1, <2>2, StaysFollows, KeptFollows
<1>4. \/ CutOff(left) \/ UNCHANGED <<running, req>>
      \/ \E what \in {"exit 0", "exit 1"} : Exit(what, {})
  BY DEF Opkg, Prerm, Unpack, Postinst, Commit, NothingToDo, OpkgFails
<1> QED BY <1>1, <1>2, <1>3, <1>4

LEMMA PostFollows ==
  ASSUME IInv, NEW r \in Req, NEW i, NEW a, Post(r, i, a), NEW o \in Req
  PROVE  Follows(o)
<1>1. running' = running /\ running # None
  BY DEF Post, core
<1>2. o = r => req'[o].at = "queued"
  BY DEF Post, Goes, IInv, Shape
<1>3. o # r => req'[o] = req[o]
  BY DEF Post, Goes, IInv, Shape
<1>4. CASE o = r
  BY <1>1, <1>2, <1>4 DEF Follows, Waiting
<1> QED BY <1>1, <1>3, <1>4, StaysFollows

LEMMA ExpireFollows ==
  ASSUME IInv, NEW r \in Req, Expire(r), NEW o \in Req
  PROVE  Follows(o)
<1>1. running' = running /\ req[r] \in Busy
  BY DEF Expire, core, IInv, Shape, Idle
<1>2. /\ req'[r] = [req[r] EXCEPT !.live = FALSE]
      /\ o # r => req'[o] = req[o]
  BY DEF Expire, Goes, IInv, Shape
<1>3. /\ req'[r].at = req[r].at /\ req'[r].item = req[r].item
      /\ req'[r].target = req[r].target
  BY <1>1, <1>2 DEF Busy
<1>4. CASE o = r
  BY <1>1, <1>3, <1>4 DEF Follows, CoreWaits
<1> QED BY <1>1, <1>2, <1>4, StaysFollows

LEMMA ProgressFollows ==
  ASSUME IInv, NEW r \in Req, Progress(r), NEW o \in Req
  PROVE  Follows(o)
<1>1. CASE Enter(r)
  <2>1. running' = running
    BY <1>1 DEF Enter, core
  <2>2. CASE o = r
    BY <1>1, <2>1, <2>2, EnterKeeps DEF Follows, Waiting, Answered
  <2>3. CASE o # r
    BY <1>1, <2>1, <2>3, EnterKeeps, StaysFollows
  <2> QED BY <2>2, <2>3
<1>2. CASE Work(r)
  <2>1. running' = running
    BY <1>2 DEF Work, Conflicts, Download, Downloaded, StartOpkg, WriteFeed,
                Ran, Check, core
  <2>2. CASE o = r
    BY <1>2, <2>1, <2>2, WorkKeeps, KeptFollows
  <2>3. CASE o # r
    BY <1>2, <2>1, <2>3, WorkKeeps, StaysFollows DEF Kept
  <2> QED BY <2>2, <2>3
<1>3. CASE Kill(r)
  <2>1. running' = running /\ opkg # NoOpkg /\ Exit("exit 1", Script)
    BY <1>3 DEF Kill, Exit, core
  <2>2. req'[o] = req[o] \/ (Kept(o) /\ req'[o].at = "exit 1")
    BY <2>1, ExitKeeps
  <2> QED BY <2>1, <2>2, StaysFollows, KeptFollows
<1> QED BY <1>1, <1>2, <1>3 DEF Progress

LEMMA NextFollows ==
  ASSUME IInv, [Next]_vars, NEW o \in Req
  PROVE  Follows(o)
<1>1. CASE UNCHANGED vars
  BY <1>1, StaysFollows DEF vars, core
<1>2. ASSUME NEW r \in Req, NEW i \in scenario.items, NEW a \in Action, Post(r, i, a)
      PROVE  Follows(o)
  BY <1>2, PostFollows
<1>3. ASSUME NEW r \in Req, Expire(r) \/ Progress(r) PROVE Follows(o)
  BY <1>3, ExpireFollows, ProgressFollows
<1>4. CASE opkg # NoOpkg /\ Opkg
  BY <1>4, OpkgFollows
<1>5. ASSUME NEW p, NEW verb, RunByHand(p, verb) PROVE Follows(o)
  BY <1>5, StaysFollows DEF RunByHand, core
<1>6. ASSUME NEW i, NewRelease(i) PROVE Follows(o)
  BY <1>6, StaysFollows DEF NewRelease, core
<1>7. CASE Reboot
  BY <1>7, CutFollows DEF Reboot
<1>8. ASSUME NEW c \in left, ScriptEnds(c) PROVE Follows(o)
  BY <1>8, CutFollows, StaysFollows DEF ScriptEnds
<1> QED BY <1>1, <1>2, <1>3, <1>4, <1>5, <1>6, <1>7, <1>8 DEF Next

LEMMA InitIdle == Init => \A r \in Req : req[r].at = "idle"
<1>1. NoReq.at = "idle"
  BY DEF NoReq
<1> QED BY <1>1 DEF Init

LEMMA OutdatedStep == IInv /\ Outdated /\ [Next]_vars => Outdated'
<1> SUFFICES ASSUME IInv, Outdated, [Next]_vars, NEW o \in Req, CoreWaits(o)'
             PROVE  req'[o].target # running'
  BY DEF Outdated
<1>1. Follows(o) /\ req'[o].at \in Waiting /\ req'[o].item = Core
  BY NextFollows DEF CoreWaits
<1> QED BY <1>1 DEF Follows, Outdated

\* An action that is reported successful has brought what was asked, whatever
\* the administrator, the index and opkg did meanwhile; an update of Core is
\* never reported by the process it replaces (verifyActionState).
THEOREM SuccessIsDone == Spec => OkIsDone
<1>1. Init => Outdated
  BY InitIdle DEF Outdated, CoreWaits, Waiting
<1>2. IInv /\ Outdated /\ [Next]_vars =>
        [\A r \in Req :
           req[r].at # "ok" /\ req'[r].at = "ok" =>
             LET q == req[r] IN
             /\ q.item # Core
             /\ (db[q.item] # None) = (q.action # "remove")
             /\ q.action = "update" /\ q.item \in Release => db[q.item] = q.target]_vars
  <2> SUFFICES ASSUME IInv, Outdated, [Next]_vars,
                      NEW r \in Req, req[r].at # "ok", req'[r].at = "ok"
               PROVE  LET q == req[r] IN
                      /\ q.item # Core
                      /\ (db[q.item] # None) = (q.action # "remove")
                      /\ q.action = "update" /\ q.item \in Release => db[q.item] = q.target
    OBVIOUS
  <2>1. Check(r) /\ Completed(req[r])
    BY NextFollows DEF Follows
  <2>2. req[r].at \in Waiting
    BY <2>1 DEF Check, Waiting
  <2>3. req[r].item # Core
    <3> SUFFICES ASSUME req[r].item = Core PROVE FALSE
      OBVIOUS
    <3>1. /\ req[r].action \in Action
          /\ DOMAIN Plan[Core][req[r].action] # {}
      BY <2>2, Working
    <3>2. req[r].action = "update" /\ Core \in Release
      BY <3>1, CoreUpdates, PackageAssumption
    <3>3. req[r].target # running
      BY <2>2 DEF Outdated, CoreWaits
    <3> QED BY <2>1, <3>2, <3>3 DEF Completed, VersionShown
  <2> QED BY <2>1, <2>3 DEF Completed, Installed, VersionShown
<1> QED BY <1>1, <1>2, OutdatedStep, Invariance, PTL DEF Spec, OkIsDone

-----------------------------------------------------------------------------
(* Core, broken off between its scripts.                                   *)

\* No approved manifest has a step about Core.
OnlyCoresPlan ==
  \A i \in Item, a \in Action : \A k \in DOMAIN Plan[i][a] :
    Plan[i][a][k].pkg = Core => Plan[i][a][k].op = "ipk"

\* No administrator restarts Core by hand through a package's scripts.
NoRestartByHand ==
  \A s \in Scenarios : s.hand \intersect Restarters = {}

\* No process, and no request.
Silent == running = None /\ \A r \in Req : req[r].at \in Answered

\* A process that runs is of the version on the disk, but for one whose
\* package's entry opkg has lost while it was replaced.
UpToDate ==
  /\ disk <= offer[Core]
  /\ db[Core] # None \/ ~abi => running \in {None, disk}

Broken == ~abi => disk < offer[Core] /\ Plan[Core]["update"] # <<>>

Committing == opkg # NoOpkg /\ opkg.pkg = Core /\ opkg.at = "commit"

\* An update of Core brings a newer version, unless the entry is lost.
Targets ==
  \A r \in Req : CoreWaits(r) =>
    /\ req[r].target <= offer[Core]
    /\ db[Core] # None \/ ~abi \/ Committing => disk < req[r].target

\* An opkg that is about Core updates it.
CoreOpkg ==
  opkg # NoOpkg /\ opkg.pkg = Core =>
    /\ opkg.ipk /\ opkg.verb = "reinstall" /\ opkg.to <= offer[Core]
    /\ Plan[Core]["update"] # <<>>
    /\ opkg.at = "begin" => opkg.by \in Req
    /\ opkg.at \in {"unpack", "postinst"} => Silent \/ db[Core] = None
    /\ opkg.at = "commit" => running = disk

Repair == UpToDate /\ Broken /\ Targets /\ CoreOpkg

\* What is left of a request's opkg keeps the request, and the mutex with it:
\* so while a script hangs only an administrator uses opkg, and a hanging prerm
\* of Core can only stop the version that the update is to replace.
Strays ==
  \A c \in left :
    /\ c.by \in Req => /\ req[c.by].at \in {"exit 0", "exit 1"}
                      /\ \A d \in left : d.by = c.by => d = c
    /\ c.does # "rest" =>
         /\ c.by \in Req
         /\ opkg # NoOpkg => opkg.pkg \in scenario.hand
         /\ c.does = "prerm" /\ c.pkg = Core =>
              disk < offer[Core] /\ Plan[Core]["update"] # <<>>

LEMMA Between ==
  \A x, y, z \in Nat : x < y /\ y <= z => x < z
OBVIOUS

LEMMA Versions ==
  ASSUME IInv
  PROVE  /\ running \in Nat /\ disk \in Nat \ {0} /\ abi \in BOOLEAN
         /\ offer[Core] \in Nat /\ offer[Core] > 0
         /\ db \in [Package -> Nat] /\ Core \in Package /\ Core \in Release /\ None = 0
         /\ \A r \in Req : CoreWaits(r) => req[r].target \in Nat
<1>1. Core \in Release /\ Core \in Package /\ MaxVersion \in Nat
  BY PackageAssumption
<1>2. \A r \in Req : CoreWaits(r) => req[r].target \in Nat
  BY <1>1, Working DEF CoreWaits, Version
<1> QED BY <1>1, <1>2 DEF IInv, Shape, Version, None

\* A step of the requests alone.
LEMMA QuietRepair ==
  ASSUME IInv, Repair, UNCHANGED <<core, offer, db>>,
         \A o \in Req : Follows(o),
         opkg' = opkg \/ opkg' = NoOpkg
           \/ (opkg' # NoOpkg /\ opkg'.pkg # Core)
  PROVE  Repair'
<1>1. UpToDate' /\ Broken'
  BY DEF Repair, UpToDate, Broken, core
<1>2. Committing' => Committing
  BY DEF Committing
<1>3. Targets'
  <2> SUFFICES ASSUME NEW o \in Req, CoreWaits(o)'
               PROVE  /\ req'[o].target <= offer[Core]
                      /\ db[Core] # None \/ ~abi \/ Committing => disk < req'[o].target
    BY <1>2 DEF Targets, core
  <2>1. CASE CoreWaits(o) /\ req'[o].target = req[o].target
    BY <2>1 DEF Repair, Targets
  <2>2. CASE req'[o].target = offer[Core] /\ running \notin {None, offer[Core]}
    <3>1. disk <= offer[Core] /\ disk \in Nat /\ offer[Core] \in Nat
      BY Versions DEF Repair, UpToDate
    <3>2. db[Core] # None \/ ~abi \/ Committing => running \in {None, disk}
      BY DEF Repair, UpToDate, CoreOpkg, Committing
    <3> QED BY <2>2, <3>1, <3>2
  <2> QED BY <2>1, <2>2 DEF Follows, CoreWaits
<1>4. CoreOpkg'
  <2>1. Silent => Silent'
    BY DEF Silent, Follows, core
  <2>2. CASE opkg' = opkg
    BY <2>1, <2>2 DEF Repair, CoreOpkg, core
  <2>3. CASE opkg' # opkg
    BY <2>3 DEF CoreOpkg
  <2> QED BY <2>2, <2>3
<1> QED BY <1>1, <1>3, <1>4 DEF Repair

LEMMA StartRepair ==
  ASSUME IInv, Repair, OnlyCoresPlan, NEW r \in Req, StartOpkg(r),
         \A o \in Req : Follows(o)
  PROVE  Repair'
<1>1. UNCHANGED <<core, offer, db>>
  BY DEF StartOpkg
<1>2. CASE opkg' = opkg
  BY <1>1, <1>2, QuietRepair
<1>3. CASE opkg' # opkg
  <2> DEFINE s == StepOf(req[r])
             q == req[r]
  <2>1. PICK v \in IF s.op = "ipk" THEN {q.target} ELSE Feed :
          opkg' = [at |-> "begin", pkg |-> s.pkg, by |-> r, to |-> v,
                   verb |-> IF s.op = "ipk" /\ q.action = "update" THEN "reinstall"
                            ELSE IF s.op = "ipk" THEN "install" ELSE s.op,
                   ipk |-> s.op = "ipk"]
    BY <1>3 DEF StartOpkg
  <2>2. q.at \in Waiting
    BY DEF StartOpkg, Doing, Waiting
  <2>3. /\ opkg'.at = "begin" /\ opkg'.pkg = s.pkg /\ opkg'.by = r /\ opkg'.to = v
        /\ opkg' # NoOpkg /\ opkg = NoOpkg
    <3>1. opkg'.pkg = s.pkg /\ opkg'.at = "begin" /\ opkg'.by = r /\ opkg'.to = v
      BY <2>1
    <3>2. opkg' # NoOpkg
      BY <3>1 DEF NoOpkg
    <3> QED BY <1>3, <3>1, <3>2 DEF StartOpkg
  <2>4. CASE s.pkg # Core
    BY <1>1, <2>3, <2>4, QuietRepair
  <2>5. CASE s.pkg = Core
    <3>1. /\ q.item \in Item /\ q.action \in Action
          /\ q.step \in DOMAIN Plan[q.item][q.action]
      BY <2>2, Working
    <3>2. s.op = "ipk" /\ q.item = Core
      <4>1. s.op = "ipk"
        BY <2>5, <3>1 DEF OnlyCoresPlan, StepOf
      <4> QED BY <2>2, <2>5, <4>1, Working
    <3>3. q.action = "update" /\ Plan[Core]["update"] # <<>>
      BY <3>1, <3>2, CoreUpdates
    <3>4. opkg'.ipk /\ opkg'.verb = "reinstall" /\ v = q.target
      BY <2>1, <3>2, <3>3
    <3>5. q.target <= offer[Core]
      BY <2>2, <3>2 DEF Repair, Targets, CoreWaits
    <3>6. CoreOpkg'
      BY <1>1, <2>3, <3>3, <3>4, <3>5 DEF CoreOpkg
    <3>7. UpToDate' /\ Broken'
      BY <1>1 DEF Repair, UpToDate, Broken, core
    <3>8. Targets'
      <4>1. ~Committing'
        BY <2>3 DEF Committing
      <4>2. ASSUME NEW o \in Req, CoreWaits(o)'
            PROVE  CoreWaits(o) /\ req'[o].target = req[o].target
        BY <4>2, WorkKeeps DEF Work, Kept, CoreWaits, Waiting, Answered
      <4> QED BY <1>1, <4>1, <4>2 DEF Repair, Targets, core
    <3> QED BY <3>6, <3>7, <3>8 DEF Repair
  <2> QED BY <2>4, <2>5
<1> QED BY <1>2, <1>3

\* The process dies with its requests, and one that starts is of the version
\* on the disk.
LEMMA DiesRepair ==
  ASSUME IInv, Repair, NEW scripts, CutOff(scripts), UNCHANGED <<disk, offer>>,
         running' = disk, abi' \in {abi, TRUE}, db'[Core] \in {db[Core], None},
         opkg' # NoOpkg /\ opkg'.pkg = Core =>
           /\ opkg # NoOpkg /\ opkg.pkg = Core /\ opkg'.at = "commit"
           /\ opkg'.ipk = opkg.ipk /\ opkg'.verb = opkg.verb /\ opkg'.to = opkg.to
  PROVE  Repair'
<1>1. \A o \in Req : req'[o].at = "idle"
  BY DEF CutOff, NoReq
<1>2. UpToDate' /\ Broken'
  BY DEF Repair, UpToDate, Broken
<1>3. Targets'
  BY <1>1 DEF Targets, CoreWaits, Waiting
<1>4. CoreOpkg'
  BY DEF Repair, CoreOpkg
<1> QED BY <1>2, <1>3, <1>4 DEF Repair

\* Core stops with its prerm; the binary is older than what the update brings.
LEMMA PrermRepair ==
  ASSUME IInv, Repair, opkg # NoOpkg, Prerm, \A o \in Req : Follows(o)
  PROVE  Repair'
<1>1. /\ UNCHANGED <<disk, offer, db>> /\ opkg.at = "begin" /\ opkg \in Opkgs
  BY DEF Prerm, BeforeUnpack, IInv, Shape
<1>2. CASE opkg.pkg = Core
  <2>1. /\ opkg.ipk /\ opkg.verb = "reinstall" /\ opkg.to <= offer[Core]
        /\ Plan[Core]["update"] # <<>> /\ opkg.by \in Req
    BY <1>1, <1>2 DEF Repair, CoreOpkg
  <2>2. /\ opkg'.at = "unpack" /\ opkg'.pkg = Core /\ opkg'.ipk = opkg.ipk
        /\ opkg'.verb = opkg.verb /\ opkg'.to = opkg.to
    BY <1>1, <1>2 DEF Prerm, Opkgs
  <2>3. CASE db[Core] # None
    <3>1. abi' = FALSE /\ running' = None /\ CutOff(left)
      BY <1>2, <2>3, PackageAssumption DEF Prerm
    <3>2. \A o \in Req : req'[o].at = "idle"
      BY <3>1 DEF CutOff, NoReq
    <3>3. disk < offer[Core]
      <4>1. CoreWaits(opkg.by) /\ req[opkg.by].target = opkg.to
        BY <1>2, <2>1, RequestAssumption DEF IInv, Owned, CoreWaits, Waiting
      <4>2. disk < opkg.to
        BY <2>1, <2>3, <4>1 DEF Repair, Targets
      <4>3. disk \in Nat /\ offer[Core] \in Nat /\ opkg.to \in Nat
        BY <2>1, <4>1, Versions
      <4> QED BY <2>1, <4>2, <4>3
    <3>4. UpToDate' /\ Broken'
      BY <1>1, <2>1, <3>1, <3>3 DEF Repair, UpToDate, Broken
    <3>5. Targets'
      BY <3>2 DEF Targets, CoreWaits, Waiting
    <3>6. Silent'
      BY <3>1, <3>2 DEF Silent, Answered
    <3>7. CoreOpkg'
      BY <1>1, <2>1, <2>2, <3>6 DEF CoreOpkg
    <3> QED BY <3>4, <3>5, <3>7 DEF Repair
  <2>4. CASE db[Core] = None
    <3>1. UNCHANGED <<running, abi, req>>
      BY <1>2, <2>4 DEF Prerm
    <3>2. UpToDate' /\ Broken'
      BY <1>1, <3>1 DEF Repair, UpToDate, Broken
    <3>3. Targets'
      BY <1>1, <2>2, <3>1 DEF Repair, Targets, CoreWaits, Committing
    <3>4. CoreOpkg'
      BY <1>1, <2>1, <2>2, <2>4 DEF CoreOpkg
    <3> QED BY <3>2, <3>3, <3>4 DEF Repair
  <2> QED BY <2>3, <2>4
<1>3. CASE opkg.pkg # Core
  <2>1. opkg' # NoOpkg => opkg'.pkg # Core
    BY <1>1, <1>3 DEF Prerm, Opkgs
  <2>2. CASE running' = disk /\ CutOff(left) /\ UNCHANGED abi
    BY <1>1, <2>1, <2>2, DiesRepair
  <2>3. CASE UNCHANGED <<running, abi, req>>
    <3>1. opkg' # NoOpkg
      BY <1>1 DEF Prerm, Opkgs, NoOpkg
    <3> QED BY <1>1, <2>1, <2>3, <3>1, QuietRepair DEF core
  <2> QED BY <1>3, <2>2, <2>3 DEF Prerm
<1> QED BY <1>2, <1>3

LEMMA UnpackRepair ==
  ASSUME IInv, Repair, opkg # NoOpkg, Unpack, \A o \in Req : Follows(o)
  PROVE  Repair'
<1>1. UNCHANGED <<running, req, offer, db>> /\ opkg.at = "unpack" /\ opkg \in Opkgs
  BY DEF Unpack, IInv, Shape
<1>2. /\ opkg'.at = "postinst" /\ opkg'.pkg = opkg.pkg /\ opkg'.ipk = opkg.ipk
      /\ opkg'.verb = opkg.verb /\ opkg'.to = opkg.to
  BY <1>1 DEF Unpack, Opkgs
<1>3. CASE opkg.pkg = Core
  <2>1. disk' = opkg.to /\ abi' = TRUE
    BY <1>3 DEF Unpack
  <2>2. /\ opkg.ipk /\ opkg.verb = "reinstall" /\ opkg.to <= offer[Core]
        /\ Plan[Core]["update"] # <<>> /\ (Silent \/ db[Core] = None)
    BY <1>1, <1>3 DEF Repair, CoreOpkg
  <2>3. UpToDate' /\ Broken'
    BY <1>1, <2>1, <2>2 DEF UpToDate, Broken, Silent
  <2>4. Targets'
    <3> SUFFICES ASSUME NEW o \in Req, CoreWaits(o)
                 PROVE  req[o].target <= offer[Core] /\ db[Core] = None
      BY <1>1, <1>2, <2>1 DEF Targets, CoreWaits, Committing
    <3>1. ~Silent
      BY DEF Silent, CoreWaits, Waiting, Answered
    <3> QED BY <2>2, <3>1 DEF Repair, Targets
  <2>5. CoreOpkg'
    BY <1>1, <1>2, <2>2 DEF CoreOpkg, Silent
  <2> QED BY <2>3, <2>4, <2>5 DEF Repair
<1>4. CASE opkg.pkg # Core
  <2>1. UNCHANGED <<disk, abi>> /\ opkg' # NoOpkg /\ opkg'.pkg # Core
    <3>1. opkg' # NoOpkg
      BY <1>1 DEF Unpack, Opkgs, NoOpkg
    <3> QED BY <1>2, <1>4, <3>1 DEF Unpack
  <2> QED BY <1>1, <2>1, QuietRepair DEF core
<1> QED BY <1>3, <1>4

LEMMA PostinstRepair ==
  ASSUME IInv, Repair, opkg # NoOpkg, Postinst, \A o \in Req : Follows(o)
  PROVE  Repair'
<1>1. UNCHANGED <<disk, offer, db>> /\ opkg.at = "postinst" /\ opkg \in Opkgs
  BY DEF Postinst, IInv, Shape
<1>2. /\ opkg'.at = "commit" /\ opkg'.pkg = opkg.pkg /\ opkg'.ipk = opkg.ipk
      /\ opkg'.verb = opkg.verb /\ opkg'.to = opkg.to
  BY <1>1 DEF Postinst, Opkgs
<1>3. CASE running' = disk /\ CutOff(left) /\ abi' = (abi \/ opkg.pkg = Core)
  <2>1. abi \in BOOLEAN
    BY Versions
  <2>2. abi' \in {abi, TRUE}
    BY <1>3, <2>1
  <2> QED BY <1>1, <1>2, <1>3, <2>2, DiesRepair
<1>4. CASE UNCHANGED <<running, abi, req, holder>> /\ opkg.pkg # Core
  <2>1. opkg' # NoOpkg
    BY <1>1 DEF Postinst, Opkgs, NoOpkg
  <2> QED BY <1>1, <1>2, <1>4, <2>1, QuietRepair DEF core
<1>5. opkg.pkg = Core => opkg.verb # "remove"
  BY DEF Repair, CoreOpkg
<1> QED BY <1>3, <1>4, <1>5 DEF Postinst

\* opkg ends; of Core it may have lost the entry or brought the new version.
LEMMA ExitRepair ==
  ASSUME IInv, Repair, opkg # NoOpkg, NEW what \in {"exit 0", "exit 1"},
         NEW scripts, Exit(what, scripts), db'[Core] \in {db[Core], None} \/ Committing, \A o \in Req : Follows(o)
  PROVE  Repair'
<1>1. UNCHANGED <<running, disk, abi, offer>> /\ opkg' = NoOpkg
  BY DEF Exit, core
<1>2. Committing => running = disk
  BY DEF Repair, CoreOpkg, Committing
<1>3. UpToDate' /\ Broken'
  BY <1>1, <1>2 DEF Repair, UpToDate, Broken
<1>4. Targets'
  <2> SUFFICES ASSUME NEW o \in Req, CoreWaits(o)'
               PROVE  /\ req'[o].target <= offer[Core]
                      /\ db'[Core] # None \/ ~abi => disk < req'[o].target
    BY <1>1 DEF Targets, Committing
  <2>1. CoreWaits(o) /\ req'[o].target = req[o].target
    BY ExitKeeps DEF Kept, CoreWaits, Waiting, Answered
  <2> QED BY <2>1 DEF Repair, Targets
<1>5. CoreOpkg'
  BY <1>1 DEF CoreOpkg
<1> QED BY <1>3, <1>4, <1>5 DEF Repair

LEMMA BreaksCore ==
  ASSUME IInv, Breaks PROVE db'[Core] \in {db[Core], None}
BY Versions DEF Breaks

LEMMA OpkgRepair ==
  ASSUME IInv, Repair, opkg # NoOpkg, Opkg, \A o \in Req : Follows(o)
  PROVE  Repair'
<1>1. CASE Commit
  <2>1. db'[Core] = db[Core] \/ Committing
    BY <1>1, Versions DEF Commit, Committing
  <2> QED BY <1>1, <2>1, ExitRepair DEF Commit
<1>2. CASE NothingToDo
  BY <1>2, ExitRepair DEF NothingToDo
<1>3. CASE OpkgFails
  BY <1>3, BreaksCore, ExitRepair DEF OpkgFails
<1> QED BY <1>1, <1>2, <1>3, PrermRepair, UnpackRepair, PostinstRepair DEF Opkg

LEMMA ReleaseRepair ==
  ASSUME IInv, Repair, NEW i \in Release, NewRelease(i)
  PROVE  Repair'
<1>1. UNCHANGED <<core, req, db, opkg>>
  BY DEF NewRelease
<1>2. offer'[Core] \in Nat /\ offer[Core] \in Nat /\ offer[Core] <= offer'[Core]
  BY Versions DEF NewRelease, IInv, Shape
<1>3. disk \in Nat /\ \A r \in Req : CoreWaits(r) => req[r].target \in Nat
  BY Versions
<1>4. UpToDate' /\ Broken'
  BY <1>1, <1>2, <1>3 DEF Repair, UpToDate, Broken, core
<1>5. Targets'
  BY <1>1, <1>2, <1>3 DEF Repair, Targets, CoreWaits, Committing, core
<1>6. CoreOpkg'
  <2>1. opkg # NoOpkg => opkg.to \in Nat
    BY DEF IInv, Shape, Opkgs, Version
  <2> QED BY <1>1, <1>2, <2>1 DEF Repair, CoreOpkg, Silent, core
<1> QED BY <1>4, <1>5, <1>6 DEF Repair

\* A script that comes to life again stops the version that is outdated
\* anyway, or starts the one on the disk.
LEMMA ScriptRepair ==
  ASSUME IInv, Repair, Strays, NEW c \in left, ScriptEnds(c),
         \A o \in Req : Follows(o)
  PROVE  Repair'
<1>1. UNCHANGED <<disk, offer, db>>
  BY DEF ScriptEnds
<1>2. CASE UNCHANGED <<running, abi, opkg>>
  BY <1>1, <1>2, QuietRepair DEF core
<1>3. CASE /\ c.does # "rest" /\ CutOff(left \ {c})
           /\ opkg' = IF opkg = NoOpkg THEN opkg ELSE [opkg EXCEPT !.by = Nobody]
  <2>1. opkg' # NoOpkg => opkg'.pkg # Core
    <3>1. opkg # NoOpkg => opkg.pkg # Core
      <4>1. Core \notin scenario.hand
        <5>1. scenario \in Scenarios BY DEF IInv, Shape
        <5> QED BY <5>1, PackageAssumption
      <4>2. opkg # NoOpkg => opkg.pkg \in scenario.hand
        BY <1>3 DEF Strays
      <4> QED BY <4>1, <4>2
    <3> QED BY <1>3, <3>1 DEF IInv, Shape, Opkgs
  <2>2. CASE c.pkg = Core /\ c.does = "prerm" /\ running' = None
    <3>1. \A o \in Req : req'[o].at = "idle"
      BY <1>3 DEF CutOff, NoReq
    <3>2. UpToDate' /\ Broken'
      BY <1>1, <1>3, <2>2 DEF Repair, UpToDate, Broken, Strays
    <3>3. Targets' /\ CoreOpkg'
      BY <2>1, <3>1 DEF Targets, CoreWaits, Waiting, CoreOpkg
    <3> QED BY <3>2, <3>3 DEF Repair
  <2>3. CASE abi' = (abi \/ c.pkg = Core) /\ running' = disk
    <3>1. abi \in BOOLEAN
      BY Versions
    <3>2. abi' \in {abi, TRUE}
      BY <2>3, <3>1
    <3> QED BY <1>1, <1>3, <2>1, <2>3, <3>2, DiesRepair
  <2>4. CASE UNCHANGED <<running, abi, req, holder, opkg>>
    BY <1>2, <2>4
  <2>5. CASE IF c.pkg = Core /\ c.does = "prerm"
             THEN abi' = FALSE /\ running' = None
             ELSE abi' = (abi \/ c.pkg = Core) /\ running' = disk
    BY <2>2, <2>3, <2>5
  <2> QED BY <2>4, <2>5 DEF ScriptEnds
<1> QED BY <1>2, <1>3 DEF ScriptEnds

\* A step that leaves what is left, its requests and opkg alone.
LEMMA QuietStrays ==
  ASSUME IInv, Strays, left' \subseteq left, UNCHANGED <<scenario, disk>>,
         offer' = offer \/ offer'[Core] >= offer[Core],
         \A c \in left' : c.by \in Req => req'[c.by].at = req[c.by].at,
         \/ opkg' \in {opkg, NoOpkg} \/ (opkg # NoOpkg /\ opkg'.pkg = opkg.pkg)
         \/ \A c \in left : c.does = "rest"
         \/ opkg'.pkg \in scenario.hand,
         offer'[Core] \in Nat
  PROVE  Strays'
<1>1. disk \in Nat /\ offer[Core] \in Nat
  BY Versions
<1>2. disk < offer[Core] => disk < offer'[Core]
  BY <1>1
<1> QED BY <1>2 DEF Strays

\* Only scripts are left when requests die, and none is left here.
LEMMA CutStrays ==
  ASSUME NEW scripts, CutOff(scripts), \A c \in scripts : c.does = "rest"
  PROVE  Strays'
BY DEF CutOff, Strays

\* While a script hangs nobody but an administrator uses opkg.
LEMMA StraysAlone ==
  ASSUME IInv, Strays, NEW c \in left, c.does # "rest"
  PROVE  /\ c.by \in Req /\ holder = c.by /\ req[c.by].at \in Waiting
         /\ \A d \in left : d.does # "rest" => d = c
<1>1. ASSUME NEW d \in left, d.does # "rest"
      PROVE  d.by \in Req /\ holder = d.by /\ req[d.by].at \in Waiting
  BY <1>1 DEF Strays, IInv, Held, Waiting
<1> QED BY <1>1 DEF Strays

LEMMA WorkStrays ==
  ASSUME IInv, Strays, NEW r \in Req, Work(r), UNCHANGED scenario
  PROVE  Strays'
<1>1. /\ UNCHANGED <<disk, offer, left>> /\ offer[Core] \in Nat
      /\ req[r].at \in Waiting /\ req[r].at # "run"
  BY Versions DEF Work, Conflicts, Download, Downloaded, StartOpkg, WriteFeed,
                  Ran, Check, Doing, Waiting, core
<1>2. \A o \in Req \ {r} : req'[o] = req[o]
  BY WorkKeeps DEF Kept
<1>3. \A c \in left : c.by # r
  <2>1. CASE Ran(r)
    BY <2>1 DEF Ran
  <2>2. CASE ~Ran(r)
    BY <2>2 DEF Strays, Work, Conflicts, Download, Downloaded, StartOpkg,
                WriteFeed, Check, Doing
  <2> QED BY <2>1, <2>2
<1>4. \A c \in left : c.does = "rest"
  BY <1>1, <1>3, StraysAlone, Working
<1> QED BY <1>1, <1>2, <1>3, <1>4, QuietStrays

\* Who waits for opkg has nothing left yet; a prerm of Core that outlives its
\* opkg is that of an older version than the one it was to make room for.
LEMMA ExitStrays ==
  ASSUME IInv, Repair, Strays, opkg # NoOpkg, NEW what \in {"exit 0", "exit 1"},
         NEW scripts, scripts = {} \/ scripts = Script, Exit(what, scripts),
         UNCHANGED scenario
  PROVE  Strays'
<1>1. UNCHANGED <<disk, offer>> /\ opkg' = NoOpkg /\ offer[Core] \in Nat
      /\ opkg \in Opkgs
  BY Versions DEF Exit, core, IInv, Shape
<1>2. CASE opkg.by \notin Req
  <2>1. UNCHANGED <<req, left>>
    BY <1>2 DEF Exit
  <2> QED BY <1>1, <2>1, QuietStrays
<1>3. CASE opkg.by \in Req
  <2> DEFINE b == opkg.by
  <2>1. req[b].at = "run" /\ b \in Req
    BY <1>3, RequestAssumption DEF IInv, Owned
  <2>2. \A c \in left : c.by # b
    BY <2>1 DEF Strays
  <2>3. req' = [req EXCEPT ![b].at = what]
    BY <1>3 DEF Exit
  <2>4. /\ req'[b].at = what /\ \A o \in Req \ {b} : req'[o] = req[o]
    <3>1. req[b] \in Busy BY <2>1, Working DEF Waiting
    <3> QED BY <2>1, <2>3, <3>1 DEF IInv, Shape, Busy
  <2>5. CASE left' = left
    BY <1>1, <2>2, <2>4, <2>5, QuietStrays
  <2>6. ASSUME NEW d \in {"rest"} \union scripts,
               left' = left \union {[by |-> b, pkg |-> opkg.pkg, does |-> d]}
        PROVE  Strays'
    <3> DEFINE n == [by |-> b, pkg |-> opkg.pkg, does |-> d]
    <3>1. n.by = b /\ n.pkg = opkg.pkg /\ n.does = d /\ left' = left \union {n}
      BY <2>6
    <3> HIDE DEF n
    <3>2. d = "prerm" /\ opkg.pkg = Core =>
            disk < offer[Core] /\ Plan[Core]["update"] # <<>>
      <4> SUFFICES ASSUME d = "prerm", opkg.pkg = Core
                   PROVE  disk < offer[Core] /\ Plan[Core]["update"] # <<>>
        OBVIOUS
      <4>1. opkg.at = "begin" /\ db[Core] # None
        BY <2>6 DEF Script, BeforeUnpack
      <4>2. /\ opkg.ipk /\ opkg.to <= offer[Core] /\ Plan[Core]["update"] # <<>>
        BY DEF Repair, CoreOpkg
      <4>3. CoreWaits(b) /\ req[b].target = opkg.to
        BY <2>1, <4>2, RequestAssumption DEF IInv, Owned, CoreWaits, Waiting
      <4>4. disk < opkg.to
        BY <2>1, <4>1, <4>3 DEF Repair, Targets
      <4>5. disk \in Nat /\ offer[Core] \in Nat /\ opkg.to \in Nat
        BY <2>1, <4>3, Versions
      <4>6. opkg.to <= offer[Core] /\ Plan[Core]["update"] # <<>>
        BY <4>2
      <4>7. disk < offer[Core]
        BY <4>4, <4>5, <4>6, Between
      <4> QED BY <4>6, <4>7
    <3>3. ASSUME NEW c \in left'
          PROVE  c.by \in Req => /\ req'[c.by].at \in {"exit 0", "exit 1"}
                                 /\ \A e \in left' : e.by = c.by => e = c
      <4>1. CASE c = n
        BY <2>2, <2>4, <3>1, <4>1
      <4>2. CASE c # n
        BY <2>2, <2>4, <3>1, <4>2 DEF Strays
      <4> QED BY <4>1, <4>2
    <3>4. ASSUME NEW c \in left', c.does # "rest"
          PROVE  /\ c.by \in Req
                 /\ c.does = "prerm" /\ c.pkg = Core =>
                      disk < offer[Core] /\ Plan[Core]["update"] # <<>>
      <4>1. CASE c = n
        BY <2>1, <3>1, <3>2, <4>1
      <4>2. CASE c # n
        BY <3>1, <3>4, <4>2 DEF Strays
      <4> QED BY <4>1, <4>2
    <3> QED BY <1>1, <3>3, <3>4 DEF Strays
  <2> QED BY <1>3, <2>5, <2>6 DEF Exit
<1> QED BY <1>2, <1>3

LEMMA OpkgStrays ==
  ASSUME IInv, Repair, Strays, NoRestartByHand, opkg # NoOpkg, Opkg,
         UNCHANGED scenario
  PROVE  Strays'
<1>1. opkg \in Opkgs /\ offer[Core] \in Nat
  BY Versions DEF IInv, Shape
<1>2. ASSUME opkg.pkg \in Restarters \union {Core}
      PROVE  \A c \in left : c.does = "rest"
  BY <1>2, PackageAssumption DEF Strays, NoRestartByHand, IInv, Shape
<1>3. CASE Prerm
  <2>1. UNCHANGED <<disk, offer>> BY <1>3 DEF Prerm
  <2>2. CASE CutOff(left) /\ opkg.pkg \in Restarters \union {Core}
    BY <1>2, <2>2, CutStrays
  <2>3. CASE UNCHANGED <<req, left>> /\ opkg' = [opkg EXCEPT !.at = "unpack"]
    <3>1. opkg'.pkg = opkg.pkg BY <1>1, <2>3 DEF Opkgs
    <3> QED BY <1>1, <2>1, <2>3, <3>1, QuietStrays
  <2> QED BY <1>3, <2>2, <2>3 DEF Prerm
<1>4. CASE Unpack
  <2>1. UNCHANGED <<offer, req, left>> /\ opkg'.pkg = opkg.pkg
    BY <1>1, <1>4 DEF Unpack, Opkgs
  <2>2. CASE opkg.pkg = Core
    <3>1. \A c \in left : c.does = "rest"
      BY <1>2, <2>2
    <3> QED BY <2>1, <3>1 DEF Strays
  <2>3. CASE opkg.pkg # Core
    <3>1. disk' = disk
      BY <1>4, <2>3 DEF Unpack
    <3> QED BY <1>1, <2>1, <3>1, QuietStrays
  <2> QED BY <2>2, <2>3
<1>5. CASE Postinst
  <2>1. UNCHANGED <<disk, offer>> BY <1>5 DEF Postinst
  <2>2. CASE CutOff(left) /\ opkg.pkg \in Restarters \union {Core}
    BY <1>2, <2>2, CutStrays
  <2>3. CASE UNCHANGED <<req, left>> /\ opkg' = [opkg EXCEPT !.at = "commit"]
    <3>1. opkg'.pkg = opkg.pkg BY <1>1, <2>3 DEF Opkgs
    <3> QED BY <1>1, <2>1, <2>3, <3>1, QuietStrays
  <2> QED BY <1>5, <2>2, <2>3 DEF Postinst
<1>6. CASE Commit BY <1>6, ExitStrays DEF Commit
<1>7. CASE NothingToDo BY <1>7, ExitStrays DEF NothingToDo
<1>8. CASE OpkgFails BY <1>8, ExitStrays DEF OpkgFails
<1> QED BY <1>3, <1>4, <1>5, <1>6, <1>7, <1>8 DEF Opkg

LEMMA NextStrays ==
  ASSUME NoRestartByHand
  PROVE  IInv /\ Repair /\ Strays /\ [Next]_vars => Strays'
<1> SUFFICES ASSUME IInv, Repair, Strays, [Next]_vars PROVE Strays'
  OBVIOUS
<1>1. offer[Core] \in Nat
  BY Versions
<1>2. CASE UNCHANGED vars
  BY <1>1, <1>2, QuietStrays DEF vars, core
<1>3. ASSUME Next PROVE UNCHANGED scenario
  BY <1>3 DEF Next
<1>4. ASSUME NEW r \in Req, UNCHANGED <<scenario, core, offer, left, opkg>>,
             \A o \in Req \ {r} : req'[o] = req[o],
             req'[r].at = req[r].at \/ req[r].at \in {"idle", "queued"}
      PROVE  Strays'
  <2>1. \A c \in left : c.by \in Req => req'[c.by].at = req[c.by].at
    BY <1>4 DEF Strays
  <2> QED BY <1>1, <1>4, <2>1, QuietStrays DEF core
<1>5. ASSUME Next, NEW r \in Req, NEW i \in scenario.items, NEW a \in Action,
             Post(r, i, a)
      PROVE  Strays'
  <2>1. req[r].at = "idle" /\ \A o \in Req \ {r} : req'[o] = req[o]
    BY <1>5 DEF Post, NoReq, Goes, IInv, Shape
  <2> QED BY <1>3, <1>4, <1>5, <2>1 DEF Post
<1>6. ASSUME Next, NEW r \in Req, Expire(r) PROVE Strays'
  <2>1. req[r] \in Busy /\ req'[r] = [req[r] EXCEPT !.live = FALSE]
        /\ \A o \in Req \ {r} : req'[o] = req[o]
    BY <1>6 DEF Expire, Goes, IInv, Shape, Idle
  <2>2. req'[r].at = req[r].at
    BY <2>1 DEF Busy
  <2> QED BY <1>3, <1>4, <1>6, <2>1, <2>2 DEF Expire
<1>7. ASSUME Next, NEW r \in Req, Progress(r) PROVE Strays'
  <2>1. CASE Enter(r)
    BY <1>3, <1>4, <1>7, <2>1, EnterKeeps DEF Enter
  <2>2. CASE Work(r)
    BY <1>3, <1>7, <2>2, WorkStrays
  <2>3. CASE Kill(r)
    BY <1>3, <1>7, <2>3, ExitStrays DEF Kill
  <2> QED BY <1>7, <2>1, <2>2, <2>3 DEF Progress
<1>8. ASSUME Next, opkg # NoOpkg, Opkg PROVE Strays'
  BY <1>3, <1>8, OpkgStrays
<1>9. ASSUME Next, NEW p \in scenario.hand, NEW verb, RunByHand(p, verb)
      PROVE  Strays'
  <2>1. opkg'.pkg = p /\ UNCHANGED <<core, offer, req, left>>
    BY <1>9 DEF RunByHand
  <2> QED BY <1>1, <1>3, <1>9, <2>1, QuietStrays DEF core
<1>10. ASSUME Next, NEW i \in scenario.news, NewRelease(i) PROVE Strays'
  <2>1. UNCHANGED <<core, req, opkg, left>> /\ i \in Release
    BY <1>10, PackageAssumption DEF NewRelease, IInv, Shape
  <2>2. offer'[Core] \in Nat /\ offer'[Core] >= offer[Core]
    BY <1>10, <2>1, Versions DEF NewRelease, IInv, Shape
  <2> QED BY <1>3, <1>10, <2>1, <2>2, QuietStrays DEF core
<1>11. CASE Reboot
  BY <1>11, CutStrays DEF Reboot
<1>12. ASSUME Next, NEW c \in left, ScriptEnds(c) PROVE Strays'
  <2>1. UNCHANGED <<disk, offer>>
    BY <1>12 DEF ScriptEnds
  <2>2. CASE left' = left \ {c} /\ UNCHANGED <<req, opkg>>
    BY <1>1, <1>3, <1>12, <2>1, <2>2, QuietStrays
  <2>3. CASE c.does # "rest" /\ CutOff(left \ {c})
    <3>1. \A d \in left \ {c} : d.does = "rest"
      BY <2>3, StraysAlone
    <3> QED BY <2>3, <3>1, CutStrays
  <2> QED BY <1>12, <2>2, <2>3 DEF ScriptEnds
<1> QED BY <1>2, <1>5, <1>6, <1>7, <1>8, <1>9, <1>10, <1>11, <1>12 DEF Next

LEMMA NextRepair ==
  ASSUME OnlyCoresPlan
  PROVE  IInv /\ Repair /\ Strays /\ [Next]_vars => Repair'
<1> SUFFICES ASSUME IInv, Repair, Strays, [Next]_vars PROVE Repair'
  OBVIOUS
<1>1. \A o \in Req : Follows(o)
  BY NextFollows
<1>2. CASE UNCHANGED vars
  BY <1>1, <1>2, QuietRepair DEF vars
<1>3. ASSUME NEW r \in Req, NEW i \in scenario.items, NEW a \in Action, Post(r, i, a)
      PROVE  Repair'
  BY <1>1, <1>3, QuietRepair DEF Post
<1>4. ASSUME NEW r \in Req, Expire(r) PROVE Repair'
  BY <1>1, <1>4, QuietRepair DEF Expire
<1>5. ASSUME NEW r \in Req, Progress(r) PROVE Repair'
  <2>1. CASE Enter(r)
    BY <1>1, <2>1, QuietRepair DEF Enter
  <2>2. CASE StartOpkg(r)
    BY <1>1, <2>2, StartRepair
  <2>3. CASE Work(r) /\ ~StartOpkg(r)
    BY <1>1, <2>3, QuietRepair DEF Work, Conflicts, Download, Downloaded,
                                   WriteFeed, Ran, Check
  <2>4. CASE Kill(r)
    BY <1>1, <2>4, BreaksCore, ExitRepair DEF Kill
  <2> QED BY <1>5, <2>1, <2>2, <2>3, <2>4 DEF Progress
<1>6. CASE opkg # NoOpkg /\ Opkg
  BY <1>1, <1>6, OpkgRepair
<1>7. ASSUME NEW p \in scenario.hand, NEW verb, RunByHand(p, verb) PROVE Repair'
  <2>1. p # Core
    BY PackageAssumption DEF IInv, Shape
  <2>2. opkg' # NoOpkg /\ opkg'.pkg = p
    <3>1. opkg'.pkg = p /\ opkg'.at = "begin"
      BY <1>7 DEF RunByHand
    <3> QED BY <3>1 DEF NoOpkg
  <2> QED BY <1>1, <1>7, <2>1, <2>2, QuietRepair DEF RunByHand
<1>8. ASSUME NEW i \in scenario.news, NewRelease(i) PROVE Repair'
  <2>1. i \in Release
    BY PackageAssumption DEF IInv, Shape
  <2> QED BY <1>8, <2>1, ReleaseRepair
<1>9. CASE Reboot
  <2>1. db'[Core] \in {db[Core], None}
    BY <1>9, BreaksCore DEF Reboot
  <2> QED BY <1>9, <2>1, DiesRepair DEF Reboot
<1>10. ASSUME NEW c \in left, ScriptEnds(c) PROVE Repair'
  BY <1>1, <1>10, ScriptRepair
<1> QED BY <1>2, <1>3, <1>4, <1>5, <1>6, <1>7, <1>8, <1>9, <1>10 DEF Next

LEMMA InitRepair == Init => Repair /\ Strays
<1> SUFFICES ASSUME Init PROVE Repair /\ Strays
  OBVIOUS
<1>1. /\ running = 1 /\ disk = 1 /\ abi = TRUE /\ opkg = NoOpkg
      /\ offer[Core] = MaxVersion - 1
  BY PackageAssumption DEF Init
<1>2. disk <= offer[Core]
  BY <1>1, PackageAssumption
<1>3. UpToDate /\ Broken /\ CoreOpkg
  BY <1>1, <1>2 DEF UpToDate, Broken, CoreOpkg
<1>4. Targets
  BY InitIdle DEF Targets, CoreWaits, Waiting
<1>5. Strays
  BY DEF Init, Strays
<1> QED BY <1>3, <1>4, <1>5 DEF Repair

\* However an update of Core breaks off, a Core that runs again without the
\* marker (S91routerforge-dns) is older than its release, so that the catalog
\* offers the update that repairs it; provided no manifest is about Core, and
\* no administrator restarts Core by hand.
THEOREM AlwaysRepairable ==
  ASSUME OnlyCoresPlan, NoRestartByHand
  PROVE  Spec => []DnsRepairable
<1>1. IInv /\ Repair => DnsRepairable
  <2> SUFFICES ASSUME IInv, Repair, running # None, ~abi
               PROVE  Allowed(Core, "update")
    BY DEF DnsRepairable
  <2>1. /\ running = disk /\ disk < offer[Core] /\ Plan[Core]["update"] # <<>>
    BY DEF Repair, UpToDate, Broken
  <2>2. running # offer[Core]
    BY <2>1, Versions
  <2> QED BY <2>1, <2>2 DEF Allowed, Installed, UpdateAvailable, VersionShown
<1>2. IInv /\ Repair /\ Strays /\ [Next]_vars => Repair' /\ Strays'
  BY NextRepair, NextStrays
<1> QED BY <1>1, <1>2, InitRepair, Invariance, PTL DEF Spec

-----------------------------------------------------------------------------
(* A plan that exchanges a package.                                        *)

\* The plan of r has brought p: an earlier step has, or the current one just
\* now.
Brought(r, p) ==
  /\ req[r].at \in Waiting
  /\ \/ Brings(req[r].item, req[r].action, req[r].step, p)
     \/ /\ req[r].at = "exit 0"
        /\ StepOf(req[r]).op = "install" /\ StepOf(req[r]).pkg = p

\* The package is there and nobody's opkg touches it.
There(p) == db[p] # None /\ (opkg # NoOpkg => opkg.pkg # p)

\* An opkg that somebody waits for does what the step of its request says.
Ordered ==
  opkg # NoOpkg /\ opkg.by # Nobody =>
    /\ opkg.pkg = StepOf(req[opkg.by]).pkg
    /\ StepOf(req[opkg.by]).op = "install" => opkg.verb = "install"

\* What a plan has brought stays while the plan goes on; and an opkg that
\* touches the old package, even one whose request has died, finds the new
\* one.
Exchanges ==
  /\ Ordered
  /\ \A w \in Swap :
       /\ \A r \in Req : Brought(r, w.new) => There(w.new)
       /\ opkg # NoOpkg /\ opkg.pkg = w.old => db[w.new] # None

\* What a step that is not opkg's leaves of a request.
Steady(o) ==
  /\ \A p \in Package : Brought(o, p)' => Brought(o, p)
  /\ req[o].at = "run" =>
       req'[o].at = "run" /\ StepOf(req'[o]) = StepOf(req[o])

LEMMA Swapped ==
  ASSUME NEW w \in Swap
  PROVE  /\ w.old \in Package /\ w.new \in Package /\ w.old # w.new
         /\ \A s \in Scenarios : w.old \notin s.hand /\ w.new \notin s.hand
         /\ \A i \in Item, a \in Action : \A k \in DOMAIN Plan[i][a] :
              Plan[i][a][k].pkg = w.old => Brings(i, a, k, w.new)
BY SwapAssumption

LEMMA SameSteady ==
  ASSUME NEW o \in Req,
         req'[o] = req[o] \/ (req'[o].at \in Answered /\ req[o].at # "run")
  PROVE  Steady(o)
<1>1. CASE req'[o] = req[o]
  BY <1>1 DEF Steady, Brought, StepOf
<1>2. CASE req'[o].at \in Answered /\ req[o].at # "run"
  BY <1>2 DEF Steady, Brought, Answered, Waiting
<1> QED BY <1>1, <1>2

LEMMA StageSteady ==
  ASSUME IInv, NEW r \in Req, req[r].at \in Waiting, req[r].at # "run",
         NEW at, at # "exit 0", Goes(r, [req[r] EXCEPT !.at = at]),
         NEW o \in Req
  PROVE  Steady(o)
<1>1. CASE o = r
  <2>1. req[r] \in Busy BY Working
  <2>2. req'[r] = [req[r] EXCEPT !.at = at] BY DEF Goes, IInv, Shape
  <2>3. /\ req'[r].at = at /\ req'[r].item = req[r].item
        /\ req'[r].action = req[r].action /\ req'[r].step = req[r].step
    BY <2>1, <2>2 DEF Busy
  <2> QED BY <1>1, <2>3 DEF Steady, Brought
<1>2. CASE o # r BY <1>2, SameSteady DEF Goes, IInv, Shape
<1> QED BY <1>1, <1>2

LEMMA AnswerSteady ==
  ASSUME IInv, NEW r \in Req, req[r].at # "run", NEW result \in Answered,
         Answer(r, result), NEW o \in Req
  PROVE  Steady(o)
BY SameSteady DEF Answer, Goes, IInv, Shape

\* The next step: what the last one brought, if it brought anything.
LEMMA BringsNext ==
  ASSUME NEW i \in Item, NEW a \in Action, NEW k \in DOMAIN Plan[i][a],
         NEW p \in Package, Brings(i, a, k + 1, p), k + 1 \in DOMAIN Plan[i][a]
  PROVE  \/ Brings(i, a, k, p)
         \/ Plan[i][a][k] = [op |-> "install", pkg |-> p, must |-> TRUE]
<1>1. k \in Nat \ {0} BY StepFacts
<1>2. PICK j \in 1..k :
        /\ Plan[i][a][j] = [op |-> "install", pkg |-> p, must |-> TRUE]
        /\ \A l \in (j + 1)..(k + 1) : Plan[i][a][l].pkg # p
  BY <1>1 DEF Brings
<1>3. CASE j = k BY <1>2, <1>3
<1>4. CASE j # k
  <2>1. j \in 1..(k - 1) /\ \A l \in (j + 1)..k : l \in (j + 1)..(k + 1)
    BY <1>1, <1>4
  <2> QED BY <1>2, <2>1 DEF Brings
<1> QED BY <1>3, <1>4

LEMMA AdvanceSteady ==
  ASSUME IInv, NEW r \in Req, req[r].at \in Waiting, req[r].at # "run",
         Advance(r),
         \/ req[r].at = "exit 0"
         \/ StepOf(req[r]).op # "install" \/ ~StepOf(req[r]).must,
         NEW o \in Req
  PROVE  Steady(o)
<1>1. CASE Goes(r, [req[r] EXCEPT !.at = "check"])
  BY <1>1, StageSteady
<1>2. CASE /\ MoreSteps(req[r])
           /\ Goes(r, [req[r] EXCEPT !.at = "plan", !.step = @ + 1])
  <2>1. CASE o # r BY <1>2, <2>1, SameSteady DEF Goes, IInv, Shape
  <2>2. CASE o = r
    <3> DEFINE i == req[r].item
               a == req[r].action
               k == req[r].step
    <3>1. /\ req[r] \in Busy /\ i \in Item /\ a \in Action
          /\ k \in DOMAIN Plan[i][a] /\ k < Len(Plan[i][a])
      BY <1>2, Working DEF MoreSteps
    <3>2. req'[r] = [req[r] EXCEPT !.at = "plan", !.step = @ + 1]
      BY <1>2 DEF Goes, IInv, Shape
    <3>3. /\ req'[r].at = "plan" /\ req'[r].item = i /\ req'[r].action = a
          /\ req'[r].step = k + 1
      BY <3>1, <3>2 DEF Busy
    <3>4. StepOf(req[r]) = Plan[i][a][k] BY DEF StepOf
    <3> HIDE DEF i, a, k
    <3>5. ASSUME NEW p \in Package, Brought(r, p)' PROVE Brought(r, p)
      <4>1. Brings(i, a, k + 1, p) BY <3>3, <3>5 DEF Brought
      <4>2. k + 1 \in DOMAIN Plan[i][a] BY <3>1, StepFacts
      <4>3. CASE Brings(i, a, k, p) BY <4>3 DEF Brought, i, a, k
      <4>4. CASE Plan[i][a][k] = [op |-> "install", pkg |-> p, must |-> TRUE]
        <5> DEFINE t == StepOf(req[r])
        <5>1. t = [op |-> "install", pkg |-> p, must |-> TRUE] BY <3>4, <4>4
        <5> HIDE DEF t
        <5>2. t.op = "install" /\ t.pkg = p /\ t.must BY <5>1
        <5> QED BY <5>2 DEF Brought, t
      <4> QED BY <3>1, <4>1, <4>2, <4>3, <4>4, BringsNext
    <3> QED BY <2>2, <3>5 DEF Steady
  <2> QED BY <2>1, <2>2
<1> QED BY <1>1, <1>2 DEF Advance

LEMMA FailSteady ==
  ASSUME IInv, NEW r \in Req, req[r].at \in Waiting, req[r].at # "run",
         Fail(r), NEW o \in Req
  PROVE  Steady(o)
BY AnswerSteady, AdvanceSteady DEF Fail, EndsPlan, Answered

LEMMA WorkSteady ==
  ASSUME IInv, NEW r \in Req, Work(r), opkg' = opkg, NEW o \in Req
  PROVE  Steady(o)
<1>1. req[r].at \in Waiting /\ req[r].at # "run"
  BY DEF Work, Conflicts, Download, Downloaded, StartOpkg, WriteFeed,
         Ran, Check, Doing, Waiting
<1>2. CASE Conflicts(r) BY <1>1, <1>2, AnswerSteady DEF Conflicts, Answered
<1>3. CASE Download(r) BY <1>1, <1>3, StageSteady DEF Download
<1>4. CASE Downloaded(r) BY <1>1, <1>4, StageSteady, FailSteady DEF Downloaded
<1>5. CASE StartOpkg(r)
  <2>1. Fail(r)
    <3>1. ASSUME opkg = NoOpkg, NEW s, opkg' = [at |-> "begin", pkg |-> s.pkg,
                 by |-> r, to |-> s.to, verb |-> s.verb, ipk |-> s.ipk]
          PROVE FALSE
      BY <3>1 DEF NoOpkg
    <3> QED BY <1>5 DEF StartOpkg, NoOpkg
  <2> QED BY <1>1, <2>1, FailSteady
<1>7. CASE WriteFeed(r)
  BY <1>1, <1>7, AdvanceSteady, FailSteady DEF WriteFeed, Doing
<1>8. CASE Ran(r) BY <1>1, <1>8, AdvanceSteady, FailSteady DEF Ran
<1>9. CASE Check(r)
  BY <1>1, <1>9, AnswerSteady DEF Check, Answered
<1> QED BY <1>2, <1>3, <1>4, <1>5, <1>7, <1>8, <1>9 DEF Work

LEMMA EnterSteady ==
  ASSUME IInv, NEW r \in Req, Enter(r), NEW o \in Req
  PROVE  Steady(o)
<1>1. req[r].at = "queued" /\ req[r] \in Busy /\ req[r].step = 1
  BY DEF Enter, IInv, Shape, Held, Idle, Answered
<1>2. CASE o # r \/ Answer(r, "failed")
  BY <1>1, <1>2, SameSteady DEF Enter, Answer, Goes, IInv, Shape, Answered
<1>3. CASE /\ o = r
           /\ Goes(r, [req[r] EXCEPT !.at = "plan",
                        !.target = IF req[r].item \in Release
                                   THEN offer[req[r].item] ELSE None])
  <2>1. req'[r].at = "plan" /\ req'[r].step = 1
    BY <1>1, <1>3 DEF Goes, IInv, Shape, Busy
  <2> QED BY <1>1, <1>3, <2>1 DEF Steady, Brought, Brings
<1> QED BY <1>2, <1>3 DEF Enter

LEMMA ExpireSteady ==
  ASSUME IInv, NEW r \in Req, Expire(r), NEW o \in Req
  PROVE  Steady(o)
<1>1. req[r] \in Busy BY DEF Expire, IInv, Shape, Idle
<1>2. CASE o = r
  <2>1. req'[r] = [req[r] EXCEPT !.live = FALSE]
    BY DEF Expire, Goes, IInv, Shape
  <2>2. /\ req'[r].at = req[r].at /\ req'[r].item = req[r].item
        /\ req'[r].action = req[r].action /\ req'[r].step = req[r].step
    BY <1>1, <2>1 DEF Busy
  <2> QED BY <1>2, <2>2 DEF Steady, Brought, StepOf
<1>3. CASE o # r BY <1>3, SameSteady DEF Expire, Goes, IInv, Shape
<1> QED BY <1>2, <1>3

LEMMA PostSteady ==
  ASSUME IInv, NEW r \in Req, NEW i, NEW a, Post(r, i, a), NEW o \in Req
  PROVE  Steady(o)
<1>1. CASE o = r
  <2>1. req'[r].at = "queued" /\ req[r].at = "idle"
    BY DEF Post, Goes, NoReq, IInv, Shape
  <2> QED BY <1>1, <2>1 DEF Steady, Brought, Waiting
<1>2. CASE o # r BY <1>2, SameSteady DEF Post, Goes, IInv, Shape
<1> QED BY <1>1, <1>2

\* A step that neither starts an opkg nor ends one.
LEMMA SteadyExchanges ==
  ASSUME IInv, Exchanges, \A o \in Req : Steady(o), UNCHANGED <<db, opkg>>
  PROVE  Exchanges'
<1>1. Ordered'
  <2> SUFFICES ASSUME opkg # NoOpkg, opkg.by # Nobody
               PROVE  /\ opkg.pkg = StepOf(req'[opkg.by]).pkg
                      /\ StepOf(req'[opkg.by]).op = "install" => opkg.verb = "install"
    BY DEF Ordered, StepOf
  <2>1. opkg.by \in Req /\ req[opkg.by].at = "run"
    BY DEF IInv, Shape, Opkgs, Owned
  <2> QED BY <2>1 DEF Exchanges, Ordered, Steady
<1>2. ASSUME NEW w \in Swap
      PROVE  /\ \A r \in Req : Brought(r, w.new)' => There(w.new)'
             /\ opkg # NoOpkg /\ opkg.pkg = w.old => db'[w.new] # None
  BY Swapped DEF Exchanges, Steady, There
<1> QED BY <1>1, <1>2 DEF Exchanges

\* opkg is started.
LEMMA StartExchanges ==
  ASSUME IInv, Exchanges, NEW r \in Req, StartOpkg(r), opkg' # opkg
  PROVE  Exchanges'
<1> DEFINE s == StepOf(req[r])
           q == req[r]
<1>1. PICK v \in IF s.op = "ipk" THEN {q.target} ELSE Feed :
        opkg' = [at |-> "begin", pkg |-> s.pkg, by |-> r, to |-> v,
                 verb |-> IF s.op = "ipk" /\ q.action = "update" THEN "reinstall"
                          ELSE IF s.op = "ipk" THEN "install" ELSE s.op,
                 ipk |-> s.op = "ipk"]
  BY DEF StartOpkg
<1>2. q.at \in Waiting /\ q.at # "run" BY DEF StartOpkg, Doing, Waiting
<1>3. /\ q \in Busy /\ q.item \in Item /\ q.action \in Action
      /\ q.step \in DOMAIN Plan[q.item][q.action]
  BY <1>2, Working
<1>4. db' = db /\ Goes(r, [req[r] EXCEPT !.at = "run"])
  BY DEF StartOpkg
<1>5. /\ opkg'.pkg = s.pkg /\ opkg'.by = r
      /\ s.op = "install" => opkg'.verb = "install"
  BY <1>1
<1>6. /\ req'[r] = [req[r] EXCEPT !.at = "run"]
      /\ \A o \in Req \ {r} : req'[o] = req[o]
  BY <1>4 DEF Goes, IInv, Shape
<1>7. /\ req'[r].at = "run" /\ req'[r].item = q.item
      /\ req'[r].action = q.action /\ req'[r].step = q.step
  BY <1>3, <1>6 DEF Busy
<1>8. Ordered'
  <2>1. StepOf(req'[r]) = s BY <1>7 DEF StepOf
  <2> QED BY <1>5, <2>1 DEF Ordered, StepOf
<1>9. ASSUME NEW w \in Swap
      PROVE  /\ \A o \in Req : Brought(o, w.new)' => There(w.new)'
             /\ opkg' # NoOpkg /\ opkg'.pkg = w.old => db'[w.new] # None
  <2>1. w.new \in Package BY Swapped
  <2>2. ASSUME NEW o \in Req, Brought(o, w.new)' PROVE There(w.new)'
    <3>1. \A x \in Req \ {r} : req[x].at \notin Waiting
      BY <1>2, AloneHolder DEF Alone
    <3>2. o = r
      BY <1>6, <2>2, <3>1 DEF Brought
    <3>3. Brings(q.item, q.action, q.step, w.new)
      BY <1>7, <2>2, <3>2 DEF Brought
    <3>4. db[w.new] # None
      BY <1>2, <3>3 DEF Exchanges, Brought, There
    <3>5. s.pkg # w.new
      <4>1. q.step \in Nat \ {0} BY <1>3, StepFacts
      <4> QED BY <3>3, <4>1 DEF Brings, StepOf
    <3> QED BY <1>4, <1>5, <3>4, <3>5 DEF There
  <2>3. ASSUME s.pkg = w.old PROVE db[w.new] # None
    <3>1. Brings(q.item, q.action, q.step, w.new)
      BY <1>3, <2>3, Swapped DEF StepOf
    <3> QED BY <1>2, <3>1 DEF Exchanges, Brought, There
  <2> QED BY <1>4, <1>5, <2>2, <2>3
<1> QED BY <1>8, <1>9 DEF Exchanges

\* All requests die, and opkg goes on with the same package, or there is none.
LEMMA DiesExchanges ==
  ASSUME IInv, Exchanges, NEW scripts, CutOff(scripts),
         opkg' = NoOpkg \/
           (db' = db /\ opkg # NoOpkg /\ opkg'.pkg = opkg.pkg /\ opkg'.by = Nobody)
  PROVE  Exchanges'
<1>1. \A o \in Req : req'[o].at = "idle" BY DEF CutOff, NoReq
<1> QED BY <1>1 DEF Exchanges, Ordered, Brought, Waiting

\* opkg goes on.
LEMMA GoesOnExchanges ==
  ASSUME IInv, Exchanges, opkg # NoOpkg, NEW at,
         opkg' = [opkg EXCEPT !.at = at], UNCHANGED <<db, req>>
  PROVE  Exchanges'
<1>1. /\ opkg'.pkg = opkg.pkg /\ opkg'.by = opkg.by /\ opkg'.verb = opkg.verb
  BY DEF IInv, Shape, Opkgs
<1> QED BY <1>1 DEF Exchanges, Ordered, Brought, There, StepOf

\* opkg ends: an installation with exit code 0 has brought its package, and
\* of the others' it has changed none.
LEMMA EndsExchanges ==
  ASSUME IInv, Exchanges, opkg # NoOpkg, NEW what \in {"exit 0", "exit 1"},
         NEW scripts, Exit(what, scripts), \A p \in Package \ {opkg.pkg} : db'[p] = db[p],
         what = "exit 0" /\ opkg.verb = "install" => db'[opkg.pkg] # None
  PROVE  Exchanges'
<1>1. opkg' = NoOpkg BY DEF Exit
<1>2. ASSUME NEW w \in Swap, NEW r \in Req, Brought(r, w.new)'
      PROVE  db'[w.new] # None
  <2>1. w.new \in Package BY Swapped
  <2>2. CASE Brought(r, w.new)
    BY <2>1, <2>2 DEF Exchanges, There
  <2>3. CASE ~Brought(r, w.new)
    <3>1. req'[r] # req[r] BY <1>2, <2>3 DEF Brought
    <3>2. opkg.by = r /\ req' = [req EXCEPT ![r].at = what]
      BY <3>1 DEF Exit, IInv, Shape
    <3>3. req[r].at = "run" /\ req[r] \in Busy
      BY <3>2, RequestAssumption, Working DEF IInv, Owned, Waiting
    <3>4. /\ req'[r].at = what /\ req'[r].item = req[r].item
          /\ req'[r].action = req[r].action /\ req'[r].step = req[r].step
      BY <3>2, <3>3 DEF IInv, Shape, Busy
    <3>5. ~Brings(req[r].item, req[r].action, req[r].step, w.new)
      BY <2>3, <3>3 DEF Brought, Waiting
    <3>6. what = "exit 0" /\ StepOf(req[r]).op = "install" /\ StepOf(req[r]).pkg = w.new
      BY <1>2, <3>4, <3>5 DEF Brought, StepOf
    <3>7. opkg.pkg = w.new /\ opkg.verb = "install"
      BY <3>2, <3>6, RequestAssumption DEF Exchanges, Ordered
    <3> QED BY <3>6, <3>7
  <2> QED BY <2>2, <2>3
<1> QED BY <1>1, <1>2 DEF Exchanges, Ordered, There

LEMMA BreaksOne ==
  ASSUME Breaks, IInv
  PROVE  \A p \in Package : p # opkg.pkg => db'[p] = db[p]
BY DEF Breaks, IInv, Shape

LEMMA OpkgExchanges ==
  ASSUME IInv, Exchanges, opkg # NoOpkg, Opkg
  PROVE  Exchanges'
<1>1. opkg \in Opkgs BY DEF IInv, Shape
<1>2. CASE Prerm \/ Unpack \/ Postinst
  <2>1. db' = db BY <1>2 DEF Prerm, Unpack, Postinst
  <2>2. ASSUME CutOff(left), NEW at, opkg' = [opkg EXCEPT !.at = at, !.by = Nobody]
        PROVE  Exchanges'
    <3>1. opkg'.pkg = opkg.pkg /\ opkg'.by = Nobody BY <1>1, <2>2 DEF Opkgs
    <3> QED BY <2>1, <2>2, <3>1, DiesExchanges
  <2>3. ASSUME req' = req, NEW at, opkg' = [opkg EXCEPT !.at = at]
        PROVE  Exchanges'
    BY <2>1, <2>3, GoesOnExchanges
  <2> QED BY <1>2, <2>2, <2>3 DEF Prerm, Unpack, Postinst
<1>3. CASE Commit
  <2>1. /\ \A p \in Package \ {opkg.pkg} : db'[p] = db[p]
        /\ opkg.verb = "install" => db'[opkg.pkg] # None
    <3>1. /\ db' = [db EXCEPT ![opkg.pkg] = IF opkg.verb = "remove"
                                           THEN None ELSE opkg.to]
          /\ db \in [Package -> {None} \union Version]
      BY <1>3 DEF Commit, IInv, Shape
    <3>2. opkg.pkg \in Package /\ opkg.to \in Version BY <1>1 DEF Opkgs
    <3>3. opkg.to # None BY <3>2, PackageAssumption DEF Version, None
    <3> QED BY <3>1, <3>2, <3>3
  <2> QED BY <1>3, <2>1, EndsExchanges DEF Commit
<1>4. CASE NothingToDo
  BY <1>1, <1>4, EndsExchanges DEF NothingToDo, Opkgs
<1>5. CASE OpkgFails
  BY <1>5, BreaksOne, EndsExchanges DEF OpkgFails
<1> QED BY <1>2, <1>3, <1>4, <1>5 DEF Opkg

LEMMA ByHandExchanges ==
  ASSUME IInv, Exchanges, NEW p \in scenario.hand, NEW verb, RunByHand(p, verb)
  PROVE  Exchanges'
<1>1. opkg'.pkg = p /\ opkg'.by = Nobody /\ UNCHANGED <<db, req>>
  BY DEF RunByHand
<1>2. \A w \in Swap : p # w.old /\ p # w.new
  BY Swapped DEF IInv, Shape
<1> QED BY <1>1, <1>2 DEF Exchanges, Ordered, Brought, There, StepOf

LEMMA NextExchanges == IInv /\ Exchanges /\ [Next]_vars => Exchanges'
<1> SUFFICES ASSUME IInv, Exchanges, [Next]_vars PROVE Exchanges'
  OBVIOUS
<1>1. CASE UNCHANGED vars
  BY <1>1, SameSteady, SteadyExchanges DEF vars
<1>2. ASSUME NEW r \in Req, NEW i \in scenario.items, NEW a \in Action, Post(r, i, a)
      PROVE  Exchanges'
  BY <1>2, PostSteady, SteadyExchanges DEF Post
<1>3. ASSUME NEW r \in Req, Expire(r) PROVE Exchanges'
  BY <1>3, ExpireSteady, SteadyExchanges DEF Expire
<1>4. ASSUME NEW r \in Req, Progress(r) PROVE Exchanges'
  <2>1. CASE Enter(r) BY <2>1, EnterSteady, SteadyExchanges DEF Enter
  <2>2. CASE Work(r) /\ opkg' = opkg
    <3>1. db' = db
      BY <2>2 DEF Work, Conflicts, Download, Downloaded, StartOpkg,
                  WriteFeed, Ran, Check
    <3> QED BY <2>2, <3>1, WorkSteady, SteadyExchanges
  <2>3. CASE Work(r) /\ opkg' # opkg
    BY <2>3, StartExchanges DEF Work, Conflicts, Download, Downloaded,
                                WriteFeed, Ran, Check
  <2>4. CASE Kill(r) BY <2>4, BreaksOne, EndsExchanges DEF Kill
  <2> QED BY <1>4, <2>1, <2>2, <2>3, <2>4 DEF Progress
<1>5. CASE opkg # NoOpkg /\ Opkg BY <1>5, OpkgExchanges
<1>6. ASSUME NEW p \in scenario.hand, NEW verb, RunByHand(p, verb) PROVE Exchanges'
  BY <1>6, ByHandExchanges
<1>7. ASSUME NEW i \in scenario.news, NewRelease(i) PROVE Exchanges'
  BY <1>7, SameSteady, SteadyExchanges DEF NewRelease
<1>8. CASE Reboot BY <1>8, DiesExchanges DEF Reboot
<1>9. ASSUME NEW c \in left, ScriptEnds(c) PROVE Exchanges'
  <2>1. db' = db BY <1>9 DEF ScriptEnds
  <2>2. CASE UNCHANGED <<req, opkg>>
    BY <2>1, <2>2, SameSteady, SteadyExchanges
  <2>3. CASE /\ CutOff(left \ {c})
             /\ opkg' = IF opkg = NoOpkg THEN opkg ELSE [opkg EXCEPT !.by = Nobody]
    <3>1. opkg # NoOpkg => opkg'.pkg = opkg.pkg /\ opkg'.by = Nobody
      BY <2>3 DEF IInv, Shape, Opkgs
    <3> QED BY <2>1, <2>3, <3>1, DiesExchanges
  <2> QED BY <1>9, <2>2, <2>3 DEF ScriptEnds
<1> QED BY <1>1, <1>2, <1>3, <1>4, <1>5, <1>6, <1>7, <1>8, <1>9 DEF Next

\* A plan loses the old package of a pair only while the new one is there:
\* whatever step of it fails, whoever restarts, and whatever an opkg goes on
\* to do for a request that has died.
THEOREM ExchangesAreSafe == Spec => SwapsDownloader
<1>1. Init => Exchanges
  BY InitIdle DEF Init, Exchanges, Ordered, Brought, Waiting
<1>2. ASSUME IInv, Exchanges, [Next]_vars, NEW w \in Swap,
             db[w.old] # None, db'[w.old] = None
      PROVE  db[w.new] # None
  <2>1. w.old \in Package BY Swapped
  <2>2. opkg # NoOpkg /\ opkg.pkg = w.old
    <3>1. Next BY <1>2 DEF vars
    <3>2. CASE opkg # NoOpkg /\ Opkg
      BY <1>2, <2>1, <3>2, BreaksOne
         DEF Opkg, Prerm, Unpack, Postinst, Commit, NothingToDo, OpkgFails, IInv, Shape
    <3>3. ASSUME NEW r \in Req, Progress(r) PROVE opkg # NoOpkg /\ opkg.pkg = w.old
      BY <1>2, <2>1, <3>3, BreaksOne
         DEF Progress, Enter, Work, Conflicts, Download, Downloaded, StartOpkg,
             WriteFeed, Ran, Check, Kill
    <3>4. CASE Reboot BY <1>2, <2>1, <3>4, BreaksOne DEF Reboot
    <3> QED BY <1>2, <3>1, <3>2, <3>3, <3>4
            DEF Next, Post, Expire, RunByHand, NewRelease, ScriptEnds
  <2> QED BY <1>2, <2>2 DEF Exchanges
<1>3. IInv /\ Exchanges /\ [Next]_vars =>
        [\A w \in Swap : db[w.old] # None /\ db'[w.old] = None => db[w.new] # None]_vars
  BY <1>2
<1> QED BY <1>1, <1>3, NextExchanges, Invariance, PTL DEF Spec, SwapsDownloader
=============================================================================
