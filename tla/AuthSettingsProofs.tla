------------------------- MODULE AuthSettingsProofs -------------------------
(***************************************************************************)
(* Theorems about AuthSettings, for any browsers and tokens: the state has *)
(* its shape, and a restart finds the setting Core runs with unless two    *)
(* changes have overlapped.                                                *)
(***************************************************************************)
EXTENDS AuthSettings, TLAPS

\* Who saves wants one of the settings.
Wanted ==
  \A b \in Browser : call[b].at \in Saving \union {"open"} => call[b].want \in Setting

\* Two changes that save are tangled, and neither is alone.
Apart ==
  \A b, c \in Browser :
    b # c /\ call[b].at \in Saving /\ call[c].at \in Saving =>
      tangled /\ ~call[b].alone /\ ~call[c].alone

\* Unless changes are tangled, who saves is alone.
Single ==
  ~tangled => \A b \in Browser : call[b].at \in Saving => call[b].alone

\* What a change that is alone has made so far is what it wants.
Own ==
  \A b \in Browser : call[b].alone =>
    /\ call[b].at = "write" => call[b].on = "tmp"
    /\ call[b].at \in {"chmod", "rename"} => tmp = call[b].want
    /\ call[b].at = "apply" => file = call[b].want

IInv == AuthTypeOK /\ Wanted /\ Apart /\ Single /\ Own /\ SettingDurable

Calls ==
  [at : {"idle", "check", "open", "session"} \union Saving, want : Want,
   token : Token \union {None}, on : {"tmp", "file", "gone"}, alone : BOOLEAN]

Streams == [at : {"closed", "check", "send", "wait"}, token : Token \union {None}]

-----------------------------------------------------------------------------
(* The initial states.                                                     *)

LEMMA NoCallType == NoCall \in Calls /\ NoStream \in Streams
  BY DEF NoCall, NoStream, Calls, Streams, Want, Setting

LEMMA LoadedType == \A content : Loaded(content) \in BOOLEAN
  BY DEF Loaded

LEMMA InitInvariant == AuthInit => IInv
<1> SUFFICES ASSUME AuthInit PROVE IInv
  OBVIOUS
<1>1. AuthTypeOK
  <2>1. call \in [Browser -> Calls] /\ stream \in [Browser -> Streams]
    BY NoCallType DEF AuthInit
  <2>2. core = TRUE /\ tangled = FALSE /\ required = Loaded(file)
    BY DEF AuthInit
  <2>5. required \in BOOLEAN
    BY <2>2, LoadedType
  <2>3. file \in Content /\ tmp \in Content /\ sessions \subseteq Token
    BY DEF AuthInit, Content, Setting
  <2>4. cookie \in [Browser -> Token \union {None}]
    BY DEF AuthInit
  <2> QED BY <2>1, <2>2, <2>3, <2>4, <2>5 DEF AuthTypeOK, Calls, Streams
<1>2. \A b \in Browser : call[b].at = "idle" /\ ~call[b].alone
  BY DEF AuthInit, NoCall
<1>3. SettingDurable
  BY DEF AuthInit, SettingDurable
<1> QED
  BY <1>1, <1>2, <1>3 DEF IInv, Wanted, Apart, Single, Own, Saving

\* Without Core there are no requests.
LEMMA CoreCalls ==
  ASSUME AuthTypeOK, NEW b \in Browser, call[b].at # "idle"
  PROVE  core
BY DEF AuthTypeOK, NoCall

-----------------------------------------------------------------------------
(* Steps that save nothing.  They leave the setting, its files and who     *)
(* saves alone.                                                            *)

\* A browser's request changes to one that does not save.
Calm(b) ==
  /\ \A c \in Browser \ {b} : call'[c] = call[c]
  /\ call'[b].at \notin Saving
  /\ call'[b].at = "open" => call'[b].want \in Setting
  /\ call[b].at # "apply"
  /\ UNCHANGED <<core, saved>>

LEMMA CalmKeeps ==
  ASSUME IInv, AuthTypeOK', NEW b \in Browser, Calm(b)
  PROVE  IInv'
<1>1. Wanted' BY DEF IInv, Calm, Wanted, Saving
<1>2. Apart' BY DEF IInv, Calm, Apart, saved
<1>3. Single' BY DEF IInv, Calm, Single, saved
<1>4. Own' BY DEF IInv, Calm, Own, Saving, saved
<1>5. SettingDurable' BY DEF IInv, Calm, SettingDurable, Saving, saved
<1> QED BY <1>1, <1>2, <1>3, <1>4, <1>5 DEF IInv

LEMMA StillKeeps ==
  ASSUME IInv, AuthTypeOK', UNCHANGED <<core, saved, call>>
  PROVE  IInv'
BY DEF IInv, Wanted, Apart, Single, Own, SettingDurable, saved

LEMMA AskStep ==
  ASSUME IInv, NEW b \in Browser, NEW want \in Want, Ask(b, want)
  PROVE  IInv'
<1>1. call'[b].at = "check" /\ \A c \in Browser \ {b} : call'[c] = call[c]
  BY DEF Ask, IInv, AuthTypeOK, NoCall
<1>2. [NoCall EXCEPT !.at = "check", !.want = want, !.token = cookie[b]] \in Calls
  BY NoCallType DEF Calls, IInv, AuthTypeOK
<1>3. AuthTypeOK'
  BY <1>2 DEF Ask, IInv, AuthTypeOK, Calls, saved
<1> QED BY <1>1, <1>3, CalmKeeps DEF Ask, Calm, Saving

LEMMA CheckStep ==
  ASSUME IInv, NEW b \in Browser, Check(b)
  PROVE  IInv'
<1>1. AuthTypeOK'
  <2>1. call' \in [Browser -> Calls]
    <3>1. call \in [Browser -> Calls] BY DEF IInv, AuthTypeOK, Calls
    <3>2. CASE Goes(b, "open") \/ Goes(b, "session")
      BY <3>1, <3>2 DEF Goes, Calls
    <3>3. CASE End(b)
      BY <3>1, <3>3, NoCallType DEF End
    <3> QED BY <3>2, <3>3 DEF Check
  <2>2. call[b].at # "idle" /\ AuthTypeOK
    BY DEF Check, IInv
  <2>3. core
    BY <2>2, CoreCalls
  <2> QED BY <2>1, <2>3 DEF Check, IInv, AuthTypeOK, Calls, saved
<1>2. Calm(b)
  <2>1. CASE MayChange(b) /\ Goes(b, "open")
    <3>1. call[b].want \in Setting
      BY <2>1 DEF MayChange, Setting
    <3> QED BY <2>1, <3>1 DEF Check, Goes, Calm, Saving, IInv, AuthTypeOK
  <2>2. CASE Goes(b, "session")
    BY <2>2 DEF Check, Goes, Calm, Saving, IInv, AuthTypeOK
  <2>3. CASE End(b)
    BY <2>3 DEF Check, End, NoCall, Calm, Saving, IInv, AuthTypeOK
  <2> QED BY <2>1, <2>2, <2>3 DEF Check
<1> QED BY <1>1, <1>2, CalmKeeps

LEMMA SettleStep ==
  ASSUME IInv, NEW b \in Browser, Settle(b)
  PROVE  IInv'
<1>1. Calm(b)
  BY DEF Settle, End, NoCall, Calm, Saving, IInv, AuthTypeOK
<1>2. /\ sessions' \subseteq Token
      /\ cookie' \in [Browser -> Token \union {None}]
  BY DEF Settle, CreateSession, ClearSession, IInv, AuthTypeOK
<1>3. AuthTypeOK'
  <2>1. call' \in [Browser -> Calls]
    BY NoCallType DEF Settle, End, IInv, AuthTypeOK, Calls
  <2>2. core
    BY CoreCalls DEF Settle, IInv
  <2> QED BY <1>2, <2>1, <2>2 DEF Settle, IInv, AuthTypeOK, Calls, saved
<1> QED BY <1>1, <1>3, CalmKeeps

LEMMA StreamStep ==
  ASSUME IInv, NEW b \in Browser, Connect(b) \/ Stream(b) \/ Disconnect(b)
  PROVE  IInv'
<1>1. UNCHANGED <<core, saved, sessions, cookie, call>>
  BY DEF Connect, Stream, CheckStream, Send, NextEvent, Disconnect, StreamGoes
<1>2. stream' \in [Browser -> Streams] /\ core
  <2>1. CASE Connect(b)
    BY <2>1 DEF Connect, IInv, AuthTypeOK, Streams
  <2>2. ASSUME NEW at \in {"closed", "check", "send", "wait"}, StreamGoes(b, at),
               stream[b].at # "closed"
        PROVE  stream' \in [Browser -> Streams] /\ core
    BY <2>2, NoCallType DEF StreamGoes, NoStream, IInv, AuthTypeOK, Streams
  <2>3. CASE Stream(b)
    <3>1. CASE CheckStream(b) BY <3>1, <2>2 DEF CheckStream
    <3>2. CASE Send(b) BY <3>2, <2>2 DEF Send
    <3>3. CASE NextEvent(b) BY <3>3, <2>2 DEF NextEvent
    <3> QED BY <2>3, <3>1, <3>2, <3>3 DEF Stream
  <2>4. CASE Disconnect(b)
    BY <2>4, <2>2 DEF Disconnect
  <2> QED BY <2>1, <2>3, <2>4
<1>3. AuthTypeOK'
  BY <1>1, <1>2 DEF IInv, AuthTypeOK, Streams, saved
<1> QED BY <1>1, <1>3, StillKeeps

LEMMA ExpireStep ==
  ASSUME IInv, NEW t \in Token, Expire(t)
  PROVE  IInv'
<1>1. AuthTypeOK'
  BY DEF Expire, IInv, AuthTypeOK, saved
<1> QED BY <1>1, StillKeeps DEF Expire

-----------------------------------------------------------------------------
(* Steps that save.                                                        *)

\* What the steps of a change leave alone.
LEMMA SavingTypes ==
  ASSUME AuthTypeOK, NEW b \in Browser, call' \in [Browser -> Calls],
         required' \in BOOLEAN, tangled' \in BOOLEAN,
         file' \in Content, tmp' \in Content, sessions' \subseteq Token,
         call[b].at # "idle", UNCHANGED <<core, cookie, stream>>
  PROVE  AuthTypeOK'
<1>1. core
  BY CoreCalls
<1> QED BY <1>1 DEF AuthTypeOK, Calls

LEMMA PutType ==
  ASSUME NEW place, NEW content \in Content, Put(place, content),
         file \in Content, tmp \in Content
  PROVE  file' \in Content /\ tmp' \in Content
BY DEF Put

\* A change that opens the temporary file, and one it overtakes.
LEMMA OpenedType ==
  ASSUME NEW r \in Calls, NEW flag \in BOOLEAN, NEW r1,
         r1 = [r EXCEPT !.at = "write", !.on = "tmp", !.alone = flag]
  PROVE  /\ r1 \in Calls /\ r1.at = "write" /\ r1.on = "tmp" /\ r1.alone = flag
         /\ r1.want = r.want
BY DEF Calls, Saving

LEMMA OvertakenType ==
  ASSUME NEW r \in Calls
  PROVE  LET r1 == [r EXCEPT !.alone = FALSE] IN
         r1 \in Calls /\ r1.at = r.at /\ r1.want = r.want /\ ~r1.alone
BY DEF Calls, Saving

LEMMA OpenStep ==
  ASSUME IInv, NEW b \in Browser, Open(b)
  PROVE  IInv'
<1> DEFINE others == {c \in Browser \ {b} : call[c].at \in Saving}
<1>1. call \in [Browser -> Calls] /\ AuthTypeOK /\ call[b].at = "open"
  BY DEF Open, IInv, AuthTypeOK, Calls
<1>2. CASE End(b) /\ UNCHANGED saved
  <2>1. call' \in [Browser -> Calls]
    BY <1>1, <1>2, NoCallType DEF End
  <2>2. AuthTypeOK'
    BY <1>1, <1>2, <2>1, SavingTypes DEF Open, saved, AuthTypeOK
  <2>3. Calm(b)
    BY <1>1, <1>2 DEF Open, End, NoCall, Calm, Saving
  <2> QED BY <2>2, <2>3, CalmKeeps
<1>3. CASE ~(End(b) /\ UNCHANGED saved)
  <2>1. /\ tmp' = "broken" /\ file' = file /\ required' = required
        /\ tangled' = (tangled \/ others # {})
        /\ call' = [c \in Browser |->
             CASE c = b -> [call[c] EXCEPT !.at = "write", !.on = "tmp",
                                           !.alone = others = {}]
               [] c \in others -> [call[c] EXCEPT !.alone = FALSE]
               [] OTHER -> call[c]]
        /\ UNCHANGED <<core, sessions, cookie, stream>>
    BY <1>3 DEF Open, Put, Scratch
  <2>2. /\ call'[b] \in Calls /\ call'[b].at = "write" /\ call'[b].on = "tmp"
        /\ call'[b].alone = (others = {}) /\ call'[b].want = call[b].want
    <3>1. call[b] \in Calls
      BY <1>1
    <3>2. CASE others = {}
      <4>1. call'[b] = [call[b] EXCEPT !.at = "write", !.on = "tmp", !.alone = TRUE]
        BY <2>1, <3>2
      <4> QED BY <3>1, <3>2, <4>1, OpenedType
    <3>3. CASE others # {}
      <4>1. call'[b] = [call[b] EXCEPT !.at = "write", !.on = "tmp", !.alone = FALSE]
        BY <2>1, <3>3
      <4> QED BY <3>1, <3>3, <4>1, OpenedType
    <3> QED BY <3>2, <3>3
  <2>3. \A c \in others : call'[c] = [call[c] EXCEPT !.alone = FALSE]
    BY <2>1
  <2>4. \A c \in Browser \ {b} : c \notin others => call'[c] = call[c]
    BY <2>1
  <2>5. call' \in [Browser -> Calls]
    <3>1. call'[b] \in Calls
      BY <2>2
    <3>2. \A c \in others : call'[c] \in Calls
      BY <1>1, <2>3, OvertakenType
    <3>3. \A c \in Browser : call'[c] \in Calls
      BY <1>1, <2>4, <3>1, <3>2
    <3> QED BY <2>1, <3>3
  <2>6. AuthTypeOK'
    <3>1. tangled' \in BOOLEAN /\ required' \in BOOLEAN BY <1>1, <2>1 DEF AuthTypeOK
    <3>2. tmp' \in Content /\ file' \in Content BY <1>1, <2>1 DEF AuthTypeOK, Content
    <3>3. sessions' \subseteq Token BY <1>1, <2>1 DEF AuthTypeOK
    <3> QED BY <1>1, <2>1, <2>5, <3>1, <3>2, <3>3, SavingTypes
  <2>7. \A c \in Browser : /\ call'[c].want = call[c].want
                           /\ c # b => call'[c].at = call[c].at
                           /\ c # b /\ call'[c].alone => call[c].alone /\ c \notin others
    <3>1. call'[b].want = call[b].want
      BY <2>2
    <3>2. \A c \in others : call'[c].want = call[c].want /\ call'[c].at = call[c].at
                            /\ ~call'[c].alone
      BY <1>1, <2>3, OvertakenType
    <3> QED BY <2>4, <3>1, <3>2
  <2>8. call'[b].at = "write" /\ call'[b].on = "tmp" /\ call'[b].alone = (others = {})
    BY <2>2
  <2>9. Wanted'
    BY <1>1, <2>7, <2>8 DEF IInv, Wanted, Saving
  <2>10. Apart'
    <3> SUFFICES ASSUME NEW c \in Browser, NEW d \in Browser, c # d,
                        call'[c].at \in Saving, call'[d].at \in Saving
                 PROVE  tangled' /\ ~call'[c].alone /\ ~call'[d].alone
      BY DEF Apart
    <3>1. CASE c # b /\ d # b
      BY <2>1, <2>7, <3>1 DEF IInv, Apart
    <3>2. CASE c = b \/ d = b
      BY <2>1, <2>7, <2>8, <3>2
    <3> QED BY <3>1, <3>2
  <2>11. Single'
    BY <2>1, <2>7, <2>8 DEF Single
  <2>12. Own'
    <3> SUFFICES ASSUME NEW c \in Browser, call'[c].alone
                 PROVE  /\ call'[c].at = "write" => call'[c].on = "tmp"
                        /\ call'[c].at \in {"chmod", "rename"} => tmp' = call'[c].want
                        /\ call'[c].at = "apply" => file' = call'[c].want
      BY DEF Own
    <3>1. CASE c = b BY <2>8, <3>1
    <3>2. CASE c # b BY <2>7, <3>2 DEF Saving
    <3> QED BY <3>1, <3>2
  <2>13. SettingDurable'
    BY <1>1, <2>1, <2>7, <2>8 DEF IInv, SettingDurable
  <2> QED BY <2>6, <2>9, <2>10, <2>11, <2>12, <2>13 DEF IInv
<1> QED BY <1>2, <1>3

\* A step of a change that has the temporary file open: the others go on as
\* they are, and what is still alone has made what it wants.
Saves(b) ==
  /\ call[b].at \in Saving
  /\ \A c \in Browser \ {b} : /\ call'[c].at = call[c].at
                             /\ call'[c].want = call[c].want
                             /\ call'[c].alone = call[c].alone
  /\ call'[b].at # "open"
  /\ call'[b].at \in Saving => /\ call'[b].want = call[b].want
                              /\ call'[b].alone = call[b].alone
  /\ tangled' = tangled

Made(b) ==
  call[b].alone => /\ call[b].at = "write" => call[b].on = "tmp"
                   /\ call[b].at \in {"chmod", "rename"} => tmp = call[b].want
                   /\ call[b].at = "apply" => file = call[b].want

LEMMA SavesKeeps ==
  ASSUME IInv, AuthTypeOK', NEW b \in Browser, Saves(b), Made(b)', SettingDurable'
  PROVE  IInv'
<1>1. Wanted' BY DEF IInv, Saves, Wanted, Saving
<1>2. Apart' BY DEF IInv, Saves, Apart
<1>3. Single' BY DEF IInv, Saves, Single
<1>4. Own'
  <2>1. ASSUME NEW c \in Browser \ {b}, call'[c].alone
        PROVE  call'[c].at \notin Saving
    BY <2>1 DEF IInv, Saves, Apart
  <2>2. \A c \in Browser : Made(c)'
    BY <2>1 DEF Made, Saving
  <2> QED BY <2>2 DEF Own, Made
<1> QED BY <1>1, <1>2, <1>3, <1>4 DEF IInv

\* Before the memory is set, a change that is not alone is tangled, and one
\* that leaves the file alone leaves the setting a restart finds.
LEMMA FileKeeps ==
  ASSUME IInv, NEW b \in Browser, Saves(b), call[b].at # "apply",
         call[b].alone => file' = file, UNCHANGED <<core, required>>
  PROVE  SettingDurable'
<1>1. CASE tangled BY <1>1 DEF Saves, SettingDurable
<1>2. CASE ~tangled
  <2>1. file' = file
    BY <1>2 DEF IInv, Saves, Single
  <2>2. (\A c \in Browser : call'[c].at # "apply") =>
           \A c \in Browser : call[c].at # "apply"
    BY DEF Saves
  <2> QED BY <1>2, <2>1, <2>2 DEF IInv, SettingDurable
<1> QED BY <1>1, <1>2

\* One request ends, or goes on.
LEMMA EndType ==
  ASSUME call \in [Browser -> Calls], NEW b \in Browser, End(b)
  PROVE  /\ call' \in [Browser -> Calls] /\ call'[b] = NoCall
         /\ \A c \in Browser \ {b} : call'[c] = call[c]
BY NoCallType DEF End

LEMMA GoesType ==
  ASSUME call \in [Browser -> Calls], NEW b \in Browser,
         NEW at \in {"check", "open", "session"} \union Saving, Goes(b, at)
  PROVE  /\ call' \in [Browser -> Calls] /\ call'[b].at = at
         /\ call'[b].want = call[b].want /\ call'[b].alone = call[b].alone
         /\ \A c \in Browser \ {b} : call'[c] = call[c]
BY DEF Goes, Calls, Saving

LEMMA WriteStep ==
  ASSUME IInv, NEW b \in Browser, Write(b)
  PROVE  IInv'
<1>1. /\ call \in [Browser -> Calls] /\ AuthTypeOK /\ call[b].at = "write"
      /\ call[b].want \in Content
      /\ UNCHANGED <<core, required, tangled, sessions, cookie, stream>>
  BY DEF Write, IInv, AuthTypeOK, Calls, Wanted, Saving, Content
<1>2. CASE Put(call[b].on, call[b].want) /\ Goes(b, "chmod")
  <2>1. /\ call' \in [Browser -> Calls] /\ call'[b].at = "chmod"
        /\ call'[b].want = call[b].want /\ call'[b].alone = call[b].alone
        /\ \A c \in Browser \ {b} : call'[c] = call[c]
    BY <1>1, <1>2, GoesType DEF Saving
  <2>2. Saves(b)
    BY <1>1, <2>1 DEF Saves, Saving
  <2>3. call[b].alone => tmp' = call[b].want /\ file' = file
    BY <1>1, <1>2 DEF IInv, Own, Put
  <2>4. tmp' \in Content /\ file' \in Content
    BY <1>1, <1>2, PutType DEF AuthTypeOK
  <2>5. AuthTypeOK'
    BY <1>1, <2>1, <2>4, SavingTypes DEF AuthTypeOK
  <2>6. SettingDurable'
    BY <1>1, <2>2, <2>3, FileKeeps
  <2>7. Made(b)'
    BY <2>1, <2>3 DEF Made
  <2> QED BY <2>2, <2>5, <2>6, <2>7, SavesKeeps
<1>3. CASE Put(call[b].on, "broken") /\ End(b)
  <2>1. /\ call' \in [Browser -> Calls] /\ call'[b] = NoCall
        /\ \A c \in Browser \ {b} : call'[c] = call[c]
    BY <1>1, <1>3, EndType
  <2>2. Saves(b)
    BY <1>1, <2>1 DEF Saves, Saving, NoCall
  <2>3. call[b].alone => file' = file
    BY <1>1, <1>3 DEF IInv, Own, Put
  <2>4. tmp' \in Content /\ file' \in Content
    BY <1>1, <1>3, PutType DEF AuthTypeOK, Content
  <2>5. AuthTypeOK'
    BY <1>1, <2>1, <2>4, SavingTypes DEF AuthTypeOK
  <2>6. SettingDurable'
    BY <1>1, <2>2, <2>3, FileKeeps
  <2>7. Made(b)'
    BY <2>1 DEF Made, NoCall
  <2> QED BY <2>2, <2>5, <2>6, <2>7, SavesKeeps
<1> QED BY <1>2, <1>3 DEF Write

\* The temporary file is moved or removed: only where it is changes for the
\* other requests.
LEMMA MovedType ==
  ASSUME call \in [Browser -> Calls], NEW b \in Browser,
         NEW at \in {"idle", "apply"}, NEW where \in {"file", "gone"},
         call' = Moved(b, at, where)
  PROVE  /\ call' \in [Browser -> Calls] /\ call'[b].at = at
         /\ at = "apply" => /\ call'[b].want = call[b].want
                            /\ call'[b].alone = call[b].alone
         /\ \A c \in Browser \ {b} : /\ call'[c].at = call[c].at
                                    /\ call'[c].want = call[c].want
                                    /\ call'[c].alone = call[c].alone
<1>1. /\ call'[b] \in Calls /\ call'[b].at = at
      /\ at = "apply" => /\ call'[b].want = call[b].want
                         /\ call'[b].alone = call[b].alone
  <2>1. CASE at = "idle"
    BY <2>1, NoCallType DEF Moved, NoCall
  <2>2. CASE at = "apply"
    <3>1. call'[b] = [call[b] EXCEPT !.at = "apply"] /\ call[b] \in Calls
      BY <2>2 DEF Moved
    <3> QED BY <2>2, <3>1 DEF Calls, Saving
  <2> QED BY <2>1, <2>2
<1>2. ASSUME NEW c \in Browser \ {b}
      PROVE  /\ call'[c] \in Calls /\ call'[c].at = call[c].at
             /\ call'[c].want = call[c].want /\ call'[c].alone = call[c].alone
  <2>1. PICK on \in {"tmp", "file", "gone"} : call'[c] = [call[c] EXCEPT !.on = on]
    BY DEF Moved, Calls
  <2>2. call[c] \in Calls
    OBVIOUS
  <2> QED BY <2>1, <2>2 DEF Calls
<1>3. \A c \in Browser : call'[c] \in Calls
  BY <1>1, <1>2
<1> QED BY <1>1, <1>2, <1>3 DEF Moved

LEMMA DiscardStep ==
  ASSUME IInv, NEW b \in Browser, call[b].at \in {"chmod", "rename"}, Discard(b),
         UNCHANGED <<core, required, tangled, sessions, cookie, stream>>
  PROVE  IInv'
<1>1. call \in [Browser -> Calls] /\ AuthTypeOK
  BY DEF IInv, AuthTypeOK, Calls
<1>2. /\ call' \in [Browser -> Calls] /\ call'[b].at = "idle"
      /\ \A c \in Browser \ {b} : /\ call'[c].at = call[c].at
                                 /\ call'[c].want = call[c].want
                                 /\ call'[c].alone = call[c].alone
  BY <1>1, MovedType DEF Discard
<1>3. Saves(b)
  BY <1>2 DEF Saves, Saving
<1>4. tmp' \in Content /\ file' = file
  BY DEF Discard, Content
<1>5. AuthTypeOK'
  BY <1>1, <1>2, <1>4, SavingTypes DEF AuthTypeOK
<1>6. SettingDurable'
  BY <1>3, <1>4, FileKeeps
<1>7. Made(b)'
  BY <1>2 DEF Made
<1> QED BY <1>3, <1>5, <1>6, <1>7, SavesKeeps

LEMMA ChmodStep ==
  ASSUME IInv, NEW b \in Browser, Chmod(b)
  PROVE  IInv'
<1>1. /\ call \in [Browser -> Calls] /\ AuthTypeOK /\ call[b].at = "chmod"
      /\ UNCHANGED <<core, required, tangled, sessions, cookie, stream>>
  BY DEF Chmod, IInv, AuthTypeOK, Calls
<1>2. CASE Goes(b, "rename") /\ UNCHANGED <<tmp, file>>
  <2>1. /\ call' \in [Browser -> Calls] /\ call'[b].at = "rename"
        /\ call'[b].want = call[b].want /\ call'[b].alone = call[b].alone
        /\ \A c \in Browser \ {b} : call'[c] = call[c]
    BY <1>1, <1>2, GoesType DEF Saving
  <2>2. Saves(b)
    BY <1>1, <2>1 DEF Saves, Saving
  <2>3. AuthTypeOK'
    BY <1>1, <1>2, <2>1, SavingTypes DEF AuthTypeOK
  <2>4. SettingDurable'
    BY <1>1, <1>2, <2>2, FileKeeps
  <2>5. Made(b)'
    BY <1>1, <1>2, <2>1 DEF Made, IInv, Own
  <2> QED BY <2>2, <2>3, <2>4, <2>5, SavesKeeps
<1>3. CASE Discard(b)
  BY <1>1, <1>3, DiscardStep
<1> QED BY <1>2, <1>3 DEF Chmod

LEMMA RenameStep ==
  ASSUME IInv, NEW b \in Browser, Rename(b)
  PROVE  IInv'
<1>1. /\ call \in [Browser -> Calls] /\ AuthTypeOK /\ call[b].at = "rename"
      /\ call[b].want \in Setting
      /\ UNCHANGED <<core, required, tangled, sessions, cookie, stream>>
  BY DEF Rename, IInv, AuthTypeOK, Calls, Wanted, Saving
<1>2. CASE file' = tmp /\ tmp' = "absent" /\ call' = Moved(b, "apply", "file")
  <2>1. /\ call' \in [Browser -> Calls] /\ call'[b].at = "apply"
        /\ call'[b].want = call[b].want /\ call'[b].alone = call[b].alone
        /\ \A c \in Browser \ {b} : /\ call'[c].at = call[c].at
                                   /\ call'[c].want = call[c].want
                                   /\ call'[c].alone = call[c].alone
    BY <1>1, <1>2, MovedType
  <2>2. Saves(b)
    BY <1>1, <2>1 DEF Saves, Saving
  <2>3. tmp' \in Content /\ file' \in Content
    BY <1>1, <1>2 DEF AuthTypeOK, Content
  <2>4. AuthTypeOK'
    BY <1>1, <2>1, <2>3, SavingTypes DEF AuthTypeOK
  <2>5. call[b].alone => file' = call[b].want
    BY <1>1, <1>2 DEF IInv, Own
  <2>6. tangled' \/ file' # "broken"
    BY <1>1, <2>5 DEF IInv, Single, Saving, Setting
  <2>7. SettingDurable'
    BY <2>1, <2>6 DEF SettingDurable
  <2>8. Made(b)'
    BY <2>1, <2>5 DEF Made
  <2> QED BY <2>2, <2>4, <2>7, <2>8, SavesKeeps
<1>3. CASE Discard(b)
  BY <1>1, <1>3, DiscardStep
<1> QED BY <1>2, <1>3 DEF Rename

\* Whoever sets the memory alone ends the tangle: no other change saves then,
\* and the file holds what it wants.
LEMMA ApplyStep ==
  ASSUME IInv, NEW b \in Browser, Apply(b)
  PROVE  IInv'
<1>1. /\ call \in [Browser -> Calls] /\ AuthTypeOK /\ call[b].at = "apply"
      /\ call[b].want \in Setting
      /\ UNCHANGED <<core, file, tmp, cookie, stream>>
      /\ required' = (call[b].want = "on")
      /\ tangled' = (tangled /\ ~call[b].alone)
  BY DEF Apply, IInv, AuthTypeOK, Calls, Wanted, Saving
<1>2. /\ call' \in [Browser -> Calls] /\ call'[b].at = "session"
      /\ \A c \in Browser \ {b} : call'[c] = call[c]
  BY <1>1, GoesType DEF Apply
<1>3. AuthTypeOK'
  <2>1. required' \in BOOLEAN /\ tangled' \in BOOLEAN
    BY <1>1
  <2>2. sessions' \subseteq Token
    BY <1>1 DEF Apply, AuthTypeOK
  <2> QED BY <1>1, <1>2, <2>1, <2>2, SavingTypes DEF AuthTypeOK
<1>4. Wanted' BY <1>2 DEF IInv, Wanted, Saving
<1>5. CASE call[b].alone
  <2>1. \A c \in Browser : call'[c].at \notin Saving
    BY <1>1, <1>2, <1>5 DEF IInv, Apart, Saving
  <2>2. file' = call[b].want
    BY <1>1, <1>5 DEF IInv, Own
  <2>3. Apart' /\ Single'
    BY <2>1 DEF Apart, Single
  <2>4. Own'
    BY <2>1 DEF Own, Saving
  <2>5. file' # "broken" /\ (required' <=> file' = "on")
    BY <1>1, <2>2 DEF Setting
  <2>6. Loaded(file)' <=> file' = "on"
    BY <2>5 DEF Loaded
  <2>7. required' = Loaded(file)'
    BY <1>1, <2>5, <2>6, LoadedType DEF Loaded
  <2>8. SettingDurable'
    BY <2>5, <2>7 DEF SettingDurable
  <2> QED BY <1>3, <1>4, <2>3, <2>4, <2>8 DEF IInv
<1>6. CASE ~call[b].alone
  <2>1. tangled /\ tangled'
    BY <1>1, <1>6 DEF IInv, Single, Saving
  <2>2. Apart' BY <1>2, <2>1 DEF IInv, Apart, Saving
  <2>3. Single' /\ SettingDurable' BY <2>1 DEF Single, SettingDurable
  <2>4. Own' BY <1>1, <1>2 DEF IInv, Own
  <2> QED BY <1>3, <1>4, <2>2, <2>3, <2>4 DEF IInv
<1> QED BY <1>5, <1>6

-----------------------------------------------------------------------------
(* The process, and the theorems.                                          *)

\* Nobody saves while Core is down, or when it has just started.
LEMMA QuietKeeps ==
  ASSUME IInv, AuthTypeOK', UNCHANGED <<file, tmp, tangled>>,
         \A b \in Browser : call'[b] = NoCall,
         core' => required' = Loaded(file)
  PROVE  IInv'
<1>1. \A b \in Browser : /\ call'[b].at = "idle" /\ ~call'[b].alone
  BY DEF NoCall
<1>2. Wanted' /\ Apart' /\ Single' /\ Own'
  BY <1>1 DEF Wanted, Apart, Single, Own, Saving
<1>3. SettingDurable'
  BY DEF IInv, SettingDurable, Loaded
<1> QED BY <1>2, <1>3 DEF IInv

LEMMA CoreStopsStep ==
  ASSUME IInv, CoreStops
  PROVE  IInv'
<1>1. /\ call' \in [Browser -> Calls] /\ stream' \in [Browser -> Streams]
      /\ \A b \in Browser : call'[b] = NoCall /\ stream'[b] = NoStream
  BY NoCallType DEF CoreStops
<1>2. AuthTypeOK'
  BY <1>1 DEF CoreStops, IInv, AuthTypeOK, Calls, Streams, saved
<1> QED BY <1>1, <1>2, QuietKeeps DEF CoreStops, saved

LEMMA CoreStartsStep ==
  ASSUME IInv, CoreStarts
  PROVE  IInv'
<1>1. \A b \in Browser : call'[b] = NoCall
  BY DEF CoreStarts, IInv, AuthTypeOK
<1>2. required' \in BOOLEAN
  BY LoadedType DEF CoreStarts
<1>3. AuthTypeOK'
  BY <1>2 DEF CoreStarts, IInv, AuthTypeOK
<1> QED BY <1>1, <1>3, QuietKeeps DEF CoreStarts

LEMMA NextInvariant == IInv /\ [AuthNext]_authVars => IInv'
<1> SUFFICES ASSUME IInv, [AuthNext]_authVars PROVE IInv'
  OBVIOUS
<1>1. CASE UNCHANGED authVars
  <2>1. AuthTypeOK' BY <1>1 DEF authVars, saved, IInv, AuthTypeOK
  <2> QED BY <1>1, <2>1, StillKeeps DEF authVars
<1>2. ASSUME NEW b \in Browser, NEW want \in Want, Ask(b, want) PROVE IInv'
  BY <1>2, AskStep
<1>3. ASSUME NEW b \in Browser, Handle(b) PROVE IInv'
  BY <1>3, CheckStep, OpenStep, WriteStep, ChmodStep, RenameStep, ApplyStep,
     SettleStep DEF Handle
<1>4. ASSUME NEW b \in Browser, Connect(b) \/ Stream(b) \/ Disconnect(b)
      PROVE  IInv'
  BY <1>4, StreamStep
<1>5. ASSUME NEW t \in Token, Expire(t) PROVE IInv'
  BY <1>5, ExpireStep
<1>6. CASE CoreStops BY <1>6, CoreStopsStep
<1>7. CASE CoreStarts BY <1>7, CoreStartsStep
<1> QED BY <1>1, <1>2, <1>3, <1>4, <1>5, <1>6, <1>7 DEF AuthNext

LEMMA Invariant == AuthSpec => []IInv
BY InitInvariant, NextInvariant, PTL DEF AuthSpec

\* The setting, its files, the sessions, requests and streams keep their
\* shapes, and without Core nobody has a session, a request or a stream.
THEOREM AuthTypeCorrect == AuthSpec => []AuthTypeOK
<1>1. IInv => AuthTypeOK BY DEF IInv
<1> QED BY Invariant, <1>1, PTL

\* Whatever browsers ask, in whatever order, and wherever Core stops: unless
\* changes of the setting overlap, a restart brings the setting Core runs
\* with, and never finds a file it cannot parse (saveAuthConfig).
THEOREM SettingSurvives == AuthSpec => []SettingDurable
<1>1. IInv => SettingDurable BY DEF IInv
<1> QED BY Invariant, <1>1, PTL
=============================================================================
