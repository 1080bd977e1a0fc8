---------------------------- MODULE AuthSettings ----------------------------
(***************************************************************************)
(* Core's optional authentication.  The setting is kept in memory and in   *)
(* security.json, sessions only in memory.  A change of the setting checks *)
(* who asks, writes a temporary file, renames it and only then sets the    *)
(* memory; nothing keeps two changes apart, and they share the temporary   *)
(* file.  Event streams outlive the request that opened them and look at   *)
(* the setting again before every event.                                   *)
(*                                                                         *)
(* An expired session is as good as a removed one; a password is right or  *)
(* wrong, or not looked at after too many wrong ones.                      *)
(***************************************************************************)
EXTENDS FiniteSets

CONSTANTS
  Browser,  \* browsers; each has one cookie, one request and one stream
  Token,    \* bound: the session tokens there can be
  None      \* no token

ASSUME AuthAssumption == None \notin Token

VARIABLES
  core,      \* whether the Core process runs
  required,  \* the setting in its memory
  file,      \* the content of security.json
  tmp,       \* the content of security.json.tmp
  sessions,  \* the tokens of the sessions
  cookie,    \* the cookie of each browser
  call,      \* each browser's request about authentication
  stream,    \* each browser's event stream
  tangled    \* history: changes have overlapped, and none ran alone since

saved    == <<required, file, tmp, tangled>>
authVars == <<core, saved, sessions, cookie, call, stream>>

Setting == {"on", "off"}
Content == Setting \union {"absent", "broken"}
Want    == Setting \union {"log in", "log out"}
Saving  == {"write", "chmod", "rename", "apply"}

\* `on` is the place of the temporary file a change has open: a rename by
\* another change moves it, a second one or a removal unlinks it.
NoCall == [at |-> "idle", want |-> "off", token |-> None, on |-> "gone",
           alone |-> FALSE]

NoStream == [at |-> "closed", token |-> None]

\* What Core takes the file for when it starts: one that is there and cannot
\* be read or parsed requires authentication.
Loaded(content) == content \in {"on", "broken"}

AuthInit ==
  /\ core = TRUE
  /\ file \in {"absent", "on"} /\ tmp = "absent" /\ required = Loaded(file)
  /\ sessions = {} /\ cookie = [b \in Browser |-> None]
  /\ call = [b \in Browser |-> NoCall]
  /\ stream = [b \in Browser |-> NoStream]
  /\ tangled = FALSE

-----------------------------------------------------------------------------
(* Sessions.                                                               *)

\* The requests a session is asked of pass.
Passes(token) == required => token \in sessions

Used == sessions \union {cookie[b] : b \in Browser}
                 \union {call[b].token : b \in Browser}
                 \union {stream[b].token : b \in Browser}

CreateSession(b) ==
  \E t \in Token \ Used :
    /\ t = CHOOSE x \in Token \ Used : TRUE
    /\ sessions' = sessions \union {t}
    /\ cookie' = [cookie EXCEPT ![b] = t]

ClearSession(b) ==
  /\ sessions' = sessions \ {call[b].token}
  /\ cookie' = [cookie EXCEPT ![b] = None]

Expire(t) ==
  /\ t \in sessions /\ sessions' = sessions \ {t}
  /\ UNCHANGED <<core, saved, cookie, call, stream>>

-----------------------------------------------------------------------------
(* Requests.                                                               *)

Goes(b, at) == call' = [call EXCEPT ![b].at = at]
End(b)      == call' = [call EXCEPT ![b] = NoCall]

Ask(b, want) ==
  /\ core /\ call[b].at = "idle"
  /\ call' = [call EXCEPT ![b] = [NoCall EXCEPT !.at = "check", !.want = want,
                                                !.token = cookie[b]]]
  /\ UNCHANGED <<core, saved, sessions, cookie, stream>>

\* The setting can be turned on with the password, and off with a session
\* unless it is off.  A log-in needs the password, whatever the setting.
MayChange(b) ==
  CASE call[b].want = "on"  -> ~required
    [] call[b].want = "off" -> Passes(call[b].token)
    [] OTHER                -> FALSE

\* The checks: a change is begun, a log-in or -out goes on to the sessions,
\* or the request is refused, or answered with the setting it asks for.
Check(b) ==
  /\ call[b].at = "check"
  /\ \/ MayChange(b) /\ Goes(b, "open")
     \/ call[b].want \in {"log in", "log out"} /\ Goes(b, "session")
     \/ End(b)
  /\ UNCHANGED <<core, saved, sessions, cookie, stream>>

-----------------------------------------------------------------------------
(* Saving the setting.                                                     *)

Put(place, content) ==
  /\ tmp'  = IF place = "tmp"  THEN content ELSE tmp
  /\ file' = IF place = "file" THEN content ELSE file

MutScratch == "file"

Scratch == "tmp"

\* The temporary file is created, or another change's is truncated.
Open(b) ==
  LET others == {c \in Browser \ {b} : call[c].at \in Saving} IN
  /\ call[b].at = "open"
  /\ \/ End(b) /\ UNCHANGED saved
     \/ /\ Put(Scratch, "broken")
        /\ tangled' = (tangled \/ others # {})
        /\ call' = [c \in Browser |->
             CASE c = b -> [call[c] EXCEPT !.at = "write", !.on = Scratch,
                                           !.alone = others = {}]
               [] c \in others -> [call[c] EXCEPT !.alone = FALSE]
               [] OTHER -> call[c]]
        /\ UNCHANGED required
  /\ UNCHANGED <<core, sessions, cookie, stream>>

Write(b) ==
  /\ call[b].at = "write"
  /\ \/ Put(call[b].on, call[b].want) /\ Goes(b, "chmod")
     \/ Put(call[b].on, "broken") /\ End(b)
  /\ UNCHANGED <<core, required, tangled, sessions, cookie, stream>>

\* What the changes that have a file open have open once b has unlinked or
\* moved the temporary file and is at the given step.
Moved(b, at, where) ==
  [c \in Browser |->
     IF c = b THEN IF at = "idle" THEN NoCall ELSE [call[c] EXCEPT !.at = at]
     ELSE [call[c] EXCEPT !.on = IF @ = "tmp" THEN where
                                 ELSE IF where = "file" THEN "gone" ELSE @]]

\* chmod or rename fails: the temporary file is removed.
Discard(b) ==
  /\ tmp' = "absent" /\ call' = Moved(b, "idle", "gone")
  /\ UNCHANGED file

Chmod(b) ==
  /\ call[b].at = "chmod"
  /\ \/ tmp # "absent" /\ Goes(b, "rename") /\ UNCHANGED <<tmp, file>>
     \/ Discard(b)
  /\ UNCHANGED <<core, required, tangled, sessions, cookie, stream>>

Rename(b) ==
  /\ call[b].at = "rename"
  /\ \/ /\ tmp # "absent"
        /\ file' = tmp /\ tmp' = "absent" /\ call' = Moved(b, "apply", "file")
     \/ Discard(b)
  /\ UNCHANGED <<core, required, tangled, sessions, cookie, stream>>

\* Turning the setting off ends all sessions.
Apply(b) ==
  /\ call[b].at = "apply"
  /\ required' = (call[b].want = "on")
  /\ sessions' = IF call[b].want = "off" THEN {} ELSE sessions
  /\ tangled' = (tangled /\ ~call[b].alone)
  /\ Goes(b, "session")
  /\ UNCHANGED <<core, file, tmp, cookie, stream>>

\* The last step: a session for who turned the setting on or logged in.
Settle(b) ==
  /\ call[b].at = "session"
  /\ \/ call[b].want \in {"on", "log in"} /\ CreateSession(b)
     \/ call[b].want \in {"on", "log in"} /\ UNCHANGED <<sessions, cookie>>
     \/ call[b].want \in {"off", "log out"} /\ ClearSession(b)
  /\ End(b)
  /\ UNCHANGED <<core, saved, stream>>

Handle(b) ==
  \/ Check(b) \/ Open(b) \/ Write(b) \/ Chmod(b) \/ Rename(b) \/ Apply(b)
  \/ Settle(b)

-----------------------------------------------------------------------------
(* Event streams.                                                          *)

StreamGoes(b, at) ==
  /\ stream' = [stream EXCEPT ![b] = IF at = "closed" THEN NoStream
                                     ELSE [@ EXCEPT !.at = at]]
  /\ UNCHANGED <<core, saved, sessions, cookie, call>>

Connect(b) ==
  /\ core /\ stream[b].at = "closed" /\ Passes(cookie[b])
  /\ stream' = [stream EXCEPT ![b] = [at |-> "check", token |-> cookie[b]]]
  /\ UNCHANGED <<core, saved, sessions, cookie, call>>

MutMayGoOn(b) == TRUE

MayGoOn(b) == Passes(stream[b].token)

\* The cookie is that of the request that opened the stream.
CheckStream(b) ==
  /\ stream[b].at = "check"
  /\ StreamGoes(b, IF MayGoOn(b) THEN "send" ELSE "closed")

\* The event has been sent, or cannot be.
Send(b) ==
  /\ stream[b].at = "send"
  /\ StreamGoes(b, "wait") \/ StreamGoes(b, "closed")

NextEvent(b) == stream[b].at = "wait" /\ StreamGoes(b, "check")

Disconnect(b) == stream[b].at = "wait" /\ StreamGoes(b, "closed")

Stream(b) == CheckStream(b) \/ Send(b) \/ NextEvent(b)

-----------------------------------------------------------------------------
(* The process.                                                            *)

CoreStops ==
  /\ core /\ core' = FALSE
  /\ sessions' = {}
  /\ call' = [b \in Browser |-> NoCall]
  /\ stream' = [b \in Browser |-> NoStream]
  /\ UNCHANGED <<saved, cookie>>

CoreStarts ==
  /\ ~core /\ core' = TRUE
  /\ required' = Loaded(file)
  /\ UNCHANGED <<file, tmp, tangled, sessions, cookie, call, stream>>

AuthNext ==
  \/ \E b \in Browser :
       \/ \E want \in Want : Ask(b, want)
       \/ Handle(b) \/ Connect(b) \/ Stream(b) \/ Disconnect(b)
  \/ \E t \in Token : Expire(t)
  \/ CoreStops \/ CoreStarts

AuthSpec == AuthInit /\ [][AuthNext]_authVars

-----------------------------------------------------------------------------
(* Properties.                                                             *)

\* The shapes of the state; without Core there are no requests or streams.
AuthTypeOK ==
  /\ core \in BOOLEAN /\ required \in BOOLEAN /\ tangled \in BOOLEAN
  /\ file \in Content /\ tmp \in Content
  /\ sessions \subseteq Token
  /\ cookie \in [Browser -> Token \union {None}]
  /\ call \in [Browser ->
       [at : {"idle", "check", "open", "session"} \union Saving, want : Want,
        token : Token \union {None}, on : {"tmp", "file", "gone"},
        alone : BOOLEAN]]
  /\ stream \in [Browser -> [at : {"closed", "check", "send", "wait"},
                             token : Token \union {None}]]
  /\ ~core => /\ sessions = {}
              /\ \A b \in Browser : call[b] = NoCall /\ stream[b] = NoStream

\* Unless changes of the setting overlap, the one Core runs with is the one a
\* restart would bring, except in the moment between the rename and the
\* memory; at no moment would a restart find a file it cannot parse.  The
\* next change that is made alone mends what overlapping ones left.
SettingDurable ==
  ~tangled =>
    /\ file # "broken"
    /\ core /\ (\A b \in Browser : call[b].at # "apply") =>
         required = Loaded(file)

\* Turning authentication on closes the event streams without a session
\* (web.go: "enabling auth closes anonymous SSE streams"), as the end of a
\* session closes those it opened.
StreamsClose ==
  \A b \in Browser :
    core /\ required /\ stream[b].at # "closed" /\ stream[b].token \notin sessions
      ~> stream[b].at = "closed" \/ ~required
=============================================================================
