---------------------------- MODULE MCMonitoring ----------------------------
(***************************************************************************)
(* Monitoring, with all it is composed with, for TLC: one scenario for     *)
(* each question, so that what has nothing to do with it stands still.     *)
(***************************************************************************)
EXTENDS Monitoring

CONSTANTS alice, bob

Browsers == {alice, bob}

Still ==
  [asks |-> {}, streams |-> {}, ends |-> FALSE, stops |-> FALSE, verbs |-> {},
   waits |-> FALSE, page |-> FALSE, hand |-> FALSE, old |-> "none",
   installed |-> TRUE, collects |-> {}]

Cases ==
  \* Two browsers change the setting while Core may stop.
  {[Still EXCEPT !.asks = Browsers \X Setting, !.stops = TRUE],
  \* One changes the setting, the other logs in and out and reads events.
   [Still EXCEPT !.asks = {<<alice, "on">>, <<alice, "off">>, <<bob, "log in">>,
                           <<bob, "log out">>},
                 !.streams = {bob}, !.ends = TRUE, !.stops = TRUE],
  \* A page while DNS is stopped, started, updated and removed, and while a
  \* monitoring module is installed.
   [Still EXCEPT !.page = TRUE, !.hand = TRUE, !.waits = TRUE, !.old = "stale",
                 !.verbs = {"upgrade", "remove", "install"}],
   [Still EXCEPT !.page = TRUE, !.hand = TRUE, !.installed = FALSE,
                 !.verbs = {"upgrade", "install"}],
  \* The same, with sessions that begin and end, and restarts of Core.
   [Still EXCEPT !.page = TRUE, !.waits = TRUE, !.stops = TRUE, !.ends = TRUE,
                 !.asks = {<<alice, "log in">>}, !.verbs = {"upgrade"}],
  \* What the module collects while it is stopped and started.
   [Still EXCEPT !.hand = TRUE, !.collects = {"sensors"}],
   [Still EXCEPT !.hand = TRUE, !.collects = {"list"}],
   [Still EXCEPT !.hand = TRUE, !.collects = {"rates"}],
   [Still EXCEPT !.hand = TRUE, !.collects = {"cpu"}]}
=============================================================================
