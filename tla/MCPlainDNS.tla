----------------------------- MODULE MCPlainDNS -----------------------------
(***************************************************************************)
(* Small instances of PlainDNS.  In one of AllScenarios two local ports    *)
(* and clients share a resolver; in the other frames are lost and captured *)
(* twice and two resolvers come and go.                                    *)
(***************************************************************************)
EXTENDS PlainDNS

CONSTANTS r, s, l1, l2

Shared == [resolvers |-> {r}, locals |-> {l1, l2}, twice |-> FALSE,
           loss |-> FALSE, churn |-> FALSE, time |-> 4, queries |-> 3,
           replies |-> 1]

AllScenarios ==
  {Shared,
   [resolvers |-> {r, s}, locals |-> {l1}, twice |-> TRUE, loss |-> TRUE,
    churn |-> TRUE, time |-> 3, queries |-> 2, replies |-> 2]}

TwiceScenario == {[Shared EXCEPT !.twice = TRUE]}
=============================================================================
