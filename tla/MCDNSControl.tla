---------------------------- MODULE MCDNSControl ----------------------------
(***************************************************************************)
(* Small instances of DNSControl.  Resolver t has two entries (two         *)
(* domains), u and h one: t and u are DoT, so a section can hold a         *)
(* neighbour of the resolver that is edited and can exceed SlotLimit; d    *)
(* and p are plain; h is DoH.                                              *)
(***************************************************************************)
EXTENDS DNSControl, TLC

CONSTANTS t, u, h, d, p, t1, t2, u1, h1, d1, p1

MCProtoOf ==
  [i \in Id |-> CASE i \in {t, u} -> "DoT" [] i = h -> "DoH" [] OTHER -> "DNS"]

MCIdOf ==
  [e \in Entry |-> CASE e \in {t1, t2} -> t [] e = u1 -> u [] e = h1 -> h
                     [] e = d1 -> d [] OTHER -> p]

Fair(S) == [entries |-> S, faults |-> TRUE, drops |-> FALSE, disconnects |-> TRUE,
            admin |-> FALSE, crashes |-> FALSE, reboots |-> FALSE]

\* Calls that fail or are dropped; every secure neighbour.
Unreliable == {[Fair({t1, t2, u1, d1}) EXCEPT !.drops = TRUE]}

\* What else happens to the router and to the module meanwhile.
Outside ==
  {[Fair({t1, t2, d1}) EXCEPT !.crashes = TRUE, !.reboots = TRUE],
   [Fair({t1, h1}) EXCEPT !.drops = TRUE, !.crashes = TRUE, !.reboots = TRUE],
   [Fair({t1, d1, p1}) EXCEPT !.disconnects = FALSE, !.admin = TRUE]}

\* Nothing fails but the client, or another administrator interferes.
HangUp    == {[Fair({t1, u1}) EXCEPT !.faults = FALSE]}
Overwrite == {[Fair({t1, u1}) EXCEPT !.faults = FALSE, !.disconnects = FALSE,
                                     !.admin = TRUE]}
=============================================================================
