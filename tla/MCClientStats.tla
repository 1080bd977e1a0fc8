---------------------------- MODULE MCClientStats ----------------------------
(***************************************************************************)
(* Small instances of ClientStats: those of ResolverStats without clients, *)
(* two clients' queries with one to a resolver while a device changes its  *)
(* address and policy, and one client's query with a fallback.             *)
(***************************************************************************)
EXTENDS ClientStats, MCResolverStats

CONSTANTS y, ann, bob

MCIp    == {"ip1", "ip2"}
MCMac   == {ann, bob}
MCHosts == {[ip |-> "ip1", mac |-> ann, id |-> x], [ip |-> "ip2", mac |-> bob, id |-> y]}

\* The router still takes the first address for bob's, of another policy.
MCRegistries == {<<>>, [a \in {"ip1"} |-> [mac |-> bob, policy |-> "other"]]}

ClientScenarios ==
  {[Basic EXCEPT !.time = 3, !.queries = 1, !.replies = 0, !.clients = 2],
   [Basic EXCEPT !.churn = TRUE, !.time = 4, !.queries = 1, !.replies = 0, !.clients = 1],
   [Basic EXCEPT !.churn = TRUE, !.time = 4, !.queries = 0, !.clients = 2],
   [Basic EXCEPT !.ports = {fast, slow}, !.time = 3, !.clients = 1, !.answers = 0]}

EveryScenario == AllScenarios \union ClientScenarios
=============================================================================
