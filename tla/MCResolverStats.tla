--------------------------- MODULE MCResolverStats ---------------------------
(***************************************************************************)
(* Small instances of ResolverStats.  The limits keep the order they have  *)
(* in the code.  A behaviour of one of AllScenarios has either two         *)
(* resolvers, fallbacks and lost packets; or resolvers that come and go;   *)
(* or health checks; or a time longer than the history.                    *)
(***************************************************************************)
EXTENDS ResolverStats

CONSTANTS fast, slow, x

Basic == [ports |-> {fast}, tags |-> {x}, loss |-> FALSE, churn |-> FALSE, probes |-> FALSE,
          diagnoses |-> FALSE, breaks |-> 0, time |-> 7, queries |-> 2, replies |-> 1,
          clients |-> 0, answers |-> 1]

AllScenarios ==
  {[Basic EXCEPT !.ports = {fast, slow}, !.loss = TRUE, !.time = 5, !.replies = 2],
   [Basic EXCEPT !.ports = {fast, slow}, !.churn = TRUE, !.time = 3],
   [Basic EXCEPT !.churn = TRUE, !.probes = TRUE, !.queries = 1, !.time = 6],
   [Basic EXCEPT !.time = 12],
   [Basic EXCEPT !.ports = {slow}, !.probes = TRUE, !.diagnoses = TRUE,
                 !.breaks = 1, !.time = 8, !.queries = 0]}

MCRouteOf == [p \in Port |-> IF p = slow THEN "own" ELSE "default"]

MCStepOf == [m \in 1..Buckets |-> IF m > 3 THEN 2 ELSE 1]

LateScenario == {[Basic EXCEPT !.replies = 2]}
=============================================================================
