-------------------------- MODULE MCPackageActions --------------------------
(***************************************************************************)
(* A small instance of PackageActions: Core, Profiling, whose scripts      *)
(* restart Core, Thermal, whose scripts do not, and nfqws2, whose plans    *)
(* are those of its approved manifest.                                     *)
(***************************************************************************)
EXTENDS PackageActions

CONSTANTS profiling, thermal, nfqws, legacy, ssl, nossl

StepOn(op, p) == [op |-> op, pkg |-> p, must |-> TRUE]

Plans ==
  [i \in {Core, profiling, thermal, nfqws} |->
    CASE i = Core -> [install |-> <<>>, update |-> <<StepOn("ipk", i)>>, remove |-> <<>>]
      [] i \in {profiling, thermal} -> [install |-> <<StepOn("ipk", i)>>,
                                      update  |-> <<StepOn("ipk", i)>>,
                                      remove  |-> <<StepOn("remove", i)>>]
      [] i = nfqws ->
           [install |-> <<StepOn("lists", i), StepOn("install", ssl),
                          [op |-> "remove", pkg |-> nossl, must |-> FALSE],
                          StepOn("feed", i), StepOn("lists", i), StepOn("install", i)>>,
            update  |-> <<StepOn("lists", i), StepOn("upgrade", i)>>,
            remove  |-> <<StepOn("remove", i)>>]]

Conflicting == [i \in {Core, profiling, thermal, nfqws} |->
                   IF i = nfqws THEN {legacy} ELSE {}]

AllScenarios ==
  {[items |-> {Core, profiling}, hand |-> {}, news |-> {}, installed |-> {}],
   [items |-> {thermal}, hand |-> {thermal}, news |-> {thermal}, installed |-> {thermal}],
   [items |-> {nfqws}, hand |-> {}, news |-> {}, installed |-> {nossl}],
   [items |-> {nfqws}, hand |-> {legacy}, news |-> {}, installed |-> {nfqws, ssl}]}

Swapped == {[old |-> nossl, new |-> ssl]}
=============================================================================
