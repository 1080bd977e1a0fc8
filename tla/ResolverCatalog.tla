-------------------------- MODULE ResolverCatalog --------------------------
(***************************************************************************)
(* What DNS Control promises its clients: a catalog of active and disabled *)
(* resolvers in which every request is one atomic edit that answers "ok",  *)
(* or no edit at all.  Only a request that could not undo itself, and says *)
(* so, may leave the sections it was writing in another state.             *)
(***************************************************************************)
CONSTANTS Entry, Id, IdOf, ProtoOf

VARIABLES
  active,    \* entries the router uses
  disabled,  \* entries kept for each disabled resolver
  outcome    \* the answer to the last request

catalog == <<active, disabled, outcome>>

Of(i)     == {e \in active : IdOf[e] = i}
Specs(i)  == {S \in SUBSET {e \in Entry : IdOf[e] = i} : S # {}}
Active(i) == Of(i) # {}
Parked(i) == disabled[i] # {}
Free(i)   == ~Active(i) /\ ~Parked(i)

Init ==
  /\ active \in SUBSET Entry
  /\ disabled = [i \in Id |-> {}]
  /\ outcome = "none"

Ask == outcome' = "none" /\ UNCHANGED <<active, disabled>>

Commit(a, d) == active' = a /\ disabled' = d /\ outcome' = "ok"

Create(i) ==
  /\ Free(i)
  /\ \E S \in Specs(i) : Commit(active \union S, disabled)

\* An edit may give the resolver another identity if nobody has that one.
Update(i, n) ==
  /\ n # i => Free(n)
  /\ \E S \in Specs(n) :
       \/ /\ Parked(i)
          /\ Commit(active, [disabled EXCEPT ![i] = {}, ![n] = S])
       \/ /\ Active(i) /\ ~Parked(i)
          /\ Commit((active \ Of(i)) \union S, disabled)

Delete(i) ==
  \/ Parked(i) /\ Commit(active, [disabled EXCEPT ![i] = {}])
  \/ Active(i) /\ ~Parked(i) /\ Commit(active \ Of(i), disabled)

Disable(i) ==
  /\ Active(i) /\ ~Parked(i)
  /\ Commit(active \ Of(i), [disabled EXCEPT ![i] = Of(i)])

Enable(i) ==
  /\ Parked(i) /\ ~Active(i)
  /\ Commit(active \union disabled[i], [disabled EXCEPT ![i] = {}])

\* The request answers with an error and has changed nothing.
Decline ==
  /\ outcome' \in {"refused", "failed", "rolledback"}
  /\ UNCHANGED <<active, disabled>>

\* The request admits that its rollback failed: at most the two sections of
\* the identities it named are in another state.
Tear(i, n) ==
  /\ outcome' = "rollbackFailed"
  /\ active' \in SUBSET Entry
  /\ LET others(S) == {e \in S : ProtoOf[IdOf[e]] \notin {ProtoOf[i], ProtoOf[n]}}
     IN others(active') = others(active)
  /\ UNCHANGED disabled

Next ==
  \/ Ask \/ Decline
  \/ \E i \in Id : Create(i) \/ Delete(i) \/ Disable(i) \/ Enable(i)
  \/ \E i, n \in Id : Update(i, n) \/ Tear(i, n)

Spec == Init /\ [][Next]_catalog
=============================================================================
