--------------------------- MODULE ReleaseRegistry ---------------------------
(***************************************************************************)
(* What the scripts promise of the releases of data-agent instances,       *)
(* without uploads, keys and lists.  A release becomes available in one    *)
(* step and is withdrawn in one, once and for good.  The catalog of an     *)
(* instance has the releases with a manifest.  A release that the active   *)
(* manifest, one of the newest Keep of the catalog, or the Runtime refers  *)
(* to is not withdrawn, and a Runtime only ever runs what is available.    *)
(***************************************************************************)
EXTENDS Integers, FiniteSets

CONSTANTS Instances, MaxVersion, Keep

Versions == 1 .. MaxVersion

VARIABLES
  latest,     \* the last version that was given out
  available,  \* the releases a Runtime can run: artifact and configuration
  catalog,    \* the versions of each instance that have a manifest
  active,     \* the version of the active manifest; 0 is none
  runtime     \* what the Runtime's stack was told to run, and what it runs

vars == <<latest, available, catalog, active, runtime>>

Init ==
  /\ latest = 0
  /\ available = {}
  /\ catalog = [i \in Instances |-> {}]
  /\ active = [i \in Instances |-> 0]
  /\ runtime = [i \in Instances |-> [wanted |-> 0, running |-> 0]]

Begin ==
  /\ latest' = latest + 1
  /\ UNCHANGED <<available, catalog, active, runtime>>

\* Only the newest version of all can become available.
Provide(i) ==
  /\ available' = available \cup {<<i, latest>>}
  /\ \A r \in available : r[2] # latest
  /\ UNCHANGED <<latest, catalog, active, runtime>>

\* A manifest names what is available.
Catalogue(i) ==
  /\ <<i, latest>> \in available
  /\ catalog' = [catalog EXCEPT ![i] = @ \cup {latest}]
  /\ UNCHANGED <<latest, available, active, runtime>>

Activate(i) ==
  /\ latest \in catalog[i]
  /\ active' = [active EXCEPT ![i] = latest]
  /\ UNCHANGED <<latest, available, catalog, runtime>>

Want(i, v) ==
  /\ v <= active[i]
  /\ runtime' = [runtime EXCEPT ![i].wanted = v]
  /\ UNCHANGED <<latest, available, catalog, active>>

Run(i) ==
  /\ <<i, runtime[i].wanted>> \in available
  /\ runtime' = [runtime EXCEPT ![i].running = runtime[i].wanted]
  /\ UNCHANGED <<latest, available, catalog, active>>

\* A Runtime that never ran has nothing to go back to.
RollBack(i) ==
  /\ runtime[i].running # 0
  /\ runtime' = [runtime EXCEPT ![i].wanted = runtime[i].running]
  /\ UNCHANGED <<latest, available, catalog, active>>

Newest(i) == {v \in catalog[i] : Cardinality({w \in catalog[i] : w > v}) < Keep}

Withdraw(i, v) ==
  /\ v \notin Newest(i) \cup {active[i], runtime[i].wanted, runtime[i].running}
  /\ <<i, v>> \in available
  /\ available' = available \ {<<i, v>>}
  /\ UNCHANGED <<latest, catalog, active, runtime>>

\* A manifest goes after its release, unless that is referred to elsewhere.
Drop(i, v) ==
  /\ v \in catalog[i] \ Newest(i)
  /\ <<i, v>> \in available => v \in {active[i], runtime[i].wanted, runtime[i].running}
  /\ catalog' = [catalog EXCEPT ![i] = @ \ {v}]
  /\ UNCHANGED <<latest, available, active, runtime>>

Next ==
  \/ Begin
  \/ \E i \in Instances :
       \/ Provide(i) \/ Catalogue(i) \/ Activate(i) \/ Run(i) \/ RollBack(i)
       \/ \E v \in Versions : Want(i, v) \/ Withdraw(i, v) \/ Drop(i, v)

Spec == Init /\ [][Next]_vars
==============================================================================
