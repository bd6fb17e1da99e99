------------------------- MODULE MCEntityScenarios --------------------------
(***************************************************************************)
(* EntityVersions in two scenarios: one that retires versions under two    *)
(* clients and a clock that is set back, and one that forgets, purges and  *)
(* compacts in two workspaces with one call at a time.                     *)
(***************************************************************************)
EXTENDS MCEntityVersions

Either == Bounded \cup Shared

\* Without spans a repair changes nothing, and so it need not race.
Retiring == scenario = "retiring" /\ (\A d \in Clients : pc[d] # "called") /\ UNCHANGED scenario
Purging == scenario = "purging" /\ UNCHANGED scenario
Alone(c) == Purging /\ \A d \in Clients \ {c} : pc[d] = "idle"

RetiringStep(c) ==
    \/ Retiring /\ Remember(c) /\ job'[c].write \in Bounded
    \/ Retiring /\ Insert(c) /\ nextId = 1
    \/ scenario = "retiring" /\ Repair(c) /\ UNCHANGED scenario
    \/ Retiring /\ (Lookup(c) \/ Update(c) \/ GiveUp(c))
    \/ Retiring /\ Supersede(c)
    \/ Retiring /\ (Close(c) \/ Deprecate(c))
    \/ Retiring /\ PickLoser(c)
    \/ Retiring /\ InvalidateEntity(c)

PurgingStep(c) ==
    \/ Alone(c) /\ Remember(c) /\ job'[c].write \in Shared
    \/ Alone(c) /\ (Repair(c) \/ Lookup(c) \/ Insert(c) \/ Update(c) \/ GiveUp(c))
    \/ Alone(c) /\ Supersede(c)
    \/ Alone(c) /\ (Close(c) \/ Deprecate(c))
    \/ Alone(c) /\ Forget(c)
    \/ Alone(c) /\ PurgeScan(c)
    \/ Alone(c) /\ PurgeCommit(c)

MCInit == Init /\ scenario \in {"retiring", "purging"}
MCNext ==
    \/ Retiring /\ Tick
    \/ Purging /\ Tick /\ clock' > clock
    \/ \E c \in Clients : RetiringStep(c)
    \/ \E c \in Clients : PurgingStep(c)
    \/ \E p \in Policies : Purging /\ EnforceRetention(p)
MCSpec == MCInit /\ [][MCNext]_<<vars, scenario>>

\* The purge of archived rows: when calls come one at a time, every retired
\* version has a row of its fact left, so that no purge strands history.
NoOrphansAlone == scenario = "purging" => NoOrphans
=============================================================================
