------------------------------- MODULE MCJobs --------------------------------
(***************************************************************************)
(* Background jobs, one part per behaviour: the runs they record           *)
(* (TrackedRuns) and the slot they execute in (Maintenance).               *)
(***************************************************************************)
EXTENDS TrackedRuns, TLC

CONSTANTS i1, t1, t2, Threads, NoThread, Processes, Home, Attempts, MaxCalls, MaxStops

VARIABLES scenario, shut, slow, slot, poisoned, holder, flag, duty, calls, stops

NoArgs == {}
NoCalls == {}       \* the job makes the calls, no other client does
OneError == <<i1>>

Together == [t \in Threads |-> 1]
Apart == t1 :> 1 @@ t2 :> 2

Slot == INSTANCE Maintenance
slotVars == <<shut, slow, slot, poisoned, holder, flag, duty, calls, stops>>

MCInit ==
    /\ scenario \in {"tracked", "slot"}
    /\ TrackedInit /\ Slot!Init
    /\ scenario = "tracked" => ~shut /\ ~slow

MCNext ==
    /\ UNCHANGED scenario
    /\ \/ scenario = "tracked" /\ TrackedNext /\ UNCHANGED slotVars
       \/ scenario = "slot" /\ Slot!Next /\ UNCHANGED trackedVars

MCSpec == MCInit /\ [][MCNext]_<<scenario, trackedVars, slotVars>> /\ TrackedFairness

\* Maintenance!HolderHonest: the operation that the status names has the slot.
HolderHonest == Slot!HolderHonest

\* Maintenance!PausesReported: a paused run's stamped report says so.
PausesReported == Slot!PausesReported
=============================================================================
