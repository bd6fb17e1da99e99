------------------------------ MODULE MCTasks -------------------------------
(***************************************************************************)
(* The stored records of tasks: TaskLineage under one manifest that may be *)
(* revoked, TaskLineage across the renewal of a manifest, and TaskState.   *)
(* A behaviour is of one of these scenarios; the records are independent.  *)
(***************************************************************************)
EXTENDS TaskLineage, TLC

CONSTANTS Specs, Entities, MaxSequence, MaxRevision

ASSUME TaskStateAssumption == MaxSequence \in Nat /\ MaxRevision \in Nat

VARIABLES scenario, row, revision, taskAt, taskReq, accepted, told

Task == INSTANCE TaskState WITH at <- taskAt, req <- taskReq

Q(class, cost, impact, permitted) ==
    [class |-> class, cost |-> cost, impact |-> impact, permitted |-> permitted]
Mixed == {Q("read", 1, 1, TRUE), Q("external_send", 1, 0, TRUE)}
Renewed == {Q("read", 1, 1, TRUE), Q("external_send", 1, 0, FALSE)}
AnyRequest == Mixed \cup Renewed
P(budget, impact, deny) == [budget |-> budget, impact |-> impact, deny |-> deny]
StrictThenOpen == <<P(2, 1, TRUE), P(1, 1, FALSE)>>

Symmetry == Permutations(Conns) \cup Permutations(Keys) \cup Permutations(Specs)

\* What the requests under way ask for.
Of(requests) == \A c \in Conns : at'[c] = "commit" => req'[c].what \in requests

lineageVars == vars
stateVars == <<row, revision, taskAt, taskReq, accepted, told>>

MCInit ==
    /\ scenario \in {"revoked", "renewed", "state"}
    /\ Init /\ Task!Init

MCNext ==
    /\ UNCHANGED scenario
    /\ \/ /\ scenario = "revoked"
          /\ Next /\ Of(Mixed) /\ manifests'[2] = "none"
          /\ UNCHANGED stateVars
       \/ /\ scenario = "renewed"
          /\ Next /\ Of(Renewed) /\ Len(transitions') <= 2
          /\ manifests'[2] # "revoked" /\ 2 \notin expired'
          /\ UNCHANGED stateVars
       \/ /\ scenario = "state"
          /\ Task!Next
          /\ UNCHANGED lineageVars

MCSpec == MCInit /\ [][MCNext]_<<scenario, lineageVars, stateVars>>

\* TaskState!ImplementsRegister: whatever requests race and whatever bases
\* they name, the stored states of a task are one chain, no state brings
\* another specification unless its request had read before the first state
\* was stored, and a client that is returned a state is the one that made it.
TaskStateImplementsRegister == Task!ImplementsRegister

\* TaskState!OneSpecification, which the code does not keep.
OneSpecification == Task!OneSpecification
=============================================================================
