---------------------------- MODULE RunLifecycle ----------------------------
(***************************************************************************)
(* What docs/specs/durable-op-states.md promises of the state of a run:    *)
(*                                                                         *)
(*   queued -> running -> completed | failed | cancelled | interrupted     *)
(*   queued -> cancelled | interrupted | failed_to_start                   *)
(*                                                                         *)
(* and nothing after a terminal state except the retention prune.  A       *)
(* restart interrupts every run in flight at once, a prune deletes a set   *)
(* of terminal runs at once.                                               *)
(***************************************************************************)
CONSTANT Runs
VARIABLE state

Final == {"completed", "failed", "cancelled", "interrupted", "failed_to_start"}

\* The states one operation on one run may lead to.
Successors(s) ==
    CASE s = "unused" -> {"queued"}
      [] s = "queued" -> {"running", "cancelled", "failed_to_start"}
      [] s = "running" -> {"completed", "failed", "cancelled"}
      [] OTHER -> {}

Init == state = [r \in Runs |-> "unused"]

Move(r) == \E s \in Successors(state[r]) : state' = [state EXCEPT ![r] = s]

Restart == state' = [r \in Runs |-> IF state[r] \in {"queued", "running"}
                                    THEN "interrupted" ELSE state[r]]

Prune == \E S \in SUBSET {r \in Runs : state[r] \in Final} :
           state' = [r \in Runs |-> IF r \in S THEN "pruned" ELSE state[r]]

Next == (\E r \in Runs : Move(r)) \/ Restart \/ Prune

Spec == Init /\ [][Next]_state
=============================================================================
