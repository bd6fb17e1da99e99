------------------------------ MODULE MCOpRuns ------------------------------
(* TLC instances of OpRuns. *)
EXTENDS OpRuns, TLC

Symmetry == Permutations(Conns) \cup Permutations(Runs) \cup Permutations(Items)

\* done is clamped to 0 and the stored total is kept.
SomeProgress == {<<-1, 1, -1>>}
NoProgress == {}

AllCalls == {"begin", "start", "progress", "complete", "fail", "failed_to_start",
             "cancel", "timeout", "retry", "item_add", "item_start", "item_complete",
             "item_fail", "item_cancel", "prune", "error", "crash"}
\* Runs end by being interrupted: what retries, item calls, prunes and opens race over.
RaceCalls == {"begin", "start", "retry", "item_add", "item_start", "item_complete",
              "prune", "crash"}

OneRetry == {1}
EdgeRetries == {-1, 1}
=============================================================================
