------------------------------- MODULE OpRuns -------------------------------
(***************************************************************************)
(* Durable operation states: the op_runs and op_run_items tables and the   *)
(* operations of src/src/op_runs.rs on them, called over pooled SQLite     *)
(* connections by the threads of one server and by other processes that    *)
(* share the database file.                                                *)
(*                                                                         *)
(* Every operation is a sequence of statements, each of them atomic, with  *)
(* no transaction around them except where the code opens one (retry's     *)
(* fork and prune's delete).  A connection in the middle of an operation   *)
(* keeps what it has read in req[c]; at[c] names the statement it executes *)
(* next.  Other connections run between any two statements.  A connection  *)
(* can crash, which loses req[c] and keeps what it has written, and a      *)
(* statement can fail (busy timeout, disk), which ends the operation.      *)
(*                                                                         *)
(* Abstracted: op_type, scope, labels, error text and the partial, timeout *)
(* and stale flags, which guard nothing; timestamps, except that a run may *)
(* be older than the retention period (aged).                              *)
(***************************************************************************)
EXTENDS Integers, FiniteSets

CONSTANTS
    Conns,          \* connections, each of a process of its own
    Runs,           \* the run identifiers uuid v4 will hand out
    Items,          \* item references
    NoRun, NoItem,  \* null values
    RetryArgs,      \* max_retries arguments of begin (any integers)
    ProgressArgs,   \* <<done, failed, total>> arguments of progress
    Calls           \* the operations the clients use, and the failures that occur

ASSUME ConstantsAssumption ==
    /\ NoRun \notin Runs /\ NoItem \notin Items
    /\ IsFiniteSet(Items)
    /\ RetryArgs \subseteq Int
    /\ ProgressArgs \subseteq Int \X Int \X Int
    /\ Calls \subseteq STRING

InFlight == {"queued", "running"}
Terminal == {"completed", "failed", "cancelled", "interrupted", "failed_to_start"}
RunState == InFlight \cup Terminal

VARIABLES
    run,    \* run[r]: the op_runs row; state "unused" before it is inserted,
            \* "pruned" once deleted (the other columns then stay as a trace)
    item,   \* item[r][i]: the op_run_items row (r, i); state "none" if there is none
    aged,   \* runs whose updated_at is older than the retention period
    at,     \* at[c]: the next statement of connection c
    req     \* req[c]: what the operation in progress on c has read or was given

vars == <<run, item, aged, at, req>>

Max0(n) == IF n > 0 THEN n ELSE 0

\* begin clamps max_retries to [0, 10].
RetryCap == 10
ClampRetries(n) == IF n > RetryCap THEN RetryCap ELSE Max0(n)

\* The columns of OpRun that a guard or a counter depends on.  digest stands for
\* (op_type, scope, input_digest), which a retry copies: it is the identity of the
\* work, named here after the run that first accepted it.
RunRow == [state: RunState \cup {"unused", "pruned"},
           total: Nat, done: Nat, failed: Nat, unattempted: Nat,
           retry: Nat, max: Nat, parent: Runs \cup {NoRun}, digest: Runs \cup {NoRun}]

NoRunRow == [state |-> "unused", total |-> 0, done |-> 0, failed |-> 0,
             unattempted |-> 0, retry |-> 0, max |-> 0,
             parent |-> NoRun, digest |-> NoRun]

\* A receipt_ref names the execution that produced it, here the run it happened in.
ItemState == {"none", "queued", "running", "completed", "failed", "cancelled", "interrupted"}
ItemRow == [state: ItemState, receipt: Runs \cup {NoRun}, retry: Nat]

NoItemRow == [state |-> "none", receipt |-> NoRun, retry |-> 0]

Exists(r) == run[r].state \in RunState
ItemExists(r, i) == item[r][i].state # "none"
Count(rows, S) == Cardinality({i \in Items : rows[i].state \in S})
Unfinished == {"queued", "running", "failed", "cancelled", "interrupted"}

\* What an operation carries from one statement to the next.
Request == [run: Runs \cup {NoRun}, item: Items \cup {NoItem}, to: ItemState,
            snap: RunRow, rows: [Items -> ItemRow], args: Int \X Int \X Int,
            ids: SUBSET Runs]

NoRequest == [run |-> NoRun, item |-> NoItem, to |-> "none", snap |-> NoRunRow,
              rows |-> [i \in Items |-> NoItemRow], args |-> <<0, 0, 0>>, ids |-> {}]

\* The columns of a run that progress and item_add, and the ones that retry, use
\* after the statement that read them.
Counters(r) == [NoRunRow EXCEPT !.total = run[r].total, !.done = run[r].done,
                                !.failed = run[r].failed]
Identity(r) == [NoRunRow EXCEPT !.retry = run[r].retry, !.max = run[r].max,
                                !.digest = run[r].digest]

RunSteps == {"start", "progress", "complete", "fail", "failed_to_start", "cancel", "timeout"}
AddSteps == {"item_insert", "item_counters"}
TouchSteps == {"touch_item", "touch_read", "touch_write"}
RetrySteps == {"retry_items", "retry_fork"}
RecoverSteps == {"recover_runs", "recover_items"}
Steps == RunSteps \cup AddSteps \cup TouchSteps \cup RetrySteps
           \cup RecoverSteps \cup {"prune_delete"}

Init ==
    /\ run = [r \in Runs |-> NoRunRow]
    /\ item = [r \in Runs |-> [i \in Items |-> NoItemRow]]
    /\ aged = {}
    /\ at = [c \in Conns |-> "closed"]
    /\ req = [c \in Conns |-> NoRequest]

-----------------------------------------------------------------------------
(* Statement plumbing.                                                     *)

\* The operation on c goes on with statement s, carrying q.
Goto(c, s, q) == /\ at' = [at EXCEPT ![c] = s]
                 /\ req' = [req EXCEPT ![c] = q]

\* The operation on c returns.
Return(c) == Goto(c, "idle", NoRequest)

\* UPDATE op_runs SET ..., updated_at = now WHERE id = r: no row, no effect.
UpdateRun(r, row) ==
    /\ run' = IF Exists(r) THEN [run EXCEPT ![r] = row] ELSE run
    /\ aged' = aged \ {r}

-----------------------------------------------------------------------------
(* Opening the database and restart recovery.                              *)

\* Database::open runs recover; its first statement lists the runs in flight and
\* returns early when there is none.
Open(c) ==
    /\ at[c] = "closed"
    /\ Goto(c, IF \E r \in Runs : run[r].state \in InFlight
               THEN "recover_runs" ELSE "idle", NoRequest)
    /\ UNCHANGED <<run, item, aged>>

\* Mutant: a run that was begun and not started is not recovered.
RecoverStartedRuns(c) ==
    /\ at[c] = "recover_runs"
    /\ run' = [r \in Runs |-> IF run[r].state = "running"
                              THEN [run[r] EXCEPT !.state = "interrupted"]
                              ELSE run[r]]
    /\ aged' = {r \in aged : run[r].state # "running"}
    /\ Goto(c, "recover_items", NoRequest)
    /\ UNCHANGED item

RecoverRuns(c) ==
    /\ at[c] = "recover_runs"
    /\ run' = [r \in Runs |-> IF run[r].state \in InFlight
                              THEN [run[r] EXCEPT !.state = "interrupted"]
                              ELSE run[r]]
    /\ aged' = {r \in aged : run[r].state \notin InFlight}
    /\ Goto(c, "recover_items", NoRequest)
    /\ UNCHANGED item

RecoverItems(c) ==
    /\ at[c] = "recover_items"
    /\ item' = [r \in Runs |-> [i \in Items |->
                  IF run[r].state = "interrupted" /\ item[r][i].state \in InFlight
                  THEN [item[r][i] EXCEPT !.state = "interrupted"]
                  ELSE item[r][i]]]
    /\ Return(c)
    /\ UNCHANGED <<run, aged>>

-----------------------------------------------------------------------------
(* Run operations: assert_state reads the row, a second statement writes   *)
(* it by id alone.                                                         *)

Begin(c, r, m) ==
    /\ at[c] = "idle"
    /\ run[r].state = "unused"
    /\ run' = [run EXCEPT ![r] = [NoRunRow EXCEPT !.state = "queued",
                                     !.max = ClampRetries(m), !.digest = r]]
    /\ UNCHANGED <<item, aged, at, req>>

\* assert_state followed by the operation op.
AssertState(c, r, allowed, op, args) ==
    /\ at[c] = "idle"
    /\ run[r].state \in allowed
    /\ Goto(c, op, [NoRequest EXCEPT !.run = r, !.args = args,
                       !.snap = IF op = "progress" THEN Counters(r) ELSE NoRunRow])
    /\ UNCHANGED <<run, item, aged>>

Start(c, r) == AssertState(c, r, {"queued"}, "start", <<0, 0, 0>>)
Progress(c, r, a) == AssertState(c, r, {"running"}, "progress", a)
\* Mutant: complete without the assert_state check.
CompleteUnchecked(c, r) == AssertState(c, r, RunState, "complete", <<0, 0, 0>>)
Complete(c, r) == AssertState(c, r, {"running"}, "complete", <<0, 0, 0>>)
Fail(c, r) == AssertState(c, r, {"running"}, "fail", <<0, 0, 0>>)
FailedToStart(c, r) == AssertState(c, r, {"queued"}, "failed_to_start", <<0, 0, 0>>)
Cancel(c, r) == AssertState(c, r, InFlight, "cancel", <<0, 0, 0>>)
Timeout(c, r) == AssertState(c, r, {"running"}, "timeout", <<0, 0, 0>>)

\* The row the second statement of run operation op writes over row.
Written(op, row, q) ==
    CASE op = "start" -> [row EXCEPT !.state = "running"]
      [] op = "progress" ->
           LET done == Max0(q.args[1])
               failed == Max0(q.args[2])
               total == IF q.args[3] >= 0 THEN q.args[3] ELSE q.snap.total
           IN [row EXCEPT !.done = done, !.failed = failed, !.total = total,
                          !.unattempted = Max0(total - done - failed)]
      [] op = "complete" -> [row EXCEPT !.state = "completed", !.unattempted = 0]
      [] op \in {"fail", "timeout"} -> [row EXCEPT !.state = "failed"]
      [] op = "failed_to_start" -> [row EXCEPT !.state = "failed_to_start"]
      [] op = "cancel" -> [row EXCEPT !.state = "cancelled"]

WriteRun(c) ==
    /\ at[c] \in RunSteps
    /\ LET r == req[c].run IN UpdateRun(r, Written(at[c], run[r], req[c]))
    /\ Return(c)
    /\ UNCHANGED item

-----------------------------------------------------------------------------
(* Item operations.                                                        *)

ItemAdd(c, r, i) ==
    /\ at[c] = "idle"
    /\ run[r].state = "running"
    /\ Goto(c, "item_insert", [NoRequest EXCEPT !.run = r, !.item = i, !.snap = Counters(r)])
    /\ UNCHANGED <<run, item, aged>>

\* INSERT: UNIQUE(run_id, item_ref) makes a second one fail.
InsertItem(c) ==
    /\ at[c] = "item_insert"
    /\ LET r == req[c].run
           i == req[c].item
       IN IF ItemExists(r, i)
          THEN Return(c) /\ UNCHANGED item
          ELSE /\ item' = [item EXCEPT ![r][i] = [NoItemRow EXCEPT !.state = "queued"]]
               /\ Goto(c, "item_counters", req[c])
    /\ UNCHANGED <<run, aged>>

\* The counters are computed from the row s that assert_state read.
Added(row, s) ==
    LET total == s.total + 1
    IN [row EXCEPT !.total = total, !.unattempted = Max0(total - s.done - s.failed)]

CountAdded(c) ==
    /\ at[c] = "item_counters"
    /\ LET r == req[c].run IN UpdateRun(r, Added(run[r], req[c].snap))
    /\ Return(c)
    /\ UNCHANGED item

\* assert_item_state looks at the item only, not at its run.
AssertItem(c, r, i, allowed, to) ==
    /\ at[c] = "idle"
    /\ item[r][i].state \in allowed
    /\ Goto(c, "touch_item", [NoRequest EXCEPT !.run = r, !.item = i, !.to = to])
    /\ UNCHANGED <<run, item, aged>>

ItemStart(c, r, i) == AssertItem(c, r, i, {"queued"}, "running")
ItemComplete(c, r, i) == AssertItem(c, r, i, {"running"}, "completed")
ItemFail(c, r, i) == AssertItem(c, r, i, {"running"}, "failed")
ItemCancel(c, r, i) == AssertItem(c, r, i, InFlight, "cancelled")

\* Mutant: touch_item keeps the receipt an item already has.
TouchItemKeepingReceipt(c) ==
    /\ at[c] = "touch_item"
    /\ LET r == req[c].run
           i == req[c].item
       IN item' = IF ItemExists(r, i)
                  THEN [item EXCEPT ![r][i] = [@ EXCEPT !.state = req[c].to,
                          !.receipt = IF req[c].to = "completed" THEN r ELSE @]]
                  ELSE item
    /\ Goto(c, "touch_read", req[c])
    /\ UNCHANGED <<run, aged>>

\* touch_item: write the item, read the counters, write the counters.
TouchItem(c) ==
    /\ at[c] = "touch_item"
    /\ LET r == req[c].run
           i == req[c].item
       IN item' = IF ItemExists(r, i)
                  THEN [item EXCEPT ![r][i] = [@ EXCEPT !.state = req[c].to,
                          !.receipt = IF req[c].to = "completed" THEN r ELSE NoRun]]
                  ELSE item
    /\ Goto(c, "touch_read", req[c])
    /\ UNCHANGED <<run, aged>>

\* Nothing to read when the run has been pruned: the operation fails.
TouchRead(c) ==
    /\ at[c] = "touch_read"
    /\ LET r == req[c].run
           done == Count(item[r], {"completed"})
           failed == Count(item[r], {"failed"})
       IN IF Exists(r)
          THEN Goto(c, "touch_write", [req[c] EXCEPT !.args = <<run[r].total, done, failed>>])
          ELSE Return(c)
    /\ UNCHANGED <<run, item, aged>>

TouchWrite(c) ==
    /\ at[c] = "touch_write"
    /\ LET r == req[c].run
           n == req[c].args
       IN UpdateRun(r, [run[r] EXCEPT !.done = n[2], !.failed = n[3],
                                      !.unattempted = Max0(n[1] - n[2] - n[3])])
    /\ Return(c)
    /\ UNCHANGED item

-----------------------------------------------------------------------------
(* Retry and retention.                                                    *)

\* Mutant: the bound is off by one.
RetryOnceTooOften(c, r) ==
    /\ at[c] = "idle"
    /\ run[r].state \in Terminal
    /\ run[r].retry <= run[r].max
    /\ Goto(c, "retry_items", [NoRequest EXCEPT !.run = r, !.snap = Identity(r)])
    /\ UNCHANGED <<run, item, aged>>

\* get_run and the two refusals that depend on it.
Retry(c, r) ==
    /\ at[c] = "idle"
    /\ run[r].state \in Terminal
    /\ run[r].retry < run[r].max
    /\ Goto(c, "retry_items", [NoRequest EXCEPT !.run = r, !.snap = Identity(r)])
    /\ UNCHANGED <<run, item, aged>>

\* list_items, and the refusal when every item is completed.
RetryItems(c) ==
    /\ at[c] = "retry_items"
    /\ LET rows == item[req[c].run]
       IN IF Count(rows, Unfinished) > 0
          THEN Goto(c, "retry_fork", [req[c] EXCEPT !.rows = rows])
          ELSE Return(c)
    /\ UNCHANGED <<run, item, aged>>

\* The transaction that inserts the child run and its items.  A requeued item is
\* counted both as failed and as unattempted.
RetryFork(c, child) ==
    /\ at[c] = "retry_fork"
    /\ run[child].state = "unused"
    /\ LET s == req[c].snap
           rows == req[c].rows
           done == Count(rows, {"completed"})
           left == Count(rows, Unfinished)
       IN /\ run' = [run EXCEPT ![child] =
                       [state |-> "queued", total |-> done + left, done |-> done,
                        failed |-> left, unattempted |-> left,
                        retry |-> s.retry + 1, max |-> ClampRetries(s.max),
                        parent |-> req[c].run, digest |-> s.digest]]
          /\ item' = [item EXCEPT ![child] = [i \in Items |->
                        CASE rows[i].state = "none" -> NoItemRow
                          [] rows[i].state = "completed" -> rows[i]
                          [] OTHER -> [state |-> "queued", receipt |-> NoRun,
                                       retry |-> rows[i].retry + 1]]]
    /\ Return(c)
    /\ UNCHANGED aged

\* Run r has not been updated for the retention period, which is a day or more.  A
\* request that found r in flight before its last update does not last that long,
\* so none is pending; a touch or a retry of r may be.
Age(r) ==
    /\ Exists(r)
    /\ r \notin aged
    /\ \A c \in Conns : /\ at[c] \notin RecoverSteps
                        /\ req[c].run = r => at[c] \in TouchSteps \cup RetrySteps
    /\ aged' = aged \cup {r}
    /\ UNCHANGED <<run, item, at, req>>

\* Mutant: prune selects by age alone.
PrunableByAge == {r \in aged : Exists(r)}

Prunable == {r \in aged : run[r].state \in Terminal}

Prune(c) ==
    /\ at[c] = "idle"
    /\ Prunable # {}
    /\ Goto(c, "prune_delete", [NoRequest EXCEPT !.ids = Prunable])
    /\ UNCHANGED <<run, item, aged>>

\* Mutant: the items are left to a foreign key that the schema does not have.
PruneRunsOnly(c) ==
    /\ at[c] = "prune_delete"
    /\ LET ids == req[c].ids
       IN /\ run' = [r \in Runs |-> IF r \in ids THEN [run[r] EXCEPT !.state = "pruned"]
                                    ELSE run[r]]
          /\ aged' = aged \ ids
    /\ Return(c)
    /\ UNCHANGED item

\* The transaction that deletes the selected runs and their items by id.
PruneDelete(c) ==
    /\ at[c] = "prune_delete"
    /\ LET ids == req[c].ids
       IN /\ run' = [r \in Runs |-> IF r \in ids THEN [run[r] EXCEPT !.state = "pruned"]
                                    ELSE run[r]]
          /\ item' = [r \in Runs |-> IF r \in ids THEN [i \in Items |-> NoItemRow]
                                     ELSE item[r]]
          /\ aged' = aged \ ids
    /\ Return(c)

-----------------------------------------------------------------------------
(* Failures.                                                               *)

\* A statement fails: the operation returns an error and what it has committed
\* stays.  A failed recovery does not prevent the open.
StatementError(c) ==
    /\ at[c] \in Steps
    /\ Return(c)
    /\ UNCHANGED <<run, item, aged>>

\* The process dies.
Crash(c) ==
    /\ at[c] # "closed"
    /\ Goto(c, "closed", NoRequest)
    /\ UNCHANGED <<run, item, aged>>

-----------------------------------------------------------------------------
RunCall(c) ==
    \E r \in Runs :
      \/ "begin" \in Calls /\ \E m \in RetryArgs : Begin(c, r, m)
      \/ "start" \in Calls /\ Start(c, r)
      \/ "progress" \in Calls /\ \E a \in ProgressArgs : Progress(c, r, a)
      \/ "complete" \in Calls /\ Complete(c, r)
      \/ "fail" \in Calls /\ Fail(c, r)
      \/ "failed_to_start" \in Calls /\ FailedToStart(c, r)
      \/ "cancel" \in Calls /\ Cancel(c, r)
      \/ "timeout" \in Calls /\ Timeout(c, r)
      \/ "retry" \in Calls /\ Retry(c, r)

ItemCall(c) ==
    \E r \in Runs, i \in Items :
      \/ "item_add" \in Calls /\ ItemAdd(c, r, i)
      \/ "item_start" \in Calls /\ ItemStart(c, r, i)
      \/ "item_complete" \in Calls /\ ItemComplete(c, r, i)
      \/ "item_fail" \in Calls /\ ItemFail(c, r, i)
      \/ "item_cancel" \in Calls /\ ItemCancel(c, r, i)

Statement(c) ==
    \/ WriteRun(c)
    \/ InsertItem(c) \/ CountAdded(c)
    \/ TouchItem(c) \/ TouchRead(c) \/ TouchWrite(c)
    \/ RetryItems(c) \/ \E child \in Runs : RetryFork(c, child)
    \/ PruneDelete(c)
    \/ RecoverRuns(c) \/ RecoverItems(c)

Next ==
    \/ \E c \in Conns :
         \/ Open(c) \/ RunCall(c) \/ ItemCall(c) \/ Statement(c)
         \/ "prune" \in Calls /\ Prune(c)
         \/ "error" \in Calls /\ StatementError(c)
         \/ "crash" \in Calls /\ Crash(c)
    \/ "prune" \in Calls /\ \E r \in Runs : Age(r)

Spec == Init /\ [][Next]_vars

-----------------------------------------------------------------------------
(* Properties of every use of the tables, however connections interleave.  *)

TypeOK ==
    /\ run \in [Runs -> RunRow]
    /\ item \in [Runs -> [Items -> ItemRow]]
    /\ aged \in SUBSET Runs
    /\ at \in [Conns -> Steps \cup {"idle", "closed"}]
    /\ req \in [Conns -> Request]

\* Retries are bounded along every chain: a run holds no more retries than its
\* limit, the limit and the identity of the work come from its parent, and its
\* retry count is one more than its parent's, even after the parent is pruned
\* and however many connections fork at once (retry).
RetryChainsBounded ==
    \A r \in Runs :
      run[r].state # "unused" =>
        /\ run[r].retry <= run[r].max /\ run[r].max <= RetryCap
        /\ run[r].parent = NoRun => run[r].retry = 0 /\ run[r].digest = r
        /\ run[r].parent # NoRun =>
             LET p == run[run[r].parent]
             IN /\ p.state # "unused"
                /\ run[r].retry = p.retry + 1
                /\ run[r].max = p.max /\ run[r].digest = p.digest

\* A receipt is never attributed to foreign work: the receipt of a completed item
\* was produced in this run or in an earlier run of the same retry chain (retry
\* carries completed receipts, item_complete writes its own).
ReceiptsInLineage ==
    \A r \in Runs, i \in Items :
      LET s == item[r][i].receipt
      IN s # NoRun => /\ item[r][i].state = "completed"
                      /\ run[s].digest = run[r].digest
                      /\ run[s].retry <= run[r].retry

\* No item row outlives its run or precedes it, whatever prune, retry and item_add
\* do in between (there is no foreign key on op_run_items).
NoOrphanItems ==
    \A r \in Runs, i \in Items : ItemExists(r, i) => Exists(r)

\* Prune deletes a run only while it is terminal, although it selects the runs in
\* one statement and deletes them by id in another.
PrunesOnlyTerminal ==
    [][\A r \in Runs : run'[r].state = "pruned" /\ run[r].state # "pruned"
                          => run[r].state \in Terminal]_vars

-----------------------------------------------------------------------------
(* The contract of docs/specs/durable-op-states.md.                        *)

\* The life cycle of a run: what the tables promise of the state column.
Lifecycle == INSTANCE RunLifecycle WITH state <- [r \in Runs |-> run[r].state]
ImplementsLifecycle == Lifecycle!Spec

-----------------------------------------------------------------------------
(* Claims of the repository that the code does not keep: README.md gives   *)
(* for each an instance in which TLC refutes it.                           *)

\* "Terminal states accept no further transitions."
TerminalIsFinal ==
    [][\A r \in Runs : run[r].state \in Terminal
                          => run'[r].state \in {run[r].state, "pruned"}]_vars

\* Restart recovery: once the database is open again, an interrupted run has no
\* item left in flight.
InterruptedItemsSettled ==
    (\A c \in Conns : at[c] = "idle") =>
      \A r \in Runs, i \in Items :
        run[r].state = "interrupted" => item[r][i].state \notin InFlight

\* A completed item is never executed again in its retry chain: two runs for the
\* same work never hold different receipts for the same item.
OneReceiptPerItem ==
    \A r, s \in Runs, i \in Items :
      /\ run[r].digest = run[s].digest
      /\ item[r][i].state = "completed" /\ item[s][i].state = "completed"
      => item[r][i].receipt = item[s][i].receipt

\* touch_item keeps "run-level counters in sync after every item transition": when it
\* returns, done and failed are the numbers of completed and failed items.
Synced ==
    \A c \in Conns :
      LET r == req[c].run
      IN at[c] = "touch_write" /\ at'[c] = "idle" /\ Exists(r) /\ run'[r] # run[r]
         => /\ run'[r].done = Count(item'[r], {"completed"})
            /\ run'[r].failed = Count(item'[r], {"failed"})
CountersInSync == [][Synced]_vars
=============================================================================
