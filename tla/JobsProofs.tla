----------------------------- MODULE JobsProofs -----------------------------
(***************************************************************************)
(* Proofs about background jobs.  OpRuns, for any number of connections,   *)
(* runs and items, and with one connection its life cycle and counters;    *)
(* Maintenance, for any number of threads and processes.                   *)
(***************************************************************************)
EXTENDS MCJobs, FiniteSetTheorems, TLAPS

-----------------------------------------------------------------------------
(* Facts about the operators.                                              *)

\* A count clamped at zero is a natural number.
LEMMA Max0Type == ASSUME NEW n \in Int PROVE Max0(n) \in Nat
BY DEF Max0

\* begin clamps the retries to 0 .. RetryCap.
LEMMA ClampType == ASSUME NEW n \in Int PROVE ClampRetries(n) \in 0..RetryCap
BY DEF ClampRetries, Max0, RetryCap

\* A limit that begin has clamped is not changed by the clamp of a retry.
LEMMA ClampIdempotent == ASSUME NEW n \in 0..RetryCap PROVE ClampRetries(n) = n
BY DEF ClampRetries, Max0, RetryCap

\* The COUNT(*) subqueries are bounded by the number of items.
LEMMA CountType ==
    ASSUME NEW rows, NEW S PROVE Count(rows, S) \in Nat
<1>1. {i \in Items : rows[i].state \in S} \subseteq Items
  OBVIOUS
<1>2. IsFiniteSet({i \in Items : rows[i].state \in S})
  BY <1>1, ConstantsAssumption, FS_Subset
<1> QED  BY <1>2, FS_CardinalityType DEF Count

\* The absent rows and the empty request are well typed.
LEMMA NullTypes ==
    /\ NoRunRow \in RunRow
    /\ NoItemRow \in ItemRow
    /\ NoRequest \in Request
<1>1. NoRunRow \in RunRow
  BY DEF NoRunRow, RunRow
<1>2. NoItemRow \in ItemRow
  BY DEF NoItemRow, ItemRow, ItemState
<1> QED  BY <1>1, <1>2 DEF NoRequest, Request, ItemState

-----------------------------------------------------------------------------
(* Type correctness.                                                       *)

\* Every guarded UPDATE of a run writes a well-typed row.
LEMMA WrittenType ==
    ASSUME NEW op \in RunSteps, NEW row \in RunRow, NEW q \in Request
    PROVE  Written(op, row, q) \in RunRow
<1>1. CASE op = "progress"
  <2> DEFINE done == Max0(q.args[1])
             failed == Max0(q.args[2])
             total == IF q.args[3] >= 0 THEN q.args[3] ELSE q.snap.total
  <2>1. q.args[1] \in Int /\ q.args[2] \in Int /\ q.args[3] \in Int /\ q.snap.total \in Nat
    BY DEF Request, RunRow
  <2>2. done \in Nat /\ failed \in Nat /\ total \in Nat
    BY <2>1, Max0Type
  <2>3. Max0(total - done - failed) \in Nat
    BY <2>2, Max0Type
  <2>4. Written(op, row, q) = [row EXCEPT !.done = done, !.failed = failed, !.total = total,
                                          !.unattempted = Max0(total - done - failed)]
    BY <1>1 DEF Written
  <2> HIDE DEF done, failed, total
  <2> QED  BY <2>2, <2>3, <2>4 DEF RunRow
<1>2. CASE op # "progress"
  BY <1>2 DEF Written, RunRow, RunSteps, RunState, InFlight, Terminal
<1> QED  BY <1>1, <1>2

\* A request that moves on stays well typed.
LEMMA GotoType ==
    ASSUME TypeOK, NEW c \in Conns, NEW s \in Steps \cup {"idle", "closed"},
           NEW q \in Request, Goto(c, s, q)
    PROVE  /\ at' \in [Conns -> Steps \cup {"idle", "closed"}]
           /\ req' \in [Conns -> Request]
BY DEF TypeOK, Goto

\* A call that ends leaves a well-typed connection.
LEMMA ReturnType ==
    ASSUME TypeOK, NEW c \in Conns, Return(c)
    PROVE  /\ at' \in [Conns -> Steps \cup {"idle", "closed"}]
           /\ req' \in [Conns -> Request]
BY GotoType, NullTypes DEF Return

\* An update of one run row keeps the table well typed.
LEMMA UpdateRunType ==
    ASSUME TypeOK, NEW r \in Runs \cup {NoRun}, NEW row, r \in Runs => row \in RunRow,
           UpdateRun(r, row)
    PROVE  run' \in [Runs -> RunRow] /\ aged' \in SUBSET Runs
BY DEF TypeOK, UpdateRun

-----------------------------------------------------------------------------
(* The inductive invariant.                                                *)

\* Run r has been accepted, by begin or by a fork.
Known(r) == run[r].state # "unused"

\* The receipt of an item row of run r was produced in r's retry chain, no later
\* than r.
ReceiptOK(r, row) ==
    row.receipt # NoRun =>
      /\ row.state = "completed"
      /\ Known(row.receipt)
      /\ run[row.receipt].digest = run[r].digest
      /\ run[row.receipt].retry <= run[r].retry

ReceiptsOK == \A r \in Runs, i \in Items : ReceiptOK(r, item[r][i])

\* Connection c has found run r in flight and is about to write it.
Writing(c, r) == req[c].run = r /\ at[c] \in RunSteps \cup AddSteps

\* What the operation in progress on c has read still holds where it matters.
PendingOK(c) ==
    /\ at[c] \in RunSteps \cup AddSteps =>
         req[c].run \in Runs /\ Exists(req[c].run)
    /\ at[c] \in TouchSteps \cup RetrySteps =>
         req[c].run \in Runs /\ Known(req[c].run)
    /\ at[c] \in AddSteps \cup TouchSteps => req[c].item \in Items
    /\ at[c] \in TouchSteps => req[c].to # "none"
    /\ at[c] = "touch_write" => req[c].args \in Nat \X Nat \X Nat
    /\ at[c] \in RetrySteps =>
         /\ req[c].snap.retry = run[req[c].run].retry
         /\ req[c].snap.max = run[req[c].run].max
         /\ req[c].snap.digest = run[req[c].run].digest
         /\ req[c].snap.retry < req[c].snap.max
    /\ at[c] = "retry_fork" => \A i \in Items : ReceiptOK(req[c].run, req[c].rows[i])

\* A run that prune may select, or has selected, is terminal or gone and nobody is
\* about to write its state.
Settled(r) ==
    /\ run[r].state \in Terminal \cup {"pruned"}
    /\ \A c \in Conns : ~Writing(c, r)

PruneOK ==
    /\ \A r \in Prunable : Settled(r)
    /\ \A c \in Conns : at[c] = "prune_delete" => \A r \in req[c].ids : Settled(r)

IInv ==
    /\ TypeOK
    /\ RetryChainsBounded
    /\ ReceiptsOK
    /\ NoOrphanItems
    /\ \A c \in Conns : PendingOK(c)
    /\ PruneOK

-----------------------------------------------------------------------------
(* Frame lemmas: what survives a step that keeps the identity of runs.     *)

\* No run is forgotten, and its retry count, limit, parent and digest are final.
Stable ==
    \A r \in Runs : Known(r) =>
      /\ run'[r].state # "unused"
      /\ run'[r].retry = run[r].retry /\ run'[r].max = run[r].max
      /\ run'[r].parent = run[r].parent /\ run'[r].digest = run[r].digest

\* A receipt that points into its lineage still does after a step that keeps the lineages.
LEMMA StableReceipt ==
    ASSUME Stable, NEW r \in Runs, Known(r), NEW row \in ItemRow, ReceiptOK(r, row)
    PROVE  ReceiptOK(r, row)'
BY ConstantsAssumption DEF Stable, ReceiptOK, Known, ItemRow

\* Steps that keep the lineages and the items keep the receipts.
LEMMA StableReceipts ==
    ASSUME IInv, Stable, UNCHANGED item
    PROVE  ReceiptsOK'
<1> SUFFICES ASSUME NEW r \in Runs, NEW i \in Items
             PROVE  ReceiptOK(r, item[r][i])'
  BY DEF ReceiptsOK
<1>1. item[r][i] \in ItemRow /\ ReceiptOK(r, item[r][i]) /\ item'[r][i] = item[r][i]
  BY DEF IInv, TypeOK, ReceiptsOK
<1>2. CASE Known(r)
  BY <1>1, <1>2, StableReceipt DEF ReceiptOK
<1>3. CASE ~Known(r)
  BY <1>1, <1>3 DEF IInv, NoOrphanItems, ItemExists, Exists, Known, ReceiptOK, RunState,
                    InFlight, Terminal
<1> QED  BY <1>2, <1>3

\* The chains of the runs already known keep satisfying the bound.
LEMMA StableChains ==
    ASSUME IInv, Stable, NEW r \in Runs, Known(r)
    PROVE  /\ run'[r].retry <= run'[r].max /\ run'[r].max <= RetryCap
           /\ run'[r].parent = NoRun => run'[r].retry = 0 /\ run'[r].digest = r
           /\ run'[r].parent # NoRun =>
                /\ run'[run'[r].parent].state # "unused"
                /\ run'[r].retry = run'[run'[r].parent].retry + 1
                /\ run'[r].max = run'[run'[r].parent].max
                /\ run'[r].digest = run'[run'[r].parent].digest
<1>1. run[r].parent \in Runs \cup {NoRun}
  BY DEF IInv, TypeOK, RunRow
<1> QED  BY <1>1 DEF IInv, Stable, Known, RetryChainsBounded

\* A step of another connection keeps what a pending request relies on.
LEMMA StablePending ==
    ASSUME IInv, Stable, NEW d \in Conns, at'[d] = at[d], req'[d] = req[d],
           \A r \in Runs : Writing(d, r) /\ Exists(r) => Exists(r)'
    PROVE  PendingOK(d)'
<1>1. PendingOK(d) /\ req[d] \in Request
  BY DEF IInv, TypeOK
<1>2. ASSUME at[d] \in RunSteps \cup AddSteps
      PROVE  req[d].run \in Runs /\ Exists(req[d].run)'
  BY <1>1, <1>2 DEF PendingOK, Writing
<1>3. ASSUME at[d] \in TouchSteps \cup RetrySteps
      PROVE  /\ req[d].run \in Runs /\ Known(req[d].run)'
             /\ run'[req[d].run].retry = run[req[d].run].retry
             /\ run'[req[d].run].max = run[req[d].run].max
             /\ run'[req[d].run].digest = run[req[d].run].digest
  BY <1>1, <1>3 DEF PendingOK, Stable, Known
<1>4. ASSUME at[d] = "retry_fork", NEW i \in Items
      PROVE  ReceiptOK(req[d].run, req[d].rows[i])'
  <2>1. req[d].run \in Runs /\ Known(req[d].run) /\ ReceiptOK(req[d].run, req[d].rows[i])
    BY <1>1, <1>4 DEF PendingOK, RetrySteps
  <2>2. req[d].rows[i] \in ItemRow
    BY <1>1 DEF Request
  <2>3. /\ Known(req[d].rows[i].receipt) /\ req[d].rows[i].receipt # NoRun
           => Known(req[d].rows[i].receipt)'
    BY <2>2 DEF Stable, Known, ItemRow
  <2> QED  BY <2>1, <2>2, <2>3 DEF ReceiptOK, Stable, Known, ItemRow
<1> QED  BY <1>1, <1>2, <1>3, <1>4 DEF PendingOK

-----------------------------------------------------------------------------
(* Steps of one connection that leave the tables alone.                    *)

\* A connection moves to another statement: it is enough that the request it now
\* carries is in order.
LEMMA GotoInv ==
    ASSUME IInv, NEW c \in Conns, NEW s \in Steps \cup {"idle", "closed"},
           NEW q \in Request, Goto(c, s, q), UNCHANGED <<run, item, aged>>,
           PendingOK(c)',
           s \in RunSteps \cup AddSteps =>
             Writing(c, q.run) \/ run[q.run].state \in InFlight,
           s = "prune_delete" => q.ids \subseteq Prunable
    PROVE  IInv'
<1> USE DEF IInv
<1>1. TypeOK'
  BY GotoType DEF TypeOK
<1>2. Stable
  BY DEF Stable, Known
<1>3. RetryChainsBounded' /\ NoOrphanItems'
  BY DEF RetryChainsBounded, NoOrphanItems, Exists, ItemExists
<1>4. ReceiptsOK'
  BY <1>2, StableReceipts
<1>5. ASSUME NEW d \in Conns PROVE PendingOK(d)'
  <2>1. CASE d = c  BY <2>1
  <2>2. CASE d # c
    <3>1. at'[d] = at[d] /\ req'[d] = req[d]
      BY <2>2 DEF Goto, TypeOK
    <3> QED  BY <1>2, <3>1, StablePending DEF Exists
  <2> QED  BY <2>1, <2>2
<1>6. ASSUME NEW r \in Runs, Settled(r) PROVE Settled(r)'
  <2>1. ASSUME NEW d \in Conns PROVE ~Writing(d, r)'
    <3>1. CASE d # c
      BY <1>6, <3>1 DEF Settled, Writing, Goto, TypeOK
    <3>2. CASE d = c
      <4>1. at'[c] = s /\ req'[c] = q
        BY DEF Goto, TypeOK
      <4> QED  BY <1>6, <3>2, <4>1 DEF Settled, Writing, Terminal, InFlight
    <3> QED  BY <3>1, <3>2
  <2> QED  BY <1>6, <2>1 DEF Settled
<1>7. PruneOK'
  <2>1. Prunable' = Prunable /\ Prunable \subseteq Runs
    BY DEF Prunable, TypeOK
  <2>2. ASSUME NEW d \in Conns, at'[d] = "prune_delete", NEW r \in req'[d].ids
        PROVE  Settled(r)'
    <3>1. CASE d = c
      <4>1. s = "prune_delete" /\ req'[c] = q
        BY <2>2, <3>1 DEF Goto, TypeOK
      <4> QED  BY <1>6, <2>1, <2>2, <3>1, <4>1 DEF PruneOK
    <3>2. CASE d # c
      <4>1. at[d] = "prune_delete" /\ r \in req[d].ids /\ r \in Runs
        BY <2>2, <3>2 DEF Goto, TypeOK, Request
      <4> QED  BY <1>6, <4>1 DEF PruneOK
    <3> QED  BY <3>1, <3>2
  <2> QED  BY <1>6, <2>1, <2>2 DEF PruneOK
<1> QED  BY <1>1, <1>3, <1>4, <1>5, <1>7

\* Giving up, returning or crashing is always in order.
LEMMA ReturnInv ==
    ASSUME IInv, NEW c \in Conns, NEW s \in {"idle", "closed"},
           Goto(c, s, NoRequest), UNCHANGED <<run, item, aged>>
    PROVE  IInv'
<1>1. at'[c] = s
  BY DEF Goto, IInv, TypeOK
<1>2. PendingOK(c)'
  BY <1>1 DEF PendingOK, RunSteps, AddSteps, TouchSteps, RetrySteps
<1> QED  BY <1>2, GotoInv, NullTypes DEF RunSteps, AddSteps

\* The state check that begins a lifecycle call keeps the invariant.
LEMMA AssertStateInv ==
    ASSUME IInv, NEW c \in Conns, NEW r \in Runs, NEW allowed \in SUBSET InFlight,
           NEW op \in RunSteps, NEW args \in Int \X Int \X Int,
           AssertState(c, r, allowed, op, args)
    PROVE  IInv'
<1> DEFINE q == [NoRequest EXCEPT !.run = r, !.args = args,
                     !.snap = IF op = "progress" THEN Counters(r) ELSE NoRunRow]
<1>1. Counters(r) \in RunRow
  BY NullTypes DEF Counters, IInv, TypeOK, RunRow
<1>2. q \in Request /\ q.run = r
  BY <1>1, NullTypes DEF NoRequest, Request
<1>3. Goto(c, op, q) /\ run[r].state \in InFlight /\ UNCHANGED <<run, item, aged>>
  BY DEF AssertState
<1> HIDE DEF q
<1>4. at'[c] = op /\ req'[c] = q
  BY <1>3 DEF Goto, IInv, TypeOK
<1>5. PendingOK(c)'
  BY <1>2, <1>3, <1>4 DEF PendingOK, Exists, RunState, InFlight, RunSteps, AddSteps,
                           TouchSteps, RetrySteps
<1> QED  BY <1>2, <1>3, <1>5, GotoInv DEF Steps, RunSteps

\* The read that begins item_add keeps the invariant.
LEMMA ItemAddInv ==
    ASSUME IInv, NEW c \in Conns, NEW r \in Runs, NEW i \in Items, ItemAdd(c, r, i)
    PROVE  IInv'
<1> DEFINE q == [NoRequest EXCEPT !.run = r, !.item = i, !.snap = Counters(r)]
<1>1. Counters(r) \in RunRow
  BY NullTypes DEF Counters, IInv, TypeOK, RunRow
<1>2. q \in Request /\ q.run = r /\ q.item = i
  BY <1>1, NullTypes DEF NoRequest, Request
<1>3. Goto(c, "item_insert", q) /\ run[r].state = "running" /\ UNCHANGED <<run, item, aged>>
  BY DEF ItemAdd
<1> HIDE DEF q
<1>4. at'[c] = "item_insert" /\ req'[c] = q
  BY <1>3 DEF Goto, IInv, TypeOK
<1>5. PendingOK(c)'
  BY <1>2, <1>3, <1>4 DEF PendingOK, Exists, RunState, InFlight, RunSteps, AddSteps,
                           TouchSteps, RetrySteps
<1> QED  BY <1>2, <1>3, <1>5, GotoInv DEF Steps, AddSteps, InFlight

\* The check that begins an item transition keeps the invariant.
LEMMA AssertItemInv ==
    ASSUME IInv, NEW c \in Conns, NEW r \in Runs, NEW i \in Items,
           NEW allowed \in SUBSET InFlight, NEW to \in ItemState \ {"none"},
           AssertItem(c, r, i, allowed, to)
    PROVE  IInv'
<1> DEFINE q == [NoRequest EXCEPT !.run = r, !.item = i, !.to = to]
<1>1. q \in Request /\ q.run = r /\ q.item = i /\ q.to = to
  BY NullTypes DEF NoRequest, Request
<1>2. Goto(c, "touch_item", q) /\ item[r][i].state \in InFlight /\ UNCHANGED <<run, item, aged>>
  BY DEF AssertItem
<1> HIDE DEF q
<1>3. at'[c] = "touch_item" /\ req'[c] = q
  BY <1>2 DEF Goto, IInv, TypeOK
<1>4. Known(r)'
  BY <1>2 DEF IInv, NoOrphanItems, ItemExists, Exists, Known, InFlight, RunState, Terminal
<1>5. PendingOK(c)'
  BY <1>1, <1>3, <1>4 DEF PendingOK, RunSteps, AddSteps, TouchSteps, RetrySteps
<1> QED  BY <1>1, <1>2, <1>5, GotoInv DEF Steps, TouchSteps, RunSteps, AddSteps

\* The read that begins retry keeps the invariant.
LEMMA RetryInv ==
    ASSUME IInv, NEW c \in Conns, NEW r \in Runs, Retry(c, r)
    PROVE  IInv'
<1> DEFINE q == [NoRequest EXCEPT !.run = r, !.snap = Identity(r)]
<1>1. /\ Identity(r) \in RunRow
      /\ Identity(r).retry = run[r].retry /\ Identity(r).max = run[r].max
      /\ Identity(r).digest = run[r].digest
  BY NullTypes DEF Identity, IInv, TypeOK, RunRow
<1>2. q \in Request /\ q.run = r /\ q.snap = Identity(r)
  BY <1>1, NullTypes DEF NoRequest, Request
<1>3. /\ Goto(c, "retry_items", q) /\ UNCHANGED <<run, item, aged>>
      /\ run[r].state \in Terminal /\ run[r].retry < run[r].max
  BY DEF Retry
<1> HIDE DEF q
<1>4. at'[c] = "retry_items" /\ req'[c] = q
  BY <1>3 DEF Goto, IInv, TypeOK
<1>5. PendingOK(c)'
  BY <1>1, <1>2, <1>3, <1>4 DEF PendingOK, Known, Terminal, RunSteps, AddSteps,
                                TouchSteps, RetrySteps
<1> QED  BY <1>2, <1>3, <1>5, GotoInv DEF Steps, RetrySteps, RunSteps, AddSteps

\* The items read by retry carry receipts of the same chain.
LEMMA RetryItemsInv ==
    ASSUME IInv, NEW c \in Conns, RetryItems(c)
    PROVE  IInv'
<1> DEFINE r == req[c].run
           q == [req[c] EXCEPT !.rows = item[r]]
<1>1. at[c] = "retry_items" /\ PendingOK(c) /\ req[c] \in Request
  BY DEF RetryItems, IInv, TypeOK
<1>2. r \in Runs /\ Known(r)
  BY <1>1 DEF PendingOK, RetrySteps
<1>3. /\ q \in Request /\ q.run = r /\ q.snap = req[c].snap
      /\ \A i \in Items : q.rows[i] = item[r][i]
  BY <1>1, <1>2 DEF Request, IInv, TypeOK
<1>4. CASE Goto(c, "retry_fork", q)
  <2> HIDE DEF q
  <2>1. at'[c] = "retry_fork" /\ req'[c] = q /\ UNCHANGED <<run, item, aged>>
    BY <1>4 DEF Goto, IInv, TypeOK, RetryItems
  <2>2. ASSUME NEW i \in Items PROVE ReceiptOK(req[c].run, req[c].rows[i])'
    <3>1. ReceiptOK(r, item[r][i])
      BY <1>2 DEF IInv, ReceiptsOK
    <3>2. req'[c].run = r /\ req'[c].rows[i] = item[r][i]
      BY <1>3, <2>1
    <3> QED  BY <2>1, <3>1, <3>2 DEF ReceiptOK, Known
  <2>3. /\ req'[c].run \in Runs /\ req'[c].run = req[c].run /\ req'[c].snap = req[c].snap
        /\ Known(req[c].run)'
    BY <1>2, <1>3, <2>1 DEF Known
  <2>4. PendingOK(c)'
    BY <1>1, <2>1, <2>2, <2>3 DEF PendingOK, RunSteps, AddSteps, TouchSteps, RetrySteps
  <2> QED  BY <1>3, <1>4, <2>1, <2>4, GotoInv DEF Steps, RetrySteps, RunSteps, AddSteps
<1>5. CASE Return(c)
  BY <1>5, ReturnInv DEF Return, RetryItems
<1> QED  BY <1>4, <1>5 DEF RetryItems

\* Counting the items of a run keeps the invariant.
LEMMA TouchReadInv ==
    ASSUME IInv, NEW c \in Conns, TouchRead(c)
    PROVE  IInv'
<1> DEFINE r == req[c].run
           n == <<run[r].total, Count(item[r], {"completed"}), Count(item[r], {"failed"})>>
           q == [req[c] EXCEPT !.args = n]
<1>1. at[c] = "touch_read" /\ PendingOK(c) /\ req[c] \in Request
  BY DEF TouchRead, IInv, TypeOK
<1>2. r \in Runs /\ Known(r)
  BY <1>1 DEF PendingOK, TouchSteps
<1>3. n \in Nat \X Nat \X Nat
  BY <1>2, CountType DEF IInv, TypeOK, RunRow
<1> HIDE DEF n
<1>4. /\ q \in Request /\ q.run = r /\ q.item = req[c].item /\ q.to = req[c].to
      /\ q.args = n
  BY <1>1, <1>3 DEF Request
<1>5. CASE Goto(c, "touch_write", q)
  <2> HIDE DEF q
  <2> USE <1>3
  <2>1. at'[c] = "touch_write" /\ req'[c] = q /\ UNCHANGED <<run, item, aged>>
    BY <1>5 DEF Goto, IInv, TypeOK, TouchRead
  <2>2. PendingOK(c)'
    BY <1>1, <1>2, <1>4, <2>1 DEF PendingOK, Known, RunSteps, AddSteps, TouchSteps, RetrySteps
  <2> QED  BY <1>4, <1>5, <2>1, <2>2, GotoInv DEF Steps, TouchSteps, RunSteps, AddSteps
<1>6. CASE Return(c)
  BY <1>6, ReturnInv DEF Return, TouchRead
<1> QED  BY <1>5, <1>6 DEF TouchRead, n

\* Selecting the runs to prune keeps the invariant.
LEMMA PruneInv ==
    ASSUME IInv, NEW c \in Conns, Prune(c)
    PROVE  IInv'
<1> DEFINE q == [NoRequest EXCEPT !.ids = Prunable]
<1>1. q \in Request /\ q.ids = Prunable
  BY NullTypes DEF NoRequest, Request, Prunable, IInv, TypeOK
<1>2. Goto(c, "prune_delete", q) /\ UNCHANGED <<run, item, aged>>
  BY DEF Prune
<1> HIDE DEF q
<1>3. at'[c] = "prune_delete"
  BY <1>2 DEF Goto, IInv, TypeOK
<1>4. PendingOK(c)'
  BY <1>3 DEF PendingOK, RunSteps, AddSteps, TouchSteps, RetrySteps
<1> QED  BY <1>1, <1>2, <1>4, GotoInv DEF Steps, RunSteps, AddSteps

\* Opening the database keeps the invariant.
LEMMA OpenInv ==
    ASSUME IInv, NEW c \in Conns, Open(c)
    PROVE  IInv'
<1>1. CASE Goto(c, "idle", NoRequest)
  BY <1>1, ReturnInv DEF Open
<1>2. CASE Goto(c, "recover_runs", NoRequest)
  <2>1. at'[c] = "recover_runs"
    BY <1>2 DEF Goto, IInv, TypeOK
  <2>2. PendingOK(c)'
    BY <2>1 DEF PendingOK, RunSteps, AddSteps, TouchSteps, RetrySteps
  <2> QED  BY <1>2, <2>2, GotoInv, NullTypes DEF Open, Steps, RecoverSteps, RunSteps, AddSteps
<1> QED  BY <1>1, <1>2 DEF Open

-----------------------------------------------------------------------------
(* Steps that write one run.                                               *)

\* A write by id that keeps the identity of the run.  It changes the state only for
\* a connection that has found the run in flight, so never that of a settled run.
LEMMA UpdateRunInv ==
    ASSUME IInv, NEW c \in Conns, NEW r \in Runs, NEW row \in RunRow,
           UpdateRun(r, row), Return(c), UNCHANGED item,
           Exists(r) => row.state \in RunState,
           row.retry = run[r].retry, row.max = run[r].max,
           row.parent = run[r].parent, row.digest = run[r].digest,
           row.state = run[r].state \/ Writing(c, r)
    PROVE  IInv'
<1> USE DEF IInv
<1>1. /\ at' = [at EXCEPT ![c] = "idle"] /\ req' = [req EXCEPT ![c] = NoRequest]
      /\ run' = IF Exists(r) THEN [run EXCEPT ![r] = row] ELSE run
      /\ aged' = aged \ {r}
  BY DEF UpdateRun, Return, Goto
<1>2. TypeOK'
  BY <1>1, ReturnType DEF TypeOK
<1>3. Stable
  BY <1>1 DEF Stable, Known, Exists, RunState, InFlight, Terminal, TypeOK
<1>4. \A s \in Runs : Exists(s) => Exists(s)'
  BY <1>1 DEF Exists, TypeOK
<1>5. \A s \in Runs : Known(s)' => Known(s)
  BY <1>1 DEF Known, Exists, RunState, InFlight, Terminal, TypeOK
<1>6. RetryChainsBounded'
  BY <1>3, <1>5, StableChains DEF RetryChainsBounded, Known
<1>7. ReceiptsOK'
  BY <1>3, StableReceipts
<1>8. NoOrphanItems'
  BY <1>4 DEF NoOrphanItems, ItemExists
<1>9. ASSUME NEW d \in Conns PROVE PendingOK(d)'
  <2>1. CASE d = c
    BY <1>1, <2>1 DEF PendingOK, TypeOK, RunSteps, AddSteps, TouchSteps, RetrySteps
  <2>2. CASE d # c
    BY <1>1, <1>3, <1>4, <2>2, StablePending DEF TypeOK
  <2> QED  BY <2>1, <2>2
<1>10. ASSUME NEW s \in Runs, Settled(s) PROVE Settled(s)'
  <2>1. run'[s].state = run[s].state
    BY <1>1, <1>10 DEF Settled, TypeOK
  <2>2. ASSUME NEW d \in Conns PROVE ~Writing(d, s)'
    BY <1>1, <1>10 DEF Settled, Writing, TypeOK, RunSteps, AddSteps
  <2> QED  BY <1>10, <2>1, <2>2 DEF Settled
<1>11. PruneOK'
  <2>1. Prunable' \subseteq Prunable /\ Prunable \subseteq Runs
    BY <1>1 DEF Prunable, TypeOK
  <2>2. ASSUME NEW d \in Conns, at'[d] = "prune_delete", NEW s \in req'[d].ids
        PROVE  at[d] = "prune_delete" /\ s \in req[d].ids /\ s \in Runs
    BY <1>1, <2>2 DEF TypeOK, Request
  <2> QED  BY <1>10, <2>1, <2>2 DEF PruneOK
<1> QED  BY <1>2, <1>6, <1>7, <1>8, <1>9, <1>11

\* The update that ends a lifecycle call keeps the invariant.
LEMMA WriteRunInv ==
    ASSUME IInv, NEW c \in Conns, WriteRun(c)
    PROVE  IInv'
<1> DEFINE r == req[c].run
           row == Written(at[c], run[r], req[c])
<1>1. at[c] \in RunSteps /\ PendingOK(c) /\ req[c] \in Request
  BY DEF WriteRun, IInv, TypeOK
<1>2. r \in Runs /\ Exists(r) /\ run[r] \in RunRow /\ Writing(c, r)
  BY <1>1 DEF PendingOK, IInv, TypeOK, Writing
<1>3. row \in RunRow
  BY <1>1, <1>2, WrittenType
<1>4. /\ row.retry = run[r].retry /\ row.max = run[r].max
      /\ row.parent = run[r].parent /\ row.digest = run[r].digest
  BY <1>1, <1>2 DEF Written, RunRow, RunSteps
<1>5. row.state \in RunState
  BY <1>1, <1>2 DEF Written, RunRow, RunSteps, Exists, RunState, InFlight, Terminal
<1>6. UpdateRun(r, row) /\ Return(c) /\ UNCHANGED item
  BY DEF WriteRun
<1> HIDE DEF r, row
<1> QED  BY <1>2, <1>3, <1>4, <1>5, <1>6, UpdateRunInv

\* The counter update of item_add keeps the invariant.
LEMMA CountAddedInv ==
    ASSUME IInv, NEW c \in Conns, CountAdded(c)
    PROVE  IInv'
<1> DEFINE r == req[c].run
           row == Added(run[r], req[c].snap)
<1>1. at[c] = "item_counters" /\ PendingOK(c) /\ req[c] \in Request
  BY DEF CountAdded, IInv, TypeOK
<1>2. r \in Runs /\ Exists(r) /\ run[r] \in RunRow
  BY <1>1 DEF PendingOK, AddSteps, IInv, TypeOK
<1>3. /\ row \in RunRow /\ row.state = run[r].state
      /\ row.retry = run[r].retry /\ row.max = run[r].max
      /\ row.parent = run[r].parent /\ row.digest = run[r].digest
  <2> DEFINE s == req[c].snap
             total == s.total + 1
             left == Max0(total - s.done - s.failed)
  <2>1. total \in Nat /\ s.done \in Nat /\ s.failed \in Nat
    BY <1>1 DEF Request, RunRow
  <2>2. row = [run[r] EXCEPT !.total = total, !.unattempted = left]
    BY DEF Added
  <2> HIDE DEF total, s
  <2>3. left \in Nat
    BY <2>1, Max0Type
  <2> HIDE DEF left, row
  <2> QED  BY <1>2, <2>1, <2>2, <2>3 DEF RunRow
<1>4. UpdateRun(r, row) /\ Return(c) /\ UNCHANGED item
  BY DEF CountAdded
<1> HIDE DEF r, row
<1> QED  BY <1>2, <1>3, <1>4, UpdateRunInv DEF Exists

\* A touch of a run that has been pruned meanwhile writes nothing.
LEMMA TouchWriteInv ==
    ASSUME IInv, NEW c \in Conns, TouchWrite(c)
    PROVE  IInv'
<1> DEFINE r == req[c].run
           n == req[c].args
           left == Max0(n[1] - n[2] - n[3])
           row == [run[r] EXCEPT !.done = n[2], !.failed = n[3], !.unattempted = left]
<1>1. at[c] = "touch_write" /\ PendingOK(c) /\ req[c] \in Request
  BY DEF TouchWrite, IInv, TypeOK
<1>2. r \in Runs /\ run[r] \in RunRow
  BY <1>1 DEF PendingOK, TouchSteps, IInv, TypeOK
<1>3. n[1] \in Nat /\ n[2] \in Nat /\ n[3] \in Nat
  BY <1>1 DEF PendingOK
<1>4. left \in Nat
  BY <1>3, Max0Type
<1>5. UpdateRun(r, row) /\ Return(c) /\ UNCHANGED item
  BY DEF TouchWrite
<1> HIDE DEF n, left
<1>6. /\ row \in RunRow /\ row.state = run[r].state
      /\ row.retry = run[r].retry /\ row.max = run[r].max
      /\ row.parent = run[r].parent /\ row.digest = run[r].digest
  BY <1>2, <1>3, <1>4 DEF RunRow
<1> HIDE DEF r, row
<1> QED  BY <1>2, <1>5, <1>6, UpdateRunInv DEF Exists

-----------------------------------------------------------------------------
(* Steps that write the items of one run.                                  *)

\* Item (r, i) is replaced by row; c goes on with statement s of the same request.
LEMMA ItemWriteInv ==
    ASSUME IInv, NEW c \in Conns, NEW r \in Runs, NEW i \in Items, NEW row \in ItemRow,
           NEW s \in Steps, Goto(c, s, req[c]), UNCHANGED <<run, aged>>,
           item' = [item EXCEPT ![r][i] = row],
           Exists(r), ReceiptOK(r, row), PendingOK(c)',
           s \in RunSteps \cup AddSteps => at[c] \in RunSteps \cup AddSteps,
           s # "prune_delete"
    PROVE  IInv'
<1> USE DEF IInv
<1>1. /\ at' = [at EXCEPT ![c] = s] /\ req' = req
      /\ req[c] \in Request
  BY DEF Goto, TypeOK
<1>2. TypeOK'
  BY <1>1 DEF TypeOK
<1>3. Stable
  BY DEF Stable, Known
<1>4. RetryChainsBounded'
  BY DEF RetryChainsBounded
<1>5. \A t \in Runs, j \in Items :
        item'[t][j] = IF t = r /\ j = i THEN row ELSE item[t][j]
  BY DEF TypeOK
<1>6. NoOrphanItems'
  BY <1>5 DEF NoOrphanItems, ItemExists, Exists
<1>7. ReceiptsOK'
  BY <1>5 DEF ReceiptsOK, ReceiptOK, Known
<1>8. ASSUME NEW d \in Conns PROVE PendingOK(d)'
  <2>1. CASE d # c
    BY <1>1, <1>3, <2>1, StablePending DEF TypeOK, Exists
  <2> QED  BY <2>1
<1>9. ASSUME NEW t \in Runs, Settled(t) PROVE Settled(t)'
  BY <1>1, <1>9 DEF Settled, Writing, TypeOK
<1>10. PruneOK'
  <2>1. Prunable' = Prunable /\ Prunable \subseteq Runs
    BY DEF Prunable, TypeOK
  <2>2. ASSUME NEW d \in Conns, at'[d] = "prune_delete", NEW t \in req'[d].ids
        PROVE  at[d] = "prune_delete" /\ t \in req[d].ids /\ t \in Runs
    BY <1>1, <2>2 DEF TypeOK, Request
  <2> QED  BY <1>9, <2>1, <2>2 DEF PruneOK
<1> QED  BY <1>2, <1>4, <1>6, <1>7, <1>8, <1>10

\* The insert of item_add keeps the invariant.
LEMMA InsertItemInv ==
    ASSUME IInv, NEW c \in Conns, InsertItem(c)
    PROVE  IInv'
<1> DEFINE r == req[c].run
           i == req[c].item
           row == [NoItemRow EXCEPT !.state = "queued"]
<1>1. at[c] = "item_insert" /\ PendingOK(c) /\ UNCHANGED <<run, aged>>
  BY DEF InsertItem, IInv
<1>2. r \in Runs /\ Exists(r) /\ i \in Items
  BY <1>1 DEF PendingOK, AddSteps
<1>3. CASE ItemExists(r, i)
  BY <1>1, <1>3, ReturnInv DEF InsertItem, Return
<1>4. CASE ~ItemExists(r, i)
  <2>1. /\ item' = [item EXCEPT ![r][i] = row]
        /\ Goto(c, "item_counters", req[c])
    BY <1>4 DEF InsertItem
  <2>2. row \in ItemRow /\ ReceiptOK(r, row)
    BY DEF NoItemRow, ItemRow, ItemState, ReceiptOK
  <2>3. at'[c] = "item_counters" /\ req'[c] = req[c]
    BY <2>1 DEF Goto, IInv, TypeOK
  <2>4. PendingOK(c)'
    BY <1>1, <1>2, <2>3 DEF PendingOK, Exists, RunSteps, AddSteps, TouchSteps, RetrySteps
  <2> HIDE DEF row
  <2> QED  BY <1>1, <1>2, <2>1, <2>2, <2>4, ItemWriteInv DEF Steps, RunSteps, AddSteps
<1> QED  BY <1>3, <1>4

\* The update of an item keeps the invariant.
LEMMA TouchItemInv ==
    ASSUME IInv, NEW c \in Conns, TouchItem(c)
    PROVE  IInv'
<1> DEFINE r == req[c].run
           i == req[c].item
           receipt == IF req[c].to = "completed" THEN r ELSE NoRun
           row == [item[r][i] EXCEPT !.state = req[c].to, !.receipt = receipt]
<1>1. /\ at[c] = "touch_item" /\ PendingOK(c) /\ req[c] \in Request
      /\ UNCHANGED <<run, aged>> /\ Goto(c, "touch_read", req[c])
  BY DEF TouchItem, IInv, TypeOK
<1>2. r \in Runs /\ Known(r) /\ i \in Items /\ req[c].to # "none"
  BY <1>1 DEF PendingOK, TouchSteps
<1>3. at'[c] = "touch_read" /\ req'[c] = req[c]
  BY <1>1 DEF Goto, IInv, TypeOK
<1>4. PendingOK(c)'
  BY <1>1, <1>2, <1>3 DEF PendingOK, Known, RunSteps, AddSteps, TouchSteps, RetrySteps
<1>5. CASE ItemExists(r, i)
  <2>1. item' = [item EXCEPT ![r][i] = row]
    BY <1>2, <1>5 DEF TouchItem, IInv, TypeOK
  <2>2. Exists(r)
    BY <1>2, <1>5 DEF IInv, NoOrphanItems
  <2>3. row \in ItemRow /\ row.state = req[c].to /\ row.receipt = receipt
    <3>1. item[r][i] \in ItemRow
      BY <1>2 DEF IInv, TypeOK
    <3>2. req[c].to \in ItemState /\ receipt \in Runs \cup {NoRun}
      BY <1>1, <1>2 DEF Request
    <3> HIDE DEF receipt, r, i
    <3> QED  BY <3>1, <3>2 DEF ItemRow
  <2>4. ReceiptOK(r, row)
    BY <1>2, <2>3 DEF ReceiptOK, IInv, TypeOK, RunRow
  <2> HIDE DEF row
  <2> QED  BY <1>1, <1>2, <1>4, <2>1, <2>2, <2>3, <2>4, ItemWriteInv
           DEF Steps, TouchSteps, RunSteps, AddSteps
<1>6. CASE ~ItemExists(r, i)
  <2>1. UNCHANGED <<run, item, aged>>
    BY <1>1, <1>6 DEF TouchItem
  <2> QED  BY <1>1, <1>4, <2>1, GotoInv DEF Steps, TouchSteps, RunSteps, AddSteps
<1> QED  BY <1>5, <1>6

-----------------------------------------------------------------------------
(* Steps that create runs.                                                 *)

\* Run n, unused so far, is inserted as row together with its items: by begin
\* without any, by a fork with the items of its parent.
LEMMA NewRunInv ==
    ASSUME IInv, NEW n \in Runs, run[n].state = "unused",
           NEW row \in RunRow, NEW rows \in [Items -> ItemRow],
           run' = [run EXCEPT ![n] = row], item' = [item EXCEPT ![n] = rows],
           UNCHANGED aged,
           row.state = "queued", row.retry <= row.max, row.max <= RetryCap,
           row.parent = NoRun => row.retry = 0 /\ row.digest = n,
           row.parent # NoRun =>
             /\ Known(row.parent) /\ row.retry = run[row.parent].retry + 1
             /\ row.max = run[row.parent].max /\ row.digest = run[row.parent].digest,
           \A i \in Items : rows[i].receipt # NoRun =>
             /\ rows[i].state = "completed" /\ Known(rows[i].receipt)
             /\ run[rows[i].receipt].digest = row.digest
             /\ run[rows[i].receipt].retry <= row.retry,
           NEW c \in Conns,
           (at' = at /\ req' = req) \/ Return(c)
    PROVE  IInv'
<1> USE DEF IInv
<1>1. TypeOK'
  BY ReturnType DEF TypeOK
<1>2. Stable
  BY DEF Stable, Known, TypeOK
<1>3. \A r \in Runs : r # n => run'[r] = run[r] /\ item'[r] = item[r]
  BY DEF TypeOK
<1>4. run'[n] = row /\ item'[n] = rows
  BY DEF TypeOK
<1>5. ASSUME NEW r \in Runs, Known(r)' PROVE Known(r) \/ r = n
  BY <1>3, <1>5 DEF Known
<1>6. RetryChainsBounded'
  <2>1. row.parent \in Runs \cup {NoRun}
    BY DEF RunRow
  <2>2. row.parent # NoRun => row.parent \in Runs /\ row.parent # n
                              /\ run'[row.parent] = run[row.parent]
    BY <1>3, <2>1 DEF Known
  <2>3. ASSUME NEW r \in Runs, run'[r].state # "unused"
        PROVE  /\ run'[r].retry <= run'[r].max /\ run'[r].max <= RetryCap
               /\ run'[r].parent = NoRun => run'[r].retry = 0 /\ run'[r].digest = r
               /\ run'[r].parent # NoRun =>
                    /\ run'[run'[r].parent].state # "unused"
                    /\ run'[r].retry = run'[run'[r].parent].retry + 1
                    /\ run'[r].max = run'[run'[r].parent].max
                    /\ run'[r].digest = run'[run'[r].parent].digest
    <3>1. CASE r = n
      BY <1>4, <2>2, <3>1 DEF Known
    <3>2. CASE r # n
      <4>1. Known(r)
        BY <1>3, <2>3, <3>2 DEF Known
      <4> QED  BY <1>2, <4>1, StableChains
    <3> QED  BY <3>1, <3>2
  <2> QED  BY <2>3 DEF RetryChainsBounded, RetryCap
<1>7. NoOrphanItems'
  BY <1>3, <1>4 DEF NoOrphanItems, ItemExists, Exists, RunState, InFlight
<1>8. ReceiptsOK'
  <2>1. ASSUME NEW r \in Runs, NEW i \in Items, r # n
        PROVE  ReceiptOK(r, item[r][i])'
    <3>1. item[r][i] \in ItemRow /\ ReceiptOK(r, item[r][i]) /\ item'[r][i] = item[r][i]
      BY <1>3, <2>1 DEF TypeOK, ReceiptsOK
    <3>2. CASE Known(r)
      BY <1>2, <3>1, <3>2, StableReceipt DEF ReceiptOK
    <3>3. CASE ~Known(r)
      BY <3>1, <3>3 DEF NoOrphanItems, ItemExists, Exists, Known, ReceiptOK, RunState,
                        InFlight, Terminal
    <3> QED  BY <3>2, <3>3
  <2>2. ASSUME NEW i \in Items PROVE ReceiptOK(n, item[n][i])'
    <3>1. item'[n][i] = rows[i] /\ rows[i] \in ItemRow
      BY <1>4
    <3>2. rows[i].receipt # NoRun => run'[rows[i].receipt] = run[rows[i].receipt]
      BY <1>3, <3>1 DEF ItemRow, Known
    <3> QED  BY <1>4, <3>1, <3>2 DEF ReceiptOK, Known
  <2> QED  BY <2>1, <2>2 DEF ReceiptsOK
<1>9. ASSUME NEW d \in Conns PROVE PendingOK(d)'
  <2>1. CASE at'[d] = at[d] /\ req'[d] = req[d]
    BY <1>2, <1>3, <2>1, StablePending DEF Exists, RunState, InFlight, Terminal
  <2>2. CASE at'[d] = "idle"
    BY <2>2 DEF PendingOK, RunSteps, AddSteps, TouchSteps, RetrySteps
  <2> QED  BY <2>1, <2>2 DEF Return, Goto, TypeOK
<1>10. \A d \in Conns : (at'[d] = at[d] /\ req'[d] = req[d]) \/ at'[d] = "idle"
  BY DEF Return, Goto, TypeOK
<1>11. ASSUME NEW r \in Runs, Settled(r) PROVE Settled(r)'
  <2>1. r # n
    BY <1>11 DEF Settled, Terminal
  <2> QED  BY <1>3, <1>10, <1>11, <2>1 DEF Settled, Writing, RunSteps, AddSteps
<1>12. PruneOK'
  <2>1. Prunable' \subseteq Prunable /\ Prunable \subseteq Runs
    BY <1>3, <1>4 DEF Prunable, TypeOK, Terminal
  <2>2. ASSUME NEW d \in Conns, at'[d] = "prune_delete", NEW r \in req'[d].ids
        PROVE  at[d] = "prune_delete" /\ r \in req[d].ids /\ r \in Runs
    BY <1>10, <2>2 DEF TypeOK, Request
  <2> QED  BY <1>11, <2>1, <2>2 DEF PruneOK
<1> QED  BY <1>1, <1>6, <1>7, <1>8, <1>9, <1>12

\* begin keeps the invariant.
LEMMA BeginInv ==
    ASSUME IInv, NEW c \in Conns, NEW r \in Runs, NEW m \in RetryArgs, Begin(c, r, m)
    PROVE  IInv'
<1> DEFINE max == ClampRetries(m)
           row == [NoRunRow EXCEPT !.state = "queued", !.max = max, !.digest = r]
<1>1. /\ run[r].state = "unused" /\ run' = [run EXCEPT ![r] = row]
      /\ UNCHANGED item /\ UNCHANGED aged /\ at' = at /\ req' = req
  BY DEF Begin
<1>2. max \in Nat /\ max <= RetryCap
  BY ClampType, ConstantsAssumption DEF RetryCap
<1> HIDE DEF max
<1>3. /\ row \in RunRow /\ row.state = "queued" /\ row.retry = 0 /\ row.max = max
      /\ row.parent = NoRun /\ row.digest = r
  BY <1>2 DEF NoRunRow, RunRow, RunState, InFlight
<1>4. row.retry <= row.max
  BY <1>2, <1>3
<1> DEFINE rows == item[r]
<1>5. rows \in [Items -> ItemRow] /\ item' = [item EXCEPT ![r] = rows]
  BY <1>1 DEF IInv, TypeOK
<1>6. \A i \in Items : rows[i].receipt = NoRun
  BY <1>1 DEF IInv, NoOrphanItems, ItemExists, Exists, ReceiptsOK, ReceiptOK, RunState,
              InFlight, Terminal
<1> HIDE DEF row, rows
<1>7. \A i \in Items : rows[i].receipt # NoRun =>
        /\ rows[i].state = "completed" /\ Known(rows[i].receipt)
        /\ run[rows[i].receipt].digest = row.digest
        /\ run[rows[i].receipt].retry <= row.retry
  BY <1>6
<1>8. row.max <= RetryCap
  BY <1>2, <1>3
<1> QED  BY <1>1, <1>3, <1>4, <1>5, <1>7, <1>8, NewRunInv

\* The insert of a retry's child keeps the invariant: it extends the chain by one.
LEMMA RetryForkInv ==
    ASSUME IInv, NEW c \in Conns, NEW child \in Runs, RetryFork(c, child)
    PROVE  IInv'
<1> DEFINE r == req[c].run
           s == req[c].snap
           rows == req[c].rows
           done == Count(rows, {"completed"})
           left == Count(rows, Unfinished)
           max == ClampRetries(s.max)
           row == [state |-> "queued", total |-> done + left, done |-> done,
                   failed |-> left, unattempted |-> left,
                   retry |-> s.retry + 1, max |-> max,
                   parent |-> r, digest |-> s.digest]
           fork == [i \in Items |->
                      CASE rows[i].state = "none" -> NoItemRow
                        [] rows[i].state = "completed" -> rows[i]
                        [] OTHER -> [state |-> "queued", receipt |-> NoRun,
                                     retry |-> rows[i].retry + 1]]
<1>1. at[c] = "retry_fork" /\ PendingOK(c) /\ req[c] \in Request
  BY DEF RetryFork, IInv, TypeOK
<1>2. /\ r \in Runs /\ Known(r) /\ run[r] \in RunRow
      /\ s.retry = run[r].retry /\ s.max = run[r].max /\ s.digest = run[r].digest
      /\ s.retry < s.max
      /\ \A i \in Items : ReceiptOK(r, rows[i])
  BY <1>1 DEF PendingOK, RetrySteps, IInv, TypeOK
<1>3. done \in Nat /\ left \in Nat
  BY CountType
<1>4. /\ run[child].state = "unused" /\ run' = [run EXCEPT ![child] = row]
      /\ item' = [item EXCEPT ![child] = fork] /\ Return(c) /\ UNCHANGED aged
  BY DEF RetryFork
<1>5. max = run[r].max /\ max <= RetryCap /\ max \in Nat
  <2>1. run[r].max \in Nat /\ run[r].max <= RetryCap
    BY <1>2 DEF RunRow, IInv, RetryChainsBounded, Known
  <2> QED  BY <1>2, <2>1, ClampIdempotent DEF RetryCap
<1>6. child # r
  BY <1>2, <1>4 DEF Known
<1>7. \A i \in Items : rows[i] \in ItemRow
  BY <1>1 DEF Request
<1>8. fork \in [Items -> ItemRow]
  <2> SUFFICES ASSUME NEW i \in Items PROVE fork[i] \in ItemRow
    OBVIOUS
  <2>1. rows[i] \in ItemRow
    BY <1>7
  <2> HIDE DEF rows
  <2> QED  BY <2>1 DEF NoItemRow, ItemRow, ItemState
<1>9. ASSUME NEW i \in Items
      PROVE  fork[i].receipt = NoRun \/ (rows[i].state = "completed" /\ fork[i] = rows[i])
  BY DEF NoItemRow
<1> HIDE DEF done, left, max, fork
<1>10. /\ row \in RunRow /\ row.state = "queued" /\ row.retry = run[r].retry + 1
       /\ row.max = run[r].max /\ row.parent = r /\ row.digest = run[r].digest
       /\ row.retry <= row.max /\ row.max <= RetryCap
  BY <1>2, <1>3, <1>5 DEF RunRow, RunState, InFlight
<1>11. ASSUME NEW i \in Items, fork[i].receipt # NoRun
       PROVE  /\ fork[i].state = "completed" /\ Known(fork[i].receipt)
              /\ run[fork[i].receipt].digest = row.digest
              /\ run[fork[i].receipt].retry <= row.retry
  <2>1. fork[i] = rows[i] /\ rows[i] \in ItemRow /\ ReceiptOK(r, rows[i])
    BY <1>2, <1>7, <1>9, <1>11
  <2>2. rows[i].receipt \in Runs
    BY <1>11, <2>1 DEF ItemRow
  <2>3. run[rows[i].receipt].retry \in Nat /\ run[r].retry \in Nat
    BY <1>2, <2>2 DEF IInv, TypeOK, RunRow
  <2> QED  BY <1>10, <1>11, <2>1, <2>3 DEF ReceiptOK
<1>12. row.parent # NoRun
  BY <1>2, <1>10, ConstantsAssumption
<1> HIDE DEF row, rows, s, r
<1> QED  BY <1>2, <1>4, <1>8, <1>10, <1>11, <1>12, NewRunInv

-----------------------------------------------------------------------------
(* Steps that write many runs.                                             *)

\* The recovery of runs at open keeps the invariant.
LEMMA RecoverRunsInv ==
    ASSUME IInv, NEW c \in Conns, RecoverRuns(c)
    PROVE  IInv'
<1> USE DEF IInv
<1>1. /\ \A r \in Runs : run'[r] = IF run[r].state \in InFlight
                                   THEN [run[r] EXCEPT !.state = "interrupted"] ELSE run[r]
      /\ run' = [r \in Runs |-> run'[r]]
      /\ aged' = {r \in aged : run[r].state \notin InFlight}
      /\ at' = [at EXCEPT ![c] = "recover_items"] /\ req' = [req EXCEPT ![c] = NoRequest]
      /\ UNCHANGED item
  BY DEF RecoverRuns, Goto
<1>2. \A r \in Runs : run[r] \in RunRow
  BY DEF TypeOK
<1>3. \A r \in Runs : run'[r] \in RunRow
  BY <1>1, <1>2 DEF RunRow, RunState, Terminal
<1>4. TypeOK'
  <2>1. at' \in [Conns -> Steps \cup {"idle", "closed"}] /\ req' \in [Conns -> Request]
    BY <1>1, NullTypes DEF TypeOK, Steps, RecoverSteps
  <2>2. run' \in [Runs -> RunRow]
    BY <1>1, <1>3
  <2> QED  BY <1>1, <2>1, <2>2 DEF TypeOK
<1>5. Stable /\ \A r \in Runs : Known(r)' => Known(r)
  BY <1>1, <1>2 DEF Stable, Known, RunRow, InFlight
<1>6. \A r \in Runs : Exists(r) => Exists(r)'
  BY <1>1, <1>2 DEF Exists, RunState, InFlight, Terminal, RunRow
<1>7. RetryChainsBounded'
  BY <1>5, StableChains DEF RetryChainsBounded, Known
<1>8. ReceiptsOK'
  BY <1>1, <1>5, StableReceipts
<1>9. NoOrphanItems'
  BY <1>1, <1>6 DEF NoOrphanItems, ItemExists
<1>10. ASSUME NEW d \in Conns PROVE PendingOK(d)'
  <2>1. CASE d = c
    BY <1>1, <2>1 DEF PendingOK, TypeOK, RunSteps, AddSteps, TouchSteps, RetrySteps
  <2>2. CASE d # c
    BY <1>1, <1>5, <1>6, <2>2, StablePending DEF TypeOK
  <2> QED  BY <2>1, <2>2
<1>11. ASSUME NEW r \in Runs, Settled(r) PROVE Settled(r)'
  <2>1. run'[r] = run[r]
    BY <1>1, <1>11 DEF Settled, Terminal, InFlight
  <2>2. ASSUME NEW d \in Conns PROVE ~Writing(d, r)'
    BY <1>1, <1>11 DEF Settled, Writing, TypeOK, RunSteps, AddSteps
  <2> QED  BY <1>11, <2>1, <2>2 DEF Settled
<1>12. PruneOK'
  <2>1. Prunable' \subseteq Prunable /\ Prunable \subseteq Runs
    BY <1>1 DEF Prunable, TypeOK
  <2>2. ASSUME NEW d \in Conns, at'[d] = "prune_delete", NEW r \in req'[d].ids
        PROVE  at[d] = "prune_delete" /\ r \in req[d].ids /\ r \in Runs
    BY <1>1, <2>2 DEF TypeOK, Request
  <2> QED  BY <1>11, <2>1, <2>2 DEF PruneOK
<1> QED  BY <1>4, <1>7, <1>8, <1>9, <1>10, <1>12

\* The recovery of items at open keeps the invariant.
LEMMA RecoverItemsInv ==
    ASSUME IInv, NEW c \in Conns, RecoverItems(c)
    PROVE  IInv'
<1> USE DEF IInv
<1>1. /\ \A r \in Runs, i \in Items :
           item'[r][i] = IF run[r].state = "interrupted" /\ item[r][i].state \in InFlight
                         THEN [item[r][i] EXCEPT !.state = "interrupted"] ELSE item[r][i]
      /\ item' = [r \in Runs |-> [i \in Items |-> item'[r][i]]]
      /\ at' = [at EXCEPT ![c] = "idle"] /\ req' = [req EXCEPT ![c] = NoRequest]
      /\ UNCHANGED <<run, aged>>
  BY DEF RecoverItems, Return, Goto
<1>2. \A r \in Runs, i \in Items : item[r][i] \in ItemRow
  BY DEF TypeOK
<1>3. \A r \in Runs, i \in Items :
        /\ item'[r][i] \in ItemRow /\ item'[r][i].receipt = item[r][i].receipt
        /\ item'[r][i] = item[r][i]
             \/ (item[r][i].state \in InFlight /\ item'[r][i].state = "interrupted")
  <2> SUFFICES ASSUME NEW r \in Runs, NEW i \in Items
               PROVE  /\ item'[r][i] \in ItemRow /\ item'[r][i].receipt = item[r][i].receipt
                      /\ item'[r][i] = item[r][i]
                           \/ (item[r][i].state \in InFlight /\ item'[r][i].state = "interrupted")
    OBVIOUS
  <2>1. CASE item'[r][i] = item[r][i]
    BY <1>2, <2>1
  <2>2. CASE item'[r][i] = [item[r][i] EXCEPT !.state = "interrupted"] /\ item[r][i].state \in InFlight
    <3>1. item[r][i] \in ItemRow
      BY <1>2
    <3> QED  BY <2>2, <3>1 DEF ItemRow, ItemState
  <2> QED  BY <1>1, <2>1, <2>2
<1>4. TypeOK'
  <2>1. at' \in [Conns -> Steps \cup {"idle", "closed"}] /\ req' \in [Conns -> Request]
    BY <1>1, NullTypes DEF TypeOK
  <2>2. item' \in [Runs -> [Items -> ItemRow]]
    BY <1>1, <1>3
  <2> QED  BY <1>1, <2>1, <2>2 DEF TypeOK
<1>5. Stable
  BY <1>1 DEF Stable, Known
<1>6. RetryChainsBounded'
  BY <1>1 DEF RetryChainsBounded
<1>7. ReceiptsOK'
  BY <1>1, <1>3 DEF ReceiptsOK, ReceiptOK, Known, InFlight
<1>8. NoOrphanItems'
  BY <1>1, <1>3 DEF NoOrphanItems, ItemExists, Exists, InFlight
<1>9. ASSUME NEW d \in Conns PROVE PendingOK(d)'
  <2>1. CASE d = c
    BY <1>1, <2>1 DEF PendingOK, TypeOK, RunSteps, AddSteps, TouchSteps, RetrySteps
  <2>2. CASE d # c
    BY <1>1, <1>5, <2>2, StablePending DEF TypeOK, Exists
  <2> QED  BY <2>1, <2>2
<1>10. ASSUME NEW r \in Runs, Settled(r) PROVE Settled(r)'
  BY <1>1, <1>10 DEF Settled, Writing, TypeOK, RunSteps, AddSteps
<1>11. PruneOK'
  <2>1. Prunable' = Prunable /\ Prunable \subseteq Runs
    BY <1>1 DEF Prunable, TypeOK
  <2>2. ASSUME NEW d \in Conns, at'[d] = "prune_delete", NEW r \in req'[d].ids
        PROVE  at[d] = "prune_delete" /\ r \in req[d].ids /\ r \in Runs
    BY <1>1, <2>2 DEF TypeOK, Request
  <2> QED  BY <1>10, <2>1, <2>2 DEF PruneOK
<1> QED  BY <1>4, <1>6, <1>7, <1>8, <1>9, <1>11

\* The runs deleted are settled: nobody is about to write them or to add an item.
LEMMA PruneDeleteInv ==
    ASSUME IInv, NEW c \in Conns, PruneDelete(c)
    PROVE  IInv'
<1> USE DEF IInv
<1> DEFINE ids == req[c].ids
<1>1. /\ at[c] = "prune_delete" /\ ids \subseteq Runs /\ \A r \in ids : Settled(r)
      /\ \A r \in Runs : run'[r] = IF r \in ids THEN [run[r] EXCEPT !.state = "pruned"]
                                   ELSE run[r]
      /\ run' = [r \in Runs |-> run'[r]]
      /\ \A r \in Runs : item'[r] = IF r \in ids THEN [i \in Items |-> NoItemRow]
                                    ELSE item[r]
      /\ item' = [r \in Runs |-> item'[r]]
      /\ aged' = aged \ ids
      /\ at' = [at EXCEPT ![c] = "idle"] /\ req' = [req EXCEPT ![c] = NoRequest]
  BY DEF PruneDelete, Return, Goto, PruneOK, TypeOK, Request
<1> HIDE DEF ids
<1>2. \A r \in Runs : run[r] \in RunRow /\ item[r] \in [Items -> ItemRow]
  BY DEF TypeOK
<1>3. \A r \in Runs : run'[r] \in RunRow /\ item'[r] \in [Items -> ItemRow]
  BY <1>1, <1>2, NullTypes DEF RunRow
<1>4. TypeOK'
  <2>1. at' \in [Conns -> Steps \cup {"idle", "closed"}] /\ req' \in [Conns -> Request]
    BY <1>1, NullTypes DEF TypeOK
  <2>2. run' \in [Runs -> RunRow] /\ item' \in [Runs -> [Items -> ItemRow]]
    BY <1>1, <1>3
  <2> QED  BY <1>1, <2>1, <2>2 DEF TypeOK
<1>5. \A r \in ids : run[r].state # "unused" /\ run'[r].state = "pruned"
  BY <1>1, <1>2 DEF Settled, Terminal, RunRow
<1>6. Stable /\ \A r \in Runs : Known(r)' => Known(r)
  BY <1>1, <1>2, <1>5 DEF Stable, Known, RunRow
<1>7. RetryChainsBounded'
  BY <1>6, StableChains DEF RetryChainsBounded, Known
<1>8. ReceiptsOK'
  <2> SUFFICES ASSUME NEW r \in Runs, NEW i \in Items
               PROVE  ReceiptOK(r, item[r][i])'
    BY DEF ReceiptsOK
  <2>1. CASE r \in ids
    BY <1>1, <2>1 DEF ReceiptOK, NoItemRow
  <2>2. CASE r \notin ids /\ Known(r)
    <3>1. item'[r][i] = item[r][i] /\ item[r][i] \in ItemRow /\ ReceiptOK(r, item[r][i])
      BY <1>1, <1>2, <2>2 DEF ReceiptsOK
    <3> QED  BY <1>6, <2>2, <3>1, StableReceipt DEF ReceiptOK
  <2>3. CASE r \notin ids /\ ~Known(r)
    BY <1>1, <2>3 DEF NoOrphanItems, ItemExists, Exists, Known, ReceiptOK, ReceiptsOK,
                      RunState, InFlight, Terminal
  <2> QED  BY <2>1, <2>2, <2>3
<1>9. NoOrphanItems'
  BY <1>1 DEF NoOrphanItems, ItemExists, Exists, NoItemRow
<1>10. ASSUME NEW d \in Conns PROVE PendingOK(d)'
  <2>1. CASE d = c
    BY <1>1, <2>1 DEF PendingOK, TypeOK, RunSteps, AddSteps, TouchSteps, RetrySteps
  <2>2. CASE d # c
    <3>1. \A r \in Runs : Writing(d, r) => run'[r] = run[r]
      BY <1>1 DEF Settled
    <3> QED  BY <1>1, <1>6, <2>2, <3>1, StablePending DEF TypeOK, Exists
  <2> QED  BY <2>1, <2>2
<1>11. ASSUME NEW r \in Runs, Settled(r) PROVE Settled(r)'
  <2>1. run'[r].state \in Terminal \cup {"pruned"}
    BY <1>1, <1>5, <1>11 DEF Settled
  <2>2. ASSUME NEW d \in Conns PROVE ~Writing(d, r)'
    BY <1>1, <1>11 DEF Settled, Writing, TypeOK, RunSteps, AddSteps
  <2> QED  BY <2>1, <2>2 DEF Settled
<1>12. PruneOK'
  <2>1. Prunable' \subseteq Prunable /\ Prunable \subseteq Runs
    BY <1>1 DEF Prunable, TypeOK
  <2>2. ASSUME NEW d \in Conns, at'[d] = "prune_delete", NEW r \in req'[d].ids
        PROVE  at[d] = "prune_delete" /\ r \in req[d].ids /\ r \in Runs
    BY <1>1, <2>2 DEF TypeOK, Request
  <2> QED  BY <1>11, <2>1, <2>2 DEF PruneOK
<1> QED  BY <1>4, <1>7, <1>8, <1>9, <1>10, <1>12

\* The passing of the retention window keeps the invariant.
LEMMA AgeInv ==
    ASSUME IInv, NEW a \in Runs, Age(a)
    PROVE  IInv'
<1> USE DEF IInv
<1>1. /\ UNCHANGED <<run, item, at, req>> /\ aged' = aged \cup {a}
      /\ \A c \in Conns : req[c].run = a => at[c] \in TouchSteps \cup RetrySteps
  BY DEF Age
<1>2. TypeOK' /\ RetryChainsBounded' /\ NoOrphanItems' /\ ReceiptsOK'
  BY <1>1 DEF TypeOK, RetryChainsBounded, NoOrphanItems, ItemExists, Exists, ReceiptsOK,
              ReceiptOK, Known
<1>3. \A d \in Conns : PendingOK(d)'
  BY <1>1, StablePending DEF Stable, Known, Exists
<1>4. \A r \in Runs : Settled(r) => Settled(r)'
  BY <1>1 DEF Settled, Writing
<1>5. a \in Prunable' => Settled(a)'
  BY <1>1 DEF Prunable, Settled, Writing, RunSteps, AddSteps, TouchSteps, RetrySteps
<1>6. PruneOK'
  <2>1. Prunable' \subseteq Prunable \cup {a} /\ Prunable \subseteq Runs
    BY <1>1 DEF Prunable, TypeOK
  <2>2. \A d \in Conns : req[d].ids \subseteq Runs
    BY DEF TypeOK, Request
  <2> QED  BY <1>1, <1>4, <1>5, <2>1, <2>2 DEF PruneOK
<1> QED  BY <1>2, <1>3, <1>6

-----------------------------------------------------------------------------
(* The theorems.                                                           *)

\* The empty tables satisfy the invariant.
LEMMA InitInv == Init => IInv
<1> SUFFICES ASSUME Init PROVE IInv
  OBVIOUS
<1>1. TypeOK
  BY NullTypes DEF Init, TypeOK
<1>2. \A r \in Runs : run[r].state = "unused"
  BY DEF Init, NoRunRow
<1>3. \A r \in Runs, i \in Items : item[r][i].state = "none" /\ item[r][i].receipt = NoRun
  BY DEF Init, NoItemRow
<1>4. \A c \in Conns : at[c] = "closed"
  BY DEF Init
<1>5. \A c \in Conns : PendingOK(c)
  BY <1>4 DEF PendingOK, RunSteps, AddSteps, TouchSteps, RetrySteps
<1>6. PruneOK
  BY <1>4 DEF PruneOK, Prunable, Init
<1> QED  BY <1>1, <1>2, <1>3, <1>5, <1>6 DEF IInv, RetryChainsBounded, ReceiptsOK, ReceiptOK,
                                            NoOrphanItems, ItemExists

\* One step for every operation a connection can issue.
LEMMA CallInv ==
    ASSUME IInv, NEW c \in Conns, RunCall(c) \/ ItemCall(c)
    PROVE  IInv'
<1> USE DEF RunSteps, InFlight, ItemState
<1>1. ASSUME NEW r \in Runs, NEW m \in RetryArgs, Begin(c, r, m) PROVE IInv'
  BY <1>1, BeginInv
<1>2. ASSUME NEW r \in Runs, Start(c, r) PROVE IInv'
  BY <1>2, AssertStateInv DEF Start
<1>3. ASSUME NEW r \in Runs, NEW a \in ProgressArgs, Progress(c, r, a) PROVE IInv'
  BY <1>3, AssertStateInv, ConstantsAssumption DEF Progress
<1>4. ASSUME NEW r \in Runs, Complete(c, r) PROVE IInv'
  BY <1>4, AssertStateInv DEF Complete
<1>5. ASSUME NEW r \in Runs, Fail(c, r) PROVE IInv'
  BY <1>5, AssertStateInv DEF Fail
<1>6. ASSUME NEW r \in Runs, FailedToStart(c, r) PROVE IInv'
  BY <1>6, AssertStateInv DEF FailedToStart
<1>7. ASSUME NEW r \in Runs, Cancel(c, r) PROVE IInv'
  BY <1>7, AssertStateInv DEF Cancel
<1>8. ASSUME NEW r \in Runs, Timeout(c, r) PROVE IInv'
  BY <1>8, AssertStateInv DEF Timeout
<1>9. ASSUME NEW r \in Runs, Retry(c, r) PROVE IInv'
  BY <1>9, RetryInv
<1>10. ASSUME NEW r \in Runs, NEW i \in Items, ItemAdd(c, r, i) PROVE IInv'
  BY <1>10, ItemAddInv
<1>11. ASSUME NEW r \in Runs, NEW i \in Items, ItemStart(c, r, i) PROVE IInv'
  BY <1>11, AssertItemInv DEF ItemStart
<1>12. ASSUME NEW r \in Runs, NEW i \in Items, ItemComplete(c, r, i) PROVE IInv'
  BY <1>12, AssertItemInv DEF ItemComplete
<1>13. ASSUME NEW r \in Runs, NEW i \in Items, ItemFail(c, r, i) PROVE IInv'
  BY <1>13, AssertItemInv DEF ItemFail
<1>14. ASSUME NEW r \in Runs, NEW i \in Items, ItemCancel(c, r, i) PROVE IInv'
  BY <1>14, AssertItemInv DEF ItemCancel
<1> QED  BY <1>1, <1>2, <1>3, <1>4, <1>5, <1>6, <1>7, <1>8, <1>9, <1>10, <1>11, <1>12,
            <1>13, <1>14 DEF RunCall, ItemCall

\* Every step keeps the invariant.
LEMMA NextInv == IInv /\ [Next]_vars => IInv'
<1> SUFFICES ASSUME IInv, [Next]_vars PROVE IInv'
  OBVIOUS
<1>1. ASSUME NEW c \in Conns, RunCall(c) \/ ItemCall(c) PROVE IInv'
  BY <1>1, CallInv
<1>2. ASSUME NEW c \in Conns, Statement(c) PROVE IInv'
  <2>1. ASSUME NEW child \in Runs, RetryFork(c, child) PROVE IInv'
    BY <2>1, RetryForkInv
  <2> QED  BY <1>2, <2>1, WriteRunInv, InsertItemInv, CountAddedInv, TouchItemInv,
              TouchReadInv, TouchWriteInv, RetryItemsInv, PruneDeleteInv, RecoverRunsInv,
              RecoverItemsInv DEF Statement
<1>3. ASSUME NEW c \in Conns, Open(c) \/ Prune(c) PROVE IInv'
  BY <1>3, OpenInv, PruneInv
<1>4. ASSUME NEW c \in Conns, StatementError(c) \/ Crash(c) PROVE IInv'
  BY <1>4, ReturnInv DEF StatementError, Crash, Return
<1>5. ASSUME NEW r \in Runs, Age(r) PROVE IInv'
  BY <1>5, AgeInv
<1>6. CASE UNCHANGED vars
  <2>1. UNCHANGED <<run, item, aged, at, req>>
    BY <1>6 DEF vars
  <2>2. TypeOK' /\ RetryChainsBounded' /\ NoOrphanItems' /\ ReceiptsOK'
    BY <2>1 DEF IInv, TypeOK, RetryChainsBounded, NoOrphanItems, ItemExists, Exists,
                ReceiptsOK, ReceiptOK, Known
  <2>3. \A d \in Conns : PendingOK(d)'
    BY <2>1, StablePending DEF Stable, Known, Exists
  <2>4. PruneOK'
    BY <2>1 DEF IInv, PruneOK, Prunable, Settled, Writing
  <2> QED  BY <2>2, <2>3, <2>4 DEF IInv
<1> QED  BY <1>1, <1>2, <1>3, <1>4, <1>5, <1>6 DEF Next

\* However many connections interleave, crash or fail between two statements, the
\* rows of op_runs and op_run_items stay well formed (op_runs.rs).
THEOREM TypeCorrect == Spec => []TypeOK
<1>1. IInv => TypeOK
  BY DEF IInv
<1> QED  BY <1>1, InitInv, NextInv, PTL DEF Spec

\* retry is bounded along every chain of forks: no run has been retried more often
\* than the limit its first ancestor was begun with, at most 10.
THEOREM RetriesBounded == Spec => []RetryChainsBounded
<1>1. IInv => RetryChainsBounded
  BY DEF IInv
<1> QED  BY <1>1, InitInv, NextInv, PTL DEF Spec

\* Every receipt an item carries comes from its own retry chain and from no later
\* run of it: concurrent forks never mix the receipts of different work.
THEOREM ReceiptsStayInLineage == Spec => []ReceiptsInLineage
<1>1. IInv => ReceiptsInLineage
  BY DEF IInv, ReceiptsOK, ReceiptOK, ReceiptsInLineage
<1> QED  BY <1>1, InitInv, NextInv, PTL DEF Spec

\* op_run_items has no foreign key, and still no interleaving of prune, retry and
\* item_add leaves an item row without its run.
THEOREM ItemsHaveRuns == Spec => []NoOrphanItems
<1>1. IInv => NoOrphanItems
  BY DEF IInv
<1> QED  BY <1>1, InitInv, NextInv, PTL DEF Spec

-----------------------------------------------------------------------------
\* Only the delete of prune turns a run into a pruned one, and it finds it terminal.
LEMMA PruneStep ==
    ASSUME IInv, [Next]_vars, NEW r \in Runs,
           run'[r].state = "pruned", run[r].state # "pruned"
    PROVE  run[r].state \in Terminal
<1>0. run \in [Runs -> RunRow] /\ req \in [Conns -> Request] /\ \A c \in Conns : PendingOK(c)
  BY DEF IInv, TypeOK
<1>1. CASE run' = run BY <1>1
<1>2. ASSUME NEW c \in Conns, PruneDelete(c) PROVE run[r].state \in Terminal
  <2>1. r \in req[c].ids BY <1>0, <1>2 DEF PruneDelete
  <2> QED BY <1>2, <2>1 DEF PruneDelete, IInv, PruneOK, Settled
<1>3. ASSUME NEW s \in Runs, NEW row, UpdateRun(s, row), row.state # "pruned" PROVE FALSE
  BY <1>0, <1>3 DEF UpdateRun
<1>4. ASSUME NEW c \in Conns, WriteRun(c) PROVE FALSE
  <2> DEFINE s == req[c].run
             row == Written(at[c], run[s], req[c])
  <2>1. at[c] \in RunSteps /\ s \in Runs /\ Exists(s) /\ UpdateRun(s, row)
    BY <1>0, <1>4 DEF WriteRun, PendingOK
  <2>2. row.state # "pruned"
    BY <1>0, <2>1 DEF Written, RunRow, RunSteps, Exists, RunState, InFlight, Terminal
  <2> HIDE DEF s, row
  <2> QED BY <1>3, <2>1, <2>2
<1>5. ASSUME NEW c \in Conns, CountAdded(c) PROVE FALSE
  <2> DEFINE s == req[c].run
             row == Added(run[s], req[c].snap)
  <2>1. s \in Runs /\ Exists(s) /\ UpdateRun(s, row)
    BY <1>0, <1>5 DEF CountAdded, PendingOK, AddSteps
  <2>2. row.state # "pruned"
    BY <1>0, <2>1 DEF Added, RunRow, Exists, RunState, InFlight, Terminal
  <2> HIDE DEF s, row
  <2> QED BY <1>3, <2>1, <2>2
<1>6. ASSUME NEW c \in Conns, TouchWrite(c) PROVE FALSE
  <2> DEFINE s == req[c].run
             n == req[c].args
  <2>1. s \in Runs /\ run[s] \in RunRow
    BY <1>0, <1>6 DEF TouchWrite, PendingOK, TouchSteps
  <2>2. UpdateRun(s, [run[s] EXCEPT !.done = n[2], !.failed = n[3],
                                    !.unattempted = Max0(n[1] - n[2] - n[3])])
    BY <1>6 DEF TouchWrite
  <2> HIDE DEF s, n
  <2>3. run'[r].state = run[r].state
    BY <1>0, <2>1, <2>2 DEF UpdateRun, RunRow
  <2> QED BY <2>3
<1>7. ASSUME NEW c \in Conns, NEW child \in Runs, RetryFork(c, child) PROVE FALSE
  BY <1>0, <1>7 DEF RetryFork
<1>8. ASSUME NEW c \in Conns, NEW s \in Runs, NEW m \in RetryArgs, Begin(c, s, m) PROVE FALSE
  BY <1>0, <1>8 DEF Begin, NoRunRow
<1>9. ASSUME NEW c \in Conns, RecoverRuns(c) PROVE FALSE
  BY <1>0, <1>9 DEF RecoverRuns, RunRow
<1>10. ASSUME NEW c \in Conns, ItemCall(c) PROVE run' = run
  BY <1>10 DEF ItemCall, ItemAdd, ItemStart, ItemComplete, ItemFail, ItemCancel, AssertItem
<1>11. ASSUME NEW c \in Conns, RunCall(c) PROVE run' = run
  <2>1. \/ \E s \in Runs, a \in ProgressArgs : Progress(c, s, a)
        \/ \E s \in Runs : \/ Start(c, s) \/ Complete(c, s) \/ Fail(c, s) \/ FailedToStart(c, s)
                           \/ Cancel(c, s) \/ Timeout(c, s) \/ Retry(c, s)
    BY <1>8, <1>11 DEF RunCall
  <2> QED BY <2>1 DEF Progress, Start, Complete, Fail, FailedToStart, Cancel, Timeout, Retry,
                      AssertState
<1>12. ASSUME NEW c \in Conns, \/ InsertItem(c) \/ TouchItem(c) \/ TouchRead(c) \/ RetryItems(c)
                               \/ RecoverItems(c) \/ Open(c) \/ Prune(c) \/ StatementError(c)
                               \/ Crash(c)
       PROVE  run' = run
  BY <1>12 DEF InsertItem, TouchItem, TouchRead, RetryItems, RecoverItems, Open, Prune,
               StatementError, Crash
<1>13. ASSUME NEW s \in Runs, Age(s) PROVE run' = run BY <1>13 DEF Age
<1>14. UNCHANGED vars => run' = run BY DEF vars
<1>15. ASSUME NEW c \in Conns, Statement(c) PROVE run[r].state \in Terminal
  BY <1>1, <1>2, <1>4, <1>5, <1>6, <1>7, <1>9, <1>12, <1>15 DEF Statement
<1> QED BY <1>1, <1>10, <1>11, <1>12, <1>13, <1>14, <1>15 DEF Next

\* prune selects runs in one statement and deletes them by id in another, and still
\* it never deletes a run that is in flight, on any number of connections.
THEOREM PrunesTerminalOnly == Spec => PrunesOnlyTerminal
<1>1. IInv /\ [Next]_vars =>
        [\A r \in Runs : run'[r].state = "pruned" /\ run[r].state # "pruned"
                           => run[r].state \in Terminal]_vars
  BY PruneStep
<1> QED BY <1>1, InitInv, NextInv, PTL DEF Spec, PrunesOnlyTerminal

-----------------------------------------------------------------------------
(* The contract of docs/specs/durable-op-states.md, with one connection.   *)

\* The states in which assert_state lets a run operation go on.
Admits(op) ==
    CASE op \in {"start", "failed_to_start"} -> {"queued"}
      [] op = "cancel" -> InFlight
      [] OTHER -> {"running"}

\* The state that a connection has checked is still that of the run when it writes.
Fresh(c) == at[c] \in RunSteps => run[req[c].run].state \in Admits(at[c])

\* A call that goes on with a statement that writes no run by what it has read.
LEMMA ElsewhereFresh ==
    ASSUME TypeOK, NEW c \in Conns, NEW s, NEW q, Goto(c, s, q), s \notin RunSteps
    PROVE  Fresh(c)'
BY DEF TypeOK, Goto, Fresh

LEMMA AssertFresh ==
    ASSUME TypeOK, NEW c \in Conns, NEW r \in Runs, NEW op \in RunSteps, NEW a,
           AssertState(c, r, Admits(op), op, a)
    PROVE  Fresh(c)' /\ run' = run
<1> DEFINE q == [NoRequest EXCEPT !.run = r, !.args = a,
                    !.snap = IF op = "progress" THEN Counters(r) ELSE NoRunRow]
<1>1. Goto(c, op, q) /\ run' = run /\ run[r].state \in Admits(op)
  BY DEF AssertState
<1>2. q.run = r
  BY DEF NoRequest
<1> HIDE DEF q
<1>3. at'[c] = op /\ req'[c] = q
  BY <1>1 DEF TypeOK, Goto
<1> QED BY <1>1, <1>2, <1>3 DEF Fresh

LEMMA CallFresh ==
    ASSUME TypeOK, NEW c \in Conns, RunCall(c) \/ ItemCall(c)
    PROVE  Fresh(c)'
<1> USE DEF RunSteps
<1>1. ASSUME NEW r \in Runs, NEW m \in RetryArgs, Begin(c, r, m) PROVE Fresh(c)'
  BY <1>1 DEF Begin, Fresh
<1>2. ASSUME NEW r \in Runs, Start(c, r) PROVE Fresh(c)'
  BY <1>2, AssertFresh DEF Start, Admits
<1>3. ASSUME NEW r \in Runs, NEW a \in ProgressArgs, Progress(c, r, a) PROVE Fresh(c)'
  BY <1>3, AssertFresh DEF Progress, Admits
<1>4. ASSUME NEW r \in Runs, Complete(c, r) PROVE Fresh(c)'
  BY <1>4, AssertFresh DEF Complete, Admits
<1>5. ASSUME NEW r \in Runs, Fail(c, r) PROVE Fresh(c)'
  BY <1>5, AssertFresh DEF Fail, Admits
<1>6. ASSUME NEW r \in Runs, FailedToStart(c, r) PROVE Fresh(c)'
  BY <1>6, AssertFresh DEF FailedToStart, Admits
<1>7. ASSUME NEW r \in Runs, Cancel(c, r) PROVE Fresh(c)'
  BY <1>7, AssertFresh DEF Cancel, Admits
<1>8. ASSUME NEW r \in Runs, Timeout(c, r) PROVE Fresh(c)'
  BY <1>8, AssertFresh DEF Timeout, Admits
<1>9. ASSUME NEW r \in Runs, Retry(c, r) PROVE Fresh(c)'
  BY <1>9, ElsewhereFresh DEF Retry
<1>10. ASSUME NEW r \in Runs, NEW i \in Items,
              \/ ItemAdd(c, r, i) \/ ItemStart(c, r, i) \/ ItemComplete(c, r, i)
              \/ ItemFail(c, r, i) \/ ItemCancel(c, r, i)
       PROVE  Fresh(c)'
  BY <1>10, ElsewhereFresh
     DEF ItemAdd, ItemStart, ItemComplete, ItemFail, ItemCancel, AssertItem
<1> QED BY <1>1, <1>2, <1>3, <1>4, <1>5, <1>6, <1>7, <1>8, <1>9, <1>10 DEF RunCall, ItemCall

LEMMA StatementFresh ==
    ASSUME TypeOK, NEW c \in Conns, Statement(c)
    PROVE  Fresh(c)'
<1> USE DEF RunSteps
<1>1. CASE \/ WriteRun(c) \/ CountAdded(c) \/ TouchWrite(c) \/ PruneDelete(c) \/ RecoverItems(c)
           \/ \E child \in Runs : RetryFork(c, child)
  <2>1. Return(c)
    BY <1>1 DEF WriteRun, CountAdded, TouchWrite, PruneDelete, RecoverItems, RetryFork
  <2> QED BY <2>1, ElsewhereFresh DEF Return
<1>2. CASE InsertItem(c)
  BY <1>2, ElsewhereFresh DEF InsertItem, Return
<1>3. CASE TouchItem(c)
  BY <1>3, ElsewhereFresh DEF TouchItem
<1>4. CASE TouchRead(c)
  BY <1>4, ElsewhereFresh DEF TouchRead, Return
<1>5. CASE RetryItems(c)
  BY <1>5, ElsewhereFresh DEF RetryItems, Return
<1>6. CASE RecoverRuns(c)
  BY <1>6, ElsewhereFresh DEF RecoverRuns
<1> QED BY <1>1, <1>2, <1>3, <1>4, <1>5, <1>6 DEF Statement

LEMMA NextFresh ==
    ASSUME TypeOK, NEW c, Conns = {c}, Fresh(c), [Next]_vars
    PROVE  Fresh(c)'
<1>1. CASE RunCall(c) \/ ItemCall(c)  BY <1>1, CallFresh
<1>2. CASE Statement(c)  BY <1>2, StatementFresh
<1>3. CASE Open(c) \/ Prune(c) \/ StatementError(c) \/ Crash(c)
  BY <1>3, ElsewhereFresh DEF Open, Prune, StatementError, Crash, Return, RunSteps
<1>4. CASE UNCHANGED vars \/ \E r \in Runs : Age(r)
  <2>1. UNCHANGED <<run, item, at, req>>
    BY <1>4 DEF vars, Age
  <2> QED BY <2>1 DEF Fresh
<1> QED BY <1>1, <1>2, <1>3, <1>4 DEF Next

-----------------------------------------------------------------------------
(* The life cycle.                                                         *)

States == [r \in Runs |-> run[r].state]

\* One run changes its state.
LEMMA OneMoves ==
    ASSUME TypeOK, NEW r \in Runs, NEW row, run' = [run EXCEPT ![r] = row],
           row.state \in Lifecycle!Successors(run[r].state)
    PROVE  Lifecycle!Next
<1>1. States' = [States EXCEPT ![r] = row.state]
  BY DEF TypeOK, States
<1>2. Lifecycle!Move(r)
  BY <1>1 DEF Lifecycle!Move, States
<1> QED BY <1>2 DEF Lifecycle!Next

\* A write that keeps the state.
LEMMA StateKept ==
    ASSUME TypeOK, NEW r, NEW row, UpdateRun(r, row), r \in Runs => row.state = run[r].state
    PROVE  States' = States
BY DEF TypeOK, UpdateRun, States

LEMMA WriteMoves ==
    ASSUME IInv, NEW c \in Conns, Fresh(c), WriteRun(c)
    PROVE  Lifecycle!Next \/ States' = States
<1> DEFINE r == req[c].run
           row == Written(at[c], run[r], req[c])
<1>1. TypeOK /\ at[c] \in RunSteps /\ UpdateRun(r, row) /\ run[r].state \in Admits(at[c])
  BY DEF WriteRun, Fresh, IInv
<1>2. r \in Runs /\ Exists(r) /\ run[r] \in RunRow
  BY <1>1 DEF IInv, PendingOK, TypeOK
<1>3. CASE at[c] = "progress"
  <2>1. row.state = run[r].state
    BY <1>2, <1>3 DEF Written, RunRow
  <2> QED BY <1>1, <2>1, StateKept
<1>4. CASE at[c] # "progress"
  <2>1. run' = [run EXCEPT ![r] = row]
    BY <1>1, <1>2 DEF UpdateRun
  <2>2. row.state \in Lifecycle!Successors(run[r].state)
    BY <1>1, <1>2, <1>4
       DEF Written, RunSteps, RunRow, Admits, InFlight, Lifecycle!Successors
  <2> HIDE DEF r, row
  <2> QED BY <1>1, <1>2, <2>1, <2>2, OneMoves
<1> QED BY <1>3, <1>4

LEMMA StatementMoves ==
    ASSUME IInv, NEW c \in Conns, Fresh(c), Statement(c)
    PROVE  Lifecycle!Next \/ States' = States
<1>0. TypeOK /\ run \in [Runs -> RunRow]
  BY DEF IInv, TypeOK
<1>1. CASE WriteRun(c)  BY <1>1, WriteMoves
<1>2. CASE InsertItem(c) \/ TouchItem(c) \/ TouchRead(c) \/ RetryItems(c) \/ RecoverItems(c)
  BY <1>2 DEF InsertItem, TouchItem, TouchRead, RetryItems, RecoverItems, States
<1>3. CASE CountAdded(c)
  <2> DEFINE r == req[c].run
             row == Added(run[r], req[c].snap)
  <2>1. UpdateRun(r, row)
    BY <1>3 DEF CountAdded
  <2>2. r \in Runs => row.state = run[r].state
    BY <1>0 DEF Added, RunRow
  <2> QED BY <1>0, <2>1, <2>2, StateKept
<1>4. CASE TouchWrite(c)
  <2> DEFINE r == req[c].run
             n == req[c].args
             row == [run[r] EXCEPT !.done = n[2], !.failed = n[3],
                                   !.unattempted = Max0(n[1] - n[2] - n[3])]
  <2>1. UpdateRun(r, row)
    BY <1>4 DEF TouchWrite
  <2>2. r \in Runs => row.state = run[r].state
    BY <1>0 DEF RunRow
  <2> HIDE DEF row
  <2> QED BY <1>0, <2>1, <2>2, StateKept
<1>5. ASSUME NEW child \in Runs, RetryFork(c, child) PROVE Lifecycle!Next
  <2>1. run[child].state = "unused"
        /\ \E row : row.state = "queued" /\ run' = [run EXCEPT ![child] = row]
    BY <1>5 DEF RetryFork
  <2> QED BY <1>0, <2>1, OneMoves DEF Lifecycle!Successors
<1>6. CASE PruneDelete(c)
  <2> DEFINE S == {r \in req[c].ids : run[r].state \in Terminal}
  <2>1. run' = [r \in Runs |-> IF r \in req[c].ids THEN [run[r] EXCEPT !.state = "pruned"]
                               ELSE run[r]]
    BY <1>6 DEF PruneDelete
  <2>2. req[c].ids \subseteq Runs /\ \A r \in req[c].ids : run[r].state \in Terminal \cup {"pruned"}
    BY <1>6 DEF IInv, TypeOK, Request, PruneOK, Settled, PruneDelete
  <2>3. States' = [r \in Runs |-> IF r \in S THEN "pruned" ELSE States[r]]
    <3>1. ASSUME NEW r \in Runs
          PROVE  run'[r].state = IF r \in S THEN "pruned" ELSE run[r].state
      BY <1>0, <2>1, <2>2 DEF RunRow
    <3> QED BY <3>1 DEF States
  <2>4. S \in SUBSET {r \in Runs : States[r] \in Lifecycle!Final}
    BY <2>2 DEF States, Lifecycle!Final, Terminal
  <2> HIDE DEF S
  <2>5. Lifecycle!Prune
    BY <2>3, <2>4 DEF Lifecycle!Prune, States
  <2> QED BY <2>5 DEF Lifecycle!Next
<1>7. CASE RecoverRuns(c)
  <2>1. run' = [r \in Runs |-> IF run[r].state \in InFlight
                               THEN [run[r] EXCEPT !.state = "interrupted"] ELSE run[r]]
    BY <1>7 DEF RecoverRuns
  <2>2. ASSUME NEW r \in Runs
        PROVE  run'[r].state = IF run[r].state \in {"queued", "running"}
                               THEN "interrupted" ELSE run[r].state
    BY <1>0, <2>1 DEF RunRow, InFlight
  <2>3. Lifecycle!Restart
    BY <2>2 DEF Lifecycle!Restart
  <2> QED BY <2>3 DEF Lifecycle!Next
<1> QED BY <1>1, <1>2, <1>3, <1>4, <1>5, <1>6, <1>7 DEF Statement

LEMMA NextMoves ==
    ASSUME IInv, NEW c, Conns = {c}, Fresh(c), [Next]_vars
    PROVE  Lifecycle!Next \/ States' = States
<1>0. TypeOK /\ run \in [Runs -> RunRow]
  BY DEF IInv, TypeOK
<1>1. CASE run' = run  BY <1>1 DEF States
<1>2. ASSUME NEW r \in Runs, NEW m \in RetryArgs, Begin(c, r, m) PROVE Lifecycle!Next
  <2> DEFINE row == [NoRunRow EXCEPT !.state = "queued", !.max = ClampRetries(m), !.digest = r]
  <2>1. run[r].state = "unused" /\ run' = [run EXCEPT ![r] = row]
    BY <1>2 DEF Begin
  <2>2. row.state = "queued"
    BY DEF NoRunRow
  <2> HIDE DEF row
  <2> QED BY <1>0, <2>1, <2>2, OneMoves DEF Lifecycle!Successors
<1>3. ASSUME NEW r \in Runs,
             \/ \E a \in ProgressArgs : Progress(c, r, a)
             \/ Start(c, r) \/ Complete(c, r) \/ Fail(c, r) \/ FailedToStart(c, r)
             \/ Cancel(c, r) \/ Timeout(c, r) \/ Retry(c, r)
      PROVE  run' = run
  BY <1>3 DEF Progress, Start, Complete, Fail, FailedToStart, Cancel, Timeout, Retry, AssertState
<1>4. CASE RunCall(c)
  BY <1>1, <1>2, <1>3, <1>4 DEF RunCall
<1>5. CASE ItemCall(c)
  BY <1>1, <1>5 DEF ItemCall, ItemAdd, ItemStart, ItemComplete, ItemFail, ItemCancel, AssertItem
<1>6. CASE Statement(c)  BY <1>6, StatementMoves
<1>7. CASE Open(c) \/ Prune(c) \/ StatementError(c) \/ Crash(c)
  BY <1>1, <1>7 DEF Open, Prune, StatementError, Crash
<1>8. CASE UNCHANGED vars \/ \E r \in Runs : Age(r)
  BY <1>1, <1>8 DEF vars, Age
<1> QED BY <1>4, <1>5, <1>6, <1>7, <1>8 DEF Next

\* With one connection the table keeps the documented life cycle of a run: no step
\* of any sequence of calls, statement failures, crashes, recoveries, retries and
\* prunes takes a run anywhere else, for any number of runs and items.
THEOREM LifecycleRefined ==
    ASSUME NEW c, Conns = {c}
    PROVE  Spec => ImplementsLifecycle
<1>1. Init => IInv /\ Fresh(c)
  BY InitInv DEF Init, Fresh, RunSteps
<1>2. IInv /\ Fresh(c) /\ [Next]_vars => IInv' /\ Fresh(c)'
  BY NextInv, NextFresh DEF IInv
<1>3. Init => Lifecycle!Init
  BY DEF Init, Lifecycle!Init, NoRunRow
<1>4. IInv /\ Fresh(c) /\ [Next]_vars => [Lifecycle!Next]_States
  BY NextMoves
<1> QED BY <1>1, <1>2, <1>3, <1>4, PTL DEF Spec, ImplementsLifecycle, Lifecycle!Spec, States

-----------------------------------------------------------------------------
(* Maintenance.                                                            *)

\* A thread belongs to a process, and the mark for none is not a thread.
ThreadConstants == Home \in [Threads -> Processes] /\ NoThread \notin Threads

DutyFields == {"step", "op", "nested", "tries", "paused", "said", "panics"}

\* The steps in which a call has the slot of its process.
HasSlot(d) == d.step \in {"name", "work", "drop", "dropped"} \/ (d.step = "stamp" /\ d.op = "tool")

\* The steps in which the process names it, until the drop removes the name.
IsNamed(d) == d.step \in {"work", "drop"} \/ (d.step = "stamp" /\ d.op = "tool")

\* What a call has gone through: it says nothing before its stamp, and a pause
\* that it has not told of is noted in the flag b of its thread.
DutyKept(d, b) ==
    /\ "step" \in DOMAIN d
    /\ d.step # "idle" =>
        /\ DutyFields \subseteq DOMAIN d
        /\ d.step \in {"window", "probe", "lock", "name"} => ~d.paused /\ d.said = "nothing"
        /\ d.step \in {"work", "second", "stamp"} => d.said = "nothing"
        /\ d.step = "second" => d.op # "tool"
        /\ d.step \in {"drop", "dropped"} /\ d.op # "tool" => d.said \in {"nothing", "error"}
        /\ d.paused => d.said # "complete" /\ (d.said = "nothing" => b)

SlotInv ==
    /\ DOMAIN duty = Threads /\ flag = [u \in Threads |-> flag[u]]
    /\ DOMAIN slot = Processes /\ DOMAIN holder = Processes
    /\ \A t \in Threads : DutyKept(duty[t], flag[t])
    /\ \A t \in Threads : HasSlot(duty[t]) => slot[Home[t]] = t
    /\ \A p \in Processes : slot[p] # NoThread =>
           slot[p] \in Threads /\ Home[slot[p]] = p /\ HasSlot(duty[slot[p]])
    /\ \A p \in Processes : holder[p] # "none" =>
           slot[p] # NoThread /\ IsNamed(duty[slot[p]]) /\ holder[p] = Slot!Names(slot[p])

LEMMA SlotInitInv == ThreadConstants /\ Slot!Init => SlotInv
  BY DEF ThreadConstants, Slot!Init, Slot!Idle, SlotInv, DutyKept, HasSlot

\* A step of one call that leaves the slot and its name alone, and that
\* changes no flag but its own.
LEMMA DutyMovesInv ==
    ASSUME ThreadConstants, SlotInv, NEW t \in Threads, NEW d, NEW b,
           duty' = [duty EXCEPT ![t] = d], flag' = [flag EXCEPT ![t] = b],
           DutyKept(d, b), d.step # "idle" /\ duty[t].step # "idle" => d.op = duty[t].op,
           HasSlot(d) <=> HasSlot(duty[t]), IsNamed(duty[t]) => IsNamed(d),
           UNCHANGED <<slot, holder>>
    PROVE  SlotInv'
  <1>1. ASSUME NEW u \in Threads
        PROVE  /\ DutyKept(duty'[u], flag'[u])
               /\ HasSlot(duty'[u]) <=> HasSlot(duty[u])
               /\ IsNamed(duty[u]) => IsNamed(duty'[u])
    <2>1. CASE u = t
      BY <2>1 DEF SlotInv
    <2>2. CASE u # t
      BY <2>2 DEF SlotInv
    <2>3. QED
      BY <2>1, <2>2
  <1>2. ASSUME NEW u \in Threads, IsNamed(duty[u]) PROVE Slot!Names(u)' = Slot!Names(u)
    <2>1. CASE u = t
      <3>1. IsNamed(d) /\ duty'[t] = d
        BY <1>2, <2>1 DEF SlotInv
      <3>2. duty'[t].op = duty[t].op
        BY <1>2, <2>1, <3>1 DEF IsNamed
      <3>3. QED
        BY <2>1, <3>2 DEF Slot!Names
    <2>2. CASE u # t
      BY <2>2 DEF SlotInv, Slot!Names
    <2>3. QED
      BY <2>1, <2>2
  <1>3. \A p \in Processes : slot[p] # NoThread =>
            slot[p] \in Threads /\ Home[slot[p]] = p /\ HasSlot(duty'[slot[p]])
    BY <1>1 DEF SlotInv
  <1>4. ASSUME NEW p \in Processes, holder[p] # "none"
        PROVE  slot[p] # NoThread /\ IsNamed(duty'[slot[p]]) /\ holder[p] = Slot!Names(slot[p])'
    <2>1. slot[p] \in Threads /\ IsNamed(duty[slot[p]]) /\ holder[p] = Slot!Names(slot[p])
      BY <1>4 DEF SlotInv
    <2>2. ASSUME NEW u, u = slot[p] PROVE holder[p] = Slot!Names(u)'
      BY <1>2, <2>1, <2>2
    <2>3. slot[p] = slot'[p]
      OBVIOUS
    <2>4. QED
      BY <1>1, <1>4, <2>1, <2>2, <2>3 DEF SlotInv, Slot!Names
  <1>5. DOMAIN duty' = Threads /\ flag' = [u \in Threads |-> flag'[u]]
    BY DEF SlotInv
  <1>6. QED
    BY <1>1, <1>3, <1>4, <1>5 DEF SlotInv, Slot!Names

\* The same for a step that also leaves the flag alone.
LEMMA DutyStepsInv ==
    ASSUME ThreadConstants, SlotInv, NEW t \in Threads, NEW d, Slot!Go(t, d),
           DutyKept(d, flag[t]), d.step # "idle" /\ duty[t].step # "idle" => d.op = duty[t].op,
           HasSlot(d) <=> HasSlot(duty[t]), IsNamed(duty[t]) => IsNamed(d),
           UNCHANGED <<slot, holder, flag>>
    PROVE  SlotInv'
  <1>1. flag' = [flag EXCEPT ![t] = flag[t]]
    BY DEF SlotInv
  <1>2. QED
    BY <1>1, DutyMovesInv DEF Slot!Go

LEMMA CallPreservesSlot ==
    ASSUME ThreadConstants, SlotInv, NEW t \in Threads, NEW op, NEW force,
           Slot!Call(t, op, force)
    PROVE  SlotInv'
  <1> DEFINE d == [step |-> IF force THEN "lock" ELSE "window", op |-> op, nested |-> FALSE,
                   tries |-> 1, paused |-> FALSE, said |-> "nothing", panics |-> FALSE]
  <1>1. Slot!Go(t, d) /\ UNCHANGED <<slot, holder, flag>> /\ duty[t].step = "idle"
    BY DEF Slot!Call, Slot!Does
  <1>2. /\ d.step \in {"lock", "window"} /\ d.paused = FALSE /\ d.said = "nothing"
        /\ DOMAIN d = DutyFields
    BY DEF DutyFields
  <1> HIDE DEF d
  <1>3. DutyKept(d, flag[t]) /\ ~HasSlot(d) /\ ~HasSlot(duty[t]) /\ ~IsNamed(duty[t])
    BY <1>1, <1>2 DEF DutyKept, HasSlot, IsNamed, DutyFields
  <1>4. QED
    BY <1>1, <1>3, DutyStepsInv

\* A call that ends without the slot.
LEMMA EndsPreservesSlot ==
    ASSUME ThreadConstants, SlotInv, NEW t \in Threads, Slot!Ends(t), ~HasSlot(duty[t]),
           UNCHANGED <<slot, holder, flag>>
    PROVE  SlotInv'
  <1>1. Slot!Go(t, Slot!Idle) /\ Slot!Idle.step = "idle" /\ DOMAIN Slot!Idle = {"step"}
    BY DEF Slot!Ends, Slot!Idle
  <1>2. DutyKept(Slot!Idle, flag[t]) /\ ~HasSlot(Slot!Idle) /\ ~IsNamed(duty[t])
    BY <1>1 DEF DutyKept, HasSlot, IsNamed
  <1>3. QED
    BY <1>1, <1>2, DutyStepsInv

LEMMA ChecksPreserveSlot ==
    ASSUME ThreadConstants, SlotInv, NEW t \in Threads,
           Slot!CheckWindow(t) \/ Slot!CheckBudget(t) \/ Slot!Return(t)
    PROVE  SlotInv'
  <1>1. /\ UNCHANGED <<slot, holder, flag>> /\ duty[t].step \in {"window", "probe", "return"}
        /\ DutyKept(duty[t], flag[t])
    BY DEF Slot!CheckWindow, Slot!CheckBudget, Slot!Return, Slot!Does, SlotInv
  <1>2. ~HasSlot(duty[t]) /\ ~IsNamed(duty[t])
    BY <1>1 DEF HasSlot, IsNamed
  <1>3. CASE Slot!Ends(t)
    BY <1>1, <1>2, <1>3, EndsPreservesSlot
  <1>4. CASE ~Slot!Ends(t)
    <2>1. PICK d : /\ Slot!Go(t, d)
                   /\ \/ d = [duty[t] EXCEPT !.step = "probe"]
                      \/ d = [duty[t] EXCEPT !.step = "lock"]
                      \/ d = [duty[t] EXCEPT !.step = "window", !.nested = TRUE]
      BY <1>4 DEF Slot!CheckWindow, Slot!CheckBudget, Slot!Return, Slot!Step
    <2>2. duty[t].step \in {"window", "probe"}
      BY <1>1, <1>4 DEF Slot!CheckWindow, Slot!CheckBudget, Slot!Return, Slot!Does
    <2>3. DutyKept(d, flag[t]) /\ d.step \in {"window", "probe", "lock"} /\ d.op = duty[t].op
      BY <1>1, <2>1, <2>2 DEF DutyKept, DutyFields
    <2>4. ~HasSlot(d)
      BY <2>3 DEF HasSlot
    <2>5. QED
      BY <1>1, <1>2, <2>1, <2>3, <2>4, DutyStepsInv
  <1>5. QED
    BY <1>3, <1>4

\* try_lock takes a slot that is free.
LEMMA TryLockPreservesSlot ==
    ASSUME ThreadConstants, SlotInv, NEW t \in Threads, Slot!TryLock(t)
    PROVE  SlotInv'
  <1>1. /\ UNCHANGED <<holder, flag>> /\ duty[t].step = "lock" /\ DutyKept(duty[t], flag[t])
        /\ Home[t] \in Processes
    BY DEF Slot!TryLock, Slot!Does, SlotInv, ThreadConstants
  <1>2. ~HasSlot(duty[t]) /\ ~IsNamed(duty[t])
    BY <1>1 DEF HasSlot, IsNamed
  <1>3. CASE slot' = slot /\ Slot!Ends(t)
    BY <1>1, <1>2, <1>3, EndsPreservesSlot
  <1>4. CASE slot' = slot /\ Slot!Go(t, [duty[t] EXCEPT !.tries = @ + 1])
    <2> DEFINE d == [duty[t] EXCEPT !.tries = @ + 1]
    <2>1. DutyKept(d, flag[t]) /\ d.step = "lock" /\ d.op = duty[t].op
      BY <1>1 DEF DutyKept, DutyFields
    <2> HIDE DEF d
    <2>2. ~HasSlot(d)
      BY <2>1 DEF HasSlot
    <2>3. Slot!Go(t, d)
      BY <1>4 DEF d
    <2>4. QED
      BY <1>1, <1>2, <1>4, <2>1, <2>2, <2>3, DutyStepsInv
  <1>5. CASE /\ slot[Home[t]] = NoThread /\ slot' = [slot EXCEPT ![Home[t]] = t]
             /\ Slot!Step(t, "name")
    <2> DEFINE d == [duty[t] EXCEPT !.step = "name"]
    <2>1. duty' = [duty EXCEPT ![t] = d]
      BY <1>5 DEF Slot!Step, Slot!Go
    <2>2. DutyKept(d, flag[t]) /\ d.step = "name"
      BY <1>1 DEF DutyKept, DutyFields
    <2> HIDE DEF d
    <2>3. HasSlot(d)
      BY <2>2 DEF HasSlot
    <2>4. \A u \in Threads : DutyKept(duty'[u], flag'[u])
      BY <1>1, <2>1, <2>2 DEF SlotInv
    <2>5. \A u \in Threads : HasSlot(duty'[u]) => slot'[Home[u]] = u
      BY <1>5, <2>1 DEF SlotInv, ThreadConstants
    <2>6. \A p \in Processes : slot'[p] # NoThread =>
              slot'[p] \in Threads /\ Home[slot'[p]] = p /\ HasSlot(duty'[slot'[p]])
      BY <1>2, <1>5, <2>1, <2>3 DEF SlotInv
    <2>7. ASSUME NEW p \in Processes, holder'[p] # "none"
          PROVE  /\ slot'[p] # NoThread /\ IsNamed(duty'[slot'[p]])
                 /\ holder'[p] = Slot!Names(slot[p])'
      <3>1. p # Home[t] /\ slot[p] \in Threads /\ slot[p] # t /\ slot'[p] = slot[p]
        BY <1>1, <1>2, <1>5, <2>7 DEF SlotInv
      <3>2. duty'[slot[p]] = duty[slot[p]]
        BY <2>1, <3>1 DEF SlotInv
      <3>3. QED
        BY <1>1, <2>7, <3>1, <3>2 DEF SlotInv, Slot!Names
    <2>8. DOMAIN duty' = Threads /\ flag' = [u \in Threads |-> flag'[u]] /\ DOMAIN slot' = Processes
          /\ DOMAIN holder' = Processes
      BY <1>1, <1>5, <2>1 DEF SlotInv
    <2>9. QED
      BY <2>4, <2>5, <2>6, <2>7, <2>8 DEF SlotInv, Slot!Names
  <1>6. QED
    BY <1>3, <1>4, <1>5 DEF Slot!TryLock, Slot!Free

LEMMA NameHolderPreservesSlot ==
    ASSUME ThreadConstants, SlotInv, NEW t \in Threads, Slot!NameHolder(t)
    PROVE  SlotInv'
  <1> DEFINE d == [duty[t] EXCEPT !.step = "work"]
             p0 == Home[t]
  <1>1. /\ UNCHANGED <<slot, flag>> /\ duty[t].step = "name" /\ DutyKept(duty[t], flag[t])
        /\ holder' = [holder EXCEPT ![p0] = Slot!Names(t)]
        /\ duty' = [duty EXCEPT ![t] = d] /\ p0 \in Processes
    BY DEF Slot!NameHolder, Slot!Does, Slot!Step, Slot!Go, SlotInv, ThreadConstants
  <1>2. DutyKept(d, flag[t]) /\ d.step = "work" /\ d.op = duty[t].op
    BY <1>1 DEF DutyKept, DutyFields
  <1> HIDE DEF d, p0
  <1>3. HasSlot(d) /\ IsNamed(d) /\ HasSlot(duty[t])
    BY <1>1, <1>2 DEF HasSlot, IsNamed
  <1>4. slot[p0] = t
    BY <1>3 DEF SlotInv, p0
  <1>5. \A u \in Threads : DutyKept(duty'[u], flag'[u]) /\ (HasSlot(duty'[u]) <=> HasSlot(duty[u]))
    BY <1>1, <1>2, <1>3 DEF SlotInv
  <1>6. duty'[t].op = duty[t].op /\ duty'[t] = d
    BY <1>1, <1>2 DEF SlotInv
  <1>7. ASSUME NEW p \in Processes, holder'[p] # "none"
        PROVE  /\ slot'[p] # NoThread /\ IsNamed(duty'[slot'[p]])
               /\ holder'[p] = Slot!Names(slot[p])'
    <2>1. CASE p = p0
      <3>1. holder'[p] = Slot!Names(t)
        BY <1>1, <2>1 DEF SlotInv
      <3>2. Slot!Names(t)' = Slot!Names(t)
        BY <1>6 DEF Slot!Names
      <3>3. slot'[p] = t /\ slot[p] = t /\ t # NoThread
        BY <1>1, <1>4, <2>1 DEF ThreadConstants
      <3>4. QED
        BY <1>3, <1>6, <3>1, <3>2, <3>3 DEF Slot!Names
    <2>2. CASE p # p0
      <3>1. holder[p] = holder'[p] /\ slot'[p] = slot[p]
        BY <1>1, <2>2 DEF SlotInv
      <3>2. slot[p] # NoThread /\ Home[slot[p]] = p /\ slot[p] \in Threads
        BY <1>7, <3>1 DEF SlotInv
      <3>3. slot[p] # t
        BY <2>2, <3>2 DEF p0
      <3>4. duty'[slot[p]] = duty[slot[p]]
        BY <1>1, <3>2, <3>3 DEF SlotInv
      <3>5. QED
        BY <1>7, <3>1, <3>2, <3>4 DEF SlotInv, Slot!Names
    <2>3. QED
      BY <2>1, <2>2
  <1>8. /\ DOMAIN duty' = Threads /\ flag' = [u \in Threads |-> flag'[u]]
        /\ DOMAIN slot' = Processes /\ DOMAIN holder' = Processes
    BY <1>1 DEF SlotInv
  <1>9. \A p \in Processes : slot'[p] # NoThread =>
            slot'[p] \in Threads /\ Home[slot'[p]] = p /\ HasSlot(duty'[slot'[p]])
    BY <1>1, <1>5 DEF SlotInv
  <1>10. \A u \in Threads : HasSlot(duty'[u]) => slot'[Home[u]] = u
    BY <1>1, <1>5 DEF SlotInv
  <1>11. QED
    BY <1>5, <1>7, <1>8, <1>9, <1>10 DEF SlotInv, Slot!Names

\* A probe notes the pause in the flag of its own thread.
LEMMA PausePreservesSlot ==
    ASSUME ThreadConstants, SlotInv, NEW t \in Threads, Slot!Pause(t)
    PROVE  SlotInv'
  <1> DEFINE d == [duty[t] EXCEPT !.paused = TRUE]
  <1>1. /\ UNCHANGED <<slot, holder>> /\ duty[t].step \in {"work", "second"}
        /\ DutyKept(duty[t], flag[t]) /\ duty' = [duty EXCEPT ![t] = d]
    BY DEF Slot!Pause, Slot!Does, Slot!Go, SlotInv
  <1>2. flag' = [flag EXCEPT ![t] = TRUE]
    BY DEF Slot!Pause, Slot!Flag, Slot!Own, SlotInv
  <1>3. DutyKept(d, TRUE) /\ d.step = duty[t].step /\ d.op = duty[t].op
    BY <1>1 DEF DutyKept, DutyFields
  <1> HIDE DEF d
  <1>4. (HasSlot(d) <=> HasSlot(duty[t])) /\ (IsNamed(d) <=> IsNamed(duty[t]))
    BY <1>3 DEF HasSlot, IsNamed
  <1>5. QED
    BY <1>1, <1>2, <1>3, <1>4, DutyMovesInv

\* The stamp takes the flag and clears it: whatever it says, a pause of this
\* call has left the flag set.
LEMMA StampPreservesSlot ==
    ASSUME ThreadConstants, SlotInv, NEW t \in Threads, Slot!Stamp(t)
    PROVE  SlotInv'
  <1> DEFINE d == [duty[t] EXCEPT !.step = IF duty[t].op = "tool" THEN "drop" ELSE "return",
                                  !.said = IF flag[t] THEN "paused" ELSE "complete"]
  <1>1. /\ UNCHANGED <<slot, holder>> /\ duty[t].step = "stamp"
        /\ DutyKept(duty[t], flag[t]) /\ duty' = [duty EXCEPT ![t] = d]
    BY DEF Slot!Stamp, Slot!Does, Slot!Go, SlotInv
  <1>2. flag' = [flag EXCEPT ![t] = FALSE]
    BY DEF Slot!Stamp, Slot!Flag, Slot!Own, SlotInv
  <1>3. /\ d.op = duty[t].op /\ d.paused = duty[t].paused /\ DutyFields \subseteq DOMAIN d
        /\ d.step = (IF duty[t].op = "tool" THEN "drop" ELSE "return")
        /\ d.said = (IF flag[t] THEN "paused" ELSE "complete")
    BY <1>1 DEF DutyKept, DutyFields
  <1>4. duty[t].paused => flag[t]
    BY <1>1 DEF DutyKept
  <1> HIDE DEF d
  <1>5. DutyKept(d, FALSE)
    BY <1>1, <1>3, <1>4 DEF DutyKept, DutyFields
  <1>6. (HasSlot(d) <=> HasSlot(duty[t])) /\ (IsNamed(d) <=> IsNamed(duty[t]))
    BY <1>1, <1>3 DEF HasSlot, IsNamed
  <1>7. QED
    BY <1>1, <1>2, <1>3, <1>5, <1>6, DutyMovesInv

LEMMA WorkPreservesSlot ==
    ASSUME ThreadConstants, SlotInv, NEW t \in Threads,
           Slot!Finish(t) \/ Slot!Fail(t) \/ Slot!Panic(t) \/ Slot!SecondPhase(t)
    PROVE  SlotInv'
  <1>1. /\ UNCHANGED <<slot, holder, flag>> /\ DutyKept(duty[t], flag[t])
    BY DEF Slot!Finish, Slot!Fail, Slot!Panic, Slot!SecondPhase, SlotInv
  <1>2. CASE Slot!Finish(t)
    <2> DEFINE d == [duty[t] EXCEPT !.step = IF duty[t].op = "tool" THEN "stamp" ELSE "drop"]
    <2>1. Slot!Go(t, d) /\ duty[t].step = "work"
      BY <1>2 DEF Slot!Finish, Slot!Does, Slot!Step
    <2>2. /\ d.op = duty[t].op /\ d.paused = duty[t].paused /\ d.said = duty[t].said
          /\ d.step = (IF duty[t].op = "tool" THEN "stamp" ELSE "drop")
          /\ DutyFields \subseteq DOMAIN d
      BY <1>1, <2>1 DEF DutyKept, DutyFields
    <2> HIDE DEF d
    <2>3. DutyKept(d, flag[t])
      BY <1>1, <2>1, <2>2 DEF DutyKept, DutyFields
    <2>4. HasSlot(d) /\ HasSlot(duty[t]) /\ IsNamed(d)
      BY <2>1, <2>2 DEF HasSlot, IsNamed
    <2>5. QED
      BY <1>1, <2>1, <2>2, <2>3, <2>4, DutyStepsInv
  <1>3. CASE Slot!Fail(t) \/ Slot!Panic(t)
    <2>1. PICK d : /\ Slot!Go(t, d)
                   /\ \/ d = [duty[t] EXCEPT !.step = "drop", !.said = "error"]
                      \/ d = [duty[t] EXCEPT !.step = "drop", !.said = "error", !.panics = TRUE]
      BY <1>3 DEF Slot!Fail, Slot!Panic
    <2>2. duty[t].step = "work"
      BY <1>3 DEF Slot!Fail, Slot!Panic, Slot!Does
    <2>3. DutyKept(d, flag[t]) /\ d.step = "drop" /\ d.op = duty[t].op
      BY <1>1, <2>1, <2>2 DEF DutyKept, DutyFields
    <2>4. HasSlot(d) /\ HasSlot(duty[t]) /\ IsNamed(d)
      BY <2>2, <2>3 DEF HasSlot, IsNamed
    <2>5. QED
      BY <1>1, <2>1, <2>3, <2>4, DutyStepsInv
  <1>4. CASE Slot!SecondPhase(t)
    <2>1. PICK d : /\ Slot!Go(t, d)
                   /\ \/ d = [duty[t] EXCEPT !.step = "stamp"]
                      \/ d = [duty[t] EXCEPT !.step = "return", !.said = "error"]
      BY <1>4 DEF Slot!SecondPhase, Slot!Step
    <2>2. duty[t].step = "second" /\ duty[t].op # "tool"
      BY <1>1, <1>4 DEF Slot!SecondPhase, Slot!Does, DutyKept
    <2>3. DutyKept(d, flag[t]) /\ d.step \in {"stamp", "return"} /\ d.op = duty[t].op
      BY <1>1, <2>1, <2>2 DEF DutyKept, DutyFields
    <2>4. ~HasSlot(d) /\ ~HasSlot(duty[t]) /\ ~IsNamed(duty[t])
      BY <2>2, <2>3 DEF HasSlot, IsNamed
    <2>5. QED
      BY <1>1, <2>1, <2>3, <2>4, DutyStepsInv
  <1>5. QED
    BY <1>2, <1>3, <1>4

\* The drop removes the name while the slot is held, and then gives it back.
LEMMA DropPreservesSlot ==
    ASSUME ThreadConstants, SlotInv, NEW t \in Threads, Slot!DropLock(t)
    PROVE  SlotInv'
  <1> DEFINE p0 == Home[t]
  <1>1. /\ flag' = flag /\ DutyKept(duty[t], flag[t]) /\ p0 \in Processes
        /\ duty[t].step \in {"drop", "dropped"}
    BY DEF Slot!DropLock, Slot!Does, SlotInv, ThreadConstants
  <1>2. PICK s : Slot!Step(t, s) /\ s = IF duty[t].step = "drop" THEN "dropped" ELSE Slot!AfterSlot(t)
    BY DEF Slot!DropLock, Slot!Does
  <1>3. s = "dropped" \/ (s \in {"second", "return"} /\ duty[t].step = "dropped")
    BY <1>1, <1>2 DEF Slot!AfterSlot
  <1>4. s = "second" => duty[t].op # "tool" /\ duty[t].said # "error"
    BY <1>1, <1>2 DEF Slot!AfterSlot
  <1> DEFINE d == [duty[t] EXCEPT !.step = s]
  <1>5. duty' = [duty EXCEPT ![t] = d] /\ duty'[t] = d
    BY <1>2 DEF Slot!Step, Slot!Go, SlotInv
  <1>6. DutyKept(d, flag[t]) /\ d.step = s
    BY <1>1, <1>3, <1>4 DEF DutyKept, DutyFields
  <1> HIDE DEF d, p0
  <1>7. HasSlot(duty[t]) /\ slot[p0] = t
    BY <1>1 DEF HasSlot, SlotInv, p0
  <1>8. \A u \in Threads : DutyKept(duty'[u], flag'[u]) /\ (u # t => duty'[u] = duty[u])
    BY <1>1, <1>5, <1>6 DEF SlotInv
  <1>9. /\ holder'[p0] = "none" /\ \A p \in Processes \ {p0} : holder'[p] = holder[p]
        /\ DOMAIN holder' = Processes
    <2>1. CASE duty[t].step = "drop"
      <3>1. holder' = [holder EXCEPT ![p0] = "none"]
        BY <2>1 DEF Slot!DropLock, Slot!Does, Slot!RemoveHolder, p0
      <3>2. QED
        BY <1>1, <3>1 DEF SlotInv
    <2>2. CASE duty[t].step = "dropped"
      <3>1. holder' = holder /\ ~IsNamed(duty[t])
        BY <2>2 DEF Slot!DropLock, Slot!Does, IsNamed
      <3>2. holder[p0] = "none"
        BY <1>1, <1>7, <3>1 DEF SlotInv
      <3>3. QED
        BY <3>1, <3>2 DEF SlotInv
    <2>3. QED
      BY <1>1, <2>1, <2>2
  <1>10. /\ slot'[p0] = IF HasSlot(d) THEN t ELSE NoThread
         /\ \A p \in Processes \ {p0} : slot'[p] = slot[p]
         /\ DOMAIN slot' = Processes
    <2>1. CASE duty[t].step = "drop"
      <3>1. slot' = slot /\ HasSlot(d)
        BY <1>2, <1>6, <2>1 DEF Slot!DropLock, Slot!Does, HasSlot
      <3>2. QED
        BY <1>7, <3>1 DEF SlotInv
    <2>2. CASE duty[t].step = "dropped"
      <3>1. slot' = [slot EXCEPT ![p0] = NoThread]
        BY <2>2 DEF Slot!DropLock, Slot!Does, Slot!ReleaseSlot, p0
      <3>2. s \in {"second", "return"}
        BY <1>2, <2>2 DEF Slot!AfterSlot
      <3>3. ~HasSlot(d)
        BY <1>6, <3>2 DEF HasSlot
      <3>4. QED
        BY <1>1, <3>1, <3>3 DEF SlotInv
    <2>3. QED
      BY <1>1, <2>1, <2>2
  <1>11. ASSUME NEW u \in Threads, HasSlot(duty'[u]) PROVE slot'[Home[u]] = u
    <2>1. CASE u = t
      BY <1>5, <1>10, <1>11, <2>1 DEF p0
    <2>2. CASE u # t
      <3>1. slot[Home[u]] = u /\ Home[u] \in Processes
        BY <1>8, <1>11, <2>2 DEF SlotInv, ThreadConstants
      <3>2. Home[u] # p0
        BY <1>7, <2>2, <3>1
      <3>3. QED
        BY <1>10, <3>1, <3>2
    <2>3. QED
      BY <2>1, <2>2
  <1>12. ASSUME NEW p \in Processes, slot'[p] # NoThread
         PROVE  slot'[p] \in Threads /\ Home[slot'[p]] = p /\ HasSlot(duty'[slot'[p]])
    <2>1. CASE p = p0
      BY <1>5, <1>10, <1>12, <2>1 DEF p0
    <2>2. CASE p # p0
      <3>1. slot'[p] = slot[p] /\ slot[p] \in Threads /\ Home[slot[p]] = p /\ HasSlot(duty[slot[p]])
        BY <1>10, <1>12, <2>2 DEF SlotInv
      <3>2. slot[p] # t
        BY <2>2, <3>1 DEF p0
      <3>3. QED
        BY <1>8, <3>1, <3>2
    <2>3. QED
      BY <2>1, <2>2
  <1>13. ASSUME NEW p \in Processes, holder'[p] # "none"
         PROVE  /\ slot'[p] # NoThread /\ IsNamed(duty'[slot'[p]])
                /\ holder'[p] = Slot!Names(slot[p])' /\ slot'[p] = slot[p]
    <2>1. p # p0 /\ holder[p] = holder'[p] /\ slot'[p] = slot[p]
      BY <1>9, <1>10, <1>13
    <2>2. slot[p] # NoThread /\ Home[slot[p]] = p /\ slot[p] \in Threads
      BY <1>13, <2>1 DEF SlotInv
    <2>3. duty'[slot[p]] = duty[slot[p]]
      BY <1>8, <2>1, <2>2 DEF p0
    <2>4. QED
      BY <1>13, <2>1, <2>2, <2>3 DEF SlotInv, Slot!Names
  <1>14. DOMAIN duty' = Threads /\ flag' = [u \in Threads |-> flag'[u]]
    BY <1>1, <1>5 DEF SlotInv
  <1>15. QED
    BY <1>8, <1>9, <1>10, <1>11, <1>12, <1>13, <1>14 DEF SlotInv, Slot!Names

\* A process that starts again has a free slot, no name and no call.
LEMMA RestartPreservesSlot ==
    ASSUME ThreadConstants, SlotInv, NEW p0 \in Processes, Slot!Restart(p0)
    PROVE  SlotInv'
  <1>1. /\ slot' = [slot EXCEPT ![p0] = NoThread] /\ holder' = [holder EXCEPT ![p0] = "none"]
        /\ flag' = [t \in Threads |-> flag[t] /\ Home[t] # p0]
        /\ duty' = [t \in Threads |-> IF Home[t] = p0 THEN Slot!Idle ELSE duty[t]]
    BY DEF Slot!Restart, Slot!RemoveHolder
  <1>2. ASSUME NEW u \in Threads
        PROVE  DutyKept(duty'[u], flag'[u]) /\ (HasSlot(duty'[u]) => slot'[Home[u]] = u)
    <2>1. CASE Home[u] = p0
      <3>1. duty'[u].step = "idle" /\ DOMAIN duty'[u] = {"step"}
        BY <1>1, <2>1 DEF Slot!Idle
      <3>2. QED
        BY <3>1 DEF DutyKept, HasSlot
    <2>2. CASE Home[u] # p0
      <3>1. duty'[u] = duty[u] /\ (flag'[u] <=> flag[u]) /\ DutyKept(duty[u], flag[u])
        BY <1>1, <2>2 DEF SlotInv
      <3>2. DutyKept(duty'[u], flag'[u])
        BY <3>1 DEF DutyKept
      <3>3. QED
        BY <1>1, <2>2, <3>1, <3>2 DEF SlotInv, ThreadConstants
    <2>3. QED
      BY <2>1, <2>2
  <1>3. ASSUME NEW p \in Processes, slot'[p] # NoThread
        PROVE  /\ slot'[p] \in Threads /\ Home[slot'[p]] = p /\ HasSlot(duty'[slot'[p]])
               /\ p # p0 /\ slot'[p] = slot[p] /\ duty'[slot[p]] = duty[slot[p]]
    <2>1. p # p0 /\ slot'[p] = slot[p]
      BY <1>1, <1>3 DEF SlotInv
    <2>2. slot[p] \in Threads /\ Home[slot[p]] = p /\ HasSlot(duty[slot[p]])
      BY <1>3, <2>1 DEF SlotInv
    <2>3. QED
      BY <1>1, <2>1, <2>2
  <1>4. ASSUME NEW p \in Processes, holder'[p] # "none"
        PROVE  /\ slot'[p] # NoThread /\ IsNamed(duty'[slot'[p]])
               /\ holder'[p] = Slot!Names(slot[p])' /\ slot'[p] = slot[p]
    <2>1. p # p0 /\ holder[p] = holder'[p] /\ slot'[p] = slot[p]
      BY <1>1, <1>4 DEF SlotInv
    <2>2. QED
      BY <1>3, <1>4, <2>1 DEF SlotInv, Slot!Names
  <1>5. /\ DOMAIN duty' = Threads /\ flag' = [u \in Threads |-> flag'[u]]
        /\ DOMAIN slot' = Processes /\ DOMAIN holder' = Processes
    BY <1>1 DEF SlotInv
  <1>6. QED
    BY <1>2, <1>3, <1>4, <1>5 DEF SlotInv, Slot!Names

LEMMA SlotStepInv ==
    ThreadConstants /\ SlotInv /\ [Slot!Next]_(Slot!vars) => SlotInv'
  <1> SUFFICES ASSUME ThreadConstants, SlotInv, [Slot!Next]_(Slot!vars) PROVE SlotInv'
    OBVIOUS
  <1>1. CASE UNCHANGED <<slot, holder, flag, duty>>
    BY <1>1 DEF SlotInv, Slot!Names
  <1>2. QED
    BY <1>1, CallPreservesSlot, ChecksPreserveSlot, TryLockPreservesSlot,
       NameHolderPreservesSlot, PausePreservesSlot, WorkPreservesSlot, StampPreservesSlot,
       DropPreservesSlot, RestartPreservesSlot
       DEF Slot!Next, Slot!Environment, Slot!vars

\* acquire_maintenance and the drop of MaintenanceLock: for any number of
\* threads and processes, and whatever hand-over, failure, panic or restart
\* came between, the operation that a process names has its slot.
THEOREM HolderIsHonest ==
    ASSUME ThreadConstants
    PROVE  Slot!Spec => []HolderHonest
  <1>1. SlotInv => Slot!HolderHonest
    BY DEF SlotInv, Slot!HolderHonest
  <1>2. QED
    BY <1>1, SlotInitInv, SlotStepInv, PTL DEF Slot!Spec, HolderHonest

\* probe_over_budget and guard_block: for any number of threads, a stamped
\* report of a run that a probe has paused says so.
THEOREM PausesAreReported ==
    ASSUME ThreadConstants
    PROVE  Slot!Spec => []PausesReported
  <1>1. SlotInv => Slot!PausesReported
    BY DEF SlotInv, DutyKept, Slot!PausesReported, Slot!Does
  <1>2. QED
    BY <1>1, SlotInitInv, SlotStepInv, PTL DEF Slot!Spec, PausesReported
=============================================================================
