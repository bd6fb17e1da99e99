# Perseus Vault: TLA+ specifications

Perseus Vault (the repository `mneme`) is a memory server for agents: one Rust
binary over one SQLite file. Agents remember facts, recall them, ask what was
believed at an earlier time, request approval for actions and run long jobs.
This directory specifies the parts of it that keep durable state under
concurrency, model-checks them with TLC and proves theorems about them with
TLAPS. `PROJECT.json` holds the map from every definition to the lines it
models, the runs, the mutants, the hazards, the findings and the theorems.

## 1. The system

### Where the concurrency comes from

* The HTTP/SSE transport runs `handle_request` on Tokio's blocking pool
  (`transport.rs`), all requests sharing one `Database` with an r2d2 pool of 16
  connections. Nothing serialises two requests above SQLite.
* Several processes open the same file (a stdio server per client session, CLI
  commands, a scheduled harvest). SQLite is in WAL mode with a busy timeout of
  5 s, so a statement, or a transaction where the code opens one, is the unit
  that others cannot interrupt. A statement may fail after the timeout.
* A process can end between any two statements. The next `Database::open` runs
  the recovery of operation runs (`db.rs:2144`).
* Wall-clock milliseconds order much of the data, and the wall clock may be set
  back or stand still between two writes.

So in every module a *connection* or *client* is a thread with a pooled
connection or a process, a step is one statement or one transaction, and what a
call has read lives in a variable of that call until it is used.

### Inventory

| Component | State it keeps | Operations | Talks to | What is hard | What makes it correct |
|---|---|---|---|---|---|
| Durable operation runs (`op_runs.rs`) | `op_runs`, `op_run_items` | begin, start, progress, complete, fail, failed_to_start, cancel, timeout, retry, items, recover, prune | `run_tracked` in `tools.rs`, every open | check and write in different statements; crash between statements; retries of the same run | life cycle; terminal states stay; retry chains bounded; receipts stay in their chain; no orphan items; every run settles |
| Writer directory (`db.rs` 16930–17470) | one row per workspace with epoch, writer, target, life cycle of receipts | prepare, fence, retarget, activate; check before a write | `handle_remember`, `restore_forward` | read-modify-write without a transaction; the check is stale when the write lands | epochs advance; a stale writer is refused; the row is the outcome of its life cycle |
| Authority, revocations, actions, leases (`db.rs` 19300–22170) | manifests by version, ledger of revocations, action receipts, leases | set/revoke authority, revoke/reinstate, intent, approve, time out, complete, acquire/release lease | action tools | revocation against approval; timeout against grant; lease expiry under a moving clock; 64-bit sums | nothing executes without a grant; authority holds at commit; leases exclude each other |
| Audit journal (`db.rs` 15850–16100, 2397–2700) | hash-chained rows, key markers | append, redact, rehash, rotate, verify | every mutating tool | two appends on one head; crash in a row-by-row rehash; equal timestamps | the chain verifies; links resolve; a stored canary means a keyed chain |
| Bi-temporal entity store (`db.rs` 10948–11710, 18701–18932, 22747–23124, 28459–29985) | `entities`, `entity_history` | remember, supersede, invalidate, forget, purge, retention; as_of, as_of_version, valid_at, bitemporal_at | most tools | lookup before the transaction; several writes in one millisecond; folding of history; a body that is repaired in place | versions partition time; the past is kept; periods run forward; reads agree |
| Extraction loss (`extraction_loss.rs`) | `residual_spans`, `lossy_units`, `query_keys` | span_audit, report_refusal, report_success, the repair of a body by remember | entity store, text index, embedding | the body that is compared is not the body that is stored; spans and mark are read before the transaction | a repair only appends spans that were kept, to the live row alone; a vector is of the body or of the body before its repair |
| Background embedding (`db.rs` 605–650, 4055–4310, 34329–34345) | bounded queue, worker, pending count, vector of a row | enqueue, batch, guarded store, flush, embed tool, drop | remember, forget, dense recall | late vector for a changed body; a body repaired under its vector; full queue; panic; a process that ends | no stale vector from the queue; the count is the jobs; waiters wake; a row without a vector has a job or a reason; the drop drains |
| Live update (`live_update.rs`, `mcp.rs` 355–800) | pending flag, forwarded request or response, captured identity, session | detect, refuse, forward, exec, resume, clear | stdio loop, its reader thread | a file replaced between two looks; failure of exec; lines read ahead | one answer and one execution per request, under the session's identity, whatever image serves it; every request answered |
| HTTP sessions (`transport.rs`, `httplimit.rs`) | registry of sessions, SSE leases, broadcast channel, token bucket | initialize, call, stream, evict | dispatch | eviction of a session in use; two initializes; lost broadcast | calls run under the name of the initializer; one stream per session; a stream loses only what it fell behind on |
| Task state (`task_state.rs`, `db.rs` 22172–22335) | a versioned projection per task | project_task: read, recall, resolve, compare and swap | entity store | two writers on one base; evidence rewritten while it is resolved | one chain of one specification; a state is returned to the client that made it |
| Task lineage (`task_lineage.rs`, `db.rs` 19817–20270) | lineages with head, budget, impact; transitions | new authorization, continuation, retry, revocation, expiry | authority, actions | two continuations of one head; a retry under way; revocation in two statements | one transition per head; the budget adds up; no send after a read |
| Maintenance isolation (`maintenance.rs`, the maintenance tools, `maintain`) | slot of a store (mutex and holder's name), pause note of a thread | check, acquire, probe, stamp, drop | consolidate, cohere, dream, sleep, autocohere, the hygiene loop | two maps changed in separate steps; a note that outlives its run; a panic under the mutex | the named holder has the slot; a paused run's report says so |
| Encryption bootstrap and rotation (`db.rs` 1226–3330) | bodies, FTS index, markers | set_encryption, rotate | audit journal, every open | crash half way | the store opens with its key |
| Signed transitions (`signed_transition.rs`, `db.rs` 7327–7640) | signing keys by epoch, ledger of signed records, poison labels | register, record, label, score, verify | entity store, score and label tools | key, predecessor, record and label in four statements; a clock that moves; a stop between mutation and record | the ledger replays; a label rests on its record |
| Rollback repair (`rollback_repair.rs`, `db.rs` 6930–7325) | stored plans, statuses and links of rows | repair, reverse | link, unlink and status tools | neither runs in a transaction; the plan is stored last; others change the rows meanwhile | the fault is contained; a reversal restores |
| Governance, quarantine, erasure, backup (`db.rs` 5577–5755, 9399–10312, 16108–16472, 29190–29601) | tombstones, a sidecar file of mandates, held writes, copies of both files | reject, erase, redact, hold, release, discard, back up, restore | remember, every read | the gate is before the transaction; two files that are not one transaction; a rollback of one of them | what was confirmed erased is not served and not taken again |
| Recall, ranking, consolidation, claim cards, admission, capture, telemetry, front ends | none of their own, or append-only counters | pure functions over rows read | entity store | numeric quality | outside the reach of these specifications |

`PROJECT.json` lists every source file of `src/src` under one of its components,
with the reason where it is not modelled.

### Interactions

`handle_remember` checks the writer directory, stamps the entity, and calls
`remember`, which appends to the journal; `handle_vault_export` and its
siblings wrap a job in an operation run; erasure and purge redact the journal;
opening with a key rewrites bodies and the chain. In the modules an interaction
appears where it changes the outcome: the writer check and the landing writes
in `WriterDirectory`, purge and redaction in `AuditJournal`, the calls of
`run_tracked` in `TrackedRuns`, which composes with `OpRuns` by extension, the
remembers and forgets that race the worker and the repairs of lossy bodies in
`EmbedQueue`, span audits and refusals in `EntityVersions`, the revocation of a
manifest that its lineages follow in `TaskLineage`, the rewrite of evidence in
`TaskState`, `handle_request` under both front ends, the links and status
changes that race a repair in `RollbackRepair`, and remembers, held writes,
backups and rollbacks around an erasure in `Erasure`.

## 2. The modules

| Module | What it is |
|---|---|
| `RunLifecycle` | abstract: the life cycle of a run as `docs/specs/durable-op-states.md` describes it |
| `OpRuns` | the two tables and every operation of `op_runs.rs`, statement by statement |
| `TrackedRuns` | `run_tracked` composed with `OpRuns` (EXTENDS): jobs that begin, start, work, report and end a run, and processes that die |
| `FencedWriter` | abstract: one holder of write authority at a time, moved through a gap, with an epoch |
| `WriterDirectory` | `writer_handoff`, `writer_directory_enforce` and the writes they guard |
| `AuthorizedActions` | manifests, revocations, actions, approvals, leases of one agent in one workspace |
| `AuditJournal` | the chained journal, its keys, rehash, redaction and verification |
| `EntityVersions` | rows and history of one (category, key), the writes, the audit of extraction loss and the temporal queries |
| `EmbedQueue` | the auto-embed queue: writers, channel, worker, flush, embed tool, drop of the database, end of the process |
| `TaskLineage` | intents that carry a lineage, their transitions, and the manifest they run under |
| `TaskRegister` | abstract: a chain of states that grows at its end, each told once, of one specification but for clients let through before the first state |
| `TaskState` | the stored state of one task and the statements of `serve_project_task` |
| `StdioServer` | the loop on standard input, its reader thread, and the replacement of the program |
| `HttpServer` | the session registry, `POST /message`, and the event streams of `GET /sse` |
| `Maintenance` | the gate, the slot, the pauses and the stamped reports of maintenance runs |
| `SignedTransitions` | the ledger of signed records, its keys, and the labels and scores it vouches for |
| `RollbackRepair` | repair and reversal, statement by statement, among other writers |
| `Erasure` | rejection, erasure, redaction and held writes over a store with a sidecar, its backups and rollbacks |
| `MC*` | constants and symmetry for TLC, and the scenarios a run is made of; no new behaviour |
| `*Proofs` | theorems and proofs; each extends the module it is about, or the `MC` module that names its properties: `JobsProofs` is about `OpRuns` and `Maintenance`, `IntegrityProofs` about `AuditJournal`, `SignedTransitions`, `Erasure` and `RollbackRepair`, `TasksProofs` about `TaskLineage` and `TaskState`, `ServerProofs` about `StdioServer` and `HttpServer` |

How to read one: `VARIABLES` are tables and per-client state; `at[c]` or
`pc[c]` names the statement a client executes next and `req[c]`, `buf[c]` or
`job[c]` what it has read; each handler is one action, or a chain of actions
when it reads in one statement and writes in another; `Next` offers every
client every action. A definition whose comment begins with "Mutant" is not
used by the specification: it is a plausible defect of the definition that
follows it, and for each property one such defect is known to violate it.

`OpRuns`. `run[r]` and `item[r][i]` are the rows; a deleted run keeps its
columns as a trace so that chains can be followed. `assert_state` is a
statement, the write is the next one. `retry` forks in a transaction, `prune`
selects and then deletes in a transaction. `Crash` loses the request of a
connection, `StatementError` is a statement that returns an error. `aged` stands for an
`updated_at` older than the retention period.

`TrackedRuns`. A job waits while its call is in progress and ignores refusals
and errors alike, as the `let _ =` of `run_tracked` does: any of its calls may
fail at its first statement (`BestEffort`) or at a later one (`StatementError`
of `OpRuns`), and the work may panic while the process lives on. `forsaken` is
a history of the runs whose start or end was lost that way; a restart clears
it, because its recovery owes them their end again. The composed specification has weak fairness for the
statements of a call and for the steps of a job: a thread that holds a request
is scheduled, and a process that has died is started again. No fairness for
beginning a job.

`WriterDirectory`. `dir` is the row. A handoff reads it, computes the whole new
row and upserts it; a write checks and lands in later steps, a restore lands
several. `stale` is a history of the requests whose row was replaced after they
had read it. A receipt digest is the tuple it hashes. `LifecycleCap` is 256 in the
code.

`AuthorizedActions`. `action_approve` and `action_lease_acquire` look at the
tables again inside their transaction; all other handlers act on what they
read. The clock may go back. `MaxInt` is `i64::MAX`, and a lease expiry wraps
there as the release build's addition does.

`AuditJournal`. A hash is the sequence of links it covers (a MAC without
collisions). An append stamps, reads the newest hash and inserts, in three
steps; a read that fails is taken for an empty journal (`unwrap_or(None)`), so
that the row starts a chain of its own. `SetEncryption` and the rotation are chains that move the marker, the
bodies, the rows one by one and the canary.

`EntityVersions`. `live` and `hist` are sets of rows. The operations that write
history are IMMEDIATE transactions in the code (`audited_write_tx`) and so
single steps; the lookup before a remember, the read before a supersede and the
scan before a purge are steps of their own. A body is its text and the spans
that repairs have appended to it. A remember carries two bodies, as the code
does: the one it was given, which the stored one is compared with, and
`job[c].body`, which is stored; `Repair` reads the mark and the spans and
`ClearMark` clears the mark, both before the transaction. Which span is kept or
served and which row is marked is any choice, because scores decide it. Queries
are sets of the answers SQLite may give.

`EmbedQueue`. A vector is named by the body it was computed from, and a row
records who stored it. The transaction of a remember, each section under the
mutex of the count and each operation on the channel are steps; `mine[w]` is
the job a writer holds between them. `Repairs[b]` is what a lossy repair can
make of the body `b`: that is stored and indexed, while `b` is compared with
the stored body and goes into the job. `excused` is a history of the reasons for
a row without a vector: a job that was dropped, failed, overtaken or taken along
by the end of the process, a forgotten row, and hints or repairs that change the
indexed text under a job. `ProcessEnds` kills a worker that the drop no longer
waits for, and `Reopen` starts with an empty queue.

`TaskLineage`. `req[c]` is an intent with the manifest it has read; the
transaction is one step. A head digest covers the head before it, so a head is
the number of advances. `Expire` is time passing the expiry of a manifest;
`Commit` takes the set of versions that had expired when its clock was read.

`TaskState`. A digest stands for the body it covers, so a reference is an
entity and the revision it was seen at; resolving is one step per reference,
the swap is a transaction. A request may name any base; `req[c].early` says that
it found no stored state to compare its specification with.

`StdioServer`. `at` is the position of the loop; `pipe` and `ahead` are the
lines in the pipe and those the reader thread holds, which an exec destroys.
`captured` is empty until the first look at the file. `answers`, `effects` and
`dropped` are the history of the session over all images.

`HttpServer`. The registry's clock ticks at every use, so the entries are a
sequence in order of use. A stream is the position of its receiver, what it
has delivered and what the channel dropped before it.

`Maintenance`. `duty[t]` is the call on a thread with its next step, whether a
probe paused it, and what its report says; consolidate, cohere and dream take
the same steps and are one operation. `shut` and `slow` are what a look at the
window and a probe would find now.

`SignedTransitions`. A record is named by its rowid and its predecessor is the
rowid it extends, which the UNIQUE index on the predecessor makes sound; a
signature is the seed that made it. `Replays` is the loop of
`verify_transition_chain` in the order of the timestamps.

`RollbackRepair`. `rows` holds status, links and `superseded_by`; `job[c]` is
the call with the worklist it has computed; `past` is a history of the repairs
with the rows as they were, and the rows that anything else has changed since,
of which a reversal promises nothing.

`Erasure`. `vault` is the primary file and `sidecar` the second one; `promised`
is a history of the values whose erasure or permanent rejection was confirmed
to a caller. A restored backup carries the promises made before it was begun.

Where one run asks about two or three instances of the same system, its `MC`
module chooses between them in the initial state with a variable `scenario`
and restricts `Next` accordingly; a scenario takes steps away and adds none.

### What is abstracted

Text (labels, error messages, JSON layout), identifiers (model values), vectors
and scores, and columns that guard nothing. Where a digest or MAC matters it is
the value it covers. A near duplicate, a held write or a busy transaction is a
call that ends without a write.

## 3. Runs

All runs state `CHECK_DEADLOCK FALSE`: clients may stop calling, and bounds on
runs, epochs, rows, ids and time end every finite instance.

| Run | Instance | Shows |
|---|---|---|
| `oprun_serial` | 1 connection, 2 runs, all operations, crashes, errors | the state column implements `RunLifecycle` |
| `oprun_races` | 2 connections, 2 runs that are retried, executed, pruned and interrupted | retry chains bounded; receipts stay in their chain; only terminal runs are pruned, and no item outlives its run |
| `jobs` | scenario tracked: 2 processes, 2 jobs, 2 deaths, calls that err and work that panics, with fairness; scenario slot: 2 threads of one process, 3 maintenance calls, a panic or a restart | every tracked run becomes terminal, unless its end was lost to an error or a panic and no restart followed; the named holder of the slot has it; the stamped report of a paused run says so |
| `writer_racing` | 2 connections, 2 agents, 3 epochs, life cycle cut at 2 | the row is the outcome of its life cycle, whatever handoffs overwrite each other; the directory implements `FencedWriter` except in the steps of overtaken requests |
| `writer_stale` | 2 connections, 1 agent | expected to fail, see below |
| `actions` | scenario deciding: 3 connections on one action, 2 leases, clock both ways; scenario revoking: 2 busy connections, revocations of manifest and principals | nothing executes without a grant; a policy denial is final; one unreleased lease of a key; authority holds when a grant or lease commits |
| `integrity` | `AuditJournal` with one client, 2 keys and crashes anywhere, or with 2 clients, no key and reads that fail; scenario rotated: 2 signers, 2 epochs; scenario scored: labels and scores under 1 epoch; scenario repair: 8 graphs of 3 rows, 2 repairs and a change or stop at any point; scenario erasure: 2 callers, 2 facts, 2 values, 4 calls, 1 backup | the chain of a single client whose reads succeed verifies, a canary means keyed, every row covers its tuple and extends an earlier row; the signed ledger replays and a label rests on its record; a reversal restores what nobody else changed and a finished repair leaves no served row that is or cites a faulty one; what was confirmed erased is neither served nor taken again |
| `versions_racing` | 2 clients; scenario racing: remember, supersede, retention; scenario repairing: remember, span audit, refusal, confirmation, retention | versions partition time; the past is kept, but for spans that the repair of a live row appends; `as_of` and `as_of_version` agree |
| `versions_retired` | scenario retiring: 2 clients, invalidation, a clock that also goes back; scenario purging: 2 workspaces with forget, purge and retention, calls one at a time | no empty window, no inverted period; no history without its row |
| `embed_queue` | 2 writers, 1 row, 2 bodies of which one is the repair of the other, 2 hints, 3 writes, a queue of 1, batches of 2, a flush, the embed tool, a worker that fails or panics, a process that ends, with fairness | the count is the jobs there are; no waiter sleeps through zero; a vector of the worker is of the row's body or of that body before its repair; a row without a vector has a job or a reason; after the drop the worker drains the queue if the process lives |
| `tasks` | 2 connections; scenario revoked: 3 keys under one manifest that is revoked or expires; scenario renewed: a manifest with another policy follows; scenario state: 2 specifications, evidence that is rewritten, 3 states | the receipts of a lineage are one chain that adds up to its budget; no send after a read; the stored states implement `TaskRegister` |
| `front_ends` | scenarios any_time and quiet: 4 requests, 3 replacements of the program, with fairness; scenario http: 3 clients, room for 1 session, a channel of 1 message | one answer and one execution per request under the client's identity; every request answered when the program is replaced between requests; HTTP calls attributed; streams complete up to what they fell behind on |

Why the bounds suffice for what they are for: two clients are enough for every
race of two calls (each race found needs two), and the third connection of
`actions` lets a grant, a timeout and a completion meet. Two runs give
a retry chain; a retried run carries an item that is done or not. Three
instants let a version be written, retired in the same millisecond and
retired later. `LifecycleCap` 2 makes the drain happen. A queue of one job is
full after one write, a batch of two leaves room to fill, and three writes
allow a job to be overtaken and its body to be written again or repaired. Two
texts let one be kept as a span, replaced by the other and appended to it. Three transitions
fill a budget of two and leave one to be denied; three replacements let the
program be replaced before, during and after a handoff. A registry with room
for one session evicts at every second insert, and a channel of one message
makes a reader fall behind with two. Two signed records give a predecessor that
two calls want; three rows let one rest on a faulty row alone or on another as
well. Four calls are a remember, an erasure, a backup or release, and a
remember that races them.

Symmetry is used for clients, identifiers, keys and agents, which the
specifications never order, and never in a run with a liveness property
(`jobs`, `embed_queue`, `front_ends`). Where a run is serial because
the property needs it, the proofs (section 4) say what holds for any number of
clients. The type invariants hold in the same instances and are not listed;
five of them (`OpRuns`, `WriterDirectory`, `AuthorizedActions`,
`EntityVersions`, `EmbedQueue`) are theorems.

Fairness. `TrackedRuns`: the statements of a call, which may always err instead,
and the steps of a job, none for beginning one. `EmbedQueue`: the worker thread,
whose embedding call returns or fails, and a writer that has committed; none for
new writes, for the embed tool, for the drop, or for the process, which may end
at any moment after the bounded wait and take the worker along. `StdioServer`: the loop and the reader thread,
which are threads of a running process; none for the client or for
replacements, and an exec may fail every time.

### Disagreements between code and documents

`writer_stale` states what a comment says (`StaleWritesRefused`: "a stale
writer's in-flight write fails ... instead of landing after write authority
moved", `tools.rs:1594`); its counterexample is what the code does: the check and
the write are separate statements, and a fence commits between them.

Modelling met more claims that the code does not keep. Each is a definition in
its module, and TLC refutes it when it replaces the properties of the named
configuration, with the constants changed as given; for `VersionsRacing` the
specification is then `FreeSpec`, which has no scenarios. In `MCIntegrity` the claims
of its last three modules are named through their instances, `Transitions!`,
`Repair!` and `Governance!`, and in `MCJobs` those of `Maintenance` as `Slot!`.

| Claim (definition) | Where it is made | Refuted by | What happens |
|---|---|---|---|
| `TerminalIsFinal` | `docs/specs/durable-op-states.md:46` | `OpRunsSerial`, `Conns = {c1, c2}`, `Runs = {r1}` | an update by id overwrites a state that became terminal after its check (`op_runs.rs:432`) |
| `CountersInSync` | `op_runs.rs:639` ("keep run-level counters in sync after every item transition") | `OpRunsSerial`, `Conns = {c1, c2}`, `Calls <- RaceCalls` | `touch_item` reads the counts in one statement and writes them in another; two transitions at once, and the later write loses the earlier one's |
| `InterruptedItemsSettled` | `docs/specs/durable-op-states.md:89` | `OpRunsSerial` | a crash between the two updates of recover; the next one returns early (`op_runs.rs:862`) |
| `OneReceiptPerItem` | `op_runs.rs:733` | `OpRunsSerial` | an item of a retried run still completes in the parent |
| `ErrorsIdentified` | `tools.rs:9444` | `Jobs` | `item_fail` refuses a queued item and the refusal is dropped, so the error is never stored (`tools.rs:9447`) |
| `NoneForsaken` | `tools.rs:9083` ("never indistinguishable from a no-op") | `Jobs` | the error of a start, complete or fail is discarded, or the work panics; the run stays in flight as long as the process lives (`tools.rs:9096`) |
| `EpochsAdvance` | `schema.rs:722` | `WriterStale`, `MaxEpoch = 3` | a fence computed from an old row is upserted over a later one (`db.rs:17158`) |
| `AbandonedCannotActivate` | `db.rs:16959` | `WriterStale`, `Agents <- TwoAgents` | an activation that read before a retarget commits after it |
| `DeniedNeverExecutes` | `db.rs:21859` | `AuthorizedActions` | a timeout denies what was granted, the completion that read the grant overwrites the denial (`db.rs:21877`) |
| `DeniedNeverLeased` | `db.rs:21908` | `AuthorizedActions` | the status is not looked at again in the transaction (`db.rs:21911`) |
| `RevocationTakesEffect` | `db.rs:20479` | `AuthorizedActions` | `INSERT OR IGNORE` drops a second revocation in one millisecond (`db.rs:20491`) |
| `NewLeaseRuns` | `docs/authority-and-aar-control-plane.md:96` | `AuthorizedActions`, `Ttls = {1, 100}` | the product saturates, the sum wraps (`db.rs:21964`) |
| `FreshChainVerifies` with two clients | `docs/audit-chain-keyed-mac-design.md:163` | `Integrity` | two appends extend the same row (`db.rs:15891`) |
| `FreshChainVerifies` and `CanaryMeansKeyed` with a failed read | `docs/audit-chain-keyed-mac-design.md:163` | `Integrity`, without `ReadsSucceed` in `MCNext` | a failed read of the newest hash starts a second chain (`db.rs:15897`) |
| `CanaryMeansKeyed` after an open without the key | `docs/audit-chain-keyed-mac-design.md:114` | `Integrity`, `KeepsKey = FALSE` | unkeyed rows under a keyed canary (`main.rs:1133`) |
| `CanaryMeansKeyed` on a store without entities | the same | `Integrity`, `HasEntities = FALSE` | an interrupted rotation lets another key in, whose rehash is interrupted (`db.rs:2449`) |
| `PastFixed` | `docs/deterministic-recall-and-provenance.md:43` | `VersionsRacing`, `Ops = {"remember", "supersede", "retain"}`, `Writes <- Plain` | an identical re-assert reactivates a deprecated fact in place (`db.rs:11326`) |
| `PastExact` | `docs/deterministic-recall-and-provenance.md:43` ("reproduces exactly what was believed then") | `VersionsRacing`, `Ops = {"remember", "audit", "refuse"}`, `Writes <- Plain` | A is remembered and audited, B replaces it and is refused: the next remember of B is compared as given (`db.rs:11091`) and stored with A's span appended (`db.rs:10892`), without a version or a new `recorded_at` |
| `OwnSpans` | `extraction_loss.rs:430` ("the unit's confirmed/active residual spans") | `VersionsRacing`, `Ops = {"remember", "audit", "refuse"}`, `Writes <- Crossed`, `Workspaces = {0, 1}`, `MaxIds = 2` | the row to repair is looked up without its workspace (`extraction_loss.rs:442`); a remember in one workspace gets the spans of another |
| `ProposalsWait` | `db.rs:11584` | `VersionsRacing`, `Ops = {"remember", "supersede", "retain"}`, `Writes <- Mixed` | the update branch overwrites the active row with a proposal |
| `TemporalReadsAgree` with proposals | `db.rs:18924` | `VersionsRacing`, `Ops = {"remember", "supersede", "retain"}`, `Writes <- Mixed` | `as_of_version` filters before it picks, `as_of` after (`db.rs:18918`) |
| `TemporalReadsAgree` with invalidation | the same | `VersionsRacing`, `Ops = {"remember", "invalidate"}`, `Writes <- Plain` | `as_of_version` ignores `invalidated_at` |
| `PastKept` with invalidation | `db.rs:18696` | `VersionsRacing`, `Ops = {"remember", "invalidate"}`, `Writes <- Bounded`, `MaxIds = 2` | remembered again within a millisecond, two windows end together (`db.rs:11661`) |
| `OneMatch` | `db.rs:18698` | `VersionsRetired` | `as_of` does not select by workspace (`db.rs:18747`) |
| `NoOrphans` with two clients | `db.rs:28941` | `VersionsRacing`, `Ops = {"remember", "supersede", "forget", "purge"}`, `Workspaces = {0, 1}`, `Writes <- Shared`, `MaxIds = 2` | a fact forgotten between purge's scan and its transaction loses its row and keeps its history (`db.rs:28951`) |
| `RetroactiveAnswered` | `docs/retention.md:275` | `VersionsRacing`, `Ops = {"remember", "supersede", "retain"}`, `Writes <- Retroactive`, `MaxTime = 4` | the tombstone's earlier beginning lets a surviving version close it (`db.rs:29860`) |
| `VectorsFresh` | `db.rs:4108` | `EmbedQueue` | the embed tool, and dense recall, store by id what they computed from an earlier body (`db.rs:4037`); with `Embedders = {}` too, because a repair of an identical re-assert rewrites the body and keeps the vector (`db.rs:11409`) |
| `SkippedJobsReplaced` | `db.rs:4060` | `EmbedQueue` | a remember of the same body with other hints changes the indexed text and enqueues nothing (`db.rs:11744`); the pending job is refused and the row stays without a vector; with `Hints = {h1}` too, because the job of a repaired body is made from the body that was given (`db.rs:11745`) |
| `CountReturnsToZero` | `db.rs:4142` | `EmbedQueue` | a panic of the worker drops its batch and the channel, whose jobs stay counted |
| `DrainedBeforeEnd` | `db.rs:34320` ("a CLI one-shot's writes still get their embeddings") | `EmbedQueue` | the wait is bounded; the process ends with jobs queued, whose rows stay without a vector (as `db.rs:34326` goes on to say) |
| `OneSpecification` | `task_state.rs:772` | `Tasks` | a request that names a base not yet stored finds no row and skips the comparison of the specification; by its swap the base is there (`task_state.rs:567`) |
| `WindowFree` | `live_update.rs:45` | `FrontEnds` | the handoff tool finds the file current, the dispatch looks again after a replacement, answers and schedules the exec; a request read ahead in between is lost (`mcp.rs:736`) |
| `FailedExecKeepsRequest` | `live_update.rs:371` | `FrontEnds` | a failed exec clears the forwarded request and nothing answers it (`mcp.rs:589`) |
| `AlwaysSettled` | `live_update.rs:39` | `FrontEnds` | a forwarded request is handled before the loop, which alone performs a pending handoff; replaced again at that moment, the image waits for a line the client will not send (`mcp.rs:520`) |
| `LedgerReplays` under a clock that is set back | `db.rs:7447` ("end to end", "no forks") | `Integrity`, `ClockSteps <- Backward` | the newest record by time is not the last one stored (`db.rs:7383`); the replay meets a record before its predecessor |
| `LedgerReplays` when an epoch is registered again | `db.rs:7329` ("Register (or replace)") | `Integrity`, `MayReplace = TRUE`, `Seeds = {s1, s2}` | the records signed with the replaced seed no longer verify |
| `ScoresSigned` | `tools.rs:10157` | `Integrity` | the score is written first; a process that stops before the record leaves neither a record nor the warning (`tools.rs:10092`) |
| `ReversalRestores` in any order | `docs/specs/rollback-repair.md:44` | `Integrity`, `InOrder = FALSE` | the plan of the later repair names statuses that the earlier one set; reversed second, it puts them back |
| `UnsupportedQuarantined` | `rollback_repair.rs:45` | `Integrity` | a row that one faulty memory superseded and that cites only another is met as superseded first and kept; which comes first is the order of a `HashSet` (`db.rs:7011`) |
| `AlwaysReversible` | `db.rs:6960` | `Integrity` | a repair that stops before its plan is stored leaves quarantined rows that no plan names (`db.rs:7151`) |
| `ErasureHolds` for all that was deleted | `docs/specs/data-boundaries-retention-lifecycle.md:165` | `Integrity`, `Whole = TRUE` | the mandate covers the body read at the beginning; earlier bodies in history, or a body written before the transaction, are deleted and may come back (`db.rs:29437`) |
| `ReingestFailsClosed` | the same | `Integrity` | the gate looks before the transaction, and a remember that has passed it writes after the erasure; the row is stored and reads suppress it |
| `ErasedNotRetained` | the same document, line 198 | `Integrity`, `Rejections = {}` | a write held for review keeps the erased value (`db.rs:16108`) |
| `LiveIdentityRefused` | `db.rs:16304` | `Integrity` | two releases of one identity both find it free (`db.rs:16319`); the second becomes an update |
| `OnlyOwnPauses` | `maintenance.rs:50` ("must never cross-stamp each other's reports") | `Jobs` | autocohere does not stamp, and a run that fails after its pause does not either; the thread keeps the note and the next report made on it says paused (`maintenance.rs:344`) |
| `EveryReportStamped` | `maintenance.rs:25` | `Jobs` | the report of autocohere has no guard block (`tools.rs:14513`) |
| `SlotNotReserved` | `maintenance.rs:15` ("held ONLY while a run is actually executing") | `Jobs` | a panic poisons the mutex, `try_lock` refuses it like a busy one, and the process refuses every later run as if another were in progress (`maintenance.rs:316`) |
| `OneRunPerStore` | `maintenance.rs:261`; `db.rs:27782` ("consolidate acquires its own slot") | `Jobs` | `Database::consolidate` acquires none, so the compression of sleep, and the second phase of a pass, run beside the next holder |
| `OneRunPerStore` with two processes | `docs/specs/maintenance-serving-isolation.md:41` | `Jobs`, `Home <- Apart`, `Processes = {1, 2}` | the slot is in the memory of one process (`maintenance.rs:266`) |

A repair that has cleared the mark of a lossy row may still end without a write,
because the admission receipt of the remember covers the body that was given
and not the repaired one (`db.rs:10898`); the spans are then appended by no
later remember until the row is marked again.

A rollback repair writes the links of a row back as a whole, so a link that another
call adds between its read and its write is lost (`db.rs:7120`). A reversal also
makes active again a row that was deprecated since the repair and empties its
`archive_reason`, and a reversal that stopped half way and is repeated adds its
links a second time; `ReversalRestores` leaves out rows that something else
changed, and after such a repetition the rows with severed links.

## 4. Proofs

Every invariant and action property of a passing run is a theorem, for every
value of the constants (any number of clients, runs, items, agents, rows; any
clock, any bound), under the module's named `ASSUME`, which the runs evaluate,
and the hypotheses a theorem states itself. A theorem about a property that an
`MC` module names is in a module that extends that `MC` module and speaks of the
component's own specification (`Slot!Spec`, `Repair!Spec`, ...); only
`FreshChainVerifiesAlone` and `NoOrphansAlone`, which are about a scenario, are
theorems of `MCSpec`.

Each proof has the same shape: an inductive invariant, one lemma per action (or
per kind of step), and a last step that combines them. What the invariant adds
to the property is mostly about calls under way: what a call has read, and what
of it is still true when it writes. TLC checked each new invariant on the
instance of its run before it was proved.

* `JobsProofs`, about `OpRuns`: types, `RetriesBounded`, `ReceiptsStayInLineage`,
  `ItemsHaveRuns`, `PrunesTerminalOnly`. The invariants are not inductive: a
  fork uses a run and its items as they were when it read them, a prune deletes
  ids selected earlier, an item is added to a run that was checked earlier. The
  strengthening says what is still true of such a request: the counters of a
  fork are within the limit, the items it copied carry receipts of the chain, a
  selected id is a terminal run which no operation brings back into flight.
  `LifecycleRefined` (the tables implement `RunLifecycle`) is for one
  connection: `Fresh` adds that the state a call has checked is still the state
  of its run. With two connections a run does not keep to the life cycle
  (`TerminalIsFinal` in section 3).
  About `Maintenance`: `HolderIsHonest` and `PausesAreReported`, for any threads
  and processes. `SlotInv` ties the mutex, the holder's name and the step of the
  call to each other: a thread has the slot exactly between its `try_lock` and
  its drop, its name is there for a part of that, and a paused call that has
  said nothing still has its note.
* `WriterDirectoryProofs`, for any connections: `RowsExplained` and
  `DirectoryIsFenced` (the directory implements `FencedWriter`: initial
  states map to initial states, each step to a step or a stutter, except the
  steps of a request whose row was replaced since it read it). The
  invariant covers rows held in requests: each was computed from an explained
  row by one legal action, a drained life cycle is a suffix, and what a request
  that nobody overtook will write is one transfer away from the stored row.
* `AuthorizedActionsProofs`: `LeasesExclude`, `ExecutionsGranted`,
  `AuthorityHolds`, `PolicyDenialsFinal`. A row only moves forward, so a check
  made on an earlier read keeps enough of its meaning; for authority the SQL
  predicate of the transaction is shown to imply the definition of the
  subtraction of revoked principals.
* `IntegrityProofs`, about `AuditJournal`. Without a key: `LinksHold` for any
  clients and clock, reads that fail included; `SerialVerifies` for one client
  whose reads succeed (`ReadsSucceed`) and a clock that does not go back. The second rests on the rowid order being the order of verification
  and on the newest row found by an append being its last. With keys:
  `CanaryNeverLies` and `FreshChainsVerify`, where one process at a time has the
  store open (`Alone`), its reads succeed, and under `KeyedConstants` (the key is given at every
  open, the store has entities, the clock does not go back; section 3 shows why
  the first two are needed). `KeyedInv` says of every point of a conversion, a
  rehash and a rotation which rows already hold under the new key and which
  still under the old one, and that the marker, the bodies and the canary agree
  with it, so that whatever a crash leaves is a state the next open continues
  from.
  About `SignedTransitions`: `LabelsAreSigned` for any connections and any
  clock; `LedgerAlwaysReplays` while the clock does not go back and no epoch is
  given another seed (both needed, section 3). The invariant adds that each
  record names the one stored before it: the predecessor a call has read is a
  stored record no later than its stamp, and unless it is still the last one
  another record extends it and the UNIQUE index refuses the insert.
  About `Erasure`: `ErasedStaysErased` for any callers, values, copies, rollbacks
  and restores, of the value a mandate names (`~Whole`). `ErasureInv`: every
  promise has its mandate in the sidecar and in that of every backup that
  carries it, and what a call has made sure of at the gate was read from
  mandates that are never withdrawn.
  About `RollbackRepair`: `ReversalsRestore` and `FaultsContained`, for any rows,
  links, repairs, edits by others and stopped calls, on one connection that
  reverses the last repair first (section 3 gives the failure in any other
  order). `RepairInv` makes the repairs a stack: what touched a later one has
  touched the earlier ones; the rows that a repair left are those the next one
  found; so when the last one is reversed or gives up, the rows are again those
  that the plan below it describes. For containment, a finished repair contains
  its fault in the rows that every later repair has recorded, since a reversal
  puts back those.
* `EntityVersionsProofs`: for all operations, types, `WindowsStayPositive` and
  `PeriodsStayForward` (the invariant adds that a call about to insert has
  checked its period against the stamp it will use). Where nothing invalidates
  or purges, `PartitionHolds`: the strengthening is that no history exists
  without its live row, so an insert meets an empty past. For retention the key
  lemma is `EvictedPrefix`: rank among the newer rows is monotone, so what is
  evicted is an old end of each history and its tombstone ends before every
  kept row begins. `PastIsKept` adds one workspace and tombstones: because the
  versions partition time, `as_of` has exactly one candidate, and every step
  keeps it, folds it, or rewrites it as the repair of an identical re-assert
  does. For the last the invariant is `SaneAudit`: from its call to its
  transaction a remember holds the body it was given with some spans appended
  that are kept, and a kept span is never deleted. `ReadsAlwaysAgree` adds one workspace and trusted writes
  that nothing archives (`Trusting`): then all that is stored shows, and both
  queries pick the one version the partition leaves. `NothingStranded` has all
  operations of the scenario purging, with one call at a time: what a purge
  selected is exactly what is archived when it deletes. The conditions are
  needed: section 3 gives an instance of `PastKept` with invalidation, of
  `OneMatch` with two workspaces, of `TemporalReadsAgree` with proposals and of
  `NoOrphans` with a concurrent purge that fails without them.
* `EmbedQueueProofs`, for any writers, rows, capacity and batch, and a worker
  that fails or panics anywhere: types, `CountIsAccurate`, `WakeupsNotLost`,
  `QueuedVectorsStayFresh`, `JobsAccounted`. The invariant accounts for every
  job in the hands of a writer, the channel, the batch and the destroyed ones,
  and says that a row without a vector is named by a job with its present text,
  or is excused, and that under a vector of the worker the body has changed by
  repairs at most.
* `TasksProofs`, for any connections. `LineagesSound` and `SendsPrecedeReads`:
  `LineageInv` adds that a lineage remembers every class of data its admitted
  receipts have touched, and that a request names lines that are stored.
  `TaskRegisterRefined`, for any bases that clients name: `TaskInv` adds that
  the row is the last of the accepted states, that some state has the
  specification of every request that compared one, and that an answer not yet
  given belongs to one call.
* `ServerProofs`. `CallsStayAttributed`: a session is named once, by the one
  request that swapped its flag, and the name is there before anything runs
  under it. `StreamsAreComplete`: a stream's position, what it has delivered and
  what it missed add up to the channel. `ExchangesHappenOnce`, for any requests
  and replacements: a request is in one place (pipe, read ahead, in hand,
  forwarded, settled), which an exec moves it between or destroys.

Only model-checked: liveness (`TrackedRunsSettle`, `ShutdownDrains`,
`EveryRequestAnswered`), since TLAPS does not reason about fairness and ENABLED
here. No definition of the model is recursive: `Verifies` and `Replays`, which
are loops in the code, are stated row by row, each row against the ones before
it in the order of the loop.

## 5. Not modelled, and the plan

Order of the work that remains:

1. Suppression that follows derivation links, the expiry of rows and the
   sealed candidates of admission, as further operations of `Erasure`.
2. `restore_forward` with its journal positions.
3. The proposals that sleep stores and an operator accepts.
4. The store-wide reindex of vectors, which waits for the queue to drain.

Theorems to add: the type invariants of the modules of which only the safety
invariants are proved; what of `FaultContained` and of the life cycle of a run
survives any number of connections; theorems for the operations above as they
are modelled.

Out of reach of this approach: ranking, similarity, decay and other floating
point code; text extraction and parsing; rendering; SQL migrations, which run
once; cryptographic primitives, which appear as what they promise.
