----------------------------- MODULE EmbedQueue -----------------------------
(***************************************************************************)
(* The background auto-embed queue: a remember that changes a body clears  *)
(* the vector of the row in its transaction, counts a job and offers it to *)
(* a bounded queue; one worker thread takes the jobs in batches, computes  *)
(* each vector without holding a connection and stores it only if the      *)
(* indexed text of the row is still the one the job was made from.         *)
(* embed_queue_flush waits on the count, and the drop of the database      *)
(* disconnects the queue and waits, for a bounded time, for the worker.    *)
(*                                                                         *)
(* A transaction is one step; what happens before and after it, each       *)
(* section under the mutex of the count, and each operation on the channel *)
(* are steps of their own.  A vector is named by the body it was computed  *)
(* from.  The embed tool (and the dense recall that first embeds what has  *)
(* no vector) computes from a body it has read and stores without a check. *)
(* A remember of a unit that was refused as lossy stores and indexes the   *)
(* body it was given with residual spans appended; when that happens, and  *)
(* to which spans, is EntityVersions' matter and any choice here.          *)
(* Left out: the text a caller of the tool may give in place of the body,  *)
(* the quantization of the stored vector and its signatures, the cap on    *)
(* failures of a batch, and changes of the row that leave its text alone.  *)
(***************************************************************************)
EXTENDS Integers, Sequences, FiniteSets

CONSTANTS
    Rows,           \* entity ids
    Bodies,
    Hints,          \* the advisory hints, part of the indexed text
    NoBody,         \* the body of a row that is not there; the vector of one without
    Nothing,        \* no job, no reading
    Writers,        \* threads that remember
    Flushers,       \* threads that wait for the queue to drain
    Embedders,      \* threads that run the embed tool
    QueueCap,       \* EMBED_QUEUE_CAP, 1024 in production
    BatchMax,       \* EMBED_BATCH_MAX, 32 in production
    Repairs,        \* Repairs[b]: what b is with residual spans appended
    MayPanic,       \* whether the embedding library may panic
    MaxWrites       \* bound: remembers and forgets

ASSUME EmbedAssumption ==
    /\ NoBody \notin Bodies
    /\ Repairs \in [Bodies -> SUBSET Bodies]
    /\ \A b \in Bodies : \A e \in Repairs[b] : Repairs[e] \subseteq Repairs[b]
    /\ IsFiniteSet(Writers)
    /\ QueueCap \in Nat \ {0} /\ BatchMax \in Nat \ {0}
    /\ MayPanic \in BOOLEAN /\ MaxWrites \in Nat

VARIABLES
    row,        \* entities and entities_fts
    at,         \* at[w]: the next step of the remember of writer w
    mine,       \* mine[w]: the job of writer w
    queue,      \* the channel
    worker,     \* the next step of the worker thread
    batch,      \* the jobs the worker has taken, the one it works on first
    pending,    \* the count under the mutex
    flusher,    \* flusher[f]: a flush that sleeps or was woken
    tool,       \* tool[e]: the row and the body the embed tool has read
    handle,     \* the Database value
    writes,     \* remembers and forgets so far
    lost,       \* history: jobs that a panic of the worker destroyed
    excused     \* history: rows whose job was dropped, failed or overtaken

vars == <<row, at, mine, queue, worker, batch, pending, flusher, tool, handle,
          writes, lost, excused>>

Vectors == Bodies \cup {NoBody}
Row == [body: Vectors, hints: Hints, indexed: BOOLEAN, vec: Vectors,
        by: {"nobody", "worker", "tool"}]
Job == [row: Rows, body: Bodies, hints: Hints]
Reading == [row: Rows, body: Bodies]

Init ==
    /\ \E h \in Hints :
          row = [r \in Rows |-> [body |-> NoBody, hints |-> h, indexed |-> FALSE,
                                 vec |-> NoBody, by |-> "nobody"]]
    /\ at = [w \in Writers |-> "idle"] /\ mine = [w \in Writers |-> Nothing]
    /\ queue = <<>> /\ worker = "unspawned" /\ batch = <<>> /\ pending = 0
    /\ flusher = [f \in Flushers |-> "idle"]
    /\ tool = [e \in Embedders |-> Nothing]
    /\ handle = "open" /\ writes = 0 /\ lost = 0 /\ excused = {}

-----------------------------------------------------------------------------
(* The writers.                                                            *)

Is(j, r) == j.body = row[r].body /\ j.hints = row[r].hints
Excuse(js) == excused' = excused \cup {j.row : j \in {k \in js : Is(k, k.row)}}
\* The row after a remember of body b that repair_lossy_body made into e.
\* The stored body is compared with b; what is stored and indexed is e.
Remembered(r, b, e, h) ==
    IF row[r].body = b
    THEN [row[r] EXCEPT !.body = e, !.hints = h, !.indexed = TRUE]
    ELSE [body |-> e, hints |-> h, indexed |-> TRUE, vec |-> NoBody, by |-> "nobody"]

\* The repair is of a row of the key that is not archived.
Effective(b) == {b} \cup (IF \E q \in Rows : row[q].indexed THEN Repairs[b] ELSE {})

\* The transaction of remember.  The same body again enqueues nothing and keeps
\* the vector, even when the hints or a repair change the indexed text; and the
\* job of another one is made from b.
Remember(w, r, b, e, h) ==
    /\ at[w] = "idle" /\ handle = "open" /\ writes < MaxWrites
    /\ e \in Effective(b)
    /\ row' = [row EXCEPT ![r] = Remembered(r, b, e, h)]
    /\ IF row[r].body = b
       THEN /\ excused' = IF e = b /\ row[r].hints = h THEN excused ELSE excused \cup {r}
            /\ UNCHANGED <<at, mine>>
       ELSE /\ excused' = IF e = b THEN excused \ {r} ELSE excused \cup {r}
            /\ at' = [at EXCEPT ![w] = "committed"]
            /\ mine' = [mine EXCEPT ![w] = [row |-> r, body |-> b, hints |-> h]]
    /\ writes' = writes + 1
    /\ UNCHANGED <<queue, worker, batch, pending, flusher, tool, handle, lost>>

\* forget takes the row out of the text index and leaves its vector.
Forget(r) ==
    /\ handle = "open" /\ writes < MaxWrites /\ row[r].indexed
    /\ row' = [row EXCEPT ![r].indexed = FALSE]
    /\ excused' = excused \cup {r} /\ writes' = writes + 1
    /\ UNCHANGED <<at, mine, queue, worker, batch, pending, flusher, tool, handle, lost>>

\* enqueue_auto_embed spawns the worker once, counts the job, then sends it.
Count(w) ==
    /\ at[w] = "committed"
    /\ worker' = IF worker = "unspawned" THEN "recv" ELSE worker
    /\ pending' = pending + 1
    /\ at' = [at EXCEPT ![w] = "counted"]
    /\ UNCHANGED <<row, mine, queue, batch, flusher, tool, handle, writes, lost, excused>>

Gone == worker \in {"done", "dead"}     \* the receiving end of the channel is dropped
TrySend(w) ==
    /\ at[w] = "counted"
    /\ \/ /\ Len(queue) < QueueCap /\ ~Gone
          /\ queue' = Append(queue, mine[w])
          /\ at' = [at EXCEPT ![w] = "idle"] /\ mine' = [mine EXCEPT ![w] = Nothing]
          /\ UNCHANGED excused
       \/ /\ Len(queue) >= QueueCap \/ Gone
          /\ at' = [at EXCEPT ![w] = "refused"]
          /\ Excuse({mine[w]})
          /\ UNCHANGED <<queue, mine>>
    /\ UNCHANGED <<row, worker, batch, pending, flusher, tool, handle, writes, lost>>

\* One job less: the count saturates, and at zero all waiters are woken.
Woken == [f \in Flushers |-> IF flusher[f] = "asleep" THEN "awake" ELSE flusher[f]]
\* Mutant: nobody is woken.
UncountSilently == pending' = (IF pending = 0 THEN 0 ELSE pending - 1) /\ UNCHANGED flusher
Uncount ==
    /\ pending' = IF pending = 0 THEN 0 ELSE pending - 1
    /\ flusher' = IF pending' = 0 THEN Woken ELSE flusher

\* Mutant: a refused job stays counted.
RollBackUncounted(w) ==
    /\ at[w] = "refused"
    /\ at' = [at EXCEPT ![w] = "idle"] /\ mine' = [mine EXCEPT ![w] = Nothing]
    /\ UNCHANGED <<row, queue, worker, batch, pending, flusher, tool, handle, writes, lost, excused>>
RollBack(w) ==
    /\ at[w] = "refused"
    /\ Uncount
    /\ at' = [at EXCEPT ![w] = "idle"] /\ mine' = [mine EXCEPT ![w] = Nothing]
    /\ UNCHANGED <<row, queue, worker, batch, tool, handle, writes, lost, excused>>

-----------------------------------------------------------------------------
(* The worker.                                                             *)

Recv ==
    /\ worker = "recv" /\ queue # <<>>
    /\ batch' = <<Head(queue)>> /\ queue' = Tail(queue) /\ worker' = "fill"
    /\ UNCHANGED <<row, at, mine, pending, flusher, tool, handle, writes, lost, excused>>

\* try_recv until the batch is full or the channel empty.
\* Mutant: the size of the batch is looked at after a job was received.
FillDrops ==
    /\ worker = "fill"
    /\ IF queue # <<>>
       THEN /\ queue' = Tail(queue)
            /\ IF Len(batch) < BatchMax
               THEN batch' = Append(batch, Head(queue)) /\ UNCHANGED worker
               ELSE worker' = "embed" /\ UNCHANGED batch
       ELSE worker' = "embed" /\ UNCHANGED <<batch, queue>>
    /\ UNCHANGED <<row, at, mine, pending, flusher, tool, handle, writes, lost, excused>>
Fill ==
    /\ worker = "fill"
    /\ IF Len(batch) < BatchMax /\ queue # <<>>
       THEN batch' = Append(batch, Head(queue)) /\ queue' = Tail(queue) /\ UNCHANGED worker
       ELSE worker' = "embed" /\ UNCHANGED <<batch, queue>>
    /\ UNCHANGED <<row, at, mine, pending, flusher, tool, handle, writes, lost, excused>>

\* The backend returns a vector or an error.
Generate ==
    /\ worker = "embed" /\ batch # <<>>
    /\ \/ worker' = "store" /\ UNCHANGED excused
       \/ worker' = "finish" /\ Excuse({Head(batch)})
    /\ UNCHANGED <<row, at, mine, queue, batch, pending, flusher, tool, handle, writes, lost>>

\* Mutant: the vector is stored whatever the row holds by now.
StoreUnguarded ==
    /\ worker = "store"
    /\ row' = [row EXCEPT ![Head(batch).row].vec = Head(batch).body,
                          ![Head(batch).row].by = "worker"]
    /\ worker' = "finish"
    /\ UNCHANGED <<at, mine, queue, batch, pending, flusher, tool, handle, writes, lost, excused>>
\* store_embedding_guarded: one UPDATE, guarded by the indexed text.  No
\* pooled connection, or a busy database, loses the vector.
Store ==
    /\ worker = "store"
    /\ \/ /\ LET j == Head(batch) IN
                row' = IF row[j.row].indexed /\ Is(j, j.row)
                       THEN [row EXCEPT ![j.row].vec = j.body, ![j.row].by = "worker"]
                       ELSE row
          /\ UNCHANGED excused
       \/ Excuse({Head(batch)}) /\ UNCHANGED row
    /\ worker' = "finish"
    /\ UNCHANGED <<at, mine, queue, batch, pending, flusher, tool, handle, writes, lost>>

Finish ==
    /\ worker = "finish"
    /\ Uncount
    /\ batch' = Tail(batch) /\ worker' = "embed"
    /\ UNCHANGED <<row, at, mine, queue, tool, handle, writes, lost, excused>>

NextBatch ==
    /\ worker = "embed" /\ batch = <<>>
    /\ worker' = "recv"
    /\ UNCHANGED <<row, at, mine, queue, batch, pending, flusher, tool, handle, writes, lost, excused>>

\* recv fails once the sender is dropped and the channel is empty.
\* Mutant: the worker leaves as soon as the sender is dropped.
ExitAtOnce ==
    /\ worker = "recv" /\ handle # "open"
    /\ worker' = "done"
    /\ UNCHANGED <<row, at, mine, queue, batch, pending, flusher, tool, handle, writes, lost, excused>>
Exit ==
    /\ worker = "recv" /\ queue = <<>> /\ handle # "open"
    /\ worker' = "done"
    /\ UNCHANGED <<row, at, mine, queue, batch, pending, flusher, tool, handle, writes, lost, excused>>

\* A panic unwinds the thread: its batch and the channel go with it.
Jobs == {queue[i] : i \in DOMAIN queue} \cup {batch[i] : i \in DOMAIN batch}
Panic ==
    /\ MayPanic /\ worker = "embed" /\ batch # <<>>
    /\ worker' = "dead" /\ queue' = <<>> /\ batch' = <<>>
    /\ lost' = lost + Len(queue) + Len(batch)
    /\ Excuse(Jobs)
    /\ UNCHANGED <<row, at, mine, pending, flusher, tool, handle, writes>>

\* The jobs that are still to be finished.
OnItsWay == {mine[w] : w \in {v \in Writers : at[v] \in {"committed", "counted"}}} \cup Jobs

-----------------------------------------------------------------------------
(* embed_queue_flush, the embed tool and the drop of the database.         *)

FlushStart(f) ==
    /\ flusher[f] = "idle" /\ handle = "open"
    /\ worker # "unspawned" /\ pending > 0
    /\ flusher' = [flusher EXCEPT ![f] = "asleep"]
    /\ UNCHANGED <<row, at, mine, queue, worker, batch, pending, tool, handle, writes, lost, excused>>

\* A waiter that was woken takes the mutex again and looks at the count.
FlushRecheck(f) ==
    /\ flusher[f] = "awake"
    /\ flusher' = [flusher EXCEPT ![f] = IF pending = 0 THEN "idle" ELSE "asleep"]
    /\ UNCHANGED <<row, at, mine, queue, worker, batch, pending, tool, handle, writes, lost, excused>>

FlushTimeout(f) ==
    /\ flusher[f] = "asleep"
    /\ flusher' = [flusher EXCEPT ![f] = "idle"]
    /\ UNCHANGED <<row, at, mine, queue, worker, batch, pending, tool, handle, writes, lost, excused>>

\* The batch mode of the tool, and dense recall, read rows without a vector;
\* the single mode reads any row.
ToolRead(e, r) ==
    /\ tool[e] = Nothing /\ handle = "open" /\ row[r].indexed
    /\ tool' = [tool EXCEPT ![e] = [row |-> r, body |-> row[r].body]]
    /\ UNCHANGED <<row, at, mine, queue, worker, batch, pending, flusher, handle, writes, lost, excused>>

\* store_embedding: an UPDATE by id, which no change since the read stops.
ToolStore(e) ==
    /\ tool[e] # Nothing
    /\ row' = [row EXCEPT ![tool[e].row].vec = tool[e].body, ![tool[e].row].by = "tool"]
    /\ tool' = [tool EXCEPT ![e] = Nothing]
    /\ UNCHANGED <<at, mine, queue, worker, batch, pending, flusher, handle, writes, lost, excused>>

ToolFails(e) ==
    /\ tool[e] # Nothing
    /\ tool' = [tool EXCEPT ![e] = Nothing]
    /\ UNCHANGED <<row, at, mine, queue, worker, batch, pending, flusher, handle, writes, lost, excused>>

\* drop has the value to itself: no call is under way.
Drop ==
    /\ handle = "open"
    /\ \A w \in Writers : at[w] = "idle"
    /\ \A f \in Flushers : flusher[f] = "idle"
    /\ \A e \in Embedders : tool[e] = Nothing
    /\ handle' = IF worker = "unspawned" THEN "dropped" ELSE "dropping"
    /\ UNCHANGED <<row, at, mine, queue, worker, batch, pending, flusher, tool, writes, lost, excused>>

\* The wait ends when the worker reports, when its end of the channel is gone,
\* or after five seconds; the worker is then detached and drains on for as long
\* as the process lives.
DropReturns ==
    /\ handle = "dropping"
    /\ handle' = "dropped"
    /\ UNCHANGED <<row, at, mine, queue, worker, batch, pending, flusher, tool, writes, lost, excused>>

\* The process ends, after the drop or in the middle of anything: the jobs and
\* the worker go with it, the rows stay.
ProcessEnds ==
    /\ handle # "ended" /\ handle' = "ended"
    /\ at' = [w \in Writers |-> "idle"] /\ mine' = [w \in Writers |-> Nothing]
    /\ queue' = <<>> /\ batch' = <<>> /\ worker' = "unspawned" /\ pending' = 0 /\ lost' = 0
    /\ flusher' = [f \in Flushers |-> "idle"] /\ tool' = [e \in Embedders |-> Nothing]
    /\ Excuse(OnItsWay)
    /\ UNCHANGED <<row, writes>>

\* Another process opens the database.
Reopen ==
    /\ handle = "ended" /\ handle' = "open"
    /\ UNCHANGED <<row, at, mine, queue, worker, batch, pending, flusher, tool, writes, lost, excused>>

-----------------------------------------------------------------------------
RememberStep(w) == Count(w) \/ TrySend(w) \/ RollBack(w)
WorkerStep == Recv \/ Fill \/ Generate \/ Store \/ Finish \/ NextBatch \/ Exit

Next ==
    \/ \E w \in Writers, r \in Rows, b, e \in Bodies, h \in Hints : Remember(w, r, b, e, h)
    \/ \E r \in Rows : Forget(r)
    \/ \E w \in Writers : RememberStep(w)
    \/ WorkerStep \/ Panic
    \/ \E f \in Flushers : FlushStart(f) \/ FlushRecheck(f) \/ FlushTimeout(f)
    \/ \E e \in Embedders : ToolStore(e) \/ ToolFails(e) \/ \E r \in Rows : ToolRead(e, r)
    \/ Drop \/ DropReturns \/ ProcessEnds \/ Reopen

\* The threads of a process that lives are scheduled; the backend answers or times
\* out.  Nothing says that the process lives.
Spec ==
    /\ Init /\ [][Next]_vars
    /\ WF_vars(WorkerStep)
    /\ \A w \in Writers : WF_vars(RememberStep(w))

-----------------------------------------------------------------------------
TypeOK ==
    /\ row \in [Rows -> Row]
    /\ at \in [Writers -> {"idle", "committed", "counted", "refused"}]
    /\ mine \in [Writers -> Job \cup {Nothing}]
    /\ queue \in Seq(Job) /\ batch \in Seq(Job)
    /\ worker \in {"unspawned", "recv", "fill", "embed", "store", "finish", "done", "dead"}
    /\ pending \in Nat /\ lost \in Nat /\ writes \in 0 .. MaxWrites
    /\ flusher \in [Flushers -> {"idle", "asleep", "awake"}]
    /\ tool \in [Embedders -> Reading \cup {Nothing}]
    /\ handle \in {"open", "dropping", "dropped", "ended"}
    /\ excused \subseteq Rows

\* The count is the number of jobs that are still to be finished: those a
\* writer has counted, those in the channel and those in the batch, and the
\* ones a panic destroyed.  So the decrement never meets a zero (what
\* saturating_sub would hide), and without a panic the count returns to zero
\* when the jobs are done: neither a full queue nor an error leaks one.
Counted == {w \in Writers : at[w] \in {"counted", "refused"}}
PendingAccurate ==
    pending = Cardinality(Counted) + Len(queue) + Len(batch) + lost

\* Nobody sleeps in embed_queue_flush while there is nothing to wait for,
\* whoever brought the count to zero: the worker or a writer whose job the
\* full queue refused.
NoLostWakeup == pending = 0 => \A f \in Flushers : flusher[f] # "asleep"

\* A vector the worker has stored is the vector of the body the row has now, or
\* of the body that a repair has since made into that by appending spans: it is
\* guarded against the text when it is stored, and cleared by the remember of
\* another body.  Only a repair changes the body under a vector.
QueuedVectorsFresh ==
    \A r \in Rows : row[r].by = "worker" =>
        row[r].body = row[r].vec \/ row[r].body \in Repairs[row[r].vec]

\* A row that is without a vector has a job for its text on its way, from the
\* commit of the remember to the store, or there is a reason the code knows:
\* the job was refused, failed, died with the worker or with the process, or was
\* made out of date by a forget, by new hints or by a repair, of this body or of
\* the one the job was made from.
JobOrExcuse ==
    \A r \in Rows \ excused :
        row[r].body # NoBody /\ row[r].vec = NoBody
            => \E j \in OnItsWay : j.row = r /\ Is(j, r)

\* "The worker DRAINS the remaining queued jobs after the disconnect" and "exits on
\* its own when the queue empties or the process does": once the database is dropped
\* the worker finishes every job and ends, unless it panics or the process ends first,
\* whose jobs JobOrExcuse accounts for.
ShutdownDrains ==
    handle # "open" /\ worker # "unspawned"
        ~> worker = "dead" \/ (worker = "done" /\ pending = 0) \/ handle = "ended"

-----------------------------------------------------------------------------
(* Claims the code makes and does not keep.                                *)

\* enqueue_auto_embed: a row is never served with the vector of an earlier
\* body.  The embed tool stores what it computed before a remember, and a
\* repair rewrites the body and keeps the vector.
VectorsFresh == \A r \in Rows : row[r].vec \in {NoBody, row[r].body}

\* store_embedding_guarded: when the guard refuses a vector, the newer text
\* has a job of its own.  New hints and repairs change the text and enqueue
\* nothing, and the job of a repaired body is never of its text.
SkippedJobsReplaced ==
    \A r \in Rows : worker = "store" /\ Head(batch).row = r /\ row[r].indexed /\ ~Is(Head(batch), r)
        => row[r].vec # NoBody \/ \E j \in OnItsWay : j.row = r /\ Is(j, r)

\* enqueue_auto_embed: no waiter hangs on a job that will never run.  A panic
\* of the worker leaves its batch and the channel counted.
CountReturnsToZero ==
    Gone /\ (\A w \in Writers : at[w] = "idle") => pending = 0

\* "a CLI one-shot's writes still get their embeddings" (drop): no job is lost to
\* the end of the process.  The wait for the worker is bounded, and its jobs go
\* with the process.
DrainedBeforeEnd == [][handle = "dropped" /\ handle' = "ended" => queue = <<>> /\ batch = <<>>]_vars
=============================================================================
