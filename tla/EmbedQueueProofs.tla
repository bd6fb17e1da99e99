-------------------------- MODULE EmbedQueueProofs --------------------------
(***************************************************************************)
(* Proofs about EmbedQueue, for any number of writers, flushers, embedders *)
(* and rows and any capacity of the channel.  The inductive invariant is   *)
(* QueueInv: types, the count, the wake-ups, and for every row without a   *)
(* vector a job that has yet to be through with it.                        *)
(***************************************************************************)
EXTENDS EmbedQueue, SequenceTheorems, FiniteSetTheorems, TLAPS

\* The worker has a job where its step needs one, a writer where it has begun.
JobsHeld ==
    /\ worker \in {"unspawned", "recv", "done", "dead"} => batch = <<>>
    /\ worker \in {"fill", "store", "finish"} => batch # <<>>
    /\ \A w \in Writers : at[w] # "idle" => mine[w] \in Job

\* A row in the text index has a body; one with a body that is not in it has
\* been forgotten.  The worker stores vectors of bodies.
RowsIndexed ==
    \A r \in Rows : /\ row[r].indexed => row[r].body # NoBody
                    /\ ~row[r].indexed /\ row[r].body # NoBody => r \in excused
                    /\ row[r].by = "worker" => row[r].vec # NoBody

\* The jobs that may still store a vector: not the one the worker is through
\* with and has yet to take out of the batch.
Unfinished == IF worker = "finish" THEN Tail(batch) ELSE batch
Entries(s) == {s[i] : i \in DOMAIN s}
Awaited ==
    {mine[w] : w \in {v \in Writers : at[v] \in {"committed", "counted"}}}
    \cup Entries(queue) \cup Entries(Unfinished)
AwaitedOrExcused ==
    \A r \in Rows \ excused :
        row[r].body # NoBody /\ row[r].vec = NoBody
            => \E j \in Awaited : j.row = r /\ Is(j, r)

QueueTyped == TypeOK /\ JobsHeld

LEMMA HeadTail ==
    ASSUME NEW S, NEW s \in Seq(S), s # <<>>
    PROVE  /\ Head(s) \in S /\ Tail(s) \in Seq(S) /\ Len(Tail(s)) = Len(s) - 1 /\ Len(s) > 0
           /\ Head(s) = s[1] /\ 1 \in DOMAIN s
           /\ Entries(s) = {Head(s)} \cup Entries(Tail(s))
  <1>1. /\ Head(s) \in S /\ Tail(s) \in Seq(S) /\ Len(Tail(s)) = Len(s) - 1 /\ Len(s) > 0
        /\ Head(s) = s[1] /\ 1 \in DOMAIN s
    OBVIOUS
  <1>2. \A i \in DOMAIN Tail(s) : Tail(s)[i] = s[i + 1] /\ i + 1 \in DOMAIN s
    BY <1>1
  <1>3. Entries(Tail(s)) \subseteq Entries(s)
    BY <1>2 DEF Entries
  <1>4. \A i \in DOMAIN s : i # 1 => i - 1 \in DOMAIN Tail(s) /\ s[i] = Tail(s)[i - 1]
    BY <1>1
  <1>5. Entries(s) \subseteq {Head(s)} \cup Entries(Tail(s))
    <2> SUFFICES ASSUME NEW i \in DOMAIN s PROVE s[i] \in {Head(s)} \cup Entries(Tail(s))
      BY DEF Entries
    <2>1. CASE i = 1
      BY <1>1, <2>1
    <2>2. CASE i # 1
      BY <1>4, <2>2 DEF Entries
    <2>3. QED
      BY <2>1, <2>2
  <1>6. QED
    BY <1>1, <1>3, <1>5 DEF Entries

LEMMA EntriesAppend ==
    ASSUME NEW S, NEW s \in Seq(S), NEW x \in S
    PROVE  /\ Append(s, x) \in Seq(S) /\ Len(Append(s, x)) = Len(s) + 1
           /\ Append(s, x) # <<>>
           /\ Entries(Append(s, x)) = Entries(s) \cup {x}
  <1>1. /\ Append(s, x) \in Seq(S) /\ Len(Append(s, x)) = Len(s) + 1 /\ Len(s) \in Nat
        /\ \A i \in DOMAIN s : i \in DOMAIN Append(s, x) /\ Append(s, x)[i] = s[i]
        /\ Len(s) + 1 \in DOMAIN Append(s, x) /\ Append(s, x)[Len(s) + 1] = x
        /\ DOMAIN Append(s, x) = DOMAIN s \cup {Len(s) + 1}
    OBVIOUS
  <1>2. Entries(Append(s, x)) = Entries(s) \cup {x}
    BY <1>1 DEF Entries
  <1>3. QED
    BY <1>1, <1>2

LEMMA QueueInitInv ==
    ASSUME Init
    PROVE  QueueTyped /\ RowsIndexed /\ AwaitedOrExcused /\ PendingAccurate
           /\ NoLostWakeup /\ QueuedVectorsFresh
  <1>1. QueueTyped
    BY EmbedAssumption DEF Init, QueueTyped, TypeOK, JobsHeld, Row,
           Vectors, Job
  <1>2. RowsIndexed /\ AwaitedOrExcused /\ QueuedVectorsFresh /\ NoLostWakeup
    BY DEF Init, RowsIndexed, AwaitedOrExcused, QueuedVectorsFresh, NoLostWakeup
  <1>3. Counted = {}
    BY DEF Init, Counted
  <1>4. PendingAccurate
    <2>1. Cardinality(Counted) = 0 /\ Len(queue) = 0 /\ Len(batch) = 0
      BY <1>3, FS_EmptySet DEF Init
    <2>2. pending = 0 /\ lost = 0
      BY DEF Init
    <2>3. QED
      BY <2>1, <2>2 DEF PendingAccurate
  <1>5. QED
    BY <1>1, <1>2, <1>4

\* Both halves of one statement that stores a vector.
LEMMA RowStored ==
    ASSUME row \in [Rows -> Row], NEW r \in Rows, NEW v \in Vectors,
           NEW who \in {"nobody", "worker", "tool"},
           row' = [row EXCEPT ![r].vec = v, ![r].by = who]
    PROVE  /\ row' \in [Rows -> Row]
           /\ \A q \in Rows : row'[q].body = row[q].body /\ row'[q].hints = row[q].hints
                              /\ row'[q].indexed = row[q].indexed
           /\ row'[r].vec = v /\ row'[r].by = who
           /\ \A q \in Rows \ {r} : row'[q] = row[q]
  BY DEF Row

LEMMA RememberTyped ==
    ASSUME QueueTyped, NEW w \in Writers, NEW r \in Rows, NEW b \in Bodies, NEW e \in Bodies,
           NEW h \in Hints, Remember(w, r, b, e, h)
    PROVE  QueueTyped'
  <1>1. Remembered(r, b, e, h) \in Row
    BY DEF QueueTyped, TypeOK, Remembered, Row, Vectors
  <1>2. row' \in [Rows -> Row]
    BY <1>1 DEF Remember, QueueTyped, TypeOK
  <1>3. [row |-> r, body |-> b, hints |-> h] \in Job
    BY DEF Job
  <1>4. /\ at' \in [Writers -> {"idle", "committed", "counted", "refused"}]
        /\ mine' \in [Writers -> Job \cup {Nothing}]
        /\ \A v \in Writers : at'[v] # "idle" => mine'[v] \in Job
    BY <1>3 DEF Remember, QueueTyped, TypeOK, JobsHeld
  <1>5. writes' \in 0 .. MaxWrites /\ excused' \subseteq Rows
    BY EmbedAssumption DEF Remember, QueueTyped, TypeOK
  <1>6. UNCHANGED <<queue, worker, batch, pending, flusher, tool, handle, lost>>
    BY DEF Remember
  <1>7. QED
    BY <1>2, <1>4, <1>5, <1>6 DEF QueueTyped, TypeOK, JobsHeld

LEMMA ForgetTyped ==
    ASSUME QueueTyped, NEW r \in Rows, Forget(r)
    PROVE  QueueTyped'
  <1>1. row' \in [Rows -> Row]
    BY DEF Forget, QueueTyped, TypeOK, Row
  <1>2. writes' \in 0 .. MaxWrites /\ excused' \subseteq Rows
    BY EmbedAssumption DEF Forget, QueueTyped, TypeOK
  <1>3. UNCHANGED <<at, mine, queue, worker, batch, pending, flusher, tool, handle, lost>>
    BY DEF Forget
  <1>4. QED
    BY <1>1, <1>2, <1>3 DEF QueueTyped, TypeOK, JobsHeld

LEMMA UncountTyped ==
    ASSUME QueueTyped, Uncount
    PROVE  pending' \in Nat /\ flusher' \in [Flushers -> {"idle", "asleep", "awake"}]
  BY DEF QueueTyped, TypeOK, Uncount, Woken

LEMMA ExcuseTyped ==
    ASSUME QueueTyped, NEW js, js \subseteq Job, Excuse(js)
    PROVE  excused' \subseteq Rows
  BY DEF QueueTyped, TypeOK, Excuse, Job

LEMMA WriterTyped ==
    ASSUME QueueTyped, NEW w \in Writers, RememberStep(w)
    PROVE  QueueTyped'
  <1>1. CASE Count(w)
    <2>1. at' \in [Writers -> {"idle", "committed", "counted", "refused"}]
          /\ pending' \in Nat
          /\ \A v \in Writers : at'[v] # "idle" => mine[v] \in Job
      BY <1>1 DEF Count, QueueTyped, TypeOK, JobsHeld
    <2>2. /\ worker' \in {"unspawned", "recv", "fill", "embed", "store", "finish", "done", "dead"}
          /\ worker' \in {"unspawned", "recv", "done", "dead"} => batch = <<>>
          /\ worker' \in {"fill", "store", "finish"} => batch # <<>>
      BY <1>1 DEF Count, QueueTyped, TypeOK, JobsHeld
    <2>3. UNCHANGED <<row, mine, queue, batch, flusher, tool, handle, writes, lost, excused>>
      BY <1>1 DEF Count
    <2>4. QED
      BY <2>1, <2>2, <2>3 DEF QueueTyped, TypeOK, JobsHeld
  <1>2. CASE TrySend(w)
    <2>1. mine[w] \in Job
      BY <1>2 DEF TrySend, QueueTyped, JobsHeld
    <2>2. queue' \in Seq(Job)
      <3>1. queue \in Seq(Job)
        BY DEF QueueTyped, TypeOK
      <3>2. queue' = queue \/ queue' = Append(queue, mine[w])
        BY <1>2 DEF TrySend
      <3>3. QED
        BY <2>1, <3>1, <3>2, EntriesAppend
    <2>3. excused' \subseteq Rows
      BY <1>2, <2>1, ExcuseTyped DEF TrySend, QueueTyped, TypeOK
    <2>4. /\ at' \in [Writers -> {"idle", "committed", "counted", "refused"}]
          /\ mine' \in [Writers -> Job \cup {Nothing}]
          /\ \A v \in Writers : at'[v] # "idle" => mine'[v] \in Job
      BY <1>2, <2>1 DEF TrySend, QueueTyped, TypeOK, JobsHeld
    <2>5. UNCHANGED <<row, worker, batch, pending, flusher, tool, handle, writes, lost>>
      BY <1>2 DEF TrySend
    <2>6. QED
      BY <2>2, <2>3, <2>4, <2>5 DEF QueueTyped, TypeOK, JobsHeld
  <1>3. CASE RollBack(w)
    <2>1. pending' \in Nat /\ flusher' \in [Flushers -> {"idle", "asleep", "awake"}]
      BY <1>3, UncountTyped DEF RollBack
    <2>2. /\ at' \in [Writers -> {"idle", "committed", "counted", "refused"}]
          /\ mine' \in [Writers -> Job \cup {Nothing}]
          /\ \A v \in Writers : at'[v] # "idle" => mine'[v] \in Job
      BY <1>3 DEF RollBack, QueueTyped, TypeOK, JobsHeld
    <2>3. UNCHANGED <<row, queue, worker, batch, tool, handle, writes, lost, excused>>
      BY <1>3 DEF RollBack
    <2>4. QED
      BY <2>1, <2>2, <2>3 DEF QueueTyped, TypeOK, JobsHeld
  <1>4. QED
    BY <1>1, <1>2, <1>3 DEF RememberStep

LEMMA QueueParts ==
    ASSUME QueueTyped
    PROVE  /\ queue \in Seq(Job) /\ batch \in Seq(Job) /\ row \in [Rows -> Row]
           /\ Len(queue) \in Nat /\ Len(batch) \in Nat /\ pending \in Nat /\ lost \in Nat
           /\ at \in [Writers -> {"idle", "committed", "counted", "refused"}]
           /\ mine \in [Writers -> Job \cup {Nothing}]
  BY DEF QueueTyped, TypeOK

LEMMA WorkerTyped ==
    ASSUME QueueTyped, WorkerStep
    PROVE  QueueTyped'
  <1> USE QueueParts
  <1>1. UNCHANGED <<at, mine, tool, handle, writes, lost>>
    BY DEF WorkerStep, Recv, Fill, Generate, Store, Finish,
           NextBatch, Exit
  <1>2. CASE Recv
    <2>1. Head(queue) \in Job /\ Tail(queue) \in Seq(Job)
      BY <1>2, HeadTail DEF Recv
    <2>2. /\ batch' \in Seq(Job) /\ batch' # <<>> /\ queue' \in Seq(Job)
          /\ worker' = "fill"
      BY <1>2, <2>1 DEF Recv
    <2>3. UNCHANGED <<row, pending, flusher, excused>>
      BY <1>2 DEF Recv
    <2>4. QED
      BY <1>1, <2>2, <2>3 DEF QueueTyped, TypeOK, JobsHeld
  <1>3. CASE Fill
    <2>1. UNCHANGED <<row, pending, flusher, excused>> /\ worker = "fill"
      BY <1>3 DEF Fill
    <2>2. CASE /\ queue # <<>> /\ batch' = Append(batch, Head(queue)) /\ queue' = Tail(queue)
               /\ worker' = worker
      <3>1. Head(queue) \in Job /\ Tail(queue) \in Seq(Job)
        BY <2>2, HeadTail
      <3>2. /\ batch' \in Seq(Job) /\ batch' # <<>> /\ queue' \in Seq(Job)
        BY <2>2, <3>1, EntriesAppend
      <3>3. QED
        BY <1>1, <2>1, <2>2, <3>2 DEF QueueTyped, TypeOK, JobsHeld
    <2>3. CASE worker' = "embed" /\ UNCHANGED <<batch, queue>>
      BY <1>1, <2>1, <2>3 DEF QueueTyped, TypeOK, JobsHeld
    <2>4. QED
      BY <1>3, <2>2, <2>3 DEF Fill
  <1>4. CASE Generate
    <2>1. Head(batch) \in Job
      BY <1>4, HeadTail DEF Generate
    <2>2. excused' \subseteq Rows
      BY <1>4, <2>1, ExcuseTyped DEF Generate, QueueTyped, TypeOK
    <2>3. /\ worker' \in {"store", "finish"} /\ batch # <<>>
          /\ UNCHANGED <<row, queue, batch, pending, flusher>>
      BY <1>4 DEF Generate
    <2>4. QED
      BY <1>1, <2>2, <2>3 DEF QueueTyped, TypeOK, JobsHeld
  <1>5. CASE Store
    <2>1. worker = "store" /\ batch # <<>> /\ worker' = "finish"
      BY <1>5 DEF Store, QueueTyped, JobsHeld
    <2>2. Head(batch) \in Job /\ Head(batch).row \in Rows /\ Head(batch).body \in Vectors
      BY <2>1, HeadTail DEF Job, Vectors
    <2>3. row' \in [Rows -> Row]
      <3>1. CASE row' = [row EXCEPT ![Head(batch).row].vec = Head(batch).body,
                                    ![Head(batch).row].by = "worker"]
        BY <2>2, <3>1, RowStored
      <3>2. QED
        BY <1>5, <3>1 DEF Store
    <2>4. excused' \subseteq Rows
      BY <1>5, <2>2, ExcuseTyped DEF Store, QueueTyped, TypeOK
    <2>5. UNCHANGED <<queue, batch, pending, flusher>>
      BY <1>5 DEF Store
    <2>6. QED
      BY <1>1, <2>1, <2>3, <2>4, <2>5 DEF QueueTyped, TypeOK, JobsHeld
  <1>6. CASE Finish
    <2>1. worker = "finish" /\ batch # <<>>
      BY <1>6 DEF Finish, QueueTyped, JobsHeld
    <2>2. batch' \in Seq(Job) /\ worker' = "embed"
      BY <1>6, <2>1, HeadTail DEF Finish
    <2>3. pending' \in Nat /\ flusher' \in [Flushers -> {"idle", "asleep", "awake"}]
      BY <1>6, UncountTyped DEF Finish
    <2>4. UNCHANGED <<row, queue, excused>>
      BY <1>6 DEF Finish
    <2>5. QED
      BY <1>1, <2>2, <2>3, <2>4 DEF QueueTyped, TypeOK, JobsHeld
  <1>7. CASE NextBatch \/ Exit
    <2>1. /\ worker' \in {"recv", "done"} /\ batch = <<>>
          /\ UNCHANGED <<row, queue, batch, pending, flusher, excused>>
      BY <1>7 DEF NextBatch, Exit, QueueTyped, JobsHeld
    <2>2. QED
      BY <1>1, <2>1 DEF QueueTyped, TypeOK, JobsHeld
  <1>8. QED
    BY <1>2, <1>3, <1>4, <1>5, <1>6, <1>7 DEF WorkerStep

LEMMA PanicTyped ==
    ASSUME QueueTyped, Panic
    PROVE  QueueTyped'
  <1> USE QueueParts
  <1>1. Jobs \subseteq Job
    BY DEF Jobs
  <1>2. excused' \subseteq Rows
    BY <1>1, ExcuseTyped DEF Panic
  <1>3. worker' = "dead" /\ queue' = <<>> /\ batch' = <<>> /\ lost' \in Nat
    BY DEF Panic
  <1>4. UNCHANGED <<row, at, mine, pending, flusher, tool, handle, writes>>
    BY DEF Panic
  <1>5. QED
    BY <1>2, <1>3, <1>4 DEF QueueTyped, TypeOK, JobsHeld

LEMMA FlushTyped ==
    ASSUME QueueTyped, NEW f \in Flushers,
           FlushStart(f) \/ FlushRecheck(f) \/ FlushTimeout(f)
    PROVE  QueueTyped'
  <1>1. flusher' \in [Flushers -> {"idle", "asleep", "awake"}]
    BY DEF FlushStart, FlushRecheck, FlushTimeout, QueueTyped, TypeOK
  <1>2. UNCHANGED <<row, at, mine, queue, worker, batch, pending, tool, handle, writes, lost,
                    excused>>
    BY DEF FlushStart, FlushRecheck, FlushTimeout
  <1>3. QED
    BY <1>1, <1>2 DEF QueueTyped, TypeOK, JobsHeld

LEMMA ToolTyped ==
    ASSUME QueueTyped, RowsIndexed, NEW e \in Embedders,
           ToolStore(e) \/ ToolFails(e) \/ \E r \in Rows : ToolRead(e, r)
    PROVE  QueueTyped'
  <1> USE QueueParts
  <1>1. UNCHANGED <<at, mine, queue, worker, batch, pending, flusher, handle, writes, lost,
                    excused>>
    BY DEF ToolStore, ToolFails, ToolRead
  <1>2. tool \in [Embedders -> Reading \cup {Nothing}]
    BY DEF QueueTyped, TypeOK
  <1>3. row' \in [Rows -> Row]
    <2>1. CASE ToolStore(e)
      <3>1. tool[e].row \in Rows /\ tool[e].body \in Vectors
        BY <1>2, <2>1 DEF ToolStore, Reading, Vectors
      <3>2. row' = [row EXCEPT ![tool[e].row].vec = tool[e].body, ![tool[e].row].by = "tool"]
        BY <2>1 DEF ToolStore
      <3>3. QED
        BY <3>1, <3>2, RowStored
    <2>2. QED
      BY <2>1 DEF ToolFails, ToolRead
  <1>4. tool' \in [Embedders -> Reading \cup {Nothing}]
    <2>1. ASSUME NEW r \in Rows, ToolRead(e, r)
          PROVE  tool' \in [Embedders -> Reading \cup {Nothing}]
      <3>1. row[r].body \in Bodies
        BY <2>1 DEF ToolRead, RowsIndexed, Row, Vectors
      <3>2. [row |-> r, body |-> row[r].body] \in Reading
        BY <3>1 DEF Reading
      <3>3. QED
        BY <1>2, <2>1, <3>2 DEF ToolRead
    <2>2. QED
      BY <1>2, <2>1 DEF ToolStore, ToolFails
  <1>5. QED
    BY <1>1, <1>3, <1>4 DEF QueueTyped, TypeOK, JobsHeld

LEMMA DropTyped ==
    ASSUME QueueTyped, Drop \/ DropReturns \/ Reopen
    PROVE  QueueTyped'
  <1>1. /\ handle' \in {"open", "dropping", "dropped", "ended"}
        /\ UNCHANGED <<row, at, mine, queue, worker, batch, pending, flusher, tool, writes,
                       lost, excused>>
    BY DEF Drop, DropReturns, Reopen
  <1>2. QED
    BY <1>1 DEF QueueTyped, TypeOK, JobsHeld

LEMMA EndTyped ==
    ASSUME QueueTyped, ProcessEnds
    PROVE  QueueTyped'
  <1> USE QueueParts
  <1>1. OnItsWay \subseteq Job
    <2>1. Jobs \subseteq Job
      BY DEF Jobs
    <2>2. \A w \in Writers : at[w] \in {"committed", "counted"} => mine[w] \in Job
      BY DEF QueueTyped, JobsHeld
    <2>3. QED
      BY <2>1, <2>2 DEF OnItsWay
  <1>2. excused' \subseteq Rows
    BY <1>1, ExcuseTyped DEF ProcessEnds
  <1>3. /\ at' = [w \in Writers |-> "idle"] /\ mine' = [w \in Writers |-> Nothing]
        /\ queue' = <<>> /\ batch' = <<>> /\ worker' = "unspawned" /\ pending' = 0 /\ lost' = 0
        /\ flusher' = [f \in Flushers |-> "idle"] /\ tool' = [e \in Embedders |-> Nothing]
        /\ handle' = "ended" /\ row' = row /\ writes' = writes
    BY DEF ProcessEnds
  <1>4. queue' \in Seq(Job) /\ batch' \in Seq(Job)
    BY <1>3
  <1>5. /\ at' \in [Writers -> {"idle", "committed", "counted", "refused"}]
        /\ mine' \in [Writers -> Job \cup {Nothing}]
        /\ flusher' \in [Flushers -> {"idle", "asleep", "awake"}]
        /\ tool' \in [Embedders -> Reading \cup {Nothing}]
        /\ \A w \in Writers : at'[w] = "idle"
    BY <1>3
  <1>6. QED
    BY <1>2, <1>3, <1>4, <1>5 DEF QueueTyped, TypeOK, JobsHeld

\* The process takes its count with it.
LEMMA EndCounts ==
    ASSUME ProcessEnds
    PROVE  PendingAccurate'
  <1>1. \A w \in Writers : at'[w] = "idle"
    BY DEF ProcessEnds
  <1>2. Counted' = {}
    BY <1>1 DEF Counted
  <1>3. Cardinality(Counted') = 0
    BY <1>2, FS_EmptySet
  <1>4. Len(queue') = 0 /\ Len(batch') = 0 /\ pending' = 0 /\ lost' = 0
    BY DEF ProcessEnds
  <1>5. QED
    BY <1>3, <1>4 DEF PendingAccurate

\* The writers whose job is counted are a finite set, which changes by one.
LEMMA CountedSize ==
    ASSUME NEW w \in Writers
    PROVE  /\ Cardinality(Counted) \in Nat
           /\ Counted' = Counted \cup {w} /\ w \notin Counted
                => Cardinality(Counted') = Cardinality(Counted) + 1
           /\ Counted' = Counted \ {w} /\ w \in Counted
                => Cardinality(Counted') = Cardinality(Counted) - 1
  <1>1. Counted \subseteq Writers
    BY DEF Counted
  <1>2. IsFiniteSet(Counted)
    BY <1>1, FS_Subset, EmbedAssumption
  <1>3. QED
    BY <1>2, FS_CardinalityType, FS_AddElement, FS_RemoveElement

LEMMA WriterCounts ==
    ASSUME QueueTyped, PendingAccurate, NEW w \in Writers,
           RememberStep(w)
    PROVE  PendingAccurate'
  <1> USE QueueParts
  <1>1. pending = Cardinality(Counted) + Len(queue) + Len(batch) + lost
    BY DEF PendingAccurate
  <1>2. Cardinality(Counted) \in Nat
    BY CountedSize
  <1>3. CASE Count(w)
    <2>1. Counted' = Counted \cup {w} /\ w \notin Counted
      BY <1>3 DEF Count, Counted
    <2>2. Cardinality(Counted') = Cardinality(Counted) + 1
      BY <2>1, CountedSize
    <2>3. pending' = pending + 1 /\ UNCHANGED <<queue, batch, lost>>
      BY <1>3 DEF Count
    <2>4. QED
      BY <1>1, <1>2, <2>2, <2>3 DEF PendingAccurate
  <1>4. CASE TrySend(w)
    <2>1. UNCHANGED <<batch, pending, lost>> /\ at[w] = "counted"
      BY <1>4 DEF TrySend
    <2>2. CASE queue' = Append(queue, mine[w]) /\ at' = [at EXCEPT ![w] = "idle"]
      <3>1. Counted' = Counted \ {w} /\ w \in Counted
        BY <2>1, <2>2 DEF Counted
      <3>2. Cardinality(Counted') = Cardinality(Counted) - 1
        BY <3>1, CountedSize
      <3>3. mine[w] \in Job
        BY <2>1 DEF QueueTyped, JobsHeld
      <3>4. Len(queue') = Len(queue) + 1
        BY <2>2, <3>3, EntriesAppend
      <3>5. QED
        BY <1>1, <1>2, <2>1, <3>2, <3>4 DEF PendingAccurate
    <2>3. CASE queue' = queue /\ at' = [at EXCEPT ![w] = "refused"]
      <3>1. Counted' = Counted
        BY <2>1, <2>3 DEF Counted
      <3>2. QED
        BY <2>1, <2>3, <3>1 DEF PendingAccurate
    <2>4. QED
      BY <1>4, <2>2, <2>3 DEF TrySend
  <1>5. CASE RollBack(w)
    <2>1. Counted' = Counted \ {w} /\ w \in Counted
      BY <1>5 DEF RollBack, Counted
    <2>2. Cardinality(Counted') = Cardinality(Counted) - 1
      BY <2>1, CountedSize
    <2>3. Cardinality(Counted') \in Nat
      <3>1. IsFiniteSet(Counted')
        <4>1. Counted' \subseteq Writers
          BY DEF Counted
        <4>2. QED
          BY <4>1, FS_Subset, EmbedAssumption
      <3>2. QED
        BY <3>1, FS_CardinalityType
    <2>4. pending > 0
      BY <1>1, <1>2, <2>2, <2>3
    <2>5. pending' = pending - 1 /\ UNCHANGED <<queue, batch, lost>>
      BY <1>5, <2>4 DEF RollBack, Uncount
    <2>6. QED
      BY <1>1, <1>2, <2>2, <2>5 DEF PendingAccurate
  <1>6. QED
    BY <1>3, <1>4, <1>5 DEF RememberStep

LEMMA WorkerCounts ==
    ASSUME QueueTyped, PendingAccurate, WorkerStep \/ Panic
    PROVE  PendingAccurate'
  <1> USE QueueParts
  <1>1. pending = Cardinality(Counted) + Len(queue) + Len(batch) + lost
    BY DEF PendingAccurate
  <1>2. Cardinality(Counted) \in Nat
    <2>1. Counted \subseteq Writers
      BY DEF Counted
    <2>2. QED
      BY <2>1, FS_Subset, FS_CardinalityType, EmbedAssumption
  <1>3. Counted' = Counted
    BY DEF WorkerStep, Recv, Fill, Generate, Store, Finish,
           NextBatch, Exit, Panic, Counted
  <1>4. ASSUME pending' = pending + (Len(queue') - Len(queue)) + (Len(batch') - Len(batch))
                          + (lost' - lost),
               Len(queue') \in Nat, Len(batch') \in Nat, lost' \in Nat, pending' \in Nat
        PROVE  PendingAccurate'
    <2>1. pending' = Cardinality(Counted) + Len(queue') + Len(batch') + lost'
      <3> DEFINE n == Cardinality(Counted)
                 q == Len(queue)
                 b == Len(batch)
                 qq == Len(queue')
                 bb == Len(batch')
      <3>1. /\ n \in Nat /\ pending \in Nat /\ q \in Nat /\ b \in Nat /\ lost \in Nat
            /\ pending' \in Nat /\ qq \in Nat /\ bb \in Nat /\ lost' \in Nat
        BY <1>2, <1>4
      <3>2. pending = n + q + b + lost
        BY <1>1
      <3>3. pending' = pending + (qq - q) + (bb - b) + (lost' - lost)
        BY <1>4
      <3> HIDE DEF n, q, b, qq, bb
      <3>4. pending' = n + qq + bb + lost'
        BY ONLY <3>1, <3>2, <3>3
      <3>5. QED
        BY <3>4 DEF n, qq, bb
    <2>2. QED
      BY <1>3, <2>1 DEF PendingAccurate
  <1>5. CASE UNCHANGED <<queue, batch, pending, lost>>
    BY <1>4, <1>5
  <1>6. CASE Recv
    <2>1. batch = <<>> /\ queue # <<>>
      BY <1>6 DEF Recv, QueueTyped, JobsHeld
    <2>2. /\ Len(batch') = 1 /\ Len(batch) = 0 /\ Len(queue') = Len(queue) - 1 /\ Len(queue) > 0
          /\ UNCHANGED <<pending, lost>>
      BY <1>6, <2>1, HeadTail DEF Recv
    <2>3. QED
      BY <1>4, <2>2
  <1>7. CASE Fill
    <2>1. CASE queue # <<>> /\ batch' = Append(batch, Head(queue)) /\ queue' = Tail(queue)
      <3>1. Head(queue) \in Job /\ Len(queue') = Len(queue) - 1 /\ Len(queue) > 0
        BY <2>1, HeadTail
      <3>2. Len(batch') = Len(batch) + 1
        BY <2>1, <3>1, EntriesAppend
      <3>3. UNCHANGED <<pending, lost>>
        BY <1>7 DEF Fill
      <3>4. QED
        BY <1>4, <3>1, <3>2, <3>3
    <2>2. QED
      BY <1>5, <1>7, <2>1 DEF Fill
  <1>8. CASE Finish
    <2>1. batch # <<>>
      BY <1>8 DEF Finish, QueueTyped, JobsHeld
    <2>2. Len(batch') = Len(batch) - 1 /\ Len(batch) > 0 /\ UNCHANGED <<queue, lost>>
      BY <1>8, <2>1, HeadTail DEF Finish
    <2>3. pending > 0
      BY <1>1, <1>2, <2>2
    <2>4. pending' = pending - 1
      BY <1>8, <2>3 DEF Finish, Uncount
    <2>5. QED
      BY <1>4, <2>2, <2>3, <2>4
  <1>9. CASE Panic
    <2>1. Len(queue') = 0 /\ Len(batch') = 0
      BY <1>9 DEF Panic
    <2>2. lost' = lost + Len(queue) + Len(batch) /\ pending' = pending
      BY <1>9 DEF Panic
    <2>3. QED
      BY <1>4, <2>1, <2>2
  <1>10. QED
    BY <1>5, <1>6, <1>7, <1>8, <1>9
       DEF WorkerStep, Generate, Store, NextBatch, Exit

\* What no other step touches.
LEMMA OthersCount ==
    ASSUME PendingAccurate, UNCHANGED <<queue, batch, pending, lost>>,
           Counted' = Counted
    PROVE  PendingAccurate'
  BY DEF PendingAccurate

\* Whoever brings the count to zero wakes every waiter.
LEMMA WakeupKept ==
    ASSUME QueueTyped, NoLostWakeup, Next
    PROVE  NoLostWakeup'
  <1> USE QueueParts
  <1>1. CASE UNCHANGED <<pending, flusher>>
    BY <1>1 DEF NoLostWakeup
  <1>2. CASE Uncount
    BY <1>2 DEF Uncount, Woken, NoLostWakeup
  <1>3. ASSUME NEW w \in Writers, RememberStep(w) PROVE NoLostWakeup'
    <2>1. CASE Count(w)
      BY <2>1 DEF Count, NoLostWakeup
    <2>2. QED
      BY <1>1, <1>2, <1>3, <2>1 DEF RememberStep, TrySend, RollBack
  <1>4. ASSUME NEW f \in Flushers,
               FlushStart(f) \/ FlushRecheck(f) \/ FlushTimeout(f)
        PROVE  NoLostWakeup'
    <2>1. flusher \in [Flushers -> {"idle", "asleep", "awake"}] /\ pending' = pending
      BY <1>4 DEF QueueTyped, TypeOK, FlushStart, FlushRecheck,
                  FlushTimeout
    <2>2. QED
      BY <1>4, <2>1 DEF FlushStart, FlushRecheck, FlushTimeout,
                        NoLostWakeup
  <1>5. CASE WorkerStep
    BY <1>1, <1>2, <1>5 DEF WorkerStep, Recv, Fill, Generate, Store,
                       Finish, NextBatch, Exit
  <1>6. CASE ProcessEnds
    <2>1. flusher' = [f \in Flushers |-> "idle"]
      BY <1>6 DEF ProcessEnds
    <2>2. QED
      BY <2>1 DEF NoLostWakeup
  <1>7. QED
    BY <1>1, <1>3, <1>4, <1>5, <1>6
       DEF Next, Remember, Forget, Panic, ToolStore,
           ToolFails, ToolRead, Drop, DropReturns, Reopen

\* A statement that stores a vector, excuses rows, or leaves the rows alone.
LEMMA RowsKept ==
    ASSUME QueueTyped, RowsIndexed, QueuedVectorsFresh, excused \subseteq excused',
           \A r \in Rows : /\ row'[r].body = row[r].body /\ row'[r].indexed = row[r].indexed
                           /\ \/ row'[r].vec = row[r].vec /\ row'[r].by = row[r].by
                              \/ row'[r].by # "worker"
                              \/ row'[r].vec = row[r].body /\ row[r].indexed
    PROVE  RowsIndexed' /\ QueuedVectorsFresh'
  BY DEF RowsIndexed, QueuedVectorsFresh

\* What a job is waited for survives a step that takes it off the way only
\* when its row has a vector, is excused, or has another text.
LEMMA AwaitKept ==
    ASSUME AwaitedOrExcused, excused \subseteq excused',
           \A r \in Rows : /\ row'[r].body = row[r].body /\ row'[r].hints = row[r].hints
                           /\ row'[r].vec = NoBody => row[r].vec = NoBody,
           \A j \in Awaited : \/ j \in Awaited' \/ j.row \in excused' \/ ~Is(j, j.row)
                              \/ row'[j.row].vec # NoBody
    PROVE  AwaitedOrExcused'
  <1> SUFFICES ASSUME NEW r \in Rows \ excused', row'[r].body # NoBody, row'[r].vec = NoBody
               PROVE  \E j \in Awaited' : j.row = r /\ Is(j, r)'
    BY DEF AwaitedOrExcused
  <1>1. PICK j \in Awaited : j.row = r /\ Is(j, r)
    BY DEF AwaitedOrExcused
  <1>2. j \in Awaited'
    BY <1>1
  <1>3. Is(j, r)'
    BY <1>1 DEF Is
  <1>4. QED
    BY <1>1, <1>2, <1>3

RowsInv == RowsIndexed /\ QueuedVectorsFresh /\ AwaitedOrExcused

\* A step that touches no row, and that takes no job off the way.
LEMMA RowsInvSteps ==
    ASSUME QueueTyped, RowsInv, row' = row, excused \subseteq excused',
           \A j \in Awaited : j \in Awaited' \/ j.row \in excused' \/ ~Is(j, j.row)
    PROVE  RowsInv'
  <1>1. RowsIndexed' /\ QueuedVectorsFresh'
    BY RowsKept DEF RowsInv
  <1>2. AwaitedOrExcused'
    BY AwaitKept DEF RowsInv
  <1>3. QED
    BY <1>1, <1>2 DEF RowsInv

\* A new body makes its job in the same transaction.
LEMMA RememberRows ==
    ASSUME QueueTyped, RowsInv, NEW w \in Writers, NEW r \in Rows,
           NEW b \in Bodies, NEW e \in Bodies, NEW h \in Hints, Remember(w, r, b, e, h)
    PROVE  RowsInv'
  <1> USE QueueParts
  <1>1. /\ row' = [row EXCEPT ![r] = Remembered(r, b, e, h)]
        /\ UNCHANGED <<queue, worker, batch>> /\ at[w] = "idle" /\ b # NoBody /\ e # NoBody
        /\ e = b \/ e \in Repairs[b]
    BY EmbedAssumption DEF Remember, Effective
  <1>2. CASE row[r].body = b
    <2>1. /\ row'[r].body = e /\ row'[r].hints = h /\ row'[r].indexed = TRUE
          /\ row'[r].vec = row[r].vec /\ row'[r].by = row[r].by
      BY <1>1, <1>2 DEF Remembered, Row
    <2>2. \A q \in Rows \ {r} : row'[q] = row[q]
      BY <1>1
    <2>3. excused \subseteq excused' /\ ((e = b /\ row[r].hints = h) \/ r \in excused') /\ UNCHANGED <<at, mine>>
      BY <1>2 DEF Remember
    <2>4. RowsIndexed' /\ QueuedVectorsFresh'
      <3>1. RowsIndexed'
        BY <1>1, <2>1, <2>2, <2>3 DEF RowsInv, RowsIndexed
      <3>2. row[r].by = "worker" => e = row[r].vec \/ e \in Repairs[row[r].vec]
        <4> SUFFICES ASSUME row[r].by = "worker"
                     PROVE  e = row[r].vec \/ e \in Repairs[row[r].vec]
          OBVIOUS
        <4>1. row[r].vec \in Bodies
          BY DEF RowsInv, RowsIndexed, Row, Vectors
        <4>2. b = row[r].vec \/ b \in Repairs[row[r].vec]
          BY <1>2 DEF RowsInv, QueuedVectorsFresh
        <4>3. CASE e = b
          BY <4>2, <4>3
        <4>4. CASE e \in Repairs[b]
          BY <4>1, <4>2, <4>4, EmbedAssumption
        <4>5. QED
          BY <1>1, <4>3, <4>4
      <3>3. QueuedVectorsFresh'
        BY <2>1, <2>2, <3>2 DEF RowsInv, QueuedVectorsFresh
      <3>4. QED
        BY <3>1, <3>3
    <2>5. Awaited' = Awaited
      BY <1>1, <2>3 DEF Awaited, Unfinished
    <2>6. ASSUME NEW q \in Rows \ excused', row'[q].body # NoBody, row'[q].vec = NoBody
          PROVE  \E j \in Awaited' : j.row = q /\ Is(j, q)'
      <3>1. row'[q].body = row[q].body /\ row'[q].hints = row[q].hints /\ row'[q].vec = row[q].vec
        BY <1>2, <2>1, <2>2, <2>3, <2>6
      <3>2. PICK j \in Awaited : j.row = q /\ Is(j, q)
        BY <2>3, <2>6, <3>1 DEF RowsInv, AwaitedOrExcused
      <3>3. QED
        BY <2>5, <3>1, <3>2 DEF Is
    <2>7. QED
      BY <2>4, <2>6 DEF RowsInv, AwaitedOrExcused
  <1>3. CASE row[r].body # b
    <2> DEFINE k == [row |-> r, body |-> b, hints |-> h]
    <2>1. /\ row'[r].body = e /\ row'[r].hints = h /\ row'[r].indexed = TRUE
          /\ row'[r].vec = NoBody /\ row'[r].by = "nobody"
      BY <1>1, <1>3 DEF Remembered
    <2>2. \A q \in Rows \ {r} : row'[q] = row[q]
      BY <1>1
    <2>3. /\ excused' \cup {r} = excused \cup {r} /\ (e = b \/ r \in excused')
          /\ mine' = [mine EXCEPT ![w] = k]
          /\ at' = [at EXCEPT ![w] = "committed"]
      BY <1>3 DEF Remember
    <2>4. RowsIndexed' /\ QueuedVectorsFresh'
      BY <1>1, <2>1, <2>2, <2>3 DEF RowsInv, RowsIndexed, QueuedVectorsFresh
    <2>5. k.row = r /\ k.body = b /\ k.hints = h
      OBVIOUS
    <2> HIDE DEF k
    <2>6. k \in Awaited' /\ Awaited \subseteq Awaited'
      <3>1. at'[w] = "committed" /\ mine'[w] = k
        BY <2>3
      <3>2. \A v \in Writers \ {w} : at'[v] = at[v] /\ mine'[v] = mine[v]
        BY <2>3
      <3>3. Unfinished' = Unfinished /\ queue' = queue
        BY <1>1 DEF Unfinished
      <3>4. QED
        BY <1>1, <3>1, <3>2, <3>3 DEF Awaited
    <2>7. ASSUME NEW q \in Rows \ excused', row'[q].body # NoBody, row'[q].vec = NoBody
          PROVE  \E j \in Awaited' : j.row = q /\ Is(j, q)'
      <3>1. CASE q = r
        BY <2>1, <2>3, <2>5, <2>6, <2>7, <3>1 DEF Is
      <3>2. CASE q # r
        <4>1. PICK j \in Awaited : j.row = q /\ Is(j, q)
          BY <2>2, <2>3, <2>7, <3>2 DEF RowsInv, AwaitedOrExcused
        <4>2. QED
          BY <2>2, <2>6, <3>2, <4>1 DEF Is
      <3>3. QED
        BY <3>1, <3>2
    <2>8. QED
      BY <2>4, <2>7 DEF RowsInv, AwaitedOrExcused
  <1>4. QED
    BY <1>2, <1>3

LEMMA ForgetRows ==
    ASSUME QueueTyped, RowsInv, NEW r \in Rows, Forget(r)
    PROVE  RowsInv'
  <1> USE QueueParts
  <1>1. /\ row' = [row EXCEPT ![r].indexed = FALSE] /\ excused' = excused \cup {r}
        /\ UNCHANGED <<at, mine, queue, worker, batch>>
    BY DEF Forget
  <1>2. /\ \A q \in Rows : row'[q].body = row[q].body /\ row'[q].hints = row[q].hints
                           /\ row'[q].vec = row[q].vec /\ row'[q].by = row[q].by
        /\ \A q \in Rows \ {r} : row'[q] = row[q]
        /\ row'[r].indexed = FALSE
    BY <1>1 DEF Row
  <1>3. RowsIndexed' /\ QueuedVectorsFresh'
    BY <1>1, <1>2 DEF RowsInv, RowsIndexed, QueuedVectorsFresh
  <1>4. Awaited' = Awaited
    BY <1>1 DEF Awaited, Unfinished
  <1>5. AwaitedOrExcused'
    BY <1>1, <1>2, <1>4, AwaitKept DEF RowsInv
  <1>6. QED
    BY <1>3, <1>5 DEF RowsInv

LEMMA WriterRows ==
    ASSUME QueueTyped, RowsInv, NEW w \in Writers, RememberStep(w)
    PROVE  RowsInv'
  <1> USE QueueParts
  <1>1. row' = row
    BY DEF RememberStep, Count, TrySend, RollBack
  <1>2. CASE Count(w)
    <2>1. /\ at[w] = "committed" /\ at' = [at EXCEPT ![w] = "counted"]
          /\ UNCHANGED <<mine, queue, batch, excused>>
      BY <1>2 DEF Count
    <2>2. Unfinished' = Unfinished
      BY <1>2 DEF Count, Unfinished
    <2>3. Awaited \subseteq Awaited'
      BY <2>1, <2>2 DEF Awaited
    <2>4. QED
      BY <1>1, <2>1, <2>3, RowsInvSteps
  <1>3. CASE TrySend(w)
    <2>1. /\ Unfinished' = Unfinished /\ at[w] = "counted" /\ mine[w] \in Job
      BY <1>3 DEF TrySend, Unfinished, QueueTyped, JobsHeld
    <2>2. CASE /\ queue' = Append(queue, mine[w]) /\ at' = [at EXCEPT ![w] = "idle"]
               /\ mine' = [mine EXCEPT ![w] = Nothing] /\ excused' = excused
      <3>1. Entries(queue') = Entries(queue) \cup {mine[w]}
        BY <2>1, <2>2, EntriesAppend
      <3>2. \A v \in Writers \ {w} : at'[v] = at[v] /\ mine'[v] = mine[v]
        BY <2>2
      <3>3. Awaited \subseteq Awaited'
        BY <2>1, <3>1, <3>2 DEF Awaited
      <3>4. QED
        BY <1>1, <2>2, <3>3, RowsInvSteps
    <2>3. CASE /\ UNCHANGED <<queue, mine>> /\ at' = [at EXCEPT ![w] = "refused"]
               /\ Excuse({mine[w]})
      <3>1. \A v \in Writers \ {w} : at'[v] = at[v]
        BY <2>3
      <3>2. excused \subseteq excused' /\ (Is(mine[w], mine[w].row) => mine[w].row \in excused')
        BY <2>3 DEF Excuse
      <3>3. Awaited \subseteq Awaited' \cup {mine[w]}
        BY <2>1, <2>3, <3>1 DEF Awaited
      <3>4. QED
        BY <1>1, <3>2, <3>3, RowsInvSteps
    <2>4. QED
      BY <1>3, <2>2, <2>3 DEF TrySend
  <1>4. CASE RollBack(w)
    <2>1. /\ at[w] = "refused" /\ UNCHANGED <<queue, batch, worker, excused>>
          /\ \A v \in Writers \ {w} : at'[v] = at[v] /\ mine'[v] = mine[v]
      BY <1>4 DEF RollBack
    <2>2. Unfinished' = Unfinished
      BY <2>1 DEF Unfinished
    <2>3. Awaited \subseteq Awaited'
      BY <2>1, <2>2 DEF Awaited
    <2>4. QED
      BY <1>1, <2>1, <2>3, RowsInvSteps
  <1>5. QED
    BY <1>2, <1>3, <1>4 DEF RememberStep

\* The worker takes the first job off the way when it has a vector, failed or
\* is out of date.
LEMMA WorkerRows ==
    ASSUME QueueTyped, RowsInv, WorkerStep
    PROVE  RowsInv'
  <1> USE QueueParts
  <1>1. UNCHANGED <<at, mine>>
    BY DEF WorkerStep, Recv, Fill, Generate, Store, Finish,
           NextBatch, Exit
  <1>2. CASE Recv
    <2>1. /\ batch = <<>> /\ queue # <<>> /\ batch' = <<Head(queue)>> /\ queue' = Tail(queue)
          /\ worker = "recv" /\ worker' = "fill" /\ UNCHANGED <<row, excused>>
      BY <1>2 DEF Recv, QueueTyped, JobsHeld
    <2>2. Entries(queue) = {Head(queue)} \cup Entries(queue')
      BY <2>1, HeadTail
    <2>3. Entries(Unfinished) = {}
      BY <2>1 DEF Unfinished, Entries
    <2>4. Unfinished' = <<Head(queue)>>
      BY <2>1 DEF Unfinished
    <2>5. Head(queue) \in Entries(Unfinished')
      BY <2>4 DEF Entries
    <2>6. Awaited \subseteq Awaited'
      BY <1>1, <2>2, <2>3, <2>5 DEF Awaited
    <2>7. QED
      BY <2>1, <2>6, RowsInvSteps
  <1>3. CASE Fill
    <2>1. worker = "fill" /\ worker' \in {"fill", "embed"} /\ UNCHANGED <<row, excused>>
      BY <1>3 DEF Fill
    <2>2. Unfinished = batch /\ Unfinished' = batch'
      BY <2>1 DEF Unfinished
    <2>3. CASE queue # <<>> /\ batch' = Append(batch, Head(queue)) /\ queue' = Tail(queue)
      <3>1. Entries(queue) = {Head(queue)} \cup Entries(queue') /\ Head(queue) \in Job
        BY <2>3, HeadTail
      <3>2. Entries(batch') = Entries(batch) \cup {Head(queue)}
        BY <2>3, <3>1, EntriesAppend
      <3>3. Awaited \subseteq Awaited'
        BY <1>1, <2>2, <3>1, <3>2 DEF Awaited
      <3>4. QED
        BY <2>1, <3>3, RowsInvSteps
    <2>4. CASE UNCHANGED <<batch, queue>>
      <3>1. Awaited \subseteq Awaited'
        BY <1>1, <2>2, <2>4 DEF Awaited
      <3>2. QED
        BY <2>1, <3>1, RowsInvSteps
    <2>5. QED
      BY <1>3, <2>3, <2>4 DEF Fill
  <1>4. CASE Generate
    <2>1. /\ worker = "embed" /\ batch # <<>> /\ UNCHANGED <<row, queue, batch>>
          /\ \/ worker' = "store" /\ excused' = excused
             \/ worker' = "finish" /\ Excuse({Head(batch)})
      BY <1>4 DEF Generate
    <2>2. CASE worker' = "store" /\ excused' = excused
      <3>1. Unfinished' = Unfinished
        BY <2>1, <2>2 DEF Unfinished
      <3>2. Awaited \subseteq Awaited'
        BY <1>1, <2>1, <3>1 DEF Awaited
      <3>3. QED
        BY <2>1, <2>2, <3>2, RowsInvSteps
    <2>3. CASE worker' = "finish" /\ Excuse({Head(batch)})
      <3>1. Unfinished' = Tail(batch) /\ Unfinished = batch
        BY <2>1, <2>3 DEF Unfinished
      <3>2. Entries(batch) = {Head(batch)} \cup Entries(Tail(batch))
        BY <2>1, HeadTail
      <3>3. Awaited \subseteq Awaited' \cup {Head(batch)}
        BY <1>1, <2>1, <3>1, <3>2 DEF Awaited
      <3>4. /\ excused \subseteq excused'
            /\ Is(Head(batch), Head(batch).row) => Head(batch).row \in excused'
        BY <2>3 DEF Excuse
      <3>5. QED
        BY <2>1, <3>3, <3>4, RowsInvSteps
    <2>4. QED
      BY <2>1, <2>2, <2>3
  <1>5. CASE Store
    <2> DEFINE j == Head(batch)
    <2>1. /\ worker = "store" /\ batch # <<>> /\ worker' = "finish" /\ UNCHANGED <<queue, batch>>
      BY <1>5 DEF Store, QueueTyped, JobsHeld
    <2>2. /\ j.row \in Rows /\ j.body \in Vectors /\ j.body # NoBody
          /\ Entries(batch) = {j} \cup Entries(Tail(batch))
      <3>1. j \in Job /\ Entries(batch) = {j} \cup Entries(Tail(batch))
        BY <2>1, HeadTail
      <3>2. QED
        BY <3>1, EmbedAssumption DEF Job, Vectors
    <2>3. Unfinished' = Tail(batch) /\ Unfinished = batch
      BY <2>1 DEF Unfinished
    <2>4. Awaited \subseteq Awaited' \cup {j}
      BY <1>1, <2>1, <2>2, <2>3 DEF Awaited
    <2>5. CASE /\ row[j.row].indexed /\ Is(j, j.row) /\ excused' = excused
               /\ row' = [row EXCEPT ![j.row].vec = j.body, ![j.row].by = "worker"]
      <3> HIDE DEF j
      <3>1. /\ \A q \in Rows : row'[q].body = row[q].body /\ row'[q].hints = row[q].hints
                               /\ row'[q].indexed = row[q].indexed
            /\ row'[j.row].vec = j.body
            /\ \A q \in Rows \ {j.row} : row'[q] = row[q]
        BY <2>2, <2>5, RowStored
      <3>2. row[j.row].body = j.body
        BY <2>5 DEF Is
      <3>3. RowsIndexed' /\ QueuedVectorsFresh'
        BY <2>5, <3>1, <3>2, RowsKept DEF RowsInv
      <3>4. AwaitedOrExcused'
        BY <2>2, <2>4, <2>5, <3>1, AwaitKept DEF RowsInv
      <3>5. QED
        BY <3>3, <3>4 DEF RowsInv
    <2>6. CASE ~(row[j.row].indexed /\ Is(j, j.row)) /\ excused' = excused /\ row' = row
      <3>1. Is(j, j.row) => j.row \in excused
        BY <2>2, <2>6 DEF Is, RowsInv, RowsIndexed
      <3>2. QED
        BY <2>4, <2>6, <3>1, RowsInvSteps
    <2>7. CASE Excuse({j}) /\ row' = row
      <3>1. excused \subseteq excused' /\ (Is(j, j.row) => j.row \in excused')
        BY <2>7 DEF Excuse
      <3>2. QED
        BY <2>4, <2>7, <3>1, RowsInvSteps
    <2>8. QED
      BY <1>5, <2>5, <2>6, <2>7 DEF Store
  <1>6. CASE Finish
    <2>1. worker = "finish" /\ worker' = "embed" /\ batch' = Tail(batch) /\ UNCHANGED <<row, queue, excused>>
      BY <1>6 DEF Finish
    <2>2. Unfinished' = Unfinished
      BY <2>1 DEF Unfinished
    <2>3. Awaited \subseteq Awaited'
      BY <1>1, <2>1, <2>2 DEF Awaited
    <2>4. QED
      BY <2>1, <2>3, RowsInvSteps
  <1>7. CASE NextBatch \/ Exit
    <2>1. worker \in {"embed", "recv"} /\ worker' \in {"recv", "done"}
          /\ UNCHANGED <<row, queue, batch, excused>>
      BY <1>7 DEF NextBatch, Exit
    <2>2. Unfinished' = Unfinished
      BY <2>1 DEF Unfinished
    <2>3. Awaited \subseteq Awaited'
      BY <1>1, <2>1, <2>2 DEF Awaited
    <2>4. QED
      BY <2>1, <2>3, RowsInvSteps
  <1>8. QED
    BY <1>2, <1>3, <1>4, <1>5, <1>6, <1>7 DEF WorkerStep

LEMMA AwaitedOnItsWay ==
    ASSUME QueueTyped
    PROVE  Awaited \subseteq OnItsWay
  <1>1. Entries(Unfinished) \subseteq Entries(batch)
    <2>1. CASE worker = "finish"
      <3>1. batch # <<>> /\ batch \in Seq(Job)
        BY <2>1 DEF QueueTyped, JobsHeld, TypeOK
      <3>2. QED
        BY <2>1, <3>1, HeadTail DEF Unfinished
    <2>2. CASE worker # "finish"
      BY <2>2 DEF Unfinished
    <2>3. QED
      BY <2>1, <2>2
  <1>2. QED
    BY <1>1 DEF Awaited, OnItsWay, Jobs, Entries

LEMMA PanicRows ==
    ASSUME QueueTyped, RowsInv, Panic
    PROVE  RowsInv'
  <1>1. worker = "embed" /\ UNCHANGED <<row, at, mine>> /\ Excuse(Jobs)
    BY DEF Panic
  <1>2. Unfinished = batch
    BY <1>1 DEF Unfinished
  <1>3. Awaited \subseteq Awaited' \cup Jobs
    BY <1>1, <1>2 DEF Awaited, Jobs, Entries
  <1>4. excused \subseteq excused' /\ \A j \in Jobs : Is(j, j.row) => j.row \in excused'
    BY <1>1 DEF Excuse
  <1>5. QED
    BY <1>1, <1>3, <1>4, RowsInvSteps

LEMMA EndRows ==
    ASSUME QueueTyped, RowsInv, ProcessEnds
    PROVE  RowsInv'
  <1>1. row' = row /\ Excuse(OnItsWay)
    BY DEF ProcessEnds
  <1>2. Awaited \subseteq OnItsWay
    BY AwaitedOnItsWay
  <1>3. excused \subseteq excused' /\ \A j \in OnItsWay : Is(j, j.row) => j.row \in excused'
    BY <1>1 DEF Excuse
  <1>4. QED
    BY <1>1, <1>2, <1>3, RowsInvSteps

LEMMA ToolRows ==
    ASSUME QueueTyped, RowsInv, NEW e \in Embedders, ToolStore(e)
    PROVE  RowsInv'
  <1> USE QueueParts
  <1>1. tool[e].row \in Rows /\ tool[e].body \in Vectors /\ tool[e].body # NoBody
    BY EmbedAssumption DEF ToolStore, QueueTyped, TypeOK, Reading, Vectors
  <1>2. /\ row' = [row EXCEPT ![tool[e].row].vec = tool[e].body, ![tool[e].row].by = "tool"]
        /\ UNCHANGED <<at, mine, queue, worker, batch, excused>>
    BY DEF ToolStore
  <1>3. /\ \A q \in Rows : row'[q].body = row[q].body /\ row'[q].hints = row[q].hints
                           /\ row'[q].indexed = row[q].indexed
        /\ row'[tool[e].row].vec = tool[e].body /\ row'[tool[e].row].by = "tool"
        /\ \A q \in Rows \ {tool[e].row} : row'[q] = row[q]
    BY <1>1, <1>2, RowStored
  <1>4. RowsIndexed' /\ QueuedVectorsFresh'
    BY <1>1, <1>2, <1>3, RowsKept DEF RowsInv
  <1>5. Awaited' = Awaited
    BY <1>2 DEF Awaited, Unfinished
  <1>6. AwaitedOrExcused'
    BY <1>1, <1>2, <1>3, <1>5, AwaitKept DEF RowsInv
  <1>7. QED
    BY <1>4, <1>6 DEF RowsInv

\* A step that touches neither the rows nor the jobs.
LEMMA OtherRows ==
    ASSUME RowsInv, UNCHANGED <<row, at, mine, queue, worker, batch, excused>>
    PROVE  RowsInv'
  BY DEF RowsInv, RowsIndexed, QueuedVectorsFresh, AwaitedOrExcused, Is, Awaited,
         Unfinished

QueueInv == QueueTyped /\ PendingAccurate /\ NoLostWakeup /\ RowsInv

LEMMA QueueStepInv ==
    QueueInv /\ [Next]_vars => QueueInv'
  <1> SUFFICES ASSUME QueueInv, [Next]_vars PROVE QueueInv'
    OBVIOUS
  <1>1. QueueTyped /\ PendingAccurate /\ NoLostWakeup /\ RowsInv /\ RowsIndexed
    BY DEF QueueInv, RowsInv
  <1>2. CASE UNCHANGED vars
    <2>1. UNCHANGED <<row, at, mine, queue, worker, batch, pending, flusher, tool, handle,
                      writes, lost, excused>>
      BY <1>2 DEF vars
    <2>2. QueueTyped'
      BY <1>1, <2>1 DEF QueueTyped, TypeOK, JobsHeld
    <2>3. Counted' = Counted
      BY <2>1 DEF Counted
    <2>4. NoLostWakeup'
      BY <1>1, <2>1 DEF NoLostWakeup
    <2>5. QED
      BY <1>1, <2>1, <2>2, <2>3, <2>4, OthersCount, OtherRows DEF QueueInv
  <1>3. CASE Next
    <2>1. NoLostWakeup'
      BY <1>1, <1>3, WakeupKept
    <2>2. ASSUME NEW w \in Writers, NEW r \in Rows, NEW b \in Bodies, NEW e \in Bodies,
                 NEW h \in Hints, Remember(w, r, b, e, h)
          PROVE  QueueInv'
      <3>1. UNCHANGED <<queue, batch, pending, lost>> /\ Counted' = Counted
        BY <1>1, <2>2, QueueParts DEF Remember, Counted
      <3>2. QED
        BY <1>1, <2>1, <2>2, <3>1, RememberTyped, OthersCount, RememberRows DEF QueueInv
    <2>3. ASSUME NEW r \in Rows, Forget(r) PROVE QueueInv'
      <3>1. UNCHANGED <<queue, batch, pending, lost>> /\ Counted' = Counted
        BY <2>3 DEF Forget, Counted
      <3>2. QED
        BY <1>1, <2>1, <2>3, <3>1, ForgetTyped, OthersCount, ForgetRows DEF QueueInv
    <2>4. ASSUME NEW w \in Writers, RememberStep(w) PROVE QueueInv'
      BY <1>1, <2>1, <2>4, WriterTyped, WriterCounts, WriterRows DEF QueueInv
    <2>5. CASE WorkerStep
      BY <1>1, <2>1, <2>5, WorkerTyped, WorkerCounts, WorkerRows DEF QueueInv
    <2>6. CASE Panic
      BY <1>1, <2>1, <2>6, PanicTyped, WorkerCounts, PanicRows DEF QueueInv
    <2>7. ASSUME NEW f \in Flushers,
                 FlushStart(f) \/ FlushRecheck(f) \/ FlushTimeout(f)
          PROVE  QueueInv'
      <3>1. UNCHANGED <<row, at, mine, queue, worker, batch, pending, lost, excused>>
        BY <2>7 DEF FlushStart, FlushRecheck, FlushTimeout
      <3>2. Counted' = Counted
        BY <3>1 DEF Counted
      <3>3. QED
        BY <1>1, <2>1, <2>7, <3>1, <3>2, FlushTyped, OthersCount, OtherRows DEF QueueInv
    <2>8. ASSUME NEW e \in Embedders,
                 ToolStore(e) \/ ToolFails(e) \/ \E r \in Rows : ToolRead(e, r)
          PROVE  QueueInv'
      <3>1. UNCHANGED <<at, mine, queue, worker, batch, pending, lost, excused>>
        BY <2>8 DEF ToolStore, ToolFails, ToolRead
      <3>2. Counted' = Counted
        BY <3>1 DEF Counted
      <3>3. RowsInv'
        BY <1>1, <2>8, <3>1, ToolRows, OtherRows DEF ToolFails, ToolRead
      <3>4. QED
        BY <1>1, <2>1, <2>8, <3>1, <3>2, <3>3, ToolTyped, OthersCount DEF QueueInv
    <2>9. CASE Drop \/ DropReturns \/ Reopen
      <3>1. UNCHANGED <<row, at, mine, queue, worker, batch, pending, lost, excused>>
        BY <2>9 DEF Drop, DropReturns, Reopen
      <3>2. Counted' = Counted
        BY <3>1 DEF Counted
      <3>3. QED
        BY <1>1, <2>1, <2>9, <3>1, <3>2, DropTyped, OthersCount, OtherRows DEF QueueInv
    <2>10. CASE ProcessEnds
      BY <1>1, <2>1, <2>10, EndTyped, EndCounts, EndRows DEF QueueInv
    <2>11. QED
      BY <1>3, <2>2, <2>3, <2>4, <2>5, <2>6, <2>7, <2>8, <2>9, <2>10 DEF Next
  <1>4. QED
    BY <1>2, <1>3

LEMMA QueueInductive == Spec => []QueueInv
  <1>1. Init => QueueInv
    BY QueueInitInv DEF QueueInv, RowsInv
  <1>2. QED
    BY <1>1, QueueStepInv, PTL DEF Spec

\* Every variable of the queue keeps its type, for any rows, writers and sizes.
THEOREM QueueTypeCorrect == Spec => []TypeOK
  <1>1. QueueInv => TypeOK
    BY DEF QueueInv, QueueTyped
  <1>2. QED
    BY <1>1, QueueInductive, PTL

\* enqueue_auto_embed and the worker loop: for any number of writers and any
\* sizes of queue and batch, the count is the number of jobs to be finished,
\* so that its decrement never meets a zero.
THEOREM CountIsAccurate == Spec => []PendingAccurate
  <1>1. QueueInv => PendingAccurate
    BY DEF QueueInv
  <1>2. QED
    BY <1>1, QueueInductive, PTL

\* embed_queue_flush: no waiter sleeps on a count of zero.
THEOREM WakeupsNotLost == Spec => []NoLostWakeup
  <1>1. QueueInv => NoLostWakeup
    BY DEF QueueInv
  <1>2. QED
    BY <1>1, QueueInductive, PTL

\* store_embedding_guarded and remember: a vector that the worker has stored
\* is that of the body the row has now, or of one that repairs have made into it.
THEOREM QueuedVectorsStayFresh == Spec => []QueuedVectorsFresh
  <1>1. QueueInv => QueuedVectorsFresh
    BY DEF QueueInv, RowsInv
  <1>2. QED
    BY <1>1, QueueInductive, PTL

\* enqueue_auto_embed, the worker loop and its failures: a row without a
\* vector has a job on its way or a reason the code knows, a repair of its
\* body and the end of the process among them.
THEOREM JobsAccounted == Spec => []JobOrExcuse
  <1>1. QueueInv => JobOrExcuse
    <2> SUFFICES ASSUME QueueInv PROVE JobOrExcuse
      OBVIOUS
    <2>1. Awaited \subseteq OnItsWay
      BY AwaitedOnItsWay DEF QueueInv
    <2>2. QED
      BY <2>1 DEF QueueInv, RowsInv, AwaitedOrExcused, JobOrExcuse
  <1>2. QED
    BY <1>1, QueueInductive, PTL
=============================================================================
