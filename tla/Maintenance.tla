---------------------------- MODULE Maintenance -----------------------------
(***************************************************************************)
(* The isolation of maintenance from serving: the gate before a run        *)
(* (check_start), the execution slot of the store (acquire_maintenance and *)
(* the drop of MaintenanceLock), the probes inside a run that pause it     *)
(* (probe_over_budget) and the block that a report is stamped with         *)
(* (guard_block), for every operation that uses them.                      *)
(*                                                                         *)
(* A thread is one of the pool that serves HTTP requests, the stdio loop,  *)
(* or the loop that runs a pass every few hours.  The slot is a mutex and  *)
(* a name in a second map, both in the memory of one process; the pause is *)
(* noted in a thread-local.  A panic unwinds: it drops the slot and        *)
(* poisons its mutex, and the pool keeps the thread.                       *)
(*                                                                         *)
(* One store.  What a run does to the entities, the run it records in      *)
(* op_runs (TrackedRuns) and the counters of the status are left out.      *)
(***************************************************************************)
EXTENDS Integers

CONSTANTS
    Threads, NoThread,
    Processes,
    Home,           \* Home[t]: the process of t
    Attempts,       \* how often try_lock is tried (4)
    MaxCalls,       \* bound: calls
    MaxStops        \* bound: panics and restarts

VARIABLES
    shut,       \* the window is closed, or its configuration malformed
    slow,       \* a probe measures more than the budget
    slot,       \* store_locks: the thread that has the mutex of a process
    poisoned,   \* whether that mutex is poisoned
    holder,     \* lock_holders: the operation named as its holder
    flag,       \* SLO_PAUSED of each thread
    duty,       \* duty[t]: the call on t, its next step, and what it went through
    calls, stops

vars == <<shut, slow, slot, poisoned, holder, flag, duty, calls, stops>>

\* "tool" is consolidate, cohere or dream.
Operations == {"tool", "sleep", "autocohere", "pass"}
Idle == [step |-> "idle"]

Init ==
    /\ shut \in BOOLEAN /\ slow \in BOOLEAN
    /\ slot = [p \in Processes |-> NoThread]
    /\ poisoned = [p \in Processes |-> FALSE]
    /\ holder = [p \in Processes |-> "none"]
    /\ flag = [t \in Threads |-> FALSE]
    /\ duty = [t \in Threads |-> Idle]
    /\ calls = 0 /\ stops = 0

Does(t, step) == duty[t].step = step
Go(t, d) == duty' = [duty EXCEPT ![t] = d]
Step(t, step) == Go(t, [duty[t] EXCEPT !.step = step])
Ends(t) == Go(t, Idle)

\* Serving latency changes, the window opens and closes.
Environment ==
    /\ \/ shut' = ~shut /\ UNCHANGED slow
       \/ slow' = ~slow /\ UNCHANGED shut
    /\ UNCHANGED <<slot, poisoned, holder, flag, duty, calls, stops>>

-----------------------------------------------------------------------------
\* A pass cannot force.  nested: the pass is in its autocohere phase.
Call(t, op, force) ==
    /\ Does(t, "idle") /\ calls < MaxCalls /\ (op = "pass" => ~force)
    /\ Go(t, [step |-> IF force THEN "lock" ELSE "window", op |-> op, nested |-> FALSE,
              tries |-> 1, paused |-> FALSE, said |-> "nothing", panics |-> FALSE])
    /\ calls' = calls + 1
    /\ UNCHANGED <<shut, slow, slot, poisoned, holder, flag, stops>>

CheckWindow(t) ==
    /\ Does(t, "window")
    /\ IF shut THEN Ends(t) ELSE Step(t, "probe")
    /\ UNCHANGED <<shut, slow, slot, poisoned, holder, flag, calls, stops>>

\* The pass checks, and then autocohere checks again.
CheckBudget(t) ==
    /\ Does(t, "probe")
    /\ IF slow THEN Ends(t)
       ELSE IF duty[t].op = "pass" /\ ~duty[t].nested
       THEN Go(t, [duty[t] EXCEPT !.step = "window", !.nested = TRUE])
       ELSE Step(t, "lock")
    /\ UNCHANGED <<shut, slow, slot, poisoned, holder, flag, calls, stops>>

\* try_lock also refuses a poisoned mutex.
Free(p) == slot[p] = NoThread /\ ~poisoned[p]

TryLock(t) ==
    LET p == Home[t]
    IN  /\ Does(t, "lock")
        /\ \/ /\ Free(p)
              /\ slot' = [slot EXCEPT ![p] = t] /\ Step(t, "name")
           \/ /\ ~Free(p) /\ UNCHANGED slot
              /\ IF duty[t].tries < Attempts
                 THEN Go(t, [duty[t] EXCEPT !.tries = @ + 1]) ELSE Ends(t)
        /\ UNCHANGED <<shut, slow, poisoned, holder, flag, calls, stops>>

\* The name the slot is taken under.
Names(t) == IF duty[t].op = "pass" THEN "autocohere" ELSE duty[t].op

NameHolder(t) ==
    /\ Does(t, "name")
    /\ holder' = [holder EXCEPT ![Home[t]] = Names(t)]
    /\ Step(t, "work")
    /\ UNCHANGED <<shut, slow, slot, poisoned, flag, calls, stops>>

-----------------------------------------------------------------------------
\* Mutant: the pause is noted in a static of the process.
OwnOfProcess(t) == {u \in Threads : Home[u] = Home[t]}

\* thread_local SLO_PAUSED: the threads whose flag t reads and writes.
Own(t) == {t}
Flag(t, b) == flag' = [u \in Threads |-> IF u \in Own(t) THEN b ELSE flag[u]]

\* A probe between two phases trips; those of sleep are in its compression.
Pause(t) ==
    /\ slow
    /\ \/ Does(t, "work") /\ duty[t].op # "sleep"
       \/ Does(t, "second") /\ duty[t].op = "sleep"
    /\ Flag(t, TRUE)
    /\ Go(t, [duty[t] EXCEPT !.paused = TRUE])
    /\ UNCHANGED <<shut, slow, slot, poisoned, holder, calls, stops>>

\* A tool stamps its report while it has the slot.
Finish(t) ==
    /\ Does(t, "work")
    /\ Step(t, IF duty[t].op = "tool" THEN "stamp" ELSE "drop")
    /\ UNCHANGED <<shut, slow, slot, poisoned, holder, flag, calls, stops>>

\* The operation fails: the error is returned without a stamp.
Fail(t) ==
    /\ Does(t, "work")
    /\ Go(t, [duty[t] EXCEPT !.step = "drop", !.said = "error"])
    /\ UNCHANGED <<shut, slow, slot, poisoned, holder, flag, calls, stops>>

Panic(t) ==
    /\ Does(t, "work") /\ stops < MaxStops /\ stops' = stops + 1
    /\ Go(t, [duty[t] EXCEPT !.step = "drop", !.said = "error", !.panics = TRUE])
    /\ UNCHANGED <<shut, slow, slot, poisoned, holder, flag, calls>>

\* guard_block: the flag is taken and cleared.
Stamp(t) ==
    /\ Does(t, "stamp")
    /\ Go(t, [duty[t] EXCEPT !.step = IF duty[t].op = "tool" THEN "drop" ELSE "return",
                             !.said = IF flag[t] THEN "paused" ELSE "complete"])
    /\ Flag(t, FALSE)
    /\ UNCHANGED <<shut, slow, slot, poisoned, holder, calls, stops>>

\* After the slot: sleep and a pass go on without it, autocohere returns a
\* report without a stamp.
AfterSlot(t) ==
    IF duty[t].op \in {"sleep", "pass"} /\ duty[t].said # "error" THEN "second" ELSE "return"

RemoveHolder(p) == holder' = [holder EXCEPT ![p] = "none"]
ReleaseSlot(t, p) ==
    /\ slot' = [slot EXCEPT ![p] = NoThread]
    /\ poisoned' = [poisoned EXCEPT ![p] = @ \/ duty[t].panics]

\* Mutant: the mutex is released before the name is removed.
DropReversed(t) ==
    LET p == Home[t]
    IN  /\ \/ Does(t, "drop") /\ ReleaseSlot(t, p) /\ Step(t, "dropped") /\ UNCHANGED holder
           \/ Does(t, "dropped") /\ RemoveHolder(p) /\ Step(t, AfterSlot(t))
              /\ UNCHANGED <<slot, poisoned>>
        /\ UNCHANGED <<shut, slow, flag, calls, stops>>

\* The body of drop, and then the fields of MaintenanceLock.
DropLock(t) ==
    LET p == Home[t]
    IN  /\ \/ Does(t, "drop") /\ RemoveHolder(p) /\ Step(t, "dropped") /\ UNCHANGED <<slot, poisoned>>
           \/ Does(t, "dropped") /\ ReleaseSlot(t, p) /\ Step(t, AfterSlot(t)) /\ UNCHANGED holder
        /\ UNCHANGED <<shut, slow, flag, calls, stops>>

\* The compression of sleep, whose errors go into the report, and the second
\* phase of a pass, handle_maintenance.
SecondPhase(t) ==
    /\ Does(t, "second")
    /\ \/ Step(t, "stamp")
       \/ duty[t].op = "pass" /\ Go(t, [duty[t] EXCEPT !.step = "return", !.said = "error"])
    /\ UNCHANGED <<shut, slow, slot, poisoned, holder, flag, calls, stops>>

Return(t) ==
    /\ Does(t, "return")
    /\ Ends(t)
    /\ UNCHANGED <<shut, slow, slot, poisoned, holder, flag, calls, stops>>

\* A process ends and is started again.
Restart(p) ==
    /\ stops < MaxStops /\ stops' = stops + 1
    /\ slot' = [slot EXCEPT ![p] = NoThread]
    /\ poisoned' = [poisoned EXCEPT ![p] = FALSE]
    /\ RemoveHolder(p)
    /\ flag' = [t \in Threads |-> flag[t] /\ Home[t] # p]
    /\ duty' = [t \in Threads |-> IF Home[t] = p THEN Idle ELSE duty[t]]
    /\ UNCHANGED <<shut, slow, calls>>

Next ==
    \/ Environment
    \/ \E t \in Threads :
        \/ \E op \in Operations, force \in BOOLEAN : Call(t, op, force)
        \/ CheckWindow(t) \/ CheckBudget(t) \/ TryLock(t) \/ NameHolder(t)
        \/ Pause(t) \/ Finish(t) \/ Fail(t) \/ Panic(t) \/ Stamp(t)
        \/ DropLock(t) \/ SecondPhase(t) \/ Return(t)
    \/ \E p \in Processes : Restart(p)

Spec == Init /\ [][Next]_vars

-----------------------------------------------------------------------------
\* acquire_maintenance and the drop of MaintenanceLock: the operation that the
\* status and a refusal name has the slot, whatever hand-over of the slot from
\* one thread to the next, failure or panic came between.
HolderHonest ==
    \A p \in Processes : holder[p] # "none" =>
        slot[p] # NoThread /\ holder[p] = Names(slot[p])

\* probe_over_budget and guard_block: a stamped report of a run that a probe
\* has paused says so, also when other runs of the process pause, stamp or
\* fail between its pause and its stamp.
PausesReported ==
    \A t \in Threads : Does(t, "return") /\ duty[t].paused => duty[t].said # "complete"

\* What the documents also say, and the code does not keep (README.md, section 3).
OnlyOwnPauses == \A t \in Threads : Does(t, "return") /\ duty[t].said = "paused" => duty[t].paused
EveryReportStamped == \A t \in Threads : Does(t, "return") => duty[t].said # "nothing"
SlotNotReserved == \A p \in Processes :
    (\A t \in Threads : Home[t] = p => Does(t, "idle")) => Free(p)
OneRunPerStore == \A t, u \in Threads :
    duty[t].step \in {"work", "second"} /\ duty[u].step \in {"work", "second"} => t = u
=============================================================================
