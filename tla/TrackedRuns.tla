---------------------------- MODULE TrackedRuns -----------------------------
(***************************************************************************)
(* run_tracked, the wrapper of the single-shot handlers (export, import,   *)
(* consolidate, decay, reindex), composed with the operation tables: it    *)
(* begins a run, starts it, does the work, reports progress and completes  *)
(* or fails the run.  The result of every call after begin is ignored      *)
(* ("best-effort"): a call that is refused, or whose statement fails, is   *)
(* skipped and the job goes on.  A panic of the work unwinds the request   *)
(* and the process lives on.                                               *)
(*                                                                         *)
(* A job of connection c waits while a call is in progress (at[c] is a     *)
(* statement of OpRuns) and makes its next call when at[c] is idle.  The   *)
(* work itself writes other tables: here it succeeds with a number of      *)
(* errors, fails or panics.  Export and import record an item per error.   *)
(***************************************************************************)
EXTENDS OpRuns, Sequences

CONSTANTS
    ErrorRefs,      \* error-0, error-1, ...: the references of the error items
    MaxCrashes      \* bound: the number of process deaths

ASSUME TrackedAssumption == ErrorRefs \in Seq(Items) /\ MaxCrashes \in Nat

VARIABLES
    job,        \* job[c]: the next call of run_tracked on c, its run and its errors
    crashes,    \* process deaths so far
    forsaken    \* history: runs whose end was lost to an error, until the next restart

trackedVars == <<run, item, aged, at, req, job, crashes, forsaken>>

Positions == {"none", "start", "work", "item_add", "item_fail", "progress", "complete", "fail"}
Job == [pos: Positions, run: Runs \cup {NoRun}, errors: 0 .. Len(ErrorRefs), done: 0 .. Len(ErrorRefs)]
NoJob == [pos |-> "none", run |-> NoRun, errors |-> 0, done |-> 0]

TrackedInit == Init /\ job = [c \in Conns |-> NoJob] /\ crashes = 0 /\ forsaken = {}

\* The job on c goes on as j.
Continue(c, j) == job' = [job EXCEPT ![c] = j] /\ UNCHANGED crashes

\* The calls without which the run of the job does not end.
Ending == {"start", "complete", "fail"}

\* A call with guard allowed: accepted, or refused and ignored; or its first
\* statement, which reads the row, fails and that is ignored.
BestEffort(c, allowed, call) ==
    \/ (IF allowed THEN call ELSE UNCHANGED vars) /\ UNCHANGED forsaken
    \/ /\ UNCHANGED vars
       /\ forsaken' = forsaken \cup {r \in {job[c].run} : job[c].pos \in Ending}

\* max_retries is 2 for every tracked run.
TrackedBegin(c) ==
    /\ job[c].pos = "none"
    /\ \E r \in Runs : Begin(c, r, 2) /\ Continue(c, [NoJob EXCEPT !.pos = "start", !.run = r])
    /\ UNCHANGED forsaken

TrackedStart(c) ==
    /\ job[c].pos = "start" /\ at[c] = "idle"
    /\ LET r == job[c].run IN BestEffort(c, run[r].state = "queued", Start(c, r))
    /\ Continue(c, [job[c] EXCEPT !.pos = "work"])

\* f: the operation fails, or succeeds with some errors to record.
Work(c) ==
    /\ job[c].pos = "work" /\ at[c] = "idle"
    /\ \/ Continue(c, [job[c] EXCEPT !.pos = "fail"])
       \/ \E n \in 0 .. Len(ErrorRefs) :
            Continue(c, [job[c] EXCEPT !.pos = IF n = 0 THEN "progress" ELSE "item_add", !.errors = n])
    /\ UNCHANGED vars /\ UNCHANGED forsaken

\* f panics: nothing is reported.
Panic(c) ==
    /\ job[c].pos = "work" /\ at[c] = "idle"
    /\ Continue(c, NoJob)
    /\ forsaken' = forsaken \cup {job[c].run}
    /\ UNCHANGED vars

ErrorAdd(c) ==
    /\ job[c].pos = "item_add" /\ at[c] = "idle"
    /\ LET r == job[c].run
       IN BestEffort(c, run[r].state = "running", ItemAdd(c, r, ErrorRefs[job[c].done + 1]))
    /\ Continue(c, [job[c] EXCEPT !.pos = "item_fail"])

ErrorFail(c) ==
    /\ job[c].pos = "item_fail" /\ at[c] = "idle"
    /\ LET r == job[c].run
           i == ErrorRefs[job[c].done + 1]
           last == job[c].done + 1 = job[c].errors
       IN /\ BestEffort(c, item[r][i].state = "running", ItemFail(c, r, i))
          /\ Continue(c, [job[c] EXCEPT !.pos = IF last THEN "progress" ELSE "item_add",
                                        !.done = @ + 1])

TrackedProgress(c) ==
    /\ job[c].pos = "progress" /\ at[c] = "idle"
    /\ LET r == job[c].run
       IN BestEffort(c, run[r].state = "running", Progress(c, r, <<0, 0, 0>>))
    /\ Continue(c, [job[c] EXCEPT !.pos = "complete"])

TrackedComplete(c) ==
    /\ job[c].pos = "complete" /\ at[c] = "idle"
    /\ LET r == job[c].run IN BestEffort(c, run[r].state = "running", Complete(c, r))
    /\ Continue(c, NoJob)

TrackedFail(c) ==
    /\ job[c].pos = "fail" /\ at[c] = "idle"
    /\ LET r == job[c].run IN BestEffort(c, run[r].state = "running", Fail(c, r))
    /\ Continue(c, NoJob)

\* A later statement of a call fails: what the run was to become is lost with it.
\* When the one that recovers fails, every run in flight is left as it is.
Errs(c) ==
    /\ StatementError(c)
    /\ forsaken' = forsaken \cup {r \in Runs :
           \/ at[c] \in Ending /\ r = req[c].run
           \/ at[c] = "recover_runs" /\ run[r].state \in InFlight}
    /\ UNCHANGED <<job, crashes>>

\* The process dies with its job and its call; the next open recovers.
TrackedCrash(c) ==
    /\ crashes < MaxCrashes /\ crashes' = crashes + 1
    /\ Crash(c)
    /\ job' = [job EXCEPT ![c] = NoJob] /\ forsaken' = {}

Running(c) == (Open(c) \/ Statement(c)) /\ UNCHANGED <<job, crashes, forsaken>>

JobStep(c) ==
    \/ TrackedStart(c) \/ Work(c) \/ ErrorAdd(c) \/ ErrorFail(c)
    \/ TrackedProgress(c) \/ TrackedComplete(c) \/ TrackedFail(c)

TrackedNext == \E c \in Conns :
    Running(c) \/ TrackedBegin(c) \/ JobStep(c) \/ Panic(c) \/ Errs(c) \/ TrackedCrash(c)

\* A request that has been accepted is carried on, and a process that died is started
\* again; no client has to begin a job.
TrackedFairness == \A c \in Conns : WF_trackedVars(Running(c)) /\ WF_trackedVars(JobStep(c))

TrackedSpec == TrackedInit /\ [][TrackedNext]_trackedVars /\ TrackedFairness

-----------------------------------------------------------------------------
\* The tables and the jobs have their types, and the run of a job is a run that was begun.
TrackedTypeOK ==
    /\ TypeOK
    /\ job \in [Conns -> Job] /\ crashes \in 0 .. MaxCrashes /\ forsaken \subseteq Runs
    /\ \A c \in Conns : job[c].pos # "none" => job[c].run \in Runs /\ Exists(job[c].run)

\* "the export run stays observable even if the process dies mid-write (recovered as
\* interrupted on restart)": a tracked run ends, whatever dies in between and whichever
\* calls are refused, unless its start or its end was lost to an error or to a panic, or
\* the recovery itself failed; and the next restart owes it its end again.
TrackedRunsSettle ==
    \A r \in Runs :
      run[r].state \in InFlight ~> run[r].state \in Terminal \/ r \in forsaken

\* "Per-error item receipts identify the failed artifacts." (handle_vault_export): a
\* run that completed has only finished items.
ErrorsIdentified ==
    \A r \in Runs, i \in Items :
      run[r].state = "completed" => item[r][i].state \in {"none", "completed", "failed"}

\* "a launched-but-failed operation is never indistinguishable from a no-op"
\* (run_tracked): without a restart too, no run is left in flight.
NoneForsaken == \A r \in Runs : run[r].state \in InFlight ~> run[r].state \in Terminal
=============================================================================
