--------------------------- MODULE WriterDirectory --------------------------
(***************************************************************************)
(* The writer directory of one workspace: the epoch-fenced handoff of      *)
(* write authority (Database::writer_handoff) and the check every write    *)
(* makes against it (Database::writer_directory_enforce, called by         *)
(* handle_remember and restore_forward).                                   *)
(*                                                                         *)
(* A handoff action reads the row in one statement and writes all of it in *)
(* another; a write checks the row in one statement and lands in others.   *)
(* There is no transaction around either, so requests on other connections *)
(* of the pool, or in other processes, run in between.                     *)
(*                                                                         *)
(* Abstracted: the workspace (one row), timestamps, error text.  A receipt *)
(* digest is the tuple it hashes.  An omitted epoch is NoEpoch: like a     *)
(* wrong one it is refused.                                                *)
(***************************************************************************)
EXTENDS Integers, Sequences

CONSTANTS
    Conns,          \* connections of the pool and of other processes
    Agents,         \* agent identities
    NoAgent,        \* the empty agent id
    Everyone, Nobody,
    LifecycleCap,   \* 256 in the code
    MaxEpoch,       \* bound: handoffs stop at this epoch
    RestoreSizes    \* numbers of checkpoint candidates

ASSUME DirectoryAssumption ==
    /\ NoAgent \notin Agents /\ Everyone \notin Agents /\ Nobody \notin Agents
    /\ Everyone # Nobody
    /\ LifecycleCap \in Nat \ {0} /\ MaxEpoch \in Nat
    /\ RestoreSizes \subseteq Nat \ {0}

VARIABLES
    dir,    \* the writer_directory row; state "none" when there is none (the empty pointer_state)
    head,   \* who landed the latest write in the workspace, with which epoch
    at,     \* at[c]: the next statement on connection c
    req,    \* req[c]: what the request on c has read or was given
    stale   \* history: the requests whose row was replaced after they read it

vars == <<dir, head, at, req, stale>>

NoEpoch == -1
Callers == Agents \cup {NoAgent}
Epochs == {NoEpoch} \cup (0 .. MaxEpoch)

Actions == {"prepare", "fence", "retarget", "activate"}
Result == [action: Actions, actor: Callers, before: Nat, after: Nat, detail: Callers]
Row == [state: {"none", "prepared", "fenced", "active"}, epoch: Nat,
        writer: Callers, target: Callers, life: Seq(Result)]
NoRow == [state |-> "none", epoch |-> 0, writer |-> NoAgent, target |-> NoAgent, life |-> <<>>]

Request == [row: Row, agent: Callers, epoch: Epochs, left: Nat]
NoRequest == [row |-> NoRow, agent |-> NoAgent, epoch |-> NoEpoch, left |-> 0]

Init ==
    /\ dir = NoRow
    /\ head = [agent |-> NoAgent, epoch |-> NoEpoch]
    /\ at = [c \in Conns |-> "idle"]
    /\ req = [c \in Conns |-> NoRequest]
    /\ stale = {}

Goto(c, s, q) == at' = [at EXCEPT ![c] = s] /\ req' = [req EXCEPT ![c] = q]
Return(c) == Goto(c, "idle", NoRequest)

-----------------------------------------------------------------------------
(* The rows the handoff actions compute from the row they read.            *)

\* append_result: the newest LifecycleCap results are kept.
Logged(life, result) ==
    LET all == Append(life, result)
        excess == Len(all) - LifecycleCap
    IN IF excess > 0 THEN SubSeq(all, excess + 1, Len(all)) ELSE all

Moved(row, action, actor, state, writer, target, advance, detail) ==
    [state |-> state, epoch |-> row.epoch + advance, writer |-> writer, target |-> target,
     life |-> Logged(row.life, [action |-> action, actor |-> actor, before |-> row.epoch,
                                after |-> row.epoch + advance, detail |-> detail])]

Prepared(row, actor, target) ==
    Moved(row, "prepare", actor, "prepared", row.writer, target, 0, target)
Fenced(row, actor) ==
    Moved(row, "fence", actor, "fenced", NoAgent, row.target, 1, NoAgent)
\* Mutant: retarget keeps the epoch.
RetargetedSameEpoch(row, actor, target) ==
    Moved(row, "retarget", actor, "fenced", row.writer, target, 0, target)
Retargeted(row, actor, target) ==
    Moved(row, "retarget", actor, "fenced", row.writer, target, 1, target)
Activated(row, actor) ==
    Moved(row, "activate", actor, "active", actor, row.target, 1, NoAgent)

-----------------------------------------------------------------------------
(* writer_handoff: read and validate, persist, journal.                    *)

\* The row is read, the action is validated against it and the row to write is ready.
Validated(c, row) ==
    /\ at[c] = "idle"
    /\ Goto(c, "persist", [NoRequest EXCEPT !.row = row])
    /\ UNCHANGED <<dir, head>>

Prepare(c, actor, target) ==
    /\ dir.state \in {"none", "prepared"}
    /\ Validated(c, Prepared(dir, actor, target))

\* abort clears the pointer: what is written is the absence of a row.
Abort(c) == dir.state = "prepared" /\ Validated(c, NoRow)

Fence(c, actor) ==
    /\ dir.state = "prepared" /\ dir.epoch < MaxEpoch
    /\ Validated(c, Fenced(dir, actor))

Retarget(c, actor, target) ==
    /\ dir.state = "fenced" /\ dir.epoch < MaxEpoch
    /\ Validated(c, Retargeted(dir, actor, target))

\* The caller is the target and presents the fenced epoch.
Activate(c, actor, presented) ==
    /\ dir.state = "fenced" /\ dir.epoch < MaxEpoch
    /\ actor # NoAgent /\ actor = dir.target
    /\ presented = dir.epoch
    /\ Validated(c, Activated(dir, actor))

\* Mutant: the update on conflict keeps the greater epoch and takes the rest, which
\* only a lost update tells from taking it all.
PersistMaxEpoch(c) ==
    /\ at[c] = "persist"
    /\ dir' = [req[c].row EXCEPT !.epoch = IF dir.epoch > @ /\ req[c].row # NoRow THEN dir.epoch ELSE @]
    /\ Goto(c, "journal", NoRequest)
    /\ UNCHANGED head

\* The whole row is inserted, overwritten or deleted, whatever it has become.
Persist(c) ==
    /\ at[c] = "persist"
    /\ dir' = req[c].row
    /\ Goto(c, "journal", NoRequest)
    /\ UNCHANGED head

\* The event goes to the audit journal, which is a module of its own.
Journal(c) == at[c] = "journal" /\ Return(c) /\ UNCHANGED <<dir, head>>

-----------------------------------------------------------------------------
(* Writes.                                                                 *)

\* Mutant: the epoch is not compared.
PermitsAnyEpoch(row, agent, epoch) ==
    \/ row.state \in {"none", "prepared"}
    \/ row.state = "active" /\ agent \in {row.writer, NoAgent}

\* writer_directory_enforce: an empty agent id is not compared with the writer.
Permits(row, agent, epoch) ==
    \/ row.state \in {"none", "prepared"}
    \/ /\ row.state = "active"
       /\ row.writer # NoAgent
       /\ agent \in {row.writer, NoAgent}
       /\ epoch = row.epoch

\* handle_remember (n = 1) and restore_forward check the directory once.
Enforce(c, agent, epoch, n) ==
    /\ at[c] = "idle"
    /\ Permits(dir, agent, epoch)
    /\ Goto(c, "land", [NoRequest EXCEPT !.agent = agent, !.epoch = epoch, !.left = n])
    /\ UNCHANGED <<dir, head>>

\* One entity is written; restore_forward goes on with the next candidate.
Land(c) ==
    /\ at[c] = "land"
    /\ head' = [agent |-> req[c].agent, epoch |-> req[c].epoch]
    /\ IF req[c].left = 1 THEN Return(c)
                          ELSE Goto(c, "land", [req[c] EXCEPT !.left = @ - 1])
    /\ UNCHANGED dir

-----------------------------------------------------------------------------
\* A statement fails or the process dies: what is committed stays.
Interrupt(c) == at[c] # "idle" /\ Return(c) /\ UNCHANGED <<dir, head>>

Handoff(c) ==
    \/ \E actor \in Callers :
         \/ \E target \in Agents : Prepare(c, actor, target) \/ Retarget(c, actor, target)
         \/ Fence(c, actor)
         \/ \E e \in Epochs : Activate(c, actor, e)
    \/ Abort(c)

Step(c) ==
    \/ Handoff(c) \/ Persist(c) \/ Journal(c)
    \/ \E agent \in Callers, e \in Epochs, n \in RestoreSizes : Enforce(c, agent, e, n)
    \/ Land(c)
    \/ Interrupt(c)

\* The requests that are left with a row that is no longer the stored one.
Overtaken == {c \in Conns : at'[c] \in {"persist", "land"} /\ (c \in stale \/ dir' # dir)}

Next == (\E c \in Conns : Step(c)) /\ stale' = Overtaken

Spec == Init /\ [][Next]_vars

-----------------------------------------------------------------------------
(* Properties.                                                             *)

TypeOK ==
    /\ dir \in Row /\ Len(dir.life) <= LifecycleCap
    /\ head \in [agent: Callers, epoch: Epochs]
    /\ at \in [Conns -> {"idle", "persist", "journal", "land"}]
    /\ req \in [Conns -> Request]
    /\ stale \subseteq Conns

\* The pointer state each action leads to, and the actions that may follow it.
StateAfter(action) == CASE action = "prepare" -> "prepared"
                        [] action = "activate" -> "active"
                        [] OTHER -> "fenced"
Follows(first, second) ==
    CASE first = "prepare" -> second \in {"prepare", "fence"}
      [] first \in {"fence", "retarget"} -> second \in {"retarget", "activate"}
      [] OTHER -> FALSE

\* Row row is the outcome of the actions its own lifecycle records.
Explained(row) ==
    LET n == Len(row.life)
    IN IF row.state = "none"
       THEN row = NoRow
       ELSE /\ n > 0
            /\ row.state = StateAfter(row.life[n].action)
            /\ row.epoch = row.life[n].after
            /\ row.writer = (IF row.state = "active" THEN row.life[n].actor ELSE NoAgent)
            /\ row.state = "active" => row.writer = row.target
            /\ row.life[n].action \in {"prepare", "retarget"}
                 => row.target = row.life[n].detail
            /\ \A k \in 1 .. n - 1 :
                 /\ Follows(row.life[k].action, row.life[k + 1].action)
                 /\ row.life[k + 1].before = row.life[k].after

\* The directory is always the outcome of a legal sequence of handoff actions, the
\* one its lifecycle records: each connection writes state, epoch, writer, target
\* and lifecycle together, so that a lost update loses actions and mixes none.  In
\* particular a writer is named only by an activation of the target it was fenced for.
LifecycleExplainsRow == Explained(dir)

\* Who may write, as far as the row says.
Holder == CASE dir.state \in {"none", "prepared"} -> Everyone
            [] dir.state = "fenced" -> Nobody
            [] dir.state = "active" -> dir.writer

Authority == INSTANCE FencedWriter WITH epoch <- dir.epoch, holder <- Holder

\* A request goes on with a row that was replaced after it read it.
StaleStep == \E c \in stale : <<at[c], req[c]>>' # <<at[c], req[c]>>

\* However requests interleave, the directory is the fenced writer it promises to be
\* (writer_handoff, writer_directory_enforce) but for the steps of a request that was
\* overtaken between its read and its write: any other step moves the authority only
\* through a gap with no writer and advances the epoch, and lands only what the row
\* of the moment permits, whatever the overtaken ones have done before.
ImplementsFencedWriter ==
    Authority!Init /\ [][StaleStep \/ Authority!Next]_(Authority!vars)

-----------------------------------------------------------------------------
(* Claims of the repository that the code does not keep: the run writer_stale   *)
(* refutes the first, README.md gives an instance for each of the others. *)

\* "a stale writer's in-flight write fails [...] instead of landing after write
\* authority moved" (handle_remember).
StaleWritesRefused ==
    [][head' # head => Permits(dir, head'.agent, head'.epoch)]_vars

\* "monotonically advanced epochs" (schema v45).
EpochsAdvance == [][dir'.epoch >= dir.epoch]_vars

\* "retarget (advance the target + epoch; the abandoned target can no longer
\* activate)" (writer_handoff): whoever becomes the writer is the target of the row
\* that the activation replaces.
AbandonedCannotActivate ==
    [][dir'.state = "active" /\ dir' # dir => dir.state = "fenced" /\ dir'.writer = dir.target]_vars
=============================================================================
