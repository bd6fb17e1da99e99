------------------------------ MODULE Erasure -------------------------------
(***************************************************************************)
(* Rejection, erasure, redaction and held writes, over a store that is     *)
(* backed up, rolled back and restored.                                    *)
(*                                                                         *)
(* A value is suppressed by a tombstone in the store or by a mandate in    *)
(* the governance sidecar, a second file that a rollback of the store      *)
(* leaves alone.  Every read drops suppressed values; every remember looks *)
(* first in the sidecar and then in the store, before its transaction.     *)
(*                                                                         *)
(* One category and one workspace; a fact is a key.  A value stands for    *)
(* its digest.  Left out: the FTS index, communities, journal and vectors, *)
(* which hold copies that erase deletes in the same transaction, and the   *)
(* rows derived from an erased one, which it quarantines there.            *)
(***************************************************************************)
EXTENDS Integers, FiniteSets

CONSTANTS
    Callers,
    Facts, Values,
    Rejections,     \* the kinds of rejection: TRUE expires, FALSE is permanent
    Whole,          \* TRUE: erase promises all it deletes, not the value it reports
    MaxCalls,       \* bound: calls
    MaxCopies       \* bound: backups

VARIABLES
    vault,      \* the primary store: rows, history, tombstones, held writes
    sidecar,    \* erasure_mandates; the file exists once it has one
    copies,     \* backups, each with the promises made before it began
    task,       \* task[c]: the call of c, its next step and what it has read
    promised,   \* the values whose erasure or permanent rejection was confirmed
    calls

vars == <<vault, sidecar, copies, task, promised, calls>>

Idle == [step |-> "idle"]
Scrubbed == "scrubbed"      \* the marker that redaction leaves
Absent == [id |-> 0, value |-> Scrubbed]

Init ==
    /\ vault = [row |-> [f \in Facts |-> Absent], history |-> {}, tombs |-> {}, held |-> {}]
    /\ sidecar = {}
    /\ copies = {}
    /\ task = [c \in Callers |-> Idle]
    /\ promised = {}
    /\ calls = 0

Does(c, step) == task[c].step = step
Go(c, t) == task' = [task EXCEPT ![c] = t]
Step(c, step) == Go(c, [task[c] EXCEPT !.step = step])
Stop(c) == Go(c, Idle)

\* A new call.
Call(c, t) == Does(c, "idle") /\ calls < MaxCalls /\ calls' = calls + 1 /\ Go(c, t)

Rejected(v) == \E t \in vault.tombs : t.value = v

-----------------------------------------------------------------------------
\* remember: the gate, the lookup, and the transaction.
RememberCall(c, f, v, override) ==
    /\ Call(c, [step |-> IF override THEN "lookup" ELSE "overlay", fact |-> f, value |-> v,
                id |-> 0, new |-> calls + 1, held |-> FALSE, override |-> override,
                barred |-> promised])
    /\ UNCHANGED <<vault, sidecar, copies, promised>>

IsErased(c) ==
    /\ Does(c, "overlay")
    /\ IF task[c].value \in sidecar THEN Stop(c) ELSE Step(c, "tombstones")
    /\ UNCHANGED <<vault, sidecar, copies, promised, calls>>

IsRejected(c) ==
    /\ Does(c, "tombstones")
    /\ IF Rejected(task[c].value) THEN Stop(c) ELSE Step(c, "lookup")
    /\ UNCHANGED <<vault, sidecar, copies, promised, calls>>

Lookup(c) ==
    /\ Does(c, "lookup")
    /\ Go(c, [task[c] EXCEPT !.step = "write", !.id = vault.row[task[c].fact].id])
    /\ UNCHANGED <<vault, sidecar, copies, promised, calls>>

\* The interference gate keeps a write for review; a release has it off.
Hold(c) ==
    /\ Does(c, "write") /\ ~task[c].held
    /\ vault' = [vault EXCEPT !.held = @ \cup {[fact |-> task[c].fact, value |-> task[c].value]}]
    /\ Stop(c)
    /\ UNCHANGED <<sidecar, copies, promised, calls>>

AfterWrite(c) == IF task[c].held THEN Step(c, "delete") ELSE Stop(c)

Insert(c) ==
    /\ Does(c, "write") /\ task[c].id = 0 /\ vault.row[task[c].fact].id = 0
    /\ vault' = [vault EXCEPT !.row[task[c].fact] = [id |-> task[c].new, value |-> task[c].value]]
    /\ AfterWrite(c)
    /\ UNCHANGED <<sidecar, copies, promised, calls>>

Update(c) ==
    LET old == vault.row[task[c].fact]
    IN  /\ Does(c, "write") /\ task[c].id # 0 /\ old.id = task[c].id
        /\ vault' = [vault EXCEPT !.row[task[c].fact].value = task[c].value,
                                  !.history = IF old.value = task[c].value THEN @ ELSE @ \cup {old}]
        /\ AfterWrite(c)
        /\ UNCHANGED <<sidecar, copies, promised, calls>>

-----------------------------------------------------------------------------
\* reject_value (and the rejection that correct makes): the tombstone replaces
\* one with the same subject and value, then a permanent one gets a mandate.
Entombed(tombs, t) == {u \in tombs : u.subject # t.subject \/ u.value # t.value} \cup {t}

RejectCall(c, f, v, expiring) ==
    /\ Call(c, [step |-> "reject", fact |-> f, value |-> v, expiring |-> expiring])
    /\ UNCHANGED <<vault, sidecar, copies, promised>>

Reject(c) ==
    /\ Does(c, "reject")
    /\ vault' = [vault EXCEPT !.tombs = Entombed(@, [subject |-> task[c].fact,
                    value |-> task[c].value, expiring |-> task[c].expiring])]
    /\ IF task[c].expiring THEN Stop(c) ELSE Step(c, "mandate")
    /\ UNCHANGED <<sidecar, copies, promised, calls>>

RejectMandate(c) ==
    /\ Does(c, "mandate")
    /\ sidecar' = sidecar \cup {task[c].value}
    /\ promised' = promised \cup {task[c].value}
    /\ Stop(c)
    /\ UNCHANGED <<vault, copies, calls>>

\* A tombstone past its expiry is ignored by readers and deleted by the gate.
Lapse(t) ==
    /\ t.expiring
    /\ vault' = [vault EXCEPT !.tombs = @ \ {t}]
    /\ UNCHANGED <<sidecar, copies, task, promised, calls>>

\* erase_entity: digest, mandate, transaction.
EraseCall(c, f) ==
    /\ vault.row[f].id # 0
    /\ Call(c, [step |-> "assert", fact |-> f, id |-> vault.row[f].id, value |-> vault.row[f].value])
    /\ UNCHANGED <<vault, sidecar, copies, promised>>

\* Mutant: erase relies on the tombstone of its transaction.
AssertNothing(c) ==
    /\ Does(c, "assert")
    /\ Step(c, "erase")
    /\ UNCHANGED <<vault, sidecar, copies, promised, calls>>

AssertErasure(c) ==
    /\ Does(c, "assert")
    /\ sidecar' = sidecar \cup {task[c].value}
    /\ Step(c, "erase")
    /\ UNCHANGED <<vault, copies, promised, calls>>

Forgotten(id) == {h \in vault.history : h.id # id}

Erase(c) ==
    LET f == task[c].fact
        deleted == {r.value : r \in {x \in vault.history \cup {vault.row[f]} : x.id = task[c].id}}
    IN  /\ Does(c, "erase")
        /\ vault' = [vault EXCEPT
                !.row[f] = IF @.id = task[c].id THEN Absent ELSE @,
                !.history = Forgotten(task[c].id),
                !.tombs = Entombed(@, [subject |-> f, value |-> task[c].value,
                                       expiring |-> FALSE])]
        /\ promised' = promised \cup
                (({task[c].value} \cup (IF Whole THEN deleted ELSE {})) \cap Values)
        /\ Stop(c)
        /\ UNCHANGED <<sidecar, copies, calls>>

\* redact_entity: the row stays, its content goes; nothing is promised.
RedactCall(c, f) ==
    /\ vault.row[f].id # 0
    /\ Call(c, [step |-> "redact", fact |-> f, id |-> vault.row[f].id])
    /\ UNCHANGED <<vault, sidecar, copies, promised>>

Redact(c) ==
    LET f == task[c].fact
    IN  /\ Does(c, "redact")
        /\ vault' = [vault EXCEPT
                !.row[f].value = IF vault.row[f].id = task[c].id THEN Scrubbed ELSE @,
                !.history = Forgotten(task[c].id)]
        /\ Stop(c)
        /\ UNCHANGED <<sidecar, copies, promised, calls>>

-----------------------------------------------------------------------------
\* release_write_quarantine: refused when the fact is live; the write goes
\* through the gate of remember without the override, then the held row goes.
ReleaseCall(c, h) ==
    /\ h \in vault.held
    /\ Call(c, [step |-> "live", fact |-> h.fact, value |-> h.value, id |-> 0, new |-> calls + 1,
                held |-> TRUE, override |-> FALSE, barred |-> promised])
    /\ UNCHANGED <<vault, sidecar, copies, promised>>

IsLive(c) ==
    /\ Does(c, "live")
    /\ IF vault.row[task[c].fact].id # 0 THEN Stop(c) ELSE Step(c, "overlay")
    /\ UNCHANGED <<vault, sidecar, copies, promised, calls>>

DeleteHeld(c) ==
    /\ Does(c, "delete")
    /\ vault' = [vault EXCEPT !.held = @ \ {[fact |-> task[c].fact, value |-> task[c].value]}]
    /\ Stop(c)
    /\ UNCHANGED <<sidecar, copies, promised, calls>>

Discard(h) ==
    /\ h \in vault.held
    /\ vault' = [vault EXCEPT !.held = @ \ {h}]
    /\ UNCHANGED <<sidecar, copies, task, promised, calls>>

-----------------------------------------------------------------------------
\* backup_to: is there a sidecar?  Copy the store; then the sidecar, if there was.
BackupCall(c) ==
    /\ Cardinality(copies) < MaxCopies
    /\ Call(c, [step |-> "copy", overlay |-> sidecar # {}, vault |-> vault, covers |-> promised])
    /\ UNCHANGED <<vault, sidecar, copies, promised>>

CopyStore(c) ==
    /\ Does(c, "copy")
    /\ Go(c, [task[c] EXCEPT !.step = "snapshot", !.vault = vault])
    /\ UNCHANGED <<vault, sidecar, copies, promised, calls>>

CopySidecar(c) ==
    /\ Does(c, "snapshot")
    /\ copies' = copies \cup {[vault |-> task[c].vault, covers |-> task[c].covers,
                               sidecar |-> IF task[c].overlay THEN sidecar ELSE {}]}
    /\ Stop(c)
    /\ UNCHANGED <<vault, sidecar, promised, calls>>

Quiet == \A c \in Callers : Does(c, "idle")

\* The operator puts the store of a backup back under a sidecar that stays.
RollBack(b) ==
    /\ Quiet /\ b \in copies
    /\ vault' = b.vault
    /\ UNCHANGED <<sidecar, copies, task, promised, calls>>

\* restore_backup: a new store from both files, and the work goes on there.
Restore(b) ==
    /\ Quiet /\ b \in copies
    /\ vault' = b.vault /\ sidecar' = b.sidecar /\ promised' = b.covers
    /\ UNCHANGED <<copies, task, calls>>

\* A call ends early: the process stops, a statement or a check fails, a
\* unique index refuses, a near duplicate absorbs the write.  A backup that
\* ends early is not used: on an error its files are removed.
Abort(c) ==
    /\ ~Does(c, "idle")
    /\ Stop(c)
    /\ UNCHANGED <<vault, sidecar, copies, promised, calls>>

Next ==
    \/ \E c \in Callers, f \in Facts :
        \/ \E v \in Values, override \in BOOLEAN : RememberCall(c, f, v, override)
        \/ \E v \in Values, expiring \in Rejections : RejectCall(c, f, v, expiring)
        \/ EraseCall(c, f) \/ RedactCall(c, f)
    \/ \E c \in Callers :
        \/ IsErased(c) \/ IsRejected(c) \/ Lookup(c) \/ Hold(c) \/ Insert(c) \/ Update(c)
        \/ Reject(c) \/ RejectMandate(c) \/ AssertErasure(c) \/ Erase(c) \/ Redact(c)
        \/ \E h \in vault.held : ReleaseCall(c, h)
        \/ IsLive(c) \/ DeleteHeld(c)
        \/ BackupCall(c) \/ CopyStore(c) \/ CopySidecar(c) \/ Abort(c)
    \/ \E t \in vault.tombs : Lapse(t)
    \/ \E h \in vault.held : Discard(h)
    \/ \E b \in copies : RollBack(b) \/ Restore(b)

Spec == Init /\ [][Next]_vars

-----------------------------------------------------------------------------
\* filter_suppressed: the values that reads of rows and of history return.
Served == {v \in Values : /\ v \notin sidecar /\ ~Rejected(v)
                          /\ \/ \E f \in Facts : vault.row[f].id # 0 /\ vault.row[f].value = v
                             \/ \E h \in vault.history : h.value = v}

\* erase_entity, reject_value: a value whose erasure or permanent rejection was
\* confirmed is not served again, whatever raced it, and no call that began
\* afterwards gets it past the gate without the override: not by another key,
\* the release of a write held before, a lapse of a later rejection, a rollback
\* of the store, or a restore of a backup that was begun afterwards.
ErasureHolds ==
    /\ promised \cap Served = {}
    /\ \A c \in Callers : Does(c, "write") /\ ~task[c].override =>
        task[c].value \notin task[c].barred

\* What the documents also say, and the code does not keep (README.md, section 3).
ReingestFailsClosed ==
    \A c \in Callers : Does(c, "write") /\ ~task[c].override => task[c].value \notin promised
ErasedNotRetained == \A h \in vault.held : h.value \notin promised
LiveIdentityRefused == \A c \in Callers : Does(c, "write") /\ task[c].held => task[c].id = 0
=============================================================================
