--------------------------- MODULE RollbackRepair ---------------------------
(***************************************************************************)
(* Rollback repair (rollback_repair) and its reversal                      *)
(* (reverse_rollback_repair): the rows that rest only on faulty memories,  *)
(* and the faulty ones, are quarantined; the other dependents lose their   *)
(* links to the faulty ones; a plan with the prior statuses and the        *)
(* severed links is stored last, and a reversal plays it back.             *)
(*                                                                         *)
(* Every statement is a step: neither operation runs in a transaction, and *)
(* links, unlinks and status changes of other clients commit in between.   *)
(* The call may end between any two statements (a receipt cannot be        *)
(* journalled, the process stops).  The rows are not archived.  The links  *)
(* of a row are the number of links to each target.  Left out: bodies,     *)
(* archive_reason (which a reversal empties whatever it was), the counts   *)
(* of journal references and the replay proposals, which change nothing.   *)
(***************************************************************************)
EXTENDS Integers, Sequences

CONSTANTS
    Repairers,      \* connections that repair and reverse
    Rows, NoRow,    \* entity ids
    Graphs,         \* the links and superseded_by columns to start from
    InOrder,        \* TRUE: the last repair is reversed first
    MaxRepairs,     \* bound: repairs
    MaxUpsets       \* bound: changes by others and calls that end early

VARIABLES
    rows,       \* entities: status, links, superseded_by
    plans,      \* the stored plans
    job,        \* job[c]: the call on connection c
    past,       \* the repairs begun and not reversed: faulty rows, the rows before,
                \* how far it is, the rows changed by anything else since
    begun, upsets

vars == <<rows, plans, job, past, begun, upsets>>

Idle == [step |-> "idle"]
Cites(e) == {t \in Rows : rows[e].links[t] > 0}

Init ==
    /\ \E g \in Graphs :
        rows = [e \in Rows |-> [status |-> "active", links |-> g.links[e], by |-> g.by[e]]]
    /\ plans = {}
    /\ job = [c \in Repairers |-> Idle]
    /\ past = <<>> /\ begun = 0 /\ upsets = 0

Does(c, step) == job[c].step = step
Go(c, j) == job' = [job EXCEPT ![c] = j]

\* The repair with this id, and the repairs with it or others changed or removed.
Index(id) == CHOOSE i \in DOMAIN past : past[i].id = id
Known(id) == \E i \in DOMAIN past : past[i].id = id
Become(id, state) ==
    past' = IF Known(id) THEN [past EXCEPT ![Index(id)].state = state] ELSE past
Without(id) ==
    IF Known(id) THEN [i \in 1 .. Len(past) - 1 |-> past[IF i < Index(id) THEN i ELSE i + 1]]
    ELSE past
Touch(ps, changed) == [i \in DOMAIN ps |-> [ps[i] EXCEPT !.touched = @ \cup changed]]

Upset == upsets < MaxUpsets /\ upsets' = upsets + 1

-----------------------------------------------------------------------------
\* The other writers.
Edit(e, row) ==
    /\ Upset
    /\ rows' = [rows EXCEPT ![e] = row]
    /\ past' = Touch(past, {e})
    /\ UNCHANGED <<plans, job, begun>>

LinkRow(e, t) == e # t /\ rows[e].links[t] = 0 /\ Edit(e, [rows[e] EXCEPT !.links[t] = 1])
UnlinkRow(e, t) == rows[e].links[t] > 0 /\ Edit(e, [rows[e] EXCEPT !.links[t] = 0])
\* A row that is not serveable cannot be made active by a status change.
Deprecate(e) == rows[e].status # "deprecated" /\ Edit(e, [rows[e] EXCEPT !.status = "deprecated"])

-----------------------------------------------------------------------------
\* rollback_repair: the dependents, one faulty id at a time, in any order.
Begin(c, faulty) ==
    /\ Does(c, "idle") /\ begun < MaxRepairs
    /\ begun' = begun + 1
    /\ Go(c, [step |-> "links", id |-> begun + 1, faulty |-> faulty, scan |-> faulty,
              now |-> NoRow, found |-> {}])
    /\ past' = Append(past, [id |-> begun + 1, faulty |-> faulty, before |-> rows,
                             state |-> "running", touched |-> {}])
    /\ UNCHANGED <<rows, plans, upsets>>

Seen(j) == {d.row : d \in j.found} \cup j.faulty

ScanLinks(c, f) ==
    /\ Does(c, "links") /\ f \in job[c].scan
    /\ LET new == {e \in Rows \ Seen(job[c]) : f \in Cites(e)}
       IN  Go(c, [job[c] EXCEPT !.step = "superseded", !.now = f,
                    !.found = @ \cup {[row |-> e, sources |-> Cites(e)] : e \in new}])
    /\ UNCHANGED <<rows, plans, past, begun, upsets>>

\* A row that a faulty one replaced supports itself.
ScanSuperseded(c) ==
    /\ Does(c, "superseded")
    /\ LET j == job[c]
           new == {e \in Rows \ Seen(j) : rows[e].by = j.now}
           found == j.found \cup {[row |-> e, sources |-> {e}] : e \in new}
           kept == {d.row : d \in {x \in found : ~(x.sources \subseteq j.faulty)}}
           left == j.scan \ {j.now}
       IN  IF left # {}
           THEN Go(c, [j EXCEPT !.step = "links", !.scan = left, !.found = found])
           ELSE Go(c, [step |-> "execute", id |-> j.id, faulty |-> j.faulty,
                       tomb |-> j.faulty \cup ({d.row : d \in found} \ kept), keep |-> kept,
                       downed |-> {}, severed |-> {}, read |-> <<>>])
    /\ UNCHANGED <<rows, plans, past, begun, upsets>>

ReadStatus(c, e) ==
    /\ Does(c, "execute") /\ e \in job[c].tomb
    /\ Go(c, [job[c] EXCEPT !.step = "quarantine", !.read = [row |-> e, prior |-> rows[e].status]])
    /\ UNCHANGED <<rows, plans, past, begun, upsets>>

Quarantine(c) ==
    /\ Does(c, "quarantine")
    /\ LET r == job[c].read
       IN  /\ rows' = [rows EXCEPT ![r.row].status = "quarantined"]
           /\ Go(c, [job[c] EXCEPT !.step = "execute", !.tomb = @ \ {r.row},
                                   !.downed = @ \cup {r}, !.read = <<>>])
    /\ UNCHANGED <<plans, past, begun, upsets>>

\* Mutant: the removed links are recorded, and the list is written back whole.
KeptAll(links, faulty) == links

\* sever_faulty_edges
Kept(links, faulty) == [t \in Rows |-> IF t \in faulty THEN 0 ELSE links[t]]
Removed(links, faulty) == [t \in Rows |-> IF t \in faulty THEN links[t] ELSE 0]

ReadLinks(c, e) ==
    /\ Does(c, "execute") /\ job[c].tomb = {} /\ e \in job[c].keep
    /\ Go(c, [job[c] EXCEPT !.step = "sever", !.read = [row |-> e, links |-> rows[e].links]])
    /\ UNCHANGED <<rows, plans, past, begun, upsets>>

\* Nothing is written for a row without a link to sever.
Sever(c) ==
    /\ Does(c, "sever")
    /\ LET r == job[c].read
           gone == Removed(r.links, job[c].faulty)
       IN  /\ rows' = IF \A t \in Rows : gone[t] = 0 THEN rows
                      ELSE [rows EXCEPT ![r.row].links = Kept(r.links, job[c].faulty)]
           /\ Go(c, [job[c] EXCEPT !.step = "execute", !.keep = @ \ {r.row}, !.read = <<>>,
                                   !.severed = @ \cup {[row |-> r.row, links |-> gone]}])
    /\ UNCHANGED <<plans, past, begun, upsets>>

StorePlan(c) ==
    /\ Does(c, "execute") /\ job[c].tomb = {} /\ job[c].keep = {}
    /\ plans' = plans \cup {[id |-> job[c].id, downed |-> job[c].downed,
                             severed |-> job[c].severed]}
    /\ Become(job[c].id, "done")
    /\ Go(c, Idle)
    /\ UNCHANGED <<rows, begun, upsets>>

-----------------------------------------------------------------------------
\* reverse_rollback_repair
Reverse(c, p) ==
    /\ Does(c, "idle") /\ p \in plans
    /\ InOrder => Known(p.id) /\ Index(p.id) = Len(past)
    /\ Go(c, [step |-> "restore", id |-> p.id, up |-> p.downed, relink |-> p.severed,
              read |-> <<>>])
    /\ Become(p.id, "reversing")
    /\ UNCHANGED <<rows, plans, begun, upsets>>

\* Mutant: a reversal activates what was quarantined.
Activate(c, r) ==
    /\ Does(c, "restore") /\ r \in job[c].up
    /\ rows' = [rows EXCEPT ![r.row].status = "active"]
    /\ Go(c, [job[c] EXCEPT !.up = @ \ {r}])
    /\ UNCHANGED <<plans, past, begun, upsets>>

Restore(c, r) ==
    /\ Does(c, "restore") /\ r \in job[c].up
    /\ rows' = [rows EXCEPT ![r.row].status = r.prior]
    /\ Go(c, [job[c] EXCEPT !.up = @ \ {r}])
    /\ UNCHANGED <<plans, past, begun, upsets>>

ReadBack(c, r) ==
    /\ Does(c, "restore") /\ job[c].up = {} /\ r \in job[c].relink
    /\ Go(c, [job[c] EXCEPT !.step = "relink", !.relink = @ \ {r},
                !.read = [row |-> r.row,
                          links |-> [t \in Rows |-> rows[r.row].links[t] + r.links[t]]]])
    /\ UNCHANGED <<rows, plans, past, begun, upsets>>

Relink(c) ==
    /\ Does(c, "relink")
    /\ rows' = [rows EXCEPT ![job[c].read.row].links = job[c].read.links]
    /\ Go(c, [job[c] EXCEPT !.step = "restore", !.read = <<>>])
    /\ UNCHANGED <<plans, past, begun, upsets>>

DeletePlan(c) ==
    /\ Does(c, "restore") /\ job[c].up = {} /\ job[c].relink = {}
    /\ plans' = {p \in plans : p.id # job[c].id}
    /\ past' = Without(job[c].id)
    /\ Go(c, Idle)
    /\ UNCHANGED <<rows, begun, upsets>>

-----------------------------------------------------------------------------
\* The call ends early.  What a repair did by then is not undone and is not in
\* a plan; a reversal can be called again, and then links a second time.
AbortRepair(c) ==
    /\ job[c].step \in {"links", "superseded", "execute", "quarantine", "sever"}
    /\ Go(c, Idle) /\ Upset
    /\ LET mine == past[Index(job[c].id)]
           changed == mine.touched \cup {e \in Rows : rows[e] # mine.before[e]}
       IN  past' = Touch(Without(job[c].id), changed)
    /\ UNCHANGED <<rows, plans, begun>>

AbortReversal(c) ==
    /\ job[c].step \in {"restore", "relink"}
    /\ Go(c, Idle) /\ Upset
    /\ LET plan == CHOOSE p \in plans : p.id = job[c].id
       IN  past' = Touch(past, {r.row : r \in plan.severed})
    /\ UNCHANGED <<rows, plans, begun>>

Next ==
    \/ \E e, t \in Rows : LinkRow(e, t) \/ UnlinkRow(e, t)
    \/ \E e \in Rows : Deprecate(e)
    \/ \E c \in Repairers :
        \/ \E faulty \in (SUBSET Rows) \ {{}} : Begin(c, faulty)
        \/ \E e \in Rows : ScanLinks(c, e) \/ ReadStatus(c, e) \/ ReadLinks(c, e)
        \/ ScanSuperseded(c) \/ Quarantine(c) \/ Sever(c) \/ StorePlan(c)
        \/ \E p \in plans : Reverse(c, p)
        \/ Does(c, "restore") /\ \E r \in job[c].up : Restore(c, r)
        \/ Does(c, "restore") /\ \E r \in job[c].relink : ReadBack(c, r)
        \/ Relink(c) \/ DeletePlan(c) \/ AbortRepair(c) \/ AbortReversal(c)

Spec == Init /\ [][Next]_vars

-----------------------------------------------------------------------------
\* reverse_rollback_repair: when a reversal is about to delete its plan, every
\* row has the status and the links it had before the repair, unless somebody
\* else changed it meanwhile, through edits in between, repairs made and
\* reversed on top of it, repairs on top that stopped halfway, and retries.
ReversalRestores ==
    \A c \in Repairers :
        Does(c, "restore") /\ job[c].up = {} /\ job[c].relink = {} =>
            LET p == past[Index(job[c].id)]
            IN  \A e \in Rows \ p.touched : rows[e] = p.before[e]

\* rollback_repair: once a repair is done and until it is reversed, no faulty
\* row is served, and no row is served that cites one, unless somebody else
\* has changed the row since the repair began.
FaultContained ==
    \A i \in DOMAIN past : past[i].state = "done" =>
        \A e \in Rows \ past[i].touched : rows[e].status = "active" =>
            e \notin past[i].faulty /\ Cites(e) \cap past[i].faulty = {}

\* What the documents also say, and the code does not keep (README.md, section 3).
Supports(p, e) == {t \in Rows : p.before[e].links[t] > 0}
UnsupportedQuarantined ==
    \A i \in DOMAIN past : past[i].state = "done" =>
        \A e \in Rows \ past[i].touched :
            Supports(past[i], e) # {} /\ Supports(past[i], e) \subseteq past[i].faulty =>
                rows[e].status # "active"
AlwaysReversible ==
    (\A c \in Repairers : Does(c, "idle")) =>
        \A e \in Rows : rows[e].status = "quarantined" =>
            \E p \in plans : \E r \in p.downed : r.row = e
=============================================================================
