--------------------------- MODULE EntityVersions ---------------------------
(***************************************************************************)
(* The bi-temporal entity store for one (category, key): the row of each   *)
(* workspace in `entities`, its retired versions in `entity_history`, the  *)
(* operations that write them and the queries that reconstruct the past.   *)
(*                                                                         *)
(* Transaction time: a version is current during [rec, inv); a live row    *)
(* has no inv.  Application time: a version says what was true during      *)
(* [from, to); to = None means it still is.                                *)
(*                                                                         *)
(* Every operation that writes history is one IMMEDIATE transaction        *)
(* (audited_write_tx) and so one step; what a call reads before its        *)
(* transaction is a step of its own.  A client is a thread with a pooled   *)
(* connection or a process.                                                *)
(*                                                                         *)
(* Extraction loss is audited beside the rows: residual spans of a row are *)
(* kept, a refusal marks the row as lossy, and the next remember of the    *)
(* key appends the spans to the body it stores.  A body is the text it was *)
(* given as and the spans appended to it, and a text is one sentence.      *)
(*                                                                         *)
(* Left out: the columns no query here returns, the link a supersede adds  *)
(* to the other entity, the governance overlay that can hide a version,    *)
(* the scores that choose spans and marks, and rows from binaries that     *)
(* left rec or from empty.                                                 *)
(***************************************************************************)
EXTENDS Integers, FiniteSets

CONSTANTS
    Clients,
    Workspaces,     \* workspace hashes, in their order
    Texts,
    Digest,         \* the body of a tombstone
    Ops,            \* the operations the clients call
    Writes,         \* the arguments of remember
    Closings,       \* the arguments of supersede: a valid_to, or None
    Policies,       \* the arguments of history retention
    ClockSteps,     \* how far the wall clock moves at once
    MaxTime,        \* bound: the clock and the stamps
    MaxIds          \* bound: rows ever inserted

None == -1

Bodies == [text: Texts, folded: SUBSET Texts]
Operations == {"remember", "supersede", "invalidate", "forget", "purge", "retain",
               "audit", "refuse", "confirm"}
Given == {"active", "proposed"}     \* trusted or admitted, and unverified writes
Write == [ws: Workspaces, body: Bodies, status: Given, from: Nat \cup {None}, to: Nat \cup {None}]
Policy == [keep: Nat, cap: Nat, tombs: BOOLEAN]

ASSUME VersionsAssumption ==
    /\ Workspaces \subseteq Nat /\ IsFiniteSet(Workspaces) /\ Digest \notin Bodies
    /\ Ops \subseteq Operations /\ Writes \subseteq Write
    /\ Closings \subseteq Nat \cup {None} /\ Policies \subseteq Policy
    /\ ClockSteps \subseteq Int
    /\ MaxTime \in Nat /\ MaxIds \in Nat

VARIABLES
    clock,
    live,       \* entities
    hist,       \* entity_history
    nextId,     \* a fresh entity id
    spans,      \* residual_spans: served, or else active or confirmed
    lossy,      \* lossy_units: the ids that are marked
    pc,         \* pc[c]: the next step of the call of client c
    job         \* job[c]: what the call was given and has read

vars == <<clock, live, hist, nextId, spans, lossy, pc, job>>

Status == {"active", "proposed", "deprecated", "compacted"}
Version == [ws: Workspaces, id: Nat, body: Bodies \cup {Digest}, status: Status,
            archived: BOOLEAN, from: Nat, to: Nat \cup {None}, rec: Nat]
Retired == [v: Version, inv: Nat]
Span == [id: Nat, text: Texts, served: BOOLEAN]
Steps == {"idle", "called", "mend", "lookup", "insert", "update", "close", "deprecate",
          "retire", "purge", "unmark"}
Doomed == [ws: Workspaces, id: Nat]
NoWrite == [ws |-> None, body |-> Digest, status |-> "active", from |-> None, to |-> None]
Job == [write: Writes \cup {NoWrite}, body: Bodies \cup {Digest}, stamp: Nat, id: Nat,
        from: Nat, to: Nat \cup {None}, doomed: SUBSET Doomed]
NoJob == [write |-> NoWrite, body |-> Digest, stamp |-> 0, id |-> 0, from |-> 0, to |-> None,
          doomed |-> {}]

Init ==
    /\ clock = 1
    /\ live = {} /\ hist = {}
    /\ nextId = 1 /\ spans = {} /\ lossy = {}
    /\ pc = [c \in Clients |-> "idle"]
    /\ job = [c \in Clients |-> NoJob]

Later(a, b) == IF a < b THEN b ELSE a
Least(S) == CHOOSE x \in S : \A y \in S : x <= y
Greatest(S) == CHOOSE x \in S : \A y \in S : y <= x

Tick ==
    /\ \E d \in ClockSteps : clock + d \in 0 .. MaxTime /\ clock' = clock + d
    /\ UNCHANGED <<live, hist, nextId, spans, lossy, pc, job>>

Goto(c, step, j) == pc' = [pc EXCEPT ![c] = step] /\ job' = [job EXCEPT ![c] = j]
Return(c) == Goto(c, "idle", NoJob)
Start(c, op) == op \in Ops /\ pc[c] = "idle"

-----------------------------------------------------------------------------
(* The rows.                                                               *)

At(w) == {r \in live : r.ws = w}
ById(i) == {r \in live : r.id = i}
Replace(r, n) == live' = (live \ {r}) \cup {n}

\* Mutant: the stamp is the bare clock.
StampUnbumped(r) == clock
\* A versioned write is stamped after the version it retires.
Stamp(r) == Later(clock, r.rec + 1)
Snapshot(r) ==
    /\ Stamp(r) <= MaxTime
    /\ hist' = hist \cup {[v |-> r, inv |-> Stamp(r)]}

-----------------------------------------------------------------------------
(* remember: the handler stamps the call, a lossy unit is repaired, the    *)
(* lookup picks the branch, and the branch is one transaction.             *)

Inverted(from, to) == to # None /\ to <= from

Remember(c) ==
    /\ Start(c, "remember")
    /\ \E w \in Writes :
          /\ w.from # None => ~Inverted(w.from, w.to)
          /\ Goto(c, "called", [NoJob EXCEPT !.write = w, !.body = w.body, !.stamp = clock])
    /\ UNCHANGED <<clock, live, hist, nextId, spans, lossy>>

Within(t, b) == t = b.text \/ t \in b.folded
Missing(i, b) == {t \in Texts : [id |-> i, text |-> t, served |-> FALSE] \in spans /\ ~Within(t, b)}

\* repair_lossy_body looks at any row of the key that is not archived, in
\* whatever workspace.  Its reads of the row, the mark and the spans are one
\* step: what it appends are spans that are there when it reads them.
Repair(c) ==
    /\ pc[c] = "called"
    /\ LET b == job[c].body
           readable == {r \in live : ~r.archived}
           mendable == {r \in readable : r.id \in lossy /\ Missing(r.id, b) # {}}
       IN \/ \E r \in mendable :
                Goto(c, "mend", [job[c] EXCEPT !.id = r.id, !.body.folded = @ \cup Missing(r.id, b)])
          \/ /\ readable = {} \/ mendable # readable
             /\ Goto(c, "lookup", job[c])
    /\ UNCHANGED <<clock, live, hist, nextId, spans, lossy>>

\* The mark is cleared before anything is stored.
ClearMark(c) ==
    /\ pc[c] = "mend"
    /\ lossy' = lossy \ {job[c].id}
    /\ Goto(c, "lookup", [job[c] EXCEPT !.id = 0])
    /\ UNCHANGED <<clock, live, hist, nextId, spans>>

Lookup(c) ==
    /\ pc[c] = "lookup"
    /\ LET w == job[c].write IN
          \/ \E r \in At(w.ws) : Goto(c, "update", [job[c] EXCEPT !.id = r.id])
          \/ /\ At(w.ws) = {}
             /\ IF Inverted(IF w.from = None THEN job[c].stamp ELSE w.from, w.to)
                THEN Return(c) ELSE Goto(c, "insert", job[c])
    /\ UNCHANGED <<clock, live, hist, nextId, spans, lossy>>

\* The unique index on (category, key, workspace) refuses a second row.
Insert(c) ==
    /\ pc[c] = "insert"
    /\ LET w == job[c].write IN
          \/ At(w.ws) # {} /\ UNCHANGED <<live, nextId>>
          \/ /\ At(w.ws) = {} /\ nextId <= MaxIds
             /\ live' = live \cup {[ws |-> w.ws, id |-> nextId, body |-> job[c].body,
                                    status |-> w.status, archived |-> FALSE,
                                    from |-> IF w.from = None THEN job[c].stamp ELSE w.from,
                                    to |-> w.to, rec |-> job[c].stamp]}
             /\ nextId' = nextId + 1
    /\ Return(c)
    /\ UNCHANGED <<clock, hist, spans, lossy>>

\* What the update branch makes of row r: the period it would have, whether
\* the change is a new version, and whether it is refused.  The content is new
\* when the body that was given differs; what is stored is b, its repair.
Changed(r, w) == r.body # w.body
Moved(r, w) ==
    /\ ~Changed(r, w) /\ r.to # None
    /\ (w.from # None /\ w.from # r.from) \/ (w.to # None /\ w.to # r.to)
\* Mutant: new content overwrites the row without a version.
VersionedIfMoved(r, w) == Moved(r, w)
Versioned(r, w) == Changed(r, w) \/ Moved(r, w)
FromOf(r, w) ==
    IF w.from # None THEN w.from ELSE IF Changed(r, w) THEN Stamp(r) ELSE r.from
ToOf(r, w) == IF w.to = None /\ ~Changed(r, w) THEN r.to ELSE w.to
\* Mutant: a late valid_from is not checked against the stored valid_to.
RefusedOneSided(r, w) == Inverted(FromOf(r, w), w.to)
Refused(r, w) ==
    \/ Inverted(FromOf(r, w), w.to)
    \/ w.from # None /\ ~Changed(r, w) /\ Inverted(w.from, ToOf(r, w))
\* Mutant: moving a closed period keeps the old recorded_at.
UpdatedUnstamped(r, w, b) ==
    [r EXCEPT !.body = b, !.status = w.status, !.archived = FALSE,
              !.from = FromOf(r, w), !.to = ToOf(r, w),
              !.rec = IF Changed(r, w) THEN Stamp(r) ELSE r.rec]
Updated(r, w, b) ==
    [r EXCEPT !.body = b, !.status = w.status, !.archived = FALSE,
              !.from = FromOf(r, w), !.to = ToOf(r, w),
              !.rec = IF Versioned(r, w) THEN Stamp(r) ELSE r.rec]

Update(c) ==
    /\ pc[c] = "update"
    /\ LET w == job[c].write IN
          \/ ById(job[c].id) = {} /\ UNCHANGED <<live, hist>>
          \/ \E r \in ById(job[c].id) : Refused(r, w) /\ UNCHANGED <<live, hist>>
          \/ \E r \in ById(job[c].id) :
                /\ ~Refused(r, w) /\ ~Versioned(r, w)
                /\ Replace(r, Updated(r, w, job[c].body)) /\ UNCHANGED hist
          \/ \E r \in ById(job[c].id) :
                /\ ~Refused(r, w) /\ Versioned(r, w)
                /\ Snapshot(r) /\ Replace(r, Updated(r, w, job[c].body))
    /\ Return(c)
    /\ UNCHANGED <<clock, nextId, spans, lossy>>

\* The interference gate holds the write, a near duplicate absorbs it, a
\* transaction stays busy, the residue gate refuses, or the process ends.
GiveUp(c) ==
    /\ pc[c] # "idle"
    /\ Return(c)
    /\ UNCHANGED <<clock, live, hist, nextId, spans, lossy>>

-----------------------------------------------------------------------------
(* supersede: read the row, then close its period, then deprecate it, in   *)
(* two transactions.                                                       *)

Supersede(c) ==
    /\ Start(c, "supersede")
    /\ \E r \in live, t \in Closings :
          /\ \A s \in live : r.ws <= s.ws
          /\ t # None => ~Inverted(r.from, t) /\ (r.to # None => t <= r.to)
          /\ Goto(c, "close", [NoJob EXCEPT !.id = r.id, !.from = r.from, !.to = t, !.stamp = clock])
    /\ UNCHANGED <<clock, live, hist, nextId, spans, lossy>>

\* set_valid_to: never inverts a period and never extends a closed one.
SetValidTo(c, t) ==
    \/ ById(job[c].id) = {} /\ Return(c) /\ UNCHANGED <<live, hist>>
    \/ \E r \in ById(job[c].id) : Inverted(r.from, t) /\ Return(c) /\ UNCHANGED <<live, hist>>
    \/ \E r \in ById(job[c].id) :
          /\ ~Inverted(r.from, t) /\ r.to # None /\ r.to <= t
          /\ Goto(c, "deprecate", job[c]) /\ UNCHANGED <<live, hist>>
    \/ \E r \in ById(job[c].id) :
          /\ ~Inverted(r.from, t) /\ (r.to # None => t < r.to)
          /\ Snapshot(r) /\ Replace(r, [r EXCEPT !.to = t, !.rec = Stamp(r)])
          /\ Goto(c, "deprecate", job[c])

\* The default close is the time, read somewhere between the two.
Close(c) ==
    /\ pc[c] = "close"
    /\ \E now \in {job[c].stamp, clock} :
          SetValidTo(c, IF job[c].to = None THEN Later(now, job[c].from + 1) ELSE job[c].to)
    /\ UNCHANGED <<clock, nextId, spans, lossy>>

\* update_entity_status: the same status again is not a version.
Deprecate(c) ==
    /\ pc[c] = "deprecate"
    /\ \/ ById(job[c].id) = {} /\ UNCHANGED <<live, hist>>
       \/ \E r \in ById(job[c].id) : r.status = "deprecated" /\ UNCHANGED <<live, hist>>
       \/ \E r \in ById(job[c].id) :
             /\ r.status # "deprecated"
             /\ Snapshot(r) /\ Replace(r, [r EXCEPT !.status = "deprecated", !.rec = Stamp(r)])
    /\ Return(c)
    /\ UNCHANGED <<clock, nextId, spans, lossy>>

-----------------------------------------------------------------------------
(* resolve_conflicts picks a loser, then invalidate_entity retires it.     *)

PickLoser(c) ==
    /\ Start(c, "invalidate")
    /\ \E r \in live :
          /\ ~r.archived /\ r.status # "proposed"
          /\ Goto(c, "retire", [NoJob EXCEPT !.id = r.id])
    /\ UNCHANGED <<clock, live, hist, nextId, spans, lossy>>

InvalidateEntity(c) ==
    /\ pc[c] = "retire"
    /\ \/ (\A r \in ById(job[c].id) : r.archived) /\ UNCHANGED <<live, hist>>
       \/ \E r \in ById(job[c].id) : ~r.archived /\ Snapshot(r) /\ live' = live \ {r}
    /\ Return(c)
    /\ UNCHANGED <<clock, nextId, spans, lossy>>

\* forget archives the rows of every workspace, in place.
Forget(c) ==
    /\ Start(c, "forget")
    /\ \E r \in live : ~r.archived
    /\ live' = {[r EXCEPT !.archived = TRUE] : r \in live}
    /\ UNCHANGED <<clock, hist, nextId, spans, lossy, pc, job>>

\* purge collects the archived rows, then deletes what is archived by then
\* and the history of the rows it had collected.
PurgeScan(c) ==
    /\ Start(c, "purge")
    /\ \E r \in live : r.archived
    /\ Goto(c, "purge", [NoJob EXCEPT !.doomed =
                            {[ws |-> r.ws, id |-> r.id] : r \in {s \in live : s.archived}}])
    /\ UNCHANGED <<clock, live, hist, nextId, spans, lossy>>

\* Mutant: the rows go and their history stays.
PurgeRowsOnly(c) ==
    /\ pc[c] = "purge"
    /\ live' = {r \in live : ~r.archived}
    /\ Return(c)
    /\ UNCHANGED <<clock, hist, nextId, spans, lossy>>

PurgeCommit(c) ==
    /\ pc[c] = "purge"
    /\ live' = {r \in live : ~r.archived}
    /\ hist' = {h \in hist : \A d \in job[c].doomed : h.v.id # d.id /\ h.v.ws # d.ws}
    /\ Return(c)
    /\ UNCHANGED <<clock, nextId, spans, lossy>>

-----------------------------------------------------------------------------
(* Extraction loss.                                                        *)

\* span_audit keeps a sentence of the row that its claims do not cover.
SpanAudit(c) ==
    /\ Start(c, "audit")
    /\ \E r \in live, t \in Texts :
          /\ Within(t, r.body)
          /\ spans' = spans \cup {[id |-> r.id, text |-> t, served |-> FALSE]}
    /\ UNCHANGED <<clock, live, hist, nextId, lossy, pc, job>>

\* report_refusal serves the spans of the row that answer better than it, and
\* marks a row that has none.
ReportRefusal(c) ==
    /\ Start(c, "refuse")
    /\ \E r \in live :
          \/ \E S \in SUBSET {s \in spans : s.id = r.id /\ ~s.served} :
                /\ S # {}
                /\ spans' = (spans \ S) \cup {[s EXCEPT !.served = TRUE] : s \in S}
                /\ UNCHANGED lossy
          \/ lossy' = lossy \cup {r.id} /\ UNCHANGED spans
    /\ UNCHANGED <<clock, live, hist, nextId, pc, job>>

\* report_success confirms the spans that were served, then clears the mark.
ReportSuccess(c) ==
    /\ Start(c, "confirm")
    /\ \E i \in {s.id : s \in spans} \cup lossy :
          /\ spans' = {[s EXCEPT !.served = @ /\ s.id # i] : s \in spans}
          /\ Goto(c, "unmark", [NoJob EXCEPT !.id = i])
    /\ UNCHANGED <<clock, live, hist, nextId, lossy>>

Unmark(c) ==
    /\ pc[c] = "unmark"
    /\ lossy' = lossy \ {job[c].id}
    /\ Return(c)
    /\ UNCHANGED <<clock, live, hist, nextId, spans>>

-----------------------------------------------------------------------------
(* History retention: per workspace the oldest rows are folded into one    *)
(* tombstone.  The age and the byte bound leave the `keep` newest rows of  *)
(* the table, the version cap the `cap` newest of each workspace.          *)

Before(g, h) ==
    \/ g.inv < h.inv
    \/ g.inv = h.inv /\ g.v.rec < h.v.rec
    \/ g.inv = h.inv /\ g.v.rec = h.v.rec /\ g.v.id < h.v.id
Newer(h, S) == {g \in S : Before(h, g)}
Of(w) == {h \in hist : h.v.ws = w}
Evicted(p, w) ==
    {h \in Of(w) : Cardinality(Newer(h, hist)) >= p.keep \/ Cardinality(Newer(h, Of(w))) >= p.cap}
IsTomb(h) == h.v.status = "compacted"
\* A tombstone alone is not folded again.
Folded(p, w) ==
    IF \E h \in Evicted(p, w) : Evicted(p, w) = {h} /\ IsTomb(h) THEN {} ELSE Evicted(p, w)
Newest(e) == CHOOSE h \in e : Newer(h, e) = {}
Tombstone(w, e) ==
    [v |-> [ws |-> w, id |-> Newest(e).v.id, body |-> Digest, status |-> "compacted",
            archived |-> FALSE, from |-> Least({h.v.from : h \in e}), to |-> None,
            rec |-> Least({h.v.rec : h \in e})],
     inv |-> Greatest({h.inv : h \in e})]

EnforceRetention(p) ==
    /\ "retain" \in Ops
    /\ \E w \in Workspaces : Folded(p, w) # {}
    /\ hist' = (hist \ UNION {Folded(p, w) : w \in Workspaces})
               \cup (IF p.tombs
                     THEN {Tombstone(w, Folded(p, w)) : w \in {x \in Workspaces : Folded(p, x) # {}}}
                     ELSE {})
    /\ UNCHANGED <<clock, live, nextId, spans, lossy, pc, job>>

ClientStep(c) ==
    \/ Remember(c) \/ Repair(c) \/ ClearMark(c) \/ Lookup(c) \/ Insert(c) \/ Update(c) \/ GiveUp(c)
    \/ Supersede(c) \/ Close(c) \/ Deprecate(c)
    \/ PickLoser(c) \/ InvalidateEntity(c) \/ Forget(c)
    \/ PurgeScan(c) \/ PurgeCommit(c)
    \/ SpanAudit(c) \/ ReportRefusal(c) \/ ReportSuccess(c) \/ Unmark(c)

Next == Tick \/ (\E c \in Clients : ClientStep(c)) \/ (\E p \in Policies : EnforceRetention(p))
Spec == Init /\ [][Next]_vars

-----------------------------------------------------------------------------
(* The queries.  A query that SQLite may answer with one of several rows   *)
(* is the set of those answers; the empty set is None.                     *)

\* filter_temporal_readable: what a version shows, if it may be shown.  Of a
\* deprecated or compacted version only a marker without the body is served.
Marker(v) == v.status \in {"deprecated", "compacted"}
Visible(v) == Marker(v) \/ (v.status = "active" /\ ~v.archived)
Shown(v) == [status |-> v.status, body |-> IF Marker(v) THEN Digest ELSE v.body]

\* as_of: the retired version whose window holds t, the earliest retired
\* first, or else the live row.
\* Mutant: a window includes the instant it ends.
WindowsClosed(t) == {h \in hist : h.v.rec <= t /\ t <= h.inv}
Windows(t) == {h \in hist : h.v.rec <= t /\ t < h.inv}
Picked(t) ==
    IF Windows(t) = {} THEN {r \in live : r.rec <= t}
    ELSE {h.v : h \in {g \in Windows(t) : \A k \in Windows(t) : g.inv <= k.inv}}
AsOf(t) == {Shown(v) : v \in {u \in Picked(t) : Visible(u)}}

\* versions_recorded_by, and as_of_version: the newest of them.
Recorded(t) == {v \in live \cup {h.v : h \in hist} : Visible(v) /\ v.rec <= t}
AsOfVersion(t) == {Shown(v) : v \in {u \in Recorded(t) : \A x \in Recorded(t) : x.rec <= u.rec}}

\* bitemporal_at: the newest recorded version whose period holds x.  A later
\* recorded version ends the period of v where its own begins, unless some
\* later recorded version begins before v does.
After(v, S) == {u \in S : u.rec > v.rec}
Holds(v, x, S) ==
    /\ v.from <= x /\ (v.to # None => x < v.to)
    /\ (\A u \in After(v, S) : u.from >= v.from) => (\A u \in After(v, S) : x < u.from)
BitemporalAt(t, x) ==
    {v \in Recorded(t) : Holds(v, x, Recorded(t)) /\ \A u \in After(v, Recorded(t)) : ~Holds(u, x, Recorded(t))}

-----------------------------------------------------------------------------
(* Properties.                                                             *)

Stored == live \cup {h.v : h \in hist}

\* The variables have their types: times are never negative, the period of a
\* row always has a beginning, and no two steps leave a call half described.
TypeOK ==
    /\ clock \in Nat /\ nextId \in Nat
    /\ live \subseteq Version /\ hist \subseteq Retired
    /\ spans \subseteq Span /\ lossy \subseteq Nat
    /\ pc \in [Clients -> Steps] /\ job \in [Clients -> Job]

\* Every retired version was current for some time, so as_of can reach it,
\* however many writes fall into one millisecond and wherever the clock goes.
WindowsPositive == \A h \in hist : h.v.rec < h.inv

\* No sequence of remember and supersede stores a period that ends before it
\* begins, with the bounds given together, one at a time or by default.
PeriodsForward == \A v \in Stored : v.to # None => v.from < v.to

\* Versions partition time contiguously: in a workspace there is at most one
\* live row, two versions are never current at once, and each retired version
\* ends where another begins.
OneLive == \A r, s \in live : r.ws = s.ws => r = s
Disjoint ==
    /\ \A g, h \in hist : g.v.ws = h.v.ws /\ g # h => g.inv <= h.v.rec \/ h.inv <= g.v.rec
    /\ \A h \in hist, r \in live : h.v.ws = r.ws => h.inv <= r.rec
Contiguous == \A h \in hist : \E v \in Stored : v.ws = h.v.ws /\ v.rec = h.inv
Partition == OneLive /\ Disjoint /\ Contiguous

\* b is a with residual spans appended.
Mended(b, a) ==
    /\ b \in Bodies /\ a \in Bodies
    /\ b.text = a.text /\ a.folded \subseteq b.folded
    /\ \A t \in b.folded \ a.folded : \E s \in spans : s.text = t

\* No step changes what was recorded at an instant that has passed: as_of finds
\* the same body there afterwards, or the tombstone that its version was
\* folded into.  The one change in place is the repair of the live row, which
\* only appends spans that were kept before: it never takes text away and never
\* touches a retired version.
PastKept ==
    [][\A t \in 0 .. (clock - 1) : \A v \in Picked(t) :
          /\ Picked(t)' # {}
          /\ \A u \in Picked(t)' : \/ u.body = v.body
                                   \/ v \in live /\ Mended(u.body, v.body)
                                   \/ u.body = Digest /\ v \notin Stored']_vars

\* as_of and the query of temporal recall, as_of_version, give the same answer:
\* the newest version recorded by an instant is the one current then.
TemporalReadsAgree == \A t \in 0 .. MaxTime : AsOf(t) = AsOfVersion(t)

\* History is never readable without the row it belongs to: what purge deletes
\* it deletes with its history.
NoOrphans == \A h \in hist : \E r \in live : r.ws = h.v.ws

-----------------------------------------------------------------------------
(* Claims of the repository that the code does not keep: README.md gives   *)
(* for each an instance in which TLC refutes it.                           *)

\* At any instant at most one version of the (category, key) matches as_of.
OneMatch == \A t \in 0 .. MaxTime : Cardinality(Windows(t)) + Cardinality({r \in live : r.rec <= t}) <= 1

\* An as_of query of a past instant, once answered, is answered the same after
\* every later write.
PastFixed == [][\A t \in 0 .. (clock - 1) : AsOf(t) # {} => AsOf(t)' = AsOf(t)]_vars

\* Content that changes is a new version: the body as_of finds at a past instant
\* stays or becomes a tombstone.  A repair of an identical re-assert rewrites it
\* in place.
PastExact ==
    [][\A t \in 0 .. (clock - 1) : \A v \in Picked(t), u \in Picked(t)' :
          u.body = v.body \/ (u.body = Digest /\ v \notin Stored')]_vars

\* A unit that is repaired gets its own residual spans.
OwnSpans ==
    \A r \in live : \A t \in r.body.folded : \E s \in spans : s.id = r.id /\ s.text = t

\* A proposal never takes the place of the authoritative row.
ProposalsWait ==
    [][\A r \in live, s \in live' :
          r.id = s.id /\ r.status = "active" /\ ~r.archived => s.status # "proposed"]_vars

\* valid_at still answers for an instant that a retroactive version answered
\* before retention folded it.
RetroactiveAnswered ==
    [][(\E p \in Policies : p.tombs /\ EnforceRetention(p)) =>
          \A x \in 0 .. MaxTime : \A v \in BitemporalAt(MaxTime, x) :
             v.from < v.rec => BitemporalAt(MaxTime, x)' # {}]_vars

=============================================================================
