---------------------------- MODULE AuditJournal ----------------------------
(***************************************************************************)
(* The audit journal: an append-only table whose rows are chained by a MAC *)
(* (Database::journal_with_conn), rehashed when a key first becomes        *)
(* available or is rotated (rehash_audit_chain_keyed), redacted by purge   *)
(* and erasure, and checked by verify_audit_chain.                         *)
(*                                                                         *)
(* An append stamps its event, reads the newest hash and inserts, in three *)
(* steps without a transaction.  An open with a key (set_encryption) takes *)
(* back the marker of the store, encrypts the bodies, rehashes the journal *)
(* row by row without a transaction, and puts the marker back.  A client   *)
(* is a thread or a process with its own connection; the threads of a      *)
(* process share the key, which is why a process is one client in the runs *)
(* with keys.                                                              *)
(*                                                                         *)
(* A MAC is collision free: a hash is the sequence of links it covers.     *)
(* The payload of an event is one value and its commitment is that value.  *)
(* The workspace of a row never changes and is left out of the link.       *)
(***************************************************************************)
EXTENDS Integers, Sequences, FiniteSets

CONSTANTS
    Clients,
    Keys, NoKey,    \* audit keys; NoKey is the unkeyed scheme
    KeepsKey,       \* TRUE: a store that was opened with a key is only opened with one
    HasEntities,    \* TRUE: the store holds entities, whose bodies a key encrypts
    ClockSteps,     \* how far the wall clock moves at once
    MaxRows,        \* bound: rows of the journal
    MaxTime         \* bound: the clock

ASSUME JournalAssumption ==
    /\ NoKey \notin Keys /\ KeepsKey \in BOOLEAN /\ HasEntities \in BOOLEAN
    /\ ClockSteps \subseteq Int /\ MaxRows \in Nat /\ MaxTime \in Nat

VARIABLES
    clock,
    journal,    \* the rows, by rowid
    canary,     \* audit_chain_state: the key the chain is recorded as keyed with
    marker,     \* encryption_canary: the key the store is activated with
    bodies,     \* the key the bodies of the entities are encrypted with
    at,         \* at[p]: the next step of client p
    mine,       \* mine[p]: the key p has loaded
    buf         \* buf[p]: what p has read

vars == <<clock, journal, canary, marker, bodies, at, mine, buf>>
store == <<marker, bodies>>

Times == 0 .. MaxTime
AllKeys == Keys \cup {NoKey}
Ids == 1 .. MaxRows
Text == "text"
Gone == "gone"      \* the payload of a redacted row

Link == [key: AllKeys, id: Ids, when: Times, commit: {Text, Gone}]
Genesis == <<>>
Row == [when: Times, payload: {Text, Gone}, commit: {Text, Gone}, hash: Seq(Link)]
Buffer == [when: Times, prev: Seq(Link), todo: SUBSET Ids, to: AllKeys]
NoBuffer == [when |-> 0, prev |-> Genesis, todo |-> {}, to |-> NoKey]

Init ==
    /\ clock = 0
    /\ journal = <<>>
    /\ canary = NoKey /\ marker = NoKey /\ bodies = NoKey
    /\ at = [p \in Clients |-> "closed"]
    /\ mine = [p \in Clients |-> NoKey]
    /\ buf = [p \in Clients |-> NoBuffer]

Goto(p, step, b) == at' = [at EXCEPT ![p] = step] /\ buf' = [buf EXCEPT ![p] = b]

Tick ==
    /\ \E d \in ClockSteps : clock + d \in Times /\ clock' = clock + d
    /\ UNCHANGED <<journal, canary, store, at, mine, buf>>

-----------------------------------------------------------------------------
(* The order of the chain: created_at_unix_ms, then rowid.                 *)

Rowids == DOMAIN journal
Before(i, j) ==
    journal[i].when < journal[j].when \/ (journal[i].when = journal[j].when /\ i < j)

\* The last row of a set, and the hash a link to it starts from.
Last(S) == CHOOSE i \in S : \A j \in S \ {i} : Before(j, i)
LastHash(S) == IF S = {} THEN Genesis ELSE journal[Last(S)].hash
First(S) == CHOOSE i \in S : \A j \in S \ {i} : Before(i, j)

\* audit_chain_mac
Mac(key, prev, id, when, commit) ==
    Append(prev, [key |-> key, id |-> id, when |-> when, commit |-> commit])

-----------------------------------------------------------------------------
(* journal_with_conn.                                                      *)

\* The caller takes the time of its event.
Stamp(p) ==
    /\ at[p] = "idle" /\ Len(journal) < MaxRows
    /\ Goto(p, "read", [NoBuffer EXCEPT !.when = clock])
    /\ UNCHANGED <<clock, journal, canary, store, mine>>

\* Mutant: of several rows of the newest instant the first is found.
ReadFirstOfNewest(p) ==
    /\ at[p] = "read"
    /\ Goto(p, "insert", [buf[p] EXCEPT !.prev =
           IF Rowids = {} THEN Genesis
           ELSE journal[First({i \in Rowids : journal[i].when = journal[Last(Rowids)].when})].hash])
    /\ UNCHANGED <<clock, journal, canary, store, mine>>

\* SELECT audit_hash ... ORDER BY created_at_unix_ms DESC LIMIT 1.  The index on the column is
\* read backwards: of several rows of one instant the last is found.  A read that fails finds
\* nothing, and the row starts a chain.
ReadPrev(p) ==
    /\ at[p] = "read"
    /\ \E prev \in {LastHash(Rowids), Genesis} : Goto(p, "insert", [buf[p] EXCEPT !.prev = prev])
    /\ UNCHANGED <<clock, journal, canary, store, mine>>

Insert(p) ==
    /\ at[p] = "insert" /\ Len(journal) < MaxRows
    /\ journal' = Append(journal,
           [when |-> buf[p].when, payload |-> Text, commit |-> Text,
            hash |-> Mac(mine[p], buf[p].prev, Len(journal) + 1, buf[p].when, Text)])
    /\ Goto(p, "idle", NoBuffer)
    /\ UNCHANGED <<clock, canary, store, mine>>

\* Mutant: the commitment is scrubbed with the payload.
RedactAll(p, i) ==
    /\ at[p] = "idle" /\ journal[i].payload = Text
    /\ journal' = [journal EXCEPT ![i].payload = Gone, ![i].commit = Gone]
    /\ UNCHANGED <<clock, canary, store, at, mine, buf>>

\* purge and erasure scrub the payload and keep the tuple the chain covers.
Redact(p, i) ==
    /\ at[p] = "idle" /\ journal[i].payload = Text
    /\ journal' = [journal EXCEPT ![i].payload = Gone]
    /\ UNCHANGED <<clock, canary, store, at, mine, buf>>

-----------------------------------------------------------------------------
(* Opening the store: set_encryption.                                      *)

\* A missing key only draws a warning.
OpenPlain(p) ==
    /\ at[p] = "closed"
    /\ KeepsKey => canary = NoKey /\ marker = NoKey /\ bodies = NoKey
    /\ Goto(p, "idle", NoBuffer)
    /\ UNCHANGED <<clock, journal, canary, store, mine>>

\* verify_encryption_canary refuses a key other than the one of the marker or, when there is no
\* marker, of the bodies; then the marker is taken back (deactivate_encryption_markers).
OpenKeyed(p, k) ==
    /\ at[p] = "closed"
    /\ IF marker # NoKey THEN marker = k ELSE bodies \in {NoKey, k}
    /\ mine' = [mine EXCEPT ![p] = k]
    /\ marker' = NoKey
    /\ Goto(p, "convert", NoBuffer)
    /\ UNCHANGED <<clock, journal, canary, bodies>>

\* encrypt_plaintext_records; then the audit canary is compared with the key.
Convert(p) ==
    /\ at[p] = "convert"
    /\ bodies' = IF HasEntities THEN mine[p] ELSE bodies
    /\ IF canary = mine[p]
       THEN Goto(p, "activate", NoBuffer)
       ELSE Goto(p, "rehash", [NoBuffer EXCEPT !.todo = Rowids])
    /\ UNCHANGED <<clock, journal, canary, marker, mine>>

\* The commitment a rehash uses.
Commitment(i) == IF journal[i].payload = Gone THEN journal[i].commit ELSE journal[i].payload

\* One UPDATE of rehash_audit_chain_keyed.
RehashRow(p) ==
    LET i == First(buf[p].todo)
        h == Mac(mine[p], buf[p].prev, i, journal[i].when, Commitment(i))
    IN
    /\ at[p] = "rehash" /\ buf[p].todo # {}
    /\ journal' = [journal EXCEPT ![i].hash = h, ![i].commit = Commitment(i)]
    /\ buf' = [buf EXCEPT ![p].prev = h, ![p].todo = @ \ {i}]
    /\ UNCHANGED <<clock, canary, store, at, mine>>

\* Mutant: the canary is stored before the rows are rehashed.
CanaryFirst(p) ==
    /\ at[p] = "rehash"
    /\ canary' = mine[p]
    /\ IF buf[p].todo = {} THEN Goto(p, "activate", NoBuffer) ELSE UNCHANGED <<at, buf>>
    /\ UNCHANGED <<clock, journal, store, mine>>

\* The scheme and the canary are stored after the last row.
StoreCanary(p) ==
    /\ at[p] = "rehash" /\ buf[p].todo = {}
    /\ canary' = mine[p]
    /\ Goto(p, "activate", NoBuffer)
    /\ UNCHANGED <<clock, journal, store, mine>>

\* activate_encryption_markers, after the indexes are rebuilt.
Activate(p) ==
    /\ at[p] = "activate"
    /\ marker' = mine[p]
    /\ Goto(p, "idle", NoBuffer)
    /\ UNCHANGED <<clock, journal, canary, bodies, mine>>

-----------------------------------------------------------------------------
(* rotate_encryption_key.                                                  *)

\* The old key must be the one of the marker, which is taken back first.
RotateBegin(p, k) ==
    /\ at[p] = "idle" /\ mine[p] # NoKey /\ marker = mine[p] /\ k # marker
    /\ marker' = NoKey
    /\ Goto(p, "rotate", [NoBuffer EXCEPT !.to = k])
    /\ UNCHANGED <<clock, journal, canary, bodies, mine>>

\* The hash of row i when all rows up to it are rehashed at once.
Rehashed(key, i) ==
    LET upto == {j \in Rowids : j = i \/ Before(j, i)}
        nth(n) == CHOOSE j \in upto : Cardinality({k \in upto : k = j \/ Before(k, j)}) = n
    IN [n \in 1 .. Cardinality(upto) |->
           [key |-> key, id |-> nth(n), when |-> journal[nth(n)].when, commit |-> Commitment(nth(n))]]

\* The transaction: bodies, rows and audit canary.
RotateCommit(p) ==
    /\ at[p] = "rotate"
    /\ bodies' = IF HasEntities THEN buf[p].to ELSE bodies
    /\ journal' = [i \in Rowids |->
           [journal[i] EXCEPT !.hash = Rehashed(buf[p].to, i), !.commit = Commitment(i)]]
    /\ canary' = buf[p].to
    /\ mine' = [mine EXCEPT ![p] = buf[p].to]
    /\ Goto(p, "activate", NoBuffer)
    /\ UNCHANGED <<clock, marker>>

\* A body that changed since it was read rolls the transaction back; the marker stays away.
RotateFail(p) ==
    /\ at[p] = "rotate" /\ HasEntities
    /\ Goto(p, "idle", NoBuffer)
    /\ UNCHANGED <<clock, journal, canary, store, mine>>

\* The process ends between any two statements.
Stop(p) ==
    /\ at[p] # "closed"
    /\ Goto(p, "closed", NoBuffer)
    /\ mine' = [mine EXCEPT ![p] = NoKey]
    /\ UNCHANGED <<clock, journal, canary, store>>

-----------------------------------------------------------------------------
Next ==
    \/ Tick
    \/ \E p \in Clients :
          \/ Stamp(p) \/ ReadPrev(p) \/ Insert(p)
          \/ \E i \in Rowids : Redact(p, i)
          \/ OpenPlain(p) \/ Convert(p) \/ RehashRow(p) \/ StoreCanary(p) \/ Activate(p)
          \/ \E k \in Keys : OpenKeyed(p, k) \/ RotateBegin(p, k)
          \/ RotateCommit(p) \/ RotateFail(p)
          \/ Stop(p)

Spec == Init /\ [][Next]_vars

-----------------------------------------------------------------------------
(* Correctness.                                                            *)

\* The rows, the markers and the requests keep their types.
TypeOK ==
    /\ clock \in Times
    /\ journal \in Seq(Row) /\ Len(journal) <= MaxRows
    /\ canary \in AllKeys /\ marker \in AllKeys /\ bodies \in AllKeys
    /\ at \in [Clients -> {"closed", "idle", "read", "insert", "convert", "rehash",
                           "activate", "rotate"}]
    /\ mine \in [Clients -> AllKeys]
    /\ buf \in [Clients -> Buffer]

\* verify_audit_chain returns Ok when it is given this key.
Verifies(key) ==
    /\ canary # NoKey => key # NoKey
    /\ \A i \in Rowids :
          /\ journal[i].payload # Gone => journal[i].commit = journal[i].payload
          /\ journal[i].hash = Mac(key, LastHash({j \in Rowids : Before(j, i)}),
                                   i, journal[i].when, journal[i].commit)

\* set_encryption: a stored canary means that "the chain is already correctly keyed", in
\* every state a crash can leave behind, so that no rehash is needed.
CanaryMeansKeyed == canary # NoKey => Verifies(canary)

\* No read of the newest hash fails in this step.
ReadsSucceed ==
    \A p \in Clients :
        at[p] = "read" /\ at'[p] = "insert" /\ buf'[p].prev = Genesis => Rowids = {}

UnkeyedRows == \A i \in Rowids : \A n \in DOMAIN journal[i].hash : journal[i].hash[n].key = NoKey

\* journal_with_conn: an unkeyed chain that nobody has begun to rehash verifies.
FreshChainVerifies ==
    canary = NoKey /\ (\A p \in Clients : mine[p] = NoKey) /\ UnkeyedRows => Verifies(NoKey)

Extends ==
    \A i \in Rowids :
        \E prev \in {Genesis} \cup {journal[j].hash : j \in 1 .. i - 1} :
            journal[i].hash = Mac(NoKey, prev, i, journal[i].when, journal[i].commit)

\* journal_with_conn: whatever races or fails to read, a row extends the chain of an earlier row or starts one,
\* and covers its own tuple, as long as no rehash has put a row under a key.
LinksResolve == UnkeyedRows => Extends
=============================================================================
