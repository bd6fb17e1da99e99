------------------------- MODULE SignedTransitions --------------------------
(***************************************************************************)
(* The signed-transition ledger: a record signed under the newest epoch    *)
(* extends the newest record (record_signed_transition), the ledger is     *)
(* replayed in the order of its timestamps (verify_transition_chain), and  *)
(* a poison label rests on the record that authorized it                   *)
(* (set_poison_label).                                                     *)
(*                                                                         *)
(* Key, predecessor and insert are separate statements on separate         *)
(* connections, without a transaction.  A UNIQUE index on the predecessor  *)
(* makes the second of two inserts with one predecessor fail.  A label is  *)
(* written after its record; a score (and a promotion or a demotion) is    *)
(* written before it, so a failure leaves it unsigned.                     *)
(*                                                                         *)
(* A chain hash binds the predecessor, so with the index a stored record   *)
(* is named by its rowid; 0 is the hash of the empty ledger.  A signature  *)
(* is the seed that made it.                                               *)
(***************************************************************************)
EXTENDS Integers, Sequences

CONSTANTS
    Signers,        \* connections
    Nodes,          \* entities
    Levels, Scores, \* what a label and a score can say
    Epochs, Seeds, NoSeed,
    MayReplace,     \* TRUE: an epoch may be registered again with another seed
    ClockSteps,     \* how far the wall clock moves at once
    MaxRecords,     \* bound: records of the ledger
    MaxTime         \* bound: the clock

VARIABLES
    wall,
    seedOf,     \* signer_epochs: the seed of an epoch, or NoSeed
    ledger,     \* signed_transitions, by rowid
    label,      \* poison_labels: level and transition_id
    score,      \* entities.importance
    call        \* call[c]: the call on connection c and what it has read

vars == <<wall, seedOf, ledger, label, score, call>>

Contents == Levels \cup Scores \cup {"none"}
Record == [node: Nodes, old: Contents, new: Contents, epoch: Nat, seed: Seeds \cup {NoSeed},
           prev: 0 .. MaxRecords, when: 0 .. MaxTime]
Draft(n, old, new) == [node |-> n, old |-> old, new |-> new, epoch |-> 0, seed |-> NoSeed,
                       prev |-> 0, when |-> 0]
Idle == [step |-> "idle"]
Unlabelled == [level |-> "none", of |-> 0]

Init ==
    /\ wall = 0
    /\ seedOf = [e \in Epochs |-> NoSeed]
    /\ ledger = <<>>
    /\ label = [n \in Nodes |-> Unlabelled]
    /\ score = [n \in Nodes |-> "none"]
    /\ call = [c \in Signers |-> Idle]

Registered == {e \in Epochs : seedOf[e] # NoSeed}
Latest == CHOOSE e \in Registered : \A d \in Registered : d <= e

\* ORDER BY created_at_unix_ms, rowid
Older(i, j) == ledger[i].when < ledger[j].when \/ (ledger[i].when = ledger[j].when /\ i < j)
Newest == IF ledger = <<>> THEN 0
          ELSE CHOOSE i \in DOMAIN ledger : \A j \in DOMAIN ledger \ {i} : Older(j, i)

Does(c, step) == call[c].step = step
Go(c, q) == call' = [call EXCEPT ![c] = q]
Stop(c) == Go(c, Idle)

-----------------------------------------------------------------------------
Tick ==
    /\ \E d \in ClockSteps : wall + d \in 0 .. MaxTime /\ wall' = wall + d
    /\ UNCHANGED <<seedOf, ledger, label, score, call>>

Register(e, s) ==
    /\ MayReplace \/ seedOf[e] \in {NoSeed, s}
    /\ seedOf' = [seedOf EXCEPT ![e] = s]
    /\ UNCHANGED <<wall, ledger, label, score, call>>

\* The label call reads the level it replaces.
LabelCall(c, n, l) ==
    /\ Does(c, "idle")
    /\ Go(c, [step |-> "key", kind |-> "label", rec |-> Draft(n, label[n].level, l)])
    /\ UNCHANGED <<wall, seedOf, ledger, label, score>>

\* The score call reads the prior row, then overwrites it.
ScoreCall(c, n, v) ==
    /\ Does(c, "idle")
    /\ Go(c, [step |-> "score", kind |-> "score", rec |-> Draft(n, score[n], v)])
    /\ UNCHANGED <<wall, seedOf, ledger, label, score>>

ScoreWrite(c) ==
    /\ Does(c, "score")
    /\ score' = [score EXCEPT ![call[c].rec.node] = call[c].rec.new]
    /\ Go(c, [call[c] EXCEPT !.step = "key"])
    /\ UNCHANGED <<wall, seedOf, ledger, label>>

\* No epoch: a label is refused, a score stays unsigned.
ReadNoKey(c) ==
    /\ Does(c, "key") /\ Registered = {}
    /\ Stop(c)
    /\ UNCHANGED <<wall, seedOf, ledger, label, score>>

ReadKey(c) ==
    /\ Does(c, "key") /\ Registered # {}
    /\ Go(c, [call[c] EXCEPT !.step = "predecessor",
                             !.rec.epoch = Latest, !.rec.seed = seedOf[Latest]])
    /\ UNCHANGED <<wall, seedOf, ledger, label, score>>

ReadPredecessor(c) ==
    /\ Does(c, "predecessor")
    /\ Go(c, [call[c] EXCEPT !.step = "stamp", !.rec.prev = Newest])
    /\ UNCHANGED <<wall, seedOf, ledger, label, score>>

\* now_ms() is evaluated before the insert waits for the write lock.
Stamp(c) ==
    /\ Does(c, "stamp")
    /\ Go(c, [call[c] EXCEPT !.step = "insert", !.rec.when = wall])
    /\ UNCHANGED <<wall, seedOf, ledger, label, score>>

\* Mutant: the index is not unique.
TakenNever(prev) == FALSE

\* idx_signed_transitions_predecessor
Taken(prev) == \E i \in DOMAIN ledger : ledger[i].prev = prev

Insert(c) ==
    /\ Does(c, "insert") /\ ~Taken(call[c].rec.prev) /\ Len(ledger) < MaxRecords
    /\ ledger' = Append(ledger, call[c].rec)
    /\ IF call[c].kind = "label"
       THEN Go(c, [call[c] EXCEPT !.step = "label", !.rec.prev = Len(ledger) + 1])
       ELSE Stop(c)
    /\ UNCHANGED <<wall, seedOf, label, score>>

\* A label is refused; a score reports signed: false.
InsertFails(c) ==
    /\ Does(c, "insert") /\ Taken(call[c].rec.prev)
    /\ Stop(c)
    /\ UNCHANGED <<wall, seedOf, ledger, label, score>>

\* Mutant: the upsert leaves transition_id out.
WriteLevel(c) ==
    /\ Does(c, "label")
    /\ label' = [label EXCEPT ![call[c].rec.node] =
                    [level |-> call[c].rec.new,
                     of |-> IF @.of = 0 THEN call[c].rec.prev ELSE @.of]]
    /\ Stop(c)
    /\ UNCHANGED <<wall, seedOf, ledger, score>>

WriteLabel(c) ==
    /\ Does(c, "label")
    /\ label' = [label EXCEPT ![call[c].rec.node] =
                    [level |-> call[c].rec.new, of |-> call[c].rec.prev]]
    /\ Stop(c)
    /\ UNCHANGED <<wall, seedOf, ledger, score>>

\* The process ends, or a statement fails.
Abort(c) ==
    /\ ~Does(c, "idle")
    /\ Stop(c)
    /\ UNCHANGED <<wall, seedOf, ledger, label, score>>

Next ==
    \/ Tick
    \/ \E e \in Epochs, s \in Seeds : Register(e, s)
    \/ \E c \in Signers, n \in Nodes :
        \/ \E l \in Levels : LabelCall(c, n, l)
        \/ \E v \in Scores : ScoreCall(c, n, v)
    \/ \E c \in Signers :
        \/ ScoreWrite(c) \/ ReadNoKey(c) \/ ReadKey(c) \/ ReadPredecessor(c)
        \/ Stamp(c) \/ Insert(c) \/ InsertFails(c) \/ WriteLabel(c) \/ Abort(c)

Spec == Init /\ [][Next]_vars

-----------------------------------------------------------------------------
\* verify_transition_chain: the record that replay takes before record i, and
\* what it demands of i.
Before(i) == {j \in DOMAIN ledger : Older(j, i)}
Running(i) == IF Before(i) = {} THEN 0
              ELSE CHOOSE j \in Before(i) : \A k \in Before(i) \ {j} : Older(k, j)
Replays(i) == ledger[i].seed = seedOf[ledger[i].epoch] /\ ledger[i].prev = Running(i)

\* verify_transition_chain: whatever calls race, fail or stop between two
\* statements, the replay of the ledger meets no divergence, as long as the
\* clock does not go back and no epoch is given another seed.
LedgerReplays == \A i \in DOMAIN ledger : Replays(i)

\* set_poison_label: the label of an entity names a stored record, and that
\* record authorizes this level for this entity, whichever of two racing
\* calls wrote the label last.
LabelIsSigned ==
    \A n \in Nodes : label[n].level # "none" =>
        /\ label[n].of \in DOMAIN ledger
        /\ ledger[label[n].of].node = n /\ ledger[label[n].of].new = label[n].level

\* What comments also say, and the code does not keep (README.md, section 3):
\* once a key is registered, no score is changed without a record.
ScoresSigned ==
    (Registered # {} /\ \A c \in Signers : Does(c, "idle")) =>
        \A n \in Nodes : score[n] # "none" =>
            \E i \in DOMAIN ledger : ledger[i].node = n /\ ledger[i].new = score[n]
=============================================================================
