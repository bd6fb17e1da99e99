----------------------------- MODULE TaskState ------------------------------
(***************************************************************************)
(* The stored state of one task (serve_project_task behind the tool        *)
(* project_task): a request names the sequence number it builds on, its    *)
(* specification is compared with the stored one, its evidence is resolved *)
(* reference by reference, and the new state is swapped in if the stored   *)
(* sequence still is the one it builds on.                                 *)
(*                                                                         *)
(* Every read is a statement of its own; only the swap is a transaction.   *)
(* A digest of a body stands for the body, so a reference is an entity and *)
(* the revision it was seen at.  Rows of the table are never deleted.      *)
(* Left out: rows that were tampered with, which task_state_get refuses.   *)
(***************************************************************************)
EXTENDS Naturals, Sequences, FiniteSets

CONSTANTS
    Conns,
    Specs,          \* objective, route, constraints and anchor of a request
    Entities,       \* the canonical evidence
    MaxSequence,    \* bound: states accepted
    MaxRevision     \* bound: revisions of one entity

VARIABLES
    row,            \* the row of the task in task_state_projections
    revision,       \* revision[e]: the current body of e
    at,             \* at[c]: the next step of the request on connection c
    req,            \* req[c]: the request and what it has read
    accepted,       \* history: the states that were swapped in
    told            \* history: the states returned as complete

vars == <<row, revision, at, req, accepted, told>>

NoRow == [sequence |-> 0]
Evidence == UNION {[refs -> 0 .. MaxRevision] : refs \in SUBSET Entities}
State == [sequence: 1 .. MaxSequence, spec: Specs, evidence: Evidence]

Init ==
    /\ row = NoRow
    /\ revision = [e \in Entities |-> 0]
    /\ at = [c \in Conns |-> "idle"]
    /\ req = [c \in Conns |-> <<>>]
    /\ accepted = <<>> /\ told = {}

Goto(c, step, q) == at' = [at EXCEPT ![c] = step] /\ req' = [req EXCEPT ![c] = q]
Return(c) == Goto(c, "idle", <<>>)

\* A remember of an entity that tasks use as evidence.
Rewrite(e) ==
    /\ revision[e] < MaxRevision
    /\ revision' = [revision EXCEPT ![e] = @ + 1]
    /\ UNCHANGED <<row, at, req, accepted, told>>

\* A request names its evidence, or none and takes what the recall finds.
\* One that builds on nothing does not read the stored state; any other may
\* name a sequence that is not stored yet.
Ask(c, spec, base, named) ==
    /\ at[c] = "idle"
    /\ Goto(c, IF base > 0 THEN "previous" ELSE "recall",
            [spec |-> spec, base |-> base, evidence |-> named, left |-> {},
             early |-> FALSE])
    /\ UNCHANGED <<row, revision, accepted, told>>

\* ensure_immutable_spec has nothing to compare with before the first state.
ReadPrevious(c) ==
    /\ at[c] = "previous"
    /\ row # NoRow => row.spec = req[c].spec
    /\ Goto(c, "recall", [req[c] EXCEPT !.early = (row = NoRow)])
    /\ UNCHANGED <<row, revision, accepted, told>>

\* found: what the recall returns, nothing when it fails.
Recall(c, found) ==
    LET evidence == IF req[c].evidence = <<>> THEN [e \in found |-> revision[e]]
                    ELSE req[c].evidence
    IN
    /\ at[c] = "recall"
    /\ Goto(c, "resolve", [req[c] EXCEPT !.evidence = evidence, !.left = DOMAIN evidence])
    /\ UNCHANGED <<row, revision, accepted, told>>

\* One reference of resolve_references: the body must be the one referred to.
Resolve(c, e) ==
    /\ at[c] = "resolve" /\ e \in req[c].left
    /\ revision[e] = req[c].evidence[e]
    /\ Goto(c, "resolve", [req[c] EXCEPT !.left = @ \ {e}])
    /\ UNCHANGED <<row, revision, accepted, told>>

FromRequest(q) == [sequence |-> q.base + 1, spec |-> q.spec, evidence |-> q.evidence]

\* Mutant: the stored sequence is not compared with the base.
SwapAlways(c) ==
    LET state == FromRequest(req[c]) IN
    /\ at[c] = "resolve" /\ req[c].left = {} /\ Len(accepted) < MaxSequence
    /\ row' = state
    /\ accepted' = Append(accepted, state)
    /\ Goto(c, "answer", req[c])
    /\ UNCHANGED <<revision, told>>

\* task_state_compare_and_swap, an immediate transaction.
CompareAndSwap(c) ==
    LET state == FromRequest(req[c]) IN
    /\ at[c] = "resolve" /\ req[c].left = {} /\ req[c].base < MaxSequence
    /\ row.sequence = req[c].base
    /\ row' = state
    /\ accepted' = Append(accepted, state)
    /\ Goto(c, "answer", req[c])
    /\ UNCHANGED <<revision, told>>

\* handle_project_task returns the state of a complete outcome only, which
\* takes evidence: the recall may have been degraded, the request may have
\* come with conflicts or gaps, and the report may fail.
Answer(c) ==
    /\ at[c] = "answer"
    /\ \/ told' = told \cup {FromRequest(req[c])} /\ req[c].evidence # <<>>
       \/ UNCHANGED told
    /\ Return(c)
    /\ UNCHANGED <<row, revision, accepted>>

\* Every refusal on the way is answered with the outcome alone: the
\* specification changed, a reference does not resolve, the base is stale.
\* A crash looks the same.
Fail(c) ==
    /\ at[c] # "idle"
    /\ Return(c)
    /\ UNCHANGED <<row, revision, accepted, told>>

Next ==
    \/ \E e \in Entities : Rewrite(e)
    \/ \E c \in Conns :
          \/ \E spec \in Specs, base \in 0 .. MaxSequence - 1, named \in Evidence :
                Ask(c, spec, base, named)
          \/ ReadPrevious(c)
          \/ \E found \in SUBSET Entities : Recall(c, found)
          \/ \E e \in Entities : Resolve(c, e)
          \/ CompareAndSwap(c) \/ Answer(c) \/ Fail(c)

Spec == Init /\ [][Next]_vars

-----------------------------------------------------------------------------
(* Correctness.                                                            *)

TypeOK ==
    /\ row \in State \cup {NoRow}
    /\ revision \in [Entities -> 0 .. MaxRevision]
    /\ at \in [Conns -> {"idle", "previous", "recall", "resolve", "answer"}]
    /\ accepted \in Seq(State) /\ told \subseteq State

\* The requests let through before the task had a state.
Early == {c \in Conns : at[c] \in {"recall", "resolve"} /\ req[c].early}

Register == INSTANCE TaskRegister WITH chain <- accepted, told <- told, early <- Early

\* task_state_compare_and_swap and ensure_immutable_spec: whatever requests
\* race and whatever bases they name, the stored states are one chain, no
\* state brings another specification unless its request had read before the
\* first state was stored, and a client that is returned a state is the one
\* that made it.
ImplementsRegister == Register!Spec

-----------------------------------------------------------------------------
(* Claims the code does not keep (README.md, section 3).                   *)

\* "task-state immutable specification changed" is refused: the states of a
\* task have one specification.
OneSpecification ==
    \A m, n \in DOMAIN accepted : accepted[m].spec = accepted[n].spec
=============================================================================
