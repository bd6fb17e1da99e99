---------------------------- MODULE TaskLineage -----------------------------
(***************************************************************************)
(* Task lineages of one agent in one workspace: an intent that carries a   *)
(* lineage either starts a lineage or continues one from the head it       *)
(* names, within a cumulative budget and impact limit and without a send   *)
(* to the outside after a read (action_intent_lineage_path and             *)
(* task_lineage::apply_action).                                            *)
(*                                                                         *)
(* A request reads the authority manifest and the time, then runs one      *)
(* immediate transaction.  A revocation of a manifest is two statements.   *)
(* A head digest covers the head before it, so it is named by how often    *)
(* the lineage has advanced; the digests of the state, the policy and the  *)
(* manifest are determined by it.  A manifest fixes its policy, so the     *)
(* comparison of the policies never decides.  Left out: the action row     *)
(* itself (AuthorizedActions) beyond the outcome, the journal event that   *)
(* follows the commit (AuditJournal), rows whose digests do not match      *)
(* their content, and sums of two amounts that leave 64 bits: each is at   *)
(* most 1000000.                                                           *)
(***************************************************************************)
EXTENDS Integers, Sequences, FiniteSets

CONSTANTS
    Conns,
    Keys,           \* action keys: a retry repeats its key
    Requests,       \* what clients ask for, apart from key and reference
    Policy,         \* Policy[v]: the limits of manifest version v
    MaxHistory,     \* MAX_HISTORY, 64 in production
    MaxVersion,     \* bound: versions of the manifest
    MaxTransitions  \* bound: rows of action_lineage_transitions

Versions == 1 .. MaxVersion
Classes == {"read", "external_send", "write", "delete"}
Request == [class: Classes, cost: Nat, impact: Nat, permitted: BOOLEAN]

ASSUME LineageAssumption ==
    /\ Requests \subseteq Request
    /\ Policy \in [Versions -> [budget: Nat, impact: Nat, deny: BOOLEAN]]
    /\ MaxHistory \in Nat /\ MaxVersion \in Nat /\ MaxTransitions \in Nat

VARIABLES
    manifests,      \* manifests[v]
    expired,        \* the versions whose expiry is past
    lineages,       \* action_lineages, by id
    transitions,    \* action_lineage_transitions, in the order of insertion
    at,             \* at[c]: the next step on connection c
    req             \* req[c]: the request on c and what it has read

vars == <<manifests, expired, lineages, transitions, at, req>>

Lineage == [version: Versions, classes: Seq(Classes), spent: Nat, impact: Nat,
            head: Nat, revoked: BOOLEAN]
\* A continuation reference; the successor of a lineage has one too.
NoRef == [line |-> 0, head |-> 0]
Asked == [key: Keys, kind: {"new_authorization", "continue"}, ref: [line: Nat, head: Nat],
          what: Requests, version: Versions]
Outcomes == {"new_authorization", "continued", "denied", "stale", "revoked"}
Advancing == {"new_authorization", "continued", "denied"}
Transition == [asked: Asked, line: Nat, head: Nat, outcome: Outcomes, spent: Nat, impact: Nat]

Init ==
    /\ manifests = [v \in Versions |-> IF v = 1 THEN "current" ELSE "none"]
    /\ expired = {}
    /\ lineages = <<>> /\ transitions = <<>>
    /\ at = [c \in Conns |-> "idle"]
    /\ req = [c \in Conns |-> <<>>]

Goto(c, step, q) == at' = [at EXCEPT ![c] = step] /\ req' = [req EXCEPT ![c] = q]
Return(c) == Goto(c, "idle", <<>>)

-----------------------------------------------------------------------------
(* Manifests.                                                              *)

Current == {v \in Versions : manifests[v] = "current"}
Active(v) == v \in Current \ expired /\ \A w \in Current : w <= v

AuthoritySet(v) ==
    /\ manifests[v] = "none" /\ \A w \in Versions : w < v => manifests[w] # "none"
    /\ manifests' = [manifests EXCEPT ![v] = "current"]
    /\ UNCHANGED <<expired, lineages, transitions, at, req>>

Expire(v) ==
    /\ manifests[v] # "none" /\ v \notin expired
    /\ expired' = expired \cup {v}
    /\ UNCHANGED <<manifests, lineages, transitions, at, req>>

\* authority_revoke: the manifest first, its lineages in a second statement.
RevokeManifest(c, v) ==
    /\ at[c] = "idle" /\ manifests[v] = "current"
    /\ manifests' = [manifests EXCEPT ![v] = "revoked"]
    /\ Goto(c, "revoke_lineages", v)
    /\ UNCHANGED <<expired, lineages, transitions>>

RevokeLineages(c) ==
    /\ at[c] = "revoke_lineages"
    /\ lineages' = [l \in DOMAIN lineages |->
           IF lineages[l].version = req[c] THEN [lineages[l] EXCEPT !.revoked = TRUE]
           ELSE lineages[l]]
    /\ Return(c)
    /\ UNCHANGED <<manifests, expired, transitions>>

-----------------------------------------------------------------------------
(* apply_action.                                                           *)

Initial(v) == [version |-> v, classes |-> <<>>, spent |-> 0, impact |-> 0,
               head |-> 0, revoked |-> FALSE]
Seen(state, class) == \E i \in DOMAIN state.classes : state.classes[i] = class

\* Mutant: the read after the send is denied.
ComposesSwapped(state, q, policy) ==
    ~ (policy.deny /\ q.class = "read" /\ Seen(state, "external_send"))
Composes(state, q, policy) ==
    ~ (policy.deny /\ q.class = "external_send" /\ Seen(state, "read"))

Admitted(state, q, policy) ==
    /\ q.permitted /\ Composes(state, q, policy)
    /\ state.spent + q.cost <= policy.budget
    /\ state.impact + q.impact <= policy.impact

\* The state after an admitted action; a denied one leaves it alone.
Applied(state, q) ==
    [state EXCEPT !.classes = Append(@, q.class), !.spent = @ + q.cost, !.impact = @ + q.impact]

-----------------------------------------------------------------------------
(* action_intent_lineage_path.                                             *)

Refs == {[line |-> l, head |-> h] : l \in DOMAIN lineages, h \in 1 .. Len(transitions)}
Known == {r \in Refs : r.head <= lineages[r.line].head}

\* active_authority, before the transaction.
Ask(c, key, kind, ref, what, v) ==
    /\ at[c] = "idle" /\ Active(v)
    /\ Goto(c, "commit", [key |-> key, kind |-> kind, ref |-> ref, what |-> what, version |-> v])
    /\ UNCHANGED <<manifests, expired, lineages, transitions>>

Earlier(q) == {i \in DOMAIN transitions : transitions[i].asked.key = q.key}

\* Mutant: the head of the reference is not compared.
RefusalAnyHead(q, late) ==
    LET row == lineages[q.ref.line] IN
    CASE row.revoked -> "revoked"
      [] ~row.revoked /\ (row.version \in late \/ row.version # q.version) -> "stale"
      [] OTHER -> "none"

\* The head, the revocation, the expiry and the authority, in this order.
Refusal(q, late) ==
    LET row == lineages[q.ref.line] IN
    CASE q.ref.head # row.head -> "stale"
      [] q.ref.head = row.head /\ row.revoked -> "revoked"
      [] q.ref.head = row.head /\ ~row.revoked
            /\ (row.version \in late \/ row.version # q.version) -> "stale"
      [] OTHER -> "none"

Record(q, line, row, outcome) ==
    transitions' = Append(transitions,
        [asked |-> q, line |-> line, head |-> row.head, outcome |-> outcome,
         spent |-> row.spent, impact |-> row.impact])

\* A refused continuation leaves a receipt of the head as it is.
Refuse(q, outcome) ==
    /\ Record(q, q.ref.line, lineages[q.ref.line], outcome)
    /\ UNCHANGED lineages

\* A denied action is recorded on the lineage too: the head advances.
Advance(q, line, row, success) ==
    LET ok == Admitted(row, q.what, Policy[q.version])
        next == [(IF ok THEN Applied(row, q.what) ELSE row) EXCEPT !.head = @ + 1]
    IN
    /\ ok => Len(row.classes) < MaxHistory
    /\ lineages' = [l \in DOMAIN lineages \cup {line} |-> IF l = line THEN next ELSE lineages[l]]
    /\ Record(q, line, next, IF ok THEN success ELSE "denied")

\* The immediate transaction of a request that is not a retry; the time it
\* compares the expiry with was taken before it began.  A successor starts
\* from nothing once its parent is found at the head it names.
Commit(c, late) ==
    LET q == req[c] IN
    /\ at[c] = "commit" /\ Len(transitions) < MaxTransitions
    /\ Earlier(q) = {}
    /\ \/ /\ q.kind = "continue"
          /\ LET refusal == Refusal(q, late) IN
                IF refusal = "none"
                THEN Advance(q, q.ref.line, lineages[q.ref.line], "continued")
                ELSE Refuse(q, refusal)
       \/ /\ q.kind = "new_authorization"
          /\ q.ref # NoRef => lineages[q.ref.line].head = q.ref.head
          /\ Advance(q, Len(lineages) + 1, Initial(q.version), "new_authorization")
    /\ Return(c)
    /\ UNCHANGED <<manifests, expired>>

\* The same request again is answered with the action it has made; another
\* request under the key is an error, as is every other refusal.  A crash
\* looks the same.
Answer(c) ==
    /\ at[c] # "idle"
    /\ Return(c)
    /\ UNCHANGED <<manifests, expired, lineages, transitions>>

Next ==
    \/ \E v \in Versions : AuthoritySet(v) \/ Expire(v)
    \/ \E c \in Conns :
          \/ \E v \in Versions : RevokeManifest(c, v)
          \/ RevokeLineages(c)
          \/ \E key \in Keys, what \in Requests, v \in Versions :
                \/ \E ref \in Known \cup {NoRef} : Ask(c, key, "new_authorization", ref, what, v)
                \/ \E ref \in Known : Ask(c, key, "continue", ref, what, v)
          \/ \E late \in SUBSET expired : Commit(c, late)
          \/ Answer(c)

Spec == Init /\ [][Next]_vars

-----------------------------------------------------------------------------
(* Correctness.                                                            *)

TypeOK ==
    /\ manifests \in [Versions -> {"none", "current", "revoked"}]
    /\ expired \subseteq Versions
    /\ lineages \in Seq(Lineage) /\ transitions \in Seq(Transition)
    /\ at \in [Conns -> {"idle", "revoke_lineages", "commit"}]

Advances(l) == {i \in DOMAIN transitions :
    transitions[i].line = l /\ transitions[i].outcome \in Advancing}

\* One transition made each head of a lineage, and a continuation made the
\* head after the one its client had seen: of two that name the same head
\* one is refused.
OneWinner ==
    \A l \in DOMAIN lineages :
        /\ {transitions[i].head : i \in Advances(l)} = 1 .. lineages[l].head
        /\ \A i, j \in Advances(l) : transitions[i].head = transitions[j].head => i = j
        /\ \A i \in Advances(l) : transitions[i].asked.kind = "continue" =>
              transitions[i].asked.ref = [line |-> l, head |-> transitions[i].head - 1]

\* The budget of a lineage is what its admitted actions cost: nothing is
\* charged for a denied or refused one, nothing is lost to a race.
Charge(i) ==
    LET t == transitions[i] IN
    IF t.outcome = "denied" THEN [spent |-> 0, impact |-> 0]
    ELSE [spent |-> t.asked.what.cost, impact |-> t.asked.what.impact]
SpentAddsUp ==
    \A l \in DOMAIN lineages : \A i \in Advances(l) :
        LET t == transitions[i]
            before == {j \in Advances(l) : transitions[j].head = t.head - 1}
        IN /\ t.head = 1 => t.spent = Charge(i).spent /\ t.impact = Charge(i).impact
           /\ \A j \in before : /\ t.spent = transitions[j].spent + Charge(i).spent
                                /\ t.impact = transitions[j].impact + Charge(i).impact
           /\ t.head = lineages[l].head =>
                 t.spent = lineages[l].spent /\ t.impact = lineages[l].impact
           /\ t.spent <= Policy[lineages[l].version].budget
           /\ t.impact <= Policy[lineages[l].version].impact

\* A retry never makes a second transition, whatever it races.
ChargedOnce ==
    \A i, j \in DOMAIN transitions : transitions[i].asked.key = transitions[j].asked.key => i = j

\* action_intent_lineage_path: the receipts of a lineage are one chain of
\* heads that adds up to its budget, and no request is in it twice.
LedgerSound == OneWinner /\ SpentAddsUp /\ ChargedOnce

\* apply_action: under a policy that denies it, no lineage admits a send to
\* the outside after it has admitted a read, in however many intents and
\* sessions they came.
NoSendAfterRead ==
    \A l \in DOMAIN lineages : \A i, j \in Advances(l) :
        /\ Policy[lineages[l].version].deny
        /\ transitions[i].outcome # "denied" /\ transitions[i].asked.what.class = "read"
        /\ transitions[j].outcome # "denied" /\ transitions[j].asked.what.class = "external_send"
        => transitions[j].head < transitions[i].head
=============================================================================
