------------------------- MODULE AuthorizedActions --------------------------
(***************************************************************************)
(* The authority plane of one agent in one workspace: versioned authority  *)
(* manifests, the ledger of revoked principals, authorized actions with    *)
(* their approvals, and the leases under which they are executed           *)
(* (the authority, revocation and action methods of Database).             *)
(*                                                                         *)
(* A handler reads in some statements and writes in others.  Between two   *)
(* of them requests on other connections run, so every handler is a chain  *)
(* of steps: at[c] names the next one on connection c.  Only the commits   *)
(* of action_approve and action_lease_acquire are transactions that look   *)
(* at the tables again.                                                    *)
(*                                                                         *)
(* An input that is used by a single step is chosen at that step.  A       *)
(* refused check is Fail: the call ends with nothing written.  now_ms is   *)
(* the wall clock, which may be set back.  Not modelled: actions with a    *)
(* task lineage, compensation linkage, the signed form of authority_set    *)
(* and the audit journal events, which nothing here reads.                 *)
(***************************************************************************)
EXTENDS Integers, FiniteSets

CONSTANTS
    Conns,          \* connections of the pool and of other processes
    Agent,          \* the agent that owns the actions
    Anchors,        \* scope anchors the manifests trust
    Approvers,      \* listed both as approver and as inbound principal
    Nobody,         \* no principal
    Actions, NoAction,
    Leases,         \* ids of leases
    Keys, Holders,
    Outcomes,       \* the completions requests ask for
    MaxVersion,     \* bound: versions of the manifest
    MaxRevocations, \* bound: rows of the ledger
    MaxTime,        \* bound: the clock runs over 0 .. MaxTime
    Ttls,           \* requested lease times
    MaxInt,         \* i64::MAX
    Calls           \* the handlers this instance calls

Completions == {"action_executed", "action_failed", "action_cancelled", "action_denied"}

ASSUME AuthorityAssumption ==
    /\ Nobody \notin {Agent} \cup Anchors \cup Approvers
    /\ NoAction \notin Actions
    /\ Outcomes \subseteq Completions
    /\ MaxVersion \in Nat /\ MaxTime \in Nat /\ MaxInt \in Nat /\ MaxRevocations \in Nat
    /\ Ttls \subseteq 1 .. MaxInt

VARIABLES
    clock,
    manifests,  \* authority_manifests, by version
    ledger,     \* revocations
    actions,    \* authorized_actions
    leases,     \* authorized_action_leases
    granter,    \* history: who granted the action, as the journal records it
    at,         \* at[c]: the next step on connection c
    req         \* req[c]: what the request on c has read or was given

tables == <<manifests, ledger, actions, leases, granter>>
vars == <<clock, manifests, ledger, actions, leases, granter, at, req>>

Times == 0 .. MaxTime
Never == MaxTime + 1        \* expires_at_unix_ms IS NULL
Versions == 1 .. MaxVersion
Principals == {Agent} \cup Anchors \cup Approvers

Manifest == [state: {"none", "current", "revoked"}, approval: BOOLEAN,
             expires: 0 .. Never, created: Times]
NoManifest == [state |-> "none", approval |-> FALSE, expires |-> Never, created |-> 0]

\* workspace_hash: empty, this workspace or another one.
Scopes == {"global", "here", "elsewhere"}
Revocation == [principal: Principals, scope: Scopes, when: Times, live: BOOLEAN]

Pending == {"intent", "approval_requested"}
Decided == {"approval_granted", "approval_denied"}
Statuses == {"none", "denied"} \cup Pending \cup Decided \cup Completions
Action == [status: Statuses, required: BOOLEAN, version: 0 .. MaxVersion,
           anchor: Anchors \cup {Nobody}, key: Keys \cup {Nobody}, created: Times]
NoRow == [status |-> "none", required |-> FALSE, version |-> 0,
          anchor |-> Nobody, key |-> Nobody, created |-> 0]

Lease == [state: {"none", "held", "released"}, action: Actions \cup {NoAction},
          key: Keys \cup {Nobody}, holder: Holders \cup {Nobody}, expires: Int]
NoLease == [state |-> "none", action |-> NoAction, key |-> Nobody, holder |-> Nobody, expires |-> 0]

Request == [action: Actions \cup {NoAction}, version: 0 .. MaxVersion,
            who: Principals \cup {Nobody}, outcome: Statuses, now: Times]
NoRequest == [action |-> NoAction, version |-> 0, who |-> Nobody, outcome |-> "none", now |-> 0]

Init ==
    /\ clock = 0
    /\ manifests = [v \in Versions |-> NoManifest]
    /\ ledger = {}
    /\ actions = [a \in Actions |-> NoRow]
    /\ leases = [l \in Leases |-> NoLease]
    /\ granter = [a \in Actions |-> Nobody]
    /\ at = [c \in Conns |-> "idle"]
    /\ req = [c \in Conns |-> NoRequest]

Goto(c, step, q) == at' = [at EXCEPT ![c] = step] /\ req' = [req EXCEPT ![c] = q]
Return(c) == Goto(c, "idle", NoRequest)
Begin(c, call, step, q) ==
    /\ at[c] = "idle" /\ call \in Calls
    /\ Goto(c, step, q)
    /\ UNCHANGED <<tables, clock>>

\* A refused check, a busy database, a panic or the end of the process.
Fail(c) == at[c] # "idle" /\ Return(c) /\ UNCHANGED <<tables, clock>>

Tick == clock' \in Times /\ UNCHANGED <<tables, at, req>>

-----------------------------------------------------------------------------
(* Revocations.                                                            *)

\* subtract_revoked_principals: a global row always bites, a row of the workspace bites the
\* manifests minted before it or with it.
Dropped(v) ==
    {rv.principal : rv \in {r \in ledger :
        /\ r.live /\ r.scope \in {"here", "global"}
        /\ r.scope = "global" \/ r.when >= manifests[v].created}}

\* The manifest that subtract_revoked_principals returns still carries the anchor.
Admits(v, anchor) == Agent \notin Dropped(v) /\ anchor \in Anchors \ Dropped(v)

\* The authority the two transactions look up again, in SQL.
StillInForce(v, principals) ==
    /\ manifests[v].state = "current" /\ manifests[v].expires > clock
    /\ ~ \E rv \in ledger :
          /\ rv.live /\ rv.principal \in principals
          /\ rv.scope = "global" \/ rv.scope = "here"
          /\ rv.scope = "global" \/ rv.when >= manifests[v].created

RevokeStamp(c) == Begin(c, "revoke", "revoke_insert", [NoRequest EXCEPT !.now = clock])

\* INSERT OR IGNORE: the row of the same principal, workspace and instant stays as it is.
RevokeInsert(c, principal, scope) ==
    /\ at[c] = "revoke_insert"
    /\ IF \E rv \in ledger :
             rv.principal = principal /\ rv.scope = scope /\ rv.when = req[c].now
       THEN UNCHANGED ledger
       ELSE /\ Cardinality(ledger) < MaxRevocations
            /\ ledger' = ledger \cup {[principal |-> principal, scope |-> scope,
                                       when |-> req[c].now, live |-> TRUE]}
    /\ Return(c)
    /\ UNCHANGED <<clock, manifests, actions, leases, granter>>

Reinstate(principal, scope) ==
    /\ "reinstate" \in Calls
    /\ ledger' = {IF rv.principal = principal /\ rv.scope = scope
                  THEN [rv EXCEPT !.live = FALSE] ELSE rv : rv \in ledger}
    /\ UNCHANGED <<clock, manifests, actions, leases, granter, at, req>>

-----------------------------------------------------------------------------
(* Manifests.                                                              *)

Used == {v \in Versions : manifests[v].state # "none"}

\* SELECT COALESCE(MAX(version), 0) + 1
IsNext(v) == (v = 1 \/ v - 1 \in Used) /\ \A w \in Used : w < v

SetRead(c, v) ==
    /\ IsNext(v)
    /\ Begin(c, "set", "set_insert", [NoRequest EXCEPT !.version = v, !.now = clock])

\* UNIQUE(agent_id, workspace_hash, version) refuses a version another request has taken.
SetInsert(c, approval, expires) ==
    LET v == req[c].version IN
    /\ at[c] = "set_insert"
    /\ v \in Versions \ Used
    /\ manifests' = [manifests EXCEPT ![v] =
           [state |-> "current", approval |-> approval, expires |-> expires, created |-> req[c].now]]
    /\ Return(c)
    /\ UNCHANGED <<clock, ledger, actions, leases, granter>>

AuthorityRevoke(v) ==
    /\ "authority_revoke" \in Calls
    /\ manifests[v].state = "current"
    /\ manifests' = [manifests EXCEPT ![v].state = "revoked"]
    /\ UNCHANGED <<clock, ledger, actions, leases, granter, at, req>>

-----------------------------------------------------------------------------
(* Intents.                                                                *)

\* authority_get: the newest version that is not revoked, then its expiry.
IntentSelect(c, v) ==
    /\ manifests[v].state = "current"
    /\ \A w \in Versions : w > v => manifests[w].state # "current"
    /\ manifests[v].expires > clock
    /\ Begin(c, "intent", "intent_subtract", [NoRequest EXCEPT !.version = v])

IntentSubtract(c, anchor) ==
    /\ at[c] = "intent_subtract"
    /\ Admits(req[c].version, anchor)
    /\ Goto(c, "intent_insert", [req[c] EXCEPT !.who = anchor])
    /\ UNCHANGED <<tables, clock>>

\* A request the capability constraints do not permit leaves a denied receipt.
IntentInsert(c, a, key, permitted) ==
    LET required == permitted /\ manifests[req[c].version].approval
    IN
    /\ at[c] = "intent_insert" /\ actions[a].status = "none"
    /\ actions' = [actions EXCEPT ![a] =
           [status |-> CASE ~ permitted -> "denied"
                         [] permitted /\ required -> "approval_requested"
                         [] OTHER -> "intent",
            required |-> required, version |-> req[c].version,
            anchor |-> req[c].who, key |-> key, created |-> clock]]
    /\ Return(c)
    /\ UNCHANGED <<clock, manifests, ledger, leases, granter>>

-----------------------------------------------------------------------------
(* Approvals.                                                              *)

ApproveRead(c, a, approver) ==
    /\ actions[a].status = "approval_requested"
    /\ Begin(c, "approve", "approve_preflight", [NoRequest EXCEPT !.action = a, !.who = approver])

\* The pinned manifest and the ledger, read before the transaction.
Preflight(v, anchor) ==
    /\ manifests[v].state = "current" /\ manifests[v].expires > clock
    /\ Admits(v, anchor)

ApprovePreflight(c) ==
    LET row == actions[req[c].action] IN
    /\ at[c] = "approve_preflight"
    /\ Preflight(row.version, row.anchor)
    /\ req[c].who \in Approvers \ Dropped(row.version)
    /\ Goto(c, "approve_commit", req[c])
    /\ UNCHANGED <<tables, clock>>

\* Mutant: the update trusts the preflight.
ApproveUnchecked(c, decision) ==
    LET a == req[c].action IN
    /\ at[c] = "approve_commit"
    /\ actions[a].status = "approval_requested"
    /\ actions' = [actions EXCEPT ![a].status = decision]
    /\ granter' = [granter EXCEPT ![a] = IF decision = "approval_granted" THEN req[c].who ELSE @]
    /\ Return(c)
    /\ UNCHANGED <<clock, manifests, ledger, leases>>

\* One UPDATE in an immediate transaction; changing no row is an error.
ApproveCommit(c, decision) ==
    LET a == req[c].action IN
    /\ at[c] = "approve_commit"
    /\ actions[a].status = "approval_requested"
    /\ StillInForce(actions[a].version, {Agent, req[c].who, actions[a].anchor})
    /\ actions' = [actions EXCEPT ![a].status = decision]
    /\ granter' = [granter EXCEPT ![a] = IF decision = "approval_granted" THEN req[c].who ELSE @]
    /\ Return(c)
    /\ UNCHANGED <<clock, manifests, ledger, leases>>

\* now - created >= approval_timeout_ms for a timeout of the caller's choice.
TimeoutRead(c, a, timeout) ==
    /\ actions[a].status = "approval_requested"
    /\ clock - actions[a].created >= timeout
    /\ Begin(c, "timeout", "timeout_write", [NoRequest EXCEPT !.action = a])

\* The row is overwritten by id, whatever it has become.
TimeoutWrite(c) ==
    /\ at[c] = "timeout_write"
    /\ actions' = [actions EXCEPT ![req[c].action].status = "approval_denied"]
    /\ Return(c)
    /\ UNCHANGED <<clock, manifests, ledger, leases, granter>>

-----------------------------------------------------------------------------
(* Completion.                                                             *)

\* Mutant: an action that awaits approval may be cancelled.
CompletablePending(row, outcome) ==
    \/ row.required /\ outcome = "action_denied" /\ row.status = "approval_denied"
    \/ row.required /\ outcome # "action_denied" /\ row.status \in {"approval_granted", "approval_requested"}
    \/ ~ row.required /\ row.status = "intent"

\* Mutant: a denied receipt may be completed.
CompletableDenied(row, outcome) ==
    \/ row.required /\ outcome = "action_denied" /\ row.status = "approval_denied"
    \/ row.required /\ outcome # "action_denied" /\ row.status = "approval_granted"
    \/ ~ row.required /\ row.status \in {"intent", "denied"}

Completable(row, outcome) ==
    \/ row.required /\ outcome = "action_denied" /\ row.status = "approval_denied"
    \/ row.required /\ outcome # "action_denied" /\ row.status = "approval_granted"
    \/ ~ row.required /\ row.status = "intent"

CompleteRead(c, a, outcome) ==
    /\ Completable(actions[a], outcome)
    /\ Begin(c, "complete", "complete_write", [NoRequest EXCEPT !.action = a, !.outcome = outcome])

\* The row is overwritten by id, whatever it has become.
CompleteWrite(c) ==
    /\ at[c] = "complete_write"
    /\ actions' = [actions EXCEPT ![req[c].action].status = req[c].outcome]
    /\ Return(c)
    /\ UNCHANGED <<clock, manifests, ledger, leases, granter>>

-----------------------------------------------------------------------------
(* Leases.                                                                 *)

Leasable(row) ==
    /\ row.status \notin {"none", "denied", "approval_denied", "action_denied"}
    /\ row.required => row.status \in
           {"approval_granted", "action_executed", "action_failed", "action_cancelled"}

LeaseRead(c, a) ==
    /\ Leasable(actions[a])
    /\ Begin(c, "lease", "lease_preflight", [NoRequest EXCEPT !.action = a])

LeasePreflight(c) ==
    LET row == actions[req[c].action] IN
    /\ at[c] = "lease_preflight"
    /\ Preflight(row.version, row.anchor)
    /\ Goto(c, "lease_commit", req[c])
    /\ UNCHANGED <<tables, clock>>

\* now + ttl in 64 bits: a release build wraps, a debug build panics (Fail).
Plus(now, ttl) == IF now + ttl > MaxInt THEN now + ttl - 2 * (MaxInt + 1) ELSE now + ttl

\* The leases of the key whose time is over.
Expired(key) == {l \in Leases :
    leases[l].state = "held" /\ leases[l].key = key /\ leases[l].expires <= clock}

\* Mutant: a lease of the key that still runs is not looked for.
Idle(key) == TRUE

Free(key) == \A l \in Leases :
    ~ (leases[l].state = "held" /\ leases[l].key = key /\ leases[l].expires > clock)

\* One immediate transaction.  It looks at the authority again, and not at the action.
LeaseCommit(c, l, holder, ttl) ==
    LET row == actions[req[c].action] IN
    /\ at[c] = "lease_commit"
    /\ StillInForce(row.version, {Agent, row.anchor})
    /\ Free(row.key)
    /\ leases[l].state = "none"
    /\ leases' = [k \in Leases |->
           IF k = l THEN [state |-> "held", action |-> req[c].action, key |-> row.key,
                          holder |-> holder, expires |-> Plus(clock, ttl)]
           ELSE IF k \in Expired(row.key) THEN [leases[k] EXCEPT !.state = "released"]
           ELSE leases[k]]
    /\ Return(c)
    /\ UNCHANGED <<clock, manifests, ledger, actions, granter>>

LeaseRelease(l, holder) ==
    /\ "release" \in Calls
    /\ leases[l].state = "held" /\ leases[l].holder = holder
    /\ leases' = [leases EXCEPT ![l].state = "released"]
    /\ UNCHANGED <<clock, manifests, ledger, actions, granter, at, req>>

-----------------------------------------------------------------------------
Authority(c) ==
    \/ RevokeStamp(c)
    \/ \E p \in Principals, s \in Scopes : RevokeInsert(c, p, s)
    \/ \E v \in Versions : SetRead(c, v)
    \/ \E approval \in BOOLEAN, expires \in 0 .. Never : SetInsert(c, approval, expires)

Intent(c) ==
    \/ \E v \in Versions : IntentSelect(c, v)
    \/ \E anchor \in Anchors : IntentSubtract(c, anchor)
    \/ \E a \in Actions, key \in Keys, permitted \in BOOLEAN : IntentInsert(c, a, key, permitted)

Decide(c) ==
    \/ \E a \in Actions, p \in Principals : ApproveRead(c, a, p)
    \/ ApprovePreflight(c)
    \/ \E decision \in Decided : ApproveCommit(c, decision)
    \/ \E a \in Actions, timeout \in Times : TimeoutRead(c, a, timeout)
    \/ TimeoutWrite(c)

Execute(c) ==
    \/ \E a \in Actions, outcome \in Outcomes : CompleteRead(c, a, outcome)
    \/ CompleteWrite(c)
    \/ \E a \in Actions : LeaseRead(c, a)
    \/ LeasePreflight(c)
    \/ \E l \in Leases, holder \in Holders, ttl \in Ttls : LeaseCommit(c, l, holder, ttl)

Next ==
    \/ Tick
    \/ \E p \in Principals, s \in Scopes : Reinstate(p, s)
    \/ \E v \in Versions : AuthorityRevoke(v)
    \/ \E l \in Leases, holder \in Holders : LeaseRelease(l, holder)
    \/ \E c \in Conns : Authority(c) \/ Intent(c) \/ Decide(c) \/ Execute(c) \/ Fail(c)

Spec == Init /\ [][Next]_vars

-----------------------------------------------------------------------------
(* Correctness.                                                            *)

Steps == {"idle", "revoke_insert", "set_insert", "intent_subtract", "intent_insert",
          "approve_preflight", "approve_commit", "timeout_write", "complete_write",
          "lease_preflight", "lease_commit"}

\* The tables and the requests keep their types; in particular an action and a lease are
\* created once and name the principal, key and version they were requested for.
TypeOK ==
    /\ clock \in Times
    /\ manifests \in [Versions -> Manifest]
    /\ ledger \subseteq Revocation
    /\ actions \in [Actions -> Action]
    /\ leases \in [Leases -> Lease]
    /\ granter \in [Actions -> Approvers \cup {Nobody}]
    /\ at \in [Conns -> Steps]
    /\ req \in [Conns -> Request]

\* action_lease_acquire takes "the single active lease" of an action key: two leases of one
\* key are never both unreleased, even when the clock is set back after one has expired.
LeaseExclusive ==
    \A k, l \in Leases :
        leases[k].state = "held" /\ leases[l].state = "held" /\ leases[k].key = leases[l].key => k = l

\* action_complete: an action that requires approval is executed, failed or cancelled only if
\* an approver granted it, whatever denials, timeouts and completions raced.
ExecutionWasGranted ==
    \A a \in Actions :
        actions[a].required /\ actions[a].status \in Completions \ {"action_denied"}
            => granter[a] \in Approvers

\* The authority an action was pinned to, as subtract_revoked_principals reads the ledger.
Standing(a) ==
    LET v == actions[a].version IN
    /\ manifests[v].state = "current" /\ clock < manifests[v].expires
    /\ Admits(v, actions[a].anchor)

\* action_approve, action_lease_acquire: when a grant or a lease commits, the pinned manifest
\* is in force and neither the agent, the anchor nor the approver is revoked, whatever was
\* revoked after the checks that precede the transaction.
AuthorityHeldAtCommit ==
    [][ /\ \A a \in Actions : granter'[a] # granter[a] =>
               Standing(a) /\ granter'[a] \notin Dropped(actions[a].version)
        /\ \A l \in Leases : leases[l].state = "none" /\ leases'[l].state = "held" =>
               Standing(leases'[l].action) ]_vars

\* action_intent: a policy denial "grants nothing": the denied receipt never changes and is
\* never leased.
PolicyDenialIsFinal ==
    [][ \A a \in Actions : actions[a].status = "denied" =>
            /\ actions'[a] = actions[a]
            /\ \A l \in Leases : leases[l].state = "none" /\ leases'[l].state = "held" =>
                   leases'[l].action # a ]_vars

-----------------------------------------------------------------------------
(* Claims of the repository that the code does not keep: README.md gives   *)
(* for each an instance in which TLC refutes it.                           *)

\* action_complete: a denied approval may only complete as denied.
DeniedNeverExecutes ==
    [][ \A a \in Actions : actions[a].status = "approval_denied" =>
            actions'[a].status \in {"approval_denied", "action_denied"} ]_vars

\* action_lease_acquire: a denied action can never be leased.
DeniedNeverLeased ==
    [][ \A l \in Leases : leases[l].state = "none" /\ leases'[l].state = "held" =>
            actions[leases'[l].action].status \notin {"denied", "approval_denied", "action_denied"} ]_vars

\* record_revocation: a principal, reinstated or not, is revoked once the call returns.
RevocationTakesEffect ==
    [][ \A c \in Conns, p \in Principals, s \in Scopes : RevokeInsert(c, p, s) =>
            \E rv \in ledger' : rv.principal = p /\ rv.scope = s /\ rv.live ]_vars

\* action_lease_acquire: a lease that has just been acquired has not expired.
NewLeaseRuns ==
    [][ \A l \in Leases : leases[l].state = "none" /\ leases'[l].state = "held" =>
            leases'[l].expires > clock ]_vars
=============================================================================
