---------------------- MODULE AuthorizedActionsProofs -----------------------
(***************************************************************************)
(* Leases exclude each other and no action is executed without the         *)
(* approval it requires, for any number of connections, actions and        *)
(* leases.  The invariant is strengthened by what a request in flight      *)
(* still knows about the row it read: rows only move forward, so a check   *)
(* made earlier keeps enough of its meaning.                               *)
(***************************************************************************)
EXTENDS AuthorizedActions, TLAPS

\* The steps of a request that has read an action.
Holding == {"approve_preflight", "approve_commit", "timeout_write", "complete_write",
            "lease_preflight", "lease_commit"}

\* What is still true of the row a request in flight has read.
GoodCall(step, q, rows, by) ==
    /\ step \in Holding => q.action \in Actions /\ rows[q.action].status \notin {"none", "denied"}
    /\ step = "approve_commit" => q.who \in Approvers
    /\ step \in {"intent_subtract", "intent_insert"} => q.version \in Versions
    /\ step = "intent_insert" => q.who \in Anchors
    /\ step = "set_insert" => q.version \in Versions
    /\ step = "complete_write" =>
          /\ q.outcome \in Completions
          /\ rows[q.action].required /\ q.outcome # "action_denied" => by[q.action] \in Approvers

\* A row names the manifest and anchor it was admitted under, and a grant has a granter.
GoodRow(row, by) ==
    /\ row.status # "none" => row.version \in Versions /\ row.anchor \in Anchors
    /\ row.status = "approval_granted" => by \in Approvers
    /\ row.required /\ row.status \in Completions \ {"action_denied"} => by \in Approvers

IInv ==
    /\ TypeOK
    /\ LeaseExclusive
    /\ \A a \in Actions : GoodRow(actions[a], granter[a])
    /\ \A c \in Conns : GoodCall(at[c], req[c], actions, granter)

\* Rows move forward: they stay admitted or denied, keep what they require and who granted them.
Forward ==
    \A a \in Actions :
        /\ actions[a].status # "none" =>
              actions'[a].status # "none" /\ actions'[a].required = actions[a].required
        /\ actions[a].status \notin {"none", "denied"} => actions'[a].status # "denied"
        /\ granter[a] \in Approvers => granter'[a] \in Approvers

-----------------------------------------------------------------------------
\* The request of an idle connection is well typed.
LEMMA NothingRequested == NoRequest \in Request
BY AuthorityAssumption DEF NoRequest, Request, Versions, Times, Statuses

\* A request that moves on keeps the other requests' knowledge as long as rows move forward.
LEMMA Moves ==
    ASSUME at \in [Conns -> Steps], req \in [Conns -> Request], Forward,
           \A d \in Conns : GoodCall(at[d], req[d], actions, granter),
           NEW c \in Conns, NEW step \in Steps, NEW q \in Request,
           Goto(c, step, q), GoodCall(step, q, actions', granter')
    PROVE  /\ at' \in [Conns -> Steps] /\ req' \in [Conns -> Request]
           /\ \A d \in Conns : GoodCall(at'[d], req'[d], actions', granter')
<1>1. at' \in [Conns -> Steps] /\ req' \in [Conns -> Request] BY DEF Goto
<1>2. ASSUME NEW d \in Conns PROVE GoodCall(at'[d], req'[d], actions', granter')
  <2>1. CASE d = c
    <3>1. at'[d] = step /\ req'[d] = q BY <2>1 DEF Goto
    <3> QED BY <3>1
  <2>2. CASE d # c
    <3>1. at'[d] = at[d] /\ req'[d] = req[d] BY <2>2 DEF Goto
    <3>2. GoodCall(at[d], req[d], actions, granter) OBVIOUS
    <3>3. at[d] \in Holding =>
             /\ req[d].action \in Actions
             /\ actions'[req[d].action].status \notin {"none", "denied"}
             /\ actions'[req[d].action].required = actions[req[d].action].required
             /\ granter[req[d].action] \in Approvers => granter'[req[d].action] \in Approvers
      BY <3>2 DEF GoodCall, Forward
    <3>4. GoodCall(at[d], req[d], actions', granter') BY <3>2, <3>3 DEF GoodCall, Holding
    <3> QED BY <3>1, <3>4
  <2> QED BY <2>1, <2>2
<1> QED BY <1>1, <1>2

\* A call that ends.
LEMMA Returns ==
    ASSUME at \in [Conns -> Steps], req \in [Conns -> Request], Forward,
           \A d \in Conns : GoodCall(at[d], req[d], actions, granter),
           NEW c \in Conns, Return(c)
    PROVE  /\ at' \in [Conns -> Steps] /\ req' \in [Conns -> Request]
           /\ \A d \in Conns : GoodCall(at'[d], req'[d], actions', granter')
<1>1. "idle" \in Steps BY DEF Steps
<1>2. GoodCall("idle", NoRequest, actions', granter') BY DEF GoodCall, Holding
<1>3. Goto(c, "idle", NoRequest) BY DEF Return
<1> QED BY <1>1, <1>2, <1>3, Moves, NothingRequested

\* A step that changes neither rows nor leases and moves the request on.
LEMMA Reads ==
    ASSUME IInv, NEW c \in Conns, NEW step \in Steps, NEW q \in Request,
           Goto(c, step, q), UNCHANGED <<tables, clock>>, GoodCall(step, q, actions, granter)
    PROVE  IInv'
<1>1. Forward BY DEF Forward, tables
<1>2. UNCHANGED <<manifests, ledger, actions, leases, granter, clock>> BY DEF tables
<1>3. /\ at' \in [Conns -> Steps] /\ req' \in [Conns -> Request]
      /\ \A d \in Conns : GoodCall(at'[d], req'[d], actions', granter')
  <2>1. GoodCall(step, q, actions', granter') BY <1>2
  <2> QED BY <1>1, <2>1, Moves DEF IInv, TypeOK
<1>4. TypeOK' BY <1>2, <1>3 DEF IInv, TypeOK
<1>5. LeaseExclusive' BY <1>2 DEF IInv, LeaseExclusive
<1>6. \A a \in Actions : GoodRow(actions'[a], granter'[a]) BY <1>2 DEF IInv
<1> QED BY <1>3, <1>4, <1>5, <1>6 DEF IInv

\* A step that begins a call.
LEMMA Begins ==
    ASSUME IInv, NEW c \in Conns, NEW call, NEW step \in Steps, NEW q \in Request,
           Begin(c, call, step, q), GoodCall(step, q, actions, granter)
    PROVE  IInv'
BY Reads DEF Begin

\* A step that writes only tables other than the actions and ends its call or has none.
LEMMA Writes ==
    ASSUME IInv, clock' \in Times, manifests' \in [Versions -> Manifest],
           ledger' \subseteq Revocation, UNCHANGED <<actions, granter>>,
           leases' \in [Leases -> Lease], LeaseExclusive',
           UNCHANGED <<at, req>> \/ \E c \in Conns : Return(c)
    PROVE  IInv'
<1>1. Forward BY DEF Forward
<1>2. /\ at' \in [Conns -> Steps] /\ req' \in [Conns -> Request]
      /\ \A d \in Conns : GoodCall(at'[d], req'[d], actions', granter')
  <2>1. CASE UNCHANGED <<at, req>> BY <2>1 DEF IInv, TypeOK
  <2>2. CASE \E c \in Conns : Return(c) BY <1>1, <2>2, Returns DEF IInv, TypeOK
  <2> QED BY <2>1, <2>2
<1>3. TypeOK' BY <1>2 DEF IInv, TypeOK
<1>4. \A a \in Actions : GoodRow(actions'[a], granter'[a]) BY DEF IInv
<1> QED BY <1>2, <1>3, <1>4 DEF IInv

\* A step that changes the row of one action and ends its call.
LEMMA Updates ==
    ASSUME IInv, UNCHANGED <<clock, manifests, ledger, leases>>,
           NEW c \in Conns, Return(c),
           actions' \in [Actions -> Action], granter' \in [Actions -> Approvers \cup {Nobody}],
           Forward, \A a \in Actions : GoodRow(actions'[a], granter'[a])
    PROVE  IInv'
<1>1. /\ at' \in [Conns -> Steps] /\ req' \in [Conns -> Request]
      /\ \A d \in Conns : GoodCall(at'[d], req'[d], actions', granter')
  BY Returns DEF IInv, TypeOK
<1>2. TypeOK' BY <1>1 DEF IInv, TypeOK
<1>3. LeaseExclusive' BY DEF IInv, LeaseExclusive
<1> QED BY <1>1, <1>2, <1>3 DEF IInv

-----------------------------------------------------------------------------
(* One lemma per group of handlers.                                        *)

\* record_revocation and reinstate_revocation keep the invariant.
LEMMA RevocationsKeep ==
    ASSUME IInv, NEW p \in Principals, NEW s \in Scopes,
           Reinstate(p, s) \/ \E c \in Conns : RevokeStamp(c) \/ RevokeInsert(c, p, s)
    PROVE  IInv'
<1>0. ledger \subseteq Revocation /\ clock \in Times BY DEF IInv, TypeOK
<1>1. CASE Reinstate(p, s)
  <2>1. \A rv \in ledger : rv \in Revocation /\ [rv EXCEPT !.live = FALSE] \in Revocation
    BY <1>0 DEF Revocation
  <2>2. ledger' \subseteq Revocation BY <1>1, <2>1 DEF Reinstate
  <2>3. /\ UNCHANGED <<clock, manifests, actions, leases, granter, at, req>>
        /\ UNCHANGED <<actions, granter>> /\ UNCHANGED <<at, req>>
    BY <1>1 DEF Reinstate
  <2>4. LeaseExclusive' BY <2>3 DEF IInv, LeaseExclusive
  <2> QED BY <2>2, <2>3, <2>4, Writes DEF IInv, TypeOK
<1>2. ASSUME NEW c \in Conns, RevokeStamp(c) PROVE IInv'
  <2> DEFINE q == [NoRequest EXCEPT !.now = clock]
  <2>1. q \in Request BY <1>0, NothingRequested DEF Request
  <2>2. "revoke_insert" \in Steps /\ GoodCall("revoke_insert", q, actions, granter)
    BY DEF Steps, GoodCall, Holding
  <2> QED BY <1>2, <2>1, <2>2, Begins DEF RevokeStamp
<1>3. ASSUME NEW c \in Conns, RevokeInsert(c, p, s) PROVE IInv'
  <2> DEFINE rv == [principal |-> p, scope |-> s, when |-> req[c].now, live |-> TRUE]
  <2>1. req[c].now \in Times BY DEF IInv, TypeOK, Request
  <2>2. rv \in Revocation BY <2>1 DEF Revocation
  <2>3. ledger' = ledger \/ ledger' = ledger \cup {rv} BY <1>3 DEF RevokeInsert
  <2>4. ledger' \subseteq Revocation BY <1>0, <2>2, <2>3
  <2>5. /\ UNCHANGED <<clock, manifests, actions, leases, granter>>
        /\ UNCHANGED <<actions, granter>> /\ Return(c)
    BY <1>3 DEF RevokeInsert
  <2>6. LeaseExclusive' BY <2>5 DEF IInv, LeaseExclusive
  <2> QED BY <2>4, <2>5, <2>6, Writes DEF IInv, TypeOK
<1> QED BY <1>1, <1>2, <1>3

\* authority_set and authority_revoke keep the invariant.
LEMMA ManifestsKeep ==
    ASSUME IInv, NEW v \in Versions,
           AuthorityRevoke(v) \/ \E c \in Conns : SetRead(c, v)
              \/ \E approval \in BOOLEAN, expires \in 0 .. Never : SetInsert(c, approval, expires)
    PROVE  IInv'
<1>0. manifests \in [Versions -> Manifest] /\ clock \in Times BY DEF IInv, TypeOK
<1>1. CASE AuthorityRevoke(v)
  <2>1. [manifests[v] EXCEPT !.state = "revoked"] \in Manifest BY <1>0 DEF Manifest
  <2>2. manifests' \in [Versions -> Manifest] BY <1>0, <1>1, <2>1 DEF AuthorityRevoke
  <2>3. /\ UNCHANGED <<clock, ledger, actions, leases, granter, at, req>>
        /\ UNCHANGED <<actions, granter>> /\ UNCHANGED <<at, req>>
    BY <1>1 DEF AuthorityRevoke
  <2>4. LeaseExclusive' BY <2>3 DEF IInv, LeaseExclusive
  <2> QED BY <2>2, <2>3, <2>4, Writes DEF IInv, TypeOK
<1>2. ASSUME NEW c \in Conns, SetRead(c, v) PROVE IInv'
  <2> DEFINE q == [NoRequest EXCEPT !.version = v, !.now = clock]
  <2>1. v \in 0 .. MaxVersion BY AuthorityAssumption DEF Versions
  <2>2. q \in Request BY <1>0, <2>1, NothingRequested DEF Request
  <2>3. q.version = v BY DEF NoRequest
  <2>4. "set_insert" \in Steps /\ GoodCall("set_insert", q, actions, granter)
    BY <2>3 DEF Steps, GoodCall, Holding
  <2> QED BY <1>2, <2>2, <2>4, Begins DEF SetRead
<1>3. ASSUME NEW c \in Conns, NEW approval \in BOOLEAN, NEW expires \in 0 .. Never,
             SetInsert(c, approval, expires)
      PROVE  IInv'
  <2> DEFINE row == [state |-> "current", approval |-> approval, expires |-> expires,
                     created |-> req[c].now]
  <2>1. req[c].now \in Times BY DEF IInv, TypeOK, Request
  <2>2. row \in Manifest BY <2>1 DEF Manifest
  <2>3. manifests' \in [Versions -> Manifest] BY <1>0, <1>3, <2>2 DEF SetInsert
  <2>4. /\ UNCHANGED <<clock, ledger, actions, leases, granter>>
        /\ UNCHANGED <<actions, granter>> /\ Return(c)
    BY <1>3 DEF SetInsert
  <2>5. LeaseExclusive' BY <2>4 DEF IInv, LeaseExclusive
  <2> QED BY <2>3, <2>4, <2>5, Writes DEF IInv, TypeOK
<1> QED BY <1>1, <1>2, <1>3

\* action_intent keeps the invariant: a new row names the manifest and anchor it was checked for.
LEMMA IntentsKeep ==
    ASSUME IInv, NEW c \in Conns, Intent(c)
    PROVE  IInv'
<1>0. /\ actions \in [Actions -> Action] /\ granter \in [Actions -> Approvers \cup {Nobody}]
      /\ clock \in Times /\ at \in [Conns -> Steps] /\ req[c] \in Request
      /\ GoodCall(at[c], req[c], actions, granter)
  BY DEF IInv, TypeOK
<1>1. ASSUME NEW v \in Versions, IntentSelect(c, v) PROVE IInv'
  <2> DEFINE q == [NoRequest EXCEPT !.version = v]
  <2>1. v \in 0 .. MaxVersion BY AuthorityAssumption DEF Versions
  <2>2. q \in Request BY <2>1, NothingRequested DEF Request
  <2>3. q.version = v BY DEF NoRequest
  <2>4. "intent_subtract" \in Steps /\ GoodCall("intent_subtract", q, actions, granter)
    BY <2>3 DEF Steps, GoodCall, Holding
  <2> QED BY <1>1, <2>2, <2>4, Begins DEF IntentSelect
<1>2. ASSUME NEW anchor \in Anchors, IntentSubtract(c, anchor) PROVE IInv'
  <2> DEFINE q == [req[c] EXCEPT !.who = anchor]
  <2>1. q \in Request BY <1>0 DEF Request, Principals
  <2>2. q.who = anchor /\ q.version = req[c].version BY <1>0 DEF Request
  <2>3. req[c].version \in Versions BY <1>0, <1>2 DEF GoodCall, IntentSubtract
  <2>4. "intent_insert" \in Steps /\ GoodCall("intent_insert", q, actions, granter)
    BY <2>2, <2>3 DEF Steps, GoodCall, Holding
  <2> QED BY <1>2, <2>1, <2>4, Reads DEF IntentSubtract
<1>3. ASSUME NEW a \in Actions, NEW key \in Keys, NEW permitted \in BOOLEAN,
             IntentInsert(c, a, key, permitted)
      PROVE  IInv'
  <2>1. req[c].version \in Versions /\ req[c].version \in 0 .. MaxVersion /\ req[c].who \in Anchors
    BY <1>0, <1>3 DEF GoodCall, IntentInsert, Request
  <2>2. PICK status \in {"denied", "approval_requested", "intent"}, required \in BOOLEAN :
          actions' = [actions EXCEPT ![a] =
              [status |-> status, required |-> required, version |-> req[c].version,
               anchor |-> req[c].who, key |-> key, created |-> clock]]
    <3> DEFINE required == permitted /\ manifests[req[c].version].approval
               status == CASE ~ permitted -> "denied"
                           [] permitted /\ required -> "approval_requested"
                           [] OTHER -> "intent"
    <3>1. required \in BOOLEAN BY <1>0 DEF Manifest
    <3>2. status \in {"denied", "approval_requested", "intent"} OBVIOUS
    <3>3. actions' = [actions EXCEPT ![a] =
              [status |-> status, required |-> required, version |-> req[c].version,
               anchor |-> req[c].who, key |-> key, created |-> clock]]
      BY <1>3 DEF IntentInsert
    <3> HIDE DEF required, status
    <3> QED BY <3>1, <3>2, <3>3
  <2> DEFINE row == [status |-> status, required |-> required, version |-> req[c].version,
                     anchor |-> req[c].who, key |-> key, created |-> clock]
  <2>3. /\ row \in Action /\ row.status = status /\ row.version \in Versions
        /\ row.anchor \in Anchors
    BY <1>0, <2>1 DEF Action, Statuses, Pending
  <2>4. actions' = [actions EXCEPT ![a] = row] BY <2>2
  <2> HIDE DEF row
  <2>5. actions' \in [Actions -> Action] BY <1>0, <2>3, <2>4
  <2>6. UNCHANGED <<clock, manifests, ledger, leases>> /\ granter' = granter /\ Return(c)
        /\ actions[a].status = "none"
    BY <1>3 DEF IntentInsert
  <2>7. Forward BY <1>0, <2>4, <2>6 DEF Forward
  <2>8. GoodRow(row, granter[a]) BY <2>3 DEF GoodRow, Completions
  <2>9. \A b \in Actions : GoodRow(actions'[b], granter'[b])
    BY <1>0, <2>4, <2>6, <2>8 DEF IInv
  <2> QED BY <1>0, <2>5, <2>6, <2>7, <2>9, Updates
<1> QED BY <1>1, <1>2, <1>3 DEF Intent

\* A write of a status by id, to a row that is neither absent nor denied by policy.
LEMMA StatusWrite ==
    ASSUME IInv, NEW c \in Conns, NEW a \in Actions, NEW status \in Statuses \ {"none", "denied"},
           NEW by \in Approvers \cup {Nobody}, granter[a] \in Approvers => by \in Approvers,
           actions[a].status \notin {"none", "denied"},
           status = "approval_granted" => by \in Approvers,
           actions[a].required /\ status \in Completions \ {"action_denied"} => by \in Approvers,
           actions' = [actions EXCEPT ![a].status = status], granter' = [granter EXCEPT ![a] = by],
           UNCHANGED <<clock, manifests, ledger, leases>>, Return(c)
    PROVE  IInv'
<1>0. /\ actions \in [Actions -> Action] /\ granter \in [Actions -> Approvers \cup {Nobody}]
      /\ \A b \in Actions : GoodRow(actions[b], granter[b])
  BY DEF IInv, TypeOK
<1> DEFINE row == [actions[a] EXCEPT !.status = status]
<1>1. /\ row \in Action /\ row.status = status /\ row.required = actions[a].required
      /\ row.version = actions[a].version /\ row.anchor = actions[a].anchor
  BY <1>0 DEF Action
<1>2. actions' = [actions EXCEPT ![a] = row] BY <1>0
<1> HIDE DEF row
<1>3. actions' \in [Actions -> Action] /\ granter' \in [Actions -> Approvers \cup {Nobody}]
  BY <1>0, <1>1, <1>2
<1>4. GoodRow(row, by) BY <1>0, <1>1 DEF GoodRow
<1>5. \A b \in Actions : GoodRow(actions'[b], granter'[b]) BY <1>0, <1>2, <1>4
<1>6. Forward BY <1>0, <1>1, <1>2 DEF Forward
<1> QED BY <1>3, <1>5, <1>6, Updates

\* action_approve and action_resolve_timeout keep the invariant.
LEMMA DecisionsKeep ==
    ASSUME IInv, NEW c \in Conns, Decide(c)
    PROVE  IInv'
<1>0. /\ actions \in [Actions -> Action] /\ granter \in [Actions -> Approvers \cup {Nobody}]
      /\ req[c] \in Request /\ GoodCall(at[c], req[c], actions, granter)
      /\ at \in [Conns -> Steps]
  BY DEF IInv, TypeOK
<1>1. ASSUME NEW a \in Actions, NEW p \in Principals, ApproveRead(c, a, p) PROVE IInv'
  <2> DEFINE q == [NoRequest EXCEPT !.action = a, !.who = p]
  <2>1. q \in Request /\ q.action = a BY NothingRequested DEF Request, NoRequest
  <2>2. "approve_preflight" \in Steps /\ GoodCall("approve_preflight", q, actions, granter)
    BY <1>1, <2>1 DEF Steps, GoodCall, Holding, ApproveRead
  <2> QED BY <1>1, <2>1, <2>2, Begins DEF ApproveRead
<1>2. ASSUME ApprovePreflight(c) PROVE IInv'
  <2>1. at[c] = "approve_preflight" /\ req[c].who \in Approvers BY <1>2 DEF ApprovePreflight
  <2>2. "approve_commit" \in Steps /\ GoodCall("approve_commit", req[c], actions, granter)
    BY <1>0, <2>1 DEF Steps, GoodCall, Holding
  <2> QED BY <1>0, <1>2, <2>2, Reads DEF ApprovePreflight
<1>3. ASSUME NEW decision \in Decided, ApproveCommit(c, decision) PROVE IInv'
  <2> DEFINE a == req[c].action
             by == IF decision = "approval_granted" THEN req[c].who ELSE granter[a]
  <2>1. /\ at[c] = "approve_commit" /\ actions[a].status = "approval_requested"
        /\ actions' = [actions EXCEPT ![a].status = decision]
        /\ UNCHANGED <<clock, manifests, ledger, leases>> /\ Return(c)
    BY <1>3 DEF ApproveCommit
  <2>2. a \in Actions /\ req[c].who \in Approvers BY <1>0, <2>1 DEF GoodCall, Holding
  <2>3. granter' = [granter EXCEPT ![a] = by] BY <1>0, <1>3, <2>2 DEF ApproveCommit
  <2>4. /\ decision \in Statuses \ {"none", "denied"} /\ decision \notin Completions
    BY DEF Decided, Statuses, Completions
  <2>5. /\ by \in Approvers \cup {Nobody}
        /\ decision = "approval_granted" => by \in Approvers
        /\ granter[a] \in Approvers => by \in Approvers
    BY <1>0, <2>2
  <2> HIDE DEF by, a
  <2> QED BY <2>1, <2>2, <2>3, <2>4, <2>5, StatusWrite
<1>4. ASSUME NEW a \in Actions, NEW timeout \in Times, TimeoutRead(c, a, timeout) PROVE IInv'
  <2> DEFINE q == [NoRequest EXCEPT !.action = a]
  <2>1. q \in Request /\ q.action = a BY NothingRequested DEF Request, NoRequest
  <2>2. "timeout_write" \in Steps /\ GoodCall("timeout_write", q, actions, granter)
    BY <1>4, <2>1 DEF Steps, GoodCall, Holding, TimeoutRead
  <2> QED BY <1>4, <2>1, <2>2, Begins DEF TimeoutRead
<1>5. ASSUME TimeoutWrite(c) PROVE IInv'
  <2> DEFINE a == req[c].action
  <2>1. /\ at[c] = "timeout_write" /\ granter' = granter
        /\ actions' = [actions EXCEPT ![a].status = "approval_denied"]
        /\ UNCHANGED <<clock, manifests, ledger, leases>> /\ Return(c)
    BY <1>5 DEF TimeoutWrite
  <2>2. a \in Actions /\ actions[a].status \notin {"none", "denied"}
    BY <1>0, <2>1 DEF GoodCall, Holding
  <2>3. "approval_denied" \in Statuses \ {"none", "denied"} /\ "approval_denied" \notin Completions
    BY DEF Decided, Statuses, Completions
  <2>4. granter' = [granter EXCEPT ![a] = granter[a]] /\ granter[a] \in Approvers \cup {Nobody}
    BY <1>0, <2>1, <2>2
  <2> HIDE DEF a
  <2> QED BY <2>1, <2>2, <2>3, <2>4, StatusWrite
<1> QED BY <1>1, <1>2, <1>3, <1>4, <1>5 DEF Decide

\* The transaction of action_lease_acquire releases the expired leases of its key, and
\* finds none that still runs: the new lease is the only one held.
LEMMA LeaseStaysExclusive ==
    ASSUME IInv, NEW c \in Conns, NEW l \in Leases, NEW holder \in Holders, NEW ttl \in Ttls,
           LeaseCommit(c, l, holder, ttl)
    PROVE  IInv'
<1> DEFINE a == req[c].action
           key == actions[a].key
           new == [state |-> "held", action |-> a, key |-> key,
                   holder |-> holder, expires |-> Plus(clock, ttl)]
<1>0. /\ actions \in [Actions -> Action] /\ leases \in [Leases -> Lease] /\ clock \in Times
      /\ at[c] = "lease_commit" /\ GoodCall(at[c], req[c], actions, granter)
  BY DEF IInv, TypeOK, LeaseCommit
<1>1. a \in Actions BY <1>0 DEF GoodCall, Holding
<1>2. Plus(clock, ttl) \in Int
  BY <1>0, AuthorityAssumption DEF Plus, Times
<1>3. new \in Lease BY <1>0, <1>1, <1>2 DEF Lease, Action
<1>4. /\ Free(key)
      /\ leases' = [k \in Leases |->
             IF k = l THEN new
             ELSE IF k \in Expired(key) THEN [leases[k] EXCEPT !.state = "released"]
             ELSE leases[k]]
      /\ UNCHANGED <<clock, manifests, ledger, actions, granter>>
      /\ UNCHANGED <<actions, granter>> /\ Return(c)
  BY DEF LeaseCommit
<1>5. new.state = "held" /\ new.key = key OBVIOUS
<1> HIDE DEF new, key, a
<1>6. ASSUME NEW k \in Leases
      PROVE  /\ leases[k] \in Lease /\ [leases[k] EXCEPT !.state = "released"] \in Lease
             /\ [leases[k] EXCEPT !.state = "released"].state = "released"
  BY <1>0 DEF Lease
<1>7. leases' \in [Leases -> Lease] BY <1>3, <1>4, <1>6
<1>8. ASSUME NEW k \in Leases, k # l, leases'[k].state = "held"
      PROVE  leases'[k] = leases[k] /\ leases[k].key # key
  <2>1. k \notin Expired(key) BY <1>4, <1>6, <1>8
  <2>2. leases'[k] = leases[k] /\ leases[k].state = "held" BY <1>4, <1>8, <2>1
  <2>3. leases[k].expires \in Int BY <1>6 DEF Lease
  <2>4. clock \in Int BY <1>0, AuthorityAssumption DEF Times
  <2> QED BY <1>4, <2>1, <2>2, <2>3, <2>4 DEF Expired, Free
<1>9. LeaseExclusive'
  <2>1. SUFFICES ASSUME NEW j \in Leases, NEW k \in Leases, j # k,
                        leases'[j].state = "held", leases'[k].state = "held"
                 PROVE  leases'[j].key # leases'[k].key
    BY DEF LeaseExclusive
  <2>2. leases'[l].key = key BY <1>4, <1>5
  <2>3. CASE j = l BY <1>8, <2>1, <2>2, <2>3
  <2>4. CASE k = l BY <1>8, <2>1, <2>2, <2>4
  <2>5. CASE j # l /\ k # l
    <3>1. leases'[j] = leases[j] /\ leases'[k] = leases[k] BY <1>8, <2>1, <2>5
    <3> QED BY <2>1, <3>1 DEF IInv, LeaseExclusive
  <2> QED BY <2>3, <2>4, <2>5
<1>10. clock' \in Times /\ manifests' \in [Versions -> Manifest] /\ ledger' \subseteq Revocation
  BY <1>4 DEF IInv, TypeOK
<1> QED BY <1>4, <1>7, <1>9, <1>10, Writes

\* action_complete and action_lease_acquire keep the invariant.
LEMMA ExecutionsKeep ==
    ASSUME IInv, NEW c \in Conns, Execute(c)
    PROVE  IInv'
<1>0. /\ actions \in [Actions -> Action] /\ granter \in [Actions -> Approvers \cup {Nobody}]
      /\ req[c] \in Request /\ GoodCall(at[c], req[c], actions, granter)
      /\ at \in [Conns -> Steps] /\ \A a \in Actions : GoodRow(actions[a], granter[a])
  BY DEF IInv, TypeOK
<1>1. ASSUME NEW a \in Actions, NEW outcome \in Outcomes, CompleteRead(c, a, outcome) PROVE IInv'
  <2> DEFINE q == [NoRequest EXCEPT !.action = a, !.outcome = outcome]
  <2>1. outcome \in Completions BY AuthorityAssumption
  <2>2. q \in Request /\ q.action = a /\ q.outcome = outcome
    BY <2>1, NothingRequested DEF Request, NoRequest, Statuses
  <2>3. /\ actions[a].status \notin {"none", "denied"}
        /\ actions[a].required /\ outcome # "action_denied" => actions[a].status = "approval_granted"
    BY <1>1 DEF CompleteRead, Completable
  <2>4. actions[a].required /\ outcome # "action_denied" => granter[a] \in Approvers
    BY <1>0, <2>3 DEF GoodRow
  <2> HIDE DEF q
  <2>5. "complete_write" \in Steps /\ GoodCall("complete_write", q, actions, granter)
    BY <2>1, <2>2, <2>3, <2>4 DEF Steps, GoodCall, Holding
  <2>6. Begin(c, "complete", "complete_write", q) BY <1>1 DEF CompleteRead, q
  <2> QED BY <2>2, <2>5, <2>6, Begins
<1>2. ASSUME CompleteWrite(c) PROVE IInv'
  <2> DEFINE a == req[c].action
             status == req[c].outcome
  <2>1. /\ at[c] = "complete_write" /\ granter' = granter
        /\ actions' = [actions EXCEPT ![a].status = status]
        /\ UNCHANGED <<clock, manifests, ledger, leases>> /\ Return(c)
    BY <1>2 DEF CompleteWrite
  <2>2. /\ a \in Actions /\ actions[a].status \notin {"none", "denied"} /\ status \in Completions
        /\ actions[a].required /\ status # "action_denied" => granter[a] \in Approvers
    BY <1>0, <2>1 DEF GoodCall, Holding
  <2>3. status \in Statuses \ {"none", "denied"} /\ status # "approval_granted"
    BY <2>2 DEF Statuses, Completions
  <2>4. granter' = [granter EXCEPT ![a] = granter[a]] /\ granter[a] \in Approvers \cup {Nobody}
    BY <1>0, <2>1, <2>2
  <2> HIDE DEF a, status
  <2> QED BY <2>1, <2>2, <2>3, <2>4, StatusWrite
<1>3. ASSUME NEW a \in Actions, LeaseRead(c, a) PROVE IInv'
  <2> DEFINE q == [NoRequest EXCEPT !.action = a]
  <2>1. q \in Request /\ q.action = a BY NothingRequested DEF Request, NoRequest
  <2>2. "lease_preflight" \in Steps /\ GoodCall("lease_preflight", q, actions, granter)
    BY <1>3, <2>1 DEF Steps, GoodCall, Holding, LeaseRead, Leasable
  <2> QED BY <1>3, <2>1, <2>2, Begins DEF LeaseRead
<1>4. ASSUME LeasePreflight(c) PROVE IInv'
  <2>1. at[c] = "lease_preflight" BY <1>4 DEF LeasePreflight
  <2>2. "lease_commit" \in Steps /\ GoodCall("lease_commit", req[c], actions, granter)
    BY <1>0, <2>1 DEF Steps, GoodCall, Holding
  <2> QED BY <1>0, <1>4, <2>2, Reads DEF LeasePreflight
<1> QED BY <1>1, <1>2, <1>3, <1>4, LeaseStaysExclusive DEF Execute

\* action_lease_release keeps the invariant.
LEMMA ReleasesKeep ==
    ASSUME IInv, NEW l \in Leases, NEW holder \in Holders, LeaseRelease(l, holder)
    PROVE  IInv'
<1>1. leases \in [Leases -> Lease] BY DEF IInv, TypeOK
<1> DEFINE new == [leases[l] EXCEPT !.state = "released"]
<1>2. new \in Lease /\ new.state = "released" BY <1>1 DEF Lease
<1>3. leases' = [leases EXCEPT ![l] = new] BY <1>1 DEF LeaseRelease
<1> HIDE DEF new
<1>4. leases' \in [Leases -> Lease] BY <1>1, <1>2, <1>3
<1>5. LeaseExclusive' BY <1>1, <1>2, <1>3 DEF IInv, LeaseExclusive
<1>6. /\ UNCHANGED <<clock, manifests, ledger, actions, granter, at, req>>
      /\ UNCHANGED <<actions, granter>> /\ UNCHANGED <<at, req>>
  BY DEF LeaseRelease
<1> QED BY <1>4, <1>5, <1>6, Writes DEF IInv, TypeOK

-----------------------------------------------------------------------------
\* The strengthened invariant holds in every reachable state of the authority plane.
THEOREM Inductive == Spec => []IInv
<1>1. Init => IInv
  <2> SUFFICES ASSUME Init PROVE IInv OBVIOUS
  <2>1. NoManifest \in Manifest
    BY AuthorityAssumption DEF NoManifest, Manifest, Never, Times
  <2>2. NoRow \in Action
    BY AuthorityAssumption DEF NoRow, Action, Statuses, Times
  <2>3. NoLease \in Lease BY DEF NoLease, Lease
  <2>4. 0 \in Times /\ "idle" \in Steps BY AuthorityAssumption DEF Times, Steps
  <2>5. TypeOK BY <2>1, <2>2, <2>3, <2>4, NothingRequested DEF Init, TypeOK
  <2>6. LeaseExclusive BY DEF Init, LeaseExclusive, NoLease
  <2>7. GoodRow(NoRow, Nobody) BY DEF GoodRow, NoRow, Completions
  <2>8. \A a \in Actions : GoodRow(actions[a], granter[a]) BY <2>7 DEF Init
  <2>9. GoodCall("idle", NoRequest, actions, granter) BY DEF GoodCall, Holding
  <2>10. \A c \in Conns : GoodCall(at[c], req[c], actions, granter) BY <2>9 DEF Init
  <2> QED BY <2>5, <2>6, <2>8, <2>10 DEF IInv
<1>2. IInv /\ [Next]_vars => IInv'
  <2> SUFFICES ASSUME IInv, [Next]_vars PROVE IInv' OBVIOUS
  <2>1. CASE Tick
    <3>1. /\ UNCHANGED <<manifests, ledger, actions, leases, granter, at, req>>
          /\ UNCHANGED <<actions, granter>> /\ UNCHANGED <<at, req>> /\ clock' \in Times
      BY <2>1 DEF Tick, tables
    <3>2. LeaseExclusive' BY <3>1 DEF IInv, LeaseExclusive
    <3> QED BY <3>1, <3>2, Writes DEF IInv, TypeOK
  <2>2. ASSUME NEW p \in Principals, NEW s \in Scopes, Reinstate(p, s) PROVE IInv'
    BY <2>2, RevocationsKeep
  <2>3. ASSUME NEW v \in Versions, AuthorityRevoke(v) PROVE IInv' BY <2>3, ManifestsKeep
  <2>4. ASSUME NEW l \in Leases, NEW h \in Holders, LeaseRelease(l, h) PROVE IInv'
    BY <2>4, ReleasesKeep
  <2>5. ASSUME NEW c \in Conns, Authority(c) PROVE IInv'
    <3>1. CASE RevokeStamp(c)
      <4>1. Agent \in Principals /\ "here" \in Scopes BY DEF Principals, Scopes
      <4> QED BY <3>1, <4>1, RevocationsKeep
    <3>2. CASE \E p \in Principals, s \in Scopes : RevokeInsert(c, p, s)
      BY <3>2, RevocationsKeep
    <3>3. CASE \E v \in Versions : SetRead(c, v) BY <3>3, ManifestsKeep
    <3>4. ASSUME NEW approval \in BOOLEAN, NEW expires \in 0 .. Never,
                 SetInsert(c, approval, expires)
          PROVE  IInv'
      <4>1. req[c].version \in Versions BY <3>4 DEF SetInsert
      <4> QED BY <3>4, <4>1, ManifestsKeep
    <3> QED BY <2>5, <3>1, <3>2, <3>3, <3>4 DEF Authority
  <2>6. ASSUME NEW c \in Conns, Fail(c) PROVE IInv'
    <3>1. "idle" \in Steps /\ GoodCall("idle", NoRequest, actions, granter)
      BY DEF Steps, GoodCall, Holding
    <3> QED BY <2>6, <3>1, Reads, NothingRequested DEF Fail, Return
  <2>7. CASE UNCHANGED vars
    <3>1. /\ UNCHANGED <<clock, manifests, ledger, leases>>
          /\ UNCHANGED <<actions, granter>> /\ UNCHANGED <<at, req>>
      BY <2>7 DEF vars
    <3>2. LeaseExclusive' BY <3>1 DEF IInv, LeaseExclusive
    <3> QED BY <3>1, <3>2, Writes DEF IInv, TypeOK
  <2> QED BY <2>1, <2>2, <2>3, <2>4, <2>5, <2>6, <2>7, IntentsKeep, DecisionsKeep, ExecutionsKeep
          DEF Next
<1> QED BY <1>1, <1>2, PTL DEF Spec

\* The tables and the requests of every reachable state are well typed.
THEOREM TypeCorrect == Spec => []TypeOK
<1>1. IInv => TypeOK BY DEF IInv
<1> QED BY <1>1, Inductive, PTL

\* action_lease_acquire: at most one lease of a key is unreleased, however many requests
\* race for it and whatever the clock does.
THEOREM LeasesExclude == Spec => []LeaseExclusive
<1>1. IInv => LeaseExclusive BY DEF IInv
<1> QED BY <1>1, Inductive, PTL

\* action_complete: no action that requires approval is executed, failed or cancelled
\* unless an approver granted it.
THEOREM ExecutionsGranted == Spec => []ExecutionWasGranted
<1>1. IInv => ExecutionWasGranted BY DEF IInv, ExecutionWasGranted, GoodRow
<1> QED BY <1>1, Inductive, PTL

-----------------------------------------------------------------------------
(* What single steps do.                                                   *)

\* Only action_approve records a granter, and only action_lease_acquire makes a lease.
LEMMA WhoWrites ==
    ASSUME IInv, [Next]_vars
    PROVE  /\ \/ granter' = granter
              \/ \E c \in Conns, decision \in Decided : ApproveCommit(c, decision)
           /\ \/ \A l \in Leases : leases'[l].action = leases[l].action
                                   /\ (leases[l].state = "none" => leases'[l].state = "none")
              \/ \E c \in Conns, l \in Leases, h \in Holders, ttl \in Ttls : LeaseCommit(c, l, h, ttl)
<1>0. leases \in [Leases -> Lease] BY DEF IInv, TypeOK
<1>1. ASSUME NEW l \in Leases, NEW h \in Holders, LeaseRelease(l, h)
      PROVE  /\ granter' = granter
             /\ \A k \in Leases : leases'[k].action = leases[k].action
                                  /\ (leases[k].state = "none" => leases'[k].state = "none")
  BY <1>0, <1>1 DEF LeaseRelease, Lease
<1>2. ASSUME NEW c \in Conns, Authority(c) \/ Intent(c) \/ Fail(c)
      PROVE  granter' = granter /\ leases' = leases
  BY <1>2 DEF Authority, Intent, Fail, RevokeStamp, RevokeInsert, SetRead, SetInsert,
              IntentSelect, IntentSubtract, IntentInsert, Begin, tables
<1>3. ASSUME NEW c \in Conns, Decide(c)
      PROVE  /\ leases' = leases
             /\ granter' = granter \/ \E decision \in Decided : ApproveCommit(c, decision)
  BY <1>3 DEF Decide, ApproveRead, ApprovePreflight, ApproveCommit, TimeoutRead, TimeoutWrite,
              Begin, tables
<1>4. ASSUME NEW c \in Conns, Execute(c)
      PROVE  /\ granter' = granter
             /\ \/ leases' = leases
                \/ \E l \in Leases, h \in Holders, ttl \in Ttls : LeaseCommit(c, l, h, ttl)
  BY <1>4 DEF Execute, CompleteRead, CompleteWrite, LeaseRead, LeasePreflight, LeaseCommit,
              Begin, tables
<1>5. CASE Tick \/ UNCHANGED vars BY <1>5 DEF Tick, tables, vars
<1>6. CASE (\E p \in Principals, s \in Scopes : Reinstate(p, s))
           \/ \E v \in Versions : AuthorityRevoke(v)
  BY <1>6 DEF Reinstate, AuthorityRevoke
<1> QED BY <1>1, <1>2, <1>3, <1>4, <1>5, <1>6 DEF Next

\* What the two transactions look up in SQL implies what subtract_revoked_principals computes.
LEMMA SqlAgrees ==
    ASSUME NEW a \in Actions, NEW principals, NEW anchor \in Anchors,
           actions[a].anchor = anchor, {Agent, anchor} \subseteq principals,
           StillInForce(actions[a].version, principals), clock \in Times,
           manifests \in [Versions -> Manifest], actions[a].version \in Versions
    PROVE  Standing(a) /\ \A p \in principals : p \notin Dropped(actions[a].version)
<1> DEFINE v == actions[a].version
<1>1. \A p \in principals : p \notin Dropped(v) BY DEF StillInForce, Dropped
<1>2. manifests[v].expires \in Int /\ clock \in Int
  BY AuthorityAssumption DEF Manifest, Times, Never
<1>3. clock < manifests[v].expires /\ manifests[v].state = "current"
  BY <1>2 DEF StillInForce
<1> QED BY <1>1, <1>3 DEF Standing, Admits

\* action_approve, action_lease_acquire: a grant and a lease are committed only while the
\* pinned manifest is in force and no principal they rest on is revoked.
THEOREM AuthorityHolds == Spec => AuthorityHeldAtCommit
<1> DEFINE Step ==
        /\ \A a \in Actions : granter'[a] # granter[a] =>
               Standing(a) /\ granter'[a] \notin Dropped(actions[a].version)
        /\ \A l \in Leases : leases[l].state = "none" /\ leases'[l].state = "held" =>
               Standing(leases'[l].action)
<1>1. IInv /\ [Next]_vars => [Step]_vars
  <2> SUFFICES ASSUME IInv, [Next]_vars PROVE Step OBVIOUS
  <2>0. /\ granter \in [Actions -> Approvers \cup {Nobody}] /\ leases \in [Leases -> Lease]
        /\ manifests \in [Versions -> Manifest] /\ clock \in Times
        /\ \A a \in Actions : GoodRow(actions[a], granter[a])
        /\ \A c \in Conns : GoodCall(at[c], req[c], actions, granter)
    BY DEF IInv, TypeOK
  <2>1. ASSUME NEW a \in Actions, granter'[a] # granter[a]
        PROVE  Standing(a) /\ granter'[a] \notin Dropped(actions[a].version)
    <3>1. PICK c \in Conns, decision \in Decided : ApproveCommit(c, decision)
      BY <2>1, WhoWrites
    <3>2. req[c].action \in Actions BY <2>0, <3>1 DEF ApproveCommit, GoodCall, Holding
    <3>3. a = req[c].action /\ granter'[a] = req[c].who
      BY <2>0, <2>1, <3>1, <3>2 DEF ApproveCommit
    <3>4. /\ actions[a].status = "approval_requested"
          /\ StillInForce(actions[a].version, {Agent, req[c].who, actions[a].anchor})
      BY <3>1, <3>3 DEF ApproveCommit
    <3>5. actions[a].version \in Versions /\ actions[a].anchor \in Anchors
      BY <2>0, <3>4 DEF GoodRow
    <3> QED BY <2>0, <3>3, <3>4, <3>5, SqlAgrees
  <2>2. ASSUME NEW l \in Leases, leases[l].state = "none", leases'[l].state = "held"
        PROVE  Standing(leases'[l].action)
    <3>1. PICK c \in Conns, k \in Leases, h \in Holders, ttl \in Ttls : LeaseCommit(c, k, h, ttl)
      BY <2>2, WhoWrites
    <3> DEFINE a == req[c].action
    <3>2. a \in Actions /\ actions[a].status # "none"
      BY <2>0, <3>1 DEF LeaseCommit, GoodCall, Holding
    <3>3. l \notin Expired(actions[a].key) BY <2>2 DEF Expired
    <3>4. l = k /\ leases'[l].action = a BY <2>2, <3>1, <3>3 DEF LeaseCommit
    <3>5. StillInForce(actions[a].version, {Agent, actions[a].anchor}) BY <3>1 DEF LeaseCommit
    <3>6. actions[a].version \in Versions /\ actions[a].anchor \in Anchors
      BY <2>0, <3>2 DEF GoodRow
    <3> QED BY <2>0, <3>2, <3>4, <3>5, <3>6, SqlAgrees
  <2> QED BY <2>1, <2>2
<1> QED BY <1>1, Inductive, PTL DEF Spec, AuthorityHeldAtCommit

\* action_intent: a receipt denied by policy never changes and is never leased.
THEOREM PolicyDenialsFinal == Spec => PolicyDenialIsFinal
<1> DEFINE Step ==
        \A a \in Actions : actions[a].status = "denied" =>
            /\ actions'[a] = actions[a]
            /\ \A l \in Leases : leases[l].state = "none" /\ leases'[l].state = "held" =>
                   leases'[l].action # a
<1>1. IInv /\ [Next]_vars => [Step]_vars
  <2> SUFFICES ASSUME IInv, [Next]_vars, NEW a \in Actions, actions[a].status = "denied"
               PROVE  /\ actions'[a] = actions[a]
                      /\ \A l \in Leases : leases[l].state = "none" /\ leases'[l].state = "held" =>
                             leases'[l].action # a
    OBVIOUS
  <2>0. /\ actions \in [Actions -> Action]
        /\ \A c \in Conns : GoodCall(at[c], req[c], actions, granter)
    BY DEF IInv, TypeOK
  <2>1. actions'[a] = actions[a]
    <3>1. ASSUME NEW c \in Conns, Intent(c) PROVE actions'[a] = actions[a]
      BY <2>0, <3>1 DEF Intent, IntentSelect, IntentSubtract, IntentInsert, Begin, tables
    <3>2. ASSUME NEW c \in Conns, Decide(c) PROVE actions'[a] = actions[a]
      <4>1. CASE TimeoutWrite(c)
        <5>1. req[c].action # a BY <2>0, <4>1 DEF TimeoutWrite, GoodCall, Holding
        <5> QED BY <2>0, <4>1, <5>1 DEF TimeoutWrite
      <4>2. ASSUME NEW decision \in Decided, ApproveCommit(c, decision) PROVE actions'[a] = actions[a]
        <5>1. req[c].action # a BY <4>2 DEF ApproveCommit
        <5> QED BY <2>0, <4>2, <5>1 DEF ApproveCommit
      <4> QED BY <3>2, <4>1, <4>2
              DEF Decide, ApproveRead, ApprovePreflight, TimeoutRead, Begin, tables
    <3>3. ASSUME NEW c \in Conns, Execute(c) PROVE actions'[a] = actions[a]
      <4>1. CASE CompleteWrite(c)
        <5>1. req[c].action # a BY <2>0, <4>1 DEF CompleteWrite, GoodCall, Holding
        <5> QED BY <2>0, <4>1, <5>1 DEF CompleteWrite
      <4> QED BY <3>3, <4>1
              DEF Execute, CompleteRead, LeaseRead, LeasePreflight, LeaseCommit, Begin, tables
    <3>4. ASSUME NEW c \in Conns, Authority(c) \/ Fail(c) PROVE actions'[a] = actions[a]
      BY <3>4 DEF Authority, Fail, RevokeStamp, RevokeInsert, SetRead, SetInsert, Begin, tables
    <3>5. CASE Tick \/ UNCHANGED vars BY <3>5 DEF Tick, tables, vars
    <3> QED BY <3>1, <3>2, <3>3, <3>4, <3>5 DEF Next, Reinstate, AuthorityRevoke, LeaseRelease
  <2>2. ASSUME NEW l \in Leases, leases[l].state = "none", leases'[l].state = "held"
        PROVE  leases'[l].action # a
    <3>1. PICK c \in Conns, k \in Leases, h \in Holders, ttl \in Ttls : LeaseCommit(c, k, h, ttl)
      BY <2>2, WhoWrites
    <3>2. actions[req[c].action].status # "denied"
      BY <2>0, <3>1 DEF LeaseCommit, GoodCall, Holding
    <3>3. l \notin Expired(actions[req[c].action].key) BY <2>2 DEF Expired
    <3>4. leases'[l].action = req[c].action BY <2>2, <3>1, <3>3 DEF LeaseCommit
    <3> QED BY <3>2, <3>4
  <2> QED BY <2>1, <2>2
<1> QED BY <1>1, Inductive, PTL DEF Spec, PolicyDenialIsFinal
=============================================================================
