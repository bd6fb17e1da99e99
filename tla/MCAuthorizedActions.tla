------------------------ MODULE MCAuthorizedActions -------------------------
(***************************************************************************)
(* AuthorizedActions in two scenarios: one that decides, completes and     *)
(* leases on three connections, and one that revokes and reinstates while  *)
(* two connections approve and lease.                                      *)
(***************************************************************************)
EXTENDS AuthorizedActions, TLC

VARIABLE scenario

AllCalls == {"set", "authority_revoke", "revoke", "reinstate", "intent", "approve",
             "timeout", "complete", "lease", "release"}
Symmetry == Permutations(Conns) \cup Permutations(Actions) \cup Permutations(Leases)
            \cup Permutations(Holders) \cup Permutations(Approvers)

Deciding(c) ==
    \/ \E v \in Versions : SetRead(c, v)
    \/ \E approval \in BOOLEAN, expires \in 0 .. Never : SetInsert(c, approval, expires)
    \/ Intent(c) \/ Decide(c) \/ Execute(c) \/ Fail(c)

Busy == {c \in Conns : at[c] # "idle"}
Revoking(c) ==
    /\ Cardinality(Busy \cup {c}) <= 2
    /\ \/ Authority(c) \/ Intent(c)
       \/ \E a \in Actions, p \in Principals : ApproveRead(c, a, p)
       \/ ApprovePreflight(c)
       \/ \E decision \in Decided : ApproveCommit(c, decision)
       \/ \E a \in Actions : LeaseRead(c, a)
       \/ LeasePreflight(c)
       \/ /\ \A l \in Leases : leases[l] = NoLease
          /\ \E l \in Leases, holder \in Holders : LeaseCommit(c, l, holder, 1)
       \/ Fail(c)

MCInit == Init /\ scenario \in {"deciding", "revoking"}
MCNext ==
    /\ UNCHANGED scenario
    /\ \/ Tick
       \/ /\ scenario = "deciding"
          /\ \/ \E l \in Leases, holder \in Holders : LeaseRelease(l, holder)
             \/ \E c \in Conns : Deciding(c)
       \/ /\ scenario = "revoking"
          /\ \/ \E p \in Principals, s \in Scopes : Reinstate(p, s)
             \/ \E v \in Versions : AuthorityRevoke(v)
             \/ \E c \in Conns : Revoking(c)
MCSpec == MCInit /\ [][MCNext]_<<vars, scenario>>
=============================================================================
