----------------------------- MODULE MCIntegrity ----------------------------
(***************************************************************************)
(* The records that must survive what happens to the store, one per        *)
(* behaviour: AuditJournal with one client that opens with keys and whose  *)
(* reads succeed, or with two clients that append to a store without a key *)
(* and whose reads may fail; SignedTransitions with two epochs, or with    *)
(* one and scores; RollbackRepair; and Erasure.                            *)
(***************************************************************************)
EXTENDS AuditJournal, TLC

CONSTANTS
    Nodes, Levels, Scores, Epochs, Seeds, NoSeed, MayReplace, MaxRecords, MaxWall,
    Repairers, Rows, rowA, rowB, rowX, NoRow, Graphs, InOrder, MaxRepairs, MaxUpsets,
    Facts, Values, Rejections, Whole, MaxCalls, MaxCopies

VARIABLES
    scenario,   \* the client with keys, NoKey, or the name of another part
    wall, seedOf, ledger, label, score, call,
    rows, plans, job, past, begun, upsets,
    vault, sidecar, copies, task, promised, calls

Forward == {0, 1}
Backward == {-1, 0, 1}
Symmetry == Permutations(Clients) \cup Permutations(Facts) \cup Permutations(Values)

\* rowX cites rowA, or rowA and rowB; rowB may cite rowA; rowA may have
\* replaced rowX.
To(targets) == [t \in Rows |-> IF t \in targets THEN 1 ELSE 0]
FewGraphs == {[links |-> (rowX :> To(p) @@ rowB :> To(q) @@ rowA :> To({})),
               by |-> (rowX :> r @@ rowA :> NoRow @@ rowB :> NoRow)] :
                   p \in {{rowA}, {rowA, rowB}}, q \in {{}, {rowA}}, r \in {rowA, NoRow}}

Transitions == INSTANCE SignedTransitions
                WITH Signers <- Clients, ClockSteps <- ClockSteps \ {0}, MaxTime <- MaxWall
Repair == INSTANCE RollbackRepair
Governance == INSTANCE Erasure WITH Callers <- Clients

ledgerVars == <<wall, seedOf, ledger, label, score, call>>
repairVars == <<rows, plans, job, past, begun, upsets>>
vaultVars == <<vault, sidecar, copies, task, promised, calls>>

MCInit ==
    /\ scenario \in Clients \cup {NoKey, "rotated", "scored", "repair", "erasure"}
    /\ Init /\ Transitions!Init /\ Governance!Init
    /\ Repair!Init
    /\ scenario # "repair" =>
            rows[rowX].links = To({rowA}) /\ rows[rowB].links = To({}) /\ rows[rowX].by = NoRow

MCNext ==
    /\ UNCHANGED scenario
    /\ \/ /\ scenario \in Clients \cup {NoKey}
          /\ Next
          /\ IF scenario \in Clients
             THEN ReadsSucceed /\ \A p \in Clients \ {scenario} : at'[p] = "closed"
             ELSE \A p \in Clients : mine'[p] = NoKey
          /\ UNCHANGED <<ledgerVars, repairVars, vaultVars>>
       \/ /\ scenario = "rotated"
          /\ Transitions!Next /\ \A p \in Clients : call'[p].step # "score"
          /\ UNCHANGED <<vars, repairVars, vaultVars>>
       \/ /\ scenario = "scored"
          /\ Transitions!Next /\ seedOf'[2] = NoSeed
          /\ UNCHANGED <<vars, repairVars, vaultVars>>
       \/ /\ scenario = "repair"
          /\ Repair!Next /\ UNCHANGED <<vars, ledgerVars, vaultVars>>
       \/ /\ scenario = "erasure"
          /\ Governance!Next /\ UNCHANGED <<vars, ledgerVars, repairVars>>

MCSpec == MCInit /\ [][MCNext]_<<scenario, vars, ledgerVars, repairVars, vaultVars>>

\* journal_with_conn: as FreshChainVerifies says, when one client writes
\* and its reads of the newest hash succeed.
FreshChainVerifiesAlone == scenario \in Clients => FreshChainVerifies

\* SignedTransitions!LedgerReplays: whatever calls race, fail or stop between
\* two statements, verify_transition_chain meets no divergence.
LedgerReplays == Transitions!LedgerReplays

\* SignedTransitions!LabelIsSigned: a poison label rests on a stored record
\* for this entity and this level, whichever of two racing calls wrote last.
LabelIsSigned == Transitions!LabelIsSigned

\* RollbackRepair!ReversalRestores: a reversal gives every row that nobody else
\* changed the status and the links it had before its repair.
ReversalRestores == Repair!ReversalRestores

\* RollbackRepair!FaultContained: from the end of a repair to its reversal no
\* untouched row is served that is faulty or cites a faulty one.
FaultContained == Repair!FaultContained

\* Erasure!ErasureHolds: a value once confirmed erased or rejected for good is
\* not served and does not pass the gate again, through races, held writes,
\* rollbacks and restores.
ErasureHolds == Governance!ErasureHolds
=============================================================================
