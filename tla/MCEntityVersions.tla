-------------------------- MODULE MCEntityVersions --------------------------
(* Small instances of EntityVersions.                                      *)
EXTENDS EntityVersions, TLC

CONSTANTS b1, b2

Forward == {1}
Wandering == {-1, 1}
W(ws, text, status, from, to) ==
    [ws |-> ws, body |-> [text |-> text, folded |-> {}], status |-> status, from |-> from, to |-> to]

\* Two contents, with one bound or the other given.
Bounded == {W(0, b2, "active", 0, None), W(0, b1, "active", None, 3), W(0, b1, "active", 2, None)}
Plain == {W(0, b, "active", None, None) : b \in {b1, b2}}
Raced == Bounded \cup Plain
Mixed == {W(0, b1, "active", None, None), W(0, b2, "proposed", None, None)}
Retroactive == {W(0, b1, "active", 1, None), W(0, b2, "active", 0, 1), W(0, b1, "active", 0, 1)}
Shared == {W(ws, b1, "active", None, None) : ws \in {0, 1}}
Crossed == {W(0, b1, "active", None, None), W(1, b2, "active", None, None)}

Default == {None}
Rolling == {[keep |-> 0, cap |-> 0, tombs |-> TRUE], [keep |-> 1, cap |-> 2, tombs |-> TRUE]}
Emptying == {[keep |-> 0, cap |-> 0, tombs |-> TRUE]}
Nothing == {}
Symmetry == Permutations(Clients)

VARIABLE scenario

Racing == scenario = "racing" /\ UNCHANGED scenario
Repairing == scenario = "repairing" /\ UNCHANGED scenario

\* Two clients that write and supersede, beside a retention that compacts.
RacingStep(c) ==
    \/ Racing /\ Remember(c) /\ job'[c].write \in Bounded
    \/ Racing /\ (Repair(c) \/ Lookup(c) \/ Insert(c) \/ Update(c) \/ GiveUp(c))
    \/ Racing /\ Supersede(c)
    \/ Racing /\ (Close(c) \/ Deprecate(c))

\* Two clients that write, audit, refuse and confirm.
RepairingStep(c) ==
    \/ Repairing /\ Remember(c) /\ job'[c].write \in Plain
    \/ Repairing /\ (Repair(c) \/ ClearMark(c))
    \/ Repairing /\ (Lookup(c) \/ Insert(c) \/ Update(c) \/ GiveUp(c))
    \/ Repairing /\ SpanAudit(c)
    \/ Repairing /\ ReportRefusal(c)
    \/ Repairing /\ ReportSuccess(c)
    \/ Repairing /\ Unmark(c)

RacingInit == Init /\ scenario \in {"racing", "repairing"}
RacingNext ==
    \/ Tick /\ UNCHANGED scenario
    \/ \E c \in Clients : RacingStep(c) \/ RepairingStep(c)
    \/ \E p \in Policies : EnforceRetention(p) /\ UNCHANGED scenario
RacingSpec == RacingInit /\ [][RacingNext]_<<vars, scenario>>

\* Every operation of Ops at any time, for the claims that README.md refutes.
FreeSpec == Init /\ scenario = "free" /\ [][Next /\ UNCHANGED scenario]_<<vars, scenario>>
=============================================================================
