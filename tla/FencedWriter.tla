---------------------------- MODULE FencedWriter ----------------------------
(***************************************************************************)
(* What the writer directory promises: at any time either everyone may     *)
(* write, or nobody, or one agent that presents the current epoch; every   *)
(* change of that authority advances the epoch, and no write lands that    *)
(* the authority of the moment does not permit.                            *)
(***************************************************************************)
EXTENDS Integers

CONSTANTS Agents, NoAgent, Everyone, Nobody

VARIABLES
    holder,     \* Everyone, Nobody or the agent that holds the authority
    epoch,      \* the fencing epoch
    head        \* [agent, epoch]: who wrote last and with which epoch

vars == <<holder, epoch, head>>

Init == /\ holder = Everyone
        /\ epoch = 0
        /\ head = [agent |-> NoAgent, epoch |-> -1]

Fence == holder = Everyone /\ holder' = Nobody

Retarget == holder = Nobody /\ holder' = Nobody

Activate == holder = Nobody /\ holder' \in Agents

Write == \/ holder = Everyone
         \/ /\ holder \in Agents
            /\ head'.agent \in {holder, NoAgent}
            /\ head'.epoch = epoch

Next == \/ (Fence \/ Retarget \/ Activate) /\ epoch' = epoch + 1 /\ UNCHANGED head
        \/ Write /\ UNCHANGED <<holder, epoch>>

Spec == Init /\ [][Next]_vars
=============================================================================
