---------------------------- MODULE TaskRegister ----------------------------
(***************************************************************************)
(* What the state of one task promises its clients: a chain of states that *)
(* only grows at its end, each of which is answered to one client as its   *)
(* own, under the sequence number it has in the chain.  The specification  *)
(* of a task is that of the states it has, except for the clients that     *)
(* were let through before it had any: each brings its own, once.          *)
(***************************************************************************)
EXTENDS Naturals, Sequences

VARIABLES
    chain,      \* the states accepted so far
    told,       \* the states returned to clients as complete
    early       \* the clients let through to build on a state to come

Init == chain = <<>> /\ told = {} /\ early = {}

Specified(state) == \E n \in DOMAIN chain : chain[n].spec = state.spec

Put(state) ==
    /\ state.sequence = Len(chain) + 1
    /\ \/ chain = <<>> /\ early' \subseteq early
       \/ Specified(state) /\ early' = early
       \/ \E client \in early : early' = early \ {client}
    /\ chain' = Append(chain, state)
    /\ UNCHANGED told

Tell(state) ==
    /\ state.sequence \in DOMAIN chain /\ chain[state.sequence] = state
    /\ \A other \in told : other.sequence # state.sequence
    /\ told' = told \cup {state}
    /\ UNCHANGED <<chain, early>>

Grown == \E state \in {chain'[n] : n \in DOMAIN chain'} : Put(state)
Told == \E state \in told' : Tell(state)

\* No client is let through early once there is a state; any may give up.
Turn ==
    /\ chain = <<>> \/ early' \subseteq early
    /\ UNCHANGED <<chain, told>>

Spec == Init /\ [][Grown \/ Told \/ Turn]_<<chain, told, early>>
=============================================================================
