------------------------- MODULE MCWriterDirectory --------------------------
(* Small instances of WriterDirectory.                                     *)
EXTENDS WriterDirectory, TLC

CONSTANTS c1, c2, x, y

TwoConns == {c1, c2}
OneAgent == {x}
TwoAgents == {x, y}
Single == {1}
Sizes == {1, 2}

Symmetry == Permutations(Conns) \cup Permutations(Agents)
=============================================================================
