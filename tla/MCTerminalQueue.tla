-------------------------- MODULE MCTerminalQueue --------------------------
(* Instances of TerminalQueue for model checking.                          *)
EXTENDS TerminalQueue, TLC

Symmetry == Permutations(Items) \cup Permutations(Terminals)

\* Do not keep, keep for a while, keep forever; and the limits with "none".
AnyKeepTime == {0, 1, -1}
AnyLimit == {-1, 1, 2}
=============================================================================
