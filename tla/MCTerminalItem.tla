--------------------------- MODULE MCTerminalItem ---------------------------
(* Instances of TerminalItem for model checking.                           *)
EXTENDS TerminalItem, TLC

Symmetry == Permutations(Items)

Answering == {"answer"}
Cancelling == {"answer", "cancel"}
Everything == {"pause", "resume", "answer", "cancel", "close"}
AllUsers == {Answering, Cancelling, Everything}
=============================================================================
