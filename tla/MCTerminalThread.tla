-------------------------- MODULE MCTerminalThread --------------------------
(* Instances of TerminalThread for model checking.                         *)
EXTENDS TerminalThread
=============================================================================
