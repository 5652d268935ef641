--------------------------- MODULE MCSecureShell ---------------------------
(* Instances of SecureShell for model checking.                            *)
EXTENDS SecureShell
=============================================================================
