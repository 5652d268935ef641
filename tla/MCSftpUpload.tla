---------------------------- MODULE MCSftpUpload ----------------------------
(* Instances of SftpUpload for model checking.                             *)
EXTENDS SftpUpload

=============================================================================
