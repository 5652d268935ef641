--------------------------- MODULE MCSftpDownload ---------------------------
(* Instances of SftpDownload for model checking.                           *)
EXTENDS SftpDownload

=============================================================================
