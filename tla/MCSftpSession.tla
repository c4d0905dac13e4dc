--------------------------- MODULE MCSftpSession ---------------------------
(* Instances of SftpSession.                                               *)
EXTENDS SftpSession

CONSTANTS h1, none

OneHandle == {h1}
=============================================================================
