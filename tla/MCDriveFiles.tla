---------------------------- MODULE MCDriveFiles ----------------------------
(* DriveFiles on a drive of one stored file and one folder. *)
EXTENDS DriveFiles
=============================================================================
