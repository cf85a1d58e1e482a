---------------------------- MODULE MCCustomTypes ----------------------------
(***************************************************************************)
(* Three callers, one name they compete for, two complete entries and one  *)
(* that lacks a file.                                                      *)
(***************************************************************************)
EXTENDS CustomTypes

CONSTANTS p1, p2, p3, user, accountV1, accountV2, noFile

MCProc == {p1, p2, p3}
MCName == {user}
MCEntry == {accountV1, accountV2, noFile}
MCComplete == {accountV1, accountV2}
=============================================================================
