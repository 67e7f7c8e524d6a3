---------------------------- MODULE MCSelfTests ----------------------------
(***************************************************************************)
(* SelfTests with the table of MCLifecycle.  The threads of Lifecycle are  *)
(* interchangeable; those of FipsModule are not, one of them is Main.      *)
(***************************************************************************)
EXTENDS SelfTests, MCLifecycle
=============================================================================
