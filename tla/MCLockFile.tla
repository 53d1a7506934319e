----------------------------- MODULE MCLockFile -----------------------------
(* Instances of LockFile for TLC. *)
EXTENDS LockFile

(* Signals arrive anywhere but between the end of a lockfile and its       *)
(* removal from the list.                                                  *)
OnlyEarly == EarlyWindows
=============================================================================
