------------------------------- MODULE MCCrash -------------------------------
(* Instances of CrashRecovery for TLC. *)
EXTENDS CrashRecovery
=============================================================================
