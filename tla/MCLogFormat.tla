----------------------------- MODULE MCLogFormat -----------------------------
(* Instances of LogFormat for TLC. *)
EXTENDS LogFormat
=============================================================================
