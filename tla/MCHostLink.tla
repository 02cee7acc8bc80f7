----------------------------- MODULE MCHostLink -----------------------------
(* Small instances of HostLink for TLC. *)
EXTENDS HostLink
=============================================================================
