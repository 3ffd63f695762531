------------------------------ MODULE MCBacklog ------------------------------
(* Instances of a session with clients waiting behind it, for TLC. *)
EXTENDS Backlog, MCControlSession
=============================================================================
