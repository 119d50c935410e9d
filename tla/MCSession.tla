----------------------------- MODULE MCSession -----------------------------
(* Session for TLC: MCSession.cfg has one photo, one path besides the two   *)
(* defaults, two types of connection, and three acts.                       *)
EXTENDS Session
=============================================================================
