------------------------------ MODULE MCCalls ------------------------------
(* Calls for TLC: two calls, two things the user does, one message in each  *)
(* queue.                                                                    *)
EXTENDS Calls
=============================================================================
