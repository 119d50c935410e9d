--------------------------- MODULE MCRequestTable ---------------------------
(* RequestTable for TLC: three queries, one of a type nobody handles, of   *)
(* two threads.                                                            *)
EXTENDS RequestTable
=============================================================================
