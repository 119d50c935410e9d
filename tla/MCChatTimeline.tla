--------------------------- MODULE MCChatTimeline ---------------------------
(* ChatTimeline on small instances.                                         *)
EXTENDS ChatTimeline
=============================================================================
