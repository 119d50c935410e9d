-------------------------- MODULE MCChatPositions --------------------------
(* ChatPositions for TLC: chats and folders are model values and strings.   *)
EXTENDS ChatPositions
=============================================================================
