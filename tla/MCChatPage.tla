----------------------------- MODULE MCChatPage -----------------------------
(* ChatPage for TLC: MCChatPage.cfg has two messages, three notifications    *)
(* of which TDLib tells one at a time, and three acts.                       *)
EXTENDS ChatPage
=============================================================================
