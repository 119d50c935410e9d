---------------------------- MODULE RequestReply ----------------------------
(***************************************************************************)
(* What TelegramManager promises its callers: every query gets one reply,  *)
(* reported to the caller that sent it.  The promise is void once two      *)
(* threads have been in sendQuery at the same time, for nothing there is   *)
(* locked; from then on this module allows everything.  RequestTable       *)
(* implements it.                                                          *)
(***************************************************************************)
CONSTANTS
  Queries,  \* the queries, with their caller's context (MessageWithResponse)
  Silent    \* the ones whose type has no case in handleMessageWithResponse

VARIABLES
  submitted, \* queries handed to TelegramManager
  replies,   \* what was reported: to whom, about which query, and what
  void       \* the promise is void

vars == <<submitted, replies, void>>

\* A reply whose type nobody handles is deleted; an error is always reported.
Outcomes(q) == {"error", IF q \in Silent THEN "dropped" ELSE "got"}

Replied(q) == \E r \in replies : r.to = q

Init == submitted = {} /\ replies = {} /\ void = FALSE

Submit(q) ==
  /\ q \notin submitted
  /\ submitted' = submitted \cup {q}
  /\ UNCHANGED <<replies, void>>

Report(q) ==
  /\ q \in submitted /\ ~Replied(q)
  /\ \E o \in Outcomes(q) :
       replies' = replies \cup {[to |-> q, about |-> q, outcome |-> o]}
  /\ UNCHANGED <<submitted, void>>

BreakPromise == void' = TRUE

Next ==
  \/ \E q \in Queries : Submit(q) \/ Report(q)
  \/ BreakPromise

Spec == Init /\ [][Next]_vars /\ \A q \in Queries : WF_vars(~void /\ Report(q))
=============================================================================
