------------------------------ MODULE Requests ------------------------------
(***************************************************************************)
(* Acts and updates, and the way from the GUI thread to TDLib, which       *)
(* handles what it is sent in that order and always late.                  *)
(***************************************************************************)
EXTENDS Acts

CONSTANT MaxRequests   \* bound: requests on their way

VARIABLE requests      \* what was sent to TDLib and TDLib has not handled

Quiet == queue = <<>> /\ requests = <<>>
=============================================================================
