------------------------------ MODULE Updates ------------------------------
(***************************************************************************)
(* The way from TDLib to the GUI thread: TelegramReceiver emits each       *)
(* object as a queued signal, so objects are handled one at a time, in     *)
(* TDLib's order, and always late.  The modules that model a component     *)
(* together with TDLib extend this one.                                    *)
(***************************************************************************)
EXTENDS Naturals, Sequences

CONSTANT MaxQueue   \* bound: objects on their way

VARIABLE queue      \* objects that TDLib has emitted and the program not handled

Post(event) ==
    /\ Len(queue) < MaxQueue
    /\ queue' = Append(queue, event)

Received(type) ==
    /\ queue # <<>>
    /\ Head(queue).type = type
    /\ queue' = Tail(queue)

OnTheirWay == {queue[i] : i \in DOMAIN queue}
=============================================================================
