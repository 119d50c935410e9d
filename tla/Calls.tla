------------------------------- MODULE Calls -------------------------------
(***************************************************************************)
(* Voice calls.  Three parties: TDLib has the calls; class Calls of the    *)
(* application follows its updates, runs the audio (a tgcalls instance) and *)
(* remembers one call; the voicecall plugin, another process, shows one     *)
(* call to the user and sends back what the user does.  The application and *)
(* the plugin talk by D-Bus messages that carry no call id, in one queue    *)
(* per direction, so each side speaks of "the call" and hopes that the      *)
(* other side means the same one.                                           *)
(***************************************************************************)
EXTENDS Naturals, Sequences, FiniteSets

CONSTANTS
  MaxCalls,    \* bound: calls are 1 .. MaxCalls, in the order they start
  MaxMessages, \* bound: length of each queue
  MaxActs      \* bound: number of things the user does

ASSUME BoundsAssumption ==
  MaxCalls \in Nat \ {0} /\ MaxMessages \in Nat \ {0} /\ MaxActs \in Nat

VARIABLES
  \* class Calls
  state,       \* _state
  callId,      \* _callId, which the constructor leaves uninitialised
  instance,    \* _instance: the call whose audio runs, or NoCall
  loudspeaker, \* PulseaudioHelper::_isLoudspeaker
  \* YottagramVoiceCallProvider: voiceCall and its handler's status
  shown,       \* the call whose handler the user sees, or NoCall
  status,      \* status of that handler
  lost,        \* calls whose handlers newCall has overwritten
  \* the queues
  updates,     \* updateCall, from TDLib to Calls
  toPlugin,    \* D-Bus calls of DBusHelper
  toApp,       \* D-Bus signals of the provider
  requests,    \* queries of Calls that TDLib has not handled
  \* TDLib (external)
  calls,       \* the state of every call
  acts,        \* how much the user has done
  \* history, read by the properties only
  garbage,     \* what callId was at the start
  disturbed    \* a call began before the last one was over for everybody

appVars == <<state, callId, instance, loudspeaker>>
pluginVars == <<shown, status, lost>>
vars == <<appVars, pluginVars, updates, toPlugin, toApp, requests, calls, acts, garbage, disturbed>>

Ids == 1 .. MaxCalls
NoCall == 0

States == {"Pending", "ExchangingKeys", "Ready", "HangingUp", "Discarded", "Error"}
Ended == {"Discarded", "Error"}
Alive == {id \in Ids : calls[id] \notin Ended \cup {"none"}}

\* "meant" is the call the user or the code had in mind; the code does not send it.
Request == [type : {"discard", "accept"}, id : Ids \cup {NoCall}, meant : Ids]
Update == [id : Ids, state : States]
PluginMessage == [type : {"newCall", "callReady", "discardCall"}, id : Ids]
AppMessage == [type : {"discard", "accept"}, meant : Ids]
                \cup [type : {"changeSpeakerMode"}, on : BOOLEAN]

Quiet == updates = <<>> /\ toPlugin = <<>> /\ toApp = <<>> /\ requests = {}

Room(queue) == Len(queue) < MaxMessages
Tell(type, id) == /\ Room(toPlugin)
                  /\ toPlugin' = Append(toPlugin, [type |-> type, id |-> id])
-----------------------------------------------------------------------------
(* TDLib (external).                                                        *)

\* TDLib reports a call that rings at the other side, "Ringing", as still pending.
MoveCall(id, s) ==
  /\ Room(updates)
  /\ calls' = [calls EXCEPT ![id] = s]
  /\ updates' = Append(updates, [id |-> id, state |-> IF s = "Ringing" THEN "Pending" ELSE s])

\* A call starts, from this user (createCall) or from another one.
StartCall(id) ==
  /\ calls[id] = "none" /\ \A earlier \in 1 .. id - 1 : calls[earlier] # "none"
  /\ MoveCall(id, "Pending")
  /\ disturbed' = (disturbed \/ Alive # {} \/ ~Quiet)
  /\ UNCHANGED <<appVars, pluginVars, toPlugin, toApp, requests, acts, garbage>>

\* The call goes on, or ends, without this user.
Progress(id, s) ==
  /\ \/ calls[id] = "Pending" /\ s = "Ringing"
     \/ calls[id] \in {"Pending", "Ringing"} /\ s = "ExchangingKeys"
     \/ calls[id] = "ExchangingKeys" /\ s = "Ready"
     \/ id \in Alive /\ s \in Ended
  /\ MoveCall(id, s)
  /\ UNCHANGED <<appVars, pluginVars, toPlugin, toApp, requests, acts, garbage, disturbed>>

HandleDiscardCall(r) ==
  /\ r.type = "discard"
  /\ requests' = requests \ {r}
  /\ IF r.id \in Alive /\ calls[r.id] # "HangingUp" THEN MoveCall(r.id, "HangingUp")
     ELSE UNCHANGED <<calls, updates>>
  /\ UNCHANGED <<appVars, pluginVars, toPlugin, toApp, acts, garbage, disturbed>>

HandleAcceptCall(r) ==
  /\ r.type = "accept"
  /\ requests' = requests \ {r}
  /\ IF r.id \in Alive /\ calls[r.id] \in {"Pending", "Ringing"} THEN MoveCall(r.id, "ExchangingKeys")
     ELSE UNCHANGED <<calls, updates>>
  /\ UNCHANGED <<appVars, pluginVars, toPlugin, toApp, acts, garbage, disturbed>>

\* A call that is hanging up ends.
FinishHangingUp(id) ==
  /\ calls[id] = "HangingUp"
  /\ MoveCall(id, "Discarded")
  /\ UNCHANGED <<appVars, pluginVars, toPlugin, toApp, requests, acts, garbage, disturbed>>

HandleRequest == \E r \in requests : HandleDiscardCall(r) \/ HandleAcceptCall(r)
-----------------------------------------------------------------------------
(* Class Calls: Calls::updateCall, one action per case of its switch.       *)

\* Mutant of SetCall: the id of the first call stays.
SetCallKeepsId(u) ==
  /\ state' = u.state
  /\ callId' = IF callId = NoCall THEN u.id ELSE callId

SetCall(u) == state' = u.state /\ callId' = u.id

\* Mutant of PendingOfKnownCall: a call is announced at every update.
PendingOfKnownCallAnnounces(u) ==
  /\ u.state = "Pending" /\ u.id = callId
  /\ SetCall(u)
  /\ Tell("newCall", u.id)
  /\ UNCHANGED <<instance, loudspeaker, requests>>

PendingOfKnownCall(u) ==
  /\ u.state = "Pending" /\ u.id = callId
  /\ SetCall(u)
  /\ UNCHANGED <<instance, loudspeaker, requests, toPlugin>>

\* Calls::discard(call->id_): a second call is refused.
PendingWhileReady(u) ==
  /\ u.state = "Pending" /\ u.id # callId /\ state = "Ready"
  /\ requests' = requests \cup {[type |-> "discard", id |-> u.id, meant |-> u.id]}
  /\ Tell("discardCall", u.id)
  /\ UNCHANGED appVars

PendingNewCall(u) ==
  /\ u.state = "Pending" /\ u.id # callId /\ state # "Ready"
  /\ SetCall(u)
  /\ Tell("newCall", u.id)
  /\ loudspeaker' = FALSE
  /\ UNCHANGED <<instance, requests>>

\* tgcalls::Meta::Create returns no instance for a version it does not know.
Ready(u) ==
  /\ u.state = "Ready"
  /\ SetCall(u)
  /\ instance' \in {u.id, NoCall}
  /\ Tell("callReady", u.id)
  /\ UNCHANGED <<loudspeaker, requests>>

\* Mutant of DiscardedOrError: the plugin is told of errors only.
DiscardedOrErrorUntold(u) ==
  /\ u.state \in Ended
  /\ SetCall(u)
  /\ instance' = NoCall
  /\ IF u.state = "Error" THEN Tell("discardCall", u.id) ELSE UNCHANGED toPlugin
  /\ loudspeaker' = TRUE
  /\ UNCHANGED requests

DiscardedOrError(u) ==
  /\ u.state \in Ended
  /\ SetCall(u)
  /\ instance' = NoCall
  /\ Tell("discardCall", u.id)
  /\ loudspeaker' = TRUE
  /\ UNCHANGED requests

OtherState(u) ==
  /\ u.state \in {"ExchangingKeys", "HangingUp"}
  /\ SetCall(u)
  /\ UNCHANGED <<instance, loudspeaker, requests, toPlugin>>

UpdateCall ==
  /\ updates # <<>>
  /\ updates' = Tail(updates)
  /\ \E u \in {Head(updates)} :
       \/ PendingOfKnownCall(u)
       \/ PendingWhileReady(u)
       \/ PendingNewCall(u)
       \/ Ready(u)
       \/ DiscardedOrError(u)
       \/ OtherState(u)
  /\ UNCHANGED <<pluginVars, toApp, calls, acts, garbage, disturbed>>
-----------------------------------------------------------------------------
(* Class Calls: the user's signals.                                         *)

\* Mutant of Discard: the plugin is told, TDLib is not.
DiscardUnsent(m) ==
  /\ m.type = "discard"
  /\ Tell("discardCall", m.meant)
  /\ UNCHANGED <<appVars, requests>>

\* Calls::discard
Discard(m) ==
  /\ m.type = "discard"
  /\ requests' = requests \cup {[type |-> "discard", id |-> callId, meant |-> m.meant]}
  /\ Tell("discardCall", m.meant)
  /\ UNCHANGED appVars

\* Calls::answer
Accept(m) ==
  /\ m.type = "accept"
  /\ requests' = requests \cup {[type |-> "accept", id |-> callId, meant |-> m.meant]}
  /\ UNCHANGED <<appVars, toPlugin>>

\* Mutant of ChangeSpeakerMode: not only during a call.
ChangeSpeakerModeAnyTime(m) ==
  /\ m.type = "changeSpeakerMode"
  /\ loudspeaker' = m.on
  /\ UNCHANGED <<state, callId, instance, requests, toPlugin>>

\* Calls::changeSpeakerMode
ChangeSpeakerMode(m) ==
  /\ m.type = "changeSpeakerMode"
  /\ loudspeaker' = IF state = "Ready" THEN m.on ELSE loudspeaker
  /\ UNCHANGED <<state, callId, instance, requests, toPlugin>>

HandleSignal ==
  /\ toApp # <<>>
  /\ toApp' = Tail(toApp)
  /\ \E m \in {Head(toApp)} : Discard(m) \/ Accept(m) \/ ChangeSpeakerMode(m)
  /\ UNCHANGED <<pluginVars, updates, calls, acts, garbage, disturbed>>
-----------------------------------------------------------------------------
(* The voicecall plugin.                                                    *)

\* YottagramVoiceCallProvider::newCall; "ringing" is STATUS_INCOMING or
\* STATUS_DIALING, for who called whom is left out.
NewCall(m) ==
  /\ m.type = "newCall"
  /\ lost' = IF shown = NoCall THEN lost ELSE lost \cup {shown}
  /\ shown' = m.id
  /\ status' = "ringing"

\* YottagramVoiceCallProvider::callReady
CallReady(m) ==
  /\ m.type = "callReady"
  /\ status' = IF shown = NoCall THEN status ELSE "active"
  /\ UNCHANGED <<shown, lost>>

\* YottagramVoiceCallProvider::discardCall
DiscardCall(m) ==
  /\ m.type = "discardCall"
  /\ shown' = NoCall
  /\ status' = "none"
  /\ UNCHANGED lost

HandleMessage ==
  /\ toPlugin # <<>>
  /\ toPlugin' = Tail(toPlugin)
  /\ \E m \in {Head(toPlugin)} : NewCall(m) \/ CallReady(m) \/ DiscardCall(m)
  /\ UNCHANGED <<appVars, updates, toApp, requests, calls, acts, garbage, disturbed>>

Signal(m) ==
  /\ Room(toApp) /\ toApp' = Append(toApp, m)
  /\ acts < MaxActs /\ acts' = acts + 1

\* YottagramVoiceCallHandler::hangup
Hangup ==
  /\ shown # NoCall /\ status # "disconnected"
  /\ Signal([type |-> "discard", meant |-> shown])
  /\ status' = "disconnected"
  /\ UNCHANGED <<appVars, shown, lost, updates, toPlugin, requests, calls, garbage, disturbed>>

\* YottagramVoiceCallHandler::answer
Answer ==
  /\ shown # NoCall /\ status = "ringing"
  /\ Signal([type |-> "accept", meant |-> shown])
  /\ UNCHANGED <<appVars, pluginVars, updates, toPlugin, requests, calls, garbage, disturbed>>

\* The provider passes on the audio mode the voicecall manager asks for.
RequestAudioMode(on) ==
  /\ shown # NoCall
  /\ Signal([type |-> "changeSpeakerMode", on |-> on])
  /\ UNCHANGED <<appVars, pluginVars, updates, toPlugin, requests, calls, garbage, disturbed>>
-----------------------------------------------------------------------------
\* Nothing initialises _callId: it may be any number, among them ids of calls.
Init ==
  /\ state = "Discarded"
  /\ callId \in Ids \cup {NoCall}
  /\ instance = NoCall
  /\ loudspeaker = TRUE
  /\ shown = NoCall /\ status = "none" /\ lost = {}
  /\ updates = <<>> /\ toPlugin = <<>> /\ toApp = <<>> /\ requests = {}
  /\ calls = [id \in Ids |-> "none"]
  /\ acts = 0
  /\ garbage = callId
  /\ disturbed = FALSE

Next ==
  \/ \E id \in Ids : StartCall(id)
  \/ \E id \in Ids, s \in States \cup {"Ringing"} : Progress(id, s)
  \/ HandleRequest
  \/ \E id \in Ids : FinishHangingUp(id)
  \/ UpdateCall
  \/ HandleSignal
  \/ HandleMessage
  \/ Hangup
  \/ Answer
  \/ \E on \in BOOLEAN : RequestAudioMode(on)

\* Messages are delivered and handled, and TDLib ends a call it hangs up.
Fairness ==
  /\ WF_vars(UpdateCall) /\ WF_vars(HandleSignal) /\ WF_vars(HandleMessage)
  /\ \A r \in Request : WF_vars(r \in requests /\ (HandleDiscardCall(r) \/ HandleAcceptCall(r)))
  /\ \A id \in Ids : WF_vars(FinishHangingUp(id))

Spec == Init /\ [][Next]_vars /\ Fairness
-----------------------------------------------------------------------------
(* Properties.                                                              *)

TypeOK ==
  /\ state \in States
  /\ {callId, instance, shown, garbage} \subseteq Ids \cup {NoCall}
  /\ {loudspeaker, disturbed} \subseteq BOOLEAN
  /\ status \in {"none", "ringing", "active", "disconnected"}
  /\ shown = NoCall <=> status = "none"
  /\ lost \subseteq Ids
  /\ updates \in Seq(Update) /\ toPlugin \in Seq(PluginMessage) /\ toApp \in Seq(AppMessage)
  /\ requests \subseteq Request
  /\ calls \in [Ids -> States \cup {"none", "Ringing"}]
  /\ acts \in 0 .. MaxActs

\* When the class believes that no call is on, no audio runs and the phone's
\* output is back on the loudspeaker, whatever calls and signals have crossed.
EndedCallLeavesNothing ==
  state \in Ended => instance = NoCall /\ loudspeaker

\* Calls that do not meet: each began when the last one was over for TDLib, the
\* application and the plugin, and _callId did not name it by accident.
Orderly == ~disturbed /\ (garbage = NoCall \/ calls[garbage] = "none")

\* With every message delivered, the user sees a call exactly while it is on,
\* and the audio that runs is that call's.
ScreenShowsTheCall ==
  Orderly /\ Quiet =>
    /\ shown # NoCall <=> \E id \in Alive : calls[id] # "HangingUp"
    /\ shown # NoCall => shown \in Alive
    /\ instance # NoCall => calls[instance] \in {"Ready", "HangingUp"}

\* The user hangs up or answers the call on the screen: the query that goes to
\* TDLib names that call, though no message carries its id.
UserActsOnTheCall == Orderly => \A r \in requests : r.id = r.meant

\* No handler is overwritten, which nobody could remove from the screen.
NoHandlerIsLost == Orderly => lost = {}

\* A call the user hangs up ends, unless another call gets in between.
HangupEndsTheCall ==
  \A id \in Ids : (shown = id /\ status = "disconnected" /\ Orderly)
                     ~> (calls[id] \in Ended \/ ~Orderly)
=============================================================================
