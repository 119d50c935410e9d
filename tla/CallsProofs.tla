---------------------------- MODULE CallsProofs ----------------------------
(***************************************************************************)
(* Theorems about Calls, for any number of calls, any length of the queues *)
(* and any number of things the user does: its type invariant; that a call *)
(* that ends leaves nothing behind in the application; and, of calls that  *)
(* do not meet, that the screen shows the call that is on and that the     *)
(* user answers and hangs up what the screen shows.  Neither D-Bus messages *)
(* nor handlers keep the calls apart, so the latter rest on OrderlyInv:    *)
(* nothing of the last call is on its way when the next one begins.        *)
(***************************************************************************)
EXTENDS Calls, TLAPS

\* A message put into a queue with room leaves a queue of messages.
LEMMA TellTypes ==
  ASSUME toPlugin \in Seq(PluginMessage), NEW type \in {"newCall", "callReady", "discardCall"},
         NEW id \in Ids, Tell(type, id)
  PROVE  toPlugin' \in Seq(PluginMessage)
BY DEF Tell, PluginMessage

\* What TDLib does to one call keeps the calls and the queue of updates well typed.
LEMMA MoveCallTypes ==
  ASSUME TypeOK, NEW id \in Ids, NEW s \in States \cup {"Ringing"}, MoveCall(id, s)
  PROVE  updates' \in Seq(Update) /\ calls' \in [Ids -> States \cup {"none", "Ringing"}]
<1>1. [id |-> id, state |-> IF s = "Ringing" THEN "Pending" ELSE s] \in Update
  BY DEF Update, States
<1> QED BY <1>1 DEF MoveCall, TypeOK

\* The head of a queue is one of its messages, and the rest is still a queue.
LEMMA HeadTypes ==
  ASSUME NEW T, NEW q \in Seq(T), q # <<>>
  PROVE  Head(q) \in T /\ Tail(q) \in Seq(T)
OBVIOUS

\* A query of this user's for a call.
LEMMA RequestTypes ==
  ASSUME NEW type \in {"discard", "accept"}, NEW id \in Ids \cup {NoCall}, NEW meant \in Ids
  PROVE  [type |-> type, id |-> id, meant |-> meant] \in Request
BY DEF Request

\* What updateCall may do with an update: the state it leaves is that of the
\* update, or the one it found.
LEMMA UpdateCallTypes ==
  ASSUME TypeOK, UpdateCall
  PROVE  TypeOK'
<1>1. PICK u \in Update :
        \/ PendingOfKnownCall(u) \/ PendingWhileReady(u) \/ PendingNewCall(u)
        \/ Ready(u) \/ DiscardedOrError(u) \/ OtherState(u)
  BY HeadTypes DEF UpdateCall, TypeOK
<1>2. u.id \in Ids /\ u.state \in States
  BY DEF Update
<1>3. updates' \in Seq(Update)
  BY HeadTypes DEF UpdateCall, TypeOK
<1>4. /\ state' \in States /\ callId' \in Ids \cup {NoCall}
      /\ instance' \in Ids \cup {NoCall} /\ loudspeaker' \in BOOLEAN
  BY <1>1, <1>2 DEF PendingOfKnownCall, PendingWhileReady, PendingNewCall, Ready,
       DiscardedOrError, OtherState, SetCall, appVars, TypeOK
<1>5. toPlugin' \in Seq(PluginMessage)
  <2>1. \/ UNCHANGED toPlugin
        \/ \E type \in {"newCall", "callReady", "discardCall"} : Tell(type, u.id)
    BY <1>1 DEF PendingOfKnownCall, PendingWhileReady, PendingNewCall, Ready,
         DiscardedOrError, OtherState
  <2> QED BY <1>2, <2>1, TellTypes DEF TypeOK
<1>6. requests' \subseteq Request
  <2>1. [type |-> "discard", id |-> u.id, meant |-> u.id] \in Request
    BY <1>2, RequestTypes
  <2> QED BY <1>1, <2>1 DEF PendingOfKnownCall, PendingWhileReady, PendingNewCall, Ready,
         DiscardedOrError, OtherState, TypeOK
<1> QED BY <1>3, <1>4, <1>5, <1>6 DEF UpdateCall, TypeOK, pluginVars

LEMMA HandleSignalTypes ==
  ASSUME TypeOK, HandleSignal
  PROVE  TypeOK'
<1>1. PICK m \in AppMessage : Discard(m) \/ Accept(m) \/ ChangeSpeakerMode(m)
  BY HeadTypes DEF HandleSignal, TypeOK
<1>2. /\ m.type \in {"discard", "accept"} => m.meant \in Ids
      /\ m.type = "changeSpeakerMode" => m.on \in BOOLEAN
  BY DEF AppMessage
<1>3. toApp' \in Seq(AppMessage)
  BY HeadTypes DEF HandleSignal, TypeOK
<1>4. CASE Discard(m)
  <2>1. toPlugin' \in Seq(PluginMessage)
    BY <1>2, <1>4, TellTypes DEF Discard, TypeOK
  <2>2. requests' \subseteq Request
    BY <1>2, <1>4, RequestTypes DEF Discard, TypeOK
  <2> QED BY <1>3, <1>4, <2>1, <2>2 DEF Discard, HandleSignal, TypeOK, appVars, pluginVars
<1>5. CASE Accept(m)
  <2>1. requests' \subseteq Request
    BY <1>2, <1>5, RequestTypes DEF Accept, TypeOK
  <2> QED BY <1>3, <1>5, <2>1 DEF Accept, HandleSignal, TypeOK, appVars, pluginVars
<1>6. CASE ChangeSpeakerMode(m)
  <2>1. loudspeaker' \in BOOLEAN
    BY <1>2, <1>6 DEF ChangeSpeakerMode, TypeOK
  <2> QED BY <1>3, <1>6, <2>1 DEF ChangeSpeakerMode, HandleSignal, TypeOK, pluginVars
<1> QED BY <1>1, <1>4, <1>5, <1>6

LEMMA HandleMessageTypes ==
  ASSUME TypeOK, HandleMessage
  PROVE  TypeOK'
<1>1. PICK m \in PluginMessage : NewCall(m) \/ CallReady(m) \/ DiscardCall(m)
  BY HeadTypes DEF HandleMessage, TypeOK
<1>2. m.id \in Ids /\ NoCall \notin Ids
  BY DEF PluginMessage, Ids, NoCall
<1>3. toPlugin' \in Seq(PluginMessage)
  BY HeadTypes DEF HandleMessage, TypeOK
<1>4. /\ shown' \in Ids \cup {NoCall} /\ lost' \subseteq Ids
      /\ status' \in {"none", "ringing", "active", "disconnected"}
      /\ shown' = NoCall <=> status' = "none"
  BY <1>1, <1>2 DEF NewCall, CallReady, DiscardCall, TypeOK
<1> QED BY <1>3, <1>4 DEF HandleMessage, TypeOK, appVars

LEMMA SignalTypes ==
  ASSUME TypeOK, NEW m \in AppMessage, Signal(m)
  PROVE  toApp' \in Seq(AppMessage) /\ acts' \in 0 .. MaxActs
<1>1. acts \in 0 .. MaxActs /\ MaxActs \in Nat /\ acts < MaxActs /\ acts' = acts + 1
  BY BoundsAssumption DEF Signal, TypeOK
<1>2. toApp' \in Seq(AppMessage)
  BY DEF Signal, TypeOK
<1> QED BY <1>1, <1>2

\* TypeOK: every component of the state stays in its set, and the plugin has a
\* status exactly while it shows a call.
THEOREM TypeCorrect == Spec => []TypeOK
<1>1. Init => TypeOK
  <2> SUFFICES ASSUME Init PROVE TypeOK
    OBVIOUS
  <2>1. updates \in Seq(Update) /\ toPlugin \in Seq(PluginMessage) /\ toApp \in Seq(AppMessage)
    BY DEF Init
  <2>2. calls \in [Ids -> States \cup {"none", "Ringing"}]
    BY DEF Init
  <2>3. callId \in Ids \cup {NoCall} /\ garbage \in Ids \cup {NoCall}
    BY DEF Init
  <2>4. acts \in 0 .. MaxActs
    BY BoundsAssumption DEF Init
  <2>5. requests \subseteq Request /\ state \in States
    BY DEF Init, States
  <2> QED BY <2>1, <2>2, <2>3, <2>4, <2>5 DEF Init, TypeOK
<1>2. TypeOK /\ [Next]_vars => TypeOK'
  <2> SUFFICES ASSUME TypeOK, [Next]_vars
               PROVE  TypeOK'
    OBVIOUS
  <2>1. ASSUME NEW id \in Ids, StartCall(id)
        PROVE  TypeOK'
    <3>1. updates' \in Seq(Update) /\ calls' \in [Ids -> States \cup {"none", "Ringing"}]
      BY <2>1, MoveCallTypes DEF StartCall, States
    <3>2. disturbed' \in BOOLEAN
      BY <2>1, Zenon DEF StartCall, TypeOK
    <3> QED BY <2>1, <3>1, <3>2 DEF StartCall, TypeOK, appVars, pluginVars
  <2>2. ASSUME NEW id \in Ids, NEW s \in States \cup {"Ringing"}, Progress(id, s)
        PROVE  TypeOK'
    <3>1. updates' \in Seq(Update) /\ calls' \in [Ids -> States \cup {"none", "Ringing"}]
      BY <2>2, MoveCallTypes DEF Progress
    <3> QED BY <2>2, <3>1 DEF Progress, TypeOK, appVars, pluginVars
  <2>3. ASSUME NEW r \in requests, HandleDiscardCall(r) \/ HandleAcceptCall(r)
        PROVE  TypeOK'
    <3>1. \/ UNCHANGED <<calls, updates>>
          \/ r.id \in Ids /\ \E s \in States : MoveCall(r.id, s)
      BY <2>3 DEF HandleDiscardCall, HandleAcceptCall, Alive, States
    <3>2. updates' \in Seq(Update) /\ calls' \in [Ids -> States \cup {"none", "Ringing"}]
      BY <3>1, MoveCallTypes DEF TypeOK
    <3> QED BY <2>3, <3>2 DEF HandleDiscardCall, HandleAcceptCall, TypeOK, appVars, pluginVars
  <2>4. ASSUME NEW id \in Ids, FinishHangingUp(id)
        PROVE  TypeOK'
    <3>1. updates' \in Seq(Update) /\ calls' \in [Ids -> States \cup {"none", "Ringing"}]
      BY <2>4, MoveCallTypes DEF FinishHangingUp, States
    <3> QED BY <2>4, <3>1 DEF FinishHangingUp, TypeOK, appVars, pluginVars
  <2>5. CASE Hangup
    <3>1. [type |-> "discard", meant |-> shown] \in AppMessage
      BY <2>5 DEF Hangup, TypeOK, AppMessage
    <3>2. toApp' \in Seq(AppMessage) /\ acts' \in 0 .. MaxActs
      BY <2>5, <3>1, SignalTypes DEF Hangup
    <3> QED BY <2>5, <3>2 DEF Hangup, TypeOK, appVars
  <2>6. CASE Answer
    <3>1. [type |-> "accept", meant |-> shown] \in AppMessage
      BY <2>6 DEF Answer, TypeOK, AppMessage
    <3>2. toApp' \in Seq(AppMessage) /\ acts' \in 0 .. MaxActs
      BY <2>6, <3>1, SignalTypes DEF Answer
    <3> QED BY <2>6, <3>2 DEF Answer, TypeOK, appVars, pluginVars
  <2>7. ASSUME NEW on \in BOOLEAN, RequestAudioMode(on)
        PROVE  TypeOK'
    <3>1. [type |-> "changeSpeakerMode", on |-> on] \in AppMessage
      BY DEF AppMessage
    <3>2. toApp' \in Seq(AppMessage) /\ acts' \in 0 .. MaxActs
      BY <2>7, <3>1, SignalTypes DEF RequestAudioMode
    <3> QED BY <2>7, <3>2 DEF RequestAudioMode, TypeOK, appVars, pluginVars
  <2>8. CASE UNCHANGED vars
    BY <2>8 DEF vars, appVars, pluginVars, TypeOK
  <2> QED BY <2>1, <2>2, <2>3, <2>4, <2>5, <2>6, <2>7, <2>8, UpdateCallTypes,
             HandleSignalTypes, HandleMessageTypes DEF Next, HandleRequest
<1> QED BY <1>1, <1>2, PTL DEF Spec

\* EndedCallLeavesNothing: only updateCall starts audio, with a call that is
\* ready, and the case that ends a call stops it; a signal of the plugin moves
\* the output only during a call.
THEOREM EndedLeavesNothing == Spec => []EndedCallLeavesNothing
<1>1. Init => EndedCallLeavesNothing
  BY DEF Init, EndedCallLeavesNothing
<1>2. EndedCallLeavesNothing /\ [Next]_vars => EndedCallLeavesNothing'
  <2> SUFFICES ASSUME EndedCallLeavesNothing, [Next]_vars
               PROVE  EndedCallLeavesNothing'
    OBVIOUS
  <2>1. CASE UNCHANGED appVars
    BY <2>1 DEF EndedCallLeavesNothing, appVars
  <2>2. CASE UpdateCall
    <3>1. PICK u \in {Head(updates)} :
            \/ PendingOfKnownCall(u) \/ PendingWhileReady(u) \/ PendingNewCall(u)
            \/ Ready(u) \/ DiscardedOrError(u) \/ OtherState(u)
      BY <2>2 DEF UpdateCall
    <3>2. CASE PendingOfKnownCall(u) \/ PendingNewCall(u) \/ Ready(u) \/ OtherState(u)
      BY <3>2 DEF PendingOfKnownCall, PendingNewCall, Ready, OtherState, SetCall, Ended,
           EndedCallLeavesNothing
    <3>3. CASE PendingWhileReady(u)
      BY <3>3, <2>1 DEF PendingWhileReady
    <3>4. CASE DiscardedOrError(u)
      BY <3>4 DEF DiscardedOrError, EndedCallLeavesNothing
    <3> QED BY <3>1, <3>2, <3>3, <3>4
  <2>3. CASE HandleSignal
    <3>1. PICK m \in {Head(toApp)} : Discard(m) \/ Accept(m) \/ ChangeSpeakerMode(m)
      BY <2>3 DEF HandleSignal
    <3>2. CASE Discard(m) \/ Accept(m)
      BY <3>2, <2>1 DEF Discard, Accept
    <3>3. CASE ChangeSpeakerMode(m)
      BY <3>3 DEF ChangeSpeakerMode, EndedCallLeavesNothing, Ended
    <3> QED BY <3>1, <3>2, <3>3
  <2> QED BY <2>1, <2>2, <2>3 DEF Next, StartCall, Progress, HandleRequest, HandleDiscardCall,
        HandleAcceptCall, FinishHangingUp, HandleMessage, Hangup, Answer, RequestAudioMode,
        vars
<1> QED BY <1>1, <1>2, PTL DEF Spec
-----------------------------------------------------------------------------
(* Calls that do not meet.                                                  *)

\* How far a call has come, as it is reported.
Reported(s) == IF s = "Ringing" THEN "Pending" ELSE s
Rank(s) ==
  CASE s = "ExchangingKeys" -> 2
    [] s = "Ready" -> 3
    [] s = "HangingUp" -> 4
    [] s \in Ended -> 5
    [] OTHER -> 1

\* c is the last call that has begun, and the ones before it are over.
Latest(c) ==
  /\ calls[c] # "none"
  /\ \A id \in Ids : (id < c => calls[id] \in Ended) /\ (id > c => calls[id] = "none")

\* The reports on their way are about c, in the order in which it went on, up to
\* what it is now.
ReportsOf(c) ==
  /\ \A i \in 1 .. Len(updates) : updates[i].id = c /\ Rank(updates[i].state) <= Rank(calls[c])
  /\ \A i, j \in 1 .. Len(updates) : i <= j => Rank(updates[i].state) <= Rank(updates[j].state)
  /\ updates # <<>> => updates[Len(updates)].state = Reported(calls[c])

\* No call is on for the application and the plugin, and nobody says anything.
AtRest ==
  /\ state \in Ended /\ instance = NoCall /\ shown = NoCall /\ lost = {}
  /\ toPlugin = <<>> /\ toApp = <<>> /\ requests = {}

\* The first report of c has not been handled.
Unannounced(c) ==
  /\ AtRest /\ callId # c /\ calls[c] # "HangingUp"
  /\ updates # <<>> /\ updates[1].state = "Pending"

\* The plugin has removed the call from the screen, or will.
Gone ==
  \/ \E i \in 1 .. Len(toPlugin) : toPlugin[i].type = "discardCall"
  \/ shown = NoCall /\ \A i \in 1 .. Len(toPlugin) : toPlugin[i].type # "newCall"

DiscardSent == \E r \in requests : r.type = "discard"

\* The application has the call c, and everybody speaks of it.
Announced(c) ==
  /\ callId = c
  /\ IF updates = <<>> THEN state = Reported(calls[c]) ELSE Rank(state) <= Rank(updates[1].state)
  /\ instance # NoCall => instance = c /\ state \in {"Ready", "HangingUp"}
  /\ shown \in {NoCall, c} /\ lost = {}
  /\ \A i \in 1 .. Len(toPlugin) :
       toPlugin[i].id = c /\ (toPlugin[i].type = "newCall" => i = 1 /\ shown = NoCall)
  /\ \A i \in 1 .. Len(toApp) : toApp[i].type # "changeSpeakerMode" => toApp[i].meant = c
  /\ \A r \in requests : r.id = c /\ r.meant = c
  /\ DiscardSent \/ calls[c] = "HangingUp" \/ state \in Ended => Gone
  /\ Gone => DiscardSent \/ calls[c] \in Ended \cup {"HangingUp"}

OneCall(c) == Latest(c) /\ ReportsOf(c) /\ (Unannounced(c) \/ Announced(c))

NoCallYet ==
  calls = [id \in Ids |-> "none"] /\ updates = <<>> /\ AtRest /\ callId = garbage

OrderlyInv == Orderly => NoCallYet \/ \E c \in Ids : OneCall(c)

\* What the ranks say of the states.
LEMMA RankFacts ==
  /\ \A s : Rank(s) \in 1 .. 5
  /\ \A s : Rank(s) = 5 <=> s \in Ended
  /\ \A s : Rank(s) = 4 <=> s = "HangingUp"
  /\ \A s : Rank(s) = 3 <=> s = "Ready"
  /\ \A s : Rank(s) = 2 <=> s = "ExchangingKeys"
  /\ \A s : Rank(Reported(s)) = Rank(s)
BY DEF Rank, Ended, Reported

\* A call that goes on is reported after all that was reported of it before.
LEMMA MoveCallReports ==
  ASSUME TypeOK, NEW c \in Ids, Latest(c), ReportsOf(c), NEW s \in States \cup {"Ringing"},
         MoveCall(c, s), Rank(calls[c]) <= Rank(s)
  PROVE  /\ Latest(c)' /\ ReportsOf(c)' /\ calls'[c] = s
         /\ updates' # <<>>
         /\ updates = <<>> => updates'[1].state = Reported(s)
         /\ updates # <<>> => updates'[1] = updates[1]
<1> DEFINE u == [id |-> c, state |-> Reported(s)]
<1>1. calls' = [calls EXCEPT ![c] = s] /\ updates' = Append(updates, u) /\ calls'[c] = s
  BY DEF MoveCall, TypeOK, Reported
<1>2. updates \in Seq(Update) /\ u \in Update
  BY DEF TypeOK, Update, Reported, States
<1>3. /\ Len(updates') = Len(updates) + 1 /\ Len(updates) \in Nat
      /\ updates'[Len(updates) + 1] = u
      /\ \A i \in 1 .. Len(updates) : updates'[i] = updates[i]
  BY <1>1, <1>2
<1>4. Latest(c)'
  BY <1>1 DEF Latest, TypeOK, Ids, States
<1>5. \A i \in 1 .. Len(updates') : updates'[i].id = c /\ Rank(updates'[i].state) <= Rank(s)
  <2> SUFFICES ASSUME NEW i \in 1 .. Len(updates') PROVE updates'[i].id = c /\ Rank(updates'[i].state) <= Rank(s)
    OBVIOUS
  <2>1. CASE i = Len(updates) + 1
    BY <2>1, <1>3, RankFacts
  <2>2. CASE i \in 1 .. Len(updates)
    BY <2>2, <1>3, RankFacts DEF ReportsOf
  <2> QED BY <2>1, <2>2, <1>3
<1>6. \A i, j \in 1 .. Len(updates') : i <= j => Rank(updates'[i].state) <= Rank(updates'[j].state)
  <2> SUFFICES ASSUME NEW i \in 1 .. Len(updates'), NEW j \in 1 .. Len(updates'), i <= j
               PROVE  Rank(updates'[i].state) <= Rank(updates'[j].state)
    OBVIOUS
  <2>1. CASE j = Len(updates) + 1
    BY <2>1, <1>3, <1>5, RankFacts
  <2>2. CASE j \in 1 .. Len(updates)
    BY <2>2, <1>3 DEF ReportsOf
  <2> QED BY <2>1, <2>2, <1>3
<1>7. ReportsOf(c)'
  BY <1>1, <1>3, <1>5, <1>6 DEF ReportsOf
<1> QED BY <1>1, <1>2, <1>3, <1>4, <1>7

LEMMA EmptyTail ==
  ASSUME NEW T, NEW q \in Seq(T)
  PROVE  q = <<>> <=> Len(q) = 0
OBVIOUS

\* A report that is handled is about the call, and those behind it are later.
LEMMA UpdateReports ==
  ASSUME TypeOK, NEW c \in Ids, ReportsOf(c), updates # <<>>, updates' = Tail(updates), calls' = calls
  PROVE  /\ ReportsOf(c)'
         /\ Head(updates) = updates[1] /\ updates[1].id = c /\ updates[1].state \in States
         /\ Rank(updates[1].state) <= Rank(calls[c])
         /\ IF updates' = <<>> THEN updates[1].state = Reported(calls[c])
            ELSE Rank(updates[1].state) <= Rank(updates'[1].state)
<1>1. updates \in Seq(Update)
  BY DEF TypeOK
<1>2. /\ Len(updates) \in Nat /\ Len(updates) >= 1 /\ Len(updates') = Len(updates) - 1
      /\ Head(updates) = updates[1] /\ updates[1] \in Update
      /\ \A i \in 1 .. Len(updates') : i + 1 \in 1 .. Len(updates) /\ updates'[i] = updates[i + 1]
      /\ updates' = <<>> <=> Len(updates) = 1
  <2>1. updates' \in Seq(Update) /\ Len(updates) \in Nat /\ Len(updates) >= 1
    BY <1>1
  <2>2. Len(updates') = Len(updates) - 1 /\ Head(updates) = updates[1] /\ updates[1] \in Update
    BY <1>1, <2>1
  <2>3. \A i \in 1 .. Len(updates') : updates'[i] = updates[i + 1]
    BY <1>1, <2>1, <2>2
  <2>4. updates' = <<>> <=> Len(updates') = 0
    BY <2>1, EmptyTail
  <2> QED BY <2>1, <2>2, <2>3, <2>4
<1>3. ReportsOf(c)'
  <2>1. \A i \in 1 .. Len(updates') : updates'[i].id = c /\ Rank(updates'[i].state) <= Rank(calls'[c])
    BY <1>2 DEF ReportsOf
  <2>2. \A i, j \in 1 .. Len(updates') : i <= j => Rank(updates'[i].state) <= Rank(updates'[j].state)
    BY <1>2 DEF ReportsOf
  <2>3. updates' # <<>> => updates'[Len(updates')].state = Reported(calls'[c])
    BY <1>2 DEF ReportsOf
  <2> QED BY <2>1, <2>2, <2>3 DEF ReportsOf
<1>4. updates[1].id = c /\ Rank(updates[1].state) <= Rank(calls[c])
  BY <1>2 DEF ReportsOf
<1>5. IF updates' = <<>> THEN updates[1].state = Reported(calls[c])
      ELSE Rank(updates[1].state) <= Rank(updates'[1].state)
  BY <1>2 DEF ReportsOf
<1> QED BY <1>2, <1>3, <1>4, <1>5 DEF Update

\* A message for the plugin that does not announce a call.
LEMMA ToldLast ==
  ASSUME TypeOK, NEW type \in {"callReady", "discardCall"}, NEW c \in Ids, Tell(type, c),
         \A i \in 1 .. Len(toPlugin) :
            toPlugin[i].id = c /\ (toPlugin[i].type = "newCall" => i = 1 /\ shown = NoCall),
         shown' = shown
  PROVE  /\ \A i \in 1 .. Len(toPlugin') :
              toPlugin'[i].id = c /\ (toPlugin'[i].type = "newCall" => i = 1 /\ shown' = NoCall)
         /\ Gone => Gone'
         /\ type = "discardCall" => Gone'
         /\ type # "discardCall" => (Gone' => Gone)
<1>1. toPlugin \in Seq(PluginMessage) /\ toPlugin' = Append(toPlugin, [type |-> type, id |-> c])
  BY DEF TypeOK, Tell
<1>2. /\ Len(toPlugin') = Len(toPlugin) + 1 /\ Len(toPlugin) \in Nat
      /\ toPlugin'[Len(toPlugin) + 1] = [type |-> type, id |-> c]
      /\ \A i \in 1 .. Len(toPlugin) : i \in 1 .. Len(toPlugin') /\ toPlugin'[i] = toPlugin[i]
      /\ \A i \in 1 .. Len(toPlugin') : i \in 1 .. Len(toPlugin) \/ i = Len(toPlugin) + 1
  BY <1>1, [type |-> type, id |-> c] \in PluginMessage DEF PluginMessage
<1> QED BY <1>2 DEF Gone


\* TDLib moves the call on, and drops a query, perhaps the one it obeys.
LEMMA MoveOn ==
  ASSUME TypeOK, NEW c \in Ids, OneCall(c), NEW s \in States \cup {"Ringing"},
         MoveCall(c, s), Rank(calls[c]) <= Rank(s),
         UNCHANGED <<appVars, pluginVars, toPlugin, toApp>>, requests' \subseteq requests,
         s = "HangingUp" => DiscardSent,
         DiscardSent => DiscardSent' \/ s = "HangingUp"
  PROVE  OneCall(c)'
<1> USE DEF appVars, pluginVars
<1>1. /\ Latest(c)' /\ ReportsOf(c)' /\ calls'[c] = s
      /\ updates' # <<>>
      /\ updates = <<>> => updates'[1].state = Reported(s)
      /\ updates # <<>> => updates'[1] = updates[1]
  BY MoveCallReports DEF OneCall
<1>2. CASE Unannounced(c)
  <2>1. AtRest' /\ s # "HangingUp"
    BY <1>2 DEF Unannounced, AtRest, DiscardSent
  <2> QED BY <1>1, <1>2, <2>1 DEF OneCall, Unannounced
<1>3. CASE Announced(c)
  <2>1. Gone' <=> Gone
    BY DEF Gone
  <2>2. Rank(state') <= Rank(updates'[1].state)
    BY <1>1, <1>3, RankFacts DEF Announced
  <2>3. DiscardSent' \/ calls'[c] = "HangingUp" \/ state' \in Ended => Gone'
    BY <1>1, <1>3, <2>1 DEF Announced, DiscardSent
  <2>4. Gone' => DiscardSent' \/ calls'[c] \in Ended \cup {"HangingUp"}
    <3>1. SUFFICES ASSUME Gone, ~DiscardSent', s # "HangingUp" PROVE s \in Ended
      BY <1>1, <2>1
    <3>2. calls[c] \in Ended \cup {"HangingUp"}
      BY <1>3, <3>1 DEF Announced
    <3>3. Rank(s) \in 4 .. 5
      BY <3>2, RankFacts
    <3> QED BY <3>1, <3>3, RankFacts
  <2> QED BY <1>1, <1>3, <2>2, <2>3, <2>4 DEF OneCall, Announced
<1> QED BY <1>2, <1>3 DEF OneCall

\* What TDLib does with the call that is on: it goes on, ...
LEMMA ProgressOfOneCall ==
  ASSUME TypeOK, NEW c \in Ids, OneCall(c),
         NEW id \in Ids, NEW s \in States \cup {"Ringing"}, Progress(id, s)
  PROVE  OneCall(c)'
<1>1. id = c
  BY DEF Progress, Alive, OneCall, Latest, Ids, Ended
<1>2. Rank(calls[c]) <= Rank(s)
  BY <1>1 DEF Progress, Rank, Ended
<1>3. s # "HangingUp"
  BY DEF Progress, Ended
<1> QED BY <1>1, <1>2, <1>3, MoveOn DEF Progress, DiscardSent

\* ... a request to discard or to accept is about it, ...
LEMMA RequestOfOneCall ==
  ASSUME TypeOK, NEW c \in Ids, OneCall(c),
         NEW r \in requests, HandleDiscardCall(r) \/ HandleAcceptCall(r)
  PROVE  OneCall(c)'
<1>1. Announced(c) /\ r.id = c
  BY DEF OneCall, Unannounced, AtRest, Announced
<1>2. CASE HandleDiscardCall(r)
  <2>1. DiscardSent
    BY <1>2 DEF HandleDiscardCall, DiscardSent
  <2>2. CASE c \in Alive /\ calls[c] # "HangingUp"
    <3>1. MoveCall(c, "HangingUp") /\ Rank(calls[c]) <= Rank("HangingUp")
      BY <1>1, <1>2, <2>2, RankFacts DEF HandleDiscardCall, Alive
    <3> QED BY <1>2, <2>1, <3>1, MoveOn DEF HandleDiscardCall, States
  <2>3. CASE ~(c \in Alive /\ calls[c] # "HangingUp")
    <3>1. calls[c] \in Ended \cup {"HangingUp"}
      BY <2>3 DEF Alive, OneCall, Latest
    <3>2. Announced(c)' /\ Latest(c)' /\ ReportsOf(c)'
      BY <1>1, <1>2, <2>1, <2>3, <3>1 DEF HandleDiscardCall, Announced, OneCall, Latest,
           ReportsOf, Gone, DiscardSent, appVars, pluginVars
    <3> QED BY <3>2 DEF OneCall
  <2> QED BY <2>2, <2>3
<1>3. CASE HandleAcceptCall(r)
  <2>1. DiscardSent' <=> DiscardSent
    BY <1>3 DEF HandleAcceptCall, DiscardSent
  <2>2. CASE c \in Alive /\ calls[c] \in {"Pending", "Ringing"}
    <3>1. MoveCall(c, "ExchangingKeys") /\ Rank(calls[c]) <= Rank("ExchangingKeys")
      BY <1>1, <1>3, <2>2 DEF HandleAcceptCall, Rank, Ended
    <3> QED BY <1>3, <2>1, <3>1, MoveOn DEF HandleAcceptCall, States
  <2>3. CASE ~(c \in Alive /\ calls[c] \in {"Pending", "Ringing"})
    <3>1. Announced(c)' /\ Latest(c)' /\ ReportsOf(c)'
      BY <1>1, <1>3, <2>1, <2>3 DEF HandleAcceptCall, Announced, OneCall, Latest,
           ReportsOf, Gone, appVars, pluginVars
    <3> QED BY <3>1 DEF OneCall
  <2> QED BY <2>2, <2>3
<1> QED BY <1>2, <1>3

\* ... and it ends.
LEMMA HangingUpOfOneCall ==
  ASSUME TypeOK, NEW c \in Ids, OneCall(c), NEW id \in Ids, FinishHangingUp(id)
  PROVE  OneCall(c)'
<1>1. id = c
  BY DEF FinishHangingUp, OneCall, Latest, Ids, Ended
<1>2. Rank(calls[c]) <= Rank("Discarded")
  BY <1>1 DEF FinishHangingUp, Rank, Ended
<1> QED BY <1>1, <1>2, MoveOn DEF FinishHangingUp, States, DiscardSent

\* Each report is handled as what it is, since it is about the call that is on.
LEMMA UpdateOfOneCall ==
  ASSUME TypeOK, NEW c \in Ids, OneCall(c), UpdateCall
  PROVE  OneCall(c)'
<1> DEFINE u == updates[1]
<1>1. updates # <<>> /\ updates' = Tail(updates) /\ calls' = calls
      /\ UNCHANGED <<pluginVars, toApp>>
  BY DEF UpdateCall
<1>2. /\ ReportsOf(c)'
      /\ Head(updates) = u /\ u.id = c /\ u.state \in States
      /\ Rank(u.state) <= Rank(calls[c])
      /\ IF updates' = <<>> THEN u.state = Reported(calls[c])
         ELSE Rank(u.state) <= Rank(updates'[1].state)
  BY <1>1, UpdateReports DEF OneCall
<1>3. Latest(c)'
  BY <1>1 DEF OneCall, Latest
<1>4. \/ PendingOfKnownCall(u) \/ PendingWhileReady(u) \/ PendingNewCall(u)
      \/ Ready(u) \/ DiscardedOrError(u) \/ OtherState(u)
  BY <1>2 DEF UpdateCall
<1>5. CASE Unannounced(c)
  <2>1. PendingNewCall(u)
    BY <1>2, <1>4, <1>5 DEF Unannounced, AtRest, Ended, PendingOfKnownCall, PendingWhileReady,
         Ready, DiscardedOrError, OtherState
  <2>2. state' = "Pending" /\ callId' = c /\ instance' = NoCall /\ requests' = {}
    BY <1>2, <1>5, <2>1 DEF PendingNewCall, SetCall, Unannounced, AtRest
  <2>3. toPlugin' = <<[type |-> "newCall", id |-> c]>>
    BY <1>2, <1>5, <2>1 DEF PendingNewCall, Tell, Unannounced, AtRest
  <2>4. shown' = NoCall /\ lost' = {} /\ toApp' = <<>>
    BY <1>1, <1>5 DEF pluginVars, Unannounced, AtRest
  <2>5. ~Gone' /\ ~DiscardSent'
    BY <2>2, <2>3 DEF Gone, DiscardSent
  <2>6. calls'[c] # "HangingUp" /\ state' \notin Ended
    BY <1>1, <1>5, <2>2 DEF Unannounced, Ended
  <2>7. u.state = state'
    BY <2>1, <2>2 DEF PendingNewCall
  <2>8. Announced(c)'
    BY <1>1, <1>2, <2>2, <2>3, <2>4, <2>5, <2>6, <2>7 DEF Announced
  <2> QED BY <1>2, <1>3, <2>8 DEF OneCall
<1>6. CASE Announced(c)
  <2>1. Rank(state) <= Rank(u.state)
    BY <1>1, <1>6 DEF Announced
  <2>2. ~PendingWhileReady(u) /\ ~PendingNewCall(u)
    BY <1>2, <1>6 DEF PendingWhileReady, PendingNewCall, Announced
  <2>3. state' = u.state /\ callId' = c /\ requests' = requests
    BY <1>2, <1>4, <2>2 DEF PendingOfKnownCall, Ready, DiscardedOrError, OtherState, SetCall
  <2>4. shown' = shown /\ lost' = lost /\ toApp' = toApp
    BY <1>1 DEF pluginVars
  <2>5. instance' # NoCall => instance' = c /\ state' \in {"Ready", "HangingUp"}
    <3>1. CASE PendingOfKnownCall(u) \/ OtherState(u)
      <4>1. instance' = instance
        BY <3>1 DEF PendingOfKnownCall, OtherState
      <4>2. instance # NoCall => Rank(u.state) \in {3, 4, 5}
        BY <1>6, <2>1, RankFacts DEF Announced
      <4>3. u.state \notin Ended
        BY <3>1 DEF PendingOfKnownCall, OtherState, Ended
      <4> QED BY <1>6, <2>3, <4>1, <4>2, <4>3, RankFacts DEF Announced
    <3>2. CASE Ready(u)
      BY <1>2, <2>3, <3>2 DEF Ready
    <3>3. CASE DiscardedOrError(u)
      BY <3>3 DEF DiscardedOrError
    <3> QED BY <1>4, <2>2, <3>1, <3>2, <3>3
  <2>6. /\ \A i \in 1 .. Len(toPlugin') :
             toPlugin'[i].id = c /\ (toPlugin'[i].type = "newCall" => i = 1 /\ shown' = NoCall)
        /\ Gone => Gone'
        /\ state' \in Ended => Gone'
        /\ state' \notin Ended => (Gone' => Gone)
    <3>1. CASE UNCHANGED toPlugin /\ u.state \notin Ended
      BY <1>6, <2>3, <2>4, <3>1 DEF Announced, Gone
    <3>2. CASE Tell("callReady", c) /\ u.state = "Ready"
      BY <1>6, <2>3, <2>4, <3>2, ToldLast DEF Announced, Ended
    <3>3. CASE Tell("discardCall", c) /\ u.state \in Ended
      BY <1>6, <2>3, <2>4, <3>3, ToldLast DEF Announced
    <3> QED BY <1>2, <1>4, <2>2, <3>1, <3>2, <3>3 DEF PendingOfKnownCall, Ready,
          DiscardedOrError, OtherState, Ended
  <2>7. DiscardSent' <=> DiscardSent
    BY <2>3 DEF DiscardSent
  <2>8. state' \in Ended => calls'[c] \in Ended
    BY <1>1, <1>2, <2>3, RankFacts
  <2>9. Announced(c)'
    BY <1>1, <1>2, <1>6, <2>3, <2>4, <2>5, <2>6, <2>7, <2>8 DEF Announced
  <2> QED BY <1>2, <1>3, <2>9 DEF OneCall
<1> QED BY <1>5, <1>6 DEF OneCall


\* A queue without its head.
LEMMA TailFacts ==
  ASSUME NEW T, NEW q \in Seq(T), q # <<>>, NEW r, r = Tail(q)
  PROVE  /\ Len(q) \in Nat /\ Len(q) >= 1 /\ Head(q) = q[1] /\ Len(r) = Len(q) - 1
         /\ \A i \in 1 .. Len(r) : i + 1 \in 1 .. Len(q) /\ r[i] = q[i + 1]
         /\ \A j \in 2 .. Len(q) : j - 1 \in 1 .. Len(r) /\ r[j - 1] = q[j]
<1>1. r \in Seq(T) /\ Len(q) \in Nat /\ Len(q) >= 1
  BY EmptyTail
<1> QED BY <1>1

\* What the application and the plugin do leaves the call and its reports alone.
LEMMA SameCall ==
  ASSUME NEW c, OneCall(c), UNCHANGED <<calls, updates>>, Announced(c)'
  PROVE  OneCall(c)'
BY DEF OneCall, Latest, ReportsOf

\* A D-Bus signal to the application is about the call it has.
LEMMA SignalOfOneCall ==
  ASSUME TypeOK, NEW c \in Ids, OneCall(c), HandleSignal
  PROVE  OneCall(c)'
<1> DEFINE m == toApp[1]
<1>1. Announced(c)
  BY DEF OneCall, Unannounced, AtRest, HandleSignal
<1>2. /\ toApp' = Tail(toApp) /\ Head(toApp) = m
      /\ m.type # "changeSpeakerMode" => m.meant = c
      /\ \A i \in 1 .. Len(toApp') : toApp'[i].type # "changeSpeakerMode" => toApp'[i].meant = c
  BY <1>1, TailFacts DEF HandleSignal, TypeOK, Announced
<1>3. UNCHANGED <<pluginVars, updates, calls, garbage, disturbed>>
  BY DEF HandleSignal
<1>4. Discard(m) \/ Accept(m) \/ ChangeSpeakerMode(m)
  BY <1>2 DEF HandleSignal
<1>5. CASE Discard(m)
  <2>1. m.meant = c /\ Tell("discardCall", c) /\ UNCHANGED <<appVars, shown, lost>>
    BY <1>2, <1>3, <1>5 DEF Discard, pluginVars
  <2>2. requests' = requests \cup {[type |-> "discard", id |-> c, meant |-> c]}
    BY <1>1, <1>5, <2>1 DEF Discard, Announced
  <2>3. DiscardSent'
    <3>1. PICK r \in requests' : r = [type |-> "discard", id |-> c, meant |-> c]
      BY <2>2
    <3> QED BY <3>1 DEF DiscardSent
  <2>4. /\ Gone'
        /\ \A i \in 1 .. Len(toPlugin') :
             toPlugin'[i].id = c /\ (toPlugin'[i].type = "newCall" => i = 1 /\ shown' = NoCall)
    BY <1>1, <2>1, ToldLast DEF Announced
  <2>5. \A r \in requests' : r.id = c /\ r.meant = c
    BY <1>1, <2>2 DEF Announced
  <2>6. Announced(c)'
    BY <1>1, <1>2, <1>3, <2>1, <2>3, <2>4, <2>5 DEF Announced, appVars
  <2> QED BY <1>3, <2>6, SameCall
<1>6. CASE Accept(m)
  <2>1. m.meant = c /\ UNCHANGED <<appVars, shown, lost, toPlugin>>
    BY <1>2, <1>3, <1>6 DEF Accept, pluginVars
  <2>2. requests' = requests \cup {[type |-> "accept", id |-> c, meant |-> c]}
    BY <1>1, <1>6, <2>1 DEF Accept, Announced
  <2>3. (DiscardSent' <=> DiscardSent) /\ (Gone' <=> Gone)
    BY <2>1, <2>2 DEF DiscardSent, Gone
  <2>4. \A r \in requests' : r.id = c /\ r.meant = c
    BY <1>1, <2>2 DEF Announced
  <2>5. Announced(c)'
    BY <1>1, <1>2, <1>3, <2>1, <2>3, <2>4 DEF Announced, appVars
  <2> QED BY <1>3, <2>5, SameCall
<1>7. CASE ChangeSpeakerMode(m)
  <2>1. UNCHANGED <<state, callId, instance, requests, toPlugin, shown, lost>>
    BY <1>3, <1>7 DEF ChangeSpeakerMode, pluginVars
  <2>2. Announced(c)'
    BY <1>1, <1>2, <1>3, <2>1 DEF Announced, DiscardSent, Gone
  <2> QED BY <1>3, <2>2, SameCall
<1> QED BY <1>4, <1>5, <1>6, <1>7

LEMMA MessageOfOneCall ==
  ASSUME TypeOK, NEW c \in Ids, OneCall(c), HandleMessage
  PROVE  OneCall(c)'
<1> DEFINE m == toPlugin[1]
<1>1. Announced(c)
  BY DEF OneCall, Unannounced, AtRest, HandleMessage
<1>2. /\ toPlugin # <<>> /\ toPlugin' = Tail(toPlugin)
      /\ UNCHANGED <<appVars, updates, toApp, requests, calls>>
  BY DEF HandleMessage
<1>3. /\ Head(toPlugin) = m /\ m.id = c
      /\ m.type = "newCall" => shown = NoCall
      /\ \A i \in 1 .. Len(toPlugin') : toPlugin'[i].id = c /\ toPlugin'[i].type # "newCall"
  BY <1>1, <1>2, TailFacts DEF TypeOK, Announced
<1>4. (\E i \in 1 .. Len(toPlugin) : toPlugin[i].type = "discardCall")
        <=> m.type = "discardCall" \/ \E i \in 1 .. Len(toPlugin') : toPlugin'[i].type = "discardCall"
  <2>1. /\ \A i \in 1 .. Len(toPlugin') : i + 1 \in 1 .. Len(toPlugin) /\ toPlugin'[i] = toPlugin[i + 1]
        /\ \A i \in 2 .. Len(toPlugin) : i - 1 \in 1 .. Len(toPlugin') /\ toPlugin'[i - 1] = toPlugin[i]
        /\ Len(toPlugin) \in Nat /\ Len(toPlugin) >= 1
    BY <1>2, TailFacts DEF TypeOK
  <2>2. \A i \in 1 .. Len(toPlugin) : i = 1 \/ i \in 2 .. Len(toPlugin)
    BY <2>1
  <2>3. 1 \in 1 .. Len(toPlugin)
    BY <2>1
  <2> QED BY <2>1, <2>2, <2>3
<1>5. NewCall(m) \/ CallReady(m) \/ DiscardCall(m)
  BY <1>3 DEF HandleMessage
<1>6. c # NoCall
  BY DEF Ids, NoCall
<1>7. 1 \in 1 .. Len(toPlugin)
  BY <1>2, TailFacts DEF TypeOK
<1>8. shown' \in {NoCall, c} /\ lost' = {} /\ (Gone' <=> Gone)
  <2>1. CASE NewCall(m)
    <3>1. shown' = c /\ lost' = {} /\ m.type = "newCall"
      BY <1>1, <1>3, <2>1 DEF NewCall, Announced
    <3> QED BY <1>3, <1>4, <1>6, <1>7, <3>1 DEF Gone
  <2>2. CASE CallReady(m)
    <3>1. shown' = shown /\ lost' = lost /\ m.type = "callReady"
      BY <2>2 DEF CallReady
    <3>2. \A i \in 1 .. Len(toPlugin) : toPlugin[i].type # "newCall"
      BY <1>1, <3>1 DEF Announced
    <3> QED BY <1>1, <1>3, <1>4, <3>1, <3>2 DEF Announced, Gone
  <2>3. CASE DiscardCall(m)
    <3>1. shown' = NoCall /\ lost' = lost /\ m.type = "discardCall"
      BY <2>3 DEF DiscardCall
    <3> QED BY <1>1, <1>3, <1>7, <3>1 DEF Announced, Gone
  <2> QED BY <1>5, <2>1, <2>2, <2>3
<1>9. Announced(c)'
  BY <1>1, <1>2, <1>3, <1>8 DEF Announced, appVars, DiscardSent
<1> QED BY <1>2, <1>9, SameCall

\* The user acts on the call that is shown.
LEMMA ActOfOneCall ==
  ASSUME TypeOK, NEW c \in Ids, OneCall(c),
         Hangup \/ Answer \/ \E on \in BOOLEAN : RequestAudioMode(on)
  PROVE  OneCall(c)'
<1>1. shown = c /\ Announced(c)
  BY DEF OneCall, Unannounced, AtRest, Announced, Hangup, Answer, RequestAudioMode
<1>2. UNCHANGED <<appVars, shown, lost, toPlugin, requests, calls, updates>>
  BY DEF Hangup, Answer, RequestAudioMode, pluginVars
<1>3. PICK m \in AppMessage : Signal(m) /\ (m.type # "changeSpeakerMode" => m.meant = c)
  <2>1. [type |-> "discard", meant |-> c] \in AppMessage /\ [type |-> "accept", meant |-> c] \in AppMessage
    BY DEF AppMessage
  <2>2. \A on \in BOOLEAN : [type |-> "changeSpeakerMode", on |-> on] \in AppMessage
    BY DEF AppMessage
  <2>3. CASE Hangup
    BY <1>1, <2>1, <2>3 DEF Hangup
  <2>4. CASE Answer
    BY <1>1, <2>1, <2>4 DEF Answer
  <2>5. CASE \E on \in BOOLEAN : RequestAudioMode(on)
    BY <2>2, <2>5 DEF RequestAudioMode
  <2> QED BY <2>3, <2>4, <2>5
<1>4. \A i \in 1 .. Len(toApp') : toApp'[i].type # "changeSpeakerMode" => toApp'[i].meant = c
  <2>1. toApp \in Seq(AppMessage) /\ toApp' = Append(toApp, m)
    BY <1>3 DEF TypeOK, Signal
  <2> QED BY <1>1, <1>3, <2>1 DEF Announced
<1>5. Announced(c)'
  BY <1>1, <1>2, <1>4 DEF Announced, appVars, Gone, DiscardSent
<1> QED BY <1>2, <1>5, SameCall

\* A call that begins in order finds the last one gone everywhere.
LEMMA StartInOrder ==
  ASSUME TypeOK, OrderlyInv, NEW c \in Ids, StartCall(c), Orderly'
  PROVE  OneCall(c)'
<1>1. /\ calls[c] = "none" /\ \A id \in Ids : id < c => calls[id] # "none"
      /\ MoveCall(c, "Pending")
      /\ UNCHANGED <<appVars, pluginVars, toPlugin, toApp, requests, garbage>>
  BY DEF StartCall, Ids
<1>2. ~disturbed /\ Alive = {} /\ Quiet
  BY Zenon DEF StartCall, Orderly
<1>3. calls' = [calls EXCEPT ![c] = "Pending"]
  BY <1>1 DEF MoveCall
<1>4. Orderly /\ garbage # c
  BY <1>1, <1>2, <1>3 DEF Orderly, TypeOK, NoCall, Ids
<1>5. \A id \in Ids : calls[id] \in Ended \cup {"none"}
  BY <1>2 DEF Alive
<1>6. AtRest /\ callId # c /\ \A id \in Ids : id > c => calls[id] = "none"
  <2>1. CASE NoCallYet
    BY <1>4, <2>1 DEF NoCallYet
  <2>2. ASSUME NEW d \in Ids, OneCall(d)
        PROVE  AtRest /\ callId # c /\ \A id \in Ids : id > c => calls[id] = "none"
    <3>1. Announced(d) /\ calls[d] \in Ended
      BY <1>2, <1>5, <2>2 DEF OneCall, Unannounced, Quiet, Latest
    <3>2. d # c /\ ~(c < d)
      BY <1>1, <2>2 DEF OneCall, Latest, Ended
    <3>3. state \in Ended
      BY <1>2, <3>1 DEF Announced, Quiet, Reported, Ended
    <3>4. AtRest
      BY <1>2, <3>1, <3>3 DEF AtRest, Announced, Quiet, Gone, Ended
    <3>5. \A id \in Ids : id > c => calls[id] = "none"
      BY <2>2, <3>2 DEF OneCall, Latest, Ids
    <3> QED BY <3>1, <3>2, <3>4, <3>5 DEF Announced
  <2> QED BY <1>4, <2>1, <2>2 DEF OrderlyInv
<1>7. Latest(c)'
  BY <1>1, <1>3, <1>5, <1>6 DEF Latest, TypeOK, Ids, Ended
<1>8. updates' = <<[id |-> c, state |-> "Pending"]>>
  BY <1>1, <1>2 DEF MoveCall, Quiet
<1>9. calls'[c] = "Pending"
  BY <1>3 DEF TypeOK
<1>10. ReportsOf(c)'
  BY <1>8, <1>9 DEF ReportsOf, Reported, Rank, Ended
<1>11. Unannounced(c)'
  BY <1>1, <1>6, <1>8, <1>9 DEF Unannounced, AtRest, appVars, pluginVars
<1> QED BY <1>7, <1>10, <1>11 DEF OneCall

\* The strengthening: while calls do not meet, there is none yet, or there is a last
\* one, and the application, the plugin and all that is on its way are about it.
THEOREM OneCallAtATime == Spec => []OrderlyInv
<1>1. Init => OrderlyInv
  BY DEF Init, OrderlyInv, NoCallYet, AtRest, Ended
<1>2. TypeOK /\ OrderlyInv /\ [Next]_vars => OrderlyInv'
  <2> SUFFICES ASSUME TypeOK, OrderlyInv, [Next]_vars, Orderly'
               PROVE  (NoCallYet \/ \E c \in Ids : OneCall(c))'
    BY DEF OrderlyInv
  <2>1. ASSUME NEW c \in Ids, StartCall(c)
        PROVE  OneCall(c)'
    BY <2>1, StartInOrder
  <2>2. CASE \A c \in Ids : ~StartCall(c)
    <3>1. /\ disturbed' = disturbed /\ garbage' = garbage
      BY <2>2 DEF Next, vars, Progress, HandleRequest, HandleDiscardCall, HandleAcceptCall,
           FinishHangingUp, UpdateCall, HandleSignal, HandleMessage, Hangup, Answer, RequestAudioMode
    <3>2. \A id \in Ids : calls[id] = "none" => calls'[id] = "none"
      BY <2>2 DEF Next, vars, Progress, MoveCall, HandleRequest, HandleDiscardCall,
           HandleAcceptCall, FinishHangingUp, UpdateCall, HandleSignal, HandleMessage, Hangup,
           Answer, RequestAudioMode, TypeOK, Alive
    <3>3. \A id \in Ids : calls[id] # "none" => calls'[id] # "none"
      BY <2>2 DEF Next, vars, Progress, MoveCall, HandleRequest, HandleDiscardCall,
           HandleAcceptCall, FinishHangingUp, UpdateCall, HandleSignal, HandleMessage, Hangup,
           Answer, RequestAudioMode, TypeOK, Alive, States, Ended
    <3>4. Orderly
      BY <3>1, <3>3 DEF Orderly, TypeOK
    <3>5. CASE NoCallYet
      <4>1. UNCHANGED vars
        BY <2>2, <3>5 DEF Next, Progress, HandleRequest, HandleDiscardCall, HandleAcceptCall,
             FinishHangingUp, UpdateCall, HandleSignal, HandleMessage, Hangup, Answer,
             RequestAudioMode, NoCallYet, AtRest, Alive
      <4> QED BY <3>5, <4>1 DEF NoCallYet, AtRest, vars, appVars, pluginVars
    <3>6. ASSUME NEW c \in Ids, OneCall(c)
          PROVE  OneCall(c)'
      <4>1. CASE UNCHANGED vars
        BY <3>6, <4>1 DEF vars, appVars, pluginVars, OneCall, Latest, ReportsOf, Unannounced,
             Announced, AtRest, Gone, DiscardSent
      <4> QED BY <2>2, <3>6, <4>1, ProgressOfOneCall, RequestOfOneCall, HangingUpOfOneCall,
                 UpdateOfOneCall, SignalOfOneCall, MessageOfOneCall, ActOfOneCall
              DEF Next, HandleRequest
    <3> QED BY <3>4, <3>5, <3>6 DEF OrderlyInv
  <2> QED BY <2>1, <2>2
<1> QED BY <1>1, <1>2, TypeCorrect, PTL DEF Spec

\* ScreenShowsTheCall: what is left to be said decides it, and nothing is.
THEOREM ScreenIsRight == Spec => []ScreenShowsTheCall
<1>1. TypeOK /\ OrderlyInv => ScreenShowsTheCall
  <2> SUFFICES ASSUME TypeOK, OrderlyInv, Orderly, Quiet
               PROVE  /\ shown # NoCall <=> \E id \in Alive : calls[id] # "HangingUp"
                      /\ shown # NoCall => shown \in Alive
                      /\ instance # NoCall => calls[instance] \in {"Ready", "HangingUp"}
    BY DEF ScreenShowsTheCall
  <2>1. CASE NoCallYet
    BY <2>1 DEF NoCallYet, AtRest, Alive
  <2>2. ASSUME NEW c \in Ids, OneCall(c)
        PROVE  /\ shown # NoCall <=> \E id \in Alive : calls[id] # "HangingUp"
               /\ shown # NoCall => shown \in Alive
               /\ instance # NoCall => calls[instance] \in {"Ready", "HangingUp"}
    <3>1. Announced(c) /\ Latest(c)
      BY <2>2 DEF OneCall, Unannounced, Quiet
    <3>2. \A id \in Alive : id = c
      BY <3>1 DEF Latest, Alive, Ids
    <3>3. state = Reported(calls[c]) /\ ~DiscardSent /\ (Gone <=> shown = NoCall)
      BY <3>1 DEF Announced, Quiet, DiscardSent, Gone
    <3>4. shown = NoCall <=> calls[c] \in Ended \cup {"HangingUp"}
      BY <3>1, <3>3 DEF Announced, Reported, Ended
    <3>5. shown # NoCall => shown = c
      BY <3>1 DEF Announced
    <3>6. c \in Alive <=> calls[c] \notin Ended
      BY <3>1 DEF Latest, Alive
    <3>7. instance # NoCall => calls[instance] \in {"Ready", "HangingUp"}
      BY <3>1, <3>3 DEF Announced, Reported
    <3> QED BY <3>2, <3>4, <3>5, <3>6, <3>7
  <2> QED BY <2>1, <2>2 DEF OrderlyInv
<1> QED BY <1>1, TypeCorrect, OneCallAtATime, PTL

\* UserActsOnTheCall: the class and the plugin have the same call when the user acts.
THEOREM ActsMeanTheCall == Spec => []UserActsOnTheCall
<1>1. OrderlyInv => UserActsOnTheCall
  BY DEF OrderlyInv, UserActsOnTheCall, NoCallYet, OneCall, Unannounced, AtRest, Announced
<1> QED BY <1>1, OneCallAtATime, PTL

\* NoHandlerIsLost: a call is announced to a plugin that shows none.
THEOREM HandlersAreKept == Spec => []NoHandlerIsLost
<1>1. OrderlyInv => NoHandlerIsLost
  BY DEF OrderlyInv, NoHandlerIsLost, NoCallYet, OneCall, Unannounced, AtRest, Announced
<1> QED BY <1>1, OneCallAtATime, PTL
=============================================================================
