------------------------ MODULE NotificationSettings ------------------------
(***************************************************************************)
(* How the user is told of the messages of a chat: the settings of a chat, *)
(* which may defer to those of its scope (all private chats, say), and the *)
(* switches for them on two pages, UserInfo.qml and ChatNotifications.qml. *)
(* A setting is changed by sending TDLib all of them, and TDLib reports    *)
(* all of them.  A switch follows the chat by a binding, and writes what   *)
(* it shows whenever that changes, whoever changed it.                     *)
(*                                                                         *)
(* Of the settings there are two here: "mute", for which a menu offers a   *)
(* third value, and "preview", which stands for mentions and pinned        *)
(* messages too.  The scope is known from the start.                       *)
(***************************************************************************)
EXTENDS Requests

CONSTANT Stored   \* bound: settings of the chat, among those it may have at first

VARIABLES
    settings,     \* Chat::_notificationSettings
    scope,        \* Chat::_scopeNotificationSettings, which is ChatList's
    switch,       \* of each setting: "none", or a switch that "follows" or is "set"
    checked,      \* TextSwitch.checked
    tdSettings,   \* external: TDLib's settings of the chat
    tdScope,      \* external: TDLib's settings of the scope
    wanted,       \* history: what was last chosen for the chat, "any" if nothing was
    excused,      \* history: settings of which the choice may be lost
    crossed       \* history: changes have met while a switch followed the chat

tdlibVars == <<queue, tdSettings, tdScope, requests>>
pageVars == <<switch, checked>>
choiceVars == <<wanted, excused, crossed>>
settingsVars == <<tdlibVars, settings, scope, pageVars, acts, choiceVars>>

Setting == {"mute", "preview"}
Values(f) == IF f = "mute" THEN {"on", "hour", "off"} ELSE {"on", "off"}

\* The settings of a chat: of each its value, or that it is the scope's.
OwnSettings == {own \in [Setting -> {"default", "on", "hour", "off"}] : own["preview"] # "hour"}

Follows(f) == switch[f] = "follows"

SettingsInit ==
    /\ queue = <<>> /\ requests = <<>>
    /\ tdScope \in [Setting -> {"on", "off"}] /\ scope = tdScope
    /\ tdSettings \in OwnSettings \cap Stored /\ settings = tdSettings
    /\ switch = [f \in Setting |-> "none"] /\ checked = [f \in Setting |-> FALSE]
    /\ acts = 0
    /\ wanted = [f \in Setting |-> "any"] /\ excused = {} /\ crossed = FALSE

(***************************************************************************)
(* getMuteFor, getShowPreview, ...                                         *)
(***************************************************************************)
InForce(own, default, f) == IF own[f] = "default" THEN default[f] ELSE own[f]

(***************************************************************************)
(* setMuteFor, setShowPreview, ...: all settings as they are known, with   *)
(* one changed, which becomes the default if it has the default's value.   *)
(***************************************************************************)
\* Mutant of Changed: the other settings are not filled in.
ChangedAlone(own, f, v) == [g \in Setting |-> IF g # f \/ scope[f] = v THEN "default" ELSE v]

Changed(own, f, v) == [own EXCEPT ![f] = IF scope[f] = v THEN "default" ELSE v]

ChatQuery(own, f, v) == [of |-> "chat", to |-> Changed(own, f, v)]

SendQueries(queries) ==
    /\ Len(requests) + Len(queries) <= MaxRequests
    /\ requests' = requests \o queries

(***************************************************************************)
(* What becomes of a choice.  One that is made while nothing is under way  *)
(* stays, except that a switch which follows and is checked makes of an    *)
(* hour for ever.  One that meets a query may undo it, for it repeats what *)
(* the chat knows of the other settings; and if a switch follows the chat  *)
(* it may itself be undone, for the switch answers each report.            *)
(***************************************************************************)
Overruled(f, v) == IF v = "hour" /\ Follows(f) /\ checked[f] THEN {f} ELSE {}

ScopeIsKnown ==
    /\ \A i \in DOMAIN requests : requests[i].of = "chat"
    /\ \A i \in DOMAIN queue : queue[i].type = "chat"

Meets(someoneFollows) == crossed' = (crossed \/ (someoneFollows /\ ~Quiet))

Chosen(f, v) ==
    /\ wanted' = [wanted EXCEPT ![f] = v]
    /\ Meets(\E g \in Setting : switch'[g] = "follows")
    /\ excused' = IF crossed' \/ ~ScopeIsKnown THEN Setting
                  ELSE Overruled(f, v) \cup ((IF Quiet THEN excused ELSE Setting) \ {f})

Uncrossed == crossed' = (crossed /\ ~(queue' = <<>> /\ requests' = <<>>))

(***************************************************************************)
(* The pages.  A switch is made unchecked, and its handler runs when the   *)
(* binding checks it.  The second page lies on the first.                  *)
(***************************************************************************)
OpenPage(f) ==
    /\ switch[f] = "none"
    /\ f = "preview" => switch["mute"] # "none"
    /\ switch' = [switch EXCEPT ![f] = "follows"]
    /\ checked' = [checked EXCEPT ![f] = InForce(settings, scope, f) = "on"]
    /\ SendQueries(IF checked'[f] THEN <<ChatQuery(settings, f, "on")>> ELSE <<>>)
    /\ Meets(TRUE)
    /\ excused' = IF Quiet THEN excused ELSE Setting
    /\ UNCHANGED <<queue, tdSettings, tdScope, settings, scope, acts, wanted>>

ClosePage(f) ==
    /\ switch[f] # "none"
    /\ f = "mute" => switch["preview"] = "none"
    /\ switch' = [switch EXCEPT ![f] = "none"]
    /\ checked' = [checked EXCEPT ![f] = FALSE]
    /\ UNCHANGED <<tdlibVars, settings, scope, acts, choiceVars>>

\* The switch sets itself, which ends the binding; then its handler runs.
Tap(f) ==
    /\ switch[f] # "none" /\ Act
    /\ switch' = [switch EXCEPT ![f] = "set"]
    /\ checked' = [checked EXCEPT ![f] = ~checked[f]]
    /\ LET v == IF checked'[f] THEN "on" ELSE "off"
       IN  SendQueries(<<ChatQuery(settings, f, v)>>) /\ Chosen(f, v)
    /\ UNCHANGED <<queue, tdSettings, tdScope, settings, scope>>

\* The menu of the switch.
MuteForAnHour ==
    /\ switch["mute"] # "none" /\ Act
    /\ UNCHANGED <<queue, tdSettings, tdScope, settings, scope, pageVars>>
    /\ SendQueries(<<ChatQuery(settings, "mute", "hour")>>)
    /\ Chosen("mute", "hour")

(***************************************************************************)
(* The settings page of the program, which is not above a page of a chat.  *)
(***************************************************************************)
ChangeScope(f, v) ==
    /\ \A g \in Setting : switch[g] = "none"
    /\ v # scope[f] /\ Act
    /\ SendQueries(<<[of |-> "scope", to |-> [scope EXCEPT ![f] = v]]>>)
    /\ wanted' = [wanted EXCEPT ![f] = "any"]
    /\ UNCHANGED <<queue, tdSettings, tdScope, settings, scope, pageVars, excused, crossed>>

(***************************************************************************)
(* updateChatNotificationSettings: the bindings are evaluated, and a       *)
(* switch that changes writes what it shows.                               *)
(***************************************************************************)
\* Mutant of WriteIfChanged: a negation is forgotten, as for disableMentionNotifications.
WriteIfChangedInverted(own, f) ==
    IF checked'[f] = checked[f] THEN <<>>
    ELSE <<ChatQuery(own, f, IF checked'[f] THEN "off" ELSE "on")>>

WriteIfChanged(own, f) ==
    IF checked'[f] = checked[f] THEN <<>>
    ELSE <<ChatQuery(own, f, IF checked'[f] THEN "on" ELSE "off")>>

UpdateChatNotificationSettings ==
    /\ Received("chat")
    /\ settings' = Head(queue).to
    /\ checked' = [f \in Setting |-> IF Follows(f) THEN InForce(settings', scope, f) = "on" ELSE checked[f]]
    /\ SendQueries(WriteIfChanged(settings', "mute") \o WriteIfChanged(settings', "preview"))
    /\ UNCHANGED <<tdSettings, tdScope, scope, switch, acts, wanted, excused>>
    /\ Uncrossed

\* updateScopeNotificationSettings: no binding hears of it.
UpdateScopeNotificationSettings ==
    /\ Received("scope")
    /\ scope' = Head(queue).to
    /\ UNCHANGED <<tdSettings, tdScope, requests, settings, pageVars, acts, wanted, excused>>
    /\ Uncrossed

(***************************************************************************)
(* TDLib, which reports what has changed, and users of other devices.      *)
(***************************************************************************)
Store(of, to) ==
    /\ tdSettings' = IF of = "chat" THEN to ELSE tdSettings
    /\ tdScope' = IF of = "scope" THEN to ELSE tdScope
    /\ IF <<tdSettings', tdScope'>> = <<tdSettings, tdScope>> THEN UNCHANGED queue
       ELSE Post([type |-> of, to |-> to])

HandleQuery ==
    /\ requests # <<>>
    /\ requests' = Tail(requests)
    /\ Store(Head(requests).of, Head(requests).to)
    /\ UNCHANGED <<settings, scope, pageVars, acts, wanted, excused>>
    /\ Uncrossed

OtherDeviceChat(f, v) ==
    /\ v # tdSettings[f] /\ Act
    /\ Store("chat", [tdSettings EXCEPT ![f] = v])
    /\ wanted' = [wanted EXCEPT ![f] = IF v = "default" THEN "any" ELSE v]
    /\ Meets(\E g \in Setting : Follows(g))
    /\ excused' = IF crossed' \/ requests # <<>> THEN Setting
                  ELSE Overruled(f, v) \cup (excused \ {f})
    /\ UNCHANGED <<requests, settings, scope, pageVars>>

OtherDeviceScope(f, v) ==
    /\ v # tdScope[f] /\ Act
    /\ Store("scope", [tdScope EXCEPT ![f] = v])
    /\ wanted' = [wanted EXCEPT ![f] = "any"]
    /\ Meets(\E g \in Setting : Follows(g))
    /\ UNCHANGED <<requests, settings, scope, pageVars, excused>>

SettingsNext ==
    \/ \E f \in Setting : OpenPage(f) \/ ClosePage(f) \/ Tap(f)
    \/ MuteForAnHour
    \/ \E f \in Setting : \E v \in Values(f) : ChangeScope(f, v) \/ OtherDeviceScope(f, v)
    \/ \E f \in Setting : \E v \in Values(f) \cup {"default"} : OtherDeviceChat(f, v)
    \/ UpdateChatNotificationSettings \/ UpdateScopeNotificationSettings
    \/ HandleQuery

(***************************************************************************)
(* TDLib handles what it is sent, and the event loop what it is told.  No  *)
(* user has to do anything.                                                *)
(***************************************************************************)
SettingsFairness ==
    /\ WF_settingsVars(UpdateChatNotificationSettings)
    /\ WF_settingsVars(UpdateScopeNotificationSettings)
    /\ WF_settingsVars(HandleQuery)

SettingsSpec == SettingsInit /\ [][SettingsNext]_settingsVars /\ SettingsFairness

(***************************************************************************)
(* When nothing is under way TDLib has, of each setting, what was chosen   *)
(* last, here or on another device, though opening a page and each report  *)
(* make the switches write too, and each write repeats all settings.  The  *)
(* choices that may be lost are those of Chosen and OtherDeviceChat.       *)
(***************************************************************************)
ChoicesStay ==
    Quiet => \A f \in Setting \ excused : wanted[f] \in {"any", InForce(tdSettings, tdScope, f)}

(***************************************************************************)
(* A switch that follows the chat writes, TDLib reports what it wrote, and *)
(* the switch follows that: it comes to an end, unless changes have met.   *)
(* (Two reports that disagree, one on its way while the switch answers the *)
(* other, are answered in turn without end.)                               *)
(***************************************************************************)
SwitchSettles == []<>(Quiet \/ crossed)
=============================================================================
