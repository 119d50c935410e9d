-------------------------- MODULE DownloadSettings --------------------------
(***************************************************************************)
(* The AutoDownloadSettings objects, one per type of connection            *)
(* (components/autodownloadsettings.cpp), their copy in QSettings and the  *)
(* one on the server, and the network type (core/telegrammanager.cpp).     *)
(* A setting stands for the enabled flag and the limits of one object: may *)
(* a photo be downloaded.  The presets are left out: the answer to         *)
(* getAutoDownloadSettingsPresets has no case in                           *)
(* handleMessageWithResponse, and RequestTable shows that such an answer   *)
(* reaches nobody.                                                         *)
(***************************************************************************)
EXTENDS Sequences, SequencesExt

CONSTANT Types      \* types of connection that have settings; one is "wifi"

ASSUME TypesAssumption == IsFiniteSet(Types) /\ "wifi" \in Types

VARIABLES
    stored,       \* QSettings: the setting of each type
    objects,      \* Core::_wifiAutoDownloadSettings, ...
    route,        \* external: the default route of the device
    networkType,  \* TelegramManager::_networkType
    sent,         \* external: queries that TDLib has not handled
    serverHas,    \* external: the setting of each type that the server has
    tdNetwork     \* external: the network type TDLib works with

settingsVars == <<stored, objects, route, networkType, sent, serverHas, tdNetwork>>

Settings == [Types -> BOOLEAN]

\* Before the login the members have no value, and nobody reads them.
Unloaded == [t \in Types |-> FALSE]

Routes == {"none", "wifi", "cellular", "roaming", "other"}

Send(query) == sent' = Append(sent, query)
SettingQuery(t, on) == [type |-> "settings", of |-> t, on |-> on]

(***************************************************************************)
(* loadSettings of every object, when Authorization is authorized, sends   *)
(* what is stored; saveSettings, after a setter, stores and sends.         *)
(***************************************************************************)
\* Mutant of LoadSettings: what is stored is not sent.
LoadSettingsUnsent ==
    /\ objects' = stored
    /\ UNCHANGED <<stored, route, networkType, sent, serverHas, tdNetwork>>

LoadSettings ==
    /\ objects' = stored
    /\ sent' = sent \o SetToSeq({SettingQuery(t, stored[t]) : t \in Types})
    /\ UNCHANGED <<stored, route, networkType, serverHas, tdNetwork>>

SaveSettings(t, on) ==
    /\ objects' = [objects EXCEPT ![t] = on]
    /\ stored' = [stored EXCEPT ![t] = on]
    /\ Send(SettingQuery(t, on))
    /\ UNCHANGED <<route, networkType, serverHas, tdNetwork>>

(***************************************************************************)
(* defaultRouteChanged: cellular and roaming are swapped.  setNetworkType  *)
(* keeps the type and sends it.                                            *)
(***************************************************************************)
NetworkOf(r) == CASE r = "cellular" -> "roaming" [] r = "roaming" -> "cellular" [] OTHER -> r

SetNetworkType(r) ==
    /\ networkType' = NetworkOf(r)
    /\ Send([type |-> "network", is |-> NetworkOf(r)])

DefaultRouteChanged(r) ==
    /\ r # route /\ route' = r
    /\ SetNetworkType(r)
    /\ UNCHANGED <<stored, objects, serverHas, tdNetwork>>

(***************************************************************************)
(* Files::getActiveAutoDownloadSetting.  Core gives Files the object of    *)
(* wifi for every type of network (core.cpp:57), so the type it looks at   *)
(* makes no difference.                                                    *)
(***************************************************************************)
ActiveSetting == objects["wifi"]

\* TDLib handles the queries in order.
HandleQuery ==
    /\ sent # <<>> /\ sent' = Tail(sent)
    /\ LET query == Head(sent)
       IN  /\ serverHas' = IF query.type = "settings" THEN [serverHas EXCEPT ![query.of] = query.on] ELSE serverHas
           /\ tdNetwork' = IF query.type = "network" THEN query.is ELSE tdNetwork
    /\ UNCHANGED <<stored, objects, route, networkType>>

\* The program ends: what TDLib has not handled is lost, and the objects.
LoseQueries ==
    /\ sent' = <<>>
    /\ objects' = Unloaded
    /\ UNCHANGED <<stored, route, networkType, serverHas, tdNetwork>>

SettingsInit ==
    /\ stored = [t \in Types |-> TRUE]
    /\ objects = Unloaded
    /\ route \in Routes
    /\ networkType = "none"
    /\ sent = <<>>
    /\ serverHas = stored
    /\ tdNetwork = "other"

(***************************************************************************)
(* When TDLib has handled what was sent, the server has the settings the   *)
(* user sees and the next start will load, and TDLib and the program have  *)
(* the same network type: that of the route, but with cellular and roaming *)
(* swapped (core/telegrammanager.cpp:340).                                 *)
(***************************************************************************)
SettingsInForce(authorized) ==
    authorized /\ sent = <<>> =>
        /\ objects = stored /\ serverHas = stored
        /\ tdNetwork = networkType /\ networkType = NetworkOf(route)
=============================================================================
