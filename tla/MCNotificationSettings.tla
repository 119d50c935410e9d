----------------------- MODULE MCNotificationSettings -----------------------
(* NotificationSettings for TLC: MCNotificationSettings.cfg has three acts  *)
(* of users, and two queries and two reports that can cross.  At first the  *)
(* chat has one setting of its own, and defers to its scope for the other.  *)
EXTENDS NotificationSettings

MCStored == {[mute |-> v, preview |-> "default"] : v \in {"on", "off"}}
=============================================================================
