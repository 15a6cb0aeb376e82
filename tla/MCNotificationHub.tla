------------------------ MODULE MCNotificationHub ------------------------
(* Instances of NotificationHub for TLC. *)
EXTENDS NotificationHub

CONSTANTS s1, s2, b1, b2
=============================================================================
