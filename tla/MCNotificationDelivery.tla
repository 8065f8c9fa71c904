----------------------- MODULE MCNotificationDelivery -----------------------
(* Instances of NotificationDelivery for TLC.                              *)
EXTENDS NotificationDelivery

\* Everything that can go wrong besides exits.
AllFaults == {"enqueue", "db", "refused", "reply"}

=============================================================================
