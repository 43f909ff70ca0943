------------------------- MODULE MCReminderDelivery -------------------------
(* Small instances of ReminderDelivery for TLC. *)
EXTENDS ReminderDelivery

CONSTANTS w1, w2
=============================================================================
