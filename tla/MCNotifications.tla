-------------------------- MODULE MCNotifications ---------------------------
(***************************************************************************)
(* A small instance of Notifications for TLC: a day of two hours, a        *)
(* Duration of less than four, the first and the last of the channels.     *)
(***************************************************************************)
EXTENDS Notifications

MCRank == [ch \in Channels |-> IF ch = "telegram" THEN 1 ELSE 4]
=============================================================================
