--------------------------- MODULE MCNotifications ---------------------------
(* A small instance of Notifications: jobs with equal inputs.                *)
EXTENDS Notifications, TLC

CONSTANT hash

SameInput == [j \in Jobs |-> hash]
=============================================================================
