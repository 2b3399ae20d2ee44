---------------------------- MODULE MCMcpWrites ----------------------------
(* Two calls on a locked record and one of an action without a lock.       *)
EXTENDS McpWrites, TLC

CONSTANTS first, second, unlocked, series, queue

MCWrite == {first, second, unlocked}
MCLocked == {first, second}
MCRecord == {series, queue}
MCTarget == (first :> series @@ second :> series @@ unlocked :> queue)
=============================================================================
