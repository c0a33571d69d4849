---------------------------- MODULE DurableStore ----------------------------
(***************************************************************************)
(* What the daemon's key/value store promises (persistency.rs): a restart  *)
(* brings back every change up to some moment and none after it.  It loses *)
(* at most the last changes, never one in the middle, and what is stored   *)
(* never goes back.  A store is the number of changes made to it.          *)
(***************************************************************************)
EXTENDS Naturals

VARIABLES
    mem,   \* the store as the daemon reads it
    disk   \* the store as a restart would find it
vars == <<mem, disk>>

Init == mem \in Nat /\ disk = mem

Change == mem' = mem + 1 /\ UNCHANGED disk

Flush == disk' \in disk .. mem /\ UNCHANGED mem

Restart == disk' \in disk .. mem /\ mem' = disk'

Next == Change \/ Flush \/ Restart
Spec == Init /\ [][Next]_vars
=============================================================================
