---------------------------- MODULE PersistentMap ----------------------------
(***************************************************************************)
(* What the attribute store promises: a map in memory and a snapshot of it *)
(* on disk. Writes change the map; a save replaces the snapshot by the     *)
(* whole map, never by a mixture of old and new values; a restart brings   *)
(* back exactly the snapshot.                                              *)
(***************************************************************************)
CONSTANTS Maps,        \* the possible maps
          Fresh        \* the map of a device that has never saved

VARIABLES mem,         \* the map; while down, what a restart will bring back
          disk,        \* the snapshot
          up           \* the store answers requests

vars == <<mem, disk, up>>

Init ==
    /\ disk \in Maps
    /\ mem = disk
    /\ up = FALSE

(* Some values change and the map may be saved, whole, in the same step.   *)
Write ==
    /\ up
    /\ mem' \in Maps
    /\ disk' \in {disk, mem'}
    /\ UNCHANGED up

Erase ==
    /\ up
    /\ disk' = Fresh
    /\ UNCHANGED <<mem, up>>

PowerOff ==
    /\ up
    /\ up' = FALSE
    /\ mem' = disk
    /\ UNCHANGED disk

Start ==
    /\ ~up
    /\ up' = TRUE
    /\ UNCHANGED <<mem, disk>>

Next == Write \/ Erase \/ PowerOff \/ Start

Spec == Init /\ [][Next]_vars
==============================================================================
