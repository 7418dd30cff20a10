----------------------------- MODULE AtomicValue -----------------------------
(***************************************************************************)
(* What attr_mutex promises of one value to those who use it: every write  *)
(* and every read is one step, and a read returns what was written last.   *)
(* Defaults are copied without the mutex: once that has met another access *)
(* nothing is promised any more.                                           *)
(***************************************************************************)
CONSTANTS Threads,
          Values,
          Initial      \* the value at the start, and what a copy is before a read

VARIABLES value,       \* the value
          copy,        \* what the last read of each thread has returned
          torn         \* a default has met another access

vars == <<value, copy, torn>>

Init ==
    /\ value = Initial
    /\ copy = [t \in Threads |-> Initial]
    /\ torn = FALSE

Write == value' \in Values /\ UNCHANGED copy

Read(t) == copy' = [copy EXCEPT ![t] = value] /\ UNCHANGED value

(* The thread calls another function.                                      *)
Forget(t) == copy' = [copy EXCEPT ![t] = Initial] /\ UNCHANGED value

Next ==
    \/ /\ ~torn'
       /\ Write \/ \E t \in Threads : Read(t) \/ Forget(t)
    \/ torn'

Spec == Init /\ [][Next]_vars /\ [][torn => torn']_vars
==============================================================================
