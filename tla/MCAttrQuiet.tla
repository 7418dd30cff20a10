----------------------------- MODULE MCAttrQuiet -----------------------------
(***************************************************************************)
(* Two attributes, of the first and of the second word of the list, and    *)
(* four tables one after the other: one of the same size, one that needs a *)
(* second word, and one that does without it.                              *)
(***************************************************************************)
EXTENDS AttrQuiet

CONSTANTS a, b

MCAttributes == {a, b}
MCWord == [i \in MCAttributes |-> IF i = a THEN 1 ELSE 2]
MCWords == [t \in Tables |-> IF t = 3 THEN 2 ELSE 1]
==============================================================================
