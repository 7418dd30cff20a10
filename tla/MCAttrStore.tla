----------------------------- MODULE MCAttrStore -----------------------------
(***************************************************************************)
(* A table of three attributes for the model checker, one of each kind the  *)
(* code tells apart, with types of two bits and of one.                    *)
(***************************************************************************)
EXTENDS AttrStore

Entry(validator, span, max, flags) ==
    [validator |-> validator, lo |-> 0, span |-> span, min |-> 0, max |-> max,
     size |-> 0, default |-> 0, zero |-> 0, flags |-> flags]

(* 1: a setting with a range narrower than its type; 2: a read-only value  *)
(* the firmware sets and saves, its range unchecked; 3: a deprecated       *)
(* control point, in old files but no longer saved.                        *)
MCIds == 1..3
MCTable ==
    << Entry("int", 4, 1, {"FLAGS_READABLE", "FLAGS_WRITABLE", "FLAGS_SAVABLE",
                 "FLAGS_BROADCAST", "FLAGS_NOTIFY_IF_VALUE_UNCHANGED"}),
       Entry("int", 2, 0, {"FLAGS_READABLE", "FLAGS_SAVABLE", "FLAGS_BROADCAST"}),
       Entry("cp", 2, 0, {"FLAGS_WRITABLE", "FLAGS_SAVABLE", "FLAGS_DEPRECATED",
                 "FLAGS_BROADCAST"}) >>

MCUnknownKey == 0
MCRaw == {0, 1, 2, 5}

KV(k, v) == [key |-> k, val |-> v]

(* Good files, a value out of range, one that is in range only after the   *)
(* conversion, a read-only key, an unknown key, no pair, no file.          *)
MCLoadFiles ==
    { Kvp({KV(1, 1), KV(3, 1)}), Kvp({KV(1, 0), KV(1, 1)}),
      Kvp({KV(3, 0), KV(1, 2)}), Kvp({KV(1, 5)}), Kvp({KV(1, 1), KV(2, 1), KV(3, 0)}),
      Kvp({KV(1, 1), KV(0, 1)}), Kvp({}), NoFile }

(* The same for files an earlier firmware may have left.                   *)
MCInitFiles ==
    { Kvp({KV(1, 1), KV(2, 1), KV(3, 1)}), Kvp({KV(1, 2), KV(2, 1)}),
      Kvp({KV(1, 1), KV(0, 1)}), Kvp({}), NoFile,
      [state |-> "unparsable", pairs |-> {}] }
==============================================================================
