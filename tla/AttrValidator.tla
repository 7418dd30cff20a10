---------------------------- MODULE AttrValidator ----------------------------
(***************************************************************************)
(* The value validators of src/attr_validator.c as pure operators.         *)
(*                                                                         *)
(* A table entry is a record                                               *)
(*   validator  which family of av_* functions checks the attribute        *)
(*   lo, span   smallest value of the C type and number of values it has   *)
(*              (0 and 2^8 for a uint8_t, -2^7 and 2^8 for an int8_t)      *)
(*   min, max   the limits of the API file; lengths for a string           *)
(*   size       sizeof() of the storage of a string or of an array         *)
(*   default    the value attr_table_initialize() gives the attribute      *)
(*   zero       what its storage reads as before that                      *)
(*   flags      the flags of the entry                                     *)
(* Numbers are integers, strings and arrays are sequences.                 *)
(***************************************************************************)
EXTENDS Integers, Sequences

Flags == { "FLAGS_READABLE", "FLAGS_WRITABLE", "FLAGS_BROADCAST",
           "FLAGS_SAVABLE", "FLAGS_DEPRECATED", "FLAGS_HIDE_IN_SHOW",
           "FLAGS_OBSCURE_IN_SHOW", "FLAGS_NOTIFY_IF_VALUE_UNCHANGED" }

(* av_uint8 .. av_int32, av_uint64 and av_int64, av_bool, av_float,        *)
(* av_string, av_array; the numeric, boolean and string control points.    *)
Validators == { "int", "int64", "bool", "float", "string", "array",
                "cp", "cpb", "cps" }

Has(e, flag) == flag \in e.flags

(* The low bytes of what pv points to, read as the type of the attribute.  *)
Wrap(e, n) == ((n - e.lo) % e.span) + e.lo

(* The value a successful write leaves in pData.                           *)
Stored(e, raw) ==
    IF e.validator \in {"int", "int64", "bool", "cp", "cpb"}
    THEN Wrap(e, raw)
    ELSE raw

(* The error code of a numeric range check; min = max switches it off.     *)
range_check(e, value) ==
    CASE e.min = e.max -> "ok"
      [] e.min # e.max /\ value < e.min -> "too_low"
      [] e.min # e.max /\ value > e.max -> "too_high"
      [] OTHER -> "ok"

range_check_bool(value) == IF value \in {0, 1} THEN "ok" ELSE "too_high"

(* A string needs room for its terminator: vlen < size, not <=.            *)
string_check(e, vlen) ==
    CASE vlen < e.min -> "invalid_length"
      [] vlen >= e.min /\ vlen < e.size -> "ok"
      [] OTHER -> "too_many_characters"

array_check(e, vlen) == IF vlen = e.size THEN "ok" ELSE "invalid_length"

(* What the validator of e returns for raw, whether it writes or not.      *)
Verdict(e, raw) ==
    CASE e.validator \in {"int", "cp"}   -> range_check(e, Stored(e, raw))
      [] e.validator = "int64"           -> "ok"
      [] e.validator \in {"bool", "cpb"} -> range_check_bool(Stored(e, raw))
      [] e.validator = "float"           -> range_check(e, raw)
      [] e.validator \in {"string", "cps"} -> string_check(e, Len(raw))
      [] e.validator = "array"           -> array_check(e, Len(raw))

Accepts(e, raw) == Verdict(e, raw) = "ok"

(* An accepted write sets the modified bit when the value differs; a       *)
(* numeric control point sets it without looking.                          *)
Modifies(e, current, raw) ==
    \/ e.validator \in {"cp", "cpb"}
    \/ Stored(e, raw) # current

(* An accepted write of the current value sets the unchanged bit if the    *)
(* entry asks for it; no control point does, av_cps included.              *)
notify_on_unchanged(e, current, raw) ==
    /\ Has(e, "FLAGS_NOTIFY_IF_VALUE_UNCHANGED")
    /\ e.validator \notin {"cp", "cpb", "cps"}
    /\ ~Modifies(e, current, raw)
==============================================================================
