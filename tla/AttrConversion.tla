---------------------------- MODULE AttrConversion ----------------------------
(***************************************************************************)
(* How the value of an attribute travels: through the bytes at pData, the  *)
(* text of a file or of the shell, the typed functions of attr.h and the   *)
(* CBOR of an SMP message. src/attr.c, src/attr_shell.c,                   *)
(* src/attribute_mgmt.c and the decoder and encoder zcbor generated.       *)
(*                                                                         *)
(* One savable attribute is enough, its type being any of the table: no    *)
(* conversion looks at another attribute. A write and its save hold        *)
(* attr_mutex and are one step. attr_add_uint32() copies the value in a    *)
(* step before; one addition is on its way at a time. The step of          *)
(* attr_default(), which takes no mutex, is in AttrAccess; a factory reset *)
(* is attr_default() and save_attributes() here.                           *)
(***************************************************************************)
EXTENDS AttrValidator

CONSTANTS
    Table,             \* the entries an attribute may have, with their type
    Hex,               \* values of a hexadecimal digit; a byte is two of them
    Span32,            \* values of a uint32_t and of an unsigned long
    Span64,            \* values of a uint64_t
    Grain,             \* distance of the numbers "%e" can print
    ATTR_MAX_VALUE_SIZE,
    Numbers,           \* numbers of files, callers and clients: integers,
                       \* or floats in units of which Grain is a multiple
    Char,              \* characters
    Strings, Arrays,   \* strings and arrays of bytes they use
    HexTexts,          \* texts that should be hexadecimal digits
    BitWeights,        \* 2^bit for the bits of attr_set_mask32/64
    Unknown            \* what a caller may expect when no one told

Byte == Hex * Hex

Unsigned == {"U8", "U16", "U32", "U64"}
Signed == {"S8", "S16", "S32", "S64"}
Types == Unsigned \cup Signed \cup {"BOOL", "FLOAT", "STRING", "BYTE_ARRAY"}
Short == {"U8", "U16", "U32", "BOOL"}
ShortSigned == {"S8", "S16", "S32"}

InType(e, n) == e.lo <= n /\ n < e.lo + e.span

(* The number "%e" prints for n: the nearest with seven digits.            *)
Rounded(n) == ((n + Grain \div 2) \div Grain) * Grain

Integer(e) == e.type \in Unsigned \cup Signed \cup {"BOOL"}

(* What pData points to.                                                   *)
Typed(e, v) ==
    CASE Integer(e)            -> v \in Int /\ InType(e, v)
      [] e.type = "FLOAT"      -> v \in Int
      [] e.type = "STRING"     -> v \in Seq(Char)
      [] e.type = "BYTE_ARRAY" -> v \in Seq(0 .. Byte - 1)

(* The generator chooses the validator by the type, and                    *)
(* ATTR_MAX_VALUE_SIZE so that the longest string and array fit. It prints *)
(* whatever limits the API file gives: those of a float may have more      *)
(* digits than "%e" prints.                                                *)
EntryAssumption(e) ==
    /\ e.type \in Types
    /\ e.min \in Int /\ e.max \in Int /\ e.size \in Nat
    /\ Integer(e) =>
          /\ e.validator \in IF e.type = "BOOL" THEN {"bool", "cpb"}
                             ELSE {"int", "int64", "cp"}
          /\ e.span \in Nat /\ e.span >= 2 /\ e.span <= Span64
          /\ e.type \in Short \cup ShortSigned => e.span <= Span32
          /\ e.type \in {"U32", "S32"} => e.span = Span32
          /\ e.type \in {"U64", "S64"} => e.span = Span64
          /\ e.lo \in Int
          /\ IF e.type \in Signed THEN 2 * e.lo = -e.span ELSE e.lo = 0
    /\ e.type = "FLOAT" =>
          e.validator = "float"
    /\ e.type = "STRING" =>
          /\ e.validator \in {"string", "cps"}
          /\ e.size <= ATTR_MAX_VALUE_SIZE
    /\ e.type = "BYTE_ARRAY" =>
          /\ e.validator = "array"
          /\ 2 * e.size < ATTR_MAX_VALUE_SIZE
          /\ e.size > 0
    /\ Typed(e, e.default)
    /\ Accepts(e, e.default)

ASSUME ConversionAssumption ==
    /\ Hex \in Nat /\ Hex > 1
    /\ Span32 \in Nat /\ Span32 > 1
    /\ Span64 \in Nat /\ Span64 > Span32
    /\ Grain \in Nat \ {0}
    /\ ATTR_MAX_VALUE_SIZE \in Nat /\ ATTR_MAX_VALUE_SIZE > 1
    /\ Numbers \subseteq Int
    /\ Strings \subseteq Seq(Char)
    /\ Arrays \subseteq Seq(0 .. Byte - 1)
    /\ HexTexts \subseteq Seq(0 .. Hex - 1)
    /\ BitWeights \subseteq Nat \ {0}
    /\ \A e \in Table : EntryAssumption(e)

VARIABLES
    entry,             \* the entry of the attribute: it never changes
    ram,               \* the value at pData
    text,              \* its value in the attribute file
    told,              \* the value the last accepted write was meant to set
    unsaved,           \* the value at pData may not be that of the file
    sum                \* what attr_add_uint32() is going to write

vars == <<entry, ram, text, told, unsaved, sum>>
-----------------------------------------------------------------------------
(* Texts. A numeral, the characters of a string (which may look like       *)
(* anything, here never like a numeral), or hexadecimal digits.            *)
Numeral(n) == [form |-> "numeral", of |-> n]
Chars(s) == [form |-> "chars", of |-> s]
Digits(d) == [form |-> "digits", of |-> d]
EmptyMark == [form |-> "empty", of |-> <<>>]      \* LCZ_KVP_EMPTY_VALUE_STR
NoText == [form |-> "none", of |-> <<>>]

TextLen(t) == IF t.form \in {"chars", "digits"} THEN Len(t.of) ELSE 1

(* strtoul(), strtoull(): saturate, and negate modulo the width.           *)
strtou(span, t) ==
    CASE t.form # "numeral" -> 0
      [] t.form = "numeral" /\ t.of \in -(span - 1) .. span - 1 -> t.of % span
      [] OTHER -> span - 1

(* strtol(), strtoll(): clamp.                                             *)
strtos(span, t) ==
    CASE t.form # "numeral" -> 0
      [] t.form = "numeral" /\ t.of < -(span \div 2) -> -(span \div 2)
      [] t.form = "numeral" /\ t.of >= span \div 2 -> span \div 2 - 1
      [] OTHER -> t.of

strtof(t) == IF t.form = "numeral" THEN t.of ELSE 0

(* bin2hex() writes the high digit of each byte first.                     *)
bin2hex(v) == [k \in 1 .. 2 * Len(v) |-> IF k % 2 = 1
                                         THEN v[(k + 1) \div 2] \div Hex
                                         ELSE v[k \div 2] % Hex]

(* hex2bin() puts a zero before an odd number of digits.                   *)
hex2bin(d) ==
    LET even == IF Len(d) % 2 = 0 THEN d ELSE <<0>> \o d
    IN [k \in 1 .. Len(even) \div 2 |-> even[2 * k - 1] * Hex + even[2 * k]]

hex2bin_of(t) == IF t.form = "digits" THEN hex2bin(t.of) ELSE <<>>
chars_of(t) == IF t.form = "chars" THEN t.of ELSE <<>>

-----------------------------------------------------------------------------
(* From the value to text: save_attributes_internal() and dump.            *)
entry_to_kvp(e, v) ==
    CASE Integer(e)            -> Numeral(v)
      [] e.type = "FLOAT"      -> Numeral(Rounded(v))
      [] e.type = "STRING"     -> IF v = <<>> THEN EmptyMark ELSE Chars(v)
      [] e.type = "BYTE_ARRAY" -> Digits(bin2hex(v))

(* The buffer str[] must have room for the terminator.                     *)
Savable(t) == TextLen(t) > 0 /\ TextLen(t) < ATTR_MAX_VALUE_SIZE

\* mutant: every number is converted by strtoul()
ConvertLong(e, t) ==
    CASE e.type \in Unsigned \cup {"BOOL"} -> strtou(Span32, t)
      [] e.type \in Signed                 -> strtos(Span32, t)
      [] e.type = "FLOAT"                  -> strtof(t)
      [] e.type = "STRING"                 -> chars_of(t)
      [] e.type = "BYTE_ARRAY"             -> hex2bin_of(t)

(* From the text to the union conversion.result, as its type reads it.     *)
kvp_convert(e, t) ==
    CASE e.type \in Unsigned \cup {"BOOL"} -> strtou(Span64, t)
      [] e.type \in Signed                 -> strtos(Span64, t)
      [] e.type = "FLOAT"                  -> strtof(t)
      [] e.type = "STRING"                 -> chars_of(t)
      [] e.type = "BYTE_ARRAY"             -> hex2bin_of(t)

(* loader() takes the pair: the value is not too long, it converts and     *)
(* the validator accepts it.                                               *)
LoadsFrom(e, t) ==
    /\ TextLen(t) <= ATTR_MAX_VALUE_SIZE
    /\ e.type = "BYTE_ARRAY" => hex2bin_of(t) # <<>>
    /\ Accepts(e, kvp_convert(e, t))

Loaded(e, t) == Stored(e, kvp_convert(e, t))

(* The number "%e" prints of a float may be outside of the limits although *)
(* the float is not.                                                       *)
PrintsInside(e, v) == e.type = "FLOAT" => Accepts(e, Rounded(v))

(* The argument of "attr set" and "attr mod". An unsigned long and a long  *)
(* have 32 bits; "attr mod" reads an int64_t with strtoull().              *)
ArgumentOf(e, t, mod) ==
    CASE e.type \in Short       -> strtou(Span32, t)
      [] e.type \in ShortSigned -> strtos(Span32, t)
      [] e.type = "U64"         -> strtou(Span64, t)
      [] e.type = "S64" /\ mod  -> Wrap(e, strtou(Span64, t))
      [] e.type = "S64" /\ ~mod -> strtos(Span64, t)
      [] OTHER                  -> kvp_convert(e, t)

(* What someone who writes t means it to be, if the type can hold it.      *)
Meaning(e, t) ==
    CASE Integer(e) /\ t.form = "numeral" /\ InType(e, t.of) -> t.of
      [] e.type = "FLOAT" /\ t.form = "numeral" -> t.of
      [] e.type = "STRING" -> chars_of(t)
      [] e.type = "BYTE_ARRAY" -> hex2bin_of(t)
      [] OTHER -> Unknown

-----------------------------------------------------------------------------
(* The bytes at pData, as one number of its size.                          *)
Bytes(e, v) == v % e.span

\* mutant: the size of the attribute has no case of its own
NotExtended(e, v) == Bytes(e, v)

sign_extend64(e, v) ==
    IF Bytes(e, v) >= e.span \div 2 THEN Bytes(e, v) - e.span ELSE Bytes(e, v)

(* What attr_get() copies into the 64 bits its caller has cleared, as a    *)
(* number of the caller's type.                                            *)
attr_get(e, v) == IF e.type \in Signed THEN sign_extend64(e, v) ELSE Bytes(e, v)

(* The typed accessors: those of another type return -EINVAL.              *)
Accessors == {"attr_copy_uint32", "attr_copy_signed32", "attr_copy_uint64",
              "attr_copy_signed64", "attr_get_bool", "attr_copy_float"}

Reads(accessor) ==
    CASE accessor = "attr_copy_uint32"   -> Short
      [] accessor = "attr_copy_signed32" -> ShortSigned
      [] accessor = "attr_copy_uint64"   -> {"U64"}
      [] accessor = "attr_copy_signed64" -> {"S64"}
      [] accessor = "attr_get_bool"      -> {"BOOL"}
      [] accessor = "attr_copy_float"    -> {"FLOAT"}

Copied(accessor, e, v) ==
    CASE accessor \in {"attr_copy_uint32", "attr_copy_uint64", "attr_get_bool"}
            -> Bytes(e, v)
      [] accessor \in {"attr_copy_signed32", "attr_copy_signed64"}
            -> sign_extend64(e, v)
      [] accessor = "attr_copy_float" -> v

-----------------------------------------------------------------------------
(* SMP. A CBOR item has a major type and a value; an integer that is not   *)
(* negative has major type "uint", whatever type it comes from.            *)
Item(major, value) == [major |-> major, value |-> value]
CborInt(n) == Item(IF n >= 0 THEN "uint" ELSE "nint", n)

(* allow_get() and the flag FLAGS_READABLE.                                *)
MayRead(e) ==
    /\ Has(e, "FLAGS_READABLE")
    /\ ~Has(e, "FLAGS_HIDE_IN_SHOW")
    /\ ~Has(e, "FLAGS_OBSCURE_IN_SHOW")

(* The four bytes of a float are copied into the low half of a double: a   *)
(* number smaller than 2.2e-314, zero for every purpose.                   *)
FloatInDouble(v) == 0

cbor_encode_attribute(e, v) ==
    CASE Integer(e) /\ e.type # "BOOL" -> CborInt(attr_get(e, v))
      [] e.type = "BOOL"       -> Item("bool", attr_get(e, v))
      [] e.type = "FLOAT"      -> Item("float", FloatInDouble(v))
      [] e.type = "STRING"     -> Item("tstr", v)
      [] e.type = "BYTE_ARRAY" -> Item("bstr", v)

(* The range the encoder and the decoder allow: INT64_MIN is outside.      *)
InCborRange(item) ==
    CASE item.major = "uint" -> item.value < Span64
      [] item.major = "nint" -> item.value > -(Span64 \div 2)
      [] OTHER -> TRUE

CanBeRead(e, v) == MayRead(e) /\ InCborRange(cbor_encode_attribute(e, v))

(* The alternatives of p2 are tried in the order bool, uint64, int64,      *)
(* tstr, float, bstr: the first that decodes is p2_choice.                 *)
p2_choice(item) ==
    CASE item.major = "uint" -> "uint64"
      [] item.major = "nint" -> "int64"
      [] OTHER -> item.major

\* mutant: an array of bytes is expected as a text
ArrayAsText(e) ==
    CASE e.type \in Unsigned   -> "uint64"
      [] e.type \in Signed     -> "int64"
      [] e.type = "BOOL"       -> "bool"
      [] e.type = "STRING"     -> "tstr"
      [] e.type = "FLOAT"      -> "float"
      [] e.type = "BYTE_ARRAY" -> "tstr"

(* The choice set_parameter() asks for.                                    *)
ChoiceFor(e) ==
    CASE e.type \in Unsigned   -> "uint64"
      [] e.type \in Signed     -> "int64"
      [] e.type = "BOOL"       -> "bool"
      [] e.type = "STRING"     -> "tstr"
      [] e.type = "FLOAT"      -> "float"
      [] e.type = "BYTE_ARRAY" -> "bstr"

\* mutant: the cast to the type of the attribute is trusted
NoBounds(e, n) == TRUE

WithinBounds(e, n) == e.type \in Unsigned \cup Signed => InType(e, n)

CanBeSet(e, item) ==
    /\ InCborRange(item)
    /\ p2_choice(item) = ChoiceFor(e)
    /\ WithinBounds(e, item.value)
    /\ Has(e, "FLAGS_WRITABLE")
    /\ Accepts(e, item.value)

-----------------------------------------------------------------------------
NoSum == [raw |-> 0, meaning |-> Unknown, copied |-> FALSE]

Init ==
    /\ entry \in Table
    /\ ram = entry.default
    /\ text = NoText
    /\ told = entry.default
    /\ unsaved = FALSE
    /\ sum = NoSum

(* save_attributes_internal(): the file gets the text of v, or the save    *)
(* fails and leaves the file as it was.                                    *)
Save(v) ==
    \/ text' = entry_to_kvp(entry, v) /\ unsaved' = FALSE
    \/ text' = text /\ unsaved' = TRUE

(* attr_write() and save_single(): a change is saved, now or by a later    *)
(* save_attributes().                                                      *)
attr_write(raw, meaning) ==
    /\ Accepts(entry, raw)
    /\ ram' = Stored(entry, raw)
    /\ IF Modifies(entry, ram, raw)
       THEN Save(Stored(entry, raw))
       ELSE UNCHANGED <<text, unsaved>>
    /\ told' = meaning
    /\ UNCHANGED entry

(* What the numbers of a call mean to its caller: the value, if the        *)
(* attribute can hold it.                                                  *)
AsNumber(n) == Meaning(entry, Numeral(n))

(* A bool whose low byte is neither 0 nor 1 is undefined behaviour in      *)
(* av_bool(): such arguments are left out.                                 *)
Defined(raw) == entry.type = "BOOL" => raw % Byte \in {0, 1}

(* A client writes. Every kind of item is tried on every type.             *)
Items == {CborInt(n) : n \in {m \in Numbers : m < Span64 /\ m >= -Span64}}
         \cup {Item("float", n) : n \in Numbers}
         \cup {Item("bool", n) : n \in {0, 1}}
         \cup {Item("tstr", s) : s \in Strings}
         \cup {Item("bstr", a) : a \in Arrays}

set_parameter ==
    \E item \in Items :
        /\ CanBeSet(entry, item)
        /\ attr_write(item.value, item.value)
        /\ UNCHANGED sum

(* Texts that fit the type, and for a number also one that is none.        *)
Texts == {t \in {Numeral(n) : n \in Numbers} : Integer(entry) \/ entry.type = "FLOAT"}
         \cup {Chars(s) : s \in {s \in Strings : entry.type # "BYTE_ARRAY" /\ s # <<>>}}
         \cup {Digits(d) : d \in {d \in HexTexts : entry.type = "BYTE_ARRAY"}}

(* attr_load() of a file with this attribute, and "attr load".             *)
attr_load ==
    \E t \in Texts :
        /\ Has(entry, "FLAGS_WRITABLE")
        /\ Defined(kvp_convert(entry, t))
        /\ LoadsFrom(entry, t)
        /\ attr_write(kvp_convert(entry, t), Meaning(entry, t))
        /\ UNCHANGED sum

(* "attr set" and "attr set_string" go through attr_set(); "attr mod"      *)
(* through a typed setter, which asks for no flag.                         *)
ats_set_cmd ==
    \E t \in Texts :
        /\ Has(entry, "FLAGS_WRITABLE")
        /\ Defined(ArgumentOf(entry, t, FALSE))
        /\ attr_write(ArgumentOf(entry, t, FALSE), Meaning(entry, t))
        /\ UNCHANGED sum

ats_mod_cmd ==
    \E t \in Texts :
        /\ Defined(ArgumentOf(entry, t, TRUE))
        /\ attr_write(ArgumentOf(entry, t, TRUE), Meaning(entry, t))
        /\ UNCHANGED sum

(* attr_set_uint32(), attr_set_no_broadcast_uint32(), attr_set_signed32(), *)
(* attr_set_uint64(), attr_set_signed64(), attr_set_bool(),                *)
(* attr_set_float(), attr_set_string(), attr_set_byte_array(), for the     *)
(* types attr.h names. The argument has the width of the parameter, not    *)
(* that of the attribute.                                                  *)
InParameter(n) ==
    CASE entry.type \in {"U8", "U16", "U32"} -> n \in 0 .. Span32 - 1
      [] entry.type \in ShortSigned -> n \in -(Span32 \div 2) .. Span32 \div 2 - 1
      [] entry.type \in {"U64", "S64"} -> InType(entry, n)
      [] entry.type = "BOOL" -> n \in {0, 1}
      [] OTHER -> entry.type = "FLOAT"

typed_set ==
    /\ \/ \E n \in Numbers : InParameter(n) /\ attr_write(n, AsNumber(n))
       \/ \E s \in Strings : entry.type = "STRING" /\ attr_write(s, s)
       \/ \E a \in Arrays : entry.type = "BYTE_ARRAY" /\ attr_write(a, a)
    /\ UNCHANGED sum

(* attr_add_uint32() copies the value and gives attr_mutex back before it  *)
(* takes it again to write the sum: others may write in between. Its       *)
(* caller means the sum with the value that was copied.                    *)
attr_copy_uint32 ==
    \E n \in Numbers :
        /\ entry.type \in {"U8", "U16", "U32"} /\ n \in 0 .. Span32 - 1
        /\ ~sum.copied
        /\ sum' = [raw |-> (Bytes(entry, ram) + n) % Span32,
                   meaning |-> IF told = Unknown THEN Unknown
                               ELSE AsNumber(told + n),
                   copied |-> TRUE]
        /\ UNCHANGED <<entry, ram, text, told, unsaved>>

attr_add_uint32 ==
    /\ sum.copied
    /\ sum' = NoSum
    /\ \/ attr_write(sum.raw, sum.meaning)
       \/ /\ ~Accepts(entry, sum.raw)
          /\ UNCHANGED <<entry, ram, text, told, unsaved>>

(* attr_set_mask32() and attr_set_mask64() of a 32-bit and of a 64-bit     *)
(* attribute.                                                              *)
HasBit(n, weight) == (n \div weight) % 2 = 1
WRITE_BIT(n, weight, on) ==
    CASE on /\ ~HasBit(n, weight) -> n + weight
      [] ~on /\ HasBit(n, weight) -> n - weight
      [] OTHER -> n

attr_set_mask ==
    \E weight \in BitWeights, on \in BOOLEAN :
        /\ entry.type \in {"U32", "U64"} /\ weight < entry.span
        /\ attr_write(WRITE_BIT(Bytes(entry, ram), weight, on),
                      IF told = Unknown THEN Unknown
                      ELSE AsNumber(WRITE_BIT(told, weight, on)))
        /\ UNCHANGED sum

(* Another attribute changes or a delayed save runs: all savable           *)
(* attributes are saved.                                                   *)
save_attributes ==
    /\ text' = entry_to_kvp(entry, ram)
    /\ unsaved' = FALSE
    /\ UNCHANGED <<entry, ram, told, sum>>

(* It saves nothing.                                                       *)
attr_default ==
    /\ ram' = entry.default
    /\ told' = entry.default
    /\ unsaved' = (unsaved \/ ram # entry.default)
    /\ UNCHANGED <<entry, text, sum>>

attr_delete ==
    /\ text' = NoText
    /\ unsaved' = (unsaved \/ ram # entry.default)
    /\ UNCHANGED <<entry, ram, told, sum>>

(* attr_init() after a reset: the default, then what the file holds. What  *)
(* was not saved is lost, so that no caller may expect it.                 *)
attr_init ==
    LET restored == text # NoText /\ LoadsFrom(entry, text) IN
    /\ ram' = IF restored THEN Loaded(entry, text) ELSE entry.default
    /\ told' = IF unsaved THEN Unknown ELSE told
    /\ unsaved' = (text # NoText /\ ~restored)
    /\ sum' = NoSum
    /\ UNCHANGED <<entry, text>>

Next == \/ set_parameter \/ attr_load \/ ats_set_cmd \/ ats_mod_cmd
        \/ typed_set \/ attr_copy_uint32 \/ attr_add_uint32 \/ attr_set_mask
        \/ save_attributes \/ attr_default \/ attr_delete \/ attr_init

Spec == Init /\ [][Next]_vars

-----------------------------------------------------------------------------
(* The value has the type of the attribute and passes its own validator,   *)
(* whatever way it came.                                                   *)
TypeOK ==
    /\ entry \in Table
    /\ Typed(entry, ram)
    /\ Accepts(entry, ram)
    /\ told # Unknown => Typed(entry, told)
    /\ unsaved \in BOOLEAN /\ sum.copied \in BOOLEAN

(* A float may have lost the digits "%e" does not print, but no more.      *)
Near(n, meant) ==
    \/ n = meant
    \/ entry.type = "FLOAT" /\ n = Rounded(meant)

(* The float was accepted, but the number that is printed of it is not.    *)
LostAtBoot(meant) == ~PrintsInside(entry, meant) /\ Near(ram, entry.default)

(* What was accepted is what the caller meant, if the attribute can hold   *)
(* it, over any number of saves and boots: no width, sign or base is       *)
(* confused on the way, and a float that is saved again and again does     *)
(* not drift. An addition means the sum with what it copied, whatever was  *)
(* written since. There is one exception: a boot replaces a float whose    *)
(* printed number is outside the limits by the default. (A number the type *)
(* cannot hold is reduced to its low bytes by every way but SMP, and may   *)
(* be accepted: then told is Unknown, as it is after a boot that came      *)
(* before the save.)                                                       *)
ValueIsAsTold == told # Unknown => Near(ram, told) \/ LostAtBoot(told)

(* What a save would write now, the next boot accepts, unless it is a      *)
(* float that prints outside of its limits, and it gives the same value;   *)
(* the text of that value is the same again.                               *)
ReadsBack ==
    LET t == entry_to_kvp(entry, ram) IN
    /\ Savable(t)
    /\ LoadsFrom(entry, t) <=> PrintsInside(entry, ram)
    /\ LoadsFrom(entry, t) => Near(Loaded(entry, t), ram)
    /\ entry_to_kvp(entry, Loaded(entry, t)) = t

(* Every way to read an integer gives the value at pData: the accessor of  *)
(* its type with its sign extension, and the answer to an SMP client.      *)
ReadersAgree ==
    /\ \A a \in Accessors : entry.type \in Reads(a) => Copied(a, entry, ram) = ram
    /\ Integer(entry) => cbor_encode_attribute(entry, ram).value = ram

(* A client may write back what it has read, and nothing changes, except   *)
(* for a float and for a signed value that is not negative.                *)
ReadMayBeWritten ==
    LET item == cbor_encode_attribute(entry, ram) IN
    /\ CanBeRead(entry, ram)
    /\ Has(entry, "FLAGS_WRITABLE")
    /\ entry.type # "FLOAT"
    /\ entry.type \in Signed => ram < 0
    => CanBeSet(entry, item) /\ Stored(entry, item.value) = ram

(* README.md:178 and :177 say of x-readable that the "value can be read    *)
(* from SMP" and of x-writable that it "can be written from SMP": what a   *)
(* client reads is accepted when it writes it, and is the value. It fails  *)
(* for a float, of which attr_get() fills half of a double, and for a      *)
(* signed value that is not negative, which decodes as uint64.             *)
SmpReadThenWrite ==
    LET item == cbor_encode_attribute(entry, ram) IN
    /\ MayRead(entry)
    /\ Has(entry, "FLAGS_WRITABLE")
    => CanBeSet(entry, item) /\ Stored(entry, item.value) = ram
==============================================================================
