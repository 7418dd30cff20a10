------------------------- MODULE AttrConversionProofs -------------------------
(***************************************************************************)
(* What is proved of AttrConversion, for every table of entries, width of  *)
(* the types and set of inputs: a value survives its conversions.          *)
(***************************************************************************)
EXTENDS AttrConversion, TLAPS

-----------------------------------------------------------------------------
(* Arithmetic the conversions rest on.                                     *)

LEMMA ModRange ==
    ASSUME NEW a \in Int, NEW b \in Nat, b > 0
    PROVE  a % b \in Int /\ 0 <= a % b /\ a % b < b
  BY SMT

LEMMA ModIdentity ==
    ASSUME NEW a \in Int, NEW b \in Nat, 0 <= a, a < b
    PROVE  a % b = a
  BY SMT

LEMMA ModNegative ==
    ASSUME NEW a \in Int, NEW b \in Nat, a < 0, -b <= a
    PROVE  a % b = a + b
  BY SMT

LEMMA ModOver ==
    ASSUME NEW a \in Int, NEW b \in Nat, b <= a, a < b + b
    PROVE  a % b = a - b
  BY SMT

LEMMA Halves ==
    ASSUME NEW b \in Nat, b > 0
    PROVE  b \div 2 \in Int /\ 0 <= b \div 2 /\ b \div 2 < b
  BY SMT

LEMMA DivOfMultiple ==
    ASSUME NEW q \in Int, NEW g \in Nat, NEW r \in Int, 0 <= r, r < g
    PROVE  (q * g + r) \div g = q
  BY SMT

LEMMA DivMonotone ==
    ASSUME NEW a \in Int, NEW b \in Int, NEW g \in Nat, g > 0, a <= b
    PROVE  /\ a \div g \in Int
           /\ b \div g \in Int
           /\ a \div g <= b \div g
  BY SMT

LEMMA TimesMonotone ==
    ASSUME NEW a \in Int, NEW b \in Int, NEW g \in Nat, a <= b
    PROVE  a * g <= b * g /\ a * g \in Int /\ b * g \in Int
  BY SMT

(* A printed float prints as itself.                                       *)
LEMMA RoundedTwice ==
    ASSUME NEW n \in Int
    PROVE  Rounded(n) \in Int /\ Rounded(Rounded(n)) = Rounded(n)
<1>1. Grain \in Nat /\ Grain > 0
  BY ConversionAssumption DEF ConversionAssumption
<1>2. Grain \div 2 \in Int /\ 0 <= Grain \div 2 /\ Grain \div 2 < Grain
  BY <1>1, Halves
<1> DEFINE q == (n + Grain \div 2) \div Grain
<1>3. q \in Int
  BY <1>1, <1>2, DivMonotone, n + Grain \div 2 \in Int
<1> HIDE DEF q
<1>4. (q * Grain + Grain \div 2) \div Grain = q
  BY <1>1, <1>2, <1>3, DivOfMultiple
<1>5. q * Grain \in Int
  BY <1>1, <1>3, TimesMonotone
<1>6. Rounded(n) = q * Grain
  BY DEF Rounded, q
<1>7. Rounded(q * Grain) = q * Grain
  BY <1>4 DEF Rounded
<1> QED BY <1>5, <1>6, <1>7

-----------------------------------------------------------------------------
(* The bytes of an integer of the attribute's type.                        *)

LEMMA IntegerEntry ==
    ASSUME NEW e \in Table, Integer(e)
    PROVE  /\ e.span \in Nat /\ e.span >= 2 /\ e.lo \in Int
           /\ e.lo <= 0 /\ 0 < e.lo + e.span
           /\ e.validator \in {"int", "int64", "bool", "cp", "cpb"}
           /\ e.min \in Int /\ e.max \in Int
           /\ \A v : Typed(e, v) <=> v \in Int /\ InType(e, v)
<1>1. EntryAssumption(e)
  BY ConversionAssumption DEF ConversionAssumption
<1>2. /\ e.span \in Nat /\ e.span >= 2 /\ e.lo \in Int
      /\ e.lo <= 0 /\ 0 < e.lo + e.span
  <2>1. /\ e.span \in Nat /\ e.span >= 2 /\ e.lo \in Int
        /\ e.lo = 0 \/ 2 * e.lo = -e.span
    BY <1>1 DEF EntryAssumption
  <2> QED BY <2>1, SMT
<1>3. e.validator \in {"int", "int64", "bool", "cp", "cpb"}
  BY <1>1 DEF EntryAssumption
<1> QED BY <1>1, <1>2, <1>3 DEF EntryAssumption, Typed

LEMMA WrapInType ==
    ASSUME NEW e \in Table, Integer(e), NEW n \in Int
    PROVE  /\ Wrap(e, n) \in Int
           /\ InType(e, Wrap(e, n))
           /\ InType(e, n) => Wrap(e, n) = n
<1>1. e.span \in Nat /\ e.span > 0 /\ e.lo \in Int
  BY IntegerEntry
<1>2. n - e.lo \in Int
  BY <1>1
<1>3. /\ (n - e.lo) % e.span \in Int
      /\ 0 <= (n - e.lo) % e.span /\ (n - e.lo) % e.span < e.span
  BY <1>1, <1>2, ModRange
<1>4. InType(e, n) => (n - e.lo) % e.span = n - e.lo
  BY <1>1, <1>2, ModIdentity DEF InType
<1> HIDE DEF Integer
<1> QED BY <1>1, <1>3, <1>4 DEF Wrap, InType

LEMMA StoredInteger ==
    ASSUME NEW e \in Table, Integer(e), NEW n \in Int
    PROVE  /\ Stored(e, n) = Wrap(e, n)
           /\ Typed(e, Stored(e, n))
           /\ Stored(e, Stored(e, n)) = Stored(e, n)
           /\ InType(e, n) => Stored(e, n) = n
<1>1. \A m : Stored(e, m) = Wrap(e, m)
  BY IntegerEntry DEF Stored
<1>2. /\ Wrap(e, n) \in Int
      /\ InType(e, Wrap(e, n))
      /\ InType(e, n) => Wrap(e, n) = n
  BY WrapInType
<1>3. Wrap(e, Wrap(e, n)) = Wrap(e, n)
  BY <1>2, WrapInType
<1> QED BY <1>1, <1>2, <1>3, IntegerEntry

(* The verdict looks at what would be stored only.                         *)
LEMMA AcceptsStored ==
    ASSUME NEW e \in Table, Integer(e), NEW n \in Int
    PROVE  Accepts(e, Stored(e, n)) <=> Accepts(e, n)
<1>1. Stored(e, Stored(e, n)) = Stored(e, n)
  BY StoredInteger
<1>2. e.validator \in {"int", "int64", "bool", "cp", "cpb"}
  BY IntegerEntry
<1> QED BY <1>1, <1>2 DEF Accepts, Verdict

(* The bytes at pData, extended or not, are the value.                     *)
LEMMA BytesAreTheValue ==
    ASSUME NEW e \in Table, Integer(e), NEW v, Typed(e, v)
    PROVE  /\ e.type \in Signed => sign_extend64(e, v) = v
           /\ e.type \notin Signed => Bytes(e, v) = v
<1>1. v \in Int /\ InType(e, v) /\ e.span \in Nat /\ e.span >= 2 /\ e.lo \in Int
  BY IntegerEntry
<1>2. EntryAssumption(e)
  BY ConversionAssumption DEF ConversionAssumption
<1>3. CASE e.type \notin Signed
  <2>1. e.lo = 0
    BY <1>2, <1>3 DEF EntryAssumption
  <2> QED BY <1>1, <1>3, <2>1, ModIdentity DEF InType, Bytes
<1>4. CASE e.type \in Signed
  <2>1. 2 * e.lo = -e.span
    BY <1>2, <1>4 DEF EntryAssumption
  <2>2. e.span \div 2 = -e.lo /\ e.span \div 2 \in Int
    BY <1>1, <2>1, SMT
  <2>3. CASE v >= 0
    <3>1. Bytes(e, v) = v
      BY <1>1, <2>1, <2>3, ModIdentity DEF InType, Bytes
    <3> QED BY <1>1, <1>4, <2>1, <2>2, <3>1 DEF InType, sign_extend64
  <2>4. CASE v < 0
    <3>1. Bytes(e, v) = v + e.span
      BY <1>1, <2>1, <2>4, ModNegative DEF InType, Bytes
    <3> QED BY <1>1, <1>4, <2>1, <2>2, <2>4, <3>1 DEF InType, sign_extend64
  <2> QED BY <1>1, <2>3, <2>4
<1> QED BY <1>3, <1>4

-----------------------------------------------------------------------------
(* Texts of numbers.                                                       *)

LEMMA StrtouRange ==
    ASSUME NEW span \in Nat, span > 1, NEW t,
           t.form = "numeral" => t.of \in Int
    PROVE  strtou(span, t) \in Int
<1>1. CASE t.form # "numeral"
  BY <1>1 DEF strtou
<1>2. CASE t.form = "numeral" /\ t.of \in -(span - 1) .. span - 1
  <2>1. t.of % span \in Int
    BY <1>2, ModRange
  <2> QED BY <1>2, <2>1 DEF strtou
<1>3. CASE t.form = "numeral" /\ t.of \notin -(span - 1) .. span - 1
  BY <1>3 DEF strtou
<1> QED BY <1>1, <1>2, <1>3

LEMMA StrtosRange ==
    ASSUME NEW span \in Nat, span > 1, NEW t,
           t.form = "numeral" => t.of \in Int
    PROVE  strtos(span, t) \in Int
<1>1. span \div 2 \in Int
  BY Halves
<1>2. CASE t.form # "numeral"
  BY <1>2 DEF strtos
<1>3. CASE t.form = "numeral" /\ t.of < -(span \div 2)
  BY <1>1, <1>3 DEF strtos
<1>4. CASE t.form = "numeral" /\ ~(t.of < -(span \div 2)) /\ t.of >= span \div 2
  BY <1>1, <1>4 DEF strtos
<1>5. CASE t.form = "numeral" /\ ~(t.of < -(span \div 2)) /\ ~(t.of >= span \div 2)
  BY <1>1, <1>5 DEF strtos
<1> QED BY <1>2, <1>3, <1>4, <1>5

(* A number that fits an unsigned type of at most span values is read as   *)
(* it is, and one that fits a signed type too.                             *)
LEMMA StrtouExact ==
    ASSUME NEW span \in Nat, span > 1, NEW n \in Int, 0 <= n, n < span
    PROVE  strtou(span, Numeral(n)) = n
<1>1. n % span = n
  BY ModIdentity
<1> QED BY <1>1 DEF strtou, Numeral

LEMMA StrtosExact ==
    ASSUME NEW span \in Nat, span > 1, NEW half \in Nat, 2 * half <= span,
           NEW n \in Int, -half <= n, n < half
    PROVE  strtos(span, Numeral(n)) = n
<1>1. span \div 2 \in Int /\ half <= span \div 2
  BY SMT
<1> QED BY <1>1 DEF strtos, Numeral

LEMMA Widths == Span32 \in Nat /\ Span32 > 1 /\ Span64 \in Nat /\ Span64 > Span32
  BY ConversionAssumption DEF ConversionAssumption

LEMMA NumeralReadsBack ==
    ASSUME NEW e \in Table, Integer(e), NEW n \in Int, InType(e, n),
           NEW span \in Nat, span > 1, e.span <= span
    PROVE  /\ e.type \notin Signed => strtou(span, Numeral(n)) = n
           /\ e.type \in Signed => strtos(span, Numeral(n)) = n
<1>1. EntryAssumption(e) /\ e.span \in Nat /\ e.lo \in Int
  BY ConversionAssumption, IntegerEntry DEF ConversionAssumption
<1>2. CASE e.type \notin Signed
  <2>1. e.lo = 0
    BY <1>1, <1>2 DEF EntryAssumption
  <2>2. 0 <= n /\ n < span
    BY <1>1, <2>1 DEF InType
  <2> QED BY <1>2, <2>2, StrtouExact
<1>3. CASE e.type \in Signed
  <2>1. 2 * e.lo = -e.span
    BY <1>1, <1>3 DEF EntryAssumption
  <2> DEFINE half == -e.lo
  <2>2. half \in Nat /\ 2 * half <= span /\ -half <= n /\ n < half
    BY <1>1, <2>1, SMT DEF InType
  <2> HIDE DEF half
  <2> QED BY <1>3, <2>2, StrtosExact
<1> QED BY <1>2, <1>3

-----------------------------------------------------------------------------
(* Texts of arrays of bytes.                                               *)

LEMMA ElementOfSeq ==
    ASSUME NEW S, NEW s \in Seq(S), NEW i \in 1 .. Len(s)
    PROVE  s[i] \in S
  OBVIOUS

LEMMA Prepended ==
    ASSUME NEW S, NEW s \in Seq(S), NEW x \in S
    PROVE  <<x>> \o s \in Seq(S)
  OBVIOUS

LEMMA DivMod ==
    ASSUME NEW b \in Int, NEW h \in Int, h > 0
    PROVE  b = h * (b \div h) + (b % h)
  BY Z3

LEMMA TwoDigits ==
    ASSUME NEW b \in 0 .. Byte - 1
    PROVE  /\ b \div Hex \in 0 .. Hex - 1
           /\ b % Hex \in 0 .. Hex - 1
           /\ b = (b \div Hex) * Hex + (b % Hex)
<1>1. Hex \in Nat /\ Hex > 1
  BY ConversionAssumption DEF ConversionAssumption
<1>2. (Hex - 1) * Hex + (Hex - 1) = Byte - 1
  BY <1>1, SMT DEF Byte
<1>3. b \in Nat /\ b <= Byte - 1 /\ Byte \in Int
  BY <1>1, <1>2 DEF Byte
<1>4. ((Hex - 1) * Hex + (Hex - 1)) \div Hex = Hex - 1
  BY <1>1, DivOfMultiple
<1>5. 0 \div Hex = 0
  BY <1>1, SMT
<1>6. /\ 0 \div Hex <= b \div Hex /\ b \div Hex <= (Byte - 1) \div Hex
      /\ b \div Hex \in Int
  BY <1>1, <1>3, DivMonotone
<1>7. b \div Hex \in 0 .. Hex - 1
  BY <1>1, <1>2, <1>4, <1>5, <1>6
<1>8. b % Hex \in 0 .. Hex - 1
  BY <1>1, <1>3, ModRange
<1>9. b = Hex * (b \div Hex) + (b % Hex)
  BY <1>1, <1>3, DivMod
<1>10. Hex * (b \div Hex) = (b \div Hex) * Hex
  BY <1>1, <1>7
<1> QED BY <1>7, <1>8, <1>9, <1>10

LEMMA OneByte ==
    ASSUME NEW h \in 0 .. Hex - 1, NEW l \in 0 .. Hex - 1
    PROVE  h * Hex + l \in 0 .. Byte - 1
<1>1. Hex \in Nat /\ Hex > 1
  BY ConversionAssumption DEF ConversionAssumption
<1>2. 0 * Hex <= h * Hex /\ h * Hex <= (Hex - 1) * Hex /\ h * Hex \in Int
  BY <1>1, TimesMonotone
<1>3. (Hex - 1) * Hex = Byte - Hex /\ Byte \in Int
  BY <1>1, SMT DEF Byte
<1> QED BY <1>1, <1>2, <1>3

LEMMA ArrayReadsBack ==
    ASSUME NEW v \in Seq(0 .. Byte - 1)
    PROVE  /\ bin2hex(v) \in Seq(0 .. Hex - 1)
           /\ Len(bin2hex(v)) = 2 * Len(v)
           /\ hex2bin(bin2hex(v)) = v
<1> DEFINE d == bin2hex(v)
           digit(k) == IF k % 2 = 1 THEN v[(k + 1) \div 2] \div Hex
                       ELSE v[k \div 2] % Hex
<1>1. Len(v) \in Nat /\ Hex \in Nat
  BY ConversionAssumption DEF ConversionAssumption
<1>2. d = [k \in 1 .. 2 * Len(v) |-> digit(k)]
  BY DEF bin2hex
<1>3. ASSUME NEW k \in 1 .. 2 * Len(v) PROVE digit(k) \in 0 .. Hex - 1
  <2>1. k % 2 = 1 => (k + 1) \div 2 \in 1 .. Len(v)
    BY <1>1, SMT
  <2>2. k % 2 # 1 => k \div 2 \in 1 .. Len(v)
    BY <1>1, SMT
  <2>3. \A i \in 1 .. Len(v) : v[i] \in 0 .. Byte - 1
    BY ElementOfSeq
  <2> QED BY <2>1, <2>2, <2>3, TwoDigits
<1>4. d \in Seq(0 .. Hex - 1) /\ Len(d) = 2 * Len(v)
  <2> HIDE DEF digit
  <2> QED BY <1>1, <1>2, <1>3
<1>5. Len(d) % 2 = 0 /\ Len(d) \div 2 = Len(v)
  BY <1>1, <1>4, SMT
<1>6. hex2bin(d) = [k \in 1 .. Len(v) |-> d[2 * k - 1] * Hex + d[2 * k]]
  BY <1>5 DEF hex2bin
<1>7. ASSUME NEW k \in 1 .. Len(v)
      PROVE  d[2 * k - 1] * Hex + d[2 * k] = v[k]
  <2>1. 2 * k - 1 \in 1 .. 2 * Len(v) /\ 2 * k \in 1 .. 2 * Len(v)
    BY <1>1
  <2>2. (2 * k - 1) % 2 = 1 /\ ((2 * k - 1) + 1) \div 2 = k
    BY <1>1, SMT
  <2>3. (2 * k) % 2 = 0 /\ (2 * k) \div 2 = k
    BY <1>1, SMT
  <2>4. d[2 * k - 1] = v[k] \div Hex
    BY <1>2, <2>1, <2>2
  <2>5. d[2 * k] = v[k] % Hex
    BY <1>2, <2>1, <2>3
  <2>6. v[k] \in 0 .. Byte - 1
    BY ElementOfSeq
  <2> QED BY <2>4, <2>5, <2>6, TwoDigits
<1>8. hex2bin(d) = v
  <2>1. hex2bin(d) = [k \in 1 .. Len(v) |-> v[k]]
    BY <1>6, <1>7
  <2> QED BY <2>1
<1> QED BY <1>4, <1>8

LEMMA ArrayTyped ==
    ASSUME NEW d \in Seq(0 .. Hex - 1)
    PROVE  hex2bin(d) \in Seq(0 .. Byte - 1)
<1> DEFINE even == IF Len(d) % 2 = 0 THEN d ELSE <<0>> \o d
<1>1. Hex \in Nat /\ Hex > 1
  BY ConversionAssumption DEF ConversionAssumption
<1>3. even \in Seq(0 .. Hex - 1)
  <2>1. 0 \in 0 .. Hex - 1
    BY <1>1
  <2> QED BY <2>1, Prepended
<1> HIDE DEF even
<1>4. ASSUME NEW k \in 1 .. Len(even) \div 2
      PROVE  even[2 * k - 1] * Hex + even[2 * k] \in 0 .. Byte - 1
  <2>1. 2 * k - 1 \in 1 .. Len(even) /\ 2 * k \in 1 .. Len(even)
    BY <1>3, SMT
  <2>2. even[2 * k - 1] \in 0 .. Hex - 1 /\ even[2 * k] \in 0 .. Hex - 1
    BY <1>3, <2>1, ElementOfSeq
  <2> QED BY <2>2, OneByte
<1>5. Len(even) \div 2 \in Nat
  BY <1>3, SMT
<1>6. hex2bin(d) = [k \in 1 .. Len(even) \div 2 |->
                        even[2 * k - 1] * Hex + even[2 * k]]
  BY DEF hex2bin, even
<1> QED BY <1>4, <1>5, <1>6

-----------------------------------------------------------------------------
(* A value that is written. Raw(e, raw): raw is of the kind of the type,   *)
(* though not yet of its width.                                            *)
Raw(e, raw) ==
    CASE Integer(e) \/ e.type = "FLOAT" -> raw \in Int
      [] e.type = "STRING"              -> raw \in Seq(Char)
      [] e.type = "BYTE_ARRAY"          -> raw \in Seq(0 .. Byte - 1)

LEMMA TypesDiffer ==
    ASSUME NEW e \in Table
    PROVE  /\ EntryAssumption(e)
           /\ \/ Integer(e) /\ e.type \notin {"FLOAT", "STRING", "BYTE_ARRAY"}
              \/ ~Integer(e) /\ e.type = "FLOAT"
              \/ ~Integer(e) /\ e.type = "STRING"
              \/ ~Integer(e) /\ e.type = "BYTE_ARRAY"
<1>1. EntryAssumption(e)
  BY ConversionAssumption DEF ConversionAssumption
<1> QED BY <1>1 DEF EntryAssumption, Types, Integer, Unsigned, Signed

(* Stored() gives a value of the type that passes the validator again.     *)
LEMMA StoredIsTyped ==
    ASSUME NEW e \in Table, NEW raw, Raw(e, raw), Accepts(e, raw)
    PROVE  /\ Typed(e, Stored(e, raw))
           /\ Accepts(e, Stored(e, raw))
           /\ ~Integer(e) => Stored(e, raw) = raw
<1>1. EntryAssumption(e)
  BY TypesDiffer
<1>2. CASE Integer(e)
  <2>1. raw \in Int
    BY <1>2, TypesDiffer DEF Raw
  <2>2. Typed(e, Stored(e, raw)) /\ (Accepts(e, Stored(e, raw)) <=> Accepts(e, raw))
    BY <1>2, <2>1, StoredInteger, AcceptsStored
  <2> QED BY <1>2, <2>2
<1>3. CASE ~Integer(e)
  <2>1. e.type \in {"FLOAT", "STRING", "BYTE_ARRAY"}
    BY <1>3, TypesDiffer
  <2>2. e.validator \in {"float", "string", "cps", "array"}
    BY <1>1, <2>1 DEF EntryAssumption
  <2>3. Stored(e, raw) = raw
    BY <2>2 DEF Stored
  <2> QED BY <1>3, <2>1, <2>3 DEF Raw, Typed
<1> QED BY <1>2, <1>3

(* The text of a value reads back, whatever the type: a float as the       *)
(* number that was printed, if its limits allow that.                      *)
LEMMA TextReadsBack ==
    ASSUME NEW e \in Table, NEW v, Typed(e, v), Accepts(e, v)
    PROVE  LET t == entry_to_kvp(e, v) IN
           /\ Savable(t)
           /\ LoadsFrom(e, t) <=> PrintsInside(e, v)
           /\ Loaded(e, t) = IF e.type = "FLOAT" THEN Rounded(v) ELSE v
           /\ entry_to_kvp(e, Loaded(e, t)) = t
           /\ t # NoText
<1> DEFINE t == entry_to_kvp(e, v)
<1>1. EntryAssumption(e)
  BY TypesDiffer
<1>m. ATTR_MAX_VALUE_SIZE \in Int /\ ATTR_MAX_VALUE_SIZE > 1
  BY ConversionAssumption DEF ConversionAssumption
<1>2. CASE Integer(e)
  <2>1. v \in Int /\ InType(e, v) /\ e.span \in Nat /\ e.span >= 2
    <3>1. Typed(e, v) <=> v \in Int /\ InType(e, v)
      BY <1>2, IntegerEntry
    <3> QED BY <1>2, <3>1, IntegerEntry
  <2>2. t = Numeral(v)
    BY <1>2, TypesDiffer DEF entry_to_kvp
  <2>3. kvp_convert(e, t) = v
    <3>1. e.span <= Span64
      BY <1>1, <1>2 DEF EntryAssumption
    <3>2. /\ e.type \notin Signed => strtou(Span64, Numeral(v)) = v
          /\ e.type \in Signed => strtos(Span64, Numeral(v)) = v
      BY <1>2, <2>1, <3>1, Widths, NumeralReadsBack
    <3> QED BY <1>2, <2>2, <3>2 DEF kvp_convert, Integer, Unsigned, Signed
  <2>4. Stored(e, v) = v
    BY <1>2, <2>1, StoredInteger
  <2>5. TextLen(t) = 1 /\ t # NoText
    BY <2>2 DEF TextLen, Numeral, NoText
  <2>6. e.type # "FLOAT" /\ e.type # "BYTE_ARRAY"
    BY <1>2 DEF Integer, Unsigned, Signed
  <2> HIDE DEF t
  <2>7. Savable(t) /\ TextLen(t) <= ATTR_MAX_VALUE_SIZE
    BY <1>m, <2>5 DEF Savable
  <2>8. Loaded(e, t) = v
    BY <2>3, <2>4 DEF Loaded
  <2>9. LoadsFrom(e, t)
    BY <2>3, <2>6, <2>7 DEF LoadsFrom
  <2> QED BY <2>2, <2>5, <2>6, <2>7, <2>8, <2>9 DEF t, PrintsInside
<1>3. CASE ~Integer(e) /\ e.type = "FLOAT"
  <2>1. v \in Int /\ e.validator = "float" /\ e.min \in Int /\ e.max \in Int
    BY <1>1, <1>3 DEF EntryAssumption, Typed
  <2>2. Rounded(v) \in Int /\ Rounded(Rounded(v)) = Rounded(v)
    BY <2>1, RoundedTwice
  <2>3. t = Numeral(Rounded(v))
    BY <1>3 DEF entry_to_kvp
  <2>4. kvp_convert(e, t) = Rounded(v)
    BY <1>3, <2>3 DEF kvp_convert, strtof, Numeral, Unsigned, Signed
  <2>5. \A n : Stored(e, n) = n
    BY <2>1 DEF Stored
  <2>7. TextLen(t) = 1 /\ t # NoText
    BY <2>3 DEF TextLen, Numeral, NoText
  <2>8. entry_to_kvp(e, Rounded(v)) = t
    BY <1>3, <2>2, <2>3 DEF entry_to_kvp
  <2> HIDE DEF t
  <2>9. Savable(t) /\ TextLen(t) <= ATTR_MAX_VALUE_SIZE
    BY <1>m, <2>7 DEF Savable
  <2>10. Loaded(e, t) = Rounded(v)
    BY <2>4, <2>5 DEF Loaded
  <2>11. LoadsFrom(e, t) <=> PrintsInside(e, v)
    BY <1>3, <2>4, <2>9 DEF LoadsFrom, PrintsInside
  <2> QED BY <1>3, <2>7, <2>8, <2>9, <2>10, <2>11 DEF t
<1>4. CASE ~Integer(e) /\ e.type = "STRING"
  <2>1. /\ v \in Seq(Char) /\ e.validator \in {"string", "cps"}
        /\ e.min \in Int /\ e.size \in Nat /\ e.size <= ATTR_MAX_VALUE_SIZE
    BY <1>1, <1>4 DEF EntryAssumption, Typed
  <2>2. Len(v) \in Nat /\ Len(v) < e.size
    <3>1. string_check(e, Len(v)) = "ok"
      BY <2>1 DEF Accepts, Verdict
    <3> QED BY <2>1, <3>1 DEF string_check
  <2>3. t = IF v = <<>> THEN EmptyMark ELSE Chars(v)
    BY <1>4 DEF entry_to_kvp
  <2>4. kvp_convert(e, t) = v
    BY <1>4, <2>3 DEF kvp_convert, chars_of, Chars, EmptyMark, Unsigned, Signed
  <2>5. \A n : Stored(e, n) = n
    BY <2>1 DEF Stored
  <2>6. TextLen(t) > 0 /\ TextLen(t) < ATTR_MAX_VALUE_SIZE
    <3>1. CASE v = <<>>
      BY <1>m, <2>3, <3>1 DEF TextLen, EmptyMark
    <3>2. CASE v # <<>>
      <4>1. Len(v) > 0
        BY <2>1, <3>2
      <4> QED BY <1>m, <2>1, <2>2, <2>3, <3>2, <4>1 DEF TextLen, Chars
    <3> QED BY <3>1, <3>2
  <2>7. t # NoText
    BY <2>3 DEF EmptyMark, Chars, NoText
  <2>t. TextLen(t) \in Int
    BY <2>2, <2>3 DEF TextLen, EmptyMark, Chars
  <2> HIDE DEF t
  <2>8. Loaded(e, t) = v
    BY <2>4, <2>5 DEF Loaded
  <2>9. LoadsFrom(e, t)
    BY <1>m, <1>4, <2>4, <2>6, <2>t DEF LoadsFrom
  <2> QED BY <1>4, <2>6, <2>7, <2>8, <2>9 DEF t, Savable, PrintsInside
<1>5. CASE ~Integer(e) /\ e.type = "BYTE_ARRAY"
  <2>1. /\ v \in Seq(0 .. Byte - 1) /\ e.validator = "array"
        /\ e.size \in Nat /\ e.size > 0 /\ 2 * e.size < ATTR_MAX_VALUE_SIZE
    BY <1>1, <1>5 DEF EntryAssumption, Typed
  <2>2. Len(v) = e.size
    BY <2>1 DEF Accepts, Verdict, array_check
  <2>3. t = Digits(bin2hex(v))
    BY <1>5 DEF entry_to_kvp
  <2>4. hex2bin_of(t) = v
    BY <2>1, <2>3, ArrayReadsBack DEF hex2bin_of, Digits
  <2>5. kvp_convert(e, t) = v /\ v # <<>>
    BY <1>5, <2>1, <2>2, <2>4 DEF kvp_convert, Unsigned, Signed
  <2>6. \A n : Stored(e, n) = n
    BY <2>1 DEF Stored
  <2>7. TextLen(t) = 2 * e.size /\ t # NoText
    BY <2>1, <2>2, <2>3, ArrayReadsBack DEF TextLen, Digits, NoText
  <2> HIDE DEF t
  <2>8. Loaded(e, t) = v
    BY <2>5, <2>6 DEF Loaded
  <2>9. Savable(t) /\ TextLen(t) <= ATTR_MAX_VALUE_SIZE
    BY <1>m, <2>1, <2>7 DEF Savable
  <2>10. LoadsFrom(e, t)
    BY <2>4, <2>5, <2>9 DEF LoadsFrom
  <2> QED BY <1>5, <2>7, <2>8, <2>9, <2>10 DEF t, PrintsInside
<1> QED BY <1>2, <1>3, <1>4, <1>5, TypesDiffer

-----------------------------------------------------------------------------
(* The invariant of the conversions. A boot takes the value from the file, *)
(* so what was told survives it only because the file has the text of a    *)
(* value that was accepted, that of pData unless unsaved says otherwise.   *)
(* An addition on its way is a write that meets the assumptions of         *)
(* WriteInvariant, whatever is written before it.                          *)
FileHoldsAValue ==
    \/ text = NoText
    \/ \E v : Typed(entry, v) /\ Accepts(entry, v) /\ text = entry_to_kvp(entry, v)

FileFollows ==
    \/ unsaved
    \/ text = NoText /\ ram = entry.default
    \/ text = entry_to_kvp(entry, ram)

SumIsSound ==
    sum.copied => /\ Raw(entry, sum.raw)
                  /\ \/ sum.meaning = Unknown
                     \/ Stored(entry, sum.raw) = sum.meaning

IInv == TypeOK /\ ValueIsAsTold /\ FileHoldsAValue /\ FileFollows /\ SumIsSound

LEMMA InitInvariant == Init => IInv
<1> SUFFICES ASSUME Init PROVE IInv
  OBVIOUS
<1>1. EntryAssumption(entry)
  BY TypesDiffer DEF Init
<1>2. TypeOK
  BY <1>1 DEF Init, TypeOK, EntryAssumption, NoSum
<1>3. ValueIsAsTold
  BY DEF Init, ValueIsAsTold, Near
<1>4. FileHoldsAValue /\ FileFollows /\ SumIsSound
  BY DEF Init, FileHoldsAValue, FileFollows, SumIsSound, NoSum
<1> QED BY <1>2, <1>3, <1>4 DEF IInv

LEMMA NoDefaultSum == NoSum.copied = FALSE
  BY DEF NoSum

(* What an accepted write needs to preserve it: its caller meant the value *)
(* that is stored, or nothing the attribute can hold.                      *)
LEMMA WriteInvariant ==
    ASSUME IInv, NEW raw, NEW meaning, Raw(entry, raw),
           meaning = Unknown \/ Stored(entry, raw) = meaning,
           attr_write(raw, meaning), sum' = sum \/ sum' = NoSum
    PROVE  IInv'
<1>1. entry \in Table /\ entry' = entry /\ ram' = Stored(entry, raw) /\ told' = meaning
  BY DEF IInv, TypeOK, attr_write
<1>2. /\ Typed(entry, Stored(entry, raw))
      /\ Accepts(entry, Stored(entry, raw))
  BY <1>1, StoredIsTyped DEF attr_write
<1>3. ASSUME Modifies(entry, ram, raw)
      PROVE  unsaved' \in BOOLEAN /\ FileHoldsAValue' /\ FileFollows'
  <2>1. Save(Stored(entry, raw))
    BY <1>3 DEF attr_write
  <2>2. unsaved' \in BOOLEAN /\ FileFollows'
    BY <1>1, <2>1 DEF Save, FileFollows
  <2>3. FileHoldsAValue'
    <3>1. CASE text' = text
      BY <1>1, <3>1 DEF IInv, FileHoldsAValue
    <3>2. CASE text' = entry_to_kvp(entry, Stored(entry, raw))
      BY <1>1, <1>2, <3>2 DEF FileHoldsAValue
    <3> QED BY <2>1, <3>1, <3>2 DEF Save
  <2> QED BY <2>2, <2>3
<1>4. ASSUME ~Modifies(entry, ram, raw)
      PROVE  unsaved' \in BOOLEAN /\ FileHoldsAValue' /\ FileFollows'
  <2>1. ram' = ram /\ text' = text /\ unsaved' = unsaved
    BY <1>4 DEF Modifies, attr_write
  <2> QED BY <1>1, <2>1 DEF IInv, TypeOK, FileHoldsAValue, FileFollows
<1>5. unsaved' \in BOOLEAN /\ FileHoldsAValue' /\ FileFollows'
  BY <1>3, <1>4
<1>6. SumIsSound' /\ sum'.copied \in BOOLEAN
  BY <1>1, NoDefaultSum DEF IInv, TypeOK, SumIsSound
<1>7. TypeOK'
  BY <1>1, <1>2, <1>5, <1>6 DEF TypeOK
<1>8. ValueIsAsTold'
  BY <1>1 DEF ValueIsAsTold, Near
<1> QED BY <1>5, <1>6, <1>7, <1>8 DEF IInv

LEMMA SetParameterInvariant == IInv /\ set_parameter => IInv'
<1> SUFFICES ASSUME IInv, NEW item \in Items, CanBeSet(entry, item),
                    attr_write(item.value, item.value), sum' = sum
             PROVE  IInv'
  BY DEF set_parameter
<1>1. entry \in Table /\ EntryAssumption(entry)
  BY TypesDiffer DEF IInv, TypeOK
<1>2. \/ item.major \in {"uint", "nint"} /\ item.value \in Int
      \/ item.major = "float" /\ item.value \in Int
      \/ item.major = "bool" /\ item.value \in {0, 1}
      \/ item.major = "tstr" /\ item.value \in Seq(Char)
      \/ item.major = "bstr" /\ item.value \in Seq(0 .. Byte - 1)
  BY ConversionAssumption DEF ConversionAssumption, Items, CborInt, Item
<1>3. p2_choice(item) = ChoiceFor(entry) /\ WithinBounds(entry, item.value)
  BY DEF CanBeSet
<1>4. CASE Integer(entry)
  <2>1. item.value \in Int /\ InType(entry, item.value)
    <3>1. CASE entry.type = "BOOL"
      <4>1. ChoiceFor(entry) = "bool"
        BY <3>1 DEF ChoiceFor, Unsigned, Signed
      <4>2. item.value \in {0, 1}
        BY <1>2, <1>3, <4>1 DEF p2_choice
      <4>3. entry.lo = 0 /\ entry.span \in Nat /\ entry.span >= 2
        BY <1>1, <1>4, <3>1 DEF EntryAssumption, Signed
      <4> QED BY <4>2, <4>3 DEF InType
    <3>2. CASE entry.type # "BOOL"
      <4>1. entry.type \in Unsigned \cup Signed
        BY <1>4, <3>2 DEF Integer
      <4>2. ChoiceFor(entry) \in {"uint64", "int64"}
        BY <4>1 DEF ChoiceFor, Unsigned, Signed
      <4>3. item.value \in Int
        BY <1>2, <1>3, <4>2 DEF p2_choice
      <4> QED BY <1>3, <4>1, <4>3 DEF WithinBounds
    <3> QED BY <3>1, <3>2
  <2>2. Raw(entry, item.value)
    BY <1>1, <1>4, <2>1, TypesDiffer DEF Raw
  <2>3. Stored(entry, item.value) = item.value
    BY <1>1, <1>4, <2>1, StoredInteger
  <2> QED BY <2>2, <2>3, WriteInvariant
<1>5. CASE ~Integer(entry)
  <2>1. Raw(entry, item.value)
    <3>1. entry.type \in {"FLOAT", "STRING", "BYTE_ARRAY"}
      BY <1>1, <1>5, TypesDiffer
    <3>2. CASE entry.type = "FLOAT"
      BY <1>2, <1>3, <3>2 DEF ChoiceFor, p2_choice, Raw, Unsigned, Signed
    <3>3. CASE entry.type = "STRING"
      BY <1>2, <1>3, <1>5, <3>3 DEF ChoiceFor, p2_choice, Raw, Unsigned, Signed
    <3>4. CASE entry.type = "BYTE_ARRAY"
      BY <1>2, <1>3, <1>5, <3>4 DEF ChoiceFor, p2_choice, Raw, Unsigned, Signed
    <3> QED BY <3>1, <3>2, <3>3, <3>4
  <2>2. Accepts(entry, item.value)
    BY DEF CanBeSet
  <2>3. Stored(entry, item.value) = item.value
    BY <1>1, <1>5, <2>1, <2>2, StoredIsTyped
  <2> QED BY <2>1, <2>3, WriteInvariant
<1> QED BY <1>4, <1>5

(* A text, converted for a file or for the shell, is of the kind of the    *)
(* type, and means what is stored or nothing the type can hold.            *)
LEMMA TextsHaveForm ==
    ASSUME NEW t \in Texts, NEW e, e = entry, e \in Table
    PROVE  /\ t.form = "numeral" => t.of \in Int
           /\ t.form \in {"numeral", "chars", "digits"}
           /\ t.form = "numeral" => t = Numeral(t.of)
           /\ t.form = "chars" => t.of \in Seq(Char)
           /\ t.form = "digits" => t.of \in Seq(0 .. Hex - 1)
<1>1. CASE t \in {Numeral(n) : n \in Numbers}
  BY <1>1, ConversionAssumption DEF ConversionAssumption, Numeral
<1>2. CASE t \in {Chars(s) : s \in Strings}
  BY <1>2, ConversionAssumption DEF ConversionAssumption, Chars
<1>3. CASE t \in {Digits(d) : d \in HexTexts}
  BY <1>3, ConversionAssumption DEF ConversionAssumption, Digits
<1> QED BY <1>1, <1>2, <1>3 DEF Texts

LEMMA MeaningOfInteger ==
    ASSUME NEW e \in Table, Integer(e), NEW t
    PROVE  \/ Meaning(e, t) = Unknown
           \/ /\ t.form = "numeral" /\ InType(e, t.of)
              /\ Meaning(e, t) = t.of
<1>1. e.type \notin {"FLOAT", "STRING", "BYTE_ARRAY"}
  BY TypesDiffer
<1>2. CASE t.form = "numeral" /\ InType(e, t.of)
  BY <1>1, <1>2 DEF Meaning
<1>3. CASE ~(t.form = "numeral" /\ InType(e, t.of))
  BY <1>1, <1>3 DEF Meaning
<1> QED BY <1>2, <1>3

LEMMA ConvertedText ==
    ASSUME IInv, NEW t \in Texts
    PROVE  /\ Raw(entry, kvp_convert(entry, t))
           /\ \/ Meaning(entry, t) = Unknown
              \/ Stored(entry, kvp_convert(entry, t)) = Meaning(entry, t)
<1>1. entry \in Table /\ EntryAssumption(entry)
  BY TypesDiffer DEF IInv, TypeOK
<1>2. /\ t.form = "numeral" => t.of \in Int /\ t = Numeral(t.of)
      /\ t.form = "chars" => t.of \in Seq(Char)
      /\ t.form = "digits" => t.of \in Seq(0 .. Hex - 1)
  BY <1>1, TextsHaveForm
<1>3. CASE Integer(entry)
  <2>1. kvp_convert(entry, t) = IF entry.type \in Signed THEN strtos(Span64, t)
                                ELSE strtou(Span64, t)
    BY <1>3 DEF kvp_convert, Integer, Unsigned, Signed
  <2>2. kvp_convert(entry, t) \in Int
    BY <1>2, <2>1, Widths, StrtouRange, StrtosRange
  <2>3. ASSUME t.form = "numeral", InType(entry, t.of)
        PROVE  Stored(entry, kvp_convert(entry, t)) = t.of
    <3>1. entry.span <= Span64
      BY <1>1, <1>3 DEF EntryAssumption
    <3>2. kvp_convert(entry, t) = t.of
      BY <1>1, <1>2, <1>3, <2>1, <2>3, <3>1, Widths, NumeralReadsBack
    <3> QED BY <1>1, <1>2, <1>3, <2>3, <3>2, StoredInteger
  <2>4. Raw(entry, kvp_convert(entry, t))
    BY <1>1, <1>3, <2>2, TypesDiffer DEF Raw
  <2> QED BY <1>1, <1>3, <2>3, <2>4, MeaningOfInteger
<1>4. CASE ~Integer(entry)
  <2>1. entry.type \in {"FLOAT", "STRING", "BYTE_ARRAY"}
    BY <1>1, <1>4, TypesDiffer
  <2>2. \A n : Stored(entry, n) = n
    BY <1>1, <2>1 DEF EntryAssumption, Stored
  <2>3. CASE entry.type = "FLOAT"
    <3>1. kvp_convert(entry, t) = strtof(t)
      BY <2>3 DEF kvp_convert, Unsigned, Signed
    <3>2. strtof(t) \in Int
      BY <1>2 DEF strtof
    <3>3. Meaning(entry, t) = Unknown \/ Meaning(entry, t) = strtof(t)
      BY <1>4, <2>3 DEF Meaning, strtof
    <3> QED BY <2>2, <2>3, <3>1, <3>2, <3>3 DEF Raw
  <2>4. CASE entry.type = "STRING"
    <3>1. kvp_convert(entry, t) = chars_of(t)
      BY <2>4 DEF kvp_convert, Unsigned, Signed
    <3>2. chars_of(t) \in Seq(Char)
      BY <1>2 DEF chars_of
    <3>3. Meaning(entry, t) = chars_of(t)
      BY <1>4, <2>4 DEF Meaning
    <3> QED BY <1>4, <2>2, <2>4, <3>1, <3>2, <3>3 DEF Raw
  <2>5. CASE entry.type = "BYTE_ARRAY"
    <3>1. kvp_convert(entry, t) = hex2bin_of(t)
      BY <2>5 DEF kvp_convert, Unsigned, Signed
    <3>2. hex2bin_of(t) \in Seq(0 .. Byte - 1)
      <4>1. \A S : <<>> \in Seq(S)
        OBVIOUS
      <4>2. CASE t.form = "digits"
        BY <1>2, <4>2, ArrayTyped DEF hex2bin_of
      <4> QED BY <4>1, <4>2 DEF hex2bin_of
    <3>3. Meaning(entry, t) = hex2bin_of(t)
      BY <1>4, <2>5 DEF Meaning
    <3> QED BY <1>4, <2>2, <2>5, <3>1, <3>2, <3>3 DEF Raw
  <2> QED BY <2>1, <2>3, <2>4, <2>5
<1> QED BY <1>3, <1>4

(* The shell reads longs of 32 bits, but only for types of at most that    *)
(* width; "attr mod" reads an int64_t with strtoull(), whose wrap around   *)
(* the cast undoes.                                                        *)
LEMMA ArgumentText ==
    ASSUME IInv, NEW t \in Texts, NEW mod \in BOOLEAN
    PROVE  /\ Raw(entry, ArgumentOf(entry, t, mod))
           /\ \/ Meaning(entry, t) = Unknown
              \/ Stored(entry, ArgumentOf(entry, t, mod)) = Meaning(entry, t)
<1>1. entry \in Table /\ EntryAssumption(entry)
  BY TypesDiffer DEF IInv, TypeOK
<1>2. t.form = "numeral" => t.of \in Int /\ t = Numeral(t.of)
  BY <1>1, TextsHaveForm
<1> DEFINE a == ArgumentOf(entry, t, mod)
<1>3. CASE Integer(entry)
  <2> SUFFICES /\ a \in Int
               /\ t.form = "numeral" /\ InType(entry, t.of) => Stored(entry, a) = t.of
    BY <1>1, <1>3, MeaningOfInteger, TypesDiffer DEF Raw
  <2>1. ASSUME t.form = "numeral", InType(entry, t.of), a = t.of
        PROVE  Stored(entry, a) = t.of
    BY <1>1, <1>2, <1>3, <2>1, StoredInteger
  <2>2. CASE entry.type \in Short
    <3>1. a = strtou(Span32, t)
      BY <2>2 DEF ArgumentOf, Short, ShortSigned
    <3>2. a \in Int
      BY <1>2, <3>1, Widths, StrtouRange
    <3>3. entry.span <= Span32 /\ entry.type \notin Signed
      BY <1>1, <1>3, <2>2 DEF EntryAssumption, Short, Signed
    <3>4. t.form = "numeral" /\ InType(entry, t.of) => a = t.of
      BY <1>1, <1>2, <1>3, <3>1, <3>3, Widths, NumeralReadsBack
    <3> QED BY <2>1, <3>2, <3>4
  <2>3. CASE entry.type \in ShortSigned
    <3>1. a = strtos(Span32, t)
      BY <2>3 DEF ArgumentOf, Short, ShortSigned
    <3>2. a \in Int
      BY <1>2, <3>1, Widths, StrtosRange
    <3>3. entry.span <= Span32 /\ entry.type \in Signed
      BY <1>1, <1>3, <2>3 DEF EntryAssumption, ShortSigned, Signed
    <3>4. t.form = "numeral" /\ InType(entry, t.of) => a = t.of
      BY <1>1, <1>2, <1>3, <3>1, <3>3, Widths, NumeralReadsBack
    <3> QED BY <2>1, <3>2, <3>4
  <2>4. CASE entry.type = "U64"
    <3>1. a = strtou(Span64, t)
      BY <2>4 DEF ArgumentOf, Short, ShortSigned
    <3>2. a \in Int
      BY <1>2, <3>1, Widths, StrtouRange
    <3>3. entry.span <= Span64 /\ entry.type \notin Signed
      BY <1>1, <1>3, <2>4 DEF EntryAssumption, Signed
    <3>4. t.form = "numeral" /\ InType(entry, t.of) => a = t.of
      BY <1>1, <1>2, <1>3, <3>1, <3>3, Widths, NumeralReadsBack
    <3> QED BY <2>1, <3>2, <3>4
  <2>5. CASE entry.type = "S64" /\ ~mod
    <3>1. a = strtos(Span64, t)
      BY <2>5 DEF ArgumentOf, Short, ShortSigned
    <3>2. a \in Int
      BY <1>2, <3>1, Widths, StrtosRange
    <3>3. entry.span <= Span64 /\ entry.type \in Signed
      BY <1>1, <1>3, <2>5 DEF EntryAssumption, Signed
    <3>4. t.form = "numeral" /\ InType(entry, t.of) => a = t.of
      BY <1>1, <1>2, <1>3, <3>1, <3>3, Widths, NumeralReadsBack
    <3> QED BY <2>1, <3>2, <3>4
  <2>6. CASE entry.type = "S64" /\ mod
    <3> DEFINE u == strtou(Span64, t)
    <3>1. a = Wrap(entry, u)
      BY <2>6 DEF ArgumentOf, Short, ShortSigned
    <3>2. u \in Int
      BY <1>2, Widths, StrtouRange
    <3>3. a \in Int
      BY <1>1, <1>3, <3>1, <3>2, WrapInType
    <3>4. /\ entry.span = Span64 /\ 2 * entry.lo = -Span64
          /\ entry.lo \in Int
      BY <1>1, <1>3, <2>6 DEF EntryAssumption, Signed
    <3>5. ASSUME t.form = "numeral", InType(entry, t.of)
          PROVE  a = t.of
      <4>1. /\ t.of \in Int /\ t.of \in -(Span64 - 1) .. Span64 - 1
            /\ entry.lo <= t.of /\ t.of < entry.lo + Span64
        BY <1>2, <3>4, <3>5, Widths DEF InType
      <4>2. u = t.of % Span64
        BY <3>5, <4>1 DEF strtou
      <4>3. CASE t.of >= 0
        <5>1. u = t.of
          BY <4>1, <4>2, <4>3, Widths, ModIdentity
        <5> QED BY <1>1, <1>2, <1>3, <3>1, <3>5, <5>1, WrapInType
      <4>4. CASE t.of < 0
        <5>1. u = t.of + Span64
          BY <4>1, <4>2, <4>4, Widths, ModNegative
        <5>2. (u - entry.lo) % Span64 = u - entry.lo - Span64
          BY <3>4, <4>1, <4>4, <5>1, Widths, ModOver
        <5>3. Wrap(entry, u) = t.of
          BY <3>4, <4>1, <5>1, <5>2, Widths DEF Wrap
        <5> QED BY <3>1, <5>3
      <4> QED BY <4>1, <4>3, <4>4
    <3> QED BY <2>1, <3>3, <3>5
  <2> QED
    BY <1>3, <2>2, <2>3, <2>4, <2>5, <2>6
    DEF Integer, Unsigned, Signed, Short, ShortSigned
<1>4. CASE ~Integer(entry)
  <2>1. a = kvp_convert(entry, t)
    BY <1>4 DEF ArgumentOf, Integer, Unsigned, Signed, Short, ShortSigned
  <2> QED BY <2>1, ConvertedText
<1> QED BY <1>3, <1>4

LEMMA LoadInvariant == IInv /\ attr_load => IInv'
<1> SUFFICES ASSUME IInv, NEW t \in Texts,
                    attr_write(kvp_convert(entry, t), Meaning(entry, t)), sum' = sum
             PROVE  IInv'
  BY DEF attr_load
<1> QED BY ConvertedText, WriteInvariant

LEMMA ShellInvariant == IInv /\ (ats_set_cmd \/ ats_mod_cmd) => IInv'
<1> SUFFICES ASSUME IInv, NEW t \in Texts, NEW mod \in BOOLEAN,
                    attr_write(ArgumentOf(entry, t, mod), Meaning(entry, t)), sum' = sum
             PROVE  IInv'
  BY DEF ats_set_cmd, ats_mod_cmd
<1> QED BY ArgumentText, WriteInvariant

LEMMA NumberMeans ==
    ASSUME entry \in Table, Integer(entry), NEW n
    PROVE  AsNumber(n) = Unknown \/ (InType(entry, n) /\ AsNumber(n) = n)
<1>1. Numeral(n).of = n
  BY DEF Numeral
<1>2. \/ Meaning(entry, Numeral(n)) = Unknown
      \/ /\ InType(entry, Numeral(n).of)
         /\ Meaning(entry, Numeral(n)) = Numeral(n).of
  BY MeaningOfInteger
<1> QED BY <1>1, <1>2 DEF AsNumber

(* A number passed to a setter is what is stored, or its caller is told    *)
(* nothing.                                                                *)
LEMMA NumberInvariant ==
    ASSUME IInv, Integer(entry) \/ entry.type = "FLOAT", NEW n \in Int,
           attr_write(n, AsNumber(n)), sum' = sum
    PROVE  IInv'
<1>1. entry \in Table /\ EntryAssumption(entry)
  BY TypesDiffer DEF IInv, TypeOK
<1>2. Raw(entry, n)
  BY <1>1, TypesDiffer DEF Raw
<1>3. AsNumber(n) = Unknown \/ Stored(entry, n) = AsNumber(n)
  <2>1. Numeral(n).form = "numeral" /\ Numeral(n).of = n
    BY DEF Numeral
  <2>2. CASE Integer(entry)
    BY <1>1, <2>1, <2>2, MeaningOfInteger, StoredInteger DEF AsNumber
  <2>3. CASE ~Integer(entry)
    <3>1. Stored(entry, n) = n
      BY <1>1, <2>3 DEF EntryAssumption, Stored
    <3>2. Meaning(entry, Numeral(n)) = n
      BY <2>1, <2>3 DEF Meaning
    <3> QED BY <3>1, <3>2 DEF AsNumber
  <2> QED BY <2>2, <2>3
<1> QED BY <1>2, <1>3, WriteInvariant

LEMMA TypedSetInvariant == IInv /\ typed_set => IInv'
<1>1. entry \in Table => EntryAssumption(entry)
  BY TypesDiffer
<1>2. ASSUME IInv, sum' = sum, NEW n \in Numbers, InParameter(n), attr_write(n, AsNumber(n))
      PROVE  IInv'
  <2>1. n \in Int
    BY ConversionAssumption DEF ConversionAssumption
  <2>2. Integer(entry) \/ entry.type = "FLOAT"
    BY <1>2 DEF InParameter, Integer, Unsigned, Signed, ShortSigned
  <2> QED BY <1>2, <2>1, <2>2, NumberInvariant
<1>3. ASSUME IInv, sum' = sum, NEW s \in Strings, entry.type = "STRING", attr_write(s, s)
      PROVE  IInv'
  <2>1. Raw(entry, s) /\ Stored(entry, s) = s
    <3>1. entry \in Table
      BY <1>3 DEF IInv, TypeOK
    <3>2. Raw(entry, s)
      BY <1>3, <3>1, TypesDiffer, ConversionAssumption DEF ConversionAssumption, Raw
    <3> QED BY <1>1, <1>3, <3>1, <3>2 DEF EntryAssumption, Stored
  <2> QED BY <1>3, <2>1, WriteInvariant
<1>4. ASSUME IInv, sum' = sum, NEW a \in Arrays, entry.type = "BYTE_ARRAY", attr_write(a, a)
      PROVE  IInv'
  <2>1. Raw(entry, a) /\ Stored(entry, a) = a
    <3>1. entry \in Table
      BY <1>4 DEF IInv, TypeOK
    <3>2. Raw(entry, a)
      BY <1>4, <3>1, TypesDiffer, ConversionAssumption DEF ConversionAssumption, Raw
    <3> QED BY <1>1, <1>4, <3>1, <3>2 DEF EntryAssumption, Stored
  <2> QED BY <1>4, <2>1, WriteInvariant
<1> QED BY <1>2, <1>3, <1>4 DEF typed_set

(* What a read-modify-write starts from.                                   *)
LEMMA UnsignedValue ==
    ASSUME IInv, entry.type \in Unsigned
    PROVE  /\ Integer(entry)
           /\ ram \in Int
           /\ Bytes(entry, ram) = ram
           /\ told # Unknown => told = ram
<1>1. entry \in Table /\ Typed(entry, ram) /\ Integer(entry)
  BY DEF IInv, TypeOK, Integer
<1>2. entry.type \notin Signed /\ entry.type # "FLOAT"
  BY DEF Unsigned, Signed
<1>3. Typed(entry, ram) <=> ram \in Int /\ InType(entry, ram)
  BY <1>1, IntegerEntry
<1> QED
  BY <1>1, <1>2, <1>3, BytesAreTheValue
  DEF IInv, ValueIsAsTold, Near, LostAtBoot, PrintsInside

(* Reading the sum modulo 2^32 does not change what the attribute can      *)
(* hold.                                                                   *)
LEMMA CopyInvariant == IInv /\ attr_copy_uint32 => IInv'
<1> SUFFICES ASSUME IInv, NEW n \in Numbers,
                    entry.type \in {"U8", "U16", "U32"}, n \in 0 .. Span32 - 1,
                    sum' = [raw |-> (Bytes(entry, ram) + n) % Span32,
                            meaning |-> IF told = Unknown THEN Unknown
                                        ELSE AsNumber(told + n),
                            copied |-> TRUE],
                    UNCHANGED <<entry, ram, text, told, unsaved>>
             PROVE  IInv'
  BY DEF attr_copy_uint32
<1> DEFINE raw == (Bytes(entry, ram) + n) % Span32
           meaning == IF told = Unknown THEN Unknown ELSE AsNumber(told + n)
<1>1. entry \in Table /\ EntryAssumption(entry) /\ entry.type \in Unsigned
  BY TypesDiffer DEF IInv, TypeOK, Unsigned
<1>2. Integer(entry) /\ ram \in Int /\ Bytes(entry, ram) = ram
      /\ (told # Unknown => told = ram)
  BY <1>1, UnsignedValue
<1>3. raw \in Int
  BY <1>2, Widths, ModRange
<1>4. Raw(entry, raw)
  BY <1>1, <1>2, <1>3, TypesDiffer DEF Raw
<1>5. ASSUME told # Unknown, AsNumber(told + n) # Unknown
      PROVE  Stored(entry, raw) = AsNumber(told + n)
  <2> DEFINE s == told + n
  <2>1. s \in Int /\ told = ram
    BY <1>2, <1>5
  <2>3. InType(entry, s) /\ AsNumber(s) = s
    BY <1>1, <1>2, <1>5, NumberMeans
  <2>4. entry.lo = 0 /\ entry.span \in Nat /\ entry.span <= Span32
    BY <1>1, <1>2 DEF EntryAssumption, Short, Unsigned, Signed
  <2>5. raw = s
    BY <1>2, <2>1, <2>3, <2>4, Widths, ModIdentity DEF InType
  <2> QED BY <1>1, <1>2, <2>1, <2>3, <2>5, StoredInteger
<1>6. meaning = Unknown \/ Stored(entry, raw) = meaning
  BY <1>5
<1>7. sum'.raw = raw /\ sum'.meaning = meaning /\ sum'.copied = TRUE
  OBVIOUS
<1> HIDE DEF raw, meaning
<1>8. SumIsSound' /\ sum'.copied \in BOOLEAN
  BY <1>4, <1>6, <1>7 DEF SumIsSound
<1> QED
  BY <1>8
  DEF IInv, TypeOK, ValueIsAsTold, Near, LostAtBoot, FileHoldsAValue, FileFollows

LEMMA AddInvariant == IInv /\ attr_add_uint32 => IInv'
<1> SUFFICES ASSUME IInv, attr_add_uint32 PROVE IInv'
  OBVIOUS
<1>1. /\ Raw(entry, sum.raw)
      /\ sum.meaning = Unknown \/ Stored(entry, sum.raw) = sum.meaning
      /\ sum' = NoSum
  BY DEF IInv, SumIsSound, attr_add_uint32
<1>2. CASE attr_write(sum.raw, sum.meaning)
  BY <1>1, <1>2, WriteInvariant
<1>3. CASE UNCHANGED <<entry, ram, text, told, unsaved>>
  BY <1>1, <1>3, NoDefaultSum
  DEF IInv, TypeOK, ValueIsAsTold, Near, LostAtBoot, FileHoldsAValue, FileFollows,
      SumIsSound
<1> QED BY <1>2, <1>3 DEF attr_add_uint32

LEMMA MaskInvariant == IInv /\ attr_set_mask => IInv'
<1> SUFFICES ASSUME IInv, NEW weight \in BitWeights, NEW on \in BOOLEAN,
                    entry.type \in {"U32", "U64"},
                    attr_write(WRITE_BIT(Bytes(entry, ram), weight, on),
                               IF told = Unknown THEN Unknown
                               ELSE AsNumber(WRITE_BIT(told, weight, on))),
                    sum' = sum
             PROVE  IInv'
  BY DEF attr_set_mask
<1> DEFINE raw == WRITE_BIT(Bytes(entry, ram), weight, on)
           meaning == IF told = Unknown THEN Unknown
                      ELSE AsNumber(WRITE_BIT(told, weight, on))
<1>1. entry \in Table /\ EntryAssumption(entry) /\ entry.type \in Unsigned
  BY TypesDiffer DEF IInv, TypeOK, Unsigned
<1>2. Integer(entry) /\ ram \in Int /\ Bytes(entry, ram) = ram
      /\ (told # Unknown => told = ram)
  BY <1>1, UnsignedValue
<1>3. raw \in Int
  <2>1. weight \in Int
    BY ConversionAssumption DEF ConversionAssumption
  <2> QED BY <1>2, <2>1 DEF WRITE_BIT
<1>4. Raw(entry, raw)
  BY <1>1, <1>2, <1>3, TypesDiffer DEF Raw
<1>5. meaning = Unknown \/ Stored(entry, raw) = meaning
  <2>1. meaning = Unknown \/ meaning = AsNumber(raw)
    BY <1>2
  <2> HIDE DEF raw, meaning
  <2>3. AsNumber(raw) = Unknown \/ (InType(entry, raw) /\ AsNumber(raw) = raw)
    BY <1>1, <1>2, NumberMeans
  <2> QED BY <1>1, <1>2, <1>3, <2>1, <2>3, StoredInteger
<1> HIDE DEF raw, meaning
<1>6. attr_write(raw, meaning)
  BY DEF raw, meaning
<1> QED BY <1>4, <1>5, <1>6, WriteInvariant

LEMMA SaveInvariant == IInv /\ save_attributes => IInv'
<1> SUFFICES ASSUME IInv, save_attributes PROVE IInv'
  OBVIOUS
<1> USE DEF save_attributes
<1>1. FileHoldsAValue' /\ FileFollows'
  BY DEF IInv, TypeOK, FileHoldsAValue, FileFollows
<1> QED BY <1>1 DEF IInv, TypeOK, ValueIsAsTold, Near, LostAtBoot, SumIsSound

LEMMA DefaultInvariant == IInv /\ attr_default => IInv'
<1> SUFFICES ASSUME IInv, attr_default PROVE IInv'
  OBVIOUS
<1> USE DEF attr_default
<1>1. EntryAssumption(entry)
  BY TypesDiffer DEF IInv, TypeOK
<1>2. TypeOK'
  BY <1>1 DEF IInv, TypeOK, EntryAssumption
<1>3. FileHoldsAValue' /\ FileFollows'
  BY DEF IInv, TypeOK, FileHoldsAValue, FileFollows
<1> QED BY <1>2, <1>3 DEF IInv, ValueIsAsTold, Near, SumIsSound

LEMMA DeleteInvariant == IInv /\ attr_delete => IInv'
<1> SUFFICES ASSUME IInv, attr_delete PROVE IInv'
  OBVIOUS
<1> USE DEF attr_delete
<1>1. FileHoldsAValue' /\ FileFollows' /\ unsaved' \in BOOLEAN
  BY DEF IInv, TypeOK, FileHoldsAValue, FileFollows
<1> QED BY <1>1 DEF IInv, TypeOK, ValueIsAsTold, Near, LostAtBoot, SumIsSound

(* A boot: the default if nothing was ever saved or the printed value is   *)
(* refused, else the printed value.                                        *)
LEMMA BootInvariant == IInv /\ attr_init => IInv'
<1> SUFFICES ASSUME IInv, attr_init PROVE IInv'
  OBVIOUS
<1> USE DEF attr_init
<1>1. /\ entry \in Table /\ EntryAssumption(entry) /\ entry' = entry /\ text' = text
      /\ told' = IF unsaved THEN Unknown ELSE told
      /\ Typed(entry, entry.default) /\ Accepts(entry, entry.default)
  BY TypesDiffer DEF IInv, TypeOK, EntryAssumption
<1>2. SumIsSound' /\ sum'.copied \in BOOLEAN /\ unsaved' \in BOOLEAN
  BY NoDefaultSum DEF SumIsSound
<1>3. FileHoldsAValue'
  BY <1>1 DEF IInv, FileHoldsAValue
<1>4. SUFFICES Typed(entry, ram') /\ Accepts(entry, ram') /\ FileFollows' /\ ValueIsAsTold'
  BY <1>1, <1>2, <1>3, <1>4 DEF IInv, TypeOK
<1>5. CASE text = NoText
  <2>1. ram' = entry.default /\ unsaved' = FALSE
    BY <1>5
  <2>2. CASE unsaved
    BY <1>1, <1>5, <2>1, <2>2 DEF FileFollows, ValueIsAsTold
  <2>3. CASE ~unsaved
    <3>1. text # entry_to_kvp(entry, ram)
      BY <1>5, TextReadsBack DEF IInv, TypeOK
    <3>2. ram' = ram
      BY <2>1, <2>3, <3>1 DEF IInv, FileFollows
    <3> QED
      BY <1>1, <1>5, <2>1, <2>3, <3>2
      DEF IInv, TypeOK, FileFollows, ValueIsAsTold, Near, LostAtBoot
  <2> QED BY <2>2, <2>3
<1>6. ASSUME text # NoText
      PROVE  Typed(entry, ram') /\ Accepts(entry, ram') /\ FileFollows' /\ ValueIsAsTold'
  <2>1. PICK v : Typed(entry, v) /\ Accepts(entry, v) /\ text = entry_to_kvp(entry, v)
    BY <1>6 DEF IInv, FileHoldsAValue
  <2>2. /\ LoadsFrom(entry, text) <=> PrintsInside(entry, v)
        /\ Loaded(entry, text) = IF entry.type = "FLOAT" THEN Rounded(v) ELSE v
        /\ entry_to_kvp(entry, Loaded(entry, text)) = text
    BY <1>1, <2>1, TextReadsBack
  <2>3. ASSUME ~unsaved
        PROVE  /\ LoadsFrom(entry, text) <=> PrintsInside(entry, ram)
               /\ Loaded(entry, text) = IF entry.type = "FLOAT" THEN Rounded(ram) ELSE ram
    BY <1>1, <1>6, <2>3, TextReadsBack DEF IInv, TypeOK, FileFollows
  <2>4. CASE LoadsFrom(entry, text)
    <3>1. ram' = Loaded(entry, text) /\ unsaved' = FALSE
      BY <1>6, <2>4
    <3>2. Typed(entry, ram') /\ Accepts(entry, ram')
      <4>1. CASE entry.type = "FLOAT"
        <5>1. v \in Int /\ Rounded(v) \in Int
          BY <1>1, <2>1, <4>1, TypesDiffer, RoundedTwice DEF Typed
        <5> QED BY <1>1, <2>2, <2>4, <3>1, <4>1, <5>1, TypesDiffer DEF Typed, PrintsInside
      <4>2. CASE entry.type # "FLOAT"
        BY <2>1, <2>2, <3>1, <4>2
      <4> QED BY <4>1, <4>2
    <3>3. FileFollows'
      BY <1>1, <2>2, <3>1 DEF FileFollows
    <3>4. ValueIsAsTold'
      <4> SUFFICES ASSUME ~unsaved, told # Unknown
                   PROVE  Near(ram', told) \/ (LostAtBoot(told))'
        BY <1>1 DEF ValueIsAsTold, Near
      <4>1. ram' = IF entry.type = "FLOAT" THEN Rounded(ram) ELSE ram
        BY <2>3, <3>1
      <4>2. CASE entry.type # "FLOAT"
        BY <1>1, <4>1, <4>2 DEF IInv, ValueIsAsTold, Near, LostAtBoot, PrintsInside
      <4>3. CASE entry.type = "FLOAT"
        <5>1. told \in Int /\ entry.default \in Int
          BY <1>1, <4>3, TypesDiffer DEF IInv, TypeOK, Typed
        <5>2. /\ Near(ram, told) => ram' = Rounded(told)
              /\ Near(ram, entry.default) => ram' = Rounded(entry.default)
          BY <4>1, <4>3, <5>1, RoundedTwice DEF Near
        <5> QED BY <1>1, <4>3, <5>2 DEF IInv, ValueIsAsTold, Near, LostAtBoot
      <4> QED BY <4>2, <4>3
    <3> QED BY <3>2, <3>3, <3>4
  <2>5. CASE ~LoadsFrom(entry, text)
    <3>1. ram' = entry.default /\ unsaved' = TRUE
      BY <1>6, <2>5
    <3>2. ValueIsAsTold'
      <4> SUFFICES ASSUME ~unsaved, told # Unknown
                   PROVE  ~PrintsInside(entry, told)
        BY <1>1, <3>1 DEF ValueIsAsTold, Near, LostAtBoot
      <4>1. entry.type = "FLOAT" /\ ~Accepts(entry, Rounded(ram)) /\ Accepts(entry, ram)
        BY <2>3, <2>5 DEF PrintsInside, IInv, TypeOK
      <4>2. CASE Near(ram, told)
        <5>1. ram # Rounded(told)
          <6>1. told \in Int
            BY <1>1, <4>1, TypesDiffer DEF IInv, TypeOK, Typed
          <6> QED BY <4>1, <6>1, RoundedTwice
        <5> QED BY <4>1, <4>2, <5>1 DEF Near, PrintsInside
      <4>3. CASE ~Near(ram, told)
        BY <4>3 DEF IInv, ValueIsAsTold, LostAtBoot
      <4> QED BY <4>2, <4>3
    <3> QED BY <1>1, <3>1, <3>2 DEF FileFollows
  <2> QED BY <2>4, <2>5
<1> QED BY <1>5, <1>6

-----------------------------------------------------------------------------
LEMMA NextInvariant == IInv /\ [Next]_vars => IInv'
<1> SUFFICES ASSUME IInv, [Next]_vars PROVE IInv'
  OBVIOUS
<1>1. CASE set_parameter
  BY <1>1, SetParameterInvariant
<1>2. CASE attr_load
  BY <1>2, LoadInvariant
<1>3. CASE ats_set_cmd \/ ats_mod_cmd
  BY <1>3, ShellInvariant
<1>4. CASE typed_set
  BY <1>4, TypedSetInvariant
<1>5. CASE attr_copy_uint32
  BY <1>5, CopyInvariant
<1>6. CASE attr_add_uint32
  BY <1>6, AddInvariant
<1>7. CASE attr_set_mask
  BY <1>7, MaskInvariant
<1>8. CASE save_attributes
  BY <1>8, SaveInvariant
<1>9. CASE attr_default
  BY <1>9, DefaultInvariant
<1>10. CASE attr_delete
  BY <1>10, DeleteInvariant
<1>11. CASE attr_init
  BY <1>11, BootInvariant
<1>12. CASE UNCHANGED vars
  BY <1>12
  DEF vars, IInv, TypeOK, ValueIsAsTold, Near, LostAtBoot, FileHoldsAValue, FileFollows,
      SumIsSound
<1> QED
  BY <1>1, <1>2, <1>3, <1>4, <1>5, <1>6, <1>7, <1>8, <1>9, <1>10, <1>11, <1>12 DEF Next

(* The inductive invariant holds in every reachable state.                 *)
THEOREM ConversionInvariance == Spec => []IInv
  BY InitInvariant, NextInvariant, PTL DEF Spec

(* The value has the type of the attribute and passes its own validator.   *)
THEOREM ConversionTypeCorrect == Spec => []TypeOK
  BY ConversionInvariance, PTL DEF IInv

(* A value that was accepted is the one that was meant, over any number of *)
(* saves, failed saves, boots and conversions, for types of any width and  *)
(* limits of any precision: SMP never truncates, a float does not drift,   *)
(* an addition adds to what it copied. A boot replaces by the default only *)
(* a float that prints outside of its limits.                              *)
THEOREM ValuesAreAsTold == Spec => []ValueIsAsTold
  BY ConversionInvariance, PTL DEF IInv

(* What would be saved now is accepted by the next boot and gives the      *)
(* value back, exactly if its printed number is inside the limits.         *)
THEOREM ValuesReadBack == Spec => []ReadsBack
<1>1. TypeOK => ReadsBack
  <2> SUFFICES ASSUME TypeOK PROVE ReadsBack
    OBVIOUS
  <2>1. entry \in Table /\ Typed(entry, ram) /\ Accepts(entry, ram)
    BY DEF TypeOK
  <2> QED BY <2>1, TextReadsBack DEF ReadsBack, Near
<1> QED BY <1>1, ConversionTypeCorrect, PTL

(* Every accessor and the answer to an SMP client give the integer at      *)
(* pData, sign extension included.                                         *)
THEOREM ReadersAlwaysAgree == Spec => []ReadersAgree
<1>1. TypeOK => ReadersAgree
  <2> SUFFICES ASSUME TypeOK PROVE ReadersAgree
    OBVIOUS
  <2>1. entry \in Table /\ Typed(entry, ram)
    BY DEF TypeOK
  <2>2. ASSUME Integer(entry)
        PROVE  cbor_encode_attribute(entry, ram).value = ram
    <3>1. attr_get(entry, ram) = ram
      BY <2>1, <2>2, BytesAreTheValue DEF attr_get
    <3>2. \/ cbor_encode_attribute(entry, ram) = CborInt(ram)
          \/ cbor_encode_attribute(entry, ram) = Item("bool", ram)
      BY <2>1, <2>2, <3>1, TypesDiffer DEF cbor_encode_attribute
    <3> QED BY <3>2 DEF CborInt, Item
  <2>3. ASSUME NEW a \in Accessors, entry.type \in Reads(a)
        PROVE  Copied(a, entry, ram) = ram
    <3>1. CASE a \in {"attr_copy_uint32", "attr_copy_uint64", "attr_get_bool"}
      <4>1. Integer(entry) /\ entry.type \notin Signed
        BY <2>3, <3>1 DEF Reads, Integer, Unsigned, Signed, Short
      <4>2. Bytes(entry, ram) = ram
        BY <2>1, <4>1, BytesAreTheValue
      <4> QED BY <3>1, <4>2 DEF Copied
    <3>2. CASE a \in {"attr_copy_signed32", "attr_copy_signed64"}
      <4>1. Integer(entry) /\ entry.type \in Signed
        BY <2>3, <3>2 DEF Reads, Integer, Signed, ShortSigned
      <4>2. sign_extend64(entry, ram) = ram
        BY <2>1, <4>1, BytesAreTheValue
      <4> QED BY <3>2, <4>2 DEF Copied
    <3>3. CASE a = "attr_copy_float"
      BY <3>3 DEF Copied
    <3> QED BY <2>3, <3>1, <3>2, <3>3 DEF Accessors
  <2> QED BY <2>2, <2>3 DEF ReadersAgree
<1> QED BY <1>1, ConversionTypeCorrect, PTL

(* An SMP client that writes back what it has read changes nothing, but    *)
(* for the two kinds the property names: the item decodes to the choice    *)
(* the type asks for, is within its bounds and passes its validator.       *)
THEOREM ReadsMayBeWritten == Spec => []ReadMayBeWritten
<1>1. TypeOK => ReadMayBeWritten
  <2> DEFINE item == cbor_encode_attribute(entry, ram)
  <2> SUFFICES ASSUME TypeOK, InCborRange(item), Has(entry, "FLAGS_WRITABLE"),
                      entry.type # "FLOAT", entry.type \in Signed => ram < 0
               PROVE  CanBeSet(entry, item) /\ Stored(entry, item.value) = ram
    BY DEF ReadMayBeWritten, CanBeRead
  <2>1. entry \in Table /\ Typed(entry, ram) /\ Accepts(entry, ram)
    BY DEF TypeOK
  <2>2. entry.type \in Types
    BY <2>1, TypesDiffer DEF EntryAssumption
  <2>3. /\ item.value = ram
        /\ p2_choice(item) = ChoiceFor(entry)
        /\ WithinBounds(entry, ram)
        /\ Stored(entry, ram) = ram
    <3>1. CASE Integer(entry)
      <4>1. ram \in Int /\ InType(entry, ram) /\ Stored(entry, ram) = ram
        BY <2>1, <3>1, IntegerEntry, StoredInteger
      <4>2. attr_get(entry, ram) = ram
        BY <2>1, <3>1, BytesAreTheValue DEF attr_get
      <4>3. CASE entry.type \in Unsigned
        <5>1. entry.lo = 0
          BY <2>1, <3>1, <4>3, TypesDiffer DEF EntryAssumption, Unsigned, Signed
        <5>2. ram >= 0
          BY <4>1, <5>1 DEF InType
        <5>3. item = Item("uint", ram)
          BY <3>1, <4>2, <4>3, <5>2 DEF cbor_encode_attribute, CborInt, Unsigned
        <5>4. ChoiceFor(entry) = "uint64"
          BY <4>3 DEF ChoiceFor, Unsigned, Signed
        <5>5. item.value = ram /\ p2_choice(item) = "uint64"
          BY <5>3 DEF Item, p2_choice
        <5> QED BY <4>1, <5>4, <5>5 DEF WithinBounds
      <4>4. CASE entry.type \in Signed
        <5>1. item = Item("nint", ram)
          BY <3>1, <4>1, <4>2, <4>4 DEF cbor_encode_attribute, CborInt, Signed
        <5>2. ChoiceFor(entry) = "int64"
          BY <4>4 DEF ChoiceFor, Unsigned, Signed
        <5>3. item.value = ram /\ p2_choice(item) = "int64"
          BY <5>1 DEF Item, p2_choice
        <5> QED BY <4>1, <5>2, <5>3 DEF WithinBounds
      <4>5. CASE entry.type = "BOOL"
        <5>1. item = Item("bool", ram)
          BY <3>1, <4>2, <4>5 DEF cbor_encode_attribute
        <5> QED BY <4>1, <4>5, <5>1
                DEF Item, p2_choice, ChoiceFor, WithinBounds, Unsigned, Signed
      <4> QED BY <3>1, <4>3, <4>4, <4>5 DEF Integer
    <3>2. CASE ~Integer(entry)
      <4>1. entry.type \in {"STRING", "BYTE_ARRAY"}
        BY <2>1, <3>2, TypesDiffer
      <4>2. item = IF entry.type = "STRING" THEN Item("tstr", ram) ELSE Item("bstr", ram)
        BY <3>2, <4>1 DEF cbor_encode_attribute
      <4>3. entry.validator \in {"string", "cps", "array"}
        BY <2>1, <4>1, TypesDiffer DEF EntryAssumption
      <4>4. Stored(entry, ram) = ram
        BY <4>3 DEF Stored
      <4> QED BY <4>1, <4>2, <4>4
              DEF Item, p2_choice, ChoiceFor, WithinBounds, Unsigned, Signed
    <3> QED BY <3>1, <3>2
  <2> QED BY <2>1, <2>3 DEF CanBeSet
<1> QED BY <1>1, ConversionTypeCorrect, PTL
==============================================================================
