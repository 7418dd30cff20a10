--------------------------- MODULE MCAttrConversion ---------------------------
(* Instances of AttrConversion for TLC: attributes of each type, with a    *)
(* hexadecimal digit of one bit, so that a byte has two. The types are two *)
(* to five bits wide: what counts is that each is wider than the one       *)
(* before. Four lies between two numbers "%e" can print; one of the floats *)
(* has limits it cannot print.                                             *)
EXTENDS AttrConversion

ReadWrite == {"FLAGS_READABLE", "FLAGS_WRITABLE", "FLAGS_SAVABLE"}

Attribute(type, validator, lo, span, min, max, size, default, flags) ==
    [type |-> type, validator |-> validator, lo |-> lo, span |-> span,
     min |-> min, max |-> max, size |-> size, default |-> default,
     zero |-> default, flags |-> flags]

AllTypes == {
    Attribute("BOOL", "bool", 0, 4, 0, 1, 1, 1, ReadWrite),
    Attribute("BOOL", "cpb", 0, 4, 0, 1, 1, 0, ReadWrite),
    Attribute("U8", "int", 0, 4, 0, 0, 1, 3, ReadWrite),
    Attribute("U16", "int", 0, 8, 2, 6, 2, 2, ReadWrite),
    Attribute("U16", "cp", 0, 8, 0, 0, 2, 0, ReadWrite),
    Attribute("U32", "int", 0, 16, 0, 0, 3, 0, ReadWrite),
    Attribute("U64", "int64", 0, 32, 0, 0, 4, 0, ReadWrite),
    Attribute("S8", "int", -2, 4, 0, 0, 1, -1, ReadWrite),
    Attribute("S16", "int", -4, 8, -3, 3, 2, 0, ReadWrite),
    Attribute("S32", "int", -8, 16, 0, 0, 3, 0, ReadWrite),
    Attribute("S32", "cp", -8, 16, -5, 6, 3, 0, {"FLAGS_READABLE", "FLAGS_OBSCURE_IN_SHOW"}),
    Attribute("S64", "int64", -16, 32, 0, 0, 4, 0, ReadWrite),
    Attribute("FLOAT", "float", 0, 1, -20, 20, 4, 5, ReadWrite),
    Attribute("FLOAT", "float", 0, 1, -23, 22, 4, 5, ReadWrite),
    Attribute("FLOAT", "float", 0, 1, 0, 0, 4, 0, ReadWrite),
    Attribute("STRING", "string", 0, 1, 0, 3, 4, <<>>, ReadWrite),
    Attribute("STRING", "cps", 0, 1, 1, 2, 3, <<"a">>, ReadWrite),
    Attribute("BYTE_ARRAY", "array", 0, 1, 0, 0, 2, <<0, 0>>, ReadWrite) }

(* The borders of every width, and numbers outside of all.                  *)
MCNumbers ==
    {-33, -32, -23, -17, -16, -9, -8, -5, -4, -3, -2, -1, 0, 1, 2, 3, 4, 5, 6,
     7, 8, 15, 16, 20, 22, 31, 32}

MCStrings == {<<>>, <<"a">>, <<"a", "b">>, <<"a", "b", "a">>, <<"a", "b", "a", "b">>}
MCArrays == {<<0, 0>>, <<1, 2>>, <<3, 1>>, <<3>>, <<1, 2, 3>>}
MCHexTexts == {<<>>, <<1>>, <<1, 0>>, <<1, 0, 1>>, <<1, 0, 1, 1>>, <<1, 1, 1, 1, 1>>}
MCBitWeights == {1, 2, 8, 16}
==============================================================================
