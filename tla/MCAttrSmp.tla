------------------------------- MODULE MCAttrSmp -------------------------------
(***************************************************************************)
(* Four attributes and the requests and commands for the model checker.    *)
(***************************************************************************)
EXTENDS AttrSmp, TLC

Entry(validator, lo, span, max, default, flags) ==
    [validator |-> validator, lo |-> lo, span |-> span, min |-> lo, max |-> max,
     size |-> 0, default |-> default, zero |-> 0, flags |-> flags]

(* 1: a signed setting with a range narrower than its type; 2:             *)
(* config_version, of two bits; 3: factory_reset_enable, which is not      *)
(* saved; 4: a setting that can only be written.                           *)
MCIds == 1..4
MCTable ==
    << Entry("int", -2, 4, 0, 0, {"FLAGS_READABLE", "FLAGS_WRITABLE", "FLAGS_SAVABLE"}),
       Entry("int", 0, 4, 2, 0, {"FLAGS_READABLE", "FLAGS_SAVABLE"}),
       Entry("bool", 0, 2, 1, 0, {"FLAGS_READABLE", "FLAGS_WRITABLE"}),
       Entry("int", 0, 2, 0, 1, {"FLAGS_WRITABLE", "FLAGS_SAVABLE"}) >>
MCRaw == -2..3
MCIdSpan == 8
MCInvalid == 5

uint(n) == Item("uint", n)
bool(n) == Item("bool", n)
tstr(p) == Item("tstr", p)
Ask(op, struct) == [op |-> op, struct |-> struct]

(* Every command, with an identifier of no attribute, one that is cut to   *)
(* 16 bits, values of the wrong kind or out of range, and messages without *)
(* a member.                                                               *)
MCRequests ==
    {Ask("get_parameter", "p1" :> uint(i)) : i \in {4, 9, 7, MCInvalid}} \cup
    {Ask("set_parameter", "p1" :> uint(1) @@ "p2" :> v) :
        v \in {Item("nint", -1), Item("nint", -5), uint(0)}} \cup
    {Ask("set_parameter", "p1" :> uint(3) @@ "p2" :> bool(1)),
     Ask("set_parameter", "p1" :> uint(2) @@ "p2" :> uint(1)),
     Ask("set_parameter", "p1" :> uint(3)),
     Ask("load_parameter_file", "p1" :> tstr("/b")),
     Ask("load_parameter_file", "p1" :> tstr("long")),
     Ask("load_parameter_file", Empty),
     Ask("dump_parameter_file", "p1" :> uint(ATTR_DUMP_W)),
     Ask("dump_parameter_file", "p1" :> uint(ATTR_DUMP_RO) @@ "p2" :> tstr("/b")),
     Ask("dump_parameter_file", "p1" :> uint(UINT8_MAX)),
     Ask("dump_parameter_file", "p1" :> uint(ATTR_DUMP_RW) @@ "p2" :> tstr("long")),
     Ask("factory_reset", Empty),
     Ask("set_notify", "p1" :> uint(1) @@ "p2" :> bool(1)),
     Ask("set_notify", "p1" :> uint(4) @@ "p2" :> bool(1)),
     Ask("set_notify", "p1" :> uint(7) @@ "p2" :> bool(1)),
     Ask("get_notify", "p1" :> uint(1)),
     Ask("disable_notify", Empty),
     Ask("unsupported", Empty)}

Cmd(do, path, type) == [do |-> do, path |-> path, type |-> type]
MCCommands ==
    {Cmd("load", "/a", ATTR_DUMP_RW), Cmd("load", "/b", ATTR_DUMP_RW),
     Cmd("dump", "/a", ATTR_DUMP_W), Cmd("dump", "/attr", ATTR_DUMP_W),
     Cmd("delete", "/attr", ATTR_DUMP_RW)}

MCPaths == {"/attr", "/a", "/b"}

(* A file that is in order and one with a valid and an invalid pair.       *)
KV(k, v) == [key |-> k, val |-> v]
MCStartFiles ==
    {"/attr" :> Kvp(KeyValues(Defaults, Saved)) @@
     "/a" :> Kvp({KV(1, -2), KV(3, 1)}) @@ "/b" :> Kvp({KV(1, -1), KV(2, 1)})}
================================================================================
