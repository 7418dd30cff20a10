------------------------------- MODULE AttrCbor -------------------------------
(***************************************************************************)
(* The messages of the SMP group: what the functions zcbor generated from  *)
(* zcbor/attributes.cddl write, src/generated/attribute_mgmt_encode.c, and *)
(* read, src/generated/attribute_mgmt_decode.c. A request is encoded by    *)
(* the client and decoded by the device, a result the other way round.     *)
(*                                                                         *)
(* A structure is a function from the names of its members that are        *)
(* present to CBOR items; a message is the sequence of the pairs in its    *)
(* map. The bytes of an item are left out (AttrConversion has the values). *)
(***************************************************************************)
EXTENDS Integers, Sequences, FiniteSets

Item(kind, value) == [kind |-> kind, is |-> value]
Empty == [key \in {} |-> Item("bool", FALSE)]

(* A member: its key, the kinds of item it may be, and whether zcbor       *)
(* expects it or asks zcbor_present_encode() and zcbor_present_decode().   *)
Member(key, kinds) == [key |-> key, kinds |-> kinds, optional |-> FALSE]
Optional(key, kinds) == [key |-> key, kinds |-> kinds, optional |-> TRUE]

Uint == {"uint"}
Sint == {"uint", "nint"}
Bool == {"bool"}
Tstr == {"tstr"}
AnyKind == {"bool", "uint", "nint", "tstr", "float", "bstr"}

-----------------------------------------------------------------------------
(* encode_*(): the order in which the members are written.                 *)
encode_get_parameter == <<Member("p1", Uint)>>
encode_set_parameter == <<Member("p1", Uint), Member("p2", AnyKind)>>
encode_load_parameter_file == <<Optional("p1", Tstr)>>
encode_dump_parameter_file == <<Member("p1", Uint), Optional("p2", Tstr)>>
encode_factory_reset == <<>>
encode_set_notify == <<Member("p1", Uint), Member("p2", Bool)>>
encode_get_notify == <<Member("p1", Uint)>>
encode_disable_notify == <<>>

encode_get_parameter_result ==
    <<Member("r", Sint), Member("id", Uint), Optional("r1", AnyKind)>>
encode_set_parameter_result == <<Member("id", Uint), Member("r", Sint)>>
encode_load_parameter_file_result == <<Member("r", Sint), Optional("f", Tstr)>>
encode_dump_parameter_file_result == <<Member("r", Sint), Optional("n", Tstr)>>
encode_factory_reset_result == <<Member("r", Sint)>>
encode_set_notify_result == <<Member("id", Uint), Member("r", Sint)>>
encode_get_notify_result == <<Member("id", Uint), Member("r", Sint)>>
encode_disable_notify_result == <<Member("r", Sint)>>

(* decode_*(): the order in which they are expected.                       *)
decode_get_parameter == <<Member("p1", Uint)>>
decode_set_parameter == <<Member("p1", Uint), Member("p2", AnyKind)>>
decode_load_parameter_file == <<Optional("p1", Tstr)>>
decode_dump_parameter_file == <<Member("p1", Uint), Optional("p2", Tstr)>>
decode_factory_reset == <<>>
decode_set_notify == <<Member("p1", Uint), Member("p2", Bool)>>
decode_get_notify == <<Member("p1", Uint)>>
decode_disable_notify == <<>>

\* mutant: the order of set_parameter_result
decode_id_first ==
    <<Member("id", Uint), Member("r", Sint), Optional("r1", AnyKind)>>

decode_get_parameter_result ==
    <<Member("r", Sint), Member("id", Uint), Optional("r1", AnyKind)>>
decode_set_parameter_result == <<Member("id", Uint), Member("r", Sint)>>
decode_load_parameter_file_result == <<Member("r", Sint), Optional("f", Tstr)>>
decode_dump_parameter_file_result == <<Member("r", Sint), Optional("n", Tstr)>>
decode_factory_reset_result == <<Member("r", Sint)>>
decode_set_notify_result == <<Member("id", Uint), Member("r", Sint)>>
decode_get_notify_result == <<Member("id", Uint), Member("r", Sint)>>
decode_disable_notify_result == <<Member("r", Sint)>>

Encode == [
    get_parameter        |-> encode_get_parameter,
    set_parameter        |-> encode_set_parameter,
    load_parameter_file  |-> encode_load_parameter_file,
    dump_parameter_file  |-> encode_dump_parameter_file,
    factory_reset        |-> encode_factory_reset,
    set_notify           |-> encode_set_notify,
    get_notify           |-> encode_get_notify,
    disable_notify       |-> encode_disable_notify,
    unsupported          |-> <<>>]

Decode == [
    get_parameter        |-> decode_get_parameter,
    set_parameter        |-> decode_set_parameter,
    load_parameter_file  |-> decode_load_parameter_file,
    dump_parameter_file  |-> decode_dump_parameter_file,
    factory_reset        |-> decode_factory_reset,
    set_notify           |-> decode_set_notify,
    get_notify           |-> decode_get_notify,
    disable_notify       |-> decode_disable_notify,
    unsupported          |-> <<>>]

EncodeResult == [
    get_parameter        |-> encode_get_parameter_result,
    set_parameter        |-> encode_set_parameter_result,
    load_parameter_file  |-> encode_load_parameter_file_result,
    dump_parameter_file  |-> encode_dump_parameter_file_result,
    factory_reset        |-> encode_factory_reset_result,
    set_notify           |-> encode_set_notify_result,
    get_notify           |-> encode_get_notify_result,
    disable_notify       |-> encode_disable_notify_result]

DecodeResult == [
    get_parameter        |-> decode_get_parameter_result,
    set_parameter        |-> decode_set_parameter_result,
    load_parameter_file  |-> decode_load_parameter_file_result,
    dump_parameter_file  |-> decode_dump_parameter_file_result,
    factory_reset        |-> decode_factory_reset_result,
    set_notify           |-> decode_set_notify_result,
    get_notify           |-> decode_get_notify_result,
    disable_notify       |-> decode_disable_notify_result]

-----------------------------------------------------------------------------
(* The members of keys, in the order of the table: the place of the j-th   *)
(* of those present is the one that has j of them up to it.                *)
Rank(present, k) == Cardinality({i \in present : i <= k})
Place(present, j) == CHOOSE k \in present : Rank(present, k) = j

Among(members, keys) ==
    LET present == {k \in DOMAIN members : members[k].key \in keys}
    IN  [j \in 1 .. Cardinality(present) |-> members[Place(present, j)]]

(* cbor_encode_*() of a structure.                                         *)
cbor_encode(members, struct) ==
    LET written == Among(members, DOMAIN struct)
    IN  [k \in DOMAIN written |-> [key |-> written[k].key, item |-> struct[written[k].key]]]

Keys(message) == {message[k].key : k \in DOMAIN message}

(* cbor_decode_*() returns 0: each member where it is expected and of its  *)
(* kind, the optional ones if they are next, then the end of the map.      *)
Decodes(members, message) ==
    LET read == Among(members, Keys(message))
    IN  /\ \A k \in DOMAIN members : members[k].optional \/ members[k].key \in Keys(message)
        /\ Len(read) = Len(message)
        /\ \A k \in DOMAIN message : /\ message[k].key = read[k].key
                                     /\ message[k].item.kind \in read[k].kinds

(* The structure it fills in.                                              *)
cbor_decode(message) ==
    [key \in Keys(message) |->
        message[CHOOSE k \in DOMAIN message : message[k].key = key].item]

(* A structure with every member that is not optional.                     *)
Complete(members, struct) ==
    /\ \A k \in DOMAIN members : members[k].optional \/ members[k].key \in DOMAIN struct
    /\ DOMAIN struct \subseteq {members[k].key : k \in DOMAIN members}
    /\ \A k \in DOMAIN members :
          members[k].key \in DOMAIN struct => struct[members[k].key].kind \in members[k].kinds
==============================================================================
