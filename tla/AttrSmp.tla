-------------------------------- MODULE AttrSmp --------------------------------
(***************************************************************************)
(* The commands of the SMP group, src/attribute_mgmt.c, as the messages of *)
(* AttrCbor, next to the load, dump and delete commands of the shell       *)
(* (src/attr_shell.c) and the setters of the firmware: the attributes in   *)
(* RAM, the files, and the texts of dumps that are on the heap.            *)
(*                                                                         *)
(* The build is the one of AttrStore with CONFIG_ATTR_VALIDATE_ENTIRE_FILE *)
(* and CONFIG_ATTRIBUTE_MGMT_FACTORY_RESET. What holds attr_mutex is one   *)
(* action here (AttrStore has the steps of a load, AttrMgmt the mutex, the *)
(* connection and the notifications, AttrConversion the values); the other *)
(* threads run between the actions of a handler.                           *)
(***************************************************************************)
EXTENDS AttrValidator, AttrCbor, FiniteSets

CONSTANTS
    Ids,               \* the attributes of the generated table
    Table,             \* ATTR_TABLE: [Ids -> entry], see AttrValidator
    Raw,               \* the values callers pass and files hold
    IdSpan,            \* how many values attr_id_t has: 2^16
    INVALID_PARAM_ID,  \* ATTR_TABLE_SIZE + 1
    config_version,    \* the attributes the commands use themselves
    factory_reset_enable,
    dump_path,         \* the values of the attributes of these names
    load_path,
    AttributePath,     \* ATTR_ABS_PATH
    TooLong,           \* a path of FSU_MAX_ABS_PATH_SIZE or more characters
    Paths,             \* every other path
    StartFiles,        \* the files there may be: [Paths -> File]
    USER_FILE_NAME,    \* CONFIG_ATTRIBUTE_MGMT_DUMP_USER_FILE_NAME
    Requests,          \* what clients ask: [op, struct]
    Commands,          \* what is typed: [do, path, type]
    MaxRequests, MaxCommands, MaxSets      \* bounds

Having(flag) == {i \in Ids : Has(Table[i], flag)}
Writable == Having("FLAGS_WRITABLE")
Readable == Having("FLAGS_READABLE")
Saved == Having("FLAGS_SAVABLE") \ Having("FLAGS_DEPRECATED")

Pair == [key : Ids, val : Raw]
File == [state : {"absent", "unparsable", "kvp"}, pairs : SUBSET Pair]
NoFile == [state |-> "absent", pairs |-> {}]
Broken == [state |-> "unparsable", pairs |-> {}]
Kvp(pairs) == [state |-> "kvp", pairs |-> pairs]

EPERM == -1
EIO == -5
EINVAL == -22
ENOMSG == -35
UINT8_MAX == 255

(* enum attr_dump. Every other number selects what RW does.                *)
ATTR_DUMP_RW == 0
ATTR_DUMP_W == 1
ATTR_DUMP_RO == 2

Ops == DOMAIN Encode
Users == {"server", "shell"}
NoRequest == [op |-> "unsupported", struct |-> Empty]
NoCommand == [do |-> "none", path |-> AttributePath, type |-> ATTR_DUMP_RW]

(* attr_prepare_then_dump(): the attributes a dump shows.                  *)
is_dump_rw == Readable \ Having("FLAGS_DEPRECATED")
is_dump_any == is_dump_rw              \* mutant: FLAGS_WRITABLE not asked
is_dump_w == is_dump_rw \cap Writable
is_dump_ro == is_dump_rw \ Writable

dumpable(type) ==
    CASE type = ATTR_DUMP_W -> is_dump_w
      [] type = ATTR_DUMP_RO -> is_dump_ro
      [] OTHER -> is_dump_rw

KeyValues(values, ids) == {[key |-> i, val |-> values[i]] : i \in ids}

Defaults == [i \in Ids |-> Table[i].default]

(* What the generator guarantees, as in AttrStore; the sum that            *)
(* attr_add_uint32() writes is cut to the type like every other number.    *)
ASSUME SmpTableAssumption ==
    /\ IsFiniteSet(Ids)
    /\ Ids \subseteq Nat /\ INVALID_PARAM_ID \notin Ids
    /\ IdSpan \in Nat \ {0} /\ \A i \in Ids : i < IdSpan
    /\ {config_version, factory_reset_enable} \subseteq Ids
    /\ {0, 1} \subseteq Raw /\ Raw \subseteq Int
    /\ \A i \in Ids :
          /\ Table[i].validator \in {"int", "bool", "cp", "cpb"}
          /\ Table[i].lo \in Int /\ Table[i].span \in Nat \ {0}
          /\ Table[i].lo .. (Table[i].lo + Table[i].span - 1) \subseteq Raw
          /\ \A n \in Raw :
                /\ Stored(Table[i], n) \in Raw
                /\ Stored(Table[i], Stored(Table[i], n)) = Stored(Table[i], n)
                /\ Accepts(Table[i], n) => Accepts(Table[i], Stored(Table[i], n))
          /\ Table[i].default \in Raw
          /\ Accepts(Table[i], Table[i].default)
          /\ Stored(Table[i], Table[i].default) = Table[i].default
    /\ LET e == Table[config_version]
       IN  \A n \in Raw : /\ Stored(e, n + 1) \in Raw
                          /\ Stored(e, Stored(e, n + 1)) = Stored(e, n + 1)
                          /\ Accepts(e, n + 1) => Accepts(e, Stored(e, n + 1))
    /\ Table[config_version].validator = "int"

(* Without an attribute to show or to save, strlen() of a null pointer.    *)
ASSUME SmpSelectionAssumption == Saved # {} /\ is_dump_w # {} /\ is_dump_ro # {}

ASSUME SmpInputAssumption ==
    /\ AttributePath \in Paths /\ dump_path \in Paths /\ load_path \in Paths
    /\ TooLong \notin Paths
    /\ StartFiles \subseteq [Paths -> File]
    /\ \A f \in StartFiles : f[AttributePath] = Kvp(KeyValues(Defaults, Saved))
    /\ \A q \in Requests : /\ q.op \in Ops /\ DOMAIN q.struct \subseteq {"p1", "p2"}
                           /\ q.struct = [key \in DOMAIN q.struct |-> q.struct[key]]
    /\ Commands \subseteq [do : {"load", "dump", "delete"}, path : Paths, type : Nat]
    /\ USER_FILE_NAME \in BOOLEAN
    /\ MaxRequests \in Nat /\ MaxCommands \in Nat /\ MaxSets \in Nat

VARIABLES
    ram,               \* [Ids -> Raw], the values pData points to
    notify,            \* the bits of notify that are set
    files,             \* [Paths -> File]
    heap,              \* how many texts k_malloc() gave and nobody freed
    step,              \* [Users -> where in a handler or a command]
    ask,               \* the request: its kind and its structure
    message,           \* the map that is transferred, both ways
    reply,             \* the status the handler returns to mcumgr
    result,            \* the structure it encodes
    command,           \* what the shell does
    text,              \* [Users -> the pairs of the text it has on the heap]
    version,           \* [Users -> current_val of attr_add_uint32()]
    left,              \* how many requests, commands and sets may come
    touched,           \* the request has changed RAM
    saveFailed,        \* a save made for the request has failed
    apart,             \* RAM and the attribute file are not told to agree
    seen,              \* what RAM has been since the request to dump came
    last,              \* [Paths -> who wrote or deleted the file last, and
                       \* whether it is a dump of the writable attributes]
    leaked             \* texts the shell has forgotten

vars == <<ram, notify, files, heap, step, ask, message, reply, result, command,
          text, version, left, touched, saveFailed, apart, seen, last, leaked>>

transfer == <<ask, message, reply, result>>
shown == <<heap, text, leaked>>
stored == <<files, apart, last>>

Nobody == [by |-> "nobody", w |-> FALSE]

TypeOK ==
    /\ ram \in [Ids -> Raw]
    /\ notify \subseteq Ids
    /\ files \in [Paths -> File]
    /\ heap \in Nat
    /\ step \in [Users -> {"idle", "received", "load", "build", "write", "table",
                           "save", "version", "increment", "answer", "sent"}]
    /\ ask.op \in Ops
    /\ reply \in {"none", "OK", "EINVAL", "ENOTSUP", "EMSGSIZE"}
    /\ command \in [do : {"none", "load", "dump", "delete"}, path : Paths, type : Nat]
    /\ text \in [Users -> SUBSET Pair]
    /\ version \in [Users -> Raw]
    /\ left \in [requests : 0..MaxRequests, commands : 0..MaxCommands, sets : 0..MaxSets]
    /\ {touched, saveFailed, apart} \subseteq BOOLEAN
    /\ seen \subseteq [Ids -> Raw]
    /\ last \in [Paths -> [by : Users \cup {"nobody", "save"}, w : BOOLEAN]]
    /\ leaked \in Nat

(* attr_init() is over and the attributes have their defaults.             *)
Init ==
    /\ ram = Defaults
    /\ notify = {}
    /\ files \in StartFiles
    /\ heap = 0
    /\ step = [u \in Users |-> "idle"]
    /\ ask = NoRequest
    /\ message = <<>>
    /\ reply = "none"
    /\ result = Empty
    /\ command = NoCommand
    /\ text = [u \in Users |-> {}]
    /\ version = [u \in Users |-> 0]
    /\ left = [requests |-> MaxRequests, commands |-> MaxCommands, sets |-> MaxSets]
    /\ touched = FALSE /\ saveFailed = FALSE /\ apart = FALSE
    /\ seen = {}
    /\ last = [p \in Paths |-> Nobody]
    /\ leaked = 0

-----------------------------------------------------------------------------
(* What the handlers share.                                                *)

Goto(u, place) == step' = [step EXCEPT ![u] = place]

(* save_attributes(ATTR_SAVE_NOW) and, for a setter, the same: on failure  *)
(* the file is the old one.                                                *)
save_attributes(u, values, ok) ==
    /\ files' = IF ok THEN [files EXCEPT ![AttributePath] = Kvp(KeyValues(values, Saved))]
                      ELSE files
    /\ last' = IF ok THEN [last EXCEPT ![AttributePath] = [Nobody EXCEPT !.by = "save"]]
                     ELSE last
    /\ apart' = ~ok
    /\ saveFailed' = (saveFailed \/ (u = "server" /\ ~ok))

Touch(u) == touched' = (touched \/ (u = "server" /\ ram' # ram))

(* attr_write() of an accepted value, save_single(), change_single(); ok   *)
(* is what they return.                                                    *)
write_single(u, i, raw, ok) ==
    /\ ram' = [ram EXCEPT ![i] = Stored(Table[i], raw)]
    /\ Touch(u)
    /\ IF Modifies(Table[i], ram[i], raw) /\ i \in Saved
       THEN save_attributes(u, ram', ok)
       ELSE ok /\ UNCHANGED <<stored, saveFailed>>

(* attr_increment_config_version(): attr_add_uint32() copies the value...  *)
CopyVersion(u) ==
    /\ step[u] = "version"
    /\ version' = [version EXCEPT ![u] = ram[config_version]]
    /\ Goto(u, "increment")
    /\ UNCHANGED <<ram, notify, stored, shown, transfer, command, left, touched, saveFailed>>

(* ... and sets it; the server ignores what it returns.                    *)
WriteVersion(u) ==
    LET sum == version[u] + 1 IN
    /\ step[u] = "increment"
    /\ IF Accepts(Table[config_version], sum)
       THEN \E ok \in BOOLEAN : write_single(u, config_version, sum, ok)
       ELSE UNCHANGED <<ram, stored, touched, saveFailed>>
    /\ Goto(u, IF u = "server" THEN "answer" ELSE "idle")
    /\ version' = [version EXCEPT ![u] = 0]
    /\ UNCHANGED <<notify, shown, transfer, command, left>>

(* load_attributes() of one file: all pairs are valid, or it is refused.   *)
PairOk(p) == p.key \in Writable /\ Accepts(Table[p.key], p.val)
Loadable(f) == f.state = "kvp" /\ f.pairs # {} /\ \A p \in f.pairs : PairOk(p)

Loaded(values, pairs) ==
    [i \in Ids |-> IF \E p \in pairs : p.key = i
                   THEN Stored(Table[i], (CHOOSE p \in pairs : p.key = i).val)
                   ELSE values[i]]

attr_load_partial(u, path, r) ==       \* mutant: the valid pairs of any file
    IF Loadable(files[path])
    THEN /\ ram' = Loaded(ram, files[path].pairs)
         /\ Touch(u)
         /\ \E ok \in BOOLEAN : /\ save_attributes(u, ram', ok)
                                /\ r = IF ok THEN 0 ELSE EIO
    ELSE /\ ram' = Loaded(ram, {p \in files[path].pairs : PairOk(p)})
         /\ Touch(u)
         /\ r = EINVAL /\ UNCHANGED <<saveFailed, stored>>

attr_load_unsaved(u, path, r) ==       \* mutant: the save forgotten
    IF Loadable(files[path])
    THEN /\ ram' = Loaded(ram, files[path].pairs)
         /\ Touch(u)
         /\ r = 0 /\ UNCHANGED <<saveFailed, stored>>
    ELSE r = EINVAL /\ UNCHANGED <<ram, touched, saveFailed, stored>>

(* attr_load(): the error of the save is returned although RAM has changed.*)
attr_load(u, path, r) ==
    IF Loadable(files[path])
    THEN /\ ram' = Loaded(ram, files[path].pairs)
         /\ Touch(u)
         /\ \E ok \in BOOLEAN : /\ save_attributes(u, ram', ok)
                                /\ r = IF ok THEN 0 ELSE EIO
    ELSE r = EINVAL /\ UNCHANGED <<ram, touched, saveFailed, stored>>

LoadModifies(f) ==
    \E p \in f.pairs : p.key \in Ids /\ Modifies(Table[p.key], ram[p.key], p.val)

-----------------------------------------------------------------------------
(* The server: mcumgr calls one handler at a time, in its work queue.      *)

(* A request arrives as the message its client encoded.                    *)
Receive(q) ==
    /\ step["server"] = "idle"
    /\ left.requests > 0
    /\ ask' = q
    /\ message' = cbor_encode(Encode[q.op], q.struct)
    /\ Goto("server", "received")
    /\ left' = [left EXCEPT !.requests = @ - 1]
    /\ UNCHANGED <<ram, notify, stored, shown, reply, result, command, version,
                   touched, saveFailed>>

(* These handlers do not look at the message.                              *)
NotDecoded == {"factory_reset", "disable_notify", "unsupported"}

(* cbor_decode_*() succeeds.                                               *)
Understood ==
    /\ Decodes(Decode[ask.op], message)
    /\ ask.op \in {"get_parameter", "set_parameter"} =>
          cbor_decode(message)["p1"].is # INVALID_PARAM_ID

In(op) ==
    /\ step["server"] = "received"
    /\ ask.op = op
    /\ op \in NotDecoded \/ Understood

param == cbor_decode(message)
Has_param(key) == key \in DOMAIN param

(* p1 is a uint32_t; cbor_encode_attribute() and attr_*() take 16 bits.    *)
Id == param["p1"].is % IdSpan

Int32(r) == Item(IF r < 0 THEN "nint" ELSE "uint", r)

(* The handler has the structure of its answer.                            *)
Respond(struct) ==
    /\ result' = struct
    /\ Goto("server", "answer")
    /\ UNCHANGED <<ask, message, reply>>

(* It returns an error to mcumgr instead of encoding one.                  *)
Refuse(status) ==
    /\ reply' = status
    /\ message' = <<>>
    /\ Goto("server", "sent")
    /\ UNCHANGED <<ram, notify, stored, shown, ask, result, command, version, left,
                   touched, saveFailed>>

Malformed ==
    /\ step["server"] = "received"
    /\ ask.op \notin NotDecoded
    /\ ~Understood
    /\ Refuse("EINVAL")

unsupported == In("unsupported") /\ Refuse("ENOTSUP")

(* The alternative of the CBOR value that the type of an attribute has.    *)
Kind(e, value) ==
    CASE e.validator \in {"bool", "cpb"} -> "bool"
      [] e.validator \in {"int", "cp"} /\ value < 0 -> "nint"
      [] OTHER -> "uint"

(* cbor_encode_attribute(): attr_get() zeroes the value before it looks at *)
(* the flags, so a refused read answers 0. A size is a positive number.    *)
get_parameter ==
    /\ In("get_parameter")
    /\ LET read == IF Id \in Readable THEN ram[Id] ELSE 0
       IN  IF Id \in Ids
           THEN Respond([id |-> param["p1"],
                         r |-> Int32(IF Id \in Readable THEN 1 ELSE EPERM),
                         r1 |-> Item(Kind(Table[Id], read), read)])
           ELSE Respond([id |-> param["p1"], r |-> Int32(EINVAL)])
    /\ UNCHANGED <<ram, notify, stored, shown, command, version, left, touched, saveFailed>>

(* The decoder takes what is not negative for unsigned, set_parameter()    *)
(* wants int64 for a signed type.                                          *)
Wanted(e) ==
    CASE e.validator \in {"bool", "cpb"} -> "bool"
      [] e.validator \in {"int", "cp"} /\ e.lo < 0 -> "nint"
      [] OTHER -> "uint"

OfType(e, value) ==
    IF e.validator \in {"bool", "cpb"}
    THEN value \in {0, 1}
    ELSE value \in e.lo .. (e.lo + e.span - 1)

SetAccepted ==
    /\ Id \in Writable
    /\ param["p2"].kind = Wanted(Table[Id])
    /\ OfType(Table[Id], param["p2"].is)
    /\ Accepts(Table[Id], param["p2"].is)

(* The first error set_parameter() and set_internal() meet.                *)
SetError ==
    CASE Id \notin Ids -> EINVAL
      [] Id \in Ids /\ param["p2"].kind # Wanted(Table[Id]) -> ENOMSG
      [] OTHER -> IF OfType(Table[Id], param["p2"].is) /\ Id \notin Writable
                  THEN EPERM ELSE EINVAL

SetResult(r) == [id |-> param["p1"], r |-> Int32(r)]

set_parameter ==
    /\ In("set_parameter")
    /\ SetAccepted
    /\ \E ok \in BOOLEAN :
          /\ write_single("server", Id, param["p2"].is, ok)
          /\ result' = SetResult(IF ok THEN 0 ELSE EIO)
          /\ Goto("server", IF ok /\ Modifies(Table[Id], ram[Id], param["p2"].is)
                            THEN "version" ELSE "answer")
    /\ UNCHANGED <<notify, shown, ask, message, reply, command, version, left>>

SetRefused ==
    /\ In("set_parameter")
    /\ ~SetAccepted
    /\ Respond(SetResult(SetError))
    /\ UNCHANGED <<ram, notify, stored, shown, command, version, left, touched, saveFailed>>

(* What attr_load() says of *modified is not used: a load does not count   *)
(* in config_version. A positive result becomes 0.                         *)
load_parameter_file ==
    LET path == IF Has_param("p1") THEN param["p1"].is ELSE load_path IN
    /\ In("load_parameter_file")
    /\ \E r \in {0, EIO, EINVAL} :
          /\ IF path \in Paths
             THEN attr_load("server", path, r)
             ELSE r = EINVAL /\ UNCHANGED <<ram, touched, saveFailed, stored>>
          /\ Respond([r |-> Int32(r)])
    /\ UNCHANGED <<notify, shown, command, version, left>>

(* The name the server takes, and the selection of either dump.            *)
DumpName == IF USER_FILE_NAME /\ Has_param("p2") THEN param["p2"].is ELSE dump_path
DumpType(u) == IF u = "server" THEN param["p1"].is ELSE command.type

(* The old file is deleted first; a p1 that is no selection dumps nothing  *)
(* and is no error.                                                        *)
dump_parameter_file ==
    /\ In("dump_parameter_file")
    /\ DumpName \in Paths /\ param["p1"].is < UINT8_MAX
    /\ files' = [files EXCEPT ![DumpName] = NoFile]
    /\ last' = [last EXCEPT ![DumpName] = [Nobody EXCEPT !.by = "server"]]
    /\ apart' = (apart \/ DumpName = AttributePath)
    /\ Goto("server", "build")
    /\ UNCHANGED <<ram, notify, shown, transfer, command, version, left, touched,
                   saveFailed>>

NothingToDump ==
    /\ In("dump_parameter_file")
    /\ \/ DumpName \notin Paths /\ Respond([r |-> Int32(EINVAL)])
       \/ /\ DumpName \in Paths /\ ~(param["p1"].is < UINT8_MAX)
          /\ Respond([r |-> Int32(0), n |-> Item("tstr", DumpName)])
    /\ UNCHANGED <<ram, notify, stored, shown, command, version, left, touched, saveFailed>>

(* attr_prepare_then_dump(), under attr_mutex. What it cannot finish it    *)
(* frees, and nothing is written.                                          *)
attr_prepare_then_dump(u) ==
    /\ step[u] = "build"
    /\ \/ /\ text' = [text EXCEPT ![u] = KeyValues(ram, dumpable(DumpType(u)))]
          /\ heap' = heap + 1
          /\ Goto(u, "write")
          /\ UNCHANGED transfer
       \/ /\ UNCHANGED <<text, heap>>
          /\ IF u = "server"
             THEN Respond([r |-> Int32(EIO)])
             ELSE Goto(u, "idle") /\ UNCHANGED transfer
    /\ UNCHANGED <<ram, notify, stored, leaked, command, version, left, touched, saveFailed>>

(* fsu_write_abs(): the file, or what a write that failed leaves of it.    *)
fsu_write_abs(u, path, ok) ==
    /\ \E f \in (IF ok THEN {Kvp(text[u])} ELSE {files[path], Broken}) :
          files' = [files EXCEPT ![path] = f]
    /\ last' = [last EXCEPT ![path] =
                   [by |-> u, w |-> ok /\ DumpType(u) = ATTR_DUMP_W]]
    /\ apart' = (apart \/ path = AttributePath)

WriteDumpAnyway ==                     \* mutant: the result of the write ignored
    /\ step["server"] = "write"
    /\ \E ok \in BOOLEAN :
          /\ fsu_write_abs("server", DumpName, ok)
          /\ Respond([r |-> Int32(1), n |-> Item("tstr", DumpName)])
    /\ heap' = heap - 1
    /\ text' = [text EXCEPT !["server"] = {}]
    /\ UNCHANGED <<ram, notify, leaked, command, version, left, touched, saveFailed>>

WriteDumpUnfreed ==                    \* mutant: k_free() only if it was written
    /\ step["server"] = "write"
    /\ \E ok \in BOOLEAN :
          /\ fsu_write_abs("server", DumpName, ok)
          /\ Respond([r |-> Int32(IF ok THEN 1 ELSE EIO), n |-> Item("tstr", DumpName)])
          /\ heap' = IF ok THEN heap - 1 ELSE heap
    /\ text' = [text EXCEPT !["server"] = {}]
    /\ UNCHANGED <<ram, notify, leaked, command, version, left, touched, saveFailed>>

(* The server frees the text, whatever the write returned.                 *)
WriteDump ==
    /\ step["server"] = "write"
    /\ \E ok \in BOOLEAN :
          /\ fsu_write_abs("server", DumpName, ok)
          /\ Respond([r |-> Int32(IF ok THEN 1 ELSE EIO), n |-> Item("tstr", DumpName)])
    /\ heap' = heap - 1
    /\ text' = [text EXCEPT !["server"] = {}]
    /\ UNCHANGED <<ram, notify, leaked, command, version, left, touched, saveFailed>>

(* factory_reset(): the attribute that allows it is read first...          *)
factory_reset ==
    /\ In("factory_reset")
    /\ IF factory_reset_enable \in Readable /\ ram[factory_reset_enable] # 0
       THEN Goto("server", "table") /\ UNCHANGED transfer
       ELSE Respond([r |-> Int32(EPERM)])
    /\ UNCHANGED <<ram, notify, stored, shown, command, version, left, touched, saveFailed>>

(* ... then attr_table_factory_reset(), without the mutex...               *)
ResetTable ==
    /\ step["server"] = "table"
    /\ ram' = Defaults
    /\ Touch("server")
    /\ apart' = TRUE
    /\ Goto("server", "save")
    /\ UNCHANGED <<notify, files, last, shown, transfer, command, version, left, saveFailed>>

(* ... and save_attributes().                                              *)
SaveReset ==
    /\ step["server"] = "save"
    /\ \E ok \in BOOLEAN : /\ save_attributes("server", ram, ok)
                           /\ Respond([r |-> Int32(IF ok THEN 0 ELSE EIO)])
    /\ UNCHANGED <<ram, notify, shown, command, version, left, touched>>

set_notify ==
    /\ In("set_notify")
    /\ notify' = CASE Id \notin Readable -> notify
                   [] Id \in Readable /\ param["p2"].is = 1 -> notify \cup {Id}
                   [] OTHER -> notify \ {Id}
    /\ Respond([id |-> param["p1"],
                r |-> Int32(CASE Id \notin Ids -> EPERM
                              [] Id \in Ids \ Readable -> EINVAL
                              [] OTHER -> 0)])
    /\ UNCHANGED <<ram, stored, shown, command, version, left, touched, saveFailed>>

get_notify ==
    /\ In("get_notify")
    /\ Respond([id |-> param["p1"], r |-> Int32(IF Id \in notify THEN 1 ELSE 0)])
    /\ UNCHANGED <<ram, notify, stored, shown, command, version, left, touched, saveFailed>>

disable_notify ==
    /\ In("disable_notify")
    /\ notify' = {}
    /\ Respond([r |-> Int32(0)])
    /\ UNCHANGED <<ram, stored, shown, command, version, left, touched, saveFailed>>

(* The end of every handler: the answer is encoded, or a value or a path   *)
(* is too large for the buffer.                                            *)
Answer ==
    /\ step["server"] = "answer"
    /\ \/ /\ message' = cbor_encode(EncodeResult[ask.op], result)
          /\ reply' = "OK"
       \/ /\ DOMAIN result \cap {"r1", "n"} # {}
          /\ message' = <<>>
          /\ reply' = "EMSGSIZE"
    /\ Goto("server", "sent")
    /\ UNCHANGED <<ram, notify, stored, shown, ask, result, command, version, left,
                   touched, saveFailed>>

(* The client has the answer; the server waits for the next request.       *)
Taken ==
    /\ step["server"] = "sent"
    /\ Goto("server", "idle")
    /\ ask' = NoRequest /\ message' = <<>> /\ reply' = "none" /\ result' = Empty
    /\ touched' = FALSE /\ saveFailed' = FALSE
    /\ UNCHANGED <<ram, notify, stored, shown, command, version, left>>

-----------------------------------------------------------------------------
(* The shell and the firmware.                                             *)

(* A command is typed; attr_delete() is over at once.                      *)
Type(c) ==
    /\ step["shell"] = "idle"
    /\ left.commands > 0
    /\ left' = [left EXCEPT !.commands = @ - 1]
    /\ IF c.do = "delete"
       THEN /\ files' = [files EXCEPT ![AttributePath] = NoFile]
            /\ last' = [last EXCEPT ![AttributePath] = [Nobody EXCEPT !.by = "shell"]]
            /\ apart' = TRUE
            /\ UNCHANGED <<step, command>>
       ELSE /\ command' = c
            /\ Goto("shell", IF c.do = "load" THEN "load" ELSE "build")
            /\ UNCHANGED stored
    /\ UNCHANGED <<ram, notify, shown, transfer, version, touched, saveFailed>>

(* ats_load_cmd(): only a load without an error counts.                    *)
ats_load_cmd ==
    /\ step["shell"] = "load"
    /\ \E r \in {0, EIO, EINVAL} :
          /\ attr_load("shell", command.path, r)
          /\ Goto("shell", IF r = 0 /\ LoadModifies(files[command.path])
                           THEN "version" ELSE "idle")
    /\ UNCHANGED <<notify, shown, transfer, command, version, left>>

(* ats_dump_cmd() frees the text if it was written and else forgets it.    *)
ats_dump_cmd ==
    /\ step["shell"] = "write"
    /\ \E ok \in BOOLEAN :
          /\ fsu_write_abs("shell", command.path, ok)
          /\ heap' = IF ok THEN heap - 1 ELSE heap
          /\ leaked' = IF ok THEN leaked ELSE leaked + 1
    /\ text' = [text EXCEPT !["shell"] = {}]
    /\ Goto("shell", "idle")
    /\ UNCHANGED <<ram, notify, transfer, command, version, left, touched, saveFailed>>

(* attr_set_uint32() and its like.                                         *)
FirmwareSet(i, raw) ==
    /\ left.sets > 0
    /\ left' = [left EXCEPT !.sets = @ - 1]
    /\ Accepts(Table[i], raw)
    /\ \E ok \in BOOLEAN : write_single("firmware", i, raw, ok)
    /\ UNCHANGED <<notify, shown, step, transfer, command, version>>

ServerStep ==
    \/ \E q \in Requests : Receive(q)
    \/ Malformed
    \/ unsupported
    \/ get_parameter
    \/ set_parameter
    \/ SetRefused
    \/ load_parameter_file
    \/ dump_parameter_file
    \/ NothingToDump
    \/ WriteDump
    \/ factory_reset
    \/ ResetTable
    \/ SaveReset
    \/ set_notify
    \/ get_notify
    \/ disable_notify
    \/ Answer
    \/ Taken

ShellStep ==
    \/ \E c \in Commands : Type(c)
    \/ ats_load_cmd
    \/ ats_dump_cmd

(* The values RAM has had since the request to dump.                       *)
Watch ==
    seen' = IF ask'.op = "dump_parameter_file" THEN seen \cup {ram'} ELSE {}

Next ==
    /\ \/ ServerStep
       \/ ShellStep
       \/ \E u \in Users : \/ CopyVersion(u)
                           \/ WriteVersion(u)
                           \/ attr_prepare_then_dump(u)
       \/ \E i \in Ids, raw \in Raw : FirmwareSet(i, raw)
    /\ Watch

Spec == Init /\ [][Next]_vars

-----------------------------------------------------------------------------
(* What one side encodes, the other decodes as it was: no key is missing,  *)
(* none comes where the decoder of zcbor does not expect it, and no member *)
(* is of a kind it does not try. It is about the tables of both generated  *)
(* files and the structures the handlers fill in.                          *)
MessagesAreUnderstood ==
    /\ (step["server"] = "received" /\ Complete(Encode[ask.op], ask.struct)) =>
          /\ Decodes(Decode[ask.op], message)
          /\ cbor_decode(message) = ask.struct
    /\ reply = "OK" =>
          /\ Complete(EncodeResult[ask.op], result)
          /\ Decodes(DecodeResult[ask.op], message)
          /\ cbor_decode(message) = result

(* The answer says that the request failed.                                *)
Failed ==
    /\ step["server"] = "sent"
    /\ \/ reply # "OK"
       \/ "r" \in DOMAIN result /\ result["r"].is < 0

(* A request that is answered with an error has changed no attribute, of a *)
(* file not even the valid pairs, unless what failed was the save that     *)
(* follows the change.                                                     *)
RefusedMeansUntouched == (Failed /\ ~saveFailed) => ~touched

(* The heap holds the text of each dump that is being written, and those   *)
(* ats_dump_cmd() forgot when its write failed: no other way through the   *)
(* two commands, with its failures, loses a text or frees one twice.       *)
TextsAreFreed ==
    heap = Cardinality({u \in Users : step[u] = "write"}) + leaked

(* The next boot restores what RAM holds, unless a save has failed since,  *)
(* a factory reset is between its two halves, or someone wrote or deleted  *)
(* the attribute file. attr_default(), which neither a command nor a       *)
(* setter here calls, would be an exception too: it changes RAM and saves  *)
(* nothing. (attr_delete() is the shell's, and counts as deleted.)         *)
AttributeFileHolds ==
    ~apart => files[AttributePath] = Kvp(KeyValues(ram, Saved))

(* A dump the server answers without an error is in the file it names: the *)
(* attributes asked for, with values they had at one moment between the    *)
(* request and the answer, unless someone else wrote the file since.       *)
Shows(f, asked, values) ==
    f = Kvp({p \in Pair :
                /\ p.val = values[p.key]
                /\ p.key \in Readable \ Having("FLAGS_DEPRECATED")
                /\ asked = ATTR_DUMP_W => p.key \in Writable
                /\ asked = ATTR_DUMP_RO => p.key \notin Writable})

DumpIsSnapshot ==
    (/\ step["server"] = "sent" /\ reply = "OK"
     /\ ask.op = "dump_parameter_file"
     /\ ask.struct["p1"].is < UINT8_MAX
     /\ result["r"].is >= 0)
    => LET name == result["n"].is
       IN  last[name].by = "server" =>
              \E values \in seen : Shows(files[name], ask.struct["p1"].is, values)

(* A dump of the writable attributes can be loaded: every pair of it is    *)
(* accepted, by the same firmware, and is stored as it was shown.          *)
DumpLoadsBack ==
    \A path \in Paths :
        LET f == files[path] IN
        (last[path].w /\ f.state = "kvp")
        => /\ Loadable(f)
           /\ Loaded(ram, f.pairs) = [i \in Ids |->
                 IF \E p \in f.pairs : p.key = i
                 THEN (CHOOSE p \in f.pairs : p.key = i).val
                 ELSE ram[i]]
================================================================================
