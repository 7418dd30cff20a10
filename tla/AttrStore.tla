------------------------------ MODULE AttrStore ------------------------------
(***************************************************************************)
(* The attribute store of src/attr.c in the build without                  *)
(* CONFIG_ATTR_DEFERRED_SAVE: the values in RAM, the file they are saved   *)
(* to, the modified and unchanged bits, and the operations that move       *)
(* values between them: setting one attribute, loading a file, factory     *)
(* reset, defaulting, and the load made by attr_init after a reset of the  *)
(* device.                                                                 *)
(*                                                                         *)
(* Operations that hold attr_mutex are serialised: one is an atomic action *)
(* here, except that a load takes one step per pair of its file, so that   *)
(* a reset and the operations that take no mutex fall between its steps.   *)
(***************************************************************************)
EXTENDS AttrValidator, FiniteSets

CONSTANTS
    Ids,               \* the attributes of the generated table
    Table,             \* ATTR_TABLE: [Ids -> entry], see AttrValidator
    UnknownKey,        \* a key that names no attribute of this firmware
    Raw,               \* what callers pass and files hold as a value
    LoadFiles,         \* what attr_load may find at its path
    InitFiles,         \* what the attribute file may be at the first power on
    VALIDATE_ENTIRE_FILE,          \* CONFIG_ATTR_VALIDATE_ENTIRE_FILE
    VALIDATE_ENTIRE_FILE_ON_INIT   \* CONFIG_ATTR_VALIDATE_ENTIRE_FILE_ON_INIT

Having(flag) == {i \in Ids : Has(Table[i], flag)}
Writable == Having("FLAGS_WRITABLE")

(* The attributes save_attributes() writes to the file.                    *)
Saved == Having("FLAGS_SAVABLE") \ Having("FLAGS_DEPRECATED")

(* A key-value pair of a file. A file is the set of its pairs: no handler  *)
(* may depend on their order (README.md:83).                               *)
Pair == [key : Ids \cup {UnknownKey}, val : Raw]

OneValuePerKey(pairs) == \A p, q \in pairs : p.key = q.key => p = q

(* There is no file, lcz_kvp_parse_from_file() returns an error, or it     *)
(* finds key-value pairs.                                                  *)
File == [state : {"absent", "unparsable", "kvp"}, pairs : SUBSET Pair]
NoFile == [state |-> "absent", pairs |-> {}]
Kvp(pairs) == [state |-> "kvp", pairs |-> pairs]

(* What the generator guarantees of the table, and what the constants      *)
(* stand for. The conversion to the type of the attribute yields values    *)
(* that convert to themselves, and every default is a legal value.         *)
ASSUME TableAssumption ==
    /\ IsFiniteSet(Ids)
    /\ Ids \subseteq Nat
    /\ UnknownKey \notin Ids
    /\ \A i \in Ids :
          /\ Table[i].validator \in Validators
          /\ \A n \in Raw :
                /\ Stored(Table[i], n) \in Raw
                /\ Stored(Table[i], Stored(Table[i], n)) = Stored(Table[i], n)
                /\ Accepts(Table[i], n) => Accepts(Table[i], Stored(Table[i], n))
          /\ Table[i].default \in Raw
          /\ Table[i].zero \in Raw
          /\ Accepts(Table[i], Table[i].default)
          /\ Stored(Table[i], Table[i].default) = Table[i].default

(* save_attributes() takes the length of a null string if nothing is       *)
(* savable.                                                                *)
ASSUME SavedAssumption == Saved # {}

ASSUME FileAssumption ==
    /\ LoadFiles \subseteq File
    /\ InitFiles \subseteq File
    /\ \A f \in InitFiles : /\ OneValuePerKey(f.pairs)
                            /\ f.state # "kvp" => f.pairs = {}
    /\ VALIDATE_ENTIRE_FILE \in BOOLEAN
    /\ VALIDATE_ENTIRE_FILE_ON_INIT \in BOOLEAN

VARIABLES
    ram,               \* [Ids -> Raw], the values pData points to
    file,              \* the file at ATTR_ABS_PATH
    modified,          \* the bits of attr_modified that are set
    unchanged,         \* the bits of attr_unchanged that are set
    attr_initialized,
    load,              \* the progress of load_attributes()
    reset,             \* the progress of attr_factory_reset()
    feedback,          \* the feedback file: what was refused, and why
    done,              \* what the last operation did, for its caller to see
    atRisk             \* a caller was told that RAM and file may differ

vars == <<ram, file, modified, unchanged, attr_initialized, load, reset,
          feedback, done, atRisk>>

Defaults == [i \in Ids |-> Table[i].default]
Zeroed == [i \in Ids |-> Table[i].zero]

(* "off": the device was reset and attr_init has not begun; "idle":        *)
(* attr_mutex is free; otherwise a pass of loader() is under way. failed   *)
(* is its fail_count > 0, wrote the attributes it has written.             *)
NotLoading(phase) == [phase |-> phase, src |-> {}, todo |-> {},
                      failed |-> FALSE, wrote |-> {}]

(* What an operation returns: 0 or an error, and *modified.                *)
Returned(op, ok, mod) == [op |-> op, ok |-> ok, modified |-> mod]

Pending == Returned("none", TRUE, FALSE)

Codes == { "too_low", "too_high", "too_many_characters", "invalid_length",
           "not_writable", "unknown", "unable_to_parse" }

TypeOK ==
    /\ ram \in [Ids -> Raw]
    /\ file \in File
    /\ modified \subseteq Ids
    /\ unchanged \subseteq Ids
    /\ attr_initialized \in BOOLEAN
    /\ load \in [phase : {"off", "idle", "validate", "write"},
                 src : SUBSET Pair, todo : SUBSET Pair, failed : BOOLEAN,
                 wrote : SUBSET Ids]
    /\ reset \in [phase : {"idle", "table", "save"}, todo : SUBSET Ids]
    /\ feedback \subseteq [key : Ids \cup {UnknownKey}, code : Codes]
    /\ done \in [op : {"none", "init", "set", "load", "factory_reset", "default"},
                 ok : BOOLEAN, modified : BOOLEAN]
    /\ atRisk \in BOOLEAN

(* The first power on. Static storage is zero until attr_init.             *)
Init ==
    /\ ram = Zeroed
    /\ file \in InitFiles
    /\ modified = {}
    /\ unchanged = {}
    /\ attr_initialized = FALSE
    /\ load = NotLoading("off")
    /\ reset = [phase |-> "idle", todo |-> {}]
    /\ feedback = {}
    /\ done = Pending
    /\ atRisk = FALSE

-----------------------------------------------------------------------------
(* attr_mutex can be taken: TAKE_MUTEX waits for attr_initialized.         *)
MutexFree == attr_initialized /\ load.phase = "idle"

FileOfWritable(values) ==              \* mutant: only what a user can set
    Kvp({[key |-> i, val |-> values[i]] : i \in Saved \cap Writable})

(* What entry_to_kvp() makes of the saved attributes: the decimal digits   *)
(* of a number denote its value.                                           *)
FileOf(values) == Kvp({[key |-> i, val |-> values[i]] : i \in Saved})

(* save_attributes(): on success the file holds the values of RAM, written *)
(* or, when the checksums agree, already there; on failure it is the old   *)
(* one (the file system replaces a file as a whole).                       *)
save_attributes(values, ok) ==
    /\ file' = IF ok THEN FileOf(values) ELSE file
    /\ atRisk' = ~ok

NoSave == UNCHANGED <<file, atRisk>>

-----------------------------------------------------------------------------
(* Setting one attribute.                                                  *)

(* The modified and the unchanged bit of i after attr_write(i, raw).       *)
ModifiedBit(i, raw) == i \in modified \/ Modifies(Table[i], ram[i], raw)
UnchangedBit(i, raw) ==
    i \in unchanged \/ notify_on_unchanged(Table[i], ram[i], raw)

(* attr_write(), save_single(), change_single(): the common body of every  *)
(* setter. *modified is read before change_single() clears the bits.       *)
WriteSingle(i, raw) ==
    /\ MutexFree
    /\ Accepts(Table[i], raw)
    /\ ram' = [ram EXCEPT ![i] = Stored(Table[i], raw)]
    /\ modified' = modified \ {i}
    /\ unchanged' = unchanged \ {i}
    /\ \E ok \in BOOLEAN :
          /\ IF ModifiedBit(i, raw) /\ i \in Saved
             THEN save_attributes(ram', ok)
             ELSE ok /\ NoSave
          /\ done' = Returned("set", ok, ModifiedBit(i, raw))
    /\ UNCHANGED <<attr_initialized, load, reset, feedback>>

(* attr_set() and attr_set_without_broadcast(): writable attributes only.  *)
set_internal(i, raw) ==
    /\ i \in Writable
    /\ WriteSingle(i, raw)

(* attr_set_uint32() and its like, for the firmware itself: any attribute. *)
SetFromFirmware(i, raw) == WriteSingle(i, raw)

(* set_internal() refuses the attribute, or attr_write() the type or the   *)
(* value: only the caller hears of it.                                     *)
SetRefused(i, raw, sameType) ==
    /\ MutexFree
    /\ i \notin Writable \/ ~sameType \/ ~Accepts(Table[i], raw)
    /\ done' = Returned("set", FALSE, FALSE)
    /\ UNCHANGED <<ram, file, modified, unchanged, attr_initialized, load,
                   reset, feedback, atRisk>>

-----------------------------------------------------------------------------
(* Loading a file: attr_load() and attr_init().                            *)

PairVerdictReadOnly(p) ==              \* mutant: is_writable() not asked
    IF p.key \in Ids THEN Verdict(Table[p.key], p.val) ELSE "unknown"

PairVerdictUnchecked(p) ==             \* mutant: the validator not asked
    CASE p.key \notin Ids -> "unknown"
      [] p.key \in Ids \ Writable /\ attr_initialized -> "not_writable"
      [] OTHER -> "ok"

(* What loader() makes of one pair. During init, values that are not       *)
(* writable are restored too.                                              *)
PairVerdict(p) ==
    CASE p.key \notin Ids -> "unknown"
      [] p.key \in Ids \ Writable /\ attr_initialized -> "not_writable"
      [] OTHER -> Verdict(Table[p.key], p.val)

PairOk(p) == PairVerdict(p) = "ok"

EntireFile == IF attr_initialized THEN VALIDATE_ENTIRE_FILE
                                  ELSE VALIDATE_ENTIRE_FILE_ON_INIT

Unable == {[key |-> UnknownKey, code |-> "unable_to_parse"]}

(* The first pass starts with an empty feedback file.                      *)
StartLoad(src) ==
    /\ load' = [NotLoading("validate") EXCEPT !.src = src, !.todo = src]
    /\ feedback' = {}
    /\ done' = Pending

(* attr_init() up to the first pass over the attribute file, if it can be  *)
(* parsed; without it the defaults stand.                                  *)
attr_init ==
    /\ load.phase = "off"
    /\ ram' = Defaults
    /\ IF file.state = "kvp"
       THEN /\ StartLoad(file.pairs)
            /\ UNCHANGED attr_initialized
       ELSE /\ attr_initialized' = TRUE
            /\ load' = NotLoading("idle")
            /\ feedback' = IF file.state = "absent" THEN feedback ELSE Unable
            /\ done' = Returned("init", file.state = "absent", FALSE)
    /\ UNCHANGED <<file, modified, unchanged, reset, atRisk>>

(* attr_load() of a file that can be parsed.                               *)
attr_load(f) ==
    /\ MutexFree
    /\ f.state = "kvp"
    /\ StartLoad(f.pairs)
    /\ UNCHANGED <<ram, file, modified, unchanged, attr_initialized, reset,
                   atRisk>>

(* attr_load() of anything else: nothing is read.                          *)
LoadUnparsable(f) ==
    /\ MutexFree
    /\ f.state # "kvp"
    /\ feedback' = Unable
    /\ done' = Returned("load", FALSE, FALSE)
    /\ UNCHANGED <<ram, file, modified, unchanged, attr_initialized, load,
                   reset, atRisk>>

(* loader(VALIDATE): one pair of the first pass.                           *)
ValidatePair(p) ==
    /\ load.phase = "validate"
    /\ p \in load.todo
    /\ load' = [load EXCEPT !.todo = @ \ {p}, !.failed = @ \/ ~PairOk(p)]
    /\ feedback' = IF PairOk(p) THEN feedback
                   ELSE feedback \cup {[key |-> p.key, code |-> PairVerdict(p)]}
    /\ UNCHANGED <<ram, file, modified, unchanged, attr_initialized, reset,
                   done, atRisk>>

PassFailedIfEmpty == load.src = {}     \* mutant: the failures not counted

(* A pass over no pair at all returns -EINVAL.                             *)
PassFailed == load.failed \/ load.src = {}

MayWriteAnyway == TRUE                 \* mutant: the first pass not looked at

(* The second pass follows unless the first one failed and the entire file *)
(* must be valid.                                                          *)
MayWrite == ~(PassFailed /\ EntireFile)

(* The second pass begins.                                                 *)
BeginWrite ==
    /\ load.phase = "validate"
    /\ load.todo = {}
    /\ MayWrite
    /\ load' = [load EXCEPT !.phase = "write", !.todo = load.src, !.failed = FALSE]
    /\ UNCHANGED <<ram, file, modified, unchanged, attr_initialized, reset,
                   feedback, done, atRisk>>

(* loader(DO_WRITE): one pair of the second pass. During init the bits of  *)
(* what was written are cleared, later they are kept for change_multiple().*)
WritePair(p) ==
    /\ load.phase = "write"
    /\ p \in load.todo
    /\ IF PairOk(p)
       THEN LET i == p.key IN
            /\ ram' = [ram EXCEPT ![i] = Stored(Table[i], p.val)]
            /\ modified' = IF attr_initialized /\ ModifiedBit(i, p.val)
                           THEN modified \cup {i} ELSE modified \ {i}
            /\ unchanged' = IF attr_initialized /\ UnchangedBit(i, p.val)
                            THEN unchanged \cup {i} ELSE unchanged \ {i}
            /\ load' = [load EXCEPT !.todo = @ \ {p}, !.wrote = @ \cup {i}]
       ELSE /\ load' = [load EXCEPT !.todo = @ \ {p}, !.failed = TRUE]
            /\ UNCHANGED <<ram, modified, unchanged>>
    /\ UNCHANGED <<file, attr_initialized, reset, feedback, done, atRisk>>

(* load_attributes() returns an error: from the first pass when the entire *)
(* file must be valid, else from the second.                               *)
LoadError ==
    /\ load.todo = {}
    /\ PassFailed
    /\ \/ load.phase = "validate" /\ EntireFile
       \/ load.phase = "write"

(* It returns the number of pairs.                                         *)
LoadOk == load.phase = "write" /\ load.todo = {} /\ ~PassFailed

(* attr_init() goes on either way.                                         *)
FinishInit ==
    /\ ~attr_initialized
    /\ LoadError \/ LoadOk
    /\ attr_initialized' = TRUE
    /\ load' = NotLoading("idle")
    /\ done' = Returned("init", LoadOk, FALSE)
    /\ UNCHANGED <<ram, file, modified, unchanged, reset, feedback, atRisk>>

(* attr_load() neither saves nor broadcasts what an error left half done.  *)
RejectLoad ==
    /\ attr_initialized
    /\ LoadError
    /\ load' = NotLoading("idle")
    /\ done' = Returned("load", FALSE, FALSE)
    /\ atRisk' = (atRisk \/ load.wrote # {})
    /\ UNCHANGED <<ram, file, modified, unchanged, attr_initialized, reset,
                   feedback>>

ClearModifiedOnly == modified' = {} /\ UNCHANGED unchanged      \* mutant

(* The end of change_multiple(): what was reported is forgotten.           *)
ClearBits == modified' = {} /\ unchanged' = {}

(* attr_load() saves, then change_multiple() reports and clears the bits   *)
(* even if the save failed.                                                *)
FinishLoad ==
    /\ attr_initialized
    /\ LoadOk
    /\ \E ok \in BOOLEAN :
          /\ save_attributes(ram, ok)
          /\ done' = Returned("load", ok, modified # {})
    /\ ClearBits
    /\ load' = NotLoading("idle")
    /\ UNCHANGED <<ram, attr_initialized, reset, feedback>>

-----------------------------------------------------------------------------
(* Operations that write RAM or the file without attr_mutex.               *)

(* attr_default(): neither saved, nor marked, nor broadcast.               *)
attr_default(i) ==
    /\ attr_initialized
    /\ ram' = [ram EXCEPT ![i] = Table[i].default]
    /\ done' = Returned("default", TRUE, FALSE)
    /\ atRisk' = TRUE
    /\ UNCHANGED <<file, modified, unchanged, attr_initialized, load, reset,
                   feedback>>

(* attr_delete() of the shell.                                             *)
attr_delete ==
    /\ attr_initialized
    /\ file' = NoFile
    /\ atRisk' = TRUE
    /\ UNCHANGED <<ram, modified, unchanged, attr_initialized, load, reset,
                   feedback, done>>

(* The loop of attr_table_factory_reset() over the table.                  *)
ResetTable == reset' = [phase |-> "table", todo |-> Ids]

(* attr_factory_reset(): attr_table_factory_reset() copies the defaults    *)
(* entry by entry in table order, then save_attributes() takes the mutex.  *)
attr_factory_reset ==
    /\ attr_initialized
    /\ reset.phase = "idle"
    /\ ResetTable
    /\ UNCHANGED <<ram, file, modified, unchanged, attr_initialized, load,
                   feedback, done, atRisk>>

ResetEntry(i) ==
    /\ reset.phase = "table"
    /\ i \in reset.todo
    /\ \A j \in reset.todo : i <= j
    /\ ram' = [ram EXCEPT ![i] = Table[i].default]
    /\ reset' = [phase |-> IF reset.todo = {i} THEN "save" ELSE "table",
                 todo |-> reset.todo \ {i}]
    /\ atRisk' = TRUE
    /\ UNCHANGED <<file, modified, unchanged, attr_initialized, load,
                   feedback, done>>

FinishReset ==
    /\ MutexFree
    /\ reset.phase = "save"
    /\ reset' = [phase |-> "idle", todo |-> {}]
    /\ \E ok \in BOOLEAN :
          /\ save_attributes(ram, ok)
          /\ done' = Returned("factory_reset", ok, FALSE)
    /\ UNCHANGED <<ram, modified, unchanged, attr_initialized, load, feedback>>

-----------------------------------------------------------------------------
(* A reset of the device, at any time: RAM is lost, the files stay.        *)
Reboot ==
    /\ load.phase # "off"
    /\ ram' = Zeroed
    /\ modified' = {}
    /\ unchanged' = {}
    /\ attr_initialized' = FALSE
    /\ load' = NotLoading("off")
    /\ reset' = [phase |-> "idle", todo |-> {}]
    /\ done' = Pending
    /\ atRisk' = FALSE
    /\ UNCHANGED <<file, feedback>>

LoaderStep ==
    \/ \E p \in load.todo : ValidatePair(p)
    \/ BeginWrite
    \/ \E p \in load.todo : WritePair(p)
    \/ FinishInit
    \/ RejectLoad
    \/ FinishLoad

ResetStep ==
    \/ \E i \in reset.todo : ResetEntry(i)
    \/ FinishReset

Next ==
    \/ \E i \in Ids, n \in Raw :
          \/ set_internal(i, n)
          \/ SetFromFirmware(i, n)
          \/ \E sameType \in BOOLEAN : SetRefused(i, n, sameType)
    \/ attr_init
    \/ \E f \in LoadFiles : attr_load(f) \/ LoadUnparsable(f)
    \/ LoaderStep
    \/ \E i \in Ids : attr_default(i)
    \/ attr_delete
    \/ attr_factory_reset
    \/ ResetStep
    \/ Reboot

Spec == Init /\ [][Next]_vars

-----------------------------------------------------------------------------
(* Properties.                                                             *)

(* What attr_init will make of a file: the value of each attribute after   *)
(* the next reset of the device.                                           *)
RestoredPairs(f) ==
    LET good == {p \in f.pairs : p.key \in Ids /\ Accepts(Table[p.key], p.val)}
    IN  IF VALIDATE_ENTIRE_FILE_ON_INIT /\ good # f.pairs THEN {} ELSE good

Restored(f) ==
    LET kept == RestoredPairs(f)
    IN  [i \in Ids |->
            IF \E p \in kept : p.key = i
            THEN Stored(Table[i], (CHOOSE p \in kept : p.key = i).val)
            ELSE Table[i].default]

(* The modified and unchanged bits are the private notes of an operation   *)
(* that holds the mutex: between operations none is set, or a later one    *)
(* would report, save and broadcast a change it did not make. Each setter, *)
(* change_multiple() and loader() during init must clear what their        *)
(* validators set. Only a partial load may leave bits behind, and a build  *)
(* that validates entire files has none.                                   *)
NoStaleBits ==
    VALIDATE_ENTIRE_FILE /\ MutexFree => modified = {} /\ unchanged = {}

(* "All values in a file must be valid or the entire file is rejected"     *)
(* (README.md:75): when load_attributes() returns an error, nothing of the *)
(* file has been written; when it returns a count, everything has. The     *)
(* second pass must accept whatever the first one did.                     *)
AllOrNothing ==
    /\ EntireFile /\ LoadError => load.wrote = {}
    /\ LoadOk => load.wrote = {p.key : p \in load.src}

(* Whatever path a value took into RAM (a setter, a file, a default), its  *)
(* validator would accept it again: so the next save writes a file the     *)
(* next boot accepts.                                                      *)
LegalValues ==
    load.phase # "off" =>
        \A i \in Ids : /\ Accepts(Table[i], ram[i])
                       /\ Stored(Table[i], ram[i]) = ram[i]

(* A reset of the device restores what RAM holds, unless a caller was told *)
(* otherwise: the file agrees with RAM on every saved attribute, the ones  *)
(* that are not writable included, except after an operation that returned *)
(* an error, attr_default(), attr_delete() and the first half of a factory *)
(* reset.                                                                  *)
RestartKeepsValues ==
    MutexFree /\ ~atRisk => \A i \in Saved : Restored(file)[i] = ram[i]

(* The message of change_multiple() has room for ATTR_TABLE_WRITABLE_COUNT *)
(* ids and its loop does not count: no load, after any sequence of         *)
(* operations, may find more bits of broadcast attributes set.             *)
BroadcastFits ==
    attr_initialized =>
        Cardinality((modified \cup unchanged) \cap Having("FLAGS_BROADCAST"))
            <= Cardinality(Writable)

(* A load that leaves complaints in the feedback file does not report      *)
(* success: the two passes agree on every pair.                            *)
FeedbackAgrees ==
    done.op = "load" /\ load.phase = "idle" /\ feedback # {} => ~done.ok

(* Once attr_init is over, a file does not change an attribute that is not *)
(* writable, whatever the build validates.                                 *)
FilesRespectWritable ==
    [][LoaderStep /\ attr_initialized =>
          \A i \in Ids \ Writable : ram'[i] = ram[i]]_vars

(* The store implements a persistent map of its saved attributes: whatever *)
(* interleaving of setters, loads, factory resets and resets of the device *)
(* happens, the file is a snapshot of RAM taken at one moment, and         *)
(* attr_init, which starts from the defaults and goes through the file     *)
(* twice, ends with that snapshot in RAM.                                  *)
SavedPart(values) == [i \in Saved |-> values[i]]

PMap == INSTANCE PersistentMap WITH
    Maps  <- [Saved -> Raw],
    Fresh <- SavedPart(Defaults),
    mem   <- SavedPart(IF attr_initialized THEN ram ELSE Restored(file)),
    disk  <- SavedPart(Restored(file)),
    up    <- attr_initialized

ImplementsPersistentMap == PMap!Spec

(* What the README says and this code does not do, refuted by a run.       *)

(* README.md:71, "All savable values are saved to the filesystem any time  *)
(* they change": when a setter returns 0 the file has its value.           *)
SetIsSaved ==
    [][\A i \in Saved, n \in Raw :
          SetFromFirmware(i, n) /\ done'.ok => Restored(file')[i] = ram'[i]]_vars
==============================================================================
