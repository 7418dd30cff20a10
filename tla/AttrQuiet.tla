------------------------------ MODULE AttrQuiet ------------------------------
(***************************************************************************)
(* The list of the attributes that are not shown when they change, kept in *)
(* RAM and in the files quiet.bin and quiet.crc by src/attr.c, over        *)
(* factory resets, failed writes, power failures and updates of the        *)
(* firmware. Nothing locks a mutex here: a thread that sets a bit may be   *)
(* overtaken before it writes the list. The file system replaces a file    *)
(* in one step or fails and leaves it, and power fails between two steps.  *)
(***************************************************************************)
EXTENDS Integers, FiniteSets

CONSTANTS
    Attributes,        \* positions in the table: bits of quiet
    Word,              \* the word of quiet a bit is in: [Attributes -> Nat]
    Threads,           \* threads that call attr_set_quiet()
    Tables,            \* ATTR_TABLE_CRC_OF_NAMES of the firmwares, in order
    Words,             \* words of quiet in each of them: [Tables -> Nat]
    MaxCalls,          \* bound on the calls of attr_set_quiet()
    MaxFailures,       \* bound on the writes that fail
    MaxCrashes,        \* bound on the power failures
    MaxResets          \* bound on the factory resets

ASSUME QuietAssumption ==
    /\ Word \in [Attributes -> Nat \ {0}]
    /\ Tables \subseteq Nat \ {0}
    /\ 1 \in Tables
    /\ Words \in [Tables -> Nat \ {0}]
    /\ {MaxCalls, MaxFailures, MaxCrashes, MaxResets} \subseteq Nat

VARIABLES
    quiet,             \* the list in RAM
    bin,               \* quiet.bin: its words, 0 when it does not exist
    crc,               \* quiet.crc, 0 when it does not exist
    table,             \* the table of the firmware that is installed
    step,              \* where the boot is, "up" after attr_init()
    writing,           \* what each thread asked and has not written
    resetting,         \* attr_factory_reset() has deleted the first file
    left,              \* what the bounds still allow
    synced,            \* the last write succeeded, no reset since the boot
    outgrown,          \* the boot has found a list of fewer words
    expected,          \* what the last run left for the next boot
    asked              \* the last value successfully set for each attribute

vars == <<quiet, bin, crc, table, step, writing, resetting, left, synced,
          outgrown, expected, asked>>

(* The bits of the table that is installed; of a list, those of its words. *)
InTable == {a \in Attributes : Word[a] <= Words[table]}
FirstWord == {a \in Attributes : Word[a] = 1}

File(words, list) == [words |-> words, list |-> list]
NoFile == File(0, {})
Files == [words : Nat, list : SUBSET Attributes]

(* What a run leaves: its list, its table and the words of its file.       *)
Left(file) == [known |-> TRUE, words |-> file.words, list |-> file.list,
               table |-> table]
Unknown == [known |-> FALSE, words |-> 0, list |-> {}, table |-> 1]
Promises == [known : BOOLEAN, words : Nat, list : SUBSET Attributes,
             table : Tables]

(* The call of attr_set_quiet() a thread is in, for the attributes of ids. *)
Call(ids, on) == [busy |-> TRUE, id |-> ids, on |-> on]
NoCall == [busy |-> FALSE, id |-> {}, on |-> FALSE]

Kinds == {"call", "failure", "crash", "reset"}
BootSteps == {"read_bin", "read_crc", "clear", "write_bin", "write_crc"}

TypeOK ==
    /\ quiet \subseteq IF step = "off" THEN {} ELSE InTable
    /\ bin \in Files
    /\ crc \in Tables \cup {0}
    /\ table \in Tables
    /\ step \in {"off", "up"} \cup BootSteps
    /\ writing \in [Threads ->
          [busy : BOOLEAN, id : SUBSET Attributes, on : BOOLEAN]]
    /\ resetting \in BOOLEAN
    /\ left \in [Kinds -> Nat]
    /\ synced \in BOOLEAN
    /\ outgrown \in BOOLEAN
    /\ expected \in Promises
    /\ asked \in [Attributes -> {"unknown", "quiet", "shown"}]

(* A device that has never run.                                            *)
Init ==
    /\ quiet = {}
    /\ bin = NoFile
    /\ crc = 0
    /\ table = 1
    /\ step = "off"
    /\ writing = [t \in Threads |-> NoCall]
    /\ resetting = FALSE
    /\ left = [k \in Kinds |-> CASE k = "call" -> MaxCalls
                                 [] k = "failure" -> MaxFailures
                                 [] k = "crash" -> MaxCrashes
                                 [] k = "reset" -> MaxResets]
    /\ synced = TRUE
    /\ outgrown = FALSE
    /\ expected = Left(NoFile)
    /\ asked = [a \in Attributes |-> "unknown"]

Spend(k) == left[k] > 0 /\ left' = [left EXCEPT ![k] = @ - 1]

(* fsu_write_abs() of the list, which reads it when it writes.             *)
ListWritten == bin' = File(Words[table], quiet) /\ UNCHANGED left
ListNotWritten == Spend("failure") /\ UNCHANGED bin

Setting(on) == IF on THEN "quiet" ELSE "shown"

Idle == \A t \in Threads : writing[t] = NoCall

-----------------------------------------------------------------------------
(* initialize_quiet().                                                     *)

(* Power is back: RAM is zero.                                             *)
PowerOn ==
    /\ step = "off"
    /\ step' = "read_bin"
    /\ synced' = TRUE
    /\ UNCHANGED <<quiet, bin, crc, table, writing, resetting, left, outgrown,
                   expected, asked>>

(* fsu_read_abs() of the list: what it reads goes to RAM, accepted or not. *)
InFile(file) == file.list \cap InTable
ListRead == {a \in quiet : Word[a] > bin.words} \cup InFile(bin)

(* A file that is too short is neither an error nor compared: the list is  *)
(* as read, and no file is written.                                        *)
Short(file) == file.words \in 1 .. Words[table] - 1

ReadList ==
    /\ step = "read_bin"
    /\ quiet' = ListRead
    /\ step' = IF bin = NoFile THEN "clear"
               ELSE IF Short(bin) THEN "up" ELSE "read_crc"
    /\ outgrown' = Short(bin)
    /\ UNCHANGED <<bin, crc, table, writing, resetting, left, synced, expected,
                   asked>>

AcceptAnyCrc ==                        \* mutant: the CRC is not compared
    /\ step = "read_crc"
    /\ step' = IF crc # 0 THEN "up" ELSE "clear"
    /\ UNCHANGED <<quiet, bin, crc, table, writing, resetting, left, synced,
                   outgrown, expected, asked>>

ReadCrc ==
    /\ step = "read_crc"
    /\ step' = IF crc = table THEN "up" ELSE "clear"
    /\ UNCHANGED <<quiet, bin, crc, table, writing, resetting, left, synced,
                   outgrown, expected, asked>>

(* atomic_clear(quiet): one word.                                          *)
ClearList ==
    /\ step = "clear"
    /\ quiet' = quiet \ FirstWord
    /\ step' = "write_bin"
    /\ UNCHANGED <<bin, crc, table, writing, resetting, left, synced, outgrown,
                   expected, asked>>

(* An error is only logged.                                                *)
WriteList ==
    /\ step = "write_bin"
    /\ step' = "write_crc"
    /\ \/ ListWritten /\ UNCHANGED synced
       \/ ListNotWritten /\ synced' = FALSE
    /\ UNCHANGED <<quiet, crc, table, writing, resetting, outgrown, expected,
                   asked>>

WriteCrc ==
    /\ step = "write_crc"
    /\ step' = "up"
    /\ \/ /\ crc' = table
          /\ UNCHANGED <<left, synced>>
       \/ /\ Spend("failure")
          /\ synced' = FALSE
          /\ UNCHANGED crc
    /\ UNCHANGED <<quiet, bin, table, writing, resetting, outgrown, expected,
                   asked>>

-----------------------------------------------------------------------------
(* attr_set_quiet(). It waits neither for a mutex nor for attr_init(): a   *)
(* call may come between the steps of the boot. Such an early call, which  *)
(* may write the list before it is read, leaves open what the boot         *)
(* restores and what was asked.                                            *)
Early == step \in BootSteps

Counted(a) == IF Early THEN {} ELSE {a}

Asked(a, answer) ==
    IF Early THEN [i \in Attributes |-> "unknown"]
    ELSE [asked EXCEPT ![a] = answer]

(* The bit, when it changes.                                               *)
SetQuiet(t) ==
    /\ step # "off"
    /\ writing[t] = NoCall
    /\ Spend("call")
    /\ \E a \in InTable, on \in BOOLEAN :
          IF (a \in quiet) # on
          THEN /\ quiet' = IF on THEN quiet \cup {a} ELSE quiet \ {a}
               /\ writing' = [writing EXCEPT ![t] = Call(Counted(a), on)]
               /\ asked' = Asked(a, "unknown")
          ELSE /\ asked' = Asked(a, Setting(on))
               /\ UNCHANGED <<quiet, writing>>
    /\ expected' = IF Early THEN Unknown ELSE expected
    /\ UNCHANGED <<bin, crc, table, step, resetting, synced, outgrown>>

QuietNotWritten(t) ==                  \* mutant: the list is not written
    /\ step # "off"
    /\ writing[t] # NoCall
    /\ writing' = [writing EXCEPT ![t] = NoCall]
    /\ UNCHANGED <<quiet, bin, crc, table, step, resetting, left, synced,
                   outgrown, expected, asked>>

(* The whole list is written, and its error returned. Another thread that  *)
(* has set the same attribute meanwhile leaves it open what is asked.      *)
QuietWritten(t) ==
    /\ step # "off"
    /\ writing[t] # NoCall
    /\ \/ /\ ListWritten
          /\ asked' = [a \in Attributes |->
                IF a \notin writing[t].id THEN asked[a]
                ELSE IF (a \in quiet) = writing[t].on
                THEN Setting(writing[t].on) ELSE "unknown"]
          /\ synced' = (synced \/ crc = table)
       \/ /\ ListNotWritten
          /\ synced' = FALSE
          /\ UNCHANGED asked
    /\ writing' = [writing EXCEPT ![t] = NoCall]
    /\ UNCHANGED <<quiet, crc, table, step, resetting, outgrown, expected>>

-----------------------------------------------------------------------------
(* attr_factory_reset() deletes the files one after the other and leaves   *)
(* the list in RAM. It does not wait for attr_init() before that.          *)

DeleteList ==
    /\ step # "off"
    /\ ~resetting
    /\ Spend("reset")
    /\ bin' = NoFile
    /\ resetting' = TRUE
    /\ synced' = FALSE
    /\ asked' = [a \in Attributes |-> "unknown"]
    /\ UNCHANGED <<quiet, crc, table, step, writing, outgrown, expected>>

DeleteCrc ==
    /\ step # "off"
    /\ resetting
    /\ crc' = 0
    /\ resetting' = FALSE
    /\ synced' = FALSE
    /\ asked' = [a \in Attributes |-> "unknown"]
    /\ UNCHANGED <<quiet, bin, table, step, writing, left, outgrown, expected>>

-----------------------------------------------------------------------------
(* Power fails at any step. Between two boots the firmware may be updated  *)
(* to one with another table, of the same size or not.                     *)

(* What is known of the list the next boot has to restore. In the boot     *)
(* itself that does not change until the boot has written its list. A      *)
(* running device leaves its list, but not after a failed write or a       *)
(* reset, not in a file longer than the list, and not in a file that was   *)
(* rewritten next to the CRC of an older table (see outgrown).             *)
Promise ==
    CASE step \in BootSteps \ {"write_crc"} /\ synced -> expected
      [] step = "write_crc" /\ synced /\ Idle /\ expected.known -> Left(bin)
      [] /\ step = "up" /\ synced /\ Idle
         /\ Short(bin) \/ (crc = table /\ bin.words = Words[table])
         -> Left(File(bin.words, quiet))
      [] OTHER -> Unknown

Crash ==
    /\ step # "off"
    /\ Spend("crash")
    /\ step' = "off"
    /\ quiet' = {}
    /\ writing' = [t \in Threads |-> NoCall]
    /\ resetting' = FALSE
    /\ outgrown' = FALSE
    /\ expected' = Promise
    /\ UNCHANGED <<bin, crc, table, synced, asked>>

Update ==
    /\ step = "off"
    /\ table + 1 \in Tables
    /\ table' = table + 1
    /\ asked' = [a \in Attributes |-> "unknown"]
    /\ UNCHANGED <<quiet, bin, crc, step, writing, resetting, left, synced,
                   outgrown, expected>>

Boot == ReadList \/ ReadCrc \/ ClearList \/ WriteList \/ WriteCrc

Next ==
    \/ PowerOn
    \/ Boot
    \/ \E t \in Threads : SetQuiet(t) \/ QuietWritten(t)
    \/ DeleteList
    \/ DeleteCrc
    \/ Crash
    \/ Update

Spec == Init /\ [][Next]_vars

-----------------------------------------------------------------------------
(* What attr_init() finds is what the last run of the device left,         *)
(* whenever the last list was written and not deleted: all of it if the    *)
(* table is the same, and also if an update has made the list longer; the  *)
(* empty list, for the attributes of the first word, after any other       *)
(* update of the table.                                                    *)
Kept == expected.table = table \/ expected.words < Words[table]

Restored(list) ==
    IF Kept THEN list = InFile(expected)
    ELSE list \cap FirstWord = {}

ListIsRestored ==
    [][(step \in BootSteps /\ step' = "up" /\ synced' /\ expected.known) =>
            Restored(quiet')]_vars

(* A running device whose last write succeeded has its list in the file,   *)
(* next to the CRC of its table unless the boot has found a list of fewer  *)
(* words: bits two threads set at the same time are both written by the    *)
(* one that comes last.                                                    *)
FileFollowsList ==
    (step = "up" /\ synced /\ Idle) =>
        InFile(bin) = quiet /\ (crc = table \/ outgrown)

(* A setting attr_set_quiet() returned success for survives a restart:     *)
(* attr.h says that settings are saved to the file system.                 *)
SettingsSurvive ==
    (step = "up" /\ Idle) =>
        \A a \in Attributes : asked[a] \in {"unknown", Setting(a \in quiet)}
=============================================================================
