# A TLA+ model of the attribute module

This directory models the attribute module (`src/attr.c`, `src/attr_validator.c`,
`src/attr_shell.c`, `src/attribute_mgmt.c` with its generated CBOR code, and the
generated table) in TLA+, checks the models with TLC on small instances, and proves
what matters most for every value of the constants with TLAPS. Paths below are
relative to the repository; `attr.c:1301` is a line of `src/attr.c`.

## 1. The system

The module keeps a table of named, typed values for a Zephyr application. A generator
(`generator/api.py`) turns a YAML/JSON description into `ATTR_TABLE`; each entry has a
type, a validator, limits, a default and flags (writable, readable, savable,
deprecated, broadcast, notify-if-unchanged). Threads of the application, a shell, an
SMP server (mcumgr) and the module's own initialisation read and write the values, and
a file on a littlefs volume keeps the savable ones.

| Component | State | Operations | Hard behaviour | What makes it correct |
|---|---|---|---|---|
| attribute store (`attr.c`) | the values; the bits `attr_modified`, `attr_unchanged`; `attr_initialized`; the file | `attr_init`, the setters, `attr_load`, `attr_default`, `attr_delete`, `attr_factory_reset`, saving | operations without the mutex, failed saves, resets of the device, bits left by an earlier operation | values are legal, the file is a snapshot of RAM, a reset restores it, a refused file changes nothing |
| validators (`attr_validator.c`) | none | check, convert to the width of the type, write, set bits | truncation before the range check; control points | what is accepted once is accepted again |
| loader, feedback file | place in the file, fail count | two passes over the pairs | the passes must agree; rules differ during init | all or nothing; complaints iff an error |
| value conversions | the bytes at `pData` | text of a file, arguments of the shell, typed getters and setters, CBOR items | widths, signs, bases, digits of a float, odd hexadecimal | a value is what its caller meant, and survives saving and loading |
| locking of the accessors, show | mutex, lock count of the scheduler of each thread | `TAKE_MUTEX`, `GIVE_MUTEX`, the getters, `attr_copy_string`, `attr_show` | functions that use half of the macros or none, priorities, the wait for `attr_init` | values are read whole, counts balance, calls return |
| deferred save | delayed work, mutex, scheduled/cancelled/running | schedule, cancel, save | work queue against threads, recursive mutex, sleep with the mutex | every call returns, every value reaches the file, no older file replaces a newer one |
| SMP server (`attribute_mgmt.c`) | one request at a time | get, set, set/get/disable notify, load, dump, factory reset | other threads between the steps of a handler; each step may fail; increments a version after a set | a request that is refused changed nothing; what is answered is so; every request is answered |
| dump | a text on the heap | build, write, free | built with the mutex, written without it; the old file is deleted first | a dump shows one moment and loads back; no text is lost |
| CBOR encoder and decoder (`generated/`) | none | one pair of functions per message | written by a generator for both sides: order, optional members, kinds | each side understands the other |
| shell (`attr_shell.c`) | none | set, get, load, dump, show, delete, quiet, ... | shares the files with the server | as for the functions it calls |
| Bluetooth notifications | `conn_handle`, its reference, the notify bits | connected/disconnected callbacks, `attr_notify` | callbacks between any two steps | subscribers see the current value; nothing left on after a disconnection |
| quiet list | bits in RAM, `quiet.bin`, `quiet.crc` | `attr_set_quiet`, `initialize_quiet`, deletion by a factory reset | two files, no mutex, no wait for `attr_init`, power failures, updates to a table of another size | the file follows the list, a boot restores it |
| broadcast | message from a pool | one message per change or load | its room | never more ids than room |
| generated table, generator | the table | `attr_table_initialize`, `attr_table_factory_reset` | writes without the mutex | what `TableAssumption` says of a table |
| custom validators, tests | none | | | not modelled |

How they interact: every setter calls the validator (which sets bits), then the save,
then `change_single()`, which shows, notifies and broadcasts, then clears the bits,
all under `attr_mutex`. A load does the same for a file: two passes of `loader()`, one
save, `change_multiple()`. The server calls the setters with notification off and
increments `config_version`; the shell calls the same functions from another thread.
The Bluetooth callbacks write `conn_handle` and the notify bits that `attr_notify()`
reads. The deferred save moves the writing of the file to the system work queue.
`TAKE_MUTEX` also locks the scheduler, so that a thread that has the mutex is
overtaken only where it blocks: while taking a mutex, sleeping, or in the file system
or the Bluetooth stack.

## 2. Modules

| Module | Models | Kind |
|---|---|---|
| `AttrValidator` | the validators, as operators on a table entry and a value | operators only |
| `AttrStore`, `MCAttrStore` | store, loader and feedback file of a build without the deferred save; a table of three attributes, files to load, files an older firmware left | state machine, its TLC instance |
| `PersistentMap` | what the store promises: a map in memory, a snapshot on disk | abstract specification |
| `AtomicValue` | what the locking of the accessors promises: reads and writes of a value in one step | abstract specification |
| `AttrStoreProofs`, `AttrRestartProofs` | invariants of `AttrStore`; restarts and the refinement | proofs |
| `AttrConversion`, `MCAttrConversion`, `AttrConversionProofs` | a value on its way through bytes, text, typed functions and CBOR items; an attribute of each type | state machine, instance, proofs |
| `AttrAccess`, `MCAttrAccess`, `AttrAccessProofs` | mutex, scheduler lock and priorities under the accessors; four threads | state machine, instance, proofs |
| `AttrSave`, `AttrSaveProofs` | mutex, work queue and file of a build with the deferred save | state machine, proofs |
| `AttrCbor` | the messages of the SMP group, as both generated files have them | operators only |
| `AttrSmp`, `MCAttrSmp`, `AttrSmpProofs` | the handlers of the SMP server, and load, dump and delete of the shell; four attributes and the requests | state machine, instance, proofs |
| `AttrMgmt`, `AttrMgmtProofs` | SMP server, Bluetooth callbacks, firmware threads, notifications | state machine, proofs |
| `AttrQuiet`, `MCAttrQuiet`, `AttrQuietProofs` | the quiet list over boots; two attributes in two words, four tables | state machine, instance, proofs |

`AttrStore` and `AttrConversion` EXTEND `AttrValidator`; `AttrSmp` EXTENDS
`AttrValidator` and `AttrCbor`; `AttrStore` instantiates `PersistentMap` and
`AttrAccess` instantiates `AtomicValue`. The modules look at the same code at different
grains, each fine where its properties are and coarse elsewhere: `AttrStore` is about
data, and takes a setter under the mutex as one action but splits a load;
`AttrConversion` has one attribute, but of every type; `AttrAccess` has one value of two
words, but every statement of the macros; `AttrSave` and `AttrMgmt` split an operation
at its blocking calls and abstract the values to a version number or to small numbers;
`AttrSmp` composes server, shell and firmware at the grain of what holds the mutex at
once.

### AttrStore

`ram`, `file`, `modified`, `unchanged`, `attr_initialized` are the variables of the
code. `load` is the progress of `load_attributes()`: its phase (`off` before
`attr_init`, `idle`, first pass, second pass), the pairs of the file and those still
to do, whether one failed, what was written. `reset` is the loop of
`attr_table_factory_reset()`. `feedback` is the feedback file; `done` is what the last
operation returned. `atRisk` is history: a caller was told, by an error or by the
nature of what it called, that RAM and file may differ.

One action per operation: `set_internal` (attr_set and attr_set_without_broadcast),
`SetFromFirmware` (the typed setters), `SetRefused`, `attr_init`, `attr_load`,
`LoadUnparsable`, the loader's steps `ValidatePair`, `BeginWrite`, `WritePair`,
`FinishInit`, `RejectLoad`, `FinishLoad`, then `attr_default`, `attr_delete`,
`attr_factory_reset`, `ResetEntry`, `FinishReset` and `Reboot`. A load is split at
each pair because `attr_default`, `attr_delete`, the loop of the factory reset and a
reset of the device do not wait for the mutex. A failed save is a choice in every
action that saves. Pairs of a file are a set, taken in any order: the README says that
nobody may depend on theirs; a file with two values for one key therefore ends with
either.

### AttrConversion

`entry` is the table entry of the one attribute, `ram` the value at `pData`, `text`
its value in the attribute file, `told` is history: the value the last accepted write
was meant to set, `Unknown` if it meant one the type cannot hold. `unsaved` says that
the file may have another value than `pData`: a save has failed, or `attr_default` or
`attr_delete` was called. `sum` is what `attr_add_uint32()` has copied and not written:
others may write in between. A text is a numeral,
a string of characters or a row of hexadecimal digits; `strtou`, `strtos`, `hex2bin`
and `bin2hex` say what the C library and Zephyr do with it, with the widths `Span32`
and `Span64` and with `Hex` values of a digit. `entry_to_kvp` and `kvp_convert` go
from the value to the text and back, `cbor_encode_attribute` and `CanBeSet` from the
value to an SMP item and back, `Copied` is what a typed getter returns. The actions
are the ways a value is written: `set_parameter` (SMP), `attr_load`, `ats_set_cmd` and
`ats_mod_cmd` (shell), `typed_set`, `attr_copy_uint32` with `attr_add_uint32`,
`attr_set_mask`, `attr_default`, and `save_attributes`, `attr_delete` and `attr_init`,
which write the text, remove it and read it back. Each save may fail. The limits of a
float are any numbers, as the generator prints them; `%e` rounds what is saved.

### AttrAccess

`running` is the thread the processor executes, `pc` the place of each thread in its
call, `sched` is `base.sched_locked`, `owner` the holder of `attr_mutex`, `mem` the
two words of a value, `buf` what a thread has read of it. `Run` executes one statement
of the running thread and lets the kernel choose the next one, unless the scheduler is
locked; `Answer` is a device or a file system that answers; `Woken` is a thread that
starts a call. The owner of the mutex inherits the priority of those that wait for it
(`RunsFor`). `shows` counts the calls of `attr_show()` of a thread and `mixed` says
that `attr_default()` or a factory reset, which write without the mutex, met another
access: both are history.

`AtomicValue` is what the other modules rely on when they take a setter or a getter as
one step: one value, written as a whole, and for each thread what its last read
returned. It promises nothing once `attr_default()` or a factory reset has met another
access. The mapping takes the value from the second word of `mem`, which is the last one
written, and a thread's copy from `buf` once both words are read; `attr_copy_string()`,
which takes no mutex, has no copy there.

### AttrSave

`owner`, `depth`, `waiting` are the kernel's recursive mutex; `flags` are those of
`attr_save_delayed_work`; `pc` says where each thread is; `snap` is the version of the
values in the text a thread has built; `dirty` is what
`attr_save_status_notification()` last said. The flag tests are those of the code:
`k_work_delayable_busy_get() == true` compares a set of flags with 1, which is
`K_WORK_RUNNING` alone; `k_work_delayable_is_pending()` is any flag. `missed` (a
change met a cancelled save and scheduled none) and `late` (a factory reset wrote RAM
and no save has caught up) are history. The read of `fsu_crc32_abs()` that decides
whether a text is written is part of `Build`. `attr_default()` and `attr_delete()` are outside: the first
changes RAM and saves nothing, the second removes the file and saves nothing, so that
`LostOnlyIfMissed` and `CleanMeansSaved` are about firmware that calls neither.

### AttrCbor and AttrSmp

A structure of the generated code is a function from the names of its members to
items; a message is the sequence of the members in its map. `Encode`, `Decode`,
`EncodeResult` and `DecodeResult` are tables with a row per generated function: its
members in their order, the kinds each accepts, which are optional. A client may also
send a message that lacks a member.

`AttrSmp` has the attributes in RAM, the notify bits, `files` by path, and `heap`, the
number of texts allocated. `step` says where the server and the shell are: the server
decodes (`received`), goes through the handler, which waits for the mutex between its
calls (`load`, `build`, `write`, `table`, `save`, `version`, `increment`), and answers
or returns a status. One action per such call; `attr_prepare_then_dump`,
`CopyVersion`, `WriteVersion` are shared by both users. `FirmwareSet` is a setter of
another thread between any two of them. `touched`, `saveFailed`, `apart`, `seen`,
`last` and `leaked` are history, used by properties only; `Watch`, a conjunct of the
next-state relation, records in `seen` the values RAM has had since a dump was asked
for. The firmware calls setters, not `attr_default()`, which would be one more exception
of `AttributeFileHolds`.

### AttrMgmt

Requests wait in `queue`; the server takes one, goes through the same steps as a
firmware thread (`Write`, `ChangeSilently` or `ChangeAndNotify`, `Notified`), and
answers. `handle`, `refs`, `links`, `closing` are the Bluetooth side: `closing` has the
connections that are down and whose callback is not over, and `stage` is how far
`smp_ble_disconnected()` is: `LinkLost` is the loss of the link, then `Disconnected`
drops the reference, `DisconnectedClears` sets `conn_handle` to NULL,
`DisconnectedDisables` calls `attr_disable_notify()`. The stack calls its callbacks one
after the other (`NoCallback`), but threads run between these steps and may be inside
`smp_bt_notify()` at any of them. `told`, `missed`, `late` and `increments` are history,
used by properties only.

### AttrQuiet

`quiet` is the list in RAM, `bin` and `crc` the two files, `step` the place in
`initialize_quiet()`, `writing` the call of `attr_set_quiet()` a thread is in between
setting the bit and writing the list. A list is an array of words, and each table has
its number of them: an update may need more or fewer. A file with fewer words than the
list is read into the first ones, and then neither compared nor rewritten (attr.c:2173
leaves the loop with a result that is not negative); the device has `outgrown` its
files. A file that is longer is read as far as the list goes. When the list is
discarded `atomic_clear()` clears its first word only.

`attr_set_quiet()` and the deletion of the files wait neither for a mutex nor for
`attr_init()`, so they come between the steps of a boot as well. A call that early may
write the list before it is read: then nothing is promised of that boot. `expected`
and `asked` are history: what the last run has left for the next boot (`Promise`), and
the last setting a caller was told had succeeded.

## 3. Runs

All bounds are constants of the cfg.

| Run | Instance | Question |
|---|---|---|
| `store_entire` | 3 attributes (a writable one with a range narrower than its type, a read-only saved one, a deprecated control point), values 0, 1, 2, 5, 8 files to load, 6 files at the first boot; entire files validated by `attr_load`, partial ones by `attr_init` | all properties of the store; that it implements `PersistentMap` |
| `conv_values` | one attribute, any of 18 entries: each type and validator, with and without a range, a float with limits `%e` cannot print; a digit has 2 values, a byte 4, the types 4 to 32; 27 numbers at the borders of all widths, strings up to 4 characters, arrays up to 3 bytes; any save may fail | does a value survive every way in and out |
| `access_threads` | the thread of `attr_init` and the shell at one priority, a more urgent reader, a less urgent setter that also defaults and resets; 2 calls each next to `attr_init` | whole values, the mutex, the scheduler lock; that it implements `AtomicValue` |
| `save_threads` | 2 setters with 2 changes each, a thread that saves at once, loads or resets once, the work queue | the mutex, the delayed save, the way of a value to the file |
| `smp_commands` | 4 attributes (one signed, the version, the enable of the factory reset, one that cannot be read), 24 requests of all commands, 5 commands of the shell, 3 paths and one too long; 2 requests, 1 command, 1 setter | answers, files and texts over every interleaving and failure of their steps |
| `mgmt_client` | 1 firmware thread with 2 calls, an attribute and the version, 2 connections one after the other, 2 requests | notifications, answers |
| `quiet_boots` | 2 attributes, in the first and in the second word; 4 tables, of one, one, two and one words; 2 threads, 3 calls, 3 power failures, 1 failed write, 1 factory reset | the list over boots and updates |
| `store_SetIsSaved`, `save_SleepEnds`, `mgmt_VersionCounts`, `quiet_SettingsSurvive`, `conv_SmpReadThenWrite` | smaller instances, or the same | findings, section 6 |

Why the bounds are enough. The store has no counter: `store_entire` is its whole state space for that table, over any number
of operations and resets of the device. The table has one attribute of each kind that a
guard of the code tells apart; the values include a legal one, one out of range, and one
that is legal only after it is cut to the width of its type. `AttrConversion` has no
counter either; its widths are small, but keep the order of those of C (a byte below a
word below a long below a 64-bit number), and the numbers include the last one inside
and the first one outside of each. In `AttrAccess` two calls of each thread let one call
meet what another left in the lock count. In `AttrSave` an operation of a thread leaves
nothing behind but the work's flags and the mutex; two changes of each setter against
one call of a saver reach every combination of flags. In `AttrSmp` the second request
meets what the first one left in files and RAM, and each step of a handler can be met by
the shell's command and by a setter. `AttrMgmt` needs a second connection to see what
the first one left, and two requests to have one wait while the other is served.
`AttrQuiet` needs three power failures for a boot that itself fails between two runs,
two threads for overlapping calls, and four tables for an update that keeps the size of
the list, one that makes it longer, and one that makes it shorter again. Most of these
properties are theorems as well (section 7), for any bound.

Once the bounded calls are used up a model may stop: `CHECK_DEADLOCK FALSE` is set for
`AttrSave`, `AttrAccess`, `AttrSmp`, `AttrMgmt` and `AttrQuiet` for this reason only
(for deadlock in `AttrSave` see `SomeoneGoesOn` and `CallsReturn` instead). The store
and the conversions never stop and are checked for deadlock.

Every property of a passing run has a mutant in `PROJECT.json`: a plausible bug in a
mapped definition that the run finds. The mutated forms stand next to the definitions,
marked `mutant`; nothing else uses them. The type invariants of `AttrStore`,
`AttrSave`, `AttrConversion`, `AttrAccess`, `AttrSmp`, `AttrMgmt` and `AttrQuiet` are
theorems and not run.

## 4. Properties

Store. `LegalValues`: whatever path a value took to RAM, its validator would take it
again, so the next boot accepts what is saved. `NoStaleBits`: no bit outlives its
operation. `AllOrNothing`: the two passes agree, and a refused file wrote nothing.
`RestartKeepsValues`: the file restores what RAM holds unless a caller knows otherwise.
`BroadcastFits`: the message of a load has room although nothing in the loop counts,
also when an earlier refused partial load has left its bits
set (that case is in the theorem; the run validates entire files). `FeedbackAgrees`: no success
with complaints. `FilesRespectWritable`: after `attr_init` no file changes a read-only
attribute. `ImplementsPersistentMap`: the file is always a snapshot of RAM taken at one
moment, and a boot ends with that snapshot, although it starts from the defaults and
goes through the file in many steps. The mapping takes `mem` from RAM while the store is
up and from the file while it is not: during a boot the abstract map is already what the
boot will make of the file.

Conversions. `ValueIsAsTold`: a value that was accepted is the one its caller meant,
if the type can hold it, over any number of saves and boots, and a float saved again
and again does not drift, except that a boot replaces a float whose printed number is
outside its limits by the default (`LostAtBoot`, section 6). After a boot that came
before the value was saved nothing is said of it. `ReadsBack`: what a save would write
now, the next boot accepts exactly if it is not such a float, and restores.
`ReadersAgree`: all readers see one number, sign included.
`ReadMayBeWritten`: an SMP client may write back what it has read, but for the two
cases of section 6.

Accessors. `LockedReadsAreWhole`: who reads under the mutex never gets half of an old
and half of a new value. `CopyIsWhole`: nor does `attr_copy_string()`, which takes no
mutex, in the most urgent thread, until somebody has shown an attribute. Both except
values that `attr_default()` or a factory reset met half way. `SchedBalance`: the lock
count of a thread is off by exactly one for each `attr_show()` it made.
`HolderRunsAlone`: between its macros a thread is not overtaken, except where it waits,
and except in a thread that has called `attr_show()` once. `WaitersAreServed`: while a
thread waits, the mutex has an owner that is on its way to give it. `AccessesAreAtomic`:
the refinement of `AtomicValue`. `CallsReturn`: except a thread more urgent than the one
that runs `attr_init`, which would spin for ever.

Deferred save. `MutexHeld`: only the owner is inside, locked as often as it must
unlock. `LostOnlyIfMissed`: a value not yet in the file has a save coming, unless the
last save failed or the change met a save at once that had cancelled the running save.
`CleanMeansSaved`: "not dirty" is never said of values the file does not have, unless
a factory reset overtook the save that says so, and then the reset's own save is still
to come or has failed. `FileNeverGoesBack`. `SomeoneGoesOn`: when operations are under
way, one of them is neither waiting for the mutex nor sleeping on the running save,
unless it is the cycle of section 6 that keeps them. `CallsReturn` and
`ValuesReachFile`: liveness, but for that cycle.

Server. `MessagesAreUnderstood`: what one side encodes the other decodes as it was,
for all sixteen structures. `RefusedMeansUntouched`: a request answered with an error
has changed no attribute, unless what failed is the save. `TextsAreFreed`: no text of
a dump is lost or freed twice, but for those the shell forgets when a write fails.
`AttributeFileHolds`: the file is what RAM holds, over all commands of server, shell
and firmware, until a save fails or someone else writes the file. `DumpIsSnapshot`: a
dump answered as done is in its file and shows the values of one moment since the
request. `DumpLoadsBack`: a dump of the writable attributes is accepted by a load, all
of it, with the values it shows.

Notifications. `SubscriberIsCurrent`: the last notification of an attribute carried
the value it has, unless its last change was not sent. `NotifyOffWhenClosed`: for
requests handled before their connection closed. `EveryRequestAnswered`.

Quiet list. `FileFollowsList`: bits that two threads set at once are both written by
the one that comes last. `ListIsRestored`: a boot restores what the last run left, also
when an earlier boot failed half way: all of it if the table is the same or an update
has made the list longer, and after any other update the empty list, for the
attributes of the first word. It promises nothing after a failed write, a deletion, a
call during the boot, or when a run that had outgrown its files has written
`quiet.bin` next to the CRC of the older table (`outgrown`, section 6).

## 5. Fairness

- `AttrAccess`: weak fairness of the processor (it executes the thread that the kernel
  has chosen, and no other: a ready thread of a lower priority gets nothing) and of
  the devices, which answer. Nobody has to call anything.
- `AttrSave`: weak fairness of each thread's steps, of the timer of the delayed work
  and of the work queue. Starting an operation is not fair. A thread blocked on the
  mutex has no step enabled; it goes on when the mutex is handed to it.
- `AttrMgmt`: weak fairness of each thread's steps, of the server, and of the three
  steps of `smp_ble_disconnected()`. Clients need not connect or ask, and links need
  not be lost.
- `AttrStore`, `AttrConversion`, `AttrSmp`, `AttrQuiet`: none; all their properties
  are safety, the refinement of `PersistentMap` included.

## 6. Findings

Each is a run that TLC must find violated.

- `SetIsSaved` (attr.c:1301). A save fails; the bit is cleared and the value stays in
  RAM. The caller tries again: the value is no different, nothing is saved and 0 is
  returned. README.md says that all savable values are saved any time they change.
- `SleepEnds` (attr.c:1430). A setter sleeps, with `attr_mutex`, until the running
  save is over; that save waits for `attr_mutex`. Neither goes on. It needs a setter
  to take the mutex after the work has started and before it has it. That nothing but
  a save at once, which cancels the running one, ends this, and that it is the only
  deadlock of the deferred save, is proved (`TheDeadlockLasts`, `OneDeadlock`).
- `VersionCounts` (attr.c:518). `attr_add_uint32` copies the version, gives the mutex
  and takes it again: two increments at once count as one.
- `SettingsSurvive` (attr.c:256, 1138). `attr_set_quiet` after a factory reset finds
  the bit as asked and writes nothing, or writes `quiet.bin` without `quiet.crc`; the
  next boot discards the list although the call returned 0.
- `SmpReadThenWrite` (attribute_mgmt.c:388). The README calls attributes readable and
  writable from SMP. Of a float, `attr_get` copies four bytes into a double: the
  client reads another number. Of a signed attribute, the decoder tries uint64 before
  int64, so every value that is not negative is refused with -ENOMSG.

The passing properties say where the behaviour stops. These too are things the code
does, written into a passing property as its exception, or shown by the model without
a property:

- `missed` (attr.c:1435): `attr_load` cancels a running save, which stays pending until
  it ends, and a setter in this window schedules none.
- `late` of `AttrSave` (attr.h:661): `attr_factory_reset` writes RAM without the mutex
  while a save writes older values and then reports them saved; the reset's own save
  follows.
- `mixed` (attr.c:1222, 258): `attr_default()` and the factory reset write without the
  mutex, and a getter that takes it may still read half of two values.
- `shows` (attr.c:1026): attr.c:66 promises that no other task becomes active before the
  mutex is released. After `attr_show()`, which gives back a lock of the scheduler it
  did not take, the next `TAKE_MUTEX` of that thread only brings its count back to zero,
  and a more urgent thread runs inside.
- `outgrown` (attr.c:2173): after an update to a list of more words the boot reads the
  short file and leaves both files; `attr_set_quiet` then writes the longer list next to
  the CRC of the older table and returns 0, and the boot after it clears the first word.
- `LostAtBoot` (attr.c:1926): `%e` prints seven digits and the generator prints limits
  of any number of digits (generator/api.py:514-519): a float may be accepted whose text
  the next boot refuses.
- `late` of `AttrMgmt` (attribute_mgmt.c:781): a request to enable notifications that
  was sent before its connection closed is handled after it; the bit stays set for the
  next client, although README.md:34 says that all notifications are disabled when the
  connection is closed.
- `leaked` (attr_shell.c:573): `ats_dump_cmd()` frees the text of a dump only if its
  write succeeded; attr.h:565 makes the caller responsible.
- The reference to a connection (attribute_mgmt.c:301): `attr_notify()` takes none of its
  own, and `bt_conn_unref()` may drop the only one while a thread is inside
  `smp_bt_notify()`, or before it reads `conn_handle`, which is set to NULL later.
- The bits of a refused partial load (attr.c:1159): a build that does not validate
  entire files leaves the bits of the pairs it wrote. The next load counts and
  broadcasts them and reports `modified` (attr.h:586), whatever it did itself.

Seen while reading, without a run, for want of a step that could fail in an
interesting way:

- README.md:58-67: the passkey 123456 written as `40e20100`, least significant byte
  first, holds for a byte array only; the text of a number goes through `strtoul()`
  with base 0, for which it is 40.
- README.md:38 says that a value out of range fails. A number the type cannot hold is
  first reduced to its low bytes: 257 is accepted for a U8 as 1, unless it comes over
  SMP.
- `attr_copy_signed64()` is documented with a `uint64_t` (attr.h:354).
- attribute_mgmt.c:346 takes 16 bits of a 32-bit id, while the answer echoes all of
  it.
- A dump request whose type is 255 or more is answered as a success without a file.
- `attr_load` returns the error of the save although RAM has changed.

## 7. Proofs

Eight modules of proofs hold for every table, set of values and files, width, number
of threads, connections and bound that satisfies the named assumptions of the modules.

Assumptions. `TableAssumption`: ids are natural numbers (the factory reset goes in
table order), a conversion yields a value that converts to itself, an accepted value
is accepted after its conversion, a default is legal: what the generator guarantees;
`SmpTableAssumption` says the same for the table of `AttrSmp` and the version.
`FileAssumption`: the files are sets of pairs, and the file at the first power on has
one value per key, as every file the module writes has. `SavedAssumption`,
`SmpSelectionAssumption`: something is savable, and dumpable (attr.c:1350 takes the
length of a null string otherwise). `SmpInputAssumption`: the kinds of requests,
commands and paths; the attribute file is that of the last save.
`ConversionAssumption`: widths are ordered as in C, each entry has the validator,
and size the generator gives its type, and a default that it accepts; nothing is
assumed of the limits of a float. `AccessAssumption`, `ThreadAssumption`,
`MgmtAssumption`: the sets of threads are disjoint, bounds are natural numbers.
`QuietAssumption`: words and tables are numbered from 1, 0 standing for a missing file,
and a table has at least one word; sizes are otherwise free.

`AttrStoreProofs`. The properties are not inductive by themselves. That the message of
a load has room needs that a bit is only ever set of a writable attribute; that a
refused file wrote nothing needs that the second pass meets only pairs the first one
accepted; both need to know what each phase of a load has seen. `IInv` is `TypeOK` and
`LegalValues` with `PhaseInv` (what `attr_initialized` says of the phase), `BitsInv`
(bits only of writable attributes; none during init; none outside the second pass of a
build that validates entire files) and `LoadInv` (a pass has counted a failure exactly
if it has seen a bad pair; what it wrote are the keys of the good pairs it has seen;
the second pass of an entire file has only good pairs). There is one lemma per action.
`TypeCorrect`, `ValuesAreLegal`, `BitsArePrivate`, `FilesAreAtomic`,
`BroadcastHasRoom`, `FeedbackIsTrue` follow; `ReadOnlyStays` is the action property.
The theorems hold for both values of each of the two validation options of Kconfig, of
which the run checks one combination.

`AttrRestartProofs`. `RInv` adds `FileInv` (one value per key, so that what a boot
restores is a function of the file), `InitLoadInv` (during a boot RAM is the defaults
plus what was written) and `AgreeInv` (file and RAM agree unless a load has written or
a caller knows). `RestartIsSafe` is the invariant `RestartKeepsValues`.
`StoreImplementsMap` is the refinement: the initial states map to initial states, and
every step is a `Write`, an `Erase`, a `PowerOff`, a `Start` or a stutter of
`PersistentMap`. Saving needs that the file built from legal values restores exactly
those values (`RestoredSaved`); the end of a boot needs that what the passes wrote is
`Restored(file)` (`InitRestores`).

`AttrConversionProofs`. Lemmas about division, about `strtou` and `strtos` of a
numeral in range, about `hex2bin` of `bin2hex` and about rounding come first; from
them that the text of a legal value loads as that value, once per kind of type. The
invariant is `TypeOK` and `ValueIsAsTold` with what a boot needs of the file:
`FileHoldsAValue` (its text is that of some value of the type, printed inside or
outside the limits), `FileFollows` (it is the text of the value at `pData` unless a
save is owed), and `SumIsSound` (what an addition is going to write). `ReadsBack`,
`ReadersAgree` and `ReadMayBeWritten` follow from the type part alone, the last one
with the choice the decoder makes for each kind of item and the bounds that
`set_parameter()` tests. The theorems are `ConversionTypeCorrect`, `ValuesAreAsTold`,
`ValuesReadBack`, `ReadersAlwaysAgree`, `ReadsMayBeWritten`, for any limits of a
float.

`AttrAccessProofs`. Mutual exclusion is not inductive: it needs which function is at
which place (`Calling`), that the owner is the one inside, and the balance of the lock
count. That a read is whole needs in addition what a value half written or half read
has in common with memory (`Memory`). Theorems: `MutexIsHeldInside`,
`SchedulerIsBalanced`, `HolderIsAlone`, `LockedReadsWhole`.

`CopiesAreWhole` is about a reader without the mutex. Its invariant (`Copying`) says
that the most urgent thread, between the two words it copies, is the one that runs, and
that the value in memory is whole: nobody else can be half way through a write, because
a setter that has shown nothing is really locked between its macros, which is the
balance of the lock count, and priorities inherited from waiters are never above its
own (`UrgentGoesOn`). `NoWakeupIsLost` follows from the places of owner and
waiters. `AccessImplementsAtomicValue` is the refinement: the value changes with its
second word, a reader has it when it has read both; every step is then a `Write`, a
`Read` of one thread, a `Forget` at its next call, or a stutter. A read is the value
*now* because no write fits between the two words of a locked reader; that the copy is
empty until then is the auxiliary invariant `Freshness`.

`AttrSaveProofs`. `Control` ties `pc`, `loading`, `owner`, `depth` and the work's
flags; `Values` says that no file is newer than RAM, what a text under construction
may hold, and that a value not in the file has a save due. Theorems:
`MutexIsExclusive`, `SavesAreDue`, `CleanIsSaved`, `FileOnlyAdvances`. Two more say of
deadlock what can be said without ENABLED: `OneDeadlock` (the owner of the mutex goes
on unless it sleeps on the running save; the worker goes on unless it waits for that
owner), and the action property `OnlyCancelEndsCycle`, proved as `TheDeadlockLasts`:
with the owner asleep nobody is inside, so the other threads can only start calls, wait
for the mutex, or cancel the save. TLC agrees with the second one on two setters and
two savers; it has no run of its own, since `SleepEnds` shows the cycle already.

`AttrSmpProofs`. `SmpInv` has a part per property, each proved from the one before:
`BaseInv` (types, and values that are legal and their own conversion), `TextInv` (what
a text shows), `HeapInv`, `WholeInv` (the attribute file), `DumpInv` (a file marked as
a dump of the writable attributes loads back), `RefuseInv` (at each step, whether RAM
may have been touched), `AskInv` and `SnapInv` (each text, and then its file, shows a
member of `seen`), `RestInv` (bounds). Theorems: `TypeCorrect`, `RefusedUntouched`,
`TextsFreed`, `FileHolds`, `DumpSnapshot`, `DumpLoads`.

`RoundTrip` is about the encoder and the decoder alone: for any table of members and
any structure that has its mandatory members with items of the kinds accepted,
decoding what was encoded gives the structure back. It needs that `Among`, the members
present in the order of the table, lists each of them once (`Ranks`, `AmongTable`),
which is why `Among` is written with the rank of each member and not with a selection
that recurs. `AlwaysUnderstood` then needs that the table of the encoder and that of
the decoder have the same rows (`SameTables`), and `CborInv`: the message in transit
encodes the request or the answer, and every answer of a handler is complete.

`AttrMgmtProofs`. `RequestInv` counts requests (each waits, is served or is answered),
`LinkInv` numbers the connections, up, closing or in `conn_handle`, `NotifyInv` the
notify bits to the open connection, `MutexInv` the places of the threads to the owner
and the pending bits, `CurrentInv` what each client was told, subscribed or not, to the
values. Theorems: `MgmtTypeCorrect`, `NotifyIsOff`, `SubscriberStaysCurrent`, for any
number of simultaneous connections; and `RequestsGoOn`, the part of
`EveryRequestAnswered` that is not about fairness: requests are neither lost nor
answered twice (`RequestsAreCounted`), and while one is not answered the server, or the
owner of the mutex it needs, has a step to make (`NobodyIsStuck`).

`AttrQuietProofs`. `ListIsRestored` relates a boot to a run before it, over failed
boots and updates of any size. `ShapeInv` says that a file has the bits of its words
only and names no later table, `FilesInv` what the files are in a boot or run whose
last write succeeded, `QuietBoot` that nobody is inside `attr_set_quiet()` as long as
something is promised. `PromiseInv` carries the promise through the boot, step by
step: before the boot writes, the files are those of the last run (`FilesAsLeft`); they
are accepted, too short, or name an older table; at the two writes the list is the
promised one already. Theorems: `QuietTypeCorrect`, `QuietFileFollows`,
`QuietIsRestored`.

Only model-checked: liveness (`ValuesReachFile`, `EveryRequestAnswered` and both
`CallsReturn`), which is out of this prover's reach together with ENABLED and
with induction over data; the part of each that is not about fairness, that nobody is
stuck or forgotten, is proved (`OneDeadlock` with `SavesAreDue`, `RequestsGoOn`,
`NoWakeupIsLost`). Every invariant and every action property that a passing run
checks is a theorem, and so are both refinements. No module declares a recursive
operator.

## 8. Abstractions, and what is not modelled

- Time, logging and wording are left out. In `AttrStore` and `AttrSmp` a file is a set
  of pairs and a text denotes its value; what a conversion does to a value is in
  `AttrConversion` alone, which has no characters of a string that end a line or look
  like a numeral, and no NaN.
- The file system replaces a file as a whole or leaves it (littlefs commits a write
  when the file is closed); a dump, which is not written in one piece, may leave a
  part (`Broken`). Equal CRC32 of two texts means equal texts.
- One processor: locking the scheduler keeps the other threads out.
- The work queue has a higher priority than the setters and is the first waiter the
  kernel picks (`NextOwners`).
- `attr_save_error_code` is not savable: saving it would schedule a save at the end of
  each one.
- One factory reset at a time. The run of `AttrMgmt` has one peripheral connection at
  a time (`MaxLinks` = 1); the theorems have any number.
- `attr_default()` and `attr_delete()` are in `AttrStore` and `AttrConversion`, the
  first one in `AttrAccess` as well, the second one as the shell's command in
  `AttrSmp`; nobody else calls them in `AttrSave` and `AttrSmp`. In
  `AttrMgmt` only clients of the server change the notify bits, not the shell or the
  firmware.
- `AttrStore` has no deferred save, and `AttrSave` no reset of the device: what a
  reset loses in the delay is documented in Kconfig.
- A get request and a refused set change nothing in `AttrMgmt`; what they answer is in
  `AttrSmp`. In `AttrSmp` a load or a set is one action, `dump_path` and `load_path`
  are constants although an attribute holds them, and values are integers.
- External, modelled by how the code uses them: the kernel, zcbor, littlefs and the
  file system utilities, the key-value parser, the Bluetooth stack, mcumgr.
- Not modelled: the type ATOMIC with `attr_set_flags` and `attr_clear_flags`, which
  needs a validator of the application; prepare functions and custom validators, which
  may do anything; a `bool` argument whose byte is neither 0 nor 1; the delivery of
  messages by the framework; the shell's get, type, notify, factory_reset and qrtc,
  which print, set one bit or send a message; the formatting of show; the generator, a
  text transformation at build time.

## 9. Plan

Done, in this order: validators and store; proofs of the store and its refinement;
deferred save; server and notifications; quiet list and its proofs; conversions;
locking of the accessors; messages and commands of the server with the shell; proofs
of all of them.

What remains:

1. ATOMIC in `AttrConversion` (hexadecimal text read with base 0) with
   `attr_set_flags` and `attr_clear_flags`, for a given validator.
2. The framework's pool and queue of messages, so that the receivers of a broadcast
   can be compared with the values.
3. A run of `AttrMgmt` with two connections at once, and `attr_notify` split inside
   `smp_bt_notify()`.
4. `dump_path` and `load_path` as attributes of `AttrSmp` that a set may change
   between two steps of a handler.
5. The guarantees of `TableAssumption` derived from a model of what the generator
   accepts.
6. An abstract server that takes requests in order and answers each once, which
   `AttrMgmt` should implement, and an abstract file that lags behind the values, for
   `AttrSave`.
