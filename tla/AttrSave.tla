------------------------------- MODULE AttrSave -------------------------------
(***************************************************************************)
(* The deferred save of src/attr.c (CONFIG_ATTR_DEFERRED_SAVE): threads    *)
(* that set attributes, threads that save at once, and the system work     *)
(* queue that saves some time after a change, all serialised by            *)
(* attr_mutex.                                                             *)
(*                                                                         *)
(* The values of the saved attributes are abstracted to a version number,  *)
(* which every change increments. TAKE_MUTEX locks the scheduler once it   *)
(* has the mutex: what a thread does from there to its next blocking call  *)
(* is one step. The blocking calls are taking the mutex, k_sleep() and     *)
(* reading or writing a file.                                              *)
(*                                                                         *)
(* Nobody calls attr_default(), which changes RAM and saves nothing, nor   *)
(* attr_delete(), which removes the file and saves nothing: what is said   *)
(* below of the file is about firmware that calls neither.                 *)
(***************************************************************************)
EXTENDS Integers, FiniteSets

CONSTANTS
    Setters,           \* threads that call attr_set() and its like
    Savers,            \* threads that call what saves at once
    Worker,            \* the system work queue
    NoThread,          \* the owner of a free mutex
    SaverCalls,        \* the calls they make: see SaverCall
    MaxSets,           \* bound on the changes a setter makes
    MaxSaves           \* bound on the calls a saver makes

Threads == Setters \cup Savers \cup {Worker}

ASSUME ThreadAssumption ==
    /\ Setters \cap Savers = {}
    /\ Worker \notin Setters \cup Savers
    /\ NoThread \notin Threads
    /\ SaverCalls \subseteq {"force", "load", "reset"}
    /\ MaxSets \in Nat /\ MaxSaves \in Nat

VARIABLES
    ram,               \* version of the values in RAM
    file,              \* version in the attribute file
    owner,             \* the thread that holds attr_mutex
    depth,             \* how many times it has locked it
    waiting,           \* threads blocked on attr_mutex
    flags,             \* the flags of attr_save_delayed_work
    pc,                \* where each thread is
    snap,              \* the version the file string of a thread holds
    loading,           \* threads inside attr_load()
    dirty,             \* what attr_save_status_notification() last reported
    failed,            \* the last save returned an error
    missed,            \* a change met a canceled save: none was scheduled
    late,              \* a factory reset wrote RAM and no save has caught up
    calls              \* operations started by each thread

vars == <<ram, file, owner, depth, waiting, flags, pc, snap, loading, dirty,
          failed, missed, late, calls>>

(* A thread at "lock_x" takes the mutex and goes on at "x".                *)
Locking == {"lock_set", "lock_load", "lock_save", "lock_error"}
Locked(at) == CASE at = "lock_set" -> "set"
                [] at = "lock_load" -> "load"
                [] at = "lock_save" -> "save"
                [] at = "lock_error" -> "error"

WorkFlags == {"RUNNING", "CANCELING", "QUEUED", "DELAYED"}

TypeOK ==
    /\ ram \in Nat
    /\ file \in Nat
    /\ owner \in Threads \cup {NoThread}
    /\ depth \in 0..2
    /\ waiting \subseteq Threads
    /\ flags \subseteq WorkFlags
    /\ pc \in [Threads -> Locking \cup
                  {"idle", "set", "sleep", "load", "load_end", "reset",
                   "now", "save", "io", "error"}]
    /\ snap \in [Threads -> Nat]
    /\ loading \subseteq Savers
    /\ dirty \in BOOLEAN
    /\ failed \in BOOLEAN
    /\ missed \in BOOLEAN
    /\ late \in BOOLEAN
    /\ calls \in [Threads -> Nat]
    /\ \A t \in Setters : calls[t] <= MaxSets
    /\ \A t \in Savers : calls[t] <= MaxSaves

(* attr_init() has loaded the file.                                        *)
Init ==
    /\ ram = 0
    /\ file = 0
    /\ owner = NoThread
    /\ depth = 0
    /\ waiting = {}
    /\ flags = {}
    /\ pc = [t \in Threads |-> "idle"]
    /\ snap = [t \in Threads |-> 0]
    /\ loading = {}
    /\ dirty = FALSE
    /\ failed = FALSE
    /\ missed = FALSE
    /\ late = FALSE
    /\ calls = [t \in Threads |-> 0]

-----------------------------------------------------------------------------
(* The mutex of the kernel: recursive, handed to a waiter when released.   *)

(* k_mutex_lock(K_FOREVER).                                                *)
Lock(t) ==
    /\ pc[t] \in Locking
    /\ t \notin waiting
    /\ IF owner \in {NoThread, t}
       THEN /\ owner' = t
            /\ depth' = depth + 1
            /\ pc' = [pc EXCEPT ![t] = Locked(pc[t])]
            /\ UNCHANGED waiting
       ELSE /\ waiting' = waiting \cup {t}
            /\ UNCHANGED <<owner, depth, pc>>
    /\ UNCHANGED <<ram, file, flags, snap, loading, dirty, failed, missed, late, calls>>

(* The work queue runs at a higher priority than the application's threads *)
(* and is the first waiter the kernel picks.                               *)
NextOwners == IF Worker \in waiting THEN {Worker} ELSE waiting

(* k_mutex_unlock() by t, which goes on at next.                           *)
Unlock(t, next) ==
    IF depth > 1
    THEN /\ depth' = depth - 1
         /\ pc' = [pc EXCEPT ![t] = next]
         /\ UNCHANGED <<owner, waiting>>
    ELSE IF waiting = {}
    THEN /\ owner' = NoThread
         /\ depth' = 0
         /\ pc' = [pc EXCEPT ![t] = next]
         /\ UNCHANGED waiting
    ELSE \E w \in NextOwners :
         /\ owner' = w
         /\ waiting' = waiting \ {w}
         /\ pc' = [pc EXCEPT ![t] = next, ![w] = Locked(pc[w])]
         /\ UNCHANGED depth

-----------------------------------------------------------------------------
(* attr_set() and its like, of a saved attribute that changes.             *)

CallSetUnlocked(t) ==                  \* mutant: TAKE_MUTEX missing
    /\ pc[t] = "idle"
    /\ calls[t] < MaxSets
    /\ calls' = [calls EXCEPT ![t] = @ + 1]
    /\ pc' = [pc EXCEPT ![t] = "set"]
    /\ UNCHANGED <<ram, file, owner, depth, waiting, flags, snap, loading,
                   dirty, failed, missed, late>>

CallSet(t) ==
    /\ pc[t] = "idle"
    /\ calls[t] < MaxSets
    /\ calls' = [calls EXCEPT ![t] = @ + 1]
    /\ pc' = [pc EXCEPT ![t] = "lock_set"]
    /\ UNCHANGED <<ram, file, owner, depth, waiting, flags, snap, loading,
                   dirty, failed, missed, late>>

BusyIsNever == FALSE                   \* mutant: the running save not awaited

(* busy_get() == true: the flags are exactly K_WORK_RUNNING, which is 1.   *)
BusyIsTrue == flags = {"RUNNING"}

(* k_work_delayable_is_pending(): any flag.                                *)
IsPending == flags # {}

(* k_work_reschedule() of work that has no flag.                           *)
ScheduleSave == flags' = IF IsPending THEN flags ELSE {"DELAYED"}

(* save_attributes(ATTR_SAVE_LATER) after its notification: sleep while    *)
(* the save is running, else have it scheduled and release the mutex.      *)
SaveLater(t) ==
    IF BusyIsTrue
    THEN /\ pc' = [pc EXCEPT ![t] = "sleep"]
         /\ UNCHANGED <<flags, owner, depth, waiting, missed>>
    ELSE /\ ScheduleSave
         /\ missed' = (missed \/ "CANCELING" \in flags)
         /\ Unlock(t, "idle")

(* attr_write(), then save_single().                                       *)
Set(t) ==
    /\ pc[t] = "set"
    /\ ram' = ram + 1
    /\ dirty' = TRUE
    /\ SaveLater(t)
    /\ UNCHANGED <<file, snap, loading, failed, late, calls>>

(* ATTR_SAVE_EXECUTING_CHECK_TIME_MS have passed.                          *)
Wake(t) ==
    /\ pc[t] = "sleep"
    /\ SaveLater(t)
    /\ UNCHANGED <<ram, file, snap, loading, dirty, failed, late, calls>>

-----------------------------------------------------------------------------
(* Saving at once: attr_force_save(), attr_load(), attr_factory_reset().   *)

SaverCall(t, call) ==
    /\ pc[t] = "idle"
    /\ calls[t] < MaxSaves
    /\ calls' = [calls EXCEPT ![t] = @ + 1]
    /\ pc' = [pc EXCEPT ![t] = CASE call = "force" -> "now"
                                 [] call = "load"  -> "lock_load"
                                 [] call = "reset" -> "reset"]
    /\ loading' = IF call = "load" THEN loading \cup {t} ELSE loading
    /\ UNCHANGED <<ram, file, owner, depth, waiting, flags, snap, dirty, failed, missed, late>>

(* k_work_cancel_delayable(): what is not running yet will not run; what   *)
(* is running goes on, marked.                                             *)
Cancel == flags' = IF "RUNNING" \in flags THEN {"RUNNING", "CANCELING"} ELSE {}

SaveNowUnlocked(t) ==                  \* mutant: TAKE_MUTEX missing
    /\ dirty' = TRUE
    /\ IF IsPending THEN Cancel ELSE UNCHANGED flags
    /\ pc' = [pc EXCEPT ![t] = "save"]
    /\ UNCHANGED <<file, owner, depth, waiting, snap, loading, failed, missed, late, calls>>

(* save_attributes(ATTR_SAVE_NOW) up to save_attributes_internal().        *)
SaveNow(t) ==
    /\ dirty' = TRUE
    /\ IF IsPending THEN Cancel ELSE UNCHANGED flags
    /\ pc' = [pc EXCEPT ![t] = "lock_save"]
    /\ UNCHANGED <<file, owner, depth, waiting, snap, loading, failed, missed, late, calls>>

(* attr_force_save(), and the second half of attr_factory_reset().         *)
Now(t) ==
    /\ pc[t] = "now"
    /\ SaveNow(t)
    /\ UNCHANGED ram

(* attr_load() has read its file, with the mutex, and writes its values.   *)
Load(t) ==
    /\ pc[t] = "load"
    /\ ram' = ram + 1
    /\ SaveNow(t)

(* It releases the mutex when the file is refused, or when it is saved.    *)
EndLoad(t) ==
    /\ pc[t] \in {"load", "load_end"}
    /\ loading' = loading \ {t}
    /\ Unlock(t, "idle")
    /\ UNCHANGED <<ram, file, flags, snap, dirty, failed, missed, late, calls>>

(* attr_table_factory_reset(), without the mutex.                          *)
Reset(t) ==
    /\ pc[t] = "reset"
    /\ ram' = ram + 1
    /\ late' = TRUE
    /\ pc' = [pc EXCEPT ![t] = "now"]
    /\ UNCHANGED <<file, owner, depth, waiting, flags, snap, loading, dirty,
                   failed, missed, calls>>

-----------------------------------------------------------------------------
(* save_attributes_internal(), by a saver or by the work queue.            *)

SavedAnyhow(t, ok) ==                  \* mutant: reported saved though it failed
    /\ dirty' = FALSE
    /\ failed' = ~ok
    /\ missed' = (missed /\ ~ok)
    /\ late' = (late /\ file' # ram)
    /\ Unlock(t, "lock_error")

(* After GIVE_MUTEX it sets attr_save_error_code.                          *)
Saved(t, ok) ==
    /\ dirty' = (dirty /\ ~ok)
    /\ failed' = ~ok
    /\ missed' = (missed /\ ~ok)
    /\ late' = (late /\ file' # ram)
    /\ Unlock(t, "lock_error")

(* Build the file; when the checksum of the old one is the same, done. The *)
(* blocking read of fsu_crc32_abs() is folded into this step: the mutex is *)
(* held over it, and what a factory reset writes in the meantime, without  *)
(* the mutex, may as well come right after the step.                       *)
Build(t) ==
    /\ pc[t] = "save"
    /\ UNCHANGED file
    /\ snap' = [snap EXCEPT ![t] = ram]
    /\ \/ file # ram
          /\ pc' = [pc EXCEPT ![t] = "io"]
          /\ UNCHANGED <<owner, depth, waiting, dirty, failed, missed, late>>
       \/ file = ram /\ Saved(t, TRUE)
       \/ Saved(t, FALSE)
    /\ UNCHANGED <<ram, flags, loading, calls>>

(* lcz_kvp_write() returns.                                                *)
Written(t, ok) ==
    /\ pc[t] = "io"
    /\ file' = IF ok THEN snap[t] ELSE file
    /\ Saved(t, ok)
    /\ UNCHANGED <<ram, flags, snap, loading, calls>>

SetErrorCodeLocked(t) ==               \* mutant: GIVE_MUTEX missing
    /\ pc[t] = "error"
    /\ pc' = [pc EXCEPT ![t] = IF t \in loading THEN "load_end" ELSE "idle"]
    /\ flags' = IF t = Worker THEN flags \ {"RUNNING", "CANCELING"} ELSE flags
    /\ UNCHANGED <<ram, file, owner, depth, waiting, snap, loading, dirty, failed, missed, late,
                   calls>>

(* attr_set_signed32(ATTR_ID_attr_save_error_code), an attribute that is   *)
(* not saved; then the work is over, or the call that saved.               *)
SetErrorCode(t) ==
    /\ pc[t] = "error"
    /\ Unlock(t, IF t \in loading THEN "load_end" ELSE "idle")
    /\ flags' = IF t = Worker THEN flags \ {"RUNNING", "CANCELING"} ELSE flags
    /\ UNCHANGED <<ram, file, snap, loading, dirty, failed, missed, late, calls>>

-----------------------------------------------------------------------------
(* The kernel: CONFIG_ATTR_SAVE_DELAY_MS have passed; the work queue takes *)
(* the work.                                                               *)
Expire ==
    /\ "DELAYED" \in flags
    /\ flags' = (flags \ {"DELAYED"}) \cup {"QUEUED"}
    /\ UNCHANGED <<ram, file, owner, depth, waiting, pc, snap, loading, dirty,
                   failed, missed, late, calls>>

StartWork ==
    /\ "QUEUED" \in flags
    /\ pc[Worker] = "idle"
    /\ flags' = (flags \ {"QUEUED"}) \cup {"RUNNING"}
    /\ pc' = [pc EXCEPT ![Worker] = "lock_save"]
    /\ UNCHANGED <<ram, file, owner, depth, waiting, snap, loading, dirty,
                   failed, missed, late, calls>>

-----------------------------------------------------------------------------
(* What a thread does once it has started an operation.                    *)
Step(t) ==
    \/ Lock(t)
    \/ Set(t)
    \/ Wake(t)
    \/ Load(t)
    \/ EndLoad(t)
    \/ Reset(t)
    \/ Now(t)
    \/ Build(t)
    \/ \E ok \in BOOLEAN : Written(t, ok)
    \/ SetErrorCode(t)

Next ==
    \/ \E t \in Setters : CallSet(t)
    \/ \E t \in Savers, call \in SaverCalls : SaverCall(t, call)
    \/ \E t \in Threads : Step(t)
    \/ Expire
    \/ StartWork

(* A thread that is not blocked runs again, a timer expires, the work      *)
(* queue takes its work; nobody has to call anything.                      *)
Fairness ==
    /\ \A t \in Threads : WF_vars(Step(t))
    /\ WF_vars(Expire)
    /\ WF_vars(StartWork)

Spec == Init /\ [][Next]_vars /\ Fairness

-----------------------------------------------------------------------------
(* Properties.                                                             *)

(* Threads that have the mutex, by where they are.                         *)
Inside ==
    {t \in Threads :
        \/ pc[t] \in {"set", "sleep", "load", "load_end", "save", "io", "error"}
        \/ t \in loading /\ pc[t] # "lock_load"}

(* The mutex is recursive and handed over without being free in between:   *)
(* still only its owner is inside, locked as often as it must unlock.      *)
MutexHeld ==
    /\ Inside \subseteq {owner}
    /\ owner # NoThread => owner \in Inside
    /\ depth = IF owner = NoThread THEN 0
               ELSE IF owner \in loading /\ pc[owner] \in {"save", "io", "error"} THEN 2
               ELSE 1

(* t is on its way to write what is in RAM now.                            *)
WillSave(t) ==
    \/ pc[t] \in {"now", "lock_save", "save"}
    \/ pc[t] = "io" /\ snap[t] = ram

(* attr_save_status_notification(false) means "attribute data saved to     *)
(* storage device" (attr.h:661): no value is newer than the file, but for  *)
(* a factory reset. It takes no mutex: the save it overtakes reports false *)
(* before the reset has saved, or failed to save, what it has just written.*)
(* attr_default() and attr_delete() would be exceptions too: they leave    *)
(* the last report as it was.                                              *)
CleanMeansSaved ==
    ~dirty => file = ram \/ (late /\ (failed \/ \E t \in Savers : WillSave(t)))

(* A save that waited for the mutex, or for the file system, never         *)
(* replaces a newer file by an older one: what is written was built under  *)
(* the same hold of the mutex.                                             *)
FileNeverGoesBack == [][file' >= file]_vars

(* A save is due, under way or about to be scheduled.                      *)
SaveIsDue ==
    \/ flags \cap {"DELAYED", "QUEUED"} # {}
    \/ \E t \in Threads : WillSave(t) \/ pc[t] = "sleep"

(* README.md:71, "All savable values are saved to the filesystem any time  *)
(* they change": a value that is not in the file will be, unless the last  *)
(* save returned an error or the change met a save at once while it had    *)
(* the running save canceled: such a change is lost. attr_default() and    *)
(* attr_delete(), which schedule no save, would be exceptions too.         *)
LostOnlyIfMissed == file = ram \/ failed \/ SaveIsDue \/ missed

(* A thread that sleeps holding the mutex until the running save is over,  *)
(* and the running save waiting for that mutex.                            *)
WaitCycle ==
    \E t \in Setters : /\ pc[t] = "sleep" /\ owner = t
                       /\ Worker \in waiting /\ "RUNNING" \in flags

(* t is in the middle of an operation, and neither the mutex nor its sleep *)
(* keeps it from going on.                                                 *)
CanGoOn(t) ==
    /\ pc[t] # "idle"
    /\ t \notin waiting
    /\ ~(pc[t] = "sleep" /\ BusyIsTrue)

(* There is no other deadlock: outside of that cycle, when operations are  *)
(* under way, one of them can go on.                                       *)
SomeoneGoesOn ==
    \/ WaitCycle
    \/ \A t \in Threads : pc[t] = "idle"
    \/ \E t \in Threads : CanGoOn(t)

(* And the cycle does not end by itself, only by a save at once that takes *)
(* no mutex and cancels the running save.                                  *)
OnlyCancelEndsCycle ==
    [][WaitCycle /\ "CANCELING" \notin flags => WaitCycle']_vars

(* Every operation returns, but for that one cycle.                        *)
CallsReturn ==
    \A t \in Threads : pc[t] # "idle" ~> pc[t] = "idle" \/ WaitCycle

(* Every value reaches the file, but for that cycle, for a save that fails *)
(* and for a change that met a canceled save.                              *)
ValuesReachFile == file # ram ~> file = ram \/ failed \/ WaitCycle \/ missed

(* attr.c:1428, "The save task is currently running, yield by sleeping     *)
(* until it has finished".                                                 *)
SleepEnds == \A t \in Setters : pc[t] = "sleep" ~> pc[t] # "sleep"
==============================================================================
