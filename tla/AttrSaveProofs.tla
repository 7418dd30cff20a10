---------------------------- MODULE AttrSaveProofs ----------------------------
(***************************************************************************)
(* Proofs about AttrSave for any number of threads and of calls: the       *)
(* recursive mutex, what a scheduled save owes to the values in RAM, the   *)
(* file, which only ever moves to newer versions, and the one deadlock.    *)
(***************************************************************************)
EXTENDS AttrSave, TLAPS

(* TypeOK but for the depth, which follows from MutexHeld.                 *)
Kinds ==
    /\ ram \in Nat
    /\ file \in Nat
    /\ owner \in Threads \cup {NoThread}
    /\ depth \in Nat
    /\ waiting \subseteq Threads
    /\ flags \in {{}, {"DELAYED"}, {"QUEUED"}, {"RUNNING"}, {"RUNNING", "CANCELING"}}
    /\ pc \in [Threads -> Locking \cup
                  {"idle", "set", "sleep", "load", "load_end", "reset",
                   "now", "save", "io", "error"}]
    /\ snap \in [Threads -> Nat]
    /\ loading \subseteq Savers
    /\ dirty \in BOOLEAN
    /\ failed \in BOOLEAN
    /\ missed \in BOOLEAN
    /\ late \in BOOLEAN
    /\ calls \in [Threads -> Nat]
    /\ \A t \in Setters : calls[t] <= MaxSets
    /\ \A t \in Savers : calls[t] <= MaxSaves

(* Where each kind of thread can be.                                       *)
Place(t) ==
    /\ t \in Setters => pc[t] \in {"idle", "lock_set", "set", "sleep"}
    /\ t \in Savers \cup {Worker} => pc[t] \notin {"lock_set", "set", "sleep"}
    /\ t = Worker => pc[t] \in {"idle", "lock_save", "save", "io", "lock_error", "error"}
    /\ pc[t] \in {"lock_load", "load", "load_end"} => t \in loading
    /\ t \in loading => pc[t] \notin {"idle", "now", "reset"}

(* A thread that waits does so for a mutex that another one holds.         *)
Waits(t) == t \in waiting => pc[t] \in Locking /\ owner # NoThread /\ owner # t

Places == \A t \in Threads : Place(t) /\ Waits(t)

(* The work runs as long as its flag says so.                              *)
WorkRuns == pc[Worker] # "idle" <=> "RUNNING" \in flags

Control == Kinds /\ Places /\ WorkRuns /\ MutexHeld

USE DEF Locking, WorkFlags

LEMMA Control_Lock ==
    ASSUME Control, NEW t \in Threads, Lock(t)
    PROVE  Control'
<1>1. Kinds' BY ThreadAssumption DEF Control, Kinds, Places, Place, Waits, Lock, Locked, Threads
<1>2. Places' BY <1>1, ThreadAssumption DEF Control, Kinds, Places, Place, Waits, MutexHeld, Inside, Lock, Locked, Threads
<1>3. WorkRuns' BY <1>1, ThreadAssumption DEF Control, Kinds, Places, Place, Waits, WorkRuns, Lock, Locked, Threads
<1>4. MutexHeld' BY <1>1, ThreadAssumption DEF Control, Kinds, Places, Place, Waits, MutexHeld, Inside, Lock, Locked, Threads
<1> QED BY <1>1, <1>2, <1>3, <1>4 DEF Control

LEMMA Control_CallSet ==
    ASSUME Control, NEW t \in Setters, CallSet(t)
    PROVE  Control'
<1>1. Kinds' BY ThreadAssumption DEF Control, Kinds, Places, Place, Waits, CallSet, Threads
<1>2. Places' BY <1>1, ThreadAssumption DEF Control, Kinds, Places, Place, Waits, MutexHeld, Inside, CallSet, Threads
<1>3. WorkRuns' BY <1>1, ThreadAssumption DEF Control, Kinds, Places, Place, Waits, WorkRuns, CallSet, Threads
<1>4. MutexHeld' BY <1>1, ThreadAssumption DEF Control, Kinds, Places, Place, Waits, MutexHeld, Inside, CallSet, Threads
<1> QED BY <1>1, <1>2, <1>3, <1>4 DEF Control

(* What k_mutex_unlock() leaves has its types.                             *)
LEMMA UnlockTyped ==
    ASSUME Kinds, Places, NEW t \in Threads, NEW next \in {"idle", "lock_error", "load_end"},
           Unlock(t, next)
    PROVE  /\ owner' \in Threads \cup {NoThread}
           /\ depth' \in Nat
           /\ waiting' \subseteq Threads
           /\ pc' \in [Threads -> Locking \cup
                          {"idle", "set", "sleep", "load", "load_end", "reset",
                           "now", "save", "io", "error"}]
<1>1. \A w \in waiting : Locked(pc[w]) \in {"set", "load", "save", "error"}
    BY DEF Kinds, Places, Waits, Locked
<1> QED BY <1>1 DEF Kinds, Unlock, NextOwners

LEMMA SaveLaterTyped ==
    ASSUME Kinds, Places, NEW t \in Threads, SaveLater(t)
    PROVE  /\ owner' \in Threads \cup {NoThread}
           /\ depth' \in Nat
           /\ waiting' \subseteq Threads
           /\ pc' \in [Threads -> Locking \cup
                          {"idle", "set", "sleep", "load", "load_end", "reset",
                           "now", "save", "io", "error"}]
           /\ flags' \in {{}, {"DELAYED"}, {"QUEUED"}, {"RUNNING"}, {"RUNNING", "CANCELING"}}
           /\ missed' \in BOOLEAN
<1>1. CASE BusyIsTrue BY <1>1 DEF Kinds, SaveLater
<1>2. CASE ~BusyIsTrue
    <2>1. Unlock(t, "idle") BY <1>2 DEF SaveLater
    <2>2. flags' \in {{}, {"DELAYED"}, {"QUEUED"}, {"RUNNING"}, {"RUNNING", "CANCELING"}}
        BY <1>2 DEF Kinds, SaveLater, ScheduleSave, IsPending
    <2>3. missed' \in BOOLEAN BY <1>2 DEF Kinds, SaveLater
    <2> QED BY <2>1, <2>2, <2>3, UnlockTyped
<1> QED BY <1>1, <1>2

LEMMA Control_Set ==
    ASSUME Control, NEW t \in Threads, Set(t)
    PROVE  Control'
<1>1. Kinds' BY SaveLaterTyped DEF Control, Kinds, Set
<1>2. Places' BY <1>1, ThreadAssumption DEF Control, Kinds, Places, Place, Waits, MutexHeld, Inside, Set, SaveLater, BusyIsTrue, ScheduleSave, IsPending, Unlock, NextOwners, Locked, Threads
<1>3. WorkRuns' BY <1>1, ThreadAssumption DEF Control, Kinds, Places, Place, Waits, WorkRuns, Set, SaveLater, BusyIsTrue, ScheduleSave, IsPending, Unlock, NextOwners, Locked, Threads
<1>4. MutexHeld' BY <1>1, ThreadAssumption DEF Control, Kinds, Places, Place, Waits, MutexHeld, Inside, Set, SaveLater, BusyIsTrue, ScheduleSave, IsPending, Unlock, NextOwners, Locked, Threads
<1> QED BY <1>1, <1>2, <1>3, <1>4 DEF Control

LEMMA Control_Wake ==
    ASSUME Control, NEW t \in Threads, Wake(t)
    PROVE  Control'
<1>1. Kinds' BY SaveLaterTyped DEF Control, Kinds, Wake
<1>2. Places' BY <1>1, ThreadAssumption DEF Control, Kinds, Places, Place, Waits, MutexHeld, Inside, Wake, SaveLater, BusyIsTrue, ScheduleSave, IsPending, Unlock, NextOwners, Locked, Threads
<1>3. WorkRuns' BY <1>1, ThreadAssumption DEF Control, Kinds, Places, Place, Waits, WorkRuns, Wake, SaveLater, BusyIsTrue, ScheduleSave, IsPending, Unlock, NextOwners, Locked, Threads
<1>4. MutexHeld' BY <1>1, ThreadAssumption DEF Control, Kinds, Places, Place, Waits, MutexHeld, Inside, Wake, SaveLater, BusyIsTrue, ScheduleSave, IsPending, Unlock, NextOwners, Locked, Threads
<1> QED BY <1>1, <1>2, <1>3, <1>4 DEF Control

LEMMA Control_SaverCall ==
    ASSUME Control, NEW t \in Savers, NEW call \in SaverCalls, SaverCall(t, call)
    PROVE  Control'
<1>1. Kinds' BY ThreadAssumption DEF Control, Kinds, Places, Place, Waits, SaverCall, Threads
<1>2. Places' BY <1>1, ThreadAssumption DEF Control, Kinds, Places, Place, Waits, MutexHeld, Inside, SaverCall, Threads
<1>3. WorkRuns' BY <1>1, ThreadAssumption DEF Control, Kinds, Places, Place, Waits, WorkRuns, SaverCall, Threads
<1>4. MutexHeld' BY <1>1, ThreadAssumption DEF Control, Kinds, Places, Place, Waits, MutexHeld, Inside, SaverCall, Threads
<1> QED BY <1>1, <1>2, <1>3, <1>4 DEF Control

LEMMA Control_Now ==
    ASSUME Control, NEW t \in Threads, Now(t)
    PROVE  Control'
<1>1. Kinds' BY ThreadAssumption DEF Control, Kinds, Places, Place, Waits, Now, SaveNow, Cancel, IsPending, Threads
<1>2. Places' BY <1>1, ThreadAssumption DEF Control, Kinds, Places, Place, Waits, MutexHeld, Inside, Now, SaveNow, Cancel, IsPending, Threads
<1>3. WorkRuns' BY <1>1, ThreadAssumption DEF Control, Kinds, Places, Place, Waits, WorkRuns, Now, SaveNow, Cancel, IsPending, Threads
<1>4. MutexHeld' BY <1>1, ThreadAssumption DEF Control, Kinds, Places, Place, Waits, MutexHeld, Inside, Now, SaveNow, Cancel, IsPending, Threads
<1> QED BY <1>1, <1>2, <1>3, <1>4 DEF Control

LEMMA Control_Load ==
    ASSUME Control, NEW t \in Threads, Load(t)
    PROVE  Control'
<1>1. Kinds' BY ThreadAssumption DEF Control, Kinds, Places, Place, Waits, Load, SaveNow, Cancel, IsPending, Threads
<1>2. Places' BY <1>1, ThreadAssumption DEF Control, Kinds, Places, Place, Waits, MutexHeld, Inside, Load, SaveNow, Cancel, IsPending, Threads
<1>3. WorkRuns' BY <1>1, ThreadAssumption DEF Control, Kinds, Places, Place, Waits, WorkRuns, Load, SaveNow, Cancel, IsPending, Threads
<1>4. MutexHeld' BY <1>1, ThreadAssumption DEF Control, Kinds, Places, Place, Waits, MutexHeld, Inside, Load, SaveNow, Cancel, IsPending, Threads
<1> QED BY <1>1, <1>2, <1>3, <1>4 DEF Control

LEMMA Control_EndLoad ==
    ASSUME Control, NEW t \in Threads, EndLoad(t)
    PROVE  Control'
<1>1. Kinds' BY ThreadAssumption DEF Control, Kinds, Places, Place, Waits, EndLoad, Unlock, NextOwners, Locked, Threads
<1>2. Places' BY <1>1, ThreadAssumption DEF Control, Kinds, Places, Place, Waits, MutexHeld, Inside, EndLoad, Unlock, NextOwners, Locked, Threads
<1>3. WorkRuns' BY <1>1, ThreadAssumption DEF Control, Kinds, Places, Place, Waits, WorkRuns, EndLoad, Unlock, NextOwners, Locked, Threads
<1>4. MutexHeld' BY <1>1, ThreadAssumption DEF Control, Kinds, Places, Place, Waits, MutexHeld, Inside, EndLoad, Unlock, NextOwners, Locked, Threads
<1> QED BY <1>1, <1>2, <1>3, <1>4 DEF Control

LEMMA Control_Reset ==
    ASSUME Control, NEW t \in Threads, Reset(t)
    PROVE  Control'
<1>1. Kinds' BY ThreadAssumption DEF Control, Kinds, Places, Place, Waits, Reset, Threads
<1>2. Places' BY <1>1, ThreadAssumption DEF Control, Kinds, Places, Place, Waits, MutexHeld, Inside, Reset, Threads
<1>3. WorkRuns' BY <1>1, ThreadAssumption DEF Control, Kinds, Places, Place, Waits, WorkRuns, Reset, Threads
<1>4. MutexHeld' BY <1>1, ThreadAssumption DEF Control, Kinds, Places, Place, Waits, MutexHeld, Inside, Reset, Threads
<1> QED BY <1>1, <1>2, <1>3, <1>4 DEF Control

LEMMA Control_Build ==
    ASSUME Control, NEW t \in Threads, Build(t)
    PROVE  Control'
<1>1. Kinds'
    <2>1. snap' \in [Threads -> Nat] BY DEF Control, Kinds, Build
    <2>2. CASE \E ok \in BOOLEAN : Saved(t, ok)
        <3>1. PICK ok \in BOOLEAN : Saved(t, ok) BY <2>2
        <3>2. dirty' \in BOOLEAN /\ failed' \in BOOLEAN /\ missed' \in BOOLEAN /\ late' \in BOOLEAN
            BY <3>1 DEF Control, Kinds, Saved
        <3> QED BY <2>1, <3>1, <3>2, UnlockTyped DEF Control, Kinds, Build, Saved
    <2>3. CASE /\ pc' = [pc EXCEPT ![t] = "io"]
               /\ UNCHANGED <<owner, depth, waiting, dirty, failed, missed, late>>
        BY <2>1, <2>3 DEF Control, Kinds, Build
    <2> QED BY <2>2, <2>3 DEF Build
<1>2. Places' BY <1>1, ThreadAssumption DEF Control, Kinds, Places, Place, Waits, MutexHeld, Inside, Build, Saved, Unlock, NextOwners, Locked, Threads
<1>3. WorkRuns' BY <1>1, ThreadAssumption DEF Control, Kinds, Places, Place, Waits, WorkRuns, Build, Saved, Unlock, NextOwners, Locked, Threads
<1>4. MutexHeld' BY <1>1, ThreadAssumption DEF Control, Kinds, Places, Place, Waits, MutexHeld, Inside, Build, Saved, Unlock, NextOwners, Locked, Threads
<1> QED BY <1>1, <1>2, <1>3, <1>4 DEF Control

LEMMA Control_Written ==
    ASSUME Control, NEW t \in Threads, NEW ok \in BOOLEAN, Written(t, ok)
    PROVE  Control'
<1>1. Kinds' BY ThreadAssumption DEF Control, Kinds, Places, Place, Waits, Written, Saved, Unlock, NextOwners, Locked, Threads
<1>2. Places' BY <1>1, ThreadAssumption DEF Control, Kinds, Places, Place, Waits, MutexHeld, Inside, Written, Saved, Unlock, NextOwners, Locked, Threads
<1>3. WorkRuns' BY <1>1, ThreadAssumption DEF Control, Kinds, Places, Place, Waits, WorkRuns, Written, Saved, Unlock, NextOwners, Locked, Threads
<1>4. MutexHeld' BY <1>1, ThreadAssumption DEF Control, Kinds, Places, Place, Waits, MutexHeld, Inside, Written, Saved, Unlock, NextOwners, Locked, Threads
<1> QED BY <1>1, <1>2, <1>3, <1>4 DEF Control

LEMMA Control_SetErrorCode ==
    ASSUME Control, NEW t \in Threads, SetErrorCode(t)
    PROVE  Control'
<1>1. Kinds' BY ThreadAssumption DEF Control, Kinds, Places, Place, Waits, SetErrorCode, Unlock, NextOwners, Locked, Threads
<1>2. Places' BY <1>1, ThreadAssumption DEF Control, Kinds, Places, Place, Waits, MutexHeld, Inside, SetErrorCode, Unlock, NextOwners, Locked, Threads
<1>3. WorkRuns' BY <1>1, ThreadAssumption DEF Control, Kinds, Places, Place, Waits, WorkRuns, SetErrorCode, Unlock, NextOwners, Locked, Threads
<1>4. MutexHeld' BY <1>1, ThreadAssumption DEF Control, Kinds, Places, Place, Waits, MutexHeld, Inside, SetErrorCode, Unlock, NextOwners, Locked, Threads
<1> QED BY <1>1, <1>2, <1>3, <1>4 DEF Control

LEMMA Control_Expire ==
    ASSUME Control, Expire
    PROVE  Control'
<1>1. Kinds' BY ThreadAssumption DEF Control, Kinds, Places, Place, Waits, Expire, Threads
<1>2. Places' BY <1>1, ThreadAssumption DEF Control, Kinds, Places, Place, Waits, MutexHeld, Inside, Expire, Threads
<1>3. WorkRuns' BY <1>1, ThreadAssumption DEF Control, Kinds, Places, Place, Waits, WorkRuns, Expire, Threads
<1>4. MutexHeld' BY <1>1, ThreadAssumption DEF Control, Kinds, Places, Place, Waits, MutexHeld, Inside, Expire, Threads
<1> QED BY <1>1, <1>2, <1>3, <1>4 DEF Control

LEMMA Control_StartWork ==
    ASSUME Control, StartWork
    PROVE  Control'
<1>1. Kinds' BY ThreadAssumption DEF Control, Kinds, Places, Place, Waits, StartWork, Threads
<1>2. Places' BY <1>1, ThreadAssumption DEF Control, Kinds, Places, Place, Waits, MutexHeld, Inside, StartWork, Threads
<1>3. WorkRuns' BY <1>1, ThreadAssumption DEF Control, Kinds, Places, Place, Waits, WorkRuns, StartWork, Threads
<1>4. MutexHeld' BY <1>1, ThreadAssumption DEF Control, Kinds, Places, Place, Waits, MutexHeld, Inside, StartWork, Threads
<1> QED BY <1>1, <1>2, <1>3, <1>4 DEF Control

LEMMA Control_Step ==
    ASSUME Control, NEW t \in Threads, Step(t)
    PROVE  Control'
BY Control_Lock, Control_Set, Control_Wake, Control_Load, Control_EndLoad, Control_Reset,
   Control_Now, Control_Build, Control_Written, Control_SetErrorCode DEF Step

-----------------------------------------------------------------------------
(* Values on their way to the file.                                        *)
Due == {"now", "lock_save", "save"}

(* What is being written is no older than the file; it is older than RAM   *)
(* only if a factory reset has been, which is still to save.               *)
Writes(t) ==
    pc[t] = "io" =>
        /\ file <= snap[t] /\ snap[t] <= ram
        /\ \/ snap[t] = ram
           \/ late /\ \E u \in Savers \ {t} : pc[u] \in {"now", "lock_save"}

Versions == file <= ram /\ \A t \in Threads : Writes(t)

Values == Versions /\ LostOnlyIfMissed /\ CleanMeansSaved

(* While t writes the file, nobody else is past the lock of a save.        *)
LEMMA OneWriter ==
    ASSUME Control, NEW t \in Threads, pc[t] \in {"io", "save", "error", "set", "sleep", "load"},
           NEW u \in Threads \ {t}
    PROVE  pc[u] \notin {"io", "save", "error", "set", "sleep", "load"}
BY DEF Control, MutexHeld, Inside

LEMMA OneWriterNext ==
    ASSUME Control', NEW t \in Threads, pc'[t] = "io", NEW u \in Threads \ {t}
    PROVE  pc'[u] \notin {"io", "save"}
BY DEF Control, MutexHeld, Inside

(* A step that moves no value and forgets no save.                         *)
LEMMA ValuesStay ==
    ASSUME Control, Control', Values,
           UNCHANGED <<ram, file, snap, dirty, failed, late>>,
           SaveIsDue \/ missed => SaveIsDue' \/ missed',
           \A u \in Threads : /\ pc[u] \in Due => pc'[u] \in Due
                              /\ pc'[u] = "io" <=> pc[u] = "io"
    PROVE  Values'
<1>1. ASSUME NEW t \in Threads PROVE Writes(t)'
    <2> SUFFICES ASSUME pc'[t] = "io", snap[t] # ram
                 PROVE  late /\ \E u \in Savers \ {t} : pc'[u] \in {"now", "lock_save"}
        BY DEF Writes, Values, Versions
    <2>1. late BY DEF Values, Versions, Writes
    <2>2. PICK u \in Savers \ {t} : pc[u] \in {"now", "lock_save"}
        BY DEF Values, Versions, Writes
    <2> QED BY <2>1, <2>2, OneWriterNext DEF Due, Threads
<1>2. LostOnlyIfMissed' BY DEF Values, LostOnlyIfMissed
<1>3. CleanMeansSaved' BY DEF Values, CleanMeansSaved, WillSave, Due, Threads
<1> QED BY <1>1, <1>2, <1>3 DEF Values, Versions

(* k_mutex_unlock() moves no thread but t and the one that gets the mutex. *)
LEMMA UnlockMoves ==
    ASSUME Kinds, Places, NEW t \in Threads \ waiting, NEW next, Unlock(t, next)
    PROVE  /\ pc'[t] = next
           /\ \A u \in Threads \ {t} :
                 \/ pc'[u] = pc[u]
                 \/ pc[u] \in Locking /\ pc'[u] = Locked(pc[u])
BY DEF Kinds, Places, Waits, Unlock, NextOwners

(* In particular it delays no save and starts no write.                    *)
LEMMA UnlockKeeps ==
    ASSUME Kinds, Places, NEW t \in Threads \ waiting, NEW next, Unlock(t, next)
    PROVE  \A u \in Threads \ {t} : /\ pc[u] \in Due => pc'[u] \in Due
                                    /\ pc'[u] = "io" <=> pc[u] = "io"
                                    /\ pc'[u] = "sleep" <=> pc[u] = "sleep"
BY UnlockMoves DEF Locked, Due

LEMMA DueKept ==
    ASSUME UNCHANGED <<ram, snap>>, flags' = flags,
           \A u \in Threads : /\ pc[u] \in Due => pc'[u] \in Due
                              /\ pc[u] = "io" => pc'[u] = "io"
                              /\ pc[u] = "sleep" => pc'[u] = "sleep"
    PROVE  SaveIsDue => SaveIsDue'
BY DEF SaveIsDue, WillSave, Due

LEMMA Values_Lock ==
    ASSUME Control, Control', Values, NEW t \in Threads, Lock(t)
    PROVE  Values'
<1>1. \A u \in Threads : /\ pc[u] \in Due => pc'[u] \in Due
                         /\ pc'[u] = "io" <=> pc[u] = "io"
                         /\ pc[u] = "sleep" => pc'[u] = "sleep"
    BY DEF Lock, Control, Kinds, Locked, Due
<1>2. SaveIsDue => SaveIsDue' BY <1>1, DueKept DEF Lock
<1> QED BY <1>1, <1>2, ValuesStay DEF Lock

LEMMA Values_CallSet ==
    ASSUME Control, Control', Values, NEW t \in Setters, CallSet(t)
    PROVE  Values'
<1>1. \A u \in Threads : /\ pc[u] \in Due => pc'[u] \in Due
                         /\ pc'[u] = "io" <=> pc[u] = "io"
                         /\ pc[u] = "sleep" => pc'[u] = "sleep"
    BY DEF CallSet, Control, Kinds, Due
<1>2. SaveIsDue => SaveIsDue' BY <1>1, DueKept DEF CallSet
<1> QED BY <1>1, <1>2, ValuesStay DEF CallSet

LEMMA Values_SaverCall ==
    ASSUME Control, Control', Values, NEW t \in Savers, NEW call \in SaverCalls,
           SaverCall(t, call)
    PROVE  Values'
<1>1. \A u \in Threads : /\ pc[u] \in Due => pc'[u] \in Due
                         /\ pc'[u] = "io" <=> pc[u] = "io"
                         /\ pc[u] = "sleep" => pc'[u] = "sleep"
    BY ThreadAssumption DEF SaverCall, Control, Kinds, Due, Threads
<1>2. SaveIsDue => SaveIsDue' BY <1>1, DueKept DEF SaverCall
<1> QED BY <1>1, <1>2, ValuesStay DEF SaverCall

LEMMA Values_EndLoad ==
    ASSUME Control, Control', Values, NEW t \in Threads, EndLoad(t)
    PROVE  Values'
<1>1. t \notin waiting /\ Unlock(t, "idle") /\ pc[t] \in {"load", "load_end"}
    BY DEF EndLoad, Control, Places, Waits
<1>2. \A u \in Threads : /\ pc[u] \in Due => pc'[u] \in Due
                         /\ pc'[u] = "io" <=> pc[u] = "io"
                         /\ pc[u] = "sleep" => pc'[u] = "sleep"
    BY <1>1, UnlockKeeps, UnlockMoves DEF Control, Due
<1>3. SaveIsDue => SaveIsDue' BY <1>2, DueKept DEF EndLoad
<1> QED BY <1>2, <1>3, ValuesStay DEF EndLoad

LEMMA Values_SetErrorCode ==
    ASSUME Control, Control', Values, NEW t \in Threads, SetErrorCode(t)
    PROVE  Values'
<1>1. PICK next \in {"idle", "load_end"} : Unlock(t, next)
    BY DEF SetErrorCode
<1>2. t \notin waiting /\ pc[t] = "error"
    BY DEF SetErrorCode, Control, Places, Waits
<1>3. \A u \in Threads : /\ pc[u] \in Due => pc'[u] \in Due
                         /\ pc'[u] = "io" <=> pc[u] = "io"
                         /\ pc[u] = "sleep" => pc'[u] = "sleep"
    BY <1>1, <1>2, UnlockKeeps, UnlockMoves DEF Control, Due
<1>4. SaveIsDue => SaveIsDue'
    <2>1. flags \cap {"DELAYED", "QUEUED"} # {} => flags' \cap {"DELAYED", "QUEUED"} # {}
        BY DEF SetErrorCode
    <2> QED BY <1>3, <2>1 DEF SaveIsDue, WillSave, SetErrorCode, Due
<1> QED BY <1>3, <1>4, ValuesStay DEF SetErrorCode

LEMMA Values_Kernel ==
    ASSUME Control, Control', Values, Expire \/ StartWork
    PROVE  Values'
<1>1. CASE Expire
    <2>1. SaveIsDue' BY <1>1 DEF Expire, SaveIsDue
    <2> QED BY <1>1, <2>1, ValuesStay DEF Expire
<1>2. CASE StartWork
    <2>1. pc'[Worker] = "lock_save" /\ Worker \in Threads
        BY <1>2 DEF StartWork, Control, Kinds, Threads
    <2>2. SaveIsDue' BY <2>1 DEF SaveIsDue, WillSave
    <2>3. \A u \in Threads : /\ pc[u] \in Due => pc'[u] \in Due
                             /\ pc'[u] = "io" <=> pc[u] = "io"
        BY <1>2 DEF StartWork, Control, Kinds, Due
    <2> QED BY <1>2, <2>2, <2>3, ValuesStay DEF StartWork
<1> QED BY <1>1, <1>2

(* After SaveLater() a save is due, unless what runs was canceled.         *)
LEMMA SaveLaterSchedules ==
    ASSUME Control, NEW t \in Threads, pc[t] \in {"set", "sleep"}, SaveLater(t)
    PROVE  /\ SaveIsDue' \/ missed'
           /\ \A u \in Threads : /\ pc[u] \in Due => pc'[u] \in Due
                                 /\ pc'[u] = "io" <=> pc[u] = "io"
<1>1. CASE BusyIsTrue
    BY <1>1 DEF SaveLater, SaveIsDue, Control, Kinds, Due
<1>2. CASE ~BusyIsTrue
    <2>1. Unlock(t, "idle") /\ ScheduleSave /\ missed' = (missed \/ "CANCELING" \in flags)
        BY <1>2 DEF SaveLater
    <2>2. t \notin waiting BY DEF Control, Places, Waits
    <2>3. flags' \cap {"DELAYED", "QUEUED"} # {} \/ missed'
        BY <1>2, <2>1 DEF Control, Kinds, BusyIsTrue, ScheduleSave, IsPending
    <2> QED BY <2>1, <2>2, <2>3, UnlockKeeps, UnlockMoves DEF SaveIsDue, Control, Due
<1> QED BY <1>1, <1>2

LEMMA Values_Wake ==
    ASSUME Control, Control', Values, NEW t \in Threads, Wake(t)
    PROVE  Values'
BY SaveLaterSchedules, ValuesStay DEF Wake

LEMMA Values_Set ==
    ASSUME Control, Control', Values, NEW t \in Threads, Set(t)
    PROVE  Values'
<1>1. /\ SaveIsDue' \/ missed'
      /\ \A u \in Threads : pc'[u] = "io" <=> pc[u] = "io"
    BY SaveLaterSchedules DEF Set
<1>2. \A u \in Threads : pc[u] # "io"
    BY OneWriter DEF Set
<1>3. Versions'
    BY <1>1, <1>2 DEF Set, Values, Versions, Writes, Control, Kinds
<1> QED BY <1>1, <1>3 DEF Set, Values, LostOnlyIfMissed, CleanMeansSaved

LEMMA Values_Now ==
    ASSUME Control, Control', Values, NEW t \in Threads, Now(t)
    PROVE  Values'
<1>1. pc'[t] = "lock_save" /\ \A u \in Threads \ {t} : pc'[u] = pc[u]
    BY DEF Now, SaveNow, Control, Kinds
<1>2. SaveIsDue' BY <1>1 DEF SaveIsDue, WillSave
<1>3. ASSUME NEW u \in Threads PROVE Writes(u)'
    BY <1>1 DEF Now, SaveNow, Values, Versions, Writes
<1> QED BY <1>2, <1>3 DEF Now, SaveNow, Values, Versions, LostOnlyIfMissed, CleanMeansSaved

LEMMA Values_Load ==
    ASSUME Control, Control', Values, NEW t \in Threads, Load(t)
    PROVE  Values'
<1>1. pc'[t] = "lock_save" /\ \A u \in Threads \ {t} : pc'[u] = pc[u]
    BY DEF Load, SaveNow, Control, Kinds
<1>2. SaveIsDue' BY <1>1 DEF SaveIsDue, WillSave
<1>3. \A u \in Threads : pc'[u] # "io"
    BY <1>1, OneWriter DEF Load
<1> QED BY <1>2, <1>3
        DEF Load, SaveNow, Values, Versions, Writes, LostOnlyIfMissed, CleanMeansSaved, Control, Kinds

LEMMA Values_Reset ==
    ASSUME Control, Control', Values, NEW t \in Threads, Reset(t)
    PROVE  Values'
<1>1. /\ pc[t] = "reset" /\ t \in Savers /\ pc'[t] = "now"
      /\ \A u \in Threads \ {t} : pc'[u] = pc[u]
    BY ThreadAssumption DEF Reset, Control, Kinds, Places, Place, Threads
<1>2. SaveIsDue' /\ \E u \in Savers : WillSave(u)'
    BY <1>1 DEF SaveIsDue, WillSave
<1>3. ASSUME NEW u \in Threads PROVE Writes(u)'
    <2>1. CASE u = t BY <1>1, <2>1 DEF Writes
    <2>2. CASE u # t
        BY <1>1, <2>2 DEF Reset, Values, Versions, Writes, Control, Kinds
    <2> QED BY <2>1, <2>2
<1> QED BY <1>2, <1>3
        DEF Reset, Values, Versions, LostOnlyIfMissed, CleanMeansSaved, Control, Kinds

LEMMA Values_Build ==
    ASSUME Control, Control', Values, NEW t \in Threads, Build(t)
    PROVE  Values'
<1>1. /\ pc[t] = "save" /\ snap' = [snap EXCEPT ![t] = ram]
      /\ UNCHANGED <<ram, file, flags>>
    BY DEF Build
<1>2. \A u \in Threads \ {t} : pc[u] # "io" BY <1>1, OneWriter
<1>3. t \notin waiting BY <1>1 DEF Control, Places, Waits
<1>4. CASE file # ram /\ pc' = [pc EXCEPT ![t] = "io"]
           /\ UNCHANGED <<owner, depth, waiting, dirty, failed, missed, late>>
    <2>1. pc'[t] = "io" /\ snap'[t] = ram /\ \A u \in Threads \ {t} : pc'[u] = pc[u]
        BY <1>1, <1>4 DEF Control, Kinds
    <2>2. Versions' BY <1>1, <1>2, <2>1 DEF Values, Versions, Writes, Control, Kinds
    <2>3. SaveIsDue' BY <1>1, <2>1 DEF SaveIsDue, WillSave
    <2>4. \A u \in Threads : WillSave(u) => WillSave(u)'
        BY <1>1, <1>2, <2>1 DEF WillSave
    <2> QED BY <1>1, <1>4, <2>2, <2>3, <2>4
            DEF Values, LostOnlyIfMissed, CleanMeansSaved, Threads
<1>5. ASSUME NEW ok \in BOOLEAN, Saved(t, ok), ok => file = ram
      PROVE  Values'
    <2>1. /\ pc'[t] = "lock_error"
          /\ \A u \in Threads \ {t} : pc'[u] = "io" <=> pc[u] = "io"
        BY <1>3, <1>5, UnlockMoves, UnlockKeeps DEF Saved, Control
    <2>2. Versions' BY <1>1, <1>2, <2>1 DEF Values, Versions, Writes, Control, Kinds
    <2>3. CASE ok BY <1>1, <1>5, <2>2, <2>3 DEF Values, LostOnlyIfMissed, CleanMeansSaved
    <2>4. CASE ~ok
        BY <1>1, <1>5, <2>2, <2>4
           DEF Saved, Values, LostOnlyIfMissed, CleanMeansSaved, Control, Kinds
    <2> QED BY <2>3, <2>4
<1> QED BY <1>4, <1>5 DEF Build

LEMMA Values_Written ==
    ASSUME Control, Control', Values, NEW t \in Threads, NEW ok \in BOOLEAN, Written(t, ok)
    PROVE  Values' /\ file' >= file
<1>1. /\ pc[t] = "io" /\ file' = (IF ok THEN snap[t] ELSE file) /\ Saved(t, ok)
      /\ UNCHANGED <<ram, flags, snap>>
    BY DEF Written
<1>2. \A u \in Threads \ {t} : pc[u] # "io" BY <1>1, OneWriter
<1>3. t \notin waiting BY <1>1 DEF Control, Places, Waits
<1>4. /\ pc'[t] = "lock_error"
      /\ \A u \in Threads \ {t} : /\ pc'[u] = "io" <=> pc[u] = "io"
                                  /\ pc[u] \in Due => pc'[u] \in Due
    BY <1>1, <1>3, UnlockMoves, UnlockKeeps DEF Saved, Control
<1>5. file <= snap[t] /\ snap[t] <= ram BY <1>1 DEF Values, Versions, Writes
<1>6. file' >= file /\ file' <= ram
    BY <1>1, <1>5 DEF Values, Versions, Control, Kinds
<1>7. Versions' BY <1>1, <1>2, <1>4, <1>6 DEF Versions, Writes
<1>8. CASE ~ok
    BY <1>1, <1>7, <1>6, <1>8
       DEF Saved, Values, LostOnlyIfMissed, CleanMeansSaved, Control, Kinds
<1>9. CASE ok /\ snap[t] = ram
    BY <1>1, <1>7, <1>6, <1>9 DEF Values, LostOnlyIfMissed, CleanMeansSaved
<1>10. CASE ok /\ snap[t] # ram
    <2>1. late BY <1>1, <1>10 DEF Values, Versions, Writes
    <2>2. PICK u \in Savers \ {t} : pc[u] \in {"now", "lock_save"}
        BY <1>1, <1>10 DEF Values, Versions, Writes
    <2>3. WillSave(u)' /\ u \in Savers /\ u \in Threads
        BY <1>4, <2>2 DEF WillSave, Due, Threads
    <2>4. late' BY <1>1, <1>10, <2>1 DEF Saved
    <2> QED BY <1>6, <1>7, <2>3, <2>4 DEF Values, LostOnlyIfMissed, CleanMeansSaved, SaveIsDue
<1> QED BY <1>8, <1>9, <1>10

-----------------------------------------------------------------------------
(* The invariant and what follows.                                         *)
IInv == Control /\ Values

LEMMA IInv_Init == Init => IInv
<1> SUFFICES ASSUME Init PROVE IInv OBVIOUS
<1>1. Kinds
    <2>1. pc \in [Threads -> Locking \cup
                     {"idle", "set", "sleep", "load", "load_end", "reset",
                      "now", "save", "io", "error"}]
        BY DEF Init
    <2>2. calls \in [Threads -> Nat] /\ snap \in [Threads -> Nat] BY DEF Init
    <2>3. /\ \A t \in Setters : calls[t] <= MaxSets
          /\ \A t \in Savers : calls[t] <= MaxSaves
        BY ThreadAssumption DEF Init, Threads
    <2>4. /\ owner \in Threads \cup {NoThread} /\ waiting \subseteq Threads
          /\ loading \subseteq Savers /\ depth \in Nat /\ ram \in Nat /\ file \in Nat
          /\ flags = {}
        BY DEF Init
    <2>5. {dirty, failed, missed, late} \subseteq BOOLEAN BY DEF Init
    <2> QED BY <2>1, <2>2, <2>3, <2>4, <2>5 DEF Kinds
<1>2. Places BY DEF Init, Places, Place, Waits
<1>3. WorkRuns
    <2>1. Worker \in Threads BY DEF Threads
    <2> QED BY <2>1 DEF Init, WorkRuns
<1>4. MutexHeld BY ThreadAssumption DEF Init, MutexHeld, Inside
<1>5. Values BY DEF Init, Values, Versions, Writes, LostOnlyIfMissed, CleanMeansSaved
<1> QED BY <1>1, <1>2, <1>3, <1>4, <1>5 DEF IInv, Control

LEMMA IInv_Next ==
    ASSUME IInv, Next
    PROVE  IInv' /\ file' >= file
<1>0. file \in Nat /\ Control /\ Values BY DEF IInv, Control, Kinds
<1>1. ASSUME NEW t \in Setters, CallSet(t) PROVE IInv' /\ file' >= file
    <2>1. Control' BY <1>0, <1>1, Control_CallSet
    <2>2. Values' BY <1>0, <1>1, <2>1, Values_CallSet
    <2>3. file' >= file BY <1>0, <1>1 DEF CallSet
    <2> QED BY <2>1, <2>2, <2>3 DEF IInv
<1>2. ASSUME NEW t \in Savers, NEW call \in SaverCalls, SaverCall(t, call)
      PROVE  IInv' /\ file' >= file
    <2>1. Control' BY <1>0, <1>2, Control_SaverCall
    <2>2. Values' BY <1>0, <1>2, <2>1, Values_SaverCall
    <2>3. file' >= file BY <1>0, <1>2 DEF SaverCall
    <2> QED BY <2>1, <2>2, <2>3 DEF IInv
<1>3. ASSUME NEW t \in Threads, Step(t) PROVE IInv' /\ file' >= file
    <2>1. Control' BY <1>0, <1>3, Control_Step
    <2>2. ASSUME NEW ok \in BOOLEAN, Written(t, ok) PROVE Values' /\ file' >= file
        BY <1>0, <2>1, <2>2, Values_Written
    <2>3. CASE Lock(t) \/ Set(t) \/ Wake(t) \/ Load(t) \/ EndLoad(t) \/ Reset(t) \/ Now(t)
               \/ Build(t) \/ SetErrorCode(t)
        <3>1. file' = file
            BY <2>3 DEF Lock, Set, Wake, Load, SaveNow, EndLoad, Reset, Now, Build, SetErrorCode
        <3>2. Values'
            BY <1>0, <2>1, <2>3, Values_Lock, Values_Set, Values_Wake, Values_Load,
               Values_EndLoad, Values_Reset, Values_Now, Values_Build, Values_SetErrorCode
        <3>3. file' >= file BY <1>0, <3>1
        <3> QED BY <2>1, <3>2, <3>3 DEF IInv
    <2> QED BY <1>3, <2>1, <2>2, <2>3 DEF Step, IInv
<1>4. CASE Expire \/ StartWork
    BY <1>0, <1>4, Control_Expire, Control_StartWork, Values_Kernel DEF IInv, Expire, StartWork
<1> QED BY <1>1, <1>2, <1>3, <1>4 DEF Next

LEMMA IInv_Stutter == ASSUME IInv, UNCHANGED vars PROVE IInv'
BY DEF vars, IInv, Control, Kinds, Places, Place, Waits, WorkRuns, MutexHeld, Inside, Values,
       Versions, Writes, LostOnlyIfMissed, SaveIsDue, CleanMeansSaved, WillSave

(* The invariant the other theorems of this module follow from.            *)
THEOREM SaveInvariance == Spec => []IInv
<1>1. IInv /\ [Next]_vars => IInv' BY IInv_Next, IInv_Stutter
<1> QED BY IInv_Init, <1>1, PTL DEF Spec

(* The types; the mutex is never locked more than twice.                   *)
THEOREM SaveTypeCorrect == Spec => []TypeOK
<1>1. IInv => TypeOK
    BY DEF IInv, Control, Kinds, MutexHeld, TypeOK
<1> QED BY SaveInvariance, <1>1, PTL

(* attr_mutex, handed over and locked twice by a load that saves, has one  *)
(* thread inside and is unlocked as often as it was locked.                *)
THEOREM MutexIsExclusive == Spec => []MutexHeld
BY SaveInvariance, PTL DEF IInv, Control

(* A value that differs from the file has a save coming, or the last save  *)
(* failed, or the change met the save at once that had another canceled.   *)
THEOREM SavesAreDue == Spec => []LostOnlyIfMissed
BY SaveInvariance, PTL DEF IInv, Values

(* The application that is told that everything is saved can believe it,   *)
(* but for a factory reset.                                                *)
THEOREM CleanIsSaved == Spec => []CleanMeansSaved
BY SaveInvariance, PTL DEF IInv, Values

(* No save ever replaces a newer file by an older one.                     *)
THEOREM FileOnlyAdvances == Spec => FileNeverGoesBack
<1>1. IInv /\ [Next]_vars => [file' >= file]_vars
    BY IInv_Next
<1> QED BY SaveInvariance, <1>1, PTL DEF Spec, FileNeverGoesBack

(* Deadlock: the owner of the mutex goes on, unless it sleeps until the    *)
(* work is over; then the work goes on, unless it waits for that mutex.    *)
LEMMA Control_GoesOn == ASSUME Control PROVE SomeoneGoesOn
<1>1. CASE owner = NoThread
    <2>1. \A t \in Threads : t \notin waiting /\ pc[t] # "sleep"
        BY <1>1, ThreadAssumption DEF Control, Places, Waits, MutexHeld, Inside
    <2> QED BY <2>1 DEF SomeoneGoesOn, CanGoOn
<1>2. CASE owner # NoThread
    <2>1. owner \in Threads /\ owner \in Inside
        BY <1>2 DEF Control, MutexHeld, Inside
    <2>2. pc[owner] # "idle" /\ owner \notin waiting
        BY <2>1 DEF Control, Places, Place, Waits, Inside
    <2>3. CASE pc[owner] = "sleep" /\ BusyIsTrue
        <3>1. owner \in Setters
            BY <2>1, <2>3 DEF Control, Places, Place, Threads
        <3>2. Worker \in Threads /\ pc[Worker] # "idle"
            BY <2>3 DEF Control, WorkRuns, BusyIsTrue, Threads
        <3>3. pc[Worker] # "sleep"
            BY <3>2 DEF Control, Places, Place
        <3>4. CASE Worker \in waiting
            BY <3>1, <3>4, <2>3 DEF SomeoneGoesOn, WaitCycle, BusyIsTrue
        <3>5. CASE Worker \notin waiting
            BY <3>2, <3>3, <3>5 DEF SomeoneGoesOn, CanGoOn
        <3> QED BY <3>4, <3>5
    <2> QED BY <2>1, <2>2, <2>3 DEF SomeoneGoesOn, CanGoOn
<1> QED BY <1>1, <1>2

(* Whatever the threads do, the sleep that waits for the save that waits   *)
(* for the mutex is the only way for all of them to be stuck.              *)
THEOREM OneDeadlock == Spec => []SomeoneGoesOn
<1>1. IInv => SomeoneGoesOn BY Control_GoesOn DEF IInv
<1> QED BY SaveInvariance, <1>1, PTL

(* In the cycle the owner sleeps, so that nobody is inside; the others can *)
(* only start calls, wait for the mutex, or cancel the save.               *)
LEMMA Control_Cycle ==
    ASSUME Control, Next, WaitCycle, "CANCELING" \notin flags
    PROVE  WaitCycle'
<1>1. PICK t \in Setters : /\ pc[t] = "sleep" /\ owner = t
                          /\ Worker \in waiting /\ "RUNNING" \in flags
    BY DEF WaitCycle
<1>2. flags = {"RUNNING"} BY <1>1 DEF Control, Kinds
<1>3. t \in Threads /\ t # NoThread BY ThreadAssumption DEF Threads
<1>4. Inside \subseteq {t} BY <1>1 DEF Control, MutexHeld
<1>5. pc \in [Threads -> Locking \cup {"idle", "set", "sleep", "load", "load_end", "reset",
                                      "now", "save", "io", "error"}]
    BY DEF Control, Kinds
<1>6. \A u \in Threads :
        /\ pc[u] \notin {"set", "load", "load_end", "save", "io", "error"}
        /\ pc[u] = "sleep" => u = t
    BY <1>1, <1>4 DEF Inside
<1> DEFINE Stays == /\ pc'[t] = "sleep" /\ owner' = t
                    /\ Worker \in waiting' /\ "RUNNING" \in flags'
<1> SUFFICES Stays
    BY DEF WaitCycle
<1>7. ASSUME NEW u \in Setters, CallSet(u) PROVE Stays
    BY <1>1, <1>3, <1>5, <1>7 DEF CallSet
<1>8. ASSUME NEW u \in Savers, NEW call \in SaverCalls, SaverCall(u, call) PROVE Stays
    <2>1. u # t /\ UNCHANGED <<owner, waiting, flags>> BY <1>1, <1>8 DEF SaverCall
    <2>2. pc'[t] = pc[t] BY <1>3, <1>5, <1>8, <2>1 DEF SaverCall
    <2> QED BY <1>1, <2>1, <2>2
<1>9. ASSUME NEW u \in Threads, Step(u) PROVE Stays
    <2>1. CASE Lock(u) BY <1>1, <1>3, <1>5, <2>1 DEF Lock
    <2>2. CASE Wake(u) BY <1>1, <1>2, <1>3, <1>5, <1>6, <2>2 DEF Wake, SaveLater, BusyIsTrue
    <2>3. CASE Reset(u) BY <1>1, <1>3, <1>5, <2>3 DEF Reset
    <2>4. CASE Now(u) BY <1>1, <1>2, <1>3, <1>5, <2>4 DEF Now, SaveNow, Cancel, IsPending
    <2>5. ~(Set(u) \/ Load(u) \/ EndLoad(u) \/ Build(u) \/ SetErrorCode(u)
            \/ \E ok \in BOOLEAN : Written(u, ok))
        BY <1>6 DEF Set, Load, EndLoad, Build, SetErrorCode, Written
    <2> QED BY <1>9, <2>1, <2>2, <2>3, <2>4, <2>5 DEF Step
<1>10. ~Expire /\ ~StartWork BY <1>2 DEF Expire, StartWork
<1> QED BY <1>7, <1>8, <1>9, <1>10 DEF Next

(* Once in it, the two threads stay stuck until a save at once cancels the *)
(* running save: without one the sleep of attr.c:1428 never ends.          *)
THEOREM TheDeadlockLasts == Spec => OnlyCancelEndsCycle
<1>1. IInv /\ [Next]_vars => [WaitCycle /\ "CANCELING" \notin flags => WaitCycle']_vars
    BY Control_Cycle DEF IInv
<1> QED BY SaveInvariance, <1>1, PTL DEF Spec, OnlyCancelEndsCycle
==============================================================================
