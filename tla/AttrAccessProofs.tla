-------------------------- MODULE AttrAccessProofs --------------------------
(***************************************************************************)
(* Mutual exclusion and the balance of the scheduler's lock in AttrAccess, *)
(* the string that is copied without the mutex, no lost wakeup, and the    *)
(* refinement of AtomicValue, for any number of threads, priorities and    *)
(* calls. Nothing is assumed of the calls each thread makes.               *)
(***************************************************************************)
EXTENDS AttrAccess, TLAPS

(* The functions that reach each place.                                    *)
Calling(t) ==
    /\ pc[t] \in {"w1", "w2", "tell"} => op[t] \in {"init", "set"}
    /\ pc[t] \in {"d1", "d2"} => op[t] \in {"default", "reset"}
    /\ pc[t] = "try" => op[t] = "show"
    /\ pc[t] \in {"r1", "r2"} => op[t] \in {"get", "copy", "show"}
    /\ pc[t] \in {"spin", "lock", "wait", "sched_lock"} => op[t] \in {"init", "set", "get", "reset"}
    /\ pc[t] \in {"io", "blocked"} => op[t] \in {"init", "set", "reset", "show"}
    /\ pc[t] \in {"give", "sched_unlock"} => op[t] # "copy"

Callings == \A t \in Threads : Calling(t)

(* What a value half written or half read has in common with the memory,   *)
(* as long as no default met another access.                                 *)
Writing(t) == pc[t] = "w2" => buf[t][1] = buf[t][2] /\ (mixed \/ mem[1] = buf[t][1])
Resetting(t) == pc[t] = "d2" => mixed \/ mem[1] = 0
Reading(t) == pc[t] = "r2" /\ op[t] # "copy" => mixed \/ buf[t][1] = mem[1]
(* A getter's copy is whole but between its two words.                     *)
Taken(t) == op[t] \in {"get", "show"} /\ pc[t] # "r2" => mixed \/ Whole(buf[t])

AtRest == (\A t \in Threads : pc[t] \notin {"w2", "d2"}) => mixed \/ Whole(mem)

Memory ==
    /\ \A t \in Threads : Writing(t) /\ Resetting(t) /\ Reading(t)
    /\ AtRest
    /\ mixed \/ ~Meets

IInv ==
    /\ TypeOK
    /\ Callings
    /\ HolderIsInside
    /\ SchedBalance
    /\ HolderRunsAlone
    /\ Memory
    /\ \A t \in Threads : Taken(t)

(* TypeOK without what the kernel decides.                                 *)
Kinds ==
    /\ pc \in [Threads -> Places]
    /\ op \in [Threads -> Ops]
    /\ sched \in [Threads -> Int]
    /\ owner \in Threads \cup {NoThread}
    /\ attr_initialized \in BOOLEAN
    /\ mem \in [{1, 2} -> {0, 1}]
    /\ buf \in [Threads -> [{1, 2} -> {0, 1}]]
    /\ shows \in [Threads -> Nat]
    /\ calls \in [Threads -> Nat]
    /\ \A t \in Threads : calls[t] \in 0 .. MaxCalls[t]

Control == Kinds /\ Callings /\ HolderIsInside /\ SchedBalance

USE DEF Places, Ops, Go

-----------------------------------------------------------------------------
(* Control holds after each step of a thread, and of its devices.          *)
LEMMA Control_spin ==
    ASSUME Control, NEW t \in Threads, spin(t)
    PROVE  Control'
<1>1. Kinds' BY AccessAssumption DEF Control, Kinds, spin
<1>2. Callings'
    BY <1>1, AccessAssumption DEF Control, Kinds, Callings, Calling, spin
<1>3. HolderIsInside'
    BY <1>1, AccessAssumption DEF Control, Kinds, Callings, Calling, HolderIsInside, spin
<1>4. SchedBalance'
    BY <1>1, AccessAssumption DEF Control, Kinds, Callings, Calling, HolderIsInside, SchedBalance, Locked, spin
<1> QED BY <1>1, <1>2, <1>3, <1>4 DEF Control

LEMMA Control_k_mutex_lock ==
    ASSUME Control, NEW t \in Threads, k_mutex_lock(t)
    PROVE  Control'
<1>1. Kinds' BY AccessAssumption DEF Control, Kinds, k_mutex_lock
<1>2. Callings'
    BY <1>1, AccessAssumption DEF Control, Kinds, Callings, Calling, k_mutex_lock
<1>3. HolderIsInside'
    BY <1>1, AccessAssumption DEF Control, Kinds, Callings, Calling, HolderIsInside, k_mutex_lock
<1>4. SchedBalance'
    BY <1>1, AccessAssumption DEF Control, Kinds, Callings, Calling, HolderIsInside, SchedBalance, Locked, k_mutex_lock
<1> QED BY <1>1, <1>2, <1>3, <1>4 DEF Control

LEMMA Control_k_sched_lock ==
    ASSUME Control, NEW t \in Threads, k_sched_lock(t)
    PROVE  Control'
<1>1. Kinds' BY AccessAssumption DEF Control, Kinds, Callings, Calling, k_sched_lock, Body
<1>2. Callings'
    BY <1>1, AccessAssumption DEF Control, Kinds, Callings, Calling, k_sched_lock, Body
<1>3. HolderIsInside'
    BY <1>1, AccessAssumption DEF Control, Kinds, Callings, Calling, HolderIsInside, k_sched_lock, Body
<1>4. SchedBalance'
    BY <1>1, AccessAssumption DEF Control, Kinds, Callings, Calling, HolderIsInside, SchedBalance, Locked, k_sched_lock, Body
<1> QED BY <1>1, <1>2, <1>3, <1>4 DEF Control

LEMMA Control_k_mutex_unlock ==
    ASSUME Control, NEW t \in Threads, k_mutex_unlock(t)
    PROVE  Control'
<1>1. Kinds' BY AccessAssumption DEF Control, Kinds, k_mutex_unlock, Waiting
<1>2. Callings'
    BY <1>1, AccessAssumption DEF Control, Kinds, Callings, Calling, k_mutex_unlock, Waiting
<1>3. HolderIsInside'
    BY <1>1, AccessAssumption DEF Control, Kinds, Callings, Calling, HolderIsInside, k_mutex_unlock, Waiting
<1>4. SchedBalance'
    BY <1>1, AccessAssumption DEF Control, Kinds, Callings, Calling, HolderIsInside, SchedBalance, Locked, k_mutex_unlock, Waiting
<1> QED BY <1>1, <1>2, <1>3, <1>4 DEF Control

LEMMA Control_k_sched_unlock ==
    ASSUME Control, NEW t \in Threads, k_sched_unlock(t)
    PROVE  Control'
<1>1. Kinds' BY AccessAssumption DEF Control, Kinds, k_sched_unlock
<1>2. Callings'
    BY <1>1, AccessAssumption DEF Control, Kinds, Callings, Calling, k_sched_unlock
<1>3. HolderIsInside'
    BY <1>1, AccessAssumption DEF Control, Kinds, Callings, Calling, HolderIsInside, k_sched_unlock
<1>4. SchedBalance'
    BY <1>1, AccessAssumption DEF Control, Kinds, Callings, Calling, HolderIsInside, SchedBalance, Locked, k_sched_unlock
<1> QED BY <1>1, <1>2, <1>3, <1>4 DEF Control

LEMMA Control_write ==
    ASSUME Control, NEW t \in Threads, write(t)
    PROVE  Control'
<1>a. pc' \in [Threads -> Places] BY DEF Control, Kinds, write
<1>b. mem' \in [{1, 2} -> {0, 1}] /\ buf' \in [Threads -> [{1, 2} -> {0, 1}]]
    <2>1. CASE pc[t] = "w1"
        <3>1. PICK v \in {0, 1} : /\ mem' = [mem EXCEPT ![1] = v]
                                 /\ buf' = [buf EXCEPT ![t] = [k \in {1, 2} |-> v]]
            BY <2>1 DEF write
        <3> QED BY <3>1 DEF Control, Kinds
    <2>2. CASE pc[t] = "w2" BY <2>2 DEF Control, Kinds, write
    <2> QED BY <2>1, <2>2 DEF write
<1>1. Kinds' BY <1>a, <1>b DEF Control, Kinds, write
<1>2. Callings'
    BY <1>1, AccessAssumption DEF Control, Kinds, Callings, Calling, write
<1>3. HolderIsInside'
    BY <1>1, AccessAssumption DEF Control, Kinds, Callings, Calling, HolderIsInside, write
<1>4. SchedBalance'
    BY <1>1, AccessAssumption DEF Control, Kinds, Callings, Calling, HolderIsInside, SchedBalance, Locked, write
<1> QED BY <1>1, <1>2, <1>3, <1>4 DEF Control

LEMMA Control_copy_default ==
    ASSUME Control, NEW t \in Threads, copy_default(t)
    PROVE  Control'
<1>1. Kinds' BY AccessAssumption DEF Control, Kinds, copy_default, AfterDefaults
<1>2. Callings'
    BY <1>1, AccessAssumption DEF Control, Kinds, Callings, Calling, copy_default, AfterDefaults
<1>3. HolderIsInside'
    BY <1>1, AccessAssumption DEF Control, Kinds, Callings, Calling, HolderIsInside, copy_default, AfterDefaults
<1>4. SchedBalance'
    BY <1>1, AccessAssumption DEF Control, Kinds, Callings, Calling, HolderIsInside, SchedBalance, Locked, copy_default, AfterDefaults
<1> QED BY <1>1, <1>2, <1>3, <1>4 DEF Control

LEMMA Control_read ==
    ASSUME Control, NEW t \in Threads, read(t)
    PROVE  Control'
<1>a. pc' \in [Threads -> Places]
    BY DEF Control, Kinds, Callings, Calling, read, AfterRead
<1>b. buf' \in [Threads -> [{1, 2} -> {0, 1}]]
    <2>1. \A k \in {1, 2} : [buf[t] EXCEPT ![k] = mem[k]] \in [{1, 2} -> {0, 1}]
        BY DEF Control, Kinds
    <2>2. PICK k \in {1, 2} : buf' = [buf EXCEPT ![t] = [buf[t] EXCEPT ![k] = mem[k]]]
        BY DEF Control, Kinds, read
    <2> QED BY <2>1, <2>2 DEF Control, Kinds
<1>1. Kinds' BY <1>a, <1>b DEF Control, Kinds, read
<1>2. Callings'
    BY <1>1, AccessAssumption DEF Control, Kinds, Callings, Calling, read, AfterRead
<1>3. HolderIsInside'
    BY <1>1, AccessAssumption DEF Control, Kinds, Callings, Calling, HolderIsInside, read, AfterRead
<1>4. SchedBalance'
    BY <1>1, AccessAssumption DEF Control, Kinds, Callings, Calling, HolderIsInside, SchedBalance, Locked, read, AfterRead
<1> QED BY <1>1, <1>2, <1>3, <1>4 DEF Control

LEMMA Control_io ==
    ASSUME Control, NEW t \in Threads, io(t)
    PROVE  Control'
<1>1. Kinds' BY AccessAssumption DEF Control, Kinds, io, AfterIo
<1>2. Callings'
    BY <1>1, AccessAssumption DEF Control, Kinds, Callings, Calling, io, AfterIo
<1>3. HolderIsInside'
    BY <1>1, AccessAssumption DEF Control, Kinds, Callings, Calling, HolderIsInside, io, AfterIo
<1>4. SchedBalance'
    BY <1>1, AccessAssumption DEF Control, Kinds, Callings, Calling, HolderIsInside, SchedBalance, Locked, io, AfterIo
<1> QED BY <1>1, <1>2, <1>3, <1>4 DEF Control

LEMMA Control_tell ==
    ASSUME Control, NEW t \in Threads, tell(t)
    PROVE  Control'
<1>1. Kinds' BY AccessAssumption DEF Control, Kinds, tell
<1>2. Callings'
    BY <1>1, AccessAssumption DEF Control, Kinds, Callings, Calling, tell
<1>3. HolderIsInside'
    BY <1>1, AccessAssumption DEF Control, Kinds, Callings, Calling, HolderIsInside, tell
<1>4. SchedBalance'
    BY <1>1, AccessAssumption DEF Control, Kinds, Callings, Calling, HolderIsInside, SchedBalance, Locked, tell
<1> QED BY <1>1, <1>2, <1>3, <1>4 DEF Control

LEMMA Control_attr_show ==
    ASSUME Control, NEW t \in Threads, attr_show(t)
    PROVE  Control'
<1>1. Kinds' BY AccessAssumption DEF Control, Kinds, attr_show
<1>2. Callings'
    BY <1>1, AccessAssumption DEF Control, Kinds, Callings, Calling, attr_show
<1>3. HolderIsInside'
    BY <1>1, AccessAssumption DEF Control, Kinds, Callings, Calling, HolderIsInside, attr_show
<1>4. SchedBalance'
    BY <1>1, AccessAssumption DEF Control, Kinds, Callings, Calling, HolderIsInside, SchedBalance, Locked, attr_show
<1> QED BY <1>1, <1>2, <1>3, <1>4 DEF Control

LEMMA Control_IoDone ==
    ASSUME Control, NEW t \in Threads, IoDone(t)
    PROVE  Control'
<1>1. Kinds' BY AccessAssumption DEF Control, Kinds, IoDone, AfterIo
<1>2. Callings'
    BY <1>1, AccessAssumption DEF Control, Kinds, Callings, Calling, IoDone, AfterIo
<1>3. HolderIsInside'
    BY <1>1, AccessAssumption DEF Control, Kinds, Callings, Calling, HolderIsInside, IoDone, AfterIo
<1>4. SchedBalance'
    BY <1>1, AccessAssumption DEF Control, Kinds, Callings, Calling, HolderIsInside, SchedBalance, Locked, IoDone, AfterIo
<1> QED BY <1>1, <1>2, <1>3, <1>4 DEF Control

LEMMA Control_Call ==
    ASSUME Control, NEW t \in Threads, NEW o \in Calls[t], Call(t, o)
    PROVE  Control'
<1>1. o \in Ops \ {"init"} BY AccessAssumption
<1>2. Kinds'
    <2>1. pc' \in [Threads -> Places] BY <1>1 DEF Control, Kinds, Call, First
    <2>2. op' \in [Threads -> Ops] BY <1>1 DEF Control, Kinds, Call
    <2>3. buf' \in [Threads -> [{1, 2} -> {0, 1}]] BY DEF Control, Kinds, Call, Zero
    <2>4. calls' \in [Threads -> Nat] BY DEF Control, Kinds, Call
    <2>5. ASSUME NEW u \in Threads PROVE calls'[u] \in 0 .. MaxCalls[u]
        <3>1. MaxCalls[u] \in Nat /\ calls[u] \in 0 .. MaxCalls[u]
            BY AccessAssumption DEF Control, Kinds
        <3>2. calls'[u] = IF u = t THEN calls[u] + 1 ELSE calls[u]
            BY DEF Control, Kinds, Call
        <3> QED BY <3>1, <3>2 DEF Call
    <2> QED BY <2>1, <2>2, <2>3, <2>4, <2>5 DEF Control, Kinds, Call
<1>3. Callings' BY <1>1, <1>2 DEF Control, Kinds, Callings, Calling, Call, First
<1>4. HolderIsInside'
    BY <1>1, <1>2 DEF Control, Kinds, Callings, Calling, HolderIsInside, Call, First
<1>5. SchedBalance'
    BY <1>1, <1>2 DEF Control, Kinds, Callings, Calling, SchedBalance, Locked, Call, First
<1> QED BY <1>2, <1>3, <1>4, <1>5 DEF Control

LEMMA Control_Step ==
    ASSUME Control, NEW t \in Threads, Step(t)
    PROVE  Control'
BY Control_spin, Control_k_mutex_lock, Control_k_sched_lock, Control_k_mutex_unlock,
   Control_k_sched_unlock, Control_write, Control_copy_default, Control_read,
   Control_io, Control_tell, Control_attr_show
   DEF Step

-----------------------------------------------------------------------------
(* The kernel dispatches one of the threads, and goes on with the running  *)
(* one as long as it is not preemptible and does not wait.                 *)
LEMMA DispatchTyped ==
    ASSUME running \in Threads \cup {NoThread}, Dispatch
    PROVE  running' \in Threads \cup {NoThread}
BY DEF Dispatch, MostUrgent, Ready

LEMMA YieldTyped ==
    ASSUME NEW t \in Threads, Yield(t)
    PROVE  running' \in Threads
BY DEF Yield, Ready

LEMMA GoesOnRunning ==
    ASSUME running \in Threads, Dispatch,
           pc'[running] \notin {"idle", "wait", "blocked"}, sched'[running] # 0
    PROVE  running' = running
BY DEF Dispatch, GoesOn, Ready

(* A step of t leaves the other threads where they are, but for the waiter *)
(* that gets the mutex.                                                    *)
LEMMA OthersStay ==
    ASSUME Control, NEW t \in Threads, Step(t) \/ IoDone(t) \/ \E o \in Calls[t] : Call(t, o),
           NEW u \in Threads \ {t}
    PROVE  /\ pc'[u] = pc[u] \/ pc'[u] = "sched_lock"
           /\ op'[u] = op[u] /\ sched'[u] = sched[u] /\ shows'[u] = shows[u]
           /\ buf'[u] = buf[u]
<1>1. CASE spin(t) BY <1>1 DEF Control, Kinds, spin
<1>2. CASE k_mutex_lock(t) BY <1>2 DEF Control, Kinds, k_mutex_lock
<1>3. CASE k_sched_lock(t) BY <1>3 DEF Control, Kinds, k_sched_lock, Body
<1>4. CASE k_mutex_unlock(t) BY <1>4 DEF Control, Kinds, k_mutex_unlock, Waiting
<1>5. CASE k_sched_unlock(t) BY <1>5 DEF Control, Kinds, k_sched_unlock
<1>6. CASE write(t) BY <1>6 DEF Control, Kinds, write
<1>7. CASE copy_default(t) BY <1>7 DEF Control, Kinds, copy_default, AfterDefaults
<1>8. CASE read(t) BY <1>8 DEF Control, Kinds, read, AfterRead
<1>9. CASE io(t) BY <1>9 DEF Control, Kinds, io, AfterIo
<1>10. CASE tell(t) BY <1>10 DEF Control, Kinds, tell
<1>11. CASE attr_show(t) BY <1>11 DEF Control, Kinds, attr_show
<1>12. CASE IoDone(t) BY <1>12 DEF Control, Kinds, IoDone, AfterIo
<1>13. CASE \E o \in Calls[t] : Call(t, o) BY <1>13 DEF Control, Kinds, Call, First
<1> QED BY <1>1, <1>2, <1>3, <1>4, <1>5, <1>6, <1>7, <1>8, <1>9, <1>10, <1>11, <1>12, <1>13
        DEF Step

(* A thread that is in the middle of a locked access, and not preemptible. *)
Alone(u) ==
    /\ owner = u /\ op[u] # "show" /\ shows[u] # 1
    /\ \/ pc[u] \in {"w1", "w2", "r1", "r2"}
       \/ pc[u] = "give" /\ op[u] # "reset"

LEMMA AloneRuns == HolderRunsAlone <=> \A u \in Threads : Alone(u) => running = u
BY DEF HolderRunsAlone, Alone

LEMMA AloneIsLockedNext ==
    ASSUME Control', NEW u \in Threads, Alone(u)'
    PROVE  sched'[u] # 0 /\ pc'[u] \notin {"idle", "wait", "blocked"}
BY DEF Control, Kinds, Callings, Calling, HolderIsInside, SchedBalance, Locked, Alone

LEMMA AloneBefore ==
    ASSUME Control, NEW t \in Threads, Step(t) \/ IoDone(t) \/ \E o \in Calls[t] : Call(t, o),
           NEW u \in Threads \ {t}, Control', Alone(u)'
    PROVE  Alone(u)
<1>1. pc'[u] = pc[u] /\ op'[u] = op[u] /\ shows'[u] = shows[u]
    BY OthersStay DEF Alone
<1>2. owner = u
    BY <1>1 DEF Control, HolderIsInside, Alone
<1> QED BY <1>1, <1>2 DEF Alone

LEMMA RunsAlone_Run ==
    ASSUME Control, HolderRunsAlone, NEW t \in Threads, Run(t), Control'
    PROVE  HolderRunsAlone'
<1> SUFFICES ASSUME NEW u \in Threads, Alone(u)' PROVE running' = u
    BY DEF HolderRunsAlone, Alone
<1>1. CASE k_yield(t)
    <2>1. Alone(u) BY <1>1 DEF k_yield, Alone
    <2>2. running = u BY <2>1, AloneRuns
    <2> QED BY <1>1, <2>1, <2>2 DEF Run, k_yield, Alone
<1>2. CASE Step(t) /\ Scheduled
    <2>1. running = u
        <3>1. CASE u = t BY <3>1 DEF Run
        <3>2. CASE u # t BY <3>2, <1>2, AloneBefore, AloneRuns
        <3> QED BY <3>1, <3>2
    <2>2. sched'[u] # 0 /\ pc'[u] \notin {"idle", "wait", "blocked"}
        BY AloneIsLockedNext
    <2> QED BY <1>2, <2>1, <2>2, GoesOnRunning DEF Scheduled
<1> QED BY <1>1, <1>2 DEF Run

LEMMA RunsAlone_Other ==
    ASSUME Control, HolderRunsAlone, NEW t \in Threads, Answer(t) \/ Woken(t), Control'
    PROVE  HolderRunsAlone'
<1> SUFFICES ASSUME NEW u \in Threads, Alone(u)' PROVE running' = u
    BY DEF HolderRunsAlone, Alone
<1>1. u # t
    <2>1. CASE Answer(t)
        BY <2>1 DEF Answer, IoDone, AfterIo, Control, Kinds, Callings, Calling, Alone
    <2>2. CASE Woken(t)
        <3>1. PICK o \in Calls[t] : Call(t, o) BY <2>2 DEF Woken
        <3>2. o \in Ops \ {"init"} BY AccessAssumption
        <3>3. pc[t] = "idle" /\ owner' = owner BY <3>1 DEF Call
        <3>4. owner # t BY <3>3 DEF Control, HolderIsInside
        <3> QED BY <3>3, <3>4 DEF Alone
    <2> QED BY <2>1, <2>2
<1>2. running = u
    BY <1>1, AloneBefore, AloneRuns DEF Answer, Woken
<1>3. sched'[u] # 0 /\ pc'[u] \notin {"idle", "wait", "blocked"}
    BY AloneIsLockedNext
<1> QED BY <1>2, <1>3, GoesOnRunning DEF Answer, Woken, Scheduled

-----------------------------------------------------------------------------
(* What is read under the mutex is whole: the writers hold it too, and a   *)
(* reset that is half way has met whoever is half way.                     *)
LEMMA MixedGrows ==
    ASSUME Scheduled, mixed \in BOOLEAN
    PROVE  mixed' \in BOOLEAN /\ (mixed => mixed') /\ (mixed' \/ ~Meets')
BY DEF Scheduled

(* The places at which the memory matters.                                 *)
Access == {"w2", "r2", "d2"}

LEMMA MemoryUntouched ==
    ASSUME Kinds, Kinds', mixed \in BOOLEAN, Memory, Scheduled, mem' = mem,
           \A u \in Threads : /\ pc[u] \in {"w2", "d2"} => pc'[u] = pc[u]
                              /\ pc'[u] \in Access => /\ pc'[u] = pc[u]
                                                      /\ op'[u] = op[u]
                                                      /\ buf'[u] = buf[u]
    PROVE  Memory'
<1>1. mixed' \in BOOLEAN /\ (mixed => mixed') /\ (mixed' \/ ~Meets') BY MixedGrows
<1>2. \A u \in Threads : Writing(u)' /\ Resetting(u)' /\ Reading(u)'
    BY <1>1 DEF Memory, Writing, Resetting, Reading, Access
<1>3. AtRest'
    BY <1>1 DEF Memory, AtRest, Whole, Access
<1> QED BY <1>1, <1>2, <1>3 DEF Memory

LEMMA Memory_Elsewhere ==
    ASSUME Control, Control', mixed \in BOOLEAN, Memory, Scheduled, NEW t \in Threads,
           \/ spin(t) \/ k_mutex_lock(t) \/ k_sched_lock(t) \/ k_mutex_unlock(t)
           \/ k_sched_unlock(t) \/ io(t) \/ IoDone(t) \/ tell(t) \/ attr_show(t)
           \/ \E o \in Calls[t] : Call(t, o)
    PROVE  Memory'
<1>0. Kinds /\ Kinds' BY DEF Control
<1>1. CASE spin(t)
    BY <1>0, <1>1, MemoryUntouched DEF Control, Kinds, Callings, Calling, Access, spin
<1>2. CASE k_mutex_lock(t)
    BY <1>0, <1>2, MemoryUntouched DEF Control, Kinds, Callings, Calling, Access, k_mutex_lock
<1>3. CASE k_sched_lock(t)
    BY <1>0, <1>3, MemoryUntouched DEF Control, Kinds, Callings, Calling, Access, k_sched_lock, Body
<1>4. CASE k_mutex_unlock(t)
    <2>1. mem' = mem /\ op' = op /\ buf' = buf BY <1>4 DEF k_mutex_unlock
    <2>2. \A u \in Threads : \/ pc'[u] = pc[u]
                             \/ /\ pc[u] \notin {"w2", "d2"}
                                /\ pc'[u] \in {"sched_lock", "sched_unlock"}
        BY <1>0, <1>4 DEF Kinds, k_mutex_unlock, Waiting
    <2> QED BY <1>0, <2>1, <2>2, MemoryUntouched DEF Access
<1>5. CASE k_sched_unlock(t)
    BY <1>0, <1>5, MemoryUntouched DEF Control, Kinds, Callings, Calling, Access, k_sched_unlock
<1>6. CASE io(t)
    BY <1>0, <1>6, MemoryUntouched DEF Control, Kinds, Callings, Calling, Access, io, AfterIo
<1>7. CASE tell(t)
    BY <1>0, <1>7, MemoryUntouched DEF Control, Kinds, Callings, Calling, Access, tell
<1>8. CASE attr_show(t)
    BY <1>0, <1>8, MemoryUntouched DEF Control, Kinds, Callings, Calling, Access, attr_show
<1>9. CASE IoDone(t)
    BY <1>0, <1>9, MemoryUntouched DEF Control, Kinds, Callings, Calling, Access, IoDone, AfterIo
<1>10. CASE \E o \in Calls[t] : Call(t, o)
    <2>1. PICK o \in Calls[t] : Call(t, o) BY <1>10
    <2>2. o \in Ops \ {"init"} BY AccessAssumption
    <2> QED BY <1>0, <2>1, <2>2, MemoryUntouched DEF Kinds, Access, Call, First
<1> QED BY <1>1, <1>2, <1>3, <1>4, <1>5, <1>6, <1>7, <1>8, <1>9, <1>10

LEMMA Memory_read ==
    ASSUME Control, Control', mixed \in BOOLEAN, Memory, Scheduled, NEW t \in Threads, read(t)
    PROVE  Memory'
<1>0. Kinds /\ Kinds' BY DEF Control
<1>1. mixed' \in BOOLEAN /\ (mixed => mixed') /\ (mixed' \/ ~Meets') BY MixedGrows
<1>2. mem' = mem /\ op' = op BY DEF read
<1>3. ASSUME NEW u \in Threads PROVE Writing(u)' /\ Resetting(u)' /\ Reading(u)'
    <2>1. CASE u = t
        BY <1>0, <1>1, <1>2, <2>1
           DEF Memory, Kinds, Control, Callings, Calling, Writing, Resetting, Reading, read, AfterRead
    <2>2. CASE u # t
        <3>1. pc'[u] = pc[u] /\ buf'[u] = buf[u] BY <1>0, <2>2 DEF Kinds, read
        <3> QED BY <3>1, <1>1, <1>2 DEF Memory, Writing, Resetting, Reading
    <2> QED BY <2>1, <2>2
<1>4. AtRest'
    <2>1. \A u \in Threads : pc[u] \in {"w2", "d2"} => pc'[u] = pc[u]
        BY <1>0 DEF Kinds, read
    <2> QED BY <1>1, <1>2, <2>1 DEF Memory, AtRest, Whole
<1> QED BY <1>1, <1>3, <1>4 DEF Memory

LEMMA Memory_write ==
    ASSUME Control, Control', mixed \in BOOLEAN, Memory, Scheduled, NEW t \in Threads, write(t)
    PROVE  Memory'
<1>0. Kinds /\ Kinds' BY DEF Control
<1>1. mixed' \in BOOLEAN /\ (mixed => mixed') /\ (mixed' \/ ~Meets') BY MixedGrows
<1>2. op' = op BY DEF write
<1>3. /\ owner = t
      /\ \A u \in Threads \ {t} : pc[u] # "w2" /\ (pc[u] = "r2" => op[u] = "copy")
    BY <1>0 DEF Kinds, Control, HolderIsInside, write
<1>4. \A u \in Threads \ {t} : pc'[u] = pc[u] /\ buf'[u] = buf[u]
    BY <1>0 DEF Kinds, write
<1>5. CASE pc[t] = "w1"
    <2>1. pc'[t] = "w2" BY <1>0, <1>5 DEF Kinds, write
    <2>2. PICK v \in {0, 1} : /\ mem' = [mem EXCEPT ![1] = v]
                             /\ buf' = [buf EXCEPT ![t] = [k \in {1, 2} |-> v]]
        BY <1>5 DEF write
    <2>3. mem'[1] = v /\ buf'[t][1] = v /\ buf'[t][2] = v BY <1>0, <2>2 DEF Kinds
    <2>4. mixed' \/ \A u \in Threads : pc[u] # "d2"
        <3>1. SUFFICES ASSUME NEW u \in Threads, pc[u] = "d2" PROVE Meets'
            BY <1>1
        <3>2. u # t /\ pc'[u] = "d2" BY <3>1, <1>4, <1>5
        <3> QED BY <2>1, <3>2 DEF Meets
    <2>5. ASSUME NEW u \in Threads PROVE Writing(u)' /\ Resetting(u)' /\ Reading(u)'
        <3>1. CASE u = t BY <3>1, <2>1, <2>3 DEF Writing, Resetting, Reading
        <3>2. CASE u # t BY <3>2, <1>2, <1>3, <1>4, <2>4 DEF Writing, Resetting, Reading
        <3> QED BY <3>1, <3>2
    <2> QED BY <1>1, <2>1, <2>5 DEF Memory, AtRest
<1>6. CASE pc[t] = "w2"
    <2>1. pc'[t] = "io" /\ buf' = buf /\ mem' = [mem EXCEPT ![2] = buf[t][2]]
        BY <1>0, <1>6 DEF Kinds, write
    <2>2. mem'[1] = mem[1] /\ mem'[2] = buf[t][2] BY <1>0, <2>1 DEF Kinds
    <2>3. mixed \/ mem[1] = buf[t][2] BY <1>6 DEF Memory, Writing
    <2>4. ASSUME NEW u \in Threads PROVE Writing(u)' /\ Resetting(u)' /\ Reading(u)'
        <3>1. CASE u = t BY <3>1, <2>1 DEF Writing, Resetting, Reading
        <3>2. CASE u # t
            BY <3>2, <1>1, <1>2, <1>3, <1>4, <2>2 DEF Memory, Writing, Resetting, Reading
        <3> QED BY <3>1, <3>2
    <2>5. AtRest' BY <1>1, <2>2, <2>3 DEF AtRest, Whole
    <2> QED BY <1>1, <2>4, <2>5 DEF Memory
<1> QED BY <1>5, <1>6 DEF write

LEMMA Memory_copy_default ==
    ASSUME Control, Control', mixed \in BOOLEAN, Memory, Scheduled, NEW t \in Threads,
           copy_default(t)
    PROVE  Memory'
<1>0. Kinds /\ Kinds' BY DEF Control
<1>1. mixed' \in BOOLEAN /\ (mixed => mixed') /\ (mixed' \/ ~Meets') BY MixedGrows
<1>2. op' = op /\ buf' = buf BY DEF copy_default
<1>3. \A u \in Threads \ {t} : pc'[u] = pc[u] BY <1>0 DEF Kinds, copy_default
<1>4. CASE pc[t] = "d1"
    <2>1. pc'[t] = "d2" /\ mem' = [mem EXCEPT ![1] = 0]
        BY <1>0, <1>4 DEF Kinds, copy_default
    <2>2. mem'[1] = 0 BY <1>0, <2>1 DEF Kinds
    <2>3. mixed' \/ \A u \in Threads \ {t} : pc'[u] \notin {"w2", "r2", "d2"}
        BY <1>1, <2>1 DEF Meets
    <2>4. ASSUME NEW u \in Threads PROVE Writing(u)' /\ Resetting(u)' /\ Reading(u)'
        <3>1. CASE u = t BY <3>1, <2>1, <2>2 DEF Writing, Resetting, Reading
        <3>2. CASE u # t
            BY <3>2, <1>2, <1>3, <2>2, <2>3 DEF Memory, Writing, Resetting, Reading
        <3> QED BY <3>1, <3>2
    <2> QED BY <1>1, <2>1, <2>4 DEF Memory, AtRest
<1>5. CASE pc[t] = "d2"
    <2>1. pc'[t] \in {"spin", "idle"} /\ mem' = [mem EXCEPT ![2] = 0]
        BY <1>0, <1>5 DEF Kinds, copy_default, AfterDefaults
    <2>2. mem'[1] = mem[1] /\ mem'[2] = 0 BY <1>0, <2>1 DEF Kinds
    <2>3. mixed \/ mem[1] = 0 BY <1>5 DEF Memory, Resetting
    <2>4. ASSUME NEW u \in Threads PROVE Writing(u)' /\ Resetting(u)' /\ Reading(u)'
        <3>1. CASE u = t BY <3>1, <2>1 DEF Writing, Resetting, Reading
        <3>2. CASE u # t
            BY <3>2, <1>1, <1>2, <1>3, <2>2 DEF Memory, Writing, Resetting, Reading
        <3> QED BY <3>1, <3>2
    <2>5. AtRest' BY <1>1, <2>2, <2>3 DEF AtRest, Whole
    <2> QED BY <1>1, <2>4, <2>5 DEF Memory
<1> QED BY <1>4, <1>5 DEF copy_default

LEMMA Memory_Step ==
    ASSUME Control, Control', mixed \in BOOLEAN, Memory, Scheduled, NEW t \in Threads, Step(t)
    PROVE  Memory'
BY Memory_Elsewhere, Memory_read, Memory_write, Memory_copy_default DEF Step

LEMMA Taken_Step ==
    ASSUME Control, Control', mixed \in BOOLEAN, Memory, \A u \in Threads : Taken(u), Scheduled,
           NEW t \in Threads, Step(t) \/ IoDone(t) \/ \E o \in Calls[t] : Call(t, o)
    PROVE  \A u \in Threads : Taken(u)'
<1>0. Kinds /\ Kinds' BY DEF Control
<1>1. mixed' \in BOOLEAN /\ (mixed => mixed') BY MixedGrows
<1> SUFFICES ASSUME NEW u \in Threads, op'[u] \in {"get", "show"}, pc'[u] # "r2"
             PROVE  mixed' \/ Whole(buf'[u])
    BY DEF Taken, Whole
<1>2. CASE u # t
    <2>1. /\ pc'[u] = pc[u] \/ pc'[u] = "sched_lock"
          /\ op'[u] = op[u] /\ buf'[u] = buf[u]
        BY <1>2, OthersStay
    <2>2. pc[u] # "r2"
        <3>1. CASE k_mutex_unlock(t) BY <1>0, <1>2, <3>1 DEF Kinds, k_mutex_unlock, Waiting
        <3>2. CASE ~k_mutex_unlock(t)
            <4>1. pc'[u] = pc[u]
                BY <1>0, <1>2, <3>2
                   DEF Step, Kinds, spin, k_mutex_lock, k_sched_lock, k_sched_unlock, write,
                       copy_default, read, io, IoDone, tell, attr_show, Call
            <4> QED BY <4>1
        <3> QED BY <3>1, <3>2
    <2> QED BY <1>1, <2>1, <2>2 DEF Taken
<1>3. CASE u = t
    <2>1. CASE \E o \in Calls[t] : Call(t, o)
        BY <1>0, <1>3, <2>1 DEF Kinds, Call, Zero, Whole
    <2>2. CASE read(t)
        <3>1. pc[t] = "r2" /\ op' = op /\ buf' = [buf EXCEPT ![t][2] = mem[2]]
            BY <1>0, <1>3, <2>2 DEF Kinds, read
        <3>2. buf'[t][1] = buf[t][1] /\ buf'[t][2] = mem[2] BY <1>0, <3>1 DEF Kinds
        <3>3. owner = t BY <1>3, <3>1 DEF Control, HolderIsInside
        <3>4. \A v \in Threads : pc[v] # "w2" BY <3>1, <3>3 DEF Control, HolderIsInside
        <3>5. mixed \/ \A v \in Threads : pc[v] # "d2"
            BY <3>1 DEF Memory, Meets
        <3>6. mixed \/ Whole(mem) BY <3>4, <3>5 DEF Memory, AtRest
        <3>7. mixed \/ buf[t][1] = mem[1] BY <1>3, <3>1 DEF Memory, Reading
        <3> QED BY <1>1, <1>3, <3>2, <3>6, <3>7 DEF Whole
    <2>3. CASE write(t)
        BY <1>3, <2>3 DEF Control, Callings, Calling, write
    <2>4. CASE ~read(t) /\ ~write(t) /\ (Step(t) \/ IoDone(t))
        <3>1. op'[u] = op[u] /\ buf'[u] = buf[u] /\ pc[u] # "r2"
            BY <1>3, <2>4
               DEF Step, spin, k_mutex_lock, k_sched_lock, k_mutex_unlock, k_sched_unlock,
                   copy_default, io, IoDone, tell, attr_show
        <3> QED BY <1>1, <3>1 DEF Taken
    <2> QED BY <2>1, <2>2, <2>3, <2>4
<1> QED BY <1>2, <1>3

-----------------------------------------------------------------------------
LEMMA TypeOKIsKinds ==
    ASSUME AccessAssumption
    PROVE  (TypeOK /\ SchedBalance)
               <=> (Kinds /\ SchedBalance /\ running \in Threads \cup {NoThread} /\ mixed \in BOOLEAN)
<1>1. ASSUME TypeOK
      PROVE  Kinds /\ running \in Threads \cup {NoThread} /\ mixed \in BOOLEAN
    BY <1>1 DEF TypeOK, Kinds
<1>2. ASSUME Kinds, SchedBalance, running \in Threads \cup {NoThread}, mixed \in BOOLEAN
      PROVE  TypeOK
    <2>1. ASSUME NEW t \in Threads PROVE sched[t] >= -1
        <3>1. shows[t] \in Nat BY <1>2 DEF Kinds
        <3> QED BY <1>2, <3>1 DEF SchedBalance
    <2> QED BY <1>2, <2>1 DEF TypeOK, Kinds
<1> QED BY <1>1, <1>2

LEMMA IInv_Init == Init => IInv
<1> SUFFICES ASSUME Init PROVE IInv OBVIOUS
<1> USE AccessAssumption DEF Init
<1>1. TypeOK
    <2>1. MaxCalls \in [Threads -> Nat] OBVIOUS
    <2>2. \A t \in Threads : calls[t] \in 0 .. MaxCalls[t] BY <2>1
    <2>3. mem \in [{1, 2} -> {0, 1}] /\ buf \in [Threads -> [{1, 2} -> {0, 1}]] BY DEF Zero
    <2>4. pc \in [Threads -> Places] /\ op \in [Threads -> Ops] OBVIOUS
    <2>5. sched \in [Threads -> Int] /\ \A t \in Threads : sched[t] >= -1 OBVIOUS
    <2>6. shows \in [Threads -> Nat] /\ calls \in [Threads -> Nat] OBVIOUS
    <2>7. running \in Threads /\ owner = NoThread /\ attr_initialized = FALSE /\ mixed = FALSE
        OBVIOUS
    <2> HIDE DEF Init
    <2> QED BY <2>2, <2>3, <2>4, <2>5, <2>6, <2>7 DEF TypeOK
<1>2. Callings BY DEF Callings, Calling
<1>3. HolderIsInside BY DEF HolderIsInside
<1>4. SchedBalance BY DEF SchedBalance, Locked
<1>5. HolderRunsAlone BY DEF HolderRunsAlone
<1>6. Memory BY DEF Memory, Writing, Resetting, Reading, AtRest, Whole, Zero, Meets
<1>7. \A t \in Threads : Taken(t) BY DEF Taken, Whole, Zero
<1> QED BY <1>1, <1>2, <1>3, <1>4, <1>5, <1>6, <1>7 DEF IInv

LEMMA IInv_Yield ==
    ASSUME IInv, NEW t \in Threads, Run(t), k_yield(t)
    PROVE  IInv'
<1>1. running' \in Threads BY YieldTyped DEF k_yield
<1>2. Control BY TypeOKIsKinds, AccessAssumption DEF IInv, Control
<1>3. TypeOK' /\ Callings' /\ HolderIsInside' /\ SchedBalance' /\ Memory'
      /\ \A u \in Threads : Taken(u)'
    BY <1>1 DEF IInv, k_yield, TypeOK, Callings, Calling, HolderIsInside, SchedBalance, Locked,
            Memory, Writing, Resetting, Reading, AtRest, Whole, Meets, Taken
<1>4. Control' BY <1>3, TypeOKIsKinds, AccessAssumption DEF Control, TypeOK, Kinds
<1>5. HolderRunsAlone' BY <1>2, <1>4, RunsAlone_Run DEF IInv
<1> QED BY <1>3, <1>5 DEF IInv

LEMMA IInv_Thread ==
    ASSUME IInv, NEW t \in Threads, Run(t) \/ Answer(t) \/ Woken(t)
    PROVE  IInv'
<1>1. CASE k_yield(t) /\ Run(t) BY <1>1, IInv_Yield
<1>2. CASE /\ Step(t) \/ IoDone(t) \/ \E o \in Calls[t] : Call(t, o)
           /\ Scheduled
    <2>1. Control /\ mixed \in BOOLEAN /\ running \in Threads \cup {NoThread}
        BY TypeOKIsKinds, AccessAssumption DEF IInv, Control
    <2>2. Control' BY <1>2, <2>1, Control_Step, Control_IoDone, Control_Call
    <2>3. mixed' \in BOOLEAN BY <1>2, <2>1, MixedGrows
    <2>4. running' \in Threads \cup {NoThread} BY <1>2, <2>1, DispatchTyped DEF Scheduled
    <2>5. TypeOK' BY <2>2, <2>3, <2>4 DEF Control, Kinds, SchedBalance, TypeOK
    <2>6. HolderRunsAlone' BY <2>1, <2>2, RunsAlone_Run, RunsAlone_Other DEF IInv
    <2>7. Memory' BY <1>2, <2>1, <2>2, Memory_Step, Memory_Elsewhere DEF IInv
    <2>8. \A u \in Threads : Taken(u)' BY <1>2, <2>1, <2>2, Taken_Step DEF IInv
    <2> QED BY <2>2, <2>5, <2>6, <2>7, <2>8 DEF IInv, Control
<1> QED BY <1>1, <1>2 DEF Run, Answer, Woken

LEMMA IInv_Stutter ==
    ASSUME IInv, UNCHANGED vars
    PROVE  IInv'
BY DEF vars, IInv, TypeOK, Callings, Calling, HolderIsInside, SchedBalance, Locked, HolderRunsAlone,
       Memory, Writing, Resetting, Reading, AtRest, Whole, Meets, Taken

(* The invariant the other theorems of this module follow from.            *)
THEOREM AccessInvariance == Spec => []IInv
<1>1. IInv /\ [Next]_vars => IInv' BY IInv_Thread, IInv_Stutter DEF Next
<1> QED BY IInv_Init, <1>1, PTL DEF Spec

(* The state of the threads and of their locks has its types, and          *)
(* sched_locked never goes below -1, in which it would keep the processor  *)
(* for ever.                                                               *)
THEOREM AccessTypeCorrect == Spec => []TypeOK
BY AccessInvariance, PTL DEF IInv

(* TAKE_MUTEX, attr_show() and GIVE_MUTEX give attr_mutex to one thread at *)
(* a time, the one that is between them.                                   *)
THEOREM MutexIsHeldInside == Spec => []HolderIsInside
BY AccessInvariance, PTL DEF IInv

(* Every function but attr_show() leaves sched_locked as it found it.      *)
THEOREM SchedulerIsBalanced == Spec => []SchedBalance
BY AccessInvariance, PTL DEF IInv

(* Nobody runs between the locks of a thread that has not called           *)
(* attr_show() once, until it waits for a device.                          *)
THEOREM HolderIsAlone == Spec => []HolderRunsAlone
BY AccessInvariance, PTL DEF IInv

(* attr_get() and the other locked readers never see half of a new value,  *)
(* but for attr_default() and a factory reset.                             *)
THEOREM LockedReadsWhole == Spec => []LockedReadsAreWhole
<1>1. IInv => LockedReadsAreWhole BY DEF IInv, Taken, LockedReadsAreWhole
<1> QED BY AccessInvariance, <1>1, PTL

-----------------------------------------------------------------------------
(* A reader without the mutex. It is alone between its two words when it   *)
(* is the most urgent thread: no setter is half way, because the setters   *)
(* are not preemptible there, and none of the others runs.                 *)
Urgent(t) == \A u \in Threads \ {t} : Priority[t] < Priority[u] /\ shows[u] = 0

Copying(t) ==
    Urgent(t) /\ op[t] = "copy" =>
        /\ pc[t] = "r2" => running = t /\ (mixed \/ (Whole(mem) /\ buf[t][1] = mem[1]))
        /\ pc[t] = "idle" => mixed \/ Whole(buf[t])

Copies == \A t \in Threads : Copying(t)

LEMMA IInvParts ==
    ASSUME IInv
    PROVE  Control /\ mixed \in BOOLEAN /\ running \in Threads \cup {NoThread}
BY TypeOKIsKinds, AccessAssumption DEF IInv, Control

LEMMA UrgentBefore ==
    ASSUME Control, NEW t \in Threads, Step(t) \/ IoDone(t) \/ \E o \in Calls[t] : Call(t, o),
           NEW u \in Threads, Urgent(u)'
    PROVE  Urgent(u)
<1> SUFFICES ASSUME NEW v \in Threads \ {u} PROVE shows[v] = 0
    BY DEF Urgent
<1>0. shows'[v] = 0 BY DEF Urgent
<1>1. CASE v # t BY <1>0, <1>1, OthersStay
<1>2. CASE v = t
    <2>1. CASE k_sched_unlock(t) BY <1>0, <1>2, <2>1 DEF Control, Kinds, k_sched_unlock
    <2>2. CASE ~k_sched_unlock(t)
        <3>1. shows' = shows
            BY <2>2 DEF Step, spin, k_mutex_lock, k_sched_lock, k_mutex_unlock, write, copy_default,
                        read, io, IoDone, tell, attr_show, Call
        <3> QED BY <1>0, <3>1
    <2> QED BY <2>1, <2>2
<1> QED BY <1>1, <1>2

(* The most urgent thread keeps the processor while it is ready: no other  *)
(* one lends a mutex holder a priority above its own.                      *)
LEMMA UrgentGoesOn ==
    ASSUME Dispatch, NEW t \in Threads, running = t, Urgent(t)',
           pc'[t] \notin {"idle", "wait", "blocked"}
    PROVE  running' = t
<1>1. t \in Ready' BY DEF Ready
<1>2. ASSUME NEW u \in Ready' PROVE AsUrgent(t, u)'
    <2>1. t \in RunsFor(t)' BY DEF RunsFor
    <2>2. ASSUME NEW v \in RunsFor(u)' PROVE Priority[t] <= Priority[v]
        <3>1. v \in Threads BY DEF RunsFor, Waiting, Ready
        <3>2. Priority[t] \in Int /\ Priority[v] \in Int BY <3>1, AccessAssumption
        <3> QED BY <3>1, <3>2 DEF Urgent
    <2> QED BY <2>1, <2>2 DEF AsUrgent
<1>3. GoesOn(t)' BY <1>1, <1>2 DEF GoesOn, MostUrgent
<1> QED BY <1>3 DEF Dispatch

LEMMA Copies_Init == Init => Copies
<1> SUFFICES ASSUME Init, NEW t \in Threads, op[t] = "copy" PROVE FALSE
    BY DEF Copies, Copying
<1> QED BY DEF Init

(* The steps of the reader itself.                                         *)
LEMMA Copying_Reader ==
    ASSUME IInv, Control', Scheduled, NEW t \in Threads, Copying(t),
           \/ t = running /\ Step(t)
           \/ IoDone(t)
           \/ \E o \in Calls[t] : Call(t, o)
    PROVE  Copying(t)'
<1>0. Control /\ Kinds /\ Kinds' BY IInvParts DEF Control
<1>1. mixed' \in BOOLEAN /\ (mixed => mixed') /\ (mixed' \/ ~Meets') BY MixedGrows, IInvParts
<1> SUFFICES ASSUME Urgent(t)', op'[t] = "copy", pc'[t] \in {"r2", "idle"}
             PROVE  /\ pc'[t] = "r2" => /\ running' = t
                                        /\ mixed' \/ (Whole(mem') /\ buf'[t][1] = mem'[1])
                    /\ pc'[t] = "idle" => mixed' \/ Whole(buf'[t])
    BY DEF Copying, Whole
<1>2. Urgent(t) BY <1>0, UrgentBefore
<1>3. read(t) /\ op' = op /\ mem' = mem /\ t = running
    <2>1. read(t)
        BY <1>0, AccessAssumption
           DEF Control, Kinds, Callings, Calling, Step, spin, k_mutex_lock, k_sched_lock, Body,
               k_mutex_unlock, k_sched_unlock, write, copy_default, io, AfterIo, IoDone, tell,
               attr_show, Call, First
    <2>2. ~IoDone(t) /\ ~\E o \in Calls[t] : Call(t, o)
        BY <2>1 DEF read, IoDone, Call
    <2> QED BY <2>1, <2>2 DEF read
<1>4. CASE pc[t] = "r1"
    <2>1. pc'[t] = "r2" /\ buf' = [buf EXCEPT ![t][1] = mem[1]]
        BY <1>0, <1>3, <1>4 DEF Kinds, read
    <2>2. buf'[t][1] = mem[1] BY <1>0, <2>1 DEF Kinds
    <2>3. ASSUME NEW u \in Threads PROVE pc[u] # "w2"
        <3>1. SUFFICES ASSUME pc[u] = "w2" PROVE FALSE OBVIOUS
        <3>2. u # t BY <3>1, <1>4
        <3>3. owner = u /\ op[u] # "show"
            BY <1>0, <3>1 DEF Control, HolderIsInside, Callings, Calling
        <3>4. shows[u] = 0 BY <1>2, <3>2 DEF Urgent
        <3>5. running = u BY <3>1, <3>3, <3>4 DEF IInv, HolderRunsAlone
        <3> QED BY <1>3, <3>2, <3>5
    <2>4. mixed' \/ \A u \in Threads : pc[u] # "d2"
        <3>1. SUFFICES ASSUME NEW u \in Threads, pc[u] = "d2" PROVE Meets'
            BY <1>1
        <3>2. u # t /\ pc'[u] = "d2" BY <3>1, <1>0, <1>3, <1>4 DEF Kinds, read
        <3> QED BY <2>1, <3>2 DEF Meets
    <2>5. mixed' \/ Whole(mem) BY <1>1, <2>3, <2>4 DEF IInv, Memory, AtRest
    <2>6. running' = t BY <1>3, <2>1, UrgentGoesOn DEF Scheduled
    <2> QED BY <1>3, <2>1, <2>2, <2>5, <2>6 DEF Whole
<1>5. CASE pc[t] = "r2"
    <2>1. pc'[t] = "idle" /\ buf' = [buf EXCEPT ![t][2] = mem[2]]
        BY <1>0, <1>3, <1>5 DEF Kinds, read, AfterRead
    <2>2. buf'[t][1] = buf[t][1] /\ buf'[t][2] = mem[2] BY <1>0, <2>1 DEF Kinds
    <2>3. mixed \/ (Whole(mem) /\ buf[t][1] = mem[1])
        BY <1>2, <1>3, <1>5 DEF Copying
    <2> QED BY <1>1, <2>1, <2>2, <2>3 DEF Whole
<1> QED BY <1>3, <1>4, <1>5 DEF read

(* The steps of the others.                                                *)
LEMMA Copying_Other ==
    ASSUME IInv, Scheduled, NEW t \in Threads, NEW u \in Threads \ {t}, Copying(t),
           \/ u = running /\ Step(u)
           \/ IoDone(u)
           \/ \E o \in Calls[u] : Call(u, o)
    PROVE  Copying(t)'
<1>0. Control BY IInvParts
<1>1. mixed' \in BOOLEAN /\ (mixed => mixed') BY MixedGrows, IInvParts
<1>2. /\ pc'[t] = pc[t] \/ pc'[t] = "sched_lock"
      /\ op'[t] = op[t] /\ buf'[t] = buf[t]
    BY <1>0, OthersStay
<1>3. Urgent(t)' => Urgent(t) BY <1>0, UrgentBefore
<1>4. CASE pc'[t] = "r2" /\ op'[t] = "copy" /\ Urgent(t)'
    <2>1. pc[t] = "r2" /\ running = t /\ (mixed \/ (Whole(mem) /\ buf[t][1] = mem[1]))
        BY <1>2, <1>3, <1>4 DEF Copying
    <2>2. mem' = mem BY <2>1 DEF IoDone, Call
    <2>3. running' = t BY <1>4, <2>1, UrgentGoesOn DEF Scheduled
    <2> QED BY <1>1, <1>2, <1>4, <2>1, <2>2, <2>3 DEF Copying, Whole
<1>5. CASE pc'[t] = "idle" BY <1>1, <1>2, <1>3, <1>5 DEF Copying, Whole
<1>6. CASE ~(pc'[t] = "r2" /\ op'[t] = "copy" /\ Urgent(t)') /\ pc'[t] # "idle"
    BY <1>6 DEF Copying
<1> QED BY <1>4, <1>5, <1>6

LEMMA Copies_Next ==
    ASSUME IInv, IInv', Copies, [Next]_vars
    PROVE  Copies'
<1>1. CASE UNCHANGED vars
    BY <1>1 DEF vars, Copies, Copying, Urgent, Whole
<1>2. ASSUME NEW u \in Threads, Run(u), k_yield(u)
      PROVE  Copies'
    <2>1. pc[u] = "spin" /\ running = u BY <1>2 DEF Run, k_yield
    <2>2. UNCHANGED <<pc, op, mem, buf, shows, mixed>> BY <1>2 DEF k_yield
    <2>3. ASSUME NEW t \in Threads PROVE Copying(t)'
        <3>1. Copying(t) BY DEF Copies
        <3>2. Urgent(t)' <=> Urgent(t) BY <2>2 DEF Urgent
        <3>3. Urgent(t) /\ op[t] = "copy" => pc[t] # "r2" BY <2>1, <3>1 DEF Copying
        <3> QED BY <2>2, <3>1, <3>2, <3>3 DEF Copying, Whole
    <2> QED BY <2>3 DEF Copies
<1>3. ASSUME NEW u \in Threads, Scheduled,
             \/ u = running /\ Step(u)
             \/ IoDone(u)
             \/ \E o \in Calls[u] : Call(u, o)
      PROVE  Copies'
    <2>1. Control' BY DEF IInv, Control, TypeOK, Kinds
    <2>2. ASSUME NEW t \in Threads PROVE Copying(t)'
        <3>1. CASE t = u BY <1>3, <2>1, <3>1, Copying_Reader DEF Copies
        <3>2. CASE t # u BY <1>3, <3>2, Copying_Other DEF Copies
        <3> QED BY <3>1, <3>2
    <2> QED BY <2>2 DEF Copies
<1> QED BY <1>1, <1>2, <1>3 DEF Next, Run, Answer, Woken

(* attr_copy_string() takes no mutex; the most urgent thread gets the      *)
(* whole value from it all the same, as long as nobody else has called     *)
(* attr_show().                                                            *)
THEOREM CopiesAreWhole == Spec => []CopyIsWhole
<1>1. IInv /\ Copies => CopyIsWhole
    BY DEF Copies, Copying, Urgent, CopyIsWhole
<1>2. IInv /\ IInv' /\ Copies /\ [Next]_vars => Copies' BY Copies_Next
<1> QED BY AccessInvariance, Copies_Init, <1>1, <1>2, PTL DEF Spec

-----------------------------------------------------------------------------
(* No wakeup is lost: a thread begins to wait only when there is an owner, *)
(* and the owner that gives the mutex gives it to a waiter.                *)
Served == Waiting # {} => owner # NoThread

LEMMA Served_Thread ==
    ASSUME Control, Served, NEW t \in Threads,
           Step(t) \/ IoDone(t) \/ \E o \in Calls[t] : Call(t, o)
    PROVE  Served'
<1>0. Kinds BY DEF Control
<1> SUFFICES ASSUME NEW u \in Threads, pc'[u] = "wait" PROVE owner' # NoThread
    BY DEF Served, Waiting
<1>1. CASE u # t
    <2>1. u \in Waiting BY <1>1, OthersStay DEF Waiting
    <2>2. owner # NoThread BY <2>1 DEF Served
    <2>3. CASE k_mutex_unlock(t)
        BY <2>1, <2>3, AccessAssumption DEF k_mutex_unlock, Waiting
    <2>4. CASE ~k_mutex_unlock(t)
        BY <2>2, <2>4, AccessAssumption
           DEF Step, spin, k_mutex_lock, k_sched_lock, k_sched_unlock, write, copy_default, read,
               io, IoDone, tell, attr_show, Call
    <2> QED BY <2>3, <2>4
<1>2. CASE u = t
    <2>1. k_mutex_lock(t)
        BY <1>0, <1>2, AccessAssumption
           DEF Control, Kinds, Callings, Calling, Step, spin, k_sched_lock, Body, k_mutex_unlock,
               Waiting, k_sched_unlock, write, copy_default, AfterDefaults, read, AfterRead, io,
               AfterIo, IoDone, tell, attr_show, Call, First
    <2> QED BY <1>0, <1>2, <2>1, AccessAssumption DEF Kinds, k_mutex_lock
<1> QED BY <1>1, <1>2

LEMMA Served_Next ==
    ASSUME IInv, Served, [Next]_vars
    PROVE  Served'
<1>1. CASE UNCHANGED vars BY <1>1 DEF vars, Served, Waiting
<1>2. ASSUME NEW t \in Threads, k_yield(t) PROVE Served'
    BY <1>2 DEF k_yield, Served, Waiting
<1>3. ASSUME NEW t \in Threads, Step(t) \/ IoDone(t) \/ \E o \in Calls[t] : Call(t, o)
      PROVE  Served'
    BY <1>3, IInvParts, Served_Thread
<1> QED BY <1>1, <1>2, <1>3 DEF Next, Run, Answer, Woken

(* attr_mutex always has an owner that will give it while a thread waits.  *)
THEOREM NoWakeupIsLost == Spec => []WaitersAreServed
<1>1. Init => Served BY DEF Init, Served, Waiting
<1>2. IInv /\ Served => WaitersAreServed
    BY DEF IInv, TypeOK, Served, HolderIsInside, WaitersAreServed
<1>3. IInv /\ Served /\ [Next]_vars => Served' BY Served_Next
<1> QED BY AccessInvariance, <1>1, <1>2, <1>3, PTL DEF Spec

-----------------------------------------------------------------------------
(* AttrAccess implements AtomicValue. A getter's copy is empty until it    *)
(* has read both words.                                                    *)
Fresh(t) ==
    /\ op[t] \in {"get", "show"}
    /\ pc[t] \in {"spin", "lock", "wait", "sched_lock", "try", "r1"}
    => buf[t] = Zero

Freshness == \A t \in Threads : Fresh(t)

LEMMA Fresh_Next ==
    ASSUME IInv, Freshness, [Next]_vars
    PROVE  Freshness'
<1>0. Control /\ Kinds BY IInvParts DEF Control
<1>1. CASE UNCHANGED vars BY <1>1 DEF vars, Freshness, Fresh, Zero
<1>2. ASSUME NEW t \in Threads, k_yield(t) PROVE Freshness'
    BY <1>2 DEF k_yield, Freshness, Fresh, Zero
<1>3. ASSUME NEW t \in Threads, Step(t) \/ IoDone(t) \/ \E o \in Calls[t] : Call(t, o)
      PROVE  Freshness'
    <2>1. ASSUME NEW u \in Threads \ {t} PROVE Fresh(u)'
        <3>1. /\ op'[u] = op[u] /\ buf'[u] = buf[u]
              /\ pc'[u] = pc[u] \/ (pc[u] = "wait" /\ pc'[u] = "sched_lock")
            <4>1. CASE k_mutex_unlock(t)
                BY <1>0, <4>1 DEF Kinds, k_mutex_unlock, Waiting
            <4>2. CASE ~k_mutex_unlock(t)
                BY <1>0, <1>3, <4>2, OthersStay
                   DEF Step, Kinds, spin, k_mutex_lock, k_sched_lock, k_sched_unlock, write,
                       copy_default, read, io, IoDone, tell, attr_show, Call
            <4> QED BY <4>1, <4>2
        <3> QED BY <3>1 DEF Freshness, Fresh, Zero
    <2>2. Fresh(t)'
        <3>1. CASE \E o \in Calls[t] : Call(t, o)
            <4>1. PICK o \in Calls[t] : Call(t, o) BY <3>1
            <4>2. buf'[t] = Zero BY <1>0, <4>1 DEF Kinds, Call
            <4> QED BY <4>2 DEF Fresh, Zero
        <3>2. CASE read(t) \/ write(t) \/ IoDone(t) \/ copy_default(t) \/ io(t)
                   \/ k_mutex_unlock(t) \/ k_sched_unlock(t) \/ tell(t)
            BY <1>0, <3>2
               DEF Control, Kinds, Callings, Calling, Fresh, read, AfterRead, write, IoDone, AfterIo,
                   io, copy_default, k_mutex_unlock, Waiting, k_sched_unlock, tell
        <3>3. CASE spin(t) \/ k_mutex_lock(t) \/ k_sched_lock(t) \/ attr_show(t)
            <4>1. op' = op /\ buf' = buf BY <3>3 DEF spin, k_mutex_lock, k_sched_lock, attr_show
            <4>2. pc[t] \in {"spin", "lock", "sched_lock", "try"}
                BY <3>3 DEF spin, k_mutex_lock, k_sched_lock, attr_show
            <4> QED BY <4>1, <4>2 DEF Freshness, Fresh, Zero
        <3> QED BY <1>3, <3>1, <3>2, <3>3 DEF Step
    <2> QED BY <2>1, <2>2 DEF Freshness
<1> QED BY <1>1, <1>2, <1>3 DEF Next, Run, Answer, Woken

LEMMA Refine_Init == ASSUME Init PROVE Atomic!Init
<1>1. mem = Zero /\ buf = [t \in Threads |-> Zero] /\ mixed = FALSE BY DEF Init
<1>2. [k \in {1, 2} |-> mem[2]] = Zero BY <1>1 DEF Zero
<1>3. \A t \in Threads : Copy(t) = Zero BY <1>1 DEF Copy
<1> QED BY <1>1, <1>2, <1>3 DEF Atomic!Init

(* What is not a word written, a copy taken or a call changes nothing.     *)
LEMMA Refine_Stutter ==
    ASSUME mem'[2] = mem[2], mixed' = mixed, \A t \in Threads : Copy(t)' = Copy(t)
    PROVE  UNCHANGED Atomic!vars
BY DEF Atomic!vars

(* One thread's copy becomes c.                                            *)
LEMMA Refine_Copy ==
    ASSUME NEW t \in Threads, NEW c, Copy(t)' = c,
           \A u \in Threads \ {t} : Copy(u)' = Copy(u)
    PROVE  [u \in Threads |-> Copy(u)]' = [[u \in Threads |-> Copy(u)] EXCEPT ![t] = c]
OBVIOUS

(* The copies of the threads that do not move stay.                        *)
LEMMA OtherCopies ==
    ASSUME Control, NEW t \in Threads, Step(t) \/ IoDone(t) \/ \E o \in Calls[t] : Call(t, o)
    PROVE  \A u \in Threads \ {t} : Copy(u)' = Copy(u)
<1>0. Kinds BY DEF Control
<1> SUFFICES ASSUME NEW u \in Threads \ {t} PROVE Copy(u)' = Copy(u)
    OBVIOUS
<1>1. op'[u] = op[u] /\ buf'[u] = buf[u] BY OthersStay
<1>2. pc'[u] = "r2" <=> pc[u] = "r2"
    <2>1. CASE k_mutex_unlock(t)
        BY <1>0, <2>1 DEF Kinds, k_mutex_unlock, Waiting
    <2>2. CASE ~k_mutex_unlock(t)
        BY <1>0, <2>2, OthersStay
           DEF Step, Kinds, spin, k_mutex_lock, k_sched_lock, k_sched_unlock, write,
               copy_default, read, io, IoDone, tell, attr_show, Call
    <2> QED BY <2>1, <2>2
<1> QED BY <1>1, <1>2 DEF Copy, Zero

LEMMA Refine_read ==
    ASSUME IInv, IInv', Freshness, ~mixed', Scheduled, NEW t \in Threads, read(t)
    PROVE  Atomic!Next \/ UNCHANGED Atomic!vars
<1>0. Control /\ Kinds BY IInvParts DEF Control
<1>1. ~mixed /\ mixed' = mixed BY MixedGrows, IInvParts
<1>2. mem' = mem /\ op' = op BY DEF read
<1>3. \A u \in Threads \ {t} : Copy(u)' = Copy(u) BY <1>0, OtherCopies DEF Step
<1>4. CASE op[t] \notin {"get", "show"}
    <2>1. Copy(t)' = Copy(t) BY <1>2, <1>4 DEF Copy, Zero
    <2> QED BY <1>1, <1>2, <1>3, <2>1, Refine_Stutter
<1>5. CASE op[t] \in {"get", "show"} /\ pc[t] = "r1"
    <2>1. pc'[t] = "r2" BY <1>0, <1>5 DEF Kinds, read
    <2>2. buf[t] = Zero BY <1>5 DEF Freshness, Fresh
    <2>3. Copy(t)' = Copy(t) BY <1>2, <1>5, <2>1, <2>2 DEF Copy, Zero
    <2> QED BY <1>1, <1>2, <1>3, <2>3, Refine_Stutter
<1>6. CASE op[t] \in {"get", "show"} /\ pc[t] = "r2"
    <2>1. pc'[t] # "r2" /\ buf' = [buf EXCEPT ![t][2] = mem[2]]
        BY <1>0, <1>6 DEF Kinds, read, AfterRead
    <2>2. buf'[t] \in [{1, 2} -> {0, 1}] BY DEF IInv, TypeOK
    <2>3. buf'[t][2] = mem[2] BY <1>0, <2>1 DEF Kinds
    <2>4. buf'[t][1] = buf'[t][2] BY <1>2, <1>6, <2>1 DEF IInv, Taken, Whole
    <2>5. buf'[t] = [k \in {1, 2} |-> mem[2]] BY <2>2, <2>3, <2>4
    <2>6. Copy(t)' = [k \in {1, 2} |-> mem[2]] BY <1>2, <1>6, <2>1, <2>5 DEF Copy
    <2>7. Atomic!Read(t) BY <1>2, <1>3, <2>6, Refine_Copy DEF Atomic!Read
    <2> QED BY <2>7 DEF Atomic!Next
<1> QED BY <1>4, <1>5, <1>6 DEF read

(* The words written by w2 and d2, the second ones.                        *)
LEMMA Refine_write ==
    ASSUME IInv, IInv', ~mixed', Scheduled, NEW t \in Threads, write(t) \/ copy_default(t)
    PROVE  Atomic!Next \/ UNCHANGED Atomic!vars
<1>0. Control /\ Kinds BY IInvParts DEF Control
<1>1. mixed' = mixed BY MixedGrows, IInvParts
<1>2. \A u \in Threads \ {t} : Copy(u)' = Copy(u) BY <1>0, OtherCopies DEF Step
<1>3. op'[t] = op[t] /\ op[t] \notin {"get", "show"}
    BY <1>0 DEF Control, Callings, Calling, write, copy_default
<1>4. \A u \in Threads : Copy(u)' = Copy(u) BY <1>2, <1>3 DEF Copy, Zero
<1>5. mem'[2] \in {0, 1} BY DEF IInv, TypeOK
<1>6. [k \in {1, 2} |-> mem[2]]' \in {v \in [{1, 2} -> {0, 1}] : Whole(v)}
    BY <1>5 DEF Whole
<1>7. Atomic!Write BY <1>4, <1>6 DEF Atomic!Write
<1> QED BY <1>7 DEF Atomic!Next

LEMMA Refine_Call ==
    ASSUME IInv, ~mixed', Scheduled, NEW t \in Threads, NEW o \in Calls[t], Call(t, o)
    PROVE  Atomic!Next \/ UNCHANGED Atomic!vars
<1>0. Control /\ Kinds BY IInvParts DEF Control
<1>1. \A u \in Threads \ {t} : Copy(u)' = Copy(u) BY <1>0, OtherCopies
<1>2. buf'[t] = Zero /\ mem' = mem BY <1>0 DEF Kinds, Call
<1>3. Copy(t)' = Zero BY <1>2 DEF Copy, Zero
<1>4. Atomic!Forget(t) BY <1>1, <1>2, <1>3, Refine_Copy DEF Atomic!Forget
<1> QED BY <1>4 DEF Atomic!Next

LEMMA Refine_Elsewhere ==
    ASSUME IInv, ~mixed', Scheduled, NEW t \in Threads,
           \/ spin(t) \/ k_mutex_lock(t) \/ k_sched_lock(t) \/ k_mutex_unlock(t)
           \/ k_sched_unlock(t) \/ io(t) \/ IoDone(t) \/ tell(t) \/ attr_show(t)
    PROVE  UNCHANGED Atomic!vars
<1>0. Control /\ Kinds BY IInvParts DEF Control
<1>1. mixed' = mixed BY MixedGrows, IInvParts
<1>2. \A u \in Threads \ {t} : Copy(u)' = Copy(u) BY <1>0, OtherCopies DEF Step
<1>3. op' = op /\ buf' = buf /\ mem' = mem
    BY DEF spin, k_mutex_lock, k_sched_lock, k_mutex_unlock, k_sched_unlock, io, IoDone, tell,
           attr_show
<1>4. pc[t] # "r2" /\ pc'[t] # "r2"
    BY <1>0
       DEF Control, Kinds, Callings, Calling, spin, k_mutex_lock, k_sched_lock, Body, k_mutex_unlock,
           Waiting, k_sched_unlock, io, AfterIo, IoDone, tell, attr_show
<1>5. Copy(t)' = Copy(t) BY <1>3, <1>4 DEF Copy, Zero
<1> QED BY <1>1, <1>2, <1>3, <1>5, Refine_Stutter

LEMMA Refine_Next ==
    ASSUME IInv, IInv', Freshness, [Next]_vars
    PROVE  [Atomic!Next]_(Atomic!vars) /\ (mixed => mixed')
<1>1. CASE UNCHANGED vars
    <2>1. mem' = mem /\ mixed' = mixed /\ \A t \in Threads : Copy(t)' = Copy(t)
        BY <1>1 DEF vars, Copy, Zero
    <2> QED BY <2>1, Refine_Stutter
<1>2. ASSUME NEW t \in Threads, k_yield(t)
      PROVE  UNCHANGED Atomic!vars /\ (mixed => mixed')
    <2>1. mem' = mem /\ mixed' = mixed /\ \A u \in Threads : Copy(u)' = Copy(u)
        BY <1>2 DEF k_yield, Copy, Zero
    <2> QED BY <2>1, Refine_Stutter
<1>3. ASSUME NEW t \in Threads, Scheduled,
             Step(t) \/ IoDone(t) \/ \E o \in Calls[t] : Call(t, o)
      PROVE  [Atomic!Next]_(Atomic!vars) /\ (mixed => mixed')
    <2>1. mixed => mixed' BY <1>3, MixedGrows, IInvParts
    <2>2. CASE mixed' BY <2>1, <2>2 DEF Atomic!Next
    <2>3. CASE ~mixed'
        BY <1>3, <2>1, <2>3, Refine_read, Refine_write, Refine_Call, Refine_Elsewhere DEF Step
    <2> QED BY <2>2, <2>3
<1> QED BY <1>1, <1>2, <1>3 DEF Next, Run, Answer, Woken

(* Behind attr_mutex and the lock of the scheduler writes and reads are    *)
(* atomic, and a read returns what was written last: what the models that  *)
(* take an access as one step rely on.                                     *)
THEOREM AccessImplementsAtomicValue == Spec => AccessesAreAtomic
<1>1. Init => Freshness BY DEF Init, Freshness, Fresh
<1>2. IInv /\ Freshness /\ [Next]_vars => Freshness' BY Fresh_Next
<1>3. Init => Atomic!Init BY Refine_Init
<1>4. IInv /\ IInv' /\ Freshness /\ [Next]_vars
         => [Atomic!Next]_(Atomic!vars) /\ [mixed => mixed']_(Atomic!vars)
    BY Refine_Next
<1> QED BY AccessInvariance, <1>1, <1>2, <1>3, <1>4, PTL
        DEF Spec, AccessesAreAtomic, Atomic!Spec
==============================================================================
