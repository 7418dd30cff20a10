------------------------------ MODULE AttrAccess ------------------------------
(***************************************************************************)
(* Who may touch a value, and when: attr_mutex and the lock of the         *)
(* scheduler in TAKE_MUTEX and GIVE_MUTEX, the functions of src/attr.c     *)
(* that use them, those that use one half of them (attr_show) and those    *)
(* that touch a value of several words without them: attr_copy_string(),   *)
(* attr_default() and attr_factory_reset(), under the priorities of a      *)
(* kernel with one processor. (attr_get_bool() and attr_are_flags_set()    *)
(* use none either and read one word; attr_get_pointer() and attr_get_     *)
(* quasi_static() read nothing and give the address away.)                 *)
(*                                                                         *)
(* The value has two words, as a string, an array or a 64-bit number: a    *)
(* step reads or writes one. It is whole when both were written together.  *)
(***************************************************************************)
EXTENDS Integers, Sequences, FiniteSets

CONSTANTS
    Threads,
    InitThread,        \* the thread that runs SYS_INIT, then main()
    NoThread,
    Priority,          \* [Threads -> Int]; the lower, the more urgent
    Calls,             \* what each thread may call: [Threads -> SUBSET Ops]
    MaxCalls           \* bound: how many calls each thread makes

Ops == {"init", "set", "get", "copy", "show", "default", "reset"}

ASSUME AccessAssumption ==
    /\ InitThread \in Threads
    /\ NoThread \notin Threads
    /\ Priority \in [Threads -> Int]
    /\ Calls \in [Threads -> SUBSET (Ops \ {"init"})]
    /\ MaxCalls \in [Threads -> Nat]

VARIABLES
    running,           \* the thread the processor executes
    pc,                \* where each thread is
    op,                \* the call it is in, or was last
    sched,             \* base.sched_locked of each thread, 0 if preemptible
    owner,             \* the thread that holds attr_mutex
    attr_initialized,
    mem,               \* the two words at pData
    buf,               \* what the last read of each thread has copied so far
    shows,             \* times attr_show() gave the mutex, of each thread
    mixed,             \* defaults met another access half way
    calls              \* calls made by each thread

vars == <<running, pc, op, sched, owner, attr_initialized, mem, buf, shows,
          mixed, calls>>

(* TAKE_MUTEX is spin, lock or wait, sched_lock; GIVE_MUTEX is give,       *)
(* sched_unlock. w, r and d are the words written, read and defaulted.     *)
Places == {"idle", "spin", "lock", "wait", "sched_lock", "w1", "w2", "r1", "r2",
           "d1", "d2", "io", "blocked", "tell", "try", "give", "sched_unlock"}

TypeOK ==
    /\ running \in Threads \cup {NoThread}
    /\ pc \in [Threads -> Places]
    /\ op \in [Threads -> Ops]
    /\ sched \in [Threads -> Int]
    /\ \A t \in Threads : sched[t] >= -1
    /\ owner \in Threads \cup {NoThread}
    /\ attr_initialized \in BOOLEAN
    /\ mem \in [{1, 2} -> {0, 1}]
    /\ buf \in [Threads -> [{1, 2} -> {0, 1}]]
    /\ shows \in [Threads -> Nat]
    /\ mixed \in BOOLEAN
    /\ calls \in [Threads -> Nat]
    /\ \A t \in Threads : calls[t] \in 0 .. MaxCalls[t]

Whole(words) == words[1] = words[2]
Zero == [k \in {1, 2} |-> 0]

Init ==
    /\ running = InitThread
    /\ pc = [t \in Threads |-> IF t = InitThread THEN "lock" ELSE "idle"]
    /\ op = [t \in Threads |-> IF t = InitThread THEN "init" ELSE "get"]
    /\ sched = [t \in Threads |-> 0]
    /\ owner = NoThread
    /\ attr_initialized = FALSE
    /\ mem = Zero
    /\ buf = [t \in Threads |-> Zero]
    /\ shows = [t \in Threads |-> 0]
    /\ mixed = FALSE
    /\ calls = [t \in Threads |-> 0]

-----------------------------------------------------------------------------
(* The kernel. A thread that is not waiting is ready. The holder of a      *)
(* mutex inherits the priority of the most urgent waiter.                  *)
Ready == {t \in Threads : pc[t] \notin {"idle", "wait", "blocked"}}
Waiting == {t \in Threads : pc[t] = "wait"}

RunsFor(t) == {t} \cup (IF t = owner THEN Waiting ELSE {})

AsUrgent(t, u) ==
    \A v \in RunsFor(u) : \E w \in RunsFor(t) : Priority[w] <= Priority[v]

MostUrgent == {t \in Ready : \A u \in Ready : AsUrgent(t, u)}

(* The running thread goes on unless it waits, or it is preemptible and a  *)
(* more urgent one is ready. sched_locked is unsigned: whatever is not 0,  *)
(* below or above, makes it non-preemptible.                               *)
GoesOn(t) == t \in Ready /\ (sched[t] # 0 \/ t \in MostUrgent)

Dispatch ==
    \E r \in Threads \cup {NoThread} :
        /\ r = running
        /\ IF r \in Threads /\ GoesOn(r)'
           THEN running' = r
           ELSE IF Ready' = {} THEN running' = NoThread
           ELSE running' \in MostUrgent'

(* Defaults are half copied while another access of the value is half way. *)
Meets == \E t, u \in Threads : /\ t # u
                               /\ pc[t] = "d2"
                               /\ pc[u] \in {"w2", "r2", "d2"}

Go(t, place) == pc' = [pc EXCEPT ![t] = place]

-----------------------------------------------------------------------------
(* The two macros, one step for each of their statements.                  *)
(* mutant: a getter that reads without the mutex.                          *)
FirstUnlocked(o) ==
    CASE o = "set" -> "spin"
      [] o \in {"get", "copy"} -> "r1"
      [] o \in {"default", "reset"} -> "d1"
      [] o = "show" -> "try"

(* Where a call begins.                                                    *)
First(o) ==
    CASE o \in {"set", "get"} -> "spin"
      [] o = "copy" -> "r1"
      [] o \in {"default", "reset"} -> "d1"
      [] o = "show" -> "try"

(* What a call does once it has the mutex.                                 *)
Body(o) ==
    CASE o \in {"init", "set"} -> "w1"
      [] o \in {"get", "show"} -> "r1"
      [] o = "reset" -> "io"

(* k_yield(): the others of the same priority, if any, go first.           *)
Yield(t) ==
    LET others == {u \in Ready \ {t} : AsUrgent(u, t)}
    IN running' \in IF others = {} THEN {t}
                    ELSE {u \in others : \A v \in others : AsUrgent(u, v)}

k_yield(t) ==
    /\ pc[t] = "spin" /\ ~attr_initialized
    /\ Yield(t)
    /\ UNCHANGED <<pc, op, sched, owner, attr_initialized, mem, buf, shows, mixed, calls>>

spin(t) ==
    /\ pc[t] = "spin" /\ attr_initialized
    /\ Go(t, "lock")
    /\ UNCHANGED <<op, sched, owner, attr_initialized, mem, buf, shows, calls>>

k_mutex_lock(t) ==
    /\ pc[t] = "lock"
    /\ IF owner = NoThread
       THEN owner' = t /\ Go(t, "sched_lock")
       ELSE owner' = owner /\ Go(t, "wait")
    /\ UNCHANGED <<op, sched, attr_initialized, mem, buf, shows, calls>>

(* mutant: TAKE_MUTEX without k_sched_lock().                              *)
k_sched_lock_not(t) ==
    /\ pc[t] = "sched_lock"
    /\ Go(t, Body(op[t]))
    /\ UNCHANGED <<op, sched, owner, attr_initialized, mem, buf, shows, calls>>

k_sched_lock(t) ==
    /\ pc[t] = "sched_lock"
    /\ sched' = [sched EXCEPT ![t] = @ - 1]
    /\ Go(t, Body(op[t]))
    /\ UNCHANGED <<op, owner, attr_initialized, mem, buf, shows, calls>>

(* The most urgent waiter becomes the owner.                               *)
k_mutex_unlock(t) ==
    /\ pc[t] = "give"
    /\ IF Waiting = {}
       THEN owner' = NoThread /\ Go(t, "sched_unlock")
       ELSE \E w \in Waiting :
                /\ \A v \in Waiting : Priority[w] <= Priority[v]
                /\ owner' = w
                /\ pc' = [pc EXCEPT ![t] = "sched_unlock", ![w] = "sched_lock"]
    /\ UNCHANGED <<op, sched, attr_initialized, mem, buf, shows, calls>>

(* mutant: GIVE_MUTEX without k_sched_unlock().                            *)
k_sched_unlock_not(t) ==
    /\ pc[t] = "sched_unlock"
    /\ shows' = [shows EXCEPT ![t] = IF op[t] = "show" THEN @ + 1 ELSE @]
    /\ Go(t, "idle")
    /\ UNCHANGED <<op, sched, owner, attr_initialized, mem, buf, calls>>

k_sched_unlock(t) ==
    /\ pc[t] = "sched_unlock"
    /\ sched' = [sched EXCEPT ![t] = @ + 1]
    /\ shows' = [shows EXCEPT ![t] = IF op[t] = "show" THEN @ + 1 ELSE @]
    /\ Go(t, "idle")
    /\ UNCHANGED <<op, owner, attr_initialized, mem, buf, calls>>

-----------------------------------------------------------------------------
(* A write under the mutex: attr_init() writes the defaults and what it    *)
(* loads; the setters write what they are told, save it, and broadcast it. *)
write(t) ==
    /\ \/ /\ pc[t] = "w1"
          /\ \E v \in IF op[t] = "init" THEN {0} ELSE {0, 1} :
                mem' = [mem EXCEPT ![1] = v] /\ buf' = [buf EXCEPT ![t] = [k \in {1, 2} |-> v]]
          /\ Go(t, "w2")
       \/ /\ pc[t] = "w2"
          /\ mem' = [mem EXCEPT ![2] = buf[t][2]]
          /\ buf' = buf
          /\ Go(t, "io")
    /\ UNCHANGED <<op, sched, owner, attr_initialized, shows, calls>>

(* attr_default() prints the value after it has copied the default; the    *)
(* factory reset saves, and save_attributes() takes the mutex.             *)
AfterDefaults(o) == IF o = "reset" THEN "spin" ELSE "idle"

(* The memcpy() of a default, without the mutex.                           *)
copy_default(t) ==
    /\ \/ /\ pc[t] = "d1"
          /\ mem' = [mem EXCEPT ![1] = 0]
          /\ Go(t, "d2")
       \/ /\ pc[t] = "d2"
          /\ mem' = [mem EXCEPT ![2] = 0]
          /\ Go(t, AfterDefaults(op[t]))
    /\ UNCHANGED <<op, sched, owner, attr_initialized, buf, shows, calls>>

(* mutant: a getter that returns without GIVE_MUTEX.                       *)
AfterReadReturned(o) == IF o = "show" THEN "io" ELSE "idle"

AfterRead(o) ==
    CASE o = "get" -> "give"
      [] o = "copy" -> "idle"
      [] o = "show" -> "io"

read(t) ==
    /\ \/ /\ pc[t] = "r1"
          /\ buf' = [buf EXCEPT ![t][1] = mem[1]]
          /\ Go(t, "r2")
       \/ /\ pc[t] = "r2"
          /\ buf' = [buf EXCEPT ![t][2] = mem[2]]
          /\ Go(t, AfterRead(op[t]))
    /\ UNCHANGED <<op, sched, owner, attr_initialized, mem, shows, calls>>

AfterIo(o) == IF o \in {"init", "set"} THEN "tell" ELSE "give"

(* The file system, or the terminal of the shell, may make the thread wait. *)
io(t) ==
    /\ pc[t] = "io"
    /\ Go(t, "blocked") \/ Go(t, AfterIo(op[t]))
    /\ UNCHANGED <<op, sched, owner, attr_initialized, mem, buf, shows, calls>>

IoDone(t) ==
    /\ pc[t] = "blocked"
    /\ Go(t, AfterIo(op[t]))
    /\ UNCHANGED <<op, sched, owner, attr_initialized, mem, buf, shows, calls>>

(* mutant: attr_init() leaves the other threads in their loop.             *)
NeverReady(t) ==
    /\ pc[t] = "tell"
    /\ Go(t, "give")
    /\ UNCHANGED <<op, sched, owner, attr_initialized, mem, buf, shows, calls>>

(* The setters broadcast; attr_init() ends the wait of the other threads.  *)
tell(t) ==
    /\ pc[t] = "tell"
    /\ attr_initialized' = (attr_initialized \/ op[t] = "init")
    /\ Go(t, "give")
    /\ UNCHANGED <<op, sched, owner, mem, buf, shows, calls>>

(* -EAGAIN, -EWOULDBLOCK, or the mutex without the lock of the scheduler;  *)
(* allow_show() hides or obscures some values.                             *)
attr_show(t) ==
    /\ pc[t] = "try"
    /\ IF attr_initialized /\ owner = NoThread
       THEN owner' = t /\ (Go(t, "r1") \/ Go(t, "give"))
       ELSE owner' = owner /\ Go(t, "idle")
    /\ UNCHANGED <<op, sched, attr_initialized, mem, buf, shows, calls>>

-----------------------------------------------------------------------------
(* A thread is woken by its own event and calls one of the functions; the  *)
(* thread of attr_init() does when the system has started.                 *)
Call(t, o) ==
    /\ pc[t] = "idle"
    /\ calls[t] < MaxCalls[t]
    /\ op' = [op EXCEPT ![t] = o]
    /\ buf' = [buf EXCEPT ![t] = Zero]
    /\ calls' = [calls EXCEPT ![t] = @ + 1]
    /\ Go(t, First(o))
    /\ UNCHANGED <<sched, owner, attr_initialized, mem, shows>>

Step(t) ==
    \/ spin(t) \/ k_mutex_lock(t) \/ k_sched_lock(t)
    \/ k_mutex_unlock(t) \/ k_sched_unlock(t)
    \/ write(t) \/ copy_default(t) \/ read(t) \/ io(t) \/ tell(t) \/ attr_show(t)

(* The kernel decides who runs after each of them.                         *)
Scheduled == mixed' = (mixed \/ Meets') /\ Dispatch

Run(t) == t = running /\ (k_yield(t) \/ (Step(t) /\ Scheduled))
Answer(t) == IoDone(t) /\ Scheduled
Woken(t) == \E o \in Calls[t] : Call(t, o) /\ Scheduled

Next == \E t \in Threads : Run(t) \/ Answer(t) \/ Woken(t)

(* The processor executes the running thread; the devices answer.          *)
Fairness ==
    /\ WF_vars(\E t \in Threads : Run(t))
    /\ \A t \in Threads : WF_vars(Answer(t))

Spec == Init /\ [][Next]_vars /\ Fairness

-----------------------------------------------------------------------------
(* A value read under attr_mutex (attr_get and the other getters, show,    *)
(* dump) was in memory as a whole, unless attr_default() or attr_factory_  *)
(* reset(), which copy defaults without the mutex, and another access of   *)
(* the value met half way.                                                 *)
LockedReadsAreWhole ==
    \A t \in Threads :
        op[t] \in {"get", "show"} /\ pc[t] \in {"give", "sched_unlock"}
            => Whole(buf[t]) \/ mixed

(* attr_copy_string() takes no mutex. The thread that is more urgent than  *)
(* every other one gets the whole value all the same, because the setters  *)
(* lock the scheduler, as long as no thread has shown a value: after       *)
(* attr_show() a setter is preemptible half way. (A less urgent reader can *)
(* always get half of a new value.) It can still stop attr_default() or    *)
(* attr_factory_reset() half way.                                          *)
CopyIsWhole ==
    \A t \in Threads :
        /\ op[t] = "copy" /\ pc[t] = "idle"
        /\ \A u \in Threads \ {t} : Priority[t] < Priority[u] /\ shows[u] = 0
        => Whole(buf[t]) \/ mixed

(* sched_locked is what k_sched_lock() and k_sched_unlock() left of it: 0  *)
(* outside the functions but for the attr_show() of this thread, each of   *)
(* which unlocks a scheduler it never locked.                              *)
Locked(t) ==
    /\ op[t] # "show"
    /\ \/ pc[t] \in {"w1", "w2", "io", "blocked", "tell", "give", "sched_unlock"}
       \/ pc[t] \in {"r1", "r2"} /\ op[t] = "get"

SchedBalance ==
    \A t \in Threads : sched[t] = shows[t] - (IF Locked(t) THEN 1 ELSE 0)

(* "After a broadcast, don't allow another task to become active until     *)
(* mutex is released", and none before the thread waits for a device. It   *)
(* fails in a thread that has called attr_show() once: its k_sched_lock()  *)
(* takes sched_locked back to 0.                                           *)
HolderRunsAlone ==
    \A t \in Threads :
        /\ owner = t /\ op[t] # "show" /\ shows[t] # 1
        /\ \/ pc[t] \in {"w1", "w2", "r1", "r2"}
           \/ pc[t] = "give" /\ op[t] # "reset"
        => running = t

(* attr_mutex is held by the thread that is between its two macros.        *)
HolderIsInside ==
    \A t \in Threads :
        (owner = t) <=> \/ pc[t] \in {"sched_lock", "w1", "w2", "io", "blocked", "tell", "give"}
                        \/ pc[t] \in {"r1", "r2"} /\ op[t] # "copy"

(* What the other modules rely on when they take an access under           *)
(* attr_mutex as one step: writes and locked reads are atomic, a read      *)
(* returns the value written last, and attr_default() and the factory      *)
(* reset break this only if they meet another access half way. The value   *)
(* changes with its second word; a reader has it when it has read both.    *)
Copy(t) == IF op[t] \in {"get", "show"} /\ pc[t] # "r2" THEN buf[t] ELSE Zero

Atomic == INSTANCE AtomicValue WITH
    Values <- {v \in [{1, 2} -> {0, 1}] : Whole(v)},
    Initial <- Zero,
    value <- [k \in {1, 2} |-> mem[2]],
    copy <- [t \in Threads |-> Copy(t)],
    torn <- mixed

AccessesAreAtomic == Atomic!Spec

(* The mutex is never left without an owner while a thread waits for it,   *)
(* and its owner is on its way to give it: no wakeup is lost.              *)
WaitersAreServed ==
    Waiting # {} => /\ owner \in Threads
                    /\ pc[owner] \notin {"idle", "spin", "lock", "wait", "sched_unlock"}

(* Every call returns, unless a thread more urgent than the one that       *)
(* executes attr_init() spins on attr_initialized: k_yield() never lets    *)
(* the less urgent thread run that would end the loop.                     *)
Starved ==
    \E t \in Threads : /\ pc[t] = "spin" /\ ~attr_initialized
                       /\ Priority[t] < Priority[InitThread]

CallsReturn == \A t \in Threads : pc[t] # "idle" ~> (pc[t] = "idle" \/ Starved)
==============================================================================
