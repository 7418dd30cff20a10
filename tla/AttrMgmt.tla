------------------------------- MODULE AttrMgmt -------------------------------
(***************************************************************************)
(* The SMP server of src/attribute_mgmt.c and the notifications it sends   *)
(* to a Bluetooth client, with the firmware threads that set attributes    *)
(* through src/attr.c.                                                     *)
(*                                                                         *)
(* The server handles one request at a time. The callbacks of the          *)
(* Bluetooth stack run between any two steps of the others. TAKE_MUTEX     *)
(* locks the scheduler: a thread that has attr_mutex lets the others run   *)
(* only while it blocks, which is when it saves and when it sends.         *)
(* Values are numbers; a request that the decoder, the type check or the   *)
(* validator refuses changes nothing: a set of an attribute that is not    *)
(* writable stands for all of those.                                       *)
(***************************************************************************)
EXTENDS Integers, Sequences, FiniteSets

CONSTANTS
    Attributes,        \* ids of the table
    Version,           \* ATTR_ID_config_version
    Readable,          \* attributes with FLAGS_READABLE
    Writable,          \* attributes with FLAGS_WRITABLE
    Fits,              \* attributes whose notification fits in the MTU
    NotifyUnchanged,   \* attributes with FLAGS_NOTIFY_IF_UNCHANGED
    Values,            \* what a set may write
    Firmware,          \* threads that call attr_set_uint32() and its like
    Incrementers,      \* those that call attr_increment_config_version()
    Server,            \* the thread of the SMP server
    NoThread,          \* the owner of a free mutex
    MaxLinks,          \* CONFIG_BT_MAX_CONN
    MaxSessions,       \* bound on the connections ever made
    MaxRequests,       \* bound on the requests ever sent
    MaxCalls           \* bound on the calls of each firmware thread

Threads == Firmware \cup {Server}

Sessions == 1..MaxSessions

ASSUME MgmtAssumption ==
    /\ Version \in Attributes \ Writable
    /\ Readable \subseteq Attributes
    /\ Writable \subseteq Attributes
    /\ Fits \subseteq Attributes
    /\ NotifyUnchanged \subseteq Attributes
    /\ Values \subseteq Nat
    /\ Incrementers \subseteq Firmware
    /\ Server \notin Firmware
    /\ NoThread \notin Threads
    /\ {MaxLinks, MaxSessions, MaxRequests, MaxCalls} \subseteq Nat

VARIABLES
    value,             \* RAM value of each attribute
    modified,          \* attributes whose bit of attr_modified is set
    unchanged,         \* attributes whose bit of attr_unchanged is set
    notify,            \* attributes whose bit of notify is set
    handle,            \* smp_ble.conn_handle, 0 for NULL
    links,             \* connections that are up
    closing,           \* connections that are down, before the end of
                       \* smp_ble_disconnected()
    stage,             \* how far that callback of each connection is
    sessions,          \* connections made so far
    refs,              \* references to each that this module has taken
    owner,             \* the thread that holds attr_mutex
    pc,                \* where each thread is
    call,              \* the call each thread is in
    queue,             \* requests the server has not taken
    calls,             \* calls of each firmware thread
    requests,          \* requests sent so far
    answered,          \* requests answered so far
    told,              \* what each client last learned from a notification
    missed,            \* attributes changed with no notification sent
    late,              \* a closed connection's set_notify was handled
    increments         \* increments of the version that returned 0

firmwareVars == <<calls>>
linkVars == <<handle, links, closing, stage, sessions, refs>>
requestVars == <<queue, requests, answered>>
storeVars == <<value, modified, unchanged, owner>>
clientVars == <<told, missed>>

vars == <<value, modified, unchanged, notify, handle, links, closing,
          stage, sessions, refs, owner, pc, call, queue, calls, requests, answered,
          told, missed, late, increments>>

Untold == -1

(* The requests: what they ask, on which connection.                       *)
Request ==
    [op : {"get", "get_notify", "disable_notify"}, from : Sessions]
        \cup [op : {"set"}, from : Sessions, attr : Attributes, val : Values]
        \cup [op : {"set_notify"}, from : Sessions, attr : Attributes,
              on : BOOLEAN]

(* The call of a thread: the attribute it writes, whether change_single()  *)
(* was asked to notify, the version read by attr_add_uint32(), whether the *)
(* set modified the attribute, whether save_single() returned 0, and the   *)
(* handle and the value smp_bt_notify() was given.                         *)
Call == [attr : Attributes, loud : BOOLEAN, got : Nat, mod : BOOLEAN,
         ok : BOOLEAN, to : 0..MaxSessions, msg : Nat]

NoCall == [attr |-> Version, loud |-> FALSE, got |-> 0, mod |-> FALSE,
           ok |-> FALSE, to |-> 0, msg |-> 0]

TypeOK ==
    /\ value \in [Attributes -> Nat]
    /\ modified \subseteq Attributes
    /\ unchanged \subseteq Attributes
    /\ notify \subseteq Readable
    /\ handle \in 0..MaxSessions
    /\ links \subseteq Sessions
    /\ closing \subseteq Sessions
    /\ stage \in [Sessions -> {"lost", "unreferenced", "cleared"}]
    /\ sessions \in 0..MaxSessions
    /\ refs \in [Sessions -> Int]
    /\ owner \in Threads \cup {NoThread}
    /\ pc \in [Threads -> {"idle", "read", "add", "save", "send", "respond"}]
    /\ call \in [Threads -> Call]
    /\ queue \in Seq(Request)
    /\ calls \in [Firmware -> 0..MaxCalls]
    /\ requests \in 0..MaxRequests
    /\ answered \in 0..MaxRequests
    /\ told \in [Sessions -> [Attributes -> Nat \cup {Untold}]]
    /\ missed \subseteq Attributes
    /\ late \in BOOLEAN
    /\ increments \in Nat

Init ==
    /\ value = [a \in Attributes |-> 0]
    /\ modified = {}
    /\ unchanged = {}
    /\ notify = {}
    /\ handle = 0
    /\ links = {}
    /\ closing = {}
    /\ stage = [s \in Sessions |-> "lost"]
    /\ sessions = 0
    /\ refs = [s \in Sessions |-> 0]
    /\ owner = NoThread
    /\ pc = [t \in Threads |-> "idle"]
    /\ call = [t \in Threads |-> NoCall]
    /\ queue = <<>>
    /\ calls = [t \in Firmware |-> 0]
    /\ requests = 0
    /\ answered = 0
    /\ told = [s \in Sessions |-> [a \in Attributes |-> Untold]]
    /\ missed = {}
    /\ late = FALSE
    /\ increments = 0

-----------------------------------------------------------------------------
(* Writing an attribute: attr_set_uint32(), attr_add_uint32() and          *)
(* attr_set() have these steps in common.                                  *)

(* TAKE_MUTEX and attr_write() of v to a by t, up to the save.             *)
WriteUnlocked(t, a, v, loud) ==        \* mutant: TAKE_MUTEX missing
    /\ value' = [value EXCEPT ![a] = v]
    /\ modified' = IF v # value[a] THEN modified \cup {a} ELSE modified
    /\ unchanged' = IF v = value[a] /\ a \in NotifyUnchanged
                    THEN unchanged \cup {a} ELSE unchanged
    /\ pc' = [pc EXCEPT ![t] = "save"]
    /\ call' = [call EXCEPT ![t] =
          [@ EXCEPT !.attr = a, !.loud = loud, !.mod = v # value[a]]]
    /\ UNCHANGED owner

Write(t, a, v, loud) ==
    /\ owner = NoThread
    /\ owner' = t
    /\ value' = [value EXCEPT ![a] = v]
    /\ modified' = IF v # value[a] THEN modified \cup {a} ELSE modified
    /\ unchanged' = IF v = value[a] /\ a \in NotifyUnchanged
                    THEN unchanged \cup {a} ELSE unchanged
    /\ pc' = [pc EXCEPT ![t] = "save"]
    /\ call' = [call EXCEPT ![t] =
          [@ EXCEPT !.attr = a, !.loud = loud,
                    !.mod = v # value[a] \/ a \in modified]]

ReleaseIfSaved(t, ok) ==               \* mutant: mutex kept after an error
    /\ modified' = modified \ {call[t].attr}
    /\ unchanged' = unchanged \ {call[t].attr}
    /\ owner' = IF ok THEN NoThread ELSE owner
    /\ pc' = [pc EXCEPT ![t] = IF t = Server THEN "respond" ELSE "idle"]
    /\ increments' = increments

(* The end of the call once save_single() has returned ok and              *)
(* change_single() has done its part: bits cleared, mutex released. The    *)
(* server goes on with the version when its set modified the attribute.    *)
Release(t, ok) ==
    /\ modified' = modified \ {call[t].attr}
    /\ unchanged' = unchanged \ {call[t].attr}
    /\ owner' = NoThread
    /\ pc' = [pc EXCEPT ![t] =
          CASE t \in Firmware -> "idle"
            [] t = Server /\ call[t].attr # Version /\ ok /\ call[t].mod
                 -> "read"
            [] OTHER -> "respond"]
    /\ increments' = IF ok /\ call[t].attr = Version
                     THEN increments + 1 ELSE increments

(* What change_single(), notification_handler() and attr_notify() test.    *)
Notifiable(t) ==
    /\ call[t].attr \in modified \cup unchanged
    /\ call[t].loud
    /\ call[t].attr \in notify
    /\ handle # 0
    /\ call[t].attr \in Fits

(* The save has returned; there is no notification to send.                *)
ChangeSilently(t) ==
    /\ pc[t] = "save"
    /\ ~Notifiable(t)
    /\ \E ok \in BOOLEAN : Release(t, ok)
    /\ missed' = IF call[t].attr \in modified
                 THEN missed \cup {call[t].attr} ELSE missed
    /\ UNCHANGED <<value, notify, call, told, late, calls>>
    /\ UNCHANGED <<linkVars, requestVars>>

(* The save has returned; attr_notify() encodes the value and calls        *)
(* smp_bt_notify(), which may wait for a buffer.                           *)
ChangeAndNotify(t) ==
    /\ pc[t] = "save"
    /\ Notifiable(t)
    /\ \E ok \in BOOLEAN :
          call' = [call EXCEPT ![t] =
              [@ EXCEPT !.to = handle, !.msg = value[call[t].attr], !.ok = ok]]
    /\ pc' = [pc EXCEPT ![t] = "send"]
    /\ UNCHANGED <<storeVars, notify, told, missed, late, increments, calls>>
    /\ UNCHANGED <<linkVars, requestVars>>

(* smp_bt_notify() returns. An error is logged and nothing is sent again.  *)
Notified(t) ==
    /\ pc[t] = "send"
    /\ Release(t, call[t].ok)
    /\ \/ /\ call[t].to \in links
          /\ told' = [told EXCEPT ![call[t].to][call[t].attr] = call[t].msg]
          /\ missed' = missed \ {call[t].attr}
       \/ /\ missed' = missed \cup {call[t].attr}
          /\ UNCHANGED told
    /\ UNCHANGED <<value, notify, call, late, calls>>
    /\ UNCHANGED <<linkVars, requestVars>>

-----------------------------------------------------------------------------
(* Firmware threads.                                                       *)

(* attr_set_uint32() and its like.                                         *)
FirmwareSet(t) ==
    /\ pc[t] = "idle"
    /\ calls[t] < MaxCalls
    /\ calls' = [calls EXCEPT ![t] = @ + 1]
    /\ \E a \in Attributes \ {Version}, v \in Values : Write(t, a, v, TRUE)
    /\ UNCHANGED <<notify, told, missed, late, increments>>
    /\ UNCHANGED <<linkVars, requestVars>>

(* attr_copy_uint32() in attr_add_uint32(): the mutex is taken and given   *)
(* back.                                                                   *)
CopyVersion(t) ==
    /\ owner = NoThread
    /\ call' = [call EXCEPT ![t].got = value[Version]]
    /\ pc' = [pc EXCEPT ![t] = "add"]
    /\ UNCHANGED <<storeVars, notify, told, missed, late, increments>>
    /\ UNCHANGED <<linkVars, requestVars>>

(* attr_increment_config_version().                                        *)
Increment(t) ==
    /\ t \in Incrementers
    /\ pc[t] = "idle"
    /\ calls[t] < MaxCalls
    /\ calls' = [calls EXCEPT ![t] = @ + 1]
    /\ CopyVersion(t)

(* The rest of attr_add_uint32(ATTR_ID_config_version, 1).                 *)
AddVersion(t) ==
    /\ pc[t] = "add"
    /\ Write(t, Version, call[t].got + 1, TRUE)
    /\ UNCHANGED <<notify, told, missed, late, increments, calls>>
    /\ UNCHANGED <<linkVars, requestVars>>

-----------------------------------------------------------------------------
(* The SMP server.                                                         *)

(* The server takes the oldest request.                                    *)
Take(op) ==
    /\ pc[Server] = "idle"
    /\ queue # <<>>
    /\ Head(queue).op = op
    /\ queue' = Tail(queue)

RespondNext == pc' = [pc EXCEPT ![Server] = "respond"]

(* get_parameter(): attr_get() takes the mutex and gives it back.          *)
GetParameter ==
    /\ Take("get")
    /\ owner = NoThread
    /\ RespondNext
    /\ UNCHANGED <<storeVars, notify, call, told, missed, late, increments,
                   calls, requests, answered>>
    /\ UNCHANGED linkVars

(* set_parameter() of a writable attribute, with a value it accepts.       *)
SetParameter ==
    /\ Take("set")
    /\ Head(queue).attr \in Writable
    /\ Write(Server, Head(queue).attr, Head(queue).val, FALSE)
    /\ UNCHANGED <<notify, told, missed, late, increments, calls, requests,
                   answered>>
    /\ UNCHANGED linkVars

(* A request that changes nothing: get_notify(), and a set that is refused *)
(* because of its attribute, its type or its value.                        *)
Reply ==
    /\ \/ Take("get_notify")
       \/ Take("set") /\ Head(queue).attr \notin Writable
    /\ RespondNext
    /\ UNCHANGED <<storeVars, notify, call, told, missed, late, increments,
                   calls, requests, answered>>
    /\ UNCHANGED linkVars

(* attr_increment_config_version() after a set that modified.              *)
ServerIncrements ==
    /\ pc[Server] = "read"
    /\ CopyVersion(Server)
    /\ UNCHANGED calls

(* set_notify(), attr_set_notify().                                        *)
SetNotify ==
    /\ Take("set_notify")
    /\ LET r == Head(queue)
       IN IF r.attr \in Readable
          THEN /\ notify' = IF r.on THEN notify \cup {r.attr}
                                    ELSE notify \ {r.attr}
               /\ late' = (late \/ (r.on /\ r.from \notin links))
          ELSE UNCHANGED <<notify, late>>
    /\ RespondNext
    /\ UNCHANGED <<storeVars, call, told, missed, increments, calls, requests,
                   answered>>
    /\ UNCHANGED linkVars

(* disable_notify(), attr_disable_notify().                                *)
DisableNotify ==
    /\ Take("disable_notify")
    /\ notify' = {}
    /\ late' = FALSE
    /\ RespondNext
    /\ UNCHANGED <<storeVars, call, told, missed, increments, calls, requests,
                   answered>>
    /\ UNCHANGED linkVars

(* The handler returns and the server transmits the response.              *)
Respond ==
    /\ pc[Server] = "respond"
    /\ pc' = [pc EXCEPT ![Server] = "idle"]
    /\ answered' = answered + 1
    /\ UNCHANGED <<storeVars, notify, call, told, missed, late, increments,
                   calls, queue, requests>>
    /\ UNCHANGED linkVars

-----------------------------------------------------------------------------
(* The Bluetooth stack and the client, which are external.                 *)

CanConnect ==
    /\ Cardinality(links \cup closing) < MaxLinks
    /\ sessions < MaxSessions

(* The stack makes its callbacks one after the other.                      *)
NoCallback == \A s \in closing : stage[s] = "lost"

othersOfLink == <<storeVars, notify, pc, call, told, missed, late, increments,
                  calls, requestVars>>

(* smp_ble_connected(conn, 0).                                             *)
Connected ==
    /\ CanConnect
    /\ NoCallback
    /\ sessions' = sessions + 1
    /\ links' = links \cup {sessions'}
    /\ handle' = sessions'
    /\ refs' = [refs EXCEPT ![sessions'] = @ + 1]
    /\ UNCHANGED <<closing, stage>>
    /\ UNCHANGED othersOfLink

(* smp_ble_connected(conn, err): the attempt failed.                       *)
ConnectFailed ==
    /\ CanConnect
    /\ NoCallback
    /\ sessions' = sessions + 1
    /\ handle' = 0
    /\ refs' = [refs EXCEPT ![sessions'] = @ - 1]
    /\ UNCHANGED <<links, closing, stage>>
    /\ UNCHANGED othersOfLink

(* The link is gone. conn_handle is as it was until the callback runs.     *)
LinkLost(s) ==
    /\ s \in links
    /\ links' = links \ {s}
    /\ closing' = closing \cup {s}
    /\ UNCHANGED <<handle, stage, sessions, refs>>
    /\ UNCHANGED othersOfLink

(* smp_ble_disconnected(): bt_conn_unref().                                *)
Disconnected(s) ==
    /\ s \in closing
    /\ NoCallback
    /\ stage' = [stage EXCEPT ![s] = "unreferenced"]
    /\ refs' = [refs EXCEPT ![s] = @ - 1]
    /\ UNCHANGED <<handle, links, closing, sessions>>
    /\ UNCHANGED othersOfLink

(* smp_ble_disconnected(): conn_handle = NULL.                             *)
DisconnectedClears(s) ==
    /\ s \in closing
    /\ stage[s] = "unreferenced"
    /\ stage' = [stage EXCEPT ![s] = "cleared"]
    /\ handle' = 0
    /\ UNCHANGED <<links, closing, sessions, refs>>
    /\ UNCHANGED othersOfLink

NotDisabled(s) ==                      \* mutant: the bits of notify kept
    /\ s \in closing
    /\ stage[s] = "cleared"
    /\ closing' = closing \ {s}
    /\ notify' = notify
    /\ late' = FALSE
    /\ UNCHANGED <<storeVars, pc, call, told, missed, increments, calls>>
    /\ UNCHANGED <<handle, links, stage, sessions, refs, requestVars>>

(* attr_disable_notify() in smp_ble_disconnected().                        *)
DisconnectedDisables(s) ==
    /\ s \in closing
    /\ stage[s] = "cleared"
    /\ closing' = closing \ {s}
    /\ notify' = {}
    /\ late' = FALSE
    /\ UNCHANGED <<storeVars, pc, call, told, missed, increments, calls>>
    /\ UNCHANGED <<handle, links, stage, sessions, refs, requestVars>>

(* A client sends a request, which waits for the server.                   *)
SendRequest(s) ==
    /\ s \in links
    /\ requests < MaxRequests
    /\ requests' = requests + 1
    /\ \E r \in Request : r.from = s /\ queue' = Append(queue, r)
    /\ UNCHANGED <<storeVars, notify, pc, call, told, missed, late, increments,
                   calls, answered>>
    /\ UNCHANGED linkVars

-----------------------------------------------------------------------------
ThreadStep(t) ==
    \/ ChangeSilently(t)
    \/ ChangeAndNotify(t)
    \/ Notified(t)
    \/ AddVersion(t)

FirmwareStep(t) == FirmwareSet(t) \/ Increment(t)

ServerStep ==
    \/ GetParameter
    \/ SetParameter
    \/ Reply
    \/ ServerIncrements
    \/ SetNotify
    \/ DisableNotify
    \/ Respond

LinkStep ==
    \/ Connected
    \/ ConnectFailed
    \/ \E s \in Sessions :
          \/ LinkLost(s)
          \/ Disconnected(s)
          \/ DisconnectedClears(s)
          \/ DisconnectedDisables(s)
          \/ SendRequest(s)

Next ==
    \/ \E t \in Threads : ThreadStep(t)
    \/ \E t \in Firmware : FirmwareStep(t)
    \/ ServerStep
    \/ LinkStep

Spec == Init /\ [][Next]_vars

(* The scheduler runs every thread that is ready, and the mutex is handed  *)
(* to the threads that wait for it. Nobody has to call, connect or ask.    *)
FairSpec ==
    /\ Spec
    /\ \A t \in Threads : WF_vars(ThreadStep(t))
    /\ WF_vars(ServerStep)
    /\ \A s \in Sessions :
          /\ WF_vars(Disconnected(s))
          /\ WF_vars(DisconnectedClears(s))
          /\ WF_vars(DisconnectedDisables(s))

-----------------------------------------------------------------------------
(* While nobody is inside a write, the last notification a subscribed      *)
(* client received of an attribute carried the value the attribute has     *)
(* now, unless its last change was one for which no notification was sent. *)
(* It is about attr_modified, attr_unchanged, notify and conn_handle,      *)
(* which change_single() and attr_notify() read after the save.            *)
SubscriberIsCurrent ==
    (owner = NoThread /\ handle \in links) =>
        \A a \in notify \ missed :
            told[handle][a] \in {Untold, value[a]}

(* A bit of notify is set while no connection is up only because the       *)
(* server handled a request of a connection that had closed before it:     *)
(* smp_ble_disconnected() leaves none.                                     *)
NotifyOffWhenClosed ==
    (links = {} /\ closing = {} /\ ~late) => notify = {}

(* Every increment of config_version that returned 0 is in its value:      *)
(* Kconfig says that each successful set increments it, and attr.h that    *)
(* attr_add_uint32() adds to the current value.                            *)
VersionCounts == value[Version] >= increments

(* A request is waiting, in the hands of the server, or answered once.     *)
RequestsAreCounted ==
    requests = answered + Len(queue) + (IF pc[Server] = "idle" THEN 0 ELSE 1)

(* While a request is not answered, the server is not stuck: when it needs *)
(* the mutex, its owner is at a step that needs nothing, and else the      *)
(* server has a step of its own to make.                                   *)
NobodyIsStuck ==
    answered < requests =>
        IF owner = NoThread
        THEN IF pc[Server] = "idle" THEN queue # <<>>
             ELSE pc[Server] \in {"read", "add", "respond"}
        ELSE owner \in Threads /\ pc[owner] \in {"save", "send"}

(* Every request a client sent is answered in the end: the server never    *)
(* waits for ever for attr_mutex.                                          *)
EveryRequestAnswered ==
    \A n \in 1..MaxRequests : (requests >= n) ~> (answered >= n)
=============================================================================
