---------------------------- MODULE AttrMgmtProofs ----------------------------
(***************************************************************************)
(* Proofs about AttrMgmt for any number of threads, connections, requests  *)
(* and attributes: its types, the bits of notify, the value a subscriber   *)
(* has, and the requests, of which none is lost or stuck. That every one   *)
(* is answered is a property of fair behaviours and is left to TLC.        *)
(***************************************************************************)
EXTENDS AttrMgmt, SequenceTheorems, TLAPS

Places == {"idle", "read", "add", "save", "send", "respond"}

(* The counters and the functions.                                         *)
ShapeInv ==
    /\ value \in [Attributes -> Nat]
    /\ pc \in [Threads -> Places]
    /\ call \in [Threads -> Call]
    /\ calls \in [Firmware -> 0..MaxCalls]
    /\ told \in [Sessions -> [Attributes -> Nat \cup {Untold}]]
    /\ missed \subseteq Attributes
    /\ increments \in Nat

(* The requests: each is waiting, in the hands of the server, or answered. *)
Busy == IF pc[Server] = "idle" THEN 0 ELSE 1
RequestInv ==
    /\ queue \in Seq(Request)
    /\ requests \in 0..MaxRequests /\ answered \in Nat
    /\ answered + Len(queue) + Busy = requests

(* The connections, numbered as they were made; conn_handle is NULL or one *)
(* of them, up or not.                                                     *)
LinkInv ==
    /\ sessions \in 0..MaxSessions
    /\ handle \in 0..sessions
    /\ links \subseteq 1..sessions /\ closing \subseteq 1..sessions
    /\ stage \in [Sessions -> {"lost", "unreferenced", "cleared"}]
    /\ refs \in [Sessions -> Int]

NotifyInv ==
    /\ notify \subseteq Readable
    /\ late \in BOOLEAN
    /\ NotifyOffWhenClosed

(* attr_mutex is held by the thread that saves or sends, and the bits are  *)
(* those of the attribute it writes.                                       *)
MutexInv ==
    /\ owner \in Threads \cup {NoThread}
    /\ \A t \in Threads : pc[t] \in {"save", "send"} <=> owner = t
    /\ owner = NoThread => modified = {} /\ unchanged = {}
    /\ owner \in Threads =>
          modified \subseteq {call[owner].attr} /\ unchanged \subseteq {call[owner].attr}

(* What the client of conn_handle was told last, subscribed or not: a      *)
(* change that is not sent counts as missed.                               *)
Current(a) ==
    handle # 0 /\ a \notin missed => told[handle][a] \in {Untold, value[a]}

Written(a) ==
    /\ owner # NoThread
    /\ call[owner].attr = a
    /\ pc[owner] = "send" \/ a \in modified

CurrentInv ==
    /\ \A a \in Attributes : Written(a) \/ Current(a)
    /\ \A t \in Threads : pc[t] = "send" =>
          /\ call[t].to # 0
          /\ call[t].msg = value[call[t].attr]
          /\ handle # 0 /\ handle # call[t].to => told[handle][call[t].attr] = Untold
    /\ \A s \in Sessions : s > sessions => told[s] = [a \in Attributes |-> Untold]

MgmtInv ==
    ShapeInv /\ RequestInv /\ LinkInv /\ NotifyInv /\ MutexInv /\ CurrentInv

-----------------------------------------------------------------------------
LEMMA Members ==
  /\ Server \in Threads /\ Firmware \subseteq Threads /\ NoThread \notin Threads
  /\ Server \notin Firmware
  /\ Version \in Attributes /\ Version \notin Writable
  /\ Writable \subseteq Attributes /\ Readable \subseteq Attributes
  /\ Values \subseteq Nat
  /\ MaxLinks \in Nat /\ MaxSessions \in Nat /\ MaxRequests \in Nat /\ MaxCalls \in Nat
  BY MgmtAssumption DEF MgmtAssumption, Threads

LEMMA CallFields ==
  ASSUME NEW c \in Call
  PROVE  /\ c.attr \in Attributes /\ c.got \in Nat /\ c.to \in 0..MaxSessions /\ c.msg \in Nat
         /\ c.mod \in BOOLEAN /\ c.ok \in BOOLEAN /\ c.loud \in BOOLEAN
  BY DEF Call

LEMMA LinkNumbers ==
  ASSUME LinkInv
  PROVE  /\ \A s \in links \cup closing : s \in Sessions /\ s \in Int /\ s > 0 /\ ~(s > sessions)
         /\ handle \in 0..MaxSessions
         /\ handle # 0 => handle \in Sessions /\ ~(handle > sessions)
         /\ sessions \in Int /\ Sessions \subseteq Int
  <1>1. sessions \in 0..MaxSessions /\ MaxSessions \in Nat
    BY Members DEF LinkInv
  <1>2. \A s \in 1..sessions : s \in Sessions /\ s \in Int /\ s > 0 /\ ~(s > sessions)
    BY <1>1 DEF Sessions
  <1>3. Sessions \subseteq 0..MaxSessions
    BY <1>1 DEF Sessions
  <1>4. links \subseteq 1..sessions /\ closing \subseteq 1..sessions
    BY DEF LinkInv
  <1>5. handle # 0 => handle \in 1..sessions
    BY <1>1 DEF LinkInv
  <1>6. handle \in 0..MaxSessions
    BY <1>1, <1>5
  <1>7. 0..MaxSessions \subseteq Int /\ sessions \in Int
    BY <1>1
  <1> QED
    BY <1>2, <1>3, <1>4, <1>5, <1>6, <1>7

LEMMA InitMgmt == Init => MgmtInv
  <1> SUFFICES ASSUME Init PROVE MgmtInv
    OBVIOUS
  <1>1. NoCall \in Call
    BY Members DEF NoCall, Call
  <1>2. ShapeInv
    BY <1>1, Members DEF Init, ShapeInv, Places
  <1>3. RequestInv
    BY Members DEF Init, RequestInv, Busy
  <1>4. LinkInv
    BY Members DEF Init, LinkInv
  <1>5. NotifyInv
    BY DEF Init, NotifyInv, NotifyOffWhenClosed
  <1>6. MutexInv
    BY Members DEF Init, MutexInv
  <1>7. CurrentInv
    BY Members DEF Init, CurrentInv, Current
  <1> QED
    BY <1>2, <1>3, <1>4, <1>5, <1>6, <1>7 DEF MgmtInv

-----------------------------------------------------------------------------
(* The pieces of a write.                                                  *)

(* Write(): the mutex is taken, and what the client has may be old.        *)
LEMMA WriteKeeps ==
  ASSUME MgmtInv, NEW t \in Threads, pc[t] \notin {"save", "send"},
         NEW a \in Attributes, NEW v \in Nat, NEW loud \in BOOLEAN,
         Write(t, a, v, loud), UNCHANGED <<told, missed, handle, sessions, increments>>,
         calls' \in [Firmware -> 0..MaxCalls]
  PROVE  ShapeInv' /\ MutexInv' /\ CurrentInv'
  <1>0. owner = NoThread /\ owner' = t /\ pc' = [pc EXCEPT ![t] = "save"]
    BY DEF Write
  <1>1. call' \in [Threads -> Call] /\ call'[t].attr = a
    <2> DEFINE m == v # value[a] \/ a \in modified
               new == [call[t] EXCEPT !.attr = a, !.loud = loud, !.mod = m]
    <2>1. call[t] \in Call /\ call \in [Threads -> Call]
      BY DEF MgmtInv, ShapeInv
    <2>2. m \in BOOLEAN
      OBVIOUS
    <2>3. call' = [call EXCEPT ![t] = new]
      BY <2>1 DEF Write
    <2> HIDE DEF m
    <2>4. new \in Call /\ new.attr = a
      BY <2>1, <2>2 DEF Call
    <2> HIDE DEF new
    <2> QED
      BY <2>1, <2>3, <2>4
  <1>2. ShapeInv'
    BY <1>0, <1>1 DEF Write, MgmtInv, ShapeInv, Places
  <1>3. MutexInv'
    <2>1. modified' \subseteq {a} /\ unchanged' \subseteq {a}
      BY <1>0 DEF Write, MgmtInv, MutexInv
    <2>2. \A u \in Threads : pc'[u] \in {"save", "send"} <=> owner' = u
      BY <1>0, Members DEF MgmtInv, MutexInv, ShapeInv
    <2> QED
      BY <1>0, <1>1, <2>1, <2>2, Members DEF MutexInv
  <1>4. ASSUME NEW b \in Attributes PROVE Written(b)' \/ Current(b)'
    <2>1. Current(b)
      BY <1>0 DEF MgmtInv, CurrentInv, Written
    <2>2. CASE b # a
      <3>1. value'[b] = value[b]
        BY <2>2 DEF Write, MgmtInv, ShapeInv
      <3> QED
        BY <2>1, <3>1 DEF Current
    <2>3. CASE b = a /\ v = value[a]
      <3>1. value'[b] = value[b]
        BY <2>3 DEF Write, MgmtInv, ShapeInv
      <3> QED
        BY <2>1, <3>1 DEF Current
    <2>4. CASE b = a /\ v # value[a]
      <3>1. a \in modified'
        BY <2>4 DEF Write
      <3> QED
        BY <1>0, <1>1, <2>4, <3>1, Members DEF Written
    <2> QED
      BY <2>2, <2>3, <2>4
  <1>5. \A u \in Threads : pc'[u] # "send"
    BY <1>0, Members DEF MgmtInv, MutexInv, ShapeInv
  <1> QED
    BY <1>2, <1>3, <1>4, <1>5 DEF CurrentInv, MgmtInv

(* Release(): afterwards nothing is being written.                         *)
LEMMA ReleaseKeeps ==
  ASSUME MgmtInv, NEW t \in Threads, pc[t] \in {"save", "send"}, NEW ok \in BOOLEAN,
         Release(t, ok), UNCHANGED <<value, call, calls, handle, sessions>>,
         missed' \subseteq Attributes,
         told' \in [Sessions -> [Attributes -> Nat \cup {Untold}]],
         \A s \in Sessions : s > sessions => told'[s] = told[s],
         \A a \in Attributes : Current(a)'
  PROVE  ShapeInv' /\ MutexInv' /\ CurrentInv' /\ Busy' = Busy
  <1>0. owner = t /\ owner' = NoThread
    BY DEF Release, MgmtInv, MutexInv
  <1>1. PICK place \in {"idle", "read", "respond"} :
           pc' = [pc EXCEPT ![t] = place] /\ (place = "idle" <=> t \in Firmware)
    BY Members DEF Release
  <1>2. ShapeInv'
    BY <1>1 DEF Release, MgmtInv, ShapeInv, Places
  <1>3. MutexInv'
    <2>1. \A u \in Threads : pc'[u] \notin {"save", "send"}
      BY <1>0, <1>1 DEF MgmtInv, MutexInv, ShapeInv
    <2>2. modified' = {} /\ unchanged' = {}
      BY <1>0 DEF Release, MgmtInv, MutexInv
    <2> QED
      BY <1>0, <2>1, <2>2, Members DEF MutexInv
  <1>4. CurrentInv'
    <2>1. \A u \in Threads : pc'[u] # "send"
      BY <1>0, <1>1 DEF MgmtInv, MutexInv, ShapeInv
    <2> QED
      BY <2>1 DEF CurrentInv, MgmtInv
  <1>5. Busy' = Busy
    BY <1>1, Members DEF Busy, MgmtInv, ShapeInv
  <1> QED
    BY <1>2, <1>3, <1>4, <1>5

(* A step of a thread that does not write: its place changes.              *)
LEMMA PlaceKeeps ==
  ASSUME MgmtInv, NEW t \in Threads, NEW place \in {"idle", "read", "add", "respond"},
         pc[t] \notin {"save", "send"}, pc' = [pc EXCEPT ![t] = place],
         call' \in [Threads -> Call], \A u \in Threads \ {t} : call'[u] = call[u],
         calls' \in [Firmware -> 0..MaxCalls],
         UNCHANGED <<storeVars, told, missed, increments, handle, sessions>>
  PROVE  ShapeInv' /\ MutexInv' /\ CurrentInv'
  <1>1. ShapeInv'
    BY DEF MgmtInv, ShapeInv, storeVars, Places
  <1>2. owner # t
    BY DEF MgmtInv, MutexInv
  <1>3. \A u \in Threads : pc'[u] = IF u = t THEN place ELSE pc[u]
    BY DEF MgmtInv, ShapeInv
  <1>4. MutexInv'
    BY <1>2, <1>3, Members DEF MgmtInv, MutexInv, storeVars
  <1>5. \A a \in Attributes : Written(a) => Written(a)'
    BY <1>2, <1>3, Members DEF Written, storeVars, MgmtInv, MutexInv
  <1>6. \A a \in Attributes : Current(a) => Current(a)'
    BY DEF Current, storeVars
  <1>7. \A u \in Threads : pc'[u] = "send" => pc[u] = "send" /\ call'[u] = call[u]
    BY <1>3
  <1> QED
    BY <1>1, <1>4, <1>5, <1>6, <1>7 DEF CurrentInv, MgmtInv, storeVars

-----------------------------------------------------------------------------
(* The threads.                                                            *)

LEMMA NotifyKept ==
  ASSUME NotifyInv, UNCHANGED <<notify, late, links, closing>>
  PROVE  NotifyInv'
  BY DEF NotifyInv, NotifyOffWhenClosed

LEMMA LinkKept ==
  ASSUME LinkInv, UNCHANGED linkVars
  PROVE  LinkInv' /\ UNCHANGED <<handle, links, closing, sessions>>
  BY DEF LinkInv, linkVars

LEMMA RequestKept ==
  ASSUME RequestInv, UNCHANGED requestVars, Busy' = Busy
  PROVE  RequestInv'
  BY DEF RequestInv, requestVars

LEMMA BusyElsewhere ==
  ASSUME ShapeInv, NEW t \in Threads, NEW place \in Places, pc' = [pc EXCEPT ![t] = place],
         t # Server \/ (pc[t] # "idle" /\ place # "idle")
  PROVE  Busy' = Busy
  BY Members DEF Busy, ShapeInv

LEMMA ThreadKeeps ==
  ASSUME MgmtInv, NEW t \in Threads, ThreadStep(t)
  PROVE  MgmtInv'
  <1>1. ASSUME ChangeSilently(t) PROVE MgmtInv'
    <2>1. PICK ok \in BOOLEAN : Release(t, ok)
      BY <1>1 DEF ChangeSilently
    <2>2. LinkInv' /\ UNCHANGED <<handle, links, closing, sessions>>
      BY <1>1, LinkKept DEF ChangeSilently, MgmtInv
    <2>3. owner = t /\ call[t].attr \in Attributes
      BY <1>1, CallFields DEF ChangeSilently, MgmtInv, MutexInv, ShapeInv
    <2>4. ASSUME NEW a \in Attributes PROVE Current(a)'
      <3>1. CASE a = call[t].attr /\ a \in modified
        BY <1>1, <3>1 DEF ChangeSilently, Current
      <3>2. CASE ~(a = call[t].attr /\ a \in modified)
        <4>1. ~Written(a)
          BY <1>1, <2>3, <3>2 DEF ChangeSilently, Written
        <4>2. Current(a)
          BY <4>1 DEF MgmtInv, CurrentInv
        <4>3. missed \subseteq missed'
          BY <1>1 DEF ChangeSilently
        <4> QED
          BY <1>1, <2>2, <4>2, <4>3 DEF ChangeSilently, Current
      <3> QED
        BY <3>1, <3>2
    <2>5. missed' \subseteq Attributes
      BY <1>1, <2>3 DEF ChangeSilently, MgmtInv, ShapeInv
    <2>6. ShapeInv' /\ MutexInv' /\ CurrentInv' /\ Busy' = Busy
      BY <1>1, <2>1, <2>2, <2>4, <2>5, ReleaseKeeps DEF ChangeSilently, MgmtInv, ShapeInv
    <2> QED
      BY <1>1, <2>2, <2>6, NotifyKept, RequestKept DEF ChangeSilently, MgmtInv
  <1>2. ASSUME ChangeAndNotify(t) PROVE MgmtInv'
    <2>1. PICK ok \in BOOLEAN :
            call' = [call EXCEPT ![t] =
                [@ EXCEPT !.to = handle, !.msg = value[call[t].attr], !.ok = ok]]
      BY <1>2 DEF ChangeAndNotify
    <2>2. LinkInv' /\ UNCHANGED <<handle, links, closing, sessions>>
      BY <1>2, LinkKept DEF ChangeAndNotify, MgmtInv
    <2>3. /\ call[t] \in Call /\ call[t].attr \in Attributes /\ owner = t
          /\ value[call[t].attr] \in Nat /\ handle \in 0..MaxSessions /\ handle # 0
      <3>1. call[t] \in Call /\ call[t].attr \in Attributes /\ owner = t
        BY <1>2, CallFields DEF ChangeAndNotify, MgmtInv, MutexInv, ShapeInv
      <3>2. handle # 0 /\ handle \in 0..MaxSessions
        BY <1>2, Members DEF ChangeAndNotify, Notifiable, MgmtInv, LinkInv
      <3> QED
        BY <3>1, <3>2 DEF MgmtInv, ShapeInv
    <2>4. /\ call'[t] \in Call /\ call'[t].attr = call[t].attr
          /\ call'[t].to = handle /\ call'[t].msg = value[call[t].attr]
      BY <2>1, <2>3 DEF MgmtInv, ShapeInv, Call
    <2>5. \A u \in Threads \ {t} : call'[u] = call[u]
      BY <2>1 DEF MgmtInv, ShapeInv
    <2>6. pc' = [pc EXCEPT ![t] = "send"] /\ UNCHANGED <<storeVars, told, missed, calls, increments>>
      BY <1>2 DEF ChangeAndNotify
    <2>7. call' \in [Threads -> Call]
      BY <2>1, <2>4, <2>5 DEF MgmtInv, ShapeInv
    <2>8. ShapeInv'
      BY <2>6, <2>7 DEF MgmtInv, ShapeInv, Places, storeVars
    <2>9. MutexInv'
      <3>1. \A u \in Threads : pc'[u] \in {"save", "send"} <=> owner' = u
        BY <1>2, <2>6 DEF ChangeAndNotify, MgmtInv, MutexInv, ShapeInv, storeVars
      <3> QED
        BY <2>3, <2>4, <2>6, <3>1 DEF MgmtInv, MutexInv, storeVars
    <2>10. ASSUME NEW a \in Attributes PROVE Written(a)' \/ Current(a)'
      <3>1. CASE a = call[t].attr
        BY <2>3, <2>4, <2>6, <3>1, Members DEF Written, storeVars, MgmtInv, ShapeInv
      <3>2. CASE a # call[t].attr
        BY <2>2, <2>3, <2>6, <3>2 DEF Written, Current, storeVars, MgmtInv, CurrentInv
      <3> QED
        BY <3>1, <3>2
    <2>11. ASSUME NEW u \in Threads, pc'[u] = "send"
           PROVE  /\ call'[u].to # 0
                  /\ call'[u].msg = value'[call'[u].attr]
                  /\ handle' # 0 /\ handle' # call'[u].to => told'[handle'][call'[u].attr] = Untold
      <3>1. CASE u = t
        BY <2>2, <2>3, <2>4, <2>6, <3>1 DEF storeVars
      <3>2. CASE u # t
        BY <2>2, <2>5, <2>6, <2>11, <3>2 DEF storeVars, MgmtInv, CurrentInv, ShapeInv
      <3> QED
        BY <3>1, <3>2
    <2>12. CurrentInv'
      BY <2>2, <2>6, <2>10, <2>11 DEF CurrentInv, MgmtInv
    <2>13. Busy' = Busy
      BY <1>2, <2>6, BusyElsewhere DEF ChangeAndNotify, MgmtInv, Places
    <2> QED
      BY <1>2, <2>2, <2>8, <2>9, <2>12, <2>13, NotifyKept, RequestKept DEF ChangeAndNotify, MgmtInv
  <1>3. ASSUME Notified(t) PROVE MgmtInv'
    <2>1. LinkInv' /\ UNCHANGED <<handle, links, closing, sessions>>
      BY <1>3, LinkKept DEF Notified, MgmtInv
    <2>2. /\ owner = t /\ call[t] \in Call /\ call[t].attr \in Attributes
          /\ call[t].msg \in Nat /\ call[t].ok \in BOOLEAN
      BY <1>3, CallFields DEF Notified, MgmtInv, MutexInv, ShapeInv
    <2>3. missed' \subseteq Attributes
      BY <1>3, <2>2 DEF Notified, MgmtInv, ShapeInv
    <2>4. call[t].to \in links => call[t].to \in Sessions /\ ~(call[t].to > sessions)
      BY LinkNumbers DEF MgmtInv
    <2>5. told' \in [Sessions -> [Attributes -> Nat \cup {Untold}]]
      BY <1>3, <2>2, <2>4 DEF Notified, MgmtInv, ShapeInv
    <2>6. \A s \in Sessions : s > sessions => told'[s] = told[s]
      BY <1>3, <2>4 DEF Notified, MgmtInv, ShapeInv
    <2>7. ASSUME NEW a \in Attributes PROVE Current(a)'
      <3>1. CASE a # call[t].attr
        <4>1. Current(a)
          BY <2>2, <3>1 DEF MgmtInv, CurrentInv, Written
        <4>2. handle # 0 => handle \in Sessions
          BY LinkNumbers DEF MgmtInv
        <4>3. handle # 0 => told'[handle][a] = told[handle][a]
          BY <1>3, <2>4, <3>1, <4>2 DEF Notified, MgmtInv, ShapeInv
        <4>4. a \notin missed' => a \notin missed
          BY <1>3, <3>1 DEF Notified
        <4> QED
          BY <1>3, <2>1, <4>1, <4>3, <4>4 DEF Notified, Current
      <3>2. CASE a = call[t].attr /\ a \in missed'
        BY <3>2 DEF Current
      <3>3. CASE a = call[t].attr /\ a \notin missed'
        <4>1. /\ call[t].to \in links
              /\ told' = [told EXCEPT ![call[t].to][call[t].attr] = call[t].msg]
          BY <1>3, <3>3 DEF Notified
        <4>2. CASE handle = call[t].to
          <5>1. told'[handle][a] = call[t].msg
            BY <2>4, <3>3, <4>1, <4>2 DEF MgmtInv, ShapeInv
          <5> QED
            BY <1>3, <2>1, <3>3, <5>1 DEF Notified, Current, MgmtInv, CurrentInv
        <4>3. CASE handle # call[t].to
          <5>1. handle # 0 => handle \in Sessions /\ told[handle][a] = Untold
            BY <1>3, <3>3, <4>3, LinkNumbers DEF Notified, MgmtInv, CurrentInv
          <5>2. handle # 0 => told'[handle][a] = Untold
            BY <4>1, <4>3, <5>1, <2>4 DEF MgmtInv, ShapeInv
          <5> QED
            BY <2>1, <5>2 DEF Current
        <4> QED
          BY <4>2, <4>3
      <3> QED
        BY <3>1, <3>2, <3>3
    <2>8. ShapeInv' /\ MutexInv' /\ CurrentInv' /\ Busy' = Busy
      BY <1>3, <2>1, <2>2, <2>3, <2>5, <2>6, <2>7, ReleaseKeeps DEF Notified
    <2> QED
      BY <1>3, <2>1, <2>8, NotifyKept, RequestKept DEF Notified, MgmtInv
  <1>4. ASSUME AddVersion(t) PROVE MgmtInv'
    <2>1. LinkInv' /\ UNCHANGED <<handle, links, closing, sessions>>
      BY <1>4, LinkKept DEF AddVersion, MgmtInv
    <2>2. call[t].got + 1 \in Nat /\ Version \in Attributes /\ pc[t] = "add"
      BY <1>4, CallFields, Members DEF AddVersion, MgmtInv, ShapeInv
    <2>3. ShapeInv' /\ MutexInv' /\ CurrentInv'
      BY <1>4, <2>1, <2>2, WriteKeeps DEF AddVersion, MgmtInv, ShapeInv
    <2>4. Busy' = Busy
      BY <1>4, <2>2, BusyElsewhere DEF AddVersion, Write, MgmtInv, Places
    <2> QED
      BY <1>4, <2>1, <2>3, <2>4, NotifyKept, RequestKept DEF AddVersion, MgmtInv
  <1> QED
    BY <1>1, <1>2, <1>3, <1>4 DEF ThreadStep

LEMMA FirmwareKeeps ==
  ASSUME MgmtInv, NEW t \in Firmware, FirmwareStep(t)
  PROVE  MgmtInv'
  <1>0. t \in Threads /\ t # Server
    BY Members
  <1>1. ASSUME FirmwareSet(t) PROVE MgmtInv'
    <2>1. PICK a \in Attributes \ {Version}, v \in Values : Write(t, a, v, TRUE)
      BY <1>1 DEF FirmwareSet
    <2>2. LinkInv' /\ UNCHANGED <<handle, links, closing, sessions>>
      BY <1>1, LinkKept DEF FirmwareSet, MgmtInv
    <2>3. calls' \in [Firmware -> 0..MaxCalls]
      BY <1>1, Members DEF FirmwareSet, MgmtInv, ShapeInv
    <2>4. v \in Nat /\ pc[t] = "idle"
      BY <1>1, Members DEF FirmwareSet
    <2>5. ShapeInv' /\ MutexInv' /\ CurrentInv'
      BY <1>0, <1>1, <2>1, <2>2, <2>3, <2>4, WriteKeeps DEF FirmwareSet
    <2>6. Busy' = Busy
      BY <1>0, <2>1, BusyElsewhere DEF Write, MgmtInv, Places
    <2> QED
      BY <1>1, <2>2, <2>5, <2>6, NotifyKept, RequestKept DEF FirmwareSet, MgmtInv
  <1>2. ASSUME Increment(t) PROVE MgmtInv'
    <2>1. LinkInv' /\ UNCHANGED <<handle, links, closing, sessions>>
      BY <1>2, LinkKept DEF Increment, CopyVersion, MgmtInv
    <2>2. calls' \in [Firmware -> 0..MaxCalls]
      BY <1>2, Members DEF Increment, MgmtInv, ShapeInv
    <2>3. call' \in [Threads -> Call] /\ \A u \in Threads \ {t} : call'[u] = call[u]
      BY <1>2, Members DEF Increment, CopyVersion, MgmtInv, ShapeInv, Call
    <2>4. ShapeInv' /\ MutexInv' /\ CurrentInv'
      BY <1>0, <1>2, <2>1, <2>2, <2>3, PlaceKeeps DEF Increment, CopyVersion
    <2>5. Busy' = Busy
      BY <1>0, <1>2, BusyElsewhere DEF Increment, CopyVersion, MgmtInv, Places
    <2> QED
      BY <1>2, <2>1, <2>4, <2>5, NotifyKept, RequestKept DEF Increment, CopyVersion, MgmtInv
  <1> QED
    BY <1>1, <1>2 DEF FirmwareStep

-----------------------------------------------------------------------------
(* The server.                                                             *)

LEMMA Taken ==
  ASSUME RequestInv, NEW op, Take(op)
  PROVE  /\ Head(queue) \in Request /\ Head(queue).op = op
         /\ queue' \in Seq(Request) /\ Len(queue') = Len(queue) - 1
         /\ pc[Server] = "idle"
  <1>1. queue \in Seq(Request) /\ queue # <<>>
    BY DEF RequestInv, Take
  <1>2. Head(queue) \in Request /\ Tail(queue) \in Seq(Request) /\ Len(Tail(queue)) = Len(queue) - 1
    BY <1>1, HeadTailProperties
  <1> QED
    BY <1>2 DEF Take

LEMMA SetRequest ==
  ASSUME NEW r \in Request
  PROVE  /\ r.op = "set" => r.attr \in Attributes /\ r.val \in Values
         /\ r.op = "set_notify" => r.attr \in Attributes /\ r.on \in BOOLEAN /\ r.from \in Sessions
  BY DEF Request

LEMMA TakenCount ==
  ASSUME RequestInv, NEW op, Take(op), pc'[Server] # "idle", UNCHANGED <<requests, answered>>
  PROVE  RequestInv'
  <1>1. queue' \in Seq(Request) /\ Len(queue') = Len(queue) - 1 /\ pc[Server] = "idle"
    BY Taken
  <1>2. Busy = 0 /\ Busy' = 1
    BY <1>1 DEF Busy
  <1>3. Len(queue) \in Nat
    BY LenProperties DEF RequestInv
  <1> QED
    BY <1>1, <1>2, <1>3 DEF RequestInv

(* The handlers that only move the server.                                 *)
LEMMA HandlerKeeps ==
  ASSUME MgmtInv, pc[Server] = "idle", RespondNext,
         UNCHANGED <<storeVars, call, told, missed, increments, calls>>, UNCHANGED linkVars
  PROVE  /\ ShapeInv' /\ MutexInv' /\ CurrentInv' /\ LinkInv'
         /\ UNCHANGED <<links, closing>> /\ pc'[Server] # "idle"
  <1>1. LinkInv' /\ UNCHANGED <<handle, links, closing, sessions>>
    BY LinkKept DEF MgmtInv
  <1>2. call' \in [Threads -> Call] /\ calls' \in [Firmware -> 0..MaxCalls]
    BY DEF MgmtInv, ShapeInv
  <1>3. ShapeInv' /\ MutexInv' /\ CurrentInv'
    BY <1>1, <1>2, PlaceKeeps, Members DEF RespondNext
  <1>4. pc'[Server] = "respond"
    BY Members DEF RespondNext, MgmtInv, ShapeInv
  <1> QED
    BY <1>1, <1>3, <1>4

LEMMA ServerKeeps ==
  ASSUME MgmtInv, ServerStep
  PROVE  MgmtInv'
  <1>1. ASSUME GetParameter PROVE MgmtInv'
    <2>1. pc[Server] = "idle"
      BY <1>1, Taken DEF GetParameter, MgmtInv
    <2>2. /\ ShapeInv' /\ MutexInv' /\ CurrentInv' /\ LinkInv'
          /\ UNCHANGED <<links, closing>> /\ pc'[Server] # "idle"
      BY <1>1, <2>1, HandlerKeeps DEF GetParameter
    <2> QED
      BY <1>1, <2>2, TakenCount, NotifyKept DEF GetParameter, MgmtInv
  <1>2. ASSUME SetParameter PROVE MgmtInv'
    <2> DEFINE r == Head(queue)
    <2>1. pc[Server] = "idle" /\ r.attr \in Attributes /\ r.val \in Nat
      BY <1>2, Taken, SetRequest, Members DEF SetParameter, MgmtInv
    <2>2. LinkInv' /\ UNCHANGED <<handle, links, closing, sessions>>
      BY <1>2, LinkKept DEF SetParameter, MgmtInv
    <2>3. ShapeInv' /\ MutexInv' /\ CurrentInv'
      BY <1>2, <2>1, <2>2, WriteKeeps, Members DEF SetParameter, MgmtInv, ShapeInv
    <2>4. pc'[Server] = "save"
      BY <1>2, Members DEF SetParameter, Write, MgmtInv, ShapeInv
    <2> QED
      BY <1>2, <2>2, <2>3, <2>4, TakenCount, NotifyKept DEF SetParameter, MgmtInv
  <1>3. ASSUME Reply PROVE MgmtInv'
    <2>1. PICK op \in {"get_notify", "set"} : Take(op)
      BY <1>3 DEF Reply
    <2>2. pc[Server] = "idle"
      BY <2>1, Taken DEF MgmtInv
    <2>3. /\ ShapeInv' /\ MutexInv' /\ CurrentInv' /\ LinkInv'
          /\ UNCHANGED <<links, closing>> /\ pc'[Server] # "idle"
      BY <1>3, <2>2, HandlerKeeps DEF Reply
    <2> QED
      BY <1>3, <2>1, <2>3, TakenCount, NotifyKept DEF Reply, MgmtInv
  <1>4. ASSUME ServerIncrements PROVE MgmtInv'
    <2>1. LinkInv' /\ UNCHANGED <<handle, links, closing, sessions>>
      BY <1>4, LinkKept DEF ServerIncrements, CopyVersion, MgmtInv
    <2>2. call' \in [Threads -> Call] /\ \A u \in Threads \ {Server} : call'[u] = call[u]
      BY <1>4, Members DEF ServerIncrements, CopyVersion, MgmtInv, ShapeInv, Call
    <2>3. ShapeInv' /\ MutexInv' /\ CurrentInv'
      BY <1>4, <2>1, <2>2, PlaceKeeps, Members DEF ServerIncrements, CopyVersion, MgmtInv, ShapeInv
    <2>4. Busy' = Busy
      BY <1>4, BusyElsewhere, Members DEF ServerIncrements, CopyVersion, MgmtInv, Places
    <2> QED
      BY <1>4, <2>1, <2>3, <2>4, NotifyKept, RequestKept DEF ServerIncrements, CopyVersion, MgmtInv
  <1>5. ASSUME SetNotify PROVE MgmtInv'
    <2>1. pc[Server] = "idle" /\ Head(queue).on \in BOOLEAN
      BY <1>5, Taken, SetRequest DEF SetNotify, MgmtInv
    <2>2. /\ ShapeInv' /\ MutexInv' /\ CurrentInv' /\ LinkInv'
          /\ UNCHANGED <<links, closing>> /\ pc'[Server] # "idle"
      BY <1>5, <2>1, HandlerKeeps DEF SetNotify
    <2>3. NotifyInv'
      BY <1>5, <2>1, <2>2 DEF SetNotify, MgmtInv, NotifyInv, NotifyOffWhenClosed
    <2> QED
      BY <1>5, <2>2, <2>3, TakenCount DEF SetNotify, MgmtInv
  <1>6. ASSUME DisableNotify PROVE MgmtInv'
    <2>1. pc[Server] = "idle"
      BY <1>6, Taken DEF DisableNotify, MgmtInv
    <2>2. /\ ShapeInv' /\ MutexInv' /\ CurrentInv' /\ LinkInv'
          /\ UNCHANGED <<links, closing>> /\ pc'[Server] # "idle"
      BY <1>6, <2>1, HandlerKeeps DEF DisableNotify
    <2>3. NotifyInv'
      BY <1>6 DEF DisableNotify, NotifyInv, NotifyOffWhenClosed
    <2> QED
      BY <1>6, <2>2, <2>3, TakenCount DEF DisableNotify, MgmtInv
  <1>7. ASSUME Respond PROVE MgmtInv'
    <2>1. LinkInv' /\ UNCHANGED <<handle, links, closing, sessions>>
      BY <1>7, LinkKept DEF Respond, MgmtInv
    <2>2. ShapeInv' /\ MutexInv' /\ CurrentInv'
      BY <1>7, <2>1, PlaceKeeps, Members DEF Respond, MgmtInv, ShapeInv
    <2>3. Busy = 1 /\ Busy' = 0
      BY <1>7, Members DEF Respond, Busy, MgmtInv, ShapeInv
    <2>4. RequestInv'
      BY <1>7, <2>3, LenProperties DEF Respond, MgmtInv, RequestInv
    <2> QED
      BY <1>7, <2>1, <2>2, <2>4, NotifyKept DEF Respond, MgmtInv
  <1> QED
    BY <1>1, <1>2, <1>3, <1>4, <1>5, <1>6, <1>7 DEF ServerStep

-----------------------------------------------------------------------------
(* The connections.                                                        *)

(* A callback disturbs no thread; a handle that is NULL claims nothing.    *)
LEMMA CallbackKeeps ==
  ASSUME MgmtInv,
         UNCHANGED <<storeVars, pc, call, told, missed, increments, calls>>,
         sessions' \in Nat, sessions' >= sessions,
         handle' = 0 \/ handle' = handle
            \/ (handle' \in Sessions /\ handle' > sessions)
  PROVE  ShapeInv' /\ MutexInv' /\ CurrentInv'
  <1>1. ShapeInv' /\ MutexInv'
    BY DEF MgmtInv, ShapeInv, MutexInv, storeVars
  <1>2. sessions \in Nat /\ \A s \in Sessions : s > sessions => told[s] = [a \in Attributes |-> Untold]
    BY DEF MgmtInv, LinkInv, CurrentInv
  <1>3. \A a \in Attributes : handle' # 0 /\ handle' # handle => told'[handle'][a] = Untold
    BY <1>2
  <1>4. \A a \in Attributes : Current(a) => Current(a)'
    BY <1>3 DEF Current, storeVars
  <1>5. \A a \in Attributes : Written(a) => Written(a)'
    BY DEF Written, storeVars
  <1>6. ASSUME NEW t \in Threads, pc'[t] = "send"
        PROVE  /\ call'[t].to # 0 /\ call'[t].msg = value'[call'[t].attr]
               /\ handle' # 0 /\ handle' # call'[t].to => told'[handle'][call'[t].attr] = Untold
    <2>1. call[t].attr \in Attributes
      BY CallFields DEF MgmtInv, ShapeInv
    <2> QED
      BY <1>3, <1>6, <2>1 DEF MgmtInv, CurrentInv, storeVars
  <1>7. \A s \in Sessions : s > sessions' => told'[s] = [a \in Attributes |-> Untold]
    <2>1. Sessions \subseteq Int /\ sessions \in Int
      BY LinkNumbers DEF MgmtInv
    <2>2. \A s \in Sessions : s > sessions' => s > sessions
      BY <2>1
    <2> QED
      BY <1>2, <2>2
  <1> QED
    BY <1>1, <1>4, <1>5, <1>6, <1>7 DEF CurrentInv, MgmtInv

LEMMA LinkKeeps ==
  ASSUME MgmtInv, LinkStep
  PROVE  MgmtInv'
  <1>0. /\ sessions \in 0..MaxSessions /\ MaxSessions \in Nat
        /\ links \subseteq 1..sessions /\ closing \subseteq 1..sessions
        /\ refs \in [Sessions -> Int]
    BY Members DEF MgmtInv, LinkInv
  <1>1. ASSUME Connected PROVE MgmtInv'
    <2>1. sessions' = sessions + 1 /\ sessions' \in Sessions /\ handle' = sessions'
      BY <1>0, <1>1 DEF Connected, CanConnect, Sessions
    <2>2. LinkInv'
      <3>1. sessions' \in 0..MaxSessions /\ handle' \in 0..sessions'
        BY <1>0, <2>1 DEF Sessions
      <3>2. links' \subseteq 1..sessions' /\ closing' \subseteq 1..sessions'
        BY <1>0, <1>1, <2>1 DEF Connected
      <3>3. refs' \in [Sessions -> Int]
        BY <1>0, <1>1, <2>1 DEF Connected
      <3>4. stage' \in [Sessions -> {"lost", "unreferenced", "cleared"}]
        BY <1>1 DEF Connected, MgmtInv, LinkInv
      <3> QED
        BY <3>1, <3>2, <3>3, <3>4 DEF LinkInv
    <2>3. ShapeInv' /\ MutexInv' /\ CurrentInv'
      BY <1>0, <1>1, <2>1, CallbackKeeps DEF Connected, othersOfLink
    <2>4. NotifyInv'
      BY <1>1 DEF Connected, othersOfLink, MgmtInv, NotifyInv, NotifyOffWhenClosed
    <2>5. RequestInv'
      BY <1>1, RequestKept DEF Connected, othersOfLink, MgmtInv, Busy
    <2> QED
      BY <2>2, <2>3, <2>4, <2>5 DEF MgmtInv
  <1>2. ASSUME ConnectFailed PROVE MgmtInv'
    <2>1. sessions' = sessions + 1 /\ sessions' \in Sessions /\ handle' = 0
      BY <1>0, <1>2 DEF ConnectFailed, CanConnect, Sessions
    <2>2. LinkInv'
      <3>1. sessions' \in 0..MaxSessions /\ handle' \in 0..sessions'
        BY <1>0, <2>1 DEF Sessions
      <3>2. links' \subseteq 1..sessions' /\ closing' \subseteq 1..sessions'
        BY <1>0, <1>2, <2>1 DEF ConnectFailed
      <3>3. refs' \in [Sessions -> Int]
        BY <1>0, <1>2, <2>1 DEF ConnectFailed
      <3>4. stage' \in [Sessions -> {"lost", "unreferenced", "cleared"}]
        BY <1>2 DEF ConnectFailed, MgmtInv, LinkInv
      <3> QED
        BY <3>1, <3>2, <3>3, <3>4 DEF LinkInv
    <2>3. ShapeInv' /\ MutexInv' /\ CurrentInv'
      BY <1>0, <1>2, <2>1, CallbackKeeps DEF ConnectFailed, othersOfLink
    <2> QED
      BY <1>2, <2>2, <2>3, RequestKept, NotifyKept DEF ConnectFailed, othersOfLink, MgmtInv, Busy
  <1>3. ASSUME NEW s \in Sessions, LinkLost(s) PROVE MgmtInv'
    <2>1. LinkInv'
      BY <1>3 DEF LinkLost, MgmtInv, LinkInv
    <2>2. ShapeInv' /\ MutexInv' /\ CurrentInv'
      BY <1>0, <1>3, CallbackKeeps DEF LinkLost, othersOfLink
    <2>3. NotifyInv'
      BY <1>3 DEF LinkLost, othersOfLink, MgmtInv, NotifyInv, NotifyOffWhenClosed
    <2> QED
      BY <1>3, <2>1, <2>2, <2>3, RequestKept DEF LinkLost, othersOfLink, MgmtInv, Busy
  <1>4. ASSUME NEW s \in Sessions, Disconnected(s) PROVE MgmtInv'
    <2>1. refs' \in [Sessions -> Int] /\ stage' \in [Sessions -> {"lost", "unreferenced", "cleared"}]
      BY <1>0, <1>4 DEF Disconnected, MgmtInv, LinkInv
    <2>2. LinkInv'
      BY <1>4, <2>1 DEF Disconnected, MgmtInv, LinkInv
    <2>3. ShapeInv' /\ MutexInv' /\ CurrentInv'
      BY <1>0, <1>4, CallbackKeeps DEF Disconnected, othersOfLink
    <2> QED
      BY <1>4, <2>2, <2>3, RequestKept, NotifyKept DEF Disconnected, othersOfLink, MgmtInv, Busy
  <1>5. ASSUME NEW s \in Sessions, DisconnectedClears(s) PROVE MgmtInv'
    <2>1. LinkInv'
      BY <1>0, <1>5 DEF DisconnectedClears, MgmtInv, LinkInv
    <2>2. ShapeInv' /\ MutexInv' /\ CurrentInv'
      BY <1>0, <1>5, CallbackKeeps DEF DisconnectedClears, othersOfLink
    <2> QED
      BY <1>5, <2>1, <2>2, RequestKept, NotifyKept DEF DisconnectedClears, othersOfLink, MgmtInv, Busy
  <1>6. ASSUME NEW s \in Sessions, DisconnectedDisables(s) PROVE MgmtInv'
    <2>1. LinkInv'
      BY <1>6 DEF DisconnectedDisables, MgmtInv, LinkInv
    <2>2. ShapeInv' /\ MutexInv' /\ CurrentInv'
      BY <1>0, <1>6, CallbackKeeps DEF DisconnectedDisables
    <2>3. NotifyInv'
      BY <1>6 DEF DisconnectedDisables, NotifyInv, NotifyOffWhenClosed
    <2> QED
      BY <1>6, <2>1, <2>2, <2>3, RequestKept DEF DisconnectedDisables, MgmtInv, Busy
  <1>7. ASSUME NEW s \in Sessions, SendRequest(s) PROVE MgmtInv'
    <2>1. LinkInv' /\ UNCHANGED <<handle, links, closing, sessions>>
      BY <1>7, LinkKept DEF SendRequest, MgmtInv
    <2>2. PICK r \in Request : queue' = Append(queue, r)
      BY <1>7 DEF SendRequest
    <2>3. queue' \in Seq(Request) /\ Len(queue') = Len(queue) + 1
      BY <2>2, AppendProperties DEF MgmtInv, RequestInv
    <2>4. RequestInv'
      <3>1. Len(queue) \in Nat /\ Busy' = Busy /\ Busy \in {0, 1}
        BY <1>7, LenProperties DEF SendRequest, MgmtInv, RequestInv, Busy
      <3> QED
        BY <1>7, <2>3, <3>1, Members DEF SendRequest, MgmtInv, RequestInv
    <2>5. ShapeInv' /\ MutexInv' /\ CurrentInv'
      BY <1>0, <1>7, <2>1, CallbackKeeps DEF SendRequest
    <2> QED
      BY <1>7, <2>1, <2>4, <2>5, NotifyKept DEF SendRequest, MgmtInv
  <1> QED
    BY <1>1, <1>2, <1>3, <1>4, <1>5, <1>6, <1>7 DEF LinkStep

LEMMA StepMgmt == MgmtInv /\ [Next]_vars => MgmtInv'
  <1> SUFFICES ASSUME MgmtInv, [Next]_vars PROVE MgmtInv'
    OBVIOUS
  <1>1. CASE Next
    BY <1>1, ThreadKeeps, FirmwareKeeps, ServerKeeps, LinkKeeps DEF Next
  <1>2. CASE UNCHANGED vars
    BY <1>2 DEF vars, MgmtInv, ShapeInv, RequestInv, Busy, LinkInv, NotifyInv,
                NotifyOffWhenClosed, MutexInv, CurrentInv, Current, Written
  <1> QED
    BY <1>1, <1>2

(* Every state of the server, its clients and the firmware satisfies the   *)
(* invariant.                                                              *)
THEOREM MgmtInvariance == Spec => []MgmtInv
  <1> QED
    BY InitMgmt, StepMgmt, PTL DEF Spec

(* The shape of the state; no more requests are answered than were sent.   *)
THEOREM MgmtTypeCorrect == Spec => []TypeOK
  <1>1. MgmtInv => TypeOK
    <2> SUFFICES ASSUME MgmtInv PROVE TypeOK
      OBVIOUS
    <2>1. answered \in 0..MaxRequests
      BY LenProperties, Members DEF MgmtInv, RequestInv, Busy
    <2>2. modified \subseteq Attributes /\ unchanged \subseteq Attributes
      <3>1. owner \in Threads => call[owner].attr \in Attributes
        BY CallFields DEF MgmtInv, ShapeInv
      <3> QED
        BY <3>1 DEF MgmtInv, MutexInv
    <2>3. handle \in 0..MaxSessions /\ links \subseteq Sessions /\ closing \subseteq Sessions
      BY LinkNumbers DEF MgmtInv
    <2> QED
      BY <2>1, <2>2, <2>3 DEF TypeOK, MgmtInv, ShapeInv, RequestInv, LinkInv, NotifyInv,
                              MutexInv, Places
  <1> QED
    BY <1>1, MgmtInvariance, PTL

(* smp_ble_disconnected() leaves no bit of notify when the last connection *)
(* is gone.                                                                *)
THEOREM NotifyIsOff == Spec => []NotifyOffWhenClosed
  <1>1. MgmtInv => NotifyOffWhenClosed
    BY DEF MgmtInv, NotifyInv
  <1> QED
    BY <1>1, MgmtInvariance, PTL

(* change_single() and attr_notify(): what a subscriber was told last is   *)
(* the value of the attribute, unless its last change was not sent.        *)
THEOREM SubscriberStaysCurrent == Spec => []SubscriberIsCurrent
  <1>1. MgmtInv => SubscriberIsCurrent
    <2> SUFFICES ASSUME MgmtInv, owner = NoThread, handle \in links,
                        NEW a \in notify \ missed
                 PROVE  told[handle][a] \in {Untold, value[a]}
      BY DEF SubscriberIsCurrent
    <2>1. a \in Attributes
      BY Members DEF MgmtInv, NotifyInv
    <2>2. handle # 0
      BY DEF MgmtInv, LinkInv
    <2> QED
      BY <2>1, <2>2 DEF MgmtInv, CurrentInv, Current, Written
  <1> QED
    BY <1>1, MgmtInvariance, PTL

(* A request is neither lost nor answered twice, and the server that has   *)
(* one to answer is never part of a deadlock over attr_mutex. Fairness     *)
(* turns that into EveryRequestAnswered, which is left to TLC.             *)
THEOREM RequestsGoOn == Spec => [](RequestsAreCounted /\ NobodyIsStuck)
  <1>1. MgmtInv => RequestsAreCounted /\ NobodyIsStuck
    <2> SUFFICES ASSUME MgmtInv PROVE RequestsAreCounted /\ NobodyIsStuck
      OBVIOUS
    <2>1. /\ queue \in Seq(Request) /\ Len(queue) \in Nat
          /\ requests \in Int /\ answered \in Int
          /\ answered + Len(queue) + Busy = requests
      BY LenProperties, Members DEF MgmtInv, RequestInv
    <2>2. RequestsAreCounted
      BY <2>1 DEF RequestsAreCounted, Busy
    <2>3. ASSUME answered < requests, pc[Server] = "idle" PROVE queue # <<>>
      <3>1. Len(queue) # 0
        BY <2>1, <2>3 DEF Busy
      <3> QED
        BY <3>1
    <2>4. ASSUME owner = NoThread, pc[Server] # "idle"
          PROVE  pc[Server] \in {"read", "add", "respond"}
      <3>1. Server \in Threads /\ pc[Server] \in Places /\ pc[Server] \notin {"save", "send"}
        BY <2>4, Members DEF MgmtInv, ShapeInv, MutexInv
      <3> QED
        BY <2>4, <3>1 DEF Places
    <2>5. owner # NoThread => owner \in Threads /\ pc[owner] \in {"save", "send"}
      BY DEF MgmtInv, MutexInv
    <2> QED
      BY <2>2, <2>3, <2>4, <2>5 DEF NobodyIsStuck
  <1> QED
    BY <1>1, MgmtInvariance, PTL
=============================================================================
