----------------------------- MODULE AttrSmpProofs -----------------------------
(***************************************************************************)
(* Proofs about AttrSmp: the values stay legal, a refused request changes  *)
(* nothing, no text is lost, the file holds what RAM holds, a dump shows   *)
(* one moment and can be loaded back, and what either side encodes the     *)
(* other decodes. The inductive invariant says what each step of a handler *)
(* may rely on; it has one part, and one lemma, per property.              *)
(***************************************************************************)
EXTENDS AttrSmp, FiniteSetTheorems, TLAPS

(* The values RAM may hold: each one accepted, and its own conversion.     *)
Legal == {v \in [Ids -> Raw] :
            \A i \in Ids : Accepts(Table[i], v[i]) /\ Stored(Table[i], v[i]) = v[i]}

Steps == {"idle", "received", "load", "build", "write", "table", "save",
          "version", "increment", "answer", "sent"}

(* What the other parts need of the types.                                 *)
BaseInv ==
    /\ ram \in Legal
    /\ files \in [Paths -> File]
    /\ step \in [Users -> Steps]
    /\ version \in [Users -> Raw]
    /\ last \in [Paths -> [by : Users \cup {"nobody", "save"}, w : BOOLEAN]]
    /\ {touched, saveFailed, apart} \subseteq BOOLEAN
    /\ command \in [do : {"none", "load", "dump", "delete"}, path : Paths, type : Nat]

(* A text on the heap is a dump of legal values.                           *)
TextInv ==
    /\ text \in [Users -> SUBSET Pair]
    /\ \A u \in Users : step[u] = "write" =>
          \E v \in Legal : text[u] = KeyValues(v, dumpable(DumpType(u)))

(* One more for each user in its step, and for each text forgotten.        *)
Holds(u) == IF step[u] = "write" THEN 1 ELSE 0
HeapInv ==
    /\ leaked \in Nat
    /\ heap = Holds("server") + Holds("shell") + leaked

WholeInv == ~apart => files[AttributePath] = Kvp(KeyValues(ram, Saved))

DumpInv ==
    \A path \in Paths :
        (last[path].w /\ files[path].state = "kvp") =>
            \E v \in Legal : files[path] = Kvp(KeyValues(v, is_dump_w))

(* Where a handler is, and what it has done to RAM by then.                *)
RefuseInv ==
    /\ step["server"] \in {"idle", "received", "build", "write", "table"} => ~touched
    /\ step["server"] \in {"idle", "received"} => ~saveFailed
    /\ step["server"] \in {"version", "increment"} => result["r"].is = 0
    /\ step["server"] \in {"version", "increment"} => DOMAIN result = {"id", "r"}
    /\ step["server"] = "answer" =>
          /\ result["r"].is < 0 /\ ~saveFailed => ~touched
          /\ DOMAIN result \cap {"r1", "n"} # {} => ~touched
    /\ step["server"] = "sent" => RefusedMeansUntouched

-----------------------------------------------------------------------------
(* The values.                                                             *)

LEMMA DefaultsLegal == Defaults \in Legal
  BY SmpTableAssumption DEF SmpTableAssumption, Defaults, Legal

(* What a file or a request may hold, is legal when it is stored.          *)
LEMMA StoredLegal ==
  ASSUME NEW i \in Ids, NEW n \in Raw, Accepts(Table[i], n)
  PROVE  /\ Stored(Table[i], n) \in Raw
         /\ Accepts(Table[i], Stored(Table[i], n))
         /\ Stored(Table[i], Stored(Table[i], n)) = Stored(Table[i], n)
  BY SmpTableAssumption DEF SmpTableAssumption

LEMMA WriteLegal ==
  ASSUME NEW v \in Legal, NEW i \in Ids, NEW n,
         Stored(Table[i], n) \in Raw,
         Accepts(Table[i], Stored(Table[i], n)),
         Stored(Table[i], Stored(Table[i], n)) = Stored(Table[i], n)
  PROVE  [v EXCEPT ![i] = Stored(Table[i], n)] \in Legal
  BY DEF Legal

LEMMA LoadLegal ==
  ASSUME NEW v \in Legal, NEW f \in File, Loadable(f)
  PROVE  Loaded(v, f.pairs) \in Legal
  <1>1. f.pairs \subseteq Pair
    BY DEF File
  <1>2. ASSUME NEW i \in Ids, \E p \in f.pairs : p.key = i
        PROVE  LET n == (CHOOSE p \in f.pairs : p.key = i).val
               IN  /\ Stored(Table[i], n) \in Raw
                   /\ Accepts(Table[i], Stored(Table[i], n))
                   /\ Stored(Table[i], Stored(Table[i], n)) = Stored(Table[i], n)
    <2> DEFINE q == CHOOSE p \in f.pairs : p.key = i
    <2>1. q \in f.pairs /\ q.key = i
      BY <1>2
    <2>2. q.val \in Raw /\ Accepts(Table[i], q.val)
      BY <2>1, <1>1 DEF Loadable, PairOk, Pair
    <2> QED
      BY <2>2, StoredLegal
  <1>3. ASSUME NEW i \in Ids
        PROVE  /\ Loaded(v, f.pairs)[i] \in Raw
               /\ Accepts(Table[i], Loaded(v, f.pairs)[i])
               /\ Stored(Table[i], Loaded(v, f.pairs)[i]) = Loaded(v, f.pairs)[i]
    <2>1. CASE \E p \in f.pairs : p.key = i
      BY <1>2, <2>1 DEF Loaded
    <2>2. CASE ~ \E p \in f.pairs : p.key = i
      BY <2>2 DEF Loaded, Legal
    <2> QED
      BY <2>1, <2>2
  <1>4. Loaded(v, f.pairs) \in [Ids -> Raw]
    <2>1. Loaded(v, f.pairs) = [i \in Ids |-> Loaded(v, f.pairs)[i]]
      BY DEF Loaded
    <2> QED
      BY <2>1, <1>3
  <1> QED
    BY <1>3, <1>4 DEF Legal

LEMMA KeyValuesPairs ==
  ASSUME NEW v \in Legal, NEW S \in SUBSET Ids
  PROVE  KeyValues(v, S) \subseteq Pair
  BY DEF Legal, KeyValues, Pair

LEMMA DumpableIds ==
  ASSUME NEW type PROVE dumpable(type) \subseteq Ids
  BY DEF dumpable, is_dump_w, is_dump_ro, is_dump_rw, Readable, Having

LEMMA KvpFile ==
  ASSUME NEW pairs \in SUBSET Pair PROVE Kvp(pairs) \in File
  BY DEF Kvp, File

(* A request that is accepted passes a value of the type.                  *)
LEMMA SetLegal ==
  ASSUME SetAccepted
  PROVE  Id \in Ids /\ param["p2"].is \in Raw /\ Accepts(Table[Id], param["p2"].is)
  <1>1. Id \in Ids
    BY DEF SetAccepted, Writable, Having
  <1>2. param["p2"].is \in Raw
    BY <1>1, SmpTableAssumption DEF SetAccepted, OfType, SmpTableAssumption
  <1> QED
    BY <1>1, <1>2 DEF SetAccepted

(* The sum attr_add_uint32() writes, if the validator takes it.            *)
LEMMA SumLegal ==
  ASSUME NEW n \in Raw, Accepts(Table[config_version], n + 1)
  PROVE  /\ config_version \in Ids
         /\ Stored(Table[config_version], n + 1) \in Raw
         /\ Accepts(Table[config_version], Stored(Table[config_version], n + 1))
         /\ Stored(Table[config_version], Stored(Table[config_version], n + 1))
              = Stored(Table[config_version], n + 1)
  BY SmpTableAssumption DEF SmpTableAssumption

-----------------------------------------------------------------------------
(* The pieces actions are made of.                                         *)

LEMMA SaveBase ==
  ASSUME BaseInv, NEW u, NEW v \in Legal, NEW ok \in BOOLEAN, save_attributes(u, v, ok)
  PROVE  /\ files' \in [Paths -> File]
         /\ last' \in [Paths -> [by : Users \cup {"nobody", "save"}, w : BOOLEAN]]
         /\ saveFailed' \in BOOLEAN /\ apart' \in BOOLEAN
  <1>1. Kvp(KeyValues(v, Saved)) \in File
    BY KeyValuesPairs, KvpFile DEF Saved, Having
  <1>2. [Nobody EXCEPT !.by = "save"] \in [by : Users \cup {"nobody", "save"}, w : BOOLEAN]
    BY DEF Nobody
  <1> QED
    BY <1>1, <1>2 DEF save_attributes, BaseInv

LEMMA WriteBase ==
  ASSUME BaseInv, NEW u, NEW i \in Ids, NEW n, NEW ok \in BOOLEAN,
         Stored(Table[i], n) \in Raw,
         Accepts(Table[i], Stored(Table[i], n)),
         Stored(Table[i], Stored(Table[i], n)) = Stored(Table[i], n),
         write_single(u, i, n, ok)
  PROVE  /\ ram' \in Legal
         /\ files' \in [Paths -> File]
         /\ last' \in [Paths -> [by : Users \cup {"nobody", "save"}, w : BOOLEAN]]
         /\ {touched', saveFailed', apart'} \subseteq BOOLEAN
  <1>1. ram' \in Legal
    BY WriteLegal DEF write_single, BaseInv
  <1>2. touched' \in BOOLEAN
    BY DEF write_single, Touch, BaseInv
  <1>3. CASE Modifies(Table[i], ram[i], n) /\ i \in Saved
    BY <1>1, <1>2, <1>3, SaveBase DEF write_single
  <1>4. CASE ~(Modifies(Table[i], ram[i], n) /\ i \in Saved)
    BY <1>1, <1>2, <1>4 DEF write_single, stored, BaseInv
  <1> QED
    BY <1>3, <1>4

LEMMA LoadBase ==
  ASSUME BaseInv, NEW u, NEW path \in Paths, NEW r, attr_load(u, path, r)
  PROVE  /\ ram' \in Legal
         /\ files' \in [Paths -> File]
         /\ last' \in [Paths -> [by : Users \cup {"nobody", "save"}, w : BOOLEAN]]
         /\ {touched', saveFailed', apart'} \subseteq BOOLEAN
  <1>1. CASE Loadable(files[path])
    <2>1. ram' \in Legal
      BY <1>1, LoadLegal DEF attr_load, BaseInv
    <2>2. touched' \in BOOLEAN
      BY <1>1 DEF attr_load, Touch, BaseInv
    <2>3. PICK ok \in BOOLEAN : save_attributes(u, ram', ok)
      BY <1>1 DEF attr_load
    <2> QED
      BY <2>1, <2>2, <2>3, SaveBase
  <1>2. CASE ~Loadable(files[path])
    BY <1>2 DEF attr_load, stored, BaseInv
  <1> QED
    BY <1>1, <1>2

LEMMA DumpBase ==
  ASSUME BaseInv, TextInv, NEW u \in Users, NEW path, NEW ok \in BOOLEAN,
         fsu_write_abs(u, path, ok)
  PROVE  /\ files' \in [Paths -> File]
         /\ last' \in [Paths -> [by : Users \cup {"nobody", "save"}, w : BOOLEAN]]
         /\ apart' \in BOOLEAN
  <1>1. Kvp(text[u]) \in File /\ Broken \in File
    BY KvpFile DEF TextInv, Broken, File
  <1>2. PICK f \in (IF ok THEN {Kvp(text[u])} ELSE {files[path], Broken}) :
            files' = [files EXCEPT ![path] = f]
    BY DEF fsu_write_abs
  <1>3. path \in Paths => f \in File
    BY <1>1, <1>2 DEF BaseInv
  <1>4. files' \in [Paths -> File]
    BY <1>2, <1>3 DEF BaseInv
  <1> QED
    BY <1>4 DEF fsu_write_abs, BaseInv

(* Steps that leave the store alone.                                       *)
LEMMA Goes ==
  ASSUME BaseInv, NEW u \in Users, NEW place \in Steps, Goto(u, place)
  PROVE  step' \in [Users -> Steps]
  BY DEF BaseInv, Goto

LEMMA BaseQuiet ==
  ASSUME BaseInv, UNCHANGED <<ram, stored, touched, saveFailed, command, version>>,
         step' \in [Users -> Steps]
  PROVE  BaseInv'
  BY DEF BaseInv, stored

LEMMA InitBase == Init => BaseInv
  <1> SUFFICES ASSUME Init PROVE BaseInv
    OBVIOUS
  <1>1. ram \in Legal
    BY DefaultsLegal DEF Init
  <1>2. files \in [Paths -> File] /\ command \in [do : {"none", "load", "dump", "delete"}, path : Paths, type : Nat]
    BY SmpInputAssumption DEF Init, SmpInputAssumption, NoCommand, ATTR_DUMP_RW
  <1>3. version \in [Users -> Raw]
    BY SmpTableAssumption DEF Init, SmpTableAssumption
  <1>4. last \in [Paths -> [by : Users \cup {"nobody", "save"}, w : BOOLEAN]]
    BY DEF Init, Nobody
  <1>5. step \in [Users -> Steps] /\ {touched, saveFailed, apart} \subseteq BOOLEAN
    BY DEF Init, Steps
  <1> QED
    BY <1>1, <1>2, <1>3, <1>4, <1>5 DEF BaseInv

LEMMA ServerBase == BaseInv /\ TextInv /\ ServerStep => BaseInv'
  <1> SUFFICES ASSUME BaseInv, TextInv, ServerStep PROVE BaseInv'
    OBVIOUS
  <1>0. "server" \in Users /\ "shell" \in Users
    BY DEF Users
  <1>u. ASSUME NEW place \in Steps, Goto("server", place) PROVE step' \in [Users -> Steps]
    BY <1>u, <1>0, Goes
  <1>r. ASSUME NEW struct, Respond(struct) PROVE step' \in [Users -> Steps]
    BY <1>r, <1>u DEF Respond, Steps
  <1>1. ASSUME NEW q \in Requests, Receive(q) PROVE BaseInv'
    BY <1>1, <1>u, BaseQuiet DEF Receive, Steps
  <1>2. ASSUME NEW status, Refuse(status) PROVE BaseInv'
    BY <1>2, <1>u, BaseQuiet DEF Refuse, Steps
  <1>3. ASSUME get_parameter PROVE BaseInv'
    BY <1>3, <1>r, BaseQuiet DEF get_parameter
  <1>4. ASSUME set_parameter PROVE BaseInv'
    <2>1. PICK ok \in BOOLEAN :
            /\ write_single("server", Id, param["p2"].is, ok)
            /\ Goto("server", IF ok /\ Modifies(Table[Id], ram[Id], param["p2"].is)
                              THEN "version" ELSE "answer")
      BY <1>4 DEF set_parameter
    <2>2. step' \in [Users -> Steps]
      BY <2>1, <1>u DEF Steps
    <2>3. Id \in Ids /\ param["p2"].is \in Raw /\ Accepts(Table[Id], param["p2"].is)
      BY <1>4, SetLegal DEF set_parameter
    <2>4. /\ Stored(Table[Id], param["p2"].is) \in Raw
          /\ Accepts(Table[Id], Stored(Table[Id], param["p2"].is))
          /\ Stored(Table[Id], Stored(Table[Id], param["p2"].is)) = Stored(Table[Id], param["p2"].is)
      BY <2>3, StoredLegal
    <2>5. /\ ram' \in Legal
          /\ files' \in [Paths -> File]
          /\ last' \in [Paths -> [by : Users \cup {"nobody", "save"}, w : BOOLEAN]]
          /\ {touched', saveFailed', apart'} \subseteq BOOLEAN
      BY <2>1, <2>3, <2>4, WriteBase
    <2> QED
      BY <1>4, <2>2, <2>5 DEF set_parameter, BaseInv
  <1>5. ASSUME SetRefused PROVE BaseInv'
    BY <1>5, <1>r, BaseQuiet DEF SetRefused
  <1>6. ASSUME load_parameter_file PROVE BaseInv'
    <2> DEFINE path == IF Has_param("p1") THEN param["p1"].is ELSE load_path
    <2>1. PICK r \in {0, EIO, EINVAL} :
            /\ IF path \in Paths
               THEN attr_load("server", path, r)
               ELSE r = EINVAL /\ UNCHANGED <<ram, touched, saveFailed, stored>>
            /\ Respond([r |-> Int32(r)])
      BY <1>6 DEF load_parameter_file
    <2>2. step' \in [Users -> Steps]
      BY <2>1, <1>r
    <2>3. CASE path \in Paths
      <3>1. /\ ram' \in Legal
            /\ files' \in [Paths -> File]
            /\ last' \in [Paths -> [by : Users \cup {"nobody", "save"}, w : BOOLEAN]]
            /\ {touched', saveFailed', apart'} \subseteq BOOLEAN
        BY <2>1, <2>3, LoadBase
      <3> QED
        BY <1>6, <2>2, <3>1 DEF load_parameter_file, BaseInv
    <2>4. CASE path \notin Paths
      BY <1>6, <2>1, <2>2, <2>4, BaseQuiet DEF load_parameter_file
    <2> QED
      BY <2>3, <2>4
  <1>7. ASSUME dump_parameter_file PROVE BaseInv'
    <2>1. step' \in [Users -> Steps]
      BY <1>7, <1>u DEF dump_parameter_file, Steps
    <2>2. NoFile \in File
      BY DEF NoFile, File
    <2>3. [Nobody EXCEPT !.by = "server"] \in [by : Users \cup {"nobody", "save"}, w : BOOLEAN]
      BY DEF Nobody, Users
    <2>4. apart' \in BOOLEAN
      BY <1>7 DEF dump_parameter_file, BaseInv
    <2> QED
      BY <1>7, <2>1, <2>2, <2>3, <2>4 DEF dump_parameter_file, BaseInv
  <1>8. ASSUME NothingToDump PROVE BaseInv'
    BY <1>8, <1>r, BaseQuiet DEF NothingToDump
  <1>9. ASSUME WriteDump PROVE BaseInv'
    <2>1. PICK ok \in BOOLEAN : fsu_write_abs("server", DumpName, ok)
      BY <1>9 DEF WriteDump
    <2>2. step' \in [Users -> Steps]
      BY <1>9, <1>r DEF WriteDump
    <2>3. /\ files' \in [Paths -> File]
          /\ last' \in [Paths -> [by : Users \cup {"nobody", "save"}, w : BOOLEAN]]
          /\ apart' \in BOOLEAN
      BY <1>0, <2>1, DumpBase
    <2> QED
      BY <1>9, <2>2, <2>3 DEF WriteDump, BaseInv
  <1>10. ASSUME factory_reset PROVE BaseInv'
    <2>1. step' \in [Users -> Steps]
      BY <1>10, <1>r, <1>u DEF factory_reset, Steps
    <2> QED
      BY <1>10, <2>1, BaseQuiet DEF factory_reset
  <1>11. ASSUME ResetTable PROVE BaseInv'
    <2>1. step' \in [Users -> Steps]
      BY <1>11, <1>u DEF ResetTable, Steps
    <2>2. touched' \in BOOLEAN
      BY <1>11 DEF ResetTable, Touch, BaseInv
    <2> QED
      BY <1>11, <2>1, <2>2, DefaultsLegal DEF ResetTable, BaseInv
  <1>12. ASSUME SaveReset PROVE BaseInv'
    <2>1. PICK ok \in BOOLEAN : save_attributes("server", ram, ok)
      BY <1>12 DEF SaveReset
    <2>2. ram \in Legal
      BY DEF BaseInv
    <2>3. step' \in [Users -> Steps]
      BY <1>12, <1>r DEF SaveReset
    <2>4. /\ files' \in [Paths -> File]
          /\ last' \in [Paths -> [by : Users \cup {"nobody", "save"}, w : BOOLEAN]]
          /\ saveFailed' \in BOOLEAN /\ apart' \in BOOLEAN
      BY <2>1, <2>2, SaveBase
    <2> QED
      BY <1>12, <2>3, <2>4 DEF SaveReset, BaseInv
  <1>13. ASSUME set_notify \/ get_notify \/ disable_notify PROVE BaseInv'
    BY <1>13, <1>r, BaseQuiet DEF set_notify, get_notify, disable_notify
  <1>14. ASSUME Answer PROVE BaseInv'
    BY <1>14, <1>u, BaseQuiet DEF Answer, Steps
  <1>15. ASSUME Taken PROVE BaseInv'
    <2>1. step' \in [Users -> Steps]
      BY <1>15, <1>u DEF Taken, Steps
    <2> QED
      BY <1>15, <2>1 DEF Taken, BaseInv, stored
  <1> QED
    BY <1>1, <1>2, <1>3, <1>4, <1>5, <1>6, <1>7, <1>8, <1>9, <1>10, <1>11, <1>12, <1>13,
       <1>14, <1>15 DEF ServerStep, Malformed, unsupported

LEMMA OtherBase ==
  ASSUME BaseInv, TextInv,
         \/ ShellStep
         \/ \E u \in Users : CopyVersion(u) \/ WriteVersion(u) \/ attr_prepare_then_dump(u)
         \/ \E i \in Ids, raw \in Raw : FirmwareSet(i, raw)
  PROVE  BaseInv'
  <1>0. "server" \in Users /\ "shell" \in Users
    BY DEF Users
  <1>1. ASSUME NEW c \in Commands, Type(c) PROVE BaseInv'
    <2>1. step' \in [Users -> Steps]
      BY <1>1, <1>0, Goes DEF Type, BaseInv, Steps
    <2>2. command' \in [do : {"none", "load", "dump", "delete"}, path : Paths, type : Nat]
      BY <1>1, SmpInputAssumption DEF Type, BaseInv, SmpInputAssumption
    <2>3. CASE c.do = "delete"
      <3>1. NoFile \in File
        BY DEF NoFile, File
      <3>2. [Nobody EXCEPT !.by = "shell"] \in [by : Users \cup {"nobody", "save"}, w : BOOLEAN]
        BY DEF Nobody, Users
      <3> QED
        BY <1>1, <2>1, <2>2, <2>3, <3>1, <3>2 DEF Type, BaseInv
    <2>4. CASE c.do # "delete"
      BY <1>1, <2>1, <2>2, <2>4 DEF Type, BaseInv, stored
    <2> QED
      BY <2>3, <2>4
  <1>2. ASSUME ats_load_cmd PROVE BaseInv'
    <2>1. PICK r \in {0, EIO, EINVAL} : attr_load("shell", command.path, r)
      BY <1>2 DEF ats_load_cmd
    <2>2. command.path \in Paths
      BY DEF BaseInv
    <2>3. step' \in [Users -> Steps]
      BY <1>2, <1>0, Goes DEF ats_load_cmd, Steps
    <2>4. /\ ram' \in Legal
          /\ files' \in [Paths -> File]
          /\ last' \in [Paths -> [by : Users \cup {"nobody", "save"}, w : BOOLEAN]]
          /\ {touched', saveFailed', apart'} \subseteq BOOLEAN
      BY <2>1, <2>2, LoadBase
    <2> QED
      BY <1>2, <2>3, <2>4 DEF ats_load_cmd, BaseInv
  <1>3. ASSUME ats_dump_cmd PROVE BaseInv'
    <2>1. PICK ok \in BOOLEAN : fsu_write_abs("shell", command.path, ok)
      BY <1>3 DEF ats_dump_cmd
    <2>2. step' \in [Users -> Steps]
      BY <1>3, <1>0, Goes DEF ats_dump_cmd, Steps
    <2>3. /\ files' \in [Paths -> File]
          /\ last' \in [Paths -> [by : Users \cup {"nobody", "save"}, w : BOOLEAN]]
          /\ apart' \in BOOLEAN
      BY <1>0, <2>1, DumpBase
    <2> QED
      BY <1>3, <2>2, <2>3 DEF ats_dump_cmd, BaseInv
  <1>4. ASSUME NEW u \in Users, CopyVersion(u) PROVE BaseInv'
    <2>1. step' \in [Users -> Steps]
      BY <1>4, Goes DEF CopyVersion, Steps
    <2>2. version' \in [Users -> Raw]
      BY <1>4, SmpTableAssumption DEF CopyVersion, BaseInv, Legal, SmpTableAssumption
    <2> QED
      BY <1>4, <2>1, <2>2 DEF CopyVersion, BaseInv, stored
  <1>5. ASSUME NEW u \in Users, WriteVersion(u) PROVE BaseInv'
    <2>1. step' \in [Users -> Steps]
      BY <1>5, Goes DEF WriteVersion, Steps
    <2>2. version[u] \in Raw /\ version' \in [Users -> Raw]
      BY <1>5, SmpTableAssumption DEF WriteVersion, BaseInv, SmpTableAssumption
    <2>3. CASE Accepts(Table[config_version], version[u] + 1)
      <3>1. PICK ok \in BOOLEAN : write_single(u, config_version, version[u] + 1, ok)
        BY <1>5, <2>3 DEF WriteVersion
      <3>2. /\ config_version \in Ids
            /\ Stored(Table[config_version], version[u] + 1) \in Raw
            /\ Accepts(Table[config_version], Stored(Table[config_version], version[u] + 1))
            /\ Stored(Table[config_version], Stored(Table[config_version], version[u] + 1))
                 = Stored(Table[config_version], version[u] + 1)
        BY <2>2, <2>3, SumLegal
      <3>3. /\ ram' \in Legal
            /\ files' \in [Paths -> File]
            /\ last' \in [Paths -> [by : Users \cup {"nobody", "save"}, w : BOOLEAN]]
            /\ {touched', saveFailed', apart'} \subseteq BOOLEAN
        BY <3>1, <3>2, WriteBase
      <3> QED
        BY <1>5, <2>1, <2>2, <3>3 DEF WriteVersion, BaseInv
    <2>4. CASE ~Accepts(Table[config_version], version[u] + 1)
      BY <1>5, <2>1, <2>2, <2>4 DEF WriteVersion, BaseInv, stored
    <2> QED
      BY <2>3, <2>4
  <1>6. ASSUME NEW u \in Users, attr_prepare_then_dump(u) PROVE BaseInv'
    <2>1. step' \in [Users -> Steps]
      BY <1>6, Goes DEF attr_prepare_then_dump, Respond, Steps
    <2> QED
      BY <1>6, <2>1, BaseQuiet DEF attr_prepare_then_dump
  <1>7. ASSUME NEW i \in Ids, NEW raw \in Raw, FirmwareSet(i, raw) PROVE BaseInv'
    <2>1. PICK ok \in BOOLEAN : write_single("firmware", i, raw, ok)
      BY <1>7 DEF FirmwareSet
    <2>2. /\ Stored(Table[i], raw) \in Raw
          /\ Accepts(Table[i], Stored(Table[i], raw))
          /\ Stored(Table[i], Stored(Table[i], raw)) = Stored(Table[i], raw)
      BY <1>7, StoredLegal DEF FirmwareSet
    <2>3. /\ ram' \in Legal
          /\ files' \in [Paths -> File]
          /\ last' \in [Paths -> [by : Users \cup {"nobody", "save"}, w : BOOLEAN]]
          /\ {touched', saveFailed', apart'} \subseteq BOOLEAN
      BY <2>1, <2>2, WriteBase
    <2> QED
      BY <1>7, <2>3 DEF FirmwareSet, BaseInv
  <1> QED
    BY <1>1, <1>2, <1>3, <1>4, <1>5, <1>6, <1>7 DEF ShellStep

-----------------------------------------------------------------------------
(* The texts. One user's steps leave the other's text alone.               *)

(* Users are two.                                                          *)
LEMMA TwoUsers == Users = {"server", "shell"} /\ "server" # "shell"
  BY DEF Users

LEMMA ServerText ==
  ASSUME BaseInv, TextInv, HeapInv, ServerStep
  PROVE  /\ step'["shell"] = step["shell"] /\ step'["server"] # "write"
         /\ text' \in [Users -> SUBSET Pair] /\ text'["shell"] = text["shell"]
         /\ command' = command /\ leaked' = leaked
         /\ heap' = heap - Holds("server")
  <1> DEFINE Moves == step'["shell"] = step["shell"] /\ step'["server"] # "write"
             Quiet == UNCHANGED <<heap, text, leaked, command>> /\ step["server"] # "write"
  <1>g. ASSUME NEW place, place # "write", Goto("server", place) PROVE Moves
    BY <1>g, TwoUsers DEF Goto, BaseInv
  <1>r. ASSUME NEW struct, Respond(struct) PROVE Moves
    BY <1>r, <1>g DEF Respond
  <1>q. ASSUME Moves, Quiet PROVE
         /\ Moves
         /\ text' \in [Users -> SUBSET Pair] /\ text'["shell"] = text["shell"]
         /\ command' = command /\ leaked' = leaked
         /\ heap' = heap - Holds("server")
    BY <1>q, TwoUsers DEF TextInv, HeapInv, Holds
  <1>1. ASSUME NEW q \in Requests, Receive(q) PROVE Moves /\ Quiet
    BY <1>1, <1>g DEF Receive, shown
  <1>2. ASSUME Malformed \/ unsupported PROVE Moves /\ Quiet
    BY <1>2, <1>g DEF Malformed, unsupported, In, Refuse, shown
  <1>3. ASSUME get_parameter \/ SetRefused \/ NothingToDump PROVE Moves /\ Quiet
    BY <1>3, <1>r DEF get_parameter, SetRefused, NothingToDump, In, shown
  <1>4. ASSUME set_parameter PROVE Moves /\ Quiet
    <2>1. Moves
      BY <1>4, <1>g DEF set_parameter
    <2> QED
      BY <1>4, <2>1 DEF set_parameter, In, shown
  <1>5. ASSUME load_parameter_file PROVE Moves /\ Quiet
    <2>1. Moves
      BY <1>5, <1>r DEF load_parameter_file
    <2> QED
      BY <1>5, <2>1 DEF load_parameter_file, In, shown
  <1>6. ASSUME dump_parameter_file PROVE Moves /\ Quiet
    BY <1>6, <1>g DEF dump_parameter_file, In, shown
  <1>7. ASSUME factory_reset PROVE Moves /\ Quiet
    BY <1>7, <1>g, <1>r DEF factory_reset, In, shown
  <1>8. ASSUME ResetTable PROVE Moves /\ Quiet
    BY <1>8, <1>g DEF ResetTable, shown
  <1>9. ASSUME SaveReset PROVE Moves /\ Quiet
    BY <1>9, <1>r DEF SaveReset, shown
  <1>10. ASSUME set_notify \/ get_notify \/ disable_notify PROVE Moves /\ Quiet
    BY <1>10, <1>r DEF set_notify, get_notify, disable_notify, In, shown
  <1>11. ASSUME Answer \/ Taken PROVE Moves /\ Quiet
    BY <1>11, <1>g DEF Answer, Taken, shown
  <1>12. ASSUME WriteDump PROVE
         /\ Moves
         /\ text' \in [Users -> SUBSET Pair] /\ text'["shell"] = text["shell"]
         /\ command' = command /\ leaked' = leaked
         /\ heap' = heap - Holds("server")
    <2>1. Moves
      BY <1>12, <1>r DEF WriteDump
    <2> QED
      BY <1>12, <2>1, TwoUsers DEF WriteDump, TextInv, Holds
  <1> QED
    BY <1>q, <1>1, <1>2, <1>3, <1>4, <1>5, <1>6, <1>7, <1>8, <1>9, <1>10, <1>11, <1>12
       DEF ServerStep

LEMMA ShellText ==
  ASSUME BaseInv, TextInv, HeapInv, ShellStep
  PROVE  /\ step'["server"] = step["server"] /\ step'["shell"] # "write"
         /\ text' \in [Users -> SUBSET Pair] /\ text'["server"] = text["server"]
         /\ UNCHANGED transfer
         /\ leaked' \in Nat /\ heap' - leaked' = heap - leaked - Holds("shell")
         /\ heap' \in Int
  <1> DEFINE Moves == step'["server"] = step["server"] /\ step'["shell"] # "write"
  <1>0. heap \in Int /\ leaked \in Nat /\ Holds("shell") \in {0, 1}
    BY DEF HeapInv, Holds
  <1>g. ASSUME NEW place, place # "write", Goto("shell", place) PROVE Moves
    BY <1>g, TwoUsers DEF Goto, BaseInv
  <1>1. ASSUME NEW c \in Commands, Type(c) PROVE Moves /\ UNCHANGED shown /\ UNCHANGED transfer
                                                /\ Holds("shell") = 0
    <2>1. step["shell"] # "write" /\ UNCHANGED shown /\ UNCHANGED transfer
      BY <1>1 DEF Type
    <2>2. Moves
      <3>1. CASE c.do = "delete"
        BY <1>1, <2>1, <3>1 DEF Type
      <3>2. CASE c.do # "delete"
        BY <1>1, <1>g, <3>2 DEF Type
      <3> QED
        BY <3>1, <3>2
    <2> QED
      BY <2>1, <2>2 DEF Holds
  <1>2. ASSUME ats_load_cmd PROVE Moves /\ UNCHANGED shown /\ UNCHANGED transfer
                                 /\ Holds("shell") = 0
    <2>1. Moves
      BY <1>2, <1>g DEF ats_load_cmd
    <2> QED
      BY <1>2, <2>1 DEF ats_load_cmd, Holds
  <1>3. ASSUME ats_dump_cmd PROVE
         /\ Moves
         /\ text' \in [Users -> SUBSET Pair] /\ text'["server"] = text["server"]
         /\ UNCHANGED transfer
         /\ leaked' \in Nat /\ heap' - leaked' = heap - leaked - Holds("shell")
         /\ heap' \in Int
    <2>1. Moves
      BY <1>3, <1>g DEF ats_dump_cmd
    <2>2. Holds("shell") = 1
      BY <1>3 DEF ats_dump_cmd, Holds
    <2>3. leaked' \in Nat /\ heap' - leaked' = heap - leaked - Holds("shell") /\ heap' \in Int
      BY <1>3, <1>0, <2>2 DEF ats_dump_cmd
    <2> QED
      BY <1>3, <2>1, <2>3, TwoUsers DEF ats_dump_cmd, TextInv
  <1>4. ASSUME Moves, UNCHANGED shown, UNCHANGED transfer, Holds("shell") = 0 PROVE
         /\ Moves
         /\ text' \in [Users -> SUBSET Pair] /\ text'["server"] = text["server"]
         /\ UNCHANGED transfer
         /\ leaked' \in Nat /\ heap' - leaked' = heap - leaked - Holds("shell")
         /\ heap' \in Int
    BY <1>4, <1>0 DEF shown, TextInv
  <1> QED
    BY <1>1, <1>2, <1>3, <1>4 DEF ShellStep

(* The steps either user may take, and the firmware's.                     *)
LEMMA SharedText ==
  ASSUME BaseInv, TextInv, NEW u \in Users, CopyVersion(u) \/ WriteVersion(u)
  PROVE  /\ \A w \in Users : Holds(w)' = Holds(w)
         /\ \A w \in Users : step'[w] = "write" => step[w] = "write"
         /\ UNCHANGED <<heap, text, leaked, command, transfer>>
  <1>1. step[u] # "write" /\ UNCHANGED <<heap, text, leaked, command, transfer>>
    BY DEF CopyVersion, WriteVersion, shown
  <1>2. \A w \in Users : step'[w] = IF w = u THEN step'[u] ELSE step[w]
    BY DEF CopyVersion, WriteVersion, Goto, BaseInv
  <1>3. step'[u] # "write"
    BY DEF CopyVersion, WriteVersion, Goto, BaseInv
  <1> QED
    BY <1>1, <1>2, <1>3 DEF Holds

LEMMA BuildText ==
  ASSUME BaseInv, TextInv, HeapInv, NEW u \in Users, attr_prepare_then_dump(u)
  PROVE  /\ \A w \in Users \ {u} : step'[w] = step[w] /\ text'[w] = text[w]
         /\ text' \in [Users -> SUBSET Pair]
         /\ step'[u] = "write" => text'[u] = KeyValues(ram, dumpable(DumpType(u)))
         /\ UNCHANGED <<ram, message, command, ask, leaked>>
         /\ step[u] = "build" /\ heap' = heap + Holds(u)'
  <1>1. UNCHANGED <<ram, message, command, ask, leaked>> /\ step[u] = "build"
    BY DEF attr_prepare_then_dump, Respond, transfer
  <1>2. CASE step' = [step EXCEPT ![u] = "write"] /\ heap' = heap + 1
             /\ text' = [text EXCEPT ![u] = KeyValues(ram, dumpable(DumpType(u)))]
    <2>1. KeyValues(ram, dumpable(DumpType(u))) \subseteq Pair
      BY DumpableIds, KeyValuesPairs DEF BaseInv
    <2>2. step'[u] = "write" /\ \A w \in Users \ {u} : step'[w] = step[w]
      BY <1>2 DEF BaseInv
    <2> QED
      BY <1>1, <1>2, <2>1, <2>2 DEF Holds, TextInv
  <1>3. CASE UNCHANGED <<text, heap>> /\ step'[u] # "write"
             /\ \A w \in Users \ {u} : step'[w] = step[w]
    BY <1>1, <1>3 DEF Holds, TextInv, HeapInv
  <1>4. \/ /\ step' = [step EXCEPT ![u] = "write"] /\ heap' = heap + 1
           /\ text' = [text EXCEPT ![u] = KeyValues(ram, dumpable(DumpType(u)))]
        \/ /\ UNCHANGED <<text, heap>> /\ step'[u] # "write"
           /\ \A w \in Users \ {u} : step'[w] = step[w]
    BY DEF attr_prepare_then_dump, Respond, Goto, BaseInv
  <1> QED
    BY <1>2, <1>3, <1>4

LEMMA FirmwareText ==
  ASSUME NEW i \in Ids, NEW raw \in Raw, FirmwareSet(i, raw)
  PROVE  UNCHANGED <<heap, text, leaked, step, command, transfer>>
  BY DEF FirmwareSet, shown

AStep ==
    \/ ServerStep
    \/ ShellStep
    \/ \E u \in Users : CopyVersion(u) \/ WriteVersion(u) \/ attr_prepare_then_dump(u)
    \/ \E i \in Ids, raw \in Raw : FirmwareSet(i, raw)

(* A text that is in use was made from the values of one moment, and what  *)
(* it is a dump of does not change.                                        *)
LEMMA TextStep == BaseInv /\ TextInv /\ HeapInv /\ AStep => TextInv'
  <1> SUFFICES ASSUME BaseInv, TextInv, HeapInv, AStep PROVE TextInv'
    OBVIOUS
  <1> DEFINE Fine(u) == step'[u] = "write" =>
                  \E v \in Legal : text'[u] = KeyValues(v, dumpable(DumpType(u)'))
  <1>k. ASSUME NEW u \in Users, step'[u] = "write" => step[u] = "write",
               text'[u] = text[u], UNCHANGED <<message, command>> PROVE Fine(u)
    BY <1>k DEF TextInv, DumpType, param
  <1>s. ASSUME step'["shell"] = step["shell"], text'["shell"] = text["shell"],
               UNCHANGED command PROVE Fine("shell")
    BY <1>s, TwoUsers DEF TextInv, DumpType, param
  <1>1. CASE ServerStep
    <2>1. Fine("shell") /\ Fine("server") /\ text' \in [Users -> SUBSET Pair]
      BY <1>1, <1>s, ServerText
    <2> QED
      BY <2>1, TwoUsers DEF TextInv
  <1>2. CASE ShellStep
    <2>1. step'["server"] = "write" => step["server"] = "write"
      BY <1>2, ShellText
    <2>2. Fine("server")
      BY <1>2, <2>1, ShellText, TwoUsers DEF TextInv, DumpType, param, transfer
    <2>3. Fine("shell") /\ text' \in [Users -> SUBSET Pair]
      BY <1>2, ShellText
    <2> QED
      BY <2>2, <2>3, TwoUsers DEF TextInv
  <1>3. ASSUME NEW u \in Users, CopyVersion(u) \/ WriteVersion(u) PROVE TextInv'
    BY <1>3, <1>k, SharedText DEF TextInv, transfer
  <1>4. ASSUME NEW u \in Users, attr_prepare_then_dump(u) PROVE TextInv'
    <2>1. \A w \in Users \ {u} : Fine(w)
      BY <1>4, <1>k, BuildText
    <2>2. Fine(u)
      BY <1>4, BuildText DEF DumpType, param, BaseInv
    <2> QED
      BY <1>4, <2>1, <2>2, BuildText DEF TextInv
  <1>5. ASSUME NEW i \in Ids, NEW raw \in Raw, FirmwareSet(i, raw) PROVE TextInv'
    BY <1>5, <1>k, FirmwareText DEF TextInv, transfer
  <1> QED
    BY <1>1, <1>2, <1>3, <1>4, <1>5 DEF AStep

LEMMA HeapStep == BaseInv /\ TextInv /\ HeapInv /\ AStep => HeapInv'
  <1> SUFFICES ASSUME BaseInv, TextInv, HeapInv, AStep PROVE HeapInv'
    OBVIOUS
  <1>0. /\ \A u \in Users : Holds(u) \in {0, 1} /\ Holds(u)' \in {0, 1}
        /\ leaked \in Nat /\ heap = Holds("server") + Holds("shell") + leaked
    BY DEF Holds, HeapInv
  <1>1. CASE ServerStep
    <2>1. Holds("server")' = 0 /\ Holds("shell")' = Holds("shell")
      BY <1>1, ServerText DEF Holds
    <2> QED
      BY <1>0, <1>1, <2>1, ServerText, TwoUsers DEF HeapInv
  <1>2. CASE ShellStep
    <2>1. Holds("shell")' = 0 /\ Holds("server")' = Holds("server")
      BY <1>2, ShellText DEF Holds
    <2> QED
      BY <1>0, <1>2, <2>1, ShellText, TwoUsers DEF HeapInv
  <1>3. ASSUME NEW u \in Users, CopyVersion(u) \/ WriteVersion(u) PROVE HeapInv'
    BY <1>0, <1>3, SharedText, TwoUsers DEF HeapInv
  <1>4. ASSUME NEW u \in Users, attr_prepare_then_dump(u) PROVE HeapInv'
    <2>1. Holds(u) = 0 /\ \A w \in Users \ {u} : Holds(w)' = Holds(w)
      BY <1>4, BuildText DEF Holds
    <2> QED
      BY <1>0, <1>4, <2>1, BuildText, TwoUsers DEF HeapInv
  <1>5. ASSUME NEW i \in Ids, NEW raw \in Raw, FirmwareSet(i, raw) PROVE HeapInv'
    BY <1>5, FirmwareText DEF HeapInv, Holds
  <1> QED
    BY <1>1, <1>2, <1>3, <1>4, <1>5 DEF AStep

-----------------------------------------------------------------------------
(* The files.                                                              *)

LEMMA SaveFiles ==
  ASSUME BaseInv, DumpInv, NEW u, NEW v, NEW ok \in BOOLEAN, save_attributes(u, v, ok)
  PROVE  /\ ~apart' => files'[AttributePath] = Kvp(KeyValues(v, Saved))
         /\ DumpInv'
  <1>0. AttributePath \in Paths
    BY SmpInputAssumption DEF SmpInputAssumption
  <1>1. CASE ok
    <2>1. ~last'[AttributePath].w
      BY <1>0, <1>1 DEF save_attributes, BaseInv, Nobody
    <2>2. \A path \in Paths \ {AttributePath} : last'[path] = last[path] /\ files'[path] = files[path]
      BY <1>1 DEF save_attributes, BaseInv
    <2> QED
      BY <1>0, <1>1, <2>1, <2>2 DEF save_attributes, DumpInv, BaseInv
  <1>2. CASE ~ok
    BY <1>2 DEF save_attributes, DumpInv
  <1> QED
    BY <1>1, <1>2

(* A write that is not saved changes nothing the attribute file shows.     *)
LEMMA WriteFiles ==
  ASSUME BaseInv, WholeInv, DumpInv, NEW u, NEW i \in Ids, NEW n, NEW ok \in BOOLEAN,
         write_single(u, i, n, ok)
  PROVE  WholeInv' /\ DumpInv'
  <1>1. CASE Modifies(Table[i], ram[i], n) /\ i \in Saved
    BY <1>1, SaveFiles DEF write_single, WholeInv
  <1>2. CASE ~(Modifies(Table[i], ram[i], n) /\ i \in Saved)
    <2>1. \A j \in Saved : ram'[j] = ram[j]
      BY <1>2 DEF write_single, Modifies, BaseInv, Legal
    <2>2. KeyValues(ram', Saved) = KeyValues(ram, Saved)
      BY <2>1 DEF KeyValues
    <2> QED
      BY <1>2, <2>2 DEF write_single, stored, WholeInv, DumpInv
  <1> QED
    BY <1>1, <1>2

LEMMA LoadFiles ==
  ASSUME BaseInv, WholeInv, DumpInv, NEW u, NEW path, NEW r, attr_load(u, path, r)
  PROVE  WholeInv' /\ DumpInv'
  <1>1. CASE Loadable(files[path])
    <2>1. PICK ok \in BOOLEAN : save_attributes(u, ram', ok)
      BY <1>1 DEF attr_load
    <2> QED
      BY <2>1, SaveFiles DEF WholeInv
  <1>2. CASE ~Loadable(files[path])
    BY <1>2 DEF attr_load, stored, WholeInv, DumpInv
  <1> QED
    BY <1>1, <1>2

(* A file that is written is a dump, or marked as none.                    *)
LEMMA DumpFiles ==
  ASSUME BaseInv, TextInv, WholeInv, DumpInv, NEW u \in Users, step[u] = "write",
         NEW path, NEW ok \in BOOLEAN, fsu_write_abs(u, path, ok), UNCHANGED ram
  PROVE  WholeInv' /\ DumpInv'
  <1>1. PICK f \in (IF ok THEN {Kvp(text[u])} ELSE {files[path], Broken}) :
            files' = [files EXCEPT ![path] = f]
    BY DEF fsu_write_abs
  <1>2. WholeInv'
    <2>1. ~apart' => ~apart /\ path # AttributePath
      BY DEF fsu_write_abs
    <2> QED
      BY <1>1, <2>1 DEF WholeInv, BaseInv
  <1>3. ASSUME NEW p \in Paths, last'[p].w, files'[p].state = "kvp"
        PROVE  \E v \in Legal : files'[p] = Kvp(KeyValues(v, is_dump_w))
    <2>1. CASE p # path
      BY <1>1, <1>3, <2>1 DEF fsu_write_abs, BaseInv, DumpInv
    <2>2. CASE p = path
      <3>1. ok /\ DumpType(u) = ATTR_DUMP_W
        BY <1>3, <2>2 DEF fsu_write_abs, BaseInv
      <3>2. files'[p] = Kvp(text[u])
        BY <1>1, <2>2, <3>1 DEF BaseInv
      <3>3. dumpable(DumpType(u)) = is_dump_w
        BY <3>1 DEF dumpable, ATTR_DUMP_W, ATTR_DUMP_RO
      <3> QED
        BY <3>2, <3>3 DEF TextInv
    <2> QED
      BY <2>1, <2>2
  <1> QED
    BY <1>2, <1>3 DEF DumpInv

LEMMA QuietFiles ==
  ASSUME WholeInv, DumpInv, UNCHANGED <<ram, files, last, apart>>
  PROVE  WholeInv' /\ DumpInv'
  BY DEF WholeInv, DumpInv

LEMMA GoneFiles ==
  ASSUME BaseInv, WholeInv, DumpInv, NEW path, NEW who,
         files' = [files EXCEPT ![path] = NoFile],
         last' = [last EXCEPT ![path] = [Nobody EXCEPT !.by = who]],
         path = AttributePath => apart', apart => apart', UNCHANGED ram
  PROVE  WholeInv' /\ DumpInv'
  BY DEF WholeInv, DumpInv, BaseInv, Nobody

LEMMA FilesStep ==
  BaseInv /\ TextInv /\ WholeInv /\ DumpInv /\ AStep => WholeInv' /\ DumpInv'
  <1> SUFFICES ASSUME BaseInv, TextInv, WholeInv, DumpInv, AStep PROVE WholeInv' /\ DumpInv'
    OBVIOUS
  <1>1. ASSUME NEW q \in Requests, Receive(q) PROVE WholeInv' /\ DumpInv'
    BY <1>1, QuietFiles DEF Receive, stored
  <1>2. ASSUME Malformed \/ unsupported PROVE WholeInv' /\ DumpInv'
    BY <1>2, QuietFiles DEF Malformed, unsupported, Refuse, stored
  <1>3. ASSUME get_parameter \/ SetRefused \/ NothingToDump PROVE WholeInv' /\ DumpInv'
    BY <1>3, QuietFiles DEF get_parameter, SetRefused, NothingToDump, stored
  <1>4. ASSUME set_parameter PROVE WholeInv' /\ DumpInv'
    BY <1>4, SetLegal, WriteFiles DEF set_parameter
  <1>5. ASSUME load_parameter_file PROVE WholeInv' /\ DumpInv'
    <2> DEFINE path == IF Has_param("p1") THEN param["p1"].is ELSE load_path
    <2>1. PICK r \in {0, EIO, EINVAL} :
            IF path \in Paths
            THEN attr_load("server", path, r)
            ELSE r = EINVAL /\ UNCHANGED <<ram, touched, saveFailed, stored>>
      BY <1>5 DEF load_parameter_file
    <2>2. CASE path \in Paths
      BY <2>1, <2>2, LoadFiles
    <2>3. CASE path \notin Paths
      BY <2>1, <2>3, QuietFiles DEF stored
    <2> QED
      BY <2>2, <2>3
  <1>6. ASSUME dump_parameter_file PROVE WholeInv' /\ DumpInv'
    BY <1>6, GoneFiles DEF dump_parameter_file
  <1>7. ASSUME WriteDump PROVE WholeInv' /\ DumpInv'
    BY <1>7, DumpFiles, TwoUsers DEF WriteDump
  <1>8. ASSUME factory_reset PROVE WholeInv' /\ DumpInv'
    BY <1>8, QuietFiles DEF factory_reset, stored
  <1>9. ASSUME ResetTable PROVE WholeInv' /\ DumpInv'
    BY <1>9 DEF ResetTable, WholeInv, DumpInv
  <1>10. ASSUME SaveReset PROVE WholeInv' /\ DumpInv'
    BY <1>10, SaveFiles DEF SaveReset, WholeInv
  <1>11. ASSUME set_notify \/ get_notify \/ disable_notify \/ Answer \/ Taken
         PROVE  WholeInv' /\ DumpInv'
    BY <1>11, QuietFiles DEF set_notify, get_notify, disable_notify, Answer, Taken, stored
  <1>12. ASSUME NEW c \in Commands, Type(c) PROVE WholeInv' /\ DumpInv'
    <2>1. CASE c.do = "delete"
      BY <1>12, <2>1, GoneFiles DEF Type
    <2>2. CASE c.do # "delete"
      BY <1>12, <2>2, QuietFiles DEF Type, stored
    <2> QED
      BY <2>1, <2>2
  <1>13. ASSUME ats_load_cmd PROVE WholeInv' /\ DumpInv'
    BY <1>13, LoadFiles DEF ats_load_cmd
  <1>14. ASSUME ats_dump_cmd PROVE WholeInv' /\ DumpInv'
    BY <1>14, DumpFiles, TwoUsers DEF ats_dump_cmd
  <1>15. ASSUME NEW u \in Users, CopyVersion(u) PROVE WholeInv' /\ DumpInv'
    BY <1>15, QuietFiles DEF CopyVersion, stored
  <1>16. ASSUME NEW u \in Users, WriteVersion(u) PROVE WholeInv' /\ DumpInv'
    <2>1. CASE Accepts(Table[config_version], version[u] + 1)
      <3>1. PICK ok \in BOOLEAN : write_single(u, config_version, version[u] + 1, ok)
        BY <1>16, <2>1 DEF WriteVersion
      <3>2. config_version \in Ids
        BY SmpTableAssumption DEF SmpTableAssumption
      <3> QED
        BY <3>1, <3>2, WriteFiles
    <2>2. CASE ~Accepts(Table[config_version], version[u] + 1)
      BY <1>16, <2>2, QuietFiles DEF WriteVersion, stored
    <2> QED
      BY <2>1, <2>2
  <1>17. ASSUME NEW u \in Users, attr_prepare_then_dump(u) PROVE WholeInv' /\ DumpInv'
    BY <1>17, QuietFiles DEF attr_prepare_then_dump, stored
  <1>18. ASSUME NEW i \in Ids, NEW raw \in Raw, FirmwareSet(i, raw) PROVE WholeInv' /\ DumpInv'
    BY <1>18, WriteFiles DEF FirmwareSet
  <1> QED
    BY <1>1, <1>2, <1>3, <1>4, <1>5, <1>6, <1>7, <1>8, <1>9, <1>10, <1>11, <1>12, <1>13,
       <1>14, <1>15, <1>16, <1>17, <1>18 DEF AStep, ServerStep, ShellStep

-----------------------------------------------------------------------------
(* The answers.                                                            *)

LEMMA ErrorNumbers ==
  ASSUME NEW r PROVE Int32(r).is = r
  BY DEF Int32, Item

(* What save_attributes() and its callers tell of a save.                  *)
LEMMA WriteTold ==
  ASSUME BaseInv, NEW u, NEW i, NEW n, NEW ok \in BOOLEAN, write_single(u, i, n, ok)
  PROVE  /\ u = "server" /\ ~ok => saveFailed'
         /\ ok => saveFailed' = saveFailed
         /\ u # "server" => UNCHANGED <<touched, saveFailed>>
  BY DEF write_single, save_attributes, Touch, BaseInv

LEMMA LoadTold ==
  ASSUME BaseInv, NEW u, NEW path, NEW r, attr_load(u, path, r)
  PROVE  /\ u = "server" /\ r < 0 /\ ~saveFailed' => touched' = touched
         /\ u # "server" => UNCHANGED <<touched, saveFailed>>
  <1>1. CASE Loadable(files[path])
    <2>1. PICK ok \in BOOLEAN : save_attributes(u, ram', ok) /\ r = IF ok THEN 0 ELSE EIO
      BY <1>1 DEF attr_load
    <2>2. Touch(u)
      BY <1>1 DEF attr_load
    <2>3. u = "server" /\ ~ok => saveFailed'
      BY <2>1 DEF save_attributes
    <2>4. u # "server" => UNCHANGED <<touched, saveFailed>>
      BY <2>1, <2>2 DEF save_attributes, Touch, BaseInv
    <2> QED
      BY <2>1, <2>3, <2>4
  <1>2. CASE ~Loadable(files[path])
    BY <1>2 DEF attr_load
  <1> QED
    BY <1>1, <1>2

LEMMA RefuseKept ==
  ASSUME RefuseInv, UNCHANGED <<touched, saveFailed, reply, result>>,
         step'["server"] = step["server"]
  PROVE  RefuseInv'
  BY DEF RefuseInv, RefusedMeansUntouched, Failed

(* Before RAM is written any answer is fine.                               *)
LEMMA RefuseEarly ==
  ASSUME BaseInv, ~touched, UNCHANGED touched,
         Goto("server", "answer")
            \/ (UNCHANGED saveFailed /\ Goto("server", "build"))
            \/ Goto("server", "table")
  PROVE  RefuseInv'
  <1>1. step'["server"] \in {"answer", "build", "table"}
    BY TwoUsers DEF Goto, BaseInv
  <1> QED
    BY <1>1 DEF RefuseInv

(* An answer that is no error, and cannot become one.                      *)
LEMMA RefuseAnswered ==
  ASSUME BaseInv, NEW place, place = "answer" \/ place = "version", Goto("server", place),
         place = "version" => result'["r"].is = 0 /\ DOMAIN result' = {"id", "r"},
         result'["r"].is < 0 /\ ~saveFailed' => ~touched',
         DOMAIN result' \cap {"r1", "n"} = {}
  PROVE  RefuseInv'
  <1>1. step'["server"] = place
    BY TwoUsers DEF Goto, BaseInv
  <1> QED
    BY <1>1 DEF RefuseInv

LEMMA ServerRefuse == BaseInv /\ RefuseInv /\ ServerStep => RefuseInv'
  <1> SUFFICES ASSUME BaseInv, RefuseInv, ServerStep PROVE RefuseInv'
    OBVIOUS
  <1>g. ASSUME NEW place, Goto("server", place) PROVE step'["server"] = place
    BY <1>g, TwoUsers DEF Goto, BaseInv
  <1>1. ASSUME NEW q \in Requests, Receive(q) PROVE RefuseInv'
    <2>1. step'["server"] = "received"
      BY <1>1, <1>g DEF Receive
    <2> QED
      BY <1>1, <2>1 DEF Receive, RefuseInv
  <1>2. ASSUME Malformed \/ unsupported PROVE RefuseInv'
    <2>1. step'["server"] = "sent" /\ step["server"] = "received" /\ touched' = touched
      BY <1>2, <1>g DEF Malformed, unsupported, In, Refuse
    <2> QED
      BY <2>1 DEF RefuseInv, RefusedMeansUntouched
  <1>3. ASSUME get_parameter \/ SetRefused \/ NothingToDump \/ factory_reset
               \/ set_notify \/ get_notify \/ disable_notify
        PROVE  RefuseInv'
    <2>1. ~touched /\ UNCHANGED touched
      BY <1>3 DEF get_parameter, SetRefused, NothingToDump, factory_reset, set_notify,
                  get_notify, disable_notify, In, RefuseInv
    <2>2. Goto("server", "answer") \/ Goto("server", "table")
      BY <1>3 DEF get_parameter, SetRefused, NothingToDump, factory_reset, set_notify,
                  get_notify, disable_notify, Respond
    <2> QED
      BY <2>1, <2>2, RefuseEarly
  <1>4. ASSUME set_parameter PROVE RefuseInv'
    <2>1. PICK ok \in BOOLEAN :
            /\ write_single("server", Id, param["p2"].is, ok)
            /\ result' = SetResult(IF ok THEN 0 ELSE EIO)
            /\ Goto("server", IF ok /\ Modifies(Table[Id], ram[Id], param["p2"].is)
                              THEN "version" ELSE "answer")
      BY <1>4 DEF set_parameter
    <2>2. DOMAIN result' = {"id", "r"} /\ result'["r"].is = IF ok THEN 0 ELSE EIO
      BY <2>1, ErrorNumbers DEF SetResult
    <2>3. ~ok => saveFailed'
      BY <2>1, WriteTold
    <2> DEFINE place == IF ok /\ Modifies(Table[Id], ram[Id], param["p2"].is)
                        THEN "version" ELSE "answer"
    <2>4. result'["r"].is < 0 /\ ~saveFailed' => ~touched'
      BY <2>2, <2>3
    <2>5. place = "version" => result'["r"].is = 0 /\ DOMAIN result' = {"id", "r"}
      BY <2>2
    <2> QED
      BY <2>1, <2>2, <2>4, <2>5, RefuseAnswered
  <1>5. ASSUME load_parameter_file PROVE RefuseInv'
    <2> DEFINE path == IF Has_param("p1") THEN param["p1"].is ELSE load_path
    <2>1. PICK r \in {0, EIO, EINVAL} :
            /\ IF path \in Paths
               THEN attr_load("server", path, r)
               ELSE r = EINVAL /\ UNCHANGED <<ram, touched, saveFailed, stored>>
            /\ Respond([r |-> Int32(r)])
      BY <1>5 DEF load_parameter_file
    <2>2. DOMAIN result' = {"r"} /\ result'["r"].is = r
      BY <2>1, ErrorNumbers DEF Respond
    <2>3. r < 0 /\ ~saveFailed' => touched' = touched
      BY <2>1, LoadTold
    <2>4. ~touched
      BY <1>5 DEF load_parameter_file, In, RefuseInv
    <2> QED
      BY <2>1, <2>2, <2>3, <2>4, RefuseAnswered DEF Respond
  <1>6. ASSUME dump_parameter_file PROVE RefuseInv'
    BY <1>6, RefuseEarly DEF dump_parameter_file, In, RefuseInv
  <1>7. ASSUME WriteDump PROVE RefuseInv'
    BY <1>7, RefuseEarly DEF WriteDump, Respond, RefuseInv
  <1>8. ASSUME ResetTable PROVE RefuseInv'
    <2>1. step'["server"] = "save"
      BY <1>8, <1>g DEF ResetTable
    <2> QED
      BY <2>1 DEF RefuseInv
  <1>9. ASSUME SaveReset PROVE RefuseInv'
    <2>1. PICK ok \in BOOLEAN : /\ save_attributes("server", ram, ok)
                                /\ Respond([r |-> Int32(IF ok THEN 0 ELSE EIO)])
      BY <1>9 DEF SaveReset
    <2>2. DOMAIN result' = {"r"} /\ result'["r"].is = IF ok THEN 0 ELSE EIO
      BY <2>1, ErrorNumbers DEF Respond
    <2>3. ~ok => saveFailed'
      BY <2>1 DEF save_attributes
    <2> QED
      BY <2>1, <2>2, <2>3, RefuseAnswered DEF Respond
  <1>10. ASSUME Answer PROVE RefuseInv'
    <2>1. step["server"] = "answer" /\ step'["server"] = "sent" /\ result' = result
          /\ UNCHANGED <<touched, saveFailed>>
      BY <1>10, <1>g DEF Answer
    <2>2. reply' = "OK" \/ DOMAIN result \cap {"r1", "n"} # {}
      BY <1>10 DEF Answer
    <2> QED
      BY <2>1, <2>2 DEF RefuseInv, RefusedMeansUntouched, Failed
  <1>11. ASSUME Taken PROVE RefuseInv'
    <2>1. step'["server"] = "idle"
      BY <1>11, <1>g DEF Taken
    <2> QED
      BY <1>11, <2>1 DEF Taken, RefuseInv
  <1> QED
    BY <1>1, <1>2, <1>3, <1>4, <1>5, <1>6, <1>7, <1>8, <1>9, <1>10, <1>11 DEF ServerStep

LEMMA RefuseStep == BaseInv /\ RefuseInv /\ AStep => RefuseInv'
  <1> SUFFICES ASSUME BaseInv, RefuseInv, AStep PROVE RefuseInv'
    OBVIOUS
  <1>o. ASSUME NEW u \in Users, NEW place, Goto(u, place)
        PROVE  IF u = "server" THEN step'[u] = place ELSE step'["server"] = step["server"]
    BY <1>o, TwoUsers DEF Goto, BaseInv
  <1>1. CASE ServerStep
    BY <1>1, ServerRefuse
  <1>2. CASE ShellStep
    <2>1. ASSUME NEW c \in Commands, Type(c) PROVE RefuseInv'
      <3>1. step'["server"] = step["server"]
        BY <2>1, <1>o, TwoUsers DEF Type
      <3> QED
        BY <2>1, <3>1, RefuseKept DEF Type, transfer
    <2>2. ASSUME ats_load_cmd PROVE RefuseInv'
      <3>1. step'["server"] = step["server"]
        BY <2>2, <1>o, TwoUsers DEF ats_load_cmd
      <3>2. UNCHANGED <<touched, saveFailed>>
        BY <2>2, LoadTold, TwoUsers DEF ats_load_cmd
      <3> QED
        BY <2>2, <3>1, <3>2, RefuseKept DEF ats_load_cmd, transfer
    <2>3. ASSUME ats_dump_cmd PROVE RefuseInv'
      <3>1. step'["server"] = step["server"]
        BY <2>3, <1>o, TwoUsers DEF ats_dump_cmd
      <3> QED
        BY <2>3, <3>1, RefuseKept DEF ats_dump_cmd, transfer
    <2> QED
      BY <1>2, <2>1, <2>2, <2>3 DEF ShellStep
  <1>3. ASSUME NEW u \in Users, CopyVersion(u) PROVE RefuseInv'
    <2>1. CASE u = "server"
      <3>1. step["server"] = "version" /\ step'["server"] = "increment" /\ result' = result
        BY <1>3, <1>o, <2>1 DEF CopyVersion, transfer
      <3> QED
        BY <3>1 DEF RefuseInv
    <2>2. CASE u # "server"
      <3>1. step'["server"] = step["server"]
        BY <1>3, <1>o, <2>2 DEF CopyVersion
      <3> QED
        BY <1>3, <3>1, RefuseKept DEF CopyVersion, transfer
    <2> QED
      BY <2>1, <2>2
  <1>4. ASSUME NEW u \in Users, WriteVersion(u) PROVE RefuseInv'
    <2>1. CASE u = "server"
      <3>1. step["server"] = "increment" /\ Goto("server", "answer") /\ result' = result
        BY <1>4, <2>1 DEF WriteVersion, transfer
      <3>2. result["r"].is = 0 /\ DOMAIN result = {"id", "r"}
        BY <3>1 DEF RefuseInv
      <3>3. ~(result'["r"].is < 0) /\ DOMAIN result' \cap {"r1", "n"} = {}
        BY <3>1, <3>2
      <3> QED
        BY <3>1, <3>3, RefuseAnswered
    <2>2. CASE u # "server"
      <3>1. step'["server"] = step["server"]
        BY <1>4, <1>o, <2>2 DEF WriteVersion
      <3>2. UNCHANGED <<touched, saveFailed>>
        <4>1. CASE Accepts(Table[config_version], version[u] + 1)
          BY <1>4, <2>2, <4>1, WriteTold DEF WriteVersion
        <4>2. CASE ~Accepts(Table[config_version], version[u] + 1)
          BY <1>4, <4>2 DEF WriteVersion
        <4> QED
          BY <4>1, <4>2
      <3> QED
        BY <1>4, <3>1, <3>2, RefuseKept DEF WriteVersion, transfer
    <2> QED
      BY <2>1, <2>2
  <1>5. ASSUME NEW u \in Users, attr_prepare_then_dump(u) PROVE RefuseInv'
    <2>1. CASE u = "server"
      <3>1. ~touched /\ UNCHANGED touched
        BY <1>5, <2>1 DEF attr_prepare_then_dump, RefuseInv
      <3>2. CASE Goto("server", "write")
        <4>1. step'["server"] = "write"
          BY <3>2, <1>o, TwoUsers
        <4> QED
          BY <3>1, <4>1 DEF RefuseInv
      <3>3. CASE Goto("server", "answer")
        BY <3>1, <3>3, RefuseEarly
      <3> QED
        BY <1>5, <2>1, <3>2, <3>3 DEF attr_prepare_then_dump, Respond
    <2>2. CASE u # "server"
      <3>1. step'["server"] = step["server"]
        BY <1>5, <1>o, <2>2 DEF attr_prepare_then_dump
      <3> QED
        BY <1>5, <2>2, <3>1, RefuseKept DEF attr_prepare_then_dump, transfer
    <2> QED
      BY <2>1, <2>2
  <1>6. ASSUME NEW i \in Ids, NEW raw \in Raw, FirmwareSet(i, raw) PROVE RefuseInv'
    <2>1. UNCHANGED <<touched, saveFailed>>
      BY <1>6, WriteTold DEF FirmwareSet
    <2> QED
      BY <1>6, <2>1, RefuseKept DEF FirmwareSet, transfer
  <1> QED
    BY <1>1, <1>2, <1>3, <1>4, <1>5, <1>6 DEF AStep

-----------------------------------------------------------------------------
(* The dump the server answers with.                                       *)

(* What arrives is what the client asked for, and whose step it is.        *)
AskInv ==
    /\ step["server"] \in {"received", "build", "write"} =>
          \A k \in DOMAIN message : message[k].item = ask.struct[message[k].key]
    /\ step["server"] \in {"build", "write"} => ask.op = "dump_parameter_file"
    /\ step["server"] \in {"table", "save"} => ask.op = "factory_reset"
    /\ step["server"] \in {"version", "increment"} => ask.op = "set_parameter"

(* From the text, made at one moment since the request, to the file.       *)
Asked == ask.struct["p1"].is
Dumped(values) == KeyValues(values, dumpable(Asked))
Answered ==
    /\ step["server"] \in {"answer", "sent"}
    /\ step["server"] = "sent" => reply = "OK"
    /\ ask.op = "dump_parameter_file" /\ Asked < UINT8_MAX /\ result["r"].is >= 0
SnapInv ==
    /\ seen \subseteq Legal
    /\ step["server"] \in {"build", "write"} =>
          DumpType("server") = Asked /\ DumpName \in Paths
    /\ step["server"] = "write" => \E v \in seen : text["server"] = Dumped(v)
    /\ Answered =>
          /\ result["n"].is \in Paths
          /\ last[result["n"].is].by = "server" =>
                \E v \in seen : files[result["n"].is] = Kvp(Dumped(v))

LEMMA AskServer == BaseInv /\ AskInv /\ ServerStep => AskInv'
  <1> SUFFICES ASSUME BaseInv, AskInv, ServerStep PROVE AskInv'
    OBVIOUS
  <1>g. ASSUME NEW place, Goto("server", place) PROVE step'["server"] = place
    BY <1>g, TwoUsers DEF Goto, BaseInv
  <1>r. ASSUME NEW struct, Respond(struct) PROVE step'["server"] = "answer"
    BY <1>r, <1>g DEF Respond
  <1>1. ASSUME NEW q \in Requests, Receive(q) PROVE AskInv'
    <2>1. step'["server"] = "received"
      BY <1>1, <1>g DEF Receive
    <2>2. \A k \in DOMAIN message' : message'[k].item = ask'.struct[message'[k].key]
      BY <1>1 DEF Receive, cbor_encode
    <2> QED
      BY <2>1, <2>2 DEF AskInv
  <1>2. ASSUME Malformed \/ unsupported \/ Answer \/ Taken PROVE AskInv'
    <2>1. step'["server"] \in {"sent", "idle"}
      BY <1>2, <1>g DEF Malformed, unsupported, Refuse, Answer, Taken
    <2> QED
      BY <2>1 DEF AskInv
  <1>3. ASSUME get_parameter \/ SetRefused \/ NothingToDump \/ set_notify \/ get_notify
               \/ disable_notify
        PROVE  AskInv'
    <2>1. step'["server"] = "answer"
      BY <1>3, <1>r DEF get_parameter, SetRefused, NothingToDump, set_notify,
                        get_notify, disable_notify
    <2> QED
      BY <2>1 DEF AskInv
  <1>4. ASSUME set_parameter PROVE AskInv'
    <2>1. step'["server"] \in {"version", "answer"}
      BY <1>4, <1>g DEF set_parameter
    <2> QED
      BY <1>4, <2>1 DEF set_parameter, In, AskInv
  <1>5. ASSUME load_parameter_file PROVE AskInv'
    <2>1. step'["server"] = "answer"
      BY <1>5, <1>r DEF load_parameter_file
    <2> QED
      BY <2>1 DEF AskInv
  <1>6. ASSUME dump_parameter_file PROVE AskInv'
    <2>1. step'["server"] = "build"
      BY <1>6, <1>g DEF dump_parameter_file
    <2> QED
      BY <1>6, <2>1 DEF dump_parameter_file, In, AskInv, transfer
  <1>7. ASSUME WriteDump PROVE AskInv'
    <2>1. step'["server"] = "answer"
      BY <1>7, <1>r DEF WriteDump
    <2> QED
      BY <2>1 DEF AskInv
  <1>8. ASSUME factory_reset PROVE AskInv'
    <2>1. step'["server"] = "answer" \/ (step'["server"] = "table" /\ UNCHANGED transfer)
      BY <1>8, <1>g, <1>r DEF factory_reset
    <2> QED
      BY <1>8, <2>1 DEF factory_reset, In, AskInv, transfer
  <1>9. ASSUME ResetTable \/ SaveReset PROVE AskInv'
    <2>1. CASE ResetTable
      <3>1. step'["server"] = "save" /\ step["server"] = "table" /\ ask' = ask
        BY <2>1, <1>g DEF ResetTable, transfer
      <3> QED
        BY <3>1 DEF AskInv
    <2>2. CASE SaveReset
      <3>1. step'["server"] = "answer"
        BY <2>2, <1>r DEF SaveReset
      <3> QED
        BY <3>1 DEF AskInv
    <2> QED
      BY <1>9, <2>1, <2>2
  <1> QED
    BY <1>1, <1>2, <1>3, <1>4, <1>5, <1>6, <1>7, <1>8, <1>9 DEF ServerStep

(* The steps of the others, and those the server has in common with them.  *)
LEMMA OtherSteps ==
  ASSUME BaseInv, AStep, ~ServerStep
  PROVE  /\ UNCHANGED <<ask, message>>
         /\ \/ step'["server"] = step["server"]
            \/ step["server"] = "version" /\ step'["server"] = "increment"
            \/ step["server"] = "increment" /\ step'["server"] = "answer"
            \/ step["server"] = "build" /\ step'["server"] \in {"write", "answer"}
  <1>o. ASSUME NEW u \in Users, NEW place, Goto(u, place)
        PROVE  IF u = "server" THEN step'[u] = place ELSE step'["server"] = step["server"]
    BY <1>o, TwoUsers DEF Goto, BaseInv
  <1>1. CASE ShellStep
    <2>1. UNCHANGED <<ask, message>>
      BY <1>1 DEF ShellStep, Type, ats_load_cmd, ats_dump_cmd, transfer
    <2>2. step'["server"] = step["server"]
      BY <1>1, <1>o, TwoUsers DEF ShellStep, Type, ats_load_cmd, ats_dump_cmd
    <2> QED
      BY <2>1, <2>2
  <1>2. ASSUME NEW u \in Users, CopyVersion(u)
        PROVE  /\ UNCHANGED <<ask, message>>
               /\ \/ step'["server"] = step["server"]
                  \/ step["server"] = "version" /\ step'["server"] = "increment"
    BY <1>2, <1>o DEF CopyVersion, transfer
  <1>3. ASSUME NEW u \in Users, WriteVersion(u)
        PROVE  /\ UNCHANGED <<ask, message>>
               /\ \/ step'["server"] = step["server"]
                  \/ step["server"] = "increment" /\ step'["server"] = "answer"
    <2>1. CASE u = "server"
      BY <1>3, <1>o, <2>1 DEF WriteVersion, transfer
    <2>2. CASE u # "server"
      BY <1>3, <1>o, <2>2 DEF WriteVersion, transfer
    <2> QED
      BY <2>1, <2>2
  <1>4. ASSUME NEW u \in Users, attr_prepare_then_dump(u)
        PROVE  /\ UNCHANGED <<ask, message>>
               /\ \/ step'["server"] = step["server"]
                  \/ step["server"] = "build" /\ step'["server"] \in {"write", "answer"}
    <2>1. CASE u = "server"
      BY <1>4, <1>o, <2>1 DEF attr_prepare_then_dump, Respond, transfer
    <2>2. CASE u # "server"
      BY <1>4, <1>o, <2>2 DEF attr_prepare_then_dump, Respond, transfer
    <2> QED
      BY <2>1, <2>2
  <1>5. ASSUME NEW i \in Ids, NEW raw \in Raw, FirmwareSet(i, raw)
        PROVE  UNCHANGED <<ask, message>> /\ step'["server"] = step["server"]
    BY <1>5 DEF FirmwareSet, transfer
  <1> QED
    BY <1>1, <1>2, <1>3, <1>4, <1>5 DEF AStep

LEMMA AskStep == BaseInv /\ AskInv /\ AStep => AskInv'
  <1> SUFFICES ASSUME BaseInv, AskInv, AStep PROVE AskInv'
    OBVIOUS
  <1>1. CASE ServerStep
    BY <1>1, AskServer
  <1>2. CASE ~ServerStep
    BY <1>2, OtherSteps DEF AskInv
  <1> QED
    BY <1>1, <1>2

(* The server reads the selection the client sent.                         *)
LEMMA SelectionRead ==
  ASSUME AskInv, In("dump_parameter_file")
  PROVE  param["p1"].is = Asked
  <1>1. "p1" \in Keys(message)
    BY DEF In, NotDecoded, Understood, Decodes, Decode, decode_dump_parameter_file,
           Member, Optional
  <1>2. \E k \in DOMAIN message : message[k].key = "p1"
    BY <1>1 DEF Keys
  <1> DEFINE k1 == CHOOSE k \in DOMAIN message : message[k].key = "p1"
  <1>3. k1 \in DOMAIN message /\ message[k1].key = "p1"
    BY <1>2
  <1>4. param["p1"] = message[k1].item
    BY <1>1 DEF param, cbor_decode
  <1>5. message[k1].item = ask.struct["p1"]
    BY <1>3 DEF AskInv, In
  <1> QED
    BY <1>4, <1>5 DEF Asked

(* A file whose last writer is the server is as the server wrote it.       *)
Others ==
    \A path \in Paths :
        last'[path].by = "server" => last[path].by = "server" /\ files'[path] = files[path]

LEMMA SnapKept ==
  ASSUME SnapInv, seen' \subseteq Legal, ask.op = "dump_parameter_file" => seen \subseteq seen',
         UNCHANGED <<ask, message, result, reply>>, step'["server"] = step["server"],
         text'["server"] = text["server"], Others, AskInv
  PROVE  SnapInv'
  <1>1. DumpType("server")' = DumpType("server") /\ DumpName' = DumpName /\ Asked' = Asked
    BY DEF DumpType, DumpName, Asked, param, Has_param
  <1>2. \A v : Dumped(v)' = Dumped(v)
    BY <1>1 DEF Dumped, KeyValues
  <1>3. Answered' = Answered
    BY <1>1 DEF Answered
  <1>4. step'["server"] = "write" => \E v \in seen' : text'["server"] = Dumped(v)'
    BY <1>2 DEF SnapInv, AskInv
  <1>5. ASSUME Answered'
        PROVE  /\ result'["n"].is \in Paths
               /\ last'[result'["n"].is].by = "server" =>
                    \E v \in seen' : files'[result'["n"].is] = Kvp(Dumped(v)')
    <2>1. Answered /\ result' = result /\ seen \subseteq seen'
      BY <1>3, <1>5 DEF Answered
    <2> QED
      BY <1>2, <2>1 DEF SnapInv, Others
  <1> QED
    BY <1>1, <1>4, <1>5 DEF SnapInv

(* Every answer but the one that follows a write.                          *)
LEMMA SnapVacuous ==
  ASSUME seen' \subseteq Legal, step'["server"] \notin {"build", "write"}, ~Answered'
  PROVE  SnapInv'
  BY DEF SnapInv

LEMMA SaveOthers ==
  ASSUME BaseInv, NEW u, NEW v, NEW ok \in BOOLEAN, save_attributes(u, v, ok)
  PROVE  Others
  BY DEF save_attributes, Others, BaseInv, Nobody

LEMMA WriteOthers ==
  ASSUME BaseInv, NEW u, NEW i, NEW n, NEW ok \in BOOLEAN, write_single(u, i, n, ok)
  PROVE  Others
  <1>1. CASE Modifies(Table[i], ram[i], n) /\ i \in Saved
    BY <1>1, SaveOthers DEF write_single
  <1>2. CASE ~(Modifies(Table[i], ram[i], n) /\ i \in Saved)
    BY <1>2 DEF write_single, stored, Others
  <1> QED
    BY <1>1, <1>2

LEMMA LoadOthers ==
  ASSUME BaseInv, NEW u, NEW path, NEW r, attr_load(u, path, r)
  PROVE  Others
  <1>1. CASE Loadable(files[path])
    BY <1>1, SaveOthers DEF attr_load
  <1>2. CASE ~Loadable(files[path])
    BY <1>2 DEF attr_load, stored, Others
  <1> QED
    BY <1>1, <1>2

LEMMA SnapServer ==
  BaseInv /\ BaseInv' /\ AskInv /\ SnapInv /\ ServerStep /\ Watch => SnapInv'
  <1> SUFFICES ASSUME BaseInv, BaseInv', AskInv, SnapInv, ServerStep, Watch PROVE SnapInv'
    OBVIOUS
  <1>0. seen' \subseteq Legal
    BY DEF Watch, SnapInv, BaseInv
  <1>g. ASSUME NEW place, Goto("server", place) PROVE step'["server"] = place
    BY <1>g, TwoUsers DEF Goto, BaseInv
  <1>r. ASSUME NEW struct, Respond(struct)
        PROVE  /\ step'["server"] = "answer" /\ result' = struct
               /\ UNCHANGED <<ask, message, reply>>
    BY <1>r, <1>g DEF Respond
  <1>a. ASSUME ask' = ask, ask.op # "dump_parameter_file" PROVE ~Answered'
    BY <1>a DEF Answered
  <1>1. ASSUME NEW q \in Requests, Receive(q) PROVE SnapInv'
    <2>1. step'["server"] = "received"
      BY <1>1, <1>g DEF Receive
    <2> QED
      BY <1>0, <2>1, SnapVacuous DEF Answered
  <1>2. ASSUME Malformed \/ unsupported PROVE SnapInv'
    <2>1. step'["server"] = "sent" /\ reply' \in {"EINVAL", "ENOTSUP"}
      BY <1>2, <1>g DEF Malformed, unsupported, Refuse
    <2> QED
      BY <1>0, <2>1, SnapVacuous DEF Answered
  <1>3. ASSUME get_parameter \/ SetRefused \/ set_notify \/ get_notify \/ disable_notify
        PROVE  SnapInv'
    <2>1. step'["server"] = "answer" /\ ask' = ask
      BY <1>3, <1>r DEF get_parameter, SetRefused, set_notify, get_notify, disable_notify
    <2>2. ask.op # "dump_parameter_file"
      BY <1>3 DEF get_parameter, SetRefused, set_notify, get_notify, disable_notify, In
    <2> QED
      BY <1>0, <1>a, <2>1, <2>2, SnapVacuous
  <1>4. ASSUME set_parameter PROVE SnapInv'
    <2>1. step'["server"] \in {"answer", "version"} /\ ask' = ask
      BY <1>4, <1>g DEF set_parameter
    <2>2. ask.op # "dump_parameter_file"
      BY <1>4 DEF set_parameter, In
    <2> QED
      BY <1>0, <1>a, <2>1, <2>2, SnapVacuous
  <1>5. ASSUME load_parameter_file PROVE SnapInv'
    <2>1. step'["server"] = "answer" /\ ask' = ask
      BY <1>5, <1>r DEF load_parameter_file
    <2>2. ask.op # "dump_parameter_file"
      BY <1>5 DEF load_parameter_file, In
    <2> QED
      BY <1>0, <1>a, <2>1, <2>2, SnapVacuous
  <1>6. ASSUME dump_parameter_file PROVE SnapInv'
    <2>1. step'["server"] = "build" /\ UNCHANGED <<ask, message>>
      BY <1>6, <1>g DEF dump_parameter_file, transfer
    <2>2. DumpType("server") = Asked /\ DumpName \in Paths
      BY <1>6, SelectionRead DEF dump_parameter_file, DumpType
    <2>3. DumpType("server")' = DumpType("server") /\ DumpName' = DumpName /\ Asked' = Asked
      BY <2>1 DEF DumpType, DumpName, Asked, param, Has_param
    <2>4. ~Answered'
      BY <2>1 DEF Answered
    <2> QED
      BY <1>0, <2>1, <2>2, <2>3, <2>4 DEF SnapInv
  <1>7. ASSUME NothingToDump PROVE SnapInv'
    <2>1. step'["server"] = "answer" /\ UNCHANGED <<ask, message>>
      BY <1>7, <1>r DEF NothingToDump
    <2>2. Asked' = Asked /\ param["p1"].is = Asked
      BY <1>7, <2>1, SelectionRead DEF NothingToDump, Asked
    <2>3. CASE ~(param["p1"].is < UINT8_MAX)
      <3>1. ~Answered'
        BY <2>2, <2>3 DEF Answered, UINT8_MAX
      <3> QED
        BY <1>0, <2>1, <3>1, SnapVacuous
    <2>4. CASE Respond([r |-> Int32(EINVAL)])
      <3>1. result'["r"].is = EINVAL
        BY <1>r, <2>4, ErrorNumbers
      <3>2. ~Answered'
        BY <3>1 DEF Answered, EINVAL
      <3> QED
        BY <1>0, <2>1, <3>2, SnapVacuous
    <2> QED
      BY <1>7, <2>3, <2>4 DEF NothingToDump
  <1>8. ASSUME WriteDump PROVE SnapInv'
    <2>1. PICK ok \in BOOLEAN :
            /\ fsu_write_abs("server", DumpName, ok)
            /\ Respond([r |-> Int32(IF ok THEN 1 ELSE EIO), n |-> Item("tstr", DumpName)])
      BY <1>8 DEF WriteDump
    <2>2. /\ step["server"] = "write" /\ step'["server"] = "answer"
          /\ UNCHANGED <<ask, message>>
          /\ result'["r"].is = IF ok THEN 1 ELSE EIO
          /\ result'["n"].is = DumpName
      BY <1>8, <1>r, <2>1, ErrorNumbers DEF WriteDump, Item
    <2>3. CASE ~ok
      <3>1. ~Answered'
        BY <2>2, <2>3 DEF Answered, EIO
      <3> QED
        BY <1>0, <2>2, <3>1, SnapVacuous
    <2>4. CASE ok
      <3>1. PICK v \in seen : text["server"] = Dumped(v)
        BY <2>2 DEF SnapInv
      <3>2. DumpName \in Paths /\ files'[DumpName] = Kvp(text["server"])
        BY <2>1, <2>2, <2>4 DEF fsu_write_abs, SnapInv, BaseInv
      <3>3. v \in seen'
        BY <2>2, <3>1 DEF Watch, AskInv
      <3>4. Dumped(v)' = Dumped(v)
        BY <2>2 DEF Dumped, KeyValues, Asked
      <3> QED
        BY <1>0, <2>2, <3>1, <3>2, <3>3, <3>4 DEF SnapInv
    <2> QED
      BY <2>3, <2>4
  <1>9. ASSUME factory_reset \/ ResetTable \/ SaveReset PROVE SnapInv'
    <2>1. ask' = ask /\ step'["server"] \in {"answer", "table", "save"}
      BY <1>9, <1>g, <1>r DEF factory_reset, ResetTable, SaveReset, transfer
    <2>2. ask.op # "dump_parameter_file"
      BY <1>9 DEF factory_reset, ResetTable, SaveReset, In, AskInv
    <2> QED
      BY <1>0, <1>a, <2>1, <2>2, SnapVacuous
  <1>10. ASSUME Answer PROVE SnapInv'
    <2>1. /\ step["server"] = "answer" /\ step'["server"] = "sent"
          /\ UNCHANGED <<ask, result, files, last>>
      BY <1>10, <1>g DEF Answer, stored
    <2>2. Answered' => Answered
      BY <2>1 DEF Answered, Asked
    <2>3. \A v : Dumped(v)' = Dumped(v)
      BY <2>1 DEF Dumped, KeyValues, Asked
    <2>4. Answered => seen \subseteq seen'
      BY <2>1 DEF Watch, Answered
    <2> QED
      BY <1>0, <2>1, <2>2, <2>3, <2>4 DEF SnapInv
  <1>11. ASSUME Taken PROVE SnapInv'
    <2>1. step'["server"] = "idle"
      BY <1>11, <1>g DEF Taken
    <2> QED
      BY <1>0, <2>1, SnapVacuous DEF Answered
  <1> QED
    BY <1>1, <1>2, <1>3, <1>4, <1>5, <1>6, <1>7, <1>8, <1>9, <1>10, <1>11 DEF ServerStep

LEMMA SnapStep ==
  BaseInv /\ BaseInv' /\ TextInv /\ HeapInv /\ AskInv /\ SnapInv /\ AStep /\ Watch => SnapInv'
  <1> SUFFICES ASSUME BaseInv, BaseInv', TextInv, HeapInv, AskInv, SnapInv, AStep, Watch
               PROVE  SnapInv'
    OBVIOUS
  <1>0. /\ seen' \subseteq Legal
        /\ ask' = ask /\ ask.op = "dump_parameter_file" => seen \subseteq seen' /\ ram' \in seen'
    BY DEF Watch, SnapInv, BaseInv
  <1>o. ASSUME NEW u \in Users, NEW place, Goto(u, place), u # "server"
        PROVE  step'["server"] = step["server"]
    BY <1>o, TwoUsers DEF Goto, BaseInv
  <1>1. CASE ServerStep
    BY <1>1, SnapServer
  <1>2. CASE ShellStep
    <2>1. UNCHANGED transfer /\ step'["server"] = step["server"] /\ text'["server"] = text["server"]
      BY <1>2, ShellText
    <2>2. Others
      <3>1. ASSUME NEW c \in Commands, Type(c) PROVE Others
        BY <3>1 DEF Type, Others, stored, BaseInv, Nobody
      <3>2. CASE ats_load_cmd
        BY <3>2, LoadOthers DEF ats_load_cmd
      <3>3. CASE ats_dump_cmd
        BY <3>3 DEF ats_dump_cmd, fsu_write_abs, Others, BaseInv
      <3> QED
        BY <1>2, <3>1, <3>2, <3>3 DEF ShellStep
    <2> QED
      BY <1>0, <2>1, <2>2, SnapKept DEF transfer
  <1>3. ASSUME NEW u \in Users, CopyVersion(u) \/ WriteVersion(u) PROVE SnapInv'
    <2>1. UNCHANGED <<ask, message, result, reply, text>>
      BY <1>3, SharedText DEF transfer
    <2>2. Others
      <3>1. CASE CopyVersion(u)
        BY <3>1 DEF CopyVersion, Others, stored
      <3>2. CASE WriteVersion(u) /\ Accepts(Table[config_version], version[u] + 1)
        BY <3>2, WriteOthers DEF WriteVersion
      <3>3. CASE WriteVersion(u) /\ ~Accepts(Table[config_version], version[u] + 1)
        BY <3>3 DEF WriteVersion, Others, stored
      <3> QED
        BY <1>3, <3>1, <3>2, <3>3
    <2>3. CASE u = "server"
      <3>1. step'["server"] \in {"increment", "answer"} /\ ask.op = "set_parameter"
        BY <1>3, <2>3 DEF CopyVersion, WriteVersion, Goto, BaseInv, AskInv
      <3> QED
        BY <1>0, <2>1, <3>1, SnapVacuous DEF Answered
    <2>4. CASE u # "server"
      <3>1. step'["server"] = step["server"]
        BY <1>3, <1>o, <2>4 DEF CopyVersion, WriteVersion
      <3> QED
        BY <1>0, <2>1, <2>2, <3>1, SnapKept
    <2> QED
      BY <2>3, <2>4
  <1>4. ASSUME NEW u \in Users, attr_prepare_then_dump(u) PROVE SnapInv'
    <2>1. Others
      BY <1>4 DEF attr_prepare_then_dump, Others, stored
    <2>2. CASE u = "server"
      <3>1. UNCHANGED <<ask, message, ram>> /\ step["server"] = "build"
        BY <1>4, <2>2, BuildText
      <3>2. CASE Goto("server", "write")
        <4>1. step'["server"] = "write"
          BY <3>2, TwoUsers DEF Goto, BaseInv
        <4>2. text'["server"] = Dumped(ram)
          BY <1>4, <2>2, <3>1, <4>1, BuildText DEF Dumped, SnapInv
        <4>3. Dumped(ram)' = Dumped(ram)
          BY <3>1 DEF Dumped, KeyValues, Asked
        <4>4. ram' \in seen' /\ ram' = ram
          BY <1>0, <3>1 DEF AskInv
        <4>5. \E v \in seen' : text'["server"] = Dumped(v)'
          <5>1. Dumped(ram)' = KeyValues(ram', dumpable(Asked'))
            BY DEF Dumped
          <5>2. \A v : Dumped(v)' = KeyValues(v, dumpable(Asked'))
            BY DEF Dumped, KeyValues
          <5> QED
            BY <4>2, <4>3, <4>4, <5>1, <5>2
        <4>6. DumpType("server")' = DumpType("server") /\ DumpName' = DumpName /\ Asked' = Asked
          BY <3>1 DEF DumpType, DumpName, Asked, param, Has_param
        <4>7. ~Answered'
          BY <4>1 DEF Answered
        <4> QED
          BY <1>0, <3>1, <4>1, <4>5, <4>6, <4>7 DEF SnapInv
      <3>3. CASE Respond([r |-> Int32(EIO)])
        <4>1. step'["server"] = "answer" /\ result'["r"].is = EIO
          BY <3>3, ErrorNumbers, TwoUsers DEF Respond, Goto, BaseInv
        <4>2. ~Answered'
          BY <4>1 DEF Answered, EIO
        <4> QED
          BY <1>0, <4>1, <4>2, SnapVacuous
      <3> QED
        BY <1>4, <2>2, <3>2, <3>3 DEF attr_prepare_then_dump
    <2>3. CASE u # "server"
      <3>1. step'["server"] = step["server"] /\ UNCHANGED transfer
        BY <1>4, <1>o, <2>3 DEF attr_prepare_then_dump
      <3>2. text'["server"] = text["server"]
        BY <1>4, <2>3, BuildText, TwoUsers
      <3> QED
        BY <1>0, <2>1, <3>1, <3>2, SnapKept DEF transfer
    <2> QED
      BY <2>2, <2>3
  <1>5. ASSUME NEW i \in Ids, NEW raw \in Raw, FirmwareSet(i, raw) PROVE SnapInv'
    <2>1. Others
      BY <1>5, WriteOthers DEF FirmwareSet
    <2> QED
      BY <1>0, <1>5, <2>1, FirmwareText, SnapKept DEF transfer
  <1> QED
    BY <1>1, <1>2, <1>3, <1>4, <1>5 DEF AStep

-----------------------------------------------------------------------------
(* The rest of the types.                                                  *)

Left == [requests : 0..MaxRequests, commands : 0..MaxCommands, sets : 0..MaxSets]
RestInv ==
    /\ notify \subseteq Ids
    /\ ask.op \in Ops
    /\ reply \in {"none", "OK", "EINVAL", "ENOTSUP", "EMSGSIZE"}
    /\ left \in Left

LEMMA Operations == NoRequest.op \in Ops
  BY DEF Ops, Encode, NoRequest

LEMMA RestStep == RestInv /\ AStep => RestInv'
  <1> SUFFICES ASSUME RestInv, AStep PROVE RestInv'
    OBVIOUS
  <1>0. Id \in Readable => Id \in Ids
    BY DEF Readable, Having
  <1>1. ASSUME NEW q \in Requests, Receive(q) PROVE RestInv'
    <2>1. q.op \in Ops
      BY SmpInputAssumption DEF SmpInputAssumption
    <2>2. left' \in Left
      BY <1>1, SmpInputAssumption DEF Receive, RestInv, Left, SmpInputAssumption
    <2> QED
      BY <1>1, <2>1, <2>2 DEF Receive, RestInv
  <1>2. ASSUME Malformed \/ unsupported \/ Answer PROVE RestInv'
    BY <1>2 DEF Malformed, unsupported, Refuse, Answer, RestInv
  <1>3. ASSUME get_parameter \/ SetRefused \/ NothingToDump \/ WriteDump \/ get_notify
        PROVE  RestInv'
    BY <1>3 DEF get_parameter, SetRefused, NothingToDump, WriteDump, get_notify, Respond, RestInv
  <1>4. ASSUME set_parameter PROVE RestInv'
    BY <1>4 DEF set_parameter, RestInv
  <1>5. ASSUME load_parameter_file PROVE RestInv'
    BY <1>5 DEF load_parameter_file, Respond, RestInv
  <1>6. ASSUME dump_parameter_file PROVE RestInv'
    BY <1>6 DEF dump_parameter_file, transfer, RestInv
  <1>7. ASSUME factory_reset \/ ResetTable \/ SaveReset PROVE RestInv'
    BY <1>7 DEF factory_reset, ResetTable, SaveReset, Respond, transfer, RestInv
  <1>8. ASSUME set_notify PROVE RestInv'
    <2>1. notify' \subseteq Ids
      BY <1>0, <1>8 DEF set_notify, RestInv
    <2> QED
      BY <1>8, <2>1 DEF set_notify, Respond, RestInv
  <1>9. ASSUME disable_notify \/ Taken PROVE RestInv'
    BY <1>9, Operations DEF disable_notify, Taken, Respond, RestInv
  <1>10. ASSUME NEW c \in Commands, Type(c) PROVE RestInv'
    <2>1. left' \in Left
      BY <1>10, SmpInputAssumption DEF Type, RestInv, Left, SmpInputAssumption
    <2> QED
      BY <1>10, <2>1 DEF Type, transfer, RestInv
  <1>11. ASSUME ats_load_cmd \/ ats_dump_cmd PROVE RestInv'
    BY <1>11 DEF ats_load_cmd, ats_dump_cmd, transfer, RestInv
  <1>12. ASSUME NEW u \in Users,
                CopyVersion(u) \/ WriteVersion(u) \/ attr_prepare_then_dump(u)
         PROVE  RestInv'
    BY <1>12 DEF CopyVersion, WriteVersion, attr_prepare_then_dump, Respond, transfer, RestInv
  <1>13. ASSUME NEW i \in Ids, NEW raw \in Raw, FirmwareSet(i, raw) PROVE RestInv'
    <2>1. left' \in Left
      BY <1>13, SmpInputAssumption DEF FirmwareSet, RestInv, Left, SmpInputAssumption
    <2> QED
      BY <1>13, <2>1 DEF FirmwareSet, transfer, RestInv
  <1> QED
    BY <1>1, <1>2, <1>3, <1>4, <1>5, <1>6, <1>7, <1>8, <1>9, <1>10, <1>11, <1>12, <1>13
       DEF AStep, ServerStep, ShellStep

-----------------------------------------------------------------------------
(* The invariant, and what it says.                                        *)

SmpInv ==
    /\ BaseInv /\ TextInv /\ HeapInv /\ WholeInv /\ DumpInv /\ RefuseInv
    /\ AskInv /\ SnapInv /\ RestInv

LEMMA InitSmp == Init => SmpInv
  <1> SUFFICES ASSUME Init PROVE SmpInv
    OBVIOUS
  <1>1. step["server"] = "idle" /\ step["shell"] = "idle"
    BY TwoUsers DEF Init
  <1>2. BaseInv
    BY InitBase
  <1>3. TextInv /\ HeapInv
    BY <1>1, TwoUsers DEF Init, TextInv, HeapInv, Holds
  <1>4. WholeInv /\ DumpInv
    BY SmpInputAssumption DEF Init, WholeInv, DumpInv, SmpInputAssumption, Nobody
  <1>5. RefuseInv /\ AskInv
    BY <1>1 DEF Init, RefuseInv, AskInv
  <1>6. SnapInv
    BY <1>1 DEF Init, SnapInv, Answered
  <1>7. RestInv
    BY Operations, SmpInputAssumption DEF Init, RestInv, Left, SmpInputAssumption
  <1> QED
    BY <1>2, <1>3, <1>4, <1>5, <1>6, <1>7 DEF SmpInv

LEMMA StepSmp == SmpInv /\ [Next]_vars => SmpInv'
  <1> SUFFICES ASSUME SmpInv, [Next]_vars PROVE SmpInv'
    OBVIOUS
  <1>1. CASE Next
    <2>1. AStep /\ Watch
      BY <1>1 DEF Next, AStep
    <2>2. BaseInv'
      BY <2>1, ServerBase, OtherBase DEF SmpInv, AStep
    <2> QED
      BY <2>1, <2>2, TextStep, HeapStep, FilesStep, RefuseStep, AskStep, SnapStep, RestStep
         DEF SmpInv
  <1>2. CASE UNCHANGED vars
    <2>1. BaseInv' /\ TextInv' /\ HeapInv'
      BY <1>2 DEF vars, SmpInv, BaseInv, TextInv, HeapInv, Holds, DumpType, param
    <2>2. WholeInv' /\ DumpInv'
      BY <1>2 DEF vars, SmpInv, WholeInv, DumpInv
    <2>3. RefuseInv' /\ AskInv' /\ RestInv'
      BY <1>2 DEF vars, SmpInv, RefuseInv, RefusedMeansUntouched, Failed, AskInv, RestInv
    <2>4. SnapInv'
      BY <1>2 DEF vars, SmpInv, SnapInv, Answered, Dumped, KeyValues, Asked, DumpType,
                  DumpName, param, Has_param
    <2> QED
      BY <2>1, <2>2, <2>3, <2>4 DEF SmpInv
  <1> QED
    BY <1>1, <1>2

(* Every state of the commands satisfies the invariant.                     *)
THEOREM SmpAlways == Spec => []SmpInv
  <1> QED
    BY InitSmp, StepSmp, PTL DEF Spec

(* The state of the commands keeps its shape: every value in RAM is one    *)
(* the table's types can hold, and every count of texts is a natural       *)
(* number, so none is freed twice.                                         *)
THEOREM TypeCorrect == Spec => []TypeOK
  <1>1. SmpInv => TypeOK
    <2> SUFFICES ASSUME SmpInv PROVE TypeOK
      OBVIOUS
    <2>1. Legal \subseteq [Ids -> Raw]
      BY DEF Legal
    <2>2. heap \in Nat /\ leaked \in Nat
      BY DEF SmpInv, HeapInv, Holds
    <2>3. ram \in [Ids -> Raw] /\ seen \subseteq [Ids -> Raw]
      BY <2>1 DEF SmpInv, BaseInv, SnapInv
    <2> QED
      BY <2>2, <2>3 DEF TypeOK, SmpInv, BaseInv, TextInv, RestInv, Steps, Left
  <1> QED
    BY <1>1, SmpAlways, PTL

(* set_parameter(), load_parameter_file() and the other handlers: one that *)
(* answers with an error has left RAM as it was, unless what failed was a  *)
(* save made for the request.                                              *)
THEOREM RefusedUntouched == Spec => []RefusedMeansUntouched
  <1>1. SmpInv => RefusedMeansUntouched
    BY DEF SmpInv, RefuseInv, RefusedMeansUntouched, Failed
  <1> QED
    BY <1>1, SmpAlways, PTL

(* dump_parameter_file() and ats_dump_cmd(): a text is on the heap only    *)
(* while it is written, but for those the shell forgot.                    *)
THEOREM TextsFreed == Spec => []TextsAreFreed
  <1>1. SmpInv => TextsAreFreed
    <2> SUFFICES ASSUME SmpInv PROVE TextsAreFreed
      OBVIOUS
    <2> DEFINE Writing == {u \in Users : step[u] = "write"}
    <2>1. Cardinality(Writing) = Holds("server") + Holds("shell")
      <3>1. CASE step["server"] = "write" /\ step["shell"] = "write"
        <4>1. Writing = {"server"} \cup {"shell"}
          BY <3>1, TwoUsers
        <4>2. Cardinality({"server"}) = 1 /\ IsFiniteSet({"server"})
          BY FS_Singleton
        <4>3. Cardinality({"server"} \cup {"shell"}) = 2
          BY <4>2, FS_AddElement
        <4> QED
          BY <3>1, <4>1, <4>3 DEF Holds
      <3>2. CASE step["server"] = "write" /\ step["shell"] # "write"
        <4>1. Writing = {"server"}
          BY <3>2, TwoUsers
        <4> QED
          BY <3>2, <4>1, FS_Singleton DEF Holds
      <3>3. CASE step["server"] # "write" /\ step["shell"] = "write"
        <4>1. Writing = {"shell"}
          BY <3>3, TwoUsers
        <4> QED
          BY <3>3, <4>1, FS_Singleton DEF Holds
      <3>4. CASE step["server"] # "write" /\ step["shell"] # "write"
        <4>1. Writing = {}
          BY <3>4, TwoUsers
        <4> QED
          BY <3>4, <4>1, FS_EmptySet DEF Holds
      <3> QED
        BY <3>1, <3>2, <3>3, <3>4
    <2> QED
      BY <2>1 DEF SmpInv, HeapInv, TextsAreFreed
  <1> QED
    BY <1>1, SmpAlways, PTL

(* save_attributes() and its callers: while RAM and the attribute file are *)
(* not told apart, the file holds what RAM holds.                          *)
THEOREM FileHolds == Spec => []AttributeFileHolds
  <1>1. SmpInv => AttributeFileHolds
    BY DEF SmpInv, WholeInv, AttributeFileHolds
  <1> QED
    BY <1>1, SmpAlways, PTL

(* attr_prepare_then_dump() and the write that follows it: the file the    *)
(* answer names shows values RAM had at one moment since the request.      *)
THEOREM DumpSnapshot == Spec => []DumpIsSnapshot
  <1>1. ASSUME NEW v \in Legal, NEW asked
        PROVE  Shows(Kvp(KeyValues(v, dumpable(asked))), asked, v)
    <2> DEFINE all == {p \in Pair :
                /\ p.val = v[p.key]
                /\ p.key \in Readable \ Having("FLAGS_DEPRECATED")
                /\ asked = ATTR_DUMP_W => p.key \in Writable
                /\ asked = ATTR_DUMP_RO => p.key \notin Writable}
    <2>1. \A i : i \in dumpable(asked) <=>
                  /\ i \in Readable \ Having("FLAGS_DEPRECATED")
                  /\ asked = ATTR_DUMP_W => i \in Writable
                  /\ asked = ATTR_DUMP_RO => i \notin Writable
      BY DEF dumpable, is_dump_w, is_dump_ro, is_dump_rw, ATTR_DUMP_W, ATTR_DUMP_RO
    <2>2. KeyValues(v, dumpable(asked)) \subseteq all
      <3>1. KeyValues(v, dumpable(asked)) \subseteq Pair
        BY DumpableIds, KeyValuesPairs
      <3> QED
        BY <2>1, <3>1 DEF KeyValues
    <2>3. all \subseteq KeyValues(v, dumpable(asked))
      <3>1. ASSUME NEW p \in all PROVE p = [key |-> p.key, val |-> v[p.key]]
        BY <3>1 DEF Pair
      <3> QED
        BY <2>1, <3>1 DEF KeyValues
    <2>4. KeyValues(v, dumpable(asked)) = all
      BY <2>2, <2>3
    <2> QED
      BY <2>4 DEF Shows
  <1>2. SmpInv => DumpIsSnapshot
    <2> SUFFICES ASSUME SmpInv, step["server"] = "sent", reply = "OK",
                        ask.op = "dump_parameter_file", Asked < UINT8_MAX,
                        result["r"].is >= 0, last[result["n"].is].by = "server"
                 PROVE  \E v \in seen : Shows(files[result["n"].is], Asked, v)
      BY DEF DumpIsSnapshot, Asked
    <2>1. PICK v \in seen : files[result["n"].is] = Kvp(Dumped(v))
      BY DEF SmpInv, SnapInv, Answered
    <2>2. v \in Legal
      BY DEF SmpInv, SnapInv
    <2> QED
      BY <1>1, <2>1, <2>2 DEF Dumped
  <1> QED
    BY <1>2, SmpAlways, PTL

(* A dump of the writable attributes can be loaded by the same firmware,   *)
(* all of it, and every value is stored as it was shown.                   *)
THEOREM DumpLoads == Spec => []DumpLoadsBack
  <1>1. ASSUME NEW v \in Legal, NEW r \in Legal
        PROVE  LET pairs == KeyValues(v, is_dump_w) IN
               /\ Loadable(Kvp(pairs))
               /\ Loaded(r, pairs) = [i \in Ids |->
                     IF \E p \in pairs : p.key = i
                     THEN (CHOOSE p \in pairs : p.key = i).val
                     ELSE r[i]]
    <2> DEFINE pairs == KeyValues(v, is_dump_w)
    <2>1. is_dump_w # {} /\ is_dump_w \subseteq Ids /\ is_dump_w \subseteq Writable
      BY SmpSelectionAssumption DEF SmpSelectionAssumption, is_dump_w, is_dump_rw, Readable, Having
    <2>2. \A p \in pairs : /\ p.key \in Writable /\ p.key \in Ids
                           /\ Accepts(Table[p.key], p.val)
                           /\ Stored(Table[p.key], p.val) = p.val
      BY <2>1 DEF KeyValues, Legal
    <2>3. pairs # {}
      BY <2>1 DEF KeyValues
    <2>4. Loadable(Kvp(pairs))
      BY <2>2, <2>3 DEF Loadable, PairOk, Kvp
    <2>5. ASSUME NEW i \in Ids, \E p \in pairs : p.key = i
          PROVE  Stored(Table[i], (CHOOSE p \in pairs : p.key = i).val)
                   = (CHOOSE p \in pairs : p.key = i).val
      <3> DEFINE q == CHOOSE p \in pairs : p.key = i
      <3>1. q \in pairs /\ q.key = i
        BY <2>5
      <3> HIDE DEF q, pairs
      <3>2. Stored(Table[i], q.val) = q.val
        BY <2>2, <3>1
      <3> QED
        BY <3>2 DEF q
    <2> HIDE DEF pairs
    <2>6. Loaded(r, pairs) = [i \in Ids |->
                     IF \E p \in pairs : p.key = i
                     THEN (CHOOSE p \in pairs : p.key = i).val
                     ELSE r[i]]
      BY <2>5 DEF Loaded
    <2> QED
      BY <2>4, <2>6 DEF pairs
  <1>2. SmpInv => DumpLoadsBack
    <2> SUFFICES ASSUME SmpInv, NEW path \in Paths, last[path].w, files[path].state = "kvp"
                 PROVE  LET f == files[path] IN
                        /\ Loadable(f)
                        /\ Loaded(ram, f.pairs) = [i \in Ids |->
                              IF \E p \in f.pairs : p.key = i
                              THEN (CHOOSE p \in f.pairs : p.key = i).val
                              ELSE ram[i]]
      BY DEF DumpLoadsBack
    <2>1. PICK v \in Legal : files[path] = Kvp(KeyValues(v, is_dump_w))
      BY DEF SmpInv, DumpInv
    <2>2. files[path].pairs = KeyValues(v, is_dump_w)
      BY <2>1 DEF Kvp
    <2>3. ram \in Legal
      BY DEF SmpInv, BaseInv
    <2> QED
      BY <1>1, <2>1, <2>2, <2>3
  <1> QED
    BY <1>2, SmpAlways, PTL

-----------------------------------------------------------------------------
(* What is encoded, decodes: for any table, not only those of the CDDL.    *)

LEMMA Ranks ==
  ASSUME NEW n \in Nat, NEW present \in SUBSET (1..n)
  PROVE  /\ Cardinality(present) \in Nat
         /\ \A j \in 1..Cardinality(present) : Place(present, j) \in present
         /\ \A k \in present : \E j \in 1..Cardinality(present) : Place(present, j) = k
  <1> DEFINE upto(k) == {i \in present : i <= k}
             c == Cardinality(present)
             f == [k \in present |-> Rank(present, k)]
  <1>1. IsFiniteSet(present) /\ c \in Nat
    <2>1. IsFiniteSet(1..n)
      BY FS_Interval
    <2>2. IsFiniteSet(present)
      BY <2>1, FS_Subset
    <2> QED
      BY <2>2, FS_CardinalityType
  <1>2. ASSUME NEW k \in present
        PROVE  /\ IsFiniteSet(upto(k)) /\ Rank(present, k) = Cardinality(upto(k))
               /\ Rank(present, k) \in 1..c
    <2>1. upto(k) \in SUBSET present /\ k \in upto(k)
      BY <1>2
    <2>2. IsFiniteSet(upto(k)) /\ Cardinality(upto(k)) <= c
      BY <1>1, <2>1, FS_Subset
    <2>3. Cardinality(upto(k)) \in Nat /\ Cardinality(upto(k)) # 0
      BY <2>1, <2>2, FS_CardinalityType, FS_EmptySet
    <2>4. Rank(present, k) = Cardinality(upto(k))
      BY DEF Rank
    <2> HIDE DEF upto, c
    <2> QED
      BY <1>1, <2>2, <2>3, <2>4
  <1>3. ASSUME NEW k \in present, NEW l \in present, k < l
        PROVE  Rank(present, k) # Rank(present, l)
    <2>1. upto(k) \in SUBSET upto(l) /\ l \in upto(l) /\ l \notin upto(k)
      <3>1. \A i \in present : i \in Int
        OBVIOUS
      <3>2. ASSUME NEW i \in present, i <= k PROVE i <= l
        BY <1>3, <3>1, <3>2
      <3>3. l <= l /\ ~(l <= k)
        BY <1>3, <3>1
      <3> QED
        BY <3>2, <3>3
    <2>2. upto(k) # upto(l)
      BY <2>1
    <2>3. IsFiniteSet(upto(l)) /\ Rank(present, l) = Cardinality(upto(l))
          /\ Rank(present, k) = Cardinality(upto(k))
      BY <1>2
    <2> HIDE DEF upto
    <2> QED
      BY <2>1, <2>2, <2>3, FS_Subset
  <1>4. f \in Injection(present, 1..c)
    <2>1. f \in [present -> 1..c]
      BY <1>2
    <2>2. ASSUME NEW k \in present, NEW l \in present, f[k] = f[l] PROVE k = l
      BY <1>3, <2>2
    <2> QED
      BY <2>1, <2>2 DEF Injection, IsInjective
  <1>5. f \in Surjection(present, 1..c)
    <2>1. IsFiniteSet(1..c) /\ Cardinality(1..c) = c
      BY <1>1, FS_Interval
    <2> QED
      BY <1>4, <2>1, FS_Injection
  <1>6. ASSUME NEW j \in 1..c PROVE \E k \in present : Rank(present, k) = j
    BY <1>5 DEF Surjection
  <1>7. ASSUME NEW j \in 1..c
        PROVE  Place(present, j) \in present /\ Rank(present, Place(present, j)) = j
    BY <1>6 DEF Place
  <1>8. ASSUME NEW k \in present PROVE \E j \in 1..c : Place(present, j) = k
    <2>1. Rank(present, k) \in 1..c
      BY <1>2
    <2>2. /\ Place(present, Rank(present, k)) \in present
          /\ Rank(present, Place(present, Rank(present, k))) = Rank(present, k)
      BY <2>1, <1>7
    <2>3. Place(present, Rank(present, k)) \in Int /\ k \in Int
      <3>1. \A i \in present : i \in Int
        OBVIOUS
      <3> QED
        BY <2>2, <3>1
    <2>4. Place(present, Rank(present, k)) = k
      BY <1>3, <2>2, <2>3
    <2> QED
      BY <2>1, <2>4
  <1> QED
    BY <1>1, <1>7, <1>8

(* A table, and a structure: a function from names to items.               *)
IsTable(members) == \E n \in Nat : DOMAIN members = 1..n
IsStruct(struct) == struct = [key \in DOMAIN struct |-> struct[key]]

(* Among() lists the members of keys, all of them and no other.            *)
LEMMA AmongTable ==
  ASSUME NEW members, IsTable(members), NEW keys
  PROVE  /\ \E n \in Nat : DOMAIN Among(members, keys) = 1..n /\ Len(Among(members, keys)) = n
         /\ \A j \in DOMAIN Among(members, keys) :
               \E k \in DOMAIN members :
                  members[k].key \in keys /\ Among(members, keys)[j] = members[k]
         /\ \A k \in DOMAIN members : members[k].key \in keys =>
               \E j \in DOMAIN Among(members, keys) : Among(members, keys)[j] = members[k]
  <1> DEFINE present == {k \in DOMAIN members : members[k].key \in keys}
             c == Cardinality(present)
  <1>1. Among(members, keys) = [j \in 1..c |-> members[Place(present, j)]]
    BY DEF Among
  <1>2. PICK n \in Nat : DOMAIN members = 1..n
    BY DEF IsTable
  <1>3. present \in SUBSET (1..n)
    BY <1>2
  <1>4. /\ c \in Nat
        /\ \A j \in 1..c : Place(present, j) \in present
        /\ \A k \in present : \E j \in 1..c : Place(present, j) = k
    BY <1>3, Ranks
  <1> HIDE DEF c
  <1>5. DOMAIN Among(members, keys) = 1..c /\ Len(Among(members, keys)) = c
    BY <1>1, <1>4
  <1> QED
    BY <1>1, <1>4, <1>5

(* The encoder and the decoder of AttrCbor: a structure survives the round *)
(* trip through one and the same table, whatever the table, its optional   *)
(* members and the kinds of its items.                                     *)
THEOREM RoundTrip ==
  ASSUME NEW members, IsTable(members), NEW struct, IsStruct(struct),
         Complete(members, struct)
  PROVE  /\ Decodes(members, cbor_encode(members, struct))
         /\ cbor_decode(cbor_encode(members, struct)) = struct
  <1> DEFINE written == Among(members, DOMAIN struct)
             sent == cbor_encode(members, struct)
  <1>1. PICK n \in Nat : DOMAIN written = 1..n /\ Len(written) = n
    BY AmongTable
  <1>2. \A j \in DOMAIN written :
           \E k \in DOMAIN members : /\ members[k].key \in DOMAIN struct
                                     /\ written[j] = members[k]
    BY AmongTable
  <1>3. \A k \in DOMAIN members : members[k].key \in DOMAIN struct =>
           \E j \in DOMAIN written : written[j] = members[k]
    BY AmongTable
  <1> HIDE DEF written
  <1>4. DOMAIN written = 1..n
    BY <1>1
  <1>5. sent = [j \in 1..n |-> [key |-> written[j].key, item |-> struct[written[j].key]]]
    BY <1>4 DEF cbor_encode, written
  <1> HIDE DEF sent
  <1>6. DOMAIN sent = 1..n
        /\ \A j \in 1..n : sent[j].key = written[j].key /\ sent[j].item = struct[written[j].key]
    BY <1>5
  <1>7. Keys(sent) = DOMAIN struct
    <2>1. ASSUME NEW j \in 1..n PROVE written[j].key \in DOMAIN struct
      BY <1>1, <1>2
    <2>2. ASSUME NEW key \in DOMAIN struct PROVE \E j \in 1..n : written[j].key = key
      <3>1. PICK k \in DOMAIN members : members[k].key = key
        BY DEF Complete
      <3> QED
        BY <1>1, <1>3, <3>1
    <2> QED
      <3>1. Keys(sent) = {sent[j].key : j \in 1..n}
        BY <1>6 DEF Keys
      <3>2. \A j \in 1..n : sent[j].key = written[j].key
        BY <1>6
      <3>3. Keys(sent) = {written[j].key : j \in 1..n}
        BY <3>1, <3>2
      <3> QED
        BY <2>1, <2>2, <3>3
  <1>8. Among(members, Keys(sent)) = written
    BY <1>7 DEF written
  <1>9. Len(written) = n /\ Len(sent) = n
    BY <1>1, <1>5
  <1>10. ASSUME NEW j \in 1..n PROVE sent[j].item.kind \in written[j].kinds
    <2>1. PICK k \in DOMAIN members : /\ members[k].key \in DOMAIN struct
                                      /\ written[j] = members[k]
      BY <1>1, <1>2
    <2> QED
      BY <1>6, <2>1 DEF Complete
  <1>11. Decodes(members, sent)
    BY <1>6, <1>7, <1>8, <1>9, <1>10 DEF Decodes, Complete
  <1>12. cbor_decode(sent) = struct
    <2>1. ASSUME NEW key \in DOMAIN struct
          PROVE  sent[CHOOSE k \in DOMAIN sent : sent[k].key = key].item = struct[key]
      <3>1. \E k \in DOMAIN sent : sent[k].key = key
        BY <1>7 DEF Keys
      <3> QED
        BY <1>6, <3>1
    <2>2. cbor_decode(sent) = [key \in DOMAIN struct |-> struct[key]]
      BY <1>7, <2>1 DEF cbor_decode
    <2> QED
      BY <2>2 DEF IsStruct
  <1> QED
    BY <1>11, <1>12 DEF sent

(* What is decoded is of a kind the table names.                           *)
LEMMA DecodedKind ==
  ASSUME NEW members, IsTable(members), NEW m \in Nat, NEW map, DOMAIN map = 1..m, Len(map) = m,
         Decodes(members, map), NEW key \in Keys(map), NEW kinds,
         \A k \in DOMAIN members : members[k].key = key => members[k].kinds = kinds
  PROVE  cbor_decode(map)[key].kind \in kinds
  <1> DEFINE read == Among(members, Keys(map))
             k1 == CHOOSE k \in DOMAIN map : map[k].key = key
  <1>1. k1 \in 1..m /\ map[k1].key = key
    <2>1. \E k \in DOMAIN map : map[k].key = key
      BY DEF Keys
    <2>2. DOMAIN map = 1..m
      OBVIOUS
    <2> QED
      BY <2>1, <2>2
  <1>2. PICK n \in Nat : DOMAIN read = 1..n /\ Len(read) = n
    BY AmongTable
  <1>3. /\ Len(read) = Len(map)
        /\ \A k \in DOMAIN map : /\ map[k].key = read[k].key
                                 /\ map[k].item.kind \in read[k].kinds
    BY DEF Decodes
  <1>4. \A j \in DOMAIN read : \E k \in DOMAIN members : read[j] = members[k]
    BY AmongTable
  <1>5. cbor_decode(map)[key] = map[k1].item
    BY DEF cbor_decode
  <1> HIDE DEF read, k1
  <1>6. PICK k \in DOMAIN members : read[k1] = members[k]
    BY <1>1, <1>2, <1>3, <1>4
  <1> QED
    BY <1>1, <1>3, <1>5, <1>6

(* The tables of the client and of the device are the same.                *)
LEMMA SameTables == Encode = Decode /\ EncodeResult = DecodeResult
  BY DEF Encode, Decode, EncodeResult, DecodeResult,
         encode_get_parameter, encode_set_parameter, encode_load_parameter_file,
         encode_dump_parameter_file, encode_factory_reset, encode_set_notify,
         encode_get_notify, encode_disable_notify, encode_get_parameter_result,
         encode_set_parameter_result, encode_load_parameter_file_result,
         encode_dump_parameter_file_result, encode_factory_reset_result,
         encode_set_notify_result, encode_get_notify_result, encode_disable_notify_result,
         decode_get_parameter, decode_set_parameter, decode_load_parameter_file,
         decode_dump_parameter_file, decode_factory_reset, decode_set_notify,
         decode_get_notify, decode_disable_notify, decode_get_parameter_result,
         decode_set_parameter_result, decode_load_parameter_file_result,
         decode_dump_parameter_file_result, decode_factory_reset_result,
         decode_set_notify_result, decode_get_notify_result, decode_disable_notify_result

LEMMA AreTables ==
  /\ \A op \in Ops : IsTable(Encode[op])
  /\ \A op \in DOMAIN EncodeResult : IsTable(EncodeResult[op])
  <1>1. /\ IsTable(<<>>)
        /\ \A a : IsTable(<<a>>)
        /\ \A a, b : IsTable(<<a, b>>)
        /\ \A a, b, c : IsTable(<<a, b, c>>)
    <2>1. IsTable(<<>>)
      <3>1. DOMAIN <<>> = 1..0 /\ 0 \in Nat
        OBVIOUS
      <3> QED BY <3>1 DEF IsTable
    <2>2. ASSUME NEW a PROVE IsTable(<<a>>)
      <3>1. DOMAIN <<a>> = 1..1 /\ 1 \in Nat
        OBVIOUS
      <3> QED BY <3>1 DEF IsTable
    <2>3. ASSUME NEW a, NEW b PROVE IsTable(<<a, b>>)
      <3>1. DOMAIN <<a, b>> = 1..2 /\ 2 \in Nat
        OBVIOUS
      <3> QED BY <3>1 DEF IsTable
    <2>4. ASSUME NEW a, NEW b, NEW c PROVE IsTable(<<a, b, c>>)
      <3>1. DOMAIN <<a, b, c>> = 1..3 /\ 3 \in Nat
        OBVIOUS
      <3> QED BY <3>1 DEF IsTable
    <2> QED
      BY <2>1, <2>2, <2>3, <2>4
  <1>2. ASSUME NEW op \in Ops PROVE IsTable(Encode[op])
    BY <1>1 DEF Ops, Encode, encode_get_parameter, encode_set_parameter,
         encode_load_parameter_file, encode_dump_parameter_file, encode_factory_reset,
         encode_set_notify, encode_get_notify, encode_disable_notify
  <1>3. ASSUME NEW op \in DOMAIN EncodeResult PROVE IsTable(EncodeResult[op])
    BY <1>1 DEF EncodeResult, encode_get_parameter_result,
         encode_set_parameter_result, encode_load_parameter_file_result,
         encode_dump_parameter_file_result, encode_factory_reset_result,
         encode_set_notify_result, encode_get_notify_result, encode_disable_notify_result
  <1> QED
    BY <1>2, <1>3

(* The structures the handlers fill in fit the tables of their answers.    *)
Fits(op, struct) ==
    /\ op \in DOMAIN EncodeResult
    /\ IsStruct(struct)
    /\ Complete(EncodeResult[op], struct)

LEMMA FitsStatus ==
  ASSUME NEW r,
         NEW op \in {"load_parameter_file", "dump_parameter_file", "factory_reset",
                     "disable_notify"}
  PROVE  Fits(op, [r |-> Int32(r)])
  <1>1. Int32(r).kind \in Sint
    BY DEF Int32, Item, Sint
  <1>2. IsStruct([r |-> Int32(r)])
    BY DEF IsStruct
  <1>3. op \in DOMAIN EncodeResult
    BY DEF EncodeResult
  <1>4. Complete(EncodeResult[op], [r |-> Int32(r)])
    <2>1. CASE op \in {"factory_reset", "disable_notify"}
      BY <1>1, <2>1 DEF Complete, EncodeResult, encode_factory_reset_result,
                        encode_disable_notify_result, Member
    <2>2. CASE op = "load_parameter_file"
      BY <1>1, <2>2 DEF Complete, EncodeResult, encode_load_parameter_file_result,
                        Member, Optional
    <2>3. CASE op = "dump_parameter_file"
      BY <1>1, <2>3 DEF Complete, EncodeResult, encode_dump_parameter_file_result,
                        Member, Optional
    <2> QED
      BY <2>1, <2>2, <2>3
  <1> QED
    BY <1>2, <1>3, <1>4 DEF Fits

LEMMA FitsDump ==
  ASSUME NEW r, NEW name
  PROVE  Fits("dump_parameter_file", [r |-> Int32(r), n |-> Item("tstr", name)])
  <1>1. Int32(r).kind \in Sint /\ Item("tstr", name).kind \in Tstr
    BY DEF Int32, Item, Sint, Tstr
  <1>2. IsStruct([r |-> Int32(r), n |-> Item("tstr", name)])
    BY DEF IsStruct
  <1> QED
    BY <1>1, <1>2 DEF Fits, Complete, EncodeResult, encode_dump_parameter_file_result,
                      Member, Optional

LEMMA FitsId ==
  ASSUME NEW p, p.kind = "uint", NEW r,
         NEW op \in {"get_parameter", "set_parameter", "set_notify", "get_notify"}
  PROVE  Fits(op, [id |-> p, r |-> Int32(r)])
  <1>1. Int32(r).kind \in Sint /\ p.kind \in Uint
    BY DEF Int32, Item, Sint, Uint
  <1>2. IsStruct([id |-> p, r |-> Int32(r)])
    BY DEF IsStruct
  <1>3. op \in DOMAIN EncodeResult
    BY DEF EncodeResult
  <1>4. Complete(EncodeResult[op], [id |-> p, r |-> Int32(r)])
    <2>1. CASE op = "get_parameter"
      BY <1>1, <2>1 DEF Complete, EncodeResult, encode_get_parameter_result, Member, Optional
    <2>2. CASE op \in {"set_parameter", "set_notify", "get_notify"}
      <3>1. EncodeResult[op] = <<Member("id", Uint), Member("r", Sint)>>
        BY <2>2 DEF EncodeResult, encode_set_parameter_result,
                    encode_set_notify_result, encode_get_notify_result
      <3> QED
        BY <1>1, <3>1 DEF Complete, Member
    <2> QED
      BY <2>1, <2>2
  <1> QED
    BY <1>2, <1>3, <1>4 DEF Fits

LEMMA FitsRead ==
  ASSUME NEW p, p.kind = "uint", NEW r, NEW v, v.kind \in AnyKind
  PROVE  Fits("get_parameter", [id |-> p, r |-> Int32(r), r1 |-> v])
  <1>1. Int32(r).kind \in Sint /\ p.kind \in Uint
    BY DEF Int32, Item, Sint, Uint
  <1>2. IsStruct([id |-> p, r |-> Int32(r), r1 |-> v])
    BY DEF IsStruct
  <1> QED
    BY <1>1, <1>2 DEF Fits, Complete, EncodeResult, encode_get_parameter_result,
                      Member, Optional

(* The messages and the structures on both ends of the server.             *)
CborInv ==
    /\ step["server"] = "received" =>
          /\ ask.op \in Ops /\ IsStruct(ask.struct)
          /\ message = cbor_encode(Encode[ask.op], ask.struct)
    /\ step["server"] \in {"version", "increment", "answer"} \/ reply = "OK" =>
          Fits(ask.op, result)
    /\ reply = "OK" =>
          /\ step["server"] = "sent"
          /\ message = cbor_encode(EncodeResult[ask.op], result)

(* p1 of the commands that name an attribute is not negative.              *)
LEMMA ParamKind ==
  ASSUME CborInv,
         NEW op \in {"get_parameter", "set_parameter", "set_notify", "get_notify"}, In(op)
  PROVE  param["p1"].kind = "uint"
  <1>1. message = cbor_encode(Encode[op], ask.struct) /\ op \in Ops
    BY DEF In, CborInv
  <1>2. IsTable(Encode[op])
    BY <1>1, AreTables
  <1>3. PICK n \in Nat :
           DOMAIN Among(Encode[op], DOMAIN ask.struct) = 1..n
    BY <1>2, AmongTable
  <1>4. DOMAIN message = 1..n /\ Len(message) = n
    <2> DEFINE written == Among(Encode[op], DOMAIN ask.struct)
    <2>1. DOMAIN written = 1..n
      BY <1>3
    <2>2. message = [k \in DOMAIN written |->
                        [key |-> written[k].key, item |-> ask.struct[written[k].key]]]
      BY <1>1 DEF cbor_encode
    <2> HIDE DEF written
    <2>3. message = [k \in 1..n |->
                        [key |-> written[k].key, item |-> ask.struct[written[k].key]]]
      BY <2>1, <2>2
    <2> QED
      BY <2>3
  <1>5. Decodes(Encode[op], message)
    BY SameTables DEF In, NotDecoded, Understood
  <1>6. /\ \E k \in DOMAIN Encode[op] : Encode[op][k].key = "p1" /\ ~Encode[op][k].optional
        /\ \A k \in DOMAIN Encode[op] : Encode[op][k].key = "p1" => Encode[op][k].kinds = Uint
    <2>1. Encode[op] \in {<<Member("p1", Uint)>>, <<Member("p1", Uint), Member("p2", AnyKind)>>,
                          <<Member("p1", Uint), Member("p2", Bool)>>}
      BY DEF Encode, encode_get_parameter, encode_set_parameter, encode_set_notify,
             encode_get_notify
    <2> QED
      BY <2>1 DEF Member
  <1>7. "p1" \in Keys(message)
    BY <1>5, <1>6 DEF Decodes
  <1>8. cbor_decode(message)["p1"].kind \in Uint
    BY <1>2, <1>4, <1>5, <1>6, <1>7, DecodedKind
  <1> QED
    BY <1>8 DEF param, Uint

LEMMA CborResponds ==
  ASSUME BaseInv, CborInv, step["server"] # "sent", NEW struct, Respond(struct),
         Fits(ask.op, struct)
  PROVE  CborInv'
  <1>1. step'["server"] = "answer"
    BY TwoUsers DEF Respond, Goto, BaseInv
  <1> QED
    BY <1>1 DEF Respond, CborInv, Fits, IsStruct, Complete

LEMMA CborServer == BaseInv /\ AskInv /\ CborInv /\ ServerStep => CborInv'
  <1> SUFFICES ASSUME BaseInv, AskInv, CborInv, ServerStep PROVE CborInv'
    OBVIOUS
  <1>g. ASSUME NEW place, Goto("server", place) PROVE step'["server"] = place
    BY <1>g, TwoUsers DEF Goto, BaseInv
  <1>1. ASSUME NEW q \in Requests, Receive(q) PROVE CborInv'
    <2>1. step'["server"] = "received" /\ step["server"] = "idle"
      BY <1>1, <1>g DEF Receive
    <2>2. q.op \in Ops /\ IsStruct(q.struct)
      BY SmpInputAssumption DEF SmpInputAssumption, IsStruct
    <2>3. ask' = q /\ message' = cbor_encode(Encode[q.op], q.struct) /\ reply' = reply
      BY <1>1 DEF Receive
    <2>4. reply' # "OK"
      BY <2>1, <2>3 DEF CborInv
    <2> QED
      BY <2>1, <2>2, <2>3, <2>4 DEF CborInv
  <1>2. ASSUME Malformed \/ unsupported \/ Taken PROVE CborInv'
    <2>1. step'["server"] \in {"sent", "idle"} /\ reply' # "OK"
      BY <1>2, <1>g DEF Malformed, unsupported, Refuse, Taken
    <2> QED
      BY <2>1 DEF CborInv
  <1>3. ASSUME Answer PROVE CborInv'
    <2>1. step'["server"] = "sent" /\ step["server"] = "answer" /\ ask' = ask /\ result' = result
      BY <1>3, <1>g DEF Answer
    <2>2. reply' = "OK" => message' = cbor_encode(EncodeResult[ask.op], result)
      BY <1>3 DEF Answer
    <2>3. Fits(ask.op, result)
      BY <2>1 DEF CborInv
    <2> QED
      BY <2>1, <2>2, <2>3 DEF CborInv
  <1>4. ASSUME get_parameter PROVE CborInv'
    <2>1. In("get_parameter") /\ ask.op = "get_parameter" /\ step["server"] = "received"
      BY <1>4 DEF get_parameter, In
    <2>2. param["p1"].kind = "uint"
      BY <2>1, ParamKind
    <2>3. CASE Id \in Ids
      <3> DEFINE value == IF Id \in Readable THEN ram[Id] ELSE 0
                 item == Item(Kind(Table[Id], value), value)
                 r == IF Id \in Readable THEN 1 ELSE EPERM
      <3>1. Respond([id |-> param["p1"], r |-> Int32(r), r1 |-> item])
        BY <1>4, <2>3 DEF get_parameter
      <3>2. item.kind \in AnyKind
        BY DEF Item, Kind, AnyKind
      <3> HIDE DEF item, r
      <3>3. Fits(ask.op, [id |-> param["p1"], r |-> Int32(r), r1 |-> item])
        BY <2>1, <2>2, <3>2, FitsRead
      <3> QED
        BY <2>1, <3>1, <3>3, CborResponds
    <2>4. CASE Id \notin Ids
      <3>1. Respond([id |-> param["p1"], r |-> Int32(EINVAL)])
        BY <1>4, <2>4 DEF get_parameter
      <3>2. Fits(ask.op, [id |-> param["p1"], r |-> Int32(EINVAL)])
        BY <2>1, <2>2, FitsId
      <3> QED
        BY <2>1, <3>1, <3>2, CborResponds
    <2> QED
      BY <2>3, <2>4
  <1>5. ASSUME set_parameter PROVE CborInv'
    <2>1. In("set_parameter") /\ ask.op = "set_parameter" /\ step["server"] = "received"
      BY <1>5 DEF set_parameter, In
    <2>2. param["p1"].kind = "uint"
      BY <2>1, ParamKind
    <2>3. PICK ok \in BOOLEAN :
             /\ result' = SetResult(IF ok THEN 0 ELSE EIO)
             /\ step'["server"] \in {"version", "answer"}
      BY <1>5, <1>g DEF set_parameter
    <2>4. Fits(ask.op, result')
      BY <2>1, <2>2, <2>3, FitsId DEF SetResult
    <2>5. ask' = ask /\ reply' = reply /\ message' = message
      BY <1>5 DEF set_parameter
    <2>6. reply # "OK"
      BY <2>1 DEF CborInv
    <2> QED
      BY <2>3, <2>4, <2>5, <2>6 DEF CborInv
  <1>6. ASSUME SetRefused PROVE CborInv'
    <2>1. In("set_parameter") /\ ask.op = "set_parameter" /\ step["server"] = "received"
      BY <1>6 DEF SetRefused, In
    <2>2. param["p1"].kind = "uint"
      BY <2>1, ParamKind
    <2>3. Respond(SetResult(SetError))
      BY <1>6 DEF SetRefused
    <2>4. Fits(ask.op, SetResult(SetError))
      BY <2>1, <2>2, FitsId DEF SetResult
    <2> QED
      BY <2>1, <2>3, <2>4, CborResponds
  <1>7. ASSUME set_notify \/ get_notify PROVE CborInv'
    <2>1. PICK op \in {"set_notify", "get_notify"} : In(op)
      BY <1>7 DEF set_notify, get_notify
    <2>2. param["p1"].kind = "uint" /\ ask.op = op /\ step["server"] = "received"
      BY <2>1, ParamKind DEF In
    <2>3. \E r : Respond([id |-> param["p1"], r |-> Int32(r)])
      BY <1>7 DEF set_notify, get_notify
    <2>4. PICK r : Respond([id |-> param["p1"], r |-> Int32(r)])
      BY <2>3
    <2>5. Fits(ask.op, [id |-> param["p1"], r |-> Int32(r)])
      BY <2>1, <2>2, FitsId
    <2> QED
      BY <2>2, <2>4, <2>5, CborResponds
  <1>8. ASSUME load_parameter_file \/ disable_notify \/ SaveReset
        PROVE  CborInv'
    <2>1. /\ step["server"] # "sent"
          /\ ask.op \in {"load_parameter_file", "factory_reset", "disable_notify"}
      BY <1>8 DEF load_parameter_file, disable_notify, SaveReset, In, AskInv
    <2>2. \E r : Respond([r |-> Int32(r)])
      BY <1>8 DEF load_parameter_file, disable_notify, SaveReset
    <2>3. PICK r : Respond([r |-> Int32(r)])
      BY <2>2
    <2> QED
      BY <2>1, <2>3, FitsStatus, CborResponds
  <1>9. ASSUME NothingToDump \/ WriteDump PROVE CborInv'
    <2>1. step["server"] # "sent" /\ ask.op = "dump_parameter_file"
      BY <1>9 DEF NothingToDump, WriteDump, In, AskInv
    <2>2. \E r : \/ Respond([r |-> Int32(r)])
                 \/ Respond([r |-> Int32(r), n |-> Item("tstr", DumpName)])
      BY <1>9 DEF NothingToDump, WriteDump
    <2>3. PICK r : \/ Respond([r |-> Int32(r)])
                   \/ Respond([r |-> Int32(r), n |-> Item("tstr", DumpName)])
      BY <2>2
    <2> QED
      BY <2>1, <2>3, FitsStatus, FitsDump, CborResponds
  <1>10. ASSUME dump_parameter_file \/ ResetTable PROVE CborInv'
    <2>1. step["server"] # "sent" /\ step'["server"] \in {"build", "save"}
      BY <1>10, <1>g DEF dump_parameter_file, ResetTable, In
    <2>2. UNCHANGED transfer
      BY <1>10 DEF dump_parameter_file, ResetTable
    <2> QED
      BY <2>1, <2>2 DEF CborInv, transfer
  <1>11. ASSUME factory_reset PROVE CborInv'
    <2>1. step["server"] = "received" /\ ask.op = "factory_reset"
      BY <1>11 DEF factory_reset, In
    <2>2. CASE Respond([r |-> Int32(EPERM)])
      BY <2>1, <2>2, FitsStatus, CborResponds
    <2>3. CASE Goto("server", "table") /\ UNCHANGED transfer
      <3>1. step'["server"] = "table"
        BY <2>3, <1>g
      <3> QED
        BY <2>1, <2>3, <3>1 DEF CborInv, transfer
    <2> QED
      BY <1>11, <2>2, <2>3 DEF factory_reset
  <1> QED
    BY <1>1, <1>2, <1>3, <1>4, <1>5, <1>6, <1>7, <1>8, <1>9, <1>10, <1>11 DEF ServerStep

(* The others leave the messages alone, and the server's step but for the *)
(* count in config_version.                                               *)
LEMMA CborKept ==
  ASSUME CborInv, UNCHANGED transfer,
         \/ step'["server"] = step["server"]
         \/ step["server"] = "version" /\ step'["server"] = "increment"
         \/ step["server"] = "increment" /\ step'["server"] = "answer"
         \/ step["server"] = "build" /\ step'["server"] = "write"
  PROVE  CborInv'
  BY DEF CborInv, transfer

LEMMA CborOthers == BaseInv /\ AskInv /\ CborInv /\ AStep /\ ~ServerStep => CborInv'
  <1> SUFFICES ASSUME BaseInv, AskInv, CborInv, AStep, ~ServerStep PROVE CborInv'
    OBVIOUS
  <1>o. ASSUME NEW u \in Users, NEW place, Goto(u, place)
        PROVE  IF u = "server" THEN step'[u] = place ELSE step'["server"] = step["server"]
    BY <1>o, TwoUsers DEF Goto, BaseInv
  <1>1. ASSUME ShellStep PROVE CborInv'
    <2>1. step'["server"] = step["server"]
      BY <1>1, <1>o, TwoUsers DEF ShellStep, Type, ats_load_cmd, ats_dump_cmd
    <2>2. UNCHANGED transfer
      BY <1>1 DEF ShellStep, Type, ats_load_cmd, ats_dump_cmd
    <2> QED
      BY <2>1, <2>2, CborKept
  <1>2. ASSUME NEW u \in Users, CopyVersion(u) \/ WriteVersion(u) PROVE CborInv'
    <2>1. UNCHANGED transfer
      BY <1>2 DEF CopyVersion, WriteVersion
    <2>2. \/ step'["server"] = step["server"]
          \/ step["server"] = "version" /\ step'["server"] = "increment"
          \/ step["server"] = "increment" /\ step'["server"] = "answer"
      BY <1>2, <1>o DEF CopyVersion, WriteVersion
    <2> QED
      BY <2>1, <2>2, CborKept
  <1>3. ASSUME NEW u \in Users, attr_prepare_then_dump(u) PROVE CborInv'
    <2>1. CASE u # "server"
      <3>1. UNCHANGED transfer /\ step'["server"] = step["server"]
        BY <1>3, <1>o, <2>1 DEF attr_prepare_then_dump
      <3> QED
        BY <3>1, CborKept
    <2>2. CASE u = "server" /\ Goto("server", "write") /\ UNCHANGED transfer
      <3>1. step["server"] = "build" /\ step'["server"] = "write"
        BY <1>3, <1>o, <2>2 DEF attr_prepare_then_dump
      <3> QED
        BY <2>2, <3>1, CborKept
    <2>3. CASE u = "server" /\ Respond([r |-> Int32(EIO)])
      <3>1. step["server"] = "build" /\ ask.op = "dump_parameter_file"
        BY <1>3, <2>3 DEF attr_prepare_then_dump, AskInv
      <3> QED
        BY <2>3, <3>1, FitsStatus, CborResponds
    <2> QED
      BY <1>3, <2>1, <2>2, <2>3 DEF attr_prepare_then_dump
  <1>4. ASSUME NEW i \in Ids, NEW raw \in Raw, FirmwareSet(i, raw) PROVE CborInv'
    BY <1>4, CborKept DEF FirmwareSet
  <1> QED
    BY <1>1, <1>2, <1>3, <1>4 DEF AStep

(* What either side encodes, the other decodes: every key, in the order    *)
(* and of the kind it is expected, whatever the request and its outcome.   *)
THEOREM AlwaysUnderstood == Spec => []MessagesAreUnderstood
  <1>1. Init => CborInv
    <2> SUFFICES ASSUME Init PROVE CborInv
      OBVIOUS
    <2>1. step["server"] = "idle" /\ reply = "none"
      BY TwoUsers DEF Init
    <2> QED
      BY <2>1 DEF CborInv
  <1>2. SmpInv /\ CborInv /\ [Next]_vars => CborInv'
    <2> SUFFICES ASSUME SmpInv, CborInv, [Next]_vars PROVE CborInv'
      OBVIOUS
    <2>1. CASE Next
      <3>1. AStep
        BY <2>1 DEF Next, AStep
      <3> QED
        BY <3>1, CborServer, CborOthers DEF SmpInv
    <2>2. CASE UNCHANGED vars
      BY <2>2, CborKept DEF vars, transfer
    <2> QED
      BY <2>1, <2>2
  <1>3. CborInv => MessagesAreUnderstood
    <2> SUFFICES ASSUME CborInv PROVE MessagesAreUnderstood
      OBVIOUS
    <2>1. ASSUME step["server"] = "received", Complete(Encode[ask.op], ask.struct)
          PROVE  /\ Decodes(Decode[ask.op], message)
                 /\ cbor_decode(message) = ask.struct
      <3>1. /\ IsTable(Encode[ask.op]) /\ IsStruct(ask.struct)
            /\ message = cbor_encode(Encode[ask.op], ask.struct)
        BY <2>1, AreTables DEF CborInv
      <3> QED
        BY <2>1, <3>1, RoundTrip, SameTables
    <2>2. ASSUME reply = "OK"
          PROVE  /\ Complete(EncodeResult[ask.op], result)
                 /\ Decodes(DecodeResult[ask.op], message)
                 /\ cbor_decode(message) = result
      <3>1. /\ ask.op \in DOMAIN EncodeResult
            /\ IsStruct(result) /\ Complete(EncodeResult[ask.op], result)
            /\ message = cbor_encode(EncodeResult[ask.op], result)
        BY <2>2 DEF CborInv, Fits
      <3>2. IsTable(EncodeResult[ask.op])
        BY <3>1, AreTables
      <3> QED
        BY <3>1, <3>2, RoundTrip, SameTables
    <2> QED
      BY <2>1, <2>2 DEF MessagesAreUnderstood
  <1> QED
    BY SmpAlways, <1>1, <1>2, <1>3, PTL DEF Spec
================================================================================
