-------------------------- MODULE AttrRestartProofs --------------------------
(***************************************************************************)
(* Proofs about what a reset of the device brings back, for every table,   *)
(* every set of values and every file: the file agrees with RAM unless a   *)
(* caller was told otherwise, and AttrStore implements PersistentMap.      *)
(***************************************************************************)
EXTENDS AttrStoreProofs

USE DEF NotLoading, Returned, Pending, NoSave, ClearBits, ResetTable, MayWrite

-----------------------------------------------------------------------------
(* The inductive invariant.                                                *)

(* The attribute file has one value per key, and none if it cannot be read.*)
FileInv ==
    /\ OneValuePerKey(file.pairs)
    /\ file.state # "kvp" => file.pairs = {}

(* attr_init starts from the defaults and goes through the attribute file, *)
(* which nobody changes meanwhile.                                         *)
InitLoadInv ==
    ~attr_initialized /\ load.phase \in {"validate", "write"} =>
        /\ load.src = file.pairs
        /\ \A i \in Ids \ load.wrote : ram[i] = Table[i].default
        /\ load.phase = "write" =>
              \A p \in Seen : PairOk(p) => ram[p.key] = Stored(Table[p.key], p.val)

(* File and RAM agree on the saved attributes, but while a load writes and *)
(* after an operation whose caller knows that they may not.                *)
AgreeInv ==
    attr_initialized /\ ~atRisk /\ load.wrote = {} =>
        \A i \in Saved : Restored(file)[i] = ram[i]

RInv == FileInv /\ InitLoadInv /\ AgreeInv

-----------------------------------------------------------------------------
(* Lemmas about what attr_init makes of a file.                            *)

LEMMA RestoredPair ==
    ASSUME NEW f, OneValuePerKey(f.pairs), NEW p \in RestoredPairs(f),
           p.key \in Ids
    PROVE  Restored(f)[p.key] = Stored(Table[p.key], p.val)
<1> DEFINE q == CHOOSE r \in RestoredPairs(f) : r.key = p.key
<1>1. q \in RestoredPairs(f) /\ q.key = p.key
  OBVIOUS
<1>2. q = p
  BY <1>1 DEF RestoredPairs, OneValuePerKey
<1> QED
  BY <1>2 DEF Restored

LEMMA RestoredDefault ==
    ASSUME NEW f, NEW i \in Ids, \A p \in RestoredPairs(f) : p.key # i
    PROVE  Restored(f)[i] = Table[i].default
BY DEF Restored

LEMMA RestoredType ==
    ASSUME NEW f \in File, OneValuePerKey(f.pairs)
    PROVE  Restored(f) \in [Ids -> Raw]
<1> SUFFICES ASSUME NEW i \in Ids PROVE Restored(f)[i] \in Raw
  BY DEF Restored
<1>1. CASE \E p \in RestoredPairs(f) : p.key = i
  <2>1. PICK p \in RestoredPairs(f) : p.key = i
    BY <1>1
  <2>2. p.val \in Raw
    BY <2>1 DEF RestoredPairs, File, Pair
  <2> QED
    BY <2>1, <2>2, RestoredPair, TableAssumption
<1>2. CASE ~ \E p \in RestoredPairs(f) : p.key = i
  BY <1>2, RestoredDefault, TableAssumption
<1> QED
  BY <1>1, <1>2

(* A saved file has one value per key.                                     *)
LEMMA FileOfUnique ==
    ASSUME NEW values
    PROVE  /\ OneValuePerKey(FileOf(values).pairs)
           /\ FileOf(values).state = "kvp"
BY DEF FileOf, Kvp, OneValuePerKey

(* Legal values survive a save and a restart.                              *)
LEMMA RestoredSaved ==
    ASSUME NEW values \in [Ids -> Raw],
           \A i \in Ids : /\ Accepts(Table[i], values[i])
                          /\ Stored(Table[i], values[i]) = values[i],
           NEW i \in Saved
    PROVE  Restored(FileOf(values))[i] = values[i]
<1> DEFINE f == FileOf(values)
           p == [key |-> i, val |-> values[i]]
<1>1. i \in Ids /\ Saved \subseteq Ids
  BY DEF Saved, Having
<1>2. \A q \in f.pairs : q.key \in Ids /\ Accepts(Table[q.key], q.val)
  BY <1>1 DEF FileOf, Kvp
<1>3. RestoredPairs(f) = f.pairs
  BY <1>2 DEF RestoredPairs
<1>4. p \in RestoredPairs(f) /\ p.key = i /\ p.val = values[i]
  BY <1>3 DEF FileOf, Kvp
<1> QED
  BY <1>1, <1>4, RestoredPair, FileOfUnique

(* Without a file, the defaults.                                           *)
LEMMA RestoredNothing ==
    ASSUME NEW f, f.pairs = {}, NEW i \in Ids
    PROVE  Restored(f)[i] = Table[i].default
BY RestoredDefault DEF RestoredPairs

(* When the load made by attr_init is over, RAM is what the file restores. *)
LEMMA InitRestores ==
    ASSUME IInv, FileInv, InitLoadInv, ~attr_initialized, LoadError \/ LoadOk,
           NEW i \in Ids
    PROVE  ram[i] = Restored(file)[i]
<1>1. load.src = file.pairs /\ load.todo = {} /\ Seen = load.src
  BY DEF InitLoadInv, LoadError, LoadOk, Seen
<1>2. ASSUME NEW p \in file.pairs
      PROVE  PairOk(p) <=> p.key \in Ids /\ Accepts(Table[p.key], p.val)
  BY DEF PairOk, PairVerdict, Accepts
<1>3. CASE load.phase = "validate"
  <2>1. VALIDATE_ENTIRE_FILE_ON_INIT /\ PassFailed
    BY <1>3 DEF LoadError, LoadOk, EntireFile
  <2>2. RestoredPairs(file) = {}
    BY <1>1, <1>2, <1>3, <2>1 DEF RestoredPairs, PassFailed, IInv, LoadInv
  <2>3. load.wrote = {}
    BY <1>3 DEF IInv, LoadInv
  <2> QED
    BY <1>3, <2>2, <2>3, RestoredDefault DEF InitLoadInv
<1>4. CASE load.phase = "write"
  <2>1. RestoredPairs(file) = {p \in file.pairs : PairOk(p)}
    BY <1>1, <1>2, <1>4 DEF RestoredPairs, EntireFile, IInv, LoadInv
  <2>2. CASE \E p \in RestoredPairs(file) : p.key = i
    <3>1. PICK p \in RestoredPairs(file) : p.key = i
      BY <2>2
    <3> QED
      BY <1>1, <1>4, <2>1, <3>1, RestoredPair DEF InitLoadInv, FileInv
  <2>3. CASE ~ \E p \in RestoredPairs(file) : p.key = i
    <3>1. i \notin load.wrote
      BY <1>1, <1>4, <2>1, <2>3 DEF IInv, LoadInv
    <3> QED
      BY <1>4, <2>3, <3>1, RestoredDefault DEF InitLoadInv
  <2> QED
    BY <2>2, <2>3
<1> QED
  BY <1>3, <1>4 DEF LoadError, LoadOk

-----------------------------------------------------------------------------
(* What a save does, and the parts of the invariant a step leaves alone.   *)

LEMMA SaveAgrees ==
    ASSUME IInv', load'.phase # "off", NEW ok \in BOOLEAN, FileInv,
           save_attributes(ram', ok)
    PROVE  /\ FileInv'
           /\ ok => \A i \in Saved : Restored(file')[i] = ram'[i]
           /\ ~ok => atRisk'
<1>1. CASE ok
  <2>1. file' = FileOf(ram')
    BY <1>1 DEF save_attributes
  <2>2. FileInv'
    BY <2>1, FileOfUnique DEF FileInv
  <2>3. \A i \in Saved : Restored(file')[i] = ram'[i]
    BY <2>1, RestoredSaved DEF IInv, TypeOK, LegalValues
  <2> QED
    BY <1>1, <2>2, <2>3
<1>2. CASE ~ok
  BY <1>2 DEF save_attributes, FileInv
<1> QED
  BY <1>1, <1>2

LEMMA FileUnchanged == ASSUME FileInv, UNCHANGED file PROVE FileInv'
BY DEF FileInv

(* Nothing to show of a load once attr_init is over.                       *)
LEMMA InitLoadOver == ASSUME attr_initialized' PROVE InitLoadInv'
BY DEF InitLoadInv

LEMMA AtRiskAgrees == ASSUME atRisk' PROVE AgreeInv'
BY DEF AgreeInv

LEMMA AgreeUnchanged ==
    ASSUME AgreeInv, attr_initialized, UNCHANGED <<ram, file, atRisk>>,
           load'.wrote = load.wrote \/ load.wrote = {}
    PROVE  AgreeInv'
BY DEF AgreeInv, Restored, RestoredPairs, Saved, Having

-----------------------------------------------------------------------------
(* One lemma per action, or per kind of action.                            *)

LEMMA InitRInv == ASSUME Init PROVE RInv
BY FileAssumption DEF Init, RInv, FileInv, InitLoadInv, AgreeInv

(* A setter saves what changed; what it does not save is as it was.        *)
LEMMA WriteSingleRInv ==
    ASSUME IInv, RInv, IInv', NEW i \in Ids, NEW n \in Raw, WriteSingle(i, n)
    PROVE  RInv'
<1> USE DEF WriteSingle
<1>1. attr_initialized /\ attr_initialized' /\ load' = load /\ load.phase = "idle"
  BY DEF MutexFree, IInv, TypeOK
<1>2. PICK ok \in BOOLEAN : IF ModifiedBit(i, n) /\ i \in Saved
                            THEN save_attributes(ram', ok)
                            ELSE ok /\ NoSave
  OBVIOUS
<1>3. CASE ModifiedBit(i, n) /\ i \in Saved
  BY <1>1, <1>2, <1>3, SaveAgrees, InitLoadOver DEF RInv, AgreeInv
<1>4. CASE ~(ModifiedBit(i, n) /\ i \in Saved)
  <2>1. UNCHANGED <<file, atRisk>>
    BY <1>2, <1>4
  <2>2. \A j \in Saved : ram'[j] = ram[j]
    BY <1>4 DEF ModifiedBit, Modifies, IInv, TypeOK, Saved, Having
  <2>3. AgreeInv'
    BY <1>1, <2>1, <2>2 DEF RInv, AgreeInv
  <2> QED
    BY <1>1, <2>1, <2>3, FileUnchanged, InitLoadOver DEF RInv
<1> QED
  BY <1>3, <1>4

LEMMA AttrInitRInv == ASSUME IInv, RInv, attr_init PROVE RInv'
<1> USE DEF attr_init, StartLoad
<1>1. FileInv'
  BY FileUnchanged DEF RInv
<1>2. CASE file.state = "kvp"
  <2>1. ~attr_initialized'
    BY <1>2 DEF IInv, PhaseInv
  <2>2. InitLoadInv'
    BY <1>2, <2>1 DEF InitLoadInv, Defaults
  <2> QED
    BY <1>1, <2>1, <2>2 DEF RInv, AgreeInv
<1>3. CASE file.state # "kvp"
  <2>1. attr_initialized' /\ ram' = Defaults /\ file' = file /\ file.pairs = {}
    BY <1>3 DEF RInv, FileInv
  <2>2. \A i \in Saved : Restored(file')[i] = ram'[i]
    BY <2>1, RestoredNothing DEF Defaults, Saved, Having
  <2> QED
    BY <1>1, <2>1, <2>2, InitLoadOver DEF RInv, AgreeInv
<1> QED
  BY <1>2, <1>3

(* What attr_init makes of the pairs of the attribute file.                *)
LEMMA InitPassRInv ==
    ASSUME IInv, RInv, ~attr_initialized, NEW p \in load.todo,
           ValidatePair(p) \/ WritePair(p)
    PROVE  RInv'
<1>1. ~attr_initialized' /\ file' = file
  BY DEF ValidatePair, WritePair
<1>2. CASE ValidatePair(p)
  BY <1>1, <1>2 DEF ValidatePair, RInv, FileInv, InitLoadInv, AgreeInv, IInv, TypeOK
<1>3. CASE WritePair(p)
  <2>1. load.phase = "write" /\ p \in load.src /\ load.src = file.pairs
    BY <1>3 DEF WritePair, IInv, LoadInv, RInv, InitLoadInv
  <2>2. /\ load.phase = "write" /\ p \in load.src /\ p \in file.pairs
        /\ load'.src = load.src /\ load'.phase = "write"
        /\ load'.todo = load.todo \ {p}
        /\ Seen' = Seen \cup {p}
    <3>1. /\ load'.src = load.src /\ load'.phase = "write"
          /\ load'.todo = load.todo \ {p}
      BY <1>3, <2>1 DEF WritePair, IInv, TypeOK
    <3> QED
      BY <2>1, <3>1 DEF Seen
  <2>3. CASE ~PairOk(p)
    <3>1. UNCHANGED <<ram, attr_initialized>> /\ load'.wrote = load.wrote
      BY <1>3, <2>3 DEF WritePair, IInv, TypeOK
    <3> QED
      BY <1>1, <2>2, <2>3, <3>1, PairOkUnchanged
         DEF RInv, FileInv, InitLoadInv, AgreeInv
  <2>4. CASE PairOk(p)
    <3>1. /\ ram' = [ram EXCEPT ![p.key] = Stored(Table[p.key], p.val)]
          /\ load'.wrote = load.wrote \cup {p.key}
          /\ UNCHANGED attr_initialized
          /\ p.key \in Ids
      BY <1>3, <2>4, PairOkMeans DEF WritePair, IInv, TypeOK
    <3>2. \A i \in Ids \ load'.wrote : ram'[i] = Table[i].default
      BY <1>1, <2>2, <3>1 DEF RInv, InitLoadInv, IInv, TypeOK
    <3>3. ASSUME NEW q \in Seen', PairOk(q)
          PROVE  ram'[q.key] = Stored(Table[q.key], q.val)
      <4>1. CASE q = p
        BY <3>1, <4>1 DEF IInv, TypeOK
      <4>2. CASE q # p
        <5>1. q \in Seen /\ q \in file.pairs /\ q.key \in Ids
          BY <2>2, <3>3, <4>2, PairOkMeans DEF RInv, InitLoadInv, Seen
        <5>2. q.key # p.key
          BY <2>2, <4>2, <5>1 DEF RInv, FileInv, OneValuePerKey
        <5> QED
          BY <2>2, <3>1, <3>3, <5>1, <5>2 DEF RInv, InitLoadInv, IInv, TypeOK
      <4> QED
        BY <4>1, <4>2
    <3> QED
      BY <1>1, <2>2, <3>1, <3>2, <3>3, PairOkUnchanged
         DEF RInv, FileInv, InitLoadInv, AgreeInv
  <2> QED
    BY <2>3, <2>4
<1> QED
  BY <1>2, <1>3

(* During a load made by attr_load RAM runs ahead of the file: nothing is  *)
(* claimed of them once an attribute is written.                           *)
LEMMA LoadPassRInv ==
    ASSUME IInv, RInv, attr_initialized, NEW p \in load.todo,
           ValidatePair(p) \/ WritePair(p)
    PROVE  RInv'
<1>1. attr_initialized' /\ FileInv'
  BY FileUnchanged DEF ValidatePair, WritePair, RInv
<1>2. AgreeInv'
  <2>1. CASE ValidatePair(p) \/ ~PairOk(p)
    <3>1. UNCHANGED <<ram, file, atRisk>> /\ load'.wrote = load.wrote
      BY <2>1 DEF ValidatePair, WritePair, IInv, TypeOK
    <3> QED
      BY <3>1, AgreeUnchanged DEF RInv
  <2>2. CASE WritePair(p) /\ PairOk(p)
    <3>1. load'.wrote = load.wrote \cup {p.key}
      BY <2>2 DEF WritePair, IInv, TypeOK
    <3> QED
      BY <3>1 DEF AgreeInv
  <2> QED
    BY <2>1, <2>2
<1> QED
  BY <1>1, <1>2, InitLoadOver DEF RInv

LEMMA BeginWriteRInv == ASSUME IInv, RInv, BeginWrite PROVE RInv'
<1>1. /\ load'.src = load.src /\ load'.phase = "write" /\ load'.todo = load.src
      /\ load'.wrote = load.wrote /\ load.phase = "validate"
      /\ UNCHANGED <<ram, file, attr_initialized, atRisk>>
  BY DEF BeginWrite, IInv, TypeOK
<1>2. Seen' = {}
  BY <1>1 DEF Seen
<1> QED
  BY <1>1, <1>2 DEF RInv, FileInv, InitLoadInv, AgreeInv

LEMMA FinishInitRInv == ASSUME IInv, RInv, FinishInit PROVE RInv'
<1>1. attr_initialized' /\ UNCHANGED <<file, ram>>
  BY DEF FinishInit
<1>2. \A i \in Saved : Restored(file')[i] = ram'[i]
  BY <1>1, InitRestores DEF FinishInit, RInv, Saved, Having
<1> QED
  BY <1>1, <1>2, FileUnchanged, InitLoadOver DEF RInv, AgreeInv

LEMMA FinishLoadRInv ==
    ASSUME IInv, RInv, IInv', RejectLoad \/ FinishLoad
    PROVE  RInv'
<1>1. attr_initialized' /\ ram' = ram
  BY DEF RejectLoad, FinishLoad
<1>2. CASE RejectLoad
  <2>1. CASE load.wrote = {}
    BY <1>2, <2>1 DEF RejectLoad, RInv, FileInv, AgreeInv, InitLoadInv
  <2>2. CASE load.wrote # {}
    BY <1>2, <2>2, AtRiskAgrees, FileUnchanged, InitLoadOver DEF RejectLoad, RInv
  <2> QED
    BY <2>1, <2>2
<1>3. CASE FinishLoad
  <2>1. PICK ok \in BOOLEAN : save_attributes(ram, ok)
    BY <1>3 DEF FinishLoad
  <2>2. save_attributes(ram', ok) /\ load'.phase # "off"
    BY <1>1, <1>3, <2>1 DEF FinishLoad
  <2> QED
    BY <1>1, <2>2, SaveAgrees, InitLoadOver DEF RInv, AgreeInv
<1> QED
  BY <1>2, <1>3

(* The operations after which the caller knows that the two may differ.    *)
LEMMA AtRiskRInv ==
    ASSUME IInv, RInv,
           \/ \E i \in Ids : attr_default(i)
           \/ attr_delete
           \/ \E i \in reset.todo : ResetEntry(i)
    PROVE  RInv'
<1>1. attr_initialized' /\ atRisk'
  BY DEF attr_default, attr_delete, ResetEntry, IInv, TypeOK, PhaseInv
<1>2. FileInv'
  BY DEF attr_default, attr_delete, ResetEntry, RInv, FileInv, NoFile, OneValuePerKey
<1> QED
  BY <1>1, <1>2, AtRiskAgrees, InitLoadOver DEF RInv

(* The operations that touch neither RAM nor the file.                     *)
LEMMA UntouchedRInv ==
    ASSUME IInv, RInv,
           \/ \E i \in Ids, n \in Raw, sameType \in BOOLEAN : SetRefused(i, n, sameType)
           \/ \E f \in LoadFiles : attr_load(f) \/ LoadUnparsable(f)
           \/ attr_factory_reset
    PROVE  RInv'
<1>1. /\ attr_initialized /\ attr_initialized'
      /\ UNCHANGED <<ram, file, atRisk>>
      /\ load.wrote = {} \/ load'.wrote = load.wrote
  BY DEF SetRefused, attr_load, LoadUnparsable, attr_factory_reset, MutexFree,
         IInv, LoadInv
<1> QED
  BY <1>1, AgreeUnchanged, FileUnchanged, InitLoadOver DEF RInv

LEMMA FinishResetRInv == ASSUME IInv, RInv, IInv', FinishReset PROVE RInv'
<1>1. attr_initialized' /\ ram' = ram /\ load'.phase # "off"
  BY DEF FinishReset, MutexFree
<1>2. PICK ok \in BOOLEAN : save_attributes(ram', ok)
  BY <1>1 DEF FinishReset
<1> QED
  BY <1>1, <1>2, SaveAgrees, InitLoadOver DEF RInv, AgreeInv

LEMMA RebootRInv == ASSUME RInv, Reboot PROVE RInv'
BY DEF Reboot, RInv, FileInv, InitLoadInv, AgreeInv

LEMMA StutterRInv == ASSUME RInv, UNCHANGED vars PROVE RInv'
BY DEF vars, RInv, FileInv, InitLoadInv, AgreeInv, Seen, PairOk, PairVerdict,
       Restored, RestoredPairs, Saved, Writable, Having

LEMMA NextRInv == ASSUME IInv, RInv, IInv', [Next]_vars PROVE RInv'
<1>1. ASSUME NEW i \in Ids, NEW n \in Raw, set_internal(i, n) \/ SetFromFirmware(i, n)
      PROVE  RInv'
  BY <1>1, WriteSingleRInv DEF set_internal, SetFromFirmware
<1>2. ASSUME LoaderStep PROVE RInv'
  BY <1>2, InitPassRInv, LoadPassRInv, BeginWriteRInv, FinishInitRInv,
     FinishLoadRInv DEF LoaderStep
<1>3. ASSUME ResetStep PROVE RInv'
  BY <1>3, AtRiskRInv, FinishResetRInv DEF ResetStep
<1> QED
  BY <1>1, <1>2, <1>3, AttrInitRInv, AtRiskRInv, UntouchedRInv, RebootRInv,
     StutterRInv DEF Next

THEOREM RestartInvariance == Spec => [](IInv /\ RInv)
BY InitIInv, InitRInv, NextIInv, NextRInv, PTL DEF Spec

(* A reset of the device restores every saved attribute to the value it    *)
(* has in RAM, unless the last operation told its caller otherwise.        *)
THEOREM RestartIsSafe == Spec => []RestartKeepsValues
<1>1. IInv /\ RInv => RestartKeepsValues
  BY DEF IInv, RInv, LoadInv, AgreeInv, RestartKeepsValues, MutexFree
<1> QED
  BY <1>1, RestartInvariance, PTL

-----------------------------------------------------------------------------
(* AttrStore implements PersistentMap.                                     *)

LEMMA MapTypes ==
    ASSUME IInv, RInv
    PROVE  /\ SavedPart(ram) \in [Saved -> Raw]
           /\ SavedPart(Restored(file)) \in [Saved -> Raw]
BY RestoredType DEF IInv, TypeOK, RInv, FileInv, SavedPart, Saved, Having

LEMMA RefineInit == ASSUME Init PROVE PMap!Init
<1>1. SavedPart(Restored(file)) \in [Saved -> Raw]
  BY InitIInv, InitRInv, MapTypes
<1> QED
  BY <1>1 DEF PMap!Init, Init

(* A step of the running store that leaves the file alone or saves RAM.    *)
LEMMA RefineWrite ==
    ASSUME IInv', RInv', attr_initialized, attr_initialized',
           file' = file \/ file' = FileOf(ram')
    PROVE  PMap!Write
<1>1. SavedPart(ram') \in [Saved -> Raw]
  BY MapTypes DEF IInv, TypeOK, SavedPart, Saved, Having
<1>2. CASE file' = file
  BY <1>1, <1>2 DEF PMap!Write, SavedPart, Restored, RestoredPairs
<1>3. CASE file' = FileOf(ram')
  <2>1. \A i \in Saved : Restored(file')[i] = ram'[i]
    BY <1>3, RestoredSaved DEF IInv, TypeOK, LegalValues, PhaseInv
  <2>2. SavedPart(Restored(file')) = SavedPart(ram')
    BY <2>1 DEF SavedPart
  <2> QED
    BY <1>1, <2>2 DEF PMap!Write, SavedPart, Restored, RestoredPairs
<1> QED
  BY <1>2, <1>3

(* The end of attr_init.                                                   *)
LEMMA RefineStart ==
    ASSUME ~attr_initialized, attr_initialized', file' = file,
           \A i \in Saved : ram'[i] = Restored(file)[i]
    PROVE  PMap!Start
<1>1. SavedPart(ram') = SavedPart(Restored(file))
  BY DEF SavedPart
<1> QED
  BY <1>1 DEF PMap!Start

(* The steps of attr_init that are not its last are not seen in the map.   *)
LEMMA RefineStutter ==
    ASSUME ~attr_initialized, UNCHANGED <<attr_initialized, file>>
    PROVE  UNCHANGED PMap!vars
BY DEF PMap!vars

LEMMA RefineReboot == ASSUME IInv, Reboot PROVE [PMap!Next]_(PMap!vars)
<1>1. CASE attr_initialized
  BY <1>1 DEF Reboot, PMap!Next, PMap!PowerOff
<1>2. CASE ~attr_initialized
  BY <1>2, RefineStutter DEF Reboot, IInv, TypeOK
<1> QED
  BY <1>1, <1>2

LEMMA RefineDelete == ASSUME attr_delete PROVE PMap!Erase
<1>1. \A i \in Saved : Restored(NoFile)[i] = Defaults[i]
  BY RestoredNothing DEF NoFile, Defaults, Saved, Having
<1>2. SavedPart(Restored(NoFile)) = SavedPart(Defaults)
  BY <1>1 DEF SavedPart
<1> QED
  BY <1>2 DEF attr_delete, PMap!Erase

LEMMA RefineAttrInit ==
    ASSUME IInv, RInv, attr_init PROVE [PMap!Next]_(PMap!vars)
<1>1. ~attr_initialized /\ file' = file
  BY DEF attr_init, IInv, PhaseInv
<1>2. CASE file.state = "kvp"
  <2>1. UNCHANGED attr_initialized
    BY <1>2 DEF attr_init
  <2> QED
    BY <1>1, <2>1, RefineStutter
<1>3. CASE file.state # "kvp"
  <2>1. attr_initialized' /\ ram' = Defaults
    BY <1>3 DEF attr_init
  <2>2. \A i \in Saved : ram'[i] = Restored(file)[i]
    BY <1>3, <2>1, RestoredNothing DEF RInv, FileInv, Defaults, Saved, Having
  <2> QED
    BY <1>1, <2>1, <2>2, RefineStart DEF PMap!Next
<1> QED
  BY <1>2, <1>3

LEMMA RefineLoader ==
    ASSUME IInv, RInv, IInv', RInv', LoaderStep
    PROVE  [PMap!Next]_(PMap!vars)
<1>1. CASE FinishInit
  <2>1. \A i \in Saved : ram'[i] = Restored(file)[i]
    BY <1>1, InitRestores DEF FinishInit, RInv, Saved, Having
  <2> QED
    BY <1>1, <2>1, RefineStart DEF FinishInit, PMap!Next
<1>2. CASE FinishLoad
  <2>1. attr_initialized /\ attr_initialized' /\ file' \in {file, FileOf(ram')}
    BY <1>2 DEF FinishLoad, save_attributes
  <2> QED
    BY <2>1, RefineWrite DEF PMap!Next
<1>3. CASE ~FinishInit /\ ~FinishLoad
  <2>1. attr_initialized' = attr_initialized /\ file' = file
    BY <1>3 DEF LoaderStep, ValidatePair, BeginWrite, WritePair, RejectLoad
  <2>2. attr_initialized \in BOOLEAN
    BY DEF IInv, TypeOK
  <2> QED
    BY <2>1, <2>2, RefineStutter, RefineWrite DEF PMap!Next
<1> QED
  BY <1>1, <1>2, <1>3

(* Every other step is a write: it starts and ends with the store up.      *)
LEMMA RefineOther ==
    ASSUME IInv, RInv, IInv', RInv',
           \/ \E i \in Ids, n \in Raw :
                 \/ WriteSingle(i, n)
                 \/ \E sameType \in BOOLEAN : SetRefused(i, n, sameType)
           \/ \E f \in LoadFiles : attr_load(f) \/ LoadUnparsable(f)
           \/ \E i \in Ids : attr_default(i)
           \/ attr_factory_reset
           \/ ResetStep
    PROVE  PMap!Next
<1>1. attr_initialized /\ attr_initialized'
  BY DEF WriteSingle, SetRefused, attr_load, LoadUnparsable, attr_default,
         attr_factory_reset, ResetStep, ResetEntry, FinishReset, MutexFree,
         IInv, PhaseInv
<1>2. file' = file \/ file' = FileOf(ram')
  <2>1. ASSUME NEW i \in Ids, NEW n \in Raw, WriteSingle(i, n)
        PROVE  file' = file \/ file' = FileOf(ram')
    BY <2>1 DEF WriteSingle, save_attributes
  <2>2. ASSUME FinishReset PROVE file' = file \/ file' = FileOf(ram')
    BY <2>2 DEF FinishReset, save_attributes
  <2> QED
    BY <2>1, <2>2 DEF SetRefused, attr_load, LoadUnparsable, attr_default,
                      attr_factory_reset, ResetStep, ResetEntry
<1> QED
  BY <1>1, <1>2, RefineWrite DEF PMap!Next

LEMMA RefineNext ==
    ASSUME IInv, RInv, IInv', RInv', [Next]_vars
    PROVE  [PMap!Next]_(PMap!vars)
<1>1. ASSUME UNCHANGED vars PROVE UNCHANGED PMap!vars
  BY <1>1 DEF vars, PMap!vars
<1> QED
  BY <1>1, RefineReboot, RefineDelete, RefineAttrInit, RefineLoader, RefineOther
     DEF Next, set_internal, SetFromFirmware, PMap!Next

(* Whatever interleaving of setters, loads, factory resets and resets of   *)
(* the device happens, the file is a snapshot of the saved attributes in   *)
(* RAM taken at one moment, and attr_init brings back that snapshot.       *)
THEOREM StoreImplementsMap == Spec => ImplementsPersistentMap
<1>1. IInv /\ RInv /\ (IInv /\ RInv)' /\ [Next]_vars => [PMap!Next]_(PMap!vars)
  BY RefineNext
<1> QED
  BY <1>1, RefineInit, RestartInvariance, PTL
     DEF Spec, ImplementsPersistentMap, PMap!Spec

==============================================================================
