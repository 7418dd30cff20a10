--------------------------- MODULE AttrStoreProofs ---------------------------
(***************************************************************************)
(* Proofs about AttrStore for every table, every set of values and every   *)
(* file: type correctness and the safety properties that do not depend on  *)
(* what a restart restores.                                                *)
(***************************************************************************)
EXTENDS AttrStore, FiniteSetTheorems, TLAPS

USE DEF Flags, NotLoading, Returned, Pending, NoSave, ClearBits,
        ResetTable, MayWrite

-----------------------------------------------------------------------------
(* The inductive invariant.                                                *)

(* attr_initialized is what separates a load made by attr_init from one    *)
(* made by attr_load, and a factory reset needs it.                        *)
PhaseInv ==
    /\ load.phase = "off" => ~attr_initialized
    /\ load.phase = "idle" => attr_initialized
    /\ reset.phase # "idle" => attr_initialized

(* Bits are set between the steps of the second pass of attr_load() only,  *)
(* or by a partial load; never of an attribute that is not writable.       *)
BitsInv ==
    /\ modified \subseteq Writable
    /\ unchanged \subseteq Writable
    /\ ~attr_initialized => modified = {} /\ unchanged = {}
    /\ VALIDATE_ENTIRE_FILE /\ load.phase # "write" =>
          modified = {} /\ unchanged = {}

(* What a pass has seen of its file, and what it has written.              *)
Seen == load.src \ load.todo

LoadInv ==
    /\ load.phase \in {"validate", "write"} =>
          /\ load.todo \subseteq load.src
          /\ load.failed = (\E p \in Seen : ~PairOk(p))
    /\ load.phase # "write" => load.wrote = {}
    /\ load.phase = "write" =>
          /\ load.wrote = {p.key : p \in {q \in Seen : PairOk(q)}}
          /\ EntireFile => load.src # {} /\ \A p \in load.src : PairOk(p)

IInv == TypeOK /\ PhaseInv /\ BitsInv /\ LoadInv /\ LegalValues

-----------------------------------------------------------------------------
(* Lemmas about the operators.                                             *)

(* Every validator returns success or one of the error codes.              *)
LEMMA VerdictType ==
    ASSUME NEW i \in Ids, NEW n
    PROVE  Verdict(Table[i], n) \in Codes \cup {"ok"}
<1> DEFINE e == Table[i]
<1>1. e.validator \in Validators
  BY TableAssumption
<1>2. ASSUME NEW v PROVE range_check(e, v) \in Codes \cup {"ok"}
  BY DEF range_check, Codes
<1>3. ASSUME NEW v PROVE range_check_bool(v) \in Codes \cup {"ok"}
  BY DEF range_check_bool, Codes
<1>4. ASSUME NEW v PROVE string_check(e, v) \in Codes \cup {"ok"}
  BY DEF string_check, Codes
<1>5. ASSUME NEW v PROVE array_check(e, v) \in Codes \cup {"ok"}
  BY DEF array_check, Codes
<1> QED
  BY <1>1, <1>2, <1>3, <1>4, <1>5 DEF Verdict, Validators

(* What a pass says of a pair.                                             *)
LEMMA PairVerdictType ==
    ASSUME NEW p PROVE PairVerdict(p) \in Codes \cup {"ok"}
BY VerdictType DEF PairVerdict, Codes

(* A pair that passes has a known key, a legal value and, once attr_init   *)
(* is over, a writable attribute.                                          *)
LEMMA PairOkMeans ==
    ASSUME NEW p, PairOk(p)
    PROVE  /\ p.key \in Ids
           /\ attr_initialized => p.key \in Writable
           /\ Accepts(Table[p.key], p.val)
BY DEF PairOk, PairVerdict, Accepts

(* What an accepted write stores is a legal value.                         *)
LEMMA StoredIsLegal ==
    ASSUME NEW i \in Ids, NEW n \in Raw, Accepts(Table[i], n)
    PROVE  LET v == Stored(Table[i], n)
           IN  v \in Raw /\ Accepts(Table[i], v) /\ Stored(Table[i], v) = v
BY TableAssumption

LEMMA DefaultsAreLegal ==
    /\ Defaults \in [Ids -> Raw]
    /\ Zeroed \in [Ids -> Raw]
    /\ \A i \in Ids : /\ Accepts(Table[i], Defaults[i])
                      /\ Stored(Table[i], Defaults[i]) = Defaults[i]
BY TableAssumption DEF Defaults, Zeroed

(* A file written from RAM is a file.                                      *)
LEMMA FileOfType ==
    ASSUME NEW values \in [Ids -> Raw] PROVE FileOf(values) \in File
BY DEF FileOf, Kvp, File, Pair, Saved, Having

LEMMA SaveType ==
    ASSUME TypeOK, NEW values \in [Ids -> Raw], NEW ok \in BOOLEAN,
           save_attributes(values, ok)
    PROVE  file' \in File /\ atRisk' \in BOOLEAN
BY FileOfType DEF save_attributes, TypeOK

-----------------------------------------------------------------------------
(* The parts of the invariant that a step leaves alone.                    *)

LEMMA PhaseUnchanged ==
    ASSUME PhaseInv, UNCHANGED <<load, reset, attr_initialized>>
    PROVE  PhaseInv'
BY DEF PhaseInv

LEMMA BitsUnchanged ==
    ASSUME BitsInv, UNCHANGED <<load, modified, unchanged, attr_initialized>>
    PROVE  BitsInv'
BY DEF BitsInv, Writable, Having

LEMMA LoadUnchanged ==
    ASSUME LoadInv, UNCHANGED <<load, attr_initialized>>
    PROVE  LoadInv'
BY DEF LoadInv, Seen, PairOk, PairVerdict, EntireFile

(* What a pass makes of a pair depends on the phase of the device only.    *)
LEMMA PairOkUnchanged ==
    ASSUME NEW q, UNCHANGED attr_initialized
    PROVE  PairOk(q)' <=> PairOk(q)
BY DEF PairOk, PairVerdict, Writable, Having

(* Whatever a load was about, nothing is left of it outside a load.        *)
LEMMA NotLoadingInv ==
    ASSUME NEW phase \in {"off", "idle"}, load' = NotLoading(phase)
    PROVE  LoadInv'
BY DEF LoadInv

-----------------------------------------------------------------------------
(* One lemma per action.                                                   *)

LEMMA InitIInv == ASSUME Init PROVE IInv
<1>1. TypeOK
  BY FileAssumption, DefaultsAreLegal DEF Init, TypeOK
<1>2. PhaseInv /\ BitsInv /\ LoadInv /\ LegalValues
  BY DEF Init, PhaseInv, BitsInv, LoadInv, LegalValues
<1> QED
  BY <1>1, <1>2 DEF IInv

LEMMA WriteSingleIInv ==
    ASSUME IInv, NEW i \in Ids, NEW n \in Raw, WriteSingle(i, n)
    PROVE  IInv'
<1> USE DEF WriteSingle
<1>1. ram' \in [Ids -> Raw] /\ LegalValues'
  BY StoredIsLegal DEF IInv, TypeOK, MutexFree, LegalValues
<1>2. TypeOK'
  <2>1. PICK ok \in BOOLEAN :
           /\ IF ModifiedBit(i, n) /\ i \in Saved
              THEN save_attributes(ram', ok)
              ELSE ok /\ NoSave
           /\ done' = Returned("set", ok, ModifiedBit(i, n))
    OBVIOUS
  <2>2. file' \in File /\ atRisk' \in BOOLEAN
    BY <1>1, <2>1, SaveType DEF IInv, TypeOK
  <2>3. ModifiedBit(i, n) \in BOOLEAN
    BY DEF ModifiedBit, Modifies
  <2> QED
    BY <1>1, <2>1, <2>2, <2>3 DEF IInv, TypeOK
<1>3. BitsInv'
  BY DEF IInv, BitsInv, MutexFree
<1> QED
  BY <1>1, <1>2, <1>3, PhaseUnchanged, LoadUnchanged DEF IInv

LEMMA SetRefusedIInv ==
    ASSUME IInv, NEW i \in Ids, NEW n \in Raw, NEW sameType \in BOOLEAN,
           SetRefused(i, n, sameType)
    PROVE  IInv'
<1> USE DEF SetRefused
<1>1. TypeOK' /\ LegalValues'
  BY DEF IInv, TypeOK, LegalValues
<1> QED
  BY <1>1, PhaseUnchanged, BitsUnchanged, LoadUnchanged DEF IInv

LEMMA AttrInitIInv == ASSUME IInv, attr_init PROVE IInv'
<1>1. /\ ram' = Defaults
      /\ ~attr_initialized
      /\ UNCHANGED <<file, modified, unchanged, reset, atRisk>>
  BY DEF attr_init, IInv, PhaseInv
<1>2. LegalValues' /\ BitsInv'
  BY <1>1, DefaultsAreLegal DEF LegalValues, IInv, BitsInv, attr_init, StartLoad
<1>3. CASE file.state = "kvp"
  <2>1. /\ load' = [phase |-> "validate", src |-> file.pairs,
                    todo |-> file.pairs, failed |-> FALSE, wrote |-> {}]
        /\ feedback' = {}
        /\ done' = Pending
        /\ UNCHANGED attr_initialized
    BY <1>1, <1>3 DEF attr_init, StartLoad
  <2>2. file.pairs \subseteq Pair
    BY DEF IInv, TypeOK, File
  <2>3. TypeOK'
    BY <1>1, <2>1, <2>2, DefaultsAreLegal DEF IInv, TypeOK
  <2>4. PhaseInv' /\ LoadInv'
    BY <1>1, <2>1 DEF IInv, PhaseInv, LoadInv, Seen
  <2> QED
    BY <1>2, <2>3, <2>4 DEF IInv
<1>4. CASE file.state # "kvp"
  <2>1. /\ attr_initialized'
        /\ attr_initialized' \in BOOLEAN
        /\ load' = NotLoading("idle")
        /\ feedback' \in {feedback, Unable}
        /\ \E ok \in BOOLEAN : done' = Returned("init", ok, FALSE)
    BY <1>4 DEF attr_init
  <2>2. Unable \subseteq [key : Ids \cup {UnknownKey}, code : Codes]
    BY DEF Unable, Codes
  <2>3. TypeOK'
    BY <1>1, <2>1, <2>2, DefaultsAreLegal DEF IInv, TypeOK
  <2>4. PhaseInv' /\ LoadInv'
    BY <1>1, <2>1, NotLoadingInv DEF PhaseInv
  <2> QED
    BY <1>2, <2>3, <2>4 DEF IInv
<1> QED
  BY <1>3, <1>4

LEMMA AttrLoadIInv ==
    ASSUME IInv, NEW f \in LoadFiles, attr_load(f)
    PROVE  IInv'
<1> USE DEF attr_load, StartLoad
<1>1. f.pairs \subseteq Pair
  BY FileAssumption DEF File
<1>2. TypeOK' /\ LegalValues'
  BY <1>1 DEF IInv, TypeOK, LegalValues, MutexFree
<1>3. PhaseInv' /\ BitsInv'
  BY DEF IInv, PhaseInv, BitsInv, MutexFree
<1>4. LoadInv'
  BY DEF LoadInv, Seen
<1> QED
  BY <1>2, <1>3, <1>4 DEF IInv

LEMMA LoadUnparsableIInv ==
    ASSUME IInv, NEW f \in LoadFiles, LoadUnparsable(f)
    PROVE  IInv'
<1> USE DEF LoadUnparsable
<1>1. Unable \subseteq [key : Ids \cup {UnknownKey}, code : Codes]
  BY DEF Unable, Codes
<1>2. TypeOK' /\ LegalValues'
  BY <1>1 DEF IInv, TypeOK, LegalValues
<1> QED
  BY <1>2, PhaseUnchanged, BitsUnchanged, LoadUnchanged DEF IInv

(* The first pass: what has been seen grows by p.                          *)
LEMMA ValidatePairIInv ==
    ASSUME IInv, NEW p \in load.todo, ValidatePair(p)
    PROVE  IInv'
<1> USE DEF ValidatePair
<1>1. p.key \in Ids \cup {UnknownKey}
  BY DEF IInv, TypeOK, Pair
<1>2. ~PairOk(p) => PairVerdict(p) \in Codes
  BY PairVerdictType DEF PairOk
<1>3. TypeOK'
  <2>1. \E b \in BOOLEAN :
           load' = [load EXCEPT !.todo = @ \ {p}, !.failed = b]
    BY DEF IInv, TypeOK
  <2>2. feedback' \subseteq [key : Ids \cup {UnknownKey}, code : Codes]
    BY <1>1, <1>2 DEF IInv, TypeOK
  <2> QED
    BY <2>1, <2>2 DEF IInv, TypeOK
<1>4. PhaseInv' /\ BitsInv' /\ LegalValues'
  BY DEF IInv, TypeOK, PhaseInv, BitsInv, LegalValues
<1>5. LoadInv'
  <2>1. /\ load'.phase = "validate" /\ load'.src = load.src
        /\ load'.todo = load.todo \ {p} /\ load'.wrote = {}
        /\ load'.failed = (load.failed \/ ~PairOk(p))
    BY DEF IInv, TypeOK, LoadInv
  <2>2. Seen' = Seen \cup {p}
    BY <2>1 DEF IInv, LoadInv, Seen
  <2>3. load'.failed = (\E q \in Seen' : ~PairOk(q))
    BY <2>1, <2>2 DEF IInv, LoadInv
  <2> QED
    BY <2>1, <2>3, PairOkUnchanged DEF IInv, LoadInv
<1> QED
  BY <1>3, <1>4, <1>5 DEF IInv

(* The second pass starts: if the entire file must be valid, it is.        *)
LEMMA BeginWriteIInv == ASSUME IInv, BeginWrite PROVE IInv'
<1> USE DEF BeginWrite
<1>1. TypeOK' /\ LegalValues'
  BY DEF IInv, TypeOK, LegalValues
<1>2. PhaseInv' /\ BitsInv'
  BY DEF IInv, TypeOK, PhaseInv, BitsInv
<1>3. EntireFile => load.src # {} /\ \A p \in load.src : PairOk(p)
  BY DEF IInv, TypeOK, LoadInv, Seen, PassFailed
<1>4. /\ load'.phase = "write" /\ load'.src = load.src
      /\ load'.todo = load.src /\ load'.wrote = {} /\ load'.failed = FALSE
  BY DEF IInv, TypeOK, LoadInv
<1>5. Seen' = {}
  BY <1>4 DEF Seen
<1>6. LoadInv'
  BY <1>3, <1>4, <1>5 DEF LoadInv, PairOk, PairVerdict, EntireFile
<1> QED
  BY <1>1, <1>2, <1>6 DEF IInv

(* The second pass: a pair that passes is written.                         *)
LEMMA WritePairIInv ==
    ASSUME IInv, NEW p \in load.todo, WritePair(p)
    PROVE  IInv'
<1>1. p \in Pair /\ p \in load.src /\ load.phase = "write"
  BY DEF IInv, TypeOK, LoadInv, WritePair
<1>2. CASE PairOk(p)
  <2> DEFINE i == p.key
  <2>1. i \in Ids /\ p.val \in Raw /\ Accepts(Table[i], p.val)
    BY <1>1, <1>2, PairOkMeans DEF Pair
  <2>2. attr_initialized => i \in Writable
    BY <1>2, PairOkMeans
  <2>3. /\ ram' = [ram EXCEPT ![i] = Stored(Table[i], p.val)]
        /\ load' = [load EXCEPT !.todo = @ \ {p}, !.wrote = @ \cup {i}]
        /\ modified' \in {modified \cup {i}, modified \ {i}}
        /\ unchanged' \in {unchanged \cup {i}, unchanged \ {i}}
        /\ ~attr_initialized => /\ modified' = modified \ {i}
                                /\ unchanged' = unchanged \ {i}
        /\ UNCHANGED <<file, attr_initialized, reset, feedback, done, atRisk>>
    BY <1>2 DEF WritePair
  <2>4. ram' \in [Ids -> Raw] /\ LegalValues'
    BY <1>1, <2>1, <2>3, StoredIsLegal DEF IInv, TypeOK, LegalValues
  <2>5. TypeOK'
    BY <2>1, <2>3, <2>4 DEF IInv, TypeOK
  <2>6. PhaseInv' /\ BitsInv'
    BY <1>1, <2>2, <2>3 DEF IInv, TypeOK, PhaseInv, BitsInv, Writable, Having
  <2>7. LoadInv'
    <3>1. /\ load'.phase = "write" /\ load'.src = load.src
          /\ load'.todo = load.todo \ {p} /\ load'.failed = load.failed
          /\ load'.wrote = load.wrote \cup {p.key}
      BY <1>1, <2>3 DEF IInv, TypeOK
    <3>2. Seen' = Seen \cup {p}
      BY <1>1, <3>1 DEF Seen
    <3>3. load'.failed = (\E q \in Seen' : ~PairOk(q))
      BY <1>1, <1>2, <3>1, <3>2 DEF IInv, LoadInv
    <3>4. load'.wrote = {q.key : q \in {r \in Seen' : PairOk(r)}}
      BY <1>1, <1>2, <3>1, <3>2 DEF IInv, LoadInv
    <3> QED
      BY <1>1, <2>3, <3>1, <3>3, <3>4, PairOkUnchanged
         DEF IInv, LoadInv, EntireFile
  <2> QED
    BY <2>4, <2>5, <2>6, <2>7 DEF IInv
<1>3. CASE ~PairOk(p)
  <2>1. /\ load' = [load EXCEPT !.todo = @ \ {p}, !.failed = TRUE]
        /\ UNCHANGED <<ram, modified, unchanged, file, attr_initialized,
                       reset, feedback, done, atRisk>>
    BY <1>3 DEF WritePair
  <2>2. TypeOK'
    BY <1>1, <2>1 DEF IInv, TypeOK
  <2>3. LegalValues' /\ PhaseInv' /\ BitsInv'
    BY <1>1, <2>1
       DEF IInv, TypeOK, LegalValues, PhaseInv, BitsInv, Writable, Having
  <2>4. LoadInv'
    BY <1>1, <1>3, <2>1
       DEF IInv, TypeOK, LoadInv, Seen, PairOk, PairVerdict, EntireFile
  <2> QED
    BY <2>2, <2>3, <2>4 DEF IInv
<1> QED
  BY <1>2, <1>3

(* What an error leaves of the bits: none if the entire file must be valid.*)
LEMMA RejectedBits ==
    ASSUME IInv, LoadError, attr_initialized, VALIDATE_ENTIRE_FILE
    PROVE  modified = {} /\ unchanged = {}
<1>1. EntireFile
  BY DEF EntireFile
<1>2. load.phase # "write"
  <2> SUFFICES ASSUME load.phase = "write" PROVE FALSE
    OBVIOUS
  <2>1. load.src # {} /\ Seen = load.src /\ load.failed = FALSE
    BY <1>1 DEF IInv, LoadInv, LoadError, Seen
  <2> QED
    BY <2>1 DEF LoadError, PassFailed
<1> QED
  BY <1>2 DEF IInv, BitsInv

LEMMA FinishInitIInv == ASSUME IInv, FinishInit PROVE IInv'
<1> USE DEF FinishInit
<1>1. TypeOK'
  <2>1. \E ok \in BOOLEAN : done' = Returned("init", ok, FALSE)
    BY DEF LoadOk
  <2> QED
    BY <2>1 DEF IInv, TypeOK
<1>2. LegalValues'
  BY DEF IInv, LegalValues, LoadError, LoadOk
<1>3. PhaseInv' /\ BitsInv'
  BY DEF IInv, TypeOK, PhaseInv, BitsInv
<1>4. LoadInv'
  BY NotLoadingInv
<1> QED
  BY <1>1, <1>2, <1>3, <1>4 DEF IInv

LEMMA RejectLoadIInv == ASSUME IInv, RejectLoad PROVE IInv'
<1> USE DEF RejectLoad
<1>1. TypeOK'
  <2>1. atRisk' \in BOOLEAN
    BY DEF IInv, TypeOK
  <2> QED
    BY <2>1 DEF IInv, TypeOK
<1>2. LegalValues' /\ PhaseInv'
  BY DEF IInv, LegalValues, PhaseInv, LoadError
<1>3. BitsInv'
  BY RejectedBits DEF IInv, BitsInv, Writable, Having
<1>4. LoadInv'
  BY NotLoadingInv
<1> QED
  BY <1>1, <1>2, <1>3, <1>4 DEF IInv

LEMMA FinishLoadIInv == ASSUME IInv, FinishLoad PROVE IInv'
<1> USE DEF FinishLoad
<1>1. TypeOK'
  <2>1. PICK ok \in BOOLEAN : /\ save_attributes(ram, ok)
                              /\ done' = Returned("load", ok, modified # {})
    OBVIOUS
  <2>2. file' \in File /\ atRisk' \in BOOLEAN
    BY <2>1, SaveType DEF IInv, TypeOK
  <2>3. (modified # {}) \in BOOLEAN
    OBVIOUS
  <2> QED
    BY <2>1, <2>2, <2>3 DEF IInv, TypeOK
<1>2. LegalValues' /\ PhaseInv' /\ BitsInv'
  BY DEF IInv, LegalValues, PhaseInv, BitsInv, LoadOk, Writable, Having
<1>3. LoadInv'
  BY NotLoadingInv
<1> QED
  BY <1>1, <1>2, <1>3 DEF IInv

(* A default is legal whenever it is copied.                               *)
LEMMA AttrDefaultIInv ==
    ASSUME IInv, NEW i \in Ids, attr_default(i)
    PROVE  IInv'
<1> USE DEF attr_default
<1>1. ram' \in [Ids -> Raw] /\ LegalValues'
  BY TableAssumption DEF IInv, TypeOK, LegalValues
<1>2. TypeOK'
  BY <1>1 DEF IInv, TypeOK
<1> QED
  BY <1>1, <1>2, PhaseUnchanged, BitsUnchanged, LoadUnchanged DEF IInv

LEMMA AttrDeleteIInv == ASSUME IInv, attr_delete PROVE IInv'
<1> USE DEF attr_delete
<1>1. TypeOK' /\ LegalValues'
  BY DEF IInv, TypeOK, LegalValues, NoFile, File
<1> QED
  BY <1>1, PhaseUnchanged, BitsUnchanged, LoadUnchanged DEF IInv

LEMMA AttrFactoryResetIInv == ASSUME IInv, attr_factory_reset PROVE IInv'
<1> USE DEF attr_factory_reset
<1>1. TypeOK' /\ LegalValues' /\ PhaseInv'
  BY DEF IInv, TypeOK, LegalValues, PhaseInv
<1> QED
  BY <1>1, BitsUnchanged, LoadUnchanged DEF IInv

LEMMA ResetEntryIInv ==
    ASSUME IInv, NEW i \in reset.todo, ResetEntry(i)
    PROVE  IInv'
<1> USE DEF ResetEntry
<1>1. i \in Ids
  BY DEF IInv, TypeOK
<1>2. ram' \in [Ids -> Raw] /\ LegalValues'
  BY <1>1, TableAssumption DEF IInv, TypeOK, LegalValues
<1>3. TypeOK' /\ PhaseInv'
  BY <1>2 DEF IInv, TypeOK, PhaseInv
<1> QED
  BY <1>2, <1>3, BitsUnchanged, LoadUnchanged DEF IInv

LEMMA FinishResetIInv == ASSUME IInv, FinishReset PROVE IInv'
<1> USE DEF FinishReset
<1>1. TypeOK'
  <2>1. PICK ok \in BOOLEAN :
           /\ save_attributes(ram, ok)
           /\ done' = Returned("factory_reset", ok, FALSE)
    OBVIOUS
  <2>2. file' \in File /\ atRisk' \in BOOLEAN
    BY <2>1, SaveType DEF IInv, TypeOK
  <2> QED
    BY <2>1, <2>2 DEF IInv, TypeOK
<1>2. LegalValues' /\ PhaseInv'
  BY DEF IInv, LegalValues, PhaseInv
<1> QED
  BY <1>1, <1>2, BitsUnchanged, LoadUnchanged DEF IInv

LEMMA RebootIInv == ASSUME IInv, Reboot PROVE IInv'
<1> USE DEF Reboot
<1>1. TypeOK'
  BY DefaultsAreLegal DEF IInv, TypeOK
<1>2. LegalValues' /\ PhaseInv' /\ BitsInv'
  BY DEF LegalValues, PhaseInv, BitsInv
<1>3. LoadInv'
  BY NotLoadingInv
<1> QED
  BY <1>1, <1>2, <1>3 DEF IInv

LEMMA StutterIInv == ASSUME IInv, UNCHANGED vars PROVE IInv'
<1> USE DEF vars
<1>1. TypeOK' /\ LegalValues'
  BY DEF IInv, TypeOK, LegalValues
<1> QED
  BY <1>1, PhaseUnchanged, BitsUnchanged, LoadUnchanged DEF IInv

LEMMA NextIInv == ASSUME IInv, [Next]_vars PROVE IInv'
<1>1. ASSUME NEW i \in Ids, NEW n \in Raw, set_internal(i, n) \/ SetFromFirmware(i, n)
      PROVE  IInv'
  BY <1>1, WriteSingleIInv DEF set_internal, SetFromFirmware
<1>2. ASSUME NEW i \in Ids, NEW n \in Raw, NEW sameType \in BOOLEAN,
             SetRefused(i, n, sameType)
      PROVE  IInv'
  BY <1>2, SetRefusedIInv
<1>3. ASSUME NEW f \in LoadFiles, attr_load(f) \/ LoadUnparsable(f)
      PROVE  IInv'
  BY <1>3, AttrLoadIInv, LoadUnparsableIInv
<1>4. ASSUME LoaderStep PROVE IInv'
  BY <1>4, ValidatePairIInv, BeginWriteIInv, WritePairIInv, FinishInitIInv,
     RejectLoadIInv, FinishLoadIInv DEF LoaderStep
<1>5. ASSUME ResetStep PROVE IInv'
  BY <1>5, ResetEntryIInv, FinishResetIInv DEF ResetStep
<1> QED
  BY <1>1, <1>2, <1>3, <1>4, <1>5, AttrInitIInv, AttrDefaultIInv,
     AttrDeleteIInv, AttrFactoryResetIInv, RebootIInv, StutterIInv DEF Next

-----------------------------------------------------------------------------
(* The theorems.                                                           *)

(* The invariant holds in every reachable state, for every table.          *)
THEOREM Invariance == Spec => []IInv
BY InitIInv, NextIInv, PTL DEF Spec

(* Type correctness of the store.                                          *)
THEOREM TypeCorrect == Spec => []TypeOK
BY Invariance, PTL DEF IInv

(* Every value in RAM passes its own validator, whatever interleaving of   *)
(* setters, files, defaults and a factory reset put it there.              *)
THEOREM ValuesAreLegal == Spec => []LegalValues
BY Invariance, PTL DEF IInv

(* In a build that validates entire files, no operation leaves a modified  *)
(* or an unchanged bit behind for a later one to report.                   *)
THEOREM BitsArePrivate == Spec => []NoStaleBits
<1>1. IInv => NoStaleBits
  BY DEF IInv, BitsInv, NoStaleBits, MutexFree
<1> QED
  BY <1>1, Invariance, PTL

(* A file of which the entire content must be valid is written as a whole  *)
(* or not at all: the second pass accepts what the first one accepted.     *)
THEOREM FilesAreAtomic == Spec => []AllOrNothing
<1>1. ASSUME IInv PROVE AllOrNothing
  <2> USE <1>1
  <2>1. ASSUME EntireFile, LoadError PROVE load.wrote = {}
    <3>1. CASE load.phase = "validate"
      BY <3>1 DEF IInv, LoadInv
    <3>2. CASE load.phase = "write"
      <4>1. load.src # {} /\ Seen = load.src /\ load.failed = FALSE
        BY <2>1, <3>2 DEF IInv, LoadInv, LoadError, Seen
      <4> QED
        BY <2>1, <4>1 DEF LoadError, PassFailed
    <3> QED
      BY <2>1, <3>1, <3>2 DEF LoadError
  <2>2. ASSUME LoadOk PROVE load.wrote = {p.key : p \in load.src}
    <3>1. Seen = load.src /\ \A p \in load.src : PairOk(p)
      BY <2>2 DEF IInv, LoadInv, LoadOk, PassFailed, Seen
    <3> QED
      BY <2>2, <3>1 DEF IInv, LoadInv, LoadOk
  <2> QED
    BY <2>1, <2>2 DEF AllOrNothing
<1> QED
  BY <1>1, Invariance, PTL

(* The message of change_multiple() always has room for the ids it is      *)
(* given: only writable attributes ever have their bits set when it runs.  *)
THEOREM BroadcastHasRoom == Spec => []BroadcastFits
<1>1. ASSUME IInv PROVE BroadcastFits
  <2>1. IsFiniteSet(Writable)
    BY TableAssumption, FS_Subset DEF Writable, Having
  <2>2. (modified \cup unchanged) \cap Having("FLAGS_BROADCAST") \subseteq Writable
    BY <1>1 DEF IInv, BitsInv
  <2> QED
    BY <2>1, <2>2, FS_Subset DEF BroadcastFits
<1> QED
  BY <1>1, Invariance, PTL

(* Once attr_init is over, no step of a load changes an attribute that is  *)
(* not writable.                                                           *)
THEOREM ReadOnlyStays == Spec => FilesRespectWritable
<1>1. ASSUME LoaderStep, attr_initialized, NEW i \in Ids \ Writable, IInv
      PROVE  ram'[i] = ram[i]
  <2>1. ASSUME NEW p \in load.todo, WritePair(p) PROVE ram'[i] = ram[i]
    <3>1. CASE PairOk(p)
      <4>1. p.key \in Writable
        BY <1>1, <3>1, PairOkMeans
      <4> QED
        BY <1>1, <2>1, <3>1, <4>1 DEF WritePair, IInv, TypeOK
    <3>2. CASE ~PairOk(p)
      BY <2>1, <3>2 DEF WritePair
    <3> QED
      BY <3>1, <3>2
  <2> QED
    BY <1>1, <2>1
       DEF LoaderStep, ValidatePair, BeginWrite, FinishInit, RejectLoad, FinishLoad
<1>2. IInv /\ [Next]_vars =>
         [LoaderStep /\ attr_initialized =>
             \A i \in Ids \ Writable : ram'[i] = ram[i]]_vars
  BY <1>1
<1> QED
  BY <1>2, Invariance, PTL DEF Spec, FilesRespectWritable

-----------------------------------------------------------------------------
(* The feedback file, with what the pass under way has complained of.      *)
Complained ==
    load.phase \in {"validate", "write"} /\ feedback # {} =>
        \E p \in load.src : ~PairOk(p)

FInv == Complained /\ FeedbackAgrees

LEMMA ComplainedStays ==
    ASSUME Complained, UNCHANGED <<attr_initialized, feedback>>,
           load'.phase \in {"validate", "write"} =>
               load.phase \in {"validate", "write"} /\ load'.src = load.src
    PROVE  Complained'
BY PairOkUnchanged DEF Complained

(* The operations that report something else than the end of a load.       *)
LEMMA OtherReportFInv ==
    ASSUME FInv, UNCHANGED <<attr_initialized, feedback, load>>, done'.op # "load"
    PROVE  FInv'
BY ComplainedStays DEF FInv, FeedbackAgrees

(* Those that report nothing at all.                                       *)
LEMMA NoReportFInv ==
    ASSUME FInv, UNCHANGED <<attr_initialized, feedback, load, done>>
    PROVE  FInv'
BY ComplainedStays DEF FInv, FeedbackAgrees

LEMMA LoaderFInv == ASSUME IInv, FInv, LoaderStep PROVE FInv'
<1>1. ASSUME NEW p \in load.todo, ValidatePair(p) PROVE FInv'
  <2>1. /\ load.phase = "validate" /\ load'.phase = "validate" /\ load'.src = load.src
        /\ p \in load.src
        /\ UNCHANGED <<attr_initialized, done>>
    BY <1>1 DEF ValidatePair, IInv, TypeOK, LoadInv
  <2>2. PairOk(p) => feedback' = feedback
    BY <1>1 DEF ValidatePair
  <2>3. Complained'
    BY <2>1, <2>2, PairOkUnchanged DEF FInv, Complained
  <2> QED
    BY <2>1, <2>3 DEF FInv, FeedbackAgrees
<1>2. CASE BeginWrite
  <2>1. /\ load.phase = "validate" /\ load'.phase = "write" /\ load'.src = load.src
        /\ UNCHANGED <<attr_initialized, feedback, done>>
    BY <1>2 DEF BeginWrite, IInv, TypeOK
  <2> QED
    BY <2>1, ComplainedStays DEF FInv, FeedbackAgrees
<1>3. ASSUME NEW p \in load.todo, WritePair(p) PROVE FInv'
  <2>1. /\ load.phase = "write" /\ load'.phase = "write" /\ load'.src = load.src
        /\ UNCHANGED <<attr_initialized, feedback, done>>
    BY <1>3 DEF WritePair, IInv, TypeOK
  <2> QED
    BY <2>1, ComplainedStays DEF FInv, FeedbackAgrees
<1>4. CASE FinishInit
  BY <1>4 DEF FinishInit, FInv, Complained, FeedbackAgrees
<1>5. CASE RejectLoad
  BY <1>5 DEF RejectLoad, FInv, Complained, FeedbackAgrees
<1>6. CASE FinishLoad
  <2>1. load.phase = "write" /\ \A p \in load.src : PairOk(p)
    BY <1>6 DEF FinishLoad, LoadOk, PassFailed, IInv, LoadInv, Seen
  <2>2. feedback = {} /\ UNCHANGED feedback
    BY <1>6, <2>1 DEF FInv, Complained, FinishLoad
  <2> QED
    BY <1>6, <2>2 DEF FinishLoad, FInv, Complained, FeedbackAgrees
<1> QED
  BY <1>1, <1>2, <1>3, <1>4, <1>5, <1>6 DEF LoaderStep

LEMMA NextFInv == ASSUME IInv, FInv, [Next]_vars PROVE FInv'
<1>1. ASSUME NEW i \in Ids, NEW n \in Raw,
             set_internal(i, n) \/ SetFromFirmware(i, n)
                \/ \E sameType \in BOOLEAN : SetRefused(i, n, sameType)
      PROVE  FInv'
  <2>1. UNCHANGED <<attr_initialized, feedback, load>> /\ done'.op # "load"
    BY <1>1 DEF set_internal, SetFromFirmware, WriteSingle, SetRefused
  <2> QED
    BY <2>1, OtherReportFInv
<1>2. CASE attr_init
  <2>1. load.phase = "off" /\ done'.op # "load"
    BY <1>2 DEF attr_init, StartLoad
  <2>2. load'.phase \in {"validate", "write"} => feedback' = {}
    BY <1>2 DEF attr_init, StartLoad
  <2> QED
    BY <2>1, <2>2 DEF FInv, Complained, FeedbackAgrees
<1>3. ASSUME NEW f \in LoadFiles, attr_load(f) PROVE FInv'
  BY <1>3 DEF attr_load, StartLoad, FInv, Complained, FeedbackAgrees
<1>4. ASSUME NEW f \in LoadFiles, LoadUnparsable(f) PROVE FInv'
  BY <1>4 DEF LoadUnparsable, MutexFree, FInv, Complained, FeedbackAgrees
<1>5. ASSUME NEW i \in Ids, attr_default(i) PROVE FInv'
  BY <1>5, OtherReportFInv DEF attr_default
<1>6. CASE attr_delete \/ attr_factory_reset
  BY <1>6, NoReportFInv DEF attr_delete, attr_factory_reset
<1>7. ASSUME NEW i \in reset.todo, ResetEntry(i) PROVE FInv'
  BY <1>7, NoReportFInv DEF ResetEntry
<1>8. CASE FinishReset
  <2>1. UNCHANGED <<attr_initialized, feedback, load>> /\ done'.op # "load"
    BY <1>8 DEF FinishReset
  <2> QED
    BY <2>1, OtherReportFInv
<1>9. CASE Reboot
  BY <1>9 DEF Reboot, FInv, Complained, FeedbackAgrees
<1>10. CASE UNCHANGED vars
  BY <1>10, NoReportFInv DEF vars
<1> QED
  BY <1>1, <1>2, <1>3, <1>4, <1>5, <1>6, <1>7, <1>8, <1>9, <1>10, LoaderFInv
     DEF Next, ResetStep

(* A load that reports success has left no complaint in the feedback file: *)
(* the second pass never overlooks what the first one refused.             *)
THEOREM FeedbackIsTrue == Spec => []FeedbackAgrees
<1>1. Init => FInv
  BY DEF Init, FInv, Complained, FeedbackAgrees
<1>2. IInv /\ FInv /\ [Next]_vars => FInv'
  BY NextFInv
<1>3. FInv => FeedbackAgrees
  BY DEF FInv
<1> QED
  BY <1>1, <1>2, <1>3, Invariance, PTL DEF Spec
==============================================================================
