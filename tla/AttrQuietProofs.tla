--------------------------- MODULE AttrQuietProofs ---------------------------
(***************************************************************************)
(* Proofs about AttrQuiet: the files follow the list, and a boot restores  *)
(* it. The promise that is carried over a power failure is split by the    *)
(* step of the boot it is in.                                              *)
(***************************************************************************)
EXTENDS AttrQuiet, TLAPS

(* A file has the bits of its words, and the CRC of some older table.      *)
ShapeInv ==
    /\ \A a \in bin.list : Word[a] <= bin.words
    /\ crc <= table

(* The files of a boot or a run whose last write succeeded.                *)
FilesInv ==
    /\ (step = "read_bin" /\ synced /\ Idle) => quiet \in {{}, InFile(bin)}
    /\ (step \in {"read_crc", "write_crc", "up"} /\ synced /\ Idle) =>
           quiet = InFile(bin)
    /\ (step = "up" /\ synced) => crc = table \/ outgrown

(* Nobody has called before the boot has reached this step.                *)
Undisturbed == step = "off" \/ (step \in BootSteps /\ expected.known)

QuietBoot == Undisturbed => Idle

(* The files are still those the last run has left: they are accepted,     *)
(* or too short, or name an older table, or there is nothing to clear.     *)
FilesAsLeft ==
    /\ bin.words = expected.words
    /\ bin.list = expected.list
    /\ crc <= expected.table
    /\ expected.table = table =>
           \/ bin.words < Words[table]
           \/ crc = table
           \/ bin.list \cap FirstWord = {}

(* What the boot does with a list it has to restore.                       *)
PromiseInv ==
    (expected.known /\ (step = "off" \/ (step \in BootSteps /\ synced))) =>
        /\ expected.table <= table
        /\ step = "read_bin" => quiet = {}
        /\ step # "write_crc" => FilesAsLeft
        /\ step = "read_crc" => quiet = InFile(expected)
                                /\ bin.words >= Words[table]
        /\ step = "clear" => /\ quiet = InFile(expected)
                             /\ Kept => quiet \cap FirstWord = {}
        /\ step \in {"write_bin", "write_crc"} =>
               /\ quiet \cap FirstWord = {}
               /\ Kept => quiet = InFile(expected)
        /\ step = "write_crc" => bin = File(Words[table], quiet)

QInv == TypeOK /\ ShapeInv /\ FilesInv /\ QuietBoot /\ PromiseInv

-----------------------------------------------------------------------------
LEMMA QuietInit == Init => QInv
  <1> SUFFICES ASSUME Init PROVE QInv
    OBVIOUS
  <1> USE QuietAssumption DEF QuietAssumption
  <1>1. TypeOK
    BY DEF Init, TypeOK, Left, NoFile, File, Files, Promises, NoCall, Kinds
  <1>2. ShapeInv
    BY DEF Init, ShapeInv, NoFile, File
  <1>3. FilesInv /\ QuietBoot
    BY DEF Init, FilesInv, QuietBoot, Idle
  <1>4. PromiseInv
    <2>1. 0 < Words[1]
      OBVIOUS
    <2> QED
      BY <2>1 DEF Init, PromiseInv, FilesAsLeft, Left, NoFile, File
  <1> QED
    BY <1>1, <1>2, <1>3, <1>4 DEF QInv

(* What Spend leaves is a natural number.                                  *)
LEMMA SpendType ==
  ASSUME left \in [Kinds -> Nat], NEW k \in Kinds, Spend(k)
  PROVE  left' \in [Kinds -> Nat]
  BY DEF Spend

(* A list that is written makes a file, which holds it.                    *)
LEMMA Written ==
  ASSUME TypeOK
  PROVE  /\ File(Words[table], quiet) \in Files
         /\ \A a \in quiet : Word[a] <= Words[table]
         /\ InFile(File(Words[table], quiet)) = quiet
  BY QuietAssumption
  DEF QuietAssumption, TypeOK, File, Files, InFile, InTable

(* What is read over an empty list, or over the list that was written.     *)
LEMMA ListReadOver ==
  ASSUME quiet \in {{}, InFile(bin)}
  PROVE  ListRead = InFile(bin)
  BY DEF ListRead

LEMMA ListReadType == TypeOK => ListRead \subseteq InTable
  BY DEF TypeOK, ListRead, InFile, InTable

LEMMA PromiseType ==
  ASSUME TypeOK
  PROVE  Promise \in Promises
  <1> USE QuietAssumption DEF QuietAssumption, TypeOK
  <1>1. Unknown \in Promises /\ expected \in Promises
    BY DEF Unknown, Promises
  <1>2. Left(bin) \in Promises /\ Left(File(bin.words, quiet)) \in Promises
    BY DEF Left, File, Files, Promises, InTable
  <1> QED
    BY <1>1, <1>2 DEF Promise

LEMMA TypeStep == TypeOK /\ [Next]_vars => TypeOK'
  <1> SUFFICES ASSUME TypeOK, [Next]_vars PROVE TypeOK'
    OBVIOUS
  <1> USE QuietAssumption DEF QuietAssumption, TypeOK, InTable
  <1>0. ASSUME UNCHANGED vars PROVE TypeOK'
    BY <1>0 DEF vars
  <1>1. ASSUME PowerOn PROVE TypeOK'
    BY <1>1 DEF PowerOn, BootSteps
  <1>2. ASSUME ReadList PROVE TypeOK'
    <2>1. ListRead \subseteq InTable
      BY ListReadType
    <2> QED
      BY <1>2, <2>1 DEF ReadList, BootSteps, Short
  <1>3. ASSUME ReadCrc PROVE TypeOK'
    BY <1>3 DEF ReadCrc, BootSteps
  <1>4. ASSUME ClearList PROVE TypeOK'
    BY <1>4 DEF ClearList, BootSteps
  <1>5. ASSUME WriteList PROVE TypeOK'
    <2>1. bin' \in Files
      BY <1>5, Written DEF WriteList, ListWritten, ListNotWritten
    <2>2. left' \in [Kinds -> Nat]
      BY <1>5, SpendType
      DEF WriteList, ListWritten, ListNotWritten, Kinds
    <2> QED
      BY <1>5, <2>1, <2>2 DEF WriteList, BootSteps
  <1>6. ASSUME WriteCrc PROVE TypeOK'
    <2>1. left' \in [Kinds -> Nat]
      BY <1>6, SpendType DEF WriteCrc, Kinds
    <2> QED
      BY <1>6, <2>1 DEF WriteCrc
  <1>7. ASSUME NEW t \in Threads, SetQuiet(t) PROVE TypeOK'
    <2>1. left' \in [Kinds -> Nat]
      BY <1>7, SpendType DEF SetQuiet, Kinds
    <2>2. PICK a \in InTable, on \in BOOLEAN :
            IF (a \in quiet) # on
            THEN /\ quiet' = IF on THEN quiet \cup {a} ELSE quiet \ {a}
                 /\ writing' = [writing EXCEPT ![t] = Call(Counted(a), on)]
                 /\ asked' = Asked(a, "unknown")
            ELSE /\ asked' = Asked(a, Setting(on))
                 /\ UNCHANGED <<quiet, writing>>
      BY <1>7 DEF SetQuiet
    <2>3. Call(Counted(a), on)
            \in [busy : BOOLEAN, id : SUBSET Attributes, on : BOOLEAN]
      BY DEF Call, Counted
    <2>4. /\ Asked(a, "unknown") \in [Attributes -> {"unknown", "quiet", "shown"}]
          /\ Asked(a, Setting(on)) \in [Attributes -> {"unknown", "quiet", "shown"}]
      BY DEF Asked, Setting
    <2>5. quiet' \subseteq InTable
      BY <2>2
    <2>6. writing' \in [Threads -> [busy : BOOLEAN, id : SUBSET Attributes,
                                    on : BOOLEAN]]
      BY <2>2, <2>3
    <2>7. asked' \in [Attributes -> {"unknown", "quiet", "shown"}]
      BY <2>2, <2>4
    <2>8. expected' \in Promises
      BY <1>7 DEF SetQuiet, Unknown, Promises
    <2> QED
      BY <1>7, <2>1, <2>5, <2>6, <2>7, <2>8 DEF SetQuiet
  <1>8. ASSUME NEW t \in Threads, QuietWritten(t) PROVE TypeOK'
    <2>1. bin' \in Files
      BY <1>8, Written DEF QuietWritten, ListWritten, ListNotWritten
    <2>2. left' \in [Kinds -> Nat]
      BY <1>8, SpendType
      DEF QuietWritten, ListWritten, ListNotWritten, Kinds
    <2>3. asked' \in [Attributes -> {"unknown", "quiet", "shown"}]
      BY <1>8 DEF QuietWritten, Setting
    <2>4. writing' \in [Threads -> [busy : BOOLEAN, id : SUBSET Attributes,
                                    on : BOOLEAN]]
      BY <1>8 DEF QuietWritten, NoCall
    <2>5. synced' \in BOOLEAN
      BY <1>8 DEF QuietWritten
    <2> QED
      BY <1>8, <2>1, <2>2, <2>3, <2>4, <2>5 DEF QuietWritten
  <1>9. ASSUME DeleteList PROVE TypeOK'
    <2>1. left' \in [Kinds -> Nat]
      BY <1>9, SpendType DEF DeleteList, Kinds
    <2> QED
      BY <1>9, <2>1 DEF DeleteList, Files, File, NoFile
  <1>10. ASSUME DeleteCrc PROVE TypeOK'
    BY <1>10 DEF DeleteCrc
  <1>11. ASSUME Crash PROVE TypeOK'
    <2>1. left' \in [Kinds -> Nat]
      BY <1>11, SpendType DEF Crash, Kinds
    <2>2. expected' \in Promises
      BY <1>11, PromiseType DEF Crash
    <2> QED
      BY <1>11, <2>1, <2>2 DEF Crash, NoCall
  <1>12. ASSUME Update PROVE TypeOK'
    BY <1>12 DEF Update
  <1> QED
    BY <1>0, <1>1, <1>2, <1>3, <1>4, <1>5, <1>6, <1>7, <1>8, <1>9, <1>10, <1>11,
       <1>12
    DEF Next, Boot
LEMMA ShapeStep == QInv /\ [Next]_vars => ShapeInv'
  <1> SUFFICES ASSUME QInv, [Next]_vars PROVE ShapeInv'
    OBVIOUS
  <1> USE DEF QInv, ShapeInv
  <1>1. ASSUME ListWritten PROVE \A a \in bin'.list : Word[a] <= bin'.words
    BY <1>1, Written DEF ListWritten, File
  <1>2. CASE WriteList
    BY <1>1, <1>2 DEF WriteList, ListNotWritten
  <1>3. CASE WriteCrc
    BY <1>3, QuietAssumption DEF WriteCrc, QuietAssumption, TypeOK
  <1>4. ASSUME NEW t \in Threads, QuietWritten(t) PROVE ShapeInv'
    BY <1>1, <1>4 DEF QuietWritten, ListNotWritten
  <1>5. CASE DeleteList
    BY <1>5 DEF DeleteList, NoFile, File
  <1>6. CASE DeleteCrc
    BY <1>6, QuietAssumption DEF DeleteCrc, QuietAssumption, TypeOK
  <1>7. CASE Update
    BY <1>7, QuietAssumption DEF Update, QuietAssumption, TypeOK
  <1>8. ASSUME UNCHANGED <<bin, crc, table>> PROVE ShapeInv'
    BY <1>8
  <1> QED
    BY <1>2, <1>3, <1>4, <1>5, <1>6, <1>7, <1>8
    DEF Next, Boot, PowerOn, ReadList, ReadCrc, ClearList, SetQuiet, Crash, vars

(* A call that is begun is open.                                           *)
LEMMA BegunIsOpen ==
  ASSUME TypeOK, NEW t \in Threads, SetQuiet(t), Idle'
  PROVE  UNCHANGED <<quiet, writing>>
  <1>1. PICK a \in InTable, on \in BOOLEAN :
          \/ writing' = [writing EXCEPT ![t] = Call(Counted(a), on)]
          \/ UNCHANGED <<quiet, writing>>
    BY DEF SetQuiet
  <1>2. writing' # [writing EXCEPT ![t] = Call(Counted(a), on)]
    BY DEF Idle, TypeOK, Call, NoCall
  <1> QED
    BY <1>1, <1>2

LEMMA FilesStep == QInv /\ [Next]_vars => FilesInv'
  <1> SUFFICES ASSUME QInv, [Next]_vars PROVE FilesInv'
    OBVIOUS
  <1> USE DEF QInv, FilesInv
  <1>0. ASSUME UNCHANGED vars PROVE FilesInv'
    BY <1>0 DEF vars, Idle, InFile, InTable
  <1>1. ASSUME PowerOn PROVE FilesInv'
    BY <1>1 DEF PowerOn, TypeOK
  <1>2. ASSUME ReadList PROVE FilesInv'
    <2>1. bin' = bin /\ InFile(bin)' = InFile(bin) /\ Idle' = Idle
      BY <1>2 DEF ReadList, InFile, InTable, Idle
    <2>2. (synced /\ Idle) => quiet' = InFile(bin)
      BY <1>2, ListReadOver DEF ReadList
    <2>3. step' = "up" => outgrown'
      BY <1>2 DEF ReadList
    <2> QED
      BY <1>2, <2>1, <2>2, <2>3 DEF ReadList
  <1>3. ASSUME ReadCrc PROVE FilesInv'
    BY <1>3 DEF ReadCrc, InFile, InTable, Idle
  <1>4. ASSUME ClearList PROVE FilesInv'
    BY <1>4 DEF ClearList
  <1>5. ASSUME ListWritten, UNCHANGED <<quiet, table>>
        PROVE  quiet' = InFile(bin)'
    <2>1. InFile(bin)' = InFile(bin')
      BY <1>5 DEF InFile, InTable
    <2> QED
      BY <1>5, <2>1, Written DEF ListWritten
  <1>6. ASSUME WriteList PROVE FilesInv'
    BY <1>5, <1>6 DEF WriteList
  <1>7. ASSUME WriteCrc PROVE FilesInv'
    BY <1>7 DEF WriteCrc, TypeOK, InFile, InTable, Idle
  <1>8. ASSUME NEW t \in Threads, SetQuiet(t) PROVE FilesInv'
    <2>1. Idle' => UNCHANGED <<quiet, writing>>
      BY <1>8, BegunIsOpen
    <2> QED
      BY <1>8, <2>1 DEF SetQuiet, Idle, InFile, InTable
  <1>9. ASSUME NEW t \in Threads, QuietWritten(t) PROVE FilesInv'
    <2>1. CASE ListWritten
      <3>1. quiet' = InFile(bin)'
        BY <1>5, <1>9, <2>1 DEF QuietWritten
      <3>2. synced' => synced \/ crc = table
        BY <1>9 DEF QuietWritten
      <3> QED
        BY <1>9, <3>1, <3>2 DEF QuietWritten
    <2>2. CASE ~ListWritten
      BY <1>9, <2>2 DEF QuietWritten
    <2> QED
      BY <2>1, <2>2
  <1>10. ASSUME DeleteList PROVE FilesInv'
    BY <1>10 DEF DeleteList
  <1>11. ASSUME DeleteCrc PROVE FilesInv'
    BY <1>11 DEF DeleteCrc
  <1>12. ASSUME Crash PROVE FilesInv'
    BY <1>12 DEF Crash
  <1>13. ASSUME Update PROVE FilesInv'
    BY <1>13 DEF Update
  <1> QED
    BY <1>0, <1>1, <1>2, <1>3, <1>4, <1>6, <1>7, <1>8, <1>9, <1>10, <1>11,
       <1>12, <1>13
    DEF Next, Boot

LEMMA QuietBootStep == QInv /\ [Next]_vars => QuietBoot'
  <1> SUFFICES ASSUME QInv, [Next]_vars PROVE QuietBoot'
    OBVIOUS
  <1> USE DEF QInv, QuietBoot, Undisturbed
  <1>1. CASE UNCHANGED vars
    BY <1>1 DEF vars, Idle
  <1>2. CASE PowerOn \/ Boot \/ DeleteList \/ DeleteCrc \/ Update
    BY <1>2
    DEF PowerOn, Boot, ReadList, ReadCrc, ClearList, WriteList, WriteCrc,
        DeleteList, DeleteCrc, Update, Idle, BootSteps
  <1>3. ASSUME NEW t \in Threads, SetQuiet(t) PROVE QuietBoot'
    BY <1>3 DEF SetQuiet, Early, Unknown, BootSteps
  <1>4. ASSUME NEW t \in Threads, QuietWritten(t) PROVE QuietBoot'
    BY <1>4 DEF QuietWritten, Idle
  <1>5. CASE Crash
    BY <1>5 DEF Crash, Idle
  <1> QED
    BY <1>1, <1>2, <1>3, <1>4, <1>5 DEF Next

-----------------------------------------------------------------------------
(* The steps of the boot, for a list that is to be restored.               *)

(* The words of the list that are read are those of the file.              *)
LEMMA SameFile ==
  ASSUME bin.list = expected.list
  PROVE  InFile(bin) = InFile(expected)
  BY DEF InFile

LEMMA PromiseBoot ==
  ASSUME QInv, PowerOn \/ Boot
  PROVE  PromiseInv'
  <1> USE QuietAssumption
      DEF QuietAssumption, QInv, PromiseInv, FilesAsLeft, Kept, InFile, InTable,
          BootSteps, FirstWord
  <1>1. CASE PowerOn
    BY <1>1 DEF PowerOn, TypeOK
  <1>2. CASE ReadList
    <2>1. (expected.known /\ synced) => ListRead = InFile(expected)
      BY <1>2, ListReadOver, SameFile DEF ReadList
    <2>2. bin = NoFile => bin.words = 0 /\ bin.list = {}
      BY DEF NoFile, File
    <2>3. bin.words \in Nat /\ Words[table] \in Nat
      BY DEF TypeOK, Files
    <2>4. bin.words = 0 => bin.list = {}
      BY DEF ShapeInv, TypeOK, Files
    <2>5. SUFFICES ASSUME expected.known, synced, step' \in BootSteps
                   PROVE  PromiseInv'
      BY <1>2 DEF ReadList
    <2>6. /\ expected.table <= table
          /\ bin.words = expected.words /\ bin.list = expected.list
          /\ crc <= expected.table
          /\ expected.table = table => \/ bin.words < Words[table]
                                       \/ crc = table
                                       \/ bin.list \cap {a \in Attributes : Word[a] = 1} = {}
      BY <1>2, <2>5 DEF ReadList
    <2>7. /\ quiet' = {a \in expected.list : a \in Attributes /\ Word[a] <= Words[table]}
          /\ UNCHANGED <<bin, crc, table, synced, expected>>
      BY <1>2, <2>1, <2>5 DEF ReadList, TypeOK, Promises
    <2>8. CASE step' = "clear"
      <3>1. bin.list = {}
        BY <1>2, <2>2, <2>8 DEF ReadList
      <3> QED
        BY <2>6, <2>7, <2>8, <3>1
    <2>9. CASE step' = "read_crc"
      <3>1. bin.words >= Words[table]
        <4>1. bin.words # 0
          BY <1>2, <2>4, <2>9 DEF ReadList, NoFile, File, TypeOK, Files
        <4> QED
          BY <1>2, <2>3, <2>9, <4>1 DEF ReadList, Short
      <3> QED
        BY <2>6, <2>7, <2>9, <3>1
    <2> QED
      BY <1>2, <2>5, <2>8, <2>9 DEF ReadList
  <1>3. CASE ReadCrc
    BY <1>3 DEF ReadCrc, TypeOK, Files
  <1>4. CASE ClearList
    BY <1>4 DEF ClearList
  <1>5. CASE WriteList
    BY <1>5 DEF WriteList, ListWritten
  <1>6. CASE WriteCrc
    BY <1>6 DEF WriteCrc
  <1> QED
    BY <1>1, <1>2, <1>3, <1>4, <1>5, <1>6 DEF Boot

LEMMA PromiseCrash ==
  ASSUME QInv, Crash
  PROVE  PromiseInv'
  <1> USE QuietAssumption DEF QuietAssumption, QInv
  <1>1. /\ step' = "off" /\ expected' = Promise
        /\ bin' = bin /\ crc' = crc /\ table' = table
    BY DEF Crash
  <1>2. SUFFICES ASSUME expected'.known
                 PROVE  /\ expected'.table <= table
                        /\ bin.words = expected'.words
                        /\ bin.list = expected'.list
                        /\ crc <= expected'.table
                        /\ expected'.table = table =>
                              \/ bin.words < Words[table]
                              \/ crc = table
                              \/ bin.list \cap FirstWord = {}
    BY <1>1 DEF PromiseInv, FilesAsLeft, BootSteps, FirstWord
  <1>3. crc <= table /\ table <= table
    BY DEF ShapeInv, TypeOK
  <1>4. CASE step \in BootSteps \ {"write_crc"} /\ synced
    <2>1. expected' = expected
      BY <1>1, <1>4 DEF Promise, BootSteps
    <2> QED
      BY <1>2, <1>4, <2>1 DEF PromiseInv, FilesAsLeft, BootSteps
  <1>5. CASE step = "write_crc" /\ synced /\ Idle /\ expected.known
    <2>1. expected' = Left(bin)
      BY <1>1, <1>5 DEF Promise
    <2>2. bin = File(Words[table], quiet) /\ quiet \cap FirstWord = {}
      BY <1>5 DEF PromiseInv, BootSteps
    <2> QED
      BY <1>3, <2>1, <2>2 DEF Left, File
  <1>6. CASE /\ step = "up" /\ synced /\ Idle
             /\ Short(bin) \/ (crc = table /\ bin.words = Words[table])
    <2>1. expected' = Left(File(bin.words, quiet))
      BY <1>1, <1>6 DEF Promise, BootSteps
    <2>2. bin.words <= Words[table]
      BY <1>6 DEF Short, TypeOK, Files
    <2>3. bin.list = quiet
      <3>1. bin.list \subseteq Attributes /\ bin.words \in Nat
        BY DEF TypeOK, Files
      <3>2. \A a \in bin.list : Word[a] <= Words[table]
        BY <2>2, <3>1 DEF ShapeInv, TypeOK
      <3> QED
        BY <1>6, <3>1, <3>2 DEF FilesInv, InFile, InTable
    <2>4. bin.words < Words[table] \/ crc = table
      BY <1>6 DEF Short, TypeOK, Files
    <2> QED
      BY <1>3, <2>1, <2>3, <2>4 DEF Left, File
  <1>7. CASE /\ ~(step \in BootSteps \ {"write_crc"} /\ synced)
             /\ ~(step = "write_crc" /\ synced /\ Idle /\ expected.known)
             /\ ~(/\ step = "up" /\ synced /\ Idle
                  /\ Short(bin) \/ (crc = table /\ bin.words = Words[table]))
    <2>1. expected' = Unknown
      BY <1>1, <1>7 DEF Promise
    <2> QED
      BY <1>2, <2>1 DEF Unknown
  <1> QED
    BY <1>4, <1>5, <1>6, <1>7

LEMMA PromiseStep == QInv /\ [Next]_vars => PromiseInv'
  <1> SUFFICES ASSUME QInv, [Next]_vars PROVE PromiseInv'
    OBVIOUS
  <1> USE QuietAssumption DEF QuietAssumption, QInv
  <1>0. ASSUME UNCHANGED vars PROVE PromiseInv'
    BY <1>0
    DEF vars, PromiseInv, FilesAsLeft, Kept, InFile, InTable, FirstWord
  <1>1. ASSUME NEW t \in Threads, SetQuiet(t) PROVE PromiseInv'
    BY <1>1 DEF SetQuiet, Early, Unknown, PromiseInv
  <1>2. ASSUME NEW t \in Threads, QuietWritten(t) PROVE PromiseInv'
    <2>1. ~Undisturbed /\ step # "off"
      BY <1>2 DEF QuietWritten, QuietBoot, Idle
    <2> QED
      BY <1>2, <2>1 DEF QuietWritten, Undisturbed, PromiseInv
  <1>3. ASSUME DeleteList \/ DeleteCrc PROVE PromiseInv'
    BY <1>3 DEF DeleteList, DeleteCrc, PromiseInv
  <1>4. ASSUME Update PROVE PromiseInv'
    <2>1. table \in Nat /\ table' = table + 1 /\ expected.table \in Nat
      BY <1>4 DEF Update, TypeOK, Promises
    <2>2. step = "off" /\ step' = "off" /\ step \notin BootSteps
          /\ UNCHANGED <<quiet, bin, crc, expected>>
      BY <1>4 DEF Update, BootSteps
    <2>3. expected.known => expected.table <= table /\ FilesAsLeft
      BY <2>2 DEF PromiseInv
    <2>4. expected.known => expected.table <= table' /\ expected.table # table'
      BY <2>1, <2>3
    <2> QED
      BY <2>2, <2>3, <2>4 DEF PromiseInv, FilesAsLeft
  <1> QED
    BY <1>0, <1>1, <1>2, <1>3, <1>4, PromiseBoot, PromiseCrash DEF Next

(* A step that completes a boot with a list to restore restores it.        *)
LEMMA BootStep ==
  ASSUME QInv, [Next]_vars,
         step \in BootSteps, step' = "up", synced', expected.known
  PROVE  Restored(quiet')
  <1> USE QuietAssumption DEF QuietAssumption, QInv, BootSteps
  <1>1. ReadList \/ ReadCrc \/ WriteCrc
    BY DEF Next, Boot, PowerOn, ClearList, WriteList,
           SetQuiet, QuietWritten, DeleteList, DeleteCrc, Crash, Update, vars
  <1>2. synced
    BY <1>1 DEF ReadList, ReadCrc, WriteCrc
  <1>3. CASE ReadList
    <2>1. FilesAsLeft /\ quiet = {}
      BY <1>2, <1>3 DEF ReadList, PromiseInv
    <2>2. quiet' = InFile(expected)
      BY <1>3, <2>1, ListReadOver, SameFile DEF ReadList, FilesAsLeft
    <2>3. Kept
      BY <1>3, <2>1 DEF ReadList, Short, FilesAsLeft, Kept, TypeOK, Files
    <2> QED
      BY <2>2, <2>3 DEF Restored
  <1>4. CASE ReadCrc
    <2>1. quiet = InFile(expected) /\ crc <= expected.table
          /\ expected.table <= table
      BY <1>2, <1>4 DEF ReadCrc, PromiseInv, FilesAsLeft
    <2>2. crc = table /\ quiet' = quiet
      BY <1>4 DEF ReadCrc
    <2>3. Kept
      BY <2>1, <2>2 DEF Kept, TypeOK, Promises
    <2> QED
      BY <2>1, <2>2, <2>3 DEF Restored
  <1>5. CASE WriteCrc
    BY <1>2, <1>5 DEF WriteCrc, PromiseInv, Restored
  <1> QED
    BY <1>1, <1>3, <1>4, <1>5

-----------------------------------------------------------------------------
(* The invariant that the theorems below rest on.                          *)
THEOREM QuietInvariance == Spec => []QInv
  <1>1. QInv /\ [Next]_vars => QInv'
    BY TypeStep, ShapeStep, FilesStep, QuietBootStep, PromiseStep DEF QInv
  <1> QED
    BY QuietInit, <1>1, PTL DEF Spec

(* The list, its files and the calls in progress are type correct.         *)
THEOREM QuietTypeCorrect == Spec => []TypeOK
  <1>1. QInv => TypeOK
    BY DEF QInv
  <1> QED
    BY QuietInvariance, <1>1, PTL

(* The file holds the list of a running device whose last write succeeded, *)
(* however attr_set_quiet() calls interleave, with each other and with the *)
(* boot.                                                                   *)
THEOREM QuietFileFollows == Spec => []FileFollowsList
  <1>1. QInv => FileFollowsList
    BY DEF QInv, FilesInv, FileFollowsList
  <1> QED
    BY QuietInvariance, <1>1, PTL

(* A boot restores the list of the last run, over power failures in the    *)
(* boot itself and updates to tables of any sizes.                         *)
THEOREM QuietIsRestored == Spec => ListIsRestored
  <1>1. QInv /\ [Next]_vars =>
          [(step \in BootSteps /\ step' = "up" /\ synced' /\ expected.known) =>
              Restored(quiet')]_vars
    BY BootStep
  <1> QED
    BY QuietInvariance, <1>1, PTL DEF Spec, ListIsRestored
=============================================================================
