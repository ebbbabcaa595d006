------------------------ MODULE ReceiptStoresProofs ------------------------
(***************************************************************************)
(* Theorems about the receipt stores, for any number of tasks, receipts,   *)
(* calls, faults and restarts, each of the five implementations.           *)
(***************************************************************************)
EXTENDS ReceiptStores, SequenceTheorems, TLAPS

-----------------------------------------------------------------------------
\* Lists of ids

\* Appending an id to a list adds it.
LEMMA IdsOfAppend ==
    ASSUME NEW s \in Seq(Receipts), NEW r \in Receipts
    PROVE  Append(s, r) \in Seq(Receipts) /\ Ids(Append(s, r)) = Ids(s) \cup {r}
  <1>1. /\ Append(s, r) \in Seq(Receipts) /\ Len(s) \in Nat
        /\ DOMAIN Append(s, r) = 1 .. (Len(s) + 1) /\ DOMAIN s = 1 .. Len(s)
        /\ \A i \in 1 .. Len(s) : Append(s, r)[i] = s[i]
        /\ Append(s, r)[Len(s) + 1] = r
    BY AppendProperties, LenProperties
  <1>2. ASSUME NEW i \in DOMAIN Append(s, r) PROVE Append(s, r)[i] \in Ids(s) \cup {r}
    BY <1>1 DEF Ids
  <1>3. ASSUME NEW i \in DOMAIN s PROVE s[i] \in Ids(Append(s, r))
    <2>1. i \in DOMAIN Append(s, r) /\ Append(s, r)[i] = s[i]
      BY <1>1
    <2> QED
      BY <2>1 DEF Ids
  <1>4. r \in Ids(Append(s, r))
    BY <1>1 DEF Ids
  <1> QED
    BY <1>1, <1>2, <1>3, <1>4 DEF Ids

\* An index with a receipt added is an index.
LEMMA WithReceiptTyped ==
    ASSUME NEW map \in Indexes, NEW r \in Receipts
    PROVE  /\ WithReceipt(map, r) \in Indexes
           /\ r \in Ids(WithReceipt(map, r)[ActionOf[r]])
           /\ \A a \in Actions : Ids(map[a]) \subseteq Ids(WithReceipt(map, r)[a])
  <1>1. ActionOf[r] \in Actions /\ map[ActionOf[r]] \in Seq(Receipts)
    BY ActionAssumption DEF Indexes
  <1>2. /\ Append(map[ActionOf[r]], r) \in Seq(Receipts)
        /\ Ids(Append(map[ActionOf[r]], r)) = Ids(map[ActionOf[r]]) \cup {r}
    BY <1>1, IdsOfAppend
  <1> QED
    BY <1>1, <1>2 DEF WithReceipt, Indexes

-----------------------------------------------------------------------------
\* Types

Answers == {"Pending", "Ok", "Absent", "Error", "AlreadyExists", "Short"}

TaskTypes ==
    /\ pc \in [Tasks -> Places] /\ receipt \in [Tasks -> Receipts] /\ answer \in [Tasks -> Answers]
    /\ \A t \in Tasks : pc[t] # "idle" => answer[t] = "Pending"
    /\ acked \subseteq Receipts /\ seen \in [Tasks -> Indexes]

MemoryTypes ==
    /\ by_action \in Indexes /\ receipts_writer \in Tasks \cup {Nobody}
    /\ by_action_readers \subseteq Tasks

FileTypes ==
    /\ IsFile(index) /\ IsFile(index_tmp)
    /\ opened \in [Tasks -> {"none", "index.tmp", "index.json", "unlinked"}]

StorageTypes ==
    /\ temps \subseteq Receipts /\ cache \subseteq Receipts /\ listing \subseteq Receipts
    /\ scanner \in Tasks \cup {NoScan} /\ (scanner = NoScan => listing = {})

ScanLocked == \A t \in Tasks : pc[t] \in {"scan", "scan_all"} => scanner = t

Typed ==
    /\ TaskTypes /\ held \subseteq Receipts /\ faults \in Nat /\ MemoryTypes /\ FileTypes
    /\ StorageTypes /\ ScanLocked

\* The parts of Typed are those of TypeOK.
LEMMA TypedIsTypeOK == Typed <=> TypeOK
  BY DEF Typed, TypeOK, TaskTypes, MemoryTypes, FileTypes, StorageTypes, ScanLocked, Answers,
         Idle, CacheFree

\* The empty index is an index.
LEMMA EmptyTyped == Empty \in Indexes /\ \A a \in Actions : Ids(Empty[a]) = {}
  <1>1. <<>> \in Seq(Receipts) /\ DOMAIN <<>> = {}
    BY EmptySeq, LenProperties
  <1> QED
    BY <1>1 DEF Empty, Indexes, Ids

\* A task that goes on keeps the types of the tasks.
LEMMA StepTypes ==
    ASSUME TaskTypes, NEW t \in Tasks, NEW from \in Places \ {"idle"}, NEW to \in Places \ {"idle"},
           Step(t, from, to)
    PROVE  TaskTypes'
  BY DEF TaskTypes, Step

\* So does one that reads an index.
LEMMA StepReadingTypes ==
    ASSUME TaskTypes, NEW t \in Tasks, NEW from \in Places \ {"idle"}, NEW to \in Places \ {"idle"},
           NEW map \in Indexes, StepReading(t, from, to, map)
    PROVE  TaskTypes'
  BY DEF TaskTypes, StepReading

\* So does one that returns.
LEMMA AnswerTypes ==
    ASSUME TaskTypes, NEW t \in Tasks, NEW from, NEW what \in Answers, Answer(t, from, what)
    PROVE  TaskTypes'
  BY EmptyTyped DEF TaskTypes, Answer, Places

\* So does one whose store is acknowledged.
LEMMA AnswerStoredTypes ==
    ASSUME TaskTypes, NEW t \in Tasks, NEW from, AnswerStored(t, from)
    PROVE  TaskTypes'
  BY EmptyTyped DEF TaskTypes, AnswerStored, Places, Answers

\* A step of InMemoryReceiptStore keeps the types.
LEMMA MemoryKeepsTypes ==
    ASSUME Typed, NEW t \in Tasks, MemoryStep(t), UNCHANGED <<indexFiles, cacheState>>
    PROVE  Typed'
  <1>1. /\ TaskTypes /\ receipt[t] \in Receipts /\ seen[t] \in Indexes
        /\ ActionOf[receipt[t]] \in Actions /\ held \subseteq Receipts
        /\ MemoryTypes /\ FileTypes /\ StorageTypes /\ ScanLocked
    BY ActionAssumption DEF Typed, TaskTypes
  <1>2. TaskTypes'
    <2>1. CASE LockReceipts(t)
      BY <1>1, <2>1, StepTypes DEF LockReceipts, Places, Storing, Deleting
    <2>2. CASE InsertReceipt(t)
      BY <1>1, <2>2, AnswerStoredTypes DEF InsertReceipt
    <2>3. CASE LockByAction(t)
      BY <1>1, <2>3, StepTypes DEF LockByAction, Places, Storing, Deleting
    <2>4. CASE ListMemory(t)
      BY <1>1, <2>4, AnswerTypes DEF ListMemory, Answers
    <2>5. CASE GetMemory(t)
      BY <1>1, <2>5, AnswerTypes DEF GetMemory, Answers, Found
    <2> QED
      BY <2>1, <2>2, <2>3, <2>4, <2>5 DEF MemoryStep
  <1>3. held' \subseteq Receipts /\ faults' \in Nat
    BY <1>1
       DEF Typed, Fault, MemoryStep, LockReceipts, InsertReceipt, LockByAction, ListMemory,
           GetMemory
  <1>4. FileTypes' /\ StorageTypes'
    BY <1>1 DEF FileTypes, StorageTypes, memory, indexFiles, cacheState
  <1>5. MemoryTypes'
    <2>1. CASE LockReceipts(t)
      BY <1>1, <2>1 DEF LockReceipts, MemoryTypes, memory
    <2>2. CASE InsertReceipt(t)
      BY <1>1, IdsOfAppend, <2>2 DEF InsertReceipt, MemoryTypes, memory, Indexes
    <2>3. CASE LockByAction(t)
      BY <1>1, <2>3 DEF LockByAction, MemoryTypes, memory
    <2>4. CASE ListMemory(t)
      BY <1>1, <2>4 DEF ListMemory, MemoryTypes, memory
    <2>5. CASE GetMemory(t)
      BY <1>1, <2>5 DEF GetMemory, MemoryTypes, memory
    <2> QED
      BY <2>1, <2>2, <2>3, <2>4, <2>5 DEF MemoryStep
  <1>6. ScanLocked'
    BY <1>1
       DEF ScanLocked, TaskTypes, cacheState, Step, StepReading, Answer, AnswerStored, MemoryStep,
           LockReceipts, InsertReceipt, LockByAction, ListMemory, GetMemory
  <1> QED
    BY <1>2, <1>3, <1>4, <1>5, <1>6 DEF Typed

\* A step of MemStorage keeps the types.
LEMMA MemStorageKeepsTypes ==
    ASSUME Typed, NEW t \in Tasks, MemStorageStep(t), UNCHANGED <<indexFiles, cacheState>>
    PROVE  Typed'
  <1>1. /\ TaskTypes /\ receipt[t] \in Receipts /\ seen[t] \in Indexes
        /\ ActionOf[receipt[t]] \in Actions /\ held \subseteq Receipts
        /\ MemoryTypes /\ FileTypes /\ StorageTypes /\ ScanLocked
    BY ActionAssumption DEF Typed, TaskTypes
  <1>2. TaskTypes'
    <2>1. CASE StoreInMap(t)
      BY <1>1, <2>1, AnswerStoredTypes DEF StoreInMap
    <2>2. CASE DeleteFromMap(t)
      BY <1>1, <2>2, AnswerTypes DEF DeleteFromMap, Answers, Found
    <2>3. CASE ReadMap(t)
      BY <1>1, <2>3, AnswerTypes DEF ReadMap, Answers, Found
    <2> QED
      BY <2>1, <2>2, <2>3 DEF MemStorageStep
  <1>3. held' \subseteq Receipts /\ faults' \in Nat
    BY <1>1 DEF Typed, Fault, MemStorageStep, StoreInMap, DeleteFromMap, ReadMap
  <1>4. FileTypes' /\ StorageTypes'
    BY <1>1 DEF FileTypes, StorageTypes, memory, indexFiles, cacheState
  <1>5. MemoryTypes'
    <2>1. CASE StoreInMap(t)
      BY <1>1, <2>1 DEF StoreInMap, MemoryTypes, memory
    <2>2. CASE DeleteFromMap(t)
      BY <1>1, <2>2 DEF DeleteFromMap, MemoryTypes, memory
    <2>3. CASE ReadMap(t)
      BY <1>1, <2>3 DEF ReadMap, MemoryTypes, memory
    <2> QED
      BY <2>1, <2>2, <2>3 DEF MemStorageStep
  <1>6. ScanLocked'
    BY <1>1
       DEF ScanLocked, TaskTypes, cacheState, Step, StepReading, Answer, AnswerStored,
           MemStorageStep, StoreInMap, DeleteFromMap, ReadMap
  <1> QED
    BY <1>2, <1>3, <1>4, <1>5, <1>6 DEF Typed

\* A step of WasmReceiptStore keeps the types.
LEMMA BrowserKeepsTypes ==
    ASSUME Typed, NEW t \in Tasks, BrowserStep(t), UNCHANGED <<indexFiles, cacheState>>
    PROVE  Typed'
  <1>1. /\ TaskTypes /\ receipt[t] \in Receipts /\ seen[t] \in Indexes
        /\ ActionOf[receipt[t]] \in Actions /\ held \subseteq Receipts
        /\ MemoryTypes /\ FileTypes /\ StorageTypes /\ ScanLocked
    BY ActionAssumption DEF Typed, TaskTypes
  <1>2. TaskTypes'
    <2>1. CASE SetReceipt(t)
      BY <1>1, <2>1, StepTypes DEF SetReceipt, Places, Storing, Deleting
    <2>2. CASE GetActionIds(t)
      BY <1>1, <2>2, StepReadingTypes, AnswerStoredTypes
         DEF GetActionIds, Places, Storing, Deleting, MemoryTypes
    <2>3. CASE SetActionIds(t)
      BY <1>1, <2>3, AnswerStoredTypes DEF SetActionIds
    <2>4. CASE QuotaExceeded(t)
      BY <1>1, <2>4, AnswerTypes DEF QuotaExceeded, Answers
    <2>5. CASE GetItem(t)
      BY <1>1, <2>5, AnswerTypes DEF GetItem, Answers, Found
    <2>6. CASE ListActionIds(t)
      BY <1>1, <2>6, StepReadingTypes DEF ListActionIds, Places, Storing, Deleting, MemoryTypes
    <2>7. CASE ListItems(t)
      BY <1>1, <2>7, AnswerTypes DEF ListItems, Answers
    <2> QED
      BY <2>1, <2>2, <2>3, <2>4, <2>5, <2>6, <2>7 DEF BrowserStep
  <1>3. held' \subseteq Receipts /\ faults' \in Nat
    BY <1>1
       DEF Typed, Fault, BrowserStep, SetReceipt, GetActionIds, SetActionIds, QuotaExceeded,
           GetItem, ListActionIds, ListItems
  <1>4. FileTypes' /\ StorageTypes'
    BY <1>1 DEF FileTypes, StorageTypes, memory, indexFiles, cacheState
  <1>5. MemoryTypes'
    <2>1. CASE SetReceipt(t)
      BY <1>1, <2>1 DEF SetReceipt, MemoryTypes, memory
    <2>2. CASE GetActionIds(t)
      BY <1>1, <2>2 DEF GetActionIds, MemoryTypes, memory
    <2>3. CASE SetActionIds(t)
      BY <1>1, IdsOfAppend, <2>3 DEF SetActionIds, MemoryTypes, memory, Indexes
    <2>4. CASE QuotaExceeded(t)
      BY <1>1, <2>4 DEF QuotaExceeded, MemoryTypes, memory
    <2>5. CASE GetItem(t)
      BY <1>1, <2>5 DEF GetItem, MemoryTypes, memory
    <2>6. CASE ListActionIds(t)
      BY <1>1, <2>6 DEF ListActionIds, MemoryTypes, memory
    <2>7. CASE ListItems(t)
      BY <1>1, <2>7 DEF ListItems, MemoryTypes, memory
    <2> QED
      BY <2>1, <2>2, <2>3, <2>4, <2>5, <2>6, <2>7 DEF BrowserStep
  <1>6. ScanLocked'
    BY <1>1
       DEF ScanLocked, TaskTypes, cacheState, Step, StepReading, Answer, AnswerStored,
           BrowserStep, SetReceipt, GetActionIds, SetActionIds, QuotaExceeded, GetItem,
           ListActionIds, ListItems
  <1> QED
    BY <1>2, <1>3, <1>4, <1>5, <1>6 DEF Typed

\* A step of FileReceiptStore keeps the types.
LEMMA FileKeepsTypes ==
    ASSUME Typed, NEW t \in Tasks, FileStep(t), UNCHANGED <<memory, cacheState>>
    PROVE  Typed'
  <1>1. /\ TaskTypes /\ receipt[t] \in Receipts /\ seen[t] \in Indexes
        /\ ActionOf[receipt[t]] \in Actions /\ held \subseteq Receipts
        /\ MemoryTypes /\ FileTypes /\ StorageTypes /\ ScanLocked
    BY ActionAssumption DEF Typed, TaskTypes
  <1>2. TaskTypes'
    <2>1. CASE WriteReceipt(t)
      BY <1>1, <2>1, StepTypes DEF WriteReceipt, Places, Storing, Deleting
    <2>2. CASE RenameReceipt(t)
      BY <1>1, <2>2, StepTypes DEF RenameReceipt, Places, Storing, Deleting
    <2>3. CASE ReadIndex(t)
      BY <1>1, <2>3, StepReadingTypes, EmptyTyped, WithReceiptTyped
         DEF ReadIndex, Places, Storing, Deleting, IndexOrDefault, FileTypes, IsFile, NoFile, Torn
    <2>4. CASE OpenIndex(t)
      BY <1>1, <2>4, StepTypes DEF OpenIndex, Places, Storing, Deleting
    <2>5. CASE WriteIndex(t)
      BY <1>1, <2>5, StepTypes DEF WriteIndex, Places, Storing, Deleting
    <2>6. CASE RenameIndex(t)
      BY <1>1, <2>6, AnswerStoredTypes DEF RenameIndex
    <2>7. CASE RenameIndexFails(t)
      BY <1>1, <2>7, AnswerTypes DEF RenameIndexFails, Answers
    <2>8. CASE StoreFails(t)
      BY <1>1, <2>8, AnswerTypes DEF StoreFails, Answers
    <2>9. CASE GetFile(t)
      BY <1>1, <2>9, AnswerTypes DEF GetFile, Answers, Found
    <2>10. CASE GetUnreadable(t)
      BY <1>1, <2>10, AnswerTypes DEF GetUnreadable, Answers
    <2>11. CASE ListIndex(t)
      BY <1>1, <2>11, StepReadingTypes, AnswerTypes, EmptyTyped
         DEF ListIndex, Places, Storing, Deleting, Answers, IndexOrDefault, FileTypes, IsFile,
             NoFile, Torn
    <2>12. CASE ListFiles(t)
      BY <1>1, <2>12, AnswerTypes DEF ListFiles, Answers
    <2> QED
      BY <2>1, <2>2, <2>3, <2>4, <2>5, <2>6, <2>7, <2>8, <2>9, <2>10, <2>11, <2>12 DEF FileStep
  <1>3. held' \subseteq Receipts /\ faults' \in Nat
    BY <1>1
       DEF Typed, Fault, FileStep, WriteReceipt, RenameReceipt, ReadIndex, OpenIndex, WriteIndex,
           RenameIndex, RenameIndexFails, StoreFails, GetFile, GetUnreadable, ListIndex, ListFiles
  <1>4. MemoryTypes' /\ StorageTypes'
    BY <1>1 DEF MemoryTypes, StorageTypes, memory, indexFiles, cacheState
  <1>5. FileTypes'
    <2>1. CASE WriteReceipt(t)
      BY <1>1, <2>1 DEF WriteReceipt, FileTypes, indexFiles, IsFile
    <2>2. CASE RenameReceipt(t)
      BY <1>1, <2>2 DEF RenameReceipt, FileTypes, indexFiles, IsFile
    <2>3. CASE ReadIndex(t)
      BY <1>1, <2>3 DEF ReadIndex, FileTypes, indexFiles, IsFile
    <2>4. CASE OpenIndex(t)
      BY <1>1, <2>4 DEF OpenIndex, FileTypes, indexFiles, IsFile
    <2>5. CASE WriteIndex(t)
      BY <1>1, <2>5 DEF WriteIndex, FileTypes, indexFiles, IsFile, Overwritten, Text, NoFile, Torn
    <2>6. CASE RenameIndex(t)
      BY <1>1, <2>6 DEF RenameIndex, FileTypes, indexFiles, IsFile
    <2>7. CASE RenameIndexFails(t)
      BY <1>1, <2>7 DEF RenameIndexFails, FileTypes, indexFiles, IsFile
    <2>8. CASE StoreFails(t)
      BY <1>1, <2>8 DEF StoreFails, FileTypes, indexFiles, IsFile
    <2>9. CASE GetFile(t)
      BY <1>1, <2>9 DEF GetFile, FileTypes, indexFiles, IsFile
    <2>10. CASE GetUnreadable(t)
      BY <1>1, <2>10 DEF GetUnreadable, FileTypes, indexFiles, IsFile
    <2>11. CASE ListIndex(t)
      BY <1>1, <2>11 DEF ListIndex, FileTypes, indexFiles, IsFile
    <2>12. CASE ListFiles(t)
      BY <1>1, <2>12 DEF ListFiles, FileTypes, indexFiles, IsFile
    <2> QED
      BY <2>1, <2>2, <2>3, <2>4, <2>5, <2>6, <2>7, <2>8, <2>9, <2>10, <2>11, <2>12 DEF FileStep
  <1>6. ScanLocked'
    BY <1>1
       DEF ScanLocked, TaskTypes, cacheState, Step, StepReading, Answer, AnswerStored, FileStep,
           WriteReceipt, RenameReceipt, ReadIndex, OpenIndex, WriteIndex, RenameIndex,
           RenameIndexFails, StoreFails, GetFile, GetUnreadable, ListIndex, ListFiles
  <1> QED
    BY <1>2, <1>3, <1>4, <1>5, <1>6 DEF Typed

\* A step of FileStorage keeps the types.
LEMMA StorageKeepsTypes ==
    ASSUME Typed, NEW t \in Tasks, StorageStep(t), UNCHANGED <<memory, indexFiles>>
    PROVE  Typed'
  <1>1. /\ TaskTypes /\ receipt[t] \in Receipts /\ seen[t] \in Indexes
        /\ ActionOf[receipt[t]] \in Actions /\ held \subseteq Receipts
        /\ MemoryTypes /\ FileTypes /\ StorageTypes /\ ScanLocked
    BY ActionAssumption DEF Typed, TaskTypes
  <1>2. TaskTypes'
    <2>1. CASE CheckNew(t)
      BY <1>1, <2>1, StepTypes, AnswerTypes DEF CheckNew, Places, Storing, Deleting, Answers
    <2>2. CASE CreateTemp(t)
      BY <1>1, <2>2, StepTypes DEF CreateTemp, Places, Storing, Deleting
    <2>3. CASE RenameNew(t)
      BY <1>1, <2>3, StepTypes, AnswerTypes DEF RenameNew, Places, Storing, Deleting, Answers
    <2>4. CASE CacheInsert(t)
      BY <1>1, <2>4, AnswerStoredTypes DEF CacheInsert
    <2>5. CASE LoadLook(t)
      BY <1>1, <2>5, StepTypes, AnswerTypes DEF LoadLook, Places, Storing, Deleting, Answers
    <2>6. CASE LoadRead(t)
      BY <1>1, <2>6, AnswerTypes DEF LoadRead, Answers
    <2>7. CASE DeleteLook(t)
      BY <1>1, <2>7, StepTypes, AnswerTypes DEF DeleteLook, Places, Storing, Deleting, Answers
    <2>8. CASE RemoveFile(t)
      BY <1>1, <2>8, StepTypes, AnswerTypes DEF RemoveFile, Places, Storing, Deleting, Answers
    <2>9. CASE CacheRemove(t)
      BY <1>1, <2>9, AnswerTypes DEF CacheRemove, Answers
    <2>10. CASE CacheHit(t)
      BY <1>1, <2>10, StepTypes, AnswerTypes DEF CacheHit, Places, Storing, Deleting, Answers
    <2>11. CASE ListIds(t)
      BY <1>1, <2>11, StepTypes DEF ListIds, Places, Storing, Deleting
    <2>12. CASE RefreshBegins(t)
      BY <1>1, <2>12, StepTypes DEF RefreshBegins, Places, Storing, Deleting
    <2>13. CASE RefreshEnds(t)
      BY <1>1, <2>13, StepTypes DEF RefreshEnds, Places, Storing, Deleting
    <2>14. CASE CacheLook(t)
      BY <1>1, <2>14, AnswerTypes DEF CacheLook, Answers
    <2>15. CASE LoadAll(t)
      BY <1>1, <2>15, AnswerTypes DEF LoadAll, Answers
    <2>16. CASE RefreshFails(t)
      BY <1>1, <2>16, AnswerTypes DEF RefreshFails, Answers
    <2>17. CASE StorageFails(t)
      BY <1>1, <2>17, AnswerTypes DEF StorageFails, Answers
    <2> QED
      BY <2>1, <2>2, <2>3, <2>4, <2>5, <2>6, <2>7, <2>8, <2>9, <2>10, <2>11, <2>12, <2>13,
         <2>14, <2>15, <2>16, <2>17 DEF StorageStep
  <1>3. held' \subseteq Receipts /\ faults' \in Nat
    BY <1>1
       DEF Typed, Fault, StorageStep, CheckNew, CreateTemp, RenameNew, CacheInsert, LoadLook,
           LoadRead, DeleteLook, RemoveFile, CacheRemove, CacheHit, ListIds, RefreshBegins,
           RefreshEnds, CacheLook, LoadAll, RefreshFails, StorageFails
  <1>4. MemoryTypes' /\ FileTypes'
    BY <1>1 DEF MemoryTypes, FileTypes, memory, indexFiles, cacheState
  <1>5. StorageTypes'
    <2>1. CASE CheckNew(t)
      BY <1>1, <2>1 DEF CheckNew, StorageTypes, cacheState
    <2>2. CASE CreateTemp(t)
      BY <1>1, <2>2 DEF CreateTemp, StorageTypes, cacheState
    <2>3. CASE RenameNew(t)
      BY <1>1, <2>3 DEF RenameNew, StorageTypes, cacheState
    <2>4. CASE CacheInsert(t)
      BY <1>1, <2>4 DEF CacheInsert, StorageTypes, cacheState
    <2>5. CASE LoadLook(t)
      BY <1>1, <2>5 DEF LoadLook, StorageTypes, cacheState
    <2>6. CASE LoadRead(t)
      BY <1>1, <2>6 DEF LoadRead, StorageTypes, cacheState
    <2>7. CASE DeleteLook(t)
      BY <1>1, <2>7 DEF DeleteLook, StorageTypes, cacheState
    <2>8. CASE RemoveFile(t)
      BY <1>1, <2>8 DEF RemoveFile, StorageTypes, cacheState
    <2>9. CASE CacheRemove(t)
      BY <1>1, <2>9 DEF CacheRemove, StorageTypes, cacheState
    <2>10. CASE CacheHit(t)
      BY <1>1, <2>10 DEF CacheHit, StorageTypes, cacheState
    <2>11. CASE ListIds(t)
      BY <1>1, <2>11 DEF ListIds, StorageTypes, cacheState
    <2>12. CASE RefreshBegins(t)
      BY <1>1, NoScanAssumption, <2>12 DEF RefreshBegins, StorageTypes, cacheState, CacheFree
    <2>13. CASE RefreshEnds(t)
      BY <1>1, <2>13 DEF RefreshEnds, StorageTypes, cacheState
    <2>14. CASE CacheLook(t)
      BY <1>1, <2>14 DEF CacheLook, StorageTypes, cacheState
    <2>15. CASE LoadAll(t)
      BY <1>1, <2>15 DEF LoadAll, StorageTypes, cacheState
    <2>16. CASE RefreshFails(t)
      BY <1>1, <2>16 DEF RefreshFails, StorageTypes, cacheState
    <2>17. CASE StorageFails(t)
      BY <1>1, <2>17 DEF StorageFails, StorageTypes, cacheState
    <2> QED
      BY <2>1, <2>2, <2>3, <2>4, <2>5, <2>6, <2>7, <2>8, <2>9, <2>10, <2>11, <2>12, <2>13,
         <2>14, <2>15, <2>16, <2>17 DEF StorageStep
  <1>6. ScanLocked'
    <2>1. CASE CheckNew(t)
      BY <1>1, <2>1, NoScanAssumption
         DEF CheckNew, ScanLocked, TaskTypes, StorageTypes, cacheState, CacheFree, Step, Answer,
             AnswerStored
    <2>2. CASE CreateTemp(t)
      BY <1>1, <2>2, NoScanAssumption
         DEF CreateTemp, ScanLocked, TaskTypes, StorageTypes, cacheState, CacheFree, Step, Answer,
             AnswerStored
    <2>3. CASE RenameNew(t)
      BY <1>1, <2>3, NoScanAssumption
         DEF RenameNew, ScanLocked, TaskTypes, StorageTypes, cacheState, CacheFree, Step, Answer,
             AnswerStored
    <2>4. CASE CacheInsert(t)
      BY <1>1, <2>4, NoScanAssumption
         DEF CacheInsert, ScanLocked, TaskTypes, StorageTypes, cacheState, CacheFree, Step,
             Answer, AnswerStored
    <2>5. CASE LoadLook(t)
      BY <1>1, <2>5, NoScanAssumption
         DEF LoadLook, ScanLocked, TaskTypes, StorageTypes, cacheState, CacheFree, Step, Answer,
             AnswerStored
    <2>6. CASE LoadRead(t)
      BY <1>1, <2>6, NoScanAssumption
         DEF LoadRead, ScanLocked, TaskTypes, StorageTypes, cacheState, CacheFree, Step, Answer,
             AnswerStored
    <2>7. CASE DeleteLook(t)
      BY <1>1, <2>7, NoScanAssumption
         DEF DeleteLook, ScanLocked, TaskTypes, StorageTypes, cacheState, CacheFree, Step, Answer,
             AnswerStored
    <2>8. CASE RemoveFile(t)
      BY <1>1, <2>8, NoScanAssumption
         DEF RemoveFile, ScanLocked, TaskTypes, StorageTypes, cacheState, CacheFree, Step, Answer,
             AnswerStored
    <2>9. CASE CacheRemove(t)
      BY <1>1, <2>9, NoScanAssumption
         DEF CacheRemove, ScanLocked, TaskTypes, StorageTypes, cacheState, CacheFree, Step,
             Answer, AnswerStored
    <2>10. CASE CacheHit(t)
      BY <1>1, <2>10, NoScanAssumption
         DEF CacheHit, ScanLocked, TaskTypes, StorageTypes, cacheState, CacheFree, Step, Answer,
             AnswerStored
    <2>11. CASE ListIds(t)
      BY <1>1, <2>11, NoScanAssumption
         DEF ListIds, ScanLocked, TaskTypes, StorageTypes, cacheState, CacheFree, Step, Answer,
             AnswerStored
    <2>12. CASE RefreshBegins(t)
      BY <1>1, <2>12, NoScanAssumption
         DEF RefreshBegins, ScanLocked, TaskTypes, StorageTypes, cacheState, CacheFree, Step,
             Answer, AnswerStored
    <2>13. CASE RefreshEnds(t)
      BY <1>1, <2>13, NoScanAssumption
         DEF RefreshEnds, ScanLocked, TaskTypes, StorageTypes, cacheState, CacheFree, Step,
             Answer, AnswerStored
    <2>14. CASE CacheLook(t)
      BY <1>1, <2>14, NoScanAssumption
         DEF CacheLook, ScanLocked, TaskTypes, StorageTypes, cacheState, CacheFree, Step, Answer,
             AnswerStored
    <2>15. CASE LoadAll(t)
      BY <1>1, <2>15, NoScanAssumption
         DEF LoadAll, ScanLocked, TaskTypes, StorageTypes, cacheState, CacheFree, Step, Answer,
             AnswerStored
    <2>16. CASE RefreshFails(t)
      BY <1>1, <2>16, NoScanAssumption
         DEF RefreshFails, ScanLocked, TaskTypes, StorageTypes, cacheState, CacheFree, Step,
             Answer, AnswerStored
    <2>17. CASE StorageFails(t)
      BY <1>1, <2>17, NoScanAssumption
         DEF StorageFails, ScanLocked, TaskTypes, StorageTypes, cacheState, CacheFree, Step,
             Answer, AnswerStored
    <2> QED
      BY <2>1, <2>2, <2>3, <2>4, <2>5, <2>6, <2>7, <2>8, <2>9, <2>10, <2>11, <2>12, <2>13,
         <2>14, <2>15, <2>16, <2>17 DEF StorageStep
  <1> QED
    BY <1>2, <1>3, <1>4, <1>5, <1>6 DEF Typed

\* A call that begins keeps the types.
LEMMA CallKeepsTypes ==
    ASSUME Typed, NEW t \in Tasks, Call(t)
    PROVE  Typed'
  <1>1. PICK kind \in Kinds, r \in Receipts : Begin(t, kind, r)
    BY DEF Call
  <1>2. kind \in Places \ {"idle", "scan", "scan_all"}
    BY DEF Kinds, Places, Storing, Deleting
  <1>3. TaskTypes'
    BY <1>1, <1>2 DEF Begin, Typed, TaskTypes, Answers
  <1>4. ScanLocked'
    BY <1>1, <1>2 DEF Begin, Typed, TaskTypes, ScanLocked, Call, cacheState
  <1>5. held' \subseteq Receipts /\ faults' \in Nat /\ MemoryTypes' /\ FileTypes' /\ StorageTypes'
    BY DEF Call, Typed, MemoryTypes, FileTypes, StorageTypes, memory, indexFiles, cacheState
  <1> QED
    BY <1>3, <1>4, <1>5 DEF Typed

\* A restart keeps the types.
LEMMA RestartKeepsTypes ==
    ASSUME Typed, Restart
    PROVE  Typed'
  <1>1. TaskTypes'
    BY EmptyTyped DEF Restart, Typed, TaskTypes, Places, Answers
  <1>2. ScanLocked' /\ StorageTypes'
    BY DEF Restart, Typed, StorageTypes, ScanLocked
  <1>3. MemoryTypes' /\ held' \subseteq Receipts /\ faults' \in Nat
    BY EmptyTyped DEF Restart, Typed, MemoryTypes
  <1>4. FileTypes'
    BY DEF Restart, Typed, FileTypes
  <1> QED
    BY <1>1, <1>2, <1>3, <1>4 DEF Typed

\* A step of a task is a step of one of the implementations, and leaves the others' state alone.
LEMMA OneStore ==
    ASSUME NEW t \in Tasks, TaskStep(t)
    PROVE  /\ Remember /\ backend' = backend
           /\ \/ MemoryStep(t) /\ Using(Memory) /\ UNCHANGED <<indexFiles, cacheState>>
              \/ MemStorageStep(t) /\ Using(MemStorage) /\ UNCHANGED <<indexFiles, cacheState>>
              \/ BrowserStep(t) /\ Using(Browser) /\ UNCHANGED <<indexFiles, cacheState>>
              \/ FileStep(t) /\ Using(File) /\ UNCHANGED <<memory, cacheState>>
              \/ StorageStep(t) /\ Using(Storage) /\ UNCHANGED <<memory, indexFiles>>
  <1>1. ASSUME MemoryStep(t) PROVE Using(Memory) /\ backend' = backend
    BY <1>1 DEF Step, StepReading, Answer, AnswerStored, MemoryStep, LockReceipts,
       InsertReceipt, LockByAction, ListMemory, GetMemory
  <1>2. ASSUME MemStorageStep(t) PROVE Using(MemStorage) /\ backend' = backend
    BY <1>2 DEF Step, StepReading, Answer, AnswerStored, MemStorageStep, StoreInMap,
       DeleteFromMap, ReadMap
  <1>3. ASSUME BrowserStep(t) PROVE Using(Browser) /\ backend' = backend
    BY <1>3 DEF Step, StepReading, Answer, AnswerStored, BrowserStep, SetReceipt,
       GetActionIds, SetActionIds, QuotaExceeded, GetItem, ListActionIds, ListItems
  <1>4. ASSUME FileStep(t) PROVE Using(File) /\ backend' = backend
    BY <1>4 DEF Step, StepReading, Answer, AnswerStored, FileStep, WriteReceipt,
       RenameReceipt, ReadIndex, OpenIndex, WriteIndex, RenameIndex, RenameIndexFails,
       StoreFails, GetFile, GetUnreadable, ListIndex, ListFiles
  <1>5. ASSUME StorageStep(t) PROVE Using(Storage) /\ backend' = backend
    BY <1>5 DEF Step, StepReading, Answer, AnswerStored, StorageStep, CheckNew, CreateTemp,
       RenameNew, CacheInsert, LoadLook, LoadRead, DeleteLook, RemoveFile, CacheRemove,
       CacheHit, ListIds, RefreshBegins, RefreshEnds, CacheLook, LoadAll, RefreshFails,
       StorageFails
  <1> QED
    BY <1>1, <1>2, <1>3, <1>4, <1>5 DEF TaskStep, Work

\* The initial states have the types.
LEMMA InitTyped == Init => Typed
  BY EmptyTyped DEF Init, TasksInit, MemoryInit, FileInit, StorageInit, Typed, TaskTypes,
                    MemoryTypes, FileTypes, StorageTypes, ScanLocked, Answers, Places, IsFile

\* Every step keeps the types.
LEMMA NextKeepsTypes == Typed /\ [Next]_vars => Typed'
  <1> SUFFICES ASSUME Typed, [Next]_vars PROVE Typed'
    OBVIOUS
  <1>1. CASE Restart /\ Remember
    BY <1>1, RestartKeepsTypes
  <1>2. ASSUME NEW t \in Tasks, Call(t) PROVE Typed'
    BY <1>2, CallKeepsTypes
  <1>3. ASSUME NEW t \in Tasks, TaskStep(t) PROVE Typed'
    BY <1>3, MemoryKeepsTypes, MemStorageKeepsTypes, BrowserKeepsTypes, FileKeepsTypes,
       StorageKeepsTypes DEF TaskStep, Work
  <1>4. CASE UNCHANGED vars
    BY <1>4 DEF vars, tasks, memory, indexFiles, cacheState, history, Typed, TaskTypes,
                MemoryTypes, FileTypes, StorageTypes, ScanLocked
  <1> QED
    BY <1>1, <1>2, <1>3, <1>4 DEF Next

\* TypeOK: every variable of the five stores keeps its type, a call that is under way has no
\* answer yet, and the task in refresh_cache has the write lock of the cache.
THEOREM TypeCorrect == Spec => []TypeOK
  <1>1. Spec => []Typed
    BY InitTyped, NextKeepsTypes, PTL DEF Spec
  <1> QED
    BY <1>1, TypedIsTypeOK, PTL

-----------------------------------------------------------------------------
\* What the history remembers

Marked ==
    /\ raced \subseteq Receipts /\ doubled \subseteq Receipts /\ disturbed \in BOOLEAN
    /\ \A t, u \in Tasks :
           receipt[t] = receipt[u] /\ pc[t] \in Storing /\ pc[u] \in Deleting => receipt[t] \in raced
    /\ \A t, u \in Tasks :
           t # u /\ receipt[t] = receipt[u] /\ pc[t] \in Storing /\ pc[u] \in Storing
               => receipt[t] \in doubled
    /\ \A t, u \in Tasks : t # u /\ pc[t] \in Storing /\ pc[u] \in Storing => disturbed
    /\ \A t \in Tasks : pc[t] # "idle" /\ receipt[t] \notin held => t \in missed

\* Whatever the step, the history is right after it.
LEMMA RememberMarks ==
    ASSUME Typed', Marked, Remember
    PROVE  Marked'
  <1>1. /\ raced' \subseteq Receipts /\ doubled' \subseteq Receipts /\ disturbed' \in BOOLEAN
    BY DEF Remember, Marked
  <1>2. /\ \A t \in Tasks : receipt'[t] \in Receipts
    BY DEF Typed, TaskTypes
  <1>3. ASSUME NEW t \in Tasks, NEW u \in Tasks, receipt'[t] = receipt'[u],
               pc'[t] \in Storing, pc'[u] \in Deleting
        PROVE  receipt'[t] \in raced'
    BY <1>2, <1>3 DEF Remember, About
  <1>4. ASSUME NEW t \in Tasks, NEW u \in Tasks, t # u, receipt'[t] = receipt'[u],
               pc'[t] \in Storing, pc'[u] \in Storing
        PROVE  receipt'[t] \in doubled'
    BY <1>2, <1>4 DEF Remember, About
  <1>5. ASSUME NEW t \in Tasks, NEW u \in Tasks, t # u, pc'[t] \in Storing, pc'[u] \in Storing
        PROVE  disturbed'
    BY <1>5 DEF Remember
  <1>6. ASSUME NEW t \in Tasks, pc'[t] # "idle", receipt'[t] \notin held'
        PROVE  t \in missed'
    BY <1>6 DEF Remember
  <1> QED
    BY <1>1, <1>3, <1>4, <1>5, <1>6 DEF Marked

\* Nothing is marked to begin with.
LEMMA InitMarked == Init => Marked
  BY DEF Init, TasksInit, Marked, Storing

\* Every step remembers.
LEMMA NextMarks == Typed /\ Marked /\ [Next]_vars => Marked'
  <1> SUFFICES ASSUME Typed, Marked, [Next]_vars PROVE Marked'
    OBVIOUS
  <1>1. CASE Next
    BY <1>1, NextKeepsTypes, RememberMarks DEF Next, TaskStep
  <1>2. CASE UNCHANGED vars
    BY <1>2 DEF vars, tasks, history, Marked
  <1> QED
    BY <1>1, <1>2

-----------------------------------------------------------------------------
\* Acknowledged receipts are held

\* The places of a store that has put the receipt where it is found by its id.
Filed == {"read_index", "open_index", "write_index", "rename_index", "get_action_ids",
          "set_action_ids", "cache_insert"}

Kept ==
    /\ acked \ raced \subseteq held
    /\ \A t \in Tasks : pc[t] \in Filed => receipt[t] \in held \cup raced
    /\ \A t \in Tasks : pc[t] \in Deleting => receipt[t] \notin acked \/ receipt[t] \in raced

\* A step of InMemoryReceiptStore keeps what was acknowledged.
LEMMA MemoryKeeps ==
    ASSUME Typed, Marked, Kept, NEW t \in Tasks, MemoryStep(t), Remember
    PROVE  Kept'
  <1>1. /\ pc \in [Tasks -> Places] /\ receipt \in [Tasks -> Receipts]
        /\ held \subseteq Receipts /\ acked \subseteq Receipts /\ raced \subseteq raced'
    BY DEF Typed, TaskTypes, Remember
  <1>2. \A u, v \in Tasks :
            pc[u] \in Storing /\ pc[v] \in Deleting /\ receipt[u] = receipt[v] => receipt[u] \in raced
    BY DEF Marked
  <1> USE <1>1, <1>2 DEF Kept, Filed, Storing, Deleting, Step, StepReading, Answer, AnswerStored
  <1>3. CASE LockReceipts(t)
    BY <1>3 DEF LockReceipts
  <1>4. CASE InsertReceipt(t)
    BY <1>4 DEF InsertReceipt
  <1>5. CASE LockByAction(t)
    BY <1>5 DEF LockByAction
  <1>6. CASE ListMemory(t)
    BY <1>6 DEF ListMemory
  <1>7. CASE GetMemory(t)
    BY <1>7 DEF GetMemory
  <1> QED
    BY <1>3, <1>4, <1>5, <1>6, <1>7 DEF MemoryStep

\* A step of MemStorage keeps what was acknowledged.
LEMMA MemStorageKeeps ==
    ASSUME Typed, Marked, Kept, NEW t \in Tasks, MemStorageStep(t), Remember
    PROVE  Kept'
  <1>1. /\ pc \in [Tasks -> Places] /\ receipt \in [Tasks -> Receipts]
        /\ held \subseteq Receipts /\ acked \subseteq Receipts /\ raced \subseteq raced'
    BY DEF Typed, TaskTypes, Remember
  <1>2. \A u, v \in Tasks :
            pc[u] \in Storing /\ pc[v] \in Deleting /\ receipt[u] = receipt[v] => receipt[u] \in raced
    BY DEF Marked
  <1> USE <1>1, <1>2 DEF Kept, Filed, Storing, Deleting, Step, StepReading, Answer, AnswerStored
  <1>3. CASE StoreInMap(t)
    BY <1>3 DEF StoreInMap
  <1>4. CASE DeleteFromMap(t)
    BY <1>4 DEF DeleteFromMap
  <1>5. CASE ReadMap(t)
    BY <1>5 DEF ReadMap
  <1> QED
    BY <1>3, <1>4, <1>5 DEF MemStorageStep

\* A step of WasmReceiptStore keeps what was acknowledged.
LEMMA BrowserKeeps ==
    ASSUME Typed, Marked, Kept, NEW t \in Tasks, BrowserStep(t), Remember
    PROVE  Kept'
  <1>1. /\ pc \in [Tasks -> Places] /\ receipt \in [Tasks -> Receipts]
        /\ held \subseteq Receipts /\ acked \subseteq Receipts /\ raced \subseteq raced'
    BY DEF Typed, TaskTypes, Remember
  <1>2. \A u, v \in Tasks :
            pc[u] \in Storing /\ pc[v] \in Deleting /\ receipt[u] = receipt[v] => receipt[u] \in raced
    BY DEF Marked
  <1> USE <1>1, <1>2 DEF Kept, Filed, Storing, Deleting, Step, StepReading, Answer, AnswerStored
  <1>3. CASE SetReceipt(t)
    BY <1>3 DEF SetReceipt
  <1>4. CASE GetActionIds(t)
    BY <1>4 DEF GetActionIds
  <1>5. CASE SetActionIds(t)
    BY <1>5 DEF SetActionIds
  <1>6. CASE QuotaExceeded(t)
    BY <1>6 DEF QuotaExceeded
  <1>7. CASE GetItem(t)
    BY <1>7 DEF GetItem
  <1>8. CASE ListActionIds(t)
    BY <1>8 DEF ListActionIds
  <1>9. CASE ListItems(t)
    BY <1>9 DEF ListItems
  <1> QED
    BY <1>3, <1>4, <1>5, <1>6, <1>7, <1>8, <1>9 DEF BrowserStep

\* A step of FileReceiptStore keeps what was acknowledged.
LEMMA FileKeeps ==
    ASSUME Typed, Marked, Kept, NEW t \in Tasks, FileStep(t), Remember
    PROVE  Kept'
  <1>1. /\ pc \in [Tasks -> Places] /\ receipt \in [Tasks -> Receipts]
        /\ held \subseteq Receipts /\ acked \subseteq Receipts /\ raced \subseteq raced'
    BY DEF Typed, TaskTypes, Remember
  <1>2. \A u, v \in Tasks :
            pc[u] \in Storing /\ pc[v] \in Deleting /\ receipt[u] = receipt[v] => receipt[u] \in raced
    BY DEF Marked
  <1> USE <1>1, <1>2 DEF Kept, Filed, Storing, Deleting, Step, StepReading, Answer, AnswerStored
  <1>3. CASE WriteReceipt(t)
    BY <1>3 DEF WriteReceipt
  <1>4. CASE RenameReceipt(t)
    BY <1>4 DEF RenameReceipt
  <1>5. CASE ReadIndex(t)
    BY <1>5 DEF ReadIndex
  <1>6. CASE OpenIndex(t)
    BY <1>6 DEF OpenIndex
  <1>7. CASE WriteIndex(t)
    BY <1>7 DEF WriteIndex
  <1>8. CASE RenameIndex(t)
    BY <1>8 DEF RenameIndex
  <1>9. CASE RenameIndexFails(t)
    BY <1>9 DEF RenameIndexFails
  <1>10. CASE StoreFails(t)
    BY <1>10 DEF StoreFails
  <1>11. CASE GetFile(t)
    BY <1>11 DEF GetFile
  <1>12. CASE GetUnreadable(t)
    BY <1>12 DEF GetUnreadable
  <1>13. CASE ListIndex(t)
    BY <1>13 DEF ListIndex
  <1>14. CASE ListFiles(t)
    BY <1>14 DEF ListFiles
  <1> QED
    BY <1>3, <1>4, <1>5, <1>6, <1>7, <1>8, <1>9, <1>10, <1>11, <1>12, <1>13, <1>14 DEF FileStep

\* A step of FileStorage keeps what was acknowledged.
LEMMA StorageKeeps ==
    ASSUME Typed, Marked, Kept, NEW t \in Tasks, StorageStep(t), Remember
    PROVE  Kept'
  <1>1. /\ pc \in [Tasks -> Places] /\ receipt \in [Tasks -> Receipts]
        /\ held \subseteq Receipts /\ acked \subseteq Receipts /\ raced \subseteq raced'
    BY DEF Typed, TaskTypes, Remember
  <1>2. \A u, v \in Tasks :
            pc[u] \in Storing /\ pc[v] \in Deleting /\ receipt[u] = receipt[v] => receipt[u] \in raced
    BY DEF Marked
  <1> USE <1>1, <1>2 DEF Kept, Filed, Storing, Deleting, Step, StepReading, Answer, AnswerStored
  <1>3. CASE CheckNew(t)
    BY <1>3 DEF CheckNew
  <1>4. CASE CreateTemp(t)
    BY <1>4 DEF CreateTemp
  <1>5. CASE RenameNew(t)
    BY <1>5 DEF RenameNew
  <1>6. CASE CacheInsert(t)
    BY <1>6 DEF CacheInsert
  <1>7. CASE LoadLook(t)
    BY <1>7 DEF LoadLook
  <1>8. CASE LoadRead(t)
    BY <1>8 DEF LoadRead
  <1>9. CASE DeleteLook(t)
    BY <1>9 DEF DeleteLook
  <1>10. CASE RemoveFile(t)
    BY <1>10 DEF RemoveFile
  <1>11. CASE CacheRemove(t)
    BY <1>11 DEF CacheRemove
  <1>12. CASE CacheHit(t)
    BY <1>12 DEF CacheHit
  <1>13. CASE ListIds(t)
    BY <1>13 DEF ListIds
  <1>14. CASE RefreshBegins(t)
    BY <1>14 DEF RefreshBegins
  <1>15. CASE RefreshEnds(t)
    BY <1>15 DEF RefreshEnds
  <1>16. CASE CacheLook(t)
    BY <1>16 DEF CacheLook
  <1>17. CASE LoadAll(t)
    BY <1>17 DEF LoadAll
  <1>18. CASE RefreshFails(t)
    BY <1>18 DEF RefreshFails
  <1>19. CASE StorageFails(t)
    BY <1>19 DEF StorageFails
  <1> QED
    BY <1>3, <1>4, <1>5, <1>6, <1>7, <1>8, <1>9, <1>10, <1>11, <1>12, <1>13, <1>14, <1>15,
       <1>16, <1>17, <1>18, <1>19 DEF StorageStep

\* A call that begins keeps what was acknowledged, but for what it deletes.
LEMMA CallKeeps ==
    ASSUME Typed, Kept, NEW t \in Tasks, Call(t), Remember
    PROVE  Kept'
  <1>1. PICK kind \in Kinds, r \in Receipts : Begin(t, kind, r)
    BY DEF Call
  <1>2. kind \notin Filed /\ (kind \in Deleting => kind = "delete") /\ held' = held /\ raced \subseteq raced'
    BY DEF Kinds, Filed, Deleting, Call, Remember
  <1>3. pc \in [Tasks -> Places] /\ receipt \in [Tasks -> Receipts]
    BY DEF Typed, TaskTypes
  <1> QED
    BY <1>1, <1>2, <1>3 DEF Begin, Kept

\* A restart keeps what was acknowledged where the store is durable, and forgets it otherwise.
LEMMA RestartKeeps ==
    ASSUME Kept, Restart, Remember
    PROVE  Kept'
  BY DEF Kept, Restart, Remember, Filed, Deleting

\* Nothing is acknowledged to begin with.
LEMMA InitKept == Init => Kept
  BY DEF Init, TasksInit, Kept, Filed, Deleting

\* Every step keeps what was acknowledged.
LEMMA NextKeeps == Typed /\ Marked /\ Kept /\ [Next]_vars => Kept'
  <1> SUFFICES ASSUME Typed, Marked, Kept, [Next]_vars PROVE Kept'
    OBVIOUS
  <1>1. CASE Restart /\ Remember
    BY <1>1, RestartKeeps
  <1>2. ASSUME NEW t \in Tasks, Call(t), Remember PROVE Kept'
    BY <1>2, CallKeeps
  <1>3. ASSUME NEW t \in Tasks, TaskStep(t) PROVE Kept'
    BY <1>3, OneStore, MemoryKeeps, MemStorageKeeps, BrowserKeeps, FileKeeps, StorageKeeps
  <1>4. CASE UNCHANGED vars
    BY <1>4 DEF vars, tasks, history, Kept
  <1> QED
    BY <1>1, <1>2, <1>3, <1>4 DEF Next

Sound == Typed /\ Marked /\ Kept

\* The three parts together are inductive.
LEMMA SoundInvariant == Spec => []Sound
  <1>1. Init => Sound
    BY InitTyped, InitMarked, InitKept DEF Sound
  <1>2. Sound /\ [Next]_vars => Sound'
    BY NextKeepsTypes, NextMarks, NextKeeps DEF Sound
  <1> QED
    BY <1>1, <1>2, PTL DEF Spec

\* AckedAreHeld: in each of the five stores, a receipt whose store returned Ok is found by its
\* id until it is deleted, however the calls interleave, whatever fails and wherever the
\* process restarts, unless a delete of it overlapped a store of it.
THEOREM AcknowledgedIsHeld == Spec => []AckedAreHeld
  <1>1. Sound => AckedAreHeld
    BY DEF Sound, Kept, AckedAreHeld
  <1> QED
    BY <1>1, SoundInvariant, PTL

-----------------------------------------------------------------------------
\* The cache of FileStorage

\* A receipt that the cache, or the directory listing that is about to go into it, names though
\* its file is gone, still has its delete at the cache, or was raced.
Cached ==
    /\ \A r \in (cache \cup listing) \ held :
           r \in raced \/ \E u \in Tasks : pc[u] = "cache_remove" /\ receipt[u] = r
    /\ backend # Storage => cache = {} /\ listing = {}

\* A step of FileStorage keeps the cache true.
LEMMA StorageCaches ==
    ASSUME Typed, Marked, Kept, Cached, NEW t \in Tasks, StorageStep(t), Remember, Marked'
    PROVE  Cached'
  <1>1. /\ pc \in [Tasks -> Places] /\ receipt \in [Tasks -> Receipts]
        /\ (scanner = NoScan => listing = {}) /\ raced \subseteq raced'
    BY DEF Typed, TaskTypes, StorageTypes, Remember
  <1>2. \A u \in Tasks : pc[u] = "cache_insert" => receipt[u] \in held \cup raced
    BY DEF Kept, Filed
  <1> USE <1>1, <1>2 DEF Cached, Using, CacheFree, cacheState, Step, Answer, AnswerStored
  <1>3. CASE CheckNew(t)
    BY <1>3 DEF CheckNew
  <1>4. CASE CreateTemp(t)
    BY <1>4 DEF CreateTemp
  <1>5. CASE RenameNew(t)
    BY <1>5 DEF RenameNew
  <1>6. CASE CacheInsert(t)
    BY <1>6 DEF CacheInsert
  <1>7. CASE LoadLook(t)
    BY <1>7 DEF LoadLook
  <1>8. CASE LoadRead(t)
    BY <1>8 DEF LoadRead
  <1>9. CASE DeleteLook(t)
    BY <1>9 DEF DeleteLook
  <1>10. CASE RemoveFile(t)
    BY <1>10 DEF RemoveFile
  <1>11. CASE CacheRemove(t)
    BY <1>11 DEF CacheRemove
  <1>12. CASE CacheHit(t)
    BY <1>12 DEF CacheHit
  <1>13. CASE ListIds(t)
    BY <1>13 DEF ListIds
  <1>14. CASE RefreshBegins(t)
    BY <1>14 DEF RefreshBegins
  <1>15. CASE RefreshEnds(t)
    BY <1>15 DEF RefreshEnds
  <1>16. CASE CacheLook(t)
    BY <1>16 DEF CacheLook
  <1>17. CASE LoadAll(t)
    BY <1>17 DEF LoadAll
  <1>18. CASE RefreshFails(t)
    BY <1>18 DEF RefreshFails
  <1>19. CASE StorageFails(t)
    BY <1>19 DEF StorageFails
  <1> QED
    BY <1>3, <1>4, <1>5, <1>6, <1>7, <1>8, <1>9, <1>10, <1>11, <1>12, <1>13, <1>14, <1>15,
       <1>16, <1>17, <1>18, <1>19 DEF StorageStep

\* Every step keeps the cache true.
LEMMA NextCaches == Sound /\ Cached /\ Sound' /\ [Next]_vars => Cached'
  <1> SUFFICES ASSUME Sound, Cached, Sound', [Next]_vars PROVE Cached'
    OBVIOUS
  <1> USE DEF Sound
  <1>1. CASE Restart /\ Remember
    BY <1>1 DEF Restart, Cached
  <1>2. ASSUME NEW t \in Tasks, Call(t), Remember PROVE Cached'
    <2>1. /\ held' = held /\ cache' = cache /\ listing' = listing /\ backend' = backend
          /\ raced \subseteq raced'
      BY <1>2 DEF Call, Begin, cacheState, Remember
    <2>2. ASSUME NEW u \in Tasks, pc[u] = "cache_remove"
          PROVE  pc'[u] = "cache_remove" /\ receipt'[u] = receipt[u]
      BY <1>2, <2>2 DEF Call, Begin, Idle, Typed, TaskTypes
    <2> QED
      BY <2>1, <2>2 DEF Cached
  <1>3. ASSUME NEW t \in Tasks, TaskStep(t) PROVE Cached'
    <2>1. CASE Using(Storage)
      BY <1>3, <2>1, OneStore, StorageCaches
         DEF Using, Memory, MemStorage, Browser, File, Storage
    <2>2. CASE ~Using(Storage)
      BY <1>3, <2>2, OneStore DEF Using, Cached, cacheState
    <2> QED
      BY <2>1, <2>2
  <1>4. CASE UNCHANGED vars
    BY <1>4 DEF vars, tasks, cacheState, history, Cached
  <1> QED
    BY <1>1, <1>2, <1>3, <1>4 DEF Next

\* StaleOnlyByRace: whenever no call is under way, FileStorage's cache names only receipts that
\* are there, but for those of which a store and a delete overlapped.
THEOREM CacheIsTrue == Spec => []StaleOnlyByRace
  <1>1. Init => Cached
    BY DEF Init, StorageInit, Cached
  <1>2. Spec => []Cached
    BY <1>1, SoundInvariant, NextCaches, PTL DEF Spec
  <1>3. Cached => StaleOnlyByRace
    BY DEF Cached, StaleOnlyByRace, Idle
  <1> QED
    BY <1>2, <1>3, PTL

-----------------------------------------------------------------------------
\* FileStorage replaces no receipt

\* A store that has found no file is about a receipt that nobody has been told is stored, and
\* the receipts replaced so far were stored twice at once, or raced.
Fresh ==
    backend = Storage =>
        /\ \A t \in Tasks : pc[t] \in {"create", "rename_new", "cache_insert"} /\ receipt[t] \in acked
                                => receipt[t] \in doubled \cup raced
        /\ replaced \subseteq doubled \cup raced

\* A step of FileStorage keeps them fresh.
LEMMA StorageStoresAfresh ==
    ASSUME Typed, Marked, Kept, Fresh, NEW t \in Tasks, StorageStep(t), Remember, Marked'
    PROVE  Fresh'
  <1>1. /\ pc \in [Tasks -> Places] /\ receipt \in [Tasks -> Receipts]
        /\ answer \in [Tasks -> Answers] /\ \A u \in Tasks : pc[u] # "idle" => answer[u] = "Pending"
        /\ raced \subseteq raced' /\ doubled \subseteq doubled' /\ acked \ raced \subseteq held
    BY DEF Typed, TaskTypes, Remember, Kept
  <1>2. \A r \in replaced' \ replaced :
            r \in acked /\ \E u \in Tasks : receipt[u] = r /\ pc[u] \in Storing /\ answer'[u] = "Ok"
    BY DEF Remember
  <1>3. \A u, v \in Tasks :
            u # v /\ pc[u] \in Storing /\ pc[v] \in Storing /\ receipt[u] = receipt[v] => receipt[u] \in doubled
    BY DEF Marked
  <1> USE <1>1, <1>2, <1>3 DEF Fresh, Storing, Using, Step, Answer, AnswerStored
  <1>4. CASE CheckNew(t)
    BY <1>4 DEF CheckNew
  <1>5. CASE CreateTemp(t)
    BY <1>5 DEF CreateTemp
  <1>6. CASE RenameNew(t)
    BY <1>6 DEF RenameNew
  <1>7. CASE CacheInsert(t)
    BY <1>7 DEF CacheInsert
  <1>8. CASE LoadLook(t)
    BY <1>8 DEF LoadLook
  <1>9. CASE LoadRead(t)
    BY <1>9 DEF LoadRead
  <1>10. CASE DeleteLook(t)
    BY <1>10 DEF DeleteLook
  <1>11. CASE RemoveFile(t)
    BY <1>11 DEF RemoveFile
  <1>12. CASE CacheRemove(t)
    BY <1>12 DEF CacheRemove
  <1>13. CASE CacheHit(t)
    BY <1>13 DEF CacheHit
  <1>14. CASE ListIds(t)
    BY <1>14 DEF ListIds
  <1>15. CASE RefreshBegins(t)
    BY <1>15 DEF RefreshBegins
  <1>16. CASE RefreshEnds(t)
    BY <1>16 DEF RefreshEnds
  <1>17. CASE CacheLook(t)
    BY <1>17 DEF CacheLook
  <1>18. CASE LoadAll(t)
    BY <1>18 DEF LoadAll
  <1>19. CASE RefreshFails(t)
    BY <1>19 DEF RefreshFails
  <1>20. CASE StorageFails(t)
    BY <1>20 DEF StorageFails
  <1> QED
    BY <1>4, <1>5, <1>6, <1>7, <1>8, <1>9, <1>10, <1>11, <1>12, <1>13, <1>14, <1>15, <1>16,
       <1>17, <1>18, <1>19, <1>20 DEF StorageStep

\* Every step keeps them fresh.
LEMMA NextFresh == Sound /\ Fresh /\ Sound' /\ [Next]_vars => Fresh'
  <1> SUFFICES ASSUME Sound, Fresh, Sound', [Next]_vars PROVE Fresh'
    OBVIOUS
  <1> USE DEF Sound
  <1>1. CASE Restart /\ Remember
    BY <1>1 DEF Restart, Remember, Fresh
  <1>2. ASSUME NEW t \in Tasks, Call(t), Remember PROVE Fresh'
    <2>1. PICK kind \in Kinds, r \in Receipts : Begin(t, kind, r)
      BY <1>2 DEF Call
    <2>2. kind \notin {"create", "rename_new", "cache_insert"}
      BY DEF Kinds
    <2>3. /\ pc \in [Tasks -> Places] /\ receipt \in [Tasks -> Receipts] /\ answer \in [Tasks -> Answers]
          /\ \A u \in Tasks : pc[u] # "idle" => answer[u] = "Pending"
      BY DEF Typed, TaskTypes
    <2>4. \A u \in Tasks : pc[u] \in Storing => answer'[u] # "Ok"
      BY <2>1, <2>3 DEF Begin, Storing
    <2>5. /\ replaced' = replaced /\ raced \subseteq raced' /\ doubled \subseteq doubled'
          /\ acked' \subseteq acked /\ backend' = backend
      BY <1>2, <2>1, <2>4 DEF Remember, Begin
    <2> QED
      BY <2>1, <2>2, <2>3, <2>5 DEF Begin, Fresh
  <1>3. ASSUME NEW t \in Tasks, TaskStep(t) PROVE Fresh'
    <2>1. CASE Using(Storage)
      BY <1>3, <2>1, OneStore, StorageStoresAfresh
         DEF Using, Memory, MemStorage, Browser, File, Storage
    <2>2. CASE ~Using(Storage)
      BY <1>3, <2>2, OneStore DEF Using, Fresh
    <2> QED
      BY <2>1, <2>2
  <1>4. CASE UNCHANGED vars
    BY <1>4 DEF vars, tasks, history, Fresh
  <1> QED
    BY <1>1, <1>2, <1>3, <1>4 DEF Next

\* ReplacedOnlyByRace: FileStorage's store returns Ok for a receipt that is already acknowledged
\* only if two stores of it, or a store and a delete of it, overlapped.
THEOREM NeverReplaced == Spec => []ReplacedOnlyByRace
  <1>1. Init => Fresh
    BY DEF Init, TasksInit, Fresh
  <1>2. Spec => []Fresh
    BY <1>1, SoundInvariant, NextFresh, PTL DEF Spec
  <1>3. Fresh => ReplacedOnlyByRace
    BY DEF Fresh, ReplacedOnlyByRace, Using
  <1> QED
    BY <1>2, <1>3, PTL

-----------------------------------------------------------------------------
\* Absences

\* What an exists of FileStorage has seen so far: a receipt that is not in the listing of its
\* refresh_cache, or not in the cache after it, was absent during the call; a delete at the
\* cache about a receipt that is there again was raced.
Looked ==
    backend = Storage =>
        \A t \in Tasks :
            /\ pc[t] = "scan" /\ receipt[t] \notin listing => t \in missed
            /\ pc[t] = "look_again" /\ receipt[t] \notin cache => t \in missed \/ receipt[t] \in raced
            /\ pc[t] = "cache_remove" /\ receipt[t] \in held => receipt[t] \in raced

Absences ==
    \A t \in Tasks :
        answer[t] = "Absent" =>
            \/ t \in missed
            \/ backend = File /\ faults > 0
            \/ backend = Storage /\ receipt[t] \in raced

\* A call that returns, and says "not found" only of a receipt that is not there.
LEMMA TruthfulAnswer ==
    ASSUME Typed, Marked, Absences, NEW t \in Tasks, NEW from \in Places \ {"idle"}, NEW what \in Answers,
           Answer(t, from, what), what = "Absent" => receipt[t] \notin held, faults' = faults, Remember
    PROVE  Absences'
  <1>1. /\ pc \in [Tasks -> Places] /\ answer \in [Tasks -> Answers] /\ raced \subseteq raced'
        /\ receipt' = receipt /\ backend' = backend /\ pc[t] # "idle"
        /\ pc' = [pc EXCEPT ![t] = "idle"] /\ answer' = [answer EXCEPT ![t] = what]
    BY DEF Typed, TaskTypes, Answer, Remember
  <1>2. \A u \in Tasks : u \in missed => u \in missed'
    BY <1>1 DEF Remember, Idle
  <1>3. ASSUME answer'[t] = "Absent" PROVE t \in missed'
    BY <1>1, <1>2, <1>3 DEF Marked
  <1> QED
    BY <1>1, <1>2, <1>3 DEF Absences

\* A step of InMemoryReceiptStore answers "not found" only when it is true.
LEMMA MemoryAnswers ==
    ASSUME Typed, Marked, Absences, NEW t \in Tasks, MemoryStep(t), Remember
    PROVE  Absences'
  <1>1. /\ pc \in [Tasks -> Places] /\ receipt \in [Tasks -> Receipts]
        /\ answer \in [Tasks -> Answers] /\ faults \in Nat
        /\ \A u \in Tasks : pc[u] # "idle" => answer[u] = "Pending"
    BY DEF Typed, TaskTypes
  <1>2. \A u \in Tasks : /\ pc[u] # "idle" /\ receipt[u] \notin held => u \in missed
                        /\ u \in missed /\ (pc[u] # "idle" \/ pc'[u] = "idle") => u \in missed'
    BY DEF Marked, Remember, Idle
  <1> USE <1>1, <1>2
        DEF Absences, Found, Fault, Using, Memory, Storage, Step, StepReading, Answer,
            AnswerStored
  <1>3. CASE LockReceipts(t)
    BY <1>3 DEF LockReceipts
  <1>4. CASE InsertReceipt(t)
    BY <1>4 DEF InsertReceipt
  <1>5. CASE LockByAction(t)
    BY <1>5 DEF LockByAction
  <1>6. CASE ListMemory(t)
    BY <1>6 DEF ListMemory
  <1>7. CASE GetMemory(t)
    BY <1>7, TruthfulAnswer DEF GetMemory, Answers, Places, Storing, Deleting
  <1> QED
    BY <1>3, <1>4, <1>5, <1>6, <1>7 DEF MemoryStep

\* A step of MemStorage answers "not found" only when it is true.
LEMMA MemStorageAnswers ==
    ASSUME Typed, Marked, Absences, NEW t \in Tasks, MemStorageStep(t), Remember
    PROVE  Absences'
  <1>1. /\ pc \in [Tasks -> Places] /\ receipt \in [Tasks -> Receipts]
        /\ answer \in [Tasks -> Answers] /\ faults \in Nat
        /\ \A u \in Tasks : pc[u] # "idle" => answer[u] = "Pending"
    BY DEF Typed, TaskTypes
  <1>2. \A u \in Tasks : /\ pc[u] # "idle" /\ receipt[u] \notin held => u \in missed
                        /\ u \in missed /\ (pc[u] # "idle" \/ pc'[u] = "idle") => u \in missed'
    BY DEF Marked, Remember, Idle
  <1> USE <1>1, <1>2
        DEF Absences, Found, Fault, Using, MemStorage, Storage, Step, StepReading, Answer,
            AnswerStored
  <1>3. CASE StoreInMap(t)
    BY <1>3 DEF StoreInMap
  <1>4. CASE DeleteFromMap(t)
    BY <1>4, TruthfulAnswer DEF DeleteFromMap, Answers, Places, Storing, Deleting
  <1>5. CASE ReadMap(t)
    BY <1>5, TruthfulAnswer DEF ReadMap, Answers, Places, Storing, Deleting
  <1> QED
    BY <1>3, <1>4, <1>5 DEF MemStorageStep

\* A step of WasmReceiptStore answers "not found" only when it is true.
LEMMA BrowserAnswers ==
    ASSUME Typed, Marked, Absences, NEW t \in Tasks, BrowserStep(t), Remember
    PROVE  Absences'
  <1>1. /\ pc \in [Tasks -> Places] /\ receipt \in [Tasks -> Receipts]
        /\ answer \in [Tasks -> Answers] /\ faults \in Nat
        /\ \A u \in Tasks : pc[u] # "idle" => answer[u] = "Pending"
    BY DEF Typed, TaskTypes
  <1>2. \A u \in Tasks : /\ pc[u] # "idle" /\ receipt[u] \notin held => u \in missed
                        /\ u \in missed /\ (pc[u] # "idle" \/ pc'[u] = "idle") => u \in missed'
    BY DEF Marked, Remember, Idle
  <1> USE <1>1, <1>2
        DEF Absences, Found, Fault, Using, Browser, Storage, Step, StepReading, Answer,
            AnswerStored
  <1>3. CASE SetReceipt(t)
    BY <1>3 DEF SetReceipt
  <1>4. CASE GetActionIds(t)
    BY <1>4 DEF GetActionIds
  <1>5. CASE SetActionIds(t)
    BY <1>5 DEF SetActionIds
  <1>6. CASE QuotaExceeded(t)
    BY <1>6 DEF QuotaExceeded
  <1>7. CASE GetItem(t)
    BY <1>7, TruthfulAnswer DEF GetItem, Answers, Places, Storing, Deleting
  <1>8. CASE ListActionIds(t)
    BY <1>8 DEF ListActionIds
  <1>9. CASE ListItems(t)
    BY <1>9 DEF ListItems
  <1> QED
    BY <1>3, <1>4, <1>5, <1>6, <1>7, <1>8, <1>9 DEF BrowserStep

\* A step of FileReceiptStore answers "not found" only when it is true.
LEMMA FileAnswers ==
    ASSUME Typed, Marked, Absences, NEW t \in Tasks, FileStep(t), Remember
    PROVE  Absences'
  <1>1. /\ pc \in [Tasks -> Places] /\ receipt \in [Tasks -> Receipts]
        /\ answer \in [Tasks -> Answers] /\ faults \in Nat
        /\ \A u \in Tasks : pc[u] # "idle" => answer[u] = "Pending"
    BY DEF Typed, TaskTypes
  <1>2. \A u \in Tasks : /\ pc[u] # "idle" /\ receipt[u] \notin held => u \in missed
                        /\ u \in missed /\ (pc[u] # "idle" \/ pc'[u] = "idle") => u \in missed'
    BY DEF Marked, Remember, Idle
  <1> USE <1>1, <1>2
        DEF Absences, Found, Fault, Using, File, Storage, Step, StepReading, Answer, AnswerStored
  <1>3. CASE WriteReceipt(t)
    BY <1>3 DEF WriteReceipt
  <1>4. CASE RenameReceipt(t)
    BY <1>4 DEF RenameReceipt
  <1>5. CASE ReadIndex(t)
    BY <1>5 DEF ReadIndex
  <1>6. CASE OpenIndex(t)
    BY <1>6 DEF OpenIndex
  <1>7. CASE WriteIndex(t)
    BY <1>7 DEF WriteIndex
  <1>8. CASE RenameIndex(t)
    BY <1>8 DEF RenameIndex
  <1>9. CASE RenameIndexFails(t)
    BY <1>9 DEF RenameIndexFails
  <1>10. CASE StoreFails(t)
    BY <1>10 DEF StoreFails
  <1>11. CASE GetFile(t)
    BY <1>11, TruthfulAnswer DEF GetFile, Answers, Places, Storing, Deleting
  <1>12. CASE GetUnreadable(t)
    BY <1>12 DEF GetUnreadable
  <1>13. CASE ListIndex(t)
    BY <1>13 DEF ListIndex
  <1>14. CASE ListFiles(t)
    BY <1>14 DEF ListFiles
  <1> QED
    BY <1>3, <1>4, <1>5, <1>6, <1>7, <1>8, <1>9, <1>10, <1>11, <1>12, <1>13, <1>14 DEF FileStep

\* A step of FileStorage keeps what its exists has seen.
LEMMA StorageLooks ==
    ASSUME Typed, Marked, Kept, Looked, NEW t \in Tasks, StorageStep(t), Remember, Marked'
    PROVE  Looked'
  <1>1. /\ pc \in [Tasks -> Places] /\ receipt \in [Tasks -> Receipts]
        /\ answer \in [Tasks -> Answers] /\ faults \in Nat
        /\ \A u \in Tasks : pc[u] # "idle" => answer[u] = "Pending"
    BY DEF Typed, TaskTypes
  <1>2. \A u \in Tasks : /\ pc[u] # "idle" /\ receipt[u] \notin held => u \in missed
                        /\ u \in missed /\ (pc[u] # "idle" \/ pc'[u] = "idle") => u \in missed'
    BY DEF Marked, Remember, Idle
  <1>3. /\ raced \subseteq raced' /\ (scanner = NoScan => listing = {})
        /\ \A u \in Tasks : pc[u] \in {"scan", "scan_all"} => scanner = u
    BY DEF Typed, StorageTypes, ScanLocked, Remember
  <1>4. \A u \in Tasks : pc'[u] # "idle" /\ receipt'[u] \notin held' => u \in missed'
    BY DEF Marked
  <1>5. \A u, v \in Tasks :
            pc[u] \in Storing /\ pc[v] \in Deleting /\ receipt[u] = receipt[v] => receipt[u] \in raced
    BY DEF Marked
  <1> USE <1>1, <1>2, <1>3, <1>4, <1>5
        DEF Looked, Using, CacheFree, cacheState, Storing, Deleting, Step, Answer, AnswerStored
  <1>6. CASE CheckNew(t)
    BY <1>6 DEF CheckNew
  <1>7. CASE CreateTemp(t)
    BY <1>7 DEF CreateTemp
  <1>8. CASE RenameNew(t)
    BY <1>8 DEF RenameNew
  <1>9. CASE CacheInsert(t)
    BY <1>9 DEF CacheInsert
  <1>10. CASE LoadLook(t)
    BY <1>10 DEF LoadLook
  <1>11. CASE LoadRead(t)
    BY <1>11 DEF LoadRead
  <1>12. CASE DeleteLook(t)
    BY <1>12 DEF DeleteLook
  <1>13. CASE RemoveFile(t)
    BY <1>13 DEF RemoveFile
  <1>14. CASE CacheRemove(t)
    BY <1>14 DEF CacheRemove
  <1>15. CASE CacheHit(t)
    BY <1>15 DEF CacheHit
  <1>16. CASE ListIds(t)
    BY <1>16 DEF ListIds
  <1>17. CASE RefreshBegins(t)
    BY <1>17, NoScanAssumption DEF RefreshBegins
  <1>18. CASE RefreshEnds(t)
    BY <1>18 DEF RefreshEnds
  <1>19. CASE CacheLook(t)
    BY <1>19 DEF CacheLook
  <1>20. CASE LoadAll(t)
    BY <1>20 DEF LoadAll
  <1>21. CASE RefreshFails(t)
    BY <1>21 DEF RefreshFails
  <1>22. CASE StorageFails(t)
    BY <1>22 DEF StorageFails
  <1> QED
    BY <1>6, <1>7, <1>8, <1>9, <1>10, <1>11, <1>12, <1>13, <1>14, <1>15, <1>16, <1>17, <1>18,
       <1>19, <1>20, <1>21, <1>22 DEF StorageStep

\* A step of FileStorage answers "not found" only when it is true.
LEMMA StorageAnswers ==
    ASSUME Typed, Marked, Looked, Absences, NEW t \in Tasks, StorageStep(t), Remember
    PROVE  Absences'
  <1>1. /\ pc \in [Tasks -> Places] /\ receipt \in [Tasks -> Receipts]
        /\ answer \in [Tasks -> Answers] /\ faults \in Nat
        /\ \A u \in Tasks : pc[u] # "idle" => answer[u] = "Pending"
    BY DEF Typed, TaskTypes
  <1>2. \A u \in Tasks : /\ pc[u] # "idle" /\ receipt[u] \notin held => u \in missed
                        /\ u \in missed /\ (pc[u] # "idle" \/ pc'[u] = "idle") => u \in missed'
    BY DEF Marked, Remember, Idle
  <1>3. raced \subseteq raced' /\ \A u \in Tasks : backend = Storage /\ pc[u] = "look_again" /\ receipt[u] \notin cache
                                   => u \in missed \/ receipt[u] \in raced
    BY DEF Looked, Remember
  <1> USE <1>1, <1>2, <1>3 DEF Absences, Fault, Using, Step, Answer, AnswerStored
  <1>4. CASE CheckNew(t)
    BY <1>4 DEF CheckNew
  <1>5. CASE CreateTemp(t)
    BY <1>5 DEF CreateTemp
  <1>6. CASE RenameNew(t)
    BY <1>6 DEF RenameNew
  <1>7. CASE CacheInsert(t)
    BY <1>7 DEF CacheInsert
  <1>8. CASE LoadLook(t)
    BY <1>8, TruthfulAnswer DEF LoadLook, Answers, Places, Storing, Deleting
  <1>9. CASE LoadRead(t)
    BY <1>9 DEF LoadRead
  <1>10. CASE DeleteLook(t)
    BY <1>10, TruthfulAnswer DEF DeleteLook, Answers, Places, Storing, Deleting
  <1>11. CASE RemoveFile(t)
    BY <1>11 DEF RemoveFile
  <1>12. CASE CacheRemove(t)
    BY <1>12 DEF CacheRemove
  <1>13. CASE CacheHit(t)
    BY <1>13 DEF CacheHit
  <1>14. CASE ListIds(t)
    BY <1>14 DEF ListIds
  <1>15. CASE RefreshBegins(t)
    BY <1>15 DEF RefreshBegins
  <1>16. CASE RefreshEnds(t)
    BY <1>16 DEF RefreshEnds
  <1>17. CASE CacheLook(t)
    BY <1>17 DEF CacheLook
  <1>18. CASE LoadAll(t)
    BY <1>18 DEF LoadAll
  <1>19. CASE RefreshFails(t)
    BY <1>19 DEF RefreshFails
  <1>20. CASE StorageFails(t)
    BY <1>20 DEF StorageFails
  <1> QED
    BY <1>4, <1>5, <1>6, <1>7, <1>8, <1>9, <1>10, <1>11, <1>12, <1>13, <1>14, <1>15, <1>16,
       <1>17, <1>18, <1>19, <1>20 DEF StorageStep

\* Every step keeps what is known of the absences.
LEMMA NextLooks == Sound /\ Looked /\ Absences /\ Sound' /\ [Next]_vars => Looked' /\ Absences'
  <1> SUFFICES ASSUME Sound, Looked, Absences, Sound', [Next]_vars PROVE Looked' /\ Absences'
    OBVIOUS
  <1> USE DEF Sound
  <1>1. CASE Restart /\ Remember
    BY <1>1 DEF Restart, Looked, Absences
  <1>2. ASSUME NEW t \in Tasks, Call(t), Remember PROVE Looked' /\ Absences'
    <2>1. PICK kind \in Kinds, r \in Receipts : Begin(t, kind, r)
      BY <1>2 DEF Call
    <2>2. kind \notin {"scan", "look_again", "cache_remove"}
      BY DEF Kinds
    <2>3. /\ pc \in [Tasks -> Places] /\ receipt \in [Tasks -> Receipts] /\ answer \in [Tasks -> Answers]
          /\ raced \subseteq raced'
      BY <1>2 DEF Typed, TaskTypes, Remember
    <2>4. \A u \in Tasks \ {t} : /\ pc'[u] = pc[u] /\ receipt'[u] = receipt[u] /\ answer'[u] = answer[u]
                                 /\ u \in missed => u \in missed'
      BY <1>2, <2>1, <2>3 DEF Begin, Remember, Idle
    <2>5. /\ pc'[t] = kind /\ answer'[t] = "Pending" /\ backend' = backend /\ faults' = faults
          /\ held' = held /\ cache' = cache /\ listing' = listing
      BY <1>2, <2>1, <2>3 DEF Begin, Call, cacheState
    <2> QED
      BY <2>2, <2>3, <2>4, <2>5 DEF Looked, Absences
  <1>3. ASSUME NEW t \in Tasks, TaskStep(t) PROVE Looked' /\ Absences'
    <2>1. CASE Using(Storage)
      BY <1>3, <2>1, OneStore, StorageLooks, StorageAnswers
         DEF Using, Memory, MemStorage, Browser, File, Storage
    <2>2. CASE ~Using(Storage)
      BY <1>3, <2>2, OneStore, MemoryAnswers, MemStorageAnswers, BrowserAnswers, FileAnswers
         DEF Using, Looked
    <2> QED
      BY <2>1, <2>2
  <1>4. CASE UNCHANGED vars
    BY <1>4 DEF vars, tasks, cacheState, history, Looked, Absences
  <1> QED
    BY <1>1, <1>2, <1>3, <1>4 DEF Next

\* NoFalseAbsence: whichever of the five stores a task calls, "not found" is true at some time
\* of the call, but for a file that FileReceiptStore cannot read and for a receipt that was
\* stored and deleted at once in FileStorage.
THEOREM AbsenceIsTrue == Spec => []NoFalseAbsence
  <1>1. Init => Looked /\ Absences
    BY DEF Init, TasksInit, Looked, Absences
  <1>2. Spec => [](Looked /\ Absences)
    BY <1>1, SoundInvariant, NextLooks, PTL DEF Spec
  <1>3. Absences => NoFalseAbsence
    BY DEF Absences, NoFalseAbsence, Using
  <1> QED
    BY <1>2, <1>3, PTL

-----------------------------------------------------------------------------
\* Acknowledged receipts are listed

Listed(map) == \A r \in acked : r \in Ids(map[ActionOf[r]])

MemoryListed == backend = Memory => Listed(by_action)

\* A tab that is about to write the ids of an action has read those that are there.
BrowserListed ==
    backend = Browser /\ ~disturbed =>
        /\ Listed(by_action)
        /\ \A t \in Tasks : pc[t] = "set_action_ids" => seen[t] = by_action

\* A task that is about to replace index.json has that index and its own receipt in hand, then
\* in the file index.tmp, which it has to itself.
FileListed ==
    backend = File /\ ~disturbed =>
        /\ Listed(IndexOrDefault(index))
        /\ \A t \in Tasks :
               /\ pc[t] \in {"open_index", "write_index", "rename_index"}
                      => seen[t] = WithReceipt(IndexOrDefault(index), receipt[t])
               /\ pc[t] = "write_index" => opened[t] = "index.tmp" /\ index_tmp = Torn
               /\ pc[t] = "rename_index" => index_tmp = Text(seen[t])

AllListed == MemoryListed /\ BrowserListed /\ FileListed

\* The index of a file is an index.
LEMMA IndexTyped ==
    ASSUME NEW file, IsFile(file)
    PROVE  IndexOrDefault(file) \in Indexes
  BY EmptyTyped DEF IsFile, IndexOrDefault, NoFile, Torn

\* An id that is added to the list of its action is listed, and so are those that were.
LEMMA ListedAppend ==
    ASSUME Typed, NEW map \in Indexes, NEW t \in Tasks, Listed(map),
           NEW next, next = [map EXCEPT ![ActionOf[receipt[t]]] = Append(@, receipt[t])],
           acked' \subseteq acked \cup {receipt[t]}
    PROVE  \A r \in acked' : r \in Ids(next[ActionOf[r]])
  <1>1. receipt[t] \in Receipts /\ acked \subseteq Receipts /\ next = WithReceipt(map, receipt[t])
    BY DEF Typed, TaskTypes, WithReceipt
  <1>2. \A r \in Receipts : ActionOf[r] \in Actions
    BY ActionAssumption
  <1> QED
    BY <1>1, <1>2, WithReceiptTyped DEF Listed

\* A step of InMemoryReceiptStore keeps the acknowledged receipts listed.
LEMMA MemoryLists ==
    ASSUME Typed, MemoryListed, backend = Memory, NEW t \in Tasks, MemoryStep(t)
    PROVE  MemoryListed'
  <1>1. CASE InsertReceipt(t)
    <2>1. by_action \in Indexes /\ Listed(by_action)
      BY DEF Typed, MemoryTypes, MemoryListed
    <2>2. /\ by_action' = [by_action EXCEPT ![ActionOf[receipt[t]]] = Append(@, receipt[t])]
          /\ acked' = acked \cup {receipt[t]}
      BY <1>1 DEF InsertReceipt, AnswerStored
    <2> QED
      BY <2>1, <2>2, ListedAppend DEF MemoryListed, Listed
  <1>2. CASE LockReceipts(t) \/ LockByAction(t) \/ ListMemory(t) \/ GetMemory(t)
    <2>1. by_action' = by_action /\ acked' = acked /\ backend' = backend
      BY <1>2 DEF LockReceipts, LockByAction, ListMemory, GetMemory, Step, Answer, memory
    <2> QED
      BY <2>1 DEF MemoryListed, Listed
  <1> QED
    BY <1>1, <1>2 DEF MemoryStep

\* A step of WasmReceiptStore keeps them listed while no two stores overlap.
LEMMA BrowserLists ==
    ASSUME Typed, Marked, BrowserListed, backend = Browser, NEW t \in Tasks, BrowserStep(t), Remember
    PROVE  BrowserListed'
  <1> SUFFICES ASSUME ~disturbed', backend' = Browser
               PROVE  /\ \A r \in acked' : r \in Ids(by_action'[ActionOf[r]])
                      /\ \A u \in Tasks : pc'[u] = "set_action_ids" => seen'[u] = by_action'
    BY DEF BrowserListed, Listed
  <1>1. /\ ~disturbed /\ faults' = faults /\ Listed(by_action)
        /\ \A u \in Tasks : pc[u] = "set_action_ids" => seen[u] = by_action
    BY DEF Remember, BrowserListed
  <1>2. \A u \in Tasks \ {t} : pc[t] \in Storing => pc[u] \notin Storing
    BY <1>1 DEF Marked
  <1>3. /\ pc \in [Tasks -> Places] /\ receipt \in [Tasks -> Receipts] /\ seen \in [Tasks -> Indexes]
        /\ by_action \in Indexes
    BY DEF Typed, TaskTypes, MemoryTypes
  <1>4. CASE SetActionIds(t)
    <2>1. /\ by_action' = [by_action EXCEPT ![ActionOf[receipt[t]]] = Append(@, receipt[t])]
          /\ acked' = acked \cup {receipt[t]} /\ pc[t] = "set_action_ids"
          /\ pc' = [pc EXCEPT ![t] = "idle"]
      BY <1>1, <1>3, <1>4 DEF SetActionIds, AnswerStored
    <2>2. \A u \in Tasks : pc'[u] # "set_action_ids"
      BY <1>2, <1>3, <2>1 DEF Storing
    <2> QED
      BY <1>1, <1>3, <2>1, <2>2, ListedAppend
  <1>5. CASE GetActionIds(t)
    <2>1. by_action' = by_action /\ acked' \subseteq acked \cup {receipt[t]}
      BY <1>5 DEF GetActionIds, AnswerStored, StepReading, memory
    <2>2. receipt[t] \in acked' \ acked => receipt[t] \in Ids(by_action[ActionOf[receipt[t]]])
      BY <1>5 DEF GetActionIds, IdsOf, StepReading
    <2>3. \A u \in Tasks : pc'[u] = "set_action_ids" => seen'[u] = by_action
      BY <1>1, <1>3, <1>5 DEF GetActionIds, AnswerStored, StepReading
    <2> QED
      BY <1>1, <2>1, <2>2, <2>3 DEF Listed
  <1>6. CASE SetReceipt(t) \/ GetItem(t) \/ ListActionIds(t) \/ ListItems(t) \/ QuotaExceeded(t)
    <2>1. /\ by_action' = by_action /\ acked' = acked
          /\ \A u \in Tasks : pc'[u] = "set_action_ids" => pc[u] = "set_action_ids" /\ seen'[u] = seen[u]
      BY <1>3, <1>6 DEF SetReceipt, GetItem, ListActionIds, ListItems, QuotaExceeded, Step,
                        StepReading, Answer, memory
    <2> QED
      BY <1>1, <2>1 DEF Listed
  <1> QED
    BY <1>4, <1>5, <1>6 DEF BrowserStep

\* A step of FileReceiptStore keeps them listed while no two stores overlap and nothing fails.
LEMMA FileLists ==
    ASSUME Typed, Marked, FileListed, backend = File, NEW t \in Tasks, FileStep(t), Remember
    PROVE  FileListed'
  <1> DEFINE Indexing == {"open_index", "write_index", "rename_index"}
  <1> SUFFICES ASSUME ~disturbed', backend' = File
               PROVE  /\ \A r \in acked' : r \in Ids(IndexOrDefault(index')[ActionOf[r]])
                      /\ \A u \in Tasks :
                             /\ pc'[u] \in Indexing
                                    => seen'[u] = WithReceipt(IndexOrDefault(index'), receipt'[u])
                             /\ pc'[u] = "write_index" => opened'[u] = "index.tmp" /\ index_tmp' = Torn
                             /\ pc'[u] = "rename_index" => index_tmp' = Text(seen'[u])
    BY DEF FileListed, Listed, IndexOrDefault
  <1>1. /\ ~disturbed /\ faults' = faults /\ \A r \in acked : r \in Ids(IndexOrDefault(index)[ActionOf[r]])
        /\ \A u \in Tasks :
               /\ pc[u] \in Indexing => seen[u] = WithReceipt(IndexOrDefault(index), receipt[u])
               /\ pc[u] = "write_index" => opened[u] = "index.tmp" /\ index_tmp = Torn
               /\ pc[u] = "rename_index" => index_tmp = Text(seen[u])
    BY DEF Remember, FileListed, Listed
  <1>2. \A u \in Tasks \ {t} : pc[t] \in Storing => pc[u] \notin Indexing
    BY <1>1 DEF Marked, Storing
  <1>3. /\ pc \in [Tasks -> Places] /\ receipt \in [Tasks -> Receipts] /\ seen \in [Tasks -> Indexes]
        /\ opened \in [Tasks -> {"none", "index.tmp", "index.json", "unlinked"}]
        /\ IndexOrDefault(index) \in Indexes /\ faults \in Nat
    BY IndexTyped DEF Typed, TaskTypes, FileTypes
  <1>4. CASE ReadIndex(t)
    <2>1. StepReading(t, "read_index", "open_index", WithReceipt(IndexOrDefault(index), receipt[t]))
      BY <1>1, <1>3, <1>4 DEF ReadIndex, Fault
    <2>2. UNCHANGED <<index, index_tmp, opened, acked, receipt>>
      BY <1>4, <2>1 DEF ReadIndex, StepReading, indexFiles
    <2> QED
      BY <1>1, <1>2, <1>3, <2>1, <2>2 DEF StepReading, Storing
  <1>5. CASE OpenIndex(t)
    BY <1>1, <1>2, <1>3, <1>5 DEF OpenIndex, Step, Storing
  <1>6. CASE WriteIndex(t)
    <2>1. index_tmp' = Text(seen[t]) /\ index' = index
      BY <1>1, <1>6 DEF WriteIndex, Step, Overwritten, Torn
    <2> QED
      BY <1>1, <1>2, <1>3, <1>6, <2>1 DEF WriteIndex, Step, Storing
  <1>7. CASE RenameIndex(t)
    <2>1. /\ index' = Text(WithReceipt(IndexOrDefault(index), receipt[t])) /\ acked' = acked \cup {receipt[t]}
          /\ pc[t] = "rename_index" /\ pc' = [pc EXCEPT ![t] = "idle"]
      BY <1>1, <1>7 DEF RenameIndex, AnswerStored
    <2>2. IndexOrDefault(index') = WithReceipt(IndexOrDefault(index), receipt[t])
      BY <2>1 DEF IndexOrDefault, Text
    <2>3. \A u \in Tasks : pc'[u] \notin Indexing
      BY <1>2, <1>3, <2>1 DEF Storing
    <2> QED
      BY <1>1, <1>3, <2>1, <2>2, <2>3, ListedAppend DEF Listed, WithReceipt
  <1>8. CASE WriteReceipt(t) \/ RenameReceipt(t) \/ RenameIndexFails(t) \/ GetFile(t) \/ ListIndex(t)
             \/ ListFiles(t)
    <2>1. /\ UNCHANGED <<index, index_tmp, opened, acked, receipt>>
          /\ \A u \in Tasks : pc'[u] \in Indexing => pc'[u] = pc[u] /\ seen'[u] = seen[u]
      BY <1>3, <1>8
         DEF WriteReceipt, RenameReceipt, RenameIndexFails, GetFile, ListIndex, ListFiles,
                        Step, StepReading, Answer, indexFiles
    <2> QED
      BY <1>1, <2>1
  <1>9. CASE StoreFails(t) \/ GetUnreadable(t)
    <2>1. FALSE
      BY <1>1, <1>3, <1>9 DEF StoreFails, GetUnreadable, Fault
    <2> QED
      BY <2>1
  <1> QED
    BY <1>4, <1>5, <1>6, <1>7, <1>8, <1>9 DEF FileStep

\* Every step keeps the acknowledged receipts listed.
LEMMA NextLists == Sound /\ AllListed /\ Sound' /\ [Next]_vars => AllListed'
  <1> SUFFICES ASSUME Sound, AllListed, Sound', [Next]_vars PROVE AllListed'
    OBVIOUS
  <1> USE DEF Sound, AllListed
  <1>1. CASE Restart /\ Remember
    <2>1. /\ acked' \subseteq acked /\ index' = index /\ backend' = backend
          /\ \A t \in Tasks : pc'[t] = "idle"
          /\ (Durable => by_action' = by_action) /\ (~Durable => acked' = {})
          /\ disturbed => disturbed'
      BY <1>1 DEF Restart, Remember
    <2> QED
      BY <2>1
         DEF MemoryListed, BrowserListed, FileListed, Listed, IndexOrDefault, Durable, Memory,
             Browser,
                  File, Storage
  <1>2. ASSUME NEW t \in Tasks, Call(t), Remember PROVE AllListed'
    <2>1. PICK kind \in Kinds, r \in Receipts : Begin(t, kind, r)
      BY <1>2 DEF Call
    <2>2. kind \notin {"set_action_ids", "open_index", "write_index", "rename_index"}
      BY DEF Kinds
    <2>3. /\ acked' \subseteq acked /\ by_action' = by_action /\ index' = index /\ index_tmp' = index_tmp
          /\ opened' = opened /\ seen' = seen /\ backend' = backend /\ (disturbed => disturbed')
      BY <1>2, <2>1 DEF Call, Begin, memory, indexFiles, Remember
    <2>4. \A u \in Tasks : pc'[u] \in {"set_action_ids", "open_index", "write_index", "rename_index"}
                              => pc'[u] = pc[u] /\ receipt'[u] = receipt[u]
      BY <2>1, <2>2 DEF Begin, Typed, TaskTypes
    <2> QED
      BY <2>3, <2>4 DEF MemoryListed, BrowserListed, FileListed, Listed, IndexOrDefault
  <1>3. ASSUME NEW t \in Tasks, TaskStep(t) PROVE AllListed'
    <2> USE <1>3, OneStore DEF Using, Memory, MemStorage, Browser, File, Storage
    <2>1. MemoryListed'
      BY MemoryLists DEF MemoryListed
    <2>2. BrowserListed'
      BY BrowserLists DEF BrowserListed
    <2>3. FileListed'
      BY FileLists DEF FileListed
    <2> QED
      BY <2>1, <2>2, <2>3
  <1>4. CASE UNCHANGED vars
    BY <1>4 DEF vars, tasks, memory, indexFiles, history, MemoryListed, BrowserListed, FileListed,
                Listed, IndexOrDefault
  <1> QED
    BY <1>1, <1>2, <1>3, <1>4 DEF Next

\* SerialStoresListed: list_by_action misses no acknowledged receipt while no two stores overlap
\* and no operation fails, wherever the process restarts: in the file store even between the
\* write of index.tmp and its rename.
THEOREM AcknowledgedIsListed == Spec => []SerialStoresListed
  <1>1. Init => AllListed
    BY DEF Init, TasksInit, AllListed, MemoryListed, BrowserListed, FileListed, Listed
  <1>2. Spec => []AllListed
    BY <1>1, SoundInvariant, NextLists, PTL DEF Spec
  <1>3. Sound /\ AllListed => SerialStoresListed
    <2> SUFFICES ASSUME Sound, AllListed, ~disturbed, NEW r \in acked \ raced
                 PROVE  r \in IndexOf(ActionOf[r])
      BY DEF SerialStoresListed
    <2>1. r \in held
      BY DEF Sound, Kept
    <2> QED
      BY <2>1 DEF AllListed, MemoryListed, BrowserListed, FileListed, Listed, IndexOf,
                  Memory, Browser, File
  <1> QED
    BY <1>2, <1>3, SoundInvariant, PTL

=============================================================================
