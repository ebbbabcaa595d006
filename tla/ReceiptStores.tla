---------------------------- MODULE ReceiptStores ----------------------------
(***************************************************************************)
(* The receipt stores together, and what each of them promises.  Init      *)
(* chooses the implementation; the tasks call it in any order.  A restart  *)
(* of the process drops the calls under way and whatever is in memory.     *)
(***************************************************************************)
EXTENDS BrowserReceiptStore, FileReceiptStore, FileStorage

VARIABLES
    disturbed,  \* history: two stores overlapped, or a fault has struck
    raced,      \* history: receipts of which a store and a delete overlapped
    doubled,    \* history: receipts of which two stores overlapped
    replaced,   \* history: receipts stored again while they were there
    missed      \* history: the tasks whose receipt was absent at some time of their call

history == <<disturbed, raced, doubled, replaced, missed>>
vars == <<tasks, held, faults, memory, indexFiles, cacheState, history>>

Kinds ==
    {"store", "get", "exists", "list"}
        \cup IF backend \in {MemStorage, Storage} THEN {"delete"} ELSE {}

Storing == {"store", "lock_by_action", "rename", "read_index", "open_index", "write_index",
            "rename_index", "get_action_ids", "set_action_ids", "create",
            "rename_new", "cache_insert"}
Deleting == {"delete", "remove", "cache_remove"}

Init ==
    /\ TasksInit /\ MemoryInit /\ FileInit /\ StorageInit
    /\ disturbed = FALSE /\ raced = {} /\ doubled = {} /\ replaced = {} /\ missed = {}

\* A receipt has a fresh id, so two calls that overlap store two receipts; FileStorage,
\* which checks for the id, is also called with the same one.
Call(t) ==
    /\ \E kind \in Kinds, r \in Receipts :
           /\ kind = "store" /\ ~Using(Storage) => \A u \in Tasks : pc[u] \in Storing => receipt[u] # r
           /\ Begin(t, kind, r)
    /\ UNCHANGED <<held, faults, memory, indexFiles, cacheState>>

Work(t) ==
    \/ (MemoryStep(t) \/ MemStorageStep(t) \/ BrowserStep(t)) /\ UNCHANGED <<indexFiles, cacheState>>
    \/ FileStep(t) /\ UNCHANGED <<memory, cacheState>>
    \/ StorageStep(t) /\ UNCHANGED <<memory, indexFiles>>

Durable == backend \in {File, Browser, Storage}

Restart ==
    /\ crashes < MaxCrashes /\ crashes' = crashes + 1
    /\ pc' = [t \in Tasks |-> "idle"]
    /\ answer' = [t \in Tasks |-> "Pending"]
    /\ seen' = [t \in Tasks |-> Empty]
    /\ held' = IF Durable THEN held ELSE {}
    /\ acked' = IF Durable THEN acked ELSE {}
    /\ by_action' = IF Durable THEN by_action ELSE Empty
    /\ receipts_writer' = Nobody /\ by_action_readers' = {}
    /\ opened' = [t \in Tasks |-> "none"]
    /\ cache' = {} /\ scanner' = NoScan /\ listing' = {}
    /\ UNCHANGED <<backend, receipt, calls, faults, index, index_tmp, temps>>

About(r, t, steps) == receipt'[t] = r /\ pc'[t] \in steps

Remember ==
    /\ disturbed' = (disturbed \/ faults' # faults
                     \/ \E t, u \in Tasks : t # u /\ {pc'[t], pc'[u]} \subseteq Storing)
    /\ raced' = raced \cup {r \in Receipts : \E t, u \in Tasks : About(r, t, Storing) /\ About(r, u, Deleting)}
    /\ doubled' = doubled \cup {r \in Receipts :
                      \E t, u \in Tasks : t # u /\ About(r, t, Storing) /\ About(r, u, Storing)}
    /\ replaced' = replaced \cup {r \in acked \cap acked' :
                       \E t \in Tasks : receipt[t] = r /\ pc[t] \in Storing /\ answer'[t] = "Ok"}
    /\ missed' = {t \in Tasks : \/ pc'[t] # "idle" /\ receipt'[t] \notin held'
                                \/ t \in missed /\ ~(Idle(t) /\ pc'[t] # "idle")}

TaskStep(t) == Work(t) /\ Remember

Next == (Restart /\ Remember) \/ \E t \in Tasks : (Call(t) /\ Remember) \/ TaskStep(t)

Spec == Init /\ [][Next]_vars
FairSpec == Spec /\ \A t \in Tasks : WF_vars(TaskStep(t))

-----------------------------------------------------------------------------
(***************************************************************************)
(* Properties                                                              *)
(***************************************************************************)

Places == Storing \cup Deleting \cup
    {"idle", "get", "exists", "list", "lock_receipts", "get_items", "read_files", "open",
     "refresh", "refresh_all", "scan", "scan_all", "look_again", "load_all"}
Indexes == [Actions -> Seq(Receipts)]
IsFile(file) == file \in {NoFile, Torn} \/ file \in [file : {"text"}, map : Indexes]

\* The variables hold what the code can hold; the one task in refresh_cache has the write lock
\* of the cache.
TypeOK ==
    /\ pc \in [Tasks -> Places] /\ receipt \in [Tasks -> Receipts]
    /\ answer \in [Tasks -> {"Pending", "Ok", "Absent", "Error", "AlreadyExists", "Short"}]
    /\ \A t \in Tasks : ~Idle(t) => answer[t] = "Pending"
    /\ held \subseteq Receipts /\ acked \subseteq Receipts /\ temps \subseteq Receipts
    /\ cache \subseteq Receipts /\ listing \subseteq Receipts /\ faults \in Nat
    /\ by_action \in Indexes /\ seen \in [Tasks -> Indexes] /\ IsFile(index) /\ IsFile(index_tmp)
    /\ opened \in [Tasks -> {"none", "index.tmp", "index.json", "unlinked"}]
    /\ receipts_writer \in Tasks \cup {Nobody} /\ by_action_readers \subseteq Tasks
    /\ scanner \in Tasks \cup {NoScan} /\ (CacheFree => listing = {})
    /\ \A t \in Tasks : pc[t] \in {"scan", "scan_all"} => scanner = t

\* A receipt whose store returned Ok is found by its id until it is deleted, over a restart too
\* where the store is durable, whatever else runs but a delete that overlapped the store
\* (ReceiptStore::store and get, Storage::store and load).
AckedAreHeld == acked \ raced \subseteq held

IndexOf(a) ==
    CASE backend \in {Memory, Browser} -> Ids(by_action[a])
      [] backend = File                -> Ids(IndexOrDefault(index)[a])
      [] OTHER                         -> {r \in held : ActionOf[r] = a}

\* list_by_action misses no acknowledged receipt as long as no two stores overlap and no file
\* operation fails, even if the process stops in the middle of one (FileReceiptStore::store
\* reads, changes and renames index.json without a lock).
SerialStoresListed ==
    ~disturbed => \A r \in acked \ raced : r \in IndexOf(ActionOf[r])

\* When no call is under way, FileStorage's cache names a receipt that is gone only if a store
\* and a delete of it overlapped: a refresh_cache that read the directory before the file went
\* does not bring it back, for delete_inner waits for the lock and drops the id after it.
StaleOnlyByRace ==
    (\A t \in Tasks : Idle(t)) => cache \ held \subseteq raced

\* FileStorage keeps receipts immutable but for calls of one id that overlap: store_inner looks
\* for the file, then writes it, so only then two stores can both return Ok.
ReplacedOnlyByRace ==
    Using(Storage) => replaced \subseteq doubled \cup raced

\* "Not found" is true at some time of the call that returned it (load, exists, delete).  Two
\* cases are left out: FileReceiptStore's get also says it of a file that it cannot read, and
\* FileStorage's exists of a receipt of which a store and a delete overlapped, when the delete
\* drops the id of the new file between refresh_cache and the second look at the cache.
NoFalseAbsence ==
    \A t \in Tasks :
        answer[t] = "Absent" =>
            \/ t \in missed
            \/ Using(File) /\ faults > 0
            \/ Using(Storage) /\ receipt[t] \in raced

\* Every call returns: list_by_action "Returns an empty vector when the action has no recorded
\* receipts", store "Persist[s] a receipt" (the trait ReceiptStore).
EveryCallReturns == \A t \in Tasks : pc[t] # "idle" ~> pc[t] = "idle"

=============================================================================
