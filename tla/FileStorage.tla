----------------------------- MODULE FileStorage -----------------------------
(***************************************************************************)
(* FileStorage of crates/agentverify-storage/src/lib.rs: a file per        *)
(* receipt, and a cache of the ids it has seen.  The files are looked at   *)
(* and changed without a lock; refresh_cache keeps the write lock of the   *)
(* cache while it reads the directory.                                     *)
(***************************************************************************)
EXTENDS ReceiptTasks

VARIABLES
    temps,    \* the receipts that have a temporary file
    cache,
    scanner,  \* the task that is in refresh_cache
    listing   \* what the directory held when it began

cacheState == <<temps, cache, scanner, listing>>

Storage == "file_storage"
NoScan == "NoScan"
ASSUME NoScanAssumption == NoScan \notin Tasks

CacheFree == scanner = NoScan

StorageInit == temps = {} /\ cache = {} /\ scanner = NoScan /\ listing = {}

\* store_inner

\* Mutant of CheckNew: the file is not looked for.
CheckNewSkipped(t) ==
    /\ Using(Storage)
    /\ Step(t, "store", "create")
    /\ UNCHANGED <<held, faults, cacheState>>

CheckNew(t) ==
    /\ Using(Storage)
    /\ IF receipt[t] \in held THEN Answer(t, "store", "AlreadyExists") ELSE Step(t, "store", "create")
    /\ UNCHANGED <<held, faults, cacheState>>

\* What two stores of one id leave in the file is not modelled.
CreateTemp(t) ==
    /\ Using(Storage)
    /\ Step(t, "create", "rename_new")
    /\ temps' = temps \cup {receipt[t]}
    /\ UNCHANGED <<held, faults, cache, scanner, listing>>

\* Another store of the id may have renamed the temporary file away.
RenameNew(t) ==
    /\ Using(Storage)
    /\ IF receipt[t] \in temps THEN Step(t, "rename_new", "cache_insert") ELSE Answer(t, "rename_new", "Error")
    /\ held' = held \cup (temps \cap {receipt[t]})
    /\ temps' = temps \ {receipt[t]}
    /\ UNCHANGED <<faults, cache, scanner, listing>>

CacheInsert(t) ==
    /\ Using(Storage) /\ CacheFree
    /\ AnswerStored(t, "cache_insert")
    /\ cache' = cache \cup {receipt[t]}
    /\ UNCHANGED <<held, faults, temps, scanner, listing>>

\* load_inner: the file may go between the look and the read.
LoadLook(t) ==
    /\ Using(Storage)
    /\ IF receipt[t] \in held THEN Step(t, "get", "open") ELSE Answer(t, "get", "Absent")
    /\ UNCHANGED <<held, faults, cacheState>>

LoadRead(t) ==
    /\ Using(Storage)
    /\ Answer(t, "open", IF receipt[t] \in held THEN "Ok" ELSE "Error")
    /\ UNCHANGED <<held, faults, cacheState>>

\* delete_inner
DeleteLook(t) ==
    /\ Using(Storage)
    /\ IF receipt[t] \in held THEN Step(t, "delete", "remove") ELSE Answer(t, "delete", "Absent")
    /\ UNCHANGED <<held, faults, cacheState>>

RemoveFile(t) ==
    /\ Using(Storage)
    /\ IF receipt[t] \in held THEN Step(t, "remove", "cache_remove") ELSE Answer(t, "remove", "Error")
    /\ held' = held \ {receipt[t]}
    /\ UNCHANGED <<faults, cacheState>>

\* Mutant of CacheRemove: the cache is left as it is.
CacheRemoveSkipped(t) ==
    /\ Using(Storage) /\ CacheFree
    /\ Answer(t, "cache_remove", "Ok")
    /\ UNCHANGED <<held, faults, cacheState>>

CacheRemove(t) ==
    /\ Using(Storage) /\ CacheFree
    /\ Answer(t, "cache_remove", "Ok")
    /\ cache' = cache \ {receipt[t]}
    /\ UNCHANGED <<held, faults, temps, scanner, listing>>

\* exists_inner, list_ids and list_by_action
CacheHit(t) ==
    /\ Using(Storage) /\ CacheFree
    /\ IF receipt[t] \in cache THEN Answer(t, "exists", "Ok") ELSE Step(t, "exists", "refresh")
    /\ UNCHANGED <<held, faults, cacheState>>

ListIds(t) ==
    /\ Using(Storage)
    /\ Step(t, "list", "refresh_all")
    /\ UNCHANGED <<held, faults, cacheState>>

RefreshBegins(t) ==
    /\ Using(Storage) /\ CacheFree
    /\ \E from \in {"refresh", "refresh_all"} :
           Step(t, from, IF from = "refresh" THEN "scan" ELSE "scan_all")
    /\ scanner' = t /\ listing' = held
    /\ UNCHANGED <<held, faults, temps, cache>>

\* Mutant of RefreshEnds: a file that is there may be passed over.
RefreshEndsShort(t) ==
    /\ Using(Storage)
    /\ \E from \in {"scan", "scan_all"} :
           Step(t, from, IF from = "scan" THEN "look_again" ELSE "load_all")
    /\ \E read \in SUBSET (held \cup listing) : cache' = cache \cup read
    /\ scanner' = NoScan /\ listing' = {}
    /\ UNCHANGED <<held, faults, temps>>

\* Of the files that come or go while the directory is read, any are seen.
RefreshEnds(t) ==
    /\ Using(Storage)
    /\ \E from \in {"scan", "scan_all"} :
           Step(t, from, IF from = "scan" THEN "look_again" ELSE "load_all")
    /\ \E read \in SUBSET (held \cup listing) :
           (held \cap listing) \subseteq read /\ cache' = cache \cup read
    /\ scanner' = NoScan /\ listing' = {}
    /\ UNCHANGED <<held, faults, temps>>

CacheLook(t) ==
    /\ Using(Storage) /\ CacheFree
    /\ Answer(t, "look_again", IF receipt[t] \in cache THEN "Ok" ELSE "Absent")
    /\ UNCHANGED <<held, faults, cacheState>>

\* list_by_action loads each id and leaves out those it cannot load.
LoadAll(t) ==
    /\ Using(Storage) /\ CacheFree
    /\ Answer(t, "load_all", IF cache \subseteq held THEN "Ok" ELSE "Short")
    /\ UNCHANGED <<held, faults, cacheState>>

\* read_dir or next_entry fails: what was read so far stays in the cache.
RefreshFails(t) ==
    /\ Using(Storage) /\ Fault
    /\ \E from \in {"scan", "scan_all"} : Answer(t, from, "Error")
    /\ \E read \in SUBSET (held \cup listing) : cache' = cache \cup read
    /\ scanner' = NoScan /\ listing' = {}
    /\ UNCHANGED <<held, temps>>

StorageFails(t) ==
    /\ Using(Storage) /\ Fault
    /\ \E from \in {"create", "rename_new", "remove", "open"} : Answer(t, from, "Error")
    /\ UNCHANGED <<held, cacheState>>

StorageStep(t) ==
    \/ CheckNew(t) \/ CreateTemp(t) \/ RenameNew(t) \/ CacheInsert(t)
    \/ LoadLook(t) \/ LoadRead(t)
    \/ DeleteLook(t) \/ RemoveFile(t) \/ CacheRemove(t)
    \/ CacheHit(t) \/ ListIds(t) \/ RefreshBegins(t) \/ RefreshEnds(t) \/ CacheLook(t) \/ LoadAll(t)
    \/ RefreshFails(t) \/ StorageFails(t)

=============================================================================
