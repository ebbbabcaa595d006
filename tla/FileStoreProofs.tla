-------------------------- MODULE FileStoreProofs --------------------------
(***************************************************************************)
(* Theorems about FileStore, for any number of processes, calls, keys and  *)
(* crashes.                                                                *)
(***************************************************************************)
EXTENDS FileStore, TLAPS

-----------------------------------------------------------------------------
\* What is stored

\* Every text that a store writes is one it knows.
LEMMA ContentsAre ==
    NoEntry \in Contents /\ InFlight \in Contents /\ \A v \in Verdicts : Display[v] \in Contents
  BY DEF Contents

\* The text of a verdict is neither the mark of a claim nor empty.
LEMMA DisplayIsVerdict ==
    ASSUME NEW v \in Verdicts
    PROVE  Display[v] # NoEntry /\ Display[v] # InFlight
  <1>1. Display[v] \in {"verified", "failed", "unknown", "partial", "duplicate"}
    BY DEF Verdicts, Display
  <1> QED
    BY <1>1 DEF NoEntry, InFlight

LEMMA NoEntryIsNotInFlight == NoEntry # InFlight
  BY DEF NoEntry, InFlight

\* Parsing a stored verdict gives the verdict back.
LEMMA RoundTrip == ASSUME NEW v \in Verdicts PROVE ToResult(Display[v]) = v
  <1>1. ASSUME NEW u \in Verdicts, Display[u] = Display[v] PROVE u = v
    BY <1>1 DEF Verdicts, Display
  <1> QED
    BY <1>1 DEF ToResult

LEMMA ResultType == ASSUME NEW s PROVE ToResult(s) \in Verdicts \cup {"None"}
  BY DEF ToResult

\* A call that writes the cache writes its own key in the cache of its own process.
LEMMA SetCacheEffect ==
    ASSUME TypeOK, NEW c \in Calls, NEW s \in Contents, SetCache(c, s)
    PROVE  /\ cache' \in [Procs -> [Keys -> Contents]]
           /\ \A p \in Procs, k \in Keys :
                 cache'[p][k] = IF p = proc[c] /\ k = key[c] THEN s ELSE cache[p][k]
  BY CallsAssumption DEF TypeOK, SetCache

\* A save writes the file, or the key is among those that had a fault.
LEMMA SaveEffect ==
    ASSUME TypeOK, NEW k \in Keys, NEW s \in Contents, Save(k, s)
    PROVE  /\ disk' \in [Keys -> Contents] /\ faults' \subseteq Keys
           /\ faults \subseteq faults'
           /\ k \notin faults' => disk'[k] = s
           /\ \A j \in Keys : j # k => disk'[j] = disk[j]
  BY DEF TypeOK, Save, Fault

-----------------------------------------------------------------------------
\* Type correctness

\* complete() is given a verdict, and it is this one that reaches the cache.
Typed == TypeOK /\ \A c \in Calls : pc[c] = "completing" => reply[c] \in Verdicts

LEMMA TypeInductive == Typed /\ [Next]_vars => Typed'
  <1> SUFFICES ASSUME Typed, [Next]_vars PROVE Typed'
    OBVIOUS
  <1>0. TypeOK
    BY DEF Typed
  <1> USE <1>0, CallsAssumption, BoundAssumption, ContentsAre, ResultType DEF Typed, TypeOK, Go, Granted, Finished
  <1> HIDE DEF Contents
  <1>1. CASE UNCHANGED vars
    BY <1>1 DEF vars
  <1>2. ASSUME NEW c \in Calls, CacheHit(c) PROVE Typed'
    BY <1>2 DEF CacheHit
  <1>3. ASSUME NEW c \in Calls, LoadEntry(c) PROVE Typed'
    <2>1. cache' \in [Procs -> [Keys -> Contents]]
      BY <1>3, SetCacheEffect DEF LoadEntry
    <2> QED
      BY <1>3, <2>1 DEF LoadEntry
  <1>4. ASSUME NEW c \in Calls, FindNoEntry(c) PROVE Typed'
    BY <1>4 DEF FindNoEntry, Fault
  <1>5. ASSUME NEW c \in Calls, Claim(c) PROVE Typed'
    <2>1. cache' \in [Procs -> [Keys -> Contents]]
      BY <1>5, SetCacheEffect DEF Claim
    <2>2. disk' \in [Keys -> Contents] /\ faults' \subseteq Keys
      BY <1>5, SaveEffect DEF Claim
    <2>3. grants' \in [Keys -> Nat]
      BY <1>5 DEF Claim
    <2>4. holder' \in [Procs -> Calls \cup {NoCall}]
      BY <1>5 DEF Claim
    <2> QED
      BY <1>5, <2>1, <2>2, <2>3, <2>4 DEF Claim
  <1>6. ASSUME NEW c \in Calls, NEW v \in Verdicts, SaveCompletion(c, v) PROVE Typed'
    <2>1. disk' \in [Keys -> Contents] /\ faults' \subseteq Keys
      BY <1>6, SaveEffect DEF SaveCompletion
    <2> QED
      BY <1>6, <2>1 DEF SaveCompletion
  <1>7. ASSUME NEW c \in Calls, CacheCompletion(c) PROVE Typed'
    <2>1. cache' \in [Procs -> [Keys -> Contents]]
      BY <1>7, SetCacheEffect DEF CacheCompletion
    <2> QED
      BY <1>7, <2>1 DEF CacheCompletion
  <1>8. ASSUME NEW c \in Calls, RemoveFile(c) PROVE Typed'
    <2>1. disk' \in [Keys -> Contents] /\ faults' \subseteq Keys
      BY <1>8, SaveEffect DEF RemoveFile
    <2> QED
      BY <1>8, <2>1 DEF RemoveFile
  <1>9. ASSUME NEW c \in Calls, Uncache(c) PROVE Typed'
    <2>1. cache' \in [Procs -> [Keys -> Contents]]
      BY <1>9, SetCacheEffect DEF Uncache
    <2> QED
      BY <1>9, <2>1 DEF Uncache
  <1>10. ASSUME NEW p \in Procs, Crash(p) PROVE Typed'
    BY <1>10 DEF Crash
  <1>11. CASE AllFinished
    BY <1>11 DEF AllFinished, vars
  <1> QED
    BY <1>1, <1>2, <1>3, <1>4, <1>5, <1>6, <1>7, <1>8, <1>9, <1>10, <1>11 DEF Next

\* Whatever call crashes or fails in between, the files and the caches hold only
\* texts that the store knows how to read back.
THEOREM TypeCorrect == Spec => []TypeOK
  <1>1. Init => Typed
    BY CallsAssumption, BoundAssumption, ContentsAre DEF Init, Typed, TypeOK, Granted, Finished
  <1>2. Typed => TypeOK
    BY DEF Typed
  <1> QED
    BY <1>1, <1>2, TypeInductive, PTL DEF Spec

LEMMA AlwaysTyped == Spec => []Typed
  <1>1. Init => Typed
    BY CallsAssumption, BoundAssumption, ContentsAre DEF Init, Typed, TypeOK, Granted, Finished
  <1> QED
    BY <1>1, TypeInductive, PTL DEF Spec

-----------------------------------------------------------------------------
\* Exclusion within a process

\* No two calls of one process own a key at the same time.
ProcessExclusive ==
    \A c, d \in Calls :
        Holds(c) /\ Holds(d) /\ key[c] = key[d] /\ proc[c] = proc[d] => c = d

\* A call in the critical section of claim_or_check holds the mutex and found its
\* key absent; the cache keeps an entry of every key that is owned.  The files do
\* not matter: it is the cache that excludes.
Guarded ==
    /\ \A c \in Calls :
          /\ pc[c] = "claiming" => holder[proc[c]] = c /\ cache[proc[c]][key[c]] = NoEntry
          /\ Holds(c) => cache[proc[c]][key[c]] # NoEntry
    /\ ProcessExclusive

LEMMA GuardedInductive == Typed /\ Guarded /\ [Next]_vars => Guarded'
  <1> SUFFICES ASSUME Typed, Guarded, [Next]_vars PROVE Guarded'
    OBVIOUS
  <1>0. TypeOK
    BY DEF Typed
  <1> USE <1>0, CallsAssumption, NoCallAssumption, ContentsAre, NoEntryIsNotInFlight
      DEF Guarded, ProcessExclusive, Holds, Granted, TypeOK, Go, Unlocked
  <1> HIDE DEF Contents, NoEntry, InFlight, NoCall
  <1>1. CASE UNCHANGED vars
    BY <1>1 DEF vars
  <1>2. ASSUME NEW c \in Calls, CacheHit(c) PROVE Guarded'
    BY <1>2 DEF CacheHit
  <1>3. ASSUME NEW c \in Calls, LoadEntry(c) PROVE Guarded'
    <2>1. \A p \in Procs, k \in Keys :
             cache'[p][k] = IF p = proc[c] /\ k = key[c] THEN disk[key[c]] ELSE cache[p][k]
      BY <1>3, SetCacheEffect DEF LoadEntry
    <2> QED
      BY <1>3, <2>1 DEF LoadEntry
  <1>4. ASSUME NEW c \in Calls, FindNoEntry(c) PROVE Guarded'
    BY <1>4 DEF FindNoEntry
  <1>5. ASSUME NEW c \in Calls, Claim(c) PROVE Guarded'
    <2>1. \A p \in Procs, k \in Keys :
             cache'[p][k] = IF p = proc[c] /\ k = key[c] THEN InFlight ELSE cache[p][k]
      BY <1>5, SetCacheEffect DEF Claim
    <2> QED
      BY <1>5, <2>1 DEF Claim
  <1>6. ASSUME NEW c \in Calls, NEW v \in Verdicts, SaveCompletion(c, v) PROVE Guarded'
    BY <1>6 DEF SaveCompletion
  <1>7. ASSUME NEW c \in Calls, CacheCompletion(c) PROVE Guarded'
    <2>1. Display[reply[c]] \in Contents /\ Display[reply[c]] # NoEntry
      BY <1>7, DisplayIsVerdict DEF CacheCompletion, Typed
    <2>2. \A p \in Procs, k \in Keys :
             cache'[p][k] = IF p = proc[c] /\ k = key[c] THEN Display[reply[c]] ELSE cache[p][k]
      BY <1>7, <2>1, SetCacheEffect DEF CacheCompletion
    <2> QED
      BY <1>7, <2>1, <2>2 DEF CacheCompletion
  <1>8. ASSUME NEW c \in Calls, RemoveFile(c) PROVE Guarded'
    BY <1>8 DEF RemoveFile
  <1>9. ASSUME NEW c \in Calls, Uncache(c) PROVE Guarded'
    <2>1. \A p \in Procs, k \in Keys :
             cache'[p][k] = IF p = proc[c] /\ k = key[c] THEN NoEntry ELSE cache[p][k]
      BY <1>9, SetCacheEffect DEF Uncache
    <2> QED
      BY <1>9, <2>1 DEF Uncache
  <1>10. ASSUME NEW p \in Procs, Crash(p) PROVE Guarded'
    BY <1>10 DEF Crash
  <1>11. CASE AllFinished
    BY <1>11 DEF AllFinished, vars
  <1> QED
    BY <1>1, <1>2, <1>3, <1>4, <1>5, <1>6, <1>7, <1>8, <1>9, <1>10, <1>11 DEF Next

LEMMA AlwaysGuarded == Spec => []Guarded
  <1>1. Init => Guarded
    BY DEF Init, Guarded, ProcessExclusive, Holds, Granted
  <1> QED
    BY <1>1, GuardedInductive, AlwaysTyped, PTL DEF Spec

\* The mutex and the cache alone exclude the calls of one process, however many
\* processes share the directory, and even if no file can be read or written.
THEOREM ProcessesExclude == Spec => []ProcessExclusive
  <1>1. Guarded => ProcessExclusive
    BY DEF Guarded
  <1> QED
    BY <1>1, AlwaysGuarded, PTL

\* The keys that two processes use are the hypothesis of what follows: a directory
\* that several processes share is safe as long as no key has calls in two of
\* them.
KeysAreLocal == \A c, d \in Calls : key[c] = key[d] => proc[c] = proc[d]

\* At most one live call owns a key when its calls are in one process.
THEOREM ClaimsExclude ==
    ASSUME KeysAreLocal
    PROVE  Spec => []ClaimExclusive
  <1>1. Guarded => ClaimExclusive
    BY KeysAreLocal DEF Guarded, ProcessExclusive, ClaimExclusive, KeysAreLocal
  <1> QED
    BY <1>1, AlwaysGuarded, PTL

-----------------------------------------------------------------------------
\* The files and the caches

\* The text a call that is past the cache left in the file of its key.
Written(c) ==
    CASE pc[c] = "holding" -> InFlight
      [] pc[c] = "completing" -> Display[reply[c]]
      [] OTHER -> NoEntry

\* What a key k whose file always could be read and written looks like.
\* A call between the two halves of complete or release explains a cache that is
\* behind its file.
Synced(k) ==
    /\ \A c \in Calls : key[c] = k /\ (Holds(c) \/ pc[c] = "claiming") => disk[k] = Written(c)
    /\ \A p \in Procs :
          \/ cache[p][k] \in {NoEntry, disk[k]}
          \/ \E c \in Calls : key[c] = k /\ proc[c] = p /\ pc[c] \in {"completing", "releasing"}
    /\ grants[k] = IF disk[k] = NoEntry THEN 0 ELSE 1
    /\ recorded[k] # "None" =>
          disk[k] = Display[recorded[k]] /\ \A c \in Calls : key[c] = k => ~Holds(c)
    /\ disk[k] = InFlight => \E c \in Calls : key[c] = k /\ pc[c] \in {"holding", "dead"}

\* A process caches a key only if one of its calls is about it.
CachedByCalls ==
    \A p \in Procs, k \in Keys :
        cache[p][k] # NoEntry => \E c \in Calls : key[c] = k /\ proc[c] = p

Sync == CachedByCalls /\ \A k \in Keys \ faults : Synced(k)

\* A step leaves the keys alone that its call is not about.
LEMMA OtherKeysSynced ==
    ASSUME NEW k \in Keys, Synced(k), NEW c \in Calls, key[c] # k,
           \A d \in Calls : d # c => pc'[d] = pc[d] /\ reply'[d] = reply[d],
           \A p \in Procs : cache'[p][k] = cache[p][k],
           disk'[k] = disk[k], grants'[k] = grants[k], recorded'[k] = recorded[k]
    PROVE  Synced(k)'
  BY DEF Synced, Holds, Written

LEMMA CachedInductive == Typed /\ CachedByCalls /\ [Next]_vars => CachedByCalls'
  <1> SUFFICES ASSUME Typed, CachedByCalls, [Next]_vars PROVE CachedByCalls'
    OBVIOUS
  <1>0. TypeOK
    BY DEF Typed
  <1> USE <1>0, CallsAssumption, ContentsAre DEF CachedByCalls
  <1> HIDE DEF Contents, NoEntry, InFlight
  <1>1. ASSUME NEW c \in Calls, NEW t \in Contents, SetCache(c, t) PROVE CachedByCalls'
    <2>1. \A p \in Procs, k \in Keys :
             cache'[p][k] = IF p = proc[c] /\ k = key[c] THEN t ELSE cache[p][k]
      BY <1>1, SetCacheEffect
    <2> QED
      BY <2>1
  <1>2. CASE UNCHANGED cache
    BY <1>2
  <1>3. ASSUME NEW c \in Calls, LoadEntry(c) PROVE CachedByCalls'
    BY <1>1, <1>3 DEF LoadEntry, TypeOK
  <1>4. ASSUME NEW c \in Calls, Claim(c) PROVE CachedByCalls'
    BY <1>1, <1>4 DEF Claim
  <1>5. ASSUME NEW c \in Calls, CacheCompletion(c) PROVE CachedByCalls'
    BY <1>1, <1>5 DEF CacheCompletion, Go, Typed
  <1>6. ASSUME NEW c \in Calls, Uncache(c) PROVE CachedByCalls'
    BY <1>1, <1>6 DEF Uncache
  <1>7. ASSUME NEW p \in Procs, Crash(p) PROVE CachedByCalls'
    BY <1>7 DEF Crash, TypeOK
  <1> QED
    BY <1>2, <1>3, <1>4, <1>5, <1>6, <1>7
       DEF Next, vars, CacheHit, FindNoEntry, SaveCompletion, RemoveFile, AllFinished

\* The part of a step of call c that concerns its own key k.
LEMMA OwnKeySynced ==
    ASSUME KeysAreLocal, Typed, Guarded, CachedByCalls, [Next]_vars,
           NEW c \in Calls, NEW k \in Keys \ faults', k = key[c], Synced(k)
    PROVE  /\ CacheHit(c) => Synced(k)'
           /\ LoadEntry(c) => Synced(k)'
           /\ FindNoEntry(c) => Synced(k)'
           /\ Claim(c) => Synced(k)'
           /\ \A v \in Verdicts : SaveCompletion(c, v) => Synced(k)'
           /\ CacheCompletion(c) => Synced(k)'
           /\ RemoveFile(c) => Synced(k)'
           /\ Uncache(c) => Synced(k)'
  <1>0. TypeOK
    BY DEF Typed
  \* Nobody else owns the key, or is about to, while c does.
  <1>a. ASSUME NEW d \in Calls, key[d] = k, d # c, Holds(c) PROVE ~Holds(d) /\ pc[d] # "claiming"
    BY <1>a, KeysAreLocal DEF KeysAreLocal, Guarded, ProcessExclusive
  <1>b. ASSUME NEW d \in Calls, key[d] = k, d # c, pc[c] = "claiming" PROVE ~Holds(d) /\ pc[d] # "claiming"
    BY <1>b, KeysAreLocal DEF KeysAreLocal, Guarded, ProcessExclusive
  <1>c. ASSUME NEW p \in Procs, p # proc[c] PROVE cache[p][k] = NoEntry
    BY <1>c, KeysAreLocal DEF KeysAreLocal, CachedByCalls
  <1> USE <1>0, CallsAssumption, ContentsAre, NoEntryIsNotInFlight, DisplayIsVerdict
  <1> HIDE DEF Contents, NoEntry, InFlight
  <1>1. CASE CacheHit(c)
    BY <1>1 DEF CacheHit, Go, TypeOK, Synced, Written, Holds, Granted
  <1>2. CASE LoadEntry(c)
    <2>1. \A p \in Procs : cache'[p][k] = IF p = proc[c] THEN disk[k] ELSE cache[p][k]
      BY <1>2, SetCacheEffect DEF LoadEntry, TypeOK
    <2> QED
      BY <1>2, <2>1 DEF LoadEntry, Go, TypeOK, Synced, Written, Holds, Granted
  <1>3. CASE FindNoEntry(c)
    <2>1. disk[k] = NoEntry
      BY <1>3 DEF FindNoEntry, Fault
    <2> QED
      BY <1>3, <2>1 DEF FindNoEntry, Go, TypeOK, Synced, Written, Holds, Granted
  <1>4. CASE Claim(c)
    <2>1. \A p \in Procs : cache'[p][k] = IF p = proc[c] THEN InFlight ELSE cache[p][k]
      BY <1>4, SetCacheEffect DEF Claim
    <2>2. disk'[k] = InFlight
      BY <1>4, SaveEffect DEF Claim
    <2>3. pc[c] = "claiming" /\ pc' = [pc EXCEPT ![c] = "holding"]
      BY <1>4 DEF Claim, Go
    <2>4. disk[k] = NoEntry
      BY <2>3 DEF Synced, Written
    <2>5. grants'[k] = 1 /\ recorded'[k] = "None"
      BY <1>4, <2>4 DEF Claim, Synced, TypeOK
    <2> QED
      BY <1>4, <1>b, <1>c, <2>1, <2>2, <2>3, <2>5 DEF Claim, TypeOK, Synced, Written, Holds, Granted
  <1>5. ASSUME NEW v \in Verdicts, SaveCompletion(c, v) PROVE Synced(k)'
    <2>1. disk'[k] = Display[v]
      BY <1>5, SaveEffect DEF SaveCompletion
    <2>2. Holds(c) /\ pc[c] = "holding" /\ pc' = [pc EXCEPT ![c] = "completing"] /\ reply'[c] = v
      BY <1>5 DEF SaveCompletion, Go, Holds, Granted, TypeOK
    <2>3. grants'[k] = 1 /\ recorded'[k] = "None"
      BY <1>5, <2>2 DEF SaveCompletion, Synced, Written
    <2> QED
      BY <1>5, <1>a, <1>c, <2>1, <2>2, <2>3 DEF SaveCompletion, TypeOK, Synced, Written, Holds, Granted
  <1>6. CASE CacheCompletion(c)
    <2>1. Holds(c) /\ pc[c] = "completing" /\ pc' = [pc EXCEPT ![c] = "completed"] /\ reply[c] \in Verdicts
      BY <1>6 DEF CacheCompletion, Go, Holds, Granted, Typed
    <2>2. \A p \in Procs : cache'[p][k] = IF p = proc[c] THEN Display[reply[c]] ELSE cache[p][k]
      BY <1>6, <2>1, SetCacheEffect DEF CacheCompletion
    <2>3. disk'[k] = Display[reply[c]] /\ recorded'[k] = reply[c] /\ disk[k] = Display[reply[c]]
      BY <1>6, <2>1 DEF CacheCompletion, Synced, Written, TypeOK
    <2> QED
      BY <1>6, <1>a, <1>c, <2>1, <2>2, <2>3 DEF CacheCompletion, TypeOK, Synced, Written, Holds, Granted
  <1>7. CASE RemoveFile(c)
    <2>1. disk'[k] = NoEntry
      BY <1>7, SaveEffect DEF RemoveFile
    <2>2. Holds(c) /\ pc[c] = "holding" /\ pc' = [pc EXCEPT ![c] = "releasing"]
      BY <1>7 DEF RemoveFile, Go, Holds, Granted
    <2>3. grants'[k] = 0 /\ recorded'[k] = "None"
      BY <1>7, <2>2 DEF RemoveFile, Synced, TypeOK
    <2> QED
      BY <1>7, <1>a, <1>c, <2>1, <2>2, <2>3 DEF RemoveFile, TypeOK, Synced, Written, Holds, Granted
  <1>8. CASE Uncache(c)
    <2>1. Holds(c) /\ pc[c] = "releasing" /\ pc' = [pc EXCEPT ![c] = "released"]
      BY <1>8 DEF Uncache, Go, Holds, Granted
    <2>2. \A p \in Procs : cache'[p][k] = NoEntry
      BY <1>8, <1>c, SetCacheEffect DEF Uncache
    <2>3. disk[k] = NoEntry
      BY <2>1 DEF Synced, Written
    <2> QED
      BY <1>8, <1>a, <2>1, <2>2, <2>3 DEF Uncache, TypeOK, Synced, Written, Holds, Granted
  <1> QED
    BY <1>1, <1>2, <1>3, <1>4, <1>5, <1>6, <1>7, <1>8

LEMMA SyncInductive ==
    ASSUME KeysAreLocal
    PROVE  Typed /\ Guarded /\ Sync /\ [Next]_vars => Sync'
  <1> SUFFICES ASSUME Typed, Guarded, Sync, [Next]_vars, NEW k \in Keys \ faults' PROVE Synced(k)'
    BY CachedInductive DEF Sync
  <1>0. TypeOK /\ CachedByCalls
    BY DEF Typed, Sync
  <1>1. faults \subseteq faults'
    BY DEF Next, vars, CacheHit, LoadEntry, FindNoEntry, Claim, SaveCompletion, CacheCompletion,
           RemoveFile, Uncache, Crash, AllFinished, Save, Fault
  <1>2. Synced(k)
    BY <1>1 DEF Sync
  <1>3. ASSUME NEW c \in Calls,
               \/ CacheHit(c) \/ LoadEntry(c) \/ FindNoEntry(c) \/ Claim(c)
               \/ \E v \in Verdicts : SaveCompletion(c, v)
               \/ CacheCompletion(c) \/ RemoveFile(c) \/ Uncache(c)
        PROVE Synced(k)'
    <2>1. CASE key[c] = k
      BY <2>1, <1>0, <1>2, <1>3, OwnKeySynced, KeysAreLocal
    <2>2. CASE key[c] # k
      <3>1. \A d \in Calls : d # c => pc'[d] = pc[d] /\ reply'[d] = reply[d]
        BY <1>0, <1>3 DEF TypeOK, Go, CacheHit, LoadEntry, FindNoEntry, Claim, SaveCompletion,
                          CacheCompletion, RemoveFile, Uncache
      <3>2. \A p \in Procs : cache'[p][k] = cache[p][k]
        BY <1>0, <1>3, <2>2, CallsAssumption
           DEF TypeOK, SetCache, CacheHit, LoadEntry, FindNoEntry, Claim, SaveCompletion,
               CacheCompletion, RemoveFile, Uncache
      <3>3. disk'[k] = disk[k]
        BY <1>0, <1>3, <2>2, CallsAssumption
           DEF TypeOK, Save, CacheHit, LoadEntry, FindNoEntry, Claim, SaveCompletion,
               CacheCompletion, RemoveFile, Uncache
      <3>4. grants'[k] = grants[k] /\ recorded'[k] = recorded[k]
        BY <1>0, <1>3, <2>2, CallsAssumption
           DEF TypeOK, CacheHit, LoadEntry, FindNoEntry, Claim, SaveCompletion,
               CacheCompletion, RemoveFile, Uncache
      <3> QED
        BY <1>2, <2>2, <3>1, <3>2, <3>3, <3>4, OtherKeysSynced
    <2> QED
      BY <2>1, <2>2
  <1>4. ASSUME NEW p \in Procs, Crash(p) PROVE Synced(k)'
    <2>1. /\ \A d \in Calls : pc'[d] = IF proc[d] = p /\ pc[d] \in Granted \cup {"claiming"}
                                       THEN "dead" ELSE pc[d]
          /\ \A q \in Procs : cache'[q][k] = IF q = p THEN NoEntry ELSE cache[q][k]
          /\ UNCHANGED <<disk, reply, grants, recorded>>
      BY <1>0, <1>4 DEF Crash, TypeOK
    <2> QED
      BY <1>2, <2>1 DEF Synced, Written, Holds, Granted
  <1>5. CASE UNCHANGED vars
    BY <1>2, <1>5 DEF vars, Synced, Written, Holds
  <1> QED
    BY <1>3, <1>4, <1>5 DEF Next, AllFinished

LEMMA AlwaysSync ==
    ASSUME KeysAreLocal
    PROVE  Spec => []Sync
  <1>1. Init => Sync
    BY NoEntryIsNotInFlight DEF Init, Sync, Synced, CachedByCalls, Holds, Granted
  <1> QED
    BY <1>1, SyncInductive, AlwaysGuarded, AlwaysTyped, PTL DEF Spec

\* A claim survives any number of crashes: without a fault of its file, no key is
\* granted twice between two releases.
THEOREM ClaimsAreGrantedOnce ==
    ASSUME KeysAreLocal
    PROVE  Spec => []GrantedOnce
  <1>1. Sync => GrantedOnce
    BY DEF Sync, Synced, GrantedOnce
  <1> QED
    BY <1>1, AlwaysSync, PTL

\* A verdict survives any number of crashes: once complete() returned, every process
\* that asks is given this verdict, from its cache or from the file.
THEOREM VerdictsAreDurable ==
    ASSUME KeysAreLocal
    PROVE  Spec => []VerdictDurable
  <1>1. Typed /\ Sync => VerdictDurable
    <2> SUFFICES ASSUME Typed, Sync, NEW k \in Keys \ faults, NEW p \in Procs, recorded[k] # "None"
                 PROVE  ToResult(Entry(p, k)) = recorded[k]
      BY DEF VerdictDurable
    <2>1. recorded[k] \in Verdicts
      BY DEF Typed, TypeOK
    <2>2. disk[k] = Display[recorded[k]]
      BY DEF Sync, Synced
    <2>3. cache[p][k] \in {NoEntry, disk[k]}
      BY DEF Sync, Synced, Holds, Granted
    <2> QED
      BY <2>1, <2>2, <2>3, RoundTrip DEF Entry
  <1> QED
    BY <1>1, AlwaysSync, AlwaysTyped, PTL

\* No mark of a claim is left behind: a key is in flight only while its owner runs
\* or because its owner crashed.
THEOREM MarksAreExplained ==
    ASSUME KeysAreLocal
    PROVE  Spec => []InFlightExplained
  <1>1. Sync => InFlightExplained
    BY NoEntryIsNotInFlight DEF Sync, Synced, InFlightExplained, Entry, Holds, Granted
  <1> QED
    BY <1>1, AlwaysSync, PTL

=============================================================================
