------------------------------ MODULE FileStore ------------------------------
(***************************************************************************)
(* FileIdempotencyStore: crates/agentverify-runtime/src/                   *)
(* idempotency_store.rs.                                                   *)
(*                                                                         *)
(* Every process has one store: a cache behind a mutex, in front of a      *)
(* directory with one file per key that all the processes share.  Each     *)
(* call is one claim_or_check and, if it was granted the key, one complete *)
(* or one release, as the executor makes them.  A step ends where another  *)
(* call or another process can get in between: at each access to the       *)
(* directory and each acquisition of the mutex.  The rename makes a write  *)
(* of a file one step.  A process may crash: its calls die with its cache, *)
(* the files stay.  An access to the directory may fail, which the code    *)
(* logs and ignores.                                                       *)
(***************************************************************************)
EXTENDS Naturals, StoredEntry

CONSTANTS Procs,      \* processes that share the directory
          Calls,      \* uses of the store by an executor
          Keys,       \* idempotency keys, each with a file of its own
          proc,       \* call -> the process that makes it
          key,        \* call -> the key it is about
          MaxCrashes  \* bound on the crashes of a behaviour

ASSUME CallsAssumption == proc \in [Calls -> Procs] /\ key \in [Calls -> Keys]
ASSUME BoundAssumption == MaxCrashes \in Nat

VARIABLES
    disk,      \* the state field of each key's file, "" when there is no file
    cache,     \* FileIdempotencyStore::cache of each process, "" when absent
    holder,    \* process -> the call inside claim_or_check's critical section
    pc,        \* where each call is
    reply,     \* what claim_or_check answered
    crashes,   \* number of crashes so far
    grants,    \* history: claims granted since a release of the key began
    recorded,  \* history: the verdict whose complete() returned
    faults     \* history: the keys whose file could not be read or written

vars == <<disk, cache, holder, pc, reply, crashes, grants, recorded, faults>>

NoCall == "NoCall"
ASSUME NoCallAssumption == NoCall \notin Calls

\* What process p would answer about key k now.
Entry(p, k) == IF cache[p][k] # NoEntry THEN cache[p][k] ELSE disk[k]

Granted == {"holding", "completing", "releasing"}
Holds(c) == pc[c] \in Granted

-----------------------------------------------------------------------------
Init ==
    /\ disk = [k \in Keys |-> NoEntry]
    /\ cache = [p \in Procs |-> [k \in Keys |-> NoEntry]]
    /\ holder = [p \in Procs |-> NoCall]
    /\ pc = [c \in Calls |-> "start"]
    /\ reply = [c \in Calls |-> "None"]
    /\ crashes = 0
    /\ grants = [k \in Keys |-> 0]
    /\ recorded = [k \in Keys |-> "None"]
    /\ faults = {}

Go(c, from, to) == pc[c] = from /\ pc' = [pc EXCEPT ![c] = to]
Unlocked(p) == holder[p] = NoCall
SetCache(c, state) == cache' = [cache EXCEPT ![proc[c]][key[c]] = state]

\* An access to the file of k that fails.
Fault(k) == faults' = faults \cup {k}

\* A write of the file of k: save_entry, whose error is only logged.
Save(k, state) ==
    \/ disk' = [disk EXCEPT ![k] = state] /\ UNCHANGED faults
    \/ Fault(k) /\ UNCHANGED disk

-----------------------------------------------------------------------------
\* claim_or_check, under the mutex of the cache

CacheHit(c) ==
    /\ Unlocked(proc[c]) /\ cache[proc[c]][key[c]] # NoEntry
    /\ Go(c, "start", "refused")
    /\ reply' = [reply EXCEPT ![c] = ToResult(cache[proc[c]][key[c]])]
    /\ UNCHANGED <<disk, cache, holder, crashes, grants, recorded, faults>>

LoadEntry(c) ==
    /\ Unlocked(proc[c]) /\ cache[proc[c]][key[c]] = NoEntry /\ disk[key[c]] # NoEntry
    /\ Go(c, "start", "refused")
    /\ SetCache(c, disk[key[c]])
    /\ reply' = [reply EXCEPT ![c] = ToResult(disk[key[c]])]
    /\ UNCHANGED <<disk, holder, crashes, grants, recorded, faults>>

\* Mutant of FindNoEntry: the guard is dropped before the claim is saved.
FindNoEntryUnlocked(c) ==
    /\ Unlocked(proc[c]) /\ cache[proc[c]][key[c]] = NoEntry
    /\ \/ disk[key[c]] = NoEntry /\ UNCHANGED faults
       \/ disk[key[c]] # NoEntry /\ Fault(key[c])
    /\ Go(c, "start", "claiming")
    /\ UNCHANGED <<disk, cache, holder, reply, crashes, grants, recorded>>

\* No file, or one that load_entry fails to read.
FindNoEntry(c) ==
    /\ Unlocked(proc[c]) /\ cache[proc[c]][key[c]] = NoEntry
    /\ \/ disk[key[c]] = NoEntry /\ UNCHANGED faults
       \/ disk[key[c]] # NoEntry /\ Fault(key[c])
    /\ Go(c, "start", "claiming")
    /\ holder' = [holder EXCEPT ![proc[c]] = c]
    /\ UNCHANGED <<disk, cache, reply, crashes, grants, recorded>>

\* Mutant of Claim: the claim lives in the cache only.
ClaimInCacheOnly(c) ==
    /\ Go(c, "claiming", "holding")
    /\ SetCache(c, InFlight)
    /\ holder' = [holder EXCEPT ![proc[c]] = NoCall]
    /\ grants' = [grants EXCEPT ![key[c]] = @ + 1]
    /\ UNCHANGED <<disk, reply, crashes, recorded, faults>>

Claim(c) ==
    /\ Go(c, "claiming", "holding")
    /\ Save(key[c], InFlight)
    /\ SetCache(c, InFlight)
    /\ holder' = [holder EXCEPT ![proc[c]] = NoCall]
    /\ grants' = [grants EXCEPT ![key[c]] = @ + 1]
    /\ UNCHANGED <<reply, crashes, recorded>>

-----------------------------------------------------------------------------
\* complete: the file first, then, under the mutex, the cache

SaveCompletion(c, v) ==
    /\ Go(c, "holding", "completing")
    /\ Save(key[c], Display[v])
    /\ reply' = [reply EXCEPT ![c] = v]
    /\ UNCHANGED <<cache, holder, crashes, grants, recorded>>

CacheCompletion(c) ==
    /\ Unlocked(proc[c])
    /\ Go(c, "completing", "completed")
    /\ SetCache(c, Display[reply[c]])
    /\ recorded' = [recorded EXCEPT ![key[c]] = reply[c]]
    /\ UNCHANGED <<disk, holder, reply, crashes, grants, faults>>

\* release: the file first, then, under the mutex, the cache

RemoveFile(c) ==
    /\ Go(c, "holding", "releasing")
    /\ Save(key[c], NoEntry)
    /\ grants' = [grants EXCEPT ![key[c]] = 0]
    /\ UNCHANGED <<cache, holder, reply, crashes, recorded>>

\* Mutant of Uncache: the cached entry is kept.
UncacheForgotten(c) ==
    /\ Go(c, "releasing", "released")
    /\ UNCHANGED <<disk, cache, holder, reply, crashes, grants, recorded, faults>>

Uncache(c) ==
    /\ Unlocked(proc[c])
    /\ Go(c, "releasing", "released")
    /\ SetCache(c, NoEntry)
    /\ UNCHANGED <<disk, holder, reply, crashes, grants, recorded, faults>>

-----------------------------------------------------------------------------
\* External: a process dies, and starts again with an empty cache.
Crash(p) ==
    /\ crashes < MaxCrashes
    /\ crashes' = crashes + 1
    /\ pc' = [c \in Calls |-> IF proc[c] = p /\ pc[c] \in Granted \cup {"claiming"}
                              THEN "dead" ELSE pc[c]]
    /\ cache' = [cache EXCEPT ![p] = [k \in Keys |-> NoEntry]]
    /\ holder' = [holder EXCEPT ![p] = NoCall]
    /\ UNCHANGED <<disk, reply, grants, recorded, faults>>

Finished == {"refused", "completed", "released", "dead"}

AllFinished ==
    /\ \A c \in Calls : pc[c] \in Finished
    /\ UNCHANGED vars

Next ==
    \/ \E c \in Calls :
         \/ CacheHit(c) \/ LoadEntry(c) \/ FindNoEntry(c) \/ Claim(c)
         \/ \E v \in Verdicts : SaveCompletion(c, v)
         \/ CacheCompletion(c) \/ RemoveFile(c) \/ Uncache(c)
    \/ \E p \in Procs : Crash(p)
    \/ AllFinished

Spec == Init /\ [][Next]_vars

-----------------------------------------------------------------------------
\* Properties

\* Every variable keeps the shape the code gives it.
TypeOK ==
    /\ disk \in [Keys -> Contents]
    /\ cache \in [Procs -> [Keys -> Contents]]
    /\ holder \in [Procs -> Calls \cup {NoCall}]
    /\ pc \in [Calls -> {"start", "claiming"} \cup Granted \cup Finished]
    /\ reply \in [Calls -> Verdicts \cup {"None"}]
    /\ crashes \in 0..MaxCrashes
    /\ grants \in [Keys -> Nat]
    /\ recorded \in [Keys -> Verdicts \cup {"None"}]
    /\ faults \subseteq Keys

\* claim_or_check: "checking, loading from disk, and inserting must happen as one
\* unit, otherwise two callers can both observe a cache miss and both believe
\* they own the key".  At most one live call at a time owns a key, even when the
\* directory cannot be read or written.
ClaimExclusive ==
    \A c, d \in Calls : Holds(c) /\ Holds(d) /\ key[c] = key[d] => c = d

\* A claim outlives the process that made it: as long as the key's file could be
\* read and written, a key that was granted is granted again only after a
\* release began, whatever crashed in between.
GrantedOnce == \A k \in Keys \ faults : grants[k] <= 1

\* A verdict outlives the process too: once complete() returned, it is what the
\* store answers, in the same process or after a restart.
VerdictDurable ==
    \A k \in Keys \ faults, p \in Procs :
        recorded[k] # "None" => ToResult(Entry(p, k)) = recorded[k]

\* A key is in flight only because a call that is still running claimed it or a
\* call that crashed did: completing and releasing leave no stale mark behind.
InFlightExplained ==
    \A k \in Keys \ faults, p \in Procs :
        Entry(p, k) = InFlight =>
            \E c \in Calls : key[c] = k /\ (Holds(c) \/ pc[c] = "dead")

=============================================================================
