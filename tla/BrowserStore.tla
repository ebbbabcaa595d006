---------------------------- MODULE BrowserStore ----------------------------
(***************************************************************************)
(* WasmIdempotencyStore: crates/agentverify-http/src/wasm_storage.rs.      *)
(*                                                                         *)
(* The store of the browser has the interface of RedisStore over the local *)
(* storage of an origin, which all its tabs share.  A call runs between    *)
(* two awaits without another call of its tab, and claim_or_check has no   *)
(* await: only another tab comes between its get_item and its set_item.    *)
(* There is no time to live; an access fails (quota, storage disabled) and *)
(* then changes nothing.                                                   *)
(***************************************************************************)
EXTENDS RedisStore

CONSTANT Tabs
VARIABLES
    backend, \* which of the two stores the calls use
    tab      \* call -> the tab it runs in

setting == <<backend, tab>>
storeVars == <<vars, setting>>

\* No other call of the tab is in the middle of claim_or_check.
Runs(c) == \A d \in Calls : tab[d] = tab[c] /\ pc[d] = "absent" => d = c

\* claim_or_check, get_item: the key is in flight, completed, or absent.
GetItem(c) ==
    /\ Runs(c)
    /\ Go(c, "start", IF Value(c) = NoEntry THEN "absent" ELSE "refused")
    /\ reply' = [reply EXCEPT ![c] = ToResult(Value(c))]
    /\ UNCHANGED <<entries, lapsed>>

\* claim_or_check, set_item; another tab may have written the key meanwhile.
SetItem(c) ==
    /\ Go(c, "absent", "holding")
    /\ SetForever(c, InFlight)
    /\ lapsed' = IF Value(c) # NoEntry THEN lapsed \cup {key[c]} ELSE lapsed
    /\ UNCHANGED reply

\* get_item or set_item fails, and the call returns the error.
ClaimFails(c) ==
    /\ Runs(c)
    /\ Go(c, "start", "refused") \/ Go(c, "absent", "refused")
    /\ UNCHANGED <<entries, reply, lapsed>>

\* complete: an error is returned, and the key stays in flight.
CompleteItem(c, v) ==
    /\ Runs(c)
    /\ Go(c, "holding", "completed")
    /\ SetForever(c, Display[v]) \/ UNCHANGED entries
    /\ reply' = [reply EXCEPT ![c] = v]
    /\ UNCHANGED lapsed

\* release, remove_item.
ReleaseItem(c) == Runs(c) /\ Release(c)

\* The tab is closed while the call owns the key.
CloseTab(c) == Runs(c) /\ Die(c)

BrowserFinished ==
    /\ \A c \in Calls : pc[c] \in Finished
    /\ UNCHANGED vars

BrowserNext ==
    \/ \E c \in Calls :
         \/ GetItem(c) \/ SetItem(c) \/ ClaimFails(c)
         \/ \E v \in Verdicts : CompleteItem(c, v)
         \/ ReleaseItem(c) \/ CloseTab(c)
    \/ BrowserFinished

StoreInit ==
    /\ Init
    /\ \/ backend = "redis" /\ tab = [c \in Calls |-> CHOOSE t \in Tabs : TRUE]
       \/ backend = "browser" /\ tab \in [Calls -> Tabs]

StoreNext ==
    /\ \/ backend = "redis" /\ Next
       \/ backend = "browser" /\ BrowserNext
    /\ UNCHANGED setting

\* The Redis server expires the entries that have a time to live.
StoreSpec ==
    /\ StoreInit /\ [][StoreNext]_storeVars
    /\ \A k \in Keys : WF_storeVars(backend = "redis" /\ Expire(k) /\ UNCHANGED setting)

-----------------------------------------------------------------------------
\* "Uses SETNX for atomic claim": two calls own a key at the same time only if the
\* key expired while one of them owned it or was handed out without a connection,
\* whatever commands were lost or raced; in the browser, only if a call of another
\* tab about the same key came between get_item and set_item.
ClaimsExclude ==
    /\ ClaimExclusive
    /\ backend = "browser" =>
           \A k \in lapsed : \E c, d \in Calls : key[c] = k /\ key[d] = k /\ tab[c] # tab[d]

\* "Entries are automatically expired to prevent unbounded growth and allow retry":
\* whatever Redis holds for a key, be it the claim of a call that died, one whose
\* reply was lost, one made by the retry, or a verdict, the key is free again at
\* some time; no SET of claim_or_check or complete leaves it without EX.
EntriesExpire ==
    \A k \in Keys : backend = "redis" /\ server[k] # NoEntry ~> server[k] = NoEntry
=============================================================================
