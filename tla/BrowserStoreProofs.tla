------------------------- MODULE BrowserStoreProofs -------------------------
(***************************************************************************)
(* Theorems about RedisStore and BrowserStore, for any number of calls,    *)
(* keys and tabs.                                                          *)
(***************************************************************************)
EXTENDS BrowserStore, TLAPS

-----------------------------------------------------------------------------
\* What is stored

\* An entry in flight is no verdict.
LEMMA InFlightHasNoResult == ToResult(InFlight) = "None"
  BY DEF ToResult, InFlight, Verdicts, Display

\* Neither is a key that does not exist.
LEMMA NoEntryHasNoResult == ToResult(NoEntry) = "None"
  BY DEF ToResult, NoEntry, Verdicts, Display

-----------------------------------------------------------------------------
\* Type correctness

Places == {"start", "checking", "retrying", "absent", "holding"} \cup Finished

\* Every variable keeps the shape the code gives it.
StoreTypeOK ==
    /\ server \in [Keys -> Contents]
    /\ expires \subseteq Keys
    /\ pc \in [Calls -> Places]
    /\ reply \in [Calls -> Verdicts \cup {"None"}]
    /\ lapsed \subseteq Keys
    /\ backend \in {"redis", "browser"}

LEMMA ResultType == ASSUME NEW s PROVE ToResult(s) \in Verdicts \cup {"None"}
  BY DEF ToResult

LEMMA StoreTypeInductive == StoreTypeOK /\ [StoreNext]_storeVars => StoreTypeOK'
  <1> SUFFICES ASSUME StoreTypeOK, [StoreNext]_storeVars PROVE StoreTypeOK'
    OBVIOUS
  <1>1. NoEntry \in Contents /\ InFlight \in Contents /\ \A v \in Verdicts : Display[v] \in Contents
    BY DEF Contents
  <1> USE <1>1, ResultType, CallsAssumption
      DEF StoreTypeOK, Go, Value, Write, SetEx, SetForever, Del, entries, SetNx, SetNxError, setting, Places, Finished
  <1> HIDE DEF Contents
  <1>2. CASE UNCHANGED storeVars
    BY <1>2 DEF storeVars, vars
  <1>3. ASSUME NEW c \in Calls, UNCHANGED setting,
               NoConnection(c) \/ TryClaim(c) \/ TryClaimError(c) \/ GetEntry(c) \/ GetNothing(c)
               \/ RetryClaim(c) \/ RetryClaimError(c)
        PROVE StoreTypeOK'
    <2>1. CASE NoConnection(c)
      BY <1>3, <2>1 DEF NoConnection
    <2>2. CASE TryClaim(c)
      BY <1>3, <2>2 DEF TryClaim
    <2>3. CASE TryClaimError(c)
      BY <1>3, <2>3 DEF TryClaimError
    <2>4. CASE GetEntry(c)
      BY <1>3, <2>4 DEF GetEntry
    <2>5. CASE GetNothing(c)
      BY <1>3, <2>5 DEF GetNothing
    <2>6. CASE RetryClaim(c)
      BY <1>3, <2>6 DEF RetryClaim
    <2>7. CASE RetryClaimError(c)
      BY <1>3, <2>7 DEF RetryClaimError
    <2> QED
      BY <1>3, <2>1, <2>2, <2>3, <2>4, <2>5, <2>6, <2>7
  <1>4. ASSUME NEW c \in Calls, UNCHANGED setting,
               (\E v \in Verdicts : Complete(c, v)) \/ Release(c) \/ Die(c)
        PROVE StoreTypeOK'
    BY <1>4 DEF Complete, Release, Die
  <1>5. ASSUME NEW k \in Keys, UNCHANGED setting, Expire(k) PROVE StoreTypeOK'
    BY <1>5 DEF Expire
  <1>6. ASSUME NEW c \in Calls, UNCHANGED setting, GetItem(c) \/ SetItem(c) \/ ClaimFails(c)
                                                \/ \E v \in Verdicts : CompleteItem(c, v)
        PROVE StoreTypeOK'
    BY <1>6 DEF GetItem, SetItem, ClaimFails, CompleteItem
  <1>7. ASSUME UNCHANGED setting, AllFinished \/ BrowserFinished PROVE StoreTypeOK'
    BY <1>7 DEF AllFinished, BrowserFinished, vars
  <1>8. CASE StoreNext
    BY <1>8, <1>3, <1>4, <1>5, <1>6, <1>7
       DEF StoreNext, Next, BrowserNext, ReleaseItem, CloseTab
  <1> QED
    BY <1>2, <1>8

\* The store keeps one of the known texts per key, whatever fails or races.
THEOREM StoreTypeCorrect == StoreSpec => []StoreTypeOK
  <1>1. StoreInit => StoreTypeOK
    BY DEF StoreInit, Init, StoreTypeOK, Contents, Places
  <1> QED
    BY <1>1, StoreTypeInductive, PTL DEF StoreSpec

-----------------------------------------------------------------------------
\* Time to live

\* Redis holds nothing that it would keep for ever.
NothingIsForever == backend = "redis" => \A k \in Keys : server[k] # NoEntry => k \in expires

\* Each SET of claim_or_check, of its retry and of complete carries EX, and only DEL
\* and the expiry itself take the time to live away, with the entry.  This is the
\* safety half of EntriesExpire: an entry is always one the server will drop.
THEOREM EntriesHaveTtl == StoreSpec => []NothingIsForever
  <1>1. StoreInit => NothingIsForever
    BY DEF StoreInit, Init, NothingIsForever
  <1>2. StoreTypeOK /\ NothingIsForever /\ [StoreNext]_storeVars => NothingIsForever'
    <2> SUFFICES ASSUME StoreTypeOK, NothingIsForever, [StoreNext]_storeVars, backend' = "redis"
                 PROVE  \A k \in Keys : server'[k] # NoEntry => k \in expires'
      BY DEF NothingIsForever
    <2> USE CallsAssumption
        DEF StoreTypeOK, NothingIsForever, Go, Value, Write, SetEx, SetForever, Del, entries, SetNx, SetNxError
    <2> HIDE DEF Contents, NoEntry, InFlight, Places
    <2>1. CASE UNCHANGED storeVars
      BY <2>1 DEF storeVars, vars, setting
    <2>2. ASSUME Next, backend = "redis" PROVE \A k \in Keys : server'[k] # NoEntry => k \in expires'
      <3>1. ASSUME NEW c \in Calls, NoConnection(c) \/ GetEntry(c) \/ GetNothing(c) \/ Die(c)
            PROVE UNCHANGED entries
        BY <3>1 DEF NoConnection, GetEntry, GetNothing, Die
      <3>2. ASSUME NEW c \in Calls, TryClaim(c) \/ TryClaimError(c) \/ RetryClaim(c) \/ RetryClaimError(c)
            PROVE SetEx(c, InFlight) \/ UNCHANGED entries
        BY <3>2 DEF TryClaim, TryClaimError, RetryClaim, RetryClaimError
      <3>3. ASSUME NEW c \in Calls, NEW v \in Verdicts, Complete(c, v)
            PROVE SetEx(c, Display[v]) \/ UNCHANGED entries
        BY <3>3 DEF Complete
      <3>4. ASSUME NEW c \in Calls, Release(c) PROVE Del(c) \/ UNCHANGED entries
        BY <3>4 DEF Release
      <3>5. ASSUME NEW j \in Keys, Expire(j)
            PROVE \A k \in Keys : server'[k] # NoEntry => k \in expires'
        BY <2>2, <3>5 DEF Expire
      <3>6. ASSUME AllFinished PROVE UNCHANGED entries
        BY <3>6 DEF AllFinished, vars
      <3> QED
        BY <2>2, <3>1, <3>2, <3>3, <3>4, <3>5, <3>6 DEF Next
    <2> QED
      BY <2>1, <2>2 DEF StoreNext, setting
  <1> QED
    BY <1>1, <1>2, StoreTypeCorrect, PTL DEF StoreSpec

-----------------------------------------------------------------------------
\* Exclusion

\* A call that owns a key that did not lapse finds its own mark at the server: this
\* is what makes the next SET NX, or get_item, refuse.
OwnerIsMarked ==
    \A c \in Calls : Holds(c) /\ key[c] \notin lapsed => server[key[c]] = InFlight

Exclusion == OwnerIsMarked /\ ClaimExclusive

\* A call that takes a free key is its only owner; one that writes the entry of its
\* own key disturbs no other.
LEMMA ExclusionInductive == StoreTypeOK /\ Exclusion /\ [StoreNext]_storeVars => Exclusion'
  <1> SUFFICES ASSUME StoreTypeOK, Exclusion, [StoreNext]_storeVars PROVE Exclusion'
    OBVIOUS
  <1>1. NoEntry # InFlight
    BY DEF NoEntry, InFlight
  <1> USE <1>1, CallsAssumption
      DEF StoreTypeOK, Exclusion, OwnerIsMarked, ClaimExclusive, Holds, Go, Value, Write, SetEx, SetForever, Del, entries, SetNx, SetNxError
  <1> HIDE DEF Contents, NoEntry, InFlight, Places
  <1>2. CASE UNCHANGED storeVars
    BY <1>2 DEF storeVars, vars
  <1>3. ASSUME NEW c \in Calls, NoConnection(c) PROVE Exclusion'
    BY <1>3 DEF NoConnection
  <1>4. ASSUME NEW c \in Calls, TryClaim(c) PROVE Exclusion'
    BY <1>4 DEF TryClaim
  <1>5. ASSUME NEW c \in Calls, TryClaimError(c) PROVE Exclusion'
    BY <1>5 DEF TryClaimError
  <1>6. ASSUME NEW c \in Calls, GetEntry(c) \/ GetNothing(c) PROVE Exclusion'
    BY <1>6 DEF GetEntry, GetNothing
  <1>7. ASSUME NEW c \in Calls, RetryClaim(c) PROVE Exclusion'
    BY <1>7 DEF RetryClaim
  <1>8. ASSUME NEW c \in Calls, RetryClaimError(c) PROVE Exclusion'
    BY <1>8 DEF RetryClaimError
  <1>9. ASSUME NEW c \in Calls, NEW v \in Verdicts, Complete(c, v) \/ CompleteItem(c, v) PROVE Exclusion'
    BY <1>9 DEF Complete, CompleteItem
  <1>10. ASSUME NEW c \in Calls, Release(c) \/ Die(c) PROVE Exclusion'
    BY <1>10 DEF Release, Die
  <1>11. ASSUME NEW k \in Keys, Expire(k) PROVE Exclusion'
    BY <1>11 DEF Expire, Owned
  <1>12. ASSUME NEW c \in Calls, GetItem(c) \/ ClaimFails(c) PROVE Exclusion'
    BY <1>12 DEF GetItem, ClaimFails
  <1>13. ASSUME NEW c \in Calls, SetItem(c) PROVE Exclusion'
    BY <1>13 DEF SetItem
  <1>14. CASE AllFinished \/ BrowserFinished
    BY <1>14 DEF AllFinished, BrowserFinished, vars
  <1>15. CASE StoreNext
    BY <1>15, <1>3, <1>4, <1>5, <1>6, <1>7, <1>8, <1>9, <1>10, <1>11, <1>12, <1>13, <1>14
       DEF StoreNext, Next, BrowserNext, ReleaseItem, CloseTab
  <1> QED
    BY <1>2, <1>15

\* In either store two calls own a key at once only if it lapsed.
LEMMA ExclusionHolds == StoreSpec => []Exclusion
  <1>1. StoreInit => Exclusion
    BY DEF StoreInit, Init, Exclusion, OwnerIsMarked, ClaimExclusive, Holds
  <1> QED
    BY <1>1, ExclusionInductive, StoreTypeCorrect, PTL DEF StoreSpec

-----------------------------------------------------------------------------
\* What makes a key lapse in the browser

Raced(k) == \E c, d \in Calls : key[c] = k /\ key[d] = k /\ tab[c] # tab[d]

\* A tab has one call between get_item and set_item, and the key such a call found
\* absent is still absent unless a call of another tab is about it too.
TabsTakeTurns ==
    backend = "browser" =>
        /\ \A c, d \in Calls : pc[c] = "absent" /\ pc[d] = "absent" /\ tab[c] = tab[d] => c = d
        /\ \A c \in Calls : pc[c] = "absent" => server[key[c]] = NoEntry \/ Raced(key[c])
        /\ \A k \in lapsed : Raced(k)

LEMMA TabsInductive == StoreTypeOK /\ TabsTakeTurns /\ [StoreNext]_storeVars => TabsTakeTurns'
  <1> SUFFICES ASSUME StoreTypeOK, TabsTakeTurns, [StoreNext]_storeVars PROVE TabsTakeTurns'
    OBVIOUS
  <1>1. CASE UNCHANGED storeVars
    BY <1>1 DEF storeVars, vars, setting, TabsTakeTurns, Raced
  <1>2. CASE backend = "redis" /\ UNCHANGED setting
    BY <1>2 DEF setting, TabsTakeTurns
  <1>3. ASSUME backend = "browser", BrowserNext, UNCHANGED setting PROVE TabsTakeTurns'
    <2> USE <1>3, CallsAssumption
        DEF StoreTypeOK, TabsTakeTurns, Raced, Go, Value, Write, SetEx, SetForever, Del, entries, setting, Runs
    <2> HIDE DEF Contents, NoEntry, InFlight, Places
    <2>1. ASSUME NEW c \in Calls, GetItem(c) PROVE TabsTakeTurns'
      BY <2>1 DEF GetItem
    <2>2. ASSUME NEW c \in Calls, SetItem(c) PROVE TabsTakeTurns'
      BY <2>2 DEF SetItem
    <2>3. ASSUME NEW c \in Calls, ClaimFails(c) PROVE TabsTakeTurns'
      BY <2>3 DEF ClaimFails
    <2>4. ASSUME NEW c \in Calls, NEW v \in Verdicts, CompleteItem(c, v) PROVE TabsTakeTurns'
      BY <2>4 DEF CompleteItem
    <2>5. ASSUME NEW c \in Calls, ReleaseItem(c) PROVE TabsTakeTurns'
      BY <2>5 DEF ReleaseItem, Release
    <2>6. ASSUME NEW c \in Calls, CloseTab(c) PROVE TabsTakeTurns'
      BY <2>6 DEF CloseTab, Die
    <2>7. CASE BrowserFinished
      BY <2>7 DEF BrowserFinished, vars
    <2> QED
      BY <2>1, <2>2, <2>3, <2>4, <2>5, <2>6, <2>7 DEF BrowserNext
  <1> QED
    BY <1>1, <1>2, <1>3 DEF StoreNext

\* A key has two owners in Redis only after its entry expired under an owner or it
\* was handed out without a connection, and in the browser only if calls of two
\* tabs are about it.
THEOREM StoresExclude == StoreSpec => []ClaimsExclude
  <1>1. StoreInit => TabsTakeTurns
    BY DEF StoreInit, Init, TabsTakeTurns
  <1>2. Exclusion /\ TabsTakeTurns => ClaimsExclude
    BY DEF Exclusion, TabsTakeTurns, ClaimsExclude, Raced
  <1> QED
    BY <1>1, <1>2, TabsInductive, ExclusionHolds, StoreTypeCorrect, PTL DEF StoreSpec

-----------------------------------------------------------------------------
\* Verdicts

VerdictStep ==
    \A k \in Keys \ lapsed' :
         ToResult(server[k]) # "None" =>
             \/ server'[k] = server[k]
             \/ server'[k] = NoEntry /\ UNCHANGED pc

\* A stored verdict is neither overwritten by a late complete nor deleted by a late
\* release, although neither looks at what it replaces: only its time to live
\* takes it away, as long as its key did not lapse.
THEOREM VerdictsAreStable == StoreSpec => VerdictStable
  <1>1. Exclusion /\ StoreTypeOK /\ [StoreNext]_storeVars => [VerdictStep]_vars
    <2> SUFFICES ASSUME Exclusion, StoreTypeOK, StoreNext,
                        NEW k \in Keys \ lapsed', ToResult(server[k]) # "None"
                 PROVE  \/ server'[k] = server[k]
                        \/ server'[k] = NoEntry /\ UNCHANGED pc
      BY DEF storeVars, VerdictStep
    <2>1. server[k] # InFlight /\ server[k] # NoEntry
      BY InFlightHasNoResult, NoEntryHasNoResult
    <2> USE <2>1, CallsAssumption
        DEF StoreTypeOK, Exclusion, OwnerIsMarked, Holds, Go, Value, Write, SetEx, SetForever, Del, entries, SetNx, SetNxError
    <2> HIDE DEF Contents, NoEntry, InFlight, Places, ToResult
    <2>2. ASSUME NEW c \in Calls, NoConnection(c) \/ TryClaim(c) \/ TryClaimError(c) PROVE server'[k] = server[k]
      BY <2>2 DEF NoConnection, TryClaim, TryClaimError
    <2>3. ASSUME NEW c \in Calls, GetEntry(c) \/ GetNothing(c) PROVE server'[k] = server[k]
      BY <2>3 DEF GetEntry, GetNothing
    <2>4. ASSUME NEW c \in Calls, RetryClaim(c) \/ RetryClaimError(c) PROVE server'[k] = server[k]
      BY <2>4 DEF RetryClaim, RetryClaimError
    <2>5. ASSUME NEW c \in Calls, NEW v \in Verdicts, Complete(c, v) \/ CompleteItem(c, v) PROVE server'[k] = server[k]
      BY <2>5 DEF Complete, CompleteItem
    <2>6. ASSUME NEW c \in Calls, Release(c) \/ Die(c) PROVE server'[k] = server[k]
      BY <2>6 DEF Release, Die
    <2>7. ASSUME NEW j \in Keys, Expire(j)
          PROVE server'[k] = server[k] \/ (server'[k] = NoEntry /\ UNCHANGED pc)
      BY <2>7 DEF Expire
    <2>8. ASSUME NEW c \in Calls, GetItem(c) \/ SetItem(c) \/ ClaimFails(c) PROVE server'[k] = server[k]
      BY <2>8 DEF GetItem, SetItem, ClaimFails
    <2>9. CASE AllFinished \/ BrowserFinished
      BY <2>9 DEF AllFinished, BrowserFinished, vars
    <2> QED
      BY <2>2, <2>3, <2>4, <2>5, <2>6, <2>7, <2>8, <2>9
         DEF StoreNext, Next, BrowserNext, ReleaseItem, CloseTab
  <1> QED
    BY <1>1, ExclusionHolds, StoreTypeCorrect, PTL DEF StoreSpec, VerdictStable, VerdictStep

=============================================================================
