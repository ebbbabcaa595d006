----------------------------- MODULE RedisStore -----------------------------
(***************************************************************************)
(* RedisIdempotencyStore: crates/agentverify-runtime/src/                  *)
(* idempotency_store.rs.                                                   *)
(*                                                                         *)
(* Any number of processes share one Redis server.  Each call is one       *)
(* claim_or_check and, if it was told Claimed, one complete or one         *)
(* release.  A step is one command at the server.  The connection pool may *)
(* have no connection to give; a command may fail, before or after the     *)
(* server executed it; a call may die while it owns a key.  An entry goes  *)
(* by itself only if the SET that wrote it carried EX: a SET replaces the  *)
(* time to live together with the value.                                   *)
(***************************************************************************)
EXTENDS StoredEntry

CONSTANTS Calls,  \* uses of the store by the executors
          Keys,   \* idempotency keys
          key     \* call -> the key it is about

ASSUME CallsAssumption == key \in [Calls -> Keys]

VARIABLES
    server,   \* the value of idempotency:{key}, "" when it does not exist
    expires,  \* the keys whose entry has a time to live
    pc,       \* where each call is
    reply,    \* the verdict claim_or_check answered, or complete was given
    lapsed    \* history: keys whose protection ended while a call relied on it

vars == <<server, expires, pc, reply, lapsed>>

Holds(c) == pc[c] = "holding"
Owned(k) == \E c \in Calls : key[c] = k /\ Holds(c)

Init ==
    /\ server = [k \in Keys |-> NoEntry]
    /\ expires = {}
    /\ pc = [c \in Calls |-> "start"]
    /\ reply = [c \in Calls |-> "None"]
    /\ lapsed = {}

Go(c, from, to) == pc[c] = from /\ pc' = [pc EXCEPT ![c] = to]
Value(c) == server[key[c]]
entries == <<server, expires>>

Write(c, value) == server' = [server EXCEPT ![key[c]] = value]

\* SET with EX, SET without it, and DEL.
SetEx(c, value) == Write(c, value) /\ expires' = expires \cup {key[c]}
SetForever(c, value) == Write(c, value) /\ expires' = expires \ {key[c]}
Del(c) == SetForever(c, NoEntry)

\* SET NX EX: whether it is answered with true.
SetNx(c, from, claimed, refused) ==
    \/ Value(c) = NoEntry /\ Go(c, from, claimed) /\ SetEx(c, InFlight)
    \/ Value(c) # NoEntry /\ Go(c, from, refused) /\ UNCHANGED entries

\* The command fails at the client; an absent key may have been set.
SetNxError(c, from) ==
    /\ Go(c, from, "refused")
    /\ (Value(c) = NoEntry /\ SetEx(c, InFlight)) \/ UNCHANGED entries
    /\ UNCHANGED <<reply, lapsed>>

-----------------------------------------------------------------------------
\* claim_or_check

\* Fails open: without a connection the caller is told that it owns the key.
NoConnection(c) ==
    /\ Go(c, "start", "holding")
    /\ lapsed' = lapsed \cup {key[c]}
    /\ UNCHANGED <<entries, reply>>

\* Mutant of TryClaim: EXISTS and SET instead of SET NX.
TryClaimUnconditionally(c) ==
    /\ Go(c, "start", "holding")
    /\ SetEx(c, InFlight)
    /\ UNCHANGED <<reply, lapsed>>

TryClaim(c) == SetNx(c, "start", "holding", "checking") /\ UNCHANGED <<reply, lapsed>>

TryClaimError(c) == SetNxError(c, "start")

GetEntry(c) ==
    /\ Value(c) # NoEntry
    /\ Go(c, "checking", "refused")
    /\ reply' = [reply EXCEPT ![c] = ToResult(Value(c))]
    /\ UNCHANGED <<entries, lapsed>>

\* The entry is gone, or the GET failed.
GetNothing(c) ==
    /\ Go(c, "checking", "retrying")
    /\ UNCHANGED <<entries, reply, lapsed>>

\* Mutant of RetryClaim: the retry forgets NX.
RetryClaimUnconditionally(c) ==
    /\ Go(c, "retrying", "holding")
    /\ SetEx(c, InFlight)
    /\ UNCHANGED <<reply, lapsed>>

RetryClaim(c) == SetNx(c, "retrying", "holding", "refused") /\ UNCHANGED <<reply, lapsed>>

RetryClaimError(c) == SetNxError(c, "retrying")

-----------------------------------------------------------------------------
\* complete and release, whose errors are ignored

\* Mutant of Complete: the verdict is SET without EX, which ends the time to live
\* that the claim gave the key.
CompleteForever(c, v) ==
    /\ Go(c, "holding", "completed")
    /\ SetForever(c, Display[v]) \/ UNCHANGED entries
    /\ reply' = [reply EXCEPT ![c] = v]
    /\ UNCHANGED lapsed

Complete(c, v) ==
    /\ Go(c, "holding", "completed")
    /\ SetEx(c, Display[v]) \/ UNCHANGED entries
    /\ reply' = [reply EXCEPT ![c] = v]
    /\ UNCHANGED lapsed

Release(c) ==
    /\ Go(c, "holding", "released")
    /\ Del(c) \/ UNCHANGED entries
    /\ UNCHANGED <<reply, lapsed>>

-----------------------------------------------------------------------------
\* External

\* The time to live of an entry is over.
Expire(k) ==
    /\ k \in expires
    /\ server' = [server EXCEPT ![k] = NoEntry]
    /\ expires' = expires \ {k}
    /\ lapsed' = IF Owned(k) THEN lapsed \cup {k} ELSE lapsed
    /\ UNCHANGED <<pc, reply>>

Die(c) ==
    /\ Go(c, "holding", "dead")
    /\ UNCHANGED <<entries, reply, lapsed>>

Finished == {"refused", "completed", "released", "dead"}

AllFinished ==
    /\ \A c \in Calls : pc[c] \in Finished
    /\ expires = {}
    /\ UNCHANGED vars

Next ==
    \/ \E c \in Calls :
         \/ NoConnection(c) \/ TryClaim(c) \/ TryClaimError(c)
         \/ GetEntry(c) \/ GetNothing(c) \/ RetryClaim(c) \/ RetryClaimError(c)
         \/ \E v \in Verdicts : Complete(c, v)
         \/ Release(c) \/ Die(c)
    \/ \E k \in Keys : Expire(k)
    \/ AllFinished

-----------------------------------------------------------------------------
\* Properties

\* "Uses SETNX for atomic claim": two calls own a key at the same time only if the
\* key expired while one of them owned it or was handed out without a connection,
\* whatever commands were lost or raced.
ClaimExclusive ==
    \A c, d \in Calls :
        Holds(c) /\ Holds(d) /\ key[c] = key[d] /\ key[c] \notin lapsed => c = d

\* complete is an unconditional SET and release an unconditional DEL: still, as
\* long as the key did not lapse, a verdict is only ever removed by its TTL.
VerdictStable ==
    [][\A k \in Keys \ lapsed' :
         ToResult(server[k]) # "None" =>
             \/ server'[k] = server[k]
             \/ server'[k] = NoEntry /\ UNCHANGED pc]_vars

=============================================================================
