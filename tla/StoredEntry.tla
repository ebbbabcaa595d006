----------------------------- MODULE StoredEntry -----------------------------
(***************************************************************************)
(* What the persistent idempotency stores keep of a key: PersistedEntry    *)
(* and RedisEntry in crates/agentverify-runtime/src/idempotency_store.rs,  *)
(* of which only the state field matters.  A verdict is stored as its      *)
(* Display text and parsed back.                                           *)
(***************************************************************************)

Verdicts == {"Verified", "Failed", "Unknown", "Partial", "Duplicate"}

\* VerificationResult's Display, which new_completed stores.
Display == [Verified |-> "verified", Failed |-> "failed", Unknown |-> "unknown",
            Partial |-> "partial", Duplicate |-> "duplicate"]

NoEntry == ""
InFlight == "InFlight"
Contents == {NoEntry, InFlight} \cup {Display[v] : v \in Verdicts}

\* Mutant of ToResult: the parser does not know what a partial verdict is called.
ToResultForgetsPartial(state) ==
    IF \E v \in Verdicts \ {"Partial"} : Display[v] = state
    THEN CHOOSE v \in Verdicts : Display[v] = state
    ELSE "None"

\* to_result: None for an entry in flight or a text it does not know.
ToResult(state) ==
    IF \E v \in Verdicts : Display[v] = state
    THEN CHOOSE v \in Verdicts : Display[v] = state
    ELSE "None"

=============================================================================
