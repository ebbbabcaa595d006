----------------------------- MODULE Idempotency -----------------------------
(***************************************************************************)
(* What the IdempotencyStore trait promises the callers of an executor     *)
(* (crates/agentverify-runtime/src/executor.rs, "Key lifecycle"): a key is *)
(* claimed, and then either released or completed with a verdict; a        *)
(* completed key never changes again; and a caller is answered with a      *)
(* duplicate notice, with an error, or with the verdict of its own key.    *)
(***************************************************************************)

CONSTANTS Runs,     \* the calls made to the executor
          Keys,     \* idempotency keys
          NoKey,    \* what a call without a key asks about
          Verdicts  \* what a key can be completed with

VARIABLES slot,     \* key  -> "Vacant", "InFlight" or a verdict
          asks,     \* call -> the key it asks about, which never changes
          answer    \* call -> "Silent", "Duplicate", "Error" or a verdict

Init ==
    /\ slot = [k \in Keys |-> "Vacant"]
    /\ asks \in [Runs -> Keys \cup {NoKey}]
    /\ answer = [r \in Runs |-> "Silent"]

Claim(k) ==
    /\ slot[k] = "Vacant"
    /\ slot' = [slot EXCEPT ![k] = "InFlight"]

Settle(k, outcome) ==
    /\ slot[k] = "InFlight"
    /\ slot' = [slot EXCEPT ![k] = outcome]

Tell(r, what) ==
    /\ answer[r] = "Silent"
    /\ answer' = [answer EXCEPT ![r] = what]

Own(k) == Claim(k) /\ UNCHANGED <<asks, answer>>

Complete(k, v) == Settle(k, v) /\ UNCHANGED <<asks, answer>>

\* A caller that is turned away leaves the key alone or, when the key became
\* vacant meanwhile, takes it.
TurnAway(r, k) ==
    /\ asks[r] = k
    /\ Tell(r, "Duplicate")
    /\ Claim(k) \/ UNCHANGED slot
    /\ UNCHANGED asks

\* A caller that fails releases its key or completes it with "Unknown".
Abandon(r, k) ==
    /\ asks[r] = k
    /\ Settle(k, "Vacant") \/ Settle(k, "Unknown")
    /\ Tell(r, "Error")
    /\ UNCHANGED asks

Report(r, k) ==
    /\ asks[r] = k
    /\ slot[k] \in Verdicts
    /\ Tell(r, slot[k])
    /\ UNCHANGED <<slot, asks>>

Next ==
    \E k \in Keys :
        \/ Own(k)
        \/ \E v \in Verdicts : Complete(k, v)
        \/ \E r \in Runs : TurnAway(r, k) \/ Abandon(r, k) \/ Report(r, k)

Spec == Init /\ [][Next]_<<slot, asks, answer>>

=============================================================================
