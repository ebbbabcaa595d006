--------------------------- MODULE MCPolicyLimiter ---------------------------
(***************************************************************************)
(* A small instance of PolicyLimiter for TLC.                              *)
(***************************************************************************)
EXTENDS PolicyLimiter

CONSTANTS k1

MCName == <<"update", "order">>

\* Two an interval of two ticks for the action, one an interval of three for a key.
Patterned ==
    allow_action_pattern(allow_action_pattern(NewPolicy, prefix(<<"delete">>)), suffix(<<"order">>))
Base == with_rate_limit_per_key(Patterned, MCName, 1, 3)
Limited == with_rate_limit(Base, MCName, 2, 2)
Guarded == require_access_level(require_contract_for_action(Limited, MCName), MCName, "Operator")

Good ==
    [policy |-> Guarded, name |-> MCName, key |-> k1, contract |-> "Valid",
     access_level |-> "Admin"]
Keyless == [Good EXCEPT !.policy = Limited, !.key = NoKey, !.contract = "None"]
Stricter ==
    [Good EXCEPT !.policy = allow_action_name(with_rate_limit(Guarded, MCName, 1, 2), MCName)]
Unlimited == [Good EXCEPT !.policy = Base]
Denied == [Good EXCEPT !.policy = block_action_name(Guarded, MCName), !.access_level = "User"]

AllRequests == {Good, Keyless, Stricter, Unlimited, Denied}

=============================================================================
