------------------------------- MODULE Policies -------------------------------
(***************************************************************************)
(* Policies: the types and builders of crates/agentverify-policy/src/      *)
(* policy.rs and error.rs.                                                 *)
(*                                                                         *)
(* The name of an action is a sequence of parts, and a regular expression  *)
(* is the set of names it matches.  A map with names for its keys is a     *)
(* function on the names it has.                                           *)
(***************************************************************************)
EXTENDS Naturals, SequencesExt

NoLimit == [max_count |-> 0, window |-> 0, unlimited |-> TRUE]
Limit(n, w) == [max_count |-> n, window |-> w, unlimited |-> FALSE]
LimitType == [max_count : Nat, window : Nat, unlimited : BOOLEAN]

\* The derived order of AccessLevel.
AccessLevel == [User |-> 0, Operator |-> 1, Admin |-> 2, System |-> 3]

PolicyViolation ==
    {"ActionNotAllowed", "ActionBlocked", "EmptyActionName", "ContractRequired",
     "ContractInvalid", "RateLimitExceeded", "InsufficientAccessLevel"}

PolicyDecision == {"Allowed"} \cup PolicyViolation

-----------------------------------------------------------------------------
\* ActionPattern

exact(name) == [type |-> "Exact", value |-> name, names |-> {}]
prefix(start) == [type |-> "Prefix", value |-> start, names |-> {}]
suffix(end) == [type |-> "Suffix", value |-> end, names |-> {}]
regex(names) == [type |-> "Regex", value |-> <<>>, names |-> names]

matches(pattern, name) ==
    \/ pattern.type = "Exact" /\ name = pattern.value
    \/ pattern.type = "Prefix" /\ IsPrefix(pattern.value, name)
    \/ pattern.type = "Suffix" /\ IsSuffix(pattern.value, name)
    \/ pattern.type = "Regex" /\ name \in pattern.names

-----------------------------------------------------------------------------
\* Policy and its builders

Nothing == [name \in {} |-> NoLimit]

NewPolicy ==
    [allowed_actions |-> {}, blocked_actions |-> {}, rate_limits |-> Nothing,
     rate_limits_per_key |-> Nothing, contract_requirements |-> {},
     access_requirements |-> Nothing, enabled |-> TRUE]

allow_action_pattern(policy, pattern) == [policy EXCEPT !.allowed_actions = @ \cup {pattern}]
allow_action_name(policy, name) == allow_action_pattern(policy, exact(name))
block_action_name(policy, name) == [policy EXCEPT !.blocked_actions = @ \cup {name}]
with_rate_limit(policy, name, max, window) ==
    [policy EXCEPT !.rate_limits = (name :> Limit(max, window)) @@ @]
with_rate_limit_per_key(policy, name, max, window) ==
    [policy EXCEPT !.rate_limits_per_key = (name :> Limit(max, window)) @@ @]
require_contract_for_action(policy, name) ==
    [policy EXCEPT !.contract_requirements = @ \cup {[action_name |-> name, required |-> TRUE]}]
require_access_level(policy, name, level) ==
    [policy EXCEPT !.access_requirements = (name :> level) @@ @]

-----------------------------------------------------------------------------
\* What evaluate_with_access asks a policy

is_action_allowed(policy, name) ==
    /\ name # <<>>
    /\ name \notin policy.blocked_actions
    /\ \/ policy.allowed_actions = {}
       \/ \E pattern \in policy.allowed_actions : matches(pattern, name)

get_rate_limit(policy, name) ==
    IF name \in DOMAIN policy.rate_limits THEN policy.rate_limits[name] ELSE NoLimit

get_rate_limit_per_key(policy, name) ==
    IF name \in DOMAIN policy.rate_limits_per_key
    THEN policy.rate_limits_per_key[name] ELSE NoLimit

is_contract_required(policy, name) ==
    \E req \in policy.contract_requirements : req.action_name = name /\ req.required

\* Without a requirement every level will do.
get_required_access_level(policy, name) ==
    IF name \in DOMAIN policy.access_requirements
    THEN policy.access_requirements[name] ELSE "User"

=============================================================================
