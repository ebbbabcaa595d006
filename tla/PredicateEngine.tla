-------------------------- MODULE PredicateEngine --------------------------
(***************************************************************************)
(* PredicateEngine::evaluate: the verdict of a predicate on an observed    *)
(* document.  A predicate is a record with the fields of its enum variant. *)
(* The regular-expression cache memoises a pure function and is left out.  *)
(***************************************************************************)
EXTENDS Json

CONSTANTS
    Within,   \* the pairs <<s, t>> of strings with s a substring of t
    Rank,     \* the place of every string in the byte order
    Regexes   \* the patterns that compile, with the strings each matches

Leaves == {"Exists", "NotExists", "Equals", "NotEquals", "Contains", "Matches",
           "GreaterThan", "LessThan", "Count", "IsEmpty", "IsNotEmpty"}

exists(path)             == [type |-> "Exists", path |-> path]
not_exists(path)         == [type |-> "NotExists", path |-> path]
equals(path, value)      == [type |-> "Equals", path |-> path, value |-> value]
not_equals(path, value)  == [type |-> "NotEquals", path |-> path, value |-> value]
contains(path, value)    == [type |-> "Contains", path |-> path, value |-> value]
matches(path, pattern)   == [type |-> "Matches", path |-> path, pattern |-> pattern]
greater_than(path, value) == [type |-> "GreaterThan", path |-> path, value |-> value]
less_than(path, value)   == [type |-> "LessThan", path |-> path, value |-> value]
count(path, operator, n) == [type |-> "Count", path |-> path, operator |-> operator, n |-> n]
is_empty(path)           == [type |-> "IsEmpty", path |-> path]
is_not_empty(path)       == [type |-> "IsNotEmpty", path |-> path]
all(predicates)          == [type |-> "All", predicates |-> predicates]
any(predicates)          == [type |-> "Any", predicates |-> predicates]
negate(predicate)        == [type |-> "Not", predicates |-> <<predicate>>]
implies(antecedent, consequent) ==
    [type |-> "Implies", predicates |-> <<antecedent, consequent>>]

Satisfied(test) == IF test THEN "Verified" ELSE "Failed"

-----------------------------------------------------------------------------
eval_exists(state, path)     == Satisfied(get_path(state, path) # {})
eval_not_exists(state, path) == Satisfied(get_path(state, path) = {})

eval_equals(state, path, expected, args) ==
    Satisfied(\E v \in get_path(state, path) : v = resolve_value(expected, args))

eval_not_equals(state, path, value, args) ==
    Satisfied(\E v \in get_path(state, path) : v # resolve_value(value, args))

\* The JSON text of an object holds its keys and the strings below it.
InText(s, value) ==
    \E v \in Parts(value) :
        \/ IsString(v) /\ <<s, v.str>> \in Within
        \/ IsObject(v) /\ \E k \in DOMAIN v.obj : <<s, k>> \in Within

\* as_str().unwrap_or(""): every string contains the empty string, so a
\* non-string is found in every string.
eval_contains(state, path, value, args) ==
    LET wanted == resolve_value(value, args)
    IN  Satisfied(\E v \in get_path(state, path) :
            CASE IsString(v) -> IsString(wanted) => <<wanted.str, v.str>> \in Within
              [] IsArray(v) -> \E i \in DOMAIN v.arr : v.arr[i] = wanted
              [] IsObject(v) -> IsString(wanted) /\ InText(wanted.str, v)
              [] OTHER -> FALSE)

\* The pattern is compiled only once a string is there to match.
eval_matches(state, path, pattern) ==
    LET strings == {v \in get_path(state, path) : IsString(v)}
    IN  IF strings # {} /\ pattern \notin DOMAIN Regexes THEN "RegexError"
        ELSE Satisfied(\E v \in strings : v.str \in Regexes[pattern])

\* Numbers compare with numbers, strings with strings, nothing else compares.
Less(a, b) ==
    \/ IsNumber(a) /\ IsNumber(b) /\ a.num < b.num
    \/ IsString(a) /\ IsString(b) /\ Rank[a.str] < Rank[b.str]

eval_greater_than(state, path, value, args) ==
    Satisfied(\E v \in get_path(state, path) : Less(resolve_value(value, args), v))

eval_less_than(state, path, value, args) ==
    Satisfied(\E v \in get_path(state, path) : Less(v, resolve_value(value, args)))

Compare(operator, a, b) ==
    CASE operator = "Eq" -> a = b
      [] operator = "Ne" -> a # b
      [] operator = "Lt" -> a < b
      [] operator = "Le" -> a <= b
      [] operator = "Gt" -> a > b
      [] operator = "Ge" -> a >= b

Counted(v) ==
    CASE IsArray(v) -> {Len(v.arr)}
      [] IsObject(v) -> {Cardinality(DOMAIN v.obj)}
      [] IsString(v) -> {Length[v.str]}
      [] OTHER -> {}

\* A missing path counts 0; a scalar has no count and fails every comparison.
eval_count(state, path, operator, expected) ==
    LET found == get_path(state, path)
        counts == IF found = {} THEN {0} ELSE UNION {Counted(v) : v \in found}
    IN  Satisfied(\E n \in counts : Compare(operator, n, expected))

eval_is_empty(state, path) ==
    Satisfied(\A v \in get_path(state, path) : v = Null \/ 0 \in Counted(v))

eval_is_not_empty(state, path) == Satisfied(eval_is_empty(state, path) = "Failed")

-----------------------------------------------------------------------------
(***************************************************************************)
(* The compound predicates, on the results of their members in order.  The *)
(* code stops at the first member that decides or whose pattern fails to   *)
(* compile, and never looks at the rest.                                   *)
(***************************************************************************)
eval_all(results) ==
    LET stops == {i \in DOMAIN results : results[i] # "Verified"}
    IN  IF stops = {} THEN "Verified"
        ELSE IF results[Min(stops)] = "RegexError" THEN "RegexError" ELSE "Failed"

eval_any(results) ==
    LET stops == {i \in DOMAIN results : results[i] \in {"Verified", "RegexError"}}
    IN  IF stops = {} THEN "Failed" ELSE results[Min(stops)]

eval_not(result) ==
    CASE result = "RegexError" -> "RegexError"
      [] result = "Verified" -> "Failed"
      [] result = "Failed" -> "Verified"
      [] OTHER -> "Unknown"

\* Mutant: an antecedent that does not hold makes the implication fail.
eval_implies_strict(antecedent, consequent) ==
    IF "RegexError" \in {antecedent, consequent} THEN "RegexError"
    ELSE Satisfied(antecedent = "Verified" /\ consequent = "Verified")

eval_implies(antecedent, consequent) ==
    CASE antecedent = "RegexError" -> "RegexError"
      [] antecedent # "Verified" /\ antecedent # "RegexError" -> "Verified"
      [] antecedent = "Verified" /\ consequent = "RegexError" -> "RegexError"
      [] OTHER -> Satisfied(consequent = "Verified")

RECURSIVE evaluate(_, _, _)
evaluate(p, state, args) ==
    LET results == [i \in DOMAIN p.predicates |-> evaluate(p.predicates[i], state, args)]
    IN  CASE p.type = "Exists" -> eval_exists(state, p.path)
          [] p.type = "NotExists" -> eval_not_exists(state, p.path)
          [] p.type = "Equals" -> eval_equals(state, p.path, p.value, args)
          [] p.type = "NotEquals" -> eval_not_equals(state, p.path, p.value, args)
          [] p.type = "Contains" -> eval_contains(state, p.path, p.value, args)
          [] p.type = "Matches" -> eval_matches(state, p.path, p.pattern)
          [] p.type = "GreaterThan" -> eval_greater_than(state, p.path, p.value, args)
          [] p.type = "LessThan" -> eval_less_than(state, p.path, p.value, args)
          [] p.type = "Count" -> eval_count(state, p.path, p.operator, p.n)
          [] p.type = "IsEmpty" -> eval_is_empty(state, p.path)
          [] p.type = "IsNotEmpty" -> eval_is_not_empty(state, p.path)
          [] p.type = "All" -> eval_all(results)
          [] p.type = "Any" -> eval_any(results)
          [] p.type = "Not" -> eval_not(results[1])
          [] p.type = "Implies" -> eval_implies(results[1], results[2])

-----------------------------------------------------------------------------
(***************************************************************************)
(* What a predicate means, in two-valued logic and with no order of        *)
(* evaluation: bad says whether patterns that do not compile match.        *)
(***************************************************************************)
RECURSIVE Holds(_, _, _, _)
Holds(p, state, args, bad) ==
    LET At == get_path(state, p.path)
        Wanted == resolve_value(p.value, args)
        Part(i) == Holds(p.predicates[i], state, args, bad)
    IN  CASE p.type = "NotExists" -> At = {}
          [] p.type = "Matches" ->
                \E v \in At : IsString(v) /\ (IF p.pattern \in DOMAIN Regexes
                                              THEN v.str \in Regexes[p.pattern] ELSE bad)
          [] p.type = "IsEmpty" -> At \subseteq {Null, String(""), Array(<<>>), Object(<<>>)}
          [] p.type = "IsNotEmpty" -> ~(At \subseteq {Null, String(""), Array(<<>>), Object(<<>>)})
          [] p.type = "All" -> \A i \in DOMAIN p.predicates : Part(i)
          [] p.type = "Any" -> \E i \in DOMAIN p.predicates : Part(i)
          [] p.type = "Not" -> ~Part(1)
          [] p.type = "Implies" -> Part(1) => Part(2)
          [] OTHER -> evaluate(p, state, args) = "Verified"
=============================================================================
