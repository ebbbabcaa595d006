------------------------------ MODULE Contracts ------------------------------
(***************************************************************************)
(* Contracts: decoding a file into a Contract, the parser's validation and *)
(* Contract::validate.  A document is a function from the fields it has to *)
(* their values, a schema version the sequence of its dot-separated parts  *)
(* (-1 for one that is no u32), an action name the sequence of the parts   *)
(* its observer splits it into.  A result is a record with a contract or   *)
(* an error.                                                               *)
(***************************************************************************)
EXTENDS PredicateEngine, TLC

EmptyName == <<"">>
CurrentVersion == <<1, 0>>

ContractDefaults ==
    [schema_version |-> CurrentVersion, id |-> "a random id",
     preconditions |-> <<>>, postconditions |-> <<>>, recovery |-> {}]

MandatoryDefault == [mandatory |-> TRUE]
BackoffDefault == [multiplier |-> 2]
RecoveryDefault == [max_attempts |-> 3, backoff |-> {}]

\* serde's derived Deserialize: action_name has no default, nor has a recovery its strategy.
Decodes(document) ==
    /\ "action_name" \in DOMAIN document
    /\ \A r \in (document @@ ContractDefaults).recovery : "strategy" \in DOMAIN r

Decode(document) ==
    LET whole == document @@ ContractDefaults
    IN  [whole EXCEPT
            !.postconditions = [i \in DOMAIN @ |-> @[i] @@ MandatoryDefault],
            !.recovery = {[(r @@ RecoveryDefault) EXCEPT !.backoff = {b @@ BackoffDefault : b \in @}]
                             : r \in @}]

-----------------------------------------------------------------------------
Error(kind) == [kind |-> kind, location |-> {}, context |-> {}]
InvalidPredicate(path, context) ==
    [kind |-> "InvalidPredicate", path |-> path, context |-> {context}]

IsErr(result) == "error" \in DOMAIN result

\* Only a missing location is filled in; a predicate error has a path instead.
with_location(error, file) ==
    IF "location" \in DOMAIN error /\ error.location = {}
    THEN [error EXCEPT !.location = {file}] ELSE error

MapErr(result, file) ==
    IF IsErr(result) THEN [error |-> with_location(result.error, file)] ELSE result

First(options) == FoldLeft(LAMBDA a, b : IF a = {} THEN b ELSE a, {}, options)

\* The first group without members, in the order of the document, with its
\* place in the contract.
RECURSIVE validate_predicate(_, _, _)
validate_predicate(p, path, context) ==
    IF p.type \in Leaves THEN {}
    ELSE IF p.type \in {"All", "Any"} /\ p.predicates = <<>>
         THEN {InvalidPredicate(path, context)}
         ELSE First([i \in DOMAIN p.predicates |->
                        validate_predicate(p.predicates[i], Append(path, i), context)])

\* Mutant: the consequent of an implication is not looked at.
RECURSIVE validate_antecedent_only(_, _, _)
validate_antecedent_only(p, path, context) ==
    IF p.type = "Implies"
    THEN validate_antecedent_only(p.predicates[1], Append(path, 1), context)
    ELSE validate_predicate(p, path, context)

ValidateAntecedents(conditions, which, context) ==
    First([i \in DOMAIN conditions |->
              validate_antecedent_only(conditions[i].predicate, <<which, i>>, context)])

ValidateAll(conditions, which, context) ==
    First([i \in DOMAIN conditions |->
              validate_predicate(conditions[i].predicate, <<which, i>>, context)])

\* Postconditions are group 1 of the path of an error, preconditions group 2.
validate_contract(contract) ==
    LET name == contract.action_name
        Invalid == {[Error("InvalidContract") EXCEPT !.context = {name}]}
    IN  IF name = EmptyName \/ contract.postconditions = <<>> THEN Invalid
        ELSE First(<<ValidateAll(contract.postconditions, 1, name),
                     ValidateAll(contract.preconditions, 2, name)>>)

Parse(text, formats, kind) ==
    IF text.format \notin formats \/ ~Decodes(text.document) THEN [error |-> Error(kind)]
    ELSE LET contract == Decode(text.document)
             errors == validate_contract(contract)
         IN  IF errors = {} THEN [contract |-> contract]
             ELSE [error |-> CHOOSE e \in errors : TRUE]

parse_json(text) == Parse(text, {"json"}, "JsonError")
\* Every JSON text is a YAML text.
parse_yaml(text) == Parse(text, {"json", "yaml"}, "YamlError")

load_file(file) ==
    LET ext == file.extension
        json == parse_json(file.text)
        yaml == parse_yaml(file.text)
    IN  CASE ~file.readable -> [error |-> [Error("IoError") EXCEPT !.location = {file.path}]]
          [] file.readable /\ ext = "json" -> MapErr(json, file.path)
          [] file.readable /\ ext \in {"yaml", "yml"} -> MapErr(yaml, file.path)
          [] file.readable /\ ext = "" -> MapErr(IF IsErr(json) THEN yaml ELSE json, file.path)
          [] OTHER -> [error |-> [Error("UnknownFileExtension") EXCEPT !.location = {file.path}]]

-----------------------------------------------------------------------------
ParsedVersion(version) == Len(version) = 2 /\ \A i \in 1 .. 2 : version[i] >= 0
is_compatible_with(version, other) == version[1] = other[1]

\* The path of a leaf, or of the first leaf of the first member.
RECURSIVE extract_predicate_path(_)
extract_predicate_path(p) ==
    IF p.type \in Leaves THEN p.path
    ELSE IF p.predicates = <<>> THEN EmptyPath
    ELSE extract_predicate_path(p.predicates[1])

DuplicatePath(conditions) ==
    \E i, j \in DOMAIN conditions :
        /\ i < j
        /\ extract_predicate_path(conditions[i].predicate) # EmptyPath
        /\ extract_predicate_path(conditions[i].predicate)
               = extract_predicate_path(conditions[j].predicate)

\* The errors of Contract::validate, each with whether the contract has it.
ContractValidationError(contract) ==
    LET version == contract.schema_version
        Backoffs == UNION {r.backoff : r \in contract.recovery}
    IN  <<<<"InvalidSchemaVersion", ~ParsedVersion(version)>>,
          <<"IncompatibleSchemaVersion",
            ParsedVersion(version) /\ ~is_compatible_with(version, CurrentVersion)>>,
          <<"EmptyActionName", contract.action_name = EmptyName>>,
          <<"NoPostconditions", contract.postconditions = <<>>>>,
          <<"DuplicatePostconditionPath", DuplicatePath(contract.postconditions)>>,
          <<"InvalidMaxAttempts", \E r \in contract.recovery : r.max_attempts = 0>>,
          <<"InvalidBackoff", \E b \in Backoffs : b.max < b.initial>>,
          <<"InvalidBackoffMultiplier", \E b \in Backoffs : b.multiplier <= 0>>>>

\* Contract::validate: the first rule that is broken, in the order of the code.
validate(contract) ==
    LET rules == ContractValidationError(contract)
    IN  First([i \in DOMAIN rules |-> IF rules[i][2] THEN {rules[i][1]} ELSE {}])

-----------------------------------------------------------------------------
\* Reference: a predicate and everything below it.
RECURSIVE Subpredicates(_)
Subpredicates(p) ==
    {p} \cup IF p.type \in Leaves THEN {}
             ELSE UNION {Subpredicates(p.predicates[i]) : i \in DOMAIN p.predicates}

IsEmptyGroup(p) == p.type \in {"All", "Any"} /\ p.predicates = <<>>

Conditions(contract) == <<contract.postconditions, contract.preconditions>>

\* Reference: the predicate that the path of an error leads to.
PredicateAt(contract, path) ==
    FoldLeft(LAMBDA p, i : p.predicates[i],
             Conditions(contract)[path[1]][path[2]].predicate, SubSeq(path, 3, Len(path)))
=============================================================================
