------------------------------ MODULE Observers ------------------------------
(***************************************************************************)
(* The four observers: what each of them makes of the resource it is asked *)
(* about.  The resource is an Option (empty: there is none), and answer    *)
(* says what the server did with the request: "ok", an error "status", a   *)
(* body that is no JSON ("garbage"), or no answer at all ("transport").    *)
(* An observation is the set of its state, empty for an error: every one   *)
(* of them is mapped to ExecutorError::Unknown.                            *)
(***************************************************************************)
EXTENDS Contracts, PostgresConnection

CONSTANTS
    JsonText,   \* the strings that are the JSON text of a scalar, with that scalar
    Statements, \* the table names that begin with the name of a statement
    RedisPrefix,    \* the namespace of the keys of the system of record
    MaxEvidenceSize \* the default size limit of evidence

Answers == {"ok", "status", "garbage", "transport"}

Redacted == String("[REDACTED]")

\* A value that was kept as text: parsed as JSON when it can be, a string otherwise.
FromText(v) == IF IsString(v) /\ v.str \in DOMAIN JsonText THEN JsonText[v.str] ELSE v

\* A URL is the sequence of its path segments after the host.
build_url(base, name, id) == base \o name \o <<id>>

Traversal(url) == ".." \in Range(url)
EmptySegment(url) == "" \in Range(url)

\* A redaction path in the URL: the code looks for its text, here its segments.
InUrl(path, url) == path \in SubSeqs(url)

-----------------------------------------------------------------------------
(***************************************************************************)
(* The configurations, as far as they decide what is observed.  Headers    *)
(* and timeouts are the server's business: whether it answers.             *)
(***************************************************************************)
RestObserverConfig(base_url) ==
    [kind |-> "rest", base |-> base_url, max_evidence_size |-> MaxEvidenceSize, redact_paths |-> <<>>]

with_redact_path(config, path) == [config EXCEPT !.redact_paths = Append(@, path)]

with_max_evidence_size(config, size) == [config EXCEPT !.max_evidence_size = size]

WasmRestObserverConfig(base_url) ==
    [kind |-> "wasm", base |-> base_url, max_evidence_size |-> MaxEvidenceSize, redact_paths |-> <<>>]

RedisObserverConfig ==
    [kind |-> "redis", timeout_ms |-> 5000, key_prefix |-> "", redact_paths |-> <<>>]

with_timeout(config, timeout_ms) == [config EXCEPT !.timeout_ms = timeout_ms]

with_key_prefix(config, prefix) == [config EXCEPT !.key_prefix = prefix]

\* RedisObserver::new: the timeout becomes the size of the pool.
MaxSize(config) == config.timeout_ms

\* A pool without room for a connection is waited on for ever.
Hangs(observer) == observer.kind = "redis" /\ MaxSize(observer) = 0

-----------------------------------------------------------------------------
(***************************************************************************)
(* RestObserver.  A redaction path is a JSON pointer when it begins with a *)
(* slash; any other leads nowhere.                                         *)
(***************************************************************************)
\* Mutant: the first path of the list is left out.
redact_rest(value, paths) ==
    FoldLeft(LAMBDA v, p : IF p.pointer /\ p # paths[1] THEN Put(v, p.path, Redacted) ELSE v,
             value, paths)

redact(value, paths) ==
    FoldLeft(LAMBDA v, p : IF p.pointer THEN Put(v, p.path, Redacted) ELSE v, value, paths)

truncate(value, max) == IF Size(value) > max THEN String("[TRUNCATED]") ELSE value

fetch_json(resource, answer) == IF answer = "ok" THEN resource ELSE {}

RestObserve(config, action_id, name, resource, answer) ==
    LET url == build_url(config.base, name, action_id)
    IN  IF \/ Traversal(url) \/ EmptySegment(url)
           \/ \E i \in DOMAIN config.redact_paths : InUrl(config.redact_paths[i].path, url)
        THEN {}
        ELSE {truncate(redact(v, config.redact_paths), config.max_evidence_size)
                  : v \in fetch_json(resource, answer)}

-----------------------------------------------------------------------------
(***************************************************************************)
(* WasmRestObserver.  get_json puts the base URL in front of the URL that  *)
(* already begins with it, so the resource is met only when the base is    *)
(* empty; redact_recursive walks down a path and replaces nothing.         *)
(***************************************************************************)
WasmUrl(base, url) == base \o url

\* fetch_text: a body was read and the status is a success; the configured timeout
\* and headers are not used.
fetch_text(answer) == answer \in {"ok", "garbage"}

get_json(base, url, resource, answer) ==
    IF fetch_text(answer) /\ answer # "garbage" /\ WasmUrl(base, url) = url THEN resource ELSE {}

wasm_redact(value, paths) == value

wasm_truncate(value, max) ==
    IF Size(value) > max
    THEN Object([error |-> String("evidence_truncated"), size |-> Number(Size(value)),
                 max |-> Number(max)])
    ELSE value

WasmObserve(config, action_id, name, resource, answer) ==
    LET url == build_url(config.base, name, action_id)
    IN  IF \/ Traversal(url)
           \/ \E i \in DOMAIN config.redact_paths : InUrl(config.redact_paths[i].path, url)
        THEN {}
        ELSE {wasm_truncate(wasm_redact(v, config.redact_paths), config.max_evidence_size)
                  : v \in get_json(config.base, url, resource, answer)}

-----------------------------------------------------------------------------
(***************************************************************************)
(* RedisObserver.  The action name is the command: <<op, key, field>>.     *)
(* The resource is what the key holds: an object for a hash, an array for  *)
(* a set, any value for a string; a command on the wrong kind fails.       *)
(***************************************************************************)
build_spec(name) == IF Len(name) > 1 THEN name ELSE <<"get">> \o name

Hash(resource) == \A v \in resource : IsObject(v)
Fields(resource) == UNION {{v.obj} : v \in resource}

execute_spec(spec, resource) ==
    LET op == spec[1]
    IN  CASE op = "get" -> {FromText(v) : v \in resource}
          [] op = "exists" -> {Bool(resource # {})}
          [] op = "scard" /\ \A v \in resource : IsArray(v) ->
                {Number(IF resource = {} THEN 0
                        ELSE Cardinality(UNION {Range(v.arr) : v \in resource}))}
          [] op = "hget" /\ Len(spec) > 2 /\ Hash(resource) ->
                LET values == UNION {{FromText(f[k]) : k \in {spec[3]} \cap DOMAIN f} : f \in Fields(resource)}
                IN  IF values = {} THEN {Null} ELSE values
          [] op = "hgetall" /\ Hash(resource) ->
                IF resource = {} THEN {Object(<<>>)}
                ELSE {Object([k \in DOMAIN f |-> FromText(f[k])]) : f \in Fields(resource)}
          [] OTHER -> {}

\* What is found under the prefixed key.
Prefixed(config, resource) == IF config.key_prefix = RedisPrefix THEN resource ELSE {}

RedisObserve(config, name, resource, answer) ==
    IF answer = "ok" /\ ~Hangs(config)
    THEN execute_spec(build_spec(name), Prefixed(config, resource)) ELSE {}

-----------------------------------------------------------------------------
(***************************************************************************)
(* PostgresObserver.  The id is bound as its JSON text, quotes included:   *)
(* a row is found only where ids are kept that way, and a uuid column does *)
(* not take the parameter at all.                                          *)
(***************************************************************************)
build_observation_query(name) == name[1] \notin Statements

pg_value_to_json(v) ==
    CASE IsString(v) -> FromText(v)
      [] IsArray(v) \/ IsObject(v) -> Null
      [] OTHER -> v

NotFound(name, action_id) ==
    Object([found |-> Bool(FALSE), table |-> String(name[1]), action_id |-> String(action_id)])

\* from_uri and from_config, by how the observer was made.
Pool(config) == IF config.made = "uri" THEN from_uri(config.uri) ELSE from_config(config.settings)

execute_query(config, resource, answer) ==
    IF answer # "ok" \/ config.id_column = "uuid" \/ ~\E pool \in Pool(config) : Reaches(pool) THEN {}
    ELSE {IF config.id_column = "quoted" THEN {v \in resource : IsObject(v)} ELSE {}}

PostgresObserve(config, action_id, name, resource, answer) ==
    IF ~build_observation_query(name) THEN {}
    ELSE {IF rows = {} THEN NotFound(name, action_id)
          ELSE LET row == (CHOOSE v \in rows : TRUE).obj
               IN  Object([k \in DOMAIN row |-> pg_value_to_json(row[k])])
             : rows \in execute_query(config, resource, answer)}

-----------------------------------------------------------------------------
\* observe, by the kind of the observer; None is the executor without one,
\* which evaluates the empty object.
observe(observer, action_id, name, resource, answer) ==
    CASE observer.kind = "rest" -> RestObserve(observer, action_id, name, resource, answer)
      [] observer.kind = "wasm" -> WasmObserve(observer, action_id, name, resource, answer)
      [] observer.kind = "redis" -> RedisObserve(observer, name, resource, answer)
      [] observer.kind = "postgres" -> PostgresObserve(observer, action_id, name, resource, answer)
      [] observer.kind = "none" -> {Object(<<>>)}
=============================================================================
