--------------------------- MODULE MCVerification ---------------------------
(***************************************************************************)
(* A user record in a few states, contracts that use every predicate and   *)
(* break every rule of the loader, and every observer.                     *)
(***************************************************************************)
EXTENDS Verification

MCIndex == [s \in {"0", "1"} |-> IF s = "0" THEN 0 ELSE 1]
MCArgsPath == [s \in {"$args.status", "$args.missing"} |->
                  IF s = "$args.status" THEN <<"status">> ELSE <<"missing">>]
MCStrings == {"", "active", "act", "pending", "alice", "tok", "42", "a", "b", "users",
              "[TRUNCATED]", "[REDACTED]", "$args.status", "$args.missing"}
MCWithin == {<<s, s>> : s \in MCStrings} \cup {<<"", s>> : s \in MCStrings}
                \cup {<<"act", "active">>, <<"a", "active">>, <<"a", "act">>, <<"a", "alice">>,
                      <<"a", "status">>, <<"a", "name">>, <<"a", "age">>, <<"a", "tags">>}
MCOrder == <<"", "$args.missing", "$args.status", "42", "[REDACTED]", "[TRUNCATED]", "a", "act",
             "active", "alice", "b", "pending", "tok", "users">>
MCRank == [s \in MCStrings |-> CHOOSE i \in DOMAIN MCOrder : MCOrder[i] = s]
MCLength == [s \in MCStrings \cup {"status", "name", "token", "age", "tags"} |-> Len(s)]
MCRegexes == [r \in {"^a"} |-> {"active", "act", "alice", "a"}]
MCJsonText == [s \in {"42"} |-> Number(42)]
MCStatements == {"create_user"}

User(status, age) ==
    Object([status |-> String(status), name |-> String("alice"), token |-> String("tok"),
            age |-> age, tags |-> Array(<<String("a"), String("b")>>)])
MCResources == {{}, {User("active", Number(42))}, {User("pending", String("42"))},
                {Array(<<String("a")>>)}}

Status == <<"status">>
Name == <<"name">>
Must(p) == [predicate |-> p]
May(p) == [predicate |-> p, mandatory |-> FALSE]
Doc(name, conditions) == [action_name |-> name, postconditions |-> conditions]
Users == <<"users">>
Active == equals(Status, String("$args.status"))

\* Contracts that are evaluated.
Good ==
    {Doc(Users, <<Must(Active), May(contains(<<"tags">>, String("b")))>>),
     Doc(Users, <<May(not_equals(Status, String("pending"))), Must(greater_than(Name, String("act")))>>),
     Doc(Users, <<Must(implies(Active, matches(Name, "^a"))), Must(negate(is_empty(<<"tags">>)))>>),
     Doc(Users, <<Must(all(<<Active, matches(Name, "[")>>))>>),
     Doc(Users, <<Must(any(<<contains(Status, String("act")), negate(matches(Name, "["))>>))>>),
     Doc(Users, <<Must(count(<<"tags">>, "Ge", 2)), Must(less_than(<<"age">>, Number(50))),
                  Must(any(<<contains(Name, Number(1)), is_not_empty(Status)>>))>>),
     Doc(Users, <<Must(exists(<<"tags", "1">>)), Must(not_exists(<<"tags", "2">>)),
                  May(equals(<<"token">>, String("tok")))>>),
     Doc(Users, <<Must(equals(<<"token">>, String("$args.missing")))>>)}

Guarded ==
    [action_name |-> Users, postconditions |-> <<Must(Active)>>,
     preconditions |-> <<Must(not_equals(Status, String("active")))>>]

\* Contracts for the observers that read the name in their own way.
Named ==
    {Doc(n, <<Must(Active)>>) :
        n \in {<<"..", "users">>, <<"token", "users">>, <<"a", "", "b">>, <<"create_user">>,
               <<"get", "u1">>, <<"hgetall", "u1">>, <<"hget", "u1">>, <<"del", "u1">>}}
    \cup {Doc(n, <<Must(is_empty(<<"status">>))>>) :
        n \in {<<"hget", "u1", "status">>, <<"exists", "u1">>, <<"scard", "u1">>, <<"hgetall", "u1">>}}

\* Documents that the loader, or `contract validate`, refuses.
Refused ==
    {Doc(Users, <<Must(Active), Must(implies(Active, any(<<>>)))>>),
     Doc(Users, <<Must(any(<<Active, negate(all(<<>>))>>))>>),
     [Guarded EXCEPT !.preconditions = <<Must(all(<<any(<<>>)>>))>>],
     Doc(Users, <<>>), Doc(EmptyName, <<Must(Active)>>),
     [postconditions |-> <<Must(Active)>>],
     [schema_version |-> <<2, 0>>] @@ Doc(Users, <<Must(Active)>>),
     [schema_version |-> <<1>>] @@ Doc(Users, <<Must(Active)>>),
     Doc(Users, <<Must(Active), Must(negate(exists(Status)))>>),
     [recovery |-> {[max_attempts |-> 2]}] @@ Doc(Users, <<Must(Active)>>)}
    \cup {[recovery |-> {[strategy |-> "Retry"] @@ r}] @@ Doc(Users, <<Must(Active)>>) :
            r \in {[max_attempts |-> 0], [backoff |-> {[initial |-> 2, max |-> 1]}],
                   [backoff |-> {[initial |-> 1, max |-> 1, multiplier |-> 0]}]}}

File(extension, format, document) ==
    [path |-> "contract", readable |-> TRUE, extension |-> extension,
     text |-> [format |-> format, document |-> document]]
JsonFile(document) == File("json", "json", document)
Sample == Doc(Users, <<Must(Active)>>)
OddFiles ==
    {File(e, f, Sample) : e \in {"json", "yaml", "yml", "", "txt"}, f \in {"json", "yaml", "neither"}}
        \cup {File("", "yaml", d) : d \in Refused}
        \cup {[JsonFile(Sample) EXCEPT !.readable = FALSE]}

Pointer(p) == [pointer |-> TRUE, path |-> p]
Configured(config, paths, max) ==
    with_max_evidence_size(FoldLeft(with_redact_path, config, paths), max)
Rest(paths, max) == Configured(RestObserverConfig(<<"api">>), paths, max)
Redactions == <<Pointer(<<"token">>), Pointer(<<"tags", "0">>), [pointer |-> FALSE, path |-> Name]>>
Plain == Rest(<<>>, 200)
Wasm(base) == Configured(WasmRestObserverConfig(base), Redactions, 200)
Redis == with_key_prefix(RedisObserverConfig, "app:")

\* Texts with every delimiter of a URI, as they are and escaped.
MCEscape == (":" :> "%3A") @@ ("@" :> "%40") @@ ("/" :> "%2F") @@ ("?" :> "%3F") @@ ("%" :> "%25")
Texts == {<<"p">>, <<>>, <<"p", "@", "q">>, <<":">>, <<"/", "?">>, <<"%">>}
MCServer == [host |-> <<"db">>, port |-> 6543, user |-> <<"u">>, password |-> {<<":">>}, dbname |-> <<"d">>]

MadeOf(column) == [kind |-> "postgres", redact_paths |-> <<>>, id_column |-> column]
FromConfig(settings, column) == [made |-> "config", settings |-> settings] @@ MadeOf(column)
FromUri(parts, column) == [made |-> "uri", parts |-> parts, uri |-> Written(parts)] @@ MadeOf(column)

Settings(user, password, database) ==
    with(with(with(with(with(PostgresObserverConfig, "host", <<"db">>), "port", 6543),
                   "user", user), "password", password), "database", database)
UriParts == [scheme |-> "postgres", user |-> <<"u">>, password |-> {<<"%3A">>}, host |-> <<"db">>,
          port |-> {<<"6543">>}, database |-> <<"d">>, params |-> {}]
Postgres(column) == FromConfig(Settings(<<"u">>, <<":">>, <<"d">>), column)

Connections ==
    {FromConfig(Settings(u, w, d), "plain") : u, w, d \in Texts}
    \cup {FromConfig(with(PostgresObserverConfig, "host", <<":", ":", "x">>), "plain")}
    \cup {FromUri([UriParts EXCEPT !.password = w, !.port = p, !.params = q], "plain") :
             w \in {{}, {<<>>}, {<<"%3A">>}, {<<"p", "@", "q">>}, {<<":", "p">>}, {<<"%FF">>}},
             p \in {{}, {<<"6543">>}, {<<"x">>}, {<<>>}}, q \in {{}, {<<"a", "?", "/">>}, {<<"a", "@", "/", "b">>}}}
    \cup {FromUri([UriParts EXCEPT !.scheme = s, !.database = d, !.user = u], "quoted") :
             s \in {"postgres", "postgresql", "mysql"}, d \in {<<"d">>, <<>>, <<"d", "%3F">>, <<"d", "/", "e">>},
             u \in {<<"u">>, <<"u", "@">>, <<"u", ":">>}}
NoObserver == [kind |-> "none", redact_paths |-> <<>>]

MCArgs == {Object([status |-> String("active")])}
Control(fields, token) ==
    with_bearer_token(FoldLeft(with_redact_field, max_receipt_size(ControlCenterClientConfig, 1), fields), token)
MCConfigs == {Control(<<>>, "t"), Control(<<"result">>, "t"), Control(<<"*", "id">>, "t"),
              Control(<<>>, "other")}
MCSigningKey == [base64 |-> TRUE, bytes |-> 32, seed |-> "k"]
Call(front, source, file, observer) ==
    [front |-> front, source |-> source, file |-> file, url_ok |-> TRUE, args |-> MCArgs,
     observer |-> observer, submits |-> FALSE, config |-> ControlCenterClientConfig]

MCInputs ==
    {Call("validate", "file", f, Plain) : f \in OddFiles \cup {JsonFile(d) : d \in Good \cup Refused}}
    \cup {Call("verify", "file", f, Plain) :
             f \in OddFiles \cup {JsonFile(d) : d \in Good \cup Refused \cup {Guarded}}}
    \cup {[Call("verify", "file", JsonFile(Sample), Plain) EXCEPT !.url_ok = u, !.args = a] :
             u \in BOOLEAN, a \in {{}, MCArgs}}
    \cup {Call("library", "code", JsonFile(d), o) :
             d \in {x \in Good \cup Refused \cup {Guarded} : Decodes(x)},
             o \in {Rest(Redactions, 200), Rest(Redactions, 80), Rest(Redactions, 5), Redis, NoObserver}}
    \cup {Call("library", "file", JsonFile(d), o) :
             d \in Named \cup {Guarded},
             o \in {Rest(Redactions, 200), Redis, Postgres("plain"), Postgres("quoted"), Postgres("uuid")}}
    \cup {[Call("library", "file", JsonFile(Sample), Rest(Redactions, 200)) EXCEPT !.submits = TRUE, !.config = c] :
             c \in MCConfigs}
    \cup {Call("browser", "code", JsonFile(d), o) : d \in Named \cup {Sample}, o \in {Wasm(<<>>), Wasm(<<"api">>)}}
    \cup {Call("library", "code", JsonFile(Sample), o) :
             o \in Connections \cup {RedisObserverConfig, with_timeout(Redis, 0)}}
    \cup {Call("browser", "code", JsonFile(Sample), [Wasm(<<>>) EXCEPT !.max_evidence_size = 5])}
=============================================================================
