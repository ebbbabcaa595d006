------------------------- MODULE PostgresConnection -------------------------
(***************************************************************************)
(* How PostgresObserver comes to its connection pool: from a configuration *)
(* or from a connection URI.  A text is a sequence of characters, of which *)
(* only the delimiters of a URI matter; an escape (%3A) is one character   *)
(* here, and so is a port number.  Options are sets.                       *)
(***************************************************************************)
EXTENDS Integers, SequencesExt, TLC

CONSTANTS
    Escape, \* the characters that are percent-encoded, with their escapes
    Ports,  \* the numbers that are written as ports, u16
    Server  \* the database server: [host, port, user, password, dbname], password an Option

NotUtf8 == "%FF"

\* urlencoding::encode
encode(text) == [i \in DOMAIN text |-> IF text[i] \in DOMAIN Escape THEN Escape[text[i]] ELSE text[i]]

Unescape(c) ==
    IF \E d \in DOMAIN Escape : Escape[d] = c THEN CHOOSE d \in DOMAIN Escape : Escape[d] = c ELSE c

decode_component(raw) ==
    IF NotUtf8 \in Range(raw) THEN {} ELSE {[i \in DOMAIN raw |-> Unescape(raw[i])]}

\* str::split_once and str::rsplit_once: the parts around the first and the last c.
SplitAt(text, i) == <<SubSeq(text, 1, i - 1), SubSeq(text, i + 1, Len(text))>>
Positions(text, c) == {i \in DOMAIN text : text[i] = c}
split_once(text, c) == {SplitAt(text, i) : i \in {Min(s) : s \in {Positions(text, c)} \ {{}}}}
rsplit_once(text, c) == {SplitAt(text, i) : i \in {Max(s) : s \in {Positions(text, c)} \ {{}}}}

ParsePort(text) == {p \in Ports : text = <<ToString(p)>>}

\* The user and the password; a second colon is ambiguous.
UserInfo(userinfo) ==
    LET parts == split_once(userinfo, ":")
    IN  IF parts = {} THEN {<<u, {}>> : u \in decode_component(userinfo)}
        ELSE {<<u, {p}>> : u \in UNION {decode_component(s[1]) : s \in parts},
                           p \in UNION {decode_component(s[2]) : s \in {x \in parts : ":" \notin Range(x[2])}}}

HostPort(text) ==
    LET parts == rsplit_once(text, ":")
    IN  IF parts = {} THEN {<<text, 5432>>}
        ELSE UNION {{<<s[1], p>> : p \in ParsePort(s[2])} : s \in parts}

\* Query parameters are cut off before the name is decoded.
DatabaseName(text) ==
    LET parts == split_once(text, "?")
    IN  UNION {decode_component(t) : t \in IF parts = {} THEN {text} ELSE {s[1] : s \in parts}}

Parsed(userinfo, host_port, database_raw) ==
    {[user |-> u[1], password |-> u[2], host |-> h[1], port |-> h[2], database |-> d]
       : u \in UserInfo(userinfo), h \in HostPort(host_port), d \in DatabaseName(database_raw)}

\* Mutant: the userinfo ends at the first at sign.
parse_uri_first_at(uri) ==
    UNION {UNION {Parsed(at[1], slash[1], slash[2]) : slash \in split_once(at[2], "/")}
           : at \in split_once(uri.rest, "@")}

parse_uri(uri) ==
    IF uri.scheme \notin {"postgres", "postgresql"} THEN {}
    ELSE UNION {UNION {Parsed(at[1], slash[1], slash[2]) : slash \in split_once(at[2], "/")}
                : at \in rsplit_once(uri.rest, "@")}

-----------------------------------------------------------------------------
PostgresObserverConfig ==
    [host |-> <<"localhost">>, port |-> 5432, user |-> <<"postgres">>, password |-> <<>>,
     database |-> <<"postgres">>, ssl_mode |-> <<"disable">>, application_name |-> <<"agentverify">>,
     connect_timeout_secs |-> 5, pool_max_size |-> 16, query_timeout_ms |-> 5000]

\* with_host, with_port and the other builder methods.
with(config, field, value) == [config EXCEPT ![field] = value]

build_uri(config) ==
    [scheme |-> "postgres",
     rest |-> encode(config.user) \o <<":">> \o encode(config.password) \o <<"@">>
                \o config.host \o <<":", ToString(config.port), "/">> \o encode(config.database)
                \o <<"?", "sslmode=">> \o config.ssl_mode
                \o <<"&application_name=">> \o encode(config.application_name)]

\* A pool is the deadpool configuration it was created from; neither the TLS mode
\* nor the pool size nor the query timeout of the configuration reaches it.
create_deadpool_config(config) ==
    [host |-> config.host, port |-> config.port, user |-> config.user,
     password |-> {config.password}, dbname |-> config.database,
     connect_timeout |-> {config.connect_timeout_secs}]

\* External: deadpool makes the pool at once and connects later; it refuses an empty
\* database name, which is the error PoolCreation.
create_pool(pool) == IF pool.dbname = <<>> THEN {} ELSE {pool}

from_config(config) == create_pool(create_deadpool_config(config))

from_uri(uri) ==
    UNION {create_pool([host |-> p.host, port |-> p.port, user |-> p.user, password |-> p.password,
                        dbname |-> p.database, connect_timeout |-> {}]) : p \in parse_uri(uri)}

\* The pool gives a connection to the server it names, when the credentials are good.
Reaches(pool) ==
    /\ pool.host = Server.host /\ pool.port = Server.port /\ pool.dbname = Server.dbname
    /\ pool.user = Server.user
    /\ Server.password \in {{}, pool.password}

-----------------------------------------------------------------------------
\* Reference: a URI written down by the grammar of from_uri, part by part.
Written(parts) ==
    LET Opt(mark, o) == IF o = {} THEN <<>> ELSE <<mark>> \o (CHOOSE t \in o : TRUE)
    IN  [scheme |-> parts.scheme,
         rest |-> parts.user \o Opt(":", parts.password) \o <<"@">>
                    \o parts.host \o Opt(":", parts.port) \o <<"/">>
                    \o parts.database \o Opt("?", parts.params)]

\* What such a URI means; a URI without a database name means nothing.
Meant(parts) ==
    {[host |-> parts.host, port |-> p, user |-> u, password |-> w, dbname |-> d, connect_timeout |-> {}]
       : p \in IF parts.port = {} THEN {5432} ELSE UNION {ParsePort(t) : t \in parts.port},
         u \in decode_component(parts.user), d \in decode_component(parts.database) \ {<<>>},
         w \in IF parts.password = {} THEN {{}}
               ELSE {{t} : t \in UNION {decode_component(r) : r \in parts.password}}}

\* A URI that keeps to the documented grammar and has the userinfo that parse_uri
\* insists on, which the grammar makes optional: the delimiters are escaped where they
\* would end a part, and there is no at sign among the parameters.  A slash in the
\* database name is left out: the document takes the name after the last one, and
\* parse_uri what follows the first.
Grammatical(parts) ==
    /\ ":" \notin Range(parts.user)
    /\ \A p \in parts.password : ":" \notin Range(p)
    /\ \A t \in {parts.host} \cup parts.port : Range(t) \cap {"/", "@", ":"} = {}
    /\ Range(parts.database) \cap {"?", "@", "/"} = {}
    /\ \A p \in parts.params : "@" \notin Range(p)

\* from_uri makes of such a URI what it means.
ReadAsWritten(parts) ==
    parts.scheme \in {"postgres", "postgresql"} /\ Grammatical(parts)
        => from_uri(Written(parts)) = Meant(parts)

=============================================================================
