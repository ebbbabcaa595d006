-------------------------------- MODULE Json --------------------------------
(***************************************************************************)
(* JSON documents and dot-separated paths, as the predicate engine and     *)
(* Observation::get read them.  A value is a record with one field named   *)
(* after its kind; an Option is the empty set or a singleton; a path is    *)
(* the sequence of its segments (the empty string has one segment, "").    *)
(***************************************************************************)
EXTENDS Integers, Sequences, FiniteSets, SequencesExt

CONSTANTS
    Index,    \* the segments that parse as usize, with their number
    ArgsPath, \* the strings "$args.<path>", with the segments of the path
    Length    \* the length of every string, the keys of objects among them

String(s) == [str |-> s]
Number(n) == [num |-> n]
Bool(b)   == [bool |-> b]
Array(s)  == [arr |-> s]
Object(f) == [obj |-> f]
Null      == [null |-> TRUE]

IsString(v) == "str" \in DOMAIN v
IsNumber(v) == "num" \in DOMAIN v
IsArray(v)  == "arr" \in DOMAIN v
IsObject(v) == "obj" \in DOMAIN v

EmptyPath == <<"">>

\* The members of v that a segment selects: an object by key, an array by index.
Member(v, segment) ==
    CASE IsObject(v) -> {v.obj[k] : k \in {segment} \cap DOMAIN v.obj}
      [] IsArray(v) -> {v.arr[i] : i \in {j \in DOMAIN v.arr :
                            segment \in DOMAIN Index /\ j = Index[segment] + 1}}
      [] OTHER -> {}

get_path(value, path) ==
    FoldLeft(LAMBDA at, segment : UNION {Member(v, segment) : v \in at}, {value}, path)

\* An argument reference that does not resolve stays the literal string.
resolve_value(value, args) ==
    LET found == IF IsString(value) /\ value.str \in DOMAIN ArgsPath
                 THEN get_path(args, ArgsPath[value.str]) ELSE {}
    IN  IF found = {} THEN value ELSE CHOOSE v \in found : TRUE

\* serde_json: the value at a path replaced, when the path leads somewhere.
RECURSIVE Put(_, _, _)
Put(value, path, new) ==
    IF path = <<>> THEN new
    ELSE IF Member(value, Head(path)) = {} THEN value
    ELSE IF IsObject(value)
         THEN Object([value.obj EXCEPT ![Head(path)] = Put(@, Tail(path), new)])
         ELSE Array([value.arr EXCEPT ![Index[Head(path)] + 1] = Put(@, Tail(path), new)])

\* Every value that occurs in a document, at any depth.
RECURSIVE Parts(_)
Parts(value) ==
    {value} \cup UNION
        (CASE IsObject(value) -> {Parts(value.obj[k]) : k \in DOMAIN value.obj}
           [] IsArray(value) -> {Parts(value.arr[i]) : i \in DOMAIN value.arr}
           [] OTHER -> {})

Digits(n) == (IF n < 0 THEN 2 ELSE 1) + Cardinality({i \in 1..9 : 10^i <= n \/ 10^i <= -n})

\* serde_json::to_string(v).len(), for strings that need no escapes: what the size
\* limits compare.  A string has its quotes, a member its colon, and every element
\* the comma or the bracket after it.
RECURSIVE Size(_)
Size(value) ==
    CASE value \in {Object(<<>>), Array(<<>>)} -> 2
      [] IsObject(value) ->
            FoldLeft(LAMBDA n, k : n + Length[k] + 4 + Size(value.obj[k]), 1, SetToSeq(DOMAIN value.obj))
      [] IsArray(value) -> FoldLeft(LAMBDA n, v : n + Size(v) + 1, 1, value.arr)
      [] IsString(value) -> Length[value.str] + 2
      [] IsNumber(value) -> Digits(value.num)
      [] value = Bool(FALSE) -> 5
      [] OTHER -> 4
=============================================================================
