----------------------------- MODULE MCExecutor -----------------------------
(***************************************************************************)
(* Small instances of Executor for TLC: the argument lists callers pass.   *)
(***************************************************************************)
EXTENDS Executor

CONSTANTS k1

Must(p) == [pred |-> p, mandatory |-> TRUE]
May(p) == [pred |-> p, mandatory |-> FALSE]

Recovery(s, n) == [strategy |-> s, max_attempts |-> n]

\* A dispatching call of key k1 with an observer and one mandatory postcondition.
Plain ==
    [key |-> k1, simulated |-> FALSE, observer |-> TRUE, pre |-> {},
     post |-> <<Must("exists")>>, recovery |-> Recovery("Absent", 0)]

Simulated == [Plain EXCEPT !.simulated = TRUE]
Guarded == [Plain EXCEPT !.pre = {"not_exists"}, !.recovery = Recovery("Retry", 2)]
Blind == [Plain EXCEPT !.observer = FALSE, !.recovery = Recovery("Retry", 1)]
Optional == [Plain EXCEPT !.post = <<Must("exists"), May("not_exists")>>,
                          !.recovery = Recovery("NoAction", 2)]
Unreadable == [Optional EXCEPT !.post = <<May("exists"), Must("bad_pattern")>>]
Unkeyed == [Blind EXCEPT !.key = NoKey, !.simulated = TRUE]

\* One dispatching call per key and attempt limit, for the runs about the docs.
DispatchCalls == {Optional}
RetryCalls == {Guarded}

AllCalls == {Plain, Simulated, Guarded, Blind, Optional, Unreadable, Unkeyed}

=============================================================================
