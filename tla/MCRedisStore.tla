---------------------------- MODULE MCRedisStore ----------------------------
(***************************************************************************)
(* A small instance of RedisStore and BrowserStore for TLC: three calls    *)
(* about one key, in the browser in one tab or two.                        *)
(***************************************************************************)
EXTENDS BrowserStore

CONSTANTS c1, c2, c3, k1, t1, t2

KeyOfCall == [c \in {c1, c2, c3} |-> k1]

=============================================================================
