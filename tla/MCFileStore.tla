----------------------------- MODULE MCFileStore -----------------------------
(***************************************************************************)
(* A small instance of FileStore for TLC: three calls about one key, made  *)
(* by one process.                                                         *)
(***************************************************************************)
EXTENDS FileStore

CONSTANTS p1, c1, c2, c3, k1

OneProcess == [c \in {c1, c2, c3} |-> p1]
OneKey == [c \in {c1, c2, c3} |-> k1]

=============================================================================
