---------------------------- MODULE ReceiptTasks ----------------------------
(***************************************************************************)
(* What the receipt stores have in common: tasks that call them.  The      *)
(* implementations are in MemoryReceiptStore, FileReceiptStore,            *)
(* BrowserReceiptStore and FileStorage; ReceiptStores puts them together.  *)
(*                                                                         *)
(* A receipt stands for its id.  A step ends where another task, tab or    *)
(* process can change what the store reads next.                           *)
(***************************************************************************)
EXTENDS Naturals, Sequences

CONSTANTS Tasks,
          Receipts,
          Actions,
          ActionOf,    \* receipt.action_id
          Backends,    \* the implementations to run
          MaxCalls,    \* bound on the calls made
          MaxFaults,   \* bound on the file and storage operations that fail
          MaxCrashes   \* bound on the restarts of the process

ASSUME ActionAssumption == ActionOf \in [Receipts -> Actions]

VARIABLES
    backend,  \* the implementation the tasks call
    pc,       \* where each task is: "idle", the call it has begun, or a step of it
    receipt,  \* the receipt, or for a list the action of it, that its call is about
    answer,   \* what its last call returned, "Pending" until it does
    held,     \* the receipts that are found by id
    seen,     \* the index, or the ids, that each task read last
    calls, faults, crashes,
    acked     \* history: the receipts whose store was acknowledged, and not deleted since

tasks == <<backend, pc, receipt, answer, seen, calls, crashes, acked>>

Empty == [a \in Actions |-> <<>>]
Ids(ids) == {ids[i] : i \in DOMAIN ids}
Idle(t) == pc[t] = "idle"
Using(b) == backend = b

TasksInit ==
    /\ backend \in Backends
    /\ pc = [t \in Tasks |-> "idle"]
    /\ receipt \in [Tasks -> Receipts] /\ \A t, u \in Tasks : receipt[t] = receipt[u]
    /\ answer = [t \in Tasks |-> "Pending"]
    /\ held = {}
    /\ seen = [t \in Tasks |-> Empty]
    /\ calls = 0 /\ faults = 0 /\ crashes = 0
    /\ acked = {}

\* A task makes a call.
Begin(t, kind, r) ==
    /\ Idle(t) /\ calls < MaxCalls
    /\ calls' = calls + 1
    /\ pc' = [pc EXCEPT ![t] = kind]
    /\ receipt' = [receipt EXCEPT ![t] = r]
    /\ answer' = [answer EXCEPT ![t] = "Pending"]
    /\ acked' = IF kind = "delete" THEN acked \ {r} ELSE acked
    /\ UNCHANGED <<backend, seen, crashes>>

\* It goes on to the next step of its call.
Step(t, from, to) ==
    /\ pc[t] = from /\ pc' = [pc EXCEPT ![t] = to]
    /\ UNCHANGED <<backend, receipt, answer, seen, calls, crashes, acked>>

StepReading(t, from, to, index) ==
    /\ pc[t] = from /\ pc' = [pc EXCEPT ![t] = to]
    /\ seen' = [seen EXCEPT ![t] = index]
    /\ UNCHANGED <<backend, receipt, answer, calls, crashes, acked>>

\* The call returns.
Answer(t, from, what) ==
    /\ pc[t] = from /\ pc' = [pc EXCEPT ![t] = "idle"]
    /\ answer' = [answer EXCEPT ![t] = what]
    /\ seen' = [seen EXCEPT ![t] = Empty]
    /\ UNCHANGED <<backend, receipt, calls, crashes, acked>>

AnswerStored(t, from) ==
    /\ pc[t] = from /\ pc' = [pc EXCEPT ![t] = "idle"]
    /\ answer' = [answer EXCEPT ![t] = "Ok"]
    /\ seen' = [seen EXCEPT ![t] = Empty]
    /\ acked' = acked \cup {receipt[t]}
    /\ UNCHANGED <<backend, receipt, calls, crashes>>

Found(t) == IF receipt[t] \in held THEN "Ok" ELSE "Absent"

\* An operation of the file system or of the browser's storage fails.
Fault == faults < MaxFaults /\ faults' = faults + 1

=============================================================================
