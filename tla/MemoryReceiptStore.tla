------------------------- MODULE MemoryReceiptStore -------------------------
(***************************************************************************)
(* InMemoryReceiptStore of crates/agentverify-core/src/receipt.rs and      *)
(* MemStorage of crates/agentverify-storage/src/lib.rs.                    *)
(*                                                                         *)
(* The first has two tokio RwLocks.  A lock that is taken and released in  *)
(* one step needs no variable: only the write lock of receipts, which      *)
(* store holds while it waits for by_action, and the read locks of         *)
(* by_action, which list_by_action holds while it waits for receipts, are  *)
(* kept over a step.                                                       *)
(***************************************************************************)
EXTENDS ReceiptTasks

VARIABLES
    by_action,         \* the ids of each action, also those of the browser's store
    receipts_writer,   \* the task with the write lock of receipts
    by_action_readers  \* the tasks with a read lock of by_action

memory == <<by_action, receipts_writer, by_action_readers>>

Nobody == "Nobody"
Memory == "memory"

MemoryInit == by_action = Empty /\ receipts_writer = Nobody /\ by_action_readers = {}

LockReceipts(t) ==
    /\ Using(Memory) /\ receipts_writer = Nobody
    /\ Step(t, "store", "lock_by_action")
    /\ receipts_writer' = t
    /\ UNCHANGED <<held, faults, by_action, by_action_readers>>

\* Mutant of InsertReceipt: the index is written, the map is not.
InsertIndexOnly(t) ==
    /\ Using(Memory) /\ by_action_readers = {}
    /\ AnswerStored(t, "lock_by_action")
    /\ by_action' = [by_action EXCEPT ![ActionOf[receipt[t]]] = Append(@, receipt[t])]
    /\ receipts_writer' = Nobody
    /\ UNCHANGED <<held, faults, by_action_readers>>

InsertReceipt(t) ==
    /\ Using(Memory) /\ by_action_readers = {}
    /\ AnswerStored(t, "lock_by_action")
    /\ held' = held \cup {receipt[t]}
    /\ by_action' = [by_action EXCEPT ![ActionOf[receipt[t]]] = Append(@, receipt[t])]
    /\ receipts_writer' = Nobody
    /\ UNCHANGED <<faults, by_action_readers>>

LockByAction(t) ==
    /\ Using(Memory)
    /\ Step(t, "list", "lock_receipts")
    /\ by_action_readers' = by_action_readers \cup {t}
    /\ UNCHANGED <<held, faults, by_action, receipts_writer>>

ListMemory(t) ==
    /\ Using(Memory) /\ receipts_writer = Nobody
    /\ Answer(t, "lock_receipts", "Ok")
    /\ by_action_readers' = by_action_readers \ {t}
    /\ UNCHANGED <<held, faults, by_action, receipts_writer>>

GetMemory(t) ==
    /\ Using(Memory) /\ receipts_writer = Nobody
    /\ \E kind \in {"get", "exists"} : Answer(t, kind, Found(t))
    /\ UNCHANGED <<held, faults, memory>>

MemoryStep(t) == LockReceipts(t) \/ InsertReceipt(t) \/ LockByAction(t) \/ ListMemory(t) \/ GetMemory(t)

-----------------------------------------------------------------------------
\* MemStorage: one lock, so every call is one step

MemStorage == "mem_storage"

StoreInMap(t) ==
    /\ Using(MemStorage)
    /\ AnswerStored(t, "store")
    /\ held' = held \cup {receipt[t]}
    /\ UNCHANGED <<faults, memory>>

DeleteFromMap(t) ==
    /\ Using(MemStorage)
    /\ Answer(t, "delete", Found(t))
    /\ held' = held \ {receipt[t]}
    /\ UNCHANGED <<faults, memory>>

ReadMap(t) ==
    /\ Using(MemStorage)
    /\ \/ \E kind \in {"get", "exists"} : Answer(t, kind, Found(t))
       \/ Answer(t, "list", "Ok")
    /\ UNCHANGED <<held, faults, memory>>

MemStorageStep(t) == StoreInMap(t) \/ DeleteFromMap(t) \/ ReadMap(t)

=============================================================================
