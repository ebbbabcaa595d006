------------------------ MODULE BrowserReceiptStore -------------------------
(***************************************************************************)
(* WasmReceiptStore of crates/agentverify-http/src/wasm_storage.rs, over   *)
(* localStorage.  Within a tab a call runs to its end, for it awaits       *)
(* nothing; the tabs of a site share the storage, so every access of it    *)
(* is a step, and each task is a tab.                                      *)
(***************************************************************************)
EXTENDS MemoryReceiptStore

Browser == "browser"
IdsOf(r) == by_action[ActionOf[r]]

SetReceipt(t) ==
    /\ Using(Browser)
    /\ Step(t, "store", "get_action_ids")
    /\ held' = held \cup {receipt[t]}
    /\ UNCHANGED <<faults, memory>>

\* The list is left alone when it has the id already.
GetActionIds(t) ==
    /\ Using(Browser)
    /\ IF receipt[t] \in Ids(IdsOf(receipt[t]))
       THEN AnswerStored(t, "get_action_ids")
       ELSE StepReading(t, "get_action_ids", "set_action_ids", by_action)
    /\ UNCHANGED <<held, faults, memory>>

SetActionIds(t) ==
    /\ Using(Browser)
    /\ AnswerStored(t, "set_action_ids")
    /\ by_action' = [by_action EXCEPT ![ActionOf[receipt[t]]] =
                        Append(seen[t][ActionOf[receipt[t]]], receipt[t])]
    /\ UNCHANGED <<held, faults, receipts_writer, by_action_readers>>

\* set_item fails when the quota is used up.
QuotaExceeded(t) ==
    /\ Using(Browser) /\ Fault
    /\ \E from \in {"store", "set_action_ids"} : Answer(t, from, "Error")
    /\ UNCHANGED <<held, memory>>

GetItem(t) ==
    /\ Using(Browser)
    /\ \E kind \in {"get", "exists"} : Answer(t, kind, Found(t))
    /\ UNCHANGED <<held, faults, memory>>

ListActionIds(t) ==
    /\ Using(Browser)
    /\ StepReading(t, "list", "get_items", by_action)
    /\ UNCHANGED <<held, faults, memory>>

ListItems(t) ==
    /\ Using(Browser)
    /\ Answer(t, "get_items", IF Ids(seen[t][ActionOf[receipt[t]]]) \subseteq held THEN "Ok" ELSE "Short")
    /\ UNCHANGED <<held, faults, memory>>

BrowserStep(t) ==
    \/ SetReceipt(t) \/ GetActionIds(t) \/ SetActionIds(t) \/ QuotaExceeded(t)
    \/ GetItem(t) \/ ListActionIds(t) \/ ListItems(t)

=============================================================================
