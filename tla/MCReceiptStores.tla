--------------------------- MODULE MCReceiptStores ---------------------------
(***************************************************************************)
(* Two tasks and receipts r1, r2 of action a1 and r3 of action a2.         *)
(***************************************************************************)
EXTENDS ReceiptStores

CONSTANTS r1, r2, r3, a1, a2

MCReceipts == {r1, r2, r3}
MCActions == {a1, a2}
MCActionOf == [r \in MCReceipts |-> IF r = r3 THEN a2 ELSE a1]
AllBackends == {Memory, MemStorage, File, Browser, Storage}
MemoryOnly == {Memory}

=============================================================================
