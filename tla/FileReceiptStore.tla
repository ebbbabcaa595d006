-------------------------- MODULE FileReceiptStore --------------------------
(***************************************************************************)
(* FileReceiptStore of crates/agentverify-core/src/receipt.rs: a file per  *)
(* receipt, and index.json, which is rewritten by every store through the  *)
(* one file index.tmp.  There is no lock.                                  *)
(*                                                                         *)
(* tokio::fs::write opens and truncates the file, then writes it: a task   *)
(* that has opened index.tmp keeps writing to that file when another one   *)
(* has renamed it to index.json.                                           *)
(***************************************************************************)
EXTENDS ReceiptTasks, FiniteSetsExt

VARIABLES
    index,      \* index.json: a map, Torn or NoFile
    index_tmp,  \* index.tmp
    opened      \* what the file that a task has open for writing is called now

indexFiles == <<index, index_tmp, opened>>

File == "file"
NoFile == [file |-> "none"]
Torn == [file |-> "torn"]   \* truncated, or with the tail of a longer text
Text(map) == [file |-> "text", map |-> map]

FileInit == index = NoFile /\ index_tmp = NoFile /\ opened = [t \in Tasks |-> "none"]

\* An action has two lines in the file and an id has one; all ids are equally long.
Lines(map) == MapThenSumSet(LAMBDA a : IF map[a] = <<>> THEN 0 ELSE 2 + Len(map[a]), Actions)

\* A text written from the start of a file that holds another.
Overwritten(file, map) ==
    IF file.file = "text" /\ Lines(file.map) > Lines(map) THEN Torn ELSE Text(map)

\* read_index_async().unwrap_or_default(): what cannot be read or parsed is empty.
IndexOrDefault(file) == IF file.file = "text" THEN file.map ELSE Empty

\* Mutant of WithReceipt: the ids of the action are replaced.
WithReceiptOnly(map, r) == [map EXCEPT ![ActionOf[r]] = <<r>>]

WithReceipt(map, r) == [map EXCEPT ![ActionOf[r]] = Append(@, r)]

-----------------------------------------------------------------------------
\* store

WriteReceipt(t) ==
    /\ Using(File)
    /\ Step(t, "store", "rename")
    /\ UNCHANGED <<held, faults, indexFiles>>

\* Mutant of RenameReceipt: the receipt stays in its temporary file.
RenameReceiptSkipped(t) ==
    /\ Using(File)
    /\ Step(t, "rename", "read_index")
    /\ UNCHANGED <<held, faults, indexFiles>>

RenameReceipt(t) ==
    /\ Using(File)
    /\ Step(t, "rename", "read_index")
    /\ held' = held \cup {receipt[t]}
    /\ UNCHANGED <<faults, indexFiles>>

ReadIndex(t) ==
    /\ Using(File)
    /\ \/ StepReading(t, "read_index", "open_index", WithReceipt(IndexOrDefault(index), receipt[t]))
          /\ UNCHANGED faults
       \/ StepReading(t, "read_index", "open_index", WithReceipt(Empty, receipt[t])) /\ Fault
    /\ UNCHANGED <<held, indexFiles>>

OpenIndex(t) ==
    /\ Using(File)
    /\ Step(t, "open_index", "write_index")
    /\ index_tmp' = Torn
    /\ opened' = [opened EXCEPT ![t] = "index.tmp"]
    /\ UNCHANGED <<held, faults, index>>

WriteIndex(t) ==
    /\ Using(File)
    /\ Step(t, "write_index", "rename_index")
    /\ index_tmp' = IF opened[t] = "index.tmp" THEN Overwritten(index_tmp, seen[t]) ELSE index_tmp
    /\ index' = IF opened[t] = "index.json" THEN Overwritten(index, seen[t]) ELSE index
    /\ opened' = [opened EXCEPT ![t] = "none"]
    /\ UNCHANGED <<held, faults>>

\* The file that was index.json has no name any more.
RenameIndex(t) ==
    /\ Using(File) /\ index_tmp # NoFile
    /\ AnswerStored(t, "rename_index")
    /\ index' = index_tmp /\ index_tmp' = NoFile
    /\ opened' = [u \in Tasks |-> CASE opened[u] = "index.tmp"  -> "index.json"
                                    [] opened[u] = "index.json" -> "unlinked"
                                    [] OTHER                    -> opened[u]]
    /\ UNCHANGED <<held, faults>>

\* Another store has renamed index.tmp away.
RenameIndexFails(t) ==
    /\ Using(File) /\ index_tmp = NoFile
    /\ Answer(t, "rename_index", "Error")
    /\ UNCHANGED <<held, faults, indexFiles>>

StoreFails(t) ==
    /\ Using(File) /\ Fault
    /\ \E from \in {"store", "rename", "open_index", "write_index", "rename_index"} :
           Answer(t, from, "Error")
    /\ opened' = [opened EXCEPT ![t] = "none"]
    /\ UNCHANGED <<held, index, index_tmp>>

-----------------------------------------------------------------------------
\* get, exists, list_by_action

GetFile(t) ==
    /\ Using(File)
    /\ \E kind \in {"get", "exists"} : Answer(t, kind, Found(t))
    /\ UNCHANGED <<held, faults, indexFiles>>

GetUnreadable(t) ==
    /\ Using(File) /\ receipt[t] \in held /\ Fault
    /\ Answer(t, "get", "Absent")
    /\ UNCHANGED <<held, indexFiles>>

ListIndex(t) ==
    /\ Using(File)
    /\ \/ StepReading(t, "list", "read_files", IndexOrDefault(index)) /\ UNCHANGED faults
       \/ Answer(t, "list", "Ok") /\ Fault
    /\ UNCHANGED <<held, indexFiles>>

\* Files that cannot be read are left out.
ListFiles(t) ==
    /\ Using(File)
    /\ Answer(t, "read_files", IF Ids(seen[t][ActionOf[receipt[t]]]) \subseteq held THEN "Ok" ELSE "Short")
    /\ UNCHANGED <<held, faults, indexFiles>>

FileStep(t) ==
    \/ WriteReceipt(t) \/ RenameReceipt(t) \/ ReadIndex(t) \/ OpenIndex(t) \/ WriteIndex(t)
    \/ RenameIndex(t) \/ RenameIndexFails(t) \/ StoreFails(t)
    \/ GetFile(t) \/ GetUnreadable(t) \/ ListIndex(t) \/ ListFiles(t)

=============================================================================
