----------------------------- MODULE ClientState -----------------------------
(***************************************************************************)
(* The tables all connections share (ClientState.cpp, ClientState.h): the  *)
(* handle counter, the process and module snapshots with their iterators,  *)
(* and the opened processes.  Every method of the class is one critical    *)
(* section of its mutex, so every method is one action here; what callers  *)
(* do between two of them is in Client.                                    *)
(*                                                                         *)
(* A snapshot is abstracted to its number of entries, an entry to its      *)
(* position.                                                               *)
(***************************************************************************)
EXTENDS Integers

CONSTANTS
    Pids,        \* process ids
    MaxInt,      \* largest CE_HANDLE, an int (2^31 - 1)
    MaxEntries,  \* bound: entries of a snapshot
    None         \* no entry in a map

ASSUME MaxIntAssumption == MaxInt \in Nat \ {0}
ASSUME MaxEntriesAssumption == MaxEntries \in Nat
ASSUME PidsAssumption == Pids \subseteq 0 .. MaxInt /\ None \notin Int

VARIABLES
    lastHandleID,  \* lastHandleID
    issued,        \* history: how many handles were generated
    snapshots,     \* handlesToProcessInfoSnapshots and handlesToModuleSnapshots
    iterators,     \* processIter and moduleIter
    processes      \* handlesToProcessIDs

stateVars == <<lastHandleID, issued, snapshots, iterators, processes>>

Kinds == {"process", "module"}
MinInt == -MaxInt - 1
Handles == {MinInt, -1} \cup (0 .. MaxInt)

StateTypeOK ==
    /\ lastHandleID \in Handles \ {-1}
    /\ issued \in Nat
    /\ snapshots \in [Kinds -> [Handles -> (0 .. MaxEntries) \cup {None}]]
    /\ iterators \in [Kinds -> [Handles -> (0 .. MaxEntries) \cup {None}]]
    /\ processes \in [Handles -> Pids \cup {None}]

StateInit ==
    /\ lastHandleID = 0
    /\ issued = 0
    /\ snapshots = [k \in Kinds |-> [h \in Handles |-> None]]
    /\ iterators = [k \in Kinds |-> [h \in Handles |-> None]]
    /\ processes = [h \in Handles |-> None]

\* lastHandleID++ and the range check.  Incrementing the largest int is
\* undefined: the build may wrap and be caught by the check (0) or, with the
\* check folded into a comparison with the old value, keep the negative result.
Incremented(n) == IF n = MaxInt THEN {0, MinInt}
                  ELSE IF n + 1 < 0 THEN {0}
                  ELSE {n + 1}

\* Mutant of GenerateHandle: the value before the increment is returned.
GenerateOldHandle(h) ==
    /\ h = lastHandleID
    /\ lastHandleID' \in Incremented(lastHandleID)
    /\ issued' = issued + 1
    /\ UNCHANGED <<snapshots, iterators, processes>>

\* generateHandle() returns h.
GenerateHandle(h) ==
    /\ h \in Incremented(lastHandleID)
    /\ lastHandleID' = h
    /\ issued' = issued + 1
    /\ UNCHANGED <<snapshots, iterators, processes>>

StoreOpenProcess(pid, h) ==
    /\ processes' = [processes EXCEPT ![h] = pid]
    /\ UNCHANGED <<lastHandleID, issued, snapshots, iterators>>

\* insert keeps a snapshot that is already stored under the handle; the
\* iterator is reset in any case.
StoreSnapshot(k, n, h) ==
    /\ snapshots' = [snapshots EXCEPT ![k][h] = IF @ = None THEN n ELSE @]
    /\ iterators' = [iterators EXCEPT ![k][h] = 0]
    /\ UNCHANGED <<lastHandleID, issued, processes>>

\* Mutant of CloseHandle: the number of the closed handle is given out again.
CloseAndRecycle(h) ==
    /\ snapshots' = [k \in Kinds |-> [snapshots[k] EXCEPT ![h] = None]]
    /\ iterators' = [k \in Kinds |-> [iterators[k] EXCEPT ![h] = None]]
    /\ processes' = [processes EXCEPT ![h] = None]
    /\ lastHandleID' = IF h = lastHandleID /\ h > 0 THEN h - 1 ELSE lastHandleID
    /\ UNCHANGED issued

\* Whatever the handle stands for is erased.
CloseHandle(h) ==
    /\ snapshots' = [k \in Kinds |-> [snapshots[k] EXCEPT ![h] = None]]
    /\ iterators' = [k \in Kinds |-> [iterators[k] EXCEPT ![h] = None]]
    /\ processes' = [processes EXCEPT ![h] = None]
    /\ UNCHANGED <<lastHandleID, issued>>

\* The map operator [] inserts a zero for a missing iterator.
Position(k, h) == IF iterators[k][h] = None THEN 0 ELSE iterators[k][h]

\* Mutant of HasNext: the end of the snapshot is off by one.
HasNextOrEnd(k, h) == snapshots[k][h] # None /\ Position(k, h) <= snapshots[k][h]

HasNext(k, h) == snapshots[k][h] # None /\ Position(k, h) < snapshots[k][h]

\* nextProcessInfo, nextMemoryRegion: a pointer to the entry at Position ...
NextEntry(k, h) ==
    /\ HasNext(k, h)
    /\ iterators' = [iterators EXCEPT ![k][h] = Position(k, h) + 1]
    /\ UNCHANGED <<lastHandleID, issued, snapshots, processes>>

\* ... or nullptr.
NoNextEntry(k, h) ==
    /\ ~HasNext(k, h)
    /\ iterators' = IF snapshots[k][h] = None THEN iterators
                    ELSE [iterators EXCEPT ![k][h] = Position(k, h)]
    /\ UNCHANGED <<lastHandleID, issued, snapshots, processes>>

\* Mutant of ResetIterator: only a missing iterator is set to zero.
InsertIterator(k, h) ==
    /\ iterators' = [iterators EXCEPT ![k][h] = Position(k, h)]
    /\ UNCHANGED <<lastHandleID, issued, snapshots, processes>>

\* resetProcessIterator, resetModuleIterator: also for a handle that is closed.
ResetIterator(k, h) ==
    /\ iterators' = [iterators EXCEPT ![k][h] = 0]
    /\ UNCHANGED <<lastHandleID, issued, snapshots, processes>>

ContainsSnapshot(k, h) == snapshots[k][h] # None
ContainsProcess(h) == processes[h] # None

\* Mutant of GetProcessID: the process opened last, whatever the handle.
GetLatestProcessID(h) == IF ContainsProcess(lastHandleID) THEN processes[lastHandleID] ELSE -1

\* Mutant of GetProcessID: the lookup does not ask whether the handle is there.
GetUncheckedProcessID(h) == processes[h]

GetProcessID(h) == IF ContainsProcess(h) THEN processes[h] ELSE -1

\* getProcessHandleLegacyCE: the value (not the key) of the first element of
\* the unordered map.
LegacyHandles == IF \A h \in Handles : ~ContainsProcess(h) THEN {-1}
                 ELSE {processes[h] : h \in {g \in Handles : ContainsProcess(g)}}
=============================================================================
