---------------------------- MODULE MemoryProofs ----------------------------
(***************************************************************************)
(* Machine-checked proofs about Memory: the invariants of the memory       *)
(* service and its refinement of AtomicMemory, for any number of threads,  *)
(* requests and items and any limits.                                      *)
(*                                                                         *)
(* Inv is inductive: InitInv, and one lemma per action that the action     *)
(* preserves it, combined in NextInv.                                      *)
(***************************************************************************)
EXTENDS Memory, TLAPS, FiniteSetTheorems

-----------------------------------------------------------------------------
(* The inductive invariant *)

\* A call in progress: which item and which request it refers to.
CallInv ==
    \A c \in Threads :
        /\ Reading(c) => held[c] \in Items /\ want[c] \in Requests /\ obj[held[c]].req = want[c]
        /\ ~Reading(c) => held[c] = None
        /\ pc[c] = "copy" => PromiseRead(held[c])
        /\ pc[c] = "future" => ~PromiseRead(held[c]) /\ obj[held[c]].futures = 1
        /\ \A d \in Threads : pc[c] = "future" /\ pc[d] = "future" /\ held[c] = held[d] => c = d

\* An item: device before promise, promise before copy; whoever took its
\* future has the copy or is still waiting with the lock.
ItemInv ==
    \A i \in Items :
        /\ Fulfilled(i) => obj[i].dev # None
        /\ PromiseRead(i) => Fulfilled(i)
        /\ PromiseRead(i) => \/ obj[i].data = obj[i].dev
                             \/ obj[i].data = Garbage /\ ScatterReadThreshold # 0
        /\ obj[i].futures <= 1
        /\ obj[i].futures = 1 => PromiseRead(i) \/ Locked(i)
        /\ obj[i].buf = "freed" => ScatterReadThreshold # 0

\* The backlog holds what has not been dispatched, the batch what is being.
QueueInv ==
    /\ backlog \cap batch = {}
    /\ \A i \in backlog : obj[i].req \in Requests /\ obj[i].dev = None
    /\ \A i \in batch : obj[i].req \in Requests
    /\ batch # {} => dpc = "acquire" \/ Dispatching
    /\ dpc = "acquire" => \A i \in batch : obj[i].dev = None

\* Where the dispatch stands decides what the items of the batch have.
DispatchInv ==
    /\ dpc \in {"setvalue", "free"} => cur \in batch /\ obj[cur].dev # None
    /\ dpc = "setvalue" => ~Fulfilled(cur)
    /\ dpc \in {"sequential", "setvalue", "free"} =>
          \A i \in batch : i # cur /\ ~Fulfilled(i) => obj[i].dev = None
    /\ dpc \notin {"setvalue", "free"} => cur = None
    /\ dpc = "fulfil" => \A i \in batch : obj[i].dev # None
    /\ ScatterReadThreshold = 0 /\ dpc \in {"sequential", "setvalue", "free"} => batch = {}

\* The life of the object: calls only while serving, the device open then, and
\* a dispatch thread without a device finds no work.
LifeInv ==
    /\ life # "serving" => \A c \in Threads : pc[c] = "idle"
    /\ life = "serving" => hVMM = "open"
    /\ life = "new" => dpc = "none" /\ hVMM = "null"
    /\ hVMM = "null" => /\ backlog = {}
                        /\ dpc # "build" /\ dpc # "acquire" /\ ~Dispatching
    /\ hVMM = "closed" => dpc = "none"
    /\ life \in {"new", "closed"} => hVMM # "open"

Inv == /\ TypeOK /\ CallInv /\ ItemInv /\ QueueInv /\ DispatchInv /\ LifeInv
       /\ NoLostRead /\ NeverSleepsOnWork /\ BacklogBeginValid /\ DeviceExclusive

-----------------------------------------------------------------------------
\* The definitions every preservation proof opens.
USE DEF Inv, CallInv, ItemInv, QueueInv, DispatchInv, LifeInv, NoLostRead,
        NeverSleepsOnWork, BacklogBeginValid, DeviceExclusive, TypeOK,
        Reading, Writing, Dispatching, Fulfilled, PromiseRead, Locked, TakeSem, Left, Idle

-----------------------------------------------------------------------------
(* Facts about items *)

\* Storage without an item has the type of an item.
LEMMA BlankType == Blank \in ItemType
BY DEF Blank, ItemType

\* A count that is at most one is zero or one.
LEMMA AtMostOne == \A n \in Nat : n <= 1 => n = 0 \/ n = 1
OBVIOUS

\* A request addresses a cell of the target's memory.
LEMMA CellType == \A r \in Requests : Cell(r) \in Cells
BY DEF Cells

\* A device read yields contents of memory or a failure, never "not yet".
LEMMA DeviceReadType ==
    ASSUME TypeOK, NEW r \in Requests
    PROVE  /\ DeviceRead(r) \subseteq Vals \cup {Failed}
           /\ None \notin DeviceRead(r)
BY CellType, DistinctAssumption DEF DeviceRead

\* Dropping references (the shared_ptr of a reader or the dispatch buffer)
\* keeps every item that is still referenced and blanks the others.
LEMMA ReclaimKeeps ==
    ASSUME TypeOK, NEW q, NEW b, NEW h,
           obj' = Reclaim(q, b, h)
    PROVE  /\ obj' \in [Items -> ItemType]
           /\ \A i \in Items : obj'[i] = obj[i] \/ obj'[i] = Blank
           /\ \A i \in Items : i \in Referenced(q, b, h) => obj'[i] = obj[i]
BY BlankType DEF Reclaim

\* With the threshold at 0 only the empty batch is read sequentially.
LEMMA SequentialEmpty ==
    ASSUME TypeOK, ScatterReadThreshold = 0, Cardinality(batch) <= ScatterReadThreshold
    PROVE  batch = {}
<1>1. IsFiniteSet(batch)
  BY FiniteAssumption, FS_Subset
<1>2. Cardinality(batch) \in Nat
  BY <1>1, FS_CardinalityType
<1> QED
  BY <1>1, <1>2, FS_EmptySet

-----------------------------------------------------------------------------
(* Inv holds initially *)

LEMMA InitInv == Init => Inv
<1> SUFFICES ASSUME Init PROVE Inv
  OBVIOUS
<1> USE DEF Init
<1>1. TypeOK
  BY BlankType
<1>2. CallInv
  OBVIOUS
<1>3. ItemInv
  BY DEF Blank
<1>4. QueueInv
  OBVIOUS
<1>5. DispatchInv
  OBVIOUS
<1>6. LifeInv
  OBVIOUS
<1>7. DeviceExclusive
  OBVIOUS
<1> QED
  BY <1>1, <1>2, <1>3, <1>4, <1>5, <1>6, <1>7

-----------------------------------------------------------------------------
(* The main thread preserves Inv *)

LEMMA MainStepInv == Inv /\ MainStep => Inv'
<1> SUFFICES ASSUME Inv, MainStep PROVE Inv'
  OBVIOUS
<1>1. CASE InitNoMap
  BY <1>1 DEF InitNoMap, dispatchVars, callVars
<1>2. ASSUME NEW h \in {"open", "null"}, InitVMM(h) PROVE Inv'
  <2>1. life = "new" /\ dpc = "none" /\ hVMM = "null" /\ batch = {} /\ backlog = {}
    BY <1>2 DEF InitVMM
  <2>2. TypeOK'
    BY <1>2 DEF InitVMM, callVars
  <2>3. (CallInv /\ ItemInv /\ NoLostRead)'
    BY <1>2 DEF InitVMM, callVars
  <2>4. (QueueInv /\ DispatchInv /\ NeverSleepsOnWork /\ BacklogBeginValid)'
    BY <1>2, <2>1 DEF InitVMM, callVars
  <2>5. (LifeInv /\ DeviceExclusive)'
    BY <1>2, <2>1 DEF InitVMM, callVars
  <2> QED
    BY <2>2, <2>3, <2>4, <2>5
<1>3. CASE Leave
  BY <1>3 DEF Leave, dispatchVars, callVars
<1>4. CASE SetStop
  BY <1>4 DEF SetStop, dispatchVars, callVars
<1>5. CASE NotifyStop
  BY <1>5 DEF NotifyStop, Notified, callVars
<1>6. CASE JoinAndClose
  BY <1>6 DEF JoinAndClose, CloseVMM, callVars
<1> QED
  BY <1>1, <1>2, <1>3, <1>4, <1>5, <1>6 DEF MainStep

-----------------------------------------------------------------------------
(* The dispatch thread preserves Inv *)

\* Steps that only move the dispatch thread.
LEMMA JumpInv ==
    Inv /\ (LoopTest \/ CheckBacklog \/ WaitPredicate \/ WaitBlock \/ SpuriousWakeup
             \/ ScatterExecuted) => Inv'
<1> SUFFICES ASSUME Inv PROVE
      (LoopTest \/ CheckBacklog \/ WaitPredicate \/ WaitBlock \/ SpuriousWakeup
        \/ ScatterExecuted) => Inv'
  OBVIOUS
<1> USE DEF Jump, mainVars, callVars
<1>1. CASE LoopTest
  BY <1>1 DEF LoopTest
<1>2. CASE CheckBacklog
  BY <1>2 DEF CheckBacklog
<1>3. CASE WaitPredicate
  BY <1>3 DEF WaitPredicate
<1>4. CASE WaitBlock
  BY <1>4 DEF WaitBlock
<1>5. CASE SpuriousWakeup
  BY <1>5 DEF SpuriousWakeup
<1>6. CASE ScatterExecuted
  BY <1>6 DEF ScatterExecuted
<1> QED
  BY <1>1, <1>2, <1>3, <1>4, <1>5, <1>6

LEMMA CollectInv == Inv /\ Collect => Inv'
BY DEF Collect, Jump, OfPid, mainVars, callVars

LEMMA AcquireSemInv == Inv /\ AcquireSem => Inv'
<1> SUFFICES ASSUME Inv, AcquireSem PROVE Inv'
  OBVIOUS
<1> USE DEF AcquireSem, Jump, mainVars, callVars
<1>1. (TypeOK /\ CallInv /\ ItemInv /\ QueueInv /\ LifeInv)'
  OBVIOUS
<1>2. ScatterReadThreshold = 0 /\ dpc' = "sequential" => batch = {}
  BY SequentialEmpty
<1>3. DispatchInv'
  BY <1>2
<1>4. (NoLostRead /\ NeverSleepsOnWork /\ BacklogBeginValid)'
  OBVIOUS
<1>5. DeviceExclusive'
  OBVIOUS
<1> QED
  BY <1>1, <1>3, <1>4, <1>5

LEMMA MemReadExInv == \A i \in Items : Inv /\ MemReadEx(i) => Inv'
<1> SUFFICES ASSUME NEW i \in Items, Inv, MemReadEx(i) PROVE Inv'
  OBVIOUS
<1> USE DEF MemReadEx, Jump, mainVars, callVars
<1>1. PICK v \in DeviceRead(obj[i].req) : obj' = [obj EXCEPT ![i].dev = v]
  OBVIOUS
<1>2. v \in Vals \cup {Failed} /\ v # None
  BY <1>1, DeviceReadType
<1>3. i # cur /\ obj[i].dev = None /\ ~PromiseRead(i) /\ i \notin backlog
  BY DistinctAssumption
<1>4. /\ obj'[i] = [obj[i] EXCEPT !.dev = v]
      /\ \A j \in Items \ {i} : obj'[j] = obj[j]
  BY <1>1
<1>5. obj' \in [Items -> ItemType]
  BY <1>1, <1>2 DEF ItemType
<1>6. TypeOK'
  BY <1>5
<1>7. CallInv'
  BY <1>4, <1>3 DEF ItemType
<1>8. ItemInv'
  BY <1>4, <1>3, <1>2 DEF ItemType
<1>9. QueueInv'
  BY <1>4, <1>3 DEF ItemType
<1>10. DispatchInv'
  <2>1. cur' = i /\ dpc' = "setvalue" /\ batch' = batch
    OBVIOUS
  <2>2. obj'[i].dev # None /\ ~Fulfilled(i)' /\ i \in batch
    BY <1>2, <1>4 DEF ItemType
  <2>3. \A j \in batch : j # i /\ ~Fulfilled(j)' => obj'[j].dev = None
    BY <1>4, DistinctAssumption
  <2> QED
    BY <2>1, <2>2, <2>3
<1>11. NoLostRead'
  BY <1>4, <1>3 DEF ItemType
<1>12. (LifeInv /\ NeverSleepsOnWork /\ BacklogBeginValid /\ DeviceExclusive)'
  OBVIOUS
<1> QED
  BY <1>6, <1>7, <1>8, <1>9, <1>10, <1>11, <1>12

LEMMA ScatterExecuteInv == \A i \in Items : Inv /\ ScatterExecute(i) => Inv'
<1> SUFFICES ASSUME NEW i \in Items, Inv, ScatterExecute(i) PROVE Inv'
  OBVIOUS
<1> USE DEF ScatterExecute, Jump, mainVars, callVars
<1>1. PICK v \in DeviceRead(obj[i].req) : obj' = [obj EXCEPT ![i].dev = v]
  OBVIOUS
<1>2. v \in Vals \cup {Failed} /\ v # None
  BY <1>1, DeviceReadType
<1>3. ~PromiseRead(i) /\ ~Fulfilled(i) /\ i \notin backlog
  OBVIOUS
<1>4. /\ obj'[i] = [obj[i] EXCEPT !.dev = v]
      /\ \A j \in Items \ {i} : obj'[j] = obj[j]
  BY <1>1
<1>5. obj' \in [Items -> ItemType]
  BY <1>1, <1>2 DEF ItemType
<1>6. TypeOK'
  BY <1>5
<1>7. CallInv'
  BY <1>4, <1>3 DEF ItemType
<1>8. ItemInv'
  BY <1>4, <1>3, <1>2 DEF ItemType
<1>9. QueueInv'
  BY <1>4, <1>3 DEF ItemType
<1>10. DispatchInv'
  BY <1>4, <1>3, <1>2 DEF ItemType
<1>11. NoLostRead'
  BY <1>4, <1>3 DEF ItemType
<1>12. (LifeInv /\ NeverSleepsOnWork /\ BacklogBeginValid /\ DeviceExclusive)'
  OBVIOUS
<1> QED
  BY <1>6, <1>7, <1>8, <1>9, <1>10, <1>11, <1>12

LEMMA PromiseInv ==
    /\ Inv /\ SetValue => Inv'
    /\ Inv /\ FreeBuffer => Inv'
    /\ \A i \in Items : Inv /\ ScatterRead(i) => Inv'
<1> USE DEF Jump, mainVars, callVars, ItemType
<1>1. Inv /\ SetValue => Inv'
  BY DEF SetValue
<1>2. Inv /\ FreeBuffer => Inv'
  BY DEF FreeBuffer
<1>3. \A i \in Items : Inv /\ ScatterRead(i) => Inv'
  BY DEF ScatterRead
<1> QED
  BY <1>1, <1>2, <1>3

LEMMA ReleaseSemInv == Inv /\ ReleaseSem => Inv'
<1> SUFFICES ASSUME Inv, ReleaseSem PROVE Inv'
  OBVIOUS
<1> USE DEF ReleaseSem, mainVars, callVars
<1>1. /\ obj' \in [Items -> ItemType]
      /\ \A i \in Items : obj'[i] = obj[i] \/ obj'[i] = Blank
      /\ \A i \in Items : i \in Referenced(backlog, {}, held) => obj'[i] = obj[i]
  BY ReclaimKeeps
<1>2. /\ \A i \in backlog : obj'[i] = obj[i]
      /\ \A c \in Threads : Reading(c) => obj'[held[c]] = obj[held[c]]
  BY <1>1 DEF Referenced
<1>3. TypeOK'
  BY <1>1
<1>4. CallInv'
  BY <1>2
<1>5. ItemInv'
  <2> SUFFICES ASSUME NEW i \in Items PROVE ItemInv!(i)'
    OBVIOUS
  <2>1. CASE obj'[i] = obj[i]
    BY <2>1
  <2>2. CASE obj'[i] = Blank
    BY <2>2 DEF Blank
  <2> QED
    BY <1>1, <2>1, <2>2
<1>6. (QueueInv /\ NoLostRead)'
  BY <1>2
<1>7. (DispatchInv /\ LifeInv /\ NeverSleepsOnWork /\ BacklogBeginValid)'
  OBVIOUS
<1>8. DeviceExclusive'
  OBVIOUS
<1> QED
  BY <1>3, <1>4, <1>5, <1>6, <1>7, <1>8

LEMMA DispatchStepInv == Inv /\ (DispatchStep \/ SpuriousWakeup) => Inv'
BY JumpInv, CollectInv, AcquireSemInv, MemReadExInv, ScatterExecuteInv, PromiseInv,
   ReleaseSemInv DEF DispatchStep

-----------------------------------------------------------------------------
(* The connection threads preserve Inv *)

LEMMA ReadInv == \A c \in Threads, r \in Requests : Inv /\ (ReadJoin(c, r) \/ ReadNew(c, r)) => Inv'
<1> SUFFICES ASSUME NEW c \in Threads, NEW r \in Requests, Inv
             PROVE  ReadJoin(c, r) \/ ReadNew(c, r) => Inv'
  OBVIOUS
<1> USE DEF At, Asks, mainVars
<1>1. CASE ReadJoin(c, r)
  BY <1>1, DistinctAssumption DEF ReadJoin, dispatchVars
<1>2. CASE ReadNew(c, r)
  BY <1>2, DistinctAssumption
     DEF ReadNew, NewItem, Blank, ItemType, Referenced, Notified, MtxFree
<1> QED
  BY <1>1, <1>2

LEMMA GetFutureInv == \A c \in Threads : Inv /\ GetFuture(c) => Inv'
<1> SUFFICES ASSUME NEW c \in Threads, Inv, GetFuture(c) PROVE Inv'
  OBVIOUS
<1> DEFINE i == held[c]
<1> USE DEF GetFuture, At, mainVars, dispatchVars
<1>1. i \in Items /\ ~Locked(i) /\ ~PromiseRead(i) /\ obj[i].futures = 0
  <2>1. i \in Items /\ ~Locked(i) /\ ~PromiseRead(i)
    OBVIOUS
  <2>2. obj[i].futures \in Nat /\ obj[i].futures <= 1 /\ obj[i].futures # 1
    BY <2>1 DEF ItemType
  <2> QED
    BY <2>1, <2>2, AtMostOne, Zenon
<1>2. /\ obj'[i] = [obj[i] EXCEPT !.futures = 1]
      /\ \A j \in Items \ {i} : obj'[j] = obj[j]
      /\ obj' \in [Items -> ItemType]
  BY <1>1 DEF ItemType
<1>3. pc' = [pc EXCEPT ![c] = "future"] /\ pc[c] = "get"
  OBVIOUS
<1>4. TypeOK'
  BY <1>2
<1>5. CallInv'
  BY <1>1, <1>2, <1>3 DEF ItemType
<1>6. ItemInv'
  BY <1>1, <1>2, <1>3 DEF ItemType
<1>7. (QueueInv /\ DispatchInv /\ NoLostRead)'
  BY <1>1, <1>2, <1>3 DEF ItemType
<1>8. (LifeInv /\ NeverSleepsOnWork /\ BacklogBeginValid /\ DeviceExclusive)'
  BY <1>3
<1> QED
  BY <1>4, <1>5, <1>6, <1>7, <1>8

LEMMA GetInv == \A c \in Threads : Inv /\ (GetCached(c) \/ GetResult(c)) => Inv'
<1> SUFFICES ASSUME NEW c \in Threads, Inv PROVE GetCached(c) \/ GetResult(c) => Inv'
  OBVIOUS
<1> USE DEF At, mainVars, dispatchVars
<1>1. CASE GetCached(c)
  BY <1>1 DEF GetCached
<1>2. CASE GetResult(c)
  <2> USE <1>2, DistinctAssumption DEF GetResult, Copied, ItemType
  <2>1. TypeOK'
    OBVIOUS
  <2>2. CallInv'
    OBVIOUS
  <2>3. ItemInv'
    OBVIOUS
  <2>4. (QueueInv /\ DispatchInv /\ NoLostRead)'
    OBVIOUS
  <2>5. (LifeInv /\ NeverSleepsOnWork /\ BacklogBeginValid /\ DeviceExclusive)'
    OBVIOUS
  <2> QED
    BY <2>1, <2>2, <2>3, <2>4, <2>5
<1> QED
  BY <1>1, <1>2

LEMMA ReadReturnInv == \A c \in Threads : Inv /\ ReadReturn(c) => Inv'
<1> SUFFICES ASSUME NEW c \in Threads, Inv, ReadReturn(c) PROVE Inv'
  OBVIOUS
<1>1. /\ pc' = [pc EXCEPT ![c] = "idle"] /\ pc[c] = "copy"
      /\ held' = [held EXCEPT ![c] = None]
      /\ want' = [want EXCEPT ![c] = None]
      /\ ret' = [ret EXCEPT ![c] = obj[held[c]].data]
      /\ UNCHANGED <<mainVars, dispatchVars, sem, mem>>
  BY DEF ReadReturn, At, Returns
<1> USE DEF mainVars, dispatchVars
<1>2. /\ obj' \in [Items -> ItemType]
      /\ \A i \in Items : obj'[i] = obj[i] \/ obj'[i] = Blank
      /\ \A i \in Items : i \in Referenced(backlog, batch, held') => obj'[i] = obj[i]
  BY BlankType DEF Reclaim, ReadReturn
<1>3. /\ \A i \in backlog \cup batch : obj'[i] = obj[i]
      /\ \A d \in Threads \ {c} : Reading(d) => obj'[held[d]] = obj[held[d]]
  <2>1. \A d \in Threads : held'[d] \in Referenced(backlog, batch, held')
    BY DEF Referenced
  <2>2. \A d \in Threads \ {c} : held'[d] = held[d]
    BY <1>1
  <2>3. backlog \cup batch \subseteq Referenced(backlog, batch, held')
    BY DEF Referenced
  <2> QED
    BY <1>2, <2>1, <2>2, <2>3
<1>4. TypeOK'
  <2>1. held[c] \in Items
    BY <1>1
  <2>2. obj[held[c]].data \in Vals \cup {None, Failed, Garbage}
    BY <2>1 DEF ItemType
  <2>3. held' \in [Threads -> Items \cup {None}] /\ want' \in [Threads -> Requests \cup {None}]
    BY <1>1
  <2>4. ret' \in [Threads -> Vals \cup {None, Failed, Written, Garbage}]
    BY <1>1, <2>2
  <2> QED
    BY <1>1, <1>2, <2>3, <2>4
<1>5. CallInv'
  BY <1>1, <1>3
<1>6. ItemInv'
  <2> SUFFICES ASSUME NEW i \in Items PROVE ItemInv!(i)'
    OBVIOUS
  <2>1. CASE obj'[i] = obj[i]
    BY <1>1, <2>1
  <2>2. CASE obj'[i] = Blank
    BY <2>2 DEF Blank
  <2> QED
    BY <1>2, <2>1, <2>2
<1>7. (QueueInv /\ NoLostRead /\ DispatchInv)'
  BY <1>1, <1>3
<1>8. (LifeInv /\ NeverSleepsOnWork /\ BacklogBeginValid /\ DeviceExclusive)'
  BY <1>1
<1> QED
  BY <1>4, <1>5, <1>6, <1>7, <1>8

LEMMA WriteInv ==
    \A c \in Threads :
        Inv /\ (\/ \E r \in Requests : WriteCall(c, r)
                \/ WriteAcquire(c) \/ MemWriteFails(c) \/ WriteReturn(c)
                \/ \E v \in Vals : MemWrite(c, v)) => Inv'
<1> SUFFICES ASSUME NEW c \in Threads, Inv
             PROVE  (\/ \E r \in Requests : WriteCall(c, r)
                     \/ WriteAcquire(c) \/ MemWriteFails(c) \/ WriteReturn(c)
                     \/ \E v \in Vals : MemWrite(c, v)) => Inv'
  OBVIOUS
<1> USE DEF At, mainVars, dispatchVars
<1>1. ASSUME NEW r \in Requests, WriteCall(c, r) PROVE Inv'
  BY <1>1 DEF WriteCall, Asks
<1>2. CASE WriteAcquire(c)
  BY <1>2 DEF WriteAcquire
<1>3. CASE MemWriteFails(c)
  BY <1>3 DEF MemWriteFails
<1>4. CASE WriteReturn(c)
  <2>1. TypeOK'
    BY <1>4 DEF WriteReturn, Returns
  <2>2. (CallInv /\ ItemInv /\ QueueInv /\ DispatchInv /\ NoLostRead)'
    BY <1>4 DEF WriteReturn, Returns
  <2>3. (LifeInv /\ NeverSleepsOnWork /\ BacklogBeginValid /\ DeviceExclusive)'
    BY <1>4 DEF WriteReturn, Returns
  <2> QED
    BY <2>1, <2>2, <2>3
<1>5. ASSUME NEW v \in Vals, MemWrite(c, v) PROVE Inv'
  <2>1. mem' \in [Cells -> Vals]
    BY <1>5 DEF MemWrite
  <2>2. TypeOK'
    BY <1>5, <2>1 DEF MemWrite
  <2>3. (CallInv /\ ItemInv /\ QueueInv /\ DispatchInv /\ NoLostRead)'
    BY <1>5 DEF MemWrite
  <2>4. (LifeInv /\ NeverSleepsOnWork /\ BacklogBeginValid /\ DeviceExclusive)'
    BY <1>5 DEF MemWrite
  <2> QED
    BY <2>2, <2>3, <2>4
<1> QED
  BY <1>1, <1>2, <1>3, <1>4, <1>5

LEMMA QueryInv == \A c \in Threads : Inv /\ (QueryBegin(c) \/ QueryEnd(c)) => Inv'
BY DEF QueryBegin, QueryEnd, At, mainVars, dispatchVars

LEMMA TargetWriteInv == \A x \in Cells, v \in Vals : Inv /\ TargetWrite(x, v) => Inv'
BY DEF TargetWrite, mainVars, dispatchVars, callVars

-----------------------------------------------------------------------------
(* Inv is inductive *)

LEMMA NextInv == Inv /\ [Next]_vars => Inv'
<1> SUFFICES ASSUME Inv, [Next]_vars PROVE Inv'
  OBVIOUS
<1>1. CASE MainStep
  BY <1>1, MainStepInv
<1>2. CASE DispatchStep \/ SpuriousWakeup
  BY <1>2, DispatchStepInv
<1>3. ASSUME NEW c \in Threads, Call(c) PROVE Inv'
  BY <1>3, ReadInv, WriteInv, QueryInv DEF Call
<1>4. ASSUME NEW c \in Threads, CallStep(c) PROVE Inv'
  BY <1>4, GetFutureInv, GetInv, ReadReturnInv, WriteInv, QueryInv DEF CallStep
<1>5. ASSUME NEW x \in Cells, NEW v \in Vals, TargetWrite(x, v) PROVE Inv'
  BY <1>5, TargetWriteInv
<1>6. CASE UNCHANGED vars
  BY <1>6 DEF vars, mainVars, dispatchVars, callVars
<1> QED
  BY <1>1, <1>2, <1>3, <1>4, <1>5, <1>6 DEF Next

\* The inductive invariant holds in every reachable state.
THEOREM Invariance == Spec => []Inv
<1> HIDE DEF Inv
<1> QED
  BY InitInv, NextInv, PTL DEF Spec

-----------------------------------------------------------------------------
(* What follows *)

\* Type correctness of the memory service.
THEOREM TypeCorrect == Spec => []TypeOK
<1>1. Inv => TypeOK
  OBVIOUS
<1> HIDE DEF Inv, TypeOK
<1> QED
  BY <1>1, Invariance, PTL

\* No read is lost between Memory::read and the promise: as long as it is not
\* fulfilled, the reader's item is in the backlog or in the batch.
THEOREM NoReadIsLost == Spec => []NoLostRead
<1>1. Inv => NoLostRead
  OBVIOUS
<1> HIDE DEF Inv, NoLostRead
<1> QED
  BY <1>1, Invariance, PTL

\* The dispatch thread never goes to sleep on a read.
THEOREM DispatcherAwake == Spec => []NeverSleepsOnWork
<1>1. Inv => NeverSleepsOnWork
  OBVIOUS
<1> HIDE DEF Inv, NeverSleepsOnWork
<1> QED
  BY <1>1, Invariance, PTL

\* dispatchLoop dereferences the beginning of a backlog that is not empty,
\* although it has released mtx since it looked.
THEOREM BatchHasFirstItem == Spec => []BacklogBeginValid
<1>1. Inv => BacklogBeginValid
  OBVIOUS
<1> HIDE DEF Inv, BacklogBeginValid
<1> QED
  BY <1>1, Invariance, PTL

\* Each reader keeps the item of its own request until it returns.
THEOREM OwnItem == Spec => []ReaderKeepsOwnItem
<1>1. Inv => ReaderKeepsOwnItem
  BY DEF ReaderKeepsOwnItem
<1> HIDE DEF Inv
<1> QED
  BY <1>1, Invariance, PTL

\* No promise is asked for its future twice.
THEOREM FutureOnce == Spec => []FutureRetrievedOnce
<1>1. Inv => FutureRetrievedOnce
  BY DEF FutureRetrievedOnce
<1> HIDE DEF Inv
<1> QED
  BY <1>1, Invariance, PTL

\* The semaphore keeps the dispatch thread and all writers apart.
THEOREM DeviceMutex == Spec => []DeviceExclusive
<1>1. Inv => DeviceExclusive
  OBVIOUS
<1> HIDE DEF Inv, DeviceExclusive
<1> QED
  BY <1>1, Invariance, PTL

\* The device is used only between VMMDLL_Initialize and VMMDLL_Close.
THEOREM DeviceOpen == Spec => []NoUseAfterClose
<1>1. Inv => NoUseAfterClose
  BY DEF NoUseAfterClose
<1> HIDE DEF Inv
<1> QED
  BY <1>1, Invariance, PTL

\* The step at fault: the sequential loop frees the buffer of an item whose
\* reader has not copied it (Memory.cpp, delete after set_value).
FreedUnderReader == FreeBuffer /\ ~PromiseRead(cur)

\* No copy was made of a freed buffer, and none will be.
Intact ==
    \A i \in Items : obj[i].data # Garbage /\ (obj[i].buf = "freed" => PromiseRead(i))

LEMMA IntactStep ==
    ASSUME Inv, Intact, [Next]_vars, [~FreedUnderReader]_vars
    PROVE  Intact'
<1>0. obj \in [Items -> ItemType]
  OBVIOUS
<1>1. ASSUME NEW c \in Threads, GetResult(c) PROVE Intact'
  <2> DEFINE i == held[c]
  <2>1. i \in Items /\ Fulfilled(i) /\ ~PromiseRead(i)
    BY <1>1 DEF GetResult, At
  <2>2. obj[i].buf = "live" /\ obj[i].dev # Garbage /\ obj[i].dev # None
    BY <2>1, DistinctAssumption DEF Intact, ItemType
  <2>3. obj' = [obj EXCEPT ![i].data = obj[i].dev]
    <3>1. Copied(i) = {obj[i].dev}
      BY <2>2 DEF Copied
    <3>2. \E v \in Copied(i) : obj' = [obj EXCEPT ![i].data = v]
      BY <1>1 DEF GetResult
    <3> QED
      BY <3>1, <3>2
  <2> QED
    BY <1>0, <2>1, <2>2, <2>3 DEF Intact, ItemType
<1>2. CASE FreeBuffer
  <2>1. cur \in Items /\ PromiseRead(cur) /\ obj' = [obj EXCEPT ![cur].buf = "freed"]
    <3>1. dpc = "free" /\ dpc' = "sequential" /\ obj' = [obj EXCEPT ![cur].buf = "freed"]
      BY <1>2 DEF FreeBuffer, Jump
    <3>2. cur \in Items
      BY <3>1
    <3>3. ~FreedUnderReader
      BY <3>1 DEF vars, dispatchVars
    <3> QED
      BY <1>2, <3>1, <3>2, <3>3 DEF FreedUnderReader
  <2> QED
    BY <1>0, <2>1 DEF Intact, ItemType
<1>3. ASSUME \A i \in Items : \/ obj'[i] = obj[i] \/ obj'[i] = Blank
                              \/ \E r \in Requests : obj'[i] = NewItem(r)
      PROVE  Intact'
  <2>1. Blank.data # Garbage /\ Blank.buf # "freed"
    BY DistinctAssumption DEF Blank
  <2>2. \A r : NewItem(r).data # Garbage /\ NewItem(r).buf # "freed"
    BY DistinctAssumption DEF Blank, NewItem
  <2> QED
    BY <1>3, <2>1, <2>2 DEF Intact
<1>4. ASSUME NEW c \in Threads, Call(c) PROVE Intact'
  BY <1>0, <1>3, <1>4 DEF Call, ReadJoin, ReadNew, WriteCall, QueryBegin
<1>5. ASSUME NEW c \in Threads, CallStep(c), ~GetResult(c), ~GetFuture(c) PROVE Intact'
  BY <1>0, <1>3, <1>5 DEF CallStep, GetCached, ReadReturn, Reclaim, WriteAcquire, MemWriteFails,
                          WriteReturn, QueryEnd, MemWrite
<1>6. ASSUME NEW c \in Threads, GetFuture(c) PROVE Intact'
  <2>1. held[c] \in Items /\ obj' = [obj EXCEPT ![held[c]].futures = @ + 1]
    BY <1>6 DEF GetFuture, At
  <2> QED
    BY <1>0, <2>1 DEF Intact, ItemType
<1>7. ASSUME NEW i \in Items, MemReadEx(i) \/ ScatterExecute(i) \/ ScatterRead(i) PROVE Intact'
  <2>1. CASE ScatterRead(i)
    BY <1>0, <2>1 DEF ScatterRead, Intact, ItemType
  <2>2. CASE MemReadEx(i) \/ ScatterExecute(i)
    <3>1. PICK v : obj' = [obj EXCEPT ![i].dev = v]
      BY <2>2 DEF MemReadEx, ScatterExecute
    <3> QED
      BY <1>0, <3>1 DEF Intact, ItemType
  <2> QED
    BY <1>7, <2>1, <2>2
<1>8. CASE SetValue
  <2>1. cur \in Items /\ obj' = [obj EXCEPT ![cur].buf = "live"]
    BY <1>8 DEF SetValue, Jump
  <2> QED
    BY <1>0, <2>1 DEF Intact, ItemType
<1>9. CASE \/ LoopTest \/ CheckBacklog \/ WaitPredicate \/ WaitBlock \/ SpuriousWakeup
           \/ Collect \/ AcquireSem \/ ScatterExecuted \/ ReleaseSem
  BY <1>0, <1>3, <1>9 DEF LoopTest, CheckBacklog, WaitPredicate, WaitBlock, SpuriousWakeup,
                          Collect, AcquireSem, ScatterExecuted, ReleaseSem, Reclaim
<1>10. CASE MainStep
  BY <1>3, <1>10 DEF MainStep, InitNoMap, InitVMM, Leave, SetStop, NotifyStop, JoinAndClose
<1>11. ASSUME NEW x \in Cells, NEW v \in Vals, TargetWrite(x, v) PROVE Intact'
  BY <1>3, <1>11 DEF TargetWrite
<1>12. CASE UNCHANGED vars
  BY <1>3, <1>12 DEF vars
<1> QED
  BY <1>1, <1>2, <1>4, <1>5, <1>6, <1>7, <1>8, <1>9, <1>10, <1>11, <1>12 DEF Next, DispatchStep

\* With any threshold, the sequential loop's delete is the only way a reader
\* receives anything but what the device read: as long as no buffer is freed
\* between set_value and the reader's copy, none returns the contents of freed
\* memory.
THEOREM OnlyEarlyFreeTears ==
    Spec /\ [][~FreedUnderReader]_vars => []NoGarbage
<1>1. Init => NoGarbage /\ Intact
  BY DistinctAssumption DEF Init, NoGarbage, Intact, Blank
<1>2. Inv /\ Intact /\ NoGarbage /\ [Next]_vars => NoGarbage'
  <2> SUFFICES ASSUME Inv, Intact, NoGarbage, [Next]_vars, NEW d \in Threads
               PROVE  ret'[d] # Garbage
    BY DEF NoGarbage
  <2>1. ret[d] # Garbage
    BY DEF NoGarbage
  <2>2. ASSUME NEW c \in Threads, ReadReturn(c) PROVE ret'[d] # Garbage
    <3>1. pc[c] = "copy" /\ ret' = [ret EXCEPT ![c] = obj[held[c]].data]
      BY <2>2 DEF ReadReturn, At, Returns
    <3>2. held[c] \in Items
      BY <3>1
    <3>3. obj[held[c]].data # Garbage
      BY <3>2 DEF Intact
    <3> QED
      BY <2>1, <3>1, <3>3
  <2>3. ASSUME NEW c \in Threads, Call(c) PROVE ret'[d] # Garbage
    BY <2>1, <2>3, DistinctAssumption
       DEF Call, ReadJoin, ReadNew, WriteCall, QueryBegin, Asks
  <2>4. ASSUME NEW c \in Threads, CallStep(c), ~ReadReturn(c) PROVE ret'[d] # Garbage
    BY <2>1, <2>4, DistinctAssumption
       DEF CallStep, GetFuture, GetCached, GetResult, WriteAcquire, MemWriteFails,
           WriteReturn, Returns, QueryEnd, MemWrite
  <2>5. CASE MainStep
    BY <2>1, <2>5 DEF MainStep, InitNoMap, InitVMM, Leave, SetStop, NotifyStop,
                      JoinAndClose, CloseVMM, callVars
  <2>6. CASE DispatchStep \/ SpuriousWakeup
    BY <2>1, <2>6 DEF DispatchStep, LoopTest, CheckBacklog, WaitPredicate, WaitBlock,
                      SpuriousWakeup, Collect, AcquireSem, SetValue, FreeBuffer,
                      ScatterExecuted, ReleaseSem, MemReadEx, ScatterExecute,
                      ScatterRead, callVars
  <2>7. ASSUME NEW x \in Cells, NEW v \in Vals, TargetWrite(x, v) PROVE ret'[d] # Garbage
    BY <2>1, <2>7 DEF TargetWrite, callVars
  <2>8. CASE UNCHANGED vars
    BY <2>1, <2>8 DEF vars, callVars
  <2> QED
    BY <2>2, <2>3, <2>4, <2>5, <2>6, <2>7, <2>8 DEF Next
<1>3. Inv /\ Intact /\ [Next]_vars /\ [~FreedUnderReader]_vars => Intact'
  BY IntactStep
<1> HIDE DEF Inv
<1> QED
  BY <1>1, <1>2, <1>3, Invariance, PTL DEF Spec

-----------------------------------------------------------------------------
(* The requests of a batch *)

\* Items that stay keep their requests.
LEMMA SameRequests ==
    ASSUME OneProcessPerDispatch, batch' \subseteq batch, backlog' \subseteq backlog,
           \A i \in backlog' \cup batch' : obj'[i].req = obj[i].req
    PROVE  OneProcessPerDispatch'
BY DEF OneProcessPerDispatch

\* The batch is taken from the backlog's items of one process.
LEMMA CollectOneProcess ==
    ASSUME Inv, OneProcessPerDispatch, Collect
    PROVE  OneProcessPerDispatch'
<1>1. PICK p \in Pids : batch' \subseteq OfPid(p) /\ backlog' \subseteq backlog
  BY DEF Collect
<1>2. obj' = obj /\ \A i \in batch' : i \in backlog /\ obj[i].req.pid = p
  BY <1>1 DEF Collect, OfPid
<1> QED
  BY <1>1, <1>2 DEF OneProcessPerDispatch

\* A new item takes storage that neither queue refers to, for a request the
\* backlog does not have.
LEMMA ReadNewOneProcess ==
    ASSUME Inv, OneProcessPerDispatch, NEW c \in Threads, NEW r \in Requests, ReadNew(c, r)
    PROVE  OneProcessPerDispatch'
<1>1. PICK i \in Items \ Referenced(backlog, batch, held) :
         obj' = [obj EXCEPT ![i] = NewItem(r)] /\ backlog' = backlog \cup {i}
  BY DEF ReadNew
<1>2. i \notin backlog /\ i \notin batch
  BY <1>1 DEF Referenced
<1>3. /\ obj'[i].req = r
      /\ \A j \in backlog \cup batch : obj'[j] = obj[j]
  BY <1>1, <1>2 DEF NewItem, Blank
<1>4. batch' = batch /\ \A j \in backlog : obj[j].req # r
  BY DEF ReadNew
<1> QED
  BY <1>1, <1>2, <1>3, <1>4 DEF OneProcessPerDispatch

\* A step leaves the queues and their requests as they are, except that the
\* end of a dispatch empties the batch, or it selects a batch or adds an item.
LEMMA QueueSteps ==
    ASSUME Inv, [Next]_vars
    PROVE  \/ /\ batch' \in {batch, {}} /\ backlog' = backlog
              /\ \A i \in backlog \cup batch' : obj'[i].req = obj[i].req
           \/ Collect
           \/ \E c \in Threads, r \in Requests : ReadNew(c, r)
<1> DEFINE Same == /\ batch' \in {batch, {}} /\ backlog' = backlog
                   /\ \A i \in backlog \cup batch' : obj'[i].req = obj[i].req
<1>1. ASSUME UNCHANGED <<batch, backlog, obj>> PROVE Same
  BY <1>1
<1>2. ASSUME NEW i \in Items, NEW o, o.req = obj[i].req, obj' = [obj EXCEPT ![i] = o],
             UNCHANGED <<batch, backlog>>
      PROVE  Same
  BY <1>2
<1> HIDE DEF Same
<1>3. CASE MainStep
  BY <1>1, <1>3 DEF MainStep, InitNoMap, InitVMM, Leave, SetStop, NotifyStop, JoinAndClose,
                    dispatchVars, Same
<1>4. CASE DispatchStep \/ SpuriousWakeup
  <2>1. CASE \/ LoopTest \/ CheckBacklog \/ WaitPredicate \/ WaitBlock \/ SpuriousWakeup
             \/ AcquireSem \/ ScatterExecuted
    <3>1. Same
      BY <1>1, <2>1 DEF LoopTest, CheckBacklog, WaitPredicate, WaitBlock, SpuriousWakeup, AcquireSem,
                        ScatterExecuted
    <3> QED
      BY <3>1 DEF Same
  <2>2. CASE SetValue \/ FreeBuffer
    <3>1. cur \in Items
      BY <2>2 DEF SetValue, FreeBuffer, Jump
    <3>2. Same
      BY <1>2, <2>2, <3>1 DEF SetValue, FreeBuffer, ItemType
    <3> QED
      BY <3>2 DEF Same
  <2>3. CASE \E i \in Items : MemReadEx(i) \/ ScatterExecute(i) \/ ScatterRead(i)
    <3>1. Same
      BY <1>2, <2>3 DEF MemReadEx, ScatterExecute, ScatterRead, ItemType
    <3> QED
      BY <3>1 DEF Same
  <2>4. CASE ReleaseSem
    <3>1. batch' = {} /\ backlog' = backlog /\ \A i \in backlog : obj'[i] = obj[i]
      BY <2>4, ReclaimKeeps DEF ReleaseSem, Referenced
    <3> QED
      BY <3>1
  <2> QED
    BY <1>4, <2>1, <2>2, <2>3, <2>4 DEF DispatchStep
<1>5. ASSUME NEW c \in Threads, Call(c) PROVE Same \/ \E r \in Requests : ReadNew(c, r)
  BY <1>1, <1>5 DEF Call, ReadJoin, WriteCall, QueryBegin, dispatchVars
<1>6. ASSUME NEW c \in Threads, CallStep(c) PROVE Same
  <2>1. CASE GetFuture(c) \/ GetResult(c)
    <3>1. held[c] \in Items
      BY <2>1 DEF GetFuture, GetResult, At
    <3> QED
      BY <1>2, <2>1, <3>1 DEF GetFuture, GetResult, dispatchVars, ItemType
  <2>2. CASE ReadReturn(c)
    <3>1. batch' = batch /\ backlog' = backlog /\ obj' = Reclaim(backlog, batch, held')
      BY <2>2 DEF ReadReturn, dispatchVars
    <3>2. \A i \in backlog \cup batch : i \in Items /\ i \in Referenced(backlog, batch, held')
      BY DEF Referenced
    <3>3. \A i \in backlog \cup batch : obj'[i] = obj[i]
      BY <3>1, <3>2, ReclaimKeeps
    <3> QED
      BY <3>1, <3>3 DEF Same
  <2> QED
    BY <1>1, <1>6, <2>1, <2>2 DEF CallStep, GetCached, WriteAcquire, MemWriteFails, WriteReturn,
                                  QueryEnd, MemWrite, dispatchVars
<1>7. ASSUME NEW x \in Cells, NEW v \in Vals, TargetWrite(x, v) PROVE Same
  BY <1>1, <1>7 DEF TargetWrite, dispatchVars
<1>8. CASE UNCHANGED vars
  BY <1>1, <1>8 DEF vars, dispatchVars, Same
<1> QED
  BY <1>3, <1>4, <1>5, <1>6, <1>7, <1>8 DEF Next, Same

LEMMA NextOneProcess == Inv /\ OneProcessPerDispatch /\ [Next]_vars => OneProcessPerDispatch'
<1> SUFFICES ASSUME Inv, OneProcessPerDispatch, [Next]_vars PROVE OneProcessPerDispatch'
  OBVIOUS
<1>1. CASE /\ batch' \in {batch, {}} /\ backlog' = backlog
           /\ \A i \in backlog \cup batch' : obj'[i].req = obj[i].req
  BY <1>1, SameRequests
<1> QED
  BY <1>1, QueueSteps, CollectOneProcess, ReadNewOneProcess

\* Every batch the device is asked for belongs to one process, and neither the
\* batch nor the backlog has two items for the same bytes.
THEOREM DispatchesOneProcess == Spec => []OneProcessPerDispatch
<1>1. Init => OneProcessPerDispatch
  BY DEF Init, OneProcessPerDispatch
<1> HIDE DEF Inv, OneProcessPerDispatch
<1> QED
  BY <1>1, NextOneProcess, Invariance, PTL DEF Spec
=============================================================================
