-------------------------- MODULE MemoryRefinement --------------------------
(***************************************************************************)
(* Proof that Memory implements AtomicMemory under the mapping stBar,      *)
(* valBar: a read is served at the device read of its item, a write at     *)
(* VMMDLL_MemWrite, and every other step is a call, a return or invisible. *)
(***************************************************************************)
EXTENDS MemoryProofs

\* The mapping depends on the program counters and on what the device has read
\* for the readers' items; a step that changes neither is invisible.
LEMMA Invisible ==
    ASSUME pc' = pc, held' = held, want' = want, ret' = ret, mem' = mem,
           \A c \in Threads : Reading(c) => obj'[held[c]].dev = obj[held[c]].dev
    PROVE  UNCHANGED Atomic!vars
<1>1. \A c \in Threads : St(c)' = St(c) /\ Val(c)' = Val(c)
  BY DEF St, Val, Reading
<1>2. stBar' = stBar /\ valBar' = valBar
  BY <1>1 DEF stBar, valBar
<1> QED
  BY <1>2 DEF Atomic!vars

LEMMA InitRefines == Init => Atomic!Init
BY DEF Init, Atomic!Init, stBar, valBar, St, Val, Reading, Atomic!Cells, Atomic!Cell, Cells, Cell

LEMMA MainStepRefines == MainStep => UNCHANGED Atomic!vars
<1> SUFFICES ASSUME MainStep PROVE UNCHANGED Atomic!vars
  OBVIOUS
<1>1. pc' = pc /\ held' = held /\ want' = want /\ ret' = ret /\ mem' = mem /\ obj' = obj
  BY DEF MainStep, InitNoMap, InitVMM, Leave, SetStop, NotifyStop, JoinAndClose,
         dispatchVars, callVars
<1> QED
  BY <1>1, Invisible

-----------------------------------------------------------------------------
(* The dispatch thread *)

\* A device read of item i serves every reader of i with the same outcome.
LEMMA DeviceReadServes ==
    ASSUME Inv, NEW i \in Items, i \in batch, obj[i].dev = None,
           NEW v \in DeviceRead(obj[i].req),
           obj' = [obj EXCEPT ![i].dev = v],
           UNCHANGED <<mem, callVars>>
    PROVE  Atomic!Next
<1> DEFINE C == {c \in Threads : Reading(c) /\ held[c] = i}
           r == obj[i].req
<1>1. r \in Requests /\ v # None /\ v \in {mem[Cell(r)], Failed}
  BY DeviceReadType DEF Inv, QueueInv, DeviceRead
<1>2. \A c \in Threads : Reading(c) => held[c] \in Items /\ obj[held[c]].req = want[c]
  BY DEF Inv, CallInv
<1>3. \A c \in C : St(c) = "reading" /\ want[c] = r
  BY <1>2 DEF St
<1>4. /\ obj'[i].dev = v
      /\ \A j \in Items : j # i => obj'[j] = obj[j]
  BY DEF Inv, TypeOK, ItemType
<1>5. \A c \in C : St(c)' = "served" /\ Val(c)' = v
  BY <1>1, <1>4 DEF St, Val, Reading, callVars
<1>6. \A c \in Threads \ C : St(c)' = St(c) /\ Val(c)' = Val(c)
  BY <1>2, <1>4 DEF St, Val, Reading, callVars
<1>7. /\ stBar' = [c \in Threads |-> IF c \in C THEN "served" ELSE stBar[c]]
      /\ valBar' = [c \in Threads |-> IF c \in C THEN v ELSE valBar[c]]
  BY <1>5, <1>6 DEF stBar, valBar
<1>8. Atomic!Serve(C, r)
  BY <1>1, <1>3, <1>7 DEF Atomic!Serve, Atomic!Cell, Cell, stBar, callVars
<1> QED
  BY <1>1, <1>8 DEF Atomic!Next

LEMMA DispatchStepRefines ==
    Inv /\ (DispatchStep \/ SpuriousWakeup) => Atomic!Next \/ UNCHANGED Atomic!vars
<1> SUFFICES ASSUME Inv, DispatchStep \/ SpuriousWakeup
             PROVE  Atomic!Next \/ UNCHANGED Atomic!vars
  OBVIOUS
<1> USE DEF callVars
<1>1. ASSUME NEW i \in Items, MemReadEx(i) PROVE Atomic!Next
  <2>1. i \in batch /\ obj[i].dev = None
    BY <1>1, DistinctAssumption DEF MemReadEx, Jump, Inv, DispatchInv
  <2> QED
    BY <1>1, <2>1, DeviceReadServes DEF MemReadEx
<1>2. ASSUME NEW i \in Items, ScatterExecute(i) PROVE Atomic!Next
  BY <1>2, DeviceReadServes DEF ScatterExecute
<1>3. CASE ReleaseSem
  <2>1. \A c \in Threads : Reading(c) => obj'[held[c]].dev = obj[held[c]].dev
    BY <1>3 DEF ReleaseSem, Reclaim, Referenced, Inv, CallInv
  <2> QED
    BY <1>3, <2>1, Invisible DEF ReleaseSem
<1>4. ASSUME NEW i \in Items, SetValue \/ FreeBuffer \/ ScatterRead(i)
      PROVE UNCHANGED Atomic!vars
  <2>1. \A j \in Items : obj'[j].dev = obj[j].dev
    BY <1>4 DEF SetValue, FreeBuffer, ScatterRead, Inv, TypeOK, ItemType
  <2>2. \A c \in Threads : Reading(c) => obj'[held[c]].dev = obj[held[c]].dev
    BY <2>1 DEF Inv, CallInv
  <2> QED
    BY <1>4, <2>2, Invisible DEF SetValue, FreeBuffer, ScatterRead
<1>5. CASE SetValue \/ FreeBuffer
  <2>1. cur \in Items
    BY <1>5 DEF SetValue, FreeBuffer, Jump, Inv, DispatchInv, TypeOK
  <2> QED
    BY <1>4, <1>5, <2>1
<1>6. CASE \/ LoopTest \/ CheckBacklog \/ WaitPredicate \/ WaitBlock \/ SpuriousWakeup
           \/ Collect \/ AcquireSem \/ ScatterExecuted
  <2>1. UNCHANGED <<obj, mem, callVars>>
    BY <1>6 DEF LoopTest, CheckBacklog, WaitPredicate, WaitBlock, SpuriousWakeup,
                Collect, AcquireSem, ScatterExecuted
  <2> QED
    BY <2>1, Invisible
<1> QED
  BY <1>1, <1>2, <1>3, <1>4, <1>5, <1>6 DEF DispatchStep

-----------------------------------------------------------------------------
(* The connection threads *)

\* A step of thread c alone leaves the other threads where they are.
LEMMA OnlyThread ==
    ASSUME NEW c \in Threads, NEW to, NEW h,
           Inv, pc' = [pc EXCEPT ![c] = to], held' = [held EXCEPT ![c] = h],
           \A d \in Threads \ {c} : Reading(d) => obj'[held[d]].dev = obj[held[d]].dev
    PROVE  /\ stBar' = [stBar EXCEPT ![c] = St(c)']
           /\ valBar' = [valBar EXCEPT ![c] = Val(c)']
<1>1. \A d \in Threads \ {c} : pc'[d] = pc[d] /\ held'[d] = held[d]
  BY DEF Inv, TypeOK
<1>2. \A d \in Threads \ {c} : St(d)' = St(d) /\ Val(d)' = Val(d)
  BY <1>1 DEF St, Val, Reading
<1> QED
  BY <1>2 DEF stBar, valBar

\* Memory::read becomes visible as the invocation of a read.
LEMMA ReadRefines ==
    \A c \in Threads, r \in Requests :
        Inv /\ (ReadJoin(c, r) \/ ReadNew(c, r)) => Atomic!Next
<1> SUFFICES ASSUME NEW c \in Threads, NEW r \in Requests, Inv,
                    ReadJoin(c, r) \/ ReadNew(c, r)
             PROVE  Atomic!Next
  OBVIOUS
<1> USE DEF At, Asks
<1>1. PICK i \in Items :
        /\ held' = [held EXCEPT ![c] = i]
        /\ obj'[i].dev = None
        /\ \A j \in Items : j # i => obj'[j].dev = obj[j].dev
        /\ \A d \in Threads \ {c} : held[d] = i => obj'[i].dev = obj[i].dev
  <2>1. CASE ReadJoin(c, r)
    BY <2>1 DEF ReadJoin, Inv, QueueInv, TypeOK
  <2>2. CASE ReadNew(c, r)
    <3>1. PICK i \in Items \ Referenced(backlog, batch, held) :
             obj' = [obj EXCEPT ![i] = NewItem(r)] /\ held' = [held EXCEPT ![c] = i]
      BY <2>2 DEF ReadNew
    <3>2. \A d \in Threads : held[d] # i
      BY <3>1 DEF Referenced
    <3>3. obj'[i].dev = None /\ \A j \in Items : j # i => obj'[j] = obj[j]
      BY <3>1 DEF NewItem, Blank, Inv, TypeOK
    <3> QED
      BY <3>1, <3>2, <3>3
  <2> QED
    BY <2>1, <2>2
<1>2. /\ pc' = [pc EXCEPT ![c] = "get"] /\ pc[c] = "idle"
      /\ want' = [want EXCEPT ![c] = r] /\ ret' = [ret EXCEPT ![c] = None]
      /\ mem' = mem
  BY DEF ReadJoin, ReadNew
<1>3. \A d \in Threads \ {c} : Reading(d) => obj'[held[d]].dev = obj[held[d]].dev
  BY <1>1 DEF Inv, CallInv
<1>4. /\ stBar' = [stBar EXCEPT ![c] = St(c)']
      /\ valBar' = [valBar EXCEPT ![c] = Val(c)']
  BY <1>1, <1>2, <1>3, OnlyThread
<1>5. pc'[c] = "get" /\ held'[c] = i
  BY <1>1, <1>2 DEF Inv, TypeOK
<1>6. St(c) = "idle" /\ Val(c) = None /\ St(c)' = "reading" /\ Val(c)' = None
  BY <1>1, <1>2, <1>5 DEF St, Val, Reading
<1>7. Atomic!Invoke(c, r, "reading")
  BY <1>2, <1>4, <1>6 DEF Atomic!Invoke, stBar, valBar
<1> QED
  BY <1>7 DEF Atomic!Next

\* The steps inside BacklogItem::get are invisible.
LEMMA GetRefines ==
    \A c \in Threads : Inv /\ (GetFuture(c) \/ GetCached(c) \/ GetResult(c))
                          => UNCHANGED Atomic!vars
<1> SUFFICES ASSUME NEW c \in Threads, Inv, GetFuture(c) \/ GetCached(c) \/ GetResult(c)
             PROVE  UNCHANGED Atomic!vars
  OBVIOUS
<1>1. /\ \A j \in Items : obj'[j].dev = obj[j].dev
      /\ held' = held /\ want' = want /\ ret' = ret /\ mem' = mem
  BY DEF GetFuture, GetCached, GetResult, Inv, TypeOK, ItemType
<1>2. \A d \in Threads : Reading(d)' <=> Reading(d)
  BY DEF GetFuture, GetCached, GetResult, At, Reading, Inv, TypeOK
<1>3. \A d \in Threads : ~Reading(d) => pc'[d] = pc[d]
  BY DEF GetFuture, GetCached, GetResult, At, Reading, Inv, TypeOK
<1>4. \A d \in Threads : Reading(d) => held[d] \in Items
  BY DEF Inv, CallInv
<1>5. \A d \in Threads : St(d)' = St(d) /\ Val(d)' = Val(d)
  BY <1>1, <1>2, <1>3, <1>4 DEF St, Val
<1> QED
  BY <1>1, <1>5 DEF Atomic!vars, stBar, valBar

\* The return of a read hands over what the device read, or garbage.
LEMMA ReadReturnRefines == \A c \in Threads : Inv /\ ReadReturn(c) => Atomic!Next
<1> SUFFICES ASSUME NEW c \in Threads, Inv, ReadReturn(c) PROVE Atomic!Next
  OBVIOUS
<1> DEFINE v == obj[held[c]].data
<1>1. /\ pc' = [pc EXCEPT ![c] = "idle"] /\ pc[c] = "copy"
      /\ held' = [held EXCEPT ![c] = None]
      /\ want' = [want EXCEPT ![c] = None]
      /\ ret' = [ret EXCEPT ![c] = v]
      /\ mem' = mem
  BY DEF ReadReturn, At, Returns
<1>2. held[c] \in Items /\ PromiseRead(held[c])
  BY <1>1 DEF Inv, CallInv, Reading
<1>3. obj[held[c]].dev # None /\ v \in {obj[held[c]].dev} \cup
                                      (IF ScatterReadThreshold = 0 THEN {} ELSE {Garbage})
  BY <1>2 DEF Inv, ItemInv
<1>4. \A d \in Threads \ {c} : Reading(d) => obj'[held[d]].dev = obj[held[d]].dev
  <2> SUFFICES ASSUME NEW d \in Threads \ {c}, Reading(d)
               PROVE  obj'[held[d]].dev = obj[held[d]].dev
    OBVIOUS
  <2>1. held'[d] = held[d] /\ held[d] \in Items
    BY <1>1 DEF Inv, TypeOK, CallInv
  <2>2. held'[d] \in Referenced(backlog, batch, held')
    BY DEF Referenced
  <2> QED
    BY <2>1, <2>2 DEF ReadReturn, Reclaim
<1>5. /\ stBar' = [stBar EXCEPT ![c] = St(c)']
      /\ valBar' = [valBar EXCEPT ![c] = Val(c)']
  BY <1>1, <1>4, OnlyThread
<1>6. /\ St(c) = "served" /\ Val(c) = obj[held[c]].dev
      /\ St(c)' = "idle" /\ Val(c)' = None
  BY <1>1, <1>3 DEF St, Val, Reading, Inv, TypeOK
<1>7. Atomic!Return(c)
  BY <1>1, <1>3, <1>5, <1>6 DEF Atomic!Return, stBar, valBar
<1> QED
  BY <1>7 DEF Atomic!Next

\* A step of a write or a query moves thread c from one program counter to
\* another and touches no item.
LEMMA CallMoves ==
    ASSUME NEW c \in Threads, NEW from, NEW to, Inv, At(c, from, to), UNCHANGED <<obj, held>>
    PROVE  /\ stBar' = [stBar EXCEPT ![c] = St(c)']
           /\ valBar' = [valBar EXCEPT ![c] = Val(c)']
           /\ stBar[c] = St(c) /\ valBar[c] = Val(c)
           /\ pc[c] = from /\ pc'[c] = to
<1>1. held' = [held EXCEPT ![c] = held[c]]
  BY DEF Inv, TypeOK
<1>2. pc[c] = from /\ pc'[c] = to
  BY DEF At, Inv, TypeOK
<1>3. stBar[c] = St(c) /\ valBar[c] = Val(c)
  BY DEF stBar, valBar
<1> QED
  BY <1>1, <1>2, <1>3, OnlyThread DEF At

\* An invisible step of thread c.
LEMMA Stutters ==
    ASSUME NEW c \in Threads, stBar' = [stBar EXCEPT ![c] = stBar[c]],
           valBar' = [valBar EXCEPT ![c] = valBar[c]], UNCHANGED <<mem, want, ret>>
    PROVE  UNCHANGED Atomic!vars
BY DEF Atomic!vars, stBar, valBar

\* Memory::write is invoked, takes effect at VMMDLL_MemWrite, and returns;
\* the queries read nothing of the target's memory.
LEMMA WriteRefines ==
    \A c \in Threads :
        Inv /\ (\/ \E r \in Requests : WriteCall(c, r)
                \/ WriteAcquire(c) \/ MemWriteFails(c) \/ WriteReturn(c)
                \/ \E v \in Vals : MemWrite(c, v)
                \/ QueryBegin(c) \/ QueryEnd(c)) => Atomic!Next \/ UNCHANGED Atomic!vars
<1> SUFFICES ASSUME NEW c \in Threads, Inv
             PROVE  (\/ \E r \in Requests : WriteCall(c, r)
                     \/ WriteAcquire(c) \/ MemWriteFails(c) \/ WriteReturn(c)
                     \/ \E v \in Vals : MemWrite(c, v)
                     \/ QueryBegin(c) \/ QueryEnd(c)) => Atomic!Next \/ UNCHANGED Atomic!vars
  OBVIOUS
<1> USE DEF St, Val, Reading
<1>1. ASSUME NEW r \in Requests, WriteCall(c, r) PROVE Atomic!Next
  <2>1. /\ stBar' = [stBar EXCEPT ![c] = "writing"] /\ stBar[c] = "idle"
        /\ valBar' = [valBar EXCEPT ![c] = valBar[c]]
    BY <1>1, CallMoves DEF WriteCall
  <2>2. Atomic!Invoke(c, r, "writing")
    BY <1>1, <2>1 DEF WriteCall, Asks, Atomic!Invoke, valBar
  <2> QED
    BY <2>2 DEF Atomic!Next
<1>2. CASE WriteAcquire(c)
  <2>1. /\ stBar' = [stBar EXCEPT ![c] = stBar[c]]
        /\ valBar' = [valBar EXCEPT ![c] = valBar[c]]
    BY <1>2, CallMoves DEF WriteAcquire
  <2> QED
    BY <1>2, <2>1, Stutters DEF WriteAcquire
<1>3. CASE MemWriteFails(c)
  <2>1. /\ stBar' = [stBar EXCEPT ![c] = "served"] /\ stBar[c] = "writing"
        /\ valBar' = [valBar EXCEPT ![c] = Failed]
    BY <1>3, CallMoves DEF MemWriteFails
  <2>2. Atomic!Apply(c)
    BY <1>3, <2>1 DEF MemWriteFails, Atomic!Apply
  <2> QED
    BY <2>2 DEF Atomic!Next
<1>4. ASSUME NEW v \in Vals, MemWrite(c, v) PROVE Atomic!Next
  <2>1. /\ stBar' = [stBar EXCEPT ![c] = "served"] /\ stBar[c] = "writing"
        /\ valBar' = [valBar EXCEPT ![c] = Written]
    BY <1>4, CallMoves DEF MemWrite
  <2>2. Atomic!Apply(c)
    BY <1>4, <2>1 DEF MemWrite, Atomic!Apply, Atomic!Cell, Cell
  <2> QED
    BY <2>2 DEF Atomic!Next
<1>5. CASE WriteReturn(c)
  <2>1. PICK v \in {Written, Failed} : /\ \/ At(c, "written", "idle") /\ v = Written
                                          \/ At(c, "unwritten", "idle") /\ v = Failed
                                       /\ Returns(c, v)
    BY <1>5 DEF WriteReturn
  <2>2. /\ stBar' = [stBar EXCEPT ![c] = "idle"] /\ stBar[c] = "served"
        /\ valBar' = [valBar EXCEPT ![c] = None] /\ valBar[c] = v
    BY <1>5, <2>1, CallMoves DEF WriteReturn
  <2>3. Atomic!Return(c)
    BY <1>5, <2>1, <2>2 DEF WriteReturn, Returns, Atomic!Return
  <2> QED
    BY <2>3 DEF Atomic!Next
<1>6. CASE QueryBegin(c)
  <2>1. /\ stBar' = [stBar EXCEPT ![c] = stBar[c]] /\ stBar[c] = "idle"
        /\ valBar' = [valBar EXCEPT ![c] = valBar[c]]
    BY <1>6, CallMoves DEF QueryBegin
  <2>2. Atomic!Forget(c)
    <3>1. UNCHANGED <<stBar, valBar>>
      BY <2>1 DEF stBar, valBar
    <3>2. stBar[c] = "idle"
      BY <2>1
    <3> QED
      BY <1>6, <3>1, <3>2 DEF QueryBegin, Atomic!Forget
  <2> QED
    BY <2>2 DEF Atomic!Next
<1>7. CASE QueryEnd(c)
  <2>1. /\ stBar' = [stBar EXCEPT ![c] = stBar[c]]
        /\ valBar' = [valBar EXCEPT ![c] = valBar[c]]
    BY <1>7, CallMoves DEF QueryEnd
  <2> QED
    BY <1>7, <2>1, Stutters DEF QueryEnd
<1> QED
  BY <1>1, <1>2, <1>3, <1>4, <1>5, <1>6, <1>7

LEMMA TargetWriteRefines ==
    \A x \in Cells, v \in Vals : TargetWrite(x, v) => Atomic!Next
<1> SUFFICES ASSUME NEW x \in Cells, NEW v \in Vals, TargetWrite(x, v) PROVE Atomic!Next
  OBVIOUS
<1>1. stBar' = stBar /\ valBar' = valBar
  BY DEF TargetWrite, callVars, stBar, valBar, St, Val, Reading
<1>2. Atomic!TargetWrite(x, v)
  BY <1>1 DEF TargetWrite, callVars, Atomic!TargetWrite
<1> QED
  BY <1>2 DEF Atomic!Next, Atomic!Cells, Atomic!Cell, Cells, Cell

-----------------------------------------------------------------------------
\* Every step of Memory is a step of AtomicMemory or invisible to it.
LEMMA NextRefines == Inv /\ [Next]_vars => [Atomic!Next]_Atomic!vars
<1> SUFFICES ASSUME Inv, [Next]_vars PROVE Atomic!Next \/ UNCHANGED Atomic!vars
  OBVIOUS
<1>1. CASE MainStep
  BY <1>1, MainStepRefines
<1>2. CASE DispatchStep \/ SpuriousWakeup
  BY <1>2, DispatchStepRefines
<1>3. ASSUME NEW c \in Threads, Call(c) PROVE Atomic!Next \/ UNCHANGED Atomic!vars
  BY <1>3, ReadRefines, WriteRefines DEF Call
<1>4. ASSUME NEW c \in Threads, CallStep(c) PROVE Atomic!Next \/ UNCHANGED Atomic!vars
  BY <1>4, GetRefines, ReadReturnRefines, WriteRefines DEF CallStep
<1>5. ASSUME NEW x \in Cells, NEW v \in Vals, TargetWrite(x, v) PROVE Atomic!Next
  BY <1>5, TargetWriteRefines
<1>6. CASE UNCHANGED vars
  BY <1>6, Invisible DEF vars, callVars
<1> QED
  BY <1>1, <1>2, <1>3, <1>4, <1>5, <1>6 DEF Next

\* The memory service implements atomic reads and writes, for every number of
\* threads, requests and items and every dispatch limit.
THEOREM Refinement == Spec => ImplementsAtomicMemory
BY Invariance, InitRefines, NextRefines, PTL
   DEF Spec, ImplementsAtomicMemory, Atomic!Spec
=============================================================================
