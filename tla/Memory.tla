------------------------------- MODULE Memory -------------------------------
(***************************************************************************)
(* The memory service of ceserver-pcileech (Memory.cpp, Memory.h).         *)
(*                                                                         *)
(* Connection threads call read, write and the query functions.  A read is *)
(* put in the backlog, or joins the read of the same key that is already   *)
(* there; one dispatch thread takes batches of one process id out of the   *)
(* backlog, performs them on the DMA device and fulfils the promises the   *)
(* readers wait on.  The main thread initialises the service and, when it  *)
(* leaves its scope, shuts it down.                                        *)
(*                                                                         *)
(* One action is one critical section, one device call or one blocking     *)
(* point of the code.  Critical sections of mtx are single actions, so mtx *)
(* needs no variable except for the time between the evaluation of the     *)
(* wait predicate and the block (dpc = "blocking"), when the dispatch      *)
(* thread holds it and shutdown, which takes no lock, can still run.       *)
(***************************************************************************)
EXTENDS Integers, FiniteSets, FiniteSetsExt

CONSTANTS
    Threads,              \* connection threads
    Items,                \* storage for BacklogItem objects
    Requests,             \* records [pid, addr, size]: the keys "pid:addr:size"
    Vals,                 \* contents of memory
    MaxDispatchSize,      \* MAX_DISPATCH_SIZE
    MaxBytesPerDispatch,  \* MAX_BYTES_PER_DISPATCH
    ScatterReadThreshold, \* SCATTER_READ_THRESHOLD
    None,                 \* nullptr, and a value not there yet
    Failed,               \* a device call that failed: 0 bytes read, or -1
    Written,              \* a write that returned its size
    Garbage               \* what is read from a buffer after it was freed

ASSUME LimitsAssumption ==
    /\ MaxDispatchSize \in Nat \ {0}
    /\ MaxBytesPerDispatch \in Nat
    /\ ScatterReadThreshold \in Nat

ASSUME FiniteAssumption == IsFiniteSet(Items)

ASSUME SizesAssumption == \A r \in Requests : r.size \in Nat

ASSUME DistinctAssumption ==
    /\ None \notin Items
    /\ None \notin Requests
    /\ None \notin Vals \cup {Failed, Written, Garbage}
    /\ Failed \notin Vals \cup {Written, Garbage}
    /\ Garbage \notin Vals \cup {Written}

VARIABLES
    life,     \* where main is in the life of the Memory object
    hVMM,     \* the device handle: "null", "open" or "closed"
    bStop,    \* bStop
    dpc,      \* where the dispatch thread is
    backlog,  \* the items of the backlog map (the key is the item's request)
    batch,    \* dispatchBuffer
    cur,      \* the item of the sequential loop between read and free
    obj,      \* obj[i]: the BacklogItem stored in i
    sem,      \* the binary semaphore
    mem,      \* contents of the target's memory
    pc,       \* pc[c]: where thread c is in its call
    held,     \* held[c]: the shared_ptr<BacklogItem> of the read of thread c
    want,     \* want[c]: the request thread c is waiting for
    ret       \* ret[c]: what the latest call of c returned, until the next one

mainVars == <<life, hVMM, bStop>>
dispatchVars == <<dpc, backlog, batch, cur>>
callVars == <<pc, held, want, ret>>
vars == <<mainVars, dispatchVars, obj, sem, mem, callVars>>

-----------------------------------------------------------------------------
(* Backlog items *)

\* Storage no BacklogItem occupies.
Blank == [req |-> None, dev |-> None, buf |-> "none", futures |-> 0, data |-> None]

\* A fresh BacklogItem.  dev is what the device read for it, buf the promise
\* buffer handed over by set_value ("none" before), futures how often
\* get_future was called, data the copy kept for all readers (None until
\* promiseRead).
NewItem(r) == [Blank EXCEPT !.req = r]

Fulfilled(i) == obj[i].buf # "none"
PromiseRead(i) == obj[i].data # None

\* Mutant of Locked: get() does not lock the item.
NeverLocked(i) == FALSE

\* The item mutex is held across the wait for the future.
Locked(i) == \E c \in Threads : held[c] = i /\ pc[c] = "future"

\* Items some shared_ptr refers to.
Referenced(q, b, h) == q \cup b \cup {h[c] : c \in Threads}

\* Mutant of Reclaim: the readers hold plain pointers, so only the queues keep items alive.
ReclaimWithoutReaders(q, b, h) == [i \in Items |-> IF i \in q \cup b THEN obj[i] ELSE Blank]

\* The item objects after the last shared_ptr of some of them went away.
Reclaim(q, b, h) == [i \in Items |-> IF i \in Referenced(q, b, h) THEN obj[i] ELSE Blank]

Cell(r) == <<r.pid, r.addr>>
Cells == {Cell(r) : r \in Requests}

ItemType == [req : Requests \cup {None},
             dev : Vals \cup {None, Failed},
             buf : {"none", "live", "freed"},
             futures : Nat,
             data : Vals \cup {None, Failed, Garbage}]

-----------------------------------------------------------------------------
(* Batch selection *)

Pids == {obj[i].req.pid : i \in backlog}

\* Mutant of OfPid: items of other processes are not skipped.
OfAnyPid(p) == backlog

OfPid(p) == {i \in backlog : obj[i].req.pid = p}
Bytes(D) == MapThenSumSet(LAMBDA i : obj[i].req.size, D)

\* Mutant of Fits: the byte limit compared with > in place of >=.
FitsUpToLimit(n) == n <= MaxBytesPerDispatch

Fits(n) == n < MaxBytesPerDispatch

\* D is a batch the selection loop can produce for process p, the one of the
\* first item of the unordered map, given that the order of the map is
\* unspecified: the loop takes items until one would reach the byte limit or
\* the batch is full.
Batch(p, D) ==
    /\ D \subseteq OfPid(p)
    /\ Cardinality(D) <= MaxDispatchSize
    /\ D # {} => Fits(Bytes(D))
    /\ \/ D = OfPid(p)
       \/ Cardinality(D) = MaxDispatchSize
       \/ \E x \in OfPid(p) \ D : ~Fits(Bytes(D) + obj[x].req.size)

\* One iteration of that loop as the code writes it: the step of item i from
\* the state l, which a break leaves as it is for the items still to come.
LoopBody(i, p, l) ==
    LET total == l.requestedSoFar + obj[i].req.size
        D == l.dispatchBuffer \cup {i}
    IN  IF l.done \/ obj[i].req.pid # p THEN l
        ELSE IF total >= MaxBytesPerDispatch THEN [l EXCEPT !.done = TRUE]
        ELSE [dispatchBuffer |-> D, requestedSoFar |-> total, done |-> Cardinality(D) >= MaxDispatchSize]

\* What the loop for process p selects when the unordered map has the order s.
SelectLoop(s, p) ==
    LET after[k \in 0 .. Cardinality(backlog)] ==
            IF k = 0 THEN [dispatchBuffer |-> {}, requestedSoFar |-> 0, done |-> FALSE]
            ELSE LoopBody(s[k], p, after[k - 1])
    IN  after[Cardinality(backlog)].dispatchBuffer

-----------------------------------------------------------------------------
Init ==
    /\ life = "new"
    /\ hVMM = "null"
    /\ bStop = FALSE
    /\ dpc = "none"
    /\ backlog = {}
    /\ batch = {}
    /\ cur = None
    /\ obj = [i \in Items |-> Blank]
    /\ sem = 1
    /\ mem \in [Cells -> Vals]
    /\ pc = [c \in Threads |-> "idle"]
    /\ held = [c \in Threads |-> None]
    /\ want = [c \in Threads |-> None]
    /\ ret = [c \in Threads |-> None]

-----------------------------------------------------------------------------
(* The main thread: Memory::init, ~Memory and Memory::shutdown *)

\* Mutant of Notified: the notification is left out.
NotNotified == dpc

\* notify_all on backlogPush: a blocked dispatch thread re-evaluates.
Notified == IF dpc = "asleep" THEN "pred" ELSE dpc

\* generateMemoryMap failed; main gives up and the Memory object is destroyed.
InitNoMap ==
    /\ life = "new"
    /\ life' = "closing"
    /\ UNCHANGED <<hVMM, bStop, dispatchVars, obj, sem, mem, callVars>>

\* VMMDLL_Initialize opened the device (h = "open") or failed (h = "null");
\* the dispatch thread is started in both cases.
InitVMM(h) ==
    /\ life = "new"
    /\ hVMM' = h
    /\ bStop' = FALSE
    /\ dpc' = "top"
    /\ life' = IF h = "open" THEN "serving" ELSE "closing"
    /\ UNCHANGED <<backlog, batch, cur, obj, sem, mem, callVars>>

\* Mutant of Idle: a connection thread that waits for a read is not waited for.
IdleOrReading == \A c \in Threads : pc[c] \in {"idle", "get", "future"}

\* No connection thread is in a call.
Idle == \A c \in Threads : pc[c] = "idle"

\* main leaves: the server did not start, or every connection thread has been
\* joined.
Leave ==
    /\ life = "serving"
    /\ Idle
    /\ life' = "closing"
    /\ UNCHANGED <<hVMM, bStop, dispatchVars, obj, sem, mem, callVars>>

\* shutdown sets bStop without holding mtx ...
SetStop ==
    /\ life = "closing"
    /\ bStop' = TRUE
    /\ life' = "notify"
    /\ UNCHANGED <<hVMM, dispatchVars, obj, sem, mem, callVars>>

\* ... and notifies without holding it: a dispatch thread that has evaluated
\* the predicate and not blocked yet does not notice.
NotifyStop ==
    /\ life = "notify"
    /\ dpc' = Notified
    /\ life' = "joining"
    /\ UNCHANGED <<hVMM, bStop, backlog, batch, cur, obj, sem, mem, callVars>>

\* The device handle after the destructor has closed it.
CloseVMM == IF hVMM = "open" THEN "closed" ELSE hVMM

\* Mutant of JoinAndClose: the device is closed without joining the dispatch thread.
CloseWithoutJoin ==
    /\ life = "joining"
    /\ hVMM' = CloseVMM
    /\ life' = "closed"
    /\ UNCHANGED <<bStop, dispatchVars, obj, sem, mem, callVars>>

\* The dispatch thread, if there is one, has been joined; the device is closed.
JoinAndClose ==
    /\ life = "joining"
    /\ dpc \in {"none", "exited"}
    /\ dpc' = "none"
    /\ hVMM' = CloseVMM
    /\ life' = "closed"
    /\ UNCHANGED <<bStop, backlog, batch, cur, obj, sem, mem, callVars>>

-----------------------------------------------------------------------------
(* The dispatch thread: Memory::dispatchLoop *)

Jump(from, to) == dpc = from /\ dpc' = to

\* while (!bStop)
LoopTest ==
    /\ Jump("top", IF bStop THEN "exited" ELSE "check")
    /\ UNCHANGED <<mainVars, backlog, batch, cur, obj, sem, mem, callVars>>

\* lock; is the backlog empty?; unlock
CheckBacklog ==
    /\ Jump("check", IF backlog = {} THEN "pred" ELSE "build")
    /\ UNCHANGED <<mainVars, backlog, batch, cur, obj, sem, mem, callVars>>

\* Mutant of WaitPredicate: no continue after the wait, which also ends when bStop is set.
WaitThenBuild ==
    /\ Jump("pred", IF bStop \/ backlog # {} THEN "build" ELSE "blocking")
    /\ UNCHANGED <<mainVars, backlog, batch, cur, obj, sem, mem, callVars>>

\* The predicate of the wait, evaluated under mtx.
WaitPredicate ==
    /\ Jump("pred", IF bStop \/ backlog # {} THEN "top" ELSE "blocking")
    /\ UNCHANGED <<mainVars, backlog, batch, cur, obj, sem, mem, callVars>>

\* The wait blocks and releases mtx in one step ...
WaitBlock ==
    /\ Jump("blocking", "asleep")
    /\ UNCHANGED <<mainVars, backlog, batch, cur, obj, sem, mem, callVars>>

\* ... and may wake up without having been notified.
SpuriousWakeup ==
    /\ Jump("asleep", "pred")
    /\ UNCHANGED <<mainVars, backlog, batch, cur, obj, sem, mem, callVars>>

\* Mutant of Left: every item of the process is erased, selected or not.
LeftByProcess(p, D) == backlog \ OfPid(p)

\* The backlog after the batch D for process p was erased from it.
Left(p, D) == backlog \ D

\* After some time of building a backlog without mtx: a batch for one process
\* is taken out of the backlog.
Collect ==
    /\ Jump("build", "acquire")
    /\ \E p \in Pids : \E D \in SUBSET OfPid(p) :
          /\ Batch(p, D)
          /\ batch' = D
          /\ backlog' = Left(p, D)
    /\ UNCHANGED <<mainVars, cur, obj, sem, mem, callVars>>

\* Mutant of TakeSem: try_acquire, without a look at its result.
TakeSemAnyway == sem' = 0

\* sem.acquire() waits for the semaphore.
TakeSem == sem = 1 /\ sem' = 0

\* The task started with std::async, whose future the loop waits for at once.
AcquireSem ==
    /\ Jump("acquire",
            IF Cardinality(batch) <= ScatterReadThreshold THEN "sequential" ELSE "execute")
    /\ TakeSem
    /\ UNCHANGED <<mainVars, backlog, batch, cur, obj, mem, callVars>>

\* What a device read of request r may give.
DeviceRead(r) == {mem[Cell(r)], Failed}

\* VMMDLL_MemReadEx for the next item of the sequential loop.
MemReadEx(i) ==
    /\ Jump("sequential", "setvalue")
    /\ i \in batch /\ ~Fulfilled(i)
    /\ cur' = i
    /\ \E v \in DeviceRead(obj[i].req) : obj' = [obj EXCEPT ![i].dev = v]
    /\ UNCHANGED <<mainVars, backlog, batch, sem, mem, callVars>>

\* promise.set_value hands the buffer itself to the readers ...
SetValue ==
    /\ Jump("setvalue", "free")
    /\ obj' = [obj EXCEPT ![cur].buf = "live"]
    /\ UNCHANGED <<mainVars, backlog, batch, cur, sem, mem, callVars>>

\* ... and the loop frees it.
FreeBuffer ==
    /\ Jump("free", "sequential")
    /\ obj' = [obj EXCEPT ![cur].buf = "freed"]
    /\ cur' = None
    /\ UNCHANGED <<mainVars, backlog, batch, sem, mem, callVars>>

\* VMMDLL_Scatter_Execute: the device reads the prepared items, each at its
\* own time.
ScatterExecute(i) ==
    /\ Jump("execute", "execute")
    /\ i \in batch /\ obj[i].dev = None
    /\ \E v \in DeviceRead(obj[i].req) : obj' = [obj EXCEPT ![i].dev = v]
    /\ UNCHANGED <<mainVars, backlog, batch, cur, sem, mem, callVars>>

ScatterExecuted ==
    /\ Jump("execute", "fulfil")
    /\ \A i \in batch : obj[i].dev # None
    /\ UNCHANGED <<mainVars, backlog, batch, cur, obj, sem, mem, callVars>>

\* VMMDLL_Scatter_Read and set_value; this buffer is never freed.
ScatterRead(i) ==
    /\ Jump("fulfil", "fulfil")
    /\ i \in batch /\ ~Fulfilled(i)
    /\ obj' = [obj EXCEPT ![i].buf = "live"]
    /\ UNCHANGED <<mainVars, backlog, batch, cur, sem, mem, callVars>>

\* The dispatch is over: the semaphore is released and dispatchBuffer drops
\* its items.
ReleaseSem ==
    /\ dpc \in {"sequential", "fulfil"}
    /\ \A i \in batch : Fulfilled(i)
    /\ dpc' = "top"
    /\ sem' = 1
    /\ batch' = {}
    /\ obj' = Reclaim(backlog, {}, held)
    /\ UNCHANGED <<mainVars, backlog, cur, mem, callVars>>

-----------------------------------------------------------------------------
(* Connection threads: Memory::read and BacklogItem::get *)

MtxFree == dpc # "blocking"

At(c, from, to) == pc[c] = from /\ pc' = [pc EXCEPT ![c] = to]

\* Thread c calls with request r; its call returns v.
Asks(c, r) == want' = [want EXCEPT ![c] = r] /\ ret' = [ret EXCEPT ![c] = None]
Returns(c, v) == want' = [want EXCEPT ![c] = None] /\ ret' = [ret EXCEPT ![c] = v]

\* Mutant of ReadJoin: a read also joins an item that is being dispatched.
ReadJoinDispatched(c, r) ==
    /\ life = "serving" /\ MtxFree
    /\ At(c, "idle", "get")
    /\ \E i \in backlog \cup batch :
          /\ obj[i].req = r
          /\ held' = [held EXCEPT ![c] = i]
    /\ Asks(c, r)
    /\ UNCHANGED <<mainVars, dispatchVars, obj, sem, mem>>

\* The key is in the backlog: join the waiting item.
ReadJoin(c, r) ==
    /\ life = "serving" /\ MtxFree
    /\ At(c, "idle", "get")
    /\ \E i \in backlog :
          /\ obj[i].req = r
          /\ held' = [held EXCEPT ![c] = i]
    /\ Asks(c, r)
    /\ UNCHANGED <<mainVars, dispatchVars, obj, sem, mem>>

\* The key is not there: a new item is put in the backlog and the dispatch
\* thread notified, under mtx.
ReadNew(c, r) ==
    /\ life = "serving" /\ MtxFree
    /\ At(c, "idle", "get")
    /\ \A i \in backlog : obj[i].req # r
    /\ \E i \in Items \ Referenced(backlog, batch, held) :
          /\ obj' = [obj EXCEPT ![i] = NewItem(r)]
          /\ held' = [held EXCEPT ![c] = i]
          /\ backlog' = backlog \cup {i}
    /\ dpc' = Notified
    /\ Asks(c, r)
    /\ UNCHANGED <<mainVars, batch, cur, sem, mem>>

\* get() locks the item.  The first reader takes the future and waits for it
\* with the lock held ...
GetFuture(c) ==
    LET i == held[c] IN
    /\ At(c, "get", "future")
    /\ ~Locked(i) /\ ~PromiseRead(i)
    /\ obj' = [obj EXCEPT ![i].futures = @ + 1]
    /\ UNCHANGED <<mainVars, dispatchVars, sem, mem, held, want, ret>>

\* ... the others find the data already copied.
GetCached(c) ==
    LET i == held[c] IN
    /\ At(c, "get", "copy")
    /\ ~Locked(i) /\ PromiseRead(i)
    /\ UNCHANGED <<mainVars, dispatchVars, obj, sem, mem, held, want, ret>>

\* What the memcpy from the promise buffer of item i can give: a failed read
\* has length 0, and a buffer that may have been freed meanwhile holds
\* anything.
Copied(i) == IF obj[i].dev = Failed THEN {Failed}
             ELSE IF obj[i].buf = "live" THEN {obj[i].dev}
             ELSE {obj[i].dev, Garbage}

\* The promise is fulfilled: the waiting reader copies the buffer.
GetResult(c) ==
    LET i == held[c] IN
    /\ At(c, "future", "copy")
    /\ Fulfilled(i)
    /\ \E v \in Copied(i) : obj' = [obj EXCEPT ![i].data = v]
    /\ UNCHANGED <<mainVars, dispatchVars, sem, mem, held, want, ret>>

\* read copies the item's data to the caller and drops its shared_ptr.
ReadReturn(c) ==
    /\ At(c, "copy", "idle")
    /\ Returns(c, obj[held[c]].data)
    /\ held' = [held EXCEPT ![c] = None]
    /\ obj' = Reclaim(backlog, batch, held')
    /\ UNCHANGED <<mainVars, dispatchVars, sem, mem>>

-----------------------------------------------------------------------------
(* Connection threads: Memory::write and the query functions *)

WriteCall(c, r) ==
    /\ life = "serving"
    /\ At(c, "idle", "wacquire")
    /\ Asks(c, r)
    /\ UNCHANGED <<mainVars, dispatchVars, obj, sem, mem, held>>

WriteAcquire(c) ==
    /\ At(c, "wacquire", "wdevice")
    /\ TakeSem
    /\ UNCHANGED <<mainVars, dispatchVars, obj, mem, held, want, ret>>

\* VMMDLL_MemWrite succeeds ...
MemWrite(c, v) ==
    /\ At(c, "wdevice", "written")
    /\ mem' = [mem EXCEPT ![Cell(want[c])] = v]
    /\ UNCHANGED <<mainVars, dispatchVars, obj, sem, held, want, ret>>

\* ... or fails.
MemWriteFails(c) ==
    /\ At(c, "wdevice", "unwritten")
    /\ UNCHANGED <<mainVars, dispatchVars, obj, sem, mem, held, want, ret>>

\* Mutant of WriteReturn: the failed branch does not return, so it releases twice.
WriteReturnReleasingTwice(c) ==
    /\ \/ At(c, "written", "idle") /\ Returns(c, Written) /\ sem' = sem + 1
       \/ At(c, "unwritten", "idle") /\ Returns(c, Failed) /\ sem' = sem + 2
    /\ UNCHANGED <<mainVars, dispatchVars, obj, mem, held>>

\* Mutant of WriteReturn: the failed branch forgets to release.
WriteReturnKeepingSem(c) ==
    /\ \/ At(c, "written", "idle") /\ Returns(c, Written) /\ sem' = 1
       \/ At(c, "unwritten", "idle") /\ Returns(c, Failed) /\ UNCHANGED sem
    /\ UNCHANGED <<mainVars, dispatchVars, obj, mem, held>>

\* Both branches release the semaphore before they return.
WriteReturn(c) ==
    /\ \/ At(c, "written", "idle") /\ Returns(c, Written)
       \/ At(c, "unwritten", "idle") /\ Returns(c, Failed)
    /\ sem' = 1
    /\ UNCHANGED <<mainVars, dispatchVars, obj, mem, held>>

\* getProcessSnapshot, getModuleSnapshot, getThreadSnapshot, getMemoryModel:
\* calls into the device library that do not take the semaphore.
QueryBegin(c) ==
    /\ life = "serving"
    /\ At(c, "idle", "query")
    /\ ret' = [ret EXCEPT ![c] = None]
    /\ UNCHANGED <<mainVars, dispatchVars, obj, sem, mem, held, want>>

QueryEnd(c) ==
    /\ At(c, "query", "idle")
    /\ UNCHANGED <<mainVars, dispatchVars, obj, sem, mem, held, want, ret>>

-----------------------------------------------------------------------------
(* The analysed machine *)

TargetWrite(x, v) ==
    /\ mem' = [mem EXCEPT ![x] = v]
    /\ UNCHANGED <<mainVars, dispatchVars, obj, sem, callVars>>

-----------------------------------------------------------------------------
MainStep == \/ InitNoMap
            \/ \E h \in {"open", "null"} : InitVMM(h)
            \/ Leave \/ SetStop \/ NotifyStop \/ JoinAndClose

DispatchStep == \/ LoopTest \/ CheckBacklog \/ WaitPredicate \/ WaitBlock
                \/ Collect \/ AcquireSem \/ SetValue \/ FreeBuffer
                \/ ScatterExecuted \/ ReleaseSem
                \/ \E i \in Items : MemReadEx(i) \/ ScatterExecute(i) \/ ScatterRead(i)

\* The steps of a call in progress.
CallStep(c) == \/ GetFuture(c) \/ GetCached(c) \/ GetResult(c) \/ ReadReturn(c)
               \/ WriteAcquire(c) \/ MemWriteFails(c) \/ WriteReturn(c) \/ QueryEnd(c)
               \/ \E v \in Vals : MemWrite(c, v)

Call(c) == \/ \E r \in Requests : ReadJoin(c, r) \/ ReadNew(c, r) \/ WriteCall(c, r)
           \/ QueryBegin(c)

Next == \/ MainStep
        \/ DispatchStep
        \/ SpuriousWakeup
        \/ \E c \in Threads : Call(c) \/ CallStep(c)
        \/ \E x \in Cells, v \in Vals : TargetWrite(x, v)

Spec == Init /\ [][Next]_vars

\* What std::thread and the locks guarantee: the dispatch thread, a call in
\* progress and a shutdown in progress move on whenever they can.  Nobody has
\* to call, the target need not write, and no wakeup is spurious by promise.
Fairness == /\ WF_vars(DispatchStep)
            /\ \A c \in Threads : WF_vars(CallStep(c))
            /\ WF_vars(SetStop \/ NotifyStop \/ JoinAndClose)

FairSpec == Spec /\ Fairness

-----------------------------------------------------------------------------
(* Properties *)

Reading(c) == pc[c] \in {"get", "future", "copy"}
Writing(c) == pc[c] \in {"wdevice", "written", "unwritten"}
Dispatching == dpc \in {"sequential", "setvalue", "free", "execute", "fulfil"}

\* Every variable keeps its type.
TypeOK ==
    /\ life \in {"new", "serving", "closing", "notify", "joining", "closed"}
    /\ hVMM \in {"null", "open", "closed"}
    /\ bStop \in BOOLEAN
    /\ dpc \in {"none", "top", "check", "pred", "blocking", "asleep", "build", "acquire",
                "sequential", "setvalue", "free", "execute", "fulfil", "exited"}
    /\ backlog \subseteq Items
    /\ batch \subseteq Items
    /\ cur \in Items \cup {None}
    /\ obj \in [Items -> ItemType]
    /\ sem \in {0, 1}
    /\ mem \in [Cells -> Vals]
    /\ pc \in [Threads -> {"idle", "get", "future", "copy", "wacquire", "wdevice",
                           "written", "unwritten", "query"}]
    /\ held \in [Threads -> Items \cup {None}]
    /\ want \in [Threads -> Requests \cup {None}]
    /\ ret \in [Threads -> Vals \cup {None, Failed, Written, Garbage}]

\* A reader's shared_ptr keeps alive the item of its own request: batching,
\* joining and the release of dispatchBuffer never give it another request's
\* item nor destroy the item under it (Memory::read, BacklogItem).
ReaderKeepsOwnItem ==
    \A c \in Threads : Reading(c) => held[c] \in Items /\ obj[held[c]].req = want[c]

\* A read whose promise is not fulfilled is still in the backlog or in the
\* batch being dispatched: the selection and the erase loop of dispatchLoop
\* lose no request.
NoLostRead ==
    \A c \in Threads : Reading(c) /\ ~Fulfilled(held[c]) => held[c] \in backlog \cup batch

\* The dispatch thread never blocks, and is never about to block, with a read
\* waiting: notify under mtx in Memory::read leaves no gap to the wait.
NeverSleepsOnWork == dpc \in {"blocking", "asleep"} => backlog = {}

\* A reader whose promise is not fulfilled has a dispatch thread at work for
\* it: started, not stopped by a shutdown, and not blocked in its wait.
ReaderHasDispatcher ==
    (\E c \in Threads : Reading(c) /\ ~Fulfilled(held[c]))
        => dpc \notin {"none", "exited", "blocking", "asleep"}

\* The backlog is not empty when dispatchLoop, having released mtx to build
\* a batch and locked it again, dereferences backlog.begin().
BacklogBeginValid == dpc = "build" => backlog # {}

\* dispatch() reads every item of its batch in the one process it was given,
\* so the batch mixes no processes, whatever reads come and go while it is
\* dispatched; and reads of the same bytes share one item, as the keys of the
\* backlog have it, so that no two items of a batch or of the backlog ask for
\* the same.
OneProcessPerDispatch ==
    /\ \A i, j \in batch : /\ obj[i].req.pid = obj[j].req.pid
                           /\ obj[i].req = obj[j].req => i = j
    /\ \A i, j \in backlog : obj[i].req = obj[j].req => i = j

\* Whatever order the unordered map has, the loop of dispatchLoop selects one
\* of the batches that Batch describes, and for every one of them there is an
\* order in which it does.
BatchIsWhatTheLoopSelects ==
    dpc = "build" =>
        {D \in SUBSET backlog : \E p \in Pids : Batch(p, D)}
      = {SelectLoop(s, obj[s[1]].req.pid) : s \in Bijection(1 .. Cardinality(backlog), backlog)}

\* The future of a promise is retrieved at most once, however many readers
\* share the item; std::promise throws on the second retrieval.
FutureRetrievedOnce == \A i \in Items : obj[i].futures <= 1

\* The semaphore admits one of the dispatch thread and the writers to the
\* device, and is free exactly when none of them is there.
DeviceExclusive ==
    /\ \A c, d \in Threads : Writing(c) /\ Writing(d) => c = d
    /\ Dispatching => \A c \in Threads : ~Writing(c)
    /\ sem = 1 <=> ~Dispatching /\ \A c \in Threads : ~Writing(c)

\* The device library is called only while the handle is open: not after
\* VMMDLL_Close in the destructor, not after a failed initialisation.
NoUseAfterClose ==
    hVMM # "open" => ~Dispatching /\ \A c \in Threads : pc[c] = "idle"

\* What a reader receives was read from the device for its request, and is
\* not the contents of a buffer that was freed under its memcpy.
NoGarbage == \A c \in Threads : ret[c] # Garbage

\* The refinement mapping: where AtomicMemory sees the call of thread c, and
\* the outcome it was served with.  A read is served when the device reads its
\* item, a write when VMMDLL_MemWrite returns.
St(c) == IF Reading(c) THEN IF obj[held[c]].dev = None THEN "reading" ELSE "served"
         ELSE IF pc[c] \in {"wacquire", "wdevice"} THEN "writing"
         ELSE IF pc[c] \in {"written", "unwritten"} THEN "served"
         ELSE "idle"

Val(c) == IF Reading(c) THEN obj[held[c]].dev
          ELSE IF pc[c] = "written" THEN Written
          ELSE IF pc[c] = "unwritten" THEN Failed
          ELSE None

stBar == [c \in Threads |-> St(c)]
valBar == [c \in Threads |-> Val(c)]

Atomic == INSTANCE AtomicMemory
            WITH st <- stBar, val <- valBar,
                 Torn <- IF ScatterReadThreshold = 0 THEN {} ELSE {Garbage}

\* The calls implement atomic reads and writes of the target's memory: a read
\* returns contents the address had between call and return (a read joins only
\* an item the device has not read yet), a write changes the memory once.
\* Only a dispatch that frees its buffers (the sequential one) may hand over
\* garbage instead.
ImplementsAtomicMemory == Atomic!Spec

\* Every read returns, once writers no longer compete for the semaphore and
\* the backlog no longer mixes processes (the process of a batch is the one of
\* backlog.begin(), which may be another one every time): the dispatch thread
\* wakes up, selects the item and fulfils its promise, also for the items of
\* one process that earlier batches of another left behind.
ReadsReturn ==
    <>[](\A c \in Threads : pc[c] # "wacquire") /\ <>[](Cardinality(Pids) <= 1)
        => \A c \in Threads : Reading(c) ~> pc[c] = "idle"

\* The destructor returns: the dispatch thread notices bStop and is joined.
ShutdownTerminates == life = "closing" ~> life = "closed"
=============================================================================
