# ceserver-pcileech: TLA+ models, checks and proofs

ceserver-pcileech is a Cheat Engine server that reads and writes the memory of
another machine over a DMA device (PCILeech / MemProcFS). A connection thread
per client receives commands, keeps handles in tables all connections share,
and calls a memory service which batches reads for one dispatch thread. This
directory models that concurrency and the conversation of one connection,
model-checks both with TLC and proves the safety properties with TLAPS.

## 1. Inventory

| Component | State | Operations | Hard about it | What makes it correct |
|---|---|---|---|---|
| `Memory` (Memory.cpp/.h) | `hVMM`, `bStop`, `backlog` of shared `BacklogItem`s (promise, copy, mutex), `sem`, `mtx`, `backlogPush`, dispatch thread | `init`, `start`, `read`, `write`, query functions, `dispatchLoop`, `dispatch`, `shutdown`, destructor | readers, writers, dispatch thread and main interleave; condition variable; shared items; promise buffers; limits per batch | no read lost or answered with stale contents, no sleep on work, batches and writes use the device one at a time (the query functions take no semaphore), all only while it is open, reads return, shutdown returns |
| `ClientState` | `lastHandleID`, process and module snapshots, iterators, opened processes, one mutex | generate, store, close, next, reset, contains, lookups | shared by all connections; every method is its own critical section; `int` counter | handles unique and stable in meaning, iterators in range |
| `Client` | connection name, its command in progress | one handler per command | a handler is several critical sections; handlers of different connections interleave | a command acts on the process of its handle; walks are complete |
| `Client` protocol | fields of the request, `errno`, blocking mode of the socket | receives of fields and payloads, polling for a handle, replies | short receives nobody looks at, a timeout racing a late handle, two socket wrappers that differ | server and client agree on where a request starts; a write is what was asked, or what the peer's leaving cut it to; every request is answered or the connection closed, but for reads that are too large |
| VAD regions | none | protection, type, size, lookup, truncation of names | 32-bit size, bit fields, limits | an address is found in its region and nowhere else, the rights to write and to execute are reported as they are (every region, also one without access, is reported readable) |
| `Server` | listening socket, connection threads, `bStop`, a shared wrapper per connection | `init`, `start`, `stop`, `join`, accept loop, connection loop | stop against blocking calls; who closes a socket; numbers the system gives out again | no socket lost or taken from another connection, threads end before what they use, stop returns |
| `main` | owns `Memory` and `Server` | start-up, join, tear-down | order of destruction | `Memory` and the tables outlive their callers |
| Socket wrappers | a descriptor number | accept, close, destructor, receive | closing twice, non-blocking receive, error codes | one close per number |
| `PCILeechWrapper`, `Commands` | none of their own | forwarders, constants | - | - |

Interaction: `Server` accepts and starts a thread per connection; the thread
calls `Client::dispatchCommand`; handlers wait for their fields and call `ClientState` (shared, locked per
method) and `Memory` (shared); `Memory` calls the device library. `PROJECT.json`
lists the hazards at their lines and the properties aimed at each.

## 2. Modules

* **AtomicMemory** - the abstract promise of `Memory::read` and `Memory::write`:
  each call takes effect at one instant between call and return. `Torn` is what
  a read may hand over in place of the value it was served with.
* **Memory** - `Memory.cpp`. One action per critical section, device call or
  blocking point. `life` is main's position (`init` ... destructor), `dpc` the
  dispatch thread's, `pc[c]` that of connection thread `c`. `obj[i]` is a
  `BacklogItem`; an item is storage that is reclaimed when no `shared_ptr`
  (backlog, `dispatchBuffer`, a reader) refers to it. `mtx` needs no variable:
  its critical sections are single actions, except for the gap between the
  wait predicate and the block (`dpc = "blocking"`), in which readers are kept
  out (`MtxFree`) and `shutdown`, which takes no lock, is not. The item's mutex
  is held across the wait for the future (`Locked`). `Batch` states declaratively
  which batches the selection loop can produce over an unordered map; `SelectLoop` is
  that loop as the code writes it, for one order of the map. The contents of the target's memory change at any time (`TargetWrite`).
* **MCMemory** - instances.
* **ClientState** - `ClientState.cpp`, one action per method. A snapshot is its
  number of entries. `Incremented` covers the undefined overflow of the counter.
* **Client** - the handlers of `Client.cpp` as sequences of calls into
  `ClientState` and the memory service, interleaving between connections.
  `opened` and `walk` are history variables for the properties: for which
  process a handle was last opened, and how far an undisturbed walk has come. A
  command has the handle its handler works with (`op.h`) and the one the client
  sent (`op.asked`). They differ in CMD_GETARCHITECTURE on Linux only, where the
  wrapper loses the handle and the path for old clients may put another in its
  place: `DecidingHandle`. `DeviceTargetsHandle` compares the target with the
  handle the client sent, and on that path, where the answer can be about a process
  the client did not ask for, with the substitute.
* **HandleTable** - the abstract promise of the handles: a table of what each
  handle stands for (nothing yet, a process, a list, closed for good) and the calls
  of the memory service, each for the process of its handle (`op.h`, so that the
  substitute of the path for old clients counts as a call on that handle) or, if that was closed
  under way, for none. `table` and `calls` in Client are the mapping; a handle
  between `generateHandle` and its store is still fresh.
* **MCClient** - instances.
* **Server** - `Server.cpp`, `main.cpp` and the life of socket wrappers. `main` and
  `spc` are the positions of main and the server thread, `thr[c]` that of the
  thread of connection `c`. A wrapper is the number it holds (`num`), the system's
  table says which connection a number stands for; `close` and the destructor act
  on the number, whatever it stands for by then. A wrapper is destroyed when the
  accept loop (`cur`) and the thread have both dropped it. `at[c]` is the connection
  a receive looked up when it began, since a blocked receive keeps its socket.
  `struck` is a history variable: a destructor has closed a socket of another
  connection. What a command does is left to Client and Session, but not where its
  handler can be kept: it waits for fields (`Dispatch`, `RecvFields`), for room for its
  reply (`ReplyWaits`), or for ever in a read of `MAX_BYTES_PER_DISPATCH` bytes or more
  (`ReadHangs`). Receives end when the peer leaves, sends when the connection
  breaks, and the handler notices neither. Peers connect,
  send, close and reset at any time; `stop`, which only the tests call, may come at any time.
* **Regions** - pure operators of `Client.cpp` and `Memory.h`: size of a region in 32
  bits, protection and type, lookup, names. The widths are constants.
* **Session** - one connection as a conversation. The stream is a sequence of
  fields; what the peer does is external, what the
  server receives, in which order, and what it answers is from the handlers and
  the socket wrappers. A field that did not arrive is the zero it was initialised
  with. A peer that leaves in the middle of one (`cut`) leaves its first bytes in front of
  zeros: of a number in the order of a little-endian machine, the number modulo a power of 256
  (`Prefixes`). A read of `MaxBytesPerDispatch` or more never returns
  (`pc = "hung"`), as Memory shows. `platform` chooses the wrapper, `old` an old client that sends no handle
  with CMD_GETARCHITECTURE. When the server takes a field for another one, the
  model stops there (`pc = "skewed"`). The `FIRST` and `NEXT` commands are one
  ("iterate"), and so are all commands the server does not implement.
* **MCSession** - VAD entries around the limits, for the run.
* **MemoryProofs, BatchProofs, MemoryRefinement, ClientProofs, HandleRefinement,
  ServerProofs, SessionProofs, StepProofs** - theorems, and the inductive invariants
  they rest on.

Client and Session describe the same handlers from two sides: Client has their
steps on what connections share and leaves the bytes out, Session has the bytes
of one connection and keeps of the tables whether handle 1 is open. Server has
neither and says which thread receives what, and that Memory and the tables are
there as long as a handler runs (`ExitClean`); Memory's own model assumes the
latter (calls only while serving).

Operators commented "Mutant of" are plausible bugs of the definition that
follows them; no specification uses them. Each shows that a property fails when
the code is wrong in that way.

## 3. Runs

| Run | Result | What it shows |
|---|---|---|
| `memory_safety` | pass | 2 threads, 4 items, 2 processes, sizes 1, 2, 4 (4 reaches the byte limit), 2 values: types, `NeverSleepsOnWork`, `BacklogBeginValid`, `DeviceExclusive`, `NoUseAfterClose`, `OneProcessPerDispatch`, refinement of `AtomicMemory` |
| `memory_sharing` | pass | 3 threads, sharing reads or with more of them than a batch holds: `NoLostRead`, `BatchIsWhatTheLoopSelects`, `FutureRetrievedOnce`, `ReaderKeepsOwnItem`, `ReaderHasDispatcher` |
| `memory_liveness` | pass | 2 threads reading 2 processes: `ReadsReturn` under fairness, for reads below the byte limit |
| `memory_huge_read` | violation | a read of exactly the byte limit is never answered |
| `memory_shutdown` | violation | the notification of `shutdown` can be lost; the destructor then never returns |
| `memory_freed_buffer` | violation | the sequential branch frees a buffer a reader is copying |
| `client_safety` | pass | 2 connections: `HandlesUnique`, `HandleNeverRetargeted`, `DeviceTargetsHandle`, `IteratorInRange`, `UndisturbedWalkInOrder`, and `HandleTableKept`, the refinement of `HandleTable` |
| `client_closed_handle` | violation | a handle closed between check and lookup: the memory service is called for process -1 |
| `client_dangling` | violation | a handle closed between `next...` and the use of its pointer |
| `server` | pass | 2 connections, 2 numbers: `NoSocketLeak`, `OwnConnection`, `ExitClean`, and under fairness `StopReturns` (unless the server waits for a peer or a hung read) and `PendingAccepted` (unless the table is full) |
| `server_serial` | violation | 3 connections: after a socket was closed twice, two threads receive the commands of one connection |
| `session` | pass | 2 requests on one connection, both wrappers, old and new clients, a peer that leaves between or within fields: `InStep`, `OldPeerInStep`, `WriteAsRequested`, `RegionFound`, `ProtectionFaithful`, `AnswersTheAsked`, and under fairness `Answered` |

**Bounds.** In `memory_safety` two threads are a reader and a writer or two
readers joining, and four items let old items survive in readers while new ones
wait; `ScatterReadThreshold = 1` (the code's value)
makes both branches of `dispatch` happen. With two threads the backlog
never holds more items than one batch takes, so reads of a process that a batch leaves behind for their number or their
bytes happen in `memory_sharing`: three threads ask for three ranges of one process, with room for two items and
less than three bytes in a batch. Reads left behind because they are of another process happen in
`memory_safety` and in `memory_liveness`, where `ReadsReturn` would miss a lost one. The three
threads of `memory_sharing` also put a second waiting reader behind the item's mutex.
`Client` runs have two connections and two handles, so that one can close, reset
or step what the other is using; `MaxIssued` bounds the number of generated
handles, `MaxEntries` the length of a snapshot. The properties of handles are
stated "until the counter wraps". `memory_liveness` has three items, one more than
threads, so that a read can be pushed while a batch is out. In `server` two numbers
for two connections are enough for a number to be closed, given out again and
closed by the first wrapper's destructor; for two threads to receive from one
connection a third connection is needed (`server_serial`). Two pieces per peer
(`MaxSent`) are a command with its fields, or two commands. As there is a number for
each connection, a full table of descriptors with another connection in the queue, which
`PendingAccepted` excepts, does not happen in the run. In `session` two requests are enough
for what a first one leaves behind (part of a handle, a non-blocking socket,
`errno`) to meet a second; sizes up to 3, the byte limit, let a payload be cut off in the middle, a size of 3 be cut off to 1 (`Prefixes = {2}`) and a read hang,
integers of 4 bits (`Half = 8`) let regions of 8 and 16 bytes play those of 2 and 4
GiB, and all 32 protections occur. `MaxPolls` stands for the ten attempts in a second. Threads, items and connections are symmetric in the runs that use
`SYMMETRY`; the liveness runs use none.

**Fairness.** Weak fairness for the dispatch thread, for each call in progress and
for a shutdown in progress: `std::thread` and the locks let a thread that can
move move. No fairness for callers, the target or spurious wakeups.
The semaphore is not fair, so `ReadsReturn` assumes that writers eventually
stop competing for it. Which process is served next depends on the order of an
unordered map, which promises nothing: `ReadsReturn` assumes that eventually the
backlog no longer holds reads of several processes. In `Server` main, the
server thread and every connection thread are weakly fair; peers and whoever calls
`stop` owe nothing, so `StopReturns` excepts a server that waits for ever for a peer (to
connect, to send a command or its fields, to take a reply) or for a read the memory service never
ends, which is what the code does. What it claims is that nothing else keeps it: threads
that spin on a closed peer, commands cut off, broken connections, connections in the queue. In `Session` the server is weakly fair, and the peer
as far as it takes an answer that is complete; it need not finish a request. `Answered`
excepts by name what the code never answers: the name of a region at address 0 (`NameOmitted`) and a
read of the byte limit or more (`TooLarge`).

Deadlock is checked in Memory and Client: the system can always accept a call or
change the target's memory. Since it always can, deadlocks of single threads are
found by the liveness properties. It is not checked in Server, where main may have
returned, and in Session, where the connection may be closed or the peer gone.

## 4. Proofs

All for arbitrary constants that satisfy the named ASSUMEs: limits are naturals
and a batch has room for one item; finitely many items; sizes are naturals; the
special values differ (Memory); `MaxInt` positive, process ids within
`0 .. MaxInt` and `None` no number (Client); `None` is neither a connection nor a
number (Server); the widths are positive, addresses and VAD entries are made of
naturals, and `Absent` is no VAD entry (Regions, Session).

* **MemoryProofs.** `Inv` is the conjunction of `TypeOK` and named parts:
  `CallInv` (what a call in progress holds), `ItemInv` (device before promise
  before copy; whoever took the future has copied or holds the lock), `QueueInv`
  (backlog and batch are disjoint, the backlog not yet read), `DispatchInv` (the
  batch by position of the dispatch), `LifeInv` (calls only while serving) and
  four of the properties. The strengthening is needed because, for instance,
  `FutureRetrievedOnce` rests on the item lock, `NoLostRead` on the reclaiming of
  storage, `NoUseAfterClose` on an idle dispatch thread at the join.
  Theorems: `Invariance`, `TypeCorrect`, `NoReadIsLost`, `DispatcherAwake`,
  `BatchHasFirstItem` (nobody but the dispatch thread takes items away, so a backlog
  seen non-empty stays so while the mutex is released), `OwnItem`, `FutureOnce`, `DeviceMutex`, `DeviceOpen`, and `OnlyEarlyFreeTears`:
  with any threshold, in behaviours in which no buffer is freed while a reader has still to copy from it
  (`FreedUnderReader`), `NoGarbage` holds. So the order of `set_value` and `VMMDLL_MemFree` is the only cause of the violation of
  `memory_freed_buffer`. It rests on `Intact`: a promise that was not copied has its buffer.
  `DispatchesOneProcess` is inductive on top of `Inv`: a batch is taken from the items
  of one process, and while it is out new items take storage neither queue refers to.
  It is what lets the model read each item at its own process and address, where the
  code reads the whole batch with one process id.
* **BatchProofs** (on MemoryProofs). What the dispatch thread selects, and whether it is
  there to do it.
  *Sums.* `Bytes` is a fold over a recursive function on sets. That the function exists, that
  the sum does not depend on the order, and that it is additive and monotone are shown by
  least counterexamples: among the subsets of a finite set on which a claim fails there is a
  minimal one (`MinimalSubset`), and removing one element from it refutes it.
  *The loop.* `LoopSelectsBatches`: `BatchIsWhatTheLoopSelects` holds for any backlog,
  limits and sizes. One inclusion is the loop's invariant (after `k` items: a set of items of the process
  seen so far, their bytes, and, once `done`, the reason for the break), by the least `k` at which
  it fails. For the other an order is built that puts the batch first, then the item that
  does not fit if there is one, then the rest; over it the loop takes the batch and stops.
  `SelectionSucceeds` follows: some order exists, so a batch does, and `Collect` is never stuck.
  *Limits.* `DispatchWithinLimits`: every batch keeps to both limits during all of
  its dispatch, since requests of referenced items never change. From it
  `HugeReadNeverReturns`, an action property: a read of `MAX_BYTES_PER_DISPATCH` bytes or
  more stays in the backlog in every step of every behaviour, and main cannot leave. The run
  `memory_huge_read` shows one such behaviour; the theorem says there is no other kind.
  *The dispatch thread.* `StopInv` (`bStop` is set from the first step of shutdown on, only it
  ends the thread, which runs while main serves) is inductive on top of `Inv`.
  `WaitingReaderIsServed`: `ReaderHasDispatcher`, the safety half of `ReadsReturn`.
  `OnlyTheGapLosesWakeups`: in behaviours without the step in which shutdown notifies between predicate
  and block, the thread is never left in its wait after it was notified; so the gap is the only
  cause of the violation of `memory_shutdown`, and setting `bStop` under `mtx` would close it.
* **MemoryRefinement.** `Refinement`: `Spec` implements `AtomicMemory`. A read is
  served when the device reads its item (all readers of the item at once), a
  write when `VMMDLL_MemWrite` returns; every other step stutters, calls or returns.
* **ClientProofs.** `Inv` is `TypeOK` and, until the counter wraps, `CounterInv`
  (every handle in use was counted), `InFlightInv` (a generated handle is
  nobody else's and was never used), `OneMeaningInv`, `CheckedInv`. Theorems:
  `Invariance`, `TypeCorrect`, `UniqueHandles`, `DeviceTarget`, `NeverRetargeted`, and on the
  same invariant `IteratorsInRange`, `WalksInOrder`, `SoleDevice`, `SolePointer`. `DeviceTarget` adds `AskedInv`: but for CMD_GETARCHITECTURE on Linux, a handler on a process works with
  the handle the client sent. `IteratorInRange` is inductive with the types:
  a step needs an entry left, a reset goes to 0, a new snapshot starts without an
  iterator. `WalksInOrder` adds to it that a walk's snapshot exists and that its
  iterator stands at the number of entries seen; every action of another connection that could move
  or remove it ends the walk in the same step, and handles on their way to a store
  are nobody's (`InFlightInv`). `SoleDevice` and `SolePointer` are about one connection
  alone (`SoleConnection`): there `DeviceGetsProcess` and `NoDanglingPointer`, which two
  connections violate, hold, because what a handler has found in the tables is still
  there at its next step (`FoundInv`). So these two findings take a second connection.
* **HandleRefinement** (on ClientProofs). `KeepsHandleTable`: until the counter wraps
  the tables implement `HandleTable`. A store gives its handle out, `closeHandle` closes one
  that stands for something and does nothing to any other, the lookup of the process id
  begins a call and the memory service's answer ends it; every other step is invisible.
  `Inv` is strengthened by `NeverAList`: a handle once opened for a process never stands
  for a list, without which a lookup after a close might meet one.
* **ServerProofs.** `Inv` is `TypeOK`, `LoopInv` (what main and the accept loop can
  have done at each position), `WrapperInv` (a wrapper exists exactly while the loop or
  the thread refers to it), `ReceiveInv`, `NoSocketLeak` and `OwnInv`. `NoSocketLeak` needs
  `WrapperInv` (an accepted connection has no older wrapper), `OwnConnection` also the wrapper
  the accept loop has not handed over yet, `ExitClean` follows from all of them: without threads
  there are no wrappers, without wrappers no numbers in use. Theorems:
  `Invariance`, `TypeCorrect`, `SocketsKept`, `ThreadsKeepTheirConnection`, `CleanExit`, and
  `SerialUnlessStruck`: `CommandsSerial`, which `server_serial` violates, holds until a
  destructor has closed another connection's socket, so nothing else can break it.
* **SessionProofs.** `Inv` is `TypeOK`, `ArgsInv` (what was received are values of
  the fields that were asked for, a cut address any number: `Got`), `CutInv` (only a peer that has left leaves a field
  cut off, the next it had to send, and not more than it would have been) and the two properties of regions. Lemmas: the lookup
  finds the first region that contains the address, by the well-ordering of the
  naturals; a size below half the range survives the way through 32 bits. Theorems:
  `Invariance`, `TypeCorrect`, `RegionsFound`, `ProtectionsFaithful`.
* **StepProofs** (on SessionProofs). `StepInv` speaks of what is coming: the stream and the
  part of the request the peer has not sent yet. `FramesInv`: every command that is coming
  stands at the start of a whole request (`Framed`: its fields in the order of the protocol,
  as many bytes as its size field says, then the next command), and so does the request
  that is being received, counted from where its command stood. `OrderInv`: a command with an
  answer is the last one coming, and its fields are those of the request the peer remembers.
  `RequestInv`: the peer waits for the answer of what is being handled, what was received
  up to a field that is not zero was sent, that field itself in full or, at the end of the stream, less of it
  (`ReceivedAsked`), and no byte was received after a size that was cut off (`NoneAfterCut`). These hold until step may be lost
  (`SynchronyInv`); the first two end when the peer has left and the stream is used up,
  from where on fields are zero (`CutOff`), `RequestInv` does not: it is why a write of a positive
  size has the address that was asked for, and the size or, if that was cut off, a smaller one and none of the bytes. `FilledInv`, `PollInv` and `OldPeerInv` cover the
  payload, the socket's mode and old peers. None of the properties is inductive by itself:
  whether a byte is taken for a command depends on everything before it. Theorems:
  `StepInvariance`, `StaysInStep`, `OldPeersStayInStep`, `WritesAsRequested` and, as an
  action property, `AnswersAreAskedFor`, for every number of requests (`MaxRequests`), every
  size (`MaxSize`) and any number of polls.

The inductive invariants `Inv` and the additions to them (`NeverAList`, `StepInv`,
`OneProcessPerDispatch`, `BatchWithinLimits`, `HugeUnserved`, `StopInv`) were checked with TLC on the bounds of section 3 before they were proved.

**Only model-checked:** liveness (`ReadsReturn`, `StopReturns`, `PendingAccepted`,
`Answered`: fairness and ENABLED are out of the prover's reach), and that the violations
happen. Every invariant and every action property of the passing runs, and both refinements, are
proved. The library's induction theorems, which take an operator as a parameter, cannot be
used with the installed provers; where an induction over data is needed the proofs take a least
counterexample from theorems without such a parameter.

## 5. Findings

Each is quoted in `PROJECT.json` with the comment, test or document it disagrees with.
Shown by a run: the byte limit compared with `>=`, the freed promise buffer, the lost
shutdown notification, check and lookup of a handle in two critical sections, pointers
that outlive the lock, and the socket that is closed twice. Met while modelling, and
modelled as the code has it: the Linux wrapper's non-blocking receive fills its own
parameter; the path for old clients looks up a process id as a handle;
CMD_GETREGIONINFO of address 0 leaves out the name (`Answered` excepts it as
`NameOmitted`); the handle counter wraps to 0; main ignores a failed `init`.

## 6. Not modelled

* Logging, the wording of names and the byte layout of structures; a field of the
  stream that arrives in two parts, except where it matters: for the polled handle and for a peer that leaves in between.
* The table from memory models to architecture codes (the answer is one field of a
  fixed size), and the contents of process,
  module and thread lists beyond their length.
* Data races on the two `bStop` flags and on `backlog.size()` (read as atomic: lock
  operations and system calls between two reads keep a build from caching a flag,
  and the size only decides how long to wait).
* SIGPIPE, which on Linux ends the process when a reply is sent to a peer that has
  left; other system calls that change `errno` between the poll and `lastError`;
  allocation failure, negative sizes; the signed/unsigned widths of sizes.
* The external library beyond "a read gives the contents or fails, a write happens
  or fails"; partial reads in Memory. Timers only delay a batch, which the
  model leaves to chance.

## 7. Plan

Done: Memory with AtomicMemory, ClientState and Client with HandleTable, Server, Regions
and Session, their runs, and the proofs of all safety properties the passing runs check. For each of
the six violations a theorem says what it takes: a read that reaches the byte limit
(`HugeReadNeverReturns`), the gap in shutdown (`OnlyTheGapLosesWakeups`), a buffer freed under its reader
(`OnlyEarlyFreeTears`), a second connection (`SoleDevice`, `SolePointer`), a destructor that closed another
connection's socket (`SerialUnlessStruck`). Left:

1. Facts behind the liveness properties of Server and Session that are safety, as
   `ReaderHasDispatcher` is for `ReadsReturn`: which step of which thread a stop, a waiting
   connection or a request is waiting for in each state.
2. A shared stream with bytes in place of fields, so that the server's further way
   after losing step can be followed.
