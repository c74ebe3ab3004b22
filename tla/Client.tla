------------------------------- MODULE Client -------------------------------
(***************************************************************************)
(* The command handlers of the connections (Client.cpp) on the tables they *)
(* share (ClientState).  Each connection has a thread that receives one    *)
(* command after the other; a handler is the sequence of its calls into    *)
(* ClientState and Memory, and handlers of different connections           *)
(* interleave between these calls.  The lock of dispatchCommand belongs to *)
(* the connection and excludes nobody.                                     *)
(*                                                                         *)
(* Replies are left out except for what decides the connection's further   *)
(* life.  The memory service is abstracted to the process id it is called  *)
(* with and the outcome.                                                   *)
(***************************************************************************)
EXTENDS ClientState, FiniteSets

CONSTANTS
    Connections,  \* connection threads
    Platform,     \* "linux" or "windows": which socket wrapper is compiled in
    MaxIssued     \* bound: how many handles are generated

ASSUME MaxIssuedAssumption == MaxIssued \in Nat

VARIABLES
    pc,      \* pc[c]: where connection c is in its handler
    op,      \* op[c]: the command being handled
    opened,  \* history: opened[h] is the process handle h was last opened for
    walk     \* history: walk[c] is the walk of c over a snapshot since FIRST,
             \* as long as no other connection has interfered with it

clientVars == <<pc, op, opened, walk>>
vars == <<stateVars, clientVars>>

\* A command: its kind of snapshot, the handle it works with and the one the
\* client sent (-1: none), the process id it works with and the length of a new
\* snapshot or the position of an entry.
Op(name, k, h, p, n) ==
    [name |-> name, kind |-> k, h |-> h, asked |-> h, pid |-> p, n |-> n]
NoOp == Op("none", "process", -1, -1, 0)

Opens == {"open"}
Snapshots == {"snapshot"}
Walks == {"first", "next"}
OnProcess == {"read", "write", "regions", "architecture"}
Names == {"none"} \cup Opens \cup Snapshots \cup Walks \cup OnProcess

OpType == [name : Names, kind : Kinds, h : Handles, asked : Handles,
           pid : Pids \cup {-1}, n : 0 .. MaxEntries]

\* Where an OPENPROCESS command can be.
OpenOp(at, o) == at \in {"generate", "store"} /\ o.pid \in Pids

WalkType == [kind : Kinds, h : Handles, seen : Nat]

TypeOK ==
    /\ StateTypeOK
    /\ pc \in [Connections -> {"closed", "idle", "query", "generate", "store", "contains",
                               "reset", "next", "deref", "legacy", "check", "getpid", "device"}]
    /\ op \in [Connections -> OpType]
    /\ \A c \in Connections : op[c].name = "open" => OpenOp(pc[c], op[c])
    /\ opened \in [Handles -> Pids \cup {None}]
    /\ walk \in [Connections -> WalkType \cup {None}]

Init ==
    /\ StateInit
    /\ pc = [c \in Connections |-> "closed"]
    /\ op = [c \in Connections |-> NoOp]
    /\ opened = [h \in Handles |-> None]
    /\ walk = [c \in Connections |-> None]

-----------------------------------------------------------------------------
(* Connections come and go *)

Goto(c, from, to) == pc[c] = from /\ pc' = [pc EXCEPT ![c] = to]
Done(c) == op' = [op EXCEPT ![c] = NoOp]

\* The server accepts a connection and starts its thread.
Accept(c) ==
    /\ Goto(c, "closed", "idle")
    /\ UNCHANGED <<stateVars, op, opened, walk>>

\* The connection fails, the client asks to close, terminates the server, or sends a command
\* that is unknown, unimplemented or asks for compression.  No handle of the
\* connection is closed.
Disconnect(c) ==
    /\ Goto(c, "idle", "closed")
    /\ walk' = [walk EXCEPT ![c] = None]
    /\ UNCHANGED <<stateVars, op, opened>>

\* The handles clients send.
Sent == 0 .. MaxInt

\* The next command arrives.
Receive(c, to, o) ==
    /\ Goto(c, "idle", to)
    /\ op' = [op EXCEPT ![c] = o]
    /\ UNCHANGED <<stateVars, opened, walk>>

-----------------------------------------------------------------------------
(* CMD_CREATETOOLHELP32SNAPSHOT, its EX variant and CMD_OPENPROCESS *)

\* The bound on generated handles, counting the commands that will generate one.
WithinBound ==
    issued + Cardinality({c \in Connections : pc[c] \in {"query", "generate"}}) < MaxIssued

ReceiveSnapshot(c, k) == WithinBound /\ Receive(c, "query", Op("snapshot", k, -1, -1, 0))

ReceiveOpenProcess(c, p) == WithinBound /\ Receive(c, "generate", Op("open", "process", -1, p, 0))

\* memory->getProcessSnapshot or getModuleSnapshot: n entries, 0 on failure.
Query(c, n) ==
    /\ Goto(c, "query", "generate")
    /\ op' = [op EXCEPT ![c].n = n]
    /\ UNCHANGED <<stateVars, opened, walk>>

\* The handle is generated in one critical section ...
Generate(c, h) ==
    /\ Goto(c, "generate", "store")
    /\ GenerateHandle(h)
    /\ op' = [op EXCEPT ![c].h = h]
    /\ UNCHANGED <<opened, walk>>

\* ... and used as a key in another; then it is sent to the client.
Store(c) ==
    /\ Goto(c, "store", "idle")
    /\ \/ /\ op[c].name = "open"
          /\ StoreOpenProcess(op[c].pid, op[c].h)
          /\ opened' = [opened EXCEPT ![op[c].h] = op[c].pid]
       \/ /\ op[c].name = "snapshot"
          /\ StoreSnapshot(op[c].kind, op[c].n, op[c].h)
          /\ UNCHANGED opened
    /\ Done(c)
    /\ UNCHANGED walk

-----------------------------------------------------------------------------
(* CMD_PROCESS32FIRST/NEXT and CMD_MODULE32FIRST/NEXT *)

ReceiveWalk(c, name, k, h) == Receive(c, "contains", Op(name, k, h, -1, 0))

\* Walks of other connections over the snapshot of c's command are disturbed.
Disturb(c, mine) ==
    walk' = [d \in Connections |->
               IF d = c THEN mine
               ELSE IF /\ walk[d] # None
                       /\ walk[d].kind = op[c].kind /\ walk[d].h = op[c].h THEN None
               ELSE walk[d]]

OnMyWalk(c) == walk[c] # None /\ walk[c].kind = op[c].kind /\ walk[c].h = op[c].h

\* No such snapshot: the end of the list is sent.
WalkUnknown(c) ==
    /\ Goto(c, "contains", "idle")
    /\ ~ContainsSnapshot(op[c].kind, op[c].h)
    /\ Done(c)
    /\ UNCHANGED <<stateVars, opened, walk>>

WalkKnown(c) ==
    /\ Goto(c, "contains", IF op[c].name = "first" THEN "reset" ELSE "next")
    /\ ContainsSnapshot(op[c].kind, op[c].h)
    /\ UNCHANGED <<stateVars, op, opened, walk>>

\* FIRST resets the iterator; the snapshot may have been closed meanwhile.
Reset(c) ==
    /\ Goto(c, "reset", "next")
    /\ ResetIterator(op[c].kind, op[c].h)
    /\ Disturb(c, IF ContainsSnapshot(op[c].kind, op[c].h)
                  THEN [kind |-> op[c].kind, h |-> op[c].h, seen |-> 0] ELSE None)
    /\ UNCHANGED <<op, opened>>

\* The handler gets a pointer to the next entry ...
NextFound(c) ==
    /\ Goto(c, "next", "deref")
    /\ NextEntry(op[c].kind, op[c].h)
    /\ op' = [op EXCEPT ![c].n = Position(op[c].kind, op[c].h)]
    /\ Disturb(c, IF OnMyWalk(c) THEN [walk[c] EXCEPT !.seen = @ + 1] ELSE walk[c])
    /\ UNCHANGED opened

\* ... or nullptr, and sends the end of the list.
NextEnd(c) ==
    /\ Goto(c, "next", "idle")
    /\ NoNextEntry(op[c].kind, op[c].h)
    /\ Done(c)
    /\ UNCHANGED <<opened, walk>>

\* The entry is read through the pointer and sent, outside any lock.
Dereference(c) ==
    /\ Goto(c, "deref", "idle")
    /\ Done(c)
    /\ UNCHANGED <<stateVars, opened, walk>>

-----------------------------------------------------------------------------
(* CMD_CLOSEHANDLE *)

ReceiveCloseHandle(c, h) ==
    /\ Goto(c, "idle", "idle")
    /\ CloseHandle(h)
    /\ walk' = [d \in Connections |->
                  IF walk[d] # None /\ walk[d].h = h THEN None ELSE walk[d]]
    /\ UNCHANGED <<op, opened>>

-----------------------------------------------------------------------------
(* CMD_READPROCESSMEMORY, CMD_WRITEPROCESSMEMORY, CMD_GETREGIONINFO,       *)
(* CMD_VIRTUALQUERYEX, CMD_VIRTUALQUERYEXFULL, CMD_GETARCHITECTURE         *)

\* CMD_GETREGIONINFO and CMD_VIRTUALQUERYEX take the same path as a "read";
\* "regions" is CMD_VIRTUALQUERYEXFULL.
ReceiveOnProcess(c, name, h) == Receive(c, "check", Op(name, "process", h, -1, 0))

\* The handle as CMD_GETARCHITECTURE receives it: the Linux wrapper receives
\* into its own parameter, so the handler's variable stays -1.
Received(h) == IF Platform = "linux" THEN -1 ELSE h

Architecture(asked, h) == [Op("architecture", "process", h, -1, 0) EXCEPT !.asked = asked]

\* The handle of CMD_GETARCHITECTURE is awaited for a second; an old client
\* sends none (-1).  If none came, or an earlier attempt left EWOULDBLOCK in
\* errno, the handler falls back to the process of an old client; the Winsock
\* error is never equal to EWOULDBLOCK.
ReceiveArchitecture(c, h) ==
    \/ Receive(c, "check", Architecture(h, Received(h)))
    \/ /\ Platform = "linux"
       /\ Receive(c, "legacy", Architecture(h, -1))

\* The fallback's choice takes the place of whatever the client sent.
LegacyHandle(c) ==
    /\ Goto(c, "legacy", "check")
    /\ \E h \in LegacyHandles : op' = [op EXCEPT ![c].h = h]
    /\ UNCHANGED <<stateVars, opened, walk>>

\* The handle has opened no process: the connection is closed.
Refuse(c) ==
    /\ Goto(c, "check", "closed")
    /\ ~ContainsProcess(op[c].h)
    /\ Done(c)
    /\ walk' = [walk EXCEPT ![c] = None]
    /\ UNCHANGED <<stateVars, opened>>

\* Address 0 or size 0: an empty answer without looking at the process.
AnswerEmpty(c) ==
    /\ Goto(c, "check", "idle")
    /\ ContainsProcess(op[c].h)
    /\ op[c].name = "read"
    /\ Done(c)
    /\ UNCHANGED <<stateVars, opened, walk>>

Checked(c) ==
    /\ Goto(c, "check", "getpid")
    /\ ContainsProcess(op[c].h)
    /\ UNCHANGED <<stateVars, op, opened, walk>>

\* getProcessID, in a critical section of its own ...
GetPid(c) ==
    /\ Goto(c, "getpid", "device")
    /\ op' = [op EXCEPT ![c].pid = GetProcessID(op[c].h)]
    /\ UNCHANGED <<stateVars, opened, walk>>

\* ... and the call of the memory service with it.  Its outcome is answered,
\* and the connection stays unless a write failed.
Device(c) ==
    /\ \/ Goto(c, "device", "idle") /\ UNCHANGED walk
       \/ /\ op[c].name = "write"
          /\ Goto(c, "device", "closed")
          /\ walk' = [walk EXCEPT ![c] = None]
    /\ Done(c)
    /\ UNCHANGED <<stateVars, opened>>

-----------------------------------------------------------------------------
Command(c) ==
    \/ \E k \in Kinds : ReceiveSnapshot(c, k)
    \/ \E p \in Pids : ReceiveOpenProcess(c, p)
    \/ \E h \in Sent \cup {-1} : ReceiveArchitecture(c, h)
    \/ \E h \in Sent    : \/ ReceiveCloseHandle(c, h)
                          \/ \E name \in Walks, k \in Kinds : ReceiveWalk(c, name, k, h)
                          \/ \E name \in OnProcess \ {"architecture"} : ReceiveOnProcess(c, name, h)

Handle(c) ==
    \/ \E n \in 0 .. MaxEntries : Query(c, n)
    \/ \E h \in Handles : Generate(c, h)
    \/ Store(c)
    \/ WalkUnknown(c) \/ WalkKnown(c) \/ Reset(c) \/ NextFound(c) \/ NextEnd(c) \/ Dereference(c)
    \/ LegacyHandle(c) \/ Refuse(c) \/ AnswerEmpty(c) \/ Checked(c) \/ GetPid(c) \/ Device(c)

Next == \E c \in Connections : Accept(c) \/ Disconnect(c) \/ Command(c) \/ Handle(c)

Spec == Init /\ [][Next]_vars

-----------------------------------------------------------------------------
(* Properties *)

\* The handle counter has not passed the largest int yet.
BeforeWrap == issued <= MaxInt

Live(h) == ContainsProcess(h) \/ \E k \in Kinds : ContainsSnapshot(k, h)

\* Until the counter wraps, a handle on its way from generateHandle to the
\* store that uses it is positive (0 means an error to Cheat Engine), no other
\* connection is about to store under it, and it stands for nothing yet; and
\* no handle stands for two things.
HandlesUnique ==
    BeforeWrap =>
        /\ \A c \in Connections : pc[c] = "store" =>
              /\ op[c].h >= 1
              /\ ~Live(op[c].h)
              /\ \A d \in Connections : pc[d] = "store" /\ op[d].h = op[c].h => d = c
        /\ \A h \in Handles : /\ ~(ContainsSnapshot("process", h) /\ ContainsSnapshot("module", h))
                              /\ ContainsProcess(h) =>
                                    \A k \in Kinds : ~ContainsSnapshot(k, h)

\* Until the counter wraps, a handle once given out for a process never comes
\* to mean another one, not even after it was closed: a client's stale handle
\* cannot reach a process it was not opened for.
HandleNeverRetargeted ==
    [][BeforeWrap' => \A h \in Handles : opened[h] # None => opened'[h] = opened[h]]_vars

\* The handle that decides the target of a command: the one the client sent,
\* except that CMD_GETARCHITECTURE on Linux never looks at it and works with the
\* one the fallback chose.
DecidingHandle(o) ==
    IF Platform = "linux" /\ o.name = "architecture" THEN o.h ELSE o.asked

\* Until the counter wraps, the memory service is called for the process the
\* handle the client sent was opened for, or for -1 when that handle has been
\* closed between the check and the lookup.  Of CMD_GETARCHITECTURE on Linux
\* this is claimed only for the fallback's handle: the one the client sent is
\* dropped, and the process may be another than the one it was opened for.
DeviceTargetsHandle ==
    BeforeWrap => \A c \in Connections : pc[c] = "device" =>
                     LET h == DecidingHandle(op[c])
                     IN  \/ op[c].pid = opened[h] /\ op[c].pid # -1
                         \/ op[c].pid = -1 /\ ~ContainsProcess(h)

\* The handles as HandleTable has them: one that is generated and not stored
\* yet is still fresh.
InFlight(h) == \E c \in Connections : pc[c] = "store" /\ op[c].h = h

table ==
    [h \in 1 .. MaxInt |->
        [is  |-> IF ContainsProcess(h) THEN "process" ELSE IF Live(h) THEN "list"
                 ELSE IF h > issued \/ InFlight(h) THEN "fresh" ELSE "closed",
         pid |-> GetProcessID(h)]]

\* The calls of the memory service as HandleTable has them, under the handle the
\* handler works with.
calls ==
    [c \in Connections |-> IF pc[c] = "device" THEN [h |-> op[c].h, pid |-> op[c].pid]
                           ELSE [h |-> 0, pid |-> -1]]

Table == INSTANCE HandleTable WITH Handles <- 1 .. MaxInt

\* Until the counter wraps the tables, with their critical sections, closing and
\* stale handles of several connections, keep the promise of HandleTable: what
\* is done takes effect at one instant.
HandleTableKept ==
    Table!Init /\ [][BeforeWrap' /\ Table!tableVars' # Table!tableVars => Table!Next]_(Table!tableVars)

\* The iterator of a snapshot never passes its end, whatever resets, closes and
\* steps of several connections interleave.
IteratorInRange ==
    \A k \in Kinds, h \in Handles :
        ContainsSnapshot(k, h) => Position(k, h) <= snapshots[k][h]

\* Until the counter wraps, a walk with which no other connection interferes
\* delivers the entries in order and each once: the iterator stands where the
\* walk is.
UndisturbedWalkInOrder ==
    BeforeWrap => \A c \in Connections : walk[c] # None =>
                     /\ ContainsSnapshot(walk[c].kind, walk[c].h)
                     /\ Position(walk[c].kind, walk[c].h) = walk[c].seen
                     /\ pc[c] = "deref" /\ OnMyWalk(c) => op[c].n = walk[c].seen - 1

\* The pointer a handler reads an entry through points into a snapshot that
\* still exists.
NoDanglingPointer ==
    \A c \in Connections : pc[c] = "deref" => ContainsSnapshot(op[c].kind, op[c].h)

\* A command on a handle that stands for no process does not reach the memory
\* service.
DeviceGetsProcess == \A c \in Connections : pc[c] = "device" => op[c].pid # -1
=============================================================================
