---------------------------- MODULE AtomicMemory ----------------------------
(***************************************************************************)
(* What Memory::read and Memory::write promise to the connection threads   *)
(* that call them, whatever the batching in between: every call takes      *)
(* effect at one instant between its invocation and its return.  A read    *)
(* is served with the contents the requested address has at that instant,  *)
(* never with contents from before the call; a write changes the target's  *)
(* memory at that instant.  Either may fail, and the failure is reported.  *)
(*                                                                         *)
(* The memory belongs to the analysed process, which changes it whenever   *)
(* it likes (TargetWrite).  Torn is the set of values a read may hand over *)
(* in place of the one it was served with: the empty set for a service     *)
(* that is correct, {Garbage} for one that frees buffers too early.        *)
(***************************************************************************)
CONSTANTS Threads, Requests, Vals, Failed, Written, None, Torn

VARIABLES mem,   \* contents of the target's memory, per address of a process
          st,    \* st[c]: where the call of thread c stands
          want,  \* want[c]: the request of the call of c
          val,   \* val[c]: the outcome c was served with
          ret    \* ret[c]: what the latest call of c returned, until the next one

vars == <<mem, st, want, val, ret>>

\* The address of a process a request is about.
Cell(r) == <<r.pid, r.addr>>
Cells == {Cell(r) : r \in Requests}

Init == /\ mem \in [Cells -> Vals]
        /\ st = [c \in Threads |-> "idle"]
        /\ want = [c \in Threads |-> None]
        /\ val = [c \in Threads |-> None]
        /\ ret = [c \in Threads |-> None]

\* A thread calls read or write.
Invoke(c, r, kind) ==
    /\ st[c] = "idle"
    /\ st' = [st EXCEPT ![c] = kind]
    /\ want' = [want EXCEPT ![c] = r]
    /\ ret' = [ret EXCEPT ![c] = None]
    /\ UNCHANGED <<mem, val>>

\* A thread with no call in progress turns to something else.
Forget(c) ==
    /\ st[c] = "idle"
    /\ ret' = [ret EXCEPT ![c] = None]
    /\ UNCHANGED <<mem, st, want, val>>

\* One access to the device serves every waiting read of request r in C at once.
Serve(C, r) ==
    /\ \A c \in C : st[c] = "reading" /\ want[c] = r
    /\ \E v \in {mem[Cell(r)], Failed} :
          val' = [c \in Threads |-> IF c \in C THEN v ELSE val[c]]
    /\ st' = [c \in Threads |-> IF c \in C THEN "served" ELSE st[c]]
    /\ UNCHANGED <<mem, want, ret>>

\* The write of thread c takes effect, or fails and leaves the memory alone.
Apply(c) ==
    /\ st[c] = "writing"
    /\ st' = [st EXCEPT ![c] = "served"]
    /\ \/ /\ \E v \in Vals : mem' = [mem EXCEPT ![Cell(want[c])] = v]
          /\ val' = [val EXCEPT ![c] = Written]
       \/ /\ UNCHANGED mem
          /\ val' = [val EXCEPT ![c] = Failed]
    /\ UNCHANGED <<want, ret>>

\* The call returns the outcome it was served with.
Return(c) ==
    /\ st[c] = "served"
    /\ \E v \in {val[c]} \cup Torn : ret' = [ret EXCEPT ![c] = v]
    /\ st' = [st EXCEPT ![c] = "idle"]
    /\ val' = [val EXCEPT ![c] = None]
    /\ want' = [want EXCEPT ![c] = None]
    /\ UNCHANGED mem

\* The analysed process changes its own memory.
TargetWrite(x, v) ==
    /\ mem' = [mem EXCEPT ![x] = v]
    /\ UNCHANGED <<st, want, val, ret>>

Next == \/ \E c \in Threads, r \in Requests, kind \in {"reading", "writing"} : Invoke(c, r, kind)
        \/ \E C \in SUBSET Threads, r \in Requests : Serve(C, r)
        \/ \E c \in Threads : Apply(c) \/ Return(c) \/ Forget(c)
        \/ \E x \in Cells, v \in Vals : TargetWrite(x, v)

Spec == Init /\ [][Next]_vars
=============================================================================
