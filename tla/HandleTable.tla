---------------------------- MODULE HandleTable ----------------------------
(***************************************************************************)
(* What the handles of ClientState promise the clients, without snapshots, *)
(* iterators, counters or critical sections: a handle is given out once,   *)
(* for one process or one list, and when it is closed it is closed for     *)
(* good.  A call of the memory service is made for the process of a        *)
(* handle, or for none (-1) when the handle was closed under way.          *)
(***************************************************************************)
EXTENDS Integers

CONSTANTS Connections, Pids, Handles

VARIABLES
    table,  \* table[h]: what handle h stands for
    calls   \* calls[c]: the call of the memory service connection c is making

tableVars == <<table, calls>>

Entry(is, pid) == [is |-> is, pid |-> pid]
Call(h, pid) == [h |-> h, pid |-> pid]
NoCall == Call(0, -1)

Init ==
    /\ table = [h \in Handles |-> Entry("fresh", -1)]
    /\ calls = [c \in Connections |-> NoCall]

\* A fresh handle is given out for a process or for a list, ...
Give(h) ==
    /\ table[h].is = "fresh"
    /\ \E e \in {Entry("list", -1)} \cup {Entry("process", p) : p \in Pids} :
          table' = [table EXCEPT ![h] = e]
    /\ UNCHANGED calls

\* ... and closed once.
Close(h) ==
    /\ table[h].is \in {"process", "list"}
    /\ table' = [table EXCEPT ![h] = Entry("closed", -1)]
    /\ UNCHANGED calls

Begin(c, h) ==
    /\ calls[c] = NoCall
    /\ table[h].is \in {"process", "closed"}
    /\ calls' = [calls EXCEPT ![c] = Call(h, table[h].pid)]
    /\ UNCHANGED table

Return(c) ==
    /\ calls[c] # NoCall
    /\ calls' = [calls EXCEPT ![c] = NoCall]
    /\ UNCHANGED table

Next ==
    \/ \E h \in Handles : Give(h) \/ Close(h)
    \/ \E c \in Connections : Return(c) \/ \E h \in Handles : Begin(c, h)

Spec == Init /\ [][Next]_tableVars
=============================================================================
