-------------------------- MODULE HandleRefinement --------------------------
(***************************************************************************)
(* Proof that the tables of Client implement HandleTable until the handle  *)
(* counter wraps: a handle is given out at the store that uses it, closed  *)
(* in the one critical section of closeHandle, and a call of the memory    *)
(* service is made at the lookup of its process id.  Every other step of a *)
(* handler is invisible.                                                   *)
(***************************************************************************)
EXTENDS ClientProofs

\* A handle ever opened for a process never stands for a list, so that closing
\* it leaves nothing.
NeverAList ==
    BeforeWrap => \A h \in Handles : opened[h] # None => \A k \in Kinds : ~ContainsSnapshot(k, h)

TableInv == Inv /\ NeverAList

\* What a step may do to the table and the calls.
Kept == BeforeWrap' => Table!Next \/ UNCHANGED Table!tableVars

-----------------------------------------------------------------------------
(* The strengthened invariant *)

\* A step that adds no snapshot and opens nothing.
LEMMA NoNewMeaning ==
    ASSUME TableInv, BeforeWrap' => BeforeWrap, opened' = opened,
           \A k \in Kinds, h \in Handles :
              snapshots'[k][h] = None \/ snapshots'[k][h] = snapshots[k][h]
    PROVE  NeverAList'
BY DEF TableInv, NeverAList, ContainsSnapshot

LEMMA StoreNeverAList ==
    ASSUME TableInv, NEW c \in Connections, Store(c)
    PROVE  NeverAList'
<1> SUFFICES ASSUME BeforeWrap', NEW g \in Handles, opened'[g] # None, NEW j \in Kinds
             PROVE  snapshots'[j][g] = None
  BY DEF NeverAList, ContainsSnapshot
<1>1. BeforeWrap /\ Inv
  BY DEF BeforeWrap, Store, StoreOpenProcess, StoreSnapshot, TableInv
<1>2. op[c].h \in Handles /\ op[c].kind \in Kinds
  BY <1>1, CommandFacts DEF Inv
<1>3. opened[op[c].h] = None /\ snapshots[j][op[c].h] = None
  BY <1>1 DEF Inv, HandleInv, InFlightInv, Store, Goto, Live, ContainsSnapshot
<1>4. opened[g] # None => snapshots[j][g] = None
  BY <1>1 DEF TableInv, NeverAList, ContainsSnapshot
<1> QED
  BY <1>1, <1>2, <1>3, <1>4
  DEF Inv, TypeOK, StateTypeOK, Store, StoreOpenProcess, StoreSnapshot

LEMMA CloseNeverAList ==
    ASSUME TableInv, NEW c \in Connections, NEW h \in Sent, ReceiveCloseHandle(c, h)
    PROVE  NeverAList'
<1>1. \A k \in Kinds, g \in Handles :
         snapshots'[k][g] = None \/ snapshots'[k][g] = snapshots[k][g]
  BY DEF TableInv, Inv, TypeOK, StateTypeOK, ReceiveCloseHandle, CloseHandle
<1> QED
  BY <1>1, NoNewMeaning DEF ReceiveCloseHandle, CloseHandle, BeforeWrap

\* Every other step leaves the snapshots and what was opened alone; the
\* counter only grows.
LEMMA OtherSteps ==
    ASSUME Inv, NEW c \in Connections,
           Accept(c) \/ Disconnect(c) \/ Command(c) \/ Handle(c),
           ~Store(c), \A h \in Sent : ~ReceiveCloseHandle(c, h)
    PROVE  UNCHANGED <<snapshots, processes, opened>> /\ (BeforeWrap' => BeforeWrap)
<1> USE DEF stateVars, BeforeWrap
<1>1. CASE Accept(c) \/ Disconnect(c)
  BY <1>1 DEF Accept, Disconnect
<1>2. CASE Command(c)
  BY <1>2 DEF Command, Receive, ReceiveSnapshot, ReceiveOpenProcess, ReceiveArchitecture,
              ReceiveWalk, ReceiveOnProcess
<1>3. ASSUME NEW h \in Handles, Generate(c, h)
      PROVE  UNCHANGED <<snapshots, processes, opened>> /\ (BeforeWrap' => BeforeWrap)
  BY <1>3, MaxIntAssumption DEF Generate, GenerateHandle, Inv, TypeOK, StateTypeOK
<1>4. CASE Handle(c) /\ \A h \in Handles : ~Generate(c, h)
  BY <1>4 DEF Handle, Query, WalkUnknown, WalkKnown, Reset, ResetIterator, NextFound, NextEntry,
              NextEnd, NoNextEntry, Dereference, LegacyHandle, Refuse, AnswerEmpty, Checked,
              GetPid, Device
<1> QED
  BY <1>1, <1>2, <1>3, <1>4

LEMMA InitTable == Init => TableInv
BY InitInv DEF Init, StateInit, TableInv, NeverAList

LEMMA NextTable == TableInv /\ [Next]_vars => TableInv'
<1> SUFFICES ASSUME TableInv, [Next]_vars PROVE TableInv'
  OBVIOUS
<1>1. Inv /\ Inv'
  BY NextInv DEF TableInv
<1>2. ASSUME NEW c \in Connections, Accept(c) \/ Disconnect(c) \/ Command(c) \/ Handle(c),
             ~Store(c), \A h \in Sent : ~ReceiveCloseHandle(c, h)
      PROVE  NeverAList'
  BY <1>1, <1>2, OtherSteps, NoNewMeaning
<1>3. ASSUME UNCHANGED vars PROVE NeverAList'
  BY <1>3 DEF vars, stateVars, clientVars, BeforeWrap, TableInv, NeverAList, ContainsSnapshot
<1>4. ASSUME NEW c \in Connections, Accept(c) \/ Disconnect(c) \/ Command(c) \/ Handle(c)
      PROVE  NeverAList'
  BY <1>2, <1>4, StoreNeverAList, CloseNeverAList
<1>5. NeverAList'
  BY <1>3, <1>4 DEF Next
<1> QED
  BY <1>1, <1>5 DEF TableInv

-----------------------------------------------------------------------------
(* Invisible steps *)

\* The table depends on the contents of the maps, the counter and the handles
\* between generateHandle and their store.
LEMMA SameTable ==
    ASSUME UNCHANGED <<snapshots, processes>>,
           \A h \in 1 .. MaxInt : (h > issued \/ InFlight(h))' <=> (h > issued \/ InFlight(h))
    PROVE  table' = table
BY DEF table, Live, ContainsProcess, ContainsSnapshot, GetProcessID

LEMMA SameCalls ==
    ASSUME TypeOK, NEW c \in Connections, NEW to, NEW o,
           pc' = [pc EXCEPT ![c] = to], op' = [op EXCEPT ![c] = o],
           pc[c] # "device", to # "device"
    PROVE  calls' = calls
BY DEF TypeOK, calls

\* A step that leaves the maps and the counter alone and neither generates a
\* handle nor stores under one.
LEMMA QuietTable ==
    ASSUME TypeOK, NEW c \in Connections, NEW to, NEW o,
           UNCHANGED <<issued, snapshots, processes>>,
           pc' = [pc EXCEPT ![c] = to], op' = [op EXCEPT ![c] = o],
           pc[c] # "store", to # "store"
    PROVE  table' = table
<1>1. \A h \in 1 .. MaxInt : InFlight(h)' <=> InFlight(h)
  BY DEF TypeOK, InFlight
<1> QED
  BY <1>1, SameTable

LEMMA QuietKept ==
    ASSUME TypeOK, NEW c \in Connections, NEW to, NEW o,
           UNCHANGED <<issued, snapshots, processes>>,
           pc' = [pc EXCEPT ![c] = to], op' = [op EXCEPT ![c] = o],
           pc[c] # "store", to # "store", pc[c] # "device", to # "device"
    PROVE  Kept
BY QuietTable, SameCalls DEF Kept, Table!tableVars

\* The handle generateHandle returns was fresh and stays so until its store.
LEMMA GenerateKept ==
    ASSUME TableInv, NEW c \in Connections, NEW h \in Handles, Generate(c, h)
    PROVE  Kept
<1> SUFFICES ASSUME BeforeWrap' PROVE table' = table /\ calls' = calls
  BY DEF Kept, Table!tableVars
<1>0. TypeOK /\ issued \in Nat /\ issued' = issued + 1
  BY DEF TableInv, Inv, TypeOK, StateTypeOK, Generate, GenerateHandle
<1>1. BeforeWrap /\ CounterInv /\ issued < MaxInt
  BY <1>0, MaxIntAssumption DEF BeforeWrap, TableInv, Inv, HandleInv
<1>2. h = issued + 1
  BY <1>0, <1>1, IncrementedType, MaxIntAssumption
  DEF Generate, GenerateHandle, CounterInv, TypeOK, StateTypeOK
<1>3. \A d \in Connections :
         /\ pc'[d] = IF d = c THEN "store" ELSE pc[d]
         /\ op'[d].h = IF d = c THEN h ELSE op[d].h
  BY <1>0, CommandFacts DEF Generate, Goto, TypeOK, OpType
<1>4. pc[c] = "generate"
  BY DEF Generate, Goto
<1>5. ASSUME NEW g \in 1 .. MaxInt
      PROVE  (g > issued \/ InFlight(g))' <=> (g > issued \/ InFlight(g))
  BY <1>0, <1>2, <1>3, <1>4 DEF InFlight
<1>6. table' = table
  BY <1>5, SameTable DEF Generate, GenerateHandle
<1>7. calls' = calls
  BY <1>0, <1>4, SameCalls DEF Generate, Goto
<1> QED
  BY <1>6, <1>7

-----------------------------------------------------------------------------
(* Steps of HandleTable *)

\* The store gives its handle out, for the process or for the list.
LEMMA StoreKept ==
    ASSUME TableInv, NEW c \in Connections, Store(c)
    PROVE  Kept
<1> SUFFICES ASSUME BeforeWrap' PROVE Table!Next
  BY DEF Kept
<1> DEFINE h == op[c].h
<1>0. /\ TypeOK /\ BeforeWrap /\ InFlightInv /\ op[c].kind \in Kinds
      /\ issued \in Nat /\ issued' = issued
      /\ pc[c] = "store" /\ op[c].pid \in Pids \cup {-1}
  BY CommandFacts DEF BeforeWrap, Store, StoreOpenProcess, StoreSnapshot, Goto, TableInv, Inv,
     HandleInv, TypeOK, StateTypeOK
<1>1. h \in 1 .. MaxInt /\ h \in Handles /\ h <= issued
  BY <1>0, CommandFacts, MaxIntAssumption DEF InFlightInv, Handles, MinInt, BeforeWrap
<1>2. /\ processes[h] = None /\ \A k \in Kinds : snapshots[k][h] = None
      /\ \A d \in Connections \ {c} : pc[d] = "store" => op[d].h # h
  BY <1>0 DEF InFlightInv, Live, ContainsProcess, ContainsSnapshot
<1>3. /\ pc'[c] = "idle"
      /\ \A d \in Connections \ {c} : pc'[d] = pc[d] /\ op'[d] = op[d]
  BY <1>0 DEF Store, Goto, Done, TypeOK
<1>4. \A g \in 1 .. MaxInt : g # h => (InFlight(g)' <=> InFlight(g))
  BY <1>0, <1>3 DEF InFlight
<1>5. \A g \in Handles : g # h => /\ processes'[g] = processes[g]
                                  /\ \A k \in Kinds : snapshots'[k][g] = snapshots[k][g]
  BY <1>0, <1>1 DEF Store, StoreOpenProcess, StoreSnapshot, TypeOK, StateTypeOK
<1>6. \A g \in 1 .. MaxInt : g # h => table'[g] = table[g]
  <2>1. ASSUME NEW g \in 1 .. MaxInt, g # h PROVE table'[g] = table[g]
    <3>1. g \in Handles
      BY DEF Handles
    <3> QED
      BY <1>0, <1>4, <1>5, <2>1, <3>1 DEF table, Live, ContainsProcess, ContainsSnapshot, GetProcessID
  <2> QED
    BY <2>1
<1>7. table[h].is = "fresh"
  BY <1>0, <1>1, <1>2 DEF table, Live, ContainsProcess, ContainsSnapshot, InFlight
<1>8. table'[h] \in {Table!Entry("list", -1)} \cup {Table!Entry("process", p) : p \in Pids}
  <2>1. CASE op[c].name = "open"
    <3>1. op[c].pid \in Pids
      BY <1>0, <2>1 DEF TypeOK, OpenOp
    <3>2. op[c].pid # None
      <4>1. op[c].pid \in 0 .. MaxInt
        BY <3>1, PidsAssumption, Zenon
      <4>2. None \notin Int
        BY PidsAssumption
      <4>3. 0 .. MaxInt \subseteq Int
        BY MaxIntAssumption
      <4> QED
        BY <4>1, <4>2, <4>3, Zenon
    <3>3. processes'[h] = op[c].pid
      BY <1>0, <1>1, <2>1 DEF Store, StoreOpenProcess, TypeOK, StateTypeOK
    <3> QED
      BY <1>1, <3>1, <3>2, <3>3 DEF table, ContainsProcess, GetProcessID, Table!Entry
  <2>2. CASE op[c].name = "snapshot"
    <3>1. op[c].n # None
      BY <1>0, CommandFacts, PidsAssumption, MaxEntriesAssumption
    <3>2. processes'[h] = None /\ snapshots'[op[c].kind][h] # None
      BY <1>0, <1>1, <1>2, <2>2, <3>1 DEF Store, StoreSnapshot, TypeOK, StateTypeOK
    <3> QED
      BY <1>0, <1>1, <3>2 DEF table, Live, ContainsProcess, ContainsSnapshot, GetProcessID, Table!Entry
  <2> QED
    BY <2>1, <2>2 DEF Store
<1>9. table' = [table EXCEPT ![h] = table'[h]]
  BY <1>1, <1>6 DEF table
<1>10. calls' = calls
  BY <1>0, SameCalls DEF Store, Goto, Done
<1> HIDE DEF h
<1>11. Table!Give(h)
  BY <1>7, <1>8, <1>9, <1>10 DEF Table!Give
<1> QED
  BY <1>1, <1>11 DEF Table!Next

\* Closing a handle that stands for something closes it in the table; closing
\* any other, a stale or foreign one or one on its way to its store, does
\* nothing.
LEMMA CloseKept ==
    ASSUME TableInv, NEW c \in Connections, NEW h \in Sent, ReceiveCloseHandle(c, h)
    PROVE  Kept
<1> SUFFICES ASSUME BeforeWrap' PROVE Table!Next \/ UNCHANGED Table!tableVars
  BY DEF Kept
<1>0. /\ TypeOK /\ BeforeWrap /\ CounterInv /\ InFlightInv /\ OneMeaningInv
      /\ issued \in Nat /\ issued' = issued /\ pc' = pc /\ op' = op
  BY DEF BeforeWrap, ReceiveCloseHandle, CloseHandle, Goto, TableInv, Inv, HandleInv, TypeOK,
         StateTypeOK
<1>1. h \in Handles
  BY DEF Sent, Handles
<1>2. /\ processes'[h] = None /\ \A k \in Kinds : snapshots'[k][h] = None
      /\ \A g \in Handles : g # h => /\ processes'[g] = processes[g]
                                     /\ \A k \in Kinds : snapshots'[k][g] = snapshots[k][g]
  BY <1>0, <1>1 DEF ReceiveCloseHandle, CloseHandle, TypeOK, StateTypeOK
<1>3. \A g \in 1 .. MaxInt : InFlight(g)' <=> InFlight(g)
  BY <1>0 DEF InFlight
<1>4. calls' = calls
  BY <1>0 DEF calls
<1> USE DEF Live, ContainsProcess, ContainsSnapshot, GetProcessID
<1>5. \A g \in 1 .. MaxInt : g # h => table'[g] = table[g]
  <2>1. ASSUME NEW g \in 1 .. MaxInt, g # h PROVE table'[g] = table[g]
    <3>1. g \in Handles
      BY DEF Handles
    <3> QED
      BY <1>0, <1>2, <1>3, <2>1, <3>1 DEF table
  <2> QED
    BY <2>1
<1>6. CASE Live(h)
  <2>1. h \in 1 .. MaxInt /\ h <= issued
    BY <1>0, <1>1, <1>6, MaxIntAssumption DEF CounterInv, Handles, MinInt, BeforeWrap
  <2>2. ~InFlight(h)
    BY <1>0, <1>6 DEF InFlight, InFlightInv
  <2>3. table[h].is \in {"process", "list"}
    BY <1>6, <2>1 DEF table
  <2>4. table'[h] = Table!Entry("closed", -1)
    BY <1>0, <1>2, <1>3, <2>1, <2>2 DEF table, Table!Entry
  <2>5. table' = [table EXCEPT ![h] = Table!Entry("closed", -1)]
    BY <1>5, <2>1, <2>4 DEF table
  <2>6. Table!Close(h)
    BY <1>4, <2>3, <2>5 DEF Table!Close
  <2> QED
    BY <2>1, <2>6 DEF Table!Next
<1>7. CASE ~Live(h)
  <2>1. h \in 1 .. MaxInt => table'[h] = table[h]
    BY <1>0, <1>2, <1>3, <1>7 DEF table
  <2>2. table' = table
    BY <1>5, <2>1 DEF table
  <2> QED
    BY <1>4, <2>2 DEF Table!tableVars
<1> QED
  BY <1>6, <1>7

\* The lookup of the process id begins a call for the handle's process, or for
\* none when the handle was closed after the check.
LEMMA GetPidKept ==
    ASSUME TableInv, NEW c \in Connections, GetPid(c)
    PROVE  Kept
<1> SUFFICES ASSUME BeforeWrap' PROVE Table!Next
  BY DEF Kept
<1> DEFINE h == op[c].h
<1>0. /\ TypeOK /\ BeforeWrap /\ CounterInv /\ InFlightInv /\ CheckedInv /\ NeverAList
      /\ UNCHANGED <<issued, snapshots, processes>>
      /\ pc[c] = "getpid" /\ issued \in Nat
  BY DEF BeforeWrap, GetPid, Goto, stateVars, TableInv, Inv, HandleInv, TypeOK, StateTypeOK
<1>1. h \in Handles /\ opened[h] # None
  BY <1>0, CommandFacts DEF CheckedInv
<1>2. h \in 1 .. MaxInt /\ h <= issued
  BY <1>0, <1>1, MaxIntAssumption DEF CounterInv, Handles, MinInt, BeforeWrap
<1>3. ~InFlight(h)
  BY <1>0, <1>1 DEF InFlight, InFlightInv
<1>4. \A k \in Kinds : ~ContainsSnapshot(k, h)
  BY <1>0, <1>1 DEF NeverAList
<1>5. table[h].is \in {"process", "closed"} /\ table[h].pid = GetProcessID(h)
  BY <1>0, <1>2, <1>3, <1>4 DEF table, Live
<1>6. /\ pc'[c] = "device" /\ op'[c].h = h /\ op'[c].pid = GetProcessID(h)
      /\ \A d \in Connections \ {c} : pc'[d] = pc[d] /\ op'[d] = op[d]
  BY <1>0, CommandFacts DEF GetPid, Goto, TypeOK, OpType
<1> HIDE DEF h
<1>7. calls[c] = Table!NoCall
  BY <1>0 DEF calls, Table!NoCall, Table!Call
<1>8. calls' = [calls EXCEPT ![c] = Table!Call(h, GetProcessID(h))]
  BY <1>6 DEF calls, Table!Call
<1>9. table' = table
  BY <1>0, QuietTable DEF GetPid, Goto
<1>10. Table!Begin(c, h)
  BY <1>5, <1>7, <1>8, <1>9 DEF Table!Begin
<1> QED
  BY <1>2, <1>10 DEF Table!Next

\* The memory service returns.
LEMMA DeviceKept ==
    ASSUME TableInv, NEW c \in Connections, Device(c)
    PROVE  Kept
<1> SUFFICES ASSUME BeforeWrap' PROVE Table!Next
  BY DEF Kept
<1>0. /\ TypeOK /\ BeforeWrap /\ CounterInv /\ CheckedInv
      /\ UNCHANGED <<issued, snapshots, processes>>
      /\ pc[c] = "device" /\ op[c].h \in Handles
  BY CommandFacts DEF BeforeWrap, Device, Goto, stateVars, TableInv, Inv, HandleInv
<1>1. op[c].h # 0
  BY <1>0 DEF CheckedInv, CounterInv
<1>2. PICK to \in {"idle", "closed"} : pc' = [pc EXCEPT ![c] = to]
  BY DEF Device, Goto
<1>3. op' = [op EXCEPT ![c] = NoOp]
  BY DEF Device, Done
<1>4. table' = table
  BY <1>0, <1>2, <1>3, QuietTable
<1>5. calls[c] # Table!NoCall
  BY <1>0, <1>1 DEF calls, Table!NoCall, Table!Call
<1>6. calls' = [calls EXCEPT ![c] = Table!NoCall]
  BY <1>0, <1>2, <1>3 DEF TypeOK, calls, Table!NoCall, Table!Call
<1>7. Table!Return(c)
  BY <1>4, <1>5, <1>6 DEF Table!Return
<1> QED
  BY <1>7 DEF Table!Next

-----------------------------------------------------------------------------
(* The refinement *)

LEMMA ReceiveKept ==
    ASSUME TypeOK, NEW c \in Connections, NEW o,
           NEW to \in {"query", "generate", "contains", "check", "legacy"}, Receive(c, to, o)
    PROVE  Kept
BY QuietKept DEF Receive, Goto, stateVars

LEMMA CommandKept ==
    ASSUME TableInv, NEW c \in Connections, Command(c)
    PROVE  Kept
<1>0. TypeOK
  BY DEF TableInv, Inv
<1>1. CASE \E h \in Sent : ReceiveCloseHandle(c, h)
  BY <1>1, CloseKept
<1>2. CASE ~\E h \in Sent : ReceiveCloseHandle(c, h)
  <2>1. \E to \in {"query", "generate", "contains", "check", "legacy"} : \E o : Receive(c, to, o)
    BY <1>2 DEF Command, ReceiveSnapshot, ReceiveOpenProcess, ReceiveArchitecture, ReceiveWalk,
                ReceiveOnProcess
  <2> QED
    BY <1>0, <2>1, ReceiveKept
<1> QED
  BY <1>1, <1>2

LEMMA HandleKept ==
    ASSUME TableInv, NEW c \in Connections, Handle(c)
    PROVE  Kept
<1>0. TypeOK
  BY DEF TableInv, Inv
<1> USE DEF Goto, Done, stateVars
<1>1. ASSUME NEW n \in 0 .. MaxEntries, Query(c, n) PROVE Kept
  BY <1>0, <1>1, QuietKept DEF Query
<1>2. CASE WalkUnknown(c)
  BY <1>0, <1>2, QuietKept DEF WalkUnknown
<1>3. CASE WalkKnown(c)
  <2>1. op' = [op EXCEPT ![c] = op[c]]
    BY <1>0, <1>3 DEF WalkKnown, TypeOK
  <2> QED
    BY <1>0, <1>3, <2>1, QuietKept DEF WalkKnown
<1>4. CASE Reset(c)
  <2>1. op' = [op EXCEPT ![c] = op[c]]
    BY <1>0, <1>4 DEF Reset, TypeOK
  <2> QED
    BY <1>0, <1>4, <2>1, QuietKept DEF Reset, ResetIterator
<1>5. CASE NextFound(c)
  BY <1>0, <1>5, QuietKept DEF NextFound, NextEntry
<1>6. CASE NextEnd(c)
  BY <1>0, <1>6, QuietKept DEF NextEnd, NoNextEntry
<1>7. CASE Dereference(c)
  BY <1>0, <1>7, QuietKept DEF Dereference
<1>8. CASE LegacyHandle(c)
  BY <1>0, <1>8, QuietKept DEF LegacyHandle
<1>9. CASE Refuse(c)
  BY <1>0, <1>9, QuietKept DEF Refuse
<1>10. CASE AnswerEmpty(c)
  BY <1>0, <1>10, QuietKept DEF AnswerEmpty
<1>11. CASE Checked(c)
  <2>1. op' = [op EXCEPT ![c] = op[c]]
    BY <1>0, <1>11 DEF Checked, TypeOK
  <2> QED
    BY <1>0, <1>11, <2>1, QuietKept DEF Checked
<1> QED
  BY <1>1, <1>2, <1>3, <1>4, <1>5, <1>6, <1>7, <1>8, <1>9, <1>10, <1>11, GenerateKept, StoreKept,
     GetPidKept, DeviceKept DEF Handle

LEMMA InitKept == Init => Table!Init
BY DEF Init, StateInit, Table!Init, Table!Entry, Table!NoCall, Table!Call, table, calls, Live,
       ContainsProcess, ContainsSnapshot, GetProcessID, Handles, Kinds

LEMMA NextKept == TableInv /\ [Next]_vars => Kept
<1> SUFFICES ASSUME TableInv, [Next]_vars PROVE Kept
  OBVIOUS
<1>0. TypeOK /\ \A c \in Connections : op = [op EXCEPT ![c] = op[c]]
  BY DEF TableInv, Inv, TypeOK
<1>1. ASSUME NEW c \in Connections, Accept(c) \/ Disconnect(c) PROVE Kept
  BY <1>0, <1>1, QuietKept DEF Accept, Disconnect, Goto, stateVars
<1>2. CASE UNCHANGED vars
  BY <1>2 DEF Kept, Table!tableVars, vars, stateVars, clientVars, table, calls, InFlight, Live,
              ContainsProcess, ContainsSnapshot, GetProcessID
<1> QED
  BY <1>1, <1>2, CommandKept, HandleKept DEF Next

\* Every reachable state satisfies the strengthened invariant.
THEOREM TableInvariance == Spec => []TableInv
BY InitTable, NextTable, PTL DEF Spec

\* Until the counter wraps, the tables shared by any number of connections
\* implement HandleTable: handles are given out once, closed once and for good,
\* and a call of the memory service is for the process of its handle.
THEOREM KeepsHandleTable == Spec => HandleTableKept
<1>1. TableInv /\ [Next]_vars =>
        [BeforeWrap' /\ Table!tableVars' # Table!tableVars => Table!Next]_(Table!tableVars)
  BY NextKept DEF Kept
<1> QED
  BY <1>1, InitKept, TableInvariance, PTL DEF Spec, HandleTableKept
=============================================================================
