---------------------------- MODULE ClientProofs ----------------------------
(***************************************************************************)
(* Proofs about the handles of Client and ClientState, for any number of   *)
(* connections, process ids and entries and any size of int: types, the    *)
(* uniqueness of handles, what a handle can refer to, and the iterators of *)
(* the snapshots.                                                          *)
(***************************************************************************)
EXTENDS Client, TLAPS

-----------------------------------------------------------------------------
(* The inductive invariant *)

\* Until the counter wraps it counts the handles, and every handle in use or
\* ever used for a process was counted.
CounterInv ==
    /\ lastHandleID = issued
    /\ \A h \in Handles : Live(h) \/ opened[h] # None => 1 <= h /\ h <= issued

\* A handle between generateHandle and its store belongs to one connection and
\* has never been used.
InFlightInv ==
    \A c \in Connections : pc[c] = "store" =>
        /\ 1 <= op[c].h /\ op[c].h <= issued
        /\ ~Live(op[c].h)
        /\ opened[op[c].h] = None
        /\ \A d \in Connections : pc[d] = "store" /\ op[d].h = op[c].h => d = c

\* A handle stands for one thing, and for the process it was opened for.
OneMeaningInv ==
    \A h \in Handles :
        /\ ~(ContainsSnapshot("process", h) /\ ContainsSnapshot("module", h))
        /\ ContainsProcess(h) => /\ \A k \in Kinds : ~ContainsSnapshot(k, h)
                                 /\ opened[h] = processes[h]

\* A command past the check works on a handle that was opened.
CheckedInv ==
    \A c \in Connections :
        /\ pc[c] \in {"getpid", "device"} => opened[op[c].h] # None
        /\ pc[c] = "device" => \/ op[c].pid = opened[op[c].h]
                               \/ op[c].pid = -1 /\ ~ContainsProcess(op[c].h)

HandleInv == BeforeWrap => CounterInv /\ InFlightInv /\ OneMeaningInv /\ CheckedInv

Inv == TypeOK /\ HandleInv

-----------------------------------------------------------------------------
\* The increment of the handle counter stays in the range of handles, and
\* before the wrap is the successor.
LEMMA IncrementedType ==
    ASSUME NEW n \in Handles \ {-1}, NEW h \in Incremented(n)
    PROVE  /\ h \in Handles \ {-1}
           /\ 0 <= n /\ n < MaxInt => h = n + 1
BY MaxIntAssumption DEF Handles, MinInt, Incremented

\* An empty command is a command.
LEMMA NoOpType == NoOp \in OpType /\ NoOp.name # "open"
BY MaxEntriesAssumption DEF NoOp, Op, OpType, Names, Kinds, Handles

LEMMA InitInv == Init => Inv
<1> SUFFICES ASSUME Init PROVE Inv
  OBVIOUS
<1> USE DEF Init, StateInit
<1>1. 0 \in Handles \ {-1}
  BY MaxIntAssumption DEF Handles, MinInt
<1>2. TypeOK
  BY <1>1, NoOpType DEF TypeOK, StateTypeOK
<1>3. HandleInv
  BY DEF HandleInv, CounterInv, InFlightInv, OneMeaningInv, CheckedInv, Live,
         ContainsProcess, ContainsSnapshot, Kinds
<1> QED
  BY <1>2, <1>3 DEF Inv

-----------------------------------------------------------------------------
(* Types *)

LEMMA ReceiveType ==
    ASSUME TypeOK, NEW c \in Connections, NEW o \in OpType,
           NEW to \in {"query", "generate", "contains", "check", "legacy"}, Receive(c, to, o),
           o.name = "open" => OpenOp(to, o)
    PROVE  TypeOK'
BY DEF Receive, Goto, TypeOK, StateTypeOK, stateVars, OpenOp

LEMMA CommandType == \A c \in Connections : TypeOK /\ Command(c) => TypeOK'
<1> SUFFICES ASSUME NEW c \in Connections, TypeOK, Command(c) PROVE TypeOK'
  OBVIOUS
<1> USE MaxEntriesAssumption, MaxIntAssumption
    DEF OpenOp, Op, OpType, Names, Opens, Snapshots, Walks, OnProcess, Kinds, Handles, Sent
<1>1. ASSUME NEW k \in Kinds, ReceiveSnapshot(c, k) PROVE TypeOK'
  BY <1>1, ReceiveType DEF ReceiveSnapshot
<1>2. ASSUME NEW p \in Pids, ReceiveOpenProcess(c, p) PROVE TypeOK'
  BY <1>2, ReceiveType DEF ReceiveOpenProcess
<1>3. ASSUME NEW h \in Sent \cup {-1}, ReceiveArchitecture(c, h) PROVE TypeOK'
  <2>1. \A g \in Handles : /\ Architecture(h, g) \in OpType
                           /\ Architecture(h, g).name # "open"
    BY DEF Architecture
  <2>2. Received(h) \in Handles /\ -1 \in Handles
    BY DEF Received
  <2> QED
    BY <1>3, <2>1, <2>2, ReceiveType DEF ReceiveArchitecture
<1>4. ASSUME NEW h \in Sent, NEW name \in Walks, NEW k \in Kinds, ReceiveWalk(c, name, k, h)
      PROVE TypeOK'
  BY <1>4, ReceiveType DEF ReceiveWalk
<1>5. ASSUME NEW h \in Sent, NEW name \in OnProcess \ {"architecture"},
             ReceiveOnProcess(c, name, h)
      PROVE TypeOK'
  BY <1>5, ReceiveType DEF ReceiveOnProcess
<1>6. ASSUME NEW h \in Sent, ReceiveCloseHandle(c, h) PROVE TypeOK'
  BY <1>6 DEF ReceiveCloseHandle, CloseHandle, Goto, TypeOK, StateTypeOK
<1> QED
  BY <1>1, <1>2, <1>3, <1>4, <1>5, <1>6 DEF Command

LEMMA HandleType == \A c \in Connections : TypeOK /\ Handle(c) => TypeOK'
<1> SUFFICES ASSUME NEW c \in Connections, TypeOK, Handle(c) PROVE TypeOK'
  OBVIOUS
<1>0. /\ op[c] \in OpType /\ op[c].kind \in Kinds /\ op[c].h \in Handles
      /\ op[c].pid \in Pids \cup {-1} /\ op[c].n \in 0 .. MaxEntries
  BY DEF TypeOK, OpType
<1> USE <1>0 DEF TypeOK, StateTypeOK, stateVars, Goto, OpenOp
<1>1. ASSUME NEW n \in 0 .. MaxEntries, Query(c, n) PROVE TypeOK'
  BY <1>1 DEF Query, OpType
<1>2. ASSUME NEW h \in Handles, Generate(c, h) PROVE TypeOK'
  <2>1. h \in Handles \ {-1}
    BY <1>2, IncrementedType DEF Generate, GenerateHandle
  <2>2. StateTypeOK'
    BY <1>2, <2>1 DEF Generate, GenerateHandle
  <2>3. op' \in [Connections -> OpType]
    BY <1>2 DEF Generate, OpType
  <2>4. (\A d \in Connections : op[d].name = "open" => OpenOp(pc[d], op[d]))'
    BY <1>2 DEF Generate, OpType
  <2> QED
    BY <1>2, <2>2, <2>3, <2>4 DEF Generate
<1>3. CASE Store(c)
  <2>1. CASE op[c].name = "open"
    BY <1>3, <2>1, NoOpType DEF Store, StoreOpenProcess, Done
  <2>2. CASE op[c].name = "snapshot"
    <3>1. snapshots' \in [Kinds -> [Handles -> (0 .. MaxEntries) \cup {None}]]
      <4>1. PICK x \in (0 .. MaxEntries) \cup {None} :
               snapshots' = [snapshots EXCEPT ![op[c].kind][op[c].h] = x]
        BY <1>3, <2>2 DEF Store, StoreSnapshot
      <4> QED
        BY <4>1
    <3>2. iterators' \in [Kinds -> [Handles -> (0 .. MaxEntries) \cup {None}]]
      <4>1. iterators' = [iterators EXCEPT ![op[c].kind][op[c].h] = 0]
        BY <1>3, <2>2 DEF Store, StoreSnapshot
      <4>2. 0 \in (0 .. MaxEntries) \cup {None}
        BY MaxEntriesAssumption
      <4> QED
        BY <4>1, <4>2
    <3> QED
      BY <1>3, <2>2, <3>1, <3>2, NoOpType DEF Store, StoreSnapshot, Done
  <2> QED
    BY <1>3, <2>1, <2>2 DEF Store
<1>4. CASE WalkUnknown(c)
  BY <1>4, NoOpType DEF WalkUnknown, Done
<1>5. CASE WalkKnown(c)
  BY <1>5 DEF WalkKnown
<1>6. CASE Reset(c)
  BY <1>6, MaxEntriesAssumption DEF Reset, ResetIterator, Disturb, WalkType
<1>7. CASE NextFound(c)
  <2>1. /\ Position(op[c].kind, op[c].h) \in 0 .. MaxEntries
        /\ Position(op[c].kind, op[c].h) + 1 \in 0 .. MaxEntries
    <3>1. /\ snapshots[op[c].kind][op[c].h] \in (0 .. MaxEntries) \cup {None}
          /\ iterators[op[c].kind][op[c].h] \in (0 .. MaxEntries) \cup {None}
      OBVIOUS
    <3>2. HasNext(op[c].kind, op[c].h)
      BY <1>7 DEF NextFound, NextEntry
    <3> QED
      BY <3>1, <3>2, MaxEntriesAssumption DEF HasNext, Position
  <2>2. StateTypeOK'
    BY <1>7, <2>1 DEF NextFound, NextEntry
  <2>3. op' \in [Connections -> OpType]
    BY <1>7, <2>1 DEF NextFound, OpType
  <2>4. (\A d \in Connections : op[d].name = "open" => OpenOp(pc[d], op[d]))'
    BY <1>7 DEF NextFound, OpType
  <2>5. walk' \in [Connections -> WalkType \cup {None}]
    BY <1>7 DEF NextFound, Disturb, WalkType, OnMyWalk
  <2> QED
    BY <1>7, <2>2, <2>3, <2>4, <2>5 DEF NextFound
<1>8. CASE NextEnd(c)
  BY <1>8, NoOpType, MaxEntriesAssumption DEF NextEnd, NoNextEntry, HasNext, Position, Done
<1>9. CASE Dereference(c)
  BY <1>9, NoOpType DEF Dereference, Done
<1>10. CASE LegacyHandle(c)
  <2>1. LegacyHandles \subseteq Handles
    BY PidsAssumption DEF LegacyHandles, ContainsProcess, Handles
  <2>2. op' \in [Connections -> OpType]
    <3>1. PICK h \in Handles : op' = [op EXCEPT ![c].h = h]
      BY <1>10, <2>1 DEF LegacyHandle
    <3> QED
      BY <3>1 DEF OpType
  <2>3. (\A d \in Connections : op[d].name = "open" => OpenOp(pc[d], op[d]))'
    BY <1>10, <2>1 DEF LegacyHandle, OpType
  <2> QED
    BY <1>10, <2>2, <2>3 DEF LegacyHandle
<1>11. CASE Refuse(c)
  BY <1>11, NoOpType DEF Refuse, Done
<1>12. CASE AnswerEmpty(c)
  BY <1>12, NoOpType DEF AnswerEmpty, Done
<1>13. CASE Checked(c)
  BY <1>13 DEF Checked
<1>14. CASE GetPid(c)
  BY <1>14 DEF GetPid, GetProcessID, ContainsProcess, OpType
<1>15. CASE Device(c)
  BY <1>15, NoOpType DEF Device, Done
<1> QED
  BY <1>1, <1>2, <1>3, <1>4, <1>5, <1>6, <1>7, <1>8, <1>9, <1>10, <1>11, <1>12, <1>13, <1>14,
     <1>15 DEF Handle

-----------------------------------------------------------------------------
(* Handles *)

\* Types as the steps below need them.
LEMMA CommandFacts ==
    ASSUME TypeOK, NEW c \in Connections
    PROVE  /\ op[c] \in OpType /\ op[c].kind \in Kinds /\ op[c].h \in Handles
           /\ op[c].pid \in Pids \cup {-1} /\ op[c].n \in 0 .. MaxEntries
BY DEF TypeOK, OpType

\* A step that touches neither the tables' contents nor the counter, and only
\* moves its own connection, keeps the invariant if a command that passes the
\* check has a handle that was opened, and gets that handle's process.
LEMMA QuietStep ==
    ASSUME Inv, NEW c \in Connections, NEW to, NEW o,
           UNCHANGED <<lastHandleID, issued, snapshots, processes, opened>>,
           pc' = [pc EXCEPT ![c] = to], op' = [op EXCEPT ![c] = o],
           to # "store",
           BeforeWrap /\ to \in {"getpid", "device"} => opened[o.h] # None,
           BeforeWrap /\ to = "device" => \/ o.pid = opened[o.h]
                                          \/ o.pid = -1 /\ ~ContainsProcess(o.h)
    PROVE  HandleInv'
<1> SUFFICES ASSUME BeforeWrap' PROVE (CounterInv /\ InFlightInv /\ OneMeaningInv /\ CheckedInv)'
  BY DEF HandleInv
<1>0. BeforeWrap /\ CounterInv /\ InFlightInv /\ OneMeaningInv /\ CheckedInv
  BY DEF BeforeWrap, Inv, HandleInv
<1> USE <1>0 DEF Live, ContainsProcess, ContainsSnapshot
<1>1. /\ pc'[c] = to /\ op'[c] = o
      /\ \A d \in Connections \ {c} : pc'[d] = pc[d] /\ op'[d] = op[d]
  BY DEF Inv, TypeOK
<1>2. CounterInv'
  BY DEF CounterInv
<1>3. InFlightInv'
  BY <1>1 DEF InFlightInv
<1>4. OneMeaningInv'
  BY DEF OneMeaningInv
<1>5. CheckedInv'
  BY <1>1 DEF CheckedInv
<1> QED
  BY <1>2, <1>3, <1>4, <1>5

\* generateHandle returns a handle that was never used.
LEMMA GenerateHandles ==
    ASSUME Inv, NEW c \in Connections, NEW h \in Handles, Generate(c, h)
    PROVE  HandleInv'
<1> SUFFICES ASSUME BeforeWrap' PROVE (CounterInv /\ InFlightInv /\ OneMeaningInv /\ CheckedInv)'
  BY DEF HandleInv
<1>1. issued' = issued + 1 /\ issued \in Nat /\ issued < MaxInt
  BY MaxIntAssumption DEF BeforeWrap, Generate, GenerateHandle, Inv, TypeOK, StateTypeOK
<1>0. BeforeWrap /\ CounterInv /\ InFlightInv /\ OneMeaningInv /\ CheckedInv
  BY <1>1, MaxIntAssumption DEF BeforeWrap, Inv, HandleInv
<1>2. h = issued + 1 /\ lastHandleID' = h
  BY <1>0, <1>1, IncrementedType
  DEF Generate, GenerateHandle, CounterInv, Inv, TypeOK, StateTypeOK
<1>3. /\ pc'[c] = "store" /\ op'[c].h = h
      /\ \A d \in Connections \ {c} : pc'[d] = pc[d] /\ op'[d] = op[d]
  BY CommandFacts DEF Inv, TypeOK, OpType, Generate, Goto
<1>4. UNCHANGED <<snapshots, processes, opened>>
  BY DEF Generate, GenerateHandle
<1>5. ~Live(h) /\ opened[h] = None
  BY <1>0, <1>1, <1>2 DEF CounterInv
<1>6. \A d \in Connections : pc[d] = "store" => op[d].h # h
  BY <1>0, <1>1, <1>2 DEF InFlightInv
<1> USE DEF Live, ContainsProcess, ContainsSnapshot
<1>7. CounterInv'
  BY <1>0, <1>1, <1>2, <1>4, MaxIntAssumption DEF CounterInv, Handles, MinInt
<1>8. InFlightInv'
  <2>1. ASSUME NEW d \in Connections, pc'[d] = "store"
        PROVE  (/\ 1 <= op[d].h /\ op[d].h <= issued
                /\ ~Live(op[d].h) /\ opened[op[d].h] = None)'
    <3>1. CASE d = c
      BY <1>1, <1>2, <1>3, <1>4, <1>5, <3>1
    <3>2. CASE d # c
      <4>1. op[d].h \in Handles /\ (op[d].h \in Int)
        BY CommandFacts, MaxIntAssumption DEF Inv, Handles, MinInt
      <4> QED
        BY <1>0, <1>1, <1>3, <1>4, <2>1, <3>2, <4>1 DEF InFlightInv
    <3> QED
      BY <3>1, <3>2
  <2>2. ASSUME NEW d \in Connections, NEW e \in Connections,
               pc'[d] = "store", pc'[e] = "store", op'[e].h = op'[d].h
        PROVE  e = d
    BY <1>0, <1>3, <1>6, <2>2 DEF InFlightInv
  <2> QED
    BY <2>1, <2>2 DEF InFlightInv
<1>9. OneMeaningInv'
  BY <1>0, <1>4 DEF OneMeaningInv
<1>10. CheckedInv'
  BY <1>0, <1>3, <1>4 DEF CheckedInv
<1> QED
  BY <1>7, <1>8, <1>9, <1>10

\* The store puts one meaning under a handle nobody else has.
LEMMA StoreHandles ==
    ASSUME Inv, NEW c \in Connections, Store(c)
    PROVE  HandleInv'
<1> SUFFICES ASSUME BeforeWrap' PROVE (CounterInv /\ InFlightInv /\ OneMeaningInv /\ CheckedInv)'
  BY DEF HandleInv
<1>0. /\ BeforeWrap /\ CounterInv /\ InFlightInv /\ OneMeaningInv /\ CheckedInv
      /\ UNCHANGED <<lastHandleID, issued>>
  BY DEF BeforeWrap, Inv, HandleInv, Store, StoreOpenProcess, StoreSnapshot
<1> DEFINE h == op[c].h
           k == op[c].kind
<1>1. h \in Handles /\ k \in Kinds
  BY CommandFacts DEF Inv
<1>2. /\ 1 <= h /\ h <= issued /\ ~Live(h) /\ opened[h] = None
      /\ \A d \in Connections \ {c} : pc[d] = "store" => op[d].h # h
  BY <1>0 DEF InFlightInv, Store, Goto
<1>3. /\ pc'[c] = "idle"
      /\ \A d \in Connections \ {c} : pc'[d] = pc[d] /\ op'[d] = op[d]
  BY DEF Inv, TypeOK, Store, Goto, Done
<1>4. /\ \A g \in Handles \ {h} : /\ processes'[g] = processes[g] /\ opened'[g] = opened[g]
                                  /\ \A j \in Kinds : snapshots'[j][g] = snapshots[j][g]
      /\ \/ /\ processes'[h] = op[c].pid /\ opened'[h] = op[c].pid
            /\ \A j \in Kinds : snapshots'[j][h] = snapshots[j][h]
         \/ /\ processes'[h] = processes[h] /\ opened'[h] = opened[h]
            /\ \A j \in Kinds \ {k} : snapshots'[j][h] = snapshots[j][h]
  BY <1>1 DEF Inv, TypeOK, StateTypeOK, Store, StoreOpenProcess, StoreSnapshot
<1> HIDE DEF h, k
<1> USE DEF Live, ContainsProcess, ContainsSnapshot
<1>5. CounterInv'
  BY <1>0, <1>1, <1>2, <1>4 DEF CounterInv
<1>6. InFlightInv'
  BY <1>0, <1>2, <1>3, <1>4, CommandFacts DEF InFlightInv, Inv
<1>7. OneMeaningInv'
  BY <1>0, <1>1, <1>2, <1>4 DEF OneMeaningInv, Kinds
<1>8. CheckedInv'
  <2> SUFFICES ASSUME NEW d \in Connections, pc'[d] \in {"getpid", "device"}
               PROVE  (/\ opened[op[d].h] # None
                       /\ pc[d] = "device" => \/ op[d].pid = opened[op[d].h]
                                              \/ op[d].pid = -1 /\ ~ContainsProcess(op[d].h))'
    BY DEF CheckedInv
  <2>1. d # c /\ pc[d] = pc'[d] /\ op'[d] = op[d] /\ op[d].h \in Handles
    BY <1>3, CommandFacts DEF Inv
  <2>2. op[d].h # h
    BY <1>0, <1>2, <2>1 DEF CheckedInv
  <2> QED
    BY <1>0, <1>4, <2>1, <2>2 DEF CheckedInv
<1> QED
  BY <1>5, <1>6, <1>7, <1>8

\* Closing a handle takes its meaning away and gives it no other.
LEMMA CloseHandles ==
    ASSUME Inv, NEW c \in Connections, NEW h \in Sent, ReceiveCloseHandle(c, h)
    PROVE  HandleInv'
<1> SUFFICES ASSUME BeforeWrap' PROVE (CounterInv /\ InFlightInv /\ OneMeaningInv /\ CheckedInv)'
  BY DEF HandleInv
<1>0. /\ BeforeWrap /\ CounterInv /\ InFlightInv /\ OneMeaningInv /\ CheckedInv
      /\ UNCHANGED <<lastHandleID, issued, opened, op>> /\ pc' = pc
  BY DEF BeforeWrap, Inv, HandleInv, ReceiveCloseHandle, CloseHandle, Goto, TypeOK
<1>1. \A g \in Handles : /\ processes'[g] = None \/ processes'[g] = processes[g]
                         /\ \A j \in Kinds : snapshots'[j][g] = None
                                            \/ snapshots'[j][g] = snapshots[j][g]
  BY DEF Inv, TypeOK, StateTypeOK, ReceiveCloseHandle, CloseHandle, Handles, Sent
<1> USE DEF Live, ContainsProcess, ContainsSnapshot
<1>2. CounterInv'
  BY <1>0, <1>1 DEF CounterInv
<1>3. InFlightInv'
  BY <1>0, <1>1, CommandFacts DEF InFlightInv, Inv
<1>4. OneMeaningInv'
  BY <1>0, <1>1 DEF OneMeaningInv, Kinds
<1>5. CheckedInv'
  BY <1>0, <1>1, CommandFacts DEF CheckedInv, Inv
<1> QED
  BY <1>2, <1>3, <1>4, <1>5

-----------------------------------------------------------------------------
(* The invariant is inductive *)

LEMMA ReceiveHandles ==
    ASSUME Inv, NEW c \in Connections, NEW o,
           NEW to \in {"query", "generate", "contains", "check", "legacy"}, Receive(c, to, o)
    PROVE  HandleInv'
BY QuietStep DEF Receive, Goto, stateVars

LEMMA CommandHandles ==
    ASSUME Inv, NEW c \in Connections, Command(c)
    PROVE  HandleInv'
<1>1. ASSUME NEW k \in Kinds, ReceiveSnapshot(c, k) PROVE HandleInv'
  BY <1>1, ReceiveHandles DEF ReceiveSnapshot
<1>2. ASSUME NEW p \in Pids, ReceiveOpenProcess(c, p) PROVE HandleInv'
  BY <1>2, ReceiveHandles DEF ReceiveOpenProcess
<1>3. ASSUME NEW h \in Sent \cup {-1}, ReceiveArchitecture(c, h) PROVE HandleInv'
  BY <1>3, ReceiveHandles DEF ReceiveArchitecture
<1>4. ASSUME NEW h \in Sent, NEW name \in Walks, NEW k \in Kinds, ReceiveWalk(c, name, k, h)
      PROVE HandleInv'
  BY <1>4, ReceiveHandles DEF ReceiveWalk
<1>5. ASSUME NEW h \in Sent, NEW name \in OnProcess \ {"architecture"},
             ReceiveOnProcess(c, name, h)
      PROVE HandleInv'
  BY <1>5, ReceiveHandles DEF ReceiveOnProcess
<1> QED
  BY <1>1, <1>2, <1>3, <1>4, <1>5, CloseHandles DEF Command

LEMMA HandleHandles ==
    ASSUME Inv, NEW c \in Connections, Handle(c)
    PROVE  HandleInv'
<1>0. op \in [Connections -> OpType] /\ op[c] \in OpType /\ op[c].h \in Handles
  BY CommandFacts DEF Inv, TypeOK
<1> USE DEF Goto, Done, stateVars
<1>1. ASSUME NEW n \in 0 .. MaxEntries, Query(c, n) PROVE HandleInv'
  BY <1>1, QuietStep DEF Query
<1>2. CASE WalkUnknown(c)
  BY <1>2, QuietStep DEF WalkUnknown
<1>3. CASE WalkKnown(c)
  <2>1. op' = [op EXCEPT ![c] = op[c]]
    BY <1>0, <1>3 DEF WalkKnown
  <2> QED
    BY <1>3, <2>1, QuietStep DEF WalkKnown
<1>4. CASE Reset(c)
  <2>1. op' = [op EXCEPT ![c] = op[c]]
    BY <1>0, <1>4 DEF Reset
  <2> QED
    BY <1>4, <2>1, QuietStep DEF Reset, ResetIterator
<1>5. CASE NextFound(c)
  BY <1>5, QuietStep DEF NextFound, NextEntry
<1>6. CASE NextEnd(c)
  BY <1>6, QuietStep DEF NextEnd, NoNextEntry
<1>7. CASE Dereference(c)
  BY <1>7, QuietStep DEF Dereference
<1>8. CASE LegacyHandle(c)
  BY <1>8, QuietStep DEF LegacyHandle
<1>9. CASE Refuse(c)
  BY <1>9, QuietStep DEF Refuse
<1>10. CASE AnswerEmpty(c)
  BY <1>10, QuietStep DEF AnswerEmpty
<1>11. CASE Checked(c)
  <2>1. op' = [op EXCEPT ![c] = op[c]]
    BY <1>0, <1>11 DEF Checked
  <2>2. BeforeWrap => opened[op[c].h] # None
    BY <1>0, <1>11 DEF Checked, ContainsProcess, Inv, HandleInv, OneMeaningInv
  <2> QED
    BY <1>11, <2>1, <2>2, QuietStep DEF Checked
<1>12. CASE GetPid(c)
  <2> DEFINE p == GetProcessID(op[c].h)
             o == [op[c] EXCEPT !.pid = p]
  <2>1. op' = [op EXCEPT ![c] = o] /\ o.h = op[c].h /\ o.pid = p
    BY <1>0, <1>12 DEF GetPid, OpType
  <2>2. BeforeWrap => opened[op[c].h] # None
    BY <1>12 DEF GetPid, Inv, HandleInv, CheckedInv
  <2>3. BeforeWrap => \/ p = opened[op[c].h]
                      \/ p = -1 /\ ~ContainsProcess(op[c].h)
    <3>1. BeforeWrap /\ ContainsProcess(op[c].h) => opened[op[c].h] = processes[op[c].h]
      BY <1>0 DEF Inv, HandleInv, OneMeaningInv
    <3> QED
      BY <3>1 DEF GetProcessID
  <2> HIDE DEF o, p
  <2> QED
    BY <1>12, <2>1, <2>2, <2>3, QuietStep DEF GetPid
<1>13. CASE Device(c)
  BY <1>13, QuietStep DEF Device
<1> QED
  BY <1>1, <1>2, <1>3, <1>4, <1>5, <1>6, <1>7, <1>8, <1>9, <1>10, <1>11, <1>12, <1>13,
     GenerateHandles, StoreHandles DEF Handle

LEMMA ConnectionInv ==
    ASSUME Inv, NEW c \in Connections, Accept(c) \/ Disconnect(c)
    PROVE  Inv'
<1>1. TypeOK'
  BY DEF Inv, TypeOK, StateTypeOK, Accept, Disconnect, Goto, stateVars, OpenOp
<1>2. op' = [op EXCEPT ![c] = op[c]]
  BY DEF Inv, TypeOK, Accept, Disconnect
<1>3. HandleInv'
  BY <1>2, QuietStep DEF Accept, Disconnect, Goto, stateVars
<1> QED
  BY <1>1, <1>3 DEF Inv

LEMMA NextInv == Inv /\ [Next]_vars => Inv'
<1> SUFFICES ASSUME Inv, [Next]_vars PROVE Inv'
  OBVIOUS
<1>1. ASSUME NEW c \in Connections, Command(c) PROVE Inv'
  BY <1>1, CommandType, CommandHandles DEF Inv
<1>2. ASSUME NEW c \in Connections, Handle(c) PROVE Inv'
  BY <1>2, HandleType, HandleHandles DEF Inv
<1>3. CASE UNCHANGED vars
  <2>1. TypeOK'
    BY <1>3 DEF vars, stateVars, clientVars, Inv, TypeOK, StateTypeOK, OpenOp
  <2>2. HandleInv'
    BY <1>3 DEF vars, stateVars, clientVars, Inv, HandleInv, BeforeWrap, CounterInv, InFlightInv,
                OneMeaningInv, CheckedInv, Live, ContainsProcess, ContainsSnapshot
  <2> QED
    BY <2>1, <2>2 DEF Inv
<1> QED
  BY <1>1, <1>2, <1>3, ConnectionInv DEF Next

\* Every reachable state of the connections and their tables satisfies the
\* inductive invariant.
THEOREM Invariance == Spec => []Inv
<1> HIDE DEF Inv
<1> QED
  BY InitInv, NextInv, PTL DEF Spec

\* The tables, the commands in progress and the handles have their types.
THEOREM TypeCorrect == Spec => []TypeOK
<1>1. Inv => TypeOK
  BY DEF Inv
<1> HIDE DEF Inv
<1> QED
  BY <1>1, Invariance, PTL

\* Generated handles are positive and unique, and no handle stands for two
\* things, until the counter of generateHandle passes the largest int.
THEOREM UniqueHandles == Spec => []HandlesUnique
<1>1. Inv => HandlesUnique
  BY DEF Inv, HandleInv, InFlightInv, OneMeaningInv, HandlesUnique
<1> HIDE DEF Inv
<1> QED
  BY <1>1, Invariance, PTL

\* The handler of a command on a process works with the handle the client sent;
\* only CMD_GETARCHITECTURE on Linux has another.
SentHandle(o) == /\ o.name \in OnProcess
                 /\ o.h = o.asked \/ (Platform = "linux" /\ o.name = "architecture")

AskedInv ==
    \A c \in Connections :
        /\ pc[c] \in {"check", "getpid", "device"} => SentHandle(op[c])
        /\ pc[c] = "legacy" => Platform = "linux" /\ op[c].name = "architecture"

\* A step that moves its own connection keeps it if it sets the command so.
LEMMA AskedStep ==
    ASSUME TypeOK, AskedInv, NEW c \in Connections, NEW to, NEW o,
           pc' = [pc EXCEPT ![c] = to], op' = [op EXCEPT ![c] = o],
           to \in {"check", "getpid", "device"} => SentHandle(o),
           to = "legacy" => Platform = "linux" /\ o.name = "architecture"
    PROVE  AskedInv'
<1>1. /\ pc'[c] = to /\ op'[c] = o
      /\ \A d \in Connections \ {c} : pc'[d] = pc[d] /\ op'[d] = op[d]
  BY DEF TypeOK
<1> QED
  BY <1>1 DEF AskedInv, SentHandle

LEMMA CommandAsked ==
    ASSUME TypeOK, AskedInv, NEW c \in Connections, Command(c)
    PROVE  AskedInv'
<1> USE DEF Receive, Goto
<1>1. ASSUME NEW k \in Kinds, ReceiveSnapshot(c, k) PROVE AskedInv'
  BY <1>1, AskedStep DEF ReceiveSnapshot
<1>2. ASSUME NEW p \in Pids, ReceiveOpenProcess(c, p) PROVE AskedInv'
  BY <1>2, AskedStep DEF ReceiveOpenProcess
<1>3. ASSUME NEW h \in Sent \cup {-1}, ReceiveArchitecture(c, h) PROVE AskedInv'
  <2>1. \A g : /\ Architecture(h, g).name = "architecture"
              /\ Architecture(h, g).h = g
              /\ Architecture(h, g).asked = h
    BY DEF Architecture, Op
  <2>2. SentHandle(Architecture(h, Received(h)))
    BY <2>1 DEF SentHandle, OnProcess, Received
  <2> QED
    BY <1>3, <2>1, <2>2, AskedStep DEF ReceiveArchitecture
<1>4. ASSUME NEW h \in Sent, NEW name \in Walks, NEW k \in Kinds, ReceiveWalk(c, name, k, h)
      PROVE AskedInv'
  BY <1>4, AskedStep DEF ReceiveWalk
<1>5. ASSUME NEW h \in Sent, NEW name \in OnProcess \ {"architecture"},
             ReceiveOnProcess(c, name, h)
      PROVE AskedInv'
  <2>1. SentHandle(Op(name, "process", h, -1, 0))
    BY DEF SentHandle, Op
  <2> QED
    BY <1>5, <2>1, AskedStep DEF ReceiveOnProcess
<1>6. ASSUME NEW h \in Sent, ReceiveCloseHandle(c, h) PROVE AskedInv'
  <2>1. op' = [op EXCEPT ![c] = op[c]]
    BY <1>6 DEF ReceiveCloseHandle, TypeOK
  <2> QED
    BY <1>6, <2>1, AskedStep DEF ReceiveCloseHandle
<1> QED
  BY <1>1, <1>2, <1>3, <1>4, <1>5, <1>6 DEF Command

LEMMA HandleAsked ==
    ASSUME TypeOK, AskedInv, NEW c \in Connections, Handle(c)
    PROVE  AskedInv'
<1>0. op \in [Connections -> OpType] /\ op[c] \in OpType
  BY DEF TypeOK
<1> USE DEF Goto
<1>1. CASE (\E n \in 0 .. MaxEntries : Query(c, n)) \/ (\E h \in Handles : Generate(c, h))
           \/ NextFound(c)
  BY <1>1, AskedStep DEF Query, Generate, NextFound
<1>2. CASE Store(c) \/ WalkUnknown(c) \/ NextEnd(c) \/ Dereference(c) \/ Refuse(c)
           \/ AnswerEmpty(c) \/ Device(c)
  BY <1>2, AskedStep
  DEF Store, WalkUnknown, NextEnd, Dereference, Refuse, AnswerEmpty, Device, Done
<1>3. CASE WalkKnown(c) \/ Reset(c)
  <2>1. op' = [op EXCEPT ![c] = op[c]]
    BY <1>0, <1>3 DEF WalkKnown, Reset
  <2> QED
    BY <1>3, <2>1, AskedStep DEF WalkKnown, Reset
<1>4. CASE LegacyHandle(c)
  <2>1. PICK h : op' = [op EXCEPT ![c] = [op[c] EXCEPT !.h = h]]
    BY <1>4 DEF LegacyHandle
  <2>2. SentHandle([op[c] EXCEPT !.h = h])
    BY <1>0, <1>4 DEF LegacyHandle, AskedInv, SentHandle, OpType, OnProcess
  <2> QED
    BY <1>4, <2>1, <2>2, AskedStep DEF LegacyHandle
<1>5. CASE Checked(c)
  <2>1. op' = [op EXCEPT ![c] = op[c]] /\ SentHandle(op[c])
    BY <1>0, <1>5 DEF Checked, AskedInv
  <2> QED
    BY <1>5, <2>1, AskedStep DEF Checked
<1>6. CASE GetPid(c)
  <2>1. SentHandle([op[c] EXCEPT !.pid = GetProcessID(op[c].h)])
    BY <1>0, <1>6 DEF GetPid, AskedInv, SentHandle, OpType
  <2> QED
    BY <1>6, <2>1, AskedStep DEF GetPid
<1> QED
  BY <1>1, <1>2, <1>3, <1>4, <1>5, <1>6 DEF Handle

LEMMA AskedInvariance == Spec => []AskedInv
<1>1. Init => AskedInv
  BY DEF Init, AskedInv
<1>2. Inv /\ AskedInv /\ [Next]_vars => AskedInv'
  <2> SUFFICES ASSUME Inv, AskedInv, [Next]_vars PROVE AskedInv'
    OBVIOUS
  <2>0. TypeOK
    BY DEF Inv
  <2>1. ASSUME NEW c \in Connections, Accept(c) \/ Disconnect(c) PROVE AskedInv'
    <3>1. op' = [op EXCEPT ![c] = op[c]]
      BY <2>0, <2>1 DEF Accept, Disconnect, TypeOK
    <3> QED
      BY <2>0, <2>1, <3>1, AskedStep DEF Accept, Disconnect, Goto
  <2>2. CASE UNCHANGED vars
    BY <2>2 DEF vars, clientVars, AskedInv, SentHandle
  <2> QED
    BY <2>0, <2>1, <2>2, CommandAsked, HandleAsked DEF Next
<1> HIDE DEF Inv, AskedInv
<1> QED
  BY <1>1, <1>2, Invariance, PTL DEF Spec

\* The memory service is called for the process the handle the client sent was
\* opened for; for CMD_GETARCHITECTURE on Linux, whose handler drops that handle,
\* for the process of the handle the fallback chose.
THEOREM DeviceTarget == Spec => []DeviceTargetsHandle
<1>1. ASSUME Inv, BeforeWrap, NEW c \in Connections, pc[c] = "device"
      PROVE  \/ op[c].pid = opened[op[c].h] /\ op[c].pid # -1
             \/ op[c].pid = -1 /\ ~ContainsProcess(op[c].h)
  <2>1. /\ opened[op[c].h] # None
        /\ \/ op[c].pid = opened[op[c].h]
           \/ op[c].pid = -1 /\ ~ContainsProcess(op[c].h)
    BY <1>1 DEF Inv, HandleInv, CheckedInv
  <2>2. opened[op[c].h] \in Pids
    BY <1>1, <2>1, CommandFacts DEF Inv, TypeOK
  <2> QED
    BY <2>1, <2>2, PidsAssumption, MaxIntAssumption
<1>2. Inv /\ AskedInv => DeviceTargetsHandle
  <2>1. ASSUME AskedInv, NEW c \in Connections, pc[c] = "device"
        PROVE  DecidingHandle(op[c]) = op[c].h
    BY <2>1 DEF AskedInv, SentHandle, DecidingHandle
  <2> QED
    BY <1>1, <2>1 DEF DeviceTargetsHandle
<1> HIDE DEF Inv, AskedInv, DeviceTargetsHandle
<1> QED
  BY <1>2, Invariance, AskedInvariance, PTL

\* A handle never comes to mean another process than the one it was opened for:
\* only Store changes what a handle was opened for, and the handle it stores
\* under is fresh.
THEOREM NeverRetargeted == Spec => HandleNeverRetargeted
<1> DEFINE Keeps == BeforeWrap' => \A h \in Handles : opened[h] # None => opened'[h] = opened[h]
<1>1. ASSUME Inv, NEW c \in Connections, Store(c) PROVE Keeps
  <2>1. BeforeWrap' => BeforeWrap
    BY <1>1 DEF BeforeWrap, Store, StoreOpenProcess, StoreSnapshot
  <2>2. BeforeWrap => opened[op[c].h] = None
    BY <1>1 DEF Inv, HandleInv, InFlightInv, Store, Goto
  <2> QED
    BY <1>1, <2>1, <2>2 DEF Store, Inv, TypeOK
<1>2. ASSUME NEW c \in Connections, Accept(c) \/ Disconnect(c) \/ Command(c) PROVE opened' = opened
  BY <1>2 DEF Accept, Disconnect, Command, Receive, ReceiveSnapshot, ReceiveOpenProcess,
              ReceiveCloseHandle, ReceiveArchitecture, ReceiveWalk, ReceiveOnProcess
<1>3. ASSUME NEW c \in Connections, Handle(c), ~Store(c) PROVE opened' = opened
  BY <1>3 DEF Handle, Query, Generate, WalkUnknown, WalkKnown, Reset, NextFound, NextEnd,
              Dereference, LegacyHandle, Refuse, AnswerEmpty, Checked, GetPid, Device
<1>4. Inv /\ [Next]_vars => Keeps
  BY <1>1, <1>2, <1>3 DEF Next, vars, clientVars
<1>5. Inv /\ [Next]_vars => [Keeps]_vars
  BY <1>4
<1> HIDE DEF Inv, Keeps
<1>6. Spec => [][Keeps]_vars
  BY <1>5, Invariance, PTL DEF Spec
<1> QED
  BY <1>6 DEF Keeps, HandleNeverRetargeted

-----------------------------------------------------------------------------
(* Iterators: they stay inside their snapshots, and a walk with which no   *)
(* other connection interferes meets the entries in order.                 *)

\* What a snapshot and its iterator hold.
LEMMA TableFacts ==
    ASSUME TypeOK, NEW k \in Kinds, NEW h \in Handles
    PROVE  /\ snapshots[k][h] \in (0 .. MaxEntries) \cup {None}
           /\ iterators[k][h] \in (0 .. MaxEntries) \cup {None}
           /\ Position(k, h) \in 0 .. MaxEntries
BY MaxEntriesAssumption DEF TypeOK, StateTypeOK, Position

-----------------------------------------------------------------------------
(* Range *)

\* A change of one iterator to a position inside its snapshot.
LEMMA OneIterator ==
    ASSUME TypeOK, IteratorInRange, NEW k \in Kinds, NEW h \in Handles, NEW n \in Nat,
           iterators' = [iterators EXCEPT ![k][h] = n],
           snapshots' = snapshots,
           snapshots[k][h] # None => n <= snapshots[k][h]
    PROVE  IteratorInRange'
<1> SUFFICES ASSUME NEW j \in Kinds, NEW g \in Handles, snapshots[j][g] # None
             PROVE  Position(j, g)' <= snapshots[j][g]
  BY DEF IteratorInRange, ContainsSnapshot
<1>1. n # None
  BY PidsAssumption
<1>2. CASE j = k /\ g = h
  <2>1. iterators'[j][g] = n
    BY <1>2 DEF TypeOK, StateTypeOK
  <2> QED
    BY <1>1, <1>2, <2>1 DEF Position
<1>3. CASE ~(j = k /\ g = h)
  <2>1. iterators'[j][g] = iterators[j][g]
    BY <1>3 DEF TypeOK, StateTypeOK
  <2> QED
    BY <2>1 DEF Position, IteratorInRange, ContainsSnapshot
<1> QED
  BY <1>2, <1>3

LEMMA SameIterators ==
    ASSUME IteratorInRange, UNCHANGED <<snapshots, iterators>>
    PROVE  IteratorInRange'
BY DEF IteratorInRange, ContainsSnapshot, Position

LEMMA StoreRange ==
    ASSUME TypeOK, IteratorInRange, NEW c \in Connections, Store(c)
    PROVE  IteratorInRange'
<1> DEFINE k == op[c].kind
           h == op[c].h
           n == op[c].n
<1>0. k \in Kinds /\ h \in Handles /\ n \in 0 .. MaxEntries
  BY CommandFacts
<1>1. CASE op[c].name = "open" /\ StoreOpenProcess(op[c].pid, h)
  BY <1>1, SameIterators DEF StoreOpenProcess
<1>2. CASE StoreSnapshot(k, n, h)
  <2> SUFFICES ASSUME NEW j \in Kinds, NEW g \in Handles, snapshots'[j][g] # None
               PROVE  Position(j, g)' <= snapshots'[j][g]
    BY DEF IteratorInRange, ContainsSnapshot
  <2>1. CASE j = k /\ g = h
    <3>1. iterators'[j][g] = 0
      BY <1>0, <1>2, <2>1 DEF StoreSnapshot, TypeOK, StateTypeOK
    <3>2. snapshots'[j][g] \in 0 .. MaxEntries
      <4>1. snapshots'[j][g] = IF snapshots[j][g] = None THEN n ELSE snapshots[j][g]
        BY <1>0, <1>2, <2>1 DEF StoreSnapshot, TypeOK, StateTypeOK
      <4> QED
        BY <1>0, <4>1, TableFacts
    <3> QED
      BY <3>1, <3>2, PidsAssumption DEF Position
  <2>2. CASE ~(j = k /\ g = h)
    <3>1. iterators'[j][g] = iterators[j][g] /\ snapshots'[j][g] = snapshots[j][g]
      BY <1>0, <1>2, <2>2 DEF StoreSnapshot, TypeOK, StateTypeOK
    <3> QED
      BY <3>1 DEF Position, IteratorInRange, ContainsSnapshot
  <2> QED
    BY <2>1, <2>2
<1> QED
  BY <1>1, <1>2 DEF Store

LEMMA CloseRange ==
    ASSUME TypeOK, IteratorInRange, NEW h \in Handles, CloseHandle(h)
    PROVE  IteratorInRange'
<1>1. ASSUME NEW j \in Kinds, NEW g \in Handles
      PROVE  \/ snapshots'[j][g] = None
             \/ snapshots'[j][g] = snapshots[j][g] /\ iterators'[j][g] = iterators[j][g]
  BY DEF CloseHandle, TypeOK, StateTypeOK
<1> QED
  BY <1>1 DEF IteratorInRange, ContainsSnapshot, Position

LEMMA NextRange == TypeOK /\ IteratorInRange /\ [Next]_vars => IteratorInRange'
<1> SUFFICES ASSUME TypeOK, IteratorInRange, [Next]_vars PROVE IteratorInRange'
  OBVIOUS
<1> USE DEF stateVars
<1>1. ASSUME NEW c \in Connections, Accept(c) \/ Disconnect(c) PROVE IteratorInRange'
  BY <1>1, SameIterators DEF Accept, Disconnect
<1>2. ASSUME NEW c \in Connections, Command(c) PROVE IteratorInRange'
  <2>1. ASSUME NEW h \in Sent, ReceiveCloseHandle(c, h) PROVE IteratorInRange'
    BY <2>1, CloseRange DEF ReceiveCloseHandle, Sent, Handles
  <2> QED
    BY <1>2, <2>1, SameIterators
    DEF Command, Receive, ReceiveSnapshot, ReceiveOpenProcess, ReceiveArchitecture, ReceiveWalk,
        ReceiveOnProcess
<1>3. ASSUME NEW c \in Connections, Handle(c) PROVE IteratorInRange'
  <2> DEFINE k == op[c].kind
             h == op[c].h
  <2>0. k \in Kinds /\ h \in Handles
    BY CommandFacts
  <2>1. CASE Reset(c)
    <3>1. snapshots[k][h] # None => 0 <= snapshots[k][h]
      BY <2>0, TableFacts
    <3> QED
      BY <2>0, <2>1, <3>1, OneIterator DEF Reset, ResetIterator
  <2>2. CASE NextFound(c)
    <3>1. Position(k, h) + 1 \in Nat /\ Position(k, h) + 1 <= snapshots[k][h]
      BY <2>0, <2>2, TableFacts DEF NextFound, NextEntry, HasNext
    <3> QED
      BY <2>0, <2>2, <3>1, OneIterator DEF NextFound, NextEntry
  <2>3. CASE NextEnd(c)
    <3>1. CASE snapshots[k][h] = None
      BY <2>3, <3>1, SameIterators DEF NextEnd, NoNextEntry
    <3>2. CASE snapshots[k][h] # None
      <4>1. Position(k, h) \in Nat /\ Position(k, h) <= snapshots[k][h]
        BY <2>0, <3>2, TableFacts DEF IteratorInRange, ContainsSnapshot
      <4> QED
        BY <2>0, <2>3, <3>2, <4>1, OneIterator DEF NextEnd, NoNextEntry
    <3> QED
      BY <3>1, <3>2
  <2> QED
    BY <1>3, <2>1, <2>2, <2>3, StoreRange, SameIterators
    DEF Handle, Query, Generate, GenerateHandle, WalkUnknown, WalkKnown, Dereference,
        LegacyHandle, Refuse, AnswerEmpty, Checked, GetPid, Device
<1>4. CASE UNCHANGED vars
  BY <1>4, SameIterators DEF vars
<1> QED
  BY <1>1, <1>2, <1>3, <1>4 DEF Next

\* The iterator of a snapshot never passes its end, so that nextProcessInfo
\* and nextMemoryRegion never index beyond the vector.
THEOREM IteratorsInRange == Spec => []IteratorInRange
<1>1. Init => IteratorInRange
  BY DEF Init, StateInit, IteratorInRange, ContainsSnapshot
<1> QED
  BY <1>1, NextRange, TypeCorrect, PTL DEF Spec

-----------------------------------------------------------------------------
(* Walks *)

\* A step that stores no new position, at most ends walks, and leaves alone the
\* snapshots that are still being walked.
LEMMA QuietWalks ==
    ASSUME Inv, UndisturbedWalkInOrder, NEW c \in Connections, NEW to, to # "deref", NEW o,
           BeforeWrap' => BeforeWrap,
           pc' = [pc EXCEPT ![c] = to], op' = [op EXCEPT ![c] = o],
           \A d \in Connections : walk'[d] = None \/ walk'[d] = walk[d],
           BeforeWrap =>
             \A d \in Connections : walk'[d] # None =>
               /\ snapshots'[walk[d].kind][walk[d].h] = snapshots[walk[d].kind][walk[d].h]
               /\ Position(walk[d].kind, walk[d].h)' = Position(walk[d].kind, walk[d].h)
    PROVE  UndisturbedWalkInOrder'
<1> SUFFICES ASSUME BeforeWrap, NEW d \in Connections, walk'[d] # None
             PROVE  (/\ ContainsSnapshot(walk[d].kind, walk[d].h)
                     /\ Position(walk[d].kind, walk[d].h) = walk[d].seen
                     /\ pc[d] = "deref" /\ OnMyWalk(d) => op[d].n = walk[d].seen - 1)'
  BY DEF UndisturbedWalkInOrder
<1>1. walk'[d] = walk[d]
  OBVIOUS
<1>2. ContainsSnapshot(walk[d].kind, walk[d].h) /\ Position(walk[d].kind, walk[d].h) = walk[d].seen
  BY <1>1 DEF UndisturbedWalkInOrder
<1>3. ContainsSnapshot(walk[d].kind, walk[d].h)'
  BY <1>1, <1>2 DEF ContainsSnapshot
<1>4. (Position(walk[d].kind, walk[d].h) = walk[d].seen)'
  <2>1. Position(walk[d].kind, walk[d].h)' = Position(walk[d].kind, walk[d].h)
    OBVIOUS
  <2> QED
    BY <1>1, <1>2, <2>1 DEF Position
<1>5. (pc[d] = "deref" /\ OnMyWalk(d) => op[d].n = walk[d].seen - 1)'
  <2>1. CASE d = c
    BY <2>1 DEF Inv, TypeOK
  <2>2. CASE d # c
    <3>1. pc'[d] = pc[d] /\ op'[d] = op[d]
      BY <2>2 DEF Inv, TypeOK
    <3> QED
      BY <1>1, <3>1 DEF UndisturbedWalkInOrder, OnMyWalk
  <2> QED
    BY <2>1, <2>2
<1> QED
  BY <1>3, <1>4, <1>5

\* What a walk refers to.
LEMMA WalkFacts ==
    ASSUME Inv, NEW d \in Connections, walk[d] # None
    PROVE  walk[d].kind \in Kinds /\ walk[d].h \in Handles /\ walk[d].seen \in Nat
BY DEF Inv, TypeOK, WalkType

\* The common case: tables, history and the other connections stay.
LEMMA SameWalks ==
    ASSUME Inv, UndisturbedWalkInOrder, NEW c \in Connections, NEW to, to # "deref", NEW o,
           BeforeWrap' => BeforeWrap, UNCHANGED <<snapshots, iterators>>,
           pc' = [pc EXCEPT ![c] = to], op' = [op EXCEPT ![c] = o],
           walk' = walk \/ walk' = [walk EXCEPT ![c] = None]
    PROVE  UndisturbedWalkInOrder'
<1>1. \A d \in Connections : walk'[d] = None \/ walk'[d] = walk[d]
  BY DEF Inv, TypeOK
<1>2. \A d \in Connections : walk'[d] # None =>
        /\ snapshots'[walk[d].kind][walk[d].h] = snapshots[walk[d].kind][walk[d].h]
        /\ Position(walk[d].kind, walk[d].h)' = Position(walk[d].kind, walk[d].h)
  BY <1>1 DEF Position
<1> QED
  BY <1>1, <1>2, QuietWalks

\* A snapshot is stored under a handle nobody walks.
LEMMA StoreWalks ==
    ASSUME Inv, UndisturbedWalkInOrder, NEW c \in Connections, Store(c)
    PROVE  UndisturbedWalkInOrder'
<1> DEFINE k == op[c].kind
           h == op[c].h
<1>0. k \in Kinds /\ h \in Handles /\ (BeforeWrap' => BeforeWrap)
  BY CommandFacts DEF Inv, Store, StoreOpenProcess, StoreSnapshot, BeforeWrap
<1>1. /\ pc' = [pc EXCEPT ![c] = "idle"] /\ op' = [op EXCEPT ![c] = NoOp]
      /\ walk' = walk
  BY DEF Store, Goto, Done
<1>2. ASSUME BeforeWrap, NEW d \in Connections, walk[d] # None
      PROVE  ~(walk[d].kind = k /\ walk[d].h = h)
  <2>1. ~Live(h)
    BY <1>2 DEF Inv, HandleInv, InFlightInv, Store, Goto
  <2>2. ContainsSnapshot(walk[d].kind, walk[d].h)
    BY <1>2 DEF UndisturbedWalkInOrder
  <2> QED
    BY <1>0, <2>1, <2>2 DEF Live
<1>3. ASSUME NEW j \in Kinds, NEW g \in Handles, ~(j = k /\ g = h)
      PROVE  snapshots'[j][g] = snapshots[j][g] /\ iterators'[j][g] = iterators[j][g]
  BY <1>0, <1>3 DEF Store, StoreOpenProcess, StoreSnapshot, Inv, TypeOK, StateTypeOK
<1>4. ASSUME BeforeWrap, NEW d \in Connections, walk'[d] # None
      PROVE  /\ snapshots'[walk[d].kind][walk[d].h] = snapshots[walk[d].kind][walk[d].h]
             /\ Position(walk[d].kind, walk[d].h)' = Position(walk[d].kind, walk[d].h)
  BY <1>1, <1>2, <1>3, <1>4, WalkFacts DEF Position
<1> QED
  BY <1>0, <1>1, <1>4, QuietWalks

\* Closing a handle ends the walks over its snapshot.
LEMMA CloseWalks ==
    ASSUME Inv, UndisturbedWalkInOrder, NEW c \in Connections, NEW h \in Sent,
           ReceiveCloseHandle(c, h)
    PROVE  UndisturbedWalkInOrder'
<1>0. h \in Handles /\ (BeforeWrap' => BeforeWrap)
  BY DEF Sent, Handles, ReceiveCloseHandle, CloseHandle, BeforeWrap
<1>1. /\ pc' = [pc EXCEPT ![c] = "idle"] /\ op' = [op EXCEPT ![c] = op[c]]
      /\ \A d \in Connections : walk'[d] = None \/ walk'[d] = walk[d]
  BY DEF ReceiveCloseHandle, Goto, Inv, TypeOK
<1>2. ASSUME NEW j \in Kinds, NEW g \in Handles, g # h
      PROVE  snapshots'[j][g] = snapshots[j][g] /\ iterators'[j][g] = iterators[j][g]
  BY <1>0, <1>2 DEF ReceiveCloseHandle, CloseHandle, Inv, TypeOK, StateTypeOK
<1>3. ASSUME NEW d \in Connections, walk'[d] # None
      PROVE  walk'[d] = walk[d] /\ walk[d].h # h
  BY <1>3 DEF ReceiveCloseHandle
<1>4. ASSUME NEW d \in Connections, walk'[d] # None
      PROVE  /\ snapshots'[walk[d].kind][walk[d].h] = snapshots[walk[d].kind][walk[d].h]
             /\ Position(walk[d].kind, walk[d].h)' = Position(walk[d].kind, walk[d].h)
  BY <1>2, <1>3, <1>4, WalkFacts DEF Position
<1> QED
  BY <1>0, <1>1, <1>4, QuietWalks

\* A step of connection c to position n of its command's snapshot: c's walk is
\* where the iterator is, and all others over this snapshot have ended.
LEMMA IteratorWalks ==
    ASSUME Inv, UndisturbedWalkInOrder, NEW c \in Connections, NEW n \in Nat, NEW to, NEW mine,
           iterators' = [iterators EXCEPT ![op[c].kind][op[c].h] = n],
           UNCHANGED <<snapshots, issued>>,
           pc' = [pc EXCEPT ![c] = to],
           \A d \in Connections \ {c} : op'[d] = op[d],
           op'[c].kind = op[c].kind /\ op'[c].h = op[c].h,
           Disturb(c, mine),
           mine # None => \/ /\ mine = walk[c]
                             /\ ~(mine.kind = op[c].kind /\ mine.h = op[c].h)
                          \/ /\ mine = [kind |-> op[c].kind, h |-> op[c].h, seen |-> n]
                             /\ ContainsSnapshot(op[c].kind, op[c].h)
                             /\ to = "deref" => op'[c].n = n - 1
    PROVE  UndisturbedWalkInOrder'
<1> DEFINE k == op[c].kind
           h == op[c].h
<1>0. k \in Kinds /\ h \in Handles /\ n # None
  BY CommandFacts, PidsAssumption DEF Inv
<1> SUFFICES ASSUME BeforeWrap, NEW d \in Connections, walk'[d] # None
             PROVE  (/\ ContainsSnapshot(walk[d].kind, walk[d].h)
                     /\ Position(walk[d].kind, walk[d].h) = walk[d].seen
                     /\ pc[d] = "deref" /\ OnMyWalk(d) => op[d].n = walk[d].seen - 1)'
  BY DEF UndisturbedWalkInOrder, BeforeWrap
<1>1. /\ pc'[c] = to
      /\ \A e \in Connections \ {c} : pc'[e] = pc[e]
  BY DEF Inv, TypeOK
<1>2. /\ iterators'[k][h] = n
      /\ \A j \in Kinds, g \in Handles : ~(j = k /\ g = h) => iterators'[j][g] = iterators[j][g]
  BY <1>0 DEF Inv, TypeOK, StateTypeOK
<1>3. CASE d = c /\ mine = [kind |-> k, h |-> h, seen |-> n] /\ ContainsSnapshot(k, h)
             /\ (to = "deref" => op'[c].n = n - 1)
  <2>1. walk'[d].kind = k /\ walk'[d].h = h /\ walk'[d].seen = n
    BY <1>3 DEF Disturb
  <2> QED
    BY <1>0, <1>1, <1>2, <1>3, <2>1 DEF ContainsSnapshot, Position, OnMyWalk
<1>4. CASE walk'[d] = walk[d] /\ ~(walk[d].kind = k /\ walk[d].h = h)
  <2>1. walk[d] # None /\ walk[d].kind \in Kinds /\ walk[d].h \in Handles
    BY <1>4, WalkFacts
  <2>2. iterators'[walk[d].kind][walk[d].h] = iterators[walk[d].kind][walk[d].h]
    BY <1>2, <1>4, <2>1
  <2>3. (ContainsSnapshot(walk[d].kind, walk[d].h) /\ Position(walk[d].kind, walk[d].h) = walk[d].seen)'
    BY <1>4, <2>1, <2>2 DEF UndisturbedWalkInOrder, ContainsSnapshot, Position
  <2>4. (pc[d] = "deref" /\ OnMyWalk(d) => op[d].n = walk[d].seen - 1)'
    <3>1. CASE d = c
      BY <1>4, <3>1 DEF OnMyWalk
    <3>2. CASE d # c
      BY <1>1, <1>4, <2>1, <3>2 DEF UndisturbedWalkInOrder, OnMyWalk
    <3> QED
      BY <3>1, <3>2
  <2> QED
    BY <2>3, <2>4
<1>5. CASE d # c
  BY <1>4, <1>5 DEF Disturb
<1> QED
  BY <1>3, <1>4, <1>5 DEF Disturb

LEMMA NextWalks == Inv /\ UndisturbedWalkInOrder /\ [Next]_vars => UndisturbedWalkInOrder'
<1> SUFFICES ASSUME Inv, UndisturbedWalkInOrder, [Next]_vars PROVE UndisturbedWalkInOrder'
  OBVIOUS
<1>1. ASSUME NEW c \in Connections, Accept(c) \/ Disconnect(c) PROVE UndisturbedWalkInOrder'
  <2>1. op' = [op EXCEPT ![c] = op[c]] /\ (BeforeWrap' => BeforeWrap)
    BY <1>1 DEF Accept, Disconnect, Inv, TypeOK, BeforeWrap, stateVars
  <2> QED
    BY <1>1, <2>1, SameWalks DEF Accept, Disconnect, Goto, stateVars
<1>2. ASSUME NEW c \in Connections, Command(c) PROVE UndisturbedWalkInOrder'
  <2>1. ASSUME NEW o, NEW to \in {"query", "generate", "contains", "check", "legacy"},
               Receive(c, to, o)
        PROVE UndisturbedWalkInOrder'
    BY <2>1, SameWalks DEF Receive, Goto, stateVars, BeforeWrap
  <2> QED
    BY <1>2, <2>1, CloseWalks
    DEF Command, ReceiveSnapshot, ReceiveOpenProcess, ReceiveArchitecture, ReceiveWalk,
        ReceiveOnProcess
<1>3. ASSUME NEW c \in Connections, Handle(c) PROVE UndisturbedWalkInOrder'
  <2> DEFINE k == op[c].kind
             h == op[c].h
  <2>0. /\ op \in [Connections -> OpType] /\ op[c] \in OpType /\ k \in Kinds /\ h \in Handles
        /\ Position(k, h) \in Nat
    BY CommandFacts, TableFacts DEF Inv, TypeOK
  <2>1. CASE Reset(c)
    <3>1. /\ pc' = [pc EXCEPT ![c] = "next"] /\ op' = op /\ UNCHANGED <<snapshots, issued>>
          /\ iterators' = [iterators EXCEPT ![k][h] = 0]
      BY <2>1 DEF Reset, ResetIterator, Goto
    <3>2. PICK mine : Disturb(c, mine) /\ mine = IF ContainsSnapshot(k, h)
                                                THEN [kind |-> k, h |-> h, seen |-> 0] ELSE None
      BY <2>1 DEF Reset
    <3> QED
      BY <3>1, <3>2, IteratorWalks
  <2>2. CASE NextFound(c)
    <3> DEFINE n == Position(k, h) + 1
               mine == IF OnMyWalk(c) THEN [walk[c] EXCEPT !.seen = @ + 1] ELSE walk[c]
    <3>1. /\ pc' = [pc EXCEPT ![c] = "deref"] /\ UNCHANGED <<snapshots, issued>>
          /\ iterators' = [iterators EXCEPT ![k][h] = n]
          /\ Disturb(c, mine) /\ ContainsSnapshot(k, h)
      BY <2>2 DEF NextFound, NextEntry, Goto, HasNext, ContainsSnapshot
    <3>2. /\ \A d \in Connections \ {c} : op'[d] = op[d]
          /\ op'[c].kind = k /\ op'[c].h = h /\ op'[c].n = n - 1
      BY <2>0, <2>2 DEF NextFound, OpType
    <3>3. BeforeWrap /\ OnMyWalk(c) => mine = [kind |-> k, h |-> h, seen |-> n]
      <4> SUFFICES ASSUME BeforeWrap, OnMyWalk(c) PROVE mine = [kind |-> k, h |-> h, seen |-> n]
        OBVIOUS
      <4>1. walk[c] \in WalkType /\ walk[c].kind = k /\ walk[c].h = h
        BY DEF OnMyWalk, Inv, TypeOK
      <4>2. walk[c].seen = Position(k, h)
        BY <4>1 DEF OnMyWalk, UndisturbedWalkInOrder
      <4> QED
        BY <4>1, <4>2 DEF WalkType
    <3>4. ~OnMyWalk(c) /\ mine # None => mine = walk[c] /\ ~(mine.kind = k /\ mine.h = h)
      BY DEF OnMyWalk
    <3>5. n \in Nat
      BY <2>0
    <3>6. CASE BeforeWrap
      <4> HIDE DEF mine, n
      <4> QED
        BY <3>1, <3>2, <3>3, <3>4, <3>5, <3>6, IteratorWalks
    <3>7. CASE ~BeforeWrap
      BY <3>1, <3>7 DEF UndisturbedWalkInOrder, BeforeWrap
    <3> QED
      BY <3>6, <3>7
  <2>3. CASE NextEnd(c)
    <3>1. UNCHANGED <<snapshots, issued, walk>> /\ pc' = [pc EXCEPT ![c] = "idle"]
          /\ op' = [op EXCEPT ![c] = NoOp]
      BY <2>3 DEF NextEnd, NoNextEntry, Goto, Done
    <3>2. ASSUME NEW j \in Kinds, NEW g \in Handles
          PROVE  (Position(j, g))' = Position(j, g)
      BY <2>0, <2>3, PidsAssumption
      DEF NextEnd, NoNextEntry, Position, Inv, TypeOK, StateTypeOK
    <3> QED
      BY <3>1, <3>2, WalkFacts, QuietWalks DEF BeforeWrap
  <2>4. ASSUME NEW n \in 0 .. MaxEntries, Query(c, n) PROVE UndisturbedWalkInOrder'
    BY <2>4, SameWalks DEF Query, Goto, stateVars, BeforeWrap
  <2>5. ASSUME NEW g \in Handles, Generate(c, g) PROVE UndisturbedWalkInOrder'
    <3>1. BeforeWrap' => BeforeWrap
      BY <2>5, MaxIntAssumption DEF Generate, GenerateHandle, BeforeWrap, Inv, TypeOK, StateTypeOK
    <3> QED
      BY <2>5, <3>1, SameWalks DEF Generate, GenerateHandle, Goto
  <2>6. CASE WalkUnknown(c) \/ Dereference(c) \/ Refuse(c) \/ AnswerEmpty(c) \/ Device(c)
    BY <2>6, SameWalks
    DEF WalkUnknown, Dereference, Refuse, AnswerEmpty, Device, Goto, Done, stateVars, BeforeWrap
  <2>7. CASE WalkKnown(c) \/ Checked(c)
    <3>1. op' = [op EXCEPT ![c] = op[c]]
      BY <2>0, <2>7 DEF WalkKnown, Checked
    <3> QED
      BY <2>7, <3>1, SameWalks DEF WalkKnown, Checked, Goto, stateVars, BeforeWrap
  <2>8. CASE LegacyHandle(c) \/ GetPid(c)
    BY <2>8, SameWalks DEF LegacyHandle, GetPid, Goto, stateVars, BeforeWrap
  <2> QED
    BY <1>3, <2>1, <2>2, <2>3, <2>4, <2>5, <2>6, <2>7, <2>8, StoreWalks DEF Handle
<1>4. CASE UNCHANGED vars
  BY <1>4 DEF vars, stateVars, clientVars, UndisturbedWalkInOrder, BeforeWrap, ContainsSnapshot,
              Position, OnMyWalk
<1> QED
  BY <1>1, <1>2, <1>3, <1>4 DEF Next

\* A walk with FIRST and NEXT over a snapshot delivers its entries in order and
\* each once, unless another connection walks or closes the same handle, until
\* the handle counter wraps.
THEOREM WalksInOrder == Spec => []UndisturbedWalkInOrder
<1>1. Init => UndisturbedWalkInOrder
  BY DEF Init, UndisturbedWalkInOrder
<1> HIDE DEF Inv, UndisturbedWalkInOrder
<1> QED
  BY <1>1, NextWalks, Invariance, PTL DEF Spec

-----------------------------------------------------------------------------
(* One connection alone *)

SoleConnection == \A c, d \in Connections : c = d

\* What a handler has found in the tables is still there when it uses it.
FoundInv ==
    \A c \in Connections : /\ pc[c] = "getpid" => ContainsProcess(op[c].h)
                           /\ pc[c] = "device" => op[c].pid # -1
                           /\ pc[c] = "deref" => ContainsSnapshot(op[c].kind, op[c].h)

LEMMA SoleStep ==
    ASSUME SoleConnection, TypeOK, FoundInv, NEW c \in Connections,
           Accept(c) \/ Disconnect(c) \/ Command(c) \/ Handle(c)
    PROVE  FoundInv'
<1> SUFFICES (/\ pc[c] = "getpid" => ContainsProcess(op[c].h)
              /\ pc[c] = "device" => op[c].pid # -1
              /\ pc[c] = "deref" => ContainsSnapshot(op[c].kind, op[c].h))'
  BY DEF SoleConnection, FoundInv
<1>0. op[c] \in OpType /\ op[c].kind \in Kinds /\ op[c].h \in Handles
      /\ \A to : [pc EXCEPT ![c] = to][c] = to
  BY CommandFacts DEF TypeOK
<1> USE DEF Goto
<1>1. /\ pc'[c] = "getpid" => Checked(c)
      /\ pc'[c] = "device" => GetPid(c)
      /\ pc'[c] = "deref" => NextFound(c)
  BY <1>0 DEF Accept, Disconnect, Command, Receive, ReceiveSnapshot, ReceiveOpenProcess,
     ReceiveCloseHandle, ReceiveArchitecture, ReceiveWalk, ReceiveOnProcess, Handle, Query,
     Generate, Store, WalkUnknown, WalkKnown, Reset, NextFound, NextEnd, Dereference,
     LegacyHandle, Refuse, AnswerEmpty, Checked, GetPid, Device
<1>2. CASE pc'[c] \notin {"getpid", "device", "deref"}
  BY <1>2
<1>3. CASE pc'[c] = "getpid"
  <2>1. Checked(c)
    BY <1>3, <1>1
  <2> QED
    BY <1>3, <2>1 DEF Checked, stateVars, ContainsProcess
<1>4. CASE pc'[c] = "device"
  <2>1. GetPid(c)
    BY <1>4, <1>1
  <2>2. ContainsProcess(op[c].h)
    BY <2>1 DEF GetPid, FoundInv
  <2>3. GetProcessID(op[c].h) \in Pids
    BY <1>0, <2>2 DEF GetProcessID, ContainsProcess, TypeOK, StateTypeOK
  <2>4. GetProcessID(op[c].h) # -1
    BY <2>3, PidsAssumption, MaxIntAssumption
  <2>5. op'[c].pid = GetProcessID(op[c].h)
    BY <1>0, <2>1 DEF GetPid, TypeOK, OpType
  <2> QED
    BY <1>4, <2>4, <2>5
<1>5. CASE pc'[c] = "deref"
  <2>1. NextFound(c)
    BY <1>5, <1>1
  <2>2. snapshots[op[c].kind][op[c].h] # None /\ snapshots' = snapshots
    BY <2>1 DEF NextFound, NextEntry, HasNext
  <2>3. op'[c].kind = op[c].kind /\ op'[c].h = op[c].h
    BY <1>0, <2>1 DEF NextFound, TypeOK, OpType
  <2> QED
    BY <1>5, <2>2, <2>3 DEF ContainsSnapshot
<1> QED
  BY <1>2, <1>3, <1>4, <1>5

LEMMA SoleInvariance == ASSUME SoleConnection PROVE Spec => []FoundInv
<1>1. Init => FoundInv
  BY DEF Init, FoundInv
<1>2. TypeOK /\ FoundInv /\ [Next]_vars => FoundInv'
  <2>1. CASE UNCHANGED vars
    BY <2>1 DEF vars, stateVars, clientVars, FoundInv, ContainsProcess, ContainsSnapshot
  <2> QED
    BY <2>1, SoleStep DEF Next
<1> HIDE DEF FoundInv
<1> QED
  BY <1>1, <1>2, TypeCorrect, PTL DEF Spec

\* A server with one connection refuses every command on a handle that stands
\* for no process: between the check and the lookup only another connection
\* can close the handle.
THEOREM SoleDevice == ASSUME SoleConnection PROVE Spec => []DeviceGetsProcess
<1>1. FoundInv => DeviceGetsProcess
  BY DEF FoundInv, DeviceGetsProcess
<1> HIDE DEF FoundInv, DeviceGetsProcess
<1> QED
  BY <1>1, SoleInvariance, PTL

\* With one connection no entry is read through a pointer into a snapshot that
\* is gone.
THEOREM SolePointer == ASSUME SoleConnection PROVE Spec => []NoDanglingPointer
<1>1. FoundInv => NoDanglingPointer
  BY DEF FoundInv, NoDanglingPointer
<1> HIDE DEF FoundInv, NoDanglingPointer
<1> QED
  BY <1>1, SoleInvariance, PTL
=============================================================================
