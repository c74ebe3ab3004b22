---------------------------- MODULE ServerProofs ----------------------------
(***************************************************************************)
(* Proofs about the server's threads and sockets, for any number of        *)
(* connections and descriptor numbers: types, no lost socket, threads that *)
(* receive from their own connection until a destructor strikes another,   *)
(* and a clean exit.                                                       *)
(***************************************************************************)
EXTENDS Server, TLAPS

USE DEF Receiving, Waiting, Serving

-----------------------------------------------------------------------------
(* The inductive invariant *)

Active(c) == thr[c] \in Serving

\* Where main and the accept loop are decides what they can have done.
LoopInv ==
    /\ cur # None <=> spc \in {"setopt", "release"}
    /\ spc = "setopt" => thr[cur] = "none"
    /\ spc = "release" => thr[cur] # "none"
    /\ spc = "done" => \A c \in Conns : Ended(c)
    /\ spc = "none" => \A c \in Conns : thr[c] = "none"
    /\ main \in {"init", "start"} => spc = "none"
    /\ main = "join" => spc # "none"
    /\ main = "exited" => spc \in {"none", "done"}

\* A wrapper exists exactly while the loop or a thread refers to it; a
\* connection that was not accepted yet has had neither.
WrapperInv ==
    \A c \in Conns : /\ num[c] # None <=> c = cur \/ ~Ended(c)
                     /\ c \in pending => thr[c] = "none" /\ c # cur /\ peer[c] # "away"
                     /\ peer[c] = "away" => thr[c] = "none" /\ c # cur

\* A receive waits for a connection; what has arrived was sent.
ReceiveInv ==
    \A c \in Conns : /\ thr[c] \in Waiting => at[c] # None
                     /\ inbox[c] <= sent[c]

\* As long as no destructor has struck, a wrapper that is not closed yet has
\* its own number, and so has the one the accept loop prepares.
OwnInv ==
    ~struck => /\ \A c \in Conns : Active(c) => table[num[c]] = c
               /\ \A c \in Conns : thr[c] \in Waiting => at[c] = c
               /\ spc = "setopt" => table[num[cur]] = cur

Inv == TypeOK /\ LoopInv /\ WrapperInv /\ ReceiveInv /\ NoSocketLeak /\ OwnInv

-----------------------------------------------------------------------------
LEMMA InitInv == Init => Inv
<1> SUFFICES ASSUME Init PROVE Inv
  OBVIOUS
<1> USE NoneAssumption, MaxSentAssumption DEF Init
<1>0. 0 \in 0 .. MaxSent /\ {} \subseteq Conns
  OBVIOUS
<1>1. TypeOK
  <2>1. main \in {"init", "start", "join", "exited"} /\ cur \in Conns \cup {None} /\ pending \subseteq Conns
        /\ bound \in BOOLEAN /\ bStop \in BOOLEAN /\ struck \in BOOLEAN
        /\ spc \in {"none", "check", "accept", "setopt", "release", "join", "done"}
    OBVIOUS
  <2>2. /\ thr \in [Conns -> {"none", "dropping", "done"} \cup Serving]
        /\ num \in [Conns -> Fds \cup {None}] /\ at \in [Conns -> Conns \cup {None}]
        /\ table \in [Fds -> Conns \cup {None}]
        /\ peer \in [Conns -> {"away", "open", "eof", "reset"}]
    OBVIOUS
  <2>3. inbox \in [Conns -> 0 .. MaxSent] /\ sent \in [Conns -> 0 .. MaxSent]
    BY <1>0
  <2> QED
    BY <2>1, <2>2, <2>3 DEF TypeOK
<1>2. LoopInv /\ WrapperInv /\ ReceiveInv /\ NoSocketLeak /\ OwnInv
  BY DEF LoopInv, WrapperInv, ReceiveInv, NoSocketLeak, OwnInv, Active, Ended
<1> QED
  BY <1>1, <1>2 DEF Inv

\* Numbers are there where the code uses them.
LEMMA NumberFacts ==
    ASSUME Inv, NEW c \in Conns, c = cur \/ ~Ended(c)
    PROVE  num[c] \in Fds /\ num[c] # None /\ c # None
BY NoneAssumption DEF Inv, TypeOK, WrapperInv

\* The accept loop's wrapper.
LEMMA LoopFacts ==
    ASSUME Inv, spc \in {"setopt", "release"}
    PROVE  cur \in Conns /\ cur # None /\ num[cur] \in Fds
BY NumberFacts DEF Inv, TypeOK, LoopInv

-----------------------------------------------------------------------------
(* Steps that touch no socket *)

\* A thread moves without touching sockets.
LEMMA ThreadMoves ==
    ASSUME Inv, NEW c \in Conns, NEW from, NEW to, Goto(c, from, to),
           from \notin {"none", "dropping", "done"},
           to \in Serving \cup {"dropping"},
           to \in Serving =>
              from \in Serving,
           NEW a \in Conns \cup {None}, at' = [at EXCEPT ![c] = a],
           to \in Waiting => a # None /\ (~struck => a = c),
           inbox' \in [Conns -> 0 .. MaxSent], \A d \in Conns : inbox'[d] <= inbox[d],
           UNCHANGED <<mainVars, spc, cur, socketVars, peer, pending, sent>>
    PROVE  Inv'
<1> USE DEF mainVars, socketVars, Goto
<1>0. TypeOK /\ LoopInv /\ WrapperInv /\ ReceiveInv /\ NoSocketLeak /\ OwnInv
  BY DEF Inv
<1>1. /\ thr[c] = from /\ thr'[c] = to /\ at'[c] = a
      /\ \A d \in Conns \ {c} : thr'[d] = thr[d] /\ at'[d] = at[d]
  BY <1>0 DEF TypeOK
<1>2. ~Ended(c) /\ ~Ended(c)'
  <2>1. from # "none" /\ from # "done"
    OBVIOUS
  <2> QED
    BY <1>1, <2>1 DEF Ended
<1>3. TypeOK'
  BY <1>0 DEF TypeOK
<1>4. LoopInv'
  <2>1. \A d \in Conns : Ended(d)' = Ended(d)
    BY <1>1, <1>2 DEF Ended
  <2>2. thr[c] # "none" /\ thr'[c] # "none"
    BY <1>2 DEF Ended
  <2>3. spc # "none"
    BY <1>0, <2>2 DEF LoopInv
  <2>4. (spc = "setopt" => thr[cur] = "none")'
    BY <1>0, <1>1, <2>2 DEF LoopInv, TypeOK
  <2>5. (spc = "release" => thr[cur] # "none")'
    BY <1>0, <1>1, <2>2 DEF LoopInv, TypeOK
  <2> QED
    BY <1>0, <2>1, <2>3, <2>4, <2>5 DEF LoopInv
<1>5. WrapperInv'
  BY <1>0, <1>1, <1>2 DEF WrapperInv, Ended
<1>6. ReceiveInv'
  <2>1. \A d \in Conns : inbox'[d] <= sent'[d]
    BY <1>0, <1>3 DEF ReceiveInv, TypeOK
  <2> QED
    BY <1>0, <1>1, <2>1 DEF ReceiveInv
<1>7. NoSocketLeak'
  BY <1>0 DEF NoSocketLeak
<1>8. OwnInv'
  BY <1>0, <1>1 DEF OwnInv, Active
<1> QED
  BY <1>3, <1>4, <1>5, <1>6, <1>7, <1>8 DEF Inv

\* A receive's connection.
LEMMA ReceiveFacts ==
    ASSUME Inv, NEW c \in Conns, thr[c] \in Waiting
    PROVE  at[c] \in Conns /\ (~struck => at[c] = c)
BY DEF Inv, TypeOK, ReceiveInv, OwnInv

\* The receive is over.
LEMMA ThreadStopsReceiving ==
    ASSUME Inv, NEW c \in Conns, NEW from \in {"enter", "act"} \cup Waiting,
           NEW to \in {"check", "dispatch", "act", "closing"}, Goto(c, from, to),
           at' = [at EXCEPT ![c] = None],
           inbox' \in [Conns -> 0 .. MaxSent], \A d \in Conns : inbox'[d] <= inbox[d],
           UNCHANGED <<mainVars, spc, cur, socketVars, peer, pending, sent>>
    PROVE  Inv'
<1> DEFINE a == None
<1>1. a \in Conns \cup {None} /\ at' = [at EXCEPT ![c] = a]
  OBVIOUS
<1>3. /\ from \notin {"none", "dropping", "done"}
      /\ to \in Serving \cup {"dropping"}
      /\ from \in Serving
      /\ to \notin Waiting
  OBVIOUS
<1> HIDE DEF a
<1> QED
  BY <1>1, <1>3, ThreadMoves

LEMMA QuietThreadInv ==
    ASSUME Inv, NEW c \in Conns,
           \/ LoopCheck(c) \/ Enter(c) \/ RecvCommand(c) \/ RecvEnd(c) \/ RecvFails(c) \/ Dispatch(c)
           \/ RecvFields(c) \/ Reply(c) \/ ReplyWaits(c) \/ ReadHangs(c) \/ SendOver(c)
    PROVE  Inv'
<1>0. /\ at \in [Conns -> Conns \cup {None}] /\ at[c] \in Conns \cup {None}
      /\ inbox \in [Conns -> 0 .. MaxSent] /\ \A d \in Conns : inbox[d] <= inbox[d]
      /\ None \in Conns \cup {None}
  BY DEF Inv, TypeOK
<1>1. CASE LoopCheck(c)
  <2>1. at' = [at EXCEPT ![c] = at[c]]
    BY <1>0, <1>1 DEF LoopCheck
  <2>2. PICK to \in {"dropping", "enter"} : Goto(c, "check", to)
    BY <1>1 DEF LoopCheck
  <2> QED
    BY <1>0, <1>1, <2>1, <2>2, ThreadMoves DEF LoopCheck, peerVars
<1>2. CASE Enter(c)
  <2>0. thr[c] = "enter" /\ num[c] \in Fds
    BY <1>2, NumberFacts DEF Enter, Goto, Ended
  <2>1. table[num[c]] \in Conns \cup {None}
    BY <2>0 DEF Inv, TypeOK
  <2>2. ~struck => table[num[c]] = c
    BY <2>0 DEF Inv, OwnInv, Active
  <2>3. CASE table[num[c]] = None
    BY <1>0, <1>2, <2>3, ThreadStopsReceiving DEF Enter, peerVars
  <2>4. CASE table[num[c]] # None
    BY <1>0, <1>2, <2>1, <2>2, <2>4, ThreadMoves DEF Enter, peerVars
  <2> QED
    BY <2>3, <2>4
<1>3. CASE RecvCommand(c) \/ RecvFields(c)
  <2>0. at[c] \in Conns
    BY <1>3, ReceiveFacts DEF RecvCommand, RecvFields, Goto
  <2>1. inbox' \in [Conns -> 0 .. MaxSent] /\ \A d \in Conns : inbox'[d] <= inbox[d]
    BY <1>0, <1>3, <2>0, MaxSentAssumption DEF RecvCommand, RecvFields
  <2>2. CASE RecvCommand(c)
    BY <2>1, <2>2, ThreadStopsReceiving DEF RecvCommand
  <2>3. CASE RecvFields(c)
    BY <2>1, <2>3, ThreadStopsReceiving DEF RecvFields
  <2> QED
    BY <1>3, <2>2, <2>3
<1>4. CASE RecvEnd(c)
  BY <1>0, <1>4, ThreadStopsReceiving DEF RecvEnd, peerVars
<1>5. CASE RecvFails(c)
  BY <1>0, <1>5, ThreadStopsReceiving DEF RecvFails, peerVars
<1>6. CASE Dispatch(c) \/ ReplyWaits(c)
  <2>0. thr[c] \in {"dispatch", "act"} /\ num[c] \in Fds
    BY <1>6, NumberFacts DEF Dispatch, ReplyWaits, Goto, Ended
  <2>1. table[num[c]] \in Conns \cup {None}
    BY <2>0 DEF Inv, TypeOK
  <2>2. ~struck => table[num[c]] = c
    BY <2>0 DEF Inv, OwnInv, Active
  <2>3. CASE Dispatch(c) /\ Goto(c, "dispatch", "act") /\ UNCHANGED at
    <3>1. at' = [at EXCEPT ![c] = at[c]]
      BY <1>0, <2>3
    <3>2. PICK to \in {"act"} : Goto(c, "dispatch", to)
      BY <2>3
    <3>3. UNCHANGED <<mainVars, spc, cur, socketVars, peer, pending, sent, inbox>>
      BY <2>3 DEF Dispatch, peerVars
    <3> QED
      BY <1>0, <3>1, <3>2, <3>3, ThreadMoves
  <2>4. CASE /\ Dispatch(c) /\ Goto(c, "dispatch", "fields") /\ table[num[c]] # None
             /\ at' = [at EXCEPT ![c] = table[num[c]]]
    BY <1>0, <2>1, <2>2, <2>4, ThreadMoves DEF Dispatch, peerVars
  <2>5. CASE ReplyWaits(c)
    BY <1>0, <2>1, <2>2, <2>5, ThreadMoves DEF ReplyWaits, peerVars
  <2> QED
    BY <1>6, <2>3, <2>4, <2>5 DEF Dispatch
<1>7. CASE Reply(c) \/ ReadHangs(c)
  <2>1. at' = [at EXCEPT ![c] = at[c]]
    BY <1>0, <1>7 DEF Reply, ReadHangs
  <2>2. PICK to \in {"check", "closing", "hung"} : Goto(c, "act", to)
    BY <1>7 DEF Reply, ReadHangs
  <2> QED
    BY <1>0, <1>7, <2>1, <2>2, ThreadMoves DEF Reply, ReadHangs, peerVars
<1>8. CASE SendOver(c)
  BY <1>0, <1>8, ThreadStopsReceiving DEF SendOver, peerVars
<1> QED
  BY <1>1, <1>2, <1>3, <1>4, <1>5, <1>6, <1>7, <1>8

\* main and stop touch no thread but the server's, which has not run yet.
LEMMA MainInv ==
    ASSUME Inv, Main \/ Stop
    PROVE  Inv'
<1>0. TypeOK /\ LoopInv /\ WrapperInv /\ ReceiveInv /\ NoSocketLeak /\ OwnInv
  BY DEF Inv
<1>1. UNCHANGED <<cur, thr, at, num, table, struck, peer, pending, inbox, sent>>
  BY DEF Main, ServerInit, Start, Stop, Join, socketVars, peerVars
<1>2. /\ main' \in {"init", "start", "join", "exited"} /\ bound' \in BOOLEAN /\ bStop' \in BOOLEAN
      /\ spc' \in {"none", "check", "accept", "setopt", "release", "join", "done"}
  BY <1>0 DEF TypeOK, Main, ServerInit, Start, Stop, Join
<1>3. TypeOK'
  BY <1>0, <1>1, <1>2 DEF TypeOK
<1>4. LoopInv' /\ (spc' # spc => spc' = "check")
  <2>1. CASE ServerInit
    BY <1>0, <1>1, <2>1 DEF ServerInit, LoopInv, Ended
  <2>2. CASE Start
    BY <1>0, <1>1, <2>2 DEF Start, LoopInv, Ended
  <2>3. CASE Stop
    BY <1>0, <1>1, <2>3 DEF Stop, LoopInv, Ended
  <2>4. CASE Join
    BY <1>0, <1>1, <2>4 DEF Join, LoopInv, Ended
  <2> QED
    BY <2>1, <2>2, <2>3, <2>4 DEF Main
<1>5. (WrapperInv /\ ReceiveInv /\ NoSocketLeak)'
  BY <1>0, <1>1 DEF WrapperInv, ReceiveInv, NoSocketLeak, Ended
<1>6. OwnInv'
  BY <1>0, <1>1, <1>4 DEF OwnInv, Active
<1> QED
  BY <1>3, <1>4, <1>5, <1>6 DEF Inv

\* Peers change what waits to be accepted and received.
LEMMA PeersInv ==
    ASSUME Inv, NEW c \in Conns, Connect(c) \/ Send(c) \/ Hangup(c)
    PROVE  Inv'
<1>0. TypeOK /\ LoopInv /\ WrapperInv /\ ReceiveInv /\ NoSocketLeak /\ OwnInv
  BY DEF Inv
<1>1. UNCHANGED <<main, bound, bStop, spc, cur, thr, at, num, table, struck>>
  BY DEF Connect, Send, Hangup, mainVars, socketVars
<1>2. (LoopInv /\ NoSocketLeak /\ OwnInv)'
  BY <1>0, <1>1 DEF LoopInv, NoSocketLeak, OwnInv, Active, Ended
<1>4. CASE Connect(c)
  <2>1. TypeOK'
    BY <1>0, <1>1, <1>4 DEF Connect, TypeOK
  <2>2. WrapperInv'
    BY <1>0, <1>1, <1>4 DEF Connect, TypeOK, WrapperInv, Ended
  <2>3. ReceiveInv'
    BY <1>0, <1>1, <1>4 DEF Connect, ReceiveInv
  <2> QED
    BY <1>2, <2>1, <2>2, <2>3 DEF Inv
<1>5. CASE Send(c)
  <2>0. /\ inbox[c] \in 0 .. MaxSent /\ sent[c] \in 0 .. MaxSent
        /\ inbox[c] <= sent[c] /\ sent[c] < MaxSent
    BY <1>0, <1>5 DEF Send, TypeOK, ReceiveInv
  <2>1. /\ inbox' = [inbox EXCEPT ![c] = inbox[c] + 1] /\ sent' = [sent EXCEPT ![c] = sent[c] + 1]
        /\ inbox[c] + 1 \in 0 .. MaxSent /\ sent[c] + 1 \in 0 .. MaxSent
        /\ inbox[c] + 1 <= sent[c] + 1
    BY <1>5, <2>0, MaxSentAssumption DEF Send
  <2>2. TypeOK'
    BY <1>0, <1>1, <1>5, <2>1 DEF Send, TypeOK
  <2>3. WrapperInv'
    BY <1>0, <1>1, <1>5 DEF Send, WrapperInv, Ended
  <2>4. ReceiveInv'
    BY <1>0, <1>1, <2>1 DEF ReceiveInv, TypeOK
  <2> QED
    BY <1>2, <2>2, <2>3, <2>4 DEF Inv
<1>6. CASE Hangup(c)
  <2>1. /\ peer' \in [Conns -> {"away", "open", "eof", "reset"}]
        /\ \A d \in Conns : peer'[d] = "away" <=> peer[d] = "away"
    BY <1>0, <1>6 DEF Hangup, TypeOK
  <2>2. /\ inbox' \in [Conns -> 0 .. MaxSent]
        /\ \A d \in Conns : inbox'[d] <= sent[d]
    <3>1. CASE inbox' = inbox
      BY <1>0, <3>1 DEF TypeOK, ReceiveInv
    <3>2. CASE inbox' = [inbox EXCEPT ![c] = 0]
      BY <1>0, <3>2, MaxSentAssumption DEF TypeOK, ReceiveInv
    <3> QED
      BY <1>6, <3>1, <3>2 DEF Hangup
  <2>3. TypeOK'
    BY <1>0, <1>1, <1>6, <2>1, <2>2 DEF Hangup, TypeOK
  <2>4. WrapperInv'
    BY <1>0, <1>1, <1>6, <2>1 DEF Hangup, WrapperInv, Ended
  <2>5. ReceiveInv'
    BY <1>0, <1>1, <1>6, <2>2 DEF Hangup, ReceiveInv
  <2> QED
    BY <1>2, <2>3, <2>4, <2>5 DEF Inv
<1> QED
  BY <1>4, <1>5, <1>6

-----------------------------------------------------------------------------
(* Sockets *)

\* Closing the number of c touches no other connection's socket, unless a
\* destructor has struck before or strikes now.
LEMMA CloseOwn ==
    ASSUME Inv, NEW c \in Conns, num[c] \in Fds, table[num[c]] \in {c, None}, ~struck,
           Close(c), NEW d \in Conns, d # c, num[d] \in Fds, table[num[d]] = d
    PROVE  table'[num[d]] = d
<1>1. num[d] # num[c]
  BY NoneAssumption
<1> QED
  BY <1>1 DEF Close, Inv, TypeOK

\* The accepted connection gets a number of its own.
LEMMA AcceptInv ==
    ASSUME Inv, NEW c \in Conns, NEW f \in Fds, Accept(c, f)
    PROVE  Inv'
<1>0. TypeOK /\ LoopInv /\ WrapperInv /\ ReceiveInv /\ NoSocketLeak /\ OwnInv
  BY DEF Inv
<1>1. /\ UNCHANGED <<main, bound, bStop, thr, at, struck, peer, inbox, sent>>
      /\ spc = "accept" /\ spc' = "setopt" /\ cur' = c /\ c \in pending
      /\ table[f] = None /\ pending' = pending \ {c}
  BY DEF Accept, mainVars, Free
<1>2. /\ num'[c] = f /\ table'[f] = c
      /\ \A d \in Conns \ {c} : num'[d] = num[d]
      /\ \A g \in Fds \ {f} : table'[g] = table[g]
  BY <1>0 DEF Accept, TypeOK
<1>3. cur = None /\ thr[c] = "none" /\ num[c] = None /\ c # None /\ f # None /\ peer[c] # "away"
  BY <1>0, <1>1, NoneAssumption DEF LoopInv, WrapperInv, Ended
<1>4. TypeOK'
  BY <1>0, <1>1 DEF Accept, TypeOK
<1>5. LoopInv'
  BY <1>0, <1>1, <1>3 DEF LoopInv, Ended
<1>6. WrapperInv'
  BY <1>0, <1>1, <1>2, <1>3, NoneAssumption DEF WrapperInv, Ended
<1>7. ReceiveInv'
  BY <1>0, <1>1 DEF ReceiveInv
<1>8. NoSocketLeak'
  <2> SUFFICES ASSUME NEW g \in Fds, table'[g] # None PROVE num'[table'[g]] = g
    BY DEF NoSocketLeak
  <2>1. CASE g = f
    BY <1>2, <2>1
  <2>2. CASE g # f
    <3>1. table'[g] = table[g] /\ table[g] \in Conns /\ num[table[g]] = g
      BY <1>0, <1>2, <2>2 DEF NoSocketLeak, TypeOK
    <3>2. table[g] # c
      BY <1>3, <3>1, NoneAssumption
    <3> QED
      BY <1>2, <3>1, <3>2
  <2> QED
    BY <2>1, <2>2
<1>9. OwnInv'
  <2>1. ASSUME ~struck, NEW d \in Conns, Active(d) PROVE table'[num'[d]] = d
    <3>1. d # c /\ ~Ended(d)
      BY <1>3, <2>1 DEF Active, Ended
    <3>2. num[d] \in Fds /\ table[num[d]] = d /\ d # None
      BY <1>0, <2>1, <3>1, NumberFacts DEF OwnInv
    <3>3. num[d] # f
      BY <1>1, <3>2
    <3> QED
      BY <1>2, <3>1, <3>2, <3>3
  <2> QED
    BY <1>0, <1>1, <1>2, <2>1 DEF OwnInv, Active
<1> QED
  BY <1>4, <1>5, <1>6, <1>7, <1>8, <1>9 DEF Inv

\* A wrapper is destroyed: its number stands for nothing, and it has none.
LEMMA DestroyedLeak ==
    ASSUME Inv, NEW c \in Conns, num[c] \in Fds, Close(c), num' = [num EXCEPT ![c] = None]
    PROVE  NoSocketLeak'
<1> SUFFICES ASSUME NEW g \in Fds, table'[g] # None PROVE num'[table'[g]] = g
  BY DEF NoSocketLeak
<1>1. g # num[c] /\ table'[g] = table[g] /\ table[g] \in Conns /\ num[table[g]] = g
  BY DEF Inv, NoSocketLeak, TypeOK, Close
<1>2. table[g] # c
  BY <1>1
<1> QED
  BY <1>1, <1>2 DEF Inv, TypeOK

\* The loop gives up a connection whose option it cannot set.
LEMMA SetOptFailsInv ==
    ASSUME Inv, SetOptFails
    PROVE  Inv'
<1>0. TypeOK /\ LoopInv /\ WrapperInv /\ ReceiveInv /\ NoSocketLeak /\ OwnInv
  BY DEF Inv
<1>1. /\ UNCHANGED <<main, bound, bStop, thr, at, struck, peer, pending, inbox, sent>>
      /\ spc = "setopt" /\ spc' = "check" /\ cur' = None
      /\ Close(cur) /\ num' = [num EXCEPT ![cur] = None]
  BY DEF SetOptFails, mainVars, peerVars
<1>2. cur \in Conns /\ cur # None /\ num[cur] \in Fds /\ thr[cur] = "none"
  BY <1>0, <1>1, LoopFacts DEF LoopInv
<1>3. num'[cur] = None /\ \A d \in Conns \ {cur} : num'[d] = num[d]
  BY <1>0, <1>1, <1>2 DEF TypeOK
<1>4. TypeOK'
  BY <1>0, <1>1, <1>2 DEF TypeOK, Close
<1>5. LoopInv'
  BY <1>0, <1>1 DEF LoopInv, Ended
<1>6. WrapperInv'
  BY <1>0, <1>1, <1>2, <1>3, NoneAssumption DEF WrapperInv, Ended
<1>7. ReceiveInv'
  BY <1>0, <1>1 DEF ReceiveInv
<1>8. NoSocketLeak'
  BY <1>1, <1>2, DestroyedLeak
<1>9. OwnInv'
  <2>1. ASSUME ~struck, NEW d \in Conns, Active(d) PROVE table'[num'[d]] = d
    <3>1. d # cur /\ ~Ended(d)
      BY <1>2, <2>1 DEF Active, Ended
    <3>2. num[d] \in Fds /\ table[num[d]] = d
      BY <1>0, <2>1, <3>1, NumberFacts DEF OwnInv
    <3>3. table[num[cur]] = cur
      BY <1>0, <1>1, <2>1 DEF OwnInv
    <3> QED
      BY <1>1, <1>2, <1>3, <2>1, <3>1, <3>2, <3>3, CloseOwn
  <2> QED
    BY <1>0, <1>1, <2>1 DEF OwnInv, Active
<1> QED
  BY <1>4, <1>5, <1>6, <1>7, <1>8, <1>9 DEF Inv
\* The destructor takes the number of c, which no loop or thread uses any more:
\* if its number is another connection's by now, that is recorded.
LEMMA DestroyInv ==
    ASSUME Inv, NEW c \in Conns, num[c] \in Fds, Destroy(c), Ended(c)',
           UNCHANGED <<main, bound, bStop, at, peer, pending, inbox, sent>>,
           thr' \in [Conns -> {"none", "dropping", "done"} \cup Serving],
           \A d \in Conns \ {c} : thr'[d] = thr[d],
           thr'[c] # "none", thr[c] # "none",
           \/ spc' = spc /\ cur' = cur /\ cur # c
           \/ spc = "release" /\ spc' = "check" /\ cur = c /\ cur' = None
    PROVE  Inv'
<1>0. TypeOK /\ LoopInv /\ WrapperInv /\ ReceiveInv /\ NoSocketLeak /\ OwnInv
  BY DEF Inv
<1>1. /\ Close(c) /\ num' = [num EXCEPT ![c] = None]
      /\ ~struck' => ~struck /\ table[num[c]] \in {c, None}
  BY DEF Destroy
<1>2. num'[c] = None /\ \A d \in Conns \ {c} : num'[d] = num[d]
  BY <1>0, <1>1 DEF TypeOK
<1>3. c # None /\ thr'[c] = "done"
  BY NoneAssumption DEF Ended
<1>4. TypeOK'
  <2>1. struck' \in BOOLEAN /\ table' \in [Fds -> Conns \cup {None}] /\ num' \in [Conns -> Fds \cup {None}]
    BY <1>0 DEF Destroy, Close, TypeOK
  <2>2. spc' \in {"none", "check", "accept", "setopt", "release", "join", "done"}
        /\ cur' \in Conns \cup {None}
    BY <1>0 DEF TypeOK
  <2> QED
    BY <1>0, <2>1, <2>2 DEF TypeOK
<1>5. LoopInv'
  <2>1. \A d \in Conns : Ended(d) => Ended(d)'
    BY <1>3 DEF Ended
  <2>2. spc # "none"
    BY <1>0 DEF LoopInv
  <2> QED
    BY <1>0, <1>3, <2>1, <2>2 DEF LoopInv, TypeOK
<1>6. WrapperInv'
  <2> SUFFICES ASSUME NEW d \in Conns
               PROVE  (/\ num[d] # None <=> d = cur \/ ~Ended(d)
                       /\ d \in pending => thr[d] = "none" /\ d # cur /\ peer[d] # "away"
                       /\ peer[d] = "away" => thr[d] = "none" /\ d # cur)'
    BY DEF WrapperInv
  <2>1. CASE d = c
    <3>1. thr[c] # "none" /\ c # cur'
      BY <1>3
    <3>2. c \notin pending /\ peer[c] # "away"
      BY <1>0, <3>1 DEF WrapperInv
    <3> QED
      BY <1>2, <2>1, <3>1, <3>2
  <2>2. CASE d # c
    <3>1. d = cur' <=> d = cur
      BY <2>2, NoneAssumption
    <3>2. Ended(d)' <=> Ended(d)
      BY <2>2 DEF Ended
    <3> QED
      BY <1>0, <1>2, <2>2, <3>1, <3>2 DEF WrapperInv
  <2> QED
    BY <2>1, <2>2
<1>7. ReceiveInv'
  <2>1. \A d \in Conns : thr'[d] \in Waiting => thr[d] = thr'[d]
    BY <1>3
  <2> QED
    BY <1>0, <2>1 DEF ReceiveInv
<1>8. NoSocketLeak'
  BY <1>1, DestroyedLeak
<1>9. OwnInv'
  <2> SUFFICES ASSUME ~struck'
               PROVE  (/\ \A d \in Conns : Active(d) => table[num[d]] = d
                       /\ \A d \in Conns : thr[d] \in Waiting => at[d] = d
                       /\ spc = "setopt" => table[num[cur]] = cur)'
    BY DEF OwnInv
  <2>0. ~struck /\ table[num[c]] \in {c, None}
    BY <1>1
  <2>1. ASSUME NEW d \in Conns, Active(d)' PROVE table'[num'[d]] = d
    <3>1. d # c /\ Active(d) /\ ~Ended(d)
      BY <1>3, <2>1 DEF Active, Ended
    <3>2. num[d] \in Fds /\ table[num[d]] = d
      BY <1>0, <2>0, <3>1, NumberFacts DEF OwnInv
    <3> QED
      BY <1>1, <1>2, <2>0, <3>1, <3>2, CloseOwn
  <2>2. ASSUME NEW d \in Conns, thr'[d] \in Waiting PROVE at'[d] = d
    BY <1>0, <1>3, <2>0, <2>2 DEF OwnInv
  <2>3. ASSUME spc' = "setopt" PROVE table'[num'[cur']] = cur'
    <3>1. cur' = cur /\ cur # c /\ spc = "setopt" /\ cur \in Conns /\ num[cur] \in Fds
      BY <2>3, LoopFacts
    <3>2. table[num[cur]] = cur
      BY <1>0, <2>0, <3>1 DEF OwnInv
    <3>3. num'[cur'] = num[cur]
      BY <1>2, <3>1
    <3>4. table'[num[cur]] = cur
      BY <1>1, <2>0, <3>1, <3>2, CloseOwn
    <3> QED
      BY <3>1, <3>3, <3>4
  <2> QED
    BY <2>1, <2>2, <2>3
<1> QED
  BY <1>4, <1>5, <1>6, <1>7, <1>8, <1>9 DEF Inv

\* The loop's steps that touch no socket.
LEMMA LoopInvariant ==
    ASSUME Inv, CheckStop \/ AcceptFails \/ JoinThreads
    PROVE  Inv'
<1>0. TypeOK /\ LoopInv /\ WrapperInv /\ ReceiveInv /\ NoSocketLeak /\ OwnInv
  BY DEF Inv
<1>1. /\ UNCHANGED <<main, bound, bStop, cur, thr, at, num, table, struck, peer, inbox, sent>>
      /\ pending' \subseteq pending
      /\ spc \in {"check", "accept", "join"} /\ spc' \in {"check", "accept", "join", "done"}
      /\ spc' = "done" => \A c \in Conns : Ended(c)
  BY DEF CheckStop, AcceptFails, JoinThreads, mainVars, socketVars, peerVars
<1>2. TypeOK'
  BY <1>0, <1>1 DEF TypeOK
<1>3. LoopInv'
  BY <1>0, <1>1 DEF LoopInv, Ended
<1>4. (WrapperInv /\ ReceiveInv /\ NoSocketLeak /\ OwnInv)'
  BY <1>0, <1>1 DEF WrapperInv, ReceiveInv, NoSocketLeak, OwnInv, Active, Ended
<1> QED
  BY <1>2, <1>3, <1>4 DEF Inv

\* The new thread starts with the number the loop has prepared.
LEMMA SpawnInv ==
    ASSUME Inv, Spawn
    PROVE  Inv'
<1>0. TypeOK /\ LoopInv /\ WrapperInv /\ ReceiveInv /\ NoSocketLeak /\ OwnInv
  BY DEF Inv
<1>1. /\ UNCHANGED <<main, bound, bStop, cur, at, num, table, struck, peer, pending, inbox, sent>>
      /\ spc = "setopt" /\ spc' = "release" /\ thr' = [thr EXCEPT ![cur] = "check"]
  BY DEF Spawn, mainVars, socketVars, peerVars
<1>2. cur \in Conns /\ cur # None /\ thr[cur] = "none" /\ num[cur] \in Fds /\ num[cur] # None
  BY <1>0, <1>1, LoopFacts, NumberFacts DEF LoopInv
<1>3. thr'[cur] = "check" /\ \A d \in Conns \ {cur} : thr'[d] = thr[d]
  BY <1>0, <1>1, <1>2 DEF TypeOK
<1>4. TypeOK'
  BY <1>0, <1>1 DEF TypeOK
<1>5. LoopInv'
  BY <1>0, <1>1, <1>2, <1>3 DEF LoopInv
<1>6. WrapperInv'
  BY <1>0, <1>1, <1>2, <1>3 DEF WrapperInv, Ended
<1>7. (ReceiveInv /\ NoSocketLeak)'
  BY <1>0, <1>1, <1>3 DEF ReceiveInv, NoSocketLeak
<1>8. OwnInv'
  BY <1>0, <1>1, <1>3 DEF OwnInv, Active
<1> QED
  BY <1>4, <1>5, <1>6, <1>7, <1>8 DEF Inv

LEMMA ReleaseInv ==
    ASSUME Inv, Release
    PROVE  Inv'
<1>0. TypeOK /\ LoopInv /\ WrapperInv /\ ReceiveInv /\ NoSocketLeak /\ OwnInv
  BY DEF Inv
<1>1. /\ UNCHANGED <<main, bound, bStop, thr, at, peer, pending, inbox, sent>>
      /\ spc = "release" /\ spc' = "check" /\ cur' = None
  BY DEF Release, mainVars, peerVars
<1>2. cur \in Conns /\ cur # None /\ thr[cur] # "none" /\ num[cur] \in Fds
  BY <1>0, <1>1, LoopFacts DEF LoopInv
<1>3. CASE thr[cur] = "done"
  <2>0. PICK c \in Conns : c = cur
    BY <1>2
  <2>1. Destroy(c) /\ Ended(c)' /\ thr[c] # "none" /\ thr'[c] # "none" /\ num[c] \in Fds
    BY <1>1, <1>2, <1>3, <2>0 DEF Release, Ended
  <2>2. thr' \in [Conns -> {"none", "dropping", "done"} \cup Serving]
    BY <1>0, <1>1 DEF TypeOK
  <2> QED
    BY <1>1, <2>0, <2>1, <2>2, DestroyInv
<1>4. CASE thr[cur] # "done"
  <2>1. UNCHANGED <<num, table, struck>> /\ ~Ended(cur)
    BY <1>2, <1>4 DEF Release, socketVars, Ended
  <2>2. TypeOK'
    BY <1>0, <1>1, <2>1 DEF TypeOK
  <2>3. LoopInv'
    BY <1>0, <1>1 DEF LoopInv, Ended
  <2>4. WrapperInv'
    BY <1>0, <1>1, <2>1, NoneAssumption DEF WrapperInv, Ended
  <2>5. (ReceiveInv /\ NoSocketLeak /\ OwnInv)'
    BY <1>0, <1>1, <2>1 DEF ReceiveInv, NoSocketLeak, OwnInv, Active
  <2> QED
    BY <2>2, <2>3, <2>4, <2>5 DEF Inv
<1> QED
  BY <1>3, <1>4

LEMMA CloseSocketInv ==
    ASSUME Inv, NEW c \in Conns, CloseSocket(c)
    PROVE  Inv'
<1>0. TypeOK /\ LoopInv /\ WrapperInv /\ ReceiveInv /\ NoSocketLeak /\ OwnInv
  BY DEF Inv
<1>1. /\ UNCHANGED <<main, bound, bStop, spc, cur, at, num, struck, peer, pending, inbox, sent>>
      /\ thr[c] = "closing" /\ thr' = [thr EXCEPT ![c] = "dropping"] /\ Close(c)
  BY DEF CloseSocket, Goto, mainVars, peerVars
<1>2. thr'[c] = "dropping" /\ \A d \in Conns \ {c} : thr'[d] = thr[d]
  BY <1>0, <1>1 DEF TypeOK
<1>3. num[c] \in Fds
  BY <1>1, NumberFacts DEF Ended
<1>4. TypeOK'
  BY <1>0, <1>1, <1>3 DEF TypeOK, Close
<1>5. LoopInv'
  <2>1. \A d \in Conns : Ended(d)' = Ended(d)
    BY <1>1, <1>2 DEF Ended
  <2>2. spc # "none" /\ (spc = "setopt" => cur # c)
    BY <1>0, <1>1 DEF LoopInv
  <2> QED
    BY <1>0, <1>1, <1>2, <2>1, <2>2 DEF LoopInv, TypeOK
<1>6. WrapperInv'
  BY <1>0, <1>1, <1>2 DEF WrapperInv, Ended
<1>7. ReceiveInv'
  BY <1>0, <1>1, <1>2 DEF ReceiveInv
<1>8. NoSocketLeak'
  <2> SUFFICES ASSUME NEW g \in Fds, table'[g] # None PROVE num[table'[g]] = g
    BY <1>1 DEF NoSocketLeak
  <2>1. table'[g] = table[g]
    BY <1>0, <1>1 DEF TypeOK, Close
  <2> QED
    BY <1>0, <2>1 DEF NoSocketLeak
<1>9. OwnInv'
  <2> SUFFICES ASSUME ~struck
               PROVE  (/\ \A d \in Conns : Active(d) => table[num[d]] = d
                       /\ \A d \in Conns : thr[d] \in Waiting => at[d] = d
                       /\ spc = "setopt" => table[num[cur]] = cur)'
    BY <1>1 DEF OwnInv
  <2>0. table[num[c]] = c
    BY <1>0, <1>1 DEF OwnInv, Active
  <2>1. ASSUME NEW d \in Conns, Active(d)' PROVE table'[num[d]] = d
    <3>1. d # c /\ Active(d) /\ ~Ended(d)
      BY <1>2, <2>1 DEF Active, Ended
    <3>2. num[d] \in Fds /\ table[num[d]] = d
      BY <1>0, <3>1, NumberFacts DEF OwnInv
    <3> QED
      BY <1>1, <1>3, <2>0, <3>1, <3>2, CloseOwn
  <2>2. ASSUME NEW d \in Conns, thr'[d] \in Waiting PROVE at[d] = d
    BY <1>0, <1>2, <2>2 DEF OwnInv
  <2>3. ASSUME spc = "setopt" PROVE table'[num[cur]] = cur
    <3>1. cur \in Conns /\ num[cur] \in Fds /\ thr[cur] = "none"
      BY <1>0, <2>3, LoopFacts DEF LoopInv
    <3>2. cur # c /\ table[num[cur]] = cur
      BY <1>0, <1>1, <2>3, <3>1 DEF OwnInv
    <3> QED
      BY <1>1, <1>3, <2>0, <3>1, <3>2, CloseOwn
  <2> QED
    BY <1>1, <2>1, <2>2, <2>3
<1> QED
  BY <1>4, <1>5, <1>6, <1>7, <1>8, <1>9 DEF Inv

LEMMA ReturnInv ==
    ASSUME Inv, NEW c \in Conns, Return(c)
    PROVE  Inv'
<1>0. TypeOK /\ LoopInv /\ WrapperInv /\ ReceiveInv /\ NoSocketLeak /\ OwnInv
  BY DEF Inv
<1>1. /\ UNCHANGED <<main, bound, bStop, spc, cur, at, peer, pending, inbox, sent>>
      /\ thr[c] = "dropping" /\ thr' = [thr EXCEPT ![c] = "done"]
  BY DEF Return, Goto, mainVars, peerVars
<1>2. thr'[c] = "done" /\ \A d \in Conns \ {c} : thr'[d] = thr[d]
  BY <1>0, <1>1 DEF TypeOK
<1>3. num[c] \in Fds
  BY <1>1, NumberFacts DEF Ended
<1>4. thr' \in [Conns -> {"none", "dropping", "done"} \cup Serving]
  BY <1>0, <1>1 DEF TypeOK
<1>5. CASE cur # c
  <2>1. Destroy(c) /\ Ended(c)'
    BY <1>2, <1>5 DEF Return, Ended
  <2> QED
    BY <1>1, <1>2, <1>3, <1>4, <1>5, <2>1, DestroyInv
<1>6. CASE cur = c
  <2>1. UNCHANGED <<num, table, struck>> /\ c # None
    BY <1>6, NoneAssumption DEF Return, socketVars
  <2>2. TypeOK'
    BY <1>0, <1>1, <1>4, <2>1 DEF TypeOK
  <2>3. LoopInv'
    <3>1. spc = "release"
      BY <1>0, <1>1, <1>6, <2>1 DEF LoopInv
    <3> QED
      BY <1>0, <1>1, <1>2, <1>6, <3>1 DEF LoopInv
  <2>4. WrapperInv'
    BY <1>0, <1>1, <1>2, <1>6, <2>1 DEF WrapperInv, Ended
  <2>5. (ReceiveInv /\ NoSocketLeak)'
    BY <1>0, <1>1, <1>2, <2>1 DEF ReceiveInv, NoSocketLeak
  <2>6. OwnInv'
    BY <1>0, <1>1, <1>2, <2>1 DEF OwnInv, Active
  <2> QED
    BY <2>2, <2>3, <2>4, <2>5, <2>6 DEF Inv
<1> QED
  BY <1>5, <1>6

-----------------------------------------------------------------------------
(* The invariant is inductive *)

LEMMA NextInv == Inv /\ [Next]_vars => Inv'
<1> SUFFICES ASSUME Inv, [Next]_vars PROVE Inv'
  OBVIOUS
<1>1. CASE ServerThread
  BY <1>1, LoopInvariant, SetOptFailsInv, SpawnInv, ReleaseInv, AcceptInv DEF ServerThread
<1>2. ASSUME NEW c \in Conns, ClientThread(c) PROVE Inv'
  BY <1>2, QuietThreadInv, CloseSocketInv, ReturnInv DEF ClientThread, SendFails
<1>3. CASE UNCHANGED vars
  BY <1>3 DEF vars, mainVars, socketVars, peerVars, Inv, TypeOK, LoopInv, WrapperInv, ReceiveInv,
              NoSocketLeak, OwnInv, Active, Ended
<1> QED
  BY <1>1, <1>2, <1>3, MainInv, PeersInv, QuietThreadInv DEF Next, Peers, TakeReply

\* Every reachable state of the server satisfies the inductive invariant.
THEOREM Invariance == Spec => []Inv
<1> HIDE DEF Inv
<1> QED
  BY InitInv, NextInv, PTL DEF Spec

\* Threads, wrappers, descriptor numbers and connections have their types.
THEOREM TypeCorrect == Spec => []TypeOK
<1>1. Inv => TypeOK
  BY DEF Inv
<1> HIDE DEF Inv
<1> QED
  BY <1>1, Invariance, PTL

\* No path of the accept loop or of handleClientConnection loses a socket.
THEOREM SocketsKept == Spec => []NoSocketLeak
<1>1. Inv => NoSocketLeak
  BY DEF Inv
<1> HIDE DEF Inv
<1> QED
  BY <1>1, Invariance, PTL

\* Until a destructor closes a number that was given to another connection,
\* every thread receives from its own connection.
THEOREM ThreadsKeepTheirConnection == Spec => []OwnConnection
<1>1. Inv => OwnConnection
  BY DEF Inv, OwnInv, OwnConnection, Active
<1> HIDE DEF Inv
<1> QED
  BY <1>1, Invariance, PTL

\* When main returns no connection thread is left and every socket is closed.
THEOREM CleanExit == Spec => []ExitClean
<1>1. ASSUME Inv, main = "exited"
      PROVE  /\ spc \in {"none", "done"} /\ cur = None
             /\ \A c \in Conns : Ended(c)
             /\ \A f \in Fds : table[f] = None
  <2>1. spc \in {"none", "done"} /\ cur = None /\ \A c \in Conns : Ended(c)
    BY <1>1 DEF Inv, LoopInv, Ended
  <2>2. \A c \in Conns : num[c] = None
    BY <1>1, <2>1, NoneAssumption DEF Inv, WrapperInv
  <2>3. \A f \in Fds : table[f] = None
    BY <1>1, <2>2, NoneAssumption DEF Inv, NoSocketLeak, TypeOK
  <2> QED
    BY <2>1, <2>3
<1>2. Inv => ExitClean
  BY <1>1 DEF ExitClean
<1> HIDE DEF Inv
<1> QED
  BY <1>2, Invariance, PTL

\* Commands are serial as long as no destructor has closed the socket of another
\* connection: two threads come to receive from one connection only through the
\* second close of a number that was given out again.
THEOREM SerialUnlessStruck == Spec => [](~struck => CommandsSerial)
<1>1. OwnConnection => (~struck => CommandsSerial)
  BY DEF OwnConnection, CommandsSerial
<1> HIDE DEF OwnConnection, CommandsSerial
<1> QED
  BY <1>1, ThreadsKeepTheirConnection, PTL
==============================================================================
