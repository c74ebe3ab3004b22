------------------------------- MODULE Server -------------------------------
(***************************************************************************)
(* The server (Server.cpp, main.cpp, the socket wrappers' accept, close    *)
(* and destructors): main starts the server thread and joins it; the       *)
(* server thread accepts connections and starts a thread for each; a       *)
(* connection thread receives and dispatches commands.  Peers connect,     *)
(* send, close their side or reset the connection at any time.             *)
(*                                                                         *)
(* A wrapper holds the descriptor number of its connection.  The table     *)
(* says which connection a number stands for in the process: close frees   *)
(* the number, accept takes any free one.  What a command does is left to  *)
(* Client and Session; here its handler waits for its fields and for room  *)
(* for its reply, may never come back from the memory service, and decides *)
(* whether the connection stays.                                           *)
(***************************************************************************)
EXTENDS Integers

CONSTANTS
    Conns,    \* connections peers may make
    Fds,      \* descriptor numbers of accepted sockets
    MaxSent,  \* bound: pieces a peer sends, a command's byte or its fields
    None

ASSUME NoneAssumption == None \notin Conns /\ None \notin Fds
ASSUME MaxSentAssumption == MaxSent \in Nat

VARIABLES
    main,     \* main's position
    bound,    \* whether the listening socket is bound to the port
    bStop,    \* bStop
    spc,      \* the server thread's position
    cur,      \* the wrapper the accept loop holds (clientSocket)
    thr,      \* thr[c]: position of the thread in clientThreads that serves c
    num,      \* num[c]: socket_ of the wrapper of c, None when there is no wrapper
    at,       \* at[c]: the connection whose peer the receive or send of thread c waits for
    table,    \* table[f]: the connection that number f stands for
    peer,     \* peer[c]: what the peer has done with its side
    pending,  \* connections waiting to be accepted
    inbox,    \* inbox[c]: pieces that arrived and are unread
    sent,     \* sent[c]: pieces the peer has sent
    struck    \* history: a destructor has closed the socket of another connection

mainVars == <<main, bound, bStop>>
socketVars == <<num, table, struck>>
peerVars == <<peer, pending, inbox, sent>>
vars == <<mainVars, spc, cur, thr, at, socketVars, peerVars>>

\* Positions of a thread that is inside a receive, or inside a receive or send,
\* and those of a thread that has not closed its socket.
Receiving == {"recv", "fields"}
Waiting == Receiving \cup {"send"}
Serving == Waiting \cup {"check", "enter", "dispatch", "act", "hung", "closing"}

TypeOK ==
    /\ main \in {"init", "start", "join", "exited"}
    /\ bound \in BOOLEAN /\ bStop \in BOOLEAN /\ struck \in BOOLEAN
    /\ spc \in {"none", "check", "accept", "setopt", "release", "join", "done"}
    /\ cur \in Conns \cup {None}
    /\ thr \in [Conns -> {"none", "dropping", "done"} \cup Serving]
    /\ num \in [Conns -> Fds \cup {None}]
    /\ at \in [Conns -> Conns \cup {None}]
    /\ table \in [Fds -> Conns \cup {None}]
    /\ peer \in [Conns -> {"away", "open", "eof", "reset"}]
    /\ pending \subseteq Conns
    /\ inbox \in [Conns -> 0 .. MaxSent]
    /\ sent \in [Conns -> 0 .. MaxSent]

Init ==
    /\ main = "init" /\ bound = FALSE /\ bStop = FALSE
    /\ spc = "none" /\ cur = None
    /\ thr = [c \in Conns |-> "none"]
    /\ num = [c \in Conns |-> None]
    /\ at = [c \in Conns |-> None]
    /\ table = [f \in Fds |-> None]
    /\ peer = [c \in Conns |-> "away"]
    /\ pending = {}
    /\ inbox = [c \in Conns |-> 0]
    /\ sent = [c \in Conns |-> 0]
    /\ struck = FALSE

-----------------------------------------------------------------------------
(* main *)

\* server.init(): setting the option or binding may fail; main ignores it.
ServerInit ==
    /\ main = "init"
    /\ main' = "start"
    /\ bound' \in BOOLEAN
    /\ UNCHANGED <<bStop, spc, cur, thr, at, socketVars, peerVars>>

\* server.start(): the server thread is started, unless listen fails and main
\* returns.  A second start finds the thread and changes nothing.
Start ==
    /\ main = "start"
    /\ \/ main' = "join" /\ spc' = "check"
       \/ main' = "exited" /\ UNCHANGED spc
    /\ UNCHANGED <<bound, bStop, cur, thr, at, socketVars, peerVars>>

\* server.stop(), which the tests call and main does not.
Stop ==
    /\ main = "join" /\ ~bStop
    /\ bStop' = TRUE
    /\ UNCHANGED <<main, bound, spc, cur, thr, at, socketVars, peerVars>>

\* server.join() returns; main returns and destroys the server and the memory.
Join ==
    /\ main = "join" /\ spc = "done"
    /\ main' = "exited"
    /\ UNCHANGED <<bound, bStop, spc, cur, thr, at, socketVars, peerVars>>

-----------------------------------------------------------------------------
(* Descriptors *)

Free == {f \in Fds : table[f] = None}

\* ::close(socket_) of the wrapper of c: whatever the number stands for by now.
Close(c) == table' = [table EXCEPT ![num[c]] = None]

\* Mutant of Destroy: the destructor does not close.
DestroyOnly(c) ==
    /\ UNCHANGED <<table, struck>>
    /\ num' = [num EXCEPT ![c] = None]

\* The last reference to the wrapper is dropped: the destructor closes the
\* number, also when it was closed before.
Destroy(c) ==
    /\ Close(c)
    /\ num' = [num EXCEPT ![c] = None]
    /\ struck' = (struck \/ table[num[c]] \notin {c, None})

-----------------------------------------------------------------------------
(* The server thread *)

CheckStop ==
    /\ spc = "check"
    /\ spc' = IF bStop THEN "join" ELSE "accept"
    /\ UNCHANGED <<mainVars, cur, thr, at, socketVars, peerVars>>

\* accept returns a connection under any number that is free.
Accept(c, f) ==
    /\ spc = "accept" /\ c \in pending /\ f \in Free
    /\ spc' = "setopt"
    /\ cur' = c
    /\ pending' = pending \ {c}
    /\ num' = [num EXCEPT ![c] = f]
    /\ table' = [table EXCEPT ![f] = c]
    /\ UNCHANGED <<mainVars, thr, at, struck, peer, inbox, sent>>

\* accept fails, for want of numbers or because the connection was reset: the
\* wrapper holds -1, setting the option fails, and the loop continues.
AcceptFails ==
    /\ spc = "accept"
    /\ spc' = "check"
    /\ \/ Free = {} /\ UNCHANGED pending
       \/ \E c \in pending : peer[c] = "reset" /\ pending' = pending \ {c}
    /\ UNCHANGED <<mainVars, cur, thr, at, socketVars, peer, inbox, sent>>

\* TCP_NODELAY cannot be set: close, and the wrapper is destroyed.  Only this
\* thread takes numbers, so nothing comes between the two.
SetOptFails ==
    /\ spc = "setopt"
    /\ spc' = "check"
    /\ cur' = None
    /\ Close(cur)
    /\ num' = [num EXCEPT ![cur] = None]
    /\ UNCHANGED <<mainVars, thr, at, struck, peerVars>>

\* The connection's thread is started with a reference to the wrapper ...
Spawn ==
    /\ spc = "setopt" /\ table[num[cur]] # None
    /\ spc' = "release"
    /\ thr' = [thr EXCEPT ![cur] = "check"]
    /\ UNCHANGED <<mainVars, cur, at, socketVars, peerVars>>

\* Mutant of Release: the new thread is joined before the next accept.
ReleaseAndJoin ==
    /\ spc = "release" /\ thr[cur] = "done"
    /\ spc' = "check"
    /\ cur' = None
    /\ Destroy(cur)
    /\ UNCHANGED <<mainVars, thr, at, peerVars>>

\* ... and the loop drops its own, the last one if the thread has ended.
Release ==
    /\ spc = "release"
    /\ spc' = "check"
    /\ cur' = None
    /\ IF thr[cur] = "done" THEN Destroy(cur) ELSE UNCHANGED socketVars
    /\ UNCHANGED <<mainVars, thr, at, peerVars>>

Ended(c) == thr[c] \in {"none", "done"}

\* Mutant of JoinThreads: a thread that waits for its peer is not joined.
JoinBusyThreads ==
    /\ spc = "join" /\ \A c \in Conns : Ended(c) \/ thr[c] = "recv"
    /\ spc' = "done"
    /\ UNCHANGED <<mainVars, cur, thr, at, socketVars, peerVars>>

JoinThreads ==
    /\ spc = "join" /\ \A c \in Conns : Ended(c)
    /\ spc' = "done"
    /\ UNCHANGED <<mainVars, cur, thr, at, socketVars, peerVars>>

ServerThread ==
    \/ CheckStop \/ AcceptFails \/ SetOptFails \/ Spawn \/ Release \/ JoinThreads
    \/ \E c \in Conns, f \in Fds : Accept(c, f)

-----------------------------------------------------------------------------
(* Connection threads: handleClientConnection *)

Goto(c, from, to) == thr[c] = from /\ thr' = [thr EXCEPT ![c] = to]

\* while (!bStop): when stopped the thread returns without closing.
LoopCheck(c) ==
    /\ Goto(c, "check", IF bStop THEN "dropping" ELSE "enter")
    /\ UNCHANGED <<mainVars, spc, cur, at, socketVars, peerVars>>

\* recv looks the number up and waits; a number that stands for nothing fails.
Enter(c) ==
    /\ Goto(c, "enter", IF table[num[c]] = None THEN "closing" ELSE "recv")
    /\ at' = [at EXCEPT ![c] = table[num[c]]]
    /\ UNCHANGED <<mainVars, spc, cur, socketVars, peerVars>>

\* Mutant of RecvCommand: the receive does not wait for a command.
RecvWithoutWaiting(c) ==
    /\ Goto(c, "recv", "dispatch")
    /\ inbox' = [inbox EXCEPT ![at[c]] = @ - 1]
    /\ at' = [at EXCEPT ![c] = None]
    /\ UNCHANGED <<mainVars, spc, cur, socketVars, peer, pending, sent>>

\* recv returns the byte of a command.
RecvCommand(c) ==
    /\ Goto(c, "recv", "dispatch")
    /\ inbox[at[c]] > 0
    /\ inbox' = [inbox EXCEPT ![at[c]] = @ - 1]
    /\ at' = [at EXCEPT ![c] = None]
    /\ UNCHANGED <<mainVars, spc, cur, socketVars, peer, pending, sent>>

\* Mutant of RecvEnd: the socket is closed, but the loop goes on.
CloseAndContinue(c) ==
    /\ Goto(c, "recv", "check")
    /\ peer[at[c]] = "eof" /\ inbox[at[c]] = 0
    /\ Close(c)
    /\ at' = [at EXCEPT ![c] = None]
    /\ UNCHANGED <<mainVars, spc, cur, num, struck, peerVars>>

\* Mutant of RecvEnd: the receive is repeated without looking at bStop.
ReceiveAgain(c) ==
    /\ Goto(c, "recv", "enter")
    /\ peer[at[c]] = "eof" /\ inbox[at[c]] = 0
    /\ at' = [at EXCEPT ![c] = None]
    /\ UNCHANGED <<mainVars, spc, cur, socketVars, peerVars>>

\* recv returns 0 when the peer has closed its side: the loop goes on.
RecvEnd(c) ==
    /\ Goto(c, "recv", "check")
    /\ peer[at[c]] = "eof" /\ inbox[at[c]] = 0
    /\ at' = [at EXCEPT ![c] = None]
    /\ UNCHANGED <<mainVars, spc, cur, socketVars, peerVars>>

RecvFails(c) ==
    /\ Goto(c, "recv", "closing")
    /\ peer[at[c]] = "reset"
    /\ at' = [at EXCEPT ![c] = None]
    /\ UNCHANGED <<mainVars, spc, cur, socketVars, peerVars>>

\* dispatchCommand: the handler has nothing to receive, or its receive fails at
\* once, which it ignores, or it waits for its fields ...
Dispatch(c) ==
    /\ \/ Goto(c, "dispatch", "act") /\ UNCHANGED at
       \/ /\ Goto(c, "dispatch", "fields")
          /\ table[num[c]] # None
          /\ at' = [at EXCEPT ![c] = table[num[c]]]
    /\ UNCHANGED <<mainVars, spc, cur, socketVars, peerVars>>

\* ... until they are there or the peer is gone, which it does not notice.
RecvFields(c) ==
    /\ Goto(c, "fields", "act")
    /\ \/ inbox[at[c]] > 0 /\ inbox' = [inbox EXCEPT ![at[c]] = @ - 1]
       \/ inbox[at[c]] = 0 /\ peer[at[c]] # "open" /\ UNCHANGED inbox
    /\ at' = [at EXCEPT ![c] = None]
    /\ UNCHANGED <<mainVars, spc, cur, socketVars, peer, pending, sent>>

\* The handler does its work and sends its reply, if it has one, and
\* dispatchCommand returns whether the connection stays ...
Reply(c) ==
    /\ Goto(c, "act", "check") \/ Goto(c, "act", "closing")
    /\ UNCHANGED <<mainVars, spc, cur, at, socketVars, peerVars>>

\* ... or the reply does not fit into the socket's buffers and the send waits ...
ReplyWaits(c) ==
    /\ Goto(c, "act", "send")
    /\ table[num[c]] # None
    /\ at' = [at EXCEPT ![c] = table[num[c]]]
    /\ UNCHANGED <<mainVars, spc, cur, socketVars, peerVars>>

\* ... or memory->read never returns: its size is no less than
\* MAX_BYTES_PER_DISPATCH, and no dispatch takes it.
ReadHangs(c) ==
    /\ Goto(c, "act", "hung")
    /\ UNCHANGED <<mainVars, spc, cur, at, socketVars, peerVars>>

SendOver(c) ==
    /\ Goto(c, "send", "check") \/ Goto(c, "send", "closing")
    /\ at' = [at EXCEPT ![c] = None]
    /\ UNCHANGED <<mainVars, spc, cur, socketVars, peerVars>>

\* The send fails because the connection is broken, which the handler ignores.
SendFails(c) == SendOver(c) /\ peer[at[c]] = "reset"

\* clientSocket->close() ...
CloseSocket(c) ==
    /\ Goto(c, "closing", "dropping")
    /\ Close(c)
    /\ UNCHANGED <<mainVars, spc, cur, at, num, struck, peerVars>>

\* ... and the thread's reference is dropped on return.
Return(c) ==
    /\ Goto(c, "dropping", "done")
    /\ IF cur # c THEN Destroy(c) ELSE UNCHANGED socketVars
    /\ UNCHANGED <<mainVars, spc, cur, at, peerVars>>

ClientThread(c) ==
    \/ LoopCheck(c) \/ Enter(c) \/ RecvCommand(c) \/ RecvEnd(c) \/ RecvFails(c)
    \/ Dispatch(c) \/ RecvFields(c) \/ Reply(c) \/ ReplyWaits(c) \/ ReadHangs(c) \/ SendFails(c)
    \/ CloseSocket(c) \/ Return(c)

-----------------------------------------------------------------------------
(* Peers, outside the program *)

Listening == bound /\ spc # "none" /\ main # "exited"

Connect(c) ==
    /\ Listening /\ peer[c] = "away"
    /\ peer' = [peer EXCEPT ![c] = "open"]
    /\ pending' = pending \cup {c}
    /\ UNCHANGED <<mainVars, spc, cur, thr, at, socketVars, inbox, sent>>

Send(c) ==
    /\ peer[c] = "open" /\ sent[c] < MaxSent
    /\ sent' = [sent EXCEPT ![c] = @ + 1]
    /\ inbox' = [inbox EXCEPT ![c] = @ + 1]
    /\ UNCHANGED <<mainVars, spc, cur, thr, at, socketVars, peer, pending>>

\* The peer closes its side, or the connection breaks and what was not read is lost.
Hangup(c) ==
    /\ peer[c] = "open"
    /\ \/ peer' = [peer EXCEPT ![c] = "eof"] /\ UNCHANGED inbox
       \/ peer' = [peer EXCEPT ![c] = "reset"] /\ inbox' = [inbox EXCEPT ![c] = 0]
    /\ UNCHANGED <<mainVars, spc, cur, thr, at, socketVars, pending, sent>>

\* The peer makes room for the reply that the send of thread c waits with.
TakeReply(c) == SendOver(c) /\ peer[at[c]] # "reset"

Peers == \E c \in Conns : Connect(c) \/ Send(c) \/ Hangup(c) \/ TakeReply(c)

-----------------------------------------------------------------------------
Main == ServerInit \/ Start \/ Join

Next == Main \/ Stop \/ ServerThread \/ Peers \/ \E c \in Conns : ClientThread(c)

Spec == Init /\ [][Next]_vars

\* Threads that can move do; peers and whoever calls stop owe nothing.
FairSpec ==
    /\ Spec
    /\ WF_vars(Main) /\ WF_vars(ServerThread)
    /\ \A c \in Conns : WF_vars(ClientThread(c))

-----------------------------------------------------------------------------
(* Properties *)

\* Every number that stands for a connection is the number of that
\* connection's wrapper, so that a destructor is still to come: no path of the
\* accept loop or of handleClientConnection (error, refusal, stop without a
\* close) loses a socket.
NoSocketLeak == \A f \in Fds : table[f] # None => num[table[f]] = f

\* As long as no destructor has closed a number that had been closed before and
\* given to another connection, a thread receives from the connection it was
\* started for and from no other.
OwnConnection ==
    ~struck => \A c \in Conns : /\ thr[c] \in Waiting => at[c] = c
                                /\ thr[c] \in Serving => table[num[c]] = c

\* When main returns, and with it the memory service and the tables of
\* ClientState go, no connection thread runs, none will be started, and every
\* socket is closed.
ExitClean ==
    main = "exited" => /\ spc \in {"none", "done"} /\ cur = None
                       /\ \A c \in Conns : Ended(c)
                       /\ \A f \in Fds : table[f] = None

\* The server waits for something only a peer can do: a connection to accept;
\* or, in a thread that is being joined, a command, the fields of one, or room
\* for a reply.
WaitsForPeer ==
    \/ spc = "accept" /\ pending = {}
    \/ /\ spc = "join"
       /\ \E c \in Conns : \/ /\ thr[c] \in Receiving
                              /\ peer[at[c]] = "open" /\ inbox[at[c]] = 0
                           \/ thr[c] = "send" /\ peer[at[c]] # "reset"

\* A thread that is being joined is in a read the memory service never ends.
WaitsForRead == spc = "join" /\ \E c \in Conns : thr[c] = "hung"

\* After stop, join returns unless the server comes to wait for ever for a peer
\* or for a read of MAX_BYTES_PER_DISPATCH bytes or more: threads that spin on a
\* closed peer, commands cut off by it, handlers whose peer is broken and
\* connections in the queue do not keep it.
StopReturns == [](bStop => <>(main = "exited" \/ [](WaitsForPeer \/ WaitsForRead)))

\* A connection in the queue is accepted (or found broken) unless the server
\* is stopped or all numbers are taken.
PendingAccepted ==
    \A c \in Conns : c \in pending ~> (c \notin pending \/ bStop \/ Free = {})

\* Commands are received by one thread per connection, as dispatchCommand's
\* comment on its lock has it ("all commands are serial anyway").
CommandsSerial ==
    \A c, d \in Conns : thr[c] \in Receiving /\ thr[d] \in Receiving /\ at[c] = at[d] => c = d
=============================================================================
