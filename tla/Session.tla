------------------------------ MODULE Session ------------------------------
(***************************************************************************)
(* One connection as a conversation: what the peer sends, what             *)
(* handleClientConnection (Server.cpp) and the handlers (Client.cpp) take  *)
(* from the stream through the socket wrapper, and what they answer.       *)
(*                                                                         *)
(* The stream is a sequence of fields, which arrive one by one; the peer   *)
(* may leave in the middle of one.  A handler receives its fields without  *)
(* looking at the result: a receive that comes back short leaves the zeros *)
(* the field was initialised with behind the bytes that came, and so a     *)
(* smaller number than was sent.  The tables of ClientState are reduced    *)
(* to whether handle 1 stands for an open process (Client has the rest),   *)
(* and the sends of a handler to one reply: the number of items announced  *)
(* and the number sent.                                                    *)
(***************************************************************************)
EXTENDS Regions, Sequences

CONSTANTS
    MaxRequests,  \* bound: requests a peer makes
    MaxSize,      \* bound: bytes read, written or in a string
    MaxPolls,     \* attempts to receive the handle of CMD_GETARCHITECTURE (10)
    MaxBytesPerDispatch,  \* MAX_BYTES_PER_DISPATCH
    Prefixes,     \* what the first bytes of a number hold it modulo (256, 256^2 and so on)
    Addresses,    \* addresses peers ask for, 0 included
    VadLists      \* the VAD entries a process may have

ASSUME BoundAssumption == MaxRequests \in Nat /\ MaxSize \in Nat /\ MaxPolls \in Nat \ {0}
ASSUME LimitAssumption == MaxBytesPerDispatch \in Nat /\ Prefixes \subseteq Nat \ {0}
ASSUME AddressAssumption == Addresses \subseteq Nat /\ 0 \in Addresses
ASSUME VadAssumption == VadLists \subseteq Seq(VadEntry)

VARIABLES
    platform,     \* which socket wrapper is compiled in
    old,          \* the peer is a Cheat Engine that sends no handle for CMD_GETARCHITECTURE
    made,         \* requests the peer has made
    req,          \* the peer's last request
    rest,         \* fields of it that are not sent yet
    awaiting,     \* the peer waits for the answer
    peer,         \* "open", or how the peer has left
    stream,       \* fields that arrived and are not received
    cut,          \* what arrived, behind these, of the field the peer left in the middle of
    pc,           \* the server's position
    cmd,          \* the command being handled
    args,         \* its fields as received
    received,     \* how many bytes of its payload were received
    opened,       \* handle 1 stands for an open process
    wouldBlock,   \* errno is EWOULDBLOCK
    nonblocking,  \* the socket was made non-blocking (Winsock)
    polls,        \* attempts made to receive a handle
    straggler,    \* history: a handler went on without all of the handle it polled for
    reply,        \* the reply under way to the peer
    device        \* the last write passed to the memory service, and (history) the peer's request

vars == <<platform, old, made, req, rest, awaiting, peer, stream, cut, pc, cmd, args, received,
          opened, wouldBlock, nonblocking, polls, straggler, reply, device>>

fixedVars == <<platform, old>>
peerVars == <<made, req, rest, awaiting, peer>>
errorVars == <<wouldBlock, nonblocking, polls, straggler>>

-----------------------------------------------------------------------------
(* Requests *)

\* Unimplemented and unknown commands are all "unknown"; "iterate" stands for
\* the FIRST and NEXT commands, "query" for CMD_VIRTUALQUERYEX.
Commands == {"version", "abi", "options", "name", "symbols", "startdebug", "open", "closehandle",
             "snapshot", "snapshotex", "iterate", "read", "write", "query", "region", "queryfull",
             "architecture", "close", "terminate", "unknown"}

\* The protocol, as Cheat Engine speaks it: the fields of a request, ...
Protocol == [c \in Commands |->
    CASE c \in {"snapshot", "snapshotex"} -> <<"flags", "pid">>
      [] c \in {"closehandle", "iterate", "startdebug"} -> <<"handle">>
      [] c = "architecture" -> <<"handle">>
      [] c = "open" -> <<"pid">>
      [] c \in {"name", "symbols"} -> <<"size">>
      [] c = "queryfull" -> <<"handle", "flags">>
      [] c \in {"query", "region"} -> <<"handle", "address">>
      [] c = "write" -> <<"handle", "address", "size">>
      [] c = "read" -> <<"handle", "address", "size", "compress">>
      [] OTHER -> <<>>]

\* ... after which these carry as many bytes as the size says, ...
Carries == {"name", "symbols", "write"}

\* ... and what is answered: nothing, a fixed part, or a counted part as well.
Unanswered == {"name", "close", "terminate", "unknown"}
Counted == {"version", "iterate", "snapshotex", "read", "region", "queryfull"}

Values(field) ==
    CASE field = "address" -> Addresses
      [] field = "size" -> 0 .. MaxSize
      [] OTHER -> {0, 1}

Field(name, v) == [name |-> name, v |-> v]
FieldNames == {"flags", "pid", "handle", "size", "address", "compress", "byte", "fragment"}

Fields == {f \in [name : Commands \cup FieldNames, v : Nat] : f.v \in Values(f.name)}

SizeOf(names, vals) ==
    IF \E i \in DOMAIN names : names[i] = "size"
    THEN vals[CHOOSE i \in DOMAIN names : names[i] = "size"] ELSE 0

\* The fields of a request, the command first.
Wire(c, vals) ==
    LET names == IF c = "architecture" /\ old THEN <<>> ELSE Protocol[c]
        n == IF c \in Carries THEN SizeOf(names, vals) ELSE 0
    IN  <<Field(c, 0)>> \o [i \in DOMAIN names |-> Field(names[i], vals[i])]
                        \o [i \in 1 .. n |-> Field("byte", 0)]

NoRequest == [cmd |-> "close", vals |-> <<>>]

-----------------------------------------------------------------------------
(* Replies *)

\* n items announced (Absent: no number was sent), k items sent; about is what
\* a reply on a region is about.
Reply(n, k, about) == [count |-> n, items |-> k, about |-> about]
NoReply == Reply(-1, 0, Absent)
Fixed == Reply(Absent, 0, Absent)
Items(n) == Reply(n, n, Absent)

Complete(c) == reply # NoReply /\ (c \in Counted => reply.count = reply.items)

-----------------------------------------------------------------------------
(* The peer, outside the program *)

Begin(c) ==
    /\ peer = "open" /\ rest = <<>> /\ ~awaiting /\ made < MaxRequests
    /\ \E vals \in [DOMAIN Protocol[c] -> Addresses \cup (0 .. MaxSize) \cup {0, 1}] :
          /\ \A i \in DOMAIN vals : vals[i] \in Values(Protocol[c][i])
          /\ req' = [cmd |-> c, vals |-> vals]
          /\ rest' = Wire(c, vals)
    /\ made' = made + 1
    /\ awaiting' = (c \notin Unanswered)
    /\ UNCHANGED <<fixedVars, peer, stream, cut, pc, cmd, args, received, opened, errorVars, reply, device>>

SendField ==
    /\ peer = "open" /\ rest # <<>>
    /\ stream' = Append(stream, Head(rest))
    /\ rest' = Tail(rest)
    /\ UNCHANGED <<fixedVars, made, req, awaiting, peer, cut, pc, cmd, args, received, opened, errorVars, reply, device>>

\* The peer reads its answer once that is complete.
TakeReply ==
    /\ peer = "open" /\ rest = <<>> /\ awaiting /\ Complete(req.cmd)
    /\ awaiting' = FALSE
    /\ reply' = NoReply
    /\ UNCHANGED <<fixedVars, made, req, rest, peer, stream, cut, pc, cmd, args, received, opened, errorVars, device>>

\* The first bytes of the field that would come next, if it has several.
FirstBytes == IF rest = <<>> \/ Head(rest).name \notin {"flags", "pid", "handle", "size", "address"}
              THEN {} ELSE {Head(rest).v % m : m \in Prefixes}

\* The peer closes, or the connection breaks and what was not received is lost,
\* but for what a receive that waits for the next field has got of it.
Leave ==
    /\ peer = "open"
    /\ \/ /\ peer' = "eof" /\ UNCHANGED stream
          /\ cut' \in {Absent} \cup FirstBytes
       \/ /\ peer' = "reset" /\ stream' = <<>>
          /\ cut' \in {Absent} \cup (IF stream = <<>> THEN FirstBytes ELSE {})
    /\ UNCHANGED <<fixedVars, made, req, rest, awaiting, pc, cmd, args, received, opened, errorVars, reply, device>>

-----------------------------------------------------------------------------
(* Receiving *)

Init ==
    /\ platform \in {"linux", "windows"} /\ old \in BOOLEAN
    /\ made = 0 /\ req = NoRequest /\ rest = <<>> /\ awaiting = FALSE
    /\ peer = "open" /\ stream = <<>> /\ cut = Absent
    /\ pc = "recv" /\ cmd = "close" /\ args = <<>> /\ received = 0
    /\ opened \in BOOLEAN  \* handles are shared: another connection may have opened it
    /\ wouldBlock = FALSE /\ nonblocking = FALSE /\ polls = 0 /\ straggler = FALSE
    /\ reply = NoReply /\ device = Absent

\* Mutant of Header: CMD_GETSYMBOLLISTFROMFILE reads a file offset first.
HeaderWithOffset(c) == IF c = "symbols" THEN <<"flags", "size">> ELSE Protocol[c]

\* The fields a handler receives before it does anything.
Header(c) ==
    CASE c \in {"snapshot", "snapshotex"} -> <<"flags", "pid">>
      [] c \in {"closehandle", "iterate", "startdebug"} -> <<"handle">>
      [] c = "open" -> <<"pid">>
      [] c \in {"name", "symbols"} -> <<"size">>
      [] c = "queryfull" -> <<"handle", "flags">>
      [] c \in {"query", "region"} -> <<"handle", "address">>
      [] c = "write" -> <<"handle", "address", "size">>
      [] c = "read" -> <<"handle", "address", "size", "compress">>
      [] OTHER -> <<>>

\* Nothing is left to receive but, perhaps, the first bytes of a field.
AtCut == stream = <<>> /\ cut # Absent
Ended == stream = <<>> /\ cut = Absent /\ peer # "open"

\* A receive can come back without anything: at the end of the stream, and at
\* any time on a socket that is non-blocking.
MayFail == Ended \/ nonblocking

NextIs(names) == stream # <<>> /\ Head(stream).name \in names
CutIs(names) == AtCut /\ Head(rest).name \in names

Settled == <<fixedVars, peerVars, opened, reply>>

\* handleClientConnection receives a command ...
RecvCommand ==
    /\ pc = "recv" /\ NextIs(Commands)
    /\ cmd' = Head(stream).name
    /\ stream' = Tail(stream)
    /\ pc' = IF cmd' = "architecture" THEN "poll" ELSE "fields"
    /\ args' = <<>> /\ received' = 0 /\ device' = Absent /\ polls' = 0
    /\ UNCHANGED <<Settled, cut, wouldBlock, nonblocking, straggler>>

\* ... or fails and closes.  At the end of the stream it gets 0 and loops.
RecvCommandFails ==
    /\ pc = "recv"
    /\ peer = "reset" \/ nonblocking
    /\ pc' = "closed"
    /\ UNCHANGED <<Settled, stream, cut, cmd, args, received, errorVars, device>>

\* Bytes that do not start at the field the server expects: what it makes of
\* them is not followed any further.
Skew(expected) ==
    /\ (stream # <<>> /\ ~NextIs(expected)) \/ (AtCut /\ ~CutIs(expected))
    /\ pc' = "skewed"
    /\ UNCHANGED <<Settled, stream, cut, cmd, args, received, errorVars, device>>

RecvSkewed == pc = "recv" /\ Skew(Commands)

Missing == Header(cmd)[Len(args) + 1]

\* read<T>(): the next field, or what came of it in front of zeros, or zero.
RecvField ==
    /\ pc = "fields" /\ Len(args) < Len(Header(cmd))
    /\ \/ /\ NextIs({Missing}) /\ args' = Append(args, Head(stream).v) /\ stream' = Tail(stream)
          /\ UNCHANGED cut
       \/ CutIs({Missing}) /\ args' = Append(args, cut) /\ cut' = Absent /\ UNCHANGED stream
       \/ MayFail /\ args' = Append(args, 0) /\ UNCHANGED <<stream, cut>>
    /\ UNCHANGED <<Settled, pc, cmd, received, errorVars, device>>

FieldSkewed == pc = "fields" /\ Len(args) < Len(Header(cmd)) /\ Skew({Missing})

HeaderRead == pc = "fields" /\ Len(args) = Len(Header(cmd))

NoPayload ==
    /\ HeaderRead /\ cmd \notin Carries
    /\ pc' = "act"
    /\ UNCHANGED <<Settled, stream, cut, cmd, args, received, errorVars, device>>

Payload == SizeOf(Header(cmd), args)

BytesThere == IF \A i \in DOMAIN stream : stream[i].name = "byte" THEN Len(stream)
              ELSE (CHOOSE i \in DOMAIN stream :
                      /\ stream[i].name # "byte"
                      /\ \A j \in 1 .. (i - 1) : stream[j].name = "byte") - 1

\* Mutant of ShortRead: without MSG_WAITALL the bytes that are there will do.
ShortReadAnyTime(n) == TRUE

\* A receive with MSG_WAITALL may return with n bytes, fewer than it was asked for.
ShortRead(n) == nonblocking \/ (peer # "open" /\ n = Len(stream))

\* read(buffer, size): all bytes, or those that came before the end, the
\* others keep what the allocation left in them.
RecvPayload ==
    /\ HeaderRead /\ cmd \in Carries
    /\ \E n \in 0 .. Payload :
          /\ n <= BytesThere
          /\ n < Payload => ShortRead(n)
          /\ received' = n
          /\ stream' = SubSeq(stream, n + 1, Len(stream))
    /\ pc' = "act"
    /\ UNCHANGED <<Settled, cut, cmd, args, errorVars, device>>

-----------------------------------------------------------------------------
(* Handlers.  Each ends in a reply or none, and keeps or closes the        *)
(* connection.                                                             *)

Answer(r) == pc' = "recv" /\ reply' = r
Refuse == pc' = "closed" /\ UNCHANGED reply
Handler(names) ==
    /\ pc = "act" /\ cmd \in names
    /\ UNCHANGED <<fixedVars, peerVars, stream, cut, cmd, args, received, errorVars>>

IsOpen(h) == h = 1 /\ opened

HandleStateless ==
    /\ Handler({"abi", "options", "symbols", "startdebug", "version"})
    /\ IF cmd = "version" THEN \E n \in 1 .. MaxSize : Answer(Items(n)) ELSE Answer(Fixed)
    /\ UNCHANGED <<opened, device>>

\* Mutant of HandleName: the name of the connection is acknowledged.
HandleNameAcknowledged ==
    /\ Handler({"name"})
    /\ Answer(Fixed)
    /\ UNCHANGED <<opened, device>>

HandleName ==
    /\ Handler({"name"})
    /\ pc' = "recv"
    /\ UNCHANGED <<opened, reply, device>>

\* CMD_CLOSECONNECTION, CMD_TERMINATESERVER (which is not obeyed) and commands
\* that are unimplemented or unknown.
HandleClose ==
    /\ Handler({"close", "terminate", "unknown"})
    /\ Refuse
    /\ UNCHANGED <<opened, device>>

\* Handle 1 is opened, closed, or another handle is.
HandleTables ==
    /\ Handler({"open", "closehandle", "snapshot"})
    /\ \/ cmd = "open" /\ opened' = TRUE
       \/ cmd = "closehandle" /\ opened' = (opened /\ args[1] # 1)
       \/ cmd = "snapshot" /\ UNCHANGED opened
    /\ Answer(Fixed)
    /\ UNCHANGED device

\* An entry with its name, or the end of the list; a list of threads, or of
\* modules up to the end mark, or a handle.
HandleEntries ==
    /\ Handler({"iterate", "snapshotex"})
    /\ \E n \in 0 .. MaxSize : Answer(Items(n))
    /\ UNCHANGED <<opened, device>>

\* The memory service gives n bytes, 0 when it fails, and never returns from a
\* read that no dispatch takes because of its size.
HandleRead ==
    /\ Handler({"read"})
    /\ LET h == args[1]  address == args[2]  size == args[3]  compress == args[4]
       IN  \/ (compress # 0 \/ ~IsOpen(h)) /\ Refuse
           \/ /\ compress = 0 /\ IsOpen(h) /\ (address = 0 \/ size = 0)
              /\ Answer(Items(0))
           \/ /\ compress = 0 /\ IsOpen(h) /\ address # 0 /\ size # 0
              /\ \/ size < MaxBytesPerDispatch /\ \E n \in 0 .. size : Answer(Items(n))
                 \/ size >= MaxBytesPerDispatch /\ pc' = "hung" /\ UNCHANGED reply
    /\ UNCHANGED <<opened, device>>

\* The write succeeds, or fails: the result is unsigned, so the test for a
\* negative one never holds, and the connection is closed because -1 is not
\* the size that was asked for.
HandleWrite ==
    /\ Handler({"write"})
    /\ \/ ~IsOpen(args[1]) /\ Refuse /\ UNCHANGED device
       \/ /\ IsOpen(args[1])
          /\ device' = [address |-> args[2], size |-> args[3], filled |-> received, asked |-> req]
          /\ \/ Answer(Fixed)
             \/ pc' = "closed" /\ reply' = Fixed
    /\ UNCHANGED opened

\* CMD_VIRTUALQUERYEX and CMD_GETREGIONINFO: address 0 is answered without a
\* lookup, and without the name that CMD_GETREGIONINFO sends otherwise.
HandleRegion ==
    /\ Handler({"query", "region"})
    /\ \/ ~IsOpen(args[1]) /\ Refuse
       \/ IsOpen(args[1]) /\ args[2] = 0 /\ Answer(Fixed)
       \/ /\ IsOpen(args[1]) /\ args[2] # 0
          /\ \E vads \in VadLists :
                LET v == Lookup(vads, args[2])
                    n == IF v = Absent THEN 0 ELSE Truncated(NameLength(v))
                    about == [address |-> args[2], vads |-> vads, vad |-> v,
                              info |-> IF v = Absent THEN Absent ELSE RegionInfo(v)]
                IN  Answer(IF cmd = "region" THEN Reply(ByteOf(n), n, about) ELSE Reply(Absent, 0, about))
    /\ UNCHANGED <<opened, device>>

\* CMD_VIRTUALQUERYEXFULL
HandleQueryFull ==
    /\ Handler({"queryfull"})
    /\ \/ ~IsOpen(args[1]) /\ Refuse
       \/ IsOpen(args[1]) /\ \E vads \in VadLists : Answer(Items(Len(vads)))
    /\ UNCHANGED <<opened, device>>

-----------------------------------------------------------------------------
(* CMD_GETARCHITECTURE: the handle is polled for during a second           *)

\* recvNonBlocking gets the handle, or all that ever comes of it.  The Linux wrapper receives into its own
\* parameter, which leaves -1 in the handler's variable; the Winsock wrapper
\* makes the socket non-blocking for good.
PollGot ==
    /\ pc = "poll"
    /\ \E v \in {0, 1} :
          /\ \/ NextIs({"handle"}) /\ v = Head(stream).v /\ stream' = Tail(stream) /\ UNCHANGED cut
             \/ CutIs({"handle"}) /\ v = cut /\ cut' = Absent /\ UNCHANGED stream
          /\ args' = <<IF platform = "linux" THEN -1 ELSE v>>
    /\ pc' = "polled"
    /\ nonblocking' = (platform = "windows")
    /\ UNCHANGED <<Settled, cmd, received, wouldBlock, polls, straggler, device>>

\* It gets only part of the handle.
PollGotPart ==
    /\ pc = "poll" /\ NextIs({"handle"})
    /\ \E v \in {0, 1} : args' = <<IF platform = "linux" THEN -1 ELSE v>>
    /\ stream' = <<Field("fragment", 0)>> \o Tail(stream)
    /\ pc' = "polled"
    /\ nonblocking' = (platform = "windows")
    /\ straggler' = TRUE
    /\ UNCHANGED <<Settled, cut, cmd, received, wouldBlock, polls, device>>

\* Mutant of TimeLeft: one attempt too many.
TimeLeftOnce(n) == n <= MaxPolls

\* Whether a second has not passed after n attempts.
TimeLeft(n) == n < MaxPolls

\* Mutant of PollNothing: the loop does not look at the clock.
PollForEver ==
    /\ pc = "poll" /\ stream = <<>> /\ ~AtCut
    /\ wouldBlock' = (IF peer = "open" THEN TRUE ELSE wouldBlock /\ peer = "eof")
    /\ nonblocking' = (platform = "windows")
    /\ UNCHANGED <<Settled, pc, cmd, args, received, stream, cut, polls, straggler, device>>

\* Nothing there, or the end of the stream: the handler tries again until the
\* time is over.  Only a failure sets errno; success and the end of the stream
\* leave it.
PollNothing ==
    /\ pc = "poll" /\ stream = <<>> /\ ~AtCut
    /\ polls' = polls + 1
    /\ wouldBlock' = (IF peer = "open" THEN TRUE ELSE wouldBlock /\ peer = "eof")
    /\ nonblocking' = (platform = "windows")
    /\ IF TimeLeft(polls') THEN UNCHANGED <<pc, args, straggler>>
       ELSE /\ pc' = "polled" /\ args' = <<-1>>
            /\ straggler' = (straggler \/ (peer = "open" /\ ~old))
    /\ UNCHANGED <<Settled, cmd, received, stream, cut, device>>

\* The handle in use: that of an old client if errno is EWOULDBLOCK, which the
\* Winsock error never is.  What is looked up for an old client is a process
\* id, which may or may not be a handle.
Polled ==
    IF platform = "linux" /\ wouldBlock
    THEN IF opened THEN {0, 1} ELSE {-1}
    ELSE {args[1]}

HandleArchitecture ==
    /\ pc = "polled"
    /\ \E h \in Polled : IF IsOpen(h) THEN Answer(Fixed) ELSE Refuse
    /\ UNCHANGED <<fixedVars, peerVars, stream, cut, cmd, args, received, opened, errorVars, device>>

-----------------------------------------------------------------------------
Server ==
    \/ RecvCommand \/ RecvCommandFails \/ RecvSkewed
    \/ RecvField \/ FieldSkewed \/ NoPayload \/ RecvPayload
    \/ HandleStateless \/ HandleName \/ HandleClose \/ HandleTables \/ HandleEntries
    \/ HandleRead \/ HandleWrite \/ HandleRegion \/ HandleQueryFull
    \/ PollGot \/ PollGotPart \/ PollNothing \/ HandleArchitecture

Next == Server \/ SendField \/ TakeReply \/ Leave \/ \E c \in Commands : Begin(c)

\* The server's thread moves when it can, and the peer takes an answer that is there.
Spec == Init /\ [][Next]_vars /\ WF_vars(Server) /\ WF_vars(TakeReply)

-----------------------------------------------------------------------------
(* Properties *)

TypeOK ==
    /\ platform \in {"linux", "windows"} /\ old \in BOOLEAN
    /\ made \in 0 .. MaxRequests
    /\ req.cmd \in Commands /\ awaiting \in BOOLEAN
    /\ peer \in {"open", "eof", "reset"}
    /\ rest \in Seq(Fields) /\ stream \in Seq(Fields)
    /\ cut = Absent \/ cut \in Nat
    /\ pc \in {"recv", "fields", "act", "poll", "polled", "closed", "skewed", "hung"}
    /\ cmd \in Commands
    /\ pc = "act" => Len(args) = Len(Header(cmd))
    /\ pc = "polled" => Len(args) = 1
    /\ received \in 0 .. MaxSize
    /\ opened \in BOOLEAN /\ wouldBlock \in BOOLEAN /\ nonblocking \in BOOLEAN /\ straggler \in BOOLEAN
    /\ polls \in 0 .. MaxPolls /\ (pc = "poll" => polls < MaxPolls)

\* The server takes every byte for what the peer sent it as: commands as
\* commands, each field as itself.  It can lose step only through
\* CMD_GETARCHITECTURE, by going on without a handle that comes later or by
\* leaving the socket non-blocking.
InStep == pc = "skewed" => straggler \/ nonblocking

\* With the Linux wrapper and a peer that sends no handle to be polled for, step
\* is never lost, whatever the peer asks for and wherever it leaves.
OldPeerInStep == platform = "linux" /\ old => pc # "skewed"

\* A write of a positive size that reaches the memory service has the address
\* of the request the peer made, and its size, filled with its bytes as long as
\* the peer is there (or the socket was left non-blocking).  Only a peer that
\* leaves in the middle of the size itself has another size written, a smaller
\* one, and then no byte of the buffer is the peer's.
WriteAsRequested ==
    device # Absent /\ device.size > 0 =>
        /\ ~straggler /\ ~nonblocking =>
              /\ device.asked.cmd = "write" /\ device.asked.vals[2] = device.address
              /\ \/ device.size = device.asked.vals[3]
                 \/ device.size < device.asked.vals[3] /\ device.filled = 0 /\ peer # "open"
        /\ device.filled = device.size \/ peer # "open" \/ nonblocking

\* A handler's step leaves a reply: another one, or that of a command with an
\* answer.
Replies == /\ pc \in {"act", "polled"} /\ pc' # pc /\ reply' # NoReply
           /\ reply' # reply \/ cmd \notin Unanswered

\* A handler that answers, answers what the peer asked and waits for, and
\* nothing else was sent before: no request is answered twice, and no answer
\* meets a peer that has gone on to its next request.
AnswersTheAsked ==
    [][Replies /\ ~straggler /\ ~nonblocking => awaiting /\ reply = NoReply /\ req.cmd = cmd]_vars

\* The peer waits for an answer that the server thinks it has given: a
\* CMD_GETREGIONINFO of address 0 is answered without the name.
NameOmitted == req.cmd = "region" /\ req.vals[2] = 0

\* The peer has asked for more bytes than the memory service ever reads.
TooLarge == req.cmd = "read" /\ req.vals[3] >= MaxBytesPerDispatch

\* A peer that has sent a whole request gets a complete answer (as many items
\* as announced), or the connection is closed, or has lost step: nobody waits
\* for the other for ever, except for the name of a region at address 0 and for
\* a read that hangs in the memory service because it is too large.
Answered ==
    (awaiting /\ rest = <<>> /\ ~NameOmitted) ~>
        (~awaiting \/ peer # "open" \/ pc \in {"closed", "skewed"} \/ (pc = "hung" /\ TooLarge))

\* A region is reported exactly when one contains the address, and for a region
\* smaller than 2 GiB base and size describe it, so that the address lies in
\* what is reported.
RegionFound ==
    reply.about # Absent =>
        LET a == reply.about  v == a.vad
        IN  /\ (v = Absent) <=> \A i \in DOMAIN a.vads : ~(a.address \in a.vads[i].start .. a.vads[i].end)
            /\ v # Absent /\ v.end - v.start + 1 < Half =>
                  a.info.base <= a.address /\ a.address < a.info.base + a.info.size
                  /\ a.info.size = v.end - v.start + 1

\* The protection reported grants writing and execution exactly when the
\* entry's does, and reading always.
ProtectionFaithful ==
    reply.about # Absent /\ reply.about.vad # Absent =>
        Granted(reply.about.info.protection) = Rights[Low(reply.about.vad) + 1] \cup {"r"}
=============================================================================
