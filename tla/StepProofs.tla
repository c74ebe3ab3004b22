----------------------------- MODULE StepProofs -----------------------------
(***************************************************************************)
(* Proofs that server and peer keep in step: the server takes every field  *)
(* for what the peer sent it as, and a write that reaches the memory       *)
(* service is the one that was asked for, for any number and size of       *)
(* requests and wherever the peer leaves or a receive ends short.          *)
(***************************************************************************)
EXTENDS SessionProofs

-----------------------------------------------------------------------------
(* The invariant.  It speaks of what the peer has begun to send and the    *)
(* server has not received.                                                *)

Coming == stream \o rest

\* Nothing arrives any more, and what came was received to the last byte.
CutOff == stream = <<>> /\ cut = Absent /\ peer # "open"

\* The fields that follow a command (o: from an old peer), and which of them says how many bytes do.
Announced(o, c) == IF c = "architecture" /\ o THEN <<>> ELSE Protocol[c]
SizeIndex(c) == IF c = "write" THEN 3 ELSE 1

\* The request whose command stands (or, for i < 1, stood) at position i of s and
\* that carries n bytes: its fields and bytes are there as far as they were not
\* received, and the next request follows.
Framed(o, s, c, i, n) ==
    LET h == Len(Announced(o, c))
    IN  /\ \A k \in 1 .. h : i + k >= 1 => i + k <= Len(s) /\ s[i + k].name = Announced(o, c)[k]
        /\ \A k \in 1 .. n : i + h + k >= 1 => i + h + k <= Len(s) /\ s[i + h + k].name = "byte"
        /\ i + h + n + 1 \in 1 .. Len(s) => s[i + h + n + 1].name \in Commands

PayloadAt(s, c, i) == IF c \in Carries THEN s[i + SizeIndex(c)].v ELSE 0

\* Every command stands at the start of a whole request.
AllFramed(o, s) ==
    \A i \in 1 .. Len(s) :
        s[i].name \in Commands => Framed(o, s, s[i].name, i, PayloadAt(s, s[i].name, i))

\* The bytes of a request of which the fields a were received: from its size,
\* received or coming.
CurrentPayload(s, c, a) ==
    IF c \notin Carries THEN 0
    ELSE IF SizeIndex(c) <= Len(a) THEN a[SizeIndex(c)]
    ELSE s[SizeIndex(c) - Len(a)].v

\* What comes first is what the server will receive next.
FramesInv ==
    /\ AllFramed(old, Coming)
    /\ pc \in {"recv", "act", "polled"} /\ Coming # <<>> => Coming[1].name \in Commands
    /\ pc = "fields" => Framed(old, Coming, cmd, -Len(args), CurrentPayload(Coming, cmd, args))
    /\ pc = "poll" => Framed(old, Coming, cmd, 0, 0)

Handling == pc \in {"fields", "poll", "act", "polled"}

NoCommand(s) == \A i \in 1 .. Len(s) : s[i].name \notin Commands

\* A command with an answer that is coming is the last one and the peer's
\* request, ...
AnswerDue(s) == \E i \in 1 .. Len(s) : s[i].name \in Commands \ Unanswered

LastIsAsked(o, s, asked) ==
    \A i \in 1 .. Len(s) : s[i].name \in Commands \ Unanswered =>
        /\ asked.cmd = s[i].name
        /\ \A j \in i + 1 .. Len(s) : s[j].name \notin Commands
        /\ \A k \in 1 .. Len(Announced(o, asked.cmd)) : s[i + k].v = asked.vals[k]

\* ... and of one that is being received the fields are the request's.
FieldsAsked(s, c, a, asked) ==
    /\ \A k \in 1 .. Len(a) : a[k] = asked.vals[k]
    /\ \A k \in Len(a) + 1 .. Len(Header(c)) : s[k - Len(a)].v = asked.vals[k]

OrderInv ==
    /\ AnswerDue(Coming) => awaiting /\ reply = NoReply
    /\ LastIsAsked(old, Coming, req)
    /\ Handling /\ cmd \notin Unanswered => NoCommand(Coming)
    /\ pc = "fields" /\ cmd \notin Unanswered => FieldsAsked(Coming, cmd, args, req)

\* What was received up to a field that is not zero was sent, also when the
\* stream has ended; in the middle of a field, less of it was received.
ReceivedAsked ==
    \A k \in 1 .. Len(args) : args[k] # 0 =>
        /\ \A j \in 1 .. k - 1 : args[j] = req.vals[j]
        /\ args[k] = req.vals[k] \/ (CutOff /\ args[k] < req.vals[k])

\* No byte follows a size that was cut off.
NoneAfterCut == cmd = "write" /\ args[3] # 0 /\ args[3] # req.vals[3] => received = 0

\* The peer waits for the answer of what is being handled.
RequestInv ==
    /\ ~awaiting => reply = NoReply
    /\ Handling /\ cmd \notin Unanswered => awaiting /\ reply = NoReply /\ req.cmd = cmd
    /\ pc \in {"fields", "act"} /\ cmd \notin Unanswered => ReceivedAsked
    /\ pc = "act" /\ cmd \notin Unanswered => NoneAfterCut

\* Of a write, all bytes were received, or there is a reason.
FilledInv ==
    pc = "act" /\ cmd = "write" => received = args[3] \/ peer # "open" \/ nonblocking

\* Only CMD_GETARCHITECTURE polls, and only Winsock leaves the socket non-blocking.
PollInv ==
    /\ pc = "fields" => cmd # "architecture"
    /\ pc \in {"poll", "polled"} => cmd = "architecture"
    /\ nonblocking => platform = "windows"

Synchronous == RequestInv /\ (~CutOff /\ pc # "closed" => FramesInv /\ OrderInv)
SynchronyInv == ~straggler /\ ~nonblocking => Synchronous

\* On Linux no handle of an old peer is missed: it sends none.
OldPeerInv == platform = "linux" /\ old => ~straggler

StepInv ==
    PollInv /\ FilledInv /\ SynchronyInv /\ OldPeerInv /\ InStep /\ WriteAsRequested

-----------------------------------------------------------------------------
(* Commands and their fields *)

LEMMA CommandFacts ==
    /\ FieldNames \cap Commands = {} /\ Carries \subseteq Commands
    /\ "architecture" \notin Carries /\ "architecture" \notin Unanswered
    /\ "write" \in Carries /\ "write" \notin Unanswered
BY DEF FieldNames, Commands, Carries, Unanswered

LEMMA AnnouncedType ==
    ASSUME NEW o, NEW c \in Commands
    PROVE  Announced(o, c) \in Seq(HeaderNames) /\ Len(Announced(o, c)) \in Nat
<1>1. Announced(o, c) \in Seq(HeaderNames)
  BY ProtocolType, EmptySeq DEF Announced
<1> QED
  BY <1>1

\* The handlers receive what the protocol sends.
LEMMA AnnouncedIsHeader ==
    ASSUME NEW o, NEW c \in Commands, c # "architecture"
    PROVE  Announced(o, c) = Header(c)
BY DEF Announced, Protocol, Header

\* Where the size is.
LEMMA SizeIndexFacts ==
    ASSUME NEW o, NEW c \in Carries
    PROVE  /\ SizeIndex(c) \in 1 .. Len(Announced(o, c)) /\ Announced(o, c) = Header(c)
           /\ \A vals : SizeOf(Header(c), vals) = vals[SizeIndex(c)]
<1>1. c \in Commands /\ c # "architecture"
  BY DEF Carries, Commands
<1>2. Announced(o, c) = Header(c)
  BY <1>1, AnnouncedIsHeader
<1>3. CASE c = "write"
  <2>1. Header(c) = <<"handle", "address", "size">> /\ SizeIndex(c) = 3
    BY <1>3 DEF Header, SizeIndex
  <2>2. ASSUME NEW vals PROVE SizeOf(Header(c), vals) = vals[3]
    <3>1. DOMAIN Header(c) = 1 .. 3
      BY <2>1
    <3>2. \A i \in DOMAIN Header(c) : Header(c)[i] = "size" <=> i = 3
      BY <2>1, <3>1
    <3> QED
      BY <3>1, <3>2 DEF SizeOf
  <2> QED
    BY <1>2, <2>1, <2>2
<1>4. CASE c # "write"
  <2>1. Header(c) = <<"size">> /\ SizeIndex(c) = 1
    BY <1>4 DEF Header, SizeIndex, Carries
  <2>2. ASSUME NEW vals PROVE SizeOf(Header(c), vals) = vals[1]
    <3>1. DOMAIN Header(c) = 1 .. 1
      BY <2>1
    <3>2. \A i \in DOMAIN Header(c) : Header(c)[i] = "size" <=> i = 1
      BY <2>1, <3>1
    <3> QED
      BY <3>1, <3>2 DEF SizeOf
  <2> QED
    BY <1>2, <2>1, <2>2
<1> QED
  BY <1>3, <1>4

-----------------------------------------------------------------------------
(* Sequences of fields *)

\* t is s without its first m elements.
Suffix(s, m, t) == Len(t) = Len(s) - m /\ \A j \in 1 .. Len(t) : t[j] = s[j + m]

LEMMA FieldFacts ==
    ASSUME NEW s \in Seq(Fields), NEW i \in 1 .. Len(s)
    PROVE  s[i].v \in Nat /\ s[i].name \in Commands \cup FieldNames /\ s[i].v \in Values(s[i].name)
<1>1. s[i] \in Fields
  BY ElementOfSeq
<1> QED
  BY <1>1 DEF Fields

LEMMA PayloadType ==
    ASSUME NEW o, NEW s \in Seq(Fields), NEW i \in 1 .. Len(s), NEW c \in Commands, NEW n, Framed(o, s, c, i, n)
    PROVE  /\ PayloadAt(s, c, i) \in Nat
           /\ c \in Carries => i + SizeIndex(c) \in 1 .. Len(s)
<1>1. ASSUME c \in Carries PROVE i + SizeIndex(c) \in 1 .. Len(s)
  <2>1. SizeIndex(c) \in 1 .. Len(Announced(o, c)) /\ Len(Announced(o, c)) \in Nat /\ Len(s) \in Nat
    BY <1>1, SizeIndexFacts, AnnouncedType, LenProperties
  <2> QED
    BY <2>1 DEF Framed
<1> QED
  BY <1>1, FieldFacts DEF PayloadAt

\* A frame in a sequence is one in its suffix, ...
LEMMA FrameInSuffix ==
    ASSUME NEW o, NEW s, Len(s) \in Nat, NEW t, Len(t) \in Nat, NEW m \in Nat, Suffix(s, m, t),
           NEW c \in Commands, NEW i \in Int, NEW n \in Nat, Framed(o, s, c, i, n)
    PROVE  Framed(o, t, c, i - m, n)
<1> DEFINE h == Len(Announced(o, c))
<1>0. h \in Nat
  BY AnnouncedType
<1>1. ASSUME NEW k \in 1 .. h, i - m + k >= 1
      PROVE  i - m + k <= Len(t) /\ t[i - m + k].name = Announced(o, c)[k]
  <2>0. \A x \in 1 .. h : i + x >= 1 => i + x <= Len(s) /\ s[i + x].name = Announced(o, c)[x]
    BY DEF Framed
  <2> HIDE DEF h
  <2>1. i + k >= 1
    BY <1>0, <1>1
  <2>2. i + k <= Len(s) /\ s[i + k].name = Announced(o, c)[k]
    BY <2>0, <2>1
  <2>3. PICK j \in 1 .. Len(t) : j = i - m + k /\ j + m = i + k
    BY <1>0, <1>1, <2>2 DEF Suffix
  <2>4. t[j] = s[j + m]
    BY <2>3 DEF Suffix
  <2> QED
    BY <2>2, <2>3, <2>4
<1>2. ASSUME NEW k \in 1 .. n, i - m + h + k >= 1
      PROVE  i - m + h + k <= Len(t) /\ t[i - m + h + k].name = "byte"
  <2>0. \A x \in 1 .. n : i + h + x >= 1 => i + h + x <= Len(s) /\ s[i + h + x].name = "byte"
    BY DEF Framed
  <2> HIDE DEF h
  <2>1. i + h + k >= 1
    BY <1>0, <1>2
  <2>2. i + h + k <= Len(s) /\ s[i + h + k].name = "byte"
    BY <2>0, <2>1
  <2>3. PICK j \in 1 .. Len(t) : j = i - m + h + k /\ j + m = i + h + k
    BY <1>0, <1>2, <2>2 DEF Suffix
  <2>4. t[j] = s[j + m]
    BY <2>3 DEF Suffix
  <2> QED
    BY <2>2, <2>3, <2>4
<1>3. ASSUME i - m + h + n + 1 \in 1 .. Len(t)
      PROVE  t[i - m + h + n + 1].name \in Commands
  <2>1. i + h + n + 1 \in 1 .. Len(s) /\ (i - m + h + n + 1) + m = i + h + n + 1
    BY <1>0, <1>3 DEF Suffix
  <2> QED
    BY <1>3, <2>1 DEF Suffix, Framed
<1> QED
  BY <1>1, <1>2, <1>3 DEF Framed

LEMMA AllFramedSuffix ==
    ASSUME NEW o, NEW s \in Seq(Fields), NEW t \in Seq(Fields), NEW m \in Nat, Suffix(s, m, t), AllFramed(o, s)
    PROVE  AllFramed(o, t)
<1>0. Len(s) \in Nat /\ Len(t) \in Nat
  BY LenProperties
<1> SUFFICES ASSUME NEW i \in 1 .. Len(t), t[i].name \in Commands
             PROVE  Framed(o, t, t[i].name, i, PayloadAt(t, t[i].name, i))
  BY DEF AllFramed
<1> DEFINE c == t[i].name
<1>1. i + m \in 1 .. Len(s) /\ s[i + m].name = c
  BY <1>0 DEF Suffix
<1>2. Framed(o, s, c, i + m, PayloadAt(s, c, i + m))
  BY <1>1 DEF AllFramed
<1>3. /\ PayloadAt(s, c, i + m) \in Nat
      /\ c \in Carries => (i + m) + SizeIndex(c) \in 1 .. Len(s)
  BY <1>1, <1>2, PayloadType
<1>4. PayloadAt(t, c, i) = PayloadAt(s, c, i + m)
  <2>1. ASSUME c \in Carries PROVE t[i + SizeIndex(c)] = s[(i + m) + SizeIndex(c)]
    <3>1. SizeIndex(c) \in Nat
      BY DEF SizeIndex
    <3>2. i + SizeIndex(c) \in 1 .. Len(t) /\ (i + SizeIndex(c)) + m = (i + m) + SizeIndex(c)
      BY <1>0, <1>3, <2>1, <3>1 DEF Suffix
    <3> QED
      BY <3>2 DEF Suffix
  <2> QED
    BY <2>1 DEF PayloadAt
<1>5. Framed(o, t, c, (i + m) - m, PayloadAt(s, c, i + m))
  <2>1. i + m \in Int /\ c \in Commands
    OBVIOUS
  <2> HIDE DEF c
  <2> QED
    BY <1>0, <1>2, <1>3, <2>1, FrameInSuffix
<1>6. (i + m) - m = i
  OBVIOUS
<1> QED
  BY <1>4, <1>5, <1>6

\* ... and stays one when further requests come.
Extends(s, t) ==
    /\ Len(s) <= Len(t) /\ \A j \in 1 .. Len(s) : t[j] = s[j]
    /\ Len(s) + 1 <= Len(t) => t[Len(s) + 1].name \in Commands

LEMMA FrameExtended ==
    ASSUME NEW o, NEW s, Len(s) \in Nat, NEW t, Len(t) \in Nat, Extends(s, t),
           NEW c \in Commands, NEW i \in Int, i <= Len(s), NEW n \in Nat, Framed(o, s, c, i, n)
    PROVE  Framed(o, t, c, i, n)
<1> DEFINE h == Len(Announced(o, c))
<1>0. h \in Nat
  BY AnnouncedType
<1>1. \A k \in 1 .. h : i + k >= 1 => i + k <= Len(s) /\ s[i + k].name = Announced(o, c)[k]
  BY DEF Framed
<1>2. \A k \in 1 .. n : i + h + k >= 1 => i + h + k <= Len(s) /\ s[i + h + k].name = "byte"
  BY DEF Framed
<1>3. i + h + n + 1 \in 1 .. Len(s) => s[i + h + n + 1].name \in Commands
  BY DEF Framed
<1> HIDE DEF h
<1>4. ASSUME NEW k \in 1 .. h, i + k >= 1
      PROVE  i + k <= Len(t) /\ t[i + k].name = Announced(o, c)[k]
  <2>1. i + k \in 1 .. Len(s)
    BY <1>0, <1>1, <1>4
  <2> QED
    BY <1>1, <2>1 DEF Extends
<1>5. ASSUME NEW k \in 1 .. n, i + h + k >= 1
      PROVE  i + h + k <= Len(t) /\ t[i + h + k].name = "byte"
  <2>1. i + h + k <= Len(s) /\ s[i + h + k].name = "byte"
    BY <1>2, <1>5
  <2>2. PICK j \in 1 .. Len(s) : j = i + h + k
    BY <1>0, <1>5, <2>1
  <2> QED
    BY <2>1, <2>2 DEF Extends
<1>6. ASSUME i + h + n + 1 \in 1 .. Len(t)
      PROVE  t[i + h + n + 1].name \in Commands
  <2>1. i + h + n <= Len(s)
    <3>1. CASE n > 0
      <4>1. n \in 1 .. n /\ i + h + n \in Int
        BY <1>0, <3>1
      <4> QED
        BY <1>2, <4>1
    <3>2. CASE n = 0 /\ h > 0
      <4>1. h \in 1 .. h /\ i + h \in Int
        BY <1>0, <3>2
      <4>2. i + h >= 1 => i + h <= Len(s)
        BY <1>1, <4>1
      <4> QED
        BY <3>2, <4>1, <4>2
    <3>3. CASE n = 0 /\ h = 0
      BY <3>3
    <3> QED
      BY <1>0, <3>1, <3>2, <3>3
  <2>2. PICK j \in 1 .. Len(t) : j = i + h + n + 1
    BY <1>6
  <2>3. j \in 1 .. Len(s) \/ j = Len(s) + 1
    BY <1>0, <2>1, <2>2
  <2> QED
    BY <1>3, <2>2, <2>3 DEF Extends
<1> QED
  BY <1>4, <1>5, <1>6 DEF Framed, h

LEMMA AllFramedExtended ==
    ASSUME NEW o, NEW s \in Seq(Fields), NEW t \in Seq(Fields), Extends(s, t), AllFramed(o, s),
           NEW i \in 1 .. Len(s), t[i].name \in Commands
    PROVE  Framed(o, t, t[i].name, i, PayloadAt(t, t[i].name, i))
<1>0. Len(s) \in Nat /\ Len(t) \in Nat
  BY LenProperties
<1> DEFINE c == t[i].name
<1>1. s[i].name = c
  BY DEF Extends
<1>2. Framed(o, s, c, i, PayloadAt(s, c, i))
  BY <1>1 DEF AllFramed
<1>3. /\ PayloadAt(s, c, i) \in Nat
      /\ c \in Carries => i + SizeIndex(c) \in 1 .. Len(s)
  BY <1>1, <1>2, PayloadType
<1>4. PayloadAt(t, c, i) = PayloadAt(s, c, i)
  BY <1>3 DEF PayloadAt, Extends
<1>5. Framed(o, t, c, i, PayloadAt(s, c, i))
  <2>1. i \in Int /\ i <= Len(s) /\ c \in Commands
    BY <1>0
  <2> HIDE DEF c
  <2> QED
    BY <1>0, <1>2, <1>3, <2>1, FrameExtended
<1> QED
  BY <1>4, <1>5

\* The size among the values of a request.
SizeIn(c, vals) == IF c \in Carries THEN vals[SizeIndex(c)] ELSE 0

\* A request as it is sent: its command, its fields, its bytes.
LEMMA WireFacts ==
    ASSUME NEW c \in Commands, NEW vals, \A i \in DOMAIN Protocol[c] : vals[i] \in Values(Protocol[c][i])
    PROVE  LET w == Wire(c, vals)
               h == Len(Announced(old, c))
               n == SizeIn(c, vals)
           IN  /\ n \in Nat /\ Len(w) = 1 + h + n /\ w[1] = Field(c, 0)
               /\ \A k \in 1 .. h : w[1 + k] = Field(Announced(old, c)[k], vals[k])
               /\ \A k \in 1 .. n : w[1 + h + k] = Field("byte", 0)
<1> DEFINE w == Wire(c, vals)
           h == Len(Announced(old, c))
           n == SizeIn(c, vals)
           header == [i \in 1 .. h |-> Field(Announced(old, c)[i], vals[i])]
           payload == [i \in 1 .. n |-> Field("byte", 0)]
<1>0. h \in Nat /\ DOMAIN Announced(old, c) = 1 .. h
  BY AnnouncedType
<1>1. n \in Nat
  <2>1. ASSUME c \in Carries PROVE vals[SizeIndex(c)] \in Nat
    <3>1. Protocol[c] = Header(c) /\ SizeIndex(c) \in 1 .. Len(Header(c))
      BY <2>1, CarriesSize, SizeIndexFacts
    <3>2. SizeIndex(c) \in DOMAIN Protocol[c]
      BY <3>1, HeaderType
    <3> QED
      BY <3>2, ValuesFacts
  <2> QED
    BY <2>1 DEF SizeIn
<1>2. n = (IF c \in Carries THEN SizeOf(Announced(old, c), vals) ELSE 0)
  BY SizeIndexFacts DEF SizeIn
<1>3. w = <<Field(c, 0)>> \o header \o payload
  BY <1>0, <1>2 DEF Wire, Announced
<1> HIDE DEF w, h, n
<1>4. header \in Seq(Fields) /\ Len(header) = h /\ \A k \in 1 .. h : header[k] = Field(Announced(old, c)[k], vals[k])
  <2>1. \A k \in 1 .. h : Field(Announced(old, c)[k], vals[k]) \in Fields
    <3> TAKE k \in 1 .. h
    <3>1. Announced(old, c)[k] \in Commands \cup FieldNames
      BY <1>0, AnnouncedType DEF HeaderNames, FieldNames, h
    <3>2. vals[k] \in Values(Announced(old, c)[k])
      BY <1>0 DEF Announced
    <3> QED
      BY <3>1, <3>2, FieldType
  <2>2. header \in [1 .. h -> Fields]
    BY <2>1
  <2> HIDE DEF header, Fields
  <2> QED
    BY <1>0, <2>2, SeqDef, LenProperties DEF header
<1>5. payload \in Seq(Fields) /\ Len(payload) = n /\ \A k \in 1 .. n : payload[k] = Field("byte", 0)
  <2>1. Field("byte", 0) \in Fields
    BY FieldType DEF FieldNames, Values
  <2>2. payload \in [1 .. n -> Fields]
    BY <2>1
  <2> HIDE DEF payload, Fields
  <2> QED
    BY <1>1, <2>2, SeqDef, LenProperties DEF payload
<1> DEFINE first == <<Field(c, 0)>>
<1>6. first \in Seq(Fields) /\ Len(first) = 1 /\ first[1] = Field(c, 0)
  <2>1. Field(c, 0) \in Fields
    BY FieldType, ValuesFacts
  <2> HIDE DEF Fields
  <2> QED
    BY <2>1
<1> HIDE DEF first, header, payload
<1>7. /\ first \o header \in Seq(Fields) /\ Len(first \o header) = 1 + h
      /\ (first \o header)[1] = Field(c, 0)
      /\ \A k \in 1 .. h : (first \o header)[1 + k] = header[k]
  <2>1. /\ first \o header \in Seq(Fields) /\ Len(first \o header) = 1 + h
        /\ \A j \in 1 .. 1 + h : (first \o header)[j] = IF j <= 1 THEN first[j] ELSE header[j - 1]
    <3>1. /\ first \o header \in Seq(Fields) /\ Len(first \o header) = Len(first) + Len(header)
          /\ \A j \in 1 .. Len(first) + Len(header) :
                (first \o header)[j] = IF j <= Len(first) THEN first[j] ELSE header[j - Len(first)]
      <4> HIDE DEF Fields
      <4>1. first \in Seq(Fields) /\ header \in Seq(Fields)
        BY <1>4, <1>6
      <4> QED
        BY <4>1, ConcatProperties
    <3> QED
      BY <1>4, <1>6, <3>1
  <2> QED
    BY <1>0, <1>6, <2>1
<1>8. /\ w \in Seq(Fields) /\ Len(w) = 1 + h + n
      /\ \A j \in 1 .. 1 + h + n :
            w[j] = IF j <= 1 + h THEN (first \o header)[j] ELSE payload[j - (1 + h)]
  <2>1. first \o header \in Seq(Fields) /\ payload \in Seq(Fields) /\ w = (first \o header) \o payload
    BY <1>3, <1>5, <1>7 DEF first
  <2>2. /\ w \in Seq(Fields) /\ Len(w) = Len(first \o header) + Len(payload)
        /\ \A j \in 1 .. Len(first \o header) + Len(payload) :
              w[j] = IF j <= Len(first \o header) THEN (first \o header)[j]
                     ELSE payload[j - Len(first \o header)]
    BY <2>1, ConcatProperties
  <2> QED
    BY <1>5, <1>7, <2>2
<1>9. w[1] = Field(c, 0) /\ \A k \in 1 .. h : w[1 + k] = Field(Announced(old, c)[k], vals[k])
  <2>1. w[1] = Field(c, 0)
    <3>1. 1 \in 1 .. 1 + h + n /\ 1 <= 1 + h
      BY <1>0, <1>1
    <3> QED
      BY <1>7, <1>8, <3>1
  <2>2. ASSUME NEW k \in 1 .. h PROVE w[1 + k] = Field(Announced(old, c)[k], vals[k])
    <3>1. 1 + k \in 1 .. 1 + h + n /\ 1 + k <= 1 + h
      BY <1>0, <1>1
    <3>2. w[1 + k] = (first \o header)[1 + k]
      BY <1>8, <3>1
    <3> QED
      BY <1>4, <1>7, <3>2
  <2> QED
    BY <2>1, <2>2
<1>10. \A k \in 1 .. n : w[1 + h + k] = Field("byte", 0)
  <2> TAKE k \in 1 .. n
  <2>1. PICK j \in 1 .. 1 + h + n : j = 1 + h + k /\ ~(j <= 1 + h) /\ j - (1 + h) = k
    BY <1>0, <1>1
  <2> QED
    BY <1>5, <1>8, <2>1
<1> QED
  BY <1>1, <1>8, <1>9, <1>10 DEF w, h, n

\* A request as it is sent is framed, and only its first field is a command.
LEMMA WireFramed ==
    ASSUME NEW c \in Commands, NEW vals, \A i \in DOMAIN Protocol[c] : vals[i] \in Values(Protocol[c][i]),
           NEW w, w = Wire(c, vals)
    PROVE  /\ w \in Seq(Fields) /\ Len(w) \in Nat /\ Len(w) >= 1 /\ w[1].name = c
           /\ Framed(old, w, c, 1, SizeIn(c, vals)) /\ PayloadAt(w, c, 1) = SizeIn(c, vals)
           /\ \A j \in 2 .. Len(w) : w[j].name \notin Commands
           /\ \A k \in 1 .. Len(Announced(old, c)) : 1 + k <= Len(w) /\ w[1 + k].v = vals[k]
<1> DEFINE h == Len(Announced(old, c))
           n == SizeIn(c, vals)
<1>0. h \in Nat /\ \A k \in 1 .. h : Announced(old, c)[k] \in FieldNames
  BY AnnouncedType DEF HeaderNames, FieldNames
<1>1. /\ n \in Nat /\ Len(w) = 1 + h + n /\ w[1] = Field(c, 0)
      /\ \A k \in 1 .. h : w[1 + k] = Field(Announced(old, c)[k], vals[k])
      /\ \A k \in 1 .. n : w[1 + h + k] = Field("byte", 0)
  BY WireFacts
<1>2. c \in Carries => SizeIndex(c) \in 1 .. h
  BY SizeIndexFacts
<1>3. w \in Seq(Fields)
  BY WireType
<1>4. \A k \in 1 .. h : w[1 + k].name = Announced(old, c)[k] /\ w[1 + k].v = vals[k]
  <2> TAKE k \in 1 .. h
  <2>1. w[1 + k] = Field(Announced(old, c)[k], vals[k])
    BY <1>1
  <2> QED
    BY <2>1 DEF Field
<1>5. \A k \in 1 .. n : w[1 + h + k].name = "byte"
  <2> TAKE k \in 1 .. n
  <2>1. w[1 + h + k] = Field("byte", 0)
    BY <1>1
  <2> QED
    BY <2>1 DEF Field
<1>6. PayloadAt(w, c, 1) = n
  BY <1>2, <1>4 DEF PayloadAt, SizeIn
<1>7. w[1].name = c
  BY <1>1 DEF Field
<1> HIDE DEF n
<1>8. Framed(old, w, c, 1, n)
  <2>1. \A k \in 1 .. h : 1 + k >= 1 => 1 + k <= Len(w) /\ w[1 + k].name = Announced(old, c)[k]
    BY <1>0, <1>1, <1>4
  <2>2. \A k \in 1 .. n : 1 + h + k >= 1 => 1 + h + k <= Len(w) /\ w[1 + h + k].name = "byte"
    <3> TAKE k \in 1 .. n
    <3>1. w[1 + h + k].name = "byte"
      BY <1>5
    <3>2. 1 + h + k <= Len(w)
      BY <1>0, <1>1
    <3> QED
      BY <3>1, <3>2
  <2>3. ~(1 + h + n + 1 \in 1 .. Len(w))
    BY <1>0, <1>1
  <2> QED
    BY <2>1, <2>2, <2>3 DEF Framed
<1> HIDE DEF h
<1>9. ASSUME NEW j \in 2 .. Len(w) PROVE w[j].name \notin Commands
  <2>1. w[j].name \in FieldNames
    <3>1. CASE j <= 1 + h
      <4>1. PICK k \in 1 .. h : j = 1 + k
        <5>1. j - 1 \in 1 .. h /\ j = 1 + (j - 1)
          BY <1>0, <1>1, <3>1
        <5> QED
          BY <5>1
      <4> QED
        BY <1>0, <1>4, <4>1
    <3>2. CASE j > 1 + h
      <4>1. PICK k \in 1 .. n : j = 1 + h + k
        <5>1. j - (1 + h) \in 1 .. n /\ j = 1 + h + (j - (1 + h))
          BY <1>0, <1>1, <3>2
        <5> QED
          BY <5>1
      <4> QED
        BY <1>5, <4>1 DEF FieldNames
    <3> QED
      BY <1>0, <1>1, <3>1, <3>2
  <2> QED
    BY <2>1, CommandFacts
<1>10. Len(w) \in Nat /\ Len(w) >= 1 /\ \A k \in 1 .. h : 1 + k <= Len(w)
  BY <1>0, <1>1
<1> QED
  BY <1>3, <1>4, <1>6, <1>7, <1>8, <1>9, <1>10 DEF n, h

\* A frame that stands behind other fields.
LEMMA FrameBehind ==
    ASSUME NEW o, NEW s, Len(s) \in Nat, NEW w, Len(w) \in Nat, NEW t, Len(t) = Len(s) + Len(w),
           \A j \in 1 .. Len(w) : t[Len(s) + j] = w[j],
           NEW c \in Commands, NEW n \in Nat, Framed(o, w, c, 1, n)
    PROVE  Framed(o, t, c, Len(s) + 1, n)
<1> DEFINE h == Len(Announced(o, c))
           l == Len(s)
<1>0. h \in Nat /\ l \in Nat
  BY AnnouncedType
<1>1. \A k \in 1 .. h : 1 + k >= 1 => 1 + k <= Len(w) /\ w[1 + k].name = Announced(o, c)[k]
  BY DEF Framed
<1>2. \A k \in 1 .. n : 1 + h + k >= 1 => 1 + h + k <= Len(w) /\ w[1 + h + k].name = "byte"
  BY DEF Framed
<1>3. 1 + h + n + 1 \in 1 .. Len(w) => w[1 + h + n + 1].name \in Commands
  BY DEF Framed
<1>a. \A j \in 1 .. Len(w) : l + j <= Len(t) /\ t[l + j] = w[j]
  BY <1>0
<1> HIDE DEF h, l
<1>4. ASSUME NEW k \in 1 .. h
      PROVE  l + 1 + k <= Len(t) /\ t[l + 1 + k].name = Announced(o, c)[k]
  <2>0. 1 + k >= 1
    OBVIOUS
  <2>a. 1 + k <= Len(w) /\ w[1 + k].name = Announced(o, c)[k]
    BY <1>1, <2>0
  <2>1. 1 + k \in 1 .. Len(w) /\ l + (1 + k) = l + 1 + k /\ w[1 + k].name = Announced(o, c)[k]
    BY <1>0, <2>a
  <2>2. l + (1 + k) <= Len(t) /\ t[l + (1 + k)] = w[1 + k]
    BY <1>a, <2>1
  <2> QED
    BY <2>1, <2>2
<1>5. ASSUME NEW k \in 1 .. n
      PROVE  l + 1 + h + k <= Len(t) /\ t[l + 1 + h + k].name = "byte"
  <2>0. 1 + h + k >= 1
    BY <1>0
  <2>1. 1 + h + k <= Len(w) /\ w[1 + h + k].name = "byte"
    BY <1>2, <2>0
  <2>2. PICK j \in 1 .. Len(w) : j = 1 + h + k /\ l + j = l + 1 + h + k
    BY <1>0, <2>1
  <2>3. l + j <= Len(t) /\ t[l + j] = w[j]
    BY <1>a
  <2> QED
    BY <2>1, <2>2, <2>3
<1>6. ASSUME l + 1 + h + n + 1 \in 1 .. Len(t)
      PROVE  t[l + 1 + h + n + 1].name \in Commands
  <2>1. PICK j \in 1 .. Len(w) : j = 1 + h + n + 1 /\ l + j = l + 1 + h + n + 1
    BY <1>0, <1>6 DEF l
  <2>2. t[l + j] = w[j] /\ w[j].name \in Commands
    BY <1>3, <1>a, <2>1
  <2> QED
    BY <2>1, <2>2
<1> QED
  BY <1>4, <1>5, <1>6 DEF Framed, h, l

-----------------------------------------------------------------------------
(* What is coming *)

LEMMA Joined ==
    ASSUME NEW s \in Seq(Fields), NEW t \in Seq(Fields), NEW u, u = s \o t
    PROVE  /\ u \in Seq(Fields) /\ Len(u) = Len(s) + Len(t)
           /\ Len(u) \in Nat /\ Len(s) \in Nat /\ Len(t) \in Nat
           /\ \A j \in 1 .. Len(s) : u[j] = s[j]
           /\ \A j \in 1 .. Len(t) : u[Len(s) + j] = t[j]
<1>1. Len(s) \in Nat /\ Len(t) \in Nat
  BY LenProperties
<1>2. /\ u \in Seq(Fields) /\ Len(u) = Len(s) + Len(t)
      /\ \A i \in 1 .. Len(s) + Len(t) : u[i] = IF i <= Len(s) THEN s[i] ELSE t[i - Len(s)]
  BY ConcatProperties
<1>3. ASSUME NEW j \in 1 .. Len(t) PROVE u[Len(s) + j] = t[j]
  <2>1. PICK i \in 1 .. Len(s) + Len(t) : i = Len(s) + j /\ ~(i <= Len(s)) /\ i - Len(s) = j
    BY <1>1
  <2> QED
    BY <1>2, <2>1
<1> QED
  BY <1>1, <1>2, <1>3

LEMMA ComingType ==
    ASSUME Inv
    PROVE  /\ Coming \in Seq(Fields) /\ Len(Coming) = Len(stream) + Len(rest)
           /\ Len(Coming) \in Nat /\ Len(stream) \in Nat /\ Len(rest) \in Nat
           /\ \A j \in 1 .. Len(stream) : Coming[j] = stream[j]
           /\ \A j \in 1 .. Len(rest) : Coming[Len(stream) + j] = rest[j]
<1>1. stream \in Seq(Fields) /\ rest \in Seq(Fields)
  BY DEF Inv, TypeOK
<1> QED
  BY <1>1, Joined DEF Coming

\* The same of the next state.
LEMMA ComingTypeNext ==
    ASSUME Inv'
    PROVE  /\ Coming' \in Seq(Fields) /\ Len(Coming') = Len(stream') + Len(rest')
           /\ Len(Coming') \in Nat /\ Len(stream') \in Nat /\ Len(rest') \in Nat
           /\ \A j \in 1 .. Len(stream') : Coming'[j] = stream'[j]
           /\ \A j \in 1 .. Len(rest') : Coming'[Len(stream') + j] = rest'[j]
<1>1. stream' \in Seq(Fields) /\ rest' \in Seq(Fields)
  BY DEF Inv, TypeOK
<1> QED
  BY <1>1, Joined DEF Coming

LEMMA HeadComing ==
    ASSUME Inv, stream # <<>>
    PROVE  /\ Coming # <<>> /\ 1 \in 1 .. Len(stream) /\ 1 \in 1 .. Len(Coming)
           /\ Coming[1] = Head(stream)
<1>1. stream \in Seq(Fields)
  BY DEF Inv, TypeOK
<1>2. Len(stream) \in Nat /\ Len(stream) # 0 /\ Head(stream) = stream[1]
  BY <1>1, LenProperties, EmptySeq, HeadTailProperties
<1>3. Len(Coming) # 0 /\ Coming[1] = stream[1]
  BY <1>2, ComingType
<1> QED
  BY <1>2, <1>3, ComingType, EmptySeq

LEMMA HeadCut ==
    ASSUME Inv, AtCut
    PROVE  /\ Coming # <<>> /\ 1 \in 1 .. Len(Coming) /\ Coming[1] = Head(rest)
           /\ peer # "open" /\ ~CutOff /\ cut \in Nat /\ cut <= Coming[1].v /\ Coming[1].v \in Nat
<1>1. rest \in Seq(Fields) /\ rest # <<>> /\ stream = <<>> /\ cut # Absent /\ peer # "open"
  BY DEF Inv, TypeOK, CutInv, AtCut
<1>2. 1 \in 1 .. Len(rest) /\ Head(rest) = rest[1]
  BY <1>1, LenProperties, EmptySeq, HeadTailProperties
<1>3. Len(stream) = 0 /\ Len(stream) + 1 = 1
  BY <1>1
<1>4. Coming[1] = Head(rest) /\ 1 \in 1 .. Len(Coming)
  BY <1>2, <1>3, ComingType
<1>5. Coming # <<>>
  BY <1>4, ComingType, EmptySeq
<1>6. Coming[1].v \in Nat
  BY <1>4, ComingType, FieldFacts
<1>7. cut \in Nat /\ cut <= Head(rest).v
  BY <1>1 DEF Inv, CutInv
<1> QED
  BY <1>1, <1>4, <1>5, <1>6, <1>7 DEF CutOff

\* What was received stays what was asked for.
LEMMA ReceivedStays ==
    ASSUME ReceivedAsked, UNCHANGED <<args, req>>, CutOff => CutOff'
    PROVE  ReceivedAsked'
BY DEF ReceivedAsked

\* Receiving n fields takes them from what is coming.
LEMMA DropComing ==
    ASSUME Inv, Inv', NEW n \in 0 .. Len(stream), Len(stream') = Len(stream) - n,
           \A j \in 1 .. Len(stream') : stream'[j] = stream[j + n], rest' = rest
    PROVE  Suffix(Coming, n, Coming')
<1>1. /\ Len(Coming) = Len(stream) + Len(rest)
      /\ Len(stream) \in Nat /\ Len(rest) \in Nat
      /\ \A j \in 1 .. Len(stream) : Coming[j] = stream[j]
      /\ \A j \in 1 .. Len(rest) : Coming[Len(stream) + j] = rest[j]
  BY ComingType
<1>2. /\ Len(Coming') = Len(stream') + Len(rest)
      /\ Len(stream') \in Nat
      /\ \A j \in 1 .. Len(stream') : Coming'[j] = stream'[j]
      /\ \A j \in 1 .. Len(rest) : Coming'[Len(stream') + j] = rest[j]
  <2>1. /\ Len(Coming') = Len(stream') + Len(rest')
        /\ Len(stream') \in Nat
        /\ \A j \in 1 .. Len(stream') : Coming'[j] = stream'[j]
        /\ \A j \in 1 .. Len(rest') : Coming'[Len(stream') + j] = rest'[j]
    BY ComingTypeNext
  <2> QED
    BY <2>1
<1>3. Len(Coming') = Len(Coming) - n
  BY <1>1, <1>2
<1>4. ASSUME NEW j \in 1 .. Len(Coming') PROVE Coming'[j] = Coming[j + n]
  <2>1. CASE j <= Len(stream')
    <3>1. j \in 1 .. Len(stream') /\ j + n \in 1 .. Len(stream)
      BY <1>1, <1>2, <2>1
    <3> QED
      BY <1>1, <1>2, <3>1
  <2>2. CASE j > Len(stream')
    <3>1. PICK i \in 1 .. Len(rest) : j = Len(stream') + i /\ j + n = Len(stream) + i
      <4>1. j - Len(stream') \in 1 .. Len(rest) /\ j = Len(stream') + (j - Len(stream'))
            /\ j + n = Len(stream) + (j - Len(stream'))
        BY <1>1, <1>2, <2>2
      <4> QED
        BY <4>1
    <3> QED
      BY <1>1, <1>2, <3>1
  <2> QED
    BY <1>2, <2>1, <2>2
<1> QED
  BY <1>3, <1>4 DEF Suffix

\* Receiving one field.
LEMMA TailComing ==
    ASSUME Inv, Inv', stream # <<>>, stream' = Tail(stream), rest' = rest
    PROVE  Suffix(Coming, 1, Coming')
<1>1. stream \in Seq(Fields)
  BY DEF Inv, TypeOK
<1>2. Len(stream') = Len(stream) - 1 /\ \A j \in 1 .. Len(stream') : stream'[j] = stream[j + 1]
  BY <1>1, HeadTailProperties, LenProperties
<1>3. 1 \in 0 .. Len(stream)
  BY HeadComing, ComingType
<1> QED
  BY <1>2, <1>3, DropComing

\* Sending a field does not change what is coming.
LEMMA SendComing ==
    ASSUME Inv, SendField
    PROVE  Coming' = Coming
<1>1. stream \in Seq(Fields) /\ rest \in Seq(Fields) /\ rest # <<>>
  BY DEF Inv, TypeOK, SendField
<1>2. stream' = Append(stream, Head(rest)) /\ rest' = Tail(rest)
  BY DEF SendField
<1>3. Append(stream, Head(rest)) \o Tail(rest) = stream \o rest
  <2> HIDE DEF Fields
  <2>1. rest = <<Head(rest)>> \o Tail(rest) /\ Head(rest) \in Fields /\ Tail(rest) \in Seq(Fields)
    BY <1>1, HeadTailProperties, ConcatSimplifications
  <2>2. Append(stream, Head(rest)) = stream \o <<Head(rest)>>
    BY <1>1, <2>1, AppendIsConcat
  <2>3. (stream \o <<Head(rest)>>) \o Tail(rest) = stream \o (<<Head(rest)>> \o Tail(rest))
    BY <1>1, <2>1, ConcatAssociative
  <2> QED
    BY <2>1, <2>2, <2>3
<1> QED
  BY <1>2, <1>3 DEF Coming


\* The order of requests in a suffix.
LEMMA OrderInSuffix ==
    ASSUME NEW o, NEW s \in Seq(Fields), NEW t \in Seq(Fields), NEW m \in Nat, Suffix(s, m, t),
           NEW asked
    PROVE  /\ AnswerDue(t) => AnswerDue(s)
           /\ NoCommand(s) => NoCommand(t)
           /\ AllFramed(o, s) /\ LastIsAsked(o, s, asked) => LastIsAsked(o, t, asked)
<1>0. Len(s) \in Nat /\ Len(t) \in Nat
  BY LenProperties
<1>1. \A j \in 1 .. Len(t) : j + m \in 1 .. Len(s) /\ t[j] = s[j + m]
  BY <1>0 DEF Suffix
<1>2. AnswerDue(t) => AnswerDue(s)
  BY <1>1 DEF AnswerDue
<1>3. NoCommand(s) => NoCommand(t)
  BY <1>1 DEF NoCommand
<1>4. ASSUME AllFramed(o, s), LastIsAsked(o, s, asked),
             NEW i \in 1 .. Len(t), t[i].name \in Commands \ Unanswered
      PROVE  /\ asked.cmd = t[i].name
             /\ \A j \in i + 1 .. Len(t) : t[j].name \notin Commands
             /\ \A k \in 1 .. Len(Announced(o, asked.cmd)) : t[i + k].v = asked.vals[k]
  <2>1. i + m \in 1 .. Len(s) /\ t[i] = s[i + m]
    BY <1>1
  <2> DEFINE l == i + m
  <2>2. /\ asked.cmd = s[l].name
        /\ \A j \in l + 1 .. Len(s) : s[j].name \notin Commands
        /\ \A k \in 1 .. Len(Announced(o, asked.cmd)) : s[l + k].v = asked.vals[k]
    BY <1>4, <2>1 DEF LastIsAsked
  <2>3. Framed(o, s, asked.cmd, l, PayloadAt(s, asked.cmd, l))
    BY <1>4, <2>1, <2>2 DEF AllFramed
  <2>4. ASSUME NEW j \in i + 1 .. Len(t) PROVE t[j].name \notin Commands
    <3>1. j \in 1 .. Len(t) /\ j + m \in l + 1 .. Len(s)
      BY <1>0, <1>1
    <3> QED
      BY <1>1, <2>2, <3>1
  <2>5. ASSUME NEW k \in 1 .. Len(Announced(o, asked.cmd)) PROVE t[i + k].v = asked.vals[k]
    <3>0. asked.cmd \in Commands
      BY <1>4, <2>1, <2>2
    <3>1. Len(Announced(o, asked.cmd)) \in Nat
      BY <3>0, AnnouncedType
    <3>2. l + k <= Len(s)
      BY <2>3, <3>1 DEF Framed
    <3>3. i + k \in 1 .. Len(t) /\ (i + k) + m = l + k
      BY <1>0, <3>1, <3>2 DEF Suffix
    <3>4. t[i + k] = s[l + k]
      BY <1>1, <3>3
    <3> QED
      BY <2>2, <3>4
  <2> QED
    BY <2>1, <2>2, <2>4, <2>5
<1>5. AllFramed(o, s) /\ LastIsAsked(o, s, asked) => LastIsAsked(o, t, asked)
  BY <1>4 DEF LastIsAsked
<1> QED
  BY <1>2, <1>3, <1>5

-----------------------------------------------------------------------------
(* What no step undoes *)

LEMMA Stable ==
    ASSUME Inv, PollInv, [Next]_vars
    PROVE  /\ UNCHANGED <<platform, old>>
           /\ straggler => straggler'
           /\ nonblocking => nonblocking'
           /\ peer # "open" => peer' # "open"
<1> USE DEF fixedVars, peerVars, errorVars, Settled
<1>0. straggler \in BOOLEAN /\ straggler' \in BOOLEAN
  <2>1. Inv'
    BY NextInv
  <2> QED
    BY <2>1 DEF Inv, TypeOK
<1>1. CASE UNCHANGED vars
  BY <1>1 DEF vars
<1>2. CASE SendField \/ TakeReply \/ Leave \/ \E c \in Commands : Begin(c)
  BY <1>2 DEF SendField, TakeReply, Leave, Begin
<1>3. CASE \/ RecvCommand \/ RecvCommandFails \/ RecvSkewed
           \/ RecvField \/ FieldSkewed \/ NoPayload \/ RecvPayload
  BY <1>3 DEF RecvCommand, RecvCommandFails, RecvSkewed, Skew, RecvField, FieldSkewed, NoPayload, RecvPayload
<1>4. CASE \/ HandleStateless \/ HandleName \/ HandleClose \/ HandleTables \/ HandleEntries
           \/ HandleRead \/ HandleWrite \/ HandleRegion \/ HandleQueryFull \/ HandleArchitecture
  BY <1>4 DEF HandleStateless, HandleName, HandleClose, HandleTables, HandleEntries, HandleRead,
              HandleWrite, HandleRegion, HandleQueryFull, HandleArchitecture, Handler
<1>5. CASE PollGot \/ PollGotPart
  <2>1. UNCHANGED <<platform, old, peer>> /\ nonblocking' = (platform = "windows")
    BY <1>5 DEF PollGot, PollGotPart
  <2>2. straggler => straggler'
    BY <1>5 DEF PollGot, PollGotPart
  <2> QED
    BY <2>1, <2>2 DEF PollInv
<1>6. CASE PollNothing
  <2>1. UNCHANGED <<platform, old, peer>> /\ nonblocking' = (platform = "windows")
    BY <1>6 DEF PollNothing
  <2>2. straggler => straggler'
    BY <1>6, <1>0 DEF PollNothing
  <2> QED
    BY <2>1, <2>2 DEF PollInv
<1> QED
  BY <1>1, <1>2, <1>3, <1>4, <1>5, <1>6 DEF Next, Server

LEMMA PollStep ==
    ASSUME Inv, PollInv, [Next]_vars
    PROVE  PollInv'
<1> USE DEF fixedVars, peerVars, errorVars, Settled, PollInv
<1>1. CASE UNCHANGED vars
  BY <1>1 DEF vars
<1>2. CASE SendField \/ TakeReply \/ Leave \/ \E c \in Commands : Begin(c)
  BY <1>2 DEF SendField, TakeReply, Leave, Begin
<1>3. CASE \/ RecvCommand \/ RecvCommandFails \/ RecvSkewed
           \/ RecvField \/ FieldSkewed \/ NoPayload \/ RecvPayload
  BY <1>3 DEF RecvCommand, RecvCommandFails, RecvSkewed, Skew, RecvField, FieldSkewed, NoPayload, RecvPayload
<1>4. CASE \/ HandleStateless \/ HandleName \/ HandleClose \/ HandleTables \/ HandleEntries
           \/ HandleRead \/ HandleWrite \/ HandleRegion \/ HandleQueryFull \/ HandleArchitecture
  <2>1. pc' \in {"recv", "closed", "hung"} /\ UNCHANGED <<platform, nonblocking>>
    BY <1>4 DEF HandleStateless, HandleName, HandleClose, HandleTables, HandleEntries, HandleRead,
                HandleWrite, HandleRegion, HandleQueryFull, HandleArchitecture, Handler, Answer, Refuse
  <2> QED
    BY <2>1
<1>5. CASE PollGot \/ PollGotPart
  BY <1>5 DEF PollGot, PollGotPart
<1>6. CASE PollNothing
  BY <1>6 DEF PollNothing
<1> QED
  BY <1>1, <1>2, <1>3, <1>4, <1>5, <1>6 DEF Next, Server


-----------------------------------------------------------------------------
(* The bytes of a write *)

\* As many bytes can be received as are there.
LEMMA BytesThereBound ==
    ASSUME Inv
    PROVE  BytesThere \in 0 .. Len(stream)
<1>0. stream \in Seq(Fields) /\ Len(stream) \in Nat /\ DOMAIN stream = 1 .. Len(stream)
  BY LenProperties DEF Inv, TypeOK
<1>1. CASE \A i \in DOMAIN stream : stream[i].name = "byte"
  BY <1>0, <1>1 DEF BytesThere
<1>2. CASE \E i \in DOMAIN stream : stream[i].name # "byte"
  <2> DEFINE S == {i \in Nat : i \in DOMAIN stream /\ stream[i].name # "byte"}
  <2>1. PICK m \in S : \A j \in S : m <= j
    <3>1. S \subseteq Nat /\ S # {}
      BY <1>0, <1>2
    <3> HIDE DEF S
    <3> QED
      BY <3>1, SmallestNat
  <2>2. /\ m \in DOMAIN stream /\ stream[m].name # "byte"
        /\ \A j \in 1 .. (m - 1) : stream[j].name = "byte"
    BY <1>0, <2>1
  <2>3. PICK i \in DOMAIN stream : BytesThere = i - 1
    BY <1>2, <2>2 DEF BytesThere
  <2> QED
    BY <1>0, <2>3
<1> QED
  BY <1>1, <1>2

\* The payload a handler waits for is what the size says.
LEMMA PayloadIsSize ==
    ASSUME Inv, HeaderRead, cmd \in Carries
    PROVE  /\ Payload = args[SizeIndex(cmd)] /\ Payload \in Nat
           /\ CurrentPayload(Coming, cmd, args) = Payload
<1>1. cmd \in Commands /\ pc = "fields" /\ Len(args) = Len(Header(cmd))
  BY DEF Inv, TypeOK, HeaderRead
<1>2. Payload = args[SizeIndex(cmd)] /\ SizeIndex(cmd) \in 1 .. Len(args)
  BY <1>1, SizeIndexFacts DEF Payload
<1>3. args[SizeIndex(cmd)] \in Nat
  BY <1>1, <1>2, GotFacts DEF Inv, ArgsInv
<1>4. SizeIndex(cmd) <= Len(args)
  BY <1>2 DEF Inv, ArgsInv
<1> QED
  BY <1>2, <1>3, <1>4 DEF CurrentPayload

\* Only receiving the payload leads to a handler, ...
LEMMA ToHandler ==
    ASSUME Inv, [Next]_vars, pc' = "act"
    PROVE  NoPayload \/ RecvPayload \/ UNCHANGED <<pc, cmd, args, received, nonblocking>>
<1> USE DEF fixedVars, peerVars, errorVars, Settled
<1>1. CASE UNCHANGED vars
  BY <1>1 DEF vars
<1>2. CASE SendField \/ TakeReply \/ Leave \/ \E c \in Commands : Begin(c)
  BY <1>2 DEF SendField, TakeReply, Leave, Begin
<1>3. CASE \/ RecvCommand \/ RecvCommandFails \/ RecvSkewed \/ RecvField \/ FieldSkewed
  BY <1>3 DEF RecvCommand, RecvCommandFails, RecvSkewed, Skew, RecvField, FieldSkewed
<1>4. CASE \/ HandleStateless \/ HandleName \/ HandleClose \/ HandleTables \/ HandleEntries
           \/ HandleRead \/ HandleWrite \/ HandleRegion \/ HandleQueryFull \/ HandleArchitecture
  BY <1>4 DEF HandleStateless, HandleName, HandleClose, HandleTables, HandleEntries, HandleRead,
              HandleWrite, HandleRegion, HandleQueryFull, HandleArchitecture, Handler, Answer, Refuse
<1>5. CASE PollGot \/ PollGotPart \/ PollNothing
  BY <1>5 DEF PollGot, PollGotPart, PollNothing
<1> QED
  BY <1>1, <1>2, <1>3, <1>4, <1>5 DEF Next, Server

LEMMA FilledStep ==
    ASSUME Inv, PollInv, FilledInv, [Next]_vars
    PROVE  FilledInv'
<1> SUFFICES ASSUME pc' = "act", cmd' = "write"
             PROVE  received' = args'[3] \/ peer' # "open" \/ nonblocking'
  BY DEF FilledInv
<1>1. CASE NoPayload
  BY <1>1, CommandFacts DEF NoPayload
<1>2. CASE RecvPayload
  <2>1. HeaderRead /\ cmd = "write" /\ UNCHANGED <<args, peer, nonblocking>>
    BY <1>2 DEF RecvPayload, Settled, peerVars, errorVars
  <2>2. Payload = args[3] /\ Payload \in Nat
    BY <2>1, CommandFacts, PayloadIsSize DEF SizeIndex
  <2>3. PICK n \in 0 .. Payload : received' = n /\ (n < Payload => nonblocking \/ peer # "open")
    BY <1>2 DEF RecvPayload, ShortRead
  <2>4. n = Payload \/ n < Payload
    BY <2>2
  <2> QED
    BY <2>1, <2>2, <2>3, <2>4
<1>3. CASE UNCHANGED <<pc, cmd, args, received, nonblocking>>
  <2>1. received = args[3] \/ peer # "open" \/ nonblocking
    BY <1>3 DEF FilledInv
  <2> QED
    BY <1>3, <2>1, Stable
<1> QED
  BY <1>1, <1>2, <1>3, ToHandler

\* ... and only the handler of CMD_WRITEPROCESSMEMORY passes a write on.
LEMMA ToDevice ==
    ASSUME [Next]_vars
    PROVE  HandleWrite \/ device' = device \/ device' = Absent
<1> USE DEF fixedVars, peerVars, errorVars, Settled
<1>1. CASE UNCHANGED vars
  BY <1>1 DEF vars
<1>2. CASE SendField \/ TakeReply \/ Leave \/ \E c \in Commands : Begin(c)
  BY <1>2 DEF SendField, TakeReply, Leave, Begin
<1>3. CASE \/ RecvCommand \/ RecvCommandFails \/ RecvSkewed
           \/ RecvField \/ FieldSkewed \/ NoPayload \/ RecvPayload
  BY <1>3 DEF RecvCommand, RecvCommandFails, RecvSkewed, Skew, RecvField, FieldSkewed, NoPayload, RecvPayload
<1>4. CASE \/ HandleStateless \/ HandleName \/ HandleClose \/ HandleTables \/ HandleEntries
           \/ HandleRead \/ HandleRegion \/ HandleQueryFull \/ HandleArchitecture
  BY <1>4 DEF HandleStateless, HandleName, HandleClose, HandleTables, HandleEntries, HandleRead,
              HandleRegion, HandleQueryFull, HandleArchitecture, Handler
<1>5. CASE PollGot \/ PollGotPart \/ PollNothing
  BY <1>5 DEF PollGot, PollGotPart, PollNothing
<1> QED
  BY <1>1, <1>2, <1>3, <1>4, <1>5 DEF Next, Server

LEMMA WriteStep ==
    ASSUME Inv, StepInv, [Next]_vars
    PROVE  WriteAsRequested'
<1>0. PollInv /\ FilledInv /\ SynchronyInv /\ WriteAsRequested
  BY DEF StepInv
<1>1. CASE device' = device \/ device' = Absent
  BY <1>0, <1>1, Stable DEF WriteAsRequested
<1>2. CASE HandleWrite /\ device' # device
  <2>1. /\ pc = "act" /\ cmd = "write" /\ UNCHANGED <<peer, nonblocking, straggler>>
        /\ device' = [address |-> args[2], size |-> args[3], filled |-> received, asked |-> req]
    BY <1>2 DEF HandleWrite, Handler, peerVars, errorVars
  <2>2. Len(args) = 3 /\ args[3] \in Nat
    <3>1. Header(cmd) = <<"handle", "address", "size">> /\ cmd \in Commands
      BY <2>1 DEF Header, Commands
    <3>2. Len(args) = 3
      BY <2>1, <3>1 DEF Inv, TypeOK
    <3>3. args[3] \in Got(Header(cmd)[3])
      BY <2>1, <3>2 DEF Inv, ArgsInv
    <3> QED
      BY <3>2, <3>3, GotFacts
  <2>3. received = args[3] \/ peer # "open" \/ nonblocking
    BY <1>0, <2>1 DEF FilledInv
  <2>4. ASSUME ~straggler, ~nonblocking, args[3] > 0
        PROVE  /\ req.cmd = "write" /\ req.vals[2] = args[2]
               /\ \/ args[3] = req.vals[3]
                  \/ args[3] < req.vals[3] /\ received = 0 /\ peer # "open"
    <3>1. RequestInv /\ cmd \notin Unanswered
      BY <1>0, <2>1, <2>4, CommandFacts DEF SynchronyInv, Synchronous
    <3>2. req.cmd = cmd /\ ReceivedAsked /\ NoneAfterCut
      BY <2>1, <3>1 DEF RequestInv, Handling
    <3>3. args[2] = req.vals[2] /\ (args[3] = req.vals[3] \/ (CutOff /\ args[3] < req.vals[3]))
      <4>1. 3 \in 1 .. Len(args) /\ args[3] # 0 /\ 2 \in 1 .. 3 - 1
        BY <2>2, <2>4
      <4> QED
        BY <3>2, <4>1 DEF ReceivedAsked
    <3> QED
      BY <2>1, <2>2, <2>4, <3>2, <3>3 DEF NoneAfterCut, CutOff
  <2>5. /\ device'.address = args[2] /\ device'.size = args[3]
        /\ device'.filled = received /\ device'.asked = req
    BY <2>1
  <2> QED
    BY <2>1, <2>3, <2>4, <2>5 DEF WriteAsRequested
<1> QED
  BY <1>1, <1>2, ToDevice


-----------------------------------------------------------------------------
(* Step is not lost *)

\* In step, what the server expects comes first.
LEMMA NextExpected ==
    ASSUME Inv, PollInv, Synchronous, ~CutOff, Coming # <<>>
    PROVE  /\ pc = "recv" => Coming[1].name \in Commands
           /\ pc = "fields" /\ Len(args) < Len(Header(cmd)) => Coming[1].name = Missing
<1>1. ASSUME pc = "recv" PROVE Coming[1].name \in Commands
  BY <1>1 DEF Synchronous, FramesInv
<1>2. ASSUME pc = "fields", Len(args) < Len(Header(cmd)) PROVE Coming[1].name = Missing
  <2> DEFINE k == Len(args) + 1
  <2>1. Framed(old, Coming, cmd, -Len(args), CurrentPayload(Coming, cmd, args))
    BY <1>2 DEF Synchronous, FramesInv
  <2>2. cmd \in Commands /\ cmd # "architecture" /\ Len(args) \in Nat
    BY <1>2 DEF Inv, TypeOK, ArgsInv, PollInv
  <2>3. Announced(old, cmd) = Header(cmd) /\ Len(Header(cmd)) \in Nat
    BY <2>2, AnnouncedIsHeader, HeaderType
  <2>4. k \in 1 .. Len(Header(cmd)) /\ -Len(args) + k = 1
    BY <1>2, <2>2, <2>3
  <2> HIDE DEF k
  <2>5. Coming[-Len(args) + k].name = Header(cmd)[k]
    BY <2>1, <2>3, <2>4 DEF Framed
  <2> QED
    BY <2>4, <2>5 DEF Missing, k
<1> QED
  BY <1>1, <1>2

LEMMA NothingSkewed ==
    ASSUME Inv, PollInv, Synchronous, RecvSkewed \/ FieldSkewed
    PROVE  FALSE
<1>1. CASE stream # <<>>
  <2>1. Coming # <<>> /\ Coming[1] = Head(stream) /\ ~CutOff
    BY <1>1, HeadComing DEF CutOff
  <2> QED
    BY <1>1, <2>1, NextExpected DEF RecvSkewed, FieldSkewed, Skew, NextIs, AtCut
<1>2. CASE AtCut
  <2>1. Coming # <<>> /\ Coming[1] = Head(rest) /\ ~CutOff
    BY <1>2, HeadCut
  <2> QED
    BY <1>2, <2>1, NextExpected DEF RecvSkewed, FieldSkewed, Skew, CutIs, AtCut
<1> QED
  BY <1>1, <1>2 DEF RecvSkewed, FieldSkewed, Skew

LEMMA ToSkewed ==
    ASSUME [Next]_vars, pc' = "skewed"
    PROVE  RecvSkewed \/ FieldSkewed \/ pc = "skewed"
<1> USE DEF fixedVars, peerVars, errorVars, Settled
<1>1. CASE UNCHANGED vars
  BY <1>1 DEF vars
<1>2. CASE SendField \/ TakeReply \/ Leave \/ \E c \in Commands : Begin(c)
  BY <1>2 DEF SendField, TakeReply, Leave, Begin
<1>3. CASE RecvCommand \/ RecvCommandFails \/ RecvField \/ NoPayload \/ RecvPayload
  BY <1>3 DEF RecvCommand, RecvCommandFails, RecvField, NoPayload, RecvPayload
<1>4. CASE \/ HandleStateless \/ HandleName \/ HandleClose \/ HandleTables \/ HandleEntries
           \/ HandleRead \/ HandleWrite \/ HandleRegion \/ HandleQueryFull \/ HandleArchitecture
  BY <1>4 DEF HandleStateless, HandleName, HandleClose, HandleTables, HandleEntries, HandleRead,
              HandleWrite, HandleRegion, HandleQueryFull, HandleArchitecture, Handler, Answer, Refuse
<1>5. CASE PollGot \/ PollGotPart \/ PollNothing
  BY <1>5 DEF PollGot, PollGotPart, PollNothing
<1> QED
  BY <1>1, <1>2, <1>3, <1>4, <1>5 DEF Next, Server

LEMMA InStepStep ==
    ASSUME Inv, StepInv, [Next]_vars
    PROVE  InStep'
<1>0. PollInv /\ SynchronyInv /\ InStep
  BY DEF StepInv
<1> SUFFICES ASSUME pc' = "skewed", ~straggler', ~nonblocking' PROVE FALSE
  BY DEF InStep
<1>1. ~straggler /\ ~nonblocking /\ Synchronous
  BY <1>0, Stable DEF SynchronyInv
<1>2. CASE RecvSkewed \/ FieldSkewed
  BY <1>0, <1>1, <1>2, NothingSkewed
<1>3. CASE pc = "skewed"
  BY <1>0, <1>1, <1>3 DEF InStep
<1> QED
  BY <1>2, <1>3, ToSkewed

-----------------------------------------------------------------------------
(* Every step keeps server and peer synchronous *)

\* The peer sends a field, ...
LEMMA SynchronousSend ==
    ASSUME Inv, Synchronous, SendField
    PROVE  Synchronous'
<1>1. Coming' = Coming
  BY SendComing
<1>2. /\ UNCHANGED <<old, req, awaiting, peer, pc, cmd, args, received, reply>>
      /\ peer = "open"
  BY DEF SendField, fixedVars
<1>3. RequestInv'
  BY <1>2, ReceivedStays DEF Synchronous, RequestInv, Handling, NoneAfterCut, CutOff
<1>4. ASSUME pc # "closed" PROVE (FramesInv /\ OrderInv)'
  <2>1. FramesInv /\ OrderInv
    BY <1>2, <1>4 DEF Synchronous, CutOff
  <2> HIDE DEF Coming
  <2>2. FramesInv'
    BY <1>1, <1>2, <2>1 DEF FramesInv
  <2>3. OrderInv'
    BY <1>1, <1>2, <2>1 DEF OrderInv, Handling
  <2> QED
    BY <2>2, <2>3
<1> QED
  BY <1>2, <1>3, <1>4 DEF Synchronous

\* ... takes a reply, ...
LEMMA SynchronousTake ==
    ASSUME Inv, Synchronous, TakeReply
    PROVE  Synchronous'
<1>1. /\ UNCHANGED <<old, req, rest, stream, cut, peer, pc, cmd, args>>
      /\ peer = "open" /\ reply # NoReply /\ reply' = NoReply /\ awaiting' = FALSE
  BY DEF TakeReply, Complete, fixedVars
<1>2. Coming' = Coming
  BY <1>1 DEF Coming
<1>3. ~(Handling /\ cmd \notin Unanswered)
  BY <1>1 DEF Synchronous, RequestInv
<1>4. RequestInv'
  BY <1>1, <1>3 DEF RequestInv, Handling
<1>5. ASSUME pc # "closed" PROVE (FramesInv /\ OrderInv)'
  <2>1. FramesInv /\ OrderInv
    BY <1>1, <1>5 DEF Synchronous, CutOff
  <2>2. FramesInv'
    BY <1>1, <1>2, <2>1 DEF FramesInv
  <2>3. ~AnswerDue(Coming)
    BY <1>1, <2>1 DEF OrderInv
  <2>4. OrderInv'
    BY <1>1, <1>2, <1>3, <2>1, <2>3 DEF OrderInv, Handling
  <2> QED
    BY <2>2, <2>4
<1> QED
  BY <1>1, <1>4, <1>5 DEF Synchronous

\* ... leaves, ...
LEMMA SynchronousLeave ==
    ASSUME Inv, Synchronous, Leave
    PROVE  Synchronous'
<1>1. /\ UNCHANGED <<old, req, rest, awaiting, pc, cmd, args, received, reply>>
      /\ peer = "open" /\ peer' # "open"
      /\ stream' = stream \/ (stream' = <<>> /\ cut' = Absent)
  BY DEF Leave, fixedVars
<1>2. RequestInv'
  BY <1>1, ReceivedStays DEF Synchronous, RequestInv, Handling, NoneAfterCut, CutOff
<1>3. ASSUME ~CutOff', pc # "closed" PROVE (FramesInv /\ OrderInv)'
  <2>1. FramesInv /\ OrderInv
    BY <1>1, <1>3 DEF Synchronous, CutOff
  <2>2. Coming' = Coming
    BY <1>1, <1>3 DEF CutOff, Coming
  <2> QED
    BY <1>1, <2>1, <2>2 DEF FramesInv, OrderInv, Handling
<1> QED
  BY <1>1, <1>2, <1>3 DEF Synchronous


LEMMA CurrentPayloadType ==
    ASSUME Inv, pc = "fields", cmd # "architecture", NEW n, Framed(old, Coming, cmd, -Len(args), n)
    PROVE  /\ CurrentPayload(Coming, cmd, args) \in Nat
           /\ cmd \in Carries /\ ~(SizeIndex(cmd) <= Len(args)) =>
                 SizeIndex(cmd) - Len(args) \in 1 .. Len(Coming)
<1>1. /\ cmd \in Commands /\ Len(args) \in Nat /\ Len(args) <= Len(Header(cmd))
      /\ \A i \in 1 .. Len(args) : args[i] \in Got(Header(cmd)[i])
  BY DEF Inv, TypeOK, ArgsInv
<1>2. Coming \in Seq(Fields) /\ Len(Coming) \in Nat
  BY ComingType
<1>3. CASE cmd \in Carries /\ SizeIndex(cmd) <= Len(args)
  <2>1. SizeIndex(cmd) \in 1 .. Len(args)
    BY <1>1, <1>3 DEF SizeIndex
  <2> QED
    BY <1>1, <1>3, <2>1, GotFacts DEF CurrentPayload
<1>4. CASE cmd \in Carries /\ ~(SizeIndex(cmd) <= Len(args))
  <2>1. SizeIndex(cmd) \in 1 .. Len(Announced(old, cmd)) /\ Len(Announced(old, cmd)) \in Nat
    BY <1>1, <1>4, SizeIndexFacts, AnnouncedType
  <2>2. /\ -Len(args) + SizeIndex(cmd) >= 1
        /\ -Len(args) + SizeIndex(cmd) = SizeIndex(cmd) - Len(args)
    BY <1>1, <1>4, <2>1
  <2>3. -Len(args) + SizeIndex(cmd) <= Len(Coming)
    BY <2>1, <2>2 DEF Framed
  <2>4. SizeIndex(cmd) - Len(args) \in 1 .. Len(Coming)
    BY <1>1, <1>2, <2>1, <2>2, <2>3
  <2> QED
    BY <1>2, <1>4, <2>4, FieldFacts DEF CurrentPayload
<1>5. CASE cmd \notin Carries
  BY <1>5 DEF CurrentPayload
<1> QED
  BY <1>3, <1>4, <1>5

\* ... or begins a request.
LEMMA SynchronousBegin ==
    ASSUME Inv, Inv', PollInv, Synchronous, NEW c \in Commands, Begin(c)
    PROVE  Synchronous'
<1>0. /\ UNCHANGED <<old, stream, peer, pc, cmd, args, reply>>
      /\ peer = "open" /\ rest = <<>> /\ awaiting = FALSE /\ awaiting' = (c \notin Unanswered)
  BY DEF Begin, Inv, TypeOK, fixedVars
<1>1. PICK vals : /\ \A i \in DOMAIN Protocol[c] : vals[i] \in Values(Protocol[c][i])
                  /\ req' = [cmd |-> c, vals |-> vals] /\ rest' = Wire(c, vals)
  BY DEF Begin
<1> DEFINE s == Coming
           t == Coming'
           w == rest'
           h == Len(Announced(old, c))
<1>2. /\ w \in Seq(Fields) /\ Len(w) \in Nat /\ Len(w) >= 1 /\ w[1].name = c
      /\ Framed(old, w, c, 1, SizeIn(c, vals)) /\ PayloadAt(w, c, 1) = SizeIn(c, vals)
      /\ \A j \in 2 .. Len(w) : w[j].name \notin Commands
      /\ \A k \in 1 .. h : 1 + k <= Len(w) /\ w[1 + k].v = vals[k]
  BY <1>1, WireFramed
<1>3. s = stream /\ s \in Seq(Fields) /\ Len(s) \in Nat
  <2>1. stream \in Seq(Fields)
    BY DEF Inv, TypeOK
  <2>2. stream \o <<>> = stream
    BY <2>1, ConcatEmptySeq
  <2> QED
    BY <1>0, <2>1, <2>2, LenProperties DEF Coming
<1>4. /\ t \in Seq(Fields) /\ Len(t) = Len(s) + Len(w) /\ Len(t) \in Nat
      /\ \A j \in 1 .. Len(s) : t[j] = s[j]
      /\ \A j \in 1 .. Len(w) : t[Len(s) + j] = w[j]
  <2>1. /\ t \in Seq(Fields) /\ Len(t) = Len(stream') + Len(w) /\ Len(t) \in Nat
        /\ \A j \in 1 .. Len(stream') : t[j] = stream'[j]
        /\ \A j \in 1 .. Len(w) : t[Len(stream') + j] = w[j]
    BY ComingTypeNext
  <2>2. stream' = s
    BY <1>0, <1>3
  <2> HIDE DEF s, t, w
  <2> QED
    BY <2>1, <2>2
<1>5. ~(Handling /\ cmd \notin Unanswered) /\ reply = NoReply
  BY <1>0 DEF Synchronous, RequestInv
<1>6. RequestInv'
  BY <1>0, <1>5 DEF RequestInv, Handling
<1>7. ASSUME pc # "closed" PROVE (FramesInv /\ OrderInv)'
  <2>1. FramesInv /\ OrderInv
    BY <1>0, <1>7 DEF Synchronous, CutOff
  <2>2. AllFramed(old, s) /\ ~AnswerDue(s)
    BY <1>0, <2>1 DEF FramesInv, OrderInv
  <2>a. pc \in {"recv", "act", "polled"} /\ s # <<>> => s[1].name \in Commands
    BY <2>1 DEF FramesInv
  <2>b. pc = "fields" => Framed(old, s, cmd, -Len(args), CurrentPayload(s, cmd, args))
    BY <2>1 DEF FramesInv
  <2>c. pc = "poll" => Framed(old, s, cmd, 0, 0)
    BY <2>1 DEF FramesInv
  <2>d. pc = "fields" => /\ CurrentPayload(s, cmd, args) \in Nat
                         /\ cmd \in Carries /\ ~(SizeIndex(cmd) <= Len(args)) =>
                               SizeIndex(cmd) - Len(args) \in 1 .. Len(s)
    BY <2>b, CurrentPayloadType DEF PollInv
  <2>e. cmd \in Commands /\ Len(args) \in Nat /\ old' = old
    BY <1>0 DEF Inv, TypeOK, ArgsInv
  <2> HIDE DEF s, t, w
  <2>3. t[Len(s) + 1] = w[1] /\ t[Len(s) + 1].name = c
    <3>1. 1 \in 1 .. Len(w)
      BY <1>2
    <3> QED
      BY <1>2, <1>4, <3>1
  <2>4. Extends(s, t)
    BY <1>2, <1>3, <1>4, <2>3 DEF Extends
  <2>5. \A i \in 1 .. Len(t) : i \in 1 .. Len(s) \/ i = Len(s) + 1 \/ t[i].name \notin Commands
    <3> TAKE i \in 1 .. Len(t)
    <3>1. CASE i > Len(s) + 1
      <4>1. PICK j \in 2 .. Len(w) : i = Len(s) + j
        <5>1. i - Len(s) \in 2 .. Len(w) /\ i = Len(s) + (i - Len(s))
          BY <1>2, <1>3, <1>4, <3>1
        <5> QED
          BY <5>1
      <4>2. j \in 1 .. Len(w)
        BY <1>2
      <4> QED
        BY <1>2, <1>4, <4>1, <4>2
    <3> QED
      BY <1>3, <3>1
  <2>6. \A k \in 1 .. h : t[Len(s) + 1 + k] = w[1 + k]
    <3> TAKE k \in 1 .. h
    <3>1. h \in Nat
      BY AnnouncedType
    <3>2. PICK j \in 1 .. Len(w) : j = 1 + k /\ Len(s) + j = Len(s) + 1 + k
      BY <1>2, <1>3, <3>1
    <3> QED
      BY <1>4, <3>2
  <2>7. PayloadAt(t, c, Len(s) + 1) = PayloadAt(w, c, 1) /\ SizeIn(c, vals) \in Nat
    <3>1. c \in Carries => SizeIndex(c) \in 1 .. h
      BY SizeIndexFacts
    <3>2. 1 \in 1 .. Len(w)
      BY <1>2
    <3>3. PayloadAt(w, c, 1) \in Nat
      BY <1>2, <3>2, PayloadType
    <3> QED
      BY <1>2, <2>6, <3>1, <3>3 DEF PayloadAt
  <2>8. AllFramed(old, t)
    <3> SUFFICES ASSUME NEW i \in 1 .. Len(t), t[i].name \in Commands
                 PROVE  Framed(old, t, t[i].name, i, PayloadAt(t, t[i].name, i))
      BY DEF AllFramed
    <3>1. CASE i \in 1 .. Len(s)
      BY <1>3, <1>4, <2>2, <2>4, <3>1, AllFramedExtended
    <3>2. CASE i = Len(s) + 1
      <4>1. Framed(old, t, c, Len(s) + 1, SizeIn(c, vals))
        BY <1>2, <1>3, <1>4, <2>7, FrameBehind
      <4> QED
        BY <1>2, <2>3, <2>7, <3>2, <4>1
    <3> QED
      BY <2>5, <3>1, <3>2
  <2>9. pc \in {"recv", "act", "polled"} => t[1].name \in Commands
    <3>1. CASE s = <<>>
      <4>1. Len(s) + 1 = 1
        BY <3>1
      <4> QED
        BY <2>3, <4>1
    <3>2. CASE s # <<>>
      <4>1. 1 \in 1 .. Len(s)
        BY <1>3, <3>2, EmptySeq
      <4> QED
        BY <1>4, <2>a, <3>2, <4>1
    <3> QED
      BY <3>1, <3>2
  <2>10. ASSUME pc = "fields" PROVE Framed(old, t, cmd, -Len(args), CurrentPayload(t, cmd, args))
    <3>1. CurrentPayload(t, cmd, args) = CurrentPayload(s, cmd, args)
      BY <1>4, <2>d, <2>10 DEF CurrentPayload
    <3>2. -Len(args) \in Int /\ -Len(args) <= Len(s)
      BY <1>3, <2>e
    <3> QED
      BY <1>3, <1>4, <2>4, <2>b, <2>d, <2>e, <2>10, <3>1, <3>2, FrameExtended
  <2>11. ASSUME pc = "poll" PROVE Framed(old, t, cmd, 0, 0)
    BY <1>3, <1>4, <2>4, <2>c, <2>e, <2>11, FrameExtended
  <2>12. FramesInv'
    BY <1>0, <2>8, <2>9, <2>10, <2>11 DEF FramesInv, t
  <2>13. AnswerDue(t) => c \notin Unanswered
    BY <1>4, <2>2, <2>3, <2>5 DEF AnswerDue
  <2>14. LastIsAsked(old, t, req')
    <3> SUFFICES ASSUME NEW i \in 1 .. Len(t), t[i].name \in Commands \ Unanswered
                 PROVE  /\ req'.cmd = t[i].name
                        /\ \A j \in i + 1 .. Len(t) : t[j].name \notin Commands
                        /\ \A k \in 1 .. Len(Announced(old, req'.cmd)) : t[i + k].v = req'.vals[k]
      BY DEF LastIsAsked
    <3>1. i = Len(s) + 1
      BY <1>4, <2>2, <2>5 DEF AnswerDue
    <3>2. req'.cmd = c /\ req'.vals = vals
      BY <1>1
    <3>3. ASSUME NEW j \in i + 1 .. Len(t) PROVE t[j].name \notin Commands
      <4>1. j \in 1 .. Len(t) /\ ~(j \in 1 .. Len(s)) /\ j # Len(s) + 1
        BY <1>3, <1>4, <3>1
      <4> QED
        BY <2>5, <4>1
    <3>4. ASSUME NEW k \in 1 .. h PROVE t[i + k].v = vals[k]
      BY <1>2, <2>6, <3>1
    <3> QED
      BY <2>3, <3>1, <3>2, <3>3, <3>4
  <2>15. OrderInv'
    BY <1>0, <1>5, <2>13, <2>14 DEF OrderInv, Handling, t
  <2> QED
    BY <2>12, <2>15
<1> QED
  BY <1>0, <1>6, <1>7 DEF Synchronous


\* The server receives a command, ...
LEMMA SynchronousCommand ==
    ASSUME Inv, Inv', PollInv, Synchronous, RecvCommand
    PROVE  Synchronous'
<1>0. /\ UNCHANGED <<old, req, rest, awaiting, peer, reply>>
      /\ pc = "recv" /\ stream # <<>> /\ stream' = Tail(stream)
      /\ cmd' = Head(stream).name /\ cmd' \in Commands /\ args' = <<>>
      /\ pc' = (IF cmd' = "architecture" THEN "poll" ELSE "fields")
  BY DEF RecvCommand, NextIs, Settled, fixedVars, peerVars
<1> DEFINE s == Coming
           t == Coming'
           c == cmd'
           n == PayloadAt(s, c, 1)
<1>1. FramesInv /\ OrderInv
  BY <1>0 DEF Synchronous, CutOff
<1>2. Suffix(s, 1, t) /\ 1 \in 1 .. Len(s) /\ s[1].name = c
  BY <1>0, TailComing, HeadComing
<1>3. /\ s \in Seq(Fields) /\ t \in Seq(Fields) /\ Len(s) \in Nat /\ Len(t) \in Nat
      /\ c \in Commands /\ Len(args') = 0
  BY <1>0, ComingType, ComingTypeNext
<1>4. AllFramed(old, s) /\ LastIsAsked(old, s, req) /\ (AnswerDue(s) => awaiting /\ reply = NoReply)
  BY <1>1 DEF FramesInv, OrderInv
<1>5. Framed(old, s, c, 1, n)
  BY <1>2, <1>3, <1>4 DEF AllFramed
<1>6. n \in Nat /\ (c \in Carries => 1 + SizeIndex(c) \in 1 .. Len(s))
  BY <1>2, <1>3, <1>5, PayloadType
<1> HIDE DEF s, t, c
<1>7. Framed(old, t, c, 0, n)
  <2>1. 1 \in Nat /\ 1 \in Int /\ 1 - 1 = 0
    OBVIOUS
  <2>2. Framed(old, t, c, 1 - 1, n)
    <3> HIDE DEF n
    <3> QED
      BY <1>2, <1>3, <1>5, <1>6, <2>1, FrameInSuffix
  <2> QED
    BY <2>1, <2>2
<1>8. AllFramed(old, t) /\ LastIsAsked(old, t, req) /\ (AnswerDue(t) => AnswerDue(s))
  <2>1. 1 \in Nat
    OBVIOUS
  <2> QED
    BY <1>2, <1>3, <1>4, <2>1, AllFramedSuffix, OrderInSuffix
<1>9. CurrentPayload(t, c, <<>>) = n
  <2>1. ASSUME c \in Carries PROVE t[SizeIndex(c)] = s[1 + SizeIndex(c)]
    <3>1. SizeIndex(c) \in 1 .. Len(t) /\ SizeIndex(c) + 1 = 1 + SizeIndex(c)
      BY <1>2, <1>3, <1>6, <2>1 DEF Suffix, SizeIndex
    <3> QED
      BY <3>1, <1>2 DEF Suffix
  <2>2. ~(SizeIndex(c) <= Len(<<>>)) /\ SizeIndex(c) - Len(<<>>) = SizeIndex(c)
    BY DEF SizeIndex
  <2> QED
    BY <2>1, <2>2 DEF CurrentPayload, PayloadAt
<1>10. c = "architecture" => n = 0
  BY CommandFacts DEF PayloadAt
<1>11. ASSUME c \notin Unanswered
       PROVE  /\ awaiting /\ reply = NoReply /\ req.cmd = c /\ NoCommand(t)
              /\ \A k \in 1 .. Len(Announced(old, c)) : s[1 + k].v = req.vals[k]
  <2>1. s[1].name \in Commands \ Unanswered /\ AnswerDue(s)
    BY <1>2, <1>3, <1>11 DEF AnswerDue
  <2>2. /\ req.cmd = c
        /\ \A j \in 1 + 1 .. Len(s) : s[j].name \notin Commands
        /\ \A k \in 1 .. Len(Announced(old, req.cmd)) : s[1 + k].v = req.vals[k]
    BY <1>2, <1>4, <2>1 DEF LastIsAsked
  <2>3. NoCommand(t)
    <3> SUFFICES ASSUME NEW j \in 1 .. Len(t) PROVE t[j].name \notin Commands
      BY DEF NoCommand
    <3>1. j + 1 \in 1 + 1 .. Len(s) /\ t[j] = s[j + 1]
      BY <1>2, <1>3 DEF Suffix
    <3> QED
      BY <2>2, <3>1
  <2> QED
    BY <1>4, <2>1, <2>2, <2>3
<1>12. ASSUME c \notin Unanswered, pc' = "fields" PROVE FieldsAsked(t, c, <<>>, req)
  <2>1. c # "architecture" /\ Announced(old, c) = Header(c) /\ Len(Header(c)) \in Nat
    BY <1>0, <1>3, <1>12, AnnouncedIsHeader, HeaderType DEF c
  <2>2. ASSUME NEW k \in 1 .. Len(Header(c)) PROVE t[k].v = req.vals[k]
    <3>1. 1 + k <= Len(s) /\ s[1 + k].v = req.vals[k]
      BY <1>5, <1>11, <1>12, <2>1 DEF Framed
    <3>2. k \in 1 .. Len(t) /\ k + 1 = 1 + k
      BY <1>2, <1>3, <2>1, <3>1 DEF Suffix
    <3> QED
      BY <1>2, <3>1, <3>2 DEF Suffix
  <2>3. \A k \in Len(<<>>) + 1 .. Len(Header(c)) : k \in 1 .. Len(Header(c)) /\ k - Len(<<>>) = k
    BY <2>1
  <2>4. 1 .. Len(<<>>) = {}
    OBVIOUS
  <2> QED
    BY <2>2, <2>3, <2>4 DEF FieldsAsked
<1>13. -Len(args') = 0
  <2>1. \A z \in Int : -z = 0 - z
    OBVIOUS
  <2>2. Len(args') \in Int /\ 0 - Len(args') = 0
    BY <1>3
  <2> QED
    BY <2>1, <2>2
<1>14. FramesInv'
  BY <1>0, <1>7, <1>8, <1>9, <1>10, <1>13 DEF FramesInv, t, c
<1>15. OrderInv'
  BY <1>0, <1>4, <1>8, <1>11, <1>12 DEF OrderInv, Handling, t, c
<1>16. RequestInv'
  <2>1. ReceivedAsked'
    BY <1>3 DEF ReceivedAsked
  <2> QED
    BY <1>0, <1>11, <2>1 DEF Synchronous, RequestInv, Handling, c
<1> QED
  BY <1>14, <1>15, <1>16 DEF Synchronous

\* ... a field, ...
LEMMA SynchronousField ==
    ASSUME Inv, Inv', PollInv, Synchronous, ~nonblocking, RecvField
    PROVE  Synchronous'
<1>0. /\ UNCHANGED <<old, req, rest, awaiting, peer, reply, pc, cmd>>
      /\ pc = "fields" /\ Len(args) < Len(Header(cmd))
  BY DEF RecvField, Settled, fixedVars, peerVars
<1>1. /\ cmd \in Commands /\ cmd # "architecture" /\ args \in Seq(Int) /\ Len(args) \in Nat
      /\ Len(Header(cmd)) \in Nat /\ Announced(old, cmd) = Header(cmd)
  BY <1>0, HeaderType, AnnouncedIsHeader DEF Inv, TypeOK, ArgsInv, PollInv
<1> DEFINE l == Len(args)
<1>2. ASSUME NEW x \in Nat, args' = Append(args, x)
      PROVE  Len(args') = l + 1 /\ args'[l + 1] = x /\ \A j \in 1 .. l : args'[j] = args[j]
  BY <1>1, <1>2, AppendProperties
<1>3. CASE Ended /\ args' = Append(args, 0) /\ UNCHANGED <<stream, cut>>
  <2>1. CutOff /\ CutOff'
    BY <1>0, <1>3 DEF CutOff, Ended
  <2>2. Len(args') = l + 1 /\ args'[l + 1] = 0 /\ \A j \in 1 .. l : args'[j] = args[j]
    BY <1>2, <1>3
  <2>3. ReceivedAsked => ReceivedAsked'
    <3> SUFFICES ASSUME ReceivedAsked, NEW k \in 1 .. Len(args'), args'[k] # 0
                 PROVE  /\ \A j \in 1 .. k - 1 : args'[j] = req.vals[j]
                        /\ args'[k] = req.vals[k] \/ (CutOff' /\ args'[k] < req.vals[k])
      BY <1>0 DEF ReceivedAsked
    <3>1. k \in 1 .. l /\ \A j \in 1 .. k - 1 : j \in 1 .. l
      BY <1>1, <2>2
    <3> QED
      BY <2>1, <2>2, <3>1 DEF ReceivedAsked
  <2>4. RequestInv'
    BY <1>0, <2>3 DEF Synchronous, RequestInv, Handling
  <2> QED
    BY <2>1, <2>4 DEF Synchronous
<1>4. CASE NextIs({Missing}) /\ args' = Append(args, Head(stream).v) /\ stream' = Tail(stream)
  <2> DEFINE s == Coming
             t == Coming'
             x == Head(stream).v
             n == CurrentPayload(s, cmd, args)
  <2>1. stream # <<>> /\ FramesInv /\ OrderInv
    BY <1>0, <1>4 DEF NextIs, Synchronous, CutOff
  <2>2. Suffix(s, 1, t) /\ 1 \in 1 .. Len(s) /\ s[1].v = x
    BY <1>0, <1>4, <2>1, TailComing, HeadComing
  <2>3. s \in Seq(Fields) /\ t \in Seq(Fields) /\ Len(s) \in Nat /\ Len(t) \in Nat
    BY ComingType, ComingTypeNext
  <2>4. /\ AllFramed(old, s) /\ LastIsAsked(old, s, req) /\ (AnswerDue(s) => awaiting /\ reply = NoReply)
        /\ Framed(old, s, cmd, -l, n)
        /\ cmd \notin Unanswered => NoCommand(s) /\ FieldsAsked(s, cmd, args, req)
    BY <1>0, <2>1 DEF FramesInv, OrderInv, Handling
  <2>5. n \in Nat /\ (cmd \in Carries /\ ~(SizeIndex(cmd) <= l) => SizeIndex(cmd) - l \in 1 .. Len(s))
    BY <1>0, <1>1, <2>4, CurrentPayloadType
  <2>6. x \in Nat /\ Len(args') = l + 1 /\ args'[l + 1] = x /\ \A j \in 1 .. l : args'[j] = args[j]
    <3>1. x \in Nat
      BY <2>2, <2>3, FieldFacts
    <3> QED
      BY <1>2, <1>4, <3>1
  <2> HIDE DEF s, t, x
  <2>7. AllFramed(old, t) /\ LastIsAsked(old, t, req) /\ (AnswerDue(t) => AnswerDue(s))
        /\ (NoCommand(s) => NoCommand(t))
    <3>1. 1 \in Nat
      OBVIOUS
    <3> QED
      BY <2>2, <2>3, <2>4, <3>1, AllFramedSuffix, OrderInSuffix
  <2>8. Framed(old, t, cmd, -Len(args'), n)
    <3>1. -l \in Int /\ 1 \in Nat /\ -l - 1 = -Len(args')
      BY <1>1, <2>6
    <3> HIDE DEF n, l
    <3>2. Framed(old, t, cmd, -l - 1, n)
      BY <1>1, <2>2, <2>3, <2>4, <2>5, <3>1, FrameInSuffix
    <3> QED
      BY <3>1, <3>2
  <2>9. CurrentPayload(t, cmd, args') = n
    <3> DEFINE i == SizeIndex(cmd)
    <3>0. i \in Nat /\ i >= 1
      BY DEF SizeIndex
    <3>1. CASE cmd \in Carries /\ i <= l
      <4>1. i <= Len(args') /\ args'[i] = args[i]
        BY <1>1, <2>6, <3>0, <3>1
      <4> QED
        BY <3>1, <4>1 DEF CurrentPayload
    <3>2. CASE cmd \in Carries /\ i = l + 1
      <4>1. i <= Len(args') /\ args'[i] = x /\ ~(i <= l) /\ i - l = 1
        BY <1>1, <2>6, <3>2
      <4> QED
        BY <2>2, <3>2, <4>1 DEF CurrentPayload
    <3>3. CASE cmd \in Carries /\ i > l + 1
      <4>1. ~(i <= Len(args')) /\ ~(i <= l) /\ (i - Len(args')) + 1 = i - l
        BY <1>1, <2>6, <3>0, <3>3
      <4>2. i - l \in 1 .. Len(s)
        BY <2>5, <3>3, <4>1
      <4>3. i - Len(args') \in 1 .. Len(t)
        BY <1>1, <2>2, <2>3, <2>6, <3>0, <3>3, <4>2 DEF Suffix
      <4>4. t[i - Len(args')] = s[i - l]
        BY <2>2, <4>1, <4>3 DEF Suffix
      <4> QED
        BY <3>3, <4>1, <4>4 DEF CurrentPayload
    <3>4. CASE cmd \notin Carries
      BY <3>4 DEF CurrentPayload
    <3> QED
      BY <1>1, <3>0, <3>1, <3>2, <3>3, <3>4
  <2>10. FramesInv'
    BY <1>0, <2>7, <2>8, <2>9 DEF FramesInv, t
  <2>11. ASSUME cmd \notin Unanswered PROVE FieldsAsked(t, cmd, args', req)
    <3>1. /\ \A k \in 1 .. l : args[k] = req.vals[k]
          /\ \A k \in l + 1 .. Len(Header(cmd)) : s[k - l].v = req.vals[k]
      BY <2>4, <2>11 DEF FieldsAsked
    <3>2. x = req.vals[l + 1]
      <4>1. l + 1 \in l + 1 .. Len(Header(cmd)) /\ (l + 1) - l = 1
        BY <1>0, <1>1
      <4>2. s[(l + 1) - l].v = req.vals[l + 1]
        BY <3>1, <4>1
      <4> QED
        BY <2>2, <4>1, <4>2
    <3>3. ASSUME NEW k \in 1 .. Len(args') PROVE args'[k] = req.vals[k]
      <4>1. k \in 1 .. l \/ k = l + 1
        BY <1>1, <2>6
      <4> QED
        BY <2>6, <3>1, <3>2, <4>1
    <3>4. ASSUME NEW k \in Len(args') + 1 .. Len(Header(cmd)) PROVE t[k - Len(args')].v = req.vals[k]
      <4>0. k \in l + 1 .. Len(Header(cmd)) /\ -l + k >= 1 /\ k \in 1 .. Len(Header(cmd))
        BY <1>1, <2>6
      <4>1. -l + k <= Len(s)
        BY <1>1, <2>4, <4>0 DEF Framed
      <4>2. k - Len(args') \in 1 .. Len(t) /\ (k - Len(args')) + 1 = k - l
        BY <1>1, <2>2, <2>3, <2>6, <4>0, <4>1 DEF Suffix
      <4>3. t[k - Len(args')] = s[k - l]
        BY <2>2, <4>2 DEF Suffix
      <4> QED
        BY <3>1, <4>0, <4>3
    <3> QED
      BY <3>3, <3>4 DEF FieldsAsked
  <2>12. OrderInv'
    BY <1>0, <2>4, <2>7, <2>11 DEF OrderInv, Handling, t
  <2>13. cmd \notin Unanswered => ReceivedAsked'
    <3> SUFFICES ASSUME cmd \notin Unanswered, NEW k \in 1 .. Len(args')
                 PROVE  args'[k] = req.vals[k] /\ \A j \in 1 .. k - 1 : args'[j] = req.vals[j]
      BY <1>0 DEF ReceivedAsked
    <3>1. \A j \in 1 .. k - 1 : j \in 1 .. Len(args')
      BY <1>1, <2>6
    <3> QED
      BY <2>11, <3>1 DEF FieldsAsked
  <2>14. RequestInv'
    BY <1>0, <2>13 DEF Synchronous, RequestInv, Handling
  <2> QED
    BY <2>10, <2>12, <2>14 DEF Synchronous
<1>5. CASE CutIs({Missing}) /\ args' = Append(args, cut) /\ cut' = Absent /\ UNCHANGED stream
  <2>1. /\ 1 \in 1 .. Len(Coming) /\ ~CutOff /\ CutOff'
        /\ cut \in Nat /\ cut <= Coming[1].v /\ Coming[1].v \in Nat
    BY <1>0, <1>5, HeadCut DEF CutIs, AtCut, CutOff
  <2>2. Len(args') = l + 1 /\ args'[l + 1] = cut /\ \A j \in 1 .. l : args'[j] = args[j]
    BY <1>2, <1>5, <2>1
  <2>3. ASSUME cmd \notin Unanswered PROVE ReceivedAsked'
    <3>1. /\ \A k \in 1 .. l : args[k] = req.vals[k]
          /\ \A k \in l + 1 .. Len(Header(cmd)) : Coming[k - l].v = req.vals[k]
      BY <1>0, <2>1, <2>3 DEF Synchronous, OrderInv, FieldsAsked
    <3>2. l + 1 \in l + 1 .. Len(Header(cmd)) /\ (l + 1) - l = 1
      BY <1>0, <1>1
    <3>3. Coming[(l + 1) - l].v = req.vals[l + 1]
      BY <3>1, <3>2
    <3>4. args'[l + 1] = req.vals[l + 1] \/ args'[l + 1] < req.vals[l + 1]
      BY <2>1, <2>2, <3>2, <3>3
    <3> SUFFICES ASSUME NEW k \in 1 .. Len(args')
                 PROVE  /\ \A j \in 1 .. k - 1 : args'[j] = req.vals[j]
                        /\ args'[k] = req.vals[k] \/ args'[k] < req.vals[k]
      BY <1>0, <2>1 DEF ReceivedAsked
    <3>5. (k \in 1 .. l \/ k = l + 1) /\ \A j \in 1 .. k - 1 : j \in 1 .. l
      BY <1>1, <2>2
    <3> QED
      BY <2>2, <3>1, <3>4, <3>5
  <2>4. RequestInv'
    BY <1>0, <2>3 DEF Synchronous, RequestInv, Handling
  <2> QED
    BY <2>1, <2>4 DEF Synchronous
<1> QED
  BY <1>3, <1>4, <1>5 DEF RecvField, MayFail


\* ... has all fields, and no payload to receive, ...
LEMMA SynchronousNoPayload ==
    ASSUME Inv, Inv', PollInv, Synchronous, NoPayload
    PROVE  Synchronous'
<1>0. /\ UNCHANGED <<old, req, rest, stream, cut, awaiting, peer, reply, cmd, args>>
      /\ pc = "fields" /\ pc' = "act" /\ Len(args) = Len(Header(cmd)) /\ cmd \notin Carries
  BY DEF NoPayload, HeaderRead, Settled, fixedVars, peerVars
<1>1. Coming' = Coming
  BY <1>0 DEF Coming
<1>2. RequestInv'
  BY <1>0, CommandFacts, ReceivedStays DEF Synchronous, RequestInv, Handling, NoneAfterCut, CutOff
<1>3. ASSUME ~CutOff' PROVE (FramesInv /\ OrderInv)'
  <2>1. FramesInv /\ OrderInv
    BY <1>0, <1>3 DEF Synchronous, CutOff
  <2>2. /\ cmd \in Commands /\ cmd # "architecture" /\ Len(args) \in Nat
        /\ Announced(old, cmd) = Header(cmd) /\ CurrentPayload(Coming, cmd, args) = 0
    BY <1>0, AnnouncedIsHeader DEF Inv, TypeOK, ArgsInv, PollInv, CurrentPayload
  <2>3. Framed(old, Coming, cmd, -Len(args), 0)
    BY <1>0, <2>1, <2>2 DEF FramesInv
  <2>4. -Len(args) + Len(args) + 0 + 1 = 1
    BY <2>2
  <2>5. 1 \in 1 .. Len(Coming) => Coming[1].name \in Commands
    BY <1>0, <2>2, <2>3, <2>4 DEF Framed
  <2>6. Coming # <<>> => 1 \in 1 .. Len(Coming)
    BY ComingType, EmptySeq
  <2>7. FramesInv'
    BY <1>0, <1>1, <2>1, <2>5, <2>6 DEF FramesInv
  <2>8. OrderInv'
    BY <1>0, <1>1, <2>1 DEF OrderInv, Handling
  <2> QED
    BY <2>7, <2>8
<1> QED
  BY <1>2, <1>3 DEF Synchronous

\* ... or receives the payload, ...
LEMMA SynchronousPayload ==
    ASSUME Inv, Inv', PollInv, Synchronous, ~nonblocking, RecvPayload
    PROVE  Synchronous'
<1>0. /\ UNCHANGED <<old, req, rest, cut, awaiting, peer, reply, cmd, args>>
      /\ pc = "fields" /\ pc' = "act" /\ HeaderRead /\ Len(args) = Len(Header(cmd)) /\ cmd \in Carries
  BY DEF RecvPayload, HeaderRead, Settled, fixedVars, peerVars
<1>1. PICK n \in 0 .. Payload : /\ n <= BytesThere
                                /\ n < Payload => peer # "open" /\ n = Len(stream)
                                /\ stream' = SubSeq(stream, n + 1, Len(stream)) /\ received' = n
  BY DEF RecvPayload, ShortRead
<1>2. Payload \in Nat /\ CurrentPayload(Coming, cmd, args) = Payload
  BY <1>0, PayloadIsSize
<1>3. stream \in Seq(Fields) /\ Len(stream) \in Nat /\ n \in 0 .. Len(stream)
  <2>1. stream \in Seq(Fields) /\ Len(stream) \in Nat
    BY LenProperties DEF Inv, TypeOK
  <2> QED
    BY <1>1, <1>2, <2>1, BytesThereBound
<1>4. Len(stream') = Len(stream) - n /\ \A j \in 1 .. Len(stream') : stream'[j] = stream[j + n]
  <2>1. \A i \in n + 1 .. Len(stream) : stream[i] \in Fields
    BY <1>3, ElementOfSeq
  <2>2. /\ Len(stream') = IF n + 1 <= Len(stream) THEN Len(stream) - (n + 1) + 1 ELSE 0
        /\ \A i \in 1 .. Len(stream) - (n + 1) + 1 : stream'[i] = stream[(n + 1) + i - 1]
    BY <1>1, <1>3, <2>1, SubSeqProperties
  <2>3. Len(stream') = Len(stream) - n
    BY <1>3, <2>2
  <2>4. ASSUME NEW j \in 1 .. Len(stream') PROVE stream'[j] = stream[j + n]
    <3>1. j \in 1 .. Len(stream) - (n + 1) + 1 /\ (n + 1) + j - 1 = j + n
      BY <1>3, <2>3
    <3> QED
      BY <2>2, <3>1
  <2> QED
    BY <2>3, <2>4
<1>5. CutOff => n = 0 /\ CutOff'
  <2>1. stream = <<>> => n = 0 /\ Len(stream') = 0
    BY <1>3, <1>4
  <2>2. Len(stream') = 0 => stream' = <<>>
    BY EmptySeq DEF Inv, TypeOK
  <2> QED
    BY <1>0, <2>1, <2>2 DEF CutOff
<1>6. RequestInv'
  <2>1. ASSUME cmd \notin Unanswered PROVE ReceivedAsked /\ ReceivedAsked'
    BY <1>0, <1>5, <2>1, ReceivedStays DEF Synchronous, RequestInv
  <2>2. ASSUME cmd = "write", cmd \notin Unanswered, args[3] # 0, args[3] # req.vals[3] PROVE n = 0
    <3>1. Len(args) = 3
      BY <1>0, <2>2 DEF Header
    <3>2. CutOff
      BY <2>1, <2>2, <3>1 DEF ReceivedAsked
    <3> QED
      BY <1>5, <3>2
  <2> QED
    BY <1>0, <1>1, <2>1, <2>2 DEF Synchronous, RequestInv, Handling, NoneAfterCut
<1>7. ASSUME ~CutOff' PROVE (FramesInv /\ OrderInv)'
  <2>2. ~CutOff /\ FramesInv /\ OrderInv
    BY <1>0, <1>7, <1>5 DEF Synchronous
  <2>3. n = Payload
    <3> SUFFICES ASSUME n < Payload PROVE FALSE
      BY <1>1, <1>2
    <3>1. n = Len(stream) /\ peer # "open" /\ Len(stream') = 0
      BY <1>1, <1>3, <1>4
    <3>2. stream' = <<>>
      BY <3>1, EmptySeq DEF Inv, TypeOK
    <3>3. cut # Absent
      BY <1>0, <1>7, <3>1, <3>2 DEF CutOff
    <3>4. rest \in Seq(Fields) /\ rest # <<>> /\ Head(rest).name # "byte"
      BY <3>3 DEF Inv, TypeOK, CutInv
    <3>5. 1 \in 1 .. Len(rest) /\ Head(rest) = rest[1]
      BY <3>4, LenProperties, EmptySeq, HeadTailProperties
    <3>6. Coming[n + 1] = Head(rest)
      BY <3>1, <3>5, ComingType
    <3>7. /\ cmd \in Commands /\ cmd # "architecture" /\ Len(args) \in Nat
          /\ Announced(old, cmd) = Header(cmd)
      BY <1>0, AnnouncedIsHeader DEF Inv, TypeOK, ArgsInv, PollInv
    <3>8. Framed(old, Coming, cmd, -Len(args), Payload)
      BY <1>0, <1>2, <2>2 DEF FramesInv
    <3>9. n + 1 \in 1 .. Payload /\ -Len(args) + Len(args) + (n + 1) = n + 1 /\ n + 1 >= 1
      BY <1>1, <1>2, <3>7
    <3>10. Coming[-Len(args) + Len(args) + (n + 1)].name = "byte"
      BY <1>0, <3>7, <3>8, <3>9 DEF Framed
    <3> QED
      BY <3>4, <3>6, <3>9, <3>10
  <2> DEFINE s == Coming
             t == Coming'
  <2>4. Suffix(s, n, t)
    BY <1>0, <1>3, <1>4, DropComing
  <2>5. s \in Seq(Fields) /\ t \in Seq(Fields) /\ Len(s) \in Nat /\ Len(t) \in Nat /\ n \in Nat
    BY <1>3, ComingType, ComingTypeNext
  <2>6. /\ cmd \in Commands /\ cmd # "architecture" /\ Len(args) \in Nat
        /\ Announced(old, cmd) = Header(cmd)
    BY <1>0, AnnouncedIsHeader DEF Inv, TypeOK, ArgsInv, PollInv
  <2>7. Framed(old, s, cmd, -Len(args), n)
    BY <1>0, <1>2, <2>3, <2>2 DEF FramesInv
  <2>8. /\ AllFramed(old, s) /\ LastIsAsked(old, s, req) /\ (AnswerDue(s) => awaiting /\ reply = NoReply)
        /\ cmd \notin Unanswered => NoCommand(s)
    BY <1>0, <2>2 DEF FramesInv, OrderInv, Handling
  <2> HIDE DEF s, t
  <2>9. /\ AllFramed(old, t) /\ LastIsAsked(old, t, req) /\ (AnswerDue(t) => AnswerDue(s))
        /\ (NoCommand(s) => NoCommand(t))
    BY <2>4, <2>5, <2>8, AllFramedSuffix, OrderInSuffix
  <2>10. t # <<>> => t[1].name \in Commands
    <3> SUFFICES ASSUME t # <<>> PROVE t[1].name \in Commands
      OBVIOUS
    <3>1. 1 \in 1 .. Len(t)
      BY <2>5, EmptySeq
    <3>2. 1 + n \in 1 .. Len(s) /\ t[1] = s[1 + n]
      BY <2>4, <2>5, <3>1 DEF Suffix
    <3>3. -Len(args) + Len(args) + n + 1 = 1 + n
      BY <2>5, <2>6
    <3>4. s[1 + n].name \in Commands
      BY <1>0, <2>6, <2>7, <3>2, <3>3 DEF Framed
    <3> QED
      BY <3>2, <3>4
  <2>11. FramesInv'
    BY <1>0, <2>9, <2>10 DEF FramesInv, t
  <2>12. OrderInv'
    BY <1>0, <2>8, <2>9 DEF OrderInv, Handling, t
  <2> QED
    BY <2>11, <2>12
<1> QED
  BY <1>6, <1>7 DEF Synchronous

\* ... polls for the handle, ...
LEMMA SynchronousPoll ==
    ASSUME Inv, Inv', PollInv, Synchronous, PollGot \/ PollNothing, ~straggler'
    PROVE  Synchronous'
<1>0. /\ UNCHANGED <<old, req, rest, awaiting, peer, reply, cmd>> /\ pc = "poll"
  BY DEF PollGot, PollNothing, Settled, fixedVars, peerVars
<1>1. cmd = "architecture" /\ cmd \in Commands /\ cmd \notin Unanswered
  BY <1>0, CommandFacts DEF PollInv, Inv, TypeOK
<1>2. RequestInv'
  <2>1. pc' \in {"poll", "polled"}
    BY <1>0 DEF PollGot, PollNothing
  <2> QED
    BY <1>0, <2>1 DEF Synchronous, RequestInv, Handling
<1> DEFINE h == Len(Announced(old, cmd))
<1>3. (old => h = 0) /\ (~old => h = 1 /\ Announced(old, cmd)[1] = "handle")
  BY <1>1 DEF Announced, Protocol
<1>4. Coming # <<>> => 1 \in 1 .. Len(Coming)
  BY ComingType, EmptySeq
<1>5. ASSUME Framed(old, Coming, cmd, 0, 0), old, Coming # <<>> PROVE Coming[1].name \in Commands
  <2>0. h = 0
    BY <1>3, <1>5
  <2>1. 0 + h + 0 + 1 = 1
    BY <2>0
  <2>2. Coming[0 + h + 0 + 1].name \in Commands
    BY <1>4, <1>5, <2>1 DEF Framed
  <2> QED
    BY <2>1, <2>2
<1>6. CASE PollGot /\ AtCut
  <2>1. CutOff'
    <3>1. stream' = <<>> /\ cut' = Absent
      BY <1>6 DEF PollGot, NextIs, AtCut
    <3> QED
      BY <1>0, <1>6, <3>1, HeadCut DEF CutOff
  <2> QED
    BY <1>2, <2>1 DEF Synchronous
<1>7. CASE PollGot /\ ~AtCut
  <2>0. stream # <<>> /\ Head(stream).name = "handle" /\ stream' = Tail(stream) /\ pc' = "polled"
    BY <1>7 DEF PollGot, NextIs, CutIs
  <2>1. FramesInv /\ OrderInv
    BY <1>0, <2>0 DEF Synchronous, CutOff
  <2> DEFINE s == Coming
             t == Coming'
  <2>2. Suffix(s, 1, t) /\ s # <<>> /\ s[1].name = "handle"
    BY <1>0, <2>0, TailComing, HeadComing
  <2>3. s \in Seq(Fields) /\ t \in Seq(Fields) /\ Len(s) \in Nat /\ Len(t) \in Nat
    BY ComingType, ComingTypeNext
  <2>4. /\ AllFramed(old, s) /\ LastIsAsked(old, s, req) /\ (AnswerDue(s) => awaiting /\ reply = NoReply)
        /\ Framed(old, s, cmd, 0, 0) /\ NoCommand(s)
    BY <1>0, <1>1, <2>1 DEF FramesInv, OrderInv, Handling
  <2>5. ~old
    BY <1>5, <2>2, <2>4 DEF Commands
  <2>6. h = 1
    BY <1>3, <2>5
  <2> HIDE DEF s, t
  <2>7. /\ AllFramed(old, t) /\ LastIsAsked(old, t, req) /\ (AnswerDue(t) => AnswerDue(s)) /\ NoCommand(t)
    <3>1. 1 \in Nat
      OBVIOUS
    <3> QED
      BY <2>2, <2>3, <2>4, <3>1, AllFramedSuffix, OrderInSuffix
  <2>8. t # <<>> => t[1].name \in Commands
    <3> SUFFICES ASSUME t # <<>> PROVE t[1].name \in Commands
      OBVIOUS
    <3>1. 1 \in 1 .. Len(t)
      BY <2>3, EmptySeq
    <3>2. 1 + 1 \in 1 .. Len(s) /\ t[1] = s[1 + 1] /\ 0 + h + 0 + 1 = 1 + 1
      BY <2>2, <2>3, <2>6, <3>1 DEF Suffix
    <3>3. s[1 + 1].name \in Commands
      BY <2>4, <3>2 DEF Framed
    <3> QED
      BY <3>2, <3>3
  <2>9. FramesInv'
    BY <1>0, <2>0, <2>7, <2>8 DEF FramesInv, t
  <2>10. OrderInv'
    BY <1>0, <2>0, <2>4, <2>7 DEF OrderInv, Handling, t
  <2> QED
    BY <1>2, <2>9, <2>10 DEF Synchronous
<1>8. CASE PollNothing
  <2>0. stream = <<>> /\ stream' = stream /\ cut = Absent /\ cut' = cut
    BY <1>8 DEF PollNothing, AtCut
  <2>1. Coming' = Coming
    BY <1>0, <2>0 DEF Coming
  <2>2. ASSUME ~CutOff' PROVE (FramesInv /\ OrderInv)'
    <3>1. peer = "open" /\ FramesInv /\ OrderInv
      BY <1>0, <2>0, <2>2 DEF Synchronous, CutOff
    <3>2. pc' = pc \/ (pc' = "polled" /\ old)
      BY <1>0, <1>8, <3>1 DEF PollNothing, Inv, TypeOK
    <3>3. Framed(old, Coming, cmd, 0, 0)
      BY <1>0, <3>1 DEF FramesInv
    <3>4. FramesInv'
      BY <1>0, <1>5, <2>1, <3>1, <3>2, <3>3 DEF FramesInv
    <3>5. OrderInv'
      BY <1>0, <2>1, <3>1, <3>2 DEF OrderInv, Handling
    <3> QED
      BY <3>4, <3>5
  <2> QED
    BY <1>2, <2>2 DEF Synchronous
<1> QED
  BY <1>7, <1>8, <1>6


\* ... or ends a handler.
LEMMA SynchronousHandler ==
    ASSUME Inv, Synchronous, pc \in {"act", "polled"}, pc' \in {"recv", "closed", "hung"},
           UNCHANGED <<fixedVars, peerVars, stream, cut>>, reply' = reply \/ cmd \notin Unanswered
    PROVE  Synchronous'
<1>0. UNCHANGED <<old, req, rest, awaiting, peer>>
  BY DEF fixedVars, peerVars
<1>1. Coming' = Coming
  BY <1>0 DEF Coming
<1>2. Handling /\ ~Handling' /\ (cmd \notin Unanswered => awaiting)
  BY DEF Handling, Synchronous, RequestInv
<1>3. RequestInv'
  BY <1>0, <1>2 DEF Synchronous, RequestInv, Handling
<1>4. ASSUME ~CutOff', pc' # "closed" PROVE (FramesInv /\ OrderInv)'
  <2>1. FramesInv /\ OrderInv
    BY <1>0, <1>4 DEF Synchronous, CutOff
  <2>2. FramesInv'
    BY <1>0, <1>1, <2>1 DEF FramesInv
  <2>3. NoCommand(Coming) => ~AnswerDue(Coming)
    BY DEF NoCommand, AnswerDue
  <2>4. OrderInv'
    BY <1>0, <1>1, <1>2, <2>1, <2>3 DEF OrderInv
  <2> QED
    BY <2>2, <2>4
<1> QED
  BY <1>3, <1>4 DEF Synchronous

LEMMA SynchronousHandlers ==
    ASSUME Inv, PollInv, Synchronous,
           \/ HandleStateless \/ HandleName \/ HandleClose \/ HandleTables \/ HandleEntries
           \/ HandleRead \/ HandleWrite \/ HandleRegion \/ HandleQueryFull \/ HandleArchitecture
    PROVE  Synchronous'
<1> USE DEF Handler, Answer, Refuse
<1>1. /\ pc \in {"act", "polled"} /\ pc' \in {"recv", "closed", "hung"}
      /\ UNCHANGED <<fixedVars, peerVars, stream, cut>>
  BY DEF HandleStateless, HandleName, HandleClose, HandleTables, HandleEntries, HandleRead,
         HandleWrite, HandleRegion, HandleQueryFull, HandleArchitecture
<1>2. CASE HandleName \/ HandleClose
  BY <1>1, <1>2, SynchronousHandler DEF HandleName, HandleClose
<1>3. CASE \/ HandleStateless \/ HandleTables \/ HandleEntries
           \/ HandleRead \/ HandleWrite \/ HandleRegion \/ HandleQueryFull
  <2>1. cmd \notin Unanswered
    BY <1>3 DEF HandleStateless, HandleTables, HandleEntries, HandleRead, HandleWrite,
                HandleRegion, HandleQueryFull, Unanswered
  <2> QED
    BY <1>1, <2>1, SynchronousHandler
<1>4. CASE HandleArchitecture
  <2>1. cmd \notin Unanswered
    BY <1>4, CommandFacts DEF HandleArchitecture, PollInv
  <2> QED
    BY <1>1, <2>1, SynchronousHandler
<1> QED
  BY <1>2, <1>3, <1>4

\* A receive of a command that fails closes the connection.
LEMMA SynchronousFailure ==
    ASSUME Inv, Synchronous, RecvCommandFails
    PROVE  Synchronous'
<1>1. pc' = "closed" /\ UNCHANGED <<old, req, awaiting, reply>>
  BY DEF RecvCommandFails, Settled, fixedVars, peerVars
<1>2. RequestInv'
  BY <1>1 DEF Synchronous, RequestInv, Handling
<1> QED
  BY <1>1, <1>2 DEF Synchronous

LEMMA SynchronyStep ==
    ASSUME Inv, Inv', StepInv, [Next]_vars
    PROVE  SynchronyInv'
<1> SUFFICES ASSUME ~straggler', ~nonblocking' PROVE Synchronous'
  BY DEF SynchronyInv
<1>0. PollInv /\ SynchronyInv
  BY DEF StepInv
<1>1. ~straggler /\ ~nonblocking /\ Synchronous
  BY <1>0, Stable DEF SynchronyInv
<1>2. CASE UNCHANGED vars
  <2>1. Coming' = Coming /\ (CutOff' <=> CutOff) /\ (RequestInv' <=> RequestInv)
    BY <1>2 DEF vars, Coming, CutOff, RequestInv, Handling, ReceivedAsked, NoneAfterCut
  <2>2. (FramesInv' <=> FramesInv) /\ (OrderInv' <=> OrderInv)
    BY <1>2, <2>1 DEF vars, FramesInv, OrderInv, Handling
  <2>3. pc' = pc
    BY <1>2 DEF vars
  <2> QED
    BY <1>1, <2>1, <2>2, <2>3 DEF Synchronous
<1>3. CASE SendField \/ TakeReply \/ Leave \/ \E c \in Commands : Begin(c)
  BY <1>0, <1>1, <1>3, SynchronousSend, SynchronousTake, SynchronousLeave, SynchronousBegin
<1>4. CASE RecvCommand \/ RecvCommandFails
  BY <1>0, <1>1, <1>4, SynchronousCommand, SynchronousFailure
<1>5. CASE RecvSkewed \/ FieldSkewed
  BY <1>0, <1>1, <1>5, NothingSkewed
<1>6. CASE RecvField \/ NoPayload \/ RecvPayload
  BY <1>0, <1>1, <1>6, SynchronousField, SynchronousNoPayload, SynchronousPayload
<1>7. CASE \/ HandleStateless \/ HandleName \/ HandleClose \/ HandleTables \/ HandleEntries
           \/ HandleRead \/ HandleWrite \/ HandleRegion \/ HandleQueryFull \/ HandleArchitecture
  BY <1>0, <1>1, <1>7, SynchronousHandlers
<1>8. CASE PollGot \/ PollNothing
  BY <1>0, <1>1, <1>8, SynchronousPoll
<1>9. CASE PollGotPart
  BY <1>9 DEF PollGotPart
<1> QED
  BY <1>2, <1>3, <1>4, <1>5, <1>6, <1>7, <1>8, <1>9 DEF Next, Server

-----------------------------------------------------------------------------
(* Old peers *)

\* A peer that sends no handle has none coming when one is polled for.
LEMMA NoHandleToPoll ==
    ASSUME Inv, PollInv, Synchronous, old, pc = "poll", stream # <<>>
    PROVE  Head(stream).name \in Commands
<1>1. ~CutOff /\ cmd = "architecture" /\ 1 \in 1 .. Len(Coming) /\ Coming[1] = Head(stream)
  BY HeadComing DEF CutOff, PollInv
<1>2. Framed(old, Coming, cmd, 0, 0)
  BY <1>1 DEF Synchronous, FramesInv
<1>3. Announced(old, cmd) = <<>>
  BY <1>1 DEF Announced
<1>4. 0 + Len(<<>>) + 0 + 1 = 1
  OBVIOUS
<1> QED
  BY <1>1, <1>2, <1>3, <1>4 DEF Framed

LEMMA OldPeerStep ==
    ASSUME Inv, StepInv, [Next]_vars
    PROVE  OldPeerInv'
<1> SUFFICES ASSUME platform = "linux", old PROVE ~straggler'
  BY Stable DEF OldPeerInv, StepInv
<1>0. PollInv /\ ~straggler /\ ~nonblocking /\ Synchronous
  BY DEF StepInv, OldPeerInv, PollInv, SynchronyInv
<1>1. CASE PollGotPart
  <2>1. pc = "poll" /\ stream # <<>> /\ Head(stream).name = "handle"
    BY <1>1 DEF PollGotPart, NextIs
  <2>2. Head(stream).name \in Commands
    BY <1>0, <2>1, NoHandleToPoll
  <2> QED
    BY <2>1, <2>2 DEF Commands
<1>2. CASE PollNothing
  BY <1>0, <1>2 DEF PollNothing
<1>3. CASE straggler' = straggler
  BY <1>0, <1>3
<1>4. PollGotPart \/ PollNothing \/ straggler' = straggler
  <2> USE DEF errorVars
  <2>1. CASE UNCHANGED vars
    BY <2>1 DEF vars
  <2>2. CASE SendField \/ TakeReply \/ Leave \/ \E c \in Commands : Begin(c)
    BY <2>2 DEF SendField, TakeReply, Leave, Begin
  <2>3. CASE \/ RecvCommand \/ RecvCommandFails \/ RecvSkewed
             \/ RecvField \/ FieldSkewed \/ NoPayload \/ RecvPayload \/ PollGot
    BY <2>3 DEF RecvCommand, RecvCommandFails, RecvSkewed, Skew, RecvField, FieldSkewed, NoPayload,
                RecvPayload, PollGot
  <2>4. CASE \/ HandleStateless \/ HandleName \/ HandleClose \/ HandleTables \/ HandleEntries
             \/ HandleRead \/ HandleWrite \/ HandleRegion \/ HandleQueryFull \/ HandleArchitecture
    BY <2>4 DEF HandleStateless, HandleName, HandleClose, HandleTables, HandleEntries, HandleRead,
                HandleWrite, HandleRegion, HandleQueryFull, HandleArchitecture, Handler
  <2> QED
    BY <2>1, <2>2, <2>3, <2>4 DEF Next, Server
<1> QED
  BY <1>1, <1>2, <1>3, <1>4

-----------------------------------------------------------------------------
(* Answers *)

\* Only the handler of a command that has an answer answers.
LEMMA ToReply ==
    ASSUME Inv, PollInv, [Next]_vars, reply' # reply, reply' # NoReply
    PROVE  pc \in {"act", "polled"} /\ cmd \notin Unanswered
<1> USE DEF Settled, Handler, Answer, Refuse
<1>1. CASE UNCHANGED vars
  BY <1>1 DEF vars
<1>2. CASE SendField \/ TakeReply \/ Leave \/ \E c \in Commands : Begin(c)
  BY <1>2 DEF SendField, TakeReply, Leave, Begin
<1>3. CASE \/ RecvCommand \/ RecvCommandFails \/ RecvSkewed
           \/ RecvField \/ FieldSkewed \/ NoPayload \/ RecvPayload
  BY <1>3 DEF RecvCommand, RecvCommandFails, RecvSkewed, Skew, RecvField, FieldSkewed, NoPayload, RecvPayload
<1>4. CASE HandleName \/ HandleClose
  BY <1>4 DEF HandleName, HandleClose
<1>5. CASE \/ HandleStateless \/ HandleTables \/ HandleEntries
           \/ HandleRead \/ HandleWrite \/ HandleRegion \/ HandleQueryFull
  BY <1>5 DEF HandleStateless, HandleTables, HandleEntries, HandleRead, HandleWrite,
              HandleRegion, HandleQueryFull, Unanswered
<1>6. CASE HandleArchitecture
  BY <1>6, CommandFacts DEF HandleArchitecture, PollInv
<1>7. CASE PollGot \/ PollGotPart \/ PollNothing
  BY <1>7 DEF PollGot, PollGotPart, PollNothing
<1> QED
  BY <1>1, <1>2, <1>3, <1>4, <1>5, <1>6, <1>7 DEF Next, Server

LEMMA AnswerStep ==
    ASSUME Inv, StepInv, [Next]_vars, Replies, ~straggler, ~nonblocking
    PROVE  awaiting /\ reply = NoReply /\ req.cmd = cmd
<1>1. PollInv /\ RequestInv
  BY DEF StepInv, SynchronyInv, Synchronous
<1>2. cmd \notin Unanswered /\ Handling
  BY <1>1, ToReply DEF Replies, Handling
<1> QED
  BY <1>1, <1>2 DEF RequestInv

-----------------------------------------------------------------------------
(* The theorems *)

LEMMA InitStepInv == Init => StepInv
<1> SUFFICES ASSUME Init PROVE StepInv
  OBVIOUS
<1>1. PollInv /\ FilledInv /\ OldPeerInv /\ InStep
  BY DEF Init, PollInv, FilledInv, OldPeerInv, InStep
<1>2. WriteAsRequested
  BY DEF Init, WriteAsRequested
<1>3. Coming = <<>>
  BY DEF Init, Coming
<1>4. RequestInv
  BY DEF Init, RequestInv, Handling
<1>5. FramesInv
  BY <1>3 DEF Init, FramesInv, AllFramed
<1>6. OrderInv
  BY <1>3 DEF Init, OrderInv, AnswerDue, LastIsAsked, Handling
<1> QED
  BY <1>1, <1>2, <1>4, <1>5, <1>6 DEF StepInv, SynchronyInv, Synchronous

LEMMA NextStepInv == Inv /\ Inv' /\ StepInv /\ [Next]_vars => StepInv'
<1> SUFFICES ASSUME Inv, Inv', StepInv, [Next]_vars PROVE StepInv'
  OBVIOUS
<1>1. PollInv /\ FilledInv
  BY DEF StepInv
<1>2. PollInv' /\ FilledInv'
  BY <1>1, PollStep, FilledStep
<1>3. SynchronyInv' /\ OldPeerInv' /\ InStep' /\ WriteAsRequested'
  BY SynchronyStep, OldPeerStep, InStepStep, WriteStep
<1> QED
  BY <1>2, <1>3 DEF StepInv

\* Server and peer agree on where each request begins and ends, in every
\* reachable state and for any number and size of requests.
THEOREM StepInvariance == Spec => []StepInv
<1> HIDE DEF Inv, StepInv
<1> QED
  BY Invariance, InitStepInv, NextStepInv, PTL DEF Spec

\* The server takes no byte for anything but what the peer sent it as, unless
\* CMD_GETARCHITECTURE went on without its handle or left the socket
\* non-blocking.
THEOREM StaysInStep == Spec => []InStep
<1>1. StepInv => InStep
  BY DEF StepInv
<1> HIDE DEF StepInv
<1> QED
  BY <1>1, StepInvariance, PTL

\* A write of a positive size that reaches the memory service has the address
\* that was asked for, and its size too, or a smaller one and no byte of the
\* peer's, when that left in the middle of the size.  Its buffer was filled, or
\* the peer has left.
THEOREM WritesAsRequested == Spec => []WriteAsRequested
<1>1. StepInv => WriteAsRequested
  BY DEF StepInv
<1> HIDE DEF StepInv
<1> QED
  BY <1>1, StepInvariance, PTL

\* With the Linux wrapper and a peer that sends no handle for
\* CMD_GETARCHITECTURE, step is never lost.
THEOREM OldPeersStayInStep == Spec => []OldPeerInStep
<1>1. StepInv => OldPeerInStep
  BY DEF StepInv, PollInv, OldPeerInv, InStep, OldPeerInStep
<1> HIDE DEF StepInv
<1> QED
  BY <1>1, StepInvariance, PTL

\* A handler that answers, answers what the peer asked and waits for, once.
THEOREM AnswersAreAskedFor == Spec => AnswersTheAsked
<1>1. ASSUME Inv, StepInv, [Next]_vars
      PROVE  [Replies /\ ~straggler /\ ~nonblocking =>
                 awaiting /\ reply = NoReply /\ req.cmd = cmd]_vars
  BY <1>1, AnswerStep
<1> HIDE DEF Inv, StepInv
<1> QED
  BY <1>1, Invariance, StepInvariance, PTL DEF Spec, AnswersTheAsked
=============================================================================
