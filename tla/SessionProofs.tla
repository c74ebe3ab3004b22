---------------------------- MODULE SessionProofs ----------------------------
(***************************************************************************)
(* Proofs about a conversation, for any addresses, sizes, VAD entries and  *)
(* widths of integers: types of what is received, and what is reported of  *)
(* regions.                                                                *)
(***************************************************************************)
EXTENDS Session, TLAPS, SequenceTheorems, WellFoundedInduction

-----------------------------------------------------------------------------
(* The inductive invariant *)

\* The values of a field that the peer may not have sent to its end.
Got(field) == IF field = "address" THEN Nat ELSE Values(field)

\* What a handler has received so far are values of the fields it asked for.
ArgsInv ==
    /\ args \in Seq(Int)
    /\ pc \in {"fields", "act"} =>
          /\ Len(args) <= Len(Header(cmd))
          /\ \A i \in 1 .. Len(args) : args[i] \in Got(Header(cmd)[i])

\* Only a peer that has left leaves a field cut off, the next it had to send,
\* no single byte, and what came of it is not more than it would have been.
CutInv ==
    cut # Absent =>
        /\ peer # "open" /\ rest # <<>> /\ Head(rest).name # "byte"
        /\ cut \in Got(Head(rest).name) /\ cut \in Nat /\ cut <= Head(rest).v

Inv == TypeOK /\ ArgsInv /\ CutInv /\ RegionFound /\ ProtectionFaithful

-----------------------------------------------------------------------------
(* Fields *)

HeaderNames == {"flags", "pid", "handle", "size", "address", "compress"}

\* Field values are natural numbers, and zero is one for every field.
LEMMA ValuesFacts ==
    ASSUME NEW f
    PROVE  Values(f) \subseteq Nat /\ 0 \in Values(f)
BY AddressAssumption, BoundAssumption DEF Values

LEMMA GotFacts ==
    ASSUME NEW f
    PROVE  Got(f) \subseteq Nat /\ Values(f) \subseteq Got(f) /\ 0 \in Got(f)
BY ValuesFacts DEF Got

\* The first bytes of a number hold no more than the number.
LEMMA PrefixFacts ==
    ASSUME NEW f, NEW v \in Values(f), NEW m \in Prefixes
    PROVE  v % m \in Got(f) /\ v % m \in Nat /\ v % m <= v
<1>1. v \in Nat /\ m \in Nat /\ m > 0
  BY ValuesFacts, LimitAssumption
<1>2. v % m \in Nat /\ v % m <= v
  BY <1>1
<1>3. v % m \in Got(f)
  BY <1>1, <1>2, BoundAssumption DEF Got, Values
<1> QED
  BY <1>2, <1>3

\* The shapes requests have.
Shapes == {<<"flags", "pid">>, <<"handle">>, <<"pid">>, <<"size">>, <<"handle", "flags">>,
           <<"handle", "address">>, <<"handle", "address", "size">>,
           <<"handle", "address", "size", "compress">>, <<>>}

LEMMA ShapesType == \A s \in Shapes : s \in Seq(HeaderNames)
<1>1. ASSUME NEW a \in HeaderNames, NEW b \in HeaderNames, NEW c \in HeaderNames, NEW d \in HeaderNames
      PROVE  /\ <<>> \in Seq(HeaderNames) /\ <<a>> \in Seq(HeaderNames)
             /\ <<a, b>> \in Seq(HeaderNames) /\ <<a, b, c>> \in Seq(HeaderNames)
             /\ <<a, b, c, d>> \in Seq(HeaderNames)
  OBVIOUS
<1>2. {"flags", "pid", "handle", "size", "address", "compress"} \subseteq HeaderNames
  BY DEF HeaderNames
<1>3. /\ <<>> \in Seq(HeaderNames) /\ <<"handle">> \in Seq(HeaderNames)
      /\ <<"pid">> \in Seq(HeaderNames) /\ <<"size">> \in Seq(HeaderNames)
  BY <1>1, <1>2
<1>4. /\ <<"flags", "pid">> \in Seq(HeaderNames) /\ <<"handle", "flags">> \in Seq(HeaderNames)
      /\ <<"handle", "address">> \in Seq(HeaderNames)
  BY <1>1, <1>2
<1>5. /\ <<"handle", "address", "size">> \in Seq(HeaderNames)
      /\ <<"handle", "address", "size", "compress">> \in Seq(HeaderNames)
  BY <1>1, <1>2
<1> QED
  BY <1>3, <1>4, <1>5 DEF Shapes

LEMMA HeaderType == \A c \in Commands : Header(c) \in Seq(HeaderNames)
<1>1. \A c \in Commands : Header(c) \in Shapes
  BY DEF Header, Shapes
<1> QED
  BY <1>1, ShapesType

LEMMA ProtocolType == \A c \in Commands : Protocol[c] \in Seq(HeaderNames)
<1>1. \A c \in Commands : Protocol[c] \in Shapes
  BY DEF Protocol, Shapes
<1> QED
  BY <1>1, ShapesType

\* A request that carries bytes says how many.
LEMMA CarriesSize ==
    ASSUME NEW c \in Carries
    PROVE  /\ c \in Commands /\ Protocol[c] = Header(c)
           /\ \E i \in 1 .. Len(Header(c)) : Header(c)[i] = "size"
<1>1. c \in Commands
  BY DEF Carries, Commands
<1>2. c \in {"name", "symbols"} \/ c = "write"
  BY DEF Carries
<1>3. Protocol[c] = Header(c)
  BY <1>1, <1>2 DEF Protocol, Header
<1>4. Header(c) = <<"size">> \/ Header(c) = <<"handle", "address", "size">>
  BY <1>2 DEF Header
<1>5. \E i \in 1 .. Len(Header(c)) : Header(c)[i] = "size"
  BY <1>4
<1> QED
  BY <1>1, <1>3, <1>5

\* The size among values that are values of their fields is in its bounds.
LEMMA SizeOfType ==
    ASSUME NEW names \in Seq(HeaderNames), NEW vals,
           \A i \in 1 .. Len(names) : vals[i] \in Got(names[i])
    PROVE  SizeOf(names, vals) \in 0 .. MaxSize
<1>1. DOMAIN names = 1 .. Len(names)
  OBVIOUS
<1>2. CASE \E i \in DOMAIN names : names[i] = "size"
  <2>1. PICK i \in DOMAIN names : names[i] = "size" /\ SizeOf(names, vals) = vals[i]
    BY <1>2 DEF SizeOf
  <2> QED
    BY <1>1, <2>1 DEF Got, Values
<1>3. CASE ~\E i \in DOMAIN names : names[i] = "size"
  BY <1>3, BoundAssumption DEF SizeOf
<1> QED
  BY <1>2, <1>3

LEMMA FieldType ==
    ASSUME NEW f \in Commands \cup FieldNames, NEW v \in Values(f)
    PROVE  Field(f, v) \in Fields
BY ValuesFacts DEF Field, Fields

\* What a peer sends are fields.
LEMMA WireType ==
    ASSUME NEW c \in Commands, NEW vals, \A i \in DOMAIN Protocol[c] : vals[i] \in Values(Protocol[c][i])
    PROVE  Wire(c, vals) \in Seq(Fields)
<1> DEFINE names == IF c = "architecture" /\ old THEN <<>> ELSE Protocol[c]
           n == IF c \in Carries THEN SizeOf(names, vals) ELSE 0
           header == [i \in DOMAIN names |-> Field(names[i], vals[i])]
           payload == [i \in 1 .. n |-> Field("byte", 0)]
<1>1. names \in Seq(HeaderNames) /\ \A i \in 1 .. Len(names) : vals[i] \in Values(names[i])
  BY ProtocolType
<1>2. n \in Nat
  <2> HIDE DEF names
  <2>1. SizeOf(names, vals) \in 0 .. MaxSize
    BY <1>1, GotFacts, SizeOfType
  <2> QED
    BY <2>1, BoundAssumption
<1>3. header \in Seq(Fields)
  <2>1. DOMAIN names = 1 .. Len(names) /\ Len(names) \in Nat
    BY <1>1
  <2>2. \A i \in 1 .. Len(names) : Field(names[i], vals[i]) \in Fields
    BY <1>1, FieldType DEF HeaderNames, FieldNames
  <2>3. header \in [1 .. Len(names) -> Fields]
    BY <2>1, <2>2
  <2> HIDE DEF header, names
  <2> QED
    BY <2>1, <2>3, SeqDef
<1>4. payload \in Seq(Fields)
  <2>1. Field("byte", 0) \in Fields
    BY FieldType DEF FieldNames, Values
  <2>2. payload \in [1 .. n -> Fields]
    BY <2>1
  <2> HIDE DEF payload, n
  <2> QED
    BY <1>2, <2>2, SeqDef
<1>5. <<Field(c, 0)>> \in Seq(Fields)
  <2>1. Field(c, 0) \in Fields
    BY FieldType, ValuesFacts
  <2> HIDE DEF Fields
  <2> QED
    BY <2>1
<1>6. Wire(c, vals) = <<Field(c, 0)>> \o header \o payload
  BY DEF Wire
<1> HIDE DEF header, payload, names, n
<1> QED
  BY <1>3, <1>4, <1>5, <1>6, ConcatProperties

-----------------------------------------------------------------------------
(* Regions *)

\* The remainder of a number that is smaller than the modulus.
LEMMA ModSmall == ASSUME NEW a \in Nat, NEW b \in Nat, a < b PROVE a % b = a
OBVIOUS

\* The size of a region below 2 GiB survives int32_t and uint64_t.
LEMMA RegionSizeExact ==
    ASSUME NEW v \in VadEntry, v.start <= v.end, v.end - v.start + 1 < Half
    PROVE  RegionInfo(v).size = v.end - v.start + 1
<1> DEFINE n == v.end - v.start + 1
<1>1. n \in Nat /\ n < Half /\ Half \in Nat /\ Wide \in Nat /\ 2 * Half <= Wide
  BY WidthAssumption DEF VadEntry
<1>2. n + Half \in Nat /\ 2 * Half \in Nat /\ n + Half < 2 * Half /\ n < Wide
  BY <1>1
<1> HIDE DEF n
<1>3. (n + Half) % (2 * Half) = n + Half
  BY <1>2, ModSmall
<1>4. Int32(n) = n
  BY <1>1, <1>3 DEF Int32
<1>5. Uint64(n) = n
  BY <1>1, <1>2, ModSmall DEF Uint64
<1> QED
  BY <1>4, <1>5 DEF RegionInfo, RegionSize, n

\* A set of natural numbers has a smallest one.
LEMMA SmallestNat ==
    ASSUME NEW S, S \subseteq Nat, S # {}
    PROVE  \E m \in S : \A j \in S : m <= j
<1>1. PICK m \in S : \A j \in S : ~(<<j, m>> \in OpToRel(<, Nat))
  BY NatLessThanWellFounded, WFMin
<1>2. \A j \in S : ~(j < m)
  BY <1>1 DEF OpToRel
<1> QED
  BY <1>2

\* The lookup finds the first region with the address, if there is one.
LEMMA LookupFinds ==
    ASSUME NEW vads \in Seq(VadEntry), NEW a \in Nat
    PROVE  /\ Lookup(vads, a) = Absent <=> \A i \in DOMAIN vads : ~Contains(vads[i], a)
           /\ Lookup(vads, a) # Absent => Lookup(vads, a) \in VadEntry /\ Contains(Lookup(vads, a), a)
<1>0. DOMAIN vads = 1 .. Len(vads) /\ Len(vads) \in Nat /\ \A i \in DOMAIN vads : vads[i] \in VadEntry
  OBVIOUS
<1>1. CASE \A i \in DOMAIN vads : ~Contains(vads[i], a)
  BY <1>1 DEF Lookup
<1>2. CASE \E i \in DOMAIN vads : Contains(vads[i], a)
  <2> DEFINE S == {i \in Nat : i \in DOMAIN vads /\ Contains(vads[i], a)}
  <2>1. PICK m \in S : \A j \in S : m <= j
    <3>1. S \subseteq Nat /\ S # {}
      BY <1>0, <1>2
    <3> HIDE DEF S
    <3> QED
      BY <3>1, SmallestNat
  <2>2. PICK i \in DOMAIN vads : Contains(vads[i], a) /\ Lookup(vads, a) = vads[i]
    <3>1. /\ m \in DOMAIN vads /\ Contains(vads[m], a)
          /\ \A j \in DOMAIN vads : Contains(vads[j], a) => m <= j
      BY <1>0, <2>1
    <3> QED
      BY <1>2, <3>1 DEF Lookup
  <2> QED
    BY <1>0, <1>2, <2>2, AbsentAssumption
<1> QED
  BY <1>1, <1>2
\* Rights survive the translation to a Win32 protection.
LEMMA ProtectionExact ==
    ASSUME NEW v \in VadEntry
    PROVE  Granted(Win32Protection(v)) = Rights[Low(v) + 1] \cup {"r"}
<1>1. Low(v) \in 0 .. 7
  BY DEF Low, VadEntry
<1>2. /\ Writable(v) <=> Low(v) \in {4, 5, 6, 7}
      /\ Executable(v) <=> Low(v) \in {2, 3, 6, 7}
  BY <1>1 DEF Writable, Executable
<1>3. CASE Low(v) \in {0, 1}
  BY <1>2, <1>3 DEF Win32Protection, Granted, Rights
<1>4. CASE Low(v) \in {2, 3}
  BY <1>2, <1>4 DEF Win32Protection, Granted, Rights
<1>5. CASE Low(v) \in {4, 5}
  BY <1>2, <1>5 DEF Win32Protection, Granted, Rights
<1>6. CASE Low(v) \in {6, 7}
  BY <1>2, <1>6 DEF Win32Protection, Granted, Rights
<1> QED
  BY <1>1, <1>3, <1>4, <1>5, <1>6

\* What a report on the address a among the entries vads says.
About(vads, a) ==
    LET v == Lookup(vads, a)
    IN  [address |-> a, vads |-> vads, vad |-> v,
         info |-> IF v = Absent THEN Absent ELSE RegionInfo(v)]

LEMMA ReportExact ==
    ASSUME NEW vads \in VadLists, NEW a \in Nat, reply'.about = About(vads, a)
    PROVE  (RegionFound /\ ProtectionFaithful)'
<1> DEFINE v == Lookup(vads, a)
           r == reply'.about
<1>0. vads \in Seq(VadEntry)
  BY VadAssumption
<1>1. r.address = a /\ r.vads = vads /\ r.vad = v /\ (v # Absent => r.info = RegionInfo(v))
  BY DEF About
<1>2. (v = Absent) <=> \A i \in DOMAIN vads : ~(a \in vads[i].start .. vads[i].end)
  <2>1. \A i \in DOMAIN vads : Contains(vads[i], a) <=> a \in vads[i].start .. vads[i].end
    <3> TAKE i \in DOMAIN vads
    <3>1. vads[i] \in VadEntry
      BY <1>0
    <3> QED
      BY <3>1 DEF Contains, VadEntry
  <2> QED
    BY <1>0, <2>1, LookupFinds
<1>3. v # Absent => v \in VadEntry /\ Contains(v, a)
  BY <1>0, LookupFinds
<1> HIDE DEF v
<1>4. ASSUME v # Absent, v.end - v.start + 1 < Half
      PROVE  /\ r.info.base <= a /\ a < r.info.base + r.info.size
             /\ r.info.size = v.end - v.start + 1
  <2>1. v \in VadEntry /\ v.start <= a /\ a <= v.end /\ v.start \in Nat /\ v.end \in Nat
    BY <1>3, <1>4 DEF Contains, VadEntry
  <2>2. r.info.size = v.end - v.start + 1
    BY <1>1, <1>4, <2>1, RegionSizeExact
  <2>3. r.info.base = v.start
    BY <1>1, <1>4 DEF RegionInfo
  <2> QED
    BY <2>1, <2>2, <2>3
<1>5. RegionFound'
  BY <1>1, <1>2, <1>4 DEF RegionFound
<1>6. v # Absent => Granted(r.info.protection) = Rights[Low(v) + 1] \cup {"r"}
  BY <1>1, <1>3, ProtectionExact DEF RegionInfo
<1>7. ProtectionFaithful'
  <2>1. r.vad # Absent => Granted(r.info.protection) = Rights[Low(r.vad) + 1] \cup {"r"}
    BY <1>1, <1>6
  <2> QED
    BY <2>1 DEF ProtectionFaithful
<1> QED
  BY <1>5, <1>7

\* No report, or the one there was.
LEMMA OtherReply ==
    ASSUME Inv, reply' = reply \/ reply'.about = Absent
    PROVE  (RegionFound /\ ProtectionFaithful)'
BY DEF Inv, RegionFound, ProtectionFaithful

-----------------------------------------------------------------------------
(* The invariant is inductive *)

LEMMA InitInv == Init => Inv
<1> SUFFICES ASSUME Init PROVE Inv
  OBVIOUS
<1>1. TypeOK
  <2>1. <<>> \in Seq(Fields)
    BY EmptySeq
  <2>2. made \in 0 .. MaxRequests /\ received \in 0 .. MaxSize /\ polls \in 0 .. MaxPolls
    BY BoundAssumption DEF Init
  <2>3. req.cmd \in Commands /\ cmd \in Commands
    BY DEF Init, NoRequest, Commands
  <2> QED
    BY <2>1, <2>2, <2>3 DEF Init, TypeOK
<1>2. ArgsInv
  BY EmptySeq DEF Init, ArgsInv
<1>3. CutInv
  BY DEF Init, CutInv
<1>4. RegionFound /\ ProtectionFaithful
  BY DEF Init, NoReply, Reply, RegionFound, ProtectionFaithful
<1> QED
  BY <1>1, <1>2, <1>4, <1>3 DEF Inv

\* A field stays cut off, or what came of it is received.
LEMMA CutStep ==
    ASSUME Inv, UNCHANGED <<peer, rest>>, cut' = cut \/ cut' = Absent
    PROVE  CutInv'
BY DEF Inv, CutInv

LEMMA PeerInv ==
    ASSUME Inv, SendField \/ TakeReply \/ Leave \/ \E c \in Commands : Begin(c)
    PROVE  Inv'
<1> USE DEF fixedVars, errorVars
<1>0. TypeOK /\ ArgsInv /\ CutInv
  BY DEF Inv
<1>1. CASE SendField
  <2>1. stream' \in Seq(Fields) /\ rest' \in Seq(Fields)
    <3>1. rest \in Seq(Fields) /\ stream \in Seq(Fields) /\ rest # <<>>
      BY <1>0, <1>1 DEF TypeOK, SendField
    <3>2. stream' = Append(stream, Head(rest)) /\ rest' = Tail(rest)
      BY <1>1 DEF SendField
    <3> HIDE DEF Fields
    <3> QED
      BY <3>1, <3>2, HeadTailProperties, AppendProperties
  <2>2. TypeOK'
    BY <1>0, <1>1, <2>1 DEF SendField, TypeOK
  <2>3. ArgsInv'
    BY <1>0, <1>1 DEF SendField, ArgsInv
  <2>4. CutInv'
    BY <1>0, <1>1 DEF SendField, CutInv
  <2> QED
    BY <1>1, <2>2, <2>3, <2>4, OtherReply DEF SendField, Inv
<1>2. CASE TakeReply
  <2>0. /\ awaiting' = FALSE
        /\ UNCHANGED <<platform, old, made, req, rest, peer, stream, cut, pc, cmd, args, received,
                       opened, wouldBlock, nonblocking, polls, straggler>>
    BY <1>2 DEF TakeReply
  <2>1. TypeOK'
    <3> HIDE DEF fixedVars, errorVars
    <3>1. (/\ platform \in {"linux", "windows"} /\ old \in BOOLEAN
           /\ made \in 0 .. MaxRequests /\ req.cmd \in Commands /\ awaiting \in BOOLEAN
           /\ peer \in {"open", "eof", "reset"} /\ rest \in Seq(Fields) /\ stream \in Seq(Fields)
           /\ (cut = Absent \/ cut \in Nat))'
      BY <1>0, <2>0 DEF TypeOK
    <3>2. (/\ pc \in {"recv", "fields", "act", "poll", "polled", "closed", "skewed", "hung"}
           /\ cmd \in Commands
           /\ pc = "act" => Len(args) = Len(Header(cmd))
           /\ pc = "polled" => Len(args) = 1)'
      BY <1>0, <2>0 DEF TypeOK
    <3>3. (/\ received \in 0 .. MaxSize
           /\ opened \in BOOLEAN /\ wouldBlock \in BOOLEAN /\ nonblocking \in BOOLEAN /\ straggler \in BOOLEAN
           /\ polls \in 0 .. MaxPolls /\ (pc = "poll" => polls < MaxPolls))'
      BY <1>0, <2>0 DEF TypeOK
    <3> QED
      BY <3>1, <3>2, <3>3 DEF TypeOK
  <2>2. ArgsInv'
    BY <1>0, <1>2 DEF TakeReply, ArgsInv
  <2>3. reply'.about = Absent
    BY <1>2 DEF TakeReply, NoReply, Reply
  <2>4. CutInv'
    BY <2>0, CutStep
  <2> QED
    BY <2>1, <2>2, <2>3, <2>4, OtherReply DEF Inv
<1>3. CASE Leave
  <2>1. stream' \in Seq(Fields)
    BY <1>0, <1>3, EmptySeq DEF Leave, TypeOK
  <2>2. cut' = Absent \/ (/\ rest # <<>> /\ Head(rest).name # "byte"
                             /\ \E m \in Prefixes : cut' = Head(rest).v % m)
    BY <1>3 DEF Leave, FirstBytes
  <2>3. CASE cut' = Absent
    <3>1. TypeOK'
      BY <1>0, <1>3, <2>1, <2>3 DEF Leave, TypeOK
    <3>2. ArgsInv' /\ CutInv'
      BY <1>0, <1>3, <2>3 DEF Leave, ArgsInv, CutInv
    <3> QED
      BY <1>3, <3>1, <3>2, OtherReply DEF Leave, Inv
  <2>4. ASSUME rest # <<>>, Head(rest).name # "byte", NEW m \in Prefixes, cut' = Head(rest).v % m PROVE Inv'
    <3>1. Head(rest) \in Fields
      <4>1. rest \in Seq(Fields)
        BY <1>0 DEF TypeOK
      <4> HIDE DEF Fields
      <4> QED
        BY <2>4, <4>1, HeadTailProperties
    <3>2. Head(rest).v \in Values(Head(rest).name)
      BY <3>1 DEF Fields
    <3>3. cut' \in Got(Head(rest).name) /\ cut' \in Nat /\ cut' <= Head(rest).v
      BY <2>4, <3>2, PrefixFacts
    <3>4. TypeOK'
      BY <1>0, <1>3, <2>1, <3>3 DEF Leave, TypeOK
    <3>5. ArgsInv'
      BY <1>0, <1>3 DEF Leave, ArgsInv
    <3>6. peer' # "open" /\ rest' = rest
      BY <1>3 DEF Leave
    <3>7. CutInv'
      BY <2>4, <3>3, <3>6 DEF CutInv
    <3> QED
      BY <1>3, <3>4, <3>5, <3>7, OtherReply DEF Leave, Inv
  <2> QED
    BY <2>2, <2>3, <2>4
<1>4. ASSUME NEW c \in Commands, Begin(c) PROVE Inv'
  <2>1. rest' \in Seq(Fields) /\ req'.cmd \in Commands
    BY <1>4, WireType DEF Begin
  <2>2. made' \in 0 .. MaxRequests
    BY <1>0, <1>4, BoundAssumption DEF Begin, TypeOK
  <2>3. TypeOK'
    BY <1>0, <1>4, <2>1, <2>2 DEF Begin, TypeOK
  <2>4. ArgsInv'
    BY <1>0, <1>4 DEF Begin, ArgsInv
  <2>5. CutInv'
    BY <1>0, <1>4 DEF Begin, CutInv
  <2> QED
    BY <1>4, <2>3, <2>4, <2>5, OtherReply DEF Begin, Inv
<1> QED
  BY <1>1, <1>2, <1>3, <1>4
\* A handler that is done: connection and reply change, and what handles mean.
LEMMA HandlerInv ==
    ASSUME Inv, pc' \in {"recv", "closed", "hung"}, opened' \in BOOLEAN,
           UNCHANGED <<fixedVars, peerVars, stream, cut, cmd, args, received, errorVars>>,
           (RegionFound /\ ProtectionFaithful)'
    PROVE  Inv'
<1>1. TypeOK'
  BY DEF Inv, TypeOK, fixedVars, peerVars, errorVars
<1>2. ArgsInv'
  BY DEF Inv, ArgsInv
<1>3. CutInv'
  BY CutStep DEF peerVars
<1> QED
  BY <1>1, <1>2, <1>3 DEF Inv

LEMMA HandlersInv ==
    ASSUME Inv, \/ HandleStateless \/ HandleName \/ HandleClose \/ HandleTables \/ HandleEntries
                \/ HandleRead \/ HandleWrite \/ HandleRegion \/ HandleQueryFull \/ HandleArchitecture
    PROVE  Inv'
<1>0. opened \in BOOLEAN
  BY DEF Inv, TypeOK
<1> USE DEF Handler, Answer, Refuse
<1>1. ASSUME reply' = reply \/ reply' = Fixed \/ \E n : reply' = Items(n)
      PROVE  (RegionFound /\ ProtectionFaithful)'
  BY <1>1, OtherReply DEF Fixed, Items, Reply
<1>2. CASE HandleStateless
  BY <1>0, <1>1, <1>2, HandlerInv DEF HandleStateless
<1>3. CASE HandleName
  BY <1>0, <1>1, <1>3, HandlerInv DEF HandleName
<1>4. CASE HandleClose
  BY <1>0, <1>1, <1>4, HandlerInv DEF HandleClose
<1>5. CASE HandleTables
  <2>1. opened' \in BOOLEAN
    BY <1>0, <1>5 DEF HandleTables
  <2> QED
    BY <1>1, <1>5, <2>1, HandlerInv DEF HandleTables
<1>6. CASE HandleEntries
  BY <1>0, <1>1, <1>6, HandlerInv DEF HandleEntries
<1>7. CASE HandleRead
  BY <1>0, <1>1, <1>7, HandlerInv DEF HandleRead
<1>8. CASE HandleWrite
  BY <1>0, <1>1, <1>8, HandlerInv DEF HandleWrite
<1>9. CASE HandleRegion
  <2>1. pc = "act" /\ cmd \in {"query", "region"}
    BY <1>9 DEF HandleRegion
  <2>2. args[2] \in Nat
    <3>1. Header(cmd) = <<"handle", "address">>
      BY <2>1 DEF Header
    <3>2. Len(args) = 2
      BY <2>1, <3>1 DEF Inv, TypeOK
    <3>3. args[2] \in Got(Header(cmd)[2])
      BY <2>1, <3>2 DEF Inv, ArgsInv
    <3> QED
      BY <3>3, GotFacts
  <2>3. \/ reply' = reply \/ reply' = Fixed
        \/ \E vads \in VadLists : reply'.about = About(vads, args[2])
    BY <1>9 DEF HandleRegion, Reply, About
  <2>4. (RegionFound /\ ProtectionFaithful)'
    BY <1>1, <2>2, <2>3, ReportExact
  <2>5. pc' \in {"recv", "closed"} /\ opened' \in BOOLEAN
    BY <1>0, <1>9 DEF HandleRegion
  <2> QED
    BY <1>9, <2>4, <2>5, HandlerInv DEF HandleRegion
<1>10. CASE HandleQueryFull
  BY <1>0, <1>1, <1>10, HandlerInv DEF HandleQueryFull
<1>11. CASE HandleArchitecture
  BY <1>0, <1>1, <1>11, HandlerInv DEF HandleArchitecture
<1> QED
  BY <1>2, <1>3, <1>4, <1>5, <1>6, <1>7, <1>8, <1>9, <1>10, <1>11

\* The head of a stream that is not empty is a field.
LEMMA StreamFacts ==
    ASSUME Inv, stream # <<>>
    PROVE  /\ Head(stream) \in Fields /\ Tail(stream) \in Seq(Fields)
           /\ Head(stream).v \in Values(Head(stream).name)
<1>1. Head(stream) \in Fields /\ Tail(stream) \in Seq(Fields)
  <2>1. stream \in Seq(Fields)
    BY DEF Inv, TypeOK
  <2> HIDE DEF Fields
  <2> QED
    BY <2>1, HeadTailProperties
<1> QED
  BY <1>1 DEF Fields

LEMMA ReceivingInv ==
    ASSUME Inv, \/ RecvCommand \/ RecvCommandFails \/ RecvSkewed
                \/ RecvField \/ FieldSkewed \/ NoPayload \/ RecvPayload
    PROVE  Inv'
<1>0. TypeOK /\ ArgsInv
  BY DEF Inv
<1> USE DEF fixedVars, peerVars, errorVars, Settled
<1>1. (RegionFound /\ ProtectionFaithful)'
  BY OtherReply DEF RecvCommand, RecvCommandFails, RecvSkewed, Skew, RecvField, FieldSkewed,
                    NoPayload, RecvPayload
<1>2. CutInv'
  BY CutStep DEF RecvCommand, RecvCommandFails, RecvSkewed, Skew, RecvField, FieldSkewed,
                 NoPayload, RecvPayload
<1>3. CASE RecvCommand
  <2>1. stream # <<>> /\ cmd' \in Commands /\ stream' = Tail(stream)
    BY <1>3 DEF RecvCommand, NextIs
  <2>2. stream' \in Seq(Fields)
    BY <2>1, StreamFacts
  <2>3. args' = <<>> /\ received' = 0 /\ polls' = 0 /\ pc' \in {"poll", "fields"}
    BY <1>3 DEF RecvCommand
  <2>4. received' \in 0 .. MaxSize /\ polls' \in 0 .. MaxPolls /\ polls' < MaxPolls
    BY <2>3, BoundAssumption
  <2>5. TypeOK'
    BY <1>0, <1>3, <2>1, <2>2, <2>3, <2>4 DEF RecvCommand, TypeOK
  <2>6. ArgsInv'
    <3>1. Len(Header(cmd')) \in Nat
      BY <2>1, HeaderType
    <3> QED
      BY <2>3, <3>1, EmptySeq DEF ArgsInv
  <2> QED
    BY <1>1, <1>2, <2>5, <2>6 DEF Inv
<1>4. CASE RecvCommandFails \/ RecvSkewed \/ FieldSkewed
  <2>1. TypeOK' /\ pc' \in {"closed", "skewed"} /\ args' = args
    BY <1>0, <1>4 DEF RecvCommandFails, RecvSkewed, FieldSkewed, Skew, TypeOK
  <2>2. ArgsInv'
    BY <1>0, <2>1 DEF ArgsInv
  <2> QED
    BY <1>1, <1>2, <2>1, <2>2 DEF Inv
<1>5. CASE RecvField
  <2>0. /\ pc = "fields" /\ pc' = "fields" /\ cmd' = cmd /\ Len(args) < Len(Header(cmd))
        /\ cmd \in Commands /\ args \in Seq(Int) /\ Len(args) \in Nat
        /\ Header(cmd) \in Seq(HeaderNames) /\ Len(Header(cmd)) \in Nat
    BY <1>0, <1>5, HeaderType DEF RecvField, TypeOK, ArgsInv
  <2>1. PICK x \in Got(Missing) : args' = Append(args, x)
    <3>1. CASE NextIs({Missing}) /\ args' = Append(args, Head(stream).v)
      BY <3>1, StreamFacts, GotFacts DEF NextIs
    <3>2. CASE args' = Append(args, 0)
      BY <3>2, GotFacts
    <3>3. CASE CutIs({Missing}) /\ args' = Append(args, cut)
      BY <3>3 DEF Inv, CutInv, CutIs, AtCut
    <3> QED
      BY <1>5, <3>1, <3>2, <3>3 DEF RecvField
  <2>2. stream' \in Seq(Fields)
    <3>1. stream' = stream \/ (stream # <<>> /\ stream' = Tail(stream))
      BY <1>5 DEF RecvField, NextIs
    <3> QED
      BY <1>0, <3>1, StreamFacts DEF TypeOK
  <2>3. TypeOK'
    BY <1>0, <1>5, <2>0, <2>2 DEF RecvField, TypeOK
  <2>4. x \in Int /\ Missing = Header(cmd)[Len(args) + 1]
    BY GotFacts DEF Missing
  <2>5. /\ args' \in Seq(Int) /\ Len(args') = Len(args) + 1
        /\ \A i \in 1 .. Len(args) : args'[i] = args[i]
        /\ args'[Len(args) + 1] = x
    BY <2>0, <2>1, <2>4, AppendProperties
  <2>6. ASSUME NEW i \in 1 .. Len(args') PROVE args'[i] \in Got(Header(cmd)[i])
    <3>1. CASE i \in 1 .. Len(args)
      BY <1>0, <2>0, <2>5, <3>1 DEF ArgsInv
    <3>2. CASE i = Len(args) + 1
      BY <2>1, <2>4, <2>5, <3>2
    <3> QED
      BY <2>0, <2>5, <3>1, <3>2
  <2>7. ArgsInv'
    BY <2>0, <2>5, <2>6 DEF ArgsInv
  <2> QED
    BY <1>1, <1>2, <2>3, <2>7 DEF Inv
<1>6. CASE NoPayload
  <2>1. TypeOK'
    BY <1>0, <1>6 DEF NoPayload, HeaderRead, TypeOK
  <2>2. ArgsInv'
    BY <1>0, <1>6 DEF NoPayload, HeaderRead, ArgsInv
  <2> QED
    BY <1>1, <1>2, <2>1, <2>2 DEF Inv
<1>7. CASE RecvPayload
  <2>0. /\ pc = "fields" /\ pc' = "act" /\ Len(args) = Len(Header(cmd)) /\ cmd \in Commands
        /\ Header(cmd) \in Seq(HeaderNames) /\ UNCHANGED <<cmd, args>>
    BY <1>0, <1>7, HeaderType DEF RecvPayload, HeaderRead, TypeOK
  <2>1. Payload \in 0 .. MaxSize
    BY <1>0, <2>0, SizeOfType DEF ArgsInv, Payload
  <2>2. PICK n \in 0 .. Payload : received' = n /\ stream' = SubSeq(stream, n + 1, Len(stream))
    BY <1>7 DEF RecvPayload
  <2>3. received' \in 0 .. MaxSize
    BY <2>1, <2>2, BoundAssumption
  <2>4. stream' \in Seq(Fields)
    <3>1. n \in Nat /\ stream \in Seq(Fields) /\ Len(stream) \in Nat
      BY <1>0, <2>1, <2>2, LenProperties DEF TypeOK
    <3>2. \A i \in n + 1 .. Len(stream) : stream[i] \in Fields
      BY <3>1, ElementOfSeq
    <3> HIDE DEF Fields
    <3> QED
      BY <2>2, <3>1, <3>2, SubSeqProperties
  <2>5. TypeOK'
    BY <1>0, <1>7, <2>0, <2>3, <2>4 DEF RecvPayload, TypeOK
  <2>6. ArgsInv'
    BY <1>0, <2>0 DEF ArgsInv
  <2> QED
    BY <1>1, <1>2, <2>5, <2>6 DEF Inv
<1> QED
  BY <1>3, <1>4, <1>5, <1>6, <1>7

LEMMA PollingInv ==
    ASSUME Inv, PollGot \/ PollGotPart \/ PollNothing
    PROVE  Inv'
<1>0. TypeOK /\ ArgsInv
  BY DEF Inv
<1> USE DEF fixedVars, peerVars, Settled
<1>1. (RegionFound /\ ProtectionFaithful)'
  BY OtherReply DEF PollGot, PollGotPart, PollNothing
<1>2. CutInv'
  BY CutStep DEF PollGot, PollGotPart, PollNothing
<1>3. ASSUME NEW x \in Int, args' = <<x>>, pc' = "polled" PROVE ArgsInv' /\ Len(args') = 1
  BY <1>3 DEF ArgsInv
<1>4. CASE PollGot
  <2>1. PICK x \in Int : args' = <<x>>
    BY <1>4 DEF PollGot
  <2>2. stream' \in Seq(Fields)
    BY <1>0, <1>4, StreamFacts DEF PollGot, NextIs, TypeOK
  <2>3. ArgsInv' /\ Len(args') = 1
    BY <1>3, <1>4, <2>1 DEF PollGot
  <2>4. TypeOK'
    BY <1>0, <1>4, <2>2, <2>3 DEF PollGot, TypeOK
  <2> QED
    BY <1>1, <1>2, <2>3, <2>4 DEF Inv
<1>5. CASE PollGotPart
  <2>1. PICK x \in Int : args' = <<x>>
    BY <1>5 DEF PollGotPart
  <2>2. stream' \in Seq(Fields)
    <3>1. Field("fragment", 0) \in Fields
      BY FieldType DEF FieldNames, Values
    <3>2. Tail(stream) \in Seq(Fields) /\ stream' = <<Field("fragment", 0)>> \o Tail(stream)
      BY <1>5, StreamFacts DEF PollGotPart, NextIs
    <3>3. <<Field("fragment", 0)>> \in Seq(Fields)
      <4> HIDE DEF Fields
      <4> QED
        BY <3>1
    <3> HIDE DEF Fields
    <3> QED
      BY <3>2, <3>3, ConcatProperties
  <2>3. ArgsInv' /\ Len(args') = 1
    BY <1>3, <1>5, <2>1 DEF PollGotPart
  <2>4. TypeOK'
    BY <1>0, <1>5, <2>2, <2>3 DEF PollGotPart, TypeOK
  <2> QED
    BY <1>1, <1>2, <2>3, <2>4 DEF Inv
<1>6. CASE PollNothing
  <2>0. wouldBlock' \in BOOLEAN /\ nonblocking' \in BOOLEAN
    BY <1>0, <1>6 DEF PollNothing, TimeLeft, TypeOK
  <2>1. pc = "poll"
    BY <1>6 DEF PollNothing
  <2>2. CASE polls + 1 < MaxPolls
    <3>1. polls' \in 0 .. MaxPolls /\ pc' = pc /\ args' = args /\ straggler' = straggler
      BY <1>0, <1>6, <2>2, BoundAssumption DEF PollNothing, TimeLeft, TypeOK
    <3>2. TypeOK'
      BY <1>0, <1>6, <2>0, <2>1, <3>1 DEF PollNothing, TimeLeft, TypeOK
    <3>3. ArgsInv'
      BY <1>0, <2>1, <3>1 DEF ArgsInv
    <3> QED
      BY <1>1, <1>2, <3>2, <3>3 DEF Inv
  <2>3. CASE ~(polls + 1 < MaxPolls)
    <3>0. polls < MaxPolls
      BY <1>0, <2>1 DEF TypeOK
    <3>1. polls' \in 0 .. MaxPolls
      BY <1>0, <1>6, <3>0, BoundAssumption DEF PollNothing, TimeLeft, TypeOK
    <3>2. pc' = "polled" /\ args' = <<-1>> /\ straggler' \in BOOLEAN
      BY <1>0, <1>6, <2>3 DEF PollNothing, TimeLeft, TypeOK
    <3>3. ArgsInv' /\ Len(args') = 1
      BY <1>3, <3>2
    <3>4. TypeOK'
      BY <1>0, <1>6, <2>0, <3>1, <3>2, <3>3 DEF PollNothing, TypeOK
    <3> QED
      BY <1>1, <1>2, <3>3, <3>4 DEF Inv
  <2> QED
    BY <2>2, <2>3
<1> QED
  BY <1>4, <1>5, <1>6

LEMMA NextInv == Inv /\ [Next]_vars => Inv'
<1> SUFFICES ASSUME Inv, [Next]_vars PROVE Inv'
  OBVIOUS
<1>1. CASE Server
  BY <1>1, ReceivingInv, HandlersInv, PollingInv DEF Server
<1>2. CASE UNCHANGED vars
  <2>1. TypeOK' /\ ArgsInv' /\ CutInv'
    BY <1>2 DEF vars, Inv, TypeOK, ArgsInv, CutInv
  <2>2. reply' = reply
    BY <1>2 DEF vars
  <2> QED
    BY <2>1, <2>2, OtherReply DEF Inv
<1> QED
  BY <1>1, <1>2, PeerInv DEF Next

\* Every reachable state of a conversation satisfies the inductive invariant.
THEOREM Invariance == Spec => []Inv
<1> HIDE DEF Inv
<1> QED
  BY InitInv, NextInv, PTL DEF Spec

\* What travels and what handlers receive has its type; the poll for a handle
\* makes no more attempts than its time allows.
THEOREM TypeCorrect == Spec => []TypeOK
<1>1. Inv => TypeOK
  BY DEF Inv
<1> HIDE DEF Inv
<1> QED
  BY <1>1, Invariance, PTL

\* CMD_VIRTUALQUERYEX and CMD_GETREGIONINFO report a region exactly when one
\* contains the address, with its base and size if it is smaller than 2 GiB,
\* for any list of VAD entries.
THEOREM RegionsFound == Spec => []RegionFound
<1>1. Inv => RegionFound
  BY DEF Inv
<1> HIDE DEF Inv
<1> QED
  BY <1>1, Invariance, PTL

\* The protection reported grants what the VAD entry's protection grants.
THEOREM ProtectionsFaithful == Spec => []ProtectionFaithful
<1>1. Inv => ProtectionFaithful
  BY DEF Inv
<1> HIDE DEF Inv
<1> QED
  BY <1>1, Invariance, PTL
==============================================================================
