------------------------------ MODULE Regions ------------------------------
(***************************************************************************)
(* What the server reports of a process's memory: the regions of its VAD   *)
(* (virtual address descriptor) entries with protection, type, size and    *)
(* name (Client.cpp, Memory.h).  An entry is                               *)
(*   [start, end, prot, private, type, name]                               *)
(* with prot its five protection bits and name the length of its text.     *)
(***************************************************************************)
EXTENDS Integers

CONSTANTS
    Half,   \* half the range of an int32_t (2^31)
    Wide,   \* the range of a uint64_t (2^64)
    Absent  \* no region, no number

ASSUME WidthAssumption == Half \in Nat /\ Wide \in Nat /\ 0 < Half /\ 2 * Half <= Wide

VadEntry == [start : Nat, end : Nat, prot : Nat, private : BOOLEAN, type : Nat, name : Nat]

ASSUME AbsentAssumption == Absent \notin VadEntry

-----------------------------------------------------------------------------
(* MemoryRegion *)

Int32(n) == ((n + Half) % (2 * Half)) - Half
Uint64(n) == n % Wide

\* regionSize, an int32_t.
RegionSize(v) == Int32(v.end - v.start + 1)

\* An entry without a text is named after its use: "<heap>", ..., "<unknown>".
\* The shortest of these names has five characters.
UnnamedLength == 5
NameLength(v) == IF v.name = 0 THEN UnnamedLength ELSE v.name

-----------------------------------------------------------------------------
(* Protection and type *)

\* The low three protection bits; 'w' and 'x' of vadProtectionToHumanReadable.
Low(v) == v.prot % 8

\* Mutant of Executable: the bit next to it.
ReadBit(v) == Low(v) % 2 = 1

Writable(v) == (Low(v) \div 4) % 2 = 1
Executable(v) == (Low(v) \div 2) % 2 = 1

\* vadProtectionToWin32Protection
Win32Protection(v) ==
    IF Executable(v) THEN (IF Writable(v) THEN "PAGE_EXECUTE_READWRITE" ELSE "PAGE_EXECUTE_READ")
    ELSE (IF Writable(v) THEN "PAGE_READWRITE" ELSE "PAGE_READONLY")

\* vadTypeToWin32Type
Win32Type(v) ==
    IF v.private THEN "MEM_PRIVATE" ELSE IF v.type = 2 THEN "MEM_IMAGE" ELSE "MEM_MAPPED"

-----------------------------------------------------------------------------
(* Replies *)

\* What CMD_VIRTUALQUERYEX, CMD_GETREGIONINFO and CMD_VIRTUALQUERYEXFULL send of
\* a region: the size goes from int32_t to uint64_t.
RegionInfo(v) ==
    [base |-> v.start, size |-> Uint64(RegionSize(v)),
     protection |-> Win32Protection(v), type |-> Win32Type(v)]

\* Mutant of Contains: the last address of a region is left out.
ContainsBelowEnd(v, a) == v.start <= a /\ a < v.end

Contains(v, a) == v.start <= a /\ a <= v.end

\* handleCommandGetRegionInfo: the first region with the address, if any.
Lookup(vads, a) ==
    IF \E i \in DOMAIN vads : Contains(vads[i], a)
    THEN vads[CHOOSE i \in DOMAIN vads :
                /\ Contains(vads[i], a)
                /\ \A j \in DOMAIN vads : Contains(vads[j], a) => i <= j]
    ELSE Absent

NameLimit == 127

\* The characters of a name CMD_GETREGIONINFO sends, and the byte that counts them.
Truncated(n) == IF n < NameLimit THEN n ELSE NameLimit
ByteOf(n) == n % 256

-----------------------------------------------------------------------------
(* References *)

\* The rights the eight protections of a Windows VAD entry grant.
Rights == <<{}, {"r"}, {"x"}, {"r", "x"},
            {"r", "w"}, {"r", "w"}, {"r", "w", "x"}, {"r", "w", "x"}>>

\* The rights of the protections that are reported.
Granted(protection) ==
    CASE protection = "PAGE_EXECUTE_READWRITE" -> {"r", "w", "x"}
      [] protection = "PAGE_EXECUTE_READ" -> {"r", "x"}
      [] protection = "PAGE_READWRITE" -> {"r", "w"}
      [] protection = "PAGE_READONLY" -> {"r"}
=============================================================================
