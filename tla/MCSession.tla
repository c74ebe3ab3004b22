----------------------------- MODULE MCSession -----------------------------
(***************************************************************************)
(* The instance of Session for TLC: integers of a few bits, and VAD        *)
(* entries around the limits: adjacent regions, a hole, a region of half   *)
(* and of the full range of an int32_t, all protections, names around the  *)
(* 127 characters and the byte that counts them.                           *)
(***************************************************************************)
EXTENDS Session

Vad(s, e, p, private, type, name) ==
    [start |-> s, end |-> e, prot |-> p, private |-> private, type |-> type, name |-> name]

Plain(s, e) == Vad(s, e, 4, TRUE, 0, 0)

SomeVadLists ==
    {<<>>, <<Plain(1, 2), Plain(3, 4)>>, <<Plain(1, 1), Plain(3, 4)>>, <<Plain(1, 8)>>, <<Plain(1, 16)>>}
    \cup {<<Vad(1, 4, p, FALSE, 1, 0)>> : p \in 0 .. 31}
    \cup {<<Vad(1, 4, 1, FALSE, 2, n)>> : n \in {1, 126, 127, 128, 300}}
=============================================================================
