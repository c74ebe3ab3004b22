------------------------------ MODULE MCMemory ------------------------------
(***************************************************************************)
(* Instances of Memory for TLC.                                            *)
(***************************************************************************)
EXTENDS Memory, TLC

CONSTANTS c1, c2, c3, i1, i2, i3, i4

Req(p, a, n) == [pid |-> p, addr |-> a, size |-> n]

\* Two processes; for one of them an address read in two sizes, and a read
\* that reaches the byte limit by itself.
MixedRequests == {Req("p", "x", 1), Req("p", "x", 2), Req("p", "x", 4), Req("q", "x", 1)}

\* One process, as seen by a Cheat Engine attached to it.
OneProcess == {Req("p", "x", 1), Req("p", "y", 1)}

\* Three reads of one process of which a batch takes at most two, because of
\* their number or of their sizes.
ManyRequests == {Req("p", "x", 1), Req("p", "y", 1), Req("p", "x", 2)}

\* Two processes, so that a batch for one leaves reads of the other behind.
TwoProcesses == {Req("p", "x", 1), Req("p", "y", 1), Req("q", "x", 1)}

\* A read of exactly MAX_BYTES_PER_DISPATCH bytes among the others.
WithHugeRead == {Req("p", "x", 1), Req("p", "y", 4)}

Symmetry == Permutations(Threads) \cup Permutations(Items)
=============================================================================
