----------------------------- MODULE MCAtomicFile -----------------------------
(***************************************************************************)
(* Instances of AtomicFile for TLC.                                        *)
(***************************************************************************)
EXTENDS AtomicFile, TLC

CONSTANTS p1, p2, w1, w2, r1, i1, i2, i3, i4, i5, short, long

OnePath == {p1}
TwoPaths == {p1, p2}
TwoWriters == {w1, w2}
OneReader == {r1}
FourInodes == {i1, i2, i3, i4}
FiveInodes == {i1, i2, i3, i4, i5}
ShortAndLong == {short, long}

\* One content of one chunk and one of two.
Sizes == [v \in ShortAndLong |-> IF v = short THEN 1 ELSE 2]

FileSymmetry == Permutations(TwoPaths) \cup Permutations(TwoWriters) \cup Permutations(FiveInodes)
SharedSymmetry == Permutations(TwoWriters) \cup Permutations(FourInodes)

=============================================================================
