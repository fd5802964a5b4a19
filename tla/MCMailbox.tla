------------------------------ MODULE MCMailbox ------------------------------
(***************************************************************************)
(* Instances of Mailbox for TLC.                                           *)
(***************************************************************************)
EXTENDS Mailbox, TLC

CONSTANTS m1, m2, m3

TwoMessages == {m1, m2}
ThreeMessages == {m1, m2, m3}

\* No file, one of no bytes, a blank one, one foreign entry, and more than the
\* limit.
AllEdits ==
  {Missing, Empty, <<>>, <<Foreign>>, [i \in 1..(MaxEntries + 1) |-> Foreign]}

MessageSymmetry == Permutations(ThreeMessages)

=============================================================================
