------------------------------ MODULE MCWorkflow ------------------------------
(***************************************************************************)
(* Instances of Workflow for TLC.                                          *)
(***************************************************************************)
EXTENDS Workflow, TLC

CONSTANTS c1, c2, x1, x2, tA, pA

MCCalls == {c1, c2}
OneCall == {c1}
OneContent == {x1}
TwoContents == {x1, x2}
OneTitle == {tA}
OnePrompt == {pA}

\* Every session may have been left behind by an earlier server version.
AllLegacy == (0..(MaxTime - 1)) \X Titles
\* Only the sessions of the first second may.
FirstLegacy == {0} \X Titles
NoLegacy == {}

\* Handlers are interchangeable, and so are the contents.
CallSymmetry == Permutations(MCCalls)
DataSymmetry == Permutations(MCCalls) \cup Permutations(TwoContents)

=============================================================================
