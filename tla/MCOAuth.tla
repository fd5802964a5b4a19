------------------------------- MODULE MCOAuth -------------------------------
(***************************************************************************)
(* Instances of OAuth for TLC.                                             *)
(***************************************************************************)
EXTENDS OAuth, TLC

CONSTANTS s1, s2, f1, f2, c1, c2, r1, r2

OneState == {s1}
TwoStates == {s1, s2}
OneFlow == {f1}
TwoFlows == {f1, f2}
OneCode == {c1}
TwoCodes == {c1, c2}
TwoRequests == {r1, r2}

OAuthSymmetry ==
  Permutations(TwoStates) \cup Permutations(TwoFlows) \cup
  Permutations(TwoCodes) \cup Permutations(TwoRequests)

=============================================================================
