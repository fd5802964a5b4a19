---------------------------- MODULE MCToolServer ----------------------------
(***************************************************************************)
(* Instances of ToolServer for TLC.                                        *)
(***************************************************************************)
EXTENDS ToolServer, TLC

CONSTANTS c1, c2, open, locked, closed, strange

AllTools == DOMAIN Registered
TwoCalls == {c1, c2}
ThreeProjects == {open, locked, closed}
LockedOnly == {locked}
ClosedOnly == {closed}

\* An ordinary title, and one whose slug looks like a secret's name.
SomeTitles == {"Fix login", "Rotate credentials"}
Slug == [t \in SomeTitles |->
           IF t = "Rotate credentials" THEN "rotate-credentials" ELSE "fix-login"]
Secretive == {"rotate-credentials"}

OldSession == {[at |-> 0, slug |-> "fix-login"]}

\* A session everywhere, AGENTS.md in one of the projects.
FirstFiles ==
  ({open, locked, closed} \X {[doc |-> "state", at |-> 0, slug |-> "fix-login"]})
    \cup {<<closed, [doc |-> "agents", at |-> 0, slug |-> "untitled"]>>}

CallSymmetry == Permutations(TwoCalls)

=============================================================================
