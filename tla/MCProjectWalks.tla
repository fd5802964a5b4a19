--------------------------- MODULE MCProjectWalks ---------------------------
(***************************************************************************)
(* Instances of ProjectWalks for TLC.                                      *)
(***************************************************************************)
EXTENDS ProjectWalks

\* In the order of their bytes.
InByteOrder == <<".aws", ".git", "Makefile", "credentials", "lib", "main.go", "vendor">>
SomeNames == ToSet(InByteOrder)
ByteOrder == [n \in SomeNames |-> CHOOSE i \in DOMAIN InByteOrder : InByteOrder[i] = n]

SomeFolders ==
  {<<".aws">>, <<".git">>, <<"credentials">>, <<"lib">>, <<"lib", ".git">>,
   <<"lib", "lib">>, <<"lib", "lib", "lib">>, <<"vendor">>}
SomeFiles ==
  {<<".aws", "main.go">>, <<".git", "main.go">>, <<"Makefile">>,
   <<"credentials", "main.go">>, <<"lib", ".git", "main.go">>,
   <<"lib", "lib", "Makefile">>, <<"lib", "lib", "lib", "main.go">>,
   <<"lib", "vendor">>, <<"main.go">>, <<"vendor", "main.go">>}
Everything == SomeFolders \cup SomeFiles

AllOrLess ==
  {Everything, {p \in Everything : p[1] # "lib" /\ p # <<"Makefile">>}}

OneFolder == {<<"vendor">>}
OneBinary == {<<"lib", "lib", "Makefile">>}
AllButOne == SomeFiles \ {<<"Makefile">>}
TwoInMain ==
  [p \in Everything |-> IF Last(p) = "main.go" THEN 2 ELSE 1]

=============================================================================
