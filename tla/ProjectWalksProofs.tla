------------------------- MODULE ProjectWalksProofs -------------------------
(***************************************************************************)
(* What the walks of module ProjectWalks keep to in every project, however *)
(* deep, with any limits, names and changes by other programs: the types,  *)
(* the limits, the order of the answers, that they list what they should   *)
(* and nothing else, and what they are exactly when no file changes.       *)
(***************************************************************************)
EXTENDS ProjectWalks, SequenceTheorems, FiniteSetTheorems, WellFoundedInduction, TLAPS

(* Sequences and names *)

LEMMA PrefixFacts ==
  ASSUME NEW S, NEW s \in Seq(S), NEW k \in 0..Len(s)
  PROVE  /\ SubSeq(s, 1, k) \in Seq(S) /\ Len(SubSeq(s, 1, k)) = k
         /\ \A i \in 1..k : SubSeq(s, 1, k)[i] = s[i]
<1>1. \A i \in 1..k : s[i] \in S
  BY ElementOfSeq, LenProperties
<1>2. /\ SubSeq(s, 1, k) \in Seq(S)
      /\ Len(SubSeq(s, 1, k)) = IF 1 <= k THEN k - 1 + 1 ELSE 0
      /\ \A i \in 1..(k - 1 + 1) : SubSeq(s, 1, k)[i] = s[1 + i - 1]
  BY <1>1, SubSeqProperties, LenProperties
<1> QED BY <1>2

LEMMA SamePrefix ==
  ASSUME NEW S, NEW s \in Seq(S), NEW t \in Seq(S), NEW k \in 0..Len(s), k <= Len(t),
         \A i \in 1..k : s[i] = t[i]
  PROVE  SubSeq(s, 1, k) = SubSeq(t, 1, k)
<1>1. k \in 0..Len(t)
  BY LenProperties
<1>2. /\ SubSeq(s, 1, k) \in Seq(S) /\ Len(SubSeq(s, 1, k)) = k
      /\ SubSeq(t, 1, k) \in Seq(S) /\ Len(SubSeq(t, 1, k)) = k
      /\ \A i \in 1..k : SubSeq(s, 1, k)[i] = SubSeq(t, 1, k)[i]
  BY <1>1, PrefixFacts
<1> QED BY <1>2, SeqEqual

LEMMA FrontFacts ==
  ASSUME NEW S, NEW s \in Seq(S), s # <<>>
  PROVE  /\ Front(s) \in Seq(S) /\ Len(Front(s)) = Len(s) - 1
         /\ \A i \in 1..(Len(s) - 1) : Front(s)[i] = s[i]
         /\ Last(s) = s[Len(s)] /\ Last(s) \in S /\ Len(s) \in Nat \ {0}
<1>1. Len(s) \in Nat \ {0}
  BY EmptySeq
<1>2. Last(s) \in S
  BY <1>1, ElementOfSeq DEF Last
<1>3. Len(s) - 1 \in 0..Len(s)
  BY <1>1
<1>4. /\ Front(s) \in Seq(S) /\ Len(Front(s)) = Len(s) - 1
      /\ \A i \in 1..(Len(s) - 1) : Front(s)[i] = s[i]
  BY <1>3, PrefixFacts, Zenon DEF Front
<1> QED BY <1>1, <1>2, <1>4 DEF Last

\* Of any names, one comes first.
LEMMA FirstIsOne ==
  ASSUME NEW names \in SUBSET Names, names # {}
  PROVE  First(names) \in names /\ \A m \in names : Rank[First(names)] <= Rank[m]
<1> DEFINE Below(n) == {m \in names : Rank[m] < Rank[n]}
           Lower == {Below(n) : n \in names}
<1>1. IsWellFoundedOn(StrictSubsetOrdering(names), SUBSET names)
  <2>1. IsFiniteSet(names)
    BY FS_Subset, WorldAssumption
  <2> QED BY <2>1, FS_FiniteSubsetsOfFinite, FS_StrictSubsetOrderingWellFounded
<1>2. Lower \subseteq SUBSET names /\ Lower # {}
  OBVIOUS
<1>3. PICK low \in Lower : \A b \in Lower : <<b, low>> \notin StrictSubsetOrdering(names)
  BY <1>1, <1>2, WFMin
<1>4. PICK n \in names : low = Below(n)
  OBVIOUS
<1>5. ASSUME NEW m \in names PROVE Rank[n] <= Rank[m]
  <2>1. SUFFICES ASSUME Rank[m] < Rank[n] PROVE FALSE
    BY WorldAssumption
  <2>2. Below(m) \subseteq Below(n)
    BY <2>1, WorldAssumption
  <2>3. m \in Below(n) /\ m \notin Below(m)
    BY <2>1, WorldAssumption
  <2>4. <<Below(m), low>> \in StrictSubsetOrdering(names)
    BY <1>4, <2>2, <2>3 DEF StrictSubsetOrdering
  <2> QED BY <1>3, <2>4
<1> QED BY <1>5 DEF First

-----------------------------------------------------------------------------
(* Where a walk is *)

\* What the request may be, and what the names still to come refer to: paths
\* that have been there since the walk began.
SpotInv ==
  /\ request \in Requests \cup {NoRequest}
  /\ at \in Seq(Names)
  /\ rest \in Seq(SUBSET Names)
  /\ Walking => Len(rest) = Len(at) + 1
  /\ \A k \in 1..Len(rest) : \A n \in rest[k] : Append(SubSeq(at, 1, k - 1), n) \in ever

DiskInv ==
  /\ there \subseteq World /\ IsClosed(there)
  /\ changes \in 0..MaxChanges
  /\ always \subseteq there /\ there \subseteq ever /\ ever \subseteq World

LEMMA RequestFacts ==
  ASSUME NEW r \in Requests \cup {NoRequest}
  PROVE  r.max \in Nat /\ r.depth \in Nat /\ r.walk \in {"tree", "search", "list", "none"}
<1>1. CASE r \in TreeRequests
  BY <1>1, RequestAssumption DEF TreeRequests, Request
<1>2. CASE r \in InspectRequests
  BY <1>2, RequestAssumption DEF InspectRequests, Request
<1>3. CASE r \in SearchRequests
  BY <1>3, RequestAssumption DEF SearchRequests, Request
<1>4. CASE r \in ListRequests
  BY <1>4, RequestAssumption DEF ListRequests, Request
<1>5. CASE r = NoRequest
  BY <1>5 DEF NoRequest, Request
<1> QED BY <1>1, <1>2, <1>3, <1>4, <1>5 DEF Requests

\* What there is to know of the name a walk deals with next.
LEMMA EntryFacts ==
  ASSUME SpotInv, AtEntry
  PROVE  /\ Len(rest) = Len(at) + 1 /\ Len(at) \in Nat
         /\ Name \in Names /\ Name \in rest[Len(rest)]
         /\ \A m \in rest[Len(rest)] : Rank[Name] <= Rank[m]
         /\ Path \in Seq(Names) /\ Len(Path) = Len(at) + 1 /\ Path \in ever
         /\ \A i \in 1..Len(at) : Path[i] = at[i]
         /\ Path[Len(at) + 1] = Name
<1>1. rest # <<>> /\ Last(rest) # {} /\ Len(rest) = Len(at) + 1 /\ Len(at) \in Nat
  BY LenProperties DEF AtEntry, Walking, SpotInv
<1>2. Last(rest) = rest[Len(rest)] /\ Last(rest) \in SUBSET Names
  BY <1>1, FrontFacts DEF SpotInv
<1>3. Name \in Last(rest) /\ \A m \in Last(rest) : Rank[Name] <= Rank[m]
  BY <1>1, <1>2, FirstIsOne DEF Name
<1>4. Name \in Names
  BY <1>2, <1>3
<1>5. /\ Path \in Seq(Names) /\ Len(Path) = Len(at) + 1
      /\ \A i \in 1..Len(at) : Path[i] = at[i]
      /\ Path[Len(at) + 1] = Name
  BY <1>4, AppendProperties DEF Path, SpotInv
<1>6. SubSeq(at, 1, Len(rest) - 1) = at
  BY <1>1, SubSeqFull DEF SpotInv
<1>7. Path \in ever
  <2>1. Len(rest) \in 1..Len(rest) /\ Name \in rest[Len(rest)]
    BY <1>1, <1>2, <1>3
  <2>2. Append(SubSeq(at, 1, Len(rest) - 1), Name) \in ever
    BY <2>1 DEF SpotInv
  <2> QED BY <1>6, <2>2 DEF Path
<1> QED BY <1>1, <1>2, <1>3, <1>4, <1>5, <1>7

\* The names to come when the next one is dealt with.
LEMMA RestFacts ==
  ASSUME SpotInv, AtEntry
  PROVE  /\ Rest \in Seq(SUBSET Names) /\ Len(Rest) = Len(rest) /\ Rest # <<>>
         /\ \A k \in 1..Len(rest) :
              Rest[k] = IF k = Len(rest) THEN rest[k] \ {Name} ELSE rest[k]
<1>1. Len(rest) \in Nat \ {0} /\ rest[Len(rest)] \in SUBSET Names
  BY EmptySeq, ElementOfSeq DEF AtEntry, Walking, SpotInv
<1>2. Rest \in Seq(SUBSET Names) /\ Len(Rest) = Len(rest)
  BY <1>1, ExceptSeq DEF Rest, SpotInv
<1>3. DOMAIN rest = 1..Len(rest)
  BY LenProperties DEF SpotInv
<1> QED BY <1>1, <1>2, <1>3, EmptySeq DEF Rest

\* The moves of a walk: past a name, into a directory, out of one.
Stays == at' = at /\ rest' = Rest
Descends == at' = Path /\ rest' = Append(Rest, ReadDir(Path))
Ascends == at # <<>> /\ at' = Front(at) /\ rest' = Front(rest)
Ends == at' = <<>> /\ rest' = <<>>

LEMMA DescendFacts ==
  ASSUME SpotInv, AtEntry, Descends
  PROVE  /\ at' \in Seq(Names) /\ Len(at') = Len(at) + 1
         /\ rest' \in Seq(SUBSET Names) /\ Len(rest') = Len(rest) + 1
         /\ \A k \in 1..Len(rest) : rest'[k] = Rest[k] /\ SubSeq(at', 1, k - 1) = SubSeq(at, 1, k - 1)
         /\ rest'[Len(rest) + 1] = ReadDir(Path) /\ SubSeq(at', 1, Len(rest)) = Path
<1>1. ReadDir(Path) \in SUBSET Names
  BY DEF ReadDir
<1>2. Len(rest) = Len(at) + 1 /\ Len(at) \in Nat /\ at \in Seq(Names) /\ Path \in Seq(Names)
      /\ Len(Path) = Len(at) + 1 /\ \A i \in 1..Len(at) : Path[i] = at[i]
  BY EntryFacts DEF SpotInv
<1>3. /\ rest' \in Seq(SUBSET Names) /\ Len(rest') = Len(rest) + 1
      /\ \A k \in 1..Len(rest) : rest'[k] = Rest[k]
      /\ rest'[Len(rest) + 1] = ReadDir(Path)
  BY <1>1, RestFacts, AppendProperties DEF Descends
<1>4. ASSUME NEW k \in 1..Len(rest) PROVE SubSeq(at', 1, k - 1) = SubSeq(at, 1, k - 1)
  <2>1. k - 1 \in 0..Len(Path) /\ k - 1 <= Len(at) /\ \A i \in 1..(k - 1) : Path[i] = at[i]
    BY <1>2
  <2>2. SubSeq(Path, 1, k - 1) = SubSeq(at, 1, k - 1)
    BY <1>2, <2>1, SamePrefix
  <2> QED BY <2>2 DEF Descends
<1>5. SubSeq(at', 1, Len(rest)) = Path
  <2>1. SubSeq(Path, 1, Len(Path)) = Path
    BY <1>2, SubSeqFull
  <2> QED BY <1>2, <2>1 DEF Descends
<1> QED BY <1>2, <1>3, <1>4, <1>5 DEF Descends

LEMMA AscendFacts ==
  ASSUME SpotInv, Walking, Ascends
  PROVE  /\ at' \in Seq(Names) /\ Len(at') = Len(at) - 1 /\ Len(at) \in Nat \ {0}
         /\ \A i \in 1..Len(at') : at'[i] = at[i]
         /\ rest' \in Seq(SUBSET Names) /\ Len(rest') = Len(rest) - 1 /\ Len(rest) = Len(at) + 1
         /\ \A k \in 1..Len(rest') : rest'[k] = rest[k] /\ SubSeq(at', 1, k - 1) = SubSeq(at, 1, k - 1)
<1>1. Len(rest) = Len(at) + 1 /\ rest # <<>>
  BY DEF SpotInv, Walking
<1>2. /\ at' \in Seq(Names) /\ Len(at') = Len(at) - 1 /\ Len(at) \in Nat \ {0}
      /\ \A i \in 1..(Len(at) - 1) : at'[i] = at[i]
  BY FrontFacts DEF Ascends, SpotInv
<1>3. /\ rest' \in Seq(SUBSET Names) /\ Len(rest') = Len(rest) - 1
      /\ \A k \in 1..(Len(rest) - 1) : rest'[k] = rest[k]
  BY <1>1, FrontFacts DEF Ascends, SpotInv
<1>4. ASSUME NEW k \in 1..Len(rest') PROVE SubSeq(at', 1, k - 1) = SubSeq(at, 1, k - 1)
  <2>1. k - 1 \in 0..Len(at') /\ k - 1 <= Len(at) /\ \A i \in 1..(k - 1) : at'[i] = at[i]
    BY <1>1, <1>2, <1>3
  <2>2. at \in Seq(Names)
    BY DEF SpotInv
  <2> QED BY <1>2, <2>1, <2>2, SamePrefix
<1> QED BY <1>1, <1>2, <1>3, <1>4

\* Every step of a walk is one of the moves.
LEMMA Moves ==
  ASSUME SpotInv, Step
  PROVE  /\ request' = request /\ Walking
         /\ \/ AtEntry /\ Stays
            \/ AtEntry /\ Descends
            \/ Ascends
            \/ Ends
<1>1. CASE PassOver
  BY <1>1 DEF PassOver, Stays, AtEntry
<1>2. CASE Enter
  BY <1>2 DEF Enter, Stays, Descends, AtEntry
<1>3. CASE ListFile
  BY <1>3 DEF ListFile, Stays, AtEntry
<1>4. CASE SearchFile
  BY <1>4 DEF SearchFile, Stays, Ends, AtEntry
<1>5. CASE Leave
  <2>1. CASE at # <<>>
    BY <1>5, <2>1 DEF Leave, Ascends
  <2>2. CASE at = <<>>
    <3>1. Len(rest) = 1 /\ rest # <<>> /\ rest \in Seq(SUBSET Names)
      BY <1>5, <2>2, EmptySeq DEF Leave, SpotInv, Walking
    <3>2. Front(rest) \in Seq(SUBSET Names) /\ Len(Front(rest)) = 0
      BY <3>1, FrontFacts
    <3>3. Front(rest) = <<>>
      BY <3>2, EmptySeq
    <3> QED BY <1>5, <2>2, <3>3 DEF Leave, Ends
  <2> QED BY <2>1, <2>2
<1> QED BY <1>1, <1>2, <1>3, <1>4, <1>5 DEF Step

LEMMA StepSpot ==
  ASSUME SpotInv, DiskInv, Step
  PROVE  SpotInv'
<1>1. ever' = ever /\ there' = there
  BY DEF Step, PassOver, Enter, ListFile, SearchFile, Leave, diskVars
<1>2. request' = request /\ Walking
  BY Moves
<1>3. CASE AtEntry /\ Stays
  <2>1. at' = at /\ rest' = Rest
    BY <1>3 DEF Stays
  <2>2. /\ Rest \in Seq(SUBSET Names) /\ Len(Rest) = Len(rest)
        /\ \A k \in 1..Len(rest) : Rest[k] \subseteq rest[k]
    BY <1>3, RestFacts
  <2> QED BY <1>1, <1>2, <2>1, <2>2 DEF SpotInv, Walking
<1>4. CASE AtEntry /\ Descends
  <2>1. /\ at' \in Seq(Names) /\ Len(at') = Len(at) + 1
        /\ rest' \in Seq(SUBSET Names) /\ Len(rest') = Len(rest) + 1
        /\ \A k \in 1..Len(rest) : rest'[k] = Rest[k] /\ SubSeq(at', 1, k - 1) = SubSeq(at, 1, k - 1)
        /\ rest'[Len(rest) + 1] = ReadDir(Path) /\ SubSeq(at', 1, Len(rest)) = Path
    BY <1>4, DescendFacts
  <2>2. Len(rest) = Len(at) + 1 /\ Len(at) \in Nat
    BY <1>4, EntryFacts
  <2>3. ASSUME NEW k \in 1..Len(rest'), NEW n \in rest'[k]
        PROVE  Append(SubSeq(at', 1, k - 1), n) \in ever
    <3>1. CASE k \in 1..Len(rest)
      <4>1. n \in rest[k]
        BY <1>4, <2>1, <2>3, <3>1, RestFacts
      <4> QED BY <2>1, <3>1, <4>1 DEF SpotInv
    <3>2. CASE k = Len(rest) + 1
      <4>1. n \in ReadDir(Path) /\ k - 1 = Len(rest)
        BY <2>1, <2>2, <2>3, <3>2
      <4>2. Append(Path, n) \in there
        BY <4>1 DEF ReadDir
      <4> QED BY <2>1, <4>1, <4>2 DEF DiskInv
    <3> QED BY <2>1, <2>2, <3>1, <3>2
  <2>4. Len(rest') = Len(at') + 1
    BY <2>1, <2>2
  <2> QED BY <1>1, <1>2, <2>1, <2>3, <2>4 DEF SpotInv
<1>5. CASE Ascends
  <2>1. /\ at' \in Seq(Names) /\ Len(at') = Len(at) - 1 /\ Len(at) \in Nat \ {0}
        /\ rest' \in Seq(SUBSET Names) /\ Len(rest') = Len(rest) - 1 /\ Len(rest) = Len(at) + 1
        /\ \A k \in 1..Len(rest') : rest'[k] = rest[k] /\ SubSeq(at', 1, k - 1) = SubSeq(at, 1, k - 1)
    BY <1>2, <1>5, AscendFacts
  <2>2. Len(rest') = Len(at') + 1 /\ 1..Len(rest') \subseteq 1..Len(rest)
    BY <2>1
  <2> QED BY <1>1, <1>2, <2>1, <2>2 DEF SpotInv
<1>6. CASE Ends
  <2>1. at' = <<>> /\ rest' = <<>> /\ 1..0 = {}
    BY <1>6 DEF Ends
  <2> QED BY <1>1, <1>2, <2>1, EmptySeq DEF SpotInv, Walking
<1> QED BY <1>3, <1>4, <1>5, <1>6, Moves

LEMMA AskSpot ==
  ASSUME SpotInv, DiskInv, NEW r \in Requests, Ask(r)
  PROVE  SpotInv'
<1>1. request' = r /\ at' = <<>> /\ ever' = there
  BY DEF Ask
<1>2. CASE rest' = <<>>
  <2>1. Len(rest') = 0 /\ 1..0 = {}
    BY <1>2
  <2> QED BY <1>1, <1>2, <2>1, EmptySeq DEF SpotInv, Walking
<1>3. CASE rest' = <<ReadDir(<<>>)>>
  <2>1. Len(rest') = 1 /\ rest'[1] = ReadDir(<<>>) /\ rest' \in Seq(SUBSET Names)
    BY <1>3 DEF ReadDir
  <2>2. SubSeq(<<>>, 1, 0) = <<>>
    BY SubSeqEmpty
  <2>3. \A n \in ReadDir(<<>>) : Append(<<>>, n) \in there
    BY DEF ReadDir
  <2>4. at' \in Seq(Names) /\ Len(at') = 0
    BY <1>1
  <2>5. ASSUME NEW k \in 1..Len(rest'), NEW n \in rest'[k]
        PROVE  Append(SubSeq(at', 1, k - 1), n) \in ever'
    <3>1. k = 1 /\ n \in ReadDir(<<>>) /\ SubSeq(at', 1, k - 1) = <<>>
      BY <1>1, <2>1, <2>2, <2>5
    <3> QED BY <1>1, <2>3, <3>1
  <2>6. Len(rest') = Len(at') + 1
    BY <2>1, <2>4
  <2> QED BY <1>1, <2>1, <2>4, <2>5, <2>6 DEF SpotInv
<1> QED BY <1>2, <1>3 DEF Ask

-----------------------------------------------------------------------------
(* The files, and what has been found of them *)

FoundInv == found \in Seq([path : ever \cup {<<>>}, line : Nat])

LEMMA ParentBelow ==
  ASSUME NEW p \in Seq(Names), NEW q \in Seq(Names), q # <<>>, IsPrefix(p, Parent(q))
  PROVE  IsPrefix(p, q)
<1>1. /\ Parent(q) \in Seq(Names) /\ Len(Parent(q)) = Len(q) - 1 /\ Len(q) \in Nat
      /\ \A i \in 1..(Len(q) - 1) : Parent(q)[i] = q[i]
  BY FrontFacts DEF Parent
<1>2. Len(p) <= Len(q) - 1 /\ Len(p) \in Nat
  BY <1>1, LenProperties DEF IsPrefix
<1>3. SubSeq(p, 1, Len(p)) = SubSeq(Parent(q), 1, Len(p))
  BY DEF IsPrefix
<1>4. Len(p) \in 0..Len(Parent(q)) /\ \A i \in 1..Len(p) : Parent(q)[i] = q[i]
  BY <1>1, <1>2
<1>5. SubSeq(Parent(q), 1, Len(p)) = SubSeq(q, 1, Len(p))
  BY <1>1, <1>2, <1>4, SamePrefix
<1> QED BY <1>2, <1>1, <1>3, <1>5 DEF IsPrefix

LEMMA ChangeDisk ==
  ASSUME DiskInv, NEW p \in World, Create(p) \/ Delete(p), changes' \in 0..MaxChanges
  PROVE  DiskInv' /\ ever \subseteq ever'
<1>1. CASE Create(p)
  <2>1. there' = there \cup {p} /\ ever' = ever \cup {p} /\ always' = always
    BY <1>1 DEF Create
  <2>2. IsClosed(there')
    BY <1>1, <2>1 DEF Create, IsClosed, DiskInv
  <2> QED BY <2>1, <2>2 DEF DiskInv, IsClosed
<1>2. CASE Delete(p)
  <2>1. /\ there' = {q \in there : ~IsPrefix(p, q)}
        /\ ever' = ever /\ always' = always \cap there'
    BY <1>2 DEF Delete
  <2>2. ASSUME NEW q \in there', Len(q) > 1 PROVE Parent(q) \in there' \cap Folders
    <3>1. q \in there /\ ~IsPrefix(p, q) /\ Parent(q) \in there \cap Folders
      BY <2>1, <2>2 DEF DiskInv, IsClosed
    <3>2. p \in Seq(Names) /\ q \in Seq(Names) /\ q # <<>>
      BY <3>1, WorldAssumption DEF DiskInv
    <3>3. ~IsPrefix(p, Parent(q))
      BY <3>1, <3>2, ParentBelow
    <3> QED BY <2>1, <3>1, <3>3
  <2>3. IsClosed(there')
    BY <2>2 DEF IsClosed
  <2> QED BY <2>1, <2>3 DEF DiskInv, IsClosed
<1> QED BY <1>1, <1>2

\* What a step of a walk adds to an answer: an entry it has reached, some
\* matching lines of it, or the project itself.
LEMMA SearchAdds ==
  ASSUME SpotInv, DiskInv, FoundInv, Capped, SearchFile
  PROVE  /\ Path \in ever
         /\ \E new \in Nat :
              /\ new <= request.max - Len(found) /\ new <= Lines[Path]
              /\ found' = found \o [i \in 1..new |-> Result(Path, i)]
<1>1. AtEntry /\ Path \in ever
  BY EntryFacts DEF SearchFile
<1>2. Len(found) \in Nat /\ request.max \in Nat /\ Len(found) <= request.max
  <2>1. request.walk = "search"
    BY DEF SearchFile
  <2> QED BY <2>1, LenProperties, RequestFacts DEF SpotInv, FoundInv, Capped
<1>3. Lines[Path] \in Nat
  BY <1>1, WorldAssumption DEF DiskInv
<1> DEFINE hits == IF Path \in there THEN Lines[Path] ELSE 0
           room == request.max - Len(found)
           new == IF hits <= room THEN hits ELSE room
<1>4. new \in Nat /\ new <= request.max - Len(found) /\ new <= Lines[Path]
  BY <1>2, <1>3
<1>5. found' = found \o [i \in 1..new |-> Result(Path, i)]
  BY DEF SearchFile
<1> HIDE DEF new
<1> QED BY <1>1, <1>4, <1>5

LEMMA StepAdds ==
  ASSUME SpotInv, DiskInv, FoundInv, Capped, Step
  PROVE  \/ found' = found
         \/ /\ AtEntry /\ ~Passes /\ request.walk # "search"
            /\ found' = Append(found, Result(Path, 0))
         \/ SearchFile
         \/ /\ Leave /\ request.walk = "list" /\ at = <<>>
            /\ found' = <<Result(<<>>, 0)>> \o found
<1>1. CASE PassOver
  BY <1>1 DEF PassOver
<1>2. CASE Enter
  BY <1>2 DEF Enter
<1>3. CASE ListFile
  BY <1>3 DEF ListFile
<1>4. CASE Leave
  BY <1>4 DEF Leave
<1> QED BY <1>1, <1>2, <1>3, <1>4 DEF Step

LEMMA ResultTyped ==
  ASSUME NEW p \in ever \cup {<<>>}, NEW n \in Nat
  PROVE  Result(p, n) \in [path : ever \cup {<<>>}, line : Nat]
BY DEF Result

LEMMA StepFound ==
  ASSUME SpotInv, DiskInv, FoundInv, Capped, Step
  PROVE  FoundInv' /\ Capped'
<1> DEFINE R == [path : ever \cup {<<>>}, line : Nat]
<1>1. ever' = ever /\ request' = request /\ found \in Seq(R) /\ Len(found) \in Nat
      /\ request.max \in Nat
  BY LenProperties, RequestFacts, Moves
     DEF Step, PassOver, Enter, ListFile, SearchFile, Leave, diskVars, FoundInv, SpotInv
<1> SUFFICES found' \in Seq(R) /\ Capped'
  BY <1>1 DEF FoundInv
<1>2. CASE found' = found
  BY <1>1, <1>2 DEF Capped
<1>3. CASE AtEntry /\ found' = Append(found, Result(Path, 0)) /\ request.walk # "search"
  <2>1. Result(Path, 0) \in R
    BY <1>3, EntryFacts, ResultTyped
  <2> HIDE DEF R
  <2>2. found' \in Seq(R) /\ Len(found') = Len(found) + 1
    BY <1>1, <1>3, <2>1, AppendProperties
  <2>3. request.walk = "tree" => Len(found) < request.max
    BY <1>1, <1>3 DEF AtEntry, Full
  <2> QED BY <1>1, <1>3, <2>2, <2>3 DEF Capped
<1>4. ASSUME NEW new \in Nat, new <= request.max - Len(found), Path \in ever,
             found' = found \o [i \in 1..new |-> Result(Path, i)]
      PROVE  found' \in Seq(R) /\ Capped'
  <2>1. \A i \in 1..new : Result(Path, i) \in R
    BY <1>4, ResultTyped
  <2> HIDE DEF R
  <2>2. [i \in 1..new |-> Result(Path, i)] \in [1..new -> R]
    BY <2>1
  <2>3. [i \in 1..new |-> Result(Path, i)] \in Seq(R) /\ Len([i \in 1..new |-> Result(Path, i)]) = new
    BY <2>2
  <2>4. found' \in Seq(R) /\ Len(found') = Len(found) + new
    BY <1>1, <1>4, <2>3, ConcatProperties
  <2> QED BY <1>1, <1>4, <2>4 DEF Capped
<1>5. CASE request.walk = "list" /\ found' = <<Result(<<>>, 0)>> \o found
  <2>1. Result(<<>>, 0) \in R
    BY ResultTyped
  <2> HIDE DEF R
  <2>2. <<Result(<<>>, 0)>> \in Seq(R)
    BY <2>1
  <2>3. found' \in Seq(R)
    BY <1>1, <1>5, <2>2, ConcatProperties
  <2> QED BY <1>1, <1>5, <2>3 DEF Capped
<1> QED BY <1>2, <1>3, <1>4, <1>5, StepAdds, SearchAdds

WalkInv == SpotInv /\ DiskInv /\ FoundInv /\ Capped

LEMMA WalkInvariance == Spec => []WalkInv
<1>1. Init => WalkInv
  <2> SUFFICES ASSUME Init PROVE WalkInv
    OBVIOUS
  <2>1. /\ at = <<>> /\ rest = <<>> /\ found = <<>> /\ Len(<<>>) = 0 /\ 1..0 = {}
        /\ request = NoRequest /\ request.walk = "none"
    BY DEF Init, NoRequest, Request
  <2>2. SpotInv
    BY <2>1, EmptySeq DEF SpotInv, Walking
  <2>3. DiskInv
    BY WorldAssumption, RequestAssumption DEF Init, DiskInv
  <2>4. FoundInv /\ Capped
    BY <2>1, EmptySeq DEF FoundInv, Capped
  <2> QED BY <2>2, <2>3, <2>4 DEF WalkInv
<1>2. WalkInv /\ [Next]_vars => WalkInv'
  <2> SUFFICES ASSUME WalkInv, [Next]_vars PROVE WalkInv'
    OBVIOUS
  <2>1. CASE UNCHANGED vars
    BY <2>1 DEF vars, diskVars, walkVars, WalkInv, SpotInv, DiskInv, FoundInv, Capped, Walking
  <2>2. ASSUME NEW r \in Requests, Ask(r) PROVE WalkInv'
    <3>1. SpotInv'
      BY <2>2, AskSpot DEF WalkInv
    <3>2. DiskInv'
      BY <2>2 DEF Ask, WalkInv, DiskInv
    <3>3. found' = <<>> /\ request' = r /\ r.max \in Nat
      BY <2>2, RequestFacts DEF Ask
    <3>4. FoundInv' /\ Capped'
      BY <3>3, EmptySeq DEF FoundInv, Capped
    <3> QED BY <3>1, <3>2, <3>4 DEF WalkInv
  <2>3. CASE Step
    <3>1. DiskInv'
      BY <2>3 DEF Step, PassOver, Enter, ListFile, SearchFile, Leave, diskVars, WalkInv, DiskInv
    <3> QED BY <2>3, <3>1, StepSpot, StepFound DEF WalkInv
  <2>4. CASE Change
    <3>1. PICK p \in World : Create(p) \/ Delete(p)
      BY <2>4 DEF Change
    <3>2. changes' \in 0..MaxChanges
      BY <2>4, RequestAssumption DEF Change, WalkInv, DiskInv
    <3>3. DiskInv' /\ ever \subseteq ever'
      BY <3>1, <3>2, ChangeDisk DEF WalkInv
    <3>4. UNCHANGED <<request, at, rest, found>>
      BY <2>4 DEF Change, walkVars
    <3>5. SpotInv'
      BY <3>3, <3>4 DEF WalkInv, SpotInv, Walking
    <3>6. FoundInv'
      <4>1. [path : ever \cup {<<>>}, line : Nat] \subseteq [path : ever' \cup {<<>>}, line : Nat]
        BY <3>3
      <4>2. found \in Seq([path : ever' \cup {<<>>}, line : Nat])
        BY <4>1, SeqMonotonic DEF WalkInv, FoundInv
      <4> QED BY <3>4, <4>2 DEF FoundInv
    <3> QED BY <3>3, <3>4, <3>5, <3>6 DEF WalkInv, Capped
  <2> QED BY <2>1, <2>2, <2>3, <2>4 DEF Next
<1> QED BY <1>1, <1>2, PTL DEF Spec

\* Walks, files and answers keep to their types: a walk stands in a directory
\* with the names still to come for it and for each directory above.
THEOREM WalksTyped == Spec => []WalkTypeOK
<1>1. WalkInv => WalkTypeOK
  <2> SUFFICES ASSUME WalkInv PROVE WalkTypeOK
    OBVIOUS
  <2>1. [path : ever \cup {<<>>}, line : Nat] \subseteq [path : World \cup {<<>>}, line : Nat]
    BY DEF WalkInv, DiskInv
  <2>2. found \in Seq([path : World \cup {<<>>}, line : Nat])
    BY <2>1, SeqMonotonic DEF WalkInv, FoundInv
  <2> QED BY <2>2 DEF WalkInv, SpotInv, DiskInv, WalkTypeOK
<1> QED BY <1>1, WalkInvariance, PTL

\* No answer is longer than its limit, although a directory within a directory
\* drops the error that reports it (tree.go:35, 54; search.go:74).
THEOREM AnswersCapped == Spec => []Capped
<1>1. WalkInv => Capped
  BY DEF WalkInv
<1> QED BY <1>1, WalkInvariance, PTL

-----------------------------------------------------------------------------
(* The order of the answers *)

LEMMA PrecedesBelow ==
  ASSUME NEW p \in Seq(Names), NEW q \in Seq(Names), NEW n \in Names, Precedes(p, q)
  PROVE  Precedes(p, Append(q, n))
<1> DEFINE r == Append(q, n)
<1>1. /\ r \in Seq(Names) /\ Len(r) = Len(q) + 1 /\ Len(q) \in Nat /\ Len(p) \in Nat
      /\ \A i \in 1..Len(q) : r[i] = q[i]
  BY AppendProperties, LenProperties
<1>2. DOMAIN p = 1..Len(p) /\ DOMAIN q = 1..Len(q) /\ DOMAIN r = 1..(Len(q) + 1)
  BY <1>1, LenProperties
<1> HIDE DEF r
<1>3. ASSUME NEW k \in 0..Len(q) PROVE SubSeq(r, 1, k) = SubSeq(q, 1, k)
  <2>1. k \in 0..Len(r) /\ k <= Len(q) /\ \A i \in 1..k : r[i] = q[i]
    BY <1>1
  <2> QED BY <1>1, <2>1, SamePrefix
<1>4. CASE IsStrictPrefix(p, q)
  <2>1. Len(p) <= Len(q) /\ SubSeq(p, 1, Len(p)) = SubSeq(q, 1, Len(p))
    BY <1>4 DEF IsStrictPrefix, IsPrefix
  <2>2. SubSeq(r, 1, Len(p)) = SubSeq(q, 1, Len(p))
    BY <1>1, <1>3, <2>1
  <2>3. Len(p) <= Len(r) /\ p # r
    BY <1>1, <2>1
  <2>4. IsStrictPrefix(p, r)
    BY <2>1, <2>2, <2>3 DEF IsStrictPrefix, IsPrefix
  <2> QED BY <2>4 DEF Precedes, r
<1>5. ASSUME NEW i \in DOMAIN p \cap DOMAIN q,
             SubSeq(p, 1, i - 1) = SubSeq(q, 1, i - 1), Rank[p[i]] < Rank[q[i]]
      PROVE  Precedes(p, r)
  <2>1. i \in DOMAIN p \cap DOMAIN r /\ i - 1 \in 0..Len(q) /\ r[i] = q[i]
    BY <1>1, <1>2
  <2>2. SubSeq(r, 1, i - 1) = SubSeq(q, 1, i - 1)
    BY <1>3, <2>1
  <2>3. SubSeq(p, 1, i - 1) = SubSeq(r, 1, i - 1) /\ Rank[p[i]] < Rank[r[i]]
    BY <1>5, <2>1, <2>2
  <2> QED BY <2>1, <2>3 DEF Precedes
<1> QED BY <1>4, <1>5 DEF Precedes, r

LEMMA PrecedesChild ==
  ASSUME NEW p \in Seq(Names), NEW n \in Names
  PROVE  Precedes(p, Append(p, n))
<1> DEFINE r == Append(p, n)
<1>1. /\ r \in Seq(Names) /\ Len(r) = Len(p) + 1 /\ Len(p) \in Nat
      /\ \A i \in 1..Len(p) : r[i] = p[i]
  BY AppendProperties, LenProperties
<1> HIDE DEF r
<1>2. Len(p) \in 0..Len(p) /\ Len(p) <= Len(r) /\ \A i \in 1..Len(p) : p[i] = r[i]
  BY <1>1
<1>3. SubSeq(p, 1, Len(p)) = SubSeq(r, 1, Len(p))
  BY <1>1, <1>2, SamePrefix
<1>4. IsStrictPrefix(p, r)
  BY <1>1, <1>3 DEF IsStrictPrefix, IsPrefix
<1> QED BY <1>4 DEF Precedes, r

\* A path comes before another one that takes a later name at some level.
LEMMA PrecedesBeside ==
  ASSUME NEW p \in Seq(Names), NEW k \in 1..Len(p), NEW n \in Names, Rank[p[k]] < Rank[n]
  PROVE  Precedes(p, Append(SubSeq(p, 1, k - 1), n))
<1> DEFINE d == SubSeq(p, 1, k - 1)
           r == Append(d, n)
<1>1. Len(p) \in Nat /\ k - 1 \in 0..Len(p) /\ DOMAIN p = 1..Len(p)
  BY LenProperties
<1>2. d \in Seq(Names) /\ Len(d) = k - 1
  BY <1>1, PrefixFacts
<1> HIDE DEF d
<1>3. /\ r \in Seq(Names) /\ Len(r) = k /\ r[k] = n
      /\ \A i \in 1..(k - 1) : r[i] = d[i]
  BY <1>1, <1>2, AppendProperties
<1> HIDE DEF r
<1>4. DOMAIN r = 1..k
  BY <1>3, LenProperties
<1>5. SubSeq(r, 1, k - 1) = SubSeq(d, 1, k - 1)
  <2>1. k - 1 \in 0..Len(r) /\ k - 1 <= Len(d)
    BY <1>1, <1>2, <1>3
  <2> QED BY <1>2, <1>3, <2>1, SamePrefix
<1>6. SubSeq(d, 1, k - 1) = d
  BY <1>2, SubSeqFull
<1>7. k \in DOMAIN p \cap DOMAIN r
  BY <1>1, <1>4
<1>8. SubSeq(p, 1, k - 1) = SubSeq(r, 1, k - 1) /\ Rank[p[k]] < Rank[r[k]]
  BY <1>3, <1>5, <1>6 DEF d
<1>9. Precedes(p, r)
  BY <1>7, <1>8 DEF Precedes
<1> QED BY <1>9 DEF d, r

LEMMA PrecedesRoot ==
  ASSUME NEW p \in Seq(Names), p # <<>>
  PROVE  Precedes(<<>>, p)
<1>1. Len(<<>>) = 0 /\ Len(p) \in Nat
  BY LenProperties
<1>2. SubSeq(<<>>, 1, 0) = <<>> /\ SubSeq(p, 1, 0) = <<>>
  BY SubSeqEmpty
<1> QED BY <1>1, <1>2 DEF Precedes, IsStrictPrefix, IsPrefix

-----------------------------------------------------------------------------
(* What is still to come *)

Item == [path : ever \cup {<<>>}, line : Nat]

\* Path p comes before everything that the walk has still to deal with.
Ahead(p) ==
  \A k \in 1..Len(rest) : \A n \in rest[k] : Precedes(p, Append(SubSeq(at, 1, k - 1), n))

\* The walk has gone on from the names still to come for a directory to none
\* of an earlier one; what it has found comes before what it has still to deal
\* with, and includes the directories it is in.
ComesFirst ==
  /\ \A k \in 1..Len(at) : \A n \in rest[k] : Rank[at[k]] < Rank[n]
  /\ \A d \in ToSet(found) : Ahead(d.path) /\ d.path # <<>>
  /\ request.walk # "search" =>
       \A k \in 1..Len(at) : \E d \in ToSet(found) : d.path = SubSeq(at, 1, k)

LEMMA ItemsFacts ==
  ASSUME NEW R, NEW s \in Seq(R)
  PROVE  /\ Len(s) \in Nat /\ DOMAIN s = 1..Len(s) /\ ToSet(s) \subseteq R
         /\ \A i \in 1..Len(s) : s[i] \in ToSet(s)
         /\ \A d \in ToSet(s) : \E i \in 1..Len(s) : d = s[i]
<1>1. Len(s) \in Nat /\ DOMAIN s = 1..Len(s) /\ \A i \in 1..Len(s) : s[i] \in R
  BY LenProperties, ElementOfSeq
<1> QED BY <1>1 DEF ToSet

LEMMA PathsAreNames ==
  ASSUME WalkInv
  PROVE  /\ \A p \in ever : p \in Seq(Names) /\ p # <<>>
         /\ \A d \in Item : d.path \in Seq(Names)
<1>1. ever \subseteq Seq(Names) \ {<<>>}
  BY WorldAssumption DEF WalkInv, DiskInv
<1> QED BY <1>1, EmptySeq DEF Item

\* What comes before everything to come, stays so.
LEMMA AheadKept ==
  ASSUME WalkInv, NEW p \in Seq(Names), Ahead(p),
         Walking, (AtEntry /\ (Stays \/ Descends)) \/ Ascends
  PROVE  Ahead(p)'
<1>1. CASE AtEntry /\ Stays
  <2>1. at' = at /\ rest' = Rest
    BY <1>1 DEF Stays
  <2>2. Len(Rest) = Len(rest) /\ \A k \in 1..Len(rest) : Rest[k] \subseteq rest[k]
    BY <1>1, RestFacts DEF WalkInv
  <2> QED BY <2>1, <2>2 DEF Ahead
<1>2. CASE AtEntry /\ Descends
  <2>1. /\ rest' \in Seq(SUBSET Names) /\ Len(rest') = Len(rest) + 1
        /\ \A k \in 1..Len(rest) : rest'[k] = Rest[k] /\ SubSeq(at', 1, k - 1) = SubSeq(at, 1, k - 1)
        /\ rest'[Len(rest) + 1] = ReadDir(Path) /\ SubSeq(at', 1, Len(rest)) = Path
    BY <1>2, DescendFacts DEF WalkInv
  <2>2. /\ Len(rest) = Len(at) + 1 /\ Len(at) \in Nat /\ Name \in rest[Len(rest)]
        /\ Path \in Seq(Names)
    BY <1>2, EntryFacts DEF WalkInv
  <2>3. Precedes(p, Path)
    <3>1. SubSeq(at, 1, Len(rest) - 1) = at
      BY <2>2, SubSeqFull DEF WalkInv, SpotInv
    <3>2. Len(rest) \in 1..Len(rest)
      BY <2>2
    <3>3. Precedes(p, Append(SubSeq(at, 1, Len(rest) - 1), Name))
      BY <2>2, <3>2 DEF Ahead
    <3> QED BY <3>1, <3>3 DEF Path
  <2>4. ASSUME NEW k \in 1..Len(rest'), NEW n \in rest'[k]
        PROVE  Precedes(p, Append(SubSeq(at', 1, k - 1), n))
    <3>1. CASE k \in 1..Len(rest)
      <4>1. n \in rest[k]
        BY <1>2, <2>1, <2>4, <3>1, RestFacts DEF WalkInv
      <4> QED BY <2>1, <3>1, <4>1 DEF Ahead
    <3>2. CASE k = Len(rest) + 1
      <4>1. k - 1 = Len(rest) /\ n \in ReadDir(Path) /\ n \in Names
        BY <2>1, <2>2, <2>4, <3>2 DEF ReadDir
      <4>2. Precedes(p, Append(Path, n))
        BY <2>2, <2>3, <4>1, PrecedesBelow
      <4> QED BY <2>1, <4>1, <4>2
    <3> QED BY <2>1, <2>2, <2>4, <3>1, <3>2
  <2> QED BY <2>4 DEF Ahead
<1>3. CASE Ascends
  <2>1. /\ Len(rest') = Len(rest) - 1 /\ Len(rest) = Len(at) + 1 /\ Len(at) \in Nat
        /\ \A k \in 1..Len(rest') : rest'[k] = rest[k] /\ SubSeq(at', 1, k - 1) = SubSeq(at, 1, k - 1)
    BY <1>3, AscendFacts DEF WalkInv
  <2>2. 1..Len(rest') \subseteq 1..Len(rest)
    BY <2>1
  <2> QED BY <2>1, <2>2 DEF Ahead
<1> QED BY <1>1, <1>2, <1>3

\* The names to come in the directories that lead to the next entry are later
\* ones than those that lead there.
LEMMA LaterNames ==
  ASSUME WalkInv, ComesFirst, AtEntry
  PROVE  \A k \in 1..Len(rest) : \A n \in Rest[k] : n \in Names /\ Rank[Path[k]] < Rank[n]
<1>1. /\ Len(rest) = Len(at) + 1 /\ Len(at) \in Nat /\ Name \in Names
      /\ \A m \in rest[Len(rest)] : Rank[Name] <= Rank[m]
      /\ \A i \in 1..Len(at) : Path[i] = at[i]
      /\ Path[Len(at) + 1] = Name
  BY EntryFacts DEF WalkInv
<1>2. TAKE k \in 1..Len(rest)
<1>3. TAKE n \in Rest[k]
<1>4. Rest[k] = IF k = Len(rest) THEN rest[k] \ {Name} ELSE rest[k]
  BY RestFacts DEF WalkInv
<1>5. n \in Names
  <2>1. rest[k] \in SUBSET Names
    BY ElementOfSeq DEF WalkInv, SpotInv
  <2> QED BY <1>4, <2>1
<1>6. CASE k = Len(rest)
  <2>1. n # Name /\ Rank[Name] <= Rank[n] /\ Rank[n] \in Int /\ Rank[Name] \in Int
    BY <1>1, <1>4, <1>5, <1>6, WorldAssumption
  <2>2. Rank[Name] # Rank[n]
    BY <1>1, <1>5, <2>1, WorldAssumption
  <2> QED BY <1>1, <1>5, <1>6, <2>1, <2>2
<1>7. CASE k # Len(rest)
  <2>1. k \in 1..Len(at) /\ n \in rest[k]
    BY <1>1, <1>4, <1>7
  <2> QED BY <1>1, <1>5, <2>1 DEF ComesFirst
<1> QED BY <1>6, <1>7

\* The entry that is dealt with comes before everything to come.
LEMMA EntryAhead ==
  ASSUME WalkInv, ComesFirst, AtEntry, NEW p, p = Path, Stays \/ Descends
  PROVE  Ahead(p)'
<1>1. /\ Len(rest) = Len(at) + 1 /\ Len(at) \in Nat
      /\ Path \in Seq(Names) /\ Len(Path) = Len(at) + 1
      /\ \A i \in 1..Len(at) : Path[i] = at[i]
  BY EntryFacts DEF WalkInv
<1>2. Len(Rest) = Len(rest) /\ at \in Seq(Names)
  BY RestFacts DEF WalkInv, SpotInv
<1>3. ASSUME NEW k \in 1..Len(rest) PROVE SubSeq(Path, 1, k - 1) = SubSeq(at, 1, k - 1)
  <2>1. k - 1 \in 0..Len(Path) /\ k - 1 <= Len(at) /\ \A i \in 1..(k - 1) : Path[i] = at[i]
    BY <1>1
  <2> QED BY <1>1, <1>2, <2>1, SamePrefix
<1>4. ASSUME NEW k \in 1..Len(rest), NEW n \in Rest[k]
      PROVE  Precedes(p, Append(SubSeq(at, 1, k - 1), n))
  <2>1. n \in Names /\ Rank[Path[k]] < Rank[n] /\ k \in 1..Len(Path)
    BY <1>1, <1>4, LaterNames
  <2>2. Precedes(Path, Append(SubSeq(Path, 1, k - 1), n))
    BY <1>1, <2>1, PrecedesBeside
  <2> QED BY <1>3, <2>2
<1>5. CASE Stays
  <2>1. at' = at /\ rest' = Rest
    BY <1>5 DEF Stays
  <2> QED BY <1>2, <1>4, <2>1 DEF Ahead
<1>6. CASE Descends
  <2>1. /\ rest' \in Seq(SUBSET Names) /\ Len(rest') = Len(rest) + 1
        /\ \A k \in 1..Len(rest) : rest'[k] = Rest[k] /\ SubSeq(at', 1, k - 1) = SubSeq(at, 1, k - 1)
        /\ rest'[Len(rest) + 1] = ReadDir(Path) /\ SubSeq(at', 1, Len(rest)) = Path
    BY <1>6, DescendFacts DEF WalkInv
  <2>2. ASSUME NEW k \in 1..Len(rest'), NEW n \in rest'[k]
        PROVE  Precedes(p, Append(SubSeq(at', 1, k - 1), n))
    <3>1. CASE k \in 1..Len(rest)
      BY <1>4, <2>1, <2>2, <3>1
    <3>2. CASE k = Len(rest) + 1
      <4>1. k - 1 = Len(rest) /\ n \in Names
        BY <1>1, <2>1, <2>2, <3>2 DEF ReadDir
      <4>2. Precedes(Path, Append(Path, n))
        BY <1>1, <4>1, PrecedesChild
      <4> QED BY <2>1, <4>1, <4>2
    <3> QED BY <1>1, <2>1, <2>2, <3>1, <3>2
  <2> QED BY <2>2 DEF Ahead
<1> QED BY <1>5, <1>6

-----------------------------------------------------------------------------
(* Answers in order *)

OrderInv == InOrder /\ (Walking => ComesFirst)

\* Before the next entry comes everything found so far, the directory it is
\* in included.
LEMMA EntryComesNext ==
  ASSUME WalkInv, ComesFirst, AtEntry
  PROVE  /\ \A i \in 1..Len(found) : Precedes(found[i].path, Path)
         /\ request.walk # "search" /\ Len(Path) > 1 =>
              \E i \in 1..Len(found) : found[i].path = Parent(Path)
<1>1. /\ Len(rest) = Len(at) + 1 /\ Len(at) \in Nat /\ Name \in rest[Len(rest)] /\ Name \in Names
      /\ Path \in Seq(Names) /\ Len(Path) = Len(at) + 1
      /\ \A i \in 1..Len(at) : Path[i] = at[i]
  BY EntryFacts DEF WalkInv
<1>2. at \in Seq(Names) /\ SubSeq(at, 1, Len(at)) = at
  BY SubSeqFull DEF WalkInv, SpotInv
<1>3. \A i \in 1..Len(found) : found[i] \in ToSet(found)
  BY ItemsFacts DEF WalkInv, FoundInv
<1>4. ASSUME NEW i \in 1..Len(found) PROVE Precedes(found[i].path, Path)
  <2>1. Ahead(found[i].path)
    BY <1>3 DEF ComesFirst
  <2>2. Len(rest) \in 1..Len(rest) /\ Len(rest) - 1 = Len(at)
    BY <1>1
  <2>3. Precedes(found[i].path, Append(SubSeq(at, 1, Len(rest) - 1), Name))
    BY <1>1, <2>1, <2>2 DEF Ahead
  <2> QED BY <1>2, <2>2, <2>3 DEF Path
<1>5. ASSUME request.walk # "search", Len(Path) > 1
      PROVE  \E i \in 1..Len(found) : found[i].path = Parent(Path)
  <2>1. Parent(Path) = at
    <3>1. Len(at) \in 0..Len(Path) /\ Len(at) <= Len(at) /\ Len(Path) - 1 = Len(at)
      BY <1>1
    <3>2. SubSeq(Path, 1, Len(at)) = SubSeq(at, 1, Len(at))
      BY <1>1, <1>2, <3>1, SamePrefix
    <3> QED BY <1>2, <3>1, <3>2 DEF Parent, Front
  <2>2. Len(at) \in 1..Len(at)
    BY <1>1, <1>5
  <2>3. PICK d \in ToSet(found) : d.path = at
    BY <1>2, <1>5, <2>2 DEF ComesFirst
  <2> QED BY <2>1, <2>3, ItemsFacts DEF WalkInv, FoundInv
<1> QED BY <1>4, <1>5

\* An answer stays in order when results for the next entry are added to it.
LEMMA ExtendedInOrder ==
  ASSUME WalkInv, OrderInv, AtEntry, request' = request,
         NEW new \in Seq(Item), found' = found \o new,
         \A i \in 1..Len(new) : new[i].path = Path,
         \A j \in 1..Len(new) : \A i \in 1..(j - 1) : new[i].line < new[j].line
  PROVE  InOrder'
<1>1. found \in Seq(Item) /\ ComesFirst /\ InOrder
  BY DEF WalkInv, FoundInv, Item, OrderInv, AtEntry
<1>2. Len(found) \in Nat /\ Len(new) \in Nat /\ DOMAIN found = 1..Len(found)
  BY <1>1, LenProperties
<1>3. /\ found' \in Seq(Item) /\ Len(found') = Len(found) + Len(new)
      /\ \A i \in 1..(Len(found) + Len(new)) :
           found'[i] = IF i <= Len(found) THEN found[i] ELSE new[i - Len(found)]
  BY <1>1, ConcatProperties
<1>4. DOMAIN found' = 1..(Len(found) + Len(new))
  BY <1>3, LenProperties
<1>5. ASSUME NEW j \in 1..(Len(found) + Len(new))
      PROVE  /\ \A i \in 1..(j - 1) :
                  \/ Precedes(found'[i].path, found'[j].path)
                  \/ found'[i].path = found'[j].path /\ found'[i].line < found'[j].line
             /\ request.walk # "search" /\ Len(found'[j].path) > 1 =>
                  \E i \in 1..(j - 1) : found'[i].path = Parent(found'[j].path)
  <2>1. CASE j <= Len(found)
    <3>1. j \in DOMAIN found /\ found'[j] = found[j] /\ \A i \in 1..(j - 1) : found'[i] = found[i]
      BY <1>2, <1>3, <2>1
    <3>2. /\ \A i \in 1..(j - 1) :
               \/ Precedes(found[i].path, found[j].path)
               \/ found[i].path = found[j].path /\ found[i].line < found[j].line
          /\ request.walk # "search" /\ Len(found[j].path) > 1 =>
               \E i \in 1..(j - 1) : found[i].path = Parent(found[j].path)
      BY <1>1, <3>1 DEF InOrder
    <3> QED BY <3>1, <3>2
  <2>2. CASE j > Len(found)
    <3>1. j - Len(found) \in 1..Len(new) /\ found'[j] = new[j - Len(found)]
      BY <1>2, <1>3, <2>2
    <3>2. found'[j].path = Path
      BY <3>1
    <3>3. ASSUME NEW i \in 1..(j - 1)
          PROVE  \/ Precedes(found'[i].path, found'[j].path)
                 \/ found'[i].path = found'[j].path /\ found'[i].line < found'[j].line
      <4>1. CASE i <= Len(found)
        <5>1. i \in 1..Len(found) /\ found'[i] = found[i]
          BY <1>2, <1>3, <4>1
        <5> QED BY <1>1, <3>2, <5>1, EntryComesNext
      <4>2. CASE i > Len(found)
        <5>1. /\ i - Len(found) \in 1..(j - Len(found) - 1) /\ i - Len(found) \in 1..Len(new)
              /\ found'[i] = new[i - Len(found)]
          BY <1>2, <1>3, <3>1, <4>2
        <5> QED BY <3>1, <3>2, <5>1
      <4> QED BY <1>2, <4>1, <4>2
    <3>4. ASSUME request.walk # "search", Len(found'[j].path) > 1
          PROVE  \E i \in 1..(j - 1) : found'[i].path = Parent(found'[j].path)
      <4>1. PICK i \in 1..Len(found) : found[i].path = Parent(Path)
        BY <1>1, <3>2, <3>4, EntryComesNext
      <4>2. i \in 1..(j - 1) /\ found'[i] = found[i]
        BY <1>2, <1>3, <2>2
      <4> QED BY <3>2, <4>1, <4>2
    <3> QED BY <3>3, <3>4
  <2>3. j <= Len(found) \/ j > Len(found)
    BY <1>2
  <2> QED BY <2>1, <2>2, <2>3, Zenon
<1> QED BY <1>4, <1>5 DEF InOrder

\* So does a list when the project itself is put before what is in it.
LEMMA RootInOrder ==
  ASSUME WalkInv, OrderInv, Walking, request' = request,
         found' = <<Result(<<>>, 0)>> \o found
  PROVE  InOrder'
<1>1. found \in Seq(Item) /\ ComesFirst /\ InOrder
  BY DEF WalkInv, FoundInv, Item, OrderInv
<1>2. Len(found) \in Nat /\ DOMAIN found = 1..Len(found)
  BY <1>1, LenProperties
<1>3. <<Result(<<>>, 0)>> \in Seq(Item) /\ Len(<<Result(<<>>, 0)>>) = 1
      /\ <<Result(<<>>, 0)>>[1] = Result(<<>>, 0)
  BY ResultTyped DEF Item
<1>4. /\ found' \in Seq(Item) /\ Len(found') = 1 + Len(found)
      /\ \A i \in 1..(1 + Len(found)) :
           found'[i] = IF i <= 1 THEN <<Result(<<>>, 0)>>[i] ELSE found[i - 1]
  BY <1>1, <1>3, ConcatProperties
<1>5. /\ DOMAIN found' = 1..(Len(found) + 1) /\ found'[1].path = <<>>
      /\ \A i \in 2..(Len(found) + 1) : i - 1 \in 1..Len(found) /\ found'[i] = found[i - 1]
  BY <1>2, <1>3, <1>4, LenProperties DEF Result
<1>6. ASSUME NEW j \in 1..(Len(found) + 1)
      PROVE  /\ \A i \in 1..(j - 1) :
                  \/ Precedes(found'[i].path, found'[j].path)
                  \/ found'[i].path = found'[j].path /\ found'[i].line < found'[j].line
             /\ request.walk # "search" /\ Len(found'[j].path) > 1 =>
                  \E i \in 1..(j - 1) : found'[i].path = Parent(found'[j].path)
  <2>1. CASE j = 1
    BY <1>5, <2>1
  <2>2. CASE j # 1
    <3>1. j \in 2..(Len(found) + 1) /\ j - 1 \in 1..Len(found) /\ found'[j] = found[j - 1]
      BY <1>2, <1>5, <2>2
    <3>2. /\ \A i \in 1..(j - 1 - 1) :
               \/ Precedes(found[i].path, found[j - 1].path)
               \/ found[i].path = found[j - 1].path /\ found[i].line < found[j - 1].line
          /\ request.walk # "search" /\ Len(found[j - 1].path) > 1 =>
               \E i \in 1..(j - 1 - 1) : found[i].path = Parent(found[j - 1].path)
      BY <1>1, <1>2, <3>1 DEF InOrder
    <3>3. Precedes(<<>>, found[j - 1].path)
      <4>1. found[j - 1] \in ToSet(found) /\ found[j - 1] \in Item
        BY <1>1, <3>1, ItemsFacts
      <4>2. found[j - 1].path # <<>> /\ found[j - 1].path \in Seq(Names)
        BY <1>1, <4>1, PathsAreNames DEF ComesFirst
      <4> QED BY <4>2, PrecedesRoot
    <3>4. ASSUME NEW i \in 1..(j - 1)
          PROVE  \/ Precedes(found'[i].path, found'[j].path)
                 \/ found'[i].path = found'[j].path /\ found'[i].line < found'[j].line
      <4>1. CASE i = 1
        BY <1>5, <3>1, <3>3, <4>1
      <4>2. CASE i # 1
        <5>1. i - 1 \in 1..(j - 1 - 1) /\ found'[i] = found[i - 1]
          BY <1>5, <3>1, <4>2
        <5> QED BY <3>1, <3>2, <5>1
      <4> QED BY <4>1, <4>2
    <3>5. ASSUME request.walk # "search", Len(found'[j].path) > 1
          PROVE  \E i \in 1..(j - 1) : found'[i].path = Parent(found'[j].path)
      <4>1. PICK i \in 1..(j - 1 - 1) : found[i].path = Parent(found[j - 1].path)
        BY <3>1, <3>2, <3>5
      <4>2. i + 1 \in 1..(j - 1) /\ i + 1 \in 2..(Len(found) + 1) /\ i + 1 - 1 = i
        BY <1>2, <3>1
      <4>3. found'[i + 1].path = Parent(found'[j].path)
        BY <1>5, <3>1, <4>1, <4>2
      <4> QED BY <4>2, <4>3
    <3> QED BY <3>4, <3>5
  <2> QED BY <2>1, <2>2
<1> QED BY <1>5, <1>6 DEF InOrder

\* Results for the next entry are added to the answer, in order.
Extends ==
  \E new \in Seq(Item) :
    /\ found' = found \o new
    /\ \A i \in 1..Len(new) : new[i].path = Path
    /\ \A j \in 1..Len(new) : \A i \in 1..(j - 1) : new[i].line < new[j].line

LEMMA EntryExtends ==
  ASSUME WalkInv, AtEntry, SearchFile \/ found' = Append(found, Result(Path, 0))
  PROVE  Extends
<1>1. Path \in ever /\ found \in Seq(Item)
  BY EntryFacts DEF WalkInv, FoundInv, Item
<1>2. ASSUME NEW m \in Nat, found' = found \o [i \in 1..m |-> Result(Path, i)]
      PROVE  Extends
  <2> DEFINE new == [i \in 1..m |-> Result(Path, i)]
  <2>1. \A i \in 1..m : Result(Path, i) \in Item
    BY <1>1, ResultTyped DEF Item
  <2>2. new \in Seq(Item) /\ Len(new) = m
    BY <2>1
  <2>3. \A i \in 1..m : new[i].path = Path /\ new[i].line = i
    BY DEF Result
  <2> HIDE DEF new
  <2>4. \A j \in 1..m : \A i \in 1..(j - 1) : new[i].line < new[j].line
    BY <2>3
  <2>5. found' = found \o new
    BY <1>2 DEF new
  <2> QED BY <2>2, <2>3, <2>4, <2>5 DEF Extends
<1>3. CASE found' = Append(found, Result(Path, 0))
  <2> DEFINE new == <<Result(Path, 0)>>
  <2>1. Result(Path, 0) \in Item
    BY <1>1, ResultTyped DEF Item
  <2>2. new \in Seq(Item) /\ Len(new) = 1 /\ new[1].path = Path
    BY <2>1 DEF Result
  <2>3. found' = found \o new
    BY <1>1, <1>3, <2>1, AppendIsConcat
  <2> HIDE DEF new
  <2>4. \A j \in 1..Len(new) : \A i \in 1..(j - 1) : new[i].line < new[j].line
    BY <2>2
  <2>5. \A i \in 1..Len(new) : new[i].path = Path
    BY <2>2
  <2> QED BY <2>2, <2>3, <2>4, <2>5 DEF Extends
<1>4. CASE SearchFile
  <2>1. PICK m \in Nat : found' = found \o [i \in 1..m |-> Result(Path, i)]
    BY <1>4, SearchAdds DEF WalkInv
  <2> QED BY <1>2, <2>1
<1> QED BY <1>3, <1>4

LEMMA ExtendedItems ==
  ASSUME WalkInv, Extends
  PROVE  /\ ToSet(found) \subseteq ToSet(found')
         /\ \A d \in ToSet(found') : d \in ToSet(found) \/ d.path = Path
<1>1. PICK new \in Seq(Item) :
        found' = found \o new /\ \A i \in 1..Len(new) : new[i].path = Path
  BY DEF Extends
<1>2. found \in Seq(Item) /\ Len(found) \in Nat /\ Len(new) \in Nat
  BY LenProperties DEF WalkInv, FoundInv, Item
<1>3. /\ found' \in Seq(Item) /\ Len(found') = Len(found) + Len(new)
      /\ \A i \in 1..(Len(found) + Len(new)) :
           found'[i] = IF i <= Len(found) THEN found[i] ELSE new[i - Len(found)]
  BY <1>1, <1>2, ConcatProperties
<1>4. ASSUME NEW d \in ToSet(found) PROVE d \in ToSet(found')
  <2>1. PICK i \in 1..Len(found) : d = found[i]
    BY <1>2, <1>4, ItemsFacts
  <2>2. i \in 1..Len(found') /\ found'[i] = d
    BY <1>2, <1>3, <2>1
  <2> QED BY <1>3, <2>2, ItemsFacts
<1>5. ASSUME NEW d \in ToSet(found') PROVE d \in ToSet(found) \/ d.path = Path
  <2>1. PICK i \in 1..Len(found') : d = found'[i]
    BY <1>3, <1>5, ItemsFacts
  <2>2. CASE i <= Len(found)
    <3>1. i \in 1..Len(found) /\ d = found[i]
      BY <1>2, <1>3, <2>1, <2>2
    <3> QED BY <1>2, <3>1, ItemsFacts
  <2>3. CASE i > Len(found)
    <3>1. i - Len(found) \in 1..Len(new) /\ d = new[i - Len(found)]
      BY <1>2, <1>3, <2>1, <2>3
    <3> QED BY <1>1, <3>1
  <2> QED BY <1>2, <1>3, <2>2, <2>3
<1> QED BY <1>4, <1>5

LEMMA ComesFirstKept ==
  ASSUME WalkInv, ComesFirst, Walking, request' = request,
         ToSet(found) \subseteq ToSet(found'),
         \A d \in ToSet(found') :
           d \in ToSet(found) \/ (AtEntry /\ (Stays \/ Descends) /\ d.path = Path),
         \/ AtEntry /\ Stays
         \/ AtEntry /\ Descends /\ (request.walk # "search" => \E d \in ToSet(found') : d.path = Path)
         \/ Ascends
  PROVE  ComesFirst'
<1>1. ASSUME NEW d \in ToSet(found') PROVE Ahead(d.path)' /\ d.path # <<>>
  <2>1. CASE d \in ToSet(found)
    <3>1. Ahead(d.path) /\ d.path # <<>>
      BY <2>1 DEF ComesFirst
    <3>2. d \in Item
      BY <2>1, ItemsFacts DEF WalkInv, FoundInv, Item
    <3>3. d.path \in Seq(Names)
      BY <3>2, PathsAreNames
    <3> QED BY <3>1, <3>3, AheadKept
  <2>2. CASE AtEntry /\ (Stays \/ Descends) /\ d.path = Path
    <3>1. Path # <<>>
      BY <2>2, EntryFacts, PathsAreNames DEF WalkInv
    <3> QED BY <2>2, <3>1, EntryAhead
  <2> QED BY <2>1, <2>2
<1>2. ASSUME NEW k \in 1..Len(at'), NEW n \in rest'[k] PROVE Rank[at'[k]] < Rank[n]
  <2>1. CASE AtEntry /\ Stays
    <3>1. /\ at' = at /\ rest' = Rest /\ Len(rest) = Len(at) + 1 /\ Len(at) \in Nat
          /\ \A i \in 1..Len(at) : Path[i] = at[i]
      BY <2>1, EntryFacts DEF Stays, WalkInv
    <3>2. k \in 1..Len(rest) /\ k \in 1..Len(at)
      BY <1>2, <3>1
    <3> QED BY <1>2, <2>1, <3>1, <3>2, LaterNames
  <2>2. CASE AtEntry /\ Descends
    <3>1. /\ at' = Path /\ Len(rest) = Len(at) + 1 /\ Len(at) \in Nat /\ Len(Path) = Len(at) + 1
      BY <2>2, EntryFacts DEF Descends, WalkInv
    <3>2. k \in 1..Len(rest)
      BY <1>2, <3>1
    <3>3. rest'[k] = Rest[k]
      BY <2>2, <3>2, DescendFacts DEF WalkInv
    <3> QED BY <1>2, <2>2, <3>1, <3>2, <3>3, LaterNames
  <2>3. CASE Ascends
    <3>1. /\ Len(at') = Len(at) - 1 /\ Len(at) \in Nat \ {0}
          /\ \A i \in 1..Len(at') : at'[i] = at[i]
          /\ Len(rest') = Len(rest) - 1 /\ Len(rest) = Len(at) + 1
          /\ \A i \in 1..Len(rest') : rest'[i] = rest[i]
      BY <2>3, AscendFacts DEF WalkInv
    <3>2. k \in 1..Len(at) /\ k \in 1..Len(rest')
      BY <1>2, <3>1
    <3> QED BY <1>2, <3>1, <3>2 DEF ComesFirst
  <2> QED BY <2>1, <2>2, <2>3
<1>3. ASSUME request.walk # "search", NEW k \in 1..Len(at')
      PROVE  \E d \in ToSet(found') : d.path = SubSeq(at', 1, k)
  <2>1. ASSUME k \in 1..Len(at), SubSeq(at', 1, k) = SubSeq(at, 1, k)
        PROVE  \E d \in ToSet(found') : d.path = SubSeq(at', 1, k)
    BY <1>3, <2>1 DEF ComesFirst
  <2>2. CASE AtEntry /\ Stays
    BY <1>3, <2>1, <2>2 DEF Stays
  <2>3. CASE /\ AtEntry /\ Descends
             /\ request.walk # "search" => \E d \in ToSet(found') : d.path = Path
    <3>1. /\ at' = Path /\ Len(rest) = Len(at) + 1 /\ Len(at) \in Nat /\ Len(Path) = Len(at) + 1
      BY <2>3, EntryFacts DEF Descends, WalkInv
    <3>2. CASE k \in 1..Len(at)
      <4>1. k + 1 \in 1..Len(rest) /\ k + 1 - 1 = k
        BY <3>1, <3>2
      <4>2. SubSeq(at', 1, k + 1 - 1) = SubSeq(at, 1, k + 1 - 1)
        BY <2>3, <4>1, DescendFacts DEF WalkInv
      <4> QED BY <2>1, <3>2, <4>1, <4>2
    <3>3. CASE k = Len(rest)
      <4>1. SubSeq(at', 1, Len(rest)) = Path
        BY <2>3, DescendFacts DEF WalkInv
      <4> QED BY <1>3, <2>3, <3>3, <4>1
    <3> QED BY <1>3, <3>1, <3>2, <3>3
  <2>4. CASE Ascends
    <3>1. /\ Len(at') = Len(at) - 1 /\ Len(at) \in Nat \ {0}
          /\ Len(rest') = Len(rest) - 1 /\ Len(rest) = Len(at) + 1
          /\ \A i \in 1..Len(rest') : SubSeq(at', 1, i - 1) = SubSeq(at, 1, i - 1)
      BY <2>4, AscendFacts DEF WalkInv
    <3>2. k \in 1..Len(at) /\ k + 1 \in 1..Len(rest') /\ k + 1 - 1 = k
      BY <1>3, <3>1
    <3>3. SubSeq(at', 1, k + 1 - 1) = SubSeq(at, 1, k + 1 - 1)
      BY <3>1, <3>2
    <3> QED BY <2>1, <3>2, <3>3
  <2> QED BY <2>2, <2>3, <2>4
<1> QED BY <1>1, <1>2, <1>3 DEF ComesFirst

LEMMA OrderedStep ==
  ASSUME WalkInv, OrderInv, Step
  PROVE  OrderInv'
<1>1. request' = request /\ Walking /\ ComesFirst /\ InOrder
  BY Moves DEF WalkInv, OrderInv
<1>2. ASSUME found' = found, (AtEntry /\ Stays) \/ Ascends
             \/ (AtEntry /\ Descends /\ request.walk = "search")
      PROVE  OrderInv'
  <2>1. InOrder'
    BY <1>1, <1>2 DEF InOrder
  <2>2. ToSet(found') = ToSet(found)
    BY <1>2
  <2>3. ComesFirst'
    BY <1>1, <1>2, <2>2, ComesFirstKept
  <2> QED BY <2>1, <2>3 DEF OrderInv
<1>3. ASSUME AtEntry, Extends, Stays \/ (Descends /\ Append(found, Result(Path, 0)) = found')
      PROVE  OrderInv'
  <2>1. InOrder'
    BY <1>1, <1>3, ExtendedInOrder DEF Extends
  <2>2. /\ ToSet(found) \subseteq ToSet(found')
        /\ \A d \in ToSet(found') : d \in ToSet(found) \/ d.path = Path
    BY <1>3, ExtendedItems
  <2>3. ASSUME Append(found, Result(Path, 0)) = found'
        PROVE  \E d \in ToSet(found') : d.path = Path
    <3>1. Result(Path, 0) \in Item /\ found \in Seq(Item)
      BY <1>3, EntryFacts, ResultTyped DEF WalkInv, FoundInv, Item
    <3>2. found' \in Seq(Item) /\ Len(found') = Len(found) + 1 /\ Len(found) \in Nat
          /\ found'[Len(found) + 1] = Result(Path, 0)
      BY <2>3, <3>1, AppendProperties, LenProperties
    <3>3. Result(Path, 0) \in ToSet(found')
      BY <3>2, ItemsFacts
    <3> QED BY <3>3 DEF Result
  <2>4. ComesFirst'
    BY <1>1, <1>3, <2>2, <2>3, ComesFirstKept
  <2> QED BY <2>1, <2>4 DEF OrderInv
<1>4. ASSUME InOrder', Ends PROVE OrderInv'
  BY <1>4 DEF OrderInv, Ends, Walking
<1>5. CASE PassOver
  BY <1>2, <1>5 DEF PassOver, Stays
<1>6. CASE Enter
  <2>1. CASE request.walk = "search"
    BY <1>2, <1>6, <2>1 DEF Enter, Descends
  <2>2. CASE request.walk # "search"
    <3>1. AtEntry /\ found' = Append(found, Result(Path, 0)) /\ (Stays \/ Descends)
      BY <1>6, <2>2 DEF Enter, Descends, Stays
    <3> QED BY <1>3, <3>1, EntryExtends
  <2> QED BY <2>1, <2>2
<1>7. CASE ListFile
  <2>1. AtEntry /\ found' = Append(found, Result(Path, 0)) /\ Stays
    BY <1>7 DEF ListFile, Stays
  <2> QED BY <1>3, <2>1, EntryExtends
<1>8. CASE SearchFile
  <2>1. AtEntry /\ Extends
    BY <1>8, EntryExtends DEF SearchFile
  <2>2. Stays \/ Ends
    BY <1>8 DEF SearchFile, Stays, Ends
  <2>3. InOrder'
    BY <1>1, <2>1, ExtendedInOrder DEF Extends
  <2> QED BY <1>3, <1>4, <2>1, <2>2, <2>3
<1>9. CASE Leave
  <2>1. CASE at # <<>>
    BY <1>2, <1>9, <2>1 DEF Leave, Ascends
  <2>2. CASE at = <<>>
    <3>1. Ends
      <4>1. ~Ascends /\ (AtEntry => Last(rest) # {} /\ ~Full)
        BY <2>2 DEF Ascends, AtEntry
      <4>2. ~AtEntry
        BY <1>9, <4>1 DEF Leave
      <4> QED BY <1>9, <4>1, <4>2, Moves DEF WalkInv
    <3>2. found' = found \/ found' = <<Result(<<>>, 0)>> \o found
      BY <1>9 DEF Leave
    <3>3. InOrder'
      <4>1. CASE found' = found
        BY <1>1, <4>1 DEF InOrder
      <4> QED BY <1>1, <3>2, <4>1, RootInOrder
    <3> QED BY <1>4, <3>1, <3>3
  <2> QED BY <2>1, <2>2
<1> QED BY <1>5, <1>6, <1>7, <1>8, <1>9 DEF Step

LEMMA OrderInvariance == Spec => []OrderInv
<1>1. Init => OrderInv
  BY DEF Init, OrderInv, InOrder, Walking
<1>2. WalkInv /\ OrderInv /\ [Next]_vars => OrderInv'
  <2> SUFFICES ASSUME WalkInv, OrderInv, [Next]_vars PROVE OrderInv'
    OBVIOUS
  <2>1. CASE UNCHANGED vars \/ Change
    <3>1. UNCHANGED <<request, at, rest, found>>
      BY <2>1 DEF vars, walkVars, Change
    <3> QED BY <3>1 DEF OrderInv, InOrder, Walking, ComesFirst, Ahead
  <2>2. ASSUME NEW r \in Requests, Ask(r) PROVE OrderInv'
    <3>1. found' = <<>> /\ at' = <<>> /\ Len(<<>>) = 0 /\ 1..0 = {} /\ DOMAIN <<>> = {}
      BY <2>2 DEF Ask
    <3>2. ToSet(found') = {}
      BY <3>1 DEF ToSet
    <3> QED BY <3>1, <3>2 DEF OrderInv, InOrder, ComesFirst
  <2>3. CASE Step
    BY <2>3, OrderedStep
  <2> QED BY <2>1, <2>2, <2>3 DEF Next
<1> QED BY <1>1, <1>2, WalkInvariance, PTL DEF Spec

\* Answers are sorted, without repetitions, and name a directory before what is
\* in it, for any depth and any limit (tree.go:34, detect.go:53).
THEOREM AnswersInOrder == Spec => []InOrder
<1>1. OrderInv => InOrder
  BY DEF OrderInv
<1> QED BY <1>1, OrderInvariance, PTL

-----------------------------------------------------------------------------
(* Nothing is skipped *)

LEMMA SameUpTo ==
  ASSUME NEW p \in Seq(Names), NEW q \in Seq(Names), NEW k \in 0..Len(p), k <= Len(q)
  PROVE  SubSeq(p, 1, k) = SubSeq(q, 1, k) <=> \A i \in 1..k : p[i] = q[i]
<1>1. k \in 0..Len(q)
  BY LenProperties
<1>2. /\ \A i \in 1..k : SubSeq(p, 1, k)[i] = p[i]
      /\ \A i \in 1..k : SubSeq(q, 1, k)[i] = q[i]
  BY <1>1, PrefixFacts
<1>3. ASSUME SubSeq(p, 1, k) = SubSeq(q, 1, k), NEW i \in 1..k PROVE p[i] = q[i]
  BY <1>2, <1>3
<1>4. ASSUME \A i \in 1..k : p[i] = q[i] PROVE SubSeq(p, 1, k) = SubSeq(q, 1, k)
  BY <1>4, SamePrefix
<1> QED BY <1>3, <1>4

\* The order of a depth-first listing, name by name.
Before(p, q) ==
  \/ Len(p) < Len(q) /\ \A i \in 1..Len(p) : p[i] = q[i]
  \/ \E k \in 1..Len(p) :
       /\ k <= Len(q) /\ Rank[p[k]] < Rank[q[k]]
       /\ \A i \in 1..(k - 1) : p[i] = q[i]

LEMMA PrecedesIsBefore ==
  ASSUME NEW p \in Seq(Names), NEW q \in Seq(Names)
  PROVE  Precedes(p, q) <=> Before(p, q)
<1>1. /\ Len(p) \in Nat /\ Len(q) \in Nat
      /\ DOMAIN p = 1..Len(p) /\ DOMAIN q = 1..Len(q)
      /\ SubSeq(p, 1, Len(p)) = p
  BY LenProperties, SubSeqFull
<1>2. IsStrictPrefix(p, q) <=> Len(p) < Len(q) /\ \A i \in 1..Len(p) : p[i] = q[i]
  <2>1. CASE Len(p) <= Len(q)
    <3>1. Len(p) \in 0..Len(p)
      BY <1>1
    <3>2. SubSeq(p, 1, Len(p)) = SubSeq(q, 1, Len(p)) <=> \A i \in 1..Len(p) : p[i] = q[i]
      BY <2>1, <3>1, SameUpTo
    <3>3. IsPrefix(p, q) <=> \A i \in 1..Len(p) : p[i] = q[i]
      BY <1>1, <2>1, <3>2 DEF IsPrefix
    <3>4. (\A i \in 1..Len(p) : p[i] = q[i]) => (p # q <=> Len(p) < Len(q))
      BY <1>1, <2>1, SeqEqual
    <3>5. IsStrictPrefix(p, q) <=> IsPrefix(p, q) /\ p # q
      BY DEF IsStrictPrefix
    <3> QED BY <3>3, <3>4, <3>5
  <2>2. CASE ~(Len(p) <= Len(q))
    BY <1>1, <2>2 DEF IsStrictPrefix, IsPrefix
  <2> QED BY <2>1, <2>2
<1>3. ASSUME NEW k \in 1..Len(p), k <= Len(q)
      PROVE  SubSeq(p, 1, k - 1) = SubSeq(q, 1, k - 1) <=> \A i \in 1..(k - 1) : p[i] = q[i]
  <2>1. k - 1 \in 0..Len(p) /\ k - 1 <= Len(q)
    BY <1>1, <1>3
  <2> QED BY <2>1, SameUpTo
<1>4. ASSUME NEW k PROVE k \in DOMAIN p \cap DOMAIN q <=> k \in 1..Len(p) /\ k <= Len(q)
  BY <1>1
<1> QED BY <1>2, <1>3, <1>4 DEF Precedes, Before

LEMMA NamesRanked ==
  ASSUME NEW p \in Seq(Names)
  PROVE  Len(p) \in Nat /\ \A i \in 1..Len(p) : p[i] \in Names /\ Rank[p[i]] \in Int
<1>1. Len(p) \in Nat /\ \A i \in 1..Len(p) : p[i] \in Names
  BY LenProperties, ElementOfSeq
<1> QED BY <1>1, WorldAssumption

LEMMA PrecedesOneWay ==
  ASSUME NEW p \in Seq(Names), NEW q \in Seq(Names), Precedes(p, q)
  PROVE  ~Precedes(q, p)
<1> SUFFICES ASSUME Before(p, q), Before(q, p) PROVE FALSE
  BY PrecedesIsBefore
<1>1. Len(p) \in Nat /\ Len(q) \in Nat
      /\ (\A i \in 1..Len(p) : Rank[p[i]] \in Int) /\ (\A i \in 1..Len(q) : Rank[q[i]] \in Int)
  BY NamesRanked
<1>2. CASE Len(p) < Len(q) /\ \A i \in 1..Len(p) : p[i] = q[i]
  BY <1>1, <1>2 DEF Before
<1>3. CASE Len(q) < Len(p) /\ \A i \in 1..Len(q) : q[i] = p[i]
  BY <1>1, <1>3 DEF Before
<1>4. ASSUME NEW k \in 1..Len(p), k <= Len(q), Rank[p[k]] < Rank[q[k]],
             \A i \in 1..(k - 1) : p[i] = q[i],
             NEW m \in 1..Len(q), m <= Len(p), Rank[q[m]] < Rank[p[m]],
             \A i \in 1..(m - 1) : q[i] = p[i]
      PROVE  FALSE
  <2>1. CASE k < m
    <3>1. k \in 1..(m - 1)
      BY <1>1, <2>1
    <3> QED BY <1>1, <1>4, <3>1
  <2>2. CASE m < k
    <3>1. m \in 1..(k - 1)
      BY <1>1, <2>2
    <3> QED BY <1>1, <1>4, <3>1
  <2>3. CASE m = k
    BY <1>1, <1>4, <2>3
  <2> QED BY <1>1, <2>1, <2>2, <2>3
<1> QED BY <1>2, <1>3, <1>4 DEF Before

\* What comes before a directory comes before all that is in it.
LEMMA PrecedesDeeper ==
  ASSUME NEW f \in Seq(Names), NEW p \in Seq(Names), NEW k \in 1..Len(p),
         Precedes(f, SubSeq(p, 1, k))
  PROVE  Precedes(f, p)
<1> DEFINE d == SubSeq(p, 1, k)
<1>1. Len(p) \in Nat /\ Len(f) \in Nat /\ k \in 0..Len(p)
  BY LenProperties
<1>2. d \in Seq(Names) /\ Len(d) = k /\ \A i \in 1..k : d[i] = p[i]
  BY <1>1, PrefixFacts
<1>3. Precedes(f, d)
  OBVIOUS
<1> HIDE DEF d
<1>4. Before(f, d)
  BY <1>2, <1>3, PrecedesIsBefore
<1>5. Before(f, p)
  <2>1. CASE Len(f) < Len(d) /\ \A i \in 1..Len(f) : f[i] = d[i]
    BY <1>1, <1>2, <2>1 DEF Before
  <2>2. ASSUME NEW m \in 1..Len(f), m <= Len(d), Rank[f[m]] < Rank[d[m]],
               \A i \in 1..(m - 1) : f[i] = d[i]
        PROVE  Before(f, p)
    <3>1. m <= Len(p) /\ m \in 1..k /\ d[m] = p[m] /\ \A i \in 1..(m - 1) : f[i] = p[i]
      BY <1>1, <1>2, <2>2
    <3> QED BY <2>2, <3>1 DEF Before
  <2> QED BY <1>4, <2>1, <2>2 DEF Before
<1> QED BY <1>5, PrecedesIsBefore

LEMMA Highest ==
  ASSUME NEW n \in Nat, NEW D \in SUBSET (1..n), D # {}
  PROVE  \E m \in D : \A i \in D : i <= m
<1> DEFINE Over(m) == {i \in D : m < i}
           Overs == {Over(m) : m \in D}
<1>0. \A i \in D : i \in Int
  <2>1. \A i \in 1..n : i \in Int
    OBVIOUS
  <2> QED BY <2>1
<1>1. IsWellFoundedOn(StrictSubsetOrdering(D), SUBSET D)
  <2>1. IsFiniteSet(1..n)
    BY FS_Interval
  <2>2. IsFiniteSet(D)
    BY <2>1, FS_Subset
  <2> QED BY <2>2, FS_FiniteSubsetsOfFinite, FS_StrictSubsetOrderingWellFounded
<1>2. Overs \subseteq SUBSET D /\ Overs # {}
  OBVIOUS
<1>3. PICK least \in Overs : \A b \in Overs : <<b, least>> \notin StrictSubsetOrdering(D)
  BY <1>1, <1>2, WFMin
<1>4. PICK m \in D : least = Over(m)
  OBVIOUS
<1>5. ASSUME NEW i \in D PROVE i <= m
  <2>1. SUFFICES ASSUME m < i PROVE FALSE
    OBVIOUS
  <2>2. \A k \in D : i < k => m < k
    BY <1>0, <2>1
  <2>3. Over(i) \subseteq Over(m)
    BY <2>2
  <2>4. i \in Over(m) /\ i \notin Over(i)
    BY <1>0, <2>1
  <2>5. <<Over(i), least>> \in StrictSubsetOrdering(D)
    BY <1>4, <2>3, <2>4 DEF StrictSubsetOrdering
  <2> QED BY <1>3, <2>5
<1> QED BY <1>5

\* In files of which each has its directory, each has all directories above it.
LEMMA Ancestors ==
  ASSUME NEW files \in SUBSET World, IsClosed(files), NEW p \in files, NEW j \in 1..(Len(p) - 1)
  PROVE  SubSeq(p, 1, j) \in files \cap Folders
<1> DEFINE Bad == {k \in 1..(Len(p) - 1) : SubSeq(p, 1, k) \notin files \cap Folders}
<1>1. p \in Seq(Names) /\ Len(p) \in Nat /\ p # <<>>
  BY WorldAssumption, LenProperties
<1>2. SUFFICES ASSUME Bad # {} PROVE FALSE
  OBVIOUS
<1>3. Len(p) - 1 \in Nat
  BY <1>1
<1>4. PICK m \in Bad : \A i \in Bad : i <= m
  BY <1>2, <1>3, Highest, Zenon
<1>5. m \in 1..(Len(p) - 1) /\ SubSeq(p, 1, m) \notin files \cap Folders
  OBVIOUS
<1>6. SubSeq(p, 1, m + 1) \in files
  <2>1. CASE m = Len(p) - 1
    <3>1. SubSeq(p, 1, Len(p)) = p
      BY <1>1, SubSeqFull
    <3>2. m + 1 = Len(p)
      BY <1>1, <2>1
    <3> QED BY <3>1, <3>2
  <2>2. CASE m # Len(p) - 1
    <3>1. m + 1 \in 1..(Len(p) - 1) /\ ~(m + 1 <= m)
      BY <1>1, <1>5, <2>2
    <3> QED BY <1>4, <3>1
  <2> QED BY <2>1, <2>2
<1>7. Parent(SubSeq(p, 1, m + 1)) = SubSeq(p, 1, m)
  <2> DEFINE q == SubSeq(p, 1, m + 1)
  <2>1. m + 1 \in 0..Len(p) /\ m \in 0..Len(p)
    BY <1>1, <1>5
  <2>2. q \in Seq(Names) /\ Len(q) = m + 1 /\ \A i \in 1..(m + 1) : q[i] = p[i]
    BY <1>1, <2>1, PrefixFacts
  <2> HIDE DEF q
  <2>3. m \in 0..Len(q) /\ m <= Len(p) /\ Len(q) - 1 = m
    BY <1>1, <1>5, <2>2
  <2>4. SubSeq(q, 1, m) = SubSeq(p, 1, m)
    BY <1>1, <2>2, <2>3, SamePrefix
  <2> QED BY <2>3, <2>4 DEF Parent, Front, q
<1>8. Len(SubSeq(p, 1, m + 1)) > 1
  <2>1. m + 1 \in 0..Len(p)
    BY <1>1, <1>5
  <2> QED BY <1>1, <1>5, <2>1, PrefixFacts
<1> QED BY <1>5, <1>6, <1>7, <1>8 DEF IsClosed

LEMMA AlwaysClosed == Spec => []IsClosed(always)
<1>1. Init => IsClosed(always)
  BY WorldAssumption DEF Init
<1>2. WalkInv /\ IsClosed(always) /\ [Next]_vars => IsClosed(always)'
  <2> SUFFICES ASSUME WalkInv, IsClosed(always), [Next]_vars PROVE IsClosed(always')
    OBVIOUS
  <2>1. CASE always' = always
    BY <2>1
  <2>2. ASSUME NEW r \in Requests, Ask(r) PROVE IsClosed(always')
    BY <2>2 DEF Ask, WalkInv, DiskInv
  <2>3. ASSUME NEW p \in World, Delete(p) PROVE IsClosed(always')
    <3>1. /\ there' = {q \in there : ~IsPrefix(p, q)} /\ always' = always \cap there'
      BY <2>3 DEF Delete
    <3>2. ASSUME NEW q \in always', Len(q) > 1 PROVE Parent(q) \in always' \cap Folders
      <4>1. /\ q \in always /\ q \in there /\ ~IsPrefix(p, q)
            /\ Parent(q) \in always \cap Folders /\ Parent(q) \in there
        BY <3>1, <3>2 DEF IsClosed, WalkInv, DiskInv
      <4>2. p \in Seq(Names) /\ q \in Seq(Names) /\ q # <<>>
        BY <4>1, WorldAssumption DEF WalkInv, DiskInv
      <4>3. ~IsPrefix(p, Parent(q))
        BY <4>1, <4>2, ParentBelow
      <4> QED BY <3>1, <4>1, <4>3
    <3> QED BY <3>2 DEF IsClosed
  <2> QED BY <2>1, <2>2, <2>3
       DEF Next, Change, Create, vars, diskVars, Step, PassOver, Enter, ListFile, SearchFile, Leave
<1> QED BY <1>1, <1>2, WalkInvariance, PTL DEF Spec

\* The walk has still to deal with p, or with a directory above it.
Pending(p) ==
  \E k \in 1..Len(rest) :
    k <= Len(p) /\ p[k] \in rest[k] /\ \A i \in 1..(k - 1) : p[i] = at[i]

Reported(p) == ResultsOf(p) \subseteq ToSet(found)

\* The answer is at its limit, and p would come after all that is in it.
CutOff(p) ==
  /\ request.walk \in {"tree", "search"} /\ Len(found) >= request.max
  /\ \A d \in ToSet(found) : ~Precedes(p, d.path)

CoverInv ==
  \A p \in always : InReach(p) /\ Wanted(p) => Reported(p) \/ Pending(p) \/ CutOff(p)

LEMMA WantedFacts ==
  ASSUME NEW p, Wanted(p)
  PROVE  /\ request.walk \in {"tree", "search", "list"}
         /\ request.walk = "tree" =>
              Len(p) <= request.depth + 1 /\ p[1] # Git /\ ToSet(p) \cap request.ignore = {}
         /\ request.walk = "list" =>
              /\ p \in Folders /\ Len(p) <= request.depth + 1
              /\ ToSet(p) \cap ({Git} \cup BuildNames) = {}
         /\ request.walk = "search" =>
              /\ ReadFile(request.base, p) /\ p \in Globbed
              /\ Git \notin ToSet(Front(p)) /\ ~ShouldSkipDir(request.base)
BY DEF Wanted

LEMMA PrefixGrows ==
  ASSUME NEW p \in Seq(Names), NEW k \in 1..Len(p)
  PROVE  Append(SubSeq(p, 1, k - 1), p[k]) = SubSeq(p, 1, k)
<1> DEFINE d == SubSeq(p, 1, k - 1)
           e == SubSeq(p, 1, k)
<1>1. Len(p) \in Nat /\ k - 1 \in 0..Len(p) /\ k \in 0..Len(p) /\ p[k] \in Names
  BY NamesRanked
<1>2. /\ d \in Seq(Names) /\ Len(d) = k - 1 /\ \A i \in 1..(k - 1) : d[i] = p[i]
      /\ e \in Seq(Names) /\ Len(e) = k /\ \A i \in 1..k : e[i] = p[i]
  BY <1>1, PrefixFacts
<1> HIDE DEF d, e
<1>3. /\ Append(d, p[k]) \in Seq(Names) /\ Len(Append(d, p[k])) = k
      /\ Append(d, p[k])[k] = p[k] /\ \A i \in 1..(k - 1) : Append(d, p[k])[i] = d[i]
  BY <1>1, <1>2, AppendProperties
<1>4. \A i \in 1..k : Append(d, p[k])[i] = e[i]
  BY <1>2, <1>3
<1>5. Append(d, p[k]) = e
  BY <1>2, <1>3, <1>4, SeqEqual
<1> QED BY <1>5 DEF d, e

\* What is still to come does not precede anything that has been found.
LEMMA PendingIsLater ==
  ASSUME WalkInv, ComesFirst, NEW p \in Seq(Names), Pending(p), Walking, NEW d \in ToSet(found)
  PROVE  ~Precedes(p, d.path)
<1>1. PICK k \in 1..Len(rest) :
        k <= Len(p) /\ p[k] \in rest[k] /\ \A i \in 1..(k - 1) : p[i] = at[i]
  BY DEF Pending
<1>2. Len(rest) = Len(at) + 1 /\ at \in Seq(Names) /\ Len(at) \in Nat /\ Len(p) \in Nat
  BY LenProperties DEF WalkInv, SpotInv
<1>3. k \in 1..Len(p) /\ k - 1 \in 0..Len(p) /\ k - 1 <= Len(at)
  BY <1>1, <1>2
<1>4. SubSeq(p, 1, k - 1) = SubSeq(at, 1, k - 1)
  BY <1>1, <1>2, <1>3, SamePrefix
<1>5. d.path \in Seq(Names)
  BY ItemsFacts, PathsAreNames DEF WalkInv, FoundInv, Item
<1>6. Precedes(d.path, Append(SubSeq(at, 1, k - 1), p[k]))
  BY <1>1 DEF ComesFirst, Ahead
<1>7. Precedes(d.path, SubSeq(p, 1, k))
  BY <1>3, <1>4, <1>6, PrefixGrows
<1>8. Precedes(d.path, p)
  BY <1>3, <1>5, <1>7, PrecedesDeeper
<1> QED BY <1>5, <1>8, PrecedesOneWay

\* Nor does it precede the entry that is dealt with next.
LEMMA PendingIsNext ==
  ASSUME WalkInv, ComesFirst, AtEntry, NEW p \in Seq(Names), Pending(p)
  PROVE  ~Precedes(p, Path)
<1>1. PICK k \in 1..Len(rest) :
        k <= Len(p) /\ p[k] \in rest[k] /\ \A i \in 1..(k - 1) : p[i] = at[i]
  BY DEF Pending
<1>2. /\ Len(rest) = Len(at) + 1 /\ Len(at) \in Nat
      /\ Path \in Seq(Names) /\ Len(Path) = Len(at) + 1
      /\ \A i \in 1..Len(at) : Path[i] = at[i]
      /\ Path[Len(at) + 1] = Name
  BY EntryFacts DEF WalkInv
<1>3. /\ Len(p) \in Nat /\ \A i \in 1..Len(p) : Rank[p[i]] \in Int
      /\ \A i \in 1..Len(Path) : Rank[Path[i]] \in Int
  BY <1>2, NamesRanked
<1>4. \A i \in 1..(k - 1) : p[i] = Path[i]
  BY <1>1, <1>2
<1>5. CASE k = Len(rest) /\ p[k] = Name
  <2>1. Len(Path) <= Len(p) /\ \A i \in 1..Len(Path) : p[i] = Path[i]
    BY <1>1, <1>2, <1>4, <1>5
  <2>2. ~Before(p, Path)
    BY <1>2, <1>3, <2>1 DEF Before
  <2> QED BY <1>2, <2>2, PrecedesIsBefore
<1>6. CASE ~(k = Len(rest) /\ p[k] = Name)
  <2>1. p[k] \in Rest[k]
    BY <1>1, <1>6, RestFacts DEF WalkInv
  <2>2. Rank[Path[k]] < Rank[p[k]]
    BY <2>1, LaterNames
  <2>3. k \in 1..Len(Path) /\ k <= Len(p) /\ \A i \in 1..(k - 1) : Path[i] = p[i]
    BY <1>1, <1>2, <1>4
  <2>4. Before(Path, p)
    BY <2>2, <2>3 DEF Before
  <2> QED BY <1>2, <2>4, PrecedesIsBefore, PrecedesOneWay
<1> QED BY <1>5, <1>6

\* Dealing with one entry leaves the others to come.
LEMMA PendingKept ==
  ASSUME WalkInv, AtEntry, Stays \/ Descends, NEW p, NEW k \in 1..Len(rest),
         k <= Len(p), p[k] \in rest[k], \A i \in 1..(k - 1) : p[i] = at[i],
         ~(k = Len(rest) /\ p[k] = Name)
  PROVE  Pending(p)'
<1>1. p[k] \in Rest[k] /\ Len(Rest) = Len(rest)
  BY RestFacts DEF WalkInv
<1>2. /\ Len(rest) = Len(at) + 1 /\ Len(at) \in Nat
      /\ \A i \in 1..Len(at) : Path[i] = at[i]
  BY EntryFacts DEF WalkInv
<1>3. CASE Stays
  BY <1>1, <1>3 DEF Stays, Pending
<1>4. CASE Descends
  <2>1. Len(rest') = Len(rest) + 1 /\ rest'[k] = Rest[k] /\ at' = Path
    BY <1>4, DescendFacts DEF WalkInv, Descends
  <2>2. k \in 1..Len(rest') /\ \A i \in 1..(k - 1) : p[i] = at'[i]
    BY <1>2, <2>1
  <2> QED BY <1>1, <2>1, <2>2 DEF Pending
<1> QED BY <1>3, <1>4

\* An entry on the way to something wanted is not passed over.
LEMMA NotPassed ==
  ASSUME WalkInv, IsClosed(always), AtEntry, NEW p \in always, Wanted(p),
         Len(Path) <= Len(p), \A i \in 1..Len(Path) : p[i] = Path[i]
  PROVE  ~Passes
<1>1. /\ Path \in Seq(Names) /\ Len(Path) = Len(at) + 1 /\ Len(at) \in Nat
      /\ Path[Len(Path)] = Name
  BY EntryFacts DEF WalkInv
<1>2. p \in Seq(Names) /\ p # <<>> /\ Len(p) \in Nat /\ DOMAIN p = 1..Len(p)
      /\ always \in SUBSET World
  BY WorldAssumption, LenProperties DEF WalkInv, DiskInv
<1>3. /\ Front(p) \in Seq(Names) /\ Len(Front(p)) = Len(p) - 1
      /\ \A i \in 1..(Len(p) - 1) : Front(p)[i] = p[i]
  BY <1>2, FrontFacts
<1>4. SubSeq(p, 1, Len(Path)) = Path /\ SubSeq(p, 1, Len(p)) = p
  <2>1. Len(Path) \in 0..Len(p) /\ Len(Path) <= Len(Path)
    BY <1>1, <1>2
  <2>2. SubSeq(p, 1, Len(Path)) = SubSeq(Path, 1, Len(Path))
    BY <1>1, <1>2, <2>1, SamePrefix
  <2> QED BY <1>1, <1>2, <2>2, SubSeqFull
<1>5. ASSUME Len(Path) < Len(p) PROVE Path \in Folders
  <2>1. Len(Path) \in 1..(Len(p) - 1)
    BY <1>1, <1>2, <1>5
  <2> QED BY <1>2, <1>4, <2>1, Ancestors
<1>6. ASSUME Len(Path) = Len(p) PROVE Path = p
  BY <1>4, <1>6
<1>7. Len(Path) < Len(p) \/ Len(Path) = Len(p)
  <2>1. Len(Path) \in Nat /\ Len(p) \in Nat
    BY <1>1, <1>2
  <2> QED BY <2>1
<1>8. Name \in ToSet(p) /\ Name = p[Len(Path)] /\ Len(Path) \in 1..Len(p)
  BY <1>1, <1>2 DEF ToSet
<1>9. CASE request.walk = "tree"
  <2>1. at = <<>> => Name = p[1]
    BY <1>1, <1>8
  <2> QED BY <1>8, <1>9, <2>1, WantedFacts DEF Passes
<1>10. CASE request.walk = "list"
  <2>1. Path \in Folders
    BY <1>7, <1>5, <1>6, <1>10, WantedFacts
  <2> QED BY <1>8, <1>10, <2>1, WantedFacts DEF Passes
<1>11. CASE request.walk = "search"
  <2>1. /\ ReadFile(request.base, p) /\ p \in Globbed /\ Git \notin ToSet(Front(p))
        /\ \A i \in DOMAIN p : p[i] \notin IgnoreDirs
    BY <1>11, WantedFacts DEF ReadFile, IsPathAllowed
  <2>2. CASE Len(Path) < Len(p)
    <3>1. Len(Path) \in 1..(Len(p) - 1) /\ DOMAIN Front(p) = 1..(Len(p) - 1)
      BY <1>1, <1>2, <1>3, <2>2, LenProperties
    <3>2. Name \in ToSet(Front(p))
      BY <1>3, <1>8, <3>1 DEF ToSet
    <3>3. ~ShouldSkipDir(Name)
      BY <1>2, <1>8, <2>1, <3>2 DEF ShouldSkipDir
    <3> QED BY <1>5, <1>11, <2>2, <3>3 DEF Passes
  <2>3. CASE Len(Path) = Len(p)
    <3>1. Path = p
      BY <1>6, <2>3
    <3> QED BY <1>11, <2>1, <3>1 DEF Passes, Unsearched, ReadFile
  <2> QED BY <1>7, <2>2, <2>3
<1> QED BY <1>9, <1>10, <1>11, WantedFacts

\* An answer keeps what is in it.
LEMMA FoundKept ==
  ASSUME WalkInv, Step
  PROVE  ToSet(found) \subseteq ToSet(found')
<1>1. CASE found' = found
  BY <1>1
<1>2. CASE AtEntry /\ (SearchFile \/ found' = Append(found, Result(Path, 0)))
  BY <1>2, EntryExtends, ExtendedItems
<1>3. CASE found' = <<Result(<<>>, 0)>> \o found
  <2>0. <<Result(<<>>, 0)>> \in Seq(Item) /\ Len(<<Result(<<>>, 0)>>) = 1
    BY ResultTyped DEF Item
  <2>1. found \in Seq(Item)
    BY DEF WalkInv, FoundInv, Item
  <2>2. /\ found' \in Seq(Item) /\ Len(found') = 1 + Len(found) /\ Len(found) \in Nat
        /\ \A i \in 1..(1 + Len(found)) :
             found'[i] = IF i <= 1 THEN <<Result(<<>>, 0)>>[i] ELSE found[i - 1]
    BY <1>3, <2>0, <2>1, ConcatProperties, LenProperties
  <2>3. ASSUME NEW d \in ToSet(found) PROVE d \in ToSet(found')
    <3>1. PICK i \in 1..Len(found) : d = found[i]
      BY <2>1, ItemsFacts
    <3>2. i + 1 \in 1..Len(found') /\ found'[i + 1] = d
      BY <2>2, <3>1
    <3> QED BY <2>2, <3>2, ItemsFacts
  <2> QED BY <2>3
<1>4. SearchFile => AtEntry
  BY DEF SearchFile
<1> QED BY <1>1, <1>2, <1>3, <1>4, StepAdds DEF WalkInv

\* What a search adds to its answer: all lines of the file, unless the limit
\* comes first.
LEMMA SearchFills ==
  ASSUME WalkInv, SearchFile
  PROVE  \/ Len(found') >= request.max
         \/ /\ rest' = Rest /\ at' = at
            /\ Path \in there => {Result(Path, i) : i \in 1..Lines[Path]} \subseteq ToSet(found')
<1> DEFINE hits == IF Path \in there THEN Lines[Path] ELSE 0
           room == request.max - Len(found)
           m == IF hits <= room THEN hits ELSE room
           new == [i \in 1..m |-> Result(Path, i)]
<1>1. /\ hits \in Nat /\ request.max \in Nat /\ Len(found) \in Nat /\ Len(found) <= request.max
      /\ found \in Seq(Item) /\ Path \in ever
  <2>1. request.walk = "search" /\ AtEntry
    BY DEF SearchFile
  <2> QED BY <2>1, EntryFacts, WorldAssumption, RequestFacts, LenProperties
       DEF WalkInv, SpotInv, DiskInv, FoundInv, Capped, Item
<1>2. found' = found \o new /\ (hits >= room \/ (at' = at /\ rest' = Rest))
  BY DEF SearchFile
<1>3. Path \in there => hits = Lines[Path]
  OBVIOUS
<1> HIDE DEF hits
<1>4. m \in Nat /\ (hits >= room => m = room) /\ (hits < room => m = hits)
  BY <1>1
<1>5. new \in Seq(Item) /\ Len(new) = m /\ \A i \in 1..m : new[i] = Result(Path, i)
  <2> HIDE DEF m
  <2>1. Path \in ever
    BY <1>1
  <2>2. \A i \in 1..m : Result(Path, i) \in Item
    BY <1>4, <2>1, ResultTyped DEF Item
  <2> QED BY <1>4, <2>2
<1> HIDE DEF new, m
<1>6. /\ found' \in Seq(Item) /\ Len(found') = Len(found) + m
      /\ \A i \in 1..(Len(found) + m) :
           found'[i] = IF i <= Len(found) THEN found[i] ELSE new[i - Len(found)]
  BY <1>1, <1>2, <1>5, ConcatProperties
<1>7. CASE hits >= room
  <2>1. Len(found') = Len(found) + room
    BY <1>4, <1>6, <1>7
  <2>2. Len(found') >= request.max
    BY <1>1, <2>1
  <2> QED BY <2>2
<1>8. CASE hits < room
  <2>1. ASSUME NEW i \in 1..hits PROVE Result(Path, i) \in ToSet(found')
    <3>1. Len(found) + i \in 1..Len(found') /\ found'[Len(found) + i] = new[i] /\ i \in 1..m
      BY <1>1, <1>4, <1>6, <1>8
    <3> QED BY <1>5, <1>6, <3>1, ItemsFacts
  <2>2. at' = at /\ rest' = Rest
    BY <1>1, <1>2, <1>8
  <2> QED BY <1>3, <2>1, <2>2
<1> QED BY <1>1, <1>7, <1>8

\* An answer at its limit stays as it is.
LEMMA FullStays ==
  ASSUME WalkInv, Step, request.walk \in {"tree", "search"}, Len(found) >= request.max
  PROVE  found' = found
<1>1. CASE request.walk = "tree"
  <2>1. ~AtEntry
    BY <1>1 DEF AtEntry, Full
  <2> QED BY <1>1, <2>1, StepAdds DEF WalkInv, SearchFile
<1>2. CASE request.walk = "search"
  <2>1. SUFFICES ASSUME SearchFile PROVE found' = found
    BY <1>2, StepAdds DEF WalkInv
  <2>2. PICK new \in Nat :
          new <= request.max - Len(found) /\ found' = found \o [i \in 1..new |-> Result(Path, i)]
    BY <2>1, SearchAdds DEF WalkInv
  <2>3. Len(found) \in Nat /\ request.max \in Nat /\ found \in Seq(Item)
    BY RequestFacts, LenProperties DEF WalkInv, SpotInv, FoundInv, Item
  <2>4. new = 0
    BY <2>2, <2>3
  <2>5. [i \in 1..new |-> Result(Path, i)] = <<>>
    BY <2>4
  <2> QED BY <2>2, <2>3, <2>5, ConcatEmptySeq
<1> QED BY <1>1, <1>2

\* Something wanted stays reported, to come, or beyond the limit when the walk
\* deals with the entry on the way to it.
LEMMA EntryCovers ==
  ASSUME WalkInv, ComesFirst, IsClosed(always), AtEntry, Step, request' = request,
         NEW p \in always, InReach(p), Wanted(p), Pending(p),
         Len(Path) <= Len(p), \A i \in 1..Len(Path) : p[i] = Path[i]
  PROVE  Reported(p)' \/ Pending(p)' \/ CutOff(p)'
<1>1. ~Passes
  BY NotPassed
<1>2. /\ Path \in Seq(Names) /\ Len(Path) = Len(rest) /\ Len(rest) = Len(at) + 1 /\ Len(at) \in Nat
      /\ \A i \in 1..Len(at) : Path[i] = at[i]
  BY EntryFacts DEF WalkInv
<1>3. p \in Seq(Names) /\ Len(p) \in Nat /\ p \in there /\ always \in SUBSET World
  BY WorldAssumption, LenProperties DEF WalkInv, DiskInv
<1>4. SubSeq(p, 1, Len(Path)) = Path
  <2>1. Len(Path) \in 0..Len(p) /\ Len(Path) <= Len(Path)
    BY <1>2, <1>3
  <2>2. SubSeq(p, 1, Len(Path)) = SubSeq(Path, 1, Len(Path))
    BY <1>2, <1>3, <2>1, SamePrefix
  <2> QED BY <1>2, <2>2, SubSeqFull
<1>5. CASE Len(Path) < Len(p)
  <2>1. Len(Path) \in 1..(Len(p) - 1)
    BY <1>2, <1>3, <1>5
  <2>2. Path \in Folders
    BY <1>3, <1>4, <2>1, Ancestors
  <2>3. Enter
    BY <1>1, <2>2 DEF Step, PassOver, ListFile, SearchFile, Leave, AtEntry
  <2>4. request.walk = "search" \/ Len(Path) <= request.depth
    <3>1. request.depth \in Nat
      BY RequestFacts DEF WalkInv, SpotInv
    <3> QED BY <1>2, <1>3, <1>5, <3>1, WantedFacts
  <2>5. at' = Path /\ Descends
    BY <2>3, <2>4 DEF Enter, Descends
  <2>6. Len(rest') = Len(rest) + 1 /\ rest'[Len(rest) + 1] = ReadDir(Path)
    BY <2>5, DescendFacts DEF WalkInv
  <2>7. SubSeq(p, 1, Len(Path) + 1) \in there
    <3>1. CASE Len(Path) + 1 = Len(p)
      BY <1>3, <3>1, SubSeqFull
    <3>2. CASE Len(Path) + 1 # Len(p)
      <4>1. Len(Path) + 1 \in 1..(Len(p) - 1)
        BY <1>3, <2>1, <3>2
      <4> QED BY <1>3, <4>1, Ancestors DEF WalkInv, DiskInv
    <3> QED BY <3>1, <3>2
  <2>8. p[Len(Path) + 1] \in ReadDir(Path)
    <3>1. Len(Path) + 1 \in 1..Len(p) /\ Len(Path) + 1 - 1 = Len(Path)
      BY <1>3, <2>1
    <3>2. p[Len(Path) + 1] \in Names
      BY <1>3, <3>1, NamesRanked
    <3>3. Append(Path, p[Len(Path) + 1]) \in there
      <4>1. Append(SubSeq(p, 1, Len(Path) + 1 - 1), p[Len(Path) + 1]) = SubSeq(p, 1, Len(Path) + 1)
        BY <1>3, <3>1, PrefixGrows
      <4> QED BY <1>4, <2>7, <3>1, <4>1
    <3>4. Path \notin Unreadable
      <4>1. Len(Path) \in 0..(Len(p) - 1)
        BY <1>3, <2>1
      <4> QED BY <1>4, <4>1 DEF InReach
    <3> QED BY <3>2, <3>3, <3>4 DEF ReadDir
  <2>9. /\ Len(rest) + 1 \in 1..Len(rest') /\ Len(rest) + 1 <= Len(p)
        /\ p[Len(rest) + 1] \in rest'[Len(rest) + 1]
        /\ \A i \in 1..(Len(rest) + 1 - 1) : p[i] = at'[i]
    BY <1>2, <1>3, <2>1, <2>5, <2>6, <2>8
  <2>10. Pending(p)'
    BY <2>9 DEF Pending
  <2> QED BY <2>10
<1>6. CASE Len(Path) = Len(p)
  <2>1. p = Path
    <3>1. SubSeq(p, 1, Len(p)) = p
      BY <1>3, SubSeqFull
    <3> QED BY <1>4, <1>6, <3>1
  <2>2. CASE request.walk # "search"
    <3>1. found' = Append(found, Result(Path, 0))
      <4>1. CASE Path \in Folders
        <5>1. Enter
          BY <1>1, <4>1 DEF Step, PassOver, ListFile, SearchFile, Leave, AtEntry
        <5> QED BY <2>2, <5>1 DEF Enter
      <4>2. CASE Path \notin Folders
        <5>1. ListFile
          BY <1>1, <2>2, <4>2 DEF Step, PassOver, Enter, SearchFile, Leave, AtEntry
        <5> QED BY <5>1 DEF ListFile
      <4> QED BY <4>1, <4>2
    <3>2. Result(Path, 0) \in Item /\ found \in Seq(Item)
      BY EntryFacts, ResultTyped DEF WalkInv, FoundInv, Item
    <3>3. found' \in Seq(Item) /\ Len(found') = Len(found) + 1 /\ Len(found) \in Nat
          /\ found'[Len(found) + 1] = Result(Path, 0)
      BY <3>1, <3>2, AppendProperties, LenProperties
    <3>4. Len(found) + 1 \in 1..Len(found')
      BY <3>3
    <3>5. Result(Path, 0) \in ToSet(found')
      BY <3>3, <3>4, ItemsFacts
    <3> QED BY <2>1, <2>2, <3>5 DEF Reported, ResultsOf
  <2>3. CASE request.walk = "search"
    <3>1. p \notin Folders
      BY <2>3, WantedFacts DEF ReadFile
    <3>2. SearchFile
      BY <1>1, <2>1, <2>3, <3>1 DEF Step, PassOver, Enter, ListFile, Leave, AtEntry, Full
    <3>3. Path \in there
      BY <1>3, <2>1
    <3>4. CASE {Result(Path, i) : i \in 1..Lines[Path]} \subseteq ToSet(found')
      BY <2>1, <2>3, <3>4 DEF Reported, ResultsOf
    <3>5. CASE Len(found') >= request.max
      <4>1. ASSUME NEW d \in ToSet(found') PROVE ~Precedes(p, d.path)
        <5>1. Extends
          BY <3>2, EntryExtends
        <5>2. d \in ToSet(found) \/ d.path = Path
          BY <4>1, <5>1, ExtendedItems
        <5>3. CASE d \in ToSet(found)
          BY <1>3, <5>3, PendingIsLater DEF AtEntry
        <5>4. CASE d.path = Path
          BY <1>3, <2>1, <5>4, PrecedesOneWay
        <5> QED BY <5>2, <5>3, <5>4
      <4> QED BY <2>3, <3>5, <4>1 DEF CutOff
    <3> QED BY <3>2, <3>3, <3>4, <3>5, SearchFills
  <2> QED BY <2>2, <2>3
<1>7. Len(Path) < Len(p) \/ Len(Path) = Len(p)
  BY <1>2, <1>3
<1> QED BY <1>5, <1>6, <1>7

LEMMA StepCovers ==
  ASSUME WalkInv, OrderInv, IsClosed(always), CoverInv, Step
  PROVE  CoverInv'
<1>1. request' = request /\ always' = always /\ Walking /\ ComesFirst
  BY Moves DEF WalkInv, OrderInv, Step, PassOver, Enter, ListFile, SearchFile, Leave, diskVars
<1>2. SUFFICES ASSUME NEW p \in always, InReach(p), Wanted(p)
               PROVE  Reported(p)' \/ Pending(p)' \/ CutOff(p)'
  BY <1>1 DEF CoverInv, InReach, Wanted
<1>3. Reported(p) \/ Pending(p) \/ CutOff(p)
  BY <1>2 DEF CoverInv
<1>4. p \in Seq(Names) /\ Len(p) \in Nat
  BY WorldAssumption, LenProperties DEF WalkInv, DiskInv
<1>5. CASE Reported(p)
  <2>1. ResultsOf(p)' = ResultsOf(p)
    BY <1>1 DEF ResultsOf
  <2> QED BY <1>5, <2>1, FoundKept DEF Reported
<1>6. ASSUME request.walk \in {"tree", "search"}, Len(found) >= request.max,
             \A d \in ToSet(found) : ~Precedes(p, d.path)
      PROVE  CutOff(p)'
  BY <1>1, <1>6, FullStays DEF CutOff
<1>7. CASE CutOff(p)
  BY <1>6, <1>7 DEF CutOff
<1>8. CASE Pending(p)
  <2>1. PICK k \in 1..Len(rest) :
          k <= Len(p) /\ p[k] \in rest[k] /\ \A i \in 1..(k - 1) : p[i] = at[i]
    BY <1>8 DEF Pending
  <2>2. \A d \in ToSet(found) : ~Precedes(p, d.path)
    BY <1>1, <1>4, <1>8, PendingIsLater
  <2>3. Len(rest) = Len(at) + 1 /\ Len(at) \in Nat /\ Len(rest) \in Nat /\ Last(rest) = rest[Len(rest)]
    BY <1>1, LenProperties DEF WalkInv, SpotInv, Last
  <2>4. CASE AtEntry /\ (Stays \/ Descends)
    <3>1. CASE k = Len(rest) /\ p[k] = Name
      <4>1. /\ Len(Path) = Len(at) + 1 /\ Path[Len(at) + 1] = Name
            /\ \A i \in 1..Len(at) : Path[i] = at[i]
        BY <2>4, EntryFacts DEF WalkInv
      <4>2. Len(Path) <= Len(p) /\ \A i \in 1..Len(Path) : p[i] = Path[i]
        BY <2>1, <2>3, <3>1, <4>1
      <4> QED BY <1>1, <1>2, <1>8, <2>4, <4>2, EntryCovers
    <3>2. CASE ~(k = Len(rest) /\ p[k] = Name)
      BY <2>1, <2>4, <3>2, PendingKept
    <3> QED BY <3>1, <3>2
  <2>5. CASE Leave
    <3>1. CASE k = Len(rest)
      <4>1. Full
        BY <1>8, <2>1, <2>3, <2>5, <3>1 DEF Leave
      <4> QED BY <1>6, <2>2, <4>1 DEF Full
    <3>2. CASE k # Len(rest)
      <4>1. at # <<>>
        BY <2>1, <2>3, <3>2
      <4>2. Ascends
        BY <2>5, <4>1 DEF Leave, Ascends
      <4>3. /\ Len(rest') = Len(rest) - 1 /\ Len(at') = Len(at) - 1
            /\ \A i \in 1..Len(at') : at'[i] = at[i]
            /\ \A i \in 1..Len(rest') : rest'[i] = rest[i]
        BY <1>1, <4>2, AscendFacts DEF WalkInv
      <4>4. k \in 1..Len(rest') /\ rest'[k] = rest[k] /\ \A i \in 1..(k - 1) : at'[i] = at[i]
        BY <2>1, <2>3, <3>2, <4>3
      <4> QED BY <2>1, <4>4 DEF Pending
    <3> QED BY <3>1, <3>2
  <2>6. CASE SearchFile /\ Ends
    <3>1. AtEntry /\ request.walk = "search" /\ Path \notin Folders
      BY <2>6 DEF SearchFile
    <3>2. Extends
      BY <2>6, <3>1, EntryExtends
    <3>3. ASSUME NEW d \in ToSet(found') PROVE ~Precedes(p, d.path)
      <4>1. d \in ToSet(found) \/ d.path = Path
        BY <3>2, <3>3, ExtendedItems
      <4> QED BY <1>1, <1>4, <1>8, <2>2, <3>1, <4>1, PendingIsNext
    <3>4. rest' # Rest
      BY <2>6, <3>1, RestFacts DEF Ends, WalkInv
    <3>5. Len(found') >= request.max
      BY <2>6, <3>4, SearchFills DEF Ends
    <3> QED BY <1>1, <3>1, <3>3, <3>5 DEF CutOff
  <2>7. \/ AtEntry /\ (Stays \/ Descends)
        \/ Leave
        \/ SearchFile /\ Ends
    BY DEF Step, PassOver, Enter, ListFile, SearchFile, Stays, Descends, Ends, AtEntry
  <2> QED BY <2>4, <2>5, <2>6, <2>7
<1> QED BY <1>3, <1>5, <1>7, <1>8

RootListed ==
  request.walk = "list" /\ ~Walking /\ (\E n \in Signals : <<n>> \in always) => <<>> \in Listed

\* A list ends where the project itself is looked at.
LEMMA StepRoot ==
  ASSUME WalkInv, Step
  PROVE  RootListed'
<1> SUFFICES ASSUME request'.walk = "list", rest' = <<>>, NEW n \in Signals, <<n>> \in always'
             PROVE  <<>> \in Listed'
  BY DEF RootListed, Walking
<1>1. request' = request /\ Walking /\ always' = always
  BY Moves DEF WalkInv, Step, PassOver, Enter, ListFile, SearchFile, Leave, diskVars
<1>2. HasProjectSignal
  BY <1>1 DEF HasProjectSignal, WalkInv, DiskInv
<1>3. ~(AtEntry /\ (Stays \/ Descends))
  <2>1. AtEntry => Rest # <<>>
    BY RestFacts DEF WalkInv
  <2>2. AtEntry /\ Descends => Len(rest') = Len(rest) + 1 /\ Len(rest) \in Nat
    BY DescendFacts, LenProperties DEF WalkInv, SpotInv
  <2>3. Len(<<>>) = 0
    OBVIOUS
  <2> QED BY <2>1, <2>2, <2>3 DEF Stays
<1>4. Leave
  BY <1>1, <1>3 DEF Step, PassOver, Enter, ListFile, SearchFile, Stays, Descends, AtEntry
<1>5. at = <<>>
  <2>1. SUFFICES ASSUME at # <<>> PROVE FALSE
    OBVIOUS
  <2>2. Ascends
    BY <1>4, <2>1 DEF Leave, Ascends
  <2>3. Len(rest') = Len(rest) - 1 /\ Len(rest) = Len(at) + 1 /\ Len(at) \in Nat \ {0}
    BY <1>1, <2>2, AscendFacts DEF WalkInv
  <2>4. Len(<<>>) = 0
    OBVIOUS
  <2> QED BY <2>3, <2>4
<1>6. found' = <<Result(<<>>, 0)>> \o found
  BY <1>1, <1>2, <1>4, <1>5 DEF Leave
<1>7. found \in Seq(Item) /\ <<Result(<<>>, 0)>> \in Seq(Item)
      /\ Len(<<Result(<<>>, 0)>>) = 1 /\ <<Result(<<>>, 0)>>[1] = Result(<<>>, 0)
  <2>1. <<Result(<<>>, 0)>> \in Seq(Item)
    BY ResultTyped DEF Item
  <2>2. found \in Seq(Item)
    BY DEF WalkInv, FoundInv, Item
  <2> QED BY <2>1, <2>2
<1>8. found' \in Seq(Item) /\ Len(found') = 1 + Len(found) /\ Len(found) \in Nat
      /\ \A i \in 1..(1 + Len(found)) :
           found'[i] = IF i <= 1 THEN <<Result(<<>>, 0)>>[i] ELSE found[i - 1]
  BY <1>6, <1>7, ConcatProperties, LenProperties
<1>9. 1 \in DOMAIN found' /\ found'[1] = Result(<<>>, 0)
  BY <1>7, <1>8, LenProperties
<1> QED BY <1>9 DEF Listed, Result

LEMMA AskCovers ==
  ASSUME WalkInv, NEW r \in Requests, Ask(r)
  PROVE  CoverInv' /\ RootListed'
<1>1. request' = r /\ always' = there
  BY DEF Ask
<1>2. CASE r.walk = "search" /\ ShouldSkipDir(r.base)
  BY <1>1, <1>2 DEF CoverInv, Wanted, RootListed
<1>3. CASE ~(r.walk = "search" /\ ShouldSkipDir(r.base))
  <2>1. rest' = <<ReadDir(<<>>)>> /\ Len(rest') = 1 /\ rest'[1] = ReadDir(<<>>)
    BY <1>3 DEF Ask
  <2>2. RootListed'
    BY <2>1 DEF RootListed, Walking
  <2>3. ASSUME NEW p \in there, InReach(p) PROVE Pending(p)'
    <3>1. p \in Seq(Names) /\ p # <<>> /\ Len(p) \in Nat \ {0} /\ there \in SUBSET World
      BY WorldAssumption, LenProperties, EmptySeq DEF WalkInv, DiskInv
    <3>2. SubSeq(p, 1, 0) = <<>> /\ 1 \in 1..Len(p)
      BY <3>1, SubSeqEmpty
    <3>3. SubSeq(p, 1, 1) \in there
      <4>1. CASE Len(p) = 1
        BY <3>1, <4>1, SubSeqFull
      <4>2. CASE Len(p) # 1
        <5>1. 1 \in 1..(Len(p) - 1)
          <6>1. \A n \in Nat \ {0} : n # 1 => 1 \in 1..(n - 1)
            OBVIOUS
          <6> QED BY <3>1, <4>2, <6>1
        <5> QED BY <3>1, <5>1, Ancestors DEF WalkInv, DiskInv
      <4> QED BY <4>1, <4>2
    <3>4. Append(<<>>, p[1]) = SubSeq(p, 1, 1)
      <4>1. Append(SubSeq(p, 1, 1 - 1), p[1]) = SubSeq(p, 1, 1)
        BY <3>1, <3>2, PrefixGrows
      <4> QED BY <3>2, <4>1
    <3>5. p[1] \in Names
      BY <3>1, <3>2, NamesRanked
    <3>6. <<>> \notin Unreadable
      <4>1. 0 \in 0..(Len(p) - 1)
        BY <3>1
      <4> QED BY <2>3, <3>2, <4>1 DEF InReach
    <3>7. p[1] \in ReadDir(<<>>)
      BY <3>3, <3>4, <3>5, <3>6 DEF ReadDir
    <3> QED BY <2>1, <3>1, <3>7 DEF Pending
  <2>4. CoverInv'
    BY <1>1, <2>3 DEF CoverInv, InReach
  <2> QED BY <2>2, <2>4
<1> QED BY <1>2, <1>3

\* Nothing that was there all the time is missing from an answer below its
\* limit, or before the last entry of another, whatever else comes and goes,
\* for any depth and number of names (GetProjectTree,
\* SearchProject and DetectProjects).
THEOREM NothingMissed == Spec => []NothingSkipped
<1>1. Init => CoverInv /\ RootListed
  BY DEF Init, NoRequest, Request, CoverInv, Wanted, RootListed
<1>2. WalkInv /\ OrderInv /\ IsClosed(always) /\ CoverInv /\ RootListed /\ [Next]_vars
        => CoverInv' /\ RootListed'
  <2> SUFFICES ASSUME WalkInv, OrderInv, IsClosed(always), CoverInv, RootListed, [Next]_vars
               PROVE  CoverInv' /\ RootListed'
    OBVIOUS
  <2>1. CASE UNCHANGED vars \/ Change
    <3>1. UNCHANGED walkVars /\ always' \subseteq always
      BY <2>1 DEF vars, diskVars, Change, Create, Delete
    <3> QED BY <3>1 DEF walkVars, CoverInv, RootListed, Walking, Listed, InReach, Wanted,
                        Reported, ResultsOf, Pending, CutOff
  <2>2. ASSUME NEW r \in Requests, Ask(r) PROVE CoverInv' /\ RootListed'
    BY <2>2, AskCovers
  <2>3. CASE Step
    BY <2>3, StepCovers, StepRoot
  <2> QED BY <2>1, <2>2, <2>3 DEF Next
<1>3. WalkInv /\ OrderInv /\ CoverInv /\ RootListed => NothingSkipped
  <2> SUFFICES ASSUME WalkInv, OrderInv, CoverInv, RootListed,
                      NEW p \in always, InReach(p), Wanted(p),
                      Complete \/ \E i \in DOMAIN found : Precedes(p, found[i].path)
               PROVE  Reported(p)
    BY DEF NothingSkipped, RootListed, Reported
  <2>1. Reported(p) \/ Pending(p) \/ CutOff(p)
    BY DEF CoverInv
  <2>2. p \in Seq(Names)
    BY WorldAssumption DEF WalkInv, DiskInv
  <2>3. Pending(p) => Walking
    BY DEF Pending, Walking
  <2>4. request.max \in Nat /\ Len(found) \in Nat
    BY RequestFacts, LenProperties DEF WalkInv, SpotInv, FoundInv
  <2>5. CASE Complete
    BY <2>1, <2>3, <2>4, <2>5 DEF Complete, CutOff
  <2>6. ASSUME NEW i \in DOMAIN found, Precedes(p, found[i].path) PROVE Reported(p)
    <3>1. found[i] \in ToSet(found)
      BY <2>6 DEF ToSet
    <3>2. ~CutOff(p)
      BY <2>6, <3>1 DEF CutOff
    <3>3. ~Pending(p)
      BY <2>2, <2>3, <2>6, <3>1, PendingIsLater DEF OrderInv
    <3> QED BY <2>1, <3>2, <3>3
  <2> QED BY <2>5, <2>6
<1> QED BY <1>1, <1>2, <1>3, WalkInvariance, OrderInvariance, AlwaysClosed, PTL DEF Spec

-----------------------------------------------------------------------------
(* Nothing else is listed *)

\* The walk that was asked for goes into directory d.
OnTheWay(d) ==
  \/ /\ request.walk = "tree" /\ Len(d) <= request.depth /\ (Len(d) > 0 => d[1] # Git)
     /\ \A i \in 1..Len(d) : d[i] \notin request.ignore
  \/ /\ request.walk = "list" /\ Len(d) <= request.depth
     /\ \A i \in 1..Len(d) : d[i] \notin {Git} \cup BuildNames
  \/ /\ request.walk = "search" /\ ~ShouldSkipDir(request.base)
     /\ \A i \in 1..Len(d) : ~ShouldSkipDir(d[i])

\* A walk is in directories it should go into, and what it has still to deal
\* with can be reached through directories that can be read.
WayInv ==
  Walking =>
    /\ OnTheWay(at)
    /\ \A k \in 1..Len(rest) : \A n \in rest[k] : InReach(Append(SubSeq(at, 1, k - 1), n))

LEMMA EntryInReach ==
  ASSUME WalkInv, WayInv, AtEntry
  PROVE  InReach(Path)
<1>1. Len(rest) = Len(at) + 1 /\ Len(at) \in Nat /\ Name \in rest[Len(rest)] /\ Walking
  BY EntryFacts DEF WalkInv, AtEntry
<1>2. SubSeq(at, 1, Len(rest) - 1) = at /\ Len(rest) \in 1..Len(rest)
  BY <1>1, SubSeqFull DEF WalkInv, SpotInv
<1>3. InReach(Append(SubSeq(at, 1, Len(rest) - 1), Name))
  BY <1>1, <1>2 DEF WayInv
<1> QED BY <1>2, <1>3 DEF Path

\* What lies in a directory that could be read is in reach if that is.
LEMMA ReachGrows ==
  ASSUME NEW p \in Seq(Names), InReach(p), NEW n \in Names, n \in ReadDir(p)
  PROVE  InReach(Append(p, n))
<1> DEFINE q == Append(p, n)
<1>1. /\ q \in Seq(Names) /\ Len(q) = Len(p) + 1 /\ Len(p) \in Nat
      /\ \A i \in 1..Len(p) : q[i] = p[i]
  BY AppendProperties, LenProperties
<1> HIDE DEF q
<1>2. p \notin Unreadable
  BY DEF ReadDir
<1>3. ASSUME NEW i \in 0..(Len(q) - 1) PROVE SubSeq(q, 1, i) \notin Unreadable
  <2>1. i \in 0..Len(p) /\ i \in 0..Len(q) /\ i <= Len(p)
    BY <1>1
  <2>2. SubSeq(q, 1, i) = SubSeq(p, 1, i)
    BY <1>1, <2>1, SamePrefix
  <2>3. CASE i = Len(p)
    BY <1>2, <2>2, <2>3, SubSeqFull
  <2>4. CASE i # Len(p)
    <3>1. i \in 0..(Len(p) - 1)
      BY <1>1, <2>1, <2>4
    <3> QED BY <2>2, <3>1 DEF InReach
  <2> QED BY <2>3, <2>4
<1>4. InReach(q)
  BY <1>3 DEF InReach
<1> QED BY <1>4 DEF q

\* The entry that is not passed over is one that was asked for.
LEMMA EntryWanted ==
  ASSUME WalkInv, WayInv, AtEntry, ~Passes, request.walk = "search" => Path \notin Folders
  PROVE  Wanted(Path)
<1>1. /\ Path \in Seq(Names) /\ Len(Path) = Len(at) + 1 /\ Len(at) \in Nat /\ at \in Seq(Names)
      /\ \A i \in 1..Len(at) : Path[i] = at[i]
      /\ Path[Len(at) + 1] = Name /\ OnTheWay(at)
  BY EntryFacts DEF WalkInv, SpotInv, WayInv, AtEntry
<1>2. \A x \in ToSet(Path) : x = Name \/ \E i \in 1..Len(at) : x = at[i]
  <2>1. TAKE x \in ToSet(Path)
  <2>2. PICK i \in 1..Len(Path) : x = Path[i]
    BY <1>1, ItemsFacts
  <2>3. i = Len(at) + 1 \/ i \in 1..Len(at)
    BY <1>1
  <2> QED BY <1>1, <2>2, <2>3
<1>3. request.depth \in Nat
  BY RequestFacts DEF WalkInv, SpotInv
<1>4. CASE request.walk = "tree"
  <2>1. /\ Len(at) <= request.depth /\ (Len(at) > 0 => at[1] # Git)
        /\ \A i \in 1..Len(at) : at[i] \notin request.ignore
    BY <1>1, <1>4 DEF OnTheWay
  <2>2. Name \notin request.ignore /\ (at = <<>> => Name # Git)
    BY <1>4 DEF Passes
  <2>3. Len(Path) <= request.depth + 1 /\ ToSet(Path) \cap request.ignore = {}
    BY <1>1, <1>2, <1>3, <2>1, <2>2
  <2>4. Path[1] # Git
    <3>1. CASE Len(at) > 0
      BY <1>1, <2>1, <3>1
    <3>2. CASE Len(at) = 0
      BY <1>1, <2>2, <3>2, EmptySeq
    <3> QED BY <1>1, <3>1, <3>2
  <2> QED BY <1>4, <2>3, <2>4 DEF Wanted
<1>5. CASE request.walk = "list"
  <2>1. /\ Len(at) <= request.depth
        /\ \A i \in 1..Len(at) : at[i] \notin {Git} \cup BuildNames
    BY <1>1, <1>5 DEF OnTheWay
  <2>2. Path \in Folders /\ Name \notin {Git} \cup BuildNames
    BY <1>5 DEF Passes
  <2>3. Len(Path) <= request.depth + 1 /\ ToSet(Path) \cap ({Git} \cup BuildNames) = {}
    BY <1>1, <1>2, <1>3, <2>1, <2>2
  <2> QED BY <1>5, <2>2, <2>3 DEF Wanted
<1>6. CASE request.walk = "search"
  <2>1. ~ShouldSkipDir(request.base) /\ \A i \in 1..Len(at) : ~ShouldSkipDir(at[i])
    BY <1>1, <1>6 DEF OnTheWay
  <2>2. ReadFile(request.base, Path) /\ Path \in Globbed
    BY <1>6 DEF Passes, Unsearched, ReadFile
  <2>3. Front(Path) = at
    <3>1. Len(at) \in 0..Len(Path) /\ Len(at) <= Len(at) /\ Len(Path) - 1 = Len(at)
      BY <1>1
    <3>2. SubSeq(Path, 1, Len(at)) = SubSeq(at, 1, Len(at))
      BY <1>1, <3>1, SamePrefix
    <3> QED BY <1>1, <3>1, <3>2, SubSeqFull DEF Front
  <2>4. Git \notin ToSet(Front(Path))
    <3>1. SUFFICES ASSUME Git \in ToSet(at) PROVE FALSE
      BY <2>3
    <3>2. PICK i \in 1..Len(at) : Git = at[i]
      BY <1>1, <3>1, ItemsFacts
    <3> QED BY <2>1, <3>2 DEF ShouldSkipDir
  <2> QED BY <1>6, <2>1, <2>2, <2>4 DEF Wanted
<1> QED BY <1>1, <1>4, <1>5, <1>6 DEF OnTheWay

\* A directory that is entered is on the way, and so is the one above.
LEMMA EntryOnTheWay ==
  ASSUME WalkInv, WayInv, Enter, Descends
  PROVE  OnTheWay(at')
<1>1. AtEntry /\ ~Passes /\ Path \in Folders /\ at' = Path
  BY DEF Enter, Descends
<1>2. /\ Path \in Seq(Names) /\ Len(Path) = Len(at) + 1 /\ Len(at) \in Nat /\ at \in Seq(Names)
      /\ \A i \in 1..Len(at) : Path[i] = at[i]
      /\ Path[Len(at) + 1] = Name /\ OnTheWay(at)
      /\ Len(rest) = Len(at) + 1
  BY <1>1, EntryFacts DEF WalkInv, SpotInv, WayInv, AtEntry
<1>3. request' = request /\ (request.walk = "search" \/ Len(Path) <= request.depth)
  <2>1. at' # at
    BY <1>1, <1>2
  <2> QED BY <2>1 DEF Enter
<1>4. \A i \in 1..Len(Path) : (i \in 1..Len(at) /\ Path[i] = at[i]) \/ Path[i] = Name
  BY <1>2
<1>5. CASE request.walk = "tree"
  <2>1. (Len(at) > 0 => at[1] # Git) /\ \A i \in 1..Len(at) : at[i] \notin request.ignore
    BY <1>2, <1>5 DEF OnTheWay
  <2>2. Name \notin request.ignore /\ (at = <<>> => Name # Git)
    BY <1>1, <1>5 DEF Passes
  <2>3. Path[1] # Git
    <3>1. CASE Len(at) > 0
      BY <1>2, <2>1, <3>1
    <3>2. CASE Len(at) = 0
      BY <1>2, <2>2, <3>2, EmptySeq
    <3> QED BY <1>2, <3>1, <3>2
  <2>4. \A i \in 1..Len(Path) : Path[i] \notin request.ignore
    BY <1>4, <2>1, <2>2
  <2> QED BY <1>1, <1>3, <1>5, <2>3, <2>4 DEF OnTheWay
<1>6. CASE request.walk = "list"
  <2>1. \A i \in 1..Len(at) : at[i] \notin {Git} \cup BuildNames
    BY <1>2, <1>6 DEF OnTheWay
  <2>2. Name \notin {Git} \cup BuildNames
    BY <1>1, <1>6 DEF Passes
  <2>3. \A i \in 1..Len(Path) : Path[i] \notin {Git} \cup BuildNames
    BY <1>4, <2>1, <2>2
  <2> QED BY <1>1, <1>3, <1>6, <2>3 DEF OnTheWay
<1>7. CASE request.walk = "search"
  <2>1. ~ShouldSkipDir(request.base) /\ \A i \in 1..Len(at) : ~ShouldSkipDir(at[i])
    BY <1>2, <1>7 DEF OnTheWay
  <2>2. ~ShouldSkipDir(Name)
    BY <1>1, <1>7 DEF Passes
  <2>3. \A i \in 1..Len(Path) : ~ShouldSkipDir(Path[i])
    BY <1>4, <2>1, <2>2
  <2> QED BY <1>1, <1>3, <1>7, <2>1, <2>3 DEF OnTheWay, ShouldSkipDir
<1> QED BY <1>2, <1>5, <1>6, <1>7 DEF OnTheWay

LEMMA AboveOnTheWay ==
  ASSUME WalkInv, WayInv, Walking, Ascends, request' = request
  PROVE  OnTheWay(at')
<1>1. /\ Len(at') = Len(at) - 1 /\ Len(at) \in Nat \ {0}
      /\ \A i \in 1..Len(at') : at'[i] = at[i]
  BY AscendFacts DEF WalkInv
<1>2. \A i \in 1..Len(at') : i \in 1..Len(at)
  BY <1>1
<1>3. OnTheWay(at)
  BY DEF WayInv
<1>4. request.depth \in Nat
  BY RequestFacts DEF WalkInv, SpotInv
<1>5. CASE request.walk = "tree"
  <2>1. /\ Len(at) <= request.depth /\ at[1] # Git
        /\ \A i \in 1..Len(at) : at[i] \notin request.ignore
    BY <1>1, <1>3, <1>5 DEF OnTheWay
  <2>2. Len(at') <= request.depth /\ (Len(at') > 0 => at'[1] = at[1])
    BY <1>1, <1>4, <2>1
  <2> QED BY <1>1, <1>2, <1>5, <2>1, <2>2 DEF OnTheWay
<1>6. CASE request.walk = "list"
  <2>1. /\ Len(at) <= request.depth
        /\ \A i \in 1..Len(at) : at[i] \notin {Git} \cup BuildNames
    BY <1>3, <1>6 DEF OnTheWay
  <2>2. Len(at') <= request.depth
    BY <1>1, <1>4, <2>1
  <2> QED BY <1>1, <1>2, <1>6, <2>1, <2>2 DEF OnTheWay
<1>7. CASE request.walk = "search"
  <2>1. ~ShouldSkipDir(request.base) /\ \A i \in 1..Len(at) : ~ShouldSkipDir(at[i])
    BY <1>3, <1>7 DEF OnTheWay
  <2> QED BY <1>1, <1>2, <1>7, <2>1 DEF OnTheWay, ShouldSkipDir
<1> QED BY <1>3, <1>5, <1>6, <1>7 DEF OnTheWay

LEMMA StepWay ==
  ASSUME WalkInv, WayInv, Step
  PROVE  WayInv'
<1>1. request' = request /\ Walking
  BY Moves DEF WalkInv
<1>2. OnTheWay(at) /\ \A k \in 1..Len(rest) : \A n \in rest[k] : InReach(Append(SubSeq(at, 1, k - 1), n))
  BY <1>1 DEF WayInv
<1>3. CASE AtEntry /\ Stays
  <2>1. at' = at /\ rest' = Rest
    BY <1>3 DEF Stays
  <2>2. Len(Rest) = Len(rest) /\ \A k \in 1..Len(rest) : Rest[k] \subseteq rest[k]
    BY <1>3, RestFacts DEF WalkInv
  <2> QED BY <1>1, <1>2, <2>1, <2>2 DEF WayInv, OnTheWay, InReach
<1>4. CASE AtEntry /\ Descends
  <2>1. /\ Len(rest') = Len(rest) + 1
        /\ \A k \in 1..Len(rest) : rest'[k] = Rest[k] /\ SubSeq(at', 1, k - 1) = SubSeq(at, 1, k - 1)
        /\ rest'[Len(rest) + 1] = ReadDir(Path) /\ SubSeq(at', 1, Len(rest)) = Path
    BY <1>4, DescendFacts DEF WalkInv
  <2>2. Len(rest) = Len(at) + 1 /\ Len(at) \in Nat /\ Path \in Seq(Names)
    BY <1>4, EntryFacts DEF WalkInv
  <2>3. Enter
    <3>1. at' # at
      BY <1>4, <2>2, EntryFacts DEF Descends, WalkInv
    <3>2. ~Leave /\ ~SearchFile
      <4>1. ~Leave
        BY <1>4 DEF Leave, AtEntry
      <4>2. Path # <<>> /\ rest' # Rest
        <5>1. Len(Path) = Len(at) + 1
          BY <1>4, EntryFacts DEF WalkInv
        <5>2. Len(Rest) = Len(rest)
          BY <1>4, RestFacts DEF WalkInv
        <5> QED BY <2>1, <2>2, <5>1, <5>2, EmptySeq
      <4> QED BY <1>4, <3>1, <4>1, <4>2 DEF SearchFile, Descends
    <3> QED BY <3>1, <3>2 DEF Step, PassOver, ListFile
  <2>4. OnTheWay(at')
    BY <1>4, <2>3, EntryOnTheWay
  <2>5. ASSUME NEW k \in 1..Len(rest'), NEW n \in rest'[k]
        PROVE  InReach(Append(SubSeq(at', 1, k - 1), n))
    <3>1. CASE k \in 1..Len(rest)
      <4>1. n \in rest[k]
        BY <1>4, <2>1, <2>5, <3>1, RestFacts DEF WalkInv
      <4> QED BY <1>2, <2>1, <3>1, <4>1
    <3>2. CASE k = Len(rest) + 1
      <4>1. n \in ReadDir(Path) /\ n \in Names /\ k - 1 = Len(rest)
        BY <2>1, <2>2, <2>5, <3>2 DEF ReadDir
      <4>2. InReach(Append(Path, n))
        BY <1>4, <2>2, <4>1, EntryInReach, ReachGrows
      <4> QED BY <2>1, <4>1, <4>2
    <3> QED BY <2>1, <2>2, <3>1, <3>2
  <2> QED BY <1>1, <2>4, <2>5 DEF WayInv, OnTheWay, InReach
<1>5. CASE Ascends
  <2>1. /\ Len(rest') = Len(rest) - 1 /\ Len(rest) = Len(at) + 1 /\ Len(at) \in Nat
        /\ \A k \in 1..Len(rest') : rest'[k] = rest[k] /\ SubSeq(at', 1, k - 1) = SubSeq(at, 1, k - 1)
    BY <1>1, <1>5, AscendFacts DEF WalkInv
  <2>2. 1..Len(rest') \subseteq 1..Len(rest)
    BY <2>1
  <2>3. OnTheWay(at')
    BY <1>1, <1>5, AboveOnTheWay
  <2>4. ASSUME NEW k \in 1..Len(rest'), NEW n \in rest'[k]
        PROVE  InReach(Append(SubSeq(at', 1, k - 1), n))
    BY <1>2, <2>1, <2>2
  <2> QED BY <1>1, <2>3, <2>4 DEF WayInv, OnTheWay, InReach
<1>6. CASE Ends
  BY <1>6 DEF Ends, WayInv, Walking
<1> QED BY <1>3, <1>4, <1>5, <1>6, Moves DEF WalkInv

LEMMA AskWay ==
  ASSUME WalkInv, NEW r \in Requests, Ask(r)
  PROVE  WayInv'
<1>1. request' = r /\ at' = <<>> /\ Len(<<>>) = 0 /\ 1..0 = {}
  BY DEF Ask
<1>2. CASE r.walk = "search" /\ ShouldSkipDir(r.base)
  BY <1>1, <1>2 DEF Ask, WayInv, Walking
<1>3. CASE ~(r.walk = "search" /\ ShouldSkipDir(r.base))
  <2>1. rest' = <<ReadDir(<<>>)>> /\ Len(rest') = 1 /\ rest'[1] = ReadDir(<<>>)
    BY <1>3 DEF Ask
  <2>2. r.walk \in {"tree", "search", "list"} /\ r.depth \in Nat
    BY RequestFacts
       DEF Requests, TreeRequests, InspectRequests, SearchRequests, ListRequests, Request
  <2>3. OnTheWay(<<>>)'
    BY <1>1, <1>3, <2>2 DEF OnTheWay, ShouldSkipDir
  <2>4. ASSUME NEW n \in ReadDir(<<>>) PROVE InReach(Append(SubSeq(<<>>, 1, 0), n))
    <3>1. n \in Names /\ SubSeq(<<>>, 1, 0) = <<>> /\ <<>> \in Seq(Names)
      BY SubSeqEmpty DEF ReadDir
    <3>2. InReach(<<>>)
      BY DEF InReach
    <3> QED BY <2>4, <3>1, <3>2, ReachGrows
  <2>5. ASSUME NEW k \in 1..Len(rest'), NEW n \in rest'[k]
        PROVE  InReach(Append(SubSeq(at', 1, k - 1), n))
    <3>1. k = 1 /\ k - 1 = 0
      BY <2>1
    <3> QED BY <1>1, <2>1, <2>4, <2>5, <3>1
  <2> QED BY <1>1, <2>3, <2>5 DEF WayInv, OnTheWay, InReach
<1> QED BY <1>2, <1>3

\* What an answer has more after a step: results of an entry that was asked
\* for, or the project itself.
LEMMA StepFinds ==
  ASSUME WalkInv, WayInv, Step, NEW d \in ToSet(found')
  PROVE  \/ d \in ToSet(found)
         \/ Path \in ever /\ InReach(Path) /\ Wanted(Path) /\ d \in ResultsOf(Path)
         \/ request.walk = "list" /\ HasProjectSignal /\ d = Result(<<>>, 0)
<1>1. found \in Seq(Item) /\ Len(found) \in Nat
  BY LenProperties DEF WalkInv, FoundInv, Item
<1>2. CASE AtEntry /\ ~Passes /\ request.walk # "search" /\ found' = Append(found, Result(Path, 0))
  <2>1. Path \in ever /\ InReach(Path) /\ Wanted(Path)
    BY <1>2, EntryFacts, EntryInReach, EntryWanted DEF WalkInv
  <2>2. Result(Path, 0) \in Item
    BY <2>1, ResultTyped DEF Item
  <2>3. d \in ToSet(found) \/ d = Result(Path, 0)
    <3>1. /\ found' \in Seq(Item) /\ Len(found') = Len(found) + 1
          /\ \A i \in 1..Len(found) : found'[i] = found[i]
          /\ found'[Len(found) + 1] = Result(Path, 0)
      BY <1>1, <1>2, <2>2, AppendProperties
    <3>2. PICK i \in 1..Len(found') : d = found'[i]
      BY <3>1, ItemsFacts
    <3>3. i \in 1..Len(found) \/ i = Len(found) + 1
      BY <1>1, <3>1
    <3> QED BY <1>1, <3>1, <3>2, <3>3, ItemsFacts
  <2> QED BY <1>2, <2>1, <2>3 DEF ResultsOf
<1>3. CASE SearchFile
  <2>1. AtEntry /\ ~Passes /\ Path \notin Folders /\ request.walk = "search"
    BY <1>3 DEF SearchFile
  <2>2. Path \in ever /\ InReach(Path) /\ Wanted(Path)
    BY <2>1, EntryFacts, EntryInReach, EntryWanted DEF WalkInv
  <2>3. PICK m \in Nat : m <= Lines[Path] /\ found' = found \o [i \in 1..m |-> Result(Path, i)]
    BY <1>3, SearchAdds DEF WalkInv
  <2> DEFINE new == [i \in 1..m |-> Result(Path, i)]
  <2>4. \A i \in 1..m : Result(Path, i) \in Item
    BY <2>2, ResultTyped DEF Item
  <2>5. new \in Seq(Item) /\ Len(new) = m /\ \A i \in 1..m : new[i] = Result(Path, i)
    BY <2>4
  <2>6. found' = found \o new
    BY <2>3
  <2> HIDE DEF new
  <2>7. /\ found' \in Seq(Item) /\ Len(found') = Len(found) + m
        /\ \A i \in 1..(Len(found) + m) :
             found'[i] = IF i <= Len(found) THEN found[i] ELSE new[i - Len(found)]
    BY <1>1, <2>5, <2>6, ConcatProperties
  <2>8. PICK i \in 1..Len(found') : d = found'[i]
    BY <2>7, ItemsFacts
  <2>9. CASE i <= Len(found)
    <3>1. i \in 1..Len(found) /\ d = found[i]
      BY <1>1, <2>7, <2>8, <2>9
    <3> QED BY <1>1, <3>1, ItemsFacts
  <2>10. CASE i > Len(found)
    <3>1. i - Len(found) \in 1..m /\ d = Result(Path, i - Len(found))
      BY <1>1, <2>5, <2>7, <2>8, <2>10
    <3>2. Lines[Path] \in Nat
      BY <2>2, WorldAssumption DEF WalkInv, DiskInv
    <3>3. i - Len(found) \in 1..Lines[Path]
      BY <2>3, <3>1, <3>2
    <3> QED BY <2>1, <2>2, <3>1, <3>3 DEF ResultsOf
  <2> QED BY <1>1, <2>7, <2>9, <2>10
<1>4. CASE Leave /\ request.walk = "list" /\ at = <<>> /\ found' = <<Result(<<>>, 0)>> \o found
  <2>1. HasProjectSignal
    <3>1. SUFFICES ASSUME found' = found PROVE FALSE
      BY <1>4 DEF Leave
    <3>2. <<Result(<<>>, 0)>> \in Seq(Item) /\ Len(<<Result(<<>>, 0)>>) = 1
      BY ResultTyped DEF Item
    <3>3. Len(found') = 1 + Len(found)
      BY <1>1, <1>4, <3>2, ConcatProperties
    <3> QED BY <1>1, <3>1, <3>3
  <2>2. <<Result(<<>>, 0)>> \in Seq(Item) /\ Len(<<Result(<<>>, 0)>>) = 1
        /\ <<Result(<<>>, 0)>>[1] = Result(<<>>, 0)
    BY ResultTyped DEF Item
  <2>3. /\ found' \in Seq(Item) /\ Len(found') = 1 + Len(found)
        /\ \A i \in 1..(1 + Len(found)) :
             found'[i] = IF i <= 1 THEN <<Result(<<>>, 0)>>[i] ELSE found[i - 1]
    BY <1>1, <1>4, <2>2, ConcatProperties
  <2>4. PICK i \in 1..Len(found') : d = found'[i]
    BY <2>3, ItemsFacts
  <2>5. CASE i = 1
    BY <1>1, <1>4, <2>1, <2>2, <2>3, <2>4, <2>5
  <2>6. CASE i # 1
    <3>1. i - 1 \in 1..Len(found) /\ d = found[i - 1]
      BY <1>1, <2>3, <2>4, <2>6
    <3> QED BY <1>1, <3>1, ItemsFacts
  <2> QED BY <2>5, <2>6
<1> QED BY <1>2, <1>3, <1>4, StepAdds DEF WalkInv

LEMMA AnswersFacts ==
  ASSUME NEW files, NEW d
  PROVE  d \in Answers(files) <=>
           \/ \E p \in files : InReach(p) /\ Wanted(p) /\ d \in ResultsOf(p)
           \/ /\ request.walk = "list" /\ d = Result(<<>>, 0)
              /\ \E n \in Signals : <<n>> \in files
BY DEF Answers

WantedInv == WayInv /\ OnlyWanted

LEMMA WantedInvariance == Spec => []WantedInv
<1>1. Init => WantedInv
  BY EmptySeq DEF Init, WantedInv, WayInv, Walking, OnlyWanted, ToSet
<1>2. WalkInv /\ WantedInv /\ [Next]_vars => WantedInv'
  <2> SUFFICES ASSUME WalkInv, WantedInv, [Next]_vars PROVE WantedInv'
    OBVIOUS
  <2>1. CASE UNCHANGED vars \/ Change
    <3>1. UNCHANGED <<request, at, rest, found>> /\ ever \subseteq ever'
      BY <2>1 DEF vars, diskVars, walkVars, Change, Create, Delete
    <3>2. WayInv'
      BY <3>1 DEF WantedInv, WayInv, Walking, OnTheWay, InReach
    <3>3. ASSUME NEW d \in ToSet(found) PROVE d \in Answers(ever')
      <4>1. d \in Answers(ever)
        BY <3>3 DEF WantedInv, OnlyWanted
      <4> QED BY <3>1, <4>1, AnswersFacts
    <3>4. Answers(ever)' = Answers(ever')
      BY <3>1 DEF Answers, InReach, Wanted, ResultsOf
    <3> QED BY <3>1, <3>2, <3>3, <3>4 DEF WantedInv, OnlyWanted
  <2>2. ASSUME NEW r \in Requests, Ask(r) PROVE WantedInv'
    <3>1. found' = <<>>
      BY <2>2 DEF Ask
    <3>2. OnlyWanted'
      BY <3>1, EmptySeq DEF OnlyWanted, ToSet
    <3> QED BY <2>2, <3>2, AskWay DEF WantedInv
  <2>3. CASE Step
    <3>1. request' = request /\ ever' = ever
      BY <2>3, Moves
         DEF WalkInv, Step, PassOver, Enter, ListFile, SearchFile, Leave, diskVars
    <3>2. Answers(ever)' = Answers(ever)
      BY <3>1 DEF Answers, InReach, Wanted, ResultsOf
    <3>3. ASSUME NEW d \in ToSet(found') PROVE d \in Answers(ever)
      <4>1. CASE d \in ToSet(found)
        BY <4>1 DEF WantedInv, OnlyWanted
      <4>2. CASE Path \in ever /\ InReach(Path) /\ Wanted(Path) /\ d \in ResultsOf(Path)
        BY <4>2, AnswersFacts
      <4>3. CASE request.walk = "list" /\ HasProjectSignal /\ d = Result(<<>>, 0)
        <5>1. \E n \in Signals : <<n>> \in ever
          BY <4>3 DEF HasProjectSignal, WalkInv, DiskInv
        <5> QED BY <4>3, <5>1, AnswersFacts
      <4> QED BY <2>3, <4>1, <4>2, <4>3, StepFinds DEF WantedInv
    <3> QED BY <2>3, <3>2, <3>3, StepWay DEF WantedInv, OnlyWanted
  <2> QED BY <2>1, <2>2, <2>3 DEF Next
<1> QED BY <1>1, <1>2, WalkInvariance, PTL DEF Spec

\* Nothing is listed that was not asked for, lies behind a directory that
\* cannot be read, or did not exist at any time since the call, for any
\* request and however the files change (tree.go:30-49, search.go:32-57,
\* detect.go:60-71).
THEOREM NothingInvented == Spec => []OnlyWanted
<1>1. WantedInv => OnlyWanted
  BY DEF WantedInv
<1> QED BY <1>1, WantedInvariance, PTL

\* What a search finds, read_project_file can read, its size permitting
\* (search.go:38-57, read.go:14-46).
THEOREM SearchAgreesWithRead ==
  Spec => [](request.walk = "search" => \A p \in Listed : ReadFile(request.base, p))
<1>1. WalkInv /\ OnlyWanted
        => (request.walk = "search" => \A p \in Listed : ReadFile(request.base, p))
  <2> SUFFICES ASSUME WalkInv, OnlyWanted, request.walk = "search", NEW i \in DOMAIN found
               PROVE  ReadFile(request.base, found[i].path)
    BY DEF Listed
  <2>1. found[i] \in Answers(ever)
    BY DEF OnlyWanted, ToSet
  <2>2. PICK p \in ever : Wanted(p) /\ found[i] \in ResultsOf(p)
    BY <2>1, AnswersFacts
  <2>3. found[i].path = p
    BY <2>2 DEF ResultsOf, Result
  <2> QED BY <2>2, <2>3, WantedFacts
<1> QED BY <1>1, WalkInvariance, NothingInvented, PTL

-----------------------------------------------------------------------------
(* The answer is the reference listing *)

\* The lines of a file are found from the first one on.
LinesInv ==
  request.walk = "search" =>
    \A d \in ToSet(found) : \A l \in 1..d.line : Result(d.path, l) \in ToSet(found)

LEMMA SearchLines ==
  ASSUME WalkInv, LinesInv, SearchFile
  PROVE  LinesInv'
<1>1. found \in Seq(Item) /\ Len(found) \in Nat
  BY LenProperties DEF WalkInv, FoundInv, Item
<1>2. request.walk = "search" /\ request' = request /\ Path \in ever
  BY SearchAdds DEF SearchFile, WalkInv
<1>3. PICK m \in Nat : found' = found \o [i \in 1..m |-> Result(Path, i)]
  BY SearchAdds DEF WalkInv
<1> DEFINE new == [i \in 1..m |-> Result(Path, i)]
<1>4. \A i \in 1..m : Result(Path, i) \in Item
  BY <1>2, ResultTyped DEF Item
<1>5. new \in Seq(Item) /\ Len(new) = m /\ \A i \in 1..m : new[i] = Result(Path, i)
  BY <1>4
<1>6. found' = found \o new
  BY <1>3
<1> HIDE DEF new
<1>7. /\ found' \in Seq(Item) /\ Len(found') = Len(found) + m
      /\ \A i \in 1..(Len(found) + m) :
           found'[i] = IF i <= Len(found) THEN found[i] ELSE new[i - Len(found)]
  BY <1>1, <1>5, <1>6, ConcatProperties
<1>8. \A i \in 1..m : Result(Path, i) \in ToSet(found')
  <2>1. TAKE i \in 1..m
  <2>2. Len(found) + i \in 1..Len(found') /\ found'[Len(found) + i] = Result(Path, i)
    BY <1>1, <1>5, <1>7
  <2> QED BY <1>7, <2>2, ItemsFacts
<1>9. ToSet(found) \subseteq ToSet(found')
  <2>1. SUFFICES ASSUME NEW d \in ToSet(found) PROVE d \in ToSet(found')
    OBVIOUS
  <2>2. PICK i \in 1..Len(found) : d = found[i]
    BY <1>1, ItemsFacts
  <2>3. i \in 1..Len(found') /\ found'[i] = d
    BY <1>1, <1>7, <2>2
  <2> QED BY <1>7, <2>3, ItemsFacts
<1>10. ASSUME NEW d \in ToSet(found'), NEW l \in 1..d.line
       PROVE  Result(d.path, l) \in ToSet(found')
  <2>1. PICK i \in 1..Len(found') : d = found'[i]
    BY <1>7, ItemsFacts
  <2>2. CASE i <= Len(found)
    <3>1. d \in ToSet(found)
      BY <1>1, <1>7, <2>1, <2>2, ItemsFacts
    <3> QED BY <1>2, <1>9, <1>10, <3>1 DEF LinesInv
  <2>3. CASE i > Len(found)
    <3>1. i - Len(found) \in 1..m /\ d = Result(Path, i - Len(found))
      BY <1>1, <1>5, <1>7, <2>1, <2>3
    <3>2. d.path = Path /\ d.line = i - Len(found)
      BY <3>1 DEF Result
    <3>3. l \in 1..m
      BY <1>1, <1>10, <3>1, <3>2
    <3> QED BY <1>8, <3>2, <3>3
  <2> QED BY <1>1, <1>7, <2>2, <2>3
<1> QED BY <1>10 DEF LinesInv

LEMMA LinesInvariance == Spec => []LinesInv
<1>1. Init => LinesInv
  BY DEF Init, LinesInv, NoRequest, Request
<1>2. WalkInv /\ LinesInv /\ [Next]_vars => LinesInv'
  <2> SUFFICES ASSUME WalkInv, LinesInv, [Next]_vars PROVE LinesInv'
    OBVIOUS
  <2>1. CASE UNCHANGED vars \/ Change
    BY <2>1 DEF vars, walkVars, Change, LinesInv
  <2>2. ASSUME NEW r \in Requests, Ask(r) PROVE LinesInv'
    BY <2>2 DEF Ask, LinesInv, ToSet
  <2>3. CASE Step /\ ~SearchFile
    <3>1. request' = request
      BY <2>3, Moves DEF WalkInv
    <3>2. request.walk = "search" => found' = found
      BY <2>3, StepAdds DEF WalkInv
    <3> QED BY <3>1, <3>2 DEF LinesInv
  <2> QED BY <2>1, <2>2, <2>3, SearchLines DEF Next
<1> QED BY <1>1, <1>2, WalkInvariance, PTL DEF Spec

LEMMA SoonerOneWay ==
  ASSUME WalkInv, NEW r \in Item, NEW s \in Item, Sooner(r, s)
  PROVE  ~Sooner(s, r)
<1>1. r.path \in Seq(Names) /\ s.path \in Seq(Names)
  BY PathsAreNames
<1>2. r.line \in Nat /\ s.line \in Nat
  BY DEF Item
<1> QED BY <1>1, <1>2, PrecedesOneWay DEF Sooner

\* A sequence without repetitions has i - 1 members before the i-th.
LEMMA CountBefore ==
  ASSUME NEW T, NEW s \in Seq(T), NEW j \in 1..Len(s),
         \A a, b \in 1..Len(s) : s[a] = s[b] => a = b,
         NEW S, \A x : x \in S <=> \E i \in 1..(j - 1) : x = s[i]
  PROVE  IsFiniteSet(S) /\ Cardinality(S) = j - 1
<1> DEFINE I == 1..(j - 1)
           f == [i \in I |-> s[i]]
<1>1. Len(s) \in Nat /\ j \in Int /\ 1 <= j /\ I \subseteq 1..Len(s)
  BY LenProperties
<1>2. IsFiniteSet(I) /\ Cardinality(I) = j - 1
  <2>1. Cardinality(I) = IF 1 > j - 1 THEN 0 ELSE j - 1 - 1 + 1
    BY <1>1, FS_Interval
  <2> QED BY <1>1, <2>1, FS_Interval
<1>3. f \in Bijection(I, S)
  <2>1. f \in Injection(I, S)
    <3>1. f \in [I -> S] /\ \A i \in I : f[i] = s[i]
      OBVIOUS
    <3> QED BY <1>1, <3>1 DEF Injection, IsInjective
  <2>2. \A t \in S : \E i \in I : f[i] = t
    OBVIOUS
  <2> QED BY <2>1, <2>2 DEF Bijection, Injection, Surjection
<1>4. ExistsBijection(I, S)
  BY <1>3 DEF ExistsBijection
<1> HIDE DEF I
<1>5. IsFiniteSet(S) /\ Cardinality(S) = Cardinality(I)
  BY <1>2, <1>4, FS_Bijection
<1> QED BY <1>2, <1>5

\* Every result found is one of an entry's, or the project's own.
LEMMA FoundPaths ==
  ASSUME WalkInv, OnlyWanted, NEW d \in ToSet(found)
  PROVE  \/ d = Result(<<>>, 0) /\ request.walk = "list"
         \/ /\ d.path \in ever /\ d.path # <<>> /\ InReach(d.path) /\ Wanted(d.path)
            /\ d \in ResultsOf(d.path)
<1>1. d \in Answers(ever)
  BY DEF OnlyWanted
<1>2. ASSUME NEW p \in ever, InReach(p), Wanted(p), d \in ResultsOf(p)
      PROVE  /\ d.path \in ever /\ d.path # <<>> /\ InReach(d.path) /\ Wanted(d.path)
             /\ d \in ResultsOf(d.path)
  <2>1. d.path = p
    BY <1>2 DEF ResultsOf, Result
  <2>2. p # <<>>
    BY PathsAreNames
  <2> QED BY <1>2, <2>1, <2>2
<1> QED BY <1>1, <1>2, AnswersFacts

\* What would come before something that was found, was found, if the files
\* have not changed.
LEMMA NoGaps ==
  ASSUME WalkInv, OnlyWanted, NothingSkipped, LinesInv, ever = always, ~Walking,
         NEW d \in ToSet(found), NEW r \in Answers(ever), Sooner(r, d)
  PROVE  r \in ToSet(found)
<1>1. found \in Seq(Item) /\ ToSet(found) \subseteq Item
  BY ItemsFacts DEF WalkInv, FoundInv, Item
<1>2. PICK i \in DOMAIN found : d = found[i]
  BY <1>1, ItemsFacts
<1>3. CASE request.walk = "list" /\ r = Result(<<>>, 0) /\ \E n \in Signals : <<n>> \in ever
  <2>1. <<>> \in Listed
    BY <1>3 DEF NothingSkipped
  <2>2. PICK k \in DOMAIN found : found[k].path = <<>>
    BY <2>1 DEF Listed
  <2>3. found[k] \in ToSet(found)
    BY DEF ToSet
  <2>4. found[k] = r
    BY <1>3, <2>2, <2>3, FoundPaths
  <2> QED BY <2>3, <2>4
<1>4. ASSUME NEW p \in ever, InReach(p), Wanted(p), r \in ResultsOf(p)
      PROVE  r \in ToSet(found)
  <2>1. r.path = p /\ p # <<>>
    BY <1>4, PathsAreNames DEF ResultsOf, Result
  <2>2. CASE Precedes(p, d.path)
    <3>1. ResultsOf(p) \subseteq ToSet(found)
      BY <1>2, <1>4, <2>2 DEF NothingSkipped
    <3> QED BY <1>4, <3>1
  <2>3. CASE d.path = p /\ r.line < d.line
    <3>1. d \in ResultsOf(p)
      BY <2>1, <2>3, FoundPaths DEF Result
    <3>2. CASE request.walk # "search"
      BY <1>4, <2>3, <3>1, <3>2 DEF ResultsOf, Result
    <3>3. CASE request.walk = "search"
      <4>1. PICK l \in 1..Lines[p] : r = Result(p, l)
        BY <1>4, <3>3 DEF ResultsOf
      <4>2. d.line \in Nat /\ l < d.line /\ Lines[p] \in Nat
        BY <1>1, <1>4, <2>3, <4>1, WorldAssumption DEF Item, Result, WalkInv, DiskInv
      <4>3. l \in 1..d.line
        BY <4>2
      <4> QED BY <2>3, <3>3, <4>1, <4>3 DEF LinesInv
    <3> QED BY <3>2, <3>3
  <2> QED BY <2>1, <2>2, <2>3 DEF Sooner
<1>5. \/ \E p \in ever : InReach(p) /\ Wanted(p) /\ r \in ResultsOf(p)
      \/ request.walk = "list" /\ r = Result(<<>>, 0) /\ \E n \in Signals : <<n>> \in ever
  BY AnswersFacts
<1> QED BY <1>3, <1>4, <1>5

\* A complete answer has all there is.
LEMMA CompleteHasAll ==
  ASSUME WalkInv, OnlyWanted, NothingSkipped, ever = always, ~Walking, Complete,
         NEW r \in Answers(ever)
  PROVE  r \in ToSet(found)
<1>1. CASE request.walk = "list" /\ r = Result(<<>>, 0) /\ \E n \in Signals : <<n>> \in ever
  <2>1. <<>> \in Listed
    BY <1>1 DEF NothingSkipped
  <2>2. PICK k \in DOMAIN found : found[k].path = <<>>
    BY <2>1 DEF Listed
  <2>3. found[k] \in ToSet(found)
    BY DEF ToSet
  <2>4. found[k] = r
    BY <1>1, <2>2, <2>3, FoundPaths
  <2> QED BY <2>3, <2>4
<1>2. ASSUME NEW p \in ever, InReach(p), Wanted(p), r \in ResultsOf(p)
      PROVE  r \in ToSet(found)
  BY <1>2 DEF NothingSkipped
<1> QED BY <1>1, <1>2, AnswersFacts

LEMMA OrderedItems ==
  ASSUME WalkInv, InOrder
  PROVE  /\ \A j \in 1..Len(found) : \A i \in 1..(j - 1) : Sooner(found[i], found[j])
         /\ \A a, b \in 1..Len(found) : found[a] = found[b] => a = b
<1>1. found \in Seq(Item) /\ Len(found) \in Nat /\ DOMAIN found = 1..Len(found)
      /\ \A i \in 1..Len(found) : found[i] \in Item
  BY ItemsFacts DEF WalkInv, FoundInv, Item
<1>2. \A j \in 1..Len(found) : \A i \in 1..(j - 1) : Sooner(found[i], found[j])
  BY <1>1 DEF InOrder, Sooner
<1>3. ASSUME NEW a \in 1..Len(found), NEW b \in 1..Len(found), a < b PROVE found[a] # found[b]
  <2>1. a \in 1..(b - 1)
    BY <1>1, <1>3
  <2>2. Sooner(found[a], found[b])
    BY <1>2, <2>1
  <2> QED BY <1>1, <2>2, SoonerOneWay
<1>4. \A a, b \in 1..Len(found) : found[a] = found[b] => a = b
  <2>1. \A a, b \in 1..Len(found) : a < b \/ b < a \/ a = b
    BY <1>1
  <2> QED BY <1>3, <2>1
<1> QED BY <1>2, <1>4

\* If the files do not change during the walk, the answer is the reference
\* listing in depth-first order, or its first entries up to the limit, for any
\* project, request and limit (GetProjectTree, SearchProject, DetectProjects).
THEOREM ExactAnswers == Spec => []AnswerIsExact
<1>1. WalkInv /\ OnlyWanted /\ NothingSkipped /\ LinesInv /\ InOrder => AnswerIsExact
  <2> SUFFICES ASSUME WalkInv, OnlyWanted, NothingSkipped, LinesInv, InOrder,
                      ever = always, ~Walking
               PROVE  LET all == Answers(ever) IN
                      /\ \A i \in DOMAIN found :
                           Cardinality({r \in all : Sooner(r, found[i])}) = i - 1
                      /\ \/ ToSet(found) = all
                         \/ /\ ToSet(found) \subseteq all /\ request.walk # "list"
                            /\ Len(found) = request.max
    BY DEF AnswerIsExact
  <2> DEFINE all == Answers(ever)
  <2>1. ToSet(found) \subseteq all
    BY DEF OnlyWanted
  <2>2. found \in Seq(Item) /\ Len(found) \in Nat /\ DOMAIN found = 1..Len(found)
        /\ \A i \in 1..Len(found) : found[i] \in Item /\ found[i] \in ToSet(found)
    BY ItemsFacts DEF WalkInv, FoundInv, Item
  <2>3. ASSUME NEW j \in DOMAIN found
        PROVE  Cardinality({r \in all : Sooner(r, found[j])}) = j - 1
    <3>1. ASSUME NEW r \in all, Sooner(r, found[j])
          PROVE  \E i \in 1..(j - 1) : r = found[i]
      <4>1. r \in ToSet(found)
        BY <2>2, <3>1, NoGaps
      <4>2. PICK i \in 1..Len(found) : r = found[i]
        BY <2>2, <4>1, ItemsFacts
      <4>3. ~Sooner(found[j], r)
        BY <2>2, <3>1, <4>2, SoonerOneWay
      <4>4. i # j
        BY <3>1, <4>2, <4>3
      <4>5. ~(j < i)
        <5>1. j < i => j \in 1..(i - 1)
          BY <2>2, <2>3
        <5> QED BY <4>2, <4>3, <5>1, OrderedItems
      <4> QED BY <2>2, <2>3, <4>2, <4>4, <4>5
    <3>2. ASSUME NEW i \in 1..(j - 1) PROVE found[i] \in all /\ Sooner(found[i], found[j])
      <4>1. i \in 1..Len(found)
        BY <2>2, <2>3, <3>2
      <4> QED BY <2>1, <2>2, <2>3, <3>2, <4>1, OrderedItems
    <3>3. \A r : r \in {q \in all : Sooner(q, found[j])} <=> \E i \in 1..(j - 1) : r = found[i]
      BY <3>1, <3>2
    <3>4. \A a, b \in 1..Len(found) : found[a] = found[b] => a = b
      BY OrderedItems
    <3> HIDE DEF all
    <3> QED BY <2>2, <3>3, <3>4, CountBefore
  <2>4. ASSUME Complete PROVE ToSet(found) = all
    BY <2>1, <2>4, CompleteHasAll
  <2>5. ASSUME ~Complete
        PROVE  \/ ToSet(found) = all
               \/ ToSet(found) \subseteq all /\ request.walk # "list" /\ Len(found) = request.max
    <3>1. request.walk # "list" /\ ~(Len(found) < request.max) /\ request.max \in Nat
      BY <2>5, RequestFacts DEF Complete, WalkInv, SpotInv
    <3>2. CASE request.walk = "none"
      <4>1. \A p \in ever : ~Wanted(p)
        BY <3>2 DEF Wanted
      <4>2. \A r : r \notin all
        BY <3>1, <4>1, AnswersFacts
      <4> QED BY <2>1, <4>2
    <3>3. CASE request.walk # "none"
      <4>1. request.walk \in {"tree", "search"}
        BY <3>1, <3>3, RequestFacts DEF WalkInv, SpotInv
      <4>2. Len(found) <= request.max
        BY <4>1 DEF WalkInv, Capped
      <4>3. Len(found) = request.max
        BY <2>2, <3>1, <4>2
      <4> QED BY <2>1, <3>1, <4>3
    <3> QED BY <3>2, <3>3
  <2> QED BY <2>3, <2>4, <2>5
<1> QED BY <1>1, WalkInvariance, NothingInvented, NothingMissed, LinesInvariance, AnswersInOrder, PTL

=============================================================================
