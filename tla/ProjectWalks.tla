--------------------------- MODULE ProjectWalks ----------------------------
(***************************************************************************)
(* The three walks over a project's directories: get_project_tree and the  *)
(* tree of inspect_project (internal/project/tree.go), search_project      *)
(* (internal/fsx/search.go) and list_projects (internal/project/detect.go),*)
(* while other programs create and delete files.  A directory is read when *)
(* the walk enters it; each of its names is dealt with later, one a step.  *)
(* Walks share nothing but the files, so that one at a time is enough.     *)
(***************************************************************************)
EXTENDS Integers, SequencesExt

CONSTANTS Names,       \* names of files and directories
          Rank,        \* the order in which os.ReadDir sorts them
          World,       \* the paths, relative to the project, that may exist
          Folders,     \* those of them that are directories
          Unreadable,  \* directories that os.ReadDir may not read
          Starts,      \* what the project may hold to begin with
          MaxChanges,  \* bound: how often other programs change the files
          IgnoreDirs,  \* ignore.dirs of the configuration
          Git,         \* the name .git
          BuildNames,  \* names that DetectProjects passes over
          Signals,     \* ProjectSignals
          SecretNames, \* names that isSecretFile takes for a secret's
          Vaults,      \* the directories IsSensitivePath looks for
          Binary,      \* files with a NUL among their first bytes
          Globbed,     \* files that the glob of a search matches
          Lines,       \* for each file, how many of its lines match the query,
                       \* up to the first line of more than 64 KiB
          Bases,       \* names that the project's own directory may have
          Maxima,      \* values of max_entries and max_results
          InspectMax,  \* the 200 entries of handleInspectProject
          Depths       \* values of depth and max_depth that are not defaulted

Parent(p) == Front(p)
IsClosed(files) == \A p \in files : Len(p) > 1 => Parent(p) \in files \cap Folders

ASSUME WorldAssumption ==
  /\ IsFiniteSet(Names)
  /\ Rank \in [Names -> Int]
  /\ \A m, n \in Names : Rank[m] = Rank[n] => m = n
  /\ World \subseteq Seq(Names) \ {<<>>} /\ Folders \subseteq World
  /\ \A files \in Starts : files \subseteq World /\ IsClosed(files)
  /\ Lines \in [World -> Nat]
ASSUME RequestAssumption ==
  /\ Maxima \subseteq Nat \ {0} /\ InspectMax \in Nat \ {0} /\ Depths \subseteq Nat \ {0}
  /\ MaxChanges \in Nat

-----------------------------------------------------------------------------
(* The guard, and what the client may ask *)

\* IsPathAllowed, whose ".." does not occur in a path below the project.
IsPathAllowed(p) == \A i \in DOMAIN p : p[i] \notin IgnoreDirs \cup SecretNames

\* IsSensitivePath, of a path in a project whose own directory is called base.
IsSensitivePath(base, p) ==
  Last(p) \in SecretNames \/ ({base} \cup ToSet(p)) \cap Vaults # {}

ShouldSkipDir(name) == name \in IgnoreDirs \cup {Git}

\* What read_project_file returns, were it not for the size.
ReadFile(base, p) ==
  /\ IsPathAllowed(p) /\ ~IsSensitivePath(base, p)
  /\ p \notin Folders /\ p \notin Binary

\* max counts entries or results; a search has no depth, a list no max.
Request(walk, max, depth, ignore, base) ==
  [walk |-> walk, max |-> max, depth |-> depth, ignore |-> ignore, base |-> base]

TreeRequests ==
  {Request("tree", m, d, IgnoreDirs, b) : m \in Maxima, d \in Depths, b \in Bases}
InspectRequests == {Request("tree", InspectMax, 2, {}, b) : b \in Bases}
SearchRequests == {Request("search", m, 0, {}, b) : m \in Maxima, b \in Bases}
ListRequests == {Request("list", 0, d, {}, b) : d \in Depths, b \in Bases}
NoRequest == Request("none", 0, 0, {}, Git)
Requests == TreeRequests \cup InspectRequests \cup SearchRequests \cup ListRequests

-----------------------------------------------------------------------------
VARIABLES there,   \* the paths that exist
          changes, \* how often other programs have changed them
          request, \* what was asked for last
          at,      \* the directory the walk is in
          rest,    \* rest[i]: the names it has still to deal with in the
                   \* directory of i - 1 names that leads to at; <<>> when
                   \* the walk is over
          found,   \* the entries, matching lines or projects, in order
          ever,    \* history: the paths that existed since the walk began
          always   \* history: those that did all the time

diskVars == <<there, changes, ever, always>>
walkVars == <<request, at, rest, found>>
vars == <<diskVars, walkVars>>

\* os.ReadDir; a directory that is gone or cannot be read counts as empty.
ReadDir(dir) ==
  IF dir \in Unreadable THEN {} ELSE {n \in Names : Append(dir, n) \in there}

\* Slip: the names in another order.
SlipUnsorted(names) == CHOOSE n \in names : \A m \in names : Rank[n] >= Rank[m]

First(names) == CHOOSE n \in names : \A m \in names : Rank[n] <= Rank[m]

Walking == rest # <<>>
Full == request.walk = "tree" /\ Len(found) >= request.max
AtEntry == Walking /\ Last(rest) # {} /\ ~Full
Name == First(Last(rest))

Path == Append(at, Name)

Rest == [rest EXCEPT ![Len(rest)] = @ \ {Name}]
Result(p, line) == [path |-> p, line |-> line]

-----------------------------------------------------------------------------
(* Actions *)

\* A tool call; WalkDir asks about the project's directory first of all.
Ask(r) ==
  /\ ~Walking
  /\ request' = r
  /\ at' = <<>> /\ found' = <<>>
  /\ rest' = IF r.walk = "search" /\ ShouldSkipDir(r.base) THEN <<>> ELSE <<ReadDir(<<>>)>>
  /\ ever' = there /\ always' = there
  /\ UNCHANGED <<there, changes>>

\* Slip: the name is looked at, the directories on the way to it are not.
SlipNameOnly(p) ==
  IsSensitivePath(request.base, p) \/ p \notin Globbed \/ p \in Binary

\* The files that a search does not open.
Unsearched(p) ==
  \/ ~IsPathAllowed(p) \/ IsSensitivePath(request.base, p)
  \/ p \notin Globbed \/ p \in Binary

\* The names that each walk goes past.
Passes ==
  CASE request.walk = "tree" -> Name \in request.ignore \/ (Name = Git /\ at = <<>>)
    [] request.walk = "search" ->
         IF Path \in Folders THEN ShouldSkipDir(Name) ELSE Unsearched(Path)
    [] request.walk = "list" -> Path \notin Folders \/ Name \in {Git} \cup BuildNames

\* Slip: a name that is passed over ends its directory.
SlipReturn ==
  /\ AtEntry /\ Passes
  /\ rest' = [rest EXCEPT ![Len(rest)] = {}]
  /\ UNCHANGED <<diskVars, request, at, found>>

PassOver ==
  /\ AtEntry /\ Passes
  /\ rest' = Rest
  /\ UNCHANGED <<diskVars, request, at, found>>

\* Slip: a level of directories too few is entered.
SlipShallow ==
  /\ AtEntry /\ ~Passes /\ Path \in Folders
  /\ found' = IF request.walk = "search" THEN found ELSE Append(found, Result(Path, 0))
  /\ IF request.walk = "search" \/ Len(Path) < request.depth
     THEN at' = Path /\ rest' = Append(Rest, ReadDir(Path))
     ELSE at' = at /\ rest' = Rest
  /\ UNCHANGED <<diskVars, request>>

\* A directory, which tree and list also report, is entered at once.
Enter ==
  /\ AtEntry /\ ~Passes /\ Path \in Folders
  /\ found' = IF request.walk = "search" THEN found ELSE Append(found, Result(Path, 0))
  /\ IF request.walk = "search" \/ Len(Path) <= request.depth
     THEN at' = Path /\ rest' = Append(Rest, ReadDir(Path))
     ELSE at' = at /\ rest' = Rest
  /\ UNCHANGED <<diskVars, request>>

ListFile ==
  /\ AtEntry /\ ~Passes /\ Path \notin Folders
  /\ request.walk = "tree"
  /\ found' = Append(found, Result(Path, 0))
  /\ rest' = Rest
  /\ UNCHANGED <<diskVars, request, at>>

\* Slip: the limit is looked at between files only.
SlipWholeFile ==
  LET hits == IF Path \in there THEN Lines[Path] ELSE 0 IN
  /\ AtEntry /\ ~Passes /\ Path \notin Folders
  /\ request.walk = "search"
  /\ found' = found \o [i \in 1..hits |-> Result(Path, i)]
  /\ IF hits > 0 /\ Len(found') >= request.max
     THEN at' = <<>> /\ rest' = <<>>
     ELSE at' = at /\ rest' = Rest
  /\ UNCHANGED <<diskVars, request>>

\* The last of max_results ends the whole walk, in the middle of a file.
SearchFile ==
  LET hits == IF Path \in there THEN Lines[Path] ELSE 0
      room == request.max - Len(found)
      new == IF hits <= room THEN hits ELSE room IN
  /\ AtEntry /\ ~Passes /\ Path \notin Folders
  /\ request.walk = "search"
  /\ found' = found \o [i \in 1..new |-> Result(Path, i)]
  /\ IF hits >= room THEN at' = <<>> /\ rest' = <<>> ELSE at' = at /\ rest' = Rest
  /\ UNCHANGED <<diskVars, request>>

HasProjectSignal == \E n \in Signals : <<n>> \in there

\* Slip: the walk goes on in the directory it has finished.
SlipStay ==
  /\ Walking /\ (Last(rest) = {} \/ Full)
  /\ rest' = Front(rest)
  /\ UNCHANGED <<diskVars, request, at, found>>

\* The end of a directory: of its names, or of the room in a tree.  The error
\* that reports the latter is dropped by the call for the directory above.
\* In a list, the root itself comes first, if it looks like a project.
Leave ==
  /\ Walking /\ (Last(rest) = {} \/ Full)
  /\ rest' = Front(rest)
  /\ at' = IF at = <<>> THEN <<>> ELSE Front(at)
  /\ found' = IF request.walk = "list" /\ at = <<>> /\ HasProjectSignal
              THEN <<Result(<<>>, 0)>> \o found
              ELSE found
  /\ UNCHANGED <<diskVars, request>>

\* Other programs, at any moment.
Create(p) ==
  /\ p \notin there /\ (Len(p) > 1 => Parent(p) \in there \cap Folders)
  /\ there' = there \cup {p}
  /\ ever' = ever \cup {p}
  /\ UNCHANGED always

\* A directory goes with all that is in it.
Delete(p) ==
  /\ p \in there
  /\ there' = {q \in there : ~IsPrefix(p, q)}
  /\ always' = always \cap there'
  /\ UNCHANGED ever

Change ==
  /\ changes < MaxChanges /\ changes' = changes + 1
  /\ \E p \in World : Create(p) \/ Delete(p)
  /\ UNCHANGED walkVars

Init ==
  /\ there \in Starts /\ changes = 0
  /\ ever = there /\ always = there
  /\ request = NoRequest
  /\ at = <<>> /\ rest = <<>> /\ found = <<>>

Step == PassOver \/ Enter \/ ListFile \/ SearchFile \/ Leave

Next == (\E r \in Requests : Ask(r)) \/ Step \/ Change

Spec == Init /\ [][Next]_vars

-----------------------------------------------------------------------------
(* Properties *)

WalkTypeOK ==
  /\ there \subseteq World /\ IsClosed(there)
  /\ changes \in 0..MaxChanges
  /\ always \subseteq there /\ there \subseteq ever /\ ever \subseteq World
  /\ request \in Requests \cup {NoRequest}
  /\ at \in Seq(Names)
  /\ rest \in Seq(SUBSET Names)
  /\ Walking => Len(rest) = Len(at) + 1
  /\ found \in Seq([path : World \cup {<<>>}, line : Nat])

\* No answer is longer than max_entries or max_results, although the error
\* with which a nested directory stops a tree is dropped (tree.go:35, 54), and
\* a file of a search may hold many matches (search.go:74).
Capped == request.walk \in {"tree", "search"} => Len(found) <= request.max

Listed == {found[i].path : i \in DOMAIN found}

\* The order of a depth-first listing.
Precedes(p, q) ==
  \/ IsStrictPrefix(p, q)
  \/ \E i \in DOMAIN p \cap DOMAIN q :
       SubSeq(p, 1, i - 1) = SubSeq(q, 1, i - 1) /\ Rank[p[i]] < Rank[q[i]]

\* Answers are sorted, without repetitions, and name a directory before what is
\* in it, so that a tree can be rebuilt from them, also if files come and go
\* meanwhile or the answer is cut off (tree.go:34, detect.go:53).
InOrder ==
  \A j \in DOMAIN found :
    /\ \A i \in 1..(j - 1) :
         \/ Precedes(found[i].path, found[j].path)
         \/ found[i].path = found[j].path /\ found[i].line < found[j].line
    /\ request.walk # "search" /\ Len(found[j].path) > 1 =>
         \E i \in 1..(j - 1) : found[i].path = Parent(found[j].path)

InReach(p) == \A i \in 0..(Len(p) - 1) : SubSeq(p, 1, i) \notin Unreadable

\* What a request is after.  The walk of a search skips .git directories and,
\* with one of the ignored names, the project itself (search.go:32).
Wanted(p) ==
  CASE request.walk = "tree" ->
         Len(p) <= request.depth + 1 /\ p[1] # Git /\ ToSet(p) \cap request.ignore = {}
    [] request.walk = "list" ->
         /\ p \in Folders /\ Len(p) <= request.depth + 1
         /\ ToSet(p) \cap ({Git} \cup BuildNames) = {}
    [] request.walk = "search" ->
         /\ ReadFile(request.base, p) /\ p \in Globbed
         /\ Git \notin ToSet(Front(p)) /\ ~ShouldSkipDir(request.base)
    [] OTHER -> FALSE

ResultsOf(p) ==
  IF request.walk = "search" THEN {Result(p, i) : i \in 1..Lines[p]} ELSE {Result(p, 0)}

Complete == ~Walking /\ (request.walk = "list" \/ Len(found) < request.max)

\* Nothing that was there all the time is missing from an answer that is below
\* its limit, nor, in one that is not, before the last entry.  A search so
\* finds what read_project_file would return (search.go:32-57, read.go:14-46):
\* two implementations of the guard that no test compares.
NothingSkipped ==
  /\ \A p \in always :
       /\ InReach(p) /\ Wanted(p)
       /\ Complete \/ \E i \in DOMAIN found : Precedes(p, found[i].path)
       => ResultsOf(p) \subseteq ToSet(found)
  /\ request.walk = "list" /\ ~Walking /\ (\E n \in Signals : <<n>> \in always)
       => <<>> \in Listed

\* What there is to answer, if these are the files.
Answers(files) ==
  (UNION {ResultsOf(p) : p \in {q \in files : InReach(q) /\ Wanted(q)}})
  \cup {Result(<<>>, 0) : n \in {m \in Signals : request.walk = "list" /\ <<m>> \in files}}

\* Nothing is listed that was not asked for, is out of reach, or was not there
\* at any time since the call, though never all of it at one time; what a
\* search finds, read_project_file can read (tree.go:30-49, search.go:32-57,
\* detect.go:60-71, read.go:14-46).
OnlyWanted == ToSet(found) \subseteq Answers(ever)

Sooner(r, s) == Precedes(r.path, s.path) \/ (r.path = s.path /\ r.line < s.line)

\* As long as no other program interferes, an answer is the reference listing,
\* all that is wanted in depth-first order, or as much of it from the first
\* entry on as its limit permits: the walk may be cut off in the middle of a
\* directory or a file, and has passed over some entries unread (tree.go:35,
\* search.go:58-82, detect.go:53-93).
AnswerIsExact ==
  ever = always /\ ~Walking =>
    LET all == Answers(ever) IN
    /\ \A i \in DOMAIN found : Cardinality({r \in all : Sooner(r, found[i])}) = i - 1
    /\ \/ ToSet(found) = all
       \/ ToSet(found) \subseteq all /\ request.walk # "list" /\ Len(found) = request.max

=============================================================================
