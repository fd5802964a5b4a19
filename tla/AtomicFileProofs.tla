--------------------------- MODULE AtomicFileProofs ---------------------------
(***************************************************************************)
(* Proofs about AtomicFile, for any paths, writers, readers, inodes and    *)
(* contents: on a path with one writer at a time a write is atomic,        *)
(* whatever the writers of other paths do; and with more than one the      *)
(* damage stays with the path.                                             *)
(***************************************************************************)
EXTENDS AtomicFile, TLAPS

\* The first n chunks of v.
Prefix(v, n) == [m \in Offsets |-> IF m <= n THEN v ELSE None]

\* No two entries of the directory share an inode.
EntriesApart ==
  /\ \A p, q \in Paths : p # q /\ file[p] # None => file[p] # file[q]
  /\ \A p, q \in Paths : p # q /\ tmp[p] # None => tmp[p] # tmp[q]
  /\ \A p, q \in Paths : file[p] # None => file[p] # tmp[q]

\* What holds of directory and descriptors however many writers a path has:
\* what one of them writes to belongs to its own path.
SharedInv ==
  /\ TypeOK
  /\ EntriesApart
  /\ \A w \in Writers :
       LET k == writer[w] IN
       /\ k.pc # "idle" => k.path \in Paths /\ k.val \in Values
       /\ k.pc = "write" => k.fd \in Inodes
       /\ k.pc # "write" => k.fd = None
       /\ k.pc = "create" => k.n = 0
       /\ \A p \in Paths : k.pc = "write" /\ p # k.path => k.fd # file[p] /\ k.fd # tmp[p]

\* No two writers of path p overlap, whatever happens elsewhere.
AloneOn(p) ==
  \A w, u \in Writers :
    /\ writer[w].pc # "idle" /\ writer[w].path = p
    /\ writer[u].pc # "idle" /\ writer[u].path = p
    => w = u

PathsAlone == \A p \in Paths : AloneOn(p)

\* What a writer that is alone on its path knows: its descriptor is the
\* temporary file and holds what it has written so far.
WriterOK(w) ==
  LET k == writer[w] IN
  /\ k.pc = "idle" => k = NotWriting
  /\ k.pc # "idle" => k.path \in Paths /\ k.val \in Values
  /\ k.pc = "write" => /\ k.fd \in Inodes
                       /\ k.fd = tmp[k.path]
                       /\ k.n <= Size[k.val]
                       /\ data[k.fd] = Prefix(k.val, k.n)
  /\ k.pc # "write" => k.fd = None
  /\ k.pc = "create" => k.n = 0
  /\ k.pc = "rename" => /\ tmp[k.path] # None
                        /\ data[tmp[k.path]] = Whole(k.val)

\* The file at p holds one whole content.
WholeAt(p) == file[p] # None => data[file[p]] \in WholeContents

PathInv(p) == WholeAt(p) /\ \A w \in Writers : writer[w].path = p => WriterOK(w)

\* An inode that is being read is whole and is nobody's temporary file.
ReaderOK(r) ==
  /\ reader[r].fd # None => /\ data[reader[r].fd] \in WholeContents
                            /\ \A p \in Paths : tmp[p] # reader[r].fd
  /\ reader[r].got # None => reader[r].got \in WholeContents

\* A write to one path leaves the files of all the others as they are: two
\* writers that share a temporary file damage no file but their own.
OthersUntouched ==
  [][\A w \in Writers, p \in Paths :
       WriterStep(w) /\ p # writer[w].path /\ file[p] # None =>
         file'[p] = file[p] /\ data'[file[p]] = data[file[p]]]_vars

\* What a reader of p would find.
Value(p) == IF file[p] = None THEN None ELSE data[file[p]]

\* The file at p by itself as a register.
RegisterAt(p) == INSTANCE FileRegister WITH
  Paths <- {p},
  value <- [q \in {p} |-> Value(q)],
  Writable <- WholeContents

-----------------------------------------------------------------------------
(* Contents *)

LEMMA ContentTypes ==
  /\ Blank \in Content
  /\ \A v \in Values : Whole(v) \in Content /\ Whole(v) \in WholeContents
  /\ WholeContents \subseteq Content
<1>1. Blank \in Content
  BY DEF Blank, Content
<1>2. \A v \in Values : Whole(v) \in Content /\ Whole(v) \in WholeContents
  BY DEF Whole, Content, WholeContents
<1>3. WholeContents \subseteq Content
  BY <1>2 DEF WholeContents
<1> QED BY <1>1, <1>2, <1>3

LEMMA PrefixFacts ==
  ASSUME NEW v \in Values
  PROVE  /\ Prefix(v, 0) = Blank
         /\ Prefix(v, Size[v]) = Whole(v)
         /\ \A n \in 0..MaxSize : n < Size[v] =>
              /\ n + 1 \in Offsets
              /\ [Prefix(v, n) EXCEPT ![n + 1] = v] = Prefix(v, n + 1)
<1>1. Prefix(v, 0) = Blank
  <2>1. \A m \in Offsets : ~(m <= 0)
    BY SizeAssumption DEF Offsets
  <2> QED BY <2>1 DEF Prefix, Blank
<1>2. Prefix(v, Size[v]) = Whole(v)
  BY DEF Prefix, Whole
<1>3. ASSUME NEW n \in 0..MaxSize, n < Size[v]
      PROVE  n + 1 \in Offsets /\ [Prefix(v, n) EXCEPT ![n + 1] = v] = Prefix(v, n + 1)
  <2>1. n + 1 \in Offsets
    BY <1>3, SizeAssumption DEF Offsets
  <2>2. \A m \in Offsets : (IF m = n + 1 THEN v ELSE IF m <= n THEN v ELSE None)
                            = (IF m <= n + 1 THEN v ELSE None)
    BY SizeAssumption DEF Offsets
  <2>3. [Prefix(v, n) EXCEPT ![n + 1] = v] =
          [m \in Offsets |-> IF m = n + 1 THEN v ELSE IF m <= n THEN v ELSE None]
    BY DEF Prefix
  <2> QED BY <2>1, <2>2, <2>3 DEF Prefix
<1> QED BY <1>1, <1>2, <1>3

-----------------------------------------------------------------------------
(* However many writers *)

LEMMA NotWritingOK ==
  /\ NotWriting \in WriterState
  /\ \A w \in Writers : writer'[w] = NotWriting => WriterOK(w)'
BY SizeAssumption DEF NotWriting, WriterState, WriterOK

LEMMA InitShared == Init => SharedInv
<1> SUFFICES ASSUME Init PROVE SharedInv
  OBVIOUS
<1>1. TypeOK
  BY ContentTypes, SizeAssumption
  DEF Init, TypeOK, WriterState, NotWriting, ReaderState, NotReading
<1>2. EntriesApart
  BY NoneAssumption DEF Init, EntriesApart
<1> QED BY <1>1, <1>2 DEF Init, SharedInv, NotWriting

\* A writer that enters a write, ends one or goes on without the directory.
LEMMA SharedLocal ==
  ASSUME SharedInv, NEW w \in Writers, NEW k \in WriterState,
         writer' = [writer EXCEPT ![w] = k], UNCHANGED <<file, tmp, data, reader>>,
         k.pc # "write", k.fd = None,
         k.pc # "idle" => k.path \in Paths /\ k.val \in Values,
         k.pc = "create" => k.n = 0
  PROVE  SharedInv'
<1>1. writer'[w] = k /\ \A u \in Writers : u # w => writer'[u] = writer[u]
  BY DEF SharedInv, TypeOK
<1>2. TypeOK' /\ EntriesApart'
  BY DEF SharedInv, TypeOK, EntriesApart
<1> QED BY <1>1, <1>2 DEF SharedInv

LEMMA BeginWriteShared ==
  ASSUME SharedInv, NEW w \in Writers, NEW p \in Paths, NEW v \in Values, BeginWrite(w, p, v)
  PROVE  SharedInv'
<1> DEFINE new == [pc |-> "create", path |-> p, val |-> v, fd |-> None, n |-> 0]
<1>1. new \in WriterState
  BY SizeAssumption DEF WriterState
<1>2. PICK k \in WriterState : k = new
  BY <1>1
<1> QED BY <1>2, SharedLocal DEF BeginWrite

LEMMA StopShared ==
  ASSUME SharedInv, NEW w \in Writers, Close(w) \/ RenameFails(w) \/ WriteFails(w)
  PROVE  SharedInv'
<1>1. writer[w] \in WriterState
  BY DEF SharedInv, TypeOK
<1>2. CASE Close(w)
  <2>1. PICK k \in WriterState : k = [writer[w] EXCEPT !.pc = "rename", !.fd = None]
    BY <1>1 DEF WriterState
  <2>2. k.pc = "rename" /\ k.fd = None /\ k.path = writer[w].path /\ k.val = writer[w].val
    BY <1>1, <2>1 DEF WriterState
  <2> QED BY <1>2, <2>1, <2>2, SharedLocal DEF Close, SharedInv
<1>3. CASE RenameFails(w)
  <2>1. PICK k \in WriterState : k = [writer[w] EXCEPT !.pc = "remove"]
    BY <1>1 DEF WriterState
  <2>2. k.pc = "remove" /\ k.fd = writer[w].fd /\ k.path = writer[w].path /\ k.val = writer[w].val
    BY <1>1, <2>1 DEF WriterState
  <2> QED BY <1>3, <2>1, <2>2, SharedLocal DEF RenameFails, SharedInv
<1>4. CASE WriteFails(w)
  <2>1. PICK k \in WriterState : k = NotWriting
    BY NotWritingOK
  <2> QED BY <1>4, <2>1, SharedLocal DEF WriteFails, NotWriting
<1> QED BY <1>2, <1>3, <1>4

\* The inode that is opened belongs to no other path and no other writer of one.
LEMMA CreateShared ==
  ASSUME SharedInv, NEW w \in Writers, Create(w)
  PROVE  SharedInv'
<1> DEFINE k == writer[w]
<1>1. PICK i \in Inodes :
        /\ IF tmp[k.path] = None THEN i \notin Used ELSE i = tmp[k.path]
        /\ tmp' = [tmp EXCEPT ![k.path] = i]
        /\ data' = [data EXCEPT ![i] = Blank]
        /\ writer' = [writer EXCEPT ![w] = [k EXCEPT !.pc = "write", !.fd = i]]
        /\ UNCHANGED <<file, reader>>
  BY DEF Create
<1>2. k.pc = "create" /\ k.path \in Paths /\ k.val \in Values /\ k \in WriterState
  BY DEF SharedInv, TypeOK, Create
<1>3. /\ \A p \in Paths : file[p] # i
      /\ \A p \in Paths : p # k.path => tmp[p] # i
      /\ \A u \in Writers : writer[u].pc = "write" /\ writer[u].path # k.path => writer[u].fd # i
  BY <1>1, <1>2 DEF SharedInv, EntriesApart, Used
<1>4. PICK n \in WriterState : n = [k EXCEPT !.pc = "write", !.fd = i]
  BY <1>2 DEF WriterState
<1>5. n.pc = "write" /\ n.fd = i /\ n.path = k.path /\ n.val = k.val
  BY <1>2, <1>4 DEF WriterState
<1>6. /\ writer'[w] = n /\ \A u \in Writers : u # w => writer'[u] = writer[u]
      /\ \A p \in Paths : tmp'[p] = IF p = k.path THEN i ELSE tmp[p]
  BY <1>1, <1>2, <1>4 DEF SharedInv, TypeOK
<1>7. TypeOK'
  <2>1. data' \in [Inodes -> Content]
    BY <1>1, ContentTypes DEF SharedInv, TypeOK
  <2> QED BY <1>1, <1>4, <2>1 DEF SharedInv, TypeOK
<1>8. EntriesApart'
  BY <1>1, <1>3, <1>6 DEF SharedInv, EntriesApart
<1> HIDE DEF k
<1>9. ASSUME NEW u \in Writers, u # w, NEW p \in Paths, writer'[u].pc = "write",
             p # writer'[u].path
      PROVE  writer'[u].fd # file'[p] /\ writer'[u].fd # tmp'[p]
  <2>1. writer[u].fd # file[p] /\ writer[u].fd # tmp[p] /\ writer'[u] = writer[u]
    BY <1>6, <1>9 DEF SharedInv
  <2>2. p = k.path => writer[u].fd # i
    BY <1>3, <1>9, <2>1
  <2> QED BY <1>1, <1>6, <2>1, <2>2
<1>10. ASSUME NEW p \in Paths, p # n.path PROVE n.fd # file'[p] /\ n.fd # tmp'[p]
  BY <1>1, <1>3, <1>5, <1>6, <1>10
<1> QED BY <1>2, <1>5, <1>6, <1>7, <1>8, <1>9, <1>10 DEF SharedInv, k

LEMMA WriteChunkShared ==
  ASSUME SharedInv, NEW w \in Writers, WriteChunk(w)
  PROVE  SharedInv'
<1> DEFINE k == writer[w]
<1>1. /\ k \in WriterState /\ k.pc = "write" /\ k.val \in Values /\ k.fd \in Inodes
      /\ k.n < Size[k.val] /\ k.n \in 0..MaxSize
      /\ data' = [data EXCEPT ![k.fd] = [data[k.fd] EXCEPT ![k.n + 1] = k.val]]
      /\ writer' = [writer EXCEPT ![w] = [k EXCEPT !.n = k.n + 1]]
      /\ UNCHANGED <<file, tmp, reader>>
  BY DEF SharedInv, TypeOK, WriteChunk, WriterState
<1>2. k.n + 1 \in Offsets /\ k.n + 1 \in 0..MaxSize
  BY <1>1, SizeAssumption DEF Offsets
<1>3. PICK n \in WriterState : n = [k EXCEPT !.n = k.n + 1]
  BY <1>1, <1>2 DEF WriterState
<1>4. n.pc = "write" /\ n.fd = k.fd /\ n.path = k.path /\ n.val = k.val
  BY <1>1, <1>3 DEF WriterState
<1>5. writer'[w] = n /\ \A u \in Writers : u # w => writer'[u] = writer[u]
  BY <1>1, <1>3 DEF SharedInv, TypeOK
<1>6. data' \in [Inodes -> Content]
  <2>1. [data[k.fd] EXCEPT ![k.n + 1] = k.val] \in Content
    BY <1>1, <1>2 DEF SharedInv, TypeOK, Content
  <2> QED BY <1>1, <2>1 DEF SharedInv, TypeOK
<1>7. TypeOK' /\ EntriesApart'
  BY <1>1, <1>3, <1>6 DEF SharedInv, TypeOK, EntriesApart
<1> QED BY <1>1, <1>4, <1>5, <1>7 DEF SharedInv

\* A renamed or removed temporary file was of this path.
LEMMA RenameRemoveShared ==
  ASSUME SharedInv, NEW w \in Writers, Rename(w) \/ Remove(w)
  PROVE  SharedInv'
<1> DEFINE k == writer[w]
<1>1. /\ k.pc \in {"rename", "remove"} /\ k.path \in Paths
      /\ file' = file \/ (tmp[k.path] # None /\ file' = [file EXCEPT ![k.path] = tmp[k.path]])
      /\ tmp' = [tmp EXCEPT ![k.path] = None]
      /\ writer' = [writer EXCEPT ![w] = NotWriting]
      /\ UNCHANGED <<data, reader>>
  BY DEF SharedInv, TypeOK, Rename, Remove
<1>2. /\ \A p \in Paths : tmp'[p] = IF p = k.path THEN None ELSE tmp[p]
      /\ \A p \in Paths : p # k.path => file'[p] = file[p]
      /\ file'[k.path] = file[k.path] \/ (tmp[k.path] # None /\ file'[k.path] = tmp[k.path])
  BY <1>1 DEF SharedInv, TypeOK
<1>3. /\ writer'[w] = NotWriting /\ NotWriting.pc = "idle" /\ NotWriting.fd = None
      /\ \A u \in Writers : u # w => writer'[u] = writer[u]
  BY <1>1 DEF SharedInv, TypeOK, NotWriting
<1>4. TypeOK'
  BY <1>1, NotWritingOK DEF SharedInv, TypeOK
<1> HIDE DEF k
<1>5. EntriesApart'
  BY <1>2 DEF SharedInv, EntriesApart
<1>6. ASSUME NEW u \in Writers, u # w, NEW p \in Paths, writer[u].pc = "write",
             p # writer[u].path
      PROVE  writer[u].fd # file'[p] /\ writer[u].fd # tmp'[p]
  <2>1. writer[u].fd # file[p] /\ writer[u].fd # tmp[p] /\ writer[u].fd \in Inodes
    BY <1>6 DEF SharedInv
  <2> QED BY <1>1, <1>2, <2>1, NoneAssumption
<1> QED BY <1>3, <1>4, <1>5, <1>6 DEF SharedInv

LEMMA NextShared == SharedInv /\ [Next]_vars => SharedInv'
<1> SUFFICES ASSUME SharedInv, [Next]_vars PROVE SharedInv'
  OBVIOUS
<1>1. ASSUME NEW w \in Writers, WriterStep(w) PROVE SharedInv'
  BY <1>1, CreateShared, WriteChunkShared, StopShared, RenameRemoveShared DEF WriterStep
<1>2. ASSUME UNCHANGED <<file, tmp, data, writer>>, reader' \in [Readers -> ReaderState]
      PROVE  SharedInv'
  BY <1>2 DEF SharedInv, TypeOK, EntriesApart
<1>3. ASSUME NEW r \in Readers, NEW p \in Paths, OpenRead(r, p) PROVE SharedInv'
  <2>1. [fd |-> file[p], got |-> None] \in ReaderState
    BY <1>3 DEF SharedInv, TypeOK, OpenRead, ReaderState
  <2> QED BY <1>2, <1>3, <2>1 DEF SharedInv, TypeOK, OpenRead
<1>4. ASSUME NEW r \in Readers, Read(r) PROVE SharedInv'
  <2>1. data[reader[r].fd] \in Content
    BY <1>4 DEF SharedInv, TypeOK, Read, ReaderState
  <2>2. [fd |-> None, got |-> data[reader[r].fd]] \in ReaderState
    BY <2>1 DEF ReaderState
  <2> QED BY <1>2, <1>4, <2>2 DEF SharedInv, TypeOK, Read
<1>5. CASE Crash
  <2>1. NotReading \in ReaderState /\ NotWriting \in WriterState
    BY NotWritingOK DEF NotReading, ReaderState
  <2>2. TypeOK' /\ EntriesApart'
    BY <1>5, <2>1 DEF SharedInv, TypeOK, EntriesApart, Crash
  <2> QED BY <1>5, <2>2 DEF SharedInv, Crash, NotWriting
<1>6. CASE UNCHANGED vars
  BY <1>2, <1>6 DEF vars, SharedInv, TypeOK
<1> QED BY <1>1, <1>3, <1>4, <1>5, <1>6, BeginWriteShared DEF Next

LEMMA SharedInvariance == Spec => []SharedInv
BY InitShared, NextShared, PTL DEF Spec

\* A step of a writer leaves the entries of other paths, and what they refer
\* to, alone.
LEMMA StepStaysHome ==
  ASSUME SharedInv, NEW w \in Writers, WriterStep(w), NEW p \in Paths, p # writer[w].path
  PROVE  /\ file'[p] = file[p] /\ tmp'[p] = tmp[p]
         /\ file[p] # None => data'[file[p]] = data[file[p]]
         /\ tmp[p] # None => data'[tmp[p]] = data[tmp[p]]
<1> DEFINE k == writer[w]
<1>1. k.pc # "idle" /\ k.path \in Paths
  BY DEF SharedInv, WriterStep, Create, WriteChunk, Close, Rename, RenameFails, Remove, WriteFails
<1>2. CASE Create(w)
  <2>1. PICK i \in Inodes :
          /\ IF tmp[k.path] = None THEN i \notin Used ELSE i = tmp[k.path]
          /\ tmp' = [tmp EXCEPT ![k.path] = i]
          /\ data' = [data EXCEPT ![i] = Blank]
          /\ file' = file
    BY <1>2 DEF Create
  <2>2. file[p] # i /\ tmp[p] # i
    BY <1>1, <2>1 DEF SharedInv, EntriesApart, Used
  <2> QED BY <1>1, <2>1, <2>2 DEF SharedInv, TypeOK
<1>3. CASE WriteChunk(w)
  <2>1. /\ k.fd # file[p] /\ k.fd # tmp[p] /\ file' = file /\ tmp' = tmp
        /\ data' = [data EXCEPT ![k.fd] = [data[k.fd] EXCEPT ![k.n + 1] = k.val]]
    BY <1>3 DEF SharedInv, WriteChunk
  <2> QED BY <1>1, <2>1 DEF SharedInv, TypeOK
<1>4. CASE ~Create(w) /\ ~WriteChunk(w)
  BY <1>1, <1>4
  DEF WriterStep, Close, Rename, RenameFails, Remove, WriteFails, SharedInv, TypeOK
<1> QED BY <1>2, <1>3, <1>4

-----------------------------------------------------------------------------
(* One writer on a path *)

\* Nothing that is known of the writers of p changes but what w does.
LEMMA ElsewhereOK ==
  ASSUME SharedInv, NEW p \in Paths, PathInv(p),
         file'[p] = file[p], tmp'[p] = tmp[p],
         file[p] # None => data'[file[p]] = data[file[p]],
         tmp[p] # None => data'[tmp[p]] = data[tmp[p]],
         \A u \in Writers : writer'[u].path = p => writer'[u] = writer[u] \/ WriterOK(u)'
  PROVE  PathInv(p)'
<1>1. WholeAt(p)'
  BY DEF PathInv, WholeAt
<1>2. ASSUME NEW u \in Writers, writer'[u].path = p, writer'[u] = writer[u]
      PROVE  WriterOK(u)'
  <2>1. WriterOK(u) /\ writer[u].path = p
    BY <1>2 DEF PathInv
  <2>2. writer[u].pc = "write" => writer[u].fd = tmp[p] /\ tmp[p] # None
    BY <2>1, NoneAssumption DEF WriterOK
  <2>3. writer[u].pc = "rename" => tmp[p] # None
    BY <2>1 DEF WriterOK
  <2>4. data'[tmp[p]] = data[tmp[p]] \/ tmp[p] = None
    OBVIOUS
  <2> QED BY <1>2, <2>1, <2>2, <2>3, <2>4 DEF WriterOK
<1>3. \A u \in Writers : writer'[u].path = p => WriterOK(u)'
  BY <1>2
<1> QED BY <1>1, <1>3 DEF PathInv

\* One writer of p takes a step.
LEMMA AloneStep ==
  ASSUME SharedInv, NEW p \in Paths, AloneOn(p), PathInv(p),
         NEW w \in Writers, writer[w].path = p, WriterStep(w)
  PROVE  PathInv(p)'
<1> DEFINE k == writer[w]
<1>1. /\ k \in WriterState /\ k.pc # "idle" /\ k.val \in Values /\ WriterOK(w)
      /\ k.n \in 0..MaxSize
  BY DEF SharedInv, TypeOK, PathInv, WriterState, WriterStep, Create, WriteChunk, Close, Rename,
         RenameFails, Remove, WriteFails
<1>2. \A u \in Writers : u # w /\ writer[u].path = p => writer[u].pc = "idle"
  BY <1>1 DEF AloneOn
<1>3. ASSUME NEW u \in Writers, u # w, writer'[u] = writer[u], writer'[u].path = p
      PROVE  WriterOK(u)'
  <2>1. writer[u] = NotWriting
    BY <1>2, <1>3 DEF PathInv, WriterOK
  <2> QED BY <1>3, <2>1, NotWritingOK
<1>4. ASSUME WholeAt(p)', WriterOK(w)', \A u \in Writers : u # w => writer'[u] = writer[u]
      PROVE  PathInv(p)'
  BY <1>3, <1>4 DEF PathInv
<1>5. CASE Create(w)
  <2>1. PICK i \in Inodes :
          /\ IF tmp[p] = None THEN i \notin Used ELSE i = tmp[p]
          /\ tmp' = [tmp EXCEPT ![p] = i]
          /\ data' = [data EXCEPT ![i] = Blank]
          /\ writer' = [writer EXCEPT ![w] = [k EXCEPT !.pc = "write", !.fd = i]]
          /\ file' = file
    BY <1>5 DEF Create
  <2>2. file[p] # i
    BY <2>1 DEF SharedInv, EntriesApart, Used
  <2>3. WholeAt(p)'
    BY <2>1, <2>2 DEF PathInv, WholeAt, SharedInv, TypeOK
  <2>4. PICK n \in WriterState : n = [k EXCEPT !.pc = "write", !.fd = i]
    BY <1>1 DEF WriterState
  <2>5. n.pc = "write" /\ n.fd = i /\ n.path = p /\ n.val = k.val /\ n.n = 0
    BY <1>1, <1>5, <2>4 DEF WriterState, WriterOK, Create
  <2>6. writer'[w] = n /\ \A u \in Writers : u # w => writer'[u] = writer[u]
    BY <2>1, <2>4 DEF SharedInv, TypeOK
  <2>7. data'[i] = Prefix(k.val, 0) /\ tmp'[p] = i
    BY <1>1, <2>1, PrefixFacts DEF SharedInv, TypeOK
  <2>8. 0 <= Size[k.val]
    BY <1>1, SizeAssumption
  <2>9. WriterOK(w)'
    BY <1>1, <2>5, <2>6, <2>7, <2>8 DEF WriterOK
  <2> QED BY <1>4, <2>3, <2>6, <2>9
<1>6. CASE WriteChunk(w)
  <2>1. /\ k.pc = "write" /\ k.fd \in Inodes /\ k.fd = tmp[p] /\ k.n < Size[k.val]
        /\ data[k.fd] = Prefix(k.val, k.n)
        /\ data' = [data EXCEPT ![k.fd] = [data[k.fd] EXCEPT ![k.n + 1] = k.val]]
        /\ writer' = [writer EXCEPT ![w] = [k EXCEPT !.n = k.n + 1]]
        /\ UNCHANGED <<file, tmp>>
    BY <1>1, <1>6 DEF WriteChunk, WriterOK
  <2>2. file[p] # k.fd
    BY <2>1, NoneAssumption DEF SharedInv, EntriesApart
  <2>3. WholeAt(p)'
    BY <2>1, <2>2 DEF PathInv, WholeAt, SharedInv, TypeOK
  <2>4. k.n + 1 \in 0..MaxSize /\ k.n + 1 <= Size[k.val]
    BY <1>1, <2>1, SizeAssumption
  <2>5. PICK n \in WriterState : n = [k EXCEPT !.n = k.n + 1]
    BY <1>1, <2>4 DEF WriterState
  <2>6. n.pc = "write" /\ n.fd = k.fd /\ n.path = p /\ n.val = k.val /\ n.n = k.n + 1
    BY <1>1, <2>1, <2>5 DEF WriterState
  <2>7. writer'[w] = n /\ \A u \in Writers : u # w => writer'[u] = writer[u]
    BY <2>1, <2>5 DEF SharedInv, TypeOK
  <2>8. data'[k.fd] = Prefix(k.val, k.n + 1)
    BY <1>1, <2>1, PrefixFacts DEF SharedInv, TypeOK
  <2>9. WriterOK(w)'
    BY <1>1, <2>1, <2>4, <2>6, <2>7, <2>8 DEF WriterOK
  <2> QED BY <1>4, <2>3, <2>7, <2>9
<1>7. CASE Close(w)
  <2>1. /\ k.pc = "write" /\ k.fd \in Inodes /\ k.fd = tmp[p] /\ k.n = Size[k.val]
        /\ data[k.fd] = Prefix(k.val, k.n)
        /\ writer' = [writer EXCEPT ![w] = [k EXCEPT !.pc = "rename", !.fd = None]]
        /\ UNCHANGED <<file, tmp, data>>
    BY <1>1, <1>7 DEF Close, WriterOK
  <2>2. PICK n \in WriterState : n = [k EXCEPT !.pc = "rename", !.fd = None]
    BY <1>1 DEF WriterState
  <2>3. n.pc = "rename" /\ n.fd = None /\ n.path = p /\ n.val = k.val
    BY <1>1, <2>2 DEF WriterState
  <2>4. writer'[w] = n /\ \A u \in Writers : u # w => writer'[u] = writer[u]
    BY <2>1, <2>2 DEF SharedInv, TypeOK
  <2>5. data[tmp[p]] = Whole(k.val) /\ tmp[p] # None
    BY <1>1, <2>1, PrefixFacts, NoneAssumption
  <2>6. WriterOK(w)'
    BY <1>1, <2>1, <2>3, <2>4, <2>5 DEF WriterOK
  <2>7. WholeAt(p)'
    BY <2>1 DEF PathInv, WholeAt
  <2> QED BY <1>4, <2>4, <2>6, <2>7
<1>8. CASE Rename(w) \/ Remove(w) \/ WriteFails(w)
  <2>1. /\ writer' = [writer EXCEPT ![w] = NotWriting] /\ data' = data
        /\ file' = file \/ (k.pc = "rename" /\ file' = [file EXCEPT ![p] = tmp[p]])
    BY <1>8 DEF Rename, Remove, WriteFails
  <2>2. writer'[w] = NotWriting /\ \A u \in Writers : u # w => writer'[u] = writer[u]
    BY <2>1 DEF SharedInv, TypeOK
  <2>3. k.pc = "rename" => data[tmp[p]] \in WholeContents
    BY <1>1, ContentTypes DEF WriterOK
  <2>4. WholeAt(p)'
    BY <2>1, <2>3 DEF PathInv, WholeAt, SharedInv, TypeOK
  <2> QED BY <1>4, <2>2, <2>4, NotWritingOK
<1>9. CASE RenameFails(w)
  <2>1. /\ k.pc = "rename" /\ k.fd = None
        /\ writer' = [writer EXCEPT ![w] = [k EXCEPT !.pc = "remove"]]
        /\ UNCHANGED <<file, tmp, data>>
    BY <1>1, <1>9 DEF RenameFails, WriterOK
  <2>2. PICK n \in WriterState : n = [k EXCEPT !.pc = "remove"]
    BY <1>1 DEF WriterState
  <2>3. n.pc = "remove" /\ n.fd = None /\ n.path = p /\ n.val = k.val
    BY <1>1, <2>1, <2>2 DEF WriterState
  <2>4. writer'[w] = n /\ \A u \in Writers : u # w => writer'[u] = writer[u]
    BY <2>1, <2>2 DEF SharedInv, TypeOK
  <2>5. WriterOK(w)' /\ WholeAt(p)'
    BY <1>1, <2>1, <2>3, <2>4 DEF WriterOK, PathInv, WholeAt
  <2> QED BY <1>4, <2>4, <2>5
<1> QED BY <1>5, <1>6, <1>7, <1>8, <1>9 DEF WriterStep

LEMMA NextPath ==
  ASSUME SharedInv, NEW p \in Paths, AloneOn(p), PathInv(p), [Next]_vars
  PROVE  PathInv(p)'
<1>1. ASSUME NEW w \in Writers, WriterStep(w), writer[w].path # p PROVE PathInv(p)'
  <2>1. /\ file'[p] = file[p] /\ tmp'[p] = tmp[p]
        /\ file[p] # None => data'[file[p]] = data[file[p]]
        /\ tmp[p] # None => data'[tmp[p]] = data[tmp[p]]
    BY <1>1, StepStaysHome
  <2>2. /\ \A u \in Writers : u # w => writer'[u] = writer[u]
        /\ writer'[w] = NotWriting \/ writer'[w].path = writer[w].path
    <3>1. writer[w] \in WriterState /\ writer \in [Writers -> WriterState]
      BY DEF SharedInv, TypeOK
    <3>2. CASE Create(w) \/ WriteChunk(w)
      BY <3>1, <3>2 DEF WriterState, Create, WriteChunk
    <3>3. CASE Close(w) \/ RenameFails(w)
      BY <3>1, <3>3 DEF WriterState, Close, RenameFails
    <3>4. CASE Rename(w) \/ Remove(w) \/ WriteFails(w)
      BY <3>1, <3>4 DEF Rename, Remove, WriteFails
    <3> QED BY <1>1, <3>2, <3>3, <3>4 DEF WriterStep
  <2>3. \A u \in Writers : writer'[u].path = p => writer'[u] = writer[u] \/ WriterOK(u)'
    BY <1>1, <2>2, NotWritingOK
  <2> QED BY <2>1, <2>3, ElsewhereOK
<1>2. ASSUME NEW w \in Writers, NEW q \in Paths, NEW v \in Values, BeginWrite(w, q, v)
      PROVE  PathInv(p)'
  <2>1. /\ writer'[w] = [pc |-> "create", path |-> q, val |-> v, fd |-> None, n |-> 0]
        /\ \A u \in Writers : u # w => writer'[u] = writer[u]
        /\ UNCHANGED <<file, tmp, data>>
    BY <1>2 DEF BeginWrite, SharedInv, TypeOK
  <2>2. WriterOK(w)'
    BY <2>1 DEF WriterOK
  <2> QED BY <2>1, <2>2, ElsewhereOK
<1>3. CASE UNCHANGED <<file, tmp, data, writer>>
  BY <1>3, ElsewhereOK
<1>4. CASE Crash
  <2>1. /\ \A u \in Writers : writer'[u] = NotWriting
        /\ UNCHANGED <<file, tmp, data>>
    BY <1>4 DEF Crash
  <2> QED BY <2>1, ElsewhereOK, NotWritingOK
<1> QED
  BY <1>1, <1>2, <1>3, <1>4, AloneStep DEF Next, Read, OpenRead, vars

LEMMA InitPath == Init => \A p \in Paths : PathInv(p)
<1> SUFFICES ASSUME Init, NEW p \in Paths PROVE PathInv(p)
  OBVIOUS
<1>1. WholeAt(p)
  BY DEF Init, WholeAt
<1>2. \A w \in Writers : WriterOK(w)
  BY DEF Init, WriterOK, NotWriting
<1> QED BY <1>1, <1>2 DEF PathInv

LEMMA PathInvariance ==
  ASSUME NEW p \in Paths
  PROVE  Spec /\ []AloneOn(p) => [](SharedInv /\ PathInv(p))
<1>1. Init => PathInv(p)
  BY InitPath
<1>2. SharedInv /\ AloneOn(p) /\ PathInv(p) /\ [Next]_vars => PathInv(p)'
  BY NextPath
<1> QED BY <1>1, <1>2, SharedInvariance, PTL DEF Spec

\* A successful write of p has put its content in place.
LEMMA RenamePutsOwn ==
  ASSUME SharedInv, NEW p \in Paths, NEW w \in Writers, writer[w].path = p,
         WriterOK(w), Rename(w)
  PROVE  /\ data'[file'[p]] = Whole(writer[w].val)
         /\ Value(p)' = Whole(writer[w].val)
         /\ Whole(writer[w].val) \in WholeContents
<1>1. /\ writer[w].val \in Values
      /\ tmp[p] # None /\ data[tmp[p]] = Whole(writer[w].val)
      /\ file'[p] = tmp[p] /\ data' = data
  BY DEF SharedInv, TypeOK, WriterOK, Rename
<1> QED BY <1>1, ContentTypes DEF Value

\* Only a rename onto p changes what a reader of p finds, and all of it at once.
LEMMA OnlyRenameShows ==
  ASSUME SharedInv, NEW p \in Paths, PathInv(p), [Next]_vars, Value(p)' # Value(p)
  PROVE  \E w \in Writers : Rename(w) /\ writer[w].path = p /\ WriterOK(w)
<1>1. PICK w \in Writers : WriterStep(w)
  <2>1. ASSUME UNCHANGED <<file, data>> PROVE FALSE
    BY <2>1 DEF Value
  <2> QED BY <2>1 DEF Next, BeginWrite, Read, OpenRead, Crash, vars
<1>2. writer[w].path = p
  BY <1>1, StepStaysHome DEF Value
<1>3. WriterOK(w)
  BY <1>2 DEF PathInv
<1>4. ~Create(w)
  <2> SUFFICES ASSUME Create(w) PROVE FALSE
    OBVIOUS
  <2>1. PICK i \in Inodes :
          /\ IF tmp[p] = None THEN i \notin Used ELSE i = tmp[p]
          /\ data' = [data EXCEPT ![i] = Blank] /\ file' = file
    BY <1>2 DEF Create
  <2>2. file[p] # None => file[p] # i
    BY <2>1 DEF SharedInv, EntriesApart, Used
  <2> QED BY <2>1, <2>2 DEF SharedInv, TypeOK, Value
<1>5. ~WriteChunk(w)
  <2> SUFFICES ASSUME WriteChunk(w) PROVE FALSE
    OBVIOUS
  <2>1. writer[w].fd = tmp[p] /\ file' = file
    BY <1>2, <1>3 DEF WriterOK, WriteChunk
  <2>2. file[p] # None => file[p] # writer[w].fd
    BY <2>1 DEF SharedInv, EntriesApart
  <2> QED BY <2>1, <2>2 DEF SharedInv, TypeOK, Value, WriteChunk
<1>6. Rename(w)
  BY <1>1, <1>4, <1>5 DEF WriterStep, Close, RenameFails, Remove, WriteFails, Value
<1> QED BY <1>2, <1>3, <1>6

-----------------------------------------------------------------------------
(* One writer on every path *)

AllPaths == \A p \in Paths : PathInv(p)

LEMMA AllInvariance == Spec /\ []PathsAlone => [](SharedInv /\ AllPaths)
<1>1. Init => AllPaths
  BY InitPath DEF AllPaths
<1>2. SharedInv /\ PathsAlone /\ AllPaths /\ [Next]_vars => AllPaths'
  BY NextPath DEF AllPaths, PathsAlone
<1> QED BY <1>1, <1>2, SharedInvariance, PTL DEF Spec

\* What is being read is an inode that no writer has, and stays one.
ReadersOK == \A r \in Readers : ReaderOK(r)

LEMMA NextReaders ==
  ASSUME SharedInv, AllPaths, ReadersOK, [Next]_vars
  PROVE  ReadersOK'
<1>1. ASSUME reader' = reader,
             \A r \in Readers, p \in Paths : reader[r].fd # None => tmp'[p] # reader[r].fd,
             \A r \in Readers : reader[r].fd # None => data'[reader[r].fd] = data[reader[r].fd]
      PROVE  ReadersOK'
  BY <1>1 DEF ReadersOK, ReaderOK
<1>2. ASSUME NEW w \in Writers, Create(w) PROVE ReadersOK'
  <2>1. PICK i \in Inodes :
          /\ IF tmp[writer[w].path] = None THEN i \notin Used ELSE i = tmp[writer[w].path]
          /\ tmp' = [tmp EXCEPT ![writer[w].path] = i]
          /\ data' = [data EXCEPT ![i] = Blank] /\ reader' = reader
    BY <1>2 DEF Create
  <2>2. writer[w].path \in Paths
    BY <1>2 DEF SharedInv, Create
  <2>3. \A r \in Readers : reader[r].fd # None => reader[r].fd # i
    BY <2>1, <2>2 DEF ReadersOK, ReaderOK, Used
  <2>4. \A r \in Readers, p \in Paths : reader[r].fd # None => tmp'[p] # reader[r].fd
    BY <2>1, <2>2, <2>3 DEF ReadersOK, ReaderOK, SharedInv, TypeOK
  <2>5. \A r \in Readers : reader[r].fd # None => data'[reader[r].fd] = data[reader[r].fd]
    BY <2>1, <2>3 DEF SharedInv, TypeOK, ReaderState
  <2> QED BY <1>1, <2>1, <2>4, <2>5
<1>3. ASSUME NEW w \in Writers, WriteChunk(w) PROVE ReadersOK'
  <2>1. /\ writer[w].path \in Paths /\ writer[w].fd = tmp[writer[w].path]
        /\ tmp' = tmp /\ reader' = reader
    BY <1>3 DEF SharedInv, AllPaths, PathInv, WriterOK, WriteChunk
  <2>2. \A r \in Readers : reader[r].fd # None => reader[r].fd # writer[w].fd
    BY <2>1 DEF ReadersOK, ReaderOK
  <2>3. \A r \in Readers : reader[r].fd # None => data'[reader[r].fd] = data[reader[r].fd]
    BY <1>3, <2>2 DEF WriteChunk, SharedInv, TypeOK, ReaderState
  <2> QED BY <1>1, <2>1, <2>3 DEF ReadersOK, ReaderOK
<1>4. ASSUME NEW w \in Writers, WriterStep(w), ~Create(w), ~WriteChunk(w) PROVE ReadersOK'
  <2>1. /\ reader' = reader /\ data' = data
        /\ \A p \in Paths : tmp'[p] \in {tmp[p], None}
    BY <1>4
    DEF WriterStep, Close, Rename, RenameFails, Remove, WriteFails, SharedInv, TypeOK
  <2> QED BY <1>1, <2>1 DEF ReadersOK, ReaderOK
<1>5. ASSUME NEW r \in Readers, NEW p \in Paths, OpenRead(r, p) PROVE ReadersOK'
  <2>1. data[file[p]] \in WholeContents /\ \A q \in Paths : tmp[q] # file[p]
    BY <1>5 DEF OpenRead, AllPaths, PathInv, WholeAt, SharedInv, EntriesApart
  <2>2. /\ \A q \in Readers : q # r => reader'[q] = reader[q]
        /\ reader'[r] = [fd |-> file[p], got |-> None]
        /\ UNCHANGED <<tmp, data>>
    BY <1>5 DEF OpenRead, SharedInv, TypeOK
  <2> QED BY <2>1, <2>2 DEF ReadersOK, ReaderOK
<1>6. ASSUME NEW r \in Readers, Read(r) PROVE ReadersOK'
  <2>1. data[reader[r].fd] \in WholeContents
    BY <1>6 DEF Read, ReadersOK, ReaderOK
  <2>2. /\ \A q \in Readers : q # r => reader'[q] = reader[q]
        /\ reader'[r] = [fd |-> None, got |-> data[reader[r].fd]]
        /\ UNCHANGED <<tmp, data>>
    BY <1>6 DEF Read, SharedInv, TypeOK
  <2> QED BY <2>1, <2>2 DEF ReadersOK, ReaderOK
<1>7. CASE Crash
  BY <1>7 DEF Crash, ReadersOK, ReaderOK, NotReading
<1>8. CASE UNCHANGED vars \/ \E w \in Writers, p \in Paths, v \in Values : BeginWrite(w, p, v)
  BY <1>1, <1>8 DEF vars, BeginWrite, ReadersOK, ReaderOK
<1> QED BY <1>2, <1>3, <1>4, <1>5, <1>6, <1>7, <1>8 DEF Next

LEMMA ExclusiveIsAlone == Exclusive /\ Spec => []PathsAlone
<1>1. CASE Exclusive
  <2>1. Init => PathsAlone
    BY DEF Init, PathsAlone, AloneOn, NotWriting
  <2>2. SharedInv /\ PathsAlone /\ [Next]_vars => PathsAlone'
    <3> SUFFICES ASSUME SharedInv, PathsAlone, [Next]_vars PROVE PathsAlone'
      OBVIOUS
    <3>1. ASSUME NEW w \in Writers, WriterStep(w) PROVE PathsAlone'
      <4>1. \A u \in Writers : u # w => writer'[u] = writer[u]
        BY <3>1 DEF WriterStep, Create, WriteChunk, Close, Rename, RenameFails, Remove,
                    WriteFails, SharedInv, TypeOK
      <4>2. writer[w].pc # "idle"
        BY <3>1 DEF WriterStep, Create, WriteChunk, Close, Rename, RenameFails, Remove, WriteFails
      <4>3. writer'[w].pc # "idle" => writer'[w].path = writer[w].path
        <5>1. writer[w] \in WriterState /\ writer \in [Writers -> WriterState]
          BY DEF SharedInv, TypeOK
        <5>2. CASE Create(w) \/ WriteChunk(w)
          BY <5>1, <5>2 DEF WriterState, Create, WriteChunk
        <5>3. CASE Close(w) \/ RenameFails(w)
          BY <5>1, <5>3 DEF WriterState, Close, RenameFails
        <5>4. CASE Rename(w) \/ Remove(w) \/ WriteFails(w)
          BY <5>1, <5>4 DEF Rename, Remove, WriteFails, NotWriting
        <5> QED BY <3>1, <5>2, <5>3, <5>4 DEF WriterStep
      <4> QED BY <4>1, <4>2, <4>3 DEF PathsAlone, AloneOn
    <3>2. ASSUME NEW w \in Writers, NEW p \in Paths, NEW v \in Values, BeginWrite(w, p, v)
          PROVE  PathsAlone'
      <4>1. /\ writer'[w].path = p /\ \A u \in Writers : u # w => writer'[u] = writer[u]
            /\ \A u \in Writers : writer[u].pc # "idle" => writer[u].path # p
        BY <1>1, <3>2 DEF BeginWrite, SharedInv, TypeOK
      <4> QED BY <4>1 DEF PathsAlone, AloneOn
    <3>3. CASE Crash
      BY <3>3 DEF Crash, NotWriting, PathsAlone, AloneOn
    <3>4. CASE writer' = writer
      BY <3>4 DEF PathsAlone, AloneOn
    <3> QED BY <3>1, <3>2, <3>3, <3>4 DEF Next, Read, OpenRead, vars
  <2> QED BY <2>1, <2>2, SharedInvariance, PTL DEF Spec
<1>2. CASE ~Exclusive
  BY <1>2
<1> QED BY <1>1, <1>2

-----------------------------------------------------------------------------
(* Theorems *)

\* However many writers a path has, directories, inodes and the state of
\* writers and readers keep their types (WriteFile, ReadFile).
THEOREM FilesTyped == Spec => []TypeOK
<1>1. SharedInv => TypeOK
  BY DEF SharedInv
<1> QED BY <1>1, SharedInvariance, PTL

\* However many writers a path has, and whatever fails or crashes: a write of
\* one path never changes what is in the file of another (WriteFile; the name
\* of the temporary file depends on the path alone).
THEOREM OtherPathsUntouched == Spec => OthersUntouched
<1>1. SharedInv /\ [Next]_vars =>
        [\A w \in Writers, p \in Paths :
           WriterStep(w) /\ p # writer[w].path /\ file[p] # None =>
             file'[p] = file[p] /\ data'[file[p]] = data[file[p]]]_vars
  BY StepStaysHome
<1> QED BY <1>1, SharedInvariance, PTL DEF Spec, OthersUntouched

\* If no two writers of one path overlap, its file is one register that
\* changes in a single step from one whole content to another, however many
\* writers the other paths have and whatever fails or crashes (WriteFile).
THEOREM RegisterWhereAlone ==
  ASSUME NEW p \in Paths
  PROVE  Spec /\ []AloneOn(p) => RegisterAt(p)!Spec
<1>1. Init => RegisterAt(p)!Init
  BY InitPath DEF PathInv, WholeAt, Value, RegisterAt!Init
<1>2. SharedInv /\ PathInv(p) /\ [Next]_vars =>
        [RegisterAt(p)!Next]_([q \in {p} |-> Value(q)])
  <2> SUFFICES ASSUME SharedInv, PathInv(p), [Next]_vars, Value(p)' # Value(p)
               PROVE  RegisterAt(p)!Next
    OBVIOUS
  <2>1. PICK w \in Writers : Rename(w) /\ writer[w].path = p /\ WriterOK(w)
    BY OnlyRenameShows
  <2>2. PICK v \in WholeContents : Value(p)' = v
    BY <2>1, RenamePutsOwn
  <2> QED BY <2>2 DEF RegisterAt!Next, RegisterAt!Write
<1> QED BY <1>1, <1>2, PathInvariance, PTL DEF Spec, RegisterAt!Spec

\* And a write of it that reports success has put its own content in place
\* (the return after os.Rename).
THEOREM SuccessWhereAlone ==
  ASSUME NEW p \in Paths
  PROVE  Spec /\ []AloneOn(p) =>
           [][\A w \in Writers : Rename(w) /\ writer[w].path = p =>
                data'[file'[p]] = Whole(writer[w].val)]_vars
<1>1. SharedInv /\ PathInv(p) /\ [Next]_vars =>
        [\A w \in Writers : Rename(w) /\ writer[w].path = p =>
           data'[file'[p]] = Whole(writer[w].val)]_vars
  BY RenamePutsOwn DEF PathInv
<1> QED BY <1>1, PathInvariance, PTL DEF Spec

\* If that is so of every path, no reader ever finds part of a content, also
\* when the file is replaced or its writer fails or crashes while it is being
\* read (ReadFile, WriteFile's temporary file and rename) ...
THEOREM WritesAreWhole == Spec /\ []PathsAlone => []ReadsWhole
<1>1. Init => ReadersOK
  BY DEF Init, ReadersOK, ReaderOK, NotReading
<1>2. SharedInv /\ AllPaths /\ ReadersOK /\ [Next]_vars => ReadersOK'
  BY NextReaders
<1>3. ReadersOK => ReadsWhole
  BY DEF ReadersOK, ReaderOK, ReadsWhole
<1> QED BY <1>1, <1>2, <1>3, AllInvariance, PTL DEF Spec

\* ... a successful write has put its own content in place ...
THEOREM SuccessIsOwn == Spec /\ []PathsAlone => SuccessIsMine
<1>1. SharedInv /\ AllPaths /\ [Next]_vars =>
        [\A w \in Writers : Rename(w) =>
           data'[file'[writer[w].path]] = Whole(writer[w].val)]_vars
  <2> SUFFICES ASSUME SharedInv, AllPaths, NEW w \in Writers, Rename(w)
               PROVE  data'[file'[writer[w].path]] = Whole(writer[w].val)
    OBVIOUS
  <2>1. writer[w].path \in Paths /\ WriterOK(w)
    BY DEF SharedInv, AllPaths, PathInv, Rename
  <2> QED BY <2>1, RenamePutsOwn
<1> QED BY <1>1, AllInvariance, PTL DEF Spec, SuccessIsMine

\* ... and all files together are registers (all of WriteFile).
THEOREM FileIsRegister == Spec /\ []PathsAlone => ImplementsRegister
<1> DEFINE value == [p \in Paths |-> Value(p)]
<1>1. Init => Register!Init
  BY InitPath DEF PathInv, WholeAt, Value, Register!Init
<1>2. SharedInv /\ AllPaths /\ [Next]_vars => [Register!Next]_value
  <2> SUFFICES ASSUME SharedInv, AllPaths, [Next]_vars,
                      NEW p \in Paths, Value(p)' # Value(p)
               PROVE  Register!Next
    OBVIOUS
  <2>1. PICK w \in Writers : Rename(w) /\ writer[w].path = p /\ WriterOK(w)
    BY OnlyRenameShows DEF AllPaths
  <2>2. PICK v \in WholeContents : Value(p)' = v
    BY <2>1, RenamePutsOwn
  <2>3. \A q \in Paths : q # p => Value(q)' = Value(q)
    BY <2>1, StepStaysHome DEF WriterStep, Value
  <2>4. value' = [value EXCEPT ![p] = v]
    BY <2>2, <2>3
  <2>5. Register!Write(p, v)
    BY <2>4 DEF Register!Write, Value
  <2> QED BY <2>5 DEF Register!Next
<1> QED BY <1>1, <1>2, AllInvariance, PTL DEF Spec, ImplementsRegister, Register!Spec, Value

\* So it is for a client that lets each write of a path end before the next.
THEOREM ExclusiveWrites ==
  Exclusive /\ Spec => []ReadsWhole /\ SuccessIsMine /\ ImplementsRegister
BY ExclusiveIsAlone, WritesAreWhole, SuccessIsOwn, FileIsRegister, PTL

=============================================================================
