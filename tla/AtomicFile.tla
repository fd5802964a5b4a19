------------------------------ MODULE AtomicFile ------------------------------
(***************************************************************************)
(* How every file of the project is written (fsx.WriteFile and the         *)
(* workflow's own writeFile): os.WriteFile to path + ".tmp", then          *)
(* os.Rename onto path.  The name of the temporary file depends on the     *)
(* path alone, so two writers of one path share it.  Directory entries,    *)
(* inodes and open file descriptors are as the operating system keeps      *)
(* them: truncating and writing go to the inode, renaming moves the entry. *)
(***************************************************************************)
EXTENDS Naturals

CONSTANTS Paths,      \* the files that are written
          Writers,    \* goroutines inside a write
          Readers,    \* goroutines inside os.ReadFile
          Inodes,     \* the inodes of the file system
          Values,     \* the contents that may be written
          Size,       \* Size[v]: chunks of content v
          MaxSize,    \* bound: chunks of the largest content
          None,       \* no inode; nothing at an offset
          Exclusive   \* TRUE: at most one writer of a path at a time

ASSUME SizeAssumption == MaxSize \in Nat /\ Size \in [Values -> 0..MaxSize]
ASSUME NoneAssumption == None \notin Inodes /\ None \notin Values
ASSUME ExclusiveAssumption == Exclusive \in BOOLEAN

VARIABLES file,    \* file[p]: the inode the entry p refers to
          tmp,     \* tmp[p]: the inode the entry p.tmp refers to
          data,    \* data[i][n]: whose chunk is at offset n of inode i
          writer,  \* writer[w]: the local state of writer w
          reader   \* reader[r]: the local state of reader r

vars == <<file, tmp, data, writer, reader>>

Offsets == 1..MaxSize
Content == [Offsets -> Values \cup {None}]
Blank == [n \in Offsets |-> None]
Whole(v) == [n \in Offsets |-> IF n <= Size[v] THEN v ELSE None]
WholeContents == {Whole(v) : v \in Values}

\* Where it is, the path, the content, the open inode, the chunks written.
WriterState ==
  [pc : {"idle", "create", "write", "rename", "remove"}, path : Paths \cup {None},
   val : Values \cup {None}, fd : Inodes \cup {None}, n : 0..MaxSize]

NotWriting == [pc |-> "idle", path |-> None, val |-> None, fd |-> None, n |-> 0]

\* The inode being read, and what the last read returned.
ReaderState == [fd : Inodes \cup {None}, got : Content \cup {None}]

NotReading == [fd |-> None, got |-> None]

\* The inodes an entry or a descriptor refers to; the others may be reused.
Used ==
  {file[p] : p \in Paths} \cup {tmp[p] : p \in Paths}
    \cup {writer[w].fd : w \in Writers} \cup {reader[r].fd : r \in Readers}

\* The server starts over a directory with whole files and no leftovers of
\* its own; a crash brings the others about.
Init ==
  /\ file \in [Paths -> Inodes \cup {None}]
  /\ \A p, q \in Paths : p # q /\ file[p] # None => file[p] # file[q]
  /\ tmp = [p \in Paths |-> None]
  /\ data \in [Inodes -> WholeContents \cup {Blank}]
  /\ \A i \in Inodes :
       IF \E p \in Paths : file[p] = i THEN data[i] \in WholeContents ELSE data[i] = Blank
  /\ writer = [w \in Writers |-> NotWriting]
  /\ reader = [r \in Readers |-> NotReading]

\* Slip: no temporary file when the path exists; it is truncated and filled
\* in place.
SlipInPlace(w, p, v) ==
  /\ writer[w].pc = "idle"
  /\ Exclusive => \A u \in Writers : writer[u].pc # "idle" => writer[u].path # p
  /\ IF file[p] = None
       THEN /\ writer' = [writer EXCEPT ![w] =
                  [pc |-> "create", path |-> p, val |-> v, fd |-> None, n |-> 0]]
            /\ data' = data
       ELSE /\ writer' = [writer EXCEPT ![w] =
                  [pc |-> "write", path |-> p, val |-> v, fd |-> file[p], n |-> 0]]
            /\ data' = [data EXCEPT ![file[p]] = Blank]
  /\ UNCHANGED <<file, tmp, reader>>

\* WriteFile is entered for path p with content v.
BeginWrite(w, p, v) ==
  /\ writer[w].pc = "idle"
  /\ Exclusive => \A u \in Writers : writer[u].pc # "idle" => writer[u].path # p
  /\ writer' = [writer EXCEPT ![w] =
                  [pc |-> "create", path |-> p, val |-> v, fd |-> None, n |-> 0]]
  /\ UNCHANGED <<file, tmp, data, reader>>

\* Slip: the temporary file is opened without O_TRUNC.
SlipNoTruncate(w) ==
  LET k == writer[w] IN
  /\ k.pc = "create"
  /\ \E i \in Inodes :
       /\ IF tmp[k.path] = None THEN i \notin Used ELSE i = tmp[k.path]
       /\ tmp' = [tmp EXCEPT ![k.path] = i]
       /\ data' = IF tmp[k.path] = None THEN [data EXCEPT ![i] = Blank] ELSE data
       /\ writer' = [writer EXCEPT ![w] = [k EXCEPT !.pc = "write", !.fd = i]]
  /\ UNCHANGED <<file, reader>>

\* os.WriteFile opens p.tmp with O_CREATE|O_TRUNC: a new inode if there is no
\* such entry, the same inode emptied if there is.
Create(w) ==
  LET k == writer[w] IN
  /\ k.pc = "create"
  /\ \E i \in Inodes :
       /\ IF tmp[k.path] = None THEN i \notin Used ELSE i = tmp[k.path]
       /\ tmp' = [tmp EXCEPT ![k.path] = i]
       /\ data' = [data EXCEPT ![i] = Blank]
       /\ writer' = [writer EXCEPT ![w] = [k EXCEPT !.pc = "write", !.fd = i]]
  /\ UNCHANGED <<file, reader>>

\* Slip: the end of the content is not noticed.
SlipNoEnd(w) ==
  LET k == writer[w] IN
  /\ k.pc = "write"
  /\ data' = [data EXCEPT ![k.fd] = [@ EXCEPT ![k.n + 1] = k.val]]
  /\ writer' = [writer EXCEPT ![w] = [k EXCEPT !.n = @ + 1]]
  /\ UNCHANGED <<file, tmp, reader>>

\* One chunk, at the descriptor's own offset, whatever else is in the inode.
WriteChunk(w) ==
  LET k == writer[w] IN
  /\ k.pc = "write"
  /\ k.n < Size[k.val]
  /\ data' = [data EXCEPT ![k.fd] = [@ EXCEPT ![k.n + 1] = k.val]]
  /\ writer' = [writer EXCEPT ![w] = [k EXCEPT !.n = @ + 1]]
  /\ UNCHANGED <<file, tmp, reader>>

\* Slip: the file is closed and renamed before its last chunk.
SlipCloseEarly(w) ==
  LET k == writer[w] IN
  /\ k.pc = "write"
  /\ k.n + 1 >= Size[k.val]
  /\ writer' = [writer EXCEPT ![w] = [k EXCEPT !.pc = "rename", !.fd = None]]
  /\ UNCHANGED <<file, tmp, data, reader>>

\* os.WriteFile has written everything and closes the file.
Close(w) ==
  LET k == writer[w] IN
  /\ k.pc = "write"
  /\ k.n = Size[k.val]
  /\ writer' = [writer EXCEPT ![w] = [k EXCEPT !.pc = "rename", !.fd = None]]
  /\ UNCHANGED <<file, tmp, data, reader>>

\* os.Rename moves the entry p.tmp, whatever it refers to by now, onto p;
\* the write has succeeded.
Rename(w) ==
  LET k == writer[w] IN
  /\ k.pc = "rename"
  /\ tmp[k.path] # None
  /\ file' = [file EXCEPT ![k.path] = tmp[k.path]]
  /\ tmp' = [tmp EXCEPT ![k.path] = None]
  /\ writer' = [writer EXCEPT ![w] = NotWriting]
  /\ UNCHANGED <<data, reader>>

\* os.Rename fails: the entry is gone, or the system refuses.
RenameFails(w) ==
  /\ writer[w].pc = "rename"
  /\ writer' = [writer EXCEPT ![w].pc = "remove"]
  /\ UNCHANGED <<file, tmp, data, reader>>

\* The entry p.tmp is removed, whoever made it, and the error returned.
Remove(w) ==
  LET k == writer[w] IN
  /\ k.pc = "remove"
  /\ tmp' = [tmp EXCEPT ![k.path] = None]
  /\ writer' = [writer EXCEPT ![w] = NotWriting]
  /\ UNCHANGED <<file, data, reader>>

\* os.WriteFile fails (at the open or at any chunk): the error is returned
\* and p.tmp stays as it is.
WriteFails(w) ==
  /\ writer[w].pc \in {"create", "write"}
  /\ writer' = [writer EXCEPT ![w] = NotWriting]
  /\ UNCHANGED <<file, tmp, data, reader>>

\* os.ReadFile opens p ...
OpenRead(r, p) ==
  /\ reader[r].fd = None
  /\ file[p] # None
  /\ reader' = [reader EXCEPT ![r] = [fd |-> file[p], got |-> None]]
  /\ UNCHANGED <<file, tmp, data, writer>>

\* ... and returns what the inode holds by then.
Read(r) ==
  /\ reader[r].fd # None
  /\ reader' = [reader EXCEPT ![r] = [fd |-> None, got |-> data[reader[r].fd]]]
  /\ UNCHANGED <<file, tmp, data, writer>>

\* The process dies: its descriptors are closed, the directory stays.
Crash ==
  /\ \E w \in Writers : writer[w].pc # "idle"
  /\ writer' = [w \in Writers |-> NotWriting]
  /\ reader' = [r \in Readers |-> NotReading]
  /\ UNCHANGED <<file, tmp, data>>

WriterStep(w) ==
  \/ Create(w) \/ WriteChunk(w) \/ Close(w) \/ Rename(w)
  \/ RenameFails(w) \/ Remove(w) \/ WriteFails(w)

Next ==
  \/ \E w \in Writers : WriterStep(w) \/ \E p \in Paths, v \in Values : BeginWrite(w, p, v)
  \/ \E r \in Readers : Read(r) \/ \E p \in Paths : OpenRead(r, p)
  \/ Crash

Spec == Init /\ [][Next]_vars

-----------------------------------------------------------------------------
(* Properties *)

TypeOK ==
  /\ file \in [Paths -> Inodes \cup {None}]
  /\ tmp \in [Paths -> Inodes \cup {None}]
  /\ data \in [Inodes -> Content]
  /\ writer \in [Writers -> WriterState]
  /\ reader \in [Readers -> ReaderState]

\* src/docs/SECURITY.md:42: "Atomic writes via temp file + rename".  Whoever
\* opens a file reads one whole content, never a part of one or a mixture,
\* before, during and after every write, failure and crash.
ReadsWhole ==
  \A r \in Readers : reader[r].got # None => reader[r].got \in WholeContents

\* A write that reports success has put its own content in place
\* (the return after os.Rename).
SuccessIsMine ==
  [][\A w \in Writers : Rename(w) =>
       data'[file'[writer[w].path]] = Whole(writer[w].val)]_vars

\* The file at p as one register: the content of its inode.
Register == INSTANCE FileRegister WITH
  value <- [p \in Paths |-> IF file[p] = None THEN None ELSE data[file[p]]],
  Writable <- WholeContents

\* With one writer per path a write is one atomic step, also for those who
\* never open the file twice (all of WriteFile).
ImplementsRegister == Register!Spec

=============================================================================
