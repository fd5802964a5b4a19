------------------------------- MODULE Mailbox -------------------------------
(***************************************************************************)
(* The channel from the planning assistant to the implementation agent     *)
(* (append_fromgpt_message in internal/mcpserver/tools.go): a call reads   *)
(* fromgpt.md through the checks of fsx.ReadFile, adds its entry and       *)
(* writes the whole file back through fsx.WriteFile, by way of             *)
(* fromgpt.md.tmp, which all calls share.  Calls run in goroutines of      *)
(* their own, without a lock, and people edit the file.  Every call has a  *)
(* message of its own, which stands for the call as well.                  *)
(***************************************************************************)
EXTENDS Naturals, Sequences

CONSTANTS Messages,    \* the messages, one per call
          Foreign,     \* an entry that somebody else wrote
          Missing,     \* there is no file
          Empty,       \* a file of no bytes; <<>> is one of white space
          MaxEntries,  \* max_file_bytes, counted in entries
          Edits,       \* what other programs may turn the file into
          MaxFaults    \* bound: edits, failed writes and crashes

ASSUME BoundsAssumption == MaxEntries \in Nat /\ MaxFaults \in Nat
ASSUME EditsAssumption ==
  Edits \subseteq {Missing, Empty} \cup Seq({Foreign})
ASSUME ContentsAssumption ==
  /\ {Missing, Empty} \cap Seq(Messages \cup {Foreign}) = {}
  /\ Missing # Empty /\ Foreign \notin Messages

VARIABLES file,      \* fromgpt.md
          tmp,       \* fromgpt.md.tmp
          call,      \* call[m]: where the call of m is, what it has read, and
                     \* what the descriptor it writes to refers to by now
          writable,  \* the root is not read-only
          before,    \* before[m]: history, the messages answered when m was sent
          alone,     \* history: the messages since whose read nobody else has
                     \* changed the file or been in WriteFile at the same time
          clash,     \* history: two calls have been in WriteFile at a time
          theirs,    \* history: the file is as other programs left it
          faults     \* edits, failed writes and crashes so far

vars == <<file, tmp, call, writable, before, alone, clash, theirs, faults>>

Entries == Seq(Messages \cup {Foreign})

Places == {"unsent", "inspect", "read", "write", "fill", "rename", "remove",
           "written", "answered", "refused", "lost"}

Descriptors == {"none", "tmp", "file", "gone"}

InFlight(m) == call[m].pc \notin {"unsent", "answered", "refused", "lost"}

\* In WriteFile, from the opening of the temporary file to the last use of it.
Inside(m) == call[m].pc \in {"fill", "rename", "remove"}

\* The call of m moves on to pc.
Goes(m, pc) == call' = [call EXCEPT ![m].pc = pc]

\* The calls once what the descriptors refer to has been renamed, removed or
\* replaced, as the table says.
Refer(table) == [n \in Messages |-> [call[n] EXCEPT !.fd = table[@]]]

Init ==
  /\ file \in Edits
  /\ tmp = Missing
  /\ call = [m \in Messages |-> [pc |-> "unsent", base |-> <<>>, fd |-> "none"]]
  /\ writable \in BOOLEAN
  /\ before = [m \in Messages |-> {}]
  /\ alone = {}
  /\ clash = FALSE
  /\ theirs = TRUE
  /\ faults = 0

\* The handler is entered; the rate limit, the project and the emptiness of
\* the message have been checked.
Send(m) ==
  /\ call[m].pc = "unsent"
  /\ Goes(m, "inspect")
  /\ before' = [before EXCEPT ![m] = {n \in Messages : call[n].pc = "answered"}]
  /\ UNCHANGED <<file, tmp, writable, alone, clash, theirs, faults>>

\* ReadFile fails with "file not found": the entry will be the whole file.
FindsNone(m) ==
  /\ call[m].pc = "inspect"
  /\ file = Missing
  /\ Goes(m, "write")
  /\ alone' = alone \cup {m}
  /\ UNCHANGED <<file, tmp, writable, before, clash, theirs, faults>>

\* What ReadFile's checks refuse: too large, or the sample of IsBinaryFile
\* cannot be read, which of an empty file it cannot.
Unreadable == file = Empty \/ (file \in Entries /\ Len(file) > MaxEntries)

\* Slip: any error of ReadFile is taken for a missing file.
SlipErrorIsMissing(m) ==
  /\ call[m].pc = "inspect"
  /\ Unreadable
  /\ Goes(m, "write")
  /\ alone' = alone \cup {m}
  /\ UNCHANGED <<file, tmp, writable, before, clash, theirs, faults>>

\* ReadFile fails otherwise: the call is refused.
InspectFails(m) ==
  /\ call[m].pc = "inspect"
  /\ Unreadable
  /\ Goes(m, "refused")
  /\ UNCHANGED <<file, tmp, writable, before, alone, clash, theirs, faults>>

\* Size and kind are as they should be; the content is read later.
Inspect(m) ==
  /\ call[m].pc = "inspect"
  /\ file # Missing /\ ~Unreadable
  /\ Goes(m, "read")
  /\ UNCHANGED <<file, tmp, writable, before, alone, clash, theirs, faults>>

\* Slip: what was read is kept without asking whether there is any.
SlipKeepRaw(m) ==
  /\ call[m].pc = "read"
  /\ file # Missing
  /\ call' = [call EXCEPT ![m].pc = "write", ![m].base = file]
  /\ alone' = alone \cup {m}
  /\ UNCHANGED <<file, tmp, writable, before, clash, theirs, faults>>

\* os.ReadFile; blank content is the same as none.
Read(m) ==
  /\ call[m].pc = "read"
  /\ file # Missing
  /\ call' = [call EXCEPT ![m].pc = "write",
                          ![m].base = IF file = Empty THEN <<>> ELSE file]
  /\ alone' = alone \cup {m}
  /\ UNCHANGED <<file, tmp, writable, before, clash, theirs, faults>>

\* The file was there when it was inspected and is gone.
ReadFails(m) ==
  /\ call[m].pc = "read"
  /\ file = Missing
  /\ Goes(m, "refused")
  /\ UNCHANGED <<file, tmp, writable, before, alone, clash, theirs, faults>>

\* Slip: the new entry goes in front of the old ones.
SlipPrepend(m) == <<m>> \o call[m].base

\* What the call of m writes: what it has read and the new entry.
Text(m) == Append(call[m].base, m)

\* The guard of WriteFile refuses a read-only root.
Blocked(m) ==
  /\ call[m].pc = "write"
  /\ ~writable
  /\ Goes(m, "refused")
  /\ UNCHANGED <<file, tmp, writable, before, alone, clash, theirs, faults>>

\* Slip: the limit itself is refused.
SlipLimitExcluded(m) ==
  /\ call[m].pc = "write"
  /\ writable
  /\ Len(Text(m)) >= MaxEntries
  /\ Goes(m, "refused")
  /\ UNCHANGED <<file, tmp, writable, before, alone, clash, theirs, faults>>

\* WriteFile refuses what is larger than max_file_bytes.
TooLarge(m) ==
  /\ call[m].pc = "write"
  /\ writable
  /\ Len(Text(m)) > MaxEntries
  /\ Goes(m, "refused")
  /\ UNCHANGED <<file, tmp, writable, before, alone, clash, theirs, faults>>

\* The other calls that are in WriteFile.
Others(m) == {n \in Messages : n # m /\ Inside(n)}

\* Slip: only the old entries are measured.
SlipMeasureOld(m) ==
  /\ call[m].pc = "write"
  /\ writable
  /\ Len(call[m].base) <= MaxEntries
  /\ tmp' = Empty
  /\ call' = [call EXCEPT ![m].pc = "fill", ![m].fd = "tmp"]
  /\ alone' = IF Others(m) = {} THEN alone ELSE alone \ (Others(m) \cup {m})
  /\ clash' = (clash \/ Others(m) # {})
  /\ UNCHANGED <<file, writable, before, theirs, faults>>

\* os.WriteFile opens the temporary file with O_CREATE|O_TRUNC: a file that
\* another call has open there is emptied.
Open(m) ==
  /\ call[m].pc = "write"
  /\ writable
  /\ Len(Text(m)) <= MaxEntries
  /\ tmp' = Empty
  /\ call' = [call EXCEPT ![m].pc = "fill", ![m].fd = "tmp"]
  /\ alone' = IF Others(m) = {} THEN alone ELSE alone \ (Others(m) \cup {m})
  /\ clash' = (clash \/ Others(m) # {})
  /\ UNCHANGED <<file, writable, before, theirs, faults>>

\* The file with content c once s has been written at its start: what was
\* beyond s stays.
Over(s, c) ==
  IF s = <<>> THEN c
  ELSE IF c \in Entries THEN s \o SubSeq(c, Len(s) + 1, Len(c))
  ELSE s

\* s is written to the file that the descriptor of m refers to: the temporary
\* one, the one everybody sees if another call has renamed it meanwhile, or one
\* that has no name any more.
Puts(m, s) ==
  /\ tmp' = IF call[m].fd = "tmp" THEN Over(s, tmp) ELSE tmp
  /\ IF call[m].fd = "file"
       THEN file' = Over(s, file) /\ alone' = {} /\ theirs' = FALSE
       ELSE UNCHANGED <<file, alone, theirs>>

\* os.WriteFile writes the text and closes the file.
Fill(m) ==
  /\ call[m].pc = "fill"
  /\ Puts(m, Text(m))
  /\ call' = [call EXCEPT ![m].pc = "rename", ![m].fd = "none"]
  /\ UNCHANGED <<writable, before, clash, faults>>

Renamed == [none |-> "none", tmp |-> "file", file |-> "gone", gone |-> "gone"]

\* os.Rename moves the entry of the temporary file, whatever it refers to by
\* now, onto fromgpt.md.
Rename(m) ==
  /\ call[m].pc = "rename"
  /\ tmp # Missing
  /\ file' = tmp
  /\ tmp' = Missing
  /\ call' = [Refer(Renamed) EXCEPT ![m].pc = "written"]
  /\ alone' = {}
  /\ theirs' = FALSE
  /\ UNCHANGED <<writable, before, clash, faults>>

\* There is nothing to rename: another call has renamed or removed it.
RenameFindsNone(m) ==
  /\ call[m].pc = "rename"
  /\ tmp = Missing
  /\ Goes(m, "remove")
  /\ UNCHANGED <<file, tmp, writable, before, alone, clash, theirs, faults>>

Removed == [none |-> "none", tmp |-> "gone", file |-> "file", gone |-> "gone"]

\* After a failed rename the temporary file is removed, whoever made it.
Remove(m) ==
  /\ call[m].pc = "remove"
  /\ tmp' = Missing
  /\ call' = [Refer(Removed) EXCEPT ![m].pc = "refused"]
  /\ UNCHANGED <<file, writable, before, alone, clash, theirs, faults>>

Answer(m) ==
  /\ call[m].pc = "written"
  /\ Goes(m, "answered")
  /\ UNCHANGED <<file, tmp, writable, before, alone, clash, theirs, faults>>

\* The temporary file cannot be opened ...
OpenFails(m) ==
  /\ call[m].pc = "write"
  /\ writable
  /\ Len(Text(m)) <= MaxEntries
  /\ faults < MaxFaults
  /\ faults' = faults + 1
  /\ Goes(m, "refused")
  /\ UNCHANGED <<file, tmp, writable, before, alone, clash, theirs>>

\* ... or not be written to its end, and stays as it is ...
FillFails(m) ==
  /\ call[m].pc = "fill"
  /\ faults < MaxFaults
  /\ faults' = faults + 1
  /\ \E k \in 0..Len(Text(m)) : Puts(m, SubSeq(Text(m), 1, k))
  /\ call' = [call EXCEPT ![m].pc = "refused", ![m].fd = "none"]
  /\ UNCHANGED <<writable, before, clash>>

\* ... or not be renamed.
RenameFails(m) ==
  /\ call[m].pc = "rename"
  /\ faults < MaxFaults
  /\ faults' = faults + 1
  /\ Goes(m, "remove")
  /\ UNCHANGED <<file, tmp, writable, before, alone, clash, theirs>>

\* The server dies; its calls are never answered, and the directory stays as
\* it is.
Crash ==
  /\ \E m \in Messages : InFlight(m)
  /\ faults < MaxFaults
  /\ faults' = faults + 1
  /\ call' = [m \in Messages |->
                IF InFlight(m) THEN [call[m] EXCEPT !.pc = "lost", !.fd = "none"]
                               ELSE call[m]]
  /\ UNCHANGED <<file, tmp, writable, before, alone, clash, theirs>>

Replaced == [none |-> "none", tmp |-> "tmp", file |-> "gone", gone |-> "gone"]

\* A person or the implementation agent deletes the file or puts another in
\* its place.
Edit ==
  /\ faults < MaxFaults
  /\ faults' = faults + 1
  /\ file' \in Edits
  /\ call' = Refer(Replaced)
  /\ alone' = {}
  /\ theirs' = TRUE
  /\ UNCHANGED <<tmp, writable, before, clash>>

Next ==
  \/ \E m \in Messages :
       \/ Send(m) \/ FindsNone(m) \/ InspectFails(m) \/ Inspect(m)
       \/ Read(m) \/ ReadFails(m) \/ Blocked(m) \/ TooLarge(m)
       \/ Open(m) \/ Fill(m) \/ Rename(m) \/ RenameFindsNone(m) \/ Remove(m)
       \/ Answer(m) \/ OpenFails(m) \/ FillFails(m) \/ RenameFails(m)
  \/ Crash
  \/ Edit

Spec == Init /\ [][Next]_vars

-----------------------------------------------------------------------------
(* Properties *)

TypeOK ==
  /\ file \in {Missing, Empty} \cup Entries
  /\ tmp \in {Missing, Empty} \cup Entries
  /\ call \in [Messages -> [pc : Places, base : Entries, fd : Descriptors]]
  /\ writable \in BOOLEAN
  /\ before \in [Messages -> SUBSET Messages]
  /\ alone \subseteq Messages
  /\ clash \in BOOLEAN
  /\ theirs \in BOOLEAN
  /\ faults \in 0..MaxFaults

\* The entries in the file.
Written == IF file \in Entries THEN file ELSE <<>>

\* However calls overtake each other between read and write, fail or die: as long
\* as no two have been in WriteFile at a time, a message is in the file at most
\* once, and never ahead of one that had been answered when it was sent
\* (read, extend, rewrite in handleAppendFromGPTMessage).
AnsweredInOrder ==
  ~clash =>
    \A i, j \in DOMAIN Written :
      i < j /\ {Written[i], Written[j]} \subseteq Messages =>
        /\ Written[i] # Written[j]
        /\ Written[j] \notin before[Written[i]]

\* The server never leaves a file that it would not read again: never one over
\* the limit (WriteFile's is ReadFile's), and an empty one only where two calls
\* have been in WriteFile at a time (its temporary file is shared).
StaysReadable == Unreadable => theirs \/ (clash /\ file = Empty)

\* A call that has WriteFile to itself, and since whose read nobody has changed
\* the file, keeps all that is in it and adds its message at the end, whatever
\* older texts other calls hold (read, extend, rewrite in
\* handleAppendFromGPTMessage).
AppendsWhenAlone ==
  [][\A m \in alone :
       call[m].pc = "rename" /\ call'[m].pc = "written" => file' = Append(Written, m)]_vars

\* Nor is such a call refused once it has read, unless the file is full, the
\* root read-only, or its own write fails (the exits of WriteFile).
RefusalMeansFull ==
  [][\A m \in alone :
       /\ call[m].pc \in {"write", "fill", "rename"}
       /\ call'[m].pc \in {"refused", "remove"}
       => Len(Written) >= MaxEntries \/ ~writable \/ faults' > faults]_vars

\* src/docs/TOOL_CONTRACTS.md:391: "Appends a timestamped planning-assistant
\* message to root fromgpt.md".  A file of no bytes is no reason to refuse one.
EmptyIsNoObstacle ==
  [][\A m \in Messages :
       file = Empty /\ call[m].pc = "inspect" => call'[m].pc # "refused"]_vars

=============================================================================
