--------------------------- MODULE MailboxProofs ---------------------------
(***************************************************************************)
(* Proofs about Mailbox, for any messages, edits, faults and file limit.   *)
(***************************************************************************)
EXTENDS Mailbox, TLAPS

\* The steps of a call that touch neither file nor descriptor.
QuietStep(m) ==
  \/ Send(m) \/ FindsNone(m) \/ InspectFails(m) \/ Inspect(m) \/ Read(m) \/ ReadFails(m)
  \/ Blocked(m) \/ TooLarge(m) \/ RenameFindsNone(m) \/ Answer(m) \/ OpenFails(m)
  \/ RenameFails(m)

\* Where a quiet step leads from, and where to.
QuietMoves ==
  {<<"unsent", "inspect">>, <<"inspect", "write">>, <<"inspect", "refused">>,
   <<"inspect", "read">>, <<"read", "write">>, <<"read", "refused">>,
   <<"write", "refused">>, <<"rename", "remove">>, <<"written", "answered">>}

\* What the temporary file is to a call that has it to itself.
TmpMine(m) ==
  /\ call[m].pc = "fill" => call[m].fd = "tmp" /\ tmp = Empty
  /\ call[m].pc = "rename" => tmp = Text(m)

\* A call that nobody disturbed, and any call as long as there was no clash, is
\* in WriteFile alone and finds in the temporary file what it put there.
InsideInv ==
  \A m \in Messages :
    Inside(m) /\ (m \in alone \/ ~clash) =>
      TmpMine(m) /\ \A n \in Messages : n # m => ~Inside(n)

\* A call that has not read yet holds nothing; one nobody disturbed since it
\* did holds what is in the file.
Undisturbed ==
  /\ \A m \in Messages : call[m].pc \in {"unsent", "inspect", "read"} => call[m].base = <<>>
  /\ \A m \in alone : call[m].pc \in {"write", "fill", "rename"} => call[m].base = Written

\* A content within the limit.
Fits(c) == c \in Entries => Len(c) <= MaxEntries

\* What the server writes is within the limit, at each place it goes through.
SizeInv ==
  /\ Fits(tmp)
  /\ theirs \/ Fits(file)
  /\ \A m \in Messages : call[m].pc = "fill" => Len(Text(m)) <= MaxEntries
  /\ \A m \in Messages : call[m].fd = "file" => ~theirs

\* Without a clash, what the server leaves is not empty.
FilledInv == file = Empty => theirs \/ clash

\* Where a call is whose message may be in the file.
Past == {"written", "answered", "lost"}

\* The messages in s are of calls that have written.
Sent(s) == \A i \in DOMAIN s : s[i] \in Messages => call[s[i]].pc \in Past

\* What AnsweredInOrder says, of any sequence of entries.
Ordered(s) ==
  \A i, j \in DOMAIN s :
    i < j /\ {s[i], s[j]} \subseteq Messages =>
      s[i] # s[j] /\ s[j] \notin before[s[i]]

\* Who had been answered when a message was sent is answered still.
StillAnswered == \A m, n \in Messages : n \in before[m] => call[n].pc = "answered"

\* What holds of the file holds of all that calls have read of it.
OrderInv ==
  ~clash =>
    /\ StillAnswered
    /\ Sent(Written) /\ Ordered(Written)
    /\ \A m \in Messages : Sent(call[m].base) /\ Ordered(call[m].base)

-----------------------------------------------------------------------------
(* Contents *)

LEMMA EmptyIsEntries == <<>> \in Entries
BY DEF Entries

LEMMA EditsTyped == Edits \subseteq {Missing, Empty} \cup Entries
<1>1. Seq({Foreign}) \subseteq Seq(Messages \cup {Foreign})
  <2> SUFFICES ASSUME NEW s \in Seq({Foreign}) PROVE s \in Seq(Messages \cup {Foreign})
    OBVIOUS
  <2> QED OBVIOUS
<1> QED BY <1>1, EditsAssumption DEF Entries

\* What a call writes is its text, one longer than what it has read.
LEMMA TextIs ==
  ASSUME TypeOK, NEW m \in Messages
  PROVE  /\ Text(m) \in Entries /\ Text(m) \notin {Missing, Empty, <<>>}
         /\ call[m].base \in Entries /\ Len(call[m].base) \in Nat
         /\ Len(Text(m)) = Len(call[m].base) + 1
<1>1. call[m].base \in Seq(Messages \cup {Foreign})
  BY DEF TypeOK, Entries
<1>2. /\ Text(m) \in Seq(Messages \cup {Foreign}) /\ Len(call[m].base) \in Nat
      /\ Len(Text(m)) = Len(call[m].base) + 1 /\ Text(m) # <<>>
  BY <1>1 DEF Text
<1> QED BY <1>1, <1>2, ContentsAssumption DEF Entries

\* A part of the text is a sequence of entries and no longer.
LEMMA PartIs ==
  ASSUME TypeOK, NEW m \in Messages, NEW k \in 0..Len(Text(m))
  PROVE  /\ SubSeq(Text(m), 1, k) \in Entries
         /\ Len(SubSeq(Text(m), 1, k)) \in Nat
         /\ Len(SubSeq(Text(m), 1, k)) <= Len(Text(m))
<1> DEFINE s == Text(m)
<1>1. s \in Seq(Messages \cup {Foreign}) /\ k \in Nat /\ k <= Len(s) /\ Len(s) \in Nat
  BY TextIs DEF Entries
<1> HIDE DEF s
<1>2. SubSeq(s, 1, k) \in Seq(Messages \cup {Foreign}) /\ Len(SubSeq(s, 1, k)) = k
  BY <1>1
<1> QED BY <1>1, <1>2 DEF s, Entries

\* Writing over a content gives a content, and one within the limit if both are.
LEMMA OverIs ==
  ASSUME NEW s \in Entries, NEW c \in {Missing, Empty} \cup Entries
  PROVE  /\ Over(s, c) \in {Missing, Empty} \cup Entries
         /\ Len(s) <= MaxEntries /\ Fits(c) => Fits(Over(s, c))
         /\ s # <<>> => Over(s, c) \in Entries
<1>1. CASE s = <<>>
  BY <1>1 DEF Over
<1>2. CASE s # <<>> /\ c \notin Entries
  BY <1>2 DEF Over, Fits
<1>3. CASE s # <<>> /\ c \in Entries
  <2> DEFINE r == SubSeq(c, Len(s) + 1, Len(c))
  <2>1. /\ s \in Seq(Messages \cup {Foreign}) /\ c \in Seq(Messages \cup {Foreign})
        /\ Len(s) \in Nat /\ Len(c) \in Nat
    BY <1>3 DEF Entries
  <2>2. /\ r \in Seq(Messages \cup {Foreign})
        /\ Len(r) = IF Len(s) + 1 <= Len(c) THEN Len(c) - Len(s) ELSE 0
    BY <2>1
  <2>3. Over(s, c) = s \o r
    BY <1>3 DEF Over
  <2> HIDE DEF r
  <2>4. s \o r \in Seq(Messages \cup {Foreign}) /\ Len(s \o r) = Len(s) + Len(r)
    BY <2>1, <2>2
  <2>5. Len(s) <= MaxEntries /\ Len(c) <= MaxEntries => Len(s \o r) <= MaxEntries
    BY <2>1, <2>2, <2>4, BoundsAssumption
  <2> QED BY <1>3, <2>3, <2>4, <2>5 DEF Fits, Entries
<1> QED BY <1>1, <1>2, <1>3

\* What a call takes over is what Written says of the file.
LEMMA ReadsWritten ==
  ASSUME TypeOK, NEW m \in Messages, Read(m)
  PROVE  call' = [call EXCEPT ![m].pc = "write", ![m].base = Written]
BY ContentsAssumption DEF TypeOK, Read, Written, Entries

-----------------------------------------------------------------------------
(* Types *)

LEMMA InitType == Init => TypeOK
<1> SUFFICES ASSUME Init PROVE TypeOK
  OBVIOUS
<1>1. /\ file \in {Missing, Empty} \cup Entries /\ tmp \in {Missing, Empty} \cup Entries
      /\ faults \in 0..MaxFaults
  BY EditsTyped, BoundsAssumption DEF Init
<1>2. call \in [Messages -> [pc : Places, base : Entries, fd : Descriptors]]
  BY EmptyIsEntries DEF Init, Places, Descriptors
<1> QED BY <1>1, <1>2 DEF Init, TypeOK

LEMMA TablesTyped ==
  ASSUME TypeOK, NEW table \in {Renamed, Removed, Replaced}
  PROVE  /\ Refer(table) \in [Messages -> [pc : Places, base : Entries, fd : Descriptors]]
         /\ \A n \in Messages :
              /\ Refer(table)[n].pc = call[n].pc /\ Refer(table)[n].base = call[n].base
              /\ Refer(table)[n].fd = table[call[n].fd]
              /\ Refer(table)[n] \in [pc : Places, base : Entries, fd : Descriptors]
<1>1. \A d \in Descriptors : table[d] \in Descriptors
  BY DEF Descriptors, Renamed, Removed, Replaced
<1> QED BY <1>1 DEF Refer, TypeOK

\* What is put somewhere leaves contents there.
LEMMA PutsTyped ==
  ASSUME TypeOK, NEW m \in Messages, NEW s \in Entries, Puts(m, s)
  PROVE  /\ file' \in {Missing, Empty} \cup Entries /\ tmp' \in {Missing, Empty} \cup Entries
         /\ alone' \subseteq alone /\ theirs' \in BOOLEAN
<1>1. Over(s, tmp) \in {Missing, Empty} \cup Entries /\ Over(s, file) \in {Missing, Empty} \cup Entries
  BY OverIs DEF TypeOK
<1> QED BY <1>1 DEF Puts, TypeOK

LEMMA NextType ==
  ASSUME TypeOK, [Next]_vars
  PROVE  TypeOK'
<1>0. /\ "inspect" \in Places /\ "read" \in Places /\ "write" \in Places /\ "fill" \in Places
      /\ "rename" \in Places /\ "remove" \in Places /\ "written" \in Places
      /\ "answered" \in Places /\ "refused" \in Places /\ "lost" \in Places
      /\ "none" \in Descriptors /\ "tmp" \in Descriptors
  BY DEF Places, Descriptors
<1> USE <1>0
<1>1. CASE UNCHANGED vars
  BY <1>1 DEF TypeOK, vars
<1>2. ASSUME NEW m \in Messages, Send(m) PROVE TypeOK'
  BY <1>2 DEF TypeOK, Send, Goes
<1>3. ASSUME NEW m \in Messages, FindsNone(m) PROVE TypeOK'
  BY <1>3 DEF TypeOK, FindsNone, Goes
<1>4. ASSUME NEW m \in Messages,
             \/ InspectFails(m) \/ Inspect(m) \/ ReadFails(m) \/ Blocked(m) \/ TooLarge(m)
             \/ RenameFindsNone(m) \/ Answer(m)
      PROVE  TypeOK'
  BY <1>4 DEF TypeOK, InspectFails, Inspect, ReadFails, Blocked, TooLarge,
              RenameFindsNone, Answer, Goes
<1>5. ASSUME NEW m \in Messages, Read(m) PROVE TypeOK'
  <2>1. /\ file # Missing /\ alone' = alone \cup {m}
        /\ call' = [call EXCEPT ![m].pc = "write",
                               ![m].base = IF file = Empty THEN <<>> ELSE file]
        /\ UNCHANGED <<file, tmp, writable, before, clash, theirs, faults>>
    BY <1>5 DEF Read
  <2>2. file \in {Missing, Empty} \cup Entries
    BY DEF TypeOK
  <2>3. PICK b \in Entries : b = IF file = Empty THEN <<>> ELSE file
    BY <2>1, <2>2, EmptyIsEntries
  <2>4. call' = [call EXCEPT ![m].pc = "write", ![m].base = b]
    BY <2>1, <2>3
  <2>5. call \in [Messages -> [pc : Places, base : Entries, fd : Descriptors]]
    BY DEF TypeOK
  <2>6. call' \in [Messages -> [pc : Places, base : Entries, fd : Descriptors]]
    BY <2>4, <2>5
  <2> QED BY <2>1, <2>6 DEF TypeOK
<1>6. ASSUME NEW m \in Messages, Open(m) PROVE TypeOK'
  BY <1>6 DEF TypeOK, Open
<1>7. ASSUME NEW m \in Messages, Fill(m) PROVE TypeOK'
  <2>1. /\ file' \in {Missing, Empty} \cup Entries /\ tmp' \in {Missing, Empty} \cup Entries
        /\ alone' \subseteq alone /\ theirs' \in BOOLEAN
    BY <1>7, TextIs, PutsTyped DEF Fill
  <2>2. /\ call' = [call EXCEPT ![m].pc = "rename", ![m].fd = "none"]
        /\ UNCHANGED <<writable, before, clash, faults>>
    BY <1>7 DEF Fill
  <2>3. call' \in [Messages -> [pc : Places, base : Entries, fd : Descriptors]]
    BY <2>2 DEF TypeOK
  <2> QED BY <2>1, <2>2, <2>3 DEF TypeOK
<1>8. ASSUME NEW m \in Messages, FillFails(m) PROVE TypeOK'
  <2>1. /\ file' \in {Missing, Empty} \cup Entries /\ tmp' \in {Missing, Empty} \cup Entries
        /\ alone' \subseteq alone /\ theirs' \in BOOLEAN
    <3>1. PICK k \in 0..Len(Text(m)) : Puts(m, SubSeq(Text(m), 1, k))
      BY <1>8 DEF FillFails
    <3>2. SubSeq(Text(m), 1, k) \in Entries
      BY PartIs
    <3>3. PICK s \in Entries : s = SubSeq(Text(m), 1, k)
      BY <3>2
    <3> QED BY <3>1, <3>3, PutsTyped
  <2>2. call' \in [Messages -> [pc : Places, base : Entries, fd : Descriptors]]
    <3>1. call' = [call EXCEPT ![m].pc = "refused", ![m].fd = "none"]
      BY <1>8 DEF FillFails
    <3> QED BY <3>1 DEF TypeOK
  <2>3. faults' \in 0..MaxFaults
    BY <1>8, BoundsAssumption DEF TypeOK, FillFails
  <2>4. UNCHANGED <<writable, before, clash>>
    BY <1>8 DEF FillFails
  <2> QED BY <2>1, <2>2, <2>3, <2>4 DEF TypeOK
<1>9. ASSUME NEW m \in Messages, Rename(m) PROVE TypeOK'
  <2>1. Refer(Renamed) \in [Messages -> [pc : Places, base : Entries, fd : Descriptors]]
    BY TablesTyped
  <2> QED BY <1>9, <2>1 DEF TypeOK, Rename
<1>10. ASSUME NEW m \in Messages, Remove(m) PROVE TypeOK'
  <2>1. Refer(Removed) \in [Messages -> [pc : Places, base : Entries, fd : Descriptors]]
    BY TablesTyped
  <2> QED BY <1>10, <2>1 DEF TypeOK, Remove
<1>11. ASSUME NEW m \in Messages, OpenFails(m) \/ RenameFails(m) PROVE TypeOK'
  BY <1>11, BoundsAssumption DEF TypeOK, OpenFails, RenameFails, Goes
<1>12. CASE Crash
  <2>1. call' \in [Messages -> [pc : Places, base : Entries, fd : Descriptors]]
    <3>1. ASSUME NEW m \in Messages
          PROVE  /\ call[m] \in [pc : Places, base : Entries, fd : Descriptors]
                 /\ [call[m] EXCEPT !.pc = "lost", !.fd = "none"]
                      \in [pc : Places, base : Entries, fd : Descriptors]
      BY DEF TypeOK
    <3> QED BY <1>12, <3>1 DEF Crash
  <2>2. faults' \in 0..MaxFaults
    <3>1. faults < MaxFaults /\ faults' = faults + 1
      BY <1>12 DEF Crash
    <3>2. faults \in 0..MaxFaults
      BY DEF TypeOK
    <3> QED BY <3>1, <3>2, BoundsAssumption
  <2> QED BY <1>12, <2>1, <2>2 DEF TypeOK, Crash
<1>13. CASE Edit
  <2>1. Refer(Replaced) \in [Messages -> [pc : Places, base : Entries, fd : Descriptors]]
    BY TablesTyped
  <2> QED BY <1>13, <2>1, EditsTyped, BoundsAssumption DEF TypeOK, Edit
<1> QED BY <1>1, <1>2, <1>3, <1>4, <1>5, <1>6, <1>7, <1>8, <1>9, <1>10, <1>11, <1>12, <1>13
        DEF Next

-----------------------------------------------------------------------------
(* Steps *)

\* What a quiet step of m does.
LEMMA QuietSteps ==
  ASSUME TypeOK, Undisturbed, NEW m \in Messages, QuietStep(m)
  PROVE  /\ UNCHANGED <<file, tmp, writable, clash, theirs>>
         /\ <<call[m].pc, call'[m].pc>> \in QuietMoves /\ call'[m].fd = call[m].fd
         /\ \A n \in Messages : n # m => call'[n] = call[n]
         /\ IF call'[m].pc = "write"
              THEN call'[m].base = Written /\ alone' = alone \cup {m}
              ELSE call'[m].base = call[m].base /\ alone' = alone
         /\ call[m].pc # "unsent" => before' = before
         /\ \A n \in Messages :
              n # m => before'[n] = before[n]
<1>1. CASE FindsNone(m)
  <2>1. Written = <<>>
    BY <1>1, ContentsAssumption DEF FindsNone, Written, Entries
  <2> QED BY <1>1, <2>1 DEF FindsNone, Goes, Undisturbed, TypeOK, QuietMoves
<1>2. CASE Read(m)
  <2>1. call' = [call EXCEPT ![m].pc = "write", ![m].base = Written]
    BY <1>2, ReadsWritten
  <2> QED BY <1>2, <2>1 DEF Read, TypeOK, QuietMoves
<1>3. CASE Send(m)
  BY <1>3 DEF Send, Goes, TypeOK, QuietMoves
<1>4. CASE \/ InspectFails(m) \/ Inspect(m) \/ ReadFails(m) \/ Answer(m)
  BY <1>4 DEF InspectFails, Inspect, ReadFails, Answer, Goes, TypeOK, QuietMoves
<1>5. CASE Blocked(m) \/ TooLarge(m) \/ OpenFails(m)
  BY <1>5 DEF Blocked, TooLarge, OpenFails, Goes, TypeOK, QuietMoves
<1>6. CASE RenameFindsNone(m) \/ RenameFails(m)
  BY <1>6 DEF RenameFindsNone, RenameFails, Goes, TypeOK, QuietMoves
<1> QED BY <1>1, <1>2, <1>3, <1>4, <1>5, <1>6 DEF QuietStep

\* What a crash does to the calls.
LEMMA CrashCalls ==
  ASSUME TypeOK, Crash
  PROVE  /\ UNCHANGED <<file, tmp, writable, before, alone, clash, theirs>>
         /\ \A n \in Messages :
              /\ call'[n].base = call[n].base
              /\ call'[n].pc = IF InFlight(n) THEN "lost" ELSE call[n].pc
              /\ call'[n].fd \in {"none", call[n].fd}
BY DEF Crash, TypeOK

\* What an edit does to the calls.
LEMMA EditCalls ==
  ASSUME TypeOK, Edit
  PROVE  \A n \in Messages :
           /\ call'[n].base = call[n].base /\ call'[n].pc = call[n].pc
           /\ call'[n].fd = Replaced[call[n].fd]
BY TablesTyped DEF Edit

\* What renaming and removing do to the calls.
LEMMA RenameCalls ==
  ASSUME TypeOK, NEW m \in Messages, Rename(m)
  PROVE  /\ call'[m].pc = "written"
         /\ \A n \in Messages :
              /\ call'[n].base = call[n].base /\ call'[n].fd = Renamed[call[n].fd]
              /\ n # m => call'[n].pc = call[n].pc
<1>1. Refer(Renamed) \in [Messages -> [pc : Places, base : Entries, fd : Descriptors]]
  BY TablesTyped
<1>2. \A n \in Messages :
        /\ Refer(Renamed)[n].pc = call[n].pc /\ Refer(Renamed)[n].base = call[n].base
        /\ Refer(Renamed)[n].fd = Renamed[call[n].fd]
  BY TablesTyped
<1>3. call' = [Refer(Renamed) EXCEPT ![m].pc = "written"]
  BY DEF Rename
<1> QED BY <1>1, <1>2, <1>3

LEMMA RemoveCalls ==
  ASSUME TypeOK, NEW m \in Messages, Remove(m)
  PROVE  /\ call'[m].pc = "refused"
         /\ \A n \in Messages :
              /\ call'[n].base = call[n].base /\ call'[n].fd = Removed[call[n].fd]
              /\ n # m => call'[n].pc = call[n].pc
<1>1. Refer(Removed) \in [Messages -> [pc : Places, base : Entries, fd : Descriptors]]
  BY TablesTyped
<1>2. \A n \in Messages :
        /\ Refer(Removed)[n].pc = call[n].pc /\ Refer(Removed)[n].base = call[n].base
        /\ Refer(Removed)[n].fd = Removed[call[n].fd]
  BY TablesTyped
<1>3. call' = [Refer(Removed) EXCEPT ![m].pc = "refused"]
  BY DEF Remove
<1> QED BY <1>1, <1>2, <1>3

\* What opening and filling do to the calls.
LEMMA OpenCalls ==
  ASSUME TypeOK, NEW m \in Messages, Open(m)
  PROVE  /\ call[m].pc = "write" /\ call'[m].pc = "fill" /\ call'[m].fd = "tmp"
         /\ call'[m].base = call[m].base
         /\ \A n \in Messages : n # m => call'[n] = call[n]
BY DEF Open, TypeOK

LEMMA FillCalls ==
  ASSUME TypeOK, NEW m \in Messages, Fill(m) \/ FillFails(m)
  PROVE  /\ call[m].pc = "fill" /\ call'[m].fd = "none" /\ call'[m].base = call[m].base
         /\ call'[m].pc = IF Fill(m) THEN "rename" ELSE "refused"
         /\ UNCHANGED <<writable, before, clash>>
         /\ \A n \in Messages : n # m => call'[n] = call[n]
<1>1. CASE Fill(m)
  BY <1>1 DEF Fill, TypeOK
<1>2. CASE ~Fill(m) /\ FillFails(m)
  BY <1>2 DEF FillFails, TypeOK
<1> QED BY <1>1, <1>2

\* A call writes to the file only through a descriptor that refers to it.
LEMMA FillFiles ==
  ASSUME TypeOK, NEW m \in Messages, Fill(m) \/ FillFails(m)
  PROVE  /\ alone' \subseteq alone
         /\ call[m].fd # "tmp" => tmp' = tmp
         /\ IF call[m].fd = "file" THEN alone' = {} /\ ~theirs'
                                   ELSE UNCHANGED <<file, alone, theirs>>
         /\ \E s \in Entries :
              /\ Len(s) <= Len(Text(m)) /\ (Fill(m) => s = Text(m))
              /\ call[m].fd = "tmp" => tmp' = Over(s, tmp)
              /\ call[m].fd = "file" => file' = Over(s, file)
<1>1. PICK s \in Entries : Len(s) <= Len(Text(m)) /\ (Fill(m) => s = Text(m)) /\ Puts(m, s)
  <2>1. CASE Fill(m)
    <3>1. Len(Text(m)) <= Len(Text(m))
      BY TextIs
    <3> QED BY <2>1, <3>1, TextIs DEF Fill
  <2>2. CASE ~Fill(m) /\ FillFails(m)
    <3>1. PICK k \in 0..Len(Text(m)) : Puts(m, SubSeq(Text(m), 1, k))
      BY <2>2 DEF FillFails
    <3> QED BY <2>2, <3>1, PartIs
  <2> QED BY <2>1, <2>2
<1> QED BY <1>1 DEF Puts

-----------------------------------------------------------------------------
(* In WriteFile alone *)

LEMMA InitInside == Init => InsideInv
BY DEF Init, InsideInv, Inside

LEMMA NextInside ==
  ASSUME TypeOK, Undisturbed, InsideInv, [Next]_vars
  PROVE  InsideInv'
<1>1. CASE UNCHANGED vars
  BY <1>1 DEF vars, InsideInv, Inside, TmpMine, Text
<1>2. ASSUME NEW m \in Messages, QuietStep(m) PROVE InsideInv'
  <2>1. /\ tmp' = tmp /\ clash' = clash
        /\ <<call[m].pc, call'[m].pc>> \in QuietMoves
        /\ \A n \in Messages : n # m => call'[n] = call[n]
    BY <1>2, QuietSteps
  <2>2. /\ Inside(m)' => Inside(m) /\ call'[m].pc = "remove"
        /\ \A n \in Messages : n # m => Inside(n)' = Inside(n)
    BY <2>1 DEF Inside, QuietMoves
  <2>3. \A n \in alone' : Inside(n)' => n \in alone
    <3>1. IF call'[m].pc = "write" THEN alone' = alone \cup {m} ELSE alone' = alone
      BY <1>2, QuietSteps
    <3> QED BY <3>1 DEF Inside
  <2>4. \A n \in Messages : n # m => TmpMine(n)' = TmpMine(n)
    BY <2>1 DEF TmpMine, Text
  <2> QED BY <2>1, <2>2, <2>3, <2>4 DEF InsideInv, TmpMine
<1>3. ASSUME NEW m \in Messages, Open(m) PROVE InsideInv'
  <2>1. /\ call[m].pc = "write" /\ call'[m].pc = "fill" /\ call'[m].fd = "tmp"
        /\ tmp' = Empty
        /\ \A n \in Messages : n # m => call'[n] = call[n]
    BY <1>3, OpenCalls DEF Open
  <2>2. \A n \in Messages : n # m => Inside(n)' = Inside(n)
    BY <2>1 DEF Inside
  <2>3. TmpMine(m)'
    BY <2>1 DEF TmpMine
  <2>4. CASE Others(m) = {}
    BY <2>2, <2>3, <2>4 DEF InsideInv, Others
  <2>5. CASE Others(m) # {}
    <3>1. clash' /\ alone' = alone \ (Others(m) \cup {m})
      BY <1>3, <2>5 DEF Open
    <3>2. \A n \in alone' : ~Inside(n)'
      BY <2>2, <3>1 DEF Others, TypeOK
    <3> QED BY <3>1, <3>2 DEF InsideInv
  <2> QED BY <2>4, <2>5
<1>4. ASSUME NEW m \in Messages, Fill(m) \/ FillFails(m) PROVE InsideInv'
  <2>1. /\ call[m].pc = "fill" /\ call'[m].base = call[m].base
        /\ call'[m].pc = IF Fill(m) THEN "rename" ELSE "refused"
        /\ clash' = clash /\ alone' \subseteq alone
        /\ \A n \in Messages : n # m => call'[n] = call[n]
    BY <1>4, FillCalls, FillFiles
  <2>2. Inside(m) /\ \A n \in Messages : Inside(n)' => Inside(n)
    BY <2>1 DEF Inside
  <2>3. ASSUME Inside(m)', m \in alone' \/ ~clash' PROVE TmpMine(m)'
    <3>1. Fill(m) /\ call'[m].pc = "rename"
      BY <2>1, <2>3 DEF Inside
    <3>2. call[m].fd = "tmp" /\ tmp = Empty
      BY <2>1, <2>2, <2>3 DEF InsideInv, TmpMine
    <3>3. tmp' = Over(Text(m), tmp)
      BY <3>1, <3>2 DEF Fill, Puts
    <3>4. tmp' = Text(m)
      BY <3>2, <3>3, TextIs, ContentsAssumption DEF Over, Entries
    <3>5. Text(m)' = Text(m)
      BY <2>1 DEF Text
    <3> QED BY <3>1, <3>4, <3>5 DEF TmpMine
  <2> QED BY <2>1, <2>2, <2>3 DEF InsideInv
<1>5. ASSUME NEW m \in Messages, Rename(m) \/ Remove(m) PROVE InsideInv'
  <2>1. /\ Inside(m) /\ ~Inside(m)' /\ clash' = clash /\ alone' \subseteq alone
        /\ \A n \in Messages : Inside(n)' => Inside(n)
    <3>1. CASE Rename(m)
      BY <3>1, RenameCalls DEF Rename, Inside
    <3>2. CASE Remove(m)
      BY <3>2, RemoveCalls DEF Remove, Inside
    <3> QED BY <1>5, <3>1, <3>2
  <2> QED BY <2>1 DEF InsideInv
<1>6. CASE Crash
  BY <1>6, CrashCalls DEF InsideInv, Inside, InFlight
<1>7. CASE Edit
  <2>1. \A n \in Messages :
          /\ call'[n].base = call[n].base /\ call'[n].pc = call[n].pc
          /\ call'[n].fd = Replaced[call[n].fd]
    BY <1>7, EditCalls
  <2>2. tmp' = tmp /\ clash' = clash /\ alone' = {}
    BY <1>7 DEF Edit
  <2> QED BY <2>1, <2>2 DEF InsideInv, Inside, TmpMine, Text, Replaced
<1> QED BY <1>1, <1>2, <1>3, <1>4, <1>5, <1>6, <1>7 DEF Next, QuietStep

LEMMA InitUndisturbed == Init => Undisturbed
BY DEF Init, Undisturbed

LEMMA NextUndisturbed ==
  ASSUME TypeOK, Undisturbed, InsideInv, [Next]_vars
  PROVE  Undisturbed'
<1>1. CASE UNCHANGED vars
  BY <1>1 DEF vars, Undisturbed, Written
<1>2. ASSUME NEW m \in Messages, QuietStep(m) PROVE Undisturbed'
  <2>1. /\ file' = file
        /\ <<call[m].pc, call'[m].pc>> \in QuietMoves
        /\ \A n \in Messages : n # m => call'[n] = call[n]
        /\ IF call'[m].pc = "write"
             THEN call'[m].base = Written /\ alone' = alone \cup {m}
             ELSE call'[m].base = call[m].base /\ alone' = alone
    BY <1>2, QuietSteps
  <2>2. Written' = Written
    BY <2>1 DEF Written
  <2>3. /\ call'[m].pc \in {"unsent", "inspect", "read"} =>
             call[m].pc \in {"unsent", "inspect", "read"} /\ call'[m].pc # "write"
        /\ call'[m].pc \notin {"fill", "rename"}
    BY <2>1 DEF QuietMoves
  <2> QED BY <2>1, <2>2, <2>3 DEF Undisturbed, TypeOK
<1>3. ASSUME NEW m \in Messages, Open(m) PROVE Undisturbed'
  <2>1. file' = file /\ alone' \subseteq alone
    BY <1>3 DEF Open
  <2>2. Written' = Written
    BY <2>1 DEF Written
  <2> QED BY <1>3, <2>1, <2>2, OpenCalls DEF Undisturbed, TypeOK
<1>4. ASSUME NEW m \in Messages, Fill(m) \/ FillFails(m) PROVE Undisturbed'
  <2>1. /\ call[m].pc = "fill" /\ call'[m].base = call[m].base
        /\ call'[m].pc \in {"rename", "refused"}
        /\ \A n \in Messages : n # m => call'[n] = call[n]
    BY <1>4, FillCalls
  <2>2. alone' = {} \/ (Written' = Written /\ alone' = alone)
    BY <1>4, FillFiles DEF Written
  <2> QED BY <2>1, <2>2 DEF Undisturbed, TypeOK
<1>5. ASSUME NEW m \in Messages, Rename(m) PROVE Undisturbed'
  <2>1. alone' = {}
    BY <1>5 DEF Rename
  <2> QED BY <1>5, <2>1, RenameCalls DEF Undisturbed
<1>6. ASSUME NEW m \in Messages, Remove(m) PROVE Undisturbed'
  <2>1. alone' = alone /\ Written' = Written
    BY <1>6 DEF Remove, Written
  <2> QED BY <1>6, <2>1, RemoveCalls DEF Undisturbed, TypeOK
<1>7. CASE Crash
  BY <1>7, CrashCalls DEF Undisturbed, Written, TypeOK
<1>8. CASE Edit
  <2>1. alone' = {}
    BY <1>8 DEF Edit
  <2> QED BY <1>8, <2>1, EditCalls DEF Undisturbed
<1> QED BY <1>1, <1>2, <1>3, <1>4, <1>5, <1>6, <1>7, <1>8 DEF Next, QuietStep

-----------------------------------------------------------------------------
(* The limit *)

LEMMA InitSize == Init => SizeInv /\ FilledInv
<1> SUFFICES ASSUME Init PROVE SizeInv /\ FilledInv
  OBVIOUS
<1>1. Fits(tmp)
  BY ContentsAssumption DEF Init, Fits, Entries
<1>2. \A m \in Messages : call[m].pc = "unsent" /\ call[m].fd = "none"
  BY DEF Init
<1> QED BY <1>1, <1>2 DEF Init, SizeInv, FilledInv

LEMMA NextSize ==
  ASSUME TypeOK, Undisturbed, SizeInv, [Next]_vars
  PROVE  SizeInv'
<1>1. CASE UNCHANGED vars
  BY <1>1 DEF vars, SizeInv, Fits, Text
<1>2. ASSUME NEW m \in Messages, QuietStep(m) PROVE SizeInv'
  <2>1. /\ UNCHANGED <<file, tmp, theirs>>
        /\ <<call[m].pc, call'[m].pc>> \in QuietMoves /\ call'[m].fd = call[m].fd
        /\ \A n \in Messages : n # m => call'[n] = call[n]
    BY <1>2, QuietSteps
  <2>2. call'[m].pc # "fill"
    BY <2>1 DEF QuietMoves
  <2> QED BY <2>1, <2>2 DEF SizeInv, Fits, Text
<1>3. ASSUME NEW m \in Messages, Open(m) PROVE SizeInv'
  <2>1. Len(Text(m)) <= MaxEntries /\ tmp' = Empty /\ UNCHANGED <<file, theirs>>
    BY <1>3 DEF Open
  <2>2. Fits(tmp)'
    BY <2>1, ContentsAssumption DEF Fits, Entries
  <2>3. /\ Text(m)' = Text(m) /\ call'[m].fd = "tmp"
        /\ \A n \in Messages : n # m => call'[n] = call[n]
    BY <1>3, OpenCalls DEF Text
  <2> QED BY <2>1, <2>2, <2>3 DEF SizeInv, Fits, Text
<1>4. ASSUME NEW m \in Messages, Fill(m) \/ FillFails(m) PROVE SizeInv'
  <2>1. /\ call[m].pc = "fill" /\ call'[m].fd = "none"
        /\ call'[m].pc \in {"rename", "refused"}
        /\ \A n \in Messages : n # m => call'[n] = call[n]
    BY <1>4, FillCalls
  <2>2. PICK s \in Entries :
          /\ Len(s) <= Len(Text(m))
          /\ call[m].fd = "tmp" => tmp' = Over(s, tmp)
          /\ call[m].fd = "file" => file' = Over(s, file)
    BY <1>4, FillFiles
  <2>3. Len(s) <= MaxEntries
    <3>1. Len(s) \in Nat /\ Len(Text(m)) \in Nat
      BY TextIs DEF Entries
    <3> QED BY <2>1, <2>2, <3>1, BoundsAssumption DEF SizeInv
  <2>4. Fits(tmp)'
    <3>1. tmp' = tmp \/ tmp' = Over(s, tmp)
      BY <1>4, <2>2, FillFiles
    <3>2. Fits(tmp) /\ Fits(Over(s, tmp))
      BY <2>3, OverIs DEF SizeInv, TypeOK
    <3> QED BY <3>1, <3>2 DEF Fits
  <2>5. theirs' \/ Fits(file)'
    <3>1. CASE call[m].fd = "file"
      <4>1. Fits(file)
        BY <3>1 DEF SizeInv
      <4>2. Fits(Over(s, file))
        BY <2>3, <4>1, OverIs DEF TypeOK
      <4> QED BY <2>2, <3>1, <4>2 DEF Fits
    <3>2. CASE call[m].fd # "file"
      BY <1>4, <3>2, FillFiles DEF SizeInv, Fits
    <3> QED BY <3>1, <3>2
  <2>6. theirs' => theirs
    BY <1>4, FillFiles
  <2> QED BY <2>1, <2>4, <2>5, <2>6 DEF SizeInv, Text
<1>5. ASSUME NEW m \in Messages, Rename(m) PROVE SizeInv'
  <2>1. file' = tmp /\ tmp' = Missing /\ ~theirs'
    BY <1>5 DEF Rename
  <2>2. Fits(tmp)'
    BY <2>1, ContentsAssumption DEF Fits, Entries
  <2>3. Fits(file)'
    BY <2>1 DEF SizeInv, Fits
  <2>4. \A n \in Messages : call'[n].pc = "fill" => call[n].pc = "fill" /\ Text(n)' = Text(n)
    BY <1>5, RenameCalls DEF Text
  <2> QED BY <2>1, <2>2, <2>3, <2>4 DEF SizeInv
<1>6. ASSUME NEW m \in Messages, Remove(m) PROVE SizeInv'
  <2>1. tmp' = Missing /\ UNCHANGED <<file, theirs>>
    BY <1>6 DEF Remove
  <2>2. Fits(tmp)'
    BY <2>1, ContentsAssumption DEF Fits, Entries
  <2>3. \A n \in Messages :
          /\ call'[n].pc = "fill" => call[n].pc = "fill" /\ Text(n)' = Text(n)
          /\ call'[n].fd = "file" => call[n].fd = "file"
    <3>1. ASSUME NEW d \in Descriptors, Removed[d] = "file" PROVE d = "file"
      BY <3>1 DEF Descriptors, Removed
    <3>2. \A n \in Messages : call[n].fd \in Descriptors
      BY DEF TypeOK
    <3>3. \A n \in Messages :
            /\ call'[n].base = call[n].base /\ call'[n].fd = Removed[call[n].fd]
            /\ call'[n].pc = "fill" => call[n].pc = "fill"
      BY <1>6, RemoveCalls
    <3> QED BY <3>1, <3>2, <3>3 DEF Text
  <2> QED BY <2>1, <2>2, <2>3 DEF SizeInv, Fits
<1>7. CASE Crash
  <2>1. \A n \in Messages :
          /\ call'[n].pc = "fill" => call[n].pc = "fill" /\ Text(n)' = Text(n)
          /\ call'[n].fd = "file" => call[n].fd = "file"
    BY <1>7, CrashCalls DEF Text
  <2> QED BY <1>7, <2>1, CrashCalls DEF SizeInv, Fits
<1>8. CASE Edit
  <2>1. tmp' = tmp /\ theirs'
    BY <1>8 DEF Edit
  <2>2. \A n \in Messages :
          /\ call'[n].pc = "fill" => call[n].pc = "fill" /\ Text(n)' = Text(n)
          /\ call'[n].fd # "file"
    BY <1>8, EditCalls DEF Text, Replaced, TypeOK, Descriptors
  <2> QED BY <2>1, <2>2 DEF SizeInv, Fits
<1> QED BY <1>1, <1>2, <1>3, <1>4, <1>5, <1>6, <1>7, <1>8 DEF Next, QuietStep

\* What a call renames without a clash is its text.
LEMMA NextFilled ==
  ASSUME TypeOK, Undisturbed, InsideInv, FilledInv, [Next]_vars
  PROVE  FilledInv'
<1>1. CASE UNCHANGED vars
  BY <1>1 DEF vars, FilledInv
<1>2. ASSUME NEW m \in Messages, QuietStep(m) PROVE FilledInv'
  BY <1>2, QuietSteps DEF FilledInv
<1>3. ASSUME NEW m \in Messages, Open(m) PROVE FilledInv'
  BY <1>3 DEF Open, FilledInv
<1>4. ASSUME NEW m \in Messages, Fill(m) \/ FillFails(m) PROVE FilledInv'
  <2>1. call[m].fd = "file" => clash
    BY <1>4, FillCalls DEF InsideInv, Inside, TmpMine
  <2> QED BY <1>4, <2>1, FillCalls, FillFiles DEF FilledInv
<1>5. ASSUME NEW m \in Messages, Rename(m) PROVE FilledInv'
  <2>1. ~clash => tmp = Text(m)
    BY <1>5 DEF Rename, InsideInv, Inside, TmpMine
  <2> QED BY <1>5, <2>1, TextIs DEF Rename, FilledInv
<1>6. ASSUME NEW m \in Messages, Remove(m) PROVE FilledInv'
  BY <1>6 DEF Remove, FilledInv
<1>7. CASE Crash
  BY <1>7 DEF Crash, FilledInv
<1>8. CASE Edit
  BY <1>8 DEF Edit, FilledInv
<1> QED BY <1>1, <1>2, <1>3, <1>4, <1>5, <1>6, <1>7, <1>8 DEF Next, QuietStep

LEMMA SizesFit == SizeInv /\ FilledInv => StaysReadable
<1> SUFFICES ASSUME SizeInv, FilledInv, Unreadable, ~theirs PROVE clash /\ file = Empty
  BY DEF StaysReadable
<1>1. file = Empty
  <2>1. CASE file \in Entries /\ Len(file) > MaxEntries
    <3>1. Len(file) \in Nat /\ Len(file) <= MaxEntries
      BY <2>1 DEF SizeInv, Fits, Entries
    <3> QED BY <2>1, <3>1, BoundsAssumption
  <2> QED BY <2>1 DEF Unreadable
<1> QED BY <1>1 DEF FilledInv

-----------------------------------------------------------------------------
(* Order *)

\* What somebody else wrote holds no message of a call.
LEMMA EditsForeign ==
  ASSUME NEW s \in Edits, s \in Entries, NEW i \in DOMAIN s
  PROVE  s[i] \notin Messages
<1>1. s \in Seq({Foreign})
  BY EditsAssumption, ContentsAssumption DEF Entries
<1> QED BY <1>1, ContentsAssumption

LEMMA EditsInOrder ==
  /\ file \in Edits => Sent(Written) /\ Ordered(Written)
  /\ file' \in Edits => Sent(Written)' /\ Ordered(Written)'
BY EditsForeign DEF Written, Sent, Ordered, Entries

LEMMA InitOrder == Init => OrderInv
<1> SUFFICES ASSUME Init PROVE OrderInv
  OBVIOUS
<1>1. StillAnswered
  BY DEF Init, StillAnswered
<1>2. Sent(Written) /\ Ordered(Written)
  BY EditsInOrder DEF Init
<1>3. \A m \in Messages : Sent(call[m].base) /\ Ordered(call[m].base)
  <2>1. \A m \in Messages : call[m].base = <<>>
    BY DEF Init
  <2>2. Sent(<<>>) /\ Ordered(<<>>)
    BY DEF Sent, Ordered
  <2> QED BY <2>1, <2>2
<1> QED BY <1>1, <1>2, <1>3 DEF OrderInv

\* A step that keeps the calls past their write there, and what had been
\* answered when they were sent, keeps the order of what is not touched.
LEMMA OrderKept ==
  ASSUME NEW s, Sent(s), Ordered(s),
         \A n \in Messages : call[n].pc \in Past =>
           call'[n].pc \in Past /\ before'[n] = before[n]
  PROVE  /\ \A i \in DOMAIN s : s[i] \in Messages => call'[s[i]].pc \in Past
         /\ \A i, j \in DOMAIN s :
              i < j /\ {s[i], s[j]} \subseteq Messages =>
                s[i] # s[j] /\ s[j] \notin before'[s[i]]
BY DEF Sent, Ordered

\* A step that leaves the file alone and lets calls take over what is in it.
LEMMA QuietOrder ==
  ASSUME OrderInv, ~clash, file' = file, StillAnswered',
         \A n \in Messages :
           /\ call'[n].base \in {call[n].base, Written}
           /\ call[n].pc \in Past => call'[n].pc \in Past /\ before'[n] = before[n]
  PROVE  OrderInv'
<1>1. Written' = Written
  BY DEF Written
<1>2. Sent(Written)' /\ Ordered(Written)'
  <2>1. Sent(Written) /\ Ordered(Written)
    BY DEF OrderInv
  <2> QED BY <1>1, <2>1, OrderKept DEF Sent, Ordered
<1>3. ASSUME NEW m \in Messages PROVE Sent(call[m].base)' /\ Ordered(call[m].base)'
  <2>1. PICK s : s = call'[m].base
    OBVIOUS
  <2>2. Sent(s) /\ Ordered(s)
    BY <2>1 DEF OrderInv
  <2> QED BY <2>1, <2>2, OrderKept DEF Sent, Ordered
<1> QED BY <1>2, <1>3 DEF OrderInv

\* A message that is added at the end is new, and had not been answered when
\* any other was sent.
LEMMA RenameOrder ==
  ASSUME TypeOK, InsideInv, OrderInv, ~clash, NEW m \in Messages, Rename(m)
  PROVE  OrderInv'
<1> DEFINE s == call[m].base
<1>1. /\ call[m].pc = "rename" /\ file' = Append(s, m) /\ before' = before
  <2>1. call[m].pc = "rename" /\ file' = tmp /\ before' = before
    BY DEF Rename
  <2>2. tmp = Text(m)
    BY <2>1 DEF InsideInv, Inside, TmpMine
  <2> QED BY <2>1, <2>2 DEF Text
<1>2. s \in Seq(Messages \cup {Foreign}) /\ Len(s) \in Nat
  BY DEF TypeOK, Entries
<1>3. /\ call'[m].pc = "written" /\ call'[m].base = s
      /\ \A n \in Messages : call'[n].base = call[n].base
      /\ \A n \in Messages : n # m => call'[n].pc = call[n].pc
  BY RenameCalls
<1>4. StillAnswered'
  BY <1>1, <1>3 DEF OrderInv, StillAnswered
<1>5. \A n \in Messages : call[n].pc \in Past => call'[n].pc \in Past /\ before'[n] = before[n]
  BY <1>1, <1>3 DEF Past
<1>6. Sent(s) /\ Ordered(s)
  BY DEF OrderInv
<1>7. \A n \in Messages : m \notin before[n]
  BY <1>1 DEF OrderInv, StillAnswered
<1>8. \A i \in DOMAIN s : s[i] # m
  BY <1>1, <1>6 DEF Sent, Past
<1>9. Written' = Append(s, m)
  BY <1>1, <1>2 DEF Written, Entries
<1> HIDE DEF s
<1>10. /\ DOMAIN Append(s, m) = 1..(Len(s) + 1) /\ DOMAIN s = 1..Len(s)
       /\ Append(s, m)[Len(s) + 1] = m
       /\ \A i \in DOMAIN s : Append(s, m)[i] = s[i]
  BY <1>2
<1>11. Sent(Written)'
  <2> SUFFICES ASSUME NEW i \in DOMAIN Append(s, m), Append(s, m)[i] \in Messages
               PROVE  call'[Append(s, m)[i]].pc \in Past
    BY <1>9 DEF Sent
  <2>1. CASE i = Len(s) + 1
    BY <1>3, <1>10, <2>1 DEF Past
  <2>2. CASE i \in DOMAIN s
    BY <1>5, <1>6, <1>10, <2>2 DEF Sent
  <2> QED BY <1>2, <1>10, <2>1, <2>2
<1>12. Ordered(Written)'
  <2> SUFFICES ASSUME NEW i \in DOMAIN Append(s, m), NEW j \in DOMAIN Append(s, m), i < j,
                      Append(s, m)[i] \in Messages, Append(s, m)[j] \in Messages
               PROVE  /\ Append(s, m)[i] # Append(s, m)[j]
                      /\ Append(s, m)[j] \notin before[Append(s, m)[i]]
    BY <1>1, <1>9 DEF Ordered
  <2>1. i \in DOMAIN s
    BY <1>2, <1>10
  <2>2. CASE j = Len(s) + 1
    BY <1>7, <1>8, <1>10, <2>1, <2>2
  <2>3. CASE j \in DOMAIN s
    BY <1>6, <1>10, <2>1, <2>3 DEF Ordered
  <2> QED BY <1>2, <1>10, <2>2, <2>3
<1>13. ASSUME NEW n \in Messages PROVE Sent(call[n].base)' /\ Ordered(call[n].base)'
  <2>1. PICK b : b = call[n].base
    OBVIOUS
  <2>2. Sent(b) /\ Ordered(b) /\ call'[n].base = b
    BY <1>3, <2>1 DEF OrderInv
  <2> QED BY <1>5, <2>2, OrderKept DEF Sent, Ordered
<1> QED BY <1>4, <1>11, <1>12, <1>13 DEF OrderInv

LEMMA NextOrder ==
  ASSUME TypeOK, Undisturbed, InsideInv, OrderInv, [Next]_vars
  PROVE  OrderInv'
<1> DEFINE Quiet ==
      /\ file' = file /\ StillAnswered'
      /\ \A n \in Messages :
           /\ call'[n].base \in {call[n].base, Written}
           /\ call[n].pc \in Past => call'[n].pc \in Past /\ before'[n] = before[n]
<1> SUFFICES ASSUME ~clash' PROVE OrderInv'
  BY DEF OrderInv
<1>0. ~clash
  BY DEF Next, vars, Send, FindsNone, InspectFails, Inspect, Read, ReadFails, Blocked,
         TooLarge, Open, Fill, Rename, RenameFindsNone, Remove, Answer, OpenFails,
         FillFails, RenameFails, Crash, Edit
<1>1. Quiet => OrderInv'
  BY <1>0, QuietOrder
<1>2. CASE UNCHANGED vars
  <2>1. Quiet
    BY <1>0, <1>2 DEF vars, OrderInv, StillAnswered
  <2> QED BY <1>1, <2>1
<1>3. ASSUME NEW m \in Messages, Send(m) PROVE OrderInv'
  <2>1. /\ call[m].pc = "unsent" /\ file' = file
        /\ before' = [before EXCEPT ![m] = {n \in Messages : call[n].pc = "answered"}]
        /\ call'[m] = [call[m] EXCEPT !.pc = "inspect"]
        /\ \A n \in Messages : n # m => call'[n] = call[n]
    BY <1>3 DEF Send, Goes, TypeOK
  <2>2. /\ before'[m] = {n \in Messages : call[n].pc = "answered"}
        /\ \A n \in Messages : n # m => before'[n] = before[n]
    BY <2>1 DEF TypeOK
  <2>3. StillAnswered'
    BY <1>0, <2>1, <2>2 DEF OrderInv, StillAnswered
  <2>4. Quiet
    BY <2>1, <2>2, <2>3 DEF TypeOK, Past
  <2> QED BY <1>1, <2>4
<1>4. ASSUME NEW m \in Messages, QuietStep(m), ~Send(m) PROVE OrderInv'
  <2>1. /\ <<call[m].pc, call'[m].pc>> \in QuietMoves /\ file' = file
        /\ \A n \in Messages : n # m => call'[n] = call[n]
        /\ call'[m].base \in {call[m].base, Written}
    BY <1>4, QuietSteps
  <2>2. before' = before
    BY <1>4 DEF QuietStep, FindsNone, InspectFails, Inspect, Read, ReadFails, Blocked,
                TooLarge, RenameFindsNone, Answer, OpenFails, RenameFails
  <2>3. /\ call[m].pc # "answered"
        /\ call[m].pc \in Past => call'[m].pc \in Past
    BY <2>1 DEF QuietMoves, Past
  <2>4. StillAnswered'
    BY <1>0, <2>1, <2>2, <2>3 DEF OrderInv, StillAnswered
  <2>5. Quiet
    BY <2>1, <2>2, <2>3, <2>4
  <2> QED BY <1>1, <2>5
<1>5. ASSUME NEW m \in Messages, Open(m) \/ Fill(m) \/ FillFails(m) \/ Remove(m)
      PROVE  OrderInv'
  <2>1. /\ call[m].pc \in {"write", "fill", "remove"} /\ before' = before
        /\ \A n \in Messages :
             /\ call'[n].base = call[n].base
             /\ n # m => call'[n].pc = call[n].pc
    <3>1. CASE Open(m)
      BY <3>1, OpenCalls DEF Open
    <3>2. CASE Fill(m) \/ FillFails(m)
      BY <3>2, FillCalls
    <3>3. CASE Remove(m)
      BY <3>3, RemoveCalls DEF Remove
    <3> QED BY <1>5, <3>1, <3>2, <3>3
  <2>2. file' = file
    <3>1. CASE Open(m) \/ Remove(m)
      BY <3>1 DEF Open, Remove
    <3>2. CASE Fill(m) \/ FillFails(m)
      <4>1. call[m].pc = "fill"
        BY <3>2, FillCalls
      <4>2. call[m].fd = "tmp"
        BY <1>0, <4>1 DEF InsideInv, Inside, TmpMine
      <4> QED BY <3>2, <4>2, FillFiles
    <3> QED BY <1>5, <3>1, <3>2
  <2>3. StillAnswered'
    BY <1>0, <2>1 DEF OrderInv, StillAnswered
  <2>4. Quiet
    BY <2>1, <2>2, <2>3 DEF Past
  <2> QED BY <1>1, <2>4
<1>6. ASSUME NEW m \in Messages, Rename(m) PROVE OrderInv'
  BY <1>0, <1>6, RenameOrder
<1>7. CASE Crash
  <2>1. StillAnswered'
    BY <1>0, <1>7, CrashCalls DEF OrderInv, StillAnswered, InFlight
  <2>2. Quiet
    BY <1>7, <2>1, CrashCalls DEF Past
  <2> QED BY <1>1, <2>2
<1>8. CASE Edit
  <2>1. /\ before' = before /\ file' \in Edits
        /\ \A n \in Messages : call'[n].base = call[n].base /\ call'[n].pc = call[n].pc
    BY <1>8, EditCalls DEF Edit
  <2>2. Sent(Written)' /\ Ordered(Written)'
    BY <2>1, EditsInOrder
  <2>3. ASSUME NEW m \in Messages PROVE Sent(call[m].base)' /\ Ordered(call[m].base)'
    <3>1. PICK b : b = call[m].base
      OBVIOUS
    <3>2. Sent(b) /\ Ordered(b) /\ call'[m].base = b
      BY <1>0, <2>1, <3>1 DEF OrderInv
    <3> QED BY <2>1, <3>2, OrderKept DEF Sent, Ordered
  <2>4. StillAnswered'
    BY <1>0, <2>1 DEF OrderInv, StillAnswered
  <2> QED BY <2>2, <2>3, <2>4 DEF OrderInv
<1> QED BY <1>2, <1>3, <1>4, <1>5, <1>6, <1>7, <1>8 DEF Next, QuietStep

-----------------------------------------------------------------------------
(* Calls that nobody disturbs *)

\* What takes a call out of WriteFile, or past its last step, is a step of its own.
LEMMA OwnStep ==
  ASSUME TypeOK, Undisturbed, [Next]_vars, NEW m \in Messages, call'[m].pc # call[m].pc,
         call'[m].pc # "lost"
  PROVE  QuietStep(m) \/ Open(m) \/ Fill(m) \/ FillFails(m) \/ Rename(m) \/ Remove(m)
<1>1. ~UNCHANGED vars
  BY DEF vars
<1>2. ~Crash
  BY CrashCalls
<1>3. ~Edit
  BY EditCalls
<1>4. ASSUME NEW n \in Messages, n # m,
             QuietStep(n) \/ Open(n) \/ Fill(n) \/ FillFails(n) \/ Rename(n) \/ Remove(n)
      PROVE  FALSE
  <2>1. CASE QuietStep(n)
    BY <1>4, <2>1, QuietSteps
  <2>2. CASE Open(n)
    BY <1>4, <2>2, OpenCalls
  <2>3. CASE Fill(n) \/ FillFails(n)
    BY <1>4, <2>3, FillCalls
  <2>4. CASE Rename(n)
    BY <1>4, <2>4, RenameCalls
  <2>5. CASE Remove(n)
    BY <1>4, <2>5, RemoveCalls
  <2> QED BY <1>4, <2>1, <2>2, <2>3, <2>4, <2>5
<1>5. PICK n \in Messages :
        QuietStep(n) \/ Open(n) \/ Fill(n) \/ FillFails(n) \/ Rename(n) \/ Remove(n)
  BY <1>1, <1>2, <1>3 DEF Next, QuietStep
<1> QED BY <1>4, <1>5

LEMMA NextAppends ==
  ASSUME TypeOK, Undisturbed, InsideInv, [Next]_vars, NEW m \in alone,
         call[m].pc = "rename", call'[m].pc = "written"
  PROVE  file' = Append(Written, m)
<1>1. m \in Messages /\ call[m].base = Written /\ tmp = Text(m)
  BY DEF TypeOK, Undisturbed, InsideInv, Inside, TmpMine
<1>2. ~QuietStep(m)
  BY <1>1, QuietSteps DEF QuietMoves
<1>3. ~Open(m) /\ ~Fill(m) /\ ~FillFails(m) /\ ~Remove(m)
  BY <1>1, OpenCalls, FillCalls DEF Remove
<1>4. Rename(m)
  BY <1>1, <1>2, <1>3, OwnStep
<1> QED BY <1>1, <1>4 DEF Rename, Text

LEMMA NextRefuses ==
  ASSUME TypeOK, Undisturbed, InsideInv, [Next]_vars, NEW m \in alone,
         call[m].pc \in {"write", "fill", "rename"}, call'[m].pc \in {"refused", "remove"}
  PROVE  Len(Written) >= MaxEntries \/ ~writable \/ faults' > faults
<1>1. /\ m \in Messages /\ call[m].base = Written /\ faults \in Nat
      /\ call[m].pc = "rename" => tmp = Text(m)
  BY BoundsAssumption DEF TypeOK, Undisturbed, InsideInv, Inside, TmpMine
<1>2. ~Open(m) /\ ~Fill(m) /\ ~Rename(m) /\ ~Remove(m)
  BY <1>1, OpenCalls, FillCalls, RenameCalls DEF Remove
<1>3. QuietStep(m) \/ FillFails(m)
  BY <1>1, <1>2, OwnStep
<1>4. CASE FillFails(m) \/ OpenFails(m) \/ RenameFails(m)
  BY <1>1, <1>4 DEF FillFails, OpenFails, RenameFails
<1>5. CASE TooLarge(m)
  <2>1. Len(Text(m)) = Len(Written) + 1 /\ Len(Written) \in Nat
    BY <1>1, TextIs
  <2> QED BY <1>5, <2>1, BoundsAssumption DEF TooLarge
<1>6. CASE Blocked(m)
  BY <1>6 DEF Blocked
<1>7. CASE RenameFindsNone(m)
  BY <1>1, <1>7, TextIs DEF RenameFindsNone
<1>8. CASE \/ Send(m) \/ FindsNone(m) \/ InspectFails(m) \/ Inspect(m) \/ Read(m)
           \/ ReadFails(m) \/ Answer(m)
  BY <1>8 DEF Send, FindsNone, InspectFails, Inspect, Read, ReadFails, Answer
<1> QED BY <1>3, <1>4, <1>5, <1>6, <1>7, <1>8 DEF QuietStep

-----------------------------------------------------------------------------
(* One writer at a time *)

\* Has read and not yet written.
Writing(m) == call[m].pc \in {"write", "fill", "rename", "remove"}

\* Of the calls that have read, one at a time is still to write.
OneWriting == \A m, n \in Messages : Writing(m) /\ Writing(n) => m = n

\* All that was written is there, and nobody disturbs who is about to write.
KeepsWritten ==
  /\ \A m \in Messages : call[m].pc \in {"write", "fill", "rename"} => m \in alone
  /\ \A m \in Messages :
       call[m].pc \in {"written", "answered"} => \E i \in DOMAIN Written : Written[i] = m

LEMMA NextKeeps ==
  ASSUME TypeOK, Undisturbed, InsideInv, KeepsWritten, OneWriting, [Next]_vars, [~Edit]_vars
  PROVE  KeepsWritten'
<1>1. CASE UNCHANGED vars
  BY <1>1 DEF vars, KeepsWritten, Written
<1>2. CASE Crash
  <2>1. \A n \in Messages : call'[n].pc = IF InFlight(n) THEN "lost" ELSE call[n].pc
    BY <1>2, CrashCalls
  <2>2. file' = file /\ alone' = alone
    BY <1>2, CrashCalls
  <2> QED BY <2>1, <2>2 DEF KeepsWritten, InFlight, Written
<1>3. ASSUME NEW m \in Messages, Rename(m) PROVE KeepsWritten'
  <2>1. call[m].pc = "rename" /\ file' = Append(Written, m)
    <3>1. call[m].pc = "rename" /\ file' = tmp
      BY <1>3 DEF Rename
    <3>2. m \in alone
      BY <3>1 DEF KeepsWritten
    <3>3. call[m].base = Written /\ tmp = Text(m)
      BY <3>1, <3>2 DEF Undisturbed, InsideInv, Inside, TmpMine
    <3> QED BY <3>1, <3>3 DEF Text
  <2>2. Written \in Seq(Messages \cup {Foreign})
    BY DEF Written, Entries, TypeOK
  <2>3. Written' = Append(Written, m)
    BY <2>1, <2>2 DEF Written, Entries
  <2>4. /\ Len(Written) + 1 \in DOMAIN Written' /\ Written'[Len(Written) + 1] = m
        /\ \A i \in DOMAIN Written : i \in DOMAIN Written' /\ Written'[i] = Written[i]
    BY <2>2, <2>3
  <2>5. ASSUME NEW n \in Messages, call'[n].pc \in {"written", "answered"}
        PROVE  \E i \in DOMAIN Written' : Written'[i] = n
    <3>1. CASE n = m
      BY <2>4, <3>1
    <3>2. CASE n # m
      <4>1. PICK i \in DOMAIN Written : Written[i] = n
        BY <1>3, <2>5, <3>2, RenameCalls DEF KeepsWritten
      <4> QED BY <2>4, <4>1
    <3> QED BY <3>1, <3>2
  <2>6. \A n \in Messages : call'[n].pc \notin {"write", "fill", "rename"}
    BY <1>3, <2>1, RenameCalls DEF OneWriting, Writing
  <2> QED BY <2>5, <2>6 DEF KeepsWritten
<1>4. ASSUME NEW m \in Messages, QuietStep(m) PROVE KeepsWritten'
  <2>1. /\ file' = file
        /\ <<call[m].pc, call'[m].pc>> \in QuietMoves
        /\ \A n \in Messages : n # m => call'[n] = call[n]
        /\ IF call'[m].pc = "write" THEN alone' = alone \cup {m} ELSE alone' = alone
    BY <1>4, QuietSteps
  <2>2. /\ call'[m].pc \notin {"fill", "rename", "written"}
        /\ call'[m].pc = "answered" => call[m].pc = "written"
    BY <2>1 DEF QuietMoves
  <2> QED BY <2>1, <2>2 DEF KeepsWritten, Written
<1>5. ASSUME NEW m \in Messages, Open(m) PROVE KeepsWritten'
  <2>1. Others(m) = {}
    BY <1>5, OpenCalls DEF Others, Inside, OneWriting, Writing
  <2>2. file' = file /\ alone' = alone
    BY <1>5, <2>1 DEF Open
  <2> QED BY <1>5, <2>2, OpenCalls DEF KeepsWritten, Written
<1>6. ASSUME NEW m \in Messages, Fill(m) \/ FillFails(m) PROVE KeepsWritten'
  <2>1. /\ call[m].pc = "fill" /\ call'[m].pc \in {"rename", "refused"}
        /\ \A n \in Messages : n # m => call'[n] = call[n]
    BY <1>6, FillCalls
  <2>2. call[m].fd = "tmp"
    BY <2>1 DEF KeepsWritten, InsideInv, Inside, TmpMine
  <2>3. file' = file /\ alone' = alone
    BY <1>6, <2>2, FillFiles
  <2> QED BY <2>1, <2>3 DEF KeepsWritten, Written
<1>7. ASSUME NEW m \in Messages, Remove(m) PROVE KeepsWritten'
  <2>1. file' = file /\ alone' = alone
    BY <1>7 DEF Remove
  <2> QED BY <1>7, <2>1, RemoveCalls DEF KeepsWritten, Written
<1>8. CASE Edit
  BY <1>1, <1>8
<1> QED BY <1>1, <1>2, <1>3, <1>4, <1>5, <1>6, <1>7, <1>8 DEF Next, QuietStep

-----------------------------------------------------------------------------
(* Theorems *)

\* Every call is at one of its places, holds a sequence of entries and a
\* descriptor (the steps of handleAppendFromGPTMessage and WriteFile).
THEOREM MailboxType == Spec => []TypeOK
BY InitType, NextType, PTL DEF Spec

LEMMA AlwaysInside == Spec => [](InsideInv /\ Undisturbed)
<1>1. TypeOK /\ Undisturbed /\ InsideInv /\ [Next]_vars => InsideInv'
  BY NextInside
<1>2. TypeOK /\ Undisturbed /\ InsideInv /\ [Next]_vars => Undisturbed'
  BY NextUndisturbed
<1> QED BY <1>1, <1>2, InitInside, InitUndisturbed, MailboxType, PTL DEF Spec

\* However calls share the temporary file, fail and die, and whatever others put
\* in its place, the server never leaves a file over the limit, and an empty one
\* only where two calls have been in WriteFile at a time (WriteFile's limit is
\* ReadFile's).
THEOREM NeverLeftUnreadable == Spec => []StaysReadable
<1>1. TypeOK /\ Undisturbed /\ SizeInv /\ [Next]_vars => SizeInv'
  BY NextSize
<1>2. TypeOK /\ Undisturbed /\ InsideInv /\ FilledInv /\ [Next]_vars => FilledInv'
  BY NextFilled
<1> QED BY <1>1, <1>2, InitSize, SizesFit, AlwaysInside, MailboxType, PTL DEF Spec

\* Without a clash a message is in the file at most once and never ahead of one
\* that had been answered when it was sent (handleAppendFromGPTMessage).
THEOREM InOrder == Spec => []AnsweredInOrder
<1>1. TypeOK /\ Undisturbed /\ InsideInv /\ OrderInv /\ [Next]_vars => OrderInv'
  BY NextOrder
<1>2. OrderInv => AnsweredInOrder
  BY DEF OrderInv, Ordered, AnsweredInOrder
<1> QED BY <1>1, <1>2, InitOrder, AlwaysInside, MailboxType, PTL DEF Spec

\* A message whose call nobody disturbs is added at the end of all there is
\* (handleAppendFromGPTMessage, WriteFile).
THEOREM NothingLostWhenAlone == Spec => AppendsWhenAlone
<1>1. TypeOK /\ Undisturbed /\ InsideInv /\ [Next]_vars =>
        [\A m \in alone :
           call[m].pc = "rename" /\ call'[m].pc = "written" => file' = Append(Written, m)]_vars
  BY NextAppends
<1> QED BY <1>1, MailboxType, AlwaysInside, PTL DEF Spec, AppendsWhenAlone

\* Such a message is refused only when the file is full, the root read-only, or
\* its own write fails (the exits of WriteFile).
THEOREM RefusedForAReason == Spec => RefusalMeansFull
<1>1. TypeOK /\ Undisturbed /\ InsideInv /\ [Next]_vars =>
        [\A m \in alone :
           /\ call[m].pc \in {"write", "fill", "rename"}
           /\ call'[m].pc \in {"refused", "remove"}
           => Len(Written) >= MaxEntries \/ ~writable \/ faults' > faults]_vars
  BY NextRefuses
<1> QED BY <1>1, MailboxType, AlwaysInside, PTL DEF Spec, RefusalMeansFull

\* If nobody edits the file, and of the calls that have read one at a time is
\* still to write, then every message that was written or answered is in the
\* file, for ever: failed writes and crashes lose none (read, extend, rewrite in
\* handleAppendFromGPTMessage).
THEOREM AnsweredIsThere ==
  Spec /\ []OneWriting /\ [][~Edit]_vars =>
    [](\A m \in Messages :
         call[m].pc \in {"written", "answered"} => \E i \in DOMAIN Written : Written[i] = m)
<1>1. Init => KeepsWritten
  BY DEF Init, KeepsWritten
<1>2. TypeOK /\ Undisturbed /\ InsideInv /\ KeepsWritten /\ OneWriting /\ [Next]_vars
        /\ [~Edit]_vars => KeepsWritten'
  BY NextKeeps
<1>3. KeepsWritten =>
        \A m \in Messages :
          call[m].pc \in {"written", "answered"} => \E i \in DOMAIN Written : Written[i] = m
  BY DEF KeepsWritten
<1> QED BY <1>1, <1>2, <1>3, MailboxType, AlwaysInside, PTL DEF Spec

=============================================================================
