------------------------- MODULE WorkflowRefinement -------------------------
(***************************************************************************)
(* A session that one handler at a time works on implements PlanLog, for   *)
(* any number of phases, sessions, contents, failed writes and crashes,    *)
(* and however many handlers are busy with other sessions.                 *)
(***************************************************************************)
EXTENDS WorkflowProofs

\* One handler is in flight at a time.
OneAtATime ==
  \A c, d \in Calls : call[c].pc # "idle" /\ call[d].pc # "idle" => c = d

\* Of the handlers in flight, one at most works on session s: what a client
\* that waits for its answers ensures of the sessions it works on alone.
AloneOn(s) ==
  \A c, d \in Calls :
    call[c].pc # "idle" /\ call[d].pc # "idle" /\ call[c].s = s /\ call[d].s = s => c = d

SessionsAlone == \A s \in Sessions : AloneOn(s)

\* Nothing has changed the session since a handler loaded it.
UpToDate(k) ==
  /\ k.pc \in {"artifact", "complete"} =>
       disk[k.s] # Absent /\ Load(k.s) = Canonical(k.p - 1)
  /\ k.pc \in {"stat", "agents", "master", "prompts"} =>
       disk[k.s] # Absent /\ Load(k.s) = Canonical(N)

FreshOn(s) == \A c \in Calls : call[c].s = s => UpToDate(call[c])

AllFresh == \A s \in Sessions : FreshOn(s)

\* The log, the sessions and the plans that Workflow shows of itself.
ShownLog ==
  [s \in Sessions |->
     [p \in Phases |-> IF Load(s).phase[p] = "completed" THEN artifact[s][p]
                                                        ELSE NoContent]]
ShownStarted == {s \in Sessions : disk[s] # Absent}
ShownFinal ==
  [s \in Sessions |-> IF disk[s].status = "completed" THEN master[s] ELSE NoContent]

-----------------------------------------------------------------------------
(* One handler to a session *)

\* A call moves, alone on s or without touching the file of s.
LEMMA OneMoves ==
  ASSUME TypeOK, NEW s \in Sessions, FreshOn(s),
         NEW c \in Calls, NEW k \in CallState, call' = [call EXCEPT ![c] = k],
         UpToDate(k)',
         \/ disk'[s] = disk[s]
         \/ \A d \in Calls : d # c /\ call[d].s = s => call[d].pc = "idle"
  PROVE  FreshOn(s)'
<1>1. call'[c] = k /\ \A d \in Calls : d # c => call'[d] = call[d]
  BY DEF TypeOK
<1>2. ASSUME NEW d \in Calls, call'[d].s = s PROVE UpToDate(call[d])'
  <2>1. CASE d = c
    BY <1>1, <2>1 DEF UpToDate
  <2>2. CASE d # c /\ call[d].pc = "idle"
    BY <1>1, <2>2 DEF UpToDate
  <2>3. CASE d # c /\ disk'[s] = disk[s]
    <3>1. call'[d] = call[d] /\ call[d].s = s /\ UpToDate(call[d])
      BY <1>1, <1>2, <2>3 DEF FreshOn
    <3>2. Load(s)' = Load(s)
      BY <2>3 DEF Load
    <3> QED BY <2>3, <3>1, <3>2 DEF UpToDate
  <2> QED BY <1>1, <1>2, <2>1, <2>2, <2>3
<1> QED BY <1>2 DEF FreshOn

LEMMA OthersIdle ==
  ASSUME NEW c \in Calls, call[c].pc # "idle", AloneOn(call[c].s)
  PROVE  \A d \in Calls : d # c /\ call[d].s = call[c].s => call[d].pc = "idle"
BY DEF AloneOn

LEMMA IdleUpToDate == UpToDate(Idle)'
BY DEF Idle, Running, UpToDate

LEMMA InitFresh == Init => AllFresh
BY DEF Init, AllFresh, FreshOn, UpToDate, Idle, Running

LEMMA IssueFresh ==
  ASSUME IInv, NEW s \in Sessions, FreshOn(s), NEW c \in Calls, Issue(c), IInv'
  PROVE  FreshOn(s)'
<1>1. TypeOK /\ call' \in [Calls -> CallState]
  BY DEF IInv, TypeOK
<1>2. /\ disk' = disk
      /\ \A r \in Sessions : Load(r)' = Load(r)
  BY DEF Issue, Start, Complete, Finalize, Bootstrap, Load
<1> DEFINE new == call'[c]
<1>3. ASSUME NEW k, k = new PROVE UpToDate(k)'
  <2>1. ASSUME NEW t \in Titles, Start(c, t) PROVE UpToDate(k)'
    BY <1>1, <1>3, <2>1 DEF Start, Running, UpToDate, TypeOK
  <2>2. ASSUME NEW r \in Sessions, NEW p \in Phases, NEW x \in Contents, Complete(c, r, p, x)
        PROVE  UpToDate(k)'
    <3>1. Load(r) = Canonical(p - 1) /\ disk[r] # Absent
      BY <2>2, Loaded, MayCompleteNext DEF Complete
    <3>2. k = Running("artifact", r, Load(r), p, x, <<>>)
      BY <1>1, <1>3, <2>2 DEF Complete, TypeOK
    <3> QED BY <1>2, <3>1, <3>2 DEF Running, UpToDate
  <2>3. ASSUME NEW r \in Sessions, NEW x \in Contents, NEW ps \in PromptLists,
               Finalize(c, r, x, ps)
        PROVE  UpToDate(k)'
    <3>1. Load(r) = Canonical(N) /\ disk[r] # Absent
      BY <2>3, Loaded, MayFinalizeAll DEF Finalize
    <3>2. k = Running("stat", r, Load(r), NoPhase, x, ps)
      BY <1>1, <1>3, <2>3 DEF Finalize, TypeOK
    <3> QED BY <1>2, <3>1, <3>2 DEF Running, UpToDate
  <2>4. ASSUME NEW o \in BOOLEAN, Bootstrap(c, o) PROVE UpToDate(k)'
    BY <1>1, <1>3, <2>4 DEF Bootstrap, Running, UpToDate, TypeOK
  <2> QED BY <1>3, <2>1, <2>2, <2>3, <2>4 DEF Issue
<1>4. /\ \E k \in CallState : k = new
      /\ call' = [call EXCEPT ![c] = new]
  BY <1>1 DEF Issue, Start, Complete, Finalize, Bootstrap, TypeOK
<1> HIDE DEF new
<1> QED BY <1>1, <1>2, <1>3, <1>4, OneMoves

\* What the next place of a running handler asks of the file holds already.
LEMMA StepUpToDate ==
  ASSUME IInv, NEW c \in Calls, UpToDate(call[c]), IInv',
         WriteArtifact(c) \/ StatAgents(c) \/ WriteAgents(c) \/ WriteMaster(c) \/ WritePrompt(c),
         NEW n \in CallState, n = call'[c]
  PROVE  UpToDate(n)'
<1> DEFINE k == call[c]
<1>1. TypeOK /\ k \in CallState /\ CallOK(k)
  BY DEF IInv, TypeOK
<1>2. disk' = disk /\ \A s \in Sessions : Load(s)' = Load(s)
  BY DEF WriteArtifact, StatAgents, WriteAgents, WriteMaster, WritePrompt, Load
<1>3. k.s \in Sessions
  BY <1>1 DEF CallOK, WriteArtifact, StatAgents, WriteAgents, WriteMaster, WritePrompt
<1>4. CASE WriteArtifact(c)
  <2>1. n.pc = "complete" /\ n.s = k.s /\ n.p = k.p
    BY <1>1, <1>4 DEF WriteArtifact, TypeOK, CallState
  <2> QED BY <1>2, <1>3, <1>4, <2>1 DEF UpToDate, WriteArtifact
<1>5. CASE StatAgents(c) \/ WriteAgents(c) \/ WriteMaster(c) \/ WritePrompt(c)
  <2>1. /\ k.pc \in {"stat", "agents", "master", "prompts"}
        /\ n.pc \in {"agents", "master", "prompts"} /\ n.s = k.s
    BY <1>1, <1>5 DEF StatAgents, WriteAgents, WriteMaster, WritePrompt, TypeOK, CallState
  <2> QED BY <1>2, <1>3, <2>1 DEF UpToDate
<1> QED BY <1>4, <1>5

LEMMA StepFresh ==
  ASSUME IInv, NEW s \in Sessions, FreshOn(s), AloneOn(s), NEW c \in Calls, Step(c), IInv'
  PROVE  FreshOn(s)'
<1> DEFINE k == call[c]
<1>1. TypeOK /\ k \in CallState /\ k.pc # "idle"
  BY DEF IInv, TypeOK, Step, WriteArtifact, WriteState, StatAgents, WriteAgents, WriteMaster,
         WritePrompt, WriteFinalState, WriteBootstrap
<1>2. CASE WriteState(c) \/ WriteFinalState(c) \/ WriteBootstrap(c)
  <2>1. call' = [call EXCEPT ![c] = Idle]
    BY <1>2 DEF WriteState, WriteFinalState, WriteBootstrap
  <2>2. CASE k.s = s
    BY <1>1, <2>1, <2>2, IdleOK, IdleUpToDate, OthersIdle, OneMoves
  <2>3. CASE k.s # s
    <3>1. disk'[s] = disk[s]
      BY <1>1, <1>2, <2>3 DEF WriteState, WriteFinalState, WriteBootstrap, TypeOK
    <3> QED BY <1>1, <2>1, <3>1, IdleOK, IdleUpToDate, OneMoves
  <2> QED BY <2>2, <2>3
<1>3. ASSUME WriteArtifact(c) \/ StatAgents(c) \/ WriteAgents(c) \/ WriteMaster(c)
             \/ WritePrompt(c)
      PROVE  FreshOn(s)'
  <2>1. /\ disk' = disk
        /\ \A d \in Calls : d # c => call'[d] = call[d]
    BY <1>1, <1>3
    DEF WriteArtifact, StatAgents, WriteAgents, WriteMaster, WritePrompt, TypeOK
  <2>2. call'[c] \in CallState /\ call'[c].s = k.s
    <3>1. call' \in [Calls -> CallState]
      BY DEF IInv, TypeOK
    <3>2. CASE WriteArtifact(c)
      BY <1>1, <3>1, <3>2 DEF WriteArtifact, TypeOK, CallState
    <3>3. CASE StatAgents(c) \/ WriteAgents(c) \/ WriteMaster(c) \/ WritePrompt(c)
      BY <1>1, <3>1, <3>3 DEF StatAgents, WriteAgents, WriteMaster, WritePrompt, TypeOK, CallState
    <3> QED BY <1>3, <3>1, <3>2, <3>3
  <2>3. ASSUME NEW d \in Calls, call'[d].s = s PROVE UpToDate(call[d])'
    <3>1. CASE d = c
      <4>1. UpToDate(k)
        BY <2>3, <2>2, <3>1 DEF FreshOn
      <4>2. PICK n \in CallState : n = call'[c]
        BY <2>2
      <4>3. UpToDate(n)'
        BY <1>3, <4>1, <4>2, StepUpToDate
      <4> QED BY <3>1, <4>2, <4>3 DEF UpToDate
    <3>2. CASE d # c
      <4>1. call'[d] = call[d] /\ UpToDate(call[d])
        BY <2>1, <2>3, <3>2 DEF FreshOn
      <4> QED BY <2>1, <4>1 DEF UpToDate, Load
    <3> QED BY <3>1, <3>2
  <2> QED BY <2>3 DEF FreshOn
<1> QED BY <1>2, <1>3 DEF Step

\* Handlers of other sessions may overlap.
LEMMA OverlapElsewhere ==
  ASSUME TypeOK, NEW s \in Sessions, AloneOn(s), NEW c \in Calls, NEW d \in Calls, Overlap(c, d)
  PROVE  /\ disk'[s] = disk[s] /\ UNCHANGED <<artifact, master, agents>>
         /\ \A b \in Calls : call'[b] = call[b] \/ call'[b] = Idle
<1>1. PICK r \in Sessions :
      /\ c # d /\ AtStateWrite(c, r) /\ AtStateWrite(d, r)
      /\ \E st \in {disk[r], Torn, ToWrite(c), ToWrite(d)} : disk' = [disk EXCEPT ![r] = st]
      /\ UNCHANGED <<artifact, master, agents>>
      /\ \A b \in Calls : call'[b] = call[b] \/ call'[b] = Idle
  BY DEF Overlap
<1>2. r # s
  BY <1>1 DEF AloneOn, AtStateWrite
<1> QED BY <1>1, <1>2 DEF TypeOK

LEMMA NextFresh ==
  ASSUME IInv, NEW s \in Sessions, FreshOn(s), AloneOn(s), [Next]_vars, IInv'
  PROVE  FreshOn(s)'
<1>1. ASSUME NEW c \in Calls, Issue(c) PROVE FreshOn(s)'
  BY <1>1, IssueFresh
<1>2. ASSUME NEW c \in Calls, Step(c) PROVE FreshOn(s)'
  BY <1>2, StepFresh
<1>3. ASSUME NEW c \in Calls, Fail(c) PROVE FreshOn(s)'
  <2>1. TypeOK /\ disk' = disk /\ call' = [call EXCEPT ![c] = Idle]
    BY <1>3 DEF Fail, IInv
  <2> QED BY <2>1, IdleOK, IdleUpToDate, OneMoves
<1>4. CASE Crash
  BY <1>4 DEF Crash, FreshOn, UpToDate, Idle, Running
<1>5. CASE Tick \/ UNCHANGED vars
  BY <1>5 DEF Tick, vars, FreshOn, UpToDate, Load
<1>6. ASSUME NEW c \in Calls, NEW d \in Calls, Overlap(c, d) PROVE FreshOn(s)'
  <2>1. /\ disk'[s] = disk[s]
        /\ \A b \in Calls : call'[b] = call[b] \/ call'[b] = Idle
    BY <1>6, OverlapElsewhere DEF IInv
  <2>2. ASSUME NEW b \in Calls, call'[b].s = s PROVE UpToDate(call[b])'
    <3>1. CASE call'[b] = Idle
      BY <3>1 DEF Idle, Running, UpToDate
    <3>2. CASE call'[b] = call[b]
      <4>1. call[b].s = s /\ UpToDate(call[b])
        BY <2>2, <3>2 DEF FreshOn
      <4>2. Load(s)' = Load(s)
        BY <2>1 DEF Load
      <4> QED BY <2>1, <3>2, <4>1, <4>2 DEF UpToDate
    <3> QED BY <2>1, <3>1, <3>2
  <2> QED BY <2>2 DEF FreshOn
<1> QED BY <1>1, <1>2, <1>3, <1>4, <1>5, <1>6 DEF Next

LEMMA AlwaysFreshOn ==
  ASSUME NEW s \in Sessions
  PROVE  Spec /\ []AloneOn(s) => [](IInv /\ FreshOn(s))
<1>1. Init => IInv /\ FreshOn(s)
  BY InitInv, InitFresh DEF AllFresh
<1>2. IInv /\ FreshOn(s) /\ AloneOn(s) /\ [Next]_vars => IInv' /\ FreshOn(s)'
  BY NextInv, NextFresh
<1> QED BY <1>1, <1>2, PTL DEF Spec

LEMMA AlwaysFresh == Spec /\ []SessionsAlone => [](IInv /\ AllFresh)
<1>1. Init => IInv /\ AllFresh
  BY InitInv, InitFresh
<1>2. IInv /\ AllFresh /\ SessionsAlone /\ [Next]_vars => IInv' /\ AllFresh'
  BY NextInv, NextFresh DEF AllFresh, SessionsAlone
<1> QED BY <1>1, <1>2, PTL DEF Spec

\* A client that waits for each answer has one handler in flight.
LEMMA OneInFlight == Serial /\ Spec => []OneAtATime
<1>1. CASE Serial
  <2>1. Init => IInv /\ OneAtATime
    BY InitInv DEF Init, OneAtATime, Idle, Running
  <2>2. IInv /\ OneAtATime /\ [Next]_vars => IInv' /\ OneAtATime'
    <3> SUFFICES ASSUME IInv, OneAtATime, [Next]_vars PROVE OneAtATime'
      BY NextInv
    <3>1. TypeOK
      BY DEF IInv
    <3>2. ASSUME NEW c \in Calls, Issue(c) PROVE OneAtATime'
      <4>1. \A d \in Calls : call[d].pc = "idle"
        BY <1>1, <3>2 DEF Issue, Start, Complete, Finalize, Bootstrap, MayIssue
      <4>2. \A d \in Calls : d # c => call'[d] = call[d]
        BY <3>1, <3>2 DEF Issue, Start, Complete, Finalize, Bootstrap, TypeOK
      <4> QED BY <4>1, <4>2 DEF OneAtATime
    <3>3. ASSUME NEW c \in Calls, Step(c) \/ Fail(c) PROVE OneAtATime'
      <4>1. call[c].pc # "idle" /\ \A d \in Calls : d # c => call'[d] = call[d]
        BY <3>1, <3>3
        DEF Step, WriteArtifact, WriteState, StatAgents, WriteAgents, WriteMaster,
            WritePrompt, WriteFinalState, WriteBootstrap, Fail, TypeOK
      <4> QED BY <4>1 DEF OneAtATime
    <3>4. CASE Crash \/ Tick \/ UNCHANGED vars
      BY <3>4 DEF Crash, Tick, vars, OneAtATime, Idle, Running
    <3>5. ASSUME NEW c \in Calls, NEW d \in Calls, Overlap(c, d) PROVE OneAtATime'
      BY <3>5 DEF Overlap, AtStateWrite, OneAtATime
    <3> QED BY <3>2, <3>3, <3>4, <3>5 DEF Next
  <2> QED BY <2>1, <2>2, PTL DEF Spec
<1>2. CASE ~Serial
  BY <1>2
<1> QED BY <1>1, <1>2

LEMMA SerialIsAlone == Serial /\ Spec => []SessionsAlone
<1>1. OneAtATime => SessionsAlone
  BY DEF OneAtATime, SessionsAlone, AloneOn
<1> QED BY <1>1, OneInFlight, PTL

-----------------------------------------------------------------------------
(* The log *)

\* What the log shows of a phase, and where a completed file is read.
LEMMA LogEntry ==
  ASSUME IInv, NEW s \in Sessions
  PROVE  /\ \A p \in Phases :
              /\ ShownLog[s][p] \in Contents \cup {NoContent}
              /\ ShownLog[s][p] # NoContent <=> Load(s).phase[p] = "completed"
         /\ ShownFinal[s] \in Contents \cup {NoContent}
<1>1. DiskOK(s)
  BY DEF IInv
<1> QED BY <1>1 DEF ShownLog, ShownFinal, IInv, TypeOK, DiskOK

\* A file that says completed is read as it is.
LEMMA StillOpen ==
  ASSUME IInv, NEW s \in Sessions, NEW n \in 0..N, Load(s) = Canonical(n)
  PROVE  disk[s].status # "completed" /\ ShownFinal[s] = NoContent
<1>1. disk[s] \in State
  BY DEF IInv, TypeOK
<1>2. Upgraded(disk[s]).status = disk[s].status
  BY <1>1 DEF Upgraded, State
<1>3. disk[s].status = "completed" => Load(s).status = "completed"
  BY <1>2 DEF Load, NormalizeLegacyState, Advanced
<1>4. Canonical(n).status # "completed"
  BY DEF Canonical
<1> QED BY <1>3, <1>4 DEF ShownFinal

\* What a session shows when its state file is replaced.
LEMMA StateReplaced ==
  ASSUME IInv, NEW s \in Sessions, NEW st \in SettledStates, st # Absent,
         disk' = [disk EXCEPT ![s] = st], UNCHANGED <<artifact, master>>
  PROVE  /\ ShownLog' = [ShownLog EXCEPT ![s] =
              [p \in Phases |-> IF st.phase[p] = "completed" THEN artifact[s][p]
                                                             ELSE NoContent]]
         /\ ShownStarted' = ShownStarted \cup {s}
         /\ ShownFinal' = [ShownFinal EXCEPT ![s] =
              IF st.status = "completed" THEN master[s] ELSE NoContent]
<1>1. /\ disk'[s] = st /\ \A r \in Sessions : r # s => disk'[r] = disk[r]
  BY DEF IInv, TypeOK
<1>2. /\ Load(s)' = st /\ \A r \in Sessions : r # s => Load(r)' = Load(r)
  BY <1>1, SettledStatesFixed DEF Load
<1>3. ShownStarted' = ShownStarted \cup {s}
  BY <1>1 DEF ShownStarted
<1>4. ShownFinal' = [ShownFinal EXCEPT ![s] =
        IF st.status = "completed" THEN master[s] ELSE NoContent]
  BY <1>1 DEF ShownFinal
<1>5. ShownLog' = [ShownLog EXCEPT ![s] =
        [p \in Phases |-> IF st.phase[p] = "completed" THEN artifact[s][p] ELSE NoContent]]
  BY <1>2 DEF ShownLog
<1> QED BY <1>3, <1>4, <1>5

LEMMA InitShown == Init => Log!Init
<1> SUFFICES ASSUME Init PROVE Log!Init
  OBVIOUS
<1>1. IInv
  BY InitInv
<1>2. \A s \in Sessions : disk[s].status # "completed"
  BY DEF Init, LegacyStates, Absent, Fresh, LegacyState
<1>3. \A s \in Sessions : ShownFinal[s] = NoContent
  BY <1>2 DEF ShownFinal
<1>4. ASSUME NEW s \in Sessions
      PROVE  \E i \in 1..(N + 1) : \A j \in Phases : ShownLog[s][j] # NoContent <=> j < i
  <2>1. ASSUME NEW k \in 0..N, Load(s) = Canonical(k)
        PROVE  \E i \in 1..(N + 1) : \A j \in Phases : ShownLog[s][j] # NoContent <=> j < i
    <3>1. \A j \in Phases : ShownLog[s][j] # NoContent <=> j < k + 1
      BY <1>1, <2>1, LogEntry, CanonicalPhases, NAssumption DEF Phases
    <3>2. k + 1 \in 1..(N + 1)
      BY NAssumption
    <3> QED BY <3>1, <3>2
  <2>2. CASE Load(s) \in {Absent, Torn}
    <3>1. \A j \in Phases : ShownLog[s][j] = NoContent
      BY <1>1, <2>2, LogEntry DEF Absent, Torn
    <3>2. 1 \in 1..(N + 1) /\ \A j \in Phases : ~(j < 1)
      BY NAssumption DEF Phases
    <3> QED BY <3>1, <3>2
  <2>3. CASE Load(s) = Final
    <3>1. \A j \in Phases : ShownLog[s][j] # NoContent
      BY <1>1, <2>3, LogEntry, FinalFields
    <3>2. N + 1 \in 1..(N + 1) /\ \A j \in Phases : j < N + 1
      BY NAssumption DEF Phases
    <3> QED BY <3>1, <3>2
  <2> QED BY <1>1, <2>1, <2>2, <2>3, Loaded DEF SettledStates, CanonicalStates
<1>5. ASSUME NEW s \in Sessions, s \notin ShownStarted
      PROVE  ShownLog[s] = [p \in Phases |-> NoContent]
  <2>1. disk[s] = Absent
    BY <1>5 DEF ShownStarted
  <2>2. Load(s) = Absent
    BY <2>1, SettledStatesFixed DEF Load, SettledStates
  <2> QED BY <2>2 DEF ShownLog, Absent
<1>6. ShownLog \in [Sessions -> [Phases -> Contents \cup {NoContent}]]
  <2>1. \A s \in Sessions : ShownLog[s] \in [Phases -> Contents \cup {NoContent}]
    BY <1>1, LogEntry DEF ShownLog
  <2> QED BY <2>1 DEF ShownLog
<1>7. ShownFinal \in [Sessions -> Contents \cup {NoContent}]
  BY <1>3 DEF ShownFinal
<1>8. ShownStarted \in SUBSET Sessions
  BY DEF ShownStarted
<1> QED
  BY <1>3, <1>4, <1>5, <1>6, <1>7, <1>8
  DEF Log!Init, Log!Empty, Log!NextToAccept, Log!Full, Phases,
      ShownLog, ShownStarted, ShownFinal

-----------------------------------------------------------------------------
(* Steps *)

Shown == <<ShownLog, ShownStarted, ShownFinal>>

\* A step of the log of session s.
LogStep(s) ==
  \/ Log!Open(s)
  \/ \E x \in Contents : Log!Close(s, x) \/ \E i \in Phases : Log!Accept(s, i, x)

\* The state file of a new session opens it, or empties one of that id.
LEMMA StartOpens ==
  ASSUME IInv, NEW c \in Calls, WriteState(c), call[c].pc = "start",
         NEW s \in Sessions, s = call[c].s
  PROVE  LogStep(s)
<1>1. s = call[c].s /\ call[c].st = Canonical(0)
  BY DEF IInv, CallOK
<1>2. 0 \in 0..N /\ 0 # N
  BY NAssumption
<1>3. /\ Canonical(0) \in SettledStates /\ Canonical(0) # Absent
      /\ Canonical(0).status # "completed"
      /\ \A p \in Phases : Canonical(0).phase[p] # "completed"
  <2>1. Canonical(0).status = "in_progress"
    BY <1>2 DEF Canonical
  <2>2. \A p \in Phases : ~(p <= 0)
    BY NAssumption DEF Phases
  <2> QED BY <1>2, <2>1, <2>2, CanonicalPhases DEF SettledStates, CanonicalStates, Absent
<1>4. disk' = [disk EXCEPT ![s] = Canonical(0)] /\ UNCHANGED <<artifact, master>>
  BY <1>1 DEF WriteState
<1>5. /\ ShownLog' = [ShownLog EXCEPT ![s] = [p \in Phases |-> NoContent]]
      /\ ShownStarted' = ShownStarted \cup {s}
      /\ ShownFinal' = [ShownFinal EXCEPT ![s] = NoContent]
  <2>1. PICK st \in SettledStates : st = Canonical(0)
    BY <1>3
  <2>2. (IF st.status = "completed" THEN master[s] ELSE NoContent) = NoContent
    BY <1>3, <2>1
  <2>3. st # Absent /\ disk' = [disk EXCEPT ![s] = st]
    BY <1>3, <1>4, <2>1
  <2>4. [p \in Phases |-> IF st.phase[p] = "completed" THEN artifact[s][p] ELSE NoContent]
          = [p \in Phases |-> NoContent]
    BY <1>3, <2>1
  <2>5. /\ ShownLog' = [ShownLog EXCEPT ![s] =
              [p \in Phases |-> IF st.phase[p] = "completed" THEN artifact[s][p]
                                                             ELSE NoContent]]
        /\ ShownStarted' = ShownStarted \cup {s}
        /\ ShownFinal' = [ShownFinal EXCEPT ![s] =
              IF st.status = "completed" THEN master[s] ELSE NoContent]
    BY <1>4, <2>3, StateReplaced
  <2> QED BY <2>2, <2>4, <2>5
<1>6. Log!Open(s)
  BY <1>5 DEF Log!Open, Log!Empty, Phases, ShownLog, ShownStarted, ShownFinal
<1> QED BY <1>6 DEF LogStep

\* The state file that follows an artifact accepts it.
LEMMA CompleteAccepts ==
  ASSUME IInv, NEW c \in Calls, UpToDate(call[c]), WriteState(c), call[c].pc = "complete",
         NEW s \in Sessions, s = call[c].s
  PROVE  LogStep(s)
<1>1. PICK p \in Phases :
      /\ s = call[c].s /\ p = call[c].p /\ call[c].st = Canonical(p)
      /\ HasArtifacts(s, p)
      /\ disk[s] # Absent /\ Load(s) = Canonical(p - 1)
  BY DEF IInv, CallOK, UpToDate
<1>2. disk' = [disk EXCEPT ![s] = Canonical(p)] /\ UNCHANGED <<artifact, master>>
  BY <1>1 DEF WriteState
<1>3. p \in 0..N /\ p - 1 \in 0..N /\ p <= p
  BY <1>1, NAssumption DEF Phases
<1>4. PICK x \in Contents : x = artifact[s][p]
  BY <1>1, <1>3 DEF HasArtifacts, IInv, TypeOK
<1>5. /\ Canonical(p) \in SettledStates /\ Canonical(p) # Absent
      /\ Canonical(p).status # "completed"
  BY <1>3 DEF SettledStates, CanonicalStates, Canonical, Absent
<1>6. /\ ShownLog' = [ShownLog EXCEPT ![s] =
           [q \in Phases |-> IF Canonical(p).phase[q] = "completed" THEN artifact[s][q]
                                                                   ELSE NoContent]]
      /\ ShownStarted' = ShownStarted \cup {s}
      /\ ShownFinal' = [ShownFinal EXCEPT ![s] = NoContent]
  BY <1>1, <1>2, <1>5, StateReplaced
<1>7. s \in ShownStarted /\ ShownStarted' = ShownStarted
  BY <1>1, <1>6 DEF ShownStarted
<1>8. ShownFinal' = ShownFinal
  BY <1>1, <1>3, <1>6, StillOpen DEF ShownFinal
<1>9. \A q \in Phases :
        /\ Canonical(p).phase[q] = "completed" <=> q = p \/ Canonical(p - 1).phase[q] = "completed"
        /\ ShownLog[s][q] # NoContent <=> q < p
  <2>1. \A q \in Phases : (q <= p <=> q = p \/ q <= p - 1) /\ (q <= p - 1 <=> q < p)
    BY <1>3, NAssumption DEF Phases
  <2>2. \A q \in Phases : /\ Canonical(p).phase[q] = "completed" <=> q <= p
                          /\ Canonical(p - 1).phase[q] = "completed" <=> q <= p - 1
    BY <1>3, CanonicalPhases
  <2>3. \A q \in Phases : ShownLog[s][q] # NoContent <=> Canonical(p - 1).phase[q] = "completed"
    BY <1>1, LogEntry
  <2> QED BY <2>1, <2>2, <2>3
<1>10. ShownLog' = [ShownLog EXCEPT ![s] = [ShownLog[s] EXCEPT ![p] = x]]
  <2>1. ShownLog[s] = [q \in Phases |-> IF Canonical(p - 1).phase[q] = "completed"
                                          THEN artifact[s][q] ELSE NoContent]
    BY <1>1 DEF ShownLog
  <2>2. [q \in Phases |-> IF Canonical(p).phase[q] = "completed" THEN artifact[s][q]
                                                                ELSE NoContent]
          = [ShownLog[s] EXCEPT ![p] = x]
    BY <1>4, <1>9, <2>1
  <2> QED BY <1>6, <2>2
<1>11. Log!Accept(s, p, x)
  BY <1>7, <1>8, <1>9, <1>10
  DEF Log!Accept, Log!NextToAccept, Phases, ShownLog, ShownStarted, ShownFinal
<1> QED BY <1>1, <1>4, <1>11 DEF LogStep

\* The last state file of a finalization closes the session.
LEMMA FinalizeCloses ==
  ASSUME IInv, NEW c \in Calls, UpToDate(call[c]), WriteFinalState(c),
         NEW s \in Sessions, s = call[c].s
  PROVE  LogStep(s)
<1>1.
      /\ s = call[c].s /\ call[c].st = Canonical(N)
      /\ master[s] # NoContent /\ disk[s] # Absent /\ Load(s) = Canonical(N)
  BY DEF IInv, CallOK, UpToDate, WriteFinalState
<1>2. disk' = [disk EXCEPT ![s] = Final] /\ UNCHANGED <<artifact, master>>
  BY <1>1 DEF WriteFinalState, Final
<1>3. PICK x \in Contents : x = master[s]
  BY <1>1 DEF IInv, TypeOK
<1>4. Final \in SettledStates /\ Final # Absent /\ N \in 0..N
  BY FinalFields, NAssumption DEF SettledStates, Absent
<1>5. /\ ShownLog' = [ShownLog EXCEPT ![s] =
           [q \in Phases |-> IF Final.phase[q] = "completed" THEN artifact[s][q]
                                                            ELSE NoContent]]
      /\ ShownStarted' = ShownStarted \cup {s}
      /\ ShownFinal' = [ShownFinal EXCEPT ![s] = x]
  BY <1>2, <1>3, <1>4, FinalFields, StateReplaced
<1>6. s \in ShownStarted /\ ShownStarted' = ShownStarted
  BY <1>1, <1>5 DEF ShownStarted
<1>7. ShownLog' = ShownLog
  <2>1. [q \in Phases |-> IF Final.phase[q] = "completed" THEN artifact[s][q]
                                                         ELSE NoContent] = ShownLog[s]
    BY <1>1, FinalFields DEF ShownLog
  <2> QED BY <1>5, <2>1 DEF ShownLog
<1>8. ShownFinal[s] = NoContent
  BY <1>1, <1>4, StillOpen
<1>9. \A q \in Phases : ShownLog[s][q] # NoContent
  BY <1>1, FinalFields, LogEntry
<1>10. Log!Close(s, x)
  BY <1>5, <1>6, <1>7, <1>8, <1>9
  DEF Log!Close, Log!Full, Phases, ShownLog, ShownStarted, ShownFinal
<1> QED BY <1>1, <1>3, <1>10 DEF LogStep

\* An artifact is not in the log before the state file calls its phase
\* completed, nor a master plan before it calls the session so.
LEMMA WritesUnseen ==
  ASSUME IInv, NEW c \in Calls, UpToDate(call[c]), WriteArtifact(c) \/ WriteMaster(c)
  PROVE  Shown' = Shown
<1> DEFINE s == call[c].s
           p == call[c].p
<1>1. CASE WriteArtifact(c)
  <2>1. /\ s \in Sessions /\ p \in Phases /\ Load(s) = Canonical(p - 1)
    BY <1>1 DEF IInv, CallOK, UpToDate, WriteArtifact
  <2>2. artifact' = [artifact EXCEPT ![s] = [artifact[s] EXCEPT ![p] = call[c].body]]
    BY <1>1 DEF WriteArtifact
  <2>3. disk' = disk /\ master' = master
    BY <1>1 DEF WriteArtifact
  <2> HIDE DEF s, p
  <2>4. Load(s).phase[p] # "completed"
    <3>1. p - 1 \in 0..N /\ ~(p <= p - 1)
      BY <2>1, NAssumption DEF Phases
    <3> QED BY <2>1, <3>1, CanonicalPhases
  <2>5. \A r \in Sessions, q \in Phases :
          Load(r).phase[q] = "completed" => artifact'[r][q] = artifact[r][q]
    BY <2>2, <2>4 DEF IInv, TypeOK
  <2>6. \A r \in Sessions : Load(r)' = Load(r)
    BY <2>3 DEF Load
  <2>7. ShownLog' = ShownLog
    BY <2>5, <2>6 DEF ShownLog
  <2> QED BY <2>3, <2>7 DEF Shown, ShownStarted, ShownFinal
<1>2. CASE WriteMaster(c)
  <2>1. s \in Sessions /\ Load(s) = Canonical(N)
    BY <1>2 DEF IInv, CallOK, UpToDate, WriteMaster
  <2>2. master' = [master EXCEPT ![s] = call[c].body]
    BY <1>2 DEF WriteMaster
  <2>3. disk' = disk /\ artifact' = artifact
    BY <1>2 DEF WriteMaster
  <2> HIDE DEF s, p
  <2>4. disk[s].status # "completed"
    BY <2>1, StillOpen, NAssumption
  <2>5. ShownFinal' = ShownFinal
    BY <2>2, <2>3, <2>4 DEF ShownFinal, IInv, TypeOK
  <2>6. \A r \in Sessions : Load(r)' = Load(r)
    BY <2>3 DEF Load
  <2> QED BY <2>3, <2>5, <2>6 DEF Shown, ShownLog, ShownStarted
<1> QED BY <1>1, <1>2

LEMMA StepShown ==
  ASSUME IInv, NEW c \in Calls, UpToDate(call[c]), Step(c),
         NEW s \in Sessions, s = call[c].s
  PROVE  LogStep(s) \/ Shown' = Shown
<1>1. CASE WriteState(c)
  BY <1>1, StartOpens, CompleteAccepts DEF WriteState
<1>2. CASE WriteFinalState(c)
  BY <1>2, FinalizeCloses
<1>3. CASE WriteArtifact(c) \/ WriteMaster(c)
  BY <1>3, WritesUnseen
<1>4. CASE StatAgents(c) \/ WriteAgents(c) \/ WritePrompt(c) \/ WriteBootstrap(c)
  BY <1>4
  DEF StatAgents, WriteAgents, WritePrompt, WriteBootstrap, Shown, ShownLog, ShownStarted,
      ShownFinal, Load
<1> QED BY <1>1, <1>2, <1>3, <1>4 DEF Step

\* The other steps change no file that the log is read from.
LEMMA QuietSteps ==
  ASSUME [Next]_vars, \A c \in Calls : ~Step(c), \A c, d \in Calls : ~Overlap(c, d)
  PROVE  UNCHANGED <<disk, artifact, master>>
BY DEF Next, Issue, Start, Complete, Finalize, Bootstrap, Fail, Crash, Tick, vars

LEMMA NextShown ==
  ASSUME IInv, AllFresh, SessionsAlone, [Next]_vars
  PROVE  Log!Next \/ Shown' = Shown
<1>0. \A c, d \in Calls : ~Overlap(c, d)
  BY DEF SessionsAlone, AloneOn, Overlap, AtStateWrite
<1>1. CASE \A c \in Calls : ~Step(c)
  BY <1>0, <1>1, QuietSteps DEF Shown, ShownLog, ShownStarted, ShownFinal, Load
<1>2. ASSUME NEW c \in Calls, Step(c) PROVE Log!Next \/ Shown' = Shown
  <2>1. UpToDate(call[c])
    <3>1. CASE call[c].s \in Sessions
      BY <3>1 DEF AllFresh, FreshOn
    <3>2. CASE call[c].s \notin Sessions
      BY <3>2 DEF IInv, CallOK, UpToDate
    <3> QED BY <3>1, <3>2
  <2>2. ASSUME NEW s \in Sessions, s = call[c].s PROVE Log!Next \/ Shown' = Shown
    <3>1. LogStep(s) \/ Shown' = Shown
      BY <1>2, <2>1, <2>2, StepShown
    <3> QED BY <3>1 DEF LogStep, Log!Next, Phases
  <2>3. CASE call[c].s \notin Sessions
    <3>1. call[c].pc = "bootstrap"
      BY <1>2, <2>3 DEF IInv, CallOK, Step, WriteArtifact, WriteState, StatAgents, WriteAgents,
                        WriteMaster, WritePrompt, WriteFinalState, WriteBootstrap
    <3>2. UNCHANGED <<disk, artifact, master>>
      BY <1>2, <3>1 DEF Step, WriteArtifact, WriteState, StatAgents, WriteAgents, WriteMaster,
                        WritePrompt, WriteFinalState, WriteBootstrap
    <3> QED BY <3>2 DEF Shown, ShownLog, ShownStarted, ShownFinal, Load
  <2> QED BY <2>2, <2>3
<1> QED BY <1>1, <1>2

\* What one session shows changes with its own handlers' steps only.
ShownOf(s) == <<ShownLog[s], s \in ShownStarted, ShownFinal[s]>>

LEMMA OthersUnseen ==
  ASSUME IInv, NEW s \in Sessions, NEW c \in Calls, Step(c), call[c].s # s
  PROVE  ShownOf(s)' = ShownOf(s)
<1>1. disk'[s] = disk[s] /\ artifact'[s] = artifact[s] /\ master'[s] = master[s]
  BY DEF Step, WriteArtifact, WriteState, StatAgents, WriteAgents, WriteMaster,
         WritePrompt, WriteFinalState, WriteBootstrap, IInv, TypeOK
<1>2. Load(s)' = Load(s)
  BY <1>1 DEF Load
<1> QED BY <1>1, <1>2 DEF ShownOf, ShownLog, ShownStarted, ShownFinal

LEMMA NextShownOf ==
  ASSUME IInv, NEW s \in Sessions, FreshOn(s), AloneOn(s), [Next]_vars
  PROVE  LogStep(s) \/ ShownOf(s)' = ShownOf(s)
<1>3. ASSUME NEW c \in Calls, NEW d \in Calls, Overlap(c, d) PROVE ShownOf(s)' = ShownOf(s)
  <2>1. disk'[s] = disk[s] /\ UNCHANGED <<artifact, master>>
    BY <1>3, OverlapElsewhere DEF IInv
  <2>2. Load(s)' = Load(s)
    BY <2>1 DEF Load
  <2> QED BY <2>1, <2>2 DEF ShownOf, ShownLog, ShownStarted, ShownFinal
<1>1. CASE (\A c \in Calls : ~Step(c)) /\ \A c, d \in Calls : ~Overlap(c, d)
  BY <1>1, QuietSteps DEF ShownOf, ShownLog, ShownStarted, ShownFinal, Load
<1>2. ASSUME NEW c \in Calls, Step(c) PROVE LogStep(s) \/ ShownOf(s)' = ShownOf(s)
  <2>1. CASE call[c].s = s
    <3>1. UpToDate(call[c])
      BY <2>1 DEF FreshOn
    <3>2. LogStep(s) \/ Shown' = Shown
      BY <1>2, <2>1, <3>1, StepShown
    <3> QED BY <3>2 DEF Shown, ShownOf
  <2> QED BY <1>2, <2>1, OthersUnseen
<1> QED BY <1>1, <1>2, <1>3

\* The log of one session by itself.
LogOf(t) == INSTANCE PlanLog WITH
  Sessions <- {t},
  log <- [s \in {t} |-> ShownLog[s]],
  started <- ShownStarted \cap {t},
  final <- [s \in {t} |-> ShownFinal[s]]

LEMMA StepOfOne ==
  ASSUME NEW s \in Sessions, LogStep(s)
  PROVE  LogOf(s)!Next
<1>1. ASSUME Log!Open(s) PROVE LogOf(s)!Open(s)
  <2>1. ShownLog'[s] = [i \in 1..N |-> NoContent]
    BY <1>1 DEF Log!Open, Log!Empty, ShownLog
  <2>2. ShownFinal'[s] = NoContent
    BY <1>1 DEF Log!Open, ShownFinal
  <2>3. s \in ShownStarted'
    BY <1>1 DEF Log!Open, ShownStarted
  <2> QED BY <2>1, <2>2, <2>3 DEF LogOf!Open, LogOf!Empty
<1>2. ASSUME NEW x \in Contents, Log!Close(s, x) PROVE LogOf(s)!Close(s, x)
  <2>1. s \in ShownStarted /\ ShownStarted' = ShownStarted
    BY <1>2 DEF Log!Close, ShownStarted
  <2>2. ShownLog' = ShownLog
    BY <1>2 DEF Log!Close, ShownLog
  <2>3. ShownFinal[s] = NoContent /\ ShownFinal'[s] = x
    BY <1>2 DEF Log!Close, ShownFinal
  <2>4. \A j \in 1..N : ShownLog[s][j] # NoContent
    BY <1>2 DEF Log!Close, Log!Full, ShownLog
  <2> QED BY <2>1, <2>2, <2>3, <2>4 DEF LogOf!Close, LogOf!Full
<1>3. ASSUME NEW x \in Contents, NEW i \in Phases, Log!Accept(s, i, x)
      PROVE  LogOf(s)!Accept(s, i, x)
  <2>1. s \in ShownStarted /\ ShownStarted' = ShownStarted
    BY <1>3 DEF Log!Accept, ShownStarted
  <2>2. ShownFinal' = ShownFinal
    BY <1>3 DEF Log!Accept, ShownFinal
  <2>3. ShownLog'[s] = [ShownLog[s] EXCEPT ![i] = x]
    BY <1>3 DEF Log!Accept, ShownLog
  <2>4. \A j \in 1..N : ShownLog[s][j] # NoContent <=> j < i
    BY <1>3 DEF Log!Accept, Log!NextToAccept, ShownLog
  <2> QED BY <2>1, <2>2, <2>3, <2>4 DEF LogOf!Accept, LogOf!NextToAccept
<1> QED BY <1>1, <1>2, <1>3 DEF LogStep, LogOf!Next, Phases

LEMMA InitOfOne ==
  ASSUME NEW s \in Sessions, Init
  PROVE  LogOf(s)!Init
<1>1. /\ ShownLog[s] \in [1..N -> Contents \cup {NoContent}]
      /\ ShownFinal[s] \in Contents \cup {NoContent}
      /\ s \notin ShownStarted => ShownLog[s] = [i \in 1..N |-> NoContent]
      /\ ShownFinal[s] # NoContent => \A j \in 1..N : ShownLog[s][j] # NoContent
      /\ \E i \in 1..(N + 1) : \A j \in 1..N : ShownLog[s][j] # NoContent <=> j < i
  BY InitShown
  DEF Log!Init, Log!Empty, Log!NextToAccept, Log!Full, ShownLog, ShownStarted, ShownFinal
<1> HIDE DEF ShownLog, ShownFinal, ShownStarted
<1> QED
  BY <1>1 DEF LogOf!Init, LogOf!Empty, LogOf!NextToAccept, LogOf!Full

-----------------------------------------------------------------------------
(* Theorems *)

\* A session that one handler at a time works on is an append-only log:
\* artifacts are accepted in order and stay, the master plan closes it, and
\* failed writes, crashes, what an earlier version left behind, and whatever
\* the handlers of the other sessions do meanwhile, do not show (Start,
\* Complete, Finalize, Load).
THEOREM SessionIsLog ==
  ASSUME NEW s \in Sessions
  PROVE  Spec /\ []AloneOn(s) => LogOf(s)!Spec
<1>1. Init => LogOf(s)!Init
  BY InitOfOne
<1>2. IInv /\ FreshOn(s) /\ AloneOn(s) /\ [Next]_vars => [LogOf(s)!Next]_(LogOf(s)!logVars)
  <2>1. ShownOf(s)' = ShownOf(s) => UNCHANGED LogOf(s)!logVars
    BY DEF ShownOf, LogOf!logVars, ShownStarted
  <2> QED BY <2>1, NextShownOf, StepOfOne
<1> QED BY <1>1, <1>2, AlwaysFreshOn, PTL DEF Spec, LogOf!Spec

\* If every session is worked on by one handler at a time, all of them
\* together are the abstract logs (Start, Complete, Finalize).
THEOREM SessionsAreLogs == Spec /\ []SessionsAlone => ImplementsPlanLog
<1>1. IInv /\ AllFresh /\ SessionsAlone /\ [Next]_vars => [Log!Next]_Shown
  BY NextShown
<1> QED
  BY <1>1, InitShown, AlwaysFresh, PTL
  DEF Spec, ImplementsPlanLog, Log!Spec, Log!logVars, Shown, ShownLog, ShownStarted, ShownFinal

\* Of such sessions the documentation is right: complete_planning_phase writes
\* the artifact of the phase that is open on disk, and the write that ends it
\* takes the session exactly one phase on (Complete); run workflow_lost_update
\* shows that the first fails as soon as two calls are in flight for one session.
THEOREM OpensNextWhenAlone ==
  Spec /\ []SessionsAlone => WritesCurrentPhase /\ OpensExactlyNext
<1>1. ASSUME IInv, AllFresh, NEW c \in Calls, call[c].pc \in {"artifact", "complete"}
      PROVE  MayComplete(Load(call[c].s), call[c].p)
  <2>1. call[c].p \in Phases /\ Load(call[c].s) = Canonical(call[c].p - 1)
    BY <1>1 DEF IInv, CallOK, AllFresh, FreshOn, UpToDate
  <2> QED BY <2>1, CanonicalOpen
<1>2. ASSUME IInv, AllFresh, NEW c \in Calls, WriteState(c), call[c].pc = "complete"
      PROVE  disk'[call[c].s] = Completed(Load(call[c].s), call[c].p)
  <2>1. PICK s \in Sessions, p \in Phases :
        /\ s = call[c].s /\ p = call[c].p /\ call[c].st = Canonical(p)
        /\ Load(s) = Canonical(p - 1)
    BY <1>2 DEF IInv, CallOK, AllFresh, FreshOn, UpToDate
  <2>2. disk'[s] = Canonical(p)
    BY <1>2, <2>1 DEF WriteState, IInv, TypeOK
  <2> QED BY <2>1, <2>2, CompletedAdvances
<1>3. IInv /\ AllFresh /\ [Next]_vars =>
        [\A c \in Calls : WriteArtifact(c) => MayComplete(Load(call[c].s), call[c].p)]_vars
  BY <1>1 DEF WriteArtifact
<1>4. IInv /\ AllFresh /\ [Next]_vars =>
        [\A c \in Calls : WriteState(c) /\ call[c].pc = "complete" =>
           LET k == call[c] IN
           /\ MayComplete(Load(k.s), k.p)
           /\ disk'[k.s] = Completed(Load(k.s), k.p)]_vars
  BY <1>1, <1>2
<1> QED BY <1>3, <1>4, AlwaysFresh, PTL DEF Spec, WritesCurrentPhase, OpensExactlyNext

\* Of the handlers past their look at AGENTS.md, one at a time.
AgentsAlone ==
  \A c, d \in Calls :
    call[c].pc \in {"agents", "bootstrap"} /\ call[d].pc \in {"agents", "bootstrap"} => c = d

\* Nobody has written AGENTS.md since a finalization found none.
StillNone == \A c \in Calls : call[c].pc = "agents" => agents = "none"

LEMMA NextStillNone ==
  ASSUME TypeOK, StillNone, AgentsAlone, [Next]_vars
  PROVE  StillNone'
<1>1. ASSUME NEW c \in Calls, WriteAgents(c) \/ WriteBootstrap(c) PROVE StillNone'
  <2>1. \A d \in Calls : call'[d].pc = "agents" => d # c /\ call[d].pc = "agents"
    BY <1>1 DEF WriteAgents, WriteBootstrap, TypeOK, CallState, Idle, Running
  <2> QED BY <1>1, <2>1 DEF AgentsAlone, WriteAgents, WriteBootstrap, StillNone
<1>2. ASSUME NEW c \in Calls, Issue(c) \/ Fail(c) \/ WriteArtifact(c) \/ WriteState(c)
             \/ WriteMaster(c) \/ WritePrompt(c) \/ WriteFinalState(c)
      PROVE  StillNone'
  <2>1. agents' = agents /\ \A d \in Calls : d # c => call'[d] = call[d]
    BY <1>2 DEF Issue, Start, Complete, Finalize, Bootstrap, Fail, WriteArtifact, WriteState,
                WriteMaster, WritePrompt, WriteFinalState, TypeOK
  <2>2. call'[c].pc # "agents"
    <3>1. CASE Issue(c)
      BY <3>1 DEF Issue, Start, Complete, Finalize, Bootstrap, TypeOK, Running
    <3>2. CASE Fail(c) \/ WriteState(c) \/ WriteFinalState(c)
      BY <3>2 DEF Fail, WriteState, WriteFinalState, TypeOK, Idle, Running
    <3>3. CASE WriteArtifact(c)
      BY <3>3 DEF WriteArtifact, TypeOK, CallState
    <3>4. CASE WriteMaster(c) \/ WritePrompt(c)
      BY <3>4 DEF WriteMaster, WritePrompt, TypeOK, CallState
    <3> QED BY <1>2, <3>1, <3>2, <3>3, <3>4
  <2> QED BY <2>1, <2>2 DEF StillNone
<1>3. ASSUME NEW c \in Calls, StatAgents(c) PROVE StillNone'
  BY <1>3 DEF StatAgents, StillNone, TypeOK, CallState
<1>4. CASE Crash \/ Tick \/ UNCHANGED vars
  BY <1>4 DEF Crash, Tick, vars, StillNone, Idle, Running
<1>5. ASSUME NEW c \in Calls, NEW d \in Calls, Overlap(c, d) PROVE StillNone'
  BY <1>5 DEF Overlap, StillNone, Idle, Running
<1> QED BY <1>1, <1>2, <1>3, <1>4, <1>5 DEF Next, Step

\* If no two handlers are on their way to write AGENTS.md, whatever else is in
\* flight, a finalization writes it only where there is none
\* (ensureAgentsMarkdown).
THEOREM AgentsStay == Spec /\ []AgentsAlone => AgentsKeptByFinalize
<1>1. Init => StillNone
  BY DEF Init, StillNone, Idle, Running
<1>2. TypeOK /\ StillNone /\ AgentsAlone /\ [Next]_vars => StillNone'
  BY NextStillNone
<1>3. StillNone /\ [Next]_vars =>
        [agents # "none" => agents' # "finalize" \/ agents' = agents]_vars
  <2> SUFFICES ASSUME StillNone, [Next]_vars, agents # "none"
               PROVE  agents' # "finalize" \/ agents' = agents
    OBVIOUS
  <2>1. ASSUME NEW c \in Calls, Issue(c) \/ Step(c) \/ Fail(c)
        PROVE  agents' # "finalize" \/ agents' = agents
    <3>1. ~WriteAgents(c)
      BY DEF StillNone, WriteAgents
    <3> QED
      BY <2>1, <3>1
      DEF Issue, Start, Complete, Finalize, Bootstrap, Fail, Step, WriteArtifact, WriteState,
          StatAgents, WriteMaster, WritePrompt, WriteFinalState, WriteBootstrap
  <2>2. CASE Crash \/ Tick \/ (\E c, d \in Calls : Overlap(c, d)) \/ UNCHANGED vars
    BY <2>2 DEF Crash, Tick, Overlap, vars
  <2> QED BY <2>1, <2>2 DEF Next
<1> QED BY <1>1, <1>2, <1>3, TypeCorrect, PTL DEF Spec, AgentsKeptByFinalize

\* All of this holds for a client that waits for each answer (the tools'
\* next_action asks for one call after the other), and no session of its is
\* ever stuck.
THEOREM SerialClient ==
  Serial /\ Spec => /\ ImplementsPlanLog
                    /\ WritesCurrentPhase /\ OpensExactlyNext
                    /\ AgentsKeptByFinalize
                    /\ []NoDeadEnd
<1>1. OneAtATime => AgentsAlone
  BY DEF OneAtATime, AgentsAlone
<1>2. SessionsAlone => \A s \in Sessions : WritesApart(s)
  BY DEF SessionsAlone, AloneOn, WritesApart, AtStateWrite
<1> QED
  BY <1>1, <1>2, OneInFlight, SerialIsAlone, SessionsAreLogs, OpensNextWhenAlone, AgentsStay,
     NoneIsStuck, PTL

=============================================================================
