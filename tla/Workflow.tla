------------------------------- MODULE Workflow -------------------------------
(***************************************************************************)
(* The staged planning workflow (internal/workflow/workflow.go) together   *)
(* with the tool handlers that call it.  A session is a workflow.json, one *)
(* artifact file per phase and a master plan; every handler runs in a      *)
(* goroutine of the HTTP server, loads the state, works on its own copy    *)
(* and writes files one at a time.  No lock orders two handlers, and a     *)
(* process that dies between two writes leaves what it has written.        *)
(* A file write (temporary file, then rename) is one step here; module     *)
(* AtomicFile looks inside it.  Two handlers that write one file at a time *)
(* share its temporary file: what that leaves of a workflow.json is the    *)
(* action Overlap; of the other files, which no handler parses, it is only *)
(* asked that they are there.                                              *)
(***************************************************************************)
EXTENDS Naturals, Sequences

CONSTANTS N,             \* number of phases (10 in phaseDefinitions)
          Calls,         \* handler goroutines that may be in flight at once
          Titles,        \* slugs of session titles
          PromptTitles,  \* slugs of implementation prompt titles
          MaxPrompts,    \* bound: prompts handed to one finalization
          Contents,      \* what a client submits as artifact or master plan
          NoContent,     \* the file does not exist
          NoSession,     \* no session
          MaxTime,       \* bound: seconds in which a session may start
          MaxFaults,     \* bound: failed writes plus process crashes
          Serial,        \* TRUE: a client waits for each answer
          Legacy         \* sessions that may exist when the server starts

Phases == 1..N
NoPhase == 0
Seconds == 0..(MaxTime - 1)

\* A session id is the second it was started in and the slug of its title.
Sessions == Seconds \X Titles

ASSUME NAssumption == N \in Nat \ {0}
ASSUME BoundsAssumption == MaxTime \in Nat /\ MaxFaults \in Nat /\ MaxPrompts \in Nat
ASSUME NoContentAssumption == NoContent \notin Contents
ASSUME NoSessionAssumption == NoSession \notin Sessions
ASSUME SerialAssumption == Serial \in BOOLEAN

VARIABLES now,       \* the second shown by the server's clock
          disk,      \* disk[s]: the workflow.json of session s
          artifact,  \* artifact[s][p]: the artifact file of phase p
          master,    \* master[s]: the file final/master-plan.md
          prompt,    \* prompt[t, q]: the session whose finalization wrote it
          agents,    \* the project's AGENTS.md: who wrote it
          call,      \* call[c]: the local state of handler c
          faults     \* failed writes and crashes so far

vars == <<now, disk, artifact, master, prompt, agents, call, faults>>

-----------------------------------------------------------------------------
(* workflow.json *)

LegacyStatus == {"awaiting_user_approval", "approved"}
PhaseStatus == {"pending", "in_progress", "completed"} \cup LegacyStatus
Status == {"absent", "torn", "in_progress", "ready_for_finalization", "completed"}

State == [status : Status, current : 0..N, phase : [Phases -> PhaseStatus]]

\* The file does not exist.
Absent ==
  [status |-> "absent", current |-> NoPhase, phase |-> [p \in Phases |-> "pending"]]

\* The file is empty, or a mix of two, and Load cannot parse it.
Torn ==
  [status |-> "torn", current |-> NoPhase, phase |-> [p \in Phases |-> "pending"]]

\* Start: the first phase open, the others pending.
Fresh ==
  [status |-> "in_progress", current |-> 1,
   phase |-> [p \in Phases |-> IF p = 1 THEN "in_progress" ELSE "pending"]]

AllCompleted(st) == \A p \in Phases : st.phase[p] = "completed"

Upgraded(st) ==
  [st EXCEPT !.phase =
     [p \in Phases |-> IF st.phase[p] \in LegacyStatus THEN "completed" ELSE st.phase[p]]]

\* The phases after the current one that are not completed.
Remaining(st) == {q \in Phases : q > st.current /\ st.phase[q] # "completed"}

OpenNext(st) ==
  LET q == CHOOSE q \in Remaining(st) : \A r \in Remaining(st) : q <= r
  IN  [st EXCEPT !.current = q, !.phase = [st.phase EXCEPT ![q] = "in_progress"]]

CurrentIsDone(st) == st.current \in Phases /\ st.phase[st.current] = "completed"

\* Variants marked "slip" are plausible mistakes in the definition after them;
\* PROJECT.json names the property that each of them breaks.
\* Slip: the all-completed case is forgotten.
SlipNeverReady(st) ==
  IF st.status = "in_progress" /\ CurrentIsDone(st) /\ Remaining(st) # {} THEN OpenNext(st)
  ELSE st

\* Slip: the next phase is opened but current_phase still names the old one.
SlipCurrentKept(st) ==
  IF st.status # "in_progress" THEN st
  ELSE IF AllCompleted(st)
         THEN [st EXCEPT !.status = "ready_for_finalization", !.current = NoPhase]
  ELSE IF CurrentIsDone(st) /\ Remaining(st) # {}
         THEN [OpenNext(st) EXCEPT !.current = st.current]
  ELSE st

\* normalizeLegacyState on the phases and statuses alone.
Advanced(st) ==
  IF st.status # "in_progress" THEN st
  ELSE IF AllCompleted(st)
         THEN [st EXCEPT !.status = "ready_for_finalization", !.current = NoPhase]
  ELSE IF CurrentIsDone(st) /\ Remaining(st) # {} THEN OpenNext(st)
  ELSE st

NormalizeLegacyState(st) == Advanced(Upgraded(st))

Load(s) == NormalizeLegacyState(disk[s])

\* Slip: any phase reached so far may be completed (again).
SlipCompleteAgain(st, p) ==
  st.status = "in_progress" /\ p \in Phases /\ st.phase[p] # "pending"

\* Complete's checks on the loaded state; phase is the one the caller names.
MayComplete(st, p) ==
  /\ st.status = "in_progress"
  /\ p = st.current
  /\ p \in Phases
  /\ st.phase[p] = "in_progress"

\* Slip: no special case for the last phase.
SlipNoLastPhase(st, p) ==
  [st EXCEPT !.current = p + 1,
     !.phase = [q \in Phases |-> IF q = p THEN "completed"
                                 ELSE IF q = p + 1 THEN "in_progress" ELSE st.phase[q]]]

\* Complete's update of its copy of the state.
Completed(st, p) ==
  LET ph == [st.phase EXCEPT ![p] = "completed"]
  IN  IF p = N
        THEN [status |-> "ready_for_finalization", current |-> NoPhase, phase |-> ph]
        ELSE [status |-> st.status, current |-> p + 1,
              phase |-> [ph EXCEPT ![p + 1] = "in_progress"]]

\* Slip: only a second finalization is refused.
SlipFinalizeEarly(st) == st.status # "completed"

\* Finalize's checks on the loaded state.
MayFinalize(st) == st.status = "ready_for_finalization" /\ AllCompleted(st)

Finalized(st) == [st EXCEPT !.status = "completed"]

-----------------------------------------------------------------------------
(* Handlers in flight *)

ProgramCounter == {"idle", "start", "artifact", "complete", "stat", "agents",
                   "master", "prompts", "bootstrap"}

\* The place in its handler, the session, the handler's copy of the state,
\* the phase and the content the client named, the prompts still to write.
CallState ==
  [pc : ProgramCounter, s : Sessions \cup {NoSession}, st : State, p : 0..N,
   body : Contents \cup {NoContent}, todo : Seq(PromptTitles)]

Running(pc, s, st, p, x, ps) ==
  [pc |-> pc, s |-> s, st |-> st, p |-> p, body |-> x, todo |-> ps]

Idle == Running("idle", NoSession, Absent, NoPhase, NoContent, <<>>)

PromptLists == UNION {[1..k -> PromptTitles] : k \in 0..MaxPrompts}

\* The handler may be entered: one goroutine per call, and a client that
\* waits for its answers has no other call in flight.
MayIssue(c) ==
  /\ call[c].pc = "idle"
  /\ Serial => \A d \in Calls : call[d].pc = "idle"

\* What an earlier server version may have left of session s: k phases
\* approved, phase k + 1 in status cs unless all phases are approved.
LegacyState(k, cs) ==
  [status |-> "in_progress", current |-> IF k < N THEN k + 1 ELSE N,
   phase |-> [p \in Phases |-> IF p <= k THEN "approved"
                               ELSE IF p = k + 1 THEN cs ELSE "pending"]]

LegacyStates ==
  {Absent, Fresh} \cup
  {LegacyState(k, cs) : k \in 0..N, cs \in LegacyStatus \cup {"in_progress"}}

Init ==
  /\ now = 0
  /\ disk \in [Sessions -> LegacyStates]
  /\ \A s \in Sessions \ Legacy : disk[s] = Absent
  /\ artifact \in [Sessions -> [Phases -> Contents \cup {NoContent}]]
  /\ \A s \in Sessions, p \in Phases :
       artifact[s][p] # NoContent <=> disk[s].phase[p] \in LegacyStatus
  /\ master = [s \in Sessions |-> NoContent]
  /\ prompt = [f \in Titles \X PromptTitles |-> NoSession]
  /\ agents \in {"none", "user"}
  /\ call = [c \in Calls |-> Idle]
  /\ faults = 0

\* Start: the id is fixed by the clock and the title; nothing asks whether
\* the session exists already.
Start(c, t) ==
  /\ MayIssue(c)
  /\ now \in Seconds
  /\ call' = [call EXCEPT ![c] = Running("start", <<now, t>>, Fresh, NoPhase, NoContent, <<>>)]
  /\ UNCHANGED <<now, disk, artifact, master, prompt, agents, faults>>

\* Complete: load, check, keep a copy.
Complete(c, s, p, x) ==
  /\ MayIssue(c)
  /\ disk[s] # Absent
  /\ MayComplete(Load(s), p)
  /\ call' = [call EXCEPT ![c] = Running("artifact", s, Load(s), p, x, <<>>)]
  /\ UNCHANGED <<now, disk, artifact, master, prompt, agents, faults>>

\* Complete: the artifact file first, then the copy is advanced.
WriteArtifact(c) ==
  LET k == call[c] IN
  /\ k.pc = "artifact"
  /\ artifact' = [artifact EXCEPT ![k.s] = [@ EXCEPT ![k.p] = k.body]]
  /\ call' = [call EXCEPT ![c] = [k EXCEPT !.pc = "complete", !.st = Completed(k.st, k.p)]]
  /\ UNCHANGED <<now, disk, master, prompt, agents, faults>>

\* Start and Complete: the handler's copy becomes the file; the call returns.
WriteState(c) ==
  LET k == call[c] IN
  /\ k.pc \in {"start", "complete"}
  /\ disk' = [disk EXCEPT ![k.s] = k.st]
  /\ call' = [call EXCEPT ![c] = Idle]
  /\ UNCHANGED <<now, artifact, master, prompt, agents, faults>>

\* Finalize: load, check, keep a copy.
Finalize(c, s, x, ps) ==
  /\ MayIssue(c)
  /\ disk[s] # Absent
  /\ MayFinalize(Load(s))
  /\ call' = [call EXCEPT ![c] = Running("stat", s, Load(s), NoPhase, x, ps)]
  /\ UNCHANGED <<now, disk, artifact, master, prompt, agents, faults>>

\* Slip: an existing AGENTS.md ends more than the writing of that file.
SlipStatSkipsMaster(c) ==
  /\ call[c].pc = "stat"
  /\ call' = [call EXCEPT ![c].pc = IF agents = "none" THEN "agents" ELSE "prompts"]
  /\ UNCHANGED <<now, disk, artifact, master, prompt, agents, faults>>

\* Slip: the file is written without looking.
SlipNoStat(c) ==
  /\ call[c].pc = "stat"
  /\ call' = [call EXCEPT ![c].pc = "agents"]
  /\ UNCHANGED <<now, disk, artifact, master, prompt, agents, faults>>

\* ensureAgentsMarkdown: an existing file is left alone ...
StatAgents(c) ==
  /\ call[c].pc = "stat"
  /\ call' = [call EXCEPT ![c].pc = IF agents = "none" THEN "agents" ELSE "master"]
  /\ UNCHANGED <<now, disk, artifact, master, prompt, agents, faults>>

\* Slip: the prompts come before the plan they refer to.
SlipPromptsFirst(c) ==
  /\ call[c].pc = "agents"
  /\ agents' = "finalize"
  /\ call' = [call EXCEPT ![c].pc = "prompts"]
  /\ UNCHANGED <<now, disk, artifact, master, prompt, faults>>

\* ... and a missing one is written.
WriteAgents(c) ==
  /\ call[c].pc = "agents"
  /\ agents' = "finalize"
  /\ call' = [call EXCEPT ![c].pc = "master"]
  /\ UNCHANGED <<now, disk, artifact, master, prompt, faults>>

WriteMaster(c) ==
  LET k == call[c] IN
  /\ k.pc = "master"
  /\ master' = [master EXCEPT ![k.s] = k.body]
  /\ call' = [call EXCEPT ![c].pc = "prompts"]
  /\ UNCHANGED <<now, disk, artifact, prompt, agents, faults>>

\* One implementation prompt; its name holds the day, the session's title
\* and its own title, not the session's id.
WritePrompt(c) ==
  LET k == call[c] IN
  /\ k.pc = "prompts"
  /\ k.todo # <<>>
  /\ prompt' = [prompt EXCEPT ![<<k.s[2], Head(k.todo)>>] = k.s]
  /\ call' = [call EXCEPT ![c].todo = Tail(k.todo)]
  /\ UNCHANGED <<now, disk, artifact, master, agents, faults>>

WriteFinalState(c) ==
  LET k == call[c] IN
  /\ k.pc = "prompts"
  /\ k.todo = <<>>
  /\ disk' = [disk EXCEPT ![k.s] = Finalized(k.st)]
  /\ call' = [call EXCEPT ![c] = Idle]
  /\ UNCHANGED <<now, artifact, master, prompt, agents, faults>>

\* Handler c is about to write, or is writing, the workflow.json of session s.
AtStateWrite(c, s) ==
  /\ call[c].s = s
  /\ \/ call[c].pc \in {"start", "complete"}
     \/ call[c].pc = "prompts" /\ call[c].todo = <<>>

ToWrite(c) == IF call[c].pc = "prompts" THEN Finalized(call[c].st) ELSE call[c].st

\* Two handlers write one workflow.json at a time: the first rename makes the
\* file visible that both of them truncate and fill, and leaves the second
\* none.  The file may be either one's, or torn, now and for good; each may
\* be through, or be in the middle of it still.
Overlap(c, d) ==
  \E s \in Sessions, gone \in SUBSET {c, d} :
    /\ c # d /\ AtStateWrite(c, s) /\ AtStateWrite(d, s)
    /\ \E st \in {disk[s], Torn, ToWrite(c), ToWrite(d)} : disk' = [disk EXCEPT ![s] = st]
    /\ call' = [b \in Calls |-> IF b \in gone THEN Idle ELSE call[b]]
    /\ UNCHANGED <<now, artifact, master, prompt, agents, faults>>

\* The tool bootstrap_project_agents_md: stat, return if the file is there
\* and overwrite is not asked for ...
Bootstrap(c, overwrite) ==
  /\ MayIssue(c)
  /\ agents = "none" \/ overwrite
  /\ call' = [call EXCEPT ![c] = Running("bootstrap", NoSession, Absent, NoPhase, NoContent, <<>>)]
  /\ UNCHANGED <<now, disk, artifact, master, prompt, agents, faults>>

\* ... else write.
WriteBootstrap(c) ==
  /\ call[c].pc = "bootstrap"
  /\ agents' = "bootstrap"
  /\ call' = [call EXCEPT ![c] = Idle]
  /\ UNCHANGED <<now, disk, artifact, master, prompt, faults>>

\* A step of a handler already running: all of them write a file but one.
Step(c) ==
  \/ WriteArtifact(c) \/ WriteState(c) \/ StatAgents(c) \/ WriteAgents(c)
  \/ WriteMaster(c) \/ WritePrompt(c) \/ WriteFinalState(c) \/ WriteBootstrap(c)

\* Slip: the error of the artifact write is dropped.
SlipErrorDropped(c) ==
  /\ call[c].pc \notin {"idle", "stat"}
  /\ faults < MaxFaults
  /\ faults' = faults + 1
  /\ call' = [call EXCEPT ![c] =
       IF @.pc = "artifact" THEN [@ EXCEPT !.pc = "complete", !.st = Completed(@, call[c].p)]
                            ELSE Idle]
  /\ UNCHANGED <<now, disk, artifact, master, prompt, agents>>

\* A write fails: the handler returns the error at once.
Fail(c) ==
  /\ call[c].pc \notin {"idle", "stat"}
  /\ faults < MaxFaults
  /\ faults' = faults + 1
  /\ call' = [call EXCEPT ![c] = Idle]
  /\ UNCHANGED <<now, disk, artifact, master, prompt, agents>>

\* The process dies and is started again: every handler is gone.
Crash ==
  /\ faults < MaxFaults
  /\ \E c \in Calls : call[c].pc # "idle"
  /\ faults' = faults + 1
  /\ call' = [c \in Calls |-> Idle]
  /\ UNCHANGED <<now, disk, artifact, master, prompt, agents>>

Tick ==
  /\ now < MaxTime
  /\ now' = now + 1
  /\ UNCHANGED <<disk, artifact, master, prompt, agents, call, faults>>

Issue(c) ==
  \/ \E t \in Titles : Start(c, t)
  \/ \E s \in Sessions, p \in Phases, x \in Contents : Complete(c, s, p, x)
  \/ \E s \in Sessions, x \in Contents, ps \in PromptLists : Finalize(c, s, x, ps)
  \/ \E overwrite \in BOOLEAN : Bootstrap(c, overwrite)

Next ==
  \/ \E c \in Calls : Issue(c) \/ Step(c) \/ Fail(c)
  \/ \E c, d \in Calls : Overlap(c, d)
  \/ Crash
  \/ Tick

Spec == Init /\ [][Next]_vars

-----------------------------------------------------------------------------
(* Properties *)

\* The shapes the current code gives a state: k phases completed, the next
\* one open, the rest pending; all completed; finalized.
Canonical(k) ==
  [status |-> IF k = N THEN "ready_for_finalization" ELSE "in_progress",
   current |-> IF k = N THEN NoPhase ELSE k + 1,
   phase |-> [p \in Phases |-> IF p <= k THEN "completed"
                               ELSE IF p = k + 1 THEN "in_progress" ELSE "pending"]]

CanonicalStates == {Canonical(k) : k \in 0..N}
Final == Finalized(Canonical(N))

\* Every variable has its type; the counters keep their bounds.
TypeOK ==
  /\ now \in 0..MaxTime
  /\ disk \in [Sessions -> State]
  /\ artifact \in [Sessions -> [Phases -> Contents \cup {NoContent}]]
  /\ master \in [Sessions -> Contents \cup {NoContent}]
  /\ prompt \in [Titles \X PromptTitles -> Sessions \cup {NoSession}]
  /\ agents \in {"none", "user", "finalize", "bootstrap"}
  /\ call \in [Calls -> CallState]
  /\ faults \in 0..MaxFaults

\* However calls interleave, fail or die with the process, and whatever an
\* earlier version left behind, every state a handler loads or is about to
\* write has a completed prefix, one open phase after it and nothing beyond:
\* the phases can neither be skipped nor be closed all at once (Complete,
\* normalizeLegacyState).  A state that two writes at a time have torn is not
\* loaded at all.
StateWellFormed ==
  /\ \A s \in Sessions : Load(s) \in CanonicalStates \cup {Absent, Final, Torn}
  /\ \A c \in Calls : call[c].st \in CanonicalStates \cup {Absent}

\* A phase the state file calls completed has its artifact on disk, also
\* after a crash and after stale writes (Complete writes the artifact first).
ArtifactBacked ==
  \A s \in Sessions, p \in Phases :
    Load(s).phase[p] = "completed" => artifact[s][p] # NoContent

\* A master plan is only ever written over a full set of artifacts (Finalize).
MasterPlanGrounded ==
  \A s \in Sessions :
    master[s] # NoContent => \A p \in Phases : artifact[s][p] # NoContent

\* A session called completed has everything finalization promises: the
\* master plan and an AGENTS.md, however its finalizations were interrupted
\* (Finalize writes the state last).
CompletedIsFinal ==
  \A s \in Sessions :
    disk[s].status = "completed" => master[s] # NoContent /\ agents # "none"

\* An implementation prompt names a master plan that is on disk
\* (Finalize writes the prompts after the plan they refer to).
PromptsFollowPlan ==
  \A f \in Titles \X PromptTitles :
    prompt[f] # NoSession => master[prompt[f]] # NoContent

\* AGENTS.md, once there, is replaced by bootstrap_project_agents_md alone:
\* "a short root AGENTS.md if one does not already exist" (README.md:128).
AgentsKeptByFinalize ==
  [][agents # "none" => agents' # "finalize" \/ agents' = agents]_vars

\* docs/TOOL_CONTRACTS.md:301 of complete_planning_phase: "Writes the
\* current phase artifact, marks it complete, and opens exactly the next
\* phase."  The first of the three: when the artifact is written, its phase is
\* the open one of the session on disk.
WritesCurrentPhase ==
  [][\A c \in Calls : WriteArtifact(c) => MayComplete(Load(call[c].s), call[c].p)]_vars

\* The other two: the write that ends the call finds the phase still open in
\* the state on disk, and takes the session one phase on from there.
OpensExactlyNext ==
  [][\A c \in Calls : WriteState(c) /\ call[c].pc = "complete" =>
       LET k == call[c] IN
       /\ MayComplete(Load(k.s), k.p)
       /\ disk'[k.s] = Completed(Load(k.s), k.p)]_vars

\* A session with k phases behind it can be carried on: the code accepts the
\* call for its next phase, or its finalization, which takes it one further.
OneStepOn(s, k) ==
  /\ Load(s) = Canonical(k)
  /\ k < N => /\ MayComplete(Load(s), k + 1)
              /\ Completed(Load(s), k + 1) = Canonical(k + 1)
  /\ k = N => /\ MayFinalize(Load(s))
              /\ Finalized(Load(s)) = Final

CarriesOn(s) ==
  disk[s] # Absent /\ disk[s].status # "completed" => \E k \in 0..N : OneStepOn(s, k)

\* However calls fail or die with the process, and whatever an earlier version
\* left: no session gets into a state that the tools refuse to carry on, while
\* no two handlers write its state at a time (normalizeLegacyState, the checks
\* of Complete and Finalize).
NoDeadEnd == \A s \in Sessions : CarriesOn(s)

\* The abstract session: the artifacts of the completed phases in order, and
\* the master plan once the state file says completed.
Log == INSTANCE PlanLog WITH
  log <- [s \in Sessions |->
            [p \in Phases |-> IF Load(s).phase[p] = "completed" THEN artifact[s][p]
                                                               ELSE NoContent]],
  started <- {s \in Sessions : disk[s] # Absent},
  final <- [s \in Sessions |->
              IF disk[s].status = "completed" THEN master[s] ELSE NoContent]

\* When a client waits for each answer, a session is an append-only log: until
\* its id is started once more, which empties it, an accepted artifact or
\* master plan never changes again, phases close one at a time, and interrupted
\* calls leave no trace (the whole of Start, Complete, Finalize and Load).
ImplementsPlanLog == Log!Spec

\* Fairness.  Step: a goroutine that runs is scheduled and blocks on nothing.
\* Drive: the client follows next_action, asking for the open phase or the
\* finalization again and again until the session is completed.
Drive(s) ==
  \E c \in Calls, x \in Contents :
    \/ Complete(c, s, Load(s).current, x)
    \/ \E ps \in PromptLists : Finalize(c, s, x, ps)

LiveSpec ==
  /\ Spec
  /\ \A c \in Calls : WF_vars(Step(c))
  /\ \A s \in Sessions : SF_vars(Drive(s))
  /\ WF_vars(Tick)

\* No crash, failed write or legacy state leaves a session stuck: with a
\* client that keeps asking, every session that exists gets completed.
EverySessionFinishes ==
  \A s \in Sessions : disk[s].status # "absent" ~> disk[s].status = "completed"

=============================================================================
