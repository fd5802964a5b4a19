-------------------------- MODULE ToolServerProofs --------------------------
(***************************************************************************)
(* Proofs about ToolServer: the server is a user of the limiter, which     *)
(* keeps its bounds in it, and what the calls do to the projects' files.   *)
(***************************************************************************)
EXTENDS ToolServer, RateLimiterProofs

-----------------------------------------------------------------------------
(* The limiter in the server *)

\* Every step of the server is a step of the limiter, or none (checkToolRate).
LEMMA LimiterStep == [ServerNext]_serverVars => [Next]_vars
<1> SUFFICES ASSUME [ServerNext]_serverVars PROVE [Next]_vars
  OBVIOUS
<1>1. CASE UNCHANGED serverVars
  BY <1>1 DEF serverVars, limiterVars, vars
<1>2. CASE ServerTick
  BY <1>2 DEF ServerTick, Next
<1>3. ASSUME NEW c \in Calls, Enter(c) PROVE [Next]_vars
  <2>1. PICK in \in Inputs : RefuseRate(c, in) \/ RefuseInput(c, in) \/ Begin(c, in)
    BY <1>3 DEF Enter
  <2>2. in.tool \in Tools
    BY DEF Inputs
  <2>3. CASE RefuseRate(c, in)
    BY <2>3 DEF RefuseRate, limiterVars, vars
  <2>4. CASE RefuseInput(c, in) \/ Begin(c, in)
    BY <2>2, <2>4 DEF RefuseInput, Begin, Next
  <2> QED BY <2>1, <2>3, <2>4
<1>4. ASSUME NEW c \in Calls, Advance(c) PROVE [Next]_vars
  BY <1>4 DEF Advance, StatFile, LoadFile, Skip, WriteDocument, Fail, Report, limiterVars, vars
<1> QED BY <1>1, <1>2, <1>3, <1>4 DEF ServerNext

\* The server uses the limiter as module RateLimiter describes it: a step of
\* the sixteen handlers is an admission, a tick, or nothing to the limiter.
THEOREM UsesLimiter == ServerSpec => Spec
<1>1. ServerInit => Init
  BY DEF ServerInit
<1> QED BY <1>1, LimiterStep, PTL DEF ServerSpec, Spec

\* In the whole server, a window of the limiter's width holds at most MaxHits
\* admitted calls of a tool (checkToolRate, Allow).
THEOREM ServerWindowHolds == ServerSpec => []WindowBound
BY UsesLimiter, WindowHolds, PTL

\* However long the server runs, the limiter's memory is bounded (Allow).
THEOREM ServerMemoryHolds == ServerSpec => []MemoryBounded
BY UsesLimiter, MemoryHolds, PTL

\* In the whole server, a tool is refused exactly when it has used up its
\* window (Allow).
THEOREM ServerRefusalsJustified == ServerSpec => []RefusedExactlyWhenFull
BY UsesLimiter, RefusalsJustified, PTL

-----------------------------------------------------------------------------
(* The calls *)

\* The table of the handlers, tool by tool.
LEMMA Table ==
  ASSUME NEW t \in DOMAIN Registered
  PROVE  Registered[t] \in
           {HandleGetProjectBrainGuide, HandleListRoots, HandleListProjects,
            HandleInspectProject, HandleGetProjectTree, HandleReadProjectFile,
            HandleSearchProject, HandleBootstrapProjectAgentsMD, HandleCreateQuickPlan,
            HandleStartPlanningWorkflow, HandleGetPlanningWorkflowStatus,
            HandleGetCurrentPlanningPhase, HandleCompletePlanningPhase,
            HandleFinalizePlanningWorkflow, HandleReadToGPTMessage,
            HandleAppendFromGPTMessage}
BY DEF Registered

\* The only handlers that store without asking the guard look at the root
\* themselves (tools.go:720, 832, 912, 948).
LEMMA StoresAreChecked ==
  ASSUME NEW t \in DOMAIN Registered, NEW i \in 1..Len(Registered[t].work),
         Registered[t].work[i].does = "store"
  PROVE  \E j \in 1..Len(Registered[t].checks) : Registered[t].checks[j].test = "writable"
<1> DEFINE h == Registered[t]
<1>1. CASE h \in {HandleStartPlanningWorkflow, HandleCompletePlanningPhase,
                  HandleFinalizePlanningWorkflow}
  <2>1. HandleStartPlanningWorkflow.checks = <<Resolves, RootWritable, Check("text", "error")>>
        /\ HandleCompletePlanningPhase.checks = <<Resolves, RootWritable>>
        /\ HandleFinalizePlanningWorkflow.checks = <<Resolves, RootWritable>>
    BY DEF HandleStartPlanningWorkflow, HandleCompletePlanningPhase,
           HandleFinalizePlanningWorkflow, Handler
  <2>2. h.checks \in {<<Resolves, RootWritable, Check("text", "error")>>, <<Resolves, RootWritable>>}
    BY <1>1, <2>1
  <2>3. Len(h.checks) \in {2, 3} /\ h.checks[2] = RootWritable
    BY <2>2
  <2> QED BY <2>3 DEF RootWritable, Check
<1>2. CASE h \notin {HandleStartPlanningWorkflow, HandleCompletePlanningPhase,
                     HandleFinalizePlanningWorkflow}
  BY <1>2, Table
     DEF HandleGetProjectBrainGuide, HandleListRoots, HandleListProjects,
         HandleInspectProject, HandleGetProjectTree, HandleReadProjectFile,
         HandleSearchProject, HandleBootstrapProjectAgentsMD, HandleCreateQuickPlan,
         HandleGetPlanningWorkflowStatus, HandleGetCurrentPlanningPhase,
         HandleReadToGPTMessage, HandleAppendFromGPTMessage,
         Handler, Write, Load, Stat, Step
<1> QED BY <1>1, <1>2

\* What every call has behind it: a call that works has passed the checks.
CallsInv ==
  /\ input \in [Calls -> Inputs \cup {NoInput}]
  /\ place \in [Calls -> Nat]
  /\ answer \in [Calls -> Answers]
  /\ \A c \in Calls : place[c] > 0 => input[c] \in Inputs
  /\ \A c \in Calls : Running(c) => Failing(input[c]) = {}

\* A call that writes writes where it may: StoresAreChecked or the guard.
LEMMA WritesWhereAllowed ==
  ASSUME CallsInv, NEW c \in Calls, WriteDocument(c)
  PROVE  input[c].project \notin ReadOnly
<1>1. Running(c) /\ place[c] \in 1..Len(Handles(c).work)
  BY DEF CallsInv, WriteDocument, AtStep, Running
<1>2. CASE Current(c).does = "write"
  BY <1>2 DEF WriteDocument, WriteAllowed
<1>3. CASE Current(c).does # "write"
  <2>1. Handles(c).work[place[c]].does = "store"
    BY <1>3 DEF WriteDocument, AtStep, Current
  <2>2. input[c] \in Inputs /\ Failing(input[c]) = {}
    BY <1>1 DEF CallsInv, Running
  <2>3. input[c].tool \in DOMAIN Registered
    BY <2>2, ToolsAssumption DEF Inputs
  <2>4. PICK j \in 1..Len(Handles(c).checks) : Handles(c).checks[j].test = "writable"
    BY <1>1, <2>1, <2>3, StoresAreChecked DEF Handles
  <2>5. Holds("writable", input[c])
    BY <2>2, <2>4 DEF Failing, Handles
  <2> QED BY <2>5 DEF Holds
<1> QED BY <1>2, <1>3

\* Every handler that writes resolves its project first.
LEMMA WritersResolve ==
  ASSUME NEW t \in DOMAIN Registered, NEW i \in 1..Len(Registered[t].work)
  PROVE  Len(Registered[t].checks) >= 1 /\ Registered[t].checks[1].test = "resolves"
<1> DEFINE h == Registered[t]
<1>1. h \notin {HandleGetProjectBrainGuide, HandleListRoots}
  BY DEF HandleGetProjectBrainGuide, HandleListRoots, Handler
<1> QED BY <1>1, Table
   DEF HandleListProjects,
       HandleInspectProject, HandleGetProjectTree, HandleReadProjectFile,
       HandleSearchProject, HandleBootstrapProjectAgentsMD, HandleCreateQuickPlan,
       HandleStartPlanningWorkflow, HandleGetPlanningWorkflowStatus,
       HandleGetCurrentPlanningPhase, HandleCompletePlanningPhase,
       HandleFinalizePlanningWorkflow, HandleReadToGPTMessage,
       HandleAppendFromGPTMessage, Handler, Resolves, RootWritable, Check

LEMMA WritesWhereKnown ==
  ASSUME CallsInv, NEW c \in Calls, Running(c), place[c] <= Len(Handles(c).work)
  PROVE  input[c].project \in Projects
<1>1. input[c] \in Inputs /\ Failing(input[c]) = {} /\ place[c] \in Nat \ {0}
  BY DEF CallsInv, Running
<1>2. input[c].tool \in DOMAIN Registered
  BY <1>1, ToolsAssumption DEF Inputs
<1>3. Len(Handles(c).checks) >= 1 /\ Handles(c).checks[1].test = "resolves"
  BY <1>1, <1>2, WritersResolve DEF Handles
<1>4. Holds("resolves", input[c])
  BY <1>1, <1>3 DEF Failing, Handles
<1> QED BY <1>4 DEF Holds

ReadOnlyInv == CallsInv /\ ReadOnlyUntouched

LEMMA CallsInvInit == ServerInit => ReadOnlyInv
BY DEF ServerInit, ReadOnlyInv, CallsInv, ReadOnlyUntouched, Running, Answers

LEMMA EnterCallsInv ==
  ASSUME CallsInv, NEW c \in Calls, Enter(c)
  PROVE  CallsInv'
<1>1. PICK in \in Inputs : RefuseRate(c, in) \/ RefuseInput(c, in) \/ Begin(c, in)
  BY DEF Enter
<1>2. /\ input' = [input EXCEPT ![c] = in]
      /\ place[c] = 0
      /\ \/ place' = place /\ answer' = [answer EXCEPT ![c] = "error"]
         \/ place' = [place EXCEPT ![c] = 1] /\ answer' = [answer EXCEPT ![c] = "error"]
         \/ place' = [place EXCEPT ![c] = 1] /\ answer' = answer /\ Failing(in) = {}
  BY <1>1 DEF Enter, RefuseRate, RefuseInput, Begin, Answer
<1>3. /\ input' \in [Calls -> Inputs \cup {NoInput}]
      /\ place' \in [Calls -> Nat]
      /\ answer' \in [Calls -> Answers]
  BY <1>2 DEF CallsInv, Answers
<1>4. \A d \in Calls : place'[d] > 0 => input'[d] \in Inputs
  <2> SUFFICES ASSUME NEW d \in Calls, place'[d] > 0 PROVE input'[d] \in Inputs
    OBVIOUS
  <2>1. CASE d # c
    BY <1>2, <2>1 DEF CallsInv
  <2>2. CASE d = c
    BY <1>2, <2>2 DEF CallsInv
  <2> QED BY <2>1, <2>2
<1>5. \A d \in Calls : Running(d)' => (Failing(input[d]) = {})'
  <2> SUFFICES ASSUME NEW d \in Calls, Running(d)' PROVE (Failing(input[d]) = {})'
    OBVIOUS
  <2>1. CASE d # c
    <3>1. Running(d) /\ input'[d] = input[d]
      BY <1>2, <2>1 DEF CallsInv, Running
    <3>2. Failing(input[d]) = {}
      BY <3>1 DEF CallsInv
    <3> QED BY <3>1, <3>2 DEF Failing, Holds
  <2>2. CASE d = c
    <3>1. Failing(in) = {} /\ input'[c] = in
      BY <1>2, <2>2 DEF CallsInv, Running
    <3> QED BY <3>1, <2>2
  <2> QED BY <2>1, <2>2
<1> QED BY <1>3, <1>4, <1>5 DEF CallsInv

LEMMA AdvanceCallsInv ==
  ASSUME CallsInv, NEW c \in Calls, Advance(c)
  PROVE  CallsInv'
<1>1. /\ input' = input /\ Running(c)
      /\ place' = place \/ place' = [place EXCEPT ![c] = @ + 1]
      /\ answer' = answer \/ \E a \in {"ok", "error"} : answer' = [answer EXCEPT ![c] = a]
  BY DEF Advance, StatFile, LoadFile, Skip, WriteDocument, Fail, Report, GoOn, Answer, AtStep
<1>2. place' \in [Calls -> Nat] /\ answer' \in [Calls -> Answers]
  BY <1>1 DEF CallsInv, Answers
<1>3. /\ \A d \in Calls : place'[d] > 0 => place[d] > 0
      /\ \A d \in Calls : answer'[d] = "none" => answer[d] = "none"
  BY <1>1 DEF CallsInv, Answers, Running
<1>4. \A d \in Calls : Running(d)' => Running(d)
  BY <1>3 DEF Running
<1> QED BY <1>1, <1>2, <1>3, <1>4 DEF CallsInv, Failing, Holds

LEMMA StepCallsInv == CallsInv /\ [ServerNext]_serverVars => CallsInv'
<1> SUFFICES ASSUME CallsInv, [ServerNext]_serverVars PROVE CallsInv'
  OBVIOUS
<1>1. CASE UNCHANGED callVars
  BY <1>1 DEF callVars, CallsInv, Running, Failing, Holds
<1>2. UNCHANGED serverVars \/ ServerTick => UNCHANGED callVars
  BY DEF serverVars, ServerTick
<1> QED BY <1>1, <1>2, EnterCallsInv, AdvanceCallsInv DEF ServerNext

LEMMA CallsInvariance == ServerSpec => []CallsInv
<1>1. ServerInit => CallsInv
  BY CallsInvInit DEF ReadOnlyInv
<1> QED BY <1>1, StepCallsInv, PTL DEF ServerSpec

\* No tool changes a file of a read-only root, whatever other calls do
\* meanwhile (tools.go:720, 832, 912, 948; guard.go:64).
THEOREM ReadOnlyRootsKept == ServerSpec => []ReadOnlyUntouched
<1>1. ReadOnlyInv /\ [ServerNext]_serverVars => ReadOnlyInv'
  <2> SUFFICES ASSUME ReadOnlyInv, [ServerNext]_serverVars PROVE ReadOnlyUntouched'
    BY StepCallsInv DEF ReadOnlyInv
  <2>1. CASE UNCHANGED disk
    BY <2>1 DEF ReadOnlyInv, ReadOnlyUntouched
  <2>2. ASSUME NEW c \in Calls, WriteDocument(c) PROVE ReadOnlyUntouched'
    <3>1. input[c].project \notin ReadOnly
      BY <2>2, WritesWhereAllowed DEF ReadOnlyInv
    <3>2. \A d \in disk' : d \in disk \/ d.project = input[c].project
      BY <2>2 DEF WriteDocument
    <3> QED BY <3>1, <3>2 DEF ReadOnlyInv, ReadOnlyUntouched
  <2>3. UNCHANGED serverVars \/ ServerTick => UNCHANGED disk
    BY DEF serverVars, ServerTick
  <2>4. \A c \in Calls : Enter(c) => UNCHANGED disk
    BY DEF Enter, RefuseRate, RefuseInput, Begin
  <2>5. \A c \in Calls : Advance(c) => UNCHANGED disk \/ WriteDocument(c)
    BY DEF Advance, StatFile, LoadFile, Skip, Fail, Report
  <2> QED BY <2>1, <2>2, <2>3, <2>4, <2>5 DEF ServerNext
<1>2. ReadOnlyInv => ReadOnlyUntouched
  BY DEF ReadOnlyInv
<1> QED BY <1>1, <1>2, CallsInvInit, PTL DEF ServerSpec

-----------------------------------------------------------------------------
(* Prompts and their plans *)

\* Prompts are the second step of a quick plan and the fifth of a finalization,
\* each right after the plan it points to (tools.go:752, workflow.go:421).
LEMMA PromptSteps ==
  ASSUME NEW t \in DOMAIN Registered, NEW i \in 1..Len(Registered[t].work),
         Registered[t].work[i].doc = "prompt"
  PROVE  \/ Registered[t] = HandleCreateQuickPlan /\ i = 2
         \/ Registered[t] = HandleFinalizePlanningWorkflow /\ i = 5
<1> DEFINE h == Registered[t]
<1>1. CASE h \notin {HandleCreateQuickPlan, HandleFinalizePlanningWorkflow}
  BY <1>1, Table
     DEF HandleGetProjectBrainGuide, HandleListRoots, HandleListProjects,
         HandleInspectProject, HandleGetProjectTree, HandleReadProjectFile,
         HandleSearchProject, HandleBootstrapProjectAgentsMD,
         HandleStartPlanningWorkflow, HandleCompletePlanningPhase,
         HandleGetPlanningWorkflowStatus, HandleGetCurrentPlanningPhase,
         HandleReadToGPTMessage, HandleAppendFromGPTMessage,
         Handler, Write, Load, Stat, Store, Step
<1>2. CASE h = HandleCreateQuickPlan
  BY <1>2 DEF HandleCreateQuickPlan, Handler, Write, Step
<1>3. CASE h = HandleFinalizePlanningWorkflow
  BY <1>3 DEF HandleFinalizePlanningWorkflow, Handler, Load, Stat, Store, Step
<1> QED BY <1>1, <1>2, <1>3

\* The step before a prompt's is always taken, and writes a plan.
LEMMA PlanSteps ==
  /\ HandleCreateQuickPlan.work[1] = Write("plan", "always", "blocked")
  /\ HandleFinalizePlanningWorkflow.work[4] = Store("master", "always", "blocked")
BY DEF HandleCreateQuickPlan, HandleFinalizePlanningWorkflow, Handler

LEMMA FileDoc == \A in, doc, t : FileOf(in, doc, t).doc = doc
BY DEF FileOf, RootFile, SessionFile

\* A document that is replaced is still there, by another hand.
LEMMA OnDiskKept ==
  ASSUME NEW c \in Calls, WriteDocument(c), NEW p, NEW f, OnDisk(p, f)
  PROVE  OnDisk(p, f)'
<1>1. PICK g : disk' = {d \in disk : d.project # input[c].project \/ d.file # g}
                 \cup {[project |-> input[c].project, file |-> g, by |-> c,
                        ref |-> Reference(c, g)]}
  BY DEF WriteDocument
<1>2. CASE p = input[c].project /\ f = g
  <2>1. PICK r : r = Reference(c, g)
    OBVIOUS
  <2>2. [project |-> p, file |-> f, by |-> c, ref |-> r] \in disk'
    BY <1>1, <1>2, <2>1
  <2> QED BY <2>2 DEF OnDisk
<1>3. CASE ~(p = input[c].project /\ f = g)
  <2>1. PICK d \in disk : d.project = p /\ d.file = f
    BY DEF OnDisk
  <2>2. d \in disk'
    BY <1>1, <1>3, <2>1
  <2> QED BY <2>1, <2>2 DEF OnDisk
<1> QED BY <1>2, <1>3

-----------------------------------------------------------------------------
(* Types *)

LEMMA StepTable ==
  ASSUME NEW t \in DOMAIN Registered, NEW i \in 1..Len(Registered[t].work)
  PROVE  /\ Registered[t].work[i].event \in {"blocked", "error", "silent"}
         /\ Registered[t].work[i].does \in {"write", "store", "load", "stat"}
BY Table
   DEF HandleGetProjectBrainGuide, HandleListRoots, HandleListProjects,
         HandleInspectProject, HandleGetProjectTree, HandleReadProjectFile,
         HandleSearchProject, HandleBootstrapProjectAgentsMD, HandleCreateQuickPlan,
         HandleStartPlanningWorkflow, HandleGetPlanningWorkflowStatus,
         HandleGetCurrentPlanningPhase, HandleCompletePlanningPhase,
         HandleFinalizePlanningWorkflow, HandleReadToGPTMessage,
         HandleAppendFromGPTMessage,
       Handler, Write, Load, Stat, Store, Step

LEMMA CheckTable ==
  ASSUME NEW t \in DOMAIN Registered, NEW i \in 1..Len(Registered[t].checks)
  PROVE  Registered[t].checks[i].event \in {"blocked", "error", "silent"}
BY Table
   DEF HandleGetProjectBrainGuide, HandleListRoots, HandleListProjects,
         HandleInspectProject, HandleGetProjectTree, HandleReadProjectFile,
         HandleSearchProject, HandleBootstrapProjectAgentsMD, HandleCreateQuickPlan,
         HandleStartPlanningWorkflow, HandleGetPlanningWorkflowStatus,
         HandleGetCurrentPlanningPhase, HandleCompletePlanningPhase,
         HandleFinalizePlanningWorkflow, HandleReadToGPTMessage,
         HandleAppendFromGPTMessage,
       Handler, Resolves, RootWritable, Check

LEMMA HandlersHaveWork == \A t \in DOMAIN Registered : Len(Registered[t].work) \in Nat
BY Table
   DEF HandleGetProjectBrainGuide, HandleListRoots, HandleListProjects,
         HandleInspectProject, HandleGetProjectTree, HandleReadProjectFile,
         HandleSearchProject, HandleBootstrapProjectAgentsMD, HandleCreateQuickPlan,
         HandleStartPlanningWorkflow, HandleGetPlanningWorkflowStatus,
         HandleGetCurrentPlanningPhase, HandleCompletePlanningPhase,
         HandleFinalizePlanningWorkflow, HandleReadToGPTMessage,
         HandleAppendFromGPTMessage,
       Handler, Write, Load, Stat, Store, Step

\* What a step writes, and what the tool takes for its name.
LEMMA WriteTable ==
  ASSUME NEW t \in DOMAIN Registered, NEW i \in 1..Len(Registered[t].work),
         Registered[t].work[i].does \in {"write", "store"}
  PROVE  LET h == Registered[t]
             s == h.work[i] IN
         \/ s.doc \in {"agents", "fromgpt"}
         \/ /\ s.doc \in {"plan", "prompt", "state"} /\ "title" \in h.takes
            /\ "session" \notin h.takes
         \/ s.doc \in {"state", "artifact", "master"} /\ "session" \in h.takes
         \/ s.doc = "prompt" /\ "title" \in h.takes /\ s.needs = "prompt"
<1> DEFINE h == Registered[t]
<1>1. CASE h \notin {HandleBootstrapProjectAgentsMD, HandleCreateQuickPlan,
                     HandleStartPlanningWorkflow, HandleCompletePlanningPhase,
                     HandleFinalizePlanningWorkflow, HandleAppendFromGPTMessage}
  BY <1>1, Table
     DEF HandleGetProjectBrainGuide, HandleListRoots, HandleListProjects,
         HandleInspectProject, HandleGetProjectTree, HandleReadProjectFile,
         HandleSearchProject, HandleGetPlanningWorkflowStatus,
         HandleGetCurrentPlanningPhase, HandleReadToGPTMessage,
         Handler, Load, Stat, Step
<1>2. CASE h = HandleBootstrapProjectAgentsMD
  BY <1>2 DEF HandleBootstrapProjectAgentsMD, Handler, Write, Stat, Step
<1>3. CASE h = HandleCreateQuickPlan
  BY <1>3 DEF HandleCreateQuickPlan, Handler, Write, Step
<1>4. CASE h = HandleStartPlanningWorkflow
  BY <1>4 DEF HandleStartPlanningWorkflow, Handler, Store, Step
<1>5. CASE h = HandleCompletePlanningPhase
  BY <1>5 DEF HandleCompletePlanningPhase, Handler, Load, Store, Step
<1>6. CASE h = HandleFinalizePlanningWorkflow
  BY <1>6 DEF HandleFinalizePlanningWorkflow, Handler, Load, Stat, Store, Step
<1>7. CASE h = HandleAppendFromGPTMessage
  BY <1>7 DEF HandleAppendFromGPTMessage, Handler, Load, Write, Step
<1> QED BY <1>1, <1>2, <1>3, <1>4, <1>5, <1>6, <1>7

\* The names of the documents of a call are names of files.
LEMMA FileTyped ==
  ASSUME NEW in \in Inputs, NEW i \in 1..Len(Registered[in.tool].work), NEW t \in 0..MaxTime,
         Registered[in.tool].work[i].does \in {"write", "store"},
         Registered[in.tool].work[i].needs = "prompt" => in.prompt
  PROVE  FileOf(in, Registered[in.tool].work[i].doc, t) \in Files
<1> DEFINE h == Registered[in.tool]
           doc == h.work[i].doc
<1>1. in.tool \in DOMAIN Registered
  BY ToolsAssumption DEF Inputs
<1>2. in.title \in Titles \cup {NoTitle} /\ in.session \in Sessions \cup {NoSession}
  BY DEF Inputs
<1>3. /\ "title" \in h.takes /\ ("session" \in h.takes => in.prompt) => in.title # NoTitle
      /\ "session" \in h.takes <=> in.session # NoSession
  BY DEF Inputs
<1>4. t \div Day \in Days /\ t \in 0..MaxTime
  BY DEF Days
<1>5. in.title # NoTitle => SlugOf[in.title] \in Slugs
  BY <1>2 DEF Slugs
<1>6. CASE doc \in {"agents", "fromgpt"}
  BY <1>6 DEF FileOf, RootFile, Files, RootFiles
<1>7. CASE doc \in {"plan", "prompt"} /\ in.title # NoTitle
  <2>1. FileOf(in, doc, t) = [doc |-> doc, at |-> t \div Day, slug |-> SlugOf[in.title]]
    BY <1>7 DEF FileOf
  <2>2. FileOf(in, doc, t) \in Documents
    BY <1>4, <1>5, <1>7, <2>1 DEF Documents
  <2> QED BY <2>2 DEF Files
<1>8. CASE /\ doc \in {"state", "artifact", "master"}
           /\ in.session # NoSession \/ in.title # NoTitle
  <2>1. FileOf(in, doc, t) = SessionFile(in, doc, t)
    BY <1>8 DEF FileOf
  <2>2. CASE in.session = NoSession
    <3>1. FileOf(in, doc, t) = [doc |-> doc, at |-> t, slug |-> SlugOf[in.title]]
      BY <2>1, <2>2 DEF SessionFile
    <3>2. FileOf(in, doc, t) \in SessionFiles
      BY <1>4, <1>5, <1>8, <2>2, <3>1 DEF SessionFiles
    <3> QED BY <3>2 DEF Files
  <2>3. CASE in.session # NoSession
    <3>1. FileOf(in, doc, t) = [doc |-> doc, at |-> in.session.at, slug |-> in.session.slug]
      BY <2>1, <2>3 DEF SessionFile
    <3>2. in.session.at \in 0..MaxTime /\ in.session.slug \in Slugs
      BY <1>2, <2>3, NamesAssumption
    <3>3. FileOf(in, doc, t) \in SessionFiles
      BY <1>8, <3>1, <3>2 DEF SessionFiles
    <3> QED BY <3>3 DEF Files
  <2> QED BY <2>2, <2>3
<1>9. \/ doc \in {"agents", "fromgpt"}
      \/ doc \in {"plan", "prompt", "state"} /\ "title" \in h.takes /\ "session" \notin h.takes
      \/ doc \in {"state", "artifact", "master"} /\ "session" \in h.takes
      \/ doc = "prompt" /\ "title" \in h.takes /\ h.work[i].needs = "prompt"
  BY <1>1, WriteTable
<1> QED BY <1>3, <1>6, <1>7, <1>8, <1>9

\* An audit event is one, whoever reports it.
LEMMA AuditTyped ==
  ASSUME log \subseteq Event, lost \subseteq Calls, NEW c \in Calls, NEW in \in Inputs,
         NEW decision \in {"allowed", "blocked", "error", "silent"},
         NEW file \in Files \cup {NoFile}, Audit(c, in, decision, file)
  PROVE  log' \subseteq Event /\ lost' \subseteq Calls
<1>1. CASE decision = "silent"
  BY <1>1 DEF Audit, auditVars
<1>2. CASE decision # "silent"
  <2>1. [call |-> c, tool |-> in.tool, project |-> in.project,
         decision |-> decision, file |-> file] \in Event
    BY <1>2 DEF Event, Inputs
  <2>2. \/ log' = log \cup {[call |-> c, tool |-> in.tool, project |-> in.project,
                             decision |-> decision, file |-> file]} /\ lost' = lost
        \/ lost' = lost \cup {c} /\ log' = log
    BY <1>2 DEF Audit
  <2> QED BY <2>1, <2>2
<1> QED BY <1>1, <1>2

LEMMA LimiterTypeStep == TypeOK /\ [Next]_vars => TypeOK'
<1> SUFFICES ASSUME TypeOK, [Next]_vars PROVE TypeOK'
  OBVIOUS
<1>1. CASE UNCHANGED vars \/ Tick
  BY <1>1, ClockAssumption DEF TypeOK, Tick, vars
<1>2. ASSUME NEW t \in Tools, Admit(t) PROVE TypeOK'
  <2>1. now \in Nat /\ when[t] \in Seq(Nat) /\ Len(when[t]) + 1 \in Nat
    BY DEF TypeOK
  <2>2. Valid(t) \subseteq Nat
    BY DEF TypeOK, Valid
  <2>3. when' \in [Tools -> Seq(Nat)]
    BY <1>2, <2>1 DEF TypeOK, Admit
  <2>4. hits' \in [Tools -> SUBSET Nat]
    BY <1>2, <2>1, <2>2 DEF TypeOK, Admit
  <2> QED BY <1>2, <2>3, <2>4 DEF TypeOK, Admit
<1> QED BY <1>1, <1>2 DEF Next

Placed == \A c \in Calls : place[c] > 0 =>
  input[c] # NoInput /\ place[c] <= Len(Handles(c).work) + 1

LEMMA InputIsOne == NoInput \notin Inputs
BY ToolsAssumption DEF NoInput, Inputs, Registered

LEMMA EnterTyped ==
  ASSUME CallsInv, CallsTypeOK, NEW c \in Calls, Enter(c)
  PROVE  /\ Placed' /\ absent' \in [Calls -> BOOLEAN] /\ wrote' \in [Calls -> Seq(Files)]
         /\ since' \in [Calls -> 0..MaxTime] /\ disk' \subseteq Entry
         /\ log' \subseteq Event /\ lost' \subseteq Calls
<1>1. PICK in \in Inputs : RefuseRate(c, in) \/ RefuseInput(c, in) \/ Begin(c, in)
  BY DEF Enter
<1>2. in.tool \in DOMAIN Registered
  BY ToolsAssumption DEF Inputs
<1>3. /\ input' = [input EXCEPT ![c] = in]
      /\ place' = place \/ place' = [place EXCEPT ![c] = 1]
      /\ UNCHANGED <<absent, wrote, disk>>
      /\ since' = since \/ since' = [since EXCEPT ![c] = now]
      /\ place[c] = 0
  BY <1>1 DEF Enter, RefuseRate, RefuseInput, Begin
<1>4. Placed'
  <2> SUFFICES ASSUME NEW d \in Calls, place'[d] > 0
               PROVE  input'[d] # NoInput /\ place'[d] <= Len(Registered[input'[d].tool].work) + 1
    BY DEF Placed, Handles
  <2>1. CASE d # c
    BY <1>3, <2>1 DEF CallsInv, CallsTypeOK, Handles
  <2>2. CASE d = c
    <3>1. input'[d] = in /\ place'[d] = 1
      BY <1>3, <2>2 DEF CallsInv
    <3> QED BY <1>2, <3>1, InputIsOne, HandlersHaveWork
  <2> QED BY <2>1, <2>2
<1>5. since' \in [Calls -> 0..MaxTime]
  BY <1>3 DEF CallsTypeOK, TypeOK
<1>6. log' \subseteq Event /\ lost' \subseteq Calls
  <2>1. CASE RefuseRate(c, in)
    BY <2>1, AuditTyped DEF RefuseRate, CallsTypeOK
  <2>2. CASE RefuseInput(c, in)
    <3>1. PICK i \in Failing(in) : Audit(c, in, Registered[in.tool].checks[i].event, NoFile)
      BY <2>2 DEF RefuseInput
    <3>2. Registered[in.tool].checks[i].event \in {"blocked", "error", "silent"}
      BY <1>2, <3>1, CheckTable DEF Failing
    <3> QED BY <3>1, <3>2, AuditTyped DEF CallsTypeOK
  <2>3. CASE Begin(c, in)
    BY <2>3 DEF Begin, auditVars, CallsTypeOK
  <2> QED BY <1>1, <2>1, <2>2, <2>3
<1> QED BY <1>3, <1>4, <1>5, <1>6 DEF CallsTypeOK

\* What a step that writes does, in terms that are not primed.
LEMMA WriteStep ==
  ASSUME CallsInv, CallsTypeOK, NEW c \in Calls, WriteDocument(c)
  PROVE  \E f \in Files, r \in Files \cup {NoFile} :
           /\ f.doc = Current(c).doc /\ r = Reference(c, f)
           /\ disk' = {d \in disk : d.project # input[c].project \/ d.file # f}
                      \cup {[project |-> input[c].project, file |-> f, by |-> c, ref |-> r]}
           /\ wrote' = [wrote EXCEPT ![c] = Append(@, f)]
<1>1. Running(c) /\ place[c] \in 1..Len(Handles(c).work)
  BY DEF CallsInv, WriteDocument, AtStep, Running
<1>2. input[c] \in Inputs /\ input[c].tool \in DOMAIN Registered
  BY <1>1, ToolsAssumption DEF CallsInv, Running, Inputs
<1>3. now \in 0..MaxTime /\ since[c] \in 0..MaxTime
  BY DEF CallsTypeOK, TypeOK
<1>4. NamingTimes(c) \subseteq 0..MaxTime
  <2>1. since[c]..now \subseteq 0..MaxTime /\ {since[c]} \subseteq 0..MaxTime
    BY <1>3, ClockAssumption
  <2> QED BY <2>1 DEF NamingTimes
<1>5. PICK t \in NamingTimes(c) :
        /\ disk' = {d \in disk : d.project # input[c].project
                               \/ d.file # FileOf(input[c], Current(c).doc, t)}
             \cup {[project |-> input[c].project, file |-> FileOf(input[c], Current(c).doc, t),
                    by |-> c, ref |-> Reference(c, FileOf(input[c], Current(c).doc, t))]}
        /\ wrote' = [wrote EXCEPT ![c] = Append(@, FileOf(input[c], Current(c).doc, t))]
  BY DEF WriteDocument
<1>6. Current(c).does \in {"write", "store"} /\ (Current(c).needs = "prompt" => input[c].prompt)
  BY DEF WriteDocument, AtStep, Needed
<1>7. PICK f : f = FileOf(input[c], Current(c).doc, t)
  OBVIOUS
<1>8. f \in Files
  BY <1>1, <1>2, <1>4, <1>6, <1>7, FileTyped DEF Current, Handles
<1>9. PICK r : r = Reference(c, f)
  OBVIOUS
<1>10. r \in Files \cup {NoFile}
  <2>1. wrote[c] \in Seq(Files)
    BY DEF CallsTypeOK
  <2>2. wrote[c] # <<>> => wrote[c][Len(wrote[c])] \in Files
    BY <2>1
  <2> QED BY <1>9, <2>2 DEF Reference
<1>11. f.doc = Current(c).doc
  BY <1>7, FileDoc
<1> QED BY <1>5, <1>7, <1>8, <1>9, <1>10, <1>11

LEMMA AdvanceTyped ==
  ASSUME CallsInv, CallsTypeOK, NEW c \in Calls, Advance(c)
  PROVE  /\ Placed' /\ absent' \in [Calls -> BOOLEAN] /\ wrote' \in [Calls -> Seq(Files)]
         /\ since' \in [Calls -> 0..MaxTime] /\ disk' \subseteq Entry
         /\ log' \subseteq Event /\ lost' \subseteq Calls
<1>1. Running(c) /\ input' = input
  BY DEF Advance, StatFile, LoadFile, Skip, WriteDocument, Fail, Report, AtStep
<1>2. input[c] \in Inputs /\ input[c].tool \in DOMAIN Registered /\ place[c] \in Nat
  BY <1>1, ToolsAssumption DEF CallsInv, Running, Inputs
<1>3. \/ place' = place
      \/ place' = [place EXCEPT ![c] = @ + 1] /\ place[c] <= Len(Handles(c).work)
  BY DEF Advance, StatFile, LoadFile, Skip, WriteDocument, Fail, Report, GoOn, AtStep
<1>4. Placed'
  <2> SUFFICES ASSUME NEW d \in Calls, place'[d] > 0
               PROVE  input[d] # NoInput /\ place'[d] <= Len(Handles(d).work) + 1
    BY <1>1 DEF Placed, Handles
  <2>1. CASE place'[d] = place[d]
    BY <2>1 DEF CallsTypeOK
  <2>2. CASE place'[d] # place[d]
    <3>1. d = c /\ place'[d] = place[c] + 1 /\ place[c] <= Len(Handles(c).work)
      BY <1>3, <2>2 DEF CallsInv
    <3> QED BY <1>1, <1>2, <3>1, HandlersHaveWork DEF CallsTypeOK, Handles, Running
  <2> QED BY <2>1, <2>2
<1>5. absent' \in [Calls -> BOOLEAN]
  BY DEF Advance, StatFile, LoadFile, Skip, WriteDocument, Fail, Report, CallsTypeOK
<1>6. since' \in [Calls -> 0..MaxTime]
  <2>1. now \in 0..MaxTime
    BY DEF CallsTypeOK, TypeOK
  <2>2. since' = since \/ since' = [since EXCEPT ![c] = now]
        \/ since' = [since EXCEPT ![c] = since[c]]
    BY DEF Advance, StatFile, LoadFile, Skip, WriteDocument, Fail, Report
  <2> QED BY <2>1, <2>2 DEF CallsTypeOK
<1>7. disk' \subseteq Entry /\ wrote' \in [Calls -> Seq(Files)]
  <2>1. CASE WriteDocument(c)
    <3>1. PICK f \in Files, r \in Files \cup {NoFile} :
             /\ disk' = {d \in disk : d.project # input[c].project \/ d.file # f}
                        \cup {[project |-> input[c].project, file |-> f, by |-> c, ref |-> r]}
             /\ wrote' = [wrote EXCEPT ![c] = Append(@, f)]
      BY <2>1, WriteStep
    <3>2. input[c].project \in Projects
      BY <1>1, <2>1, WritesWhereKnown DEF WriteDocument, AtStep
    <3>3. [project |-> input[c].project, file |-> f, by |-> c, ref |-> r] \in Entry
      BY <3>2 DEF Entry
    <3>4. disk' \subseteq Entry
      BY <3>1, <3>3 DEF CallsTypeOK
    <3>5. wrote' \in [Calls -> Seq(Files)]
      BY <3>1 DEF CallsTypeOK
    <3> QED BY <3>4, <3>5
  <2>2. CASE ~WriteDocument(c)
    BY <2>2 DEF Advance, StatFile, LoadFile, Skip, Fail, Report, CallsTypeOK
  <2> QED BY <2>1, <2>2
<1>8. log' \subseteq Event /\ lost' \subseteq Calls
  <2>1. CASE Fail(c)
    <3>1. place[c] \in 1..Len(Registered[input[c].tool].work)
      BY <1>2, <2>1, HandlersHaveWork DEF Fail, Running, Handles
    <3>2. Current(c).event \in {"blocked", "error", "silent"}
      BY <1>2, <3>1, StepTable DEF Current, Handles
    <3> QED BY <1>2, <2>1, <3>2, AuditTyped DEF Fail, CallsTypeOK
  <2>2. CASE Report(c)
    <3>1. wrote[c] \in Seq(Files)
      BY DEF CallsTypeOK
    <3>2. PICK f : /\ Audit(c, input[c], "allowed", f)
                   /\ f = IF \E j \in DOMAIN wrote[c] : wrote[c][j].doc = Handles(c).reports
                          THEN wrote[c][CHOOSE j \in DOMAIN wrote[c] :
                                          wrote[c][j].doc = Handles(c).reports]
                          ELSE NoFile
      BY <2>2 DEF Report
    <3>3. f \in Files \cup {NoFile}
      BY <3>1, <3>2
    <3> QED BY <1>2, <3>2, <3>3, AuditTyped DEF CallsTypeOK
  <2>3. CASE ~Fail(c) /\ ~Report(c)
    BY <2>3 DEF Advance, StatFile, LoadFile, Skip, WriteDocument, auditVars, CallsTypeOK
  <2> QED BY <2>1, <2>2, <2>3
<1> QED BY <1>4, <1>5, <1>6, <1>7, <1>8

\* Calls, files and audit events keep to their types.
THEOREM CallsTyped == ServerSpec => []CallsTypeOK
<1>1. ServerInit => CallsTypeOK
  <2> SUFFICES ASSUME ServerInit PROVE CallsTypeOK
    OBVIOUS
  <2>1. TypeOK
    BY ClockAssumption DEF ServerInit, Init, TypeOK
  <2>2. disk \subseteq Entry
    BY NamesAssumption DEF ServerInit, Entry
  <2>3. 0 \in 0..MaxTime
    BY ClockAssumption
  <2> QED BY <2>1, <2>2, <2>3 DEF ServerInit, CallsTypeOK, Answers
<1>2. CallsInv /\ CallsTypeOK /\ [ServerNext]_serverVars => CallsTypeOK'
  <2> SUFFICES ASSUME CallsInv, CallsTypeOK, [ServerNext]_serverVars PROVE CallsTypeOK'
    OBVIOUS
  <2>1. CallsInv'
    BY StepCallsInv
  <2>2. TypeOK'
    BY LimiterStep, LimiterTypeStep DEF CallsTypeOK
  <2>3. /\ Placed' /\ absent' \in [Calls -> BOOLEAN] /\ wrote' \in [Calls -> Seq(Files)]
        /\ since' \in [Calls -> 0..MaxTime] /\ disk' \subseteq Entry
        /\ log' \subseteq Event /\ lost' \subseteq Calls
    <3>1. CASE UNCHANGED serverVars \/ ServerTick
      <4>1. UNCHANGED <<callVars, disk, auditVars>>
        BY <3>1 DEF serverVars, ServerTick
      <4> QED BY <4>1 DEF callVars, auditVars, CallsTypeOK, Placed, Handles
    <3> QED BY <3>1, EnterTyped, AdvanceTyped DEF ServerNext
  <2> QED BY <2>1, <2>2, <2>3 DEF CallsInv, CallsTypeOK, Placed
<1> QED BY <1>1, <1>2, CallsInvariance, PTL DEF ServerSpec

-----------------------------------------------------------------------------
(* Prompts and their plans, continued *)

LastIs(c, doc) == wrote[c] # <<>> /\ wrote[c][Len(wrote[c])].doc = doc

\* What a call has written is there; where a prompt comes next, it was a plan.
WroteInv ==
  /\ \A c \in Calls : place[c] = 0 => wrote[c] = <<>>
  /\ \A c \in Calls : \A i \in 1..Len(wrote[c]) : OnDisk(input[c].project, wrote[c][i])
  /\ \A c \in Calls : Running(c) =>
       /\ Handles(c) = HandleCreateQuickPlan /\ place[c] = 2 => LastIs(c, "plan")
       /\ Handles(c) = HandleFinalizePlanningWorkflow /\ place[c] = 5 => LastIs(c, "master")

PromptInv == CallsInv /\ CallsTypeOK /\ WroteInv /\ PromptHasPlan

LEMMA EnterWroteInv ==
  ASSUME PromptInv, NEW c \in Calls, Enter(c)
  PROVE  WroteInv' /\ PromptHasPlan'
<1>1. PICK in \in Inputs :
        /\ input' = [input EXCEPT ![c] = in]
        /\ place' = place \/ place' = [place EXCEPT ![c] = 1]
        /\ UNCHANGED <<wrote, disk>> /\ place[c] = 0
        /\ answer' = answer \/ answer' = [answer EXCEPT ![c] = "error"]
  BY DEF Enter, RefuseRate, RefuseInput, Begin, Answer
<1>2. wrote[c] = <<>>
  BY <1>1 DEF PromptInv, WroteInv
<1>3. /\ input'[c] = in /\ place'[c] \in {0, 1}
      /\ \A d \in Calls : d # c => /\ input'[d] = input[d] /\ place'[d] = place[d]
                                  /\ answer'[d] = answer[d]
  BY <1>1 DEF PromptInv, CallsInv
<1>4. PromptHasPlan'
  BY <1>1 DEF PromptInv, PromptHasPlan, OnDisk
<1>5. ASSUME NEW d \in Calls
      PROVE  /\ place'[d] = 0 => wrote'[d] = <<>>
             /\ \A i \in 1..Len(wrote'[d]) : OnDisk(input[d].project, wrote[d][i])'
             /\ Running(d)' =>
                  /\ Handles(d)' = HandleCreateQuickPlan /\ place'[d] = 2 => LastIs(d, "plan")'
                  /\ Handles(d)' = HandleFinalizePlanningWorkflow /\ place'[d] = 5
                       => LastIs(d, "master")'
  <2>1. CASE d = c
    BY <1>1, <1>2, <1>3, <2>1
  <2>2. CASE d # c
    BY <1>1, <1>3, <2>2 DEF PromptInv, WroteInv, OnDisk, Running, Handles, LastIs
  <2> QED BY <2>1, <2>2
<1> QED BY <1>4, <1>5 DEF WroteInv

\* Nothing but a write leads past the step before a prompt.
LEMMA NoWayAround ==
  ASSUME CallsInv, NEW c \in Calls, StatFile(c) \/ LoadFile(c) \/ Skip(c)
  PROVE  /\ Handles(c) = HandleCreateQuickPlan => place[c] # 1
         /\ Handles(c) = HandleFinalizePlanningWorkflow => place[c] # 4
<1>1. Handles(c) = HandleCreateQuickPlan /\ place[c] = 1 =>
        Current(c) = Write("plan", "always", "blocked")
  BY PlanSteps DEF Current
<1>2. Handles(c) = HandleFinalizePlanningWorkflow /\ place[c] = 4 =>
        Current(c) = Store("master", "always", "blocked")
  BY PlanSteps DEF Current
<1>3. ~ (Current(c).does \in {"write", "store"} /\ Current(c).needs = "always")
  BY DEF StatFile, LoadFile, Skip, AtStep, Needed
<1> QED BY <1>1, <1>2, <1>3 DEF Write, Store, Step

LEMMA AdvanceWroteInv ==
  ASSUME PromptInv, NEW c \in Calls, Advance(c), ~WriteDocument(c)
  PROVE  WroteInv' /\ PromptHasPlan'
<1>1. /\ UNCHANGED <<input, wrote, disk>> /\ Running(c)
      /\ place' = place \/ place' = [place EXCEPT ![c] = @ + 1]
      /\ answer' = answer \/ \E a \in {"ok", "error"} : answer' = [answer EXCEPT ![c] = a]
  BY DEF Advance, StatFile, LoadFile, Skip, Fail, Report, GoOn, Answer, AtStep
<1>2. \A d \in Calls : answer'[d] = "none" => answer[d] = "none"
  BY <1>1 DEF PromptInv, CallsInv, Running
<1>3. place' # place => StatFile(c) \/ LoadFile(c) \/ Skip(c)
  BY DEF Advance, Fail, Report
<1>4. PromptHasPlan'
  BY <1>1 DEF PromptInv, PromptHasPlan, OnDisk
<1>5. ASSUME NEW d \in Calls
      PROVE  /\ place'[d] = 0 => wrote'[d] = <<>>
             /\ \A i \in 1..Len(wrote'[d]) : OnDisk(input[d].project, wrote[d][i])'
             /\ Running(d)' =>
                  /\ Handles(d)' = HandleCreateQuickPlan /\ place'[d] = 2 => LastIs(d, "plan")'
                  /\ Handles(d)' = HandleFinalizePlanningWorkflow /\ place'[d] = 5
                       => LastIs(d, "master")'
  <2>1. CASE place'[d] = place[d]
    BY <1>1, <1>2, <2>1 DEF PromptInv, WroteInv, OnDisk, Running, Handles, LastIs
  <2>2. CASE place'[d] # place[d]
    <3>1. d = c /\ place'[c] = place[c] + 1 /\ place[c] \in Nat
      BY <1>1, <2>2 DEF PromptInv, CallsInv
    <3>2. /\ Handles(c) = HandleCreateQuickPlan => place[c] # 1
          /\ Handles(c) = HandleFinalizePlanningWorkflow => place[c] # 4
      BY <1>3, <2>2, NoWayAround DEF PromptInv
    <3>3. \A i \in 1..Len(wrote[d]) : OnDisk(input[d].project, wrote[d][i])
      BY DEF PromptInv, WroteInv
    <3> QED BY <1>1, <3>1, <3>2, <3>3 DEF OnDisk, Handles
  <2> QED BY <2>1, <2>2
<1> QED BY <1>4, <1>5 DEF WroteInv

LEMMA WriteWroteInv ==
  ASSUME PromptInv, NEW c \in Calls, WriteDocument(c)
  PROVE  WroteInv' /\ PromptHasPlan'
<1>1. /\ Running(c) /\ place[c] \in 1..Len(Handles(c).work)
      /\ UNCHANGED <<input, answer>> /\ place' = [place EXCEPT ![c] = @ + 1]
  BY DEF PromptInv, CallsInv, WriteDocument, AtStep, Running, GoOn
<1>2. input[c].tool \in DOMAIN Registered
  BY <1>1, ToolsAssumption DEF PromptInv, CallsInv, Running, Inputs
<1> DEFINE p == input[c].project
<1>3. PICK f \in Files, r \in Files \cup {NoFile} :
        /\ f.doc = Current(c).doc /\ r = Reference(c, f)
        /\ disk' = {d \in disk : d.project # p \/ d.file # f}
                   \cup {[project |-> p, file |-> f, by |-> c, ref |-> r]}
        /\ wrote' = [wrote EXCEPT ![c] = Append(@, f)]
  BY WriteStep DEF PromptInv
<1> DEFINE Now(q, g) == \E e \in disk' : e.project = q /\ e.file = g
<1>4. \A q, g : OnDisk(q, g) => Now(q, g)
  BY OnDiskKept DEF OnDisk
<1>5. Now(p, f)
  <2>1. [project |-> p, file |-> f, by |-> c, ref |-> r] \in disk'
    BY <1>3
  <2> QED BY <2>1
<1>6. /\ wrote[c] \in Seq(Files) /\ wrote'[c] = Append(wrote[c], f)
      /\ \A d \in Calls : d # c => wrote'[d] = wrote[d] /\ place'[d] = place[d]
      /\ place'[c] = place[c] + 1
  BY <1>1, <1>3 DEF PromptInv, CallsInv, CallsTypeOK
<1>7. f.doc = "prompt" => r.doc \in {"plan", "master"} /\ OnDisk(p, r)
  <2> SUFFICES ASSUME f.doc = "prompt" PROVE r.doc \in {"plan", "master"} /\ OnDisk(p, r)
    OBVIOUS
  <2>1. \/ Handles(c) = HandleCreateQuickPlan /\ place[c] = 2
        \/ Handles(c) = HandleFinalizePlanningWorkflow /\ place[c] = 5
    BY <1>1, <1>2, <1>3, PromptSteps DEF Handles, Current
  <2>2. LastIs(c, "plan") \/ LastIs(c, "master")
    BY <1>1, <2>1 DEF PromptInv, WroteInv
  <2>3. r = wrote[c][Len(wrote[c])] /\ r.doc \in {"plan", "master"}
    BY <1>3, <2>2 DEF Reference, LastIs
  <2>4. Len(wrote[c]) \in 1..Len(wrote[c])
    BY <1>6, <2>2 DEF LastIs
  <2> QED BY <2>3, <2>4 DEF PromptInv, WroteInv
<1>8. PromptHasPlan'
  <2> SUFFICES ASSUME NEW d \in disk', d.file.doc = "prompt", d.by # Earlier
               PROVE  d.ref.doc \in {"plan", "master"} /\ Now(d.project, d.ref)
    BY DEF PromptHasPlan, OnDisk
  <2>1. CASE d \in disk
    BY <1>4, <2>1 DEF PromptInv, PromptHasPlan
  <2>2. CASE d \notin disk
    <3>1. d.project = p /\ d.file = f /\ d.ref = r
      BY <1>3, <2>2
    <3> QED BY <1>4, <1>7, <3>1
  <2> QED BY <2>1, <2>2
<1>9. ASSUME NEW d \in Calls
      PROVE  /\ place'[d] = 0 => wrote'[d] = <<>>
             /\ \A i \in 1..Len(wrote'[d]) : OnDisk(input[d].project, wrote[d][i])'
             /\ Running(d)' =>
                  /\ Handles(d)' = HandleCreateQuickPlan /\ place'[d] = 2 => LastIs(d, "plan")'
                  /\ Handles(d)' = HandleFinalizePlanningWorkflow /\ place'[d] = 5
                       => LastIs(d, "master")'
  <2>1. CASE d # c
    <3>1. \A i \in 1..Len(wrote'[d]) : Now(input'[d].project, wrote'[d][i])
      <4>1. \A i \in 1..Len(wrote[d]) : OnDisk(input[d].project, wrote[d][i])
        BY DEF PromptInv, WroteInv
      <4>2. wrote'[d] = wrote[d] /\ input' = input
        BY <1>1, <1>6, <2>1
      <4>3. \A i \in 1..Len(wrote[d]) : Now(input[d].project, wrote[d][i])
        BY <1>4, <4>1
      <4> QED BY <4>2, <4>3
    <3>2. Running(d)' <=> Running(d)
      BY <1>1, <1>6, <2>1 DEF Running
    <3> QED BY <1>1, <1>6, <2>1, <3>1, <3>2 DEF PromptInv, WroteInv, Handles, LastIs, OnDisk
  <2>2. CASE d = c
    <3>1. \A i \in 1..Len(wrote'[c]) : Now(input'[c].project, wrote'[c][i])
      <4> SUFFICES ASSUME NEW i \in 1..Len(wrote'[c]) PROVE Now(p, wrote'[c][i])
        BY <1>1
      <4>1. CASE i \in 1..Len(wrote[c])
        <5>1. wrote'[c][i] = wrote[c][i] /\ OnDisk(p, wrote[c][i])
          BY <1>6, <4>1 DEF PromptInv, WroteInv
        <5> QED BY <1>4, <5>1
      <4>2. CASE i \notin 1..Len(wrote[c])
        <5>1. wrote'[c][i] = f
          BY <1>6, <4>2
        <5> QED BY <1>5, <5>1
      <4> QED BY <4>1, <4>2
    <3>2. Handles(c) = HandleCreateQuickPlan /\ place[c] = 1 => f.doc = "plan"
      BY <1>3, PlanSteps DEF Current, Write, Step
    <3>3. Handles(c) = HandleFinalizePlanningWorkflow /\ place[c] = 4 => f.doc = "master"
      BY <1>3, PlanSteps DEF Current, Store, Step
    <3>4. wrote'[c] # <<>> /\ wrote'[c][Len(wrote'[c])] = f
      BY <1>6
    <3>5. place[c] \in Nat
      BY <1>1
    <3>6. Handles(c)' = Handles(c)
      BY <1>1 DEF Handles
    <3>7. place'[c] # 0 /\ (place'[c] = 2 => place[c] = 1) /\ (place'[c] = 5 => place[c] = 4)
      <4>1. place'[c] = place[c] + 1
        BY <1>6
      <4> QED BY <3>5, <4>1
    <3>8. \A doc : f.doc = doc => LastIs(c, doc)'
      BY <3>4 DEF LastIs
    <3>9. Handles(c)' = HandleCreateQuickPlan /\ place'[c] = 2 => LastIs(c, "plan")'
      BY <3>2, <3>6, <3>7, <3>8
    <3>10. Handles(c)' = HandleFinalizePlanningWorkflow /\ place'[c] = 5 => LastIs(c, "master")'
      BY <3>3, <3>6, <3>7, <3>8
    <3>11. (\A i \in 1..Len(wrote[c]) : OnDisk(input[c].project, wrote[c][i]))'
      BY <3>1 DEF OnDisk
    <3> QED BY <2>2, <3>7, <3>9, <3>10, <3>11
  <2> QED BY <2>1, <2>2
<1> QED BY <1>8, <1>9 DEF WroteInv

\* The plan that a prompt points to is there as long as the prompt is, whoever
\* fails or overwrites what (tools.go:752-770, workflow.go:414-426).
THEOREM PromptsHavePlans == ServerSpec => []PromptHasPlan
<1>1. ServerInit => WroteInv /\ PromptHasPlan
  <2> SUFFICES ASSUME ServerInit PROVE WroteInv /\ PromptHasPlan
    OBVIOUS
  <2>1. PromptHasPlan
    BY DEF ServerInit, PromptHasPlan
  <2>2. \A c \in Calls : wrote[c] = <<>> /\ Len(wrote[c]) = 0 /\ place[c] = 0
    BY DEF ServerInit
  <2> QED BY <2>1, <2>2 DEF WroteInv, Running
<1>2. /\ CallsInv /\ CallsInv' /\ CallsTypeOK /\ CallsTypeOK'
      /\ WroteInv /\ PromptHasPlan /\ [ServerNext]_serverVars
      => WroteInv' /\ PromptHasPlan'
  <2> SUFFICES ASSUME PromptInv, [ServerNext]_serverVars
               PROVE  WroteInv' /\ PromptHasPlan'
    BY DEF PromptInv
  <2>1. CASE UNCHANGED serverVars \/ ServerTick
    <3>1. UNCHANGED <<input, place, wrote, answer, disk>>
      BY <2>1 DEF serverVars, callVars, ServerTick
    <3> QED BY <3>1 DEF PromptInv, WroteInv, PromptHasPlan, OnDisk, Running, Handles, LastIs
  <2> QED BY <2>1, EnterWroteInv, AdvanceWroteInv, WriteWroteInv DEF ServerNext
<1> QED BY <1>1, <1>2, CallsInvariance, CallsTyped, PTL DEF ServerSpec

-----------------------------------------------------------------------------
(* The audit log *)

\* The handlers that write more than one file and log every failure alike.
Long == {HandleCompletePlanningPhase, HandleFinalizePlanningWorkflow}

LEMMA ByName ==
  ASSUME NEW t \in DOMAIN Registered
  PROVE  /\ t \notin {"complete_planning_phase", "finalize_planning_workflow"} =>
              Registered[t] \notin Long
         /\ Registered[t] = HandleCreateQuickPlan => t = "create_quick_plan"
<1>1. Registered[t].reports = "artifact" => t = "complete_planning_phase"
  BY DEF Registered, HandleGetProjectBrainGuide, HandleListRoots, HandleListProjects,
         HandleInspectProject, HandleGetProjectTree, HandleReadProjectFile,
         HandleSearchProject, HandleBootstrapProjectAgentsMD, HandleCreateQuickPlan,
         HandleStartPlanningWorkflow, HandleGetPlanningWorkflowStatus,
         HandleGetCurrentPlanningPhase, HandleCompletePlanningPhase,
         HandleFinalizePlanningWorkflow, HandleReadToGPTMessage,
         HandleAppendFromGPTMessage, Handler
<1>2. Registered[t].reports = "master" => t = "finalize_planning_workflow"
  BY DEF Registered, HandleGetProjectBrainGuide, HandleListRoots, HandleListProjects,
         HandleInspectProject, HandleGetProjectTree, HandleReadProjectFile,
         HandleSearchProject, HandleBootstrapProjectAgentsMD, HandleCreateQuickPlan,
         HandleStartPlanningWorkflow, HandleGetPlanningWorkflowStatus,
         HandleGetCurrentPlanningPhase, HandleCompletePlanningPhase,
         HandleFinalizePlanningWorkflow, HandleReadToGPTMessage,
         HandleAppendFromGPTMessage, Handler
<1>3. Registered[t].reports = "plan" => t = "create_quick_plan"
  BY DEF Registered, HandleGetProjectBrainGuide, HandleListRoots, HandleListProjects,
         HandleInspectProject, HandleGetProjectTree, HandleReadProjectFile,
         HandleSearchProject, HandleBootstrapProjectAgentsMD, HandleCreateQuickPlan,
         HandleStartPlanningWorkflow, HandleGetPlanningWorkflowStatus,
         HandleGetCurrentPlanningPhase, HandleCompletePlanningPhase,
         HandleFinalizePlanningWorkflow, HandleReadToGPTMessage,
         HandleAppendFromGPTMessage, Handler
<1>4. /\ HandleCompletePlanningPhase.reports = "artifact"
      /\ HandleFinalizePlanningWorkflow.reports = "master"
      /\ HandleCreateQuickPlan.reports = "plan"
  BY DEF HandleCompletePlanningPhase, HandleFinalizePlanningWorkflow, HandleCreateQuickPlan, Handler
<1> QED BY <1>1, <1>2, <1>3, <1>4 DEF Long

\* The only step that fails without an event is a quick plan's prompt.
LEMMA SilentSteps ==
  ASSUME NEW t \in DOMAIN Registered, NEW i \in 1..Len(Registered[t].work),
         Registered[t].work[i].event = "silent"
  PROVE  Registered[t] = HandleCreateQuickPlan /\ i = 2
<1> DEFINE h == Registered[t]
<1>1. CASE h \notin {HandleCreateQuickPlan, HandleFinalizePlanningWorkflow}
  BY <1>1, Table
     DEF HandleGetProjectBrainGuide, HandleListRoots, HandleListProjects,
         HandleInspectProject, HandleGetProjectTree, HandleReadProjectFile,
         HandleSearchProject, HandleBootstrapProjectAgentsMD,
         HandleStartPlanningWorkflow, HandleGetPlanningWorkflowStatus,
         HandleGetCurrentPlanningPhase, HandleCompletePlanningPhase, HandleReadToGPTMessage,
         HandleAppendFromGPTMessage,
         Handler, Write, Load, Stat, Store, Step
<1>2. CASE h = HandleCreateQuickPlan
  BY <1>2 DEF HandleCreateQuickPlan, Handler, Write, Step
<1>3. CASE h = HandleFinalizePlanningWorkflow
  BY <1>3 DEF HandleFinalizePlanningWorkflow, Handler, Load, Stat, Store, Step
<1> QED BY <1>1, <1>2, <1>3

\* After a handler's first write comes no failure that is logged, but in Long.
LEMMA WritesAreLast ==
  ASSUME NEW t \in DOMAIN Registered, Registered[t] \notin Long,
         NEW k \in 1..Len(Registered[t].work), NEW i \in (k + 1)..Len(Registered[t].work),
         Registered[t].work[k].does \in {"write", "store"}
  PROVE  Registered[t].work[i].event = "silent"
<1> DEFINE h == Registered[t]
<1>1. CASE h \in {HandleBootstrapProjectAgentsMD, HandleCreateQuickPlan,
                  HandleAppendFromGPTMessage, HandleStartPlanningWorkflow}
  <2>1. CASE h = HandleBootstrapProjectAgentsMD
    BY <2>1 DEF HandleBootstrapProjectAgentsMD, Handler, Write, Stat, Step
  <2>2. CASE h = HandleCreateQuickPlan
    BY <2>2 DEF HandleCreateQuickPlan, Handler, Write, Step
  <2>3. CASE h = HandleAppendFromGPTMessage
    BY <2>3 DEF HandleAppendFromGPTMessage, Handler, Write, Load, Step
  <2>4. CASE h = HandleStartPlanningWorkflow
    BY <2>4 DEF HandleStartPlanningWorkflow, Handler, Store, Step
  <2> QED BY <1>1, <2>1, <2>2, <2>3, <2>4
<1>2. CASE h \notin {HandleBootstrapProjectAgentsMD, HandleCreateQuickPlan,
                     HandleAppendFromGPTMessage, HandleStartPlanningWorkflow}
  BY <1>2, Table
     DEF Long, HandleGetProjectBrainGuide, HandleListRoots, HandleListProjects,
         HandleInspectProject, HandleGetProjectTree, HandleReadProjectFile,
         HandleSearchProject, HandleGetPlanningWorkflowStatus,
         HandleGetCurrentPlanningPhase, HandleReadToGPTMessage,
         Handler, Load, Stat, Step
<1> QED BY <1>1, <1>2

\* How far the call is that wrote the document d.
Settled(d) ==
  /\ place[d.by] > 1
  /\ Handles(d.by) = HandleCreateQuickPlan /\ place[d.by] = 2 => d.file.doc = "plan"
  /\ Handles(d.by) \notin Long =>
       \A i \in place[d.by]..Len(Handles(d.by).work) : Handles(d.by).work[i].event = "silent"

LogInv ==
  /\ \A d \in disk : d.by # Earlier => d.by \in Calls /\ Settled(d)
  /\ \A e \in log : e.call \in Calls /\ answer[e.call] # "none" /\ e.tool = input[e.call].tool
  /\ ChangesAreLogged /\ BlockedMeansUntouched

\* What an audit event adds to the log.
LEMMA AuditAdds ==
  ASSUME NEW c, NEW in, NEW decision, NEW file, Audit(c, in, decision, file)
  PROVE  /\ log \subseteq log' /\ lost \subseteq lost'
         /\ \A e \in log' \ log :
              e.call = c /\ e.tool = in.tool /\ e.decision = decision /\ decision # "silent"
         /\ decision # "silent" => (\E e \in log' : e.call = c) \/ c \in lost'
<1>1. CASE decision = "silent"
  BY <1>1 DEF Audit, auditVars
<1>2. CASE decision # "silent"
  <2>1. PICK event : event = [call |-> c, tool |-> in.tool, project |-> in.project,
                              decision |-> decision, file |-> file]
    OBVIOUS
  <2>2. event.call = c /\ event.tool = in.tool /\ event.decision = decision
    BY <2>1
  <2>3. \/ log' = log \cup {event} /\ lost' = lost
        \/ lost' = lost \cup {c} /\ log' = log
    BY <1>2, <2>1 DEF Audit
  <2> QED BY <1>2, <2>2, <2>3
<1> QED BY <1>1, <1>2

LEMMA EnterLogInv ==
  ASSUME CallsInv, LogInv, NEW c \in Calls, Enter(c)
  PROVE  LogInv'
<1>1. PICK in \in Inputs : RefuseRate(c, in) \/ RefuseInput(c, in) \/ Begin(c, in)
  BY DEF Enter
<1>2. /\ place[c] = 0 /\ answer[c] = "none" /\ disk' = disk
      /\ input' = [input EXCEPT ![c] = in]
      /\ place' = place \/ place' = [place EXCEPT ![c] = 1]
      /\ \/ answer' = answer /\ log' = log /\ lost' = lost
         \/ /\ answer' = [answer EXCEPT ![c] = "error"]
            /\ \E decision : Audit(c, in, decision, NoFile)
  BY <1>1 DEF Enter, RefuseRate, RefuseInput, Begin, Answer, auditVars
<1>3. /\ input'[c] = in
      /\ \A b \in Calls : b # c => input'[b] = input[b] /\ place'[b] = place[b]
                                  /\ answer'[b] = answer[b]
  BY <1>2 DEF CallsInv
<1>4. /\ log \subseteq log' /\ lost \subseteq lost'
      /\ \A e \in log' \ log : e.call = c /\ e.tool = in.tool /\ answer'[c] # "none"
  <2>1. CASE log' = log /\ lost' = lost
    BY <2>1
  <2>2. ASSUME NEW decision, Audit(c, in, decision, NoFile), answer' = [answer EXCEPT ![c] = "error"]
        PROVE  /\ log \subseteq log' /\ lost \subseteq lost'
               /\ \A e \in log' \ log : e.call = c /\ e.tool = in.tool /\ answer'[c] # "none"
    BY <2>2, AuditAdds DEF CallsInv
  <2> QED BY <1>2, <2>1, <2>2
<1>5. \A d \in disk : d.by # Earlier => d.by \in Calls /\ d.by # c
  BY <1>2 DEF LogInv, Settled
<1>6. \A e \in log : e.call \in Calls /\ e.call # c
  BY <1>2 DEF LogInv
<1>7. \A d \in disk' : d.by # Earlier => d.by \in Calls /\ Settled(d)'
  BY <1>2, <1>3, <1>5 DEF LogInv, Settled, Handles
<1>8. \A e \in log' : e.call \in Calls /\ answer'[e.call] # "none" /\ e.tool = input'[e.call].tool
  BY <1>3, <1>4, <1>6 DEF LogInv
<1>9. ChangesAreLogged'
  BY <1>2, <1>3, <1>4, <1>5 DEF LogInv, ChangesAreLogged
<1>10. BlockedMeansUntouched'
  BY <1>2, <1>4, <1>5, ProjectsAssumption DEF LogInv, BlockedMeansUntouched
<1> QED BY <1>7, <1>8, <1>9, <1>10 DEF LogInv

\* A call that goes on stays settled.
LEMMA StaysSettled ==
  ASSUME CallsInv, LogInv, NEW c \in Calls, input' = input, place' = [place EXCEPT ![c] = @ + 1],
         NEW d \in disk, d.by # Earlier
  PROVE  Settled(d)'
<1>1. d.by \in Calls /\ Settled(d)
  BY DEF LogInv
<1>2. Handles(d.by)' = Handles(d.by)
  BY DEF Handles
<1>3. CASE d.by # c
  BY <1>1, <1>2, <1>3 DEF Settled, CallsInv
<1>4. CASE d.by = c
  <2>1. place'[c] = place[c] + 1 /\ place[c] \in Nat
    BY DEF CallsInv
  <2>2. place[c] > 1
    BY <1>1, <1>4 DEF Settled
  <2>3. place'[c] > 1 /\ place'[c] # 2
    BY <2>1, <2>2
  <2>4. \A n : place'[c]..n \subseteq place[c]..n
    BY <2>1
  <2> QED BY <1>1, <1>2, <1>4, <2>3, <2>4 DEF Settled
<1> QED BY <1>3, <1>4

LEMMA GoOnLogInv ==
  ASSUME CallsInv, LogInv, NEW c \in Calls, StatFile(c) \/ LoadFile(c) \/ Skip(c)
  PROVE  LogInv'
<1>1. /\ UNCHANGED <<input, answer, disk, log, lost>>
      /\ place' = [place EXCEPT ![c] = @ + 1]
  BY DEF StatFile, LoadFile, Skip, GoOn, auditVars
<1>2. \A d \in disk' : d.by # Earlier => d.by \in Calls /\ Settled(d)'
  BY <1>1, StaysSettled DEF LogInv
<1> QED BY <1>1, <1>2 DEF LogInv, ChangesAreLogged, BlockedMeansUntouched

LEMMA WriteLogInv ==
  ASSUME CallsInv, CallsTypeOK, LogInv, NEW c \in Calls, WriteDocument(c)
  PROVE  LogInv'
<1>1. /\ UNCHANGED <<input, answer, log, lost>>
      /\ place' = [place EXCEPT ![c] = @ + 1]
      /\ Running(c) /\ place[c] \in 1..Len(Handles(c).work)
      /\ Current(c).does \in {"write", "store"}
  BY DEF CallsInv, WriteDocument, GoOn, auditVars, AtStep, Running
<1>2. input[c].tool \in DOMAIN Registered
  BY <1>1, ToolsAssumption DEF CallsInv, Running, Inputs
<1>3. PICK f \in Files, r \in Files \cup {NoFile} :
        /\ f.doc = Current(c).doc
        /\ disk' = {d \in disk : d.project # input[c].project \/ d.file # f}
                   \cup {[project |-> input[c].project, file |-> f, by |-> c, ref |-> r]}
  BY WriteStep
<1>4. \A d \in disk' : d \in disk \/ (d.by = c /\ d.file = f)
  BY <1>3
<1>5. ASSUME NEW d \in disk', d.by = c, d.file = f PROVE Settled(d)'
  <2>1. place'[c] = place[c] + 1 /\ place[c] \in Nat
    BY <1>1 DEF CallsInv
  <2>2. Handles(c)' = Handles(c)
    BY <1>1 DEF Handles
  <2>3. place'[c] > 1 /\ (place'[c] = 2 => place[c] = 1)
    BY <1>1, <2>1
  <2>4. Handles(c) = HandleCreateQuickPlan /\ place[c] = 1 => f.doc = "plan"
    BY <1>3, PlanSteps DEF Current, Write, Step
  <2>5. ASSUME Handles(c) \notin Long, NEW i \in place'[c]..Len(Handles(c).work)
        PROVE  Handles(c).work[i].event = "silent"
    BY <1>1, <1>2, <2>1, <2>5, WritesAreLast DEF Handles, Current
  <2> QED BY <1>5, <2>2, <2>3, <2>4, <2>5 DEF Settled
<1>6. \A d \in disk' : d.by # Earlier => d.by \in Calls /\ Settled(d)'
  BY <1>1, <1>4, <1>5, StaysSettled DEF LogInv
<1>7. \A e \in log : e.call # c
  BY <1>1 DEF LogInv, Running
<1>8. ChangesAreLogged'
  BY <1>1, <1>4 DEF LogInv, ChangesAreLogged, Running
<1>9. BlockedMeansUntouched'
  BY <1>1, <1>4, <1>7 DEF LogInv, BlockedMeansUntouched
<1> QED BY <1>1, <1>6, <1>8, <1>9 DEF LogInv

LEMMA AnswerLogInv ==
  ASSUME CallsInv, LogInv, NEW c \in Calls, Fail(c) \/ Report(c)
  PROVE  LogInv'
<1>1. PICK decision, file, result :
        /\ Audit(c, input[c], decision, file)
        /\ answer' = [answer EXCEPT ![c] = result] /\ result \in {"ok", "error"}
        /\ \/ decision = "allowed"
           \/ /\ decision = Current(c).event /\ result = "error"
              /\ place[c] <= Len(Handles(c).work)
  BY DEF Fail, Report, Answer
<1>2. UNCHANGED <<input, place, disk>> /\ Running(c)
  BY DEF Fail, Report
<1>3. /\ log \subseteq log' /\ lost \subseteq lost'
      /\ \A e \in log' \ log : /\ e.call = c /\ e.tool = input[c].tool
                             /\ e.decision = decision /\ decision # "silent"
      /\ decision # "silent" => (\E e \in log' : e.call = c) \/ c \in lost'
  BY <1>1, AuditAdds
<1>4. input[c].tool \in DOMAIN Registered /\ place[c] \in Nat \ {0}
  BY <1>2, ToolsAssumption DEF CallsInv, Running, Inputs
<1>5. answer'[c] = result /\ \A b \in Calls : b # c => answer'[b] = answer[b]
  BY <1>1 DEF CallsInv
<1>6. \A d \in disk' : d.by # Earlier => d.by \in Calls /\ Settled(d)'
  BY <1>2 DEF LogInv, Settled, Handles
<1>7. \A e \in log' : e.call \in Calls /\ answer'[e.call] # "none" /\ e.tool = input'[e.call].tool
  BY <1>1, <1>2, <1>3, <1>5 DEF LogInv
<1>8. ChangesAreLogged'
  <2> SUFFICES ASSUME NEW d \in disk, d.by # Earlier, answer'[d.by] # "none"
               PROVE  \/ \E e \in log' : e.call = d.by
                      \/ d.by \in lost'
                      \/ /\ input[d.by].tool = "create_quick_plan"
                         /\ answer'[d.by] = "error" /\ d.file.doc = "plan"
    BY <1>2 DEF ChangesAreLogged
  <2>1. d.by \in Calls /\ Settled(d)
    BY DEF LogInv
  <2>2. CASE d.by # c
    BY <1>3, <1>5, <2>1, <2>2 DEF LogInv, ChangesAreLogged
  <2>3. CASE d.by = c /\ decision # "silent"
    BY <1>3, <2>3
  <2>4. CASE d.by = c /\ decision = "silent"
    <3>1. place[c] \in 1..Len(Handles(c).work) /\ Current(c).event = "silent" /\ result = "error"
      BY <1>1, <1>4, <2>4 DEF Handles
    <3>2. Handles(c) = HandleCreateQuickPlan /\ place[c] = 2
      BY <1>4, <3>1, SilentSteps DEF Handles, Current
    <3>3. input[c].tool = "create_quick_plan"
      BY <1>4, <3>2, ByName DEF Handles
    <3> QED BY <1>5, <2>1, <2>4, <3>1, <3>2, <3>3 DEF Settled
  <2> QED BY <2>2, <2>3, <2>4
<1>9. BlockedMeansUntouched'
  <2> SUFFICES ASSUME NEW e \in log', e.decision # "allowed",
                      e.tool \notin {"complete_planning_phase", "finalize_planning_workflow"},
                      NEW d \in disk, d.by = e.call
               PROVE  FALSE
    BY <1>2 DEF BlockedMeansUntouched
  <2>1. CASE e \in log
    BY <2>1 DEF LogInv, BlockedMeansUntouched
  <2>2. CASE e \notin log
    <3>1. e.call = c /\ e.tool = input[c].tool /\ e.decision = decision /\ decision # "silent"
      BY <1>3, <2>2
    <3>2. place[c] \in place[c]..Len(Handles(c).work) /\ decision = Current(c).event
      BY <1>1, <1>4, <3>1, HandlersHaveWork DEF Handles
    <3>3. Handles(c) \notin Long
      BY <1>4, <3>1, ByName DEF Handles
    <3>4. Settled(d) /\ d.by = c
      BY <3>1, ProjectsAssumption DEF LogInv
    <3>5. Current(c).event = "silent"
      BY <3>2, <3>3, <3>4 DEF Settled, Current
    <3> QED BY <3>1, <3>2, <3>5
  <2> QED BY <2>1, <2>2
<1> QED BY <1>6, <1>7, <1>8, <1>9 DEF LogInv

LEMMA LogInvariance == ServerSpec => []LogInv
<1>1. ServerInit => LogInv
  <2> SUFFICES ASSUME ServerInit PROVE LogInv
    OBVIOUS
  <2>1. log = {} /\ \A d \in disk : d.by = Earlier
    BY DEF ServerInit
  <2> QED BY <2>1 DEF LogInv, ChangesAreLogged, BlockedMeansUntouched
<1>2. CallsInv /\ CallsTypeOK /\ LogInv /\ [ServerNext]_serverVars => LogInv'
  <2> SUFFICES ASSUME CallsInv, CallsTypeOK, LogInv, [ServerNext]_serverVars PROVE LogInv'
    OBVIOUS
  <2>1. CASE UNCHANGED serverVars \/ ServerTick
    <3>1. UNCHANGED <<input, place, answer, disk, log, lost>>
      BY <2>1 DEF serverVars, callVars, auditVars, ServerTick
    <3> QED BY <3>1 DEF LogInv, Settled, Handles, ChangesAreLogged, BlockedMeansUntouched
  <2>2. ASSUME NEW c \in Calls, Advance(c) PROVE LogInv'
    BY <2>2, GoOnLogInv, WriteLogInv, AnswerLogInv DEF Advance
  <2> QED BY <2>1, <2>2, EnterLogInv DEF ServerNext
<1> QED BY <1>1, <1>2, CallsInvariance, CallsTyped, PTL DEF ServerSpec

\* Once a call is answered, it has an event in the audit log if it left a file
\* in a project, but for an event the logger lost and the plan of a
\* create_quick_plan whose prompt failed (tools.go:763-767, logger.go:57).
THEOREM AnsweredIsLogged == ServerSpec => []ChangesAreLogged
<1>1. LogInv => ChangesAreLogged
  BY DEF LogInv
<1> QED BY <1>1, LogInvariance, PTL

\* A call that the log calls blocked or failed has left no document in a project,
\* unless it was to complete a phase or a workflow (tools.go:918, 954).
THEOREM BlockedIsUntouched == ServerSpec => []BlockedMeansUntouched
<1>1. LogInv => BlockedMeansUntouched
  BY DEF LogInv
<1> QED BY <1>1, LogInvariance, PTL

-----------------------------------------------------------------------------
(* The names of documents *)

LEMMA DaysInOrder ==
  ASSUME NEW s \in Nat, NEW t \in Nat, s <= t
  PROVE  s \div Day <= t \div Day
<1> DEFINE m == s \div Day
           n == t \div Day
<1>1. Day \in Nat \ {0}
  BY NamesAssumption
<1>2. m \in Int /\ n \in Int /\ s >= Day * m /\ t < Day * n + Day
  BY <1>1
<1>3. SUFFICES ASSUME m >= n + 1 PROVE FALSE
  BY <1>2
<1> HIDE DEF m, n
<1>4. Day * m >= Day * (n + 1)
  BY <1>1, <1>2, <1>3
<1>5. Day * (n + 1) = Day * n + Day
  BY <1>1, <1>2
<1> QED BY <1>1, <1>2, <1>4, <1>5

\* A quick plan or a prompt is replaced only by a call that looked at the clock
\* no later than on the day in its name (markdown.go:27, workflow.go:426).
THEOREM NamesakesOfADay == ServerSpec => ReplacedOnItsDay
<1> DEFINE Replaced ==
      \A d \in disk \ disk' : d.file \in Documents =>
        \E c \in Calls : wrote'[c] # wrote[c] /\ since[c] \div Day <= d.file.at
<1>1. CallsInv /\ CallsTypeOK /\ [ServerNext]_serverVars => [Replaced]_serverVars
  <2> SUFFICES ASSUME CallsInv, CallsTypeOK, ServerNext PROVE Replaced
    OBVIOUS
  <2>1. SUFFICES ASSUME NEW d \in disk \ disk', d.file \in Documents
                 PROVE  \E c \in Calls : wrote'[c] # wrote[c] /\ since[c] \div Day <= d.file.at
    OBVIOUS
  <2>2. PICK c \in Calls : WriteDocument(c)
    BY <2>1 DEF ServerNext, ServerTick, Enter, RefuseRate, RefuseInput, Begin, Advance,
                StatFile, LoadFile, Skip, Fail, Report
  <2>3. PICK t \in NamingTimes(c) :
          /\ d.file = FileOf(input[c], Current(c).doc, t)
          /\ wrote' = [wrote EXCEPT ![c] = Append(@, FileOf(input[c], Current(c).doc, t))]
    BY <2>1, <2>2 DEF WriteDocument
  <2>4. since[c] \in Nat /\ now \in Nat /\ t \in Nat /\ since[c] <= t
    BY <2>3, ClockAssumption DEF CallsTypeOK, TypeOK, NamingTimes
  <2>5. wrote'[c] # wrote[c]
    BY <2>3 DEF CallsTypeOK
  <2>6. Current(c).doc \in {"plan", "prompt"}
    BY <2>1, <2>3, FileDoc DEF Documents
  <2>7. d.file.at = t \div Day
    BY <2>3, <2>6 DEF FileOf
  <2>8. since[c] \div Day <= d.file.at
    BY <2>4, <2>7, DaysInOrder
  <2> QED BY <2>5, <2>8
<1>2. ServerSpec => [][Replaced]_serverVars
  BY <1>1, CallsInvariance, CallsTyped, PTL DEF ServerSpec
<1> QED BY <1>2 DEF ReplacedOnItsDay

=============================================================================
