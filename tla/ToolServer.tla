----------------------------- MODULE ToolServer -----------------------------
(***************************************************************************)
(* The tool calls of the server (internal/mcpserver/tools.go): every       *)
(* registered tool, from its rate limit to its audit event and its answer, *)
(* with any number of calls in flight.  net/http runs each call in a       *)
(* goroutine of its own.  A handler is written as what it checks, what it  *)
(* then does to files, and which document its last audit event names; the  *)
(* actions below carry any of them out.  The limiter is module RateLimiter *)
(* itself, and its Admit a conjunct of the action that enters a handler.   *)
(* What Complete and Finalize require of a session is module Workflow's    *)
(* business, what a single write consists of AtomicFile's.                 *)
(***************************************************************************)
EXTENDS RateLimiter

CONSTANTS Calls,         \* tool calls; each is made once
          Projects,      \* project ids (and root ids) that resolve
          Strange,       \* one that does not
          ReadOnly,      \* projects of roots with read_only
          Closed,        \* projects of roots whose writable_plan_dirs are not
                         \* empty and do not contain .chatgpt
          Titles,        \* what a client may ask a document to be called
          SlugOf,        \* slugify, as a function of the titles
          SecretSlugs,   \* slugs that isSecretFile takes for a secret's name
          NoTitle,       \* for tools that have no title
          Day,           \* ticks of the clock in a day
          Sessions,      \* bound: the session ids clients ask for
          Leftover,      \* the files the projects hold to begin with, as pairs
          Earlier,       \* whoever wrote those
          MaxLost        \* bound: audit events the logger fails to write

Days == {t \div Day : t \in 0..MaxTime}
Slugs == {SlugOf[t] : t \in Titles}
NoSession == [at |-> 0, slug |-> NoTitle]

\* Files of a project, by what names them: nothing, a day and a slug, or a
\* second and a slug (a session).  NoFile stands for an event's empty path.
RootFiles == [doc : {"agents", "fromgpt"}, at : {0}, slug : {NoTitle}]
Documents == [doc : {"plan", "prompt"}, at : Days, slug : Slugs]
SessionFiles == [doc : {"state", "artifact", "master"}, at : 0..MaxTime, slug : Slugs]
Files == RootFiles \cup Documents \cup SessionFiles
NoFile == [doc |-> "none", at |-> 0, slug |-> NoTitle]

ASSUME ProjectsAssumption ==
  /\ ReadOnly \subseteq Projects /\ Closed \subseteq Projects
  /\ Strange \notin Projects /\ Earlier \notin Calls /\ IsFiniteSet(Calls)
ASSUME NamesAssumption ==
  /\ Titles \subseteq DOMAIN SlugOf /\ NoTitle \notin Slugs
  /\ Day \in Nat \ {0} /\ Leftover \subseteq Projects \X Files
  /\ Sessions \subseteq [at : 0..MaxTime, slug : Slugs]

-----------------------------------------------------------------------------
(* The handlers.  A check or a step that fails ends the call with an error,*)
(* after an audit event "blocked" or "error", or after none ("silent").    *)

Check(test, event) == [test |-> test, event |-> event]
Resolves == Check("resolves", "blocked")
RootWritable == Check("writable", "blocked")

\* WriteFile goes through the guard, the workflow's own writeFile does not.
\* "needs" says when the step is taken at all.
Step(does, doc, needs, event) == [does |-> does, doc |-> doc, needs |-> needs, event |-> event]
Write(doc, needs, event) == Step("write", doc, needs, event)
Store(doc, needs, event) == Step("store", doc, needs, event)
Load(doc, event) == Step("load", doc, "always", event)
Stat(doc, event) == Step("stat", doc, "always", event)

Handler(takes, checks, work, reports) ==
  [takes |-> takes, checks |-> checks, work |-> work, reports |-> reports]

HandleGetProjectBrainGuide == Handler({}, <<>>, <<>>, "none")

HandleListRoots == Handler({}, <<>>, <<>>, "none")

\* The root id is looked up; DetectProjects returns no error.
HandleListProjects == Handler({"project"}, <<Resolves>>, <<>>, "none")

HandleInspectProject == Handler({"project"}, <<Resolves>>, <<>>, "none")

HandleGetProjectTree == Handler({"project"}, <<Resolves>>, <<>>, "none")

HandleReadProjectFile ==
  Handler({"project"}, <<Resolves>>, <<Load("any", "blocked")>>, "none")

HandleSearchProject ==
  Handler({"project"}, <<Resolves>>, <<Load("any", "error")>>, "none")

HandleBootstrapProjectAgentsMD ==
  Handler({"project", "overwrite"}, <<Resolves>>,
          <<Stat("agents", "error"), Write("agents", "absent", "blocked")>>, "agents")

\* Slip: the prompt first, the plan it points to later.
SlipPromptFirst ==
  Handler({"project", "title", "text", "prompt"},
          <<Resolves, RootWritable, Check("text", "silent")>>,
          <<Write("prompt", "prompt", "silent"), Write("plan", "always", "blocked")>>, "plan")

HandleCreateQuickPlan ==
  Handler({"project", "title", "text", "prompt"},
          <<Resolves, RootWritable, Check("text", "silent")>>,
          <<Write("plan", "always", "blocked"), Write("prompt", "prompt", "silent")>>, "plan")

HandleStartPlanningWorkflow ==
  Handler({"project", "title", "text"}, <<Resolves, RootWritable, Check("text", "error")>>,
          <<Store("state", "always", "error")>>, "state")

HandleGetPlanningWorkflowStatus ==
  Handler({"project", "session"}, <<Resolves>>, <<Load("state", "error")>>, "none")

HandleGetCurrentPlanningPhase ==
  Handler({"project", "session"}, <<Resolves>>,
          <<Load("state", "error"), Load("any", "blocked")>>, "none")

\* Slip: the read-only root is not looked at.
SlipForgottenRoot ==
  Handler({"project", "session"}, <<Resolves>>,
          <<Load("state", "blocked"), Store("artifact", "always", "blocked"),
            Store("state", "always", "blocked")>>, "artifact")

\* Slip: a state that cannot be written ends the call without an event.
SlipSilentState ==
  Handler({"project", "session"}, <<Resolves, RootWritable>>,
          <<Load("state", "blocked"), Store("artifact", "always", "blocked"),
            Store("state", "always", "silent")>>, "artifact")

HandleCompletePlanningPhase ==
  Handler({"project", "session"}, <<Resolves, RootWritable>>,
          <<Load("state", "blocked"), Store("artifact", "always", "blocked"),
            Store("state", "always", "blocked")>>, "artifact")

HandleFinalizePlanningWorkflow ==
  Handler({"project", "session", "title", "prompt"}, <<Resolves, RootWritable>>,
          <<Load("state", "blocked"), Stat("agents", "blocked"),
            Store("agents", "absent", "blocked"), Store("master", "always", "blocked"),
            Store("prompt", "prompt", "blocked"), Store("state", "always", "blocked")>>, "master")

\* A file that is missing is an answer, too.
HandleReadToGPTMessage ==
  Handler({"project"}, <<Resolves>>, <<Load("any", "blocked")>>, "none")

HandleAppendFromGPTMessage ==
  Handler({"project", "text"}, <<Resolves, Check("text", "silent")>>,
          <<Load("any", "blocked"), Write("fromgpt", "always", "blocked")>>, "fromgpt")

\* registerTools.
Registered ==
  [get_project_brain_guide |-> HandleGetProjectBrainGuide,
   list_roots |-> HandleListRoots,
   list_projects |-> HandleListProjects,
   inspect_project |-> HandleInspectProject,
   get_project_tree |-> HandleGetProjectTree,
   read_project_file |-> HandleReadProjectFile,
   search_project |-> HandleSearchProject,
   bootstrap_project_agents_md |-> HandleBootstrapProjectAgentsMD,
   create_quick_plan |-> HandleCreateQuickPlan,
   start_planning_workflow |-> HandleStartPlanningWorkflow,
   get_planning_workflow_status |-> HandleGetPlanningWorkflowStatus,
   get_current_planning_phase |-> HandleGetCurrentPlanningPhase,
   complete_planning_phase |-> HandleCompletePlanningPhase,
   finalize_planning_workflow |-> HandleFinalizePlanningWorkflow,
   read_togpt_message |-> HandleReadToGPTMessage,
   append_fromgpt_message |-> HandleAppendFromGPTMessage]

ASSUME ToolsAssumption == Tools \subseteq DOMAIN Registered

\* What a client may ask; a field the tool does not have keeps one value.
Inputs ==
  {in \in [tool : Tools, project : Projects \cup {Strange}, title : Titles \cup {NoTitle},
           session : Sessions \cup {NoSession}, text : BOOLEAN, prompt : BOOLEAN,
           overwrite : BOOLEAN] :
     LET takes == Registered[in.tool].takes IN
     /\ "project" \notin takes => in.project = Strange
     /\ in.title # NoTitle <=>
          "title" \in takes /\ ("session" \in takes => in.prompt)
     /\ "session" \in takes <=> in.session # NoSession
     /\ "text" \notin takes => in.text
     /\ "prompt" \notin takes => ~in.prompt
     /\ "overwrite" \notin takes => ~in.overwrite}

-----------------------------------------------------------------------------
VARIABLES input,   \* input[c]: what call c asks for
          place,   \* place[c]: the next step of its handler's work; 0 as long
                   \* as the limiter has not let it in
          absent,  \* absent[c]: what its os.Stat found (and whether it matters)
          wrote,   \* wrote[c]: the files it has written, in order
          answer,  \* answer[c]: "none" until the client has its answer
          since,   \* since[c]: when it began, or wrote its last document
          disk,    \* the projects' files: who wrote each, and the file its
                   \* text points to
          log,     \* the audit events that were written
          lost     \* history: the calls whose event the logger failed to write

limiterVars == <<now, when, hits>>
callVars == <<input, place, absent, wrote, answer, since>>
auditVars == <<log, lost>>
serverVars == <<limiterVars, callVars, disk, auditVars>>

NoInput == [tool |-> "none"]
Answers == {"none", "ok", "error"}

Handles(c) == Registered[input[c].tool]
Running(c) == place[c] > 0 /\ answer[c] = "none"
Current(c) == Handles(c).work[place[c]]
AtStep(c, does) ==
  /\ Running(c) /\ place[c] <= Len(Handles(c).work)
  /\ Current(c).does = does

OnDisk(p, f) == \E d \in disk : d.project = p /\ d.file = f

\* The path of a document of the call in, named at time t: plans.Generate,
\* StateRelPath, PhaseArtifactRelPath, and the prompts of Finalize.
RootFile(doc) == [doc |-> doc, at |-> 0, slug |-> NoTitle]
SessionFile(in, doc, t) ==
  IF in.session = NoSession
  THEN [doc |-> doc, at |-> t, slug |-> SlugOf[in.title]]
  ELSE [doc |-> doc, at |-> in.session.at, slug |-> in.session.slug]

\* Slip: the day is left out of the names.
SlipUndated(in, doc, t) ==
  CASE doc \in {"agents", "fromgpt"} -> RootFile(doc)
    [] doc \in {"plan", "prompt"} -> [doc |-> doc, at |-> 0, slug |-> SlugOf[in.title]]
    [] OTHER -> SessionFile(in, doc, t)

FileOf(in, doc, t) ==
  CASE doc \in {"agents", "fromgpt"} -> RootFile(doc)
    [] doc \in {"plan", "prompt"} -> [doc |-> doc, at |-> t \div Day, slug |-> SlugOf[in.title]]
    [] OTHER -> SessionFile(in, doc, t)

WriteAllowed(p, f) ==
  /\ p \notin ReadOnly
  /\ f.slug \notin SecretSlugs
  /\ f \in RootFiles \/ p \notin Closed

Needed(c) ==
  CASE Current(c).needs = "always" -> TRUE
    [] Current(c).needs = "prompt" -> input[c].prompt
    [] Current(c).needs = "absent" -> absent[c]

-----------------------------------------------------------------------------
(* Actions *)

\* Log ignores the error of Encode: the call goes on without its event.
Audit(c, in, decision, file) ==
  LET event == [call |-> c, tool |-> in.tool, project |-> in.project,
                decision |-> decision, file |-> file] IN
  IF decision = "silent"
  THEN UNCHANGED auditVars
  ELSE \/ log' = log \cup {event} /\ UNCHANGED lost
       \/ Cardinality(lost) < MaxLost /\ lost' = lost \cup {c} /\ UNCHANGED log

Answer(c, result) == answer' = [answer EXCEPT ![c] = result]

Holds(test, in) ==
  CASE test = "resolves" -> in.project \in Projects
    [] test = "writable" -> in.project \notin ReadOnly
    [] test = "text" -> in.text

Failing(in) ==
  LET checks == Registered[in.tool].checks IN
  {i \in 1..Len(checks) : ~Holds(checks[i].test, in)}

\* A call over its tool's limit.
RefuseRate(c, in) ==
  /\ Refused(in.tool)
  /\ input' = [input EXCEPT ![c] = in]
  /\ Audit(c, in, "blocked", NoFile)
  /\ Answer(c, "error")
  /\ UNCHANGED <<limiterVars, place, absent, wrote, since, disk>>

\* A call that one of the handler's checks turns away.
RefuseInput(c, in) ==
  /\ Admit(in.tool)
  /\ \E i \in Failing(in) :
       /\ \A j \in Failing(in) : i <= j
       /\ Audit(c, in, Registered[in.tool].checks[i].event, NoFile)
  /\ input' = [input EXCEPT ![c] = in]
  /\ place' = [place EXCEPT ![c] = 1]
  /\ Answer(c, "error")
  /\ UNCHANGED <<absent, wrote, since, disk>>

Begin(c, in) ==
  /\ Admit(in.tool)
  /\ Failing(in) = {}
  /\ input' = [input EXCEPT ![c] = in]
  /\ place' = [place EXCEPT ![c] = 1]
  /\ since' = [since EXCEPT ![c] = now]
  /\ UNCHANGED <<absent, wrote, answer, disk, auditVars>>

Enter(c) ==
  /\ place[c] = 0 /\ answer[c] = "none"
  /\ \E in \in Inputs : RefuseRate(c, in) \/ RefuseInput(c, in) \/ Begin(c, in)

GoOn(c) == place' = [place EXCEPT ![c] = @ + 1]

\* os.Stat of AGENTS.md; with overwrite the file is written all the same.
StatFile(c) ==
  /\ AtStep(c, "stat")
  /\ absent' = [absent EXCEPT ![c] = \/ input[c].overwrite
                                     \/ ~OnDisk(input[c].project, RootFile(Current(c).doc))]
  /\ GoOn(c)
  /\ UNCHANGED <<limiterVars, input, wrote, answer, since, disk, auditVars>>

\* A read; of a session's state it needs the file.
LoadFile(c) ==
  /\ AtStep(c, "load")
  /\ Current(c).doc = "state" => OnDisk(input[c].project, SessionFile(input[c], "state", now))
  /\ GoOn(c)
  /\ UNCHANGED <<limiterVars, input, absent, wrote, answer, since, disk, auditVars>>

\* Slip: the step after the one that is not needed is left out as well.
SlipSkipTwo(c) ==
  /\ AtStep(c, "write") \/ AtStep(c, "store")
  /\ ~Needed(c)
  /\ place' = [place EXCEPT ![c] = @ + 2]
  /\ UNCHANGED <<limiterVars, input, absent, wrote, answer, since, disk, auditVars>>

\* A file that is not asked for, or is there.
Skip(c) ==
  /\ AtStep(c, "write") \/ AtStep(c, "store")
  /\ ~Needed(c)
  /\ GoOn(c)
  /\ UNCHANGED <<limiterVars, input, absent, wrote, answer, since, disk, auditVars>>

\* A prompt names the plan that was written before it.
Reference(c, f) ==
  IF f.doc = "prompt" /\ wrote[c] # <<>> THEN wrote[c][Len(wrote[c])] ELSE NoFile

\* Generate looks at the clock some time before its file is written; the
\* workflow is given the time at which the handler called it.
NamingTimes(c) == IF Current(c).does = "write" THEN since[c]..now ELSE {since[c]}

WriteDocument(c) ==
  /\ AtStep(c, "write") \/ AtStep(c, "store")
  /\ Needed(c)
  /\ \E t \in NamingTimes(c) :
     LET p == input[c].project
         f == FileOf(input[c], Current(c).doc, t) IN
     /\ Current(c).does = "write" => WriteAllowed(p, f)
     /\ disk' = {d \in disk : d.project # p \/ d.file # f}
                \cup {[project |-> p, file |-> f, by |-> c, ref |-> Reference(c, f)]}
     /\ wrote' = [wrote EXCEPT ![c] = Append(@, f)]
  /\ since' = [since EXCEPT ![c] = IF Current(c).does = "write" THEN now ELSE @]
  /\ GoOn(c)
  /\ UNCHANGED <<limiterVars, input, absent, answer, auditVars>>

\* The step returns an error: the guard's, the file system's, the content's.
Fail(c) ==
  /\ Running(c) /\ place[c] <= Len(Handles(c).work)
  /\ Current(c).does \in {"write", "store"} => Needed(c)
  /\ Audit(c, input[c], Current(c).event, NoFile)
  /\ Answer(c, "error")
  /\ UNCHANGED <<limiterVars, input, place, absent, wrote, since, disk>>

\* The last audit event, which names what was written, and the answer.
Report(c) ==
  /\ Running(c) /\ place[c] > Len(Handles(c).work)
  /\ Audit(c, input[c], "allowed",
           IF \E i \in DOMAIN wrote[c] : wrote[c][i].doc = Handles(c).reports
           THEN wrote[c][CHOOSE i \in DOMAIN wrote[c] : wrote[c][i].doc = Handles(c).reports]
           ELSE NoFile)
  /\ Answer(c, "ok")
  /\ UNCHANGED <<limiterVars, input, place, absent, wrote, since, disk>>

Advance(c) ==
  StatFile(c) \/ LoadFile(c) \/ Skip(c) \/ WriteDocument(c) \/ Fail(c) \/ Report(c)

ServerTick == Tick /\ UNCHANGED <<callVars, disk, auditVars>>

ServerInit ==
  /\ Init
  /\ input = [c \in Calls |-> NoInput]
  /\ place = [c \in Calls |-> 0]
  /\ absent = [c \in Calls |-> FALSE]
  /\ wrote = [c \in Calls |-> <<>>]
  /\ since = [c \in Calls |-> 0]
  /\ answer = [c \in Calls |-> "none"]
  /\ disk = {[project |-> x[1], file |-> x[2], by |-> Earlier, ref |-> NoFile] : x \in Leftover}
  /\ log = {} /\ lost = {}

ServerNext == (\E c \in Calls : Enter(c) \/ Advance(c)) \/ ServerTick

ServerSpec == ServerInit /\ [][ServerNext]_serverVars

-----------------------------------------------------------------------------
(* Properties *)

Entry == [project : Projects, file : Files, by : Calls \cup {Earlier},
          ref : Files \cup {NoFile}]
Event == [call : Calls, tool : Tools, project : Projects \cup {Strange},
          decision : {"allowed", "blocked", "error"}, file : Files \cup {NoFile}]

CallsTypeOK ==
  /\ TypeOK
  /\ input \in [Calls -> Inputs \cup {NoInput}]
  /\ place \in [Calls -> Nat]
  /\ \A c \in Calls : place[c] > 0 =>
       input[c] # NoInput /\ place[c] <= Len(Handles(c).work) + 1
  /\ absent \in [Calls -> BOOLEAN]
  /\ wrote \in [Calls -> Seq(Files)]
  /\ answer \in [Calls -> Answers]
  /\ since \in [Calls -> 0..MaxTime]
  /\ disk \subseteq Entry
  /\ log \subseteq Event
  /\ lost \subseteq Calls

\* Whatever tools are called, together or one after the other, the files of a
\* read-only root stay as they were.  Three mechanisms see to it: a check in
\* four handlers, the guard of WriteFile in three others, and neither of them
\* in the tools that only read (tools.go:720, 832, 912, 948; guard.go:64).
ReadOnlyUntouched ==
  \A d \in disk : d.project \in ReadOnly => d.by = Earlier

\* Once a call is answered, a call that left a file in a project has left an
\* event of its own in the audit log too, but for an event the logger failed to
\* write and for the plan of a create_quick_plan whose prompt failed
\* (tools.go:763-767).  That the event names the file is not asked: one event
\* stands for all the files of a phase or a finalization.
ChangesAreLogged ==
  \A d \in disk : d.by # Earlier /\ answer[d.by] # "none" =>
    \/ \E e \in log : e.call = d.by
    \/ d.by \in lost
    \/ input[d.by].tool = "create_quick_plan" /\ answer[d.by] = "error" /\ d.file.doc = "plan"

\* A call the log calls blocked or failed has left no document in a project
\* (a failed write may leave directories and a .tmp file, write.go:26-33),
\* unless it was to complete a phase or a workflow: these write several files
\* and log a failure of a later one like one of the first (tools.go:918, 954).
BlockedMeansUntouched ==
  \A e \in log :
    e.decision # "allowed"
      /\ e.tool \notin {"complete_planning_phase", "finalize_planning_workflow"} =>
        \A d \in disk : d.by # e.call

\* The plan or master plan an implementation prompt tells its reader to follow
\* is there, from the moment the prompt is, whichever call fails half-way
\* (tools.go:752-770, workflow.go:414-426).
PromptHasPlan ==
  \A d \in disk : d.file.doc = "prompt" /\ d.by # Earlier =>
    d.ref.doc \in {"plan", "master"} /\ OnDisk(d.project, d.ref)

\* A quick plan or a prompt is replaced by a namesake of its own day only: a
\* call that first looks at the clock on a later day leaves it alone, whatever
\* its title, and whichever tool wrote it (markdown.go:27, workflow.go:426).
ReplacedOnItsDay ==
  [][\A d \in disk \ disk' : d.file \in Documents =>
       \E c \in Calls : wrote'[c] # wrote[c] /\ since[c] \div Day <= d.file.at]_serverVars

=============================================================================
