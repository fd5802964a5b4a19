# Verification of project-brain-mcp

project-brain-mcp is a Go server that lets a planning assistant (ChatGPT, over
MCP) inspect local projects and write planning documents into them, for a
downstream implementation agent to follow. This directory holds TLA+ modules of
the parts of it that keep state, TLC configurations that check them on small
instances, and proofs, checked by TLAPS, that hold for every value of the
constants. Line numbers refer to the repository.

## The system

Everything runs in one process. `net/http` starts a goroutine per request, and
nothing orders two tool calls: the only locks are the ones inside the rate
limiter, the audit logger and the map of authorization codes. All durable state
is files in the projects.

| Part | State | Operations | Talks to |
|---|---|---|---|
| planning workflow, `internal/workflow/workflow.go` | per session: `workflow.json`, one artifact per phase, `final/master-plan.md`; per project: `AGENTS.md`, implementation prompts | `Start`, `Load` (with `normalizeLegacyState`), `Complete`, `Finalize` | called by the tool handlers; writes with its own `writeFile` |
| file writes, `internal/fsx/write.go` (and `writeFile`) | directory entries, the `.tmp` file | write to `path + ".tmp"`, rename, remove on failure | the file system |
| rate limiter, `internal/security/limits.go` | times of the admitted calls, per tool, under a mutex | `Allow` | every tool handler |
| tool handlers, `internal/mcpserver` | none of their own | 16 registered tools; each: rate limit, resolve project, read-only check, operation, audit | all the others |
| fromgpt/togpt channel, `tools.go:969-1030` | `fromgpt.md`, `togpt.md` | append (read, extend, rewrite), read | file reads and writes |
| OAuth server, `internal/auth` | codes in memory; approve tokens and access tokens are signed and kept by the client | authorize, approve, exchange, verify | browser, client |
| audit log, `internal/audit` | one append-only file under a mutex | `Log` | every tool handler |
| search, tree, project list (`fsx/search.go`, `project/tree.go`, `project/detect.go`) | none that lasts: a walk keeps its results and its place in the directories | `SearchProject`, `GetProjectTree`, `DetectProjects` | tool handlers, path guard, the file system |
| reads, path guard, project resolution, inspection, redaction (`internal/fsx`, `internal/project`) | none | stateless functions over the file system | tool handlers |
| documents (`internal/plans`), diagnostics, configuration, `cmd/server` | none | templates, probes, start-up | |

What is hard in this code:

* **Interleaving.** `Complete` and `Finalize` load the state, write other files
  and write their whole copy back. `Finalize` and `bootstrap_project_agents_md`
  look for `AGENTS.md` and write it later. `append_fromgpt_message` reads,
  extends and rewrites. Two exchanges of one OAuth code can both find it.
* **Crashes and failed writes.** One call writes up to `3 + prompts` files, in an
  order chosen so that a prefix of them must be harmless and repeatable.
* **Walks over files that change.** A search, a tree and a project list read one
  directory after the other while other programs create and delete; their limits
  are enforced in the middle of directories and files, by errors that the callers
  drop or take back.
* **Names that collide.** Documents are named by day and slug, sessions by second
  and slug; the handlers look at the clock several times, over midnight too.
* **Exits.** A handler can end at ten and more places, and each has to count, log
  and leave behind what it should.
* **Files of an earlier version.** A session may have been left by the
  manual-approval version; the migration happens at every load and reaches the
  disk only with the next write.
* **Shared temporary files.** All writers of one path use the same `.tmp`.
* **Boundaries in time.** The limiter's window, the approval window, code and
  token expiry.

What makes each part correct: a *session* is an append-only log of phase
artifacts closed by a master plan, always resumable, and what its state file
says is backed by files; a *file write* is one atomic step for every reader; the
*limiter* admits at most its limit in any window and refuses for no other
reason; an *append* keeps everything appended before; a *code* is worth one
token, for the client it was made for and in time; a *tool call* that was
refused has changed nothing, and one that changed something is in the log; a
*walk* keeps to its limit, is sorted, invents nothing and skips nothing.

## Modules

| Module | What it is |
|---|---|
| `Workflow` | sessions and the handlers start, complete, finalize, bootstrap |
| `PlanLog` | abstract: a session as a log of artifacts closed by a plan |
| `WorkflowProofs` | invariance proofs about `Workflow` |
| `WorkflowRefinement` | `Workflow` implements `PlanLog`, for each session that one handler at a time works on |
| `AtomicFile` | one file write down to entries, inodes and descriptors |
| `FileRegister` | abstract: a file as a register of whole contents |
| `AtomicFileProofs` | invariance and refinement proofs about `AtomicFile`, path by path |
| `RateLimiter` | the sliding window |
| `RateLimiterProofs` | invariance proofs about `RateLimiter` |
| `Mailbox` | the channel `fromgpt.md`: read, extend, rewrite by way of the shared temporary file |
| `MailboxProofs` | proofs about `Mailbox`: order, size, appends and refusals |
| `OAuth` | approval pages, codes and access tokens over a clock |
| `CodeGrant` | abstract: what a code promises, without pages, clock or requests |
| `OAuthProofs` | invariance proofs about `OAuth`, and that it implements `CodeGrant` |
| `ToolServer` | every registered tool call from the rate limit to the audit event and the answer; extends `RateLimiter` |
| `ToolServerProofs` | invariance proofs about `ToolServer`, and that it implements `RateLimiter` |
| `ProjectWalks` | the walks of tree, inspection, search and project list over changing files |
| `ProjectWalksProofs` | invariance proofs about `ProjectWalks` |
| `MCWorkflow`, `MCAtomicFile`, `MCRateLimiter`, `MCMailbox`, `MCOAuth`, `MCToolServer`, `MCProjectWalks` | sets and symmetries for TLC |

How they fit together: `ToolServer` takes a handler as the files it writes and the
points where it may end; `Workflow` and `Mailbox` take the handlers that read what
they write and look inside those; `AtomicFile` looks inside one write, of any path
and by any number of writers, and `Mailbox` and `Workflow` keep of it what matters
to the one path that overlapping handlers write;
`ProjectWalks` inside the handlers that only read. `RateLimiter` is not merely
alongside: its `Admit` is a conjunct of the action that enters a handler, and
`ToolServerProofs!UsesLimiter` is the refinement.

Definitions whose name begins with `Slip` are plausible mistakes in the definition
that follows them. They are used by no specification; `PROJECT.json` pairs each
with the property it breaks, as evidence that the property can fail.

### Workflow

| Variable or record | Code |
|---|---|
| `disk[s]` | `workflow.json` of session `s`: `status`, `current_phase`, the status of each phase (`State`). `Absent` stands for no file |
| `artifact[s][p]` | the file `PhaseArtifactRelPath` names |
| `master[s]`, `agents`, `prompt[t, q]` | `final/master-plan.md`, `AGENTS.md` (who wrote it), the prompt file of session title `t` and prompt title `q` |
| `call[c]` | a goroutine inside a handler: its place, its copy `st` of the state, its arguments |
| `now` | the second that goes into a session id |

A handler is entered by `Start`, `Complete`, `Finalize` or `Bootstrap`, which do
everything up to the first write (load, normalise, check); then one action per
file written: `WriteArtifact`, `WriteState`, `StatAgents`/`WriteAgents`,
`WriteMaster`, `WritePrompt`, `WriteFinalState`, `WriteBootstrap`. `Fail` is a
write that returns an error, `Crash` the death and restart of the process. A call
that the checks reject changes nothing and is not an action.

A write of a handler that has its path to itself is one step (`AtomicFileProofs`
shows that it may be). Two handlers that write one `workflow.json` at a time share
its temporary file; `Overlap` takes such a pair together: the file may then be
either one's, unchanged or `Torn`, and each of the two may be through or still at
it. That is what `AtomicFile` allows, and a little more. `Torn` is a file that is
empty or a mix, which `Load` is assumed not to parse; `Complete` and `Finalize`
refuse it, `Start` may write over it. Of artifacts, plans and `AGENTS.md`, which no
handler parses, the properties ask presence, and an overlap leaves some file
there, so these writes stay one step.

Abstracted: timestamps, `gate_mode`, paths and the text of the documents; contents
are model values. A session id is a second and a slug, so that two starts may
collide; a prompt's file name keeps the two titles and drops the day (all
finalizations on one day, the case where names collide).

`Init` allows, for the sessions in `Legacy`, those states of the manual-approval
version that are in progress: `k` phases approved and the next one open, awaiting
approval or approved (`workflow_test.go:115-156` builds one of these). Sessions that
version may have left ready or completed, which the load leaves as they are, do
not start a run.

`Serial = TRUE` is a client that waits for each answer; `FALSE` lets handlers
interleave freely.

### AtomicFile

`file` and `tmp` map a path to the inode its entry and its `.tmp` entry refer to;
`data` holds for each offset whose chunk is there. `Create` opens with
`O_CREATE|O_TRUNC` (the same inode when `.tmp` exists), `WriteChunk` writes at
the descriptor's own offset, `Rename` moves whatever `.tmp` refers to by then,
`RenameFails` and `Remove` are the error path, `WriteFails` leaves the temporary
file behind, as does `Crash`. `Exclusive = TRUE` allows one writer per path at a
time; the code has nothing that ensures it, except a client that waits.

### RateLimiter

`when[t]` is the history of the admitted calls of tool `t`, `hits[t]` the part of
it the slice holds. `Admit` and `Refused` are the two results of `Allow`, which
runs under a mutex and is one step. `Second` is the number of clock ticks per
second, so that a width in ticks and a width in seconds can be told apart.

### Mailbox

| Variable | Code |
|---|---|
| `file`, `tmp` | `fromgpt.md` and `fromgpt.md.tmp`: `Missing`, `Empty` (no bytes), or entries; `<<>>` is a file of white space |
| `call[m]` | the goroutine that appends message `m`: its place in `handleAppendFromGPTMessage`, `existing`, and what its open descriptor refers to by now: the temporary file, the file itself, or one without a name |
| `writable` | whether the guard lets the root be written |
| `before[m]`, `alone` | history: the messages that had been answered when `m` was sent; those since whose read nobody has changed the file or been in `WriteFile` at the same time |
| `clash`, `theirs` | history: two calls have been in `WriteFile` at a time; the file is as other programs left it |

`Send` stands for the handler up to its read. The read is split where the code
looks at the file again: `Inspect` (existence, size, sample for the binary
check), then `Read` (`os.ReadFile`). `FindsNone`, `InspectFails` and `ReadFails`
are its other results. `Blocked` and `TooLarge` are the refusals of `WriteFile`;
past them it is `Open` (which empties a temporary file that is there), `Fill`,
`Rename`, and `RenameFindsNone` and `Remove` when another call has taken the
temporary file away. `OpenFails`, `FillFails` and `RenameFails` are the errors,
`Crash` the death of the server between any two of these. A rename moves the one
temporary file there is, so a call may install what another has just emptied, or
go on filling what everybody sees already. `Edit` is everybody else who may
change the file. Contents and sizes are counted in entries: a text is written as
a whole, or, by `FillFails`, up to some entry. The text of entries and the line
ends between them are left out.

### OAuth

| Variable | Code |
|---|---|
| `pages[s]` | the approve tokens made for state `s`, by the time in them; nobody stores them, they are signed |
| `codes`, `grant[c]` | the `sync.Map`; a code's `CodeData`, with the state and time of the approve token it was given for |
| `req[r]` | a goroutine in `ExchangeCode`: before `Delete`, before the checks |
| `uses[c]`, `token[c]`, `shared` | history: how many tokens code `c` was exchanged for, the last of them, and the codes two requests held at a time |

A *flow* is what a code is for: a redirect URI, a client and a PKCE challenge; a
request presents what belongs to some flow, and matches a code when it is the
code's. An approve token is for a state and a time; `Approve` takes the flow
from the submitted form, as `handleApprove` does, so a code may be for any flow
whatever page was approved. Signatures and hashes are taken to work, and the two
readings of the clock in one exchange are one. The clock is never set back, so
that a page from the future (the second half of the condition at
`oauth_server.go:149`) does not occur. `Second` ticks make a second: approve
tokens and the `exp` claim are kept in whole seconds, code expiry is not.
`Restart` empties the map and ends the requests. A request may overlap its own
retry. One with an unknown code, and a page whose window is over, change nothing
and are not actions.

### ToolServer

A handler of `tools.go` is a record: the fields its tool `takes`, the `checks` it
makes before it does anything, its `work` (stat, load, write through the guard, or
store with the workflow's own `writeFile`; each with the audit decision that
follows its failure, or `"silent"` where the code answers without an event), and
the document its last event `reports`. `Registered` is `registerTools`.

| Variable | Code |
|---|---|
| `now`, `when`, `hits` | the limiter, from module `RateLimiter` |
| `input[c]`, `place[c]`, `absent[c]` | a call's arguments, where its goroutine is, what its `os.Stat` of `AGENTS.md` found |
| `since[c]` | the last time the call may have looked at the clock before its next name: `Generate` names a document some time between then and its write |
| `answer[c]` | whether the client has an error, a result or nothing yet |
| `disk` | the files of the projects: who wrote each, and which file a prompt refers to |
| `log`, `lost` | `audit.jsonl`; history: the events that `Encode` failed to write |
| `wrote[c]` | history, and `planPath` of the quick plan: the files the call has written |

`RefuseRate`, `RefuseInput` and `Begin` are the three ways into a handler;
`StatFile`, `LoadFile`, `Skip` and `WriteDocument` its steps, `Fail` any error of a
step, `Report` the last event and the answer. Any read may fail for any reason, so
that what a session must be like for a phase to be completed is left to `Workflow`.
A file is named by its document and a day (or second) and slug; a title is a value
and `slugify` a function, constant `SlugOf`. `Closed` projects are those whose
`writable_plan_dirs` leave out `.chatgpt`: the guard keeps plans out of them, the
workflow's own writes do not ask it.

Five handlers of `tools.go` (`create_project_analysis_note`, `create_agent_plan`,
`create_agent_handoff`, `create_implementation_prompt`, `create_kimi_prompt`) are
registered nowhere and are left out.

### ProjectWalks

| Variable | Code |
|---|---|
| `there`, `changes` | the paths that exist, changed by other programs |
| `request` | which walk, `max_entries` or `max_results`, `depth`, and the name of the project's own directory |
| `at`, `rest` | the stack of `walk` closures, or of `filepath.WalkDir`: the directory the innermost is in, and, for it and each one above, the entries still to come |
| `found` | `results` |
| `ever`, `always` | history: what has been there since the call, some of the time and all of it |

`Ask` is a call; it and `Enter` read a directory, `PassOver`, `ListFile` and
`SearchFile` deal with one of its entries, `Leave` is the end of a directory, by
its last entry or by a full answer. `Create` and `Delete` are other programs'.
`Full` at `Leave` is the `max_entries` error: the call for the directory above
drops it, and meets the limit itself at its own next entry.

The kind of a path (directory, text, binary) and the number of matching lines of a
file do not change; a file that is deleted before it is opened has none. Lines
count up to the first of more than 64 KiB, where the scanner stops. Symbolic links
are left out, and a project's own directory stays. Patterns (`IgnoreDirs`,
`SecretNames`, `Globbed`) are sets of names.

## Runs

| Run | Instance | Shows |
|---|---|---|
| `workflow_concurrent` | 2 phases, 2 handlers, 2 sessions (1 possibly legacy), 1 prompt, 1 fault | whatever interleaves, fails or dies, overlapping writes of one `workflow.json` included: states stay canonical or are torn, completed phases have artifacts, plans stand on full sets of artifacts, completed sessions have everything, prompts point to plans |
| `workflow_serial` | 3 phases, 2 contents, 1 session, possibly legacy, 2 faults, `Serial`, fairness | no session the tools refuse to carry on; refinement of `PlanLog`; finalization leaves an existing `AGENTS.md` alone; a session that exists is eventually completed |
| `workflow_lost_update` | 2 phases, 2 handlers, no fault | *violation*: of two calls for one phase, the second writes its artifact over that of the first, after the first was answered that the phase is completed |
| `file_exclusive` | 2 paths, 2 writers, 1 reader, 5 inodes, contents of 1 and 2 chunks, `Exclusive` | reads are whole, success is one's own, refinement of `FileRegister` |
| `file_shared` | 1 path, 2 writers, 1 reader | *violation*: a reader finds an empty or mixed file |
| `rate_minute` | the limiter alone: 1 tool, 2 ticks per second | *violation*: 60 counts nanoseconds, not seconds |
| `mailbox` | 3 messages, limit of 3 entries, 2 faults, a file that is missing, empty, blank, foreign or over the limit, a root that may be read-only | however calls overlap, fail or die: the server never leaves a file over the limit; as long as no two calls were in `WriteFile` at a time, no empty one, answered messages in order and none twice; a call undisturbed from its read to its rename keeps everything and adds its entry at the end, or is refused by a full file, a read-only root or its own failed write |
| `mailbox_empty` | 2 messages, no fault | *violation*: a file of no bytes refuses every message |
| `oauth` | 2 states, 2 flows, 2 codes, 2 requests, 5 ticks (2 per second), window of 1 second, codes of 1 tick, tokens of 1 second | used codes are gone; every token is for the flow one form named and goes back to a page of that form's state, in time; one token for a code that no two requests hold at a time; a token is accepted for its life less at most a second, and no longer; refinement of `CodeGrant` |
| `oauth_retry` | 1 state, 1 flow, 1 code, 2 requests | *violation*: a request and its retry both get a token |
| `tools` | 2 calls of any of the 16 tools, an ordinary, a read-only and a closed project and an unknown one, an ordinary and a secret-looking title, 1 lost event, 1 midnight, limit of 1 call per tick | window bound, refusals exactly when the window is full, and bounded memory of the limiter inside the handlers; read-only roots untouched; calls that changed something in the log; blocked calls have left no document; prompts have their plans; replacement on the same day only |
| `walks` | 18 paths, 4 levels, ignored, secret, binary and unreadable ones among them, 2 limits, 2 depths, 2 changes by other programs | answers keep limit and order, list only what was asked for and was there at some time, miss nothing that was there all the time, and, where nothing changed meanwhile, are the reference listing up to the limit |

Three things go with these and have no run of their own. `AppendsWhenAlone` with
its condition dropped fails: of two appends that both read before either writes,
one is lost, as with `workflow_lost_update`; and `AnsweredInOrder` without
`~clash` fails by what `file_shared` shows. `OpensExactlyNext`, the other half
of the contract that `workflow_lost_update` quotes, fails as well with two calls
in flight: a stale copy reopens phases; it is proved for one handler per
session. `NoDeadEnd` fails when two handlers write one `workflow.json` at a time
and leave it torn.

### Bounds, and why they are enough

* Phases: the code treats the first, the last and the others differently, and a
  step involves a phase and the next one; 3 phases have all three kinds and 2
  keep the first and the last. The proofs are for any number.
* Two handlers: every hazard listed needs a stale reader and one that overtakes
  it. The invariants are proved for any number.
* Faults: one fault plus interleaving reaches every partial write; two allow a
  failed retry.
* `MaxTime`: one second in which two starts collide, two for distinct sessions (in
  `workflow_concurrent`).
* Five inodes: two files, two temporary files, one kept open by a reader after it
  was replaced. Four with a single path.
* Contents of one and two chunks show short-over-long and mixed contents.
* Three messages with a limit of three entries: with an entry of somebody else's the
  file fills up, without it all three fit, and two calls overtake a third. Two
  faults are an edit before and a failure after, or a crash between.
* The clock of `OAuth` runs past the approval window (5 ticks > 2 seconds of 2)
  and a code's and a token's life after it; one page per state, two states, two
  flows. `MaxUses` is 2: more than one token per code is one too many already.
* Two calls of `tools`: each property relates a call to files, to the log or to one
  other call. One midnight: `Day` is one tick. A limit of one call makes the second
  call of a tool the one over the limit or the one after the window.
* The project of `walks` has each kind of entry, one of them before and one after
  others in its directory, below and beside one another; a limit of 3 is reached
  within a directory, at its end, and between the two lines of a file; 99 never.
  Depths of 1 and 2 cut the fourth and the third level off. Two changes are one
  before and one after the directory is read, or a deletion and the file's return.
* `RateLimiterMinute.cfg`, `Mailbox*.cfg`, `OAuth*.cfg` and `ToolServer.cfg`
  turn the deadlock check off because these models stop when the clock reaches
  its bound and every message or call has been sent; no other run does.

### Fairness

`LiveSpec` assumes that a running goroutine is scheduled (weak fairness of each
`Step(c)`; a step waits for nothing), that the clock advances, and that a client
asks again and again for the open phase or the finalization, which is what
`next_action` tells it to do (strong fairness of `Drive(s)`, because its one
connection is busy from time to time). Faults are bounded, as is any finite
stretch of trouble. No fairness is assumed of faults, new starts or bootstrap.

## Proofs

| Theorem | For every number of phases, calls, sessions, faults ... |
|---|---|
| `WorkflowProofs!TypeCorrect`, `WellFormed`, `ArtifactsStayBacked`, `MasterPlanStaysGrounded`, `CompletedStaysFinal`, `PromptsStayBehindPlan` | the six invariants of `workflow_concurrent` |
| `WorkflowProofs!NeverStuck`, `NoneIsStuck` | while no two handlers write its `workflow.json` at a time, a session can be carried on: its next phase or its finalization is accepted |
| `WorkflowProofs!NormalizeOnce` | of any state at all: loading closes exactly the approved phases, and a second load changes nothing |
| `WorkflowRefinement!SessionIsLog` | a session that one handler at a time works on is a log, whatever goes on in the others |
| `WorkflowRefinement!SessionsAreLogs`, `OpensNextWhenAlone` | if that is so of every session: the refinement of `PlanLog`, and the contract of `complete_planning_phase`, whose first half `workflow_lost_update` refutes without it |
| `WorkflowRefinement!AgentsStay` | if no two handlers are on their way to write AGENTS.md, finalize never replaces one that is there |
| `WorkflowRefinement!SerialClient` | `Serial` meets these hypotheses: refinement, contract, `NoDeadEnd` and `AgentsKeptByFinalize` for a client that waits |
| `AtomicFileProofs!FilesTyped`, `OtherPathsUntouched` | with any number of writers to a path: the types; a writer changes no other path's file |
| `AtomicFileProofs!RegisterWhereAlone`, `SuccessWhereAlone` | a path that never has two writers at a time is a register, and success is one's own there, whatever goes on on the others |
| `AtomicFileProofs!WritesAreWhole`, `SuccessIsOwn`, `FileIsRegister` | if that is so of every path: whole reads, own success, the refinement of `FileRegister` |
| `AtomicFileProofs!ExclusiveWrites` | `Exclusive` meets this hypothesis |
| `RateLimiterProofs!WindowHolds`, `MemoryHolds`, `RefusalsJustified` | window bound, bounded memory, and refusals exactly when the window is full, of the limiter |
| `ToolServerProofs!UsesLimiter`, `ServerWindowHolds`, `ServerMemoryHolds`, `ServerRefusalsJustified` | the handlers implement the limiter's specification, and so have its three properties |
| `ToolServerProofs!CallsTyped`, `ReadOnlyRootsKept`, `PromptsHavePlans`, `AnsweredIsLogged`, `BlockedIsUntouched`, `NamesakesOfADay` | the six properties of `tools` about calls, files and the log |
| `ProjectWalksProofs!WalksTyped`, `AnswersCapped`, `AnswersInOrder`, `NothingInvented`, `NothingMissed`, `ExactAnswers` | the six invariants of `walks` |
| `ProjectWalksProofs!SearchAgreesWithRead` | what a search finds, `read_project_file` can read |
| `MailboxProofs!MailboxType`, `InOrder`, `NeverLeftUnreadable`, `NothingLostWhenAlone`, `RefusedForAReason` | the five properties of `mailbox` |
| `MailboxProofs!AnsweredIsThere` | if one call at a time is between its read and its rename, and nobody edits the file, every message written or answered stays in it |
| `OAuthProofs!OAuthTyped`, `EveryTokenEarned`, `TokensLast` | the types; every token is for the flow of one approval, of a page of its state and in time; it is accepted for its life less at most a second, whatever the life |
| `OAuthProofs!UsedCodesStayGone`, `OneToken` | an exchanged code is out of the map; one that no two requests held at a time is worth one token |
| `OAuthProofs!CodesAreGrants` | the refinement of `CodeGrant` |

*Workflow.* The named invariants are not inductive: a handler holds a copy of the
state that may be older than the file, and its write must still be sound. The
inductive invariant says, for each session, that its file is some canonical or
legacy state with `k` phases done and that the first `k` artifacts exist
(`DiskOK`), and for each handler that its copy is canonical with its artifacts on
disk, and, at each place, which of the earlier files of its handler are there
(`CallOK`). Artifacts and plans never disappear, so what was true of a stale copy
stays true; that is why these invariants survive the lost updates which
`workflow_lost_update` exhibits.

`NeverStuck` is the safety core of the liveness property of `workflow_serial`,
and needs no `Serial`. A file is torn by two handlers that write it at a time,
and by nothing else; as long as that does not happen to session `s`
(`[]WritesApart(s)`, about `s` alone), whatever `Load` makes of its file is
canonical, so that `MayComplete` accepts its open phase and leads to the next
canonical state, and `MayFinalize` accepts the last one (`CanonicalOpen`,
`ReadableCarriesOn`). `NormalizeOnce` is about all states that have the fields
of one, those that a person has edited included, which no run starts from.

*WorkflowRefinement.* `AloneOn(s)` says that at most one of the handlers in flight
works on session `s`; the code has nothing that ensures it, a client that waits
does. It is assumed of the behaviour (`[]AloneOn(s)`), not of the constants, so the
other sessions may be as busy as they like. Then the copy of a handler past its load
is what the file holds (`FreshOn(s)`); so the write that ends it takes the file
from the state it read to the next one, which is a step of `PlanLog` (`StepShown`),
and every other step leaves what `PlanLog` sees of `s` alone (`OthersUnseen`).
One handler at a time on a session also means that none of its writes overlap, so
that nothing is torn (`OverlapElsewhere`). AGENTS.md is one file for all sessions,
therefore its hypothesis is about the
handlers on their way to it: then nobody has written it between finalize's look
and its write (`StillNone`).

*AtomicFile.* Three layers, from no hypothesis to the strongest. With any writers,
the inode a writer fills belongs to its own path, to no entry of another
(`SharedInv`): that is `OtherPathsUntouched`. If a path has one writer at a time
(`[]AloneOn(p)`), the descriptor is the `.tmp` entry of the path and holds exactly
the first `n` chunks, and the file is whole (`PathInv(p)`); only `Rename` changes
what the entry refers to or holds, which makes it a register. If that is so of
all paths, every inode a reader has open is whole and nobody's temporary file
(`ReadersOK`): this needs all paths, since inodes are shared between them.

*RateLimiter.* The history is sorted, and what was dropped from the slice is out
of the window; so the slice's recent times are all the recent times, and the call
`MaxHits` before a newly admitted one cannot be recent, by counting.

*Mailbox.* A call in `alone`, and any call as long as there was no clash, is in
`WriteFile` by itself, and the temporary file is its own: emptied once it is
open, its text once it is filled (`InsideInv`). `Undisturbed` says that the copy
of a call in `alone` is the file. With both, the rename of such a call installs
the file and its message, and nothing but the exits named refuses it. The limit
is said of all the places a text goes through, the temporary file included:
writing over a content gives one no longer than the longer of the two
(`SizeInv`, `OverIs`); that what is renamed is not empty needs that there was no
clash (`FilledInv`).

Calls write an extension of what they have read, so that what is on disk may go
back to an older text at any moment. The order is inductive when it is said of
the file and of every text in a call's hands alike, as long as there was no
clash (`OrderInv`): each is sorted, has no message twice, and none of a call
that has not written yet. `AnsweredIsThere` is about a whole behaviour: while
one call at a time is between its read and its rename, and nobody edits the
file, that call is in `alone`, and what has been written is in the file
(`KeepsWritten`).

*OAuth.* The instants follow each other: a page is approved at a time its token
still allows, a code is made then, and its expiry, in ticks, is compared with the
clock when it is exchanged (`GrantsEarned`, `TokensMatch`, `WindowInTicks`). The
state of a grant ties it to a page, its flow does not. That a token lasts for its
life less a second, and no longer, is about cutting the expiry to whole seconds, for
any life.

A code in the map, in a request or exchanged has been granted, and is
never granted again (`Granted`, from the freshness of `uuid.NewString`); a request
past `Delete` has taken its code out (`Taken`). So an exchanged code is gone for
good. What these do not exclude is a second request that found the code before the
first took it out: `OneAtATime` says that a code outside `shared` has one holder
and is unused until that one is through. For the refinement a code is `contested`
once it is in `shared`, `offered` while it is in the map or held, then `spent` or
`void`; each step of a handler moves it one way along these or not at all, and
a restart voids all those that nobody exchanges any more.

*ToolServer.* What a handler may do is a table, `Registered`, so that the proofs
rest on a few lemmas about its rows (`WritesWhereAllowed`, `NoWayAround`,
`WritesAreLast` ...), proved row by row; the steps then are about any handler.
`CallsInv` says that a call that runs has passed its handler's checks, which
with `WritesWhereAllowed` keeps read-only roots as they are. `WroteInv` adds
that what a running call wrote is on disk, and that the last of it is the plan
where a prompt comes next; nothing removes a file, it is only replaced. For the
log, `Settled` says of each file on disk how far its writer can have got: as
long as it runs, a later failure is logged, except where the table says
`"silent"`, and only the quick plan's prompt does so after a write.

*ProjectWalks.* `SpotInv` says that a walk's stack of names still to come fits
the directory it is in and names paths that have been there; with it the types,
the limits are inductive. That nothing is invented needs, besides, that a walk
is only in directories it should go into, reached through such that can be read
(`WayInv`). For the order, `ComesFirst` says that each thing found comes before
everything still to come (`Ahead`), that the names still to come above the
present directory are later than the ones that lead to it, and that those
directories have been listed. That `First` of a non-empty set of names exists is
where `Names` has to be finite (`FirstIsOne`, from the well-foundedness of
inclusion on finite sets). `NothingSkipped` follows from `CoverInv`: whatever is
wanted and was there all the time is in the answer, or still to come
(`Pending`), or the answer was full before its place. The order does the rest:
what is to come precedes nothing that has been found (`PendingIsLater`). That
the directories above a wanted path are entered needs that all of them were
there all the time too, which `Ancestors` has from `IsClosed`, by the highest
that is missing. So an answer lies between what is wanted of the paths that were
there all the time and of those that were there at some time; where these are
the same, and the lines of a file are found from the first one on (`LinesInv`),
nothing that comes before something found is missing (`NoGaps`), and counting
gives the exact answer.

`ImplementsPlanLog` has an accepted artifact never change again; that is until
the id of its session is started once more, which `PlanLog` has as a step of its
own.

The assumptions are the named `ASSUME`s of the modules: at least one phase, bounds
that are natural numbers, and values for "no file" distinct from contents.

Only model-checked: liveness (`EverySessionFinishes`; TLAPS does not prove
properties under fairness) and the violations. Every invariant, action property
and refinement of the passing runs is proved.

## Findings

Each *violation* run states what a document or comment of the repository says and
finds it refuted; `PROJECT.json` quotes the lines.

Further disagreements met while modelling, which need no run to be seen:

* `docs/SECURITY.md:57` has every tool call logged; three exits of the handlers are
  silent (`tools.go:724`, `763-767`, `1006`). The model has them as `"silent"`, and
  `ChangesAreLogged` says what remains true.
* `docs/SECURITY.md:105` gives token expiry as "Default 60 minutes";
  `token_expiry_minutes` has no default (`config.go:107-109`, `server.go:54`), and 0
  is a `TokenLife` for which `TokenLasts` says that no token is ever accepted.
* `docs/SECURITY.md:106` has the approve token signed and limited in time. What
  is signed is the state and the time (`oauth_server.go:118`, `139-143`);
  client, redirect URI and challenge come with the form (`handlers.go:136-148`).
  `TokensEarned` says what the code keeps.
* `docs/TOOL_CONTRACTS.md` shows plan names that `Generate` does not make, and a
  glob with braces (`**/*.{ts,tsx}`), which `filepath.Match` does not know.
* `tools.go:50` gives search a default of 50 results, the handler takes
  `max_search_results`, 100 by default.
* `max_tree_entries` and `ignore.files` are read from the configuration and used
  nowhere; `security.mode` is shown and decides nothing.
* The workflow tools write with their own `writeFile` and so ignore
  `writable_plan_dirs` and `max_file_bytes`; in the model they `Store` where the
  others `Write`.

## Plan

Done: `Workflow` with `PlanLog`, `AtomicFile` with `FileRegister`, `RateLimiter`,
`Mailbox`, `OAuth` with `CodeGrant`, `ToolServer`, `ProjectWalks`, and the proofs
listed above.

Left, in this order:

1. Symbolic links, in `ReadFile` and `secureJoin`.
2. The round trip of the approve token's text, for states with separators.

## Not modelled

Text templates and their formatting, secret redaction (regular expressions over
text), the stack, package managers and context files of a project (tables of file
names looked up with `stat`), symbolic links, the text of paths and project ids,
diagnostics (independent probes), configuration and flags (the values that matter
are constants here), `noauth_dev` (no state, no decision), the five handlers that
are registered nowhere, and the MCP library, HTTP and JSON.
