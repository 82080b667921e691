# TLA+ models of the Audio Kernel Development Workbench

The Audio Kernel Development Workbench (AKDW) is a Flask and Socket.IO server with a browser front
end: patch review, agent chat, terminals, target validation, tracking of upstream patches. This
directory holds TLA+ models of its stateful parts, TLC configurations that check them on small
instances, and theorems about them checked by TLAPS. Paths below are relative to the repository.

## 1. The system

### 1.1 How it runs

One process. `app/__init__.py:6` calls `eventlet.monkey_patch()` and Socket.IO runs with
`async_mode="eventlet"`: what the code calls a thread is a green thread, and control moves only where
one blocks (a subprocess, the network, a sleep, a condition). SQLite and plain file access do not give
control away. A crash or a restart of the container loses every dictionary and every thread; SQLite and
the files stay. Requests come from browser pages, which poll, stream, retry and time out on their own.

### 1.2 Inventory

| Component | State it keeps | Operations | Hard behaviour | What makes it correct |
|---|---|---|---|---|
| Patch pipeline (`app/routes/patchwise.py`) | dictionary `_pipeline_jobs`, table `patch_pipeline_jobs`, a thread per job, `ReviewSession.status` | start, inline run, status, cancel, retry, history, prune, review, export | cancel against a running worker, two stores written one after the other, prune of running jobs, restart | finished means finished, a cancel stops the tools and decides the outcome, a retry runs the same patch, pollers get an end |
| Autofix (`patchwise.py:504-609, 1485-1690`) | files, backups, dictionary of backups | preview, apply, rollback | stale text as backup, backups of one name, line ends lost on reading, restart | what the fixes leave they leave alone; a rollback restores what apply replaced, which the code does not keep (section 5) |
| Agent streams (`app/services/agent_stream_service.py`, `app/routes/api.py`, `app/templates/agent.html`) | event log per stream, manager with time to live, counters, cursor in the page | start, stream from cursor, metrics | dropped connections, expiry under a running worker, check outside the lock, restart | every event once and in order, `[DONE]` only when all is there, the page stops waiting |
| Agent chat and sessions (`agent_service.py`, `session_service.py`) | histories in memory, `Session`, `Message`, `ConversationSession` rows | chat turn, append, rename, delete, ping | history read before and written after the model call, delete during a turn | no turn lost, history bounded, no messages without a session |
| Dual agent (`app/agents/*`, `app/routes/dual_agent.py`) | `_sessions`, graph state, history tables, plan file | start, run, status, human approve, auto-create and activate phase | two runs on one task, human gate after the plan was changed, thread that dies silently | each task by one run, no task complete without approval, a run is reported |
| Project plan (`project_plan_manager.py`) | one JSON file | next task, mark complete, enhancement, human queue, auto-create, activate | several active phases, phases worked off while planned | at most one current phase, complete means all tasks complete |
| SSH terminal (`ssh_manager.py`, `terminal_routes.py`, `static/js/terminal/*`) | session table, channels, reader threads, tabs of the page | connect, input, resize, close, list, restore | 25 s server timeout against 15 s page timeout, close during connect | no transport that nothing can close, tabs that tell the truth, waits that end |
| Local terminal (`terminal_service.py`, `socket_handlers.py`) | sessions with file descriptor and process, output buffer, audit log | create, input, resize, kill, agent command | descriptor closed twice, a shell that ends unasked or leaves a process behind, dead session kept | a session that is alive writes to its own pty; the end of a shell is noticed |
| Target manager (`target_manager.py`, `target_validation_service.py`) | `Target`, `ValidationRun` rows, one generator per validation | connect, refresh, delete, validate | adb calls between two commits, client gone in mid stream | status is that of the latest check, a run is always closed |
| Upstream tracker (`upstream.py`, `upstream_parser.py`) | `UpstreamPatch`, series cache, mbox files | add, update, refresh, delete, upload, statistics, track mail | network between check and insert, refresh against manual update, threads with copies and circles | one row per URL, manual status not overwritten by a refresh that found nothing new, numbers of the page that add up |
| Settings and environment (`env_service.py`, `settings_service.py`) | `.env` style file, settings rows | read, save | several keys, saved one by one | other keys are kept |
| Converter, triage, evidence, dashboard, editor, charts, factory | rows and files, read or written once per request | forms and queries | none beyond those of single requests | not modelled (section 5) |

Pages call routes; routes start threads and write rows; threads report through dictionaries, rows,
streams and sockets; pages poll or stream those. The agent streams call the agent chat, which writes
messages through the session service. The dual agent reads and writes the project plan. The review,
export and inline-run routes share `ReviewSession.status` with the pipeline's threads.

`PROJECT.json` lists all components with their state of modelling, and all hazards with their line and
the properties that cover them.

## 2. The modules

| Module | Models |
|---|---|
| `JobLifecycle` | abstract: what somebody who follows a job through its status may rely on |
| `PatchPipeline` | the pipeline jobs: routes, worker threads, both stores, prune, restart |
| `ReplayLog` | abstract: a log read once, in order and completely |
| `AgentStream` | the agent page's answer stream: manager, worker, `sse_iter`, `sendMessage` |
| `TaskBoard` | abstract: a task appears as one to do and is done once |
| `ProjectPlan` | the operations on `PROJECT_PLAN.json`, as operators from plan to plan |
| `DualAgent` | the runs of the dual agent over one shared plan, the human, restarts; EXTENDS `ProjectPlan` |
| `SshTerminal` | the sessions of the SSH manager, the socket and the tabs of the page |
| `LocalTerminal` | local shells behind descriptor numbers, and the agent mode with its audit |
| `AgentChat` | turns of chats over histories in memory, and the session store |
| `TargetManager` | targets, validations as streams, verdicts |
| `UpstreamTracker` | the tracker's rows and the requests that wait while others change them |
| `SeriesParser` | the statistics of a mailbox and of the tracker's rows |
| `Autofix` | the four fixes, apply with its backup, rollback, several writers of one file |
| `MCPatchPipeline`, `MCAgentStream`, `MCDualAgent`, `MCSeriesParser`, `MCServices` | instances for TLC; `MCServices` puts the seven services together |
| `PatchPipelineProofs`, `AgentStreamProofs`, `DualAgentProofs` (with `ProjectPlan`), `DeviceProofs` (`SshTerminal`, `LocalTerminal`, `TargetManager`), `UpstreamProofs` (`UpstreamTracker`, `SeriesParser`), `AgentChatProofs`, `AutofixProofs`, `ServicesProofs` (the composition in `MCServices`) | the theorems |

Two things hold in all modules. A step is what a green thread does between two points where it gives
control away, so the places where a handler waits, and nothing else, decide how far an action goes. And
what a restart loses is what the code keeps in dictionaries; rows and files stay.

Variables that no code reads (named as such where they are declared) record what happened, so that a
property can speak of it: who asked first, which rows a prune dropped, which sessions were closed while
dialing. Bounds appear only in guards of actions that start something new, or of external events.

### 2.1 PatchPipeline

State: `mem` and `db` are the row of each job in `_pipeline_jobs` and in `patch_pipeline_jobs`;
`memOlder` and `dbOlder` stand for the order of `updated_at`, which the prune sorts by; `worker` is the
thread of a job, with the number of tools it has begun and the flags its summary is made of; `review` is
`ReviewSession.status`. `askedAt` and `evicted` are history: when the first cancel was accepted, which
jobs a prune has dropped. `faults` and `crashes` count what the bounds allow.

| Code | Action |
|---|---|
| `start_pipeline` with and without a readable patch | `Start`, `Reject` |
| `retry_pipeline` | `Retry` (with `Launch`, which is prune, queued row, payload, thread) |
| `cancel_pipeline` | `Cancel` |
| `_run_pipeline_job`, `_execute_pipeline` | `Begin`, `StartTool`, `SkipTool`, `EndTool`, `WrapUp`, `Report`, `Abort` |
| `run_pipeline`, `review_patch`, `export_patch_report` | `InlineRun`, `ReviewPatch`, `Export` |
| restart | `Crash` |

Any single database call may fail, within `MaxFaults`: a failed read gives the default the code's
`except` gives, a failed write leaves the table alone while the dictionary has changed. The worker reads
a cancel from the table (`SeesCancel`), readers from the overlay (`View`); this difference is kept. Left
out: progress in percent, messages, `retry_of`, tool output, traces and the activity log. A worker reads
the table afresh each time: the row object of an earlier query is local to it and gone.

### 2.2 AgentStream

Each element of `Streams` is one message sent by one page and the stream made for it. State: the log
`events`, `done`, the program counter of the `worker`; the manager's `streams`, those of them that are
older than the time to live (`idle`) and its two counters; the generator of the connection (`conn`:
waiting or between the wait and the check, and the next event); the frames on the `wire`; the `page`
with cursor, attempts and flags, and the events it has `shown`.

| Code | Action |
|---|---|
| `start_stream` behind `POST stream/start` | `Send` |
| `_run_stream_worker`, `finish`, `_mark_stream_finished` | `Think`, `Answer`, `Finish`, `Mark` |
| `POST stream`, entry of `sse_iter` | `Fetch`, `FetchFails` |
| loop of `sse_iter` with `wait_for_event` | `Deliver`, `Nothing`, `Check` |
| `sendMessage` | `Read`, `Interrupted` (and `Send`, `Fetch`) |
| `metrics` | `Metrics` |
| connection breaks, time passes, restart | `Break`, `Expire`, `Crash` |

`_cleanup_locked` is part of every action that uses the manager (`Fresh`). A dropped stream lives on in
its worker and its reader, which hold references; after a restart its log is kept only as history that
no action reads. Keepalives are left out: the page skips them. The `Nothing` and `Check` steps are
separate because the code reads `done` and the length of the log after it has given up the lock; with
green threads nothing can come between them, with threads it could, and the code is written for both.

### 2.3 DualAgent and ProjectPlan

State: `plan` is the plan file: status and tasks of the phases, current phase, backlog, human queue,
completed list. `sessions` is the status of a run in memory and `rows` in the table. A run has a `pc`
(with the designer, sending mail, gated, at its end), the options of its request, its task, its round and
the last verdict. The verdict is an input: what the reviewing model says is external, although the
wrapper in the repository always approves. Whatever it says, the rest is the code's.

| Code | Action or operator |
|---|---|
| `POST /start` (graph run) | `Start` |
| `POST /run` (async run), `_resolve_task_identity` | `RunRequest`, `ResolveTask` |
| designer's part and `review` up to its mails | `Review`, with `Judged` |
| answer that does not parse | `ReviewFails` |
| `_force_human_gate` | `ForceGate` |
| `route` of the graph, branches of the loop of `ainvoke` | `Decide`, with `GoesOn`, `TakesNext` |
| end of `_run` and of `run_dual_agent` | `Finish` |
| `approve`, auto-create, activate | `Approve`, `AutoCreatePhase`, `ActivatePhase` |
| restart | `Crash` |
| `get_next_pending_task` | `NextPending` |
| `mark_task_complete` | `MarkComplete`, which is `Tick` and `Advance` |
| `add_enhancement`, `add_human_review_item` | `AddEnhancement`, `AddHumanReview` |
| `auto_create_phase_from_enhancements`, `activate_phase` | `AutoCreate`, `Activate` |

The plan's methods load, change and save the file without giving control away, so each is one operator.
`Advance` says in closed form what the loop of `mark_task_complete` does while it walks over the list it
changes; `Loop` translates the loop itself (`Visit` one phase, `Turn` what the loop does at a number,
`Visits` all turns in order), and `AdvanceIsLoop` compares the two.

### 2.4 SshTerminal

State of the server: `conn` (how far a connect is), `client`, `channel`, `active`, `reader`, `table`. Of
the page: `tab`, `timer`, `own`, and the last `listing`. Between them: the `room` and the `inbox` of
events that were sent and not yet seen.

| Code | Action |
|---|---|
| `doConnect` with the `terminal_connect` handler | `ConnectSession` |
| `SSHSession.connect` behind its two waits | `HostAnswers`, `ShellOpens`, `ConnectFails` |
| remote end | `Hangup` |
| read loop | `ReaderSeesExit`, `ReaderStops`, `ReaderFails` |
| `terminal_input` with `send` | `UserTypes` (and in `RestoreSessions`), which are `TerminalInput` |
| socket events in the page, 15 s timer | `Deliver`, `TimerFires` |
| `closeSession` with `terminal_disconnect_session` | `CloseTab` |
| `restoreActiveSessions` | `ListSessions`, `RestoreSessions` |
| faults | `SocketReconnects`, `ReloadPage`, `ServerRestarts` |

The first wait of a connect (TCP) is separate from the second because a close in between finds no
transport to close: paramiko's client has none yet. `send` swallows every exception of the channel, which
does not block, so each input may leave the session as it was: neither active nor with a new reader. Only
an input that was sent starts the read loop again.

### 2.5 LocalTerminal

A session keeps the number of its pty, not the pty. `ownerOf` says whose pty a number is at the moment,
as the kernel does; a new pty gets the lowest number free. Nothing in the code asks for the process: the
end of a shell (`shell`), the last process it left behind that holds the pty (`orphan`), and the reader's
noticing it are three steps, and `alive` changes only with the last.

| Code | Action |
|---|---|
| `create_session`, start of the reader | `CreateTerminal` |
| end of the shell, of what it left behind (external) | `ShellExits`, `HolderExits` |
| reader's `read` fails or finds the end | `ReaderSeesEnd` |
| reader's `select` times out or fails | `ReaderWakes` |
| `kill` | `Kill` |
| `terminal_agent_mode` | `AgentAsks`, `ModelAnswers`, `AgentAnswers` |
| `execute_safe_command` with `_record_audit` | `ExecuteSafeCommand` |

`outputs` is what the request returns, each command with its text; the exit code goes to the audit row
only, and that row may be lost. No property relates the two: one action fills both.

### 2.6 AgentChat

The histories are list objects in a `heap`, since a turn holds the object it found until its first wait is
over and others may append to it or put another in its place; after that it works on a copy. `convo` and
`messages` are the JSON column and the rows of a conversation.

| Code | Action |
|---|---|
| `stream_chat` up to the fetch of URLs | `StreamRequest`, `BeginTurn` |
| after the fetch, up to the model call | `AskModel` |
| after the model call | `EndTurn` |
| session routes | `CreateSession`, `DeleteSession`, `NewSession` |
| restart | `ChatCrash` |

### 2.7 TargetManager

A row is named by its SQLite row id, which is given again when the newest row is deleted; a request holds
the id through its waits. `kind`, `jobAt`, `onTarget`, `onSerial` describe a request, `ran`, `failures`,
`words` what its plan has done so far, `shown` what the page was told.

| Code | Action |
|---|---|
| `connect_target`, `refresh_target`, `run_validation_stream` up to the first wait | `ConnectTarget`, `RefreshTarget`, `ValidateTarget` |
| answer of adb | `CheckAnswers`, `CheckRaises` |
| generator of a validation | `CommandRuns`, `AdbMissing`, `PlanEnds`, `SendResult`, `RecordResult`, `ValidationRaises` |
| client goes away | `PageLeaves` |
| `disconnect_target`, restart | `DisconnectTarget`, `TargetCrash` |
| `plan_commands`, `summarize` | `PlannedCommands`, `Summarize` |

`Topics` are what the two functions look for: the topics that choose commands, and the words of failure,
which count whether they stand in the output of a command or in the request itself.

### 2.8 UpstreamTracker and SeriesParser

The tracker's waiting request holds what it loaded (`request`); its commit writes the columns it changed,
as SQLAlchemy does, to the row that has the id by then. Actions: `AddPatch`, `Insert` (`upstream_add`
before and after the network), `RefreshPatch`, `StoreRefresh` (`upstream_refresh`), `UpdatePatch`,
`DeletePatch`; `InferStatus` is `_infer_status`.

`SeriesParser` is a pure algorithm: `FindRoot` and `Thread` (`_build_series`), `RawSeries`,
`ClassifyStatus`, `VersionInfo`, `Item`, `EnrichSeries` (`enrich_series`), `Histogram` and
`VersionDistribution` (`summary_from_series`), `LiveSeries` (`_live_series_from_db`). Its two actions,
`UploadMbox` and `UpstreamStats`, run it on a mailbox and on rows. The order in which the parser meets the
roots is that of a set in the code, so every order is tried. `Climbing` is the loop of `find_root`, one
step per mail at most; `SortedBy` is Python's stable sort. Dates are days and end at `MaxDate`, which is
the bound of the code's last bar (99999 days); a mail without a date has 0.

### 2.9 Autofix

A text is a sequence of lines with a kind and a flag for blanks at the end, which is all the fixes look
at. A file has bytes besides, which no text shows (`foreign`: other line ends, or bytes that are not
UTF-8): reading drops them, and whatever is written has none. `page`, `disk` and `stored` (the backup
files) are three places for a text; `latest` is the dictionary of backups; `second` is the clock that
names them, together with the safe form of the session id and the last part of the path, neither of which
is injective. Actions: `OpenFile`, `ApplyAutofix` (with a path, the text given by the page or read from
the file), `ApplyToPage` (without a path), `RollbackAutofix`, `Tick`, and `Outside`, which is `Types`,
`WriteOutside` or `RestartAutofix`. `ApplyAutofixes` and the four fixes before it are `_apply_autofixes`;
`Extra` says which lines the regular expression for blank lines takes away.

## 3. What TLC checks

### 3.1 Runs

| Run | Instance | Shows |
|---|---|---|
| `pipeline_safety` | 2 jobs, 1 session, 3 tools, 1 fault, 1 restart | `TypeOK`; `NoWorkBehindTerminal`: no store calls a job finished while its thread is alive; `CancelStopsTools`: no tool begins after an accepted cancel; `CancelDecidesOutcome`: a reported run is canceled exactly if it was asked to while tools were left; `PendingWasCanceled`: a session falls back to pending only through a cancel |
| `pipeline_prune` | 3 jobs, 1 row kept, 1 restart, no faults | `RetryPossible`: an intact row carries the patch its thread ran on; `ImplementsLifecycle`: `JobLifecycle` is implemented |
| `pipeline_restart` | 4 rows, 1 kept, 1 restart | `MemoryMirrorsTable`: the overlay shows nothing the table does not hold |
| `pipeline_live` | 2 jobs, no row kept, 1 fault | `StartedIsReported`: every started job is reported finished |
| `stream_replay` | 1 stream, 4 events, 4 network failures, 1 restart, fair | `TypeOK`; `ShownUpToCursor`: events shown once and in order; `NothingMissing`: `[DONE]` means all of them, with exactly one answer at the end; `ImplementsReplayLog`; `DoneIsDelivered`: the page stops waiting once the worker is done |
| `stream_pair` | 2 streams, 1 network failure, 1 restart | `ActiveNotCompleted`: the two metrics never count a stream twice, though streams drop each other |
| `stream_recovered` | 1 stream, 2 network failures, 1 restart | violated: a page reports "stream resumed" for a stream the server no longer knows |
| `dual_pair` | 2 runs of either kind, 2 plans of 3 phases, 2 rounds, 1 request of the human, 1 restart | `TypeOK`; `ActiveIsCurrent`: the phase in progress is the current one; `StrandedIsAdHoc`: no planned task is left in a complete phase; `CompletedOnce`: the completed list has each complete task once; `PausedIsQueued`: a paused run left something for the human; `AdvanceIsLoop`: the closed form of the loop is the loop; `ImplementsTaskBoard` |
| `dual_live` | 1 run, 3 rounds, 2 requests of the human, 1 restart, fair | `RunEnds`: every run ends |
| `dual_gate` | 1 run, forced gate | violated: the gate queues a task for approval that the review has completed already |
| `services` | seven instances, below | the safety and liveness of the terminals, chats, targets, tracker, parser and autofix |
| `upstream_rerolls` | 1 mailbox with one title posted twice, a hundred days apart | violated: the two postings become one series |

`services` checks the seven components that share no state in one run. The variable `focus` picks one of
them at the start and the others stay where they are, so its state space is the sum of theirs:

| Component | Instance | Shows |
|---|---|---|
| SSH terminal | 1 session, 2 events in transit, 2 faults | `SshLeakOnlyEarly`: only a close while dialing leaks a transport; `SshTabTruth`: a tab that has read its events says "connected" of an open shell, even after its timer fired; `SshSettles`: no tab waits for ever; `SshReadersLeave`: the read loop of a shell that is over ends, whatever is typed meanwhile |
| Chat | 1 session, 3 turns, 3 messages kept, 1 reset, deletion or restart | `ChatRowsAgree`: rows and JSON of a conversation agree; `ChatForgetsFairly`: an answer is forgotten only for a reason the code names |
| Targets | 2 serials, 3 requests, 2 row ids, 1 restart | `TargetSettles`: no target stays "connecting" unless a request died; `TargetRunIsTrue`: a recorded run is of its device, is what the page saw, and PASS was earned |
| Tracker | 2 URLs, 2 requests, 2 row ids | `TrackedOnce`: one row per URL, no deleted row comes back; `HandStatusKept`: a status set by hand is not undone by a refresh that found nothing new |
| Parser | 3 mails of five kinds in every relation, circles and copies included; up to 2 rows | `ThreadsAreWhole`: threads are the classes of mails with a common ancestor; `SummaryAddsUp`: the numbers on the page agree with each other and with the mailbox |
| Autofix | 1 editor, 2 files of one name, 2 seconds, 1 outside change | `AutofixSettles`: the fixes have nothing to do on what they have made |
| Local terminal | 2 terminals, 2 numbers, 2 kills, 1 command, 1 failed audit write | `AliveMeansOwnPty`: a session that is alive writes to its own pty, and one whose pty is still its own and in use is alive; `EndIsNoticed`: the end of a shell is noticed once nothing holds its pty |

Several properties name the cases in which the code does not keep them (`early`, `deleted`, `abandoned`,
`overruled`, `crowded`, `Robbed`, `cutOff`, `during`). Those cases are real: the runs
reach them, and the hazards in `PROJECT.json` say where they bite. What the property shows is that there
are no others.

### 3.2 Bounds

Two jobs are enough for a retry of a running job and for the prune to drop a running job's row; the third
and fourth are there because the prune only acts when more than `MaxItems` rows exist, and because an
order of rows needs several. One failed call separates the stores and one more write reunites them. One
restart reaches every state that differs in what is lost. Three tools give a first, a middle and a last
one. Job and stream identifiers are symmetric. `pipeline_restart` explores no state beyond two runs and
one thread at a time (`FewRuns`), since it is about the rows. For the streams, four network failures with
two retries allow the loop both to recover and to give up, and two thinking events put a break before,
between and after the events. `stream_recovered` excludes expiry (`NothingExpires`), to show that a
restart alone is enough.

Two runs are enough for two to work on one task, and for one to end a phase under the other. The two plans
are the shipped one made smaller (a planned phase behind a complete one) and one whose last phase is still
to be made from the backlog, so that every operation on phases applies somewhere. Two rounds give a first
and a last one; the one act of the human comes at every point. Run identifiers are symmetric.

Sessions of the SSH terminal do not see each other, except in the page's listing, so one shows the races;
two faults allow a reload after a restart. Two events in transit are as many as one session has under way
between two reads by the page. Three turns fill a memory of three messages (a turn leaves two) and let
one turn end during another. Two row ids, of which the newest is given again, and two waiting requests
are what the tracker's races on ids need. A target takes a third request: one that made it, a validation
that loses it, and one that is given its id meanwhile. `RequestsInOrder` lets the third request begin only
then, and the requests in the order of their names, which are alike. Two descriptor numbers and two
terminals, each killed up to twice, do the same for the shells: the second kill closes the number of
another. Three mails give a thread of three generations, two threads that a
copy joins, and every circle. Two files of one base name in one second
put two backups in one file; a file with foreign bytes and one without are both among those users write.

Deadlock is checked for the pipeline only (sessions can always be exported or run inline). The other
specifications may stop: every page sends one message, every run ends, ids are used once, and the bounds
on acts and faults run out.

### 3.3 Fairness

- `PatchPipeline`: weak fairness of each worker, because the hub runs every ready green thread and every
  tool is run with a timeout; none for users. A job whose process dies is excluded, since nothing at
  start-up looks at unfinished jobs.
- `AgentStream`: weak fairness of each connection, whose wait ends after 5 s, and of each page, whose
  retry is a timer; none for the worker, which waits for a model. The page resets its attempt counter
  whenever a response opens, so that only a bounded number of network failures makes it stop; the bound is
  `MaxBreaks`.
- `DualAgent`: weak fairness of each run's own steps (`RunStep`): its thread is scheduled, and mail and
  the model's answers come or time out. Nothing is assumed of the human, of restarts, or of an answer that
  fails to parse.
- `SshTerminal` (in `services`): the page's timer fires, its socket delivers, and a read loop, which looks
  at its channel every 0.1 s, takes its turn. Where it also sends an event the fairness is strong, since the
  bound `MaxInbox`, which the code does not have, can disable that step for a while. Nothing is assumed of
  the remote host, of the server's connect, of the user, or of the page's listing every minute.
- `LocalTerminal` (in `services`): a reader runs when its read is ready or its 0.2 s are over. Nothing is
  assumed of shells, of the processes they leave, of users or of the agent.

### 3.4 Mutants

For each property `PROJECT.json` names a small change of one definition that breaks it; the changed
definitions stand before the original ones and are marked "Mutant".

### 3.5 Findings

Three runs show that the program does something else than it says; `PROJECT.json` quotes the lines.

- `stream_recovered`: after a restart or expiry the page says "stream resumed" of a stream that is gone.
- `dual_gate`: the forced human gate comes after the reviewer has marked the task complete, so that
  nothing is held back.
- `upstream_rerolls`: the comment speaks of 90 days, the code joins postings of a title at any distance.

Three smaller observations made while reading, with no run of their own: the description of the blank
line fix says that three or more blank lines become two, and the code leaves one; the delay of a
maintainer is never known, since dates are strings by the time it is computed; replies carry `[PATCH` in
their subject and are therefore not looked at for a note of a merge.

## 4. What is proved

All theorems hold for every set of jobs, streams, runs, sessions, rows and requests and every value of the
bounds, under the named assumptions of the modules: `StepsAssumption` (at least one tool),
`NoSessionAssumption` (the placeholder is not a session), `UnreviewedAssumption`, `BoundsAssumption`
(bounds are naturals), `PlanAssumption` (finitely many phases, the made phase has the largest id),
`DualAssumption`, `InitialPlansAssumption` (the plan the system starts with is in order and no task of it is
complete), `SshAssumption`, `TerminalAssumption`, `ChatAssumption`,
`TargetAssumption`, `TrackerAssumption`, `ParserAssumption` (mailboxes and rows are sequences of mails and
of rows, with dates up to `MaxDate`), `AutofixAssumption` (texts have at least one line, a request names at
least one fix). TLC evaluates all of them.

What a recursive function computes, and that a listing or a maximum exists, is proved by least
counterexample: the set of numbers at which the statement fails has a least element (theorem `WFMin` of the
library), which is not 0 and whose predecessor does not fail.

### 4.1 PatchPipelineProofs

- `TypeCorrect`: `Spec => []TypeOK`.
- `WorkIsVisible`: `Spec => []NoWorkBehindTerminal`. The property is not inductive by itself: launching
  a job would inherit whatever rows it had. `IInv` adds that a job nobody has launched has empty rows
  (`UnusedIsClean`) and that a worker between tools has tools left (`ToolsLeft`, which its counter
  needs). The interesting step is `Cancel`: the status it reads, from either store or from the
  dictionary alone when the read fails, is not terminal while the thread is alive, so that what it
  writes to both is not either.
- `CancelIsHonoured`: `Spec => []CancelStopsTools`, and `RetryKeepsInput`: `Spec => []RetryPossible`.
  Both follow from `KInv`, which describes an intact record: its table row is there, holds the payload
  the thread runs on, remembers every accepted cancel while the thread is alive, and no tool has begun
  since. Every write is an update of a row that exists, which is why the cancel survives the status
  writes of `Begin` and of the progress hook.
- `OutcomeHasCause`: `Spec => []CancelDecidesOutcome`, and `PendingHasCause`: `Spec =>
  []PendingWasCanceled`. `CInv` adds to `KInv` the trace of a job: how the flags its summary is made of
  follow from the moment of its first cancel, from the first tool to the reported row.
- `TableIsEnough`: `Spec => []MemoryMirrorsTable`. `MInv` says that, as long as no database call has
  failed, the dictionary is a part of the table, in the same order, and that what it lacks is older than
  all it has. Then the prune, which keeps the newest of each, keeps of both the same: the lemma
  `PrunedAlike` compares the cardinalities of the newer rows.
- `IsLifecycle`: `MaxFaults = 0` implies `Spec => ImplementsLifecycle`. The refinement needs all of the
  above and what readers are told of a job (`Told`): the status of a job that was not pruned is terminal
  exactly when its thread ended by itself. When calls may fail the two stores may say different things of a job, and
  nothing is claimed.

### 4.2 AgentStreamProofs

- `TypeCorrect`: `Spec => []TypeOK`. The number of attempts stays in its type only because a page that
  has not given up has made no more than `MaxRetries` (`TriesLeft`).
- `ShownInOrder`: `Spec => []ShownUpToCursor`, and `DoneMeansAll`: `Spec => []NothingMissing`. Neither
  property says anything of what is still on the wire, so `IInv` adds it. `Reader(s)`: on the wire are
  the events that follow the page's cursor, in order, and then perhaps `[DONE]`, but only when the
  stream is done and there are no more (`Regular`), or what is left of the answer that the stream does
  not exist (`Gone`); a page that is not reading has nothing on its wire and no connection; a
  connection is exactly as far as the page and its wire together. `Writer(s)`: a log holds one outcome,
  as its last event, and is done only after that. The interesting steps are `Check`, where `Delivered`
  puts `[DONE]` behind the last event, and `Break`, which may leave any prefix of the wire.
- `CountersAgree`: `Spec => []ActiveNotCompleted`, because started streams are the completed ones and those
  whose worker is still at work (`Counted`), whatever the manager has dropped.
- `IsReplayLog`: `Spec => ImplementsReplayLog`. The detailed log grows only while there is room for the
  outcome (`RoomLeft`); each step then maps to an append, a read in order, the end, or to nothing.

### 4.3 DualAgentProofs

`IInv` is `TypeOK`, what holds of the plan (`GoodPlan`: the three properties of the plan, and that the
phase still to be made has no tasks) and what holds of each run (`RunInv`: rounds are left when the
designer is asked, and what a run that pauses has queued). Most of the work is in lemmas about the
operators of `ProjectPlan`: each keeps a good plan good, and so any interleaving of runs and humans does.
`TypeCorrect`, `OneActivePhase` (`ActiveIsCurrent`), `NothingStranded` (`StrandedIsAdHoc`), `ListedOnce`
(`CompletedOnce`) and `PausedForAHuman` (`PausedIsQueued`) follow. `IsTaskBoard` shows in addition that
each operation moves tasks only from to-do to done (`Move`); it relies on the completed list being exactly
the complete tasks.

`AdvancesLikeTheLoop`: `Spec => []AdvanceIsLoop`. `Sofar` says what the plan looks like after the loop has
gone over the phases up to a number: those it has passed are complete (`PassedTo`), the least phase left is
in progress. `TurnAt` shows that one turn of the loop leads from one number to the next, for every good
plan, and after the last number `Sofar` is `Advance`.

### 4.4 The services alone

`DeviceProofs`:

- `SshTypes`, `LeakOnlyEarly`, `TabTellsTruth`. `SshInv` adds that a session that is dialing is in the
  table or was closed early, that only a connect that has ended has a channel, that the page's own tabs
  exist, and the last word: the last event on its way about an open shell is that it is open, or the page
  has read it and its timer is gone. That is why a timer that fired first does no lasting harm.
- `TerminalTypes`, `OwnPty`: `TerminalSpec => []AliveMeansOwnPty`. `PtyInv` adds that a terminal nobody has
  killed keeps its number, unless the second kill of another robbed it (`KeepsNumber`), and that what was
  killed stays dead (`KilledIsDead`). The interesting steps are `Kill`, which closes a number that may be
  somebody else's by then, and the reader's leaving, which must not find the session's own pty in use.
- `TargetTypes`, `Settles`, `RunIsTrue`. The invariant follows a run to its record: a result that was shown
  was earned (`TrueResult`), a request is on the row of its serial unless that was deleted under it
  (`OwnRow`), and only a request that is over has a record (`OwnRun`).

`UpstreamProofs`:

- `TrackerTypes`, `OneRowPerUrl`, `HandWins`; the uniqueness is carried as a statement about pairs of rows
  (`UrlsDiffer`), from which the cardinality follows. `HandWins` is inductive because the commit writes
  only a column that differs from what was read.
- `ThreadsStayWhole`: `ParserSpec => []ThreadsAreWhole`, for mailboxes of any length, with copies, missing
  mails and circles. Above a mail that is in no circle, every step of `find_root` passes a mail it has not
  passed before, and stands above all of those (`ClimbedTo`); there are no more mails than steps, so it ends
  at a mail whose parent is not in the mailbox (`RootIsTop`). Such a mail is above every mail in between
  (`TopAboveAll`), so there is only one (`TopIsUnique`), and two mails with anything above them in common
  have the same.
- `SumsAddUp`: `ParserSpec => []SummaryAddsUp`. What the extractors make of any thread is a well formed
  item (`ItemOK`: one of three statuses, at least one version, a duration that is unknown or between 0 and
  `MaxDate`), the item that is left of a title keeps it (`CollapseFacts`), and so a series is finite and has
  one item for each title (`SeriesOK`). A finite set is then counted by the parts it falls into: the
  statuses, the bars of the revisions, and the five bars of the histogram, which neither overlap nor leave a
  gap.

`AgentChatProofs`: `ChatTypes`; `RowsAgree`, with the fact that a running turn has its session row unless
the session was deleted under it (`TurnHasRow`); `ForgetsOnlyFairly`: `ChatSpec => ChatForgetsFairly`, an
action property. `ChatInv` says that a list holds only answers of turns that are done, each once
(`ListsOK`), and that a turn which no other turn of its session has overtaken holds the session's list or
has sent a prefix of it that lacks none of its answers (`Undisturbed`); so what its end leaves out was cut
off at the front.

`AutofixProofs`: `AutofixTypes`; `FixesAreIdempotent`, a fact about the algorithm: for every text and every
choice of fixes, applying them twice is applying them once. Each fix establishes its own condition
(`Settled`), and none of those that follow in the code's order destroys it. `FixedStaysFixed`
(`AutofixSettles`) carries this to the files: `AutofixInv` says that a file which an apply wrote last has
nothing foreign and is settled for the fixes that made it (`TidyIsSettled`).

### 4.5 The services together

`ServicesProofs` is about the specification that the run `services` checks. `ServicesImplementEach`: every
behaviour of it is one of each service, since a step of one leaves the variables of the others alone
(`StepOfOne`). The parser is the exception, because the composition starts it with nothing to read where
another service is in focus; its invariant holds there all the same (`ServicesParser`). `ServicesTypes`
(`TypesOK`) and `ServicesKeepPromises`, which lists what the run checks but for liveness, follow.

### 4.6 Only model-checked

- Liveness under fairness: `StartedIsReported`, `DoneIsDelivered`, `RunEnds`, `SshSettles`,
  `SshReadersLeave`, `EndIsNoticed`. It is out of the reach of the proof system as used here, and so is
  ENABLED. All other properties of the passing runs are theorems.
- The refinement of `JobLifecycle` is checked and proved for a database that answers.

## 5. Not modelled

`PROJECT.json` lists all components with their state. What is left out, and why:

- Settings and `.env` store: one file rewritten per request without giving control away.
- Converter, triage, evidence, dashboard, editor: one model call, query or external command per request,
  whose results are shown and not kept.
- E-mail: a send is a point where other runs go on; the log of the last messages and their layout are not
  modelled. The list of tracked addresses and the search for an author's mails read and write one
  settings row per request.
- The series cache of the tracker: it is written and nothing reads it.
- Saved SSH hosts, resizing, the output of the terminals, and a second connect with an id that is in use:
  the page generates a fresh id for each tab.
- Review comments, validation and model prompts of the patch page: parsing and wording.
- Names, listings and pings of chat sessions; attachments and token limits.
- Rendering in the browser, the application factory, the container's start-up and the regression script,
  which is a client of the pipeline.
- Six hazards have no property, since the code does nothing about them: a job canceled after a restart is
  finished by nobody; the backup of an autofix holds the text of the request, not the bytes of the file;
  two backups of one name replace each other; a run of the dual agent whose thread dies of an exception
  stays "running"; a read loop of the SSH terminal that died comes back only with input the channel takes;
  a failed write of the audit is swallowed. The models contain all of these but the exception in a run,
  and no property claims that they cannot happen.
