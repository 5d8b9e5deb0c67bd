# A TLA+ verification project for Semgrep

Semgrep searches source code for patterns. Two front ends (`pysemgrep`, in
Python, under `cli/`, and `osemgrep`, in OCaml) select targets and rules and
present results; one engine (`semgrep-core`, in OCaml) matches rules against
targets in parallel. What is hard in this code is not a single match. It is
that thousands of matches run in parallel under limits enforced by exceptions
that arrive anywhere; that a command line tool drives processes, a git
repository, a server and the files of its user, each of which fails in its own
way; and that what is reported in the end must be neither more nor less than
what was found. This project models these parts.

Paths below are relative to the repository's root (`src/` in `PROJECT.json` is
that root); Python files without a directory are in `cli/src/semgrep/`, those of
`semdep/` in `cli/src/`. The modules are written in plain TLA+.

1. [Inventory](#1-inventory)
2. [Modules and their correspondence with the code](#2-modules-and-their-correspondence-with-the-code)
3. [What is checked](#3-what-is-checked)
4. [What is proved](#4-what-is-proved)
5. [Where the code and its comments disagree](#5-where-the-code-and-its-comments-disagree)
6. [Not modelled](#6-not-modelled)
7. [Plan](#7-plan)

## 1. Inventory

### 1.1 The engine (OCaml)

**Executor pool and `Concurrent.map`** (`libs/parallelism/Executor_pool.ml`,
`Concurrent.ml`).
*State*: a bounded queue of jobs, one promise per job, the switch of the map;
per worker domain the loop of `run_worker`, its used `capacity`, `active_job`,
and a nested switch that fails when an asynchronous exception reaches it.
*Operations*: `submit` (enqueue), the loop (wait for capacity, take, fork), a
job's fiber (run, resolve, give capacity back, broadcast), death of a domain
and the daemon fiber's handler (fail the active job and restart, or give up),
closing. *Hard*: four kinds of concurrent actor (submitters, loops, job fibers,
daemons), exceptions between any two steps, several jobs per domain.
*Correct when*: no submitter waits for a job nobody will resolve; a promise is
written once; a domain never runs two mapped functions at once; an exception in
a job's domain does not fail the map; nothing runs after the map is over; the
map ends.

**Target scan** (`src/core_scan/Core_scan.ml`, `src/engine/Match_rules.ml`,
`libs/process_limits/Time_limit.ml`, `Memory_limit.ml`).
*State*: per worker `current_timer` and the alarm; per target the rules run,
`rule_timeouts`, the matches; overall one result per target, the progress dots
and the report. *Operations*: resolve, `set_timeout` with a SIGALRM (processes)
or GC alarm (domains), the ends of a rule (return, exception, timeout, never),
`File_timeout` at the threshold, the handlers of `process_target`, and the
filter of files with too many matches. *Hard*: `Timeout` lands in a rule, just
after it, in a handler, or in the scheduler; the timer is state of the worker
that outlives a target. *Correct when*: timers end with their call; each rule
either returned or timed out; the file is abandoned at exactly the threshold;
each target has one result and one dot; the report respects the limit over all
targets that share a file; the scan ends.

**Language server** (`src/lsp_legacy/`).
*State*: the session (copied when it changes) and the caches all its copies
share: workspace targets, scan results, rules, open documents; replies in
flight; the queue of the scan threads. *Operations*: the client's messages, the
steps of their replies between awaits, refreshes of the rules. *Hard*: the loop
does not wait for replies, so messages are handled between the steps of earlier
ones, with other copies of the session. *Correct when*, once it is at rest:
what the editor shows of an open document is what a scan of now would find; the
server knows which documents are open; every reply ends.

### 1.2 The command line (Python)

| component | state and operations | hard | correct when |
|---|---|---|---|
| **CI command** `commands/ci.py`, its metadata `meta.py`, the server `app/scans.py`, `app/session.py` | flags, metadata of ten CI providers, checkout of the right commit, search for the merge base in a shallow clone, opening a scan on the server, the scan, uploading, polling, the verdict, the exit code | requests whose copies may have been acted on; the search that fetches deeper and deeper; every way out passes two handlers | the server, the exit code and the partial output tell one story; the reported commit is the one scanned; the baseline can be checked out; a run ends |
| **Scan command** `commands/scan.py`, `run_scan.py`, `core_runner.py`, `output.py`, `error_handler.py` | rules, the core process and its stream, errors by level, findings, fixes, outputs, exit code | the core dies in mid-stream; one number for four kinds of bad end | a dead core never gives a result; an exit of 0 hides no finding |
| **Baseline** `git.py`, `run_scan.py` | `HEAD`, the worktree, the working directory; a second scan; removal of old findings by counting keys | each git command fails in its own way; renames; absolute roots | the repository is as before; what is reported is what is new; fixes go to the right tree |
| **Join rules** `join_rule.py` | an in-memory database per process, a table per rule | tables of an earlier rule; recursion; renamed metavariables | the conditions are evaluated as they read |
| **User state** `settings.py`, `app/version.py`, `commands/login.py`, `install.py`, `publish.py`, `engine.py`, `metrics.py`, `console_scripts/entrypoint.py` | settings, cache of the version check, the Pro engine, its temporary download and its stamp | processes that share these files without locks and are killed anywhere | half a document is never used; only a checked binary is executed; saving undoes nothing |
| **MCP server** `mcp/` | tool calls as coroutines, a daemon with two pipes, temporary directories, metrics; hooks as processes with a list of edits on the disk | answers that carry no request; cancelled calls; hooks that end at any step | answers go to their calls; nothing is left behind; recorded edits are scanned |
| **Rules** `config_resolver.py`, `rule_lang.py`, `rule.py` | documents from files, folders, the Registry and the platform, parsed by threads; duplicates | threads end in any order; versions; a fallback server | no rule is lost |
| **Targets and plan** `target_manager.py`, `core_targets_plan.py`, `scan_report.py`, `run_scan.py` | discovered files, caches by language and product, the log of what was skipped, the plan | the plan is made twice with caches between | every file is a target or has a reason; what is announced is what is run |
| **Supply chain** `resolve_subprojects.py`, `semdep/subproject_matchers.py`, `semdep/parsers/`, `resolve_dependency_source.py`, `dependency_aware_rule.py`, `rpc.py`, `rpc_call.py` | subprojects, their dependencies, findings, the long-lived RPC process and its packets | the process dies or prints something else; a subproject is looked up twice; sixteen grammars, each with its own idea of a dependency | a vulnerable dependency is reported; it is attributed to one subproject; an answer is to its call |

### 1.3 How the parts interact

`Core_scan` gives its targets to `Concurrent.map` (domains) or to Parmap
(processes); the mapped function is `process_target`. So the target scan is the
`fn` of the pool. The pool sees of it only that it returns, raises, suspends,
or that an exception lands in its domain; the scan sees of the pool only that a
domain that dies fails the target with the exception and that the next target
finds a fresh domain (`DomainDies`). `Time_limit`'s GC alarms are the
asynchronous exceptions that the pool has to survive. The dots printed by
`process_target` are what `CoreRun`'s reader counts, and its report is the
document that follows them. The language server calls `Core_scan.scan` in one
of its threads and takes its results whole.

`semgrep ci` calls `run_scan` once: in `CiScan` this is one step with its
outcomes (findings, a `SemgrepError`, a crash), and `ScanRun` is what happens
inside. `ScanRun` composes `CoreRun`, `BaselineCheckout` and `JoinRule`; what it
takes as given (which rules, which files) is what `InputRun` works out from
`RuleConfig` and `TargetSelection`; the part of the same call that concerns
dependencies is `SupplyChain`, over `Subprojects`, `Lockfiles` and `RpcSession`. `CiScan`
composes `CiMetadata` and `AppScan`, whose server obeys `AppProtocol`.
`UserState` and `McpServer` are processes around these commands.

## 2. Modules and their correspondence with the code

`map` in `PROJECT.json` gives the lines of each definition. Definitions whose
comment calls them a mutant are plausible wrong versions of the definition that
follows them; each property is shown to fail under one of them.

| module | what it is |
|---|---|
| `ParallelMap` | what `Concurrent.mli` promises: each element gets one result, the call returns when all have one, and it does not raise |
| `ExecutorPool` | the pool with `Concurrent.map` as its client |
| `ExecutorPoolProofs` | theorems about it for all weights and exceptions, and for jobs of a whole domain that it implements `ParallelMap` |
| `TargetScan` | one worker of a core scan, from its targets to the report |
| `TargetScanProofs` | theorems about its results, rules, timers and dots |
| `LanguageServer` | the editor, the message loop, the replies and the scan threads |
| `LanguageServerProofs` | what the editor shows, for any number of files, replies and threads |
| `AppProtocol` | what the server may observe of one run of `semgrep ci` |
| `AppScan` | the requests of one run, with their retries, and what the server holds |
| `CiMetadata` | providers, fields, checkout, search for the merge base |
| `CiScan` | the command from its flags to its exit code; implements `AppProtocol` |
| `CiScanProofs` | its invariants, and that it implements `AppProtocol` |
| `CoreRun` | a core process, its stream, and the reader of the stream |
| `BaselineCheckout` | the repository and working directory around a baseline scan |
| `JoinRule` | join rules, their database, and what they mean |
| `ScanRun` | the scan command, composing the three above |
| `ScanRunProofs` | the repository, the findings, the fixes and the exit code of a scan |
| `UserFiles`, `UserState` | the files of a user, and the commands that share them |
| `UserStateProofs` | theorems for any number of commands |
| `McpDaemon`, `McpHooks`, `McpServer` | the pipes, the hooks, and the tool calls |
| `McpProofs` | theorems for any number of calls and hooks |
| `RuleConfig`, `TargetSelection`, `InputRun` | rules, targets and plan, and the announcement of the plan |
| `Subprojects`, `Lockfiles`, `RpcSession`, `SupplyChain` | operators on subprojects, the parsers of lockfiles, the RPC process, and the scan of dependencies |
| `InputProofs` | theorems about the rules and plans of `InputRun` and about `SupplyChain` |
| `ListOps` | the filter of a list, which `RuleConfig` and `Subprojects` share |
| `MC*` | constants of the instances TLC checks |

### 2.1 ExecutorPool

`pc[w]` is where the loop of `run_worker` is: `ready` (in the run queue of the
domain), `loop` (executing), `taken` (it holds a job), `await` (on the
condition), `exited` (`run_worker` has raised; the daemon fiber will handle it)
and `stopped`. `fiber[e]` is the fiber of a job inside its domain. Fibers of a
domain are cooperative: `Idle(w)` says that none is executing, which is when
the scheduler may resume another. Domains are parallel, so steps of different
domains interleave freely. Weights are integers, with `MaxCapacity` for 1.0;
`Total` sums those of the jobs that a worker has live (`LiveOn`).

`AsyncPoints` says where an asynchronous exception may land: in scheduler code
while a job is suspended (`fn`), after a promise is resolved (`resolved`), in
the loop (`loop`). An exception on the stack of the job itself is caught by the
job's handler and is part of `FnReturn`.

Facts about Eio that the model uses: `Switch.on_release` handlers run when all
fibers of the switch have ended, so when `Stop_daemon` would be returned there
is nobody left to return it to, and that branch is not in the model; the
release of the pool's switch stops nothing that still runs. The capacity of the
queue (a million jobs) is not modelled.

### 2.2 TargetScan

One worker processes targets `1..NTargets`, in order. `pc` follows
`process_target`: `resolve`, `rules` (between rules), `run`, `diverged` (a rule
that will not return by itself), `returned` (it returned, `clear_timer` not
called yet), `caught` and `raised` (in a handler of `set_timeout`), `handler`
(an exception is at the handlers of `process_target`). `timer` is
`current_timer`, `armed` is the interval timer or the registration of the GC
alarm, and `going` is the alarm's `started` flag.

A SIGALRM is sent once; a GC alarm may raise again until it is deleted.
`HandlerAlarms` and `Suspends`, chosen with the configuration of a scan, allow
alarms in handlers and in the scheduler; the properties say what these may do. Alarms inside `clear_timer` itself are not modelled, nor is the memory alarm
between rules; in rules it is one of the exceptions of `RuleRaises`. Several
workers share nothing in this part of the code, and the pool's interleaving is
in `ExecutorPool`; the report is computed from all results, here those of one
worker. Its filter of files with too many matches is one expression of one step
(`Report`), which no property repeats.

### 2.3 LanguageServer

An action is what happens between two awaits: a message is handled and its
reply runs, at once, to its first await; then the reply's steps interleave with
the messages that follow and with other replies. A reply keeps the session of
its message (`replies[i].session`: `ignored` and `onlyDirty`), while `targets`,
`scans`, `rules` and `openDocs` are shared by all copies. `waiting` is the FIFO
of `Lwt_preemptive`; a thread is busy from `Start` until the main loop takes
its result.

Findings are abstracted to what they were computed from: the version of the
file and of the rules. `disk` includes git: a file is dirty when its version is
not the committed one (0 for an untracked file). Rules may change in the
registry between any two steps, and a fetch may fail, which ends its reply.
The reads of a scan are one step. What an earlier server saved as ignored is a
constant, `Loaded`; it is empty in the instances, because ignored fingerprints
are saved in `cache/fingerprinted_ignored_findings` and loaded from
`cache/fingerprints` (`Legacy_session.ml:412-442`).

The constant `Configs` describes clients: whether they wait for replies, for
the rules only, or not at all, the threads (`jobs`), and the messages sent.
Two history variables, which no action reads but to update them, say where
messages overlapped. `raced` holds a file from the moment two replies that touch
it are in flight (two scans of the one file in a single thread excepted, which
end in the order of their messages), or it was opened while it was not yet a
target, until the next reply that scans it and meets no other. `late` holds a
document that was closed or deleted during the first scan of its `DidOpen`, or
opened again before its `DidDeleteFiles` was over, until its next opening or
closing that overlaps nothing.
Not modelled: messages before `initialize` and after `shutdown`, hover, code
actions, search, login and logout, changes of workspace folders, metrics.

### 2.4 CiScan, CiMetadata, AppScan

`pc` is the stage of the command: `flags`, `empty`, `admin`, `head`, ... to
`wrapper` (an exception or `sys.exit` is at the decorator of
`commands/wrapper.py`) and `exited`. `job` is what the run was started with:
options, the CI event, and `env`, the set of places (variables, the event file,
git) that answer. A field of the metadata is the list of the places it is
looked for, in order (`GithubMeta`, `GitlabMeta`, ...), so precedence is what is
modelled and texts are not. `repo` is the clone: the commit checked out, how
deep its history reaches, and which commits it holds. `search` is
`_find_branchoff_point`, which fetches deeper at each attempt. `handler` is the
`ScanHandler`, `app` what semgrep.dev holds, and `Request` one POST with its
retry adapter: it succeeds, is refused, or is exhausted, when the server may
have acted on one of the copies. Time in the poll is counted in its short
sleeps. The result of the scan is one of `Found`, sets of kinds of findings that
`SortMatches` treats differently.

### 2.5 ScanRun, CoreRun, BaselineCheckout, JoinRule

`CoreRun`: the process writes dots, numbers and a document into a pipe and ends
or is killed at any point; the reader is the state machine of
`StreamingSemgrepCore`, which takes progress by two bytes and all the rest as
the document. What does not parse, a text cut by a signal and a non-zero return
code are told apart as the code does.

`BaselineCheckout`: `tree` is the commit at `HEAD`, the working directory, the
temporary directory, the registered worktree, and which command of the clean-up
failed. `ScanRun` puts failures between its steps.

`ScanRun`: two files, `new` (which may be a renamed `old`) and `added`; a
finding is a path and the index that `rule_match.py` gives to equal findings of
a file. The same path read in the worktree or in the repository finds the
matches of the commit that is there (`CommitAt`): absolute paths lead back to
the repository. `run.errs` is which errors were told and the last of them, which
decides the exit code; `run.lost` is which files of which pass were in error.

`JoinRule`: `join` is the loop over the join rules of a pass. A finding is an
identity, a rule and the text of each metavariable; texts are compared by
`Within`, a given relation. `FollowChains` replaces the table of one recursive
condition at a time by that of its closure (`join.done` has the conditions it
did); `Query` selects from the tables once all are done. `Meant` is what the
conditions say, stated without tables: a collection stands for the ways to
choose a finding or, if it is recursive, a chain of findings of which each
begins with the value the one before ends with. `JoinIsExact` compares the two.
It speaks of rules whose conditions parse and which have at most one recursive
condition of each collection (`OneChain`): with two, the code adds the chains of
the second to the table of the first, whose other columns are gone, and nothing
says what that should mean. A rule that names the findings of one rule twice is
an exception of SQLite, since one table would have one alias twice (the
repository's own example, `callgraph.yaml` and `callgraph2.yaml`, has a copy of
the rule for that).

### 2.6 UserFiles, UserState

Two processes, each a command of `MCUserState!Pairs`, from the entry point to
the decorator that sends metrics, with `Kill` at every step. A document is
whole, `half` (truncated or cut) or garbage; binaries are identified by the
process that downloads them, and `body` says how much of each is there. Reading,
changing and replacing the settings are three steps, since the copy a process
read is what it writes back. Two installations at once are not among the pairs:
they share one temporary name, and the property does not hold of them
(section 5).

### 2.7 McpDaemon, McpHooks, McpServer

A request in a pipe is the call that wrote it; an answer is that call and how its
line compares with the limit of `StreamReader.readline` (64 KiB, since
`semgrep.py:185` sets none): it `fits`, it `exceeds`, or it is the `rest` of one
that did. A line that exceeds is an error, and either all of it is removed or
its rest becomes the next line (`Overrun`). What lies between two awaits of a
coroutine is one step; a scan in a process of its own blocks the loop and is one
step too. `temps` is the set of calls whose temporary directory exists,
`payload` the one shared description of metrics. `tangled` is auxiliary: a line
was left in the pipe for another call, since two requests overlapped, a waiting
call was cancelled, or a line was cut.

Hooks run as separate processes on the list of edits, one after the other or at
once. A hook that records an edit reads the list, opens the file (`half` is what
others read then) and writes it; a stop hook reads the list, scans and removes
the file. `owed` and `crossed` are auxiliary, as are the fields `owes` and
`scanned` of a hook: the edits that no stop hook took yet; those that were
recorded while another hook was between reading the list and writing or removing
it; what a stop hook took; and what it scanned. `Displaced` is a file in the list
before another of the same base name.

### 2.8 RuleConfig, TargetSelection, InputRun

`RuleConfig` follows the arguments of `--config` one by one: kind, documents,
download or fallback, parsing by threads (`parsing` is the set of documents the
pool has not delivered, so any order is possible), merging, version constraints
and validation, then the names, filters and duplicates of `GetRules`. A Python
comprehension that filters a list is `Only(s, T)`, over a set, of `ListOps`.
`TargetSelection` plans (`phase`): first the plan that is printed, then the one
that is run, in turns (`Turns`: the rules of a product, then of the next), and in
a turn language by language (`PlanLanguage`), with the log and the caches `seen`
and `kept`, in which `Keep` enters a key that is not there yet. Patterns of a rule's `paths` are matched
by the components of a path. Files may `Vanish` at any time. `InputRun` adds
the announcement, with the counts of its tables.

### 2.9 Subprojects, Lockfiles, RpcSession, SupplyChain

`Subprojects` holds pure operators: the matchers (`Makes`) with what each uses
up, sources, the closest subproject of a path, relevance for a diff. A file is
a folder, as a sequence, and a name. Gradle takes the build files that are left
in the order of a set, so what it may take is a set of sets (`Taken`).
`SupplyChain` is the scan (`scan` is what it was started with, `SupplySpec` its
specification): matchers in order, the filter, the resolution of each source
(locally, through the process, from a build), the rules with their reachable and
unreachable findings, the statistics. The findings of a match are those of
`FoundAt` for the subprojects of `SubjectsOf`. `RpcSession` is the process and
the reader of its packets, which `SupplyChain` interleaves with its own steps;
what a packet is about is a set of sources or of findings. A call to a process
that has ended raises `BrokenPipeError`, which the resolver catches; the packet
stays in the buffer of the input (`unsent`), and leaving the session closes that
input, writes the buffer and raises again, so the scan ends as `crashed`
(`Finish`, `rpc.py:286-291`).

`Lockfiles` is what the parsers of `semdep/parsers/` make of a lockfile and its
manifest, one operator per kind (`Yarn`, `Pnpm`, `GoMod`, ...), chosen by
`ParserOf` as `PARSERS_BY_LOCKFILE_KIND` does. The constant `Contents` gives
each file the sections and entries that its grammar yields, with fields that may
be missing; the text is not modelled. Which entries count, under what name, and
whether they are direct is. `ParseLockfile` is
`safe_parse_lockfile_and_manifest`: a broken manifest is an error and like none,
a broken lockfile is an error without dependencies. The constant `Deps` is what
is really installed, stated file by file and apart from the contents;
semgrep-core answers with it, and the parsers are compared with it.

## 3. What is checked

All runs set `CHECK_DEADLOCK FALSE`: a map, a scan, a command and a server come
to an end, and that they do not stop before is stated as a liveness property
where it is in doubt.

| run | instance | distinct states | shows |
|---|---|---|---|
| `pool_map` | 2 workers, 3 whole-domain jobs, 2 exceptions in jobs, 2 suspensions | 53,518 | `NoLostJob`; `OneJobPerDomain` (the big invariant of `Hook.ml`); the pool implements `ParallelMap`, with its liveness |
| `pool_fails` | weights 1, 1, 1; or 1, an invalid one, 1; or 1, .6, .5; 2 exceptions anywhere, 1 suspension | 426,738 | `NoJobOutlivesMap`, `CapacityAccounts`, `ResolvedOnce`, `MapTerminates`, also when the map fails |
| `scan_rules` | 3 targets (3, 0 and 2 rules; two of one file), 32 configurations, threshold 2 | 141,676 | `TimersAreScoped`, `RulesAccounted`, `ProgressPerTarget`, `OneResultPerTarget`, `ScanEnds` |
| `server` | 2 files, 2 versions of each and of the rules, 2 replies at a time, 7 kinds of client | 680,294 | `DocumentsAreCurrent`, `OpenDocumentsAgree`, `RepliesEnd` |
| `ci` | ten providers, GitHub's four events, 8 families of options, 6 answers of the server | 235,479 | `CleanExitIsEarned`, `EndIsTold`, `ReportedCommitIsScanned`, `BaselineIsLocal`, `KeepsProtocol` (refinement of `AppProtocol`), `Terminates` |
| `scan_cli` | flags, diff scans of clean and dirty repositories, 15 join rules over 4 sets of findings | 426,275 | `RepositoryRestored`, `ReportsWhatIsNew`, `CleanExitHidesNothing`, `JoinIsExact`, `ResultsAreVouched`, `FixesTheReported` |
| `user_state` | 8 pairs of commands, 4 earlier states of the disk, one change of day | 273,176 | `WholeDocumentsUsed`, `OnlyCheckedBinariesRun`, `SavedSettingsKept` |
| `mcp` | 8 jobs of 3 tool calls, 9 of 4 hooks | 96,441 | `AnswersAreOwn`, `NothingLeftBehind`, `EditsAreScanned` |
| `inputs` | 3 documents, 8 rules, 6 files, 3 of which may go | 12,656 | `NoRuleLost`, `AccountedFor`, `PrintedIsRun` |
| `supply` | four repositories in 3 folders, one of them with a lockfile of every other kind; one stray line | 130,725 | `VulnerableReported`, `ResolvedIsReported`, `ClosestIsUsed`, `AnswersAreOwn` |
| `ci_admin` | as `ci` | | violated: `AdminSuppressionHonoured` |
| `join_errors` | as `scan_cli` | | violated: `InnerErrorsKept` |

Each property of a passing run fails under a mutant of the code that
`PROJECT.json` names: a dropped guard, a reset that is missing, an order that is
swapped.

### 3.1 Why these bounds

*Engine.* Two workers and three jobs make a worker take a second job after it
was restarted while another still runs its first; two exceptions kill a worker
twice, or both. `pool_fails` has three lists of weights: whole domains, with
exceptions anywhere; a weight that is rejected while an earlier job is in flight
or none is, with one left to submit; and two jobs that share a domain, which is
then over its capacity, next to one that does not. Five rules over two targets and a threshold of two give targets
below the threshold, at it, and whose count would only reach it with the
timeouts of an earlier target; a target without rules has a result and a dot as
well. Two versions of a file tell a stale result from a current one, two files
tell a result cleared from one kept, and two replies are all that a property
about the order of two needs. Bounds are the constants `MaxAsync`,
`MaxSuspends`, `MaxMatches`, `MaxVersion`, `MaxRules` and `MaxReplies`; each is
a guard of the actions that count.

*CI.* Distances 1, 4 and 100 put the branch-off point within the first fetch,
within the last one, and beyond it; `MaxFetchAttempt` is 2 so that the last
attempt, which the code treats on its own, follows one that is not. The poll has
a limit of 4 short sleeps and slows down after 2, so that it passes from one
rhythm to the other before it gives up.

*Scan.* One and two findings on each side (fewer, as many, more) are what
removal by counting can get wrong, with a comment on the first; a renamed file
and one that is new; the core may be cut after nothing, a dot, half a document
or all of it. Join rules: chains of three links, chains through a finding that
lacks a value, a rename that swaps two columns, two chains of one collection,
and two rules one after the other on the shared database.

*User.* Two processes suffice for a race on a file; the pairs are those whose
commands write the same file. `MaxPolls` is 2.

*MCP.* Three calls: one that fails, is cancelled or has an answer beyond the
limit of a line next to two others, one after the other or at once. Four hooks,
one after the other or at once: two edits before a stop, one between two stops,
with the limit at 2; two of the three files have one base name.

*Inputs.* Three documents give all orders of two threads after a first; copies
of a rule in one document, in two, and in two of different origin. Each file
stands for one way to be selected or skipped. *Supply.* Three repositories are
each made for one family of matchers, and their folders nest. The fourth has a
lockfile of every kind that Python parses, with an entry that counts next to
one that does not (no version, indented, for development, excluded, fetched by
commit, an alias, a name in another case), lockfiles of which nothing is
installed, and three whose parsers give up in silence; with its manifests,
without, and with some of either broken. `VulnerableReported` then demands both
directions: what is installed at a vulnerable version is a finding, or its file
has an error or a parser that gives up (`GivesUp`); and a finding is of something
that is installed.

### 3.2 Which environments are excluded

Where the code fails in some case, the runs reach the case all the same wherever
that is possible, and the property names what is lost there, so that it says that
nothing else is:
- `server`: seven kinds of client. Three wait: for every reply; for the rules
  only, with one thread; and one that has no document open while files appear
  and go. Four never wait: saves with two threads next to files that appear;
  refreshes of the rules and scans of the workspace between saves; and opening,
  closing, creating and deleting in any order. Both properties are stated for
  all of them, `DocumentsAreCurrent` of the documents that are not `raced` and
  `OpenDocumentsAgree` of those that are not `late`; without these words TLC
  finds each of the races of section 5.
- `scan_rules`: `TimersAreScoped` and `ProgressPerTarget` say what an alarm in a
  handler or in the scheduler may do; alarms land everywhere.
- `pool_fails`: `MapTerminates` of every list of weights; with two jobs that
  share a domain, unless the domain died and a job that is not its `active_job`
  was lost. With whole domains the map ends without such a proviso.
- `mcp`: calls that overlap and are cancelled and lines of any length, where
  `AnswersAreOwn` speaks of the time until a line is left to another call
  (`tangled`), and at all times of answers returned twice; hooks at once and
  files of one base name, where `EditsAreScanned` leaves out the edits that
  `crossed` another hook and the files that are `Displaced`.
- `supply`: a process that ends before or after any packet, and parsers that give
  up; `VulnerableReported` and `ResolvedIsReported` are of scans that end, and the
  latter says what ends one otherwise.

Some environments are excluded:
- `pool_map`: exceptions land during jobs; `pool_fails` has them anywhere.
- `scan_cli`: `ReportsWhatIsNew` for relative roots or clean repositories.
- `user_state`: no two installations at once, and `SavedSettingsKept` is of a
  process that no other overtook.
- `supply`: the properties are of a process that prints nothing but packets,
  though one stray line is among the states.

What happens outside of them is told in section 5.

### 3.3 Fairness

`ExecutorPool`: weak fairness of the main domain and of each worker's loop,
handler and jobs (the operating system runs every domain; a mapped function
returns, since its rules have time limits); strong fairness of the resumption
of a suspended fiber and of cancellation, because a loop that yields again and
again makes these enabled only now and then, and Eio's run queue is first in,
first out. Exceptions and suspensions have no fairness.
`TargetScan`: weak fairness of the worker and of an alarm that goes off in a
rule that never returns; no fairness of how a rule ends. `LanguageServer`: weak
fairness of each reply; Lwt resumes every promise whose input is there. Clients
owe nothing, nor does the registry. `CiScan` and `ScanRun`: a sequential
program that is not killed takes its next step; requests are answered or time
out, since the session has time limits. `UserState`: each process runs, and
`Kill` has no fairness. `McpServer`: the event loop runs what is ready, and the
daemon answers or dies. `InputRun` and `SupplyChain`: the process of the scan
runs. `SupplyChain` also assumes that semgrep-core answers or ends:
`RpcSession.call` has no time limit, so a process that hangs hangs the scan.

## 4. What is proved

The theorems hold for every value of the constants that satisfies the named
assumptions of their module. The assumptions are of two kinds. What a constant
*is*: `ExecutorPoolAssumption`, `TargetScanAssumption`, `CoreInputs`,
`CiInputs`, `CiJobs`, `ServerReplies`, `FetchBounds`, `ScanJobs`,
`UserStateAssumption`, `McpAssumption`, `LanguageServerAssumption`,
`JobsAssumption` and `ScansAssumption` give the fields of a job or of an answer
their types, and numbers their range; TLC evaluates them in every run. And *which environment* a theorem is about, which
is a hypothesis of that theorem and named in it (`WholeDomainJobs`,
`ExceptionsInFn`, `OneInstallation`). There are three of the latter; the runs
`pool_map` and `user_state` satisfy them, and without them the conclusion is
false of the code, as sections 3.2 and 5 tell. All other theorems have no
hypothesis but the assumptions on the constants.

Each proof has the same plan. `...Inv` is the inductive invariant; an effect
lemma says what each operator that is shared by several actions changes; one
lemma per action, or per group of actions with one effect, shows that it keeps
the invariant; the theorem follows.

A few facts are about sums and filters of sequences, and chains, of any length.
They need an
induction over numbers, which is cited as the well-foundedness of the order of
the naturals (`WFMin`): the numbers at which a fact fails have no least one
(`EveryNumber`, `LeastNumber`). That reaches recursive functions on numbers, so
sums, filters and closures are written as such (`Total`, `Only`, `Closure`).

### 4.1 The engine

**`ExecutorPoolProofs`**. For all weights and all places of exceptions:
`PromisesAreWrittenOnce` and `MapLeavesNoJob` (of `NoJobOutlivesMap`). Their
invariant, `PromiseInv`, lets workers hold several live fibers and forget some
of them, but keeps that a job inside its function has a pending promise and that
`active_job` is a job of this worker that has, or had, a fiber, so that the
handler's test of the promise decides. `Released` adds that once the map is over
every worker has stopped, and that a worker with a job or a fiber has not.
`CapacityIsExact` (of `CapacityAccounts`), for all weights too: `AccountInv`
adds the types of the capacities, and the lemmas on `Total` say that it does not
depend on the order of the jobs and that a job more or less is its weight more
or less; so a worker that was restarted, whose jobs are forgotten, has the
capacity of a new one.
Under `WholeDomainJobs` (every weight is 1.0, as `Concurrent.map` has it) and
`ExceptionsInFn` (exceptions land while a job is in its function): `TypeCorrect`,
`NoJobIsLost`, `DomainsAreNotShared`, `MapSurvives`, and `PoolRefinesMap`: every
step is a step of `ParallelMap` or leaves its variables alone. `IInv` is needed
because none of these is inductive: that a restart does not resolve a promise
twice rests on `active_job` naming the one live fiber of its worker
(`WorkerInv`), which rests on what each state of a fiber says about its promise
and its worker (`FiberInv`), which for a job just taken rests on the queue
holding each waiting job once (`QueueInv`, `SubmitInv`).

**`TargetScanProofs`**: `TypeCorrect`, `EachTargetHasItsResult`,
`RulesAreAccountedFor`, `FilesAreAbandonedOnTime`, `TimersEndWithTheirCall` and
`ProgressIsReported`, for all targets, rules and thresholds, wherever alarms land. The invariants add what `Control` says of
where an exception can be on its way, that the rules behind the worker are split
between returned and timed out (`RulesBehind`), and that the number of timeouts
is below the threshold except while `File_timeout` is on its way (`Countdown`).

**`LanguageServerProofs`**: `ShownIsCurrent` (of `DocumentsAreCurrent`) and
`OpenDocumentsKnown` (of `OpenDocumentsAgree`), for any number of files,
versions, replies and threads, and for any client: it may wait or not, and send
any message at any time. The properties speak of a server at rest, so `RunInv`
says what an open document is waiting for while it is not: `Current(f)` has the
editor's view of a document correct and no reply that would replace it, or a
reply in flight, the latest about the document, that will show what is expected.
That needs the history: a file that is not `raced` is touched by one reply, or
by scans that take their turn in one thread (`Alone`, part of `Crowd`); `Queue`
has each waiting reply in the queue of the threads once, which makes the turns
those of the messages. A refresh or a scan of the workspace reaches a document
because the session it copied agrees with the server's about every file that is
not raced (`Sessions`), because a document that counts as open has been scanned
(`Filed`, `Known`), and because the targets include it (`Workspace`).
`Documents` has the open documents that are not `late` in the server's list, or
in a reply that is still to add or to remove them.

### 4.2 The command line

**`CiScanProofs`**: `CommandIsConsistent`, that `CiInv` is invariant;
`CleanExitEarned`, `EndIsToldAlways`, `ReportedCommitScanned`, `BaselineLocal`;
and `ProtocolKept`, the refinement of `AppProtocol` (which states safety only).
Every way out of the command passes two handlers that see an exit code, so
`CiInv` says for each place what the server has been told (`ServerKnows`), what
the partial output has (`PartialOutput`), why the command is leaving (`Reason`,
an auxiliary field of `run` that no action reads), what is checked out
(`HeadCheckedOut`) and what is fetched (`BaselineFetched`). No hypothesis but
the types of the constants.

**`ScanRunProofs`**: `RepositoryFollowed`, that `TreeInv` is invariant: at each
place of the scan the commit, the working directory and the worktree are those
that it needs. From it `RepositoryIsRestored` and `FixesAreReported`.
`ResultsVouched` rests on `CoreInv`, which relates what is in the pipe to what
the reader has seen. `NewIsReported` (of `ReportsWhatIsNew`) rests on `DiffInv`:
the keys by which old findings are removed count equal findings of a file, so
the invariant says which indices each pass can have for each file (`HeadKey` and
`BaseKey` then meet exactly for what is not new). `CleanExitIsHonest` (of
`CleanExitHidesNothing`) rests on `HideInv`: at each place, each finding of the
head is in the set that is passed on, or it was taken out for one of the reasons
that the property allows; a file that lost findings has an error that was told
or is in the list to be told when the join rules are done.
`JoinsAreExact` (of `JoinIsExact`) has two parts. The first is about operators.
`ClosureIsChains`: the recursive query makes as many rounds as there are pairs,
and that is enough, since the shortest chain that begins and ends with two given
values passes no pair twice (`ChainIsCut`, then the pigeonhole principle in
`ShortChain`). So the table of a collection is exact (`PlainIsExact`,
`ChainedIsExact`): each row stands for a way, with its values, and each way has
a row; and on exact tables with the columns of the conditions the query reports
what is meant (`QueryIsMeant`). The second is about states: `JoinInv` says which
tables there are after each recursive condition (`Followed`), that nothing was
followed before the tables are loaded, and that at most the columns of the
conditions are asked for. A collection without a finding is the other case in
which a rule reports (`NothingIsMeant`). TLC finds `HideInv` and `JoinInv` true
in all states of `scan_cli`. The only hypothesis is `ScanJobs`, the types of the
constants: counts are numbers, the findings of the references are finitely many,
rules and conditions are lists.

**`UserStateProofs`**: `DocumentsAreWhole` and `SettingsAreKept`, for any number
of processes that are started from any settings and killed anywhere, from
`SettingsInv`: whoever may save holds a whole document, so the settings file is
never half of one, and the copy of a process that does not log in has the token
and the notice of what it read. `EngineIsChecked` (of `OnlyCheckedBinariesRun`) under
`OneInstallation`: the stamp is current only above a binary that is sound or
gone, and what takes its place was sound when it was checked (`Trusted`,
`Binaries`).

**`McpProofs`**, for any calls and hooks, side by side, cancelled or not, and
answers of any length: `DirectoriesAreRemoved` (of `NothingLeftBehind`);
`ScansGetTheirOwn` (of `AnswersAreOwn`): a request and its answer are in the pipes
once in all, and not after they were returned (`Once`, `Owned`), so no answer is
returned twice; and while nothing is `tangled` the pipes are empty or hold one
line, that of the one call that reads (`InStep`). `EditsGetScanned` (of
`EditsAreScanned`), whatever the limit on edits and however the hooks overlap: an
edit that is owed and crossed no other hook is in the list on the disk and in
every list that will replace it (`Carried`); what a stop hook is about to remove
it has taken (`Removed`); and what it took is in the list it scans (`Taken`).

**`InputProofs`**: `AnnouncedIsRun` (of `PrintedIsRun`) and
`EveryFileIsAccountedFor` (of `AccountedFor`), for any rules, products, files
and paths, while files vanish at any time. `InputInv` says that what a language
of a rule contributes to a plan, and to the log, is a function of the files that
are cached for its language and product (`PlansMade`), that those are what the
filters leave of the files found once for the product (`FilesFound`), and that a
cache keeps what it has. So the second plan is the first one again.

`EveryRuleIsLoaded` (of `NoRuleLost`), for any arguments, documents, copies and
orders of the threads, under `JobsAssumption`. `LoadInv` says what has become of
each argument that was read: its documents are loaded and their problems told,
or it was of a product and the fail-open server answered for it. While the
documents of one argument are parsed each of them is with a thread or merged.
The rest is about `GetRules`: each key of a sequence keeps the last of its
copies, and a filter keeps what it is asked to (`DeduplicatedKeeps`, `OnlyIs`).

Of `SupplyChain`, for any repository, lockfiles, rules and dependencies, and any
number of stray lines:
- `SupplyChainAnswersAreOwn` (of `AnswersAreOwn`). `PipeInv`: while the scan
  waits there is exactly one packet on its way, the question, the answer, a
  refusal or what is left when the process died; while it does not there is
  none.
- `SupplyChainClosestIsUsed` (of `ClosestIsUsed`). The filter looks for the
  closest subproject of the changed code among all, the findings among those
  that were resolved. `ClosestInv` has what each matcher can make (`FoundInv`:
  ecosystems, sources that are files), that what was skipped is not relevant
  (`SkippedInv`), that what is resolved has the dependencies of its own files
  (`ResolvedInv`, `SourceInv`), and that a reachable finding comes from code of a
  language of its rule (`ReachInv`), whose ecosystems the filter asks for.
- `SupplyChainResolvedIsReported` (of `ResolvedIsReported`), whatever the parsers
  make of the lockfiles. `HandledInv` has the findings of the rules behind the one
  in hand and of the subprojects that are no longer left for it; `TurnInv` that
  the unreachable findings that were asked about are those of the subproject in
  hand, which are added whether or not the call was answered. `CauseInv` says
  what breaks a scan off: only a process that ended leaves a packet unsent.

All parts of `LoadInv`, `ClosestInv` and `ReportInv` were checked by TLC on
the instances of the runs.

### 4.3 What has no run, and what is only model-checked

`MapSurvives` (of `SurvivesAsync`), `FilesAreAbandonedOnTime` (of
`ThresholdRespected`), the type invariants, `CommandIsConsistent` and
`RepositoryFollowed` are proved and have no run of their own: they are what the
other properties of these modules rest on. TLC was used to find the
invariants, on the instances of the runs.

Only model-checked:
- Liveness under fairness (`MapTerminates`, `ScanEnds`, `RepliesEnd`,
  `Terminates`, the fair part of `Implements`), out of the prover's reach.
- `VulnerableReported`, which compares what the sixteen parsers make of their
  lockfiles with what is installed: it holds of the contents of the run, and for
  all contents only of those that a tool writes for what is installed.

## 5. Where the code and its comments disagree

### 5.1 With a run

`ci_admin` and `join_errors` each check what a comment of the code says and find
it violated; the findings of `PROJECT.json` quote the lines.

- `ci.py:467` announces that the administrators' setting overrides
  `--no-suppress-errors`. The line below it reads the setting from a handler
  that has not asked the server yet, so it is always off.
- `join_rule.py:522` reconstitutes the errors of the inner scan. It looks the
  class of an error up twice, the second look-up has no key, and all errors are
  dropped.

### 5.2 Met while modelling, without a run

Each of these is in the models, but where it says otherwise; the property that
meets it allows it and nothing else, or its run excludes it (section 3.2).

*Engine.*
- An exception between the resolution of a promise and the reset of
  `active_job` (`Executor_pool.ml:74-78`): the handler resolves the promise a
  second time, `Invalid_argument` fails the switch, and the map raises. The
  prelude (lines 29-31) says that the pool recovers.
- Two jobs of weight .5 share the one `active_job` of their domain; when it
  dies, one of them is never resolved (`Executor_pool.mli:92-94`), and a map that
  waits for it hangs. `Concurrent.map` submits whole domains only.
- SIGALRM in the handler of `set_timeout` before `clear_timer`: `Timeout`
  reaches `process_target`, whose handler raises again, and the dot is not
  printed (`Core_scan.ml:720` and the comment at 739-741).
- A GC alarm raises in the Eio scheduler, outside of any handler; a comment says
  the computation is wrapped in a thread, which no code creates
  (`Time_limit.ml:117-128, 144`).
- `Memory_limit.ml` promises `Out_of_memory` where it raises
  `ExceededMemoryLimit`, and its line 86 compares megabytes with bytes.

*Language server.*
- A document that is closed during its first scan joins the open documents after
  it was removed (`Legacy_notification_handler.ml:102`, comment at 229-233).
  So does one that is opened again before its deletion is over, the other way
  round. Until its next opening or closing a refresh scans a closed document or
  misses an open one.
- Two saves in a row with several threads start two scans, and the result of the
  one that ends last is shown (`Legacy_scan_helpers.ml:317`); the same holds of a
  save next to a refresh of the rules or a scan of the workspace. The next save
  shows the right one.
- A file that no message announced: the targets are computed again, the list
  from before is tested, and nothing is scanned until the next save
  (`Legacy_scan_helpers.ml:301`, comment at 291-293).

*Command line.*
- `git.py:484-497`: a diff scan from a sub-directory of a dirty repository
  always fails; the comment at 504 is false of absolute scanning roots, for
  which the baseline scan reads the head and everything is old. A kill during
  the reset strategy leaves the branch at the merge base.
- `output.py:478`: only the last error decides the exit code, so that under
  `--strict` a warning is hidden by a later error of level info.
- `meta.py:465`: "get all commits on last try" never happens.
- `git.py:168`: any failure of `git rev-parse`, a time-out included, makes the
  repository an empty one, and the server gets a complete scan without findings.
- Join rules: a reference without an alias is a `KeyError` (the docstring at 440
  has a default); conditions that are all recursive are an `IndexError`; two
  rule ids that give the same camel case share a table.
- `rpc_call.py:167`: a discovery that fails counts as an empty tree and exits 0.
  `target_manager.py:1243`: reasons that the log does not know are dropped.

*User's files.*
- `settings.py`: a token from the environment is saved unverified at every
  start; two processes lose each other's updates. `version.py:156-173`: an entry
  of the cache never expires.
- `install.py`: two installations share one temporary name, so one may check
  what the other is still writing.

*MCP.*
- Two calls in the daemon at once take each other's answers; a call that is
  cancelled while it waits leaves its line to the next (`semgrep.py:84-97`).
- An answer of more than 64 KiB, the limit of `readline` that `semgrep.py:185`
  does not raise, is a `ValueError`; what has arrived of it is discarded and the
  rest stays for the next call, even for calls one after the other. From then on
  each call may get the answer of the one before it.
- A hosted server with `USE_SEMGREP_RPC=true` starts a daemon that it always
  refuses to use (`semgrep.py:265`). A daemon that died is not restarted.
- Two record hooks at once lose an edit, and so do a record and a stop hook: what
  is recorded while the stop hook scans is removed with the list
  (`stop.py:66-78`, `124-151`). A file that is gone fails the stop hook, which
  clears all edits. Files of one base name overwrite each other, and only the
  last one is scanned (`server.py:276-278`).

*Supply chain.*
- `resolve_subprojects.py:109-113` removes only what the last matcher used from
  all files, where its docstring (97-100) has it from those that are left.
- `resolve_subprojects.py:131-133`: relevance for a diff is decided among all
  subprojects, findings among the resolved ones.
- A call that fails since semgrep-core has ended is caught where it is made, but
  its packet stays in the buffer of the pipe. `RpcSession.__exit__`
  (`rpc.py:286-291`) closes the pipe, which writes the buffer; the
  `BrokenPipeError` leaves the `with` of `run_scan.py:1284`, and a scan that had
  carried on reports nothing.
- `rpc.py:80`: after a short read the whole size is asked for again; a line that
  is not a packet shifts all answers after it.
- A requirements group of which a part failed counts as resolved; a lockfile
  that does not parse counts as resolved without dependencies, with an error.
- Some parsers give up without an error, and the file looks as if it had no
  dependencies (`GivesUp`): `mix.py` when the manifest is missing, broken or empty,
  `pubspec_lock.py` when one package lacks a field, `package_lock.py` and
  `pnpm.py` when there is no `lockfileVersion`.
- `semdep/golang_version.py:285-287, 311` rank a pre-release below its release,
  and `cmp_golang_versions` returns the opposite when only one of the two has
  one (lines 312-315). Version ranges are not modelled; this was only read.

## 6. Not modelled

`PROJECT.json` lists each component with its reason.

- **Matching, taint, dataflow, parsers** (OCaml): functions on syntax trees of
  thirty languages; no small instance says something of them.
- **Rules, targets, fixes, nosemgrep and output in OCaml**: conversions and pure
  functions; the state around them is modelled in the Python commands.
- **Shared memo tables and counters** (`SharedMemo`, `SharedCounterTable`,
  `Eio_locked`): one lock each. `Hook`'s big invariant is `OneJobPerDomain`.
- **Processes by Parmap**: the library is external; `TargetScan` has its mode of
  alarms.
- **`semgrep --test`**, which its header calls deprecated; **formatters** and
  terminals; **capabilities**, a discipline of types; **CPU limits**, two files
  that are read once.
- In the modelled components: texts of messages and outputs, schema validation
  and version ranges (one outcome each), the text of lockfiles (their entries are
  given, section 2.9) and the edges between dependencies, the patterns of
  `.semgrepignore` (matched by the core, an outcome here), tracing, and of the
  language server hover, code actions, search, login and logout.

## 7. Plan

1. Lemmas on `Lockfiles`, which has no recursion: that each parser finds only
   entries of its file, with their versions. With an assumption that relates
   `Contents` to `Deps` they would make `VulnerableReported` a theorem.
2. `SharedMemo`: several domains, one key, the lock released around the
   computation, implementing a memo in which all callers get the first value.
