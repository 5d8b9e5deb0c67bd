------------------------------ MODULE CiScan --------------------------------
(***************************************************************************)
(* One run of `semgrep ci` (semgrep/commands/ci.py) under the wrapper that *)
(* turns every way a command may end into an exit code                     *)
(* (commands/wrapper.py, error_handler.py).  The metadata, the checkout    *)
(* and the search for the merge base are CiMetadata's; the conversation    *)
(* with semgrep.dev is AppScan's.  The scan itself (run_scan) is a step    *)
(* with the outcomes it may have: findings, a SemgrepError, a crash.       *)
(***************************************************************************)
EXTENDS CiMetadata, AppScan, FiniteSets

CONSTANTS Jobs,       \* options and environments a run may start with
          Found,      \* what a scan may find: sets of kinds of findings
          Answers,    \* the server's answers to a request for completion
          ErrorCodes  \* exit codes a SemgrepError may carry

\* Kinds of findings: of a blocking rule, of a rule that only warns, of a
\* blocking rule but triaged as ignored on semgrep.dev, of an internal rule,
\* of a rule of the previous scan.
Findings == {"blocking", "nonblocking", "triaged", "cai", "transient"}

ASSUME CiInputs == /\ ErrorCodes \subseteq 2..13
                   /\ Found \subseteq SUBSET Findings
                   /\ Answers \subseteq [success : BOOLEAN, override : BOOLEAN,
                                        ids : BOOLEAN, reason : BOOLEAN]

\* Of an environment only the set of places that answer matters (CiMetadata).
ASSUME CiJobs ==
    Jobs \subseteq [env : SUBSET STRING, event : STRING, token : BOOLEAN, config : BOOLEAN,
                   dry : BOOLEAN, partial : BOOLEAN, suppress : BOOLEAN, audit : BOOLEAN,
                   secrets : BOOLEAN, oss : BOOLEAN, historical : BOOLEAN,
                   baseline : BOOLEAN, subdir : BOOLEAN, ghToken : BOOLEAN,
                   empty : BOOLEAN, distance : Nat]

VARIABLES pc, run

vars == <<pc, run, job, repo, search, handler, app, partialFile>>

HasHandler == job.token
Checkout(event, env) ==
    CASE Provider(env) = "GITHUB_ACTIONS" /\ event = "pull_request" -> "merge"
      [] Provider(env) = "GITHUB_ACTIONS" /\ event = "pull_request_target" -> "base"
      [] OTHER -> "tip"

Init ==
    /\ job \in Jobs
    /\ pc = "flags"
    /\ run = [empty |-> FALSE, suppress |-> FALSE, undo |-> NoRef, base |-> NoRef,
              found |-> {}, suggested |-> 0, why |-> "none", raw |-> 0, exit |-> 0]
    /\ repo = [head |-> Checkout(job.event, job.env), depth |-> 1, commits |-> {}]
    /\ search = [attempt |-> 0, base |-> NoRef]
    /\ handler = [dry |-> FALSE, partial |-> FALSE, reply |-> NotStarted,
                  final |-> FALSE, clock |-> 0, turn |-> 0, answer |-> NoAnswer]
    /\ app = [scan |-> "none", project |-> NoRef, code |-> 0]
    /\ partialFile = "none"

Goto(l) == pc' = l
\* sys.exit, or an exception that no handler of the command catches.
Leave(code, why) == /\ pc' = "wrapper"
                    /\ run' = [run EXCEPT !.raw = code, !.why = why]

-----------------------------------------------------------------------------

ValidateFlags ==
    /\ pc = "flags"
    /\ \/ /\ Leave(2, "flags")               \* contradictory or misplaced flags
          /\ UNCHANGED handler
       \/ /\ ~job.token /\ ~job.config /\ Leave(13, "flags")
          /\ UNCHANGED handler
       \/ /\ job.token /\ job.config /\ Leave(2, "flags")
          /\ UNCHANGED handler
       \/ /\ job.token # job.config
          /\ run' = [run EXCEPT !.suppress = job.suppress]
          /\ NewHandler(job.dry \/ job.partial, job.partial)
          /\ Goto("empty")
    /\ UNCHANGED <<job, repo, search, app, partialFile>>

\* Any failure of `git rev-parse HEAD` counts as an empty repository, a
\* command that ran into its timeout too.
CheckEmptyRepo ==
    /\ pc = "empty"
    /\ \/ Leave(2, "git")
       \/ \E timedOut \in BOOLEAN :
            LET empty == job.empty \/ timedOut IN
            /\ run' = [run EXCEPT !.empty = empty]
            /\ Goto(IF empty /\ HasHandler THEN "meta" ELSE "admin")
    /\ UNCHANGED <<job, repo, search, handler, app, partialFile>>

AdminSuppression ==
    /\ pc = "admin"
    /\ run' = [run EXCEPT !.suppress = @ \/ (HasHandler /\ AlwaysSuppressErrors)]
    /\ Goto("head")
    /\ UNCHANGED <<job, repo, search, handler, app, partialFile>>

\* The commit that was checked out is restored when the process exits.
FixHead ==
    /\ pc = "head"
    /\ \/ Leave(2, "git") /\ IsPullRequestEvent /\ UNCHANGED repo
       \/ /\ FixHeadIfGithubAction
          /\ run' = [run EXCEPT !.undo = IF IsPullRequestEvent THEN repo.head ELSE NoRef]
          /\ Goto("meta")
    /\ UNCHANGED <<job, search, handler, app, partialFile>>

\* For an empty repository the baseline of the command line is left out.  A
\* git command, the event file or .semgrepconfig may be at fault at any time.
GatherMetadata ==
    /\ pc = "meta"
    /\ LET given == job.baseline /\ ~run.empty
           next == Goto(IF HasHandler THEN "start" ELSE "engine") IN
       \/ (BaseWithoutSearch(given) \/ AskGithub(given)) /\ next /\ UNCHANGED run
       \/ /\ FindBranchoffPoint(given) /\ UNCHANGED run
          /\ IF search'.base = NoRef THEN Goto("meta") ELSE next
       \/ Leave(2, "metadata") /\ UNCHANGED metaVars
    /\ UNCHANGED <<job, handler, app, partialFile>>

OpenScan ==
    /\ pc = "start"
    /\ \E outcome \in Outcomes :
         /\ StartScan(outcome, ProjectMetadata(run.empty, search.base))
         /\ CASE outcome = "refused" -> \E code \in {2, 13} : Leave(code, "start")
              [] outcome = "exhausted" -> Leave(2, "start")
              [] OTHER ->
                   IF run.empty THEN Goto("results") /\ UNCHANGED run
                   ELSE IF /\ ~handler'.reply.rules
                           /\ handler'.reply.products \subseteq {"sast", "secrets"}
                   THEN Leave(7, "norules")
                   ELSE Goto("engine") /\ UNCHANGED run
    /\ UNCHANGED <<job, repo, search>>

RunSecrets == job.secrets \/ (~job.oss /\ HasHandler /\ "secrets" \in EnabledProducts)

\* The engine may have to be installed, and that may end the process too.
\* The merge base of the server is preferred to the one found here.
ChooseEngine ==
    /\ pc = "engine"
    /\ \/ job.secrets /\ job.oss /\ Leave(2, "engine")
       \/ ~RunSecrets /\ job.historical /\ Leave(2, "engine")
       \/ ~job.oss /\ \E code \in {2, 13} : Leave(code, "engine")
       \/ /\ ~(job.secrets /\ job.oss)
          /\ job.historical => RunSecrets
          /\ run' = [run EXCEPT !.base =
               IF ~job.baseline /\ HasHandler /\ ProjectMergeBase THEN "app" ELSE search.base]
          /\ Goto("scan")
    /\ UNCHANGED <<job, repo, search, handler, app, partialFile>>

RunScan ==
    /\ pc = "scan"
    /\ LET noProducts == HasHandler /\ EnabledProducts = {} IN
       \/ /\ \E code \in (IF noProducts THEN {2} ELSE ErrorCodes) :
               run' = [run EXCEPT !.raw = code, !.why = "scan"]
          /\ Goto("failed")
       \/ ~noProducts /\ Leave(2, "crash")
       \/ /\ ~noProducts
          /\ \E found \in Found : run' = [run EXCEPT !.found = found]
          /\ Goto("historical")
    /\ UNCHANGED <<job, repo, search, handler, app, partialFile>>

\* The server is told before the output handler runs, since that may raise.
ScanFailed ==
    /\ pc = "failed"
    /\ \/ /\ HasHandler
          /\ \E outcome \in Outcomes :
               /\ ReportFailure(outcome, run.raw)
               /\ IF outcome = "ok" THEN Leave(run.raw, "reported") ELSE Leave(2, "upload")
       \/ ~HasHandler /\ Leave(run.raw, "scan") /\ UNCHANGED appVars
    /\ UNCHANGED <<job, repo, search>>

\* A second scan, of the history, for secrets; its SemgrepErrors are printed
\* and what the first scan found goes on.
HistoricalScan ==
    /\ pc = "historical"
    /\ LET wanted == (RunSecrets /\ HasHandler /\ HistoricalConfig) \/ job.historical IN
       \/ UNCHANGED run /\ Goto("sort")
       \/ /\ wanted /\ search.base = NoRef
          /\ \/ Leave(2, "crash")
             \/ run' = [run EXCEPT !.found = @ \cup {"blocking"}] /\ Goto("sort")
    /\ UNCHANGED <<job, repo, search, handler, app, partialFile>>

Blocking == {"blocking"} \cup (IF HasHandler THEN {} ELSE {"triaged"})

\* Mutant of SortMatches: nothing found, nothing uploaded.
SortMatchesSkips ==
    /\ pc = "sort"
    /\ run' = [run EXCEPT !.suggested = IF run.found \cap Blocking # {} THEN 1 ELSE 0]
    /\ Goto(IF HasHandler THEN (IF run.found = {} THEN "complete" ELSE "results") ELSE "verdict")
    /\ UNCHANGED <<job, repo, search, handler, app, partialFile>>

\* Matches of the previous scan's rules are set aside, then those triaged on
\* semgrep.dev, then the internal rules'.
SortMatches ==
    /\ pc = "sort"
    /\ run' = [run EXCEPT !.suggested =
                 IF run.found \cap Blocking # {} THEN 1 ELSE 0]
    /\ Goto(IF HasHandler THEN "results" ELSE "verdict")
    /\ UNCHANGED <<job, repo, search, handler, app, partialFile>>

UploadFindings ==
    /\ pc = "results"
    /\ \E outcome \in Outcomes :
         /\ SendResults(outcome)
         /\ IF outcome # "ok" THEN Leave(2, "upload")
            ELSE UNCHANGED run /\ Goto(IF handler.dry THEN "verdict" ELSE "complete")
    /\ UNCHANGED <<job, repo, search>>

PollComplete ==
    /\ pc = "complete"
    /\ \E outcome \in Outcomes, answer \in Answers, took \in {0, 1} :
         /\ SendComplete(outcome, answer, took)
         /\ IF outcome # "ok" THEN Leave(2, "upload")
            ELSE UNCHANGED run /\ Goto(IF PollEnds' THEN "verdict" ELSE "complete")
    /\ UNCHANGED <<job, repo, search>>

AppPolicyBlock == HasHandler /\ handler.answer.override /\ handler.answer.ids
AppOtherBlock == HasHandler /\ handler.answer.override /\ handler.answer.reason

Verdict ==
    /\ pc = "verdict"
    /\ IF run.empty /\ HasHandler THEN Leave(0, "empty")
       ELSE LET block == run.suggested = 1 \/ AppPolicyBlock \/ AppOtherBlock
            IN Leave(IF block /\ ~job.audit THEN 1 ELSE 0, "verdict")
    /\ UNCHANGED <<job, repo, search, handler, app, partialFile>>

\* Mutant of HandleCommandErrors: suppression replaces every code.
SuppressEverything ==
    /\ pc = "wrapper"
    /\ run' = [run EXCEPT !.exit = IF run.suppress THEN 0 ELSE run.raw]
    /\ Goto("atexit")
    /\ UNCHANGED <<job, repo, search, handler, app, partialFile>>

\* Exit codes 0 and 1 are never replaced; the others are when errors are
\* suppressed, whatever ended the command.
HandleCommandErrors ==
    /\ pc = "wrapper"
    /\ run' = [run EXCEPT !.exit =
                 IF ~run.suppress \/ run.raw \in {0, 1} THEN run.raw ELSE 0]
    /\ Goto("atexit")
    /\ UNCHANGED <<job, repo, search, handler, app, partialFile>>

RestoreHead ==
    /\ pc = "atexit"
    /\ \/ /\ run.undo # NoRef
          /\ repo' = [repo EXCEPT !.head = run.undo]
          /\ run' = [run EXCEPT !.undo = NoRef]
       \/ UNCHANGED <<repo, run>>              \* nothing to undo, or git failed
    /\ Goto("exited")
    /\ UNCHANGED <<job, search, handler, app, partialFile>>

Next ==
    \/ ValidateFlags \/ CheckEmptyRepo \/ AdminSuppression \/ FixHead
    \/ GatherMetadata \/ OpenScan \/ ChooseEngine \/ RunScan \/ ScanFailed
    \/ HistoricalScan \/ SortMatches \/ UploadFindings \/ PollComplete
    \/ Verdict \/ HandleCommandErrors \/ RestoreHead

\* The process runs on by itself; every command and request it waits for has
\* a timeout.
Spec == Init /\ [][Next]_vars /\ WF_vars(Next)

-----------------------------------------------------------------------------

\* A run exits 0 only when errors are suppressed and it ended in one, when it
\* took the repository for an empty one, or when nothing blocks: no finding of
\* a blocking rule that is not triaged, and no block decided by the server
\* (SortMatches and Verdict of ci.py, ErrorHandler.send).
CleanExitIsEarned ==
    pc = "exited" /\ run.exit = 0 =>
        \/ run.raw >= 2 /\ run.suppress
        \/ run.why = "empty" /\ run.empty
        \/ /\ run.why = "verdict"
           /\ \/ job.audit
              \/ /\ "blocking" \notin run.found
                 /\ "triaged" \in run.found => HasHandler
                 /\ ~AppPolicyBlock /\ ~AppOtherBlock

\* When a run that is not dry reaches its verdict, the server has granted the
\* completion or has been told that nobody will ask again; when a scan failed
\* and that was reported, the server has the exit code; and the partial output
\* says the same (scans.py, report_findings and report_failure).
EndIsTold ==
    pc = "exited" /\ HasHandler =>
        /\ run.why = "verdict" /\ ~handler.dry =>
              \/ app.scan \in {"completing", "final"} /\ handler.answer.success
              \/ app.scan = "final"
        /\ run.why = "reported" /\ ~handler.dry => app.scan = "failed" /\ app.code = run.raw
        /\ handler.partial =>
              CASE run.why \in {"verdict", "empty"} -> partialFile = "findings"
                [] run.why = "reported" -> partialFile = "failure"
                [] OTHER -> partialFile = "none"

\* The commit semgrep.dev is told is the one checked out when the scan runs,
\* unless the user named a commit (meta.py, commit_sha; ci.py,
\* fix_head_if_github_action).
ReportedCommitIsScanned ==
    pc = "scan" /\ HasHandler => app.project.commit \in {repo.head, "user", NoRef}

\* A baseline found by the search is present in the shallow clone when the scan
\* starts, so that it can be checked out (meta.py, _find_branchoff_point).
BaselineIsLocal ==
    pc = "scan" /\ run.base = "fork" => "fork" \in repo.commits

\* semgrep.dev sees what AppProtocol allows.
Protocol == INSTANCE AppProtocol WITH scan <- app.scan
KeepsProtocol == Protocol!Spec

\* Every run ends: the search for the merge base and the poll of the server
\* are both bounded (meta.py, MAX_FETCH_ATTEMPT_COUNT; scans.py, try_until).
Terminates == <>(pc = "exited")

\* ci.py: "For account admins to force suppressing errors. This overrides the
\* CLI flag!"
AdminSuppressionHonoured ==
    pc = "exited" /\ AlwaysSuppressErrors /\ run.raw >= 2 => run.exit = 0
=============================================================================
