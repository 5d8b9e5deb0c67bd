------------------------------ MODULE ScanRun ------------------------------
(***************************************************************************)
(* One `semgrep scan` (semgrep/commands/scan.py, run_scan.py, output.py):  *)
(* the rules are loaded, semgrep-core is run on the files of the head,     *)
(* again on the files of the baseline when there is one, each time         *)
(* followed by the join rules, the findings both runs agree on are         *)
(* removed, then those with a nosemgrep comment, fixes are applied, and    *)
(* the outputs and the exit code tell the result.                          *)
(*                                                                         *)
(* The project: a file "new", which may be the file "old" of the baseline  *)
(* renamed, and a file "added" since.  A finding is the n-th match of one  *)
(* rule for the same code in a file (rule_match.py, `index`).              *)
(***************************************************************************)
EXTENDS CoreRun, BaselineCheckout, JoinRule

CONSTANT Jobs   \* command lines and projects a scan may start with

ASSUME ScanJobs ==
    \A j \in Jobs :
        /\ {j.head, j.base, j.added} \subseteq Nat /\ j.absolute \in BOOLEAN
        /\ IsFiniteSet(j.hits)
        /\ j.joins \in Seq(ToSet(j.joins)) /\ \A r \in ToSet(j.joins) : r.on \in Seq(ToSet(r.on))

VARIABLES pc, job, run

scanVars == <<pc, run>>
vars == <<pc, job, run, core, reader, tree, join>>

\* The errors that were seen, and the last that is kept.
NoErrors == [seen |-> {}, last |-> [level |-> "none", about |-> "none"]]

\* handle_semgrep_errors: an error that was seen is not kept twice.
Handled(errs, more) ==
    LET kept == {i \in DOMAIN more : /\ more[i] \notin errs.seen
                                     /\ \A j \in 1..i - 1 : more[j] # more[i]}
    IN  [seen |-> errs.seen \cup {more[i] : i \in DOMAIN more},
         last |-> IF kept = {} THEN errs.last
                  ELSE more[CHOOSE i \in kept : \A j \in kept : j <= i]]

ExitCodeOf(level) == CASE level = "info" -> 0 [] level = "warn" -> 3 [] OTHER -> 2

Init ==
    /\ job \in Jobs
    /\ pc = "flags"
    /\ run = [pass |-> "head", matches |-> {}, base |-> {}, lost |-> {}, errs |-> NoErrors,
              kept |-> {}, fixed |-> {}, more |-> <<>>, fault |-> FALSE, why |-> "none", exit |-> 0]
    /\ join = NoJoin
    /\ core = NoCore /\ reader = NoReader
    /\ tree = AtHead

Goto(l) == pc' = l
Leave(code, why) == pc' = "exited" /\ run' = [run EXCEPT !.exit = code, !.why = why]
\* An exception in the baseline's context has to pass its clean-up.
Raise(code, why) == IF run.pass = "base"
                    THEN pc' = "leave" /\ run' = [run EXCEPT !.fault = TRUE]
                    ELSE Leave(code, why)

-----------------------------------------------------------------------------
\* The project.

HeadCount(name) == CASE name = "new" -> job.head [] name = "added" -> job.added [] OTHER -> 0
BaseName == IF job.renamed THEN "old" ELSE "new"
BaseCount(name) == IF name = BaseName THEN job.base ELSE 0
Names(commit) == IF commit = "head" THEN {"new", "added"} ELSE {BaseName}
Count(commit, name) == IF commit = "head" THEN HeadCount(name) ELSE BaseCount(name)

Added == {"added"} \cup (IF job.renamed THEN {"new"} ELSE {})
Renamed(name) == IF job.renamed /\ name = "new" THEN "old" ELSE name

\* A path is as the command line gave it: an absolute one leads to the
\* repository wherever the process is.
Path(name) == [name |-> name, abs |-> job.absolute]
CommitAt(path) == IF path.abs \/ tree.cwd = "repo" THEN tree.head ELSE "base"
Found(path) == [path : {path}, index : 1..Count(CommitAt(path), path.name)]

\* Only the first match of "new" carries a nosemgrep comment, if any does.
IsIgnored(m) == job.nosem /\ m.path.name = "new" /\ m.index = 1

-----------------------------------------------------------------------------

\* Contradictory flags, secrets without the pro engine, a pattern without a
\* language.
CheckFlags ==
    /\ pc = "flags"
    /\ \/ Leave(2, "flags")
       \/ Goto(IF job.mode = "validate" THEN "validate" ELSE "load") /\ UNCHANGED run
    /\ UNCHANGED <<job, coreVars, tree, join>>

\* The rules are loaded, then checked by semgrep-core; its failure is one more
\* configuration error.
Validate ==
    /\ pc = "validate"
    /\ \E errors \in BOOLEAN : IF errors THEN Leave(2, "invalid") ELSE Leave(0, "valid")
    /\ UNCHANGED <<job, coreVars, tree, join>>

\* A config that cannot be fetched or read ends the scan, an error in one only
\* when no rule comes from the command line or the run is strict.
LoadRules ==
    /\ pc = "load"
    /\ \/ \E code \in {2, 4, 5, 7} : Leave(code, "config")
       \/ \E errs \in {<<>>, <<"warn">>, <<"error">>} :
            IF "error" \in ToSet(errs) /\ (~job.pattern \/ job.strict)
            THEN Leave(7, "config")
            ELSE /\ run' = [run EXCEPT !.errs = Handled(@, [i \in DOMAIN errs |->
                                                   [level |-> errs[i], about |-> "config"]])]
                 /\ Goto("targets")
    /\ UNCHANGED <<job, coreVars, tree, join>>

\* The baseline commit is looked up and compared to the index, then the
\* scanning roots are checked; --x-ls ends here.
FindTargets ==
    /\ pc = "targets"
    /\ \/ job.baseline /\ Leave(2, "baseline")
       \/ Leave(2, "root")
       \/ job.mode = "ls" /\ Leave(0, "ls")
       \/ job.mode # "ls" /\ Goto("prepare") /\ UNCHANGED run
    /\ UNCHANGED <<job, coreVars, tree, join>>

\* The engine may be missing, need a login or refuse several roots.
PrepareCore ==
    /\ pc = "prepare"
    /\ \/ Raise(2, "engine") /\ UNCHANGED coreVars
       \/ job.mode = "dump" /\ Leave(0, "dump") /\ UNCHANGED coreVars
       \/ job.mode = "scan" /\ StartCore /\ Goto("core") /\ UNCHANGED run
    /\ UNCHANGED <<job, tree, join>>

CoreRuns == pc = "core" /\ CoreStep(job.interfile) /\ UNCHANGED <<pc, job, run, tree, join>>

BaselineTargets ==
    ({m.path : m \in run.matches}
       \cup (IF job.renamed THEN {[name |-> "old", abs |-> FALSE]} ELSE {}))
    \ {[name |-> n, abs |-> FALSE] : n \in Added}

Scanned == IF run.pass = "head" THEN {Path(n) : n \in Names("head")}
           ELSE {t \in BaselineTargets : t.name \in Names(CommitAt(t))}

Lost(pass, paths) == [pass : {pass}, path : paths]

AfterRun == IF run.pass = "base" THEN "remove"
            ELSE IF job.baseline THEN "select" ELSE "filter"

\* The findings of a file the process reports an error about may be missing.
CoreDone ==
    /\ pc = "core" /\ OutputsHandled
    /\ \/ CoreFailed /\ Raise(2, "core") /\ UNCHANGED join
       \/ /\ CoreAnswered
          /\ \E levels \in {<<>>, <<"warn">>, <<"info">>, <<"warn", "info">>, <<"error">>} :
             \E lost \in SUBSET (IF levels \in {<<>>, <<"info">>} THEN {} ELSE Scanned) :
               LET matches == UNION {Found(p) : p \in Scanned \ lost}
                   more == [i \in DOMAIN levels |-> [level |-> levels[i], about |-> run.pass]]
                   seen == IF run.pass = "head"
                           THEN [run EXCEPT !.matches = matches, !.lost = Lost("head", lost)]
                           ELSE [run EXCEPT !.base = matches, !.lost = @ \cup Lost("base", lost)]
               IN IF job.joins = <<>>
                  THEN run' = [seen EXCEPT !.errs = Handled(@, more)] /\ Goto(AfterRun)
                  ELSE run' = [seen EXCEPT !.more = more] /\ Goto("join")
          /\ join' = [NoJoin EXCEPT !.n = 1]
    /\ Reaped
    /\ UNCHANGED <<job, tree>>

JoinRuns ==
    /\ pc = "join" /\ JoinStep(job.joins, job.hits)
    /\ UNCHANGED <<pc, job, run, coreVars, tree>>

\* The findings of the k-th join rule are not those of another rule, whatever
\* file they are in.
JoinMatches ==
    UNION {{[path |-> [name |-> "join", abs |-> FALSE], index |-> k, id |-> id] :
              id \in join.found[k].ids} : k \in DOMAIN join.found}

\* The errors of the join rules are handled before those of the run.
JoinsEnd ==
    /\ pc = "join"
    /\ \/ JoinRaised /\ Raise(2, "join")
       \/ /\ ~JoinRaised /\ JoinsDone(job.joins)
          /\ LET told == [i \in DOMAIN join.told |-> [level |-> "error", about |-> "join"]]
                 errs == Handled(Handled(run.errs, told), run.more)
             IN run' = IF run.pass = "head"
                       THEN [run EXCEPT !.matches = @ \cup JoinMatches, !.errs = errs]
                       ELSE [run EXCEPT !.base = @ \cup JoinMatches, !.errs = errs]
          /\ Goto(AfterRun)
    /\ UNCHANGED <<job, coreVars, tree, join>>

\* No baseline run without a finding, nor when every finding is in a file that
\* was added; then git is asked for the log and the merge base.
SelectBaseline ==
    /\ pc = "select"
    /\ IF run.matches = {} \/ BaselineTargets = {}
       THEN Goto("filter") /\ UNCHANGED run
       ELSE \/ Leave(2, "git")
            \/ run' = [run EXCEPT !.pass = "base"] /\ Goto(IF job.dirty THEN "worktree" ELSE "reset")
    /\ UNCHANGED <<job, coreVars, tree, join>>

ResetToBase ==
    /\ pc = "reset"
    /\ EnterReset
    /\ IF tree'.head = "base" THEN Goto("prepare") /\ UNCHANGED run
       ELSE Goto("leave") /\ run' = [run EXCEPT !.fault = TRUE]
    /\ UNCHANGED <<job, coreVars, join>>

\* The directory of a scan started in a sub-directory does not exist in the
\* new worktree, which has no files yet.
OpenWorktree ==
    /\ pc = "worktree"
    /\ \/ AddWorktreeFails /\ Goto("leave") /\ run' = [run EXCEPT !.fault = TRUE]
       \/ AddWorktree /\ job.subdir /\ Goto("leave") /\ run' = [run EXCEPT !.fault = TRUE]
       \/ AddWorktree /\ ~job.subdir /\ Goto("chdir") /\ UNCHANGED run
    /\ UNCHANGED <<job, coreVars, join>>

CheckoutWorktree ==
    /\ pc = "chdir"
    /\ ChangeDirectory
    /\ \/ Goto("leave") /\ run' = [run EXCEPT !.fault = TRUE]
       \/ Goto("prepare") /\ UNCHANGED run
    /\ UNCHANGED <<job, coreVars, join>>

Relative(path) == IF tree.cwd = "repo" THEN [path EXCEPT !.abs = FALSE] ELSE path
\* Mutant of HeadKey: renames are forgotten.
HeadKeyPlain(m) == [m EXCEPT !.path = Relative(@)]

\* get_path_changed_ci_unique_key and ci_unique_key.
HeadKey(m) ==
    LET p == Relative(m.path)
    IN [m EXCEPT !.path = IF p.abs THEN p ELSE [p EXCEPT !.name = Renamed(@)]]

BaseKey(m) == [m EXCEPT !.path = Relative(@)]

RemoveMatches ==
    /\ pc = "remove"
    /\ run' = [run EXCEPT !.matches =
                 {m \in @ : HeadKey(m) \notin {BaseKey(b) : b \in run.base}}]
    /\ Goto("leave")
    /\ UNCHANGED <<job, coreVars, tree, join>>

\* Whatever happened in the context is a SemgrepError once it is left.
LeaveBaseline ==
    /\ pc = "leave"
    /\ IF job.dirty THEN LeaveWorktree ELSE LeaveReset
    /\ IF run.fault \/ tree'.stuck = "reset" THEN Leave(2, "baseline")
       ELSE Goto("filter") /\ UNCHANGED run
    /\ UNCHANGED <<job, coreVars, join>>

\* One output that keeps ignored findings makes all of them keep them.
FilterIgnored ==
    /\ pc = "filter"
    /\ run' = [run EXCEPT !.kept = {m \in run.matches : job.keep \/ ~IsIgnored(m)}]
    /\ Goto("fix")
    /\ UNCHANGED <<job, coreVars, tree, join>>

\* The fixes are applied by a second process; that it failed is only logged.
ApplyFixes ==
    /\ pc = "fix"
    /\ \/ job.autofix /\ ~job.dryrun /\ run' = [run EXCEPT !.fixed = run.kept]
       \/ UNCHANGED run
    /\ Goto("output")
    /\ UNCHANGED <<job, coreVars, tree, join>>

\* Mutant of Verdict: an error that is no finding decides first.
VerdictErrorsFirst ==
    IF run.errs.seen # {} THEN ExitCodeOf(run.errs.last.level)
    ELSE IF job.error /\ \E m \in run.kept : ~IsIgnored(m) THEN 1 ELSE 0

\* The last error decides, and only when it is of level error or when the run
\* is strict.
Verdict ==
    IF job.error /\ \E m \in run.kept : ~IsIgnored(m) THEN 1
    ELSE IF run.errs.seen # {} /\ (run.errs.last.level = "error" \/ job.strict)
    THEN ExitCodeOf(run.errs.last.level)
    ELSE 0

WriteOutputs ==
    /\ pc = "output"
    /\ \/ Leave(2, "post")                      \* an output is sent to a URL
       \/ Leave(Verdict, "output")
    /\ UNCHANGED <<job, coreVars, tree, join>>

Next ==
    \/ CheckFlags \/ Validate \/ LoadRules \/ FindTargets
    \/ PrepareCore \/ CoreRuns \/ CoreDone \/ JoinRuns \/ JoinsEnd \/ SelectBaseline \/ ResetToBase
    \/ OpenWorktree \/ CheckoutWorktree \/ RemoveMatches \/ LeaveBaseline
    \/ FilterIgnored \/ ApplyFixes \/ WriteOutputs

\* Processes run on by themselves; every git command has a timeout, and
\* semgrep-core its own time limits.
Spec == Init /\ [][Next]_vars /\ WF_vars(Next)
-----------------------------------------------------------------------------

\* What the process reports counts only when it wrote the whole document and
\* ended by itself: a process that dies after some progress, whatever it had
\* written, never yields a result, an empty one included (core_runner.py).
ResultsAreVouched ==
    [][(pc = "core" /\ pc' \in {"join", "select", "filter", "remove"})
         => core.wrote = "json" /\ core.rc = 0 /\ core.pipe = <<>>]_vars

\* However a scan ends, the repository is at its commit and the process in its
\* directory, nothing is left of the temporary directory, and a worktree is
\* left registered only if the command that removes it failed; the same holds
\* of the reset (git.py, baseline_context).
RepositoryRestored ==
    pc = "exited" =>
        /\ tree.cwd = "repo" /\ ~tree.tmp
        /\ tree.head = "head" \/ tree.stuck = "reset"
        /\ tree.worktree => tree.stuck = "worktree"

\* The n-th finding of a file is new when the file it was in the baseline has
\* fewer than n (run_scan.py, remove_matches_in_baseline).
IsNew(m) == m.index > BaseCount(Renamed(m.path.name))

\* A diff scan in which no file was in error reports the new findings, all of
\* them and no other, when the scanning root is relative or the repository is
\* clean.
ReportsWhatIsNew ==
    LET matches == UNION {[path : {Path(n)}, index : 1..HeadCount(n)] : n \in Names("head")}
    IN  pc = "exited" /\ run.why = "output" /\ job.baseline /\ run.lost = {}
          /\ (job.absolute => ~job.dirty) =>
            {m \in run.kept : m.path.name \in Names("head")} =
                {m \in matches : IsNew(m) /\ (job.keep \/ ~IsIgnored(m))}

\* A scan that exits 0 is not silent about a finding: each match of the head is
\* in the report, in the baseline too, ignored by a comment, or in a file about
\* which an error was reported; and with --error what is left is ignored.
CleanExitHidesNothing ==
    pc = "exited" /\ run.exit = 0 /\ run.why = "output" /\ (job.absolute => ~job.dirty) =>
        /\ \A n \in Names("head") : \A i \in 1..HeadCount(n) :
             LET m == [path |-> Path(n), index |-> i] IN
             \/ m \in run.kept \/ IsIgnored(m)
             \/ job.baseline /\ ~IsNew(m)
             \/ /\ [pass |-> "head", path |-> Path(n)] \in run.lost
                /\ \E e \in run.errs.seen : e.about = "head" /\ e.level # "info"
        /\ job.baseline \/ JoinMatches \subseteq run.kept
        /\ job.error => \A m \in run.kept : IsIgnored(m)

\* Fixes are written when the head is checked out, and never for a finding that
\* was removed as old or as ignored (autofix.py).
FixesTheReported ==
    [][run'.fixed # run.fixed =>
         /\ tree.head = "head" /\ tree.cwd = "repo"
         /\ run'.fixed \subseteq run.kept
         /\ \A m \in run'.fixed : job.keep \/ ~IsIgnored(m)]_vars

\* A join rule reports what its conditions say of the findings of its own
\* references, chains of any length included: rows, columns and the database
\* of an earlier rule make no difference (join_rule.py).
JoinIsExact ==
    pc = "join" /\ join.at = "refs" /\ join.found # <<>> =>
        LET r == job.joins[Len(join.found)] IN
        r.parses /\ OneChain(r) => Last(join.found).ids = Meant(r, Last(join.found).of)

\* join_rule.py:522, "reconstitute errors after they've been JSONified as
\* output": an error of the scan of its references is reported by the rule.
InnerErrorsKept ==
    \A k \in DOMAIN join.found : join.found[k].errs \subseteq ToSet(join.told)
=============================================================================
