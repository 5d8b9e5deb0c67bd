--------------------------- MODULE ScanRunProofs ----------------------------
(***************************************************************************)
(* What holds of every `semgrep scan`, whatever the command line, the      *)
(* project and the behaviour of semgrep-core: where the repository and the *)
(* process stand at each place of the scan, what a result of semgrep-core  *)
(* was read from, which findings a diff scan is left with, and what a join *)
(* rule reports.                                                           *)
(***************************************************************************)
EXTENDS ScanRun, FiniteSetTheorems, WellFoundedInduction, TLAPS

Places == {"flags", "validate", "load", "targets", "prepare", "core", "join", "select", "reset",
           "worktree", "chdir", "remove", "leave", "filter", "fix", "output", "exited"}
IsRun(r) == r \in [pass : {"head", "base"}, matches : {r.matches}, base : {r.base},
                   lost : {r.lost}, errs : {r.errs}, kept : {r.kept}, fixed : {r.fixed},
                   more : {r.more}, fault : BOOLEAN, why : {r.why}, exit : {r.exit}]
Trees == [head : {"head", "base"}, cwd : {"repo", "tmp"}, tmp : BOOLEAN, worktree : BOOLEAN,
          stuck : {"none", "reset", "worktree"}]

TypeOK == pc \in Places /\ IsRun(run) /\ tree \in Trees

InBaseline == run.pass = "base" /\ pc \in {"prepare", "core", "join", "remove"}
Restored == /\ tree.cwd = "repo" /\ ~tree.tmp
            /\ tree.head = "head" \/ (pc = "exited" /\ tree.stuck = "reset")
            /\ tree.worktree => tree.stuck = "worktree"

(* Where the repository and the process stand at each place of the scan.   *)
Standing ==
    /\ run.pass = "head" => tree = AtHead
    /\ pc \in {"reset", "worktree"} => tree = AtHead
    /\ pc = "chdir" => tree = [AtHead EXCEPT !.tmp = TRUE, !.worktree = TRUE]
    /\ InBaseline => tree = IF job.dirty
                            THEN [head |-> "head", cwd |-> "tmp", tmp |-> TRUE,
                                  worktree |-> TRUE, stuck |-> "none"]
                            ELSE [AtHead EXCEPT !.head = "base"]
    /\ pc = "leave" => /\ tree.stuck = "none"
                       /\ IF job.dirty THEN tree.head = "head"
                          ELSE tree.cwd = "repo" /\ ~tree.tmp /\ ~tree.worktree
    /\ pc \in {"filter", "fix", "output", "exited"} => Restored

(* The baseline pass begins after the head's and is left by its clean-up;  *)
(* only a scan that is not a dump gets there.                              *)
Passes ==
    /\ pc \in {"flags", "validate", "load", "targets", "select"} => run.pass = "head"
    /\ pc \in {"reset", "worktree", "chdir", "remove", "leave"} => run.pass = "base"
    /\ pc \in {"reset", "worktree", "chdir"} => (job.dirty <=> pc # "reset")
    /\ run.pass = "base" \/ pc \in {"core", "join", "select"} => job.mode = "scan"

TreeInv == TypeOK /\ Standing /\ Passes

USE DEF Places, AtHead, InBaseline, Goto

-----------------------------------------------------------------------------
(* The repository.                                                         *)

LEMMA LeaveEffect ==
  ASSUME IsRun(run), NEW code, NEW why, Leave(code, why)
  PROVE  /\ pc' = "exited" /\ IsRun(run') /\ run'.pass = run.pass /\ run'.fault = run.fault
         /\ run'.exit = code /\ run'.why = why
         /\ run'.matches = run.matches /\ run'.base = run.base /\ run'.lost = run.lost
         /\ run'.kept = run.kept /\ run'.fixed = run.fixed
         /\ run'.errs = run.errs /\ run'.more = run.more
<1> DEFINE r == [run EXCEPT !.exit = code]
<1>1. IsRun(r) /\ run' = [r EXCEPT !.why = why] /\ pc' = "exited" /\ r.exit = code
  BY DEF Leave, IsRun
<1>2. /\ r.pass = run.pass /\ r.fault = run.fault /\ r.matches = run.matches
      /\ r.base = run.base /\ r.lost = run.lost /\ r.kept = run.kept /\ r.fixed = run.fixed
      /\ r.errs = run.errs /\ r.more = run.more
  BY DEF IsRun
<1> HIDE DEF r
<1>3. IsRun(run') /\ run'.why = why /\ run'.exit = r.exit
  BY <1>1 DEF IsRun
<1>4. /\ run'.pass = r.pass /\ run'.fault = r.fault /\ run'.matches = r.matches
      /\ run'.base = r.base /\ run'.lost = r.lost /\ run'.kept = r.kept /\ run'.fixed = r.fixed
      /\ run'.errs = r.errs /\ run'.more = r.more
  BY <1>1 DEF IsRun
<1> QED BY <1>1, <1>2, <1>3, <1>4

(* A scan may be left wherever the repository is as it was.                *)
LEMMA ExitKeepsTree ==
  ASSUME TreeInv, NEW code, NEW why, Leave(code, why), UNCHANGED <<job, tree>>,
         run.pass = "head" \/ pc \in {"output"}
  PROVE  TreeInv'
<1> run.pass = "head" => tree = AtHead
  BY DEF TreeInv, Standing
<1>1. TypeOK'
  BY LeaveEffect DEF TreeInv, TypeOK
<1>2. Standing'
  BY LeaveEffect DEF TreeInv, TypeOK, Standing, Restored
<1>3. Passes'
  BY LeaveEffect DEF TreeInv, TypeOK, Passes
<1> QED BY <1>1, <1>2, <1>3 DEF TreeInv

(* A step that neither moves the tree nor changes the pass keeps it.       *)
LEMMA MoveKeepsTree ==
  ASSUME TreeInv, NEW l \in Places, pc' = l, IsRun(run'), run'.pass = run.pass,
         UNCHANGED <<job, tree>>,
         \/ run.pass = "head" /\ l \in {"validate", "load", "targets", "prepare", "filter"}
         \/ job.mode = "scan" /\ pc = "prepare" /\ l = "core"
         \/ pc \in {"core", "join"} /\ l \in {"core", "join"}
         \/ pc \in {"core", "join"} /\ run.pass = "head" /\ l = "select"
         \/ pc \in {"core", "join"} /\ run.pass = "base" /\ l = "remove"
         \/ pc \in {"prepare", "core", "join", "remove"} /\ run.pass = "base" /\ l = "leave"
         \/ pc = "filter" /\ l = "fix"
         \/ pc = "fix" /\ l = "output"
         \/ pc = l
  PROVE  TreeInv'
<1>1. TypeOK'
  BY DEF TreeInv, TypeOK
<1>2. Standing'
  BY DEF TreeInv, Standing, Restored
<1>3. Passes'
  BY DEF TreeInv, Passes
<1> QED BY <1>1, <1>2, <1>3 DEF TreeInv

LEMMA InitTree == Init => TreeInv
<1> SUFFICES ASSUME Init PROVE TreeInv
  OBVIOUS
<1>1. TypeOK
  BY DEF Init, TypeOK, IsRun, Trees
<1>2. Standing /\ Passes
  BY DEF Init, Standing, Passes, Restored
<1> QED BY <1>1, <1>2 DEF TreeInv

LEMMA RaiseKeepsTree ==
  ASSUME TreeInv, pc \in {"prepare", "core", "join"}, NEW code, NEW why, Raise(code, why),
         UNCHANGED <<job, tree>>
  PROVE  TreeInv'
<1>1. CASE run.pass = "base"
  <2>1. pc' = "leave" /\ run' = [run EXCEPT !.fault = TRUE]
    BY <1>1 DEF Raise
  <2>2. IsRun(run') /\ run'.pass = run.pass
    BY <2>1 DEF TreeInv, TypeOK, IsRun
  <2> QED BY <1>1, <2>1, <2>2, MoveKeepsTree
<1>2. CASE run.pass = "head"
  <2> Leave(code, why)
    BY <1>2 DEF Raise
  <2> QED BY <1>2, ExitKeepsTree
<1> QED BY <1>1, <1>2 DEF TreeInv, TypeOK, IsRun

LEMMA CheckFlagsTree == TreeInv /\ CheckFlags => TreeInv'
<1> SUFFICES ASSUME TreeInv, CheckFlags PROVE TreeInv'
  OBVIOUS
<1>0. pc = "flags" /\ UNCHANGED <<job, tree>> /\ run.pass = "head" /\ IsRun(run)
  BY DEF CheckFlags, TreeInv, TypeOK, Passes
<1>1. CASE Leave(2, "flags")
  BY <1>0, <1>1, ExitKeepsTree
<1>2. CASE UNCHANGED run /\ pc' \in {"validate", "load"}
  BY <1>0, <1>2, MoveKeepsTree
<1> QED BY <1>1, <1>2 DEF CheckFlags

LEMMA ValidateTree == TreeInv /\ Validate => TreeInv'
<1> SUFFICES ASSUME TreeInv, Validate PROVE TreeInv'
  OBVIOUS
<1>0. pc = "validate" /\ UNCHANGED <<job, tree>> /\ run.pass = "head"
  BY DEF Validate, TreeInv, Passes
<1>1. Leave(2, "invalid") \/ Leave(0, "valid")
  BY DEF Validate
<1> QED BY <1>0, <1>1, ExitKeepsTree

LEMMA LoadRulesTree == TreeInv /\ LoadRules => TreeInv'
<1> SUFFICES ASSUME TreeInv, LoadRules PROVE TreeInv'
  OBVIOUS
<1>0. pc = "load" /\ UNCHANGED <<job, tree>> /\ run.pass = "head" /\ IsRun(run)
  BY DEF LoadRules, TreeInv, TypeOK, Passes
<1>1. ASSUME NEW code, Leave(code, "config") PROVE TreeInv'
  BY <1>0, <1>1, ExitKeepsTree
<1>2. ASSUME NEW errs, run' = [run EXCEPT !.errs = errs], pc' = "targets" PROVE TreeInv'
  <2> IsRun(run') /\ run'.pass = run.pass
    BY <1>0, <1>2 DEF IsRun
  <2> QED BY <1>0, <1>2, MoveKeepsTree
<1> QED BY <1>1, <1>2 DEF LoadRules

LEMMA FindTargetsTree == TreeInv /\ FindTargets => TreeInv'
<1> SUFFICES ASSUME TreeInv, FindTargets PROVE TreeInv'
  OBVIOUS
<1>0. pc = "targets" /\ UNCHANGED <<job, tree>> /\ run.pass = "head" /\ IsRun(run)
  BY DEF FindTargets, TreeInv, TypeOK, Passes
<1>1. ASSUME NEW code, NEW why, Leave(code, why) PROVE TreeInv'
  BY <1>0, <1>1, ExitKeepsTree
<1>2. CASE UNCHANGED run /\ pc' = "prepare"
  BY <1>0, <1>2, MoveKeepsTree
<1> QED BY <1>1, <1>2 DEF FindTargets

LEMMA PrepareCoreTree == TreeInv /\ PrepareCore => TreeInv'
<1> SUFFICES ASSUME TreeInv, PrepareCore PROVE TreeInv'
  OBVIOUS
<1>0. /\ pc = "prepare" /\ UNCHANGED <<job, tree>> /\ IsRun(run)
      /\ run.pass = "base" => job.mode = "scan"
  BY DEF PrepareCore, TreeInv, TypeOK, Passes
<1>1. CASE Raise(2, "engine")
  BY <1>0, <1>1, RaiseKeepsTree
<1>2. CASE job.mode = "dump" /\ Leave(0, "dump")
  BY <1>0, <1>2, ExitKeepsTree DEF IsRun
<1>3. CASE job.mode = "scan" /\ pc' = "core" /\ UNCHANGED run
  BY <1>0, <1>3, MoveKeepsTree
<1> QED BY <1>1, <1>2, <1>3 DEF PrepareCore

LEMMA CoreDoneTree == TreeInv /\ CoreDone => TreeInv'
<1> SUFFICES ASSUME TreeInv, CoreDone PROVE TreeInv'
  OBVIOUS
<1>0. pc = "core" /\ UNCHANGED <<job, tree>> /\ IsRun(run)
  BY DEF CoreDone, TreeInv, TypeOK
<1>1. CASE Raise(2, "core")
  BY <1>0, <1>1, RaiseKeepsTree
<1>2. ASSUME IsRun(run'), run'.pass = run.pass, pc' \in {AfterRun, "join"} PROVE TreeInv'
  BY <1>0, <1>2, MoveKeepsTree DEF AfterRun, IsRun
<1>3. ASSUME NEW levels, NEW lost, CoreAnswered,
        LET matches == UNION {Found(p) : p \in Scanned \ lost}
            more == [i \in DOMAIN levels |-> [level |-> levels[i], about |-> run.pass]]
            seen == IF run.pass = "head"
                    THEN [run EXCEPT !.matches = matches, !.lost = Lost("head", lost)]
                    ELSE [run EXCEPT !.base = matches, !.lost = @ \cup Lost("base", lost)]
        IN IF job.joins = <<>>
           THEN run' = [seen EXCEPT !.errs = Handled(@, more)] /\ Goto(AfterRun)
           ELSE run' = [seen EXCEPT !.more = more] /\ Goto("join")
      PROVE  TreeInv'
  <2> DEFINE matches == UNION {Found(p) : p \in Scanned \ lost}
             more == [i \in DOMAIN levels |-> [level |-> levels[i], about |-> run.pass]]
             headLost == Lost("head", lost)
             baseLost == run.lost \cup Lost("base", lost)
             headRun == [run EXCEPT !.matches = matches, !.lost = headLost]
             baseRun == [run EXCEPT !.base = matches, !.lost = baseLost]
             seen == IF run.pass = "head" THEN headRun ELSE baseRun
             errs == Handled(seen.errs, more)
  <2>1. \/ run' = [seen EXCEPT !.errs = errs] /\ pc' = AfterRun
        \/ run' = [seen EXCEPT !.more = more] /\ pc' = "join"
    BY <1>3 DEF IsRun
  <2> HIDE DEF matches, more, headLost, baseLost, errs
  <2>2. IsRun(headRun) /\ headRun.pass = run.pass
    <3> DEFINE r == [run EXCEPT !.matches = matches]
    <3>1. IsRun(r) /\ r.pass = run.pass /\ headRun = [r EXCEPT !.lost = headLost]
      BY <1>0 DEF IsRun
    <3> HIDE DEF r
    <3> QED BY <3>1 DEF IsRun
  <2>3. IsRun(baseRun) /\ baseRun.pass = run.pass
    <3> DEFINE r == [run EXCEPT !.base = matches]
    <3>1. IsRun(r) /\ r.pass = run.pass /\ baseRun = [r EXCEPT !.lost = baseLost]
      BY <1>0 DEF IsRun
    <3> HIDE DEF r
    <3> QED BY <3>1 DEF IsRun
  <2>4. IsRun(seen) /\ seen.pass = run.pass
    BY <2>2, <2>3
  <2> HIDE DEF seen
  <2>5. IsRun(run') /\ run'.pass = run.pass
    BY <2>1, <2>4 DEF IsRun
  <2> QED BY <1>2, <2>1, <2>5
<1> QED BY <1>1, <1>3 DEF CoreDone

LEMMA CoreRunsTree == TreeInv /\ CoreRuns => TreeInv'
<1> SUFFICES ASSUME TreeInv, CoreRuns PROVE TreeInv'
  OBVIOUS
<1> UNCHANGED <<pc, job, run, tree>>
  BY DEF CoreRuns
<1> QED BY DEF TreeInv, TypeOK, Standing, Restored, Passes

LEMMA JoinRunsTree == TreeInv /\ JoinRuns => TreeInv'
<1> SUFFICES ASSUME TreeInv, JoinRuns PROVE TreeInv'
  OBVIOUS
<1> UNCHANGED <<pc, job, run, tree>>
  BY DEF JoinRuns
<1> QED BY DEF TreeInv, TypeOK, Standing, Restored, Passes

LEMMA JoinsEndTree == TreeInv /\ JoinsEnd => TreeInv'
<1> SUFFICES ASSUME TreeInv, JoinsEnd PROVE TreeInv'
  OBVIOUS
<1>0. pc = "join" /\ UNCHANGED <<job, tree>> /\ IsRun(run)
  BY DEF JoinsEnd, TreeInv, TypeOK
<1>1. CASE Raise(2, "join")
  BY <1>0, <1>1, RaiseKeepsTree
<1>2. ASSUME NEW ms, NEW bs, NEW errs, pc' = AfterRun,
        \/ run' = [run EXCEPT !.matches = ms, !.errs = errs]
        \/ run' = [run EXCEPT !.base = bs, !.errs = errs]
      PROVE  TreeInv'
  <2>1. \A r : IsRun(r) => /\ IsRun([r EXCEPT !.errs = errs])
                          /\ [r EXCEPT !.errs = errs].pass = r.pass
    BY DEF IsRun
  <2>2. /\ IsRun([run EXCEPT !.matches = ms]) /\ [run EXCEPT !.matches = ms].pass = run.pass
        /\ IsRun([run EXCEPT !.base = bs]) /\ [run EXCEPT !.base = bs].pass = run.pass
    BY <1>0 DEF IsRun
  <2>3. \/ run' = [[run EXCEPT !.matches = ms] EXCEPT !.errs = errs]
        \/ run' = [[run EXCEPT !.base = bs] EXCEPT !.errs = errs]
    BY <1>0, <1>2 DEF IsRun
  <2>4. IsRun(run') /\ run'.pass = run.pass
    BY <2>1, <2>2, <2>3
  <2> QED BY <1>0, <1>2, <2>4, MoveKeepsTree DEF AfterRun, IsRun
<1> QED BY <1>1, <1>2 DEF JoinsEnd

(* A step into the context of the baseline, or to its clean-up.            *)
LEMMA FaultEffect ==
  ASSUME IsRun(run), run' = [run EXCEPT !.fault = TRUE]
  PROVE  IsRun(run') /\ run'.pass = run.pass /\ run'.matches = run.matches
         /\ run'.base = run.base /\ run'.lost = run.lost /\ run'.kept = run.kept
         /\ run'.fixed = run.fixed /\ run'.why = run.why /\ run'.fault
         /\ run'.errs = run.errs /\ run'.more = run.more
BY DEF IsRun

LEMMA SelectBaselineTree == TreeInv /\ SelectBaseline => TreeInv'
<1> SUFFICES ASSUME TreeInv, SelectBaseline PROVE TreeInv'
  OBVIOUS
<1>0. /\ pc = "select" /\ UNCHANGED <<job, tree>> /\ IsRun(run) /\ run.pass = "head"
      /\ tree = AtHead /\ job.mode = "scan"
  BY DEF SelectBaseline, TreeInv, TypeOK, Passes, Standing
<1>1. CASE Leave(2, "git")
  BY <1>0, <1>1, ExitKeepsTree
<1>2. CASE UNCHANGED run /\ pc' = "filter"
  BY <1>0, <1>2, MoveKeepsTree
<1>3. CASE run' = [run EXCEPT !.pass = "base"] /\ pc' = IF job.dirty THEN "worktree" ELSE "reset"
  <2>1. IsRun(run') /\ run'.pass = "base"
    BY <1>0, <1>3 DEF IsRun
  <2> QED BY <1>0, <1>3, <2>1 DEF TreeInv, TypeOK, Standing, Passes
<1> QED BY <1>1, <1>2, <1>3 DEF SelectBaseline

LEMMA ResetToBaseTree == TreeInv /\ ResetToBase => TreeInv'
<1> SUFFICES ASSUME TreeInv, ResetToBase PROVE TreeInv'
  OBVIOUS
<1>0. /\ pc = "reset" /\ UNCHANGED job /\ IsRun(run) /\ run.pass = "base"
      /\ tree = AtHead /\ ~job.dirty /\ job.mode = "scan"
  BY DEF ResetToBase, TreeInv, TypeOK, Passes, Standing
<1>1. tree' \in {[AtHead EXCEPT !.head = "base"], AtHead} /\ tree' \in Trees
  <2>1. EnterReset
    BY DEF ResetToBase
  <2>2. tree \in Trees /\ [AtHead EXCEPT !.head = "base"] \in Trees
    BY <1>0 DEF Trees
  <2>3. CASE tree' = [tree EXCEPT !.head = "base"]
    <3> tree' = [AtHead EXCEPT !.head = "base"]
      BY ONLY <1>0, <2>3
    <3> QED BY <2>2
  <2>4. CASE tree' = tree
    BY <1>0, <2>2, <2>4
  <2> QED BY <2>1, <2>3, <2>4 DEF EnterReset
<1>2. CASE tree'.head = "base" /\ pc' = "prepare" /\ UNCHANGED run
  BY <1>0, <1>1, <1>2 DEF TreeInv, TypeOK, Standing, Passes
<1>3. CASE tree'.head # "base" /\ pc' = "leave" /\ run' = [run EXCEPT !.fault = TRUE]
  BY <1>0, <1>1, <1>3, FaultEffect DEF TreeInv, TypeOK, Standing, Passes
<1> QED BY <1>2, <1>3 DEF ResetToBase

LEMMA OpenWorktreeTree == TreeInv /\ OpenWorktree => TreeInv'
<1> SUFFICES ASSUME TreeInv, OpenWorktree PROVE TreeInv'
  OBVIOUS
<1>0. /\ pc = "worktree" /\ UNCHANGED job /\ IsRun(run) /\ run.pass = "base"
      /\ tree = AtHead /\ job.dirty /\ job.mode = "scan"
  BY DEF OpenWorktree, TreeInv, TypeOK, Passes, Standing
<1>1. /\ tree' \in {[AtHead EXCEPT !.tmp = TRUE], [AtHead EXCEPT !.tmp = TRUE, !.worktree = TRUE]}
      /\ tree' \in Trees
  BY <1>0 DEF OpenWorktree, AddWorktree, AddWorktreeFails, Trees
<1>2. CASE pc' = "leave" /\ run' = [run EXCEPT !.fault = TRUE]
  BY <1>0, <1>1, <1>2, FaultEffect DEF TreeInv, TypeOK, Standing, Passes
<1>3. CASE AddWorktree /\ pc' = "chdir" /\ UNCHANGED run
  BY <1>0, <1>1, <1>3 DEF TreeInv, TypeOK, Standing, Passes, AddWorktree
<1> QED BY <1>2, <1>3 DEF OpenWorktree

LEMMA CheckoutWorktreeTree == TreeInv /\ CheckoutWorktree => TreeInv'
<1> SUFFICES ASSUME TreeInv, CheckoutWorktree PROVE TreeInv'
  OBVIOUS
<1>0. /\ pc = "chdir" /\ UNCHANGED job /\ IsRun(run) /\ run.pass = "base"
      /\ tree = [AtHead EXCEPT !.tmp = TRUE, !.worktree = TRUE] /\ job.dirty /\ job.mode = "scan"
  BY DEF CheckoutWorktree, TreeInv, TypeOK, Passes, Standing
<1>1. /\ tree' = [head |-> "head", cwd |-> "tmp", tmp |-> TRUE, worktree |-> TRUE, stuck |-> "none"]
      /\ tree' \in Trees
  BY <1>0 DEF CheckoutWorktree, ChangeDirectory, Trees
<1>2. CASE pc' = "leave" /\ run' = [run EXCEPT !.fault = TRUE]
  BY <1>0, <1>1, <1>2, FaultEffect DEF TreeInv, TypeOK, Standing, Passes
<1>3. CASE pc' = "prepare" /\ UNCHANGED run
  BY <1>0, <1>1, <1>3 DEF TreeInv, TypeOK, Standing, Passes
<1> QED BY <1>2, <1>3 DEF CheckoutWorktree

LEMMA RemoveMatchesTree == TreeInv /\ RemoveMatches => TreeInv'
<1> SUFFICES ASSUME TreeInv, RemoveMatches PROVE TreeInv'
  OBVIOUS
<1> DEFINE left == {m \in run.matches : HeadKey(m) \notin {BaseKey(b) : b \in run.base}}
<1>0. /\ pc = "remove" /\ UNCHANGED <<job, tree>> /\ IsRun(run) /\ run.pass = "base"
      /\ run' = [run EXCEPT !.matches = left] /\ pc' = "leave"
  BY DEF RemoveMatches, TreeInv, TypeOK, Passes, IsRun
<1> HIDE DEF left
<1>1. IsRun(run') /\ run'.pass = run.pass
  BY <1>0 DEF IsRun
<1> QED BY <1>0, <1>1, MoveKeepsTree

(* Whatever came before, the clean-up leaves the repository as it was.     *)
LEMMA LeaveBaselineTree == TreeInv /\ LeaveBaseline => TreeInv'
<1> SUFFICES ASSUME TreeInv, LeaveBaseline PROVE TreeInv'
  OBVIOUS
<1>0. /\ pc = "leave" /\ UNCHANGED job /\ IsRun(run) /\ run.pass = "base" /\ tree \in Trees
      /\ tree.stuck = "none"
      /\ IF job.dirty THEN tree.head = "head"
         ELSE tree.cwd = "repo" /\ ~tree.tmp /\ ~tree.worktree
  BY DEF LeaveBaseline, TreeInv, TypeOK, Passes, Standing
<1>1. /\ tree' \in Trees /\ tree'.cwd = "repo" /\ ~tree'.tmp
      /\ tree'.head = "head" \/ tree'.stuck = "reset"
      /\ tree'.worktree => tree'.stuck = "worktree"
  <2>1. CASE job.dirty
    <3>1. LeaveWorktree
      BY <2>1 DEF LeaveBaseline
    <3> QED BY <1>0, <2>1, <3>1 DEF LeaveWorktree, Trees
  <2>2. CASE ~job.dirty
    <3>1. LeaveReset
      BY <2>2 DEF LeaveBaseline
    <3> QED BY <1>0, <2>2, <3>1 DEF LeaveReset, Trees
  <2> QED BY <2>1, <2>2
<1>2. CASE (run.fault \/ tree'.stuck = "reset") /\ Leave(2, "baseline")
  BY <1>0, <1>1, <1>2, LeaveEffect DEF TreeInv, TypeOK, Standing, Passes, Restored
<1>3. CASE tree'.stuck # "reset" /\ pc' = "filter" /\ UNCHANGED run
  BY <1>0, <1>1, <1>3 DEF TreeInv, TypeOK, Standing, Passes, Restored
<1> QED BY <1>2, <1>3 DEF LeaveBaseline

LEMMA FilterIgnoredTree == TreeInv /\ FilterIgnored => TreeInv'
<1> SUFFICES ASSUME TreeInv, FilterIgnored PROVE TreeInv'
  OBVIOUS
<1> DEFINE kept == {m \in run.matches : job.keep \/ ~IsIgnored(m)}
<1>0. /\ pc = "filter" /\ UNCHANGED <<job, tree>> /\ IsRun(run)
      /\ run' = [run EXCEPT !.kept = kept] /\ pc' = "fix"
  BY DEF FilterIgnored, TreeInv, TypeOK
<1> HIDE DEF kept
<1>1. IsRun(run') /\ run'.pass = run.pass
  BY <1>0 DEF IsRun
<1> QED BY <1>0, <1>1, MoveKeepsTree

LEMMA ApplyFixesTree == TreeInv /\ ApplyFixes => TreeInv'
<1> SUFFICES ASSUME TreeInv, ApplyFixes PROVE TreeInv'
  OBVIOUS
<1>0. pc = "fix" /\ UNCHANGED <<job, tree>> /\ IsRun(run) /\ pc' = "output"
  BY DEF ApplyFixes, TreeInv, TypeOK
<1>1. run' = [run EXCEPT !.fixed = run.kept] \/ run' = run
  BY DEF ApplyFixes
<1>2. IsRun(run') /\ run'.pass = run.pass
  BY <1>0, <1>1 DEF IsRun
<1> QED BY <1>0, <1>2, MoveKeepsTree

LEMMA WriteOutputsTree == TreeInv /\ WriteOutputs => TreeInv'
<1> SUFFICES ASSUME TreeInv, WriteOutputs PROVE TreeInv'
  OBVIOUS
<1>0. pc = "output" /\ UNCHANGED <<job, tree>>
  BY DEF WriteOutputs
<1>1. ASSUME NEW code, NEW why, Leave(code, why) PROVE TreeInv'
  BY <1>0, <1>1, ExitKeepsTree
<1> QED BY <1>1 DEF WriteOutputs

LEMMA StutterTree == TreeInv /\ UNCHANGED vars => TreeInv'
BY DEF vars, TreeInv, TypeOK, Standing, Restored, Passes

LEMMA StepTree == ASSUME TreeInv, [Next]_vars PROVE TreeInv'
BY StutterTree, CheckFlagsTree, ValidateTree, LoadRulesTree, FindTargetsTree, PrepareCoreTree,
   CoreRunsTree, CoreDoneTree, JoinRunsTree, JoinsEndTree, SelectBaselineTree, ResetToBaseTree,
   OpenWorktreeTree, CheckoutWorktreeTree, RemoveMatchesTree, LeaveBaselineTree,
   FilterIgnoredTree, ApplyFixesTree, WriteOutputsTree DEF Next

(* The repository and the process are where each place of the scan needs   *)
(* them: at the head, or at the baseline in the pass that scans it.        *)
THEOREM RepositoryFollowed == Spec => []TreeInv
BY InitTree, StepTree, PTL DEF Spec

(* However a scan ends, the repository is at its commit and the process in *)
(* its directory, or the command of the clean-up that failed says so       *)
(* (git.py, baseline_context).                                             *)
THEOREM RepositoryIsRestored == Spec => []RepositoryRestored
<1>1. TreeInv => RepositoryRestored
  BY DEF TreeInv, Standing, Restored, RepositoryRestored
<1> QED BY RepositoryFollowed, <1>1, PTL

-----------------------------------------------------------------------------
(* The findings of a diff scan.                                            *)

FileNames == {"new", "old", "added"}
HeadMatches == UNION {[path : {Path(n)}, index : 1..HeadCount(n)] : n \in Names("head")}
InFiles(ms) == {m \in ms : m.path.name \in FileNames}
BasePaths == [name : {BaseName}, abs : {FALSE, job.absolute}]
IsMatch(m) ==
    /\ m.path \in [name : {m.path.name}, abs : {m.path.abs}]
    /\ \/ m \in [path : {m.path}, index : {m.index}]
       \/ m \in [path : {m.path}, index : {m.index}, id : {m.id}]

(* What the theorem is about: diff scans without a file in error, of a     *)
(* relative root or a clean repository.                                    *)
Complete == run.lost = {}
Comparable == job.baseline /\ (job.absolute => ~job.dirty)

(* The baseline run has found no more than the baseline's matches of the   *)
(* file, and all of them if the head has a match that may be one.          *)
BaseSound ==
    \A b \in run.base :
        IsMatch(b) /\ (b.path.name \in FileNames => b \in [path : BasePaths, index : 1..job.base])
BaseFound ==
    /\ BaseSound
    /\ (\E m \in HeadMatches : m.path.name = "new") =>
          \A i \in 1..job.base : \E b \in run.base : b.path \in BasePaths /\ b.index = i

DiffInv ==
    /\ job \in Jobs
    /\ run.fault => pc \in {"leave", "exited"}
    /\ run.why = "output" => pc = "exited"
    /\ Complete /\ \/ pc \in {"join", "select"}
                   \/ run.pass = "base" /\ pc \notin {"leave", "filter", "fix", "output", "exited"}
          => InFiles(run.matches) = HeadMatches
    /\ Complete /\ Comparable /\ run.pass = "base" /\ pc \in {"join", "remove"} => BaseFound
    /\ Complete /\ Comparable /\ (pc = "filter" \/ (pc = "leave" /\ ~run.fault)) =>
          InFiles(run.matches) = {m \in HeadMatches : IsNew(m)}
    /\ Complete /\ Comparable /\ (pc \in {"fix", "output"} \/ run.why = "output") =>
          InFiles(run.kept) = {m \in HeadMatches : IsNew(m) /\ (job.keep \/ ~IsIgnored(m))}

SameErrors == run'.errs = run.errs /\ run'.more = run.more
SameFindings == /\ run'.matches = run.matches /\ run'.base = run.base /\ run'.lost = run.lost
                /\ run'.kept = run.kept /\ run'.fixed = run.fixed

LEMMA RaiseEffect ==
  ASSUME IsRun(run), NEW code, NEW why, Raise(code, why)
  PROVE  /\ IsRun(run') /\ SameFindings /\ SameErrors
         /\ \/ /\ pc' = "leave" /\ run'.fault /\ run'.why = run.why
               /\ run'.pass = run.pass /\ run.pass = "base"
            \/ pc' = "exited" /\ run'.why = why /\ run'.pass = run.pass
<1>1. CASE run.pass = "base"
  <2>1. pc' = "leave" /\ run' = [run EXCEPT !.fault = TRUE]
    BY <1>1 DEF Raise
  <2> QED BY <1>1, <2>1, FaultEffect DEF SameFindings, SameErrors
<1>2. CASE run.pass # "base"
  <2> Leave(code, why)
    BY <1>2 DEF Raise
  <2> QED BY LeaveEffect DEF SameFindings, SameErrors
<1> QED BY <1>1, <1>2

(* The steps of a scan that leave its findings alone.                      *)
Quiet ==
    /\ UNCHANGED job /\ IsRun(run') /\ SameFindings
    /\ run'.more = run.more /\ run.errs.seen \subseteq run'.errs.seen
    /\ UNCHANGED join \/ pc = "join"
    /\ run'.pass = run.pass \/ pc = "select"
    /\ \/ pc' = "exited" /\ run'.why # "output"
       \/ pc' = "leave" /\ run'.fault /\ run'.why = run.why /\ run.pass = "base" /\ pc # "exited"
       \/ /\ run'.fault = run.fault /\ run'.why = run.why
          /\ \/ pc' = pc /\ run'.exit = run.exit /\ run'.pass = run.pass
             \/ /\ run'.pass = "head" /\ pc \in {"flags", "validate", "load", "targets"}
                /\ pc' \in {"validate", "load", "targets", "prepare"}
             \/ pc = "prepare" /\ pc' = "core" /\ run'.pass = run.pass
             \/ pc = "select" /\ pc' \in {"reset", "worktree"} /\ run'.pass = "base"
             \/ /\ pc \in {"reset", "worktree", "chdir"} /\ run'.pass = run.pass
                /\ pc' \in {"chdir", "prepare"}
             \/ pc = "leave" /\ ~run.fault /\ pc' = "filter"

LEMMA DiffMoves ==
  ASSUME DiffInv, IsRun(run), Quiet
  PROVE  DiffInv'
<1>0. UNCHANGED job /\ SameFindings
  BY DEF Quiet
<1>1. /\ InFiles(run.matches)' = InFiles(run.matches) /\ HeadMatches' = HeadMatches
      /\ InFiles(run.kept)' = InFiles(run.kept)
  BY <1>0 DEF InFiles, HeadMatches, SameFindings, Names, Path, HeadCount, BaseName
<1>2. /\ Complete' = Complete /\ Comparable' = Comparable
      /\ BaseFound => BaseFound'
  BY <1>0, <1>1 DEF Complete, Comparable, SameFindings, BaseFound, BaseSound, BasePaths, BaseName, IsMatch
<1>3. /\ {m \in HeadMatches : IsNew(m)}' = {m \in HeadMatches : IsNew(m)}
      /\ {m \in HeadMatches : IsNew(m) /\ (job.keep \/ ~IsIgnored(m))}' =
             {m \in HeadMatches : IsNew(m) /\ (job.keep \/ ~IsIgnored(m))}
  BY <1>0, <1>1 DEF IsNew, IsIgnored, BaseCount, Renamed, BaseName
<1> QED BY <1>1, <1>2, <1>3 DEF DiffInv, Quiet

LEMMA RaiseIsQuiet ==
  ASSUME IsRun(run), NEW code, NEW why, Raise(code, why), why # "output", pc # "exited",
         UNCHANGED <<job, join>>
  PROVE  Quiet
BY RaiseEffect DEF Quiet, SameErrors

LEMMA LeaveIsQuiet ==
  ASSUME IsRun(run), NEW code, NEW why, Leave(code, why), why # "output", UNCHANGED <<job, join>>
  PROVE  Quiet
BY LeaveEffect DEF Quiet, SameFindings

LEMMA HandledKeeps ==
  ASSUME NEW errs, NEW more
  PROVE  /\ errs.seen \subseteq Handled(errs, more).seen
         /\ \A i \in DOMAIN more : more[i] \in Handled(errs, more).seen
BY DEF Handled

LEMMA BeforeIsQuiet ==
  ASSUME TreeInv, CheckFlags \/ Validate \/ LoadRules \/ FindTargets
  PROVE  Quiet
<1>0. /\ UNCHANGED <<job, join>> /\ IsRun(run) /\ run.pass = "head"
      /\ pc \in {"flags", "validate", "load", "targets"}
  BY DEF CheckFlags, Validate, LoadRules, FindTargets, TreeInv, TypeOK, Passes
<1>1. ASSUME NEW code, NEW why \in {"flags", "invalid", "valid", "config", "baseline", "root", "ls"},
             Leave(code, why)
      PROVE  Quiet
  BY <1>0, <1>1, LeaveIsQuiet
<1>2. CASE UNCHANGED run /\ pc' \in {"validate", "load", "prepare"}
  BY <1>0, <1>2 DEF SameFindings, Quiet
<1>3. ASSUME NEW more, run' = [run EXCEPT !.errs = Handled(@, more)], pc' = "targets"
      PROVE  Quiet
  <2>1. PICK errs : errs = Handled(run.errs, more)
    OBVIOUS
  <2>2. run' = [run EXCEPT !.errs = errs]
    BY <1>3, <2>1
  <2>3. /\ SameFindings /\ IsRun(run') /\ run'.pass = run.pass /\ run'.why = run.why
        /\ run'.fault = run.fault /\ run'.more = run.more /\ run'.errs = errs
    BY <1>0, <2>2 DEF SameFindings, IsRun
  <2>4. run.errs.seen \subseteq run'.errs.seen
    BY <2>1, <2>3, HandledKeeps
  <2> QED BY <1>0, <1>3, <2>3, <2>4 DEF Quiet
<1> QED BY <1>1, <1>2, <1>3 DEF CheckFlags, Validate, LoadRules, FindTargets

LEMMA PrepareIsQuiet == ASSUME TreeInv, PrepareCore PROVE Quiet
<1>0. pc = "prepare" /\ UNCHANGED <<job, join>> /\ IsRun(run)
  BY DEF PrepareCore, TreeInv, TypeOK
<1>1. CASE Raise(2, "engine")
  BY <1>0, <1>1, RaiseIsQuiet
<1>2. CASE Leave(0, "dump")
  BY <1>0, <1>2, LeaveIsQuiet
<1>3. CASE pc' = "core" /\ UNCHANGED run
  BY <1>0, <1>3 DEF SameFindings, Quiet
<1> QED BY <1>1, <1>2, <1>3 DEF PrepareCore

LEMMA StandStillIsQuiet ==
  ASSUME TreeInv, CoreRuns \/ JoinRuns \/ UNCHANGED vars
  PROVE  Quiet
<1> UNCHANGED <<pc, job, run>> /\ IsRun(run) /\ (UNCHANGED join \/ pc = "join")
  BY DEF CoreRuns, JoinRuns, vars, TreeInv, TypeOK
<1> QED BY DEF SameFindings, Quiet

LEMMA ContextIsQuiet ==
  ASSUME TreeInv, ResetToBase \/ OpenWorktree \/ CheckoutWorktree \/ LeaveBaseline
  PROVE  Quiet
<1>0. /\ UNCHANGED <<job, join>> /\ IsRun(run) /\ run.pass = "base"
      /\ pc \in {"reset", "worktree", "chdir", "leave"}
  BY DEF ResetToBase, OpenWorktree, CheckoutWorktree, LeaveBaseline, TreeInv, TypeOK, Passes
<1>1. CASE pc' = "leave" /\ run' = [run EXCEPT !.fault = TRUE]
  BY <1>0, <1>1, FaultEffect DEF SameFindings, Quiet
<1>2. CASE Leave(2, "baseline")
  BY <1>0, <1>2, LeaveIsQuiet
<1>3. CASE /\ UNCHANGED run
           /\ \/ pc \in {"reset", "worktree", "chdir"} /\ pc' \in {"chdir", "prepare"}
              \/ pc = "leave" /\ ~run.fault /\ pc' = "filter"
  BY <1>0, <1>3 DEF SameFindings, Quiet
<1> QED BY <1>1, <1>2, <1>3 DEF ResetToBase, OpenWorktree, CheckoutWorktree, LeaveBaseline

QuietStep ==
    \/ CheckFlags \/ Validate \/ LoadRules \/ FindTargets \/ PrepareCore
    \/ CoreRuns \/ JoinRuns \/ UNCHANGED vars
    \/ ResetToBase \/ OpenWorktree \/ CheckoutWorktree \/ LeaveBaseline

LEMMA QuietSteps == ASSUME TreeInv, QuietStep PROVE Quiet
BY BeforeIsQuiet, PrepareIsQuiet, StandStillIsQuiet, ContextIsQuiet DEF QuietStep

(* The finding of the head with number i in its file.                      *)
LEMMA OnHead ==
  ASSUME job \in Jobs, NEW m \in HeadMatches
  PROVE  /\ m.path.name \in {"new", "added"} /\ m.path = Path(m.path.name)
         /\ m.index \in Nat \ {0} /\ m.index <= HeadCount(m.path.name)
         /\ m = [path |-> m.path, index |-> m.index]
<1>1. PICK n \in {"new", "added"} : m \in [path : {Path(n)}, index : 1..HeadCount(n)]
  BY DEF HeadMatches, Names
<1>2. HeadCount(n) \in Nat
  BY ScanJobs DEF HeadCount
<1>3. m.path = Path(n) /\ Path(n).name = n /\ m.index \in 1..HeadCount(n)
  BY <1>1 DEF Path
<1>4. m = [path |-> m.path, index |-> m.index]
  BY <1>1
<1> QED BY <1>2, <1>3, <1>4

LEMMA HeadScan ==
  ASSUME job \in Jobs, tree = AtHead, run.pass = "head"
  PROVE  UNION {Found(p) : p \in Scanned} = HeadMatches
<1>1. Scanned = {Path(n) : n \in Names("head")}
  BY DEF Scanned
<1>2. ASSUME NEW n \in Names("head")
      PROVE  Found(Path(n)) = [path : {Path(n)}, index : 1..HeadCount(n)]
  <2> Path(n).name = n /\ CommitAt(Path(n)) = "head"
    BY DEF Path, CommitAt
  <2> QED BY DEF Found, Count
<1> QED BY <1>1, <1>2 DEF HeadMatches

(* The files scanned again are those of the baseline commit.               *)
LEMMA BaseTargets ==
  ASSUME job \in Jobs, Comparable, InFiles(run.matches) \subseteq HeadMatches,
         tree = IF job.dirty THEN [head |-> "head", cwd |-> "tmp", tmp |-> TRUE,
                                   worktree |-> TRUE, stuck |-> "none"]
                ELSE [AtHead EXCEPT !.head = "base"],
         NEW t \in BaselineTargets, t.name \in FileNames
  PROVE  t \in [name : FileNames, abs : {FALSE, job.absolute}] /\ CommitAt(t) = "base"
<1>1. t \in [name : FileNames, abs : {FALSE, job.absolute}]
  <2>1. CASE \E m \in run.matches : t = m.path
    <3>1. PICK m \in run.matches : t = m.path
      BY <2>1
    <3>2. m \in HeadMatches
      BY <3>1 DEF InFiles
    <3>3. PICK n \in FileNames : t = Path(n)
      BY <3>1, <3>2, OnHead
    <3> QED BY <3>3 DEF Path
  <2>2. CASE t = [name |-> "old", abs |-> FALSE]
    BY <2>2 DEF FileNames
  <2> QED BY <2>1, <2>2 DEF BaselineTargets
<1>2. t.abs => ~job.dirty
  BY <1>1 DEF Comparable
<1> QED BY <1>1, <1>2 DEF CommitAt

LEMMA BaseScan ==
  ASSUME job \in Jobs, Comparable, InFiles(run.matches) \subseteq HeadMatches, run.pass = "base",
         tree = IF job.dirty THEN [head |-> "head", cwd |-> "tmp", tmp |-> TRUE,
                                   worktree |-> TRUE, stuck |-> "none"]
                ELSE [AtHead EXCEPT !.head = "base"],
         NEW found, found = UNION {Found(p) : p \in Scanned}
  PROVE  /\ \A b \in found : IsMatch(b) /\ b \in [path : BasePaths, index : 1..job.base]
         /\ InFiles(run.matches) = HeadMatches /\ (\E m \in HeadMatches : m.path.name = "new") =>
               \A i \in 1..job.base : \E b \in found : b.path \in BasePaths /\ b.index = i
<1>1. ASSUME NEW t \in BaselineTargets, t.name = BaseName
      PROVE  t \in Scanned /\ t \in BasePaths /\ Found(t) = [path : {t}, index : 1..job.base]
  <2>1. t.name \in FileNames
    BY <1>1 DEF BaseName, FileNames
  <2>2. t \in [name : FileNames, abs : {FALSE, job.absolute}] /\ CommitAt(t) = "base"
    BY <2>1, BaseTargets
  <2>3. t \in Scanned
    BY <1>1, <2>2 DEF Scanned, Names
  <2> QED BY <1>1, <2>2, <2>3 DEF BasePaths, Found, Count, BaseCount
<1>2. ASSUME NEW t \in Scanned PROVE t \in BaselineTargets /\ t.name = BaseName
  <2>1. t \in BaselineTargets /\ t.name \in Names(CommitAt(t))
    BY DEF Scanned
  <2>2. t.name \in FileNames
    BY <2>1 DEF Names, FileNames, BaseName
  <2> QED BY <2>1, <2>2, BaseTargets DEF Names
<1>3. ASSUME NEW b \in found PROVE IsMatch(b) /\ b \in [path : BasePaths, index : 1..job.base]
  <2>1. PICK t \in Scanned : b \in Found(t)
    BY DEF Found
  <2>2. t \in BasePaths /\ b \in [path : {t}, index : 1..job.base]
    BY <1>1, <1>2, <2>1
  <2>3. b \in [path : BasePaths, index : 1..job.base]
    BY <2>2
  <2> QED BY <2>3 DEF IsMatch, BasePaths
<1>4. ASSUME InFiles(run.matches) = HeadMatches,
             NEW m \in HeadMatches, m.path.name = "new", NEW i \in 1..job.base
      PROVE  \E b \in found : b.path \in BasePaths /\ b.index = i
  <2>1. PICK t \in BaselineTargets : t.name = BaseName
    <3>1. CASE job.renamed
      <4> [name |-> "old", abs |-> FALSE] \in BaselineTargets
        BY <3>1 DEF BaselineTargets, Added
      <4> QED BY <3>1 DEF BaseName
    <3>2. CASE ~job.renamed
      <4>1. m \in run.matches /\ m.path = Path("new")
        BY <1>4, OnHead DEF InFiles
      <4>2. Path("new") \notin {[name |-> n, abs |-> FALSE] : n \in Added}
        BY <3>2 DEF Path, Added
      <4>3. Path("new") \in BaselineTargets
        BY <4>1, <4>2 DEF BaselineTargets
      <4> QED BY <3>2, <4>3 DEF BaseName, Path
    <3> QED BY <3>1, <3>2
  <2>2. t \in Scanned /\ t \in BasePaths /\ Found(t) = [path : {t}, index : 1..job.base]
    BY <1>1, <2>1
  <2>3. [path |-> t, index |-> i] \in found
    BY <2>2
  <2> QED BY <2>2, <2>3
<1> QED BY <1>3, <1>4

LEMMA NewName ==
  ASSUME NEW x, NEW y, NEW path, path = [name |-> x, abs |-> FALSE]
  PROVE  [path EXCEPT !.name = y] = [name |-> y, abs |-> FALSE]
<1> DEFINE q == [path EXCEPT !.name = y]
<1>1. q \in [name : {y}, abs : {FALSE}]
  OBVIOUS
<1> HIDE DEF q
<1>2. q = [name |-> y, abs |-> FALSE]
  BY <1>1
<1> QED BY <1>2 DEF q

(* The key of a finding of the head is that of a finding of the baseline   *)
(* exactly if the baseline had as many of them.                            *)
LEMMA KeysMeet ==
  ASSUME job \in Jobs, Comparable, BaseSound,
         tree.cwd = (IF job.dirty THEN "tmp" ELSE "repo"), NEW m \in HeadMatches
  PROVE  /\ (\E b \in run.base : HeadKey(m) = BaseKey(b)) => ~IsNew(m)
         /\ BaseFound /\ ~IsNew(m) => \E b \in run.base : HeadKey(m) = BaseKey(b)
<1> DEFINE p == [name |-> Renamed(m.path.name), abs |-> FALSE]
<1>0. /\ m.path.name \in {"new", "added"} /\ m.path = Path(m.path.name)
      /\ m.index \in Nat \ {0} /\ m = [path |-> m.path, index |-> m.index]
      /\ job.base \in Nat /\ job.absolute \in BOOLEAN
  BY OnHead, ScanJobs
<1>1. HeadKey(m) = [path |-> p, index |-> m.index]
  <2>1. Relative(m.path) = [name |-> m.path.name, abs |-> FALSE]
    BY <1>0 DEF Relative, Path, Comparable
  <2> DEFINE q == [Relative(m.path) EXCEPT !.name = Renamed(@)]
  <2>2. q = p /\ ~Relative(m.path).abs
    <3>1. Relative(m.path).name = m.path.name /\ ~Relative(m.path).abs
      BY <2>1
    <3>2. q = [Relative(m.path) EXCEPT !.name = Renamed(m.path.name)]
      BY <3>1
    <3>3. [Relative(m.path) EXCEPT !.name = Renamed(m.path.name)] = p
      BY <2>1, NewName
    <3> HIDE DEF q
    <3> QED BY <3>1, <3>2, <3>3
  <2>3. HeadKey(m) = [m EXCEPT !.path = q]
    BY <2>2 DEF HeadKey
  <2> HIDE DEF q
  <2> QED BY <1>0, <2>2, <2>3
<1>2. ASSUME NEW b \in run.base
      PROVE  /\ BaseKey(b).path.name = b.path.name /\ BaseKey(b).index = b.index
             /\ b.path \in BasePaths =>
                  BaseKey(b) = [path |-> [name |-> BaseName, abs |-> FALSE], index |-> b.index]
  <2>1. IsMatch(b)
    BY DEF BaseSound
  <2>2. Relative(b.path) \in [name : {b.path.name}, abs : {b.path.abs, FALSE}]
    BY <2>1 DEF Relative, IsMatch
  <2>3. b.path \in BasePaths => Relative(b.path) = [name |-> BaseName, abs |-> FALSE]
    BY <1>0 DEF Relative, BasePaths, Comparable
  <2>4. BaseKey(b).path = Relative(b.path) /\ BaseKey(b).index = b.index
    BY <2>1 DEF BaseKey, IsMatch
  <2>5. BaseKey(b).path.name = b.path.name
    BY <2>2, <2>4
  <2>6. ASSUME b.path \in BasePaths
        PROVE  BaseKey(b) = [path |-> [name |-> BaseName, abs |-> FALSE], index |-> b.index]
    <3>1. b.path.name \in FileNames
      BY <2>6 DEF BasePaths, BaseName, FileNames
    <3>2. b \in [path : BasePaths, index : 1..job.base]
      BY <3>1 DEF BaseSound
    <3>3. BaseKey(b) = [path |-> Relative(b.path), index |-> b.index]
      BY <3>2 DEF BaseKey
    <3> QED BY <2>3, <2>6, <3>3
  <2> QED BY <2>4, <2>5, <2>6
<1>3. ASSUME NEW b \in run.base, HeadKey(m) = BaseKey(b) PROVE ~IsNew(m)
  <2>1. b.path.name = Renamed(m.path.name) /\ b.index = m.index
    BY <1>1, <1>2, <1>3
  <2>2. b \in [path : BasePaths, index : 1..job.base]
    BY <1>0, <2>1 DEF BaseSound, FileNames, Renamed
  <2>3. Renamed(m.path.name) = BaseName /\ m.index <= job.base
    BY <1>0, <2>1, <2>2 DEF BasePaths
  <2> QED BY <1>0, <2>3 DEF IsNew, BaseCount
<1>4. ASSUME BaseFound, ~IsNew(m) PROVE \E b \in run.base : HeadKey(m) = BaseKey(b)
  <2>1. Renamed(m.path.name) = BaseName /\ m.index \in 1..job.base
    BY <1>0, <1>4 DEF IsNew, BaseCount
  <2>2. m.path.name = "new"
    BY <1>0, <2>1 DEF Renamed, BaseName
  <2>3. PICK b \in run.base : b.path \in BasePaths /\ b.index = m.index
    BY <1>4, <2>1, <2>2 DEF BaseFound
  <2> QED BY <1>1, <1>2, <2>1, <2>3
<1> QED BY <1>3, <1>4


LEMMA InitDiff == Init => DiffInv
BY DEF Init, DiffInv

(* The pass of the head finds all of its findings, that of the baseline    *)
(* those of the files that matter.                                         *)
LEMMA CoreDoneDiff == DiffInv /\ TreeInv /\ CoreDone => DiffInv' /\ run'.fixed = run.fixed
<1> SUFFICES ASSUME DiffInv, TreeInv, CoreDone PROVE DiffInv' /\ run'.fixed = run.fixed
  OBVIOUS
<1>0. /\ pc = "core" /\ UNCHANGED <<job, tree>> /\ IsRun(run) /\ job \in Jobs
      /\ ~run.fault /\ run.why # "output"
  BY DEF CoreDone, TreeInv, TypeOK, DiffInv
<1>1. CASE Raise(2, "core")
  <2> UNCHANGED join
    BY <1>1 DEF Raise, Leave, CoreDone, AfterRun
  <2> QED BY <1>0, <1>1, RaiseIsQuiet, DiffMoves DEF Quiet, SameFindings
<1>2. ASSUME NEW levels, NEW lost, lost \subseteq Scanned,
        LET matches == UNION {Found(p) : p \in Scanned \ lost}
            more == [i \in DOMAIN levels |-> [level |-> levels[i], about |-> run.pass]]
            seen == IF run.pass = "head"
                    THEN [run EXCEPT !.matches = matches, !.lost = Lost("head", lost)]
                    ELSE [run EXCEPT !.base = matches, !.lost = @ \cup Lost("base", lost)]
        IN IF job.joins = <<>>
           THEN run' = [seen EXCEPT !.errs = Handled(@, more)] /\ Goto(AfterRun)
           ELSE run' = [seen EXCEPT !.more = more] /\ Goto("join")
      PROVE  DiffInv' /\ run'.fixed = run.fixed
  <2> DEFINE matches == UNION {Found(p) : p \in Scanned \ lost}
             more == [i \in DOMAIN levels |-> [level |-> levels[i], about |-> run.pass]]
             headLost == Lost("head", lost)
             baseLost == run.lost \cup Lost("base", lost)
             headRun == [run EXCEPT !.matches = matches, !.lost = headLost]
             baseRun == [run EXCEPT !.base = matches, !.lost = baseLost]
             seen == IF run.pass = "head" THEN headRun ELSE baseRun
             errs == Handled(seen.errs, more)
  <2>1. \/ run' = [seen EXCEPT !.errs = errs] /\ pc' = AfterRun
        \/ run' = [seen EXCEPT !.more = more] /\ pc' = "join"
    BY <1>2 DEF IsRun
  <2>m. headLost = {} \/ baseLost = {} => matches = UNION {Found(p) : p \in Scanned}
    <3>1. ASSUME lost # {}, NEW pass PROVE Lost(pass, lost) # {}
      <4> PICK p \in lost : TRUE
        BY <3>1
      <4> [pass |-> pass, path |-> p] \in Lost(pass, lost)
        BY DEF Lost
      <4> QED OBVIOUS
    <3>2. lost = {} => Scanned \ lost = Scanned
      OBVIOUS
    <3> QED BY <3>1, <3>2
  <2>l. baseLost = {} => run.lost = {}
    OBVIOUS
  <2> HIDE DEF matches, more, headLost, baseLost, errs
  <2>2. /\ headRun.pass = run.pass /\ headRun.matches = matches /\ headRun.lost = headLost
        /\ headRun.fixed = run.fixed /\ headRun.fault = run.fault /\ headRun.why = run.why
        /\ IsRun(headRun)
    <3> DEFINE r == [run EXCEPT !.matches = matches]
    <3>1. /\ IsRun(r) /\ r.pass = run.pass /\ headRun = [r EXCEPT !.lost = headLost]
          /\ r.matches = matches /\ r.fixed = run.fixed /\ r.fault = run.fault /\ r.why = run.why
      BY <1>0 DEF IsRun
    <3> HIDE DEF r
    <3> QED BY <3>1 DEF IsRun
  <2>3. /\ baseRun.pass = run.pass /\ baseRun.base = matches /\ baseRun.lost = baseLost
        /\ baseRun.fixed = run.fixed /\ baseRun.fault = run.fault /\ baseRun.why = run.why
        /\ baseRun.matches = run.matches /\ IsRun(baseRun)
    <3> DEFINE r == [run EXCEPT !.base = matches]
    <3>1. /\ IsRun(r) /\ r.pass = run.pass /\ baseRun = [r EXCEPT !.lost = baseLost]
          /\ r.base = matches /\ r.fixed = run.fixed /\ r.fault = run.fault /\ r.why = run.why
          /\ r.matches = run.matches
      BY <1>0 DEF IsRun
    <3> HIDE DEF r
    <3> QED BY <3>1 DEF IsRun
  <2>4. /\ run'.pass = seen.pass /\ run'.matches = seen.matches /\ run'.base = seen.base
        /\ run'.lost = seen.lost /\ run'.fixed = seen.fixed /\ run'.fault = seen.fault
        /\ run'.why = seen.why
    <3>1. IsRun(seen)
      BY <2>2, <2>3
    <3> HIDE DEF seen
    <3> QED BY <2>1, <3>1 DEF IsRun
  <2>5. ~run'.fault /\ run'.why # "output" /\ run'.fixed = run.fixed /\ run'.pass = run.pass
    BY <1>0, <2>2, <2>3, <2>4
  <2>6. CASE run.pass = "head"
    <3>1. run'.matches = matches /\ run'.lost = headLost
      BY <2>2, <2>4, <2>6
    <3>2. Complete' => run'.matches = HeadMatches
      <4>1. tree = AtHead
        BY <2>6 DEF TreeInv, Standing
      <4> QED BY <1>0, <2>6, <2>m, <3>1, <4>1, HeadScan DEF Complete
    <3>3. HeadMatches' = HeadMatches /\ InFiles(HeadMatches) = HeadMatches
      <4>1. HeadMatches' = HeadMatches
        BY <1>0 DEF HeadMatches, Names, Path, HeadCount, BaseName
      <4> QED BY <1>0, <4>1, OnHead DEF InFiles, FileNames
    <3>4. Complete' => InFiles(run.matches)' = HeadMatches'
      BY <3>2, <3>3 DEF InFiles
    <3>5. pc' \in {"join", "select", "filter"} /\ (pc' = "filter" => ~job.baseline)
      BY <2>1, <2>6 DEF AfterRun
    <3> QED BY <1>0, <2>5, <2>6, <3>4, <3>5 DEF DiffInv, Comparable
  <2>7. CASE run.pass = "base"
    <3>1. run'.matches = run.matches /\ run'.base = matches /\ run'.lost = baseLost
      BY <2>3, <2>4, <2>7
    <3>2. /\ HeadMatches' = HeadMatches /\ InFiles(run.matches)' = InFiles(run.matches)
          /\ Comparable' = Comparable /\ BasePaths' = BasePaths
      BY <1>0, <3>1 DEF HeadMatches, Names, Path, HeadCount, BaseName, InFiles, Comparable, BasePaths
    <3>3. Complete' => InFiles(run.matches) = HeadMatches
      BY <1>0, <2>7, <2>l, <3>1 DEF DiffInv, Complete
    <3>4. Complete' /\ Comparable' => BaseFound'
      <4> SUFFICES ASSUME Complete', Comparable' PROVE BaseFound'
        OBVIOUS
      <4>1. InFiles(run.matches) = HeadMatches /\ Comparable
        BY <3>2, <3>3
      <4>2. tree = IF job.dirty THEN [head |-> "head", cwd |-> "tmp", tmp |-> TRUE,
                                      worktree |-> TRUE, stuck |-> "none"]
                   ELSE [AtHead EXCEPT !.head = "base"]
        BY <1>0, <2>7 DEF TreeInv, Standing
      <4>3. matches = UNION {Found(p) : p \in Scanned}
        BY <2>m, <3>1 DEF Complete
      <4>4. /\ \A b \in matches : IsMatch(b) /\ b \in [path : BasePaths, index : 1..job.base]
            /\ (\E m \in HeadMatches : m.path.name = "new") =>
                  \A i \in 1..job.base : \E b \in matches : b.path \in BasePaths /\ b.index = i
        BY <1>0, <2>7, <4>1, <4>2, <4>3, BaseScan
      <4> QED BY <1>0, <3>1, <3>2, <4>1, <4>4 DEF BaseFound, BaseSound, IsMatch
    <3>5. pc' \in {"join", "remove"}
      BY <2>1, <2>7 DEF AfterRun
    <3> QED BY <1>0, <2>5, <2>7, <3>2, <3>3, <3>4, <3>5 DEF DiffInv
  <2> QED BY <1>0, <2>6, <2>7 DEF IsRun
<1> QED BY <1>1, <1>2 DEF CoreDone


(* The findings of the join rules are not those of a file.                 *)
LEMMA JoinIsApart ==
  ASSUME NEW m \in JoinMatches
  PROVE  IsMatch(m) /\ m.path.name \notin FileNames
<1>1. PICK k \in DOMAIN join.found : \E id \in join.found[k].ids :
             m = [path |-> [name |-> "join", abs |-> FALSE], index |-> k, id |-> id]
  BY DEF JoinMatches
<1>2. PICK id \in join.found[k].ids :
             m = [path |-> [name |-> "join", abs |-> FALSE], index |-> k, id |-> id]
  BY <1>1
<1>3. m.path = [name |-> "join", abs |-> FALSE] /\ m.index = k /\ m.id = id
  BY <1>2
<1>4. m.path.name = "join" /\ m.path.abs = FALSE
  BY <1>3
<1>5. m.path \in [name : {m.path.name}, abs : {m.path.abs}]
  BY <1>3, <1>4
<1>6. m \in [path : {m.path}, index : {m.index}, id : {m.id}]
  BY <1>2
<1> QED BY <1>4, <1>5, <1>6 DEF IsMatch, FileNames

(* What the join rules add is in no file.                                  *)
LEMMA JoinsEndDiff ==
  ASSUME DiffInv, TreeInv, JoinsEnd
  PROVE  DiffInv' /\ run'.fixed = run.fixed
<1>0. /\ pc = "join" /\ UNCHANGED job /\ IsRun(run) /\ job \in Jobs
      /\ ~run.fault /\ run.why # "output"
  BY DEF JoinsEnd, TreeInv, TypeOK, DiffInv
<1>1. CASE Raise(2, "join")
  BY <1>0, <1>1, RaiseIsQuiet, DiffMoves DEF Quiet, SameFindings, JoinsEnd
<1>2. \A m \in JoinMatches : IsMatch(m) /\ m.path.name \notin FileNames
  BY JoinIsApart
<1>3. ASSUME NEW ms, NEW bs, NEW errs, pc' = AfterRun,
        \/ /\ run.pass = "head" /\ ms = run.matches \cup JoinMatches
           /\ run' = [run EXCEPT !.matches = ms, !.errs = errs]
        \/ /\ run.pass = "base" /\ bs = run.base \cup JoinMatches
           /\ run' = [run EXCEPT !.base = bs, !.errs = errs]
      PROVE  DiffInv' /\ run'.fixed = run.fixed
  <2> DEFINE q == IF run.pass = "head" THEN [run EXCEPT !.matches = ms]
                  ELSE [run EXCEPT !.base = bs]
  <2>1. /\ IsRun(q) /\ q.pass = run.pass /\ q.lost = run.lost /\ q.kept = run.kept
        /\ q.fixed = run.fixed /\ q.fault = run.fault /\ q.why = run.why
        /\ q.matches = IF run.pass = "head" THEN ms ELSE run.matches
        /\ q.base = IF run.pass = "head" THEN run.base ELSE bs
    BY <1>0 DEF IsRun
  <2>2. run' = [q EXCEPT !.errs = errs]
    BY <1>0, <1>3 DEF IsRun
  <2> HIDE DEF q
  <2>3. /\ run'.pass = q.pass /\ run'.matches = q.matches /\ run'.base = q.base
        /\ run'.lost = q.lost /\ run'.fixed = q.fixed /\ run'.fault = q.fault /\ run'.why = q.why
    BY <2>1, <2>2 DEF IsRun
  <2>5. /\ run'.pass = run.pass /\ run'.lost = run.lost /\ run'.fixed = run.fixed
        /\ run'.fault = run.fault /\ run'.why = run.why
    BY <2>1, <2>3
  <2>6. HeadMatches' = HeadMatches
    BY <1>0 DEF HeadMatches, Names, Path, HeadCount, BaseName
  <2>7. Complete => InFiles(run.matches) = HeadMatches
    BY <1>0 DEF DiffInv
  <2>8. CASE run.pass = "head"
    <3>1. run'.matches = run.matches \cup JoinMatches
      BY <1>3, <2>1, <2>3, <2>8
    <3>2. InFiles(run.matches)' = InFiles(run.matches)
      BY <1>2, <3>1 DEF InFiles
    <3>3. pc' \in {"select", "filter"} /\ (pc' = "filter" => ~job.baseline)
      BY <1>3, <2>8 DEF AfterRun
    <3> QED BY <1>0, <2>5, <2>6, <2>7, <2>8, <3>2, <3>3 DEF DiffInv, Complete, Comparable
  <2>9. CASE run.pass = "base"
    <3>1. run'.matches = run.matches /\ run'.base = run.base \cup JoinMatches
      BY <1>3, <2>1, <2>3, <2>9
    <3>2. InFiles(run.matches)' = InFiles(run.matches) /\ BasePaths' = BasePaths
      BY <1>0, <3>1 DEF InFiles, BasePaths, BaseName
    <3>3. Complete /\ Comparable => BaseFound
      BY <1>0, <2>9 DEF DiffInv
    <3>4. BaseFound => BaseFound'
      BY <1>0, <1>2, <2>6, <3>1, <3>2 DEF BaseFound, BaseSound, IsMatch
    <3>5. pc' = "remove"
      BY <1>3, <2>9 DEF AfterRun
    <3> QED BY <1>0, <2>5, <2>6, <2>7, <2>9, <3>2, <3>3, <3>4, <3>5
            DEF DiffInv, Complete, Comparable
  <2> QED BY <1>0, <2>8, <2>9 DEF IsRun
<1> QED BY <1>0, <1>1, <1>3 DEF JoinsEnd, IsRun

(* Nothing was found, or all of it in files that were added: it is all new. *)
LEMMA SelectDiff == DiffInv /\ TreeInv /\ SelectBaseline => DiffInv' /\ SameFindings
<1> SUFFICES ASSUME DiffInv, TreeInv, SelectBaseline PROVE DiffInv' /\ SameFindings
  OBVIOUS
<1>0. /\ pc = "select" /\ UNCHANGED job /\ IsRun(run) /\ job \in Jobs
      /\ ~run.fault /\ run.why # "output"
  BY DEF SelectBaseline, TreeInv, TypeOK, DiffInv
<1>1. CASE Leave(2, "git")
  BY <1>0, <1>1, LeaveIsQuiet, DiffMoves DEF Quiet, SelectBaseline
<1>2. CASE run' = [run EXCEPT !.pass = "base"] /\ pc' \in {"worktree", "reset"}
  <2>1. /\ IsRun(run') /\ run'.pass = "base" /\ SameFindings /\ SameErrors
        /\ run'.why = run.why /\ run'.fault = run.fault
    BY <1>0, <1>2 DEF IsRun, SameFindings, SameErrors
  <2> Quiet
    BY <1>0, <1>2, <2>1 DEF Quiet, SameErrors, SelectBaseline
  <2> QED BY <1>0, <2>1, DiffMoves
<1>3. CASE UNCHANGED run /\ pc' = "filter" /\ (run.matches = {} \/ BaselineTargets = {})
  <2>1. /\ InFiles(run.matches)' = InFiles(run.matches) /\ HeadMatches' = HeadMatches
        /\ Complete' = Complete
    BY <1>0, <1>3 DEF HeadMatches, Names, Path, HeadCount, BaseName, InFiles, Complete
  <2>2. Complete => InFiles(run.matches) = HeadMatches
    BY <1>0 DEF DiffInv
  <2>3. ASSUME NEW m \in HeadMatches, Complete PROVE IsNew(m)
    <3>1. m \in run.matches
      BY <2>2, <2>3 DEF InFiles
    <3>2. m.path \notin BaselineTargets /\ [name |-> "old", abs |-> FALSE] \notin BaselineTargets
      BY <1>3, <3>1
    <3>3. ~job.renamed
      BY <3>2 DEF BaselineTargets, Added
    <3>4. PICK n \in Added : m.path = [name |-> n, abs |-> FALSE]
      BY <3>1, <3>2 DEF BaselineTargets
    <3>5. m.path.name = "added"
      BY <3>3, <3>4 DEF Added
    <3>6. m.index \in Nat \ {0}
      BY <1>0, OnHead
    <3> QED BY <3>3, <3>5, <3>6 DEF IsNew, BaseCount, Renamed, BaseName
  <2>4. \A m : IsNew(m)' = IsNew(m)
    BY <1>0 DEF IsNew, BaseCount, Renamed, BaseName
  <2>5. Complete' => InFiles(run.matches)' = {m \in HeadMatches : IsNew(m)}'
    BY <2>1, <2>2, <2>3, <2>4
  <2>6. SameFindings
    BY <1>3 DEF SameFindings
  <2> QED BY <1>0, <1>3, <2>5, <2>6 DEF DiffInv
<1> QED BY <1>1, <1>2, <1>3 DEF SelectBaseline

LEMMA RemoveDiff == DiffInv /\ TreeInv /\ RemoveMatches => DiffInv' /\ run'.fixed = run.fixed
<1> SUFFICES ASSUME DiffInv, TreeInv, RemoveMatches PROVE DiffInv' /\ run'.fixed = run.fixed
  OBVIOUS
<1> DEFINE left == {m \in run.matches : HeadKey(m) \notin {BaseKey(b) : b \in run.base}}
<1>0. /\ pc = "remove" /\ UNCHANGED job /\ IsRun(run) /\ job \in Jobs /\ run.pass = "base"
      /\ ~run.fault /\ run.why # "output" /\ pc' = "leave" /\ run' = [run EXCEPT !.matches = left]
      /\ tree.cwd = IF job.dirty THEN "tmp" ELSE "repo"
  BY DEF RemoveMatches, TreeInv, TypeOK, DiffInv, Passes, Standing, IsRun
<1>1. Complete /\ Comparable => InFiles(left) = {m \in HeadMatches : IsNew(m)}
  <2> SUFFICES ASSUME Complete, Comparable
               PROVE  InFiles(left) = {m \in HeadMatches : IsNew(m)}
    OBVIOUS
  <2>1. InFiles(run.matches) = HeadMatches /\ BaseFound
    BY <1>0 DEF DiffInv
  <2>2. InFiles(left) = {m \in HeadMatches : HeadKey(m) \notin {BaseKey(b) : b \in run.base}}
    BY <2>1 DEF InFiles
  <2>3. \A m \in HeadMatches : (\E b \in run.base : HeadKey(m) = BaseKey(b)) <=> ~IsNew(m)
    BY <1>0, <2>1, KeysMeet DEF BaseFound
  <2> QED BY <2>2, <2>3
<1> HIDE DEF left
<1>2. /\ run'.matches = left /\ run'.lost = run.lost /\ run'.fixed = run.fixed
      /\ run'.fault = run.fault /\ run'.why = run.why /\ run'.pass = run.pass
  BY <1>0 DEF IsRun
<1>3. HeadMatches' = HeadMatches /\ (\A m : IsNew(m)' = IsNew(m)) /\ Complete' = Complete
      /\ Comparable' = Comparable /\ InFiles(run.matches)' = InFiles(left)
  BY <1>0, <1>2 DEF HeadMatches, Names, Path, HeadCount, BaseName, IsNew, BaseCount, Renamed,
       Complete, Comparable, InFiles
<1>4. {m \in HeadMatches : IsNew(m)}' = {m \in HeadMatches : IsNew(m)}
  BY <1>3
<1> QED BY <1>0, <1>1, <1>2, <1>3, <1>4 DEF DiffInv

LEMMA FilterDiff == DiffInv /\ TreeInv /\ FilterIgnored => DiffInv' /\ run'.fixed = run.fixed
<1> SUFFICES ASSUME DiffInv, TreeInv, FilterIgnored PROVE DiffInv' /\ run'.fixed = run.fixed
  OBVIOUS
<1> DEFINE kept == {m \in run.matches : job.keep \/ ~IsIgnored(m)}
<1>0. /\ pc = "filter" /\ UNCHANGED job /\ IsRun(run) /\ job \in Jobs
      /\ ~run.fault /\ run.why # "output" /\ pc' = "fix" /\ run' = [run EXCEPT !.kept = kept]
  BY DEF FilterIgnored, TreeInv, TypeOK, DiffInv
<1>1. Complete /\ Comparable =>
        InFiles(kept) = {m \in HeadMatches : IsNew(m) /\ (job.keep \/ ~IsIgnored(m))}
  <2> SUFFICES ASSUME Complete, Comparable
               PROVE  InFiles(kept) = {m \in HeadMatches : IsNew(m) /\ (job.keep \/ ~IsIgnored(m))}
    OBVIOUS
  <2>1. InFiles(run.matches) = {m \in HeadMatches : IsNew(m)}
    BY <1>0 DEF DiffInv
  <2>2. InFiles(kept) = {m \in InFiles(run.matches) : job.keep \/ ~IsIgnored(m)}
    BY DEF InFiles
  <2> QED BY <2>1, <2>2
<1> HIDE DEF kept
<1>2. /\ run'.kept = kept /\ run'.lost = run.lost /\ run'.fixed = run.fixed
      /\ run'.fault = run.fault /\ run'.why = run.why /\ run'.pass = run.pass
  BY <1>0 DEF IsRun
<1>3. /\ HeadMatches' = HeadMatches /\ (\A m : IsNew(m)' = IsNew(m) /\ IsIgnored(m)' = IsIgnored(m))
      /\ Complete' = Complete /\ Comparable' = Comparable /\ InFiles(run.kept)' = InFiles(kept)
  BY <1>0, <1>2 DEF HeadMatches, Names, Path, HeadCount, BaseName, IsNew, BaseCount, Renamed,
       IsIgnored, Complete, Comparable, InFiles
<1>4. {m \in HeadMatches : IsNew(m) /\ (job.keep \/ ~IsIgnored(m))}' =
        {m \in HeadMatches : IsNew(m) /\ (job.keep \/ ~IsIgnored(m))}
  BY <1>0, <1>3
<1> QED BY <1>0, <1>1, <1>2, <1>3, <1>4 DEF DiffInv

LEMMA LastDiff ==
  ASSUME DiffInv, TreeInv, ApplyFixes \/ WriteOutputs
  PROVE  DiffInv'
<1>0. /\ pc \in {"fix", "output"} /\ UNCHANGED job /\ IsRun(run) /\ job \in Jobs
      /\ ~run.fault /\ run.why # "output"
  BY DEF ApplyFixes, WriteOutputs, TreeInv, TypeOK, DiffInv
<1>1. /\ pc' \in {"output", "exited"} /\ run'.kept = run.kept /\ run'.lost = run.lost
      /\ run'.fault = run.fault /\ (run'.why = "output" => pc' = "exited")
  <2>1. CASE ApplyFixes
    <3> run' = [run EXCEPT !.fixed = run.kept] \/ run' = run
      BY <2>1 DEF ApplyFixes
    <3>1. run'.kept = run.kept /\ run'.lost = run.lost /\ run'.fault = run.fault
          /\ run'.why = run.why
      BY <1>0 DEF IsRun
    <3> QED BY <1>0, <2>1, <3>1 DEF ApplyFixes
  <2>2. CASE WriteOutputs
    <3> PICK code, why : Leave(code, why)
      BY <2>2 DEF WriteOutputs
    <3> QED BY <1>0, LeaveEffect
  <2> QED BY <2>1, <2>2
<1>2. /\ HeadMatches' = HeadMatches /\ (\A m : IsNew(m)' = IsNew(m) /\ IsIgnored(m)' = IsIgnored(m))
      /\ Complete' = Complete /\ Comparable' = Comparable
      /\ InFiles(run.kept)' = InFiles(run.kept)
  BY <1>0, <1>1 DEF HeadMatches, Names, Path, HeadCount, BaseName, IsNew, BaseCount, Renamed,
       IsIgnored, Complete, Comparable, InFiles
<1>3. {m \in HeadMatches : IsNew(m) /\ (job.keep \/ ~IsIgnored(m))}' =
        {m \in HeadMatches : IsNew(m) /\ (job.keep \/ ~IsIgnored(m))}
  BY <1>0, <1>2
<1> QED BY <1>0, <1>1, <1>2, <1>3 DEF DiffInv

(* A diff scan in which no file was in error reports the new findings, all *)
(* of them and no other, when the root is relative or the repository clean *)
(* (run_scan.py, remove_matches_in_baseline).                              *)
THEOREM NewIsReported == Spec => []ReportsWhatIsNew
<1>1. ASSUME TreeInv, DiffInv, [Next]_vars PROVE DiffInv'
  <2>1. CASE QuietStep
    BY <1>1, <2>1, QuietSteps, DiffMoves DEF TreeInv, TypeOK
  <2> QED BY <1>1, <2>1, CoreDoneDiff, JoinsEndDiff, SelectDiff, RemoveDiff, FilterDiff, LastDiff
          DEF Next, QuietStep
<1>2. TreeInv /\ DiffInv => ReportsWhatIsNew
  <2> SUFFICES ASSUME TreeInv, DiffInv, pc = "exited", run.why = "output", job.baseline,
                      run.lost = {}, job.absolute => ~job.dirty
               PROVE  {m \in run.kept : m.path.name \in Names("head")} =
                        {m \in HeadMatches : IsNew(m) /\ (job.keep \/ ~IsIgnored(m))}
    BY DEF ReportsWhatIsNew, HeadMatches
  <2>1. InFiles(run.kept) = {m \in HeadMatches : IsNew(m) /\ (job.keep \/ ~IsIgnored(m))}
    BY DEF DiffInv, Complete, Comparable
  <2>2. \A m \in HeadMatches : m.path.name \in Names("head")
    BY OnHead DEF DiffInv, Names
  <2>3. Names("head") \subseteq FileNames
    BY DEF Names, FileNames
  <2> QED BY <2>1, <2>2, <2>3 DEF InFiles
<1> QED BY InitDiff, <1>1, <1>2, RepositoryFollowed, PTL DEF Spec


-----------------------------------------------------------------------------
(* Fixes.                                                                  *)

KeptInv == TreeInv /\ (pc = "fix" => \A m \in run.kept : job.keep \/ ~IsIgnored(m))

LEMMA OnlyFixesFix ==
  ASSUME IsRun(run), Next \/ UNCHANGED vars, ~ApplyFixes
  PROVE  run'.fixed = run.fixed
<1>1. ASSUME NEW code, NEW why, Leave(code, why) \/ Raise(code, why)
      PROVE  run'.fixed = run.fixed
  BY <1>1, LeaveEffect, RaiseEffect DEF SameFindings
<1>2. CASE UNCHANGED run
  BY <1>2
<1>3. CASE LoadRules
  <2>1. CASE \E errs : run' = [run EXCEPT !.errs = errs]
    BY <2>1 DEF IsRun
  <2> QED BY <1>1, <1>3, <2>1 DEF LoadRules
<1>4. CASE CoreDone
  <2>1. CASE Raise(2, "core")
    BY <1>1, <2>1
  <2>2. ASSUME NEW levels, NEW lost,
          LET matches == UNION {Found(p) : p \in Scanned \ lost}
              more == [i \in DOMAIN levels |-> [level |-> levels[i], about |-> run.pass]]
              seen == IF run.pass = "head"
                      THEN [run EXCEPT !.matches = matches, !.lost = Lost("head", lost)]
                      ELSE [run EXCEPT !.base = matches, !.lost = @ \cup Lost("base", lost)]
          IN IF job.joins = <<>>
             THEN run' = [seen EXCEPT !.errs = Handled(@, more)] /\ Goto(AfterRun)
             ELSE run' = [seen EXCEPT !.more = more] /\ Goto("join")
        PROVE  run'.fixed = run.fixed
    <3> DEFINE matches == UNION {Found(p) : p \in Scanned \ lost}
               more == [i \in DOMAIN levels |-> [level |-> levels[i], about |-> run.pass]]
               headLost == Lost("head", lost)
               baseLost == run.lost \cup Lost("base", lost)
               headRun == [run EXCEPT !.matches = matches, !.lost = headLost]
               baseRun == [run EXCEPT !.base = matches, !.lost = baseLost]
               seen == IF run.pass = "head" THEN headRun ELSE baseRun
               errs == Handled(seen.errs, more)
    <3>1. run' = [seen EXCEPT !.errs = errs] \/ run' = [seen EXCEPT !.more = more]
      BY <2>2 DEF IsRun
    <3> HIDE DEF errs, more, matches, headLost, baseLost
    <3>2. headRun.fixed = run.fixed /\ "fixed" \in DOMAIN headRun
      BY DEF IsRun
    <3>3. baseRun.fixed = run.fixed /\ "fixed" \in DOMAIN baseRun
      BY DEF IsRun
    <3>4. seen.fixed = run.fixed /\ "fixed" \in DOMAIN seen
      BY <3>2, <3>3
    <3> HIDE DEF seen
    <3> QED BY <3>1, <3>4
  <2> QED BY <1>4, <2>1, <2>2 DEF CoreDone
<1>5. CASE JoinsEnd
  <2>1. CASE \E ms, errs : \/ run' = [run EXCEPT !.matches = ms, !.errs = errs]
                           \/ run' = [run EXCEPT !.base = ms, !.errs = errs]
    BY <2>1 DEF IsRun
  <2> QED BY <1>1, <1>5, <2>1 DEF JoinsEnd
<1>6. CASE RemoveMatches
  <2>1. CASE \E ms : run' = [run EXCEPT !.matches = ms]
    BY <2>1 DEF IsRun
  <2> QED BY <1>6, <2>1 DEF RemoveMatches
<1>7. CASE FilterIgnored
  <2>1. CASE \E ms : run' = [run EXCEPT !.kept = ms]
    BY <2>1 DEF IsRun
  <2> QED BY <1>7, <2>1 DEF FilterIgnored
<1>8. CASE run' = [run EXCEPT !.fault = TRUE]
  BY <1>8, FaultEffect
<1>9. CASE run' = [run EXCEPT !.pass = "base"]
  BY <1>9 DEF IsRun
<1>10. CASE CheckFlags \/ Validate \/ FindTargets \/ PrepareCore
  BY <1>1, <1>2, <1>10 DEF CheckFlags, Validate, FindTargets, PrepareCore
<1>11. CASE SelectBaseline
  BY <1>1, <1>2, <1>9, <1>11 DEF SelectBaseline
<1>12. CASE ResetToBase \/ OpenWorktree \/ CheckoutWorktree \/ LeaveBaseline \/ WriteOutputs
  BY <1>1, <1>2, <1>8, <1>12
     DEF ResetToBase, OpenWorktree, CheckoutWorktree, LeaveBaseline, WriteOutputs
<1>13. CASE CoreRuns \/ JoinRuns \/ UNCHANGED vars
  BY <1>2, <1>13 DEF CoreRuns, JoinRuns, vars
<1> QED BY <1>3, <1>4, <1>5, <1>6, <1>7, <1>10, <1>11, <1>12, <1>13 DEF Next

(* Fixes are written when the head is checked out, and never for a finding *)
(* that was removed as old or as ignored (autofix.py).                     *)
THEOREM FixesAreReported == Spec => FixesTheReported
<1> DEFINE Fixes == run'.fixed # run.fixed =>
                      /\ tree.head = "head" /\ tree.cwd = "repo"
                      /\ run'.fixed \subseteq run.kept
                      /\ \A m \in run'.fixed : job.keep \/ ~IsIgnored(m)
<1>1. ASSUME TreeInv, [Next]_vars PROVE KeptInv => KeptInv'
  <2> SUFFICES ASSUME KeptInv PROVE pc' = "fix" => \A m \in run'.kept : job'.keep \/ ~IsIgnored(m)'
    <3> TreeInv'
      BY <1>1, StepTree
    <3> QED BY DEF KeptInv
  <2>1. CASE FilterIgnored
    <3> DEFINE kept == {m \in run.matches : job.keep \/ ~IsIgnored(m)}
    <3>1. run' = [run EXCEPT !.kept = kept] /\ UNCHANGED job /\ IsRun(run)
      BY <2>1 DEF FilterIgnored, KeptInv, TreeInv, TypeOK
    <3>2. \A m \in kept : job.keep \/ ~IsIgnored(m)
      OBVIOUS
    <3> HIDE DEF kept
    <3>3. run'.kept = kept
      BY <3>1 DEF IsRun
    <3> QED BY <3>1, <3>2, <3>3 DEF IsIgnored
  <2>2. CASE UNCHANGED <<pc, job, run>>
    BY <2>2 DEF KeptInv, IsIgnored
  <2>3. CASE ~FilterIgnored /\ ~UNCHANGED <<pc, job, run>>
    <3> pc' # "fix"
      <4>1. ASSUME NEW code, NEW why, Leave(code, why) \/ Raise(code, why) PROVE pc' # "fix"
        BY <4>1 DEF Leave, Raise
      <4> QED BY <1>1, <2>3, <4>1
              DEF Next, vars, CheckFlags, Validate, LoadRules, FindTargets, PrepareCore, CoreRuns,
                  CoreDone, JoinRuns, JoinsEnd, SelectBaseline, ResetToBase, OpenWorktree,
                  CheckoutWorktree, RemoveMatches, LeaveBaseline, ApplyFixes, WriteOutputs, AfterRun
    <3> QED OBVIOUS
  <2> QED BY <2>1, <2>2, <2>3
<1>2. Init => KeptInv
  BY InitTree DEF Init, KeptInv
<1>3. KeptInv /\ [Next]_vars => [Fixes]_vars
  <2> SUFFICES ASSUME KeptInv, [Next]_vars, run'.fixed # run.fixed
               PROVE  /\ tree.head = "head" /\ tree.cwd = "repo"
                      /\ run'.fixed \subseteq run.kept
                      /\ \A m \in run'.fixed : job.keep \/ ~IsIgnored(m)
    OBVIOUS
  <2>1. IsRun(run)
    BY DEF KeptInv, TreeInv, TypeOK
  <2>2. ApplyFixes
    BY <2>1, OnlyFixesFix
  <2>3. pc = "fix" /\ run'.fixed = run.kept
    <3> run' = [run EXCEPT !.fixed = run.kept]
      BY <2>2 DEF ApplyFixes
    <3> QED BY <2>1, <2>2 DEF ApplyFixes, IsRun
  <2> QED BY <2>3 DEF KeptInv, TreeInv, Standing, Restored
<1> QED BY <1>1, <1>2, <1>3, RepositoryFollowed, PTL DEF Spec, FixesTheReported


-----------------------------------------------------------------------------
(* The output of semgrep-core.                                             *)

Pieces == {"dot", "more", "json", "half", "cut"}
IsCore(c) == c \in [pipe : Seq(Pieces), sent : {c.sent}, wrote : {"nothing", "json", "half", "cut"},
                    state : {"none", "running", "dead"}, rc : {c.rc}]
IsReader(r) == r \in [mode : {"idle", "progress", "json", "eof", "broken"},
                      text : Pieces \cup {"nothing"}, seen : {r.seen}, total : {r.total},
                      stderr : BOOLEAN]

(* A document is in the pipe, or was read, only if the process wrote it    *)
(* whole; the stream ends when the process is dead and the pipe empty.     *)
CoreInv ==
    /\ IsCore(core) /\ IsReader(reader)
    /\ \A i \in 1..Len(core.pipe) : core.pipe[i] = "json" => core.wrote = "json"
    /\ reader.text = "json" => core.wrote = "json"
    /\ reader.mode = "eof" => core.pipe = <<>> /\ core.state = "dead"

LEMMA FreshCore == core' = [NoCore EXCEPT !.state = "running"] \/ core' = NoCore =>
                     IsCore(core') /\ core'.pipe = <<>>
<1> DEFINE nil == <<>>
<1>1. nil \in Seq(Pieces)
  OBVIOUS
<1>2. NoCore = [pipe |-> nil, sent |-> 0, wrote |-> "nothing", state |-> "none", rc |-> 0]
  BY DEF NoCore
<1> HIDE DEF nil
<1>3. IsCore(NoCore) /\ NoCore.pipe = nil
  BY <1>1, <1>2 DEF IsCore
<1>4. LET c == [NoCore EXCEPT !.state = "running"] IN IsCore(c) /\ c.pipe = nil
  BY <1>3 DEF IsCore
<1> QED BY <1>3, <1>4 DEF nil

(* What the process writes; c is what it appends to the pipe, if anything. *)
LEMMA WriterKeepsCore ==
  ASSUME CoreInv, Progress \/ Document \/ CoreEnds
  PROVE  CoreInv'
<1>0. IsCore(core) /\ UNCHANGED reader /\ reader.mode # "eof"
  BY DEF Progress, Document, CoreEnds, CoreInv
<1>1. PICK c \in Pieces : core'.pipe \in {core.pipe, Append(core.pipe, c)}
                         /\ (c = "json" => core'.wrote = "json")
                         /\ (core.wrote = "json" => core'.wrote = "json")
                         /\ IsCore(core')
  <2>1. CASE Progress
    <3>1. PICK c \in {"dot", "more"} :
               core' = [core EXCEPT !.pipe = Append(@, c), !.sent = @ + 1]
      BY <2>1 DEF Progress
    <3>2. Append(core.pipe, c) \in Seq(Pieces)
      BY <1>0 DEF IsCore, Pieces
    <3>3. core'.pipe = Append(core.pipe, c) /\ core'.wrote = core.wrote
      BY <1>0, <3>1 DEF IsCore
    <3> DEFINE q == Append(core.pipe, c)  n == core.sent + 1  r == [core EXCEPT !.pipe = q]
    <3>4. core' = [r EXCEPT !.sent = n]
      BY <1>0, <3>1 DEF IsCore
    <3> HIDE DEF q, n
    <3>5. IsCore(r)
      BY <1>0, <3>2 DEF IsCore, q
    <3> HIDE DEF r
    <3>6. IsCore(core')
      BY <3>4, <3>5 DEF IsCore
    <3> QED BY <3>3, <3>6 DEF Pieces
  <2>2. CASE Document
    <3>1. core' = [core EXCEPT !.pipe = Append(@, "json"), !.wrote = "json"]
      BY <2>2 DEF Document
    <3>2. Append(core.pipe, "json") \in Seq(Pieces)
      BY <1>0 DEF IsCore, Pieces
    <3>3. core'.pipe = Append(core.pipe, "json") /\ core'.wrote = "json"
      BY <1>0, <3>1 DEF IsCore
    <3> DEFINE q == Append(core.pipe, "json")  r == [core EXCEPT !.pipe = q]
    <3>4. core' = [r EXCEPT !.wrote = "json"]
      BY <1>0, <3>1 DEF IsCore
    <3> HIDE DEF q
    <3>5. IsCore(r)
      BY <1>0, <3>2 DEF IsCore, q
    <3> HIDE DEF r
    <3>6. IsCore(core')
      BY <3>4, <3>5 DEF IsCore
    <3> QED BY <3>3, <3>6 DEF Pieces
  <2>3. CASE CoreEnds
    <3>1. CASE core' = [core EXCEPT !.state = "dead"]
      BY <1>0, <3>1 DEF IsCore, Pieces
    <3>2. ASSUME NEW rc, core' = [core EXCEPT !.state = "dead", !.rc = rc]
          PROVE  IsCore(core') /\ core'.pipe = core.pipe /\ core'.wrote = core.wrote
      <4> DEFINE r == [core EXCEPT !.state = "dead"]
      <4>1. IsCore(r) /\ r.pipe = core.pipe /\ r.wrote = core.wrote /\ core' = [r EXCEPT !.rc = rc]
        BY <1>0, <3>2 DEF IsCore
      <4> HIDE DEF r
      <4> QED BY <4>1 DEF IsCore
    <3>3. ASSUME NEW rc, NEW part \in {"half", "cut"}, core.wrote = "nothing",
                 core' = [core EXCEPT !.state = "dead", !.rc = rc, !.wrote = part,
                                      !.pipe = Append(@, part)]
          PROVE  IsCore(core') /\ core'.pipe = Append(core.pipe, part)
      <4> DEFINE q == Append(core.pipe, part)  r1 == [core EXCEPT !.state = "dead"]
                 r2 == [r1 EXCEPT !.rc = rc]  r3 == [r2 EXCEPT !.wrote = part]
      <4>1. q \in Seq(Pieces)
        BY <1>0 DEF IsCore, Pieces
      <4>2. core' = [r3 EXCEPT !.pipe = q]
        BY <1>0, <3>3 DEF IsCore
      <4> HIDE DEF q
      <4>3. IsCore(r1)
        BY <1>0 DEF IsCore
      <4> HIDE DEF r1
      <4>4. IsCore(r2)
        BY <4>3 DEF IsCore
      <4> HIDE DEF r2
      <4>5. IsCore(r3)
        BY <4>4 DEF IsCore
      <4> HIDE DEF r3
      <4>6. IsCore(core') /\ core'.pipe = q
        BY <4>1, <4>2, <4>5 DEF IsCore
      <4> QED BY <4>6 DEF q
    <3>4. core.wrote # "json" => core.wrote # "json"
      OBVIOUS
    <3> QED BY <2>3, <3>1, <3>2, <3>3 DEF CoreEnds, Pieces, IsCore
  <2> QED BY <2>1, <2>2, <2>3
<1>2. \A i \in 1..Len(core'.pipe) : core'.pipe[i] = "json" => core'.wrote = "json"
  <2>1. core.pipe \in Seq(Pieces)
    BY <1>0 DEF IsCore
  <2>2. CASE core'.pipe = core.pipe
    BY <1>1, <2>2 DEF CoreInv
  <2>3. CASE core'.pipe = Append(core.pipe, c)
    BY <1>1, <2>1, <2>3 DEF CoreInv
  <2> QED BY <1>1, <2>2, <2>3
<1> QED BY <1>0, <1>1, <1>2 DEF CoreInv

(* What the reader takes from the pipe.                                    *)
LEMMA ReaderKeepsCore ==
  ASSUME CoreInv, NEW interfile, ReadProgress(interfile) \/ ReadDocument \/ ReadStderr
  PROVE  CoreInv'
<1>0. IsCore(core) /\ IsReader(reader) /\ core.pipe \in Seq(Pieces)
  BY DEF CoreInv, IsCore
<1>1. ASSUME NEW mode \in {"eof", "broken"}, UNCHANGED core, mode = "eof" => AtEof,
             reader' = [reader EXCEPT !.mode = mode]
      PROVE  CoreInv'
  <2>1. IsReader(reader') /\ reader'.mode = mode /\ reader'.text = reader.text
    BY <1>0, <1>1 DEF IsReader
  <2> QED BY <1>1, <2>1 DEF CoreInv, AtEof, IsCore
<1>2. CASE UNCHANGED core /\ reader' = [reader EXCEPT !.stderr = TRUE]
  <2>1. IsReader(reader') /\ reader'.mode = reader.mode /\ reader'.text = reader.text
    BY <1>0, <1>2 DEF IsReader
  <2> QED BY <1>2, <2>1 DEF CoreInv, IsCore
<1>3. ASSUME core.pipe # <<>>, Took, IsReader(reader'), reader'.mode # "eof",
             reader'.text \in {reader.text, Head(core.pipe), "half"}
      PROVE  CoreInv'
  <2>1. /\ core' = [core EXCEPT !.pipe = Tail(@)]
        /\ Tail(core.pipe) \in Seq(Pieces) /\ Len(Tail(core.pipe)) = Len(core.pipe) - 1
        /\ \A i \in 1..Len(Tail(core.pipe)) : Tail(core.pipe)[i] = core.pipe[i + 1]
        /\ Head(core.pipe) = core.pipe[1] /\ Len(core.pipe) >= 1 /\ Len(core.pipe) \in Nat
    BY <1>0, <1>3 DEF Took
  <2>2. IsCore(core') /\ core'.pipe = Tail(core.pipe) /\ core'.wrote = core.wrote
    BY <1>0, <2>1 DEF IsCore
  <2>3. \A i \in 1..Len(core'.pipe) : core'.pipe[i] = "json" => core'.wrote = "json"
    <3> SUFFICES ASSUME NEW i \in 1..Len(Tail(core.pipe)), Tail(core.pipe)[i] = "json"
                 PROVE  core.wrote = "json"
      BY <2>2
    <3>1. i + 1 \in 1..Len(core.pipe) /\ core.pipe[i + 1] = "json"
      BY <2>1
    <3> QED BY <3>1 DEF CoreInv
  <2>4. reader'.text = "json" => core'.wrote = "json"
    BY <1>3, <2>1, <2>2 DEF CoreInv
  <2> QED BY <1>3, <2>2, <2>3, <2>4 DEF CoreInv
<1>4. CASE ReadProgress(interfile) /\ core.pipe # <<>> /\ Took
  <2>1. Head(core.pipe) \in Pieces
    BY <1>0, <1>4
  <2>2. /\ reader.mode = "progress"
        /\ \/ \E n : reader' = [reader EXCEPT !.seen = n] \/ reader' = [reader EXCEPT !.total = n]
           \/ reader' = [reader EXCEPT !.mode = "broken"]
           \/ reader' = [reader EXCEPT !.mode = "json", !.text = Head(core.pipe)]
    <3>1. reader.mode = "progress"
      BY <1>4 DEF ReadProgress
    <3>2. reader' = CASE Head(core.pipe) = "dot" -> [reader EXCEPT !.seen = @ + Step(interfile)]
                      [] Head(core.pipe) = "more" -> [reader EXCEPT !.total = @ + 1]
                      [] Head(core.pipe) = "cut" -> [reader EXCEPT !.mode = "broken"]
                      [] OTHER -> [reader EXCEPT !.mode = "json", !.text = Head(core.pipe)]
      BY <1>4 DEF ReadProgress, AtEof
    <3> DEFINE n == reader.seen + Step(interfile)  k == reader.total + 1
    <3>3. CASE Head(core.pipe) = "dot"
      <4> reader' = [reader EXCEPT !.seen = n]
        BY <3>2, <3>3
      <4> QED BY <3>1
    <3>4. CASE Head(core.pipe) = "more"
      <4> reader' = [reader EXCEPT !.total = k]
        BY <3>2, <3>4
      <4> QED BY <3>1
    <3>5. CASE Head(core.pipe) = "cut"
      BY <3>1, <3>2, <3>5
    <3>6. CASE Head(core.pipe) \notin {"dot", "more", "cut"}
      BY <3>1, <3>2, <3>6
    <3> QED BY <3>3, <3>4, <3>5, <3>6
  <2>3. CASE \E n : reader' = [reader EXCEPT !.seen = n] \/ reader' = [reader EXCEPT !.total = n]
    <3> IsReader(reader') /\ reader'.mode = reader.mode /\ reader'.text = reader.text
      BY <1>0, <2>3 DEF IsReader
    <3> QED BY <1>3, <1>4, <2>2
  <2>4. CASE reader' = [reader EXCEPT !.mode = "broken"]
    <3> IsReader(reader') /\ reader'.mode = "broken" /\ reader'.text = reader.text
      BY <1>0, <2>4 DEF IsReader
    <3> QED BY <1>3, <1>4
  <2>5. CASE reader' = [reader EXCEPT !.mode = "json", !.text = Head(core.pipe)]
    <3> DEFINE h == Head(core.pipe)  r == [reader EXCEPT !.mode = "json"]
    <3>1. h \in Pieces /\ reader' = [r EXCEPT !.text = h] /\ IsReader(r) /\ r.mode = "json"
      BY <1>0, <2>1, <2>5 DEF IsReader
    <3> HIDE DEF h, r
    <3>2. IsReader(reader') /\ reader'.mode = "json" /\ reader'.text = h
      BY <3>1 DEF IsReader
    <3> QED BY <1>3, <1>4, <3>2 DEF h
  <2> QED BY <2>2, <2>3, <2>4, <2>5
<1>5. CASE ReadDocument /\ core.pipe # <<>> /\ Took /\ reader' = [reader EXCEPT !.text = "half"]
  <2> IsReader(reader') /\ reader'.mode = reader.mode /\ reader'.text = "half"
    BY <1>0, <1>5 DEF IsReader, Pieces
  <2> reader.mode = "json"
    BY <1>5 DEF ReadDocument
  <2> QED BY <1>3, <1>5
<1> QED BY <1>1, <1>2, <1>4, <1>5 DEF ReadProgress, ReadDocument, ReadStderr

LEMMA StepCore == ASSUME CoreInv, [Next]_vars PROVE CoreInv'
<1>1. CASE UNCHANGED coreVars
  BY <1>1 DEF coreVars, CoreInv, IsCore, IsReader
<1>2. CASE StartCore \/ Reaped
  <2>1. core' = [NoCore EXCEPT !.state = "running"] \/ core' = NoCore
    BY <1>2 DEF StartCore, Reaped
  <2>2. IsReader(reader') /\ reader'.mode \in {"idle", "progress"} /\ reader'.text = "nothing"
    <3>1. CASE Reaped
      BY <3>1 DEF Reaped, NoReader, IsReader, Pieces
    <3>2. CASE StartCore
      <4> DEFINE r == [NoReader EXCEPT !.mode = "progress"]  n == 3 * Targets
      <4>1. IsReader(r) /\ r.mode = "progress" /\ r.text = "nothing"
        BY DEF NoReader, IsReader, Pieces
      <4>2. reader' = [r EXCEPT !.total = n]
        BY <3>2 DEF StartCore, NoReader
      <4> HIDE DEF r, n
      <4> QED BY <4>1, <4>2 DEF IsReader
    <3> QED BY <1>2, <3>1, <3>2
  <2> QED BY <2>1, <2>2, FreshCore DEF CoreInv
<1>3. CASE CoreRuns
  BY <1>3, WriterKeepsCore, ReaderKeepsCore DEF CoreRuns, CoreStep
<1> QED BY <1>1, <1>2, <1>3
        DEF Next, vars, CheckFlags, Validate, LoadRules, FindTargets, PrepareCore, CoreDone,
            JoinRuns, JoinsEnd, SelectBaseline, ResetToBase, OpenWorktree, CheckoutWorktree,
            RemoveMatches, LeaveBaseline, FilterIgnored, ApplyFixes, WriteOutputs, coreVars

(* What semgrep-core reports counts only when it wrote the whole document  *)
(* and ended by itself (core_runner.py).                                   *)
THEOREM ResultsVouched == Spec => ResultsAreVouched
<1> DEFINE Vouched == (pc = "core" /\ pc' \in {"join", "select", "filter", "remove"})
                        => core.wrote = "json" /\ core.rc = 0 /\ core.pipe = <<>>
<1>1. Init => CoreInv
  BY DEF Init, CoreInv, NoCore, NoReader, IsCore, IsReader, Pieces
<1>2. CoreInv /\ [Next]_vars => [Vouched]_vars
  <2> SUFFICES ASSUME CoreInv, Next, pc = "core", pc' \in {"join", "select", "filter", "remove"}
               PROVE  core.wrote = "json" /\ core.rc = 0 /\ core.pipe = <<>>
    BY DEF vars
  <2>1. CoreDone
    BY DEF Next, CheckFlags, Validate, LoadRules, FindTargets, PrepareCore, CoreRuns,
           JoinRuns, JoinsEnd, SelectBaseline, ResetToBase, OpenWorktree, CheckoutWorktree,
           RemoveMatches, LeaveBaseline, FilterIgnored, ApplyFixes, WriteOutputs
  <2>2. ~Raise(2, "core")
    BY DEF Raise, Leave
  <2>3. CoreAnswered
    BY <2>1, <2>2 DEF CoreDone
  <2> QED BY <2>3 DEF CoreAnswered, CoreInv
<1> QED BY <1>1, <1>2, StepCore, PTL DEF Spec, ResultsAreVouched


-----------------------------------------------------------------------------
(* What a clean exit may hide.                                             *)

Straight == job.absolute => ~job.dirty
Old(m) == job.baseline /\ ~IsNew(m)
LostHead(path) == [pass |-> "head", path |-> path] \in run.lost
Told == \E e \in run.errs.seen : e.about = "head" /\ e.level # "info"
Pending == \E i \in DOMAIN run.more : run.more[i].about = "head" /\ run.more[i].level # "info"

AfterHead == \/ pc \in {"join", "select"}
             \/ run.pass = "base" /\ pc \notin {"leave", "filter", "fix", "output", "exited"}
Sifted == pc = "filter" \/ (pc = "leave" /\ ~run.fault)
Reported == pc \in {"fix", "output"} \/ run.why = "output"

(* Where a finding of the head is, at each place of the scan, or why it is *)
(* not there; and that the user is told of the files that lost theirs.     *)
HideInv ==
    /\ pc = "select" \/ run.pass = "base" => job.baseline
    /\ pc # "exited" \/ run.why = "output" =>
         \A path : LostHead(path) => Told \/ (pc = "join" /\ run.pass = "head" /\ Pending)
    /\ AfterHead => /\ InFiles(run.matches) \subseteq HeadMatches
                    /\ \A m \in HeadMatches : m \in run.matches \/ LostHead(m.path)
    /\ Comparable /\ run.pass = "base" /\ pc \in {"join", "remove"} => BaseSound
    /\ Straight /\ Sifted =>
         \A m \in HeadMatches : m \in run.matches \/ Old(m) \/ LostHead(m.path)
    /\ Straight /\ Reported =>
         \A m \in HeadMatches : m \in run.kept \/ IsIgnored(m) \/ Old(m) \/ LostHead(m.path)
    /\ ~job.baseline /\ pc = "filter" => JoinMatches \subseteq run.matches
    /\ ~job.baseline /\ Reported => JoinMatches \subseteq run.kept
    /\ run.why = "output" /\ run.exit = 0 /\ job.error => \A m \in run.kept : IsIgnored(m)

LEMMA InitHide == Init => HideInv
BY DEF Init, HideInv, AfterHead, Sifted, Reported, LostHead

(* What depends on the project alone.                                      *)
LEMMA ProjectStays ==
  ASSUME UNCHANGED job
  PROVE  /\ HeadMatches' = HeadMatches /\ Straight' = Straight /\ Comparable' = Comparable
         /\ BasePaths' = BasePaths
         /\ \A m : IsNew(m)' = IsNew(m) /\ IsIgnored(m)' = IsIgnored(m) /\ Old(m)' = Old(m)
BY DEF HeadMatches, Names, Path, HeadCount, BaseName, Straight, Comparable, BasePaths, IsNew,
       BaseCount, Renamed, IsIgnored, Old

LEMMA HideMoves ==
  ASSUME HideInv, DiffInv, TreeInv, Quiet
  PROVE  HideInv'
<1>1. /\ UNCHANGED job /\ run'.matches = run.matches /\ run'.base = run.base
      /\ run'.lost = run.lost /\ run'.kept = run.kept
      /\ run'.more = run.more /\ run.errs.seen \subseteq run'.errs.seen
  BY DEF Quiet, SameFindings
<1>2. /\ \A path : LostHead(path)' = LostHead(path)
      /\ (Told => Told') /\ Pending' = Pending
      /\ InFiles(run.matches)' = InFiles(run.matches)
      /\ BaseSound => BaseSound'
  BY <1>1, ProjectStays DEF LostHead, Told, Pending, InFiles, BaseSound, IsMatch
<1>3. JoinMatches' = JoinMatches \/ pc = "join"
  BY DEF Quiet, JoinMatches
<1>5. (pc = "select" \/ run.pass = "base" => job.baseline)'
  BY <1>1 DEF HideInv, Quiet, IsRun
<1>6. (pc # "exited" \/ run.why = "output" =>
         \A path : LostHead(path) => Told \/ (pc = "join" /\ run.pass = "head" /\ Pending))'
  BY <1>1, <1>2 DEF HideInv, DiffInv, Quiet
<1>7. (AfterHead => /\ InFiles(run.matches) \subseteq HeadMatches
                    /\ \A m \in HeadMatches : m \in run.matches \/ LostHead(m.path))'
  <2>1. AfterHead' => AfterHead
    BY DEF AfterHead, Quiet
  <2> QED BY <1>1, <1>2, <2>1, ProjectStays DEF HideInv
<1>8. (Comparable /\ run.pass = "base" /\ pc \in {"join", "remove"} => BaseSound)'
  <2>1. run'.pass = "base" /\ pc' \in {"join", "remove"} => run.pass = "base" /\ pc \in {"join", "remove"}
    BY DEF Quiet
  <2> QED BY <1>1, <1>2, <2>1, ProjectStays DEF HideInv
<1>9. (Straight /\ Sifted =>
         \A m \in HeadMatches : m \in run.matches \/ Old(m) \/ LostHead(m.path))'
  <2>1. Sifted' => Sifted
    BY DEF Sifted, Quiet
  <2> QED BY <1>1, <1>2, <2>1, ProjectStays DEF HideInv
<1>10. Reported' => Reported
  BY DEF Reported, Quiet
<1>11. (Straight /\ Reported =>
         \A m \in HeadMatches : m \in run.kept \/ IsIgnored(m) \/ Old(m) \/ LostHead(m.path))'
  BY <1>1, <1>2, <1>10, ProjectStays DEF HideInv
<1>12. (~job.baseline /\ pc = "filter" => JoinMatches \subseteq run.matches)'
  <2>1. pc' = "filter" => pc = "filter" \/ (pc = "leave" /\ run.pass = "base")
    BY DEF Quiet, TreeInv, Passes
  <2> QED BY <1>1, <1>3, <2>1 DEF HideInv
<1>13. (~job.baseline /\ Reported => JoinMatches \subseteq run.kept)'
  <2>1. Reported' => pc # "join"
    BY <1>10 DEF Reported, DiffInv
  <2> QED BY <1>1, <1>3, <1>10, <2>1 DEF HideInv
<1>14. (run.why = "output" /\ run.exit = 0 /\ job.error => \A m \in run.kept : IsIgnored(m))'
  <2>1. run'.why = "output" => run.why = "output" /\ run'.exit = run.exit
    BY DEF Quiet, DiffInv
  <2> QED BY <1>1, <2>1, ProjectStays DEF HideInv
<1> QED BY <1>5, <1>6, <1>7, <1>8, <1>9, <1>11, <1>12, <1>13, <1>14 DEF HideInv
(* What a run of semgrep-core leaves when it answered.                     *)
Scans(matches, lost) ==
    /\ lost \subseteq Scanned /\ matches = UNION {Found(p) : p \in Scanned \ lost}
    /\ IF run.pass = "head"
       THEN run'.matches = matches /\ run'.base = run.base /\ run'.lost = Lost("head", lost)
       ELSE /\ run'.matches = run.matches /\ run'.base = matches
            /\ run'.lost = run.lost \cup Lost("base", lost)

LEMMA CoreDoneEffect ==
  ASSUME IsRun(run), CoreDone, ~Raise(2, "core")
  PROVE  /\ UNCHANGED job /\ run'.pass = run.pass /\ run'.why = run.why
         /\ pc' = (IF job.joins = <<>> THEN AfterRun ELSE "join")
         /\ JoinMatches' = {}
         /\ run.errs.seen \subseteq run'.errs.seen
         /\ \E matches, lost :
              /\ Scans(matches, lost)
              /\ lost # {} /\ run.pass = "head" => IF job.joins = <<>> THEN Told' ELSE Pending'
<1>1. PICK levels \in {<<>>, <<"warn">>, <<"info">>, <<"warn", "info">>, <<"error">>} :
        \E lost \in SUBSET (IF levels \in {<<>>, <<"info">>} THEN {} ELSE Scanned) :
          LET matches == UNION {Found(p) : p \in Scanned \ lost}
              more == [i \in DOMAIN levels |-> [level |-> levels[i], about |-> run.pass]]
              seen == IF run.pass = "head"
                      THEN [run EXCEPT !.matches = matches, !.lost = Lost("head", lost)]
                      ELSE [run EXCEPT !.base = matches, !.lost = @ \cup Lost("base", lost)]
          IN IF job.joins = <<>>
             THEN run' = [seen EXCEPT !.errs = Handled(@, more)] /\ Goto(AfterRun)
             ELSE run' = [seen EXCEPT !.more = more] /\ Goto("join")
  BY DEF CoreDone
<1>2. PICK lost \in SUBSET (IF levels \in {<<>>, <<"info">>} THEN {} ELSE Scanned) :
          LET matches == UNION {Found(p) : p \in Scanned \ lost}
              more == [i \in DOMAIN levels |-> [level |-> levels[i], about |-> run.pass]]
              seen == IF run.pass = "head"
                      THEN [run EXCEPT !.matches = matches, !.lost = Lost("head", lost)]
                      ELSE [run EXCEPT !.base = matches, !.lost = @ \cup Lost("base", lost)]
          IN IF job.joins = <<>>
             THEN run' = [seen EXCEPT !.errs = Handled(@, more)] /\ Goto(AfterRun)
             ELSE run' = [seen EXCEPT !.more = more] /\ Goto("join")
  BY <1>1
<1>3. UNCHANGED job /\ join'.found = <<>>
  <2>1. join' = [NoJoin EXCEPT !.n = 1]
    BY DEF CoreDone
  <2> QED BY <2>1 DEF CoreDone, NoJoin
<1>4. JoinMatches' = {}
  BY <1>3 DEF JoinMatches
<1>5. ASSUME lost # {} PROVE 1 \in DOMAIN levels /\ levels[1] # "info"
  <2>1. lost \in SUBSET (IF levels \in {<<>>, <<"info">>} THEN {} ELSE Scanned)
    BY <1>2
  <2>2. levels \notin {<<>>, <<"info">>}
    BY <1>5, <2>1
  <2>3. levels = <<"warn">> \/ levels = <<"warn", "info">> \/ levels = <<"error">>
    BY <1>1, <2>2
  <2>4. CASE levels = <<"warn">>
    BY <2>4
  <2>5. CASE levels = <<"warn", "info">>
    BY <2>5
  <2>6. CASE levels = <<"error">>
    BY <2>6
  <2> QED BY <2>3, <2>4, <2>5, <2>6
<1>6. PICK matches, more, headLost, baseLost :
        /\ matches = UNION {Found(p) : p \in Scanned \ lost}
        /\ more = [i \in DOMAIN levels |-> [level |-> levels[i], about |-> run.pass]]
        /\ headLost = Lost("head", lost) /\ baseLost = run.lost \cup Lost("base", lost)
  OBVIOUS
<1>7. PICK headRun, baseRun :
        /\ headRun = [run EXCEPT !.matches = matches, !.lost = headLost]
        /\ baseRun = [run EXCEPT !.base = matches, !.lost = baseLost]
  OBVIOUS
<1>8. PICK seen : seen = IF run.pass = "head" THEN headRun ELSE baseRun
  OBVIOUS
<1>9. IF job.joins = <<>>
      THEN run' = [seen EXCEPT !.errs = Handled(seen.errs, more)] /\ pc' = AfterRun
      ELSE run' = [seen EXCEPT !.more = more] /\ pc' = "join"
  BY <1>2, <1>6, <1>7, <1>8 DEF IsRun
<1>10. /\ headRun.pass = run.pass /\ headRun.matches = matches /\ headRun.lost = headLost
       /\ headRun.base = run.base /\ headRun.why = run.why /\ headRun.errs = run.errs
       /\ IsRun(headRun)
  <2>1. PICK r : r = [run EXCEPT !.matches = matches]
    OBVIOUS
  <2>2. /\ IsRun(r) /\ r.pass = run.pass /\ headRun = [r EXCEPT !.lost = headLost]
        /\ r.matches = matches /\ r.base = run.base /\ r.why = run.why /\ r.errs = run.errs
    BY <1>7, <2>1 DEF IsRun
  <2> QED BY <2>2 DEF IsRun
<1>11. /\ baseRun.pass = run.pass /\ baseRun.base = matches /\ baseRun.lost = baseLost
       /\ baseRun.matches = run.matches /\ baseRun.why = run.why /\ baseRun.errs = run.errs
       /\ IsRun(baseRun)
  <2>1. PICK r : r = [run EXCEPT !.base = matches]
    OBVIOUS
  <2>2. /\ IsRun(r) /\ r.pass = run.pass /\ baseRun = [r EXCEPT !.lost = baseLost]
        /\ r.base = matches /\ r.matches = run.matches /\ r.why = run.why /\ r.errs = run.errs
    BY <1>7, <2>1 DEF IsRun
  <2> QED BY <2>2 DEF IsRun
<1>12. IsRun(seen) /\ seen.errs = run.errs
  BY <1>8, <1>10, <1>11
<1>13. /\ run'.pass = seen.pass /\ run'.matches = seen.matches /\ run'.base = seen.base
       /\ run'.lost = seen.lost /\ run'.why = seen.why
       /\ IF job.joins = <<>> THEN run'.errs = Handled(run.errs, more)
          ELSE run'.errs = run.errs /\ run'.more = more
  <2>1. PICK errs : errs = Handled(run.errs, more)
    OBVIOUS
  <2>2. IF job.joins = <<>> THEN run' = [seen EXCEPT !.errs = errs]
        ELSE run' = [seen EXCEPT !.more = more]
    BY <1>9, <1>12, <2>1
  <2> QED BY <1>12, <2>1, <2>2 DEF IsRun
<1>14. run'.pass = run.pass /\ run'.why = run.why /\ Scans(matches, lost)
  BY <1>2, <1>6, <1>8, <1>10, <1>11, <1>13 DEF Scans
<1>15. run.errs.seen \subseteq run'.errs.seen
  BY <1>13, HandledKeeps
<1>16. ASSUME lost # {}, run.pass = "head" PROVE IF job.joins = <<>> THEN Told' ELSE Pending'
  <2>1. 1 \in DOMAIN more /\ more[1].about = "head" /\ more[1].level # "info"
    BY <1>5, <1>6, <1>16
  <2>2. CASE job.joins = <<>>
    <3>1. more[1] \in run'.errs.seen
      BY <1>13, <2>1, <2>2, HandledKeeps
    <3> QED BY <2>1, <2>2, <3>1 DEF Told
  <2>3. CASE job.joins # <<>>
    <3>1. run'.more = more
      BY <1>13, <2>3
    <3> QED BY <2>1, <2>3, <3>1 DEF Pending
  <2> QED BY <2>2, <2>3
<1> QED BY <1>3, <1>4, <1>9, <1>14, <1>15, <1>16
(* A file that lost its findings is in error, and the user will be told.   *)
LEMMA CoreDoneHide == HideInv /\ DiffInv /\ TreeInv /\ CoreDone => HideInv'
<1> SUFFICES ASSUME HideInv, DiffInv, TreeInv, CoreDone PROVE HideInv'
  OBVIOUS
<1>0. pc = "core" /\ IsRun(run) /\ job \in Jobs /\ ~run.fault /\ run.why # "output"
  BY DEF CoreDone, TreeInv, TypeOK, DiffInv
<1>1. CASE Raise(2, "core")
  <2> UNCHANGED <<job, join>>
    BY <1>1 DEF Raise, Leave, CoreDone, AfterRun
  <2> QED BY <1>0, <1>1, RaiseIsQuiet, HideMoves
<1>2. CASE ~Raise(2, "core")
  <2>1. /\ UNCHANGED job /\ run'.pass = run.pass /\ run'.why = run.why
        /\ pc' = (IF job.joins = <<>> THEN AfterRun ELSE "join")
        /\ JoinMatches' = {} /\ run.errs.seen \subseteq run'.errs.seen
    BY <1>0, <1>2, CoreDoneEffect
  <2>2. PICK matches, lost :
          /\ Scans(matches, lost)
          /\ lost # {} /\ run.pass = "head" => IF job.joins = <<>> THEN Told' ELSE Pending'
    BY <1>0, <1>2, CoreDoneEffect
  <2>3. pc' \in {"join", "select", "filter", "remove"} /\ (Told => Told') /\ ~Reported'
    BY <1>0, <2>1 DEF AfterRun, Told, Reported
  <2>4. ASSUME NEW p \in lost, NEW pass PROVE [pass |-> pass, path |-> p] \in Lost(pass, lost)
    BY DEF Lost
  <2>5. CASE run.pass = "head"
    <3>1. /\ run'.matches = matches /\ run'.lost = Lost("head", lost) /\ lost \subseteq Scanned
          /\ matches = UNION {Found(p) : p \in Scanned \ lost}
      BY <2>2, <2>5 DEF Scans
    <3>2. UNION {Found(p) : p \in Scanned} = HeadMatches
      BY <1>0, <2>5, HeadScan DEF TreeInv, Standing
    <3>3. matches \subseteq HeadMatches
      BY <3>1, <3>2
    <3>4. ASSUME NEW m \in HeadMatches PROVE m \in matches \/ LostHead(m.path)'
      <4>1. PICK p \in Scanned : m \in Found(p)
        BY <3>2
      <4>2. m.path = p
        BY <4>1 DEF Found
      <4>3. CASE p \in lost
        BY <2>4, <3>1, <4>2, <4>3 DEF LostHead
      <4>4. CASE p \notin lost
        BY <3>1, <4>1, <4>4
      <4> QED BY <4>3, <4>4
    <3>5. ASSUME NEW path, LostHead(path)'
          PROVE  Told' \/ (pc' = "join" /\ run'.pass = "head" /\ Pending')
      <4>1. lost # {}
        BY <3>1, <3>5 DEF LostHead, Lost
      <4> QED BY <2>1, <2>2, <2>5, <4>1
    <3>6. pc' \in {"select", "filter"} => (pc' = "select" <=> job'.baseline)
      BY <2>1, <2>5 DEF AfterRun
    <3>7. InFiles(run.matches)' \subseteq HeadMatches
      BY <3>1, <3>3 DEF InFiles
    <3> QED BY <1>0, <2>1, <2>3, <2>5, <3>1, <3>4, <3>5, <3>6, <3>7, ProjectStays
            DEF HideInv, AfterHead, Sifted, Reported
  <2>6. CASE run.pass = "base"
    <3>1. /\ run'.matches = run.matches /\ run'.base = matches
          /\ run'.lost = run.lost \cup Lost("base", lost)
          /\ matches = UNION {Found(p) : p \in Scanned \ lost}
      BY <2>2, <2>6 DEF Scans
    <3>2. \A path : LostHead(path)' <=> LostHead(path)
      BY <3>1 DEF LostHead, Lost
    <3>3. /\ InFiles(run.matches) \subseteq HeadMatches /\ job.baseline
          /\ \A m \in HeadMatches : m \in run.matches \/ LostHead(m.path)
      BY <1>0, <2>6 DEF HideInv, AfterHead
    <3>4. InFiles(run.matches)' = InFiles(run.matches)
      BY <3>1 DEF InFiles
    <3>5. Comparable => BaseSound'
      <4> SUFFICES ASSUME Comparable PROVE BaseSound'
        OBVIOUS
      <4>1. PICK found : found = UNION {Found(p) : p \in Scanned}
        OBVIOUS
      <4>2. tree = IF job.dirty THEN [head |-> "head", cwd |-> "tmp", tmp |-> TRUE,
                                      worktree |-> TRUE, stuck |-> "none"]
                   ELSE [AtHead EXCEPT !.head = "base"]
        BY <1>0, <2>6 DEF TreeInv, Standing
      <4>3. \A b \in found : IsMatch(b) /\ b \in [path : BasePaths, index : 1..job.base]
        BY <1>0, <2>6, <3>3, <4>1, <4>2, BaseScan
      <4>4. matches \subseteq found
        BY <3>1, <4>1
      <4> QED BY <2>1, <3>1, <4>3, <4>4, ProjectStays DEF BaseSound, IsMatch
    <3>6. pc' \in {"join", "remove"}
      BY <2>1, <2>6 DEF AfterRun
    <3>7. \A path : LostHead(path) => Told
      BY <1>0 DEF HideInv
    <3> QED BY <1>0, <2>1, <2>3, <2>6, <3>1, <3>2, <3>3, <3>4, <3>5, <3>6, <3>7, ProjectStays
            DEF HideInv, AfterHead, Sifted, Reported
  <2> QED BY <1>0, <2>5, <2>6 DEF IsRun
<1> QED BY <1>1, <1>2

LEMMA JoinsEndEffect ==
  ASSUME IsRun(run), JoinsEnd, ~Raise(2, "join")
  PROVE  /\ UNCHANGED <<job, join>> /\ pc' = AfterRun /\ run'.pass = run.pass
         /\ run'.why = run.why /\ run'.lost = run.lost
         /\ IF run.pass = "head"
            THEN run'.matches = run.matches \cup JoinMatches /\ run'.base = run.base
            ELSE run'.matches = run.matches /\ run'.base = run.base \cup JoinMatches
         /\ run.errs.seen \subseteq run'.errs.seen
         /\ \A i \in DOMAIN run.more : run.more[i] \in run'.errs.seen
<1>1. PICK told, errs, ms, bs :
        /\ errs = Handled(Handled(run.errs, told), run.more)
        /\ ms = run.matches \cup JoinMatches /\ bs = run.base \cup JoinMatches
        /\ run' = IF run.pass = "head" THEN [run EXCEPT !.matches = ms, !.errs = errs]
                  ELSE [run EXCEPT !.base = bs, !.errs = errs]
  BY DEF JoinsEnd, IsRun
<1>2. PICK q : q = IF run.pass = "head" THEN [run EXCEPT !.matches = ms] ELSE [run EXCEPT !.base = bs]
  OBVIOUS
<1>3. /\ IsRun(q) /\ q.pass = run.pass /\ q.lost = run.lost /\ q.why = run.why
      /\ q.matches = IF run.pass = "head" THEN ms ELSE run.matches
      /\ q.base = IF run.pass = "head" THEN run.base ELSE bs
      /\ run' = [q EXCEPT !.errs = errs]
  BY <1>1, <1>2 DEF IsRun
<1>4. /\ run'.pass = q.pass /\ run'.lost = q.lost /\ run'.why = q.why
      /\ run'.matches = q.matches /\ run'.base = q.base /\ run'.errs = errs
  BY <1>3 DEF IsRun
<1>5. /\ run.errs.seen \subseteq errs.seen
      /\ \A i \in DOMAIN run.more : run.more[i] \in errs.seen
  <2>1. PICK first : first = Handled(run.errs, told)
    OBVIOUS
  <2> QED BY <1>1, <2>1, HandledKeeps
<1> QED BY <1>1, <1>3, <1>4, <1>5 DEF JoinsEnd

LEMMA JoinsEndHide == HideInv /\ DiffInv /\ TreeInv /\ JoinsEnd => HideInv'
<1> SUFFICES ASSUME HideInv, DiffInv, TreeInv, JoinsEnd PROVE HideInv'
  OBVIOUS
<1>0. pc = "join" /\ IsRun(run) /\ ~run.fault /\ run.why # "output" /\ UNCHANGED <<job, join>>
  BY DEF JoinsEnd, TreeInv, TypeOK, DiffInv
<1>1. CASE Raise(2, "join")
  BY <1>0, <1>1, RaiseIsQuiet, HideMoves
<1>2. CASE ~Raise(2, "join")
  <2>1. /\ pc' = AfterRun /\ run'.pass = run.pass
        /\ run'.why = run.why /\ run'.lost = run.lost
        /\ IF run.pass = "head"
           THEN run'.matches = run.matches \cup JoinMatches /\ run'.base = run.base
           ELSE run'.matches = run.matches /\ run'.base = run.base \cup JoinMatches
        /\ run.errs.seen \subseteq run'.errs.seen
        /\ \A i \in DOMAIN run.more : run.more[i] \in run'.errs.seen
    BY <1>0, <1>2, JoinsEndEffect
  <2>2. (\A path : LostHead(path)' = LostHead(path)) /\ JoinMatches' = JoinMatches
    BY <1>0, <2>1 DEF LostHead, JoinMatches
  <2>3. \A path : LostHead(path) => Told'
    <3>1. ASSUME NEW path, LostHead(path) PROVE Told \/ Pending
      BY <1>0, <3>1 DEF HideInv
    <3> QED BY <2>1, <3>1 DEF Told, Pending
  <2>4. /\ InFiles(run.matches) \subseteq HeadMatches
        /\ \A m \in HeadMatches : m \in run.matches \/ LostHead(m.path)
    BY <1>0 DEF HideInv, AfterHead
  <2>5. InFiles(run.matches)' = InFiles(run.matches)
    BY <2>1, JoinIsApart DEF InFiles
  <2>6. \A m \in HeadMatches : m \in run'.matches \/ LostHead(m.path)
    BY <2>1, <2>4
  <2>7. ~Reported' /\ (pc' = "filter" => run.pass = "head" /\ ~job.baseline)
        /\ (pc' = "select" => job.baseline) /\ pc' \in {"filter", "select", "remove"}
        /\ (pc' = "remove" <=> run.pass = "base")
    <3>1. run.pass \in {"head", "base"}
      BY <1>0 DEF IsRun
    <3> QED BY <1>0, <2>1, <3>1 DEF AfterRun, Reported
  <2>8. Comparable /\ run.pass = "base" => BaseSound'
    <3> SUFFICES ASSUME Comparable, run.pass = "base" PROVE BaseSound'
      OBVIOUS
    <3>1. BaseSound
      BY <1>0 DEF HideInv
    <3>2. run'.base = run.base \cup JoinMatches
      BY <2>1
    <3> QED BY <1>0, <3>1, <3>2, JoinIsApart, ProjectStays DEF BaseSound, IsMatch
  <2>9. run.pass = "base" => job.baseline
    BY DEF HideInv
  <2> QED BY <1>0, <2>1, <2>2, <2>3, <2>4, <2>5, <2>6, <2>7, <2>8, <2>9, ProjectStays
          DEF HideInv, AfterHead, Sifted, Reported
<1> QED BY <1>1, <1>2

LEMMA SelectHide == HideInv /\ DiffInv /\ TreeInv /\ SelectBaseline => HideInv'
<1> SUFFICES ASSUME HideInv, DiffInv, TreeInv, SelectBaseline PROVE HideInv'
  OBVIOUS
<1>0. /\ pc = "select" /\ UNCHANGED <<job, join>> /\ IsRun(run)
      /\ ~run.fault /\ run.why # "output"
  BY DEF SelectBaseline, TreeInv, TypeOK, DiffInv
<1>1. CASE Leave(2, "git")
  BY <1>0, <1>1, LeaveIsQuiet, HideMoves
<1>2. CASE run' = [run EXCEPT !.pass = "base"] /\ pc' \in {"worktree", "reset"}
  <2>1. /\ IsRun(run') /\ run'.pass = "base" /\ SameFindings /\ SameErrors
        /\ run'.why = run.why /\ run'.fault = run.fault
    BY <1>0, <1>2 DEF IsRun, SameFindings, SameErrors
  <2> Quiet
    BY <1>0, <1>2, <2>1 DEF Quiet, SameErrors
  <2> QED BY HideMoves
<1>3. CASE UNCHANGED run /\ pc' = "filter"
  <2>1. /\ \A path : LostHead(path)' = LostHead(path)
        /\ Told' = Told /\ ~Reported' /\ ~AfterHead'
    BY <1>0, <1>3 DEF LostHead, Told, Reported, AfterHead
  <2>2. job.baseline /\ (\A path : LostHead(path) => Told)
        /\ \A m \in HeadMatches : m \in run.matches \/ LostHead(m.path)
    BY <1>0 DEF HideInv, AfterHead
  <2> QED BY <1>0, <1>3, <2>1, <2>2, ProjectStays DEF HideInv, Sifted, Reported
<1> QED BY <1>1, <1>2, <1>3 DEF SelectBaseline

(* What is removed is not new.                                             *)
LEMMA RemoveHide == HideInv /\ DiffInv /\ TreeInv /\ RemoveMatches => HideInv'
<1> SUFFICES ASSUME HideInv, DiffInv, TreeInv, RemoveMatches PROVE HideInv'
  OBVIOUS
<1>1. PICK left : left = {m \in run.matches : HeadKey(m) \notin {BaseKey(b) : b \in run.base}}
  OBVIOUS
<1>0. /\ pc = "remove" /\ UNCHANGED <<job, join>> /\ IsRun(run) /\ job \in Jobs /\ run.pass = "base"
      /\ ~run.fault /\ run.why # "output" /\ pc' = "leave" /\ run' = [run EXCEPT !.matches = left]
      /\ tree.cwd = IF job.dirty THEN "tmp" ELSE "repo"
  BY <1>1 DEF RemoveMatches, TreeInv, TypeOK, DiffInv, Passes, Standing, IsRun
<1>2. /\ run'.matches = left /\ run'.lost = run.lost /\ run'.why = run.why
      /\ run'.pass = run.pass /\ run'.errs = run.errs
  BY <1>0 DEF IsRun
<1>3. /\ job.baseline /\ (\A path : LostHead(path) => Told)
      /\ \A m \in HeadMatches : m \in run.matches \/ LostHead(m.path)
      /\ Comparable => BaseSound
  BY <1>0 DEF HideInv, AfterHead
<1>4. ASSUME Straight, NEW m \in HeadMatches PROVE m \in left \/ Old(m) \/ LostHead(m.path)
  <2>1. Comparable /\ BaseSound
    BY <1>3, <1>4 DEF Comparable, Straight
  <2>2. (\E b \in run.base : HeadKey(m) = BaseKey(b)) => ~IsNew(m)
    BY <1>0, <2>1, KeysMeet
  <2> QED BY <1>1, <1>3, <2>2 DEF Old
<1>5. /\ \A path : LostHead(path)' = LostHead(path)
      /\ Told' = Told /\ ~Reported' /\ ~AfterHead'
  BY <1>0, <1>2 DEF LostHead, Told, Reported, AfterHead
<1> QED BY <1>0, <1>2, <1>3, <1>4, <1>5, ProjectStays DEF HideInv, Reported

LEMMA FilterHide == HideInv /\ DiffInv /\ TreeInv /\ FilterIgnored => HideInv'
<1> SUFFICES ASSUME HideInv, DiffInv, TreeInv, FilterIgnored PROVE HideInv'
  OBVIOUS
<1>1. PICK kept : kept = {m \in run.matches : job.keep \/ ~IsIgnored(m)}
  OBVIOUS
<1>0. /\ pc = "filter" /\ UNCHANGED <<job, join>> /\ IsRun(run)
      /\ ~run.fault /\ run.why # "output" /\ pc' = "fix" /\ run' = [run EXCEPT !.kept = kept]
  BY <1>1 DEF FilterIgnored, TreeInv, TypeOK, DiffInv
<1>2. /\ run'.kept = kept /\ run'.lost = run.lost /\ run'.why = run.why
      /\ run'.pass = run.pass /\ run'.errs = run.errs
  BY <1>0 DEF IsRun
<1>3. /\ run.pass = "base" => job.baseline
      /\ \A path : LostHead(path) => Told
      /\ Straight => \A m \in HeadMatches : m \in run.matches \/ Old(m) \/ LostHead(m.path)
      /\ ~job.baseline => JoinMatches \subseteq run.matches
  BY <1>0 DEF HideInv, Sifted
<1>4. ~job.baseline => JoinMatches \subseteq kept
  <2>1. \A m \in JoinMatches : ~IsIgnored(m)
    BY JoinIsApart DEF IsIgnored, FileNames
  <2> QED BY <1>1, <1>3, <2>1
<1>5. /\ (\A path : LostHead(path)' = LostHead(path)) /\ JoinMatches' = JoinMatches
      /\ Told' = Told /\ ~Sifted' /\ ~AfterHead'
  BY <1>0, <1>2 DEF LostHead, Told, Sifted, AfterHead, JoinMatches
<1>6. Straight => \A m \in HeadMatches : m \in kept \/ IsIgnored(m) \/ Old(m) \/ LostHead(m.path)
  BY <1>1, <1>3
<1> QED BY <1>0, <1>2, <1>3, <1>4, <1>5, <1>6, ProjectStays DEF HideInv

(* With --error the exit code is 0 only if all that is left is ignored.    *)
LEMMA LastHide == HideInv /\ DiffInv /\ TreeInv /\ (ApplyFixes \/ WriteOutputs) => HideInv'
<1> SUFFICES ASSUME HideInv, DiffInv, TreeInv, ApplyFixes \/ WriteOutputs PROVE HideInv'
  OBVIOUS
<1>0. /\ pc \in {"fix", "output"} /\ UNCHANGED <<job, join>> /\ IsRun(run)
      /\ ~run.fault /\ run.why # "output"
  BY DEF ApplyFixes, WriteOutputs, TreeInv, TypeOK, DiffInv
<1>1. /\ pc' \in {"output", "exited"} /\ run'.kept = run.kept /\ run'.lost = run.lost
      /\ run'.errs = run.errs /\ run'.pass = run.pass
      /\ (run'.why = "output" => run'.exit = Verdict)
  <2>1. CASE ApplyFixes
    <3>1. run' = [run EXCEPT !.fixed = run.kept] \/ run' = run
      BY <2>1 DEF ApplyFixes
    <3>2. /\ run'.kept = run.kept /\ run'.lost = run.lost /\ run'.errs = run.errs
          /\ run'.pass = run.pass /\ run'.why = run.why
      BY <1>0, <3>1 DEF IsRun
    <3> QED BY <1>0, <2>1, <3>2 DEF ApplyFixes
  <2>2. CASE WriteOutputs
    <3>1. Leave(2, "post") \/ Leave(Verdict, "output")
      BY <2>2 DEF WriteOutputs
    <3>2. PICK verdict : verdict = Verdict
      OBVIOUS
    <3>3. Leave(2, "post") \/ Leave(verdict, "output")
      BY <3>1, <3>2
    <3> QED BY <1>0, <3>2, <3>3, LeaveEffect
  <2> QED BY <2>1, <2>2
<1>2. /\ (\A path : LostHead(path)' = LostHead(path)) /\ JoinMatches' = JoinMatches
      /\ Told' = Told /\ ~Sifted' /\ ~AfterHead'
  BY <1>0, <1>1 DEF LostHead, Told, Sifted, AfterHead, JoinMatches
<1>3. /\ run.pass = "base" => job.baseline
      /\ \A path : LostHead(path) => Told
      /\ Straight =>
           \A m \in HeadMatches : m \in run.kept \/ IsIgnored(m) \/ Old(m) \/ LostHead(m.path)
      /\ ~job.baseline => JoinMatches \subseteq run.kept
  BY <1>0 DEF HideInv, Reported
<1>4. Verdict = 0 /\ job.error => \A m \in run.kept : IsIgnored(m)
  BY DEF Verdict
<1> QED BY <1>0, <1>1, <1>2, <1>3, <1>4, ProjectStays DEF HideInv

(* A scan that exits 0 has not left out a finding in silence: each one is  *)
(* reported, in the baseline, ignored by a comment, or in a file about     *)
(* which the user is told (output.py, run_scan.py), for a relative root or *)
(* a clean repository.                                                     *)
THEOREM CleanExitIsHonest == Spec => []CleanExitHidesNothing
<1>1. ASSUME TreeInv, DiffInv, [Next]_vars PROVE DiffInv'
  <2>1. CASE QuietStep
    BY <1>1, <2>1, QuietSteps, DiffMoves DEF TreeInv, TypeOK
  <2> QED BY <1>1, <2>1, CoreDoneDiff, JoinsEndDiff, SelectDiff, RemoveDiff, FilterDiff, LastDiff
          DEF Next, QuietStep
<1>2. ASSUME TreeInv, DiffInv, HideInv, [Next]_vars PROVE HideInv'
  <2>1. CASE QuietStep
    BY <1>2, <2>1, QuietSteps, HideMoves
  <2> QED BY <1>2, <2>1, CoreDoneHide, JoinsEndHide, SelectHide, RemoveHide, FilterHide, LastHide
          DEF Next, QuietStep
<1>3. DiffInv /\ HideInv => CleanExitHidesNothing
  <2> SUFFICES ASSUME DiffInv, HideInv, pc = "exited", run.exit = 0, run.why = "output", Straight
               PROVE  CleanExitHidesNothing
    BY DEF CleanExitHidesNothing, Straight
  <2>1. ASSUME NEW n \in Names("head"), NEW i \in 1..HeadCount(n), NEW m,
               m = [path |-> Path(n), index |-> i]
        PROVE  \/ m \in run.kept \/ IsIgnored(m)
               \/ job.baseline /\ ~IsNew(m)
               \/ [pass |-> "head", path |-> Path(n)] \in run.lost /\ Told
    <3>1. m \in HeadMatches /\ m.path = Path(n)
      BY <2>1 DEF HeadMatches
    <3> QED BY <3>1 DEF HideInv, Reported, Old, LostHead
  <2>2. job.baseline \/ JoinMatches \subseteq run.kept
    BY DEF HideInv, Reported
  <2>3. job.error => \A m \in run.kept : IsIgnored(m)
    BY DEF HideInv
  <2> QED BY <2>1, <2>2, <2>3 DEF CleanExitHidesNothing, Told
<1> QED BY InitDiff, InitHide, <1>1, <1>2, <1>3, RepositoryFollowed, PTL DEF Spec

-----------------------------------------------------------------------------
(* A set with zero and the successor of each of its numbers is all of Nat. *)
LEMMA EveryNumber ==
  ASSUME NEW T, 0 \in T, \A n \in Nat : n \in T => n + 1 \in T
  PROVE  Nat \subseteq T
<1> DEFINE R == {ss \in Nat \X Nat : ss[1] < ss[2]}
<1> DEFINE Others == Nat \ T
<1>1. IsWellFoundedOn(R, Nat)
  BY NatLessThanWellFounded DEF OpToRel
<1>2. \A n \in Nat : <<n, n + 1>> \in R
  OBVIOUS
<1>3. SUFFICES ASSUME Others # {} PROVE FALSE
  OBVIOUS
<1>4. Others \subseteq Nat
  OBVIOUS
<1>5. PICK x \in Others : \A y \in Others : ~ (<<y, x>> \in R)
  <2> HIDE DEF R, Others
  <2> QED BY <1>1, <1>3, <1>4, WFMin, Zenon
<1>6. x # 0 /\ x - 1 \in Nat /\ <<x - 1, x>> \in R
  OBVIOUS
<1>7. x - 1 \in T
  BY <1>5, <1>6
<1>8. (x - 1) + 1 = x
  OBVIOUS
<1> QED BY <1>6, <1>7, <1>8

(* A set of numbers has a least one.                                       *)
LEMMA LeastNumber ==
  ASSUME NEW S, S \subseteq Nat, S # {}
  PROVE  \E x \in S : \A y \in S : x <= y
<1> DEFINE Good == {n \in Nat : \A y \in S : n <= y}
<1>1. SUFFICES ASSUME \A x \in S : \E y \in S : ~ (x <= y) PROVE FALSE
  OBVIOUS
<1>2. 0 \in Good
  OBVIOUS
<1>3. ASSUME NEW n \in Nat, n \in Good PROVE n + 1 \in Good
  <2>1. \A y \in S : n <= y
    BY <1>3
  <2>2. n \notin S
    BY <1>1, <2>1
  <2> QED BY <2>1, <2>2
<1>4. Nat \subseteq Good
  <2> HIDE DEF Good
  <2> QED BY <1>2, <1>3, EveryNumber
<1>5. PICK x \in S : TRUE
  OBVIOUS
<1>6. x + 1 \in Good
  <2> HIDE DEF Good
  <2> QED BY <1>4, <1>5
<1> QED BY <1>5, <1>6

(* A set of indices has a greatest one.                                    *)
LEMMA GreatestIndex ==
  ASSUME NEW n \in Nat, NEW S, S \subseteq 1 .. n, S # {}
  PROVE  \E x \in S : \A y \in S : y <= x
<1> DEFINE T == {n - x : x \in S}
<1>1. T \subseteq Nat /\ T # {}
  <2>1. PICK x \in S : TRUE
    OBVIOUS
  <2>2. n - x \in T
    BY <2>1
  <2>3. \A y \in S : n - y \in Nat
    OBVIOUS
  <2> QED BY <2>2, <2>3
<1>2. PICK t \in T : \A y \in T : t <= y
  <2> HIDE DEF T
  <2> QED BY <1>1, LeastNumber
<1>3. PICK x \in S : t = n - x
  OBVIOUS
<1>4. ASSUME NEW y \in S PROVE y <= x
  <2>1. n - x <= n - y
    BY <1>2, <1>3
  <2> QED BY <2>1
<1> QED BY <1>4

(* The chains of n findings, when a finding begins with a[f] and ends with *)
(* b[f], and the values they begin and end with.                           *)
Linked(fs, a, b, n) ==
    {s \in [1 .. n -> fs] : \A i \in 1 .. n - 1 : b[s[i]] = a[s[i + 1]] /\ b[s[i]] # Null}
Ends(fs, a, b, n) == {<<a[s[1]], b[s[n]]>> : s \in Linked(fs, a, b, n)}
PairsOf(fs, a, b) == {<<a[f], b[f]>> : f \in fs}

IsReach(reach, pairs, m) ==
    reach = [k \in 0 .. m |-> IF k = 0 THEN pairs ELSE Extended(reach[k - 1], pairs)]

(* The recursive function of Closure exists, and so is what its equation   *)
(* says.                                                                   *)
LEMMA ReachExists ==
  ASSUME NEW pairs, NEW m \in Nat
  PROVE  \E reach : IsReach(reach, pairs, m)
<1> DEFINE Good == {n \in Nat : \E reach : IsReach(reach, pairs, n)}
<1>1. 0 \in Good
  <2>1. IsReach([k \in 0 .. 0 |-> pairs], pairs, 0)
    BY DEF IsReach
  <2> QED BY <2>1
<1>2. ASSUME NEW n \in Nat, n \in Good PROVE n + 1 \in Good
  <2>1. PICK g : IsReach(g, pairs, n)
    BY <1>2
  <2> DEFINE f == [k \in 0 .. n + 1 |-> IF k = n + 1 THEN Extended(g[n], pairs) ELSE g[k]]
  <2> DEFINE h == [k \in 0 .. n + 1 |-> IF k = 0 THEN pairs ELSE Extended(f[k - 1], pairs)]
  <2>2. ASSUME NEW k \in 0 .. n + 1 PROVE f[k] = h[k]
    <3>1. CASE k = n + 1
      <4>1. k # 0 /\ k - 1 = n /\ n \in 0 .. n + 1 /\ n # n + 1
        BY <3>1
      <4>2. f[n] = g[n]
        BY <4>1
      <4> QED BY <3>1, <4>1, <4>2
    <3>2. CASE k # n + 1
      <4>1. k \in 0 .. n /\ (k # 0 => k - 1 \in 0 .. n /\ k - 1 # n + 1)
        BY <3>2
      <4>2. f[k] = g[k] /\ (k # 0 => f[k - 1] = g[k - 1])
        BY <3>2, <4>1
      <4>3. g[k] = IF k = 0 THEN pairs ELSE Extended(g[k - 1], pairs)
        BY <2>1, <4>1 DEF IsReach
      <4> QED BY <4>2, <4>3
    <3> QED BY <3>1, <3>2
  <2>3. f = [k \in 0 .. n + 1 |-> f[k]] /\ h = [k \in 0 .. n + 1 |-> h[k]]
    OBVIOUS
  <2>4. (\A k \in 0 .. n + 1 : f[k] = h[k]) => f = h
    BY <2>3
  <2>5. IsReach(f, pairs, n + 1)
    BY <2>2, <2>4 DEF IsReach
  <2> QED BY <2>5
<1>3. Nat \subseteq Good
  <2> HIDE DEF Good
  <2> QED BY <1>1, <1>2, EveryNumber
<1> QED BY <1>3

(* What one more link adds to the pairs that are known.                    *)
LEMMA ExtendedIs ==
  ASSUME NEW known, NEW pairs, NEW x
  PROVE  x \in Extended(known, pairs) <=>
           \/ x \in known
           \/ \E p \in known, q \in pairs : p[2] = q[1] /\ p[2] # Null /\ x = <<p[1], q[2]>>
<1>1. ASSUME NEW p \in known, NEW q \in pairs, p[2] = q[1], p[2] # Null, x = <<p[1], q[2]>>
      PROVE  x \in Extended(known, pairs)
  <2>1. <<p, q>> \in {pq \in known \X pairs : pq[1][2] = pq[2][1] /\ pq[1][2] # Null}
    BY <1>1
  <2>2. <<<<p, q>>[1][1], <<p, q>>[2][2]>> = x
    BY <1>1
  <2> QED BY <2>1, <2>2 DEF Extended
<1>2. ASSUME x \in Extended(known, pairs), x \notin known
      PROVE  \E p \in known, q \in pairs : p[2] = q[1] /\ p[2] # Null /\ x = <<p[1], q[2]>>
  <2>1. PICK pq \in {pq \in known \X pairs : pq[1][2] = pq[2][1] /\ pq[1][2] # Null} :
           x = <<pq[1][1], pq[2][2]>>
    BY <1>2 DEF Extended
  <2>2. pq[1] \in known /\ pq[2] \in pairs
    BY <2>1
  <2> QED BY <2>1, <2>2
<1>3. x \in known => x \in Extended(known, pairs)
  BY DEF Extended
<1> QED BY <1>1, <1>2, <1>3

(* A chain of one finding begins and ends with the values of that finding. *)
LEMMA EndsOfOne ==
  ASSUME NEW fs, NEW a, NEW b
  PROVE  Ends(fs, a, b, 1) = PairsOf(fs, a, b)
<1>1. ASSUME NEW x \in Ends(fs, a, b, 1) PROVE x \in PairsOf(fs, a, b)
  BY DEF Ends, Linked, PairsOf
<1>2. ASSUME NEW f \in fs PROVE <<a[f], b[f]>> \in Ends(fs, a, b, 1)
  <2> DEFINE s == [i \in 1 .. 1 |-> f]
  <2>1. s \in Linked(fs, a, b, 1) /\ s[1] = f
    BY DEF Linked
  <2> HIDE DEF s
  <2> QED BY <2>1 DEF Ends
<1> QED BY <1>1, <1>2 DEF PairsOf

(* A chain of one more finding.                                            *)
LEMMA EndsGrow ==
  ASSUME NEW fs, NEW a, NEW b, NEW n \in Nat \ {0}, NEW x
  PROVE  x \in Ends(fs, a, b, n + 1) <=>
           \E p \in Ends(fs, a, b, n), q \in PairsOf(fs, a, b) :
               p[2] = q[1] /\ p[2] # Null /\ x = <<p[1], q[2]>>
<1>1. ASSUME x \in Ends(fs, a, b, n + 1)
      PROVE  \E p \in Ends(fs, a, b, n), q \in PairsOf(fs, a, b) :
               p[2] = q[1] /\ p[2] # Null /\ x = <<p[1], q[2]>>
  <2>1. PICK s \in Linked(fs, a, b, n + 1) : x = <<a[s[1]], b[s[n + 1]]>>
    BY <1>1 DEF Ends
  <2>2. /\ s \in [1 .. n + 1 -> fs]
        /\ \A i \in 1 .. n : b[s[i]] = a[s[i + 1]] /\ b[s[i]] # Null
    BY DEF Linked
  <2> DEFINE t == [i \in 1 .. n |-> s[i]]
  <2>3. t \in Linked(fs, a, b, n)
    BY <2>2 DEF Linked
  <2>4. t[1] = s[1] /\ t[n] = s[n]
    OBVIOUS
  <2> DEFINE p == <<a[t[1]], b[t[n]]>>
  <2> DEFINE q == <<a[s[n + 1]], b[s[n + 1]]>>
  <2>5. p \in Ends(fs, a, b, n)
    <3> HIDE DEF t
    <3> QED BY <2>3 DEF Ends
  <2>6. q \in PairsOf(fs, a, b)
    BY <2>2 DEF PairsOf
  <2>7. p[1] = a[s[1]] /\ p[2] = b[s[n]] /\ q[1] = a[s[n + 1]] /\ q[2] = b[s[n + 1]]
    BY <2>4
  <2>8. p[2] = q[1] /\ p[2] # Null /\ x = <<p[1], q[2]>>
    <3> HIDE DEF p, q
    <3> QED BY <2>1, <2>2, <2>7
  <2> QED BY <2>5, <2>6, <2>8
<1>2. ASSUME NEW p \in Ends(fs, a, b, n), NEW q \in PairsOf(fs, a, b),
             p[2] = q[1], p[2] # Null, x = <<p[1], q[2]>>
      PROVE  x \in Ends(fs, a, b, n + 1)
  <2>1. PICK s \in Linked(fs, a, b, n) : p = <<a[s[1]], b[s[n]]>>
    BY DEF Ends
  <2>2. PICK f \in fs : q = <<a[f], b[f]>>
    BY DEF PairsOf
  <2>3. /\ s \in [1 .. n -> fs]
        /\ \A i \in 1 .. n - 1 : b[s[i]] = a[s[i + 1]] /\ b[s[i]] # Null
    BY DEF Linked
  <2> DEFINE t == [i \in 1 .. n + 1 |-> IF i = n + 1 THEN f ELSE s[i]]
  <2>4. t \in [1 .. n + 1 -> fs]
    BY <2>3
  <2>5. t[n + 1] = f /\ \A i \in 1 .. n : t[i] = s[i]
    OBVIOUS
  <2>6. ASSUME NEW i \in 1 .. n PROVE b[t[i]] = a[t[i + 1]] /\ b[t[i]] # Null
    <3> HIDE DEF t
    <3>1. CASE i = n
      BY <1>2, <2>1, <2>2, <2>5, <3>1
    <3>2. CASE i # n
      BY <2>3, <2>5, <3>2
    <3> QED BY <3>1, <3>2
  <2> HIDE DEF t
  <2>7. t \in Linked(fs, a, b, n + 1)
    <3>1. (n + 1) - 1 = n
      OBVIOUS
    <3>2. \A i \in 1 .. (n + 1) - 1 : b[t[i]] = a[t[i + 1]] /\ b[t[i]] # Null
      BY <2>6, <3>1
    <3> QED BY <2>4, <3>2 DEF Linked
  <2>8. <<a[t[1]], b[t[n + 1]]>> = x
    BY <1>2, <2>1, <2>2, <2>5
  <2> QED BY <2>7, <2>8 DEF Ends
<1> QED BY <1>1, <1>2

(* After k links, the pairs are the ends of the chains of at most k + 1    *)
(* findings.                                                               *)
LEMMA ReachIs ==
  ASSUME NEW fs, NEW a, NEW b, NEW m \in Nat, NEW g, IsReach(g, PairsOf(fs, a, b), m),
         NEW k \in 0 .. m, NEW x
  PROVE  x \in g[k] <=> \E n \in 1 .. k + 1 : x \in Ends(fs, a, b, n)
<1> DEFINE P == PairsOf(fs, a, b)
<1> DEFINE E(n) == Ends(fs, a, b, n)
<1> DEFINE Good == {l \in Nat : l <= m =>
                      \A y : y \in g[l] <=> \E n \in 1 .. l + 1 : y \in E(n)}
<1>1. 0 \in Good
  <2>1. g[0] = P
    BY DEF IsReach
  <2>2. 1 .. 0 + 1 = {1}
    OBVIOUS
  <2>3. E(1) = P
    BY EndsOfOne
  <2> QED BY <2>1, <2>2, <2>3
<1>2. ASSUME NEW l \in Nat, l \in Good PROVE l + 1 \in Good
  <2> SUFFICES ASSUME l + 1 <= m, NEW y
               PROVE  y \in g[l + 1] <=> \E n \in 1 .. (l + 1) + 1 : y \in E(n)
    OBVIOUS
  <2>1. g[l + 1] = Extended(g[l], P)
    <3>1. l + 1 \in 0 .. m /\ l + 1 # 0 /\ (l + 1) - 1 = l
      OBVIOUS
    <3> QED BY <3>1 DEF IsReach
  <2>2. \A z : z \in g[l] <=> \E n \in 1 .. l + 1 : z \in E(n)
    BY <1>2
  <2>3. y \in g[l + 1] <=> \/ y \in g[l]
                           \/ \E p \in g[l], q \in P : p[2] = q[1] /\ p[2] # Null /\ y = <<p[1], q[2]>>
    BY <2>1, ExtendedIs
  <2>4. ASSUME NEW n \in Nat \ {0}
        PROVE y \in E(n + 1) <=> \E p \in E(n), q \in P : p[2] = q[1] /\ p[2] # Null /\ y = <<p[1], q[2]>>
    BY EndsGrow
  <2> HIDE DEF E, P, Good
  <2>5. ASSUME y \in g[l + 1] PROVE \E n \in 1 .. (l + 1) + 1 : y \in E(n)
    <3>1. CASE y \in g[l]
      BY <2>2, <3>1
    <3>2. CASE y \notin g[l]
      <4>1. PICK p \in g[l], q \in P : p[2] = q[1] /\ p[2] # Null /\ y = <<p[1], q[2]>>
        BY <2>3, <2>5, <3>2
      <4>2. PICK n \in 1 .. l + 1 : p \in E(n)
        BY <2>2
      <4>3. y \in E(n + 1)
        BY <2>4, <4>1, <4>2
      <4> QED BY <4>3
    <3> QED BY <3>1, <3>2
  <2>6. ASSUME NEW n \in 1 .. (l + 1) + 1, y \in E(n) PROVE y \in g[l + 1]
    <3>1. CASE n <= l + 1
      BY <2>2, <2>3, <2>6, <3>1
    <3>2. CASE ~ (n <= l + 1)
      <4>1. n = (l + 1) + 1 /\ l + 1 \in Nat \ {0} /\ l + 1 \in 1 .. l + 1
        BY <3>2
      <4>2. PICK p \in E(l + 1), q \in P : p[2] = q[1] /\ p[2] # Null /\ y = <<p[1], q[2]>>
        BY <2>4, <2>6, <4>1
      <4>3. p \in g[l]
        BY <2>2, <4>1
      <4> QED BY <2>3, <4>2, <4>3
    <3> QED BY <3>1, <3>2
  <2> QED BY <2>5, <2>6
<1>3. Nat \subseteq Good
  <2> HIDE DEF Good
  <2> QED BY <1>1, <1>2, EveryNumber
<1>4. k \in Good /\ k <= m
  <2> HIDE DEF Good
  <2> QED BY <1>3
<1> QED BY <1>4

(* A chain that passes the same values twice can be cut, so that one that  *)
(* is as short as possible has no more findings than there are pairs.      *)
LEMMA ChainIsCut ==
  ASSUME NEW fs, NEW a, NEW b, NEW n \in Nat \ {0}, NEW s \in Linked(fs, a, b, n),
         NEW i \in 1 .. n, NEW j \in 1 .. n, i < j, a[s[i]] = a[s[j]], b[s[i]] = b[s[j]]
  PROVE  /\ n - (j - i) \in Nat \ {0} /\ n - (j - i) < n
         /\ <<a[s[1]], b[s[n]]>> \in Ends(fs, a, b, n - (j - i))
<1> PICK d : d = j - i
  OBVIOUS
<1> PICK m : m = n - d
  OBVIOUS
<1>1. /\ d \in Nat \ {0} /\ m \in Nat \ {0} /\ m < n /\ i <= m /\ i + d = j /\ m + d = n
      /\ n - (j - i) = m
  OBVIOUS
<1>2. /\ s \in [1 .. n -> fs]
      /\ \A k \in 1 .. n - 1 : b[s[k]] = a[s[k + 1]] /\ b[s[k]] # Null
  BY DEF Linked
<1> DEFINE t == [k \in 1 .. m |-> IF k <= i THEN s[k] ELSE s[k + d]]
<1>3. ASSUME NEW k \in 1 .. m PROVE t[k] = (IF k <= i THEN s[k] ELSE s[k + d]) /\ t[k] \in fs
  <2>1. k \in 1 .. n /\ k + d \in 1 .. n
    BY <1>1
  <2> QED BY <1>2, <2>1
<1>4. t \in [1 .. m -> fs]
  <2>1. t = [k \in 1 .. m |-> t[k]]
    OBVIOUS
  <2> HIDE DEF t
  <2> QED BY <1>3, <2>1
<1> HIDE DEF t
<1>5. ASSUME NEW k \in 1 .. m - 1 PROVE b[t[k]] = a[t[k + 1]] /\ b[t[k]] # Null
  <2>1. k \in 1 .. m /\ k + 1 \in 1 .. m /\ k \in 1 .. n - 1 /\ k + d \in 1 .. n - 1
    BY <1>1
  <2>2. (k + 1) + d = (k + d) + 1
    BY <1>1
  <2>3. CASE k < i
    <3>1. t[k] = s[k] /\ t[k + 1] = s[k + 1]
      BY <1>3, <2>1, <2>3
    <3> QED BY <1>2, <2>1, <3>1
  <2>4. CASE k = i
    <3>1. t[k] = s[i] /\ t[k + 1] = s[(k + d) + 1]
      BY <1>1, <1>3, <2>1, <2>2, <2>4
    <3>2. b[s[k + d]] = a[s[(k + d) + 1]] /\ b[s[k + d]] # Null
      BY <1>2, <2>1
    <3>3. k + d = j
      BY <1>1, <2>4
    <3> QED BY <3>1, <3>2, <3>3
  <2>5. CASE k > i
    <3>1. t[k] = s[k + d] /\ t[k + 1] = s[(k + d) + 1]
      BY <1>1, <1>3, <2>1, <2>2, <2>5
    <3>2. b[s[k + d]] = a[s[(k + d) + 1]] /\ b[s[k + d]] # Null
      BY <1>2, <2>1
    <3> QED BY <3>1, <3>2
  <2> QED BY <1>1, <2>3, <2>4, <2>5
<1>6. t \in Linked(fs, a, b, m)
  BY <1>4, <1>5 DEF Linked
<1>7. a[t[1]] = a[s[1]]
  <2>1. 1 \in 1 .. m /\ 1 <= i
    BY <1>1
  <2> QED BY <1>3, <2>1
<1>8. b[t[m]] = b[s[n]]
  <2>1. m \in 1 .. m
    BY <1>1
  <2>2. CASE m = i
    <3>1. t[m] = s[i] /\ j = n
      BY <1>1, <1>3, <2>1, <2>2
    <3> QED BY <3>1
  <2>3. CASE m # i
    <3>1. t[m] = s[n]
      BY <1>1, <1>3, <2>1, <2>3
    <3> QED BY <3>1
  <2> QED BY <2>2, <2>3
<1>9. <<a[s[1]], b[s[n]]>> \in Ends(fs, a, b, m)
  BY <1>6, <1>7, <1>8 DEF Ends
<1> QED BY <1>1, <1>9

(* What a chain begins and ends with, a chain does that is no longer than  *)
(* there are pairs: the shortest one has no pair twice.                    *)
LEMMA ShortChain ==
  ASSUME NEW fs, NEW a, NEW b, IsFiniteSet(PairsOf(fs, a, b)), NEW n \in Nat \ {0},
         NEW x \in Ends(fs, a, b, n)
  PROVE  \E m \in 1 .. Cardinality(PairsOf(fs, a, b)) : x \in Ends(fs, a, b, m)
<1> DEFINE P == PairsOf(fs, a, b)
<1> DEFINE S == {m \in Nat \ {0} : x \in Ends(fs, a, b, m)}
<1>1. S \subseteq Nat /\ S # {}
  OBVIOUS
<1>2. PICK m \in S : \A l \in S : m <= l
  <2> HIDE DEF S
  <2> QED BY <1>1, LeastNumber
<1>3. Cardinality(P) \in Nat
  BY FS_CardinalityType
<1>4. SUFFICES ASSUME Cardinality(P) < m PROVE FALSE
  <2>1. m \in Nat \ {0} /\ x \in Ends(fs, a, b, m)
    BY <1>2
  <2>2. ~ (Cardinality(P) < m) => m \in 1 .. Cardinality(P)
    BY <1>3, <2>1
  <2> QED BY <2>1, <2>2
<1>5. PICK s \in Linked(fs, a, b, m) : x = <<a[s[1]], b[s[m]]>>
  BY <1>2 DEF Ends
<1>6. s \in [1 .. m -> fs]
  BY DEF Linked
<1> DEFINE f == [i \in 1 .. m |-> <<a[s[i]], b[s[i]]>>]
<1>7. f \in [1 .. m -> P]
  BY <1>6 DEF PairsOf
<1>8. IsFiniteSet(1 .. m) /\ Cardinality(1 .. m) = m
  <2>1. 1 \in Int /\ m \in Int /\ m >= 1
    BY <1>2
  <2> QED BY <2>1, FS_Interval
<1>9. PICK i \in 1 .. m, j \in 1 .. m : i # j /\ f[i] = f[j]
  <2> HIDE DEF f, P
  <2>1. Cardinality(P) < Cardinality(1 .. m)
    BY <1>4, <1>8
  <2>2. IsFiniteSet(P)
    BY DEF P
  <2> QED BY <1>7, <1>8, <2>1, <2>2, FS_PigeonHole
<1>10. a[s[i]] = a[s[j]] /\ b[s[i]] = b[s[j]]
  BY <1>9
<1>11. m \in Nat \ {0}
  BY <1>2
<1> HIDE DEF f, P
<1>12. PICK l : l \in Nat \ {0} /\ l < m /\ x \in Ends(fs, a, b, l)
  <2>1. CASE i < j
    BY <1>5, <1>10, <1>11, <2>1, ChainIsCut
  <2>2. CASE j < i
    BY <1>5, <1>10, <1>11, <2>2, ChainIsCut
  <2> QED BY <1>9, <1>11, <2>1, <2>2
<1>13. l \in S
  BY <1>12
<1> QED BY <1>2, <1>11, <1>12, <1>13

(* The closure of the pairs of some findings has what chains of them begin *)
(* and end with.                                                           *)
LEMMA ClosureIsChains ==
  ASSUME NEW fs, IsFiniteSet(fs), NEW a, NEW b, NEW x
  PROVE  x \in Closure(PairsOf(fs, a, b)) <=>
           \E n \in 1 .. Cardinality(fs) : x \in Ends(fs, a, b, n)
<1> DEFINE P == PairsOf(fs, a, b)
<1> DEFINE f == [y \in fs |-> <<a[y], b[y]>>]
<1>1. f \in Surjection(fs, P)
  BY DEF Surjection, PairsOf
<1>2. IsFiniteSet(P) /\ Cardinality(P) <= Cardinality(fs)
  <2> HIDE DEF f, P
  <2> QED BY <1>1, FS_Surjection
<1>3. Cardinality(P) \in Nat /\ Cardinality(fs) \in Nat
  BY <1>2, FS_CardinalityType
<1> DEFINE g == CHOOSE reach : IsReach(reach, P, Cardinality(P))
<1>4. IsReach(g, P, Cardinality(P))
  <2> HIDE DEF P
  <2> QED BY <1>3, ReachExists
<1>5. Closure(P) = g[Cardinality(P)]
  BY DEF Closure, IsReach
<1> HIDE DEF g
<1>6. x \in g[Cardinality(P)] <=> \E n \in 1 .. Cardinality(P) + 1 : x \in Ends(fs, a, b, n)
  <2>1. Cardinality(P) \in 0 .. Cardinality(P)
    BY <1>3
  <2> QED BY <1>3, <1>4, <2>1, ReachIs
<1>7. ASSUME NEW n \in Nat \ {0}, x \in Ends(fs, a, b, n)
      PROVE  \E m \in 1 .. Cardinality(P) : x \in Ends(fs, a, b, m)
  BY <1>2, <1>7, ShortChain
<1> HIDE DEF P
<1>8. ASSUME x \in Closure(P) PROVE \E n \in 1 .. Cardinality(fs) : x \in Ends(fs, a, b, n)
  <2>1. PICK n \in 1 .. Cardinality(P) + 1 : x \in Ends(fs, a, b, n)
    BY <1>5, <1>6, <1>8
  <2>2. PICK m \in 1 .. Cardinality(P) : x \in Ends(fs, a, b, m)
    BY <1>3, <1>7, <2>1
  <2>3. m \in 1 .. Cardinality(fs)
    BY <1>2, <1>3
  <2> QED BY <2>2, <2>3
<1>9. ASSUME NEW n \in 1 .. Cardinality(fs), x \in Ends(fs, a, b, n) PROVE x \in Closure(P)
  <2>1. PICK m \in 1 .. Cardinality(P) : x \in Ends(fs, a, b, m)
    BY <1>3, <1>7, <1>9
  <2>2. m \in 1 .. Cardinality(P) + 1
    BY <1>3
  <2> QED BY <1>5, <1>6, <2>1, <2>2
<1> QED BY <1>8, <1>9 DEF P

-----------------------------------------------------------------------------
(* What the chains of some findings begin and end with.                    *)
Starts(r, c, fs) == [f \in fs |-> Value(r, f, c.pa)]
Stops(r, c, fs) == [f \in fs |-> Value(r, f, c.pb)]

(* The chains of findings that are meant, by the values they begin and end *)
(* with.                                                                   *)
LEMMA ChainsAreEnds ==
  ASSUME NEW r, NEW c, NEW fs, NEW x
  PROVE  (\E n \in 1 .. Cardinality(fs) : x \in Ends(fs, Starts(r, c, fs), Stops(r, c, fs), n))
           <=> \E ch \in Chains(r, c, fs) : ch[1] \in fs /\ ch[2] \in fs /\
                   x = <<Value(r, ch[1], c.pa), Value(r, ch[2], c.pb)>>
<1> DEFINE a == Starts(r, c, fs)
<1> DEFINE b == Stops(r, c, fs)
<1> DEFINE Linked0(n) == {s \in [1 .. n -> fs] :
        \A i \in 1 .. n - 1 : Holds("==", Value(r, s[i], c.pb), Value(r, s[i + 1], c.pa))}
<1>0. \A f \in fs : a[f] = Value(r, f, c.pa) /\ b[f] = Value(r, f, c.pb)
  BY DEF Starts, Stops
<1>1. ASSUME NEW n \in 1 .. Cardinality(fs), NEW s \in [1 .. n -> fs]
      PROVE  s \in Linked(fs, a, b, n) <=> s \in Linked0(n)
  <2>1. ASSUME NEW i \in 1 .. n - 1
        PROVE  /\ b[s[i]] = Value(r, s[i], c.pb) /\ a[s[i + 1]] = Value(r, s[i + 1], c.pa)
    <3>1. s[i] \in fs /\ s[i + 1] \in fs
      OBVIOUS
    <3> HIDE DEF a, b
    <3> QED BY <1>0, <3>1
  <2>2. \A i \in 1 .. n - 1 : Holds("==", Value(r, s[i], c.pb), Value(r, s[i + 1], c.pa))
            <=> b[s[i]] = a[s[i + 1]] /\ b[s[i]] # Null
    <3> HIDE DEF a, b
    <3> QED BY <2>1 DEF Holds
  <2> HIDE DEF a, b
  <2> QED BY <2>2 DEF Linked
<1>2. ASSUME NEW n \in 1 .. Cardinality(fs), x \in Ends(fs, a, b, n)
      PROVE  \E ch \in Chains(r, c, fs) : ch[1] \in fs /\ ch[2] \in fs /\
                   x = <<Value(r, ch[1], c.pa), Value(r, ch[2], c.pb)>>
  <2>1. PICK s \in Linked(fs, a, b, n) : x = <<a[s[1]], b[s[n]]>>
    BY <1>2 DEF Ends
  <2>2. s \in [1 .. n -> fs]
    BY DEF Linked
  <2>3. s \in Linked0(n)
    BY <1>1, <2>1, <2>2
  <2>4. <<s[1], s[n]>> \in Chains(r, c, fs)
    BY <2>3 DEF Chains
  <2>5. s[1] \in fs /\ s[n] \in fs
    BY <2>2
  <2> HIDE DEF a, b
  <2>6. x = <<Value(r, s[1], c.pa), Value(r, s[n], c.pb)>>
    BY <1>0, <2>1, <2>5
  <2> QED BY <2>4, <2>5, <2>6
<1>3. ASSUME NEW ch \in Chains(r, c, fs), x = <<Value(r, ch[1], c.pa), Value(r, ch[2], c.pb)>>
      PROVE  \E n \in 1 .. Cardinality(fs) : x \in Ends(fs, a, b, n)
  <2>1. PICK n \in 1 .. Cardinality(fs) : ch \in {<<s[1], s[n]>> : s \in Linked0(n)}
    BY DEF Chains
  <2>2. PICK s \in Linked0(n) : ch = <<s[1], s[n]>>
    BY <2>1
  <2>3. s \in [1 .. n -> fs] /\ s[1] \in fs /\ s[n] \in fs
    OBVIOUS
  <2>4. s \in Linked(fs, a, b, n)
    BY <1>1, <2>2, <2>3
  <2> HIDE DEF a, b
  <2>5. x = <<a[s[1]], b[s[n]]>>
    BY <1>0, <1>3, <2>2, <2>3
  <2> QED BY <2>4, <2>5 DEF Ends
<1> QED BY <1>2, <1>3

(* The closure of a table's pairs is what the chains of its findings begin *)
(* and end with.                                                           *)
LEMMA ClosureOfTable ==
  ASSUME NEW r, NEW c, NEW fs, IsFiniteSet(fs), NEW x
  PROVE  x \in Closure({<<Field(row, c.pa), Field(row, c.pb)>> : row \in {Row(r, f) : f \in fs}})
           <=> \E ch \in Chains(r, c, fs) : ch[1] \in fs /\ ch[2] \in fs /\
                   x = <<Value(r, ch[1], c.pa), Value(r, ch[2], c.pb)>>
<1>1. {<<Field(row, c.pa), Field(row, c.pb)>> : row \in {Row(r, f) : f \in fs}}
        = {<<Value(r, f, c.pa), Value(r, f, c.pb)>> : f \in fs}
  BY DEF Value
<1>2. PairsOf(fs, Starts(r, c, fs), Stops(r, c, fs))
        = {<<Value(r, f, c.pa), Value(r, f, c.pb)>> : f \in fs}
  BY DEF PairsOf, Starts, Stops
<1> DEFINE a == Starts(r, c, fs)
<1> DEFINE b == Stops(r, c, fs)
<1> DEFINE S == {<<Field(row, c.pa), Field(row, c.pb)>> : row \in {Row(r, f) : f \in fs}}
<1>3. S = PairsOf(fs, a, b)
  BY <1>1, <1>2
<1> HIDE DEF a, b, S
<1>4. x \in Closure(PairsOf(fs, a, b)) <=> \E n \in 1 .. Cardinality(fs) : x \in Ends(fs, a, b, n)
  BY ClosureIsChains
<1>5. x \in Closure(S) <=> \E n \in 1 .. Cardinality(fs) : x \in Ends(fs, a, b, n)
  BY <1>3, <1>4
<1>6. (\E n \in 1 .. Cardinality(fs) : x \in Ends(fs, a, b, n))
        <=> \E ch \in Chains(r, c, fs) : ch[1] \in fs /\ ch[2] \in fs /\
                x = <<Value(r, ch[1], c.pa), Value(r, ch[2], c.pb)>>
  BY ChainsAreEnds DEF a, b
<1> QED BY <1>5, <1>6 DEF S

(* Chains begin and end with findings.                                     *)
LEMMA ChainsAreOfFindings ==
  ASSUME NEW r, NEW c, NEW fs, NEW ch \in Chains(r, c, fs)
  PROVE  ch[1] \in fs /\ ch[2] \in fs
<1> DEFINE Linked0(n) == {s \in [1 .. n -> fs] :
        \A i \in 1 .. n - 1 : Holds("==", Value(r, s[i], c.pb), Value(r, s[i + 1], c.pa))}
<1>1. PICK n \in 1 .. Cardinality(fs) : ch \in {<<s[1], s[n]>> : s \in Linked0(n)}
  BY DEF Chains
<1>2. PICK s \in Linked0(n) : ch = <<s[1], s[n]>>
  BY <1>1
<1>3. n \in Nat /\ n >= 1
  BY <1>1
<1>4. 1 \in 1 .. n /\ n \in 1 .. n /\ s \in [1 .. n -> fs]
  BY <1>3
<1> QED BY <1>2, <1>4

(* A row stands for a way if it is of the same finding and has the same    *)
(* values; a table is exact if its rows are those of the ways.             *)
Stands(r, name, row, w, columns) ==
    row.raw = w[2].id /\ \A v \in columns : Field(row, v) = ValueOf(r, name, w, v)
IsExact(r, results, name, table) ==
    /\ \A row \in table.rows : \E w \in Ways(r, results, name) :
           Stands(r, name, row, w, table.columns)
    /\ \A w \in Ways(r, results, name) : \E row \in table.rows :
           Stands(r, name, row, w, table.columns)

(* The table of a collection that is not recursive is exact.               *)
LEMMA PlainIsExact ==
  ASSUME NEW r, NEW results, NEW name, ChainOf(r, name) = {}
  PROVE  IsExact(r, results, name,
                 Table({Row(r, f) : f \in FindingsOf(r, results, name)}))
<1> DEFINE fs == FindingsOf(r, results, name)
<1> DEFINE table == Table({Row(r, f) : f \in fs})
<1>1. table.rows = {Row(r, f) : f \in fs}
  BY DEF Table
<1>2. \A w : w \in Ways(r, results, name) <=> w \in fs \X fs /\ w[1] = w[2]
  BY DEF Ways
<1>3. ASSUME NEW w, NEW v PROVE ValueOf(r, name, w, v) = Field(Row(r, w[2]), v)
  BY DEF ValueOf, Value
<1>4. \A f : Row(r, f).raw = f.id
  BY DEF Row
<1> HIDE DEF fs, table
<1>5. ASSUME NEW row \in table.rows
      PROVE  \E w \in Ways(r, results, name) : Stands(r, name, row, w, table.columns)
  <2>1. PICK f \in fs : row = Row(r, f)
    BY <1>1
  <2>2. <<f, f>> \in Ways(r, results, name) /\ <<f, f>>[2] = f
    BY <1>2
  <2> QED BY <1>3, <1>4, <2>1, <2>2 DEF Stands
<1>6. ASSUME NEW w \in Ways(r, results, name)
      PROVE  \E row \in table.rows : Stands(r, name, row, w, table.columns)
  <2>1. w[2] \in fs
    BY <1>2
  <2>2. Row(r, w[2]) \in table.rows
    BY <1>1, <2>1
  <2> QED BY <1>3, <1>4, <2>2 DEF Stands
<1> QED BY <1>5, <1>6 DEF IsExact, table, fs

(* The table of the chains of a collection is exact.                       *)
LEMMA ChainedIsExact ==
  ASSUME NEW r, NEW results, IsFiniteSet(results), NEW name, NEW c, ChainOf(r, name) = {c}
  PROVE  IsExact(r, results, name,
                 Recurse(Table({Row(r, f) : f \in FindingsOf(r, results, name)}), c))
<1> DEFINE fs == FindingsOf(r, results, name)
<1> DEFINE plain == {Row(r, f) : f \in fs}
<1> DEFINE table == Recurse(Table(plain), c)
<1> DEFINE chains == Closure({<<Field(row, c.pa), Field(row, c.pb)>> : row \in plain})
<1> DEFINE New(row, p) == [raw |-> row.raw,
                           cols |-> [v \in {c.pa, c.pb} |-> IF v = c.pa THEN p[1] ELSE p[2]]]
<1>1. IsFiniteSet(fs)
  BY FS_Subset DEF FindingsOf
<1>2. \A x : x \in chains <=> \E ch \in Chains(r, c, fs) : ch[1] \in fs /\ ch[2] \in fs /\
                   x = <<Value(r, ch[1], c.pa), Value(r, ch[2], c.pb)>>
  <2> HIDE DEF fs
  <2> QED BY <1>1, ClosureOfTable
<1>3. /\ table.columns = {c.pa, c.pb}
      /\ table.rows = UNION {{New(row, p) : p \in {p \in chains :
                                 p[2] = Field(row, c.pb) /\ p[2] # Null}} : row \in plain}
  BY DEF Recurse, Table
<1>4. \A w : w \in Ways(r, results, name) <=>
             /\ w \in fs \X fs
             /\ \E ch \in Chains(r, c, fs) :
                    ch[1] = w[1] /\ Holds("==", Value(r, ch[2], c.pb), Value(r, w[2], c.pb))
  BY DEF Ways
<1>5. ASSUME NEW w, NEW v
      PROVE  ValueOf(r, name, w, v) = IF v = c.pa THEN Value(r, w[1], v) ELSE Value(r, w[2], v)
  BY DEF ValueOf
<1>6. ASSUME NEW f \in fs, NEW p, NEW w, w[2] = f,
             p[1] = Value(r, w[1], c.pa), p[2] = Value(r, f, c.pb)
      PROVE  Stands(r, name, New(Row(r, f), p), w, {c.pa, c.pb})
  <2>1. New(Row(r, f), p).raw = w[2].id
    BY <1>6 DEF Row
  <2>2. ASSUME NEW v \in {c.pa, c.pb}
        PROVE  Field(New(Row(r, f), p), v) = IF v = c.pa THEN p[1] ELSE p[2]
    BY DEF Field
  <2> HIDE DEF New
  <2>3. ASSUME NEW v \in {c.pa, c.pb}
        PROVE  Field(New(Row(r, f), p), v) = ValueOf(r, name, w, v)
    BY <1>5, <1>6, <2>2
  <2> QED BY <2>1, <2>3 DEF Stands
<1> HIDE DEF table, chains, fs, New
<1>7. ASSUME NEW row \in table.rows
      PROVE  \E w \in Ways(r, results, name) : Stands(r, name, row, w, table.columns)
  <2>1. PICK q \in plain : row \in {New(q, p) : p \in {p \in chains : p[2] = Field(q, c.pb) /\ p[2] # Null}}
    BY <1>3
  <2>2. PICK p \in chains : row = New(q, p) /\ p[2] = Field(q, c.pb) /\ p[2] # Null
    BY <2>1
  <2>3. PICK f \in fs : q = Row(r, f)
    BY <2>1
  <2>4. PICK ch \in Chains(r, c, fs) : ch[1] \in fs /\ ch[2] \in fs /\
                   p = <<Value(r, ch[1], c.pa), Value(r, ch[2], c.pb)>>
    BY <1>2
  <2>5. p[1] = Value(r, ch[1], c.pa) /\ p[2] = Value(r, ch[2], c.pb) /\ p[2] = Value(r, f, c.pb)
    BY <2>2, <2>3, <2>4 DEF Value
  <2> DEFINE w == <<ch[1], f>>
  <2>6. w[1] = ch[1] /\ w[2] = f /\ w \in fs \X fs
    BY <2>4
  <2> HIDE DEF w
  <2>7. w \in Ways(r, results, name)
    BY <1>4, <2>2, <2>5, <2>6 DEF Holds
  <2>8. Stands(r, name, New(Row(r, f), p), w, {c.pa, c.pb})
    BY <1>6, <2>5, <2>6
  <2> QED BY <1>3, <2>2, <2>3, <2>7, <2>8
<1>8. ASSUME NEW w \in Ways(r, results, name)
      PROVE  \E row \in table.rows : Stands(r, name, row, w, table.columns)
  <2>1. w[1] \in fs /\ w[2] \in fs
    BY <1>4
  <2>2. PICK ch \in Chains(r, c, fs) :
              ch[1] = w[1] /\ Holds("==", Value(r, ch[2], c.pb), Value(r, w[2], c.pb))
    BY <1>4
  <2> DEFINE p == <<Value(r, w[1], c.pa), Value(r, w[2], c.pb)>>
  <2>3. p[1] = Value(r, w[1], c.pa) /\ p[2] = Value(r, w[2], c.pb)
    OBVIOUS
  <2>4. ch[1] \in fs /\ ch[2] \in fs
    <3> HIDE DEF fs
    <3> QED BY ChainsAreOfFindings
  <2>5. p[2] = Field(Row(r, w[2]), c.pb) /\ p[2] # Null
    BY <2>2, <2>3 DEF Value, Holds
  <2>9. p = <<Value(r, ch[1], c.pa), Value(r, ch[2], c.pb)>>
    BY <2>2 DEF Holds
  <2> HIDE DEF p
  <2>10. p \in chains
    BY <1>2, <2>4, <2>9
  <2>6. Row(r, w[2]) \in plain
    BY <2>1
  <2>7. New(Row(r, w[2]), p) \in table.rows
    BY <1>3, <2>5, <2>6, <2>10
  <2>8. Stands(r, name, New(Row(r, w[2]), p), w, {c.pa, c.pb})
    BY <1>6, <2>1, <2>3
  <2> QED BY <1>3, <2>7, <2>8
<1> QED BY <1>7, <1>8 DEF IsExact, table, fs

-----------------------------------------------------------------------------
(* The last condition is one of the rule's.                                *)
LEMMA LastIsNormal ==
  ASSUME NEW on, NEW S, on \in Seq(S), Normal(on) # {}
  PROVE  \E k \in Normal(on) : LastOf(on) = on[k]
<1>1. Normal(on) \subseteq 1 .. Len(on) /\ Len(on) \in Nat
  BY DEF Normal
<1>2. PICK x \in Normal(on) : \A y \in Normal(on) : y <= x
  BY <1>1, GreatestIndex
<1>3. \A y \in Normal(on) : x >= y
  BY <1>1, <1>2
<1>4. Max(Normal(on)) \in Normal(on)
  BY <1>3 DEF Max
<1> QED BY <1>4 DEF LastOf

(* Both sides of a condition are collections of the rule.                  *)
LEMMA SidesAreCollections ==
  ASSUME NEW on, NEW k \in DOMAIN on
  PROVE  on[k].a \in Collections(on) /\ on[k].b \in Collections(on)
<1>1. on[k] \in ToSet(on)
  BY DEF ToSet
<1> QED BY <1>1 DEF Collections

(* On exact tables the query reports what the conditions mean.             *)
Columned(r, tables) ==
    \A k \in Normal(r.on) : /\ r.on[k].pa \in tables[RuleOf(r, r.on[k].a)].columns
                            /\ r.on[k].pb \in tables[RuleOf(r, r.on[k].b)].columns

(* Each choice of rows stands for one of ways, and each choice of ways for *)
(* one of rows.                                                            *)
LEMMA QueryIsMeant ==
  ASSUME NEW r, NEW S, r.on \in Seq(S), Normal(r.on) # {}, NEW results, NEW tables,
         Columned(r, tables),
         \A n \in Collections(r.on) : IsExact(r, results, n, tables[RuleOf(r, n)])
  PROVE  Query(r, tables) = Meant(r, results)
<1> DEFINE C == Collections(r.on)
<1> DEFINE RowsOf(n) == tables[RuleOf(r, n)].rows
<1> DEFINE Cols(n) == tables[RuleOf(r, n)].columns
<1> DEFINE W(n) == Ways(r, results, n)
<1> DEFINE RowFit(q, c) == Holds(c.op, Field(q[c.a], c.pa), Field(q[c.b], c.pb))
<1> DEFINE WayFit(p, c) == Holds(c.op, ValueOf(r, c.a, p[c.a], c.pa), ValueOf(r, c.b, p[c.b], c.pb))
<1> DEFINE QPicks == {q \in [C -> UNION {RowsOf(n) : n \in C}] : \A n \in DOMAIN q : q[n] \in RowsOf(n)}
<1> DEFINE MPicks == {p \in [C -> UNION {W(n) : n \in C}] : \A n \in DOMAIN p : p[n] \in W(n)}
<1> DEFINE last == LastOf(r.on).b
<1> DEFINE Alike(q, p) == \A n \in C : Stands(r, n, q[n], p[n], Cols(n))
<1>1. Query(r, tables) = {q[last].raw : q \in {q \in QPicks : \A k \in Normal(r.on) : RowFit(q, r.on[k])}}
  BY DEF Query
<1>2. Meant(r, results) = {p[last][2].id : p \in {p \in MPicks : \A k \in Normal(r.on) : WayFit(p, r.on[k])}}
  BY DEF Meant
<1>3. \A k \in Normal(r.on) : r.on[k].a \in C /\ r.on[k].b \in C
  BY SidesAreCollections DEF Normal
<1>4. last \in C
  BY <1>3, LastIsNormal
<1>5. \A n \in C : /\ \A row \in RowsOf(n) : \E w \in W(n) : Stands(r, n, row, w, Cols(n))
                   /\ \A w \in W(n) : \E row \in RowsOf(n) : Stands(r, n, row, w, Cols(n))
  BY DEF IsExact
<1>6. \A k \in Normal(r.on) : r.on[k].pa \in Cols(r.on[k].a) /\ r.on[k].pb \in Cols(r.on[k].b)
  BY DEF Columned
<1> HIDE DEF C, RowsOf, Cols, W
<1>7. ASSUME NEW q, NEW p, Alike(q, p)
      PROVE  /\ q[last].raw = p[last][2].id
             /\ \A k \in Normal(r.on) : RowFit(q, r.on[k]) <=> WayFit(p, r.on[k])
  <2>1. q[last].raw = p[last][2].id
    BY <1>4, <1>7 DEF Stands
  <2>2. ASSUME NEW k \in Normal(r.on)
        PROVE  /\ Field(q[r.on[k].a], r.on[k].pa) = ValueOf(r, r.on[k].a, p[r.on[k].a], r.on[k].pa)
               /\ Field(q[r.on[k].b], r.on[k].pb) = ValueOf(r, r.on[k].b, p[r.on[k].b], r.on[k].pb)
    BY <1>3, <1>6, <1>7 DEF Stands
  <2>3. ASSUME NEW k \in Normal(r.on) PROVE RowFit(q, r.on[k]) <=> WayFit(p, r.on[k])
    BY <2>2
  <2> QED BY <2>1, <2>3
<1>8. ASSUME NEW q \in QPicks PROVE \E p \in MPicks : Alike(q, p)
  <2> DEFINE p == [n \in C |-> CHOOSE w \in W(n) : Stands(r, n, q[n], w, Cols(n))]
  <2>1. DOMAIN q = C /\ \A n \in C : q[n] \in RowsOf(n)
    OBVIOUS
  <2>2. ASSUME NEW n \in C PROVE p[n] \in W(n) /\ Stands(r, n, q[n], p[n], Cols(n))
    <3>1. \E w \in W(n) : Stands(r, n, q[n], w, Cols(n))
      BY <1>5, <2>1
    <3> QED BY <3>1
  <2>3. DOMAIN p = C
    OBVIOUS
  <2>4. p \in [C -> UNION {W(n) : n \in C}]
    BY <2>2
  <2> HIDE DEF p
  <2>5. p \in MPicks
    BY <2>2, <2>3, <2>4
  <2> QED BY <2>2, <2>5
<1>9. ASSUME NEW p \in MPicks PROVE \E q \in QPicks : Alike(q, p)
  <2> DEFINE q == [n \in C |-> CHOOSE row \in RowsOf(n) : Stands(r, n, row, p[n], Cols(n))]
  <2>1. DOMAIN p = C /\ \A n \in C : p[n] \in W(n)
    OBVIOUS
  <2>2. ASSUME NEW n \in C PROVE q[n] \in RowsOf(n) /\ Stands(r, n, q[n], p[n], Cols(n))
    <3>1. \E row \in RowsOf(n) : Stands(r, n, row, p[n], Cols(n))
      BY <1>5, <2>1
    <3> QED BY <3>1
  <2>3. DOMAIN q = C
    OBVIOUS
  <2>4. q \in [C -> UNION {RowsOf(n) : n \in C}]
    BY <2>2
  <2> HIDE DEF q
  <2>5. q \in QPicks
    BY <2>2, <2>3, <2>4
  <2> QED BY <2>2, <2>5
<1> HIDE DEF QPicks, MPicks, Alike, RowFit, WayFit, last
<1>10. ASSUME NEW x \in Query(r, tables) PROVE x \in Meant(r, results)
  <2>1. PICK q \in QPicks : x = q[last].raw /\ \A k \in Normal(r.on) : RowFit(q, r.on[k])
    BY <1>1
  <2>2. PICK p \in MPicks : Alike(q, p)
    BY <1>8
  <2>3. x = p[last][2].id /\ \A k \in Normal(r.on) : WayFit(p, r.on[k])
    BY <1>7, <2>1, <2>2
  <2> QED BY <1>2, <2>3
<1>11. ASSUME NEW x \in Meant(r, results) PROVE x \in Query(r, tables)
  <2>1. PICK p \in MPicks : x = p[last][2].id /\ \A k \in Normal(r.on) : WayFit(p, r.on[k])
    BY <1>2
  <2>2. PICK q \in QPicks : Alike(q, p)
    BY <1>9
  <2>3. x = q[last].raw /\ \A k \in Normal(r.on) : RowFit(q, r.on[k])
    BY <1>7, <2>1, <2>2
  <2> QED BY <1>1, <2>3
<1>12. (\A x : x \in Query(r, tables) <=> x \in Meant(r, results)) => Query(r, tables) = Meant(r, results)
  OBVIOUS
<1> QED BY <1>10, <1>11, <1>12

-----------------------------------------------------------------------------
(* The join rules of a pass.                                               *)
IsJoin(j) == j \in [n : Nat \ {0}, at : {j.at}, results : {j.results}, errs : {j.errs},
                    open : {j.open}, tables : {j.tables}, done : {j.done}, found : {j.found},
                    told : {j.told}]

(* The table of a collection, once the chains of some conditions were      *)
(* followed.                                                               *)
PlainTable(r, results, name) == Table({Row(r, f) : f \in FindingsOf(r, results, name)})
Followed(r, results, name, done) ==
    IF \E k \in done : r.on[k].a = name
    THEN Recurse(PlainTable(r, results, name), r.on[CHOOSE k \in done : r.on[k].a = name])
    ELSE PlainTable(r, results, name)
Distinct(r) == \A m, n \in Collections(r.on) : RuleOf(r, m) = RuleOf(r, n) => m = n

(* Where a rule stands at each place, and what the last one reported.      *)
AtLoad(r) ==
    join.at \in {"load", "match", "close"} =>
        \A n \in Collections(r.on) : RuleOf(r, n) \in {f.rule : f \in join.results}
NoneDone == join.at \in {"refs", "scan", "check", "load"} => join.done = {}
AtMatch(r) ==
    join.at = "match" =>
        /\ DOMAIN join.tables = {f.rule : f \in join.results}
        /\ join.done \subseteq Recursive(r.on)
        /\ Distinct(r) /\ OneChain(r) =>
             \A n \in Collections(r.on) :
                 join.tables[RuleOf(r, n)] = Followed(r, join.results, n, join.done)
AtClose(r) ==
    join.at = "close" =>
        /\ Normal(r.on) # {} /\ Columned(r, join.tables)
        /\ OneChain(r) => \A n \in Collections(r.on) :
                              IsExact(r, join.results, n, join.tables[RuleOf(r, n)])
LastExact ==
    join.at = "refs" /\ join.found # <<>> =>
        LET r == job.joins[Len(join.found)] IN
        r.parses /\ OneChain(r) => Last(join.found).ids = Meant(r, Last(join.found).of)

Joining ==
    /\ IsJoin(join)
    /\ join.found \in Seq(ToSet(join.found)) /\ Len(join.found) = join.n - 1
    /\ IsFiniteSet(join.results)
    /\ AtLoad(job.joins[join.n]) /\ AtMatch(job.joins[join.n]) /\ AtClose(job.joins[join.n])
    /\ NoneDone /\ LastExact

JoinInv == job \in Jobs /\ (pc = "join" => Joining)

(* A sequence is one of its own elements.                                  *)
LEMMA SeqOfItsOwn ==
  ASSUME NEW S, NEW s \in Seq(S)
  PROVE  s \in Seq(ToSet(s))
<1>1. s \in [1 .. Len(s) -> S] /\ Len(s) \in Nat
  OBVIOUS
<1>2. \A i \in 1 .. Len(s) : s[i] \in ToSet(s)
  BY <1>1 DEF ToSet
<1>3. s \in [1 .. Len(s) -> ToSet(s)]
  BY <1>1, <1>2
<1>4. s \in UNION {[1 .. n -> ToSet(s)] : n \in Nat}
  BY <1>1, <1>3
<1> QED BY <1>1, <1>2

(* What is appended is the last, and one more.                             *)
LEMMA AppendIsSeq ==
  ASSUME NEW s, s \in Seq(ToSet(s)), NEW x
  PROVE  /\ Append(s, x) \in Seq(ToSet(Append(s, x))) /\ Len(Append(s, x)) = Len(s) + 1
         /\ Last(Append(s, x)) = x /\ Append(s, x) # <<>>
<1> PICK S : S = ToSet(s) \cup {x}
  OBVIOUS
<1>1. s \in Seq(S)
  OBVIOUS
<1>2. Append(s, x) \in Seq(S) /\ Len(Append(s, x)) = Len(s) + 1 /\ Append(s, x)[Len(s) + 1] = x
  BY <1>1
<1>3. Append(s, x) \in Seq(ToSet(Append(s, x)))
  BY <1>2, SeqOfItsOwn
<1>4. Append(s, x) # <<>>
  <2>1. Len(s) \in Nat
    OBVIOUS
  <2> PICK t : t = Append(s, x)
    OBVIOUS
  <2>2. Len(t) # 0
    BY <1>2, <2>1
  <2> QED BY <2>2
<1> QED BY <1>2, <1>3, <1>4 DEF Last

(* An exception leaves the rules where they are.                           *)
LEMMA RaisedJoins ==
  ASSUME Joining, Raised, UNCHANGED job
  PROVE  Joining'
<1>1. /\ IsJoin(join)' /\ join'.at = "raised" /\ join'.found = join.found /\ join'.n = join.n
      /\ join'.results = join.results
  BY DEF Raised, Joining, IsJoin
<1> QED BY <1>1 DEF Joining, AtLoad, AtMatch, AtClose, NoneDone, LastExact

(* A rule that reports what is meant hands over to the next.               *)
LEMMA ReportsJoins ==
  ASSUME Joining, NEW ids, NEW errs, Reports(ids, errs), UNCHANGED job, NEW r,
         r = job.joins[join.n], r.parses /\ OneChain(r) => ids = Meant(r, join.results)
  PROVE  Joining'
<1> DEFINE x == [of |-> join.results, ids |-> ids, errs |-> join.errs]
<1>1. join.n \in Nat \ {0}
  BY DEF Joining, IsJoin
<1>2. /\ IsJoin(join)' /\ join'.at = "refs" /\ join'.n = join.n + 1
      /\ join'.found = Append(join.found, x) /\ join'.results = {} /\ join'.done = {}
  <2> PICK g : g = Append(join.found, x)
    OBVIOUS
  <2> PICK m : m = join.n + 1
    OBVIOUS
  <2> PICK t : t = join.told \o errs
    OBVIOUS
  <2> HIDE DEF x
  <2>1. join' = [NoJoin EXCEPT !.n = m, !.told = t, !.found = g]
    BY DEF Reports, x
  <2>2. m \in Nat \ {0}
    BY <1>1
  <2>3. /\ IsJoin(join)' /\ join'.at = "refs" /\ join'.n = m /\ join'.found = g
        /\ join'.results = {} /\ join'.done = {}
    BY <2>1, <2>2 DEF NoJoin, IsJoin
  <2> QED BY <2>3
<1>3. x.of = join.results /\ x.ids = ids
  OBVIOUS
<1> HIDE DEF x
<1>4. /\ join'.found \in Seq(ToSet(join'.found)) /\ Len(join'.found) = Len(join.found) + 1
      /\ Last(join'.found) = x
  BY <1>2, AppendIsSeq DEF Joining
<1>5. Len(join'.found) = join.n
  BY <1>1, <1>4 DEF Joining
<1>6. Len(join'.found) = join'.n - 1
  BY <1>1, <1>2, <1>5
<1>7. LastExact'
  BY <1>3, <1>4, <1>5 DEF LastExact
<1>8. IsFiniteSet(join'.results)
  BY <1>2, FS_EmptySet
<1> QED BY <1>2, <1>4, <1>6, <1>7, <1>8 DEF Joining, AtLoad, AtMatch, AtClose, NoneDone

(* The steps of a rule, one by one.                                        *)
LEMMA ResolveRefsJoins ==
  ASSUME Joining, NEW r, r = job.joins[join.n], ResolveRefs(r), UNCHANGED job
  PROVE  Joining'
<1>0. join.at = "refs" /\ join.done = {}
  BY DEF ResolveRefs, Joining, NoneDone
<1>1. CASE Raised
  BY <1>1, RaisedJoins
<1>2. CASE ~r.parses /\ Reports({}, <<"condition">>)
  BY <1>2, ReportsJoins
<1>3. CASE join' = [join EXCEPT !.at = "scan"]
  <2>1. /\ IsJoin(join)' /\ join'.at = "scan" /\ join'.found = join.found /\ join'.n = join.n
        /\ join'.results = join.results /\ join'.done = join.done
    BY <1>3 DEF Joining, IsJoin
  <2> QED BY <1>0, <2>1 DEF Joining, AtLoad, AtMatch, AtClose, NoneDone, LastExact
<1> QED BY <1>1, <1>2, <1>3 DEF ResolveRefs

(* The findings of the references are some of those there are.             *)
LEMMA RunRefsJoins ==
  ASSUME Joining, job \in Jobs, NEW r, RunRefs(r, job.hits), UNCHANGED job
  PROVE  Joining'
<1>0. join.at = "scan" /\ join.done = {}
  BY DEF RunRefs, Joining, NoneDone
<1>1. CASE Raised
  BY <1>1, RaisedJoins
<1>2. ASSUME NEW errs, NEW lost,
             join' = [join EXCEPT !.at = "check", !.errs = errs,
                        !.results = {f \in job.hits : f.rule \in RulesOf(r) /\ f.id \notin lost}]
      PROVE  Joining'
  <2> PICK hits : hits = {f \in job.hits : f.rule \in RulesOf(r) /\ f.id \notin lost}
    OBVIOUS
  <2>1. IsFiniteSet(hits)
    BY ScanJobs, FS_Subset
  <2>2. join' = [join EXCEPT !.at = "check", !.errs = errs, !.results = hits]
    BY <1>2
  <2>3. /\ IsJoin(join)' /\ join'.at = "check" /\ join'.found = join.found /\ join'.n = join.n
        /\ join'.results = hits /\ join'.done = join.done
    BY <2>2 DEF Joining, IsJoin
  <2> QED BY <1>0, <2>1, <2>3 DEF Joining, AtLoad, AtMatch, AtClose, NoneDone, LastExact
<1> DEFINE Ran(errs, lost) ==
        join' = [join EXCEPT !.at = "check", !.errs = errs,
                    !.results = {f \in job.hits : f.rule \in RulesOf(r) /\ f.id \notin lost}]
<1>3. \/ Raised
      \/ \E errs \in SUBSET {"Syntax error"} :
         \E lost \in {{}} \cup (IF errs = {} THEN {} ELSE {{f.id} : f \in job.hits}) :
            Ran(errs, lost)
  BY DEF RunRefs
<1>4. ASSUME NEW errs, NEW lost, Ran(errs, lost) PROVE Joining'
  BY <1>2, <1>4
<1> HIDE DEF Ran
<1> QED BY <1>1, <1>3, <1>4

(* Where a collection has no finding, no conditions hold.                  *)
LEMMA NothingIsMeant ==
  ASSUME NEW r, NEW results, NEW name \in Collections(r.on),
         RuleOf(r, name) \notin {f.rule : f \in results}
  PROVE  Meant(r, results) = {}
<1>1. FindingsOf(r, results, name) = {}
  BY DEF FindingsOf
<1>2. Ways(r, results, name) = {}
  BY <1>1 DEF Ways
<1> DEFINE C == Collections(r.on)
<1> DEFINE W(n) == Ways(r, results, n)
<1>3. {p \in [C -> UNION {W(n) : n \in C}] : \A n \in DOMAIN p : p[n] \in W(n)} = {}
  <2> HIDE DEF W, C
  <2>1. W(name) = {} /\ name \in C
    BY <1>2 DEF W, C
  <2> QED BY <2>1
<1> QED BY <1>3 DEF Meant

(* Without a finding in each collection there is nothing to report.        *)
LEMMA CheckResultsJoins ==
  ASSUME Joining, NEW r, r = job.joins[join.n], CheckResults(r), UNCHANGED job
  PROVE  Joining'
<1>0. join.at = "check" /\ join.done = {}
  BY DEF CheckResults, Joining, NoneDone
<1>1. CASE Raised
  BY <1>1, RaisedJoins
<1>2. ASSUME NEW n \in Collections(r.on), RuleOf(r, n) \notin {f.rule : f \in join.results},
             Reports({}, Reconstituted(join.errs))
      PROVE  Joining'
  BY <1>2, NothingIsMeant, ReportsJoins
<1>3. ASSUME \A n \in Collections(r.on) : RuleOf(r, n) \in {f.rule : f \in join.results},
             join' = [join EXCEPT !.at = "load"]
      PROVE  Joining'
  <2>1. /\ IsJoin(join)' /\ join'.at = "load" /\ join'.found = join.found /\ join'.n = join.n
        /\ join'.results = join.results /\ join'.done = join.done
    BY <1>3 DEF Joining, IsJoin
  <2> QED BY <1>0, <1>3, <2>1 DEF Joining, AtLoad, AtMatch, AtClose, NoneDone, LastExact
<1> QED BY <1>1, <1>2, <1>3 DEF CheckResults

(* The tables that are loaded are those of the findings.                   *)
LEMMA LoadResultsJoins ==
  ASSUME Joining, NEW r, r = job.joins[join.n], LoadResults(r), UNCHANGED job
  PROVE  Joining'
<1>0. join.at = "load" /\ join.done = {}
  BY DEF LoadResults, Joining, NoneDone
<1>1. CASE Raised
  BY <1>1, RaisedJoins
<1>2. CASE join' = [join EXCEPT !.at = "match", !.open = TRUE, !.tables = Tables(r, join.results)]
  <2>1. /\ IsJoin(join)' /\ join'.at = "match" /\ join'.found = join.found /\ join'.n = join.n
        /\ join'.results = join.results /\ join'.done = join.done
        /\ join'.tables = Tables(r, join.results)
    BY <1>2 DEF Joining, IsJoin
  <2>2. AtLoad(r) /\ AtLoad(r)'
    BY <2>1 DEF Joining, AtLoad, LoadResults
  <2>3. DOMAIN join'.tables = {f.rule : f \in join.results}
    BY <2>1 DEF Tables
  <2>4. ASSUME NEW n \in Collections(r.on)
        PROVE  join'.tables[RuleOf(r, n)] = Followed(r, join.results, n, join.done)
    <3>1. RuleOf(r, n) \in {f.rule : f \in join.results}
      BY <2>2 DEF AtLoad, LoadResults
    <3>2. join'.tables[RuleOf(r, n)]
            = Table({Row(r, f) : f \in {f \in join.results : f.rule = RuleOf(r, n)}})
      BY <2>1, <3>1 DEF Tables
    <3>3. Followed(r, join.results, n, join.done) = PlainTable(r, join.results, n)
      BY DEF Followed, Joining, NoneDone, LoadResults
    <3> QED BY <3>2, <3>3 DEF PlainTable, FindingsOf
  <2>5. AtMatch(r)'
    BY <1>0, <2>1, <2>3, <2>4 DEF AtMatch
  <2> QED BY <1>0, <2>1, <2>2, <2>5 DEF Joining, AtLoad, AtMatch, AtClose, NoneDone, LastExact
<1> QED BY <1>1, <1>2 DEF LoadResults

(* A condition follows the chains of its collection and of no other.       *)
LEMMA OthersStay ==
  ASSUME NEW r, NEW results, NEW done, NEW k, NEW n, n # r.on[k].a
  PROVE  Followed(r, results, n, done \cup {k}) = Followed(r, results, n, done)
<1>1. \A j : (j \in done \cup {k} /\ r.on[j].a = n) <=> (j \in done /\ r.on[j].a = n)
   OBVIOUS
<1>2. (CHOOSE j \in done \cup {k} : r.on[j].a = n) = (CHOOSE j \in done : r.on[j].a = n)
   BY <1>1
<1>3. (\E j \in done \cup {k} : r.on[j].a = n) <=> (\E j \in done : r.on[j].a = n)
   BY <1>1
<1> QED BY <1>2, <1>3 DEF Followed

FollowedOnly(r, results, done, k) ==
    /\ ~ \E j \in done : r.on[j].a = r.on[k].a
    /\ Followed(r, results, r.on[k].a, done) = PlainTable(r, results, r.on[k].a)
    /\ Followed(r, results, r.on[k].a, done \cup {k})
         = Recurse(PlainTable(r, results, r.on[k].a), r.on[k])
    /\ \A n : n # r.on[k].a =>
            Followed(r, results, n, done \cup {k}) = Followed(r, results, n, done)

(* Its table was plain before, and is that of its chains after.            *)
LEMMA ChainsFollowed ==
  ASSUME NEW r, OneChain(r), NEW results, NEW done, done \subseteq Recursive(r.on),
         NEW k, k \in Recursive(r.on), k \notin done
  PROVE  FollowedOnly(r, results, done, k)
<1>1. ~ \E j \in done : r.on[j].a = r.on[k].a
  BY DEF OneChain
<1>2. Followed(r, results, r.on[k].a, done) = PlainTable(r, results, r.on[k].a)
  BY <1>1 DEF Followed
<1>3. Followed(r, results, r.on[k].a, done \cup {k}) = Recurse(PlainTable(r, results, r.on[k].a), r.on[k])
  <2>1. \A j \in done \cup {k} : r.on[j].a = r.on[k].a <=> j = k
    BY <1>1
  <2>2. (CHOOSE j \in done \cup {k} : r.on[j].a = r.on[k].a) = k
    BY <2>1
  <2> QED BY <2>1, <2>2 DEF Followed
<1> QED BY <1>1, <1>2, <1>3, OthersStay DEF FollowedOnly

(* The table of one collection is replaced, and no other.                  *)
LEMMA FollowChainsJoins ==
  ASSUME Joining, NEW r, r = job.joins[join.n], FollowChains(r), UNCHANGED job
  PROVE  Joining'
<1>0. join.at = "match"
  BY DEF FollowChains
<1>1. CASE Raised
  BY <1>1, RaisedJoins
<1> DEFINE Replaced(k, table, earlier) ==
        join' = [join EXCEPT !.done = @ \cup {k},
                   !.tables[RuleOf(r, r.on[k].a)] =
                       [Recurse(table, r.on[k]) EXCEPT !.rows = @ \cup earlier]]
<1>2. ASSUME NEW k \in Recursive(r.on) \ join.done, NEW table, NEW earlier,
             table = join.tables[RuleOf(r, r.on[k].a)],
             earlier = IF \E j \in join.done : r.on[j].a = r.on[k].a THEN table.rows ELSE {},
             Replaced(k, table, earlier)
      PROVE  Joining'
  <2> PICK new : new = [Recurse(table, r.on[k]) EXCEPT !.rows = @ \cup earlier]
    OBVIOUS
  <2> PICK x : x = RuleOf(r, r.on[k].a)
    OBVIOUS
  <2> PICK tables : tables = [join.tables EXCEPT ![x] = new]
    OBVIOUS
  <2> PICK done : done = join.done \cup {k}
    OBVIOUS
  <2>1. join' = [join EXCEPT !.done = done, !.tables = tables]
    BY <1>2 DEF Joining, IsJoin
  <2>2. /\ IsJoin(join)' /\ join'.at = "match" /\ join'.found = join.found /\ join'.n = join.n
        /\ join'.results = join.results /\ join'.done = done /\ join'.tables = tables
    BY <1>0, <2>1 DEF Joining, IsJoin
  <2>3. /\ AtLoad(r) /\ DOMAIN join.tables = {f.rule : f \in join.results}
        /\ join.done \subseteq Recursive(r.on)
        /\ Distinct(r) /\ OneChain(r) =>
             \A n \in Collections(r.on) :
                 join.tables[RuleOf(r, n)] = Followed(r, join.results, n, join.done)
    BY <1>0 DEF Joining, AtMatch
  <2>4. AtLoad(r)'
    BY <1>0, <2>2, <2>3 DEF AtLoad
  <2>5. DOMAIN tables = {f.rule : f \in join.results} /\ done \subseteq Recursive(r.on)
    BY <2>3
  <2>6. ASSUME Distinct(r), OneChain(r), NEW n \in Collections(r.on)
        PROVE  tables[RuleOf(r, n)] = Followed(r, join.results, n, done)
    <3> DEFINE c == r.on[k]
    <3>1. c.a \in Collections(r.on)
      BY SidesAreCollections DEF Recursive
    <3>2. x \in DOMAIN join.tables /\ RuleOf(r, n) \in DOMAIN join.tables
      BY <1>0, <2>3, <3>1 DEF AtLoad
    <3> PICK name : name = c.a
      OBVIOUS
    <3>3. /\ ~ \E j \in join.done : r.on[j].a = name
          /\ Followed(r, join.results, name, join.done) = PlainTable(r, join.results, name)
          /\ Followed(r, join.results, name, done) = Recurse(PlainTable(r, join.results, name), c)
          /\ n # name => Followed(r, join.results, n, done)
                              = Followed(r, join.results, n, join.done)
      <4> PICK results : results = join.results
        OBVIOUS
      <4> PICK before : before = join.done
        OBVIOUS
      <4>1. before \subseteq Recursive(r.on) /\ k \in Recursive(r.on) /\ k \notin before
        BY <2>3
      <4>2. FollowedOnly(r, results, before, k)
        BY <2>6, <4>1, ChainsFollowed
      <4> QED BY <4>2 DEF FollowedOnly
    <3>4. CASE n = name
      <4>1. table = PlainTable(r, join.results, name) /\ earlier = {}
        BY <1>2, <2>3, <2>6, <3>1, <3>3
      <4>2. new = Recurse(table, c)
        <5>1. PICK cols, rows : Recurse(table, c) = [columns |-> cols, rows |-> rows]
          BY DEF Recurse
        <5> QED BY <4>1, <5>1
      <4>3. tables[RuleOf(r, n)] = new
        BY <3>2, <3>4
      <4> QED BY <3>3, <3>4, <4>1, <4>2, <4>3
    <3>5. CASE n # name
      <4>1. RuleOf(r, n) # x
        BY <2>6, <3>1, <3>5 DEF Distinct
      <4>2. tables[RuleOf(r, n)] = join.tables[RuleOf(r, n)]
        BY <3>2, <4>1
      <4> QED BY <2>3, <2>6, <3>3, <3>5, <4>2
    <3> QED BY <3>4, <3>5
  <2>7. AtMatch(r)'
    BY <2>2, <2>5, <2>6 DEF AtMatch
  <2> QED BY <2>2, <2>4, <2>7 DEF Joining, AtClose, NoneDone, LastExact
<1>3. Raised \/ \E k \in Recursive(r.on) \ join.done :
          Replaced(k, join.tables[RuleOf(r, r.on[k].a)],
                   IF \E j \in join.done : r.on[j].a = r.on[k].a
                   THEN join.tables[RuleOf(r, r.on[k].a)].rows ELSE {})
  BY DEF FollowChains
<1> HIDE DEF Replaced
<1> QED BY <1>1, <1>2, <1>3

(* Once all chains were followed, the tables are exact.                    *)
LEMMA FollowedIsExact ==
  ASSUME NEW r, OneChain(r), NEW results, IsFiniteSet(results), NEW name
  PROVE  IsExact(r, results, name, Followed(r, results, name, Recursive(r.on)))
<1>1. CASE \E k \in Recursive(r.on) : r.on[k].a = name
  <2> PICK k : k = CHOOSE j \in Recursive(r.on) : r.on[j].a = name
    OBVIOUS
  <2>1. k \in Recursive(r.on) /\ r.on[k].a = name
    BY <1>1
  <2>2. ChainOf(r, name) = {r.on[k]}
    <3>1. r.on[k] \in ChainOf(r, name)
      BY <2>1 DEF ChainOf, Recursive, ToSet
    <3>2. ASSUME NEW c \in ChainOf(r, name) PROVE c = r.on[k]
      <4>1. PICK j \in DOMAIN r.on : c = r.on[j] /\ c.op = "-->" /\ c.a = name
        BY DEF ChainOf, ToSet
      <4> QED BY <2>1, <4>1 DEF OneChain, Recursive
    <3> QED BY <3>1, <3>2
  <2>3. Followed(r, results, name, Recursive(r.on)) = Recurse(PlainTable(r, results, name), r.on[k])
    BY <1>1 DEF Followed
  <2> PICK c : c = r.on[k]
    OBVIOUS
  <2>4. IsExact(r, results, name, Recurse(PlainTable(r, results, name), c))
    BY <2>2, ChainedIsExact DEF PlainTable
  <2> QED BY <2>3, <2>4
<1>2. CASE ~ \E k \in Recursive(r.on) : r.on[k].a = name
  <2>1. ChainOf(r, name) = {}
    BY <1>2 DEF ChainOf, Recursive, ToSet
  <2>2. Followed(r, results, name, Recursive(r.on)) = PlainTable(r, results, name)
    BY <1>2 DEF Followed
  <2> QED BY <2>1, <2>2, PlainIsExact DEF PlainTable
<1> QED BY <1>1, <1>2

(* A rule with conditions to evaluate has followed all its chains.         *)
LEMMA MatchConditionsJoins ==
  ASSUME Joining, NEW r, r = job.joins[join.n], MatchConditions(r), UNCHANGED job
  PROVE  Joining'
<1>1. CASE Raised
  BY <1>1, RaisedJoins
<1>2. ASSUME Normal(r.on) # {}, \A k \in Normal(r.on) : Known(r, r.on[k]), Distinct(r),
             join' = [join EXCEPT !.at = "close"]
      PROVE  Joining'
  <2>1. /\ IsJoin(join)' /\ join'.at = "close" /\ join'.found = join.found /\ join'.n = join.n
        /\ join'.results = join.results /\ join'.tables = join.tables
    BY <1>2 DEF Joining, IsJoin
  <2>2. /\ AtLoad(r) /\ join.done = Recursive(r.on)
        /\ OneChain(r) => \A n \in Collections(r.on) :
                 join.tables[RuleOf(r, n)] = Followed(r, join.results, n, join.done)
    BY <1>2 DEF Joining, AtMatch, MatchConditions
  <2>3. AtLoad(r)'
    BY <2>1, <2>2 DEF AtLoad, MatchConditions
  <2>4. Columned(r, join.tables)
    BY <1>2 DEF Columned, Known
  <2>5. ASSUME OneChain(r), NEW n \in Collections(r.on)
        PROVE  IsExact(r, join.results, n, join.tables[RuleOf(r, n)])
    BY <2>2, <2>5, FollowedIsExact DEF Joining
  <2>6. AtClose(r)'
    BY <1>2, <2>1, <2>4, <2>5 DEF AtClose
  <2> QED BY <2>1, <2>3, <2>6 DEF Joining, AtMatch, NoneDone, LastExact
<1> QED BY <1>1, <1>2 DEF MatchConditions, Distinct

(* What is reported is the answer of the query.                            *)
LEMMA CloseDatabaseJoins ==
  ASSUME Joining, NEW r, r = job.joins[join.n], CloseDatabase(r), NEW S, r.on \in Seq(S),
         UNCHANGED job
  PROVE  Joining'
<1>1. /\ Normal(r.on) # {} /\ Columned(r, join.tables)
      /\ OneChain(r) => \A n \in Collections(r.on) :
                              IsExact(r, join.results, n, join.tables[RuleOf(r, n)])
  BY DEF Joining, AtClose, CloseDatabase
<1>2. OneChain(r) => Query(r, join.tables) = Meant(r, join.results)
  BY <1>1, QueryIsMeant
<1> QED BY <1>2, ReportsJoins DEF CloseDatabase

(* Every step of a join rule.                                              *)
LEMMA JoinRunsJoins ==
  ASSUME JoinInv, JoinRuns
  PROVE  JoinInv'
<1>1. pc = "join" /\ UNCHANGED <<pc, job>> /\ JoinStep(job.joins, job.hits) /\ job \in Jobs /\ Joining
  BY DEF JoinRuns, JoinInv
<1> PICK r : r = job.joins[join.n]
  OBVIOUS
<1>2. join.n \in DOMAIN job.joins
  BY <1>1 DEF JoinStep
<1>3. \/ ResolveRefs(r) \/ RunRefs(r, job.hits) \/ CheckResults(r)
      \/ LoadResults(r) \/ FollowChains(r) \/ MatchConditions(r) \/ CloseDatabase(r)
  BY <1>1 DEF JoinStep
<1>4. r \in ToSet(job.joins)
  BY <1>2 DEF ToSet
<1>5. r.on \in Seq(ToSet(r.on))
  BY <1>1, <1>4, ScanJobs
<1>6. Joining'
  BY <1>1, <1>3, <1>5, ResolveRefsJoins, RunRefsJoins, CheckResultsJoins, LoadResultsJoins,
     FollowChainsJoins, MatchConditionsJoins, CloseDatabaseJoins
<1> QED BY <1>1, <1>6 DEF JoinInv

(* The first rule begins with no table and no result.                      *)
LEMMA FirstJoins ==
  ASSUME JoinInv, CoreDone
  PROVE  JoinInv'
<1>1. UNCHANGED job
  BY DEF CoreDone
<1>2. CASE join' = [NoJoin EXCEPT !.n = 1]
  <2>1. /\ IsJoin(join)' /\ join'.at = "refs" /\ join'.n = 1 /\ join'.found = <<>>
        /\ join'.results = {} /\ join'.done = {}
    <3>1. 1 \in Nat \ {0}
      OBVIOUS
    <3>2. join' = [n |-> 1, at |-> "refs", results |-> {}, errs |-> {}, open |-> FALSE,
                   tables |-> << >>, done |-> {}, found |-> <<>>, told |-> <<>>]
      BY <1>2 DEF NoJoin
    <3> QED BY <3>1, <3>2 DEF IsJoin
  <2>2. IsFiniteSet(join'.results)
    BY <2>1, FS_EmptySet
  <2>3. join'.found \in Seq(ToSet(join'.found)) /\ Len(join'.found) = join'.n - 1
    BY <2>1
  <2> QED BY <1>1, <2>1, <2>2, <2>3
        DEF JoinInv, Joining, AtLoad, AtMatch, AtClose, NoneDone, LastExact
<1>3. CASE Raise(2, "core")
  <2>1. pc' # "join"
    BY <1>3 DEF Raise, Leave
  <2> QED BY <1>1, <2>1 DEF JoinInv
<1> QED BY <1>2, <1>3 DEF CoreDone

(* No other step of the scan is in a join rule.                            *)
LEMMA StepJoins == ASSUME JoinInv, [Next]_vars PROVE JoinInv'
<1>1. CASE CoreDone
  BY <1>1, FirstJoins
<1>2. CASE JoinRuns
  BY <1>2, JoinRunsJoins
<1>3. CASE UNCHANGED vars
  BY <1>3 DEF vars, JoinInv, Joining, IsJoin, AtLoad, AtMatch, AtClose, NoneDone, LastExact
<1>4. CASE CoreRuns
  BY <1>4 DEF CoreRuns, JoinInv
<1>5. CASE \/ CheckFlags \/ Validate \/ LoadRules \/ FindTargets \/ PrepareCore \/ JoinsEnd
           \/ SelectBaseline \/ ResetToBase \/ OpenWorktree \/ CheckoutWorktree \/ RemoveMatches
           \/ LeaveBaseline \/ FilterIgnored \/ ApplyFixes \/ WriteOutputs
  <2>1. UNCHANGED job
    BY <1>5 DEF CheckFlags, Validate, LoadRules, FindTargets, PrepareCore, JoinsEnd,
         SelectBaseline, ResetToBase, OpenWorktree, CheckoutWorktree, RemoveMatches,
         LeaveBaseline, FilterIgnored, ApplyFixes, WriteOutputs
  <2>2. pc' # "join"
    BY <1>5 DEF CheckFlags, Validate, LoadRules, FindTargets, PrepareCore, JoinsEnd,
         SelectBaseline, ResetToBase, OpenWorktree, CheckoutWorktree, RemoveMatches,
         LeaveBaseline, FilterIgnored, ApplyFixes, WriteOutputs, Goto, Leave, Raise, AfterRun
  <2> QED BY <2>1, <2>2 DEF JoinInv
<1> QED BY <1>1, <1>2, <1>3, <1>4, <1>5 DEF Next

(* A join rule that the scan ran reports what its conditions mean, chains  *)
(* of any length included, whatever the rules before it left behind: of    *)
(* every list of join rules and of every set of findings.                  *)
THEOREM JoinsAreExact == Spec => []JoinIsExact
<1>1. Init => JoinInv
  BY DEF Init, JoinInv
<1>2. JoinInv /\ [Next]_vars => JoinInv'
  BY StepJoins
<1>3. JoinInv => JoinIsExact
  BY DEF JoinInv, Joining, LastExact, JoinIsExact
<1> QED BY <1>1, <1>2, <1>3, PTL DEF Spec
=============================================================================
