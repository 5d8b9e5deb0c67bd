---------------------------- MODULE CiScanProofs ----------------------------
(***************************************************************************)
(* What holds of every run of `semgrep ci`, whatever its options, its      *)
(* environment and the answers of semgrep.dev: the server sees only what   *)
(* AppProtocol allows, and the invariants of CiScan.  The argument is an   *)
(* invariant that says, for each place of the command, what has been told  *)
(* to the server, why the command is leaving, and what is checked out.     *)
(***************************************************************************)
EXTENDS CiScan, TLAPS

Places == {"flags", "empty", "admin", "head", "meta", "start", "engine", "scan", "failed",
           "historical", "sort", "results", "complete", "verdict", "wrapper", "atexit", "exited"}
BeforeStart == {"flags", "empty", "admin", "head", "meta", "start"}
Scanning == {"engine", "scan", "failed", "historical", "sort"}
Leaving == {"wrapper", "atexit", "exited"}
Reasons == {"none", "flags", "git", "metadata", "start", "norules", "engine", "crash", "scan",
            "reported", "upload", "empty", "verdict"}
EndedBy(w) == pc \in Leaving /\ run.why = w

ReplySet == [suppress : BOOLEAN, products : SUBSET STRING, rules : BOOLEAN,
             mergeBase : BOOLEAN, historical : BOOLEAN]
AnswerSet == [success : BOOLEAN, override : BOOLEAN, ids : BOOLEAN, reason : BOOLEAN]
JobSet == [env : SUBSET STRING, event : STRING, token : BOOLEAN, config : BOOLEAN,
           dry : BOOLEAN, partial : BOOLEAN, suppress : BOOLEAN, audit : BOOLEAN,
           secrets : BOOLEAN, oss : BOOLEAN, historical : BOOLEAN, baseline : BOOLEAN,
           subdir : BOOLEAN, ghToken : BOOLEAN, empty : BOOLEAN, distance : Nat]

Heads == {"tip", "merge", "base"}
Baselines == {"none", "given", "fork", "app"}
RunSet == [empty : BOOLEAN, suppress : BOOLEAN, undo : Heads \cup {"none"},
           base : Baselines, found : SUBSET Findings, suggested : 0..1,
           why : Reasons, raw : 0..13, exit : 0..13]
IsRepo(r) == r \in [head : Heads, depth : {r.depth}, commits : SUBSET {"tip", "base", "fork"}]
IsSearch(s) == s \in [attempt : {s.attempt}, base : Baselines]
IsHandler(h) == h \in [dry : BOOLEAN, partial : BOOLEAN, reply : ReplySet, final : BOOLEAN,
                       clock : {h.clock}, turn : {h.turn}, answer : AnswerSet]
ScanStates == {"none", "open", "uploaded", "completing", "final", "failed"}
IsApp(a) == a \in [scan : ScanStates, project : {a.project}, code : 0..13]

TypeOK ==
    /\ pc \in Places
    /\ job \in JobSet
    /\ run \in RunSet
    /\ IsRepo(repo) /\ IsSearch(search) /\ IsHandler(handler) /\ IsApp(app)
    /\ partialFile \in {"none", "findings", "failure"}

(* What semgrep.dev holds while the command is at each place.  A poll that *)
(* goes on has neither been granted nor been announced as the last one.    *)
ServerKnows ==
    /\ pc \in {"start", "results", "complete"} => HasHandler
    /\ pc \in BeforeStart => app.scan = "none"
    /\ pc \in Scanning => app.scan = IF HasHandler THEN "open" ELSE "none"
    /\ pc = "results" => app.scan = "open"
    /\ pc = "complete" => ~handler.dry /\ app.scan \in {"uploaded", "completing"}
    /\ pc \notin Leaving \cup {"verdict"} => ~handler.final
    /\ (pc = "verdict" \/ EndedBy("verdict")) /\ HasHandler /\ ~handler.dry =>
          \/ app.scan = "final"
          \/ app.scan = "completing" /\ handler.answer.success
    /\ EndedBy("reported") /\ HasHandler /\ ~handler.dry =>
          app.scan = "failed" /\ app.code = run.raw

(* The partial output is written by runs that send nothing, so no request  *)
(* can fail after it.                                                      *)
PartialOutput ==
    /\ handler.partial => handler.dry
    /\ ~(pc = "verdict" \/ pc = "complete" \/ pc \in Leaving) => partialFile = "none"
    /\ pc = "verdict" /\ HasHandler /\ handler.partial => partialFile = "findings"
    /\ pc \in Leaving /\ HasHandler /\ handler.partial =>
          partialFile = CASE run.why \in {"verdict", "empty"} -> "findings"
                          [] run.why = "reported" -> "failure"
                          [] OTHER -> "none"

(* Why the command leaves, and with which code.                            *)
Reason ==
    /\ pc = "failed" => run.raw >= 2
    /\ pc \in BeforeStart \cup {"engine", "scan"} => run.found = {} /\ run.suggested = 0
    /\ run.empty /\ HasHandler => pc \notin Scanning \cup {"admin", "head"} /\ run.found = {}
    /\ pc \in {"results", "complete", "verdict"} \/ EndedBy("verdict") =>
          run.suggested = IF run.found \cap Blocking # {} THEN 1 ELSE 0
    /\ pc \in Leaving =>
          \/ run.raw >= 2
          \/ run.why = "empty" /\ run.empty
          \/ /\ run.why = "verdict"
             /\ run.raw = IF /\ run.suggested = 1 \/ AppPolicyBlock \/ AppOtherBlock
                             /\ ~job.audit
                          THEN 1 ELSE 0
    /\ pc \in {"atexit", "exited"} =>
          run.exit = IF ~run.suppress \/ run.raw \in {0, 1} THEN run.raw ELSE 0

(* The head of a pull request is checked out from the correction on.       *)
HeadCheckedOut ==
    /\ pc \in {"flags", "empty", "admin", "head"} =>
          IsPullRequestEvent \/ repo.head = "tip"
    /\ pc \in {"meta", "start", "engine", "scan"} =>
          repo.head = "tip" \/ (run.empty /\ HasHandler)
    /\ pc \in {"engine", "scan"} /\ HasHandler =>
          app.project.commit \in {repo.head, "user", NoRef}

(* Whatever names the branch-off point has fetched it.                     *)
BaselineFetched ==
    /\ search.base = "fork" => "fork" \in repo.commits
    /\ run.base = "fork" => "fork" \in repo.commits

CiInv == TypeOK /\ ServerKnows /\ PartialOutput /\ Reason /\ HeadCheckedOut /\ BaselineFetched

USE DEF Places, BeforeStart, Scanning, Leaving, EndedBy, HasHandler, Goto, NoRef

-----------------------------------------------------------------------------
(* The ways a command goes on: it leaves in an error, or a step of it only *)
(* moves on.                                                               *)

Errors == Reasons \ {"verdict", "empty", "reported"}

LEMMA LeaveEffect ==
  ASSUME run \in RunSet, NEW code \in 0..13, NEW why \in Reasons, Leave(code, why)
  PROVE  /\ pc' = "wrapper" /\ run' \in RunSet
         /\ run'.raw = code /\ run'.why = why /\ run'.exit = run.exit
         /\ run'.empty = run.empty /\ run'.suppress = run.suppress
         /\ run'.undo = run.undo /\ run'.base = run.base
         /\ run'.found = run.found /\ run'.suggested = run.suggested
<1>1. pc' = "wrapper" /\ run' = [run EXCEPT !.raw = code, !.why = why]
  BY DEF Leave
<1>2. run' \in RunSet
  BY <1>1 DEF RunSet
<1>3. run'.raw = code /\ run'.why = why
  BY <1>1 DEF RunSet
<1>4. run'.exit = run.exit /\ run'.empty = run.empty /\ run'.suppress = run.suppress
  BY <1>1 DEF RunSet
<1>5. run'.undo = run.undo /\ run'.base = run.base
  BY <1>1 DEF RunSet
<1>6. run'.found = run.found /\ run'.suggested = run.suggested
  BY <1>1 DEF RunSet
<1> QED BY <1>1, <1>2, <1>3, <1>4, <1>5, <1>6

LEMMA ErrorExit ==
  ASSUME CiInv, NEW code \in 2..13, NEW why \in Errors, Leave(code, why),
         job' = job, repo' = repo, search' = search, IsHandler(handler'), IsApp(app'),
         handler'.dry = handler.dry, handler'.partial = handler.partial,
         partialFile' = partialFile, handler.partial => partialFile = "none"
  PROVE  CiInv'
<1> /\ why \in Reasons /\ code \in 0..13 /\ why # "verdict"
    /\ why # "empty" /\ why # "reported"
  BY DEF Errors
<1>e. /\ pc' = "wrapper" /\ run' \in RunSet
      /\ run'.raw = code /\ run'.why = why
      /\ run'.empty = run.empty /\ run'.base = run.base /\ run'.found = run.found
  BY LeaveEffect DEF CiInv, TypeOK
<1>1. TypeOK'
  BY <1>e DEF CiInv, TypeOK, IsRepo, IsSearch, IsHandler, IsApp
<1>2. ServerKnows'
  BY <1>e DEF ServerKnows
<1>3. PartialOutput'
  BY <1>e DEF CiInv, PartialOutput
<1>4. Reason'
  BY <1>e DEF CiInv, Reason
<1>5. HeadCheckedOut'
  BY <1>e DEF HeadCheckedOut
<1>6. BaselineFetched'
  BY <1>e DEF CiInv, BaselineFetched
<1> QED BY <1>1, <1>2, <1>3, <1>4, <1>5, <1>6 DEF CiInv

-----------------------------------------------------------------------------
(* One lemma per action.                                                   *)

LEMMA InitCi == Init => CiInv
<1> SUFFICES ASSUME Init PROVE CiInv
  OBVIOUS
<1>1. TypeOK
  <2>1. job \in JobSet
    BY CiJobs DEF Init, JobSet
  <2>2. run \in RunSet
    BY DEF Init, RunSet, Reasons, Heads, Baselines, Findings
  <2>3. IsRepo(repo)
    BY DEF Init, IsRepo, Checkout, Heads
  <2>4. IsSearch(search)
    BY DEF Init, IsSearch, Baselines
  <2>5. IsHandler(handler)
    BY DEF Init, IsHandler, NotStarted, NoAnswer, ReplySet, AnswerSet
  <2>6. IsApp(app)
    BY DEF Init, IsApp, ScanStates
  <2> QED BY <2>1, <2>2, <2>3, <2>4, <2>5, <2>6 DEF Init, TypeOK
<1>2. ServerKnows
  BY DEF Init, ServerKnows
<1>3. PartialOutput
  BY DEF Init, PartialOutput
<1>4. Reason
  BY DEF Init, Reason
<1>5. HeadCheckedOut
  BY DEF Init, HeadCheckedOut, Checkout, IsPullRequestEvent, IsGithub
<1>6. BaselineFetched
  BY DEF Init, BaselineFetched
<1> QED BY <1>1, <1>2, <1>3, <1>4, <1>5, <1>6 DEF CiInv

LEMMA ValidateFlagsKeeps == CiInv /\ ValidateFlags => CiInv'
<1> SUFFICES ASSUME CiInv, ValidateFlags PROVE CiInv'
  OBVIOUS
<1>1. ASSUME NEW code \in 2..13, Leave(code, "flags"), UNCHANGED handler PROVE CiInv'
  BY <1>1, ErrorExit DEF Errors, Reasons, ValidateFlags, CiInv, TypeOK, PartialOutput, IsApp
<1>2. CASE /\ run' = [run EXCEPT !.suppress = job.suppress]
           /\ NewHandler(job.dry \/ job.partial, job.partial)
           /\ pc' = "empty"
  <2>1. TypeOK'
    BY <1>2 DEF ValidateFlags, CiInv, TypeOK, RunSet, JobSet, IsRepo, IsSearch, IsApp,
      NewHandler, IsHandler, NotStarted, NoAnswer, ReplySet, AnswerSet
  <2>2. ServerKnows'
    BY <1>2 DEF ValidateFlags, CiInv, ServerKnows, NewHandler
  <2>3. PartialOutput'
    BY <1>2 DEF ValidateFlags, CiInv, TypeOK, JobSet, PartialOutput, NewHandler
  <2>4. Reason'
    BY <1>2 DEF ValidateFlags, CiInv, TypeOK, RunSet, Reason
  <2>5. HeadCheckedOut'
    BY <1>2 DEF ValidateFlags, CiInv, HeadCheckedOut, IsPullRequestEvent, IsGithub
  <2>6. BaselineFetched'
    BY <1>2 DEF ValidateFlags, CiInv, TypeOK, RunSet, BaselineFetched
  <2> QED BY <2>1, <2>2, <2>3, <2>4, <2>5, <2>6 DEF CiInv
<1> QED BY <1>1, <1>2 DEF ValidateFlags

LEMMA CheckEmptyRepoKeeps == CiInv /\ CheckEmptyRepo => CiInv'
<1> SUFFICES ASSUME CiInv, CheckEmptyRepo PROVE CiInv'
  OBVIOUS
<1>1. CASE Leave(2, "git")
  BY <1>1, ErrorExit DEF Errors, Reasons, CheckEmptyRepo, CiInv, TypeOK, PartialOutput
<1>2. ASSUME NEW empty \in BOOLEAN, run' = [run EXCEPT !.empty = empty],
             pc' = IF empty /\ HasHandler THEN "meta" ELSE "admin"
      PROVE  CiInv'
  <2>1. TypeOK'
    BY <1>2 DEF CheckEmptyRepo, CiInv, TypeOK, RunSet
  <2>2. ServerKnows'
    BY <1>2 DEF CheckEmptyRepo, CiInv, ServerKnows
  <2>3. PartialOutput'
    BY <1>2 DEF CheckEmptyRepo, CiInv, PartialOutput
  <2>4. Reason'
    BY <1>2 DEF CheckEmptyRepo, CiInv, TypeOK, RunSet, Reason
  <2>5. HeadCheckedOut'
    BY <1>2 DEF CheckEmptyRepo, CiInv, TypeOK, RunSet, HeadCheckedOut, IsPullRequestEvent, IsGithub
  <2>6. BaselineFetched'
    BY <1>2 DEF CheckEmptyRepo, CiInv, TypeOK, RunSet, BaselineFetched
  <2> QED BY <2>1, <2>2, <2>3, <2>4, <2>5, <2>6 DEF CiInv
<1>3. job.empty \in BOOLEAN
  BY DEF CiInv, TypeOK, JobSet
<1> QED BY <1>1, <1>2, <1>3 DEF CheckEmptyRepo

LEMMA AdminSuppressionKeeps == CiInv /\ AdminSuppression => CiInv'
<1> SUFFICES ASSUME CiInv, AdminSuppression PROVE CiInv'
  OBVIOUS
<1>1. TypeOK'
  BY DEF AdminSuppression, CiInv, TypeOK, RunSet, IsHandler, ReplySet, AlwaysSuppressErrors
<1>2. ServerKnows'
  BY DEF AdminSuppression, CiInv, ServerKnows
<1>3. PartialOutput'
  BY DEF AdminSuppression, CiInv, PartialOutput
<1>4. Reason'
  BY DEF AdminSuppression, CiInv, TypeOK, RunSet, Reason
<1>5. HeadCheckedOut'
  BY DEF AdminSuppression, CiInv, HeadCheckedOut, IsPullRequestEvent, IsGithub
<1>6. BaselineFetched'
  BY DEF AdminSuppression, CiInv, TypeOK, RunSet, BaselineFetched
<1> QED BY <1>1, <1>2, <1>3, <1>4, <1>5, <1>6 DEF CiInv

LEMMA FixHeadKeeps == CiInv /\ FixHead => CiInv'
<1> SUFFICES ASSUME CiInv, FixHead PROVE CiInv'
  OBVIOUS
<1>1. CASE Leave(2, "git") /\ UNCHANGED repo
  BY <1>1, ErrorExit DEF Errors, Reasons, FixHead, CiInv, TypeOK, PartialOutput
<1>2. CASE /\ FixHeadIfGithubAction /\ pc' = "meta"
           /\ run' = [run EXCEPT !.undo = IF IsPullRequestEvent THEN repo.head ELSE NoRef]
  <2>1. repo'.head = "tip" /\ repo.commits \subseteq repo'.commits /\ IsRepo(repo')
    <3> IsRepo(repo) /\ (IsPullRequestEvent \/ repo.head = "tip")
      BY DEF FixHead, CiInv, TypeOK, HeadCheckedOut
    <3>1. CASE IsPullRequestEvent
      BY <1>2, <3>1 DEF FixHeadIfGithubAction, IsRepo, Heads
    <3>2. CASE ~IsPullRequestEvent
      BY <1>2, <3>2 DEF FixHeadIfGithubAction, IsRepo
    <3> QED BY <3>1, <3>2
  <2>2. TypeOK'
    BY <1>2, <2>1 DEF FixHead, CiInv, TypeOK, RunSet, IsRepo
  <2>3. ServerKnows'
    BY <1>2 DEF FixHead, CiInv, ServerKnows
  <2>4. PartialOutput'
    BY <1>2 DEF FixHead, CiInv, PartialOutput
  <2>5. Reason'
    BY <1>2 DEF FixHead, CiInv, TypeOK, RunSet, Reason
  <2>6. HeadCheckedOut'
    BY <1>2, <2>1 DEF FixHead, HeadCheckedOut
  <2>7. BaselineFetched'
    BY <1>2, <2>1 DEF FixHead, CiInv, TypeOK, RunSet, BaselineFetched
  <2> QED BY <2>2, <2>3, <2>4, <2>5, <2>6, <2>7 DEF CiInv
<1> QED BY <1>1, <1>2 DEF FixHead

LEMMA GatherMetadataKeeps == CiInv /\ GatherMetadata => CiInv'
<1> SUFFICES ASSUME CiInv, GatherMetadata PROVE CiInv'
  OBVIOUS
<1>1. CASE Leave(2, "metadata") /\ UNCHANGED metaVars
  BY <1>1, ErrorExit DEF Errors, Reasons, GatherMetadata, CiInv, TypeOK, PartialOutput, metaVars
<1>2. ASSUME NEW given, \/ BaseWithoutSearch(given) \/ AskGithub(given)
                        \/ FindBranchoffPoint(given)
      PROVE  /\ IsRepo(repo') /\ repo'.head = repo.head /\ repo.commits \subseteq repo'.commits
             /\ IsSearch(search')
             /\ search'.base = "fork" => "fork" \in repo'.commits
  <2> IsRepo(repo) /\ IsSearch(search)
    BY DEF CiInv, TypeOK
  <2>1. CASE BaseWithoutSearch(given)
    BY <2>1 DEF BaseWithoutSearch, IsRepo, IsSearch, Baselines, CiInv, BaselineFetched
  <2>2. CASE AskGithub(given)
    BY <2>2 DEF AskGithub, IsRepo, IsSearch, Baselines
  <2>3. CASE FindBranchoffPoint(given)
    BY <2>3 DEF FindBranchoffPoint, IsRepo, IsSearch, Baselines, CiInv, BaselineFetched
  <2> QED BY <1>2, <2>1, <2>2, <2>3
<1>3. CASE /\ UNCHANGED run /\ pc' \in {"meta", IF HasHandler THEN "start" ELSE "engine"}
           /\ \E given \in BOOLEAN : \/ BaseWithoutSearch(given) \/ AskGithub(given)
                                     \/ FindBranchoffPoint(given)
  <2>1. /\ IsRepo(repo') /\ repo'.head = repo.head /\ repo.commits \subseteq repo'.commits
        /\ IsSearch(search')
        /\ search'.base = "fork" => "fork" \in repo'.commits
    BY <1>2, <1>3
  <2>2. TypeOK'
    BY <1>3, <2>1 DEF GatherMetadata, CiInv, TypeOK
  <2>3. ServerKnows'
    BY <1>3 DEF GatherMetadata, CiInv, ServerKnows
  <2>4. PartialOutput'
    BY <1>3 DEF GatherMetadata, CiInv, PartialOutput
  <2>5. Reason'
    BY <1>3 DEF GatherMetadata, CiInv, Reason
  <2>6. HeadCheckedOut'
    BY <1>3, <2>1 DEF GatherMetadata, CiInv, HeadCheckedOut
  <2>7. BaselineFetched'
    BY <1>3, <2>1 DEF CiInv, BaselineFetched
  <2> QED BY <2>2, <2>3, <2>4, <2>5, <2>6, <2>7 DEF CiInv
<1> QED BY <1>1, <1>3 DEF GatherMetadata

LEMMA OpenScanKeeps == CiInv /\ OpenScan => CiInv'
<1> SUFFICES ASSUME CiInv, OpenScan PROVE CiInv'
  OBVIOUS
<1> DEFINE project == ProjectMetadata(run.empty, search.base)
           opened == [app EXCEPT !.scan = "open", !.project = project]
<1>0. IsApp(app) /\ IsHandler(handler) /\ partialFile = "none"
  BY DEF OpenScan, CiInv, TypeOK, PartialOutput
<1>1. IsApp(opened) /\ opened.scan = "open" /\ opened.project = project
  BY <1>0 DEF IsApp, ScanStates
<1>2. project.commit = NoRef \/ project.commit \in {"tip", "user", repo.head}
  BY DEF ProjectMetadata, CommitOf
<1> HIDE DEF project, opened
<1>3. PICK outcome \in Outcomes : /\ StartScan(outcome, project)
        /\ CASE outcome = "refused" -> \E code \in {2, 13} : Leave(code, "start")
             [] outcome = "exhausted" -> Leave(2, "start")
             [] OTHER -> IF run.empty THEN pc' = "results" /\ UNCHANGED run
                         ELSE IF /\ ~handler'.reply.rules
                                 /\ handler'.reply.products \subseteq {"sast", "secrets"}
                         THEN Leave(7, "norules")
                         ELSE pc' = "engine" /\ UNCHANGED run
  BY DEF OpenScan, project
<1>4. /\ IsApp(app') /\ IsHandler(handler') /\ UNCHANGED partialFile
      /\ handler'.dry = handler.dry /\ handler'.partial = handler.partial
      /\ handler'.final = handler.final /\ handler'.answer = handler.answer
  <2>1. /\ app' \in {app, opened} /\ UNCHANGED partialFile
        /\ handler' = handler \/ \E r \in Replies : handler' = [handler EXCEPT !.reply = r]
    BY <1>3 DEF StartScan, Request, Outcomes, opened
  <2>2. CASE handler' = handler
    BY <1>0, <1>1, <2>1, <2>2
  <2>3. ASSUME NEW r \in Replies, handler' = [handler EXCEPT !.reply = r]
        PROVE  /\ IsHandler(handler')
               /\ handler'.dry = handler.dry /\ handler'.partial = handler.partial
               /\ handler'.final = handler.final /\ handler'.answer = handler.answer
    <3> r \in ReplySet
      BY ServerReplies DEF ReplySet
    <3> QED BY <1>0, <2>3 DEF IsHandler
  <2> QED BY <1>0, <1>1, <2>1, <2>2, <2>3
<1>5. CASE outcome # "ok" \/ Leave(7, "norules")
  <2> PICK code \in 2..13, why \in {"start", "norules"} : Leave(code, why)
    BY <1>3, <1>5 DEF Outcomes
  <2> why \in Errors
    BY DEF Errors, Reasons
  <2> QED BY <1>0, <1>4, ErrorExit DEF OpenScan
<1>6. CASE /\ outcome = "ok" /\ UNCHANGED run
           /\ pc' = IF run.empty THEN "results" ELSE "engine"
  <2>1. app' = opened
    BY <1>3, <1>6 DEF StartScan, Request, opened
  <2>2. TypeOK'
    BY <1>4, <1>6 DEF OpenScan, CiInv, TypeOK
  <2>3. ServerKnows'
    BY <1>1, <1>4, <1>6, <2>1 DEF OpenScan, CiInv, ServerKnows
  <2>4. PartialOutput'
    BY <1>0, <1>4, <1>6 DEF OpenScan, CiInv, PartialOutput
  <2>5. Reason'
    BY <1>4, <1>6 DEF OpenScan, CiInv, ServerKnows, Reason, Blocking
  <2>6. HeadCheckedOut'
    BY <1>1, <1>2, <1>6, <2>1 DEF OpenScan, CiInv, HeadCheckedOut
  <2>7. BaselineFetched'
    BY <1>6 DEF OpenScan, CiInv, BaselineFetched
  <2> QED BY <2>2, <2>3, <2>4, <2>5, <2>6, <2>7 DEF CiInv
<1> QED BY <1>3, <1>5, <1>6 DEF Outcomes

LEMMA ChooseEngineKeeps == CiInv /\ ChooseEngine => CiInv'
<1> SUFFICES ASSUME CiInv, ChooseEngine PROVE CiInv'
  OBVIOUS
<1>1. ASSUME NEW code \in {2, 13}, Leave(code, "engine") PROVE CiInv'
  BY <1>1, ErrorExit DEF Errors, Reasons, ChooseEngine, CiInv, TypeOK, PartialOutput
<1>2. ASSUME NEW base \in {"app", search.base}, run' = [run EXCEPT !.base = base], pc' = "scan"
      PROVE  CiInv'
  <2>1. run' \in RunSet /\ run'.base \in {"app", search.base}
    BY <1>2 DEF CiInv, TypeOK, RunSet, IsSearch, Baselines
  <2>2. TypeOK'
    BY <1>2, <2>1 DEF ChooseEngine, CiInv, TypeOK
  <2>3. ServerKnows'
    BY <1>2 DEF ChooseEngine, CiInv, ServerKnows
  <2>4. PartialOutput'
    BY <1>2 DEF ChooseEngine, CiInv, PartialOutput
  <2>5. Reason'
    BY <1>2 DEF ChooseEngine, CiInv, TypeOK, RunSet, Reason
  <2>6. HeadCheckedOut'
    BY <1>2 DEF ChooseEngine, CiInv, TypeOK, RunSet, HeadCheckedOut
  <2>7. BaselineFetched'
    BY <2>1 DEF ChooseEngine, CiInv, BaselineFetched
  <2> QED BY <2>2, <2>3, <2>4, <2>5, <2>6, <2>7 DEF CiInv
<1> QED BY <1>1, <1>2 DEF ChooseEngine

LEMMA RunScanKeeps == CiInv /\ RunScan => CiInv'
<1> SUFFICES ASSUME CiInv, RunScan PROVE CiInv'
  OBVIOUS
<1>0. /\ pc = "scan" /\ UNCHANGED <<job, repo, search, handler, app, partialFile>>
      /\ IsHandler(handler) /\ IsApp(app) /\ partialFile = "none"
  BY DEF RunScan, CiInv, TypeOK, PartialOutput
<1>1. CASE Leave(2, "crash")
  BY <1>0, <1>1, ErrorExit DEF Errors, Reasons
<1>2. ASSUME NEW code \in 2..13, run' = [run EXCEPT !.raw = code, !.why = "scan"],
             pc' = "failed"
      PROVE  CiInv'
  <2>1. /\ run' \in RunSet /\ run'.raw = code /\ run'.empty = run.empty
        /\ run'.found = run.found /\ run'.base = run.base
    <3> DEFINE coded == [run EXCEPT !.raw = code]
    <3>1. coded \in RunSet /\ run' = [coded EXCEPT !.why = "scan"]
      BY <1>2 DEF CiInv, TypeOK, RunSet
    <3> HIDE DEF coded
    <3>2. run' \in RunSet
      BY <3>1 DEF RunSet, Reasons
    <3> QED BY <1>2, <3>2 DEF CiInv, TypeOK, RunSet
  <2>2. TypeOK'
    BY <1>0, <1>2, <2>1 DEF CiInv, TypeOK
  <2>3. ServerKnows'
    BY <1>0, <1>2 DEF CiInv, ServerKnows
  <2>4. PartialOutput'
    BY <1>0, <1>2 DEF CiInv, PartialOutput
  <2>5. Reason'
    BY <1>0, <1>2, <2>1 DEF CiInv, Reason
  <2>6. HeadCheckedOut'
    BY <1>0, <1>2 DEF HeadCheckedOut
  <2>7. BaselineFetched'
    BY <1>0, <2>1 DEF CiInv, BaselineFetched
  <2> QED BY <2>2, <2>3, <2>4, <2>5, <2>6, <2>7 DEF CiInv
<1>3. ASSUME NEW found \in Found, run' = [run EXCEPT !.found = found], pc' = "historical"
      PROVE  CiInv'
  <2>1. TypeOK'
    BY <1>0, <1>3, CiInputs DEF CiInv, TypeOK, RunSet
  <2>2. ServerKnows'
    BY <1>0, <1>3 DEF CiInv, ServerKnows
  <2>3. PartialOutput'
    BY <1>0, <1>3 DEF CiInv, PartialOutput
  <2>4. Reason'
    BY <1>0, <1>3 DEF CiInv, TypeOK, RunSet, Reason
  <2>5. HeadCheckedOut'
    BY <1>0, <1>3 DEF HeadCheckedOut
  <2>6. BaselineFetched'
    BY <1>0, <1>3 DEF CiInv, TypeOK, RunSet, BaselineFetched
  <2> QED BY <2>1, <2>2, <2>3, <2>4, <2>5, <2>6 DEF CiInv
<1>4. {2} \subseteq 2..13 /\ ErrorCodes \subseteq 2..13
  BY CiInputs
<1> QED BY <1>1, <1>2, <1>3, <1>4 DEF RunScan

LEMMA ScanFailedKeeps == CiInv /\ ScanFailed => CiInv'
<1> SUFFICES ASSUME CiInv, ScanFailed PROVE CiInv'
  OBVIOUS
<1> DEFINE told == [app EXCEPT !.scan = "failed", !.code = run.raw]
<1>0. /\ IsApp(app) /\ IsHandler(handler) /\ partialFile = "none" /\ run.raw \in 2..13
      /\ handler.partial => handler.dry
  BY DEF ScanFailed, CiInv, TypeOK, PartialOutput, Reason, RunSet
<1>1. IsApp(told) /\ told.scan = "failed" /\ told.code = run.raw
  <2> DEFINE failed == [app EXCEPT !.scan = "failed"]
  <2>1. IsApp(failed) /\ told = [failed EXCEPT !.code = run.raw]
    BY <1>0 DEF IsApp, ScanStates
  <2> HIDE DEF failed
  <2>2. IsApp(told)
    <3>1. told.project = failed.project
      BY <2>1 DEF IsApp
    <3>2. run.raw \in 0..13
      BY <1>0
    <3> QED BY <2>1, <3>1, <3>2 DEF IsApp
  <2> QED BY <1>0, <2>2 DEF IsApp
<1> HIDE DEF told
<1>2. CASE ~HasHandler /\ Leave(run.raw, "scan") /\ UNCHANGED appVars
  BY <1>0, <1>2, ErrorExit DEF Errors, Reasons, ScanFailed, CiInv, TypeOK, appVars
<1>3. ASSUME NEW outcome \in Outcomes \ {"ok"}, ReportFailure(outcome, run.raw),
             Leave(2, "upload")
      PROVE  CiInv'
  <2>1. ~handler.dry /\ app' \in {app, told} /\ UNCHANGED <<handler, partialFile>>
    BY <1>0, <1>3 DEF ReportFailure, Request, Outcomes, told
  <2> QED BY <1>0, <1>1, <1>3, <2>1, ErrorExit DEF Errors, Reasons, ScanFailed
<1>4. CASE HasHandler /\ ReportFailure("ok", run.raw) /\ Leave(run.raw, "reported")
  <2>1. /\ UNCHANGED handler /\ app' = IF handler.dry THEN app ELSE told
        /\ partialFile' = IF handler.partial THEN "failure" ELSE "none"
    BY <1>0, <1>4 DEF ReportFailure, Request, told
  <2>2. /\ pc' = "wrapper" /\ run' \in RunSet
        /\ run'.raw = run.raw /\ run'.why = "reported"
        /\ run'.empty = run.empty /\ run'.base = run.base /\ run'.found = run.found
    <3> "reported" \in Reasons
      BY DEF Reasons
    <3> QED BY <1>0, <1>4, LeaveEffect DEF CiInv, TypeOK
  <2>3. TypeOK'
    BY <1>0, <1>1, <2>1, <2>2 DEF ScanFailed, CiInv, TypeOK
  <2>4. ServerKnows'
    BY <1>1, <2>1, <2>2 DEF ServerKnows
  <2>5. PartialOutput'
    BY <1>0, <2>1, <2>2 DEF PartialOutput
  <2>6. Reason'
    BY <1>0, <2>2 DEF ScanFailed, CiInv, Reason
  <2>7. HeadCheckedOut'
    BY <2>2 DEF HeadCheckedOut
  <2>8. BaselineFetched'
    BY <2>2 DEF ScanFailed, CiInv, BaselineFetched
  <2> QED BY <2>3, <2>4, <2>5, <2>6, <2>7, <2>8 DEF CiInv
<1> QED BY <1>2, <1>3, <1>4 DEF ScanFailed

LEMMA HistoricalScanKeeps == CiInv /\ HistoricalScan => CiInv'
<1> SUFFICES ASSUME CiInv, HistoricalScan PROVE CiInv'
  OBVIOUS
<1>0. /\ pc = "historical" /\ UNCHANGED <<job, repo, search, handler, app, partialFile>>
      /\ IsHandler(handler) /\ IsApp(app) /\ partialFile = "none"
  BY DEF HistoricalScan, CiInv, TypeOK, PartialOutput
<1>1. CASE Leave(2, "crash")
  BY <1>0, <1>1, ErrorExit DEF Errors, Reasons
<1>2. ASSUME NEW found \in SUBSET Findings, pc' = "sort",
             run' = run \/ run' = [run EXCEPT !.found = found]
      PROVE  CiInv'
  <2>1. TypeOK'
    BY <1>0, <1>2 DEF CiInv, TypeOK, RunSet
  <2>2. ServerKnows'
    BY <1>0, <1>2 DEF CiInv, ServerKnows
  <2>3. PartialOutput'
    BY <1>0, <1>2 DEF CiInv, PartialOutput
  <2>4. Reason'
    BY <1>0, <1>2 DEF CiInv, TypeOK, RunSet, Reason
  <2>5. HeadCheckedOut'
    BY <1>0, <1>2 DEF HeadCheckedOut
  <2>6. BaselineFetched'
    BY <1>0, <1>2 DEF CiInv, TypeOK, RunSet, BaselineFetched
  <2> QED BY <2>1, <2>2, <2>3, <2>4, <2>5, <2>6 DEF CiInv
<1>3. run.found \cup {"blocking"} \in SUBSET Findings
  BY DEF CiInv, TypeOK, RunSet, Findings
<1> QED BY <1>1, <1>2, <1>3 DEF HistoricalScan

LEMMA SortMatchesKeeps == CiInv /\ SortMatches => CiInv'
<1> SUFFICES ASSUME CiInv, SortMatches PROVE CiInv'
  OBVIOUS
<1>0. /\ pc = "sort" /\ UNCHANGED <<job, repo, search, handler, app, partialFile>>
      /\ pc' = IF HasHandler THEN "results" ELSE "verdict"
      /\ run' = [run EXCEPT !.suggested = IF run.found \cap Blocking # {} THEN 1 ELSE 0]
  BY DEF SortMatches
<1>1. /\ run' \in RunSet /\ run'.empty = run.empty /\ run'.found = run.found
      /\ run'.base = run.base
      /\ run'.suggested = IF run.found \cap Blocking # {} THEN 1 ELSE 0
  BY <1>0 DEF CiInv, TypeOK, RunSet
<1>2. TypeOK'
  BY <1>0, <1>1 DEF CiInv, TypeOK
<1>3. ServerKnows'
  BY <1>0 DEF CiInv, ServerKnows
<1>4. PartialOutput'
  BY <1>0 DEF CiInv, PartialOutput
<1>5. Reason'
  BY <1>0, <1>1 DEF CiInv, Reason, Blocking
<1>6. HeadCheckedOut'
  BY <1>0 DEF HeadCheckedOut
<1>7. BaselineFetched'
  BY <1>0, <1>1 DEF CiInv, BaselineFetched
<1> QED BY <1>2, <1>3, <1>4, <1>5, <1>6, <1>7 DEF CiInv

LEMMA UploadFindingsKeeps == CiInv /\ UploadFindings => CiInv'
<1> SUFFICES ASSUME CiInv, UploadFindings PROVE CiInv'
  OBVIOUS
<1> DEFINE uploaded == [app EXCEPT !.scan = "uploaded"]
<1>0. /\ pc = "results" /\ UNCHANGED <<job, repo, search>>
      /\ IsHandler(handler) /\ IsApp(app) /\ partialFile = "none"
      /\ handler.partial => handler.dry
  BY DEF UploadFindings, CiInv, TypeOK, PartialOutput
<1>1. IsApp(uploaded) /\ uploaded.scan = "uploaded"
  BY <1>0 DEF IsApp, ScanStates
<1> HIDE DEF uploaded
<1>2. ASSUME NEW outcome \in Outcomes \ {"ok"}, SendResults(outcome), Leave(2, "upload")
      PROVE  CiInv'
  <2>1. ~handler.dry /\ app' \in {app, uploaded} /\ UNCHANGED <<handler, partialFile>>
    BY <1>0, <1>2 DEF SendResults, Request, Outcomes, uploaded
  <2> QED BY <1>0, <1>1, <1>2, <2>1, ErrorExit DEF Errors, Reasons
<1>3. CASE SendResults("ok") /\ UNCHANGED run /\ pc' = IF handler.dry THEN "verdict" ELSE "complete"
  <2>1. /\ app' = IF handler.dry THEN app ELSE uploaded
        /\ partialFile' = IF handler.partial THEN "findings" ELSE "none"
        /\ handler' = IF handler.dry
                      THEN [handler EXCEPT !.answer = [NoAnswer EXCEPT !.success = TRUE]]
                      ELSE handler
    BY <1>0, <1>3 DEF SendResults, Request, uploaded
  <2>2. /\ IsHandler(handler') /\ handler'.dry = handler.dry
        /\ handler'.partial = handler.partial /\ handler'.final = handler.final
    <3> [NoAnswer EXCEPT !.success = TRUE] \in AnswerSet
      BY DEF NoAnswer, AnswerSet
    <3> QED BY <1>0, <2>1 DEF IsHandler
  <2>3. TypeOK'
    BY <1>0, <1>1, <1>3, <2>1, <2>2 DEF CiInv, TypeOK
  <2>4. ServerKnows'
    BY <1>0, <1>1, <1>3, <2>1, <2>2 DEF CiInv, ServerKnows
  <2>5. PartialOutput'
    BY <1>0, <1>3, <2>1, <2>2 DEF PartialOutput
  <2>6. Reason'
    BY <1>0, <1>3 DEF CiInv, Reason, Blocking
  <2>7. HeadCheckedOut'
    BY <1>0, <1>3 DEF HeadCheckedOut
  <2>8. BaselineFetched'
    BY <1>0, <1>3 DEF CiInv, BaselineFetched
  <2> QED BY <2>3, <2>4, <2>5, <2>6, <2>7, <2>8 DEF CiInv
<1>4. PICK outcome \in Outcomes : /\ SendResults(outcome)
        /\ IF outcome # "ok" THEN Leave(2, "upload")
           ELSE UNCHANGED run /\ pc' = IF handler.dry THEN "verdict" ELSE "complete"
  BY DEF UploadFindings
<1>5. CASE outcome # "ok"
  BY <1>2, <1>4, <1>5
<1>6. CASE outcome = "ok"
  BY <1>3, <1>4, <1>6
<1> QED BY <1>5, <1>6

LEMMA PollCompleteKeeps == CiInv /\ PollComplete => CiInv'
<1> SUFFICES ASSUME CiInv, PollComplete PROVE CiInv'
  OBVIOUS
<1>0. /\ pc = "complete" /\ UNCHANGED <<job, repo, search>>
      /\ IsHandler(handler) /\ IsApp(app) /\ HasHandler
      /\ ~handler.dry /\ ~handler.partial /\ ~handler.final
  BY DEF PollComplete, CiInv, TypeOK, PartialOutput, ServerKnows
<1>1. PICK outcome \in Outcomes, answer \in Answers, took \in {0, 1} :
        /\ SendComplete(outcome, answer, took)
        /\ IF outcome # "ok" THEN Leave(2, "upload")
           ELSE UNCHANGED run /\ pc' = IF PollEnds' THEN "verdict" ELSE "complete"
  BY DEF PollComplete
<1> DEFINE final == handler.final \/ handler.clock > TryUntil
           asked == [app EXCEPT !.scan = IF final THEN "final" ELSE "completing"]
           told == [handler EXCEPT !.final = final]
           granted == [told EXCEPT !.answer = answer]
<1>2. IsApp(asked) /\ asked.scan = IF final THEN "final" ELSE "completing"
  BY <1>0 DEF IsApp, ScanStates
<1>3. IsHandler(told) /\ told.dry = handler.dry /\ told.partial = handler.partial
  BY <1>0 DEF IsHandler
<1>4. /\ IsHandler(granted) /\ granted.dry = handler.dry /\ granted.partial = handler.partial
      /\ granted.final = final /\ granted.answer = answer
  <2>1. answer \in AnswerSet
    BY CiInputs DEF AnswerSet
  <2>2. told.final = final
    BY <1>0 DEF IsHandler
  <2> HIDE DEF told
  <2> QED BY <1>3, <2>1, <2>2 DEF IsHandler
<1>5. CASE outcome # "ok"
  <2>1. app' \in {app, asked} /\ handler' = told /\ UNCHANGED partialFile /\ Leave(2, "upload")
    BY <1>0, <1>1, <1>5 DEF SendComplete, Request, Outcomes
  <2> HIDE DEF asked, told
  <2> QED BY <1>0, <1>2, <1>3, <2>1, ErrorExit DEF Errors, Reasons
<1>6. CASE outcome = "ok" /\ (answer.success \/ final)
  <2>1. app' = asked /\ handler' = granted /\ UNCHANGED partialFile
    BY <1>0, <1>1, <1>6 DEF SendComplete, Request
  <2> HIDE DEF asked, granted
  <2>2. pc' = "verdict" /\ UNCHANGED run
    BY <1>1, <1>4, <1>6, <2>1 DEF PollEnds
  <2>3. TypeOK'
    BY <1>0, <1>2, <1>4, <2>1, <2>2 DEF CiInv, TypeOK
  <2>4. ServerKnows'
    BY <1>0, <1>2, <1>4, <1>6, <2>1, <2>2 DEF CiInv, ServerKnows
  <2>5. PartialOutput'
    BY <1>0, <1>4, <2>1, <2>2 DEF PartialOutput
  <2>6. Reason'
    BY <1>0, <2>2 DEF CiInv, Reason, Blocking
  <2>7. HeadCheckedOut'
    BY <2>2 DEF HeadCheckedOut
  <2>8. BaselineFetched'
    BY <1>0, <2>2 DEF CiInv, BaselineFetched
  <2> QED BY <2>3, <2>4, <2>5, <2>6, <2>7, <2>8 DEF CiInv
<1>7. CASE outcome = "ok" /\ ~answer.success /\ ~final
  <2>1. /\ app' = asked /\ UNCHANGED partialFile
        /\ \E clock, turn : handler' = [handler EXCEPT !.clock = clock, !.turn = turn]
    BY <1>0, <1>1, <1>7 DEF SendComplete, Request
  <2>2. /\ IsHandler(handler') /\ handler'.dry = handler.dry
        /\ handler'.partial = handler.partial /\ handler'.final = handler.final
        /\ handler'.answer = handler.answer
    <3> PICK clock, turn : handler' = [handler EXCEPT !.clock = clock, !.turn = turn]
      BY <2>1
    <3> DEFINE waited == [handler EXCEPT !.clock = clock]
    <3>1. IsHandler(waited) /\ handler' = [waited EXCEPT !.turn = turn]
      BY <1>0 DEF IsHandler
    <3> HIDE DEF waited
    <3>2. IsHandler(handler')
      BY <3>1 DEF IsHandler
    <3> QED BY <1>0, <3>2 DEF IsHandler
  <2>3. /\ pc' \in {"verdict", "complete"} /\ UNCHANGED run
        /\ pc' = "verdict" => handler'.answer.success
    BY <1>0, <1>1, <1>7, <2>2 DEF PollEnds
  <2> HIDE DEF asked
  <2>4. TypeOK'
    BY <1>0, <1>2, <2>1, <2>2, <2>3 DEF CiInv, TypeOK
  <2>5. ServerKnows'
    BY <1>0, <1>2, <1>7, <2>1, <2>2, <2>3 DEF CiInv, ServerKnows
  <2>6. PartialOutput'
    BY <1>0, <2>1, <2>2, <2>3 DEF PartialOutput
  <2>7. Reason'
    BY <1>0, <2>3 DEF CiInv, Reason, Blocking
  <2>8. HeadCheckedOut'
    BY <2>3 DEF HeadCheckedOut
  <2>9. BaselineFetched'
    BY <1>0, <2>3 DEF CiInv, BaselineFetched
  <2> QED BY <2>4, <2>5, <2>6, <2>7, <2>8, <2>9 DEF CiInv
<1>8. answer.success \in BOOLEAN
  BY CiInputs
<1> QED BY <1>5, <1>6, <1>7

LEMMA VerdictKeeps == CiInv /\ Verdict => CiInv'
<1> SUFFICES ASSUME CiInv, Verdict PROVE CiInv'
  OBVIOUS
<1>0. /\ pc = "verdict"
      /\ UNCHANGED <<job, repo, search, handler, app, partialFile>>
  BY DEF Verdict
<1>1. ASSUME NEW code \in {0, 1}, NEW why \in {"empty", "verdict"}, Leave(code, why),
             why = "empty" => run.empty /\ HasHandler,
             why = "verdict" =>
                code = IF (run.suggested = 1 \/ AppPolicyBlock \/ AppOtherBlock) /\ ~job.audit
                       THEN 1 ELSE 0
      PROVE  CiInv'
  <2>1. /\ pc' = "wrapper" /\ run' \in RunSet /\ run'.raw = code /\ run'.why = why
        /\ run'.empty = run.empty /\ run'.base = run.base /\ run'.found = run.found
        /\ run'.suggested = run.suggested
    <3> why \in Reasons /\ code \in 0..13
      BY DEF Reasons
    <3> QED BY <1>1, LeaveEffect DEF CiInv, TypeOK
  <2>2. TypeOK'
    BY <1>0, <2>1 DEF CiInv, TypeOK
  <2>3. ServerKnows'
    BY <1>0, <2>1 DEF CiInv, ServerKnows
  <2>4. PartialOutput'
    BY <1>0, <2>1 DEF CiInv, PartialOutput
  <2>5. Reason'
    BY <1>0, <1>1, <2>1 DEF CiInv, Reason, Blocking, AppPolicyBlock, AppOtherBlock
  <2>6. HeadCheckedOut'
    BY <2>1 DEF HeadCheckedOut
  <2>7. BaselineFetched'
    BY <1>0, <2>1 DEF CiInv, BaselineFetched
  <2> QED BY <2>2, <2>3, <2>4, <2>5, <2>6, <2>7 DEF CiInv
<1>2. CASE run.empty /\ HasHandler
  BY <1>1, <1>2 DEF Verdict
<1>3. CASE ~(run.empty /\ HasHandler)
  BY <1>1, <1>3 DEF Verdict
<1> QED BY <1>2, <1>3

LEMMA HandleCommandErrorsKeeps == CiInv /\ HandleCommandErrors => CiInv'
<1> SUFFICES ASSUME CiInv, HandleCommandErrors PROVE CiInv'
  OBVIOUS
<1> DEFINE code == IF ~run.suppress \/ run.raw \in {0, 1} THEN run.raw ELSE 0
<1>0. /\ pc = "wrapper" /\ pc' = "atexit" /\ run' = [run EXCEPT !.exit = code]
      /\ UNCHANGED <<job, repo, search, handler, app, partialFile>>
  BY DEF HandleCommandErrors
<1>1. code \in 0..13
  BY DEF CiInv, TypeOK, RunSet
<1>2. /\ run' \in RunSet /\ run'.exit = code /\ run'.raw = run.raw /\ run'.why = run.why
      /\ run'.empty = run.empty /\ run'.base = run.base /\ run'.found = run.found
      /\ run'.suggested = run.suggested /\ run'.suppress = run.suppress
  <2> HIDE DEF code
  <2> QED BY <1>0, <1>1 DEF CiInv, TypeOK, RunSet
<1>3. TypeOK'
  BY <1>0, <1>2 DEF CiInv, TypeOK
<1>4. ServerKnows'
  BY <1>0, <1>2 DEF CiInv, ServerKnows
<1>5. PartialOutput'
  BY <1>0, <1>2 DEF CiInv, PartialOutput
<1>6. Reason'
  BY <1>0, <1>2 DEF CiInv, Reason, Blocking, AppPolicyBlock, AppOtherBlock
<1>7. HeadCheckedOut'
  BY <1>0 DEF HeadCheckedOut
<1>8. BaselineFetched'
  BY <1>0, <1>2 DEF CiInv, BaselineFetched
<1> QED BY <1>3, <1>4, <1>5, <1>6, <1>7, <1>8 DEF CiInv

LEMMA RestoreHeadKeeps == CiInv /\ RestoreHead => CiInv'
<1> SUFFICES ASSUME CiInv, RestoreHead PROVE CiInv'
  OBVIOUS
<1>0. /\ pc = "atexit" /\ pc' = "exited"
      /\ UNCHANGED <<job, search, handler, app, partialFile>>
      /\ \/ /\ run.undo # NoRef /\ repo' = [repo EXCEPT !.head = run.undo]
            /\ run' = [run EXCEPT !.undo = NoRef]
         \/ UNCHANGED <<repo, run>>
  BY DEF RestoreHead
<1>1. /\ run' \in RunSet /\ run'.exit = run.exit /\ run'.raw = run.raw /\ run'.why = run.why
      /\ run'.empty = run.empty /\ run'.base = run.base /\ run'.found = run.found
      /\ run'.suggested = run.suggested /\ run'.suppress = run.suppress
  BY <1>0 DEF CiInv, TypeOK, RunSet
<1>2. IsRepo(repo') /\ repo'.commits = repo.commits
  BY <1>0 DEF CiInv, TypeOK, RunSet, IsRepo
<1>3. TypeOK'
  BY <1>0, <1>1, <1>2 DEF CiInv, TypeOK
<1>4. ServerKnows'
  BY <1>0, <1>1 DEF CiInv, ServerKnows
<1>5. PartialOutput'
  BY <1>0, <1>1 DEF CiInv, PartialOutput
<1>6. Reason'
  BY <1>0, <1>1 DEF CiInv, Reason, Blocking, AppPolicyBlock, AppOtherBlock
<1>7. HeadCheckedOut'
  BY <1>0 DEF HeadCheckedOut
<1>8. BaselineFetched'
  BY <1>0, <1>1, <1>2 DEF CiInv, BaselineFetched
<1> QED BY <1>3, <1>4, <1>5, <1>6, <1>7, <1>8 DEF CiInv

LEMMA StutterKeeps == CiInv /\ UNCHANGED vars => CiInv'
<1> SUFFICES ASSUME CiInv, UNCHANGED vars PROVE CiInv'
  OBVIOUS
<1>0. UNCHANGED <<pc, run, job, repo, search, handler, app, partialFile>>
  BY DEF vars
<1>1. TypeOK'
  BY <1>0 DEF CiInv, TypeOK, IsRepo, IsSearch, IsHandler, IsApp
<1>2. ServerKnows' /\ PartialOutput'
  BY <1>0 DEF CiInv, ServerKnows, PartialOutput
<1>3. Reason'
  BY <1>0 DEF CiInv, Reason, Blocking, AppPolicyBlock, AppOtherBlock
<1>4. HeadCheckedOut' /\ BaselineFetched'
  BY <1>0 DEF CiInv, HeadCheckedOut, BaselineFetched, IsPullRequestEvent, IsGithub
<1> QED BY <1>1, <1>2, <1>3, <1>4 DEF CiInv

-----------------------------------------------------------------------------
(* Where the command is says what the server holds, why it leaves and what *)
(* is checked out (commands/ci.py, app/scans.py, meta.py).                 *)
THEOREM CommandIsConsistent == Spec => []CiInv
<1>1. CiInv /\ [Next]_vars => CiInv'
  BY ValidateFlagsKeeps, CheckEmptyRepoKeeps, AdminSuppressionKeeps, FixHeadKeeps,
     GatherMetadataKeeps, OpenScanKeeps, ChooseEngineKeeps, RunScanKeeps, ScanFailedKeeps,
     HistoricalScanKeeps, SortMatchesKeeps, UploadFindingsKeeps, PollCompleteKeeps,
     VerdictKeeps, HandleCommandErrorsKeeps, RestoreHeadKeeps, StutterKeeps DEF Next
<1> QED BY InitCi, <1>1, PTL DEF Spec

(* Whatever the server answers and whatever errors are suppressed, an exit *)
(* code 0 means that nothing blocks, or that an error was suppressed, or   *)
(* that the repository counts as empty (ci.py; ErrorHandler.send).         *)
THEOREM CleanExitEarned == Spec => []CleanExitIsEarned
<1>1. CiInv => CleanExitIsEarned
  <2> SUFFICES ASSUME CiInv, pc = "exited", run.exit = 0 PROVE CleanExitIsEarned
    BY DEF CleanExitIsEarned
  <2>1. run.raw >= 2 => run.suppress
    BY DEF CiInv, TypeOK, RunSet, Reason
  <2>2. CASE run.raw >= 2
    BY <2>1, <2>2 DEF CleanExitIsEarned
  <2>3. CASE run.why = "empty" /\ run.empty
    BY <2>3 DEF CleanExitIsEarned
  <2>4. CASE ~(run.raw >= 2) /\ run.why = "verdict" /\ ~job.audit
    <3>1. run.raw = 0
      BY <2>4 DEF CiInv, TypeOK, RunSet, Reason
    <3>2. run.suggested # 1 /\ ~AppPolicyBlock /\ ~AppOtherBlock
      BY <2>4, <3>1 DEF CiInv, Reason
    <3>3. run.found \cap Blocking = {}
      BY <2>4, <3>2 DEF CiInv, Reason
    <3> QED BY <2>4, <3>2, <3>3 DEF CleanExitIsEarned, Blocking
  <2> QED BY <2>2, <2>3, <2>4 DEF CiInv, Reason, CleanExitIsEarned
<1> QED BY CommandIsConsistent, <1>1, PTL

(* The server and the partial output are told how the run ended, in every  *)
(* order of refused and lost requests (scans.py, report_findings and       *)
(* report_failure).                                                        *)
THEOREM EndIsToldAlways == Spec => []EndIsTold
<1>1. CiInv => EndIsTold
  BY DEF CiInv, ServerKnows, PartialOutput, EndIsTold
<1> QED BY CommandIsConsistent, <1>1, PTL

(* The commit in the metadata is the one on disk during the scan, for      *)
(* every provider and every event (meta.py; fix_head_if_github_action).    *)
THEOREM ReportedCommitScanned == Spec => []ReportedCommitIsScanned
<1>1. CiInv => ReportedCommitIsScanned
  BY DEF CiInv, HeadCheckedOut, ReportedCommitIsScanned
<1> QED BY CommandIsConsistent, <1>1, PTL

(* A branch-off point that was found has been fetched, for every depth and *)
(* number of attempts (meta.py, _find_branchoff_point).                    *)
THEOREM BaselineLocal == Spec => []BaselineIsLocal
<1>1. CiInv => BaselineIsLocal
  BY DEF CiInv, BaselineFetched, BaselineIsLocal
<1> QED BY CommandIsConsistent, <1>1, PTL

-----------------------------------------------------------------------------
(* The refinement: the requests that may have been acted on, although they *)
(* were not answered, are the steps of AppProtocol.                        *)

LEMMA RequestEffect ==
  ASSUME NEW outcome \in Outcomes, NEW accepted, Request(outcome, accepted)
  PROVE  app' \in {app, accepted}
BY DEF Request, Outcomes

LEMMA StepsKeepProtocol ==
  ASSUME CiInv, [Next]_vars
  PROVE  [Protocol!Next]_(app.scan)
<1> USE DEF Protocol!Next
<1> IsApp(app)
  BY DEF CiInv, TypeOK
<1>1. CASE UNCHANGED app
  BY <1>1
<1>2. CASE OpenScan
  <2> PICK outcome \in Outcomes : StartScan(outcome, ProjectMetadata(run.empty, search.base))
    BY <1>2 DEF OpenScan
  <2>1. app.scan = "none"
    BY <1>2 DEF OpenScan, CiInv, ServerKnows
  <2>2. app'.scan \in {app.scan, "open"}
    <3> DEFINE project == ProjectMetadata(run.empty, search.base)
               opened == [app EXCEPT !.scan = "open", !.project = project]
    <3>1. app' \in {app, opened}
      BY RequestEffect DEF StartScan
    <3> HIDE DEF project
    <3>2. opened.scan = "open"
      BY DEF IsApp
    <3> QED BY <3>1, <3>2
  <2> QED BY <2>1, <2>2 DEF Protocol!Open
<1>3. CASE ScanFailed
  <2>1. HasHandler => app.scan = "open"
    BY <1>3 DEF ScanFailed, CiInv, ServerKnows
  <2>2. CASE ~HasHandler /\ UNCHANGED appVars
    BY <1>1, <2>2 DEF appVars
  <2>3. ASSUME NEW outcome \in Outcomes, HasHandler, ReportFailure(outcome, run.raw)
        PROVE  app'.scan \in {app.scan, "failed"}
    <3> DEFINE told == [app EXCEPT !.scan = "failed", !.code = run.raw]
    <3>1. app' \in {app, told}
      BY <2>3, RequestEffect DEF ReportFailure
    <3>2. told.scan = "failed"
      BY DEF IsApp
    <3> QED BY <3>1, <3>2
  <2> QED BY <1>3, <2>1, <2>2, <2>3 DEF ScanFailed, Protocol!Fail
<1>4. CASE UploadFindings
  <2> PICK outcome \in Outcomes : SendResults(outcome)
    BY <1>4 DEF UploadFindings
  <2>1. app.scan = "open"
    BY <1>4 DEF UploadFindings, CiInv, ServerKnows
  <2>2. app'.scan \in {app.scan, "uploaded"}
    BY RequestEffect DEF SendResults, IsApp
  <2> QED BY <2>1, <2>2 DEF Protocol!Upload
<1>5. CASE PollComplete
  <2> PICK outcome \in Outcomes, answer \in Answers, took \in {0, 1} :
        SendComplete(outcome, answer, took)
    BY <1>5 DEF PollComplete
  <2>1. app.scan \in {"uploaded", "completing"}
    BY <1>5 DEF PollComplete, CiInv, ServerKnows
  <2>2. app'.scan \in {app.scan, "completing", "final"}
    <3> DEFINE last == handler.final \/ handler.clock > TryUntil
               asked == [app EXCEPT !.scan = IF last THEN "final" ELSE "completing"]
    <3>1. app' \in {app, asked}
      BY RequestEffect DEF SendComplete
    <3>2. asked.scan \in {"completing", "final"}
      BY DEF IsApp
    <3> QED BY <3>1, <3>2
  <2> QED BY <2>1, <2>2 DEF Protocol!Complete, Protocol!GiveUp
<1> QED BY <1>1, <1>2, <1>3, <1>4, <1>5 DEF Next, vars, ValidateFlags, CheckEmptyRepo,
      AdminSuppression, FixHead, GatherMetadata, ChooseEngine, RunScan, HistoricalScan,
      SortMatches, Verdict, HandleCommandErrors, RestoreHead

(* What semgrep.dev observes of a run of `semgrep ci` is a behaviour of    *)
(* AppProtocol: nothing is completed that was not uploaded, and nothing is *)
(* both completed and failed (scans.py over session.py).                   *)
THEOREM ProtocolKept == Spec => KeepsProtocol
<1>1. Init => Protocol!Init
  BY DEF Init, Protocol!Init
<1>2. CiInv /\ [Next]_vars => [Protocol!Next]_(app.scan)
  BY StepsKeepProtocol
<1> QED BY CommandIsConsistent, <1>1, <1>2, PTL DEF Spec, KeepsProtocol, Protocol!Spec

=============================================================================
