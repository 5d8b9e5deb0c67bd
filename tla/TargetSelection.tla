-------------------------- MODULE TargetSelection --------------------------
(***************************************************************************)
(* Which files are analyzed for which rules (target_manager.py, and        *)
(* plan_core_run of core_runner.py with core_targets_plan.py and           *)
(* scan_report.py).  The same plan is made twice: for the status that is   *)
(* printed, then for semgrep-core.  The target manager caches what it      *)
(* finds, and logs what it leaves out.                                     *)
(***************************************************************************)
EXTENDS RuleConfig

CONSTANTS
    Files,          \* the files under the scanning roots
    File            \* what a file is: see MCInputRun

VARIABLES
    disk,           \* the files that exist
    seen,           \* what semgrep-core walked for a product, cached
    kept,           \* the files of a language that are cached: <<lang, product>>
    log,            \* the FileTargetingLog
    phase,          \* "print", "status", "run", "done"
    num, todo,      \* the turn of the rule in hand, its languages not yet planned
    plan,           \* both plans: which file is for which rule
    unused          \* the rules without a target

targetVars == <<disk, seen, kept, log, phase, num, todo, plan, unused>>

Products == {"sast", "sca", "secrets"}
Nothing == [key \in {} |-> {}]     \* nothing is cached

TargetInit ==
    /\ disk = Files
    /\ seen = Nothing /\ kept = Nothing
    /\ log = [by_language |-> {}, skipped |-> {}, rule_paths |-> {}]
    /\ phase = "print" /\ num = 0 /\ todo = {}
    /\ plan = [print |-> {}, run |-> {}]
    /\ unused = {}

-----------------------------------------------------------------------------
(* TargetManager *)

\* semgrep-core walks the roots: why a file is not selected for a product.
\* Secrets are looked for in what .semgrepignore hides, too.
Reason(f, product) ==
    IF File[f].skip = "semgrepignored" /\ product = "secrets" THEN "selected"
    ELSE File[f].skip

\* get_targets: the files there are when a product is first asked for.  An RPC
\* that fails is logged, and counts as an empty tree (rpc_call.py:167).
Walks(product) ==
    IF product \in DOMAIN seen THEN {seen[product]}
    ELSE {disk} \cup (IF job.rpcFails THEN {{}} ELSE {})

Discovered(walk, product) == {f \in walk : Reason(f, product) = "selected"}

\* The reasons that the log knows; the others are dropped.
Logged == {"cli_includes", "cli_excludes", "insufficient_permissions",
           "size_limit", "semgrepignored"}

\* An extension of the language, which is any for the generic ones, or a first
\* line naming its interpreter in a file that can be executed.
OfLanguage(f, lang) ==
    \/ lang = "generic"
    \/ File[f].ext = lang
    \/ f \in disk /\ File[f].script = lang

\* Files on the command line that no language claims, unless they are skipped
\* by --skip-unknown-extensions.
UnknownExplicit(all) ==
    IF job.skipUnknown THEN {}
    ELSE {f \in all : File[f].explicit /\ File[f].ext = "none"}

OwnFiles(all, lang) == {f \in all : OfLanguage(f, lang)}

KeyOf(lang, product) == <<lang, product>>

\* What is found is kept for the next time.
Keep(cache, key, found) ==
    [k \in DOMAIN cache \cup {key} |-> IF k = key THEN found ELSE cache[k]]

\* Mutant of Cached: nothing is kept between the plans.
NeverCached(lang, product) == FALSE

Cached(lang, product) == KeyOf(lang, product) \in DOMAIN kept

\* get_files_for_language
FilesFor(all, lang, product) ==
    IF Cached(lang, product) THEN kept[KeyOf(lang, product)]
    ELSE OwnFiles(all, lang) \cup UnknownExplicit(all)

\* The first time, the log gets what the language and semgrep-core left out.
LeftOut(all, lang) == {<<lang, f>> : f \in all \ OwnFiles(all, lang)}
Skipped(walk, product) == {w \in Logged \X walk : Reason(w[2], product) = w[1]}

-----------------------------------------------------------------------------
(* paths: of a rule *)

\* A pattern with a slash in the middle is anchored only in the future
\* (legacy_rule_filtering); one that starts with a slash is.
Anchored(p) == p.slash = "leading"

Matches(p, f) ==
    LET path == File[f].path IN
    IF Anchored(p) THEN IsPrefix(p.names, path)
    ELSE \E i \in DOMAIN path : IsPrefix(p.names, SubSeq(path, i, Len(path)))

\* No include pattern includes all.
Included(r, files) ==
    IF About[r].include = {} THEN files
    ELSE {f \in files : \E p \in About[r].include : Matches(p, f)}
Excluded(r, files) == {f \in files : \E p \in About[r].exclude : Matches(p, f)}

\* Mutant of PathLog: what the exclude patterns leave out is not logged.
IncludesOnly(r, files) == {<<"include", r, f>> : f \in files \ Included(r, files)}

PathLog(r, files) ==
    {<<"include", r, f>> : f \in files \ Included(r, files)} \cup
    {<<"exclude", r, f>> : f \in Excluded(r, Included(r, files))}

\* The files of a rule among those of its language.
Ours(r, files) ==
    IF job.rulePaths THEN Included(r, files) \ Excluded(r, Included(r, files)) ELSE files

-----------------------------------------------------------------------------
(* plan_core_run *)

\* The rules of the scan take turns: the supply chain rules in the second round,
\* after all the others.
Rounds == 1 .. 2 * Len(rules)
IsSecond(k) == k > Len(rules)
RuleOf(k) == rules[IF IsSecond(k) THEN k - Len(rules) ELSE k].name

\* The turns of a plan.  The status leaves out the rules of an earlier scan, and
\* the supply chain rules of ecosystems nobody resolved; semgrep-core gets only
\* the supply chain rules whose dependency was found.
Turns(p) ==
    {k \in Rounds :
        LET r == RuleOf(k) IN
        /\ IsSecond(k) <=> About[r].product = "sca"
        /\ IF IsSecond(k)
           THEN About[r].ecosystem \in job.ecosystems /\ (r \in job.found \/ p = "print")
           ELSE p = "print" => ~About[r].transient}

Rule == RuleOf(num)

ProductsOf(p, task) ==
    {t.product : t \in {t \in plan[p] : t.file = task.file /\ t.lang = task.lang}}

NextPlan ==
    /\ phase' = IF phase = "print" THEN "status" ELSE "done"
    /\ num' = 0 /\ todo' = {}

\* The next rule of the plan, or else the plan is made.
StartPlan ==
    /\ step = "scan" /\ phase \in {"print", "run"} /\ todo = {}
    /\ LET left == {k \in Turns(phase) : k > num} IN
       IF left = {} THEN NextPlan
       ELSE \E k \in left :
            /\ \A j \in left : k <= j
            /\ num' = k /\ todo' = About[RuleOf(k)].languages
            /\ UNCHANGED phase
    /\ UNCHANGED <<disk, seen, kept, log, plan, unused>>

\* A rule and one of its languages: the files of the language and product,
\* then those that the paths of the rule leave.
PlanLanguage(lang) ==
    /\ step = "scan" /\ lang \in todo
    /\ LET product == About[Rule].product IN \E walk \in Walks(product) :
       LET all == Discovered(walk, product)
           files == FilesFor(all, lang, product)
           first == ~Cached(lang, product)
       IN  /\ seen' = Keep(seen, product, walk)
           /\ kept' = Keep(kept, KeyOf(lang, product), files)
           /\ log' =
                [by_language |-> log.by_language \cup
                     (IF first THEN LeftOut(all, lang) ELSE {}),
                 skipped |-> log.skipped \cup (IF first THEN Skipped(walk, product) ELSE {}),
                 rule_paths |-> log.rule_paths \cup
                     (IF job.rulePaths THEN PathLog(Rule, files) ELSE {})]
           /\ plan' = [plan EXCEPT ![phase] = @ \cup
                [file : Ours(Rule, files), lang : {lang}, rule : {Rule}, product : {product}]]
    /\ todo' = todo \ {lang}
    /\ unused' = IF todo # {lang} \/ \E t \in plan'[phase] : t.rule = Rule THEN unused
                 ELSE unused \cup {<<phase, Rule>>}
    /\ UNCHANGED <<disk, phase, num>>

\* Somebody removes a file while the plan is made.
Vanish(f) ==
    /\ step = "scan" /\ phase # "done"
    /\ f \in disk \cap job.fragile
    /\ disk' = disk \ {f}
    /\ UNCHANGED <<seen, kept, log, phase, num, todo, plan, unused>>
=============================================================================
