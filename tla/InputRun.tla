------------------------------ MODULE InputRun ------------------------------
(***************************************************************************)
(* The inputs of a scan (run_scan.py): the rules are loaded, the files     *)
(* they apply to are planned and announced (scan_report.py), and planned   *)
(* again for semgrep-core.                                                 *)
(***************************************************************************)
EXTENDS TargetSelection

CONSTANT Jobs       \* what is asked: see MCInputRun

\* What the modules say of a job: a string is one document, a rule can be
\* parsed, or not, or is of a language nobody knows.
ASSUME JobsAssumption ==
    \A j \in Jobs :
        /\ j.configs \in Seq(Range(j.configs)) /\ j.configs # <<>>
        /\ \A arg \in Range(j.configs) :
              /\ arg.docs \cup arg.fallback \subseteq Docs
              /\ arg.kind = "string" => \A d, e \in arg.docs : d = e
        /\ \A d \in Docs :
              /\ j.docs[d].rules \in Seq(Range(j.docs[d].rules))
              /\ \A r \in Range(j.docs[d].rules) : r.parses \in {"yes", "no", "language"}

VARIABLE status     \* what was announced, by product: [form, count]

vars == <<job, ruleVars, targetVars, status>>

Silent == [form |-> "absent", count |-> 0]

Init ==
    /\ job \in Jobs
    /\ RuleInit /\ TargetInit
    /\ status = [p \in Products |-> Silent]

-----------------------------------------------------------------------------
(* print_scan_status *)

Group(product) == IF product = "sca" THEN {"sca"} ELSE {"sast", "secrets"}
InPlan(product) == {t \in plan.print : t.product \in Group(product)}
TasksOf(product) == {[file |-> t.file, lang |-> t.lang] : t \in InPlan(product)}

\* rule_count_for_product: the rules that have a target.
RuleCount(product) == Cardinality({t.rule : t \in {t \in plan.print : t.product = product}})

Label(lang) == IF lang \in {"generic", "regex"} THEN "multilang" ELSE lang
Labels(product) == {Label(t.lang) : t \in TasksOf(product)}

\* The files of a label.  Those of several generic languages count once, as if
\* each of them had the same files.
FileCount(product, label) ==
    LET mine == {t \in TasksOf(product) : Label(t.lang) = label}
    IN  Cardinality(mine) \div Cardinality({t.lang : t \in mine})

\* The product of a plan, which is set again before the Secrets table.
Subject(product) == product

\* _print_degenerate_table: one rule or none.
Degenerate(product) ==
    IF RuleCount(product) = 0 THEN [form |-> "nothing", count |-> 0]
    ELSE [form |-> "files",
          count |-> Cardinality({t \in TasksOf(product) :
                                    Subject(product) \in ProductsOf("print", t)})]

\* The rows of table_by_language: the labels that a rule of the product has.
Rows(product) == {Label(t.lang) : t \in {t \in plan.print : t.product = product}}

\* A line if there is one label, of any product of the plan, else a table.
CodeSection(product) ==
    IF RuleCount(product) <= 1 THEN Degenerate(product)
    ELSE IF Cardinality(Labels(product)) = 1
    THEN [form |-> "line",
          count |-> FileCount(product, CHOOSE l \in Labels(product) : TRUE)]
    ELSE [form |-> "table", count |-> Cardinality(Rows(product))]

\* The subprojects, of the ecosystems that were resolved.
ScaSection ==
    IF RuleCount("sca") <= 1 THEN Degenerate("sca")
    ELSE [form |-> "table", count |-> Cardinality(job.ecosystems)]

HasSca == \E k \in Turns("print") : About[RuleOf(k)].product = "sca"

\* The summary line counts the files of the Code rules, which are looked for
\* if no rule did.
Announce ==
    /\ step = "scan" /\ phase = "status"
    /\ phase' = "run"
    /\ IF job.ux = "minimal" THEN UNCHANGED seen
       ELSE \E walk \in Walks("sast") : seen' = Keep(seen, "sast", walk)
    /\ status' = [p \in Products |->
         IF \/ job.ux \in {"minimal", "simple"}
            \/ p = "secrets" /\ RuleCount(p) = 0
            \/ p = "sca" /\ ~HasSca /\ job.ux = "legacy"
         THEN Silent
         ELSE IF p = "sca" THEN ScaSection ELSE CodeSection(p)]
    /\ UNCHANGED <<job, ruleVars, disk, kept, log, num, todo, plan, unused>>

-----------------------------------------------------------------------------

Loading == RuleStep /\ UNCHANGED <<job, targetVars, status>>

Planning ==
    /\ StartPlan \/ \E lang \in todo : PlanLanguage(lang)
    /\ UNCHANGED <<job, ruleVars, status>>

Removed ==
    /\ \E f \in Files : Vanish(f)
    /\ UNCHANGED <<job, ruleVars, status>>

Next == Loading \/ Planning \/ Announce \/ Removed

\* One process, whose threads and requests end.
Spec == Init /\ [][Next]_vars /\ WF_vars(Loading \/ Planning \/ Announce)

-----------------------------------------------------------------------------
(* Properties *)

Done == step = "scan" /\ phase = "done"

\* Every file that was there is accounted for, by every rule that runs and each
\* of its languages: it is a target, or the log says that semgrep-core skipped
\* it, that it is not of the language, or which paths of the rule left it out.
\* Reasons that the log does not know are dropped (target_manager.py:1243), and
\* so is all when the discovery itself failed.
AccountedFor ==
    Done =>
        \A k \in Turns("run") : \A lang \in About[RuleOf(k)].languages :
        \A f \in disk \cap seen[About[RuleOf(k)].product] :
            Reason(f, About[RuleOf(k)].product) \in Logged \cup {"selected"} =>
            \/ \E t \in plan.run : t.file = f /\ t.rule = RuleOf(k) /\ t.lang = lang
            \/ <<lang, f>> \in log.by_language
            \/ \E why \in {"include", "exclude"} : <<why, RuleOf(k), f>> \in log.rule_paths
            \/ \E why \in Logged : <<why, f>> \in log.skipped

\* "Assumes file system does not change during its existence to cache files for
\* a given language" (target_manager.py:822): when it does change, the files of
\* a rule are still the ones announced, in both plans.
PrintedIsRun ==
    Done => {t \in plan.run : t.product # "sca" /\ ~About[t.rule].transient}
          = {t \in plan.print : t.product # "sca"}
=============================================================================
