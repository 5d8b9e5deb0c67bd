---------------------------- MODULE SupplyChain ----------------------------
(***************************************************************************)
(* The Supply Chain part of a scan (run_scan.py): the subprojects of the   *)
(* repository are found, their dependencies are resolved, the rules about  *)
(* dependencies run, and what they find in the code and in the lockfiles   *)
(* becomes findings (dependency_aware_rule.py).                            *)
(***************************************************************************)
EXTENDS Lockfiles, RpcSession

CONSTANTS
    Scans,          \* what is scanned: see MCSupplyChain
    Deps            \* what is installed by a file, as semgrep-core finds it

\* The ecosystems of a rule are those of its patterns (rule.py).
ASSUME ScansAssumption ==
    \A s \in Scans :
        /\ IsFiniteSet(s.files) /\ NoFile \notin s.files
        /\ s.rules \in Seq(Range(s.rules))
        /\ \A rule \in Range(s.rules) : rule.ecos = {p.eco : p \in rule.pats}

VARIABLES
    scan,
    pc,             \* "find", "filter", "resolve", "source", "ask", "adjust",
                    \* "verdict", "answer", "end", "crashed"
    tried, files,   \* matchers tried, the files left for the next one
    found,          \* the subprojects, in order
    queue,          \* those to resolve
    cur,            \* the sources of the first one: those left, and the result
    resolved,       \* [sub, how, deps, errs]
    unresolved,     \* [sub, why, errs]
    running,        \* the rules that semgrep-core runs
    turn, left,      \* the rule in hand, and the resolved subprojects it is for
    findings,
    output

supplyVars == <<scan, pc, tried, files, found, queue, cur, resolved, unresolved,
          running, turn, left, findings, output, rpcVars>>
foundVars == <<tried, files, found>>
resolveVars == <<queue, cur, resolved, unresolved>>
findingVars == <<running, turn, left, findings>>

Empty == [srcs |-> <<>>, deps |-> {}, errs |-> {}, how |-> "lockfile", why |-> "-"]

SupplyInit ==
    /\ scan \in Scans
    /\ pc = "find" /\ tried = 0 /\ files = scan.files /\ found = <<>>
    /\ queue = <<>> /\ cur = Empty /\ resolved = <<>> /\ unresolved = <<>>
    /\ running = {} /\ turn = 1 /\ left = <<>> /\ findings = {}
    /\ output = [listed |-> {}, stats |-> {}]
    /\ RpcInit

-----------------------------------------------------------------------------
(* find_subprojects *)

\* The next matcher has all the files but those that this one used.
Left(used) == scan.files \ used

\* One matcher.
TryMatcher ==
    /\ pc = "find" /\ tried < Len(MATCHERS)
    /\ tried' = tried + 1
    /\ \E made \in Makes(MATCHERS[tried + 1], files) :
          /\ found' = found \o made.subs
          /\ files' = Left(made.used)
    /\ UNCHANGED <<scan, pc, resolveVars, findingVars, output, rpcVars>>

AllTried ==
    /\ pc = "find" /\ tried = Len(MATCHERS)
    /\ pc' = "filter"
    /\ UNCHANGED <<scan, foundVars, resolveVars, findingVars, output, rpcVars>>

\* The subprojects that are not relevant are skipped, unless all are asked for.
Filter ==
    /\ pc = "filter"
    /\ pc' = "resolve"
    /\ LET relevant == IF scan.all THEN {Hash(s) : s \in Range(found)}
                       ELSE Relevant(scan.changed, scan.code, scan.rules, found)
           chosen == {s \in Range(found) : Hash(s) \in relevant}
           skipped == Only(found, Range(found) \ chosen)
       IN  /\ queue' = Only(found, chosen)
           /\ unresolved' = [i \in DOMAIN skipped |->
                                [sub |-> skipped[i], why |-> "skipped", errs |-> {}]]
    /\ UNCHANGED <<scan, foundVars, cur, resolved, findingVars, output, rpcVars>>

-----------------------------------------------------------------------------
(* resolve_dependency_source *)

\* sca_subproject_support.py: what semgrep-core reads, by manifest and lockfile.
PTT_OCAML_PARSER ==
    {<<"package.json", "package-lock.json">>, <<"*.csproj", "packages.lock.json">>,
     <<"build.gradle", "gradle.lockfile">>, <<"build.gradle.kts", "gradle.lockfile">>}
PTT_DYNAMIC_RESOLUTION ==
    {<<"requirements.in", "requirements.txt">>, <<"-", "requirements.txt">>,
     <<"Pipfile", "Pipfile.lock">>}
ALWAYS_DYNAMIC_RESOLUTION ==
    {<<man, "-">> : man \in {"pom.xml", "build.gradle", "build.gradle.kts", "settings.gradle",
                             "setup.py", "*.csproj", "build.sbt"}}
ALWAYS_OCAML_PARSER == {<<"pyproject.toml", "uv.lock">>}
TRANSITIVE_REACHABILITY ==
    {<<"package.json", "package-lock.json">>, <<"pyproject.toml", "uv.lock">>,
     <<"pyproject.toml", "poetry.lock">>, <<"-", "requirements.txt">>,
     <<"Pipfile", "Pipfile.lock">>, <<"package.json", "pnpm-lock.yaml">>,
     <<"package.json", "yarn.lock">>}

\* No parser in Python.
Unparsable == {"uv.lock", "bun.lock", "bun.lockb"}

\* Whether semgrep-core reads a lockfile: always or for the paths of packages,
\* by building, or for their code.
ReadsLockfile(src) ==
    \/ scan.ptt /\ Kind(src) \in PTT_OCAML_PARSER
    \/ Kind(src) \in ALWAYS_OCAML_PARSER
ByBuilding(src) == scan.ptt /\ scan.builds /\ Kind(src) \in PTT_DYNAMIC_RESOLUTION
ForItsCode(src) == scan.tr /\ Kind(src) \in TRANSITIVE_REACHABILITY

\* A manifest alone is built, if that is allowed.
Buildable(src) == ~Lockfile(src) /\ (Kind(src) \in ALWAYS_DYNAMIC_RESOLUTION \/ scan.tr)

AsksCore(src) ==
    IF Lockfile(src) THEN ReadsLockfile(src) \/ ByBuilding(src) \/ ForItsCode(src)
    ELSE Buildable(src) /\ scan.builds

Located(src, deps) ==
    {[dep |-> d, lock |-> IF d.path THEN Display(src) ELSE NoFile] : d \in deps}

Resolved(deps, errs, how) == [deps |-> deps, errs |-> errs, how |-> how, why |-> "-"]
Failure(why, errs) == [deps |-> {}, errs |-> errs, how |-> "lockfile", why |-> why]

\* The parser in Python: it fails with errors, but never to resolve.
Parse(src) ==
    LET parsed == ParseLockfile(src, scan.broken)
    IN  Resolved(Located(src, parsed.deps), parsed.errs, "lockfile")

\* Mutant of Locally: what cannot be parsed is resolved, to nothing.
LocallySilent(src, errs) ==
    IF Lockfile(src) /\ src.lock.name \notin Unparsable THEN Parse(src)
    ELSE Resolved({}, {}, "lockfile")

\* Without semgrep-core, or after it failed.
Locally(src, errs) ==
    IF Lockfile(src) /\ src.lock.name \notin Unparsable THEN Parse(src)
    ELSE IF AsksCore(src) THEN Failure("failed", errs)
    ELSE IF Buildable(src) THEN Failure("disabled", {})
    ELSE Failure("unsupported", {})

\* With the answer of semgrep-core, which may be that it could not.
Remotely(src, answer) ==
    IF answer = None THEN Locally(src, {})
    ELSE LET read == CHOOSE s \in answer.body : TRUE
         IN  IF Display(read) \in scan.broken THEN Locally(src, {Display(src)})
             ELSE Resolved(Located(read, Deps[Display(read)]), {},
                           IF ReadsLockfile(src) THEN "lockfile" ELSE "dynamic")

\* A group is resolved by building if a source of it was.
Add(res) ==
    cur' = [srcs |-> Tail(cur.srcs),
            deps |-> cur.deps \cup res.deps,
            errs |-> cur.errs \cup res.errs,
            how |-> IF "dynamic" \in {cur.how, res.how} THEN "dynamic" ELSE "lockfile",
            why |-> res.why]

Begin ==
    /\ pc = "resolve" /\ queue # <<>>
    /\ pc' = "source"
    /\ cur' = [Empty EXCEPT !.srcs = Head(queue).srcs]
    /\ UNCHANGED <<scan, foundVars, queue, resolved, unresolved, findingVars, output, rpcVars>>

\* A call that raises is like one without an answer.
SourceLocally ==
    /\ pc = "source" /\ cur.srcs # <<>>
    /\ IF AsksCore(Head(cur.srcs)) THEN CallFails ELSE UNCHANGED rpcVars
    /\ Add(Locally(Head(cur.srcs), {}))
    /\ UNCHANGED <<scan, pc, foundVars, queue, resolved, unresolved, findingVars, output>>

AskForDeps ==
    /\ pc = "source" /\ cur.srcs # <<>>
    /\ AsksCore(Head(cur.srcs))
    /\ Call("deps", {Head(cur.srcs)})
    /\ pc' = "ask"
    /\ UNCHANGED <<scan, foundVars, resolveVars, findingVars, output>>

HearDeps ==
    /\ pc = "ask"
    /\ Receive("deps")
    /\ Add(Remotely(Head(cur.srcs), reply'))
    /\ pc' = "source"
    /\ UNCHANGED <<scan, foundVars, queue, resolved, unresolved, findingVars, output>>

\* A group is resolved whatever became of its sources.
Gone(sub) == Len(sub.srcs) = 1 /\ cur.why # "-"

Recorded(sub) == <<[sub |-> sub, why |-> cur.why, errs |-> cur.errs]>>

Settle ==
    /\ pc = "source" /\ cur.srcs = <<>>
    /\ LET sub == Head(queue)
       IN  IF Gone(sub)
           THEN /\ unresolved' = unresolved \o Recorded(sub)
                /\ UNCHANGED resolved
           ELSE /\ resolved' = Append(resolved, [sub |-> sub, how |-> cur.how,
                                                 deps |-> cur.deps, errs |-> cur.errs])
                /\ UNCHANGED unresolved
    /\ queue' = Tail(queue)
    /\ cur' = Empty
    /\ pc' = "resolve"
    /\ UNCHANGED <<scan, foundVars, findingVars, output, rpcVars>>

-----------------------------------------------------------------------------
(* The rules: [name, langs, ecos, pats, code, ok].  A pattern is a package   *)
(* of an ecosystem; the vulnerable version of a dependency is "bad", and an  *)
(* "odd" one cannot be compared.                                             *)

Patterns(rule, eco) == {p.pkg : p \in {p \in rule.pats : p.eco = eco}}

\* dependencies_range_match_any: what of the dependencies of a subproject a
\* rule is about, and whether finding that out raises.
Vulnerable(rule, r) ==
    {d \in r.deps : d.dep.pkg \in Patterns(rule, r.sub.eco) /\ d.dep.ver = "bad"}
Raises(rule, r) ==
    ~rule.ok \/ \E d \in r.deps : d.dep.pkg \in Patterns(rule, r.sub.eco) /\ d.dep.ver = "odd"

\* The resolved subprojects of the ecosystems of a rule.
For(rule) == Only(resolved, {r \in Range(resolved) : r.sub.eco \in rule.ecos})

\* filter_dependency_aware_rules looks at subprojects up to the first match.
Matched(rule) == \E r \in Range(For(rule)) : Vulnerable(rule, r) # {}
FilterRaises(rule) ==
    \/ ~rule.ok
    \/ \E i \in DOMAIN For(rule) :
           /\ Raises(rule, For(rule)[i])
           /\ \A j \in 1..(i - 1) : Vulnerable(rule, For(rule)[j]) = {}

CodeRules == {rule \in Range(scan.rules) : rule.code}

\* The rules with patterns run if there is a dependency they are about.
FilterRules ==
    /\ pc = "resolve" /\ queue = <<>>
    /\ IF \E rule \in CodeRules : FilterRaises(rule)
       THEN pc' = "crashed" /\ UNCHANGED running
       ELSE pc' = "adjust" /\ running' = {rule \in CodeRules : Matched(rule)}
    /\ UNCHANGED <<scan, foundVars, resolveVars, turn, left, findings, output, rpcVars>>

RuleInHand == scan.rules[turn]

\* Where the code matches the patterns of a rule, according to semgrep-core.
Hits(rule) ==
    IF rule \in running THEN {c \in scan.code : c.hit /\ c.lang \in rule.langs} ELSE {}

\* find_closest_resolved_subproject
ClosestResolved(dir, eco) ==
    {r \in Range(resolved) : r.sub # NoSub /\
        r.sub = Closest(dir, eco, [i \in DOMAIN resolved |-> resolved[i].sub])}

Finding(rule, d, reach, dir) ==
    [rule |-> rule.name, lock |-> d.lock, dep |-> d.dep, reach |-> reach, dir |-> dir]

\* A rule that could be about a direct dependency is not about transitive ones.
Meant(rule, r, d) ==
    \/ d.dep.kind # "transitive"
    \/ ~\E e \in r.deps : e.dep.kind = "direct" /\ e.dep.pkg \in {p.pkg : p \in rule.pats}

\* generate_reachable_sca_findings: a match is about the vulnerable dependencies
\* of the closest subproject of each ecosystem of the rule.
FoundAt(rule, c, r) ==
    {Finding(rule, d, TRUE, c.dir) :
        d \in {d \in Vulnerable(rule, r) : d.lock # NoFile /\ Meant(rule, r, d)}}
SubjectsOf(rule, c) ==
    {r \in UNION {ClosestResolved(c.dir, eco) : eco \in rule.ecos} : ~Raises(rule, r)}
Reachable(rule) ==
    UNION {UNION {FoundAt(rule, c, r) : r \in SubjectsOf(rule, c)} : c \in Hits(rule)}

NextRule ==
    /\ pc = "adjust" /\ turn <= Len(scan.rules)
    /\ IF RuleInHand.ok
       THEN /\ pc' = "verdict"
            /\ findings' = findings \cup Reachable(RuleInHand)
            /\ left' = For(RuleInHand)
       ELSE pc' = "crashed" /\ UNCHANGED <<findings, left>>
    /\ UNCHANGED <<scan, foundVars, resolveVars, running, turn, output, rpcVars>>

\* Mutant of AlreadyReachable: whatever the rule.
ReachableByAny(d) == \E f \in findings : f.reach /\ f.lock = d.lock /\ f.dep = d.dep

AlreadyReachable(d) ==
    \E f \in findings : /\ f.rule = RuleInHand.name /\ f.reach
                        /\ f.lock = d.lock /\ f.dep = d.dep

\* generate_unreachable_sca_findings, for a subproject.
Unreachable(r) ==
    {Finding(RuleInHand, d, FALSE, <<>>) :
        d \in {d \in Vulnerable(RuleInHand, r) : d.lock # NoFile /\ ~AlreadyReachable(d)}}

LooksInside(r) == RuleInHand.code /\ scan.tr /\ KindOf(r.sub) \in TRANSITIVE_REACHABILITY

Verdict ==
    /\ pc = "verdict" /\ left # <<>>
    /\ ~LooksInside(Head(left)) \/ Raises(RuleInHand, Head(left))
    /\ IF Raises(RuleInHand, Head(left))
       THEN pc' = "crashed" /\ UNCHANGED <<findings, left>>
       ELSE /\ findings' = findings \cup Unreachable(Head(left))
            /\ left' = Tail(left)
            /\ UNCHANGED pc
    /\ UNCHANGED <<scan, foundVars, resolveVars, running, turn, output, rpcVars>>

\* semgrep-core looks at the code of the dependencies; nobody handles what
\* writing to a process that has ended raises.
AskForVerdict ==
    /\ pc = "verdict" /\ left # <<>>
    /\ LooksInside(Head(left)) /\ ~Raises(RuleInHand, Head(left))
    /\ IF PipeBroken
       THEN pc' = "crashed" /\ CallFails
       ELSE pc' = "answer" /\ Call("tr", Unreachable(Head(left)))
    /\ UNCHANGED <<scan, foundVars, resolveVars, findingVars, output>>

\* The findings are replaced by those of the answer, one by one, as far as there
\* are both; without an answer they stay.
Zipped(asked_, answered) ==
    IF Cardinality(asked_) = Cardinality(answered) THEN {answered}
    ELSE {kept \in SUBSET answered :
             Cardinality(kept) = Min({Cardinality(asked_), Cardinality(answered)})}

HearVerdict ==
    /\ pc = "answer"
    /\ Receive("tr")
    /\ LET mine == Unreachable(Head(left))
       IN  \E kept \in IF reply' = None THEN {mine} ELSE Zipped(mine, reply'.body) :
              findings' = findings \cup kept
    /\ left' = Tail(left)
    /\ pc' = "verdict"
    /\ UNCHANGED <<scan, foundVars, resolveVars, running, turn, output>>

RuleDone ==
    /\ pc = "verdict" /\ left = <<>>
    /\ turn' = turn + 1
    /\ pc' = "adjust"
    /\ UNCHANGED <<scan, foundVars, resolveVars, running, left, findings, output, rpcVars>>

\* What is told of a subproject: its identity is made of the paths it is shown by.
Stats(s, ok) ==
    [id |-> DisplayPaths(s.sub), resolved |-> ok,
     count |-> IF ok THEN Cardinality(s.deps) ELSE 0,
     why |-> IF ok THEN "-" ELSE s.why, errs |-> s.errs]

\* A dependency is listed with its lockfile, or with a made-up one of the root.
Listed(r, d) ==
    [file |-> IF d.lock = NoFile THEN At(r.sub.root, "unknown_lockfile") ELSE d.lock,
     dep |-> d.dep]

\* All is reported after the session was left, which nobody handles if it fails.
Finish ==
    /\ pc = "adjust" /\ turn > Len(scan.rules)
    /\ IF LeaveFails
       THEN pc' = "crashed" /\ UNCHANGED output
       ELSE /\ pc' = "end"
            /\ output' =
                  [listed |-> UNION {{Listed(r, d) : d \in r.deps} : r \in Range(resolved)},
                   stats |-> {Stats(r, TRUE) : r \in Range(resolved)} \cup
                             {Stats(u, FALSE) : u \in Range(unresolved)}]
    /\ UNCHANGED <<scan, foundVars, resolveVars, findingVars, rpcVars>>

-----------------------------------------------------------------------------
(* The session is killed when the scan has left it.                        *)

Over == pc \in {"end", "crashed"}

Other == ~Over /\ UNCHANGED <<scan, pc, foundVars, resolveVars, findingVars, output>>
ServerAnswers == Serve /\ Other
ServerDies == Die /\ Other

Scan == \/ TryMatcher \/ AllTried \/ Filter
        \/ Begin \/ SourceLocally \/ AskForDeps \/ HearDeps \/ Settle
        \/ FilterRules \/ NextRule \/ Verdict \/ AskForVerdict \/ HearVerdict
        \/ RuleDone \/ Finish

SupplyNext == Scan \/ ServerAnswers \/ ServerDies

\* The scan goes on, and the process answers unless it ends: a call has no time
\* limit, so a process that does neither stops the scan.
SupplySpec == SupplyInit /\ [][SupplyNext]_supplyVars
                     /\ WF_supplyVars(Scan) /\ WF_supplyVars(ServerAnswers)

-----------------------------------------------------------------------------
(* Properties *)

Same(a, b) == a.pkg = b.pkg /\ a.ver = b.ver

\* What of the dependencies that a file installs a rule is about.
Sought(rule, eco, file) ==
    {d \in Deps[file] : d.path /\ d.ver = "bad" /\ d.pkg \in Patterns(rule, eco)}

\* A parser gives up without an error: on a package-lock.json or pnpm-lock.yaml
\* without its version, on a pubspec.lock if one package lacks a field, and on a
\* mix.lock without the dependencies of its manifest.
GivesUp(src) ==
    \/ src.lock.name \in {"package-lock.json", "pnpm-lock.yaml"} /\ ~Has(src.lock, "lockfileVersion")
    \/ src.lock.name = "pubspec.lock" /\ PubspecLock(src.lock, NoManifest) = NoneFound
    \/ /\ src.lock.name = "mix.lock"
       /\ src.man \in scan.broken \cup {NoFile} \/ ~Has(src.man, "deps")

\* What is installed by a source of a resolved subproject, at a vulnerable
\* version, is a finding of each rule about it, reachable or not, unless there
\* is an error about the source or its parser gives up: whether a parser or
\* semgrep-core read it, and also if the rule did not run, its matches were in
\* no subproject or meant another package, or semgrep-core did not answer.
\* Nothing else is a finding.
VulnerableReported ==
    (pc = "end" /\ strays = 0) =>
        /\ \A rule \in Range(scan.rules) : \A r \in Range(For(rule)) :
              \A src \in {src \in Range(r.sub.srcs) : Display(src) \notin r.errs /\ ~GivesUp(src)} :
                  \A d \in Sought(rule, r.sub.eco, Display(src)) :
                      \E f \in findings : /\ f.rule = rule.name /\ f.lock = Display(src)
                                           /\ Same(f.dep, d)
        /\ \A f \in findings : \E d \in Deps[f.lock] : Same(f.dep, d)

\* A finding of a rule is about a dependency, whether it is reachable or not.
IsReported(rule, d) ==
    \E f \in findings : f.rule = rule.name /\ f.lock = d.lock /\ f.dep = d.dep

\* A scan that ends has a finding of each rule about each vulnerable dependency
\* it resolved, whatever became of the calls on the way: none is lost between
\* what is reachable and what is not, or with a call that was not answered
\* (generate_reachable_sca_findings, generate_unreachable_sca_findings).  It ends
\* otherwise only if semgrep-core did, or for a version that nobody can compare.
ResolvedIsReported ==
    /\ (pc = "end" /\ strays = 0) =>
          \A rule \in Range(scan.rules) : \A r \in Range(For(rule)) :
              \A d \in {d \in Vulnerable(rule, r) : d.lock # NoFile} : IsReported(rule, d)
    /\ pc = "crashed" =>
          \/ ~up
          \/ \E rule \in Range(scan.rules) :
                 ~rule.ok \/ \E r \in Range(For(rule)) : Raises(rule, r)

IsSkipped(sub) == \E i \in DOMAIN unresolved : unresolved[i].sub = sub /\ unresolved[i].why = "skipped"

\* A reachable finding is about the subproject that its code is closest to, or
\* that one could not be resolved: the filter of a diff scan skips no subproject
\* that the findings would have been about (find_closest_subproject, twice).
ClosestIsUsed ==
    strays = 0 => \A f \in {f \in findings : f.reach} :
        \A r \in {r \in Range(resolved) : f.lock \in SourceFiles(r.sub)} :
            LET closest == Closest(f.dir, r.sub.eco, found)
            IN  closest # r.sub => ~IsSkipped(closest)

\* What a call returns answers that call, whatever went wrong in the calls
\* before it, as long as the process prints nothing but packets (rpc.py).
AnswersAreOwn == (strays = 0 /\ reply # None) => reply = last
=============================================================================
