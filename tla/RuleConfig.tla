----------------------------- MODULE RuleConfig -----------------------------
(***************************************************************************)
(* How the arguments of --config become the rules of a scan                *)
(* (config_resolver.py, rule_lang.py, rule.py, run_scan.py).  The          *)
(* documents of an argument are parsed by a pool of threads and merged in  *)
(* the order the threads end.  A document is a member of Docs; what it     *)
(* holds is in job.docs; a rule is a name, what the rule says is in About. *)
(***************************************************************************)
EXTENDS Naturals, Sequences, FiniteSets, SequencesExt, Functions, ListOps

CONSTANTS
    Docs,           \* the documents, local and remote
    About           \* rule name -> what all its copies share (see MCInputRun)

VARIABLES
    job,            \* what is asked: see MCInputRun
    step,           \* "resolve", "parse", "rules", then "scan", "refused", "crash"
    at,             \* the argument in hand
    parsing,        \* its documents that the pool has not delivered
    merged,         \* its documents that were, in this order
    loaded,         \* the documents of the arguments done: [arg, doc]
    errors,         \* what went wrong: [kind, arg, doc, name]
    rules           \* the rules of the scan

ruleVars == <<step, at, parsing, merged, loaded, errors, rules>>

Nobody == "-"
Problem(kind, arg, doc, name) ==
    [kind |-> kind, arg |-> arg, doc |-> doc, name |-> name]

RuleInit ==
    /\ step = "resolve" /\ at = 1
    /\ parsing = {} /\ merged = <<>> /\ loaded = <<>>
    /\ errors = {} /\ rules = <<>>

Arg == job.configs[at]
Local == {"file", "folder", "missing"}
Remote == {"registry", "url"}

-----------------------------------------------------------------------------
(* One argument: where its documents come from. *)

\* The next argument, after the documents that were merged.
NextArgument(docs, problems) ==
    /\ loaded' = loaded \o [k \in 1 .. Len(docs) |-> [arg |-> at, doc |-> docs[k]]]
    /\ errors' = errors \cup problems
    /\ parsing' = {} /\ merged' = <<>>
    /\ at' = at + 1
    /\ step' = IF at = Len(job.configs) THEN "rules" ELSE "resolve"
    /\ UNCHANGED rules

\* A SemgrepError costs the argument; other exceptions end the command.
Abandon == NextArgument(<<>>, {Problem("config", at, Nobody, Nobody)})
Crash == step' = "crash" /\ UNCHANGED <<at, parsing, merged, loaded, errors, rules>>

Submit(docs) ==
    /\ parsing' = docs /\ merged' = <<>> /\ step' = "parse"
    /\ UNCHANGED <<at, loaded, errors, rules>>

\* A file, or the files of a folder, of which there may be none.
LoadLocal ==
    /\ step = "resolve" /\ Arg.kind \in Local
    /\ IF Arg.kind = "missing" THEN Abandon
       ELSE IF Arg.docs = {} THEN NextArgument(<<>>, {})
       ELSE Submit(Arg.docs)

\* The Registry or any server: a status that is not 200 or too many tries is a
\* SemgrepError, no connection is not.
Download ==
    /\ step = "resolve" /\ Arg.kind \in Remote
    /\ Submit(Arg.docs) \/ Abandon \/ (job.offline /\ Crash)

\* code, secrets, supply-chain, policy: a scan of the platform, or else what
\* the fail-open server has for a single product.
FetchProduct ==
    /\ step = "resolve" /\ Arg.kind = "product"
    /\ IF Arg.needsRepo /\ ~job.repo THEN Abandon
       ELSE \/ Submit(Arg.docs)
            \/ Arg.single /\ Submit(Arg.fallback)
            \/ Abandon                                  \* 401, retries
            \/ Crash                                    \* any other status

-----------------------------------------------------------------------------
(* parse_config_files *)

Doc(d) == job.docs[d]
\* validate_rules: what semgrep-core accepts is valid; if it does not, or does
\* not answer, the JSON schema decides.  Some it refuses only core accepts.
Accepts(d) ==
    CASE Doc(d).valid = "yes" -> {TRUE}
      [] Doc(d).valid = "core" -> BOOLEAN
      [] Doc(d).valid = "no" -> {FALSE}

NoVersion(d) == \E r \in Range(Doc(d).rules) : r.version = "garbage"
Incompatible(d) ==
    {k \in DOMAIN Doc(d).rules : Doc(d).rules[k].version \in {"newer", "older"}}
Versioned(arg, d) ==
    {Problem("version", arg, d, Doc(d).rules[k].name) : k \in Incompatible(d)}

\* Mutant of Merge: a document replaces what was merged before it.
MergeLast(d) == <<d>>

\* config.update: no two documents of an argument have the same id.
Merge(d) == Append(merged, d)

\* A thread of the pool is done with a document.  An empty, broken or invalid
\* one costs the whole argument, a version that is no version the command.
ParseOne(d) ==
    /\ step = "parse" /\ d \in parsing
    /\ IF NoVersion(d) THEN Crash
       ELSE \E valid \in Accepts(d) :
       IF Doc(d).kind # "rules" \/ ~valid THEN Abandon
       ELSE IF parsing = {d}
       THEN NextArgument(Merge(d),
                UNION {Versioned(at, e) : e \in Range(Merge(d)) \cup {d}})
       ELSE /\ parsing' = parsing \ {d}
            /\ merged' = Merge(d)
            /\ UNCHANGED <<step, at, loaded, errors, rules>>

-----------------------------------------------------------------------------
(* Config._validate, Config.get_rules *)

\* The kind of an id: only what the Registry or the platform sent is trusted.
FromRegistry(arg) == job.configs[arg].kind \in {"registry", "product", "string"}

\* Rules of other sources lose the origin their metadata claim.
Origin(arg, r) ==
    IF About[r.name].product = "secrets" /\ ~FromRegistry(arg) THEN "local"
    ELSE r.origin

\* The id of a rule takes the folder of its document, unless asked otherwise.
Renamed(d, r) == <<IF job.rewrites THEN Doc(d).dir ELSE Nobody, r.name>>

\* The rules of a document, in order, that are compatible and can be parsed.
Valid(l) ==
    LET rs == Doc(l.doc).rules
        all == [k \in DOMAIN rs |->
                   [key |-> Renamed(l.doc, rs[k]), name |-> rs[k].name,
                    origin |-> Origin(l.arg, rs[k]), from |-> <<l.arg, l.doc, k>>]]
    IN  Only(all, {all[k] : k \in {k \in DOMAIN rs \ Incompatible(l.doc) : rs[k].parses = "yes"}})

Broken(l, how) ==
    {k \in DOMAIN Doc(l.doc).rules \ Incompatible(l.doc) :
        Doc(l.doc).rules[k].parses = how}

All == FlattenSeq([k \in DOMAIN loaded |-> Valid(loaded[k])])

FirstCopy(all, k) ==
    CHOOSE j \in DOMAIN all : /\ all[j].key = all[k].key
                              /\ \A i \in 1 .. j - 1 : all[i].key # all[k].key

\* An OrderedDict of the rules from right to left, read from right to left:
\* the first copy stays, where the last one was.
Deduplicated(all) ==
    LET isLast(k) == \A j \in k + 1 .. Len(all) : all[j].key # all[k].key
        lasts == Only([k \in DOMAIN all |-> k], {k \in DOMAIN all : isLast(k)})
    IN  [k \in DOMAIN lasts |-> all[FirstCopy(all, lasts[k])]]

\* --severity, --exclude-rule
Shown(r) ==
    /\ About[r.name].severity \in job.severities
    /\ r.name \notin job.excluded

\* A rule of an unknown language is an error nobody expects there; one that
\* the schema let through by mistake is reported; then any error but one of
\* versions, or the lack of rules, refuses the scan.
GetRules ==
    /\ step = "rules"
    /\ LET wrong == {Problem("rule", l.arg, l.doc, Nobody) :
                        l \in {l \in Range(loaded) : Broken(l, "no") # {}}}
           unknown == \E l \in Range(loaded) : Broken(l, "language") # {}
           real == {e \in errors \cup wrong : e.kind # "version"}
       IN  /\ errors' = errors \cup wrong
           /\ rules' = Only(Deduplicated(All), {r \in Range(Deduplicated(All)) : Shown(r)})
           /\ step' = IF unknown \/ real # {} \/ All = <<>> THEN "refused" ELSE "scan"
    /\ UNCHANGED <<at, parsing, merged, loaded>>

\* parse_config_string_as_rules: when a string holds no rules, or a version
\* that is none, the finally clause or the comparison raises what nobody handles.
ReadString(d) ==
    IF Doc(d).kind = "garbage" \/ NoVersion(d) THEN Crash
    ELSE IF Doc(d).kind = "blank" THEN Abandon
    ELSE \/ FALSE \in Accepts(d) /\ Abandon
         \/ TRUE \in Accepts(d) /\ NextArgument(<<d>>, Versioned(at, d))

\* The rules that the platform sends `semgrep ci`.
FromString ==
    /\ step = "resolve" /\ Arg.kind = "string"
    /\ \E d \in Arg.docs : ReadString(d)

RuleStep ==
    \/ LoadLocal \/ Download \/ FetchProduct \/ FromString
    \/ (\E d \in Docs : ParseOne(d))
    \/ GetRules

-----------------------------------------------------------------------------
(* Properties *)

\* A scan that starts has every rule of every document of its arguments that
\* the user did not filter out, whatever the order of the threads: itself, or
\* a copy of it, or it was reported as one of another version.  What the
\* platform sends for a product may be replaced by the fail-open server.
NoRuleLost ==
    step = "scan" =>
        \A arg \in DOMAIN job.configs : \A d \in job.configs[arg].docs :
        \A k \in DOMAIN Doc(d).rules :
            LET r == Doc(d).rules[k] IN
            \/ \E i \in DOMAIN rules : rules[i].key = Renamed(d, r)
            \/ ~Shown(r)
            \/ Problem("version", arg, d, r.name) \in errors
            \/ job.configs[arg].kind = "product"
=============================================================================
