----------------------------- MODULE MCInputRun -----------------------------
(* Either the arguments of --config vary, or the files and their fates.     *)
EXTENDS InputRun

\* Rules: what all the copies of a rule share.
Plain == [product |-> "sast", severity |-> "high", languages |-> {"python"},
          include |-> {}, exclude |-> {}, ecosystem |-> "-", transient |-> FALSE]
Pattern(slash, names) == [slash |-> slash, names |-> names]
MCAbout ==
    ("eval" :> Plain) @@
    ("exec" :> [Plain EXCEPT !.severity = "low"]) @@
    ("token" :> [Plain EXCEPT !.product = "secrets", !.languages = {"python", "generic"}]) @@
    ("old" :> [Plain EXCEPT !.transient = TRUE,
                            !.include = {Pattern("leading", <<"src">>)}]) @@
    ("paths" :> [Plain EXCEPT !.include = {Pattern("middle", <<"src", "main">>)},
                              !.exclude = {Pattern("ellipsis", <<"test">>)}]) @@
    ("js" :> [Plain EXCEPT !.languages = {"js", "regex", "generic"},
                           !.exclude = {Pattern("none", <<"lib">>)}]) @@
    ("log4j" :> [Plain EXCEPT !.product = "sca", !.ecosystem = "maven"]) @@
    ("django" :> [Plain EXCEPT !.product = "sca", !.ecosystem = "pypi"])

\* Files.
Common == [ext |-> "python", script |-> "-", explicit |-> FALSE,
           skip |-> "selected", path |-> <<"src", "main">>]
MCFile ==
    ("main" :> Common) @@
    ("script" :> [Common EXCEPT !.ext = "none", !.script = "python",
                                !.path = <<"lib", "script">>]) @@
    ("hidden" :> [Common EXCEPT !.skip = "semgrepignored",
                                !.path = <<"test", "src", "main">>]) @@
    ("odd" :> [Common EXCEPT !.ext = "none", !.explicit = TRUE, !.path = <<"odd">>]) @@
    ("linked" :> [Common EXCEPT !.skip = "other"]) @@
    ("large" :> [Common EXCEPT !.skip = "size_limit", !.ext = "js", !.path = <<"lib", "large">>])

\* Documents.
Copy(name) == [name |-> name, origin |-> "pro", version |-> "ok", parses |-> "yes"]
Aged(name, v) == [Copy(name) EXCEPT !.version = v]
Odd(name, how) == [Copy(name) EXCEPT !.parses = how]
Sheet(rs) == [kind |-> "rules", valid |-> "yes", dir |-> "here", rules |-> rs]
NoSheet(kind) == [Sheet(<<>>) EXCEPT !.kind = kind]

From(kind, ds) == [kind |-> kind, docs |-> ds, fallback |-> {"d1"}, single |-> TRUE,
                   needsRepo |-> FALSE]

Default == [configs |-> <<From("file", {"d1"})>>,
            docs |-> [d \in Docs |-> Sheet(<<Copy("eval")>>)],
            offline |-> FALSE, repo |-> TRUE, rewrites |-> TRUE,
            severities |-> {"high", "low"}, excluded |-> {},
            ecosystems |-> {"pypi"}, found |-> {"django"}, skipUnknown |-> FALSE,
            rulePaths |-> TRUE, fragile |-> {}, rpcFails |-> FALSE, ux |-> "legacy"]

With(d1, d2, d3) == ("d1" :> d1) @@ ("d2" :> d2) @@ ("d3" :> d3)
All3 == {"d1", "d2", "d3"}

\* A folder of three documents with copies of the same rules, once more after
\* the Registry's; rules of other versions.
Overlap == With(Sheet(<<Copy("eval"), Copy("exec"), Copy("eval")>>),
                [Sheet(<<Copy("exec"), Copy("token")>>) EXCEPT !.dir = "there"],
                Sheet(<<Copy("token"), Aged("exec", "newer"), Copy("eval")>>))
Bad == {Sheet(<<Odd("eval", "no"), Copy("exec")>>),
        Sheet(<<Odd("eval", "language"), Copy("exec")>>),
        Sheet(<<Aged("eval", "garbage")>>), Sheet(<<Aged("eval", "older")>>),
        [Sheet(<<Copy("eval")>>) EXCEPT !.valid = "no"],
        [Sheet(<<Copy("eval")>>) EXCEPT !.valid = "core"],
        NoSheet("blank"), NoSheet("garbage")}

Folders ==
    {[Default EXCEPT !.docs = Overlap, !.configs = c, !.rewrites = w] :
        w \in BOOLEAN,
        c \in {<<From("folder", All3)>>,
               <<From("registry", {"d3"}), From("folder", All3)>>,
               <<From("folder", {"d1", "d3"}), From("registry", {"d2"})>>,
               <<From("folder", {}), From("folder", {"d2", "d3"})>>}}
Broke ==
    {[Default EXCEPT !.docs = With(b, Sheet(<<Copy("exec")>>), Sheet(<<Copy("token")>>)),
                     !.configs = <<From(k, IF k = "folder" THEN {"d1", "d2"} ELSE {"d1"}),
                                   From("file", {"d3"})>>,
                     !.excluded = {"exec"}] : k \in {"folder", "string"}, b \in Bad}
Servers ==
    {[Default EXCEPT !.configs = <<[From(k, {"d2"}) EXCEPT !.needsRepo = TRUE,
                                                           !.single = s],
                                   From("file", {"d3"})>>,
                     !.offline = o, !.repo = o, !.severities = {"high"}] :
        k \in {"registry", "url", "product", "missing"}, o \in BOOLEAN, s \in BOOLEAN}

\* Rules over files that go while the plans are made.
Rules(names) == Sheet([k \in DOMAIN names |-> Copy(names[k])])
Selection(names) ==
    [Default EXCEPT !.docs = [d \in Docs |-> Rules(names)],
                    !.fragile = {"main", "script", "hidden"}, !.ux = "detailed"]
Selections ==
    {Selection(names) :
        names \in {<<"token", "eval">>, <<"eval", "token", "old">>,
                   <<"paths", "token", "exec">>, <<"js", "django", "log4j">>,
                   <<"old", "token">>}}
    \cup {[Selection(<<"token", "js">>) EXCEPT !.skipUnknown = TRUE, !.ux = ux] :
              ux \in {"legacy", "minimal", "simple"}}
Steady == {[Default EXCEPT !.rpcFails = TRUE, !.docs = [d \in Docs |-> Rules(<<"paths", "js", "old">>)],
                           !.rulePaths = p, !.found = {}] : p \in BOOLEAN}

MCJobs == Folders \cup Broke \cup Servers \cup Selections \cup Steady
=============================================================================
