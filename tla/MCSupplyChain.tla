--------------------------- MODULE MCSupplyChain ---------------------------
(* Four repositories, each with what varies in it.                          *)
EXTENDS SupplyChain

Root == <<>>
A == <<"a">>
B == <<"a", "b">>
C == <<"c">>

Lodash == Dep("lodash", "bad", "direct")
Inner == Dep("lodash-es", "bad", "transitive")
Fixed == Dep("lodash", "fixed", "direct")
Django == Dep("django", "bad", "direct")
Orm == Dep("orm", "bad", "transitive")
Lost == [Dep("orm", "bad", "direct") EXCEPT !.path = FALSE]
Odd == Dep("mod", "odd", "direct")
Log4j == Dep("log4j", "bad", "direct")
Pkg == Dep("pkg", "bad", "unknown")

\* The lockfiles of a repository of other languages, with a package of their own.
OtherLocks == {At(Root, name) : name \in
    {"Gemfile.lock", "Cargo.lock", "composer.lock", "packages.lock.json", "pubspec.lock",
     "mix.lock", "Package.resolved", "Pipfile.lock"}} \cup
    {At(A, name) : name \in {"pnpm-lock.yaml", "poetry.lock", "go.mod", "Package.resolved"}} \cup
    {At(B, name) : name \in {"gradle.lockfile", "yarn.lock", "pnpm-lock.yaml"}} \cup
    {At(C, name) : name \in {"package-lock.json", "pubspec.lock", "mix.lock"}}
\* Of these nothing is installed: what they name is needed by others, for
\* development only, or excluded.
NoLocks == {At(A, "Gemfile.lock"), At(A, "Pipfile.lock"), At(B, "Pipfile.lock"),
            At(B, "go.mod")}

\* What the files declare: by their folders, so that they can be told apart.
MCDeps ==
    (At(Root, "package-lock.json") :> {Lodash, Inner}) @@
    (At(A, "package-lock.json") :> {Inner, Fixed}) @@
    (At(A, "bun.lock") :> {Lodash}) @@
    (At(B, "yarn.lock") :> {Inner, Pkg}) @@
    (At(Root, "requirements.txt") :> {Django, Orm}) @@
    (At(<<"requirements">>, "dev.txt") :> {Orm, Lost}) @@
    (At(A, "uv.lock") :> {Django}) @@
    (At(B, "setup.py") :> {Orm}) @@
    (At(Root, "go.mod") :> {Odd}) @@
    (At(Root, "maven_dep_tree.txt") :> {Log4j}) @@
    (At(A, "pom.xml") :> {Log4j}) @@
    (At(Root, "build.gradle") :> {Log4j}) @@
    (At(A, "build.gradle") :> {}) @@
    (At(B, "build.gradle") :> {Log4j}) @@
    (At(B, "settings.gradle") :> {}) @@
    (At(A, "gradle.lockfile") :> {Log4j}) @@
    [f \in OtherLocks |-> {Pkg}] @@
    [f \in NoLocks |-> {}]

\* What is written in them.
Entry(name, ver) == [name |-> name, ver |-> ver]
In(path, ver) == [name |-> Last(path), ver |-> ver, path |-> path]
Line(name, op, ver) ==
    [name |-> name, specs |-> <<[op |-> ">=", ver |-> "any", star |-> FALSE],
                                [op |-> op, ver |-> ver, star |-> FALSE]>>]
By(name, ver, field, value) == Entry(name, ver) @@ (field :> value)
Importer(names) == [specifiers |-> names, dependencies |-> names, devDependencies |-> {}]
Pinned(name, state, ver) == [name |-> name, state |-> state, ver |-> ver]

MCContents ==
    (At(Root, "package-lock.json") :>
        [lockfileVersion |-> 3, root |-> {"lodash"},
         packages |-> {[name |-> "app", ver |-> "fixed", path |-> <<>>],
                       In(<<"lodash">>, "bad"), In(<<"x">>, Missing),
                       In(<<"lodash", "lodash-es">>, "bad")}]) @@
    (At(A, "package-lock.json") :>
        [lockfileVersion |-> 1,
         dependencies |-> {In(<<"lodash">>, "fixed"), In(<<"x">>, "1"), In(<<"y">>, Missing),
                           In(<<"x", "lodash-es">>, "bad")}]) @@
    (At(A, "package.json") :> [dependencies |-> {<<"lodash", "^4">>, <<"pkg", "^1">>},
                               devDependencies |-> {<<"x", "^1">>}]) @@
    (At(B, "package.json") :> [dependencies |-> {<<"pkg", "^1">>, <<"alias", "lodash-es@^4">>}]) @@
    (At(B, "yarn.lock") :>
        [entries |-> {[sources |-> <<<<"alias", "lodash-es@^4">>, <<"lodash-es", "^4">>>>, ver |-> "bad"],
                      [sources |-> <<<<"pkg", "^1">>>>, ver |-> "bad"]}]) @@
    (At(A, "pnpm-lock.yaml") :>
        [lockfileVersion |-> 9, importers |-> {Importer({"pkg"}), Importer({})},
         packages |-> {[name |-> "pkg", ver |-> "bad", named |-> FALSE, key |-> TRUE],
                       [name |-> "x", ver |-> Missing, named |-> TRUE, key |-> TRUE]}]) @@
    (At(B, "pnpm-lock.yaml") :>
        [lockfileVersion |-> 5, importers |-> {Importer({"pkg"})},
         packages |-> {[name |-> "pkg", ver |-> "bad", named |-> TRUE, key |-> FALSE],
                       [name |-> Missing, ver |-> Missing, named |-> FALSE, key |-> FALSE]}]) @@
    (At(Root, "requirements.txt") :>
        [lines |-> {Line("Django", "==", "bad"), Line("orm", "==", "bad"), Line("x", "<=", "bad")}]) @@
    (At(Root, "requirements.in") :> [lines |-> {Line("Django", ">=", "1")}]) @@
    (At(<<"requirements">>, "dev.txt") :> [lines |-> {Line("orm", "==", "bad"),
                                                       Line("django", "<=", "bad")}]) @@
    (At(A, "poetry.lock") :> [package |-> {Entry("Pkg", "bad"), Entry("typing-extensions", "1")}]) @@
    (At(A, "pyproject.toml") :> ("tool.poetry.dependencies" :> {"pkg", "typing_extensions"})) @@
    (At(Root, "Pipfile.lock") :> [default |-> {Entry("pkg", "bad"), Entry("x", Missing)},
                                  develop |-> {Entry("pkg", "fixed")}]) @@
    (At(A, "Pipfile.lock") :> [default |-> {}, develop |-> {Entry("pkg", "bad")}]) @@
    (At(B, "Pipfile.lock") :> [develop |-> {Entry("pkg", "bad")}]) @@
    (At(Root, "Pipfile") :> [packages |-> {"pkg"}]) @@
    (At(Root, "Gemfile.lock") :>
        [specs |-> {By("pkg", "bad", "indent", 4), By("x", "1", "indent", 4)},
         DEPENDENCIES |-> {"pkg"}]) @@
    (At(A, "Gemfile.lock") :>
        [specs |-> {By("pkg", "bad", "indent", 6), By("x", "1", "indent", 4)},
         DEPENDENCIES |-> {"x"}]) @@
    (At(Root, "go.mod") :> [require |-> {By("mod", "odd", "comment", "-")}]) @@
    (At(A, "go.mod") :> [require |-> {By("pkg", "bad", "comment", " indirect"),
                                      By("x", "1", "comment", "-")},
                         exclude |-> {<<"x", "1">>}]) @@
    (At(B, "go.mod") :> [require |-> {By("pkg", "bad", "comment", "-")},
                         exclude |-> {<<"pkg", "bad">>}]) @@
    (At(Root, "Cargo.lock") :> [package |-> {Entry("pkg", "bad")}]) @@
    (At(Root, "maven_dep_tree.txt") :> [lines |-> {By("log4j", "bad", "depth", 0),
                                                   By("log4j", "bad", "depth", 2)}]) @@
    (At(A, "gradle.lockfile") :> [entries |-> {Entry("log4j", "bad")}]) @@
    (At(B, "gradle.lockfile") :> [entries |-> {Entry("pkg", "bad")}]) @@
    (At(A, "build.gradle") :> [dependencies |-> {"log4j"}]) @@
    (At(Root, "composer.lock") :> (("packages" :> {Entry("x", Missing)}) @@
                                   ("packages-dev" :> {Entry("pkg", "bad")}))) @@
    (At(Root, "composer.json") :> [require |-> {"x"}]) @@
    (At(Root, "packages.lock.json") :>
        [dependencies |-> {By("pkg", "bad", "type", "CentralTransitive"),
                           By("x", Missing, "type", "Project")}]) @@
    (At(Root, "pubspec.lock") :> [packages |-> {By("pkg", "bad", "dependency", "direct main"),
                                                By("x", "1", "dependency", "transitive")}]) @@
    (At(Root, "mix.lock") :> [packages |-> {By("pkg", "bad", "by", "tag"),
                                            By("x", "1", "by", "ref")}]) @@
    (At(C, "package-lock.json") :> [dependencies |-> {In(<<"pkg">>, "bad")}]) @@
    (At(C, "pubspec.lock") :> [packages |-> {By("pkg", "bad", "dependency", "direct main"),
                                             By("x", Missing, "dependency", "transitive")}]) @@
    (At(C, "mix.lock") :> [packages |-> {By("pkg", "bad", "by", "hex")}]) @@
    (At(Root, "mix.exs") :> [deps |-> {"Pkg"}]) @@
    (At(Root, "Package.resolved") :> [version |-> 2, pins |-> {Pinned("Pkg", TRUE, "bad")}]) @@
    (At(A, "Package.resolved") :> [version |-> 1, pins |-> {Pinned("Pkg", TRUE, "bad"),
                                                            Pinned("x", TRUE, Missing)}]) @@
    (At(Root, "Package.swift") :> [dependencies |-> {"pkg"}])

MCLowered == ("Pkg" :> "pkg") @@ ("Django" :> "django")
MCUnderscored == "typing-extensions" :> "typing_extensions"
MCAlias == "lodash-es@^4" :> <<"lodash-es", "^4">>

Rule_(name, langs, ecos, pkgs, code) ==
    [name |-> name, langs |-> langs, ecos |-> ecos, code |-> code, ok |-> TRUE,
     pats |-> {[eco |-> e, pkg |-> p] : e \in ecos, p \in pkgs}]
Js == Rule_("js", {"js"}, {"npm"}, {"lodash", "lodash-es"}, TRUE)
JsUpgrade == Rule_("js-upgrade", {"js"}, {"npm"}, {"lodash-es"}, FALSE)
Py == Rule_("py", {"python"}, {"pypi"}, {"django", "orm"}, TRUE)
Go == Rule_("go", {"go"}, {"gomod"}, {"mod"}, FALSE)
Java == Rule_("java", {"java", "js"}, {"maven", "npm"}, {"log4j", "lodash-es"}, TRUE)
AnyRule == Rule_("any", {}, {"npm", "pypi", "gem", "gomod", "cargo", "maven", "composer", "nuget",
                         "pub", "hex", "swiftpm"}, {"pkg"}, FALSE)

Code(dir, lang, hit) == [dir |-> dir, lang |-> lang, hit |-> hit]

Default == [files |-> {}, changed |-> {}, code |-> {}, rules |-> <<>>, broken |-> {},
            all |-> FALSE, builds |-> FALSE, ptt |-> FALSE, tr |-> FALSE]

Npm == {At(Root, "package-lock.json"), At(Root, "package.json"),
        At(A, "package-lock.json"), At(A, "package.json"), At(A, "bun.lock")}
Pip == {At(Root, "requirements.txt"), At(<<"requirements">>, "dev.txt"),
        At(Root, "requirements.in"), At(A, "uv.lock"), At(A, "pyproject.toml"),
        At(B, "setup.py")}
Jvm == {At(Root, "maven_dep_tree.txt"), At(Root, "pom.xml"), At(A, "pom.xml"),
        At(Root, "go.mod")}
Gradle == {At(Root, "build.gradle"), At(A, "build.gradle"), At(B, "build.gradle")}

NpmScans ==
    {[Default EXCEPT !.files = fs, !.changed = changed, !.code = code,
                     !.rules = rules, !.tr = tr, !.broken = broken] :
        fs \in {Npm, Npm \cup {At(B, "yarn.lock")}, Npm \ {At(A, "package-lock.json")}},
        changed \in {{}, {At(Root, "package.json")}, Npm},
        code \in {{Code(A, "js", TRUE)}, {Code(B, "js", TRUE), Code(Root, "js", FALSE)}},
        rules \in {<<Js, JsUpgrade>>, <<Java, Js>>},
        tr \in BOOLEAN, broken \in {{}, {At(A, "package-lock.json")}}}

PipScans ==
    {[Default EXCEPT !.files = fs, !.changed = fs, !.code = {Code(B, "python", TRUE)},
                     !.rules = <<Py>>, !.tr = tr, !.builds = builds, !.ptt = ptt,
                     !.all = TRUE, !.broken = broken] :
        fs \in {Pip, Pip \ {At(Root, "requirements.in")}},
        tr \in BOOLEAN, builds \in BOOLEAN, ptt \in BOOLEAN,
        broken \in {{}, {At(<<"requirements">>, "dev.txt")}, {At(A, "uv.lock")}}}

JvmScans ==
    {[Default EXCEPT !.files = fs, !.changed = {At(Root, "build.gradle"), At(Root, "pom.xml")},
                     !.code = {Code(A, "java", TRUE)}, !.rules = rules, !.builds = builds] :
        fs \in {Jvm \cup Gradle, Gradle \cup {At(A, "gradle.lockfile")},
                   Gradle \cup {At(B, "settings.gradle")}},
        rules \in {<<Java>>, <<Go, Java>>, <<[Java EXCEPT !.ok = FALSE]>>},
        builds \in BOOLEAN}

Manifests == {At(Root, name) : name \in
    {"composer.json", "*.csproj", "mix.exs", "Package.swift", "Pipfile"}} \cup
    {At(A, "package.json"), At(A, "pyproject.toml"), At(B, "package.json"),
     At(B, "build.gradle.kts")}
OtherScans ==
    {[Default EXCEPT !.files = OtherLocks \cup NoLocks \cup mans, !.all = TRUE, !.rules = <<AnyRule>>,
                     !.ptt = ptt, !.broken = broken] :
        mans \in {Manifests, {At(Root, "mix.exs")}}, ptt \in BOOLEAN,
        broken \in {{}, {At(Root, "Pipfile"), At(Root, "mix.exs"), At(Root, "Package.swift"),
                         At(A, "pyproject.toml")},
                    {At(Root, "Pipfile.lock"), At(Root, "pubspec.lock"), At(A, "pnpm-lock.yaml")}}}

MCScans == NpmScans \cup PipScans \cup JvmScans \cup OtherScans
=============================================================================
