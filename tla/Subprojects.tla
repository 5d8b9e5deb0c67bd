---------------------------- MODULE Subprojects ----------------------------
(***************************************************************************)
(* How lockfiles and manifests become subprojects (semdep/matchers), which *)
(* of them a diff scan looks at (resolve_subprojects.py), and which one a  *)
(* source file belongs to (subproject.py).                                 *)
(*                                                                         *)
(* A file is a folder, a sequence of names, and a name.  A dependency      *)
(* source is a manifest with a lockfile, either of which may be missing; a *)
(* subproject has several only if it is a group of pip requirements.       *)
(***************************************************************************)
EXTENDS Integers, Sequences, FiniteSets, SequencesExt, ListOps, TLC

At(dir, name) == [dir |-> dir, name |-> name]
NoFile == At(<<>>, "-")

Source(man, lock) == [man |-> man, lock |-> lock]
Subproject(root, eco, srcs) == [root |-> root, eco |-> eco, srcs |-> srcs]

-----------------------------------------------------------------------------
(* The matchers.  Each gives the subprojects it makes of some files, and   *)
(* the files it used.                                                      *)

Pair(lock, man, eco) ==
    [form |-> "pair", lock |-> lock, man |-> man, eco |-> eco, lone |-> FALSE]
Lone(man, eco) == [Pair("-", man, eco) EXCEPT !.form = "lone"]
Special(form, eco) == [Pair("-", "-", eco) EXCEPT !.form = form]

\* In the order in which they are tried.
MATCHERS == <<
    Special("pip", "pypi"),
    Pair("bun.lock", "package.json", "npm"),
    Pair("bun.lockb", "package.json", "npm"),
    Pair("package-lock.json", "package.json", "npm"),
    Pair("yarn.lock", "package.json", "npm"),
    Pair("pnpm-lock.yaml", "package.json", "npm"),
    Pair("Gemfile.lock", "Gemfile", "gem"),
    Pair("go.mod", "go.mod", "gomod"),
    Pair("Cargo.lock", "Cargo.toml", "cargo"),
    Pair("maven_dep_tree.txt", "pom.xml", "maven"),
    Lone("pom.xml", "maven"),
    Special("gradle", "maven"),
    Pair("composer.lock", "composer.json", "composer"),
    [Pair("packages.lock.json", "*.csproj", "nuget") EXCEPT !.lone = TRUE],
    Pair("pubspec.lock", "pubspec.yaml", "pub"),
    Pair("Package.resolved", "Package.swift", "swiftpm"),
    Pair("mix.lock", "mix.exs", "hex"),
    Pair("Pipfile.lock", "Pipfile", "pypi"),
    Pair("poetry.lock", "pyproject.toml", "pypi"),
    Pair("uv.lock", "pyproject.toml", "pypi"),
    Lone("setup.py", "pypi"),
    Lone("build.sbt", "maven") >>

Made(subs, used) == [subs |-> SetToSeq(subs), used |-> used]

Named(files, name) == {f \in files : f.name = name}

\* A manifest next to the lockfile, if there is one.
ManifestOf(lock, name, files) ==
    IF At(lock.dir, name) \in files THEN At(lock.dir, name) ELSE NoFile

\* LockfileManifestMatcher: a lockfile with its manifest, then the manifests
\* left if the matcher makes subprojects of them.
MakePairs(m, files) ==
    LET locks == Named(files, m.lock)
        paired == {ManifestOf(l, m.man, files) : l \in locks} \ {NoFile}
        alone == IF m.lone THEN Named(files, m.man) \ paired ELSE {}
    IN  Made({Subproject(l.dir, m.eco, <<Source(ManifestOf(l, m.man, files), l)>>) : l \in locks}
                \cup {Subproject(f.dir, m.eco, <<Source(f, NoFile)>>) : f \in alone},
             paired \cup alone \cup locks)

\* ManifestOnlyMatcher.
MakeLone(m, files) ==
    LET mans == Named(files, m.man)
    IN  Made({Subproject(f.dir, m.eco, <<Source(f, NoFile)>>) : f \in mans}, mans)

\* Requirements are named so, or kept in a folder that is; the .in of each.
RequirementsIn == [name \in {"requirements.txt", "requirements-dev.txt", "dev.txt"} |->
    CASE name = "requirements.txt" -> "requirements.in"
      [] name = "requirements-dev.txt" -> "requirements-dev.in"
      [] name = "dev.txt" -> "dev.in"]
Mentioned(f) == f.name \notin {"dev.txt", "dev.in"} \/ "requirements" \in Range(f.dir)

\* The parent of a folder of requirements, else the folder of the file.
RequirementsRoot(f) ==
    IF "requirements" \in Range(f.dir)
    THEN SubSeq(f.dir, 1, SelectInSeq(f.dir, LAMBDA d : d = "requirements") - 1)
    ELSE f.dir

\* PipRequirementsMatcher: the requirements of a root together, each with the
\* .in of its stem beside it, or with the requirements.in of the root.
InOf(req, files) ==
    LET beside == At(req.dir, RequirementsIn[req.name])
    IN  IF beside \in files THEN beside
        ELSE ManifestOf(At(RequirementsRoot(req), "-"), "requirements.in", files)

MakePip(files) ==
    LET reqs == {f \in files : f.name \in DOMAIN RequirementsIn /\ Mentioned(f)}
        ins == {f \in files : f.name \in Range(RequirementsIn) /\ Mentioned(f)}
        Of(root) == {Source(InOf(f, files), f) : f \in {f \in reqs : RequirementsRoot(f) = root}}
    IN  Made({Subproject(root, "pypi", SetToSeq(Of(root))) :
                  root \in {RequirementsRoot(f) : f \in reqs}},
             ins \cup reqs)

\* GradleMatcher: lockfiles, then settings, then the build files that are in
\* no subproject yet, which are taken in the order of a set.
Builds == <<"build.gradle", "build.gradle.kts">>
Settings == <<"settings.gradle", "settings.gradle.kts">>
FirstOf(names, dir, files) ==
    LET there == Only(names, {n \in Range(names) : At(dir, n) \in files})
    IN  IF there = <<>> THEN NoFile ELSE At(dir, Head(there))

Within(roots, dir) == \E root \in roots : IsPrefix(root, dir)

\* The build files that may become subprojects: one that is in no root yet does
\* unless it is in the folder of one that was taken before it, so that deeper
\* ones may be taken too, but of a folder only one.
Taken(builds, roots) ==
    LET free == {b \in builds : ~Within(roots, b.dir)}
    IN  {taken \in SUBSET free : \A b \in free :
            IF b \in taken THEN \A t \in taken : t.dir = b.dir => t = b
            ELSE Within({t.dir : t \in taken}, b.dir)}

MakeGradle(files) ==
    LET Build(dir) == FirstOf(Builds, dir, files)
        Setting(dir) == FirstOf(Settings, dir, files)
        locks == Named(files, "gradle.lockfile")
        locked == {l.dir : l \in locks}
        settings == {f \in files : /\ f.name \in Range(Settings)
                                   /\ f \notin {Setting(d) : d \in locked}}
        used == {Build(f.dir) : f \in locks \cup settings} \cup
                {Setting(d) : d \in locked} \cup settings \cup locks
        rest == {f \in files : f.name \in Range(Builds)} \ used
        First(a, b) == IF a = NoFile THEN b ELSE a
        made == {Subproject(l.dir, "maven", <<Source(First(Build(l.dir), Setting(l.dir)), l)>>)
                     : l \in locks} \cup
                {Subproject(f.dir, "maven", <<Source(First(Build(f.dir), f), NoFile)>>)
                     : f \in settings}
        With(builds) ==
            Made(made \cup {Subproject(b.dir, "maven", <<Source(b, NoFile)>>) : b \in builds},
                 (used \cup builds) \ {NoFile})
    IN  {With(builds) : builds \in Taken(rest, locked \cup {f.dir : f \in settings})}

\* What a matcher may make of these files.
Makes(m, files) ==
    CASE m.form = "pip" -> {MakePip(files)}
      [] m.form = "pair" -> {MakePairs(m, files)}
      [] m.form = "lone" -> {MakeLone(m, files)}
      [] m.form = "gradle" -> MakeGradle(files)

-----------------------------------------------------------------------------
(* What is asked of a subproject *)

Lockfile(src) == src.lock # NoFile
\* A source is known by its lockfile, if it has one.
Display(src) == IF Lockfile(src) THEN src.lock ELSE src.man
DisplayPaths(sub) == {Display(src) : src \in Range(sub.srcs)}

SourceFiles(sub) == (UNION {{src.man, src.lock} : src \in Range(sub.srcs)}) \ {NoFile}

\* The kind of a source is that of its manifest and of its lockfile, and that
\* of a group is the one of its first source.
Kind(src) ==
    LET Sort(name) == IF name \in DOMAIN RequirementsIn THEN "requirements.txt"
                      ELSE IF name \in Range(RequirementsIn) THEN "requirements.in"
                      ELSE name
    IN  <<Sort(src.man.name), Sort(src.lock.name)>>
KindOf(sub) == Kind(Head(sub.srcs))

\* The subprojects of an ecosystem that have a file's folder in them, and of
\* those the one with the longest root, the first if there are several.
Around(dir, eco, subs) ==
    SelectSeq(subs, LAMBDA s : s.eco = eco /\ IsPrefix(s.root, dir))
NoSub == Subproject(<<>>, "-", <<>>)

Closest(dir, eco, subs) ==
    LET cands == Around(dir, eco, subs)
        Best(s) == \A t \in Range(cands) : Len(t.root) <= Len(s.root)
    IN  IF cands = <<>> THEN NoSub ELSE Head(SelectSeq(cands, Best))

\* HashableSubproject: two subprojects are the same if root and ecosystem are.
Hash(sub) == <<sub.root, sub.eco>>

\* filter_changed_subprojects: those with a changed source file; and if those
\* are not all, the closest ones of the changed code, for all the ecosystems
\* that the rules of its language have.
EcosystemsOf(lang, rules) ==
    UNION {r.ecos : r \in {r \in Range(rules) : lang \in r.langs}}

ByFile(changed, subs) ==
    {Hash(s) : s \in {s \in Range(subs) : SourceFiles(s) \cap changed # {}}}
ByCode(code, rules, subs) ==
    (UNION {{Hash(Closest(c.dir, eco, subs)) : eco \in EcosystemsOf(c.lang, rules)} :
                c \in code}) \ {Hash(NoSub)}

\* Mutant of Relevant: the closest subproject of the code is not looked for.
ChangedOnly(changed, code, rules, subs) == ByFile(changed, subs)

Relevant(changed, code, rules, subs) ==
    LET byFile == ByFile(changed, subs)
    IN  IF Cardinality(byFile) = Len(subs) THEN byFile
        ELSE byFile \cup ByCode(code, rules, subs)
=============================================================================
