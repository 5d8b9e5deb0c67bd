----------------------------- MODULE Lockfiles -----------------------------
(***************************************************************************)
(* What the parsers in Python make of a lockfile and its manifest          *)
(* (semdep/parsers).                                                       *)
(*                                                                         *)
(* The contents of a file are a record of its sections, as its grammar     *)
(* gives them: in a lockfile a section is a set of entries, each with at   *)
(* least a name and a version, which may be missing; in a manifest, a set  *)
(* of names.  A file that its grammar does not accept is broken.           *)
(***************************************************************************)
EXTENDS Subprojects

CONSTANTS
    Contents,       \* of every lockfile and manifest that is parsed
    Lowered,        \* names that are not in lower case, in lower case
    Underscored,    \* names in lower case with hyphens, with underscores
    Alias           \* requirements that name a package: it, and its requirement

Missing == "-"

Has(file, section) == section \in DOMAIN Contents[file]
Section(file, section) == IF Has(file, section) THEN Contents[file][section] ELSE {}

\* PEP 426: case does not matter in the names of Python packages, nor whether
\* they have hyphens or underscores.
Lower(name) == IF name \in DOMAIN Lowered THEN Lowered[name] ELSE name
Sanitized(name) ==
    IF Lower(name) \in DOMAIN Underscored THEN Underscored[Lower(name)] ELSE Lower(name)

\* Without the names of a manifest, or when it has none, it is not known.
Transitivity(manifest, names) ==
    IF manifest = {} THEN "unknown"
    ELSE IF names \cap manifest # {} THEN "direct"
    ELSE "transitive"

Dep(name, ver, kind) == [pkg |-> name, ver |-> ver, kind |-> kind, path |-> TRUE]

\* What a parser finds, and whether it has an error of its own.
Found(deps) == [deps |-> deps, wrong |-> FALSE, raised |-> FALSE]
NoneFound == Found({})
WithErrors(deps, wrong) == [Found(deps) EXCEPT !.wrong = wrong]
Raised == [NoneFound EXCEPT !.raised = TRUE]

WithVersion(entries) == {e \in entries : e.ver # Missing}

\* The entries, each direct if the manifest has its name.
ByManifest(manifest, entries) ==
    {Dep(e.name, e.ver, Transitivity(manifest, {e.name})) : e \in entries}

-----------------------------------------------------------------------------
(* Each takes the lockfile, and the contents of the manifest, which has no  *)
(* sections if there is none or it could not be read.                       *)
NoManifest == <<>>
Declared(man, sections) == UNION {man[s] : s \in sections \cap DOMAIN man}

\* npm.  The path of an entry is that of the packages it is in.  In version 3
\* the manifest is in the lockfile, and all entries are in one list; before,
\* an entry is not looked into if it has no version.
NamesIn(pairs) == {p[1] : p \in pairs}

Reached(entries, e) ==
    \A n \in 1..(Len(e.path) - 1) :
        \E f \in WithVersion(entries) : f.path = SubSeq(e.path, 1, n)

ByPath(manifest, entries) ==
    {Dep(e.name, e.ver, IF Len(e.path) > 1 THEN "transitive"
                        ELSE Transitivity(manifest, {e.name})) : e \in entries}

PackageLock(lock, man) ==
    LET all == WithVersion(Section(lock, "dependencies"))
    IN  IF ~Has(lock, "lockfileVersion") THEN NoneFound
        ELSE IF Contents[lock].lockfileVersion # 3
        THEN Found(ByPath(NamesIn(Declared(man, {"dependencies", "devDependencies"})),
                          {e \in all : Reached(all, e)}))
        ELSE IF Has(lock, "packages") /\ ~Has(lock, "root") THEN Raised
        ELSE Found(ByPath(Section(lock, "root"), WithVersion(Section(lock, "packages"))))

\* yarn: an entry has the requirements it satisfies, and the name of the first;
\* the manifest has requirements as they are written, the names of aliases too.
DepVersionPair(source) ==
    IF source[2] \in DOMAIN Alias THEN Alias[source[2]] ELSE source

Satisfied(e) == [i \in DOMAIN e.sources |-> DepVersionPair(e.sources[i])]

Yarn(lock, man) ==
    LET manifest == Declared(man, {"dependencies", "devDependencies"})
    IN  Found({Dep(Satisfied(e)[1][1], e.ver, Transitivity(manifest, Range(Satisfied(e)))) :
                   e \in {e \in Section(lock, "entries") : e.sources # <<>>}})

\* pnpm: the packages of a workspace say what is direct, under other names up
\* to version 5.4; a package has a name and a version or else its key has.
DirectIn(version, importer) ==
    IF version <= 5 THEN importer.specifiers
    ELSE importer.dependencies \cup importer.devDependencies

WithKeys(packages) == {e \in packages : e.named \/ e.key}

Pnpm(lock, man) ==
    LET packages == Section(lock, "packages")
        readable == WithKeys(packages)
        direct == UNION {DirectIn(Contents[lock].lockfileVersion, i) :
                             i \in Section(lock, "importers")}
    IN  IF ~Has(lock, "lockfileVersion") THEN NoneFound
        ELSE WithErrors(ByManifest(direct, {e \in WithVersion(readable) : e.name # Missing}),
                        readable # packages)

\* Python.  The names are compared with those of the manifest by PEP 426.
ByPep426(manifest, entries) ==
    {Dep(Lower(e.name), e.ver, Transitivity({Sanitized(n) : n \in manifest},
                                            {Sanitized(e.name)})) : e \in entries}

Poetry(lock, man) ==
    Found(ByPep426(Declared(man, {"tool.poetry.dependencies"}),
                   WithVersion(Section(lock, "package"))))

Pipfile(lock, man) ==
    IF ~Has(lock, "default") THEN Raised
    ELSE Found(ByPep426(Declared(man, {"packages", "dev-packages"}),
                        WithVersion(Section(lock, "default"))))

\* A line is a pin if it has "==" once, with a version that has no star.
Pins(line) == SelectSeq(line.specs, LAMBDA s : s.op = "==" /\ ~s.star)

Requirements(lock, man) ==
    LET manifest == {l.name : l \in Declared(man, {"lines"})}
    IN  Found({Dep(Lower(l.name), Pins(l)[1].ver, Transitivity(manifest, {l.name})) :
                   l \in {l \in Section(lock, "lines") : Len(Pins(l)) = 1}})

-----------------------------------------------------------------------------
(* Ruby, Go and Rust.  A Gemfile.lock has its manifest in it, and what its  *)
(* packages need is indented further than they are.                         *)
GemfileLock(lock, man) ==
    Found(ByManifest(Section(lock, "DEPENDENCIES"),
                     {e \in Section(lock, "specs") : e.indent = 4}))

GoMod(lock, man) ==
    Found({Dep(e.name, e.ver, IF e.comment = " indirect" THEN "transitive" ELSE "direct") :
               e \in {e \in Section(lock, "require") :
                         <<e.name, e.ver>> \notin Section(lock, "exclude")}})

CargoLock(lock, man) ==
    Found({Dep(e.name, e.ver, "unknown") : e \in Section(lock, "package")})

\* The JVM.  In the tree of Maven what is at the root is direct; a dependency
\* that is there twice is one.
GradleLockfile(lock, man) ==
    Found(ByManifest(Declared(man, {"dependencies"}), Section(lock, "entries")))

PomTree(lock, man) ==
    Found({Dep(l.name, l.ver, IF l.depth > 0 THEN "transitive" ELSE "direct") :
               l \in Section(lock, "lines")})

\* PHP, .NET, Dart, Elixir and Swift.
ComposerLock(lock, man) ==
    Found(ByManifest(Declared(man, {"require"}),
                     WithVersion(Section(lock, "packages") \cup Section(lock, "packages-dev"))))

KindIn == ("Direct" :> "direct") @@ ("Transitive" :> "transitive")
PackagesLock(lock, man) ==
    Found({Dep(e.name, e.ver, IF e.type \in DOMAIN KindIn THEN KindIn[e.type] ELSE "unknown") :
               e \in WithVersion(Section(lock, "dependencies"))})

\* If a field of one package is missing, there are none.
PubspecKind(stated) ==
    CASE stated = "transitive" -> "transitive"
      [] stated \in {"direct main", "direct dev", "direct overridden"} -> "direct"
      [] OTHER -> "unknown"
PubspecLock(lock, man) ==
    LET packages == Section(lock, "packages")
    IN  IF \E e \in packages : Missing \in {e.ver, e.dependency} THEN NoneFound
        ELSE Found({Dep(e.name, e.ver, PubspecKind(e.dependency)) : e \in packages})

\* Without the dependencies of a manifest there are none.  A package from git
\* has a version if it is fetched by its tag.
Locked(packages) == {e \in packages : e.by \in {"hex", "tag"}}
MixLock(lock, man) ==
    IF Declared(man, {"deps"}) = {} THEN NoneFound
    ELSE Found(ByManifest({Lower(n) : n \in Declared(man, {"deps"})},
                          Locked(Section(lock, "packages"))))

\* A pin without a name, a state or a version is an error, the others are found.
Complete(pins) == {p \in pins : p.name # Missing /\ p.state /\ p.ver # Missing}
PackageResolved(lock, man) ==
    LET pins == Section(lock, "pins")
        good == Complete(pins)
    IN  IF ~Has(lock, "version") THEN WithErrors({}, TRUE)
        ELSE IF Contents[lock].version = 0 THEN NoneFound
        ELSE IF Contents[lock].version \notin 1..3 \/ ~Has(lock, "pins")
        THEN WithErrors({}, TRUE)
        ELSE WithErrors({Dep(Lower(p.name), p.ver,
                             Transitivity({Lower(n) : n \in Declared(man, {"dependencies"})},
                                          {Lower(p.name)})) :
                             p \in good},
                        good # pins)

-----------------------------------------------------------------------------
(* A source.                                                                *)

ParserOf(lock, man) ==
    CASE lock.name \in DOMAIN RequirementsIn -> Requirements(lock, man)
      [] lock.name = "package-lock.json" -> PackageLock(lock, man)
      [] lock.name = "yarn.lock" -> Yarn(lock, man)
      [] lock.name = "pnpm-lock.yaml" -> Pnpm(lock, man)
      [] lock.name = "poetry.lock" -> Poetry(lock, man)
      [] lock.name = "Pipfile.lock" -> Pipfile(lock, man)
      [] lock.name = "Gemfile.lock" -> GemfileLock(lock, man)
      [] lock.name = "go.mod" -> GoMod(lock, man)
      [] lock.name = "Cargo.lock" -> CargoLock(lock, man)
      [] lock.name = "gradle.lockfile" -> GradleLockfile(lock, man)
      [] lock.name = "maven_dep_tree.txt" -> PomTree(lock, man)
      [] lock.name = "composer.lock" -> ComposerLock(lock, man)
      [] lock.name = "packages.lock.json" -> PackagesLock(lock, man)
      [] lock.name = "pubspec.lock" -> PubspecLock(lock, man)
      [] lock.name = "mix.lock" -> MixLock(lock, man)
      [] lock.name = "Package.resolved" -> PackageResolved(lock, man)

\* The other parsers do not open the manifest; nor does that of Gradle, if it
\* is not in Groovy.
OpensManifest(src) ==
    /\ src.man # NoFile
    /\ src.lock.name \in DOMAIN RequirementsIn \cup
           {"package-lock.json", "yarn.lock", "poetry.lock", "Pipfile.lock",
            "gradle.lockfile", "composer.lock", "mix.lock", "Package.resolved"}
    /\ src.lock.name = "gradle.lockfile" => src.man.name = "build.gradle"

\* What a parser raises is the only error.
Outcome(result, lock, unread) ==
    [deps |-> result.deps,
     errs |-> IF result.raised THEN {lock}
              ELSE unread \cup IF result.wrong THEN {lock} ELSE {}]

\* A broken manifest is an error, and like none; a broken lockfile is an error,
\* and nothing is found.
ParseLockfile(src, broken) ==
    LET opened == {src.lock} \cup IF OpensManifest(src) THEN {src.man} ELSE {}
        man == IF src.man \in opened \ broken THEN Contents[src.man] ELSE NoManifest
    IN  Outcome(IF src.lock \in broken THEN NoneFound ELSE ParserOf(src.lock, man),
                src.lock, opened \cap broken)
=============================================================================
