----------------------------- MODULE MCScanRun -----------------------------
(***************************************************************************)
(* Instances of ScanRun: a plain scan of each mode, and diff scans over    *)
(* the shapes of project, checkout and scanning root that matter.          *)
(***************************************************************************)
EXTENDS ScanRun

MCReturnCodes == {2, -9}

Plain == [mode |-> "scan", pattern |-> FALSE, strict |-> FALSE, error |-> TRUE, keep |-> FALSE,
          autofix |-> TRUE, dryrun |-> FALSE, interfile |-> FALSE, baseline |-> FALSE,
          dirty |-> FALSE, subdir |-> FALSE, absolute |-> FALSE, renamed |-> FALSE,
          nosem |-> FALSE, head |-> 1, base |-> 0, added |-> 0,
          joins |-> <<>>, hits |-> {}]

PlainJobs == {[Plain EXCEPT !.mode = m, !.pattern = p, !.strict = s] :
                m \in {"scan", "ls", "dump", "validate"}, p \in BOOLEAN, s \in BOOLEAN}
             \cup {[Plain EXCEPT !.error = e, !.nosem = TRUE, !.keep = k, !.strict = s] :
                     e \in BOOLEAN, k \in BOOLEAN, s \in BOOLEAN}

\* Clean or dirty, relative or absolute, from the root or a sub-directory.
Checkouts == {[Plain EXCEPT !.baseline = TRUE, !.dirty = d, !.subdir = s, !.absolute = a] :
                d \in BOOLEAN, s \in BOOLEAN, a \in BOOLEAN}
\* Findings of "new" in the head and in the baseline, and whether the first
\* one carries a nosemgrep comment.
Counts == {<<1, 1, FALSE>>, <<2, 1, TRUE>>, <<1, 2, FALSE>>}
DiffJobs == {[j EXCEPT !.head = c[1], !.base = c[2], !.nosem = c[3], !.added = 1,
                       !.renamed = r, !.error = FALSE] :
               j \in {k \in Checkouts : ~k.subdir}, c \in Counts, r \in BOOLEAN}
            \cup {[j EXCEPT !.interfile = TRUE, !.dryrun = TRUE] : j \in Checkouts}

\* Join rules.  The text "uv" contains "u" and "v".
MCWithin == {<<s, s>> : s \in {"u", "v", "uv"}} \cup {<<"u", "uv">>, <<"v", "uv">>}

Hit(id, rule, x, y) == [id |-> id, rule |-> rule, vars |-> ("$X" :> x) @@ ("$Y" :> y)]
Calls == {Hit("c1", "call", "u", "v"), Hit("c2", "call", "v", "uv"), Hit("c3", "call", "uv", "w")}
HitSets ==
    {{Hit("i1", "input", "u", "v"), Hit("s1", "sink", "u", "w"), Hit("s2", "sink", "uv", "u")},
     {Hit("i1", "input", "v", "u"), Hit("i2", "input", "w", "u"),
      [Hit("s1", "sink", "u", "w") EXCEPT !.vars = ("$Y" :> "w")]},
     {Hit("i1", "input", "u", "v"), Hit("s1", "sink", "w", "u")} \cup Calls,
     {Hit("i1", "input", "u", "v"), Hit("s1", "sink", "w", "u"), Hit("c1", "call", "u", "v"),
      [Hit("c2", "call", "v", "-") EXCEPT !.vars = ("$X" :> "v")],
      [Hit("c3", "call", "-", "w") EXCEPT !.vars = ("$Y" :> "w")]}}

As(rule, name) == [rule |-> rule, as |-> name, renames |-> << >>]
Refs == <<As("input", "in"), As("sink", "out"), As("call", "call")>>
Cond(a, pa, op, b, pb) == [a |-> a, pa |-> pa, op |-> op, b |-> b, pb |-> pb]
On(conds) == [refs |-> Refs, on |-> conds, loads |-> TRUE, parses |-> TRUE]
Simple2 == On(<<Cond("in", "$X", "~", "out", "$X")>>)
Simple == {On(<<Cond("in", "$X", op, "out", "$X")>>) : op \in {"==", "!=", "~", ">"}}
Chained == On(<<Cond("call", "$X", "-->", "call", "$Y"), Cond("in", "$X", "==", "call", "$X"),
                Cond("call", "$Y", "==", "out", "$X")>>)
Swapped == [On(<<Cond("in", "$X", "==", "out", "$Z"), Cond("out", "$Z", "!=", "in", "$Y")>>)
              EXCEPT !.refs[2].renames = ("$Y" :> "$Z")]
Wrong == {[Chained EXCEPT !.parses = FALSE], [Chained EXCEPT !.loads = FALSE],
          On(SubSeq(Chained.on, 1, 1)), On(<<Cond("in", "$X", "-->", "out", "$X")>>),
          On(<<Cond("input", "$X", "==", "out", "$X")>>), On(<<Cond("in", "$X", "==", "out", "$Z")>>),
          On(SubSeq(Chained.on, 1, 2) \o <<Cond("call", "path", "==", "out", "$X")>>)}

\* Two names of a rule, and two chains of a collection.
Odd == {[On(<<Cond("in", "$X", "==", "too", "$X")>>) EXCEPT !.refs[2] = As("input", "too")],
        On(<<Cond("call", "$X", "-->", "call", "$Y"), Cond("call", "$Y", "-->", "call", "$X"),
             Cond("call", "$Y", "==", "in", "$X")>>)}

Joins == {<<r>> : r \in Simple \cup Wrong \cup Odd \cup {Chained, Swapped}}
         \cup {<<Swapped, Simple2>>, <<Chained, Swapped>>}
JoinJobs == {[Plain EXCEPT !.joins = js, !.hits = hs, !.head = 0, !.autofix = FALSE] :
               js \in Joins, hs \in HitSets}
            \cup {[Plain EXCEPT !.joins = <<Swapped>>, !.baseline = TRUE,
                                !.hits = {Hit("i1", "input", "u", "v"), Hit("s1", "sink", "w", "u")}]}

MCJobs == PlainJobs \cup DiffJobs \cup JoinJobs
=============================================================================
