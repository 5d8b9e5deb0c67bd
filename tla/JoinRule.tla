------------------------------ MODULE JoinRule ------------------------------
(***************************************************************************)
(* Rules of mode "join" (semgrep/join_rule.py, run_scan.py:535): the rules *)
(* they refer to are run by a scan of its own, whose findings become the   *)
(* rows of an in-memory database, a table for each rule and a column for   *)
(* each metavariable; the rule reports the findings of the last collection *)
(* for which the conditions hold.  The database is one of the process.     *)
(***************************************************************************)
EXTENDS Integers, FiniteSets, SequencesExt

CONSTANT Within     \* <<u, v>>: the text u occurs in the text v

VARIABLE join       \* the join rules of a pass: [n, at, results, errs, open, tables, done,
                    \* found, told]

NoJoin == [n |-> 0, at |-> "refs", results |-> {}, errs |-> {}, open |-> FALSE,
           tables |-> << >>, done |-> {}, found |-> <<>>, told |-> <<>>]

Null == "NULL"

-----------------------------------------------------------------------------
\* A rule is [refs, on, loads, parses]: a reference is [rule, as, renames],
\* and the last of a name counts; an inline rule is a reference under its own
\* name, after the others.

Ref(r, name) == SelectLastInSeq(r.refs, LAMBDA ref : ref.as = name)
RuleOf(r, name) == r.refs[Ref(r, name)].rule
RulesOf(r) == {ref.rule : ref \in ToSet(r.refs)}

Collections(on) == {c.a : c \in ToSet(on)} \cup {c.b : c \in ToSet(on)}
Recursive(on) == {k \in DOMAIN on : on[k].op = "-->"}
Normal(on) == DOMAIN on \ Recursive(on)
LastOf(on) == on[Max(Normal(on))]

\* rename_metavars_in_place: the metavariables of a finding under the names of
\* the last reference to its rule.
RenamedVars(r, f) ==
    LET names == r.refs[SelectLastInSeq(r.refs, LAMBDA ref : ref.rule = f.rule)].renames
        New(v) == IF v \in DOMAIN names THEN names[v] ELSE v
    IN  [v \in {New(w) : w \in DOMAIN f.vars} |->
            f.vars[CHOOSE w \in DOMAIN f.vars : New(w) = v]]

\* create_model_map, load_results_into_db
Row(r, f) == [raw |-> f.id, cols |-> RenamedVars(r, f)]
Table(rows) == [columns |-> UNION {DOMAIN row.cols : row \in rows}, rows |-> rows]
Tables(r, results) ==
    [x \in {f.rule : f \in results} |-> Table({Row(r, f) : f \in {f \in results : f.rule = x}})]

Field(row, v) == IF v \in DOMAIN row.cols THEN row.cols[v] ELSE Null

\* evaluate_condition; nothing holds of a NULL.
Holds(op, u, v) ==
    /\ u # Null /\ v # Null
    /\ CASE op = "==" -> u = v
         [] op = "!=" -> u # v
         [] op = ">" -> <<v, u>> \in Within
         [] op \in {"~", "<"} -> <<u, v>> \in Within

-----------------------------------------------------------------------------

\* Mutant of Closure: a chain has one link or two.
TwoLinks(pairs) ==
    pairs \cup {<<pq[1][1], pq[2][2]>> : pq \in {pq \in pairs \X pairs : pq[1][2] = pq[2][1]}}

\* generate_recursive_cte: the pairs of each chain's first value and last.
Extended(known, pairs) ==
    known \cup {<<pq[1][1], pq[2][2]>> : pq \in
                   {pq \in known \X pairs : pq[1][2] = pq[2][1] /\ pq[1][2] # Null}}
Closure(pairs) ==
    LET reach[k \in 0 .. Cardinality(pairs)] ==
            IF k = 0 THEN pairs ELSE Extended(reach[k - 1], pairs)
    IN  reach[Cardinality(pairs)]

\* Every row of a recursive collection, once for each chain that ends in its
\* value, with the first value of the chain; other columns are gone.  (A row
\* without a value there is left with NULLs, and no condition selects it.)
Recurse(table, c) ==
    LET chains == Closure({<<Field(row, c.pa), Field(row, c.pb)>> : row \in table.rows})
        Ending(row) == {p \in chains : p[2] = Field(row, c.pb) /\ p[2] # Null}
        New(row, p) == [raw |-> row.raw,
                        cols |-> [v \in {c.pa, c.pb} |-> IF v = c.pa THEN p[1] ELSE p[2]]]
    IN  [columns |-> {c.pa, c.pb},
         rows |-> UNION {{New(row, p) : p \in Ending(row)} : row \in table.rows}]

\* match_on_conditions: the rows of the last condition's right side for which
\* rows of the other collections exist.
Query(r, tables) ==
    LET RowsOf(name) == tables[RuleOf(r, name)].rows
        Picks == {pick \in [Collections(r.on) -> UNION {RowsOf(n) : n \in Collections(r.on)}] :
                     \A n \in DOMAIN pick : pick[n] \in RowsOf(n)}
        Fit(pick, c) == Holds(c.op, Field(pick[c.a], c.pa), Field(pick[c.b], c.pb))
    IN  {pick[LastOf(r.on).b].raw : pick \in
            {pick \in Picks : \A k \in Normal(r.on) : Fit(pick, r.on[k])}}

-----------------------------------------------------------------------------

Raised == join' = [join EXCEPT !.at = "raised"]
Reports(found, errs) ==
    join' = [NoJoin EXCEPT !.n = join.n + 1, !.told = join.told \o errs,
                           !.found = Append(join.found, [of |-> join.results, ids |-> found,
                                                         errs |-> join.errs])]

\* A config that cannot be resolved or has no rule, or an inline rule that is
\* none, is an exception; a condition that does not parse is an error.
ResolveRefs(r) ==
    /\ join.at = "refs"
    /\ IF ~r.loads THEN Raised
       ELSE IF ~r.parses THEN Reports({}, <<"condition">>)
       ELSE join' = [join EXCEPT !.at = "scan"]

\* run_scan_and_return_json: a file in error may have lost its finding.
RunRefs(r, hits) ==
    /\ join.at = "scan"
    /\ \/ Raised
       \/ \E errs \in SUBSET {"Syntax error"} :
          \E lost \in {{}} \cup (IF errs = {} THEN {} ELSE {{f.id} : f \in hits}) :
            join' = [join EXCEPT !.at = "check", !.errs = errs,
                        !.results = {f \in hits : f.rule \in RulesOf(r) /\ f.id \notin lost}]

\* What is left of a JSON error once its code, level and type are deleted.
ErrorFields == {"message", "path", "spans", "rule_id", "help"}

\* The class of an error is looked up under what the field says that bears the
\* name of its type: an error of which there is no such field is dropped.
Reconstituted(errs) == SetToSeq({e \in errs : e \in ErrorFields})

\* A collection must be an alias or an inline rule; without a finding in each
\* of them nothing is reported.
CheckResults(r) ==
    /\ join.at = "check"
    /\ IF \E n \in Collections(r.on) : Ref(r, n) = 0 THEN Raised
       ELSE IF \E n \in Collections(r.on) : RuleOf(r, n) \notin {f.rule : f \in join.results}
       THEN Reports({}, Reconstituted(join.errs))
       ELSE join' = [join EXCEPT !.at = "load"]

\* A database that is open cannot be connected to.
LoadResults(r) ==
    /\ join.at = "load"
    /\ IF join.open THEN Raised
       ELSE join' = [join EXCEPT !.at = "match", !.open = TRUE,
                                 !.tables = Tables(r, join.results)]

\* A condition on a column that no finding has, or that the chains lost, is an
\* exception.
Known(r, c) ==
    LET Columns(name) == join.tables[RuleOf(r, name)].columns
    IN  c.pa \in Columns(c.a) /\ c.pb \in Columns(c.b)

\* handle_recursive_conditions: the table of the collection is replaced by that
\* of its chains, or these are added to the chains of an earlier condition,
\* since their table has the same name.
FollowChains(r) ==
    /\ join.at = "match"
    /\ \E k \in Recursive(r.on) \ join.done :
          /\ \A j \in Recursive(r.on) \ join.done : k <= j
          /\ LET c == r.on[k]
                 table == join.tables[RuleOf(r, c.a)]
                 earlier == IF \E j \in join.done : r.on[j].a = c.a THEN table.rows ELSE {}
             IN  IF c.a # c.b \/ ~Known(r, c) THEN Raised
                 ELSE join' = [join EXCEPT !.done = @ \cup {k},
                         !.tables[RuleOf(r, c.a)] = [Recurse(table, c) EXCEPT !.rows = @ \cup earlier]]

\* Without another condition there is no last one, and a query in which a table
\* occurs under two names is not one of SQLite.
MatchConditions(r) ==
    /\ join.at = "match" /\ Recursive(r.on) \subseteq join.done
    /\ IF /\ Normal(r.on) # {}
          /\ \A k \in Normal(r.on) : Known(r, r.on[k])
          /\ \A m, n \in Collections(r.on) : RuleOf(r, m) = RuleOf(r, n) => m = n
       THEN join' = [join EXCEPT !.at = "close"]
       ELSE Raised

\* The database is gone with its connection.
CloseDatabase(r) ==
    /\ join.at = "close"
    /\ Reports(Query(r, join.tables), Reconstituted(join.errs))

\* One step of the n-th of the rules; hits: [id, rule, vars], what the rules
\* they refer to find.
JoinStep(rules, hits) ==
    /\ join.n \in DOMAIN rules
    /\ LET r == rules[join.n] IN
       \/ ResolveRefs(r) \/ RunRefs(r, hits) \/ CheckResults(r)
       \/ LoadResults(r) \/ FollowChains(r) \/ MatchConditions(r) \/ CloseDatabase(r)

JoinsDone(rules) == join.n > Len(rules)
JoinRaised == join.at = "raised"

-----------------------------------------------------------------------------
(* What a join rule is to report, of the findings themselves. *)

Value(r, f, v) == Field(Row(r, f), v)
FindingsOf(r, results, name) == {f \in results : f.rule = RuleOf(r, name)}

\* The chains of some findings, of which only the first and the last matter:
\* each finding of a chain begins with the value the one before ends with.
Chains(r, c, fs) ==
    UNION {{<<s[1], s[n]>> : s \in {s \in [1 .. n -> fs] :
               \A i \in 1 .. n - 1 : Holds("==", Value(r, s[i], c.pb), Value(r, s[i + 1], c.pa))}} :
           n \in 1 .. Cardinality(fs)}

\* A collection stands for the findings of its rule or, if it is recursive, for
\* their chains: for each finding, one that a chain begins with that ends in
\* the same value.
ChainOf(r, name) == {c \in ToSet(r.on) : c.op = "-->" /\ c.a = name}
Ways(r, results, name) ==
    LET fs == FindingsOf(r, results, name)
    IN  {w \in fs \X fs :
            IF ChainOf(r, name) = {} THEN w[1] = w[2]
            ELSE \E c \in ChainOf(r, name) : \E ch \in Chains(r, c, fs) :
                    ch[1] = w[1] /\ Holds("==", Value(r, ch[2], c.pb), Value(r, w[2], c.pb))}

\* The value of a way: of a chain, the one it begins with or the one it ends in.
ValueOf(r, name, way, v) ==
    IF \E c \in ChainOf(r, name) : v = c.pa THEN Value(r, way[1], v) ELSE Value(r, way[2], v)

\* The rule reports the finding of the last collection, or that its chain ends
\* at, if all the conditions hold at once.
Meant(r, results) ==
    LET Picks == {p \in [Collections(r.on) -> UNION {Ways(r, results, n) : n \in Collections(r.on)}] :
                     \A n \in DOMAIN p : p[n] \in Ways(r, results, n)}
        Fit(p, c) == Holds(c.op, ValueOf(r, c.a, p[c.a], c.pa), ValueOf(r, c.b, p[c.b], c.pb))
    IN  {p[LastOf(r.on).b][2].id : p \in {p \in Picks : \A k \in Normal(r.on) : Fit(p, r.on[k])}}

\* What two chains of one collection would mean is nowhere said.
OneChain(r) ==
    \A j, k \in Recursive(r.on) : r.on[j].a = r.on[k].a => j = k
=============================================================================
