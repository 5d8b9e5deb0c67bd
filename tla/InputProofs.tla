---------------------------- MODULE InputProofs ----------------------------
(***************************************************************************)
(* What semgrep-core and the supply chain are given, and what comes back.  *)
(*                                                                         *)
(* InputRun, for any rules, documents, files and paths: a scan that starts *)
(* has every rule it was given, whatever the order of the threads; the     *)
(* targets of semgrep-core are those that were announced, and every file   *)
(* is accounted for, since what is in a plan is a function of the files    *)
(* that are cached for a language and a product, and these are found once. *)
(*                                                                         *)
(* SupplyChain, for any files, lockfiles, rules and dependencies and any   *)
(* bound on stray packets: a call reads its own answer, the subproject a   *)
(* reachable finding is about is the closest one of its ecosystem, and     *)
(* every vulnerable dependency that was resolved is reported.              *)
(***************************************************************************)
EXTENDS InputRun, SupplyChain, FiniteSetTheorems, SequenceTheorems, WellFoundedInduction, TLAPS

Plans == {"print", "run"}

(* What an earlier turn, or this one, made of a language of its rule.      *)
IsPlanned(p, k, lang) ==
    /\ k \in Turns(p)
    /\ lang \in About[RuleOf(k)].languages
    /\ \/ p = "print" /\ phase # "print"
       \/ phase = "done"
       \/ p = phase /\ (k < num \/ (k = num /\ lang \notin todo))

KeyFor(k, lang) == KeyOf(lang, About[RuleOf(k)].product)
TasksFor(k, lang) ==
    [file : Ours(RuleOf(k), kept[KeyFor(k, lang)]), lang : {lang}, rule : {RuleOf(k)},
     product : {About[RuleOf(k)].product}]

(* The rule in hand has a turn.                                            *)
InHand ==
    /\ phase \in {"print", "status", "run", "done"}
    /\ num \in Int
    /\ IF phase \in Plans THEN num = 0 \/ num \in Turns(phase) ELSE num = 0
    /\ todo # {} => num # 0 /\ todo \subseteq About[Rule].languages

(* A plan has the tasks of what was planned, and no other.                 *)
PlansMade ==
    /\ plan = [p \in Plans |-> plan[p]]
    /\ \A p \in Plans : \A t :
         t \in plan[p] <=> \E k, lang : IsPlanned(p, k, lang) /\ t \in TasksFor(k, lang)
    /\ \A p \in Plans : \A k, lang : IsPlanned(p, k, lang) =>
         /\ KeyFor(k, lang) \in DOMAIN kept
         /\ job.rulePaths => PathLog(RuleOf(k), kept[KeyFor(k, lang)]) \subseteq log.rule_paths

(* What was walked for a product is of the language or in the log.         *)
WasFound(f, lang, product) ==
    \/ f \in kept[KeyOf(lang, product)]
    \/ <<lang, f>> \in log.by_language
    \/ \E why \in Logged : <<why, f>> \in log.skipped
FilesFound ==
    \A lang, product : KeyOf(lang, product) \in DOMAIN kept =>
        /\ product \in DOMAIN seen
        /\ \A f \in seen[product] :
             Reason(f, product) \in Logged \cup {"selected"} => WasFound(f, lang, product)

Fresh ==
    /\ phase = "print" /\ num = 0 /\ todo = {}
    /\ plan = [p \in Plans |-> {}] /\ DOMAIN kept = {}

InputInv ==
    /\ step # "scan" => Fresh
    /\ InHand /\ PlansMade /\ FilesFound
-----------------------------------------------------------------------------
(* What a turn is.                                                         *)

LEMMA TurnIs ==
  ASSUME NEW p, NEW k \in Turns(p)
  PROVE  k \in Int /\ k > 0
BY DEF Turns, Rounds

(* Nothing is planned before the rules are loaded.                         *)
LEMMA FreshPlans ==
  ASSUME Fresh, NEW p \in Plans, NEW k, NEW lang
  PROVE  ~IsPlanned(p, k, lang)
BY TurnIs DEF Fresh, IsPlanned, Plans

LEMMA FreshInv == Fresh => InHand /\ PlansMade /\ FilesFound
<1> SUFFICES ASSUME Fresh PROVE InHand /\ PlansMade /\ FilesFound
  OBVIOUS
<1>1. InHand
  BY DEF Fresh, InHand, Plans
<1>2. PlansMade
  <2>1. plan = [p \in Plans |-> plan[p]] /\ \A p \in Plans : plan[p] = {}
    BY DEF Fresh
  <2> QED BY <2>1, FreshPlans DEF PlansMade
<1>3. FilesFound
  BY DEF Fresh, FilesFound
<1> QED BY <1>1, <1>2, <1>3

-----------------------------------------------------------------------------
(* What stays.                                                             *)

LEMMA PlansStay ==
  ASSUME PlansMade, UNCHANGED <<job, rules, kept, log, plan>>,
         \A p \in Plans : \A k, lang : IsPlanned(p, k, lang)' <=> IsPlanned(p, k, lang)
  PROVE  PlansMade'
<1>1. \A k : RuleOf(k)' = RuleOf(k)
  BY DEF RuleOf, IsSecond
<1>2. \A k, lang : KeyFor(k, lang)' = KeyFor(k, lang)
  BY <1>1 DEF KeyFor
<1>3. \A k, lang : TasksFor(k, lang)' = TasksFor(k, lang)
  BY <1>1, <1>2 DEF TasksFor, Ours
<1>4. \A k, lang : PathLog(RuleOf(k), kept[KeyFor(k, lang)])' = PathLog(RuleOf(k), kept[KeyFor(k, lang)])
  BY <1>1, <1>2
<1> QED BY <1>1, <1>2, <1>3, <1>4 DEF PlansMade

LEMMA FilesStay ==
  ASSUME FilesFound, UNCHANGED <<kept, log>>, DOMAIN seen \subseteq DOMAIN seen',
         \A product \in DOMAIN seen : seen'[product] = seen[product]
  PROVE  FilesFound'
BY DEF FilesFound, WasFound

LEMMA SeenGrows ==
  ASSUME NEW product, NEW walk \in Walks(product), seen' = Keep(seen, product, walk)
  PROVE  /\ DOMAIN seen' = DOMAIN seen \cup {product} /\ seen'[product] = walk
         /\ \A q \in DOMAIN seen : seen'[q] = seen[q]
<1>1. product \in DOMAIN seen => walk = seen[product]
  BY DEF Walks
<1> QED BY <1>1 DEF Keep

LEMMA TurnsStay ==
  ASSUME UNCHANGED <<job, rules>>, NEW p
  PROVE  Turns(p)' = Turns(p) /\ \A k : RuleOf(k)' = RuleOf(k)
BY DEF Turns, Rounds, RuleOf, IsSecond

-----------------------------------------------------------------------------
(* The steps.                                                              *)

LEMMA StartPlanKeeps ==
  ASSUME InHand, PlansMade, FilesFound, StartPlan, UNCHANGED <<job, rules>>
  PROVE  InHand' /\ PlansMade' /\ FilesFound'
<1>1. /\ phase \in Plans /\ todo = {} /\ num \in Int
      /\ UNCHANGED <<disk, seen, kept, log, plan>>
  BY DEF StartPlan, InHand, Plans
<1>2. FilesFound'
  BY <1>1, FilesStay
<1>3. \A p : Turns(p)' = Turns(p) /\ \A k : RuleOf(k)' = RuleOf(k)
  BY TurnsStay
<1>4. CASE {k \in Turns(phase) : k > num} = {}
  <2>1. NextPlan
    BY <1>4 DEF StartPlan
  <2>2. InHand'
    BY <1>1, <2>1 DEF InHand, NextPlan, Plans
  <2>3. \A k \in Turns(phase) : k < num \/ k = num
    BY <1>1, <1>4, TurnIs
  <2>4. ASSUME NEW p \in Plans, NEW k, NEW lang
        PROVE  IsPlanned(p, k, lang)' <=> IsPlanned(p, k, lang)
    BY <1>1, <1>3, <2>1, <2>3, TurnIs DEF IsPlanned, NextPlan, Plans
  <2> QED BY <1>1, <1>2, <2>2, <2>4, PlansStay
<1>5. CASE {k \in Turns(phase) : k > num} # {}
  <2>1. PICK n \in Turns(phase) :
          /\ n > num /\ \A j \in Turns(phase) : j > num => n <= j
          /\ num' = n /\ todo' = About[RuleOf(n)].languages /\ phase' = phase
    BY <1>5 DEF StartPlan
  <2>2. n \in Int /\ n > 0
    BY TurnIs
  <2>3. InHand'
    BY <1>1, <1>3, <2>1, <2>2 DEF InHand, Rule
  <2>4. \A k \in Turns(phase) : k < n <=> k < num \/ k = num
    BY <1>1, <2>1, <2>2, TurnIs
  <2>5. ASSUME NEW p \in Plans, NEW k, NEW lang
        PROVE  IsPlanned(p, k, lang)' <=> IsPlanned(p, k, lang)
    <3>1. k = n => (lang \in About[RuleOf(k)].languages <=> lang \in todo')
      BY <2>1
    <3>2. p = phase /\ k \in Turns(p) /\ lang \in About[RuleOf(k)].languages =>
            (k < num' \/ (k = num' /\ lang \notin todo') <=> k < num \/ (k = num /\ lang \notin todo))
      BY <1>1, <2>1, <2>4, <3>1
    <3> QED BY <1>3, <2>1, <3>2 DEF IsPlanned
  <2> QED BY <1>1, <1>2, <2>3, <2>5, PlansStay
<1> QED BY <1>4, <1>5

LEMMA AnnounceKeeps ==
  ASSUME InHand, PlansMade, FilesFound, Announce
  PROVE  InHand' /\ PlansMade' /\ FilesFound'
<1>1. /\ phase = "status" /\ phase' = "run" /\ num = 0 /\ todo = {}
      /\ UNCHANGED <<job, rules, disk, kept, log, num, todo, plan>>
  BY DEF Announce, InHand, Plans, ruleVars
<1>2. InHand'
  BY <1>1 DEF InHand, Plans
<1>3. DOMAIN seen \subseteq DOMAIN seen' /\ \A q \in DOMAIN seen : seen'[q] = seen[q]
  <2>1. CASE UNCHANGED seen
    BY <2>1
  <2>2. CASE \E walk \in Walks("sast") : seen' = Keep(seen, "sast", walk)
    BY <2>2, SeenGrows
  <2> QED BY <2>1, <2>2 DEF Announce
<1>4. FilesFound'
  BY <1>1, <1>3, FilesStay
<1>5. \A p : Turns(p)' = Turns(p) /\ \A k : RuleOf(k)' = RuleOf(k)
  BY <1>1, TurnsStay
<1>6. ASSUME NEW p \in Plans, NEW k, NEW lang
      PROVE  IsPlanned(p, k, lang)' <=> IsPlanned(p, k, lang)
  BY <1>1, <1>5, TurnIs DEF IsPlanned, Plans
<1> QED BY <1>1, <1>2, <1>4, <1>6, PlansStay

LEMMA PlanLanguageKeeps ==
  ASSUME InHand, PlansMade, FilesFound, NEW lang, PlanLanguage(lang), UNCHANGED <<job, rules>>
  PROVE  InHand' /\ PlansMade' /\ FilesFound'
<1>1. /\ lang \in todo /\ phase \in Plans /\ num \in Turns(phase)
      /\ lang \in About[RuleOf(num)].languages
      /\ todo' = todo \ {lang} /\ UNCHANGED <<disk, phase, num>>
  BY DEF PlanLanguage, InHand, Rule
<1>2. PICK n, r, product, key : /\ n = num /\ r = RuleOf(num) /\ product = About[r].product
                               /\ key = KeyOf(lang, product)
  OBVIOUS
<1>a. PICK walk \in Walks(product) :
        LET all == Discovered(walk, product)
            fs == FilesFor(all, lang, product)
            first == ~Cached(lang, product)
        IN  /\ seen' = Keep(seen, product, walk)
            /\ kept' = Keep(kept, key, fs)
            /\ log' =
                 [by_language |-> log.by_language \cup
                      (IF first THEN LeftOut(all, lang) ELSE {}),
                  skipped |-> log.skipped \cup (IF first THEN Skipped(walk, product) ELSE {}),
                  rule_paths |-> log.rule_paths \cup
                      (IF job.rulePaths THEN PathLog(r, fs) ELSE {})]
            /\ plan' = [plan EXCEPT ![phase] = @ \cup
                 [file : Ours(r, fs), lang : {lang}, rule : {r}, product : {product}]]
  BY <1>2 DEF PlanLanguage, Rule
<1>3. PICK all, fs :
        /\ all = Discovered(walk, product)
        /\ fs = FilesFor(all, lang, product)
        /\ seen' = Keep(seen, product, walk)
        /\ kept' = Keep(kept, key, fs)
        /\ log' =
             [by_language |-> log.by_language \cup
                  (IF ~Cached(lang, product) THEN LeftOut(all, lang) ELSE {}),
              skipped |-> log.skipped \cup
                  (IF ~Cached(lang, product) THEN Skipped(walk, product) ELSE {}),
              rule_paths |-> log.rule_paths \cup
                  (IF job.rulePaths THEN PathLog(r, fs) ELSE {})]
        /\ plan' = [plan EXCEPT ![phase] = @ \cup
             [file : Ours(r, fs), lang : {lang}, rule : {r}, product : {product}]]
  BY <1>a
<1>4. /\ DOMAIN seen' = DOMAIN seen \cup {product} /\ seen'[product] = walk
      /\ \A q \in DOMAIN seen : seen'[q] = seen[q]
  BY <1>3, SeenGrows
<1>5. key \in DOMAIN kept => fs = kept[key]
  BY <1>2, <1>3 DEF FilesFor, Cached
<1>6. /\ DOMAIN kept' = DOMAIN kept \cup {key} /\ kept'[key] = fs
      /\ \A q \in DOMAIN kept : kept'[q] = kept[q]
  BY <1>3, <1>5 DEF Keep
<1>7. \A p : Turns(p)' = Turns(p) /\ \A k : RuleOf(k)' = RuleOf(k)
  BY TurnsStay
<1>8. InHand'
  BY <1>1, <1>7 DEF InHand, Rule
<1>9. /\ log.by_language \subseteq log'.by_language /\ log.skipped \subseteq log'.skipped
      /\ log.rule_paths \subseteq log'.rule_paths
      /\ job.rulePaths => PathLog(r, fs) \subseteq log'.rule_paths
      /\ key \notin DOMAIN kept => /\ LeftOut(all, lang) \subseteq log'.by_language
                                 /\ Skipped(walk, product) \subseteq log'.skipped
  BY <1>2, <1>3 DEF Cached
<1>10. FilesFound'
  <2>1. ASSUME NEW l, NEW q, KeyOf(l, q) \in DOMAIN kept',
               NEW f \in seen'[q], Reason(f, q) \in Logged \cup {"selected"}
        PROVE  WasFound(f, l, q)'
    <3>1. CASE KeyOf(l, q) \in DOMAIN kept
      <4>1. f \in seen[q] /\ kept'[KeyOf(l, q)] = kept[KeyOf(l, q)]
        BY <1>4, <1>6, <2>1, <3>1 DEF FilesFound
      <4>2. WasFound(f, l, q)
        BY <2>1, <3>1, <4>1 DEF FilesFound
      <4> QED BY <1>9, <4>1, <4>2 DEF WasFound
    <3>2. CASE KeyOf(l, q) \notin DOMAIN kept
      <4>1. KeyOf(l, q) = key /\ l = lang /\ q = product
        BY <1>2, <1>6, <2>1, <3>2 DEF KeyOf
      <4>2. f \in walk /\ key \notin DOMAIN kept
        BY <1>4, <2>1, <3>2, <4>1
      <4>3. CASE Reason(f, product) = "selected"
        <5>1. f \in all
          BY <1>3, <4>2, <4>3 DEF Discovered
        <5>2. f \notin OwnFiles(all, lang) => <<lang, f>> \in LeftOut(all, lang)
          BY <5>1 DEF LeftOut
        <5>3. OwnFiles(all, lang) \subseteq fs
          BY <1>2, <1>3, <4>2 DEF FilesFor, Cached
        <5> QED BY <1>6, <1>9, <4>1, <4>2, <5>2, <5>3 DEF WasFound
      <4>4. CASE Reason(f, product) \in Logged
        <5>1. <<Reason(f, product), f>> \in Skipped(walk, product)
          BY <4>2, <4>4 DEF Skipped
        <5> QED BY <1>9, <4>1, <4>2, <4>4, <5>1 DEF WasFound
      <4> QED BY <2>1, <4>1, <4>3, <4>4
    <3> QED BY <3>1, <3>2
  <2>2. ASSUME NEW l, NEW q, KeyOf(l, q) \in DOMAIN kept'
        PROVE  q \in DOMAIN seen'
    BY <1>2, <1>4, <1>6, <2>2 DEF FilesFound, KeyOf
  <2> QED BY <2>1, <2>2 DEF FilesFound
<1>11. ASSUME NEW p \in Plans, NEW k, NEW l
       PROVE  IsPlanned(p, k, l)' <=>
                IsPlanned(p, k, l) \/ (p = phase /\ k = n /\ l = lang)
  BY <1>1, <1>2, <1>7 DEF IsPlanned, Plans
<1>12. ASSUME NEW k, NEW l, KeyFor(k, l) \in DOMAIN kept
       PROVE  /\ KeyFor(k, l)' = KeyFor(k, l)
              /\ kept'[KeyFor(k, l)'] = kept[KeyFor(k, l)]
              /\ TasksFor(k, l)' = TasksFor(k, l)
  <2>1. PICK x : x = KeyFor(k, l)
    OBVIOUS
  <2>2. KeyFor(k, l)' = x
    BY <1>7, <2>1 DEF KeyFor
  <2>3. kept'[x] = kept[x]
    BY <1>6, <1>12, <2>1
  <2> QED BY <1>7, <2>1, <2>2, <2>3 DEF TasksFor, Ours
<1>13. /\ KeyFor(n, lang)' = key /\ RuleOf(n)' = r
       /\ TasksFor(n, lang)' =
            [file : Ours(r, fs), lang : {lang}, rule : {r}, product : {product}]
  <2>1. RuleOf(n)' = r /\ KeyFor(n, lang)' = key
    BY <1>2, <1>7 DEF KeyFor
  <2> QED BY <1>2, <1>6, <2>1 DEF TasksFor, Ours
<1>14. /\ plan' = [p \in Plans |-> plan'[p]]
       /\ \A p \in Plans : plan'[p] = IF p = phase THEN plan[p] \cup TasksFor(n, lang)' ELSE plan[p]
  BY <1>1, <1>3, <1>13 DEF PlansMade
<1>15. ASSUME NEW p \in Plans, NEW t
       PROVE  t \in plan'[p] <=> \E k, l : IsPlanned(p, k, l)' /\ t \in TasksFor(k, l)'
  <2>1. \A k, l : IsPlanned(p, k, l) => TasksFor(k, l)' = TasksFor(k, l)
    BY <1>12 DEF PlansMade
  <2>2. t \in plan[p] <=> \E k, l : IsPlanned(p, k, l) /\ t \in TasksFor(k, l)
    BY DEF PlansMade
  <2>3. t \in plan[p] <=> \E k, l : IsPlanned(p, k, l) /\ t \in TasksFor(k, l)'
    BY <2>1, <2>2
  <2> QED BY <1>11, <1>14, <2>3
<1>16. ASSUME NEW p \in Plans, NEW k, NEW l, IsPlanned(p, k, l)'
       PROVE  /\ KeyFor(k, l)' \in DOMAIN kept'
              /\ job'.rulePaths => PathLog(RuleOf(k)', kept'[KeyFor(k, l)']) \subseteq log'.rule_paths
  <2>1. CASE IsPlanned(p, k, l)
    <3>1. /\ KeyFor(k, l) \in DOMAIN kept
          /\ job.rulePaths => PathLog(RuleOf(k), kept[KeyFor(k, l)]) \subseteq log.rule_paths
      BY <2>1 DEF PlansMade
    <3> QED BY <1>6, <1>7, <1>9, <1>12, <3>1
  <2>2. CASE k = n /\ l = lang
    BY <1>6, <1>9, <1>13, <2>2
  <2> QED BY <1>11, <1>16, <2>1, <2>2
<1>17. PlansMade'
  BY <1>14, <1>15, <1>16 DEF PlansMade
<1> QED BY <1>8, <1>10, <1>17

(* A file that goes takes nothing out of the caches.                       *)
LEMMA RemovedKeeps ==
  ASSUME InHand, PlansMade, FilesFound, Removed
  PROVE  InHand' /\ PlansMade' /\ FilesFound'
<1>1. UNCHANGED <<job, rules, seen, kept, log, phase, num, todo, plan>>
  BY DEF Removed, Vanish, ruleVars
<1>2. \A p : Turns(p)' = Turns(p) /\ \A k : RuleOf(k)' = RuleOf(k)
  BY <1>1, TurnsStay
<1>3. InHand'
  BY <1>1, <1>2 DEF InHand, Rule
<1>4. FilesFound'
  BY <1>1, FilesStay
<1>5. ASSUME NEW p \in Plans, NEW k, NEW lang
      PROVE  IsPlanned(p, k, lang)' <=> IsPlanned(p, k, lang)
  BY <1>1, <1>2 DEF IsPlanned
<1> QED BY <1>1, <1>3, <1>4, <1>5, PlansStay

(* The rules are loaded before anything is planned.                        *)
LEMMA LoadingIsFirst ==
  ASSUME InputInv, Loading
  PROVE  Fresh'
<1>1. step # "scan"
  BY DEF Loading, RuleStep, LoadLocal, Download, FetchProduct, FromString, ParseOne, GetRules
<1>2. Fresh /\ UNCHANGED targetVars
  BY <1>1 DEF InputInv, Loading
<1> QED BY <1>2 DEF Fresh, targetVars

LEMMA InputInit == Init => InputInv
<1> SUFFICES ASSUME Init PROVE InputInv
  OBVIOUS
<1>1. plan = [p \in {"print", "run"} |-> {}]
  BY DEF Init, TargetInit
<1>2. Fresh
  BY <1>1 DEF Init, TargetInit, Fresh, Plans, Nothing
<1> QED BY <1>2, FreshInv DEF InputInv

LEMMA InputNext == InputInv /\ [Next]_vars => InputInv'
<1> SUFFICES ASSUME InputInv, [Next]_vars PROVE InputInv'
  OBVIOUS
<1>1. CASE Loading
  <2>1. Fresh'
    BY <1>1, LoadingIsFirst
  <2>2. (InHand /\ PlansMade /\ FilesFound)'
    BY <2>1, FreshInv, PTL
  <2> QED BY <2>1, <2>2 DEF InputInv
<1>2. CASE Planning
  <2>1. step = "scan" /\ UNCHANGED <<job, step, rules>>
    BY <1>2 DEF Planning, StartPlan, PlanLanguage, ruleVars
  <2>2. CASE StartPlan
    BY <2>1, <2>2, StartPlanKeeps DEF InputInv
  <2>3. CASE \E lang \in todo : PlanLanguage(lang)
    BY <2>1, <2>3, PlanLanguageKeeps DEF InputInv
  <2> QED BY <1>2, <2>2, <2>3 DEF Planning
<1>3. CASE Announce
  <2>1. step = "scan" /\ UNCHANGED step
    BY <1>3 DEF Announce, ruleVars
  <2> QED BY <1>3, <2>1, AnnounceKeeps DEF InputInv
<1>4. CASE Removed
  <2>1. step = "scan" /\ UNCHANGED step
    BY <1>4 DEF Removed, Vanish, ruleVars
  <2> QED BY <1>4, <2>1, RemovedKeeps DEF InputInv
<1>5. CASE UNCHANGED vars
  <2>1. UNCHANGED <<job, step, rules, seen, kept, log, phase, num, todo, plan>>
    BY <1>5 DEF vars, ruleVars, targetVars
  <2>2. \A p : Turns(p)' = Turns(p) /\ \A k : RuleOf(k)' = RuleOf(k)
    BY <2>1, TurnsStay
  <2>3. InHand'
    BY <2>1, <2>2 DEF InputInv, InHand, Rule
  <2>4. FilesFound'
    BY <2>1, FilesStay DEF InputInv
  <2>5. ASSUME NEW p \in Plans, NEW k, NEW lang
        PROVE  IsPlanned(p, k, lang)' <=> IsPlanned(p, k, lang)
    BY <2>1, <2>2 DEF IsPlanned
  <2>6. PlansMade'
    BY <2>1, <2>5, PlansStay DEF InputInv
  <2>7. step' # "scan" => Fresh'
    BY <2>1 DEF InputInv, Fresh
  <2> QED BY <2>3, <2>4, <2>6, <2>7 DEF InputInv
<1> QED BY <1>1, <1>2, <1>3, <1>4, <1>5 DEF Next

-----------------------------------------------------------------------------
(* What both plans have in common.                                         *)

(* The turns of the status are those of semgrep-core, but for the rules    *)
(* of an earlier scan and those of the supply chain.                       *)
LEMMA SameTurns ==
  ASSUME NEW k, About[RuleOf(k)].product # "sca"
  PROVE  k \in Turns("print") <=> k \in Turns("run") /\ ~About[RuleOf(k)].transient
BY DEF Turns

LEMMA DonePlans ==
  ASSUME InputInv, Done, NEW p \in Plans
  PROVE  /\ \A t : t \in plan[p] <=>
              \E k \in Turns(p) : \E lang \in About[RuleOf(k)].languages : t \in TasksFor(k, lang)
         /\ \A k \in Turns(p) : \A lang \in About[RuleOf(k)].languages :
              /\ KeyFor(k, lang) \in DOMAIN kept
              /\ job.rulePaths =>
                   PathLog(RuleOf(k), kept[KeyFor(k, lang)]) \subseteq log.rule_paths
<1>1. \A k, lang : IsPlanned(p, k, lang) <=>
        k \in Turns(p) /\ lang \in About[RuleOf(k)].languages
  BY DEF IsPlanned, Done, Plans
<1> QED BY <1>1 DEF InputInv, PlansMade

-----------------------------------------------------------------------------

LEMMA InvPrinted == InputInv => PrintedIsRun
<1> SUFFICES ASSUME InputInv, Done
    PROVE  {t \in plan.run : t.product # "sca" /\ ~About[t.rule].transient}
         = {t \in plan.print : t.product # "sca"}
  BY DEF PrintedIsRun
<1>1. ASSUME NEW k, NEW lang, NEW t \in TasksFor(k, lang)
      PROVE  t.rule = RuleOf(k) /\ t.product = About[RuleOf(k)].product
  BY DEF TasksFor
<1>2. ASSUME NEW t \in plan.run, t.product # "sca", ~About[t.rule].transient
      PROVE  t \in plan.print
  <2>a. PICK k \in Turns("run") :
          \E lang \in About[RuleOf(k)].languages : t \in TasksFor(k, lang)
    BY <1>2, DonePlans DEF Plans
  <2>1. PICK lang \in About[RuleOf(k)].languages : t \in TasksFor(k, lang)
    BY <2>a
  <2>2. k \in Turns("print")
    BY <1>1, <1>2, <2>1, SameTurns
  <2> QED BY <2>1, <2>2, DonePlans DEF Plans
<1>3. ASSUME NEW t \in plan.print, t.product # "sca"
      PROVE  t \in plan.run /\ ~About[t.rule].transient
  <2>a. PICK k \in Turns("print") :
          \E lang \in About[RuleOf(k)].languages : t \in TasksFor(k, lang)
    BY <1>3, DonePlans DEF Plans
  <2>1. PICK lang \in About[RuleOf(k)].languages : t \in TasksFor(k, lang)
    BY <2>a
  <2>2. k \in Turns("run") /\ ~About[RuleOf(k)].transient
    BY <1>1, <1>3, <2>1, SameTurns
  <2> QED BY <1>1, <2>1, <2>2, DonePlans DEF Plans
<1> QED BY <1>2, <1>3

LEMMA InvAccounted ==
  ASSUME InputInv, Done, NEW k \in Turns("run"), NEW lang \in About[RuleOf(k)].languages,
         NEW f \in disk \cap seen[About[RuleOf(k)].product],
         Reason(f, About[RuleOf(k)].product) \in Logged \cup {"selected"}
  PROVE  \/ \E t \in plan.run : t.file = f /\ t.rule = RuleOf(k) /\ t.lang = lang
         \/ <<lang, f>> \in log.by_language
         \/ \E why \in {"include", "exclude"} : <<why, RuleOf(k), f>> \in log.rule_paths
         \/ \E why \in Logged : <<why, f>> \in log.skipped
<1>1. PICK r, product, fs :
        r = RuleOf(k) /\ product = About[r].product /\ fs = kept[KeyOf(lang, product)]
  OBVIOUS
<1>2. /\ KeyOf(lang, product) \in DOMAIN kept
      /\ job.rulePaths => PathLog(r, fs) \subseteq log.rule_paths
  BY <1>1, DonePlans DEF Plans, KeyFor
<1>3. WasFound(f, lang, product)
  BY <1>1, <1>2 DEF InputInv, FilesFound
<1>4. CASE f \in Ours(r, fs)
  <2> DEFINE t == [file |-> f, lang |-> lang, rule |-> r, product |-> product]
  <2>1. t \in TasksFor(k, lang)
    BY <1>1, <1>4 DEF TasksFor, KeyFor
  <2>2. t \in plan["run"]
    BY <2>1, DonePlans DEF Plans
  <2> QED BY <1>1, <2>2
<1>5. CASE f \in fs /\ f \notin Ours(r, fs)
  <2>1. job.rulePaths /\ (f \notin Included(r, fs) \/ f \in Excluded(r, Included(r, fs)))
    BY <1>5 DEF Ours
  <2>2. <<"include", r, f>> \in PathLog(r, fs) \/ <<"exclude", r, f>> \in PathLog(r, fs)
    BY <1>5, <2>1 DEF PathLog
  <2> QED BY <1>1, <1>2, <2>1, <2>2
<1>6. CASE f \notin fs
  BY <1>1, <1>3, <1>6 DEF WasFound
<1> QED BY <1>4, <1>5, <1>6

(* Although every file may go while the plans are made and between them,   *)
(* semgrep-core is given the files that were announced, for all rules but  *)
(* those of the supply chain and of an earlier scan: the target manager    *)
(* walks the roots once for a product and keeps the files of a language.   *)
THEOREM AnnouncedIsRun == Spec => []PrintedIsRun
<1> QED BY InputInit, InputNext, InvPrinted, PTL DEF Spec

(* When both plans are made, every file that was walked and whose reason   *)
(* the log knows is a target of each rule and language, or is in the log   *)
(* with what left it out, whatever the rules, their paths and the files.   *)
THEOREM EveryFileIsAccountedFor == Spec => []AccountedFor
<1>1. InputInv => AccountedFor
  BY InvAccounted DEF AccountedFor
<1> QED BY <1>1, InputInit, InputNext, PTL DEF Spec
-----------------------------------------------------------------------------
(* Sequences and what is in them.                                          *)
LEMMA RangeOfAppend ==
  ASSUME NEW S, NEW s \in Seq(S), NEW e
  PROVE  Range(Append(s, e)) = Range(s) \cup {e}
<1>1. s \in Seq(S \cup {e}) /\ e \in S \cup {e}
  BY SeqMonotonic
<1>2. /\ Append(s, e) \in Seq(S \cup {e}) /\ Len(Append(s, e)) = Len(s) + 1
      /\ \A i \in 1 .. Len(s) : Append(s, e)[i] = s[i]
      /\ Append(s, e)[Len(s) + 1] = e
  BY <1>1, AppendProperties
<1>3. Len(s) \in Nat /\ DOMAIN s = 1 .. Len(s) /\ DOMAIN Append(s, e) = 1 .. Len(s) + 1
  BY <1>2
<1>4. Range(Append(s, e)) \subseteq Range(s) \cup {e}
  BY <1>2, <1>3 DEF Range
<1>5. e \in Range(Append(s, e)) /\ Range(s) \subseteq Range(Append(s, e))
  BY <1>2, <1>3 DEF Range
<1> QED BY <1>4, <1>5

LEMMA RangeOfConcat ==
  ASSUME NEW S, NEW s \in Seq(S), NEW T, NEW t \in Seq(T)
  PROVE  Range(s \o t) = Range(s) \cup Range(t) /\ s \o t \in Seq(S \cup T)
<1>1. s \in Seq(S \cup T) /\ t \in Seq(S \cup T)
  BY SeqMonotonic
<1>2. s \o t \in Seq(S \cup T) /\ Len(s \o t) = Len(s) + Len(t)
      /\ \A i \in 1 .. Len(s) + Len(t) :
           (s \o t)[i] = IF i <= Len(s) THEN s[i] ELSE t[i - Len(s)]
  BY <1>1, ConcatProperties
<1>3. Len(s) \in Nat /\ Len(t) \in Nat /\ DOMAIN s = 1 .. Len(s) /\ DOMAIN t = 1 .. Len(t)
      /\ DOMAIN (s \o t) = 1 .. Len(s) + Len(t)
  BY <1>2
<1>4. Range(s \o t) \subseteq Range(s) \cup Range(t)
  BY <1>2, <1>3 DEF Range
<1>5. Range(s) \subseteq Range(s \o t)
  BY <1>2, <1>3 DEF Range
<1>6. ASSUME NEW i \in 1 .. Len(t) PROVE t[i] \in Range(s \o t)
  <2>1. i + Len(s) \in 1 .. Len(s) + Len(t) /\ ~ (i + Len(s) <= Len(s)) /\ (i + Len(s)) - Len(s) = i
    BY <1>3
  <2> QED BY <1>2, <1>3, <2>1 DEF Range
<1>7. Range(t) \subseteq Range(s \o t)
  BY <1>3, <1>6 DEF Range
<1> QED BY <1>2, <1>4, <1>5, <1>7

LEMMA HeadAndTail ==
  ASSUME NEW S, NEW s \in Seq(S), s # <<>>
  PROVE  /\ Head(s) \in Range(s) /\ Head(s) \in S
         /\ Tail(s) \in Seq(S)
         /\ Range(s) = {Head(s)} \cup Range(Tail(s))
<1>1. Len(s) \in Nat /\ Len(s) >= 1 /\ DOMAIN s = 1 .. Len(s) /\ Head(s) = s[1]
  OBVIOUS
<1>2. /\ DOMAIN Tail(s) = 1 .. Len(s) - 1
      /\ \A i \in 1 .. Len(s) - 1 : Tail(s)[i] = s[i + 1]
  <2>1. Tail(s) \in Seq(S) /\ Len(Tail(s)) = Len(s) - 1
        /\ \A i \in 1 .. Len(Tail(s)) : Tail(s)[i] = s[i + 1]
    BY HeadTailProperties
  <2> QED BY <2>1
<1>3. Head(s) \in Range(s) /\ Range(Tail(s)) \subseteq Range(s)
  BY <1>1, <1>2 DEF Range
<1>4. ASSUME NEW i \in 1 .. Len(s), i # 1 PROVE s[i] \in Range(Tail(s))
  <2>1. i - 1 \in 1 .. Len(s) - 1 /\ (i - 1) + 1 = i
    BY <1>1, <1>4
  <2> QED BY <1>2, <2>1 DEF Range
<1>5. Range(s) \subseteq {Head(s)} \cup Range(Tail(s))
  BY <1>1, <1>4 DEF Range
<1>6. Head(s) \in S /\ Tail(s) \in Seq(S)
  BY HeadTailProperties
<1> QED BY <1>3, <1>5, <1>6

LEMMA IsOfRange ==
  ASSUME NEW S, NEW s \in Seq(S)
  PROVE  s \in Seq(Range(s)) /\ Range(s) \subseteq S
<1>1. Len(s) \in Nat /\ s \in [1 .. Len(s) -> S]
  BY LenProperties
<1>2. s \in [1 .. Len(s) -> Range(s)] /\ Range(s) \subseteq S
  BY <1>1 DEF Range
<1> QED BY <1>1, <1>2, SeqDef

(* A finite set as a sequence, and the image of a finite set.              *)
LEMMA ListOfSet ==
  ASSUME NEW S, IsFiniteSet(S)
  PROVE  SetToSeq(S) \in Seq(S) /\ Range(SetToSeq(S)) = S
         /\ Len(SetToSeq(S)) = Cardinality(S)
<1>1. PICK f \in [1 .. Cardinality(S) -> S] : IsInjective(f)
  BY FS_CardinalityType DEF ExistsBijection, Bijection, Injection
<1>2. SetToSeq(S) \in [1 .. Cardinality(S) -> S] /\ IsInjective(SetToSeq(S))
  BY <1>1 DEF SetToSeq
<1>3. SetToSeq(S) \in Injection(1 .. Cardinality(S), S)
  BY <1>2 DEF Injection
<1>4. Cardinality(S) \in Nat /\ Cardinality(1 .. Cardinality(S)) = Cardinality(S)
  BY FS_CardinalityType, FS_Interval
<1>5. SetToSeq(S) \in Surjection(1 .. Cardinality(S), S)
  BY <1>3, <1>4, FS_Injection
<1>6. Range(SetToSeq(S)) = S
  BY <1>2, <1>5 DEF Surjection, Range
<1>7. SetToSeq(S) \in Seq(S)
  BY <1>2, <1>4, SeqDef
<1>8. Len(SetToSeq(S)) = Cardinality(S)
  BY <1>2, <1>4, <1>7, LenProperties
<1> QED BY <1>6, <1>7, <1>8

LEMMA FiniteImage ==
  ASSUME NEW S, IsFiniteSet(S), NEW f, DOMAIN f = S, f = [x \in S |-> f[x]]
  PROVE  IsFiniteSet({f[x] : x \in S}) /\ Cardinality({f[x] : x \in S}) <= Cardinality(S)
<1> DEFINE T == {f[x] : x \in S}
<1>1. f \in [S -> T]
  OBVIOUS
<1>2. \A t \in T : \E x \in S : f[x] = t
  OBVIOUS
<1>3. f \in Surjection(S, T)
  BY <1>1, <1>2 DEF Surjection
<1> QED BY <1>3, FS_Surjection
-----------------------------------------------------------------------------
(* Induction over the numbers, as a statement about a set.                 *)
LEMMA EveryNumber ==
  ASSUME NEW T, 0 \in T, \A n \in Nat : n \in T => n + 1 \in T
  PROVE  Nat \subseteq T
<1> DEFINE R == {ss \in Nat \X Nat : ss[1] < ss[2]}
<1> DEFINE Others == Nat \ T
<1>1. IsWellFoundedOn(R, Nat)
  BY NatLessThanWellFounded DEF OpToRel
<1>2. \A n \in Nat : <<n, n + 1>> \in R
  OBVIOUS
<1>3. SUFFICES ASSUME Others # {} PROVE FALSE
  OBVIOUS
<1>4. Others \subseteq Nat
  OBVIOUS
<1>5. PICK x \in Others : \A y \in Others : ~ (<<y, x>> \in R)
  <2> HIDE DEF R, Others
  <2> QED BY <1>1, <1>3, <1>4, WFMin, Zenon
<1>6. x # 0 /\ x - 1 \in Nat /\ <<x - 1, x>> \in R
  OBVIOUS
<1>7. x - 1 \in T
  BY <1>5, <1>6
<1>8. (x - 1) + 1 = x
  OBVIOUS
<1> QED BY <1>6, <1>7, <1>8

(* The function that Only is the last value of: it exists, on every        *)
(* initial part of the sequence.                                           *)
IsOnly(chosen, s, T, m) ==
    chosen = [n \in 0 .. m |->
              IF n = 0 THEN <<>>
              ELSE IF s[n] \in T THEN Append(chosen[n - 1], s[n]) ELSE chosen[n - 1]]

LEMMA OnlyExists ==
  ASSUME NEW S, NEW s \in Seq(S), NEW T, NEW m \in 0 .. Len(s)
  PROVE  \E chosen : IsOnly(chosen, s, T, m)
<1> DEFINE Good == {n \in Nat : n <= Len(s) => \E chosen : IsOnly(chosen, s, T, n)}
<1>1. 0 \in Good
  <2>1. IsOnly([n \in 0 .. 0 |-> <<>>], s, T, 0)
    BY DEF IsOnly
  <2> QED BY <2>1
<1>2. ASSUME NEW n \in Nat, n \in Good PROVE n + 1 \in Good
  <2> SUFFICES ASSUME n + 1 <= Len(s) PROVE \E chosen : IsOnly(chosen, s, T, n + 1)
    OBVIOUS
  <2>1. PICK g : IsOnly(g, s, T, n)
    BY <1>2
  <2> DEFINE f == [k \in 0 .. n + 1 |->
                     IF k = n + 1 THEN IF s[n + 1] \in T THEN Append(g[n], s[n + 1]) ELSE g[n]
                     ELSE g[k]]
  <2>2. IsOnly(f, s, T, n + 1)
    <3> DEFINE h == [k \in 0 .. n + 1 |->
                       IF k = 0 THEN <<>>
                       ELSE IF s[k] \in T THEN Append(f[k - 1], s[k]) ELSE f[k - 1]]
    <3>1. SUFFICES ASSUME NEW k \in 0 .. n + 1 PROVE f[k] = h[k]
      <4>1. f = [k \in 0 .. n + 1 |-> f[k]] /\ h = [k \in 0 .. n + 1 |-> h[k]]
        OBVIOUS
      <4>2. (\A k \in 0 .. n + 1 : f[k] = h[k]) => f = h
        BY <4>1
      <4> QED BY <4>2, <3>1 DEF IsOnly
    <3>2. CASE k = n + 1
      <4>1. k # 0 /\ k - 1 = n /\ n \in 0 .. n + 1 /\ n # n + 1
        BY <3>2
      <4>2. f[n] = g[n]
        BY <4>1
      <4> QED BY <3>2, <4>1, <4>2
    <3>3. CASE k # n + 1
      <4>1. k \in 0 .. n /\ (k # 0 => k - 1 \in 0 .. n /\ k - 1 # n + 1)
        BY <3>3
      <4>2. f[k] = g[k] /\ (k # 0 => f[k - 1] = g[k - 1])
        BY <3>3, <4>1
      <4>3. g[k] = IF k = 0 THEN <<>>
                   ELSE IF s[k] \in T THEN Append(g[k - 1], s[k]) ELSE g[k - 1]
        BY <2>1, <4>1 DEF IsOnly
      <4> QED BY <4>2, <4>3
    <3> QED BY <3>2, <3>3
  <2> QED BY <2>2
<1>3. Nat \subseteq Good
  <2> HIDE DEF Good
  <2> QED BY <1>1, <1>2, EveryNumber
<1> QED BY <1>3

(* Only gives a sequence of the elements that are in the set, and all.     *)
LEMMA OnlyIs ==
  ASSUME NEW S, NEW s \in Seq(S), NEW T
  PROVE  Only(s, T) \in Seq(S) /\ Range(Only(s, T)) = Range(s) \cap T
<1> DEFINE chosen == CHOOSE g : IsOnly(g, s, T, Len(s))
<1>0. Len(s) \in Nat
  OBVIOUS
<1>1. IsOnly(chosen, s, T, Len(s))
  BY <1>0, OnlyExists
<1>2. Only(s, T) = chosen[Len(s)]
  BY DEF Only, IsOnly
<1> HIDE DEF chosen
<1> DEFINE Good == {n \in Nat : n <= Len(s) =>
                      /\ chosen[n] \in Seq(S)
                      /\ Range(chosen[n]) = {s[i] : i \in 1 .. n} \cap T}
<1>3. 0 \in Good
  <2>1. chosen[0] = <<>>
    BY <1>0, <1>1 DEF IsOnly
  <2>2. Range(<<>>) = {}
    BY DEF Range
  <2>3. {s[i] : i \in 1 .. 0} = {}
    OBVIOUS
  <2>4. chosen[0] \in Seq(S) /\ Range(chosen[0]) = {s[i] : i \in 1 .. 0} \cap T
    BY <2>1, <2>2, <2>3, EmptySeq
  <2> QED BY <2>4
<1>4. ASSUME NEW n \in Nat, n \in Good PROVE n + 1 \in Good
  <2> SUFFICES ASSUME n + 1 <= Len(s)
               PROVE  /\ chosen[n + 1] \in Seq(S)
                      /\ Range(chosen[n + 1]) = {s[i] : i \in 1 .. n + 1} \cap T
    OBVIOUS
  <2>1. chosen[n] \in Seq(S) /\ Range(chosen[n]) = {s[i] : i \in 1 .. n} \cap T
    BY <1>0, <1>4
  <2>2. chosen[n + 1] = IF s[n + 1] \in T THEN Append(chosen[n], s[n + 1]) ELSE chosen[n]
    <3>1. n + 1 \in 0 .. Len(s) /\ n + 1 # 0 /\ (n + 1) - 1 = n
      BY <1>0
    <3>2. chosen[n + 1] = IF n + 1 = 0 THEN <<>>
                        ELSE IF s[n + 1] \in T THEN Append(chosen[(n + 1) - 1], s[n + 1])
                        ELSE chosen[(n + 1) - 1]
      BY <1>1, <3>1 DEF IsOnly
    <3> QED BY <3>1, <3>2
  <2>3. {s[i] : i \in 1 .. n + 1} = {s[i] : i \in 1 .. n} \cup {s[n + 1]}
    OBVIOUS
  <2>4. s[n + 1] \in S
    BY <1>0
  <2>5. Range(Append(chosen[n], s[n + 1])) = Range(chosen[n]) \cup {s[n + 1]}
    BY <2>1, <2>4, RangeOfAppend
  <2> QED BY <2>1, <2>2, <2>3, <2>4, <2>5
<1>5. Nat \subseteq Good
  <2> HIDE DEF Good
  <2> QED BY <1>3, <1>4, EveryNumber
<1>6. Range(s) = {s[i] : i \in 1 .. Len(s)}
  BY DEF Range
<1>7. chosen[Len(s)] \in Seq(S) /\ Range(chosen[Len(s)]) = {s[i] : i \in 1 .. Len(s)} \cap T
  <2>1. Len(s) \in Good
    <3> HIDE DEF Good
    <3> QED BY <1>0, <1>5
  <2>2. Len(s) <= Len(s)
    BY <1>0
  <2> QED BY <2>1, <2>2
<1> QED BY <1>2, <1>6, <1>7
(* The first members of a sequence of sequences, in one sequence.          *)
IsFlat(f, s, m) == f = [n \in 1 .. m |-> IF n = 1 THEN s[n] ELSE f[n - 1] \o s[n]]

LEMMA FlatExists ==
  ASSUME NEW s, NEW m \in Nat
  PROVE  \E f : IsFlat(f, s, m)
<1> DEFINE Good == {n \in Nat : \E f : IsFlat(f, s, n)}
<1>1. 0 \in Good
  <2>1. IsFlat([n \in 1 .. 0 |-> <<>>], s, 0)
    BY DEF IsFlat
  <2> QED BY <2>1
<1>2. ASSUME NEW n \in Nat, n \in Good PROVE n + 1 \in Good
  <2> SUFFICES \E f : IsFlat(f, s, n + 1)
    OBVIOUS
  <2>1. PICK g : IsFlat(g, s, n)
    BY <1>2
  <2> DEFINE f == [k \in 1 .. n + 1 |->
                     IF k = n + 1 THEN IF k = 1 THEN s[k] ELSE g[n] \o s[k] ELSE g[k]]
  <2>2. IsFlat(f, s, n + 1)
    <3> DEFINE h == [k \in 1 .. n + 1 |-> IF k = 1 THEN s[k] ELSE f[k - 1] \o s[k]]
    <3>1. SUFFICES ASSUME NEW k \in 1 .. n + 1 PROVE f[k] = h[k]
      <4>1. f = [k \in 1 .. n + 1 |-> f[k]] /\ h = [k \in 1 .. n + 1 |-> h[k]]
        OBVIOUS
      <4>2. (\A k \in 1 .. n + 1 : f[k] = h[k]) => f = h
        BY <4>1
      <4> QED BY <4>2, <3>1 DEF IsFlat
    <3>2. CASE k = 1
      <4>1. h[k] = s[k]
        BY <3>2
      <4>2. f[k] = s[k]
        <5>1. CASE k = n + 1
          BY <3>2, <5>1
        <5>2. CASE k # n + 1
          <6>1. k \in 1 .. n /\ f[k] = g[k]
            BY <5>2
          <6> QED BY <2>1, <3>2, <6>1 DEF IsFlat
        <5> QED BY <5>1, <5>2
      <4> QED BY <4>1, <4>2
    <3>3. CASE k # 1 /\ k = n + 1
      <4>1. k - 1 = n /\ n \in 1 .. n + 1 /\ n # n + 1
        BY <3>3
      <4>2. f[n] = g[n]
        BY <4>1
      <4> QED BY <3>3, <4>1, <4>2
    <3>4. CASE k # 1 /\ k # n + 1
      <4>1. k \in 1 .. n /\ k - 1 \in 1 .. n /\ k - 1 # n + 1
        BY <3>4
      <4>2. f[k] = g[k] /\ f[k - 1] = g[k - 1]
        BY <3>4, <4>1
      <4>3. g[k] = g[k - 1] \o s[k]
        BY <2>1, <3>4, <4>1 DEF IsFlat
      <4> QED BY <3>4, <4>2, <4>3
    <3> QED BY <3>2, <3>3, <3>4
  <2> QED BY <2>2
<1>3. Nat \subseteq Good
  <2> HIDE DEF Good
  <2> QED BY <1>1, <1>2, EveryNumber
<1> QED BY <1>3

LEMMA FlattenIs ==
  ASSUME NEW S, NEW s \in Seq(Seq(S))
  PROVE  FlattenSeq(s) \in Seq(S) /\ Range(FlattenSeq(s)) = UNION {Range(s[i]) : i \in 1 .. Len(s)}
<1>0. Len(s) \in Nat /\ \A i \in 1 .. Len(s) : s[i] \in Seq(S)
  OBVIOUS
<1>1. CASE Len(s) = 0
  <2>1. FlattenSeq(s) = s
    BY <1>1 DEF FlattenSeq
  <2>2. s = <<>> /\ Range(<<>>) = {} /\ 1 .. Len(s) = {}
    BY <1>1 DEF Range
  <2> QED BY <2>1, <2>2, EmptySeq
<1>2. CASE Len(s) # 0
  <2> DEFINE f == CHOOSE g : IsFlat(g, s, Len(s))
  <2>1. IsFlat(f, s, Len(s))
    BY <1>0, FlatExists
  <2>2. FlattenSeq(s) = f[Len(s)]
    BY <1>2 DEF FlattenSeq, IsFlat
  <2> HIDE DEF f
  <2> DEFINE Good == {n \in Nat : n + 1 <= Len(s) =>
                        /\ f[n + 1] \in Seq(S)
                        /\ Range(f[n + 1]) = UNION {Range(s[i]) : i \in 1 .. n + 1}}
  <2>3. 0 \in Good
    <3>1. 1 \in 1 .. Len(s) /\ f[1] = s[1]
      BY <1>0, <1>2, <2>1 DEF IsFlat
    <3>2. UNION {Range(s[i]) : i \in 1 .. 1} = Range(s[1])
      <4>1. 1 .. 1 = {1}
        OBVIOUS
      <4>2. {Range(s[i]) : i \in 1 .. 1} = {Range(s[1])}
        BY <4>1
      <4> QED BY <4>2
    <3>3. 0 + 1 = 1
      OBVIOUS
    <3> QED BY <1>0, <3>1, <3>2, <3>3
  <2>4. ASSUME NEW n \in Nat, n \in Good PROVE n + 1 \in Good
    <3> DEFINE m == n + 1
    <3> SUFFICES ASSUME m + 1 <= Len(s)
                 PROVE  /\ f[m + 1] \in Seq(S)
                        /\ Range(f[m + 1]) = UNION {Range(s[i]) : i \in 1 .. m + 1}
      OBVIOUS
    <3>1. f[m] \in Seq(S) /\ Range(f[m]) = UNION {Range(s[i]) : i \in 1 .. m}
      BY <1>0, <2>4
    <3>2. m \in Nat /\ m + 1 \in 1 .. Len(s) /\ m + 1 # 1 /\ (m + 1) - 1 = m
      BY <1>0
    <3> HIDE DEF m
    <3>3. f[m + 1] = f[m] \o s[m + 1]
      BY <2>1, <3>2 DEF IsFlat
    <3>4. s[m + 1] \in Seq(S)
      BY <1>0, <3>2
    <3>5. f[m + 1] \in Seq(S \cup S) /\ Range(f[m + 1]) = Range(f[m]) \cup Range(s[m + 1])
      BY <3>1, <3>3, <3>4, RangeOfConcat
    <3>6. UNION {Range(s[i]) : i \in 1 .. m + 1} = (UNION {Range(s[i]) : i \in 1 .. m}) \cup Range(s[m + 1])
      <4>1. 1 .. m + 1 = (1 .. m) \cup {m + 1}
        BY <3>2
      <4> DEFINE R == [i \in 1 .. m + 1 |-> Range(s[i])]
      <4>2. {Range(s[i]) : i \in 1 .. m + 1} = {Range(s[i]) : i \in 1 .. m} \cup {Range(s[m + 1])}
        BY <4>1
      <4> QED BY <4>2
    <3>7. S \cup S = S
      OBVIOUS
    <3> QED BY <3>1, <3>5, <3>6, <3>7
  <2>5. Nat \subseteq Good
    <3> HIDE DEF Good
    <3> QED BY <2>3, <2>4, EveryNumber
  <2>6. Len(s) - 1 \in Nat /\ (Len(s) - 1) + 1 = Len(s)
    BY <1>0, <1>2
  <2>7. Len(s) - 1 \in Good
    <3> HIDE DEF Good
    <3> QED BY <2>5, <2>6
  <2> QED BY <2>2, <2>6, <2>7
<1> QED BY <1>1, <1>2

LEMMA LeastNumber ==
  ASSUME NEW S, S \subseteq Nat, S # {}
  PROVE  \E x \in S : \A y \in S : x <= y
<1> DEFINE Good == {n \in Nat : \A y \in S : n <= y}
<1>1. SUFFICES ASSUME \A x \in S : \E y \in S : ~ (x <= y) PROVE FALSE
  OBVIOUS
<1>2. 0 \in Good
  OBVIOUS
<1>3. ASSUME NEW n \in Nat, n \in Good PROVE n + 1 \in Good
  <2>1. \A y \in S : n <= y
    BY <1>3
  <2>2. n \notin S
    BY <1>1, <2>1
  <2> QED BY <2>1, <2>2
<1>4. Nat \subseteq Good
  <2> HIDE DEF Good
  <2> QED BY <1>2, <1>3, EveryNumber
<1>5. PICK x \in S : TRUE
  OBVIOUS
<1>6. x + 1 \in Good
  <2> HIDE DEF Good
  <2> QED BY <1>4, <1>5
<1> QED BY <1>5, <1>6

LEMMA GreatestIndex ==
  ASSUME NEW n \in Nat, NEW S, S \subseteq 1 .. n, S # {}
  PROVE  \E x \in S : \A y \in S : y <= x
<1> DEFINE T == {n - x : x \in S}
<1>1. T \subseteq Nat /\ T # {}
  <2>1. PICK x \in S : TRUE
    OBVIOUS
  <2>2. n - x \in T
    BY <2>1
  <2>3. \A y \in S : n - y \in Nat
    OBVIOUS
  <2> QED BY <2>2, <2>3
<1>2. PICK t \in T : \A y \in T : t <= y
  <2> HIDE DEF T
  <2> QED BY <1>1, LeastNumber
<1>3. PICK x \in S : t = n - x
  OBVIOUS
<1>4. ASSUME NEW y \in S PROVE y <= x
  <2>1. n - x <= n - y
    BY <1>2, <1>3
  <2> QED BY <2>1
<1> QED BY <1>4
-----------------------------------------------------------------------------
(* RuleConfig: the rules of a scan.                                        *)

(* An argument that is done was given up, which is in the errors, or all   *)
(* its documents are loaded and what is not of this version was reported.  *)
IsDone(arg) ==
    \/ Problem("config", arg, Nobody, Nobody) \in errors
    \/ job.configs[arg].kind = "product"
    \/ \A d \in job.configs[arg].docs :
         /\ [arg |-> arg, doc |-> d] \in Range(loaded)
         /\ Versioned(arg, d) \subseteq errors

LoadInv ==
    /\ job \in Jobs /\ at \in Nat \ {0}
    /\ merged \in Seq(Range(merged)) /\ loaded \in Seq(Range(loaded))
    /\ Range(merged) \subseteq Docs /\ \A l \in Range(loaded) : l.doc \in Docs
    /\ step \in {"resolve", "parse"} => at <= Len(job.configs)
    /\ step \in {"rules", "scan"} => at > Len(job.configs)
    /\ step = "parse" => \A d \in Arg.docs :
         d \in parsing \cup Range(merged) \/ Arg.kind = "product"
    /\ \A arg \in DOMAIN job.configs : arg < at => IsDone(arg)

(* A key has a first copy, and no copy is dropped without another that     *)
(* stays.                                                                  *)
LEMMA DeduplicatedKeeps ==
  ASSUME NEW S, NEW all \in Seq(S)
  PROVE  /\ Deduplicated(all) \in Seq(S) /\ Range(Deduplicated(all)) \subseteq Range(all)
         /\ \A r \in Range(all) : \E q \in Range(Deduplicated(all)) : q.key = r.key
<1> DEFINE n == Len(all)
           idx == [k \in DOMAIN all |-> k]
           isLast(k) == \A j \in k + 1 .. Len(all) : all[j].key # all[k].key
           T == {k \in DOMAIN all : isLast(k)}
           lasts == Only(idx, T)
           unique == [k \in DOMAIN lasts |-> all[FirstCopy(all, lasts[k])]]
<1>1. n \in Nat /\ DOMAIN all = 1 .. n /\ \A k \in 1 .. n : all[k] \in S
  BY LenProperties
<1>2. unique = Deduplicated(all)
  BY DEF Deduplicated
<1>3. idx \in Seq(1 .. n) /\ Range(idx) = 1 .. n
  <2>1. idx \in [1 .. n -> 1 .. n]
    BY <1>1
  <2>2. idx \in Seq(1 .. n)
    BY <1>1, <2>1, SeqDef
  <2>3. Range(idx) = 1 .. n
    BY <1>1 DEF Range
  <2> QED BY <2>2, <2>3
<1>4. lasts \in Seq(1 .. n) /\ Range(lasts) = T
  <2>1. T \subseteq 1 .. n
    BY <1>1
  <2> HIDE DEF idx, T
  <2>2. Only(idx, T) \in Seq(1 .. n) /\ Range(Only(idx, T)) = Range(idx) \cap T
    BY <1>3, OnlyIs
  <2> QED BY <1>3, <2>1, <2>2
<1>5. ASSUME NEW k \in 1 .. n
      PROVE  FirstCopy(all, k) \in 1 .. n /\ all[FirstCopy(all, k)].key = all[k].key
  <2> DEFINE same == {j \in 1 .. n : all[j].key = all[k].key}
  <2>1. same \subseteq Nat /\ same # {}
    BY <1>1
  <2>2. PICK j \in same : \A i \in same : j <= i
    <3> HIDE DEF same
    <3> QED BY <2>1, LeastNumber
  <2>3. j \in DOMAIN all /\ all[j].key = all[k].key /\ \A i \in 1 .. j - 1 : all[i].key # all[k].key
    BY <1>1, <2>2
  <2> QED BY <1>1, <2>3 DEF FirstCopy
<1>6. \A i \in DOMAIN lasts : lasts[i] \in 1 .. n
  <2> HIDE DEF lasts
  <2> QED BY <1>4, LenProperties
<1>7. unique \in Seq(S) /\ Range(unique) \subseteq Range(all)
  <2>1. Len(lasts) \in Nat /\ DOMAIN lasts = 1 .. Len(lasts)
    BY <1>4, LenProperties
  <2>2. \A i \in DOMAIN lasts : unique[i] = all[FirstCopy(all, lasts[i])] /\ FirstCopy(all, lasts[i]) \in 1 .. n
    BY <1>5, <1>6
  <2>3. DOMAIN unique = DOMAIN lasts
    OBVIOUS
  <2> DEFINE u == unique
  <2>4. u \in [1 .. Len(lasts) -> S]
    <3> HIDE DEF lasts
    <3> QED BY <1>1, <2>1, <2>2
  <2>5. u \in Seq(S)
    <3> HIDE DEF unique, lasts
    <3> QED BY <2>1, <2>4, SeqDef
  <2>6. Range(u) \subseteq Range(all)
    <3> HIDE DEF unique, lasts
    <3> QED BY <1>1, <2>2, <2>3 DEF Range
  <2> QED BY <2>5, <2>6
<1>8. ASSUME NEW k \in 1 .. n PROVE \E q \in Range(unique) : q.key = all[k].key
  <2> DEFINE same == {j \in 1 .. n : all[j].key = all[k].key}
  <2>1. same \subseteq 1 .. n /\ same # {}
    OBVIOUS
  <2>2. PICK j \in same : \A i \in same : i <= j
    <3> HIDE DEF same
    <3> QED BY <1>1, <2>1, GreatestIndex
  <2>3. j \in 1 .. n /\ all[j].key = all[k].key /\ \A i \in j + 1 .. n : all[i].key # all[j].key
    BY <1>1, <2>2
  <2>4. j \in T
    BY <1>1, <2>3
  <2>5. PICK i \in DOMAIN lasts : lasts[i] = j
    <3> HIDE DEF lasts, T
    <3> QED BY <1>4, <2>4 DEF Range
  <2>6. unique[i] = all[FirstCopy(all, j)] /\ unique[i] \in Range(unique)
    <3> HIDE DEF lasts
    <3> QED BY <2>5 DEF Range
  <2>7. all[FirstCopy(all, j)].key = all[j].key
    BY <1>5, <2>3
  <2> QED BY <2>3, <2>6, <2>7
<1> HIDE DEF unique
<1>9. ASSUME NEW r \in Range(all) PROVE \E q \in Range(unique) : q.key = r.key
  <2>1. PICK k \in 1 .. n : r = all[k]
    BY <1>1 DEF Range
  <2> QED BY <1>8, <2>1
<1> QED BY <1>2, <1>7, <1>9

(* The rules that stay of a document, and what they are called.            *)
LEMMA ValidIs ==
  ASSUME NEW l, Doc(l.doc).rules \in Seq(Range(Doc(l.doc).rules))
  PROVE  LET rs == Doc(l.doc).rules
         IN  /\ Valid(l) \in Seq(Range(Valid(l)))
             /\ \A r \in Range(Valid(l)) : r.key[2] = r.name
             /\ \A k \in DOMAIN rs : k \notin Incompatible(l.doc) /\ rs[k].parses = "yes" =>
                  \E r \in Range(Valid(l)) : r.key = Renamed(l.doc, rs[k]) /\ r.name = rs[k].name
<1> DEFINE rs == Doc(l.doc).rules
           all == [k \in DOMAIN rs |->
                     [key |-> Renamed(l.doc, rs[k]), name |-> rs[k].name,
                      origin |-> Origin(l.arg, rs[k]), from |-> <<l.arg, l.doc, k>>]]
           T == {all[k] : k \in {k \in DOMAIN rs \ Incompatible(l.doc) : rs[k].parses = "yes"}}
<1>1. Valid(l) = Only(all, T)
  BY DEF Valid
<1>2. PICK n \in Nat : n = Len(rs) /\ DOMAIN rs = 1 .. n
  BY LenProperties
<1>3. all \in Seq(Range(all))
  <2>1. all \in [1 .. n -> Range(all)]
    BY <1>2 DEF Range
  <2> HIDE DEF all
  <2> QED BY <2>1, SeqDef
<1>4. Only(all, T) \in Seq(Range(all)) /\ Range(Only(all, T)) = Range(all) \cap T
  <2> HIDE DEF all, T
  <2> QED BY <1>3, OnlyIs
<1>5. Valid(l) \in Seq(Range(Valid(l)))
  <2> HIDE DEF all, T
  <2> QED BY <1>1, <1>4, IsOfRange
<1>6. \A r \in Range(all) : r.key[2] = r.name
  <2> SUFFICES ASSUME NEW k \in DOMAIN rs PROVE all[k].key[2] = all[k].name
    BY DEF Range
  <2>1. all[k].key = Renamed(l.doc, rs[k]) /\ all[k].name = rs[k].name
    OBVIOUS
  <2> QED BY <2>1 DEF Renamed
<1>7. ASSUME NEW k \in DOMAIN rs, k \notin Incompatible(l.doc), rs[k].parses = "yes"
      PROVE  \E r \in Range(Valid(l)) : r.key = Renamed(l.doc, rs[k]) /\ r.name = rs[k].name
  <2>1. all[k] \in T /\ all[k] \in Range(all)
    BY <1>7 DEF Range
  <2>2. all[k] \in Range(Valid(l))
    <3> HIDE DEF all, T
    <3> QED BY <1>1, <1>4, <2>1
  <2>3. all[k].key = Renamed(l.doc, rs[k]) /\ all[k].name = rs[k].name
    OBVIOUS
  <2> QED BY <2>2, <2>3
<1> HIDE DEF all, T
<1> QED BY <1>1, <1>4, <1>5, <1>6, <1>7

(* The argument in hand is done, and the next one is at its turn.          *)
LEMMA NextArgumentKeeps ==
  ASSUME LoadInv, step \in {"resolve", "parse"}, UNCHANGED job,
         NEW docs, NEW problems, NextArgument(docs, problems),
         docs \in Seq(Range(docs)), Range(docs) \subseteq Docs,
         \/ Problem("config", at, Nobody, Nobody) \in problems
         \/ Arg.kind = "product"
         \/ \A d \in Arg.docs : d \in Range(docs) /\ Versioned(at, d) \subseteq problems
  PROVE  LoadInv'
<1> DEFINE more == [k \in 1 .. Len(docs) |-> [arg |-> at, doc |-> docs[k]]]
<1>1. /\ loaded' = loaded \o more /\ errors' = errors \cup problems
      /\ merged' = <<>> /\ at' = at + 1
      /\ step' = IF at = Len(job.configs) THEN "rules" ELSE "resolve"
  BY DEF NextArgument
<1>2. PICK n \in Nat : n = Len(docs) /\ DOMAIN docs = 1 .. n
  BY LenProperties
<1>3. more \in Seq(Range(more)) /\ Range(more) = {[arg |-> at, doc |-> d] : d \in Range(docs)}
  <2>1. more \in [1 .. n -> Range(more)] /\ DOMAIN more = 1 .. n
    BY <1>2 DEF Range
  <2>2. more \in Seq(Range(more))
    <3> HIDE DEF more
    <3> QED BY <2>1, SeqDef
  <2>3. Range(more) = {more[k] : k \in 1 .. n}
    BY <2>1 DEF Range
  <2>4. {more[k] : k \in 1 .. n} = {[arg |-> at, doc |-> d] : d \in Range(docs)}
    BY <1>2 DEF Range
  <2> QED BY <2>2, <2>3, <2>4
<1> HIDE DEF more
<1>4. Range(loaded') = Range(loaded) \cup Range(more) /\ loaded' \in Seq(Range(loaded) \cup Range(more))
  <2>1. loaded \in Seq(Range(loaded))
    BY DEF LoadInv
  <2>2. /\ Range(loaded \o more) = Range(loaded) \cup Range(more)
        /\ loaded \o more \in Seq(Range(loaded) \cup Range(more))
    BY <1>3, <2>1, RangeOfConcat
  <2> QED BY <1>1, <2>2
<1>5. loaded' \in Seq(Range(loaded')) /\ \A l \in Range(loaded') : l.doc \in Docs
  BY <1>3, <1>4 DEF LoadInv
<1>6. merged' \in Seq(Range(merged')) /\ Range(merged') \subseteq Docs
  <2>1. Range(<<>>) = {}
    BY DEF Range
  <2> QED BY <1>1, <2>1, EmptySeq
<1>7. \A arg, d : Versioned(arg, d)' = Versioned(arg, d)
  BY DEF Versioned, Doc, Incompatible
<1>8. ASSUME NEW arg \in DOMAIN job.configs, arg < at' PROVE IsDone(arg)'
  <2>1. CASE arg < at
    <3>1. IsDone(arg)
      BY <2>1 DEF LoadInv
    <3> QED BY <1>1, <1>4, <1>7, <3>1 DEF IsDone
  <2>2. CASE ~(arg < at)
    <3>1. arg = at
      <4>1. PICK c : c = job.configs
        OBVIOUS
      <4>2. c \in Seq(Range(c))
        BY <4>1, JobsAssumption DEF LoadInv
      <4>3. arg \in Nat
        BY <4>1, <4>2, LenProperties
      <4> QED BY <1>1, <1>8, <2>2, <4>3 DEF LoadInv
    <3> QED BY <1>1, <1>3, <1>4, <1>7, <3>1 DEF IsDone, Arg
  <2> QED BY <2>1, <2>2
<1>9. /\ step' \in {"resolve", "parse"} => at' <= Len(job'.configs)
      /\ step' \in {"rules", "scan"} => at' > Len(job'.configs)
  <2>1. PICK m : m = Len(job.configs)
    OBVIOUS
  <2>2. m \in Nat
    BY <2>1, JobsAssumption, LenProperties DEF LoadInv
  <2>3. at \in Nat /\ at <= m
    BY <2>1 DEF LoadInv
  <2> QED BY <1>1, <2>1, <2>2, <2>3
<1>10. step' # "parse" /\ at' \in Nat \ {0} /\ job' \in Jobs
  BY <1>1 DEF LoadInv
<1> QED BY <1>5, <1>6, <1>8, <1>9, <1>10 DEF LoadInv

LEMMA AbandonKeeps ==
  ASSUME LoadInv, step \in {"resolve", "parse"}, UNCHANGED job, Abandon
  PROVE  LoadInv'
<1>1. <<>> \in Seq(Range(<<>>)) /\ Range(<<>>) \subseteq Docs
  BY EmptySeq DEF Range
<1> QED BY <1>1, NextArgumentKeeps DEF Abandon

LEMMA CrashKeeps ==
  ASSUME LoadInv, UNCHANGED job, Crash
  PROVE  LoadInv'
<1>1. step' = "crash" /\ UNCHANGED <<at, parsing, merged, loaded, errors, rules>>
  BY DEF Crash
<1>2. \A arg : IsDone(arg)' = IsDone(arg)
  BY <1>1 DEF IsDone, Versioned, Doc, Incompatible
<1> QED BY <1>1, <1>2 DEF LoadInv

(* The documents of the argument, or, of a product, those of the           *)
(* fail-open server.                                                       *)
LEMMA SubmitKeeps ==
  ASSUME LoadInv, step = "resolve", UNCHANGED job,
         NEW docs, Submit(docs), docs = Arg.docs \/ Arg.kind = "product"
  PROVE  LoadInv'
<1>1. parsing' = docs /\ merged' = <<>> /\ step' = "parse" /\ UNCHANGED <<at, loaded, errors>>
  BY DEF Submit
<1>2. \A arg : IsDone(arg)' = IsDone(arg)
  BY <1>1 DEF IsDone, Versioned, Doc, Incompatible
<1>3. merged' \in Seq(Range(merged')) /\ Range(merged') \subseteq Docs
  BY <1>1, EmptySeq DEF Range
<1> QED BY <1>1, <1>2, <1>3 DEF LoadInv, Arg

LEMMA ParseOneKeeps ==
  ASSUME LoadInv, UNCHANGED job, NEW d \in Docs, ParseOne(d)
  PROVE  LoadInv'
<1>1. step = "parse" /\ d \in parsing
  BY DEF ParseOne
<1>2. Merge(d) \in Seq(Range(Merge(d))) /\ Range(Merge(d)) = Range(merged) \cup {d}
  <2>1. merged \in Seq(Docs)
    <3>1. merged \in Seq(Range(merged)) /\ Range(merged) \subseteq Docs
      BY DEF LoadInv
    <3> QED BY <3>1, SeqMonotonic
  <2>2. Append(merged, d) \in Seq(Docs) /\ Range(Append(merged, d)) = Range(merged) \cup {d}
    BY <2>1, RangeOfAppend, AppendProperties
  <2> QED BY <2>2, IsOfRange DEF Merge
<1>3. Range(Merge(d)) \subseteq Docs
  BY <1>2 DEF LoadInv
<1>4. CASE Crash
  BY <1>4, CrashKeeps
<1>5. CASE Abandon
  BY <1>1, <1>5, AbandonKeeps
<1> DEFINE reports == UNION {Versioned(at, e) : e \in Range(Merge(d)) \cup {d}}
<1>6. CASE parsing = {d} /\ NextArgument(Merge(d), reports)
  <2>1. \A e \in Range(Merge(d)) : Versioned(at, e) \subseteq reports
    OBVIOUS
  <2>2. \A e \in Arg.docs : e \in Range(Merge(d)) \/ Arg.kind = "product"
    BY <1>1, <1>2, <1>6 DEF LoadInv
  <2> HIDE DEF reports
  <2> QED BY <1>1, <1>2, <1>3, <1>6, <2>1, <2>2, NextArgumentKeeps
<1>7. CASE /\ parsing' = parsing \ {d} /\ merged' = Merge(d)
           /\ UNCHANGED <<step, at, loaded, errors, rules>>
  <2>1. \A arg : IsDone(arg)' = IsDone(arg)
    BY <1>7 DEF IsDone, Versioned, Doc, Incompatible
  <2>2. \A e \in Arg.docs : e \in parsing' \cup Range(merged') \/ Arg.kind = "product"
    BY <1>1, <1>2, <1>7 DEF LoadInv
  <2>3. Arg' = Arg
    BY <1>7 DEF Arg
  <2> QED BY <1>2, <1>3, <1>7, <2>1, <2>2, <2>3 DEF LoadInv
<1> QED BY <1>4, <1>5, <1>6, <1>7 DEF ParseOne

LEMMA FromStringKeeps ==
  ASSUME LoadInv, UNCHANGED job, FromString
  PROVE  LoadInv'
<1>1. PICK d \in Arg.docs : ReadString(d)
  BY DEF FromString
<1>2. step = "resolve" /\ Arg.kind = "string"
  BY DEF FromString
<1>3. CASE Crash
  BY <1>3, CrashKeeps
<1>4. CASE Abandon
  BY <1>2, <1>4, AbandonKeeps
<1>5. CASE NextArgument(<<d>>, Versioned(at, d))
  <2>1. Arg \in Range(job.configs)
    <3>1. PICK c : c = job.configs /\ c \in Seq(Range(c))
      BY JobsAssumption DEF LoadInv
    <3>2. at \in 1 .. Len(c)
      BY <1>2, <3>1, LenProperties DEF LoadInv
    <3> QED BY <3>1, <3>2, LenProperties DEF Arg, Range
  <2>2. d \in Docs /\ \A e \in Arg.docs : e = d
    BY <1>2, <2>1, JobsAssumption DEF LoadInv
  <2>3. <<d>> \in Seq(Range(<<d>>)) /\ Range(<<d>>) = {d}
    BY DEF Range
  <2> QED BY <1>2, <1>5, <2>2, <2>3, NextArgumentKeeps
<1> QED BY <1>1, <1>3, <1>4, <1>5 DEF ReadString

(* What of the rules of the documents is in the list of all rules.         *)
LEMMA AllIs ==
  ASSUME LoadInv
  PROVE  /\ All \in Seq(Range(All)) /\ \A r \in Range(All) : r.key[2] = r.name
         /\ \A l \in Range(loaded) : Range(Valid(l)) \subseteq Range(All)
<1>1. PICK n \in Nat : n = Len(loaded) /\ DOMAIN loaded = 1 .. n
  BY LenProperties DEF LoadInv
<1>2. ASSUME NEW l \in Range(loaded)
      PROVE  Valid(l) \in Seq(Range(Valid(l))) /\ \A r \in Range(Valid(l)) : r.key[2] = r.name
  <2>1. Doc(l.doc).rules \in Seq(Range(Doc(l.doc).rules))
    BY JobsAssumption DEF LoadInv, Doc
  <2> QED BY <2>1, ValidIs
<1> DEFINE each == [k \in DOMAIN loaded |-> Valid(loaded[k])]
           S == UNION {Range(Valid(l)) : l \in Range(loaded)}
<1>3. each \in Seq(Seq(S))
  <2>1. ASSUME NEW l \in Range(loaded) PROVE Valid(l) \in Seq(S)
    <3>1. Range(Valid(l)) \subseteq S
      OBVIOUS
    <3> QED BY <1>2, <3>1, SeqMonotonic
  <2>2. \A k \in 1 .. n : each[k] \in Seq(S)
    BY <1>1, <2>1 DEF Range
  <2> HIDE DEF S
  <2>3. each \in [1 .. n -> Seq(S)]
    BY <1>1, <2>2
  <2> HIDE DEF each
  <2> QED BY <2>3, SeqDef
<1>4. Len(each) = n
  BY <1>1
<1>5. All \in Seq(S) /\ Range(All) = UNION {Range(each[i]) : i \in 1 .. n}
  <2>1. All = FlattenSeq(each)
    BY DEF All
  <2> HIDE DEF each, S
  <2> QED BY <1>3, <1>4, <2>1, FlattenIs
<1>6. All \in Seq(Range(All)) /\ Range(All) \subseteq S
  <2> HIDE DEF S
  <2> QED BY <1>5, IsOfRange
<1>7. ASSUME NEW l \in Range(loaded) PROVE Range(Valid(l)) \subseteq Range(All)
  <2>1. PICK k \in 1 .. n : l = loaded[k]
    BY <1>1 DEF Range
  <2>2. each[k] = Valid(l)
    BY <1>1, <2>1
  <2>3. Range(Valid(l)) \in {Range(each[i]) : i \in 1 .. n}
    <3> HIDE DEF each
    <3> QED BY <2>2
  <2> QED BY <1>5, <2>3
<1> QED BY <1>2, <1>6, <1>7

(* A scan that starts has the rules of every document.                     *)
LEMMA GetRulesKeeps ==
  ASSUME LoadInv, UNCHANGED job, GetRules
  PROVE  LoadInv' /\ NoRuleLost'
<1> DEFINE wrong == {Problem("rule", l.arg, l.doc, Nobody) :
                       l \in {l \in Range(loaded) : Broken(l, "no") # {}}}
           unique == Deduplicated(All)
<1>1. /\ step = "rules" /\ UNCHANGED <<at, parsing, merged, loaded>>
      /\ errors' = errors \cup wrong
      /\ rules' = Only(unique, {r \in Range(unique) : Shown(r)})
      /\ step' \in {"refused", "scan"}
      /\ step' = "scan" =>
           /\ \A l \in Range(loaded) : Broken(l, "language") = {}
           /\ \A e \in errors \cup wrong : e.kind = "version"
  BY DEF GetRules
<1> HIDE DEF wrong
<1>2. LoadInv'
  <2>1. \A arg : IsDone(arg) => IsDone(arg)'
    BY <1>1 DEF IsDone, Versioned, Doc, Incompatible
  <2> QED BY <1>1, <2>1 DEF LoadInv
<1>3. SUFFICES ASSUME step' = "scan",
                      NEW arg \in DOMAIN job.configs, NEW d \in job.configs[arg].docs,
                      NEW k \in DOMAIN Doc(d).rules,
                      Shown(Doc(d).rules[k]), job.configs[arg].kind # "product",
                      Problem("version", arg, d, Doc(d).rules[k].name) \notin errors
               PROVE  \E i \in DOMAIN rules' : rules'[i].key = Renamed(d, Doc(d).rules[k])
  <2>1. \A doc : Doc(doc)' = Doc(doc)
    BY DEF Doc
  <2>2. \A doc, r : Renamed(doc, r)' = Renamed(doc, r)
    BY <2>1 DEF Renamed
  <2>3. \A r : Shown(r)' = Shown(r)
    BY DEF Shown
  <2>4. errors \subseteq errors'
    BY <1>1
  <2> QED BY <1>2, <2>1, <2>2, <2>3, <2>4 DEF NoRuleLost
<1> DEFINE r == Doc(d).rules[k]
           l == [arg |-> arg, doc |-> d]
<1>4. l \in Range(loaded) /\ Versioned(arg, d) \subseteq errors
  <2>1. arg < at
    <3>1. PICK c, n : c = job.configs /\ c \in Seq(Range(c)) /\ n = Len(c)
      BY JobsAssumption DEF LoadInv
    <3>2. n \in Nat /\ arg \in 1 .. n
      BY <3>1, LenProperties
    <3>3. at \in Nat /\ at > n
      BY <1>1, <3>1 DEF LoadInv
    <3> QED BY <3>2, <3>3
  <2>2. IsDone(arg)
    BY <2>1 DEF LoadInv
  <2>3. Problem("config", arg, Nobody, Nobody) \notin errors
    BY <1>1, <1>3 DEF Problem
  <2> QED BY <1>3, <2>2, <2>3 DEF IsDone
<1>5. d \in Docs
  BY <1>4 DEF LoadInv
<1>6. Doc(d).rules \in Seq(Range(Doc(d).rules)) /\ r.parses \in {"yes", "no", "language"}
  <2>1. /\ Doc(d).rules \in Seq(Range(Doc(d).rules))
        /\ \A s \in Range(Doc(d).rules) : s.parses \in {"yes", "no", "language"}
    BY <1>5, JobsAssumption DEF LoadInv, Doc
  <2>2. r \in Range(Doc(d).rules)
    BY DEF Range
  <2> QED BY <2>1, <2>2
<1>7. k \notin Incompatible(d)
  <2>1. k \in Incompatible(d) => Problem("version", arg, d, r.name) \in Versioned(arg, d)
    BY DEF Versioned
  <2> QED BY <1>3, <1>4, <2>1
<1>8. r.parses = "yes"
  <2>1. r.parses # "no"
    <3>1. r.parses = "no" => k \in Broken(l, "no")
      BY <1>7 DEF Broken
    <3>2. Broken(l, "no") # {} => Problem("rule", arg, d, Nobody) \in wrong
      BY <1>4 DEF wrong
    <3>3. Problem("rule", arg, d, Nobody).kind # "version"
      BY DEF Problem
    <3> QED BY <1>1, <1>3, <3>1, <3>2, <3>3
  <2>2. r.parses # "language"
    <3>1. r.parses = "language" => k \in Broken(l, "language")
      BY <1>7 DEF Broken
    <3> QED BY <1>1, <1>3, <1>4, <3>1
  <2> QED BY <1>6, <2>1, <2>2
<1>9. PICK q \in Range(Valid(l)) : q.key = Renamed(d, r) /\ q.name = r.name
  BY <1>6, <1>7, <1>8, ValidIs
<1>10. q \in Range(All)
  BY <1>4, <1>9, AllIs
<1>11. /\ unique \in Seq(Range(All)) /\ Range(unique) \subseteq Range(All)
       /\ \E u \in Range(unique) : u.key = q.key
  BY <1>10, AllIs, DeduplicatedKeeps
<1>12. PICK u \in Range(unique) : u.key = q.key
  BY <1>11
<1>13. u.name = r.name
  <2>1. u.key[2] = u.name /\ q.key[2] = q.name
    BY <1>10, <1>11, <1>12, AllIs
  <2> QED BY <1>9, <1>12, <2>1
<1>14. Shown(u)
  BY <1>3, <1>13 DEF Shown
<1>15. u \in Range(rules')
  <2> DEFINE T == {s \in Range(unique) : Shown(s)}
  <2>1. u \in T
    BY <1>12, <1>14
  <2> HIDE DEF T, unique
  <2>2. Range(Only(unique, T)) = Range(unique) \cap T
    BY <1>11, OnlyIs
  <2>3. u \in Range(Only(unique, T))
    BY <1>12, <2>1, <2>2
  <2> QED BY <1>1, <2>3 DEF T
<1> QED BY <1>9, <1>12, <1>15 DEF Range

LEMMA LoadInvInit == Init => LoadInv /\ NoRuleLost
<1> SUFFICES ASSUME Init PROVE LoadInv /\ NoRuleLost
  OBVIOUS
<1>1. <<>> \in Seq(Range(<<>>)) /\ Range(<<>>) = {}
  BY EmptySeq DEF Range
<1>2. step = "resolve" /\ at = 1 /\ merged = <<>> /\ loaded = <<>> /\ job \in Jobs
  BY DEF Init, RuleInit
<1>3. PICK c, n : c = job.configs /\ c \in Seq(Range(c)) /\ c # <<>> /\ n = Len(c)
  BY <1>2, JobsAssumption
<1>4. n \in Nat /\ 1 <= n /\ DOMAIN c = 1 .. n
  BY <1>3, LenProperties, EmptySeq
<1> QED BY <1>1, <1>2, <1>3, <1>4 DEF LoadInv, NoRuleLost

LEMMA LoadInvNext == LoadInv /\ NoRuleLost /\ [Next]_vars => (LoadInv /\ NoRuleLost)'
<1> SUFFICES ASSUME LoadInv, NoRuleLost, [Next]_vars PROVE (LoadInv /\ NoRuleLost)'
  OBVIOUS
<1>1. CASE Loading
  <2>1. UNCHANGED job
    BY <1>1 DEF Loading
  <2>2. CASE GetRules
    BY <2>1, <2>2, GetRulesKeeps
  <2>3. CASE LoadLocal
    <3>0. step = "resolve"
      BY <2>3 DEF LoadLocal
    <3>1. ASSUME Abandon PROVE LoadInv'
      BY <2>1, <3>0, <3>1, AbandonKeeps
    <3>2. ASSUME Arg.docs = {} /\ NextArgument(<<>>, {}) PROVE LoadInv'
      <4>1. <<>> \in Seq(Range(<<>>)) /\ Range(<<>>) \subseteq Docs
        BY EmptySeq DEF Range
      <4> QED BY <2>1, <3>0, <3>2, <4>1, NextArgumentKeeps
    <3>3. ASSUME Submit(Arg.docs) PROVE LoadInv'
      BY <2>1, <3>0, <3>3, SubmitKeeps
    <3>4. LoadInv'
      <4>1. Abandon \/ (Arg.docs = {} /\ NextArgument(<<>>, {})) \/ Submit(Arg.docs)
        BY <2>3 DEF LoadLocal
      <4> QED BY <3>1, <3>2, <3>3, <4>1
    <3> QED BY <2>3, <3>4 DEF LoadLocal, Abandon, NextArgument, Submit, NoRuleLost
  <2>4. CASE Download
    <3>1. LoadInv'
      BY <2>1, <2>4, AbandonKeeps, SubmitKeeps, CrashKeeps DEF Download
    <3> QED BY <2>4, <3>1 DEF Download, Abandon, NextArgument, Submit, Crash, NoRuleLost
  <2>5. CASE FetchProduct
    <3>1. LoadInv'
      BY <2>1, <2>5, AbandonKeeps, SubmitKeeps, CrashKeeps DEF FetchProduct
    <3> QED BY <2>5, <3>1 DEF FetchProduct, Abandon, NextArgument, Submit, Crash, NoRuleLost
  <2>6. CASE FromString
    <3>1. LoadInv'
      BY <2>1, <2>6, FromStringKeeps
    <3> QED BY <2>6, <3>1 DEF FromString, ReadString, Abandon, NextArgument, Crash, NoRuleLost
  <2>7. ASSUME NEW d \in Docs, ParseOne(d) PROVE (LoadInv /\ NoRuleLost)'
    <3>1. LoadInv'
      BY <2>1, <2>7, ParseOneKeeps
    <3>2. step' # "scan"
      BY <2>7 DEF ParseOne, Abandon, NextArgument, Crash
    <3> QED BY <3>1, <3>2 DEF NoRuleLost
  <2> QED BY <1>1, <2>2, <2>3, <2>4, <2>5, <2>6, <2>7 DEF Loading, RuleStep
<1>2. CASE UNCHANGED <<job, ruleVars>>
  <2>1. UNCHANGED <<job, step, at, parsing, merged, loaded, errors, rules>>
    BY <1>2 DEF ruleVars
  <2>2. \A arg : IsDone(arg)' = IsDone(arg)
    BY <2>1 DEF IsDone, Versioned, Doc, Incompatible
  <2>3. LoadInv'
    BY <2>1, <2>2 DEF LoadInv, Arg
  <2>4. NoRuleLost'
    BY <2>1 DEF NoRuleLost, Doc, Renamed, Shown
  <2> QED BY <2>3, <2>4
<1> QED BY <1>1, <1>2 DEF Next, Planning, Announce, Removed, vars

(* A scan that starts has every rule of the documents it was given, or a   *)
(* copy of it, whatever the order in which the threads of                  *)
(* parse_config_files end and however many copies and documents there are. *)
THEOREM EveryRuleIsLoaded == Spec => []NoRuleLost
BY LoadInvInit, LoadInvNext, PTL DEF Spec
-----------------------------------------------------------------------------
(* SupplyChain: the session with semgrep-core.                             *)
(* The process owes the scan one packet if a call waits for it, and none   *)
(* if no call does.                                                        *)
Waiting == pc \in {"ask", "answer"}
Errand == IF pc = "ask" THEN "deps" ELSE "tr"
Refusal == [kind |-> "error", body |-> {}]
Piece == [kind |-> "part", body |-> {}]

OnePacket ==
    \/ up /\ asked = <<last>> /\ pipe = <<>>
    \/ ~up /\ asked = <<>> /\ pipe = <<>>
    \/ asked = <<>> /\ pipe \in {<<last>>, <<Refusal>>, <<Piece>>}

PipeInv ==
    /\ strays \in Nat
    /\ strays = 0 =>
         /\ IF Waiting THEN OnePacket /\ last.kind = Errand
            ELSE asked = <<>> /\ pipe = <<>>
         /\ reply # None => reply = last

(* What the process does; the scan waits, or it does not.                  *)
LEMMA ServeKeepsPacket ==
  ASSUME Serve, PipeInv, UNCHANGED pc
  PROVE  PipeInv'
<1>1. PICK answer \in {Head(asked), Refusal} :
        \E stray \in {<<>>} \cup {s \in {<<[kind |-> "stray", body |-> {}]>>} : strays < Strays} :
              /\ pipe' = pipe \o stray \o <<answer>>
              /\ strays' = strays + Len(stray)
  BY DEF Serve, Refusal
<1>2. PICK stray \in {<<>>, <<[kind |-> "stray", body |-> {}]>>} :
              /\ pipe' = pipe \o stray \o <<answer>>
              /\ strays' = strays + Len(stray)
  BY <1>1
<1>3. up /\ asked # <<>> /\ asked' = Tail(asked) /\ UNCHANGED <<up, last, reply>>
  BY DEF Serve
<1>4. Len(stray) \in {0, 1} /\ (Len(stray) = 0 => stray = <<>>)
  BY <1>2
<1>5. strays' \in Nat /\ (strays' = 0 => strays = 0 /\ stray = <<>>)
  BY <1>2, <1>4 DEF PipeInv
<1>6. SUFFICES ASSUME strays = 0, stray = <<>> PROVE PipeInv'
  BY <1>5 DEF PipeInv
<1>7. Waiting /\ asked = <<last>> /\ pipe = <<>> /\ last.kind = Errand
  BY <1>3, <1>6 DEF PipeInv, OnePacket
<1>8. pipe' = <<answer>> /\ answer \in {last, Refusal} /\ asked' = <<>>
  BY <1>2, <1>3, <1>6, <1>7
<1> QED BY <1>3, <1>5, <1>6, <1>7, <1>8 DEF PipeInv, OnePacket, Waiting, Errand

LEMMA DieKeepsPacket ==
  ASSUME Die, PipeInv, UNCHANGED pc
  PROVE  PipeInv'
<1>1. PICK part \in {<<>>} \cup {p \in {<<Piece>>} : asked # <<>>} : pipe' = pipe \o part
  BY DEF Die, Piece
<1>2. up /\ ~up' /\ asked' = <<>> /\ UNCHANGED <<strays, last, reply>>
  BY DEF Die
<1>3. SUFFICES ASSUME strays = 0 PROVE PipeInv'
  BY <1>2 DEF PipeInv
<1>4. CASE Waiting
  <2>1. CASE asked = <<last>> /\ pipe = <<>>
    <3>1. pipe' \in {<<>>, <<Piece>>}
      BY <1>1, <2>1
    <3> QED BY <1>2, <1>3, <1>4, <3>1 DEF PipeInv, OnePacket, Waiting, Errand
  <2>2. CASE asked = <<>> /\ pipe \in {<<last>>, <<Refusal>>, <<Piece>>}
    <3>1. pipe' = pipe
      BY <1>1, <2>2
    <3> QED BY <1>2, <1>3, <1>4, <2>2, <3>1 DEF PipeInv, OnePacket, Waiting, Errand
  <2> QED BY <1>2, <1>3, <1>4, <2>1, <2>2 DEF PipeInv, OnePacket
<1>5. CASE ~Waiting
  <2>1. asked = <<>> /\ pipe = <<>>
    BY <1>3, <1>5 DEF PipeInv
  <2>2. pipe' = <<>>
    BY <1>1, <2>1
  <2> QED BY <1>2, <1>3, <1>5, <2>2 DEF PipeInv, Waiting, Errand
<1> QED BY <1>4, <1>5

(* A call is made when nothing is owed.                                    *)
LEMMA CallOwesPacket ==
  ASSUME NEW kind, NEW body, Call(kind, body), PipeInv, ~Waiting,
         Waiting', Errand' = kind
  PROVE  PipeInv'
<1>1. last' = [kind |-> kind, body |-> body] /\ asked' = Append(asked, last')
      /\ reply' = None /\ up /\ UNCHANGED <<up, pipe, strays>>
  BY DEF Call, PipeBroken
<1>2. strays = 0 => asked' = <<last'>> /\ pipe' = <<>>
  BY <1>1 DEF PipeInv
<1> QED BY <1>1, <1>2 DEF PipeInv, OnePacket

(* It takes the packet, and returns the answer or nothing.                 *)
LEMMA ReceiveTakesPacket ==
  ASSUME NEW kind, Receive(kind), PipeInv, Waiting, Errand = kind, ~Waiting'
  PROVE  PipeInv' /\ (strays = 0 => reply' \in {None, last})
<1>1. /\ pipe # <<>> \/ ~up
      /\ reply' = IF pipe = <<>> THEN None ELSE Understood(Head(pipe), kind)
      /\ pipe' = IF pipe = <<>> THEN <<>> ELSE Tail(pipe)
      /\ UNCHANGED <<up, asked, strays, last>>
  BY DEF Receive, Readable
<1>2. kind \in {"deps", "tr"}
  BY DEF Errand
<1>3. SUFFICES ASSUME strays = 0 PROVE PipeInv' /\ reply' \in {None, last}
  BY <1>1 DEF PipeInv
<1>4. OnePacket /\ last.kind = kind
  BY <1>3 DEF PipeInv
<1>5. asked = <<>>
  BY <1>1, <1>4 DEF OnePacket
<1>6. CASE pipe = <<>>
  BY <1>1, <1>3, <1>5, <1>6 DEF PipeInv
<1>7. CASE pipe \in {<<last>>, <<Refusal>>, <<Piece>>}
  <2>1. pipe' = <<>> /\ Head(pipe) \in {last, Refusal, Piece} /\ pipe # <<>>
    BY <1>1, <1>7
  <2>2. reply' \in {None, last}
    BY <1>1, <1>2, <1>4, <2>1 DEF Understood, Refusal, Piece
  <2> QED BY <1>1, <1>3, <1>5, <2>1, <2>2 DEF PipeInv
<1> QED BY <1>4, <1>6, <1>7 DEF OnePacket

(* Every other step leaves the session alone, or fails to call, and does   *)
(* not wait.                                                               *)
LEMMA PipeFrame ==
  ASSUME UNCHANGED rpcVars \/ CallFails, PipeInv, ~Waiting, ~Waiting'
  PROVE  PipeInv'
BY DEF PipeInv, rpcVars, CallFails

LEMMA PipeInductive == PipeInv /\ [SupplyNext]_supplyVars => PipeInv'
<1> SUFFICES ASSUME PipeInv, [SupplyNext]_supplyVars PROVE PipeInv'
  OBVIOUS
<1> USE DEF Waiting, Errand
<1>1. CASE TryMatcher
  BY <1>1, PipeFrame DEF TryMatcher
<1>2. CASE AllTried
  BY <1>2, PipeFrame DEF AllTried
<1>3. CASE Filter
  BY <1>3, PipeFrame DEF Filter
<1>4. CASE Begin
  BY <1>4, PipeFrame DEF Begin
<1>5. CASE SourceLocally
  BY <1>5, PipeFrame DEF SourceLocally
<1>6. CASE AskForDeps
  BY <1>6, CallOwesPacket DEF AskForDeps
<1>7. CASE HearDeps
  BY <1>7, ReceiveTakesPacket DEF HearDeps
<1>8. CASE Settle
  BY <1>8, PipeFrame DEF Settle
<1>9. CASE FilterRules
  BY <1>9, PipeFrame DEF FilterRules
<1>10. CASE NextRule
  BY <1>10, PipeFrame DEF NextRule
<1>11. CASE Verdict
  BY <1>11, PipeFrame DEF Verdict
<1>12. CASE AskForVerdict
  <2>1. CASE PipeBroken
    BY <1>12, <2>1, PipeFrame DEF AskForVerdict
  <2>2. CASE ~PipeBroken
    BY <1>12, <2>2, CallOwesPacket DEF AskForVerdict
  <2> QED BY <2>1, <2>2
<1>13. CASE HearVerdict
  BY <1>13, ReceiveTakesPacket DEF HearVerdict
<1>14. CASE RuleDone
  BY <1>14, PipeFrame DEF RuleDone
<1>15. CASE Finish
  BY <1>15, PipeFrame DEF Finish
<1>16. CASE ServerAnswers
  BY <1>16, ServeKeepsPacket DEF ServerAnswers, Other
<1>17. CASE ServerDies
  BY <1>17, DieKeepsPacket DEF ServerDies, Other
<1>18. CASE UNCHANGED supplyVars
  BY <1>18 DEF supplyVars, rpcVars, PipeInv, OnePacket
<1> QED
  BY <1>1, <1>2, <1>3, <1>4, <1>5, <1>6, <1>7, <1>8, <1>9, <1>10, <1>11, <1>12, <1>13,
     <1>14, <1>15, <1>16, <1>17, <1>18 DEF SupplyNext, Scan

(* A call to semgrep-core returns nothing, or the answer to this very call *)
(* and not that of an earlier one (rpc.py): the scan asks again only after *)
(* it took the packet it was owed, unless the process wrote more of them   *)
(* than it was asked for.                                                  *)
THEOREM SupplyChainAnswersAreOwn == SupplySpec => []AnswersAreOwn
<1>1. SupplyInit => PipeInv
  BY DEF SupplyInit, RpcInit, PipeInv, Waiting
<1>2. PipeInv => AnswersAreOwn
  BY DEF PipeInv, AnswersAreOwn
<1> QED BY <1>1, <1>2, PipeInductive, PTL DEF SupplySpec
-----------------------------------------------------------------------------
(* Every file is of one ecosystem, by its name.                            *)
EcosystemOf(name) ==
    IF name \in {"bun.lock", "bun.lockb", "package-lock.json", "yarn.lock", "pnpm-lock.yaml",
                 "package.json"} THEN "npm"
    ELSE IF name \in {"pom.xml", "maven_dep_tree.txt", "gradle.lockfile", "build.sbt",
                      "build.gradle", "build.gradle.kts", "settings.gradle",
                      "settings.gradle.kts"} THEN "maven"
    ELSE IF name \in {"Gemfile.lock", "Gemfile"} THEN "gem"
    ELSE IF name = "go.mod" THEN "gomod"
    ELSE IF name \in {"Cargo.lock", "Cargo.toml"} THEN "cargo"
    ELSE IF name \in {"composer.lock", "composer.json"} THEN "composer"
    ELSE IF name \in {"packages.lock.json", "*.csproj"} THEN "nuget"
    ELSE IF name \in {"pubspec.lock", "pubspec.yaml"} THEN "pub"
    ELSE IF name \in {"Package.resolved", "Package.swift"} THEN "swiftpm"
    ELSE IF name \in {"mix.lock", "mix.exs"} THEN "hex"
    ELSE "pypi"

IsMatcher(m) ==
    /\ m.form \in {"pip", "pair", "lone", "gradle"}
    /\ m.eco # "-"
    /\ m.form = "pip" => m.eco = "pypi"
    /\ m.form = "gradle" => m.eco = "maven"
    /\ m.form = "pair" => EcosystemOf(m.lock) = m.eco /\ m.lock # "-"
    /\ m.form \in {"pair", "lone"} => EcosystemOf(m.man) = m.eco /\ m.man # "-"

LEMMA EachIsMatcher == \A i \in 1 .. 22 : IsMatcher(MATCHERS[i])
<1>1. IsMatcher(MATCHERS[1]) /\ IsMatcher(MATCHERS[2]) /\ IsMatcher(MATCHERS[3])
      /\ IsMatcher(MATCHERS[4]) /\ IsMatcher(MATCHERS[5]) /\ IsMatcher(MATCHERS[6])
  BY DEF MATCHERS, IsMatcher, EcosystemOf, Pair, Lone, Special
<1>2. IsMatcher(MATCHERS[7]) /\ IsMatcher(MATCHERS[8]) /\ IsMatcher(MATCHERS[9])
      /\ IsMatcher(MATCHERS[10]) /\ IsMatcher(MATCHERS[11]) /\ IsMatcher(MATCHERS[12])
  BY DEF MATCHERS, IsMatcher, EcosystemOf, Pair, Lone, Special
<1>3. IsMatcher(MATCHERS[13]) /\ IsMatcher(MATCHERS[14]) /\ IsMatcher(MATCHERS[15])
      /\ IsMatcher(MATCHERS[16]) /\ IsMatcher(MATCHERS[17])
  BY DEF MATCHERS, IsMatcher, EcosystemOf, Pair, Lone, Special
<1>4. IsMatcher(MATCHERS[18]) /\ IsMatcher(MATCHERS[19]) /\ IsMatcher(MATCHERS[20])
      /\ IsMatcher(MATCHERS[21]) /\ IsMatcher(MATCHERS[22])
  BY DEF MATCHERS, IsMatcher, EcosystemOf, Pair, Lone, Special
<1>5. \A i \in 1 .. 22 : i = 1 \/ i = 2 \/ i = 3 \/ i = 4 \/ i = 5 \/ i = 6 \/ i = 7 \/ i = 8 \/ i = 9 \/ i = 10 \/ i = 11
                        \/ i = 12 \/ i = 13 \/ i = 14 \/ i = 15 \/ i = 16 \/ i = 17 \/ i = 18 \/ i = 19 \/ i = 20 \/ i = 21 \/ i = 22
  OBVIOUS
<1> QED BY <1>1, <1>2, <1>3, <1>4, <1>5

LEMMA MatchersLen == Len(MATCHERS) = 22
BY DEF MATCHERS

(* What the matchers make: of one file, or a group of requirements.        *)
IsSourceOf(src, eco) ==
    /\ Display(src) # NoFile
    /\ \A f \in {src.man, src.lock} : f # NoFile => EcosystemOf(f.name) = eco
HasParser(src) == Lockfile(src) /\ src.lock.name \notin Unparsable
IsMade(s) ==
    /\ s.eco # "-"
    /\ s.srcs \in Seq(Range(s.srcs))
    /\ \A src \in Range(s.srcs) : IsSourceOf(src, s.eco)
    /\ Len(s.srcs) = 1 \/ \A src \in Range(s.srcs) : HasParser(src)
AreMade(subs) == subs \in Seq(Range(subs)) /\ \A s \in Range(subs) : IsMade(s)

LEMMA OneSource ==
  ASSUME NEW root, NEW eco, eco # "-", NEW man, NEW lock, man # NoFile \/ lock # NoFile,
         man # NoFile => EcosystemOf(man.name) = eco,
         lock # NoFile => EcosystemOf(lock.name) = eco
  PROVE  IsMade(Subproject(root, eco, <<Source(man, lock)>>))
<1> DEFINE src == Source(man, lock)
<1>1. src.man = man /\ src.lock = lock
  BY DEF Source
<1>2. IsSourceOf(src, eco)
  BY <1>1 DEF IsSourceOf, Display, Lockfile
<1> HIDE DEF src
<1>3. Range(<<src>>) = {src} /\ Len(<<src>>) = 1 /\ <<src>> \in Seq({src})
  BY DEF Range
<1> QED BY <1>2, <1>3 DEF IsMade, Subproject, src

LEMMA MadeOf ==
  ASSUME NEW subs, IsFiniteSet(subs), \A s \in subs : IsMade(s), NEW used
  PROVE  AreMade(Made(subs, used).subs)
BY ListOfSet DEF Made, AreMade

LEMMA NamedFile ==
  ASSUME NEW fs, NoFile \notin fs, NEW name, NEW f \in Named(fs, name)
  PROVE  f \in fs /\ f # NoFile /\ f.name = name
BY DEF Named

LEMMA ManifestIs ==
  ASSUME NEW lock, NEW name, NEW fs
  PROVE  LET man == ManifestOf(lock, name, fs)
         IN  man # NoFile => man.name = name /\ man \in fs
BY DEF ManifestOf, At

LEMMA FiniteNamed ==
  ASSUME NEW fs, IsFiniteSet(fs), NEW name
  PROVE  IsFiniteSet(Named(fs, name))
BY FS_Subset DEF Named

LEMMA PairsMade ==
  ASSUME NEW m, IsMatcher(m), m.form = "pair", NEW fs, IsFiniteSet(fs), NoFile \notin fs
  PROVE  AreMade(MakePairs(m, fs).subs)
<1> DEFINE locks == Named(fs, m.lock)
           paired == {ManifestOf(l, m.man, fs) : l \in locks} \ {NoFile}
           alone == IF m.lone THEN Named(fs, m.man) \ paired ELSE {}
           f == [l \in locks |-> Subproject(l.dir, m.eco, <<Source(ManifestOf(l, m.man, fs), l)>>)]
           g == [a \in alone |-> Subproject(a.dir, m.eco, <<Source(a, NoFile)>>)]
           subs == {f[l] : l \in locks} \cup {g[a] : a \in alone}
<1>1. IsFiniteSet(locks) /\ IsFiniteSet(alone)
  <2>1. alone \in SUBSET Named(fs, m.man)
    OBVIOUS
  <2> QED BY <2>1, FiniteNamed, FS_Subset
<1>2. IsFiniteSet({f[l] : l \in locks}) /\ IsFiniteSet({g[a] : a \in alone})
  <2> HIDE DEF locks, alone
  <2> QED BY <1>1, FiniteImage
<1>3. IsFiniteSet(subs)
  BY <1>2, FS_Union
<1>4. ASSUME NEW l \in locks PROVE IsMade(f[l])
  <2>1. l # NoFile /\ l.name = m.lock
    BY NamedFile
  <2>2. IsMade(Subproject(l.dir, m.eco, <<Source(ManifestOf(l, m.man, fs), l)>>))
    BY <2>1, OneSource, ManifestIs DEF IsMatcher
  <2> QED BY <2>2
<1>5. ASSUME NEW a \in alone PROVE IsMade(g[a])
  <2>1. a # NoFile /\ a.name = m.man
    BY NamedFile
  <2>2. IsMade(Subproject(a.dir, m.eco, <<Source(a, NoFile)>>))
    BY <2>1, OneSource DEF IsMatcher
  <2> QED BY <2>2
<1>6. MakePairs(m, fs) = Made(subs, paired \cup alone \cup locks)
  BY DEF MakePairs
<1> QED
  <2> HIDE DEF subs, f, g
  <2>1. \A s \in subs : IsMade(s)
    BY <1>4, <1>5 DEF subs
  <2> QED BY <1>3, <1>6, <2>1, MadeOf

LEMMA LoneMade ==
  ASSUME NEW m, IsMatcher(m), m.form = "lone", NEW fs, IsFiniteSet(fs), NoFile \notin fs
  PROVE  AreMade(MakeLone(m, fs).subs)
<1> DEFINE mans == Named(fs, m.man)
           f == [a \in mans |-> Subproject(a.dir, m.eco, <<Source(a, NoFile)>>)]
           subs == {f[a] : a \in mans}
<1>1. IsFiniteSet(subs)
  <2> HIDE DEF mans
  <2> QED BY FiniteNamed, FiniteImage DEF mans
<1>2. ASSUME NEW a \in mans PROVE IsMade(f[a])
  <2>1. a # NoFile /\ a.name = m.man
    BY NamedFile
  <2>2. IsMade(Subproject(a.dir, m.eco, <<Source(a, NoFile)>>))
    BY <2>1, OneSource DEF IsMatcher
  <2> QED BY <2>2
<1>3. MakeLone(m, fs) = Made(subs, mans)
  BY DEF MakeLone
<1> QED
  <2> HIDE DEF subs, f
  <2>1. \A s \in subs : IsMade(s)
    BY <1>2 DEF subs
  <2> QED BY <1>1, <1>3, <2>1, MadeOf

LEMMA InOfIs ==
  ASSUME NEW req, NEW fs, req.name \in DOMAIN RequirementsIn
  PROVE  LET man == InOf(req, fs)
         IN  man # NoFile => EcosystemOf(man.name) = "pypi"
<1>1. EcosystemOf(RequirementsIn[req.name]) = "pypi" /\ EcosystemOf("requirements.in") = "pypi"
  BY DEF RequirementsIn, EcosystemOf
<1>2. At(req.dir, RequirementsIn[req.name]).name = RequirementsIn[req.name]
  BY DEF At
<1> QED BY <1>1, <1>2, ManifestIs DEF InOf

LEMMA PipMade ==
  ASSUME NEW fs, IsFiniteSet(fs), NoFile \notin fs
  PROVE  AreMade(MakePip(fs).subs)
<1> DEFINE reqs == {f \in fs : f.name \in DOMAIN RequirementsIn /\ Mentioned(f)}
           ins == {f \in fs : f.name \in Range(RequirementsIn) /\ Mentioned(f)}
           In(root) == {f \in reqs : RequirementsRoot(f) = root}
           Of(root) == {Source(InOf(f, fs), f) : f \in In(root)}
           root_ == [f \in reqs |-> RequirementsRoot(f)]
           roots == {root_[f] : f \in reqs}
           sub == [root \in roots |-> Subproject(root, "pypi", SetToSeq(Of(root)))]
           subs == {sub[root] : root \in roots}
<1>1. IsFiniteSet(reqs)
  BY FS_Subset
<1>2. IsFiniteSet(roots)
  <2> HIDE DEF reqs
  <2> QED BY <1>1, FiniteImage
<1>3. IsFiniteSet(subs)
  <2> HIDE DEF roots
  <2> QED BY <1>2, FiniteImage
<1>4. ASSUME NEW root PROVE IsMade(Subproject(root, "pypi", SetToSeq(Of(root))))
  <2> DEFINE src == [f \in In(root) |-> Source(InOf(f, fs), f)]
  <2>1. IsFiniteSet(In(root))
    BY <1>1, FS_Subset
  <2>2. Of(root) = {src[f] : f \in In(root)}
    OBVIOUS
  <2>3. IsFiniteSet(Of(root))
    <3>1. DOMAIN src = In(root) /\ src = [f \in In(root) |-> src[f]]
      OBVIOUS
    <3>2. IsFiniteSet({src[f] : f \in In(root)})
      <4> HIDE DEF In, src
      <4> QED BY <2>1, <3>1, FiniteImage
    <3> QED BY <2>2, <3>2
  <2>4. ASSUME NEW s \in Of(root) PROVE IsSourceOf(s, "pypi") /\ HasParser(s)
    <3>1. PICK f \in In(root) : s = Source(InOf(f, fs), f)
      OBVIOUS
    <3>2. f \in fs /\ f # NoFile /\ f.name \in DOMAIN RequirementsIn
      OBVIOUS
    <3>3. s.man = InOf(f, fs) /\ s.lock = f
      BY <3>1 DEF Source
    <3>4. EcosystemOf(f.name) = "pypi" /\ f.name \notin Unparsable
      BY <3>2 DEF EcosystemOf, RequirementsIn, Unparsable
    <3> HIDE DEF In, Of
    <3> QED BY <3>2, <3>3, <3>4, InOfIs DEF IsSourceOf, HasParser, Display, Lockfile
  <2> HIDE DEF Of
  <2>5. SetToSeq(Of(root)) \in Seq(Of(root)) /\ Range(SetToSeq(Of(root))) = Of(root)
    BY <2>3, ListOfSet
  <2> QED BY <2>4, <2>5 DEF IsMade, Subproject
<1>5. MakePip(fs) = Made(subs, ins \cup reqs)
  BY DEF MakePip
<1> QED
  <2> HIDE DEF reqs, ins, Of, root_
  <2>1. \A s \in subs : IsMade(s)
    BY <1>4
  <2> HIDE DEF subs
  <2> QED BY <1>3, <1>5, <2>1, MadeOf

LEMMA FirstOfIs ==
  ASSUME NEW names, names \in {Builds, Settings}, NEW dir, NEW fs
  PROVE  LET f == FirstOf(names, dir, fs)
         IN  f # NoFile => EcosystemOf(f.name) = "maven"
<1>1. names \in Seq(Range(names)) /\ \A n \in Range(names) : EcosystemOf(n) = "maven"
  BY DEF Builds, Settings, Range, EcosystemOf
<1> DEFINE there == Only(names, {n \in Range(names) : At(dir, n) \in fs})
<1>2. there \in Seq(Range(names))
  BY <1>1, OnlyIs
<1>3. FirstOf(names, dir, fs) = IF there = <<>> THEN NoFile ELSE At(dir, Head(there))
  BY DEF FirstOf
<1>4. there # <<>> => Head(there) \in Range(names)
  <2> HIDE DEF there
  <2> QED BY <1>2, HeadAndTail
<1> HIDE DEF there
<1> QED BY <1>1, <1>3, <1>4 DEF At

LEMMA GradleMade ==
  ASSUME NEW fs, IsFiniteSet(fs), NoFile \notin fs, NEW made \in MakeGradle(fs)
  PROVE  AreMade(made.subs)
<1> DEFINE Build(dir) == FirstOf(Builds, dir, fs)
           Setting(dir) == FirstOf(Settings, dir, fs)
           First(a, b) == IF a = NoFile THEN b ELSE a
           locks == Named(fs, "gradle.lockfile")
           locked == {l.dir : l \in locks}
           settings == {f \in fs : /\ f.name \in Range(Settings)
                                   /\ f \notin {Setting(d) : d \in locked}}
           used == {Build(f.dir) : f \in locks \cup settings} \cup
                   {Setting(d) : d \in locked} \cup settings \cup locks
           rest == {f \in fs : f.name \in Range(Builds)} \ used
           g == [l \in locks |->
                   Subproject(l.dir, "maven", <<Source(First(Build(l.dir), Setting(l.dir)), l)>>)]
           h == [f \in settings |->
                   Subproject(f.dir, "maven", <<Source(First(Build(f.dir), f), NoFile)>>)]
           k == [b \in rest |-> Subproject(b.dir, "maven", <<Source(b, NoFile)>>)]
<1>1. IsFiniteSet(locks) /\ IsFiniteSet(settings) /\ IsFiniteSet(rest)
  <2>1. settings \in SUBSET fs /\ rest \in SUBSET fs
    OBVIOUS
  <2> HIDE DEF settings, rest
  <2> QED BY <2>1, FiniteNamed, FS_Subset
<1>2. PICK builds \in Taken(rest, locked \cup {f.dir : f \in settings}) :
         made = Made({g[l] : l \in locks} \cup {h[f] : f \in settings} \cup
                        {Subproject(b.dir, "maven", <<Source(b, NoFile)>>) : b \in builds},
                     (used \cup builds) \ {NoFile})
  BY DEF MakeGradle
<1>3. builds \in SUBSET rest
  BY DEF Taken
<1>4. {Subproject(b.dir, "maven", <<Source(b, NoFile)>>) : b \in builds} = {k[b] : b \in builds}
  BY <1>3
<1> DEFINE subs == {g[l] : l \in locks} \cup {h[f] : f \in settings} \cup {k[b] : b \in builds}
<1>5. IsFiniteSet({g[l] : l \in locks})
  <2>1. DOMAIN g = locks /\ g = [l \in locks |-> g[l]]
    OBVIOUS
  <2> HIDE DEF locks, g
  <2> QED BY <1>1, <2>1, FiniteImage
<1>6. IsFiniteSet({h[f] : f \in settings})
  <2> HIDE DEF settings
  <2> QED BY <1>1, FiniteImage
<1>7. IsFiniteSet({k[b] : b \in rest})
  <2> HIDE DEF rest
  <2> QED BY <1>1, FiniteImage
<1>8. {k[b] : b \in builds} \in SUBSET {k[b] : b \in rest}
  BY <1>3
<1>9. IsFiniteSet({k[b] : b \in builds})
  <2> HIDE DEF k, rest
  <2> QED BY <1>7, <1>8, FS_Subset
<1>10. IsFiniteSet(subs)
  <2> HIDE DEF g, h, k, locks, settings, rest
  <2> QED BY <1>5, <1>6, <1>9, FS_Union
<1>11. ASSUME NEW l \in locks PROVE IsMade(g[l])
  <2>1. l # NoFile /\ l.name = "gradle.lockfile"
    BY NamedFile
  <2>2. EcosystemOf(l.name) = "maven"
    BY <2>1 DEF EcosystemOf
  <2> DEFINE man == First(Build(l.dir), Setting(l.dir))
  <2>3. man # NoFile => EcosystemOf(man.name) = "maven"
    BY FirstOfIs
  <2>4. g[l] = Subproject(l.dir, "maven", <<Source(man, l)>>)
    OBVIOUS
  <2> HIDE DEF man, g
  <2> QED BY <2>1, <2>2, <2>3, <2>4, OneSource
<1>12. \A f \in fs : f.name \in Range(Settings) \cup Range(Builds) =>
           f # NoFile /\ EcosystemOf(f.name) = "maven"
  BY DEF Settings, Builds, Range, EcosystemOf
<1>13. ASSUME NEW f \in settings PROVE IsMade(h[f])
  <2> DEFINE man == First(Build(f.dir), f)
  <2>1. f # NoFile /\ EcosystemOf(f.name) = "maven"
    BY <1>12
  <2>2. man # NoFile /\ EcosystemOf(man.name) = "maven"
    BY <2>1, FirstOfIs
  <2>3. h[f] = Subproject(f.dir, "maven", <<Source(man, NoFile)>>)
    OBVIOUS
  <2> HIDE DEF man, h
  <2> QED BY <2>1, <2>2, <2>3, OneSource
<1>14. ASSUME NEW b \in rest PROVE IsMade(k[b])
  <2>1. b # NoFile /\ EcosystemOf(b.name) = "maven"
    BY <1>12
  <2>2. k[b] = Subproject(b.dir, "maven", <<Source(b, NoFile)>>)
    OBVIOUS
  <2> HIDE DEF k
  <2> QED BY <2>1, <2>2, OneSource
<1>15. \A s \in subs : IsMade(s)
  <2> HIDE DEF g, h, k, locks, settings, rest
  <2> QED BY <1>3, <1>11, <1>13, <1>14
<1>16. made = Made(subs, (used \cup builds) \ {NoFile})
  <2> HIDE DEF g, h, k, locks, settings, rest, used
  <2> QED BY <1>2, <1>4
<1> HIDE DEF subs, used
<1> QED BY <1>10, <1>15, <1>16, MadeOf

LEMMA MatcherMakes ==
  ASSUME NEW m, IsMatcher(m), NEW fs, IsFiniteSet(fs), NoFile \notin fs,
         NEW made \in Makes(m, fs)
  PROVE  AreMade(made.subs)
<1>1. CASE m.form = "pip"
  BY <1>1, PipMade DEF Makes
<1>2. CASE m.form = "pair"
  BY <1>2, PairsMade DEF Makes
<1>3. CASE m.form = "lone"
  BY <1>3, LoneMade DEF Makes
<1>4. CASE m.form = "gradle"
  BY <1>4, GradleMade DEF Makes
<1> QED BY <1>1, <1>2, <1>3, <1>4 DEF IsMatcher
-----------------------------------------------------------------------------
(* What the filter of a diff scan looks at.                                *)
RelevantNow ==
    IF scan.all THEN {Hash(s) : s \in Range(found)}
    ELSE Relevant(scan.changed, scan.code, scan.rules, found)

LEMMA HashesOfAll ==
  ASSUME NEW subs, subs \in Seq(Range(subs)), NEW changed,
         Cardinality(ByFile(changed, subs)) = Len(subs)
  PROVE  ByFile(changed, subs) = {Hash(s) : s \in Range(subs)}
<1> DEFINE hash == [i \in 1 .. Len(subs) |-> Hash(subs[i])]
           all == {hash[i] : i \in 1 .. Len(subs)}
           some == ByFile(changed, subs)
<1>1. Len(subs) \in Nat /\ DOMAIN subs = 1 .. Len(subs)
  BY LenProperties
<1>2. IsFiniteSet(1 .. Len(subs)) /\ Cardinality(1 .. Len(subs)) = Len(subs)
  <2>1. PICK n \in Nat : n = Len(subs)
    BY <1>1
  <2>2. IsFiniteSet(1 .. n) /\ Cardinality(1 .. n) = IF 1 > n THEN 0 ELSE n - 1 + 1
    BY FS_Interval, 1 \in Int, n \in Int
  <2>3. Cardinality(1 .. n) = n
    BY <2>2
  <2> QED BY <2>1, <2>2, <2>3
<1>3. IsFiniteSet(all) /\ Cardinality(all) <= Len(subs)
  BY <1>2, FiniteImage
<1>4. all = {Hash(s) : s \in Range(subs)}
  BY <1>1 DEF Range
<1>5. some \in SUBSET all
  BY <1>4 DEF ByFile
<1> HIDE DEF all, some
<1>6. IsFiniteSet(some) /\ Cardinality(some) <= Cardinality(all)
      /\ (Cardinality(all) = Cardinality(some) => all = some)
  BY <1>3, <1>5, FS_Subset
<1>7. Cardinality(all) \in Nat /\ Cardinality(some) \in Nat /\ Cardinality(some) = Len(subs)
  BY <1>3, <1>6, FS_CardinalityType DEF some
<1> QED BY <1>3, <1>4, <1>6, <1>7 DEF some

(* The closest subproject of code that a rule can match is relevant.       *)
LEMMA ClosestIsRelevant ==
  ASSUME found \in Seq(Range(found)),
         NEW c \in scan.code, NEW rule \in Range(scan.rules), c.lang \in rule.langs,
         NEW eco \in rule.ecos,
         Closest(c.dir, eco, found) \in Range(found), Closest(c.dir, eco, found).eco # "-"
  PROVE  Hash(Closest(c.dir, eco, found)) \in RelevantNow
<1> DEFINE closest == Closest(c.dir, eco, found)
           byFile == ByFile(scan.changed, found)
<1>1. CASE scan.all
  BY <1>1 DEF RelevantNow
<1>2. CASE ~scan.all /\ Cardinality(byFile) = Len(found)
  <2>1. RelevantNow = byFile
    BY <1>2 DEF RelevantNow, Relevant
  <2>2. byFile = {Hash(s) : s \in Range(found)}
    BY <1>2, HashesOfAll
  <2> QED BY <2>1, <2>2
<1>3. CASE ~scan.all /\ Cardinality(byFile) # Len(found)
  <2>1. RelevantNow = byFile \cup ByCode(scan.code, scan.rules, found)
    BY <1>3 DEF RelevantNow, Relevant
  <2>2. eco \in EcosystemsOf(c.lang, scan.rules)
    BY DEF EcosystemsOf
  <2>3. Hash(closest) # Hash(NoSub)
    BY DEF Hash, NoSub, Subproject
  <2> HIDE DEF closest
  <2>4. Hash(closest) \in {Hash(Closest(c.dir, e, found)) : e \in EcosystemsOf(c.lang, scan.rules)}
    BY <2>2 DEF closest
  <2>5. {Hash(Closest(c.dir, e, found)) : e \in EcosystemsOf(c.lang, scan.rules)}
          \in {{Hash(Closest(d.dir, e, found)) : e \in EcosystemsOf(d.lang, scan.rules)} : d \in scan.code}
    OBVIOUS
  <2>6. Hash(closest) \in
          UNION {{Hash(Closest(d.dir, e, found)) : e \in EcosystemsOf(d.lang, scan.rules)} : d \in scan.code}
    BY <2>4, <2>5
  <2>7. Hash(closest) \in ByCode(scan.code, scan.rules, found)
    BY <2>3, <2>6 DEF ByCode
  <2>8. Hash(closest) \in RelevantNow
    BY <2>1, <2>7
  <2> QED BY <2>8 DEF closest
<1> QED BY <1>1, <1>2, <1>3

-----------------------------------------------------------------------------
(* The subprojects, and what became of them.                               *)
LocksIn(deps, sub) == \A d \in deps : d.lock = NoFile \/ d.lock \in DisplayPaths(sub)

FoundInv ==
    /\ scan \in Scans /\ files \subseteq scan.files /\ tried \in 0 .. 22
    /\ AreMade(found)
    /\ pc \in {"find", "filter"} =>
         queue = <<>> /\ resolved = <<>> /\ unresolved = <<>> /\ findings = {}

SkippedInv ==
    /\ unresolved \in Seq(Range(unresolved))
    /\ \A u \in Range(unresolved) :
         u.why = "skipped" => u.sub \in Range(found) /\ Hash(u.sub) \notin RelevantNow

ResolvedInv ==
    /\ queue \in Seq(Range(found))
    /\ resolved \in Seq(Range(resolved))
    /\ \A r \in Range(resolved) : r.sub \in Range(found)
    /\ strays = 0 => \A r \in Range(resolved) : LocksIn(r.deps, r.sub)

SourceInv ==
    /\ cur.why # "skipped"
    /\ pc \in {"source", "ask"} =>
         /\ queue # <<>>
         /\ cur.srcs \in Seq(Range(Head(queue).srcs))
         /\ strays = 0 => LocksIn(cur.deps, Head(queue))
    /\ pc = "ask" => cur.srcs # <<>> /\ last.body = {Head(cur.srcs)}

(* A reachable finding is about code that its rule matches, and about a    *)
(* resolved subproject of an ecosystem of the rule.                        *)
IsAbout(f, c, rule, r) ==
    /\ f.dir = c.dir /\ c.lang \in rule.langs
    /\ r.sub.eco \in rule.ecos /\ f.lock \in DisplayPaths(r.sub) /\ f.lock # NoFile
ReachInv ==
    /\ running \subseteq Range(scan.rules)
    /\ strays = 0 =>
         /\ \A f \in findings : f.reach =>
              \E c \in scan.code, rule \in Range(scan.rules), r \in Range(resolved) :
                  IsAbout(f, c, rule, r)
         /\ pc = "answer" => \A f \in last.body : ~f.reach

ClosestInv == PipeInv /\ FoundInv /\ SkippedInv /\ ResolvedInv /\ SourceInv /\ ReachInv

LEMMA ClosestFollows == ClosestInv => ClosestIsUsed
<1> SUFFICES ASSUME ClosestInv, strays = 0,
                    NEW f \in findings, f.reach,
                    NEW r \in Range(resolved), f.lock \in SourceFiles(r.sub),
                    Closest(f.dir, r.sub.eco, found) # r.sub,
                    IsSkipped(Closest(f.dir, r.sub.eco, found))
             PROVE  FALSE
  BY DEF ClosestIsUsed
<1> DEFINE closest == Closest(f.dir, r.sub.eco, found)
<1>1. PICK c \in scan.code, rule \in Range(scan.rules), q \in Range(resolved) : IsAbout(f, c, rule, q)
  BY DEF ClosestInv, ReachInv
<1>2. q.sub \in Range(found) /\ r.sub \in Range(found)
  BY DEF ClosestInv, ResolvedInv
<1>3. IsMade(q.sub) /\ IsMade(r.sub)
  BY <1>2 DEF ClosestInv, FoundInv, AreMade
<1>4. EcosystemOf(f.lock.name) = q.sub.eco
  <2>1. PICK src \in Range(q.sub.srcs) : f.lock = Display(src)
    BY <1>1 DEF IsAbout, DisplayPaths
  <2>2. f.lock \in {src.man, src.lock} /\ f.lock # NoFile
    BY <1>1, <2>1 DEF IsAbout, Display
  <2> QED BY <1>3, <2>2 DEF IsMade, IsSourceOf
<1>5. EcosystemOf(f.lock.name) = r.sub.eco
  <2>1. PICK both \in {{src.man, src.lock} : src \in Range(r.sub.srcs)} : f.lock \in both
    BY DEF SourceFiles
  <2>2. PICK src \in Range(r.sub.srcs) : both = {src.man, src.lock}
    BY <2>1
  <2>3. f.lock # NoFile
    BY DEF SourceFiles
  <2> QED BY <1>3, <2>1, <2>2, <2>3 DEF IsMade, IsSourceOf
<1>6. r.sub.eco \in rule.ecos /\ f.dir = c.dir /\ c.lang \in rule.langs
  BY <1>1, <1>4, <1>5 DEF IsAbout
<1>7. PICK u \in Range(unresolved) : u.sub = closest /\ u.why = "skipped"
  BY DEF IsSkipped, Range
<1>8. closest \in Range(found) /\ Hash(closest) \notin RelevantNow
  BY <1>7 DEF ClosestInv, SkippedInv
<1>9. IsMade(closest)
  BY <1>8 DEF ClosestInv, FoundInv, AreMade
<1>10. closest = Closest(c.dir, r.sub.eco, found) /\ closest.eco # "-"
  BY <1>6, <1>9 DEF IsMade
<1>11. found \in Seq(Range(found))
  BY DEF ClosestInv, FoundInv, AreMade
<1> HIDE DEF closest
<1> QED BY <1>6, <1>8, <1>10, <1>11, ClosestIsRelevant

(* Conjuncts that a step leaves alone.                                     *)
LEMMA FoundFrame ==
  ASSUME FoundInv, UNCHANGED <<scan, foundVars>>, pc' \notin {"find", "filter"}
  PROVE  FoundInv'
BY DEF FoundInv, foundVars, AreMade

LEMMA SkippedFrame ==
  ASSUME SkippedInv, UNCHANGED <<scan, foundVars, unresolved>>
  PROVE  SkippedInv'
BY DEF SkippedInv, foundVars, RelevantNow

LEMMA ResolvedFrame ==
  ASSUME ResolvedInv, UNCHANGED <<foundVars, queue, resolved>>, strays' = 0 => strays = 0
  PROVE  ResolvedInv'
BY DEF ResolvedInv, foundVars

LEMMA SourceFrame ==
  ASSUME SourceInv, UNCHANGED cur, pc' \notin {"source", "ask"}
  PROVE  SourceInv'
BY DEF SourceInv

LEMMA ReachFrame ==
  ASSUME ReachInv, UNCHANGED scan, running' \subseteq Range(scan.rules),
         \A f \in findings' : f \in findings \/ ~f.reach,
         Range(resolved) \subseteq Range(resolved'),
         strays' = 0 => strays = 0 /\ (pc' = "answer" => \A f \in last'.body : ~f.reach)
  PROVE  ReachInv'
BY DEF ReachInv, IsAbout

(* What comes of a source is about it.                                     *)
LEMMA LocallyAbout ==
  ASSUME NEW src, NEW errs
  PROVE  LET res == Locally(src, errs)
         IN  /\ res.why # "skipped"
             /\ \A d \in res.deps : d.lock \in {Display(src), NoFile}
<1>1. \A deps : \A d \in Located(src, deps) : d.lock \in {Display(src), NoFile}
  BY DEF Located
<1> QED BY <1>1 DEF Locally, Parse, Resolved, Failure

LEMMA RemotelyAbout ==
  ASSUME NEW src, NEW answer
  PROVE  LET res == Remotely(src, answer)
         IN  /\ res.why # "skipped"
             /\ (answer = None \/ answer.body = {src}) =>
                    \A d \in res.deps : d.lock \in {Display(src), NoFile}
<1> DEFINE read == CHOOSE s \in answer.body : TRUE
<1>1. \A s, deps : \A d \in Located(s, deps) : d.lock \in {Display(s), NoFile}
  BY DEF Located
<1>2. answer.body = {src} => read = src
  OBVIOUS
<1> HIDE DEF read
<1>3. CASE answer = None \/ Display(read) \in scan.broken
  BY <1>3, LocallyAbout DEF Remotely, read
<1>4. CASE answer # None /\ Display(read) \notin scan.broken
  <2>1. Remotely(src, answer) =
          Resolved(Located(read, Deps[Display(read)]), {},
                   IF ReadsLockfile(src) THEN "lockfile" ELSE "dynamic")
    BY <1>4 DEF Remotely, read
  <2>2. Remotely(src, answer).why = "-"
        /\ Remotely(src, answer).deps = Located(read, Deps[Display(read)])
    BY <2>1 DEF Resolved
  <2> QED BY <1>1, <1>2, <1>4, <2>2
<1> QED BY <1>3, <1>4

(* The result of a source is added to that of the first subproject.        *)
LEMMA AddIsAbout ==
  ASSUME FoundInv, ResolvedInv, SourceInv, pc \in {"source", "ask"}, cur.srcs # <<>>,
         NEW res, Add(res), res.why # "skipped",
         strays = 0 => \A d \in res.deps : d.lock \in {Display(Head(cur.srcs)), NoFile},
         strays' = 0 => strays = 0, UNCHANGED queue, pc' = "source"
  PROVE  SourceInv'
<1>1. /\ queue # <<>> /\ cur.srcs \in Seq(Range(Head(queue).srcs))
      /\ strays = 0 => LocksIn(cur.deps, Head(queue))
  BY DEF SourceInv
<1>2. cur'.srcs = Tail(cur.srcs) /\ cur'.deps = cur.deps \cup res.deps /\ cur'.why = res.why
  BY DEF Add
<1>3. Tail(cur.srcs) \in Seq(Range(Head(queue).srcs)) /\ Head(cur.srcs) \in Range(Head(queue).srcs)
  BY <1>1, HeadAndTail
<1>4. Display(Head(cur.srcs)) \in DisplayPaths(Head(queue))
  BY <1>3 DEF DisplayPaths
<1>5. strays' = 0 => LocksIn(cur'.deps, Head(queue))
  BY <1>1, <1>2, <1>4 DEF LocksIn
<1> QED BY <1>1, <1>2, <1>3, <1>5 DEF SourceInv

LEMMA ReachableIsAbout ==
  ASSUME FoundInv, ResolvedInv, ReachInv, strays = 0,
         NEW rule, NEW f \in Reachable(rule)
  PROVE  \E c \in scan.code, r \in Range(resolved) :
             rule \in Range(scan.rules) /\ IsAbout(f, c, rule, r)
<1>1. PICK found_ \in {UNION {FoundAt(rule, c, r) : r \in SubjectsOf(rule, c)} : c \in Hits(rule)} :
        f \in found_
  BY DEF Reachable
<1>2. PICK c \in Hits(rule) : found_ = UNION {FoundAt(rule, c, r) : r \in SubjectsOf(rule, c)}
  BY <1>1
<1>3. PICK r \in SubjectsOf(rule, c) : f \in FoundAt(rule, c, r)
  BY <1>1, <1>2
<1>4. c \in scan.code /\ c.lang \in rule.langs /\ rule \in Range(scan.rules)
  BY DEF Hits, ReachInv
<1>5. r \in Range(resolved)
  BY <1>3 DEF SubjectsOf, ClosestResolved
<1>6. PICK d \in Vulnerable(rule, r) : d.lock # NoFile /\ f = Finding(rule, d, TRUE, c.dir)
  BY <1>3 DEF FoundAt
<1>7. r.sub.eco \in rule.ecos
  <2>1. d.dep.pkg \in Patterns(rule, r.sub.eco)
    BY <1>6 DEF Vulnerable
  <2>2. PICK p \in rule.pats : p.eco = r.sub.eco
    BY <2>1 DEF Patterns
  <2>3. rule.ecos = {q.eco : q \in rule.pats}
    BY <1>4, ScansAssumption DEF FoundInv
  <2> QED BY <2>2, <2>3
<1>8. d.lock \in DisplayPaths(r.sub)
  BY <1>5, <1>6 DEF ResolvedInv, LocksIn, Vulnerable
<1>9. f.dir = c.dir /\ f.lock = d.lock
  BY <1>6 DEF Finding
<1> QED BY <1>4, <1>5, <1>6, <1>7, <1>8, <1>9 DEF IsAbout

(* Nothing is resolved while subprojects are found.                        *)
LEMMA TryMatcherKeeps ==
  ASSUME ClosestInv, TryMatcher
  PROVE  FoundInv' /\ SkippedInv' /\ ResolvedInv' /\ SourceInv' /\ ReachInv'
<1>1. /\ pc = "find" /\ tried < 22 /\ tried' = tried + 1
      /\ UNCHANGED <<scan, pc, resolveVars, findingVars, output, rpcVars>>
  BY MatchersLen DEF TryMatcher
<1>2. PICK made \in Makes(MATCHERS[tried + 1], files) :
        found' = found \o made.subs /\ files' = Left(made.used)
  BY DEF TryMatcher
<1>3. scan \in Scans /\ files \subseteq scan.files /\ tried \in 0 .. 22 /\ AreMade(found)
      /\ queue = <<>> /\ resolved = <<>> /\ unresolved = <<>> /\ findings = {}
  BY <1>1 DEF ClosestInv, FoundInv
<1>4. IsFiniteSet(files) /\ NoFile \notin files
  BY <1>3, ScansAssumption, FS_Subset
<1>5. IsMatcher(MATCHERS[tried + 1])
  <2>1. tried + 1 \in 1 .. 22
    BY <1>1, <1>3
  <2> QED BY <2>1, EachIsMatcher
<1>6. AreMade(made.subs)
  BY <1>4, <1>5, MatcherMakes
<1>7. Range(found') = Range(found) \cup Range(made.subs) /\ found' \in Seq(Range(found'))
  <2>1. found \in Seq(Range(found)) /\ made.subs \in Seq(Range(made.subs))
    BY <1>3, <1>6 DEF AreMade
  <2>2. /\ Range(found \o made.subs) = Range(found) \cup Range(made.subs)
        /\ found \o made.subs \in Seq(Range(found) \cup Range(made.subs))
    BY <2>1, RangeOfConcat
  <2> QED BY <1>2, <2>2
<1>8. AreMade(found')
  BY <1>3, <1>6, <1>7 DEF AreMade
<1>9. FoundInv'
  BY <1>1, <1>2, <1>3, <1>8 DEF FoundInv, AreMade, Left, resolveVars, findingVars
<1>10. Range(<<>>) = {} /\ \A S : <<>> \in Seq(S)
  BY DEF Range
<1>11. SkippedInv' /\ ResolvedInv'
  BY <1>1, <1>3, <1>10 DEF SkippedInv, ResolvedInv, resolveVars
<1>12. SourceInv' /\ ReachInv'
  BY <1>1, <1>3, <1>10 DEF SourceInv, ReachInv, ClosestInv, resolveVars, findingVars
<1> QED BY <1>9, <1>11, <1>12

LEMMA FilterKeeps ==
  ASSUME ClosestInv, Filter
  PROVE  FoundInv' /\ SkippedInv' /\ ResolvedInv' /\ SourceInv' /\ ReachInv'
<1> DEFINE chosen == {s \in Range(found) : Hash(s) \in RelevantNow}
           skipped == Only(found, Range(found) \ chosen)
<1>1. /\ pc = "filter" /\ pc' = "resolve"
      /\ queue' = Only(found, chosen)
      /\ unresolved' = [i \in DOMAIN skipped |->
                            [sub |-> skipped[i], why |-> "skipped", errs |-> {}]]
      /\ UNCHANGED <<scan, foundVars, cur, resolved, findingVars, output, rpcVars>>
  BY DEF Filter, RelevantNow
<1>2. found \in Seq(Range(found)) /\ resolved = <<>> /\ findings = {}
  BY <1>1 DEF ClosestInv, FoundInv, AreMade
<1>3. queue' \in Seq(Range(found))
  BY <1>1, <1>2, OnlyIs
<1>4. skipped \in Seq(Range(found)) /\ Range(skipped) = Range(found) \cap (Range(found) \ chosen)
  BY <1>2, OnlyIs
<1> HIDE DEF skipped
<1>5. Len(skipped) \in Nat /\ DOMAIN skipped = 1 .. Len(skipped)
  BY <1>4
<1>6. unresolved' \in Seq(Range(unresolved'))
  <2>1. DOMAIN unresolved' = 1 .. Len(skipped)
        /\ unresolved' = [i \in 1 .. Len(skipped) |-> unresolved'[i]]
    BY <1>1, <1>5
  <2>2. unresolved' \in [1 .. Len(skipped) -> Range(unresolved')]
    BY <2>1 DEF Range
  <2> QED BY <1>5, <2>2, SeqDef
<1>7. ASSUME NEW u \in Range(unresolved')
      PROVE  u.sub \in Range(found) /\ Hash(u.sub) \notin RelevantNow
  <2>1. PICK i \in DOMAIN skipped : u.sub = skipped[i]
    BY <1>1, <1>7 DEF Range
  <2>2. u.sub \in Range(skipped)
    BY <2>1 DEF Range
  <2> QED BY <1>4, <2>2
<1>8. FoundInv'
  BY <1>1, FoundFrame DEF ClosestInv
<1>9. SkippedInv'
  BY <1>1, <1>6, <1>7 DEF SkippedInv, RelevantNow, foundVars
<1>10. ResolvedInv'
  BY <1>1, <1>2, <1>3 DEF ClosestInv, ResolvedInv, foundVars, rpcVars
<1>11. SourceInv' /\ ReachInv'
  BY <1>1, <1>2 DEF ClosestInv, SourceInv, ReachInv, findingVars, rpcVars
<1> QED BY <1>8, <1>9, <1>10, <1>11

LEMMA BeginKeeps ==
  ASSUME ClosestInv, Begin
  PROVE  SourceInv'
<1>1. /\ queue # <<>> /\ pc' = "source" /\ UNCHANGED <<foundVars, queue, rpcVars>>
      /\ cur' = [Empty EXCEPT !.srcs = Head(queue).srcs]
  BY DEF Begin
<1>2. queue \in Seq(Range(found)) /\ AreMade(found)
  BY DEF ClosestInv, ResolvedInv, FoundInv
<1>3. Head(queue) \in Range(found)
  BY <1>1, <1>2, HeadAndTail
<1>4. Head(queue).srcs \in Seq(Range(Head(queue).srcs))
  BY <1>2, <1>3 DEF AreMade, IsMade
<1>5. cur'.srcs = Head(queue).srcs /\ cur'.deps = {} /\ cur'.why = "-"
  BY <1>1 DEF Empty
<1> QED BY <1>1, <1>4, <1>5 DEF SourceInv, LocksIn

LEMMA SettleKeeps ==
  ASSUME ClosestInv, Settle
  PROVE  SkippedInv' /\ ResolvedInv' /\ SourceInv' /\ ReachInv'
<1> DEFINE sub == Head(queue)
           new == [sub |-> sub, how |-> cur.how, deps |-> cur.deps, errs |-> cur.errs]
           gone == [sub |-> sub, why |-> cur.why, errs |-> cur.errs]
<1>1. /\ pc = "source" /\ pc' = "resolve" /\ cur' = Empty /\ queue' = Tail(queue)
      /\ \/ unresolved' = unresolved \o <<gone>> /\ UNCHANGED resolved
         \/ resolved' = Append(resolved, new) /\ UNCHANGED unresolved
      /\ UNCHANGED <<scan, foundVars, findingVars, output, rpcVars>>
  BY DEF Settle, Recorded
<1>2. /\ queue # <<>> /\ queue \in Seq(Range(found)) /\ cur.why # "skipped"
      /\ strays = 0 => LocksIn(cur.deps, sub)
      /\ resolved \in Seq(Range(resolved)) /\ unresolved \in Seq(Range(unresolved))
  BY <1>1 DEF ClosestInv, SourceInv, ResolvedInv, SkippedInv
<1>3. sub \in Range(found) /\ Tail(queue) \in Seq(Range(found))
  BY <1>2, HeadAndTail
<1>4. \/ UNCHANGED unresolved
      \/ Range(unresolved') = Range(unresolved) \cup {gone}
         /\ unresolved' \in Seq(Range(unresolved) \cup {gone})
  <2>1. <<gone>> \in Seq({gone}) /\ Range(<<gone>>) = {gone}
    BY DEF Range
  <2>2. /\ Range(unresolved \o <<gone>>) = Range(unresolved) \cup Range(<<gone>>)
        /\ unresolved \o <<gone>> \in Seq(Range(unresolved) \cup {gone})
    <3>1. unresolved \in Seq(Range(unresolved))
      BY <1>2
    <3> HIDE DEF gone
    <3> QED BY <2>1, <3>1, RangeOfConcat
  <2> QED BY <1>1, <2>1, <2>2
<1>5. \/ UNCHANGED resolved
      \/ Range(resolved') = Range(resolved) \cup {new}
         /\ resolved' \in Seq(Range(resolved) \cup {new})
  <2>1. resolved \in Seq(Range(resolved) \cup {new}) /\ new \in Range(resolved) \cup {new}
    BY <1>2, SeqMonotonic
  <2>2. Append(resolved, new) \in Seq(Range(resolved) \cup {new})
    <3> HIDE DEF new
    <3> QED BY <2>1, AppendProperties
  <2>3. Range(Append(resolved, new)) = Range(resolved) \cup {new}
    <3> HIDE DEF new
    <3> QED BY <1>2, RangeOfAppend
  <2> QED BY <1>1, <2>2, <2>3
<1>6. gone.why # "skipped" /\ new.sub = sub /\ new.deps = cur.deps
  BY <1>2
<1> HIDE DEF gone, new, sub
<1>7. SkippedInv'
  <2>1. RelevantNow' = RelevantNow /\ UNCHANGED found
    BY <1>1 DEF RelevantNow, foundVars
  <2> QED BY <1>4, <1>6, <2>1 DEF ClosestInv, SkippedInv
<1>8. ResolvedInv'
  BY <1>1, <1>2, <1>3, <1>5, <1>6 DEF ClosestInv, ResolvedInv, foundVars, rpcVars
<1>9. SourceInv'
  BY <1>1 DEF SourceInv, Empty
<1>10. ReachInv'
  <2>1. Range(resolved) \subseteq Range(resolved')
    BY <1>5
  <2> QED BY <1>1, <2>1, ReachFrame DEF ClosestInv, findingVars, rpcVars, ReachInv
<1> QED BY <1>7, <1>8, <1>9, <1>10

(* A call that was answered is about the source in hand, or returned none. *)
LEMMA HearDepsKeeps ==
  ASSUME ClosestInv, HearDeps
  PROVE  SourceInv'
<1> DEFINE src == Head(cur.srcs)
           res == Remotely(src, reply')
<1>1. /\ pc = "ask" /\ pc' = "source" /\ Receive("deps") /\ Add(res) /\ UNCHANGED queue
  BY DEF HearDeps
<1>2. cur.srcs # <<>> /\ last.body = {src}
  BY <1>1 DEF ClosestInv, SourceInv
<1>3. strays = 0 => reply' \in {None, last}
  BY <1>1, ReceiveTakesPacket DEF ClosestInv, Waiting, Errand
<1>4. strays' = strays
  BY <1>1 DEF Receive
<1>5. /\ res.why # "skipped"
      /\ (reply' = None \/ reply'.body = {src}) =>
             \A d \in res.deps : d.lock \in {Display(src), NoFile}
  BY RemotelyAbout
<1>6. strays = 0 => \A d \in res.deps : d.lock \in {Display(src), NoFile}
  BY <1>2, <1>3, <1>5
<1> HIDE DEF res
<1> QED BY <1>1, <1>2, <1>4, <1>5, <1>6, AddIsAbout DEF ClosestInv

LEMMA SourceLocallyKeeps ==
  ASSUME ClosestInv, SourceLocally
  PROVE  SourceInv'
<1> DEFINE src == Head(cur.srcs)
           res == Locally(src, {})
<1>1. /\ pc = "source" /\ pc' = "source" /\ cur.srcs # <<>> /\ Add(res)
      /\ UNCHANGED <<queue, strays>>
  BY DEF SourceLocally, rpcVars, CallFails
<1>2. /\ res.why # "skipped"
      /\ \A d \in res.deps : d.lock \in {Display(src), NoFile}
  BY LocallyAbout
<1> HIDE DEF res
<1> QED BY <1>1, <1>2, AddIsAbout DEF ClosestInv

(* An answer about transitive reachability has findings of the request.    *)
LEMMA HearVerdictKeeps ==
  ASSUME ClosestInv, HearVerdict
  PROVE  ReachInv'
<1> DEFINE mine == Unreachable(Head(left))
<1>1. /\ pc = "answer" /\ pc' = "verdict" /\ Receive("tr")
      /\ UNCHANGED <<scan, foundVars, resolveVars, running, turn, output>>
  BY DEF HearVerdict
<1>2. PICK chosen \in IF reply' = None THEN {mine} ELSE Zipped(mine, reply'.body) :
        findings' = findings \cup chosen
  BY DEF HearVerdict
<1>3. strays' = strays
  BY <1>1 DEF Receive
<1>4. strays = 0 => reply' \in {None, last}
  BY <1>1, ReceiveTakesPacket DEF ClosestInv, Waiting, Errand
<1>5. \A f \in mine : ~f.reach
  BY DEF Unreachable, Finding
<1>6. ASSUME strays = 0 PROVE \A f \in chosen : ~f.reach
  <2>1. CASE reply' = None
    BY <1>2, <1>5, <2>1
  <2>2. CASE reply' # None
    <3>1. chosen \subseteq reply'.body /\ reply' = last
      BY <1>2, <1>4, <1>6, <2>2 DEF Zipped
    <3> QED BY <1>1, <1>6, <3>1 DEF ClosestInv, ReachInv
  <2> QED BY <2>1, <2>2
<1>7. UNCHANGED <<scan, running, resolved>>
  BY <1>1 DEF resolveVars
<1> QED BY <1>1, <1>2, <1>3, <1>6, <1>7 DEF ClosestInv, ReachInv, IsAbout

LEMMA VerdictKeeps ==
  ASSUME ClosestInv, Verdict
  PROVE  ReachInv'
<1>1. /\ pc' \in {"crashed", "verdict"}
      /\ UNCHANGED findings \/ findings' = findings \cup Unreachable(Head(left))
      /\ UNCHANGED <<scan, resolved, running, strays>>
  BY DEF Verdict, resolveVars, rpcVars
<1>2. \A f \in Unreachable(Head(left)) : ~f.reach
  BY DEF Unreachable, Finding
<1> QED BY <1>1, <1>2, ReachFrame DEF ClosestInv, ReachInv

LEMMA AskForVerdictKeeps ==
  ASSUME ClosestInv, AskForVerdict
  PROVE  ReachInv'
<1>1. /\ UNCHANGED <<scan, resolved, running, findings>> /\ strays' = strays
      /\ pc' = "crashed" \/ last'.body = Unreachable(Head(left))
  BY DEF AskForVerdict, resolveVars, findingVars, rpcVars, Call, CallFails
<1>2. \A f \in Unreachable(Head(left)) : ~f.reach
  BY DEF Unreachable, Finding
<1> QED BY <1>1, <1>2, ReachFrame DEF ClosestInv, ReachInv

LEMMA NextRuleKeeps ==
  ASSUME ClosestInv, NextRule
  PROVE  ReachInv'
<1>1. /\ pc' \in {"crashed", "verdict"}
      /\ UNCHANGED findings \/ findings' = findings \cup Reachable(RuleInHand)
      /\ UNCHANGED <<scan, resolved, running, strays>>
  BY DEF NextRule, resolveVars, rpcVars
<1>2. strays = 0 => \A f \in Reachable(RuleInHand) :
        \E c \in scan.code, rule \in Range(scan.rules), r \in Range(resolved) :
            IsAbout(f, c, rule, r)
  BY ReachableIsAbout DEF ClosestInv
<1> QED BY <1>1, <1>2 DEF ClosestInv, ReachInv, IsAbout

LEMMA ServeAddsStrays ==
  ASSUME Serve, strays \in Nat, strays' = 0
  PROVE  strays = 0
<1>1. PICK stray \in {<<>>, <<[kind |-> "stray", body |-> {}]>>} : strays' = strays + Len(stray)
  BY DEF Serve
<1>2. Len(stray) \in {0, 1}
  BY <1>1
<1> QED BY <1>1, <1>2

LEMMA ClosestInductive == ClosestInv /\ [SupplyNext]_supplyVars => ClosestInv'
<1> SUFFICES ASSUME ClosestInv, [SupplyNext]_supplyVars
             PROVE  FoundInv' /\ SkippedInv' /\ ResolvedInv' /\ SourceInv' /\ ReachInv'
  BY PipeInductive DEF ClosestInv
<1> USE DEF ClosestInv
<1>1. CASE TryMatcher
  BY <1>1, TryMatcherKeeps
<1>2. CASE AllTried
  <2>1. pc = "find" /\ pc' = "filter"
        /\ UNCHANGED <<scan, foundVars, resolveVars, findingVars, output, rpcVars>>
    BY <1>2 DEF AllTried
  <2>2. FoundInv'
    BY <2>1 DEF FoundInv, AreMade, foundVars, resolveVars, findingVars
  <2>3. ReachInv'
    BY <2>1, ReachFrame DEF ReachInv, findingVars, resolveVars, rpcVars
  <2> QED BY <2>1, <2>2, <2>3, SkippedFrame, ResolvedFrame, SourceFrame DEF resolveVars, rpcVars
<1>3. CASE Filter
  BY <1>3, FilterKeeps
<1>4. CASE Begin
  <2>1. pc' = "source" /\ UNCHANGED <<scan, foundVars, queue, resolved, unresolved,
                                      findingVars, output, rpcVars>>
    BY <1>4 DEF Begin
  <2>2. ReachInv'
    BY <2>1, ReachFrame DEF ReachInv, findingVars, rpcVars
  <2> QED BY <1>4, <2>1, <2>2, BeginKeeps, FoundFrame, SkippedFrame, ResolvedFrame DEF rpcVars
<1>5. CASE SourceLocally \/ HearDeps
  <2>1. pc' = "source" /\ strays' = strays
        /\ UNCHANGED <<scan, foundVars, queue, resolved, unresolved, findingVars, output>>
    BY <1>5 DEF SourceLocally, HearDeps, Receive, rpcVars, CallFails
  <2>2. ReachInv'
    BY <2>1, ReachFrame DEF ReachInv, findingVars
  <2> QED BY <1>5, <2>1, <2>2, SourceLocallyKeeps, HearDepsKeeps, FoundFrame, SkippedFrame,
             ResolvedFrame
<1>6. CASE AskForDeps
  <2>1. /\ pc = "source" /\ pc' = "ask" /\ strays' = strays
        /\ cur.srcs # <<>> /\ last'.body = {Head(cur.srcs)}
        /\ UNCHANGED <<scan, foundVars, resolveVars, findingVars, output>>
    BY <1>6 DEF AskForDeps, Call
  <2>2. ReachInv'
    BY <2>1, ReachFrame DEF ReachInv, findingVars, resolveVars
  <2>3. SourceInv'
    BY <2>1 DEF SourceInv, resolveVars
  <2> QED BY <2>1, <2>2, <2>3, FoundFrame, SkippedFrame, ResolvedFrame DEF resolveVars
<1>7. CASE Settle
  <2>1. pc' = "resolve" /\ UNCHANGED <<scan, foundVars>>
    BY <1>7 DEF Settle
  <2> QED BY <1>7, <2>1, SettleKeeps, FoundFrame
<1>8. CASE FilterRules
  <2>1. /\ pc' \in {"crashed", "adjust"} /\ running' \subseteq Range(scan.rules)
        /\ UNCHANGED <<scan, foundVars, resolveVars, findings, rpcVars>>
    BY <1>8 DEF FilterRules, CodeRules, ReachInv
  <2>2. ReachInv'
    BY <2>1, ReachFrame DEF resolveVars, rpcVars
  <2> QED BY <2>1, <2>2, FoundFrame, SkippedFrame, ResolvedFrame, SourceFrame
          DEF resolveVars, rpcVars
<1>9. CASE NextRule \/ Verdict
  <2>1. /\ pc' \in {"crashed", "verdict"}
        /\ UNCHANGED <<scan, foundVars, resolveVars, rpcVars>>
    BY <1>9 DEF NextRule, Verdict
  <2> QED BY <1>9, <2>1, NextRuleKeeps, VerdictKeeps, FoundFrame, SkippedFrame, ResolvedFrame,
             SourceFrame DEF resolveVars, rpcVars
<1>10. CASE AskForVerdict \/ HearVerdict
  <2>1. /\ pc' \in {"crashed", "answer", "verdict"} /\ strays' = strays
        /\ UNCHANGED <<scan, foundVars, resolveVars>>
    BY <1>10 DEF AskForVerdict, HearVerdict, Call, Receive, rpcVars, CallFails
  <2> QED BY <1>10, <2>1, AskForVerdictKeeps, HearVerdictKeeps, FoundFrame, SkippedFrame,
             ResolvedFrame, SourceFrame DEF resolveVars
<1>11. CASE RuleDone \/ Finish
  <2>1. /\ pc' \in {"adjust", "end", "crashed"}
        /\ UNCHANGED <<scan, foundVars, resolveVars, running, findings, rpcVars>>
    BY <1>11 DEF RuleDone, Finish, findingVars
  <2>2. ReachInv'
    BY <2>1, ReachFrame DEF ReachInv, resolveVars, rpcVars
  <2> QED BY <2>1, <2>2, FoundFrame, SkippedFrame, ResolvedFrame, SourceFrame
          DEF resolveVars, rpcVars
<1>12. CASE ServerAnswers \/ ServerDies
  <2>1. /\ UNCHANGED <<scan, pc, foundVars, resolveVars, findingVars, output>>
        /\ UNCHANGED <<last, reply>>
    BY <1>12 DEF ServerAnswers, ServerDies, Serve, Die, Other
  <2>2. strays' = 0 => strays = 0
    <3>1. CASE ServerDies
      BY <3>1 DEF ServerDies, Die
    <3>2. CASE ServerAnswers
      BY <3>2, ServeAddsStrays DEF ServerAnswers, PipeInv
    <3> QED BY <1>12, <3>1, <3>2
  <2>3. ReachInv' /\ SourceInv' /\ ResolvedInv'
    BY <2>1, <2>2 DEF ReachInv, IsAbout, SourceInv, ResolvedInv, findingVars, resolveVars, foundVars
  <2>4. FoundInv'
    BY <2>1 DEF FoundInv, AreMade, findingVars, resolveVars, foundVars
  <2> QED BY <2>1, <2>3, <2>4, SkippedFrame DEF resolveVars
<1>13. CASE UNCHANGED supplyVars
  <2>1. UNCHANGED <<scan, pc, foundVars, resolveVars, findingVars, rpcVars>>
    BY <1>13 DEF supplyVars, foundVars, resolveVars, findingVars
  <2>2. FoundInv' /\ SkippedInv'
    BY <2>1, SkippedFrame DEF FoundInv, AreMade, foundVars, resolveVars, findingVars
  <2> QED BY <2>1, <2>2 DEF ReachInv, IsAbout, SourceInv, ResolvedInv, findingVars, resolveVars,
                            foundVars, rpcVars
<1> QED
  BY <1>1, <1>2, <1>3, <1>4, <1>5, <1>6, <1>7, <1>8, <1>9, <1>10, <1>11, <1>12, <1>13
  DEF SupplyNext, Scan

LEMMA ClosestInit == SupplyInit => ClosestInv
<1> SUFFICES ASSUME SupplyInit PROVE ClosestInv
  OBVIOUS
<1>1. Range(<<>>) = {} /\ \A S : <<>> \in Seq(S)
  BY DEF Range
<1>2. PipeInv
  BY DEF SupplyInit, RpcInit, PipeInv, Waiting
<1>3. FoundInv /\ SkippedInv
  BY <1>1 DEF SupplyInit, FoundInv, SkippedInv, AreMade
<1>4. ResolvedInv /\ SourceInv /\ ReachInv
  BY <1>1 DEF SupplyInit, RpcInit, ResolvedInv, SourceInv, ReachInv, Empty
<1> QED BY <1>2, <1>3, <1>4 DEF ClosestInv

(* A reachable finding is about the closest subproject of its ecosystem,   *)
(* unless that one failed to resolve: the filter of a diff scan            *)
(* (filter_changed_subprojects) never drops a subproject that is the       *)
(* closest of code a rule can match, so no finding falls back on the       *)
(* lockfile of one further up.                                             *)
THEOREM SupplyChainClosestIsUsed == SupplySpec => []ClosestIsUsed
BY ClosestInit, ClosestInductive, ClosestFollows, PTL DEF SupplySpec

-----------------------------------------------------------------------------
(* The rules before the one in hand, and the subprojects before those left *)
(* for it, are done with: each vulnerable dependency is a finding.         *)
Early == pc \in {"find", "filter", "resolve", "source", "ask"}
InTurn == pc \in {"verdict", "answer"}
Handled(rule, r) ==
    \A d \in Vulnerable(rule, r) : d.lock # NoFile =>
        \E f \in findings : f.rule = rule.name /\ f.lock = d.lock /\ f.dep = d.dep
TurnInv ==
    /\ turn \in Nat \ {0} /\ (Early => turn = 1)
    /\ pc = "end" => turn > Len(scan.rules)
    /\ InTurn => RuleInHand \in Range(scan.rules) /\ left \in Seq(Range(For(RuleInHand)))
    /\ pc = "answer" => left # <<>> /\ last.body = Unreachable(Head(left))
HandledInv ==
    strays = 0 =>
        /\ \A i \in 1 .. (turn - 1) : \A r \in Range(For(scan.rules[i])) : Handled(scan.rules[i], r)
        /\ InTurn =>
             \A r \in Range(For(RuleInHand)) : r \in Range(left) \/ Handled(RuleInHand, r)

(* What breaks a scan off: the death of the process, which alone leaves a  *)
(* packet unsent, or a rule that raises.                                   *)
RuleRaises ==
    \E rule \in Range(scan.rules) : ~rule.ok \/ \E r \in Range(For(rule)) : Raises(rule, r)
CauseInv ==
    /\ unsent => ~up
    /\ pc = "crashed" => ~up \/ RuleRaises

ReportInv == ClosestInv /\ TurnInv /\ HandledInv /\ CauseInv

(* Conjuncts that a step leaves alone.                                     *)
LEMMA HandledFrame ==
  ASSUME HandledInv, UNCHANGED <<scan, resolved, turn, left, findings>>,
         strays' = 0 => strays = 0, InTurn' => InTurn
  PROVE  HandledInv'
BY DEF HandledInv, Handled, For, RuleInHand

(* A step that adds findings.                                              *)
LEMMA HandledGrows ==
  ASSUME HandledInv, UNCHANGED <<scan, resolved, turn>>, strays' = 0 => strays = 0,
         findings \subseteq findings',
         (strays = 0 /\ InTurn') =>
             \A r \in Range(For(RuleInHand)) : r \in Range(left') \/ Handled(RuleInHand, r)
               \/ \A d \in Vulnerable(RuleInHand, r) : d.lock # NoFile =>
                      \E f \in findings' : f.rule = RuleInHand.name /\ f.lock = d.lock /\ f.dep = d.dep
  PROVE  HandledInv'
<1> SUFFICES ASSUME strays' = 0 PROVE HandledInv'
  BY DEF HandledInv
<1>1. strays = 0
  OBVIOUS
<1>2. PICK list, n : list = scan.rules /\ n = turn
  OBVIOUS
<1>3. /\ list = scan'.rules /\ n = turn'
      /\ \A rule : For(rule)' = For(rule)
  BY <1>2 DEF For
<1>4. \A rule, r : Handled(rule, r) => Handled(rule, r)'
  BY DEF Handled
<1>5. \A i \in 1 .. (n - 1) : \A r \in Range(For(list[i])) : Handled(list[i], r)'
  <2>1. \A i \in 1 .. (n - 1) : \A r \in Range(For(list[i])) : Handled(list[i], r)
    BY <1>1, <1>2 DEF HandledInv
  <2> QED BY <1>4, <2>1
<1>6. InTurn' => \A r \in Range(For(list[n])) : r \in Range(left') \/ Handled(list[n], r)'
  <2> SUFFICES ASSUME InTurn', NEW r \in Range(For(list[n]))
               PROVE  r \in Range(left') \/ Handled(list[n], r)'
    OBVIOUS
  <2>1. list[n] = RuleInHand
    BY <1>2 DEF RuleInHand
  <2>2. \/ r \in Range(left') \/ Handled(list[n], r)
        \/ \A d \in Vulnerable(list[n], r) : d.lock # NoFile =>
               \E f \in findings' : f.rule = list[n].name /\ f.lock = d.lock /\ f.dep = d.dep
    BY <1>1, <2>1
  <2> QED BY <1>4, <2>2 DEF Handled
<1>7. /\ \A i \in 1 .. (n - 1) : \A r \in Range(For(list[i])') : Handled(list[i], r)'
      /\ InTurn' => \A r \in Range(For(list[n])') : r \in Range(left') \/ Handled(list[n], r)'
  BY <1>3, <1>5, <1>6
<1> QED BY <1>3, <1>7 DEF HandledInv, Handled, For, RuleInHand

(* With its findings a subproject is done with.                            *)
LEMMA UnreachableHandles ==
  ASSUME NEW r, NEW all, findings \subseteq all, Unreachable(r) \subseteq all,
         NEW d \in Vulnerable(RuleInHand, r), d.lock # NoFile
  PROVE  \E f \in all : f.rule = RuleInHand.name /\ f.lock = d.lock /\ f.dep = d.dep
<1>1. CASE AlreadyReachable(d)
  BY <1>1 DEF AlreadyReachable
<1>2. CASE ~AlreadyReachable(d)
  <2> DEFINE f == Finding(RuleInHand, d, FALSE, <<>>)
  <2>1. f \in Unreachable(r)
    BY <1>2 DEF Unreachable
  <2>2. f.rule = RuleInHand.name /\ f.lock = d.lock /\ f.dep = d.dep
    BY DEF Finding
  <2> QED BY <2>1, <2>2
<1> QED BY <1>1, <1>2

(* The rule in hand is the same, and what it is for.                       *)
LEMMA TurnFrame ==
  ASSUME TurnInv, UNCHANGED <<scan, turn, left, resolved>>, Early' => Early, InTurn' => InTurn,
         pc' \notin {"answer", "end"}
  PROVE  TurnInv'
BY DEF TurnInv, RuleInHand, For

(* The rule in hand is one of the scan's.                                  *)
LEMMA NextIsRule ==
  ASSUME ClosestInv, TurnInv, turn <= Len(scan.rules)
  PROVE  RuleInHand \in Range(scan.rules)
<1>1. scan.rules \in Seq(Range(scan.rules))
  BY ScansAssumption DEF ClosestInv, FoundInv
<1>2. PICK n \in Nat, t \in Nat \ {0} : n = Len(scan.rules) /\ t = turn
  BY <1>1, LenProperties DEF TurnInv
<1>3. DOMAIN scan.rules = 1 .. n /\ t \in 1 .. n
  BY <1>1, <1>2, LenProperties
<1> QED BY <1>2, <1>3 DEF Range, RuleInHand

LEMMA TurnInductive == ClosestInv /\ TurnInv /\ [SupplyNext]_supplyVars => TurnInv'
<1> SUFFICES ASSUME ClosestInv, TurnInv, [SupplyNext]_supplyVars PROVE TurnInv'
  OBVIOUS
<1>1. CASE TryMatcher \/ AllTried \/ Filter \/ Begin \/ SourceLocally \/ AskForDeps \/ HearDeps
           \/ FilterRules \/ Settle
  <2>1. Early /\ pc' \notin {"verdict", "answer", "end"} /\ UNCHANGED turn
    BY <1>1 DEF TryMatcher, AllTried, Filter, Begin, SourceLocally, AskForDeps, HearDeps,
               FilterRules, Settle, Early, findingVars
  <2> QED BY <2>1 DEF TurnInv, Early, InTurn
<1>2. CASE NextRule
  <2>1. /\ pc' \in {"crashed", "verdict"} /\ UNCHANGED <<scan, turn, resolved>>
        /\ pc' = "verdict" => left' = For(RuleInHand)
        /\ turn <= Len(scan.rules)
    BY <1>2 DEF NextRule, resolveVars
  <2>2. For(RuleInHand) \in Seq(Range(For(RuleInHand)))
    <3>1. resolved \in Seq(Range(resolved))
      BY DEF ClosestInv, ResolvedInv
    <3>2. For(RuleInHand) \in Seq(Range(resolved))
      BY <3>1, OnlyIs DEF For
    <3> QED BY <3>2, SeqOfRange
  <2>3. RuleInHand \in Range(scan.rules)
    BY <2>1, NextIsRule
  <2> QED BY <2>1, <2>2, <2>3 DEF TurnInv, Early, InTurn, RuleInHand, For
<1>3. CASE Verdict \/ HearVerdict
  <2>1. /\ InTurn /\ pc' \in {"crashed", "verdict"} /\ UNCHANGED <<scan, turn, resolved>>
        /\ left # <<>> /\ (UNCHANGED left \/ left' = Tail(left))
    BY <1>3 DEF Verdict, HearVerdict, InTurn, resolveVars, TurnInv
  <2>2. PICK those : those = Range(For(RuleInHand))
    OBVIOUS
  <2>3. left \in Seq(those)
    BY <2>1, <2>2 DEF TurnInv
  <2>4. left' \in Seq(those)
    BY <2>1, <2>3, HeadAndTail
  <2>5. Range(For(RuleInHand))' = those /\ RuleInHand' = RuleInHand
    BY <2>1, <2>2 DEF RuleInHand, For
  <2> QED BY <2>1, <2>4, <2>5 DEF TurnInv, Early, InTurn
<1>4. CASE AskForVerdict
  <2>1. /\ pc = "verdict" /\ pc' \in {"crashed", "answer"} /\ left # <<>>
        /\ pc' = "answer" => last'.body = Unreachable(Head(left))
        /\ UNCHANGED <<scan, resolved, turn, left, findings>>
    BY <1>4 DEF AskForVerdict, resolveVars, findingVars, Call
  <2>2. Unreachable(Head(left))' = Unreachable(Head(left))
    BY <2>1 DEF Unreachable, AlreadyReachable, RuleInHand
  <2> QED BY <2>1, <2>2 DEF TurnInv, Early, InTurn, RuleInHand, For
<1>5. CASE RuleDone
  <2>1. pc' = "adjust" /\ turn' = turn + 1
    BY <1>5 DEF RuleDone
  <2> QED BY <2>1 DEF TurnInv, Early, InTurn
<1>6. CASE Finish
  <2>1. pc' \in {"crashed", "end"} /\ turn > Len(scan.rules) /\ UNCHANGED <<scan, turn>>
    BY <1>6 DEF Finish, findingVars
  <2> QED BY <2>1 DEF TurnInv, Early, InTurn
<1>7. CASE ServerAnswers \/ ServerDies \/ UNCHANGED supplyVars
  <2>1. UNCHANGED <<scan, pc, resolved, turn, left, findings, last>>
    BY <1>7 DEF ServerAnswers, ServerDies, Serve, Die, Other, resolveVars, findingVars,
               supplyVars, rpcVars
  <2>2. Unreachable(Head(left))' = Unreachable(Head(left))
    BY <2>1 DEF Unreachable, AlreadyReachable, RuleInHand
  <2> QED BY <2>1, <2>2 DEF TurnInv, Early, InTurn, RuleInHand, For
<1> QED BY <1>1, <1>2, <1>3, <1>4, <1>5, <1>6, <1>7 DEF SupplyNext, Scan

(* The findings about the first subproject left are added.                 *)
LEMMA StepHandles ==
  ASSUME TurnInv, HandledInv, InTurn, left # <<>>,
         UNCHANGED <<scan, resolved, turn>>, strays' = strays, left' = Tail(left),
         findings \subseteq findings',
         strays = 0 => findings' = findings \cup Unreachable(Head(left))
  PROVE  HandledInv'
<1>1. PICK r, all, those : r = Head(left) /\ all = findings' /\ those = Range(For(RuleInHand))
  OBVIOUS
<1>2. left \in Seq(those)
  BY <1>1 DEF TurnInv
<1>3. Range(left) = {r} \cup Range(left')
  BY <1>1, <1>2, HeadAndTail
<1>4. ASSUME strays = 0, NEW q \in Range(For(RuleInHand))
      PROVE  \/ q \in Range(left') \/ Handled(RuleInHand, q)
             \/ \A d \in Vulnerable(RuleInHand, q) : d.lock # NoFile =>
                  \E f \in findings' : f.rule = RuleInHand.name /\ f.lock = d.lock /\ f.dep = d.dep
  <2>1. q \in Range(left) \/ Handled(RuleInHand, q)
    BY <1>4 DEF HandledInv
  <2>2. CASE q = r
    <3>1. findings \subseteq all /\ Unreachable(r) \subseteq all
      BY <1>1, <1>4
    <3>2. \A d \in Vulnerable(RuleInHand, r) : d.lock # NoFile =>
            \E f \in all : f.rule = RuleInHand.name /\ f.lock = d.lock /\ f.dep = d.dep
      BY <3>1, UnreachableHandles
    <3> QED BY <1>1, <2>2, <3>2
  <2> QED BY <1>3, <2>1, <2>2
<1> QED BY <1>4, HandledGrows

(* An answer is about what was asked, and replaces all of it.              *)
LEMMA HearVerdictHandles ==
  ASSUME ClosestInv, TurnInv, HandledInv, HearVerdict
  PROVE  HandledInv'
<1> DEFINE mine == Unreachable(Head(left))
<1>1. /\ pc = "answer" /\ pc' = "verdict" /\ Receive("tr") /\ left' = Tail(left)
      /\ UNCHANGED <<scan, resolved, turn>>
  BY DEF HearVerdict, resolveVars
<1>2. PICK chosen \in IF reply' = None THEN {mine} ELSE Zipped(mine, reply'.body) :
        findings' = findings \cup chosen
  BY DEF HearVerdict
<1>3. strays' = strays
  BY <1>1 DEF Receive
<1>4. strays = 0 => reply' \in {None, last}
  BY <1>1, ReceiveTakesPacket DEF ClosestInv, Waiting, Errand
<1>5. left # <<>> /\ last.body = mine
  BY <1>1 DEF TurnInv
<1>6. Zipped(mine, mine) = {mine}
  BY DEF Zipped
<1>7. strays = 0 => chosen = mine
  BY <1>2, <1>4, <1>5, <1>6
<1> HIDE DEF mine
<1> QED BY <1>1, <1>2, <1>3, <1>5, <1>7, StepHandles DEF mine, InTurn

LEMMA HandledInductive ==
  ClosestInv /\ TurnInv /\ HandledInv /\ [SupplyNext]_supplyVars => HandledInv'
<1> SUFFICES ASSUME ClosestInv, TurnInv, HandledInv, [SupplyNext]_supplyVars PROVE HandledInv'
  OBVIOUS
<1>1. CASE TryMatcher \/ AllTried \/ Filter \/ Begin \/ SourceLocally \/ AskForDeps \/ HearDeps
           \/ FilterRules \/ Settle
  <2>1. turn' = 1 /\ pc' \notin {"verdict", "answer"}
    BY <1>1 DEF TryMatcher, AllTried, Filter, Begin, SourceLocally, AskForDeps, HearDeps,
               FilterRules, Settle, TurnInv, Early, findingVars
  <2> QED BY <2>1 DEF HandledInv, InTurn
<1>2. CASE Finish
  <2>1. /\ UNCHANGED <<scan, resolved, turn, left, findings>> /\ strays' = strays
        /\ pc' \notin {"verdict", "answer"}
    BY <1>2 DEF Finish, resolveVars, findingVars, rpcVars
  <2> QED BY <2>1, HandledFrame DEF InTurn
<1>3. CASE NextRule
  <2>1. UNCHANGED <<scan, resolved, turn>> /\ strays' = strays
    BY <1>3 DEF NextRule, resolveVars, rpcVars
  <2>2. CASE RuleInHand.ok
    <3>1. findings' = findings \cup Reachable(RuleInHand) /\ left' = For(RuleInHand)
      BY <1>3, <2>2 DEF NextRule
    <3> QED BY <2>1, <3>1, HandledGrows
  <2>3. CASE ~RuleInHand.ok
    <3>1. UNCHANGED <<findings, left>> /\ pc' = "crashed"
      BY <1>3, <2>3 DEF NextRule
    <3> QED BY <2>1, <3>1, HandledFrame DEF InTurn
  <2> QED BY <2>2, <2>3
<1>4. CASE Verdict
  <2>1. /\ pc = "verdict" /\ left # <<>>
        /\ UNCHANGED <<scan, resolved, turn>> /\ strays' = strays
    BY <1>4 DEF Verdict, resolveVars, rpcVars
  <2>2. CASE Raises(RuleInHand, Head(left))
    <3>1. UNCHANGED <<findings, left>> /\ pc' = "crashed"
      BY <1>4, <2>2 DEF Verdict
    <3> QED BY <2>1, <3>1, HandledFrame DEF InTurn
  <2>3. CASE ~Raises(RuleInHand, Head(left))
    <3>1. findings' = findings \cup Unreachable(Head(left)) /\ left' = Tail(left)
      BY <1>4, <2>3 DEF Verdict
    <3> QED BY <2>1, <3>1, StepHandles DEF InTurn
  <2> QED BY <2>2, <2>3
<1>5. CASE AskForVerdict
  <2>1. /\ pc = "verdict" /\ strays' = strays
        /\ UNCHANGED <<scan, resolved, turn, left, findings>>
    BY <1>5 DEF AskForVerdict, resolveVars, findingVars, Call, CallFails
  <2> QED BY <2>1, HandledFrame DEF InTurn
<1>6. CASE HearVerdict
  BY <1>6, HearVerdictHandles
<1>7. CASE RuleDone
  <2>1. /\ pc = "verdict" /\ pc' = "adjust" /\ left = <<>> /\ turn' = turn + 1
        /\ UNCHANGED <<scan, resolved, findings>> /\ strays' = strays
    BY <1>7 DEF RuleDone, resolveVars, rpcVars
  <2> SUFFICES ASSUME strays = 0 PROVE HandledInv'
    BY <2>1 DEF HandledInv
  <2>2. PICK list, n : list = scan.rules /\ n = turn
    OBVIOUS
  <2>3. n \in Nat \ {0} /\ Range(<<>>) = {}
    BY <2>2 DEF TurnInv, Range
  <2>4. \A r \in Range(For(list[n])) : Handled(list[n], r)
    BY <2>1, <2>2, <2>3 DEF HandledInv, InTurn, RuleInHand
  <2>5. \A i \in 1 .. (n - 1) : \A r \in Range(For(list[i])) : Handled(list[i], r)
    BY <2>2 DEF HandledInv
  <2>6. \A i \in 1 .. n : i \in 1 .. (n - 1) \/ i = n
    BY <2>3
  <2>7. \A i \in 1 .. n : \A r \in Range(For(list[i])) : Handled(list[i], r)
    BY <2>4, <2>5, <2>6
  <2>8. (n + 1) - 1 = n
    BY <2>3
  <2>9. \A i \in 1 .. (turn' - 1) : \A r \in Range(For(list[i])) : Handled(list[i], r)
    BY <2>1, <2>2, <2>7, <2>8
  <2> QED BY <2>1, <2>2, <2>9 DEF HandledInv, Handled, InTurn, For
<1>8. CASE ServerAnswers \/ ServerDies \/ UNCHANGED supplyVars
  <2>1. UNCHANGED <<scan, pc, resolved, turn, left, findings>>
    BY <1>8 DEF ServerAnswers, ServerDies, Other, supplyVars, resolveVars, findingVars
  <2>2. strays' = 0 => strays = 0
    <3>1. CASE ServerAnswers
      BY <3>1, ServeAddsStrays DEF ServerAnswers, ClosestInv, PipeInv
    <3> QED BY <1>8, <3>1 DEF ServerDies, Die, supplyVars, rpcVars
  <2> QED BY <2>1, <2>2, HandledFrame DEF InTurn
<1> QED BY <1>1, <1>2, <1>3, <1>4, <1>5, <1>6, <1>7, <1>8 DEF SupplyNext, Scan

(* A process that has ended stays so, and a scan that broke off.           *)
LEMMA CauseFrame ==
  ASSUME CauseInv, UNCHANGED unsent, ~up => ~up', pc' # "crashed" \/ ~up'
  PROVE  CauseInv'
BY DEF CauseInv

LEMMA CauseInductive == ClosestInv /\ TurnInv /\ CauseInv /\ [SupplyNext]_supplyVars => CauseInv'
<1> SUFFICES ASSUME ClosestInv, TurnInv, CauseInv, [SupplyNext]_supplyVars PROVE CauseInv'
  OBVIOUS
<1>1. CASE TryMatcher \/ AllTried \/ Filter \/ Begin \/ AskForDeps \/ HearDeps \/ Settle
           \/ HearVerdict \/ RuleDone
  <2>1. UNCHANGED <<up, unsent>> /\ pc' # "crashed"
    BY <1>1 DEF TryMatcher, AllTried, Filter, Begin, AskForDeps, HearDeps, Settle, HearVerdict,
               RuleDone, rpcVars, Call, Receive
  <2> QED BY <2>1, CauseFrame
<1>2. CASE SourceLocally
  <2>1. pc' # "crashed" /\ UNCHANGED up /\ (UNCHANGED unsent \/ ~up)
    BY <1>2 DEF SourceLocally, CallFails, PipeBroken, rpcVars
  <2> QED BY <2>1 DEF CauseInv
<1>3. CASE FilterRules
  <2>1. UNCHANGED <<scan, resolved, up, unsent>>
    BY <1>3 DEF FilterRules, resolveVars, rpcVars
  <2>2. pc' = "crashed" => RuleRaises
    <3> SUFFICES ASSUME pc' = "crashed" PROVE RuleRaises
      OBVIOUS
    <3>1. PICK rule \in CodeRules : FilterRaises(rule)
      BY <1>3 DEF FilterRules
    <3>2. rule \in Range(scan.rules)
      BY DEF CodeRules
    <3>3. ~rule.ok \/ \E r \in Range(For(rule)) : Raises(rule, r)
      BY <3>1 DEF FilterRaises, Range
    <3> QED BY <3>2, <3>3 DEF RuleRaises
  <2> QED BY <2>1, <2>2 DEF CauseInv, RuleRaises, For
<1>4. CASE NextRule
  <2>1. UNCHANGED <<scan, resolved, up, unsent>>
    BY <1>4 DEF NextRule, resolveVars, rpcVars
  <2>2. pc' = "crashed" => ~RuleInHand.ok /\ turn <= Len(scan.rules)
    BY <1>4 DEF NextRule
  <2>3. pc' = "crashed" => RuleRaises
    BY <1>4, <2>2, NextIsRule DEF RuleRaises
  <2> QED BY <2>1, <2>3 DEF CauseInv, RuleRaises, For
<1>5. CASE Verdict
  <2>1. /\ pc = "verdict" /\ left # <<>> /\ UNCHANGED <<scan, resolved, up, unsent>>
        /\ pc' = "crashed" => Raises(RuleInHand, Head(left))
    BY <1>5 DEF Verdict, resolveVars, rpcVars
  <2>2. PICK those : those = Range(For(RuleInHand))
    OBVIOUS
  <2>3. RuleInHand \in Range(scan.rules) /\ left \in Seq(those)
    BY <2>1, <2>2 DEF TurnInv, InTurn
  <2>4. Head(left) \in those
    BY <2>1, <2>3, HeadAndTail
  <2>5. pc' = "crashed" => RuleRaises
    BY <2>1, <2>2, <2>3, <2>4 DEF RuleRaises
  <2> QED BY <2>1, <2>5 DEF CauseInv, RuleRaises, For
<1>6. CASE AskForVerdict
  <2>1. UNCHANGED up /\ (UNCHANGED unsent \/ ~up) /\ (pc' = "crashed" => ~up)
    BY <1>6 DEF AskForVerdict, CallFails, PipeBroken, Call, rpcVars
  <2> QED BY <2>1 DEF CauseInv
<1>7. CASE Finish
  <2>1. UNCHANGED <<up, unsent>> /\ (pc' = "crashed" => unsent)
    BY <1>7 DEF Finish, LeaveFails, rpcVars
  <2> QED BY <2>1 DEF CauseInv
<1>8. CASE ServerAnswers \/ ServerDies \/ UNCHANGED supplyVars
  <2>1. UNCHANGED <<scan, pc, resolved, unsent>> /\ (~up => ~up')
    BY <1>8 DEF ServerAnswers, ServerDies, Serve, Die, Other, resolveVars, supplyVars, rpcVars
  <2> QED BY <2>1 DEF CauseInv, RuleRaises, For
<1> QED BY <1>1, <1>2, <1>3, <1>4, <1>5, <1>6, <1>7, <1>8 DEF SupplyNext, Scan

(* At the end every rule had its turn.                                     *)
LEMMA ReportFollows == ReportInv => ResolvedIsReported
<1> SUFFICES ASSUME ReportInv PROVE ResolvedIsReported
  OBVIOUS
<1>1. ASSUME pc = "end", strays = 0, NEW rule \in Range(scan.rules), NEW r \in Range(For(rule))
      PROVE  Handled(rule, r)
  <2>1. scan.rules \in Seq(Range(scan.rules))
    BY ScansAssumption DEF ReportInv, ClosestInv, FoundInv
  <2>2. PICK n \in Nat, t \in Nat : n = Len(scan.rules) /\ t = turn /\ DOMAIN scan.rules = 1 .. n
    BY <2>1, LenProperties DEF ReportInv, TurnInv
  <2>3. t > n
    BY <1>1, <2>2 DEF ReportInv, TurnInv
  <2>4. PICK i \in 1 .. n : rule = scan.rules[i]
    BY <2>2 DEF Range
  <2>5. i \in 1 .. (t - 1)
    BY <2>2, <2>3
  <2> QED BY <1>1, <2>2, <2>4, <2>5 DEF ReportInv, HandledInv
<1>2. pc = "crashed" => ~up \/ RuleRaises
  BY DEF ReportInv, CauseInv
<1> QED BY <1>1, <1>2 DEF ResolvedIsReported, Handled, IsReported, RuleRaises

(* A scan that ends has a finding of each rule about each vulnerable       *)
(* dependency that was resolved, reachable or not, after any failed calls, *)
(* error packets and lockfiles that did not parse; and it breaks off only  *)
(* if semgrep-core has ended or a rule raises (dependency_aware_rule.py).  *)
THEOREM SupplyChainResolvedIsReported == SupplySpec => []ResolvedIsReported
<1>1. SupplyInit => ReportInv
  <2> SUFFICES ASSUME SupplyInit PROVE ReportInv
    OBVIOUS
  <2>1. ClosestInv
    BY ClosestInit
  <2>2. TurnInv /\ HandledInv /\ CauseInv
    BY DEF SupplyInit, RpcInit, TurnInv, HandledInv, CauseInv, Early, InTurn
  <2> QED BY <2>1, <2>2 DEF ReportInv
<1>2. ReportInv /\ [SupplyNext]_supplyVars => ReportInv'
  BY ClosestInductive, TurnInductive, HandledInductive, CauseInductive DEF ReportInv
<1> QED BY <1>1, <1>2, ReportFollows, PTL DEF SupplySpec
=============================================================================
