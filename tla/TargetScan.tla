----------------------------- MODULE TargetScan -----------------------------
(***************************************************************************)
(* What one worker of a core scan does with its targets: process_target of *)
(* src/core_scan/Core_scan.ml runs the rules of a target one by one        *)
(* (src/engine/Match_rules.ml), each under a time limit                    *)
(* (libs/process_limits/Time_limit.ml) and all of them under a memory      *)
(* limit (Memory_limit.ml), and turns whatever happens into one result per *)
(* target, from which scan_exn builds its report.                          *)
(*                                                                         *)
(* The time limit is an alarm: a one-shot SIGALRM when the workers are     *)
(* processes, a GC alarm that may go off again and again when they are     *)
(* domains.  Either raises Timeout wherever the worker happens to be.      *)
(* current_timer belongs to the worker, not to the target: what one target *)
(* leaves in it, the next one finds.                                       *)
(***************************************************************************)
EXTENDS Naturals, FiniteSets

LOCAL INSTANCE Functions

CONSTANTS
    NTargets,         \* the targets are 1..NTargets, in the order they are processed
    NRules,           \* NRules[t]: the number of rules relevant for target t
    File,             \* File[t]: the file of t; targets of two languages may share it
    Configs,          \* the configurations to scan with
    Threshold,        \* timeout_threshold: timeouts after which a file is abandoned
    MaxMatchPerFile,  \* max_match_per_file
    MaxMatches        \* bound: matches of one rule

Targets == 1..NTargets

ASSUME TargetScanAssumption ==
    /\ NTargets \in Nat
    /\ NRules \in [Targets -> Nat]
    /\ Configs \subseteq [signal : BOOLEAN, timeLimit : BOOLEAN, failFast : BOOLEAN,
                           handlerAlarms : BOOLEAN, suspends : BOOLEAN]
    /\ Threshold \in Nat
    /\ MaxMatchPerFile \in Nat
    /\ MaxMatches \in Nat

VARIABLES
    config,    \* how the worker scans
    target,    \* the target being processed
    pc,        \* where the worker is in process_target
    rule,      \* the rule being run, or to run next
    exn,       \* the exception on its way out
    matches,   \* the matches of the target so far
    returned,  \* the rules that returned
    timeouts,  \* rule_timeouts
    timer,     \* current_timer is set
    armed,     \* the interval timer runs, or the GC alarm is registered
    going,     \* `started`: the GC alarm is to raise
    dots,      \* the progress dots printed
    results,   \* the result of each target
    report     \* what scan_exn returns

ruleVars == <<rule, matches, returned, timeouts>>
timerVars == <<timer, armed, going>>
scanVars == <<config, target, dots, results, report>>
vars == <<pc, exn, ruleVars, timerVars, scanVars>>

Signal == config.signal         \* SIGALRM (processes), not a GC alarm (domains)
TimeLimit == config.timeLimit   \* the timeout of a rule is positive
FailFast == config.failFast     \* the fail_fast flag

(* Where alarms find the worker: also in the handlers of set_timeout, or   *)
(* in the scheduler, when a rule may suspend its fiber (Eio).              *)
HandlerAlarms == config.handlerAlarms
Suspends == config.suspends

Pending == [kind |-> "pending"]
NoReport == [kept |-> {}, tooMany |-> {}]

Init ==
    /\ config \in Configs
    /\ target = 1
    /\ pc = "resolve"
    /\ rule = 1
    /\ exn = "none"
    /\ matches = 0
    /\ returned = {}
    /\ timeouts = {}
    /\ timer = FALSE
    /\ armed = FALSE
    /\ going = FALSE
    /\ dots = 0
    /\ results = [t \in Targets |-> Pending]
    /\ report = NoReport

Busy == target \in Targets

Goto(l) == pc' = l
Raise(x) == exn' = x

-----------------------------------------------------------------------------
(* Match_rules.check: the rules of the target, one by one. *)

(* Xtarget.resolve and the prefilter, outside any time limit.              *)
Resolve ==
    /\ Busy
    /\ pc = "resolve"
    /\ \/ Goto("rules") /\ UNCHANGED exn
       \/ Goto("handler") /\ \E x \in {"fatal", "other"}: Raise(x)
    /\ UNCHANGED <<ruleVars, timerVars, scanVars>>

(* timeout_function without a time limit: run the rule.                    *)
StartUntimed ==
    /\ pc = "rules"
    /\ rule <= NRules[target]
    /\ ~TimeLimit
    /\ Goto("run")
    /\ UNCHANGED <<exn, ruleVars, timerVars, scanVars>>

(* Mutant of StartTimed: the timer is set, the alarm is not.               *)
StartUnarmed ==
    /\ pc = "rules"
    /\ rule <= NRules[target]
    /\ TimeLimit
    /\ ~timer
    /\ timer' = TRUE
    /\ Goto("run")
    /\ UNCHANGED <<armed, going, exn, ruleVars, scanVars>>

(* set_timeout: set the timer of the worker and the alarm.                 *)
StartTimed ==
    /\ pc = "rules"
    /\ rule <= NRules[target]
    /\ TimeLimit
    /\ ~timer
    /\ timer' = TRUE
    /\ armed' = TRUE
    /\ going' = ~Signal
    /\ Goto("run")
    /\ UNCHANGED <<exn, ruleVars, scanVars>>

(* set_timeout while a timer is set: Invalid_argument.                     *)
StartRefused ==
    /\ pc = "rules"
    /\ rule <= NRules[target]
    /\ TimeLimit
    /\ timer
    /\ Raise("other")
    /\ Goto("handler")
    /\ UNCHANGED <<ruleVars, timerVars, scanVars>>

(* The rule returns; its alarm is still set.                               *)
RuleReturns ==
    /\ pc = "run"
    /\ Goto("returned")
    /\ UNCHANGED <<exn, ruleVars, timerVars, scanVars>>

(* The rule never returns: only its alarm ends it.                         *)
RuleDiverges ==
    /\ pc = "run"
    /\ TimeLimit
    /\ Goto("diverged")
    /\ UNCHANGED <<exn, ruleVars, timerVars, scanVars>>

(* The rule raises, or the memory alarm raises in it; `finally` resets     *)
(* `started`.                                                              *)
RuleRaises ==
    /\ pc \in {"run", "diverged"}
    /\ \E x \in {"fatal", "other"}: Raise(x)
    /\ Goto("raised")
    /\ going' = FALSE
    /\ UNCHANGED <<ruleVars, timer, armed, scanVars>>

(* Mutant of ClearTimer: the alarm is cancelled, current_timer stays set.  *)
ClearAlarmOnly ==
    /\ armed' = FALSE
    /\ going' = FALSE
    /\ UNCHANGED timer

(* clear_timer on every way out of set_timeout.                            *)
ClearTimer ==
    /\ timer' = FALSE
    /\ armed' = FALSE
    /\ going' = FALSE

(* Its alarm is off: its matches are those of the target.                  *)
RuleDone ==
    /\ pc = "returned"
    /\ ClearTimer
    /\ \E n \in 0..MaxMatches: matches' = matches + n
    /\ returned' = returned \cup {rule}
    /\ rule' = rule + 1
    /\ Goto("rules")
    /\ UNCHANGED <<exn, timeouts, scanVars>>

(* set_timeout clears the timer and reraises.                              *)
Reraise ==
    /\ pc = "raised"
    /\ ClearTimer
    /\ Goto("handler")
    /\ UNCHANGED <<exn, ruleVars, scanVars>>

TooManyTimeouts(ts) == Threshold > 0 /\ Cardinality(ts) >= Threshold

(* set_timeout returns None: record the rule, and give the file up once    *)
(* there are Threshold of them.                                            *)
RuleTimedOut ==
    /\ pc = "caught"
    /\ ClearTimer
    /\ timeouts' = timeouts \cup {rule}
    /\ IF TooManyTimeouts(timeouts')
         THEN Raise("file_timeout") /\ Goto("handler")
         ELSE Raise("none") /\ Goto("rules")
    /\ rule' = rule + 1
    /\ UNCHANGED <<matches, returned, scanVars>>

-----------------------------------------------------------------------------
(* The alarm of the time limit. *)

AlarmMayRaise == armed /\ (Signal \/ going)

(* After SIGALRM the interval timer is not restarted; a GC alarm stays.    *)
AlarmSpent == armed' = (armed /\ ~Signal)

(* In the rule: `finally` resets `started`, and set_timeout catches.       *)
AlarmInRule ==
    /\ pc \in {"run", "diverged"}
    /\ AlarmMayRaise
    /\ AlarmSpent
    /\ going' = FALSE
    /\ Raise("timeout")
    /\ Goto("caught")
    /\ UNCHANGED <<ruleVars, timer, scanVars>>

(* When the rule has returned and its timer is not cleared yet: caught     *)
(* too, and its matches are lost, but `started` is not reset.              *)
AlarmAfterRule ==
    /\ pc = "returned"
    /\ AlarmMayRaise
    /\ AlarmSpent
    /\ Raise("timeout")
    /\ Goto("caught")
    /\ UNCHANGED <<ruleVars, timer, going, scanVars>>

(* In a handler of set_timeout, or where a previous one left it armed:     *)
(* Timeout leaves set_timeout with the timer still set.                    *)
AlarmInHandler ==
    /\ HandlerAlarms
    /\ Busy
    /\ pc \in {"caught", "raised", "rules", "resolve"}
    /\ AlarmMayRaise
    /\ AlarmSpent
    /\ Raise("timeout")
    /\ Goto("handler")
    /\ UNCHANGED <<ruleVars, timer, going, scanVars>>

-----------------------------------------------------------------------------
(* The result of the target. *)

Result(kind, n) ==
    [kind |-> kind, exn |-> exn, matches |-> n, returned |-> returned,
     timeouts |-> timeouts, scanned |-> exn # "none" \/ NRules[target] > 0]

(* Mutant of NextTarget: the timeouts of one target count for the next.    *)
NextTargetKeepsCount ==
    /\ target' = target + 1
    /\ Goto("resolve")
    /\ Raise("none")
    /\ rule' = 1
    /\ matches' = 0
    /\ returned' = {}
    /\ UNCHANGED timeouts

(* Everything the next target must not find, reset: the counters are those *)
(* of a new per_rule_boilerplate_fn.                                       *)
NextTarget ==
    /\ target' = target + 1
    /\ Goto("resolve")
    /\ Raise("none")
    /\ rule' = 1
    /\ matches' = 0
    /\ returned' = {}
    /\ timeouts' = {}

Record(r) == results' = [results EXCEPT ![target] = r]

(* All rules are done: print a dot.                                        *)
TargetDone ==
    /\ Busy
    /\ pc = "rules"
    /\ rule > NRules[target]
    /\ Record(Result("ok", matches))
    /\ dots' = dots + 1
    /\ NextTarget
    /\ UNCHANGED <<timerVars, config, report>>

(* Mutant of Handled: the catch-all handler is forgotten.                  *)
HandledCritical(x) == x \in {"file_timeout", "fatal"}

(* The exceptions process_target turns into errors.                        *)
Handled(x) == x \in {"file_timeout", "fatal"} \/ (x = "other" /\ ~FailFast)

TargetFailed ==
    /\ pc = "handler"
    /\ Handled(exn)
    /\ Record(Result("error", 0))
    /\ dots' = dots + 1
    /\ NextTarget
    /\ UNCHANGED <<timerVars, config, report>>

(* Mutant of TargetEscaped: the exception is dropped with its target.      *)
TargetDropped ==
    /\ pc = "handler"
    /\ ~Handled(exn)
    /\ NextTarget
    /\ UNCHANGED <<timerVars, config, dots, results, report>>

(* Timeout ("this shouldn't happen") and, with fail_fast, any other: it    *)
(* leaves process_target, whose caller (wrap_result or exception_handler)  *)
(* makes it the result.                                                    *)
TargetEscaped ==
    /\ pc = "handler"
    /\ ~Handled(exn)
    /\ Record(Result("error", 0))
    /\ NextTarget
    /\ UNCHANGED <<timerVars, config, dots, report>>

(* A GC alarm in the scheduler, while the rule is suspended: the domain    *)
(* dies, Executor_pool fails the job with Timeout and the next target runs *)
(* in a new domain.                                                        *)
DomainDies ==
    /\ Suspends
    /\ ~Signal
    /\ pc = "run"
    /\ AlarmMayRaise
    /\ results' = [results EXCEPT ![target] = [Result("error", 0) EXCEPT !.exn = "timeout"]]
    /\ ClearTimer
    /\ NextTarget
    /\ UNCHANGED <<config, dots, report>>

-----------------------------------------------------------------------------
(* scan_exn: the files with too many matches are dropped from the report. *)

MatchesOf(f) ==
    SumFunctionOnSet([t \in Targets |-> results[t].matches], {t \in Targets : File[t] = f})

Report ==
    /\ target = NTargets + 1
    /\ pc # "reported"
    /\ Goto("reported")
    /\ LET files == {File[t] : t \in Targets}
           offending == {f \in files : MatchesOf(f) > MaxMatchPerFile}
       IN  report' = [kept |-> {t \in Targets : File[t] \notin offending},
                      tooMany |-> offending]
    /\ UNCHANGED <<exn, ruleVars, timerVars, config, target, dots, results>>

-----------------------------------------------------------------------------
Step ==
    \/ Resolve \/ StartUntimed \/ StartTimed \/ StartRefused
    \/ RuleReturns \/ RuleDone \/ Reraise \/ RuleTimedOut
    \/ TargetDone \/ TargetFailed \/ TargetEscaped \/ Report

Environment == RuleDiverges \/ RuleRaises \/ AlarmAfterRule \/ AlarmInHandler \/ DomainDies

Next == Step \/ AlarmInRule \/ Environment

(* The worker runs; the alarm of a rule that goes on for ever goes off.    *)
Fairness == WF_vars(Step) /\ WF_vars(AlarmInRule)

Spec == Init /\ [][Next]_vars /\ Fairness

-----------------------------------------------------------------------------
(* Properties. *)

Exns == {"none", "timeout", "file_timeout", "fatal", "other"}
InCall == {"run", "diverged", "returned", "caught", "raised"}
Places == InCall \cup {"resolve", "rules", "handler", "reported"}

ResultSet ==
    [kind : {"ok", "error"}, exn : Exns, matches : Nat, returned : SUBSET Nat,
     timeouts : SUBSET Nat, scanned : BOOLEAN] \cup {Pending}

(* Every variable has its type: one result per target, a rule number that  *)
(* is at most one past the last rule of the target, no progress dot        *)
(* without a target.                                                       *)
TypeOK ==
    /\ config \in Configs
    /\ target \in 1..(NTargets + 1)
    /\ pc \in Places
    /\ rule \in Nat \ {0}
    /\ Busy => rule <= NRules[target] + 1
    /\ exn \in Exns
    /\ matches \in Nat
    /\ returned \subseteq 1..(rule - 1)
    /\ timeouts \subseteq 1..(rule - 1)
    /\ timer \in BOOLEAN
    /\ armed \in BOOLEAN
    /\ going \in BOOLEAN
    /\ dots \in 0..(target - 1)
    /\ results \in [Targets -> ResultSet]
    /\ report \in [kept : SUBSET Targets, tooMany : SUBSET {File[t] : t \in Targets}]

(* No timer, interval timer or GC alarm of a rule is left silently once    *)
(* set_timeout has returned or raised.  Only an alarm in one of its        *)
(* handlers, which clear_timer then does not follow (Time_limit.ml:216),   *)
(* can leave one; it is told, as the Timeout on its way or as the result   *)
(* of a target, and since every later set_timeout is refused, no later     *)
(* target with rules is reported as scanned.                               *)
TimersAreScoped ==
    pc \notin InCall /\ (timer \/ armed \/ going) =>
        /\ HandlerAlarms
        /\ \/ pc = "handler" /\ exn = "timeout"
           \/ \E t \in 1..(target - 1):
                /\ results[t].exn = "timeout"
                /\ \A u \in (t + 1)..(target - 1): NRules[u] > 0 => results[u].kind = "error"

(* A target that ends well accounts for each of its rules exactly once: it *)
(* returned its matches or it is among the timeouts of this target, never  *)
(* both and never those of another (per_rule_boilerplate_fn).              *)
RulesAccounted ==
    \A t \in 1..(target - 1): results[t].kind = "ok" =>
        /\ results[t].returned \cup results[t].timeouts = 1..NRules[t]
        /\ results[t].returned \cap results[t].timeouts = {}

(* A file is abandoned exactly when timeout_threshold of its rules timed   *)
(* out, and with a threshold of 0 never (per_rule_boilerplate_fn).         *)
ThresholdRespected ==
    \A t \in 1..(target - 1):
        LET n == Cardinality(results[t].timeouts) IN
        IF results[t].exn = "file_timeout" THEN Threshold > 0 /\ n = Threshold
                                           ELSE Threshold > 0 => n < Threshold

(* A timeout ends a rule or a file: Timeout itself never becomes what      *)
(* happened to a target, for set_timeout catches it, unless it is raised   *)
(* in a handler of set_timeout or in the scheduler.                        *)
TimeoutIsLocal ==
    HandlerAlarms \/ Suspends \/ \A t \in 1..(target - 1): results[t].exn # "timeout"

(* A progress dot is printed for each target that is over, whether or not  *)
(* it succeeded (process_target): the Python progress bar counts them.     *)
(* Missing are exactly the dots of the targets Timeout escaped from, which *)
(* takes an alarm outside the rules, and with fail_fast of those whose     *)
(* exception nobody handles.                                               *)
NoDot == {t \in 1..(target - 1):
             results[t].exn = "timeout" \/ (FailFast /\ results[t].exn = "other")}
ProgressPerTarget == TimeoutIsLocal /\ dots + Cardinality(NoDot) = target - 1

(* Every target that is over has its one result, also those whose          *)
(* exceptions left process_target or killed their domain, and no other has *)
(* one.                                                                    *)
OneResultPerTarget == \A t \in Targets: results[t] = Pending <=> t >= target

(* The scan ends, whichever rules go on for ever, raise or time out.       *)
ScanEnds == <>(pc = "reported")
=============================================================================
