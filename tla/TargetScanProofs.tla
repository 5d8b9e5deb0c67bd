-------------------------- MODULE TargetScanProofs --------------------------
(***************************************************************************)
(* What holds of a worker of a core scan for every number of targets and   *)
(* rules.  The accounts of results, rules and timeouts need no assumption: *)
(* they hold wherever alarms land, and so do those of the timers that      *)
(* outlive their call and of the progress dots that are missing.           *)
(***************************************************************************)
EXTENDS TargetScan, FiniteSetTheorems, TLAPS

(* Where the worker is, whether it has a target and a rule there, and      *)
(* which exception is on its way.                                          *)
Control ==
    /\ pc \notin {"resolve", "reported"} => Busy
    /\ pc \in InCall => rule <= NRules[target]
    /\ pc \in {"resolve", "rules", "run", "diverged", "returned"} => exn = "none"
    /\ pc = "raised" => exn \in {"fatal", "other"}
    /\ pc = "handler" => exn # "none"
    /\ pc = "reported" => target = NTargets + 1

(* The rules behind the worker either returned or timed out.               *)
RulesBehind ==
    /\ returned \cup timeouts = 1..(rule - 1)
    /\ returned \cap timeouts = {}

(* The threshold is reached when File_timeout is on its way, not before.   *)
Countdown ==
    IF pc = "handler" /\ exn = "file_timeout"
      THEN Threshold > 0 /\ Cardinality(timeouts) = Threshold
      ELSE Threshold > 0 => Cardinality(timeouts) < Threshold

ScanInv == TypeOK /\ Control /\ OneResultPerTarget

(* One more on either side. *)
LEMMA OneMore ==
  ASSUME NEW d \in Nat, NEW n \in Nat, NEW k \in Nat, d + n = k - 1
  PROVE  (d + 1) + n = k
OBVIOUS

USE TargetScanAssumption DEF Targets, Busy, Goto, Raise, InCall, Places, Exns,
        vars, ruleVars, timerVars, scanVars

-----------------------------------------------------------------------------
(* Types, and where the worker can be. *)

LEMMA InitScan == Init => ScanInv
<1> SUFFICES ASSUME Init PROVE ScanInv
  OBVIOUS
<1>1. Pending \in ResultSet
  BY DEF ResultSet
<1>2. results \in [Targets -> ResultSet] /\ \A t \in Targets: results[t] = Pending
  BY <1>1 DEF Init
<1>3. report \in [kept : SUBSET Targets, tooMany : SUBSET {File[t] : t \in Targets}]
  BY DEF Init, NoReport
<1>4. TypeOK
  <2>1. config \in Configs /\ target \in 1..(NTargets + 1) /\ dots \in 0..(target - 1)
    BY DEF Init
  <2>2. Busy => rule <= NRules[target] + 1
    BY DEF Init
  <2>3. pc \in Places /\ rule \in Nat \ {0} /\ exn \in Exns /\ matches \in Nat
    BY DEF Init
  <2>4. returned \subseteq 1..(rule - 1) /\ timeouts \subseteq 1..(rule - 1)
    BY DEF Init
  <2>5. timer \in BOOLEAN /\ armed \in BOOLEAN /\ going \in BOOLEAN
    BY DEF Init
  <2> QED BY <1>2, <1>3, <2>1, <2>2, <2>3, <2>4, <2>5 DEF TypeOK
<1>5. Control
  BY DEF Init, Control
<1>6. OneResultPerTarget
  BY <1>2 DEF Init, OneResultPerTarget
<1> QED BY <1>4, <1>5, <1>6 DEF ScanInv

(* The steps that record a result and go on with the next target.          *)
LEMMA NextTargetKeeps ==
  ASSUME ScanInv, NextTarget, Busy,
         NEW r \in ResultSet \ {Pending}, results' = [results EXCEPT ![target] = r],
         dots' \in {dots, dots + 1}, report' = report,
         config' = config, timer' \in BOOLEAN, armed' \in BOOLEAN, going' \in BOOLEAN
  PROVE  ScanInv'
<1>1. TypeOK'
  <2>1. results' \in [Targets -> ResultSet]
    BY DEF ScanInv, TypeOK
  <2>2. target' \in 1..(NTargets + 1) /\ dots' \in 0..(target' - 1)
    BY DEF ScanInv, TypeOK, NextTarget
  <2>3. Busy' => rule' <= NRules[target'] + 1
    BY <2>2 DEF NextTarget
  <2>4. returned' \subseteq 1..(rule' - 1) /\ timeouts' \subseteq 1..(rule' - 1)
    BY DEF NextTarget
  <2> QED BY <2>1, <2>2, <2>3, <2>4 DEF ScanInv, TypeOK, NextTarget
<1>2. Control'
  BY DEF ScanInv, TypeOK, Control, NextTarget
<1>3. OneResultPerTarget'
  BY DEF ScanInv, TypeOK, OneResultPerTarget, NextTarget
<1> QED BY <1>1, <1>2, <1>3 DEF ScanInv

LEMMA ResultType ==
  ASSUME ScanInv, Busy, NEW k \in {"ok", "error"}, NEW n \in Nat
  PROVE  /\ Result(k, n) \in ResultSet \ {Pending}
         /\ [Result(k, n) EXCEPT !.exn = "timeout"] \in ResultSet \ {Pending}
<1> DEFINE res == Result(k, n)
           dead == [res EXCEPT !.exn = "timeout"]
<1>1. exn \in Exns /\ returned \in SUBSET Nat /\ timeouts \in SUBSET Nat
  BY DEF ScanInv, TypeOK
<1>2. (exn # "none" \/ NRules[target] > 0) \in BOOLEAN
  OBVIOUS
<1>3. /\ res.kind = k /\ dead.kind = k
      /\ res \in [kind : {"ok", "error"}, exn : Exns, matches : Nat, returned : SUBSET Nat,
                  timeouts : SUBSET Nat, scanned : BOOLEAN]
  BY <1>1, <1>2 DEF Result
<1>4. dead \in [kind : {"ok", "error"}, exn : Exns, matches : Nat, returned : SUBSET Nat,
                timeouts : SUBSET Nat, scanned : BOOLEAN]
  BY <1>3
<1>5. Pending.kind = "pending"
  BY DEF Pending
<1> QED BY <1>3, <1>4, <1>5 DEF ResultSet

RuleIsOver ==
    /\ pc \in InCall
    /\ rule' = rule + 1
    /\ target' = target
    /\ returned' \subseteq returned \cup {rule}
    /\ timeouts' \subseteq timeouts \cup {rule}

(* A rule that is over, in whichever way, is behind the worker.            *)
LEMMA AfterRule ==
  ASSUME ScanInv, RuleIsOver
  PROVE  /\ rule' \in Nat \ {0}
         /\ Busy' => rule' <= NRules[target'] + 1
         /\ returned' \subseteq 1..(rule' - 1)
         /\ timeouts' \subseteq 1..(rule' - 1)
<1>1. Busy /\ rule \in Nat \ {0} /\ NRules[target] \in Nat /\ rule <= NRules[target]
  BY DEF ScanInv, TypeOK, Control, RuleIsOver
<1>2. 1..(rule - 1) \cup {rule} = 1..(rule' - 1)
  BY <1>1 DEF RuleIsOver
<1>3. returned \subseteq 1..(rule - 1) /\ timeouts \subseteq 1..(rule - 1)
  BY DEF ScanInv, TypeOK
<1> QED BY <1>1, <1>2, <1>3 DEF RuleIsOver

LEMMA NextScan == ScanInv /\ [Next]_vars => ScanInv'
<1> SUFFICES ASSUME ScanInv, [Next]_vars PROVE ScanInv'
  OBVIOUS
<1> USE DEF ScanInv, TypeOK, Control, OneResultPerTarget
<1>1. CASE Resolve
  BY <1>1 DEF Resolve
<1>2. CASE StartUntimed
  BY <1>2 DEF StartUntimed
<1>3. CASE StartTimed
  BY <1>3 DEF StartTimed
<1>4. CASE StartRefused
  BY <1>4 DEF StartRefused
<1>5. CASE RuleReturns
  BY <1>5 DEF RuleReturns
<1>6. CASE RuleDiverges
  BY <1>6 DEF RuleDiverges
<1>7. CASE RuleRaises
  BY <1>7 DEF RuleRaises
<1>8. CASE RuleDone
  <2>1. matches' \in Nat
    BY <1>8 DEF RuleDone
  <2>2. RuleIsOver
    BY <1>8 DEF RuleDone, RuleIsOver
  <2> QED BY <1>8, <2>1, <2>2, AfterRule DEF RuleDone, ClearTimer
<1>9. CASE Reraise
  BY <1>9 DEF Reraise, ClearTimer
<1>10. CASE RuleTimedOut
  <2>1. RuleIsOver
    BY <1>10 DEF RuleTimedOut, RuleIsOver
  <2>2. CASE TooManyTimeouts(timeouts')
    BY <1>10, <2>1, <2>2, AfterRule DEF RuleTimedOut, ClearTimer
  <2>3. CASE ~TooManyTimeouts(timeouts')
    BY <1>10, <2>1, <2>3, AfterRule DEF RuleTimedOut, ClearTimer
  <2> QED BY <2>2, <2>3
<1>11. CASE AlarmInRule
  BY <1>11 DEF AlarmInRule, AlarmSpent
<1>12. CASE AlarmAfterRule
  BY <1>12 DEF AlarmAfterRule, AlarmSpent
<1>13. CASE AlarmInHandler
  BY <1>13 DEF AlarmInHandler, AlarmSpent
<1>14. CASE TargetDone
  BY <1>14, ResultType, NextTargetKeeps DEF TargetDone, Record
<1>15. CASE TargetFailed
  BY <1>15, ResultType, NextTargetKeeps DEF TargetFailed, Record
<1>16. CASE TargetEscaped
  BY <1>16, ResultType, NextTargetKeeps DEF TargetEscaped, Record
<1>17. CASE DomainDies
  BY <1>17, ResultType, NextTargetKeeps DEF DomainDies, ClearTimer
<1>18. CASE Report
  BY <1>18 DEF Report
<1>19. CASE UNCHANGED vars
  BY <1>19
<1> QED
  BY <1>1, <1>2, <1>3, <1>4, <1>5, <1>6, <1>7, <1>8, <1>9, <1>10, <1>11, <1>12, <1>13,
     <1>14, <1>15, <1>16, <1>17, <1>18, <1>19 DEF Next, Step, Environment

LEMMA ScanInvariant == Spec => []ScanInv
BY InitScan, NextScan, PTL DEF Spec

(* Every variable of the worker has its type.                              *)
THEOREM TypeCorrect == Spec => []TypeOK
<1>1. ScanInv => TypeOK
  BY DEF ScanInv
<1> QED BY <1>1, ScanInvariant, PTL

(* No target is dropped and none is done twice, whatever raises: in its    *)
(* rules, in set_timeout or in the scheduler of the domain (process_target *)
(* and its callers).                                                       *)
THEOREM EachTargetHasItsResult == Spec => []OneResultPerTarget
<1>1. ScanInv => OneResultPerTarget
  BY DEF ScanInv
<1> QED BY <1>1, ScanInvariant, PTL

-----------------------------------------------------------------------------
(* The accounts of the rules. *)

AccountInv == ScanInv /\ RulesBehind /\ RulesAccounted

LEMMA InitAccount == Init => AccountInv
BY InitScan DEF Init, AccountInv, RulesBehind, RulesAccounted

(* A new result, made of the accounts of its target, joins the others.     *)
LEMMA ResultAccounts ==
  ASSUME AccountInv, Busy, target' = target + 1,
         NEW r, results' = [results EXCEPT ![target] = r],
         r.kind = "ok" => /\ r.returned \cup r.timeouts = 1..NRules[target]
                          /\ r.returned \cap r.timeouts = {}
  PROVE  RulesAccounted'
BY DEF AccountInv, ScanInv, TypeOK, RulesAccounted

LEMMA NextAccount == AccountInv /\ [Next]_vars => AccountInv'
<1> SUFFICES ASSUME AccountInv, [Next]_vars PROVE AccountInv'
  OBVIOUS
<1>0. ScanInv'
  BY NextScan DEF AccountInv
<1>1. CASE RuleDone \/ RuleTimedOut
  <2>1. 1..(rule - 1) \cup {rule} = 1..(rule' - 1) /\ rule \notin 1..(rule - 1)
    BY <1>1 DEF AccountInv, ScanInv, TypeOK, RuleDone, RuleTimedOut
  <2>2. RulesBehind'
    BY <1>1, <2>1 DEF AccountInv, RulesBehind, RuleDone, RuleTimedOut
  <2>3. RulesAccounted'
    BY <1>1 DEF AccountInv, RulesAccounted, RuleDone, RuleTimedOut
  <2> QED BY <1>0, <2>2, <2>3 DEF AccountInv
<1>2. CASE TargetDone
  <2>1. rule - 1 = NRules[target]
    BY <1>2 DEF AccountInv, ScanInv, TypeOK, TargetDone
  <2>2. RulesAccounted'
    <3> DEFINE r == Result("ok", matches)
    <3>1. /\ results' = [results EXCEPT ![target] = r]
          /\ r.returned = returned /\ r.timeouts = timeouts
      BY <1>2 DEF TargetDone, Record, Result
    <3>2. Busy /\ target' = target + 1
      BY <1>2 DEF TargetDone, NextTarget
    <3> QED BY <2>1, <3>1, <3>2, ResultAccounts DEF AccountInv, RulesBehind
  <2>3. RulesBehind'
    BY <1>2 DEF TargetDone, NextTarget, RulesBehind
  <2> QED BY <1>0, <2>2, <2>3 DEF AccountInv
<1>3. CASE TargetFailed \/ TargetEscaped \/ DomainDies
  <2>1. Busy /\ NextTarget
    BY <1>3 DEF AccountInv, ScanInv, Control, TargetFailed, TargetEscaped, DomainDies
  <2>2. PICK r: results' = [results EXCEPT ![target] = r] /\ r.kind = "error"
    BY <1>3 DEF TargetFailed, TargetEscaped, DomainDies, Record, Result
  <2>3. RulesAccounted'
    <3>1. r.kind # "ok" /\ target' = target + 1
      BY <2>1, <2>2 DEF NextTarget
    <3> QED BY <2>1, <2>2, <3>1, ResultAccounts
  <2>4. RulesBehind'
    BY <2>1 DEF NextTarget, RulesBehind
  <2> QED BY <1>0, <2>3, <2>4 DEF AccountInv
<1>4. CASE UNCHANGED <<target, rule, returned, timeouts, results>>
  BY <1>0, <1>4 DEF AccountInv, RulesBehind, RulesAccounted
<1> QED
  <2>1. CASE Step
    BY <1>1, <1>2, <1>3, <1>4, <2>1
       DEF Step, Resolve, StartUntimed, StartTimed, StartRefused, RuleReturns, Reraise, Report
  <2>2. CASE AlarmInRule \/ Environment
    BY <1>3, <1>4, <2>2
       DEF AlarmInRule, Environment, RuleDiverges, RuleRaises, AlarmAfterRule, AlarmInHandler
  <2> QED BY <1>4, <2>1, <2>2 DEF Next

(* A target that ends well has every rule returned or timed out, exactly   *)
(* one of them, wherever alarms landed (per_rule_boilerplate_fn).          *)
THEOREM RulesAreAccountedFor == Spec => []RulesAccounted
<1>1. AccountInv => RulesAccounted
  BY DEF AccountInv
<1> QED BY <1>1, InitAccount, NextAccount, PTL DEF Spec

-----------------------------------------------------------------------------
(* The threshold of timeouts. *)

CountInv == ScanInv /\ Countdown /\ ThresholdRespected

(* One more rule times out: the count grows by one.                        *)
LEMMA OneMoreTimeout ==
  ASSUME ScanInv, RuleTimedOut
  PROVE  /\ Cardinality(timeouts) \in Nat
         /\ Cardinality(timeouts') = Cardinality(timeouts) + 1
<1>1. rule \notin timeouts /\ timeouts \subseteq 1..(rule - 1) /\ rule \in Nat
  BY DEF ScanInv, TypeOK
<1>2. IsFiniteSet(1..(rule - 1))
  BY <1>1, FS_Interval
<1>3. IsFiniteSet(timeouts)
  BY <1>1, <1>2, FS_Subset
<1>4. timeouts' = timeouts \cup {rule}
  BY DEF RuleTimedOut
<1> QED BY <1>1, <1>3, <1>4, FS_AddElement, FS_CardinalityType

LEMMA NextCount == CountInv /\ [Next]_vars => CountInv'
<1> SUFFICES ASSUME CountInv, [Next]_vars PROVE CountInv'
  OBVIOUS
<1>0. ScanInv'
  BY NextScan DEF CountInv
<1>1. CASE RuleTimedOut
  <2>1. Countdown'
    BY <1>1, OneMoreTimeout DEF CountInv, Countdown, RuleTimedOut, TooManyTimeouts
  <2>2. ThresholdRespected'
    BY <1>1 DEF CountInv, ThresholdRespected, RuleTimedOut
  <2> QED BY <1>0, <2>1, <2>2 DEF CountInv
<1>2. CASE TargetDone \/ TargetFailed \/ TargetEscaped \/ DomainDies
  <2>1. Busy /\ NextTarget
    BY <1>2 DEF CountInv, ScanInv, Control, TargetDone, TargetFailed, TargetEscaped, DomainDies
  <2>2. PICK r: /\ results' = [results EXCEPT ![target] = r]
                /\ r.timeouts = timeouts
                /\ r.exn = IF DomainDies THEN "timeout" ELSE exn
    <3> DEFINE ok == Result("ok", matches)
               error == Result("error", 0)
               dead == [error EXCEPT !.exn = "timeout"]
    <3>1. /\ ok.timeouts = timeouts /\ ok.exn = exn
          /\ error.timeouts = timeouts /\ error.exn = exn
          /\ dead.timeouts = timeouts /\ dead.exn = "timeout"
      BY DEF Result
    <3>2. \/ results' = [results EXCEPT ![target] = ok] /\ ~DomainDies
          \/ results' = [results EXCEPT ![target] = error] /\ ~DomainDies
          \/ results' = [results EXCEPT ![target] = dead] /\ DomainDies
      BY <1>2 DEF TargetDone, TargetFailed, TargetEscaped, DomainDies, Record
    <3> HIDE DEF ok, error, dead
    <3> QED BY <3>1, <3>2
  <2>3. r.exn = "file_timeout" <=> (pc = "handler" /\ exn = "file_timeout")
    BY <1>2, <2>2
       DEF CountInv, ScanInv, Control, TargetDone, TargetFailed, TargetEscaped, DomainDies
  <2>4. ThresholdRespected'
    BY <2>1, <2>2, <2>3
       DEF CountInv, ScanInv, TypeOK, Countdown, ThresholdRespected, NextTarget
  <2>5. Countdown'
    BY <2>1, FS_EmptySet DEF NextTarget, Countdown
  <2> QED BY <1>0, <2>4, <2>5 DEF CountInv
<1>3. CASE /\ UNCHANGED <<target, timeouts, results>>
           /\ (pc = "handler" /\ exn = "file_timeout")'
                <=> (pc = "handler" /\ exn = "file_timeout")
  BY <1>0, <1>3 DEF CountInv, Countdown, ThresholdRespected
<1> QED
  <2>1. CASE Step
    BY <1>1, <1>2, <1>3, <2>1
       DEF CountInv, ScanInv, Control, Step, Resolve, StartUntimed, StartTimed, StartRefused,
           RuleReturns, RuleDone, Reraise, Report
  <2>2. CASE AlarmInRule \/ Environment
    BY <1>2, <1>3, <2>2
       DEF AlarmInRule, Environment, RuleDiverges, RuleRaises, AlarmAfterRule, AlarmInHandler
  <2> QED BY <1>3, <2>1, <2>2 DEF Next

(* A file is abandoned after exactly timeout_threshold timeouts of its own *)
(* rules, for any number of rules and targets (per_rule_boilerplate_fn).   *)
THEOREM FilesAreAbandonedOnTime == Spec => []ThresholdRespected
<1>1. Init => CountInv
  BY InitScan, FS_EmptySet DEF Init, CountInv, Countdown, ThresholdRespected
<1>2. CountInv => ThresholdRespected
  BY DEF CountInv
<1> QED BY <1>1, <1>2, NextCount, PTL DEF Spec

-----------------------------------------------------------------------------
(* Timers. *)

(* A timer that is set outside a call of set_timeout, or beside a Timeout  *)
(* that leaves it.                                                         *)
Told ==
    \/ pc = "handler" /\ exn = "timeout"
    \/ \E t \in 1..(target - 1):
        /\ results[t].exn = "timeout"
        /\ \A u \in (t + 1)..(target - 1): NRules[u] > 0 => results[u].kind = "error"

TimerInv ==
    /\ ScanInv
    /\ pc \notin InCall /\ timer => HandlerAlarms /\ Told
    /\ armed \/ going => timer
    /\ pc \in {"resolve", "rules"} /\ timer => rule = 1

LEMMA TimerInvImplies == TimerInv => TimersAreScoped
BY DEF TimerInv, Told, TimersAreScoped

(* The result of a target that ends while the timer is set tells of it.    *)
LEMMA ToldByResult ==
  ASSUME TimerInv, Busy, target' = target + 1, timer, Told,
         NEW r, results' = [results EXCEPT ![target] = r],
         pc = "handler" /\ exn = "timeout" => r.exn = "timeout",
         NRules[target] > 0 => r.kind = "error"
  PROVE  \E t \in 1..(target' - 1):
            /\ results'[t].exn = "timeout"
            /\ \A u \in (t + 1)..(target' - 1): NRules[u] > 0 => results'[u].kind = "error"
<1>1. results \in [Targets -> ResultSet] /\ target \in Nat \ {0} /\ target <= NTargets
  BY DEF TimerInv, ScanInv, TypeOK
<1>2. results'[target] = r /\ \A t \in Targets: t # target => results'[t] = results[t]
  BY <1>1
<1>3. CASE pc = "handler" /\ exn = "timeout"
  <2>1. target \in 1..(target' - 1) /\ (target + 1)..(target' - 1) = {}
    BY <1>1
  <2> QED BY <1>2, <1>3, <2>1
<1>4. CASE ~(pc = "handler" /\ exn = "timeout")
  <2>1. PICK t \in 1..(target - 1):
            /\ results[t].exn = "timeout"
            /\ \A u \in (t + 1)..(target - 1): NRules[u] > 0 => results[u].kind = "error"
    BY <1>4 DEF Told
  <2>2. t \in 1..(target' - 1) /\ t \in Targets /\ t # target /\ target' - 1 = target
    BY <1>1
  <2>3. ASSUME NEW u \in (t + 1)..(target' - 1), NRules[u] > 0
        PROVE  results'[u].kind = "error"
    <3>1. CASE u = target
      BY <1>2, <2>3, <3>1
    <3>2. CASE u # target
      <4>1. u \in (t + 1)..(target - 1) /\ u \in Targets
        BY <1>1, <2>2, <2>3, <3>2
      <4> QED BY <1>2, <2>1, <2>3, <3>2, <4>1
    <3> QED BY <3>1, <3>2
  <2> QED BY <1>2, <2>1, <2>2, <2>3
<1> QED BY <1>3, <1>4

LEMMA NextTimer == TimerInv /\ [Next]_vars => TimerInv'
<1> SUFFICES ASSUME TimerInv, [Next]_vars PROVE TimerInv'
  OBVIOUS
<1>0. ScanInv' /\ (HandlerAlarms' <=> HandlerAlarms)
  BY NextScan DEF TimerInv, HandlerAlarms, Next, Step, Environment, Resolve, StartUntimed,
         StartTimed, StartRefused, RuleReturns,
         RuleDone, Reraise, RuleTimedOut, TargetDone, TargetFailed, TargetEscaped, Report,
         AlarmInRule, RuleDiverges, RuleRaises, AlarmAfterRule, AlarmInHandler, DomainDies
<1>1. CASE RuleDone \/ Reraise \/ RuleTimedOut \/ DomainDies
  <2>1. ~timer' /\ ~armed' /\ ~going'
    BY <1>1 DEF RuleDone, Reraise, RuleTimedOut, DomainDies, ClearTimer
  <2> QED BY <1>0, <2>1 DEF TimerInv
<1>2. CASE TargetDone \/ TargetFailed \/ TargetEscaped
  <2>1. Busy /\ target' = target + 1 /\ pc \notin InCall /\ rule' = 1 /\ UNCHANGED timerVars
    BY <1>2 DEF TimerInv, ScanInv, Control, TargetDone, TargetFailed, TargetEscaped, NextTarget
  <2>2. PICK r: /\ results' = [results EXCEPT ![target] = r] /\ r.exn = exn
                /\ r.kind = IF TargetDone THEN "ok" ELSE "error"
    <3> DEFINE ok == Result("ok", matches)
               error == Result("error", 0)
    <3>1. ok.exn = exn /\ ok.kind = "ok" /\ error.exn = exn /\ error.kind = "error"
      BY DEF Result
    <3>2. \/ results' = [results EXCEPT ![target] = ok] /\ TargetDone
          \/ results' = [results EXCEPT ![target] = error] /\ ~TargetDone
      BY <1>2 DEF TargetDone, TargetFailed, TargetEscaped, Record
    <3> HIDE DEF ok, error
    <3> QED BY <3>1, <3>2
  <2>3. CASE ~timer
    BY <1>0, <2>1, <2>3 DEF TimerInv
  <2>4. CASE timer
    <3>1. HandlerAlarms /\ Told
      BY <2>1, <2>4 DEF TimerInv
    <3>2. TargetDone => NRules[target] = 0
      BY <1>2, <2>4 DEF TimerInv, ScanInv, TypeOK, TargetDone
    <3>3. /\ pc = "handler" /\ exn = "timeout" => r.exn = "timeout"
          /\ NRules[target] > 0 => r.kind = "error"
      BY <2>2, <3>2
    <3>4. \E t \in 1..(target' - 1):
            /\ results'[t].exn = "timeout"
            /\ \A u \in (t + 1)..(target' - 1): NRules[u] > 0 => results'[u].kind = "error"
      BY <2>1, <2>2, <2>4, <3>1, <3>3, ToldByResult
    <3>5. Told'
      BY <3>4 DEF Told
    <3> QED BY <1>0, <2>1, <3>1, <3>5 DEF TimerInv
  <2> QED BY <2>3, <2>4
<1>3. CASE AlarmInHandler
  BY <1>0, <1>3 DEF TimerInv, Told, AlarmInHandler, AlarmSpent
<1>4. CASE pc' \in InCall /\ (armed' \/ going' => timer')
  BY <1>0, <1>4 DEF TimerInv
<1>5. CASE UNCHANGED <<timerVars, rule, target, results>> /\ pc # "handler" /\ pc \notin InCall
           /\ (pc' \in {"resolve", "rules"} => pc \in {"resolve", "rules"})
  BY <1>0, <1>5 DEF TimerInv, Told
<1>6. CASE UNCHANGED vars
  BY <1>0, <1>6 DEF TimerInv, Told
<1> QED
  <2>1. CASE Step
    <3>1. CASE StartUntimed \/ StartTimed \/ RuleReturns
      BY <1>4, <3>1 DEF TimerInv, StartUntimed, StartTimed, RuleReturns
    <3>2. CASE Resolve \/ StartRefused \/ Report
      BY <1>5, <3>2 DEF TimerInv, ScanInv, Control, Resolve, StartRefused, Report
    <3> QED BY <1>1, <1>2, <2>1, <3>1, <3>2 DEF Step
  <2>2. CASE AlarmInRule \/ Environment
    BY <1>1, <1>3, <1>4, <2>2
       DEF TimerInv, AlarmInRule, Environment, RuleDiverges, RuleRaises, AlarmAfterRule, AlarmSpent
  <2> QED BY <1>6, <2>1, <2>2 DEF Next

(* No timer outlives its call silently: only an alarm in a handler of      *)
(* set_timeout leaves one, and from then on every target with rules is     *)
(* reported as failed (clear_timer, set_timeout of Time_limit.ml).         *)
THEOREM TimersEndWithTheirCall == Spec => []TimersAreScoped
<1>1. Init => TimerInv
  BY InitScan DEF Init, TimerInv
<1> QED BY <1>1, TimerInvImplies, NextTimer, PTL DEF Spec

-----------------------------------------------------------------------------
(* Progress. *)

(* Timeout may be raised outside the rules.                                *)
Astray == HandlerAlarms \/ Suspends

ProgressInv ==
    /\ ScanInv
    /\ IsFiniteSet(NoDot)
    /\ dots + Cardinality(NoDot) = target - 1
    /\ TimeoutIsLocal
    /\ pc = "handler" /\ exn = "timeout" => Astray

(* The account of dots after a target is over.                             *)
LEMMA DotOrNot ==
  ASSUME ProgressInv, Busy, target' = target + 1, FailFast' = FailFast,
         NEW r, results' = [results EXCEPT ![target] = r],
         dots' = IF r.exn = "timeout" \/ (FailFast /\ r.exn = "other") THEN dots ELSE dots + 1
  PROVE  IsFiniteSet(NoDot') /\ dots' + Cardinality(NoDot') = target' - 1
<1>1. results \in [Targets -> ResultSet] /\ target \in Nat \ {0} /\ target <= NTargets /\ dots \in Nat
  BY DEF ProgressInv, ScanInv, TypeOK
<1>2. results'[target] = r /\ \A t \in Targets: t # target => results'[t] = results[t]
  BY <1>1
<1>3. target' - 1 = target /\ target \notin NoDot
  BY <1>1 DEF NoDot
<1>4. 1..target = 1..(target - 1) \cup {target} /\ 1..target \subseteq Targets
      /\ target \notin 1..(target - 1)
  BY <1>1
<1>5. IsFiniteSet(NoDot) /\ Cardinality(NoDot) \in Nat /\ dots + Cardinality(NoDot) = target - 1
  BY FS_CardinalityType DEF ProgressInv
<1>6. PICK n \in Nat : n = Cardinality(NoDot)
  BY <1>5
<1>7. CASE r.exn = "timeout" \/ (FailFast /\ r.exn = "other")
  <2>1. NoDot' = NoDot \cup {target}
    BY <1>2, <1>3, <1>4, <1>7 DEF NoDot
  <2>2. IsFiniteSet(NoDot') /\ Cardinality(NoDot') = n + 1
    BY <1>3, <1>5, <1>6, <2>1, FS_AddElement
  <2>3. dots' = dots /\ dots + n = target - 1
    BY <1>5, <1>6, <1>7
  <2>4. dots + (n + 1) = target' - 1
    BY <1>1, <1>3, <1>6, <2>3
  <2> QED BY <2>2, <2>3, <2>4
<1>8. CASE ~(r.exn = "timeout" \/ (FailFast /\ r.exn = "other"))
  <2>1. NoDot' = NoDot
    BY <1>2, <1>3, <1>4, <1>8 DEF NoDot
  <2>2. dots' = dots + 1 /\ dots + n = target - 1
    BY <1>5, <1>6, <1>8
  <2>3. (dots + 1) + n = target' - 1
    <3>1. PICK d \in Nat, k \in Nat \ {0} : d = dots /\ k = target
      BY <1>1
    <3>2. d + n = k - 1
      BY <2>2, <3>1
    <3>3. (d + 1) + n = k
      BY <3>2, OneMore
    <3> QED BY <1>3, <3>1, <3>3
  <2>4. dots' + n = target' - 1
    BY <2>2, <2>3
  <2> QED BY <1>5, <1>6, <2>1, <2>4
<1> QED BY <1>7, <1>8

LEMMA NextProgress == ProgressInv /\ [Next]_vars => ProgressInv'
<1> SUFFICES ASSUME ProgressInv, [Next]_vars PROVE ProgressInv'
  OBVIOUS
<1>0. ScanInv'
  BY NextScan DEF ProgressInv
<1> USE DEF Astray
<1>1. config' = config
  BY DEF Next, Step, Environment, Resolve, StartUntimed, StartTimed, StartRefused, RuleReturns,
         RuleDone, Reraise, RuleTimedOut, TargetDone, TargetFailed, TargetEscaped, Report,
         AlarmInRule, RuleDiverges, RuleRaises, AlarmAfterRule, AlarmInHandler, DomainDies
<1>2. (FailFast' <=> FailFast) /\ (HandlerAlarms' <=> HandlerAlarms) /\ (Suspends' <=> Suspends)
      /\ FailFast' = FailFast
  BY <1>1 DEF FailFast, HandlerAlarms, Suspends
<1>3. CASE TargetDone \/ TargetFailed \/ TargetEscaped \/ DomainDies
  <2>1. Busy /\ NextTarget
    BY <1>3 DEF ProgressInv, ScanInv, Control, TargetDone, TargetFailed, TargetEscaped, DomainDies
  <2>2. PICK r: results' = [results EXCEPT ![target] = r]
                /\ r.exn = IF DomainDies THEN "timeout" ELSE exn
    <3> DEFINE ok == Result("ok", matches)
               error == Result("error", 0)
               dead == [error EXCEPT !.exn = "timeout"]
    <3>1. ok.exn = exn /\ error.exn = exn /\ dead.exn = "timeout"
      BY DEF Result
    <3>2. \/ results' = [results EXCEPT ![target] = ok] /\ ~DomainDies
          \/ results' = [results EXCEPT ![target] = error] /\ ~DomainDies
          \/ results' = [results EXCEPT ![target] = dead] /\ DomainDies
      BY <1>3 DEF TargetDone, TargetFailed, TargetEscaped, DomainDies, Record
    <3> HIDE DEF ok, error, dead
    <3> QED BY <3>1, <3>2
  <2>3. target' = target + 1 /\ pc' = "resolve"
    BY <2>1 DEF NextTarget
  <2>4. dots' = IF r.exn = "timeout" \/ (FailFast /\ r.exn = "other") THEN dots ELSE dots + 1
    BY <1>3, <2>2 DEF ProgressInv, ScanInv, TypeOK, Control, Handled,
                      TargetDone, TargetFailed, TargetEscaped, DomainDies
  <2>5. IsFiniteSet(NoDot') /\ dots' + Cardinality(NoDot') = target' - 1
    BY <1>2, <2>1, <2>2, <2>3, <2>4, DotOrNot
  <2>6. r.exn = "timeout" => Astray
    BY <1>3, <2>2 DEF ProgressInv, ScanInv, Control, TargetDone, TargetFailed, TargetEscaped, DomainDies
  <2>7. TimeoutIsLocal'
    BY <1>2, <2>1, <2>2, <2>3, <2>6 DEF ProgressInv, ScanInv, TypeOK, TimeoutIsLocal
  <2> QED BY <1>0, <2>3, <2>5, <2>7 DEF ProgressInv
<1>4. CASE /\ UNCHANGED <<target, dots, results>>
           /\ pc' = "handler" /\ exn' = "timeout" => Astray
  <2>1. NoDot' = NoDot
    BY <1>2, <1>4 DEF NoDot
  <2> QED BY <1>0, <1>2, <1>4, <2>1 DEF ProgressInv, TimeoutIsLocal
<1> QED
  <2>1. CASE Step
    BY <1>3, <1>4, <2>1
       DEF ProgressInv, ScanInv, Control, Step, Resolve, StartUntimed, StartTimed, StartRefused,
           RuleReturns, RuleDone, Reraise, RuleTimedOut, Report
  <2>2. CASE AlarmInRule \/ Environment
    BY <1>3, <1>4, <2>2
       DEF ProgressInv, AlarmInRule, Environment, RuleDiverges, RuleRaises, AlarmAfterRule,
           AlarmInHandler
  <2> QED BY <1>4, <2>1, <2>2 DEF Next, ProgressInv

(* Each target that is over printed its dot, but for those Timeout or,     *)
(* with fail_fast, an unhandled exception escaped from; and Timeout        *)
(* escapes only when it is raised outside the rules (process_target).      *)
THEOREM ProgressIsReported == Spec => []ProgressPerTarget
<1>1. Init => ProgressInv
  <2> SUFFICES ASSUME Init PROVE ProgressInv
    OBVIOUS
  <2>1. NoDot = {} /\ target = 1 /\ dots = 0 /\ pc = "resolve"
    BY DEF Init, NoDot
  <2> QED BY <2>1, InitScan, FS_EmptySet DEF ProgressInv, TimeoutIsLocal
<1>2. ProgressInv => ProgressPerTarget
  BY DEF ProgressInv, ProgressPerTarget
<1> QED BY <1>1, <1>2, NextProgress, PTL DEF Spec
=============================================================================
