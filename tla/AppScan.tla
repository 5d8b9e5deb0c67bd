------------------------------ MODULE AppScan -------------------------------
(***************************************************************************)
(* The conversation with semgrep.dev (semgrep/app/scans.py, ScanHandler,   *)
(* over semgrep/app/session.py, AppSession).  A POST that is answered with *)
(* a transient status is sent again by the session, three times, and then  *)
(* raises: the server may have acted on any of the copies.                 *)
(*                                                                         *)
(* Time is counted in units of the short sleep of the poll loop.           *)
(***************************************************************************)
EXTENDS Integers

CONSTANTS TryUntil,     \* the poll gives up after this time (30 minutes)
          SlowAfter,    \* from here on it sleeps longer (2 minutes)
          SlowSleep,    \* the long sleep (30 seconds against 5)
          Replies       \* the answers to the request that opens a scan

ASSUME PollTimes == /\ TryUntil \in Nat /\ SlowAfter \in Nat
                    /\ SlowSleep \in Nat \ {0}
ASSUME ServerReplies == Replies \subseteq [suppress : BOOLEAN, products : SUBSET STRING,
                            rules : BOOLEAN, mergeBase : BOOLEAN, historical : BOOLEAN]

VARIABLES handler,   \* the ScanHandler: [dry, partial, reply, final, clock, turn, answer];
                     \* turn counts the polls modulo 2, so that one that never
                     \* ends is not mistaken for a pause
          app,       \* what semgrep.dev holds: [scan, project, code]
          partialFile \* the file of --x-partial-output

appVars == <<handler, app, partialFile>>

NoAnswer == [success |-> FALSE, override |-> FALSE, ids |-> FALSE, reason |-> FALSE]
\* What the properties of ScanHandler return as long as no scan is started.
NotStarted == [suppress |-> FALSE, products |-> {}, rules |-> FALSE,
               mergeBase |-> FALSE, historical |-> FALSE]

\* AppSession.request with its retry adapter: answered; refused by a status
\* that is not retried; or exhausted, when the server may have acted anyway.
Outcomes == {"ok", "refused", "exhausted"}
Request(outcome, accepted) ==
    \/ outcome = "ok" /\ app' = accepted
    \/ outcome = "refused" /\ UNCHANGED app
    \/ outcome = "exhausted" /\ app' \in {app, accepted}

NewHandler(dry, partial) ==
    handler' = [dry |-> dry, partial |-> partial, reply |-> NotStarted,
                final |-> FALSE, clock |-> 0, turn |-> 0, answer |-> NoAnswer]

AlwaysSuppressErrors == handler.reply.suppress
EnabledProducts == handler.reply.products
ProjectMergeBase == handler.reply.mergeBase
HistoricalConfig == handler.reply.historical

\* A dry run starts a scan too: it needs the rules.
StartScan(outcome, project) ==
    /\ Request(outcome, [app EXCEPT !.scan = "open", !.project = project])
    /\ \/ outcome = "ok" /\ \E r \in Replies : handler' = [handler EXCEPT !.reply = r]
       \/ outcome # "ok" /\ UNCHANGED handler
    /\ UNCHANGED partialFile

ReportFailure(outcome, code) ==
    /\ partialFile' = IF handler.partial THEN "failure" ELSE partialFile
    /\ IF handler.dry THEN outcome = "ok" /\ UNCHANGED app
       ELSE Request(outcome, [app EXCEPT !.scan = "failed", !.code = code])
    /\ UNCHANGED handler

\* The findings, all of them and the ignored ones, are written to the partial
\* output first; a dry run ends here.
SendResults(outcome) ==
    /\ partialFile' = IF handler.partial THEN "findings" ELSE partialFile
    /\ IF handler.dry
       THEN /\ outcome = "ok" /\ UNCHANGED app
            /\ handler' = [handler EXCEPT !.answer = [NoAnswer EXCEPT !.success = TRUE]]
       ELSE /\ Request(outcome, [app EXCEPT !.scan = "uploaded"])
            /\ UNCHANGED handler

\* Mutant of Later: the deadline is computed again in every turn.
LaterRestarted(t) == 0

Later(t) == IF t > TryUntil THEN TryUntil + 1 ELSE t

\* Mutant of SendComplete: the last request does not say that it is the last.
SendCompleteLate(outcome, answer, took) ==
    LET final == handler.final \/ handler.clock > TryUntil
        after == handler.clock + took
        slept == after + (IF after < SlowAfter THEN 1 ELSE SlowSleep)
    IN /\ Request(outcome, [app EXCEPT !.scan = IF handler.final THEN "final" ELSE "completing"])
       /\ handler' = IF outcome # "ok" THEN [handler EXCEPT !.final = final]
                     ELSE IF answer.success \/ final
                     THEN [handler EXCEPT !.final = final, !.answer = answer]
                     ELSE [handler EXCEPT !.clock = Later(slept), !.turn = 1 - @]
       /\ UNCHANGED partialFile

\* One turn of the poll: past the deadline the request says it is the last.
\* A request takes no time or one unit; the sleep depends on the time after.
SendComplete(outcome, answer, took) ==
    LET final == handler.final \/ handler.clock > TryUntil
        after == handler.clock + took
        slept == after + (IF after < SlowAfter THEN 1 ELSE SlowSleep)
    IN /\ Request(outcome, [app EXCEPT !.scan = IF final THEN "final" ELSE "completing"])
       /\ handler' = IF outcome # "ok" THEN [handler EXCEPT !.final = final]
                     ELSE IF answer.success \/ final
                     THEN [handler EXCEPT !.final = final, !.answer = answer]
                     ELSE [handler EXCEPT !.clock = Later(slept), !.turn = 1 - @]
       /\ UNCHANGED partialFile

PollEnds == handler.answer.success \/ handler.final
=============================================================================
