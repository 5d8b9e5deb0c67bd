------------------------------ MODULE CoreRun ------------------------------
(***************************************************************************)
(* One run of the semgrep-core process and how its output is read          *)
(* (semgrep/core_runner.py).  The process writes progress to its standard  *)
(* output, a dot for a target and a number for targets it adds, and then   *)
(* one JSON document; it may die at any point.  The reader takes the       *)
(* progress by two bytes and, from the first bytes that are no progress,   *)
(* everything up to the end of the stream as the document.                 *)
(***************************************************************************)
EXTENDS Integers, Sequences

CONSTANTS Targets,     \* targets the process may report
          ReturnCodes  \* return codes of a process that fails, signals negative

ASSUME CoreInputs == Targets \in Nat /\ 0 \notin ReturnCodes

VARIABLES core,     \* the process: [pipe, sent, wrote, state, rc]
          reader    \* pysemgrep's end: [mode, text, seen, total, stderr]

coreVars == <<core, reader>>

NoCore == [pipe |-> <<>>, sent |-> 0, wrote |-> "nothing", state |-> "none", rc |-> 0]
NoReader == [mode |-> "idle", text |-> "nothing", seen |-> 0, total |-> 0, stderr |-> FALSE]

\* A dot stands for one step of a target when the analysis is interfile and
\* for all three of them otherwise.
Step(interfile) == IF interfile THEN 1 ELSE 3

StartCore ==
    /\ core' = [NoCore EXCEPT !.state = "running"]
    /\ reader' = [NoReader EXCEPT !.mode = "progress", !.total = 3 * Targets]

Progress ==
    /\ core.state = "running" /\ core.wrote = "nothing" /\ core.sent < Targets
    /\ \E c \in {"dot", "more"} : core' = [core EXCEPT !.pipe = Append(@, c), !.sent = @ + 1]
    /\ UNCHANGED reader

Document ==
    /\ core.state = "running" /\ core.wrote = "nothing"
    /\ core' = [core EXCEPT !.pipe = Append(@, "json"), !.wrote = "json"]
    /\ UNCHANGED reader

\* The end of the process: of its own accord, with what it has written; or
\* killed, when part of what it was writing may have reached the pipe.
CoreEnds ==
    /\ core.state = "running"
    /\ \/ core.wrote = "json" /\ core' = [core EXCEPT !.state = "dead"]
       \/ \E rc \in ReturnCodes :
            \/ core' = [core EXCEPT !.state = "dead", !.rc = rc]
            \/ /\ core.wrote = "nothing"
               /\ \E part \in {"half", "cut"} :
                    core' = [core EXCEPT !.state = "dead", !.rc = rc, !.wrote = part,
                                         !.pipe = Append(@, part)]
    /\ UNCHANGED reader

AtEof == core.pipe = <<>> /\ core.state = "dead"
Took == core' = [core EXCEPT !.pipe = Tail(@)]

\* Fewer than two bytes before the document are an IncompleteReadError: the
\* process was killed.
ReadProgress(interfile) ==
    /\ reader.mode = "progress"
    /\ \/ /\ core.pipe # <<>>
          /\ Took
          /\ reader' = CASE Head(core.pipe) = "dot" -> [reader EXCEPT !.seen = @ + Step(interfile)]
                         [] Head(core.pipe) = "more" -> [reader EXCEPT !.total = @ + 1]
                         [] Head(core.pipe) = "cut" -> [reader EXCEPT !.mode = "broken"]
                         [] OTHER -> [reader EXCEPT !.mode = "json", !.text = Head(core.pipe)]
       \/ AtEof /\ UNCHANGED core /\ reader' = [reader EXCEPT !.mode = "broken"]

ReadDocument ==
    /\ reader.mode = "json"
    /\ \/ core.pipe # <<>> /\ Took /\ reader' = [reader EXCEPT !.text = "half"]
       \/ AtEof /\ UNCHANGED core /\ reader' = [reader EXCEPT !.mode = "eof"]

\* The standard error is read to its end, beside the output.
ReadStderr ==
    /\ reader.mode # "idle" /\ ~reader.stderr /\ core.state = "dead"
    /\ reader' = [reader EXCEPT !.stderr = TRUE]
    /\ UNCHANGED core

CoreStep(interfile) ==
    \/ Progress \/ Document \/ CoreEnds
    \/ ReadProgress(interfile) \/ ReadDocument \/ ReadStderr

\* Both readers are awaited, then the process, for a second at most when one
\* of them raised.
OutputsHandled == reader.mode \in {"eof", "broken"} /\ reader.stderr

Reaped == core' = NoCore /\ reader' = NoReader

\* Mutant of CoreAnswered: a document that parses is trusted whatever the
\* process returned.
CoreAnsweredAnyway == OutputsHandled /\ reader.mode = "eof" /\ reader.text = "json"

\* A return code other than 0 is an error even when the document parses.
CoreAnswered == /\ OutputsHandled /\ reader.mode = "eof"
                /\ core.rc = 0 /\ reader.text = "json"

CoreFailed == OutputsHandled /\ ~CoreAnswered
=============================================================================
