------------------------------ MODULE McpDaemon ------------------------------
(***************************************************************************)
(* The daemon `semgrep mcp` and the pipes the MCP server talks to it       *)
(* through (mcp/semgrep.py, SemgrepContext).  A request is a line, an      *)
(* answer is a line; neither says which request it belongs to.  Here a     *)
(* request is the tool call that wrote it.  An answer is that call and     *)
(* whether the line fits the limit of the reader, 64 KiB (asyncio's        *)
(* default: semgrep.py:185 sets none), exceeds it, or is the end of a line *)
(* that exceeded it.                                                       *)
(***************************************************************************)
EXTENDS Sequences

CONSTANT NoCall

VARIABLES
    daemon,         \* "none", "up" or "dead"
    requests,       \* lines written to the daemon and not read by it
    answers,        \* lines the daemon wrote and nobody read
    reader          \* the tool call that waits in readline, if any

pipes == <<daemon, requests, answers, reader>>

DaemonInit ==
    /\ daemon = "none" /\ requests = <<>> /\ answers = <<>> /\ reader = NoCall

\* The line arrives and the waiter of the stream is woken up.
DaemonAnswers(size) ==
    /\ daemon = "up" /\ requests # <<>>
    /\ requests' = Tail(requests)
    /\ answers' = Append(answers, [of |-> Head(requests), size |-> size])
    /\ reader' = NoCall
    /\ UNCHANGED daemon

\* The end of its output wakes up the waiter too.
DaemonDies ==
    /\ daemon = "up"
    /\ daemon' = "dead"
    /\ requests' = <<>>
    /\ reader' = NoCall
    /\ UNCHANGED answers

\* communicate: write, and drain, which waits for a long line to be taken.
Write(c) == requests' = IF daemon = "up" THEN Append(requests, c) ELSE requests

\* StreamReader.readline: a line that is there is taken; one coroutine at most
\* can wait for a line that is not; the end of the stream reads as no line, or
\* as the part of one that was written.
LineReady == answers # <<>>

AtEnd == ~LineReady /\ daemon = "dead"

MayWait == ~LineReady /\ daemon = "up" /\ reader = NoCall
Refused == ~LineReady /\ daemon = "up" /\ reader # NoCall

\* A line beyond the limit is a ValueError.  The line is removed if its end has
\* arrived; otherwise what has arrived is, and the rest is the next line.
Overrun ==
    \/ answers' = Tail(answers)
    \/ answers' = [answers EXCEPT ![1].size = "rest"]
=============================================================================
