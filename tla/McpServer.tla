------------------------------ MODULE McpServer ------------------------------
(***************************************************************************)
(* The MCP server (mcp/server.py, mcp/semgrep.py, mcp/utilities) with its  *)
(* tool calls, which are coroutines of one event loop: what lies between   *)
(* two awaits is one step.  The awaits are the question for the roots of   *)
(* the workspace, the line of the daemon and the questions to the user; a  *)
(* scan in a process of its own (subprocess.run) blocks the loop.          *)
(***************************************************************************)
EXTENDS McpDaemon, McpHooks

CONSTANTS
    Calls,          \* the tool calls, in the order the client sends them
    Jobs            \* what is asked: see MCMcpServer

ASSUME McpAssumption ==
    /\ Calls \subseteq Nat /\ Hooks \subseteq Nat
    /\ NoCall \notin Calls /\ "half" \notin Paths
    /\ \A j \in Jobs :
        /\ j.sizes \subseteq {"fits", "exceeds"}
        /\ \A c \in Calls : j.calls[c].tool \in {"idle", "schema", "languages", "findings",
                                "custom", "scan", "remote", "ast", "sca"}
        /\ \A h \in Hooks : /\ j.hooks[h].path \in Paths
                           /\ j.hooks[h].kind \in {"idle", "record", "stop", "post", "inject"}

VARIABLES
    server,         \* "off", "failed", "up", "down"
    call,           \* the tool calls
    payload,        \* the tool call the metrics of the process describe
    temps,          \* the calls whose temporary directory exists
    tangled,        \* auxiliary: a line was left in the pipe for another call
    reports         \* the metrics sent: by which call, about which call

vars == <<pipes, hookVars, job, server, call, payload, temps, reports, tangled>>
Unmoved == UNCHANGED <<hookVars, job, server>>

Tools == {"schema", "languages", "findings", "custom", "scan", "remote", "ast", "sca"}

Init ==
    /\ job \in Jobs
    /\ DaemonInit /\ HookInit
    /\ server = "off"
    /\ call = [c \in Calls |->
                 [pc |-> IF job.calls[c].tool = "idle" THEN "done" ELSE "sent",
                  got |-> NoCall, ok |-> FALSE]]
    /\ payload = NoCall
    /\ temps = {}
    /\ reports = <<>>
    /\ tangled = FALSE

-----------------------------------------------------------------------------
(* Start and end of the server. *)

\* The tools that are registered: one of scan and remote by where the server
\* runs.
Registered ==
    Tools \ (job.disabled \cup (IF job.hosted THEN {"scan", "sca"} ELSE {"remote"}))

\* del of a tool that is disabled already is a KeyError.
DeletedTwice ==
    job.disabled \cap (IF job.hosted THEN {"scan", "sca"} ELSE {"remote"}) # {}

\* mk_context: the daemon needs the Pro engine and a token; then
\* USE_SEMGREP_RPC decides, or whether the server is hosted.
WantsDaemon ==
    /\ job.pro /\ job.token
    /\ \/ job.rpc = "true"
       \/ job.rpc = "unset" /\ ~job.hosted

StartServer ==
    /\ server = "off"
    /\ IF DeletedTwice THEN server' = "failed" /\ UNCHANGED daemon
       ELSE /\ server' = "up"
            /\ daemon' = IF WantsDaemon THEN "up" ELSE daemon
    /\ UNCHANGED <<requests, answers, reader, hookVars, job, call, payload,
                   temps, reports, tangled>>

\* The lifespan ends when the client has gone: the daemon is terminated.
StopServer ==
    /\ server = "up"
    /\ \A c \in Calls : call[c].pc = "done"
    /\ server' = "down"
    /\ IF daemon = "up" THEN daemon' = "dead" /\ requests' = <<>>
       ELSE UNCHANGED <<daemon, requests>>
    /\ UNCHANGED <<answers, reader, hookVars, job, call, payload, temps, reports,
                   tangled>>

-----------------------------------------------------------------------------
(* A tool call. *)

CallAt(c, l) == call[c].pc = l
Moves(c, l) == call' = [call EXCEPT ![c].pc = l]

\* with_tool_span(send_metrics = FALSE): these report nothing themselves.
SendsMetrics(tool) == tool \notin {"scan", "rpc"}

\* add_mcp, after clear_mcp
Describes(c, tool) == payload' = IF SendsMetrics(tool) THEN c ELSE payload

\* Metrics.send of the decorator of each tool function on the stack; tracing
\* that is disabled turns metrics off.
Sent(c, stack) ==
    reports' = reports \o
        (IF ~job.tracing THEN <<>>
         ELSE [i \in 1 .. Cardinality({t \in stack : SendsMetrics(t)}) |->
                  [by |-> c, about |-> payload]])

\* What the client asked for, and what serves a scan below it once the files
\* are valid.
Stack(c) ==
    {job.calls[c].tool} \cup
    (IF job.calls[c].tool \notin {"scan", "remote"} \/ CallAt(c, "core") THEN {}
     ELSE IF daemon = "none" THEN {"cli"} ELSE {"rpc"})

\* Mutant of Ends: a failure does not reach the clean-up.
EndsInPlace(c, ok) ==
    /\ call' = [call EXCEPT ![c].pc = "done", ![c].ok = ok]
    /\ temps' = IF ok THEN temps \ {c} ELSE temps
    /\ Sent(c, Stack(c))

\* The tool returns or raises: finally removes its temporary directory.
Ends(c, ok) ==
    /\ call' = [call EXCEPT ![c].pc = "done", ![c].ok = ok]
    /\ temps' = temps \ {c}
    /\ Sent(c, Stack(c))

\* A call that got its results asks the user about each finding if enabled,
\* and then describes them in the metrics.
ScanEnds(c, owner) ==
    IF job.elicits
    THEN /\ call' = [call EXCEPT ![c].pc = "elicit", ![c].got = owner]
         /\ UNCHANGED <<temps, reports>>
    ELSE /\ call' = [call EXCEPT ![c].pc = "done", ![c].got = owner,
                                 ![c].ok = TRUE]
         /\ temps' = temps \ {c}
         /\ Sent(c, Stack(c))

\* A client that is patient sends a call when the one before is done.
Receive(c) ==
    /\ server = "up" /\ CallAt(c, "sent")
    /\ job.patient => \A d \in Calls : d < c => CallAt(d, "done")
    /\ LET tool == job.calls[c].tool IN
       IF tool \notin Registered
       THEN /\ call' = [call EXCEPT ![c].pc = "done"]
            /\ UNCHANGED payload
       ELSE /\ Moves(c, CASE tool \in {"scan", "custom", "sca"} -> "roots"
                          [] tool = "remote" -> "core"
                          [] OTHER -> tool)
            /\ Describes(c, tool)
    /\ Unmoved /\ UNCHANGED <<pipes, temps, reports, tangled>>

\* get_workspace_dir: a client that cannot answer counts as "", one without
\* roots as None, which only the supply chain scan minds.
ListRoots(c) ==
    /\ CallAt(c, "roots")
    /\ \/ Moves(c, IF job.calls[c].tool = "scan" THEN "core" ELSE job.calls[c].tool)
          /\ UNCHANGED <<temps, reports>>
       \/ /\ job.calls[c].tool = "sca"
          /\ Ends(c, FALSE)
    /\ Unmoved /\ UNCHANGED <<pipes, payload, tangled>>

\* A tool that does its work, a request or a command, in one go.
Serves(c, tool, may) ==
    /\ CallAt(c, tool)
    /\ Ends(c, FALSE) \/ (may /\ Ends(c, TRUE))
    /\ Unmoved /\ UNCHANGED <<pipes, payload, tangled>>

RuleSchema(c) == Serves(c, "schema", TRUE)
SupportedLanguages(c) == Serves(c, "languages", TRUE)

\* The findings of the deployment: valid filters and a token of the right role.
Findings(c) == Serves(c, "findings", job.token /\ ~job.calls[c].invalid)

\* The temporary directory does not outlive the step.
SyntaxTree(c) == Serves(c, "ast", TRUE)

\* Only with a daemon, though the scan is a command that does not use it.
SupplyChain(c) == Serves(c, "sca", daemon # "none")

\* semgrep_scan_core: the files are validated, then the daemon, if there ever
\* was one, or the command line.
ChooseBackend(c) ==
    /\ CallAt(c, "core")
    /\ IF job.calls[c].invalid
       THEN Ends(c, FALSE) /\ UNCHANGED payload
       ELSE /\ Moves(c, IF daemon = "none" THEN "cli" ELSE "rpc")
            /\ Describes(c, IF daemon = "none" THEN "cli" ELSE "rpc")
            /\ UNCHANGED <<temps, reports>>
    /\ Unmoved /\ UNCHANGED <<pipes, tangled>>

\* The files go to a temporary directory, which a failure to write removes ...
CopyFiles(c) ==
    /\ CallAt(c, "cli") \/ CallAt(c, "custom")
    /\ \/ Ends(c, FALSE)
       \/ /\ ~job.calls[c].invalid
          /\ Moves(c, "command")
          /\ temps' = temps \cup {c}
          /\ UNCHANGED reports
    /\ Unmoved /\ UNCHANGED <<pipes, payload, tangled>>

\* ... where semgrep scans them; any exit code but 0 is a failure.
RunCommand(c) ==
    /\ CallAt(c, "command")
    /\ Ends(c, FALSE) \/ ScanEnds(c, c)
    /\ Unmoved /\ UNCHANGED <<pipes, payload, tangled>>

\* send_request: refused when hosted.  The line is written, then awaited; the
\* pipe of a daemon that ended may refuse it (ConnectionResetError).
SendRequest(c) ==
    /\ CallAt(c, "rpc")
    /\ \/ /\ job.hosted \/ daemon = "dead"
          /\ Ends(c, FALSE)
          /\ UNCHANGED <<requests, tangled>>
       \/ /\ ~job.hosted
          /\ Write(c)
          /\ Moves(c, "read")
          /\ tangled' = (tangled \/ \E d \in Calls : CallAt(d, "read"))
          /\ UNCHANGED <<temps, reports>>
    /\ Unmoved /\ UNCHANGED <<daemon, answers, reader, payload>>

\* Mutant of TakeAnswer: the line is looked at and left in the stream.
PeekAnswer(c) ==
    /\ UNCHANGED <<answers, tangled>>
    /\ ScanEnds(c, Head(answers).of)

\* A whole line is an answer.  A line that overran is an error, and the rest of
\* one is no document.
TakeAnswer(c) ==
    \/ /\ Head(answers).size = "fits"
       /\ answers' = Tail(answers)
       /\ ScanEnds(c, Head(answers).of)
       /\ UNCHANGED tangled
    \/ /\ Head(answers).size # "fits"
       /\ Overrun
       /\ Ends(c, FALSE)
       /\ tangled' = (tangled \/ answers' # Tail(answers))

ReadLine(c) ==
    /\ CallAt(c, "read") /\ reader # c
    /\ \/ LineReady /\ TakeAnswer(c) /\ UNCHANGED reader
       \/ /\ AtEnd \/ Refused
          /\ Ends(c, FALSE)
          /\ UNCHANGED <<answers, reader, tangled>>
       \/ /\ MayWait
          /\ reader' = c
          /\ UNCHANGED <<answers, call, temps, reports, tangled>>
    /\ Unmoved /\ UNCHANGED <<daemon, requests, payload>>

\* The user sorts the findings, or the client does not support the question.
Elicit(c) ==
    /\ CallAt(c, "elicit")
    /\ \E ok \in BOOLEAN : Ends(c, ok)
    /\ Unmoved /\ UNCHANGED <<pipes, payload, tangled>>

\* The client cancels a call where it waits: CancelledError passes the
\* handlers, the clean-up runs, nothing is sent.
Cancel(c) ==
    /\ job.calls[c].cancels
    /\ call[c].pc \in {"roots", "elicit", "read"}
    /\ call' = [call EXCEPT ![c].pc = "done"]
    /\ temps' = temps \ {c}
    /\ reader' = IF reader = c THEN NoCall ELSE reader
    /\ tangled' = (tangled \/ CallAt(c, "read"))
    /\ Unmoved /\ UNCHANGED <<daemon, requests, answers, payload, reports>>

CallStep(c) ==
    \/ Receive(c) \/ ListRoots(c) \/ ChooseBackend(c)
    \/ RuleSchema(c) \/ SupportedLanguages(c) \/ Findings(c)
    \/ SyntaxTree(c) \/ SupplyChain(c)
    \/ CopyFiles(c) \/ RunCommand(c) \/ SendRequest(c) \/ ReadLine(c)
    \/ Elicit(c)

DaemonMoves ==
    /\ \E size \in job.sizes : DaemonAnswers(size)
    /\ Unmoved /\ UNCHANGED <<call, payload, temps, reports, tangled>>

DaemonFails ==
    /\ job.dies /\ DaemonDies
    /\ Unmoved /\ UNCHANGED <<call, payload, temps, reports, tangled>>

HookMoves(h) ==
    /\ HookStep(h)
    /\ UNCHANGED <<pipes, job, server, call, payload, temps, reports, tangled>>

Next ==
    \/ StartServer \/ StopServer \/ DaemonMoves \/ DaemonFails
    \/ \E c \in Calls : CallStep(c) \/ Cancel(c)
    \/ \E h \in Hooks : HookMoves(h)

\* The event loop serves every coroutine that is ready, the daemon answers or
\* ends, and the user answers in the end.
Spec ==
    /\ Init /\ [][Next]_vars
    /\ WF_vars(StartServer) /\ WF_vars(DaemonMoves)
    /\ \A c \in Calls : WF_vars(CallStep(c))
    /\ \A h \in Hooks : WF_vars(HookMoves(h))

-----------------------------------------------------------------------------
(* Properties *)

\* A scan returns the findings of the code it was given (server.py:936), never
\* those of another call's, unless an answer was left in the pipe before: by a
\* request written while another was awaited, by a call cancelled while it
\* waited, or by a line cut at the limit.  No death of the daemon, failure or
\* question to the user has that effect, and even then no answer is returned
\* to two calls.
AnswersAreOwn ==
    /\ ~tangled => \A c \in Calls : call[c].got \in {c, NoCall}
    /\ \A c, d \in Calls : call[c].got = call[d].got /\ call[c].got # NoCall => c = d

\* Nothing of a call is left on the disk once it is done, however it ended.
NothingLeftBehind == \A c \in temps : ~CallAt(c, "done")
=============================================================================
