---------------------------- MODULE MCMcpServer ----------------------------
(* Three tool calls of a client, or four hooks of an agent.                 *)
EXTENDS McpServer, TLC

CONSTANTS a, b, other, name, second

\* Two of the three files have different names; the third has that of a.
Names == (a :> name) @@ (b :> second) @@ (other :> name)

Idle == [tool |-> "idle", invalid |-> FALSE, cancels |-> FALSE]

Asks(tool) == [Idle EXCEPT !.tool = tool]
Wrong(tool) == [Idle EXCEPT !.tool = tool, !.invalid = TRUE]
Cancels(tool) == [Idle EXCEPT !.tool = tool, !.cancels = TRUE]

NoHook == [kind |-> "idle", path |-> a, agent |-> "cursor", short |-> FALSE]
Record(p) == [NoHook EXCEPT !.kind = "record", !.path = p]
Stop == [NoHook EXCEPT !.kind = "stop"]
PostHook == [NoHook EXCEPT !.kind = "post", !.agent = "claude"]
Inject(short) == [NoHook EXCEPT !.kind = "inject", !.agent = "claude", !.short = short]
Foreign(hk) == [hk EXCEPT !.agent = "claude"]

Base == [hosted |-> FALSE, rpc |-> "unset", pro |-> TRUE, token |-> TRUE,
         tracing |-> TRUE, disabled |-> {}, elicits |-> FALSE, dies |-> FALSE,
         patient |-> TRUE, sizes |-> {"fits"}, calls |-> <<Idle, Idle, Idle>>,
         hooks |-> <<NoHook, NoHook, NoHook, NoHook>>, gone |-> {},
         readme |-> {"none"}]

\* Scans one after the other through the daemon, which may die, with answers
\* of any length ...
Daemon == [Base EXCEPT !.dies = TRUE, !.elicits = TRUE, !.sizes = {"fits", "exceeds"},
             !.calls = <<Asks("scan"), Wrong("scan"), Asks("scan")>>]
Long == [Base EXCEPT !.sizes = {"fits", "exceeds"},
             !.calls = <<Asks("scan"), Asks("scan"), Asks("scan")>>]
\* ... next to calls that need no daemon, or all at once, one cancelled ...
Mixed == [Base EXCEPT !.dies = TRUE, !.patient = FALSE,
             !.calls = <<Asks("scan"), Asks("sca"), Asks("findings")>>]
Overlap == [Base EXCEPT !.dies = TRUE, !.patient = FALSE, !.sizes = {"fits", "exceeds"},
             !.calls = <<Cancels("scan"), Asks("scan"), Asks("scan")>>]
\* ... or side by side without a daemon, some cancelled.
CommandLine == [Base EXCEPT !.pro = FALSE, !.patient = FALSE, !.elicits = TRUE,
             !.calls = <<Cancels("scan"), Cancels("custom"), Asks("ast")>>]
Hosted == [Base EXCEPT !.hosted = TRUE, !.patient = FALSE,
             !.calls = <<Asks("remote"), Asks("scan"), Asks("schema")>>]
Untraced == [Base EXCEPT !.rpc = "false", !.tracing = FALSE, !.disabled = {"ast"},
             !.calls = <<Asks("ast"), Asks("languages"), Wrong("custom")>>]
Twice == [Base EXCEPT !.disabled = {"remote"}]

Edits == [Base EXCEPT !.hooks = <<Record(a), Record(b), Stop, Record(a)>>]
TwoStops == [Base EXCEPT !.hooks = <<Record(a), Stop, Record(a), Stop>>]
SameName == [Base EXCEPT !.hooks = <<Record(a), Record(other), Stop, NoHook>>]
AtLimit == [Base EXCEPT !.hooks = <<Record(a), Record(b), Record(other), Stop>>]
Deleted == [Base EXCEPT !.hooks = <<Record(a), Record(b), Stop, Stop>>, !.gone = {b}]
\* The agent starts hooks before others have ended.
AtOnce == {[Base EXCEPT !.patient = FALSE, !.hooks = hooks] : hooks \in
             {<<Record(a), Record(b), Stop, Stop>>, <<Record(a), Stop, Record(a), Stop>>,
              <<Record(a), Record(b), Record(other), Stop>>}}
Claude == [Base EXCEPT !.readme = {"none", "stale", "fresh"},
             !.hooks = <<PostHook, Inject(FALSE), Inject(TRUE), Foreign(Stop)>>]

AllJobs == {Daemon, Long, Mixed, Overlap, CommandLine, Hosted, Untraced, Twice,
            Edits, TwoStops, SameName, AtLimit, Deleted, Claude} \cup AtOnce
=============================================================================
