----------------------------- MODULE RpcSession -----------------------------
(***************************************************************************)
(* The semgrep-core process that answers the calls of a scan (rpc.py).  A  *)
(* call writes a packet and reads one; nothing in a packet says which call *)
(* it answers.  A packet is a line with its size, and as many bytes.       *)
(***************************************************************************)
EXTENDS Sequences, Naturals

CONSTANT Strays     \* how often the process may print something else

VARIABLES
    up,             \* the process runs
    asked,          \* the requests in its input
    pipe,           \* what is in its output and was not read
    strays,         \* how often it printed something else
    unsent,         \* its input has bytes in its buffer that were not written
    last,           \* the last request: [kind, body], a set
    reply           \* what the last call returned, or none

rpcVars == <<up, asked, pipe, strays, unsent, last, reply>>

None == [kind |-> "none", body |-> {}]

\* Of a process that just started.
RpcInit ==
    /\ up = TRUE /\ asked = <<>> /\ pipe = <<>> /\ strays = 0
    /\ unsent = FALSE /\ last = None /\ reply = None

-----------------------------------------------------------------------------
(* The process *)

\* It answers, or with an error; something else may come first.
Serve ==
    /\ up /\ asked # <<>>
    /\ \E answer \in {Head(asked), [kind |-> "error", body |-> {}]} :
           \E stray \in {<<>>} \cup {s \in {<<[kind |-> "stray", body |-> {}]>>} :
                                         strays < Strays} :
              /\ pipe' = pipe \o stray \o <<answer>>
              /\ strays' = strays + Len(stray)
    /\ asked' = Tail(asked)
    /\ UNCHANGED <<up, unsent, last, reply>>

\* It ends at any time, maybe with a part of an answer written.
Die ==
    /\ up
    /\ up' = FALSE
    /\ \E part \in {<<>>} \cup {p \in {<<[kind |-> "part", body |-> {}]>>} : asked # <<>>} :
          pipe' = pipe \o part
    /\ asked' = <<>>
    /\ UNCHANGED <<strays, unsent, last, reply>>

-----------------------------------------------------------------------------
(* The scan *)

\* A packet to a process that has ended raises BrokenPipeError.
PipeBroken == ~up

\* Mutant of Call: the packet is written again, in case it was lost.
CallTwice(kind, body) ==
    /\ ~PipeBroken
    /\ last' = [kind |-> kind, body |-> body]
    /\ asked' = asked \o <<last', last'>>
    /\ reply' = None
    /\ UNCHANGED <<up, pipe, strays, unsent>>

Call(kind, body) ==
    /\ ~PipeBroken
    /\ last' = [kind |-> kind, body |-> body]
    /\ asked' = Append(asked, last')
    /\ reply' = None
    /\ UNCHANGED <<up, pipe, strays, unsent>>

\* The packet was in the buffer when that was raised, and stays there.
CallFails ==
    /\ PipeBroken
    /\ unsent' = TRUE
    /\ UNCHANGED <<up, asked, pipe, strays, last, reply>>

\* To leave the session its input is closed, which writes what is in the buffer.
LeaveFails == unsent

\* Something can be read: a packet, or the end of the output.
Readable == pipe # <<>> \/ ~up

\* A packet of the kind that is expected; an error, a part of an answer, what
\* is not a size, and the end of the output are logged.
Understood(packet, kind) == IF packet.kind = kind THEN packet ELSE None

Receive(kind) ==
    /\ Readable
    /\ reply' = IF pipe = <<>> THEN None ELSE Understood(Head(pipe), kind)
    /\ pipe' = IF pipe = <<>> THEN <<>> ELSE Tail(pipe)
    /\ UNCHANGED <<up, asked, strays, unsent, last>>
=============================================================================
