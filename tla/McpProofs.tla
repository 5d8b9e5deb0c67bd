------------------------------ MODULE McpProofs ------------------------------
(***************************************************************************)
(* What holds of every MCP server and every set of hooks: which temporary  *)
(* directories exist, whose answer a scan through the daemon returns, and  *)
(* which edits a stop hook has scanned.  The calls and the hooks may be    *)
(* any number, in any order, side by side and cancelled.                   *)
(***************************************************************************)
EXTENDS McpServer, TLAPS

IsCall(r) == r \in [pc : {r.pc}, got : {r.got}, ok : {r.ok}]

CallTypes ==
    /\ call = [c \in Calls |-> call[c]]
    /\ \A c \in Calls : IsCall(call[c])

(* A directory exists while the command runs or the user is asked.         *)
TempsInv ==
    /\ CallTypes
    /\ temps \subseteq Calls
    /\ \A c \in temps : call[c].pc \in {"command", "elicit"}

Tool(c) == job.calls[c].tool

(* Each request is in the pipes once, as a request or as its answer.  What *)
(* is left of a line that was cut is no answer.                            *)
Lines == [of : Calls, size : {"fits", "exceeds", "rest"}]
In(asked, lines, c) ==
    \/ \E i \in 1 .. Len(asked) : asked[i] = c
    \/ \E i \in 1 .. Len(lines) : lines[i].of = c /\ lines[i].size # "rest"
Once(asked, lines) ==
    /\ asked \in Seq(Calls) /\ lines \in Seq(Lines)
    /\ \A i, j \in 1 .. Len(asked) : asked[i] = asked[j] => i = j
    /\ \A i, j \in 1 .. Len(lines) :
        lines[i].of = lines[j].of /\ lines[i].size # "rest" /\ lines[j].size # "rest"
        => i = j
    /\ \A i \in 1 .. Len(asked), j \in 1 .. Len(lines) :
        lines[j].size # "rest" => asked[i] # lines[j].of

(* Whose answer is on its way, or has been returned, has written its       *)
(* request; what is on its way nobody has yet.                             *)
Late == {"read", "elicit", "done"}
Has(calls, c) == \E d \in Calls : calls[d].got = c
Owned(asked, lines, calls) ==
    /\ \A c \in Calls : In(asked, lines, c) \/ Has(calls, c) => calls[c].pc \in Late
    /\ \A c \in Calls : In(asked, lines, c) => ~Has(calls, c)
    /\ \A c, d \in Calls : calls[c].got = calls[d].got /\ calls[c].got # NoCall => c = d

(* While the pipe is in step one call at most waits, and the one line that *)
(* is on its way is the one it waits for.                                  *)
Empty(asked, lines) == asked = <<>> /\ lines = <<>>
Carries(asked, lines, x) ==
    \/ asked = <<x>> /\ lines = <<>>
    \/ /\ asked = <<>> /\ Len(lines) = 1
       /\ lines[1].of = x /\ lines[1].size # "rest"
InStep(asked, lines, calls, waiting) ==
    /\ \A c, d \in Calls : calls[c].pc = "read" /\ calls[d].pc = "read" => c = d
    /\ \/ Empty(asked, lines)
       \/ \E x \in Calls : Carries(asked, lines, x) /\ calls[x].pc = "read"
    /\ waiting # NoCall => waiting \in Calls /\ calls[waiting].pc = "read"
    /\ \A c \in Calls : calls[c].got \in {c, NoCall}

(* A daemon that ended has nothing more to read.                           *)
Quiet == daemon # "up" => requests = <<>>

AnswersInv ==
    /\ CallTypes /\ job \in Jobs
    /\ Once(requests, answers) /\ Owned(requests, answers, call)
    /\ Quiet
    /\ ~tangled => InStep(requests, answers, call, reader)

-----------------------------------------------------------------------------
(* What the pieces of a step do to the call.                               *)
Turns(c, l) ==
    /\ CallTypes'
    /\ \A d \in Calls \ {c} : call'[d] = call[d]
    /\ call'[c].pc = l /\ call'[c].got = call[c].got

LEMMA MovesEffect ==
  ASSUME CallTypes, NEW c \in Calls, NEW l, Moves(c, l)
  PROVE  Turns(c, l)
BY DEF Moves, CallTypes, IsCall, Turns

LEMMA EndsEffect ==
  ASSUME CallTypes, NEW c \in Calls, NEW ok \in BOOLEAN, Ends(c, ok)
  PROVE  Turns(c, "done") /\ temps' = temps \ {c}
BY DEF Ends, CallTypes, IsCall, Turns

LEMMA ScanEndsEffect ==
  ASSUME CallTypes, NEW c \in Calls, NEW owner, ScanEnds(c, owner)
  PROVE  /\ CallTypes'
         /\ \A d \in Calls \ {c} : call'[d] = call[d]
         /\ call'[c].got = owner
         /\ \/ call'[c].pc = "elicit" /\ temps' = temps
            \/ call'[c].pc = "done" /\ temps' = temps \ {c}
<1>0. IsCall(call[c])
  BY DEF CallTypes
<1>1. CASE job.elicits
  <2> DEFINE r == [call[c] EXCEPT !.pc = "elicit", !.got = owner]
  <2>1. call' = [call EXCEPT ![c] = r] /\ temps' = temps
    BY <1>1 DEF ScanEnds, CallTypes
  <2>2. IsCall(r) /\ r.pc = "elicit" /\ r.got = owner
    BY <1>0 DEF IsCall
  <2> HIDE DEF r
  <2> QED BY <2>1, <2>2 DEF CallTypes
<1>2. CASE ~job.elicits
  <2> DEFINE r == [call[c] EXCEPT !.pc = "done", !.got = owner, !.ok = TRUE]
  <2>1. call' = [call EXCEPT ![c] = r] /\ temps' = temps \ {c}
    BY <1>2 DEF ScanEnds, CallTypes
  <2>2. IsCall(r) /\ r.pc = "done" /\ r.got = owner
    BY <1>0 DEF IsCall
  <2> HIDE DEF r
  <2> QED BY <2>1, <2>2 DEF CallTypes
<1> QED BY <1>1, <1>2

LEMMA CancelEffect ==
  ASSUME CallTypes, NEW c \in Calls, Cancel(c)
  PROVE  Turns(c, "done") /\ temps' = temps \ {c}
BY DEF Cancel, CallTypes, IsCall, Turns

(* Where each step of a call leads.                                        *)
LEMMA ReceiveEffect ==
  ASSUME CallTypes, NEW c \in Calls, Receive(c)
  PROVE  /\ UNCHANGED temps
         /\ \/ Turns(c, "done")
            \/ /\ Tool(c) \in Registered
               /\ \/ Tool(c) \in {"scan", "custom", "sca"} /\ Turns(c, "roots")
                  \/ Tool(c) = "remote" /\ Turns(c, "core")
                  \/ /\ Tool(c) \notin {"scan", "custom", "sca", "remote"}
                     /\ Turns(c, Tool(c))
<1>1. CASE Tool(c) \notin Registered
  BY <1>1 DEF Receive, Tool, CallTypes, IsCall, Turns
<1>2. CASE Tool(c) \in Registered
  BY <1>2, MovesEffect DEF Receive, Tool
<1> QED BY <1>1, <1>2

LEMMA ServesEffect ==
  ASSUME CallTypes, NEW c \in Calls, NEW tool, NEW may \in BOOLEAN, Serves(c, tool, may)
  PROVE  /\ call[c].pc = tool /\ Turns(c, "done") /\ temps' = temps \ {c}
         /\ UNCHANGED <<pipes, hookVars, job, server>>
BY EndsEffect DEF Serves, CallAt, Unmoved

LEMMA WholeServiceEffect ==
  ASSUME CallTypes, NEW c \in Calls,
         \/ RuleSchema(c) \/ SupportedLanguages(c) \/ Findings(c) \/ SyntaxTree(c)
         \/ SupplyChain(c) \/ Elicit(c)
  PROVE  /\ call[c].pc \in {"schema", "languages", "findings", "ast", "sca", "elicit"}
         /\ Turns(c, "done") /\ temps' = temps \ {c}
         /\ UNCHANGED <<pipes, hookVars, job, server>>
<1>1. CASE Elicit(c)
  BY <1>1, EndsEffect DEF Elicit, CallAt, Unmoved
<1>2. CASE Findings(c)
  <2> DEFINE may == job.token /\ ~job.calls[c].invalid
  <2>1. Serves(c, "findings", may) /\ may \in BOOLEAN
    BY <1>2 DEF Findings
  <2> HIDE DEF may
  <2> QED BY <2>1, ServesEffect
<1>3. CASE SupplyChain(c)
  <2> DEFINE may == daemon # "none"
  <2>1. Serves(c, "sca", may) /\ may \in BOOLEAN
    BY <1>3 DEF SupplyChain
  <2> HIDE DEF may
  <2> QED BY <2>1, ServesEffect
<1>4. CASE RuleSchema(c) \/ SupportedLanguages(c) \/ SyntaxTree(c)
  <2>1. \E tool \in {"schema", "languages", "ast"} : Serves(c, tool, TRUE)
    BY <1>4 DEF RuleSchema, SupportedLanguages, SyntaxTree
  <2> QED BY <2>1, ServesEffect
<1> QED BY <1>1, <1>2, <1>3, <1>4

LEMMA InitCalls ==
  ASSUME Init
  PROVE  /\ CallTypes
         /\ \A c \in Calls : call[c].pc \in {"sent", "done"} /\ call[c].got = NoCall
<1> DEFINE first(c) == [pc |-> IF job.calls[c].tool = "idle" THEN "done" ELSE "sent",
                        got |-> NoCall, ok |-> FALSE]
<1>1. ASSUME NEW c \in Calls
      PROVE  IsCall(first(c)) /\ first(c).pc \in {"sent", "done"} /\ first(c).got = NoCall
  BY DEF IsCall
<1>2. call = [c \in Calls |-> first(c)]
  BY DEF Init
<1> HIDE DEF first
<1> QED BY <1>1, <1>2 DEF CallTypes

-----------------------------------------------------------------------------
(* The temporary directories.                                              *)

(* A call that had no directory moves on, or loses it.                     *)
LEMMA TempsGo ==
  ASSUME TempsInv, NEW c \in Calls, NEW l, Turns(c, l),
         \/ temps' = temps \ {c}
         \/ temps' = temps /\ call[c].pc \notin {"command", "elicit"}
  PROVE  TempsInv'
BY DEF TempsInv, Turns

LEMMA CallStepTemps ==
  ASSUME TempsInv, NEW c \in Calls, CallStep(c) \/ Cancel(c)
  PROVE  TempsInv'
<1>0. CallTypes
  BY DEF TempsInv
<1>1. CASE Receive(c)
  BY <1>0, <1>1, ReceiveEffect, TempsGo DEF Receive, CallAt
<1>2. CASE ListRoots(c)
  BY <1>0, <1>2, MovesEffect, EndsEffect, TempsGo DEF ListRoots, CallAt
<1>3. CASE ChooseBackend(c)
  BY <1>0, <1>3, MovesEffect, EndsEffect, TempsGo DEF ChooseBackend, CallAt
<1>4. CASE \/ RuleSchema(c) \/ SupportedLanguages(c) \/ Findings(c) \/ SyntaxTree(c)
           \/ SupplyChain(c) \/ Elicit(c)
  BY <1>0, <1>4, WholeServiceEffect, TempsGo
<1>5. CASE CopyFiles(c)
  <2>1. CASE Ends(c, FALSE)
    BY <1>0, <2>1, EndsEffect, TempsGo
  <2>2. CASE Moves(c, "command") /\ temps' = temps \cup {c}
    BY <1>0, <2>2, MovesEffect DEF TempsInv, Turns
  <2> QED BY <1>5, <2>1, <2>2 DEF CopyFiles
<1>6. CASE RunCommand(c)
  <2>1. CASE Ends(c, FALSE)
    BY <1>0, <2>1, EndsEffect, TempsGo
  <2>2. CASE ScanEnds(c, c)
    BY <1>0, <2>2, ScanEndsEffect DEF TempsInv
  <2> QED BY <1>6, <2>1, <2>2 DEF RunCommand
<1>7. CASE SendRequest(c)
  BY <1>0, <1>7, MovesEffect, EndsEffect, TempsGo DEF SendRequest, CallAt
<1>8. CASE ReadLine(c)
  <2>0. call[c].pc = "read"
    BY <1>8 DEF ReadLine, CallAt
  <2>1. CASE ScanEnds(c, Head(answers).of)
    BY <1>0, <2>0, <2>1, ScanEndsEffect DEF TempsInv
  <2>2. CASE Ends(c, FALSE)
    BY <1>0, <2>2, EndsEffect, TempsGo
  <2>3. CASE UNCHANGED <<call, temps>>
    BY <2>3 DEF TempsInv, CallTypes
  <2> QED BY <1>8, <2>1, <2>2, <2>3 DEF ReadLine, TakeAnswer
<1>9. CASE Cancel(c)
  BY <1>0, <1>9, CancelEffect, TempsGo
<1> QED BY <1>1, <1>2, <1>3, <1>4, <1>5, <1>6, <1>7, <1>8, <1>9 DEF CallStep

(* Nothing of a call stays on the disk once it is done, whether it         *)
(* succeeded, failed or was cancelled, for any number of calls side by     *)
(* side: whoever has a directory runs its command or asks the user.        *)
THEOREM DirectoriesAreRemoved == Spec => []NothingLeftBehind
<1>1. Init => TempsInv
  BY InitCalls DEF Init, TempsInv
<1>2. TempsInv /\ [Next]_vars => TempsInv'
  <2> SUFFICES ASSUME TempsInv, [Next]_vars PROVE TempsInv'
    OBVIOUS
  <2>1. ASSUME UNCHANGED <<call, temps>> PROVE TempsInv'
    BY <2>1 DEF TempsInv, CallTypes
  <2>2. CASE StartServer \/ StopServer \/ DaemonMoves \/ DaemonFails \/ UNCHANGED vars
    BY <2>1, <2>2 DEF StartServer, StopServer, DaemonMoves, DaemonFails, vars
  <2>3. CASE \E h \in Hooks : HookMoves(h)
    BY <2>1, <2>3 DEF HookMoves
  <2>4. CASE \E c \in Calls : CallStep(c) \/ Cancel(c)
    BY <2>4, CallStepTemps
  <2> QED BY <2>2, <2>3, <2>4 DEF Next
<1>3. TempsInv => NothingLeftBehind
  BY DEF TempsInv, NothingLeftBehind, CallAt
<1> QED BY <1>1, <1>2, <1>3, PTL DEF Spec

-----------------------------------------------------------------------------
(* The answers.                                                            *)

LEMMA OnceAsked ==
  ASSUME NEW r, NEW a, Once(r, a), NEW c \in Calls, ~In(r, a, c)
  PROVE  /\ Once(Append(r, c), a)
         /\ \A d : In(Append(r, c), a, d) => In(r, a, d) \/ d = c
<1> DEFINE q == Append(r, c)
<1>1. /\ q \in Seq(Calls) /\ Len(r) \in Nat /\ Len(q) = Len(r) + 1
      /\ \A i \in 1 .. Len(r) : q[i] = r[i]
      /\ q[Len(r) + 1] = c
  BY DEF Once
<1> HIDE DEF q
<1>2. \A i \in 1 .. Len(q) : i \in 1 .. Len(r) \/ i = Len(r) + 1
  BY <1>1
<1>3. /\ \A i \in 1 .. Len(r) : r[i] # c
      /\ \A i \in 1 .. Len(a) : a[i].size # "rest" => a[i].of # c
  BY DEF In
<1>4. Once(q, a)
  <2>1. \A i, j \in 1 .. Len(q) : q[i] = q[j] => i = j
    BY <1>1, <1>2, <1>3 DEF Once
  <2>2. \A i \in 1 .. Len(q), j \in 1 .. Len(a) : a[j].size # "rest" => q[i] # a[j].of
    BY <1>1, <1>2, <1>3 DEF Once
  <2> QED BY <1>1, <2>1, <2>2 DEF Once
<1>5. \A d : In(q, a, d) => In(r, a, d) \/ d = c
  BY <1>1, <1>2 DEF In
<1> QED BY <1>4, <1>5 DEF q

LEMMA OnceAnswered ==
  ASSUME NEW r, NEW a, Once(r, a), r # <<>>, NEW size \in {"fits", "exceeds"}
  PROVE  LET b == Append(a, [of |-> Head(r), size |-> size]) IN
         Once(Tail(r), b) /\ \A d : In(Tail(r), b, d) => In(r, a, d)
<1> DEFINE l == [of |-> Head(r), size |-> size]
           b == Append(a, l)
           t == Tail(r)
<1>1. /\ Len(r) \in Nat /\ Len(r) >= 1 /\ t \in Seq(Calls) /\ Len(t) = Len(r) - 1
      /\ \A i \in 1 .. Len(t) : t[i] = r[i + 1]
      /\ r[1] = Head(r) /\ Head(r) \in Calls
  BY DEF Once
<1>2. l \in Lines /\ l.of = r[1] /\ l.size # "rest"
  BY <1>1 DEF Lines
<1> HIDE DEF l, t
<1>3. /\ b \in Seq(Lines) /\ Len(a) \in Nat /\ Len(b) = Len(a) + 1
      /\ \A i \in 1 .. Len(a) : b[i] = a[i]
      /\ b[Len(a) + 1] = l
  BY <1>2 DEF Once
<1> HIDE DEF b
<1>4. /\ \A i \in 1 .. Len(b) : i \in 1 .. Len(a) \/ i = Len(a) + 1
      /\ \A i \in 1 .. Len(t) : i + 1 \in 1 .. Len(r) /\ i + 1 # 1
      /\ 1 \in 1 .. Len(r)
  BY <1>1, <1>3
<1>5. Once(t, b)
  <2>1. ASSUME NEW i \in 1 .. Len(t), NEW j \in 1 .. Len(t), t[i] = t[j] PROVE i = j
    <3>1. i + 1 = j + 1
      BY <1>1, <1>4, <2>1 DEF Once
    <3> QED BY <1>1, <3>1
  <2>2. \A i \in 1 .. Len(a) : a[i].size # "rest" => a[i].of # r[1]
    BY <1>4 DEF Once
  <2>3. \A i, j \in 1 .. Len(b) :
          b[i].of = b[j].of /\ b[i].size # "rest" /\ b[j].size # "rest" => i = j
    BY <1>2, <1>3, <1>4, <2>2 DEF Once
  <2>4. \A i \in 1 .. Len(t), j \in 1 .. Len(b) : b[j].size # "rest" => t[i] # b[j].of
    <3>1. \A i \in 1 .. Len(t) : t[i] # r[1]
      BY <1>1, <1>4 DEF Once
    <3> QED BY <1>1, <1>2, <1>3, <1>4, <3>1 DEF Once
  <2> QED BY <1>1, <1>3, <2>1, <2>3, <2>4 DEF Once
<1>6. ASSUME NEW d, In(t, b, d) PROVE In(r, a, d)
  <2>1. CASE \E i \in 1 .. Len(t) : t[i] = d
    BY <1>1, <1>4, <2>1 DEF In
  <2>2. CASE \E i \in 1 .. Len(b) : b[i].of = d /\ b[i].size # "rest"
    BY <1>2, <1>3, <1>4, <2>2 DEF In
  <2> QED BY <1>6, <2>1, <2>2 DEF In
<1> QED BY <1>5, <1>6 DEF b, t, l

LEMMA OnceTaken ==
  ASSUME NEW r, NEW a, Once(r, a), a # <<>>
  PROVE  /\ Once(r, Tail(a)) /\ \A d : In(r, Tail(a), d) => In(r, a, d)
         /\ Head(a) = a[1] /\ Head(a) \in Lines
         /\ Head(a).size # "rest" => In(r, a, Head(a).of) /\ ~In(r, Tail(a), Head(a).of)
<1> DEFINE t == Tail(a)
<1>1. /\ Len(a) \in Nat /\ Len(a) >= 1 /\ t \in Seq(Lines) /\ Len(t) = Len(a) - 1
      /\ \A i \in 1 .. Len(t) : t[i] = a[i + 1]
      /\ a[1] = Head(a) /\ Head(a) \in Lines
  BY DEF Once
<1> HIDE DEF t
<1>2. /\ \A i \in 1 .. Len(t) : i + 1 \in 1 .. Len(a) /\ i + 1 # 1
      /\ 1 \in 1 .. Len(a)
  BY <1>1
<1>3. Once(r, t)
  <2>1. \A i, j \in 1 .. Len(t) :
          t[i].of = t[j].of /\ t[i].size # "rest" /\ t[j].size # "rest" => i = j
    BY <1>1, <1>2 DEF Once
  <2>2. \A i \in 1 .. Len(r), j \in 1 .. Len(t) : t[j].size # "rest" => r[i] # t[j].of
    BY <1>1, <1>2 DEF Once
  <2> QED BY <1>1, <2>1, <2>2 DEF Once
<1>4. \A d : In(r, t, d) => In(r, a, d)
  BY <1>1, <1>2 DEF In
<1>5. ASSUME Head(a).size # "rest"
      PROVE  In(r, a, Head(a).of) /\ ~In(r, t, Head(a).of)
  <2>1. In(r, a, Head(a).of)
    BY <1>1, <1>2, <1>5 DEF In
  <2>2. \A i \in 1 .. Len(r) : r[i] # Head(a).of
    BY <1>1, <1>2, <1>5 DEF Once
  <2>3. \A i \in 1 .. Len(t) : t[i].size # "rest" => t[i].of # Head(a).of
    BY <1>1, <1>2, <1>5 DEF Once
  <2> QED BY <2>1, <2>2, <2>3 DEF In
<1> QED BY <1>1, <1>3, <1>4, <1>5 DEF t

LEMMA OnceCut ==
  ASSUME NEW r, NEW a, Once(r, a), a # <<>>
  PROVE  LET b == [a EXCEPT ![1].size = "rest"] IN
         Once(r, b) /\ \A d : In(r, b, d) => In(r, a, d)
<1> DEFINE b == [a EXCEPT ![1].size = "rest"]
<1>1. /\ Len(a) \in Nat /\ 1 \in 1 .. Len(a) /\ a[1] \in Lines
      /\ a \in [1 .. Len(a) -> Lines]
  BY DEF Once
<1>2. /\ b[1] \in Lines /\ b[1].of = a[1].of /\ b[1].size = "rest"
      /\ \A i \in 1 .. Len(a) : i # 1 => b[i] = a[i]
      /\ b \in [1 .. Len(a) -> Lines]
  BY <1>1 DEF Lines
<1> HIDE DEF b
<1>3. b \in Seq(Lines) /\ Len(b) = Len(a)
  BY <1>1, <1>2
<1>4. Once(r, b)
  <2>1. \A i, j \in 1 .. Len(b) :
          b[i].of = b[j].of /\ b[i].size # "rest" /\ b[j].size # "rest" => i = j
    BY <1>2, <1>3 DEF Once
  <2>2. \A i \in 1 .. Len(r), j \in 1 .. Len(b) : b[j].size # "rest" => r[i] # b[j].of
    BY <1>2, <1>3 DEF Once
  <2> QED BY <1>3, <2>1, <2>2 DEF Once
<1>5. \A d : In(r, b, d) => In(r, a, d)
  BY <1>2, <1>3 DEF In
<1> QED BY <1>4, <1>5 DEF b

LEMMA OnceAlone ==
  ASSUME NEW r, NEW a, Once(r, a)
  PROVE  Once(<<>>, a) /\ \A d : In(<<>>, a, d) => In(r, a, d)
BY DEF Once, In

(* A call that is neither about to read nor reading goes on.               *)
LEMMA QuietTurn ==
  ASSUME AnswersInv, NEW c \in Calls, NEW l, Turns(c, l),
         call[c].pc # "read", l # "read", call[c].pc \in Late => l \in Late,
         UNCHANGED <<pipes, job, tangled>>
  PROVE  AnswersInv'
<1>1. CallTypes' /\ (job \in Jobs)' /\ Once(requests, answers)' /\ Quiet'
  BY DEF AnswersInv, Turns, pipes, Quiet
<1>2. \A d \in Calls : /\ call'[d].got = call[d].got
                       /\ call[d].pc \in Late => call'[d].pc \in Late
                       /\ call'[d].pc = "read" <=> call[d].pc = "read"
  BY DEF Turns
<1>3. Owned(requests, answers, call)'
  BY <1>2 DEF AnswersInv, Owned, Has, pipes
<1>4. ASSUME ~tangled' PROVE InStep(requests, answers, call, reader)'
  BY <1>2, <1>4 DEF AnswersInv, InStep, pipes
<1> QED BY <1>1, <1>3, <1>4 DEF AnswersInv

(* The pipes change, the calls do not.                                     *)
LEMMA PipesMove ==
  ASSUME AnswersInv, Quiet', UNCHANGED <<call, job, tangled>>, Once(requests', answers'),
         \A d \in Calls : In(requests', answers', d) => In(requests, answers, d),
         ~tangled => InStep(requests', answers', call, reader')
  PROVE  AnswersInv'
<1>1. CallTypes' /\ (job \in Jobs)'
  BY DEF AnswersInv, CallTypes
<1>2. Owned(requests', answers', call)
  BY DEF AnswersInv, Owned
<1> QED BY <1>1, <1>2 DEF AnswersInv

(* A call that was reading fails or is cancelled.                          *)
LEMMA LeavesWithout ==
  ASSUME AnswersInv, NEW c \in Calls, call[c].pc = "read", Turns(c, "done"),
         Quiet', UNCHANGED job, Once(requests', answers'),
         \A d \in Calls : In(requests', answers', d) => In(requests, answers, d),
         ~tangled' => /\ ~tangled /\ reader' \in {NoCall, reader}
                      /\ reader' # c /\ Empty(requests', answers')
  PROVE  AnswersInv'
<1>1. CallTypes' /\ (job \in Jobs)'
  BY DEF AnswersInv, Turns
<1>2. \A d \in Calls : /\ call'[d].got = call[d].got
                       /\ call[d].pc \in Late => call'[d].pc \in Late
                       /\ call'[d].pc = "read" => call[d].pc = "read"
                       /\ d # c => call'[d].pc = call[d].pc
  BY DEF Turns, Late
<1>3. Owned(requests', answers', call')
  BY <1>2 DEF AnswersInv, Owned, Has
<1>4. ASSUME ~tangled' PROVE InStep(requests', answers', call', reader')
  BY <1>2, <1>4, McpAssumption DEF AnswersInv, InStep
<1> QED BY <1>1, <1>3, <1>4 DEF AnswersInv

(* A call ends with the results of owner, which nobody has.                *)
LEMMA LeavesWith ==
  ASSUME AnswersInv, NEW c \in Calls, NEW owner \in Calls, ScanEnds(c, owner),
         ~Has(call, owner), ~In(requests', answers', owner),
         call[owner].pc \in Late \/ owner = c,
         Quiet', UNCHANGED job, Once(requests', answers'),
         \A d \in Calls : In(requests', answers', d) => In(requests, answers, d),
         ~tangled' => /\ ~tangled /\ owner = c /\ reader' = reader /\ reader # c
                      /\ \/ Empty(requests', answers')
                         \/ call[c].pc # "read" /\ UNCHANGED <<requests, answers>>
  PROVE  AnswersInv'
<1>1. /\ CallTypes' /\ \A d \in Calls \ {c} : call'[d] = call[d]
      /\ call'[c].got = owner /\ call'[c].pc \in {"elicit", "done"}
  BY ScanEndsEffect DEF AnswersInv
<1>2. (job \in Jobs)'
  BY DEF AnswersInv
<1>3. \A d \in Calls : call[d].got # owner
  BY DEF Has
<1>4. /\ \A d \in Calls : call[d].pc \in Late => call'[d].pc \in Late
      /\ call'[owner].pc \in Late
  BY <1>1 DEF Late
<1>5. \A d \in Calls : Has(call', d) => Has(call, d) \/ d = owner
  BY <1>1 DEF Has
<1>6. Owned(requests', answers', call')
  <2>1. \A d \in Calls : In(requests', answers', d) \/ Has(call', d) => call'[d].pc \in Late
    BY <1>4, <1>5 DEF AnswersInv, Owned
  <2>2. \A d \in Calls : In(requests', answers', d) => ~Has(call', d)
    BY <1>5 DEF AnswersInv, Owned
  <2>3. \A d, e \in Calls : call'[d].got = call'[e].got /\ call'[d].got # NoCall => d = e
    BY <1>1, <1>3 DEF AnswersInv, Owned
  <2> QED BY <2>1, <2>2, <2>3 DEF Owned
<1>7. ASSUME ~tangled' PROVE InStep(requests', answers', call', reader')
  <2>1. InStep(requests, answers, call, reader) /\ owner = c /\ UNCHANGED reader /\ reader # c
    BY <1>7 DEF AnswersInv
  <2>2. \A d \in Calls : call'[d].pc = "read" <=> d # c /\ call[d].pc = "read"
    BY <1>1
  <2>3. \/ Empty(requests', answers')
        \/ \E x \in Calls : Carries(requests', answers', x) /\ call'[x].pc = "read"
    <3>1. CASE call[c].pc # "read" /\ UNCHANGED <<requests, answers>>
      BY <2>1, <2>2, <3>1 DEF InStep
    <3> QED BY <1>7, <3>1
  <2>4. \A d \in Calls : call'[d].got \in {d, NoCall}
    BY <1>1, <2>1 DEF InStep
  <2>5. reader' # NoCall => reader' \in Calls /\ call'[reader'].pc = "read"
    BY <2>1, <2>2 DEF InStep
  <2> QED BY <2>1, <2>2, <2>3, <2>4, <2>5 DEF InStep
<1> QED BY <1>1, <1>2, <1>6, <1>7 DEF AnswersInv

LEMMA ReceiveAnswers ==
  ASSUME AnswersInv, NEW c \in Calls, Receive(c)
  PROVE  AnswersInv'
<1>1. call[c].pc = "sent" /\ UNCHANGED <<pipes, job, tangled>>
  BY DEF Receive, CallAt, Unmoved
<1>2. Registered \subseteq Tools
  BY DEF Registered
<1>3. \E l : Turns(c, l) /\ l # "read"
  BY <1>2, ReceiveEffect DEF AnswersInv, Tools
<1> QED BY <1>1, <1>3, QuietTurn DEF Late

LEMMA QuietAnswers ==
  ASSUME AnswersInv, NEW c \in Calls,
         \/ ListRoots(c) \/ ChooseBackend(c) \/ CopyFiles(c)
         \/ RuleSchema(c) \/ SupportedLanguages(c) \/ Findings(c) \/ SyntaxTree(c)
         \/ SupplyChain(c) \/ Elicit(c)
  PROVE  AnswersInv'
<1>0. CallTypes
  BY DEF AnswersInv
<1>1. CASE ListRoots(c)
  <2>1. call[c].pc = "roots" /\ UNCHANGED <<pipes, job, tangled>>
    BY <1>1 DEF ListRoots, CallAt, Unmoved
  <2>2. Turns(c, "done") \/ Turns(c, "core") \/ (Turns(c, Tool(c)) /\ Tool(c) # "read")
    <3>1. Tool(c) \in Tools \cup {"idle"}
      BY McpAssumption DEF AnswersInv, Tools, Tool
    <3>2. Turns(c, "done") \/ Turns(c, IF Tool(c) = "scan" THEN "core" ELSE Tool(c))
      BY <1>0, <1>1, MovesEffect, EndsEffect DEF ListRoots, Tool
    <3> QED BY <3>1, <3>2 DEF Tools
  <2> QED BY <2>1, <2>2, QuietTurn DEF Late
<1>2. CASE ChooseBackend(c)
  <2>1. call[c].pc = "core" /\ UNCHANGED <<pipes, job, tangled>>
    BY <1>2 DEF ChooseBackend, CallAt, Unmoved
  <2>2. Turns(c, "done") \/ Turns(c, IF daemon = "none" THEN "cli" ELSE "rpc")
    BY <1>0, <1>2, MovesEffect, EndsEffect DEF ChooseBackend
  <2> QED BY <2>1, <2>2, QuietTurn DEF Late
<1>3. CASE CopyFiles(c)
  <2>1. call[c].pc \in {"cli", "custom"} /\ UNCHANGED <<pipes, job, tangled>>
    BY <1>3 DEF CopyFiles, CallAt, Unmoved
  <2>2. Turns(c, "done") \/ Turns(c, "command")
    BY <1>0, <1>3, MovesEffect, EndsEffect DEF CopyFiles
  <2> QED BY <2>1, <2>2, QuietTurn DEF Late
<1>4. CASE \/ RuleSchema(c) \/ SupportedLanguages(c) \/ Findings(c) \/ SyntaxTree(c)
           \/ SupplyChain(c) \/ Elicit(c)
  <2>1. UNCHANGED tangled
    BY <1>4 DEF RuleSchema, SupportedLanguages, Findings, SyntaxTree, SupplyChain,
                Elicit, Serves
  <2> QED BY <1>0, <1>4, <2>1, WholeServiceEffect, QuietTurn DEF Late
<1> QED BY <1>1, <1>2, <1>3, <1>4

LEMMA RunCommandAnswers ==
  ASSUME AnswersInv, NEW c \in Calls, RunCommand(c)
  PROVE  AnswersInv'
<1>1. call[c].pc = "command" /\ UNCHANGED <<pipes, job, tangled>> /\ CallTypes
  BY DEF RunCommand, CallAt, Unmoved, AnswersInv
<1>2. CASE Ends(c, FALSE)
  BY <1>1, <1>2, EndsEffect, QuietTurn DEF Late
<1>3. CASE ScanEnds(c, c)
  <2>1. ~In(requests, answers, c) /\ ~Has(call, c)
    BY <1>1 DEF AnswersInv, Owned, Late
  <2>2. Once(requests, answers) /\ (~tangled => reader # c)
    BY <1>1, McpAssumption DEF AnswersInv, InStep
  <2>3. Quiet'
    BY <1>1 DEF AnswersInv, Quiet, pipes
  <2> QED BY <1>1, <1>3, <2>1, <2>2, <2>3, LeavesWith DEF pipes
<1> QED BY <1>2, <1>3 DEF RunCommand

LEMMA SendRequestAnswers ==
  ASSUME AnswersInv, NEW c \in Calls, SendRequest(c)
  PROVE  AnswersInv'
<1>1. /\ call[c].pc = "rpc" /\ UNCHANGED <<daemon, answers, reader, job>>
      /\ CallTypes /\ (job \in Jobs)'
  BY DEF SendRequest, CallAt, Unmoved, AnswersInv
<1>2. CASE Ends(c, FALSE) /\ UNCHANGED <<requests, tangled>>
  BY <1>1, <1>2, EndsEffect, QuietTurn DEF Late, pipes
<1>3. CASE /\ Write(c) /\ Moves(c, "read")
           /\ tangled' = (tangled \/ \E d \in Calls : CallAt(d, "read"))
  <2>1. Turns(c, "read")
    BY <1>1, <1>3, MovesEffect
  <2>2. ~In(requests, answers, c) /\ ~Has(call, c)
    BY <1>1 DEF AnswersInv, Owned, Late
  <2>3. requests' \in {requests, Append(requests, c)} /\ Quiet'
    BY <1>1, <1>3 DEF Write, AnswersInv, Quiet
  <2>4. /\ Once(requests', answers)
        /\ \A d \in Calls : In(requests', answers, d) => In(requests, answers, d) \/ d = c
    BY <2>2, <2>3, OnceAsked DEF AnswersInv
  <2>5. \A d \in Calls : /\ call'[d].got = call[d].got
                         /\ call[d].pc \in Late => call'[d].pc \in Late
                         /\ d # c => call'[d].pc = call[d].pc
                         /\ call'[c].pc = "read"
    BY <2>1 DEF Turns, Late
  <2>6. Owned(requests', answers, call')
    BY <2>2, <2>4, <2>5 DEF AnswersInv, Owned, Has, Late
  <2>7. ASSUME ~tangled' PROVE InStep(requests', answers, call', reader)
    <3>1. ~tangled /\ \A d \in Calls : call[d].pc # "read"
      BY <1>3, <2>7 DEF CallAt
    <3>2. InStep(requests, answers, call, reader)
      BY <3>1 DEF AnswersInv
    <3>3. Empty(requests, answers) /\ reader = NoCall
      BY <3>1, <3>2 DEF InStep
    <3>4. Empty(requests', answers) \/ Carries(requests', answers, c)
      BY <2>3, <3>3 DEF Empty, Carries
    <3>5. \A d \in Calls : call'[d].pc = "read" => d = c
      BY <2>5, <3>1
    <3>6. \A d \in Calls : call'[d].got \in {d, NoCall}
      BY <2>5, <3>2 DEF InStep
    <3> QED BY <2>5, <3>3, <3>4, <3>5, <3>6 DEF InStep
  <2> QED BY <1>1, <2>1, <2>3, <2>4, <2>6, <2>7 DEF AnswersInv, Turns
<1> QED BY <1>1, <1>2, <1>3 DEF SendRequest

LEMMA OneLine ==
  ASSUME NEW lines \in Seq(Lines), Len(lines) = 1
  PROVE  Head(lines) = lines[1] /\ Tail(lines) = <<>>
<1>1. lines # <<>>
  OBVIOUS
<1>2. Tail(lines) \in Seq(Lines) /\ Len(Tail(lines)) = Len(lines) - 1
  BY <1>1
<1> DEFINE t == Tail(lines)
<1>3. t \in Seq(Lines) /\ Len(t) = 0
  BY <1>2
<1> HIDE DEF t
<1>4. t = <<>>
  BY <1>3
<1>5. Head(lines) = lines[1]
  BY <1>1
<1> QED BY <1>4, <1>5 DEF t

(* While the pipe is in step, a call that reads finds its own line.        *)
LEMMA OwnLine ==
  ASSUME AnswersInv, ~tangled, NEW c \in Calls, call[c].pc = "read", answers # <<>>
  PROVE  /\ Head(answers).of = c /\ Head(answers).size # "rest"
         /\ Empty(requests, Tail(answers)) /\ reader \in {NoCall, c}
<1>1. InStep(requests, answers, call, reader) /\ answers \in Seq(Lines)
  BY DEF AnswersInv, Once
<1>2. Carries(requests, answers, c)
  BY <1>1 DEF InStep, Empty
<1>3. requests = <<>> /\ Len(answers) = 1 /\ answers[1].of = c /\ answers[1].size # "rest"
  BY <1>2 DEF Carries
<1>4. Head(answers) = answers[1] /\ Tail(answers) = <<>>
  BY <1>1, <1>3, OneLine
<1>5. reader \in {NoCall, c}
  BY <1>1 DEF InStep
<1> QED BY <1>3, <1>4, <1>5 DEF Empty

LEMMA ReadLineAnswers ==
  ASSUME AnswersInv, NEW c \in Calls, ReadLine(c)
  PROVE  AnswersInv'
<1>1. /\ call[c].pc = "read" /\ reader # c /\ UNCHANGED <<daemon, requests, job>>
      /\ CallTypes /\ Once(requests, answers) /\ (job \in Jobs)' /\ Quiet'
  BY DEF ReadLine, CallAt, Unmoved, AnswersInv, Quiet
<1>2. CASE LineReady /\ TakeAnswer(c) /\ UNCHANGED reader
  <2> DEFINE x == Head(answers).of
  <2>0. answers # <<>>
    BY <1>2 DEF LineReady
  <2>1. CASE /\ Head(answers).size = "fits" /\ answers' = Tail(answers)
             /\ ScanEnds(c, x) /\ UNCHANGED tangled
    <3>1. /\ Once(requests, answers') /\ x \in Calls
          /\ \A d : In(requests, answers', d) => In(requests, answers, d)
          /\ In(requests, answers, x) /\ ~In(requests, answers', x)
      BY <1>1, <2>0, <2>1, OnceTaken DEF Lines
    <3>2. call[x].pc \in Late /\ ~Has(call, x)
      BY <3>1 DEF AnswersInv, Owned
    <3>3. ~tangled => x = c /\ Empty(requests, answers')
      BY <1>1, <2>0, <2>1, OwnLine
    <3> HIDE DEF x
    <3> QED BY <1>1, <1>2, <2>1, <3>1, <3>2, <3>3, LeavesWith
  <2>2. CASE /\ Head(answers).size # "fits" /\ Overrun /\ Ends(c, FALSE)
             /\ tangled' = (tangled \/ answers' # Tail(answers))
    <3>1. Turns(c, "done")
      BY <1>1, <2>2, EndsEffect
    <3>2. answers' = Tail(answers) \/ answers' = [answers EXCEPT ![1].size = "rest"]
      BY <2>2 DEF Overrun
    <3>3. /\ Once(requests, answers')
          /\ \A d \in Calls : In(requests, answers', d) => In(requests, answers, d)
      <4>1. CASE answers' = Tail(answers)
        BY <1>1, <2>0, <4>1, OnceTaken
      <4>2. CASE answers' = [answers EXCEPT ![1].size = "rest"]
        <5> DEFINE b == [answers EXCEPT ![1].size = "rest"]
        <5>1. Once(requests, b) /\ \A d : In(requests, b, d) => In(requests, answers, d)
          BY <1>1, <2>0, OnceCut
        <5> HIDE DEF b
        <5>2. answers' = b
          BY <4>2 DEF b
        <5> QED BY <5>1, <5>2
      <4> QED BY <3>2, <4>1, <4>2
    <3>4. ASSUME ~tangled' PROVE ~tangled /\ Empty(requests, answers') /\ reader' # c
      BY <1>1, <1>2, <2>0, <2>2, <3>4, OwnLine
    <3> QED BY <1>1, <1>2, <3>1, <3>3, <3>4, LeavesWithout
  <2> QED BY <1>2, <2>1, <2>2 DEF TakeAnswer
<1>3. CASE (AtEnd \/ Refused) /\ Ends(c, FALSE) /\ UNCHANGED <<answers, reader, tangled>>
  <2>1. Turns(c, "done") /\ answers = <<>>
    BY <1>1, <1>3, EndsEffect DEF AtEnd, Refused, LineReady
  <2>2. ASSUME ~tangled PROVE Empty(requests, answers)
    <3>1. InStep(requests, answers, call, reader)
      BY <2>2 DEF AnswersInv
    <3>2. reader = NoCall
      BY <1>1, <3>1 DEF InStep
    <3>3. daemon = "dead"
      BY <1>3, <3>2 DEF AtEnd, Refused
    <3> QED BY <2>1, <2>2, <3>3 DEF AnswersInv, Empty, Quiet
  <2> QED BY <1>1, <1>3, <2>1, <2>2, LeavesWithout
<1>4. CASE MayWait /\ reader' = c /\ UNCHANGED <<answers, call, temps, reports, tangled>>
  <2>1. ASSUME ~tangled PROVE InStep(requests, answers, call, c)
    BY <1>1, <2>1 DEF AnswersInv, InStep
  <2> QED BY <1>1, <1>4, <2>1, PipesMove
<1> QED BY <1>2, <1>3, <1>4 DEF ReadLine

LEMMA CancelAnswers ==
  ASSUME AnswersInv, NEW c \in Calls, Cancel(c)
  PROVE  AnswersInv'
<1>1. /\ UNCHANGED <<daemon, requests, answers, job>> /\ CallTypes /\ Turns(c, "done")
      /\ reader' = (IF reader = c THEN NoCall ELSE reader)
      /\ tangled' = (tangled \/ call[c].pc = "read")
      /\ call[c].pc \in {"roots", "elicit", "read"} /\ Once(requests, answers) /\ Quiet'
  BY CancelEffect DEF Cancel, CallAt, Unmoved, AnswersInv, Quiet
<1>2. CASE call[c].pc = "read"
  BY <1>1, <1>2, LeavesWithout
<1>3. CASE call[c].pc # "read"
  <2>1. CallTypes' /\ (job \in Jobs)' /\ Once(requests, answers)'
    BY <1>1 DEF AnswersInv, Turns
  <2>2. \A d \in Calls : /\ call'[d].got = call[d].got
                         /\ call[d].pc \in Late => call'[d].pc \in Late
                         /\ call'[d].pc = "read" <=> call[d].pc = "read"
    BY <1>1, <1>3 DEF Turns, Late
  <2>3. Owned(requests', answers', call')
    BY <1>1, <2>2 DEF AnswersInv, Owned, Has
  <2>4. ASSUME ~tangled' PROVE InStep(requests', answers', call', reader')
    <3>1. InStep(requests, answers, call, reader)
      BY <2>4, <1>1 DEF AnswersInv
    <3>2. reader # c
      BY <1>1, <1>3, <3>1, McpAssumption DEF InStep
    <3>3. UNCHANGED <<requests, answers, reader>>
      BY <1>1, <3>2
    <3>4. \A d, e \in Calls : call'[d].pc = "read" /\ call'[e].pc = "read" => d = e
      BY <2>2, <3>1 DEF InStep
    <3>5. \A d \in Calls : call'[d].got \in {d, NoCall}
      BY <2>2, <3>1 DEF InStep
    <3>6. \/ Empty(requests, answers)
          \/ \E x \in Calls : Carries(requests, answers, x) /\ call'[x].pc = "read"
      BY <2>2, <3>1 DEF InStep
    <3>7. reader # NoCall => reader \in Calls /\ call'[reader].pc = "read"
      BY <2>2, <3>1 DEF InStep
    <3>8. InStep(requests, answers, call', reader)
      BY <3>4, <3>5, <3>6, <3>7 DEF InStep
    <3> QED BY <3>3, <3>8
  <2> QED BY <1>1, <2>1, <2>3, <2>4 DEF AnswersInv
<1> QED BY <1>2, <1>3

LEMMA DaemonAnswersInv ==
  ASSUME AnswersInv, DaemonMoves \/ DaemonFails
  PROVE  AnswersInv'
<1>1. /\ UNCHANGED <<call, job, tangled>> /\ reader' = NoCall /\ Once(requests, answers)
      /\ Quiet'
  BY DEF DaemonMoves, DaemonFails, DaemonAnswers, DaemonDies, Unmoved, AnswersInv, Quiet
<1>2. CASE DaemonMoves
  <2>1. PICK size \in job.sizes : DaemonAnswers(size)
    BY <1>2 DEF DaemonMoves
  <2>2. size \in {"fits", "exceeds"}
    BY McpAssumption DEF AnswersInv
  <2> DEFINE l == [of |-> Head(requests), size |-> size]
  <2>3. requests # <<>> /\ requests' = Tail(requests) /\ answers' = Append(answers, l)
    BY <2>1 DEF DaemonAnswers
  <2>4. /\ Once(requests', answers')
        /\ \A d \in Calls : In(requests', answers', d) => In(requests, answers, d)
    BY <1>1, <2>2, <2>3, OnceAnswered
  <2>5. ASSUME ~tangled PROVE InStep(requests', answers', call, reader')
    <3>1. InStep(requests, answers, call, reader)
      BY <2>5 DEF AnswersInv
    <3>2. PICK y \in Calls : requests = <<y>> /\ answers = <<>> /\ call[y].pc = "read"
      BY <2>3, <3>1 DEF InStep, Empty, Carries
    <3>3. l.of = y /\ l.size # "rest"
      BY <2>2, <3>2
    <3> HIDE DEF l
    <3>4. requests' = <<>> /\ answers' = <<l>>
      BY <2>3, <3>2
    <3>5. Carries(requests', answers', y)
      BY <3>3, <3>4 DEF Carries
    <3> QED BY <1>1, <3>1, <3>2, <3>5 DEF InStep
  <2> QED BY <1>1, <2>4, <2>5, PipesMove
<1>3. CASE DaemonFails
  <2>1. requests' = <<>> /\ answers' = answers
    BY <1>3 DEF DaemonFails, DaemonDies
  <2>2. ASSUME ~tangled PROVE InStep(requests', answers', call, reader')
    <3>1. InStep(requests, answers, call, reader)
      BY <2>2 DEF AnswersInv
    <3>2. \/ Empty(requests', answers')
          \/ \E y \in Calls : Carries(requests', answers', y) /\ call[y].pc = "read"
      BY <2>1, <3>1 DEF InStep, Empty, Carries
    <3> QED BY <1>1, <3>1, <3>2 DEF InStep
  <2> QED BY <1>1, <2>1, <2>2, OnceAlone, PipesMove
<1> QED BY <1>2, <1>3

LEMMA AnswersNext == AnswersInv /\ [Next]_vars => AnswersInv'
<1> SUFFICES ASSUME AnswersInv, [Next]_vars PROVE AnswersInv'
  OBVIOUS
<1>1. CASE UNCHANGED vars \/ StartServer \/ \E h \in Hooks : HookMoves(h)
  <2>1. UNCHANGED <<requests, answers, reader, call, job, tangled>>
    BY <1>1 DEF vars, pipes, HookMoves, StartServer
  <2>2. Quiet'
    BY <1>1 DEF vars, pipes, HookMoves, StartServer, AnswersInv, Quiet
  <2> QED BY <2>1, <2>2 DEF AnswersInv, CallTypes
<1>2. CASE \E c \in Calls : CallStep(c) \/ Cancel(c)
  BY <1>2, ReceiveAnswers, QuietAnswers, RunCommandAnswers, SendRequestAnswers,
     ReadLineAnswers, CancelAnswers DEF CallStep
<1>3. CASE DaemonMoves \/ DaemonFails
  BY <1>3, DaemonAnswersInv
<1>4. CASE StopServer
  <2>1. /\ UNCHANGED <<answers, reader, call, job, tangled>> /\ requests' \in {<<>>, requests}
        /\ \A c \in Calls : call[c].pc = "done"
    BY <1>4 DEF StopServer
  <2>2. Quiet' /\ Once(requests, answers)
    BY <1>4 DEF StopServer, AnswersInv, Quiet
  <2>3. /\ Once(requests', answers')
        /\ \A d \in Calls : In(requests', answers', d) => In(requests, answers, d)
    BY <2>1, <2>2, OnceAlone
  <2>4. ASSUME ~tangled PROVE InStep(requests', answers', call, reader')
    <3>1. InStep(requests, answers, call, reader)
      BY <2>4 DEF AnswersInv
    <3>2. Empty(requests, answers)
      BY <2>1, <3>1 DEF InStep
    <3> QED BY <2>1, <3>1, <3>2 DEF InStep, Empty
  <2> QED BY <2>1, <2>2, <2>3, <2>4, PipesMove
<1> QED BY <1>1, <1>2, <1>3, <1>4 DEF Next

(* A scan returns the findings of its own code until a line is left in the *)
(* pipe: before that the pipe holds one line at most, and only the call    *)
(* that wrote its request can read it.  And whatever overlaps, is cancelled*)
(* or cut, each answer is returned once.                                   *)
THEOREM ScansGetTheirOwn == Spec => []AnswersAreOwn
<1>1. Init => AnswersInv
  <2> SUFFICES ASSUME Init PROVE AnswersInv
    OBVIOUS
  <2>1. /\ CallTypes /\ \A c \in Calls : /\ call[c].pc \in {"sent", "done"}
                                        /\ call[c].got = NoCall
    BY InitCalls
  <2>2. requests = <<>> /\ answers = <<>> /\ reader = NoCall /\ job \in Jobs /\ Quiet
    BY DEF Init, DaemonInit, Quiet
  <2>3. Once(requests, answers) /\ \A c : ~In(requests, answers, c)
    BY <2>2 DEF Once, In
  <2>4. Owned(requests, answers, call)
    BY <2>1, <2>3, McpAssumption DEF Owned, Has
  <2>5. InStep(requests, answers, call, reader)
    BY <2>1, <2>2 DEF InStep, Empty
  <2> QED BY <2>1, <2>2, <2>3, <2>4, <2>5 DEF AnswersInv
<1>2. AnswersInv => AnswersAreOwn
  BY DEF AnswersInv, InStep, Owned, AnswersAreOwn
<1> QED BY <1>1, <1>2, AnswersNext, PTL DEF Spec

-----------------------------------------------------------------------------
(* The hooks.                                                              *)

IsHook(r) == r \in [pc : {r.pc}, list : {r.list}, answer : {r.answer},
                    owes : {r.owes}, scanned : {r.scanned}]

Kind(h) == job.hooks[h].kind
Path(h) == job.hooks[h].path
Half == <<"half">>
Lists == Seq(Paths \cup {"half"})
Answered == {"followup", "quiet"}

(* Each hook does its own work, and an answer of a stop hook is what its   *)
(* scan gave.                                                              *)
AtWork(kind, l) ==
    /\ l \in {"record", "open", "write", "orphan"} => kind = "record"
    /\ l \in {"stop", "scan", "clear"} => kind = "stop"
    /\ l \in {"post", "inject"} => kind = l

HooksWork ==
    /\ job \in Jobs
    /\ edited \in Lists
    /\ hook = [h \in Hooks |-> hook[h]]
    /\ \A h \in Hooks :
        /\ IsHook(hook[h]) /\ hook[h].list \in Lists
        /\ AtWork(Kind(h), hook[h].pc)
        /\ hook[h].pc \in {"open", "write"} => Holds(hook[h].list, Path(h))

(* A hook that is going to remove the list took what was owed: what is     *)
(* owed since has crossed it.                                              *)
Removed == \A h \in Hooks : hook[h].pc \in {"scan", "clear"} => owed \subseteq crossed

(* What is owed is in the list, and in every list that will replace it.    *)
Carried ==
    \A g \in owed \ crossed :
        /\ edited = Half \/ Holds(edited, Path(g))
        /\ \A k \in Hooks :
            hook[k].pc \in {"open", "write"} => Holds(hook[k].list, Path(g))

(* What a stop hook owes is in the list it scans, and then was scanned.    *)
Taken ==
    \A h \in Hooks :
        /\ hook[h].pc = "scan" =>
            \A g \in hook[h].owes \ crossed : Holds(hook[h].list, Path(g))
        /\ Kind(h) = "stop" /\ hook[h].answer \in Answered =>
            \A g \in hook[h].owes \ crossed :
                Path(g) \in hook[h].scanned \/ Displaced(hook[h].list, Path(g))

EditsInv == HooksWork /\ Removed /\ Carried /\ Taken

(* What a step does to its own hook; it leaves the others alone.           *)
Becomes(h, r) ==
    /\ hook' = [k \in Hooks |-> hook'[k]] /\ IsHook(r)
    /\ \A k \in Hooks \ {h} : hook'[k] = hook[k]
    /\ hook'[h] = r

LEMMA BecomesEffect ==
  ASSUME HooksWork, NEW h \in Hooks, NEW r, IsHook(r), hook' = [hook EXCEPT ![h] = r]
  PROVE  Becomes(h, r)
BY DEF HooksWork, Becomes

LEMMA HookGoesTo ==
  ASSUME HooksWork, NEW h \in Hooks, NEW l, hook' = [hook EXCEPT ![h].pc = l]
  PROVE  /\ Becomes(h, hook'[h]) /\ hook'[h].pc = l /\ hook'[h].answer = hook[h].answer
         /\ hook'[h].list = hook[h].list /\ hook'[h].owes = hook[h].owes
         /\ hook'[h].scanned = hook[h].scanned
<1> DEFINE r == [hook[h] EXCEPT !.pc = l]
<1>1. /\ IsHook(r) /\ r.pc = l /\ r.answer = hook[h].answer /\ r.list = hook[h].list
      /\ r.owes = hook[h].owes /\ r.scanned = hook[h].scanned
  BY DEF HooksWork, IsHook
<1>2. hook' = [hook EXCEPT ![h] = r]
  BY DEF HooksWork
<1> HIDE DEF r
<1>3. Becomes(h, r) /\ hook'[h] = r
  BY <1>1, <1>2, BecomesEffect DEF Becomes
<1> QED BY <1>1, <1>3

LEMMA HookEndsEffect ==
  ASSUME HooksWork, NEW h \in Hooks, NEW answer, HookEnds(h, answer)
  PROVE  /\ Becomes(h, hook'[h]) /\ hook'[h].pc = "end" /\ hook'[h].answer = answer
         /\ hook'[h].list = hook[h].list /\ hook'[h].owes = hook[h].owes
         /\ hook'[h].scanned = hook[h].scanned
<1> DEFINE r == [hook[h] EXCEPT !.pc = "end", !.answer = answer]
<1>1. /\ IsHook(r) /\ r.pc = "end" /\ r.answer = answer /\ r.list = hook[h].list
      /\ r.owes = hook[h].owes /\ r.scanned = hook[h].scanned
  BY DEF HooksWork, IsHook
<1>2. hook' = [hook EXCEPT ![h] = r]
  BY DEF HooksWork, HookEnds
<1> HIDE DEF r
<1>3. Becomes(h, r) /\ hook'[h] = r
  BY <1>1, <1>2, BecomesEffect DEF Becomes
<1> QED BY <1>1, <1>3

(* A hook goes on in its own work, and stays.                              *)
LEMMA WorkGoesOn ==
  ASSUME HooksWork, NEW h \in Hooks, Becomes(h, hook'[h]), UNCHANGED job, edited' \in Lists,
         hook'[h].list \in Lists, AtWork(Kind(h), hook'[h].pc),
         hook'[h].pc \in {"open", "write"} => Holds(hook'[h].list, Path(h))
  PROVE  HooksWork'
<1>1. \A k : Kind(k)' = Kind(k) /\ Path(k)' = Path(k)
  BY DEF Kind, Path
<1> QED BY <1>1 DEF HooksWork, Becomes

(* A step of a hook that has no part in what is owed.                      *)
LEMMA HookMovesOn ==
  ASSUME EditsInv, NEW h \in Hooks, Becomes(h, hook'[h]),
         UNCHANGED <<job, edited, owed, crossed>>,
         UNCHANGED <<hook[h].list, hook[h].owes, hook[h].scanned>>,
         AtWork(Kind(h), hook'[h].pc), hook'[h].pc \notin {"open", "write", "scan", "clear"},
         Kind(h) = "stop" => hook'[h].answer \notin Answered \/ UNCHANGED hook[h].answer
  PROVE  EditsInv'
<1>1. \A k : Kind(k)' = Kind(k) /\ Path(k)' = Path(k)
  BY DEF Kind, Path
<1>2. HooksWork'
  BY WorkGoesOn DEF EditsInv, HooksWork
<1>3. Removed' /\ Carried'
  BY <1>1 DEF EditsInv, Removed, Carried, Becomes
<1>4. Taken'
  BY <1>1 DEF EditsInv, Taken, Becomes
<1> QED BY <1>2, <1>3, <1>4 DEF EditsInv

LEMMA StartHookEdits ==
  ASSUME EditsInv, NEW h \in Hooks, StartHook(h), UNCHANGED job
  PROVE  EditsInv'
<1>1. HooksWork /\ Removed
  BY DEF EditsInv
<1>2. /\ UNCHANGED <<edited, owed, crossed>> /\ hook[h].pc = "ready"
      /\ HookEnds(h, "unsupported") \/ hook' = [hook EXCEPT ![h].pc = Kind(h)]
  BY DEF StartHook, MayStart, HookAt, Kind
<1>3. Kind(h) \in {"idle", "record", "stop", "post", "inject"}
  BY <1>1, McpAssumption DEF HooksWork, Kind
<1>4. CASE HookEnds(h, "unsupported")
  BY <1>1, <1>2, <1>4, HookEndsEffect, HookMovesOn DEF AtWork, Answered
<1>5. CASE hook' = [hook EXCEPT ![h].pc = Kind(h)]
  BY <1>1, <1>2, <1>3, <1>5, HookGoesTo, HookMovesOn DEF AtWork
<1> QED BY <1>2, <1>4, <1>5

LEMMA OtherHookEdits ==
  ASSUME EditsInv, NEW h \in Hooks, PostTool(h) \/ InjectDefaults(h), UNCHANGED job
  PROVE  EditsInv'
<1>1. HooksWork
  BY DEF EditsInv
<1>2. /\ UNCHANGED <<edited, owed, crossed>> /\ hook[h].pc \in {"post", "inject"}
      /\ \E answer : HookEnds(h, answer)
  BY DEF PostTool, InjectDefaults, HookAt
<1>3. Kind(h) # "stop"
  BY <1>1, <1>2 DEF HooksWork, AtWork
<1> QED BY <1>1, <1>2, <1>3, HookEndsEffect, HookMovesOn DEF AtWork

(* The edit is on record: in the list, or it has crossed another hook.     *)
LEMMA RecordedEdits ==
  ASSUME EditsInv, NEW h \in Hooks, Recorded(h), UNCHANGED job, Kind(h) = "record",
         edited' \in Lists,
         \A g \in owed \ crossed : edited' = Half \/ Holds(edited', Path(g)),
         hook[h].pc # "orphan" => edited' = Half \/ Holds(edited', Path(h))
  PROVE  EditsInv'
<1>1. HooksWork /\ Removed /\ Carried /\ Taken
  BY DEF EditsInv
<1>2. /\ Becomes(h, hook'[h]) /\ hook'[h].pc = "end" /\ hook'[h].list = hook[h].list
      /\ owed' = owed \cup {h}
      /\ crossed' = (IF hook[h].pc = "orphan" \/ \E k \in Hooks \ {h} : AtList(k)
                     THEN crossed \cup {h} ELSE crossed)
  BY <1>1, HookEndsEffect DEF Recorded, HookAt
<1>3. \A k : Kind(k)' = Kind(k) /\ Path(k)' = Path(k)
  BY DEF Kind, Path
<1>4. HooksWork'
  <2>1. hook'[h].list \in Lists /\ AtWork(Kind(h), hook'[h].pc)
    BY <1>1, <1>2 DEF HooksWork, AtWork
  <2> QED BY <1>1, <1>2, <2>1, WorkGoesOn
<1>5. Removed'
  <2>1. SUFFICES ASSUME NEW k \in Hooks, hook'[k].pc \in {"scan", "clear"}
                 PROVE  owed' \subseteq crossed'
    BY DEF Removed
  <2>2. k # h /\ hook[k].pc \in {"scan", "clear"}
    BY <1>2, <2>1 DEF Becomes
  <2>3. AtList(k) /\ owed \subseteq crossed
    BY <1>1, <2>2 DEF AtList, Removed
  <2> QED BY <1>2, <2>2, <2>3
<1>6. Carried'
  <2>1. SUFFICES ASSUME NEW g \in owed' \ crossed'
                 PROVE  /\ edited' = Half \/ Holds(edited', Path(g))
                        /\ \A k \in Hooks :
                            hook'[k].pc \in {"open", "write"} => Holds(hook'[k].list, Path(g))
    BY <1>3 DEF Carried
  <2>2. CASE g = h
    <3>1. hook[h].pc # "orphan" /\ \A k \in Hooks \ {h} : ~AtList(k)
      BY <1>2, <2>1, <2>2
    <3>2. \A k \in Hooks : hook'[k].pc \notin {"open", "write"}
      BY <1>2, <3>1 DEF Becomes, AtList
    <3> QED BY <2>2, <3>1, <3>2
  <2>3. CASE g # h
    <3>1. g \in owed \ crossed
      BY <1>2, <2>1, <2>3
    <3>2. \A k \in Hooks :
            hook'[k].pc \in {"open", "write"} => Holds(hook'[k].list, Path(g))
      BY <1>1, <1>2, <3>1 DEF Becomes, Carried
    <3> QED BY <3>1, <3>2
  <2> QED BY <2>2, <2>3
<1>7. Taken'
  <2>1. crossed \subseteq crossed'
    BY <1>2
  <2>2. hook'[h].pc # "scan" /\ Kind(h) # "stop"
    BY <1>2
  <2> QED BY <1>1, <1>2, <1>3, <2>1, <2>2 DEF Taken, Becomes
<1> QED BY <1>4, <1>5, <1>6, <1>7 DEF EditsInv

LEMMA HoldsAppended ==
  ASSUME NEW list \in Lists, NEW p \in Paths
  PROVE  /\ Append(list, p) \in Lists /\ Holds(Append(list, p), p)
         /\ \A q : Holds(list, q) => Holds(Append(list, p), q)
<1> DEFINE new == Append(list, p)
<1>1. /\ new \in Lists /\ Len(list) \in Nat /\ Len(new) = Len(list) + 1
      /\ \A i \in 1 .. Len(list) : new[i] = list[i]
      /\ new[Len(list) + 1] = p
  BY DEF Lists
<1> HIDE DEF new
<1>2. /\ Len(list) + 1 \in 1 .. Len(new)
      /\ \A i \in 1 .. Len(list) : i \in 1 .. Len(new)
  BY <1>1
<1>3. Holds(new, p) /\ \A q : Holds(list, q) => Holds(new, q)
  BY <1>1, <1>2 DEF Holds
<1> QED BY <1>1, <1>3 DEF new

LEMMA ReadListEdits ==
  ASSUME EditsInv, NEW h \in Hooks, ReadList(h), UNCHANGED job
  PROVE  EditsInv'
<1>1. HooksWork /\ Removed /\ Carried /\ Taken
  BY DEF EditsInv
<1>2. hook[h].pc = "record" /\ UNCHANGED edited /\ Kind(h) = "record" /\ edited \in Lists
  BY <1>1 DEF ReadList, HookAt, HooksWork, AtWork
<1>3. CASE HookEnds(h, "failed") /\ UNCHANGED <<owed, crossed>>
  BY <1>1, <1>2, <1>3, HookEndsEffect, HookMovesOn DEF AtWork, Answered
<1>4. CASE HookEnds(h, "ignored") /\ UNCHANGED <<owed, crossed>>
  BY <1>1, <1>2, <1>4, HookEndsEffect, HookMovesOn DEF AtWork, Answered
<1>5. CASE Holds(edited, Path(h)) /\ Recorded(h)
  BY <1>1, <1>2, <1>5, RecordedEdits DEF Carried
<1>6. CASE /\ edited # Half
           /\ hook' = [hook EXCEPT ![h].pc = "open", ![h].list = Append(edited, Path(h))]
           /\ UNCHANGED <<owed, crossed>>
  <2> DEFINE new == Append(edited, Path(h))
             r == [hook[h] EXCEPT !.pc = "open", !.list = new]
  <2>1. Path(h) \in Paths
    BY <1>1, McpAssumption DEF HooksWork, Path
  <2>2. new \in Lists /\ Holds(new, Path(h)) /\ \A q : Holds(edited, q) => Holds(new, q)
    BY <1>2, <2>1, HoldsAppended
  <2> HIDE DEF new
  <2>3. /\ IsHook(r) /\ r.pc = "open" /\ r.answer = hook[h].answer /\ r.list = new
        /\ r.owes = hook[h].owes /\ r.scanned = hook[h].scanned
    BY <1>1 DEF HooksWork, IsHook
  <2>4. hook' = [hook EXCEPT ![h] = r]
    BY <1>1, <1>6 DEF HooksWork, new
  <2> HIDE DEF r
  <2>5. Becomes(h, hook'[h]) /\ hook'[h] = r
    BY <1>1, <2>3, <2>4, BecomesEffect DEF Becomes
  <2>6. \A k : Kind(k)' = Kind(k) /\ Path(k)' = Path(k)
    BY DEF Kind, Path
  <2>7. HooksWork'
    BY <1>1, <1>2, <2>2, <2>3, <2>5, WorkGoesOn DEF AtWork
  <2>8. Removed'
    BY <1>1, <1>6, <2>3, <2>5 DEF Removed, Becomes
  <2>9. Carried'
    <3>1. SUFFICES ASSUME NEW g \in owed \ crossed, NEW k \in Hooks,
                          hook'[k].pc \in {"open", "write"}
                   PROVE  Holds(hook'[k].list, Path(g))
      BY <1>1, <1>2, <1>6, <2>6 DEF Carried
    <3>2. Holds(edited, Path(g))
      BY <1>1, <1>6 DEF Carried
    <3>3. CASE k = h
      BY <2>2, <2>3, <2>5, <3>2, <3>3
    <3>4. CASE k # h
      BY <1>1, <2>5, <3>1, <3>4 DEF Carried, Becomes
    <3> QED BY <3>3, <3>4
  <2>10. Taken'
    BY <1>1, <1>2, <1>6, <2>3, <2>5, <2>6 DEF Taken, Becomes
  <2> QED BY <2>7, <2>8, <2>9, <2>10 DEF EditsInv
<1> QED BY <1>3, <1>4, <1>5, <1>6 DEF ReadList, Appended, Path, Half

LEMMA OpenListEdits ==
  ASSUME EditsInv, NEW h \in Hooks, OpenList(h), UNCHANGED job
  PROVE  EditsInv'
<1>1. HooksWork /\ Removed /\ Carried /\ Taken
  BY DEF EditsInv
<1>2. /\ hook[h].pc = "open" /\ edited' = Half /\ UNCHANGED <<owed, crossed>>
      /\ hook' = [hook EXCEPT ![h].pc = "write"]
  BY DEF OpenList, HookAt, Half
<1>3. /\ Becomes(h, hook'[h]) /\ hook'[h].pc = "write" /\ hook'[h].answer = hook[h].answer
      /\ hook'[h].list = hook[h].list /\ hook'[h].owes = hook[h].owes
      /\ hook'[h].scanned = hook[h].scanned
  BY <1>1, <1>2, HookGoesTo
<1>4. \A k : Kind(k)' = Kind(k) /\ Path(k)' = Path(k)
  BY DEF Kind, Path
<1>5. Half \in Lists
  BY DEF Half, Lists
<1>6. HooksWork'
  <2>1. /\ AtWork(Kind(h), hook'[h].pc) /\ hook'[h].list \in Lists
        /\ Holds(hook'[h].list, Path(h))
    BY <1>1, <1>2, <1>3 DEF HooksWork, AtWork
  <2> QED BY <1>1, <1>2, <1>3, <1>5, <2>1, WorkGoesOn
<1>7. Removed' /\ Carried'
  BY <1>1, <1>2, <1>3, <1>4 DEF Removed, Carried, Becomes
<1>8. Taken'
  BY <1>1, <1>2, <1>3, <1>4 DEF Taken, Becomes
<1> QED BY <1>6, <1>7, <1>8 DEF EditsInv

LEMMA WriteListEdits ==
  ASSUME EditsInv, NEW h \in Hooks, WriteList(h) \/ WriteToNoFile(h), UNCHANGED job
  PROVE  EditsInv'
<1>1. HooksWork /\ Carried
  BY DEF EditsInv
<1>2. Half \in Lists
  BY DEF Half, Lists
<1>3. CASE WriteList(h)
  <2>1. hook[h].pc = "write" /\ (edited' = hook[h].list \/ edited' = Half) /\ Recorded(h)
    BY <1>3 DEF WriteList, HookAt, Half
  <2>2. Kind(h) = "record" /\ edited' \in Lists /\ Holds(hook[h].list, Path(h))
    BY <1>1, <1>2, <2>1 DEF HooksWork, AtWork
  <2>3. \A g \in owed \ crossed : Holds(hook[h].list, Path(g))
    BY <1>1, <2>1 DEF Carried
  <2> QED BY <2>1, <2>2, <2>3, RecordedEdits
<1>4. CASE WriteToNoFile(h)
  <2>1. hook[h].pc = "orphan" /\ UNCHANGED edited /\ Recorded(h)
    BY <1>4 DEF WriteToNoFile, HookAt
  <2>2. Kind(h) = "record" /\ edited' \in Lists
    BY <1>1, <2>1 DEF HooksWork, AtWork
  <2> QED BY <1>1, <2>1, <2>2, RecordedEdits DEF Carried
<1> QED BY <1>3, <1>4

LEMMA LoadEditsEdits ==
  ASSUME EditsInv, NEW h \in Hooks, LoadEdits(h), UNCHANGED job
  PROVE  EditsInv'
<1>1. HooksWork /\ Removed /\ Carried /\ Taken
  BY DEF EditsInv
<1>2. /\ hook[h].pc = "stop" /\ UNCHANGED <<edited, crossed>> /\ owed' = {}
      /\ Kind(h) = "stop" /\ edited \in Lists
  BY <1>1 DEF LoadEdits, HookAt, HooksWork, AtWork
<1> DEFINE l == IF edited # Half /\ Valid(edited) THEN "scan" ELSE "clear"
           r == [hook[h] EXCEPT !.list = edited, !.pc = l, !.answer = "failed", !.owes = owed]
<1>3. hook' = [hook EXCEPT ![h] = r]
  BY <1>1 DEF LoadEdits, HooksWork, Half
<1>4. l \in {"scan", "clear"} /\ (l = "scan" => edited # Half)
  OBVIOUS
<1> HIDE DEF l
<1>5. /\ IsHook(r) /\ r.pc = l /\ r.answer = "failed" /\ r.list = edited /\ r.owes = owed
  BY <1>1 DEF HooksWork, IsHook
<1> HIDE DEF r
<1>6. Becomes(h, hook'[h]) /\ hook'[h] = r
  BY <1>1, <1>3, <1>5, BecomesEffect DEF Becomes
<1>7. \A k : Kind(k)' = Kind(k) /\ Path(k)' = Path(k)
  BY DEF Kind, Path
<1>8. HooksWork'
  <2>1. AtWork(Kind(h), hook'[h].pc)
    BY <1>2, <1>4, <1>5, <1>6 DEF AtWork
  <2> QED BY <1>1, <1>2, <1>4, <1>5, <1>6, <2>1, WorkGoesOn
<1>9. Removed' /\ Carried'
  BY <1>2 DEF Removed, Carried
<1>10. Taken'
  <2>1. l = "scan" => \A g \in owed \ crossed : Holds(edited, Path(g))
    BY <1>1, <1>4 DEF Carried
  <2>2. hook'[h].answer \notin Answered
    BY <1>5, <1>6 DEF Answered
  <2> QED BY <1>1, <1>2, <1>5, <1>6, <1>7, <2>1, <2>2 DEF Taken, Becomes
<1> QED BY <1>8, <1>9, <1>10 DEF EditsInv

(* What is in the list is scanned or has lost its copy to another file.    *)
LEMMA KeptOrDisplaced ==
  ASSUME NEW list \in Lists, NEW p, Holds(list, p)
  PROVE  p \in Kept(list) \/ Displaced(list, p)
<1>1. PICK i \in 1 .. Len(list) : list[i] = p
  BY DEF Holds
<1>2. Len(list) \in Nat
  BY DEF Lists
<1>3. CASE \A k \in i + 1 .. Len(list) :
              BaseName[list[k]] = BaseName[list[i]] => list[k] = list[i]
  BY <1>1, <1>3 DEF Kept
<1>4. CASE \E k \in i + 1 .. Len(list) :
              BaseName[list[k]] = BaseName[list[i]] /\ list[k] # list[i]
  <2>1. PICK k \in i + 1 .. Len(list) :
              BaseName[list[k]] = BaseName[list[i]] /\ list[k] # list[i]
    BY <1>4
  <2>2. k \in 1 .. Len(list) /\ i < k
    BY <1>2, <2>1
  <2> QED BY <1>1, <2>1, <2>2 DEF Displaced
<1> QED BY <1>3, <1>4

LEMMA ScanEditsEdits ==
  ASSUME EditsInv, NEW h \in Hooks, ScanEdits(h), UNCHANGED job
  PROVE  EditsInv'
<1>1. HooksWork /\ Removed /\ Carried /\ Taken
  BY DEF EditsInv
<1>2. /\ hook[h].pc = "scan" /\ UNCHANGED <<edited, owed, crossed>>
      /\ Kind(h) = "stop" /\ edited \in Lists /\ hook[h].list \in Lists
  BY <1>1 DEF ScanEdits, HookAt, HooksWork, AtWork
<1>3. \A k : Kind(k)' = Kind(k) /\ Path(k)' = Path(k)
  BY DEF Kind, Path
<1>4. /\ Becomes(h, hook'[h]) /\ hook'[h].pc = "clear"
      /\ hook'[h].list = hook[h].list /\ hook'[h].owes = hook[h].owes
      /\ \/ hook'[h].answer = hook[h].answer /\ hook'[h].scanned = hook[h].scanned
         \/ hook'[h].scanned = Kept(hook[h].list)
  <2>1. CASE hook' = [hook EXCEPT ![h].pc = "clear"]
    BY <1>1, <2>1, HookGoesTo
  <2>2. ASSUME NEW answer,
               hook' = [hook EXCEPT ![h].pc = "clear", ![h].scanned = Kept(hook[h].list),
                                    ![h].answer = answer]
        PROVE  /\ Becomes(h, hook'[h]) /\ hook'[h].pc = "clear"
               /\ hook'[h].list = hook[h].list /\ hook'[h].owes = hook[h].owes
               /\ hook'[h].scanned = Kept(hook[h].list)
    <3> DEFINE kept == Kept(hook[h].list)
               r == [hook[h] EXCEPT !.pc = "clear", !.scanned = kept, !.answer = answer]
    <3>1. hook' = [hook EXCEPT ![h] = r]
      BY <1>1, <2>2 DEF HooksWork
    <3> HIDE DEF kept
    <3>2. /\ IsHook(r) /\ r.pc = "clear" /\ r.list = hook[h].list /\ r.owes = hook[h].owes
          /\ r.scanned = kept
      BY <1>1 DEF HooksWork, IsHook
    <3> HIDE DEF r
    <3>3. Becomes(h, r) /\ hook'[h] = r
      BY <1>1, <3>1, <3>2, BecomesEffect DEF Becomes
    <3> QED BY <3>2, <3>3 DEF kept
  <2> QED BY <2>1, <2>2 DEF ScanEdits
<1>5. HooksWork'
  <2>1. AtWork(Kind(h), hook'[h].pc)
    BY <1>2, <1>4 DEF AtWork
  <2> QED BY <1>1, <1>2, <1>4, <2>1, WorkGoesOn
<1>6. Removed' /\ Carried'
  BY <1>1, <1>2, <1>3, <1>4 DEF Removed, Carried, Becomes
<1>7. Taken'
  <2>1. \A g \in hook[h].owes \ crossed :
          Path(g) \in Kept(hook[h].list) \/ Displaced(hook[h].list, Path(g))
    BY <1>1, <1>2, KeptOrDisplaced DEF Taken
  <2>2. hook'[h].answer \in Answered =>
          \A g \in hook[h].owes \ crossed :
              Path(g) \in hook'[h].scanned \/ Displaced(hook[h].list, Path(g))
    BY <1>1, <1>2, <1>4, <2>1 DEF Taken
  <2> QED BY <1>1, <1>2, <1>3, <1>4, <2>2 DEF Taken, Becomes
<1> QED BY <1>5, <1>6, <1>7 DEF EditsInv

LEMMA ClearEditsEdits ==
  ASSUME EditsInv, NEW h \in Hooks, ClearEdits(h), UNCHANGED job
  PROVE  EditsInv'
<1>1. HooksWork /\ Removed /\ Carried /\ Taken
  BY DEF EditsInv
<1>2. /\ hook[h].pc = "clear" /\ edited' = <<>> /\ UNCHANGED <<owed, crossed>>
      /\ <<>> \in Lists
  BY DEF ClearEdits, HookAt, Lists
<1>3. \A k : Kind(k)' = Kind(k) /\ Path(k)' = Path(k)
  BY DEF Kind, Path
<1> DEFINE next(k) == [hook[k] EXCEPT !.pc = IF k = h THEN "end"
                                             ELSE IF @ = "write" THEN "orphan" ELSE @]
<1>4. hook' = [k \in Hooks |-> next(k)]
  BY DEF ClearEdits
<1>5. ASSUME NEW k \in Hooks
      PROVE  /\ IsHook(next(k)) /\ next(k).list = hook[k].list
             /\ next(k).answer = hook[k].answer
             /\ next(k).owes = hook[k].owes /\ next(k).scanned = hook[k].scanned
             /\ next(k).pc \in {"end", "orphan", hook[k].pc}
             /\ next(k).pc = "orphan" => hook[k].pc \in {"write", "orphan"}
  BY <1>1 DEF HooksWork, IsHook
<1> HIDE DEF next
<1>6. HooksWork'
  <2>1. ASSUME NEW k \in Hooks
        PROVE  /\ IsHook(next(k)) /\ next(k).list \in Lists /\ AtWork(Kind(k), next(k).pc)
               /\ next(k).pc \in {"open", "write"} => Holds(next(k).list, Path(k))
    <3>1. /\ AtWork(Kind(k), hook[k].pc) /\ hook[k].list \in Lists
          /\ hook[k].pc \in {"open", "write"} => Holds(hook[k].list, Path(k))
      BY <1>1 DEF HooksWork
    <3> QED BY <1>5, <3>1 DEF AtWork
  <2>2. \A k \in Hooks : hook'[k] = next(k)
    BY <1>4
  <2>3. job' \in Jobs /\ edited' \in Lists /\ hook' = [k \in Hooks |-> hook'[k]]
    BY <1>1, <1>2, <1>4 DEF HooksWork
  <2> QED BY <1>3, <2>1, <2>2, <2>3 DEF HooksWork
<1>7. \A g \in owed' : g \in crossed'
  BY <1>1, <1>2 DEF Removed
<1>8. Removed' /\ Carried'
  BY <1>7 DEF Removed, Carried
<1>9. Taken'
  BY <1>1, <1>2, <1>3, <1>4, <1>5 DEF Taken
<1> QED BY <1>6, <1>8, <1>9 DEF EditsInv

LEMMA EditsNext == EditsInv /\ [Next]_vars => EditsInv'
<1> SUFFICES ASSUME EditsInv, [Next]_vars PROVE EditsInv'
  OBVIOUS
<1>1. CASE \E h \in Hooks : HookMoves(h)
  BY <1>1, StartHookEdits, OtherHookEdits, ReadListEdits, OpenListEdits, WriteListEdits,
     LoadEditsEdits, ScanEditsEdits, ClearEditsEdits DEF HookMoves, HookStep
<1>2. ASSUME UNCHANGED <<hookVars, job>> PROVE EditsInv'
  BY <1>2 DEF hookVars, EditsInv, HooksWork, AtWork, Removed, Carried, Taken, Kind, Path
<1>3. CASE StartServer \/ StopServer \/ DaemonMoves \/ DaemonFails \/ UNCHANGED vars
  BY <1>2, <1>3 DEF StartServer, StopServer, DaemonMoves, DaemonFails, Unmoved, vars
<1>4. CASE \E c \in Calls : CallStep(c) \/ Cancel(c)
  <2>1. PICK c \in Calls : CallStep(c) \/ Cancel(c)
    BY <1>4
  <2>2. Unmoved
    BY <2>1 DEF CallStep, Cancel, Receive, ListRoots, RuleSchema, SupportedLanguages,
                Findings, SyntaxTree, SupplyChain, Serves, ChooseBackend, CopyFiles,
                RunCommand, SendRequest, ReadLine, Elicit
  <2> QED BY <1>2, <2>2 DEF Unmoved
<1> QED BY <1>1, <1>3, <1>4 DEF Next

(* A stop hook that answers has scanned what it owes, for any number of    *)
(* hooks side by side: a hook that reads the list after an edit was put on *)
(* record writes it back with that edit, and one that read it before has   *)
(* crossed it.                                                             *)
THEOREM EditsGetScanned == Spec => []EditsAreScanned
<1>1. Init => EditsInv
  <2> SUFFICES ASSUME Init PROVE EditsInv
    OBVIOUS
  <2> DEFINE first(h) == [pc |-> IF Kind(h) = "idle" THEN "end" ELSE "ready",
                          list |-> <<>>, answer |-> "none", owes |-> {}, scanned |-> {}]
  <2>1. hook = [h \in Hooks |-> first(h)]
    BY DEF Init, HookInit, Kind
  <2>2. ASSUME NEW h \in Hooks
        PROVE  /\ IsHook(first(h)) /\ first(h).list = <<>> /\ first(h).answer = "none"
               /\ first(h).pc \in {"end", "ready"} /\ first(h).owes = {}
    BY DEF IsHook
  <2> HIDE DEF first
  <2>3. edited = <<>> /\ owed = {} /\ job \in Jobs /\ <<>> \in Lists
    BY DEF Init, HookInit, Lists
  <2>4. HooksWork
    BY <2>1, <2>2, <2>3 DEF HooksWork, AtWork
  <2>5. Removed /\ Carried /\ Taken
    BY <2>1, <2>2, <2>3 DEF Removed, Carried, Taken, Answered
  <2> QED BY <2>4, <2>5 DEF EditsInv
<1>2. EditsInv => EditsAreScanned
  BY DEF EditsInv, Taken, EditsAreScanned, Kind, Path, Answered
<1> QED BY <1>1, <1>2, EditsNext, PTL DEF Spec
=============================================================================
