------------------------------ MODULE UserState ------------------------------
(***************************************************************************)
(* Commands of the CLI that run at the same time for the same user: scan,  *)
(* login, publish and install-semgrep-pro (commands/*.py), from the entry  *)
(* point (console_scripts/entrypoint.py, cli.py) to the decorator that     *)
(* sends the metrics and exits (commands/wrapper.py).  Each can be killed  *)
(* at any step.                                                            *)
(***************************************************************************)
EXTENDS UserFiles

CONSTANTS
    Jobs,           \* what the processes are asked to do: functions on Procs
    ValidTokens,    \* the tokens the server knows
    Starts,         \* what earlier runs left on the disk
    MaxPolls        \* MAX_RETRIES of login.py (30 there)

ASSUME PollsAssumption == MaxPolls \in Nat \ {0}

ASSUME UserStateAssumption ==
    /\ None \notin Procs /\ Before \notin Procs /\ None # Before
    /\ \A j \in Jobs: \A p \in Procs: j[p].cmd \in {"scan", "login", "publish", "install"}
    /\ \A s \in Starts:
        /\ s.file.kind \in {"missing", "garbage", "doc"}
        /\ s.file.kind = "doc" => s.file = Settings(s.file.token, s.file.notified)
        /\ s.stamp \in {"missing", "half", "older", "current"}

VARIABLES
    job,            \* fixed at the start
    proc,           \* the processes
    day             \* the day: one may pass

vars == <<files, job, proc, day>>

\* A process before its first step: "then" is where it goes on once it has
\* saved its settings; "base" (the file it read), "ran", "shown", "refused" and
\* "findings" only serve the properties.
Idle == [pc |-> "launch", then |-> "none", copy |-> Missing, base |-> Missing,
         token |-> None, registry |-> FALSE, mode |-> "off", left |-> 0,
         asked |-> None, failed |-> 0, refused |-> FALSE, opened |-> FALSE,
         ran |-> "none", findings |-> FALSE, shown |-> Missing, rounds |-> 0,
         sent |-> FALSE, code |-> 0]

Init ==
    /\ job \in Jobs
    /\ \E s \in Starts :
          /\ file = s.file
          /\ stamp = s.stamp
          /\ installed = IF s.stamp = "missing" THEN None ELSE Before
          /\ body = [b \in Procs \cup {Before} |->
                        IF b # Before THEN "absent"
                        ELSE IF s.stamp = "current" THEN "good" ELSE "older"]
    /\ cache = Missing
    /\ download = None
    /\ proc = [p \in Procs |-> Idle]
    /\ day = 0

At(p, l) == proc[p].pc = l
Goes(p, l) == proc' = [proc EXCEPT ![p].pc = l]
\* sys.exit(code), or an exception whose code it is: the decorator comes next.
Leaves(p, code) == proc' = [proc EXCEPT ![p].pc = "finish", ![p].code = code]
\* settings.set: the copy of the process changes and is saved.
Saves(p, copy, then) ==
    proc' = [proc EXCEPT ![p].pc = "save", ![p].copy = copy, ![p].then = then]

-----------------------------------------------------------------------------
(* The start of a process. *)

\* exec_osemgrep: a flag of the Pro engine asks for its binary, with the stamp
\* of this version.
Launch(p) ==
    /\ At(p, "launch")
    /\ IF job[p].pro /\ ~job[p].legacy
       THEN IF ProPath # None
            THEN Goes(p, "exec")
            ELSE proc' = [proc EXCEPT ![p].pc = "exit", ![p].code = 2]
       ELSE Goes(p, "start")
    /\ UNCHANGED <<files, job, day>>

\* os.execvp of the path found: it may be gone, which nothing catches.
ExecPro(p) ==
    /\ At(p, "exec")
    /\ proc' = IF installed = None
               THEN [proc EXCEPT ![p].pc = "exit", ![p].code = 1]
               ELSE [proc EXCEPT ![p].pc = "start", ![p].ran = body[installed]]
    /\ UNCHANGED <<files, job, day>>

\* Settings(): the file over the defaults, saved at once in case they are new.
ReadState(p) ==
    /\ At(p, "start")
    /\ proc' = [proc EXCEPT ![p].pc = "save", ![p].then = "auth", ![p].base = file,
                            ![p].copy = ReadSettings(job[p].env)]
    /\ UNCHANGED <<files, job, day>>

\* Settings.save: a PermissionError is logged and forgotten.
Save(p) ==
    /\ At(p, "save")
    /\ IF job[p].denied
       THEN Goes(p, proc[p].then) /\ UNCHANGED file
       ELSE Goes(p, "replace") /\ WriteTemporary
    /\ UNCHANGED <<cache, body, download, installed, stamp, job, day>>

Replace(p) ==
    /\ At(p, "replace")
    /\ ReplaceSettings(proc[p].copy)
    /\ Goes(p, proc[p].then)
    /\ UNCHANGED <<cache, body, download, installed, stamp, job, day>>

\* The token of the environment comes before that of the settings.
GetToken(p) == IF job[p].env # None THEN job[p].env ELSE proc[p].copy.token

\* AppSession.authenticate, then the command.
Authenticate(p) ==
    /\ At(p, "auth")
    /\ proc' = [proc EXCEPT ![p].pc = job[p].cmd, ![p].token = GetToken(p)]
    /\ UNCHANGED <<files, job, day>>

-----------------------------------------------------------------------------
(* scan *)

\* Metrics.is_enabled
IsEnabled(q, mode) ==
    \/ mode = "on"
    \/ mode = "auto" /\ (q.registry \/ q.token # None)

\* metrics.configure and possibly_notify_user, before any rule is asked for.
Configure(p) ==
    /\ At(p, "scan")
    /\ IF IsEnabled(proc[p], job[p].metrics) /\ ~proc[p].copy.notified
       THEN proc' = [proc EXCEPT ![p].pc = "save", ![p].then = "resolve",
                                 ![p].mode = job[p].metrics,
                                 ![p].copy.notified = TRUE]
       ELSE proc' = [proc EXCEPT ![p].pc = "resolve", ![p].mode = job[p].metrics]
    /\ UNCHANGED <<files, job, day>>

\* ConfigLoader notes that the rules come from the Registry, then fetches them.
Resolve(p) ==
    /\ At(p, "resolve")
    /\ \/ proc' = [proc EXCEPT ![p].pc = "locate", ![p].registry = job[p].registry]
       \/ proc' = [proc EXCEPT ![p].pc = "finish", ![p].registry = job[p].registry,
                               ![p].code = 7]
    /\ UNCHANGED <<files, job, day>>

\* CoreRunner.__init__: get_binary_path, once.
LocateEngine(p) ==
    /\ At(p, "locate")
    /\ IF ~job[p].pro THEN Goes(p, "run")
       ELSE IF ProPath = None THEN Leaves(p, 2) ELSE Goes(p, "run")
    /\ UNCHANGED <<files, job, day>>

\* The path is run later, whatever is there then.
RunEngine(p) ==
    /\ At(p, "run")
    /\ \/ Leaves(p, 2)
       \/ /\ job[p].pro => installed # None
          /\ \E found \in BOOLEAN :
                proc' = [proc EXCEPT ![p].pc = "check", ![p].rounds = 2,
                             ![p].ran = IF job[p].pro THEN body[installed] ELSE @,
                             ![p].findings = found,
                             ![p].code = IF found THEN 1 ELSE 0]
    /\ UNCHANGED <<files, job, day>>

\* version_check, which may ask the server, then get_no_findings_msg, which
\* only reads the cache; both write back what they got with the time of now.
ReadCache(p) ==
    /\ At(p, "check")
    /\ LET q == proc[p]
           known == Parsed(cache, day)
           Got(answer) ==
               IF answer = Missing
               THEN [q EXCEPT !.rounds = @ - 1,
                              !.pc = IF q.rounds = 1 THEN "finish" ELSE "check"]
               ELSE [q EXCEPT !.rounds = @ - 1, !.pc = "open", !.shown = answer]
       IN  IF known # Missing \/ q.rounds = 1
           THEN proc' = [proc EXCEPT ![p] = Got(known)]
           ELSE \E answer \in {Answer(day), Missing} :
                    proc' = [proc EXCEPT ![p] = Got(answer)]
    /\ UNCHANGED <<files, job, day>>

OpenCache(p) ==
    /\ At(p, "open")
    /\ TruncateCache
    /\ Goes(p, "fill")
    /\ UNCHANGED <<file, body, download, installed, stamp, job, day>>

CloseCache(p) ==
    /\ At(p, "fill")
    /\ FillCache(Answer(day), \A q \in Procs \ {p} : ~At(q, "fill"))
    /\ Goes(p, IF proc[p].rounds = 0 THEN "finish" ELSE "check")
    /\ UNCHANGED <<file, body, download, installed, stamp, job, day>>

-----------------------------------------------------------------------------
(* login *)

\* A token that login did not take from the environment is not overwritten
\* unless forced to; without a terminal only the environment has one.
Login(p) ==
    /\ At(p, "login")
    /\ LET j == job[p]
           saved == proc[p].copy.token
       IN  IF ~j.force /\ saved # None /\ saved # j.env THEN Leaves(p, 2)
           ELSE IF ~j.force /\ j.env # None
           THEN proc' = [proc EXCEPT ![p].pc = "verify", ![p].asked = j.env]
           ELSE IF ~j.force /\ ~j.tty THEN Leaves(p, 2)
           ELSE proc' = [proc EXCEPT ![p].pc = "poll", ![p].left = MaxPolls]
    /\ UNCHANGED <<files, job, day>>

PollsLeft(p) == proc[p].left - 1

\* The server answers with the token once the user has logged in there.
Poll(p) ==
    /\ At(p, "poll")
    /\ \/ \E t \in ValidTokens :
              proc' = [proc EXCEPT ![p].pc = "verify", ![p].asked = t]
       \/ Goes(p, "sleep")
       \/ Leaves(p, 2)                  \* an exception of the session
    /\ UNCHANGED <<files, job, day>>

Sleep(p) ==
    /\ At(p, "sleep")
    /\ IF PollsLeft(p) = 0 THEN Leaves(p, 2)
       ELSE proc' = [proc EXCEPT ![p].pc = "poll", ![p].left = PollsLeft(p)]
    /\ UNCHANGED <<files, job, day>>

\* save_token: the server has a deployment for this token.
SaveToken(p) ==
    \/ /\ proc[p].asked \in ValidTokens
       /\ Saves(p, [proc[p].copy EXCEPT !.token = proc[p].asked], "finish")
    \/ Leaves(p, 2)

Verify(p) ==
    /\ At(p, "verify")
    /\ SaveToken(p)
    /\ UNCHANGED <<files, job, day>>

-----------------------------------------------------------------------------
(* publish *)

Publish(p) ==
    /\ At(p, "publish")
    /\ IF proc[p].token = None \/ job[p].rules = 0
          \/ (job[p].public /\ job[p].rules # 1)
       THEN Leaves(p, 2)
       ELSE proc' = [proc EXCEPT ![p].pc = "upload", ![p].left = job[p].rules]
    /\ UNCHANGED <<files, job, day>>

CountFailure(p, ok) == proc[p].failed + (IF ok THEN 0 ELSE 1)

\* _upload_rule: an invalid file and a refusal of the server are counted.
Upload(p) ==
    /\ At(p, "upload")
    /\ IF proc[p].left = 0
       THEN Leaves(p, IF proc[p].failed = 0 THEN 0 ELSE 2)
       ELSE \/ \E ok \in BOOLEAN :
                  proc' = [proc EXCEPT ![p].left = @ - 1,
                                       ![p].refused = @ \/ ~ok,
                                       ![p].failed = CountFailure(p, ok)]
            \/ Leaves(p, 2)             \* the session gave up
    /\ UNCHANGED <<files, job, day>>

-----------------------------------------------------------------------------
(* install-semgrep-pro *)

\* 13: no token, or one the server refuses (401).
Install(p) ==
    /\ At(p, "install")
    /\ \/ /\ proc[p].token = None \/ proc[p].token \notin ValidTokens
          /\ Leaves(p, 13)
          /\ UNCHANGED <<body, download>>
       \/ /\ proc[p].token # None
          /\ Leaves(p, 2)               \* 403, or the request failed
          /\ UNCHANGED <<body, download>>
       \/ /\ proc[p].token \in ValidTokens
          /\ OpenDownload(p)
          /\ Goes(p, "download")
    /\ UNCHANGED <<file, cache, installed, stamp, job, day>>

Downloaded(p) ==
    /\ At(p, "download")
    /\ \/ \E content \in {"good", "corrupt"} : CloseDownload(p, content)
          /\ Goes(p, "try")
       \/ Leaves(p, 2) /\ UNCHANGED body
    /\ UNCHANGED <<file, cache, download, installed, stamp, job, day>>

\* A binary that fails the check is removed (CalledProcessError) or left where
\* it is (it cannot be run, or not within ten seconds).
TryDownload(p) ==
    /\ At(p, "try")
    /\ IF VersionCheckOk
       THEN Goes(p, "unlink") /\ UNCHANGED download
       ELSE Leaves(p, 2) /\ download' \in {download, None}
    /\ UNCHANGED <<file, cache, body, installed, stamp, job, day>>

Unlink(p) ==
    /\ At(p, "unlink")
    /\ UnlinkInstalled
    /\ Goes(p, "rename")
    /\ UNCHANGED <<file, cache, body, download, stamp, job, day>>

Rename(p) ==
    /\ At(p, "rename")
    /\ IF download = None
       THEN Leaves(p, 2) /\ UNCHANGED <<download, installed>>
       ELSE RenameDownload /\ Goes(p, "stamp")
    /\ UNCHANGED <<file, cache, body, stamp, job, day>>

\* The stamp is truncated, then written.
Stamp(p) ==
    /\ At(p, "stamp")
    /\ IF stamp = "half" /\ proc[p].opened
       THEN stamp' = "current" /\ Leaves(p, 0)
       ELSE stamp' = "half" /\ proc' = [proc EXCEPT ![p].opened = TRUE]
    /\ UNCHANGED <<file, cache, body, download, installed, job, day>>

-----------------------------------------------------------------------------
(* The end of a process. *)

\* handle_command_errors: whatever happened, the metrics are sent, then exit.
Finish(p) ==
    /\ At(p, "finish")
    /\ proc' = [proc EXCEPT ![p].pc = "exit",
                            ![p].sent = IsEnabled(proc[p], proc[p].mode)]
    /\ UNCHANGED <<files, job, day>>

Kill(p) ==
    /\ ~At(p, "exit") /\ ~At(p, "killed")
    /\ Goes(p, "killed")
    /\ UNCHANGED <<files, job, day>>

\* The cache is a day old: at most once, which is enough for it to expire.
Tomorrow == day = 0 /\ day' = 1 /\ UNCHANGED <<files, job, proc>>

Step(p) ==
    \/ Launch(p) \/ ExecPro(p) \/ ReadState(p) \/ Save(p) \/ Replace(p)
    \/ Authenticate(p)
    \/ Configure(p) \/ Resolve(p) \/ LocateEngine(p) \/ RunEngine(p)
    \/ ReadCache(p) \/ OpenCache(p) \/ CloseCache(p)
    \/ Login(p) \/ Poll(p) \/ Sleep(p) \/ Verify(p)
    \/ Publish(p) \/ Upload(p)
    \/ Install(p) \/ Downloaded(p) \/ TryDownload(p) \/ Unlink(p) \/ Rename(p)
    \/ Stamp(p)
    \/ Finish(p)

Next == Tomorrow \/ \E p \in Procs : Step(p) \/ Kill(p)

\* Each process is scheduled by the operating system, and its requests have
\* time limits (session.py:195).
Spec == Init /\ [][Next]_vars /\ \A p \in Procs : WF_vars(Step(p))

-----------------------------------------------------------------------------
(* Properties *)

\* However processes interleave, and wherever one is killed, nobody meets a
\* settings file that is half written (settings.py:133), and no answer of the
\* version check is shown that no server gave.
WholeDocumentsUsed ==
    /\ file.kind # "half"
    /\ \A p \in Procs : proc[p].shown.kind # "half"

\* A process that nobody overtook keeps the token and the notice it found in
\* the settings, unless it logs in: saving the defaults at each start takes
\* nothing away.
SavedSettingsKept ==
    [][\A p \in Procs :
          (/\ At(p, "replace") /\ ~At(p, "replace")'
           /\ job[p].cmd # "login" /\ proc[p].base = file /\ file.kind = "doc")
          => /\ file.token # None => file'.token = file.token
             /\ file.notified => file'.notified]_vars

\* The Pro engine that runs was downloaded whole, answered -pro_version and
\* belongs to this version, though it is looked up before it is run and an
\* installation may be killed at any step.
OnlyCheckedBinariesRun == \A p \in Procs : proc[p].ran \in {"none", "good"}
=============================================================================
