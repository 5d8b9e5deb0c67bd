--------------------------- MODULE LanguageServer ---------------------------
(***************************************************************************)
(* The language server (src/lsp_legacy): what the editor of the user shows *)
(* against what is on disk, while scans run.                               *)
(*                                                                         *)
(* One loop (Legacy_rpc_server.start) handles messages one by one, and     *)
(* never waits for what it started: the reply of a message is a promise    *)
(* that runs on, with the session of the time of its message, while later  *)
(* messages are handled.  A reply scans in one of `jobs` threads and       *)
(* publishes diagnostics when the scan is over.  Replies interleave at     *)
(* their awaits only: what is between two awaits is one action here.       *)
(*                                                                         *)
(* A session is copied when it changes (ignored, onlyDirty), but its       *)
(* tables and its session_cache (targets, scans, rules, openDocs) are      *)
(* shared by all copies.                                                   *)
(*                                                                         *)
(* A finding is abstracted to what it was computed from: every version of  *)
(* a file has one, of one fingerprint, whatever the rules.  Scans of the   *)
(* engine do not raise: it reports its errors as results.                  *)
(***************************************************************************)
EXTENDS Naturals, Sequences, FiniteSets

CONSTANTS
    Files,        \* the files of the workspace
    Committed,    \* Committed[f]: the version of f in git, 0 when untracked
    Loaded,       \* the files whose finding the user ignored in an earlier session
    Configs,      \* the kinds of client and server to check
    MaxVersion,   \* bound: versions of a file
    MaxRules,     \* bound: versions of the rules in the registry
    MaxReplies    \* bound: replies that run at the same time

Messages == {"open", "save", "close", "create", "appear", "delete",
             "ignore", "scanWorkspace", "refreshRules", "exit"}

Slots == 1..MaxReplies

ASSUME LanguageServerAssumption ==
    /\ Committed \in [Files -> {0, 1}]
    /\ Loaded \subseteq Files
    /\ Configs \subseteq [waits : {"never", "rules", "always"}, jobs : Nat \ {0},
                          messages : SUBSET Messages]
    /\ {MaxVersion, MaxRules, MaxReplies} \subseteq Nat \ {0}

VARIABLES
    config,     \* how patient the client is, the threads, the messages it sends
    (* The client and its machine. *)
    disk,       \* the version of each file, 0 when it does not exist
    opened,     \* the documents open in the editor
    shown,      \* the diagnostics the editor shows for each file
    registry,   \* the version of the rules in the registry
    (* The server. *)
    state,      \* server.state
    ready,      \* the Initialized notification was handled
    ignored,    \* session.skipped_local_fingerprints
    onlyDirty,  \* session.user_settings.only_git_dirty
    targets,    \* session.cached_workspace_targets
    scans,      \* session.cached_scans
    rules,      \* cached_session.rules, 0 while not initialized
    openDocs,   \* cached_session.open_documents
    (* The replies in flight. *)
    replies,
    waiting,    \* those that wait for a thread, in order
    (* History, which nothing reads. *)
    raced,      \* the files of which two replies ran at the same time
    late        \* the documents whose opening and closing ran at the same time

clientVars == <<config, disk, opened, registry, raced, late>>
sessionVars == <<state, ready, ignored, onlyDirty>>
cacheVars == <<targets, scans, rules, openDocs>>
replyVars == <<replies, waiting>>
vars == <<clientVars, shown, sessionVars, cacheVars, replyVars>>

Never == [scan |-> "never"]      \* no entry
Clean == [scan |-> "clean"]      \* no match
Found(v, r) == [scan |-> "found", version |-> v, rules |-> r]
NoReply == [kind |-> "none"]

Existing(d) == {f \in Files : d[f] > 0}
Dirty(f, d) == d[f] # Committed[f]

Session == [ignored |-> ignored, onlyDirty |-> onlyDirty]

(* Legacy_session.targets: the cached targets that are dirty, if need be.  *)
TargetsOf(s, d) == {f \in targets : s.onlyDirty => Dirty(f, d)}

(* Legacy_session.scanned_files.                                           *)
Scanned(sc) == {f \in Files : sc[f] # Never}

Init ==
    /\ config \in Configs
    /\ disk \in [Files -> {0, 1}]
    /\ opened = {}
    /\ shown = [f \in Files |-> Clean]
    /\ registry = 1
    /\ state = "Uninitialized"
    /\ ready = FALSE
    /\ ignored = {}
    /\ onlyDirty = TRUE
    /\ targets = {}
    /\ scans = [f \in Files |-> Never]
    /\ rules = 0
    /\ openDocs = {}
    /\ replies = [i \in Slots |-> NoReply]
    /\ waiting = <<>>
    /\ raced = {}
    /\ late = {}

-----------------------------------------------------------------------------
(* Replies. *)

Free == {i \in Slots : replies[i] = NoReply}
Active == Slots \ Free

(* Lwt.dont_wait: a new reply, which runs at once to its first await.      *)
Spawn(kind, step, file, files, s) ==
    /\ Free # {}
    /\ LET i == CHOOSE j \in Free : TRUE
       IN  /\ replies' = [replies EXCEPT ![i] =
                [kind |-> kind, step |-> step, file |-> file, files |-> files,
                 session |-> s, rules |-> 0, found |-> [f \in {} |-> Clean],
                 publish |-> {}]]
           /\ waiting' = IF step = "queued" THEN Append(waiting, i) ELSE waiting

(* The replies in flight that publish, record or forget something of f.    *)
Touches(i, f) == replies[i].kind \in {"refresh", "workspace"} \/ replies[i].file = f
Touched(f) == \E i \in Active: Touches(i, f)

(* Scans of single files that share one thread come out as they went in.   *)
InTurn(i) == config.jobs = 1 /\ replies[i].kind \in {"file", "open"}

(* The reply of a message about one file: rescan it (scan_file).  When it  *)
(* is not a target the targets are computed again, but it is looked up in  *)
(* the list read before that.                                              *)
ScanFile(kind, f, s) ==
    LET isTarget == f \in TargetsOf(s, disk')
        crosses == \E i \in Active: Touches(i, f) /\ ~InTurn(i)
    IN  /\ targets' = IF isTarget THEN targets ELSE Existing(disk')
        /\ raced' = IF crosses \/ f \notin targets THEN raced \cup {f} ELSE raced \ {f}
        /\ Spawn(kind, "queued", f, IF isTarget THEN {f} ELSE {}, s)

(* The open documents are told of f by a reply that is still running.      *)
Opening(f) == \E i \in Active: replies[i].kind = "open" /\ replies[i].file = f
Deleting(f) == \E i \in Active: replies[i].kind = "delete" /\ f \in replies[i].files
Overtakes(f, busy) == late' = IF busy THEN late \cup {f} ELSE late \ {f}

At(i, kinds, step) ==
    /\ replies[i].kind \in kinds
    /\ replies[i].step = step

Step(i, step) == replies' = [replies EXCEPT ![i].step = step]
End(i) == replies' = [replies EXCEPT ![i] = NoReply]

-----------------------------------------------------------------------------
(* Messages. *)

Quiet == Active = {}

MaySend(m) ==
    /\ state = "Running"
    /\ ready
    /\ m \in config.messages
    /\ config.waits = "rules" => rules > 0 /\ \A i \in Active: replies[i].kind # "refresh"
    /\ config.waits = "always" => Quiet

Initialize ==
    /\ state = "Uninitialized"
    /\ state' = "Running"
    /\ targets' = Existing(disk)
    /\ UNCHANGED <<clientVars, shown, ready, ignored, onlyDirty, scans, rules, openDocs, replyVars>>

Initialized ==
    /\ state = "Running"
    /\ ~ready
    /\ ready' = TRUE
    /\ ignored' = Loaded
    /\ Spawn("refresh", "fetch", "none", {}, Session)
    /\ UNCHANGED <<clientVars, shown, state, onlyDirty, cacheVars>>

DidOpen(f) ==
    /\ MaySend("open")
    /\ disk[f] > 0
    /\ f \notin opened
    /\ opened' = opened \cup {f}
    /\ UNCHANGED disk
    /\ ScanFile("open", f, Session)
    /\ Overtakes(f, Deleting(f))
    /\ UNCHANGED <<config, registry, shown, sessionVars, scans, rules, openDocs>>

DidSave(f) ==
    /\ MaySend("save")
    /\ f \in opened
    /\ disk[f] < MaxVersion
    /\ disk' = [disk EXCEPT ![f] = @ + 1]
    /\ ScanFile("file", f, Session)
    /\ UNCHANGED <<config, opened, registry, late, shown, sessionVars, scans, rules, openDocs>>

(* Mutant of DidClose: the document stays among the open ones.             *)
DidCloseQuietly(f) ==
    /\ MaySend("close")
    /\ f \in opened
    /\ opened' = opened \ {f}
    /\ Overtakes(f, Opening(f))
    /\ UNCHANGED <<config, disk, registry, raced, shown, sessionVars, cacheVars, replyVars>>

(* remove_open_document, which finds the lock free.                        *)
DidClose(f) ==
    /\ MaySend("close")
    /\ f \in opened
    /\ opened' = opened \ {f}
    /\ openDocs' = openDocs \ {f}
    /\ Overtakes(f, Opening(f))
    /\ UNCHANGED <<config, disk, registry, raced, shown, sessionVars, targets, scans, rules, replyVars>>

DidCreate(f) ==
    /\ MaySend("create")
    /\ disk[f] = 0
    /\ disk' = [disk EXCEPT ![f] = 1]
    /\ targets' = Existing(disk')
    /\ UNCHANGED <<config, opened, registry, raced, late, shown, sessionVars, scans, rules, openDocs,
                   replyVars>>

(* A file appears with no message: a checkout, another program.            *)
Appear(f) ==
    /\ MaySend("appear")
    /\ disk[f] = 0
    /\ disk' = [disk EXCEPT ![f] = 1]
    /\ UNCHANGED <<config, opened, registry, raced, late, shown, sessionVars, cacheVars, replyVars>>

(* The diagnostics of the scanned files that are gone are cleared, and     *)
(* then these are no longer open.                                          *)
DidDelete(f) ==
    /\ MaySend("delete")
    /\ disk[f] > 0
    /\ disk' = [disk EXCEPT ![f] = 0]
    /\ opened' = opened \ {f}
    /\ targets' = Existing(disk')
    /\ LET paths == {f} \cap Scanned(scans)
       IN  /\ shown' = [g \in Files |-> IF g \in paths THEN Clean ELSE shown[g]]
           /\ Spawn("delete", "forget", f, paths, Session)
    /\ Overtakes(f, Opening(f))
    /\ UNCHANGED <<config, registry, raced, sessionVars, scans, rules, openDocs>>

(* The ignore command on a finding the editor shows: the new session scans *)
(* the file again.                                                         *)
Ignore(f) ==
    /\ MaySend("ignore")
    /\ shown[f].scan = "found"
    /\ ignored' = ignored \cup {f}
    /\ UNCHANGED disk
    /\ ScanFile("file", f, [Session EXCEPT !.ignored = ignored'])
    /\ UNCHANGED <<config, opened, registry, late, shown, state, ready, onlyDirty, scans, rules,
                   openDocs>>

(* semgrep/scanWorkspace, of all files or of the dirty ones; while there   *)
(* are no rules the client is told to wait, and nothing changes.           *)
ScanWorkspace(full) ==
    /\ MaySend("scanWorkspace")
    /\ rules > 0
    /\ onlyDirty' = ~full
    /\ Spawn("workspace", "begin", "none", {}, [Session EXCEPT !.onlyDirty = ~full])
    /\ raced' = {f \in Files : Touched(f)}
    /\ UNCHANGED <<config, disk, opened, registry, late, shown, state, ready, ignored, cacheVars>>

RefreshRules ==
    /\ MaySend("refreshRules")
    /\ Spawn("refresh", "fetch", "none", {}, Session)
    /\ raced' = raced \cup {f \in Files : Touched(f) \/ f \notin openDocs}
    /\ UNCHANGED <<config, disk, opened, registry, late, shown, sessionVars, cacheVars>>

(* The loop ends and the process exits, whatever replies still run.        *)
Exit ==
    /\ MaySend("exit")
    /\ state' = "Stopped"
    /\ replies' = [i \in Slots |-> NoReply]
    /\ waiting' = <<>>
    /\ UNCHANGED <<clientVars, shown, ready, ignored, onlyDirty, cacheVars>>

(* The rules of the registry change.                                       *)
Publish ==
    /\ state = "Running"
    /\ registry < MaxRules
    /\ registry' = registry + 1
    /\ UNCHANGED <<config, disk, opened, raced, late, shown, sessionVars, cacheVars, replyVars>>

-----------------------------------------------------------------------------
(* refresh_rules: cache_session fetches and then installs, the progress is *)
(* reported, and the open documents are scanned.                           *)

Fetch(i) ==
    /\ At(i, {"refresh"}, "fetch")
    /\ replies' = [replies EXCEPT ![i].rules = registry, ![i].step = "install"]
    /\ UNCHANGED <<clientVars, shown, sessionVars, cacheVars, waiting>>

(* No network, no such rules: the exception ends the reply.                *)
FetchFails(i) ==
    /\ At(i, {"refresh"}, "fetch")
    /\ End(i)
    /\ UNCHANGED <<clientVars, shown, sessionVars, cacheVars, waiting>>

Install(i) ==
    /\ At(i, {"refresh"}, "install")
    /\ rules' = replies[i].rules
    /\ Step(i, "select")
    /\ UNCHANGED <<clientVars, shown, sessionVars, targets, scans, openDocs, waiting>>

SelectOpenDocs(i) ==
    /\ At(i, {"refresh"}, "select")
    /\ replies' = [replies EXCEPT ![i].step = "begin",
                      ![i].files = openDocs \cap TargetsOf(replies[i].session, disk)]
    /\ UNCHANGED <<clientVars, shown, sessionVars, cacheVars, waiting>>

(* The progress is shown, and the scan waits for a thread.                 *)
Detach(i) ==
    /\ At(i, {"refresh", "workspace"}, "begin")
    /\ Step(i, "queued")
    /\ waiting' = Append(waiting, i)
    /\ UNCHANGED <<clientVars, shown, sessionVars, cacheVars>>

-----------------------------------------------------------------------------
(* run_semgrep, in a thread. *)

Busy == {i \in Active : replies[i].step \in {"scanning", "scanned"}}

(* Mutant of Start: the thread waits for the rules.                        *)
StartWithRules(i) ==
    /\ waiting # <<>>
    /\ i = Head(waiting)
    /\ Cardinality(Busy) < config.jobs
    /\ rules > 0
    /\ waiting' = Tail(waiting)
    /\ LET r == replies[i]
           files == IF r.kind = "workspace" THEN TargetsOf(r.session, disk) ELSE r.files
       IN  replies' = [replies EXCEPT ![i].step = "scanning", ![i].rules = rules,
                           ![i].files = files]
    /\ UNCHANGED <<clientVars, shown, sessionVars, cacheVars>>

(* A thread takes the scan: it reads the rules, and finds the targets when *)
(* it was given none.                                                      *)
Start(i) ==
    /\ waiting # <<>>
    /\ i = Head(waiting)
    /\ Cardinality(Busy) < config.jobs
    /\ waiting' = Tail(waiting)
    /\ LET r == replies[i]
           files == IF r.kind = "workspace" THEN TargetsOf(r.session, disk) ELSE r.files
       IN  replies' = [replies EXCEPT ![i].step = "scanning", ![i].rules = rules,
                           ![i].files = IF rules = 0 THEN {} ELSE files]
    /\ UNCHANGED <<clientVars, shown, sessionVars, cacheVars>>

(* What the scan finds in f, which exists: its finding, unless the user    *)
(* ignores it or it is in lines that did not change.                       *)
Match(r, f) ==
    IF f \in r.session.ignored \/ (r.session.onlyDirty /\ ~Dirty(f, disk))
    THEN Clean
    ELSE Found(disk[f], r.rules)

(* The engine reads the files and the thread is done.                      *)
Scan(i) ==
    /\ i \in Active
    /\ replies[i].step = "scanning"
    /\ LET r == replies[i]
       IN  replies' = [replies EXCEPT ![i].step = "scanned",
                ![i].found = [f \in r.files \cap Existing(disk) |-> Match(r, f)]]
    /\ UNCHANGED <<clientVars, shown, sessionVars, cacheVars, waiting>>

Result(r, f) == IF f \in DOMAIN r.found THEN r.found[f] ELSE Clean

-----------------------------------------------------------------------------
(* The thread is free again, and the reply goes on with its results. *)

(* scan_file: record the results of the file and publish them.             *)
RecordFile(i) ==
    /\ At(i, {"file", "open"}, "scanned")
    /\ LET r == replies[i]
       IN  /\ scans' = [scans EXCEPT ![r.file] = Result(r, r.file)]
           /\ shown' = [shown EXCEPT ![r.file] = Result(r, r.file)]
           /\ IF r.kind = "open" THEN Step(i, "add") ELSE End(i)
    /\ UNCHANGED <<clientVars, sessionVars, targets, rules, openDocs, waiting>>

(* Mutant of RecordScan: only what was scanned now is to be published.     *)
RecordScanOnly(i) ==
    /\ At(i, {"refresh", "workspace"}, "scanned")
    /\ LET found == replies[i].found
       IN  /\ scans' = [f \in Files |-> IF f \in DOMAIN found THEN found[f] ELSE scans[f]]
           /\ replies' = [replies EXCEPT ![i].step = "publish", ![i].publish = DOMAIN found]
    /\ UNCHANGED <<clientVars, shown, sessionVars, targets, rules, openDocs, waiting>>

(* scan_something: record the results and end the progress.                *)
RecordScan(i) ==
    /\ At(i, {"refresh", "workspace"}, "scanned")
    /\ LET found == replies[i].found
       IN  /\ scans' = [f \in Files |-> IF f \in DOMAIN found THEN found[f] ELSE scans[f]]
           /\ replies' = [replies EXCEPT ![i].step = "publish", ![i].publish = Scanned(scans')]
    /\ UNCHANGED <<clientVars, shown, sessionVars, targets, rules, openDocs, waiting>>

(* Then publish a list for every file that was ever scanned: an empty one  *)
(* clears what the editor shows.                                           *)
PublishScan(i) ==
    /\ At(i, {"refresh", "workspace"}, "publish")
    /\ LET r == replies[i]
       IN  shown' = [f \in Files |-> IF f \in r.publish THEN Result(r, f) ELSE shown[f]]
    /\ End(i)
    /\ UNCHANGED <<clientVars, sessionVars, cacheVars, waiting>>

(* A document counts as open when its first scan is over.                  *)
AddOpenDocument(i) ==
    /\ At(i, {"open"}, "add")
    /\ openDocs' = openDocs \cup {replies[i].file}
    /\ End(i)
    /\ UNCHANGED <<clientVars, shown, sessionVars, targets, scans, rules, waiting>>

RemoveOpenDocuments(i) ==
    /\ At(i, {"delete"}, "forget")
    /\ openDocs' = openDocs \ replies[i].files
    /\ End(i)
    /\ UNCHANGED <<clientVars, shown, sessionVars, targets, scans, rules, waiting>>

-----------------------------------------------------------------------------
Message ==
    \/ Initialize \/ Initialized
    \/ \E f \in Files:
         \/ DidOpen(f) \/ DidSave(f) \/ DidClose(f)
         \/ DidCreate(f) \/ Appear(f) \/ DidDelete(f)
         \/ Ignore(f)
    \/ \E full \in BOOLEAN: ScanWorkspace(full)
    \/ RefreshRules
    \/ Exit

Continue(i) ==
    \/ Fetch(i) \/ FetchFails(i) \/ Install(i) \/ SelectOpenDocs(i) \/ Detach(i)
    \/ Start(i) \/ Scan(i)
    \/ RecordFile(i) \/ RecordScan(i) \/ PublishScan(i)
    \/ AddOpenDocument(i) \/ RemoveOpenDocuments(i)

Next ==
    \/ Message
    \/ Publish
    \/ \E i \in Slots: Continue(i)

(* Lwt resumes every promise whose input is there, and scans end: each of  *)
(* their rules has a time limit.  The client owes nothing.                 *)
Fairness == \A i \in Slots: WF_vars(Continue(i))

Spec == Init /\ [][Next]_vars /\ Fairness

-----------------------------------------------------------------------------
(* Properties *)

AtRest == state = "Running" /\ ready /\ Quiet

(* What a scan of f with the session, the rules and the file of now finds. *)
Expected(f) ==
    IF rules > 0 /\ f \in TargetsOf(Session, disk) \ ignored
    THEN Found(disk[f], rules)
    ELSE Clean

(* When every reply is over, the editor shows for each open document the   *)
(* findings of its present version, by the rules the server has now, less  *)
(* those the user ignored: no scan_file, ignore command, refresh_rules or  *)
(* scanWorkspace left an older result on the screen, and none of them      *)
(* cleared a result that still holds.  This is so of any client but for a  *)
(* document of which two replies ran at the same time, unless both were    *)
(* scans of that file in a single thread, or which was opened while it was *)
(* not yet a target; the next save, alone, puts it right.                  *)
DocumentsAreCurrent ==
    AtRest => \A f \in opened \ raced: shown[f] = Expected(f)

(* When every reply is over, the documents that refresh_rules will scan    *)
(* (cached_session.open_documents) are those that are open in the editor,  *)
(* but for the one that was closed during the first scan of its DidOpen or *)
(* opened again before its DidDeleteFiles was over: no other DidOpen,      *)
(* DidClose or DidDeleteFiles is lost, whatever else runs, and the next    *)
(* one about the document, alone, puts it right.                           *)
OpenDocumentsAgree ==
    AtRest => \A f \in Files \ late: f \in openDocs <=> f \in opened

(* Every reply comes to its end: no scan waits forever for a thread, for   *)
(* the rules or for the lock of the session cache.                         *)
RepliesEnd == \A i \in Slots: i \in Active ~> i \notin Active
=============================================================================
