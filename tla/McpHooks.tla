------------------------------ MODULE McpHooks ------------------------------
(***************************************************************************)
(* The hooks of a coding agent (mcp/hooks/*.py, commands/mcp.py), each a   *)
(* process of its own: one records an edited file in a list on the disk,   *)
(* one scans the files of the list when the agent stops, one scans a file  *)
(* after a tool edited it, one adds a README to a prompt.                  *)
(***************************************************************************)
EXTENDS Sequences, FiniteSets, Naturals

CONSTANTS
    Hooks,          \* the hook processes, in the order the agent starts them
    Limit,          \* FILE_EDIT_LIMIT (500 there)
    Paths,          \* the files of the workspace
    BaseName        \* the last component of a path

VARIABLES
    job,            \* what is asked of the hooks and of the server
    edited,         \* the list on the disk; "half" while it cannot be read
    readme,         \* the cached README: "none", "stale", "fresh"
    hook,           \* the processes
    owed,           \* auxiliary: the hooks whose edits no stop hook took yet
    crossed         \* auxiliary: those that met another hook at the list

hookVars == <<edited, readme, hook, owed, crossed>>

HookInit ==
    /\ edited = <<>>
    /\ readme \in job.readme
    /\ hook = [h \in Hooks |->
                 [pc |-> IF job.hooks[h].kind = "idle" THEN "end" ELSE "ready",
                  list |-> <<>>, answer |-> "none", owes |-> {}, scanned |-> {}]]
    /\ owed = {}
    /\ crossed = {}

HookAt(h, l) == hook[h].pc = l
HookEnds(h, answer) ==
    hook' = [hook EXCEPT ![h].pc = "end", ![h].answer = answer]

\* A patient agent starts a hook when the one before it has ended.
MayStart(h) ==
    /\ HookAt(h, "ready")
    /\ job.patient => \A g \in Hooks : g < h => HookAt(g, "end")

\* Each hook works with the input format of one agent, and refuses the other.
StartHook(h) ==
    /\ MayStart(h)
    /\ LET kind == job.hooks[h].kind
           for == IF kind \in {"post", "inject"} THEN "claude" ELSE "cursor"
       IN  IF job.hooks[h].agent # for
           THEN HookEnds(h, "unsupported")
           ELSE hook' = [hook EXCEPT ![h].pc = kind]
    /\ UNCHANGED <<edited, readme, owed, crossed>>

\* Mutant of Appended: the list starts anew with each edit.
OnlyLast(list, path) == <<path>>

Appended(list, path) == Append(list, path)

Holds(list, path) == \E i \in 1 .. Len(list) : list[i] = path

\* Has read the list, and will write or remove what may be another by then.
AtList(k) == hook[k].pc \in {"open", "write", "orphan", "scan", "clear"}

\* The edit is on record.  (Auxiliary: the next stop hook owes a scan of it,
\* and whether another hook is going to overwrite or remove the record.)
Recorded(h) ==
    /\ HookEnds(h, "recorded")
    /\ owed' = owed \cup {h}
    /\ crossed' = IF HookAt(h, "orphan") \/ \E k \in Hooks \ {h} : AtList(k)
                  THEN crossed \cup {h} ELSE crossed

\* load_edited_file_paths, then the tests of append_edited_file_path.
ReadList(h) ==
    /\ HookAt(h, "record")
    /\ LET path == job.hooks[h].path IN
       \/ edited = <<"half">> /\ HookEnds(h, "failed") /\ UNCHANGED <<owed, crossed>>
       \/ /\ edited # <<"half">> /\ Len(edited) >= Limit
          /\ HookEnds(h, "ignored") /\ UNCHANGED <<owed, crossed>>
       \/ /\ edited # <<"half">> /\ Len(edited) < Limit /\ Holds(edited, path)
          /\ Recorded(h)
       \/ /\ edited # <<"half">> /\ Len(edited) < Limit /\ ~Holds(edited, path)
          /\ hook' = [hook EXCEPT ![h].pc = "open", ![h].list = Appended(edited, path)]
          /\ UNCHANGED <<owed, crossed>>
    /\ UNCHANGED <<edited, readme>>

\* open(..., "w") leaves an empty file.
OpenList(h) ==
    /\ HookAt(h, "open")
    /\ edited' = <<"half">>
    /\ hook' = [hook EXCEPT ![h].pc = "write"]
    /\ UNCHANGED <<readme, owed, crossed>>

\* What another process wrote since the file was opened is overwritten, and
\* what is longer than the new list leaves its end behind.
WriteList(h) ==
    /\ HookAt(h, "write")
    /\ edited' = hook[h].list \/ (edited # <<"half">> /\ edited' = <<"half">>)
    /\ Recorded(h)
    /\ UNCHANGED readme

\* The file has been removed since it was opened.
WriteToNoFile(h) ==
    /\ HookAt(h, "orphan")
    /\ Recorded(h)
    /\ UNCHANGED <<edited, readme>>

\* path is in the list and another file with its base name comes after it.
Displaced(list, path) ==
    \E i, k \in 1 .. Len(list) :
        /\ i < k /\ list[i] = path /\ list[k] # path
        /\ BaseName[list[k]] = BaseName[path]

\* Files are written under their base name: the last one of a name stays.
Kept(list) ==
    {list[i] : i \in {j \in 1 .. Len(list) :
        \A k \in j + 1 .. Len(list) :
            BaseName[list[k]] = BaseName[list[j]] => list[k] = list[j]}}

\* validate_local_files: there is at least one, and each can be read.
Valid(list) == list # <<>> /\ \A i \in 1 .. Len(list) : list[i] \notin job.gone

\* The stop hook takes the list and copies the files, then scans the copies.
LoadEdits(h) ==
    /\ HookAt(h, "stop")
    /\ hook' = [hook EXCEPT ![h].list = edited,
                            ![h].pc = IF edited # <<"half">> /\ Valid(edited)
                                      THEN "scan" ELSE "clear",
                            ![h].answer = "failed", ![h].owes = owed]
    /\ owed' = {}
    /\ UNCHANGED <<edited, readme, crossed>>

ScanEdits(h) ==
    /\ HookAt(h, "scan")
    /\ \/ hook' = [hook EXCEPT ![h].pc = "clear"]       \* the scan failed
       \/ \E found \in BOOLEAN :
             hook' = [hook EXCEPT ![h].pc = "clear",
                        ![h].scanned = Kept(hook[h].list),
                        ![h].answer = IF found THEN "followup" ELSE "quiet"]
    /\ UNCHANGED <<edited, readme, owed, crossed>>

\* finally: the file goes, whatever became of the scan and whoever writes it.
ClearEdits(h) ==
    /\ HookAt(h, "clear")
    /\ edited' = <<>>
    /\ hook' = [k \in Hooks |->
                  [hook[k] EXCEPT !.pc = IF k = h THEN "end"
                                         ELSE IF @ = "write" THEN "orphan" ELSE @]]
    /\ UNCHANGED <<readme, owed, crossed>>

\* The file is scanned where it is; findings block the tool.
PostTool(h) ==
    /\ HookAt(h, "post")
    /\ \E answer \in {"block", "quiet", "failed"} : HookEnds(h, answer)
    /\ UNCHANGED <<edited, readme, owed, crossed>>

\* A README of less than a day, else the one of the network, else a fixed text.
InjectDefaults(h) ==
    /\ HookAt(h, "inject")
    /\ IF job.hooks[h].short THEN HookEnds(h, "fallback") /\ UNCHANGED readme
       ELSE IF readme = "fresh" THEN HookEnds(h, "readme") /\ UNCHANGED readme
       ELSE \/ readme' = "fresh" /\ HookEnds(h, "readme")
            \/ HookEnds(h, "fallback") /\ UNCHANGED readme
    /\ UNCHANGED <<edited, owed, crossed>>

HookStep(h) ==
    \/ StartHook(h) \/ ReadList(h) \/ OpenList(h) \/ WriteList(h) \/ WriteToNoFile(h)
    \/ LoadEdits(h) \/ ScanEdits(h) \/ ClearEdits(h)
    \/ PostTool(h) \/ InjectDefaults(h)

\* A stop hook that answers has scanned every edit put on record before it took
\* the list and after the stop hook before took it, however the hooks overlap
\* otherwise and whatever scans failed before.  Two kinds are lost: an edit
\* recorded while another hook had read the list and was still to write or to
\* remove it (stop.py:66-78, 124-151), and one of a file in the list before
\* another of its base name (server.py:276-278).
EditsAreScanned ==
    \A h \in Hooks :
        job.hooks[h].kind = "stop" /\ hook[h].answer \in {"followup", "quiet"}
        => \A g \in hook[h].owes \ crossed :
              \/ job.hooks[g].path \in hook[h].scanned
              \/ Displaced(hook[h].list, job.hooks[g].path)
=============================================================================
