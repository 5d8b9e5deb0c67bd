------------------------------ MODULE UserFiles ------------------------------
(***************************************************************************)
(* What the commands of the CLI leave on the disk of a user and share with *)
(* each other: the settings (settings.py), the cache of the version check  *)
(* (app/version.py) and the Pro engine with its stamp (commands/install.py,*)
(* engine.py).  A process reads and writes these files in the order of the *)
(* code; nothing locks them.                                               *)
(***************************************************************************)
EXTENDS Naturals, FiniteSets

CONSTANTS
    Procs,          \* processes of the CLI
    Before,         \* the Pro binary an earlier installation left
    None

VARIABLES
    file,           \* the settings file
    cache,          \* the cache file of the version check
    body,           \* what is in each Pro binary, by the process that downloads it
    download,       \* the binary at <pro>.tmp_download
    installed,      \* the binary at <pro>
    stamp           \* pro-installed-by.txt

files == <<file, cache, body, download, installed, stamp>>

Missing == [kind |-> "missing"]
Half == [kind |-> "half"]
Settings(token, notified) ==
    [kind |-> "doc", token |-> token, notified |-> notified]

-----------------------------------------------------------------------------
(* The settings. *)

DefaultSettings(env) == Settings(env, FALSE)

\* Mutant of ReadSettings: the defaults hide what the file says.
DefaultsWin(env) ==
    IF file.kind = "doc" /\ env = None
    THEN [file EXCEPT !.token = None]
    ELSE DefaultSettings(env)

\* What the file says goes over the defaults; a file that is no mapping, or
\* that cannot be read, counts for nothing.
ReadSettings(env) ==
    IF file.kind # "doc" THEN DefaultSettings(env)
    ELSE [file EXCEPT !.token = IF @ = None THEN env ELSE @]

\* The contents go to a file of this process alone (mkstemp) ...
WriteTemporary == file' = file

\* ... which takes the place of the settings file in one step (os.replace).
ReplaceSettings(copy) == file' = copy

-----------------------------------------------------------------------------
(* The cache of the version check: the time of the check and the answer of *)
(* the server.  It is truncated when it is opened and written when closed. *)

Answer(day) == [kind |-> "doc", day |-> day]

\* Mutant of Parsed: text that does not parse is taken for an answer.
ParsedAnyhow(c, today) == IF c.kind = "missing" THEN Missing ELSE c

\* Nothing is used of a cache of more than a day, or that does not parse.
Parsed(c, today) == IF c.kind = "doc" /\ c.day = today THEN c ELSE Missing

TruncateCache == cache' = Half

\* Another process truncated the file while this one held it open: what is
\* there can be a mix of two answers.
FillCache(answer, alone) ==
    \/ cache' = answer
    \/ ~alone /\ cache' = Half

-----------------------------------------------------------------------------
(* The Pro engine. *)

\* Mutant of StampIsCurrent: any stamp will do.
StampExists == stamp # "missing"

\* check_is_correct_pro_version: the first line of the stamp is __VERSION__.
StampIsCurrent == stamp = "current"

\* get_binary_path of a Pro engine
ProPath == IF StampIsCurrent THEN installed ELSE None

\* The old download is unlinked and a new file is opened in its place.
OpenDownload(p) ==
    /\ download' = p
    /\ body' = [body EXCEPT ![p] = "partial"]

\* The body ends, whole or not: the file descriptor follows a file that has
\* been renamed or unlinked meanwhile.
CloseDownload(p, content) == body' = [body EXCEPT ![p] = content]

\* <pro>.tmp_download -pro_version
VersionCheckOk == download # None /\ body[download] = "good"

UnlinkInstalled == installed' = None

RenameDownload ==
    /\ installed' = download
    /\ download' = None
=============================================================================
