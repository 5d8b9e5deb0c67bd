-------------------------- MODULE UserStateProofs --------------------------
(***************************************************************************)
(* What holds of the commands a user runs side by side, however many there *)
(* are, however they interleave and wherever one is killed: the settings a *)
(* process writes back, the answers it shows, and the Pro engine it runs.  *)
(***************************************************************************)
EXTENDS UserState, TLAPS

IsDoc(c) == c \in [kind : {"doc"}, token : {c.token}, notified : {c.notified}]

IsProc(q) ==
    q \in [pc : {q.pc}, then : {q.then}, copy : {q.copy}, base : {q.base},
           token : {q.token}, registry : {q.registry}, mode : {q.mode}, left : {q.left},
           asked : {q.asked}, failed : {q.failed}, refused : {q.refused},
           opened : {q.opened}, ran : {q.ran}, findings : {q.findings},
           shown : {q.shown}, rounds : {q.rounds}, sent : {q.sent}, code : {q.code}]

ProcTypes ==
    /\ proc = [p \in Procs |-> proc[p]]
    /\ \A p \in Procs : IsProc(proc[p])

(* The settings file is missing, no mapping, or a whole document.          *)
SettingsFile ==
    /\ file.kind \in {"missing", "garbage", "doc"}
    /\ file.kind = "doc" => IsDoc(file)

Logging == {"login", "poll", "sleep", "verify"}
Installing == {"install", "download", "try", "unlink", "rename", "stamp"}

(* A process is in the part of its own command; what it saves is a whole   *)
(* document.                                                               *)
Flow(p) ==
    /\ job[p].cmd \in {"scan", "login", "publish", "install"}
    /\ proc[p].then \in {"none", "auth", "resolve", "finish"}
    /\ proc[p].pc \in Logging => job[p].cmd = "login"
    /\ proc[p].pc \in Installing => job[p].cmd = "install"
    /\ proc[p].pc \notin {"launch", "exec", "start", "exit", "killed"} => IsDoc(proc[p].copy)

(* The copy of a process that does not log in has what it read.            *)
KeepsBase(p) ==
    proc[p].base.kind = "doc" /\ job[p].cmd # "login" =>
        /\ proc[p].base.token # None => proc[p].copy.token = proc[p].base.token
        /\ proc[p].base.notified => proc[p].copy.notified

Shows(p) == proc[p].shown.kind # "half"

Local(p) == Flow(p) /\ KeepsBase(p) /\ Shows(p)

SettingsInv == ProcTypes /\ SettingsFile /\ \A p \in Procs : Local(p)

-----------------------------------------------------------------------------
(* Most steps of a process move it and leave alone what it read, saves,    *)
(* shows and has run.                                                      *)
Quietly(p, l) ==
    /\ ProcTypes'
    /\ \A o \in Procs \ {p} : proc'[o] = proc[o]
    /\ proc'[p].pc = l /\ proc'[p].then = proc[p].then
    /\ proc'[p].copy = proc[p].copy /\ proc'[p].base = proc[p].base
    /\ proc'[p].ran = proc[p].ran /\ proc'[p].shown = proc[p].shown

LEMMA GoesQuietly ==
  ASSUME ProcTypes, NEW p \in Procs, NEW l, Goes(p, l)
  PROVE  Quietly(p, l)
BY DEF Goes, ProcTypes, IsProc, Quietly

LEMMA LeavesQuietly ==
  ASSUME ProcTypes, NEW p \in Procs, NEW code, Leaves(p, code)
  PROVE  Quietly(p, "finish")
BY DEF Leaves, ProcTypes, IsProc, Quietly

(* The steps of a command that only move it.                               *)
LEMMA QuietSteps ==
  ASSUME ProcTypes, NEW p \in Procs
  PROVE  /\ Launch(p) => \E l \in {"exec", "exit", "start"} : Quietly(p, l)
         /\ Authenticate(p) => Quietly(p, job[p].cmd)
         /\ Resolve(p) => \E l \in {"locate", "finish"} : Quietly(p, l)
         /\ LocateEngine(p) => \E l \in {"run", "finish"} : Quietly(p, l)
         /\ OpenCache(p) => Quietly(p, "fill")
         /\ CloseCache(p) => \E l \in {"finish", "check"} : Quietly(p, l)
         /\ Login(p) => \E l \in {"finish", "verify", "poll"} : Quietly(p, l)
         /\ Poll(p) => \E l \in {"verify", "sleep", "finish"} : Quietly(p, l)
         /\ Sleep(p) => \E l \in {"finish", "poll"} : Quietly(p, l)
         /\ Publish(p) => \E l \in {"finish", "upload"} : Quietly(p, l)
         /\ Upload(p) => \E l \in {"finish", "upload"} : Quietly(p, l)
         /\ Install(p) => \E l \in {"finish", "download"} : Quietly(p, l)
         /\ Downloaded(p) => \E l \in {"try", "finish"} : Quietly(p, l)
         /\ TryDownload(p) => \E l \in {"unlink", "finish"} : Quietly(p, l)
         /\ Unlink(p) => Quietly(p, "rename")
         /\ Rename(p) => \E l \in {"finish", "stamp"} : Quietly(p, l)
         /\ Stamp(p) => \E l \in {"finish", "stamp"} : Quietly(p, l)
         /\ Finish(p) => Quietly(p, "exit")
         /\ Kill(p) => Quietly(p, "killed")
<1>1. Launch(p) => \E l \in {"exec", "exit", "start"} : Quietly(p, l)
  BY GoesQuietly DEF Launch, ProcTypes, IsProc, Quietly
<1>2. Authenticate(p) => Quietly(p, job[p].cmd)
  <2>1. ASSUME NEW l, NEW x, proc' = [proc EXCEPT ![p].pc = l, ![p].token = x]
        PROVE  Quietly(p, l)
    BY <2>1 DEF ProcTypes, IsProc, Quietly
  <2> QED BY ONLY <2>1 DEF Authenticate
<1>3. Resolve(p) => \E l \in {"locate", "finish"} : Quietly(p, l)
  BY DEF Resolve, ProcTypes, IsProc, Quietly
<1>4. LocateEngine(p) => \E l \in {"run", "finish"} : Quietly(p, l)
  BY GoesQuietly, LeavesQuietly DEF LocateEngine
<1>5. OpenCache(p) => Quietly(p, "fill")
  BY GoesQuietly DEF OpenCache
<1>6. CloseCache(p) => \E l \in {"finish", "check"} : Quietly(p, l)
  BY GoesQuietly DEF CloseCache
<1>7. Login(p) => \E l \in {"finish", "verify", "poll"} : Quietly(p, l)
  BY LeavesQuietly DEF Login, ProcTypes, IsProc, Quietly
<1>8. Poll(p) => \E l \in {"verify", "sleep", "finish"} : Quietly(p, l)
  <2>1. ASSUME NEW x, proc' = [proc EXCEPT ![p].pc = "verify", ![p].asked = x]
        PROVE  Quietly(p, "verify")
    BY <2>1 DEF ProcTypes, IsProc, Quietly
  <2> QED BY <2>1, GoesQuietly, LeavesQuietly DEF Poll
<1>9. Sleep(p) => \E l \in {"finish", "poll"} : Quietly(p, l)
  BY LeavesQuietly DEF Sleep, ProcTypes, IsProc, Quietly
<1>10. Publish(p) => \E l \in {"finish", "upload"} : Quietly(p, l)
  BY LeavesQuietly DEF Publish, ProcTypes, IsProc, Quietly
<1>11. Upload(p) => \E l \in {"finish", "upload"} : Quietly(p, l)
  <2>1. ASSUME NEW ok \in BOOLEAN, proc[p].pc = "upload",
               proc' = [proc EXCEPT ![p].left = @ - 1, ![p].refused = @ \/ ~ok,
                                    ![p].failed = CountFailure(p, ok)]
        PROVE  Quietly(p, "upload")
    BY <2>1 DEF ProcTypes, IsProc, Quietly
  <2> QED BY <2>1, LeavesQuietly DEF Upload, At
<1>12. Install(p) => \E l \in {"finish", "download"} : Quietly(p, l)
  BY GoesQuietly, LeavesQuietly DEF Install
<1>13. Downloaded(p) => \E l \in {"try", "finish"} : Quietly(p, l)
  BY GoesQuietly, LeavesQuietly DEF Downloaded
<1>14. TryDownload(p) => \E l \in {"unlink", "finish"} : Quietly(p, l)
  BY GoesQuietly, LeavesQuietly DEF TryDownload
<1>15. Unlink(p) => Quietly(p, "rename")
  BY GoesQuietly DEF Unlink
<1>16. Rename(p) => \E l \in {"finish", "stamp"} : Quietly(p, l)
  BY GoesQuietly, LeavesQuietly DEF Rename
<1>17. Stamp(p) => \E l \in {"finish", "stamp"} : Quietly(p, l)
  BY LeavesQuietly DEF Stamp, At, ProcTypes, IsProc, Quietly
<1>18. Finish(p) => Quietly(p, "exit")
  <2>1. ASSUME NEW b \in BOOLEAN, proc' = [proc EXCEPT ![p].pc = "exit", ![p].sent = b]
        PROVE  Quietly(p, "exit")
    BY <2>1 DEF ProcTypes, IsProc, Quietly
  <2>2. IsEnabled(proc[p], proc[p].mode) \in BOOLEAN
    BY DEF IsEnabled
  <2> QED BY ONLY <2>1, <2>2 DEF Finish
<1>19. Kill(p) => Quietly(p, "killed")
  BY GoesQuietly DEF Kill
<1> QED BY <1>1, <1>2, <1>3, <1>4, <1>5, <1>6, <1>7, <1>8, <1>9, <1>10, <1>11, <1>12,
           <1>13, <1>14, <1>15, <1>16, <1>17, <1>18, <1>19

-----------------------------------------------------------------------------
(* The settings.                                                           *)

(* A step that only moves a process keeps the invariant where the process  *)
(* stays in its command and does not save what it has not read.            *)
LEMMA QuietKeepsSettings ==
  ASSUME SettingsInv, NEW p \in Procs, NEW l, Quietly(p, l), SettingsFile', UNCHANGED job,
         l \in Logging => job[p].cmd = "login",
         l \in Installing => job[p].cmd = "install",
         \/ l \in {"launch", "exec", "start", "exit", "killed"}
         \/ proc[p].pc \notin {"launch", "exec", "start", "exit", "killed"}
  PROVE  SettingsInv'
<1>1. Local(p)'
  BY DEF SettingsInv, Local, Flow, KeepsBase, Shows, Quietly
<1>2. \A o \in Procs \ {p} : Local(o)'
  BY DEF SettingsInv, Local, Flow, KeepsBase, Shows, Quietly
<1> QED BY <1>1, <1>2 DEF SettingsInv, Quietly

LEMMA InitSettings == Init => SettingsInv
<1> SUFFICES ASSUME Init PROVE SettingsInv
  OBVIOUS
<1>1. ProcTypes
  BY DEF Init, Idle, ProcTypes, IsProc
<1>2. SettingsFile
  <2>1. PICK s \in Starts : file = s.file
    BY DEF Init
  <2>2. /\ file.kind \in {"missing", "garbage", "doc"}
        /\ file.kind = "doc" => file = Settings(file.token, file.notified)
    BY <2>1, UserStateAssumption
  <2>3. ASSUME NEW t, NEW n, file = Settings(t, n) PROVE IsDoc(file)
    BY <2>3 DEF Settings, IsDoc
  <2> QED BY <2>2, <2>3 DEF SettingsFile
<1>3. ASSUME NEW p \in Procs PROVE Local(p)
  BY <1>3, UserStateAssumption
     DEF Init, Idle, Local, Flow, KeepsBase, Shows, Missing, Logging, Installing
<1> QED BY <1>1, <1>2, <1>3 DEF SettingsInv

LEMMA ExecProEffect ==
  ASSUME ProcTypes, NEW p \in Procs, ExecPro(p)
  PROVE  /\ ProcTypes'
         /\ \A o \in Procs \ {p} : proc'[o] = proc[o]
         /\ proc'[p].pc \in {"exit", "start"} /\ proc'[p].then = proc[p].then
         /\ proc'[p].copy = proc[p].copy /\ proc'[p].base = proc[p].base
         /\ proc'[p].shown = proc[p].shown
         /\ \/ proc'[p].ran = proc[p].ran
            \/ installed # None /\ proc'[p].ran = body[installed]
<1>1. CASE installed = None
  BY <1>1 DEF ExecPro, ProcTypes, IsProc
<1>2. CASE installed # None
  BY <1>2 DEF ExecPro, ProcTypes, IsProc
<1> QED BY <1>1, <1>2

LEMMA RunEngineEffect ==
  ASSUME ProcTypes, NEW p \in Procs, RunEngine(p)
  PROVE  /\ ProcTypes'
         /\ \A o \in Procs \ {p} : proc'[o] = proc[o]
         /\ proc'[p].pc \in {"finish", "check"} /\ proc'[p].then = proc[p].then
         /\ proc'[p].copy = proc[p].copy /\ proc'[p].base = proc[p].base
         /\ proc'[p].shown = proc[p].shown
         /\ \/ proc'[p].ran = proc[p].ran
            \/ job[p].pro /\ installed # None /\ proc'[p].ran = body[installed]
<1>1. CASE Leaves(p, 2)
  BY <1>1, LeavesQuietly DEF Quietly
<1>2. ASSUME NEW found \in BOOLEAN, job[p].pro => installed # None,
             proc' = [proc EXCEPT ![p].pc = "check", ![p].rounds = 2,
                                  ![p].ran = IF job[p].pro THEN body[installed] ELSE @,
                                  ![p].findings = found,
                                  ![p].code = IF found THEN 1 ELSE 0]
      PROVE  /\ ProcTypes'
             /\ \A o \in Procs \ {p} : proc'[o] = proc[o]
             /\ proc'[p].pc = "check" /\ proc'[p].then = proc[p].then
             /\ proc'[p].copy = proc[p].copy /\ proc'[p].base = proc[p].base
             /\ proc'[p].shown = proc[p].shown
             /\ proc'[p].ran = IF job[p].pro THEN body[installed] ELSE proc[p].ran
  <2> DEFINE ran == IF job[p].pro THEN body[installed] ELSE proc[p].ran
             code == IF found THEN 1 ELSE 0
             q == [proc[p] EXCEPT !.pc = "check", !.rounds = 2, !.ran = ran]
             r == [q EXCEPT !.findings = found, !.code = code]
  <2>1. IsProc(proc[p])
    BY DEF ProcTypes
  <2>2. proc' = [proc EXCEPT ![p] = r]
    BY <1>2 DEF ProcTypes
  <2> HIDE DEF ran, code
  <2>3. /\ IsProc(q) /\ q.pc = "check" /\ q.then = proc[p].then /\ q.copy = proc[p].copy
        /\ q.base = proc[p].base /\ q.shown = proc[p].shown /\ q.ran = ran
    BY <2>1 DEF IsProc
  <2> HIDE DEF q
  <2>4. /\ IsProc(r) /\ r.pc = q.pc /\ r.then = q.then /\ r.copy = q.copy
        /\ r.base = q.base /\ r.shown = q.shown /\ r.ran = q.ran
    BY <2>3 DEF IsProc
  <2> HIDE DEF r
  <2> QED BY <2>2, <2>3, <2>4 DEF ProcTypes, ran
<1> QED BY <1>1, <1>2 DEF RunEngine

LEMMA ReadStateEffect ==
  ASSUME ProcTypes, SettingsFile, NEW p \in Procs, ReadState(p)
  PROVE  /\ ProcTypes'
         /\ \A o \in Procs \ {p} : proc'[o] = proc[o]
         /\ proc'[p].pc = "save" /\ proc'[p].then = "auth" /\ proc'[p].base = file
         /\ IsDoc(proc'[p].copy)
         /\ file.kind = "doc" => /\ file.token # None => proc'[p].copy.token = file.token
                                /\ proc'[p].copy.notified = file.notified
         /\ proc'[p].ran = proc[p].ran /\ proc'[p].shown = proc[p].shown
<1> DEFINE copy == ReadSettings(job[p].env)
<1>1. IsDoc(copy)
  <2>1. CASE file.kind # "doc"
    BY <2>1 DEF ReadSettings, DefaultSettings, Settings, IsDoc
  <2>2. CASE file.kind = "doc"
    BY <2>2 DEF ReadSettings, SettingsFile, IsDoc
  <2> QED BY <2>1, <2>2
<1>2. file.kind = "doc" => /\ file.token # None => copy.token = file.token
                         /\ copy.notified = file.notified
  BY DEF ReadSettings, SettingsFile, IsDoc
<1>3. proc' = [proc EXCEPT ![p].pc = "save", ![p].then = "auth", ![p].base = file,
                           ![p].copy = copy]
  BY DEF ReadState
<1> HIDE DEF copy
<1>4. /\ ProcTypes'
      /\ \A o \in Procs \ {p} : proc'[o] = proc[o]
      /\ proc'[p].pc = "save" /\ proc'[p].then = "auth" /\ proc'[p].base = file
      /\ proc'[p].copy = copy
      /\ proc'[p].ran = proc[p].ran /\ proc'[p].shown = proc[p].shown
  <2> DEFINE q == [proc[p] EXCEPT !.pc = "save", !.then = "auth", !.base = file, !.copy = copy]
  <2>1. proc' = [proc EXCEPT ![p] = q]
    BY <1>3 DEF ProcTypes
  <2>2. /\ IsProc(q) /\ q.pc = "save" /\ q.then = "auth" /\ q.base = file /\ q.copy = copy
        /\ q.ran = proc[p].ran /\ q.shown = proc[p].shown
    BY DEF ProcTypes, IsProc
  <2> HIDE DEF q
  <2> QED BY <2>1, <2>2 DEF ProcTypes
<1> QED BY <1>1, <1>2, <1>4

LEMMA ConfigureEffect ==
  ASSUME ProcTypes, NEW p \in Procs, Configure(p), IsDoc(proc[p].copy)
  PROVE  /\ ProcTypes'
         /\ \A o \in Procs \ {p} : proc'[o] = proc[o]
         /\ proc'[p].pc \in {"save", "resolve"}
         /\ proc'[p].then \in {proc[p].then, "resolve"}
         /\ IsDoc(proc'[p].copy)
         /\ proc'[p].copy.token = proc[p].copy.token
         /\ proc[p].copy.notified => proc'[p].copy.notified
         /\ proc'[p].base = proc[p].base
         /\ proc'[p].ran = proc[p].ran /\ proc'[p].shown = proc[p].shown
<1>1. CASE proc' = [proc EXCEPT ![p].pc = "resolve", ![p].mode = job[p].metrics]
  BY <1>1 DEF ProcTypes, IsProc
<1>2. CASE proc' = [proc EXCEPT ![p].pc = "save", ![p].then = "resolve",
                                ![p].mode = job[p].metrics, ![p].copy.notified = TRUE]
  <2> DEFINE copy == [proc[p].copy EXCEPT !.notified = TRUE]
             q == [proc[p] EXCEPT !.pc = "save", !.then = "resolve", !.mode = job[p].metrics,
                                  !.copy = copy]
  <2>1. proc' = [proc EXCEPT ![p] = q]
    BY <1>2 DEF ProcTypes, IsProc
  <2>2. IsDoc(copy) /\ copy.token = proc[p].copy.token /\ copy.notified
    BY DEF IsDoc
  <2> HIDE DEF copy
  <2>3. /\ IsProc(q) /\ q.pc = "save" /\ q.then = "resolve" /\ q.copy = copy
        /\ q.base = proc[p].base /\ q.ran = proc[p].ran /\ q.shown = proc[p].shown
    BY DEF ProcTypes, IsProc
  <2> HIDE DEF q
  <2> QED BY <2>1, <2>2, <2>3 DEF ProcTypes
<1> QED BY <1>1, <1>2 DEF Configure

LEMMA ReadCacheEffect ==
  ASSUME ProcTypes, NEW p \in Procs, ReadCache(p)
  PROVE  /\ ProcTypes'
         /\ \A o \in Procs \ {p} : proc'[o] = proc[o]
         /\ proc'[p].pc \in {"finish", "check", "open"}
         /\ proc'[p].then = proc[p].then
         /\ proc'[p].copy = proc[p].copy /\ proc'[p].base = proc[p].base
         /\ proc'[p].ran = proc[p].ran
         /\ proc'[p].shown = proc[p].shown \/ proc'[p].shown.kind = "doc"
<1> DEFINE q == proc[p]
           Got(answer) ==
               IF answer = Missing
               THEN [q EXCEPT !.rounds = @ - 1,
                              !.pc = IF q.rounds = 1 THEN "finish" ELSE "check"]
               ELSE [q EXCEPT !.rounds = @ - 1, !.pc = "open", !.shown = answer]
<1>1. ASSUME NEW answer, answer = Missing \/ answer.kind = "doc"
      PROVE  /\ IsProc(Got(answer))
             /\ Got(answer).pc \in {"finish", "check", "open"}
             /\ Got(answer).then = q.then /\ Got(answer).copy = q.copy
             /\ Got(answer).base = q.base /\ Got(answer).ran = q.ran
             /\ Got(answer).shown = q.shown \/ Got(answer).shown.kind = "doc"
  <2>1. IsProc(q)
    BY DEF ProcTypes
  <2> HIDE DEF q
  <2>2. CASE answer = Missing
    BY <2>1, <2>2 DEF IsProc
  <2>3. CASE answer # Missing
    BY <1>1, <2>1, <2>3 DEF IsProc
  <2> QED BY <2>2, <2>3
<1>2. PICK answer : /\ answer = Missing \/ answer.kind = "doc"
                    /\ proc' = [proc EXCEPT ![p] = Got(answer)]
  <2>1. Parsed(cache, day) = Missing \/ Parsed(cache, day).kind = "doc"
    BY DEF Parsed
  <2>2. Answer(day).kind = "doc"
    BY DEF Answer
  <2> HIDE DEF Got
  <2>3. \/ proc' = [proc EXCEPT ![p] = Got(Parsed(cache, day))]
        \/ proc' = [proc EXCEPT ![p] = Got(Answer(day))]
        \/ proc' = [proc EXCEPT ![p] = Got(Missing)]
    BY DEF ReadCache, Got
  <2> QED BY <2>1, <2>2, <2>3
<1> DEFINE r == Got(answer)
<1>3. /\ IsProc(r) /\ r.pc \in {"finish", "check", "open"}
      /\ r.then = q.then /\ r.copy = q.copy /\ r.base = q.base /\ r.ran = q.ran
      /\ r.shown = q.shown \/ r.shown.kind = "doc"
  BY <1>1, <1>2
<1>4. proc' = [proc EXCEPT ![p] = r]
  BY <1>2
<1> HIDE DEF r, Got
<1> QED BY <1>3, <1>4 DEF ProcTypes

LEMMA VerifyEffect ==
  ASSUME ProcTypes, NEW p \in Procs, Verify(p), IsDoc(proc[p].copy)
  PROVE  /\ ProcTypes'
         /\ \A o \in Procs \ {p} : proc'[o] = proc[o]
         /\ proc'[p].pc \in {"save", "finish"}
         /\ proc'[p].then \in {proc[p].then, "finish"}
         /\ IsDoc(proc'[p].copy)
         /\ proc'[p].base = proc[p].base
         /\ proc'[p].ran = proc[p].ran /\ proc'[p].shown = proc[p].shown
<1>1. CASE Leaves(p, 2)
  BY <1>1, LeavesQuietly DEF Quietly
<1>2. CASE Saves(p, [proc[p].copy EXCEPT !.token = proc[p].asked], "finish")
  <2> DEFINE copy == [proc[p].copy EXCEPT !.token = proc[p].asked]
  <2>1. IsDoc(copy)
    BY DEF IsDoc
  <2>2. proc' = [proc EXCEPT ![p].pc = "save", ![p].copy = copy, ![p].then = "finish"]
    BY <1>2 DEF Saves
  <2> HIDE DEF copy
  <2> QED BY <2>1, <2>2 DEF ProcTypes, IsProc
<1> QED BY <1>1, <1>2 DEF Verify, SaveToken

(* A step that changes the copy keeps it at least what was read.           *)
LEMMA LoudKeepsSettings ==
  ASSUME SettingsInv, NEW p \in Procs, UNCHANGED job, SettingsFile', ProcTypes',
         \A o \in Procs \ {p} : proc'[o] = proc[o],
         Local(p)'
  PROVE  SettingsInv'
<1>1. \A o \in Procs \ {p} : Local(o)'
  BY DEF SettingsInv, Local, Flow, KeepsBase, Shows
<1> QED BY <1>1 DEF SettingsInv

LEMMA StartKeepsSettings ==
  ASSUME SettingsInv, NEW p \in Procs,
         Launch(p) \/ ExecPro(p) \/ ReadState(p) \/ Save(p) \/ Replace(p) \/ Authenticate(p)
  PROVE  SettingsInv'
<1>1. CASE Launch(p)
  <2>1. PICK l \in {"exec", "exit", "start"} : Quietly(p, l)
    BY <1>1, QuietSteps DEF SettingsInv
  <2>2. UNCHANGED <<file, job>>
    BY <1>1 DEF Launch, files
  <2> QED BY <2>1, <2>2, QuietKeepsSettings DEF SettingsInv, SettingsFile, Logging, Installing
<1>2. CASE ExecPro(p)
  <2>1. UNCHANGED <<file, job>>
    BY <1>2 DEF ExecPro, files
  <2>2. SettingsFile'
    BY <2>1 DEF SettingsInv, SettingsFile
  <2>3. Local(p)'
    BY <1>2, <2>1, ExecProEffect
       DEF SettingsInv, Local, Flow, KeepsBase, Shows, Logging, Installing
  <2> QED BY <1>2, <2>1, <2>2, <2>3, ExecProEffect, LoudKeepsSettings DEF SettingsInv
<1>3. CASE ReadState(p)
  <2>1. UNCHANGED <<file, job>>
    BY <1>3 DEF ReadState, files
  <2>2. SettingsFile'
    BY <2>1 DEF SettingsInv, SettingsFile
  <2>3. Local(p)'
    BY <1>3, <2>1, ReadStateEffect
       DEF SettingsInv, Local, Flow, KeepsBase, Shows, Logging, Installing
  <2> QED BY <1>3, <2>1, <2>2, <2>3, ReadStateEffect, LoudKeepsSettings DEF SettingsInv
<1>4. CASE Save(p)
  <2>1. UNCHANGED <<file, job>> /\ proc[p].pc = "save"
    BY <1>4 DEF Save, WriteTemporary, At
  <2>2. \E l \in {proc[p].then, "replace"} : Quietly(p, l)
    BY <1>4, GoesQuietly DEF Save, SettingsInv
  <2>3. proc[p].then \in {"none", "auth", "resolve", "finish"}
    BY DEF SettingsInv, Local, Flow
  <2>4. SettingsFile'
    BY <2>1 DEF SettingsInv, SettingsFile
  <2> QED BY <2>1, <2>2, <2>3, <2>4, QuietKeepsSettings DEF Logging, Installing
<1>5. CASE Replace(p)
  <2>1. /\ UNCHANGED job /\ proc[p].pc = "replace" /\ file' = proc[p].copy
        /\ Quietly(p, proc[p].then)
    BY <1>5, GoesQuietly DEF Replace, ReplaceSettings, At, SettingsInv
  <2>2. /\ proc[p].then \in {"none", "auth", "resolve", "finish"}
        /\ IsDoc(proc[p].copy)
    BY <2>1 DEF SettingsInv, Local, Flow
  <2>3. SettingsFile'
    BY <2>1, <2>2 DEF SettingsFile, IsDoc
  <2> QED BY <2>1, <2>2, <2>3, QuietKeepsSettings DEF Logging, Installing
<1>6. CASE Authenticate(p)
  <2>1. UNCHANGED <<file, job>> /\ proc[p].pc = "auth" /\ Quietly(p, job[p].cmd)
    BY <1>6, QuietSteps DEF Authenticate, files, At, SettingsInv
  <2>2. job[p].cmd \in {"scan", "login", "publish", "install"}
    BY DEF SettingsInv, Local, Flow
  <2>3. SettingsFile'
    BY <2>1 DEF SettingsInv, SettingsFile
  <2> QED BY <2>1, <2>2, <2>3, QuietKeepsSettings DEF Logging, Installing
<1> QED BY <1>1, <1>2, <1>3, <1>4, <1>5, <1>6

LEMMA ScanKeepsSettings ==
  ASSUME SettingsInv, NEW p \in Procs,
         \/ Configure(p) \/ Resolve(p) \/ LocateEngine(p) \/ RunEngine(p)
         \/ ReadCache(p) \/ OpenCache(p) \/ CloseCache(p)
  PROVE  SettingsInv'
<1>0. UNCHANGED <<file, job>> /\ SettingsFile'
  BY DEF Configure, Resolve, LocateEngine, RunEngine, ReadCache, OpenCache, CloseCache, files,
         SettingsInv, SettingsFile
<1>1. CASE Configure(p)
  <2>1. IsDoc(proc[p].copy)
    BY <1>1 DEF Configure, At, SettingsInv, Local, Flow
  <2>2. Local(p)'
    BY <1>0, <1>1, <2>1, ConfigureEffect
       DEF SettingsInv, Local, Flow, KeepsBase, Shows, Logging, Installing
  <2> QED BY <1>0, <1>1, <2>1, <2>2, ConfigureEffect, LoudKeepsSettings DEF SettingsInv
<1>2. CASE Resolve(p) \/ LocateEngine(p) \/ OpenCache(p) \/ CloseCache(p)
  <2>1. PICK l \in {"locate", "run", "fill", "check", "finish"} : Quietly(p, l)
    BY <1>2, QuietSteps DEF SettingsInv
  <2>2. proc[p].pc \in {"resolve", "locate", "open", "fill"}
    BY <1>2 DEF Resolve, LocateEngine, OpenCache, CloseCache, At
  <2> QED BY <1>0, <2>1, <2>2, QuietKeepsSettings DEF Logging, Installing
<1>3. CASE RunEngine(p)
  <2>1. proc[p].pc = "run"
    BY <1>3 DEF RunEngine, At
  <2>2. Local(p)'
    BY <1>0, <1>3, <2>1, RunEngineEffect
       DEF SettingsInv, Local, Flow, KeepsBase, Shows, Logging, Installing
  <2> QED BY <1>0, <1>3, <2>2, RunEngineEffect, LoudKeepsSettings DEF SettingsInv
<1>4. CASE ReadCache(p)
  <2>1. proc[p].pc = "check"
    BY <1>4 DEF ReadCache, At
  <2>2. Local(p)'
    BY <1>0, <1>4, <2>1, ReadCacheEffect
       DEF SettingsInv, Local, Flow, KeepsBase, Shows, Logging, Installing
  <2> QED BY <1>0, <1>4, <2>2, ReadCacheEffect, LoudKeepsSettings DEF SettingsInv
<1> QED BY <1>1, <1>2, <1>3, <1>4

LEMMA LoginKeepsSettings ==
  ASSUME SettingsInv, NEW p \in Procs,
         Login(p) \/ Poll(p) \/ Sleep(p) \/ Verify(p)
  PROVE  SettingsInv'
<1>0. UNCHANGED <<file, job>> /\ SettingsFile'
  BY DEF Login, Poll, Sleep, Verify, files, SettingsInv, SettingsFile
<1>1. proc[p].pc \in {"login", "poll", "sleep", "verify"}
  BY DEF Login, Poll, Sleep, Verify, At
<1>2. job[p].cmd = "login" /\ IsDoc(proc[p].copy)
  BY <1>1 DEF SettingsInv, Local, Flow, Logging
<1>3. CASE Login(p) \/ Poll(p) \/ Sleep(p)
  <2>1. PICK l \in {"verify", "poll", "sleep", "finish"} : Quietly(p, l)
    BY <1>3, QuietSteps DEF SettingsInv
  <2> QED BY <1>0, <1>1, <1>2, <2>1, QuietKeepsSettings DEF Logging, Installing
<1>4. CASE Verify(p)
  <2>1. Local(p)'
    BY <1>0, <1>2, <1>4, VerifyEffect
       DEF SettingsInv, Local, Flow, KeepsBase, Shows, Logging, Installing
  <2> QED BY <1>0, <1>2, <1>4, <2>1, VerifyEffect, LoudKeepsSettings DEF SettingsInv
<1> QED BY <1>3, <1>4

LEMMA PublishKeepsSettings ==
  ASSUME SettingsInv, NEW p \in Procs, Publish(p) \/ Upload(p)
  PROVE  SettingsInv'
<1>0. UNCHANGED <<file, job>> /\ SettingsFile'
  BY DEF Publish, Upload, files, SettingsInv, SettingsFile
<1>1. proc[p].pc \in {"publish", "upload"}
  BY DEF Publish, Upload, At
<1>2. PICK l \in {"upload", "finish"} : Quietly(p, l)
  BY QuietSteps DEF SettingsInv
<1> QED BY <1>0, <1>1, <1>2, QuietKeepsSettings DEF Logging, Installing

LEMMA InstallKeepsSettings ==
  ASSUME SettingsInv, NEW p \in Procs,
         \/ Install(p) \/ Downloaded(p) \/ TryDownload(p)
         \/ Unlink(p) \/ Rename(p) \/ Stamp(p)
  PROVE  SettingsInv'
<1>0. UNCHANGED <<file, job>> /\ SettingsFile'
  BY DEF Install, Downloaded, TryDownload, Unlink, Rename, Stamp, SettingsInv, SettingsFile
<1>1. proc[p].pc \in Installing
  BY DEF Install, Downloaded, TryDownload, Unlink, Rename, Stamp, At, Installing
<1>2. job[p].cmd = "install"
  BY <1>1 DEF SettingsInv, Local, Flow
<1>3. PICK l \in {"download", "try", "unlink", "rename", "stamp", "finish"} : Quietly(p, l)
  BY QuietSteps DEF SettingsInv
<1> QED BY <1>0, <1>1, <1>2, <1>3, QuietKeepsSettings DEF Logging, Installing

LEMMA EndKeepsSettings ==
  ASSUME SettingsInv, NEW p \in Procs, Finish(p) \/ Kill(p)
  PROVE  SettingsInv'
<1>0. UNCHANGED <<file, job>> /\ SettingsFile'
  BY DEF Finish, Kill, files, SettingsInv, SettingsFile
<1>1. PICK l \in {"exit", "killed"} : Quietly(p, l)
  BY QuietSteps DEF SettingsInv
<1> QED BY <1>0, <1>1, QuietKeepsSettings DEF Logging, Installing

LEMMA SettingsNext == SettingsInv /\ [Next]_vars => SettingsInv'
<1> SUFFICES ASSUME SettingsInv, [Next]_vars PROVE SettingsInv'
  OBVIOUS
<1>1. CASE Tomorrow \/ UNCHANGED vars
  BY <1>1 DEF Tomorrow, vars, files, SettingsInv, ProcTypes, SettingsFile, Local, Flow,
              KeepsBase, Shows
<1>2. ASSUME NEW p \in Procs, Step(p) \/ Kill(p) PROVE SettingsInv'
  BY <1>2, StartKeepsSettings, ScanKeepsSettings, LoginKeepsSettings, PublishKeepsSettings,
     InstallKeepsSettings, EndKeepsSettings DEF Step
<1> QED BY <1>1, <1>2 DEF Next

(* Nobody meets a half-written settings file and no answer is shown that   *)
(* no server gave, for any number of processes started from any settings.  *)
THEOREM DocumentsAreWhole == Spec => []WholeDocumentsUsed
<1>1. SettingsInv => WholeDocumentsUsed
  BY DEF SettingsInv, SettingsFile, Local, Shows, WholeDocumentsUsed
<1> QED BY <1>1, InitSettings, SettingsNext, PTL DEF Spec

(* A step is a step of one process, and a process that is about to replace *)
(* the settings does that or is killed.                                    *)
LEMMA OneProcessSteps ==
  ASSUME SettingsInv, NEW p \in Procs, Step(p) \/ Kill(p)
  PROVE  /\ \A o \in Procs \ {p} : proc'[o] = proc[o]
         /\ proc[p].pc = "replace" => Replace(p) \/ Kill(p)
<1>1. SettingsFile /\ ProcTypes
  BY DEF SettingsInv
<1>2. \A o \in Procs \ {p} : proc'[o] = proc[o]
  <2>1. ASSUME \E l : Quietly(p, l) PROVE \A o \in Procs \ {p} : proc'[o] = proc[o]
    BY <2>1 DEF Quietly
  <2>2. CASE Save(p) \/ Replace(p)
    BY <1>1, <2>1, <2>2, GoesQuietly DEF Save, Replace
  <2>3. CASE Configure(p)
    <3>1. IsDoc(proc[p].copy)
      BY <2>3 DEF Configure, At, SettingsInv, Local, Flow
    <3> QED BY <1>1, <2>3, <3>1, ConfigureEffect
  <2>4. CASE Verify(p)
    <3>1. IsDoc(proc[p].copy)
      BY <2>4 DEF Verify, At, SettingsInv, Local, Flow, Logging
    <3> QED BY <1>1, <2>4, <3>1, VerifyEffect
  <2> QED BY <1>1, <2>1, <2>2, <2>3, <2>4, ExecProEffect, ReadStateEffect, RunEngineEffect,
             ReadCacheEffect, QuietSteps DEF Step
<1>3. proc[p].pc = "replace" => Replace(p) \/ Kill(p)
  BY DEF Step, At, Launch, ExecPro, ReadState, Save, Authenticate, Configure, Resolve,
         LocateEngine, RunEngine, ReadCache, OpenCache, CloseCache, Login, Poll, Sleep, Verify,
         Publish, Upload, Install, Downloaded, TryDownload, Unlink, Rename, Stamp, Finish
<1> QED BY <1>2, <1>3

(* A process that nobody overtook writes back the token and the notice it  *)
(* found, unless it logs in: its copy is never less than what it read.     *)
THEOREM SettingsAreKept == Spec => SavedSettingsKept
<1> DEFINE Keeps ==
      \A p \in Procs :
          (/\ At(p, "replace") /\ ~At(p, "replace")'
           /\ job[p].cmd # "login" /\ proc[p].base = file /\ file.kind = "doc")
          => /\ file.token # None => file'.token = file.token
             /\ file.notified => file'.notified
<1>1. ASSUME SettingsInv, Next PROVE Keeps
  <2>1. SUFFICES ASSUME NEW p \in Procs, At(p, "replace"), ~At(p, "replace")',
                        job[p].cmd # "login", proc[p].base = file, file.kind = "doc"
                 PROVE  /\ file.token # None => file'.token = file.token
                        /\ file.notified => file'.notified
    OBVIOUS
  <2>2. proc'[p] # proc[p]
    BY <2>1 DEF At
  <2>3. ~Tomorrow
    BY <2>2 DEF Tomorrow
  <2>4. PICK q \in Procs : Step(q) \/ Kill(q)
    BY <1>1, <2>3 DEF Next
  <2>5. p = q
    BY <1>1, <2>2, <2>4, OneProcessSteps
  <2>6. Replace(p) \/ Kill(p)
    BY <1>1, <2>1, <2>4, <2>5, OneProcessSteps DEF At
  <2>7. CASE Replace(p)
    BY <1>1, <2>1, <2>7 DEF Replace, ReplaceSettings, SettingsInv, Local, KeepsBase
  <2>8. CASE Kill(p)
    BY <2>8 DEF Kill, files
  <2> QED BY <2>6, <2>7, <2>8
<1>2. SettingsInv /\ [Next]_vars => [Keeps]_vars
  BY <1>1
<1> QED BY <1>2, InitSettings, SettingsNext, PTL DEF Spec, SavedSettingsKept

-----------------------------------------------------------------------------
(* The Pro engine.                                                         *)

(* There is one installation at most.  Two that run at once share the name *)
(* of the download, and one may rename what the other has just truncated.  *)
OneInstallation ==
    \A j \in Jobs : \A p, q \in Procs :
        j[p].cmd = "install" /\ j[q].cmd = "install" => p = q

Installer(p) == p \in Procs /\ job[p].cmd = "install"

(* What is at <pro>, if anything, has answered -pro_version.               *)
Sound == installed # None => body[installed] = "good"

(* The names of the installation stand for what its process has reached.   *)
Binaries ==
    /\ body = [b \in Procs \cup {Before} |-> body[b]]
    /\ installed \in {None, Before} \/ Installer(installed)
    /\ download = None \/ Installer(download)
    /\ Installer(installed) =>
          proc[installed].pc \in {"stamp", "finish", "exit", "killed"}
    /\ \A p \in Procs :
        proc[p].pc \in {"unlink", "rename"} /\ download # None => body[download] = "good"

(* Whoever trusts the binary at <pro> may do so.                           *)
Trusted ==
    /\ stamp = "current" => Sound
    /\ \A p \in Procs :
        proc[p].pc \in {"exec", "stamp"} \/ (proc[p].pc = "run" /\ job[p].pro) => Sound
    /\ \A p \in Procs : proc[p].ran \in {"none", "good"}

EngineInv ==
    /\ SettingsInv
    /\ \A p, q \in Procs : Installer(p) /\ Installer(q) => p = q
    /\ Binaries
    /\ Trusted

LEMMA InitEngine ==
  ASSUME OneInstallation, Init
  PROVE  EngineInv
<1>1. SettingsInv
  BY InitSettings
<1>2. \A p, q \in Procs : Installer(p) /\ Installer(q) => p = q
  BY DEF Init, OneInstallation, Installer
<1>3. PICK s \in Starts :
        /\ stamp = s.stamp
        /\ installed = IF s.stamp = "missing" THEN None ELSE Before
        /\ body = [b \in Procs \cup {Before} |->
                      IF b # Before THEN "absent"
                      ELSE IF s.stamp = "current" THEN "good" ELSE "older"]
  BY DEF Init
<1>4. \A p \in Procs : proc[p].pc = "launch" /\ proc[p].ran = "none"
  BY DEF Init, Idle
<1>5. download = None
  BY DEF Init
<1>6. Binaries
  BY <1>3, <1>4, <1>5, UserStateAssumption DEF Binaries, Installer
<1>7. Trusted
  BY <1>3, <1>4, UserStateAssumption DEF Trusted, Sound
<1> QED BY <1>1, <1>2, <1>6, <1>7 DEF EngineInv

(* A step that leaves the binaries and the stamp alone.                    *)
LEMMA StillKeepsEngine ==
  ASSUME EngineInv, SettingsInv', NEW p \in Procs,
         UNCHANGED <<job, body, download, installed, stamp>>,
         \A o \in Procs \ {p} : proc'[o] = proc[o],
         proc'[p].pc \notin {"unlink", "rename", "stamp"},
         proc'[p].pc = "exec" \/ (proc'[p].pc = "run" /\ job[p].pro) => Sound,
         proc[p].pc \in {"stamp", "finish", "exit", "killed"} =>
            proc'[p].pc \in {"finish", "exit", "killed"},
         proc'[p].ran \in {"none", "good"}
  PROVE  EngineInv'
<1>1. \A o \in Procs : Installer(o)' <=> Installer(o)
  BY DEF Installer
<1>2. Installer(installed)' <=> Installer(installed)
  BY DEF Installer
<1>3. Installer(download)' <=> Installer(download)
  BY DEF Installer
<1>4. Binaries'
  <2>1. Installer(installed)' =>
            proc'[installed'].pc \in {"stamp", "finish", "exit", "killed"}
    BY <1>2 DEF EngineInv, Binaries, Installer
  <2>2. \A o \in Procs : proc'[o].pc \in {"unlink", "rename"} /\ download' # None =>
            body'[download'] = "good"
    BY DEF EngineInv, Binaries
  <2> QED BY <1>2, <1>3, <2>1, <2>2 DEF EngineInv, Binaries
<1>5. Trusted'
  BY DEF EngineInv, Trusted, Sound
<1> QED BY <1>1, <1>4, <1>5 DEF EngineInv

LEMMA StartKeepsEngine ==
  ASSUME EngineInv, SettingsInv', NEW p \in Procs,
         Launch(p) \/ ExecPro(p) \/ ReadState(p) \/ Save(p) \/ Replace(p) \/ Authenticate(p)
  PROVE  EngineInv'
<1>0. /\ UNCHANGED <<job, body, download, installed, stamp>>
      /\ proc[p].pc \in {"launch", "exec", "start", "save", "replace", "auth"}
      /\ ProcTypes /\ SettingsFile /\ Flow(p) /\ proc[p].ran \in {"none", "good"}
  BY DEF Launch, ExecPro, ReadState, Save, Replace, Authenticate, files, At, EngineInv, Trusted,
         SettingsInv, Local
<1>1. CASE Launch(p)
  <2>1. /\ \A o \in Procs \ {p} : proc'[o] = proc[o]
        /\ proc'[p].pc \in {"exec", "exit", "start"} /\ proc'[p].ran = proc[p].ran
    BY <1>0, <1>1, QuietSteps DEF Quietly
  <2>2. proc'[p].pc = "exec" => stamp = "current"
    BY <1>0, <1>1, <2>1 DEF Launch, Goes, ProcTypes, IsProc, ProPath, StampIsCurrent
  <2>3. proc'[p].pc = "exec" => Sound
    BY <2>2 DEF EngineInv, Trusted
  <2> QED BY <1>0, <2>1, <2>3, StillKeepsEngine
<1>2. CASE ExecPro(p)
  <2>1. Sound
    BY <1>2 DEF ExecPro, At, EngineInv, Trusted
  <2> QED BY <1>0, <1>2, <2>1, ExecProEffect, StillKeepsEngine DEF Sound
<1>3. CASE ReadState(p)
  BY <1>0, <1>3, ReadStateEffect, StillKeepsEngine
<1>4. CASE Save(p) \/ Replace(p) \/ Authenticate(p)
  <2>1. \E l \in {proc[p].then, "replace", job[p].cmd} : Quietly(p, l)
    BY <1>0, <1>4, QuietSteps, GoesQuietly DEF Save, Replace
  <2>2. /\ \A o \in Procs \ {p} : proc'[o] = proc[o]
        /\ proc'[p].pc \in {"none", "auth", "resolve", "finish", "replace", "scan", "login",
                            "publish", "install"}
        /\ proc'[p].ran = proc[p].ran
    BY <1>0, <2>1 DEF Quietly, Flow
  <2> QED BY <1>0, <2>2, StillKeepsEngine
<1> QED BY <1>1, <1>2, <1>3, <1>4

LEMMA CommandKeepsEngine ==
  ASSUME EngineInv, SettingsInv', NEW p \in Procs,
         \/ Configure(p) \/ Resolve(p) \/ LocateEngine(p) \/ RunEngine(p)
         \/ ReadCache(p) \/ OpenCache(p) \/ CloseCache(p)
         \/ Login(p) \/ Poll(p) \/ Sleep(p) \/ Verify(p) \/ Publish(p) \/ Upload(p)
         \/ Finish(p) \/ Kill(p)
  PROVE  EngineInv'
<1>0. /\ UNCHANGED <<job, body, download, installed, stamp>>
      /\ ProcTypes /\ SettingsFile /\ Flow(p) /\ proc[p].ran \in {"none", "good"}
  BY DEF Configure, Resolve, LocateEngine, RunEngine, ReadCache, OpenCache, CloseCache,
         Login, Poll, Sleep, Verify, Publish, Upload, Finish, Kill, files, EngineInv, Trusted,
         SettingsInv, Local
<1>1. CASE Configure(p)
  <2>1. proc[p].pc = "scan"
    BY <1>1 DEF Configure, At
  <2>2. IsDoc(proc[p].copy)
    BY <1>0, <2>1 DEF Flow
  <2> QED BY <1>0, <1>1, <2>1, <2>2, ConfigureEffect, StillKeepsEngine
<1>2. CASE LocateEngine(p)
  <2>1. proc[p].pc = "locate"
    BY <1>2 DEF LocateEngine, At
  <2>2. /\ \A o \in Procs \ {p} : proc'[o] = proc[o]
        /\ proc'[p].pc \in {"run", "finish"} /\ proc'[p].ran = proc[p].ran
    BY <1>0, <1>2, QuietSteps DEF Quietly
  <2>3. proc'[p].pc = "run" /\ job[p].pro => stamp = "current"
    BY <1>0, <1>2, <2>2 DEF LocateEngine, Goes, Leaves, ProcTypes, IsProc, ProPath, StampIsCurrent
  <2>4. proc'[p].pc = "run" /\ job[p].pro => Sound
    BY <2>3 DEF EngineInv, Trusted
  <2> QED BY <1>0, <2>1, <2>2, <2>4, StillKeepsEngine
<1>3. CASE RunEngine(p)
  <2>1. proc[p].pc = "run"
    BY <1>3 DEF RunEngine, At
  <2>2. job[p].pro => Sound
    BY <2>1 DEF EngineInv, Trusted
  <2> QED BY <1>0, <1>3, <2>1, <2>2, RunEngineEffect, StillKeepsEngine DEF Sound
<1>4. CASE ReadCache(p)
  <2>1. proc[p].pc = "check"
    BY <1>4 DEF ReadCache, At
  <2> QED BY <1>0, <1>4, <2>1, ReadCacheEffect, StillKeepsEngine
<1>5. CASE Verify(p)
  <2>1. proc[p].pc = "verify"
    BY <1>5 DEF Verify, At
  <2>2. IsDoc(proc[p].copy)
    BY <1>0, <2>1 DEF Flow
  <2> QED BY <1>0, <1>5, <2>1, <2>2, VerifyEffect, StillKeepsEngine
<1>6. CASE \/ Resolve(p) \/ OpenCache(p) \/ CloseCache(p) \/ Login(p) \/ Poll(p) \/ Sleep(p)
           \/ Publish(p) \/ Upload(p)
  <2>1. proc[p].pc \in {"resolve", "open", "fill", "login", "poll", "sleep", "publish", "upload"}
    BY <1>6 DEF Resolve, OpenCache, CloseCache, Login, Poll, Sleep, Publish, Upload, At
  <2>2. \E l \in {"locate", "finish", "fill", "check", "verify", "poll", "sleep", "upload"} :
            Quietly(p, l)
    BY <1>0, <1>6, QuietSteps
  <2>3. /\ \A o \in Procs \ {p} : proc'[o] = proc[o]
        /\ proc'[p].pc \in {"locate", "finish", "fill", "check", "verify", "poll", "sleep",
                            "upload"}
        /\ proc'[p].ran = proc[p].ran
    BY <2>2 DEF Quietly
  <2> QED BY <1>0, <2>1, <2>3, StillKeepsEngine
<1>7. CASE Finish(p) \/ Kill(p)
  <2>1. /\ \A o \in Procs \ {p} : proc'[o] = proc[o]
        /\ proc'[p].pc \in {"exit", "killed"} /\ proc'[p].ran = proc[p].ran
    BY <1>0, <1>7, QuietSteps DEF Quietly
  <2> QED BY <1>0, <2>1, StillKeepsEngine
<1> QED BY <1>1, <1>2, <1>3, <1>4, <1>5, <1>6, <1>7

(* The installation: only its own steps touch the binaries and the stamp.  *)
LEMMA InstallKeepsEngine ==
  ASSUME EngineInv, SettingsInv', NEW p \in Procs,
         \/ Install(p) \/ Downloaded(p) \/ TryDownload(p)
         \/ Unlink(p) \/ Rename(p) \/ Stamp(p)
  PROVE  EngineInv'
<1>0. /\ UNCHANGED job /\ ProcTypes /\ Flow(p) /\ Binaries /\ Trusted
      /\ proc[p].pc \in Installing
  BY DEF Install, Downloaded, TryDownload, Unlink, Rename, Stamp, At, Installing, EngineInv,
         SettingsInv, Local
<1>1. Installer(p) /\ \A q : Installer(q) => q = p
  BY <1>0 DEF Flow, Installer, EngineInv
<1>2. \A q : Installer(q)' <=> Installer(q)
  BY <1>0 DEF Installer
<1>3. /\ \A o \in Procs \ {p} : proc'[o] = proc[o]
      /\ \A o \in Procs \ {p} : proc[o].pc \notin Installing
      /\ proc'[p].ran = proc[p].ran
  <2>1. \E l : Quietly(p, l)
    BY <1>0, QuietSteps
  <2>2. \A o \in Procs \ {p} : proc[o].pc \notin Installing
    BY <1>1 DEF Installer, EngineInv, SettingsInv, Local, Flow
  <2> QED BY <2>1, <2>2 DEF Quietly
<1>4. \A o \in Procs : proc'[o].ran \in {"none", "good"}
  BY <1>0, <1>3 DEF Trusted
<1>5. ASSUME Binaries', Sound => Sound', stamp' = "current" => Sound', proc'[p].pc = "stamp" => Sound',
             proc'[p].pc \in Installing \cup {"finish"}
      PROVE  EngineInv'
  <2>1. Trusted'
    BY <1>0, <1>3, <1>4, <1>5 DEF Trusted, Installing
  <2> QED BY <1>2, <1>5, <2>1 DEF EngineInv
<1>6. CASE Install(p)
  <2>1. /\ proc[p].pc = "install" /\ UNCHANGED <<installed, stamp>>
        /\ \/ UNCHANGED <<body, download>>
           \/ download' = p /\ body' = [body EXCEPT ![p] = "partial"]
        /\ proc'[p].pc \in {"finish", "download"}
    BY <1>0, <1>6, QuietSteps DEF Install, OpenDownload, At, Quietly
  <2>2. installed # p
    BY <1>0, <1>1, <2>1 DEF Binaries
  <2>3. Binaries'
    BY <1>0, <1>1, <1>2, <1>3, <2>1, <2>2 DEF Binaries, Installing, Installer
  <2>4. Sound => Sound'
    BY <1>0, <2>1, <2>2 DEF Sound, Binaries, Installer
  <2> QED BY <1>0, <1>5, <2>1, <2>3, <2>4 DEF Trusted, Installing
<1>7. CASE Downloaded(p)
  <2>1. /\ proc[p].pc = "download" /\ UNCHANGED <<download, installed, stamp>>
        /\ body' = body \/ \E content : body' = [body EXCEPT ![p] = content]
        /\ proc'[p].pc \in {"try", "finish"}
    BY <1>0, <1>7, QuietSteps DEF Downloaded, CloseDownload, At, Quietly
  <2>2. installed # p
    BY <1>0, <1>1, <2>1 DEF Binaries
  <2>3. Binaries'
    BY <1>0, <1>1, <1>2, <1>3, <2>1, <2>2 DEF Binaries, Installing, Installer
  <2>4. Sound => Sound'
    BY <1>0, <2>1, <2>2 DEF Sound, Binaries, Installer
  <2> QED BY <1>0, <1>5, <2>1, <2>3, <2>4 DEF Trusted, Installing
<1>8. CASE TryDownload(p)
  <2>1. /\ proc[p].pc = "try" /\ UNCHANGED <<body, installed, stamp>>
        /\ download' \in {download, None}
        /\ proc'[p].pc \in {"unlink", "finish"}
    BY <1>0, <1>8, QuietSteps DEF TryDownload, At, Quietly
  <2>2. proc'[p].pc = "unlink" => body[download] = "good" /\ download' = download
    BY <1>0, <1>8 DEF TryDownload, VersionCheckOk, Leaves, ProcTypes, IsProc
  <2>3. installed # p
    BY <1>0, <1>1, <2>1 DEF Binaries
  <2>4. Binaries'
    BY <1>0, <1>1, <1>2, <1>3, <2>1, <2>2, <2>3 DEF Binaries, Installing, Installer
  <2>5. Sound => Sound'
    BY <2>1 DEF Sound
  <2> QED BY <1>0, <1>5, <2>1, <2>4, <2>5 DEF Trusted, Installing
<1>9. CASE Unlink(p)
  <2>1. /\ proc[p].pc = "unlink" /\ UNCHANGED <<body, download, stamp>>
        /\ installed' = None /\ proc'[p].pc = "rename"
    BY <1>0, <1>9, QuietSteps DEF Unlink, UnlinkInstalled, At, Quietly
  <2>2. Binaries'
    BY <1>0, <1>1, <1>2, <1>3, <2>1, UserStateAssumption DEF Binaries, Installing, Installer
  <2> QED BY <1>5, <2>1, <2>2 DEF Sound, Installing
<1>10. CASE Rename(p)
  <2>1. /\ proc[p].pc = "rename" /\ UNCHANGED <<body, stamp>>
        /\ \/ UNCHANGED <<download, installed>> /\ proc'[p].pc = "finish"
           \/ /\ download # None /\ installed' = download /\ download' = None
              /\ proc'[p].pc = "stamp"
    BY <1>0, <1>10, GoesQuietly, LeavesQuietly DEF Rename, RenameDownload, At, Quietly
  <2>2. download # None => download = p /\ body[download] = "good"
    BY <1>0, <1>1, <2>1 DEF Binaries
  <2>3. Binaries'
    BY <1>0, <1>1, <1>2, <1>3, <2>1, <2>2, UserStateAssumption
       DEF Binaries, Installing, Installer
  <2>4. (Sound => Sound') /\ (proc'[p].pc = "stamp" => Sound')
    BY <2>1, <2>2 DEF Sound
  <2> QED BY <1>0, <1>5, <2>1, <2>3, <2>4 DEF Trusted, Installing
<1>11. CASE Stamp(p)
  <2>1. /\ proc[p].pc = "stamp" /\ UNCHANGED <<body, download, installed>>
        /\ proc'[p].pc \in {"stamp", "finish"}
    BY <1>0, <1>11, QuietSteps DEF Stamp, At, Quietly
  <2>2. Sound
    BY <1>0, <2>1 DEF Trusted
  <2>3. Sound'
    BY <2>1, <2>2 DEF Sound
  <2>4. Binaries'
    BY <1>0, <1>1, <1>2, <1>3, <2>1 DEF Binaries, Installing, Installer
  <2> QED BY <1>5, <2>1, <2>3, <2>4 DEF Installing
<1> QED BY <1>6, <1>7, <1>8, <1>9, <1>10, <1>11

LEMMA EngineNext == EngineInv /\ [Next]_vars => EngineInv'
<1> SUFFICES ASSUME EngineInv, [Next]_vars PROVE EngineInv'
  OBVIOUS
<1>0. SettingsInv'
  BY SettingsNext DEF EngineInv
<1>1. CASE Tomorrow \/ UNCHANGED vars
  <2> UNCHANGED <<job, proc, body, download, installed, stamp>>
    BY <1>1 DEF Tomorrow, vars, files
  <2> QED BY <1>0 DEF EngineInv, Binaries, Trusted, Installer, Sound
<1>2. ASSUME NEW p \in Procs, Step(p) \/ Kill(p) PROVE EngineInv'
  BY <1>0, <1>2, StartKeepsEngine, CommandKeepsEngine, InstallKeepsEngine DEF Step
<1> QED BY <1>1, <1>2 DEF Next

(* With one installation at most, the Pro engine that runs was downloaded  *)
(* whole and answered -pro_version, however many processes look it up, run *)
(* it or are killed meanwhile: the stamp is current only over a binary     *)
(* that is sound or gone, and what replaces it is sound too.               *)
THEOREM EngineIsChecked ==
  ASSUME OneInstallation
  PROVE  Spec => []OnlyCheckedBinariesRun
<1>1. EngineInv => OnlyCheckedBinariesRun
  BY DEF EngineInv, Trusted, OnlyCheckedBinariesRun
<1> QED BY <1>1, InitEngine, EngineNext, PTL DEF Spec
============================================================================
