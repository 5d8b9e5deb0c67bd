------------------------ MODULE LanguageServerProofs ------------------------
(***************************************************************************)
(* What the editor shows is current and the server knows which documents   *)
(* are open when every reply is over, for any client and any number of     *)
(* files, threads, versions and replies in flight, but for the files whose *)
(* replies overlapped.                                                     *)
(***************************************************************************)
EXTENDS LanguageServer, FiniteSetTheorems, TLAPS

IsReply(r) ==
    /\ r \in [kind : {r.kind}, step : {r.step}, file : {r.file}, files : {r.files},
              session : {r.session}, rules : {r.rules}, found : {r.found},
              publish : {r.publish}]
    /\ r.kind \in {"refresh", "workspace", "file", "open", "delete"} /\ r.rules \in Nat
    /\ \A f \in DOMAIN r.found : r.found[f] # Never

ServerTypes ==
    /\ config \in Configs
    /\ disk \in [Files -> Nat]
    /\ shown = [f \in Files |-> shown[f]]
    /\ scans = [f \in Files |-> scans[f]]
    /\ opened \subseteq Files /\ {registry, rules} \subseteq Nat
    /\ replies = [i \in Slots |-> replies[i]]
    /\ \A i \in Slots : replies[i] = NoReply \/ IsReply(replies[i])

(* The queue holds the replies that wait for a thread, once each.          *)
Queue ==
    /\ waiting \in Seq(Slots)
    /\ \A p \in 1 .. Len(waiting) : waiting[p] \in Active /\ replies[waiting[p]].step = "queued"
    /\ \A p, q \in 1 .. Len(waiting) : waiting[p] = waiting[q] => p = q
    /\ \A i \in Active : replies[i].step = "queued" => \E p \in 1 .. Len(waiting) : waiting[p] = i

(* Two replies touch a file that is not raced only when they are scans of  *)
(* it that share one thread.                                               *)
Alone(f) ==
    \A i, j \in Active : Touches(i, f) /\ Touches(j, f) => i = j \/ InTurn(i)

Crowd ==
    /\ ~ready => opened = {} /\ Active = {}
    /\ config.jobs = 1 => \A i, j \in Busy : i = j
    /\ \A f \in opened \ raced : Alone(f)

(* An open document is one of the targets.                                 *)
Workspace == opened \subseteq Existing(disk) /\ opened \subseteq targets

(* The documents that count as open, less those that are forgotten, are    *)
(* the open ones whose first scan is over.                                 *)
Documents ==
    /\ \A f \in opened \ late : f \in openDocs \/ Opening(f)
    /\ \A f \in openDocs \ late : f \in opened \/ Deleting(f)
    /\ \A i \in Active : replies[i].kind = "open" => replies[i].file \in opened \cup late
    /\ \A i \in Active : replies[i].kind = "delete" =>
        /\ replies[i].step = "forget" /\ replies[i].files \subseteq {replies[i].file}
        /\ replies[i].files \cap opened \subseteq late
    /\ \A i \in Active : replies[i].kind \in {"file", "open"} => replies[i].file \in Files

(* A document that counts as open has been scanned.                        *)
Filed ==
    /\ openDocs \subseteq Files
    /\ \A f \in openDocs : scans[f] # Never
    /\ \A i \in Slots : replies[i].kind = "open" /\ replies[i].step = "add" =>
        scans[replies[i].file] # Never

(* A reply about one file whose result is not recorded yet.                *)
About(i, f) ==
    /\ replies[i].kind \in {"file", "open"} /\ replies[i].file = f
    /\ replies[i].step \in {"queued", "scanning", "scanned"}

(* No later one is about the file.                                         *)
Latest(i, f) ==
    /\ About(i, f)
    /\ \/ \E p \in 1 .. Len(waiting) :
            /\ waiting[p] = i
            /\ \A q \in p + 1 .. Len(waiting) : ~About(waiting[q], f)
       \/ /\ replies[i].step \in {"scanning", "scanned"}
          /\ \A q \in 1 .. Len(waiting) : ~About(waiting[q], f)

(* A reply about all the open documents, once there are its rules.         *)
Wide(i) ==
    /\ replies[i].kind \in {"refresh", "workspace"}
    /\ replies[i].step \in {"select", "begin", "queued", "scanning", "scanned", "publish"}

(* The session of the reply is, for the file, the one of now.              *)
Agrees(i, f) ==
    /\ replies[i].session.onlyDirty = onlyDirty
    /\ f \in replies[i].session.ignored <=> f \in ignored

(* What the reply will publish of the file is what is expected of it.      *)
Target(i, f) == f \in TargetsOf(replies[i].session, disk)
Due(i, f) ==
    /\ Agrees(i, f)
    /\ replies[i].step \in {"begin", "queued"} /\ replies[i].kind # "workspace" =>
        (f \in replies[i].files <=> Target(i, f))
    /\ replies[i].step = "scanning" =>
        /\ replies[i].rules = rules
        /\ f \in replies[i].files <=> rules > 0 /\ Target(i, f)
    /\ replies[i].step \in {"scanned", "publish"} => Result(replies[i], f) = Expected(f)
    /\ replies[i].step = "publish" => f \in replies[i].publish

(* An open document is current, or a reply is about to make it so.         *)
Current(f) ==
    \/ shown[f] = Expected(f) /\ \A i \in Slots : ~About(i, f) /\ ~Wide(i)
    \/ \E i \in Slots : Latest(i, f) /\ Due(i, f)
    \/ \E i \in Slots : Wide(i) /\ Due(i, f)

(* What is published by a reply about all documents reaches each of them.  *)
Known ==
    \A f \in opened : scans[f] # Never \/ \E i \in Slots : About(i, f)

(* The session of a reply about all documents is the one of now, and a     *)
(* refresh will find each of them.                                         *)
Sessions ==
    /\ \A i \in Slots : replies[i].kind \in {"refresh", "workspace"} =>
        \A f \in opened \ raced : Agrees(i, f)
    /\ \A i \in Slots : replies[i].kind = "refresh" => opened \ raced \subseteq openDocs

RunInv ==
    /\ Queue /\ Crowd /\ Workspace /\ Documents /\ Known /\ Filed /\ Sessions
    /\ \A f \in opened \ raced : Current(f)

ServerInv ==
    /\ ServerTypes
    /\ state \in {"Uninitialized", "Running", "Stopped"}
    /\ state = "Running" => RunInv
    /\ state # "Running" => Active = {} /\ waiting = <<>>
    /\ state = "Uninitialized" => opened = {} /\ openDocs = {} /\ ~ready

-----------------------------------------------------------------------------
(* What a step does to the replies.                                        *)

Only(i) ==
    /\ replies' = [j \in Slots |-> replies'[j]]
    /\ \A j \in Slots \ {i} : replies'[j] = replies[j]

Adds(i, kind, step, file, files, s) ==
    /\ i \in Free /\ Only(i) /\ IsReply(replies'[i])
    /\ replies'[i].kind = kind /\ replies'[i].step = step /\ replies'[i].file = file
    /\ replies'[i].files = files /\ replies'[i].session = s
    /\ waiting' = IF step = "queued" THEN Append(waiting, i) ELSE waiting

Kinds == {"refresh", "workspace", "file", "open", "delete"}

LEMMA NoReplyIsNone ==
  ASSUME NEW i \in Slots
  PROVE  /\ replies[i] = NoReply => replies[i].kind = "none"
         /\ IsReply(replies[i]) => replies[i] # NoReply
         /\ i \in Active <=> replies[i] # NoReply
         /\ i \in Free <=> replies[i] = NoReply
BY DEF NoReply, IsReply, Active, Free

LEMMA SpawnEffect ==
  ASSUME ServerTypes, NEW kind \in Kinds, NEW step, NEW file, NEW files, NEW s,
         Spawn(kind, step, file, files, s)
  PROVE  \E i \in Slots : Adds(i, kind, step, file, files, s)
<1> DEFINE i == CHOOSE j \in Free : TRUE
           new == [kind |-> kind, step |-> step, file |-> file, files |-> files,
                   session |-> s, rules |-> 0, found |-> [f \in {} |-> Clean],
                   publish |-> {}]
<1>1. /\ i \in Free /\ i \in Slots
      /\ replies' = [replies EXCEPT ![i] = new]
      /\ waiting' = IF step = "queued" THEN Append(waiting, i) ELSE waiting
  BY DEF Spawn, Free
<1>2. /\ IsReply(new)
      /\ new.kind = kind /\ new.step = step /\ new.file = file /\ new.files = files
      /\ new.session = s
  BY DEF IsReply, Kinds
<1> HIDE DEF i, new
<1>3. Only(i) /\ replies'[i] = new
  BY <1>1 DEF ServerTypes, Only
<1> QED BY <1>1, <1>2, <1>3 DEF Adds

LEMMA EndEffect ==
  ASSUME ServerTypes, NEW i \in Slots, End(i)
  PROVE  Only(i) /\ replies'[i] = NoReply
BY DEF ServerTypes, End, Only

(* The reply goes on with what it is about.                                *)
Alike(q, r) ==
    /\ IsReply(q) /\ IsReply(r)
    /\ q.kind = r.kind /\ q.file = r.file /\ q.session = r.session
Goes(i, l) ==
    /\ Only(i) /\ Alike(replies'[i], replies[i]) /\ replies'[i].step = l

LEMMA ActiveIsReply ==
  ASSUME ServerTypes, NEW i \in Slots, replies[i].kind # "none"
  PROVE  IsReply(replies[i]) /\ i \in Active
BY DEF ServerTypes, NoReply, Active, Free

LEMMA PutEffect ==
  ASSUME ServerTypes, NEW i \in Slots, NEW q, Alike(q, replies[i]),
         replies' = [replies EXCEPT ![i] = q]
  PROVE  Goes(i, q.step) /\ replies'[i] = q
<1>1. Only(i) /\ replies'[i] = q
  BY DEF ServerTypes, Only
<1> QED BY <1>1 DEF Goes

LEMMA StepEffect ==
  ASSUME ServerTypes, NEW i \in Slots, replies[i].kind # "none", NEW l, Step(i, l)
  PROVE  /\ Goes(i, l)
         /\ replies'[i].files = replies[i].files /\ replies'[i].rules = replies[i].rules
         /\ replies'[i].found = replies[i].found
<1> DEFINE new == [replies[i] EXCEPT !.step = l]
<1>1. /\ Alike(new, replies[i]) /\ new.step = l /\ new.files = replies[i].files
      /\ new.rules = replies[i].rules /\ new.found = replies[i].found
  BY ActiveIsReply DEF IsReply, Alike
<1>2. replies' = [replies EXCEPT ![i] = new]
  BY DEF Step, ServerTypes
<1> HIDE DEF new
<1> QED BY <1>1, <1>2, PutEffect

LEMMA FetchEffect ==
  ASSUME ServerTypes, NEW i \in Slots, Fetch(i)
  PROVE  /\ replies[i].kind = "refresh" /\ replies[i].step = "fetch" /\ Goes(i, "install")
         /\ UNCHANGED <<clientVars, shown, sessionVars, cacheVars, waiting>>
<1>1. /\ replies[i].kind = "refresh" /\ replies[i].step = "fetch"
      /\ UNCHANGED <<clientVars, shown, sessionVars, cacheVars, waiting>>
  BY DEF Fetch, At
<1> DEFINE new == [replies[i] EXCEPT !.rules = registry, !.step = "install"]
<1>2. Alike(new, replies[i]) /\ new.step = "install"
  BY <1>1, ActiveIsReply DEF IsReply, Alike, ServerTypes
<1>3. replies' = [replies EXCEPT ![i] = new]
  BY DEF Fetch, ServerTypes
<1> HIDE DEF new
<1> QED BY <1>1, <1>2, <1>3, PutEffect

LEMMA InstallEffect ==
  ASSUME ServerTypes, NEW i \in Slots, Install(i)
  PROVE  /\ replies[i].kind = "refresh" /\ replies[i].step = "install" /\ Goes(i, "select")
         /\ UNCHANGED <<clientVars, shown, sessionVars, targets, scans, openDocs, waiting>>
<1>1. /\ replies[i].kind = "refresh" /\ replies[i].step = "install" /\ Step(i, "select")
      /\ UNCHANGED <<clientVars, shown, sessionVars, targets, scans, openDocs, waiting>>
  BY DEF Install, At
<1> QED BY <1>1, StepEffect

LEMMA SelectEffect ==
  ASSUME ServerTypes, NEW i \in Slots, SelectOpenDocs(i)
  PROVE  /\ replies[i].kind = "refresh" /\ replies[i].step = "select" /\ Goes(i, "begin")
         /\ replies'[i].files = openDocs \cap TargetsOf(replies[i].session, disk)
         /\ UNCHANGED <<clientVars, shown, sessionVars, cacheVars, waiting>>
<1>1. /\ replies[i].kind = "refresh" /\ replies[i].step = "select"
      /\ UNCHANGED <<clientVars, shown, sessionVars, cacheVars, waiting>>
  BY DEF SelectOpenDocs, At
<1> DEFINE files == openDocs \cap TargetsOf(replies[i].session, disk)
           new == [replies[i] EXCEPT !.step = "begin", !.files = files]
<1>2. replies' = [replies EXCEPT ![i] = new]
  BY DEF SelectOpenDocs, ServerTypes
<1> HIDE DEF files
<1>3. Alike(new, replies[i]) /\ new.step = "begin" /\ new.files = files
  BY <1>1, ActiveIsReply DEF IsReply, Alike
<1> HIDE DEF new
<1> QED BY <1>1, <1>2, <1>3, PutEffect DEF files

LEMMA DetachEffect ==
  ASSUME ServerTypes, NEW i \in Slots, Detach(i)
  PROVE  /\ replies[i].kind \in {"refresh", "workspace"} /\ replies[i].step = "begin"
         /\ Goes(i, "queued") /\ replies'[i].files = replies[i].files
         /\ waiting' = Append(waiting, i)
         /\ UNCHANGED <<clientVars, shown, sessionVars, cacheVars>>
<1>1. /\ replies[i].kind \in {"refresh", "workspace"} /\ replies[i].step = "begin"
      /\ Step(i, "queued") /\ waiting' = Append(waiting, i)
      /\ UNCHANGED <<clientVars, shown, sessionVars, cacheVars>>
  BY DEF Detach, At
<1> QED BY <1>1, StepEffect

LEMMA StartEffect ==
  ASSUME ServerTypes, Queue, NEW i \in Slots, Start(i)
  PROVE  /\ waiting # <<>> /\ i = Head(waiting) /\ waiting' = Tail(waiting)
         /\ IsReply(replies[i]) /\ replies[i].step = "queued" /\ Goes(i, "scanning")
         /\ Cardinality(Busy) < config.jobs /\ replies'[i].rules = rules
         /\ \A f : f \in replies'[i].files <=>
                /\ rules # 0
                /\ IF replies[i].kind = "workspace" THEN Target(i, f) ELSE f \in replies[i].files
         /\ UNCHANGED <<clientVars, shown, sessionVars, cacheVars>>
<1>1. /\ waiting # <<>> /\ i = Head(waiting) /\ waiting' = Tail(waiting)
      /\ Cardinality(Busy) < config.jobs
      /\ UNCHANGED <<clientVars, shown, sessionVars, cacheVars>>
  BY DEF Start
<1>2. i \in Active /\ replies[i].step = "queued" /\ IsReply(replies[i])
  <2>1. 1 \in 1 .. Len(waiting) /\ i = waiting[1]
    BY <1>1 DEF Queue
  <2> QED BY <2>1 DEF Queue, ServerTypes, Active, Free
<1> DEFINE files == IF replies[i].kind = "workspace" THEN TargetsOf(replies[i].session, disk)
                    ELSE replies[i].files
           chosen == IF rules = 0 THEN {} ELSE files
           new == [replies[i] EXCEPT !.step = "scanning", !.rules = rules, !.files = chosen]
<1>3. replies' = [replies EXCEPT ![i].step = "scanning", ![i].rules = rules, ![i].files = chosen]
  BY DEF Start
<1>4. \A f : f \in chosen <=>
                /\ rules # 0
                /\ IF replies[i].kind = "workspace" THEN Target(i, f) ELSE f \in replies[i].files
  BY DEF Target
<1> HIDE DEF chosen
<1>6. replies' = [replies EXCEPT ![i] = new]
  BY <1>3 DEF ServerTypes
<1>7. /\ Alike(new, replies[i]) /\ new.step = "scanning" /\ new.rules = rules
      /\ new.files = chosen
  BY <1>2 DEF IsReply, Alike, ServerTypes
<1> HIDE DEF new
<1> QED BY <1>1, <1>2, <1>4, <1>6, <1>7, PutEffect

LEMMA ScanEffect ==
  ASSUME ServerTypes, NEW i \in Slots, Scan(i)
  PROVE  /\ IsReply(replies[i]) /\ replies[i].step = "scanning" /\ Goes(i, "scanned")
         /\ replies'[i].found = [f \in replies[i].files \cap Existing(disk) |->
                                    Match(replies[i], f)]
         /\ UNCHANGED <<clientVars, shown, sessionVars, cacheVars, waiting>>
<1>1. /\ IsReply(replies[i]) /\ replies[i].step = "scanning"
      /\ UNCHANGED <<clientVars, shown, sessionVars, cacheVars, waiting>>
  BY DEF Scan, Active, Free, ServerTypes
<1> DEFINE found == [f \in replies[i].files \cap Existing(disk) |-> Match(replies[i], f)]
           new == [replies[i] EXCEPT !.step = "scanned", !.found = found]
<1>2. replies' = [replies EXCEPT ![i] = new]
  BY DEF Scan, ServerTypes
<1>3. \A f \in DOMAIN found : found[f] # Never
  BY DEF Match, Never, Clean, Found
<1> HIDE DEF found
<1>4. Alike(new, replies[i]) /\ new.step = "scanned" /\ new.found = found
  BY <1>1, <1>3 DEF IsReply, Alike
<1> HIDE DEF new
<1> QED BY <1>1, <1>2, <1>4, PutEffect DEF found

LEMMA RecordScanEffect ==
  ASSUME ServerTypes, NEW i \in Slots, RecordScan(i)
  PROVE  /\ replies[i].kind \in {"refresh", "workspace"} /\ replies[i].step = "scanned"
         /\ Goes(i, "publish") /\ replies'[i].found = replies[i].found
         /\ replies'[i].publish = Scanned(scans')
         /\ scans' = [f \in Files |-> IF f \in DOMAIN replies[i].found
                                      THEN replies[i].found[f] ELSE scans[f]]
         /\ UNCHANGED <<clientVars, shown, sessionVars, targets, rules, openDocs, waiting>>
<1>1. /\ replies[i].kind \in {"refresh", "workspace"} /\ replies[i].step = "scanned"
      /\ scans' = [f \in Files |-> IF f \in DOMAIN replies[i].found
                                      THEN replies[i].found[f] ELSE scans[f]]
      /\ UNCHANGED <<clientVars, shown, sessionVars, targets, rules, openDocs, waiting>>
  BY DEF RecordScan, At
<1> DEFINE publish == Scanned(scans')
           new == [replies[i] EXCEPT !.step = "publish", !.publish = publish]
<1>2. replies' = [replies EXCEPT ![i] = new]
  BY DEF RecordScan, ServerTypes
<1> HIDE DEF publish
<1>3. /\ Alike(new, replies[i]) /\ new.step = "publish" /\ new.publish = publish
      /\ new.found = replies[i].found
  BY <1>1, ActiveIsReply DEF IsReply, Alike
<1> HIDE DEF new
<1> QED BY <1>1, <1>2, <1>3, PutEffect DEF publish

-----------------------------------------------------------------------------
(* The queue.                                                              *)

LEMMA QueueStays ==
  ASSUME Queue, NEW i \in Slots, Only(i), UNCHANGED waiting,
         replies[i] = NoReply \/ replies[i].step # "queued",
         replies'[i] = NoReply \/ replies'[i].step # "queued"
  PROVE  Queue'
<1>1. \A p \in 1 .. Len(waiting) : waiting[p] \in Slots \ {i}
  BY DEF Queue, Active, Free
<1>2. \A p \in 1 .. Len(waiting) :
        waiting[p] \in Active' /\ replies'[waiting[p]].step = "queued"
  BY <1>1 DEF Queue, Only, Active, Free
<1>3. \A j \in Active' : replies'[j].step = "queued" => \E p \in 1 .. Len(waiting) : waiting[p] = j
  BY DEF Queue, Only, Active, Free
<1> QED BY <1>2, <1>3 DEF Queue

LEMMA QueueGrows ==
  ASSUME Queue, NEW i \in Slots, Only(i), waiting' = Append(waiting, i),
         replies[i] = NoReply \/ replies[i].step # "queued",
         replies'[i] # NoReply, replies'[i].step = "queued"
  PROVE  Queue'
<1> DEFINE n == Len(waiting)
<1>1. /\ n \in Nat /\ waiting' \in Seq(Slots) /\ Len(waiting') = n + 1
      /\ waiting'[n + 1] = i /\ \A p \in 1 .. n : waiting'[p] = waiting[p]
  BY DEF Queue
<1>2. \A p \in 1 .. n : waiting[p] \in Slots \ {i}
  BY DEF Queue, Active, Free
<1>3. \A p \in 1 .. n : waiting[p] \in Active' /\ replies'[waiting[p]].step = "queued"
  BY <1>2 DEF Queue, Only, Active, Free
<1>4. \A j \in Active' : replies'[j].step = "queued" =>
         j = i \/ \E p \in 1 .. n : waiting[p] = j
  BY DEF Queue, Only, Active, Free
<1>5. \A p, q \in 1 .. n : waiting[p] = waiting[q] => p = q
  BY DEF Queue
<1> HIDE DEF n
<1>6. \A p \in 1 .. n + 1 : p \in 1 .. n \/ p = n + 1
  BY <1>1
<1>7. i \in Active'
  BY DEF Active, Free
<1>8. \A p \in 1 .. Len(waiting') :
         waiting'[p] \in Active' /\ replies'[waiting'[p]].step = "queued"
  BY <1>1, <1>3, <1>6, <1>7
<1>9. \A p, q \in 1 .. Len(waiting') : waiting'[p] = waiting'[q] => p = q
  BY <1>1, <1>2, <1>5, <1>6
<1>10. \A j \in Active' : replies'[j].step = "queued" =>
         \E p \in 1 .. Len(waiting') : waiting'[p] = j
  <2>1. n + 1 \in 1 .. Len(waiting') /\ \A p \in 1 .. n : p \in 1 .. Len(waiting')
    BY <1>1
  <2> QED BY <1>1, <1>4, <2>1
<1> QED BY <1>1, <1>8, <1>9, <1>10 DEF Queue

LEMMA QueueShrinks ==
  ASSUME Queue, NEW i \in Slots, Only(i), waiting # <<>>, i = Head(waiting),
         waiting' = Tail(waiting), replies'[i].step # "queued"
  PROVE  Queue'
<1> DEFINE n == Len(waiting)
<1>1. /\ n \in Nat /\ n > 0 /\ waiting' \in Seq(Slots) /\ Len(waiting') = n - 1
      /\ i = waiting[1] /\ \A p \in 1 .. n - 1 : waiting'[p] = waiting[p + 1]
  BY DEF Queue
<1>2. \A p \in 1 .. n : waiting[p] \in Active /\ replies[waiting[p]].step = "queued"
  BY DEF Queue
<1>3. \A p, q \in 1 .. n : waiting[p] = waiting[q] => p = q
  BY DEF Queue
<1>4. \A j \in Active : replies[j].step = "queued" => \E p \in 1 .. n : waiting[p] = j
  BY DEF Queue
<1> HIDE DEF n
<1>5. \A p \in 1 .. n - 1 : p + 1 \in 1 .. n /\ p + 1 # 1
  BY <1>1
<1>6. 1 \in 1 .. n
  BY <1>1
<1>7. \A p \in 1 .. n - 1 : waiting'[p] \in Active \ {i}
  BY <1>1, <1>2, <1>3, <1>5, <1>6
<1>8. \A p \in 1 .. Len(waiting') :
         waiting'[p] \in Active' /\ replies'[waiting'[p]].step = "queued"
  BY <1>1, <1>2, <1>5, <1>7 DEF Only, Active, Free
<1>9. \A p, q \in 1 .. Len(waiting') : waiting'[p] = waiting'[q] => p = q
  <2>1. SUFFICES ASSUME NEW p \in 1 .. n - 1, NEW q \in 1 .. n - 1, waiting'[p] = waiting'[q]
                 PROVE  p = q
    BY <1>1
  <2>2. p + 1 = q + 1
    BY <1>1, <1>3, <1>5, <2>1
  <2> QED BY <1>1, <2>2
<1>10. \A j \in Active' : replies'[j].step = "queued" =>
         \E p \in 1 .. Len(waiting') : waiting'[p] = j
  <2>1. SUFFICES ASSUME NEW j \in Active', replies'[j].step = "queued"
                 PROVE  \E p \in 1 .. n - 1 : waiting'[p] = j
    BY <1>1
  <2>2. j \in Active \ {i} /\ replies[j].step = "queued"
    BY <2>1 DEF Only, Active, Free
  <2>3. PICK p \in 1 .. n : waiting[p] = j
    BY <1>4, <2>2
  <2>4. p - 1 \in 1 .. n - 1 /\ (p - 1) + 1 = p
    BY <1>1, <2>2, <2>3
  <2> QED BY <1>1, <2>3, <2>4
<1> QED BY <1>1, <1>8, <1>9, <1>10 DEF Queue

(* A queue of which the latest reply about a file stays the latest.        *)
LEMMA LatestStays ==
  ASSUME Queue, NEW i \in Slots, Only(i), UNCHANGED waiting, NEW f, NEW j \in Slots \ {i},
         Latest(j, f), About(i, f)' => About(i, f)
  PROVE  Latest(j, f)'
<1>1. \A p \in 1 .. Len(waiting) : waiting[p] \in Slots
  BY DEF Queue
<1>2. \A k \in Slots : About(k, f)' => About(k, f)
  BY DEF Only, About
<1>3. About(j, f)' /\ replies'[j] = replies[j]
  BY DEF Latest, Only, About
<1>4. \A p \in 1 .. Len(waiting) : \A q \in p + 1 .. Len(waiting) : q \in 1 .. Len(waiting)
  BY DEF Queue
<1>5. \A p \in 1 .. Len(waiting) : ~About(waiting[p], f) => ~About(waiting[p], f)'
  BY <1>1, <1>2 DEF About
<1> QED BY <1>3, <1>4, <1>5 DEF Latest

LEMMA LatestSelf ==
  ASSUME Queue, NEW i \in Slots, Only(i), UNCHANGED waiting, NEW f, Latest(i, f),
         replies[i].step = "scanning", replies'[i].step = "scanned", About(i, f)'
  PROVE  Latest(i, f)'
<1>1. \A q \in 1 .. Len(waiting) : waiting[q] \in Slots \ {i} /\ ~About(waiting[q], f)
  BY DEF Queue, Latest
<1>2. \A q \in 1 .. Len(waiting) : ~About(waiting[q], f)'
  BY <1>1 DEF About, Only
<1> QED BY <1>2 DEF Latest

LEMMA LatestGrows ==
  ASSUME Queue, NEW i \in Slots, Only(i), waiting' = Append(waiting, i), NEW f,
         NEW j \in Slots \ {i}, Latest(j, f), ~About(i, f)'
  PROVE  Latest(j, f)'
<1> DEFINE n == Len(waiting)
<1>1. /\ n \in Nat /\ Len(waiting') = n + 1 /\ waiting'[n + 1] = i
      /\ \A p \in 1 .. n : waiting'[p] = waiting[p] /\ waiting[p] \in Slots
  BY DEF Queue
<1>2. \A k \in Slots : About(k, f)' => About(k, f)
  BY DEF Only, About
<1>3. About(j, f)' /\ replies'[j] = replies[j]
  BY DEF Latest, Only, About
<1>4. \A p \in 1 .. n + 1 : p \in 1 .. n \/ p = n + 1
  BY <1>1
<1>5. ASSUME NEW q \in 1 .. n + 1, q \in 1 .. n => ~About(waiting[q], f)
      PROVE  ~About(waiting[q], f)'
  BY <1>1, <1>2, <1>4, <1>5 DEF About
<1>6. CASE \E p \in 1 .. n : waiting[p] = j /\ \A q \in p + 1 .. n : ~About(waiting[q], f)
  <2>1. PICK p \in 1 .. n : waiting[p] = j /\ \A q \in p + 1 .. n : ~About(waiting[q], f)
    BY <1>6
  <2>2. p \in 1 .. Len(waiting') /\ waiting'[p] = j
    BY <1>1, <2>1
  <2>3. \A q \in p + 1 .. Len(waiting') : q \in 1 .. n + 1 /\ (q \in 1 .. n => q \in p + 1 .. n)
    BY <1>1
  <2>4. \A q \in p + 1 .. Len(waiting') : ~About(waiting[q], f)'
    BY <1>5, <2>1, <2>3
  <2> QED BY <1>3, <2>2, <2>4 DEF Latest
<1>7. CASE /\ replies[j].step \in {"scanning", "scanned"}
           /\ \A q \in 1 .. n : ~About(waiting[q], f)
  <2>1. \A q \in 1 .. Len(waiting') : ~About(waiting[q], f)'
    BY <1>1, <1>5, <1>7
  <2> QED BY <1>3, <1>7, <2>1 DEF Latest
<1> QED BY <1>6, <1>7 DEF Latest

LEMMA LatestNew ==
  ASSUME Queue, NEW i \in Slots, waiting' = Append(waiting, i), NEW f, About(i, f)'
  PROVE  Latest(i, f)'
<1>1. /\ Len(waiting) + 1 \in 1 .. Len(waiting') /\ waiting'[Len(waiting) + 1] = i
      /\ ~\E q \in (Len(waiting) + 1) + 1 .. Len(waiting') : TRUE
  BY DEF Queue
<1> QED BY <1>1 DEF Latest

LEMMA LatestHead ==
  ASSUME Queue, NEW i \in Slots, Only(i), waiting # <<>>, i = Head(waiting),
         waiting' = Tail(waiting), replies[i].step = "queued", Goes(i, "scanning"),
         NEW f, NEW j \in Slots, Latest(j, f)
  PROVE  Latest(j, f)'
<1> DEFINE n == Len(waiting)
<1>1. /\ n \in Nat /\ n > 0 /\ Len(waiting') = n - 1 /\ i = waiting[1]
      /\ \A p \in 1 .. n - 1 : waiting'[p] = waiting[p + 1]
      /\ \A p \in 1 .. n : waiting[p] \in Slots
  BY DEF Queue
<1>2. \A k \in Slots : About(k, f)' => About(k, f)
  BY DEF Only, About, Goes, Alike
<1>3. About(j, f)'
  BY DEF Latest, Only, About, Goes, Alike
<1>4. ASSUME NEW q \in 1 .. n - 1, ~About(waiting[q + 1], f)
      PROVE  ~About(waiting[q], f)'
  <2>1. waiting'[q] = waiting[q + 1] /\ waiting[q + 1] \in Slots
    BY <1>1
  <2> QED BY <1>2, <1>4, <2>1 DEF About
<1>5. CASE \E p \in 1 .. n : waiting[p] = j /\ \A q \in p + 1 .. n : ~About(waiting[q], f)
  <2>1. PICK p \in 1 .. n : waiting[p] = j /\ \A q \in p + 1 .. n : ~About(waiting[q], f)
    BY <1>5
  <2>2. CASE p = 1
    <3>1. j = i /\ replies'[j].step = "scanning"
      BY <1>1, <2>1, <2>2 DEF Goes
    <3>2. \A q \in 1 .. n - 1 : q + 1 \in p + 1 .. n
      BY <1>1, <2>2
    <3>3. \A q \in 1 .. Len(waiting') : ~About(waiting[q], f)'
      BY <1>1, <1>4, <2>1, <3>2
    <3> QED BY <1>3, <3>1, <3>3 DEF Latest
  <2>3. CASE p # 1
    <3>1. p - 1 \in 1 .. Len(waiting') /\ waiting'[p - 1] = j
      BY <1>1, <2>1, <2>3
    <3>2. \A q \in (p - 1) + 1 .. n - 1 : q \in 1 .. n - 1 /\ q + 1 \in p + 1 .. n
      BY <1>1, <2>3
    <3>3. \A q \in (p - 1) + 1 .. Len(waiting') : ~About(waiting[q], f)'
      BY <1>1, <1>4, <2>1, <3>2
    <3> QED BY <1>3, <3>1, <3>3 DEF Latest
  <2> QED BY <2>2, <2>3
<1>6. CASE /\ replies[j].step \in {"scanning", "scanned"}
           /\ \A q \in 1 .. n : ~About(waiting[q], f)
  <2>1. j # i /\ replies'[j] = replies[j]
    BY <1>6 DEF Only
  <2>2. \A q \in 1 .. n - 1 : q + 1 \in 1 .. n
    BY <1>1
  <2>3. \A q \in 1 .. Len(waiting') : ~About(waiting[q], f)'
    BY <1>1, <1>4, <1>6, <2>2
  <2> QED BY <1>3, <1>6, <2>1, <2>3 DEF Latest
<1> QED BY <1>5, <1>6 DEF Latest

-----------------------------------------------------------------------------
(* What is due.                                                            *)

LEMMA ExpectedIs ==
  ASSUME NEW f
  PROVE  Expected(f) =
           IF /\ rules > 0 /\ f \in targets /\ (onlyDirty => Dirty(f, disk))
              /\ f \notin ignored
           THEN Found(disk[f], rules) ELSE Clean
BY DEF Expected, TargetsOf, Session

LEMMA TargetIs ==
  ASSUME NEW i, NEW f
  PROVE  Target(i, f) <=> f \in targets /\ (replies[i].session.onlyDirty => Dirty(f, disk))
BY DEF Target, TargetsOf

LEMMA ExpectedStays ==
  ASSUME NEW f, UNCHANGED <<onlyDirty, rules>>, disk'[f] = disk[f],
         f \in ignored' <=> f \in ignored, f \in targets' <=> f \in targets
  PROVE  Expected(f)' = Expected(f)
<1>1. Dirty(f, disk)' <=> Dirty(f, disk)
  BY DEF Dirty
<1>2. Expected(f)' =
        IF /\ rules' > 0 /\ f \in targets' /\ (onlyDirty' => Dirty(f, disk)')
           /\ f \notin ignored'
        THEN Found(disk'[f], rules') ELSE Clean
  BY DEF Expected, TargetsOf, Session, Dirty, Found, Clean
<1>3. Expected(f) =
        IF /\ rules > 0 /\ f \in targets /\ (onlyDirty => Dirty(f, disk)) /\ f \notin ignored
        THEN Found(disk[f], rules) ELSE Clean
  BY ExpectedIs
<1> QED BY <1>1, <1>2, <1>3

LEMMA DueStays ==
  ASSUME NEW i \in Slots, NEW f, Due(i, f), replies'[i] = replies[i],
         UNCHANGED <<onlyDirty, rules>>, disk'[f] = disk[f],
         f \in ignored' <=> f \in ignored, f \in targets' <=> f \in targets
  PROVE  Due(i, f)'
<1>1. Expected(f)' = Expected(f)
  BY ExpectedStays
<1>2. Target(i, f)' <=> Target(i, f)
  BY DEF Target, TargetsOf, Dirty
<1>3. Agrees(i, f)' <=> Agrees(i, f)
  BY DEF Agrees
<1>4. Result(replies[i], f)' = Result(replies[i], f)
  BY DEF Result
<1> QED BY <1>1, <1>2, <1>3, <1>4 DEF Due

(* The context that no step of a reply changes.                            *)
Still == UNCHANGED <<config, disk, opened, raced, late, onlyDirty, ignored, targets, state, ready>>

LEMMA StartIsDue ==
  ASSUME ServerTypes, Queue, NEW i \in Slots, Start(i), NEW f, Due(i, f)
  PROVE  Due(i, f)'
<1>1. /\ IsReply(replies[i]) /\ replies[i].step = "queued" /\ Goes(i, "scanning")
      /\ replies'[i].rules = rules /\ Still /\ UNCHANGED rules
  BY StartEffect DEF Still, clientVars, sessionVars, cacheVars
<1>2. f \in replies'[i].files <=>
        rules # 0 /\ IF replies[i].kind = "workspace" THEN Target(i, f) ELSE f \in replies[i].files
  BY StartEffect
<1>3. Target(i, f)' <=> Target(i, f)
  BY <1>1 DEF Target, TargetsOf, Dirty, Goes, Alike, Still
<1>4. Agrees(i, f)'
  BY <1>1 DEF Due, Agrees, Goes, Alike, Still
<1>5. f \in replies[i].files \/ replies[i].kind = "workspace" \/ ~Target(i, f)
  BY <1>1 DEF Due
<1>6. f \in replies'[i].files <=> rules > 0 /\ Target(i, f)
  BY <1>1, <1>2, <1>5 DEF Due, ServerTypes
<1> QED BY <1>1, <1>3, <1>4, <1>6 DEF Due, Goes

LEMMA ScanIsDue ==
  ASSUME ServerTypes, NEW i \in Slots, Scan(i), NEW f, Due(i, f), f \in Existing(disk)
  PROVE  Due(i, f)'
<1>1. /\ IsReply(replies[i]) /\ replies[i].step = "scanning" /\ Goes(i, "scanned")
      /\ Still /\ UNCHANGED rules
  BY ScanEffect DEF Still, clientVars, sessionVars, cacheVars
<1>2. /\ Agrees(i, f) /\ replies[i].rules = rules
      /\ f \in replies[i].files <=> rules > 0 /\ Target(i, f)
  BY <1>1 DEF Due
<1>3. Agrees(i, f)'
  BY <1>1, <1>2 DEF Agrees, Goes, Alike, Still
<1>4. Expected(f)' = Expected(f)
  BY <1>1, ExpectedStays DEF Still
<1>5. /\ DOMAIN replies'[i].found = replies[i].files \cap Existing(disk)
      /\ f \in DOMAIN replies'[i].found => replies'[i].found[f] = Match(replies[i], f)
  BY ScanEffect
<1>6. Result(replies[i], f)' = IF f \in replies[i].files THEN Match(replies[i], f) ELSE Clean
  BY <1>5 DEF Result
<1>7. replies[i].session.onlyDirty = onlyDirty /\ (f \in replies[i].session.ignored <=> f \in ignored)
  BY <1>2 DEF Agrees
<1>8. Target(i, f) <=> f \in targets /\ (onlyDirty => Dirty(f, disk))
  BY <1>7, TargetIs
<1>9. f \in replies[i].files =>
        Match(replies[i], f) = IF f \in ignored THEN Clean ELSE Found(disk[f], rules)
  <2>1. SUFFICES ASSUME f \in replies[i].files
                 PROVE  Match(replies[i], f) = IF f \in ignored THEN Clean ELSE Found(disk[f], rules)
    OBVIOUS
  <2>2. onlyDirty => Dirty(f, disk)
    BY <1>2, <1>8, <2>1
  <2>3. replies[i].session.onlyDirty => Dirty(f, disk)
    BY <1>7, <2>2
  <2> QED BY <1>2, <1>7, <2>3 DEF Match
<1>10. Result(replies[i], f)' = Expected(f)
  BY <1>2, <1>6, <1>8, <1>9, ExpectedIs
<1> QED BY <1>1, <1>3, <1>4, <1>10 DEF Due, Goes

-----------------------------------------------------------------------------
(* The steps of a reply.                                                   *)

LEMMA TypesMove ==
  ASSUME ServerTypes, NEW i \in Slots, Only(i), Still, UNCHANGED registry, rules' \in Nat,
         replies'[i] = NoReply \/ IsReply(replies'[i]),
         shown' = [f \in Files |-> shown'[f]], scans' = [f \in Files |-> scans'[f]]
  PROVE  ServerTypes'
BY DEF ServerTypes, Only, Still

(* A reply goes on or ends: those in flight after it were so before.        *)
LEMMA AloneMoves ==
  ASSUME NEW f, Alone(f), NEW i \in Slots, Only(i), Still, replies[i] # NoReply,
         replies'[i] = NoReply \/ Alike(replies'[i], replies[i])
  PROVE  Alone(f)'
<1>1. \A j \in Active' : /\ j \in Active /\ replies'[j].kind = replies[j].kind
                         /\ replies'[j].file = replies[j].file
  BY DEF Only, Active, Free, Alike
<1> QED BY <1>1 DEF Alone, Touches, InTurn, Still

LEMMA CrowdMoves ==
  ASSUME Crowd, NEW i \in Slots, Only(i), Still, replies[i] # NoReply,
         \/ replies'[i] = NoReply
         \/ /\ Alike(replies'[i], replies[i])
            /\ replies'[i].step \in {"scanning", "scanned"} =>
                replies[i].step \in {"scanning", "scanned"}
  PROVE  Crowd'
<1>1. \A j \in Active' : j \in Active
  BY DEF Only, Active, Free
<1>2. \A j \in Busy' : j \in Busy
  BY DEF Only, Active, Free, Busy
<1>3. \A f \in opened \ raced : Alone(f)'
  BY AloneMoves DEF Crowd
<1> QED BY <1>1, <1>2, <1>3 DEF Crowd, Still

LEMMA DocumentsMove ==
  ASSUME Documents, NEW i \in Slots, Only(i), Still, UNCHANGED openDocs, replies[i] # NoReply,
         \/ replies'[i] = NoReply /\ replies[i].kind \notin {"open", "delete"}
         \/ replies'[i] # NoReply /\ Alike(replies'[i], replies[i])
            /\ replies[i].step # "forget"
  PROVE  Documents'
<1>1. \A j \in Active' : /\ j \in Active /\ replies'[j].kind = replies[j].kind
                         /\ replies'[j].file = replies[j].file
                         /\ replies[j].kind = "delete" =>
                             replies'[j].files = replies[j].files /\ replies'[j].step = replies[j].step
  BY DEF Only, Active, Free, Alike, Documents
<1>2. \A j \in Active : replies[j].kind \in {"open", "delete"} => j \in Active'
  BY DEF Only, Active, Free
<1>3. \A f : (Opening(f) => Opening(f)') /\ (Deleting(f) => Deleting(f)')
  BY <1>1, <1>2 DEF Opening, Deleting
<1> QED BY <1>1, <1>3 DEF Documents, Still

LEMMA FiledMoves ==
  ASSUME Filed, NEW i \in Slots, Only(i), openDocs' \subseteq openDocs,
         replies'[i] = NoReply \/ replies'[i].step # "add",
         \A f : scans[f] # Never => scans'[f] # Never
  PROVE  Filed'
<1>1. \A j \in Slots : replies'[j].kind = "open" /\ replies'[j].step = "add" =>
                         replies'[j] = replies[j]
  BY DEF Only, NoReply
<1>2. Never' = Never
  BY DEF Never
<1> QED BY <1>1, <1>2 DEF Filed

LEMMA KnownMoves ==
  ASSUME Known, NEW i \in Slots, Only(i), Still,
         \A f \in opened : /\ scans[f] # Never => scans'[f] # Never
                           /\ About(i, f) => About(i, f)' \/ scans'[f] # Never
  PROVE  Known'
<1>1. \A j \in Slots \ {i} : \A f : About(j, f)' <=> About(j, f)
  BY DEF Only, About
<1>2. Never' = Never
  BY DEF Never
<1> QED BY <1>1, <1>2 DEF Known, Still

LEMMA SessionsMove ==
  ASSUME Sessions, NEW i \in Slots, Only(i), Still, openDocs \subseteq openDocs',
         replies'[i] = NoReply \/ Alike(replies'[i], replies[i])
  PROVE  Sessions'
<1>1. \A j \in Slots : replies'[j] # NoReply => /\ replies'[j].kind = replies[j].kind
                                               /\ replies'[j].session = replies[j].session
  BY DEF Only, Alike
<1>2. \A j \in Slots : replies'[j].kind \in {"refresh", "workspace"} => replies'[j] # NoReply
  BY DEF NoReply
<1>3. \A j \in Slots : replies'[j].kind \in {"refresh", "workspace"} =>
        \A f \in opened \ raced : Agrees(j, f)'
  BY <1>1, <1>2 DEF Sessions, Agrees, Still
<1> QED BY <1>1, <1>2, <1>3 DEF Sessions, Still

LEMMA CurrentMoves ==
  ASSUME NEW i \in Slots, NEW f, Current(f), Only(i), Still, UNCHANGED rules,
         shown'[f] = shown[f],
         About(i, f)' => About(i, f), Wide(i)' => Wide(i),
         \A j \in Slots \ {i} : Latest(j, f) => Latest(j, f)',
         Latest(i, f) /\ Due(i, f) => Latest(i, f)' /\ Due(i, f)',
         Wide(i) /\ Due(i, f) => Wide(i)' /\ Due(i, f)'
  PROVE  Current(f)'
<1>1. \A j \in Slots \ {i} : /\ About(j, f)' <=> About(j, f)
                             /\ Wide(j)' <=> Wide(j)
                             /\ Due(j, f) => Due(j, f)'
  <2>1. SUFFICES ASSUME NEW j \in Slots \ {i}
                 PROVE  /\ About(j, f)' <=> About(j, f)
                        /\ Wide(j)' <=> Wide(j)
                        /\ Due(j, f) => Due(j, f)'
    OBVIOUS
  <2>2. replies'[j] = replies[j]
    BY DEF Only
  <2> QED BY <2>2, DueStays DEF About, Wide, Still
<1>2. Expected(f)' = Expected(f)
  BY ExpectedStays DEF Still
<1>3. CASE shown[f] = Expected(f) /\ \A j \in Slots : ~About(j, f) /\ ~Wide(j)
  BY <1>1, <1>2, <1>3 DEF Current
<1>4. CASE \E j \in Slots : Latest(j, f) /\ Due(j, f)
  <2>1. PICK j \in Slots : Latest(j, f) /\ Due(j, f)
    BY <1>4
  <2>2. Latest(j, f)' /\ Due(j, f)'
    BY <1>1, <2>1
  <2> QED BY <2>2 DEF Current
<1>5. CASE \E j \in Slots : Wide(j) /\ Due(j, f)
  <2>1. PICK j \in Slots : Wide(j) /\ Due(j, f)
    BY <1>5
  <2>2. Wide(j)' /\ Due(j, f)'
    BY <1>1, <2>1
  <2> QED BY <2>2 DEF Current
<1> QED BY <1>3, <1>4, <1>5 DEF Current

(* The replies that make a file current touch it.                          *)
LEMMA TouchesIts ==
  ASSUME NEW i \in Slots, NEW f
  PROVE  /\ About(i, f) => i \in Active /\ Touches(i, f)
         /\ Wide(i) => i \in Active /\ Touches(i, f) /\ ~InTurn(i)
BY DEF About, Wide, Active, Free, Touches, InTurn, NoReply

(* No other reply touches the file that a reply about all files touches.   *)
LEMMA OneReply ==
  ASSUME Crowd, NEW f \in opened \ raced, NEW i \in Active, Touches(i, f), ~InTurn(i)
  PROVE  \A j \in Slots \ {i} : j \in Active => ~Touches(j, f)
BY DEF Crowd, Alone

LEMMA ExpectedIsSome ==
  ASSUME NEW f
  PROVE  Expected(f) # Never
BY DEF Expected, Never, Clean, Found

(* Each keeps the invariant.                                               *)
Kept == ServerTypes' /\ RunInv'

LEMMA FetchKeeps ==
  ASSUME ServerTypes, RunInv, NEW i \in Slots, Fetch(i) \/ FetchFails(i)
  PROVE  Kept
<1>1. /\ replies[i].kind = "refresh" /\ replies[i].step = "fetch" /\ Only(i) /\ Still
      /\ UNCHANGED <<registry, rules, shown, scans, openDocs, waiting>>
      /\ Goes(i, "install") \/ replies'[i] = NoReply
  <2>1. CASE Fetch(i)
    BY <2>1, FetchEffect DEF Goes, Still, clientVars, sessionVars, cacheVars
  <2>2. CASE FetchFails(i)
    BY <2>2, EndEffect DEF FetchFails, At, Still, clientVars, sessionVars, cacheVars
  <2> QED BY <2>1, <2>2
<1>2. /\ replies[i] # NoReply
      /\ replies'[i] = NoReply \/ (Alike(replies'[i], replies[i]) /\ replies'[i].step = "install")
  BY <1>1 DEF NoReply, Goes
<1>3. ServerTypes'
  BY <1>1, <1>2, TypesMove DEF Alike, ServerTypes
<1>4. Queue'
  BY <1>1, <1>2, QueueStays DEF RunInv
<1>5. Crowd'
  BY <1>1, <1>2, CrowdMoves DEF RunInv, Alike
<1>6. Workspace'
  BY <1>1 DEF RunInv, Workspace, Still, Existing
<1>7. Documents'
  BY <1>1, <1>2, DocumentsMove, NoReplyIsNone DEF RunInv, Alike, NoReply, IsReply
<1>8. \A f : ~About(i, f) /\ ~Wide(i) /\ ~About(i, f)' /\ ~Wide(i)'
  BY <1>1, <1>2 DEF About, Wide, Alike, NoReply
<1>9. Known'
  BY <1>1, <1>8, KnownMoves DEF RunInv
<1>10. Sessions'
  BY <1>1, <1>2, SessionsMove DEF RunInv
<1>20. Filed'
  BY <1>1, <1>2, FiledMoves DEF RunInv
<1>11. ASSUME NEW f \in opened \ raced
       PROVE  Current(f)'
  <2>1. \A j \in Slots \ {i} : Latest(j, f) => Latest(j, f)'
    BY <1>1, <1>8, LatestStays DEF RunInv
  <2>2. ~Latest(i, f)
    BY <1>8 DEF Latest
  <2> QED BY <1>1, <1>8, <2>1, <2>2, CurrentMoves DEF RunInv
<1> QED BY <1>1, <1>3, <1>4, <1>5, <1>6, <1>7, <1>9, <1>10, <1>11, <1>20 DEF Kept, RunInv, Still

LEMMA InstallKeeps ==
  ASSUME ServerTypes, RunInv, NEW i \in Slots, Install(i)
  PROVE  Kept
<1>1. /\ replies[i].kind = "refresh" /\ replies[i].step = "install" /\ Goes(i, "select")
      /\ Still /\ UNCHANGED <<registry, shown, scans, openDocs, waiting>>
      /\ rules' = replies[i].rules
  BY InstallEffect DEF Install, Still, clientVars, sessionVars
<1>2. /\ replies[i] # NoReply /\ Only(i) /\ Alike(replies'[i], replies[i])
      /\ replies'[i].step = "select" /\ IsReply(replies[i])
  BY <1>1 DEF NoReply, Goes, Alike
<1>3. ServerTypes'
  BY <1>1, <1>2, TypesMove DEF Alike, ServerTypes, IsReply
<1>4. Queue'
  BY <1>1, <1>2, QueueStays DEF RunInv
<1>5. Crowd'
  BY <1>1, <1>2, CrowdMoves DEF RunInv, Alike
<1>6. Workspace'
  BY <1>1 DEF RunInv, Workspace, Still, Existing
<1>7. Documents'
  BY <1>1, <1>2, DocumentsMove DEF RunInv, Alike, NoReply, IsReply
<1>8. \A f : ~About(i, f)
  BY <1>1 DEF About
<1>9. Known'
  BY <1>1, <1>2, <1>8, KnownMoves DEF RunInv
<1>10. Sessions'
  BY <1>1, <1>2, SessionsMove DEF RunInv
<1>20. Filed'
  BY <1>1, <1>2, FiledMoves DEF RunInv
<1>11. ASSUME NEW f \in opened \ raced
       PROVE  Current(f)'
  <2>1. Wide(i)'
    BY <1>1, <1>2 DEF Wide, Alike
  <2>2. Agrees(i, f)
    BY <1>1 DEF RunInv, Sessions
  <2>3. Agrees(i, f)'
    BY <1>1, <1>2, <2>2 DEF Agrees, Alike, Still
  <2>4. Due(i, f)'
    BY <1>2, <2>3 DEF Due
  <2> QED BY <2>1, <2>4 DEF Current
<1> QED BY <1>1, <1>3, <1>4, <1>5, <1>6, <1>7, <1>9, <1>10, <1>11, <1>20 DEF Kept, RunInv, Still

LEMMA SelectKeeps ==
  ASSUME ServerTypes, RunInv, NEW i \in Slots, SelectOpenDocs(i)
  PROVE  Kept
<1>1. /\ replies[i].kind = "refresh" /\ replies[i].step = "select" /\ Goes(i, "begin")
      /\ Still /\ UNCHANGED <<registry, rules, shown, scans, openDocs, waiting>>
      /\ replies'[i].files = openDocs \cap TargetsOf(replies[i].session, disk)
  BY SelectEffect DEF Still, clientVars, sessionVars, cacheVars
<1>2. /\ replies[i] # NoReply /\ Only(i) /\ Alike(replies'[i], replies[i])
      /\ replies'[i].step = "begin"
  BY <1>1 DEF NoReply, Goes
<1>3. ServerTypes'
  BY <1>1, <1>2, TypesMove DEF Alike, ServerTypes
<1>4. Queue'
  BY <1>1, <1>2, QueueStays DEF RunInv
<1>5. Crowd'
  BY <1>1, <1>2, CrowdMoves DEF RunInv, Alike
<1>6. Workspace'
  BY <1>1 DEF RunInv, Workspace, Still, Existing
<1>7. Documents'
  BY <1>1, <1>2, DocumentsMove DEF RunInv, Alike, NoReply, IsReply
<1>8. (\A f : ~About(i, f) /\ ~About(i, f)') /\ Wide(i) /\ Wide(i)'
  BY <1>1, <1>2 DEF About, Wide, Alike
<1>9. Known'
  BY <1>1, <1>2, <1>8, KnownMoves DEF RunInv
<1>10. Sessions'
  BY <1>1, <1>2, SessionsMove DEF RunInv
<1>20. Filed'
  BY <1>1, <1>2, FiledMoves DEF RunInv
<1>11. ASSUME NEW f \in opened \ raced
       PROVE  Current(f)'
  <2>1. \A j \in Slots \ {i} : Latest(j, f) => Latest(j, f)'
    BY <1>1, <1>2, <1>8, LatestStays DEF RunInv
  <2>2. f \in openDocs
    BY <1>1 DEF RunInv, Sessions
  <2>3. f \in replies'[i].files <=> Target(i, f)
    BY <1>1, <2>2 DEF Target
  <2>4. Target(i, f)' <=> Target(i, f)
    BY <1>1, <1>2 DEF Target, TargetsOf, Dirty, Alike, Still
  <2>5. Due(i, f) => Due(i, f)'
    BY <1>1, <1>2, <2>3, <2>4 DEF Due, Agrees, Alike, Still
  <2>6. ~Latest(i, f)
    BY <1>8 DEF Latest
  <2> QED BY <1>1, <1>2, <1>8, <2>1, <2>5, <2>6, CurrentMoves DEF RunInv
<1> QED BY <1>1, <1>3, <1>4, <1>5, <1>6, <1>7, <1>9, <1>10, <1>11, <1>20 DEF Kept, RunInv, Still

LEMMA DetachKeeps ==
  ASSUME ServerTypes, RunInv, NEW i \in Slots, Detach(i)
  PROVE  Kept
<1>1. /\ replies[i].kind \in {"refresh", "workspace"} /\ replies[i].step = "begin"
      /\ Goes(i, "queued") /\ replies'[i].files = replies[i].files
      /\ Still /\ UNCHANGED <<registry, rules, shown, scans, openDocs>>
      /\ waiting' = Append(waiting, i)
  BY DetachEffect DEF Still, clientVars, sessionVars, cacheVars
<1>2. /\ replies[i] # NoReply /\ Only(i) /\ Alike(replies'[i], replies[i])
      /\ replies'[i].step = "queued" /\ replies'[i] # NoReply
  BY <1>1 DEF NoReply, Goes, Alike, IsReply
<1>3. ServerTypes'
  BY <1>1, <1>2, TypesMove DEF Alike, ServerTypes
<1>4. Queue'
  BY <1>1, <1>2, QueueGrows DEF RunInv
<1>5. Crowd'
  BY <1>1, <1>2, CrowdMoves DEF RunInv, Alike
<1>6. Workspace'
  BY <1>1 DEF RunInv, Workspace, Still, Existing
<1>7. Documents'
  BY <1>1, <1>2, DocumentsMove DEF RunInv
<1>8. (\A f : ~About(i, f) /\ ~About(i, f)') /\ Wide(i) /\ Wide(i)'
  BY <1>1, <1>2 DEF About, Wide, Alike
<1>9. Known'
  BY <1>1, <1>2, <1>8, KnownMoves DEF RunInv
<1>10. Sessions'
  BY <1>1, <1>2, SessionsMove DEF RunInv
<1>20. Filed'
  BY <1>1, <1>2, FiledMoves DEF RunInv
<1>11. ASSUME NEW f \in opened \ raced
       PROVE  Current(f)'
  <2>1. \A j \in Slots \ {i} : Latest(j, f) => Latest(j, f)'
    BY <1>1, <1>2, <1>8, LatestGrows DEF RunInv
  <2>2. Target(i, f)' <=> Target(i, f)
    BY <1>1, <1>2 DEF Target, TargetsOf, Dirty, Alike, Still
  <2>3. Due(i, f) => Due(i, f)'
    BY <1>1, <1>2, <2>2 DEF Due, Agrees, Alike, Still
  <2>4. ~Latest(i, f)
    BY <1>8 DEF Latest
  <2> QED BY <1>1, <1>2, <1>8, <2>1, <2>3, <2>4, CurrentMoves DEF RunInv
<1> QED BY <1>1, <1>3, <1>4, <1>5, <1>6, <1>7, <1>9, <1>10, <1>11, <1>20 DEF Kept, RunInv, Still
LEMMA StartKeeps ==
  ASSUME ServerTypes, RunInv, NEW i \in Slots, Start(i)
  PROVE  Kept
<1>1. /\ waiting # <<>> /\ i = Head(waiting) /\ waiting' = Tail(waiting)
      /\ IsReply(replies[i]) /\ replies[i].step = "queued" /\ Goes(i, "scanning")
      /\ Still /\ UNCHANGED <<registry, rules, shown, scans, openDocs>>
  BY StartEffect DEF RunInv, Still, clientVars, sessionVars, cacheVars
<1>2. /\ replies[i] # NoReply /\ Only(i) /\ Alike(replies'[i], replies[i])
      /\ replies'[i].step = "scanning" /\ replies'[i] # NoReply
  BY <1>1, NoReplyIsNone DEF NoReply, Goes, Alike, IsReply
<1>3. ServerTypes'
  BY <1>1, <1>2, TypesMove DEF Alike, ServerTypes
<1>4. Queue'
  BY <1>1, <1>2, QueueShrinks DEF RunInv
<1>5. Crowd'
  <2>1. \A f \in opened \ raced : Alone(f)'
    BY <1>1, <1>2, AloneMoves DEF RunInv, Crowd
  <2>2. Active' = Active
    BY <1>2 DEF Only, Active, Free
  <2>3. config.jobs = 1 => \A j, k \in Busy' : j = k
    <3>1. SUFFICES ASSUME config.jobs = 1
                   PROVE  \A j, k \in Busy' : j = k
      OBVIOUS
    <3>2. Cardinality(Busy) < 1
      BY <3>1, StartEffect DEF RunInv
    <3>3. IsFiniteSet(Busy)
      <4>1. IsFiniteSet(Slots) /\ Busy \subseteq Slots
        BY FS_Interval, LanguageServerAssumption DEF Slots, Busy, Active
      <4> QED BY <4>1, FS_Subset
    <3>4. Cardinality(Busy) = 0
      BY <3>2, <3>3, FS_CardinalityType
    <3>5. Busy = {}
      BY <3>3, <3>4, FS_EmptySet
    <3> QED BY <1>2, <3>5 DEF Busy, Only, Active, Free
  <2> QED BY <1>1, <2>1, <2>2, <2>3 DEF RunInv, Crowd, Still
<1>6. Workspace'
  BY <1>1 DEF RunInv, Workspace, Still, Existing
<1>7. Documents'
  BY <1>1, <1>2, DocumentsMove DEF RunInv
<1>8. \A f : (About(i, f)' <=> About(i, f)) /\ (Wide(i)' <=> Wide(i))
  BY <1>1, <1>2 DEF About, Wide, Alike
<1>9. Known'
  BY <1>1, <1>2, <1>8, KnownMoves DEF RunInv
<1>10. Sessions'
  BY <1>1, <1>2, SessionsMove DEF RunInv
<1>20. Filed'
  BY <1>1, <1>2, FiledMoves DEF RunInv
<1>11. ASSUME NEW f \in opened \ raced
       PROVE  Current(f)'
  <2>1. \A j \in Slots : Latest(j, f) => Latest(j, f)'
    BY <1>1, <1>2, LatestHead DEF RunInv
  <2>2. Due(i, f) => Due(i, f)'
    BY <1>1, <1>2, StartIsDue DEF RunInv
  <2> QED BY <1>1, <1>2, <1>8, <2>1, <2>2, CurrentMoves DEF RunInv
<1> QED BY <1>1, <1>3, <1>4, <1>5, <1>6, <1>7, <1>9, <1>10, <1>11, <1>20 DEF Kept, RunInv, Still

LEMMA ScanKeeps ==
  ASSUME ServerTypes, RunInv, NEW i \in Slots, Scan(i)
  PROVE  Kept
<1>1. /\ IsReply(replies[i]) /\ replies[i].step = "scanning" /\ Goes(i, "scanned")
      /\ Still /\ UNCHANGED <<registry, rules, shown, scans, openDocs, waiting>>
  BY ScanEffect DEF Still, clientVars, sessionVars, cacheVars
<1>2. /\ replies[i] # NoReply /\ Only(i) /\ Alike(replies'[i], replies[i])
      /\ replies'[i].step = "scanned" /\ replies'[i] # NoReply
  BY <1>1, NoReplyIsNone DEF NoReply, Goes, Alike, IsReply
<1>3. ServerTypes'
  BY <1>1, <1>2, TypesMove DEF Alike, ServerTypes
<1>4. Queue'
  BY <1>1, <1>2, QueueStays DEF RunInv
<1>5. Crowd'
  BY <1>1, <1>2, CrowdMoves DEF RunInv, Alike
<1>6. Workspace'
  BY <1>1 DEF RunInv, Workspace, Still, Existing
<1>7. Documents'
  BY <1>1, <1>2, DocumentsMove DEF RunInv
<1>8. \A f : (About(i, f)' <=> About(i, f)) /\ (Wide(i)' <=> Wide(i))
  BY <1>1, <1>2 DEF About, Wide, Alike
<1>9. Known'
  BY <1>1, <1>2, <1>8, KnownMoves DEF RunInv
<1>10. Sessions'
  BY <1>1, <1>2, SessionsMove DEF RunInv
<1>20. Filed'
  BY <1>1, <1>2, FiledMoves DEF RunInv
<1>11. ASSUME NEW f \in opened \ raced
       PROVE  Current(f)'
  <2>1. \A j \in Slots \ {i} : Latest(j, f) => Latest(j, f)'
    BY <1>1, <1>2, <1>8, LatestStays DEF RunInv
  <2>2. Latest(i, f) => Latest(i, f)'
    BY <1>1, <1>2, <1>8, LatestSelf DEF RunInv, Latest
  <2>3. Due(i, f) => Due(i, f)'
    BY ScanIsDue DEF RunInv, Workspace
  <2> QED BY <1>1, <1>2, <1>8, <2>1, <2>2, <2>3, CurrentMoves DEF RunInv
<1> QED BY <1>1, <1>3, <1>4, <1>5, <1>6, <1>7, <1>9, <1>10, <1>11, <1>20 DEF Kept, RunInv, Still
LEMMA RecordFileEffect ==
  ASSUME ServerTypes, Documents, NEW i \in Slots, RecordFile(i)
  PROVE  /\ replies[i].kind \in {"file", "open"} /\ replies[i].step = "scanned"
         /\ replies[i].file \in Files
         /\ IsReply(replies[i]) /\ Only(i)
         /\ \/ replies[i].kind = "open" /\ Goes(i, "add")
            \/ replies[i].kind = "file" /\ replies'[i] = NoReply
         /\ scans' = [scans EXCEPT ![replies[i].file] = Result(replies[i], replies[i].file)]
         /\ shown' = [shown EXCEPT ![replies[i].file] = Result(replies[i], replies[i].file)]
         /\ Still /\ UNCHANGED <<registry, rules, openDocs, waiting>>
<1>1. /\ replies[i].kind \in {"file", "open"} /\ replies[i].step = "scanned"
      /\ scans' = [scans EXCEPT ![replies[i].file] = Result(replies[i], replies[i].file)]
      /\ shown' = [shown EXCEPT ![replies[i].file] = Result(replies[i], replies[i].file)]
      /\ IF replies[i].kind = "open" THEN Step(i, "add") ELSE End(i)
      /\ Still /\ UNCHANGED <<registry, rules, openDocs, waiting>>
  BY DEF RecordFile, At, Still, clientVars, sessionVars
<1>2. IsReply(replies[i]) /\ i \in Active
  BY <1>1, ActiveIsReply
<1>3. replies[i].file \in Files
  BY <1>1, <1>2 DEF Documents
<1>4. \/ replies[i].kind = "open" /\ Goes(i, "add")
      \/ replies[i].kind = "file" /\ replies'[i] = NoReply /\ Only(i)
  <2>1. CASE replies[i].kind = "open"
    BY <1>1, <2>1, StepEffect
  <2>2. CASE replies[i].kind # "open"
    BY <1>1, <2>2, EndEffect
  <2> QED BY <2>1, <2>2
<1> QED BY <1>1, <1>2, <1>3, <1>4 DEF Goes

LEMMA RecordFileKeeps ==
  ASSUME ServerTypes, RunInv, NEW i \in Slots, RecordFile(i)
  PROVE  Kept
<1>0. PICK f, result : f = replies[i].file /\ result = Result(replies[i], f)
  OBVIOUS
<1>1. /\ replies[i].kind \in {"file", "open"} /\ replies[i].step = "scanned"
      /\ IsReply(replies[i]) /\ Only(i) /\ replies[i] # NoReply
      /\ \/ replies[i].kind = "open" /\ Goes(i, "add")
         \/ replies[i].kind = "file" /\ replies'[i] = NoReply
      /\ Still /\ UNCHANGED <<registry, rules, openDocs, waiting>>
  BY RecordFileEffect, NoReplyIsNone DEF RunInv
<1>2. \/ replies[i].kind = "file" /\ replies'[i] = NoReply
      \/ /\ replies'[i] # NoReply /\ Alike(replies'[i], replies[i])
         /\ replies'[i].step = "add"
  BY <1>1, NoReplyIsNone DEF Goes, Alike, NoReply, IsReply
<1>3. /\ f \in Files /\ scans' = [scans EXCEPT ![f] = result]
      /\ shown' = [shown EXCEPT ![f] = result]
  BY <1>0, RecordFileEffect DEF RunInv, Workspace, Existing
<1>4. About(i, f)
  BY <1>0, <1>1 DEF About
<1>5. /\ scans' = [g \in Files |-> scans'[g]] /\ shown' = [g \in Files |-> shown'[g]]
      /\ scans'[f] = result /\ shown'[f] = result
      /\ \A g \in Files \ {f} : scans'[g] = scans[g] /\ shown'[g] = shown[g]
  BY <1>3 DEF ServerTypes
<1>6. ServerTypes'
  BY <1>1, <1>2, <1>5, TypesMove DEF Alike, ServerTypes
<1>7. Queue'
  BY <1>1, <1>2, QueueStays DEF RunInv
<1>8. Crowd'
  BY <1>1, <1>2, CrowdMoves DEF RunInv, Alike
<1>9. Workspace'
  BY <1>1 DEF RunInv, Workspace, Still, Existing
<1>10. Documents'
  BY <1>1, <1>2, DocumentsMove DEF RunInv
<1>11. Sessions'
  BY <1>1, <1>2, SessionsMove DEF RunInv
<1>12. \A g : ~About(i, g)' /\ ~Wide(i) /\ ~Wide(i)' /\ (g # f => ~About(i, g))
  BY <1>0, <1>1, <1>2 DEF About, Wide, Alike, NoReply
<1>13. \A g \in opened : \A j \in Slots \ {i} : Latest(j, g) => Latest(j, g)'
  BY <1>1, <1>12, LatestStays DEF RunInv
<1>14. opened \subseteq Files
  BY DEF RunInv, Workspace, Existing
<1>15. ASSUME NEW g \in opened \ raced, g # f
       PROVE  Current(g)'
  <2>1. ~Latest(i, g) /\ shown'[g] = shown[g]
    BY <1>5, <1>12, <1>14, <1>15 DEF Latest
  <2> QED BY <1>1, <1>12, <1>13, <2>1, CurrentMoves DEF RunInv
<1>a. i \in Active /\ Touches(i, f)
  BY <1>4, TouchesIts
<1>b. ASSUME f \in opened \ raced, NEW k \in Slots
      PROVE  ~Wide(k)
  <2>1. SUFFICES ASSUME Wide(k)
                 PROVE  FALSE
    OBVIOUS
  <2>2. k \in Active /\ Touches(k, f) /\ ~InTurn(k) /\ k # i
    BY <1>12, <2>1, TouchesIts
  <2> QED BY <1>a, <1>b, <2>2, OneReply DEF RunInv
<1>16. ASSUME f \in opened \ raced, Latest(i, f), Due(i, f)
       PROVE  Current(f)'
  <2>1. result = Expected(f) /\ Expected(f)' = Expected(f)
    BY <1>0, <1>1, <1>16, ExpectedStays DEF Due, Still
  <2>2. ASSUME NEW k \in Slots \ {i}
        PROVE  ~About(k, f)' /\ ~Wide(k)'
    <3>1. replies'[k] = replies[k] /\ ~Wide(k)
      BY <1>1, <1>b, <1>16 DEF Only
    <3>2. ASSUME About(k, f)
          PROVE  FALSE
      <4>1. i \in Busy /\ k \in Active /\ Touches(k, f)
        BY <1>1, <1>a, <3>2, TouchesIts DEF Busy
      <4>2. config.jobs = 1
        BY <1>a, <1>16, <4>1 DEF RunInv, Crowd, Alone, InTurn
      <4>3. k \notin Busy
        BY <4>1, <4>2, <2>2 DEF RunInv, Crowd, Busy
      <4>4. replies[k].step = "queued"
        BY <3>2, <4>1, <4>3 DEF About, Busy
      <4>5. PICK p \in 1 .. Len(waiting) : waiting[p] = k
        BY <4>1, <4>4 DEF RunInv, Queue
      <4>6. \A q \in 1 .. Len(waiting) : waiting[q] # i
        BY <1>1 DEF RunInv, Queue
      <4> QED BY <1>16, <3>2, <4>5, <4>6 DEF Latest
    <3> QED BY <3>1, <3>2 DEF About, Wide
  <2> QED BY <1>5, <1>12, <2>1, <2>2 DEF Current
<1>17. ASSUME NEW j \in Slots \ {i}, f \in opened \ raced, Latest(j, f), Due(j, f)
       PROVE  Current(f)'
  <2>1. Latest(j, f)'
    BY <1>13, <1>17
  <2>2. Due(j, f)'
    BY <1>1, <1>17, DueStays DEF Only, Still
  <2> QED BY <2>1, <2>2 DEF Current
<1>18. f \in opened \ raced => Current(f)'
  <2>1. f \in opened \ raced => \/ Latest(i, f) /\ Due(i, f)
                                \/ \E j \in Slots \ {i} : Latest(j, f) /\ Due(j, f)
    BY <1>4, <1>b DEF RunInv, Current
  <2> QED BY <1>16, <1>17, <2>1
<1>19. result # Never
  BY <1>0, <1>1 DEF Result, IsReply, Clean, Never
<1>20. Known'
  BY <1>1, <1>5, <1>12, <1>14, <1>19, KnownMoves DEF RunInv
<1>21. Filed'
  <2>1. \A g \in Files : scans[g] # Never => scans'[g] # Never
    BY <1>5, <1>19
  <2>2. ASSUME NEW j \in Slots, replies'[j].kind = "open", replies'[j].step = "add"
        PROVE  scans'[replies'[j].file] # Never
    <3>1. CASE j = i
      BY <1>0, <1>2, <1>5, <1>19, <2>2, <3>1 DEF NoReply, Alike
    <3>2. CASE j # i
      <4>1. replies'[j] = replies[j] /\ j \in Active
        BY <1>1, <2>2, <3>2 DEF Only, Active, Free, NoReply
      <4>2. replies[j].file \in Files
        BY <2>2, <4>1 DEF RunInv, Documents
      <4> QED BY <2>1, <2>2, <4>1, <4>2 DEF RunInv, Filed
    <3> QED BY <3>1, <3>2
  <2>3. Never' = Never
    BY DEF Never
  <2> QED BY <1>1, <2>1, <2>2, <2>3 DEF RunInv, Filed
<1> QED BY <1>1, <1>6, <1>7, <1>8, <1>9, <1>10, <1>11, <1>15, <1>18, <1>20, <1>21
      DEF Kept, RunInv, Still

(* Where a reply about all documents is in flight, an open document is its *)
(* to make current.                                                        *)
LEMMA WideAlone ==
  ASSUME ServerTypes, RunInv, NEW f \in opened \ raced, NEW i \in Slots, Wide(i)
  PROVE  /\ \A j \in Slots \ {i} : ~Wide(j)
         /\ \A j \in Slots : ~About(j, f)
         /\ Due(i, f)
<1>1. i \in Active /\ Touches(i, f) /\ ~InTurn(i)
  BY TouchesIts
<1>2. \A j \in Slots \ {i} : j \in Active => ~Touches(j, f)
  BY <1>1, OneReply DEF RunInv
<1>3. \A j \in Slots \ {i} : ~Wide(j) /\ ~About(j, f)
  BY <1>2, TouchesIts
<1>4. ~About(i, f)
  BY DEF About, Wide
<1> QED BY <1>3, <1>4 DEF RunInv, Current, Latest

LEMMA RecordScanKeeps ==
  ASSUME ServerTypes, RunInv, NEW i \in Slots, RecordScan(i)
  PROVE  Kept
<1>1. /\ replies[i].kind \in {"refresh", "workspace"} /\ replies[i].step = "scanned"
      /\ Goes(i, "publish") /\ replies'[i].found = replies[i].found
      /\ replies'[i].publish = Scanned(scans')
      /\ Still /\ UNCHANGED <<registry, shown, rules, openDocs, waiting>>
      /\ scans' = [f \in Files |-> IF f \in DOMAIN replies[i].found
                                   THEN replies[i].found[f] ELSE scans[f]]
  BY RecordScanEffect DEF Still, clientVars, sessionVars
<1>2. /\ replies[i] # NoReply /\ Only(i) /\ Alike(replies'[i], replies[i])
      /\ replies'[i].step = "publish" /\ replies'[i] # NoReply
  BY <1>1 DEF NoReply, Goes, Alike, IsReply
<1>3. scans' = [g \in Files |-> scans'[g]]
  BY <1>1
<1>4. ServerTypes'
  BY <1>1, <1>2, <1>3, TypesMove DEF Alike, ServerTypes
<1>5. Queue'
  BY <1>1, <1>2, QueueStays DEF RunInv
<1>6. Crowd'
  BY <1>1, <1>2, CrowdMoves DEF RunInv, Alike
<1>7. Workspace'
  BY <1>1 DEF RunInv, Workspace, Still, Existing
<1>8. Documents'
  BY <1>1, <1>2, DocumentsMove DEF RunInv
<1>9. Sessions'
  BY <1>1, <1>2, SessionsMove DEF RunInv
<1>10. Wide(i) /\ Wide(i)'
  BY <1>1, <1>2 DEF Wide, Alike
<1>11. ASSUME NEW f \in opened \ raced
       PROVE  Current(f)'
  <2>1. Due(i, f)
    BY <1>10, WideAlone
  <2>2. Result(replies[i], f) = Expected(f) /\ Expected(f)' = Expected(f)
    BY <1>1, <2>1, ExpectedStays DEF Due, Still
  <2>3. f \in Files /\ scans[f] # Never
    BY <1>10, WideAlone DEF RunInv, Known, Workspace, Existing
  <2>4. scans'[f] # Never
    BY <1>1, <2>2, <2>3, ExpectedIsSome DEF Result
  <2>5. Result(replies[i], f)' = Expected(f)'
    BY <1>1, <2>2 DEF Result
  <2>6. f \in replies'[i].publish
    BY <1>1, <2>3, <2>4 DEF Scanned, Never
  <2>7. Agrees(i, f)'
    BY <1>1, <1>2, <2>1 DEF Due, Agrees, Alike, Still
  <2>8. Due(i, f)'
    BY <1>2, <2>5, <2>6, <2>7 DEF Due
  <2> QED BY <1>10, <2>8 DEF Current
<1>12. \A f \in Files : scans[f] # Never => scans'[f] # Never
  <2>1. IsReply(replies[i])
    BY <1>1, ActiveIsReply
  <2> QED BY <1>1, <2>1 DEF IsReply
<1>13. Known'
  <2>1. \A f : About(i, f) => FALSE
    BY <1>1 DEF About
  <2>2. opened \subseteq Files
    BY DEF RunInv, Workspace, Existing
  <2> QED BY <1>1, <1>2, <1>12, <2>1, <2>2, KnownMoves DEF RunInv
<1>14. Filed'
  <2>1. \A j \in Slots : replies'[j].kind = "open" /\ replies'[j].step = "add" =>
           /\ replies'[j] = replies[j] /\ replies[j].file \in Files
    BY <1>1, <1>2 DEF Only, RunInv, Documents, Active, Free, NoReply
  <2>2. Never' = Never
    BY DEF Never
  <2> QED BY <1>1, <1>12, <2>1, <2>2 DEF RunInv, Filed
<1> QED BY <1>1, <1>4, <1>5, <1>6, <1>7, <1>8, <1>9, <1>11, <1>13, <1>14
      DEF Kept, RunInv, Still

LEMMA PublishScanKeeps ==
  ASSUME ServerTypes, RunInv, NEW i \in Slots, PublishScan(i)
  PROVE  Kept
<1>1. /\ replies[i].kind \in {"refresh", "workspace"} /\ replies[i].step = "publish"
      /\ Only(i) /\ replies'[i] = NoReply
      /\ shown' = [f \in Files |-> IF f \in replies[i].publish THEN Result(replies[i], f)
                                   ELSE shown[f]]
      /\ Still /\ UNCHANGED <<registry, rules, scans, openDocs, waiting>>
  BY EndEffect DEF PublishScan, At, Still, clientVars, sessionVars, cacheVars
<1>2. replies[i] # NoReply /\ Wide(i) /\ shown' = [g \in Files |-> shown'[g]]
  BY <1>1 DEF NoReply, Wide
<1>3. ServerTypes'
  BY <1>1, <1>2, TypesMove DEF ServerTypes
<1>4. Queue'
  BY <1>1, <1>2, QueueStays DEF RunInv
<1>5. Crowd'
  BY <1>1, <1>2, CrowdMoves DEF RunInv
<1>6. Workspace'
  BY <1>1 DEF RunInv, Workspace, Still, Existing
<1>7. Documents'
  BY <1>1, <1>2, DocumentsMove DEF RunInv
<1>8. Sessions'
  BY <1>1, <1>2, SessionsMove DEF RunInv
<1>9. \A f : ~About(i, f)
  BY <1>1 DEF About
<1>10. Known'
  BY <1>1, <1>9, KnownMoves DEF RunInv
<1>12. Filed'
  BY <1>1, FiledMoves DEF RunInv
<1>11. ASSUME NEW f \in opened \ raced
       PROVE  Current(f)'
  <2>1. /\ Due(i, f) /\ \A j \in Slots : ~About(j, f)
        /\ \A j \in Slots \ {i} : ~Wide(j)
    BY <1>2, WideAlone
  <2>2. \A j \in Slots \ {i} : ~About(j, f)' /\ ~Wide(j)'
    BY <1>1, <2>1 DEF Only, About, Wide
  <2>3. \A j \in Slots : ~About(j, f)' /\ ~Wide(j)'
    BY <1>1, <2>2 DEF About, Wide, NoReply
  <2>4. f \in replies[i].publish /\ Result(replies[i], f) = Expected(f)
    BY <1>1, <2>1 DEF Due
  <2>5. f \in Files
    BY DEF RunInv, Workspace, Existing
  <2>6. shown'[f] = Expected(f)
    BY <1>1, <2>4, <2>5
  <2>7. Expected(f)' = Expected(f)
    BY <1>1, ExpectedStays DEF Still
  <2> QED BY <2>3, <2>6, <2>7 DEF Current
<1> QED BY <1>1, <1>3, <1>4, <1>5, <1>6, <1>7, <1>8, <1>10, <1>11, <1>12 DEF Kept, RunInv, Still

LEMMA OpenDocsKeep ==
  ASSUME ServerTypes, RunInv, NEW i \in Slots,
         AddOpenDocument(i) \/ RemoveOpenDocuments(i)
  PROVE  Kept
<1>1. /\ \/ replies[i].kind = "open" /\ replies[i].step = "add"
            /\ openDocs' = openDocs \cup {replies[i].file}
         \/ replies[i].kind = "delete" /\ replies[i].step = "forget"
            /\ openDocs' = openDocs \ replies[i].files
      /\ Only(i) /\ replies'[i] = NoReply
      /\ Still /\ UNCHANGED <<registry, rules, shown, scans, waiting>>
  BY EndEffect DEF AddOpenDocument, RemoveOpenDocuments, At, Still, clientVars, sessionVars,
       cacheVars
<1>2. replies[i] # NoReply /\ i \in Active
  BY <1>1 DEF NoReply, Active, Free
<1>3. ServerTypes'
  BY <1>1, <1>2, TypesMove DEF ServerTypes
<1>4. Queue'
  BY <1>1, <1>2, QueueStays DEF RunInv
<1>5. Crowd'
  BY <1>1, <1>2, CrowdMoves DEF RunInv
<1>6. Workspace'
  BY <1>1 DEF RunInv, Workspace, Still, Existing
<1>a. \A j \in Slots \ {i} : replies'[j] = replies[j]
  BY <1>1 DEF Only
<1>b. Active' = Active \ {i}
  BY <1>1, <1>a DEF Active, Free
<1>c. Documents
  BY DEF RunInv
<1>7. Documents'
  <2>1. \A f \in opened \ late : f \in openDocs' \/ Opening(f)'
    <3>1. SUFFICES ASSUME NEW f \in opened \ late, f \notin openDocs'
                   PROVE  Opening(f)'
      OBVIOUS
    <3>2. f \notin openDocs
      BY <1>1, <1>2, <1>c, <3>1 DEF Documents
    <3>3. PICK j \in Active : replies[j].kind = "open" /\ replies[j].file = f
      BY <1>c, <3>1, <3>2 DEF Documents, Opening
    <3>4. j # i
      BY <1>1, <3>1, <3>3
    <3> QED BY <1>a, <1>b, <3>3, <3>4 DEF Opening, Active
  <2>2. \A f \in openDocs' \ late : f \in opened \/ Deleting(f)'
    BY <1>1, <1>2, <1>a, <1>b, <1>c DEF Documents, Deleting, Active
  <2> QED BY <1>1, <1>a, <1>b, <1>c, <2>1, <2>2 DEF Documents, Still, Active
<1>8. Sessions'
  <2>1. \A j \in Slots : replies'[j].kind \in {"refresh", "workspace"} =>
            j # i /\ replies'[j] = replies[j]
    BY <1>1, <1>a DEF NoReply
  <2>2. ASSUME NEW j \in Slots, replies'[j].kind = "refresh", NEW f \in opened \ raced
        PROVE  f \in openDocs'
    <3>1. f \in openDocs /\ replies[j].kind = "refresh" /\ j # i
      BY <2>1, <2>2 DEF RunInv, Sessions
    <3>2. j \in Active /\ Touches(j, f) /\ ~InTurn(j)
      BY <3>1 DEF Active, Free, NoReply, Touches, InTurn
    <3>3. ~Touches(i, f)
      BY <1>2, <3>1, <3>2, OneReply DEF RunInv
    <3>4. replies[i].file # f
      BY <3>3 DEF Touches
    <3> QED BY <1>1, <1>2, <1>c, <3>1, <3>4 DEF Documents
  <2>3. \A j \in Slots : replies'[j].kind \in {"refresh", "workspace"} =>
          \A f \in opened \ raced : Agrees(j, f)'
    BY <1>1, <2>1 DEF RunInv, Sessions, Agrees, Still
  <2> QED BY <1>1, <2>2, <2>3 DEF Sessions, Still
<1>12. Filed'
  <2>1. \A j \in Slots : replies'[j].kind = "open" /\ replies'[j].step = "add" =>
           replies'[j] = replies[j]
    BY <1>1, <1>a DEF NoReply
  <2>2. openDocs' \subseteq Files /\ \A f \in openDocs' : scans[f] # Never
    BY <1>1, <1>2, <1>c DEF RunInv, Filed, Documents
  <2> QED BY <1>1, <2>1, <2>2 DEF RunInv, Filed, Never
<1>9. \A f : ~About(i, f) /\ ~Wide(i) /\ ~About(i, f)' /\ ~Wide(i)'
  BY <1>1 DEF About, Wide, NoReply
<1>10. Known'
  BY <1>1, <1>9, KnownMoves DEF RunInv
<1>11. ASSUME NEW f \in opened \ raced
       PROVE  Current(f)'
  <2>1. \A j \in Slots \ {i} : Latest(j, f) => Latest(j, f)'
    BY <1>1, <1>9, LatestStays DEF RunInv
  <2>2. ~Latest(i, f)
    BY <1>9 DEF Latest
  <2> QED BY <1>1, <1>9, <2>1, <2>2, CurrentMoves DEF RunInv
<1> QED BY <1>1, <1>3, <1>4, <1>5, <1>6, <1>7, <1>8, <1>10, <1>11, <1>12 DEF Kept, RunInv, Still
-----------------------------------------------------------------------------
(* The messages.                                                           *)

(* What a message that comes with no reply leaves as it was.               *)
LEMMA CurrentSame ==
  ASSUME NEW f, Current(f), UNCHANGED <<shown, replies, waiting, onlyDirty, ignored, rules>>,
         disk'[f] = disk[f], f \in targets' <=> f \in targets
  PROVE  Current(f)'
<1>1. Expected(f)' = Expected(f)
  BY ExpectedStays
<1>2. \A j \in Slots : Due(j, f) => Due(j, f)'
  BY DueStays
<1>3. \A j : (About(j, f)' <=> About(j, f)) /\ (Wide(j)' <=> Wide(j))
  BY DEF About, Wide
<1>4. \A j : Latest(j, f)' <=> Latest(j, f)
  BY <1>3 DEF Latest
<1> QED BY <1>1, <1>2, <1>3, <1>4 DEF Current

LEMMA AddsActive ==
  ASSUME NEW i \in Slots, NEW kind, NEW l, NEW file, NEW files, NEW s,
         Adds(i, kind, l, file, files, s)
  PROVE  /\ replies[i] = NoReply /\ replies'[i] # NoReply /\ i \notin Active /\ Only(i)
         /\ replies'[i].kind = kind /\ replies'[i].step = l /\ replies'[i].file = file
         /\ Active' = Active \cup {i}
         /\ \A j \in Slots \ {i} : replies'[j] = replies[j]
         /\ \A j \in Active : j # i /\ replies'[j] = replies[j]
         /\ \A f : ~About(i, f) /\ ~Wide(i)
<1>1. /\ replies[i] = NoReply /\ Only(i) /\ IsReply(replies'[i]) /\ i \notin Active
      /\ replies'[i].kind = kind /\ replies'[i].step = l /\ replies'[i].file = file
  BY DEF Adds, Free, Active
<1>2. replies'[i] # NoReply
  BY <1>1 DEF IsReply, NoReply
<1>3. \A f : ~About(i, f) /\ ~Wide(i)
  BY <1>1 DEF About, Wide, NoReply
<1>4. /\ \A j \in Slots \ {i} : replies'[j] = replies[j]
      /\ \A j \in Active : j # i /\ replies'[j] = replies[j]
  BY <1>1 DEF Only, Active
<1> QED BY <1>1, <1>2, <1>3, <1>4 DEF Active, Free

LEMMA TypesGrow ==
  ASSUME ServerTypes, NEW i \in Slots, NEW kind, NEW l, NEW file, NEW files, NEW s,
         Adds(i, kind, l, file, files, s),
         UNCHANGED <<config, registry, scans, rules>>, disk' \in [Files -> Nat],
         shown' = [f \in Files |-> shown'[f]], opened' \subseteq Files
  PROVE  ServerTypes'
BY DEF ServerTypes, Adds, Only

(* A new reply that is not about the file, nor about all of them.          *)
LEMMA CurrentBeside ==
  ASSUME Queue, NEW i \in Slots, Only(i), NEW g, Current(g),
         waiting' = waiting \/ waiting' = Append(waiting, i),
         ~About(i, g), ~Wide(i), ~About(i, g)', ~Wide(i)',
         shown'[g] = shown[g], UNCHANGED <<onlyDirty, rules>>, disk'[g] = disk[g],
         g \in ignored' <=> g \in ignored, g \in targets' <=> g \in targets
  PROVE  Current(g)'
<1>1. Expected(g)' = Expected(g)
  BY ExpectedStays
<1>2. \A j \in Slots \ {i} : /\ About(j, g)' <=> About(j, g)
                             /\ Wide(j)' <=> Wide(j)
  BY DEF Only, About, Wide
<1>3. \A j \in Slots \ {i} : Due(j, g) => Due(j, g)'
  BY DueStays DEF Only
<1>4. \A j \in Slots \ {i} : Latest(j, g) => Latest(j, g)'
  BY LatestStays, LatestGrows
<1>5. ~Latest(i, g)
  BY DEF Latest
<1> QED BY <1>1, <1>2, <1>3, <1>4, <1>5 DEF Current

(* A new reply leaves alone what it does not touch.                        *)
LEMMA AloneBeside ==
  ASSUME NEW g, Alone(g), NEW i \in Slots, Active' = Active \cup {i}, UNCHANGED config,
         \A j \in Active : replies'[j] = replies[j], ~Touches(i, g)'
  PROVE  Alone(g)'
<1>1. \A j \in Active : (Touches(j, g)' <=> Touches(j, g)) /\ (InTurn(j)' <=> InTurn(j))
  BY DEF Touches, InTurn
<1> QED BY <1>1 DEF Alone

LEMMA FiledGrows ==
  ASSUME Filed, NEW i \in Slots, UNCHANGED <<openDocs, scans>>, replies'[i].step # "add",
         \A j \in Slots \ {i} : replies'[j] = replies[j]
  PROVE  Filed'
BY DEF Filed, Never

(* The reply of a message about one file.                                  *)
LEMMA ScanFileKeeps ==
  ASSUME ServerTypes, RunInv, NEW kind \in {"file", "open"}, NEW f \in Files, NEW s,
         ScanFile(kind, f, s), ready,
         UNCHANGED <<config, registry, shown, state, ready, onlyDirty, scans, rules, openDocs>>,
         disk' \in [Files -> Nat], Existing(disk') = Existing(disk),
         \A g \in Files \ {f} : disk'[g] = disk[g],
         \A g : g # f => (g \in ignored' <=> g \in ignored),
         s.onlyDirty = onlyDirty, s.ignored = ignored',
         kind = "file" => opened' = opened /\ late' = late,
         kind = "open" => /\ opened' = opened \cup {f} /\ f \in Existing(disk)
                          /\ Overtakes(f, Deleting(f))
  PROVE  Kept
<1> DEFINE files == IF f \in TargetsOf(s, disk') THEN {f} ELSE {}
           crosses == \E j \in Active : Touches(j, f) /\ ~InTurn(j)
<1>1. PICK i \in Slots : Adds(i, kind, "queued", f, files, s)
  BY SpawnEffect DEF ScanFile, Kinds
<1>2. /\ replies'[i].file = f /\ replies'[i].session = s
      /\ f \in replies'[i].files <=> f \in TargetsOf(s, disk')
      /\ waiting' = Append(waiting, i)
  BY <1>1 DEF Adds
<1> HIDE DEF files
<1>3. /\ replies[i] = NoReply /\ replies'[i] # NoReply /\ i \notin Active /\ Only(i)
      /\ replies'[i].kind = kind /\ replies'[i].step = "queued"
      /\ Active' = Active \cup {i}
      /\ \A j \in Slots \ {i} : replies'[j] = replies[j]
      /\ \A j \in Active : j # i /\ replies'[j] = replies[j]
      /\ \A g : ~About(i, g) /\ ~Wide(i)
  BY <1>1, AddsActive
<1>4. opened' \subseteq Files /\ opened' \subseteq Existing(disk') /\ opened \subseteq opened'
  BY DEF ServerTypes, RunInv, Workspace, Existing
<1>5. ServerTypes'
  BY <1>1, <1>4, TypesGrow DEF ServerTypes
<1>6. Queue'
  BY <1>2, <1>3, QueueGrows DEF RunInv
<1>7. /\ (targets' = targets /\ f \in targets) \/ targets' = Existing(disk')
      /\ raced' = IF crosses \/ f \notin targets THEN raced \cup {f} ELSE raced \ {f}
  BY DEF ScanFile, TargetsOf
<1>8. ASSUME NEW g \in opened', g \notin raced'
      PROVE  /\ g \in targets /\ g \in targets' /\ g \in Files
             /\ g = f => ~crosses
             /\ g # f => g \in opened \ raced /\ disk'[g] = disk[g]
  BY <1>4, <1>7, <1>8 DEF RunInv, Workspace
<1>9. opened' \subseteq targets'
  BY <1>4, <1>7 DEF RunInv, Workspace
<1>10. Workspace'
  BY <1>4, <1>9 DEF Workspace, Existing
<1>11. \A j \in Active : \A g : /\ Touches(j, g)' <=> Touches(j, g)
                                /\ InTurn(j)' <=> InTurn(j)
  BY <1>3 DEF Touches, InTurn
<1>12. Crowd'
  <2>1. Busy' = Busy /\ \A j \in Busy : replies'[j] = replies[j]
    BY <1>3 DEF Busy, Active, Free
  <2>2. ASSUME NEW g \in opened', g \notin raced'
        PROVE  Alone(g)'
    <3>1. CASE g = f
      <4>1. \A j \in Active : Touches(j, f) => InTurn(j)
        BY <1>8, <2>2, <3>1
      <4>2. \A j \in Active' : Touches(j, f)' => j = i \/ InTurn(j)'
        BY <1>3, <1>11, <4>1
      <4>3. (\E j \in Active : InTurn(j)) => InTurn(i)'
        BY <1>3 DEF InTurn
      <4>4. \A j \in Active' : j \in Active \/ j = i
        BY <1>3
      <4> QED BY <1>11, <3>1, <4>1, <4>2, <4>3, <4>4 DEF Alone
    <3>2. CASE g # f
      <4>1. Alone(g) /\ ~Touches(i, g)'
        BY <1>2, <1>3, <1>8, <2>2, <3>2 DEF RunInv, Crowd, Touches
      <4> QED BY <1>3, <4>1, AloneBeside
    <3> QED BY <3>1, <3>2
  <2> QED BY <2>1, <2>2 DEF RunInv, Crowd
<1>13. Documents'
  <2>1. Documents /\ \A g : (Opening(g) => Opening(g)') /\ (Deleting(g) => Deleting(g)')
    BY <1>3 DEF RunInv, Opening, Deleting
  <2>2. /\ kind = "open" => Opening(f)'
        /\ \A g : g # f => (g \in late' <=> g \in late)
        /\ kind = "open" /\ Deleting(f) => f \in late'
    BY <1>2, <1>3 DEF Opening, Overtakes
  <2>3. \A g \in opened' \ late' : g \in openDocs' \/ Opening(g)'
    BY <2>1, <2>2 DEF Documents
  <2>4. \A g \in openDocs' \ late' : g \in opened' \/ Deleting(g)'
    BY <2>1, <2>2 DEF Documents
  <2>5. \A j \in Active' : replies'[j].kind = "open" => replies'[j].file \in opened' \cup late'
    BY <1>2, <1>3, <2>1, <2>2 DEF Documents
  <2>6. ASSUME NEW j \in Active', replies'[j].kind = "delete"
        PROVE  /\ replies'[j].step = "forget" /\ replies'[j].files \subseteq {replies'[j].file}
               /\ replies'[j].files \cap opened' \subseteq late'
    <3>1. j \in Active /\ replies'[j] = replies[j]
      BY <1>3, <2>6
    <3>2. f \in replies[j].files => Deleting(f)
      BY <2>6, <3>1 DEF Deleting
    <3> QED BY <2>1, <2>2, <2>6, <3>1, <3>2 DEF Documents
  <2>7. \A j \in Active' : replies'[j].kind \in {"file", "open"} => replies'[j].file \in Files
    BY <1>2, <1>3, <2>1 DEF Documents
  <2> QED BY <2>3, <2>4, <2>5, <2>6, <2>7 DEF Documents
<1>14. /\ \A g : g # f => ~About(i, g)'
       /\ \A j \in Slots \ {i} : \A g : About(j, g)' <=> About(j, g)
       /\ About(i, f)' /\ ~Wide(i)'
  BY <1>2, <1>3 DEF About, Wide
<1>15. Known'
  <2>1. \A g \in opened \ {f} : scans[g] # Never \/ \E j \in Slots \ {i} : About(j, g)
    BY <1>3 DEF RunInv, Known
  <2>2. \A g \in opened' : g = f \/ g \in opened
    OBVIOUS
  <2> QED BY <1>14, <2>1, <2>2 DEF Known, Never
<1>16. Filed'
  BY <1>3, FiledGrows DEF RunInv
<1>17. Sessions'
  <2>1. \A j \in Slots : replies'[j].kind \in {"refresh", "workspace"} =>
           j \in Active /\ replies'[j] = replies[j] /\ \A g : Touches(j, g) /\ ~InTurn(j)
    BY <1>3 DEF Active, Free, Touches, InTurn, NoReply
  <2>2. ASSUME NEW j \in Slots, replies'[j].kind \in {"refresh", "workspace"},
               NEW g \in opened', g \notin raced'
        PROVE  g # f /\ g \in opened \ raced
    BY <1>8, <2>1, <2>2
  <2>3. \A j \in Slots : replies'[j].kind \in {"refresh", "workspace"} =>
          \A g \in (opened \ raced)' : Agrees(j, g)'
    BY <2>1, <2>2 DEF RunInv, Sessions, Agrees
  <2>4. \A j \in Slots : replies'[j].kind = "refresh" => (opened \ raced)' \subseteq openDocs'
    BY <2>1, <2>2 DEF RunInv, Sessions
  <2> QED BY <2>3, <2>4 DEF Sessions
<1>18. ASSUME NEW g \in opened', g \notin raced'
       PROVE  Current(g)'
  <2>1. g \in targets' <=> g \in targets
    BY <1>8, <1>18
  <2>2. CASE g = f
    <3>1. Latest(i, f)'
      BY <1>2, <1>14, LatestNew DEF RunInv
    <3>2. Agrees(i, f)'
      BY <1>2 DEF Agrees
    <3>3. f \in TargetsOf(s, disk') <=> Target(i, f)'
      BY <1>2, <1>8, <1>18, <2>2 DEF Target, TargetsOf, Dirty
    <3>4. Due(i, f)'
      BY <1>2, <1>3, <3>2, <3>3 DEF Due
    <3> QED BY <2>2, <3>1, <3>4 DEF Current
  <2>3. CASE g # f
    BY <1>2, <1>3, <1>8, <1>14, <1>18, <2>1, <2>3, CurrentBeside DEF RunInv
  <2> QED BY <2>2, <2>3
<1> QED BY <1>5, <1>6, <1>10, <1>12, <1>13, <1>15, <1>16, <1>17, <1>18 DEF Kept, RunInv

LEMMA FileMessageKeeps ==
  ASSUME ServerTypes, RunInv, NEW f \in Files, DidOpen(f) \/ DidSave(f) \/ Ignore(f)
  PROVE  Kept
<1>1. CASE DidOpen(f)
  <2>1. /\ MaySend("open") /\ disk[f] > 0 /\ opened' = opened \cup {f}
        /\ ScanFile("open", f, Session) /\ Overtakes(f, Deleting(f))
        /\ UNCHANGED <<config, disk, registry, shown, state, ready, ignored, onlyDirty, scans,
                       rules, openDocs>>
    BY <1>1 DEF DidOpen, sessionVars
  <2>2. ready
    BY <2>1 DEF MaySend
  <2>3. disk' \in [Files -> Nat] /\ Existing(disk') = Existing(disk) /\ f \in Existing(disk)
    BY <2>1 DEF ServerTypes, Existing
  <2>4. Session.onlyDirty = onlyDirty /\ Session.ignored = ignored'
    BY <2>1 DEF Session
  <2> HIDE DEF Kept
  <2> QED BY <2>1, <2>2, <2>3, <2>4, ScanFileKeeps
<1>2. CASE DidSave(f)
  <2>1. /\ MaySend("save") /\ f \in opened /\ disk' = [disk EXCEPT ![f] = @ + 1]
        /\ ScanFile("file", f, Session)
        /\ UNCHANGED <<config, opened, late, registry, shown, state, ready, ignored, onlyDirty,
                       scans, rules, openDocs>>
    BY <1>2 DEF DidSave, sessionVars
  <2>2. ready
    BY <2>1 DEF MaySend
  <2>3. /\ disk' \in [Files -> Nat] /\ \A g \in Files \ {f} : disk'[g] = disk[g]
        /\ disk'[f] > 0 /\ disk[f] > 0
    BY <2>1 DEF ServerTypes, RunInv, Workspace, Existing
  <2>4. Existing(disk') = Existing(disk)
    BY <2>3 DEF Existing
  <2>5. Session.onlyDirty = onlyDirty /\ Session.ignored = ignored'
    BY <2>1 DEF Session
  <2> HIDE DEF Kept
  <2> QED BY <2>1, <2>2, <2>3, <2>4, <2>5, ScanFileKeeps
<1>3. CASE Ignore(f)
  <2> DEFINE s == [Session EXCEPT !.ignored = ignored']
  <2>1. /\ MaySend("ignore") /\ ignored' = ignored \cup {f} /\ ScanFile("file", f, s)
        /\ UNCHANGED <<config, disk, opened, late, registry, shown, state, ready, onlyDirty, scans,
                       rules, openDocs>>
    BY <1>3 DEF Ignore
  <2>2. ready
    BY <2>1 DEF MaySend
  <2>3. disk' \in [Files -> Nat] /\ Existing(disk') = Existing(disk)
    BY <2>1 DEF ServerTypes
  <2>4. s.onlyDirty = onlyDirty /\ s.ignored = ignored'
    BY DEF Session
  <2> HIDE DEF s
  <2> QED BY <2>1, <2>2, <2>3, <2>4, ScanFileKeeps
<1> QED BY <1>1, <1>2, <1>3

LEMMA InitializeKeeps ==
  ASSUME ServerTypes, Initialize, Active = {}, waiting = <<>>, opened = {}, openDocs = {}, ~ready
  PROVE  Kept
<1>1. /\ targets' = Existing(disk)
      /\ UNCHANGED <<config, disk, opened, registry, shown, ready, ignored, onlyDirty, scans,
                     rules, openDocs, replies, waiting>>
  BY DEF Initialize, clientVars, replyVars
<1>2. ServerTypes'
  BY <1>1 DEF ServerTypes, IsReply, NoReply, Never
<1>3. Active' = {} /\ \A j \in Slots : replies'[j] = NoReply
  BY <1>1 DEF Active, Free
<1>4. Queue'
  BY <1>1, <1>3 DEF Queue
<1>5. Crowd'
  BY <1>1, <1>3 DEF Crowd, Busy
<1>6. Workspace'
  BY <1>1 DEF Workspace, Existing
<1>7. Documents'
  BY <1>1, <1>3 DEF Documents
<1>8. Known' /\ Sessions'
  BY <1>1 DEF Known, Sessions
<1>9. Filed'
  BY <1>1, <1>3 DEF Filed, NoReply
<1> QED BY <1>1, <1>2, <1>4, <1>5, <1>6, <1>7, <1>8, <1>9 DEF Kept, RunInv

LEMMA InitializedKeeps ==
  ASSUME ServerTypes, RunInv, Initialized
  PROVE  Kept
<1>1. /\ ~ready /\ ready' /\ Spawn("refresh", "fetch", "none", {}, Session)
      /\ UNCHANGED <<config, disk, opened, registry, raced, late, shown, onlyDirty, targets, scans,
                     rules, openDocs>>
  BY DEF Initialized, clientVars, cacheVars
<1>2. PICK i \in Slots : Adds(i, "refresh", "fetch", "none", {}, Session)
  BY <1>1, SpawnEffect DEF Kinds
<1>3. /\ replies[i] = NoReply /\ Only(i) /\ waiting' = waiting
      /\ replies'[i].kind = "refresh" /\ replies'[i].step = "fetch"
      /\ Active' = Active \cup {i}
      /\ \A j \in Slots \ {i} : replies'[j] = replies[j]
  BY <1>2, AddsActive DEF Adds
<1>4. opened = {} /\ Active = {}
  BY <1>1 DEF RunInv, Crowd
<1>5. ServerTypes'
  BY <1>1, <1>2, TypesGrow DEF ServerTypes
<1>6. Queue'
  BY <1>3, QueueStays DEF RunInv
<1>7. Crowd'
  BY <1>1, <1>3, <1>4 DEF Crowd, Busy
<1>8. Workspace'
  BY <1>1 DEF RunInv, Workspace, Existing
<1>9. openDocs \subseteq late
  BY <1>4 DEF RunInv, Documents, Deleting
<1>10. Documents'
  BY <1>1, <1>3, <1>4, <1>9 DEF Documents
<1>11. Filed'
  BY <1>1, <1>3, FiledGrows DEF RunInv
<1> QED BY <1>1, <1>4, <1>5, <1>6, <1>7, <1>8, <1>10, <1>11 DEF Kept, RunInv, Known, Sessions

LEMMA DidCloseKeeps ==
  ASSUME ServerTypes, RunInv, NEW f \in Files, DidClose(f)
  PROVE  Kept
<1>1. /\ opened' = opened \ {f} /\ openDocs' = openDocs \ {f} /\ Overtakes(f, Opening(f))
      /\ UNCHANGED <<config, disk, registry, raced, shown, state, ready, ignored, onlyDirty,
                     targets, scans, rules, replies, waiting>>
  BY DEF DidClose, sessionVars, replyVars
<1>2. /\ \A g : g # f => (g \in late' <=> g \in late)
      /\ Opening(f) => f \in late'
  BY <1>1 DEF Overtakes
<1>4. ServerTypes'
  BY <1>1 DEF ServerTypes, IsReply, NoReply, Never
<1>5. Active' = Active /\ Busy' = Busy
  BY <1>1 DEF Active, Free, Busy
<1>6. Queue'
  BY <1>1, <1>5 DEF RunInv, Queue
<1>7. Crowd'
  BY <1>1, <1>5 DEF RunInv, Crowd, Alone, Touches, InTurn
<1>8. Workspace'
  BY <1>1 DEF RunInv, Workspace, Existing
<1>9. Documents'
  <2>1. Documents
    BY DEF RunInv
  <2>2. \A g : (Opening(g)' <=> Opening(g)) /\ (Deleting(g)' <=> Deleting(g))
    BY <1>1, <1>5 DEF Opening, Deleting
  <2>3. \A j \in Active : replies[j].kind = "open" => replies[j].file \in opened' \cup late'
    <3>1. SUFFICES ASSUME NEW j \in Active, replies[j].kind = "open"
                   PROVE  replies[j].file \in opened' \cup late'
      OBVIOUS
    <3>2. Opening(replies[j].file)
      BY <3>1 DEF Opening
    <3> QED BY <1>1, <1>2, <2>1, <3>1, <3>2 DEF Documents
  <2>4. \A j \in Active : replies[j].kind = "delete" => replies[j].files \cap opened' \subseteq late'
    BY <1>1, <1>2, <2>1 DEF Documents
  <2>5. \A g \in opened' \ late' : g \in openDocs' \/ Opening(g)
    BY <1>1, <1>2, <2>1 DEF Documents
  <2>6. \A g \in openDocs' \ late' : g \in opened' \/ Deleting(g)
    BY <1>1, <1>2, <2>1 DEF Documents
  <2> QED BY <1>1, <1>5, <2>1, <2>2, <2>3, <2>4, <2>5, <2>6 DEF Documents
<1>10. Known' /\ Filed'
  BY <1>1 DEF RunInv, Known, Filed, Never, About
<1>11. Sessions'
  BY <1>1 DEF RunInv, Sessions, Agrees
<1>12. ASSUME NEW g \in opened' \ raced'
       PROVE  Current(g)'
  BY <1>1, <1>12, CurrentSame DEF RunInv
<1> QED BY <1>4, <1>6, <1>7, <1>8, <1>9, <1>10, <1>11, <1>12 DEF Kept, RunInv

(* The file was not there, and no document of it is open.                  *)
LEMMA NewFileKeeps ==
  ASSUME ServerTypes, RunInv, NEW f \in Files, DidCreate(f) \/ Appear(f)
  PROVE  Kept
<1>1. /\ disk[f] = 0 /\ disk' = [disk EXCEPT ![f] = 1]
      /\ targets' = targets \/ targets' = Existing(disk')
      /\ UNCHANGED <<config, opened, registry, raced, late, shown, state, ready, ignored,
                     onlyDirty, scans, rules, openDocs, replies, waiting>>
  BY DEF DidCreate, Appear, sessionVars, replyVars, cacheVars
<1>2. /\ disk' \in [Files -> Nat] /\ \A g \in Files \ {f} : disk'[g] = disk[g]
      /\ disk'[f] = 1
  BY <1>1 DEF ServerTypes
<1>3. \A g \in opened : g \in Files \ {f} /\ g \in Existing(disk')
  BY <1>1, <1>2 DEF RunInv, Workspace, Existing
<1>4. \A g \in opened : g \in targets' /\ g \in targets
  BY <1>1, <1>3 DEF RunInv, Workspace
<1>5. ServerTypes'
  BY <1>1, <1>2 DEF ServerTypes, IsReply, NoReply, Never
<1>6. Active' = Active /\ Busy' = Busy
  BY <1>1 DEF Active, Free, Busy
<1>7. Queue'
  BY <1>1, <1>6 DEF RunInv, Queue
<1>8. Crowd'
  BY <1>1, <1>6 DEF RunInv, Crowd, Alone, Touches, InTurn
<1>9. Workspace'
  BY <1>1, <1>3, <1>4 DEF Workspace, Existing
<1>10. Documents'
  BY <1>1, <1>6 DEF RunInv, Documents, Opening, Deleting
<1>11. Known' /\ Filed'
  BY <1>1 DEF RunInv, Known, Filed, Never, About
<1>12. Sessions'
  BY <1>1 DEF RunInv, Sessions, Agrees
<1>13. ASSUME NEW g \in opened \ raced
       PROVE  Current(g)'
  BY <1>1, <1>2, <1>3, <1>4, CurrentSame DEF RunInv
<1> QED BY <1>1, <1>5, <1>7, <1>8, <1>9, <1>10, <1>11, <1>12, <1>13 DEF Kept, RunInv

LEMMA DidDeleteKeeps ==
  ASSUME ServerTypes, RunInv, NEW f \in Files, DidDelete(f)
  PROVE  Kept
<1> DEFINE paths == {f} \cap Scanned(scans)
<1>1. /\ MaySend("delete") /\ disk' = [disk EXCEPT ![f] = 0] /\ opened' = opened \ {f}
      /\ targets' = Existing(disk')
      /\ shown' = [g \in Files |-> IF g \in paths THEN Clean ELSE shown[g]]
      /\ Spawn("delete", "forget", f, paths, Session) /\ Overtakes(f, Opening(f))
      /\ UNCHANGED <<config, registry, raced, state, ready, ignored, onlyDirty, scans, rules,
                     openDocs>>
  BY DEF DidDelete, sessionVars
<1>2. PICK i \in Slots : Adds(i, "delete", "forget", f, paths, Session)
  BY <1>1, SpawnEffect DEF Kinds
<1>3. /\ replies[i] = NoReply /\ Only(i) /\ i \notin Active /\ replies'[i].files = paths
      /\ waiting' = waiting
      /\ replies'[i].kind = "delete" /\ replies'[i].step = "forget" /\ replies'[i].file = f
      /\ Active' = Active \cup {i}
      /\ \A j \in Slots \ {i} : replies'[j] = replies[j]
      /\ \A j \in Active : j # i /\ replies'[j] = replies[j]
      /\ \A g : ~About(i, g) /\ ~Wide(i)
  BY <1>2, AddsActive DEF Adds
<1>4. /\ disk' \in [Files -> Nat] /\ \A g \in Files \ {f} : disk'[g] = disk[g]
  BY <1>1 DEF ServerTypes
<1>5. \A g \in paths : g = f
  BY DEF Scanned
<1>6. f \in paths <=> scans[f] # Never
  BY DEF Scanned
<1>7. /\ shown' = [g \in Files |-> shown'[g]]
      /\ \A g \in Files \ {f} : shown'[g] = shown[g]
  BY <1>1, <1>5
<1> HIDE DEF paths
<1>8. ServerTypes'
  BY <1>1, <1>2, <1>4, <1>7, TypesGrow DEF ServerTypes
<1>9. /\ \A g : g # f => (g \in late' <=> g \in late)
      /\ Opening(f) => f \in late'
  BY <1>1 DEF Overtakes
<1>10. ready' /\ ready
  BY <1>1 DEF MaySend
<1>11. \A g \in opened' : /\ g \in opened /\ g # f /\ g \in Files
                          /\ disk'[g] = disk[g] /\ shown'[g] = shown[g]
  BY <1>1, <1>4, <1>7 DEF ServerTypes
<1>12. \A g \in opened' : g \in targets' /\ g \in targets /\ g \in Existing(disk')
  BY <1>1, <1>11 DEF RunInv, Workspace, Existing
<1>13. Queue'
  BY <1>3, QueueStays DEF RunInv
<1>14. Crowd'
  <2>1. Busy' = Busy /\ \A j \in Busy : replies'[j] = replies[j]
    BY <1>3 DEF Busy, Active, Free
  <2>2. ASSUME NEW g \in opened' \ raced'
        PROVE  Alone(g)'
    <3>1. Alone(g) /\ ~Touches(i, g)'
      BY <1>1, <1>3, <1>11, <2>2 DEF RunInv, Crowd, Touches
    <3> QED BY <1>1, <1>3, <3>1, AloneBeside
  <2> QED BY <1>1, <1>10, <2>1, <2>2 DEF RunInv, Crowd
<1>15. Workspace'
  BY <1>12 DEF Workspace, Existing
<1>16. Documents'
  <2>1. Documents /\ \A g : (Opening(g) => Opening(g)') /\ (Deleting(g) => Deleting(g)')
    BY <1>3 DEF RunInv, Opening, Deleting
  <2>2. \A g \in opened' \ late' : g \in openDocs' \/ Opening(g)'
    BY <1>1, <1>9, <1>11, <2>1 DEF Documents
  <2>3. ASSUME NEW g \in openDocs' \ late'
        PROVE  g \in opened' \/ Deleting(g)'
    <3>1. CASE g # f
      BY <1>1, <1>9, <2>1, <2>3, <3>1 DEF Documents
    <3>2. CASE g = f
      <4>1. scans[f] # Never
        BY <1>1, <2>3, <3>2 DEF RunInv, Filed
      <4> QED BY <1>3, <1>6, <3>2, <4>1 DEF Deleting
    <3> QED BY <3>1, <3>2
  <2>4. ASSUME NEW j \in Active', replies'[j].kind = "open"
        PROVE  replies'[j].file \in opened' \cup late'
    <3>1. j \in Active /\ replies'[j] = replies[j]
      BY <1>3, <2>4
    <3>2. Opening(replies[j].file)
      BY <2>4, <3>1 DEF Opening
    <3> QED BY <1>1, <1>9, <2>1, <2>4, <3>1, <3>2 DEF Documents
  <2>5. \A j \in Active' : replies'[j].kind = "delete" =>
           /\ replies'[j].step = "forget" /\ replies'[j].files \subseteq {replies'[j].file}
           /\ replies'[j].files \cap opened' \subseteq late'
    BY <1>3, <1>5, <1>9, <1>11, <2>1 DEF Documents
  <2>6. \A j \in Active' : replies'[j].kind \in {"file", "open"} => replies'[j].file \in Files
    BY <1>3, <2>1 DEF Documents
  <2> QED BY <2>2, <2>3, <2>4, <2>5, <2>6 DEF Documents
<1>17. \A g : ~About(i, g)' /\ ~Wide(i)'
  BY <1>3 DEF About, Wide
<1>18. Known'
  <2>1. \A j \in Slots \ {i} : \A g : About(j, g)' <=> About(j, g)
    BY <1>3 DEF About
  <2> QED BY <1>1, <1>3, <1>11, <2>1 DEF RunInv, Known, Never
<1>19. Filed'
  BY <1>1, <1>3, FiledGrows DEF RunInv
<1>20. Sessions'
  <2>1. \A j \in Slots : replies'[j].kind \in {"refresh", "workspace"} => replies'[j] = replies[j]
    BY <1>3
  <2> QED BY <1>1, <1>11, <2>1 DEF RunInv, Sessions, Agrees
<1>21. ASSUME NEW g \in opened' \ raced'
       PROVE  Current(g)'
  <2>1. Current(g)
    BY <1>1, <1>11, <1>21 DEF RunInv
  <2> QED BY <1>1, <1>3, <1>11, <1>12, <1>17, <1>21, <2>1, CurrentBeside DEF RunInv
<1> QED BY <1>8, <1>13, <1>14, <1>15, <1>16, <1>18, <1>19, <1>20, <1>21 DEF Kept, RunInv

(* A reply about all documents is asked for: those that nothing in flight  *)
(* touches will be current.                                                *)
LEMMA AskKeeps ==
  ASSUME ServerTypes, RunInv, \E full \in BOOLEAN : ScanWorkspace(full) \/ RefreshRules
  PROVE  Kept
<1> DEFINE Asked(kind, l, s, m) ==
         /\ MaySend(m) /\ Spawn(kind, l, "none", {}, s)
         /\ \/ kind = "workspace" /\ l = "begin"
            \/ /\ kind = "refresh" /\ l = "fetch" /\ onlyDirty' = onlyDirty
               /\ opened \ raced' \subseteq (opened \ raced) \cap openDocs
         /\ \A f \in opened \ raced' : ~Touched(f)
         /\ s.ignored = ignored' /\ s.onlyDirty = onlyDirty'
         /\ UNCHANGED <<config, disk, opened, late, registry, shown, state, ready, ignored,
                        targets, scans, rules, openDocs>>
<1>a. opened \subseteq Files
  BY DEF ServerTypes
<1>0. \E kind \in {"workspace", "refresh"}, m \in {"scanWorkspace", "refreshRules"} :
         \E l, s : Asked(kind, l, s, m)
  <2>1. ASSUME NEW full \in BOOLEAN, ScanWorkspace(full)
        PROVE  \E l, s : Asked("workspace", l, s, "scanWorkspace")
    <3> DEFINE s == [Session EXCEPT !.onlyDirty = ~full]
    <3>1. /\ MaySend("scanWorkspace") /\ Spawn("workspace", "begin", "none", {}, s)
          /\ onlyDirty' = ~full /\ raced' = {f \in Files : Touched(f)}
          /\ UNCHANGED <<config, disk, opened, late, registry, shown, state, ready, ignored,
                         targets, scans, rules, openDocs>>
      BY <2>1 DEF ScanWorkspace, cacheVars
    <3>2. s.ignored = ignored /\ s.onlyDirty = ~full
      BY DEF Session
    <3> HIDE DEF s
    <3>3. Asked("workspace", "begin", s, "scanWorkspace")
      BY <1>a, <3>1, <3>2
    <3> HIDE DEF Asked
    <3> QED BY <3>3
  <2>2. ASSUME RefreshRules
        PROVE  \E l, s : Asked("refresh", l, s, "refreshRules")
    <3>1. Session.ignored = ignored /\ Session.onlyDirty = onlyDirty
      BY DEF Session
    <3>2. Asked("refresh", "fetch", Session, "refreshRules")
      BY <1>a, <2>2, <3>1 DEF RefreshRules, sessionVars, cacheVars
    <3> HIDE DEF Asked
    <3> QED BY <3>2
  <2> HIDE DEF Asked
  <2> QED BY <2>1, <2>2
<1>b. PICK kind \in {"workspace", "refresh"}, m \in {"scanWorkspace", "refreshRules"} :
         \E l, s : Asked(kind, l, s, m)
  BY <1>0
<1>1. PICK l, s : Asked(kind, l, s, m)
  BY <1>b
<1>2. PICK i \in Slots : Adds(i, kind, l, "none", {}, s)
  BY <1>1, SpawnEffect DEF Kinds
<1>3. /\ replies[i] = NoReply /\ Only(i) /\ i \notin Active /\ replies'[i].session = s
      /\ waiting' = waiting
      /\ replies'[i].kind = kind /\ replies'[i].step = l
      /\ Active' = Active \cup {i}
      /\ \A j \in Slots \ {i} : replies'[j] = replies[j]
      /\ \A j \in Active : j # i /\ replies'[j] = replies[j]
      /\ \A g : ~About(i, g) /\ ~Wide(i)
  BY <1>1, <1>2, AddsActive DEF Adds
<1>4. ServerTypes'
  BY <1>1, <1>2, TypesGrow DEF ServerTypes
<1>5. ready' /\ ready
  BY <1>1 DEF MaySend
<1>6. ASSUME NEW g \in opened \ raced', NEW j \in Slots \ {i}
      PROVE  /\ j \in Active' => ~Touches(j, g)'
             /\ ~About(j, g) /\ ~Wide(j) /\ ~About(j, g)' /\ ~Wide(j)'
             /\ replies'[j].kind \notin {"refresh", "workspace"}
  <2>1. j \in Active => ~Touches(j, g)
    BY <1>1, <1>6 DEF Touched
  <2>2. replies'[j] = replies[j] /\ (j \in Active' => j \in Active)
    BY <1>3
  <2>3. ~About(j, g) /\ ~Wide(j)
    BY <2>1, TouchesIts
  <2>4. replies[j].kind \notin {"refresh", "workspace"}
    BY <2>1 DEF Active, Free, Touches, NoReply
  <2> QED BY <2>1, <2>2, <2>3, <2>4 DEF About, Wide, Touches
<1>7. Queue'
  BY <1>1, <1>3, QueueStays DEF RunInv
<1>8. Crowd'
  <2>1. Busy' = Busy /\ \A j \in Busy : replies'[j] = replies[j]
    BY <1>1, <1>3 DEF Busy, Active, Free
  <2>2. \A g \in opened \ raced' : Alone(g)'
    BY <1>6 DEF Alone, Active
  <2> QED BY <1>1, <1>5, <2>1, <2>2 DEF RunInv, Crowd
<1>9. Workspace'
  BY <1>1 DEF RunInv, Workspace, Existing
<1>10. Documents'
  <2>1. \A g : (Opening(g) => Opening(g)') /\ (Deleting(g) => Deleting(g)')
    BY <1>3 DEF Opening, Deleting
  <2> QED BY <1>1, <1>3, <2>1 DEF RunInv, Documents
<1>11. Known'
  <2>1. \A j \in Slots \ {i} : \A g : About(j, g)' <=> About(j, g)
    BY <1>3 DEF About
  <2> QED BY <1>1, <1>3, <2>1 DEF RunInv, Known, Never
<1>12. Filed'
  BY <1>1, <1>3, FiledGrows DEF RunInv
<1>13. \A g : Agrees(i, g)'
  BY <1>1, <1>3 DEF Agrees
<1>14. Sessions'
  <2>1. \A j \in Slots : replies'[j].kind \in {"refresh", "workspace"} =>
           \A g \in opened \ raced' : j = i
    BY <1>6
  <2>2. replies'[i].kind = "refresh" => opened \ raced' \subseteq openDocs
    BY <1>1, <1>3
  <2> QED BY <1>1, <1>13, <2>1, <2>2 DEF Sessions
<1>15. ASSUME NEW g \in opened \ raced'
       PROVE  Current(g)'
  <2>1. CASE kind = "workspace"
    <3>1. Wide(i)' /\ Due(i, g)'
      BY <1>1, <1>3, <1>13, <2>1 DEF Wide, Due
    <3> QED BY <3>1 DEF Current
  <2>2. CASE kind = "refresh"
    <3>1. ~About(i, g)' /\ ~Wide(i)' /\ onlyDirty' = onlyDirty
      BY <1>1, <1>3, <2>2 DEF About, Wide
    <3>2. Current(g)
      BY <1>1, <1>15, <2>2 DEF RunInv
    <3> QED BY <1>1, <1>3, <3>1, <3>2, CurrentBeside DEF RunInv
  <2> QED BY <2>1, <2>2
<1> QED BY <1>1, <1>4, <1>7, <1>8, <1>9, <1>10, <1>11, <1>12, <1>14, <1>15 DEF Kept, RunInv

LEMMA PublishKeeps ==
  ASSUME ServerTypes, RunInv, Publish
  PROVE  Kept
<1>1. /\ registry' = registry + 1
      /\ UNCHANGED <<config, disk, opened, raced, late, shown, state, ready, ignored, onlyDirty,
                     targets, scans, rules, openDocs, replies, waiting>>
  BY DEF Publish, sessionVars, cacheVars, replyVars
<1>2. ServerTypes'
  BY <1>1 DEF ServerTypes, IsReply, NoReply, Never
<1>3. Active' = Active /\ Busy' = Busy
  BY <1>1 DEF Active, Free, Busy
<1>4. Queue'
  BY <1>1, <1>3 DEF RunInv, Queue
<1>5. Crowd'
  BY <1>1, <1>3 DEF RunInv, Crowd, Alone, Touches, InTurn
<1>6. Workspace'
  BY <1>1 DEF RunInv, Workspace, Existing
<1>7. Documents'
  BY <1>1, <1>3 DEF RunInv, Documents, Opening, Deleting
<1>8. Known' /\ Filed'
  BY <1>1 DEF RunInv, Known, Filed, Never, About
<1>9. Sessions'
  BY <1>1 DEF RunInv, Sessions, Agrees
<1>10. ASSUME NEW g \in opened \ raced
       PROVE  Current(g)'
  BY <1>1, CurrentSame DEF RunInv
<1> QED BY <1>1, <1>2, <1>4, <1>5, <1>6, <1>7, <1>8, <1>9, <1>10 DEF Kept, RunInv

-----------------------------------------------------------------------------
(* The invariant.                                                          *)

LEMMA InitServer ==
  ASSUME Init
  PROVE  ServerInv
<1>1. \A i \in Slots : replies[i] = NoReply
  BY DEF Init
<1>2. Active = {}
  BY <1>1 DEF Active, Free
<1>3. ServerTypes
  BY <1>1 DEF Init, ServerTypes
<1>4. state = "Uninitialized" /\ waiting = <<>> /\ opened = {} /\ openDocs = {} /\ ~ready
  BY DEF Init
<1> QED BY <1>2, <1>3, <1>4 DEF ServerInv

LEMMA ContinueKeeps ==
  ASSUME ServerTypes, RunInv, NEW i \in Slots, Continue(i)
  PROVE  Kept /\ UNCHANGED <<config, state>>
<1>1. UNCHANGED <<config, state>>
  BY DEF Continue, Fetch, FetchFails, Install, SelectOpenDocs, Detach, Start, Scan, RecordFile,
     RecordScan, PublishScan, AddOpenDocument, RemoveOpenDocuments, clientVars, sessionVars
<1>2. Kept
  BY FetchKeeps, InstallKeeps, SelectKeeps, DetachKeeps, StartKeeps, ScanKeeps, RecordFileKeeps,
     RecordScanKeeps, PublishScanKeeps, OpenDocsKeep DEF Continue
<1> QED BY <1>1, <1>2

(* No reply runs before the server is initialized, or after its exit.      *)
LEMMA ContinueRuns ==
  ASSUME ServerTypes, Active = {}, waiting = <<>>, NEW i \in Slots, Continue(i)
  PROVE  FALSE
<1>1. replies[i] = NoReply
  BY DEF Active, Free
<1>2. replies[i].kind = "none"
  BY <1>1 DEF NoReply
<1> QED BY <1>2 DEF Continue, Fetch, FetchFails, Install, SelectOpenDocs, Detach, Start, Scan,
      RecordFile, RecordScan, PublishScan, AddOpenDocument, RemoveOpenDocuments, At

LEMMA MessageKeeps ==
  ASSUME ServerTypes, RunInv, state = "Running", Message, ~Exit
  PROVE  Kept /\ UNCHANGED <<config, state>>
<1>1. ~Initialize
  BY DEF Initialize
<1>2. UNCHANGED <<config, state>>
  BY <1>1 DEF Message, Initialized, DidOpen, DidSave, DidClose, DidCreate, Appear, DidDelete,
     Ignore, ScanWorkspace, RefreshRules, clientVars, sessionVars
<1>3. Kept
  BY <1>1, InitializedKeeps, FileMessageKeeps, DidCloseKeeps, NewFileKeeps, DidDeleteKeeps, AskKeeps
     DEF Message
<1> QED BY <1>2, <1>3

LEMMA ServerStep ==
  ASSUME ServerInv, [Next]_vars
  PROVE  ServerInv'
<1>1. ServerTypes
  BY DEF ServerInv
<1>2. ASSUME Kept, config' = config, state' = "Running"
      PROVE  ServerInv'
  BY <1>1, <1>2 DEF ServerInv, Kept
<1>3. CASE UNCHANGED vars
  <2>1. ServerTypes' /\ RunInv = RunInv'
    <3> USE <1>3 DEF vars, clientVars, sessionVars, cacheVars, replyVars
    <3>1. ServerTypes'
      BY <1>1 DEF ServerTypes, IsReply, NoReply, Never
    <3>2. RunInv' = RunInv
      BY DEF RunInv, Queue, Crowd, Workspace, Documents, Known, Filed, Sessions, Current, Busy,
         Active, Free, Alone, Touches, InTurn, Opening, Deleting, Latest, About, Wide, Due, Agrees, Target, TargetsOf, Expected, Existing, Session,
         Dirty, Result, NoReply, Never, Clean, Found
    <3> QED BY <3>1, <3>2
  <2>2. Active' = Active
    BY <1>3 DEF vars, replyVars, Active, Free
  <2> QED BY <1>1, <1>3, <2>1, <2>2 DEF ServerInv, vars, clientVars, sessionVars, cacheVars,
        replyVars
<1>4. CASE Initialize
  <2>1. state = "Uninitialized" /\ state' = "Running" /\ config' = config
    BY <1>4 DEF Initialize, clientVars
  <2>2. Active = {} /\ waiting = <<>> /\ opened = {} /\ openDocs = {} /\ ~ready
    BY <2>1 DEF ServerInv
  <2> QED BY <1>1, <1>2, <1>4, <2>1, <2>2, InitializeKeeps
<1>5. CASE Exit
  <2>1. /\ state' = "Stopped" /\ waiting' = <<>> /\ \A i \in Slots : replies'[i] = NoReply
        /\ replies' = [i \in Slots |-> NoReply]
        /\ UNCHANGED <<config, disk, shown, scans, opened, registry, rules>>
    BY <1>5 DEF Exit, clientVars, cacheVars
  <2>2. Active' = {}
    BY <2>1 DEF Active, Free
  <2>3. replies' = [i \in Slots |-> replies'[i]]
    BY <2>1
  <2>4. ServerTypes'
    BY <1>1, <2>1, <2>3 DEF ServerTypes
  <2> QED BY <1>1, <2>1, <2>2, <2>4 DEF ServerInv
<1>6. CASE Publish
  <2>1. state = "Running" /\ state' = "Running" /\ config' = config
    BY <1>6 DEF Publish, sessionVars
  <2>2. RunInv
    BY <2>1 DEF ServerInv
  <2> QED BY <1>1, <1>2, <1>6, <2>1, <2>2, PublishKeeps
<1>7. CASE Message /\ ~Initialize /\ ~Exit
  <2>1. state = "Running"
    BY <1>7 DEF Message, Initialized, DidOpen, DidSave, DidClose, DidCreate, Appear, DidDelete,
       Ignore, ScanWorkspace, RefreshRules, MaySend
  <2>2. RunInv
    BY <2>1 DEF ServerInv
  <2> QED BY <1>1, <1>2, <1>7, <2>1, <2>2, MessageKeeps
<1>8. CASE \E i \in Slots : Continue(i)
  <2>1. PICK i \in Slots : Continue(i)
    BY <1>8
  <2>2. state = "Running"
    BY <1>1, <2>1, ContinueRuns DEF ServerInv
  <2>3. RunInv
    BY <2>2 DEF ServerInv
  <2> QED BY <1>1, <1>2, <2>1, <2>2, <2>3, ContinueKeeps
<1> QED BY <1>3, <1>4, <1>5, <1>6, <1>7, <1>8 DEF Next

LEMMA ServerInvInvariant == Spec => []ServerInv
<1>1. Init => ServerInv
  BY InitServer
<1>2. ServerInv /\ [Next]_vars => ServerInv'
  BY ServerStep
<1> QED BY <1>1, <1>2, PTL DEF Spec

-----------------------------------------------------------------------------

(* When no reply runs, the editor shows for each open document what a scan *)
(* of its present version finds, with the rules and the settings the       *)
(* server has now: whatever the client sends and when, in whatever order   *)
(* the scans end, for every document of which no two replies overlapped    *)
(* since it was last scanned alone, those in one thread apart.             *)
THEOREM ShownIsCurrent == Spec => []DocumentsAreCurrent
<1>1. ServerInv => DocumentsAreCurrent
  <2>1. SUFFICES ASSUME ServerInv, state = "Running", Active = {}, NEW f \in opened \ raced
                 PROVE  shown[f] = Expected(f)
    BY DEF DocumentsAreCurrent, AtRest, Quiet
  <2>2. \A i \in Slots : ~About(i, f) /\ ~Wide(i)
    BY <2>1 DEF Active, Free, About, Wide, NoReply
  <2>3. Current(f)
    BY <2>1 DEF ServerInv, RunInv
  <2> QED BY <2>2, <2>3 DEF Current, Latest
<1> QED BY <1>1, ServerInvInvariant, PTL

(* When no reply runs, the documents the server rescans after a refresh of *)
(* the rules are those open in the editor, whatever the client sends and   *)
(* when: but for the one whose opening and closing overlapped, none stays  *)
(* after its close and none is missing.                                    *)
THEOREM OpenDocumentsKnown == Spec => []OpenDocumentsAgree
<1>1. ServerInv => OpenDocumentsAgree
  <2>1. SUFFICES ASSUME ServerInv, state = "Running", Active = {}, NEW f \in Files \ late
                 PROVE  f \in openDocs <=> f \in opened
    BY DEF OpenDocumentsAgree, AtRest, Quiet
  <2>2. Documents /\ ~Opening(f) /\ ~Deleting(f)
    BY <2>1 DEF ServerInv, RunInv, Opening, Deleting
  <2> QED BY <2>1, <2>2 DEF Documents
<1> QED BY <1>1, ServerInvInvariant, PTL
=============================================================================
