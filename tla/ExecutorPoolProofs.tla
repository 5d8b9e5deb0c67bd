------------------------- MODULE ExecutorPoolProofs -------------------------
(***************************************************************************)
(* Proofs about ExecutorPool, for any number of workers, of elements and   *)
(* of submitters and any bounds on suspensions and exceptions.             *)
(*                                                                         *)
(* First what needs no assumption: promises are written once and jobs end  *)
(* with the map, whatever the weights of the jobs and wherever             *)
(* asynchronous exceptions land.  Workers may then run several jobs that   *)
(* share one active_job, and the map may fail.                             *)
(*                                                                         *)
(* Then the pool as Concurrent.map uses it: every job has the weight of a  *)
(* whole domain, and asynchronous exceptions land only while a job is      *)
(* inside its mapped function.                                             *)
(***************************************************************************)
EXTENDS ExecutorPool, WellFoundedInduction, TLAPS

PromiseTypes ==
    /\ started \in 0..N
    /\ queue \in Seq(Elems)
    /\ promise \in [Elems -> {"none", "pending", "ok", "error"}]
    /\ pc \in [Workers -> {"ready", "loop", "taken", "await", "exited", "stopped"}]
    /\ active \in [Workers -> Elems \cup {NoJob}]
    /\ home \in [Elems -> Workers \cup {NoHome}]
    /\ fiber \in [Elems -> {"none", "taken", "running", "suspended", "resolved", "ended"}]

(* A job not submitted has no promise; one in the queue has no fiber and   *)
(* nobody has resolved its promise; and it is there once.                  *)
WaitingJobs ==
    /\ \A e \in Elems: e > started => promise[e] = "none" /\ fiber[e] = "none"
    /\ \A i \in 1..Len(queue): promise[queue[i]] = "pending" /\ fiber[queue[i]] = "none"
    /\ \A i, j \in 1..Len(queue): queue[i] = queue[j] => i = j

(* The worker of a job that is taken or has a fiber is alive, and the      *)
(* promise of a job inside its function is pending; while a job executes   *)
(* the loop of its worker does not.                                        *)
TakenJobs ==
    /\ \A e \in Elems: fiber[e] # "none" => home[e] \in Workers
    /\ \A e \in Elems: fiber[e] = "taken" =>
        promise[e] = "pending" /\ pc[home[e]] = "taken"
    /\ \A e, f \in Elems:
        fiber[e] = "taken" /\ fiber[f] = "taken" /\ home[e] = home[f] => e = f
    /\ \A e \in Elems: InFn(e) => promise[e] = "pending"
    /\ \A e \in Elems: fiber[e] \in Live => pc[home[e]] \notin {"exited", "stopped"}
    /\ \A e \in Elems: fiber[e] \in {"running", "resolved"} => pc[home[e]] \in {"ready", "await"}

(* active_job names a job of this worker that has, or had, a fiber.        *)
ActiveJobs ==
    \A w \in Workers: active[w] # NoJob =>
        home[active[w]] = w /\ fiber[active[w]] \notin {"none", "taken"}

PromiseInv == PromiseTypes /\ WaitingJobs /\ TakenJobs /\ ActiveJobs

-----------------------------------------------------------------------------
USE ExecutorPoolAssumption DEF Elems, Live, InFn, Settled,
        vars, mainVars, sharedVars, workerVars, jobVars, boundVars

LEMMA SubmitKeeps ==
  ASSUME PromiseInv, Submit
  PROVE  PromiseInv'
<1>1. PromiseTypes'
  BY DEF PromiseInv, PromiseTypes, Submit, CanSubmit
<1>2. WaitingJobs'
  <2> DEFINE n == started + 1
  <2>1. /\ n \in Elems /\ promise[n] = "none" /\ fiber[n] = "none"
        /\ queue' = Append(queue, n) /\ fiber' = fiber
        /\ started' = n
        /\ promise' = [promise EXCEPT ![n] = "pending"]
    BY DEF PromiseInv, PromiseTypes, WaitingJobs, Submit, CanSubmit
  <2>2. /\ Len(queue') = Len(queue) + 1 /\ Len(queue) \in Nat
        /\ \A i \in 1..Len(queue): queue'[i] = queue[i] /\ queue[i] \in Elems
        /\ queue'[Len(queue')] = n
    BY <2>1 DEF PromiseInv, PromiseTypes
  <2>3. \A e \in Elems: e > n => e > started
    BY DEF PromiseInv, PromiseTypes
  <2> HIDE DEF n
  <2>4. \A i \in 1..Len(queue): queue[i] # n
    BY <2>1 DEF PromiseInv, WaitingJobs
  <2>5. \A e \in Elems: e > n => e # n
    BY <2>1
  <2>6. \A e \in Elems: e > started' => promise'[e] = "none" /\ fiber'[e] = "none"
    BY <2>1, <2>3, <2>5 DEF PromiseInv, PromiseTypes, WaitingJobs
  <2>7. \A i \in 1..Len(queue'): promise'[queue'[i]] = "pending" /\ fiber'[queue'[i]] = "none"
    BY <2>1, <2>2 DEF PromiseInv, PromiseTypes, WaitingJobs
  <2>8. \A i, j \in 1..Len(queue'): queue'[i] = queue'[j] => i = j
    BY <2>2, <2>4 DEF PromiseInv, WaitingJobs
  <2> QED BY <2>6, <2>7, <2>8 DEF WaitingJobs
<1>3. TakenJobs'
  <2>1. \A e \in Elems: fiber[e] # "none" => promise'[e] = promise[e]
    BY DEF PromiseInv, PromiseTypes, WaitingJobs, Submit, CanSubmit
  <2> QED BY <2>1 DEF PromiseInv, TakenJobs, Submit
<1>4. ActiveJobs'
  BY DEF PromiseInv, PromiseTypes, ActiveJobs, Submit, CanSubmit
<1> QED BY <1>1, <1>2, <1>3, <1>4 DEF PromiseInv

LEMMA SubmitInvalidKeeps ==
  ASSUME PromiseInv, SubmitInvalid
  PROVE  PromiseInv'
<1>1. PromiseTypes'
  BY DEF PromiseInv, PromiseTypes, SubmitInvalid, CanSubmit
<1>2. WaitingJobs'
  BY DEF PromiseInv, PromiseTypes, WaitingJobs, SubmitInvalid, CanSubmit
<1>3. TakenJobs'
  BY DEF PromiseInv, PromiseTypes, TakenJobs, SubmitInvalid, CanSubmit
<1>4. ActiveJobs'
  BY DEF PromiseInv, PromiseTypes, ActiveJobs, SubmitInvalid, CanSubmit
<1> QED BY <1>1, <1>2, <1>3, <1>4 DEF PromiseInv

LEMMA CollectKeeps ==
  ASSUME PromiseInv, NEW e \in Elems, Collect(e)
  PROVE  PromiseInv'
<1>1. PromiseTypes'
  BY DEF PromiseInv, PromiseTypes, Collect
<1>2. WaitingJobs'
  BY DEF PromiseInv, PromiseTypes, WaitingJobs, Collect
<1>3. TakenJobs'
  BY DEF PromiseInv, PromiseTypes, TakenJobs, Collect
<1>4. ActiveJobs'
  BY DEF PromiseInv, PromiseTypes, ActiveJobs, Collect
<1> QED BY <1>1, <1>2, <1>3, <1>4 DEF PromiseInv

LEMMA BodyReturnsKeeps ==
  ASSUME PromiseInv, BodyReturns
  PROVE  PromiseInv'
<1>1. PromiseTypes'
  BY DEF PromiseInv, PromiseTypes, BodyReturns
<1>2. WaitingJobs'
  BY DEF PromiseInv, PromiseTypes, WaitingJobs, BodyReturns
<1>3. TakenJobs'
  BY DEF PromiseInv, PromiseTypes, TakenJobs, BodyReturns
<1>4. ActiveJobs'
  BY DEF PromiseInv, PromiseTypes, ActiveJobs, BodyReturns
<1> QED BY <1>1, <1>2, <1>3, <1>4 DEF PromiseInv

LEMMA ReleaseKeeps ==
  ASSUME PromiseInv, Release
  PROVE  PromiseInv'
<1>1. PromiseTypes'
  BY DEF PromiseInv, PromiseTypes, Release
<1>2. WaitingJobs'
  BY DEF PromiseInv, PromiseTypes, WaitingJobs, Release
<1>3. TakenJobs'
  BY DEF PromiseInv, PromiseTypes, TakenJobs, Release
<1>4. ActiveJobs'
  BY DEF PromiseInv, PromiseTypes, ActiveJobs, Release
<1> QED BY <1>1, <1>2, <1>3, <1>4 DEF PromiseInv

LEMMA ResumeKeeps ==
  ASSUME PromiseInv, NEW w \in Workers, Resume(w)
  PROVE  PromiseInv'
<1>1. PromiseTypes'
  BY DEF PromiseInv, PromiseTypes, Resume, Idle, LiveOn
<1>2. WaitingJobs'
  BY DEF PromiseInv, PromiseTypes, WaitingJobs, Resume, Idle, LiveOn
<1>3. TakenJobs'
  BY DEF PromiseInv, PromiseTypes, TakenJobs, Resume, Idle, LiveOn
<1>4. ActiveJobs'
  BY DEF PromiseInv, PromiseTypes, ActiveJobs, Resume, Idle, LiveOn
<1> QED BY <1>1, <1>2, <1>3, <1>4 DEF PromiseInv

LEMMA AwaitCapacityKeeps ==
  ASSUME PromiseInv, NEW w \in Workers, AwaitCapacity(w)
  PROVE  PromiseInv'
<1>1. PromiseTypes'
  BY DEF PromiseInv, PromiseTypes, AwaitCapacity
<1>2. WaitingJobs'
  BY DEF PromiseInv, PromiseTypes, WaitingJobs, AwaitCapacity
<1>3. TakenJobs'
  BY DEF PromiseInv, PromiseTypes, TakenJobs, AwaitCapacity
<1>4. ActiveJobs'
  BY DEF PromiseInv, PromiseTypes, ActiveJobs, AwaitCapacity
<1> QED BY <1>1, <1>2, <1>3, <1>4 DEF PromiseInv

LEMMA TakeKeeps ==
  ASSUME PromiseInv, NEW w \in Workers, Take(w)
  PROVE  PromiseInv'
<1> DEFINE h == Head(queue)
<1>1. /\ h \in Elems /\ promise[h] = "pending" /\ fiber[h] = "none" /\ h <= started
      /\ Len(queue) \in Nat \ {0}
      /\ \A i \in 2..Len(queue): queue[i] # h
  BY DEF PromiseInv, PromiseTypes, WaitingJobs, Take
<1>2. /\ queue' \in Seq(Elems)
      /\ Len(queue') = Len(queue) - 1
      /\ \A i \in 1..Len(queue'): queue'[i] = queue[i + 1]
  BY <1>1 DEF PromiseInv, PromiseTypes, Take
<1>3. /\ home' = [home EXCEPT ![h] = w]
      /\ fiber' = [fiber EXCEPT ![h] = "taken"]
      /\ pc' = [pc EXCEPT ![w] = "taken"]
      /\ pc[w] = "loop"
      /\ UNCHANGED <<started, promise, active>>
  BY DEF Take
<1>4. \A e \in Elems: home[e] = w => fiber[e] # "taken"
  BY <1>3 DEF PromiseInv, TakenJobs
<1> HIDE DEF h
<1>5. PromiseTypes'
  BY <1>1, <1>2, <1>3 DEF PromiseInv, PromiseTypes
<1>6. WaitingJobs'
  <2>1. \A e \in Elems: e > started' => promise'[e] = "none" /\ fiber'[e] = "none"
    BY <1>1, <1>3 DEF PromiseInv, PromiseTypes, WaitingJobs
  <2>2. \A i \in 1..Len(queue'):
            /\ i \in Nat /\ i + 1 \in 1..Len(queue) /\ i + 1 \in 2..Len(queue)
            /\ queue'[i] = queue[i + 1]
    BY <1>1, <1>2
  <2>3. \A i \in 1..Len(queue): queue[i] \in Elems
    BY DEF PromiseInv, PromiseTypes
  <2>4. \A i \in 1..Len(queue'): promise'[queue'[i]] = "pending" /\ fiber'[queue'[i]] = "none"
    <3>1. SUFFICES ASSUME NEW i \in 1..Len(queue')
                   PROVE  promise'[queue'[i]] = "pending" /\ fiber'[queue'[i]] = "none"
      OBVIOUS
    <3>2. queue'[i] \in Elems /\ queue'[i] # h
      BY <1>1, <2>2, <2>3
    <3>3. promise[queue'[i]] = "pending" /\ fiber[queue'[i]] = "none"
      BY <2>2 DEF PromiseInv, WaitingJobs
    <3> QED BY <1>3, <3>2, <3>3 DEF PromiseInv, PromiseTypes
  <2>5. \A i, j \in 1..Len(queue'): queue'[i] = queue'[j] => i = j
    <3>1. SUFFICES ASSUME NEW i \in 1..Len(queue'), NEW j \in 1..Len(queue'),
                          queue'[i] = queue'[j]
                   PROVE  i = j
      OBVIOUS
    <3>2. i + 1 = j + 1
      BY <2>2, <3>1 DEF PromiseInv, WaitingJobs
    <3> QED BY <2>2, <3>2
  <2> QED BY <2>1, <2>4, <2>5 DEF WaitingJobs
<1>7. TakenJobs'
  BY <1>1, <1>3, <1>4 DEF PromiseInv, PromiseTypes, TakenJobs
<1>8. ActiveJobs'
  BY <1>1, <1>3 DEF PromiseInv, PromiseTypes, ActiveJobs
<1> QED BY <1>5, <1>6, <1>7, <1>8 DEF PromiseInv

LEMMA TakeNoneKeeps ==
  ASSUME PromiseInv, NEW w \in Workers, TakeNone(w)
  PROVE  PromiseInv'
<1>1. PromiseTypes'
  BY DEF PromiseInv, PromiseTypes, TakeNone
<1>2. WaitingJobs'
  BY DEF PromiseInv, PromiseTypes, WaitingJobs, TakeNone
<1>3. TakenJobs'
  BY DEF PromiseInv, PromiseTypes, TakenJobs, TakeNone
<1>4. ActiveJobs'
  BY DEF PromiseInv, PromiseTypes, ActiveJobs, TakeNone
<1> QED BY <1>1, <1>2, <1>3, <1>4 DEF PromiseInv

LEMMA StartKeeps ==
  ASSUME PromiseInv, NEW w \in Workers, NEW e \in Elems, Start(w, e)
  PROVE  PromiseInv'
<1>1. PromiseTypes'
  BY DEF PromiseInv, PromiseTypes, Start
<1>2. WaitingJobs'
  BY DEF PromiseInv, PromiseTypes, WaitingJobs, Start
<1>3. TakenJobs'
  BY DEF PromiseInv, PromiseTypes, TakenJobs, Start
<1>4. ActiveJobs'
  BY DEF PromiseInv, PromiseTypes, ActiveJobs, Start
<1> QED BY <1>1, <1>2, <1>3, <1>4 DEF PromiseInv

LEMMA FnReturnKeeps ==
  ASSUME PromiseInv, NEW e \in Elems, FnReturn(e)
  PROVE  PromiseInv'
<1>1. PromiseTypes'
  BY DEF PromiseInv, PromiseTypes, FnReturn
<1>2. WaitingJobs'
  BY DEF PromiseInv, PromiseTypes, WaitingJobs, FnReturn
<1>3. TakenJobs'
  BY DEF PromiseInv, PromiseTypes, TakenJobs, FnReturn
<1>4. ActiveJobs'
  BY DEF PromiseInv, PromiseTypes, ActiveJobs, FnReturn
<1> QED BY <1>1, <1>2, <1>3, <1>4 DEF PromiseInv

LEMMA FnSuspendKeeps ==
  ASSUME PromiseInv, NEW e \in Elems, FnSuspend(e)
  PROVE  PromiseInv'
<1>1. PromiseTypes'
  BY DEF PromiseInv, PromiseTypes, FnSuspend
<1>2. WaitingJobs'
  BY DEF PromiseInv, PromiseTypes, WaitingJobs, FnSuspend
<1>3. TakenJobs'
  BY DEF PromiseInv, PromiseTypes, TakenJobs, FnSuspend
<1>4. ActiveJobs'
  BY DEF PromiseInv, PromiseTypes, ActiveJobs, FnSuspend
<1> QED BY <1>1, <1>2, <1>3, <1>4 DEF PromiseInv

LEMMA FnResumeKeeps ==
  ASSUME PromiseInv, NEW e \in Elems, FnResume(e)
  PROVE  PromiseInv'
<1>1. PromiseTypes'
  BY DEF PromiseInv, PromiseTypes, FnResume, Idle, LiveOn
<1>2. WaitingJobs'
  BY DEF PromiseInv, PromiseTypes, WaitingJobs, FnResume, Idle, LiveOn
<1>3. TakenJobs'
  BY DEF PromiseInv, PromiseTypes, TakenJobs, FnResume, Idle, LiveOn
<1>4. ActiveJobs'
  BY DEF PromiseInv, PromiseTypes, ActiveJobs, FnResume, Idle, LiveOn
<1> QED BY <1>1, <1>2, <1>3, <1>4 DEF PromiseInv

LEMMA FinishKeeps ==
  ASSUME PromiseInv, NEW e \in Elems, Finish(e)
  PROVE  PromiseInv'
<1>1. PromiseTypes'
  BY DEF PromiseInv, PromiseTypes, Finish
<1>2. WaitingJobs'
  BY DEF PromiseInv, PromiseTypes, WaitingJobs, Finish
<1>3. TakenJobs'
  <2>1. /\ home[e] \in Workers /\ pc[home[e]] \in {"ready", "await"}
        /\ fiber' = [fiber EXCEPT ![e] = "ended"]
        /\ pc' = [pc EXCEPT ![home[e]] = "ready"]
        /\ UNCHANGED <<promise, home>>
    BY DEF PromiseInv, TakenJobs, Finish
  <2>2. \A f \in Elems: fiber[f] = "taken" => home[f] # home[e]
    BY <2>1 DEF PromiseInv, TakenJobs
  <2>4. \A f \in Elems: home[f] \in Workers =>
            pc'[home[f]] = IF home[f] = home[e] THEN "ready" ELSE pc[home[f]]
    BY <2>1 DEF PromiseInv, PromiseTypes
  <2>5. \A f \in Elems: fiber'[f] = IF f = e THEN "ended" ELSE fiber[f]
    BY <2>1 DEF PromiseInv, PromiseTypes
  <2> QED BY <2>1, <2>2, <2>4, <2>5 DEF PromiseInv, TakenJobs
<1>4. ActiveJobs'
  BY DEF PromiseInv, PromiseTypes, ActiveJobs, Finish
<1> QED BY <1>1, <1>2, <1>3, <1>4 DEF PromiseInv

LEMMA AsyncInSchedulerKeeps ==
  ASSUME PromiseInv, NEW w \in Workers, AsyncInScheduler(w)
  PROVE  PromiseInv'
<1>1. PromiseTypes'
  BY DEF PromiseInv, PromiseTypes, AsyncInScheduler, Async, Idle, LiveOn
<1>2. WaitingJobs'
  BY DEF PromiseInv, PromiseTypes, WaitingJobs, AsyncInScheduler, Async, Idle, LiveOn
<1>3. TakenJobs'
  BY DEF PromiseInv, PromiseTypes, TakenJobs, AsyncInScheduler, Async, Idle, LiveOn
<1>4. ActiveJobs'
  BY DEF PromiseInv, PromiseTypes, ActiveJobs, AsyncInScheduler, Async, Idle, LiveOn
<1> QED BY <1>1, <1>2, <1>3, <1>4 DEF PromiseInv

LEMMA AsyncAfterResolveKeeps ==
  ASSUME PromiseInv, NEW e \in Elems, AsyncAfterResolve(e)
  PROVE  PromiseInv'
<1>1. PromiseTypes'
  BY DEF PromiseInv, PromiseTypes, AsyncAfterResolve, Async
<1>2. WaitingJobs'
  BY DEF PromiseInv, PromiseTypes, WaitingJobs, AsyncAfterResolve, Async
<1>3. TakenJobs'
  BY DEF PromiseInv, PromiseTypes, TakenJobs, AsyncAfterResolve, Async
<1>4. ActiveJobs'
  BY DEF PromiseInv, PromiseTypes, ActiveJobs, AsyncAfterResolve, Async
<1> QED BY <1>1, <1>2, <1>3, <1>4 DEF PromiseInv

LEMMA AsyncInLoopKeeps ==
  ASSUME PromiseInv, NEW w \in Workers, AsyncInLoop(w)
  PROVE  PromiseInv'
<1>1. PromiseTypes'
  BY DEF PromiseInv, PromiseTypes, AsyncInLoop, Async
<1>2. WaitingJobs'
  BY DEF PromiseInv, PromiseTypes, WaitingJobs, AsyncInLoop, Async
<1>3. TakenJobs'
  BY DEF PromiseInv, PromiseTypes, TakenJobs, AsyncInLoop, Async
<1>4. ActiveJobs'
  BY DEF PromiseInv, PromiseTypes, ActiveJobs, AsyncInLoop, Async
<1> QED BY <1>1, <1>2, <1>3, <1>4 DEF PromiseInv

LEMMA CancelKeeps ==
  ASSUME PromiseInv, NEW w \in Workers, Cancel(w)
  PROVE  PromiseInv'
<1>1. PromiseTypes'
  BY DEF PromiseInv, PromiseTypes, Cancel, Idle, LiveOn
<1>2. WaitingJobs'
  BY DEF PromiseInv, PromiseTypes, WaitingJobs, Cancel, Idle, LiveOn
<1>3. TakenJobs'
  BY DEF PromiseInv, PromiseTypes, TakenJobs, Cancel, Idle, LiveOn
<1>4. ActiveJobs'
  BY DEF PromiseInv, PromiseTypes, ActiveJobs, Cancel, Idle, LiveOn
<1> QED BY <1>1, <1>2, <1>3, <1>4 DEF PromiseInv

LEMMA ExitKeeps ==
  ASSUME PromiseInv, NEW w \in Workers, Exit(w)
  PROVE  PromiseInv'
<1>1. PromiseTypes'
  BY DEF PromiseInv, PromiseTypes, Exit, LiveOn
<1>2. WaitingJobs'
  BY DEF PromiseInv, PromiseTypes, WaitingJobs, Exit, LiveOn
<1>3. TakenJobs'
  <2>1. /\ pc[w] \in {"ready", "await"} /\ pc' = [pc EXCEPT ![w] = "exited"]
        /\ \A e \in Elems: home[e] = w => fiber[e] \notin Live
        /\ UNCHANGED <<promise, home, fiber>>
    BY DEF Exit, LiveOn
  <2>2. \A f \in Elems: fiber[f] = "taken" => home[f] # w
    BY <2>1 DEF PromiseInv, TakenJobs
  <2>3. \A w2 \in Workers: w2 # w => pc'[w2] = pc[w2]
    BY <2>1 DEF PromiseInv, PromiseTypes
  <2> QED BY <2>1, <2>2, <2>3 DEF PromiseInv, TakenJobs
<1>4. ActiveJobs'
  BY DEF PromiseInv, PromiseTypes, ActiveJobs, Exit, LiveOn
<1> QED BY <1>1, <1>2, <1>3, <1>4 DEF PromiseInv

LEMMA RespawnKeeps ==
  ASSUME PromiseInv, NEW w \in Workers, Respawn(w)
  PROVE  PromiseInv'
<1> DEFINE a == active[w]
<1>1. /\ a \in Elems /\ home[a] = w /\ fiber[a] \notin {"none", "taken"}
      /\ pc[w] = "exited" /\ promise' = [promise EXCEPT ![a] = "error"]
      /\ UNCHANGED <<queue, started, home, fiber>>
  BY DEF PromiseInv, PromiseTypes, ActiveJobs, Respawn
<1>2. ~InFn(a)
  BY <1>1 DEF PromiseInv, TakenJobs
<1>3. PromiseTypes'
  BY DEF PromiseInv, PromiseTypes, Respawn
<1>4. ActiveJobs'
  BY DEF PromiseInv, PromiseTypes, ActiveJobs, Respawn
<1>6. \A w2 \in Workers: w2 # w => pc'[w2] = pc[w2]
  BY DEF PromiseInv, PromiseTypes, Respawn
<1>7. \A e \in Elems: home[e] = w => fiber[e] \notin Live \cup {"taken"}
  BY <1>1 DEF PromiseInv, TakenJobs
<1> HIDE DEF a
<1>8. \A i \in 1..Len(queue): queue[i] \in Elems /\ queue[i] # a
  BY <1>1 DEF PromiseInv, PromiseTypes, WaitingJobs
<1>9. \A e \in Elems: e > started => e # a
  BY <1>1 DEF PromiseInv, WaitingJobs
<1>10. WaitingJobs'
  BY <1>1, <1>8, <1>9 DEF PromiseInv, PromiseTypes, WaitingJobs
<1>11. TakenJobs'
  <2>1. \A e \in Elems: e # a => promise'[e] = promise[e]
    BY <1>1 DEF PromiseInv, PromiseTypes
  <2> QED BY <1>1, <1>2, <1>6, <1>7, <2>1 DEF PromiseInv, TakenJobs
<1> QED BY <1>3, <1>4, <1>10, <1>11 DEF PromiseInv

LEMMA RespawnRefusedKeeps ==
  ASSUME PromiseInv, NEW w \in Workers, RespawnRefused(w)
  PROVE  PromiseInv'
<1>1. PromiseTypes'
  BY DEF PromiseInv, PromiseTypes, RespawnRefused
<1>2. WaitingJobs'
  BY DEF PromiseInv, PromiseTypes, WaitingJobs, RespawnRefused
<1>3. TakenJobs'
  BY DEF PromiseInv, PromiseTypes, TakenJobs, RespawnRefused
<1>4. ActiveJobs'
  BY DEF PromiseInv, PromiseTypes, ActiveJobs, RespawnRefused
<1> QED BY <1>1, <1>2, <1>3, <1>4 DEF PromiseInv

LEMMA ReraiseKeeps ==
  ASSUME PromiseInv, NEW w \in Workers, Reraise(w)
  PROVE  PromiseInv'
<1>1. PromiseTypes'
  BY DEF PromiseInv, PromiseTypes, Reraise
<1>2. WaitingJobs'
  BY DEF PromiseInv, PromiseTypes, WaitingJobs, Reraise
<1>3. TakenJobs'
  BY DEF PromiseInv, PromiseTypes, TakenJobs, Reraise
<1>4. ActiveJobs'
  BY DEF PromiseInv, PromiseTypes, ActiveJobs, Reraise
<1> QED BY <1>1, <1>2, <1>3, <1>4 DEF PromiseInv

LEMMA PromiseNext ==
  ASSUME PromiseInv, [Next]_vars
  PROVE  PromiseInv'
<1>1. CASE Main
  BY <1>1, SubmitKeeps, SubmitInvalidKeeps, CollectKeeps, BodyReturnsKeeps, ReleaseKeeps DEF Main
<1>2. ASSUME NEW w \in Workers, Loop(w) PROVE PromiseInv'
  BY <1>2, ResumeKeeps, AwaitCapacityKeeps, TakeKeeps, TakeNoneKeeps, StartKeeps DEF Loop
<1>3. ASSUME NEW w \in Workers, Cancel(w) \/ Exit(w) \/ Handler(w) PROVE PromiseInv'
  BY <1>3, CancelKeeps, ExitKeeps, RespawnKeeps, RespawnRefusedKeeps, ReraiseKeeps DEF Handler
<1>4. ASSUME NEW e \in Elems, FnReturn(e) \/ FnResume(e) \/ Finish(e) PROVE PromiseInv'
  BY <1>4, FnReturnKeeps, FnResumeKeeps, FinishKeeps
<1>5. CASE Environment
  BY <1>5, FnSuspendKeeps, AsyncAfterResolveKeeps, AsyncInSchedulerKeeps, AsyncInLoopKeeps
     DEF Environment
<1>6. CASE UNCHANGED vars
  BY <1>6 DEF PromiseInv, PromiseTypes, WaitingJobs, TakenJobs, ActiveJobs
<1> QED BY <1>1, <1>2, <1>3, <1>4, <1>5, <1>6 DEF Next

LEMMA PromiseInit == Init => PromiseInv
BY DEF Init, PromiseInv, PromiseTypes, WaitingJobs, TakenJobs, ActiveJobs

(* A step that resolves a promise finds it pending.                        *)
LEMMA SettledSticks ==
  ASSUME PromiseInv, [Next]_vars, NEW e \in Elems, Settled(e)
  PROVE  promise'[e] = promise[e]
<1>1. CASE Submit
  <2>1. promise[started + 1] = "none"
    BY <1>1 DEF PromiseInv, PromiseTypes, WaitingJobs, Submit, CanSubmit
  <2> QED BY <1>1, <2>1 DEF PromiseInv, PromiseTypes, Submit
<1>2. ASSUME NEW f \in Elems, FnReturn(f) PROVE promise'[e] = promise[e]
  BY <1>2 DEF PromiseInv, PromiseTypes, TakenJobs, FnReturn
<1>3. ASSUME NEW w \in Workers, Respawn(w) PROVE promise'[e] = promise[e]
  BY <1>3 DEF PromiseInv, PromiseTypes, Respawn
<1>4. CASE UNCHANGED promise
  BY <1>4
<1>5. CASE Main
  BY <1>1, <1>4, <1>5 DEF Main, SubmitInvalid, Collect, BodyReturns, Release
<1>6. ASSUME NEW w \in Workers, Loop(w) \/ Cancel(w) \/ Exit(w)
      PROVE  UNCHANGED promise
  BY <1>6 DEF Loop, Resume, AwaitCapacity, Take, TakeNone, Start, Cancel, Exit
<1>7. ASSUME NEW w \in Workers, Handler(w) PROVE promise'[e] = promise[e]
  BY <1>3, <1>7 DEF Handler, RespawnRefused, Reraise
<1>8. ASSUME NEW f \in Elems, FnResume(f) \/ Finish(f) PROVE UNCHANGED promise
  BY <1>8 DEF FnResume, Finish
<1>9. CASE Environment
  BY <1>9 DEF Environment, FnSuspend, AsyncAfterResolve, AsyncInScheduler, AsyncInLoop
<1>10. CASE UNCHANGED vars
  BY <1>10
<1> QED BY <1>2, <1>5, <1>6, <1>7, <1>8, <1>9, <1>10 DEF Next

(* A submitter's result is never replaced: each promise is written at most *)
(* once, by the job's fiber or by the handler of its worker, for every     *)
(* choice of weights and of the places where exceptions land.              *)
THEOREM PromisesAreWrittenOnce == Spec => ResolvedOnce
<1>1. PromiseInv /\ [Next]_vars => PromiseInv'
  BY PromiseNext
<1>2. PromiseInv /\ [Next]_vars =>
        [\A e \in Elems: Settled(e) => promise'[e] = promise[e]]_vars
  BY SettledSticks
<1> QED BY <1>1, <1>2, PromiseInit, PTL DEF Spec, ResolvedOnce

-----------------------------------------------------------------------------
(* The switch is released when every daemon fiber has stopped, and none    *)
(* starts again.                                                           *)
Released ==
    /\ running \in BOOLEAN
    /\ ~running => \A w \in Workers: pc[w] = "stopped"

LEMMA ReleasedNext ==
  ASSUME PromiseInv, Released, [Next]_vars
  PROVE  Released'
<1>1. CASE Main
  BY <1>1 DEF Released, Main, Submit, SubmitInvalid, Collect, BodyReturns, Release
<1>2. ASSUME NEW w \in Workers, Loop(w) \/ Cancel(w) \/ Exit(w) \/ Handler(w)
      PROVE  Released'
  <2>1. /\ running' = running
        /\ pc[w] # "stopped" \/ pc' = pc
    BY <1>2 DEF Loop, Resume, AwaitCapacity, Take, TakeNone, Start, Cancel, Exit,
         Handler, Respawn, RespawnRefused, Reraise
  <2> QED BY <2>1 DEF Released
<1>3. ASSUME NEW e \in Elems, FnReturn(e) \/ FnResume(e) PROVE Released'
  BY <1>3 DEF Released, FnReturn, FnResume
<1>4. ASSUME NEW e \in Elems, Finish(e) PROVE Released'
  <2>1. home[e] \in Workers /\ pc[home[e]] # "stopped" /\ running' = running
    BY <1>4 DEF PromiseInv, TakenJobs, Finish
  <2> QED BY <2>1 DEF Released
<1>5. CASE Environment
  <2>1. ASSUME NEW e \in Elems, FnSuspend(e) \/ AsyncAfterResolve(e) PROVE Released'
    BY <2>1 DEF Released, FnSuspend, AsyncAfterResolve
  <2>2. ASSUME NEW w \in Workers, AsyncInScheduler(w) \/ AsyncInLoop(w) PROVE Released'
    <3>1. pc[w] # "stopped" /\ running' = running
      BY <2>2 DEF AsyncInScheduler, AsyncInLoop, Idle
    <3> QED BY <3>1 DEF Released
  <2> QED BY <1>5, <2>1, <2>2 DEF Environment
<1>6. CASE UNCHANGED vars
  BY <1>6 DEF Released
<1> QED BY <1>1, <1>2, <1>3, <1>4, <1>5, <1>6 DEF Next

(* Once Concurrent.map has returned or raised no mapped function is still  *)
(* running or suspended in a worker, and no worker holds a job it would    *)
(* run later: the workers have stopped, and a job that is taken or has a   *)
(* fiber keeps its worker from stopping, wherever exceptions land.         *)
THEOREM MapLeavesNoJob == Spec => []NoJobOutlivesMap
<1>1. Init => PromiseInv /\ Released
  BY PromiseInit DEF Init, Released
<1>2. PromiseInv /\ Released /\ [Next]_vars => (PromiseInv /\ Released)'
  BY PromiseNext, ReleasedNext
<1>3. PromiseInv /\ Released => NoJobOutlivesMap
  BY DEF PromiseInv, TakenJobs, Released, NoJobOutlivesMap
<1> QED BY <1>1, <1>2, <1>3, PTL DEF Spec

-----------------------------------------------------------------------------
(* Induction over the numbers, as a statement about a set.                 *)
LEMMA EveryNumber ==
  ASSUME NEW T, 0 \in T, \A n \in Nat : n \in T => n + 1 \in T
  PROVE  Nat \subseteq T
<1> DEFINE R == {ss \in Nat \X Nat : ss[1] < ss[2]}
<1> DEFINE Others == Nat \ T
<1>1. IsWellFoundedOn(R, Nat)
  BY NatLessThanWellFounded DEF OpToRel
<1>2. \A n \in Nat : <<n, n + 1>> \in R
  OBVIOUS
<1>3. SUFFICES ASSUME Others # {} PROVE FALSE
  OBVIOUS
<1>4. Others \subseteq Nat
  OBVIOUS
<1>5. PICK x \in Others : \A y \in Others : ~ (<<y, x>> \in R)
  <2> HIDE DEF R, Others
  <2> QED BY <1>1, <1>3, <1>4, WFMin, Zenon
<1>6. x # 0 /\ x - 1 \in Nat /\ <<x - 1, x>> \in R
  OBVIOUS
<1>7. x - 1 \in T
  BY <1>5, <1>6
<1>8. (x - 1) + 1 = x
  OBVIOUS
<1> QED BY <1>6, <1>7, <1>8

(* The sums of the weights of the first jobs of a set: there are such, and *)
(* Total is the last of them.                                              *)
Counts(n, wt, jobs) == IF n \in jobs THEN wt[n] ELSE 0
IsSum(sum, wt, jobs, m) ==
    sum = [n \in 0..m |-> IF n = 0 THEN 0 ELSE sum[n - 1] + Counts(n, wt, jobs)]

LEMMA SumExists ==
  ASSUME NEW wt, NEW jobs, NEW m \in Nat
  PROVE  \E sum : IsSum(sum, wt, jobs, m)
<1> DEFINE Good == {n \in Nat : \E sum : IsSum(sum, wt, jobs, n)}
<1>1. 0 \in Good
  <2>1. IsSum([n \in 0..0 |-> 0], wt, jobs, 0)
    BY DEF IsSum
  <2> QED BY <2>1
<1>2. ASSUME NEW n \in Nat, n \in Good PROVE n + 1 \in Good
  <2> SUFFICES \E sum : IsSum(sum, wt, jobs, n + 1)
    OBVIOUS
  <2>1. PICK g : IsSum(g, wt, jobs, n)
    BY <1>2
  <2> DEFINE f == [k \in 0..n + 1 |-> IF k = n + 1 THEN g[n] + Counts(k, wt, jobs) ELSE g[k]]
  <2>2. IsSum(f, wt, jobs, n + 1)
    <3> DEFINE h == [k \in 0..n + 1 |-> IF k = 0 THEN 0 ELSE f[k - 1] + Counts(k, wt, jobs)]
    <3>1. SUFFICES ASSUME NEW k \in 0..n + 1 PROVE f[k] = h[k]
      <4>1. f = [k \in 0..n + 1 |-> f[k]] /\ h = [k \in 0..n + 1 |-> h[k]]
        OBVIOUS
      <4>2. (\A k \in 0..n + 1 : f[k] = h[k]) => f = h
        BY <4>1
      <4> QED BY <4>2, <3>1 DEF IsSum
    <3>2. CASE k = n + 1
      <4>1. k # 0 /\ k - 1 = n /\ n \in 0..n + 1 /\ n # n + 1
        BY <3>2
      <4>2. f[n] = g[n]
        BY <4>1
      <4> QED BY <3>2, <4>1, <4>2
    <3>3. CASE k # n + 1
      <4>1. k \in 0..n /\ (k # 0 => k - 1 \in 0..n /\ k - 1 # n + 1)
        BY <3>3
      <4>2. f[k] = g[k] /\ (k # 0 => f[k - 1] = g[k - 1])
        BY <3>3, <4>1
      <4>3. g[k] = IF k = 0 THEN 0 ELSE g[k - 1] + Counts(k, wt, jobs)
        BY <2>1, <4>1 DEF IsSum
      <4> QED BY <4>2, <4>3
    <3> QED BY <3>2, <3>3
  <2> QED BY <2>2
<1>3. Nat \subseteq Good
  <2> HIDE DEF Good
  <2> QED BY <1>1, <1>2, EveryNumber
<1> QED BY <1>3

LEMMA TotalIs ==
  ASSUME NEW wt, NEW jobs
  PROVE  \E sum : IsSum(sum, wt, jobs, N) /\ Total(wt, jobs) = sum[N]
<1> DEFINE sum == CHOOSE g : IsSum(g, wt, jobs, N)
<1>1. IsSum(sum, wt, jobs, N)
  BY SumExists
<1>2. Total(wt, jobs) = sum[N]
  BY DEF Total, IsSum, Counts
<1> QED BY <1>1, <1>2

LEMMA TotalOfNone ==
  ASSUME NEW wt
  PROVE  Total(wt, {}) = 0
<1>1. PICK sum : IsSum(sum, wt, {}, N) /\ Total(wt, {}) = sum[N]
  BY TotalIs
<1> DEFINE Good == {n \in Nat : n <= N => sum[n] = 0}
<1>2. 0 \in Good
  BY <1>1 DEF IsSum
<1>3. ASSUME NEW n \in Nat, n \in Good PROVE n + 1 \in Good
  <2> SUFFICES ASSUME n + 1 <= N PROVE sum[n + 1] = 0
    OBVIOUS
  <2>1. n + 1 \in 0..N /\ n + 1 # 0 /\ (n + 1) - 1 = n /\ n <= N
    OBVIOUS
  <2>2. sum[n + 1] = sum[n] + Counts(n + 1, wt, {})
    BY <1>1, <2>1 DEF IsSum
  <2>3. Counts(n + 1, wt, {}) = 0 /\ sum[n] = 0
    BY <1>3, <2>1 DEF Counts
  <2> QED BY <2>2, <2>3
<1>4. Nat \subseteq Good
  <2> HIDE DEF Good
  <2> QED BY <1>2, <1>3, EveryNumber
<1> QED BY <1>1, <1>4

(* A job adds its weight to that of the others.                            *)
LEMMA TotalWith ==
  ASSUME NEW wt \in [Elems -> Nat], NEW jobs, NEW e \in Elems, e \notin jobs
  PROVE  Total(wt, jobs) \in Nat /\ Total(wt, jobs \cup {e}) = Total(wt, jobs) + wt[e]
<1>1. PICK s : IsSum(s, wt, jobs, N) /\ Total(wt, jobs) = s[N]
  BY TotalIs
<1>2. PICK t : IsSum(t, wt, jobs \cup {e}, N) /\ Total(wt, jobs \cup {e}) = t[N]
  BY TotalIs
<1>3. \A n \in Elems : wt[n] \in Nat
  OBVIOUS
<1> DEFINE Good == {n \in Nat : n <= N =>
                      s[n] \in Nat /\ t[n] = IF e <= n THEN s[n] + wt[e] ELSE s[n]}
<1>4. 0 \in Good
  <2>1. s[0] = 0 /\ t[0] = 0
    BY <1>1, <1>2 DEF IsSum
  <2> QED BY <2>1
<1>5. ASSUME NEW n \in Nat, n \in Good PROVE n + 1 \in Good
  <2> SUFFICES ASSUME n + 1 <= N
               PROVE  /\ s[n + 1] \in Nat
                      /\ t[n + 1] = IF e <= n + 1 THEN s[n + 1] + wt[e] ELSE s[n + 1]
    OBVIOUS
  <2>1. n + 1 \in 0..N /\ n + 1 \in Elems /\ n + 1 # 0 /\ (n + 1) - 1 = n /\ n <= N
    OBVIOUS
  <2>2. /\ s[n + 1] = s[n] + Counts(n + 1, wt, jobs)
        /\ t[n + 1] = t[n] + Counts(n + 1, wt, jobs \cup {e})
    BY <1>1, <1>2, <2>1 DEF IsSum
  <2>3. s[n] \in Nat /\ t[n] = IF e <= n THEN s[n] + wt[e] ELSE s[n]
    BY <1>5, <2>1
  <2>4. Counts(n + 1, wt, jobs) \in Nat
    BY <1>3, <2>1 DEF Counts
  <2>5. CASE e = n + 1
    <3>1. Counts(n + 1, wt, jobs) = 0 /\ Counts(n + 1, wt, jobs \cup {e}) = wt[e]
      BY <2>5 DEF Counts
    <3>2. ~(e <= n) /\ e <= n + 1 /\ wt[e] \in Nat
      BY <1>3, <2>5
    <3> QED BY <2>2, <2>3, <3>1, <3>2
  <2>6. CASE e # n + 1
    <3>1. Counts(n + 1, wt, jobs \cup {e}) = Counts(n + 1, wt, jobs)
      BY <2>6 DEF Counts
    <3>2. (e <= n + 1) = (e <= n) /\ wt[e] \in Nat
      BY <1>3, <2>6
    <3> QED BY <2>2, <2>3, <2>4, <3>1, <3>2
  <2> QED BY <2>5, <2>6
<1>6. Nat \subseteq Good
  <2> HIDE DEF Good
  <2> QED BY <1>4, <1>5, EveryNumber
<1>7. N \in Good /\ e <= N
  BY <1>6
<1> QED BY <1>1, <1>2, <1>7

-----------------------------------------------------------------------------
(* The account of a worker whose loop goes on.                             *)
AccountInv ==
    /\ weight \in Weights
    /\ capacity \in [Workers -> Int]
    /\ failure \in [Workers -> {"none", "async", "cancelled"}]
    /\ CapacityAccounts

PcValues == {"ready", "loop", "taken", "await", "exited", "stopped"}
FiberValues == {"none", "taken", "running", "suspended", "resolved", "ended"}

(* The weights are chosen once.                                            *)
LEMMA WeightKept ==
  ASSUME [Next]_vars
  PROVE  UNCHANGED weight
<1>1. CASE Main \/ UNCHANGED vars
  BY <1>1 DEF Main, Submit, SubmitInvalid, Collect, BodyReturns, Release
<1>2. ASSUME NEW w \in Workers, Loop(w) \/ Cancel(w) \/ Exit(w) \/ Handler(w)
      PROVE  UNCHANGED weight
  BY <1>2 DEF Loop, Handler, Resume, AwaitCapacity, Take, TakeNone, Start, Cancel, Exit,
              Respawn, RespawnRefused, Reraise
<1>3. ASSUME NEW e \in Elems, FnReturn(e) \/ FnResume(e) \/ Finish(e)
      PROVE  UNCHANGED weight
  BY <1>3 DEF FnReturn, FnResume, Finish
<1>4. CASE Environment
  BY <1>4 DEF Environment, FnSuspend, AsyncAfterResolve, AsyncInScheduler, AsyncInLoop
<1> QED BY <1>1, <1>2, <1>3, <1>4 DEF Next

LEMMA FailureTypes ==
  ASSUME PromiseInv, AccountInv, [Next]_vars
  PROVE  failure' \in [Workers -> {"none", "async", "cancelled"}]
<1>1. failure \in [Workers -> {"none", "async", "cancelled"}]
  BY DEF AccountInv
<1>2. CASE Main \/ UNCHANGED vars
  BY <1>1, <1>2 DEF Main, Submit, SubmitInvalid, Collect, BodyReturns, Release
<1>3. ASSUME NEW w \in Workers, Loop(w) \/ Cancel(w) \/ Exit(w) \/ Handler(w)
      PROVE  failure' \in [Workers -> {"none", "async", "cancelled"}]
  BY <1>1, <1>3 DEF Loop, Handler, Resume, AwaitCapacity, Take, TakeNone, Start, Cancel, Exit,
                    Respawn, RespawnRefused, Reraise
<1>4. ASSUME NEW e \in Elems, FnReturn(e) \/ FnResume(e) \/ Finish(e)
      PROVE  failure' \in [Workers -> {"none", "async", "cancelled"}]
  BY <1>1, <1>4 DEF FnReturn, FnResume, Finish
<1>5. CASE Environment
  BY <1>1, <1>5 DEF Environment, FnSuspend, AsyncAfterResolve, AsyncInScheduler, AsyncInLoop
<1> QED BY <1>2, <1>3, <1>4, <1>5 DEF Next

(* A step that changes neither the fibers of a worker nor its account, or  *)
(* ends its loop.                                                          *)
LEMMA AccountFrame ==
  ASSUME AccountInv, UNCHANGED weight, capacity' \in [Workers -> Int],
         failure' \in [Workers -> {"none", "async", "cancelled"}],
         \A w \in Workers :
            \/ pc'[w] \in {"exited", "stopped"} \/ failure'[w] # "none"
            \/ /\ pc[w] \notin {"exited", "stopped"} /\ failure[w] = "none"
               /\ capacity'[w] = capacity[w] /\ LiveOn(w)' = LiveOn(w)
  PROVE  AccountInv'
BY DEF AccountInv, CapacityAccounts

(* A worker that is neither dead nor failing keeps its account.            *)
LEMMA StartAccounts ==
  ASSUME PromiseInv, AccountInv, NEW w \in Workers, NEW e \in Elems, Start(w, e),
         failure' \in [Workers -> {"none", "async", "cancelled"}]
  PROVE  AccountInv'
<1>1. /\ pc[w] = "taken" /\ home[e] = w /\ fiber[e] = "taken"
      /\ capacity' = [capacity EXCEPT ![w] = @ + weight[e]]
      /\ fiber' = [fiber EXCEPT ![e] = "running"]
      /\ pc' = [pc EXCEPT ![w] = "ready"]
      /\ UNCHANGED <<home, failure, weight>>
  BY DEF Start
<1>2. /\ capacity \in [Workers -> Int] /\ pc \in [Workers -> PcValues] /\ fiber \in [Elems -> FiberValues]
      /\ weight \in [Elems -> Nat] /\ weight[e] \in Nat
  BY DEF AccountInv, PromiseInv, PromiseTypes, PcValues, FiberValues
<1>3. capacity' \in [Workers -> Int]
  BY <1>1, <1>2
<1>4. ASSUME NEW v \in Workers, pc'[v] \notin {"exited", "stopped"}, failure'[v] = "none"
      PROVE  capacity'[v] = Total(weight', LiveOn(v)')
  <2>1. pc[v] \notin {"exited", "stopped"} /\ failure[v] = "none"
    BY <1>1, <1>2, <1>4
  <2>2. capacity[v] = Total(weight, LiveOn(v))
    BY <2>1 DEF AccountInv, CapacityAccounts
  <2>3. CASE v = w
    <3>1. e \notin LiveOn(w) /\ LiveOn(w)' = LiveOn(w) \cup {e}
      BY <1>1, <1>2 DEF LiveOn
    <3>2. Total(weight, LiveOn(w) \cup {e}) = Total(weight, LiveOn(w)) + weight[e]
      BY <1>2, <3>1, TotalWith
    <3>3. capacity'[w] = capacity[w] + weight[e]
      BY <1>1, <1>2
    <3> QED BY <1>1, <2>2, <2>3, <3>1, <3>2, <3>3
  <2>4. CASE v # w
    <3>1. LiveOn(v)' = LiveOn(v) /\ capacity'[v] = capacity[v]
      BY <1>1, <1>2, <2>4 DEF LiveOn
    <3> QED BY <1>1, <2>2, <3>1
  <2> QED BY <2>3, <2>4
<1> QED BY <1>1, <1>3, <1>4 DEF AccountInv, CapacityAccounts

LEMMA FinishAccounts ==
  ASSUME PromiseInv, AccountInv, NEW e \in Elems, Finish(e),
         failure' \in [Workers -> {"none", "async", "cancelled"}]
  PROVE  AccountInv'
<1>0. PICK w : w = home[e]
  OBVIOUS
<1>1. /\ fiber[e] = "resolved"
      /\ capacity' = [capacity EXCEPT ![w] = @ - weight[e]]
      /\ fiber' = [fiber EXCEPT ![e] = "ended"]
      /\ pc' = [pc EXCEPT ![w] = "ready"]
      /\ UNCHANGED <<home, failure, weight>>
  BY <1>0 DEF Finish
<1>2. /\ capacity \in [Workers -> Int] /\ pc \in [Workers -> PcValues] /\ fiber \in [Elems -> FiberValues]
      /\ weight \in [Elems -> Nat] /\ weight[e] \in Nat /\ w \in Workers /\ pc[w] \notin {"exited", "stopped"}
  BY <1>0, <1>1 DEF AccountInv, PromiseInv, PromiseTypes, TakenJobs, PcValues, FiberValues
<1>3. capacity' \in [Workers -> Int]
  BY <1>1, <1>2
<1>4. ASSUME NEW v \in Workers, pc'[v] \notin {"exited", "stopped"}, failure'[v] = "none"
      PROVE  capacity'[v] = Total(weight', LiveOn(v)')
  <2>1. pc[v] \notin {"exited", "stopped"} /\ failure[v] = "none"
    BY <1>1, <1>2, <1>4
  <2>2. capacity[v] = Total(weight, LiveOn(v))
    BY <2>1 DEF AccountInv, CapacityAccounts
  <2>3. CASE v = w
    <3> DEFINE rest == LiveOn(w) \ {e}
    <3>1. LiveOn(w)' = rest /\ LiveOn(w) = rest \cup {e} /\ e \notin rest
      BY <1>0, <1>1, <1>2 DEF LiveOn
    <3> HIDE DEF rest
    <3>2. Total(weight, rest) \in Nat /\ Total(weight, rest \cup {e}) = Total(weight, rest) + weight[e]
      BY <1>2, <3>1, TotalWith
    <3>3. capacity'[w] = capacity[w] - weight[e]
      BY <1>1, <1>2
    <3>4. PICK r \in Nat, c \in Nat : r = Total(weight, rest) /\ c = weight[e]
      BY <1>2, <3>2
    <3>5. capacity[w] = r + c
      BY <2>2, <2>3, <3>1, <3>2, <3>4
    <3>6. (r + c) - c = r
      BY <3>4
    <3>7. capacity'[w] = r
      <4>1. capacity[w] - weight[e] = (r + c) - c
        BY <3>4, <3>5, Zenon
      <4> QED BY <3>3, <3>6, <4>1, Zenon
    <3>8. LiveOn(v)' = rest
      BY <2>3, <3>1
    <3> QED BY <1>1, <2>3, <3>4, <3>7, <3>8
  <2>4. CASE v # w
    <3>1. LiveOn(v)' = LiveOn(v) /\ capacity'[v] = capacity[v]
      BY <1>0, <1>1, <1>2, <2>4 DEF LiveOn
    <3> QED BY <1>1, <2>2, <3>1
  <2> QED BY <2>3, <2>4
<1> QED BY <1>1, <1>3, <1>4 DEF AccountInv, CapacityAccounts

LEMMA RespawnAccounts ==
  ASSUME PromiseInv, AccountInv, NEW w \in Workers, Respawn(w),
         failure' \in [Workers -> {"none", "async", "cancelled"}]
  PROVE  AccountInv'
<1>1. /\ pc[w] = "exited"
      /\ capacity' = [capacity EXCEPT ![w] = 0]
      /\ failure' = [failure EXCEPT ![w] = "none"]
      /\ pc' = [pc EXCEPT ![w] = IF switch = "open" THEN "ready" ELSE "stopped"]
      /\ UNCHANGED <<home, fiber, weight>>
  BY DEF Respawn
<1>2. capacity \in [Workers -> Int] /\ pc \in [Workers -> PcValues]
  BY DEF AccountInv, PromiseInv, PromiseTypes, PcValues, FiberValues
<1>3. capacity' \in [Workers -> Int] /\ \A v \in Workers : LiveOn(v)' = LiveOn(v)
  BY <1>1, <1>2 DEF LiveOn
<1>4. LiveOn(w) = {}
  BY <1>1 DEF LiveOn, PromiseInv, TakenJobs
<1>5. ASSUME NEW v \in Workers, pc'[v] \notin {"exited", "stopped"}, failure'[v] = "none"
      PROVE  capacity'[v] = Total(weight', LiveOn(v)')
  <2>1. CASE v = w
    <3>1. capacity'[w] = 0
      BY <1>1, <1>2
    <3> QED BY <1>3, <1>4, <2>1, <3>1, TotalOfNone
  <2>2. CASE v # w
    <3>1. /\ pc[v] \notin {"exited", "stopped"} /\ failure[v] = "none"
          /\ capacity'[v] = capacity[v]
      <4>1. pc'[v] = pc[v] /\ capacity'[v] = capacity[v]
        BY <1>1, <1>2, <2>2
      <4>2. failure'[v] = failure[v]
        BY <1>1, <1>5, <2>2 DEF AccountInv
      <4> QED BY <1>5, <4>1, <4>2
    <3>2. capacity[v] = Total(weight, LiveOn(v))
      BY <3>1 DEF AccountInv, CapacityAccounts
    <3> QED BY <1>1, <1>3, <3>1, <3>2
  <2> QED BY <2>1, <2>2
<1> QED BY <1>1, <1>3, <1>5 DEF AccountInv, CapacityAccounts

LEMMA TakeAccounts ==
  ASSUME PromiseInv, AccountInv, NEW w \in Workers, Take(w),
         failure' \in [Workers -> {"none", "async", "cancelled"}]
  PROVE  AccountInv'
<1> DEFINE e == Head(queue)
<1>1. /\ pc[w] = "loop" /\ queue # <<>> /\ pc' = [pc EXCEPT ![w] = "taken"]
      /\ home' = [home EXCEPT ![e] = w] /\ fiber' = [fiber EXCEPT ![e] = "taken"]
      /\ UNCHANGED <<capacity, failure, weight>>
  BY DEF Take
<1>2. /\ queue \in Seq(Elems) /\ pc \in [Workers -> PcValues] /\ home \in [Elems -> Workers \cup {NoHome}]
      /\ fiber \in [Elems -> FiberValues]
  BY DEF PromiseInv, PromiseTypes, PcValues, FiberValues
<1>3. 1 \in 1..Len(queue) /\ e = queue[1] /\ e \in Elems
  BY <1>1, <1>2
<1>4. fiber[e] = "none"
  BY <1>3 DEF PromiseInv, WaitingJobs
<1> HIDE DEF e
<1>5. \A v \in Workers : LiveOn(v)' = LiveOn(v)
  BY <1>1, <1>2, <1>3, <1>4 DEF LiveOn
<1>6. \A v \in Workers : pc[v] \in {"exited", "stopped"} => pc'[v] = pc[v]
  BY <1>1, <1>2
<1> QED BY <1>1, <1>5, <1>6, AccountFrame DEF AccountInv

LEMMA AccountNext ==
  ASSUME PromiseInv, AccountInv, [Next]_vars
  PROVE  AccountInv'
<1> USE FailureTypes, WeightKept
<1>1. /\ capacity \in [Workers -> Int] /\ pc \in [Workers -> PcValues] /\ fiber \in [Elems -> FiberValues]
  BY DEF AccountInv, PromiseInv, PromiseTypes, PcValues, FiberValues
<1>2. CASE Main
  BY <1>2, AccountFrame DEF AccountInv, LiveOn, Main, Submit, SubmitInvalid, Collect, BodyReturns, Release
<1>3. ASSUME NEW w \in Workers, Resume(w) \/ AwaitCapacity(w) \/ TakeNone(w) \/ Cancel(w) \/ Exit(w)
                                \/ RespawnRefused(w) \/ Reraise(w)
      PROVE  AccountInv'
  <2>1. UNCHANGED <<capacity, home, fiber>>
    BY <1>3 DEF Resume, AwaitCapacity, TakeNone, Cancel, Exit, RespawnRefused, Reraise
  <2>2. \A v \in Workers : LiveOn(v)' = LiveOn(v)
    BY <2>1 DEF LiveOn
  <2>3. \A v \in Workers :
           \/ pc'[v] \in {"exited", "stopped"} \/ failure'[v] # "none"
           \/ pc[v] \notin {"exited", "stopped"} /\ failure[v] = "none"
    BY <1>1, <1>3 DEF Resume, AwaitCapacity, TakeNone, Cancel, Exit, RespawnRefused, Reraise
  <2> QED BY <2>1, <2>2, <2>3, AccountFrame DEF AccountInv
<1>4. ASSUME NEW e \in Elems, FnReturn(e) \/ FnResume(e) \/ FnSuspend(e) \/ AsyncAfterResolve(e)
      PROVE  AccountInv'
  <2>1. fiber[e] \in {"running", "suspended", "resolved"} /\ UNCHANGED <<capacity, home, pc>>
    BY <1>4 DEF FnReturn, FnResume, FnSuspend, AsyncAfterResolve
  <2>2. CASE FnReturn(e) \/ FnResume(e) \/ FnSuspend(e)
    <3>1. fiber'[e] \in Live /\ UNCHANGED failure
          /\ \A f \in Elems : f # e => fiber'[f] = fiber[f]
      BY <1>1, <2>2 DEF FnReturn, FnResume, FnSuspend
    <3>2. \A v \in Workers : LiveOn(v)' = LiveOn(v)
      BY <2>1, <3>1 DEF LiveOn
    <3> QED BY <2>1, <3>1, <3>2, AccountFrame DEF AccountInv
  <2>3. CASE AsyncAfterResolve(e)
    <3>1. /\ fiber' = [fiber EXCEPT ![e] = "ended"]
          /\ failure' = [failure EXCEPT ![home[e]] = "async"]
      BY <2>3 DEF AsyncAfterResolve
    <3>2. \A v \in Workers : v # home[e] => LiveOn(v)' = LiveOn(v) /\ failure'[v] = failure[v]
      BY <1>1, <2>1, <3>1 DEF LiveOn
    <3> QED BY <1>1, <2>1, <3>1, <3>2, AccountFrame DEF AccountInv
  <2> QED BY <1>4, <2>2, <2>3
<1>5. ASSUME NEW w \in Workers, AsyncInScheduler(w) \/ AsyncInLoop(w) PROVE AccountInv'
  <2>1. UNCHANGED <<capacity, home>> /\ failure' = [failure EXCEPT ![w] = "async"]
    BY <1>5 DEF AsyncInScheduler, AsyncInLoop
  <2>2. \A v \in Workers : v # w => LiveOn(v)' = LiveOn(v) /\ pc'[v] = pc[v]
    BY <1>1, <1>5 DEF LiveOn, AsyncInScheduler, AsyncInLoop
  <2> QED BY <1>1, <2>1, <2>2, AccountFrame DEF AccountInv
<1>6. ASSUME NEW w \in Workers, Loop(w) \/ Handler(w) PROVE AccountInv'
  BY <1>3, <1>6, TakeAccounts, StartAccounts, RespawnAccounts DEF Loop, Handler
<1>7. ASSUME NEW e \in Elems, Finish(e) PROVE AccountInv'
  BY <1>7, FinishAccounts
<1>8. CASE Environment
  BY <1>4, <1>5, <1>8 DEF Environment
<1>9. CASE UNCHANGED vars
  BY <1>9, AccountFrame DEF AccountInv, LiveOn, CapacityAccounts
<1> QED BY <1>2, <1>3, <1>4, <1>6, <1>7, <1>8, <1>9 DEF Next

(* A worker that goes on has on its account the weight of the fibers it    *)
(* forked and that have not ended: nothing is leaked and nothing given     *)
(* back twice, for every choice of weights and of the places where         *)
(* exceptions land.                                                        *)
THEOREM CapacityIsExact == Spec => []CapacityAccounts
<1>1. Init => PromiseInv /\ AccountInv
  <2> SUFFICES ASSUME Init PROVE AccountInv
    BY PromiseInit
  <2>1. /\ capacity = [w \in Workers |-> 0]
        /\ failure = [w \in Workers |-> "none"]
        /\ fiber = [e \in Elems |-> "none"]
        /\ weight \in Weights
    BY DEF Init
  <2>2. capacity \in [Workers -> Int] /\ failure \in [Workers -> {"none", "async", "cancelled"}]
    BY <2>1
  <2>3. \A w \in Workers : capacity[w] = 0 /\ LiveOn(w) = {}
    BY <2>1 DEF LiveOn
  <2> QED BY <2>1, <2>2, <2>3, TotalOfNone DEF AccountInv, CapacityAccounts
<1>2. PromiseInv /\ AccountInv /\ [Next]_vars => (PromiseInv /\ AccountInv)'
  BY PromiseNext, AccountNext
<1>3. AccountInv => CapacityAccounts
  BY DEF AccountInv
<1> QED BY <1>1, <1>2, <1>3, PTL DEF Spec

-----------------------------------------------------------------------------
(* The pool of Concurrent.map.                                             *)

WholeDomainJobs == \A f \in Weights: \A e \in Elems: f[e] = MaxCapacity
ExceptionsInFn == AsyncPoints \subseteq {"fn"}

(* A job is submitted in the order of the list, and once.                  *)
SubmitInv ==
    /\ \A e \in Elems: promise[e] = "none" <=> e > started
    /\ \A e \in Elems: fiber[e] # "none" => e <= started
    /\ \A e \in Elems: e \in collected => Settled(e)

(* The queue holds each submitted job nobody has taken, once.              *)
QueueInv ==
    /\ \A i \in 1..Len(queue): promise[queue[i]] = "pending" /\ fiber[queue[i]] = "none"
    /\ \A i, j \in 1..Len(queue): queue[i] = queue[j] => i = j
    /\ \A e \in Elems: promise[e] = "pending" /\ fiber[e] = "none" => InQueue(e)

(* What the state of a job's fiber says of its promise and of its worker.  *)
FiberInv ==
    \A e \in Elems:
        /\ fiber[e] # "none" => home[e] \in Workers
        /\ fiber[e] = "taken" =>
            /\ promise[e] = "pending" /\ pc[home[e]] = "taken"
            /\ \A f \in Elems: fiber[f] = "taken" /\ home[f] = home[e] => f = e
        /\ InFn(e) => promise[e] = "pending"
        /\ fiber[e] = "resolved" => Settled(e)
        /\ fiber[e] \in Live => active[home[e]] = e
        /\ fiber[e] \in {"running", "resolved"} => pc[home[e]] \in {"ready", "await"}
        /\ fiber[e] = "suspended" => pc[home[e]] \in {"ready", "await", "loop"}
        /\ fiber[e] = "ended" =>
            Settled(e) \/ (active[home[e]] = e /\ pc[home[e]] = "exited")

(* active_job names the one live fiber of the worker, or the job its death *)
(* interrupted; the capacity in use is that job's.                         *)
WorkerInv ==
    \A w \in Workers:
        /\ capacity[w] = IF active[w] = NoJob THEN 0 ELSE MaxCapacity
        /\ active[w] # NoJob =>
            /\ home[active[w]] = w
            /\ \/ fiber[active[w]] \in Live
               \/ /\ pc[w] = "exited"
                  /\ fiber[active[w]] = "ended"
                  /\ promise[active[w]] = "pending"
        /\ pc[w] = "taken" => active[w] = NoJob
        /\ pc[w] = "exited" /\ active[w] = NoJob => failure[w] = "cancelled"
        /\ failure[w] = "async" => pc[w] = "exited"

SwitchInv ==
    /\ switch \in {"open", "closing"}
    /\ switch = "closing" => collected = Elems
    /\ ~running => switch = "closing"

IInv ==
    /\ TypeOK
    /\ SubmitInv
    /\ QueueInv
    /\ FiberInv
    /\ WorkerInv
    /\ SwitchInv

-----------------------------------------------------------------------------
USE ExecutorPoolAssumption DEF WholeDomainJobs, ExceptionsInFn, Elems, Live, InFn, Settled,
        vars, mainVars, sharedVars, workerVars, jobVars, boundVars

LEMMA SubmitStep ==
  ASSUME WholeDomainJobs, ExceptionsInFn, IInv, Submit
  PROVE  IInv'
<1>1. TypeOK'
  BY DEF IInv, TypeOK, Submit, CanSubmit
<1>2. SubmitInv'
  BY DEF IInv, TypeOK, SubmitInv, Submit, CanSubmit
<1>3. QueueInv'
  <2> DEFINE n == started + 1
  <2>1. /\ n \in Elems /\ promise[n] = "none" /\ fiber[n] = "none"
        /\ queue' = Append(queue, n) /\ fiber' = fiber
        /\ promise' = [promise EXCEPT ![n] = "pending"]
    BY DEF IInv, TypeOK, SubmitInv, Submit, CanSubmit
  <2>2. /\ Len(queue') = Len(queue) + 1 /\ Len(queue) \in Nat
        /\ \A i \in 1..Len(queue): queue'[i] = queue[i] /\ queue[i] \in Elems
        /\ queue'[Len(queue')] = n
    BY <2>1 DEF IInv, TypeOK
  <2> HIDE DEF n
  <2>3. \A i \in 1..Len(queue): queue[i] # n
    BY <2>1 DEF IInv, QueueInv
  <2>4. \A i \in 1..Len(queue'): promise'[queue'[i]] = "pending" /\ fiber'[queue'[i]] = "none"
    BY <2>1, <2>2 DEF IInv, TypeOK, QueueInv
  <2>5. \A i, j \in 1..Len(queue'): queue'[i] = queue'[j] => i = j
    BY <2>2, <2>3 DEF IInv, QueueInv
  <2>6. \A e \in Elems: promise'[e] = "pending" /\ fiber'[e] = "none" => InQueue(e)'
    BY <2>1, <2>2 DEF IInv, TypeOK, QueueInv, InQueue
  <2> QED BY <2>4, <2>5, <2>6 DEF QueueInv
<1>4. FiberInv'
  <2>1. \A e \in Elems: promise[e] # "none" => promise'[e] = promise[e]
    BY DEF IInv, TypeOK, SubmitInv, Submit, CanSubmit
  <2>2. \A e \in Elems: fiber[e] # "none" => promise[e] # "none"
    BY DEF IInv, TypeOK, SubmitInv, Submit, CanSubmit
  <2> QED BY <2>1, <2>2 DEF IInv, FiberInv, Submit
<1>5. WorkerInv'
  BY DEF IInv, TypeOK, WorkerInv, Submit, CanSubmit
<1>6. SwitchInv'
  BY DEF IInv, TypeOK, SwitchInv, Submit, CanSubmit
<1> QED BY <1>1, <1>2, <1>3, <1>4, <1>5, <1>6 DEF IInv

LEMMA SubmitInvalidStep ==
  ASSUME WholeDomainJobs, ExceptionsInFn, IInv, SubmitInvalid
  PROVE  FALSE
BY DEF IInv, TypeOK, SubmitInvalid, CanSubmit

LEMMA CollectStep ==
  ASSUME WholeDomainJobs, ExceptionsInFn, IInv, NEW e \in Elems, Collect(e)
  PROVE  IInv'
BY DEF IInv, TypeOK, SubmitInv, QueueInv, FiberInv, WorkerInv, SwitchInv, InQueue, Collect

LEMMA BodyReturnsStep ==
  ASSUME WholeDomainJobs, ExceptionsInFn, IInv, BodyReturns
  PROVE  IInv'
BY DEF IInv, TypeOK, SubmitInv, QueueInv, FiberInv, WorkerInv, SwitchInv, InQueue, BodyReturns

LEMMA ReleaseStep ==
  ASSUME WholeDomainJobs, ExceptionsInFn, IInv, Release
  PROVE  IInv'
<1>1. TypeOK'
  BY DEF IInv, TypeOK, Release
<1>2. SubmitInv'
  BY DEF IInv, TypeOK, SubmitInv, Release
<1>3. QueueInv'
  BY DEF IInv, TypeOK, QueueInv, InQueue, Release
<1>4. FiberInv'
  BY DEF IInv, TypeOK, FiberInv, Release
<1>5. WorkerInv'
  BY DEF IInv, TypeOK, WorkerInv, Release
<1>6. SwitchInv'
  BY DEF IInv, TypeOK, SwitchInv, Release
<1> QED BY <1>1, <1>2, <1>3, <1>4, <1>5, <1>6 DEF IInv

LEMMA ResumeStep ==
  ASSUME WholeDomainJobs, ExceptionsInFn, IInv, NEW w \in Workers, Resume(w)
  PROVE  IInv'
BY DEF IInv, TypeOK, SubmitInv, QueueInv, FiberInv, WorkerInv, SwitchInv, InQueue, Resume, Idle, LiveOn

LEMMA AwaitCapacityStep ==
  ASSUME WholeDomainJobs, ExceptionsInFn, IInv, NEW w \in Workers, AwaitCapacity(w)
  PROVE  IInv'
BY DEF IInv, TypeOK, SubmitInv, QueueInv, FiberInv, WorkerInv, SwitchInv, InQueue, AwaitCapacity

LEMMA TakeStep ==
  ASSUME WholeDomainJobs, ExceptionsInFn, IInv, NEW w \in Workers, Take(w)
  PROVE  IInv'
<1> DEFINE h == Head(queue)
<1>1. /\ h \in Elems /\ promise[h] = "pending" /\ fiber[h] = "none"
      /\ h <= started
      /\ Len(queue) \in Nat \ {0}
      /\ \A i \in 2..Len(queue): queue[i] # h
      /\ h = queue[1]
  BY DEF IInv, TypeOK, SubmitInv, QueueInv, Take
<1>2. /\ active[w] = NoJob
      /\ \A e \in Elems: home[e] = w => fiber[e] \notin Live \cup {"taken"}
  BY DEF IInv, TypeOK, FiberInv, WorkerInv, Take
<1>3. /\ queue' = Tail(queue) /\ queue' \in Seq(Elems)
      /\ Len(queue') = Len(queue) - 1
      /\ \A i \in 1..Len(queue'): queue'[i] = queue[i + 1]
  BY <1>1 DEF IInv, TypeOK, Take
<1>4. /\ home' = [home EXCEPT ![h] = w]
      /\ fiber' = [fiber EXCEPT ![h] = "taken"]
      /\ pc' = [pc EXCEPT ![w] = "taken"]
      /\ pc[w] = "loop"
      /\ UNCHANGED <<mainVars, promise, capacity, active, failure, boundVars>>
  BY DEF Take
<1> HIDE DEF h
<1>5. TypeOK'
  BY <1>1, <1>3, <1>4 DEF IInv, TypeOK
<1>6. SubmitInv'
  BY <1>1, <1>4 DEF IInv, TypeOK, SubmitInv
<1>7. QueueInv'
  <2>1. \A i \in 1..Len(queue'): promise'[queue'[i]] = "pending" /\ fiber'[queue'[i]] = "none"
    BY <1>1, <1>3, <1>4 DEF IInv, TypeOK, QueueInv
  <2>2. \A i, j \in 1..Len(queue'): queue'[i] = queue'[j] => i = j
    BY <1>1, <1>3 DEF IInv, QueueInv
  <2>3. ASSUME NEW e \in Elems, promise'[e] = "pending", fiber'[e] = "none"
        PROVE  InQueue(e)'
    <3>1. e # h /\ promise[e] = "pending" /\ fiber[e] = "none"
      BY <1>1, <1>4, <2>3 DEF IInv, TypeOK
    <3>2. PICK i \in 1..Len(queue): queue[i] = e
      BY <3>1 DEF IInv, QueueInv, InQueue
    <3>3. i # 1
      BY <3>1, <3>2, <1>1
    <3>4. i - 1 \in 1..Len(queue') /\ queue'[i - 1] = e
      BY <3>2, <3>3, <1>1, <1>3
    <3> QED BY <3>4 DEF InQueue
  <2> QED BY <2>1, <2>2, <2>3 DEF QueueInv
<1>8. FiberInv'
  BY <1>1, <1>2, <1>4 DEF IInv, TypeOK, FiberInv
<1>9. WorkerInv'
  BY <1>1, <1>2, <1>4 DEF IInv, TypeOK, FiberInv, WorkerInv
<1>10. SwitchInv'
  BY <1>4 DEF IInv, SwitchInv
<1> QED BY <1>5, <1>6, <1>7, <1>8, <1>9, <1>10 DEF IInv

LEMMA TakeNoneStep ==
  ASSUME WholeDomainJobs, ExceptionsInFn, IInv, NEW w \in Workers, TakeNone(w)
  PROVE  IInv'
BY DEF IInv, TypeOK, SubmitInv, QueueInv, FiberInv, WorkerInv, SwitchInv, InQueue, TakeNone

LEMMA StartStep ==
  ASSUME WholeDomainJobs, ExceptionsInFn, IInv, NEW w \in Workers, NEW e \in Elems, Start(w, e)
  PROVE  IInv'
<1>1. TypeOK'
  BY DEF IInv, TypeOK, Start
<1>2. SubmitInv'
  BY DEF IInv, TypeOK, SubmitInv, Start
<1>3. QueueInv'
  BY DEF IInv, TypeOK, QueueInv, InQueue, Start
<1>4. FiberInv'
  <2>1. pc[w] = "taken" /\ active[w] = NoJob /\ home[e] = w /\ promise[e] = "pending"
    BY DEF IInv, FiberInv, WorkerInv, Start
  <2>2. \A f \in Elems: home[f] = w => fiber[f] \notin Live
    BY <2>1 DEF IInv, FiberInv
  <2>3. \A f \in Elems: fiber[f] = "ended" /\ home[f] = w => Settled(f)
    BY <2>1 DEF IInv, FiberInv
  <2>4. \A f \in Elems: f # e /\ home[f] = w => fiber[f] # "taken"
    BY <2>1 DEF IInv, FiberInv, Start
  <2> QED BY <2>1, <2>2, <2>3, <2>4 DEF IInv, TypeOK, FiberInv, Start
<1>5. WorkerInv'
  BY DEF IInv, TypeOK, WorkerInv, Start
<1>6. SwitchInv'
  BY DEF IInv, TypeOK, SwitchInv, Start
<1> QED BY <1>1, <1>2, <1>3, <1>4, <1>5, <1>6 DEF IInv

LEMMA FnReturnStep ==
  ASSUME WholeDomainJobs, ExceptionsInFn, IInv, NEW e \in Elems, FnReturn(e)
  PROVE  IInv'
<1>1. TypeOK'
  BY DEF IInv, TypeOK, FnReturn
<1>2. SubmitInv'
  BY DEF IInv, TypeOK, SubmitInv, FnReturn
<1>3. QueueInv'
  BY DEF IInv, TypeOK, QueueInv, InQueue, FnReturn
<1>4. FiberInv'
  BY DEF IInv, TypeOK, FiberInv, FnReturn
<1>5. WorkerInv'
  BY DEF IInv, TypeOK, WorkerInv, FnReturn
<1>6. SwitchInv'
  BY DEF IInv, TypeOK, SwitchInv, FnReturn
<1> QED BY <1>1, <1>2, <1>3, <1>4, <1>5, <1>6 DEF IInv

LEMMA FnSuspendStep ==
  ASSUME WholeDomainJobs, ExceptionsInFn, IInv, NEW e \in Elems, FnSuspend(e)
  PROVE  IInv'
BY DEF IInv, TypeOK, SubmitInv, QueueInv, FiberInv, WorkerInv, SwitchInv, InQueue, FnSuspend

LEMMA FnResumeStep ==
  ASSUME WholeDomainJobs, ExceptionsInFn, IInv, NEW e \in Elems, FnResume(e)
  PROVE  IInv'
BY DEF IInv, TypeOK, SubmitInv, QueueInv, FiberInv, WorkerInv, SwitchInv, InQueue, FnResume, Idle, LiveOn

LEMMA FinishStep ==
  ASSUME WholeDomainJobs, ExceptionsInFn, IInv, NEW e \in Elems, Finish(e)
  PROVE  IInv'
<1>1. TypeOK'
  BY DEF IInv, TypeOK, FiberInv, WorkerInv, Finish
<1>2. SubmitInv'
  BY DEF IInv, TypeOK, SubmitInv, Finish
<1>3. QueueInv'
  BY DEF IInv, TypeOK, QueueInv, InQueue, Finish
<1>4. FiberInv'
  <2>1. /\ home[e] \in Workers /\ active[home[e]] = e /\ Settled(e)
        /\ pc[home[e]] \in {"ready", "await"}
    BY DEF IInv, FiberInv, Finish
  <2>2. ASSUME NEW f \in Elems, f # e, home[f] = home[e]
        PROVE  fiber[f] \notin Live \cup {"taken"} /\ (fiber[f] = "ended" => Settled(f))
    BY <2>1, <2>2 DEF IInv, FiberInv
  <2> QED BY <2>1, <2>2 DEF IInv, TypeOK, FiberInv, Finish
<1>5. WorkerInv'
  <2>1. /\ home[e] \in Workers /\ active[home[e]] = e /\ e # NoJob
        /\ capacity[home[e]] = MaxCapacity /\ pc[home[e]] # "exited"
    <3>1. home[e] \in Workers /\ active[home[e]] = e /\ pc[home[e]] # "exited" /\ e # NoJob
      BY DEF IInv, FiberInv, Finish
    <3> QED BY <3>1 DEF IInv, WorkerInv, Finish
  <2>2. capacity' = [capacity EXCEPT ![home[e]] = 0]
    <3>1. e \in Elems /\ weight[e] = MaxCapacity
      BY DEF IInv, TypeOK, WholeDomainJobs
    <3>2. MaxCapacity - MaxCapacity = 0
      OBVIOUS
    <3>3. capacity' = [capacity EXCEPT ![home[e]] = @ - weight[e]]
      BY DEF Finish
    <3> QED BY <2>1, <3>1, <3>2, <3>3 DEF IInv, TypeOK
  <2>3. failure[home[e]] # "async"
    BY <2>1 DEF IInv, WorkerInv
  <2>4. ASSUME NEW w \in Workers, w # home[e], active[w] # NoJob
        PROVE  active[w] # e
    BY <2>4, <2>1 DEF IInv, WorkerInv
  <2> QED BY <2>1, <2>2, <2>3, <2>4 DEF IInv, TypeOK, WorkerInv, Finish
<1>6. SwitchInv'
  BY DEF IInv, TypeOK, SwitchInv, Finish
<1> QED BY <1>1, <1>2, <1>3, <1>4, <1>5, <1>6 DEF IInv

LEMMA AsyncInSchedulerStep ==
  ASSUME WholeDomainJobs, ExceptionsInFn, IInv, NEW w \in Workers, AsyncInScheduler(w)
  PROVE  IInv'
<1>1. TypeOK'
  BY DEF IInv, TypeOK, AsyncInScheduler, Async, Idle, LiveOn
<1>2. SubmitInv'
  BY DEF IInv, TypeOK, SubmitInv, AsyncInScheduler, Async, Idle, LiveOn
<1>3. QueueInv'
  BY DEF IInv, TypeOK, QueueInv, InQueue, AsyncInScheduler, Async, Idle, LiveOn
<1>4. FiberInv'
  BY DEF IInv, TypeOK, FiberInv, AsyncInScheduler, Async, Idle, LiveOn
<1>5. WorkerInv'
  BY DEF IInv, TypeOK, FiberInv, WorkerInv, AsyncInScheduler, Async, Idle, LiveOn
<1>6. SwitchInv'
  BY DEF IInv, TypeOK, SwitchInv, AsyncInScheduler, Async, Idle, LiveOn
<1> QED BY <1>1, <1>2, <1>3, <1>4, <1>5, <1>6 DEF IInv

LEMMA AsyncAfterResolveStep ==
  ASSUME WholeDomainJobs, ExceptionsInFn, IInv, NEW e \in Elems, AsyncAfterResolve(e)
  PROVE  FALSE
BY DEF IInv, TypeOK, AsyncAfterResolve, Async

LEMMA AsyncInLoopStep ==
  ASSUME WholeDomainJobs, ExceptionsInFn, IInv, NEW w \in Workers, AsyncInLoop(w)
  PROVE  FALSE
BY DEF IInv, TypeOK, AsyncInLoop, Async

LEMMA CancelStep ==
  ASSUME WholeDomainJobs, ExceptionsInFn, IInv, NEW w \in Workers, Cancel(w)
  PROVE  IInv'
BY DEF IInv, TypeOK, SubmitInv, QueueInv, FiberInv, WorkerInv, SwitchInv, InQueue, Cancel, Idle, LiveOn

LEMMA ExitStep ==
  ASSUME WholeDomainJobs, ExceptionsInFn, IInv, NEW w \in Workers, Exit(w)
  PROVE  IInv'
BY DEF IInv, TypeOK, SubmitInv, QueueInv, FiberInv, WorkerInv, SwitchInv, InQueue, Exit, LiveOn

LEMMA RespawnStep ==
  ASSUME WholeDomainJobs, ExceptionsInFn, IInv, NEW w \in Workers, Respawn(w)
  PROVE  IInv'
<1>1. TypeOK'
  BY DEF IInv, TypeOK, Respawn
<1>2. SubmitInv'
  <2>1. PICK a : a = active[w]
    OBVIOUS
  <2>2. /\ a \in Elems /\ promise' = [promise EXCEPT ![a] = "error"]
        /\ UNCHANGED <<started, collected, fiber>>
    BY <2>1 DEF IInv, TypeOK, Respawn
  <2>3. fiber[a] # "none"
    BY <2>1, <2>2 DEF IInv, WorkerInv, Respawn
  <2>4. promise \in [Elems -> {"none", "pending", "ok", "error"}] /\ started \in 0..N
    BY DEF IInv, TypeOK
  <2>5. promise'[a] = "error" /\ \A e \in Elems: e # a => promise'[e] = promise[e]
    BY <2>2, <2>4
  <2>6. ~(a > started)
    BY <2>2, <2>3, <2>4 DEF IInv, SubmitInv
  <2> QED BY <2>2, <2>3, <2>5, <2>6 DEF IInv, SubmitInv
<1>3. QueueInv'
  <2>1. active[w] \in Elems /\ fiber[active[w]] # "none"
    <3>1. active[w] \in Elems
      BY DEF IInv, TypeOK, Respawn
    <3>2. fiber[active[w]] \in Live \/ fiber[active[w]] = "ended"
      BY DEF IInv, WorkerInv, Respawn
    <3> QED BY <3>1, <3>2
  <2>2. \A i \in 1..Len(queue): queue[i] \in Elems /\ queue[i] # active[w]
    BY <2>1 DEF IInv, TypeOK, QueueInv
  <2>3. \A i \in 1..Len(queue'): promise'[queue'[i]] = "pending" /\ fiber'[queue'[i]] = "none"
    BY <2>1, <2>2 DEF IInv, TypeOK, QueueInv, Respawn
  <2>4. \A f \in Elems: promise'[f] = "pending" => promise[f] = "pending"
    BY <2>1 DEF IInv, TypeOK, Respawn
  <2>5. \A f \in Elems: promise'[f] = "pending" /\ fiber'[f] = "none" => InQueue(f)'
    BY <2>4 DEF IInv, QueueInv, InQueue, Respawn
  <2> QED BY <2>3, <2>5 DEF IInv, QueueInv, Respawn
<1>4. FiberInv'
  BY DEF IInv, TypeOK, FiberInv, WorkerInv, Respawn
<1>5. WorkerInv'
  BY DEF IInv, TypeOK, WorkerInv, Respawn
<1>6. SwitchInv'
  BY DEF IInv, TypeOK, SwitchInv, Respawn
<1> QED BY <1>1, <1>2, <1>3, <1>4, <1>5, <1>6 DEF IInv

LEMMA RespawnRefusedStep ==
  ASSUME WholeDomainJobs, ExceptionsInFn, IInv, NEW w \in Workers, RespawnRefused(w)
  PROVE  FALSE
<1> DEFINE a == active[w]
<1>1. a \in Elems /\ a # NoJob /\ home[a] = w /\ pc[w] = "exited"
  BY DEF IInv, TypeOK, WorkerInv, RespawnRefused
<1>2. fiber[a] \notin Live
  BY <1>1 DEF IInv, FiberInv
<1>3. promise[a] = "pending"
  BY <1>1, <1>2 DEF IInv, WorkerInv
<1> QED BY <1>3 DEF RespawnRefused

LEMMA ReraiseStep ==
  ASSUME WholeDomainJobs, ExceptionsInFn, IInv, NEW w \in Workers, Reraise(w)
  PROVE  IInv'
BY DEF IInv, TypeOK, SubmitInv, QueueInv, FiberInv, WorkerInv, SwitchInv, InQueue, Reraise

LEMMA NextStep ==
  ASSUME WholeDomainJobs, ExceptionsInFn, IInv, [Next]_vars
  PROVE  IInv'
<1>1. CASE Main
  BY <1>1, SubmitStep, SubmitInvalidStep, CollectStep, BodyReturnsStep, ReleaseStep DEF Main
<1>2. ASSUME NEW w \in Workers, Loop(w) PROVE IInv'
  BY <1>2, ResumeStep, AwaitCapacityStep, TakeStep, TakeNoneStep, StartStep DEF Loop
<1>3. ASSUME NEW w \in Workers, Cancel(w) \/ Exit(w) \/ Handler(w) PROVE IInv'
  BY <1>3, CancelStep, ExitStep, RespawnStep, RespawnRefusedStep, ReraiseStep DEF Handler
<1>4. ASSUME NEW e \in Elems, FnReturn(e) \/ FnResume(e) \/ Finish(e) PROVE IInv'
  BY <1>4, FnReturnStep, FnResumeStep, FinishStep
<1>5. CASE Environment
  BY <1>5, FnSuspendStep, AsyncAfterResolveStep, AsyncInSchedulerStep, AsyncInLoopStep
     DEF Environment
<1>6. CASE UNCHANGED vars
  BY <1>6 DEF IInv, TypeOK, SubmitInv, QueueInv, FiberInv, WorkerInv, SwitchInv, InQueue
<1> QED BY <1>1, <1>2, <1>3, <1>4, <1>5, <1>6 DEF Next

LEMMA InitInv == Init => IInv
BY DEF Init, IInv, TypeOK, SubmitInv, QueueInv, FiberInv, WorkerInv, SwitchInv, InQueue

LEMMA Invariance ==
  ASSUME WholeDomainJobs, ExceptionsInFn
  PROVE  Spec => []IInv
<1>1. IInv /\ [Next]_vars => IInv'
  BY NextStep
<1> QED BY <1>1, InitInv, PTL DEF Spec

(* Every variable has its type for any number of workers and elements:     *)
(* run_worker never gives back more capacity than its jobs took.           *)
THEOREM TypeCorrect ==
  ASSUME WholeDomainJobs, ExceptionsInFn
  PROVE  Spec => []TypeOK
<1>1. IInv => TypeOK
  BY DEF IInv
<1> QED BY <1>1, Invariance, PTL

(* No submitter of Concurrent.map ever waits for a job that no worker has  *)
(* and no handler will resolve, whichever domains die.                     *)
THEOREM NoJobIsLost ==
  ASSUME WholeDomainJobs, ExceptionsInFn
  PROVE  Spec => []NoLostJob
<1>1. ASSUME IInv, NEW e \in 1..started, promise[e] = "pending", ~InQueue(e),
             ~(fiber[e] = "taken" \/ InFn(e))
      PROVE  \E w \in Workers: pc[w] = "exited" /\ active[w] = e
  <2>1. e \in Elems
    BY <1>1 DEF IInv, TypeOK
  <2>2. fiber[e] # "none"
    BY <1>1, <2>1 DEF IInv, QueueInv
  <2>3. fiber[e] # "resolved"
    BY <1>1, <2>1 DEF IInv, FiberInv
  <2>4. fiber[e] = "ended"
    BY <1>1, <2>1, <2>2, <2>3 DEF IInv, TypeOK
  <2> QED BY <1>1, <2>1, <2>2, <2>4 DEF IInv, FiberInv
<1>2. IInv => NoLostJob
  BY <1>1 DEF NoLostJob, Abandoned
<1> QED BY <1>2, Invariance, PTL

(* Hook.ml's big invariant: jobs of weight 1.0 never share a domain.       *)
THEOREM DomainsAreNotShared ==
  ASSUME WholeDomainJobs, ExceptionsInFn
  PROVE  Spec => []OneJobPerDomain
<1>1. IInv => OneJobPerDomain
  BY DEF IInv, FiberInv, OneJobPerDomain
<1> QED BY <1>1, Invariance, PTL

(* An exception that kills a domain inside a job never fails the map.      *)
THEOREM MapSurvives ==
  ASSUME WholeDomainJobs, ExceptionsInFn
  PROVE  Spec => []SurvivesAsync
<1>1. IInv => SurvivesAsync
  BY DEF IInv, SwitchInv, SurvivesAsync
<1> QED BY <1>1, Invariance, PTL

(* The pool implements Concurrent.mli, step by step: the initial state and *)
(* every step of the pool are one of ParallelMap or leave it unchanged, so *)
(* each element gets one result, the call does not return before the last  *)
(* one, and it never raises.  (That it returns at all is left to TLC.)     *)
THEOREM PoolRefinesMap ==
  ASSUME WholeDomainJobs, ExceptionsInFn
  PROVE  Spec => ImplementsSafety
<1> USE DEF Abstract!vars
<1>1. Init => Abstract!Init
  BY DEF Init, Abstract!Init
<1>2. ASSUME IInv, [Next]_vars
      PROVE  [Abstract!Next]_Abstract!vars
  <2>1. ASSUME NEW e \in Elems, FnReturn(e) PROVE Abstract!Finish(e)
    <3>1. promise[e] = "pending" /\ promise \in [Elems -> {"none", "pending", "ok", "error"}]
      BY <2>1, <1>2 DEF IInv, TypeOK, FiberInv, FnReturn
    <3>2. PICK r \in {"ok", "error"}: promise' = [promise EXCEPT ![e] = r]
      BY <2>1 DEF FnReturn
    <3>3. UNCHANGED running
      BY <2>1 DEF FnReturn
    <3> QED BY <3>1, <3>2, <3>3 DEF Abstract!Finish
  <2>2. ASSUME NEW w \in Workers, NEW e \in Elems, e = active[w], Respawn(w)
        PROVE  Abstract!Finish(e)
    BY <2>2, <1>2 DEF IInv, TypeOK, Respawn, Abstract!Finish
  <2>3. CASE Release
    <3>1. switch = "closing"
      BY <2>3, <1>2 DEF IInv, SwitchInv, Release
    <3>2. \A e \in Elems: Settled(e)
      BY <3>1, <1>2 DEF IInv, SwitchInv, SubmitInv
    <3> QED BY <3>2, <2>3, <1>2 DEF Release, Abstract!Next, Abstract!Return
  <2>4. CASE Submit
    <3>1. promise[started + 1] = "none" /\ started + 1 \in Elems
      BY <2>4, <1>2 DEF IInv, TypeOK, SubmitInv, Submit, CanSubmit
    <3> QED BY <3>1, <2>4, <1>2 DEF IInv, TypeOK, Submit
  <2>5. ASSUME UNCHANGED <<promise, running>> PROVE UNCHANGED Abstract!vars
    BY <2>5
  <2>6. CASE Main
    BY <2>3, <2>4, <2>5, <2>6 DEF Main, SubmitInvalid, BodyReturns, Collect
  <2>7. ASSUME NEW w \in Workers, Loop(w) \/ Cancel(w) \/ Exit(w)
        PROVE  UNCHANGED <<promise, running>>
    BY <2>7 DEF Loop, Resume, AwaitCapacity, Take, TakeNone, Start, Cancel, Exit
  <2>8. ASSUME NEW w \in Workers, Handler(w)
        PROVE  [Abstract!Next]_Abstract!vars
    <3>1. CASE Respawn(w)
      <4>1. active[w] \in Elems
        BY <3>1, <1>2 DEF IInv, TypeOK, Respawn
      <4>2. PICK e \in Elems: e = active[w]
        BY <4>1
      <4>3. Abstract!Finish(e)
        BY <4>2, <3>1, <2>2
      <4> QED BY <4>3 DEF Abstract!Next
    <3>2. CASE RespawnRefused(w) \/ Reraise(w)
      BY <3>2, <2>5 DEF RespawnRefused, Reraise
    <3> QED BY <3>1, <3>2, <2>8 DEF Handler
  <2>9. ASSUME NEW e \in Elems, FnResume(e) \/ Finish(e)
        PROVE  UNCHANGED <<promise, running>>
    BY <2>9 DEF FnResume, Finish
  <2>10. CASE Environment
    <3>1. UNCHANGED <<promise, running>>
      BY <2>10 DEF Environment, FnSuspend, AsyncAfterResolve, AsyncInScheduler, AsyncInLoop
    <3> QED BY <3>1, <2>5
  <2>11. CASE UNCHANGED vars
    BY <2>11, <2>5
  <2> QED BY <1>2, <2>1, <2>5, <2>6, <2>7, <2>8, <2>9, <2>10, <2>11 DEF Next, Abstract!Next
<1> QED BY <1>1, <1>2, Invariance, PTL DEF Spec, ImplementsSafety
=============================================================================
