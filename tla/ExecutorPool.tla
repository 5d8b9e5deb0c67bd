---------------------------- MODULE ExecutorPool ----------------------------
(***************************************************************************)
(* libs/parallelism/Executor_pool.ml and its only client in the engine,    *)
(* libs/parallelism/Concurrent.ml: Concurrent.map applies a function to    *)
(* every element of a list on a pool of worker domains.                    *)
(*                                                                         *)
(* The main domain runs one fiber per element (at most MaxFibers at a      *)
(* time); each puts a job in the queue and awaits the job's promise.  One  *)
(* daemon fiber per worker runs run_worker in a domain of its own and      *)
(* decides what to do when that domain dies.  Inside a domain the fibers   *)
(* are cooperative: the loop of run_worker (pc) and one fiber per job it   *)
(* accepted (fiber).  Domains run in parallel, so what they share (queue,  *)
(* promises) may change between any two steps of one of them.              *)
(*                                                                         *)
(* An asynchronous exception (GC alarm, signal handler, memprof callback)  *)
(* may land at the places AsyncPoints names:                               *)
(*   "fn"        in scheduler code, while a job of the domain is suspended *)
(*               (on the job's own stack it is an ordinary exception of    *)
(*               the job, which FnReturn covers);                          *)
(*   "resolved"  in a job's fiber, after it has resolved its promise and   *)
(*               before it clears active_job;                              *)
(*   "loop"      in the loop of run_worker.                                *)
(***************************************************************************)
EXTENDS Naturals, Sequences, FiniteSets

CONSTANTS
    Workers,      \* the daemon fibers, one per worker domain
    N,            \* the length of the mapped list; its elements are 1..N
    Weights,      \* the weightings of the list the caller may choose from
    MaxCapacity,  \* max_capacity: the weight 1.0
    MaxFibers,    \* the bound on concurrent submitters (domain_count)
    NoJob,        \* the content of active_job when it is None
    NoHome,       \* the worker of a job no worker has taken
    AsyncPoints,  \* where an asynchronous exception may land
    MaxAsync,     \* bound: asynchronous exceptions in a behaviour
    MaxSuspends   \* bound: times the mapped functions suspend in a behaviour

Elems == 1..N

ASSUME ExecutorPoolAssumption ==
    /\ N \in Nat
    /\ MaxCapacity \in Nat \ {0}
    /\ MaxFibers \in Nat \ {0}
    /\ Weights \subseteq [Elems -> Nat]
    /\ NoJob \notin Elems
    /\ NoHome \notin Workers
    /\ AsyncPoints \subseteq {"fn", "resolved", "loop"}
    /\ MaxAsync \in Nat
    /\ MaxSuspends \in Nat

VARIABLES
    (* The main domain. *)
    weight,       \* weight[e]: the weight e is submitted with
    started,      \* the elements whose submitter has started are 1..started
    collected,    \* the elements whose submitter has its result
    switch,       \* the switch of Concurrent.map: "open", then "closing" or "failed"
    running,      \* the atomic the pool clears when the switch is released
    (* Shared by all domains. *)
    queue,        \* the stream of jobs
    promise,      \* the promise of each job
    (* Each worker. *)
    pc,           \* the loop of run_worker, or what the daemon fiber does
    capacity,     \* the weight of the jobs accepted
    active,       \* active_job
    failure,      \* why the switch of run_worker fails, if it does
    (* Each job. *)
    home,         \* the worker that took it
    fiber,        \* its fiber in that worker
    (* Bounds. *)
    suspends, asyncs

mainVars == <<weight, started, collected, switch, running>>
sharedVars == <<queue, promise>>
workerVars == <<pc, capacity, active, failure>>
jobVars == <<home, fiber>>
boundVars == <<suspends, asyncs>>
vars == <<mainVars, sharedVars, workerVars, jobVars, boundVars>>

-----------------------------------------------------------------------------
(* Fibers of worker w: those it holds, and those that have not ended. *)
Live == {"running", "suspended", "resolved"}
LiveOn(w) == {e \in Elems : home[e] = w /\ fiber[e] \in Live}

(* The loop is in the run queue or waits on the condition, and no fiber of *)
(* the domain is executing: the scheduler is about to pick the next one.   *)
Idle(w) ==
    /\ pc[w] \in {"ready", "await"}
    /\ \A e \in LiveOn(w): fiber[e] = "suspended"

Settled(e) == promise[e] \in {"ok", "error"}

Init ==
    /\ weight \in Weights
    /\ started = 0
    /\ collected = {}
    /\ switch = "open"
    /\ running = TRUE
    /\ queue = <<>>
    /\ promise = [e \in Elems |-> "none"]
    /\ pc = [w \in Workers |-> "ready"]
    /\ capacity = [w \in Workers |-> 0]
    /\ active = [w \in Workers |-> NoJob]
    /\ failure = [w \in Workers |-> "none"]
    /\ home = [e \in Elems |-> NoHome]
    /\ fiber = [e \in Elems |-> "none"]
    /\ suspends = 0
    /\ asyncs = 0

-----------------------------------------------------------------------------
(* The main domain: Concurrent.map and the submitters. *)

(* Fiber.List.map starts the next submitter. *)
CanSubmit ==
    /\ switch = "open"
    /\ started < N
    /\ Cardinality((1..started) \ collected) < MaxFibers

(* enqueue: the job goes to the back of the queue. *)
Submit ==
    /\ CanSubmit
    /\ weight[started + 1] <= MaxCapacity
    /\ started' = started + 1
    /\ queue' = Append(queue, started + 1)
    /\ promise' = [promise EXCEPT ![started + 1] = "pending"]
    /\ UNCHANGED <<weight, collected, switch, running, workerVars, jobVars, boundVars>>

(* enqueue raises Invalid_argument: the submitter fails, and the map with it. *)
SubmitInvalid ==
    /\ CanSubmit
    /\ weight[started + 1] > MaxCapacity
    /\ started' = started + 1
    /\ switch' = "failed"
    /\ UNCHANGED <<weight, collected, running, sharedVars, workerVars, jobVars, boundVars>>

(* The submitter of e wakes up with the result. *)
Collect(e) ==
    /\ switch = "open"
    /\ Settled(e)
    /\ e \notin collected
    /\ collected' = collected \cup {e}
    /\ UNCHANGED <<weight, started, switch, running, sharedVars, workerVars, jobVars, boundVars>>

(* The body of Switch.run has the list of results; the switch cancels the  *)
(* daemons.                                                                *)
BodyReturns ==
    /\ switch = "open"
    /\ collected = Elems
    /\ switch' = "closing"
    /\ UNCHANGED <<weight, started, collected, running, sharedVars, workerVars, jobVars, boundVars>>

(* Once every fiber of the switch has ended its release handlers run, and  *)
(* Switch.run returns or raises.                                           *)
Release ==
    /\ switch # "open"
    /\ \A w \in Workers: pc[w] = "stopped"
    /\ running
    /\ running' = FALSE
    /\ UNCHANGED <<weight, started, collected, switch, sharedVars, workerVars, jobVars, boundVars>>

-----------------------------------------------------------------------------
(* The loop of run_worker. *)

(* The scheduler resumes the loop; a cancelled one never comes back. *)
Resume(w) ==
    /\ pc[w] = "ready"
    /\ Idle(w)
    /\ failure[w] = "none"
    /\ pc' = [pc EXCEPT ![w] = "loop"]
    /\ UNCHANGED <<mainVars, sharedVars, capacity, active, failure, jobVars, boundVars>>

(* No spare capacity: wait for the condition. *)
AwaitCapacity(w) ==
    /\ pc[w] = "loop"
    /\ capacity[w] >= MaxCapacity
    /\ pc' = [pc EXCEPT ![w] = "await"]
    /\ UNCHANGED <<mainVars, sharedVars, capacity, active, failure, jobVars, boundVars>>

(* take_nonblocking returns a job. *)
Take(w) ==
    /\ pc[w] = "loop"
    /\ capacity[w] < MaxCapacity
    /\ running
    /\ queue # <<>>
    /\ pc' = [pc EXCEPT ![w] = "taken"]
    /\ queue' = Tail(queue)
    /\ home' = [home EXCEPT ![Head(queue)] = w]
    /\ fiber' = [fiber EXCEPT ![Head(queue)] = "taken"]
    /\ UNCHANGED <<mainVars, promise, capacity, active, failure, boundVars>>

(* take_nonblocking returns nothing: yield, and look again. *)
TakeNone(w) ==
    /\ pc[w] = "loop"
    /\ capacity[w] < MaxCapacity
    /\ running
    /\ queue = <<>>
    /\ pc' = [pc EXCEPT ![w] = "ready"]
    /\ UNCHANGED <<mainVars, sharedVars, capacity, active, failure, jobVars, boundVars>>

(* Mutant of Start: the weight of the job is not added to capacity.        *)
StartUncounted(w, e) ==
    /\ pc[w] = "taken"
    /\ home[e] = w
    /\ fiber[e] = "taken"
    /\ active' = [active EXCEPT ![w] = e]
    /\ fiber' = [fiber EXCEPT ![e] = "running"]
    /\ pc' = [pc EXCEPT ![w] = "ready"]
    /\ UNCHANGED <<mainVars, sharedVars, capacity, failure, home, boundVars>>

(* Record the job, account for its weight and fork its fiber, which runs   *)
(* at once; the loop is left in the run queue.                             *)
Start(w, e) ==
    /\ pc[w] = "taken"
    /\ home[e] = w
    /\ fiber[e] = "taken"
    /\ active' = [active EXCEPT ![w] = e]
    /\ capacity' = [capacity EXCEPT ![w] = @ + weight[e]]
    /\ fiber' = [fiber EXCEPT ![e] = "running"]
    /\ pc' = [pc EXCEPT ![w] = "ready"]
    /\ UNCHANGED <<mainVars, sharedVars, failure, home, boundVars>>

-----------------------------------------------------------------------------
(* The fiber of a job. *)

(* fn returned, or raised and the exception was caught: resolve. *)
FnReturn(e) ==
    /\ fiber[e] = "running"
    /\ \E r \in {"ok", "error"}: promise' = [promise EXCEPT ![e] = r]
    /\ fiber' = [fiber EXCEPT ![e] = "resolved"]
    /\ UNCHANGED <<mainVars, queue, workerVars, home, boundVars>>

(* fn blocks or yields. *)
FnSuspend(e) ==
    /\ fiber[e] = "running"
    /\ suspends < MaxSuspends
    /\ suspends' = suspends + 1
    /\ fiber' = [fiber EXCEPT ![e] = "suspended"]
    /\ UNCHANGED <<mainVars, sharedVars, workerVars, home, asyncs>>

(* The scheduler resumes it. *)
FnResume(e) ==
    /\ fiber[e] = "suspended"
    /\ Idle(home[e])
    /\ fiber' = [fiber EXCEPT ![e] = "running"]
    /\ UNCHANGED <<mainVars, sharedVars, workerVars, home, boundVars>>

(* Done with the active job: the loop may have room for another one. *)
Finish(e) ==
    LET w == home[e] IN
    /\ fiber[e] = "resolved"
    /\ fiber' = [fiber EXCEPT ![e] = "ended"]
    /\ active' = [active EXCEPT ![w] = NoJob]
    /\ capacity' = [capacity EXCEPT ![w] = @ - weight[e]]
    /\ pc' = [pc EXCEPT ![w] = "ready"]
    /\ UNCHANGED <<mainVars, sharedVars, failure, home, boundVars>>

-----------------------------------------------------------------------------
(* Asynchronous exceptions and cancellation. *)

Async(point) ==
    /\ point \in AsyncPoints
    /\ asyncs < MaxAsync
    /\ asyncs' = asyncs + 1

(* In the scheduler: the domain dies, and its fibers with it. *)
AsyncInScheduler(w) ==
    /\ Async("fn")
    /\ Idle(w)
    /\ LiveOn(w) # {}
    /\ pc' = [pc EXCEPT ![w] = "exited"]
    /\ failure' = [failure EXCEPT ![w] = "async"]
    /\ fiber' = [e \in Elems |-> IF e \in LiveOn(w) THEN "ended" ELSE fiber[e]]
    /\ UNCHANGED <<mainVars, sharedVars, capacity, active, home, suspends>>

(* In a job's fiber, past the handler: the switch of run_worker fails. *)
AsyncAfterResolve(e) ==
    /\ Async("resolved")
    /\ fiber[e] = "resolved"
    /\ fiber' = [fiber EXCEPT ![e] = "ended"]
    /\ failure' = [failure EXCEPT ![home[e]] = "async"]
    /\ UNCHANGED <<mainVars, sharedVars, pc, capacity, active, home, suspends>>

(* In the loop: the switch fails, and a job just taken is dropped. *)
AsyncInLoop(w) ==
    /\ Async("loop")
    /\ pc[w] \in {"loop", "taken"}
    /\ pc' = [pc EXCEPT ![w] = "await"]
    /\ failure' = [failure EXCEPT ![w] = "async"]
    /\ fiber' = [e \in Elems |->
                    IF home[e] = w /\ fiber[e] = "taken" THEN "ended" ELSE fiber[e]]
    /\ UNCHANGED <<mainVars, sharedVars, capacity, active, home, suspends>>

(* The switch of the map cancels its daemons; the domain learns of it when *)
(* its scheduler runs.                                                     *)
Cancel(w) ==
    /\ switch # "open"
    /\ Idle(w)
    /\ failure[w] = "none"
    /\ failure' = [failure EXCEPT ![w] = "cancelled"]
    /\ UNCHANGED <<mainVars, sharedVars, pc, capacity, active, jobVars, boundVars>>

(* Mutant of Exit: the switch does not wait for its fibers.                *)
ExitEarly(w) ==
    /\ pc[w] \in {"ready", "await"}
    /\ failure[w] # "none"
    /\ pc' = [pc EXCEPT ![w] = "exited"]
    /\ UNCHANGED <<mainVars, sharedVars, capacity, active, failure, jobVars, boundVars>>

(* A failed switch waits for its fibers; then run_worker raises. *)
Exit(w) ==
    /\ pc[w] \in {"ready", "await"}
    /\ failure[w] # "none"
    /\ LiveOn(w) = {}
    /\ pc' = [pc EXCEPT ![w] = "exited"]
    /\ UNCHANGED <<mainVars, sharedVars, capacity, active, failure, jobVars, boundVars>>

-----------------------------------------------------------------------------
(* The daemon fiber's handler, in the main domain. *)

(* Mutant of Respawn: restart the worker without resolving the promise.    *)
RespawnSilently(w) ==
    /\ pc[w] = "exited"
    /\ active[w] # NoJob
    /\ ~Settled(active[w])
    /\ active' = [active EXCEPT ![w] = NoJob]
    /\ capacity' = [capacity EXCEPT ![w] = 0]
    /\ failure' = [failure EXCEPT ![w] = "none"]
    /\ pc' = [pc EXCEPT ![w] = IF switch = "open" THEN "ready" ELSE "stopped"]
    /\ UNCHANGED <<mainVars, sharedVars, jobVars, boundVars>>

(* Mutant of Respawn: the exception cancels the switch although there was  *)
(* an active job, as in the pool this one replaces.                        *)
RespawnNever(w) ==
    /\ pc[w] = "exited"
    /\ active[w] # NoJob
    /\ pc' = [pc EXCEPT ![w] = "stopped"]
    /\ switch' = "failed"
    /\ UNCHANGED <<weight, started, collected, running, sharedVars, capacity, active,
                   failure, jobVars, boundVars>>

(* Mutant of Respawn: the promise is overwritten, resolved or not.         *)
RespawnOverwrites(w) ==
    /\ pc[w] = "exited"
    /\ active[w] # NoJob
    /\ promise' = [promise EXCEPT ![active[w]] = "error"]
    /\ active' = [active EXCEPT ![w] = NoJob]
    /\ capacity' = [capacity EXCEPT ![w] = 0]
    /\ failure' = [failure EXCEPT ![w] = "none"]
    /\ pc' = [pc EXCEPT ![w] = IF switch = "open" THEN "ready" ELSE "stopped"]
    /\ UNCHANGED <<mainVars, queue, jobVars, boundVars>>

(* There was an active job: resolve its promise and restart the worker     *)
(* (under a switch that is cancelled, Domain_manager.run raises at once    *)
(* and the new active_job is None).                                        *)
Respawn(w) ==
    /\ pc[w] = "exited"
    /\ active[w] # NoJob
    /\ ~Settled(active[w])
    /\ promise' = [promise EXCEPT ![active[w]] = "error"]
    /\ active' = [active EXCEPT ![w] = NoJob]
    /\ capacity' = [capacity EXCEPT ![w] = 0]
    /\ failure' = [failure EXCEPT ![w] = "none"]
    /\ pc' = [pc EXCEPT ![w] = IF switch = "open" THEN "ready" ELSE "stopped"]
    /\ UNCHANGED <<mainVars, queue, jobVars, boundVars>>

(* The promise was resolved already: Promise.resolve_error raises          *)
(* Invalid_argument, which fails the daemon fiber and so the switch.       *)
RespawnRefused(w) ==
    /\ pc[w] = "exited"
    /\ active[w] # NoJob
    /\ Settled(active[w])
    /\ pc' = [pc EXCEPT ![w] = "stopped"]
    /\ switch' = "failed"
    /\ UNCHANGED <<weight, started, collected, running, sharedVars, capacity, active,
                   failure, jobVars, boundVars>>

(* No active job: the exception goes on.  The one that cancels a daemon is *)
(* expected; any other fails the switch.                                   *)
Reraise(w) ==
    /\ pc[w] = "exited"
    /\ active[w] = NoJob
    /\ pc' = [pc EXCEPT ![w] = "stopped"]
    /\ switch' = IF failure[w] = "cancelled" THEN switch ELSE "failed"
    /\ UNCHANGED <<weight, started, collected, running, sharedVars, capacity, active,
                   failure, jobVars, boundVars>>

-----------------------------------------------------------------------------
Main == Submit \/ SubmitInvalid \/ BodyReturns \/ Release \/ \E e \in Elems: Collect(e)

Loop(w) ==
    \/ Resume(w) \/ AwaitCapacity(w) \/ Take(w) \/ TakeNone(w)
    \/ \E e \in Elems: Start(w, e)

Handler(w) == Respawn(w) \/ RespawnRefused(w) \/ Reraise(w)

Environment ==
    \/ \E e \in Elems: FnSuspend(e) \/ AsyncAfterResolve(e)
    \/ \E w \in Workers: AsyncInScheduler(w) \/ AsyncInLoop(w)

Next ==
    \/ Main
    \/ \E w \in Workers: Loop(w) \/ Cancel(w) \/ Exit(w) \/ Handler(w)
    \/ \E e \in Elems: FnReturn(e) \/ FnResume(e) \/ Finish(e)
    \/ Environment

(* Every domain runs, a mapped function returns, and the scheduler of a    *)
(* domain is a FIFO run queue: a fiber in it is not overtaken for ever,    *)
(* although the loop is runnable again and again.                          *)
Fairness ==
    /\ WF_vars(Main)
    /\ \A w \in Workers:
        WF_vars(Loop(w)) /\ SF_vars(Cancel(w)) /\ WF_vars(Exit(w)) /\ WF_vars(Handler(w))
    /\ \A e \in Elems: WF_vars(FnReturn(e)) /\ SF_vars(FnResume(e)) /\ WF_vars(Finish(e))

Spec == Init /\ [][Next]_vars /\ Fairness

-----------------------------------------------------------------------------
(* Properties. *)

(* The variables have their types; in particular a worker never gives back *)
(* more capacity than its jobs took.                                       *)
TypeOK ==
    /\ weight \in Weights
    /\ started \in 0..N
    /\ collected \subseteq Elems
    /\ switch \in {"open", "closing", "failed"}
    /\ running \in BOOLEAN
    /\ queue \in Seq(Elems)
    /\ promise \in [Elems -> {"none", "pending", "ok", "error"}]
    /\ pc \in [Workers -> {"ready", "loop", "taken", "await", "exited", "stopped"}]
    /\ capacity \in [Workers -> Nat]
    /\ active \in [Workers -> Elems \cup {NoJob}]
    /\ failure \in [Workers -> {"none", "async", "cancelled"}]
    /\ home \in [Elems -> Workers \cup {NoHome}]
    /\ fiber \in [Elems -> {"none", "taken", "running", "suspended", "resolved", "ended"}]
    /\ suspends \in 0..MaxSuspends
    /\ asyncs \in 0..MaxAsync

InQueue(e) == \E i \in 1..Len(queue): queue[i] = e

InFn(e) == fiber[e] \in {"running", "suspended"}

(* Nobody has e any more: it is not in the queue, nor with a worker that   *)
(* will run it, nor in the active_job of a worker that died.               *)
Abandoned(e) ==
    /\ ~InQueue(e)
    /\ fiber[e] # "taken" /\ ~InFn(e)
    /\ ~\E w \in Workers: pc[w] = "exited" /\ active[w] = e

(* A submitter never waits for a job nobody will resolve: while the map    *)
(* goes on, a job whose promise is pending is in the queue, or with a      *)
(* worker that will run it, or in the active_job of a worker that died.    *)
NoLostJob ==
    switch # "failed" => \A e \in 1..started: promise[e] = "pending" => ~Abandoned(e)

(* The big invariant of libs/parallelism/Hook.ml: a domain never has more  *)
(* than one fiber inside a mapped function, or hooks, which are local to   *)
(* the domain, would change under the feet of the other.                   *)
OneJobPerDomain ==
    \A e, f \in Elems: InFn(e) /\ InFn(f) /\ home[e] = home[f] => e = f

(* Prelude of Executor_pool.ml: an exception that kills a domain while it  *)
(* has an active job fails that job, never the whole map.                  *)
SurvivesAsync == switch # "failed"

(* A promise is written once: a result a submitter may have read already   *)
(* is not replaced, whatever the order of the job's fiber, the death of    *)
(* its domain and the daemon's handler.                                    *)
ResolvedOnce ==
    [][\A e \in Elems: Settled(e) => promise'[e] = promise[e]]_vars

(* Once Concurrent.map has returned or raised, no mapped function is still *)
(* running in a worker, nor will be.                                       *)
NoJobOutlivesMap ==
    ~running => \A e \in Elems: fiber[e] \notin Live \cup {"taken"}

(* The weight of a set of jobs. *)
Total(weights, jobs) ==
    LET sum[n \in 0..N] ==
            IF n = 0 THEN 0 ELSE sum[n - 1] + (IF n \in jobs THEN weights[n] ELSE 0)
    IN  sum[N]

(* The loop's account of its spare capacity is the weight of the fibers it *)
(* forked and that have not finished, so capacity is never leaked.         *)
CapacityAccounts ==
    \A w \in Workers:
        pc[w] \notin {"exited", "stopped"} /\ failure[w] = "none" =>
            capacity[w] = Total(weight, LiveOn(w))

(* Concurrent.map ends, with its list of results or an exception, whatever *)
(* domains die and whenever: with weights of a whole domain, the only ones *)
(* Concurrent.map submits, always; with smaller ones unless a job was lost *)
(* that shared its domain when the domain died, for active_job remembers   *)
(* one job of a domain.                                                    *)
MapTerminates ==
    <>(\/ ~running
       \/ \E e \in 1..started:
            /\ promise[e] = "pending" /\ Abandoned(e)
            /\ \E f \in Elems \ {e}: home[f] = home[e] /\ weight[f] < MaxCapacity)

(* The pool implements the promise of Concurrent.mli.                      *)
Abstract ==
    INSTANCE ParallelMap WITH
        result <- [e \in Elems |-> IF Settled(e) THEN promise[e] ELSE "pending"],
        returned <- ~running

Implements == Abstract!Spec

(* The safety part of Implements. *)
ImplementsSafety == Abstract!Init /\ [][Abstract!Next]_(Abstract!vars)
=============================================================================
