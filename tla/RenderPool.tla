------------------------------ MODULE RenderPool ------------------------------
(* The render pool of one worker: ProcessPoolRenderExecutor                    *)
(* (adapters/render_executor.py) admits renders through a semaphore to         *)
(* _RenderPool (worker/main.py), a process pool that is rebuilt after one of   *)
(* its processes died.  A death fails every render in that pool; it happens in *)
(* one thread and is noticed in another, and the tasks that await the renders  *)
(* resume later still.  ProcessPoolExecutor and asyncio.Semaphore are          *)
(* external, modelled from how these two classes use them.                     *)
EXTENDS Integers, FiniteSets, Sequences

CONSTANTS
    Renders,    \* calls of run(), each made at most once
    Hosts,      \* environments the worker may start in
    Hanging,    \* renders that never return by themselves
    MaxDeaths   \* bound on processes that die abnormally

ASSUME BoundAssumption == MaxDeaths \in Nat
ASSUME RendersAssumption == IsFiniteSet(Renders) /\ Hanging \subseteq Renders

(* What a host tells: RENDER_POOL_SIZE, the cgroup v2 and v1 CPU quotas as     *)
(* <<quota, period>> (<<>>: no such file, "max" or not a number), the size of  *)
(* the affinity mask and the number of cores (0: unknown).                     *)
ASSUME HostAssumption ==
    Hosts \subseteq [override : Int, v2 : {<<>>} \cup (Int \X Int),
                     v1 : {<<>>} \cup (Int \X Int), affinity : Nat, cores : Nat]

VARIABLES
    size,     \* pool_size of main(): processes, and permits of the semaphore
    pc,       \* the task of each render
    fut,      \* its future: where the job is, or how it ended
    home,     \* the pool, by generation, that it was submitted to
    permits,  \* value of the semaphore
    waiters,  \* tasks waiting for it, oldest first
    pool,     \* state of each generation of the pool
    current,  \* generation that _pool is
    phase     \* life cycle of the worker

vars == <<size, pc, fut, home, permits, waiters, pool, current, phase>>

-------------------------------------------------------------------------------
Generations == 1..(MaxDeaths + 1)
InPool == {"queued", "running", "lost"}
Resolved == {"ok", "error", "broken"}
Active == {"waiting", "granted", "submitted"}
Returned == {"artifact", "failed"}

AtLeastOne(n) == IF n > 1 THEN n ELSE 1

(* _detect_available_cpus: the first source that has an answer.                *)
Limited(quota) == quota # <<>> /\ quota[1] > 0 /\ quota[2] > 0
DetectAvailableCpus(h) ==
    AtLeastOne(CASE Limited(h.v2) -> h.v2[1] \div h.v2[2]
                 [] ~Limited(h.v2) /\ Limited(h.v1) -> h.v1[1] \div h.v1[2]
                 [] ~Limited(h.v2) /\ ~Limited(h.v1) /\ h.affinity > 0 -> h.affinity
                 [] OTHER -> h.cores)

(* _render_pool_size: a core is left to the event loop.                        *)
RenderPoolSize(h) ==
    IF h.override > 0 THEN h.override ELSE AtLeastOne(DetectAvailableCpus(h) - 1)

TypeOK ==
    /\ size \in Nat \ {0}
    /\ pc \in [Renders -> {"idle", "cancelled"} \cup Active \cup Returned]
    /\ fut \in [Renders -> {"none"} \cup InPool \cup Resolved]
    /\ home \in [Renders -> {0} \cup Generations]
    /\ permits \in 0..size
    /\ waiters \in Seq(Renders)
    /\ \A i \in DOMAIN waiters : pc[waiters[i]] = "waiting"
    /\ pool \in [Generations -> {"unused", "ok", "dying", "broken"}]
    /\ current \in Generations
    /\ phase \in {"up", "draining", "closed", "exited"}

Init ==
    /\ \E h \in Hosts : size = RenderPoolSize(h)
    /\ pc = [r \in Renders |-> "idle"]
    /\ fut = [r \in Renders |-> "none"]
    /\ home = [r \in Renders |-> 0]
    /\ permits = size
    /\ waiters = <<>>
    /\ pool = [g \in Generations |-> IF g = 1 THEN "ok" ELSE "unused"]
    /\ current = 1
    /\ phase = "up"

-------------------------------------------------------------------------------
(* _RenderPool.submit: on a pool known to be broken, build the next one first. *)
SamePool == current
PoolToUse == IF pool[current] = "broken" THEN current + 1 ELSE current

Submit(r) ==
    /\ current' = PoolToUse
    /\ pool' = [pool EXCEPT ![PoolToUse] = IF @ = "unused" THEN "ok" ELSE @]
    /\ home' = [home EXCEPT ![r] = PoolToUse]
    /\ fut' = [fut EXCEPT ![r] = "queued"]

(* run() up to its first await.  A free semaphore with nobody waiting is taken *)
(* at once, and the submit follows without an await.                           *)
LockedNever == FALSE
Locked == permits = 0 \/ waiters # <<>>

Run(r) ==
    /\ pc[r] = "idle" /\ phase \in {"up", "draining"}
    /\ \/ /\ Locked
          /\ pc' = [pc EXCEPT ![r] = "waiting"]
          /\ waiters' = Append(waiters, r)
          /\ UNCHANGED <<fut, home, permits, pool, current>>
       \/ /\ ~Locked
          /\ pc' = [pc EXCEPT ![r] = "submitted"]
          /\ permits' = permits - 1
          /\ Submit(r)
          /\ UNCHANGED waiters
    /\ UNCHANGED <<size, phase>>

(* The task that was handed a permit resumes.                                  *)
Resume(r) ==
    /\ pc[r] = "granted"
    /\ pc' = [pc EXCEPT ![r] = "submitted"]
    /\ Submit(r)
    /\ UNCHANGED <<size, permits, waiters, phase>>

(* The future is resolved: run() leaves "async with", which hands the permit   *)
(* to the oldest waiter, and returns the artifact or raises.  BrokenExecutor   *)
(* becomes a transient RenderError like any unclassified failure.              *)
ReleaseOnSuccess(r, end) ==
    /\ pc' = [pc EXCEPT ![r] = end]
    /\ permits' = IF end = "artifact" THEN permits + 1 ELSE permits
    /\ UNCHANGED waiters
ReleaseKeepsWaiter(r, end) ==
    /\ pc' = IF waiters = <<>> THEN [pc EXCEPT ![r] = end]
             ELSE [pc EXCEPT ![r] = end, ![Head(waiters)] = "granted"]
    /\ UNCHANGED <<permits, waiters>>
Release(r, end) ==
    IF waiters = <<>>
    THEN /\ permits' = permits + 1
         /\ pc' = [pc EXCEPT ![r] = end]
         /\ UNCHANGED waiters
    ELSE /\ pc' = [pc EXCEPT ![r] = end, ![Head(waiters)] = "granted"]
         /\ waiters' = Tail(waiters)
         /\ UNCHANGED permits

Return(r) ==
    /\ pc[r] = "submitted" /\ fut[r] \in Resolved
    /\ Release(r, IF fut[r] = "ok" THEN "artifact" ELSE "failed")
    /\ UNCHANGED <<size, fut, home, pool, current, phase>>

-------------------------------------------------------------------------------
(* ProcessPoolExecutor (external).                                             *)
Jobs(g, states) == {r \in Renders : home[r] = g /\ fut[r] \in states}

(* An idle process takes the job.                                              *)
Take(r) ==
    /\ fut[r] = "queued" /\ pool[home[r]] \in {"ok", "dying"}
    /\ Cardinality(Jobs(home[r], {"running", "lost"})) < size
    /\ fut' = [fut EXCEPT ![r] = "running"]
    /\ UNCHANGED <<size, pc, home, permits, waiters, pool, current, phase>>

(* _invoke returns or raises in the process.                                   *)
Finish(r) ==
    /\ fut[r] = "running" /\ r \notin Hanging
    /\ \E end \in {"ok", "error"} : fut' = [fut EXCEPT ![r] = end]
    /\ UNCHANGED <<size, pc, home, permits, waiters, pool, current, phase>>

Deaths == Cardinality({g \in Generations : pool[g] \in {"dying", "broken"}})

(* A process dies (OOM, native crash), an idle one or with the job it runs ... *)
Die(g) ==
    /\ pool[g] = "ok" /\ Deaths < MaxDeaths
    /\ pool' = [pool EXCEPT ![g] = "dying"]
    /\ \/ fut' = fut
       \/ \E r \in Jobs(g, {"running"}) : fut' = [fut EXCEPT ![r] = "lost"]
    /\ UNCHANGED <<size, pc, home, permits, waiters, current, phase>>

(* ... and the pool's own thread notices, flags the pool, fails every job in   *)
(* it and terminates its processes.                                            *)
Notice(g) ==
    /\ pool[g] = "dying"
    /\ pool' = [pool EXCEPT ![g] = "broken"]
    /\ fut' = [r \in Renders |-> IF r \in Jobs(g, InPool) THEN "broken" ELSE fut[r]]
    /\ UNCHANGED <<size, pc, home, permits, waiters, current, phase>>

-------------------------------------------------------------------------------
(* main() on a signal: wait for the handlers in flight, cancel what is left    *)
(* when the drain times out, shut the pool down without waiting for it.        *)
Sigterm ==
    /\ phase = "up"
    /\ phase' = "draining"
    /\ UNCHANGED <<size, pc, fut, home, permits, waiters, pool, current>>

DrainDone ==
    /\ phase = "draining" /\ \A r \in Renders : pc[r] \notin Active
    /\ phase' = "closed"
    /\ UNCHANGED <<size, pc, fut, home, permits, waiters, pool, current>>

(* A job that a process runs cannot be cancelled; one that is queued is.       *)
DrainWithoutTimeout == FALSE /\ UNCHANGED vars
DrainTimeout ==
    /\ phase = "draining" /\ \E r \in Renders : pc[r] \in Active
    /\ phase' = "closed"
    /\ pc' = [r \in Renders |-> IF pc[r] \in Active THEN "cancelled" ELSE pc[r]]
    /\ fut' = [r \in Renders |-> IF fut[r] = "queued" THEN "none" ELSE fut[r]]
    /\ waiters' = <<>>
    /\ UNCHANGED <<size, home, permits, pool, current>>

(* The interpreter joins the pool's processes before it exits (external).      *)
Exit ==
    /\ phase = "closed" /\ \A r \in Renders : fut[r] \notin InPool
    /\ phase' = "exited"
    /\ UNCHANGED <<size, pc, fut, home, permits, waiters, pool, current>>

Step(r) == Resume(r) \/ Return(r) \/ Take(r) \/ Finish(r)

Next ==
    \/ \E r \in Renders : Run(r) \/ Step(r)
    \/ \E g \in Generations : Die(g) \/ Notice(g)
    \/ Sigterm \/ DrainDone \/ DrainTimeout \/ Exit

(* The event loop resumes tasks, processes work, the pool's thread runs and    *)
(* the drain is timed.  No render has to start, no process to die.             *)
Fairness ==
    /\ \A r \in Renders : WF_vars(Resume(r) \/ Return(r)) /\ WF_vars(Take(r) \/ Finish(r))
    /\ \A g \in Generations : WF_vars(Notice(g))
    /\ WF_vars(DrainDone \/ DrainTimeout) /\ WF_vars(Exit)

Spec == Init /\ [][Next]_vars /\ Fairness

-------------------------------------------------------------------------------
(* One process that dies costs at most as many renders as the pool has         *)
(* processes: the death fails the renders admitted to that pool, never those   *)
(* still waiting for the semaphore nor any submitted once it was noticed.      *)
BlastRadius ==
    \A g \in Generations :
        /\ Cardinality(Jobs(g, {"broken"})) <= size
        /\ pool[g] = "broken" => Jobs(g, InPool) = {}

(* "The broker never hands us more than the render pool can work": an admitted *)
(* render finds a process of its own, it never queues behind another one.      *)
AdmittedHasProcess ==
    phase \in {"up", "draining"} =>
        \A g \in Generations : Cardinality(Jobs(g, InPool)) <= size

(* No path out of run() keeps a permit, and none returns one it did not take.  *)
PermitsBalance ==
    phase \in {"up", "draining"} =>
        permits + Cardinality({r \in Renders : pc[r] \in {"granted", "submitted"}})
            = size

Stuck == {r \in Hanging : fut[r] = "running"}

(* Renders get their turn and end, broken pools or not, as long as those that  *)
(* hang leave a process: "rebuilding on the next submit restores capacity".  A *)
(* pool of no processes is no excuse.                                          *)
AllStuck == Stuck # {} /\ Cardinality(Stuck) >= size
EveryRenderEnds ==
    \A r \in Renders \ Hanging : pc[r] = "waiting" ~> (pc[r] \notin Active \/ AllStuck)

(* A worker that was told to stop closes within the drain timeout whatever its *)
(* renders do, and its process then ends, unless a render hangs: cancelling    *)
(* the task does not end the render, and the exit waits for its process.       *)
EventuallyExits ==
    phase = "draining" ~> (phase = "exited" \/ (phase = "closed" /\ Stuck # {}))
===============================================================================
