--------------------------- MODULE RenderPoolProofs ---------------------------
(* The render pool of RenderPool, for any number of renders, hosts and deaths. *)
(* The semaphore bounds the admitted renders; every job in a pool belongs to   *)
(* an admitted render for as long as the worker takes renders, so the permits  *)
(* bound the jobs, and with them the renders that one death can fail.          *)
EXTENDS RenderPool, FiniteSetTheorems, TLAPS

Open == phase \in {"up", "draining"}
Admitted == {r \in Renders : pc[r] \in {"granted", "submitted"}}

(* The drain leaves no task behind that could still submit or release.         *)
Closed == ~Open => \A r \in Renders : pc[r] \notin Active

(* A task waits once, and never while a permit is free.                        *)
Queue ==
    /\ \A i, j \in DOMAIN waiters : waiters[i] = waiters[j] => i = j
    /\ waiters # <<>> => permits = 0

JobsHaveTask ==
    Open => \A r \in Renders : fut[r] \in InPool => pc[r] = "submitted"

JobsHaveHome == \A r \in Renders : fut[r] # "none" => home[r] \in Generations

(* Generations are used one after the other, each once the last one broke, so  *)
(* there is always a next one for the deaths that are left.                    *)
OnePoolAtATime ==
    /\ \A g \in Generations : g < current => pool[g] = "broken"
    /\ \A g \in Generations : g > current => pool[g] = "unused"
    /\ pool[current] # "unused"
    /\ pool[current] # "ok" => current <= MaxDeaths

BrokenWithItsPool == \A r \in Renders : fut[r] = "broken" => pool[home[r]] = "broken"
NoJobInBrokenPool == \A g \in Generations : pool[g] = "broken" => Jobs(g, InPool) = {}

(* AdmittedHasProcess, which also holds of the jobs that outlive the drain.    *)
JobsFit == \A g \in Generations : Cardinality(Jobs(g, InPool)) <= size
CasualtiesFit == \A g \in Generations : Cardinality(Jobs(g, {"broken"})) <= size

IndInv ==
    /\ TypeOK
    /\ Closed
    /\ Queue
    /\ PermitsBalance
    /\ JobsHaveTask
    /\ JobsHaveHome
    /\ OnePoolAtATime
    /\ BrokenWithItsPool
    /\ NoJobInBrokenPool
    /\ JobsFit
    /\ CasualtiesFit

-------------------------------------------------------------------------------
(* Whatever a host reports of its CPUs, the pool has a process (the max(1,     *)
(* ...) of _render_pool_size).                                                 *)
LEMMA PoolHasAProcess ==
    ASSUME NEW h \in Hosts
    PROVE  RenderPoolSize(h) \in Nat \ {0}
  <1>1. \A n \in Int : AtLeastOne(n) \in Nat \ {0}
    BY DEF AtLeastOne
  <1>2. /\ h.override \in Int /\ h.affinity \in Int /\ h.cores \in Int
        /\ Limited(h.v2) => h.v2[1] \div h.v2[2] \in Int
        /\ Limited(h.v1) => h.v1[1] \div h.v1[2] \in Int
    BY HostAssumption DEF Limited
  <1>3. DetectAvailableCpus(h) \in Nat \ {0}
    <2>1. CASE Limited(h.v2)
      BY <1>1, <1>2, <2>1, Zenon DEF DetectAvailableCpus
    <2>2. CASE ~Limited(h.v2) /\ Limited(h.v1)
      BY <1>1, <1>2, <2>2, Zenon DEF DetectAvailableCpus
    <2>3. CASE ~Limited(h.v2) /\ ~Limited(h.v1) /\ h.affinity > 0
      BY <1>1, <1>2, <2>3, Zenon DEF DetectAvailableCpus
    <2>4. CASE ~Limited(h.v2) /\ ~Limited(h.v1) /\ ~(h.affinity > 0)
      BY <1>1, <1>2, <2>4, Zenon DEF DetectAvailableCpus
    <2> QED
      BY <2>1, <2>2, <2>3, <2>4
  <1> QED
    BY <1>1, <1>2, <1>3 DEF RenderPoolSize

(* Sets of renders are finite, and smaller ones have fewer elements.           *)
LEMMA RendersCounted ==
    /\ \A S \in SUBSET Renders : IsFiniteSet(S) /\ Cardinality(S) \in Nat
    /\ \A S, T \in SUBSET Renders : S \subseteq T => Cardinality(S) <= Cardinality(T)
  BY RendersAssumption, FS_Subset, FS_CardinalityType

(* The worker starts with all permits and an unbroken pool.                    *)
LEMMA InitInv == Init => IndInv
  <1> SUFFICES ASSUME Init PROVE IndInv
    OBVIOUS
  <1>1. size \in Nat \ {0}
    BY PoolHasAProcess DEF Init
  <1>2. 1 \in Generations
    BY BoundAssumption DEF Generations
  <1>3. TypeOK
    BY <1>1, <1>2 DEF Init, TypeOK, Active, Returned, InPool, Resolved
  <1>4. \A g \in Generations : Jobs(g, InPool) = {} /\ Jobs(g, {"broken"}) = {}
    BY DEF Init, Jobs, InPool
  <1>5. Cardinality(Admitted) = 0
    <2>1. Admitted = {}
      BY DEF Init, Admitted
    <2> QED
      BY <2>1, FS_EmptySet
  <1>6. PermitsBalance
    BY <1>1, <1>5 DEF Init, PermitsBalance, Admitted
  <1>7. JobsFit /\ CasualtiesFit /\ NoJobInBrokenPool
    BY <1>1, <1>4, FS_EmptySet DEF JobsFit, CasualtiesFit, NoJobInBrokenPool
  <1>8. OnePoolAtATime
    BY <1>2 DEF Init, OnePoolAtATime, Generations
  <1> QED
    BY <1>3, <1>6, <1>7, <1>8
       DEF IndInv, Init, Closed, Open, Queue, JobsHaveTask, InPool,
              JobsHaveHome,
           BrokenWithItsPool

-------------------------------------------------------------------------------
(* There is a pool to submit to, and it works.                                 *)
LEMMA UsablePool ==
    ASSUME IndInv
    PROVE  /\ PoolToUse \in Generations /\ pool[PoolToUse] # "broken"
           /\ PoolToUse # current => PoolToUse = current + 1 /\ pool[current] = "broken"
  BY BoundAssumption DEF IndInv, TypeOK, OnePoolAtATime, PoolToUse, Generations

(* What leaving the semaphore does: the oldest waiter, who waits once, gets    *)
(* the permit.                                                                 *)
LEMMA Released ==
    ASSUME IndInv, NEW r \in Renders, NEW end, pc[r] = "submitted", Release(r, end)
    PROVE  /\ waiters' \in Seq(Renders)
           /\ waiters = <<>> =>
                 waiters' = <<>> /\ permits' = permits + 1 /\ pc' = [pc EXCEPT ![r] = end]
           /\ waiters # <<>> => permits' = permits /\ \E h \in Renders :
                 /\ h # r /\ pc[h] = "waiting"
                 /\ pc' = [pc EXCEPT ![r] = end, ![h] = "granted"]
                 /\ \A i \in DOMAIN waiters' : waiters'[i] # h
           /\ \A i \in DOMAIN waiters' :
                 i + 1 \in DOMAIN waiters /\ waiters'[i] = waiters[i + 1]
  <1>1. CASE waiters = <<>>
    BY <1>1 DEF Release, IndInv, TypeOK
  <1>2. CASE waiters # <<>>
    <2> DEFINE h == Head(waiters)
    <2>1. /\ waiters \in Seq(Renders) /\ h \in Renders /\ h = waiters[1]
          /\ 1 \in DOMAIN waiters
      BY <1>2 DEF IndInv, TypeOK
    <2>2. waiters' = Tail(waiters) /\ waiters' \in Seq(Renders) /\ permits' = permits
      BY <1>2, <2>1 DEF Release
    <2>3. pc' = [pc EXCEPT ![r] = end, ![h] = "granted"]
      BY <1>2 DEF Release
    <2>4. \A i \in DOMAIN waiters' :
             i + 1 \in DOMAIN waiters /\ i + 1 # 1 /\ waiters'[i] = waiters[i + 1]
      BY <1>2, <2>1, <2>2
    <2>5. pc[h] = "waiting"
      BY <2>1 DEF IndInv, TypeOK
    <2>6. \A i \in DOMAIN waiters' : waiters'[i] # h
      BY <2>1, <2>4 DEF IndInv, Queue
    <2> HIDE DEF h
    <2> QED
      BY <1>2, <2>1, <2>2, <2>3, <2>4, <2>5, <2>6
  <1> QED
    BY <1>1, <1>2

(* A permit is taken by an admission, and given back or handed on by a         *)
(* return.                                                                     *)
LEMMA PermitsInv ==
    ASSUME IndInv, [Next]_vars
    PROVE  PermitsBalance'
PROOF
  <1> USE DEF IndInv
  <1>1. ASSUME NEW r \in Renders, Run(r)  PROVE PermitsBalance'
    <2>1. CASE Locked
      <3>1. Admitted' = Admitted /\ permits' = permits
        BY <1>1, <2>1 DEF Admitted, Run, TypeOK
      <3> QED
        BY <1>1, <3>1 DEF PermitsBalance, Admitted, Run
    <2>2. CASE ~Locked
      <3>1. Admitted' = Admitted \cup {r} /\ r \notin Admitted /\ permits' = permits - 1
        BY <1>1, <2>2 DEF Admitted, Run, TypeOK
      <3>2. Cardinality(Admitted') = Cardinality(Admitted) + 1
        BY <3>1, RendersCounted, FS_AddElement DEF Admitted
      <3> QED
        <4>1. permits + Cardinality(Admitted) = size
          BY <1>1 DEF PermitsBalance, Admitted, Run
        <4>2. Cardinality(Admitted) \in Nat /\ permits \in Nat
          BY RendersCounted DEF Admitted, TypeOK
        <4>3. permits' + Cardinality(Admitted') = size /\ size' = size
          BY <1>1, <3>1, <3>2, <4>1, <4>2 DEF Run
        <4> QED
          BY <4>3 DEF PermitsBalance, Admitted
    <2> QED
      BY <2>1, <2>2
  <1>2. ASSUME NEW r \in Renders, Resume(r)  PROVE PermitsBalance'
    BY <1>2 DEF PermitsBalance, TypeOK, Resume
  <1>3. ASSUME NEW r \in Renders, Return(r)  PROVE PermitsBalance'
    <2>1. PICK end \in Returned : Release(r, end)
      BY <1>3 DEF Return, Returned
    <2>2. r \in Admitted /\ IsFiniteSet(Admitted) /\ permits \in Nat /\ size \in Nat
      BY <1>3, RendersCounted DEF Return, Admitted, TypeOK
    <2>3. Open' => permits + Cardinality(Admitted) = size
      BY <1>3 DEF Return, PermitsBalance, Admitted, Open
    <2>4. IsFiniteSet(Admitted \ {r}) /\ Cardinality(Admitted \ {r}) = Cardinality(Admitted) - 1
      BY <2>2, FS_RemoveElement
    <2>5. CASE waiters = <<>>
      <3>1. Admitted' = Admitted \ {r} /\ permits' = permits + 1
        BY <1>3, <2>1, <2>5, Released DEF Admitted, Return, Returned, TypeOK
      <3> QED
        BY <1>3, <2>2, <2>3, <2>4, <3>1, RendersCounted
           DEF PermitsBalance, Admitted, Open, Return
    <2>6. CASE waiters # <<>>
      <3>1. PICK h \in Renders : /\ h # r /\ pc[h] = "waiting"
                                /\ pc' = [pc EXCEPT ![r] = end, ![h] = "granted"]
        BY <1>3, <2>1, <2>6, Released DEF Return
      <3>2. Admitted' = (Admitted \ {r}) \cup {h} /\ h \notin Admitted \ {r}
        BY <2>1, <3>1 DEF Admitted, Returned, TypeOK
      <3>3. permits' = permits
        BY <1>3, <2>1, <2>6, Released DEF Return
      <3>4. Cardinality(Admitted') = Cardinality(Admitted)
        <4>1. Cardinality(Admitted') = Cardinality(Admitted \ {r}) + 1
          BY <2>4, <3>2, FS_AddElement
        <4>2. Cardinality(Admitted) \in Nat
          BY RendersCounted DEF Admitted
        <4> QED
          BY <2>4, <4>1, <4>2
      <3>5. size' = size /\ phase' = phase
        BY <1>3 DEF Return
      <3> QED
        BY <2>3, <3>3, <3>4, <3>5 DEF PermitsBalance, Admitted, Open
    <2> QED
      BY <2>5, <2>6
  <1>4. ASSUME NEW r \in Renders, Take(r)  PROVE PermitsBalance'
    BY <1>4 DEF PermitsBalance, TypeOK, Take
  <1>5. ASSUME NEW r \in Renders, Finish(r)  PROVE PermitsBalance'
    BY <1>5 DEF PermitsBalance, TypeOK, Finish
  <1>6. ASSUME NEW g \in Generations, Die(g)  PROVE PermitsBalance'
    BY <1>6 DEF PermitsBalance, TypeOK, Die
  <1>7. ASSUME NEW g \in Generations, Notice(g)  PROVE PermitsBalance'
    BY <1>7 DEF PermitsBalance, TypeOK, Notice
  <1>8. CASE Sigterm
    BY <1>8 DEF PermitsBalance, TypeOK, Sigterm
  <1>9. CASE DrainDone
    BY <1>9 DEF PermitsBalance, TypeOK, DrainDone
  <1>10. CASE DrainTimeout
    BY <1>10 DEF PermitsBalance, TypeOK, DrainTimeout
  <1>11. CASE Exit
    BY <1>11 DEF PermitsBalance, TypeOK, Exit
  <1>12. CASE UNCHANGED vars
    BY <1>12 DEF PermitsBalance, TypeOK, vars
  <1> QED
    BY <1>1, <1>2, <1>3, <1>4, <1>5, <1>6, <1>7, <1>8, <1>9, <1>10, <1>11,
       <1>12 DEF Next, Step

(* The state keeps its shape.                                                  *)
LEMMA TypeInv ==
    ASSUME IndInv, [Next]_vars
    PROVE  TypeOK'
PROOF
  <1> USE DEF IndInv
  <1>1. ASSUME NEW r \in Renders, Run(r)  PROVE TypeOK'
    <2>1. pc' \in [Renders -> {"idle", "cancelled"} \cup Active \cup Returned]
      BY <1>1 DEF TypeOK, Run, Active
    <2>2. permits' \in 0..size
      BY <1>1 DEF TypeOK, Run, Locked
    <2>3. /\ waiters' \in Seq(Renders)
          /\ \A i \in DOMAIN waiters' : pc'[waiters'[i]] = "waiting"
      <3>1. CASE waiters' = waiters
        BY <1>1, <3>1 DEF TypeOK, Run, Locked
      <3>2. CASE waiters' = Append(waiters, r) /\ pc' = [pc EXCEPT ![r] = "waiting"]
        BY <3>2 DEF TypeOK
      <3> QED
        BY <1>1, <3>1, <3>2 DEF Run
    <2>4. /\ fut' \in [Renders -> {"none"} \cup InPool \cup Resolved]
          /\ home' \in [Renders -> {0} \cup Generations]
          /\ pool' \in [Generations -> {"unused", "ok", "dying", "broken"}]
          /\ current' \in Generations
      BY <1>1, UsablePool DEF TypeOK, Run, Submit, InPool
    <2> QED
      BY <1>1, <2>1, <2>2, <2>3, <2>4 DEF TypeOK, Run
  <1>2. ASSUME NEW r \in Renders, Resume(r)  PROVE TypeOK'
    BY <1>2, UsablePool DEF TypeOK, InPool, Resolved, Active, Returned, Jobs,
           Submit, Locked, Resume
  <1>3. ASSUME NEW r \in Renders, Return(r)  PROVE TypeOK'
    <2>1. pc[r] = "submitted" /\ fut[r] \in Resolved
      BY <1>3 DEF Return
    <2>2. PICK end \in Returned : Release(r, end)
      BY <1>3 DEF Return, Returned
    <2>3. pc' \in [Renders -> {"idle", "cancelled"} \cup Active \cup Returned]
      BY <2>1, <2>2, Released DEF TypeOK, Active, Returned
    <2>4. \A i \in DOMAIN waiters' : pc'[waiters'[i]] = "waiting"
      BY <2>1, <2>2, Released, <2>3 DEF TypeOK
    <2>5. permits' \in 0..size
      <3>1. permits' = permits \/ permits' = permits + 1
        BY <2>1, <2>2, Released
      <3>2. permits' + Cardinality(Admitted') = size
        BY <1>3, <2>1, PermitsInv
           DEF PermitsBalance, Admitted, Closed, Open, Active, Return
      <3>3. Cardinality(Admitted') \in Nat /\ permits \in Nat /\ size \in Nat /\ size' = size
        BY <1>3, RendersCounted DEF Admitted, TypeOK, Return
      <3> QED
        BY <3>1, <3>2, <3>3
    <2> QED
      BY <1>3, <2>1, <2>2, Released, <2>3, <2>4, <2>5 DEF TypeOK, Return
  <1>4. ASSUME NEW r \in Renders, Take(r)  PROVE TypeOK'
    BY <1>4 DEF TypeOK, InPool, Resolved, Active, Returned, Jobs, Submit,
           Locked, Take
  <1>5. ASSUME NEW r \in Renders, Finish(r)  PROVE TypeOK'
    BY <1>5 DEF TypeOK, InPool, Resolved, Active, Returned, Jobs, Submit,
           Locked, Finish
  <1>6. ASSUME NEW g \in Generations, Die(g)  PROVE TypeOK'
    BY <1>6 DEF TypeOK, InPool, Resolved, Active, Returned, Jobs, Submit,
           Locked, Die
  <1>7. ASSUME NEW g \in Generations, Notice(g)  PROVE TypeOK'
    BY <1>7 DEF TypeOK, InPool, Resolved, Active, Returned, Jobs, Submit,
           Locked, Notice
  <1>8. CASE Sigterm
    BY <1>8 DEF TypeOK, InPool, Resolved, Active, Returned, Jobs, Submit,
           Locked, Sigterm
  <1>9. CASE DrainDone
    BY <1>9 DEF TypeOK, InPool, Resolved, Active, Returned, Jobs, Submit,
           Locked, DrainDone
  <1>10. CASE DrainTimeout
    BY <1>10 DEF TypeOK, InPool, Resolved, Active, Returned, Jobs, Submit,
           Locked, DrainTimeout
  <1>11. CASE Exit
    BY <1>11 DEF TypeOK, InPool, Resolved, Active, Returned, Jobs, Submit,
           Locked, Exit
  <1>12. CASE UNCHANGED vars
    BY <1>12 DEF TypeOK, InPool, Resolved, Active, Returned, Jobs, Submit,
           Locked, vars
  <1> QED
    BY <1>1, <1>2, <1>3, <1>4, <1>5, <1>6, <1>7, <1>8, <1>9, <1>10, <1>11,
       <1>12 DEF Next, Step

(* Nothing is admitted once the drain is over.                                 *)
LEMMA ClosedInv ==
    ASSUME IndInv, [Next]_vars
    PROVE  Closed'
PROOF
  <1> USE DEF IndInv
  <1>1. ASSUME NEW r \in Renders, Run(r)  PROVE Closed'
    BY <1>1 DEF Closed, Open, TypeOK, Active, Run
  <1>2. ASSUME NEW r \in Renders, Resume(r)  PROVE Closed'
    BY <1>2 DEF Closed, Open, TypeOK, Active, Resume
  <1>3. ASSUME NEW r \in Renders, Return(r)  PROVE Closed'
    BY <1>3, Released DEF Closed, Open, TypeOK, Active, Return, Returned
  <1>4. ASSUME NEW r \in Renders, Take(r)  PROVE Closed'
    BY <1>4 DEF Closed, Open, TypeOK, Active, Take
  <1>5. ASSUME NEW r \in Renders, Finish(r)  PROVE Closed'
    BY <1>5 DEF Closed, Open, TypeOK, Active, Finish
  <1>6. ASSUME NEW g \in Generations, Die(g)  PROVE Closed'
    BY <1>6 DEF Closed, Open, TypeOK, Active, Die
  <1>7. ASSUME NEW g \in Generations, Notice(g)  PROVE Closed'
    BY <1>7 DEF Closed, Open, TypeOK, Active, Notice
  <1>8. CASE Sigterm
    BY <1>8 DEF Closed, Open, TypeOK, Active, Sigterm
  <1>9. CASE DrainDone
    BY <1>9 DEF Closed, Open, TypeOK, Active, DrainDone
  <1>10. CASE DrainTimeout
    BY <1>10 DEF Closed, Open, TypeOK, Active, DrainTimeout
  <1>11. CASE Exit
    BY <1>11 DEF Closed, Open, TypeOK, Active, Exit
  <1>12. CASE UNCHANGED vars
    BY <1>12 DEF Closed, Open, TypeOK, Active, vars
  <1> QED
    BY <1>1, <1>2, <1>3, <1>4, <1>5, <1>6, <1>7, <1>8, <1>9, <1>10, <1>11,
       <1>12 DEF Next, Step

(* A task joins the queue only when it has nothing else to do, and leaves it   *)
(* with its permit.                                                            *)
LEMMA QueueInv ==
    ASSUME IndInv, [Next]_vars
    PROVE  Queue'
PROOF
  <1> USE DEF IndInv
  <1>1. ASSUME NEW r \in Renders, Run(r)  PROVE Queue'
    BY <1>1 DEF Queue, TypeOK, Run, Locked
  <1>2. ASSUME NEW r \in Renders, Resume(r)  PROVE Queue'
    BY <1>2 DEF Queue, TypeOK, Resume
  <1>3. ASSUME NEW r \in Renders, Return(r)  PROVE Queue'
    BY <1>3, Released DEF Queue, TypeOK, Return
  <1>4. ASSUME NEW r \in Renders, Take(r)  PROVE Queue'
    BY <1>4 DEF Queue, TypeOK, Take
  <1>5. ASSUME NEW r \in Renders, Finish(r)  PROVE Queue'
    BY <1>5 DEF Queue, TypeOK, Finish
  <1>6. ASSUME NEW g \in Generations, Die(g)  PROVE Queue'
    BY <1>6 DEF Queue, TypeOK, Die
  <1>7. ASSUME NEW g \in Generations, Notice(g)  PROVE Queue'
    BY <1>7 DEF Queue, TypeOK, Notice
  <1>8. CASE Sigterm
    BY <1>8 DEF Queue, TypeOK, Sigterm
  <1>9. CASE DrainDone
    BY <1>9 DEF Queue, TypeOK, DrainDone
  <1>10. CASE DrainTimeout
    BY <1>10 DEF Queue, TypeOK, DrainTimeout
  <1>11. CASE Exit
    BY <1>11 DEF Queue, TypeOK, Exit
  <1>12. CASE UNCHANGED vars
    BY <1>12 DEF Queue, TypeOK, vars
  <1> QED
    BY <1>1, <1>2, <1>3, <1>4, <1>5, <1>6, <1>7, <1>8, <1>9, <1>10, <1>11,
       <1>12 DEF Next, Step

(* A job enters a pool with its task, and the task outlasts it until the       *)
(* drain times out.                                                            *)
LEMMA TaskInv ==
    ASSUME IndInv, [Next]_vars
    PROVE  JobsHaveTask'
PROOF
  <1> USE DEF IndInv
  <1>1. ASSUME NEW r \in Renders, Run(r)  PROVE JobsHaveTask'
    BY <1>1 DEF JobsHaveTask, Open, InPool, TypeOK, Run, Submit
  <1>2. ASSUME NEW r \in Renders, Resume(r)  PROVE JobsHaveTask'
    BY <1>2 DEF JobsHaveTask, Open, InPool, TypeOK, Resume, Submit
  <1>3. ASSUME NEW r \in Renders, Return(r)  PROVE JobsHaveTask'
    BY <1>3, Released DEF JobsHaveTask, Open, InPool, TypeOK, Return, Resolved
  <1>4. ASSUME NEW r \in Renders, Take(r)  PROVE JobsHaveTask'
    BY <1>4 DEF JobsHaveTask, Open, InPool, TypeOK, Take
  <1>5. ASSUME NEW r \in Renders, Finish(r)  PROVE JobsHaveTask'
    BY <1>5 DEF JobsHaveTask, Open, InPool, TypeOK, Finish
  <1>6. ASSUME NEW g \in Generations, Die(g)  PROVE JobsHaveTask'
    BY <1>6 DEF JobsHaveTask, Open, InPool, TypeOK, Die, Jobs
  <1>7. ASSUME NEW g \in Generations, Notice(g)  PROVE JobsHaveTask'
    BY <1>7 DEF JobsHaveTask, Open, InPool, TypeOK, Notice, Jobs
  <1>8. CASE Sigterm
    BY <1>8 DEF JobsHaveTask, Open, InPool, TypeOK, Sigterm
  <1>9. CASE DrainDone
    BY <1>9 DEF JobsHaveTask, Open, InPool, TypeOK, DrainDone
  <1>10. CASE DrainTimeout
    BY <1>10 DEF JobsHaveTask, Open, InPool, TypeOK, DrainTimeout
  <1>11. CASE Exit
    BY <1>11 DEF JobsHaveTask, Open, InPool, TypeOK, Exit
  <1>12. CASE UNCHANGED vars
    BY <1>12 DEF JobsHaveTask, Open, InPool, TypeOK, vars
  <1> QED
    BY <1>1, <1>2, <1>3, <1>4, <1>5, <1>6, <1>7, <1>8, <1>9, <1>10, <1>11,
       <1>12 DEF Next, Step

(* A job has a pool.                                                           *)
LEMMA HomeInv ==
    ASSUME IndInv, [Next]_vars
    PROVE  JobsHaveHome'
PROOF
  <1> USE DEF IndInv
  <1>1. ASSUME NEW r \in Renders, Run(r)  PROVE JobsHaveHome'
    BY <1>1, UsablePool DEF JobsHaveHome, TypeOK, InPool, Run, Submit
  <1>2. ASSUME NEW r \in Renders, Resume(r)  PROVE JobsHaveHome'
    BY <1>2, UsablePool DEF JobsHaveHome, TypeOK, InPool, Resume, Submit
  <1>3. ASSUME NEW r \in Renders, Return(r)  PROVE JobsHaveHome'
    BY <1>3 DEF JobsHaveHome, TypeOK, InPool, Return
  <1>4. ASSUME NEW r \in Renders, Take(r)  PROVE JobsHaveHome'
    BY <1>4 DEF JobsHaveHome, TypeOK, InPool, Take
  <1>5. ASSUME NEW r \in Renders, Finish(r)  PROVE JobsHaveHome'
    BY <1>5 DEF JobsHaveHome, TypeOK, InPool, Finish
  <1>6. ASSUME NEW g \in Generations, Die(g)  PROVE JobsHaveHome'
    BY <1>6 DEF JobsHaveHome, TypeOK, InPool, Die, Jobs
  <1>7. ASSUME NEW g \in Generations, Notice(g)  PROVE JobsHaveHome'
    BY <1>7 DEF JobsHaveHome, TypeOK, InPool, Notice, Jobs
  <1>8. CASE Sigterm
    BY <1>8 DEF JobsHaveHome, TypeOK, InPool, Sigterm
  <1>9. CASE DrainDone
    BY <1>9 DEF JobsHaveHome, TypeOK, InPool, DrainDone
  <1>10. CASE DrainTimeout
    BY <1>10 DEF JobsHaveHome, TypeOK, InPool, DrainTimeout
  <1>11. CASE Exit
    BY <1>11 DEF JobsHaveHome, TypeOK, InPool, Exit
  <1>12. CASE UNCHANGED vars
    BY <1>12 DEF JobsHaveHome, TypeOK, InPool, vars
  <1> QED
    BY <1>1, <1>2, <1>3, <1>4, <1>5, <1>6, <1>7, <1>8, <1>9, <1>10, <1>11,
       <1>12 DEF Next, Step

(* A pool is replaced on the first submit after it broke.                      *)
LEMMA PoolInv ==
    ASSUME IndInv, [Next]_vars
    PROVE  OnePoolAtATime'
PROOF
  <1> USE DEF IndInv
  <1>1. ASSUME NEW r \in Renders, Run(r)  PROVE OnePoolAtATime'
    BY <1>1, BoundAssumption, UsablePool
       DEF OnePoolAtATime, TypeOK, Generations, Run, Submit
  <1>2. ASSUME NEW r \in Renders, Resume(r)  PROVE OnePoolAtATime'
    BY <1>2, BoundAssumption, UsablePool
       DEF OnePoolAtATime, TypeOK, Generations, Resume, Submit
  <1>3. ASSUME NEW r \in Renders, Return(r)  PROVE OnePoolAtATime'
    BY <1>3, BoundAssumption DEF OnePoolAtATime, TypeOK, Generations, Return
  <1>4. ASSUME NEW r \in Renders, Take(r)  PROVE OnePoolAtATime'
    BY <1>4, BoundAssumption DEF OnePoolAtATime, TypeOK, Generations, Take
  <1>5. ASSUME NEW r \in Renders, Finish(r)  PROVE OnePoolAtATime'
    BY <1>5, BoundAssumption DEF OnePoolAtATime, TypeOK, Generations, Finish
  <1>6. ASSUME NEW g \in Generations, Die(g)  PROVE OnePoolAtATime'
    <2>1. g = current
      BY <1>6 DEF Die, OnePoolAtATime, TypeOK, Generations
    <2>2. {j \in Generations : pool[j] \in {"dying", "broken"}} = 1..(current - 1)
      <3>1. current \in 1..(MaxDeaths + 1) /\ pool[current] = "ok"
        BY <1>6, <2>1 DEF Die, TypeOK, Generations
      <3>2. \A j \in Generations : pool[j] \in {"dying", "broken"} <=> j < current
        BY <3>1, BoundAssumption DEF OnePoolAtATime, Generations
      <3> QED
        BY <3>1, <3>2, BoundAssumption DEF Generations
    <2>3. Deaths = current - 1
      <3>1. current - 1 \in Nat
        BY BoundAssumption DEF TypeOK, Generations
      <3>2. Cardinality(1..(current - 1)) = current - 1
        BY <3>1, FS_Interval
      <3> QED
        BY <2>2, <3>2 DEF Deaths
    <2> QED
      BY <1>6, <2>1, <2>3, BoundAssumption
         DEF OnePoolAtATime, TypeOK, Generations, Die
  <1>7. ASSUME NEW g \in Generations, Notice(g)  PROVE OnePoolAtATime'
    BY <1>7, BoundAssumption DEF OnePoolAtATime, TypeOK, Generations, Notice
  <1>8. CASE Sigterm
    BY <1>8, BoundAssumption DEF OnePoolAtATime, TypeOK, Generations, Sigterm
  <1>9. CASE DrainDone
    BY <1>9, BoundAssumption DEF OnePoolAtATime, TypeOK, Generations, DrainDone
  <1>10. CASE DrainTimeout
    BY <1>10, BoundAssumption
       DEF OnePoolAtATime, TypeOK, Generations, DrainTimeout
  <1>11. CASE Exit
    BY <1>11, BoundAssumption DEF OnePoolAtATime, TypeOK, Generations, Exit
  <1>12. CASE UNCHANGED vars
    BY <1>12, BoundAssumption DEF OnePoolAtATime, TypeOK, Generations, vars
  <1> QED
    BY <1>1, <1>2, <1>3, <1>4, <1>5, <1>6, <1>7, <1>8, <1>9, <1>10, <1>11,
       <1>12 DEF Next, Step

(* A job breaks only with its pool.                                            *)
LEMMA BrokenInv ==
    ASSUME IndInv, [Next]_vars
    PROVE  BrokenWithItsPool'
PROOF
  <1> USE DEF IndInv
  <1>1. ASSUME NEW r \in Renders, Run(r)  PROVE BrokenWithItsPool'
    BY <1>1, UsablePool
       DEF BrokenWithItsPool, TypeOK, JobsHaveHome, Run, Submit
  <1>2. ASSUME NEW r \in Renders, Resume(r)  PROVE BrokenWithItsPool'
    BY <1>2, UsablePool
       DEF BrokenWithItsPool, TypeOK, JobsHaveHome, Resume, Submit
  <1>3. ASSUME NEW r \in Renders, Return(r)  PROVE BrokenWithItsPool'
    BY <1>3 DEF BrokenWithItsPool, TypeOK, JobsHaveHome, Return
  <1>4. ASSUME NEW r \in Renders, Take(r)  PROVE BrokenWithItsPool'
    BY <1>4 DEF BrokenWithItsPool, TypeOK, JobsHaveHome, Take
  <1>5. ASSUME NEW r \in Renders, Finish(r)  PROVE BrokenWithItsPool'
    BY <1>5 DEF BrokenWithItsPool, TypeOK, JobsHaveHome, Finish
  <1>6. ASSUME NEW g \in Generations, Die(g)  PROVE BrokenWithItsPool'
    BY <1>6 DEF BrokenWithItsPool, TypeOK, JobsHaveHome, Die, Jobs
  <1>7. ASSUME NEW g \in Generations, Notice(g)  PROVE BrokenWithItsPool'
    BY <1>7 DEF BrokenWithItsPool, TypeOK, JobsHaveHome, Notice, Jobs, InPool
  <1>8. CASE Sigterm
    BY <1>8 DEF BrokenWithItsPool, TypeOK, JobsHaveHome, Sigterm
  <1>9. CASE DrainDone
    BY <1>9 DEF BrokenWithItsPool, TypeOK, JobsHaveHome, DrainDone
  <1>10. CASE DrainTimeout
    BY <1>10 DEF BrokenWithItsPool, TypeOK, JobsHaveHome, DrainTimeout
  <1>11. CASE Exit
    BY <1>11 DEF BrokenWithItsPool, TypeOK, JobsHaveHome, Exit
  <1>12. CASE UNCHANGED vars
    BY <1>12 DEF BrokenWithItsPool, TypeOK, JobsHaveHome, vars
  <1> QED
    BY <1>1, <1>2, <1>3, <1>4, <1>5, <1>6, <1>7, <1>8, <1>9, <1>10, <1>11,
       <1>12 DEF Next, Step

(* A broken pool is left by all its jobs, and gets no other.                   *)
LEMMA GoneInv ==
    ASSUME IndInv, [Next]_vars
    PROVE  NoJobInBrokenPool'
PROOF
  <1> USE DEF IndInv
  <1>1. ASSUME NEW r \in Renders, Run(r)  PROVE NoJobInBrokenPool'
    BY <1>1, UsablePool
       DEF NoJobInBrokenPool, Jobs, TypeOK, JobsHaveHome, InPool, Run, Submit
  <1>2. ASSUME NEW r \in Renders, Resume(r)  PROVE NoJobInBrokenPool'
    BY <1>2, UsablePool DEF NoJobInBrokenPool, Jobs, TypeOK, JobsHaveHome,
           InPool, Resume, Submit
  <1>3. ASSUME NEW r \in Renders, Return(r)  PROVE NoJobInBrokenPool'
    BY <1>3 DEF NoJobInBrokenPool, Jobs, TypeOK, JobsHaveHome, InPool, Return
  <1>4. ASSUME NEW r \in Renders, Take(r)  PROVE NoJobInBrokenPool'
    BY <1>4 DEF NoJobInBrokenPool, Jobs, TypeOK, JobsHaveHome, InPool, Take
  <1>5. ASSUME NEW r \in Renders, Finish(r)  PROVE NoJobInBrokenPool'
    BY <1>5 DEF NoJobInBrokenPool, Jobs, TypeOK, JobsHaveHome, InPool, Finish
  <1>6. ASSUME NEW g \in Generations, Die(g)  PROVE NoJobInBrokenPool'
    BY <1>6 DEF NoJobInBrokenPool, Jobs, TypeOK, JobsHaveHome, InPool, Die
  <1>7. ASSUME NEW g \in Generations, Notice(g)  PROVE NoJobInBrokenPool'
    BY <1>7 DEF NoJobInBrokenPool, Jobs, TypeOK, JobsHaveHome, InPool, Notice
  <1>8. CASE Sigterm
    BY <1>8 DEF NoJobInBrokenPool, Jobs, TypeOK, JobsHaveHome, InPool, Sigterm
  <1>9. CASE DrainDone
    BY <1>9
       DEF NoJobInBrokenPool, Jobs, TypeOK, JobsHaveHome, InPool, DrainDone
  <1>10. CASE DrainTimeout
    BY <1>10
       DEF NoJobInBrokenPool, Jobs, TypeOK, JobsHaveHome, InPool, DrainTimeout
  <1>11. CASE Exit
    BY <1>11 DEF NoJobInBrokenPool, Jobs, TypeOK, JobsHaveHome, InPool, Exit
  <1>12. CASE UNCHANGED vars
    BY <1>12 DEF NoJobInBrokenPool, Jobs, TypeOK, JobsHaveHome, InPool, vars
  <1> QED
    BY <1>1, <1>2, <1>3, <1>4, <1>5, <1>6, <1>7, <1>8, <1>9, <1>10, <1>11,
       <1>12 DEF Next, Step

(* While renders are taken every job is an admitted render's; later no job is  *)
(* added.                                                                      *)
LEMMA FitInv ==
    ASSUME IndInv, [Next]_vars
    PROVE  JobsFit'
  <1>1. TypeOK' /\ PermitsBalance' /\ JobsHaveTask'
    BY TypeInv, PermitsInv, TaskInv
  <1> SUFFICES ASSUME NEW g \in Generations
               PROVE  Cardinality(Jobs(g, InPool)') <= size'
    BY DEF JobsFit
  <1>2. size' = size /\ size \in Nat
    BY DEF IndInv, TypeOK, Next, Step, Run, Resume, Return, Take, Finish, Die,
           Notice,
           Sigterm, DrainDone, DrainTimeout, Exit, vars
  <1>3. CASE Open'
    <2>1. Jobs(g, InPool)' \subseteq Admitted'
      BY <1>1, <1>3 DEF JobsHaveTask, Jobs, Admitted
    <2>2. Cardinality(Jobs(g, InPool)') <= Cardinality(Admitted')
      BY <2>1, RendersCounted DEF Jobs, Admitted
    <2>3. permits' + Cardinality(Admitted') = size' /\ permits' \in Nat
      BY <1>1, <1>3 DEF PermitsBalance, Admitted, Open, TypeOK
    <2> QED
      BY <1>2, <2>2, <2>3, RendersCounted DEF Jobs, Admitted
  <1>4. CASE ~Open'
    <2>1. \A r \in Renders : ~Run(r) /\ ~Resume(r)
      BY <1>4 DEF IndInv, Closed, Active, Open, Run, Resume
    <2>2. home' = home
      BY <2>1 DEF Next, Step, Return, Take, Finish, Die, Notice, Sigterm,
             DrainDone, DrainTimeout, Exit, vars
    <2>3. \A r \in Renders : fut'[r] \in InPool => fut[r] \in InPool
      <3> SUFFICES ASSUME NEW r \in Renders
                   PROVE  fut'[r] \in InPool => fut[r] \in InPool
        OBVIOUS
      <3>1. DOMAIN fut = Renders
        BY DEF IndInv, TypeOK
      <3>2. ASSUME NEW q \in Renders, Step(q)
            PROVE  fut'[r] \in InPool => fut[r] \in InPool
        BY <2>1, <3>1, <3>2 DEF InPool, Step, Return, Take, Finish
      <3>3. ASSUME NEW h \in Generations, Die(h) \/ Notice(h)
            PROVE  fut'[r] \in InPool => fut[r] \in InPool
        BY <3>1, <3>3 DEF InPool, Jobs, Die, Notice
      <3>4. CASE Sigterm \/ DrainDone \/ DrainTimeout \/ Exit \/ UNCHANGED vars
        BY <3>1, <3>4 DEF InPool, Sigterm, DrainDone, DrainTimeout, Exit, vars
      <3> QED
        BY <2>1, <3>2, <3>3, <3>4 DEF Next
    <2>4. Jobs(g, InPool)' \subseteq Jobs(g, InPool)
      BY <2>2, <2>3 DEF Jobs
    <2>5. Cardinality(Jobs(g, InPool)') <= Cardinality(Jobs(g, InPool))
      BY <2>4, RendersCounted DEF Jobs
    <2>6. Cardinality(Jobs(g, InPool)) <= size
      BY DEF IndInv, JobsFit
    <2> QED
      BY <1>2, <2>5, <2>6, RendersCounted DEF Jobs
  <1> QED
    BY <1>3, <1>4

(* A pool that breaks fails the jobs it has, and none before or after.         *)
LEMMA CasualtiesInv ==
    ASSUME IndInv, [Next]_vars
    PROVE  CasualtiesFit'
  <1> SUFFICES ASSUME NEW g \in Generations
               PROVE  Cardinality(Jobs(g, {"broken"})') <= size'
    BY DEF CasualtiesFit
  <1>1. size' = size /\ size \in Nat
    BY DEF IndInv, TypeOK, Next, Step, Run, Resume, Return, Take, Finish, Die,
           Notice,
           Sigterm, DrainDone, DrainTimeout, Exit, vars
  <1>2. Cardinality(Jobs(g, {"broken"})) <= size /\ Cardinality(Jobs(g, InPool)) <= size
    BY DEF IndInv, JobsFit, CasualtiesFit
  <1>3. \/ Jobs(g, {"broken"})' \subseteq Jobs(g, {"broken"})
        \/ Jobs(g, {"broken"})' \subseteq Jobs(g, InPool)
    <2>1. CASE Notice(g)
      <3>1. Jobs(g, {"broken"}) = {}
        BY <2>1 DEF Notice, IndInv, BrokenWithItsPool, Jobs
      <3> QED
        BY <2>1, <3>1 DEF Notice, Jobs
    <2>2. CASE ~Notice(g)
      <3> USE DEF IndInv, TypeOK
      <3> SUFFICES ASSUME NEW q \in Renders, fut'[q] = "broken", home'[q] = g
                   PROVE  fut[q] = "broken" /\ home[q] = g
        BY DEF Jobs
      <3>1. ASSUME NEW r \in Renders, Run(r) \/ Resume(r)
            PROVE  fut[q] = "broken" /\ home[q] = g
        BY <3>1 DEF Run, Resume, Submit
      <3>2. ASSUME NEW r \in Renders, Return(r) \/ Take(r) \/ Finish(r)
            PROVE  fut[q] = "broken" /\ home[q] = g
        BY <3>2 DEF Return, Take, Finish
      <3>3. ASSUME NEW j \in Generations, Die(j) \/ Notice(j)
            PROVE  fut[q] = "broken" /\ home[q] = g
        BY <2>2, <3>3 DEF Die, Notice, Jobs
      <3>4. CASE Sigterm \/ DrainDone \/ DrainTimeout \/ Exit \/ UNCHANGED vars
        BY <3>4 DEF Sigterm, DrainDone, DrainTimeout, Exit, vars
      <3> QED
        BY <3>1, <3>2, <3>3, <3>4 DEF Next, Step
    <2> QED
      BY <2>1, <2>2
  <1>4. \/ Cardinality(Jobs(g, {"broken"})') <= Cardinality(Jobs(g, {"broken"}))
        \/ Cardinality(Jobs(g, {"broken"})') <= Cardinality(Jobs(g, InPool))
    BY <1>3, RendersCounted DEF Jobs
  <1> QED
    BY <1>1, <1>2, <1>4, RendersCounted DEF Jobs

(* So each step keeps the invariant.                                           *)
LEMMA NextInv == IndInv /\ [Next]_vars => IndInv'
  <1> SUFFICES ASSUME IndInv, [Next]_vars PROVE IndInv'
    OBVIOUS
  <1> QED
    BY TypeInv, ClosedInv, QueueInv, PermitsInv, TaskInv, HomeInv, PoolInv,
       BrokenInv, GoneInv, FitInv, CasualtiesInv DEF IndInv

(* It holds throughout.                                                        *)
LEMMA Invariance == Spec => []IndInv
  BY InitInv, NextInv, PTL DEF Spec

-------------------------------------------------------------------------------
(* Every variable keeps its type; the pool has a process whatever the host     *)
(* says of its CPUs, and a generation is left for each death.                  *)
THEOREM TypeCorrect == Spec => []TypeOK
  BY Invariance, PTL DEF IndInv

(* run() returns the permit it took on every path, and only that one.          *)
THEOREM PermitsAreBalanced == Spec => []PermitsBalance
  BY Invariance, PTL DEF IndInv

(* A render that run() admitted has a process of its own in whichever pool it  *)
(* was submitted to, through rebuilds and until the drain ends.                *)
THEOREM AdmittedRendersRun == Spec => []AdmittedHasProcess
  <1>1. IndInv => AdmittedHasProcess
    BY DEF IndInv, JobsFit, AdmittedHasProcess
  <1> QED
    BY <1>1, Invariance, PTL

(* One death fails at most as many renders as there are processes, all of them *)
(* submitted to the pool that broke, before the break was noticed.             *)
THEOREM DeathIsContained == Spec => []BlastRadius
  <1>1. IndInv => BlastRadius
    BY DEF IndInv, NoJobInBrokenPool, CasualtiesFit, BlastRadius
  <1> QED
    BY <1>1, Invariance, PTL

(* A permit is never idle while a render waits for one.                        *)
THEOREM NoPermitIdles == Spec => [](waiters # <<>> => permits = 0)
  <1>1. IndInv => (waiters # <<>> => permits = 0)
    BY DEF IndInv, Queue
  <1> QED
    BY <1>1, Invariance, PTL
===============================================================================
