----------------------------- MODULE EngineProofs -----------------------------
(***************************************************************************)
(* Proofs about running blocks over a dataset, for every number of blocks,  *)
(* records, threads and records to a chunk, every set of rejected and of    *)
(* failing records, and every schedule; first about the call of              *)
(* runInParallel that a run makes, whoever makes it and whatever its tasks.  *)
(* PoolInv (module ThreadPool) and EngineInv (module Engine) are inductive;  *)
(* there is one lemma per action, or per group of actions that disturb the  *)
(* same parts of them, and what the pool contributes to an engine is cited. *)
(***************************************************************************)
EXTENDS Engine, DataInduction, FiniteSetTheorems

-----------------------------------------------------------------------------
(* One call of runInParallel.                                               *)

\* A thread in the loop is in a threaded call that has not ended.
LEMMA LoopIsThreaded ==
  ASSUME PoolInv, NEW t \in Threads, pc[t] \in {"check", "claim", "body"}
  PROVE  outcome = "none" /\ pc[Caller] \in ThreadedLabels
<1>1. outcome = "none"
  BY DEF PoolInv, QuietAfterReturn, ProgramsInv, Threads, Caller
<1>2. CASE t = Caller
  BY <1>1, <1>2 DEF ThreadedLabels
<1>3. CASE t # Caller
  <2>1. spawned # 0
    BY <1>3 DEF PoolInv, TypeOK, ProgramsInv, Threads, Caller
  <2>2. pc[Caller] \in Labels /\ pc[Caller] # "done" /\ Caller \in Threads
    BY <1>1, PoolAssumption DEF PoolInv, TypeOK, ProgramsInv, Threads, Caller
  <2>. QED
    BY <1>1, <2>1, <2>2 DEF PoolInv, ProgramsInv, InlineInv, InlineLabels, ThreadedLabels, Labels
<1>. QED
  BY <1>2, <1>3

\* A step that neither ends the call nor happens after its end leaves what is
\* said of its end alone.
LEMMA NotEnding ==
  ASSUME outcome' = "none"
  PROVE  LowestErrorSurfaces' /\ CompletedMeansAllRan' /\ QuietAfterReturn'
BY DEF LowestErrorSurfaces, CompletedMeansAllRan, QuietAfterReturn

-----------------------------------------------------------------------------
(* The calling thread before it spawns, and the inline loop.                *)

\* Init.
LEMMA InitPoolInv == Init => PoolInv
<1>. SUFFICES ASSUME Init PROVE PoolInv
  OBVIOUS
<1>. USE PoolAssumption DEF Init, PoolInit, Threads, Caller
<1>1. TypeOK
  <2>1. pc \in [Threads -> Labels] /\ workers \in 1 .. MaxThreads
    BY DEF Labels
  <2>2. task \in [Threads -> Nat] /\ late \in [Threads -> Nat] /\ spawned \in 0 .. MaxThreads - 1
    OBVIOUS
  <2>3. hostPoll \in BOOLEAN /\ outcome \in Outcomes
    BY DEF Outcomes
  <2>. QED
    BY <2>1, <2>2, <2>3 DEF TypeOK
<1>2. ProgramsInv /\ StopInv
  BY DEF ProgramsInv, StopInv
<1>3. InlineInv
  BY DEF InlineInv, InlineLabels
<1>4. ClaimsInv
  BY DEF ClaimsInv, ThreadedLabels
<1>5. LowestErrorSurfaces /\ CompletedMeansAllRan /\ QuietAfterReturn
  BY DEF LowestErrorSurfaces, CompletedMeansAllRan, QuietAfterReturn
<1>. QED
  BY <1>1, <1>2, <1>3, <1>4, <1>5 DEF PoolInv

\* A body of the inline loop returns: the next task is the one after it.
LEMMA InlineReturnsKeepsPoolInv ==
  ASSUME PoolInv, InlineReturns
  PROVE  PoolInv'
<1>. USE DEF InlineReturns, Goto
<1>1. /\ Caller \in Threads
      /\ task[Caller] \in Tasks \ faulty
      /\ done = 0 .. task[Caller] - 1
      /\ pc'[Caller] = "inlinePoll"
      /\ \A t \in Threads \ {Caller} : pc'[t] = pc[t] /\ task'[t] = task[t]
      /\ task'[Caller] = task[Caller] + 1
  BY PoolAssumption
     DEF PoolInv, TypeOK, InlineInv, InlineLabels, Tasks, Threads, Caller
<1>2. done' = 0 .. task'[Caller] - 1
  BY <1>1 DEF Tasks
<1>3. TypeOK'
  <2>1. task' \in [Threads -> Nat] /\ pc' \in [Threads -> Labels]
    BY <1>1 DEF PoolInv, TypeOK, Labels, Tasks
  <2>2. done' \subseteq Nat
    BY <1>1 DEF PoolInv, TypeOK, Tasks
  <2>. QED
    BY <2>1, <2>2 DEF PoolInv, TypeOK, Tasks, inputs, shared, result
<1>4. ProgramsInv' /\ StopInv'
  BY <1>1 DEF PoolInv, TypeOK, ProgramsInv, InlineInv, InlineLabels, StopInv, inputs, shared, result
<1>5. InlineInv'
  BY <1>1, <1>2 DEF PoolInv, TypeOK, InlineInv, InlineLabels, Tasks, inputs, shared
<1>6. ClaimsInv'
  BY <1>1 DEF PoolInv, TypeOK, ProgramsInv, InlineInv, InlineLabels, ClaimsInv, ThreadedLabels,
              Tasks, inputs, shared
<1>7. outcome' = "none"
  BY DEF PoolInv, ProgramsInv, result
<1>. QED
  BY <1>3, <1>4, <1>5, <1>6, <1>7, NotEnding DEF PoolInv

\* The entry and the inline loop: everything shared is as it was.
LEMMA InlineKeepsPoolInv ==
  ASSUME PoolInv,
         \/ EnterEmpty \/ EnterInline \/ EnterThreaded
         \/ InlineEnd \/ InlinePollStops \/ InlineBegin
         \/ InlineReturns \/ InlineThrows \/ InlineUnwind
  PROVE  PoolInv'
<1>. USE PoolAssumption DEF PoolInv, TypeOK, Labels, Outcomes, ProgramsInv, InlineInv,
       InlineLabels, ClaimsInv, ThreadedLabels, StopInv, LowestErrorSurfaces,
       CompletedMeansAllRan, QuietAfterReturn, Tasks, Threads, Caller,
       Goto, EndCall, inputs, shared, result, history
<1>1. CASE EnterEmpty
  BY <1>1 DEF EnterEmpty
<1>2. CASE EnterInline
  BY <1>2 DEF EnterInline
<1>3. CASE EnterThreaded
  <2>1. TypeOK' /\ ProgramsInv' /\ InlineInv' /\ StopInv'
    BY <1>3 DEF EnterThreaded
  <2>2. done = {} /\ nextTask = 0 /\ failures = {} /\ \A t \in Threads : pc'[t] # "body"
    BY <1>3 DEF EnterThreaded
  <2>3. ClaimsInv'
    BY <1>3, <2>2 DEF EnterThreaded
  <2>. QED
    BY <1>3, <2>1, <2>3 DEF EnterThreaded
<1>4. CASE InlineEnd
  <2>1. done = Tasks /\ faulty = {}
    BY <1>4 DEF InlineEnd
  <2>2. TypeOK' /\ ProgramsInv' /\ InlineInv' /\ StopInv' /\ ClaimsInv'
    BY <1>4 DEF InlineEnd
  <2>. QED
    BY <1>4, <2>1, <2>2 DEF InlineEnd
<1>5. CASE InlinePollStops
  <2>1. TypeOK' /\ ProgramsInv' /\ InlineInv' /\ StopInv'
    BY <1>5 DEF InlinePollStops
  <2>2. ClaimsInv'
    BY <1>5 DEF InlinePollStops
  <2>. QED
    BY <1>5, <2>1, <2>2 DEF InlinePollStops
<1>6. CASE InlineBegin
  BY <1>6 DEF InlineBegin
<1>7. CASE InlineReturns
  BY <1>7, InlineReturnsKeepsPoolInv
<1>8. CASE InlineThrows
  BY <1>8 DEF InlineThrows
<1>9. CASE InlineUnwind
  <2>1. IsFirst(task[Caller], faulty)
    BY <1>9 DEF InlineUnwind, IsFirst
  <2>2. TypeOK' /\ ProgramsInv' /\ InlineInv' /\ StopInv' /\ ClaimsInv'
    BY <1>9 DEF InlineUnwind
  <2>. QED
    BY <1>9, <2>1, <2>2 DEF InlineUnwind
<1>. QED
  BY <1>1, <1>2, <1>3, <1>4, <1>5, <1>6, <1>7, <1>8, <1>9

-----------------------------------------------------------------------------
(* Spawning, polling and the loop: the call is threaded and has not ended.  *)

\* A worker is created: only its own program counter and the count change.
LEMMA SpawnWorkerKeepsPoolInv ==
  ASSUME PoolInv, SpawnWorker
  PROVE  PoolInv'
<1>. USE PoolAssumption DEF SpawnWorker, Threads, Caller
<1>1. /\ spawned + 1 \in Threads \ {Caller}
      /\ pc[spawned + 1] = "unborn"
      /\ \A t \in Threads \ {spawned + 1} : pc'[t] = pc[t]
      /\ pc'[spawned + 1] = "check"
      /\ pc' \in [Threads -> Labels]
  BY DEF PoolInv, TypeOK, ProgramsInv, Labels
<1>2. TypeOK'
  BY <1>1 DEF PoolInv, TypeOK, Tasks, inputs, result, history
<1>3. ProgramsInv'
  BY <1>1 DEF PoolInv, TypeOK, ProgramsInv, result
<1>4. InlineInv'
  BY <1>1 DEF PoolInv, TypeOK, InlineInv, InlineLabels, inputs, history
<1>5. ClaimsInv'
  BY <1>1 DEF PoolInv, TypeOK, ClaimsInv, ThreadedLabels, Tasks, inputs, history
<1>6. StopInv'
  <2>1. pc[Caller] = "spawn" /\ pc'[Caller] = "spawn"
    BY <1>1, PoolAssumption DEF SpawnWorker, Threads, Caller
  <2>2. UNCHANGED <<stop, completed, failures, escaping, nextTask, taskCount, late>>
    BY DEF SpawnWorker, inputs, history
  <2>3. \A t \in Threads : late'[t] <= 1 /\ (late'[t] = 1 => stop' /\ pc'[t] \notin {"claim", "poll"})
    BY <1>1, <2>2 DEF PoolInv, StopInv
  <2>. QED
    BY <2>1, <2>2, <2>3 DEF PoolInv, StopInv
<1>7. outcome' = "none"
  BY DEF PoolInv, ProgramsInv, result
<1>. QED
  BY <1>2, <1>3, <1>4, <1>5, <1>6, <1>7, NotEnding DEF PoolInv

\* The caller's other steps of a threaded call before it joins.
LEMMA CallerMovesKeepsPoolInv ==
  ASSUME PoolInv, SpawnFails \/ SpawnEnd \/ PollStops \/ PollContinues
  PROVE  PoolInv'
<1>. USE PoolAssumption DEF SpawnFails, SpawnEnd, PollStops, PollContinues, Goto, Threads, Caller
<1>1. /\ Caller \in Threads
      /\ pc[Caller] \in {"spawn", "poll"}
      /\ pc'[Caller] \in {"check", "claim", "join"}
      /\ \A t \in Threads \ {Caller} : pc'[t] = pc[t]
      /\ pc' \in [Threads -> Labels]
  BY DEF PoolInv, TypeOK, Labels
<1>2. UNCHANGED <<inputs, task, nextTask, spawned, failures, result, history>>
  BY DEF shared
<1>3. TypeOK'
  BY <1>1, <1>2 DEF PoolInv, TypeOK, Tasks, inputs, result, history, shared
<1>4. ProgramsInv'
  BY <1>1, <1>2 DEF PoolInv, TypeOK, ProgramsInv, result, shared
<1>5. InlineInv'
  BY <1>1, <1>2 DEF PoolInv, TypeOK, InlineInv, InlineLabels, inputs, history
<1>6. ClaimsInv'
  BY <1>1, <1>2 DEF PoolInv, TypeOK, ClaimsInv, ThreadedLabels, Tasks, inputs, history
<1>7. StopInv'
  BY <1>1, <1>2 DEF PoolInv, TypeOK, StopInv, ProgramsInv, inputs, history, shared
<1>8. outcome' = "none"
  BY <1>1, <1>2 DEF PoolInv, ProgramsInv, result
<1>. QED
  BY <1>3, <1>4, <1>5, <1>6, <1>7, <1>8, NotEnding DEF PoolInv

\* A thread tests the stop token, or finds nothing left to claim.
LEMMA TestingKeepsPoolInv ==
  ASSUME PoolInv, NEW t \in Threads, SeesStop(t) \/ SeesNoStop(t) \/ ClaimNothing(t)
  PROVE  PoolInv'
<1>. USE DEF SeesStop, SeesNoStop, ClaimNothing, Goto, Leave
<1>1. /\ pc[t] \in {"check", "claim"}
      /\ pc'[t] \in {"poll", "claim", "join", "exited"}
      /\ t = Caller => pc'[t] # "exited"
      /\ t # Caller => pc'[t] \in {"claim", "exited"}
      /\ \A u \in Threads \ {t} : pc'[u] = pc[u]
      /\ pc' \in [Threads -> Labels]
  BY DEF PoolInv, TypeOK, Labels
<1>2. /\ UNCHANGED <<inputs, task, stop, spawned, failures, escaping, completed, result, history>>
      /\ nextTask' \in Nat /\ nextTask' >= nextTask
  BY DEF shared, PoolInv, TypeOK
<1>3. outcome = "none" /\ pc[Caller] \in ThreadedLabels /\ Caller \in Threads
  BY <1>1, LoopIsThreaded, PoolAssumption DEF Threads, Caller
<1>4. TypeOK'
  BY <1>1, <1>2 DEF PoolInv, TypeOK, Tasks, inputs, result, history
<1>5. ProgramsInv'
  BY <1>1, <1>2, <1>3 DEF PoolInv, ProgramsInv, Threads, Caller, result
<1>6. InlineInv'
  BY <1>1, <1>2, <1>3 DEF PoolInv, TypeOK, InlineInv, InlineLabels, ThreadedLabels, inputs, history
<1>7. ClaimsInv'
  <2>1. \A i \in Tasks : i < nextTask' => i < nextTask \/ nextTask >= taskCount
    BY <1>2 DEF shared, Tasks, PoolInv, TypeOK
  <2>2. \A i \in Tasks : i < nextTask' => i < nextTask
    BY <1>2 DEF shared, Tasks, PoolInv, TypeOK
  <2>. QED
    BY <1>1, <1>2, <1>3, <2>2
       DEF PoolInv, TypeOK, ClaimsInv, ThreadedLabels, Tasks, inputs, history
<1>8. StopInv'
  BY <1>1, <1>2, <1>3 DEF PoolInv, TypeOK, StopInv, inputs, history, shared
<1>9. outcome' = "none"
  BY <1>2, <1>3 DEF result
<1>. QED
  BY <1>4, <1>5, <1>6, <1>7, <1>8, <1>9, NotEnding DEF PoolInv

\* A thread claims the next task: no other thread holds it and none ran it.
LEMMA ClaimTaskKeepsPoolInv ==
  ASSUME PoolInv, NEW t \in Threads, ClaimTask(t)
  PROVE  PoolInv'
<1>. USE DEF ClaimTask, Goto
<1>1. /\ pc[t] = "claim"
      /\ pc'[t] = "body"
      /\ \A u \in Threads \ {t} : pc'[u] = pc[u] /\ task'[u] = task[u] /\ late'[u] = late[u]
      /\ pc' \in [Threads -> Labels]
      /\ task'[t] = nextTask
      /\ task' \in [Threads -> Nat]
  BY DEF PoolInv, TypeOK, Labels
<1>2. /\ UNCHANGED <<inputs, stop, spawned, failures, escaping, completed, result, done>>
      /\ nextTask' = nextTask + 1
      /\ nextTask \in Tasks
  BY DEF PoolInv, TypeOK, Tasks
<1>3. outcome = "none" /\ pc[Caller] \in ThreadedLabels /\ Caller \in Threads
  BY <1>1, LoopIsThreaded, PoolAssumption DEF Threads, Caller
<1>4. /\ late[t] = 0
      /\ late' \in [Threads -> Nat]
      /\ late'[t] \in {0, 1}
      /\ late'[t] = 1 => stop
  BY <1>1 DEF PoolInv, TypeOK, StopInv
<1>5. TypeOK'
  BY <1>1, <1>2, <1>4 DEF PoolInv, TypeOK, Tasks, inputs, result
<1>6. ProgramsInv'
  BY <1>1, <1>2, <1>3 DEF PoolInv, ProgramsInv, Threads, Caller, result
<1>7. InlineInv'
  BY <1>1, <1>2, <1>3 DEF PoolInv, InlineInv, InlineLabels, ThreadedLabels, inputs
<1>8. ClaimsInv'
  <2>1. UNCHANGED <<done, failures, faulty, taskCount, Tasks>>
    BY <1>2 DEF inputs, Tasks
  <2>2. \A i \in done \union failures : i < nextTask /\ i \in Nat
    BY <1>3 DEF PoolInv, TypeOK, ClaimsInv, Tasks
  <2>3. \A u \in Threads : pc'[u] = "body" =>
          task'[u] \in Tasks /\ task'[u] < nextTask' /\ task'[u] \notin done \union failures
    <3>. SUFFICES ASSUME NEW u \in Threads, pc'[u] = "body"
                  PROVE  task'[u] \in Tasks /\ task'[u] < nextTask' /\ task'[u] \notin done \union failures
      OBVIOUS
    <3>1. CASE u = t
      BY <3>1, <1>1, <1>2, <2>2 DEF Tasks
    <3>2. CASE u # t
      BY <3>2, <1>1, <1>2 DEF PoolInv, TypeOK, ClaimsInv, Tasks
    <3>. QED
      BY <3>1, <3>2
  <2>4. \A u, v \in Threads : pc'[u] = "body" /\ pc'[v] = "body" /\ u # v => task'[u] # task'[v]
    <3>1. \A u \in Threads \ {t} : pc'[u] = "body" => task'[u] < nextTask
      BY <1>1 DEF PoolInv, ClaimsInv
    <3>2. \A u \in Threads \ {t} : pc'[u] = "body" => task'[u] # nextTask
      BY <3>1, <1>2 DEF Tasks
    <3>. QED
      BY <1>1, <3>2 DEF PoolInv, ClaimsInv
  <2>5. \A i \in Tasks : i < nextTask' =>
          \/ i \in done \union failures
          \/ \E u \in Threads : pc'[u] = "body" /\ task'[u] = i
    <3>. SUFFICES ASSUME NEW i \in Tasks, i < nextTask', i \notin done \union failures
                  PROVE  \E u \in Threads : pc'[u] = "body" /\ task'[u] = i
      OBVIOUS
    <3>1. CASE i = nextTask
      BY <3>1, <1>1
    <3>2. CASE i # nextTask
      <4>1. i < nextTask
        BY <3>2, <1>2 DEF Tasks
      <4>2. PICK u \in Threads : pc[u] = "body" /\ task[u] = i
        BY <4>1, <1>3 DEF PoolInv, ClaimsInv
      <4>. QED
        BY <4>2, <1>1
    <3>. QED
      BY <3>1, <3>2
  <2>6. \A i \in done \union failures : i < nextTask'
    BY <2>2, <1>2 DEF Tasks
  <2>7. done \subseteq Tasks \ faulty /\ failures \intersect done = {}
    BY DEF PoolInv, ClaimsInv
  <2>. QED
    BY <2>1, <2>3, <2>4, <2>5, <2>6, <2>7 DEF ClaimsInv
<1>9. StopInv'
  <2>1. pc'[Caller] = "join" => pc[Caller] = "join"
    BY <1>1, <1>3
  <2>2. UNCHANGED <<stop, failures, escaping, completed, taskCount>> /\ nextTask < taskCount
    BY <1>2 DEF inputs
  <2>3. pc'[Caller] = "join" /\ completed' /\ ~escaping' => failures' # {}
    BY <2>1, <2>2, <1>2 DEF PoolInv, TypeOK, StopInv, Tasks
  <2>4. \A u \in Threads : late'[u] <= 1 /\ (late'[u] = 1 => stop' /\ pc'[u] \notin {"claim", "poll"})
    BY <1>1, <1>4, <2>2 DEF PoolInv, StopInv
  <2>. QED
    BY <2>2, <2>3, <2>4 DEF PoolInv, StopInv
<1>10. outcome' = "none"
  BY <1>2, <1>3 DEF result
<1>. QED
  BY <1>5, <1>6, <1>7, <1>8, <1>9, <1>10, NotEnding DEF PoolInv

\* A body returns: its task moves from the thread to the done ones.
LEMMA BodyReturnsKeepsPoolInv ==
  ASSUME PoolInv, NEW t \in Threads, BodyReturns(t)
  PROVE  PoolInv'
<1>. USE DEF BodyReturns, Goto
<1>1. /\ pc[t] = "body"
      /\ pc'[t] = "check"
      /\ \A u \in Threads \ {t} : pc'[u] = pc[u]
      /\ pc' \in [Threads -> Labels]
  BY DEF PoolInv, TypeOK, Labels
<1>2. /\ UNCHANGED <<inputs, task, nextTask, stop, spawned, failures, escaping, completed, result, late, Tasks>>
      /\ done' = done \union {task[t]}
  BY DEF shared, inputs, Tasks
<1>3. outcome = "none" /\ pc[Caller] \in ThreadedLabels /\ Caller \in Threads
  BY <1>1, LoopIsThreaded, PoolAssumption DEF Threads, Caller
<1>4. /\ task[t] \in Tasks \ faulty
      /\ task[t] < nextTask
      /\ task[t] \notin failures
      /\ task[t] \in Nat
  BY <1>1 DEF PoolInv, ClaimsInv, Tasks
<1>5. TypeOK'
  BY <1>1, <1>2, <1>4 DEF PoolInv, TypeOK, inputs, result
<1>6. ProgramsInv'
  BY <1>1, <1>2, <1>3 DEF PoolInv, ProgramsInv, Threads, Caller, result
<1>7. InlineInv'
  BY <1>1, <1>2, <1>3 DEF PoolInv, InlineInv, InlineLabels, ThreadedLabels, inputs
<1>8. ClaimsInv'
  <2>1. \A u \in Threads : pc'[u] = "body" => pc[u] = "body" /\ u # t
    BY <1>1
  <2>2. \A u \in Threads : pc'[u] = "body" =>
          task[u] \in Tasks /\ task[u] < nextTask /\ task[u] \notin done' \union failures
    BY <2>1, <1>1, <1>2 DEF PoolInv, ClaimsInv
  <2>3. \A i \in Tasks : i < nextTask =>
          \/ i \in done' \union failures
          \/ \E u \in Threads : pc'[u] = "body" /\ task[u] = i
    <3>. SUFFICES ASSUME NEW i \in Tasks, i < nextTask, i \notin done' \union failures
                  PROVE  \E u \in Threads : pc'[u] = "body" /\ task[u] = i
      OBVIOUS
    <3>1. PICK u \in Threads : pc[u] = "body" /\ task[u] = i
      BY <1>2, <1>3 DEF PoolInv, ClaimsInv
    <3>. QED
      BY <3>1, <1>1, <1>2
  <2>4. \A i \in done' \union failures : i < nextTask
    BY <1>2, <1>3, <1>4 DEF PoolInv, ClaimsInv
  <2>5. done' \subseteq Tasks \ faulty /\ failures \intersect done' = {}
    BY <1>2, <1>4 DEF PoolInv, ClaimsInv
  <2>6. \A u, v \in Threads : pc'[u] = "body" /\ pc'[v] = "body" /\ u # v => task[u] # task[v]
    BY <2>1 DEF PoolInv, ClaimsInv
  <2>. QED
    BY <2>2, <2>3, <2>4, <2>5, <2>6, <1>2 DEF ClaimsInv, inputs
<1>9. StopInv'
  <2>1. pc'[Caller] = "join" => pc[Caller] = "join"
    BY <1>1, <1>3
  <2>. QED
    BY <2>1, <1>1, <1>2 DEF PoolInv, StopInv, inputs
<1>10. outcome' = "none"
  BY <1>2, <1>3 DEF result
<1>. QED
  BY <1>5, <1>6, <1>7, <1>8, <1>9, <1>10, NotEnding DEF PoolInv

\* A body throws: its failure is recorded, all are asked to stop and its
\* thread leaves the loop.
LEMMA BodyThrowsKeepsPoolInv ==
  ASSUME PoolInv, NEW t \in Threads, BodyThrows(t)
  PROVE  PoolInv'
<1>. USE DEF BodyThrows, Goto, Leave
<1>1. /\ pc[t] = "body"
      /\ pc'[t] = IF t = Caller THEN "join" ELSE "exited"
      /\ \A u \in Threads \ {t} : pc'[u] = pc[u]
      /\ pc' \in [Threads -> Labels]
  BY DEF PoolInv, TypeOK, Labels
<1>2. /\ UNCHANGED <<inputs, task, nextTask, spawned, escaping, completed, result, done, late, Tasks>>
      /\ failures' = failures \union {task[t]}
      /\ stop' = TRUE
  BY DEF inputs, Tasks, history
<1>3. outcome = "none" /\ pc[Caller] \in ThreadedLabels /\ Caller \in Threads
  BY <1>1, LoopIsThreaded, PoolAssumption DEF Threads, Caller
<1>4. /\ task[t] \in faulty
      /\ task[t] < nextTask
      /\ task[t] \notin done
  BY <1>1 DEF PoolInv, ClaimsInv
<1>5. TypeOK'
  BY <1>1, <1>2, <1>4 DEF PoolInv, TypeOK, inputs, result
<1>6. ProgramsInv'
  BY <1>1, <1>2, <1>3 DEF PoolInv, ProgramsInv, Threads, Caller, result
<1>7. InlineInv'
  BY <1>1, <1>2, <1>3 DEF PoolInv, InlineInv, InlineLabels, ThreadedLabels, inputs
<1>8. ClaimsInv'
  <2>1. \A u \in Threads : pc'[u] = "body" => pc[u] = "body" /\ u # t
    BY <1>1
  <2>2. \A u \in Threads : pc'[u] = "body" =>
          task[u] \in Tasks /\ task[u] < nextTask /\ task[u] \notin done \union failures'
    BY <2>1, <1>1, <1>2 DEF PoolInv, ClaimsInv
  <2>3. \A i \in Tasks : i < nextTask =>
          \/ i \in done \union failures'
          \/ \E u \in Threads : pc'[u] = "body" /\ task[u] = i
    <3>. SUFFICES ASSUME NEW i \in Tasks, i < nextTask, i \notin done \union failures'
                  PROVE  \E u \in Threads : pc'[u] = "body" /\ task[u] = i
      OBVIOUS
    <3>1. PICK u \in Threads : pc[u] = "body" /\ task[u] = i
      BY <1>2, <1>3 DEF PoolInv, ClaimsInv
    <3>. QED
      BY <3>1, <1>1, <1>2
  <2>4. \A i \in done \union failures' : i < nextTask
    BY <1>2, <1>3, <1>4 DEF PoolInv, ClaimsInv
  <2>5. done \subseteq Tasks \ faulty /\ failures' \intersect done = {}
    BY <1>2, <1>4 DEF PoolInv, ClaimsInv
  <2>6. \A u, v \in Threads : pc'[u] = "body" /\ pc'[v] = "body" /\ u # v => task[u] # task[v]
    BY <2>1 DEF PoolInv, ClaimsInv
  <2>. QED
    BY <2>2, <2>3, <2>4, <2>5, <2>6, <1>2 DEF ClaimsInv, inputs
<1>9. StopInv'
  <2>1. failures' # {}
    BY <1>2
  <2>2. \A u \in Threads : late'[u] <= 1 /\ (late'[u] = 1 => stop' /\ pc'[u] \notin {"claim", "poll"})
    BY <1>1, <1>2 DEF PoolInv, StopInv
  <2>. QED
    BY <2>1, <2>2, <1>2 DEF StopInv
<1>10. outcome' = "none"
  BY <1>2, <1>3 DEF result
<1>. QED
  BY <1>5, <1>6, <1>7, <1>8, <1>9, <1>10, NotEnding DEF PoolInv

-----------------------------------------------------------------------------
(* The end of a threaded call.                                              *)

\* Once every thread has left its loop each claimed task has an end, so the
\* first failure recorded is the first there can be, and without a failure,
\* a stop or a thread that could not be created all tasks are done.
LEMMA JoinedIsSettled ==
  ASSUME PoolInv, Joinable, ~escaping
  PROVE  /\ \A i \in failures : IsFirst(i, failures) => IsFirst(i, faulty)
         /\ completed /\ failures = {} => done = Tasks /\ faulty = {}
<1>1. pc[Caller] = "join" /\ Caller \in Threads /\ \A t \in Threads : pc[t] # "body"
  BY PoolAssumption DEF PoolInv, TypeOK, ProgramsInv, Joinable, Threads, Caller
<1>2. \A i \in Tasks : i < nextTask => i \in done \union failures
  BY <1>1 DEF PoolInv, ClaimsInv, ThreadedLabels
<1>3. /\ \A i \in done \union failures : i < nextTask
      /\ failures \subseteq faulty
      /\ faulty \subseteq Tasks
      /\ done \subseteq Tasks \ faulty
  BY <1>1 DEF PoolInv, TypeOK, ClaimsInv, ThreadedLabels
<1>4. ASSUME NEW i \in failures, IsFirst(i, failures)
      PROVE  IsFirst(i, faulty)
  <2>1. ASSUME NEW j \in faulty, j < i
        PROVE  FALSE
    <3>1. j \in Tasks /\ j < nextTask
      BY <2>1, <1>3 DEF Tasks, PoolInv, TypeOK
    <3>2. j \in failures
      BY <3>1, <1>2, <1>3
    <3>. QED
      BY <3>2, <2>1, <1>4, <1>3 DEF IsFirst, Tasks
  <2>. QED
    BY <2>1, <1>3 DEF IsFirst, Tasks
<1>5. ASSUME completed, failures = {}
      PROVE  done = Tasks /\ faulty = {}
  <2>1. nextTask >= taskCount
    BY <1>1, <1>5 DEF PoolInv, StopInv
  <2>2. \A i \in Tasks : i \in done
    BY <2>1, <1>2, <1>5 DEF PoolInv, TypeOK, Tasks
  <2>. QED
    BY <2>2, <1>3
<1>. QED
  BY <1>4, <1>5

\* The three ways the join ends the call.
LEMMA JoinKeepsPoolInv ==
  ASSUME PoolInv, JoinThenReturn \/ JoinThenRethrow \/ JoinThenPropagate
  PROVE  PoolInv'
<1>. USE DEF JoinThenReturn, JoinThenRethrow, JoinThenPropagate, Goto, EndCall
<1>1. /\ Caller \in Threads
      /\ pc[Caller] = "join"
      /\ pc'[Caller] = "done"
      /\ \A t \in Threads \ {Caller} : pc'[t] = pc[t] /\ pc[t] \in {"unborn", "exited"}
      /\ pc' \in [Threads -> Labels]
  BY PoolAssumption DEF PoolInv, TypeOK, Labels, ProgramsInv, Joinable, Threads, Caller
<1>2. UNCHANGED <<inputs, task, shared, history, Tasks>>
  BY DEF inputs, Tasks
<1>3. outcome' \in Outcomes \ {"none"} /\ error' \in Nat
  BY DEF Outcomes, PoolInv, TypeOK, Tasks
<1>4. TypeOK'
  BY <1>1, <1>2, <1>3 DEF PoolInv, TypeOK, inputs, shared, history
<1>5. ProgramsInv'
  BY <1>1, <1>2, <1>3 DEF PoolInv, ProgramsInv, shared
<1>6. InlineInv'
  BY <1>1 DEF InlineInv, InlineLabels
<1>7. ClaimsInv'
  BY <1>1, <1>2 DEF PoolInv, ClaimsInv, ThreadedLabels, inputs, shared, history
<1>8. StopInv'
  BY <1>1, <1>2 DEF PoolInv, StopInv, shared, history
<1>9. LowestErrorSurfaces'
  BY <1>2, JoinedIsSettled DEF LowestErrorSurfaces, IsFirst, inputs
<1>10. CompletedMeansAllRan'
  BY <1>2, JoinedIsSettled DEF CompletedMeansAllRan, inputs, shared, history
<1>11. QuietAfterReturn'
  BY <1>1 DEF QuietAfterReturn
<1>. QED
  BY <1>4, <1>5, <1>6, <1>7, <1>8, <1>9, <1>10, <1>11 DEF PoolInv

-----------------------------------------------------------------------------
(* The invariant, and what follows from it.                                 *)

\* Every step of the pool, or none, keeps the invariant.
LEMMA NextKeepsPoolInv == PoolInv /\ [Next]_vars => PoolInv'
<1>. SUFFICES ASSUME PoolInv, [Next]_vars PROVE PoolInv'
  OBVIOUS
<1>1. CASE UNCHANGED vars
  BY <1>1 DEF vars, inputs, shared, result, history, PoolInv, TypeOK, Tasks, ProgramsInv,
              InlineInv, ClaimsInv, StopInv, LowestErrorSurfaces, CompletedMeansAllRan,
              QuietAfterReturn, IsFirst
<1>2. ASSUME NEW t \in Threads, t = Caller, CallerControl
      PROVE  PoolInv'
  BY <1>2, InlineKeepsPoolInv, SpawnWorkerKeepsPoolInv, CallerMovesKeepsPoolInv, JoinKeepsPoolInv
     DEF CallerControl
<1>3. ASSUME NEW t \in Threads, LoopControl(t)
      PROVE  PoolInv'
  BY <1>3, TestingKeepsPoolInv, ClaimTaskKeepsPoolInv DEF LoopControl
<1>4. ASSUME NEW t \in Threads, Returns(t) \/ Throws(t)
      PROVE  PoolInv'
  BY <1>4, BodyReturnsKeepsPoolInv, BodyThrowsKeepsPoolInv, InlineKeepsPoolInv DEF Returns, Throws
<1>. QED
  BY <1>1, <1>2, <1>3, <1>4 DEF Next, Step, Done

\* The invariant of the pool, for every number of tasks and threads.
THEOREM PoolInvariant == Spec => []PoolInv
BY InitPoolInv, NextKeepsPoolInv, PTL DEF Spec

\* The state of a call is well typed; in particular only a task whose body
\* throws ever has its failure slot set.
THEOREM PoolTypes == Spec => []TypeOK
<1>1. PoolInv => TypeOK
  BY DEF PoolInv
<1>. QED
  BY <1>1, PoolInvariant, PTL

\* The error a call ends with is that of the lowest-numbered failing task of
\* all those it was given, whatever the thread count, the schedule and the
\* host's interrupts: a lower-numbered task was claimed earlier, and whoever
\* claimed it recorded its failure before the join.
THEOREM LowestErrorAlwaysSurfaces == Spec => []LowestErrorSurfaces
<1>1. PoolInv => LowestErrorSurfaces
  BY DEF PoolInv
<1>. QED
  BY <1>1, PoolInvariant, PTL

\* A call that reports completion ran every task and none of them failed, and
\* one that reports a stop dropped no failure.
THEOREM CompletionIsTrue == Spec => []CompletedMeansAllRan
<1>1. PoolInv => CompletedMeansAllRan
  BY DEF PoolInv
<1>. QED
  BY <1>1, PoolInvariant, PTL

\* No thread of the call outlives it.
THEOREM NoThreadOutlivesTheCall == Spec => []QuietAfterReturn
<1>1. PoolInv => QuietAfterReturn
  BY DEF PoolInv
<1>. QED
  BY <1>1, PoolInvariant, PTL

\* After a stop is requested a thread begins at most one more task.
THEOREM LatencyIsOneTask == Spec => []OneTaskLatency
<1>1. PoolInv => OneTaskLatency
  BY DEF PoolInv, StopInv, OneTaskLatency
<1>. QED
  BY <1>1, PoolInvariant, PTL

\* The invariant says that each task runs once: in the inline loop the caller
\* is alone, and its task is the one after those done.
LEMMA InvKeepsTasksOnce ==
  ASSUME PoolInv
  PROVE  EachTaskOnce
<1>1. ASSUME NEW t \in Threads, pc[t] = "inlineBody"
      PROVE  /\ t = Caller
             /\ \A u \in Threads : InBody(u) => u = Caller
             /\ task[t] \notin done \union failures
  <2>1. t = Caller
    BY <1>1 DEF PoolInv, ProgramsInv
  <2>2. \A u \in Threads \ {Caller} : pc[u] = "unborn"
    BY <1>1, <2>1
       DEF PoolInv, TypeOK, ProgramsInv, InlineInv, InlineLabels, Threads, Caller
  <2>3. done = 0 .. task[Caller] - 1 /\ failures = {}
    BY <1>1, <2>1 DEF PoolInv, InlineInv, InlineLabels
  <2>4. task[Caller] \notin done
    BY <2>1, <2>3 DEF PoolInv, TypeOK
  <2>. QED
    BY <2>1, <2>2, <2>3, <2>4 DEF InBody
<1>2. ASSUME NEW t \in Threads, pc[t] = "body"
      PROVE  task[t] \notin done \union failures
  BY <1>2 DEF PoolInv, ClaimsInv
<1>3. ASSUME NEW t \in Threads, NEW u \in Threads, InBody(t), InBody(u), t # u
      PROVE  task[t] # task[u]
  <2>1. pc[t] = "body" /\ pc[u] = "body"
    BY <1>1, <1>3 DEF InBody
  <2>. QED
    BY <1>3, <2>1 DEF PoolInv, ClaimsInv
<1>4. \A t \in Threads : InBody(t) => task[t] \notin done \union failures
  BY <1>1, <1>2 DEF InBody
<1>. QED
  BY <1>3, <1>4 DEF EachTaskOnce, Running

\* No two threads run the same task and no task is run again: a thread's task
\* is below the counter, above which nothing has been claimed.
THEOREM TasksRunOnce == Spec => []EachTaskOnce
BY InvKeepsTasksOnce, PoolInvariant, PTL

-----------------------------------------------------------------------------
(* The counter.                                                             *)

\* There are no more threads that have left than threads of the call.
LEMMA FewHaveLeft ==
  ASSUME PoolInv, spawned < workers
  PROVE  Cardinality(HasLeft) <= workers
<1>1. HasLeft \subseteq 0 .. spawned
  BY DEF PoolInv, TypeOK, ProgramsInv, HasLeft, Threads, Caller
<1>2. IsFiniteSet(0 .. spawned) /\ Cardinality(0 .. spawned) = spawned + 1
  BY FS_Interval DEF PoolInv, TypeOK
<1>3. Cardinality(HasLeft) <= spawned + 1 /\ Cardinality(HasLeft) \in Nat
  BY <1>1, <1>2, FS_Subset, FS_CardinalityType
<1>. QED
  BY <1>3 DEF PoolInv, TypeOK

\* A thread that has left stays away, so the set grows, and the thread that
\* finds nothing left joins it.
LEMMA LeftGrows ==
  ASSUME PoolInv, Next
  PROVE  /\ HasLeft \subseteq HasLeft'
         /\ \A t \in Threads : ClaimNothing(t) => t \in HasLeft' \ HasLeft
<1>. USE DEF HasLeft, Goto
<1>1. CASE Done
  BY <1>1 DEF Done, vars, ClaimNothing, PoolInv, TypeOK, Leave
<1>2. ASSUME NEW t \in Threads, Step(t)
      PROVE  \A u \in Threads : pc[u] \in {"join", "exited", "done"} =>
               pc'[u] \in {"join", "exited", "done"}
  <2>1. CASE t = Caller /\ CallerControl
    <3>1. CASE SpawnWorker
      BY <2>1, <3>1 DEF SpawnWorker, PoolInv, TypeOK, ProgramsInv, Threads, Caller
    <3>2. CASE ~SpawnWorker
      BY <2>1, <3>2
         DEF CallerControl, EnterEmpty, EnterInline, EnterThreaded, InlineEnd, InlinePollStops,
             InlineBegin, InlineUnwind, SpawnFails, SpawnEnd, PollStops, PollContinues,
             JoinThenReturn, JoinThenRethrow, JoinThenPropagate, PoolInv, TypeOK
    <3>. QED
      BY <3>1, <3>2
  <2>2. CASE LoopControl(t)
    BY <2>2 DEF LoopControl, SeesStop, SeesNoStop, ClaimTask, ClaimNothing, Leave, PoolInv, TypeOK
  <2>3. CASE Returns(t) \/ Throws(t)
    BY <2>3 DEF Returns, Throws, BodyReturns, InlineReturns, BodyThrows, InlineThrows, Leave,
                PoolInv, TypeOK
  <2>. QED
    BY <1>2, <2>1, <2>2, <2>3 DEF Step
<1>3. \A t \in Threads : ClaimNothing(t) => t \in HasLeft' \ HasLeft
  BY DEF ClaimNothing, Leave, PoolInv, TypeOK
<1>. QED
  BY <1>1, <1>2, <1>3 DEF Next

\* The part of the invariant about the counter.
LEMMA NextKeepsOvershootInv ==
  ASSUME PoolInv, OvershootInv, [Next]_vars
  PROVE  OvershootInv'
<1>1. CASE UNCHANGED vars
  BY <1>1 DEF vars, inputs, shared, OvershootInv, HasLeft
<1>2. CASE Next
  <2>1. IsFiniteSet(Threads)
    BY FS_Interval, PoolAssumption DEF Threads
  <2>2. /\ IsFiniteSet(HasLeft) /\ IsFiniteSet(HasLeft')
        /\ Cardinality(HasLeft) \in Nat /\ Cardinality(HasLeft') \in Nat
        /\ Cardinality(HasLeft) <= Cardinality(HasLeft')
    <3>1. HasLeft \subseteq Threads /\ HasLeft' \subseteq Threads /\ HasLeft \subseteq HasLeft'
      BY <1>2, LeftGrows DEF HasLeft
    <3>. QED
      BY <2>1, <3>1, FS_Subset, FS_CardinalityType
  <2>3. UNCHANGED taskCount /\ taskCount \in Nat /\ nextTask \in Nat
    BY <1>2
       DEF Next, Done, Step, CallerControl, LoopControl, Returns, Throws, EnterEmpty, EnterInline,
           EnterThreaded, InlineEnd, InlinePollStops, InlineBegin, InlineUnwind, SpawnWorker,
           SpawnFails, SpawnEnd, PollStops, PollContinues, JoinThenReturn, JoinThenRethrow,
           JoinThenPropagate, SeesStop, SeesNoStop, ClaimTask, ClaimNothing, BodyReturns,
           InlineReturns, BodyThrows, InlineThrows, EndCall, inputs, vars, PoolInv, TypeOK
  <2>4. spawned' < workers'
    BY <1>2
       DEF Next, Done, Step, CallerControl, LoopControl, Returns, Throws, EnterEmpty, EnterInline,
           EnterThreaded, InlineEnd, InlinePollStops, InlineBegin, InlineUnwind, SpawnWorker,
           SpawnFails, SpawnEnd, PollStops, PollContinues, JoinThenReturn, JoinThenRethrow,
           JoinThenPropagate, SeesStop, SeesNoStop, ClaimTask, ClaimNothing, BodyReturns,
           InlineReturns, BodyThrows, InlineThrows, EndCall, inputs, shared, vars, OvershootInv
  <2>5. CASE \E t \in Threads : ClaimNothing(t)
    <3>1. PICK t \in Threads : ClaimNothing(t)
      BY <2>5
    <3>2. HasLeft \union {t} \subseteq HasLeft' /\ t \notin HasLeft
      BY <1>2, <3>1, LeftGrows
    <3>3. Cardinality(HasLeft \union {t}) = Cardinality(HasLeft) + 1
      BY <2>2, <3>2, FS_AddElement
    <3>4. Cardinality(HasLeft) + 1 <= Cardinality(HasLeft')
      BY <2>2, <3>2, <3>3, FS_Subset
    <3>. QED
      BY <2>2, <2>3, <2>4, <3>1, <3>4 DEF ClaimNothing, OvershootInv
  <2>6. CASE \E t \in Threads : ClaimTask(t)
    BY <2>2, <2>3, <2>4, <2>6 DEF ClaimTask, OvershootInv
  <2>7. CASE UNCHANGED nextTask
    BY <2>2, <2>3, <2>4, <2>7 DEF OvershootInv
  <2>8. UNCHANGED nextTask \/ \E t \in Threads : ClaimNothing(t) \/ ClaimTask(t)
    BY <1>2
       DEF Next, Done, Step, CallerControl, LoopControl, Returns, Throws, EnterEmpty, EnterInline,
           EnterThreaded, InlineEnd, InlinePollStops, InlineBegin, InlineUnwind, SpawnWorker,
           SpawnFails, SpawnEnd, PollStops, PollContinues, JoinThenReturn, JoinThenRethrow,
           JoinThenPropagate, SeesStop, SeesNoStop, BodyReturns,
           InlineReturns, BodyThrows, InlineThrows, EndCall, shared, vars
  <2>. QED
    BY <2>5, <2>6, <2>7, <2>8
<1>. QED
  BY <1>1, <1>2

\* The shared counter ends at most one past the task count for each thread of
\* the call: a thread that overshoots leaves the loop and claims no more.
THEOREM CounterStaysClose == Spec => []CounterOvershootsByThreads
<1>1. Init => OvershootInv
  <2>. SUFFICES ASSUME Init PROVE OvershootInv
    OBVIOUS
  <2>1. HasLeft \subseteq {}
    BY DEF Init, PoolInit, HasLeft
  <2>2. Cardinality(HasLeft) = 0
    BY <2>1, FS_EmptySet
  <2>. QED
    BY <2>2, PoolAssumption DEF Init, PoolInit, OvershootInv
<1>2. PoolInv /\ OvershootInv /\ [Next]_vars => OvershootInv'
  BY NextKeepsOvershootInv
<1>3. PoolInv /\ OvershootInv => CounterOvershootsByThreads
  <2>. SUFFICES ASSUME PoolInv, OvershootInv PROVE CounterOvershootsByThreads
    OBVIOUS
  <2>1. Cardinality(HasLeft) <= workers /\ Cardinality(HasLeft) \in Nat
    <3>1. IsFiniteSet(Threads) /\ HasLeft \subseteq Threads
      BY FS_Interval, PoolAssumption DEF Threads, HasLeft
    <3>2. IsFiniteSet(HasLeft)
      BY <3>1, FS_Subset
    <3>. QED
      BY <3>2, FewHaveLeft, FS_CardinalityType DEF OvershootInv
  <2>. QED
    BY <2>1 DEF OvershootInv, CounterOvershootsByThreads, PoolInv, TypeOK
<1>. QED
  BY <1>1, <1>2, <1>3, PoolInvariant, PTL DEF Spec

-----------------------------------------------------------------------------
(* runInParallel implements the promise of ParallelRun: initial states map  *)
(* to initial states, and each step of the pool maps to one step of the     *)
(* promise or to none.  The invariant above supplies what the promise       *)
(* demands of a call that ends.                                             *)

(* The tasks being executed, across a step of one thread.                   *)

\* A thread begins a body.
LEMMA RunningGrows ==
  ASSUME NEW t \in Threads, ~InBody(t), InBody(t)',
         \A u \in Threads \ {t} : pc'[u] = pc[u] /\ task'[u] = task[u]
  PROVE  Running' = Running \union {task'[t]}
BY DEF Running, InBody

\* A thread ends a body no other thread executes.
LEMMA RunningShrinks ==
  ASSUME EachTaskOnce, NEW t \in Threads, InBody(t), ~InBody(t)',
         \A u \in Threads \ {t} : pc'[u] = pc[u] /\ task'[u] = task[u]
  PROVE  Running' = Running \ {task[t]}
BY DEF Running, InBody, EachTaskOnce

\* Nobody begins or ends a body.
LEMMA RunningIsTheSame ==
  ASSUME UNCHANGED task,
         \A u \in Threads : InBody(u)' <=> InBody(u)
  PROVE  Running' = Running
BY DEF Running, InBody

\* Only the caller, and not inside the inline loop's failure, has a state the
\* promise sees besides the failure slots.
LEMMA FailedIsFailures ==
  ASSUME pc[Caller] # "unwind", outcome # "threw"
  PROVE  Failed = failures
BY DEF Failed

-----------------------------------------------------------------------------
(* Steps of the promise, group by group.                                    *)

\* Init.
LEMMA InitRefines == Init => Promise!Init
<1>. SUFFICES ASSUME Init PROVE Promise!Init
  OBVIOUS
<1>1. Running = {}
  BY DEF Init, PoolInit, Running, InBody, Threads, Caller
<1>2. Failed = {}
  BY PoolAssumption DEF Init, PoolInit, Failed, Threads, Caller
<1>. QED
  BY <1>1, <1>2 DEF Init, PoolInit, Promise!Init, Tasks, Promise!Tasks

\* A step that leaves bodies, failures and the outcome alone is none.
LEMMA StutterRefines ==
  ASSUME UNCHANGED <<inputs, task, failures, completed, result, done>>,
         \A u \in Threads : InBody(u)' <=> InBody(u),
         pc[Caller] # "unwind", pc'[Caller] # "unwind"
  PROVE  UNCHANGED Promise!vars
<1>1. Running' = Running
  BY RunningIsTheSame
<1>2. Failed' = Failed
  BY DEF Failed, result
<1>. QED
  BY <1>1, <1>2 DEF Promise!vars, inputs, result

\* Steps of the caller that begin no body and end none.
LEMMA CallerRefines ==
  ASSUME PoolInv,
         \/ EnterInline \/ EnterThreaded \/ SpawnWorker \/ SpawnFails \/ SpawnEnd
         \/ PollContinues
  PROVE  UNCHANGED Promise!vars
<1>. USE DEF EnterInline, EnterThreaded, SpawnWorker, SpawnFails, SpawnEnd, PollContinues, Goto
<1>1. UNCHANGED <<inputs, task, failures, completed, result, done>>
  BY DEF inputs, shared, result, history
<1>2. PICK u \in Threads :
        /\ pc[u] \in {"enter", "spawn", "poll", "unborn"}
        /\ pc'[u] \in {"inlinePoll", "spawn", "join", "check", "claim"}
        /\ \A t \in Threads \ {u} : pc'[t] = pc[t]
  <2>1. CASE SpawnWorker
    <3>1. spawned + 1 \in Threads /\ pc[spawned + 1] = "unborn"
      BY <2>1, PoolAssumption DEF PoolInv, TypeOK, ProgramsInv, Threads, Caller
    <3>. QED
      BY <2>1, <3>1 DEF PoolInv, TypeOK
  <2>2. CASE ~SpawnWorker
    <3>1. Caller \in Threads
      BY PoolAssumption DEF Threads, Caller
    <3>. QED
      BY <2>2, <3>1 DEF PoolInv, TypeOK
  <2>. QED
    BY <2>1, <2>2
<1>3. \A t \in Threads : InBody(t)' <=> InBody(t)
  BY <1>2 DEF InBody
<1>4. pc[Caller] # "unwind" /\ pc'[Caller] # "unwind"
  BY <1>2, PoolAssumption DEF Threads, Caller
<1>. QED
  BY <1>1, <1>3, <1>4, StutterRefines

\* A thread tests the stop token, or finds nothing left to claim.
LEMMA TestingRefines ==
  ASSUME PoolInv, NEW t \in Threads, SeesStop(t) \/ SeesNoStop(t) \/ ClaimNothing(t)
  PROVE  UNCHANGED Promise!vars
<1>. USE DEF SeesStop, SeesNoStop, ClaimNothing, Goto, Leave
<1>1. UNCHANGED <<inputs, task, failures, completed, result, done>>
  BY DEF shared, history
<1>2. /\ pc[t] \in {"check", "claim"}
      /\ pc'[t] \in {"poll", "claim", "join", "exited"}
      /\ \A u \in Threads \ {t} : pc'[u] = pc[u]
  BY DEF PoolInv, TypeOK
<1>3. \A u \in Threads : InBody(u)' <=> InBody(u)
  BY <1>2 DEF InBody
<1>4. pc[Caller] # "unwind" /\ pc'[Caller] # "unwind"
  BY <1>2, LoopIsThreaded, PoolAssumption DEF ThreadedLabels, Threads, Caller
<1>. QED
  BY <1>1, <1>3, <1>4, StutterRefines

\* The host asks to stop.
LEMMA PollRefines ==
  ASSUME PoolInv, PollStops
  PROVE  Promise!HostAsks
<1>. USE DEF PollStops, Goto
<1>1. \A u \in Threads : InBody(u)' <=> InBody(u)
  BY DEF InBody, PoolInv, TypeOK
<1>2. Running' = Running
  BY <1>1, RunningIsTheSame
<1>3. pc'[Caller] = "join" /\ outcome = "none"
  BY PoolAssumption DEF PoolInv, TypeOK, ProgramsInv, Threads, Caller
<1>4. Failed' = Failed
  BY <1>3 DEF Failed, result
<1>. QED
  BY <1>2, <1>3, <1>4 DEF Promise!HostAsks, Promise!inputs, Promise!result, inputs, result, history

\* A thread that claims or runs a body: the caller is not unwinding, unless it
\* is the one to run a body.
LEMMA CallerNotUnwinding ==
  ASSUME PoolInv, NEW t \in Threads, pc[t] \in {"claim", "body", "inlinePoll", "inlineBody"},
         \A u \in Threads \ {t} : pc'[u] = pc[u]
  PROVE  /\ outcome = "none"
         /\ pc[Caller] # "unwind"
         /\ pc'[t] # "unwind" => pc'[Caller] # "unwind"
<1>1. Caller \in Threads
  BY PoolAssumption DEF Threads, Caller
<1>2. CASE pc[t] \in {"claim", "body"}
  BY <1>1, <1>2, LoopIsThreaded DEF ThreadedLabels
<1>3. CASE pc[t] \in {"inlinePoll", "inlineBody"}
  BY <1>1, <1>3 DEF PoolInv, ProgramsInv
<1>. QED
  BY <1>2, <1>3

\* The invariant says that each task runs once, after a step as before it.
LEMMA TasksStayOnce == PoolInv' => EachTaskOnce'
BY InvKeepsTasksOnce, PTL

\* A thread claims a task, or the inline loop goes on to one.
LEMMA BeginRefines ==
  ASSUME PoolInv, NEW t \in Threads, ClaimTask(t) \/ (t = Caller /\ InlineBegin)
  PROVE  \E i \in Tasks : Promise!Begin(i)
<1>1. /\ pc[t] \in {"claim", "inlinePoll"}
      /\ pc'[t] \in {"body", "inlineBody"}
      /\ \A u \in Threads \ {t} : pc'[u] = pc[u] /\ task'[u] = task[u]
      /\ task'[t] \in Tasks
      /\ UNCHANGED <<inputs, failures, completed, result, done>>
  <2>1. CASE ClaimTask(t)
    BY <2>1 DEF ClaimTask, Goto, PoolInv, TypeOK, Tasks
  <2>2. CASE t = Caller /\ InlineBegin
    BY <2>2 DEF InlineBegin, Goto, PoolInv, TypeOK, Tasks, shared, history
  <2>. QED
    BY <2>1, <2>2
<1>2. Running' = Running \union {task'[t]}
  BY <1>1, RunningGrows DEF InBody
<1>3. EachTaskOnce' /\ InBody(t)'
  <2>1. PoolInv'
    BY ClaimTaskKeepsPoolInv, InlineKeepsPoolInv
  <2>2. EachTaskOnce'
    BY <2>1, TasksStayOnce
  <2>. QED
    BY <1>1, <2>2 DEF InBody
<1>4. task'[t] \notin Running
  BY <1>1, <1>3 DEF EachTaskOnce, InBody, Running
<1>5. task'[t] \notin done \union failures
  BY <1>1, <1>2, <1>3 DEF EachTaskOnce
<1>6. outcome = "none" /\ pc[Caller] # "unwind" /\ pc'[Caller] # "unwind"
  BY <1>1, CallerNotUnwinding
<1>7. Failed = failures /\ Failed' = failures
  BY <1>1, <1>6 DEF Failed, result
<1>8. Promise!Begin(task'[t])
  BY <1>1, <1>2, <1>4, <1>5, <1>6, <1>7
     DEF Promise!Begin, Promise!Tasks, Tasks, Promise!inputs, Promise!result, inputs, result
<1>. QED
  BY <1>1, <1>8

\* A body returns.
LEMMA ReturnRefines ==
  ASSUME PoolInv, NEW t \in Threads, Returns(t)
  PROVE  \E i \in Tasks : Promise!Return(i)
<1>1. /\ pc[t] \in {"body", "inlineBody"}
      /\ pc'[t] \in {"check", "inlinePoll"}
      /\ \A u \in Threads \ {t} : pc'[u] = pc[u] /\ task'[u] = task[u]
      /\ task[t] \in Tasks \ faulty
      /\ done' = done \union {task[t]}
      /\ UNCHANGED <<inputs, failures, completed, result>>
  <2>1. CASE BodyReturns(t)
    BY <2>1 DEF BodyReturns, Goto, PoolInv, TypeOK, ClaimsInv, shared
  <2>2. CASE t = Caller /\ InlineReturns
    BY <2>2 DEF InlineReturns, Goto, PoolInv, TypeOK, InlineInv, Tasks, shared
  <2>. QED
    BY <2>1, <2>2 DEF Returns
<1>2. Running' = Running \ {task[t]}
  BY <1>1, RunningShrinks, InvKeepsTasksOnce DEF InBody
<1>3. task[t] \in Running
  BY <1>1 DEF Running, InBody
<1>4. outcome = "none" /\ pc[Caller] # "unwind" /\ pc'[Caller] # "unwind"
  BY <1>1, CallerNotUnwinding
<1>6. Failed' = Failed
  BY <1>1, <1>4 DEF Failed, result
<1>7. Promise!Return(task[t])
  BY <1>1, <1>2, <1>3, <1>6
     DEF Promise!Return, Promise!inputs, Promise!result, inputs, result
<1>. QED
  BY <1>1, <1>7

\* A body throws: into its failure slot, or out of the inline loop.
LEMMA ThrowRefines ==
  ASSUME PoolInv, NEW t \in Threads, Throws(t)
  PROVE  \E i \in Tasks : Promise!Throw(i)
<1>. USE DEF Throws, BodyThrows, InlineThrows, Goto, Leave
<1>1. /\ InBody(t) /\ ~InBody(t)'
      /\ \A u \in Threads \ {t} : pc'[u] = pc[u] /\ task'[u] = task[u]
      /\ task[t] \in Tasks \intersect faulty
      /\ UNCHANGED <<inputs, done, completed, result>>
  BY DEF PoolInv, TypeOK, ClaimsInv, InlineInv, InBody, Tasks, Threads, Caller, inputs, shared, result, history
<1>2. Running' = Running \ {task[t]}
  BY <1>1, RunningShrinks, InvKeepsTasksOnce
<1>3. task[t] \in Running
  BY <1>1 DEF Running
<1>4. outcome = "none"
  BY <1>1, LoopIsThreaded DEF InBody, PoolInv, ProgramsInv
<1>5. Failed' = Failed \union {task[t]}
  <2>1. CASE BodyThrows(t)
    <3>1. pc[Caller] # "unwind" /\ pc'[Caller] # "unwind"
      BY <2>1, <1>1, LoopIsThreaded DEF ThreadedLabels
    <3>2. Failed = failures /\ Failed' = failures'
      BY <3>1, <1>1, <1>4 DEF Failed, result
    <3>. QED
      BY <3>2, <2>1
  <2>2. CASE t = Caller /\ InlineThrows
    <3>1. /\ pc[Caller] = "inlineBody"
          /\ pc'[Caller] = "unwind"
          /\ UNCHANGED <<failures, task>>
      BY <2>2 DEF PoolInv, TypeOK, shared
    <3>2. Failed = failures /\ Failed' = failures \union {task[Caller]}
      BY <3>1, <1>1, <1>4 DEF Failed, result
    <3>. QED
      BY <3>2, <2>2
  <2>. QED
    BY <2>1, <2>2
<1>6. Promise!Throw(task[t])
  BY <1>1, <1>2, <1>3, <1>5
     DEF Promise!Throw, Promise!inputs, Promise!result, inputs, result
<1>. QED
  BY <1>1, <1>6

-----------------------------------------------------------------------------
(* The ends of a call.                                                      *)

\* What the promise asks of any end: nothing is running.
LEMMA EndIsQuiet ==
  ASSUME PoolInv, pc[Caller] \in {"enter", "inlinePoll", "unwind"} \/ Joinable
  PROVE  Promise!Quiet
<1>1. outcome = "none"
  BY DEF Joinable, PoolInv, ProgramsInv
<1>2. \A t \in Threads : ~InBody(t)
  <2>1. CASE Joinable
    BY <2>1 DEF Joinable, InBody, PoolInv, TypeOK, ProgramsInv, Threads, Caller
  <2>2. CASE pc[Caller] \in {"enter", "inlinePoll", "unwind"}
    BY <2>2, LoopIsThreaded DEF ThreadedLabels, InBody, PoolInv, ProgramsInv
  <2>. QED
    BY <2>1, <2>2
<1>. QED
  BY <1>1, <1>2 DEF Promise!Quiet, Running

\* The end of an empty call and of the inline loop, by completion, by the poll
\* or by the body that threw.
LEMMA InlineEndRefines ==
  ASSUME PoolInv, EnterEmpty \/ InlineEnd \/ InlinePollStops \/ InlineUnwind
  PROVE  Promise!Complete \/ Promise!Stop \/ \E i \in Tasks : Promise!Rethrow(i)
<1>. USE DEF EnterEmpty, InlineEnd, InlinePollStops, InlineUnwind, Goto, EndCall
<1>1. /\ Caller \in Threads
      /\ pc[Caller] \in {"enter", "inlinePoll", "unwind"}
      /\ pc'[Caller] = "done"
      /\ \A t \in Threads \ {Caller} : pc'[t] = pc[t]
      /\ UNCHANGED <<inputs, task, failures, done>>
  BY PoolAssumption DEF PoolInv, TypeOK, Threads, Caller, shared, history
<1>2. Promise!Quiet
  BY <1>1, EndIsQuiet
<1>3. Running' = Running
  <2>1. \A u \in Threads : InBody(u)' <=> InBody(u)
    BY <1>1 DEF InBody
  <2>. QED
    BY <1>1, <2>1, RunningIsTheSame
<1>4. failures = {} /\ completed /\ done = 0 .. task[Caller] - 1
  BY <1>1 DEF PoolInv, InlineInv, InlineLabels
<1>5. CASE EnterEmpty \/ InlineEnd
  <2>1. done = Tasks /\ pc[Caller] # "unwind"
    BY <1>1, <1>4, <1>5 DEF PoolInv, InlineInv, Tasks
  <2>2. UNCHANGED <<completed, error>> /\ outcome' = "completed"
    BY <1>5 DEF shared
  <2>3. Failed = {} /\ Failed' = {}
    BY <1>1, <1>2, <1>4, <2>1, <2>2 DEF Failed, Promise!Quiet
  <2>4. Promise!Complete
    BY <1>1, <1>2, <1>3, <1>4, <2>1, <2>2, <2>3
       DEF Promise!Complete, Promise!Tasks, Tasks, Promise!inputs, inputs
  <2>. QED
    BY <2>4
<1>6. CASE InlinePollStops
  <2>1. Failed = {} /\ Failed' = {}
    BY <1>1, <1>2, <1>4, <1>6 DEF Failed, Promise!Quiet
  <2>2. Promise!Stop
    BY <1>1, <1>2, <1>3, <1>6, <2>1 DEF Promise!Stop, Promise!inputs, inputs
  <2>. QED
    BY <2>2
<1>7. CASE InlineUnwind
  <2>1. UNCHANGED completed /\ outcome' = "threw" /\ error' = task[Caller]
    BY <1>7 DEF shared
  <2>2. Failed = {task[Caller]} /\ Failed' = {task[Caller]}
    BY <1>1, <1>2, <1>4, <1>7, <2>1 DEF Failed, Promise!Quiet
  <2>3. task[Caller] \in Tasks /\ \A j \in faulty : task[Caller] <= j
    BY <1>4, <1>7 DEF PoolInv, TypeOK, InlineInv, InlineLabels, ClaimsInv, Tasks
  <2>4. Promise!Rethrow(task[Caller])
    BY <1>1, <1>2, <1>3, <2>1, <2>2, <2>3 DEF Promise!Rethrow, Promise!inputs, inputs
  <2>. QED
    BY <2>3, <2>4
<1>. QED
  BY <1>5, <1>6, <1>7

\* The end of a threaded call.
LEMMA JoinRefines ==
  ASSUME PoolInv, JoinThenReturn \/ JoinThenRethrow \/ JoinThenPropagate
  PROVE  \/ Promise!Complete \/ Promise!Stop \/ Promise!NoThread
         \/ \E i \in Tasks : Promise!Rethrow(i)
<1>. USE DEF JoinThenReturn, JoinThenRethrow, JoinThenPropagate, Goto, EndCall
<1>1. /\ Caller \in Threads
      /\ Joinable
      /\ pc[Caller] = "join"
      /\ pc'[Caller] = "done"
      /\ \A t \in Threads \ {Caller} : pc'[t] = pc[t]
      /\ UNCHANGED <<inputs, task, failures, completed, done>>
  BY PoolAssumption DEF PoolInv, TypeOK, Threads, Caller, shared, history
<1>2. Promise!Quiet
  BY <1>1, EndIsQuiet
<1>3. Running' = Running
  <2>1. \A u \in Threads : InBody(u)' <=> InBody(u)
    BY <1>1 DEF InBody
  <2>. QED
    BY <1>1, <2>1, RunningIsTheSame
<1>4. Failed = failures
  BY <1>1, <1>2 DEF Failed, Promise!Quiet
<1>5. CASE JoinThenReturn
  <2>1. Failed' = failures
    BY <1>1, <1>5 DEF Failed
  <2>2. CASE completed
    <3>1. done = Tasks
      BY <1>1, <1>5, <2>2, JoinedIsSettled
    <3>2. Promise!Complete
      BY <1>1, <1>2, <1>3, <1>4, <1>5, <2>1, <2>2, <3>1
         DEF Promise!Complete, Promise!Tasks, Tasks, Promise!inputs, inputs
    <3>. QED
      BY <3>2
  <2>3. CASE ~completed
    <3>1. Promise!Stop
      BY <1>1, <1>2, <1>3, <1>4, <1>5, <2>1, <2>3 DEF Promise!Stop, Promise!inputs, inputs
    <3>. QED
      BY <3>1
  <2>. QED
    BY <2>2, <2>3
<1>6. CASE JoinThenRethrow
  <2>1. PICK i \in failures : IsFirst(i, failures) /\ error' = i
    BY <1>6
  <2>2. IsFirst(i, faulty) /\ i \in Tasks
    BY <1>6, <2>1, JoinedIsSettled DEF PoolInv, TypeOK
  <2>3. Failed' = failures
    BY <1>1, <1>6, <2>1 DEF Failed
  <2>4. Promise!Rethrow(i)
    BY <1>1, <1>2, <1>3, <1>4, <1>6, <2>1, <2>2, <2>3
       DEF Promise!Rethrow, IsFirst, Promise!inputs, inputs
  <2>. QED
    BY <2>2, <2>4
<1>7. CASE JoinThenPropagate
  <2>1. Failed' = failures
    BY <1>1, <1>7 DEF Failed
  <2>2. Promise!NoThread
    BY <1>1, <1>2, <1>3, <1>4, <1>7, <2>1 DEF Promise!NoThread, Promise!inputs, inputs
  <2>. QED
    BY <2>2
<1>. QED
  BY <1>5, <1>6, <1>7

-----------------------------------------------------------------------------
\* Every step of the pool is a step of the promise, or none.
LEMMA NextRefines ==
  ASSUME PoolInv, [Next]_vars
  PROVE  [Promise!Next]_Promise!vars
<1>. USE DEF Promise!Next
<1>1. CASE UNCHANGED vars
  BY <1>1 DEF vars, inputs, shared, result, history, Promise!vars, Running, InBody, Failed
<1>2. ASSUME NEW t \in Threads, t = Caller, CallerControl
      PROVE  [Promise!Next]_Promise!vars
  <2>1. CASE EnterEmpty \/ InlineEnd \/ InlinePollStops \/ InlineUnwind
    BY <2>1, InlineEndRefines DEF Promise!Tasks, Tasks
  <2>2. CASE \/ EnterInline \/ EnterThreaded \/ SpawnWorker \/ SpawnFails \/ SpawnEnd
             \/ PollContinues
    BY <2>2, CallerRefines
  <2>3. CASE PollStops
    BY <2>3, PollRefines
  <2>4. CASE InlineBegin
    BY <1>2, <2>4, BeginRefines DEF Promise!Tasks, Tasks
  <2>5. CASE JoinThenReturn \/ JoinThenRethrow \/ JoinThenPropagate
    BY <2>5, JoinRefines DEF Promise!Tasks, Tasks
  <2>. QED
    BY <1>2, <2>1, <2>2, <2>3, <2>4, <2>5 DEF CallerControl
<1>3. ASSUME NEW t \in Threads, LoopControl(t)
      PROVE  [Promise!Next]_Promise!vars
  <2>1. CASE ClaimTask(t)
    BY <2>1, BeginRefines DEF Promise!Tasks, Tasks
  <2>2. CASE SeesStop(t) \/ SeesNoStop(t) \/ ClaimNothing(t)
    BY <2>2, TestingRefines
  <2>. QED
    BY <1>3, <2>1, <2>2 DEF LoopControl
<1>4. ASSUME NEW t \in Threads, Returns(t) \/ Throws(t)
      PROVE  [Promise!Next]_Promise!vars
  BY <1>4, ReturnRefines, ThrowRefines DEF Promise!Tasks, Tasks
<1>. QED
  BY <1>1, <1>2, <1>3, <1>4 DEF Next, Step, Done

\* The thread pool implements the promise: whoever calls runInParallel may
\* reason with ParallelRun, for every task count, thread count and schedule.
THEOREM PoolKeepsItsPromise == Spec => KeepsPromise
<1>1. Init => Promise!Init
  BY InitRefines
<1>2. PoolInv /\ [Next]_vars => [Promise!Next]_Promise!vars
  BY NextRefines
<1>. QED
  BY <1>1, <1>2, PoolInvariant, PTL DEF Spec, KeepsPromise, Promise!Spec

-----------------------------------------------------------------------------
(* The arithmetic of tasks and chunks.                                      *)

\* Division with remainder, and that there is no other.
LEMMA Divides ==
  ASSUME NEW K \in Nat \ {0}, NEW i \in Nat
  PROVE  /\ i \div K \in Nat
         /\ i % K \in 0 .. K - 1
         /\ i = (i \div K) * K + (i % K)
OBVIOUS

LEMMA DividesOneWay ==
  ASSUME NEW K \in Nat \ {0}, NEW q \in Int, NEW r \in 0 .. K - 1
  PROVE  (q * K + r) \div K = q /\ (q * K + r) % K = r
OBVIOUS

\* From a multiple to the last number before the next the quotient is one.
LEMMA QuotientIsKept ==
  ASSUME NEW K \in Nat \ {0}, NEW q \in Nat
  PROVE  /\ (q * K) \div K = q
         /\ (K * q) \div K = q
         /\ (q * K + (K - 1)) \div K = q
OBVIOUS

\* A product does not fall when a factor grows.
LEMMA ProductsAscend ==
  ASSUME NEW n \in Nat, NEW x \in Int, NEW y \in Int, x <= y
  PROVE  x * n \in Int /\ y * n \in Int /\ x * n <= y * n
<1>1. (y - x) * n >= 0 /\ (y - x) * n = y * n - x * n
  OBVIOUS
<1>. QED
  BY <1>1

\* The pairs of blocks and chunks and the tasks stand for each other.
LEMMA PairOfTask ==
  ASSUME NEW K \in Nat \ {0}, NEW B \in Nat, NEW i \in 0 .. B * K - 1
  PROVE  i \div K \in 0 .. B - 1 /\ i % K \in 0 .. K - 1
<1>. DEFINE q == i \div K
<1>0. i \in Nat /\ B * K \in Nat
  BY ProductsAscend
<1>1. q \in Nat /\ i % K \in 0 .. K - 1 /\ q * K <= i
  <2>1. q \in Nat /\ i % K \in 0 .. K - 1 /\ i = q * K + (i % K)
    BY <1>0, Divides
  <2>. QED
    BY <1>0, <2>1
<1>2. SUFFICES ASSUME B <= q PROVE FALSE
  BY <1>1
<1>3. B * K <= q * K
  BY <1>1, <1>2, ProductsAscend
<1>. QED
  BY <1>0, <1>1, <1>2, <1>3

LEMMA TaskOfPair ==
  ASSUME NEW K \in Nat \ {0}, NEW B \in Nat, NEW b \in 0 .. B - 1, NEW c \in 0 .. K - 1
  PROVE  b * K + c \in 0 .. B * K - 1
<1>1. (b + 1) * K <= B * K /\ 0 <= b * K
  BY ProductsAscend
<1>2. (b + 1) * K = b * K + K
  OBVIOUS
<1>. QED
  BY <1>1, <1>2

\* Of two tasks the later is of a later block, or of the same one and a later
\* chunk.
LEMMA LaterTask ==
  ASSUME NEW K \in Nat \ {0}, NEW i \in Nat, NEW j \in Nat, i <= j
  PROVE  \/ i \div K < j \div K
         \/ i \div K = j \div K /\ i % K <= j % K
<1>. DEFINE p == i \div K  q == j \div K
<1>1. /\ p \in Nat /\ i % K \in 0 .. K - 1 /\ i = p * K + (i % K)
      /\ q \in Nat /\ j % K \in 0 .. K - 1 /\ j = q * K + (j % K)
  BY Divides
<1>2. CASE q < p
  <2>1. (q + 1) * K <= p * K /\ (q + 1) * K = q * K + K
    BY <1>1, <1>2, ProductsAscend
  <2>. QED
    BY <1>1, <2>1
<1>3. CASE p = q
  BY <1>1, <1>3
<1>. QED
  BY <1>1, <1>2, <1>3

\* A quotient does not fall when the dividend grows.
LEMMA QuotientsAscend ==
  ASSUME NEW K \in Nat \ {0}, NEW i \in Nat, NEW j \in Nat, i <= j
  PROVE  i \div K \in Nat /\ j \div K \in Nat /\ i \div K <= j \div K
BY LaterTask, Divides

-----------------------------------------------------------------------------
(* The chunks.                                                              *)

LEMMA ChunkCounts ==
  ASSUME NEW n \in Nat
  PROVE  /\ ChunkCount(n) \in Nat
         /\ n # 0 => ChunkCount(n) # 0
         /\ n = 0 => ChunkCount(n) = 0
<1>. DEFINE R == RecordsPerChunk  m == n + R - 1
<1>1. R \in Nat \ {0} /\ m \in Nat
  BY ChunkAssumption
<1>2. m \div R \in Nat /\ m % R \in 0 .. R - 1 /\ m = (m \div R) * R + (m % R)
  BY <1>1, Divides
<1>3. m \div R = 0 => m = m % R
  BY <1>1, <1>2
<1>4. n # 0 => m \div R # 0
  BY <1>1, <1>2, <1>3
<1>5. n = 0 => m = 0 * R + m /\ m \in 0 .. R - 1
  BY <1>1
<1>6. n = 0 => m \div R = 0
  BY <1>1, <1>5, DividesOneWay
<1>. QED
  BY <1>2, <1>4, <1>6 DEF ChunkCount

\* A chunk ends no later than a later one starts.
LEMMA ChunksAscend ==
  ASSUME NEW n \in Nat, NEW c \in 0 .. ChunkCount(n) - 1, NEW d \in 0 .. ChunkCount(n) - 1
  PROVE  /\ ChunkOf(n, c).startIndex \in Nat /\ ChunkOf(n, c).endIndex \in Nat
         /\ ChunkOf(n, c).startIndex <= ChunkOf(n, c).endIndex
         /\ c < d => ChunkOf(n, c).endIndex <= ChunkOf(n, d).startIndex
         /\ ChunkOf(n, c).endIndex <= n
<1>. DEFINE K == ChunkCount(n)  S(x) == (x * n) \div K
<1>1. K \in Nat \ {0}
  BY ChunkCounts
<1>2. ASSUME NEW x \in Nat, NEW y \in Nat, x <= y
      PROVE  S(x) \in Nat /\ S(y) \in Nat /\ S(x) <= S(y)
  BY <1>1, <1>2, ProductsAscend, QuotientsAscend
<1>3. S(K) = n
  BY <1>1, QuotientIsKept
<1>4. ASSUME NEW x \in 0 .. K - 1
      PROVE  ChunkOf(n, x) = [startIndex |-> S(x), endIndex |-> S(x + 1)]
  BY <1>1 DEF ChunkOf, ChunkStart
<1>5. S(c) <= S(c + 1) /\ S(c + 1) <= S(K) /\ S(c) \in Nat /\ S(c + 1) \in Nat
  BY <1>1, <1>2
<1>6. c < d => S(c + 1) <= S(d)
  BY <1>1, <1>2
<1>. QED
  BY <1>3, <1>4, <1>5, <1>6

\* Every record is in a chunk.
LEMMA ChunksCover ==
  ASSUME NEW n \in Nat, NEW r \in 0 .. n - 1
  PROVE  \E c \in 0 .. ChunkCount(n) - 1 : r \in ChunkRecords(n, c)
<1>. DEFINE K == ChunkCount(n)  m == r * K + (K - 1)  c == m \div n
<1>1. K \in Nat \ {0} /\ n \in Nat \ {0}
  BY ChunkCounts
<1>2. r * K \in Nat /\ m \in Nat /\ m \div K = r
  <2>1. r * K \in Nat
    BY <1>1, ProductsAscend
  <2>. QED
    BY <1>1, <2>1, QuotientIsKept
<1>3. c \in Nat /\ c * n <= m /\ m < (c + 1) * n
  <2>1. c \in Nat /\ m % n \in 0 .. n - 1 /\ m = c * n + (m % n)
    BY <1>1, <1>2, Divides
  <2>2. (c + 1) * n = c * n + n
    BY <2>1
  <2>. QED
    BY <2>1, <2>2
<1>4. c < K
  <2>. SUFFICES ASSUME K <= c PROVE FALSE
    BY <1>1, <1>3
  <2>1. K * n <= c * n
    BY <1>1, <1>3, ProductsAscend
  <2>2. (r + 1) * K <= n * K /\ (r + 1) * K = r * K + K
    BY <1>1, ProductsAscend
  <2>. QED
    BY <1>1, <1>2, <1>3, <2>1, <2>2
<1>5. ChunkOf(n, c) = [startIndex |-> (c * n) \div K, endIndex |-> ((c + 1) * n) \div K]
  BY <1>1, <1>3, <1>4 DEF ChunkOf, ChunkStart
<1>6. (c * n) \div K <= r
  <2>1. c * n \in Nat
    BY <1>1, <1>3
  <2>2. (c * n) \div K <= m \div K
    BY <1>1, <1>2, <1>3, <2>1, QuotientsAscend
  <2>. QED
    BY <1>2, <2>2
<1>7. r < ((c + 1) * n) \div K
  <2>1. (r + 1) * K = r * K + K
    BY <1>1
  <2>2. ((r + 1) * K) \div K = r + 1
    BY <1>1, QuotientIsKept
  <2>3. (r + 1) * K \in Nat /\ (c + 1) * n \in Nat /\ (r + 1) * K <= (c + 1) * n
    BY <1>1, <1>2, <1>3, <2>1
  <2>4. ((r + 1) * K) \div K <= ((c + 1) * n) \div K /\ ((c + 1) * n) \div K \in Nat
    BY <1>1, <2>3, QuotientsAscend
  <2>. QED
    BY <2>2, <2>4
<1>8. r \in ChunkRecords(n, c)
  BY <1>5, <1>6, <1>7 DEF ChunkRecords
<1>. QED
  BY <1>1, <1>3, <1>4, <1>8

\* The quotient is known from any way of writing the dividend.
LEMMA DividesTo ==
  ASSUME NEW K \in Nat \ {0}, NEW m, NEW q \in Int, NEW r \in 0 .. K - 1, m = q * K + r
  PROVE  m \div K = q
BY DividesOneWay

\* From one multiple of n to the next the quotient grows by n's, or by one more.
LEMMA NextQuotient ==
  ASSUME NEW K \in Nat \ {0}, NEW n \in Nat, NEW c \in Nat,
         NEW a \in Nat, NEW b \in 0 .. K - 1, n = a * K + b,
         NEW q \in Nat, NEW r \in 0 .. K - 1, c * n = q * K + r
  PROVE  ((c + 1) * n) \div K = q + a \/ (b # 0 /\ ((c + 1) * n) \div K = q + a + 1)
<1>1. (c + 1) * n = c * n + n
  OBVIOUS
<1>2. (q + a) * K = q * K + a * K /\ (q + a + 1) * K = q * K + a * K + K
  OBVIOUS
<1>3. q * K \in Nat /\ a * K \in Nat
  OBVIOUS
<1>4. (c + 1) * n = (q + a) * K + (r + b)
  BY <1>1, <1>2, <1>3
<1>5. CASE r + b < K
  <2>1. r + b \in 0 .. K - 1 /\ q + a \in Int
    BY <1>5
  <2>. QED
    BY <1>4, <2>1, DividesTo
<1>6. CASE r + b >= K
  <2>1. r + b - K \in 0 .. K - 1 /\ q + a + 1 \in Int /\ b # 0
    BY <1>6
  <2>2. (c + 1) * n = (q + a + 1) * K + (r + b - K)
    BY <1>2, <1>3, <1>4
  <2>. QED
    BY <2>1, <2>2, DividesTo
<1>. QED
  BY <1>5, <1>6

\* The average number of records to a chunk is at most the constant, and less
\* when it is not whole.
LEMMA AverageIsWithin ==
  ASSUME NEW n \in Nat, ChunkCount(n) # 0
  PROVE  /\ n \div ChunkCount(n) <= RecordsPerChunk
         /\ n % ChunkCount(n) # 0 => n \div ChunkCount(n) + 1 <= RecordsPerChunk
<1>. DEFINE K == ChunkCount(n)  R == RecordsPerChunk  a == n \div K  b == n % K
<1>1. K \in Nat \ {0} /\ R \in Nat \ {0}
  BY ChunkCounts, ChunkAssumption
<1>2. n <= K * R
  <2>1. n + R - 1 \in Nat
    BY <1>1
  <2>2. (n + R - 1) % R \in 0 .. R - 1
        /\ n + R - 1 = ((n + R - 1) \div R) * R + ((n + R - 1) % R)
    BY <1>1, <2>1, Divides
  <2>3. n + R - 1 = K * R + ((n + R - 1) % R)
    BY <2>2 DEF ChunkCount
  <2>4. K * R \in Int
    BY <1>1
  <2>. QED
    BY <1>1, <2>2, <2>3, <2>4
<1>3. a \in Nat /\ b \in 0 .. K - 1 /\ n = a * K + b
  BY <1>1, Divides
<1>. HIDE DEF a, b, K, R
<1>4. a <= R
  <2>. SUFFICES ASSUME R + 1 <= a PROVE FALSE
    BY <1>1, <1>3
  <2>1. (R + 1) * K <= a * K /\ (R + 1) * K = K * R + K
    BY <1>1, <1>3, ProductsAscend
  <2>. QED
    BY <1>1, <1>2, <1>3, <2>1
<1>5. b # 0 => a # R
  BY <1>1, <1>2, <1>3
<1>6. a <= R /\ (b # 0 => a + 1 <= R)
  BY <1>1, <1>3, <1>4, <1>5
<1>. QED
  BY <1>6 DEF a, b, K, R

\* Chunks partition the records: each record is in a chunk, and in one only, so
\* that no record is walked twice or missed (RecordChunk.hpp:69).
THEOREM EachRecordIsInOneChunk ==
  ASSUME NEW n \in Nat, NEW r \in 0 .. n - 1
  PROVE  \E c \in 0 .. ChunkCount(n) - 1 :
           /\ r \in ChunkRecords(n, c)
           /\ \A d \in 0 .. ChunkCount(n) - 1 : r \in ChunkRecords(n, d) => d = c
<1>1. PICK c \in 0 .. ChunkCount(n) - 1 : r \in ChunkRecords(n, c)
  BY ChunksCover
<1>2. ASSUME NEW d \in 0 .. ChunkCount(n) - 1, r \in ChunkRecords(n, d)
      PROVE  d = c
  <2>1. /\ ChunkOf(n, c).startIndex <= r /\ r < ChunkOf(n, c).endIndex
        /\ ChunkOf(n, d).startIndex <= r /\ r < ChunkOf(n, d).endIndex
    BY <1>1, <1>2 DEF ChunkRecords
  <2>2. /\ c < d => ChunkOf(n, c).endIndex <= ChunkOf(n, d).startIndex
        /\ d < c => ChunkOf(n, d).endIndex <= ChunkOf(n, c).startIndex
        /\ ChunkOf(n, c).startIndex \in Nat /\ ChunkOf(n, c).endIndex \in Nat
        /\ ChunkOf(n, d).startIndex \in Nat /\ ChunkOf(n, d).endIndex \in Nat
    BY ChunksAscend
  <2>3. c \in Int /\ d \in Int
    BY ChunkCounts
  <2>. QED
    BY <2>1, <2>2, <2>3
<1>. QED
  BY <1>1, <1>2

\* A chunk has the whole part of the average number of records or one more, and
\* never more than the constant: 10,001 records are two chunks of about five
\* thousand (RecordChunk.hpp:38 and :71).
THEOREM ChunksAreEven ==
  ASSUME NEW n \in Nat, NEW c \in 0 .. ChunkCount(n) - 1
  PROVE  /\ ChunkSize(n, c) \in {n \div ChunkCount(n), n \div ChunkCount(n) + 1}
         /\ ChunkSize(n, c) <= RecordsPerChunk
<1>. DEFINE K == ChunkCount(n)  a == n \div K  b == n % K  q == (c * n) \div K  r == (c * n) % K
<1>1. K \in Nat \ {0} /\ c \in Nat
  BY ChunkCounts
<1>2. a \in Nat /\ b \in 0 .. K - 1 /\ n = a * K + b
  BY <1>1, Divides
<1>3. q \in Nat /\ r \in 0 .. K - 1 /\ c * n = q * K + r
  <2>1. c * n \in Nat
    BY <1>1
  <2>. QED
    BY <1>1, <2>1, Divides
<1>4. ChunkSize(n, c) = ((c + 1) * n) \div K - q
  BY <1>1 DEF ChunkSize, ChunkOf, ChunkStart
<1>5. a <= RecordsPerChunk /\ (b # 0 => a + 1 <= RecordsPerChunk)
  BY <1>1, AverageIsWithin
<1>. HIDE DEF a, b, q, r, K
<1>6. ((c + 1) * n) \div K = q + a \/ (b # 0 /\ ((c + 1) * n) \div K = q + a + 1)
  BY <1>1, <1>2, <1>3, NextQuotient
<1>7. ChunkSize(n, c) = a \/ (b # 0 /\ ChunkSize(n, c) = a + 1)
  BY <1>2, <1>3, <1>4, <1>6
<1>8. ChunkSize(n, c) \in {a, a + 1} /\ ChunkSize(n, c) <= RecordsPerChunk
  BY <1>5, <1>7
<1>. QED
  BY <1>8 DEF a, K

-----------------------------------------------------------------------------
(* Partials.                                                                *)

LEMMA EmptyInRecordOrder == InRecordOrder(<<>>, {})
BY DEF InRecordOrder

\* Adding the next record keeps a partial in record order.
LEMMA AppendInRecordOrder ==
  ASSUME NEW S \in SUBSET Nat, NEW s, InRecordOrder(s, S),
         NEW r \in Nat, \A x \in S : x < r
  PROVE  InRecordOrder(Append(s, r), S \union {r})
<1>. DEFINE T == S \union {r}  u == Append(s, r)
<1>1. s \in Seq(S) /\ s \in Seq(T) /\ Len(s) \in Nat
  BY DEF InRecordOrder
<1>2. /\ u \in Seq(T) /\ Len(u) = Len(s) + 1
      /\ \A i \in 1 .. Len(s) : u[i] = s[i]
      /\ u[Len(s) + 1] = r
  BY <1>1
<1>3. T = {u[i] : i \in 1 .. Len(u)}
  <2>1. ASSUME NEW x \in T PROVE \E i \in 1 .. Len(u) : x = u[i]
    <3>1. CASE x = r
      BY <1>1, <1>2, <3>1
    <3>2. CASE x \in S
      <4>1. PICK i \in 1 .. Len(s) : x = s[i]
        BY <3>2 DEF InRecordOrder
      <4>. QED
        BY <1>1, <1>2, <4>1
    <3>. QED
      BY <3>1, <3>2
  <2>2. ASSUME NEW i \in 1 .. Len(u) PROVE u[i] \in T
    BY <1>2
  <2>. QED
    BY <2>1, <2>2
<1>4. ASSUME NEW i \in 1 .. Len(u), NEW j \in 1 .. Len(u), i < j
      PROVE  u[i] < u[j]
  <2>1. i \in 1 .. Len(s) /\ u[i] = s[i] /\ s[i] \in S
    BY <1>1, <1>2, <1>4
  <2>2. CASE j = Len(s) + 1
    BY <1>2, <2>1, <2>2
  <2>3. CASE j \in 1 .. Len(s)
    BY <1>2, <1>4, <2>1, <2>3 DEF InRecordOrder
  <2>. QED
    BY <1>1, <1>2, <2>2, <2>3
<1>. QED
  BY <1>2, <1>3, <1>4 DEF InRecordOrder

-----------------------------------------------------------------------------
(* Tasks, in a state of the engine.                                         *)

\* A task has a block, a chunk of it, and a range of the records.
LEMMA TaskHasChunk ==
  ASSUME DataInv, NEW i \in Tasks
  PROVE  /\ i \in Nat
         /\ BlockOf(i) \in Blocks /\ ChunkIndexOf(i) \in Chunks
         /\ RangeOf(i).startIndex \in Nat /\ RangeOf(i).endIndex \in Nat
         /\ RangeOf(i).startIndex <= RangeOf(i).endIndex
         /\ RangeOf(i).endIndex <= records
         /\ RecordsOf(i) = {r \in Nat : /\ RangeOf(i).startIndex <= r
                                        /\ r < RangeOf(i).endIndex}
<1>. DEFINE K == ChunkCount(records)
<1>1. K \in Nat /\ blockCount \in Nat /\ records \in Nat
  BY ChunkCounts DEF DataInv
<1>2. i \in 0 .. blockCount * K - 1 /\ blockCount * K \in Nat /\ i \in Nat
  BY <1>1 DEF DataInv, Tasks
<1>3. K # 0
  BY <1>1, <1>2
<1>4. BlockOf(i) \in Blocks /\ ChunkIndexOf(i) \in Chunks
  BY <1>1, <1>2, <1>3, PairOfTask DEF BlockOf, ChunkIndexOf, Blocks, Chunks
<1>5. /\ RangeOf(i).startIndex \in Nat /\ RangeOf(i).endIndex \in Nat
      /\ RangeOf(i).startIndex <= RangeOf(i).endIndex
      /\ RangeOf(i).endIndex <= records
  BY <1>1, <1>4, ChunksAscend DEF RangeOf, Chunks
<1>6. RecordsOf(i) = {r \in Nat : /\ RangeOf(i).startIndex <= r
                                  /\ r < RangeOf(i).endIndex}
  BY <1>1, <1>5 DEF RecordsOf, ChunkRecords, RangeOf
<1>. QED
  BY <1>2, <1>4, <1>5, <1>6

\* The task of a chunk of a block.
LEMMA PairIsItsTask ==
  ASSUME ChunkCount(records) \in Nat \ {0}, NEW b \in Nat, NEW c \in Chunks
  PROVE  /\ BlockOf(b * ChunkCount(records) + c) = b
         /\ ChunkIndexOf(b * ChunkCount(records) + c) = c
<1>. DEFINE K == ChunkCount(records)
<1>1. K \in Nat \ {0} /\ b \in Int /\ c \in 0 .. K - 1
  BY DEF Chunks
<1>. HIDE DEF K
<1>2. (b * K + c) \div K = b /\ (b * K + c) % K = c
  BY <1>1, DividesOneWay
<1>. QED
  BY <1>2 DEF BlockOf, ChunkIndexOf, K

\* Two tasks of one block are of two chunks, and their ranges do not meet.
LEMMA RangesApart ==
  ASSUME DataInv, NEW i \in Tasks, NEW j \in Tasks, i < j, BlockOf(i) = BlockOf(j)
  PROVE  /\ ChunkIndexOf(i) # ChunkIndexOf(j)
         /\ RangeOf(i).endIndex <= RangeOf(j).startIndex
<1>. DEFINE K == ChunkCount(records)
<1>1. K \in Nat \ {0} /\ records \in Nat /\ i \in Nat /\ j \in Nat
  BY TaskHasChunk, ChunkCounts DEF DataInv, Chunks
<1>2. /\ ChunkIndexOf(i) \in 0 .. K - 1 /\ ChunkIndexOf(j) \in 0 .. K - 1
      /\ i = BlockOf(i) * K + ChunkIndexOf(i)
      /\ j = BlockOf(j) * K + ChunkIndexOf(j)
  BY <1>1, Divides DEF BlockOf, ChunkIndexOf
<1>3. ChunkIndexOf(i) <= ChunkIndexOf(j)
  <2>1. BlockOf(i) \in Int
    BY TaskHasChunk DEF Blocks, DataInv
  <2>. QED
    BY <1>1, <1>2, <2>1, LaterTask DEF BlockOf, ChunkIndexOf
<1>4. ChunkIndexOf(i) # ChunkIndexOf(j)
  BY <1>1, <1>2
<1>. QED
  BY <1>1, <1>2, <1>3, <1>4, ChunksAscend DEF RangeOf

\* Two tasks never have one partial.
LEMMA PartialsApart ==
  ASSUME DataInv, NEW i \in Tasks, NEW j \in Tasks, i # j
  PROVE  BlockOf(i) # BlockOf(j) \/ ChunkIndexOf(i) # ChunkIndexOf(j)
<1>1. i \in Nat /\ j \in Nat
  BY TaskHasChunk
<1>. QED
  BY <1>1, RangesApart

-----------------------------------------------------------------------------
(* What the steps of the pool do to the tasks.                              *)

\* A thread in a body runs a task of the call, which has not ended; while there
\* is one, what failed is what the pool has recorded.
LEMMA RunningIsOpen ==
  ASSUME PoolInv, NEW t \in Threads, InBody(t)
  PROVE  /\ task[t] \in Tasks
         /\ task[t] \notin done /\ task[t] \notin Failed
         /\ Failed = failures
         /\ outcome = "none"
<1>1. CASE pc[t] = "body"
  <2>1. outcome = "none" /\ pc[Caller] \in ThreadedLabels
    BY <1>1, LoopIsThreaded
  <2>2. Failed = failures
    BY <2>1 DEF Failed, ThreadedLabels
  <2>. QED
    BY <1>1, <2>1, <2>2 DEF PoolInv, ClaimsInv
<1>2. CASE pc[t] = "inlineBody"
  <2>1. t = Caller
    BY <1>2 DEF PoolInv, ProgramsInv
  <2>2. outcome = "none" /\ failures = {} /\ done = 0 .. task[t] - 1
    BY <1>2, <2>1 DEF PoolInv, ProgramsInv, InlineInv, InlineLabels
  <2>3. Failed = {}
    BY <1>2, <2>1, <2>2 DEF Failed
  <2>4. task[t] \in Nat /\ task[t] < taskCount /\ taskCount \in Nat
    BY <1>2, <2>1 DEF PoolInv, TypeOK, InlineInv
  <2>. QED
    BY <2>2, <2>3, <2>4 DEF Tasks
<1>. QED
  BY <1>1, <1>2 DEF InBody

\* A claim takes a task that has not been begun.
LEMMA ClaimIsNew ==
  ASSUME PoolInv, NEW t \in Threads, ClaimTask(t)
  PROVE  nextTask \in Tasks \ Begun
<1>1. outcome = "none" /\ pc[Caller] \in ThreadedLabels
  BY LoopIsThreaded DEF ClaimTask, Goto
<1>2. Failed = failures
  BY <1>1 DEF Failed, ThreadedLabels
<1>3. nextTask \in Tasks
  BY DEF ClaimTask, PoolInv, TypeOK, Tasks
<1>4. nextTask \notin done \union failures
  BY <1>1, <1>3 DEF PoolInv, ClaimsInv, TypeOK
<1>5. ASSUME NEW u \in Threads, InBody(u)
      PROVE  task[u] # nextTask
  <2>1. pc[u] = "body"
    BY <1>1, <1>5 DEF InBody, PoolInv, ProgramsInv, ThreadedLabels
  <2>. QED
    BY <2>1 DEF PoolInv, ClaimsInv, TypeOK
<1>. QED
  BY <1>2, <1>3, <1>4, <1>5 DEF Begun, Running

\* So does the inline loop.
LEMMA InlineBeginIsNew ==
  ASSUME PoolInv, InlineBegin
  PROVE  task[Caller] \in Tasks \ Begun
<1>1. pc[Caller] = "inlinePoll" /\ task[Caller] \in Nat /\ task[Caller] < taskCount
  BY PoolAssumption DEF InlineBegin, Goto, PoolInv, TypeOK, Threads, Caller
<1>2. failures = {} /\ done = 0 .. task[Caller] - 1 /\ spawned = 0 /\ outcome = "none"
  BY <1>1 DEF PoolInv, InlineInv, InlineLabels, ProgramsInv
<1>3. \A u \in Threads : ~InBody(u)
  <2>1. \A u \in Threads \ {Caller} : pc[u] = "unborn"
    BY <1>2 DEF PoolInv, ProgramsInv, Threads, Caller
  <2>. QED
    BY <1>1, <2>1 DEF InBody
<1>4. Failed = {}
  BY <1>1, <1>2 DEF Failed
<1>5. task[Caller] \in Tasks
  BY <1>1 DEF Tasks, PoolInv, TypeOK
<1>. QED
  BY <1>1, <1>2, <1>3, <1>4, <1>5 DEF Begun, Running

\* A step of the pool's own leaves what ended as it is and every running task
\* with its thread; a task it begins is new.
OpensOnly ==
  /\ UNCHANGED inputs
  /\ done' = done /\ Failed' = Failed
  /\ \A u \in Threads : InBody(u) => InBody(u)' /\ task'[u] = task[u]
  /\ \A u \in Threads : InBody(u)' =>
       \/ InBody(u) /\ task'[u] = task[u]
       \/ ~InBody(u) /\ task'[u] \in Tasks \ Begun

LEMMA LoopOpensOnly ==
  ASSUME PoolInv, NEW t \in Threads, LoopControl(t)
  PROVE  OpensOnly
<1>. pc \in [Threads -> Labels] /\ task \in [Threads -> Nat] /\ Caller \in Threads
  BY PoolAssumption DEF PoolInv, TypeOK, Threads, Caller
<1>1. CASE SeesStop(t) \/ SeesNoStop(t) \/ ClaimNothing(t)
  <2>1. /\ UNCHANGED <<inputs, task, failures, outcome, error, done>>
        /\ pc[t] \in {"check", "claim"} /\ pc' = [pc EXCEPT ![t] = pc'[t]]
        /\ pc'[t] \in {"join", "exited", "poll", "claim"}
    BY <1>1 DEF SeesStop, SeesNoStop, ClaimNothing, Goto, Leave, inputs, shared, result, history
  <2>2. Failed' = Failed
    BY <2>1 DEF Failed
  <2>. QED
    BY <2>1, <2>2 DEF OpensOnly, InBody, inputs
<1>2. CASE ClaimTask(t)
  <2>1. /\ UNCHANGED <<inputs, failures, outcome, error, done>>
        /\ pc[t] = "claim" /\ pc' = [pc EXCEPT ![t] = "body"]
        /\ task' = [task EXCEPT ![t] = nextTask]
    BY <1>2 DEF ClaimTask, Goto, inputs, shared, result, history
  <2>. QED
    BY <1>2, <2>1, ClaimIsNew DEF OpensOnly, InBody, Failed, inputs
<1>. QED
  BY <1>1, <1>2 DEF LoopControl

LEMMA CallerOpensOnly ==
  ASSUME PoolInv, CallerControl
  PROVE  OpensOnly
<1>. pc \in [Threads -> Labels] /\ task \in [Threads -> Nat] /\ Caller \in Threads
  BY PoolAssumption DEF PoolInv, TypeOK, Threads, Caller
<1>1. CASE InlineBegin
  <2>1. /\ UNCHANGED <<inputs, task, failures, outcome, error, done>>
        /\ pc[Caller] = "inlinePoll" /\ pc' = [pc EXCEPT ![Caller] = "inlineBody"]
    BY <1>1 DEF InlineBegin, Goto, inputs, shared, result, history
  <2>. QED
    BY <1>1, <2>1, InlineBeginIsNew DEF OpensOnly, InBody, Failed, inputs
<1>2. CASE InlineUnwind
  <2>1. /\ UNCHANGED <<inputs, task, failures, done>>
        /\ pc[Caller] = "unwind" /\ pc' = [pc EXCEPT ![Caller] = "done"]
        /\ outcome' = "threw" /\ error' = task[Caller]
    BY <1>2 DEF InlineUnwind, EndCall, Goto, inputs, shared, history
  <2>2. outcome = "none"
    BY <2>1 DEF PoolInv, ProgramsInv
  <2>3. Failed' = Failed
    BY <2>1, <2>2 DEF Failed
  <2>. QED
    BY <2>1, <2>3 DEF OpensOnly, InBody, inputs
<1>3. CASE JoinThenRethrow
  <2>1. /\ UNCHANGED <<inputs, task, failures, done>>
        /\ pc[Caller] = "join" /\ pc' = [pc EXCEPT ![Caller] = "done"]
        /\ outcome' = "threw" /\ error' \in failures
    BY <1>3 DEF JoinThenRethrow, Joinable, EndCall, Goto, inputs, shared, history, IsFirst
  <2>2. outcome = "none"
    BY <2>1 DEF PoolInv, ProgramsInv
  <2>3. Failed' = Failed
    BY <2>1, <2>2 DEF Failed
  <2>. QED
    BY <2>1, <2>3 DEF OpensOnly, InBody, inputs
<1>4. CASE SpawnWorker
  <2>1. /\ UNCHANGED <<inputs, task, failures, outcome, error, done>>
        /\ pc[Caller] = "spawn" /\ pc' = [pc EXCEPT ![spawned + 1] = "check"]
        /\ spawned + 1 \in Nat /\ spawned + 1 # Caller
    BY <1>4 DEF SpawnWorker, inputs, result, history, PoolInv, TypeOK, Caller
  <2>2. spawned + 1 \in Threads => pc[spawned + 1] = "unborn"
    BY <2>1 DEF PoolInv, TypeOK, ProgramsInv, Threads, Caller
  <2>. QED
    BY <2>1, <2>2 DEF OpensOnly, InBody, Failed, inputs
<1>5. CASE \/ EnterEmpty \/ EnterInline \/ EnterThreaded
           \/ InlineEnd \/ InlinePollStops
           \/ SpawnFails \/ SpawnEnd \/ PollStops \/ PollContinues
           \/ JoinThenReturn \/ JoinThenPropagate
  <2>1. /\ UNCHANGED <<inputs, task, failures, error, done>>
        /\ pc[Caller] \in {"enter", "inlinePoll", "spawn", "poll", "join"}
        /\ pc' = [pc EXCEPT ![Caller] = pc'[Caller]]
        /\ pc'[Caller] \in {"inlinePoll", "spawn", "check", "claim", "join", "done"}
        /\ outcome' \in {outcome, "completed", "stopped", "noThread"}
    BY <1>5 DEF EnterEmpty, EnterInline, EnterThreaded, InlineEnd, InlinePollStops, SpawnFails,
                SpawnEnd, PollStops, PollContinues, JoinThenReturn, JoinThenPropagate, EndCall,
                Joinable, Goto, inputs, shared, result, history
  <2>2. outcome = "none"
    BY <2>1 DEF PoolInv, ProgramsInv
  <2>3. Failed' = Failed
    BY <2>1, <2>2 DEF Failed
  <2>. QED
    BY <2>1, <2>3 DEF OpensOnly, InBody, inputs
<1>. QED
  BY <1>1, <1>2, <1>3, <1>4, <1>5 DEF CallerControl

\* The end of a body is the end of one thread's task.
LEMMA BodyEnds ==
  ASSUME PoolInv, NEW t \in Threads, Returns(t) \/ Throws(t)
  PROVE  /\ UNCHANGED inputs
         /\ InBody(t) /\ ~InBody(t)'
         /\ \A u \in Threads \ {t} : (InBody(u)' <=> InBody(u)) /\ task'[u] = task[u]
         /\ Returns(t) => done' = done \union {task[t]} /\ Failed' = Failed
         /\ Throws(t) => done' = done /\ Failed' = Failed \union {task[t]}
<1>. pc \in [Threads -> Labels] /\ task \in [Threads -> Nat] /\ Caller \in Threads
  BY PoolAssumption DEF PoolInv, TypeOK, Threads, Caller
<1>1. InBody(t)
  BY DEF Returns, Throws, BodyReturns, BodyThrows, InlineReturns, InlineThrows, Goto, InBody
<1>2. outcome = "none" /\ Failed = failures /\ (t # Caller => pc[Caller] # "unwind")
  <2>1. outcome = "none" /\ Failed = failures
    BY <1>1, RunningIsOpen
  <2>2. CASE pc[t] = "body"
    BY <2>1, <2>2, LoopIsThreaded DEF ThreadedLabels
  <2>3. CASE pc[t] = "inlineBody"
    BY <2>1, <2>3 DEF PoolInv, ProgramsInv
  <2>. QED
    BY <1>1, <2>1, <2>2, <2>3 DEF InBody
<1>3. CASE BodyReturns(t)
  <2>1. /\ UNCHANGED <<inputs, task, failures, outcome, error>>
        /\ pc[t] = "body" /\ pc' = [pc EXCEPT ![t] = "check"]
        /\ done' = done \union {task[t]} /\ task[t] \notin faulty
    BY <1>3 DEF BodyReturns, Goto, inputs, shared, result
  <2>2. Failed' = Failed
    BY <1>2, <2>1 DEF Failed
  <2>. QED
    BY <1>1, <2>1, <2>2
       DEF InBody, inputs, Throws, BodyThrows, InlineThrows, Goto
<1>4. CASE t = Caller /\ InlineReturns
  <2>1. /\ UNCHANGED <<inputs, failures, outcome, error>>
        /\ pc[t] = "inlineBody" /\ pc' = [pc EXCEPT ![t] = "inlinePoll"]
        /\ task' = [task EXCEPT ![t] = task[t] + 1]
        /\ done' = done \union {task[t]} /\ task[t] \notin faulty
    BY <1>4 DEF InlineReturns, Goto, inputs, shared, result
  <2>2. Failed' = Failed
    BY <1>2, <1>4, <2>1 DEF Failed
  <2>. QED
    BY <1>1, <2>1, <2>2
       DEF InBody, inputs, Throws, BodyThrows, InlineThrows, Goto
<1>5. CASE BodyThrows(t)
  <2>1. /\ UNCHANGED <<inputs, task, outcome, error, done>>
        /\ pc[t] = "body" /\ pc' = [pc EXCEPT ![t] = pc'[t]]
        /\ pc'[t] \in {"join", "exited"}
        /\ failures' = failures \union {task[t]} /\ task[t] \in faulty
    BY <1>5 DEF BodyThrows, Goto, Leave, inputs, result, history
  <2>2. Failed' = Failed \union {task[t]}
    BY <1>2, <2>1 DEF Failed
  <2>. QED
    BY <1>1, <2>1, <2>2
       DEF InBody, inputs, Returns, BodyReturns, InlineReturns, Goto
<1>6. CASE t = Caller /\ InlineThrows
  <2>1. /\ UNCHANGED <<inputs, task, failures, outcome, error, done>>
        /\ pc[t] = "inlineBody" /\ pc' = [pc EXCEPT ![t] = "unwind"]
        /\ task[t] \in faulty
    BY <1>6 DEF InlineThrows, Goto, inputs, shared, result, history
  <2>2. Failed' = Failed \union {task[t]}
    BY <1>2, <1>6, <2>1 DEF Failed
  <2>. QED
    BY <1>1, <2>1, <2>2
       DEF InBody, inputs, Returns, BodyReturns, InlineReturns, Goto
<1>. QED
  BY <1>3, <1>4, <1>5, <1>6 DEF Returns, Throws

\* Every step of the engine is one of the pool, or leaves the pool alone.
LEMMA EngineStepsThePool == [EngineNext]_allVars => [Next]_vars
<1>. SUFFICES ASSUME [EngineNext]_allVars PROVE [Next]_vars
  OBVIOUS
<1>1. CASE UNCHANGED allVars
  BY <1>1 DEF allVars
<1>2. CASE NoBlocks \/ RefuseOutputs \/ StartRun \/ FoldPartials \/ MarkInterrupted
           \/ LetThrough \/ EngineDone
  BY <1>2 DEF NoBlocks, RefuseOutputs, StartRun, FoldPartials, MarkInterrupted, LetThrough,
              EngineDone, allVars
<1>3. ASSUME NEW t \in Threads, PoolRuns(t) \/ ChunkStep(t)
      PROVE  [Next]_vars
  <2>1. CASE PoolRuns(t)
    BY <2>1 DEF PoolRuns, Next, Step
  <2>2. CASE SkipRecord(t) \/ AddRecord(t)
    BY <2>2 DEF SkipRecord, AddRecord
  <2>3. CASE ThrowFromRecord(t) \/ EndChunk(t)
    BY <2>3 DEF ThrowFromRecord, EndChunk, Next, Step
  <2>. QED
    BY <1>3, <2>1, <2>2, <2>3 DEF ChunkStep
<1>. QED
  BY <1>1, <1>2, <1>3 DEF EngineNext

LEMMA EngineInitsThePool == EngineInit => Init /\ DataInv
<1>. SUFFICES ASSUME EngineInit PROVE Init /\ DataInv
  OBVIOUS
<1>1. blockCount \in Nat /\ records \in Nat /\ blockCount * ChunkCount(records) <= MaxTasks
  BY EngineAssumption DEF EngineInit
<1>2. blockCount * ChunkCount(records) \in Nat
  BY <1>1, ChunkCounts, ProductsAscend
<1>3. taskCount \in 0 .. MaxTasks /\ faulty \in SUBSET Tasks
  BY <1>1, <1>2, PoolAssumption DEF EngineInit
<1>. QED
  BY <1>1, <1>3 DEF EngineInit, Init, DataInv

-----------------------------------------------------------------------------
(* The steps of the engine.                                                 *)

\* What EngineInv says of the walk and of what it has left behind.
WalksInv == DataInv /\ WalkInv /\ PartialsInv /\ ThrownInv

\* The types of what a walk changes.
WalkTypeOK ==
  /\ walked \in [Threads -> Nat]
  /\ partials \in [Blocks -> [Chunks -> Seq(Records)]]
  /\ tallies \in [Blocks -> [Chunks -> Nat]]
  /\ contributions \subseteq Blocks \X Records
  /\ thrown \in [Tasks -> Nat]

LEMMA DataStays ==
  ASSUME DataInv, UNCHANGED <<inputs, data>>
  PROVE  DataInv'
BY DEF DataInv, inputs, data, Tasks, TaskThrows, BlockOf, ChunkIndexOf

LEMMA WalkTypesStay ==
  ASSUME WalkTypeOK, UNCHANGED <<inputs, data, walk>>
  PROVE  WalkTypeOK'
BY DEF WalkTypeOK, inputs, data, walk, Tasks, Blocks, Chunks, Records

\* A running task whose thread and partial a step leaves alone.
LEMMA RunningStays ==
  ASSUME WalksInv, UNCHANGED data, NEW u \in Threads, InBody(u),
         task'[u] = task[u], walked'[u] = walked[u], Partial(task[u])' = Partial(task[u])
  PROVE  /\ (Current(u) <= RangeOf(task[u]).endIndex)'
         /\ (\A r \in RecordsBelow(task[u], Current(u)) : <<BlockOf(task[u]), r>> \notin throwing)'
         /\ InRecordOrder(Partial(task[u]),
              Accepted(BlockOf(task[u]), RecordsBelow(task[u], Current(u))))'
<1>1. RecordsBelow(task[u], Current(u))' = RecordsBelow(task[u], Current(u))
  BY DEF data, Current, RangeOf, RecordsBelow, RecordsOf, ChunkIndexOf
<1>2. Accepted(BlockOf(task[u]), RecordsBelow(task[u], Current(u)))'
        = Accepted(BlockOf(task[u]), RecordsBelow(task[u], Current(u)))
  BY <1>1 DEF data, Accepted, BlockOf
<1>3. (Current(u) <= RangeOf(task[u]).endIndex)'
  BY DEF WalksInv, WalkInv, data, Current, RangeOf, ChunkIndexOf
<1>4. (\A r \in RecordsBelow(task[u], Current(u)) : <<BlockOf(task[u]), r>> \notin throwing)'
  BY <1>1 DEF WalksInv, WalkInv, data, BlockOf
<1>. QED
  BY <1>2, <1>3, <1>4 DEF WalksInv, PartialsInv

\* A task that is over and whose partial a step leaves alone.
LEMMA DoneStays ==
  ASSUME WalksInv, UNCHANGED data, NEW i \in done, Partial(i)' = Partial(i)
  PROVE  InRecordOrder(Partial(i), Accepted(BlockOf(i), RecordsOf(i)))'
<1>1. RecordsOf(i)' = RecordsOf(i)
  BY DEF data, RecordsOf, ChunkIndexOf
<1>2. Accepted(BlockOf(i), RecordsOf(i))' = Accepted(BlockOf(i), RecordsOf(i))
  BY <1>1 DEF data, Accepted, BlockOf
<1>. QED
  BY <1>2 DEF WalksInv, PartialsInv

\* A failed task, when no failure's record changes.
LEMMA ThrownStays ==
  ASSUME WalksInv, UNCHANGED <<data, thrown>>, Failed' = Failed
  PROVE  ThrownInv'
BY DEF WalksInv, ThrownInv, data, RecordsBelow, RecordsOf, BlockOf, ChunkIndexOf

\* A step that leaves the pool and the walk alone.
LEMMA StillWalks ==
  ASSUME WalksInv, UNCHANGED <<vars, data, walk>>
  PROVE  WalksInv'
<1>. UNCHANGED <<inputs, data, task, done, thrown>> /\ Tasks' = Tasks /\ Begun' = Begun
     /\ Failed' = Failed /\ \A u \in Threads : InBody(u)' <=> InBody(u)
  BY DEF vars, inputs, result, shared, history, walk, Tasks, Begun, Running, Failed, InBody
<1>1. \A i \in Tasks : Partial(i)' = Partial(i)
  BY DEF walk, data, Partial, BlockOf, ChunkIndexOf
<1>2. \A i \in done : Partial(i)' = Partial(i)
  BY DEF walk, data, Partial, BlockOf, ChunkIndexOf
<1>3. \A u \in Threads : Partial(task[u])' = Partial(task[u]) /\ walked'[u] = walked[u]
  BY DEF walk, data, Partial, BlockOf, ChunkIndexOf
<1>4. DataInv'
  BY DataStays DEF WalksInv
<1>5. WalkInv'
  BY <1>3, RunningStays DEF WalkInv, WalksInv
<1>6. PartialsInv'
  BY <1>1, <1>2, <1>3, RunningStays, DoneStays DEF PartialsInv, WalksInv
<1>. QED
  BY <1>4, <1>5, <1>6, ThrownStays DEF WalksInv

\* A task that is begun has an empty partial and nothing behind it.
LEMMA PoolRunsKeepsWalks ==
  ASSUME PoolInv, WalksInv, WalkTypeOK, NEW t \in Threads, PoolRuns(t)
  PROVE  WalksInv'
<1>1. OpensOnly /\ UNCHANGED engineVars
  BY LoopOpensOnly, CallerOpensOnly DEF PoolRuns
<1>2. UNCHANGED <<inputs, data, walk>> /\ UNCHANGED <<done, Failed>>
  BY <1>1 DEF OpensOnly, engineVars
<1>3. DataInv'
  BY <1>2, DataStays DEF WalksInv
<1>4. ASSUME NEW u \in Threads, InBody(u)'
      PROVE  \/ InBody(u) /\ task'[u] = task[u]
             \/ /\ task'[u] \in Tasks \ Begun
                /\ walked[u] = 0
                /\ Partial(task'[u]) = <<>>
                /\ RangeOf(task'[u]).startIndex \in Nat
                /\ RangeOf(task'[u]).startIndex <= RangeOf(task'[u]).endIndex
                /\ RecordsBelow(task'[u], RangeOf(task'[u]).startIndex) = {}
  <2>. SUFFICES ASSUME ~(InBody(u) /\ task'[u] = task[u])
                PROVE  /\ task'[u] \in Tasks \ Begun
                       /\ walked[u] = 0
                       /\ Partial(task'[u]) = <<>>
                       /\ RangeOf(task'[u]).startIndex \in Nat
                       /\ RangeOf(task'[u]).startIndex <= RangeOf(task'[u]).endIndex
                       /\ RecordsBelow(task'[u], RangeOf(task'[u]).startIndex) = {}
    OBVIOUS
  <2>1. task'[u] \in Tasks \ Begun /\ ~InBody(u)
    BY <1>1, <1>4 DEF OpensOnly
  <2>2. walked[u] = 0 /\ Partial(task'[u]) = <<>>
    BY <2>1 DEF WalksInv, WalkInv, PartialsInv
  <2>3. RecordsBelow(task'[u], RangeOf(task'[u]).startIndex) = {}
    BY <2>1, TaskHasChunk DEF WalksInv, RecordsBelow
  <2>. QED
    BY <2>1, <2>2, <2>3, TaskHasChunk DEF WalksInv
<1>5. WalkInv'
  <2>. SUFFICES ASSUME NEW u \in Threads
                PROVE  (IF InBody(u)
                        THEN /\ Current(u) <= RangeOf(task[u]).endIndex
                             /\ \A r \in RecordsBelow(task[u], Current(u)) :
                                  <<BlockOf(task[u]), r>> \notin throwing
                        ELSE walked[u] = 0)'
    BY DEF WalkInv
  <2>1. CASE ~InBody(u)'
    <3>1. ~InBody(u)
      BY <1>1, <2>1 DEF OpensOnly
    <3>. QED
      BY <1>2, <2>1, <3>1 DEF WalksInv, WalkInv, walk
  <2>2. CASE InBody(u)' /\ InBody(u) /\ task'[u] = task[u]
    <3>1. Partial(task[u])' = Partial(task[u]) /\ walked'[u] = walked[u] /\ UNCHANGED data
      BY <1>2, <2>2 DEF walk, data, Partial, BlockOf, ChunkIndexOf
    <3>. QED
      BY <2>2, <3>1, RunningStays
  <2>3. CASE InBody(u)' /\ ~(InBody(u) /\ task'[u] = task[u])
    <3>1. walked[u] = 0 /\ RangeOf(task'[u]).startIndex \in Nat
          /\ RangeOf(task'[u]).startIndex <= RangeOf(task'[u]).endIndex
          /\ RecordsBelow(task'[u], RangeOf(task'[u]).startIndex) = {}
      BY <1>4, <2>3
    <3>. QED
      BY <1>2, <2>3, <3>1 DEF walk, data, Current, RangeOf, RecordsBelow, RecordsOf, BlockOf,
                              ChunkIndexOf
  <2>. QED
    BY <2>1, <2>2, <2>3
<1>6. PartialsInv'
  <2>1. ASSUME NEW i \in Tasks', i \notin Begun'
        PROVE  Partial(i)' = <<>>
    <3>1. Tasks' = Tasks
      BY <1>2 DEF inputs, Tasks
    <3>2. Begun \subseteq Begun'
      BY <1>1, <1>2 DEF OpensOnly, Begun, Running
    <3>3. Partial(i) = <<>>
      BY <2>1, <3>1, <3>2 DEF WalksInv, PartialsInv
    <3>. QED
      BY <1>2, <3>3 DEF Partial, BlockOf, ChunkIndexOf, walk, data
  <2>2. ASSUME NEW u \in Threads, InBody(u)'
        PROVE  InRecordOrder(Partial(task[u]),
                 Accepted(BlockOf(task[u]), RecordsBelow(task[u], Current(u))))'
    <3>1. CASE InBody(u) /\ task'[u] = task[u]
      <4>1. Partial(task[u])' = Partial(task[u]) /\ walked'[u] = walked[u] /\ UNCHANGED data
        BY <1>2, <3>1 DEF walk, data, Partial, BlockOf, ChunkIndexOf
      <4>. QED
        BY <3>1, <4>1, RunningStays
    <3>2. CASE ~(InBody(u) /\ task'[u] = task[u])
      <4>1. walked[u] = 0 /\ RangeOf(task'[u]).startIndex \in Nat
            /\ Partial(task'[u]) = <<>>
            /\ RecordsBelow(task'[u], RangeOf(task'[u]).startIndex) = {}
        BY <1>4, <2>2, <3>2
      <4>2. Partial(task[u])' = <<>> /\ RecordsBelow(task[u], Current(u))' = {}
        BY <1>2, <4>1 DEF walk, data, Partial, Current, RangeOf, RecordsBelow, RecordsOf,
                          BlockOf, ChunkIndexOf
      <4>3. Accepted(BlockOf(task[u]), RecordsBelow(task[u], Current(u)))' = {}
        BY <4>2 DEF Accepted
      <4>. QED
        BY <4>2, <4>3, EmptyInRecordOrder DEF InRecordOrder
    <3>. QED
      BY <3>1, <3>2
  <2>3. ASSUME NEW i \in done'
        PROVE  InRecordOrder(Partial(i), Accepted(BlockOf(i), RecordsOf(i)))'
    <3>1. Partial(i)' = Partial(i) /\ i \in done /\ UNCHANGED data
      BY <1>2, <2>3 DEF walk, data, Partial, BlockOf, ChunkIndexOf
    <3>. QED
      BY <3>1, DoneStays
  <2>. QED
    BY <2>1, <2>2, <2>3 DEF PartialsInv
<1>7. ThrownInv'
  BY <1>2, ThrownStays DEF walk
<1>. QED
  BY <1>3, <1>5, <1>6, <1>7 DEF WalksInv

\* A thread passes a record: what is behind it grows by that record, which comes
\* after all that were behind it.
LEMMA PassesOne ==
  ASSUME PoolInv, WalksInv, WalkTypeOK, NEW t \in Threads, InChunk(t),
         UNCHANGED <<vars, data>>, walked' = [walked EXCEPT ![t] = @ + 1]
  PROVE  /\ Current(t) \in RecordsOf(task[t])
         /\ (Current(t) <= RangeOf(task[t]).endIndex)'
         /\ RecordsBelow(task[t], Current(t)) \subseteq Nat
         /\ \A r \in RecordsBelow(task[t], Current(t)) : r < Current(t)
         /\ RecordsBelow(task[t], Current(t))'
              = RecordsBelow(task[t], Current(t)) \union {Current(t)}
<1>. DEFINE lo == RangeOf(task[t]).startIndex  hi == RangeOf(task[t]).endIndex
            R == RecordsOf(task[t])
<1>1. task[t] \in Tasks
  BY RunningIsOpen DEF InChunk
<1>2. /\ lo \in Nat /\ hi \in Nat /\ walked[t] \in Nat
      /\ R = {r \in Nat : lo <= r /\ r < hi}
  BY <1>1, TaskHasChunk DEF WalksInv, WalkTypeOK
<1>3. Current(t) = lo + walked[t] /\ Current(t) < hi
  BY <1>2 DEF InChunk, AtChunkEnd, Current
<1>4. Current(t)' = Current(t) + 1 /\ RangeOf(task[t])' = RangeOf(task[t])
      /\ RecordsOf(task[t])' = R
  <2>1. RangeOf(task[t])' = RangeOf(task[t]) /\ RecordsOf(task[t])' = R
    BY DEF vars, data, RangeOf, RecordsOf, ChunkIndexOf
  <2>2. walked'[t] = walked[t] + 1
    BY DEF WalkTypeOK
  <2>3. Current(t)' = lo + walked'[t]
    BY <2>1 DEF Current
  <2>. QED
    BY <1>2, <1>3, <2>1, <2>2, <2>3
<1>5. Current(t) \in R /\ R \subseteq Nat
  BY <1>2, <1>3
<1>6. RecordsBelow(task[t], Current(t))' = {r \in R : r < Current(t) + 1}
  BY <1>4 DEF RecordsBelow
<1>7. {r \in R : r < Current(t) + 1} = {r \in R : r < Current(t)} \union {Current(t)}
  BY <1>2, <1>3, <1>5
<1>. QED
  BY <1>2, <1>3, <1>4, <1>5, <1>6, <1>7 DEF RecordsBelow

\* If the record does not throw, what is said of every walk goes on being so.
LEMMA PassingKeepsWalkInv ==
  ASSUME PoolInv, WalksInv, WalkTypeOK, NEW t \in Threads, InChunk(t),
         UNCHANGED <<vars, data>>, walked' = [walked EXCEPT ![t] = @ + 1],
         Pair(t) \notin throwing
  PROVE  WalkInv'
<1>. SUFFICES ASSUME NEW u \in Threads
              PROVE  (IF InBody(u)
                      THEN /\ Current(u) <= RangeOf(task[u]).endIndex
                           /\ \A r \in RecordsBelow(task[u], Current(u)) :
                                <<BlockOf(task[u]), r>> \notin throwing
                      ELSE walked[u] = 0)'
  BY DEF WalkInv
<1>1. /\ task'[u] = task[u] /\ throwing' = throwing /\ BlockOf(task[u])' = BlockOf(task[u])
      /\ InBody(u)' <=> InBody(u)
  BY DEF vars, data, InBody, BlockOf
<1>2. CASE u = t
  <2>1. (Current(t) <= RangeOf(task[t]).endIndex)'
    BY PassesOne
  <2>2. RecordsBelow(task[t], Current(t))'
          = RecordsBelow(task[t], Current(t)) \union {Current(t)}
    BY PassesOne
  <2>3. InBody(t)
    BY DEF InChunk
  <2>4. \A r \in RecordsBelow(task[t], Current(t)) : <<BlockOf(task[t]), r>> \notin throwing
    BY <2>3 DEF WalksInv, WalkInv
  <2>5. (\A r \in RecordsBelow(task[t], Current(t)) : <<BlockOf(task[t]), r>> \notin throwing)'
    BY <1>1, <1>2, <2>2, <2>4 DEF Pair
  <2>. QED
    BY <1>1, <1>2, <2>1, <2>3, <2>5
<1>3. CASE u # t
  <2>1. walked'[u] = walked[u]
    BY <1>3 DEF WalkTypeOK
  <2>2. CASE InBody(u)
    <3>1. RecordsBelow(task[u], Current(u))' = RecordsBelow(task[u], Current(u))
      BY <1>1, <2>1 DEF vars, data, Current, RangeOf, RecordsBelow, RecordsOf, ChunkIndexOf
    <3>2. (Current(u) <= RangeOf(task[u]).endIndex)'
      BY <1>1, <2>1, <2>2 DEF WalksInv, WalkInv, data, Current, RangeOf, ChunkIndexOf
    <3>3. (\A r \in RecordsBelow(task[u], Current(u)) : <<BlockOf(task[u]), r>> \notin throwing)'
      BY <1>1, <2>2, <3>1 DEF WalksInv, WalkInv
    <3>. QED
      BY <1>1, <2>2, <3>2, <3>3
  <2>3. CASE ~InBody(u)
    BY <1>1, <2>1, <2>3 DEF WalksInv, WalkInv
  <2>. QED
    BY <2>2, <2>3
<1>. QED
  BY <1>2, <1>3

\* What passing a record must do to the walking thread's partial, the others
\* being left alone.
LEMMA PassingKeepsWalks ==
  ASSUME PoolInv, WalksInv, WalkTypeOK, NEW t \in Threads, InChunk(t),
         UNCHANGED <<vars, data, thrown>>, walked' = [walked EXCEPT ![t] = @ + 1],
         Pair(t) \notin throwing,
         \A i \in Tasks \ {task[t]} : Partial(i)' = Partial(i),
         InRecordOrder(Partial(task[t]),
           Accepted(BlockOf(task[t]), RecordsBelow(task[t], Current(t))))'
  PROVE  WalksInv'
<1>. UNCHANGED <<inputs, data, task, done>> /\ Tasks' = Tasks /\ Begun' = Begun
     /\ Failed' = Failed /\ \A u \in Threads : InBody(u)' <=> InBody(u)
  BY DEF vars, inputs, result, shared, history, Tasks, Begun, Running, Failed, InBody
<1>1. DataInv'
  BY DataStays DEF WalksInv
<1>2. WalkInv'
  BY PassingKeepsWalkInv
<1>3. ThrownInv'
  BY ThrownStays
<1>4. task[t] \in Tasks /\ task[t] \in Begun /\ task[t] \notin done /\ done \subseteq Tasks
  <2>1. InBody(t)
    BY DEF InChunk
  <2>. QED
    BY <2>1, RunningIsOpen DEF Begun, Running, PoolInv, ClaimsInv
<1>5. \A i \in Tasks : i \notin Begun => Partial(i)' = <<>>
  BY <1>4 DEF WalksInv, PartialsInv
<1>6. ASSUME NEW u \in Threads, InBody(u)'
      PROVE  InRecordOrder(Partial(task[u]),
               Accepted(BlockOf(task[u]), RecordsBelow(task[u], Current(u))))'
  <2>1. CASE u = t
    BY <2>1
  <2>2. CASE u # t
    <3>1. InBody(u) /\ InBody(t)
      BY <1>6 DEF InChunk
    <3>2. task[u] # task[t] /\ task[u] \in Tasks
      BY <2>2, <3>1, InvKeepsTasksOnce, RunningIsOpen DEF EachTaskOnce
    <3>3. Partial(task[u])' = Partial(task[u]) /\ walked'[u] = walked[u]
      <4>1. PICK i \in Tasks : i = task[u]
        BY <3>2
      <4>2. Partial(i)' = Partial(i)
        BY <3>2, <4>1
      <4>. QED
        BY <2>2, <4>1, <4>2 DEF WalkTypeOK, Partial, BlockOf, ChunkIndexOf
    <3>. QED
      BY <3>1, <3>3, RunningStays
  <2>. QED
    BY <2>1, <2>2
<1>7. \A i \in done : InRecordOrder(Partial(i), Accepted(BlockOf(i), RecordsOf(i)))'
  BY <1>4, DoneStays
<1>8. PartialsInv'
  BY <1>5, <1>6, <1>7 DEF PartialsInv
<1>. QED
  BY <1>1, <1>2, <1>3, <1>8 DEF WalksInv

LEMMA SkipKeepsWalks ==
  ASSUME PoolInv, WalksInv, WalkTypeOK, NEW t \in Threads, SkipRecord(t)
  PROVE  WalksInv' /\ WalkTypeOK'
<1>1. /\ InChunk(t) /\ UNCHANGED <<vars, data, thrown>> /\ Pair(t) \notin throwing
      /\ walked' = [walked EXCEPT ![t] = @ + 1]
      /\ UNCHANGED <<partials, tallies, contributions, excluded>>
  BY DEF SkipRecord, data
<1>2. \A i \in Tasks : Partial(i)' = Partial(i)
  BY <1>1 DEF data, Partial, BlockOf, ChunkIndexOf
<1>3. InRecordOrder(Partial(task[t]),
        Accepted(BlockOf(task[t]), RecordsBelow(task[t], Current(t))))'
  <2>1. RecordsBelow(task[t], Current(t))'
          = RecordsBelow(task[t], Current(t)) \union {Current(t)}
    BY <1>1, PassesOne
  <2>2. <<BlockOf(task[t]), Current(t)>> \in excluded
    BY DEF SkipRecord, Pair
  <2>3. BlockOf(task[t])' = BlockOf(task[t]) /\ Partial(task[t])' = Partial(task[t])
    BY <1>1 DEF vars, data, BlockOf, ChunkIndexOf, Partial
  <2>4. Accepted(BlockOf(task[t]), RecordsBelow(task[t], Current(t)))'
          = Accepted(BlockOf(task[t]), RecordsBelow(task[t], Current(t)))
    BY <1>1, <2>1, <2>2, <2>3 DEF Accepted
  <2>5. InRecordOrder(Partial(task[t]),
          Accepted(BlockOf(task[t]), RecordsBelow(task[t], Current(t))))
    BY DEF SkipRecord, InChunk, WalksInv, PartialsInv
  <2>. QED
    BY <2>3, <2>4, <2>5
<1>4. WalkTypeOK'
  BY <1>1 DEF WalkTypeOK, vars, inputs, data, Tasks, Blocks, Chunks, Records
<1>. QED
  BY <1>1, <1>2, <1>3, <1>4, PassingKeepsWalks

LEMMA AddKeepsWalks ==
  ASSUME PoolInv, WalksInv, WalkTypeOK, NEW t \in Threads, AddRecord(t)
  PROVE  WalksInv' /\ WalkTypeOK'
<1>. DEFINE b == BlockOf(task[t])  c == ChunkIndexOf(task[t])  r == Current(t)
            passed == Accepted(b, RecordsBelow(task[t], r))
<1>1. /\ InChunk(t) /\ UNCHANGED <<vars, data, thrown>> /\ Pair(t) \notin throwing
      /\ walked' = [walked EXCEPT ![t] = @ + 1]
      /\ <<b, r>> \notin excluded
  BY DEF AddRecord, Pair
<1>2. /\ partials' = [partials EXCEPT ![b][c] = Append(@, r)]
      /\ tallies' = [tallies EXCEPT ![b][c] = @ + 1]
      /\ contributions' = contributions \union {<<b, r>>}
  BY DEF AddRecord, Pair
<1>3. /\ task[t] \in Tasks /\ b \in Blocks /\ c \in Chunks /\ r \in Records /\ r \in Nat
  <2>1. task[t] \in Tasks
    BY <1>1, RunningIsOpen DEF InChunk
  <2>2. r \in RecordsOf(task[t])
    BY <1>1, PassesOne
  <2>3. r \in Records /\ r \in Nat
    BY <2>1, <2>2, TaskHasChunk DEF WalksInv, DataInv, Records
  <2>. QED
    BY <2>1, <2>3, TaskHasChunk DEF WalksInv
<1>4. ASSUME NEW i \in Tasks \ {task[t]}
      PROVE  Partial(i)' = Partial(i)
  <2>1. BlockOf(i) \in Blocks /\ ChunkIndexOf(i) \in Chunks
    BY TaskHasChunk DEF WalksInv
  <2>2. BlockOf(i) # b \/ ChunkIndexOf(i) # c
    BY <1>3, PartialsApart DEF WalksInv
  <2>3. partials'[BlockOf(i)][ChunkIndexOf(i)] = partials[BlockOf(i)][ChunkIndexOf(i)]
    BY <1>2, <1>3, <2>1, <2>2 DEF WalkTypeOK
  <2>. QED
    BY <1>1, <2>3 DEF Partial, BlockOf, ChunkIndexOf, data
<1>5. Partial(task[t])' = Append(Partial(task[t]), r)
  <2>1. partials'[b][c] = Append(partials[b][c], r)
    BY <1>2, <1>3 DEF WalkTypeOK
  <2>. QED
    BY <1>1, <2>1 DEF Partial, BlockOf, ChunkIndexOf, data, vars
<1>6. InRecordOrder(Partial(task[t]),
        Accepted(BlockOf(task[t]), RecordsBelow(task[t], Current(t))))'
  <2>1. RecordsBelow(task[t], Current(t))' = RecordsBelow(task[t], r) \union {r}
    BY <1>1, PassesOne
  <2>2. Accepted(BlockOf(task[t]), RecordsBelow(task[t], Current(t)))' = passed \union {r}
    BY <1>1, <2>1 DEF Accepted, BlockOf, data, vars
  <2>3. InRecordOrder(Partial(task[t]), passed)
    BY <1>1 DEF InChunk, WalksInv, PartialsInv
  <2>4. passed \in SUBSET Nat /\ \A x \in passed : x < r
    BY <1>1, PassesOne DEF Accepted
  <2>5. InRecordOrder(Append(Partial(task[t]), r), passed \union {r})
    BY <1>3, <2>3, <2>4, AppendInRecordOrder
  <2>. QED
    BY <1>5, <2>2, <2>5
<1>7. WalkTypeOK'
  <2>1. partials' \in [Blocks -> [Chunks -> Seq(Records)]]
    BY <1>2, <1>3 DEF WalkTypeOK
  <2>2. tallies' \in [Blocks -> [Chunks -> Nat]]
    BY <1>2, <1>3 DEF WalkTypeOK
  <2>3. contributions' \subseteq Blocks \X Records
    BY <1>2, <1>3 DEF WalkTypeOK
  <2>4. walked' \in [Threads -> Nat]
    BY <1>1 DEF WalkTypeOK
  <2>. QED
    BY <1>1, <2>1, <2>2, <2>3, <2>4 DEF WalkTypeOK, vars, inputs, data, Tasks, Blocks, Chunks,
                                        Records
<1>. QED
  BY <1>1, <1>4, <1>6, <1>7, PassingKeepsWalks

\* A thread leaves a body: the other walks go on, and no task becomes unbegun.
LEMMA LeavingKeepsTheOthers ==
  ASSUME PoolInv, WalksInv, WalkTypeOK, NEW t \in Threads, Returns(t) \/ Throws(t),
         UNCHANGED <<data, partials>>, walked' = [walked EXCEPT ![t] = 0]
  PROVE  /\ DataInv' /\ WalkInv'
         /\ \A i \in Tasks' : i \notin Begun' => Partial(i)' = <<>>
         /\ \A u \in Threads : InBody(u)' =>
              InRecordOrder(Partial(task[u]),
                Accepted(BlockOf(task[u]), RecordsBelow(task[u], Current(u))))'
         /\ \A i \in done : InRecordOrder(Partial(i), Accepted(BlockOf(i), RecordsOf(i)))'
<1>1. /\ UNCHANGED inputs /\ InBody(t) /\ ~InBody(t)'
      /\ \A u \in Threads \ {t} : (InBody(u)' <=> InBody(u)) /\ task'[u] = task[u]
      /\ done \union Failed \union {task[t]} = done' \union Failed'
  BY BodyEnds
<1>2. \A i : Partial(i)' = Partial(i)
  BY DEF Partial, BlockOf, ChunkIndexOf, data
<1>3. DataInv'
  BY <1>1, DataStays DEF WalksInv
<1>4. ASSUME NEW u \in Threads, InBody(u)'
      PROVE  /\ (Current(u) <= RangeOf(task[u]).endIndex)'
             /\ (\A r \in RecordsBelow(task[u], Current(u)) :
                   <<BlockOf(task[u]), r>> \notin throwing)'
             /\ InRecordOrder(Partial(task[u]),
                  Accepted(BlockOf(task[u]), RecordsBelow(task[u], Current(u))))'
  <2>1. u # t /\ InBody(u) /\ task'[u] = task[u]
    BY <1>1, <1>4
  <2>2. walked'[u] = walked[u] /\ Partial(task[u])' = Partial(task[u])
    BY <2>1 DEF WalkTypeOK, Partial, BlockOf, ChunkIndexOf, data
  <2>. QED
    BY <2>1, <2>2, RunningStays
<1>5. ASSUME NEW u \in Threads, ~InBody(u)'
      PROVE  walked'[u] = 0
  BY <1>1, <1>5 DEF WalkTypeOK, WalksInv, WalkInv
<1>6. WalkInv'
  BY <1>4, <1>5 DEF WalkInv
<1>7. Begun \subseteq Begun' /\ Tasks' = Tasks
  BY <1>1 DEF Begun, Running, inputs, Tasks
<1>8. \A i \in Tasks' : i \notin Begun' => Partial(i)' = <<>>
  BY <1>2, <1>7 DEF WalksInv, PartialsInv
<1>. QED
  BY <1>2, <1>3, <1>4, <1>6, <1>8, DoneStays

\* A chunk walked to its end has all of its records in its partial.
LEMMA EndChunkKeepsWalks ==
  ASSUME PoolInv, WalksInv, WalkTypeOK, NEW t \in Threads, EndChunk(t)
  PROVE  WalksInv' /\ WalkTypeOK'
<1>. DEFINE i == task[t]
<1>1. /\ Returns(t) /\ InBody(t) /\ AtChunkEnd(t)
      /\ walked' = [walked EXCEPT ![t] = 0]
      /\ UNCHANGED <<data, partials, tallies, contributions, thrown>>
  BY DEF EndChunk
<1>2. i \in Tasks /\ UNCHANGED inputs /\ done' = done \union {i} /\ Failed' = Failed
  BY <1>1, RunningIsOpen, BodyEnds
<1>3. RecordsBelow(i, Current(t)) = RecordsOf(i)
  <2>1. /\ RangeOf(i).endIndex \in Nat /\ RangeOf(i).startIndex \in Nat
        /\ RecordsOf(i) = {r \in Nat : RangeOf(i).startIndex <= r /\ r < RangeOf(i).endIndex}
    BY <1>2, TaskHasChunk DEF WalksInv
  <2>2. Current(t) \in Nat /\ RangeOf(i).endIndex <= Current(t)
    BY <1>1, <2>1 DEF AtChunkEnd, Current, WalkTypeOK
  <2>. QED
    BY <2>1, <2>2 DEF RecordsBelow
<1>4. InRecordOrder(Partial(i), Accepted(BlockOf(i), RecordsOf(i)))
  BY <1>1, <1>3 DEF WalksInv, PartialsInv
<1>5. ASSUME NEW j \in done'
      PROVE  InRecordOrder(Partial(j), Accepted(BlockOf(j), RecordsOf(j)))'
  <2>1. CASE j \in done
    BY <1>1, <2>1, LeavingKeepsTheOthers
  <2>2. CASE j = i
    <3>1. Partial(j)' = Partial(i) /\ RecordsOf(j)' = RecordsOf(i)
      BY <1>1, <2>2 DEF Partial, RecordsOf, BlockOf, ChunkIndexOf, data
    <3>2. Accepted(BlockOf(j), RecordsOf(j))' = Accepted(BlockOf(i), RecordsOf(i))
      BY <1>1, <2>2, <3>1 DEF Accepted, BlockOf, data
    <3>. QED
      BY <1>4, <3>1, <3>2
  <2>. QED
    BY <1>2, <2>1, <2>2
<1>6. PartialsInv'
  <2>1. \A j \in Tasks' : j \notin Begun' => Partial(j)' = <<>>
    BY <1>1, LeavingKeepsTheOthers
  <2>2. \A u \in Threads : InBody(u)' =>
          InRecordOrder(Partial(task[u]),
            Accepted(BlockOf(task[u]), RecordsBelow(task[u], Current(u))))'
    BY <1>1, LeavingKeepsTheOthers
  <2>. QED
    BY <1>5, <2>1, <2>2 DEF PartialsInv
<1>7. WalkTypeOK'
  BY <1>1, <1>2 DEF WalkTypeOK, inputs, data, Tasks, Blocks, Chunks, Records
<1>. QED
  BY <1>1, <1>2, <1>6, <1>7, LeavingKeepsTheOthers, ThrownStays DEF WalksInv

\* The record that throws is the first of its chunk to do so.
LEMMA ThrowKeepsWalks ==
  ASSUME PoolInv, WalksInv, WalkTypeOK, NEW t \in Threads, ThrowFromRecord(t)
  PROVE  WalksInv' /\ WalkTypeOK'
<1>. DEFINE i == task[t]  r == Current(t)
<1>1. /\ Throws(t) /\ InBody(t) /\ ~AtChunkEnd(t) /\ <<BlockOf(i), r>> \in throwing
      /\ walked' = [walked EXCEPT ![t] = 0]
      /\ thrown' = [thrown EXCEPT ![i] = r]
      /\ UNCHANGED <<data, partials, tallies, contributions>>
  BY DEF ThrowFromRecord, InChunk, Pair
<1>2. i \in Tasks /\ UNCHANGED inputs /\ done' = done /\ Failed' = Failed \union {i}
  BY <1>1, RunningIsOpen, BodyEnds
<1>3. r \in RecordsOf(i) /\ r \in Nat
  <2>1. /\ RangeOf(i).endIndex \in Nat /\ RangeOf(i).startIndex \in Nat
        /\ RecordsOf(i) = {x \in Nat : RangeOf(i).startIndex <= x /\ x < RangeOf(i).endIndex}
    BY <1>2, TaskHasChunk DEF WalksInv
  <2>. QED
    BY <1>1, <2>1 DEF AtChunkEnd, Current, WalkTypeOK
<1>4. \A x \in RecordsBelow(i, r) : <<BlockOf(i), x>> \notin throwing
  BY <1>1 DEF WalksInv, WalkInv
<1>5. thrown'[i] = r /\ \A j \in Tasks \ {i} : thrown'[j] = thrown[j]
  BY <1>1, <1>2 DEF WalkTypeOK
<1>6. ASSUME NEW j \in Failed'
      PROVE  /\ (thrown[j] \in RecordsOf(j))'
             /\ (<<BlockOf(j), thrown[j]>> \in throwing)'
             /\ (\A x \in RecordsBelow(j, thrown[j]) : <<BlockOf(j), x>> \notin throwing)'
  <2>1. CASE j = i
    <3>1. thrown'[j] = r
      BY <1>5, <2>1
    <3>2. RecordsOf(j)' = RecordsOf(i) /\ BlockOf(j)' = BlockOf(i) /\ throwing' = throwing
      BY <1>1, <2>1 DEF RecordsOf, ChunkIndexOf, BlockOf, data
    <3>3. RecordsBelow(j, thrown[j])' = RecordsBelow(i, r)
      BY <3>1, <3>2 DEF RecordsBelow
    <3>. QED
      BY <1>1, <1>3, <1>4, <3>1, <3>2, <3>3
  <2>2. CASE j # i
    <3>1. j \in Failed
      BY <1>2, <2>2
    <3>2. thrown'[j] = thrown[j]
      BY <1>1, <1>2, <2>2 DEF WalkTypeOK
    <3>3. RecordsOf(j)' = RecordsOf(j) /\ BlockOf(j)' = BlockOf(j) /\ throwing' = throwing
      BY <1>1 DEF RecordsOf, ChunkIndexOf, BlockOf, data
    <3>4. RecordsBelow(j, thrown[j])' = RecordsBelow(j, thrown[j])
      BY <3>2, <3>3 DEF RecordsBelow
    <3>. QED
      BY <3>1, <3>2, <3>3, <3>4 DEF WalksInv, ThrownInv
  <2>. QED
    BY <2>1, <2>2
<1>7. ThrownInv'
  BY <1>6 DEF ThrownInv
<1>8. PartialsInv'
  BY <1>1, <1>2, LeavingKeepsTheOthers DEF PartialsInv
<1>9. WalkTypeOK'
  BY <1>1, <1>2, <1>3 DEF WalkTypeOK, inputs, data, Tasks, Blocks, Chunks, Records
<1>. QED
  BY <1>1, <1>7, <1>8, <1>9, LeavingKeepsTheOthers DEF WalksInv

-----------------------------------------------------------------------------
(* The answers.                                                             *)

\* Folding, once every task is done, gives each block its partials.
LEMMA FoldIsAsIfAlone ==
  ASSUME PoolInv, WalksInv, FoldPartials
  PROVE  ScheduleCannotMoveATotal'
<1>. DEFINE K == ChunkCount(records)
<1>1. done = Tasks
  BY DEF FoldPartials, Ended, PoolInv, CompletedMeansAllRan
<1>2. totals' = [b \in Blocks |-> Fold(b)] /\ UNCHANGED data
  BY DEF FoldPartials
<1>3. K \in Nat /\ blockCount \in Nat /\ taskCount = blockCount * K
  BY ChunkCounts DEF WalksInv, DataInv
<1>4. ASSUME NEW b \in Blocks
      PROVE  /\ DOMAIN Fold(b) = 1 .. K
             /\ \A c \in Chunks : Fold(b)[c + 1] = partials[b][c]
  BY <1>3 DEF Fold, Chunks
<1>5. ASSUME NEW b \in Blocks, NEW c \in Chunks
      PROVE  InRecordOrder(partials[b][c], Accepted(b, ChunkRecords(records, c)))
  <2>. DEFINE i == b * K + c
  <2>1. K \in Nat \ {0} /\ b \in Nat
    BY <1>3 DEF Chunks, Blocks
  <2>2. i \in Tasks
    BY <1>3, <2>1, TaskOfPair DEF Tasks, Blocks, Chunks
  <2>3. BlockOf(i) = b /\ ChunkIndexOf(i) = c
    BY <2>1, PairIsItsTask
  <2>4. InRecordOrder(Partial(i), Accepted(BlockOf(i), RecordsOf(i)))
    BY <1>1, <2>2 DEF WalksInv, PartialsInv
  <2>. QED
    BY <2>3, <2>4 DEF Partial, RecordsOf
<1>6. ASSUME NEW b \in Blocks
      PROVE  AsIfAlone(b, totals[b])'
  <2>1. totals'[b] = Fold(b)
    BY <1>2
  <2>2. DOMAIN totals'[b] = 1 .. K
    BY <1>4, <2>1
  <2>3. ASSUME NEW c \in Chunks
        PROVE  InRecordOrder(totals'[b][c + 1], Accepted(b, ChunkRecords(records, c)))
    BY <1>4, <1>5, <2>1
  <2>. QED
    BY <1>2, <2>2, <2>3 DEF AsIfAlone, Accepted, Chunks, data
<1>7. Blocks' = Blocks
  BY <1>2 DEF Blocks, data
<1>. QED
  BY <1>6, <1>7 DEF ScheduleCannotMoveATotal

\* The answers as they stand, while they are not being given.
LEMMA AnswerStays ==
  ASSUME NoPartialAnswer, ScheduleCannotMoveATotal,
         UNCHANGED <<data, totals, included>>,
         phase' = phase \/ (phase # "returned" /\ (phase' # "returned" \/ blockCount = 0))
  PROVE  NoPartialAnswer' /\ ScheduleCannotMoveATotal'
<1>1. Blocks' = Blocks
  BY DEF Blocks, data
<1>2. NoPartialAnswer'
  BY <1>1 DEF NoPartialAnswer
<1>3. ASSUME phase' = "returned", NEW b \in Blocks'
      PROVE  AsIfAlone(b, totals[b])'
  <2>1. phase = "returned"
    <3>1. blockCount = 0 => Blocks = {}
      BY DEF Blocks
    <3>. QED
      BY <1>1, <1>3, <3>1
  <2>2. AsIfAlone(b, totals[b])
    BY <1>1, <2>1 DEF ScheduleCannotMoveATotal
  <2>3. UNCHANGED <<records, totals>>
    BY DEF data
  <2>4. DOMAIN totals'[b] = 1 .. ChunkCount(records')
    BY <2>2, <2>3 DEF AsIfAlone
  <2>5. ASSUME NEW c \in Chunks'
        PROVE  InRecordOrder(totals[b][c + 1], Accepted(b, ChunkRecords(records, c)))'
    <3>1. Accepted(b, ChunkRecords(records, c))' = Accepted(b, ChunkRecords(records, c))
      BY <2>3 DEF Accepted, data
    <3>2. c \in Chunks
      BY <2>3, <2>5 DEF Chunks
    <3>. QED
      BY <2>2, <2>3, <3>1, <3>2 DEF AsIfAlone
  <2>. QED
    BY <2>4, <2>5 DEF AsIfAlone
<1>4. ScheduleCannotMoveATotal'
  BY <1>3 DEF ScheduleCannotMoveATotal
<1>. QED
  BY <1>2, <1>4

-----------------------------------------------------------------------------
(* The invariant, and what follows from it.                                 *)

LEMMA EngineInitInv == EngineInit => EngineInv
<1>. SUFFICES ASSUME EngineInit PROVE EngineInv
  OBVIOUS
<1>1. PoolInv /\ DataInv
  BY EngineInitsThePool, InitPoolInv
<1>2. /\ done = {} /\ Failed = {} /\ \A t \in Threads : ~InBody(t)
  <2>1. /\ pc = [t \in Threads |-> IF t = Caller THEN "enter" ELSE "unborn"]
        /\ done = {} /\ failures = {} /\ outcome = "none" /\ Caller \in Threads
    BY PoolAssumption DEF EngineInit, PoolInit, Threads, Caller
  <2>2. Failed = {}
    BY <2>1 DEF Failed
  <2>3. \A t \in Threads : ~InBody(t)
    BY <2>1 DEF InBody
  <2>. QED
    BY <2>1, <2>2, <2>3
<1>3. /\ walked = [t \in Threads |-> 0]
      /\ partials = [b \in Blocks |-> [c \in Chunks |-> <<>>]]
      /\ tallies = [b \in Blocks |-> [c \in Chunks |-> 0]]
      /\ contributions = {} /\ thrown = [i \in Tasks |-> 0]
      /\ totals = [b \in Blocks |-> <<>>] /\ included = [b \in Blocks |-> 0]
      /\ phase = "check"
  BY DEF EngineInit
<1>4. EngineTypeOK
  BY <1>3 DEF EngineTypeOK, Phases
<1>5. WalkInv
  BY <1>2, <1>3 DEF WalkInv
<1>6. PartialsInv
  <2>1. \A i \in Tasks : Partial(i) = <<>>
    BY <1>1, <1>3, TaskHasChunk DEF Partial
  <2>. QED
    BY <1>2, <2>1 DEF PartialsInv
<1>7. ThrownInv
  BY <1>2 DEF ThrownInv
<1>8. NoPartialAnswer /\ ScheduleCannotMoveATotal
  BY <1>3 DEF NoPartialAnswer, ScheduleCannotMoveATotal
<1>. QED
  BY <1>1, <1>4, <1>5, <1>6, <1>7, <1>8 DEF EngineInv

\* Every step of the engine, or none, keeps the invariant.
LEMMA NextKeepsEngineInv == EngineInv /\ [EngineNext]_allVars => EngineInv'
<1>. SUFFICES ASSUME EngineInv, [EngineNext]_allVars PROVE EngineInv'
  OBVIOUS
<1>1. /\ PoolInv /\ WalksInv /\ WalkTypeOK /\ phase \in Phases
      /\ NoPartialAnswer /\ ScheduleCannotMoveATotal
  BY DEF EngineInv, EngineTypeOK, WalksInv, WalkTypeOK
<1>2. PoolInv'
  BY <1>1, EngineStepsThePool, NextKeepsPoolInv
<1>3. SUFFICES /\ WalksInv' /\ WalkTypeOK' /\ phase' \in Phases
               /\ NoPartialAnswer' /\ ScheduleCannotMoveATotal'
  BY <1>2 DEF EngineInv, EngineTypeOK, WalksInv, WalkTypeOK
<1>4. CASE UNCHANGED allVars
  <2>1. UNCHANGED <<vars, data, walk, totals, included, phase>>
    BY <1>4 DEF allVars, engineVars, answer
  <2>. QED
    BY <1>1, <2>1, StillWalks, WalkTypesStay, AnswerStays DEF vars
<1>5. CASE NoBlocks \/ RefuseOutputs \/ StartRun \/ MarkInterrupted \/ LetThrough \/ EngineDone
  <2>1. /\ UNCHANGED <<vars, data, walk, totals, included>>
        /\ phase' = phase \/ (phase # "returned" /\ (phase' # "returned" \/ blockCount = 0))
        /\ phase' \in Phases
    BY <1>1, <1>5 DEF NoBlocks, RefuseOutputs, StartRun, MarkInterrupted, LetThrough, EngineDone,
                      Ended, Phases, allVars, engineVars, answer
  <2>. QED
    BY <1>1, <2>1, StillWalks, WalkTypesStay, AnswerStays DEF vars
<1>6. CASE FoldPartials
  <2>1. UNCHANGED <<vars, data, walk>> /\ phase' = "returned"
    BY <1>6 DEF FoldPartials
  <2>2. NoPartialAnswer' /\ phase' \in Phases
    BY <2>1 DEF NoPartialAnswer, Phases
  <2>. QED
    BY <1>1, <1>6, <2>1, <2>2, StillWalks, WalkTypesStay, FoldIsAsIfAlone DEF vars
<1>7. ASSUME NEW t \in Threads, PoolRuns(t)
      PROVE  /\ WalksInv' /\ WalkTypeOK' /\ phase' \in Phases
             /\ NoPartialAnswer' /\ ScheduleCannotMoveATotal'
  <2>1. UNCHANGED <<inputs, data, walk, totals, included, phase>>
    BY <1>1, <1>7, LoopOpensOnly, CallerOpensOnly DEF PoolRuns, OpensOnly, engineVars, answer
  <2>. QED
    BY <1>1, <1>7, <2>1, PoolRunsKeepsWalks, WalkTypesStay, AnswerStays
<1>8. ASSUME NEW t \in Threads, ChunkStep(t)
      PROVE  /\ WalksInv' /\ WalkTypeOK' /\ phase' \in Phases
             /\ NoPartialAnswer' /\ ScheduleCannotMoveATotal'
  <2>1. UNCHANGED <<data, totals, included, phase>>
    BY <1>8 DEF ChunkStep, SkipRecord, AddRecord, ThrowFromRecord, EndChunk, answer
  <2>2. WalksInv' /\ WalkTypeOK'
    BY <1>1, <1>8, SkipKeepsWalks, AddKeepsWalks, ThrowKeepsWalks, EndChunkKeepsWalks
       DEF ChunkStep
  <2>. QED
    BY <1>1, <2>1, <2>2, AnswerStays
<1>. QED
  BY <1>4, <1>5, <1>6, <1>7, <1>8 DEF EngineNext

\* The invariant of the engine, for every dataset, number of blocks and schedule.
THEOREM EngineInvariant == EngineSpec => []EngineInv
BY EngineInitInv, NextKeepsEngineInv, PTL DEF EngineSpec

\* The state of a call is well typed; in particular every slot written is that
\* of a record and a block of the call.
THEOREM EngineTypes == EngineSpec => []EngineTypeOK
<1>1. EngineInv => EngineTypeOK
  BY DEF EngineInv
<1>. QED
  BY <1>1, EngineInvariant, PTL

\* A call that returns has, for each block, the partials of the block run alone,
\* whatever the thread count and the schedule and whatever else is in the call:
\* a partial is written by one task only, and a task is run by one thread only,
\* in record order.
THEOREM TotalsAreAsIfAlone == EngineSpec => []ScheduleCannotMoveATotal
<1>1. EngineInv => ScheduleCannotMoveATotal
  BY DEF EngineInv
<1>. QED
  BY <1>1, EngineInvariant, PTL

\* A call that is interrupted, refused or thrown out of has folded nothing.
THEOREM NoAnswerIsPartial == EngineSpec => []NoPartialAnswer
<1>1. EngineInv => NoPartialAnswer
  BY DEF EngineInv
<1>. QED
  BY <1>1, EngineInvariant, PTL

\* Two threads in chunks of one block are in two chunks, and chunks do not meet.
THEOREM WritesNeverMeet == EngineSpec => []WritesAreDisjoint
<1>1. EngineInv => WritesAreDisjoint
  <2>. SUFFICES ASSUME EngineInv, NEW t \in Threads, NEW u \in Threads, t # u,
                       InBody(t), InBody(u), BlockOf(task[t]) = BlockOf(task[u])
                PROVE  \/ RangeOf(task[t]).endIndex <= RangeOf(task[u]).startIndex
                       \/ RangeOf(task[u]).endIndex <= RangeOf(task[t]).startIndex
    BY DEF WritesAreDisjoint
  <2>1. PoolInv /\ DataInv
    BY DEF EngineInv
  <2>2. task[t] \in Tasks /\ task[u] \in Tasks /\ task[t] # task[u]
    BY <2>1, RunningIsOpen, InvKeepsTasksOnce DEF EachTaskOnce
  <2>3. task[t] \in Nat /\ task[u] \in Nat
    BY <2>1, <2>2, TaskHasChunk
  <2>4. CASE task[t] < task[u]
    BY <2>1, <2>2, <2>4, RangesApart
  <2>5. CASE task[u] < task[t]
    BY <2>1, <2>2, <2>5, RangesApart
  <2>. QED
    BY <2>2, <2>3, <2>4, <2>5
<1>. QED
  BY <1>1, EngineInvariant, PTL

\* The error of a call that throws is that of the first failing record of the
\* first block that has one: the pool lets the lowest-numbered failing task
\* through, tasks are numbered by block and then by chunk, chunks ascend, and
\* every record is in one.
THEOREM FirstFailureAlwaysSurfaces == EngineSpec => []FirstFailingRecordSurfaces
<1>1. EngineInv => FirstFailingRecordSurfaces
  <2>. SUFFICES ASSUME EngineInv, outcome = "threw"
                PROVE  LET reported == <<BlockOf(error), thrown[error]>>
                           possible == throwing \intersect (Blocks \X Records)
                       IN reported \in possible /\ \A p \in possible : Before(reported, p)
    BY DEF FirstFailingRecordSurfaces
  <2>. DEFINE possible == throwing \intersect (Blocks \X Records)
              K == ChunkCount(records)  e == BlockOf(error)  d == ChunkIndexOf(error)
  <2>1. PoolInv /\ DataInv /\ ThrownInv
    BY DEF EngineInv
  <2>2. IsFirst(error, faulty) /\ error \in Failed /\ error \in Tasks
    BY <2>1 DEF PoolInv, LowestErrorSurfaces, IsFirst, Failed, TypeOK
  <2>3. /\ thrown[error] \in RecordsOf(error)
        /\ <<e, thrown[error]>> \in throwing
        /\ \A r \in RecordsBelow(error, thrown[error]) : <<e, r>> \notin throwing
    BY <2>1, <2>2 DEF ThrownInv
  <2>4. /\ error \in Nat /\ e \in Blocks /\ d \in Chunks
        /\ RangeOf(error).endIndex \in Nat /\ thrown[error] \in Nat
        /\ thrown[error] < RangeOf(error).endIndex /\ thrown[error] \in Records
    BY <2>1, <2>2, <2>3, TaskHasChunk DEF Records, DataInv
  <2>5. ASSUME NEW b \in Blocks, NEW r \in Records, <<b, r>> \in throwing
        PROVE  e < b \/ (e = b /\ thrown[error] <= r)
    <3>1. K \in Nat \ {0} /\ records \in Nat /\ blockCount \in Nat /\ b \in Nat /\ r \in Nat
      BY <2>1, <2>4, ChunkCounts DEF DataInv, Blocks, Chunks, Records
    <3>2. PICK c \in Chunks : r \in ChunkRecords(records, c)
      BY <3>1, ChunksCover DEF Records, Chunks
    <3>. DEFINE i == b * K + c
    <3>3. i \in Tasks /\ i \in Nat
      BY <2>1, <3>1, TaskOfPair DEF Tasks, Blocks, Chunks, DataInv
    <3>4. BlockOf(i) = b /\ ChunkIndexOf(i) = c
      BY <3>1, PairIsItsTask
    <3>5. i \in faulty
      BY <2>1, <2>5, <3>2, <3>3, <3>4 DEF DataInv, TaskThrows
    <3>6. error <= i
      BY <2>2, <3>5 DEF IsFirst
    <3>7. e < b \/ (e = b /\ d <= c)
      BY <2>4, <3>1, <3>3, <3>4, <3>6, LaterTask DEF BlockOf, ChunkIndexOf
    <3>8. CASE e = b /\ d < c
      <4>1. RangeOf(error).endIndex <= ChunkOf(records, c).startIndex
            /\ ChunkOf(records, c).startIndex \in Nat
        BY <2>4, <3>1, <3>8, ChunksAscend DEF RangeOf, Chunks
      <4>2. ChunkOf(records, c).startIndex <= r
        BY <3>2 DEF ChunkRecords
      <4>. QED
        BY <2>4, <3>1, <3>8, <4>1, <4>2
    <3>9. CASE e = b /\ d = c
      <4>1. r \in RecordsOf(error)
        BY <3>2, <3>9 DEF RecordsOf
      <4>2. ~(r < thrown[error])
        BY <2>3, <2>5, <3>9, <4>1 DEF RecordsBelow
      <4>. QED
        BY <2>4, <3>1, <3>9, <4>2
    <3>. QED
      BY <2>4, <3>7, <3>8, <3>9 DEF Chunks
  <2>6. <<e, thrown[error]>> \in possible
    BY <2>3, <2>4
  <2>7. ASSUME NEW p \in possible
        PROVE  Before(<<e, thrown[error]>>, p)
    BY <2>5, <2>7 DEF Before
  <2>. QED
    BY <2>6, <2>7
<1>. QED
  BY <1>1, EngineInvariant, PTL

-----------------------------------------------------------------------------
(* The counts.                                                              *)

\* A sequence in record order is as long as its set is large.
LEMMA InOrderCounts ==
  ASSUME NEW S, NEW s, InRecordOrder(s, S), S \subseteq Nat
  PROVE  Len(s) \in Nat /\ IsFiniteSet(S) /\ Cardinality(S) = Len(s)
<1>1. s \in Seq(S) /\ Len(s) \in Nat /\ s \in [1 .. Len(s) -> S]
  BY DEF InRecordOrder
<1>2. s \in Surjection(1 .. Len(s), S)
  BY <1>1 DEF InRecordOrder, Surjection
<1>3. ASSUME NEW i \in 1 .. Len(s), NEW j \in 1 .. Len(s), s[i] = s[j]
      PROVE  i = j
  <2>1. s[i] \in S /\ i \in Int /\ j \in Int
    BY <1>1
  <2>2. s[i] \in Nat
    BY <2>1
  <2>4. s[j] = s[i] /\ ~(s[i] < s[i])
    BY <1>3, <2>2
  <2>3. ~(i < j) /\ ~(j < i)
    BY <2>1, <2>4 DEF InRecordOrder
  <2>. QED
    BY <2>1, <2>3
<1>4. s \in Bijection(1 .. Len(s), S)
  BY <1>1, <1>2, <1>3 DEF Bijection, Injection, IsInjective
<1>5. ExistsBijection(1 .. Len(s), S)
  BY <1>4 DEF ExistsBijection
<1>. QED
  BY <1>1, <1>5, FS_CountingElements, FS_NatBijection

LEMMA CountsStay ==
  ASSUME CountsInv, UNCHANGED <<blockCount, records, partials, tallies, contributions>>
  PROVE  CountsInv'
BY DEF CountsInv, InPartials, Blocks, Chunks, Records

\* A record that is added is added to the partial, the tally and the slots.
LEMMA AddKeepsCounts ==
  ASSUME PoolInv, WalksInv, WalkTypeOK, CountsInv, NEW t \in Threads, AddRecord(t)
  PROVE  CountsInv'
<1>. DEFINE b == BlockOf(task[t])  c == ChunkIndexOf(task[t])  r == Current(t)
            s == partials[b][c]
<1>1. /\ InChunk(t) /\ UNCHANGED <<vars, data>>
      /\ walked' = [walked EXCEPT ![t] = @ + 1]
      /\ partials' = [partials EXCEPT ![b][c] = Append(@, r)]
      /\ tallies' = [tallies EXCEPT ![b][c] = @ + 1]
      /\ contributions' = contributions \union {<<b, r>>}
  BY DEF AddRecord, Pair
<1>2. /\ b \in Blocks /\ c \in Chunks /\ r \in Records
  <2>1. task[t] \in Tasks
    BY <1>1, RunningIsOpen DEF InChunk
  <2>2. r \in RecordsOf(task[t])
    BY <1>1, PassesOne
  <2>3. r \in Records
    BY <2>1, <2>2, TaskHasChunk DEF WalksInv, DataInv, Records
  <2>. QED
    BY <2>1, <2>3, TaskHasChunk DEF WalksInv
<1>3. Blocks' = Blocks /\ Chunks' = Chunks /\ Records' = Records
  BY <1>1 DEF Blocks, Chunks, Records, data
<1>4. s \in Seq(Records) /\ Len(s) \in Nat /\ tallies[b][c] = Len(s)
  BY <1>2 DEF WalkTypeOK, CountsInv
<1>5. partials'[b][c] = Append(s, r) /\ tallies'[b][c] = Len(s) + 1
  BY <1>1, <1>2, <1>4 DEF WalkTypeOK
<1>6. ASSUME NEW a \in Blocks, NEW d \in Chunks, a # b \/ d # c
      PROVE  partials'[a][d] = partials[a][d] /\ tallies'[a][d] = tallies[a][d]
  BY <1>1, <1>2, <1>6 DEF WalkTypeOK
<1>7. ASSUME NEW a \in Blocks, NEW d \in Chunks
      PROVE  tallies'[a][d] = Len(partials'[a][d])
  <2>1. CASE a = b /\ d = c
    BY <1>2, <1>4, <1>5, <2>1
  <2>2. CASE a # b \/ d # c
    BY <1>6, <2>2 DEF CountsInv
  <2>. QED
    BY <2>1, <2>2
<1>8. ASSUME NEW a \in Blocks, NEW x \in Records
      PROVE  <<a, x>> \in contributions' <=> InPartials(a, x)'
  <2>. DEFINE In(d) == \E k \in 1 .. Len(partials[a][d]) : partials[a][d][k] = x
              InNext(d) == \E k \in 1 .. Len(partials'[a][d]) : partials'[a][d][k] = x
  <2>1. InPartials(a, x) <=> \E d \in Chunks : In(d)
    BY DEF InPartials
  <2>2. InPartials(a, x)' <=> \E d \in Chunks : InNext(d)
    BY <1>3 DEF InPartials
  <2>3. \A d \in Chunks : a # b \/ d # c => (InNext(d) <=> In(d))
    BY <1>6
  <2>4. a = b => (InNext(c) <=> In(c) \/ x = r)
    <3>1. /\ Len(Append(s, r)) = Len(s) + 1 /\ Append(s, r)[Len(s) + 1] = r
          /\ \A k \in 1 .. Len(s) : Append(s, r)[k] = s[k]
      BY <1>2, <1>4
    <3>2. 1 .. Len(s) + 1 = (1 .. Len(s)) \union {Len(s) + 1}
      BY <1>4
    <3>. QED
      BY <1>5, <3>1, <3>2
  <2>5. <<a, x>> \in contributions' <=> <<a, x>> \in contributions \/ (a = b /\ x = r)
    BY <1>1
  <2>6. <<a, x>> \in contributions <=> InPartials(a, x)
    BY DEF CountsInv
  <2>. HIDE DEF In, InNext
  <2>7. CASE a = b
    BY <1>2, <2>1, <2>2, <2>3, <2>4, <2>5, <2>6, <2>7
  <2>8. CASE a # b
    BY <2>1, <2>2, <2>3, <2>5, <2>6, <2>8
  <2>. QED
    BY <2>7, <2>8
<1>. QED
  BY <1>3, <1>7, <1>8 DEF CountsInv

LEMMA NextKeepsCounts ==
  ASSUME EngineInv, CountsInv, [EngineNext]_allVars
  PROVE  CountsInv'
<1>1. PoolInv /\ WalksInv /\ WalkTypeOK
  BY DEF EngineInv, EngineTypeOK, WalksInv, WalkTypeOK
<1>2. CASE \E t \in Threads : AddRecord(t)
  BY <1>1, <1>2, AddKeepsCounts
<1>3. CASE ~\E t \in Threads : AddRecord(t)
  <2>1. UNCHANGED <<blockCount, records, partials, tallies, contributions>>
    BY <1>3 DEF EngineNext, NoBlocks, RefuseOutputs, StartRun, PoolRuns, ChunkStep, SkipRecord,
       ThrowFromRecord, EndChunk, FoldPartials, MarkInterrupted, LetThrough, EngineDone,
       allVars, engineVars, walk, data
  <2>. QED
    BY <2>1, CountsStay
<1>. QED
  BY <1>2, <1>3

\* Once every task is done, each chunk's partial is of its accepted records.
LEMMA DonePartials ==
  ASSUME PoolInv, WalksInv, done = Tasks, NEW b \in Blocks, NEW c \in Chunks
  PROVE  InRecordOrder(partials[b][c], Accepted(b, ChunkRecords(records, c)))
<1>. DEFINE K == ChunkCount(records)  i == b * K + c
<1>1. K \in Nat /\ blockCount \in Nat /\ taskCount = blockCount * K
  BY ChunkCounts DEF WalksInv, DataInv
<1>2. K \in Nat \ {0} /\ b \in Nat
  BY <1>1 DEF Chunks, Blocks
<1>3. i \in Tasks
  BY <1>1, <1>2, TaskOfPair DEF Tasks, Blocks, Chunks
<1>4. BlockOf(i) = b /\ ChunkIndexOf(i) = c
  BY <1>2, PairIsItsTask
<1>5. InRecordOrder(Partial(i), Accepted(BlockOf(i), RecordsOf(i)))
  BY <1>3 DEF WalksInv, PartialsInv
<1>. QED
  BY <1>4, <1>5 DEF Partial, RecordsOf

\* The fold's sum of a block's tallies has a value, one chunk more at a time.
LEMMA TallySumsUp ==
  ASSUME NEW b \in Blocks, ChunkCount(records) \in Nat, \A c \in Chunks : tallies[b][c] \in Nat
  PROVE  \E f : /\ f[0] = 0
                /\ \A c \in 1 .. ChunkCount(records) : f[c] = f[c - 1] + tallies[b][c - 1]
                /\ TallySum(b) = f[ChunkCount(records)]
<1>. DEFINE K == ChunkCount(records)
            IsSum(f) == f = [c \in 0 .. K |-> IF c = 0 THEN 0 ELSE f[c - 1] + tallies[b][c - 1]]
            G == [c \in 1 .. K |-> [v \in Nat |-> v + tallies[b][c - 1]]]
<1>1. PICK f : IsIterated(f, K, Nat, 0, G)
  <2>1. G \in [1 .. K -> [Nat -> Nat]]
    BY DEF Chunks
  <2>0. K \in Nat /\ 0 \in Nat
    OBVIOUS
  <2>. HIDE DEF G, K
  <2>. QED
    BY <2>0, <2>1, RecursionHasAValue
<1>2. IsSum(f)
  <2>1. ASSUME NEW c \in 0 .. K
        PROVE  f[c] = IF c = 0 THEN 0 ELSE f[c - 1] + tallies[b][c - 1]
    <3>1. c # 0 => c \in 1 .. K /\ f[c - 1] \in Nat
      BY <1>1 DEF IsIterated
    <3>. QED
      BY <1>1, <3>1 DEF IsIterated
  <2>. QED
    BY <1>1, <2>1 DEF IsIterated
<1>. DEFINE g == CHOOSE h : IsSum(h)
<1>3. IsSum(g)
  BY <1>2
<1>4. TallySum(b) = g[K]
  BY DEF TallySum
<1>. HIDE DEF g
<1>5. g[0] = 0 /\ \A c \in 1 .. K : g[c] = g[c - 1] + tallies[b][c - 1]
  BY <1>3
<1>. QED
  BY <1>4, <1>5

\* The tallies of a completed block add up to its accepted records: those of the
\* first chunks are those accepted in them, and no two chunks have one in common.
LEMMA TalliesCountAccepted ==
  ASSUME PoolInv, WalksInv, WalkTypeOK, CountsInv, done = Tasks, NEW b \in Blocks
  PROVE  TallySum(b) = Cardinality(Accepted(b, Records))
<1>. DEFINE K == ChunkCount(records)
            In(c) == Accepted(b, ChunkRecords(records, c))
            First(c) == {r \in Accepted(b, Records) :
                           \E d \in 0 .. c - 1 : r \in ChunkRecords(records, d)}
<1>1. K \in Nat /\ records \in Nat
  BY ChunkCounts DEF WalksInv, DataInv
<1>2. ASSUME NEW c \in Chunks
      PROVE  IsFiniteSet(In(c)) /\ Cardinality(In(c)) = tallies[b][c] /\ tallies[b][c] \in Nat
  <2>1. InRecordOrder(partials[b][c], In(c))
    BY DonePartials
  <2>2. In(c) \subseteq Nat
    BY <1>1 DEF Accepted, ChunkRecords
  <2>3. tallies[b][c] = Len(partials[b][c])
    BY DEF CountsInv
  <2>. HIDE DEF In
  <2>. QED
    BY <2>1, <2>2, <2>3, InOrderCounts
<1>3. PICK f : /\ f[0] = 0
               /\ \A c \in 1 .. K : f[c] = f[c - 1] + tallies[b][c - 1]
               /\ TallySum(b) = f[K]
  BY <1>1, <1>2, TallySumsUp
<1>4. First(0) = {}
  OBVIOUS
<1>5. ASSUME NEW c \in 0 .. K - 1
      PROVE  First(c + 1) = First(c) \union In(c) /\ First(c) \intersect In(c) = {}
  <2>1. 0 .. (c + 1) - 1 = (0 .. c - 1) \union {c} /\ c \in Chunks
    BY <1>1 DEF Chunks
  <2>2. In(c) \subseteq Accepted(b, Records) /\ In(c) \subseteq ChunkRecords(records, c)
    BY DEF Accepted, ChunkRecords, Records
  <2>3. \A r \in Accepted(b, Records) : r \in ChunkRecords(records, c) => r \in In(c)
    BY DEF Accepted
  <2>4. ASSUME NEW d \in 0 .. c - 1, NEW r \in ChunkRecords(records, d)
        PROVE  r \notin ChunkRecords(records, c)
    <3>1. d \in 0 .. K - 1 /\ c \in 0 .. K - 1 /\ d # c /\ r \in 0 .. records - 1
      BY <1>1 DEF ChunkRecords
    <3>. QED
      BY <1>1, <3>1, EachRecordIsInOneChunk
  <2>. HIDE DEF In
  <2>5. First(c + 1) = First(c) \union In(c)
    BY <2>1, <2>2, <2>3
  <2>6. First(c) \intersect In(c) = {}
    BY <2>2, <2>4
  <2>. QED
    BY <2>5, <2>6
<1>6. First(K) = Accepted(b, Records)
  <2>1. ASSUME NEW r \in Records
        PROVE  \E d \in 0 .. K - 1 : r \in ChunkRecords(records, d)
    BY <1>1, ChunksCover DEF Records
  <2>. QED
    BY <2>1 DEF Accepted
<1>. DEFINE S == {c \in Nat : IsFiniteSet(First(c)) /\ Cardinality(First(c)) = f[c]}
<1>. HIDE DEF First, In
<1>7. 0 \in S
  BY <1>3, <1>4, FS_EmptySet
<1>8. ASSUME NEW c \in 0 .. K - 1, c \in S
      PROVE  c + 1 \in S
  <2>1. IsFiniteSet(First(c)) /\ Cardinality(First(c)) = f[c] /\ c \in Chunks
    BY <1>8 DEF Chunks
  <2>2. IsFiniteSet(In(c)) /\ Cardinality(In(c)) = tallies[b][c]
    BY <1>2, <2>1
  <2>3. /\ IsFiniteSet(First(c + 1))
        /\ Cardinality(First(c + 1)) = f[c] + tallies[b][c] - Cardinality({})
    BY <1>5, <2>1, <2>2, FS_Union
  <2>4. c + 1 \in 1 .. K /\ (c + 1) - 1 = c
    BY <1>1
  <2>5. f[c + 1] = f[c] + tallies[b][c]
    BY <1>3, <2>4
  <2>6. f[c] \in Nat /\ tallies[b][c] \in Nat /\ Cardinality({}) = 0
    BY <1>2, <2>1, FS_CardinalityType, FS_EmptySet
  <2>. QED
    BY <2>3, <2>5, <2>6
<1>. HIDE DEF S
<1>9. 0 .. K \subseteq S
  BY <1>1, <1>7, <1>8, UpTo
<1>10. K \in S
  BY <1>1, <1>9
<1>. QED
  BY <1>3, <1>6, <1>10 DEF S

\* A partial in record order is no longer than its chunk.
LEMMA ChunkPartialsAreBounded ==
  ASSUME NEW n \in Nat, NEW c \in 0 .. ChunkCount(n) - 1, NEW b, NEW s,
         InRecordOrder(s, Accepted(b, ChunkRecords(n, c)))
  PROVE  Len(s) \in Nat /\ Len(s) <= RecordsPerChunk
<1>. DEFINE lo == ChunkOf(n, c).startIndex  hi == ChunkOf(n, c).endIndex
            S == Accepted(b, ChunkRecords(n, c))
<1>1. lo \in Nat /\ hi \in Nat /\ lo <= hi
  BY ChunksAscend
<1>2. S \subseteq lo .. hi - 1 /\ S \subseteq Nat
  BY <1>1 DEF Accepted, ChunkRecords
<1>3. ChunkSize(n, c) = hi - lo /\ hi - lo <= RecordsPerChunk
  BY ChunksAreEven DEF ChunkSize
<1>. HIDE DEF lo, hi
<1>4. IsFiniteSet(lo .. hi - 1) /\ Cardinality(lo .. hi - 1) = hi - lo
  <2>1. PICK top \in Int : top = hi - 1 /\ lo \in Int
    BY <1>1
  <2>2. IsFiniteSet(lo .. top) /\ Cardinality(lo .. top) = IF lo > top THEN 0 ELSE top - lo + 1
    BY <2>1, FS_Interval
  <2>. QED
    BY <1>1, <2>1, <2>2
<1>. HIDE DEF S
<1>5. Cardinality(S) <= hi - lo
  BY <1>2, <1>4, FS_Subset
<1>6. Len(s) \in Nat /\ Cardinality(S) = Len(s)
  BY <1>2, InOrderCounts DEF S
<1>. QED
  BY <1>1, <1>3, <1>5, <1>6, ChunkAssumption

\* Folding, once every task is done, counts each accepted record once.
LEMMA FoldCountsOnce ==
  ASSUME PoolInv, WalksInv, WalkTypeOK, CountsInv, FoldPartials
  PROVE  EveryRecordOnce'
<1>. DEFINE K == ChunkCount(records)
<1>1. done = Tasks
  BY DEF FoldPartials, Ended, PoolInv, CompletedMeansAllRan
<1>2. /\ totals' = [b \in Blocks |-> Fold(b)] /\ included' = [b \in Blocks |-> TallySum(b)]
      /\ UNCHANGED <<data, contributions>>
  BY DEF FoldPartials, walk
<1>3. Blocks' = Blocks /\ Records' = Records /\ \A b, S : Accepted(b, S)' = Accepted(b, S)
  BY <1>2 DEF Blocks, Records, Accepted, data
<1>4. K \in Nat /\ records \in Nat
  BY ChunkCounts DEF WalksInv, DataInv
<1>5. ASSUME NEW b \in Blocks
      PROVE  /\ included'[b] = Cardinality(Accepted(b, Records))
             /\ {p[2] : p \in {q \in contributions : q[1] = b}} = Accepted(b, Records)
             /\ \A r \in Accepted(b, Records) :
                  \E c \in DOMAIN totals'[b], i \in 1 .. RecordsPerChunk :
                    i <= Len(totals'[b][c]) /\ totals'[b][c][i] = r
  <2>1. included'[b] = Cardinality(Accepted(b, Records))
    BY <1>1, <1>2, TalliesCountAccepted
  <2>2. ASSUME NEW r \in Records
        PROVE  InPartials(b, r) <=> r \in Accepted(b, Records)
    <3>1. ASSUME NEW c \in Chunks
          PROVE  (\E k \in 1 .. Len(partials[b][c]) : partials[b][c][k] = r)
                   <=> r \in Accepted(b, ChunkRecords(records, c))
      BY <1>1, DonePartials DEF InRecordOrder
    <3>2. \E c \in Chunks : r \in ChunkRecords(records, c)
      BY <1>4, ChunksCover DEF Records, Chunks
    <3>. QED
      BY <3>1, <3>2 DEF InPartials, Accepted
  <2>3. {p[2] : p \in {q \in contributions : q[1] = b}} = Accepted(b, Records)
    <3>1. ASSUME NEW p \in contributions, p[1] = b
          PROVE  p[2] \in Accepted(b, Records)
      <4>1. p = <<b, p[2]>> /\ p[2] \in Records
        BY <3>1 DEF WalkTypeOK
      <4>. QED
        BY <2>2, <4>1 DEF CountsInv
    <3>2. ASSUME NEW r \in Accepted(b, Records)
          PROVE  \E p \in contributions : p[1] = b /\ p[2] = r
      <4>1. r \in Records
        BY DEF Accepted
      <4>2. <<b, r>> \in contributions
        BY <2>2, <4>1 DEF CountsInv
      <4>. QED
        BY <4>2
    <3>. QED
      BY <3>1, <3>2
  <2>4. ASSUME NEW r \in Accepted(b, Records)
        PROVE  \E c \in DOMAIN totals'[b], i \in 1 .. RecordsPerChunk :
                 i <= Len(totals'[b][c]) /\ totals'[b][c][i] = r
    <3>1. r \in Records
      BY DEF Accepted
    <3>2. PICK c \in Chunks : \E k \in 1 .. Len(partials[b][c]) : partials[b][c][k] = r
      BY <2>2, <3>1 DEF InPartials
    <3>3. PICK k \in 1 .. Len(partials[b][c]) : partials[b][c][k] = r
      BY <3>2
    <3>4. c \in 0 .. K - 1 /\ c + 1 \in 1 .. K /\ (c + 1) - 1 = c
      BY <1>4 DEF Chunks
    <3>5. totals'[b][c + 1] = partials[b][c] /\ c + 1 \in DOMAIN totals'[b]
      BY <1>2, <3>4 DEF Fold
    <3>6. Len(partials[b][c]) \in Nat /\ Len(partials[b][c]) <= RecordsPerChunk
      BY <1>1, <1>4, <3>4, DonePartials, ChunkPartialsAreBounded DEF Chunks
    <3>7. k \in 1 .. RecordsPerChunk
      BY <3>6, ChunkAssumption
    <3>. QED
      BY <3>3, <3>5, <3>7
  <2>. QED
    BY <2>1, <2>3, <2>4
<1>. QED
  BY <1>2, <1>3, <1>5 DEF EveryRecordOnce

\* EveryRecordOnce holds of every call: the slots and the answer are not touched
\* once it has returned.
LEMMA NextKeepsEveryRecordOnce ==
  ASSUME EngineInv, CountsInv, EveryRecordOnce, [EngineNext]_allVars
  PROVE  EveryRecordOnce'
<1>1. PoolInv /\ WalksInv /\ WalkTypeOK
  BY DEF EngineInv, EngineTypeOK, WalksInv, WalkTypeOK
<1>2. CASE FoldPartials
  BY <1>1, <1>2, FoldCountsOnce
<1>3. CASE ~FoldPartials
  <2>1. \/ phase' # "returned"
        \/ UNCHANGED <<data, contributions, totals, included>> /\ phase = "returned"
        \/ UNCHANGED data /\ blockCount = 0
    BY <1>3 DEF EngineNext, NoBlocks, RefuseOutputs, StartRun, PoolRuns, ChunkStep, SkipRecord,
       AddRecord, ThrowFromRecord, EndChunk, InChunk, FoldPartials, MarkInterrupted, LetThrough,
       EngineDone, allVars, engineVars, walk, answer
  <2>2. CASE UNCHANGED <<data, contributions, totals, included>> /\ phase = "returned"
    <3>1. Blocks' = Blocks /\ Records' = Records /\ \A b : Accepted(b, Records)' = Accepted(b, Records)
      BY <2>2 DEF Blocks, Records, Accepted, data
    <3>. QED
      BY <2>2, <3>1 DEF EveryRecordOnce
  <2>3. CASE UNCHANGED data /\ blockCount = 0
    <3>1. Blocks' = {}
      BY <2>3 DEF Blocks, data
    <3>. QED
      BY <3>1 DEF EveryRecordOnce
  <2>. QED
    BY <2>1, <2>2, <2>3 DEF EveryRecordOnce
<1>. QED
  BY <1>2, <1>3

\* A completed run counts every accepted record of every block once, in the total,
\* in the count of records and in the slots, whatever the division into chunks.
THEOREM EveryRecordIsCountedOnce == EngineSpec => []EveryRecordOnce
<1>1. EngineInit => CountsInv /\ EveryRecordOnce
  BY DEF EngineInit, CountsInv, InPartials, EveryRecordOnce
<1>2. /\ EngineInv /\ CountsInv /\ EveryRecordOnce /\ [EngineNext]_allVars
      => CountsInv' /\ EveryRecordOnce'
  BY NextKeepsCounts, NextKeepsEveryRecordOnce
<1>. QED
  BY <1>1, <1>2, EngineInvariant, PTL DEF EngineSpec
=============================================================================
