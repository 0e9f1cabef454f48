----------------------------- MODULE ThreadPool -----------------------------
(***************************************************************************)
(* One call of veil::runInParallel (src/src/veil/ThreadPool.hpp).           *)
(*                                                                         *)
(* Thread 0 is the calling thread; the others are the jthreads it spawns.   *)
(* They share an atomic counter of claimed tasks and a stop source.  A      *)
(* thread tests the stop token, then claims, then runs the claimed body:    *)
(* three separate steps, so that a stop may arrive between any two.  The    *)
(* answers of the host poll, the failure to create a thread and the         *)
(* schedule are nondeterministic; whether a body throws depends on its task *)
(* alone.                                                                   *)
(***************************************************************************)
EXTENDS Naturals, FiniteSets

CONSTANTS
  MaxTasks,        \* bound: the largest task count of a call
  MaxThreads,      \* bound: the largest resolved thread count
  ThreadRequests,  \* the thread counts a caller may ask for
  HardwareReports  \* what hardware_concurrency may answer, 0 included

\* 0 asks for what the machine reports, guarded because it may report 0.
ResolveThreadCount(requested, reported) ==
  IF requested # 0 THEN requested ELSE IF reported = 0 THEN 1 ELSE reported

WorkerCounts ==
  {ResolveThreadCount(q, r) : q \in ThreadRequests, r \in HardwareReports}

ASSUME PoolAssumption ==
  /\ MaxTasks \in Nat
  /\ MaxThreads \in Nat \ {0}
  /\ WorkerCounts \subseteq 1 .. MaxThreads

Threads == 0 .. MaxThreads - 1
Caller == 0

VARIABLES
  taskCount,  \* argument: how many tasks
  workers,    \* argument: the resolved thread count, the caller included
  hostPoll,   \* argument: whether there is a poll to call
  faulty,     \* the tasks whose body throws
  pc,         \* where each thread is
  task,       \* the task each thread holds
  nextTask,   \* std::atomic<size_t> nextTask
  stop,       \* the stop source
  spawned,    \* how many jthreads have been created
  failures,   \* the tasks whose failure slot is set
  escaping,   \* creating a jthread threw
  completed,  \* outcome.completed
  outcome,    \* how the call ended, or "none"
  error,      \* the task whose exception left the call
  done,       \* history: the tasks whose body returned
  late        \* history: tasks each thread claimed after the stop

inputs == <<taskCount, workers, hostPoll, faulty>>
shared == <<nextTask, stop, spawned, failures, escaping, completed>>
result == <<outcome, error>>
history == <<done, late>>
vars == <<inputs, pc, task, shared, result, history>>

Tasks == 0 .. taskCount - 1

PoolInit ==
  /\ workers \in WorkerCounts
  /\ hostPoll \in BOOLEAN
  /\ pc = [t \in Threads |-> IF t = Caller THEN "enter" ELSE "unborn"]
  /\ task = [t \in Threads |-> 0]
  /\ nextTask = 0
  /\ stop = FALSE
  /\ spawned = 0
  /\ failures = {}
  /\ escaping = FALSE
  /\ completed = TRUE
  /\ outcome = "none" /\ error = 0
  /\ done = {}
  /\ late = [t \in Threads |-> 0]

Init ==
  /\ taskCount \in 0 .. MaxTasks
  /\ faulty \in SUBSET Tasks
  /\ PoolInit

Goto(t, from, to) ==
  /\ pc[t] = from
  /\ pc' = [pc EXCEPT ![t] = to]

\* The call ends: nothing but the result changes.
EndCall(how) ==
  /\ outcome' = how
  /\ UNCHANGED <<inputs, task, shared, history>>

-----------------------------------------------------------------------------
(* Entry: nothing to run, not worth spawning for, or threaded.              *)

EnterEmpty ==
  /\ taskCount = 0
  /\ Goto(Caller, "enter", "done")
  /\ EndCall("completed")
  /\ UNCHANGED error

NotWorthSpawning == workers <= 1 \/ taskCount = 1

EnterInline ==
  /\ taskCount # 0
  /\ NotWorthSpawning
  /\ Goto(Caller, "enter", "inlinePoll")
  /\ UNCHANGED <<inputs, task, shared, result, history>>

EnterThreaded ==
  /\ taskCount # 0
  /\ ~NotWorthSpawning
  /\ Goto(Caller, "enter", "spawn")
  /\ UNCHANGED <<inputs, task, shared, result, history>>

-----------------------------------------------------------------------------
(* The inline loop, on the calling thread, touching no shared state.        *)

InlineEnd ==
  /\ task[Caller] = taskCount
  /\ Goto(Caller, "inlinePoll", "done")
  /\ EndCall("completed")
  /\ UNCHANGED error

InlinePollStops ==
  /\ task[Caller] < taskCount
  /\ hostPoll
  /\ Goto(Caller, "inlinePoll", "done")
  /\ completed' = FALSE
  /\ outcome' = "stopped"
  /\ UNCHANGED <<inputs, task, nextTask, stop, spawned, failures, escaping, error, history>>

InlineBegin ==
  /\ task[Caller] < taskCount
  /\ Goto(Caller, "inlinePoll", "inlineBody")
  /\ UNCHANGED <<inputs, task, shared, result, history>>

InlineReturns ==
  /\ task[Caller] \notin faulty
  /\ Goto(Caller, "inlineBody", "inlinePoll")
  /\ done' = done \union {task[Caller]}
  /\ task' = [task EXCEPT ![Caller] = @ + 1]
  /\ UNCHANGED <<inputs, shared, result, late>>

InlineThrows ==
  /\ task[Caller] \in faulty
  /\ Goto(Caller, "inlineBody", "unwind")
  /\ UNCHANGED <<inputs, task, shared, result, history>>

\* Nothing catches: the body's exception leaves the call as it is.
InlineUnwind ==
  /\ Goto(Caller, "unwind", "done")
  /\ EndCall("threw")
  /\ error' = task[Caller]

-----------------------------------------------------------------------------
(* Spawning the workers, before the caller starts to pull tasks itself.     *)

SpawnWorker ==
  /\ spawned + 1 < workers
  /\ pc[Caller] = "spawn"
  /\ pc' = [pc EXCEPT ![spawned + 1] = "check"]
  /\ spawned' = spawned + 1
  /\ UNCHANGED <<inputs, task, nextTask, stop, failures, escaping, completed, result, history>>

\* emplace_back throws: the vector of jthreads is destroyed, which joins the
\* workers already created.  Nobody asks them to stop.
SpawnFails ==
  /\ spawned + 1 < workers
  /\ Goto(Caller, "spawn", "join")
  /\ escaping' = TRUE
  /\ UNCHANGED <<inputs, task, nextTask, stop, spawned, failures, completed, result, history>>

SpawnEnd ==
  /\ spawned + 1 >= workers
  /\ Goto(Caller, "spawn", "check")
  /\ UNCHANGED <<inputs, task, shared, result, history>>

-----------------------------------------------------------------------------
(* The loop every thread runs; only the caller polls the host.              *)

\* Leaving the loop: the caller goes to the end of the scope, which joins.
Leave(t) == IF t = Caller THEN "join" ELSE "exited"

SeesStop(t) ==
  /\ stop
  /\ Goto(t, "check", Leave(t))
  /\ UNCHANGED <<inputs, task, shared, result, history>>

\* Mistake: the stop token is not tested between tasks.
GoesOnRegardless(t) ==
  /\ Goto(t, "check", IF t = Caller /\ hostPoll THEN "poll" ELSE "claim")
  /\ UNCHANGED <<inputs, task, shared, result, history>>

SeesNoStop(t) ==
  /\ ~stop
  /\ Goto(t, "check", IF t = Caller /\ hostPoll THEN "poll" ELSE "claim")
  /\ UNCHANGED <<inputs, task, shared, result, history>>

PollStops ==
  /\ Goto(Caller, "poll", "join")
  /\ completed' = FALSE
  /\ stop' = TRUE
  /\ UNCHANGED <<inputs, task, nextTask, spawned, failures, escaping, result, history>>

PollContinues ==
  /\ Goto(Caller, "poll", "claim")
  /\ UNCHANGED <<inputs, task, shared, result, history>>

ClaimTask(t) ==
  /\ nextTask < taskCount
  /\ Goto(t, "claim", "body")
  /\ task' = [task EXCEPT ![t] = nextTask]
  /\ nextTask' = nextTask + 1
  /\ late' = [late EXCEPT ![t] = IF stop THEN @ + 1 ELSE @]
  /\ UNCHANGED <<inputs, stop, spawned, failures, escaping, completed, result, done>>

\* Mistake: a thread that finds nothing left tries again instead of leaving.
ClaimNothingAndRetry(t) ==
  /\ nextTask >= taskCount
  /\ Goto(t, "claim", "check")
  /\ nextTask' = nextTask + 1
  /\ UNCHANGED <<inputs, task, stop, spawned, failures, escaping, completed, result, history>>

ClaimNothing(t) ==
  /\ nextTask >= taskCount
  /\ Goto(t, "claim", Leave(t))
  /\ nextTask' = nextTask + 1
  /\ UNCHANGED <<inputs, task, stop, spawned, failures, escaping, completed, result, history>>

BodyReturns(t) ==
  /\ task[t] \notin faulty
  /\ Goto(t, "body", "check")
  /\ done' = done \union {task[t]}
  /\ UNCHANGED <<inputs, task, shared, result, late>>

\* Mistake: the exception is caught and not kept.
BodyThrowsAway(t) ==
  /\ task[t] \in faulty
  /\ Goto(t, "body", Leave(t))
  /\ stop' = TRUE
  /\ UNCHANGED <<inputs, task, nextTask, spawned, failures, escaping, completed, result, history>>

\* Recording the failure and asking the others to stop are one step: the slot
\* is the task's own and is read only after the join.
BodyThrows(t) ==
  /\ task[t] \in faulty
  /\ Goto(t, "body", Leave(t))
  /\ failures' = failures \union {task[t]}
  /\ stop' = TRUE
  /\ UNCHANGED <<inputs, task, nextTask, spawned, escaping, completed, result, history>>

-----------------------------------------------------------------------------
(* The end of the scope joins every jthread created; the failure slots are  *)
(* then scanned in task order.                                              *)

\* Mistake: the join waits for as many workers as were asked for, not for those
\* that were created.
JoinsAllAskedFor ==
  /\ pc[Caller] = "join"
  /\ \A t \in 1 .. workers - 1 : pc[t] = "exited"

Joinable ==
  /\ pc[Caller] = "join"
  /\ \A t \in 1 .. spawned : pc[t] = "exited"

IsFirst(i, S) == i \in S /\ \A j \in S : i <= j

JoinThenReturn ==
  /\ Joinable
  /\ ~escaping
  /\ failures = {}
  /\ Goto(Caller, "join", "done")
  /\ EndCall(IF completed THEN "completed" ELSE "stopped")
  /\ UNCHANGED error

\* Mistake: the failure that happened to be seen is rethrown, not the first.
RethrowAnyFailure ==
  /\ Joinable
  /\ ~escaping
  /\ Goto(Caller, "join", "done")
  /\ EndCall("threw")
  /\ \E i \in failures : error' = i

JoinThenRethrow ==
  /\ Joinable
  /\ ~escaping
  /\ Goto(Caller, "join", "done")
  /\ EndCall("threw")
  /\ \E i \in failures : IsFirst(i, failures) /\ error' = i

\* The scope was left by the failure to create a thread, which goes on past
\* the scan: failures that were recorded meanwhile are never looked at.
JoinThenPropagate ==
  /\ Joinable
  /\ escaping
  /\ Goto(Caller, "join", "done")
  /\ EndCall("noThread")
  /\ UNCHANGED error

Done ==
  /\ pc[Caller] = "done"
  /\ UNCHANGED vars

-----------------------------------------------------------------------------
(* Steps of the pool itself, and the ends of a task body: a module that says *)
(* what a body does conjoins its own effects with the latter.               *)

CallerControl ==
  \/ EnterEmpty \/ EnterInline \/ EnterThreaded
  \/ InlineEnd \/ InlinePollStops \/ InlineBegin \/ InlineUnwind
  \/ SpawnWorker \/ SpawnFails \/ SpawnEnd
  \/ PollStops \/ PollContinues
  \/ JoinThenReturn \/ JoinThenRethrow \/ JoinThenPropagate

LoopControl(t) ==
  SeesStop(t) \/ SeesNoStop(t) \/ ClaimTask(t) \/ ClaimNothing(t)

Returns(t) == BodyReturns(t) \/ (t = Caller /\ InlineReturns)
Throws(t) == BodyThrows(t) \/ (t = Caller /\ InlineThrows)

Step(t) ==
  \/ t = Caller /\ CallerControl
  \/ LoopControl(t)
  \/ Returns(t) \/ Throws(t)

Next == (\E t \in Threads : Step(t)) \/ Done

Spec == Init /\ [][Next]_vars

\* Every thread that can take a step is eventually run by the operating
\* system, the host's poll answers and a body ends (it walks a finite chunk).
Fairness == \A t \in Threads : WF_vars(Step(t))

FairSpec == Spec /\ Fairness

-----------------------------------------------------------------------------
InBody(t) == pc[t] \in {"body", "inlineBody"}
Running == {task[t] : t \in {u \in Threads : InBody(u)}}

Labels ==
  {"enter", "inlinePoll", "inlineBody", "unwind", "spawn", "check", "poll",
   "claim", "body", "join", "done", "unborn", "exited"}

Outcomes == {"none", "completed", "stopped", "threw", "noThread"}

\* The types of the state.
TypeOK ==
  /\ taskCount \in 0 .. MaxTasks
  /\ workers \in 1 .. MaxThreads
  /\ hostPoll \in BOOLEAN
  /\ faulty \in SUBSET Tasks
  /\ pc \in [Threads -> Labels]
  /\ task \in [Threads -> Nat]
  /\ nextTask \in Nat
  /\ stop \in BOOLEAN
  /\ spawned \in 0 .. MaxThreads - 1
  /\ failures \in SUBSET faulty
  /\ escaping \in BOOLEAN
  /\ completed \in BOOLEAN
  /\ outcome \in Outcomes
  /\ error \in Nat
  /\ done \in SUBSET Nat
  /\ late \in [Threads -> Nat]

\* The shared counter overshoots the task count by at most one claim for each
\* thread of the call, so a size_t cannot wrap however the threads race past
\* the last task (ThreadPool.hpp:137 and :175).
CounterOvershootsByThreads == nextTask <= taskCount + workers

\* No task is executed by two threads, or again after it has ended, however
\* the claims interleave (ThreadPool.hpp:75, "calling body(taskIndex) once
\* for each").
EachTaskOnce ==
  /\ \A t, u \in Threads : InBody(t) /\ InBody(u) /\ t # u => task[t] # task[u]
  /\ Running \intersect (done \union failures) = {}

\* The error that leaves the call is the one of the lowest-numbered failing
\* task of all the tasks given, not of those that happened to run, whatever
\* the schedule, even when the host also asked to stop (ThreadPool.hpp:89).
LowestErrorSurfaces ==
  outcome = "threw" => IsFirst(error, faulty)

\* A call that says it completed ran every task, and no failure was dropped.
CompletedMeansAllRan ==
  /\ outcome = "completed" => done = Tasks /\ faulty = {}
  /\ outcome = "stopped" => failures = {}

\* When the call is over no thread it created is left that could still touch
\* the caller's results (ThreadPool.hpp:191).
QuietAfterReturn ==
  outcome # "none" => \A t \in Threads \ {Caller} : pc[t] \in {"unborn", "exited"}

\* Interrupt latency is one task: after a stop is requested a thread claims at
\* most one more task, the one it was about to claim (ThreadPool.hpp:95).
OneTaskLatency == \A t \in Threads : late[t] <= 1

\* The call ends, whatever fails and whenever the host interrupts: no thread
\* waits for another that waits for it.
Terminates == <>(outcome # "none")

-----------------------------------------------------------------------------
(* What holds between the steps and makes the above inductive.              *)

InlineLabels == {"inlinePoll", "inlineBody", "unwind"}
ThreadedLabels == {"spawn", "check", "poll", "claim", "body", "join"}

\* Each kind of thread keeps to its own program; a worker exists once spawned.
ProgramsInv ==
  /\ pc[Caller] \notin {"unborn", "exited"}
  /\ \A t \in Threads \ {Caller} :
       /\ pc[t] \in {"unborn", "check", "claim", "body", "exited"}
       /\ pc[t] = "unborn" <=> t > spawned
  /\ outcome = "none" <=> pc[Caller] # "done"
  /\ escaping => pc[Caller] \in {"join", "done"}

\* A call that is not threaded touches nothing shared.
InlineInv ==
  /\ pc[Caller] \in {"enter"} \union InlineLabels =>
       /\ spawned = 0 /\ failures = {} /\ completed /\ ~stop
       /\ nextTask = 0
       /\ task[Caller] <= taskCount
       /\ done = 0 .. task[Caller] - 1
  /\ pc[Caller] \in {"enter", "spawn"} => task[Caller] = 0
  /\ pc[Caller] \in {"inlineBody", "unwind"} => task[Caller] < taskCount
  /\ pc[Caller] = "unwind" => task[Caller] \in faulty

\* Claims are made in task order and every claimed task is accounted for.
ClaimsInv ==
  /\ done \subseteq Tasks \ faulty
  /\ \A t \in Threads : pc[t] = "body" =>
       /\ task[t] \in Tasks
       /\ task[t] < nextTask
       /\ task[t] \notin done \union failures
  /\ \A t, u \in Threads :
       pc[t] = "body" /\ pc[u] = "body" /\ t # u => task[t] # task[u]
  /\ failures \intersect done = {}
  /\ pc[Caller] \in ThreadedLabels =>
       /\ \A i \in done \union failures : i < nextTask
       /\ \A i \in Tasks :
            i < nextTask =>
              \/ i \in done \union failures
              \/ \E t \in Threads : pc[t] = "body" /\ task[t] = i

\* Why a thread stops, and why the caller left its loop.
StopInv ==
  /\ stop /\ completed => failures # {}
  /\ failures # {} => stop
  /\ pc[Caller] = "join" /\ completed /\ ~escaping =>
       failures # {} \/ nextTask >= taskCount
  /\ \A t \in Threads :
       /\ late[t] <= 1
       /\ late[t] = 1 => stop /\ pc[t] \notin {"claim", "poll"}

\* The threads that will claim no more.  Only these can have taken the counter
\* past the last task, each by one claim.
HasLeft == {t \in Threads : pc[t] \in {"join", "exited", "done"}}

OvershootInv ==
  /\ spawned < workers
  /\ nextTask <= taskCount + Cardinality(HasLeft)

PoolInv ==
  /\ TypeOK
  /\ ProgramsInv
  /\ InlineInv
  /\ ClaimsInv
  /\ StopInv
  /\ LowestErrorSurfaces
  /\ CompletedMeansAllRan
  /\ QuietAfterReturn

-----------------------------------------------------------------------------
(* The call, seen through what its caller is promised.                      *)

Failed ==
  failures \union (IF pc[Caller] = "unwind" THEN {task[Caller]} ELSE {})
           \union (IF outcome = "threw" THEN {error} ELSE {})

Promise == INSTANCE ParallelRun WITH
  running <- Running,
  failed <- Failed,
  asked <- ~completed

\* The pool implements the promise of ParallelRun.
KeepsPromise == Promise!Spec
=============================================================================
