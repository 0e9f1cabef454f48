----------------------------- MODULE ParallelRun -----------------------------
(***************************************************************************)
(* What a caller of runInParallel is promised, without saying how: every    *)
(* task is begun at most once, nothing is running when the call ends, a     *)
(* call that completes ran every task, a call that throws throws the error  *)
(* of the lowest-numbered failing task, and a call the host never asked to  *)
(* stop either completes or throws.  There are no threads here and no       *)
(* counter: any task may begin at any time.                                 *)
(***************************************************************************)
EXTENDS Naturals

CONSTANT MaxTasks         \* the largest task count considered

VARIABLES
  taskCount,   \* how many tasks this call was given
  faulty,      \* the tasks whose body throws
  running,     \* the tasks whose body is being executed
  done,        \* the tasks whose body has returned
  failed,      \* the tasks whose body has thrown
  asked,       \* the host asked to stop
  outcome,     \* how the call ended, or "none"
  error        \* the task whose error left the call, if outcome is "threw"

vars == <<taskCount, faulty, running, done, failed, asked, outcome, error>>

Tasks == 0 .. taskCount - 1

Init ==
  /\ taskCount \in 0 .. MaxTasks
  /\ faulty \in SUBSET Tasks
  /\ running = {} /\ done = {} /\ failed = {}
  /\ asked = FALSE
  /\ outcome = "none" /\ error = 0

inputs == <<taskCount, faulty>>
result == <<outcome, error>>

Begin(i) ==
  /\ outcome = "none"
  /\ i \in Tasks \ (running \union done \union failed)
  /\ running' = running \union {i}
  /\ UNCHANGED <<inputs, done, failed, asked, result>>

Return(i) ==
  /\ i \in running \ faulty
  /\ running' = running \ {i}
  /\ done' = done \union {i}
  /\ UNCHANGED <<inputs, failed, asked, result>>

Throw(i) ==
  /\ i \in running \intersect faulty
  /\ running' = running \ {i}
  /\ failed' = failed \union {i}
  /\ UNCHANGED <<inputs, done, asked, result>>

HostAsks ==
  /\ outcome = "none"
  /\ asked' = TRUE
  /\ UNCHANGED <<inputs, running, done, failed, result>>

Quiet == outcome = "none" /\ running = {}

Complete ==
  /\ Quiet
  /\ ~asked
  /\ done = Tasks
  /\ outcome' = "completed"
  /\ UNCHANGED <<inputs, running, done, failed, asked, error>>

\* The inline path answers the poll by returning at once, so asking and
\* stopping may be one step.
Stop ==
  /\ Quiet
  /\ failed = {}
  /\ asked' = TRUE
  /\ outcome' = "stopped"
  /\ UNCHANGED <<inputs, running, done, failed, error>>

Rethrow(i) ==
  /\ Quiet
  /\ i \in failed
  /\ \A j \in faulty : i <= j
  /\ outcome' = "threw"
  /\ error' = i
  /\ UNCHANGED <<inputs, running, done, failed, asked>>

\* A thread could not be created: the operating system's error leaves the call.
NoThread ==
  /\ Quiet
  /\ outcome' = "noThread"
  /\ UNCHANGED <<inputs, running, done, failed, asked, error>>

Next ==
  \/ \E i \in Tasks : Begin(i) \/ Return(i) \/ Throw(i) \/ Rethrow(i)
  \/ HostAsks \/ Complete \/ Stop \/ NoThread

Spec == Init /\ [][Next]_vars
=============================================================================
