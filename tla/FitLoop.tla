------------------------------- MODULE FitLoop -------------------------------
(***************************************************************************)
(* Several fits over one dataset, sharing each walk: runFits of             *)
(* src/src/veil/FitLoop.hpp.                                                *)
(*                                                                         *)
(* Each round sets the coefficients of every unfinished fit on its own      *)
(* block, walks all those blocks together, and hands each fit the totals at *)
(* its position in the round.  The walk is runCalculations (module Engine), *)
(* seen from outside: it returns one result per block, or it was            *)
(* interrupted, or it throws.  What it finds is drawn when it is read.      *)
(***************************************************************************)
EXTENDS FitStepper, Sequences

CONSTANTS
  MaxJobs,      \* bound: the number of jobs in a call
  BlockNames,   \* the blocks jobs may name
  NullBlock     \* a job without a block

ASSUME JobsAssumption == MaxJobs \in Nat \ {0}

Faults == {"none", "start", "scalars", "outputs"}

VARIABLES
  jobs,          \* argument: the block each job names and what is wrong with it
  stage,         \* where runFits is
  steppers,      \* one per job
  index,         \* the job a round is being prepared for
  parameters,    \* the coefficients set on each block: the job that set them and the point
  walking,       \* the jobs in this round, in job order
  calculations,  \* this round's results, by position: where each was made
  position       \* how many of them have been received

fitVars == <<jobs, stage, steppers, index, parameters, walking, calculations, position>>

Jobs == DOMAIN jobs
JobType == [block : BlockNames \union {NullBlock}, fault : Faults]

\* Where a total was computed: whose coefficients, and which.
Places == (1 .. MaxJobs) \X Points
Nowhere == <<1, Start>>

FitInit ==
  /\ \E n \in 0 .. MaxJobs : jobs \in [1 .. n -> JobType]
  /\ stage = "validate"
  /\ steppers = [j \in Jobs |-> NewStepper(Nowhere)]
  /\ index = 1
  /\ parameters = [b \in BlockNames |-> Nowhere]
  /\ walking = <<>>
  /\ calculations = <<>>
  /\ position = 0

-----------------------------------------------------------------------------
HasNull == \E j \in Jobs : jobs[j].block = NullBlock
\* Mistake: two fits may share a block.
SharedIsAllowed == FALSE

Shared == \E i, j \in Jobs : i # j /\ jobs[i].block = jobs[j].block
BadControl == \E j \in Jobs : jobs[j].fault \in {"start", "scalars"}

\* Every job is validated before any record is read.
Refuse ==
  /\ stage = "validate"
  /\ HasNull \/ Shared \/ BadControl
  /\ stage' = "threw"
  /\ UNCHANGED <<jobs, steppers, index, parameters, walking, calculations, position>>

Begin ==
  /\ stage = "validate"
  /\ ~(HasNull \/ Shared \/ BadControl)
  /\ stage' = "prepare"
  /\ UNCHANGED <<jobs, steppers, index, parameters, walking, calculations, position>>

DropsOut(j) == Finished(steppers[j])

Preparing == stage = "prepare" /\ index \in Jobs

PassOver ==
  /\ Preparing
  /\ DropsOut(index)
  /\ index' = index + 1
  /\ UNCHANGED <<jobs, stage, steppers, parameters, walking, calculations, position>>

\* prepareWalk: the coefficients are written on the job's own block.
PrepareWalk ==
  /\ Preparing
  /\ ~DropsOut(index)
  /\ parameters' = [parameters EXCEPT
                      ![jobs[index].block] = <<index, NextWalkAt(steppers[index])>>]
  /\ walking' = Append(walking, index)
  /\ index' = index + 1
  /\ UNCHANGED <<jobs, stage, steppers, calculations, position>>

Prepared == stage = "prepare" /\ index \notin Jobs
AtWalk == Prepared /\ walking # <<>>

\* Mistake: the loop is left only when every fit has converged.
ReturnWhenAllConverged ==
  /\ Prepared
  /\ \A j \in Jobs : steppers[j].status = "Converged"
  /\ stage' = "returned"
  /\ UNCHANGED <<jobs, steppers, index, parameters, walking, calculations, position>>

Return ==
  /\ Prepared
  /\ walking = <<>>
  /\ stage' = "returned"
  /\ UNCHANGED <<jobs, steppers, index, parameters, walking, calculations, position>>

Walk ==
  /\ AtWalk
  /\ calculations' = [p \in 1 .. Len(walking) |-> parameters[jobs[walking[p]].block]]
  /\ position' = 0
  /\ stage' = "receive"
  /\ UNCHANGED <<jobs, steppers, index, parameters, walking>>

InRound(j) == \E p \in 1 .. Len(walking) : walking[p] = j

\* The totals are meaningless and nothing is taken from them; every fit of the
\* round is stopped and the loop is left.
WalkInterrupted ==
  /\ AtWalk
  /\ steppers' = [j \in Jobs |->
                    IF InRound(j) THEN Interrupt(steppers[j]) ELSE steppers[j]]
  /\ stage' = "returned"
  /\ UNCHANGED <<jobs, index, parameters, walking, calculations, position>>

WalkThrows ==
  /\ AtWalk
  /\ stage' = "threw"
  /\ UNCHANGED <<jobs, steppers, index, parameters, walking, calculations, position>>

Receiver == walking[position + 1]

ReceiveTotals ==
  /\ stage = "receive" /\ position < Len(walking)
  /\ jobs[Receiver].fault # "outputs"
  /\ \E found \in Findings :
       steppers' = [steppers EXCEPT ![Receiver] =
                      Receive(@, Totals(calculations[position + 1], found))]
  /\ position' = position + 1
  /\ UNCHANGED <<jobs, stage, index, parameters, walking, calculations>>

\* unpackFit: the block carries the other number of outputs.
ReceiveMismatched ==
  /\ stage = "receive" /\ position < Len(walking)
  /\ jobs[Receiver].fault = "outputs"
  /\ stage' = "threw"
  /\ UNCHANGED <<jobs, steppers, index, parameters, walking, calculations, position>>

\* The next round: both lists are cleared.
NextRound ==
  /\ stage = "receive" /\ position = Len(walking)
  /\ stage' = "prepare"
  /\ index' = 1
  /\ walking' = <<>>
  /\ UNCHANGED <<jobs, steppers, parameters, calculations, position>>

Over == stage \in {"returned", "threw"}

FitStep ==
  \/ Refuse \/ Begin \/ PassOver \/ PrepareWalk \/ Return
  \/ Walk \/ WalkInterrupted \/ WalkThrows
  \/ ReceiveTotals \/ ReceiveMismatched \/ NextRound

FitNext == FitStep \/ (Over /\ UNCHANGED fitVars)

FitSpec == FitInit /\ [][FitNext]_fitVars

\* The loop is one thread's own code and every walk ends (module ThreadPool).
FairFitSpec == FitSpec /\ WF_fitVars(FitStep)

-----------------------------------------------------------------------------
FitTypeOK ==
  /\ \A j \in Jobs : jobs[j] \in JobType
  /\ stage \in {"validate", "prepare", "receive", "returned", "threw"}
  /\ steppers \in [Jobs -> StepperType(Places)]
  /\ index \in 1 .. MaxJobs + 1
  /\ parameters \in [BlockNames -> Places]
  /\ walking \in Seq(Jobs)
  /\ calculations \in Seq(Places)
  /\ position \in 0 .. MaxJobs

\* What a fit carries was walked at its own coefficients: the accumulation it
\* holds is always that of the beta it would report, made on its own block,
\* whatever else shared the walk and however many fits have dropped out
\* (FitLoop.hpp:439, "each fit sees only its own totals").
OwnTotalsAtOwnBeta ==
  \A j \in Jobs :
    steppers[j].iterations > 0 =>
      steppers[j].current.at = <<j, steppers[j].beta>>

\* Everything a converged fit reports was computed at the beta it reports: the
\* likelihood, the gain the convergence test saw, and the variance.  A fit
\* that ran out of budget still reports the likelihood of its beta, with no
\* variance (FitLoop.hpp:108, "filled only on success").
ReportIsOfItsBeta ==
  \A j \in Jobs :
    LET s == steppers[j]
    IN Finished(s) =>
         /\ s.iterations > 0 => s.likelihoodAt = s.beta
         /\ s.status = "Converged" => s.gainAt = s.beta /\ s.varianceAt = s.beta
         /\ s.status # "Converged" => s.varianceAt = NoPoint

\* Walks are bounded by the budget: the start, and for every iteration the full
\* step and its halvings; a fit that collapses in its first iteration has made
\* exactly those (test-veil_fit.R:862).
WalksAreBounded ==
  \A j \in Jobs :
    /\ steppers[j].evaluations <= 1 + MaxIterations * (MaxHalvings + 1)
    /\ steppers[j].iterations <= MaxIterations
    /\ steppers[j].status = "StepCollapsed" /\ steppers[j].iterations = 1 =>
         steppers[j].evaluations = 1 + (MaxHalvings + 1)

\* No fit is left unfinished when runFits returns, and an interruption is every
\* unfinished fit's: those of the round it cut short, and no other
\* (FitLoop.hpp:493).
InterruptEndsEveryFit ==
  stage = "returned" =>
    \A j \in Jobs :
      /\ Finished(steppers[j])
      /\ steppers[j].status = "Interrupted" =>
           /\ InRound(j)
           /\ \A k \in Jobs : InRound(k) => steppers[k].status = "Interrupted"

\* What a fit has of the walks before: its accepted coefficients, the totals made
\* there, and what it has computed from them.
Held(s) ==
  <<s.beta, s.current, s.iterations, s.evaluations,
    s.likelihoodAt, s.gainAt, s.varianceAt>>

BecomesInterrupted(j) ==
  steppers[j].status # "Interrupted" /\ steppers'[j].status = "Interrupted"

\* Nothing is taken from a walk cut short: the step that interrupts a fit ends the
\* call, leaves every fit already over exactly as it was, and leaves every other
\* fit, now interrupted too, with the coefficients it last accepted and the totals
\* of its own complete walk there (FitLoop.hpp:299, "nothing is taken from them").
InterruptTakesNothing ==
  [][(\E j \in Jobs : BecomesInterrupted(j)) =>
       /\ stage' = "returned"
       /\ \A j \in Jobs :
            LET old == steppers[j]
                new == steppers'[j]
            IN IF Finished(old)
               THEN new = old
               ELSE /\ Finished(new) /\ new.status = "Interrupted"
                    /\ Held(new) = Held(old)
                    /\ new.iterations > 0 => new.current.at = <<j, new.beta>>]_fitVars

\* The objective a fit holds only improves from one accepted point to the next,
\* and a fit that moves to a new beta improved on the one it leaves: the loop
\* cannot crawl or revisit (FitLoop.hpp:273).
ObjectiveOnlyImproves ==
  [][\A j \in Jobs :
       steppers'[j].beta # steppers[j].beta =>
         /\ steppers'[j].current.finite
         /\ steppers[j].current.finite
         /\ steppers'[j].current.objective > steppers[j].current.objective]_fitVars

\* A finished fit drops out: no later round touches what it will report.
FinishedIsFinal ==
  [][\A j \in Jobs : Finished(steppers[j]) => steppers'[j] = steppers[j]]_fitVars

\* The call ends: every fit converges, fails or is stopped.
FitsEnd == <>Over

View(j) == IF j \in Jobs THEN steppers[j] ELSE NewStepper(Nowhere)

Alone(j) == INSTANCE FitAlone WITH Self <- j, stepper <- View(j)

\* A fit run alongside others behaves as the same fit run alone, \A j :
\* Alone(j)!Spec written out: it sees only walks of its own block at the
\* coefficients it asked for, each exactly once (FitLoop.hpp:439).
EachFitAsAlone ==
  /\ \A j \in 1 .. MaxJobs : Alone(j)!Init
  /\ [][\A j \in 1 .. MaxJobs : Alone(j)!Next \/ View(j)' = View(j)]_fitVars
=============================================================================
