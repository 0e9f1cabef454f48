# Specifications of veil, the calculation core of r-logmu

`logmu` is an R package for mortality experience analysis. Its core, *veil*
(`src/src/veil/`, bound to R by `src/src/veil_for_R.cpp`), takes a mathematical
expression over a person's exposure, compiles it to a straight-line block of
instructions, runs the block over every record of a dataset on several threads,
and adds up what comes out. An A/E comparison is one such walk; a fit is many,
driven by a Newton-Raphson loop.

This directory holds TLA+ models of that core, TLC configurations that check
them on small instances, and TLAPS proofs of what matters most for every
instance. Paths below are relative to the repository, which sits in `src/`
(`Engine.hpp:318` means `src/src/veil/Engine.hpp`, line 318).

## 1. The system

### Components

| component | state it keeps | operations | what makes it correct |
|---|---|---|---|
| **R front end** (`R/batch.R`, `fit.R`, `aev_analysis.R`, `compare_models.R`) | none between calls | checks arguments, plans analyses, groups a batch into crossings, cuts up the results, ranks candidates | an analysis of a batch gets its own answer; a failed one affects no other; what a candidate failed with is not ranked |
| **experience data** (`R/data.R`) | the rows of a dataset and its period | `exp_data()`, `$<-`, `val_from_exp_data()` | every row stays usable; consecutive periods add up; a valuation is of the living |
| **simulation** (`R/simulate.R`) | hazard, deaths so far | `simulate()` | mortality read where the engine reads it; no life and no death lost |
| **R objects and diagnostics** (`R/include.R`, `it_ast.R`, `diagnose.R`, ...) | values that do not change once made | validate, parse pronoun expressions, summarise, print | what reaches the binding is well formed |
| **binding** (`veil_for_R.cpp`) | one call's specifications, blocks, results | ingest trees and columns, the tree pipeline, the block pipeline, `runFitSpecs`, A/E/V | no answer from an interrupted walk; a claim is verified before it is used; errors do not depend on the order of arguments |
| **columns and text** (`ColumnScan`, `ColumnSet`, `StringMapping`, `passEncodeText`) | the columns in use; one numbering of strings | scan, register, encode | data and model agree on every string's number |
| **tree passes** (`pass*.hpp` on `Tree`) | an append-only tree, with shared nodes once sharing has run | types, coercions, folding, intervals, sharing, squares, hoisting, tagging | every rewrite keeps the value; each pass finds what it relies on; no interval misses a value |
| **recipes** (`FitRecipe`, `AevRecipe`, `DisjointRecipe`) | none | the list of integrals a calculation asks for | output order is the order `unpackFit` reads |
| **lowering** (`passLowerToBlock`) | memo of lowered nodes, the include's clips, the block under construction | resolve the include, emit prologue and body | an operand is written once and before it is read; the prologue stands on nothing of the body; nothing dead is emitted |
| **block passes** (`passComputeLiveness`, `passComputeSlotDemand`, `passFindDeadInstructions`, `passAllocateVectorBuffers`) | ranges, demands, buffer of each operand | one scan each | no buffer is taken while its value is needed; nothing needed is left unfilled |
| **interpreter** (`Interpreter`) | registers, buffers and grid that outlive a record | `loadRecord`, `run`, `scalarResult` | the answer is this record's; no read leaves its vector |
| **time grid** (`TimeGrid`, `datey.h`) | none | exposure to sample points, in integer clicks | midpoints tile the exposure |
| **record chunks** (`RecordChunk`) | none | divide records into equal chunks | the chunks partition the records |
| **engine** (`Engine`) | per block and chunk: partial totals | `runCalculations` | a total does not depend on the schedule |
| **thread pool** (`ThreadPool`) | claim counter, stop source, failure slots | `runInParallel` | each task once; the lowest error surfaces; the outcome is true; the call ends |
| **fit loop** (`FitLoop`) | per fit: beta, current totals, status, counts | `FitStepper`, `runFits` | a fit among others is the fit alone; what is reported belongs to the beta reported; it ends |
| **linear algebra**, **mortality tables**, **vector kernels** | none | floating-point arithmetic | accuracy, which a model checker cannot judge |

### How they interact

A call comes down one path. R hands the binding its specifications; the binding
runs the tree pipeline, lowers, and lays out the block (`runBlockPipeline`,
`veil_for_R.cpp:1110`). `runFits` sets coefficients on each block and asks the
engine for one walk of all of them. The engine makes one task per block and
chunk and gives them to the pool; a task builds its own interpreter, walks its
chunk, and writes to slots no other task touches. The calling thread works
beside the threads it spawned, alone polls R for an interrupt, joins, rethrows
the lowest-numbered failure, and folds the partials in chunk order.

Shared state is small and deliberate: the atomic counter, the stop token, the
failure slots (one per task), the partials and contributions (disjoint slices).
Everything else is a value or is owned by one thread.

### What is hard about it

* **Concurrency**: claims, stops, failures and thread-creation errors in any
  order, while the result must be bit-identical on every schedule, which for
  floating-point sums means the same additions in the same order.
* **Partial failure**: an interrupt or an exception with some chunks added and
  some not; some fits finished and some not.
* **State kept for speed**: buffers shared by operands, kept between records and
  filled only where something reads; totals kept from walk to walk.
* **Retry**: backtracking over step lengths, within a budget.
* **Ordering**: what is validated, compiled, verified and walked before what.

`PROJECT.json` lists each hazard with its line and the properties that cover it.

## 2. Modules

Each module's header says what it stands for; `PROJECT.json` ("map") gives the
lines of every definition.

```
ParallelRun          promise of a parallel call (abstract)
ThreadPool           runInParallel               implements ParallelRun
RecordChunk          the division of records (operators)
Engine               = ThreadPool + RecordChunk + what a task body does
  EngineProofs       the pool and its refinement, the division, the engine: proved
FitStepper           one fit's state as a record, its methods as operators
FitAlone             one fit with nothing else in the call (abstract)
FitLoop              = FitStepper for several jobs    each job implements FitAlone
FitCall              = FitLoop + runFitSpecs around it
  FitProofs          both, and each fit as alone: proved
Vectors              R's indexing, unique() and sum() (operators)
Loops                a loop over a sequence, as one operator that takes its body
  DataInduction      division, induction over data, what such a loop comes to: proved
Batch                = Vectors + batch() and run_plans(), with the engine seen from outside
ExpData              = Vectors + exp_data(), assigning its columns, val_from_exp_data()
Simulate             = ExpData + TimeGrid + the walk of simulate()
  RCodeProofs        what Vectors returns, Batch, ExpData and Simulate: proved
BlockLayout          the four passes over a block
BlockRun             = BlockLayout + the interpreter over successive records
  BlockProofs        both: proved
TimeGrid             an exposure cut into slots (operators)
Exposure             = TimeGrid + the entry points' check and integrateSlots
  ExposureProofs     its invariant, proved
Values               arithmetic with missing and infinite values (operators)
Tree                 nodes, operations and their table (operators)
TreePasses           = Tree + Values + Loops + the passes up to folding, as operators on trees
TreeSharing          = TreePasses + the passes that share, distribute and hoist
Recipes              = Tree + ingestion and the roots of A/E/V, fits and checks (operators)
Lowering             = Tree + BlockLayout + passLowerToBlock, a step at a time
  LoweringProofs     its invariant, proved
Meaning              = TreePasses + Lowering: what an expression means, what a block answers
TreePipeline         = Meaning + Lowering + the passes up to folding, a step at a time
  IntervalProofs     its invariant, and that intervals are sound and folding right: proved
Compile              = all of these: a call from expressions to a laid out block
MC*                  constants for TLC
```

### ThreadPool and ParallelRun

`ParallelRun` says what a caller may rely on, without threads: tasks begin at
most once, nothing runs when the call ends, a completed call ran everything, a
thrown error is the lowest-numbered one. `ThreadPool` is the code. Thread 0 is
the caller; a thread's `pc` is its place in the loop:

| `pc` | code |
|---|---|
| `enter`, `inlinePoll`, `inlineBody`, `unwind` | the call without threads, `ThreadPool.hpp:103-123` |
| `spawn` | creating jthreads, :161-163, which may throw |
| `check` | the test of the stop token, :135 |
| `poll` | the host's answer, caller only, :168-173 |
| `claim` | `nextTask.fetch_add`, :137 and :175 |
| `body` | the task, and the catch that records a failure, :140-149 |
| `join`, `done`, `unborn`, `exited` | :189-198 and the life of a jthread |

Test, claim and body are separate steps, so a stop can come between any two.
`done` and `late` are history: the tasks that returned, and each thread's claims
after a stop. The counter's relaxed ordering allows no more than atomic
increments do, since nothing is published through it; the stop token and the
joins order the rest.

### RecordChunk and Engine

A record's contribution is a symbol, and an accumulator the sequence of
contributions added to it, in order: two floating-point totals are bit-identical
exactly when the sequences are equal. `Engine` runs the pool's actions unchanged
and gives `body` its meaning: walk the records of one chunk for one block,
skipping those the include rejects, throwing where a record throws. Two
failing records of one chunk, or of two blocks, are distinguished. The block run
alone is not a second walk: `AsIfAlone` says of each partial that it has the
accepted records of its chunk, each once and ascending, which only one sequence
does.

### FitStepper, FitAlone, FitLoop, FitCall

Coefficients are *points*: the start, or the trial of iteration k after h
halvings. Beta, the step and its length are functions of it. A walk at a point
finds an objective (a level, or not finite) and moments, of which the loop tells
apart: not finite, singular, gain below the tolerance, gain above it. What a
walk finds is chosen when its totals are received, freely each time, so no
property leans on a relation between nearby points. Every total carries the
place it was computed (whose coefficients, at which point), so that a
mismatch can be seen.

`FitLoop` is `runFits`: validation, then rounds. A round prepares the jobs one by
one (`PassOver`, `PrepareWalk`), walks those it prepared, hands each its result in
turn, and begins again while any fit goes on. Coefficients sit in the blocks from
when a job is prepared until another sets them, so two jobs of one block could be
seen to overwrite each other.
`FitAlone` is the same stepper with nothing around it. `FitCall` is `runFitSpecs`
with one problem and one disjointness claim per specification, in front of
`FitLoop`'s own steps.

### BlockLayout and BlockRun

An instruction is what it writes, what it reads, and whether it works slot by
slot (`aligned`) or collapses a time vector (`integrate`, `diedValue`).
`BlockLayout` makes each iteration of each scan an action, with the refusals the
passes throw. Two details are merged: the placement guards of liveness are one
check, since they change nothing and all throw; and allocation's check that the
ranges are the block's own is left out, since `runBlockPipeline` passes exactly
those.

`BlockRun` walks records. A number is represented by *what it is the right value
of*: a register holds the record whose value it has, a slot the operand and the
record. An instruction whose arguments are all right writes a right result;
otherwise it writes `Junk`. Registers and buffers persist from record to record,
resizing keeps the old contents of a buffer, and slots outside the demand are
left as they were, so a stale or foreign value reaches the answer if anything
reads it. The construction of one interpreter per chunk is `Construct`; that a
record may throw is part of `Engine`, which discards everything then.

### TimeGrid and Exposure

`TimeGrid` is `TimeGrid.hpp` in whole clicks. `Exposure` makes one call of it:
the time scale is accepted or refused, then the exposure, and `integrateSlots`
adds the full slots bare, scales their sum once and adds the short slot. Two
integrands are followed whose integrals are known exactly, one and time itself.

### Values, Tree, TreePasses, TreeSharing and Recipes

A tree is a sequence of nodes and a sequence of roots, as the arena is. Each pass
of `runTreePipeline` is one operator on it; the passes that walk the arena by id
walk it in that order, appending where the code appends, so that what a pass sees
of its own rewrites is what the code's pass sees. Where the code walks from a node to
its arguments with a stack of its own (`passPropagateIntervals.hpp:267-290`), so does
`ChildrenFirst`, a turn at a time. `Tree` has the op table
with the attributes the passes consult; `Values` the arithmetic of the
interpreter, in fixed point (`One` is the number 1) with `Inf` and `NaN`. `exp`
is a power of two at each whole number and flat between, zero or infinite far
out: no pass knows more of it than that it never decreases and is not negative. `Recipes` is what an
entry point puts on the tree.

### Lowering

One action for each thing `Lowerer` does. Its recursion is `stack`, a frame for
each call under way with the operands got so far, and its memo is `memo`; the
include is lowered first, a term at a time, into the prologue, and `clip` holds
the operands of what is known of the exposure. A block under construction is
`code`, a table of operands and the two lists of instructions. Complaints are
collected in one operator, `Complaints`, each with its condition.

`LoweringSpec` is lowering alone, over any tree that is `Lowerable`. `Compile`
checks that what the tree passes hand on is `Lowerable`, and what lowering hands
over, `Runnable`, includes `ScalarsInOrder`, the assumption of `BlockLayout` and
`BlockRun`. So the three proofs meet: what one assumes the other guarantees.

### Compile and Meaning

`TreePipeline` is the first eight passes of `runTreePipeline` in their order, up to the
folding of comparisons. `PipelineSpec` is these alone, begun with any tree that can be
ingested (`Written`): calls of the right number of arguments, literals and columns of
their types. `Compile` runs a job through ingestion, these eight steps, the ones that
share and simplify, `Lowering` and `BlockLayout`'s own steps. `Meaning` says what the
answers should be: `Meant` evaluates the expressions over an individual's
exposure as they were ingested, the include read as a set of slots; `Answered`
executes the block, prologue, grid and body, with the interpreter's operations.
The two share the arithmetic of `Values` and the grid of `TimeGrid`, and nothing
else.

### Batch

The state is a call in progress: what has been planned, which time scale is being
run, and the lists that `run_plans()` cuts up. `stage` is the place in the code:

| `stage` | code |
|---|---|
| `check` | an empty batch, names and the batch's own pairs, `batch.R:163-191` |
| `plan` | `batch_plan_element` for each analysis, then one dataset, :193, :482-489 |
| `compile`, `walk` | `cpp_veil_run`, `fit.R:257` |
| `ask` | each plan's `fits`, with its Z, :261-263 |
| `fit` | `cpp_veil_fit_runs`, :268 |
| `finish` | each plan's `finalise`, failures held, :272-275, and back into place, `batch.R:506` |

What an analysis answers with is the names of the specifications and models the
answer was made of. Arguments are given or not; of those that interact, `Source`
says whose was used.

### ExpData and Simulate

`ExpData` reads the columns across, a row at a time. `Kept` is `new_exp_data` with
its argument `new_col_name`, which decides what is checked, dropped and trimmed
again. `Simulate` walks the hazard grid of all lives together, each dying or not
in each step (the uniform draw is the choice), then hands the rows to `ExpData`'s
own steps, beside calls in which a user gives the columns. Days are `ClicksPerDay`
clicks; `mid_day` is `datey`'s. Columns are assigned to given data only, a bound
(`ChangeGiven`): drawn rows are among the kinds of rows given.

## 3. What the runs check

| run | instance | distinct states |
|---|---|---|
| `thread_pool` | up to 3 tasks, 3 threads, every set of failing tasks, requests 0/1/3, hardware 0/2 | 16 thousand |
| `engine` | 0-2 blocks, 0/3/5 records in chunks of 2, 1 or 3 threads, every schedule | 226 thousand |
| `fit_loop` | up to 2 jobs, 3 iterations, 2 halvings, 4 objective levels | 319 thousand |
| `fit_call` | up to 2 specifications, any problem and claim each | 6 thousand |
| `block_run` | every body of 5 instructions with up to 2 arguments, each written earlier, 7 blocks with prologues, scalars or no grid, and 9 broken ones; 2 records, grids of 1-2 slots with or without death | 241 thousand |
| `time_grid` | exposures of any length on a calendar of two years of 36 clicks, or outside it, with or without death; three time scales and a wrong one | 21 thousand |
| `compile` | 60 calls, each for four individuals with eleven columns | 4 thousand |
| `batch` | every way of giving 7 arguments in one analysis and its batch; any 2 analyses of 4 shapes, 2 time scales and 5 faults; any 3 without faults; up to 2 candidates, 3 verdicts | 287 thousand |
| `exp_data` | a row of any dates about the period, dead or not, with a count of -1, 0 or 1, beside another, and any `$<-`; or a life with any start and cap about a day boundary, or two, 3 time scales, days of 4 clicks; 4 periods | 732 thousand |

**thread_pool.** The error that leaves is the lowest-numbered failing task's even
when others failed first or the host asked to stop (`LowestErrorSurfaces`); interrupt latency is one task
(`OneTaskLatency`); the counter stays near the task count
(`CounterOvershootsByThreads`); the call ends (`Terminates`); the whole implements
`ParallelRun` (`KeepsPromise`), so tasks run at most once, a call that says it completed ran them all
and nothing outlives the call. Three tasks and threads are enough for every pattern
the code can tell apart: a thread that runs several tasks, one that runs none,
two failures in the wrong order, a third thread while two race, and a spawn
failure after some threads run; the proofs remove the bound.

**engine.** A returned total is the sequence a block run alone on one thread
would produce (`ScheduleCannotMoveATotal`), every accepted record is in it once
and the diagnostics agree (`EveryRecordOnce`), threads write disjoint slices
(`WritesAreDisjoint`), the error is that of the first failing record of the
lowest block (`FirstFailingRecordSurfaces`) and an incomplete call leaves no
total (`NoPartialAnswer`). Five records in chunks of two give chunks
of sizes that differ; two blocks give tasks that share a chunk. All are proved
for every size (section 4).

**fit_loop.** Each fit only ever holds totals of its own block at its own beta
(`OwnTotalsAtOwnBeta`) and implements `FitAlone` (`EachFitAsAlone`), whatever
the other does; what it reports was computed at the beta it reports
(`ReportIsOfItsBeta`); accepted objectives increase (`ObjectiveOnlyImproves`); the
call ends (`FitsEnd`). That walks stay within the budget, that an interrupted walk
gives nothing and that finished fits do not change is proved (section 4). Three iterations let a
fit accept, backtrack and run out of budget in different ones; two halvings are
a retry and a retry of a retry; two jobs are enough for a position in the round
to name the wrong one after the other has dropped out.

**fit_call.** Off-diagonal sums are dropped only on a verified claim
(`OnlyVerifiedClaimsAreUsed`); an interrupt anywhere voids the call
(`NoInterruptedAnswer`); one bad specification raises the same error wherever
it sits (`OneBadFitFailsAlike`). The loop inside is kept small (one iteration,
no halving): `fit_loop` checks it.

**block_run.** Live time vectors have buffers of their own
(`LiveVectorsAreApart`) and there are no more buffers than values live at once
(`FewestBuffers`); one backward scan finds exactly the parts of the grid each
vector is read at, compared with following readers to a fixed point
(`DemandIsWhatIsRead`); an instruction is reported dead exactly when nothing
depends on it, compared with a forward closure over body and prologue
(`DeadIsUnneeded`). Four free instructions and a final one are enough for
diamonds, two readers with different demands, dead chains, and a buffer taken
again; separate blocks add prologues, an include, scalars between
integrals, and no grid at all. Then the interpreter: every answer of every record is made of that record's values
(`AnswersAreThisRecords`) and no instruction reads past a vector's end
(`ReadsStayInBounds`). Two records are enough, because what a record finds is
what the previous one left; the second may have a longer or a shorter grid, with
or without a death slot, or follow a skipped record.

**time_grid.** The slots divide the exposure, without gap or overlap, each
sampled at its own middle (exactly for full slots, within half a click for the
last); a death adds one sample, at the end (`SlotsDivideTheExposure`). The total
is the integral of what has been walked, exactly over full slots and at the end
out by no more than half a click of the last one (`TotalsAreTheIntegrals`).
Exposures shorter than a slot, of a whole number of slots, of odd and even
length, empty, reversed and outside the calendar are all there, starting at
every residue of the rounding, which is modulo 4.

**compile.** For every individual the block answers what the expressions mean
(`CompiledAnswersAreTheExpressions`): A/E/Vs with every kind of weight, fits with
covariates that are indicators, overlap, vary over time or claim to be disjoint,
includes made of gates, offsets and absolute bounds, and single expressions that
reach each rule of the passes, over data with missing dates and numbers,
exposures with and without a final slot and a death, and individuals the include
empties. On the way: no interval misses a value any individual has, at any node
(`IntervalsBoundTheValues`); a comparison that is folded has the answer it is folded to,
for whoever and whenever neither side is missing (`ComparisonsSettleRightly`); nothing lowering emits is dead, and an indicator, a
weight or a relevance costs no integral: the number of integrals left is the one
each job states (`NothingIsWasted`); a call is refused only for a fault its user made
(`OnlyFaultsAreRefused`: 14 jobs have one, the others are accepted by every pass);
the block is one the later passes and the interpreter may be given
(`BlocksAreRunnable`). Each job is one behaviour, so the breadth is that of the
list of jobs: every rule of every modelled pass fires in some of them.

**batch.** Each analysis of a batch gets the answer its lone call would have,
where it was written, whatever the others ask for (`EachAnalysisAsAlone`). Only
a fault of an argument, a specification, a Z, a model or the engine stops a
batch, never a fit that failed, nor half a pair of arguments that the analysis left
to its batch (`OnlyFaultsStopABatch`); candidates that failed come last and without figures,
each fit beside its own row (`BestFitComesFirst`). That a fit among others comes
to what it would alone is `EachFitAsAlone` and the proofs of `FitLoop`; here a
fit has one verdict, whoever it is run with. Two analyses are enough for a fault
of one to meet every state of the other, three for two of one time scale with
another between them. Specifications and models are numbered by their analysis,
so an answer made of another's shows.

**exp_data.** After any `$<-` assignments every row is of positive length, within the
period and of a positive count (`EveryRowIsUsable`), so the engine refuses none. This is
said of `$<-` only (section 5).
Cutting a period anywhere in two neither loses nor doubles exposure or deaths
(`PeriodsAddUp`). A valuation holds those of the data alive at its date by what was
given, before trimming (`ValuationIsOfTheLiving`). One row takes every position
about the period; the second stands for the rows a refusal would also lose.

Of what is simulated, the points at which the mortality is read are those of the
engine's grid over the same window, worked out by `TimeGrid`, which is a model of
other code (`SampledOnTheEnginesGrid`). Every observed life is in the data, in order;
every death drawn is a death there, on its day (`EveryLifeIsFollowed`). Windows end
at any click up to beyond the period, so final steps have every length and
middays fall before an entry, after a cap and after the period.

Each property has a mutant in `PROJECT.json`: a plausible mistake in the code
that makes TLC report it violated. The mutated operators stand next to the
definitions they replace and are marked *Mistake*.

### Disagreements between the code and its comments

Three runs are expected to be violated; each states a comment and shows the code
does something else. `fold_nan` and `batch_settings` can change an answer and
`simulate_entry` can lose one.

* `fold_nan`: a comparison is said (`passFoldIntervalComparisons.hpp:22`, `:73`) to
  be folded when the intervals settle it for every row. Intervals say nothing of
  missing values. A column with NAs is unbounded for that reason, but `max(x, 0)`
  is bounded again, so `max(x, 0) >= 0` is folded to TRUE, which a record
  with a missing `x` would answer FALSE. This, and a clamp whose bounds cross (below), are
  all that is wrong with folding: that it is right wherever
  nothing is missing and no clamp's bounds cross is `ComparisonsSettleRightly`, checked
  on calls whose clamps are in order and proved under that hypothesis.
* `batch_settings`: an analysis that names its own value is said (`batch.R:59`) to
  win over the batch's default. One that names its overdispersion, or its time
  scale, in a `settings` object loses to `.overdispersion` or `.time_scale`,
  which is injected as the argument and so wins over the object.
* `simulate_entry`: a death soon after an afternoon entry is said (`simulate.R:246`)
  to keep its instant so that its exposure is not empty. The instant is rounded to
  a click, so one within half a click of the entry is the entry, and
  `exp_data()` refuses the whole simulation.

Others were met while modelling. But for the first they change no answer, or lie outside
what the models vary; they have no run:

* `passPropagateIntervals.hpp:179-181` says of `clamp` that it "never leaves the bounds it
  was given, whatever x does", so its interval runs from the least `low` to the greatest
  `high`. The interpreter's clamp is `minimum(maximum(x, low), high)`: where a record has
  `high` below `low` the value is that `high`, which may lie below every `low`. With
  `low` in [1/2, 2] and `high` in [0, 1] the interval is [1/2, 1], a record with 2 and 0
  has the value 0, and `clamp(x, low, high) > 1/4` is folded to TRUE for it. No part of
  this hazard is covered: `compile` has clamps between ordered bounds only, since
  `IntervalsBoundTheValues` and `ComparisonsSettleRightly` both fail with crossing ones,
  and the theorems about them have `ClampsAreOrdered` for a hypothesis.
* `completed` is documented (`ThreadPool.hpp:70`) as false when the host stopped the
  call *before every task had run*. The caller polls once more before it finds
  nothing left (:168), so a call that ran everything can report, and have discarded,
  an incomplete run.
* `evaluations` is said (`veil_for_R.cpp:2400`) to equal `iterations` when nothing was
  halved. A fit that runs out of budget has made one walk more (`FitLoop.hpp:320`).
* Every fit is said (`veil_for_R.cpp:2428`) to be compiled before any record is read.
  The walk that verifies a `disjoint()` claim (:2486) comes before later
  specifications are compiled. The error of one bad fit is nevertheless the same
  wherever it sits (`OneBadFitFailsAlike`).
* Every specification of a batch is said (`batch.R:75`) to be compiled before a record
  is read. With two time scales those of the second are compiled after the walk and
  the fits of the first (`batch.R:504`).
* `TimeGrid.hpp:61-63` says that refining the time scale keeps every sample
  already taken. That holds for full intervals; the sample of a short final one
  moves.
* `passPropagateIntervals.hpp:52` says the walk is "from the root"; it visits every
  node (:273), which is what the folding pass needs.
* Sharing repoints the roots and the arguments, not the terms of the include: a
  condition that is in a gate and in a weight is lowered twice, to the same value.

### Fairness

`Terminates` assumes weak fairness of each thread's own step: a started thread
is scheduled again, and a task body ends. Nothing is assumed of the host's
answer, of which thread runs next, or of spawning. `FitsEnd` assumes that the
one thread of `runFits` keeps going, which rests on each walk ending, which is
`Terminates`. Safety properties assume nothing.

## 4. What is proved

TLAPS proves the following for every value of the constants, from the
assumptions named in the modules:

| assumption | what it says |
|---|---|
| `PoolAssumption` | counts are natural and a resolved thread count is at least 1 |
| `ChunkAssumption`, `EngineAssumption` | a chunk may have a record; no call has more tasks than the bound |
| `FitAssumption`, `JobsAssumption` of `FitLoop` | a budget has at least one iteration, a call one job |
| `LayoutAssumption`, `RunAssumption` | blocks are well typed and scalars in order, which is what lowering guarantees |
| `WholeClicks`, `ExposureAssumption` | a permitted time scale is a whole, even number of clicks; dates are clicks |
| `ValuesAssumption`, `TableAssumption` | a click in years is a number of the model's; infinity is above 1 and NaN no number; a mortality table holds doubles |
| `JobsAssumption` of `TreePipeline` | each column holds what its type says, coefficients are doubles, and exposures are those the front end has checked; dates are finite |
| `DataAssumption`, `SimAssumption` | columns are sequences of typed rows, told apart by number; a period lies in the calendar; a missing value is no number |
| `BatchAssumption` | calls are typed; a fit that came to something has a figure, and NA is none |

Every invariant of a passing run but three of `Compile`'s has a theorem. Each
proof has a lemma per action, or group of like actions, and a step per conjunct it can disturb.

**The pool** (`EngineProofs`). None of its properties is inductive alone.
`PoolInv` adds: each thread keeps to its own program (`ProgramsInv`); an inline
call touches nothing shared and has run exactly the tasks before its current one
(`InlineInv`); every task below the counter has ended or is in a thread's hands,
and each thread's task is below the counter and its own (`ClaimsInv`); a stop
has a cause, and the caller reaches the join only with a failure, an exhausted
counter, a host's stop or a spawn failure (`StopInv`). The lowest error surfaces
because claims are in task order: when the join is over no thread holds a task,
so every task below the counter, and so every task before a failed one, has
returned or failed. The overshoot
bound needs a cardinality: the threads that have left the loop.

**The refinement** (`EngineProofs`). `Spec => Promise!Spec`, where
*running* is what threads in a body hold, *failed* the failure slots with the
exception in flight, *asked* the negation of `completed`. Each action maps to
one of `ParallelRun`'s or to a stutter.

**The division of records** (`EngineProofs`). Each record is in exactly one chunk
(`EachRecordIsInOneChunk`), and chunk sizes differ by at most one and never exceed
the constant (`ChunksAreEven`). No induction is needed: the chunk of record *r* of
*n* in *K* chunks is *((r + 1) K - 1) / n*, and the rest is that products and
quotients do not fall.

**The engine** (`EngineProofs`). Every step of the engine is one of the pool or
leaves it alone, so `PoolInv` is inherited. `EngineInv` adds that a partial is
empty until its task is begun, has in record order what its thread has passed
while the chunk is walked, and all of the chunk's accepted records once the task
is done (`PartialsInv`); that no thread has passed a record that throws
(`WalkInv`), so a failed task threw from the first of its own (`ThrownInv`). The
pool contributes that a task begun is new, that no two threads hold one, and that
a completed call did all of them; division contributes that two tasks never have
one partial. Totals are then those of each block alone, writes never meet, and the
first failure surfaces, since tasks ascend by block and then by chunk, chunks
ascend, and every record is in one. That every record is counted once takes
another, `CountsInv`: the tally of a partial is its length, and the slots written
are of the records in the partials. A partial is in record order, so its length is
the number of records in it; the fold then adds the sizes of disjoint sets, by
induction over the chunks folded.

**The passes** (`BlockProofs`). `LayoutInv` says what each scan has
established behind it: a range is the interval from the only write to the last
read so far (`RangesInv`); what is wanted of a result is wanted of its arguments
(`DemandInv`), which a later step of the backward scan cannot undo because an
argument is written before its reader; users of one buffer follow each other,
and a buffer is free only after the last of them (`BuffersInv`). Hence live
vectors never share a buffer.

That the passes do no more than they must takes three more. No assignment could do
with fewer buffers: a buffer is held until the last reader of what was put in it
last, so that one more is taken only where every other holds a live vector
(`FewestInv`), and vectors live together map one to one into the buffers
(`FewestBuffersAreUsed`). Nothing is demanded that is not read: what the backward scan
has demanded after *n* instructions is reached from the parts collapsed in at most
*n* steps (`DemandIsRead`); and since every demand has been passed on, following
readers adds nothing to it, by induction over the steps (`DemandIsAlwaysWhatIsRead`).
The search for dead instructions is the same argument, over the prologue and the
body as one program (`SweepInv`, `DeadIsAlwaysUnneeded`).

**The interpreter** (`BlockProofs`). `WalkInv`: in the record being walked,
every scalar already written is that record's, and every vector still to be read
has a buffer as long as the grid, right at every slot filled for it. Writing a
vector keeps it: the result's arguments are right at every slot the result
needs, by `DemandInv`, and no other live vector is in its buffer, by
`BuffersInv`. Hence answers are right and reads in bounds for every block, any
number of records and grids of any size.

**Lowering** (`LoweringProofs`). Everything lowering does to a block is to add an
operand that is bound to something, or an operand and the instruction that
writes it. `Intact` says what that keeps: an instruction's arguments are older
than its result, results increase along the prologue and along the body, every
temporary is written, and while the include is being resolved there is no body.
So the order of the operands is the order of the writes, and whatever was added
before is written before. `LoweringInv` adds that the memo, the frames of the
stack, the clips and the grid name operands already there, and that those of the
include and of nodes that do not vary are scalars. `LoweredBlocksAreRunnable`
follows: for every `Lowerable` tree, every include and every exposure.

**An exposure** (`ExposureProofs`), from `WholeClicks` (a permitted time scale is a
whole, even number of clicks) and `ExposureAssumption`. An exposure is *n* full
slots of *dt* and a rest shorter than one (`GridOfAnExposure`), and half of *dt* is
exact, so full slots are sampled at their very middles; the middle of the rest is
out by at most half a click (`HalvesAreClose`). `ExposureInv` adds the sum of the
arithmetic progression: after *n* full slots twice the bare moment is
*2 n start + n n dt*. Scaled by *dt* that is a difference of squares, and the final
slot adds the next difference and its half click. So the totals are the integrals
for every exposure, time scale and calendar.

**The fit loop** (`FitProofs`), from `FitAssumption` and `JobsAssumption`. What a
stepper carries is right only between certain steps, so `FitInv` says what each
must be where it is. A stepper before its first walk is a new one; one on trial
holds totals of its own at its own beta, and has walked no more than the iterations
before allow and once for each halving of this one; a finished one reports of its
own beta (`StepperInv`). The jobs of the walk under way are in order, each once, and
whoever was left out is finished (`RoundInv`); the block of each carries what its
fit asked for, which rests on no two jobs sharing a block, the refusal `runFits`
begins with (`CoefficientsInv`); the results not yet handed out are of those fits
(`ResultsInv`); and an interrupt is of the whole call (`InterruptInv`). Of the step that
interrupts it follows that it leaves finished fits as they were, and the others what
they held before the walk it cut short (`InterruptTakesNothing`): no fit of the round is
finished, none left out of it is not, and what each holds is its own. Since a step of the
loop then gives one stepper what it would have received alone, and leaves the
others, each implements `FitAlone`.

**Entry points of fits** (`FitProofs`). Every step of `FitCall` is one of `FitLoop` or
leaves it alone, so `FitInv` is inherited. `CallInv` adds: every specification that
was passed compiled and its claim, if any, was verified, nothing is verified that is
not true, and a job's fault is its specification's (`BuildInv`); fits began only once
every start was accepted, and a call that answers has no interrupted fit
(`RunInv`); and an error about a specification names one that has it, and is the one
that specification would raise alone (`RaisedInv`). The last gives
`OneBadFitFailsAlike`, whose "wherever it sits" a run can only sample.

**Induction over data** (`DataInduction`). The library's induction theorems take an
operator as a parameter, which no prover here can instantiate. A *set* of
naturals will do instead: it has a least element, by the well-foundedness of `<`
on the naturals. `UpTo` collects the numbers a fact holds at in a set;
`RecursionHasAValue` finds, in the same way, a function that satisfies a given
recursion, so that the one TLA+ chooses does. So it is known of any
data what `Where` and `Unique` keep, and that it is kept once (`WhereKeeps`,
`UniqueIsDistinct`), what `Total` adds up to (`TotalOfOneMore`, `TotalOfSums`) and where
each piece is in pieces put together (`PiecesArePlaced`), all in `RCodeProofs`. A `Loop`
takes its body as an operator, which a lemma cannot; `DataInduction` has the body for a
constant of its own, `madeOf`, and each proof an instance of it. `LoopRuns` says that
there is then a state after each element, and the loop comes to the last of them. The
remaining proofs rest on these.

**Experience data and simulation** (`RCodeProofs`), from `DataAssumption` and
`SimAssumption`; calls in which a user gives the columns are those without lives, so
one proof serves both modules. `DataInv`: the rows are usable and, until someone assigns
to them, are what is kept of the columns given. That consecutive periods add up is
then a statement about rows: a row cut in two has the parts' exposure, its death
falls in one of them, and rows left out of a part are worth nothing there
(`RowsAddUp`); a sum over what is kept is the sum over all with nothing for the rest
(`TotalWhere`). `WalkInv` says of the walk: some *K* is the number of points at which
every life still walked has been sampled, each at its own grid's points, and a life that
has left, by death or at its end, has no more than its slots; a death is in its
window. All lives share one count of steps but not one length, so only this ties a
life's own grid to the walk of all. A death is recorded on its day and no later than
its window ends, at midday, at its instant or at that end (`DaysAre`, `EndIs`).

**A batch** (`RCodeProofs`), from `BatchAssumption`. `BatchInv`: the plans are those of
the analyses before the current one, in order (`PlanningInv`); of the group being run,
what has been put together is each plan's own, plan by plan (`RunningInv`); an
analysis has its lone answer if its time scale has been run and none otherwise
(`AnswersInv`); and a raise had its cause. Results are cut up by lengths
alone, which gives each plan back its own because pieces put together are at the sums
of the lengths before them (`PiecesComeBack`); and every analysis is in just
one of the groups since `Unique` has each time scale once. A ranking is right
because *above* is an order with missing figures last, and an element of such an order
has as many above it as its place less one (`CountingRanks`).

**Intervals and folding** (`IntervalProofs`), from `ValuesAssumption`, `TableAssumption`
and `JobsAssumption`, of `PipelineSpec`, for every tree that can be ingested. The
argument goes up from an operation to a tree.

1. *An operation*. What an operation makes of values within its arguments' intervals is
   within the interval `CallInterval` makes of these. Sums, minima, `exp`, signs and years
   only keep order; a product's corners bound it since it is monotone in each factor
   (`Multiplied`); a quotient's do so only with the divisor to one side of zero, which
   is the guard of `Divided`. Infinite bounds make NaN at some corners, and `Sanitised`
   gives these up for the whole line.
2. *The walk* (`ChildrenComeFirst`). On the stack, whatever a frame waits for is either
   settled or above it. So the order in which nodes are settled has each once, after its
   arguments, and what `Evaluate` comes to solves each node's equation
   (`EvaluateSolves`).
3. *A tree* (`IntervalsAreSound`). By that order, node by node, values lie in intervals, if
   the leaves' do and each operation is applied to the types it has a rule for.
4. *The data* (`RowsAreWithin`). `scanColumn`'s range holds every row, an exposure's
   samples, the one at its death among them, lie between the first start and the last end.
5. *The passes*. A tree's types go together after annotation (`AnnotatedIsLoose`), and
   encoding text keeps them so (`EncodedIsLoose`); with the conversions in, numbers are
   read where numbers are (`CoercedIsStrict`), and folding and narrowing leave it that way
   (`FoldedIsStrict`, `NarrowedIsStrict`). `TreeIsReady` says which of these holds at
   which stage, and is the inductive invariant (`PipelineKeepsReady`): step 3 is of no use
   for a tree as it was ingested, whose operations are given anything.

Then `PipelineBoundsTheValues`. Of a comparison it follows that what always holds for
the bounds holds for what is in them, strict or not and at the ends as well, and that
clicks meet clicks (`PipelineSettlesEachRightly`). Two hypotheses are named where they are
needed, and both hold in every state of `compile`. `ClampsAreOrdered` is not a
convenience: without it the property is false of the code, as said above.
`ClicksAreInReach` is the model's: its infinity is a number, which sums of clicks must stay
below; in the code a click is an integer of 64 bits made of sums of 32-bit ones
(`ScalarValue.hpp:26-35`). The proofs do not say that ingestion writes the trees they
begin with, since `Ingest` is RECURSIVE; TLC does, of each job of `compile`, as the first
conjunct of `IntervalsBoundTheValues`.

**Only model-checked**: liveness (`Terminates`, `FitsEnd`), which TLAPS does not
do; and three invariants of `Compile`. `CompiledAnswersAreTheExpressions` compares a
block with what was ingested by `Recipes`, whose `Ingest` follows the nesting of
expressions: it is RECURSIVE, which rules out theorems in any module that uses it, and the proof
would be an induction over expressions. `NothingIsWasted` counts what one job leaves,
and `OnlyFaultsAreRefused` reads faults off the expressions as written, so both are about
`Ingest` too. The
other way round, what is proved is not always run: the type
invariants of the pool, the engine, the fits, the passes over blocks and the interpreter,
the inductive invariants,
`EachTaskOnce`, `CompletedMeansAllRan`, `QuietAfterReturn`, `WalksAreBounded`,
`InterruptEndsEveryFit`, `InterruptTakesNothing` and `FinishedIsFinal` have theorems and
no run.

## 5. Abstractions and what is not modelled

* Numbers. In `Engine` and `FitLoop` contributions and objectives are symbols; in
  `Compile` numbers are fixed point and small, with NaN and infinity. Rounding,
  accuracy of kernels and of the Cholesky factorisation are outside; the loop's
  reactions to non-finite and singular totals are inside.
* Assignment to experience data other than by `$<-`. The data is a `data.frame` with a
  class of its own (`data.R:9`) and a method for `$<-` alone: `[[<-`, `[<-` and `[` are
  those of data frames, and check nothing. `EveryRowIsUsable` need not hold after them. A
  row so left without length, or outside the calendar, is refused by the engine
  (`TimeGrid.hpp:188`, `:194`), as `Exposure` models; its period and its count are not
  looked at there.
* Functions other than `exp`, `sign`, `abs` and negation (square root, logarithms,
  trigonometry, rounding, powers, integer division, fma) are not modelled, nor
  their interval rules.
* A mortality table, with its origin, index, interpolation and improvements, is one
  function `TableLogMu` of age.
* The recipes are checked as expressions compiled, not against a definition of the
  statistics they compute: the reference in `compile` is the tree the recipe built.
* A threshold that overflows in `passNarrowComparisons`, the depth
  cap of the zero-or-one test and the maximum of a category are left out. The
  counts the passes report for tests are kept only as whether a reference moved.
* Some of lowering's complaints cannot be reached from a user's expression, because
  an earlier pass refuses first. They are kept, as members of one set.
* `size_t` is a natural number; `CounterOvershootsByThreads` is why the claim
  counter does not wrap.
* The host's poll answers or not; it is assumed not to throw.
* Memory exhaustion is not modelled, except where creating a thread throws.
* Type checks in the interpreter (`store`, `numberAt`) are left out: a record
  that trips one throws, and `Engine` covers throwing.
* The rest of the R front end: the checks of arguments other than those `Batch`
  names (one flaw stands for each kind), parsing of pronoun expressions, includes
  and breakdowns, diagnostics, printing. Reading SEXPs into columns and packing results for R.
* In `Batch` the engine is seen from outside: a walk or an engine call answers
  everything or raises. What happens inside is `Engine`, `FitLoop` and `FitCall`.
* Mortality tables, linear algebra, vector kernels, plotting: pure computation or
  presentation.
* `src/src/eve` is a vendored SIMD library, which is most of the repository's
  lines of C++. It computes the kernels' element-wise functions and holds no state.

## 6. Plan

What would come next, in order:

1. Of each remaining tree pass, that it keeps the value of every node it leaves reachable:
   `FoldConstants`, `NarrowComparisons`, then those of `TreeSharing` (whose `FactorsOf` and
   `Peel` would have to be functions first), with the walk order, `EvaluateSolves` and the
   loop lemmas there are; then of `Lowering`, that an
   operand has its node's value.
2. The engine's contribution to `FitCall` and `Batch`: a walk there as one of `Engine`'s,
   completed, interrupted or thrown.
3. `BlockRun` with the grids of `TimeGrid` instead of any length.
4. The remaining functions, with a value and an interval rule each.
