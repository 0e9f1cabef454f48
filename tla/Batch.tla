--------------------------------- MODULE Batch ---------------------------------
(***************************************************************************)
(* A call of batch() in R (src/R/batch.R), with run_plans() (src/R/fit.R),   *)
(* which runs lone analyses too: the batch's defaults are given to each      *)
(* analysis, each is planned, and those of one time scale share one walk for *)
(* their specifications and one engine call for their fits, whose results    *)
(* are cut up again and handed back.                                        *)
(*                                                                         *)
(* The engine is seen from outside: a walk answers every specification or    *)
(* none, and a fit comes to what it would alone (Engine, FitLoop).  A result *)
(* is represented by what it is the result of, so that one handed to the     *)
(* wrong analysis shows.                                                    *)
(***************************************************************************)
EXTENDS Vectors, SequencesExt, FiniteSets

CONSTANTS
  Calls,    \* the calls of batch() considered
  Verdicts, \* what a fit may come to: [converged, level], the level its L_P
  NA        \* R's missing value

\* The arguments a batch gives defaults for, of those whose interplay matters;
\* the others are each given or not, like a weight.
Arguments ==
  {"val_relevance", "val_distance", "test_mortality", "Z",
   "settings", "overdispersion", "time_scale"}

\* One quantity said two ways.
Pairs == {{"val_relevance", "val_distance"}, {"test_mortality", "Z"}}

\* The time scale of package defaults.
DefaultScale == 1

\* An element's size is that of its breakdown, or how many models it has.
ElementType ==
  [operation : {"aev", "fit", "compare_models"}, size : Nat \ {0}, given : SUBSET Arguments,
   scale : Nat, data : Nat, flaw : {"none", "analysis", "specification", "Z", "model"}]
CallType ==
  [elements : Seq(ElementType), defaults : SUBSET Arguments, scale : Nat, named : BOOLEAN]

ASSUME BatchAssumption ==
  /\ Calls \subseteq CallType
  /\ Verdicts \subseteq [converged : BOOLEAN, level : Int]
  /\ NA \notin Int

VARIABLES
  call,      \* argument: the batch's defaults and the analyses
  stage,     \* where the call is
  at,        \* the analysis being planned, or the plan of the group asked for fits
  plans,     \* planned
  round,     \* which of the distinct time scales is being run
  results,   \* of the group's specifications, plan by plan
  fits,      \* the models each plan of the group wants fitted
  runs,      \* what the fits came to, plan by plan
  answers,   \* of each analysis, once its group has finished
  verdicts,  \* history: what the models fitted so far came to
  raised     \* why the call raised, and for which analysis

planning == <<call, plans>>
running == <<round, results, fits, runs, answers>>
batchVars == <<planning, stage, at, running, verdicts, raised>>

Elements == call.elements
Analyses == DOMAIN Elements
NotRaised == [why |-> "nothing", which |-> 0]

BatchInit ==
  /\ call \in Calls
  /\ stage = "check"
  /\ at = 1
  /\ plans = <<>>
  /\ round = 1
  /\ results = <<>>
  /\ fits = <<>>
  /\ runs = <<>>
  /\ answers = [i \in Analyses |-> NA]
  /\ verdicts = <<>>
  /\ raised = NotRaised

Raise(why, which) ==
  /\ stage' = "raised"
  /\ raised' = [why |-> why, which |-> which]
  /\ UNCHANGED <<planning, at, running, verdicts>>

-----------------------------------------------------------------------------
(* Planning: names and the batch's own settings, then each analysis in turn. *)

MisusesBatch ==
  \/ Elements = <<>> \/ ~call.named
  \/ \E pair \in Pairs : pair \subseteq call.defaults

RefuseCall ==
  /\ stage = "check"
  /\ MisusesBatch
  /\ Raise("call", 0)

AcceptCall ==
  /\ stage = "check"
  /\ ~MisusesBatch
  /\ stage' = "plan"
  /\ UNCHANGED <<planning, at, running, verdicts, raised>>

\* Naming either half of a pair is naming the quantity.
NamesTheQuantity(e, argument) ==
  \E pair \in Pairs : argument \in pair /\ pair \intersect e.given # {}

\* The arguments of an analysis that the batch gives.
Filled(e) == {a \in call.defaults \ e.given : ~NamesTheQuantity(e, a)}

Source(e, argument) ==
  CASE argument \in e.given -> "own"
    [] argument \in Filled(e) -> "batch"
    [] OTHER -> "none"

FirstGiven(sources) == sources[SelectInSeq(sources, LAMBDA s : s # "none")]

\* resolve_settings: the argument wins over a settings object.
OverdispersionFrom(e) ==
  FirstGiven(<<Source(e, "overdispersion"), Source(e, "settings"), "missing">>)
TimeScaleFrom(e) ==
  FirstGiven(<<Source(e, "time_scale"), Source(e, "settings"), "package">>)

TimeScale(e) ==
  CASE TimeScaleFrom(e) = "own" -> e.scale
    [] TimeScaleFrom(e) = "batch" -> call.scale
    [] OTHER -> DefaultScale

IsFitting(e) == e.operation \in {"fit", "compare_models"}

\* An A/E has no use for a test mortality or a Z.
PairsRead(e) == IF IsFitting(e) THEN Pairs ELSE {{"val_relevance", "val_distance"}}
GivesBoth(e) == \E pair \in PairsRead(e) : pair \subseteq e.given \union Filled(e)

\* What an analysis asks to have walked, in order: an A/E one for each element of its
\* breakdown; a fit or a comparison the test mortality and the exposure.
Specs(i) ==
  [k \in 1 .. (IF IsFitting(Elements[i]) THEN 2 ELSE Elements[i].size) |-> <<i, k>>]

\* And to have fitted: one model, or each candidate.
Models(i) ==
  [k \in 1 .. (IF IsFitting(Elements[i]) THEN Elements[i].size ELSE 0) |-> <<i, k>>]

Planning == stage = "plan" /\ at \in Analyses

\* It is no analysis, mentions another, lacks its model or its data, or an
\* argument is not what it should be.
RefuseAnalysis ==
  /\ Planning
  /\ Elements[at].flaw = "analysis"
  /\ Raise("analysis", at)

RefuseBoth ==
  /\ Planning
  /\ GivesBoth(Elements[at])
  /\ Raise("both", at)

RequireOverdispersion ==
  /\ Planning
  /\ ~GivesBoth(Elements[at])
  /\ OverdispersionFrom(Elements[at]) = "missing"
  /\ Raise("overdispersion", at)

PlanAnalysis ==
  /\ Planning
  /\ LET e == Elements[at]
     IN /\ e.flaw # "analysis"
        /\ ~GivesBoth(e)
        /\ OverdispersionFrom(e) # "missing"
        /\ plans' = Append(plans, [data |-> e.data, scale |-> TimeScale(e),
                                   overdispersion |-> OverdispersionFrom(e)])
  /\ at' = at + 1
  /\ UNCHANGED <<call, stage, running, verdicts, raised>>

\* batch_run: one dataset for the whole batch.
OtherData == {i \in Analyses : plans[i].data # plans[1].data}

RefuseSecondDataset ==
  /\ stage = "plan" /\ at \notin Analyses
  /\ \E i \in OtherData : (\A j \in OtherData : i <= j) /\ Raise("data", i)

StartRunning ==
  /\ stage = "plan" /\ at \notin Analyses
  /\ OtherData = {}
  /\ stage' = "compile"
  /\ UNCHANGED <<planning, at, running, verdicts, raised>>

-----------------------------------------------------------------------------
(* One group: the analyses of one time scale, run by run_plans().            *)

\* The distinct time scales, as they first come.
Scales == Unique([i \in DOMAIN plans |-> plans[i].scale])

\* which().
Group == Where([i \in Analyses |-> i], {i \in Analyses : plans[i].scale = Scales[round]})

OfGroup(Op(_)) == [n \in DOMAIN Group |-> Op(Group[n])]
Lengths(pieces) == [n \in DOMAIN pieces |-> Len(pieces[n])]

\* A sequence cut into consecutive pieces.
SplitByLengths(x, sizes) ==
  LET End(n) == Total(SubSeq(sizes, 1, n))
  IN [n \in DOMAIN sizes |-> SubSeq(x, End(n) - sizes[n] + 1, End(n))]

Flawed(flaw) == {n \in DOMAIN Group : Elements[Group[n]].flaw = flaw}
RaiseFirst(flaw) ==
  \E n \in Flawed(flaw) : (\A k \in Flawed(flaw) : n <= k) /\ Raise(flaw, Group[n])

\* cpp_veil_run compiles every specification it is given before it walks.
RefuseSpecification ==
  /\ stage = "compile"
  /\ RaiseFirst("specification")

CompileGroup ==
  /\ stage = "compile"
  /\ Flawed("specification") = {}
  /\ stage' = "walk"
  /\ UNCHANGED <<planning, at, running, verdicts, raised>>

\* Its results come in the order of the specifications.
WalkGroup ==
  /\ stage = "walk"
  /\ results' = SplitByLengths(FlattenSeq(OfGroup(Specs)), Lengths(OfGroup(Specs)))
  /\ fits' = <<>>
  /\ at' = 1
  /\ stage' = "ask"
  /\ UNCHANGED <<planning, round, runs, answers, verdicts, raised>>

\* A record throws, or the user interrupts; in the engine calls of either kind.
EngineRaises ==
  /\ \/ stage = "walk"
     \/ stage = "fit" /\ Flawed("model") = {} /\ FlattenSeq(fits) # <<>>
  /\ Raise("engine", 0)

Asking == stage = "ask" /\ at \in DOMAIN Group

RefuseZ ==
  /\ Asking
  /\ Elements[Group[at]].flaw = "Z"
  /\ Raise("Z", Group[at])

ScaleOf(i, population) ==
  LET given == Source(Elements[i], "Z")
  IN IF given = "none" THEN population[1] ELSE given

\* Each plan in turn says what it wants fitted, with its Z, given or measured.
AskForFits ==
  /\ Asking
  /\ LET i == Group[at]
     IN /\ Elements[i].flaw # "Z"
        /\ fits' = Append(fits, [k \in DOMAIN Models(i) |->
                                   [model |-> Models(i)[k], Z |-> ScaleOf(i, results[at])]])
  /\ at' = at + 1
  /\ UNCHANGED <<planning, stage, round, results, runs, answers, verdicts, raised>>

\* All have asked.
StartFitting ==
  /\ stage = "ask" /\ at \notin DOMAIN Group
  /\ stage' = "fit"
  /\ UNCHANGED <<planning, at, running, verdicts, raised>>

RefuseModel ==
  /\ stage = "fit"
  /\ RaiseFirst("model")

Run(fit, verdict) == [model |-> fit.model, Z |-> fit.Z, verdict |-> verdict]

\* Every model in one engine call, or none if no plan wants any.
FitGroup ==
  /\ stage = "fit"
  /\ Flawed("model") = {}
  /\ LET wanted == FlattenSeq(fits)
     IN \E verdict \in [{fit.model : fit \in ToSet(wanted)} -> Verdicts] :
          /\ verdicts' = [m \in DOMAIN verdict \union DOMAIN verdicts |->
                            IF m \in DOMAIN verdict THEN verdict[m] ELSE verdicts[m]]
          /\ runs' = SplitByLengths([k \in DOMAIN wanted |->
                                       Run(wanted[k], verdict[wanted[k].model])],
                                    Lengths(fits))
  /\ stage' = "finish"
  /\ UNCHANGED <<planning, at, round, results, fits, answers, raised>>

-----------------------------------------------------------------------------
(* Finishing: each plan makes its answer of its own results and runs.        *)

Converged(run) == run.verdict.converged

\* What a comparison reads of a run: nothing, if it failed.
L_P(run) == IF Converged(run) THEN run.verdict.level ELSE NA

\* Mistake: the figures a failed run stopped with are read.
RanksOnAnyFigure(m, n, all) ==
  \/ all[m].verdict.level > all[n].verdict.level
  \/ all[m].verdict.level = all[n].verdict.level /\ m < n

\* order(): decreasing, missing last, and otherwise as given.
RanksAbove(m, n, all) ==
  \/ L_P(all[m]) # NA /\ L_P(all[n]) = NA
  \/ L_P(all[m]) = NA /\ L_P(all[n]) = NA /\ m < n
  \/ /\ L_P(all[m]) # NA /\ L_P(all[n]) # NA
     /\ \/ L_P(all[m]) > L_P(all[n])
        \/ L_P(all[m]) = L_P(all[n]) /\ m < n

\* The k-th is the one with k - 1 above it.
Ranking(all) ==
  [k \in DOMAIN all |->
     CHOOSE n \in DOMAIN all : Cardinality({m \in DOMAIN all : RanksAbove(m, n, all)}) = k - 1]

\* The table and the fits beside it, best first.
Ranked(all) ==
  LET best(n) == all[Ranking(all)[n]]
  IN [table |-> [n \in DOMAIN all |-> [model |-> best(n).model, L_P |-> L_P(best(n))]],
      fits |-> [n \in DOMAIN all |-> IF Converged(best(n)) THEN best(n) ELSE NA]]

\* A plan's finaliser; a failed fit is a condition, which the batch holds.
Finalised(operation, population, its) ==
  CASE operation = "aev" -> [kind |-> "aev", totals |-> population]
    [] operation = "fit" ->
         [kind |-> IF Converged(its[1]) THEN "fit" ELSE "fit_failure",
          population |-> population, run |-> its[1]]
    [] operation = "compare_models" ->
         [kind |-> "comparison", population |-> population, ranked |-> Ranked(its)]

AnswerOf(n) == Finalised(Elements[Group[n]].operation, results[n], runs[n])

\* Mistake: the condition of a failed fit is not caught.
FinishUnlessFailed ==
  /\ stage = "finish"
  /\ IF \E n \in DOMAIN Group : AnswerOf(n).kind = "fit_failure"
     THEN Raise("fit_failure", 0)
     ELSE /\ answers' = [i \in Analyses |->
                IF Contains(Group, i)
                THEN AnswerOf(SelectInSeq(Group, LAMBDA g : g = i)) ELSE answers[i]]
          /\ round' = round + 1
          /\ stage' = IF round = Len(Scales) THEN "returned" ELSE "compile"
          /\ UNCHANGED <<planning, at, results, fits, runs, verdicts, raised>>

\* Mistake: the group's answers are written from the first analysis on.
FinishAtTheFront ==
  /\ stage = "finish"
  /\ answers' = [i \in Analyses |-> IF i \in DOMAIN Group THEN AnswerOf(i) ELSE answers[i]]
  /\ round' = round + 1
  /\ stage' = IF round = Len(Scales) THEN "returned" ELSE "compile"
  /\ UNCHANGED <<planning, at, results, fits, runs, verdicts, raised>>

\* The group's answers go where its analyses were written.
FinishGroup ==
  /\ stage = "finish"
  /\ answers' = [i \in Analyses |->
       IF Contains(Group, i)
       THEN AnswerOf(SelectInSeq(Group, LAMBDA g : g = i)) ELSE answers[i]]
  /\ round' = round + 1
  /\ stage' = IF round = Len(Scales) THEN "returned" ELSE "compile"
  /\ UNCHANGED <<planning, at, results, fits, runs, verdicts, raised>>

BatchOver == stage \in {"returned", "raised"}

BatchNext ==
  \/ RefuseCall \/ AcceptCall
  \/ RefuseAnalysis \/ RefuseBoth \/ RequireOverdispersion \/ PlanAnalysis
  \/ RefuseSecondDataset \/ StartRunning
  \/ RefuseSpecification \/ CompileGroup \/ WalkGroup \/ EngineRaises
  \/ RefuseZ \/ AskForFits \/ StartFitting \/ RefuseModel \/ FitGroup \/ FinishGroup
  \/ BatchOver /\ UNCHANGED batchVars

BatchSpec == BatchInit /\ [][BatchNext]_batchVars
-----------------------------------------------------------------------------
\* What the analysis would answer on its own, with the arguments it has here.
Lone(i) ==
  LET z == IF Source(Elements[i], "Z") = "none" THEN Specs(i)[1] ELSE Source(Elements[i], "Z")
  IN Finalised(Elements[i].operation, Specs(i),
               [k \in DOMAIN Models(i) |->
                  [model |-> Models(i)[k], Z |-> z, verdict |-> verdicts[Models(i)[k]]]])

\* A batch answers each analysis, in the order written, as its lone call would,
\* whatever the others ask for, how many specifications and models they have
\* and which share its time scale (batch.R:55, fit.R:252).
EachAnalysisAsAlone ==
  stage = "returned" => \A i \in Analyses : answers[i] = Lone(i)

\* A batch stops only for a fault that would have stopped a lone call of the analysis
\* named, or of the batch itself: never for a fit that failed (batch.R:94), nor for
\* half of a pair that the analysis left to its batch (batch.R:39).
OnlyFaultsStopABatch ==
  stage = "raised" =>
    \/ raised.why = "call" /\ MisusesBatch
    \/ raised.why = "data" /\ Elements[raised.which].data # Elements[1].data
    \/ raised.why = "engine"
    \/ raised.why = "both"
         /\ \E pair \in Pairs : pair \subseteq Elements[raised.which].given
    \/ raised.why = "overdispersion"
         /\ {"overdispersion", "settings"}
              \intersect (Elements[raised.which].given \union call.defaults) = {}
    \/ raised.which \in Analyses /\ Elements[raised.which].flaw = raised.why

\* A comparison lists the candidates that converged, best first, then those that
\* did not, without figures; the fit beside each row is that row's, and the
\* first is the best (compare_models.R:332 and :362).
BestFitComesFirst ==
  \A i \in Analyses :
    answers[i] # NA /\ answers[i].kind = "comparison" =>
      LET table == answers[i].ranked.table
          beside == answers[i].ranked.fits
          rows == DOMAIN table
      IN /\ {table[n].model : n \in rows} = ToSet(Models(i)) /\ Len(table) = Len(Models(i))
         /\ \A n \in rows :
              IF verdicts[table[n].model].converged
              THEN beside[n].model = table[n].model
                   /\ table[n].L_P = verdicts[table[n].model].level
              ELSE beside[n] = NA /\ table[n].L_P = NA
         /\ \A m, n \in rows : m < n /\ table[n].L_P # NA =>
              table[m].L_P # NA /\ table[m].L_P >= table[n].L_P

-----------------------------------------------------------------------------
(* What the documentation says and the code does not do.                     *)

\* An analysis naming its own value wins over the batch's default (batch.R:59).
\* It may name its overdispersion and its time scale in a settings object.
OwnValueWins ==
  \A i \in DOMAIN plans :
    LET e == Elements[i]
    IN /\ {"overdispersion", "settings"} \intersect e.given # {} => plans[i].overdispersion = "own"
       /\ {"time_scale", "settings"} \intersect e.given # {} => plans[i].scale = e.scale
=============================================================================
