------------------------------- MODULE MCBatch -------------------------------
EXTENDS Batch

Analysis(operation, size, given, scale, flaw) ==
  [operation |-> operation, size |-> size, given |-> given, scale |-> scale,
   data |-> 1, flaw |-> flaw]

Batched(elements, defaults) ==
  [elements |-> elements, defaults |-> defaults, scale |-> 2, named |-> TRUE]

\* Every way of giving the arguments that interact, by one analysis and its batch.
ArgumentCalls ==
  {Batched(<<Analysis(operation, 1, given, 3, "none")>>, defaults) :
     operation \in {"aev", "fit"}, given \in SUBSET Arguments, defaults \in SUBSET Arguments}

\* One of each kind, with two elements to its breakdown or two candidates.
Shapes(scales, flaws) ==
  {Analysis(shape[1], shape[2], {"time_scale"}, scale, flaw) :
     shape \in {<<"aev", 1>>, <<"aev", 2>>, <<"fit", 1>>, <<"compare_models", 2>>},
     scale \in scales, flaw \in flaws}

Flaws(e) ==
  IF IsFitting(e) THEN {"none", "analysis", "specification", "Z", "model"}
  ELSE {"none", "analysis", "specification"}

\* Any two, each with or without a flaw; any three without.
RunningCalls ==
  {Batched(elements, {"overdispersion"}) : elements \in
     {pair \in [1 .. 2 -> Shapes({1, 2}, {"none", "analysis", "specification", "Z", "model"})] :
        \A i \in 1 .. 2 : pair[i].flaw \in Flaws(pair[i])}
     \union [1 .. 3 -> Shapes({1, 2}, {"none"})]}

\* Nothing to run, names that are missing or repeated, and a second dataset.
OddCalls ==
  {Batched(<<>>, {})} \union
  {[Batched(<<e, [e EXCEPT !.data = 2]>>, {"overdispersion"}) EXCEPT !.named = named] :
     named \in BOOLEAN, e \in Shapes({1}, {"none"})}

MCCalls == ArgumentCalls \union RunningCalls \union OddCalls

\* A failed fit stops with a figure too, better than any that converged.
MCVerdicts ==
  {[converged |-> TRUE, level |-> 1], [converged |-> TRUE, level |-> 2],
   [converged |-> FALSE, level |-> 3]}
=============================================================================
