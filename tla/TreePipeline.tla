---------------------------- MODULE TreePipeline ----------------------------
(***************************************************************************)
(* The first passes of runTreePipeline (src/src/veil_for_R.cpp), from a tree   *)
(* as it was ingested to one whose comparisons are settled where the columns *)
(* settle them: each pass is a step, and three of them may refuse.           *)
(***************************************************************************)
EXTENDS Lowering, Meaning

CONSTANTS
  Jobs  \* a sequence of what an entry point may be called with

VARIABLES
  job,       \* which of the jobs
  source,    \* the tree as it was ingested, with its types
  intervals  \* where each node's values lie

analysisVars == <<job, source, intervals, loweringVars, layoutVars>>
pipelineVars == <<job, code, memo, stack, place, clip, layoutVars>>

J == Jobs[job]
Scans ==
  [column \in DOMAIN ColumnTypes |-> Scan(ColumnTypes[column], {row[column] : row \in J.data})]

NoTree == [nodes |-> <<>>, roots |-> <<>>]

\* The recipes that are run for answers, over an exposure.
Answering == {"aev", "fit", "disjoint"}

\* What a column or a literal of a type holds: a click or a code is an int.
IsOfType(type, x) ==
  CASE type = "double" -> IsDouble(x)
    [] type = "bool" -> x \in {0, 1}
    [] OTHER -> x \in 1 - Inf .. Inf - 1

\* The columns of an exposure are there, and no individual's is empty.
IsExposure(exp, data) ==
  /\ exp.given =>
       /\ exp.scale \in TimeScales
       /\ {exp.start, exp.end, exp.died} \subseteq DOMAIN ColumnTypes
       /\ ColumnTypes[exp.start] = "datey" /\ ColumnTypes[exp.end] = "datey"
       /\ \A row \in data : ~Unusable(WholeExposure(row, exp))

\* The data is what the columns' types say, and the front end has looked at the
\* exposures.
ASSUME JobsAssumption ==
  /\ \A k \in DOMAIN Jobs :
       /\ IsFiniteSet(Jobs[k].data)
       /\ \A row \in Jobs[k].data, column \in DOMAIN ColumnTypes :
            IsOfType(ColumnTypes[column], row[column])
       /\ \A p \in DOMAIN Jobs[k].beta : IsDouble(Jobs[k].beta[p])
       /\ Jobs[k].exposure.given \in BOOLEAN
       /\ IsExposure(Jobs[k].exposure, Jobs[k].data)
       /\ Jobs[k].recipe \in Answering => Jobs[k].exposure.given
  /\ \A column \in DOMAIN ColumnTypes :
       ColumnTypes[column] \in {"double", "bool", "category"} \union ClickTypes
  /\ \A text \in DOMAIN Levels : IsOfType("category", Levels[text])
  /\ -Inf < FirstClick /\ LastClick < Inf

\* A tree as it is ingested: calls have the arguments their operations take, and
\* no types.
Calculations ==
  Arithmetic \union Comparisons \union Logicals \union Finalisers
    \union {"is_na", "select", "double", "vector_log_mu"}

IsWritten(n) ==
  \/ n = Lit(n.type, n.val) /\ (n.type = "text" \/ IsOfType(n.type, n.val))
     /\ n.type \in {"text", "double", "bool"} \union ClickTypes
  \/ n = Field(n.val) /\ n.val \in DOMAIN ColumnTypes
  \/ n = Time
  \/ n = Param(n.val) /\ n.val \in DOMAIN J.beta
  \/ n = Obj(n.val)
  \/ n = Call(n.op, n.args) /\ n.op \in Calculations /\ Len(n.args) = Arity(n.op)

Written(nodes) ==
  /\ nodes \in Seq({nodes[id] : id \in DOMAIN nodes})
  /\ \A id \in DOMAIN nodes : nodes[id].args \in Seq(DOMAIN nodes) /\ IsWritten(nodes[id])

PipelineInit ==
  /\ job \in DOMAIN Jobs /\ exposure = J.exposure
  /\ DOMAIN tree = {"nodes", "roots"} /\ Written(tree.nodes)
  /\ source = NoTree /\ intervals = <<>>
  /\ stage = "annotate"

-----------------------------------------------------------------------------
Complain(complaint) ==
  /\ stage' = "refused" /\ why' = complaint
  /\ UNCHANGED <<pipelineVars, tree, tags, include, exposure, source, intervals>>

\* A pass that leaves a tree behind and nothing else.
Becomes(t, next) ==
  /\ tree' = t
  /\ stage' = next
  /\ UNCHANGED <<pipelineVars, tags, include, exposure, why, source, intervals>>
NodesBecome(nodes, next) == Becomes([tree EXCEPT !.nodes = nodes], next)

Annotate ==
  /\ stage = "annotate"
  /\ LET typed == AnnotateTypes(tree.nodes)
     IN IF WellTyped(typed)
        THEN /\ tree' = [tree EXCEPT !.nodes = typed]
             /\ source' = tree'
             /\ stage' = "encode"
             /\ UNCHANGED <<pipelineVars, tags, include, exposure, why, intervals>>
        ELSE Complain("ill-typed")

Encode ==
  /\ stage = "encode"
  /\ IF LeavesText(tree.nodes) THEN Complain("text")
     ELSE NodesBecome(EncodeText(tree.nodes), "coerce")

InsertConversions == stage = "coerce" /\ NodesBecome(InsertCoercions(tree.nodes), "invariance")

CheckTimeInvariance ==
  /\ stage = "invariance"
  /\ IF ChoosesOverTime(tree.nodes, TagTimeVarying(tree.nodes)) THEN Complain("chooses over time")
     ELSE NodesBecome(tree.nodes, "constants")

FoldColumns == stage = "constants" /\ NodesBecome(FoldConstants(tree.nodes, Scans), "narrow")

NarrowAll == stage = "narrow" /\ NodesBecome(NarrowComparisons(tree.nodes), "intervals")

\* Only what is run for answers says where time can be.
TimeInterval ==
  IF J.recipe \in Answering THEN ExposureInterval(exposure, Scans)
  ELSE [lo |-> FirstClick, hi |-> LastClick]

FindIntervals ==
  /\ stage = "intervals"
  /\ intervals' = PropagateIntervals(tree.nodes, Scans, TimeInterval)
  /\ stage' = "comparisons"
  /\ UNCHANGED <<pipelineVars, tree, tags, include, exposure, why, source>>

FoldSettled ==
  stage = "comparisons" /\ NodesBecome(FoldIntervalComparisons(tree.nodes, intervals), "share")

Analyse ==
  \/ Annotate \/ Encode \/ InsertConversions \/ CheckTimeInvariance \/ FoldColumns \/ NarrowAll
  \/ FindIntervals \/ FoldSettled

\* These passes by themselves, of any tree.
PipelineSpec == PipelineInit /\ [][Analyse]_analysisVars

-----------------------------------------------------------------------------
\* What a node's values are over the whole of an individual's exposure.
ValuesBefore(nodes, row) ==
  Evaluate(nodes, [row |-> row, beta |-> J.beta,
                   grid |-> IF exposure.given
                            THEN BuildTimeGrid(WholeExposure(row, exposure), exposure.scale)
                            ELSE OneSample])

\* No clamp has a lower end above its upper: pmin(pmax(x, lo), hi) would be hi
\* then, which may be below every lo (it_ast.R:543).
ClampsAreOrdered ==
  stage = "comparisons" =>
    \A row \in J.data :
      LET known == ValuesBefore(tree.nodes, row) IN
      \A id \in {n \in DOMAIN tree.nodes : Calls(tree.nodes[n], "clamp")} :
        \A s \in DOMAIN known[id] :
          ~IsTrue("GT", known[tree.nodes[id].args[2]][s], known[tree.nodes[id].args[3]][s])

\* No click is as far off as a double that is infinite: clicks are sums of 32-bit
\* inputs, which nothing adds up to that many of (ScalarValue.hpp:26-35).
ClicksAreInReach ==
  stage = "comparisons" =>
    \A row \in J.data :
      LET known == ValuesBefore(tree.nodes, row) IN
      \A id \in {n \in DOMAIN tree.nodes : tree.nodes[n].type \in ClickTypes} :
        Range(known[id]) \subseteq 1 - Inf .. Inf - 1

\* Whatever tree is ingested, no individual ever has a value outside a node's
\* interval, whatever the columns hold, missing values and zero divisors among it,
\* if no clamp is given its ends crossed; the folding of comparisons and the
\* relevance check read these (passFoldIntervalComparisons.hpp:73).
IntervalsBoundTheValues ==
  /\ stage = "annotate" => Written(tree.nodes)
  /\ stage = "comparisons" =>
       \A row \in J.data :
         LET known == ValuesBefore(tree.nodes, row) IN
         \A id \in {n \in DOMAIN tree.nodes : tree.nodes[n].type # "text"} :
           \A v \in Range(known[id]) \ {NaN} : intervals[id].lo <= v /\ v <= intervals[id].hi

\* What a comparison is settled to is what it would have answered wherever neither
\* of its sides is NaN.
SettlesWhatHolds ==
  \A row \in J.data :
    LET known == ValuesBefore(tree.nodes, row) IN
    \A id \in {n \in DOMAIN tree.nodes : tree.nodes[n].op \in Comparisons /\ IsLit(tree'.nodes[n])} :
      \A s \in DOMAIN known[id] :
        NaN \notin {known[a][s] : a \in Range(tree.nodes[id].args)} =>
          known[id][s] = tree'.nodes[id].val

\* The pass that reads the intervals settles no comparison wrongly, of clicks, of
\* codes, of logicals or of numbers, at the ends of an interval as inside it, and
\* of a logical with a number in the same units (passFoldIntervalComparisons.hpp:73).
ComparisonsSettleRightly == [][stage = "comparisons" => SettlesWhatHolds]_analysisVars

\* A comparison the intervals settle has the settled answer for every individual
\* at every slot, those with a missing value included
\* (passFoldIntervalComparisons.hpp:22, 73).
SettledComparisonsHold ==
  stage = "share" =>
    \A row \in J.data :
      LET known == ValuesBefore(source.nodes, row) IN
      \A id \in {n \in DOMAIN source.nodes : source.nodes[n].op \in Comparisons} :
        IsLit(tree.nodes[id]) => Range(known[id]) \subseteq {tree.nodes[id].val}
=============================================================================
