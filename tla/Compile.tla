------------------------------ MODULE Compile ------------------------------
(***************************************************************************)
(* One calculation compiled, from the expressions a user wrote to a block    *)
(* ready to run: what an entry point of src/src/veil_for_R.cpp ingests, the   *)
(* tree passes in the order of runTreePipeline, the lowering, and the passes *)
(* over blocks.                                                             *)
(***************************************************************************)
EXTENDS TreePipeline, TreeSharing, Recipes

VARIABLES
  relevance,  \* the node of the second weighting factor, 0 if there is none
  moved       \* a pass has moved a reference since the nodes were last shared

compileVars == <<relevance, moved, analysisVars>>

NoLimits == [given |-> FALSE, terms |-> <<>>]

CompileInit ==
  /\ job \in DOMAIN Jobs
  /\ relevance = 0 /\ source = NoTree /\ intervals = <<>> /\ moved = FALSE
  /\ tree = NoTree /\ tags = {} /\ include = NoLimits /\ exposure = J.exposure
  /\ stage = "ingest" /\ why = "" /\ code = NoCode
  /\ memo = <<>> /\ stack = <<>> /\ place = 0 /\ clip = NoClip
  /\ block = BlockOf(NoCode) /\ pass = "waiting" /\ at = 1
  /\ ranges = [v \in Operands |-> NoRange] /\ demand = [v \in Operands |-> {}]
  /\ read = {} /\ dead = {} /\ bufferOf = [v \in Operands |-> 0] /\ freeFrom = <<>>

-----------------------------------------------------------------------------
(* Ingesting.                                                               *)

Recipe(n) ==
  CASE J.recipe = "aev" -> AevRecipe(n, J.form)
    [] J.recipe = "fit" -> FitRecipe(n, J.form, J.disjoint)
    [] J.recipe = "disjoint" -> DisjointCheckRecipe(n)
    [] J.recipe \in Finalisers -> [steps |-> <<>>, roots |-> <<Call(J.recipe, <<Nth(1)>>)>>]
    [] J.recipe = "value" -> [steps |-> <<>>, roots |-> [k \in 1 .. n |-> Nth(k)]]

\* What is ingested: the expressions given, what the recipe makes of them and the
\* expressions of the include's terms.
AllExpressions(recipe) ==
  J.expressions \o recipe.steps \o recipe.roots
    \o [k \in DOMAIN J.include.terms |-> J.include.terms[k].node]

Ingests(recipe, all) ==
  LET firstRoot == Len(J.expressions) + Len(recipe.steps)
      firstTerm == firstRoot + Len(recipe.roots)
  IN /\ tree' = [nodes |-> all.nodes, roots |-> SubSeq(all.ids, firstRoot + 1, firstTerm)]
     /\ include' = [J.include EXCEPT !.terms =
                      [k \in DOMAIN @ |-> [@[k] EXCEPT !.node = all.ids[firstTerm + k]]]]
     /\ relevance' = IF J.form = "none" THEN 0 ELSE all.ids[Len(J.expressions)]

IngestAndBuild ==
  /\ stage = "ingest"
  /\ \E recipe \in {Recipe(Len(J.expressions))} :
       Ingests(recipe, IngestAll(AllExpressions(recipe)))
  /\ stage' = "annotate"
  /\ UNCHANGED <<pipelineVars, tags, exposure, why, source, intervals, moved>>

-----------------------------------------------------------------------------
(* The tree passes.                                                         *)

Pass == Analyse /\ UNCHANGED <<relevance, moved>>

Share ==
  /\ stage = "share"
  /\ Becomes(ShareCommonSubtrees(tree), "distribute")
  /\ UNCHANGED <<relevance, moved>>

\* A reference that is not what it was.
Moves(t, u) ==
  \/ u.roots # t.roots
  \/ \E id \in DOMAIN t.nodes : u.nodes[id].args # t.nodes[id].args

Simplifies(t, next) ==
  Becomes(t, next) /\ moved' = (moved \/ Moves(tree, t)) /\ UNCHANGED relevance

Distribute == stage = "distribute" /\ Simplifies(DistributeSquares(tree, Scans), "squares")
FoldSquares == stage = "squares" /\ Simplifies(FoldIndicatorSquares(tree, Scans), "hoist")
Hoist == stage = "hoist" /\ Simplifies(HoistFromIntegrate(tree), "share again")

\* Mistake: what the hoist leaves alike is left apart.
LeaveApart ==
  stage = "share again" /\ Becomes(tree, "check") /\ UNCHANGED <<relevance, moved>>

ShareAgain ==
  /\ stage = "share again"
  /\ Becomes(IF moved THEN ShareCommonSubtrees(tree) ELSE tree, "check")
  /\ UNCHANGED <<relevance, moved>>

\* The tree is tagged as it finally stands, and the relevance looked at last.
CheckRelevance ==
  /\ stage = "check"
  /\ IF BadRelevance(tree.nodes, intervals, relevance, J.form) THEN Complain("relevance")
     ELSE /\ tags' = TagTimeVarying(tree.nodes)
          /\ memo' = [id \in DOMAIN tree.nodes |-> 0]
          /\ stage' = "start"
          /\ UNCHANGED <<job, tree, include, exposure, why, code, stack, place, clip, layoutVars,
                         source, intervals>>
  /\ UNCHANGED <<relevance, moved>>

-----------------------------------------------------------------------------
(* Lowering and laying out.                                                 *)

Lower == LoweringStep /\ UNCHANGED <<job, relevance, source, intervals, moved, layoutVars>>

\* The block is handed to its passes.
HandOver ==
  /\ stage = "lowered" /\ pass = "waiting"
  /\ block' = BlockOf(code) /\ pass' = "places"
  /\ UNCHANGED <<at, ranges, demand, read, dead, bufferOf, freeFrom>>
  /\ UNCHANGED <<job, relevance, source, intervals, moved, loweringVars>>

LayOut ==
  /\ pass \notin {"waiting", "ready", "refused"}
  /\ LayoutStep
  /\ UNCHANGED <<job, relevance, source, intervals, moved, loweringVars>>

CompileOver == stage = "refused" \/ pass \in {"ready", "refused"}

CompileNext ==
  \/ IngestAndBuild
  \/ Pass \/ Share \/ Distribute \/ FoldSquares \/ Hoist \/ ShareAgain \/ CheckRelevance
  \/ Lower \/ HandOver \/ LayOut
  \/ CompileOver /\ UNCHANGED compileVars

CompileSpec == CompileInit /\ [][CompileNext]_compileVars

-----------------------------------------------------------------------------
Compiled == pass = "ready"
SourceCalls(ops) == {id \in DOMAIN source.nodes : source.nodes[id].op \in ops}

\* For every individual and every coefficient the block answers what the
\* expressions say, as they were written: twelve passes, the clipping of the
\* exposure by an include and the lowering have changed no answer
\* (veil_for_R.cpp:1011, 1104).
CompiledAnswersAreTheExpressions ==
  Compiled =>
    \A row \in J.data :
      Answered(code, exposure.scale, row, J.beta) =
        Meant(source, include, exposure, row, J.beta)

\* A block computes nothing that is not needed.  No instruction of the prologue or the
\* body is dead (veil_for_R.cpp:1100 "Lowering emits none"); and an indicator, a weight
\* or a relevance costs no integral of its own: after the squares are folded, the
\* steady factors hoisted and what is left alike shared, a calculation integrates no
\* more often than its integrands differ over time.
NothingIsWasted ==
  Compiled =>
    /\ dead = {}
    /\ Cardinality({k \in DOMAIN code.body : code.body[k].op = "integrate"}) <= J.integrals

-----------------------------------------------------------------------------
(* The faults of what the user wrote, whatever the passes make of it.       *)

RECURSIVE OverTime(_)
OverTime(id) ==
  LET n == source.nodes[id] IN
  \/ n.kind = "time"
  \/ n.op \in AlwaysVector
  \/ n.op \notin Finalisers /\ \E a \in Range(n.args) : OverTime(a)

ArgOf(id, k) == source.nodes[id].args[k]
TermsOfKind(kinds) == {term \in Range(include.terms) : term.kind \in kinds}
TypeOfTerm(term) == source.nodes[term.node].type

\* Nobody's relevance is one, nor the exponential of minus anybody's distance.
NobodysRelevance ==
  \A row \in J.data : \A v \in Range(ValuesBefore(source.nodes, row)[relevance]) :
    IF J.form = "distance" THEN v < 0 ELSE v < 0 \/ v > One

\* The complaints a user can earn, and when they are fair.
Fair(complaint) ==
  CASE complaint = "ill-typed" -> source = NoTree
    [] complaint = "text" -> \E id \in DOMAIN source.nodes : source.nodes[id].type = "text"
    [] complaint = "chooses over time" -> \E id \in SourceCalls({"select"}) : OverTime(ArgOf(id, 1))
    [] complaint = "relevance" -> source.nodes[relevance].type # "double" \/ NobodysRelevance
    [] complaint = "no exposure" ->
         /\ ~exposure.given
         /\ include.given \/ \E k \in DOMAIN source.roots :
              OverTime(source.roots[k]) \/ source.nodes[source.roots[k]].op \in Finalisers
    [] complaint = "the include varies" ->
         \E term \in TermsOfKind({"gate", "offset"}) : OverTime(term.node)
    [] complaint = "not a gate" -> \E term \in TermsOfKind({"gate"}) : TypeOfTerm(term) # "bool"
    [] complaint = "not an offset" ->
         \E term \in TermsOfKind({"offset"}) : TypeOfTerm(term) # "datey"
    [] complaint = "not over time" -> \E id \in SourceCalls(Logicals) : OverTime(id)
    [] complaint = "an argument it cannot take" ->
         \E id \in SourceCalls({"vector_log_mu"}) : OverTime(ArgOf(id, 2))
    [] complaint = "a root varies" -> J.recipe = "value" /\ \E k \in DOMAIN source.roots :
                                                           OverTime(source.roots[k])
    [] OTHER -> FALSE

\* A calculation is only ever refused for something its user wrote: what the
\* passes leave behind is always something lowering takes and the passes over
\* blocks accept (passInsertCoercions.hpp:25, passLowerToBlock.hpp:400).
OnlyFaultsAreRefused ==
  /\ stage = "refused" => Fair(why)
  /\ pass # "refused"
=============================================================================
