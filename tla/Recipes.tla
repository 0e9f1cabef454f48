------------------------------ MODULE Recipes ------------------------------
(***************************************************************************)
(* What an entry point builds before any pass runs: the expressions it is    *)
(* given, and the recipe that makes a calculation of them (ingest and        *)
(* buildAev of src/src/veil_for_R.cpp, AevRecipe.hpp, FitRecipe.hpp and       *)
(* DisjointRecipe.hpp of src/src/veil/).                                     *)
(*                                                                         *)
(* An expression is a node whose arguments are expressions.                  *)
(***************************************************************************)
EXTENDS TreePasses

\* A node that is in the arena already, and the k-th of what was ingested before,
\* standing in an expression.
Ref(id) == Node("ref", "none", <<>>, id, NoType)
Nth(k) == Node("nth", "none", <<>>, k, NoType)

\* `x %in% c(a, b)` is `x == a | x == b`, with x built once.
RECURSIVE Membership(_, _)
Membership(x, set) ==
  LET last == Call("EQ", <<x, set[Len(set)]>>) IN
  IF set = <<>> THEN Lit("bool", 0)
  ELSE IF Len(set) = 1 THEN last
  ELSE Call("or", <<Membership(x, Front(set)), last>>)

\* The arena and the nodes ingested so far, with one more.
With(known, one) == [nodes |-> one.nodes, ids |-> Append(known.ids, one.id)]
NoneYet(nodes) == [nodes |-> nodes, ids |-> <<>>]
NewNode(parts, e) ==
  [nodes |-> Build(parts.nodes, [e EXCEPT !.args = parts.ids]), id |-> Len(parts.nodes) + 1]

\* The arena with the expression in it, and the expression's node.
RECURSIVE Ingest(_, _, _)
Ingest(nodes, ids, e) ==
  LET parts(es) == Loop(LAMBDA known, x : With(known, Ingest(known.nodes, ids, x)),
                        NoneYet(nodes), es)
      membership(x) == Ingest(x.nodes, ids, Membership(Ref(x.id), Tail(e.args)))
  IN CASE e.kind = "ref" -> [nodes |-> nodes, id |-> e.val]
       [] e.kind = "nth" -> [nodes |-> nodes, id |-> ids[e.val]]
       [] Calls(e, "%in%") -> membership(Ingest(nodes, ids, e.args[1]))
       [] OTHER -> NewNode(parts(e.args), e)

\* Several expressions, in order, each of which may stand in a later one.
IngestAll(es) ==
  Loop(LAMBDA known, e : With(known, Ingest(known.nodes, known.ids, e)), NoneYet(<<>>), es)

Mul(x, y) == Call("mul", <<x, y>>)
Integral(x) == Call("integrate", <<x>>)
AtDeath(x) == Call("died_value", <<x>>)

-----------------------------------------------------------------------------
(* A recipe: the steps to its roots, and the roots.  It is given n           *)
(* expressions: the weight is the last of them, or the last but one if there *)
(* is a second weighting factor, a relevance or a distance.                  *)

WeightAt(n, form) == IF form = "none" THEN n ELSE n - 1

\* A relevance is the factor itself, and a distance the negative log of one.
Factor(n, form) ==
  IF form = "distance" THEN Call("exp", <<Call("neg", <<Nth(n)>>)>>) ELSE Nth(n)

Weighted(form, factor, x) == IF form = "none" THEN x ELSE Mul(factor, x)

\* buildAevRecipe: mu, the factor and the weight in full; A, E and V.
AevRecipe(n, form) ==
  LET wt == Nth(WeightAt(n, form))
      mu == Nth(n + 1)
      factor == Nth(n + 2)
      full == Nth(n + 3)
  IN [steps |-> <<Call("exp", <<Nth(1)>>), Factor(n, form), Weighted(form, factor, wt)>>,
      roots |-> <<AtDeath(full), Integral(Mul(mu, full)),
                  Integral(Mul(mu, Weighted(form, factor, Mul(wt, wt))))>>]

\* The pairs of terms, row by row: all of them, or the diagonal.
Triangle(terms, disjoint) ==
  SelectSeq([n \in 1 .. terms * terms |-> <<((n - 1) \div terms) + 1, ((n - 1) % terms) + 1>>],
            LAMBDA p : p[1] = p[2] \/ (p[1] < p[2] /\ ~disjoint))

\* The terms as numbers, those from the first given on.
Covariates(first, terms) == [j \in 1 .. terms |-> Call("double", <<Nth(first + j - 1)>>)]

\* The base and the coefficients' contributions, summed from the left.
LogMu(base, covariates) ==
  LET contribution(j) == Mul(Param(j), covariates[j])
      terms == Len(covariates)
      sum == Loop(LAMBDA partial, j : Call("add", <<partial, contribution(j)>>),
                  contribution(1), [j \in 1 .. terms - 1 |-> j + 1])
  IN IF terms = 0 THEN base ELSE Call("add", <<base, sum>>)

\* buildFitRecipe: the covariates, log mu, mu, the factor and both weights; the
\* roots in fitRootOrder.
FitRecipe(n, form, disjoint) ==
  LET terms == WeightAt(n, form) - 2
      given == Nth(WeightAt(n, form))
      X(j) == Nth(n + j)
      step(k) == Nth(n + terms + k)
      logMu == step(1)
      mu == step(2)
      factor == step(3)
      full == step(4)
      squared == step(5)
      expected(by, c) == Integral(Mul(by, Mul(c, mu)))
      pairs == Triangle(terms, disjoint)
      product(p) == Mul(X(p[1]), X(p[2]))
  IN [steps |-> Covariates(2, terms) \o
        <<LogMu(Nth(1), [j \in 1 .. terms |-> X(j)]), Call("exp", <<logMu>>), Factor(n, form),
          Weighted(form, factor, given), Weighted(form, factor, Mul(given, given))>>,
      roots |->
        <<AtDeath(Mul(full, logMu)), Integral(Mul(full, mu))>>
        \o [j \in 1 .. terms |-> AtDeath(Mul(full, X(j)))]
        \o [j \in 1 .. terms |-> expected(full, X(j))]
        \o [k \in DOMAIN pairs |-> expected(full, product(pairs[k]))]
        \o [k \in DOMAIN pairs |-> expected(squared, product(pairs[k]))]]

\* buildDisjointCheckRecipe.
DisjointCheckRecipe(n) ==
  LET X(j) == Nth(n + j)
      pairs == SelectSeq(Triangle(n, FALSE), LAMBDA p : p[1] # p[2])
  IN [steps |-> Covariates(1, n),
      roots |-> [k \in DOMAIN pairs |->
                   Integral(Call("abs", <<Mul(X(pairs[k][1]), X(pairs[k][2]))>>))]]
=============================================================================
