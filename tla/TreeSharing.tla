---------------------------- MODULE TreeSharing ----------------------------
(***************************************************************************)
(* The passes of runTreePipeline (src/src/veil_for_R.cpp) that come last, and  *)
(* only make the block smaller: what is alike is shared, a square is taken   *)
(* apart or left out, and what does not vary leaves an integral.             *)
(***************************************************************************)
EXTENDS TreePasses

-----------------------------------------------------------------------------
(* passShareCommonSubtrees: of the nodes that say the same, the first walked *)
(* stands for all.                                                          *)

ShareOne(acc, id) ==
  LET nodes == [acc.nodes EXCEPT ![id].args = [k \in DOMAIN @ |-> acc.for[@[k]]]]
      same == {c \in Range(acc.for) \ {0} : nodes[c] = nodes[id]}
  IN [nodes |-> nodes,
      for   |-> [acc.for EXCEPT ![id] = IF same = {} THEN id ELSE CHOOSE c \in same : TRUE]]

ShareCommonSubtrees(t) ==
  LET shared == Loop(ShareOne, [nodes |-> t.nodes, for |-> [id \in DOMAIN t.nodes |-> 0]],
                         ChildrenFirst(t.nodes))
  IN [nodes |-> shared.nodes, roots |-> [k \in DOMAIN t.roots |-> shared.for[t.roots[k]]]]

-----------------------------------------------------------------------------
(* ZeroOrOneTest, passDistributeSquares and passFoldIndicatorSquares.       *)

ZeroOrOneColumn(s) ==
  s.hasValues /\ ~s.hasNAs /\ s.whole /\ s.min >= 0 /\ s.max <= One

IsZeroOrOne(n, scans, known) ==
  CASE n.type = "bool" -> TRUE
    [] IsLit(n) -> n.type = "double" /\ n.val \in {0, One}
    [] n.kind = "field" -> n.type = "double" /\ ZeroOrOneColumn(scans[n.val])
    [] n.op = "double" -> n.args[1] \in known
    [] n.op = "select" -> {n.args[2], n.args[3]} \subseteq known
    [] n.op \in {"mul", "min", "max"} -> Range(n.args) \subseteq known
    [] OTHER -> FALSE

ZeroOrOnes(nodes, scans) ==
  Loop(LAMBDA known, id :
             IF IsZeroOrOne(nodes[id], scans, known) THEN known \union {id} ELSE known,
           {}, ChildrenFirst(nodes))

IsSquare(n) == Calls(n, "mul") /\ n.args[1] = n.args[2]

\* The product under a conversion, if there is one.
RECURSIVE FactorsOf(_, _)
FactorsOf(nodes, id) ==
  CASE Calls(nodes[id], "double") -> FactorsOf(nodes, nodes[id].args[1])
    [] Calls(nodes[id], "mul") -> nodes[id].args
    [] OTHER -> <<>>

\* The square of a product with an indicator among its factors.
IsDistributable(nodes, id, indicators) ==
  LET factors == FactorsOf(nodes, nodes[id].args[1]) IN
  /\ IsSquare(nodes[id])
  /\ nodes[id].args[1] \notin indicators
  /\ factors # <<>> /\ factors[1] # factors[2]
  /\ \E f \in Range(factors) : f \in indicators /\ ~IsLit(nodes[f])
  /\ \A f \in Range(factors) : nodes[f].type \in {"double"} \union ClickTypes

\* The square of one factor, converted first if it is no number.
SquareOf(nodes, f) ==
  LET numbers == IF nodes[f].type = "double" THEN nodes
                 ELSE Build(nodes, TypedCall("double", <<f>>, "double"))
      x == IF nodes[f].type = "double" THEN f ELSE Len(numbers)
  IN Build(numbers, TypedCall("mul", <<x, x>>, "double"))

DistributeOne(acc, id) ==
  LET factors == FactorsOf(acc.nodes, acc.nodes[id].args[1])
      left == SquareOf(acc.nodes, factors[1])
      both == SquareOf(left, factors[2])
  IN [nodes |-> Build(both, TypedCall("mul", <<Len(left), Len(both)>>, "double")),
      for   |-> [acc.for EXCEPT ![id] = Len(both) + 1]]

\* Every reference to a replaced node, the roots' included, is moved.
Repoint(t, nodes, for) ==
  LET moved(ids) == [k \in DOMAIN ids |->
                       IF ids[k] \in DOMAIN for THEN for[ids[k]] ELSE ids[k]]
  IN [nodes |-> [id \in DOMAIN nodes |-> [nodes[id] EXCEPT !.args = moved(@)]],
      roots |-> moved(t.roots)]

DistributeSquares(t, scans) ==
  LET indicators == ZeroOrOnes(t.nodes, scans)
      squares == SelectSeq(Ids(t.nodes), LAMBDA id :
                   IsCall(t.nodes[id]) /\ IsSquare(t.nodes[id])
                     /\ IsDistributable(t.nodes, id, indicators))
      done == Loop(DistributeOne, [nodes |-> t.nodes, for |-> Ids(t.nodes)], squares)
  IN Repoint(t, done.nodes, done.for)

FoldIndicatorSquares(t, scans) ==
  LET indicators == ZeroOrOnes(t.nodes, scans)
      folds(id) == IsSquare(t.nodes[id]) /\ t.nodes[id].args[1] \in indicators
      \* A square of a square ends at what was squared.
      for == Loop(LAMBDA f, id : IF folds(id) THEN [f EXCEPT ![id] = f[t.nodes[id].args[1]]]
                                     ELSE f,
                      Ids(t.nodes), ChildrenFirst(t.nodes))
  IN Repoint(t, t.nodes, for)

-----------------------------------------------------------------------------
(* passHoistFromIntegrate: a factor that does not vary leaves the integral. *)

IsSteadyNumber(nodes, tags, covered, id) ==
  id <= covered /\ id \notin tags /\ nodes[id].type = "double"

\* The places of a product's steady factor, the other factor varying; the left
\* is tried first.
SteadyPlace(nodes, tags, covered, id) ==
  {k \in DOMAIN nodes[id].args :
     /\ nodes[id].op = "mul"
     /\ IsSteadyNumber(nodes, tags, covered, nodes[id].args[k])
     /\ nodes[id].args[3 - k] \in tags}

\* The factors taken out of inner, and what is left.
RECURSIVE Peel(_, _, _, _, _)
Peel(nodes, tags, covered, inner, factors) ==
  LET args == nodes[inner].args
      own == SteadyPlace(nodes, tags, covered, inner)
      left == args[1]
      nested == SteadyPlace(nodes, tags, covered, left)
  IN CASE own # {} ->
            LET k == CHOOSE p \in own : TRUE
            IN Peel(nodes, tags, covered, args[3 - k], Append(factors, args[k]))
       [] nodes[inner].op = "mul" /\ own = {} /\ nested # {} ->
            LET k == CHOOSE p \in nested : TRUE
                rest == Build(nodes, TypedCall("mul", <<nodes[left].args[3 - k], args[2]>>, "double"))
            IN Peel(rest, tags, covered, Len(rest), Append(factors, nodes[left].args[k]))
       [] OTHER -> [nodes |-> nodes, inner |-> inner, factors |-> factors]

\* The first factor multiplies last, in the integral's own place.
HoistOne(nodes, id, tags, covered) ==
  LET peeled == Peel(nodes, tags, covered, nodes[id].args[1], <<>>)
      outer == Build(peeled.nodes, TypedCall("integrate", <<peeled.inner>>, "double"))
      product == Loop(LAMBDA ns, f : Build(ns, TypedCall("mul", <<f, Len(ns)>>, "double")),
                          outer, Reverse(Tail(peeled.factors)))
  IN IF peeled.factors = <<>> THEN nodes
     ELSE [product EXCEPT ![id] =
             TypedCall("mul", <<Head(peeled.factors), Len(product)>>, "double")]

HoistFromIntegrate(t) ==
  LET tags == TagTimeVarying(t.nodes)
      integrals == SelectSeq(Ids(t.nodes), LAMBDA id : Calls(t.nodes[id], "integrate"))
  IN [t EXCEPT !.nodes =
        Loop(LAMBDA ns, id : HoistOne(ns, id, tags, Len(t.nodes)), t.nodes, integrals)]
=============================================================================
