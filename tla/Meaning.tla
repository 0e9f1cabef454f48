------------------------------ MODULE Meaning ------------------------------
(***************************************************************************)
(* What an expression says, one individual at a time, and what a block       *)
(* answers.  The first is read off the tree as it was written, by datey's    *)
(* rules: every node has a value at every sample point, and no pass, operand *)
(* or instruction is known of.  The second is what the interpreter computes  *)
(* (src/src/veil/Interpreter.hpp), with the buffers and ranges BlockRun has  *)
(* shown to hold what is read from them.                                    *)
(***************************************************************************)
EXTENDS TreePasses

CONSTANT
  TableLogMu  \* a mortality table: log mu at each age in clicks

Ages == FirstClick - LastClick .. LastClick - FirstClick

ASSUME TableAssumption ==
  FirstClick <= LastClick /\ \A age \in Ages : IsDouble(TableLogMu[age])

\* An age past the end of the table is read at its edge.  That a date of birth is
\* missing the code finds out before it looks, and stops.
LogMuAt(age) == TableLogMu[Greater(FirstClick - LastClick, Lesser(age, LastClick - FirstClick))]

Slots(g) == 1 .. SlotCount(g)
AddUp(xs) == Loop(Plus, 0, xs)

-----------------------------------------------------------------------------
(* The tree.                                                                *)

\* A text is the code of its level, or of none.
Coded(type, x) ==
  IF type # "text" THEN x ELSE IF x \in DOMAIN Levels THEN Levels[x] ELSE -1

\* Clicks of one kind compare as clicks; a number makes a comparison one of numbers.
CompareTyped(op, t, x) ==
  IF t[1] = t[2] THEN Compare(op, x[1], x[2])
  ELSE IF {t[1], t[2]} \subseteq Textual
  THEN Compare(op, Coded(t[1], x[1]), Coded(t[2], x[2]))
  ELSE Compare(op, AsNumber(t[1], x[1]), AsNumber(t[2], x[2]))

\* The value of a call of the given type, its arguments' types and values given.
Apply(op, type, t, x) ==
  LET numbers == [k \in DOMAIN x |-> AsNumber(t[k], x[k])]
      branch == IF x[1] = 1 THEN 2 ELSE 3
  IN CASE op = "double" -> numbers[1]
       [] op = "is_na" -> IsMissing(t[1], x[1])
       [] op \in Logicals -> Logic(op, x)
       [] op \in Comparisons -> CompareTyped(op, t, x)
       [] op = "select" -> IF type = "double" THEN numbers[branch] ELSE x[branch]
       [] op \in Arithmetic ->
            IF type = "double" THEN Number(op, numbers) ELSE ClickArithmetic(op, x)

\* around: [row, grid, beta].  The value of a node at each slot, given its arguments'
\* types and their values at each slot.
ValuesOf(n, t, around, x) ==
  LET at(s) == [k \in DOMAIN x |-> x[k][s]]
      g == around.grid
  IN CASE n.kind = "lit" -> [s \in Slots(g) |-> n.val]
       [] n.kind = "field" -> [s \in Slots(g) |-> around.row[n.val]]
       [] n.kind = "param" -> [s \in Slots(g) |-> around.beta[n.val]]
       [] n.kind = "time" -> [s \in Slots(g) |-> ClicksAt(g, s)]
       [] n.kind = "obj" -> [s \in Slots(g) |-> 0]
       [] n.op = "vector_log_mu" -> [s \in Slots(g) |-> LogMuAt(ClicksAt(g, s) - at(s)[2])]
       [] n.op = "integrate" ->
            LET total == AddUp([s \in 1 .. g.integrationSlots |->
                                  Times(AsNumber(t[1], at(s)[1]), Years(WidthOf(g, s)))])
            IN [s \in Slots(g) |-> total]
       [] n.op = "died_value" ->
            LET end == IF g.hasDeathSlot THEN AsNumber(t[1], at(SlotCount(g))[1]) ELSE 0
            IN [s \in Slots(g) |-> end]
       [] OTHER -> [s \in Slots(g) |-> Apply(n.op, n.type, t, at(s))]

\* The values of a node, those of its arguments known.
ValuesGiven(nodes, id, around, known) ==
  ValuesOf(nodes[id], TypesOf(nodes, nodes[id].args), around,
           [k \in DOMAIN nodes[id].args |-> known[nodes[id].args[k]]])

Evaluate(nodes, around) ==
  Loop(LAMBDA known, id : [known EXCEPT ![id] = ValuesGiven(nodes, id, around, known)],
           [id \in DOMAIN nodes |-> <<>>], ChildrenFirst(nodes))

\* One sample, for what does not vary: any day will do.
OneSample ==
  [EmptyTimeGrid EXCEPT !.fullSlots = 1, !.integrationSlots = 1, !.firstSlot = FirstClick]

WholeExposure(row, exposure) ==
  [start |-> row[exposure.start], end |-> row[exposure.end], died |-> row[exposure.died] = 1]

\* The part of the exposure every term includes; it may be empty.
Included(nodes, include, row, exposure, beta) ==
  LET e == WholeExposure(row, exposure)
      known == Evaluate(nodes, [row |-> row, grid |-> OneSample, beta |-> beta])
      value(term) == known[term.node][1]
      terms == Range(include.terms)
      refused == \E term \in terms :
                   \/ term.kind = "gate" /\ value(term) = 0
                   \/ term.kind = "offset" /\ MissingClick("datey", value(term))
      base(term) == IF term.kind = "offset" THEN value(term) ELSE 0
      bounds == {term \in terms : term.kind # "gate"}
      from == Max({e.start} \union {base(term) + term.from : term \in bounds})
      to == Min({e.end} \union {base(term) + term.to : term \in bounds})
  IN IF refused THEN [e EXCEPT !.end = e.start]
     ELSE [start |-> from, end |-> to, died |-> e.died /\ to = e.end]

\* The answers for one individual: a number to each root, nothing from an
\* exposure that is empty.
Meant(source, include, exposure, row, beta) ==
  LET e == IF exposure.given THEN Included(source.nodes, include, row, exposure, beta) ELSE {}
      grid == IF exposure.given THEN BuildTimeGrid(e, exposure.scale) ELSE OneSample
      known == Evaluate(source.nodes, [row |-> row, grid |-> grid, beta |-> beta])
  IN IF exposure.given /\ e.end <= e.start THEN [k \in DOMAIN source.roots |-> 0]
     ELSE [k \in DOMAIN source.roots |-> known[source.roots[k]][1]]

-----------------------------------------------------------------------------
(* The block.                                                               *)

\* executeArithmetic, executeLogical, executeComparison, executeSelection and
\* executeConversion, on operands lowering has checked.
RunScalar(op, type, t, x) ==
  CASE op = "double" -> AsNumber(t[1], x[1])
    [] op = "is_na" -> IsMissing(t[1], x[1])
    [] op \in Logicals -> Logic(op, x)
    [] op \in Comparisons -> Compare(op, x[1], x[2])
    [] op = "select" -> IF x[1] = 1 THEN x[2] ELSE x[3]
    [] op \in Arithmetic -> IF type = "double" THEN Number(op, x) ELSE ClickArithmetic(op, x)

\* executeVector at one slot: a comparison over time answers 0.0 or 1.0.
RunVector(op, x, clicks) ==
  CASE op = "vector_t" -> Years(clicks)
    [] op = "vector_durn" -> Years(clicks - x[1])
    [] op = "vector_log_mu" -> LogMuAt(clicks - x[1])
    [] op = "vector" -> x[1]
    [] op = "select" -> IF x[1] = 1 THEN x[2] ELSE x[3]
    [] op = "is_na" -> Truth(x[1] = NaN) * One
    [] op \in Comparisons -> Compare(op, x[1], x[2]) * One
    [] OTHER -> Number(op, x)

\* integrateSlots.
IntegrateSlots(xs, g) ==
  LET full == Times(AddUp(SubSeq(xs, 1, g.fullSlots)), Years(g.deltaT))
  IN IF g.integrationSlots = g.fullSlots THEN full
     ELSE Plus(full, Times(xs[g.integrationSlots], Years(g.finalWidth)))

\* The registers after an instruction.
Execute(c, g, held, i) ==
  LET x(s) == [k \in DOMAIN i.args |->
                 IF c.operands[i.args[k]].vector THEN held[i.args[k]][s] ELSE held[i.args[k]]]
      t == [k \in DOMAIN i.args |-> c.operands[i.args[k]].type]
      result == c.operands[i.result]
  IN [held EXCEPT ![i.result] =
        CASE result.vector -> [s \in Slots(g) |-> RunVector(i.op, x(s), ClicksAt(g, s))]
          [] i.op = "integrate" -> IntegrateSlots(held[i.args[1]], g)
          [] i.op = "died_value" ->
               IF g.hasDeathSlot THEN held[i.args[1]][SlotCount(g)] ELSE 0
          [] OTHER -> RunScalar(i.op, result.type, t, x(1))]

\* What the operands are bound to, for one individual.
Loaded(c, row, beta) ==
  [o \in DOMAIN c.operands |->
     CASE c.operands[o].from = "column" -> row[c.operands[o].of]
       [] c.operands[o].from = "param" -> beta[c.operands[o].of]
       [] OTHER -> c.operands[o].of]

\* loadRecord and run: the prologue, the grid, then the body unless the include
\* excludes the individual.
Answered(c, scale, row, beta) ==
  LET begun == Loop(LAMBDA h, i : Execute(c, EmptyTimeGrid, h, i),
                        Loaded(c, row, beta), c.prologue)
      excluded == c.grid.bound /\ c.grid.included # 0 /\ begun[c.grid.included] = 0
      grid == IF c.grid.bound
              THEN BuildTimeGrid([start |-> begun[c.grid.start], end |-> begun[c.grid.end],
                                  died |-> begun[c.grid.died] = 1], scale)
              ELSE EmptyTimeGrid
      held == Loop(LAMBDA h, i : Execute(c, grid, h, i), begun, c.body)
  IN IF excluded THEN [k \in DOMAIN c.outputs |-> 0]
     ELSE [k \in DOMAIN c.outputs |-> held[c.outputs[k]]]
=============================================================================
