------------------------------ MODULE Lowering ------------------------------
(***************************************************************************)
(* One tree lowered into one block: src/src/veil/passLowerToBlock.hpp.      *)
(*                                                                         *)
(* The recursion of Lowerer::lower is a stack of calls, each holding the     *)
(* operands its arguments have been lowered to so far.  A node is lowered    *)
(* once: memo says into which operand.  Lowerer::emit sends what is emitted  *)
(* while the include is resolved to the prologue.                           *)
(***************************************************************************)
EXTENDS Tree, BlockLayout

VARIABLES
  tree,      \* argument: [nodes, roots], after the tree passes
  tags,      \* argument: the nodes that vary over time
  include,   \* argument: [given, terms], the terms naming nodes of the tree
  exposure,  \* argument: [given, start, end, died, scale], columns and a time scale
  stage,     \* how far the compilation is: here "start", "include", "roots", "lowered"
  why,       \* the complaint it ended with, if it was refused
  code,      \* the block so far
  memo,      \* operandOfNode: the operand of each node, 0 if it is not lowered
  stack,     \* the calls of lower under way: [node, got]
  place,     \* the include's term, or the root, to lower next
  clip       \* the running bounds of the include: [nu, tau, died, included]

loweringVars == <<tree, tags, include, exposure, stage, why, code, memo, stack, place, clip>>

NoGrid == [bound |-> FALSE, start |-> 0, end |-> 0, died |-> 0, included |-> 0]
NoCode == [operands |-> <<>>, prologue |-> <<>>, body |-> <<>>, outputs |-> <<>>, grid |-> NoGrid]
NoClip == [nu |-> 0, tau |-> 0, died |-> 0, included |-> 0]

-----------------------------------------------------------------------------
(* Adding to a block.                                                       *)

\* from: "temp", or what the operand is bound to; of: the value, column or number.
Operand(type, vector, from, of) == [type |-> type, vector |-> vector, from |-> from, of |-> of]
Temp(type) == Operand(type, FALSE, "temp", NoValue)
VectorTemp == Operand("double", TRUE, "temp", NoValue)

Add(c, o) == [c EXCEPT !.operands = Append(@, o)]
Newest(c) == Len(c.operands)

\* Mistake: what resolves the include is left to the body.
EmitToBody(c, i) == [c EXCEPT !.body = Append(@, i)]

Emit(c, i) ==
  IF stage = "include" THEN [c EXCEPT !.prologue = Append(@, i)]
  ELSE [c EXCEPT !.body = Append(@, i)]

\* A new operand and the instruction that writes it.
Compute(c, op, o, args) ==
  Emit(Add(c, o), [op |-> op, result |-> Newest(c) + 1, args |-> args])

BoundTo(c, column) ==
  {k \in DOMAIN c.operands : c.operands[k].from = "column" /\ c.operands[k].of = column}

\* columnOperand: a column is bound once.
AddColumn(c, column, type) ==
  IF BoundTo(c, column) = {} THEN Add(c, Operand(type, FALSE, "column", column)) ELSE c
ColumnOperand(c, column) == CHOOSE k \in BoundTo(c, column) : TRUE

IsVec(o) == code.operands[o].vector
TypeAt(o) == code.operands[o].type
IsScalar(o, storage) == ~IsVec(o) /\ StorageOf(TypeAt(o)) = storage

\* asNumber converts what is neither a vector nor a number already.
NeedsWidening(c, o) == ~c.operands[o].vector /\ StorageOf(c.operands[o].type) # "number"
Widen(c, o) == IF NeedsWidening(c, o) THEN Compute(c, "double", Temp("double"), <<o>>) ELSE c
Widened(c, o) == IF NeedsWidening(c, o) THEN Newest(c) + 1 ELSE o

Reject(complaint) ==
  /\ stage' = "refused" /\ why' = complaint
  /\ UNCHANGED <<tree, tags, include, exposure, code, memo, stack, place, clip>>

-----------------------------------------------------------------------------
(* The exposure, and the include that clips it.                             *)

WithExposure(c) ==
  AddColumn(AddColumn(AddColumn(c, exposure.start, "datey"), exposure.end, "datey"),
            exposure.died, "bool")

ExposureClip(c) ==
  [nu |-> ColumnOperand(c, exposure.start), tau |-> ColumnOperand(c, exposure.end),
   died |-> ColumnOperand(c, exposure.died), included |-> 0]

UseTimeGrid(c, bounds) ==
  [c EXCEPT !.grid = [bound |-> TRUE, start |-> bounds.nu, end |-> bounds.tau,
                      died |-> bounds.died, included |-> bounds.included]]

\* The include is resolved before anything of the body is lowered.
StartInclude ==
  /\ stage = "start" /\ tree.roots # <<>>
  /\ include.given /\ exposure.given
  /\ stage' = "include" /\ place' = 1
  /\ code' = WithExposure(code)
  /\ clip' = ExposureClip(code')
  /\ UNCHANGED <<tree, tags, include, exposure, why, memo, stack>>

StartRoots ==
  /\ stage = "start" /\ tree.roots # <<>>
  /\ ~include.given
  /\ stage' = "roots" /\ place' = 1
  /\ UNCHANGED <<tree, tags, include, exposure, why, code, memo, stack, clip>>

Term == include.terms[place]
AtTerm(kind) ==
  stage = "include" /\ stack = <<>> /\ place <= Len(include.terms) /\ Term.kind = kind

\* The gate or offset is lowered once it is known not to vary.
Call1(n) == stack' = Append(stack, [node |-> n, got |-> <<>>])

LowerTerm ==
  /\ (AtTerm("gate") \/ AtTerm("offset"))
  /\ Term.node \notin tags
  /\ memo[Term.node] = 0
  /\ Call1(Term.node)
  /\ UNCHANGED <<tree, tags, include, exposure, stage, why, code, memo, place, clip>>

\* conjoinIncluded, on a block and the flag so far: the flag becomes the operand
\* the block was last given, or the condition itself if it is the first.
Conjoin(c, flag, condition) ==
  IF flag = 0 THEN c ELSE Compute(c, "and", Temp("bool"), <<flag, condition>>)

Conjoined(c, flag, condition) == IF flag = 0 THEN condition ELSE Newest(c) + 1

NextTerm == place' = place + 1 /\ UNCHANGED <<tree, tags, include, exposure, stage, why, memo, stack>>

AddGate ==
  /\ AtTerm("gate")
  /\ Term.node \notin tags
  /\ memo[Term.node] # 0
  /\ IsScalar(memo[Term.node], "logical")
  /\ code' = Conjoin(code, clip.included, memo[Term.node])
  /\ clip' = [clip EXCEPT !.included = Conjoined(code, @, memo[Term.node])]
  /\ NextTerm

Constant(c, type, value) == Add(c, Operand(type, FALSE, "constant", value))

\* max(nu, from) and min(tau, to), the two operands last added being the bounds.
Narrow(c, from, to) ==
  Compute(Compute(c, "max", Temp("datey"), <<clip.nu, from>>),
          "min", Temp("datey"), <<clip.tau, to>>)

AddAbsolute ==
  /\ AtTerm("absolute")
  /\ LET c == Constant(Constant(code, "datey", Term.from), "datey", Term.to)
         n == Newest(c)
     IN /\ code' = Narrow(c, n - 1, n)
        /\ clip' = [clip EXCEPT !.nu = n + 1, !.tau = n + 2]
  /\ NextTerm

\* is_na and its negation: the last two operands.
Present(c, field) ==
  LET tested == Compute(c, "is_na", Temp("bool"), <<field>>)
  IN Compute(tested, "not", Temp("bool"), <<Newest(tested)>>)

\* The field, or a harmless date where it is missing, moved by both bounds.
AddOffset ==
  /\ AtTerm("offset")
  /\ Term.node \notin tags
  /\ memo[Term.node] # 0
  /\ ~IsVec(memo[Term.node]) /\ TypeAt(memo[Term.node]) = "datey"
  /\ LET field == memo[Term.node]
         tested == Present(code, field)
         missing == Newest(tested) - 1
         flagged == Conjoin(tested, clip.included, Newest(tested))
         zero == Constant(flagged, "datey", 0)
         safe == Compute(zero, "select", Temp("datey"), <<missing, Newest(zero), field>>)
         s == Newest(safe)
         bounds == Constant(Constant(safe, "datey", Term.from), "datey", Term.to)
         from == Compute(bounds, "add", Temp("datey"), <<s, s + 1>>)
         lower == Compute(from, "max", Temp("datey"), <<clip.nu, s + 3>>)
         to == Compute(lower, "add", Temp("datey"), <<s, s + 2>>)
     IN /\ code' = Compute(to, "min", Temp("datey"), <<clip.tau, s + 5>>)
        /\ clip' = [clip EXCEPT !.nu = s + 4, !.tau = s + 6,
                                !.included = Conjoined(tested, @, Newest(tested))]
  /\ NextTerm

\* Mistake: a death counts whether or not the include cut the end off.
DiedRegardless(c, bounds) == <<bounds.died, bounds.died>>

\* Death survives the clip if the end of the exposure did; the test of that is
\* the operand last added.
DiedAtTheEnd(c, bounds) == <<bounds.died, Newest(c)>>

EndInclude ==
  /\ stage = "include" /\ stack = <<>> /\ place > Len(include.terms)
  /\ LET before == Compute(code, "LT", Temp("bool"), <<clip.nu, clip.tau>>)
         flagged == Conjoin(before, clip.included, Newest(before))
         flag == Conjoined(before, clip.included, Newest(before))
         end == ColumnOperand(code, exposure.end)
         uncut == Compute(flagged, "EQ", Temp("bool"), <<clip.tau, end>>)
         died == Compute(uncut, "and", Temp("bool"), DiedAtTheEnd(uncut, clip))
         bounds == [clip EXCEPT !.died = Newest(died), !.included = flag]
     IN code' = UseTimeGrid(died, bounds) /\ clip' = bounds
  /\ stage' = "roots" /\ place' = 1
  /\ UNCHANGED <<tree, tags, include, exposure, why, memo, stack>>

-----------------------------------------------------------------------------
(* One node.                                                                *)

Lowers == stack # <<>>
Top == stack[Len(stack)]
N == tree.nodes[Top.node]
IsLeaf == Lowers /\ ~IsCall(N)

\* The node's operand is known: it is remembered and its call returns.
Return(c, o) ==
  /\ code' = c
  /\ memo' = [memo EXCEPT ![Top.node] = o]
  /\ stack' = SubSeq(stack, 1, Len(stack) - 1)
  /\ UNCHANGED <<tree, tags, include, exposure, stage, why, place, clip>>

\* `.t - offset` stays a subtraction of clicks.
IsDuration(n) ==
  /\ Calls(n, "sub")
  /\ tree.nodes[n.args[1]].kind = "time"
  /\ n.args[2] \notin tags
  /\ StorageOf(n.type) = "click"

\* Which way lowerCall takes.
Treatment(id) ==
  LET n == tree.nodes[id] IN
  CASE n.op \in Finalisers -> "finalise"
    [] n.op = "vector_log_mu" -> "log_mu"
    [] IsDuration(n) -> "duration"
    [] n.op = "double" /\ n.args[1] \in tags -> "as_is"
    [] id \in tags -> "vector"
    [] OTHER -> "scalar"

SamplesTime ==
  /\ Lowers
  /\ IF IsCall(N) THEN Treatment(Top.node) \in {"finalise", "log_mu", "duration"}
     ELSE N.kind = "time"
NeedsGrid == SamplesTime /\ ~code.grid.bound

\* The arguments that are lowered: not a mortality table, nor the time of a duration.
ArgsOf(id) ==
  IF Treatment(id) \in {"log_mu", "duration"} THEN <<tree.nodes[id].args[2]>>
  ELSE tree.nodes[id].args

\* ensureTimeGrid, for a block that has no include.
BindExposure ==
  /\ NeedsGrid /\ stage = "roots" /\ exposure.given
  /\ LET c == WithExposure(code) IN code' = UseTimeGrid(c, ExposureClip(c))
  /\ UNCHANGED <<tree, tags, include, exposure, stage, why, memo, stack, place, clip>>

LowerTime ==
  /\ IsLeaf /\ N.kind = "time" /\ ~NeedsGrid
  /\ Return(Compute(code, "vector_t", VectorTemp, <<>>), Newest(code) + 1)

LowerLit ==
  /\ IsLeaf /\ N.kind = "lit" /\ N.type # "text"
  /\ Return(Constant(code, N.type, N.val), Newest(code) + 1)

LowerField ==
  /\ IsLeaf /\ N.kind = "field"
  /\ \A k \in BoundTo(code, N.val) : TypeAt(k) = N.type
  /\ LET c == AddColumn(code, N.val, N.type) IN Return(c, ColumnOperand(c, N.val))

LowerParam ==
  /\ IsLeaf /\ N.kind = "param"
  /\ Return(Add(code, Operand("double", FALSE, "param", N.val)), Newest(code) + 1)

\* A call that is not refused before its arguments are looked at.
InCall ==
  /\ Lowers /\ IsCall(N) /\ N.type # NoType /\ ~NeedsGrid
  /\ Treatment(Top.node) = "vector" => N.op \in Vectorisable
Wants == InCall /\ Len(Top.got) < Len(ArgsOf(Top.node))
Has == InCall /\ Len(Top.got) = Len(ArgsOf(Top.node))

NextArg == ArgsOf(Top.node)[Len(Top.got) + 1]

Descend ==
  /\ Wants /\ memo[NextArg] = 0
  /\ Call1(NextArg)
  /\ UNCHANGED <<tree, tags, include, exposure, stage, why, code, memo, place, clip>>

Got == memo[NextArg]

\* How an argument is taken depends on what the call does with it: a vector call
\* takes numbers, but for a select's condition, and so do the finalisers.
TakenAs ==
  CASE Treatment(Top.node) \in {"log_mu", "duration"} -> "click"
    [] Treatment(Top.node) = "vector" /\ N.op = "select" /\ Top.got = <<>> -> "logical"
    [] Treatment(Top.node) = "scalar" -> "as_is"
    [] OTHER -> "number"

Acceptable(o) ==
  CASE TakenAs = "as_is" -> TRUE
    [] TakenAs = "number" -> IsVec(o) \/ StorageOf(TypeAt(o)) # "code"
    [] OTHER -> IsScalar(o, TakenAs)

Take ==
  /\ Wants /\ Got # 0
  /\ Acceptable(Got)
  /\ code' = IF TakenAs = "number" THEN Widen(code, Got) ELSE code
  /\ stack' = [stack EXCEPT ![Len(stack)].got =
                 Append(@, IF TakenAs = "number" THEN Widened(code, Got) ELSE Got)]
  /\ UNCHANGED <<tree, tags, include, exposure, stage, why, memo, place, clip>>

\* A scalar is broadcast before it is collapsed.
Finalise ==
  /\ Has /\ Treatment(Top.node) = "finalise"
  /\ LET value == Top.got[1]
         c == IF IsVec(value) THEN code ELSE Compute(code, "vector", VectorTemp, <<value>>)
         v == IF IsVec(value) THEN value ELSE Newest(c)
     IN Return(Compute(c, N.op, Temp("double"), <<v>>), Newest(c) + 1)

VectorOp ==
  CASE Treatment(Top.node) = "duration" -> "vector_durn"
    [] Treatment(Top.node) = "log_mu" -> "vector_log_mu"
    [] OTHER -> N.op

LowerVectorCall ==
  /\ Has /\ Treatment(Top.node) \in {"vector", "duration", "log_mu"}
  /\ Return(Compute(code, VectorOp, VectorTemp, Top.got), Newest(code) + 1)

\* A time vector holds years already.
PassOn ==
  /\ Has /\ Treatment(Top.node) = "as_is"
  /\ Return(code, Top.got[1])

\* Where a click still meets a number both are read as years.
IsMixed(args) ==
  N.op \in Comparisons /\ StorageOf(TypeAt(args[1])) # StorageOf(TypeAt(args[2]))

StorageAt(c, o) == StorageOf(c.operands[o].type)

\* requireScalarOperands.
CanTake(c, args) ==
  LET result == StorageOf(N.type)
      held(k) == StorageAt(c, args[k])
  IN CASE N.op \in Arithmetic ->
            result \in {"number", "click"} /\ \A k \in DOMAIN args : held(k) = result
       [] N.op \in Logicals ->
            result = "logical" /\ \A k \in DOMAIN args : held(k) = "logical"
       [] N.op = "is_na" -> held(1) \in {"number", "click"}
       [] N.op \in Comparisons ->
            result = "logical" /\ held(1) = held(2) /\ (N.op \in Ordering => held(1) # "code")
       [] N.op = "select" ->
            held(1) = "logical" /\ held(2) = result /\ held(3) = result
       [] N.op = "double" -> result = "number" /\ held(1) # "code"
       [] OTHER -> FALSE

\* The block and the arguments once the comparison's sides agree.
Agreed ==
  IF IsMixed(Top.got)
  THEN LET c == Widen(code, Top.got[1])
       IN [code |-> Widen(c, Top.got[2]),
           args |-> <<Widened(code, Top.got[1]), Widened(c, Top.got[2])>>]
  ELSE [code |-> code, args |-> Top.got]

MixesCode(args) == IsMixed(args) /\ \E k \in DOMAIN args : StorageAt(code, args[k]) = "code"

LowerScalarCall ==
  /\ Has /\ Treatment(Top.node) = "scalar"
  /\ ~MixesCode(Top.got)
  /\ CanTake(Agreed.code, Agreed.args)
  /\ Return(Compute(Agreed.code, N.op, Temp(N.type), Agreed.args), Newest(Agreed.code) + 1)

-----------------------------------------------------------------------------
(* The roots.                                                               *)

AtRoot == stage = "roots" /\ stack = <<>> /\ place <= Len(tree.roots)
Root == tree.roots[place]

LowerRoot ==
  /\ AtRoot /\ memo[Root] = 0
  /\ Call1(Root)
  /\ UNCHANGED <<tree, tags, include, exposure, stage, why, code, memo, place, clip>>

AddOutput ==
  /\ AtRoot /\ memo[Root] # 0
  /\ ~IsVec(memo[Root])
  /\ code' = [code EXCEPT !.outputs = Append(@, memo[Root])]
  /\ place' = place + 1
  /\ UNCHANGED <<tree, tags, include, exposure, stage, why, memo, stack, clip>>

EndRoots ==
  /\ stage = "roots" /\ stack = <<>> /\ place > Len(tree.roots)
  /\ stage' = "lowered"
  /\ UNCHANGED <<tree, tags, include, exposure, why, code, memo, stack, place, clip>>

-----------------------------------------------------------------------------
(* What is refused.                                                         *)

\* Every complaint there is, and when it is made.  Most are of a tree the passes
\* before this one do not leave behind.
Complaints ==
  LET atCall == Lowers /\ IsCall(N)
      term == IF stage = "include" /\ stack = <<>> /\ place <= Len(include.terms)
              THEN Term.kind ELSE "none"
      fixed == term \in {"gate", "offset"} /\ Term.node \notin tags /\ memo[Term.node] # 0
      made == {
        <<"no root", stage = "start" /\ tree.roots = <<>> >>,
        <<"no exposure", /\ ~exposure.given
                         /\ \/ stage = "start" /\ tree.roots # <<>> /\ include.given
                            \/ stage = "roots" /\ NeedsGrid>>,
        <<"the include varies", term \in {"gate", "offset"} /\ Term.node \in tags>>,
        <<"not a gate", term = "gate" /\ fixed /\ ~IsScalar(memo[Term.node], "logical")>>,
        <<"not an offset", /\ term = "offset" /\ fixed
                           /\ (IsVec(memo[Term.node]) \/ TypeAt(memo[Term.node]) # "datey")>>,
        \* The tags catch a gate that varies, but not one that integrates.
        <<"the include samples time", stage = "include" /\ NeedsGrid>>,
        <<"an object", IsLeaf /\ N.kind = "obj">>,
        <<"text unencoded", IsLeaf /\ N.kind = "lit" /\ N.type = "text">>,
        <<"one column, two types", /\ IsLeaf /\ N.kind = "field"
                                   /\ \E k \in BoundTo(code, N.val) : TypeAt(k) # N.type>>,
        <<"no type", atCall /\ N.type = NoType>>,
        <<"not over time", /\ atCall /\ N.type # NoType
                           /\ Treatment(Top.node) = "vector" /\ N.op \notin Vectorisable>>,
        <<"an argument it cannot take", Wants /\ Got # 0 /\ ~Acceptable(Got)>>,
        <<"operands it cannot take", /\ Has /\ Treatment(Top.node) = "scalar"
                                     /\ (MixesCode(Top.got) \/ ~CanTake(Agreed.code, Agreed.args))>>,
        <<"a root varies", AtRoot /\ memo[Root] # 0 /\ IsVec(memo[Root])>>}
  IN {complaint[1] : complaint \in {m \in made : m[2]}}

Refused == \E complaint \in Complaints : Reject(complaint)

LoweringStep ==
  \/ StartInclude \/ StartRoots
  \/ LowerTerm \/ AddGate \/ AddAbsolute \/ AddOffset \/ EndInclude
  \/ BindExposure \/ LowerTime \/ LowerLit \/ LowerField \/ LowerParam
  \/ Descend \/ Take \/ Finalise \/ LowerVectorCall \/ PassOn \/ LowerScalarCall
  \/ LowerRoot \/ AddOutput \/ EndRoots
  \/ Refused

-----------------------------------------------------------------------------
(* The block as the passes over blocks see it.                              *)

Plain(i) ==
  [op     |-> CASE i.op = "integrate" -> "integrate"
                [] i.op = "died_value" -> "diedValue"
                [] OTHER -> "aligned",
   result |-> i.result,
   args   |-> i.args]

BlockOf(c) ==
  [vectors  |-> {k \in DOMAIN c.operands : c.operands[k].vector},
   loaded   |-> {k \in DOMAIN c.operands : c.operands[k].from # "temp"},
   prologue |-> [k \in DOMAIN c.prologue |-> Plain(c.prologue[k])],
   body     |-> [k \in DOMAIN c.body |-> Plain(c.body[k])],
   outputs  |-> {c.outputs[k] : k \in DOMAIN c.outputs},
   grid     |-> IF c.grid.bound THEN {c.grid.start, c.grid.end, c.grid.died} ELSE {},
   included |-> c.grid.included]

-----------------------------------------------------------------------------
(* What lowering is handed, and what it promises the passes over blocks.    *)

\* Every argument is a node, calls have the arguments their operation takes, and
\* a node that does not vary reads none that does, unless it collapses it.
Lowerable ==
  /\ \A id \in DOMAIN tree.nodes :
       LET n == tree.nodes[id] IN
       /\ n.args \in Seq(DOMAIN tree.nodes)
       /\ IsCall(n) => Len(n.args) = Arity(n.op)
       /\ id \notin tags /\ n.op \notin Finalisers =>
            \A k \in DOMAIN n.args : n.args[k] \notin tags
  /\ tree.roots \in Seq(DOMAIN tree.nodes)
  /\ Len(include.terms) \in Nat
  /\ \A k \in 1 .. Len(include.terms) : include.terms[k].node \in DOMAIN tree.nodes

LoweringInit ==
  /\ Lowerable
  /\ stage = "start" /\ why = "" /\ code = NoCode
  /\ memo = [id \in DOMAIN tree.nodes |-> 0]
  /\ stack = <<>> /\ place = 0 /\ clip = NoClip

\* Lowering by itself, of any tree.
LoweringSpec == LoweringInit /\ [][LoweringStep]_loweringVars

\* What the passes over blocks take on trust, ScalarsInOrder, or would refuse.
Runnable(b) ==
  /\ ScalarsInOrder(b)
  /\ GridReads(b) \subseteq ScalarsBefore(b, 1)
  /\ \A k \in DOMAIN b.prologue :
       b.vectors \intersect ({b.prologue[k].result} \union ReadBy(b.prologue[k])) = {}
  /\ b.vectors \intersect (b.outputs \union b.loaded) = {}
  /\ \A k \in DOMAIN b.body :
       /\ b.vectors \intersect ReadBy(b.body[k]) \subseteq {b.body[j].result : j \in 1 .. k - 1}
       /\ \A j \in DOMAIN b.body : b.body[j].result = b.body[k].result => j = k

\* Whatever is lowered, nothing is read before it is written: the prologue stands
\* on the columns alone, the grid on the prologue, and the body on both
\* (passLowerToBlock.hpp:402).  What it is handed is what the tree passes leave.
BlocksAreRunnable ==
  /\ stage = "start" => Lowerable
  /\ stage = "lowered" => Runnable(BlockOf(code))
=============================================================================
