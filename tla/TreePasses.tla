----------------------------- MODULE TreePasses -----------------------------
(***************************************************************************)
(* The passes over a tree, in the order runTreePipeline runs them            *)
(* (src/src/veil_for_R.cpp): what each makes of the nodes it is given.        *)
(*                                                                         *)
(* A pass that appends while it walks is a fold over the places it found;    *)
(* one that edits each node by itself is a function of the nodes.            *)
(***************************************************************************)
EXTENDS Tree, Loops, SequencesExt

CONSTANTS
  ColumnTypes,  \* the type of each column
  Levels        \* StringMapping: the code of each text a category column holds

-----------------------------------------------------------------------------
(* Walking a tree.                                                          *)

Ids(nodes) == [id \in DOMAIN nodes |-> id]
Build(nodes, n) == Append(nodes, n)

\* A node waits on the stack to be looked at, or for its arguments to be.
Frame(id, childrenScheduled) == [id |-> id, childrenScheduled |-> childrenScheduled]
FramesOf(ids) == [k \in DOMAIN ids |-> Frame(ids[k], FALSE)]

\* One turn of the walk: the frame on top is dropped if its node is settled (the
\* code leaves out settled arguments when it puts the others on, too), is put back
\* under those of its arguments, or settles its node.
Turn(nodes, walk) ==
  LET frame == walk.stack[Len(walk.stack)]
      below == SubSeq(walk.stack, 1, Len(walk.stack) - 1)
      args == nodes[frame.id].args
  IN IF walk.stack = <<>> THEN walk
     ELSE IF frame.id \in Range(walk.settled) THEN [walk EXCEPT !.stack = below]
     ELSE IF ~frame.childrenScheduled /\ IsCall(nodes[frame.id])
     THEN [walk EXCEPT !.stack = below \o <<Frame(frame.id, TRUE)>> \o FramesOf(args)]
     ELSE [stack |-> below, settled |-> Append(walk.settled, frame.id)]

\* The passes that need every node after its arguments, which may have been built
\* after it, all walk alike: the stack holds all nodes, and the last is taken
\* first.  A node is put on it once by itself, once to wait and once by each of
\* its parents, which is at most three times for each argument.
ChildrenFirst(nodes) ==
  Loop(LAMBDA walk, turn : Turn(nodes, walk),
       [stack |-> FramesOf(Ids(nodes)), settled |-> <<>>],
       [turn \in 1 .. 5 * Len(nodes) |-> turn]).settled

TypesOf(nodes, ids) == [k \in DOMAIN ids |-> nodes[ids[k]].type]

-----------------------------------------------------------------------------
(* passAnnotateTypes.                                                       *)

IllTyped == "ill-typed"
DoubleFamily == {"double", "bool"}
Numeric == DoubleFamily \union ClickTypes
Textual == {"text", "category"}

Comparable(a, b) ==
  \/ a = b
  \/ a = "double" /\ b \in Numeric
  \/ b = "double" /\ a \in Numeric
  \/ {a, b} \subseteq Textual

ClickResult(op, a) ==
  CASE op = "pos" -> a[1]
    [] op \in {"neg", "abs"} /\ a[1] = "durationy" -> "durationy"
    [] op = "add" /\ a = <<"durationy", "durationy">> -> "durationy"
    [] op = "add" /\ a[1] # a[2] -> "datey"
    [] op = "sub" /\ a[1] = a[2] -> "durationy"
    [] op = "sub" /\ a = <<"datey", "durationy">> -> "datey"
    [] op \in {"min", "max", "clamp"} /\ Range(a) = {a[1]} -> a[1]
    [] OTHER -> IllTyped

BranchType(x, y) ==
  IF "text" \in {x, y} THEN IllTyped
  ELSE IF x = y THEN x
  ELSE IF {x, y} \subseteq DoubleFamily \/ ("double" \in {x, y} /\ {x, y} \subseteq Numeric)
  THEN "double" ELSE IllTyped

\* The type of a call from those of its arguments.
ResultType(op, a) ==
  IF {NoType, IllTyped} \intersect Range(a) # {} THEN IllTyped
  ELSE IF op \in Logicals THEN (IF Range(a) = {"bool"} THEN "bool" ELSE IllTyped)
  ELSE IF op = "is_na" THEN (IF a[1] \in {"double"} \union ClickTypes THEN "bool" ELSE IllTyped)
  ELSE IF op \in Comparisons
  THEN (IF Comparable(a[1], a[2]) /\ (op \in Ordering => Range(a) \intersect Textual = {})
        THEN "bool" ELSE IllTyped)
  ELSE IF op = "select" THEN (IF a[1] = "bool" THEN BranchType(a[2], a[3]) ELSE IllTyped)
  ELSE IF ~(Range(a) \subseteq Numeric) THEN IllTyped
  ELSE IF op \in AlwaysDouble \/ Range(a) \intersect DoubleFamily # {} THEN "double"
  ELSE ClickResult(op, a)

TypeOf(nodes, id) ==
  LET n == nodes[id]
      a == TypesOf(nodes, n.args)
  IN CASE n.kind = "time" -> "datey"
       [] n.kind = "field" -> ColumnTypes[n.val]
       [] n.kind = "obj" -> NoType
       [] Calls(n, "vector_log_mu") ->
            IF nodes[n.args[1]].kind = "obj" /\ a[2] = "datey" THEN "double" ELSE IllTyped
       [] OTHER -> ResultType(n.op, a)

Typed(nodes, id) ==
  IF nodes[id].type = NoType THEN [nodes EXCEPT ![id].type = TypeOf(nodes, id)] ELSE nodes

AnnotateTypes(nodes) == Loop(Typed, nodes, Ids(nodes))

WellTyped(nodes) == \A id \in DOMAIN nodes : nodes[id].type # IllTyped

-----------------------------------------------------------------------------
(* passEncodeText: a text literal becomes the code of its level.            *)

\* The comparison id tests a category against the text literal.
TestsText(nodes, id, literal) ==
  /\ nodes[id].op \in {"EQ", "NE"}
  /\ IsLit(nodes[literal]) /\ nodes[literal].type = "text"
  /\ \E k \in 1 .. 2 :
       nodes[id].args[k] = literal /\ nodes[nodes[id].args[3 - k]].type = "category"

\* A text no column holds has no code: it settles its comparison and is left.
IsStranded(nodes, literal) == nodes[literal].val \notin DOMAIN Levels

EncodeText(nodes) ==
  [id \in DOMAIN nodes |->
     IF \E a \in Range(nodes[id].args) : TestsText(nodes, id, a) /\ IsStranded(nodes, a)
     THEN Lit("bool", Truth(nodes[id].op = "NE"))
     ELSE IF \E test \in DOMAIN nodes : TestsText(nodes, test, id) /\ ~IsStranded(nodes, id)
     THEN Lit("category", Levels[nodes[id].val])
     ELSE nodes[id]]

\* Text that was not compared with a category.
LeavesText(nodes) ==
  \E id \in DOMAIN nodes :
    nodes[id].type = "text" /\ \A test \in DOMAIN nodes : ~TestsText(nodes, test, id)

-----------------------------------------------------------------------------
(* passInsertCoercions and passTagTimeVarying.                              *)

\* Mistake: the branches of a select are left as they are.
WantsNumberInArithmetic(nodes, id, k) ==
  /\ nodes[id].type = "double" /\ nodes[id].op \in Arithmetic
  /\ nodes[nodes[id].args[k]].type \notin {"double", NoType}

\* An argument that is read as a number and is none.
WantsNumber(nodes, id, k) ==
  /\ nodes[id].type = "double"
  /\ (nodes[id].op \in Arithmetic \/ (nodes[id].op = "select" /\ k # 1))
  /\ nodes[nodes[id].args[k]].type \notin {"double", NoType}

Coerce(nodes, id, k) ==
  IF WantsNumber(nodes, id, k)
  THEN Build([nodes EXCEPT ![id].args[k] = Len(nodes) + 1],
             TypedCall("double", <<nodes[id].args[k]>>, "double"))
  ELSE nodes

InsertCoercions(nodes) ==
  Loop(LAMBDA ns, id : Loop(LAMBDA ms, k : Coerce(ms, id, k), ns, Ids(ns[id].args)),
           nodes, Ids(nodes))

Varies(n, tags) ==
  \/ n.kind = "time"
  \/ n.op \in AlwaysVector
  \/ n.op \notin Finalisers /\ Range(n.args) \intersect tags # {}

TagTimeVarying(nodes) ==
  Loop(LAMBDA tags, id : IF Varies(nodes[id], tags) THEN tags \union {id} ELSE tags,
           {}, ChildrenFirst(nodes))

\* passCheckTimeInvariance.
ChoosesOverTime(nodes, tags) ==
  \E id \in DOMAIN nodes : Calls(nodes[id], "select") /\ nodes[id].args[1] \in tags

-----------------------------------------------------------------------------
(* scanColumn, and what passFoldConstants makes of it.                      *)

Scan(type, values) ==
  LET present == IF type \in ClickTypes \union {"double"}
                 THEN {v \in values : IsMissing(type, v) = 0} ELSE values
  IN [hasNAs    |-> present # values,
      hasValues |-> present # {},
      min       |-> IF present = {} THEN Inf ELSE Min(present),
      max       |-> IF present = {} THEN -Inf ELSE Max(present),
      whole     |-> \A v \in present : ~Infinite(v) /\ v % One = 0]

Settled(s) == s.hasValues /\ ~s.hasNAs /\ s.min = s.max

\* A column that holds one value becomes that value.
FoldField(n, scans) ==
  IF n.kind = "field" /\ Settled(scans[n.val]) THEN Lit(n.type, scans[n.val].min) ELSE n

\* What is_na answers of a literal or a column: 0 or 1, or nothing.
IsNaAnswer(n, scans) ==
  CASE IsLit(n) -> {Truth(n.val = NaN)}
    [] n.kind = "field" /\ ~scans[n.val].hasNAs -> {0}
    [] n.kind = "field" /\ scans[n.val].hasNAs /\ ~scans[n.val].hasValues -> {1}
    [] OTHER -> {}

FoldConstants(nodes, scans) ==
  [id \in DOMAIN nodes |->
     LET n == nodes[id]
         answer == IF Calls(n, "is_na")
                   THEN IsNaAnswer(FoldField(nodes[n.args[1]], scans), scans) ELSE {}
     IN IF answer # {} THEN Lit("bool", CHOOSE v \in answer : TRUE) ELSE FoldField(n, scans)]

-----------------------------------------------------------------------------
(* passNarrowComparisons: clicks against a whole number of clicks written as *)
(* years are compared as clicks, and never strictly.                        *)

IsWholeClicks(years) == ~Infinite(years) /\ (years * ClicksPerYear) % One = 0

Threshold(op, clicks) ==
  CASE op = "LT" -> clicks - 1 [] op = "GT" -> clicks + 1 [] OTHER -> clicks
NotStrict(op) == CASE op = "LT" -> "LE" [] op = "GT" -> "GE" [] OTHER -> op

\* The argument, if any, that is a number written against clicks.
NarrowedPlace(nodes, id) ==
  {k \in DOMAIN nodes[id].args :
     LET value == nodes[nodes[id].args[k]] IN
     /\ nodes[id].op \in Comparisons
     /\ nodes[nodes[id].args[3 - k]].type \in ClickTypes
     /\ IsLit(value) /\ value.type = "double" /\ value.val # NaN /\ IsWholeClicks(value.val)}

NarrowOne(nodes, id) ==
  IF NarrowedPlace(nodes, id) = {} THEN nodes
  ELSE LET k == CHOOSE p \in NarrowedPlace(nodes, id) : TRUE
           facing(op) == IF k = 2 THEN op ELSE ReverseComparison(op)
           op == facing(nodes[id].op)
           clicks == (nodes[nodes[id].args[k]].val * ClicksPerYear) \div One
           type == nodes[nodes[id].args[3 - k]].type
       IN Build([nodes EXCEPT ![id].args[k] = Len(nodes) + 1, ![id].op = facing(NotStrict(op))],
                Lit(type, Threshold(op, clicks)))

NarrowComparisons(nodes) == Loop(NarrowOne, nodes, Ids(nodes))

-----------------------------------------------------------------------------
(* passPropagateIntervals: where the values of each node lie, in the units   *)
(* of its type.                                                             *)

Unknown == [lo |-> -Inf, hi |-> Inf]
Point(x) == [lo |-> x, hi |-> x]
OneOrZero == [lo |-> 0, hi |-> 1]

Sanitised(lo, hi) ==
  IF lo = NaN \/ hi = NaN THEN Unknown ELSE IF lo > hi THEN Unknown ELSE [lo |-> lo, hi |-> hi]

IsTrue(op, x, y) == Compare(op, x, y) = 1

\* std::min and std::max, which keep the first of two they cannot compare.
Smaller(x, y) == IF IsTrue("LT", y, x) THEN y ELSE x
Larger(x, y) == IF IsTrue("LT", x, y) THEN y ELSE x

Negated(x) == Sanitised(Negative(x.hi), Negative(x.lo))

Absolute(x) ==
  IF IsTrue("GE", x.lo, 0) THEN x
  ELSE IF IsTrue("LE", x.hi, 0) THEN Negated(x)
  ELSE Sanitised(0, Larger(Negative(x.lo), x.hi))

\* What four combinations of the ends span.
Spanned(corners) ==
  IF NaN \in corners THEN Unknown ELSE Sanitised(Min(corners), Max(corners))

Multiplied(a, b) ==
  Spanned({Times(a.lo, b.lo), Times(a.lo, b.hi), Times(a.hi, b.lo), Times(a.hi, b.hi)})

\* Mistake: a divisor that may be zero is divided by.
DividedByAnything(a, b) ==
  Spanned({Over(a.lo, b.lo), Over(a.lo, b.hi), Over(a.hi, b.lo), Over(a.hi, b.hi)})

Divided(a, b) ==
  IF IsTrue("GT", b.lo, 0) \/ IsTrue("LT", b.hi, 0)
  THEN Spanned({Over(a.lo, b.lo), Over(a.lo, b.hi), Over(a.hi, b.lo), Over(a.hi, b.hi)})
  ELSE Unknown

\* The sign of a bound that is no number is zero.
SignOfBound(x) == One * (Compare("GT", x, 0) - Compare("LT", x, 0))

\* In years, or as it is for a logical.
Rescaled(type, bound) == IF Infinite(bound) THEN bound ELSE AsNumber(type, bound)

Converted(type, x) ==
  CASE type \in ClickTypes -> Sanitised(Rescaled(type, x.lo), Rescaled(type, x.hi))
    [] type = "bool" -> [lo |-> Rescaled(type, x.lo), hi |-> Rescaled(type, x.hi)]
    [] OTHER -> Unknown

\* The interval of a call, from those of its arguments.
CallInterval(op, x, type) ==
  CASE op = "pos"    -> x[1]
    [] op = "neg"    -> Negated(x[1])
    [] op = "abs"    -> Absolute(x[1])
    [] op = "add"    -> Sanitised(Plus(x[1].lo, x[2].lo), Plus(x[1].hi, x[2].hi))
    [] op = "sub"    -> Sanitised(Minus(x[1].lo, x[2].hi), Minus(x[1].hi, x[2].lo))
    [] op = "mul"    -> Multiplied(x[1], x[2])
    [] op = "rdiv"   -> Divided(x[1], x[2])
    [] op = "min"    -> Sanitised(Smaller(x[1].lo, x[2].lo), Smaller(x[1].hi, x[2].hi))
    [] op = "max"    -> Sanitised(Larger(x[1].lo, x[2].lo), Larger(x[1].hi, x[2].hi))
    [] op = "clamp"  -> Sanitised(x[2].lo, x[3].hi)
    [] op = "select" -> Sanitised(Smaller(x[2].lo, x[3].lo), Larger(x[2].hi, x[3].hi))
    [] op = "double" -> Converted(type, x[1])
    [] op = "exp"    -> Sanitised(Exponential(x[1].lo), Exponential(x[1].hi))
    [] op = "sign"   -> Sanitised(SignOfBound(x[1].lo), SignOfBound(x[1].hi))
    [] op \in AlwaysBool -> OneOrZero
    [] OTHER -> Unknown

ColumnInterval(s) ==
  IF s.hasNAs \/ ~s.hasValues THEN Unknown ELSE Sanitised(s.min, s.max)

NodeInterval(nodes, id, scans, time, found) ==
  LET n == nodes[id] IN
  CASE IsLit(n) -> IF n.type = "text" THEN Unknown ELSE Point(n.val)
    [] n.kind = "field" -> ColumnInterval(scans[n.val])
    [] n.kind = "time" -> time
    [] IsCall(n) ->
         CallInterval(n.op, [k \in DOMAIN n.args |-> found[n.args[k]]],
                      IF n.op = "double" THEN nodes[n.args[1]].type ELSE NoType)
    [] OTHER -> Unknown

PropagateIntervals(nodes, scans, time) ==
  Loop(LAMBDA found, id : [found EXCEPT ![id] = NodeInterval(nodes, id, scans, time, found)],
           [id \in DOMAIN nodes |-> Unknown], ChildrenFirst(nodes))

\* exposureTimeInterval.
ExposureInterval(exposure, scans) ==
  LET start == ColumnInterval(scans[exposure.start])
      end == ColumnInterval(scans[exposure.end])
  IN [lo |-> IF Infinite(start.lo) THEN FirstClick ELSE start.lo,
      hi |-> IF Infinite(end.hi) THEN LastClick ELSE end.hi]

-----------------------------------------------------------------------------
(* passFoldIntervalComparisons and passCheckRelevanceRange.                 *)

\* Mistake: clicks are compared with years.
UnitsAreIgnored(a, b) == TRUE

ComparableUnits(a, b) ==
  IF {a, b} \intersect (ClickTypes \union {"category"}) # {} THEN a = b
  ELSE {a, b} \subseteq DoubleFamily

\* A number and a logical are compared where they are numbers.
InUnits(type, other, x) == IF type = "bool" /\ other = "double" THEN Converted(type, x) ELSE x

Apart(a, b) == IsTrue("LT", a.hi, b.lo) \/ IsTrue("GT", a.lo, b.hi)
IsPoint(x) == x.lo = x.hi /\ x.lo # NaN /\ ~Infinite(x.lo)
SamePoint(a, b) == IsPoint(a) /\ IsPoint(b) /\ a.lo = b.lo

AlwaysHolds(op, a, b) ==
  CASE op = "LT" -> IsTrue("LT", a.hi, b.lo)
    [] op = "LE" -> IsTrue("LE", a.hi, b.lo)
    [] op = "GT" -> IsTrue("GT", a.lo, b.hi)
    [] op = "GE" -> IsTrue("GE", a.lo, b.hi)
    [] op = "EQ" -> SamePoint(a, b)
    [] op = "NE" -> Apart(a, b)

NeverHolds(op, a, b) ==
  CASE op = "LT" -> IsTrue("GE", a.lo, b.hi)
    [] op = "LE" -> IsTrue("GT", a.lo, b.hi)
    [] op = "GT" -> IsTrue("LE", a.hi, b.lo)
    [] op = "GE" -> IsTrue("LT", a.hi, b.lo)
    [] op = "EQ" -> Apart(a, b)
    [] op = "NE" -> SamePoint(a, b)

FoldComparison(nodes, n, intervals) ==
  LET type(k) == nodes[n.args[k]].type
      side(k) == InUnits(type(k), type(3 - k), intervals[n.args[k]])
  IN IF ~ComparableUnits(type(1), type(2)) THEN n
     ELSE IF AlwaysHolds(n.op, side(1), side(2)) THEN Lit("bool", 1)
     ELSE IF NeverHolds(n.op, side(1), side(2)) THEN Lit("bool", 0)
     ELSE n

FoldIntervalComparisons(nodes, intervals) ==
  [id \in DOMAIN nodes |->
     IF nodes[id].op \in Comparisons THEN FoldComparison(nodes, nodes[id], intervals)
     ELSE nodes[id]]

\* A relevance that is certain not to be one, or is no number.
BadRelevance(nodes, intervals, relevance, form) ==
  /\ relevance # 0
  /\ \/ nodes[relevance].type # "double"
     \/ IsTrue("LT", intervals[relevance].hi, 0)
     \/ form = "relevance" /\ IsTrue("GT", intervals[relevance].lo, One)
=============================================================================
