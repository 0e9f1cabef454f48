----------------------------- MODULE FitStepper -----------------------------
(***************************************************************************)
(* One fit's way through the Newton-Raphson loop, class FitStepper of       *)
(* src/src/veil/FitLoop.hpp, as operators on a record: each method is the   *)
(* record it leaves.                                                        *)
(*                                                                         *)
(* Coefficients are abstracted to POINTS.  The start is <<0, 0>>, and the   *)
(* trial of iteration k after h halvings is <<k, h>>: beta, the step and    *)
(* the length 2^-h are determined by it.  A walk of the data at a point     *)
(* finds an objective (a level, or not finite) and moments, of which the    *)
(* loop tells apart only whether they are finite, factorise, and leave a    *)
(* gain above the tolerance.                                                *)
(***************************************************************************)
EXTENDS Naturals

CONSTANTS
  MaxIterations,   \* control.maxIterations
  MaxHalvings,     \* control.maxHalvings
  Levels,          \* bound: the objective values told apart
  Armijo,          \* armijo * length * decrement after h halvings
  NoPoint          \* where a number not yet computed was computed

Iterations == 1 .. MaxIterations
Halvings == 0 .. MaxHalvings
Start == <<0, 0>>
Points == {Start} \union (Iterations \X Halvings)

\* The binding refuses max_iterations < 1, tolerance <= 0 and armijo outside
\* (0, 1/2), so the gain a trial has to show is never zero.
ASSUME FitAssumption ==
  /\ MaxIterations \in Nat \ {0}
  /\ MaxHalvings \in Nat
  /\ Levels \subseteq Nat
  /\ Armijo \in [Halvings -> Nat \ {0}]
  /\ NoPoint \notin Points

Moments == {"notFinite", "singular", "flat", "steep"}

\* What a walk finds, apart from where it was made.
Findings == [finite : {TRUE}, objective : Levels, moments : Moments]
            \union [finite : {FALSE}, objective : {0}, moments : Moments]

Totals(at, found) ==
  [at |-> at, finite |-> found.finite, objective |-> found.objective,
   moments |-> found.moments]

Statuses ==
  {"Converged", "NotIdentifiable", "NotFinite", "DidNotConverge",
   "StepCollapsed", "Interrupted"}

\* A stepper as constructed, about to walk at its starting point.  `damped`
\* is history: whether any step was ever halved.
NewStepper(at) ==
  [phase |-> "FirstWalk", status |-> "DidNotConverge",
   beta |-> Start, trialBeta |-> Start,
   current |-> Totals(at, [finite |-> FALSE, objective |-> 0, moments |-> "flat"]),
   iterations |-> 0, evaluations |-> 0, halving |-> 0,
   likelihoodAt |-> NoPoint, gainAt |-> NoPoint, varianceAt |-> NoPoint,
   damped |-> FALSE]

Finished(s) == s.phase = "Finished"

Finish(s, how) == [s EXCEPT !.status = how, !.phase = "Finished"]

\* The coefficients the next walk is made at.
NextWalkAt(s) == IF s.phase = "FirstWalk" THEN s.beta ELSE s.trialBeta

SetTrial(s) ==
  [s EXCEPT !.trialBeta = <<s.iterations, s.halving>>, !.phase = "TrialWalk"]

\* The top of one iteration, or the end of the budget.
StartIteration(s) ==
  LET where == s.beta
      seen  == [s EXCEPT !.likelihoodAt = where]
      asked == [seen EXCEPT !.gainAt = where]
  IN CASE s.iterations > MaxIterations ->
            Finish([seen EXCEPT !.iterations = MaxIterations], "DidNotConverge")
       [] s.iterations <= MaxIterations
          /\ (~s.current.finite \/ s.current.moments = "notFinite") ->
            Finish(seen, "NotFinite")
       [] s.iterations <= MaxIterations
          /\ s.current.finite /\ s.current.moments = "singular" ->
            Finish(seen, "NotIdentifiable")
       [] s.iterations <= MaxIterations
          /\ s.current.finite /\ s.current.moments = "flat" ->
            Finish([asked EXCEPT !.varianceAt = where], "Converged")
       [] OTHER -> SetTrial([asked EXCEPT !.halving = 0])

\* Mistake: any step that does not make things worse is accepted.
ImprovesOrEqual(s, walked) ==
  /\ walked.finite
  /\ walked.objective >= s.current.objective

\* Armijo, against the accumulation the step was computed from.
Improves(s, walked) ==
  /\ walked.finite
  /\ walked.objective >= s.current.objective + Armijo[s.halving]

FirstTotals(s, walked) ==
  StartIteration([s EXCEPT !.current = walked, !.iterations = 1])

\* Mistake: the next iteration is started before beta is moved.
AcceptLate(s, walked) ==
  LET next == StartIteration([s EXCEPT !.current = walked, !.iterations = @ + 1])
  IN [next EXCEPT !.beta = s.trialBeta]

Accept(s, walked) ==
  StartIteration([s EXCEPT !.beta = s.trialBeta, !.current = walked,
                           !.iterations = @ + 1])

Halve(s) ==
  LET halved == [s EXCEPT !.halving = @ + 1, !.damped = TRUE]
  IN IF halved.halving > MaxHalvings
     THEN Finish(halved, "StepCollapsed")
     ELSE SetTrial(halved)

\* One walk's totals in, and on until another walk is needed or it is over.
Receive(stepper, walked) ==
  LET s == [stepper EXCEPT !.evaluations = @ + 1]
  IN IF s.phase = "FirstWalk" THEN FirstTotals(s, walked)
     ELSE IF Improves(s, walked) THEN Accept(s, walked)
     ELSE Halve(s)

Interrupt(s) == Finish(s, "Interrupted")

-----------------------------------------------------------------------------
TotalsType(At) ==
  [at : At, finite : BOOLEAN, objective : Levels \union {0}, moments : Moments]

StepperType(At) ==
  [phase : {"FirstWalk", "TrialWalk", "Finished"}, status : Statuses,
   beta : Points, trialBeta : Points,
   current : TotalsType(At),
   iterations : 0 .. MaxIterations, evaluations : Nat,
   halving : 0 .. MaxHalvings + 1,
   likelihoodAt : Points \union {NoPoint}, gainAt : Points \union {NoPoint},
   varianceAt : Points \union {NoPoint}, damped : BOOLEAN]
=============================================================================
