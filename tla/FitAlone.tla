------------------------------ MODULE FitAlone ------------------------------
(***************************************************************************)
(* What one fit does when nothing else is in the call: it walks at its own   *)
(* coefficients, takes the totals, and goes on until it is finished.  runFit *)
(* is runFits with a single job, so this is also what each fit of a larger   *)
(* call is promised (src/src/veil/FitLoop.hpp, the comment on runFits).      *)
(***************************************************************************)
EXTENDS FitStepper

CONSTANT Self     \* the job number, which names the place of a walk

VARIABLE stepper

Init == stepper = NewStepper(<<1, Start>>)

TakeWalk ==
  /\ ~Finished(stepper)
  /\ \E found \in Findings :
       stepper' = Receive(stepper, Totals(<<Self, NextWalkAt(stepper)>>, found))

BeInterrupted ==
  /\ ~Finished(stepper)
  /\ stepper' = Interrupt(stepper)

Next == TakeWalk \/ BeInterrupted

Spec == Init /\ [][Next]_stepper
=============================================================================
