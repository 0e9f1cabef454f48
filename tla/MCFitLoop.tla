------------------------------ MODULE MCFitLoop ------------------------------
EXTENDS FitLoop

\* The gain asked of a trial shrinks with the step.
MCArmijo == [h \in Halvings |-> IF h = 0 THEN 2 ELSE 1]
=============================================================================
