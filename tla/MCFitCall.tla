------------------------------ MODULE MCFitCall ------------------------------
EXTENDS FitCall

MCArmijo == [h \in Halvings |-> 1]
MCBlockNames == 1 .. 2
=============================================================================
