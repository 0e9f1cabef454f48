------------------------------- MODULE Loops -------------------------------
(***************************************************************************)
(* What a loop over a sequence makes of what it is given: the folds of the   *)
(* tree passes and of the interpreter.  FoldLeft of the community modules     *)
(* says the same, but nests one evaluation in another for each element, and  *)
(* a tree has more nodes than TLC has stack.                                 *)
(***************************************************************************)
EXTENDS Integers, Sequences

\* op applied along a sequence, what is known so far worked out before anything
\* is made of it.
Steps(op(_, _), base, seq) ==
  LET after[n \in 0 .. Len(seq)] ==
        IF n = 0 THEN base
        ELSE CHOOSE next \in {op(known, seq[n]) : known \in {after[n - 1]}} : TRUE
  IN after[Len(seq)]

\* The same, eight elements at a time.
Loop(op(_, _), base, seq) ==
  LET parts == (Len(seq) + 7) \div 8
      last(k) == IF k = parts THEN Len(seq) ELSE 8 * k
  IN Steps(LAMBDA known, part : Steps(op, known, part), base,
           [k \in 1 .. parts |-> SubSeq(seq, 8 * k - 7, last(k))])
=============================================================================
