------------------------------- MODULE Vectors -------------------------------
(***************************************************************************)
(* What R does with vectors, as far as the models of its code need it and    *)
(* the community modules do not have it in a form that can be proved about.  *)
(***************************************************************************)
EXTENDS Integers, Sequences

\* x[keep]: the elements at the places given, in order; of columns, their rows.
Where(x, keep) ==
  LET upTo[n \in 0 .. Len(x)] ==
        IF n = 0 THEN <<>>
        ELSE IF n \in keep THEN Append(upTo[n - 1], x[n]) ELSE upTo[n - 1]
  IN upTo[Len(x)]

\* unique(): each value where it first comes.
Unique(x) == Where(x, {n \in DOMAIN x : \A k \in 1 .. n - 1 : x[k] # x[n]})

\* sum().
Total(amounts) ==
  LET upTo[n \in 0 .. Len(amounts)] == IF n = 0 THEN 0 ELSE upTo[n - 1] + amounts[n]
  IN upTo[Len(amounts)]
=============================================================================
