----------------------------- MODULE FitProofs -----------------------------
(***************************************************************************)
(* Proofs about fits.  Of runFits, for any number of jobs, any budget of     *)
(* iterations and halvings, any objective and any Armijo rule: what a fit    *)
(* carries is its own, and what it reports was computed where it says.  Of   *)
(* a call of runFitSpecs, for any number of specifications: what it checks   *)
(* before a walk, what it answers, and how it fails.                        *)
(***************************************************************************)
EXTENDS FitCall, SequenceTheorems, DataInduction

\* The walks of one iteration, of the iterations before one, and of all.
PerIteration == MaxHalvings + 1
WalksBefore(n) == (n - 1) * PerIteration
MaxWalks == 1 + MaxIterations * PerIteration

-----------------------------------------------------------------------------
(* One stepper.  A walk is told apart by its place: whose coefficients, and  *)
(* which.                                                                  *)

\* Between the walks of an iteration.
TrialInv(j, s) ==
  /\ s.iterations \in Iterations /\ s.halving \in Halvings
  /\ s.trialBeta = <<s.iterations, s.halving>>
  /\ s.status = "DidNotConverge"
  /\ s.current.finite /\ s.current.at = <<j, s.beta>>
  /\ s.likelihoodAt = s.beta /\ s.gainAt = s.beta /\ s.varianceAt = NoPoint
  /\ s.evaluations <= 1 + WalksBefore(s.iterations) + s.halving
  /\ s.iterations = 1 => s.evaluations = 1 + s.halving

\* Over, with a report.
FinishedInv(j, s) ==
  /\ s.iterations > 0 => s.current.at = <<j, s.beta>> /\ s.likelihoodAt = s.beta
  /\ s.status = "Converged" => s.gainAt = s.beta /\ s.varianceAt = s.beta
  /\ s.status # "Converged" => s.varianceAt = NoPoint
  /\ s.evaluations <= MaxWalks
  /\ s.status = "StepCollapsed" /\ s.iterations = 1 => s.evaluations = 1 + PerIteration

StepperInv(j, s) ==
  /\ s \in StepperType(Places)
  /\ s.phase = "FirstWalk" => s = NewStepper(Nowhere)
  /\ s.phase = "TrialWalk" => TrialInv(j, s)
  /\ s.phase = "Finished" => FinishedInv(j, s)


\* The products, which are kept away from the records.
LEMMA WalksOfIterations ==
  /\ PerIteration \in Nat /\ PerIteration >= 1 /\ MaxWalks \in Nat
  /\ WalksBefore(1) = 0
  /\ \A n \in Nat \ {0} : /\ WalksBefore(n) \in Nat
                          /\ WalksBefore(n + 1) = WalksBefore(n) + PerIteration
  /\ \A n \in 1 .. MaxIterations : WalksBefore(n) + PerIteration + 1 <= MaxWalks
  /\ 1 + WalksBefore(MaxIterations + 1) = MaxWalks
<1>1. PerIteration \in Nat /\ PerIteration >= 1 /\ MaxIterations \in Nat
  BY FitAssumption DEF PerIteration
<1>. HIDE DEF PerIteration
<1>2. \A a, b, c \in Nat : a * c \in Nat /\ (a <= b => a * c <= b * c)
  OBVIOUS
<1>3. MaxWalks \in Nat /\ WalksBefore(1) = 0 /\ 1 + WalksBefore(MaxIterations + 1) = MaxWalks
  BY <1>1, <1>2 DEF MaxWalks, WalksBefore
<1>4. ASSUME NEW n \in Nat \ {0}
      PROVE  /\ WalksBefore(n) \in Nat
             /\ WalksBefore(n) + PerIteration = n * PerIteration
             /\ WalksBefore(n + 1) = n * PerIteration
  <2>1. n - 1 \in Nat
    OBVIOUS
  <2>. QED
    BY <2>1, <1>1, <1>2 DEF WalksBefore
<1>5. ASSUME NEW n \in 1 .. MaxIterations
      PROVE  WalksBefore(n) + PerIteration + 1 <= MaxWalks
  <2>1. n \in Nat \ {0} /\ n <= MaxIterations
    BY <1>1
  <2>. QED
    BY <2>1, <1>1, <1>2, <1>4 DEF MaxWalks
<1>. QED
  BY <1>1, <1>3, <1>4, <1>5

LEMMA PointsArePairs ==
  /\ Start \in Points
  /\ \A k \in Iterations, h \in Halvings : <<k, h>> \in Points
  /\ NoPoint \notin Points
BY FitAssumption DEF Points

\* What a stepper is left as when it gives up at the start of an iteration.
GivesUp(t, n, how) ==
  [t EXCEPT !.iterations = n, !.likelihoodAt = t.beta, !.status = how, !.phase = "Finished"]

LEMMA GivingUp ==
  ASSUME NEW j, NEW t \in StepperType(Places), NEW n \in 1 .. MaxIterations,
         NEW how \in {"NotFinite", "NotIdentifiable", "DidNotConverge"},
         t.varianceAt = NoPoint, t.current.at = <<j, t.beta>>,
         t.evaluations <= MaxWalks
  PROVE  /\ StepperInv(j, GivesUp(t, n, how))
         /\ GivesUp(t, n, how).status # "Interrupted"
         /\ GivesUp(t, n, how).beta = t.beta
         /\ GivesUp(t, n, how).current = t.current
<1>. DEFINE r == GivesUp(t, n, how)
<1>1. n \in 0 .. MaxIterations
  BY FitAssumption
<1>2. r \in StepperType(Places)
  BY <1>1 DEF StepperType, GivesUp, Statuses
<1>. QED
  BY <1>2 DEF StepperType, StepperInv, FinishedInv, GivesUp

\* Only a walk moves a stepper on from where an iteration starts.
LEMMA StartingAnIteration ==
  ASSUME NEW j, NEW t \in StepperType(Places), NEW n \in 1 .. MaxIterations + 1,
         t.status = "DidNotConverge", t.varianceAt = NoPoint,
         t.current.at = <<j, t.beta>>,
         t.evaluations <= 1 + WalksBefore(n),
         n = 1 => t.evaluations = 1
  PROVE  LET r == StartIteration([t EXCEPT !.iterations = n])
         IN /\ StepperInv(j, r) /\ r.status # "Interrupted"
            /\ r.beta = t.beta /\ r.current = t.current
<1>. DEFINE r == StartIteration([t EXCEPT !.iterations = n])
            b == t.beta
<1>1. MaxIterations \in Nat \ {0} /\ n \in Nat /\ n >= 1 /\ n <= MaxIterations + 1
  BY FitAssumption
<1>2. b \in Points /\ t.gainAt \in Points \union {NoPoint} /\ t.evaluations \in Nat
      /\ t.halving \in 0 .. MaxHalvings + 1
  BY DEF StepperType
<1>3. CASE n > MaxIterations
  <2>1. r = GivesUp(t, MaxIterations, "DidNotConverge")
    <3>. DEFINE s == [t EXCEPT !.iterations = n]
    <3>1. s.beta = b /\ s.iterations = n
      BY DEF StepperType
    <3>2. ~(n <= MaxIterations)
      BY <1>1, <1>3
    <3>3. r = Finish([[s EXCEPT !.likelihoodAt = b] EXCEPT !.iterations = MaxIterations],
                     "DidNotConverge")
      BY <1>3, <3>1, <3>2 DEF StartIteration
    <3>. HIDE DEF r
    <3>. QED
      BY <3>3 DEF Finish, StepperType, GivesUp
  <2>2. n = MaxIterations + 1
    BY <1>1, <1>3
  <2>3. t.evaluations <= MaxWalks
    BY <1>1, <1>3, <2>2, WalksOfIterations
  <2>4. MaxIterations \in 1 .. MaxIterations
    BY <1>1
  <2>. QED
    BY <2>1, <2>3, <2>4, GivingUp
<1>4. CASE n <= MaxIterations
  <2>1. WalksBefore(n) \in Nat
    BY <1>1, WalksOfIterations
  <2>2. t.evaluations <= MaxWalks
    <3>1. n \in 1 .. MaxIterations
      BY <1>1, <1>4
    <3>. QED
      BY <3>1, <1>2, <2>1, WalksOfIterations
  <2>3. n \in 1 .. MaxIterations
    BY <1>1, <1>4
  <2>4. CASE ~t.current.finite \/ t.current.moments = "notFinite"
    <3>1. r = GivesUp(t, n, "NotFinite")
      BY <1>1, <1>4, <2>4 DEF StartIteration, Finish, StepperType, GivesUp
    <3>. QED
      BY <3>1, <2>2, <2>3, GivingUp
  <2>5. CASE t.current.finite /\ t.current.moments = "singular"
    <3>1. r = GivesUp(t, n, "NotIdentifiable")
      BY <1>1, <1>4, <2>5 DEF StartIteration, Finish, StepperType, GivesUp
    <3>. QED
      BY <3>1, <2>2, <2>3, GivingUp
  <2>6. CASE t.current.finite /\ t.current.moments = "flat"
    <3>1. r = [t EXCEPT !.iterations = n, !.likelihoodAt = b, !.gainAt = b,
                        !.varianceAt = b, !.status = "Converged", !.phase = "Finished"]
      BY <1>1, <1>4, <2>6 DEF StartIteration, Finish, StepperType
    <3>. HIDE DEF r
    <3>2. n \in 0 .. MaxIterations
      BY <1>1, <1>4
    <3>3. r \in StepperType(Places)
      BY <1>2, <3>1, <3>2 DEF StepperType, Statuses
    <3>4. StepperInv(j, r) /\ r.status = "Converged" /\ r.beta = t.beta /\ r.current = t.current
      BY <2>2, <3>1, <3>3 DEF StepperType, StepperInv, FinishedInv
    <3>. QED
      BY <3>4 DEF r
  <2>7. CASE t.current.finite /\ t.current.moments \notin {"notFinite", "singular", "flat"}
    <3>1. r = [t EXCEPT !.iterations = n, !.likelihoodAt = b, !.gainAt = b, !.halving = 0,
                        !.trialBeta = <<n, 0>>, !.phase = "TrialWalk"]
      BY <1>1, <1>4, <2>7 DEF StartIteration, SetTrial, StepperType
    <3>2. n \in Iterations /\ 0 \in Halvings /\ <<n, 0>> \in Points
      BY <2>3, FitAssumption, PointsArePairs DEF Iterations, Halvings
    <3>. HIDE DEF r, b
    <3>3. r \in StepperType(Places)
      <4>1. n \in 0 .. MaxIterations /\ 0 \in 0 .. MaxHalvings + 1
        BY <1>1, <1>4, FitAssumption
      <4>. QED
        BY <3>1, <3>2, <4>1, <1>2 DEF StepperType
    <3>4. TrialInv(j, r)
      BY <3>1, <3>2, <2>7, <2>1 DEF StepperType, TrialInv, b
    <3>5. r.phase = "TrialWalk" /\ r.beta = t.beta /\ r.current = t.current
          /\ r.status # "Interrupted"
      BY <3>1 DEF StepperType
    <3>. QED
      BY <3>3, <3>4, <3>5 DEF StepperInv, r
  <2>. QED
    BY <2>4, <2>5, <2>6, <2>7
<1>. QED
  BY <1>1, <1>3, <1>4

LEMMA WalkedType ==
  ASSUME NEW place \in Places, NEW found \in Findings
  PROVE  /\ Totals(place, found) \in TotalsType(Places)
         /\ Totals(place, found).at = place
BY DEF Totals, TotalsType, Findings

\* The first iteration: every fit walks once at its start before anything else.
LEMMA ReceivingTheFirst ==
  ASSUME NEW j \in 1 .. MaxJobs, NEW s, StepperInv(j, s), s.phase = "FirstWalk",
         NEW found \in Findings
  PROVE  LET r == Receive(s, Totals(<<j, NextWalkAt(s)>>, found))
         IN StepperInv(j, r) /\ r.status # "Interrupted" /\ r.beta = s.beta
<1>. DEFINE w == Totals(<<j, NextWalkAt(s)>>, found)
            t == [s EXCEPT !.evaluations = @ + 1, !.current = w]
            r == Receive(s, w)
<1>1. s \in StepperType(Places) /\ s = NewStepper(Nowhere)
  BY DEF StepperInv
<1>2. s.beta = Start /\ s.iterations = 0 /\ s.evaluations = 0 /\ s.status = "DidNotConverge"
      /\ s.varianceAt = NoPoint /\ NextWalkAt(s) = Start
  BY <1>1 DEF NewStepper, NextWalkAt
<1>3. <<j, Start>> \in Places
  BY PointsArePairs DEF Places
<1>4. w \in TotalsType(Places)
      /\ w.at = <<j, Start>>
  BY <1>2, <1>3, WalkedType
<1>. HIDE DEF w
<1>5. t \in StepperType(Places)
  <2>1. s.evaluations + 1 \in Nat
    BY <1>2
  <2>. QED
    BY <1>1, <1>4, <2>1 DEF StepperType
<1>6. r = StartIteration([t EXCEPT !.iterations = 1])
  <2>1. r = FirstTotals([s EXCEPT !.evaluations = @ + 1], w)
    BY <1>1 DEF Receive, StepperType
  <2>2. [[s EXCEPT !.evaluations = @ + 1] EXCEPT !.current = w, !.iterations = 1]
          = [t EXCEPT !.iterations = 1]
    BY <1>1 DEF StepperType
  <2>. QED
    BY <2>1, <2>2 DEF FirstTotals
<1>7. t.status = "DidNotConverge" /\ t.varianceAt = NoPoint /\ t.current.at = <<j, t.beta>>
      /\ t.beta = s.beta /\ t.evaluations = 1
  BY <1>1, <1>2, <1>4 DEF StepperType
<1>8. 1 \in 1 .. MaxIterations + 1 /\ t.evaluations <= 1 + WalksBefore(1)
  BY <1>7, WalksOfIterations, FitAssumption
<1>. HIDE DEF t, r
<1>9. LET q == StartIteration([t EXCEPT !.iterations = 1])
      IN StepperInv(j, q) /\ q.status # "Interrupted" /\ q.beta = t.beta
  BY <1>5, <1>7, <1>8, StartingAnIteration
<1>. QED
  BY <1>6, <1>7, <1>9 DEF r, w

\* A trial: accepted, halved, or halved once too often.
LEMMA ReceivingATrial ==
  ASSUME NEW j \in 1 .. MaxJobs, NEW s, StepperInv(j, s), s.phase = "TrialWalk",
         NEW found \in Findings
  PROVE  LET r == Receive(s, Totals(<<j, NextWalkAt(s)>>, found))
         IN /\ StepperInv(j, r) /\ r.status # "Interrupted"
            /\ r.beta # s.beta => /\ r.current.finite /\ s.current.finite
                                  /\ r.current.objective > s.current.objective
<1>. DEFINE w == Totals(<<j, NextWalkAt(s)>>, found)
            c == [s EXCEPT !.evaluations = @ + 1]
            r == Receive(s, w)
            n == s.iterations
            h == s.halving
<1>1. s \in StepperType(Places) /\ TrialInv(j, s) /\ s.evaluations \in Nat
      /\ s.evaluations + 1 \in Nat
  BY DEF StepperInv, StepperType
<1>2. NextWalkAt(s) = s.trialBeta /\ s.trialBeta \in Points
  BY <1>1 DEF NextWalkAt, StepperType
<1>3. <<j, s.trialBeta>> \in Places
  BY <1>2 DEF Places
<1>4. w \in TotalsType(Places)
      /\ w.at = <<j, s.trialBeta>>
  BY <1>2, <1>3, WalkedType
<1>5. MaxIterations \in Nat \ {0} /\ n \in 1 .. MaxIterations
      /\ MaxHalvings \in Nat /\ h \in 0 .. MaxHalvings
  BY <1>1, FitAssumption DEF TrialInv, Iterations, Halvings
<1>6. c \in StepperType(Places) /\ c.evaluations = s.evaluations + 1
  BY <1>1 DEF StepperType
<1>7. n \in Nat \ {0} /\ WalksBefore(n) \in Nat
      /\ WalksBefore(n + 1) = WalksBefore(n) + PerIteration
      /\ WalksBefore(n) + PerIteration + 1 <= MaxWalks
  BY <1>5, WalksOfIterations
<1>. HIDE DEF w
<1>8. CASE Improves(c, w)
  <2>. DEFINE t == [s EXCEPT !.evaluations = @ + 1, !.beta = s.trialBeta, !.current = w]
  <2>1. t \in StepperType(Places)
    BY <1>1, <1>2, <1>4 DEF StepperType
  <2>2. r = StartIteration([t EXCEPT !.iterations = n + 1])
    <3>1. r = Accept(c, w)
      BY <1>1, <1>8 DEF Receive, StepperType
    <3>2. [c EXCEPT !.beta = c.trialBeta, !.current = w, !.iterations = @ + 1]
            = [t EXCEPT !.iterations = n + 1]
      BY <1>1 DEF StepperType
    <3>. QED
      BY <3>1, <3>2 DEF Accept
  <2>3. t.status = "DidNotConverge" /\ t.varianceAt = NoPoint
        /\ t.beta = s.trialBeta /\ t.evaluations = s.evaluations + 1
        /\ t.current = w /\ t.current.at = <<j, t.beta>>
    BY <1>1, <1>4 DEF StepperType, TrialInv
  <2>4. n + 1 \in 1 .. MaxIterations + 1 /\ n + 1 # 1
    BY <1>5
  <2>5. t.evaluations <= 1 + WalksBefore(n + 1)
    BY <1>1, <1>5, <1>7, <2>3 DEF TrialInv, PerIteration
  <2>6. w.finite /\ s.current.finite /\ w.objective > s.current.objective
    <3>1. w.finite /\ w.objective >= s.current.objective + Armijo[h]
      BY <1>1, <1>8 DEF Improves, StepperType
    <3>2. Armijo[h] \in Nat /\ Armijo[h] > 0
      BY <1>5, FitAssumption DEF Halvings
    <3>3. w.objective \in Nat /\ s.current.objective \in Nat
      <4>1. s.current \in TotalsType(Places)
        BY <1>1 DEF StepperType
      <4>2. w.objective \in Levels \union {0} /\ s.current.objective \in Levels \union {0}
        BY <1>4, <4>1 DEF TotalsType
      <4>3. \A x \in Levels \union {0} : x \in Nat
        BY FitAssumption
      <4>. QED
        BY <4>2, <4>3
    <3>. QED
      BY <3>1, <3>2, <3>3, <1>1 DEF TrialInv
  <2>. HIDE DEF t, r, n
  <2>7. LET q == StartIteration([t EXCEPT !.iterations = n + 1])
        IN StepperInv(j, q) /\ q.status # "Interrupted" /\ q.current = t.current
    BY <2>1, <2>3, <2>4, <2>5, StartingAnIteration
  <2>. QED
    BY <2>2, <2>3, <2>6, <2>7 DEF r, w
<1>9. CASE ~Improves(c, w)
  <2>. DEFINE u == [s EXCEPT !.evaluations = @ + 1, !.halving = h + 1, !.damped = TRUE]
  <2>1. r = Halve(c) /\ [c EXCEPT !.halving = @ + 1, !.damped = TRUE] = u
    BY <1>1, <1>9 DEF Receive, StepperType
  <2>2. h + 1 \in 0 .. MaxHalvings + 1 /\ h + 1 \in Nat
    BY <1>5
  <2>3. u \in StepperType(Places) /\ u.halving = h + 1 /\ u.iterations = n
    BY <1>1, <2>2 DEF StepperType
  <2>4. CASE h + 1 > MaxHalvings
    <3>1. h + 1 = PerIteration
      BY <1>5, <2>4 DEF PerIteration
    <3>2. r = Finish(u, "StepCollapsed")
      BY <2>1, <2>3, <2>4 DEF Halve
    <3>. HIDE DEF u, r
    <3>3. r = [s EXCEPT !.evaluations = @ + 1, !.halving = h + 1, !.damped = TRUE,
                        !.status = "StepCollapsed", !.phase = "Finished"]
      BY <1>1, <3>2 DEF Finish, u, StepperType
    <3>4. r \in StepperType(Places)
      BY <1>1, <2>2, <3>3 DEF StepperType, Statuses
    <3>5. r.evaluations = s.evaluations + 1 /\ r.status = "StepCollapsed"
          /\ r.iterations = n /\ r.phase = "Finished"
      BY <1>1, <3>3 DEF StepperType
    <3>6. r.beta = s.beta /\ r.current = s.current /\ r.likelihoodAt = s.likelihoodAt
          /\ r.varianceAt = s.varianceAt
      BY <1>1, <3>3 DEF StepperType
    <3>7. r.evaluations <= MaxWalks /\ (n = 1 => r.evaluations = 1 + PerIteration)
      BY <1>1, <1>5, <1>7, <3>1, <3>5, WalksOfIterations DEF TrialInv
    <3>8. StepperInv(j, r)
      BY <1>1, <3>4, <3>5, <3>6, <3>7 DEF StepperInv, FinishedInv, TrialInv
    <3>. QED
      BY <3>5, <3>6, <3>8 DEF r, w
  <2>5. CASE h + 1 <= MaxHalvings
    <3>1. r = SetTrial(u)
      BY <1>5, <2>1, <2>3, <2>5 DEF Halve
    <3>. HIDE DEF u, r
    <3>2. r = [s EXCEPT !.evaluations = @ + 1, !.halving = h + 1, !.damped = TRUE,
                        !.trialBeta = <<n, h + 1>>, !.phase = "TrialWalk"]
      BY <1>1, <3>1 DEF SetTrial, u, StepperType
    <3>3. n \in Iterations /\ h + 1 \in Halvings /\ <<n, h + 1>> \in Points
      BY <1>5, <2>5, PointsArePairs DEF Iterations, Halvings
    <3>4. r \in StepperType(Places)
      BY <1>1, <2>2, <3>2, <3>3 DEF StepperType
    <3>5. r.evaluations = s.evaluations + 1 /\ r.status = s.status
          /\ r.iterations = n /\ r.phase = "TrialWalk" /\ r.halving = h + 1
          /\ r.trialBeta = <<n, h + 1>>
      BY <1>1, <3>2 DEF StepperType
    <3>6. r.beta = s.beta /\ r.current = s.current /\ r.likelihoodAt = s.likelihoodAt
          /\ r.varianceAt = s.varianceAt /\ r.gainAt = s.gainAt
      BY <1>1, <3>2 DEF StepperType
    <3>7. TrialInv(j, r)
      BY <1>1, <1>5, <1>7, <3>3, <3>5, <3>6 DEF TrialInv
    <3>8. StepperInv(j, r)
      BY <3>4, <3>5, <3>7 DEF StepperInv
    <3>. QED
      BY <1>1, <3>5, <3>6, <3>8 DEF r, w, TrialInv
  <2>. QED
    BY <1>5, <2>4, <2>5
<1>. QED
  BY <1>8, <1>9

LEMMA Interrupting ==
  ASSUME NEW j \in 1 .. MaxJobs, NEW s, StepperInv(j, s), ~Finished(s)
  PROVE  StepperInv(j, Interrupt(s)) /\ Finished(Interrupt(s))
         /\ Interrupt(s).status = "Interrupted" /\ Interrupt(s).beta = s.beta
         /\ Held(Interrupt(s)) = Held(s)
<1>. DEFINE r == [s EXCEPT !.status = "Interrupted", !.phase = "Finished"]
<1>1. s \in StepperType(Places)
  BY DEF StepperInv
<1>2. r = Interrupt(s) /\ r \in StepperType(Places)
  BY <1>1 DEF Interrupt, Finish, StepperType, Statuses
<1>3. Held(r) = Held(s)
  BY <1>1 DEF Held, StepperType
<1>4. CASE s.phase = "FirstWalk"
  <2>1. s = NewStepper(Nowhere)
    BY <1>4 DEF StepperInv
  <2>2. s.iterations = 0 /\ s.varianceAt = NoPoint /\ s.evaluations <= MaxWalks
    BY <2>1, WalksOfIterations DEF NewStepper
  <2>. QED
    <3>1. r.phase = "Finished" /\ r.status = "Interrupted" /\ r.iterations = s.iterations
          /\ r.evaluations = s.evaluations /\ r.beta = s.beta /\ r.varianceAt = s.varianceAt
      BY <1>1 DEF StepperType
    <3>. HIDE DEF r
    <3>2. FinishedInv(j, r)
      BY <2>2, <3>1 DEF FinishedInv
    <3>. QED
      BY <1>2, <1>3, <3>1, <3>2 DEF StepperInv, Finished
<1>5. CASE s.phase = "TrialWalk"
  <2>1. TrialInv(j, s) /\ s.evaluations \in Nat
    BY <1>1, <1>5 DEF StepperInv, StepperType
  <2>2. s.iterations \in 1 .. MaxIterations /\ s.halving \in 0 .. MaxHalvings
        /\ MaxHalvings \in Nat /\ MaxIterations \in Nat
    BY <2>1, FitAssumption DEF TrialInv, Iterations, Halvings
  <2>3. s.iterations \in Nat \ {0}
    BY <2>2
  <2>4. WalksBefore(s.iterations) \in Nat
        /\ WalksBefore(s.iterations) + PerIteration + 1 <= MaxWalks /\ MaxWalks \in Nat
    BY <2>2, <2>3, WalksOfIterations
  <2>5. s.evaluations <= MaxWalks
    BY <2>1, <2>2, <2>4 DEF TrialInv, PerIteration
  <2>. QED
    <3>1. r.phase = "Finished" /\ r.status = "Interrupted" /\ r.iterations = s.iterations
          /\ r.evaluations = s.evaluations /\ r.beta = s.beta /\ r.current = s.current
          /\ r.likelihoodAt = s.likelihoodAt /\ r.varianceAt = s.varianceAt
      BY <1>1 DEF StepperType
    <3>. HIDE DEF r
    <3>2. FinishedInv(j, r)
      BY <2>1, <2>5, <3>1 DEF FinishedInv, TrialInv
    <3>. QED
      BY <1>2, <1>3, <3>1, <3>2 DEF StepperInv, Finished
<1>. QED
  BY <1>1, <1>4, <1>5 DEF StepperType, Finished


-----------------------------------------------------------------------------
(* The call.                                                                *)

\* The jobs and the variables' types, those of the steppers apart.
CallTypes ==
  /\ \E n \in 0 .. MaxJobs : jobs \in [1 .. n -> JobType] /\ index \in 1 .. n + 1
  /\ stage \in {"validate", "prepare", "receive", "returned", "threw"}
  /\ parameters \in [BlockNames -> Places]
  /\ walking \in Seq(Jobs) /\ Len(walking) < index
  /\ calculations \in Seq(Places)
  /\ position \in 0 .. MaxJobs

SteppersInv ==
  /\ steppers \in [Jobs -> StepperType(Places)]
  /\ \A j \in Jobs : StepperInv(j, steppers[j])

Going == stage \in {"prepare", "receive"}

\* Each job that is walked has a block, and it is no other's.
OwnBlocks == Going => ~HasNull /\ ~Shared

\* A round walks jobs in order, all different, and leaves out only finished fits.
RoundInv ==
  /\ stage = "validate" => index = 1 /\ walking = <<>>
  /\ Going =>
       /\ \A p \in 1 .. Len(walking) : walking[p] < index
       /\ \A p, q \in 1 .. Len(walking) : p < q => walking[p] < walking[q]
  /\ stage = "prepare" =>
       \A j \in Jobs : j < index => InRound(j) \/ Finished(steppers[j])

\* Until a walk is made, the block of each fit in it carries the coefficients the
\* fit asked for: no other fit of the call writes there.
CoefficientsInv ==
  stage = "prepare" =>
    \A p \in 1 .. Len(walking) :
      /\ ~Finished(steppers[walking[p]])
      /\ parameters[jobs[walking[p]].block]
           = <<walking[p], NextWalkAt(steppers[walking[p]])>>

\* The results still to be handed out are each fit's own, where it asked for them.
ResultsInv ==
  stage = "receive" =>
    /\ Len(calculations) = Len(walking) /\ position <= Len(walking)
    /\ \A p \in 1 .. Len(walking) :
         p > position =>
           /\ ~Finished(steppers[walking[p]])
           /\ calculations[p] = <<walking[p], NextWalkAt(steppers[walking[p]])>>

\* Only the end of the loop interrupts.
InterruptInv ==
  stage # "returned" => \A j \in Jobs : steppers[j].status # "Interrupted"

FitInv ==
  /\ CallTypes
  /\ SteppersInv
  /\ OwnBlocks
  /\ RoundInv
  /\ CoefficientsInv
  /\ ResultsInv
  /\ InterruptInv
  /\ InterruptEndsEveryFit

-----------------------------------------------------------------------------
LEMMA NewStepperInv ==
  ASSUME NEW j
  PROVE  /\ NewStepper(Nowhere) \in StepperType(Places)
         /\ StepperInv(j, NewStepper(Nowhere))
         /\ NewStepper(Nowhere).status # "Interrupted"
<1>. DEFINE s == NewStepper(Nowhere)
            t == Totals(Nowhere, [finite |-> FALSE, objective |-> 0, moments |-> "flat"])
<1>1. 1 \in 1 .. MaxJobs /\ 0 \in 0 .. MaxIterations /\ 0 \in 0 .. MaxHalvings + 1
  BY JobsAssumption, FitAssumption
<1>2. Nowhere \in Places
  BY <1>1, PointsArePairs DEF Nowhere, Places
<1>3. t \in TotalsType(Places)
  BY <1>2 DEF Totals, TotalsType, Moments
<1>. HIDE DEF t
<1>4. s = [phase |-> "FirstWalk", status |-> "DidNotConverge",
           beta |-> Start, trialBeta |-> Start, current |-> t,
           iterations |-> 0, evaluations |-> 0, halving |-> 0,
           likelihoodAt |-> NoPoint, gainAt |-> NoPoint, varianceAt |-> NoPoint,
           damped |-> FALSE]
  BY DEF NewStepper, t
<1>. HIDE DEF s
<1>5. s \in StepperType(Places)
  BY <1>1, <1>3, <1>4, PointsArePairs DEF StepperType, Statuses
<1>6. s.phase = "FirstWalk" /\ s.status = "DidNotConverge"
  BY <1>4
<1>. QED
  BY <1>5, <1>6 DEF StepperInv, s

LEMMA FitStarts == FitInit => FitInv
<1>. SUFFICES ASSUME FitInit PROVE FitInv
  OBVIOUS
<1>1. PICK n \in 0 .. MaxJobs : jobs \in [1 .. n -> JobType]
  BY DEF FitInit
<1>2. n \in Nat /\ 1 \in 1 .. n + 1 /\ 0 \in 0 .. MaxJobs /\ 1 \in 1 .. MaxJobs
  BY <1>1, JobsAssumption
<1>3. Nowhere \in Places
  BY <1>2, PointsArePairs DEF Nowhere, Places
<1>4. CallTypes
  BY <1>1, <1>2, <1>3 DEF FitInit, CallTypes
<1>5. SteppersInv
  BY NewStepperInv DEF FitInit, SteppersInv
<1>6. InterruptInv
  BY NewStepperInv DEF FitInit, InterruptInv
<1>. QED
  BY <1>4, <1>5, <1>6 DEF FitInit, FitInv, OwnBlocks, Going, RoundInv, CoefficientsInv,
                          ResultsInv, InterruptEndsEveryFit

\* What the types come to.
LEMMA JobsAreNumbers ==
  ASSUME CallTypes
  PROVE  /\ \E n \in 0 .. MaxJobs : Jobs = 1 .. n /\ index \in 1 .. n + 1 /\ n \in Nat
         /\ Jobs \subseteq 1 .. MaxJobs /\ Jobs \subseteq Nat
         /\ \A j \in Jobs : jobs[j] \in JobType
         /\ index \in Nat /\ Len(walking) \in Nat /\ MaxJobs \in Nat
         /\ \A p \in 1 .. Len(walking) : walking[p] \in Jobs
<1>1. PICK n \in 0 .. MaxJobs : jobs \in [1 .. n -> JobType] /\ index \in 1 .. n + 1
  BY DEF CallTypes
<1>2. Jobs = 1 .. n /\ n \in Nat /\ MaxJobs \in Nat
  BY <1>1, JobsAssumption DEF Jobs
<1>3. walking \in Seq(Jobs)
  BY DEF CallTypes
<1>4. Jobs \subseteq 1 .. MaxJobs /\ Jobs \subseteq Nat /\ index \in Nat
  BY <1>1, <1>2
<1>5. \A j \in Jobs : jobs[j] \in JobType
  BY <1>1, <1>2
<1>6. Len(walking) \in Nat /\ \A p \in 1 .. Len(walking) : walking[p] \in Jobs
  BY <1>3
<1>. QED
  BY <1>1, <1>2, <1>4, <1>5, <1>6

\* Steps that touch no stepper and leave the round as it is.
LEMMA StoppingKeepsFitInv ==
  ASSUME FitInv, Refuse \/ WalkThrows \/ ReceiveMismatched
  PROVE  FitInv'
<1>1. stage' = "threw" /\ stage # "returned"
      /\ UNCHANGED <<jobs, steppers, index, parameters, walking, calculations, position>>
  BY DEF Refuse, WalkThrows, ReceiveMismatched, AtWalk, Prepared
<1>2. CallTypes' /\ SteppersInv'
  BY <1>1 DEF FitInv, CallTypes, SteppersInv, Jobs
<1>3. InterruptInv'
  BY <1>1 DEF FitInv, InterruptInv, Jobs
<1>. QED
  BY <1>1, <1>2, <1>3 DEF FitInv, OwnBlocks, Going, RoundInv, CoefficientsInv, ResultsInv,
                          InterruptEndsEveryFit

LEMMA BeginKeepsFitInv ==
  ASSUME FitInv, Begin
  PROVE  FitInv'
<1>1. stage = "validate" /\ stage' = "prepare" /\ ~HasNull /\ ~Shared
      /\ UNCHANGED <<jobs, steppers, index, parameters, walking, calculations, position>>
  BY DEF Begin
<1>2. CallTypes' /\ SteppersInv' /\ InterruptInv'
  BY <1>1 DEF FitInv, CallTypes, SteppersInv, InterruptInv, Jobs
<1>3. OwnBlocks'
  BY <1>1 DEF OwnBlocks, HasNull, Shared, Jobs
<1>4. index = 1 /\ walking = <<>>
  BY <1>1 DEF FitInv, RoundInv
<1>5. RoundInv'
  <2>1. \A j \in Jobs : ~(j < 1)
    BY JobsAreNumbers DEF FitInv
  <2>. QED
    BY <1>1, <1>4, <2>1 DEF RoundInv, Going, Jobs
<1>6. CoefficientsInv' /\ ResultsInv' /\ InterruptEndsEveryFit'
  BY <1>1, <1>4 DEF CoefficientsInv, ResultsInv, InterruptEndsEveryFit
<1>. QED
  BY <1>2, <1>3, <1>5, <1>6 DEF FitInv

LEMMA PassOverKeepsFitInv ==
  ASSUME FitInv, PassOver
  PROVE  FitInv'
<1>1. stage = "prepare" /\ index \in Jobs /\ Finished(steppers[index]) /\ index' = index + 1
      /\ UNCHANGED <<jobs, stage, steppers, parameters, walking, calculations, position>>
  BY DEF PassOver, Preparing, DropsOut
<1>2. CallTypes /\ RoundInv
  BY DEF FitInv
<1>3. PICK n \in 0 .. MaxJobs : jobs \in [1 .. n -> JobType] /\ index \in 1 .. n + 1
  BY <1>2 DEF CallTypes
<1>4. Jobs = 1 .. n /\ n \in Nat /\ index \in Nat /\ Len(walking) \in Nat
      /\ \A p \in 1 .. Len(walking) : walking[p] \in Nat
  <2>1. Jobs = 1 .. n
    BY <1>3 DEF Jobs
  <2>. QED
    BY <2>1, <1>2, JobsAreNumbers
<1>5. CallTypes'
  <2>1. index + 1 \in 1 .. n + 1 /\ Len(walking) < index + 1
    BY <1>1, <1>2, <1>4 DEF CallTypes
  <2>. QED
    BY <1>1, <1>2, <1>3, <2>1 DEF CallTypes, Jobs
<1>6. RoundInv'
  <2>1. \A p \in 1 .. Len(walking) : walking[p] < index + 1
    BY <1>1, <1>2, <1>4 DEF RoundInv, Going
  <2>2. \A j \in Jobs : j < index + 1 => InRound(j) \/ Finished(steppers[j])
    <3>. SUFFICES ASSUME NEW j \in Jobs, j < index + 1
                  PROVE  InRound(j) \/ Finished(steppers[j])
      OBVIOUS
    <3>1. j < index \/ j = index
      BY <1>4
    <3>. QED
      BY <1>1, <1>2, <3>1 DEF RoundInv
  <2>. QED
    BY <1>1, <1>2, <2>1, <2>2 DEF RoundInv, Going, InRound, Jobs
<1>7. SteppersInv' /\ OwnBlocks' /\ CoefficientsInv' /\ ResultsInv' /\ InterruptInv'
      /\ InterruptEndsEveryFit'
  BY <1>1 DEF FitInv, SteppersInv, OwnBlocks, Going, HasNull, Shared, CoefficientsInv,
              ResultsInv, InterruptInv, InterruptEndsEveryFit, Jobs
<1>. QED
  BY <1>5, <1>6, <1>7 DEF FitInv

LEMMA PrepareWalkKeepsFitInv ==
  ASSUME FitInv, PrepareWalk
  PROVE  FitInv'
<1>. DEFINE b == jobs[index].block
            place == <<index, NextWalkAt(steppers[index])>>
            L == Len(walking)
<1>1. stage = "prepare" /\ index \in Jobs /\ ~Finished(steppers[index]) /\ index' = index + 1
      /\ parameters' = [parameters EXCEPT ![b] = place]
      /\ walking' = Append(walking, index)
      /\ UNCHANGED <<jobs, stage, steppers, calculations, position>>
  BY DEF PrepareWalk, Preparing, DropsOut
<1>2. CallTypes /\ RoundInv /\ SteppersInv /\ OwnBlocks /\ CoefficientsInv
  BY DEF FitInv
<1>3. PICK n \in 0 .. MaxJobs : jobs \in [1 .. n -> JobType] /\ index \in 1 .. n + 1
  BY <1>2 DEF CallTypes
<1>4. Jobs = 1 .. n /\ n \in Nat /\ index \in Nat /\ L \in Nat /\ index \in 1 .. MaxJobs
      /\ \A p \in 1 .. L : walking[p] \in Nat /\ walking[p] \in Jobs
  <2>1. Jobs = 1 .. n
    BY <1>3 DEF Jobs
  <2>. QED
    BY <2>1, <1>1, <1>2, JobsAreNumbers
<1>5. b \in BlockNames
  BY <1>1, <1>2, JobsAreNumbers DEF OwnBlocks, Going, HasNull, JobType
<1>6. place \in Places
  <2>1. NextWalkAt(steppers[index]) \in Points
    BY <1>1, <1>2 DEF SteppersInv, NextWalkAt, StepperType
  <2>. QED
    BY <1>4, <2>1 DEF Places
<1>7. /\ Len(walking') = L + 1
      /\ walking'[L + 1] = index
      /\ \A p \in 1 .. L : walking'[p] = walking[p]
      /\ walking' \in Seq(Jobs)
  BY <1>1, <1>2 DEF CallTypes
<1>8. \A p \in 1 .. L + 1 : p \in 1 .. L \/ p = L + 1
  BY <1>4
<1>9. \A p \in 1 .. L : walking[p] < index /\ walking[p] # index
  BY <1>1, <1>2, <1>4 DEF RoundInv, Going
<1>10. CallTypes'
  <2>1. index + 1 \in 1 .. n + 1 /\ L + 1 < index + 1
    BY <1>1, <1>2, <1>4 DEF CallTypes
  <2>2. parameters' \in [BlockNames -> Places]
    BY <1>1, <1>2, <1>6 DEF CallTypes
  <2>. QED
    BY <1>1, <1>2, <1>3, <1>7, <2>1, <2>2 DEF CallTypes, Jobs
<1>11. RoundInv'
  <2>1. \A p \in 1 .. L + 1 : walking'[p] < index + 1
    BY <1>4, <1>7, <1>8, <1>9
  <2>2. \A p, q \in 1 .. L + 1 : p < q => walking'[p] < walking'[q]
    <3>. SUFFICES ASSUME NEW p \in 1 .. L + 1, NEW q \in 1 .. L + 1, p < q
                  PROVE  walking'[p] < walking'[q]
      OBVIOUS
    <3>1. p \in 1 .. L /\ (q \in 1 .. L \/ q = L + 1)
      BY <1>4
    <3>. QED
      BY <1>1, <1>2, <1>7, <1>9, <3>1 DEF RoundInv, Going
  <2>3. \A j \in Jobs : j < index + 1 =>
          (\E p \in 1 .. L + 1 : walking'[p] = j) \/ Finished(steppers[j])
    <3>. SUFFICES ASSUME NEW j \in Jobs, j < index + 1, ~Finished(steppers[j])
                  PROVE  \E p \in 1 .. L + 1 : walking'[p] = j
      OBVIOUS
    <3>1. CASE j = index
      BY <1>4, <1>7, <3>1
    <3>2. CASE j < index
      <4>1. PICK p \in 1 .. L : walking[p] = j
        BY <1>1, <1>2, <3>2 DEF RoundInv, InRound
      <4>2. p \in 1 .. L + 1
        BY <1>4
      <4>. QED
        BY <1>7, <4>1, <4>2
    <3>. QED
      BY <1>4, <3>1, <3>2
  <2>. QED
    BY <1>1, <1>7, <2>1, <2>2, <2>3 DEF RoundInv, Going, InRound, Jobs
<1>12. CoefficientsInv'
  <2>. SUFFICES ASSUME NEW p \in 1 .. L + 1
                PROVE  /\ ~Finished(steppers[walking'[p]])
                       /\ parameters'[jobs[walking'[p]].block]
                            = <<walking'[p], NextWalkAt(steppers[walking'[p]])>>
    BY <1>1, <1>7 DEF CoefficientsInv
  <2>1. CASE p = L + 1
    BY <1>1, <1>2, <1>5, <1>7, <2>1 DEF CallTypes
  <2>2. CASE p \in 1 .. L
    <3>1. jobs[walking[p]].block # b
      BY <1>1, <1>2, <1>4, <1>9, <2>2 DEF OwnBlocks, Going, Shared
    <3>2. parameters'[jobs[walking[p]].block] = parameters[jobs[walking[p]].block]
      BY <1>1, <1>2, <3>1 DEF CallTypes
    <3>. QED
      BY <1>1, <1>2, <1>7, <2>2, <3>2 DEF CoefficientsInv
  <2>. QED
    BY <1>8, <2>1, <2>2
<1>13. SteppersInv' /\ OwnBlocks' /\ ResultsInv' /\ InterruptInv' /\ InterruptEndsEveryFit'
  BY <1>1 DEF FitInv, SteppersInv, OwnBlocks, Going, HasNull, Shared,
              ResultsInv, InterruptInv, InterruptEndsEveryFit, Jobs
<1>. QED
  BY <1>10, <1>11, <1>12, <1>13 DEF FitInv

LEMMA ReturnKeepsFitInv ==
  ASSUME FitInv, Return
  PROVE  FitInv'
<1>1. stage = "prepare" /\ index \notin Jobs /\ walking = <<>> /\ stage' = "returned"
      /\ UNCHANGED <<jobs, steppers, index, parameters, walking, calculations, position>>
  BY DEF Return, Prepared
<1>2. CallTypes /\ RoundInv /\ InterruptInv
  BY DEF FitInv
<1>3. PICK n \in 0 .. MaxJobs : Jobs = 1 .. n /\ index \in 1 .. n + 1 /\ n \in Nat
  BY <1>2, JobsAreNumbers
<1>4. \A j \in Jobs : j < index
  BY <1>1, <1>3
<1>5. \A j \in Jobs : Finished(steppers[j]) /\ steppers[j].status # "Interrupted"
  BY <1>1, <1>2, <1>4 DEF RoundInv, InRound, InterruptInv
<1>6. InterruptEndsEveryFit'
  BY <1>1, <1>5 DEF InterruptEndsEveryFit, Jobs
<1>7. CallTypes' /\ SteppersInv'
  BY <1>1 DEF FitInv, CallTypes, SteppersInv, Jobs
<1>. QED
  BY <1>1, <1>6, <1>7 DEF FitInv, OwnBlocks, Going, RoundInv, CoefficientsInv, ResultsInv,
                          InterruptInv

LEMMA WalkKeepsFitInv ==
  ASSUME FitInv, Walk
  PROVE  FitInv'
<1>. DEFINE L == Len(walking)
<1>1. stage = "prepare" /\ stage' = "receive" /\ position' = 0
      /\ calculations' = [p \in 1 .. L |-> parameters[jobs[walking[p]].block]]
      /\ UNCHANGED <<jobs, steppers, index, parameters, walking>>
  BY DEF Walk, AtWalk, Prepared
<1>2. CallTypes /\ RoundInv /\ SteppersInv /\ OwnBlocks /\ CoefficientsInv
  BY DEF FitInv
<1>3. L \in Nat /\ \A p \in 1 .. L : walking[p] \in Jobs
  BY <1>2, JobsAreNumbers
<1>4. \A p \in 1 .. L : jobs[walking[p]].block \in BlockNames
  BY <1>1, <1>2, <1>3, JobsAreNumbers DEF OwnBlocks, Going, HasNull, JobType
<1>5. calculations' \in [1 .. L -> Places]
  BY <1>1, <1>2, <1>4 DEF CallTypes
<1>6. calculations' \in Seq(Places) /\ Len(calculations') = L
  BY <1>3, <1>5, SeqDef
<1>7. CallTypes'
  <2>1. 0 \in 0 .. MaxJobs
    BY JobsAssumption
  <2>. QED
    BY <1>1, <1>2, <1>6, <2>1 DEF CallTypes, Jobs
<1>8. ResultsInv'
  BY <1>1, <1>2, <1>3, <1>6 DEF ResultsInv, CoefficientsInv
<1>9. RoundInv' /\ OwnBlocks' /\ SteppersInv' /\ InterruptInv' /\ InterruptEndsEveryFit'
      /\ CoefficientsInv'
  BY <1>1 DEF FitInv, RoundInv, OwnBlocks, Going, HasNull, Shared, SteppersInv, InterruptInv,
              InterruptEndsEveryFit, CoefficientsInv, Jobs
<1>. QED
  BY <1>7, <1>8, <1>9 DEF FitInv

LEMMA WalkInterruptedKeepsFitInv ==
  ASSUME FitInv, WalkInterrupted
  PROVE  FitInv'
<1>1. stage = "prepare" /\ index \notin Jobs /\ stage' = "returned"
      /\ steppers' = [j \in Jobs |->
                        IF InRound(j) THEN Interrupt(steppers[j]) ELSE steppers[j]]
      /\ UNCHANGED <<jobs, index, parameters, walking, calculations, position>>
  BY DEF WalkInterrupted, AtWalk, Prepared
<1>2. CallTypes /\ RoundInv /\ SteppersInv /\ CoefficientsInv /\ InterruptInv
  BY DEF FitInv
<1>3. PICK n \in 0 .. MaxJobs : Jobs = 1 .. n /\ index \in 1 .. n + 1 /\ n \in Nat
  BY <1>2, JobsAreNumbers
<1>4. \A j \in Jobs : j < index /\ j \in 1 .. MaxJobs
  BY <1>1, <1>2, <1>3, JobsAreNumbers
<1>5. ASSUME NEW j \in Jobs, InRound(j)
      PROVE  /\ StepperInv(j, steppers'[j]) /\ Finished(steppers'[j])
             /\ steppers'[j].status = "Interrupted"
  <2>1. ~Finished(steppers[j])
    BY <1>1, <1>2, <1>5 DEF CoefficientsInv, InRound
  <2>2. StepperInv(j, steppers[j]) /\ steppers'[j] = Interrupt(steppers[j])
    BY <1>1, <1>2, <1>5 DEF SteppersInv
  <2>. QED
    BY <1>4, <2>1, <2>2, Interrupting
<1>6. ASSUME NEW j \in Jobs, ~InRound(j)
      PROVE  /\ StepperInv(j, steppers'[j]) /\ Finished(steppers'[j])
             /\ steppers'[j].status # "Interrupted"
  BY <1>1, <1>2, <1>4, <1>6 DEF RoundInv, SteppersInv, InterruptInv
<1>7. SteppersInv'
  <2>1. \A j \in Jobs : StepperInv(j, steppers'[j])
    BY <1>5, <1>6
  <2>2. \A j \in Jobs : steppers'[j] \in StepperType(Places)
    BY <2>1 DEF StepperInv
  <2>. QED
    BY <1>1, <2>1, <2>2 DEF SteppersInv, Jobs
<1>8. InterruptEndsEveryFit'
  BY <1>1, <1>5, <1>6 DEF InterruptEndsEveryFit, InRound, Jobs
<1>9. CallTypes'
  BY <1>1, <1>2 DEF CallTypes, Jobs
<1>. QED
  BY <1>1, <1>7, <1>8, <1>9 DEF FitInv, OwnBlocks, Going, RoundInv, CoefficientsInv,
                                ResultsInv, InterruptInv

LEMMA NextRoundKeepsFitInv ==
  ASSUME FitInv, NextRound
  PROVE  FitInv'
<1>1. stage = "receive" /\ stage' = "prepare" /\ index' = 1 /\ walking' = <<>>
      /\ UNCHANGED <<jobs, steppers, parameters, calculations, position>>
  BY DEF NextRound
<1>2. CallTypes
  BY DEF FitInv
<1>3. PICK n \in 0 .. MaxJobs : jobs \in [1 .. n -> JobType] /\ index \in 1 .. n + 1
  BY <1>2 DEF CallTypes
<1>4. 1 \in 1 .. n + 1 /\ \A j \in Jobs : ~(j < 1)
  BY <1>3, <1>2, JobsAreNumbers
<1>5. CallTypes'
  BY <1>1, <1>2, <1>3, <1>4 DEF CallTypes, Jobs
<1>6. RoundInv'
  BY <1>1, <1>4 DEF RoundInv, Going, Jobs
<1>7. SteppersInv' /\ OwnBlocks' /\ CoefficientsInv' /\ ResultsInv' /\ InterruptInv'
      /\ InterruptEndsEveryFit'
  BY <1>1 DEF FitInv, SteppersInv, OwnBlocks, Going, HasNull, Shared, CoefficientsInv,
              ResultsInv, InterruptInv, InterruptEndsEveryFit, Jobs
<1>. QED
  BY <1>5, <1>6, <1>7 DEF FitInv

LEMMA ReceiveTotalsKeepsFitInv ==
  ASSUME FitInv, ReceiveTotals
  PROVE  /\ FitInv'
         /\ \A j \in Jobs :
              \/ steppers'[j] = steppers[j]
              \/ /\ ~Finished(steppers[j])
                 /\ \E found \in Findings :
                      steppers'[j] = Receive(steppers[j],
                                             Totals(<<j, NextWalkAt(steppers[j])>>, found))
<1>. DEFINE L == Len(walking)
            p0 == position + 1
            k == walking[p0]
<1>1. stage = "receive" /\ position < L /\ position' = p0
      /\ UNCHANGED <<jobs, stage, index, parameters, walking, calculations>>
  BY DEF ReceiveTotals
<1>2. CallTypes /\ RoundInv /\ SteppersInv /\ ResultsInv /\ InterruptInv
  BY DEF FitInv
<1>3. PICK found \in Findings :
        steppers' = [steppers EXCEPT ![k] = Receive(steppers[k], Totals(calculations[p0], found))]
  BY DEF ReceiveTotals, Receiver
<1>4. PICK n \in 0 .. MaxJobs : Jobs = 1 .. n /\ index \in 1 .. n + 1 /\ n \in Nat
  BY <1>2, JobsAreNumbers
<1>5. L \in Nat /\ position \in Nat /\ p0 \in 1 .. L /\ k \in Jobs /\ k \in 1 .. MaxJobs
      /\ p0 > position /\ MaxJobs \in Nat
  BY <1>1, <1>2, JobsAreNumbers DEF CallTypes
<1>6. ~Finished(steppers[k]) /\ calculations[p0] = <<k, NextWalkAt(steppers[k])>>
  BY <1>1, <1>2, <1>5 DEF ResultsInv
<1>. DEFINE r == Receive(steppers[k], Totals(<<k, NextWalkAt(steppers[k])>>, found))
<1>7. steppers' = [steppers EXCEPT ![k] = r]
  BY <1>3, <1>6
<1>8. StepperInv(k, r) /\ r.status # "Interrupted"
  <2>1. StepperInv(k, steppers[k])
    BY <1>2, <1>5 DEF SteppersInv
  <2>2. steppers[k].phase \in {"FirstWalk", "TrialWalk"}
    BY <1>6, <2>1 DEF StepperInv, StepperType, Finished
  <2>. QED
    BY <1>5, <2>1, <2>2, ReceivingTheFirst, ReceivingATrial
<1>. HIDE DEF r
<1>9. steppers'[k] = r /\ \A j \in Jobs : j # k => steppers'[j] = steppers[j]
  BY <1>2, <1>5, <1>7 DEF SteppersInv
<1>10. SteppersInv'
  <2>1. r \in StepperType(Places)
    BY <1>8 DEF StepperInv
  <2>2. steppers' \in [Jobs -> StepperType(Places)]
    BY <1>2, <1>7, <2>1 DEF SteppersInv
  <2>3. \A j \in Jobs : StepperInv(j, steppers'[j])
    BY <1>2, <1>8, <1>9 DEF SteppersInv
  <2>. QED
    BY <1>1, <2>2, <2>3 DEF SteppersInv, Jobs
<1>11. InterruptInv'
  <2>1. \A j \in Jobs : steppers'[j].status # "Interrupted"
    BY <1>1, <1>2, <1>8, <1>9 DEF InterruptInv
  <2>. QED
    BY <1>1, <2>1 DEF InterruptInv, Jobs
<1>12. CallTypes'
  <2>1. p0 \in 0 .. MaxJobs
    <3>1. L < index /\ index <= n + 1 /\ n <= MaxJobs /\ index \in Nat
      BY <1>2, <1>4, <1>5 DEF CallTypes
    <3>. QED
      BY <1>1, <1>4, <1>5, <3>1
  <2>. QED
    BY <1>1, <1>2, <2>1 DEF CallTypes, Jobs
<1>13. ResultsInv'
  <2>1. p0 <= L /\ Len(calculations) = L
    BY <1>1, <1>2, <1>5 DEF ResultsInv
  <2>2. ASSUME NEW p \in 1 .. L, p > p0
        PROVE  /\ ~Finished(steppers'[walking[p]])
               /\ calculations[p] = <<walking[p], NextWalkAt(steppers'[walking[p]])>>
    <3>1. walking[p] \in Jobs /\ p > position
      BY <1>2, <1>5, <2>2, JobsAreNumbers
    <3>2. walking[p] # k
      <4>1. walking[p0] < walking[p]
        BY <1>1, <1>2, <1>5, <2>2 DEF RoundInv, Going
      <4>2. walking[p] \in Nat /\ k \in Nat
        BY <1>4, <1>5, <3>1
      <4>. QED
        BY <4>1, <4>2
    <3>3. steppers'[walking[p]] = steppers[walking[p]]
      BY <1>9, <3>1, <3>2
    <3>. QED
      BY <1>1, <1>2, <3>1, <3>3 DEF ResultsInv
  <2>. QED
    BY <1>1, <2>1, <2>2 DEF ResultsInv
<1>14. OwnBlocks' /\ RoundInv' /\ CoefficientsInv' /\ InterruptEndsEveryFit'
  BY <1>1 DEF FitInv, OwnBlocks, Going, HasNull, Shared, RoundInv, CoefficientsInv,
              InterruptEndsEveryFit, Jobs
<1>15. FitInv'
  BY <1>10, <1>11, <1>12, <1>13, <1>14 DEF FitInv
<1>. QED
  BY <1>6, <1>9, <1>15 DEF r

LEMMA FitStepKeepsFitInv == FitInv /\ [FitNext]_fitVars => FitInv'
<1>. SUFFICES ASSUME FitInv, [FitNext]_fitVars PROVE FitInv'
  OBVIOUS
<1>1. CASE Refuse \/ WalkThrows \/ ReceiveMismatched
  BY <1>1, StoppingKeepsFitInv
<1>2. CASE Begin
  BY <1>2, BeginKeepsFitInv
<1>3. CASE PassOver
  BY <1>3, PassOverKeepsFitInv
<1>4. CASE PrepareWalk
  BY <1>4, PrepareWalkKeepsFitInv
<1>5. CASE Return
  BY <1>5, ReturnKeepsFitInv
<1>6. CASE Walk
  BY <1>6, WalkKeepsFitInv
<1>7. CASE WalkInterrupted
  BY <1>7, WalkInterruptedKeepsFitInv
<1>8. CASE ReceiveTotals
  BY <1>8, ReceiveTotalsKeepsFitInv
<1>9. CASE NextRound
  BY <1>9, NextRoundKeepsFitInv
<1>10. CASE UNCHANGED fitVars
  <2>1. UNCHANGED <<jobs, stage, steppers, index, parameters, walking, calculations, position>>
    BY <1>10 DEF fitVars
  <2>2. CallTypes' /\ SteppersInv' /\ OwnBlocks'
    BY <2>1 DEF FitInv, CallTypes, SteppersInv, OwnBlocks, Going, HasNull, Shared, Jobs
  <2>3. RoundInv' /\ CoefficientsInv' /\ ResultsInv'
    BY <2>1 DEF FitInv, RoundInv, CoefficientsInv, ResultsInv, Going, InRound, Jobs
  <2>4. InterruptInv' /\ InterruptEndsEveryFit'
    BY <2>1 DEF FitInv, InterruptInv, InterruptEndsEveryFit, InRound, Jobs
  <2>. QED
    BY <2>2, <2>3, <2>4 DEF FitInv
<1>. QED
  BY <1>1, <1>2, <1>3, <1>4, <1>5, <1>6, <1>7, <1>8, <1>9, <1>10 DEF FitNext, FitStep

-----------------------------------------------------------------------------
\* The inductive invariant of a call: rounds in job order, coefficients and
\* results each fit's own (FitLoop.hpp:431-505).
THEOREM FitInvariant == FitSpec => []FitInv
<1>. QED
  BY FitStarts, FitStepKeepsFitInv, PTL DEF FitSpec

\* The state of a call is well typed (FitLoop.hpp:449).
THEOREM FitTypes == FitSpec => []FitTypeOK
<1>1. FitInv => FitTypeOK
  <2>. SUFFICES ASSUME FitInv PROVE FitTypeOK
    OBVIOUS
  <2>1. CallTypes /\ SteppersInv
    BY DEF FitInv
  <2>2. \A j \in Jobs : jobs[j] \in JobType
    BY <2>1, JobsAreNumbers
  <2>3. index \in 1 .. MaxJobs + 1
    BY <2>1, JobsAreNumbers
  <2>. QED
    BY <2>1, <2>2, <2>3 DEF FitTypeOK, CallTypes, SteppersInv
<1>. QED
  BY <1>1, FitInvariant, PTL

\* A fit holds only totals of its own block at the coefficients it reports,
\* whatever shares the walk (FitLoop.hpp:439).
THEOREM TotalsAreAlwaysOwn == FitSpec => []OwnTotalsAtOwnBeta
<1>1. FitInv => OwnTotalsAtOwnBeta
  <2>. SUFFICES ASSUME FitInv, NEW j \in Jobs, steppers[j].iterations > 0
                PROVE  steppers[j].current.at = <<j, steppers[j].beta>>
    BY DEF OwnTotalsAtOwnBeta
  <2>1. StepperInv(j, steppers[j])
    BY DEF FitInv, SteppersInv
  <2>2. CASE steppers[j].phase = "FirstWalk"
    BY <2>1, <2>2 DEF StepperInv, NewStepper
  <2>3. CASE steppers[j].phase = "TrialWalk"
    BY <2>1, <2>3 DEF StepperInv, TrialInv
  <2>4. CASE steppers[j].phase = "Finished"
    BY <2>1, <2>4 DEF StepperInv, FinishedInv
  <2>. QED
    BY <2>1, <2>2, <2>3, <2>4 DEF StepperInv, StepperType
<1>. QED
  BY <1>1, FitInvariant, PTL

\* The likelihood, the gain and the variance a fit reports were computed at the
\* beta it reports (FitLoop.hpp:108).
THEOREM ReportsAreAlwaysOfTheirBeta == FitSpec => []ReportIsOfItsBeta
<1>1. FitInv => ReportIsOfItsBeta
  BY DEF FitInv, SteppersInv, StepperInv, FinishedInv, Finished, ReportIsOfItsBeta
<1>. QED
  BY <1>1, FitInvariant, PTL

\* No fit walks more often than its budget of iterations and halvings allows
\* (FitLoop.hpp:216).
THEOREM WalksAreAlwaysBounded == FitSpec => []WalksAreBounded
<1>1. FitInv => WalksAreBounded
  <2>. SUFFICES ASSUME FitInv, NEW j \in Jobs
                PROVE  /\ steppers[j].evaluations <= MaxWalks
                       /\ steppers[j].iterations <= MaxIterations
                       /\ steppers[j].status = "StepCollapsed" /\ steppers[j].iterations = 1
                            => steppers[j].evaluations = 1 + PerIteration
    BY DEF WalksAreBounded, MaxWalks, PerIteration
  <2>. DEFINE s == steppers[j]
  <2>1. StepperInv(j, s) /\ s \in StepperType(Places)
    BY DEF FitInv, SteppersInv, StepperInv
  <2>2. s.iterations \in 0 .. MaxIterations /\ s.evaluations \in Nat /\ MaxIterations \in Nat
        /\ MaxHalvings \in Nat
    BY <2>1, FitAssumption DEF StepperType
  <2>. HIDE DEF s
  <2>3. CASE s.phase = "FirstWalk"
    <3>1. s = NewStepper(Nowhere)
      BY <2>1, <2>3 DEF StepperInv
    <3>2. s.evaluations = 0 /\ s.iterations = 0
      BY <3>1 DEF NewStepper
    <3>. QED
      BY <2>2, <3>2, WalksOfIterations DEF s
  <2>4. CASE s.phase = "TrialWalk"
    <3>1. TrialInv(j, s)
      BY <2>1, <2>4 DEF StepperInv
    <3>2. s.iterations \in 1 .. MaxIterations /\ s.iterations \in Nat \ {0}
          /\ s.halving \in 0 .. MaxHalvings
      BY <3>1, FitAssumption DEF TrialInv, Iterations, Halvings
    <3>3. WalksBefore(s.iterations) + PerIteration + 1 <= MaxWalks
          /\ WalksBefore(s.iterations) \in Nat /\ MaxWalks \in Nat
      BY <3>2, WalksOfIterations
    <3>. QED
      BY <2>2, <3>1, <3>2, <3>3 DEF TrialInv, PerIteration, s
  <2>5. CASE s.phase = "Finished"
    BY <2>1, <2>2, <2>5 DEF StepperInv, FinishedInv, s
  <2>. QED
    BY <2>1, <2>3, <2>4, <2>5 DEF StepperType, s
<1>. QED
  BY <1>1, FitInvariant, PTL

\* On return every fit is over, and an interruption was every fit's of the round
\* it cut short (FitLoop.hpp:493).
THEOREM InterruptsAlwaysEndEveryFit == FitSpec => []InterruptEndsEveryFit
<1>1. FitInv => InterruptEndsEveryFit
  BY DEF FitInv
<1>. QED
  BY <1>1, FitInvariant, PTL

\* A finished fit drops out: no later round touches it (FitLoop.hpp:477).
THEOREM FinishedStaysFinal == FitSpec => FinishedIsFinal
<1>1. ASSUME FitInv, [FitNext]_fitVars
      PROVE  [\A j \in Jobs : Finished(steppers[j]) => steppers'[j] = steppers[j]]_fitVars
  <2>1. CASE ReceiveTotals
    BY <1>1, <2>1, ReceiveTotalsKeepsFitInv
  <2>2. CASE WalkInterrupted
    <3>1. ASSUME NEW j \in Jobs, Finished(steppers[j])
          PROVE  steppers'[j] = steppers[j]
      <4>1. ~InRound(j)
        BY <1>1, <2>2, <3>1 DEF FitInv, CoefficientsInv, InRound, WalkInterrupted, AtWalk,
                                Prepared
      <4>. QED
        BY <2>2, <4>1 DEF WalkInterrupted
    <3>. QED
      BY <3>1
  <2>3. CASE UNCHANGED steppers
    BY <2>3
  <2>. QED
    BY <1>1, <2>1, <2>2, <2>3 DEF FitNext, FitStep, Refuse, Begin, PassOver, PrepareWalk,
         Return, Walk, WalkThrows, ReceiveMismatched, NextRound, fitVars
<1>. QED
  BY <1>1, FitInvariant, PTL DEF FitSpec, FinishedIsFinal

\* The step that interrupts a fit ends the call, changes no report that is already
\* final, and leaves every other fit the coefficients it last accepted with the
\* totals of its own complete walk there (FitLoop.hpp:299).
THEOREM InterruptsAlwaysTakeNothing == FitSpec => InterruptTakesNothing
<1>1. ASSUME FitInv, WalkInterrupted, NEW j \in Jobs, Finished(steppers[j])
      PROVE  steppers'[j] = steppers[j]
  <2>1. ~InRound(j)
    BY <1>1 DEF FitInv, CoefficientsInv, InRound, WalkInterrupted, AtWalk, Prepared
  <2>. QED
    BY <1>1, <2>1 DEF WalkInterrupted
<1>2. ASSUME FitInv, WalkInterrupted, NEW j \in Jobs, ~Finished(steppers[j])
      PROVE  /\ Finished(steppers'[j]) /\ steppers'[j].status = "Interrupted"
             /\ Held(steppers'[j]) = Held(steppers[j])
             /\ steppers'[j].iterations > 0 => steppers'[j].current.at = <<j, steppers'[j].beta>>
  <2>1. PICK n \in 0 .. MaxJobs : Jobs = 1 .. n /\ index \in 1 .. n + 1 /\ n \in Nat
    BY <1>2, JobsAreNumbers DEF FitInv
  <2>2. j < index /\ j \in 1 .. MaxJobs
    BY <1>2, <2>1, JobsAreNumbers DEF FitInv, WalkInterrupted, AtWalk, Prepared
  <2>3. InRound(j)
    BY <1>2, <2>2 DEF FitInv, RoundInv, WalkInterrupted, AtWalk, Prepared
  <2>4. StepperInv(j, steppers[j]) /\ steppers'[j] = Interrupt(steppers[j])
    BY <1>2, <2>3 DEF FitInv, SteppersInv, WalkInterrupted
  <2>5. Finished(steppers'[j]) /\ steppers'[j].status = "Interrupted"
        /\ Held(steppers'[j]) = Held(steppers[j])
    BY <1>2, <2>2, <2>4, Interrupting
  <2>6. steppers[j].iterations > 0 => steppers[j].current.at = <<j, steppers[j].beta>>
    <3>1. CASE steppers[j].phase = "FirstWalk"
      BY <2>4, <3>1 DEF StepperInv, NewStepper
    <3>2. CASE steppers[j].phase = "TrialWalk"
      BY <2>4, <3>2 DEF StepperInv, TrialInv
    <3>. QED
      BY <1>2, <2>4, <3>1, <3>2 DEF StepperInv, StepperType, Finished
  <2>. QED
    BY <2>5, <2>6 DEF Held
<1>3. ASSUME FitInv, [FitNext]_fitVars, NEW i \in Jobs, BecomesInterrupted(i)
      PROVE  WalkInterrupted
  <2>1. CASE ReceiveTotals
    <3>1. FitInv' /\ stage' # "returned" /\ Jobs' = Jobs
      BY <1>3, <2>1, ReceiveTotalsKeepsFitInv DEF ReceiveTotals, Jobs
    <3>. QED
      BY <1>3, <3>1 DEF FitInv, InterruptInv, BecomesInterrupted
  <2>2. CASE UNCHANGED steppers
    BY <1>3, <2>2 DEF BecomesInterrupted
  <2>. QED
    BY <1>3, <2>1, <2>2 DEF FitNext, FitStep, Refuse, Begin, PassOver, PrepareWalk,
         Return, Walk, WalkThrows, ReceiveMismatched, NextRound, fitVars
<1>4. ASSUME FitInv, [FitNext]_fitVars
      PROVE  [(\E j \in Jobs : BecomesInterrupted(j)) =>
                /\ stage' = "returned"
                /\ \A j \in Jobs :
                     LET old == steppers[j]
                         new == steppers'[j]
                     IN IF Finished(old)
                        THEN new = old
                        ELSE /\ Finished(new) /\ new.status = "Interrupted"
                             /\ Held(new) = Held(old)
                             /\ new.iterations > 0 =>
                                  new.current.at = <<j, new.beta>>]_fitVars
  <2>. SUFFICES ASSUME NEW i \in Jobs, BecomesInterrupted(i)
                PROVE  /\ stage' = "returned"
                       /\ \A j \in Jobs :
                            IF Finished(steppers[j])
                            THEN steppers'[j] = steppers[j]
                            ELSE /\ Finished(steppers'[j])
                                 /\ steppers'[j].status = "Interrupted"
                                 /\ Held(steppers'[j]) = Held(steppers[j])
                                 /\ steppers'[j].iterations > 0 =>
                                      steppers'[j].current.at = <<j, steppers'[j].beta>>
    OBVIOUS
  <2>1. WalkInterrupted
    BY <1>3, <1>4
  <2>2. stage' = "returned"
    BY <2>1 DEF WalkInterrupted
  <2>. QED
    BY <1>1, <1>2, <1>4, <2>1, <2>2
<1>. QED
  BY <1>4, FitInvariant, PTL DEF FitSpec, InterruptTakesNothing

\* A fit that moves improves on the point it leaves: it cannot crawl or return
\* (FitLoop.hpp:273).
THEOREM ObjectivesOnlyImprove == FitSpec => ObjectiveOnlyImproves
<1>1. ASSUME FitInv, [FitNext]_fitVars
      PROVE  [\A j \in Jobs :
                steppers'[j].beta # steppers[j].beta =>
                  /\ steppers'[j].current.finite
                  /\ steppers[j].current.finite
                  /\ steppers'[j].current.objective > steppers[j].current.objective]_fitVars
  <2>1. CASE ReceiveTotals
    <3>. SUFFICES ASSUME NEW j \in Jobs, steppers'[j].beta # steppers[j].beta
                  PROVE  /\ steppers'[j].current.finite
                         /\ steppers[j].current.finite
                         /\ steppers'[j].current.objective > steppers[j].current.objective
      OBVIOUS
    <3>1. ~Finished(steppers[j])
          /\ \E found \in Findings :
               steppers'[j] = Receive(steppers[j],
                                      Totals(<<j, NextWalkAt(steppers[j])>>, found))
      BY <1>1, <2>1, ReceiveTotalsKeepsFitInv
    <3>2. StepperInv(j, steppers[j]) /\ j \in 1 .. MaxJobs
      BY <1>1, JobsAreNumbers DEF FitInv, SteppersInv
    <3>3. steppers[j].phase \in {"FirstWalk", "TrialWalk"}
      BY <3>1, <3>2 DEF StepperInv, StepperType, Finished
    <3>. QED
      BY <3>1, <3>2, <3>3, ReceivingTheFirst, ReceivingATrial
  <2>2. CASE WalkInterrupted
    <3>1. ASSUME NEW j \in Jobs PROVE steppers'[j].beta = steppers[j].beta
      <4>1. j \in 1 .. MaxJobs /\ StepperInv(j, steppers[j])
        BY <1>1, JobsAreNumbers DEF FitInv, SteppersInv
      <4>2. CASE InRound(j)
        <5>1. ~Finished(steppers[j])
          BY <1>1, <2>2, <4>2 DEF FitInv, CoefficientsInv, InRound, WalkInterrupted, AtWalk,
                                  Prepared
        <5>. QED
          BY <2>2, <4>1, <4>2, <5>1, Interrupting DEF WalkInterrupted
      <4>3. CASE ~InRound(j)
        BY <2>2, <4>3 DEF WalkInterrupted
      <4>. QED
        BY <4>2, <4>3
    <3>. QED
      BY <3>1
  <2>3. CASE UNCHANGED steppers
    BY <2>3
  <2>. QED
    BY <1>1, <2>1, <2>2, <2>3 DEF FitNext, FitStep, Refuse, Begin, PassOver, PrepareWalk,
         Return, Walk, WalkThrows, ReceiveMismatched, NextRound, fitVars
<1>. QED
  BY <1>1, FitInvariant, PTL DEF FitSpec, ObjectiveOnlyImproves

\* The two modules speak of one stepper.
LEMMA AloneSeesTheSame ==
  ASSUME NEW j
  PROVE  /\ \A s, how : Alone(j)!Finish(s, how) = Finish(s, how)
         /\ \A s : Alone(j)!Finished(s) <=> Finished(s)
         /\ \A s : Alone(j)!NextWalkAt(s) = NextWalkAt(s)
         /\ \A s : Alone(j)!SetTrial(s) = SetTrial(s)
         /\ \A place, found : Alone(j)!Totals(place, found) = Totals(place, found)
         /\ Alone(j)!Start = Start
         /\ Alone(j)!Findings = Findings
BY DEF Alone!Finish, Finish, Alone!Finished, Finished, Alone!NextWalkAt, NextWalkAt,
       Alone!SetTrial, SetTrial, Alone!Totals, Totals, Alone!Start, Start,
       Alone!Findings, Findings, Alone!Moments, Moments

LEMMA AloneStartsIterationsAlike ==
  ASSUME NEW j, NEW s
  PROVE  Alone(j)!StartIteration(s) = StartIteration(s)
BY AloneSeesTheSame DEF Alone!StartIteration, StartIteration

LEMMA AloneReceivesAlike ==
  ASSUME NEW j, NEW s, NEW walked
  PROVE  Alone(j)!Receive(s, walked) = Receive(s, walked)
BY AloneSeesTheSame, AloneStartsIterationsAlike
   DEF Alone!Receive, Receive, Alone!FirstTotals, FirstTotals, Alone!Improves, Improves,
       Alone!Accept, Accept, Alone!Halve, Halve

\* A fit run alongside others does what the same fit does alone (FitLoop.hpp:439).
THEOREM FitsAreAlwaysAsAlone == FitSpec => EachFitAsAlone
<1>1. FitInit => \A j \in 1 .. MaxJobs : Alone(j)!Init
  <2>. SUFFICES ASSUME FitInit, NEW j \in 1 .. MaxJobs PROVE Alone(j)!Init
    OBVIOUS
  <2>. QED
    BY AloneSeesTheSame DEF FitInit, Alone!Init, View, Nowhere, Alone!NewStepper, NewStepper
<1>2. ASSUME FitInv, [FitNext]_fitVars
      PROVE  [\A j \in 1 .. MaxJobs : Alone(j)!Next \/ View(j)' = View(j)]_fitVars
  <2>. SUFFICES ASSUME ~UNCHANGED fitVars, NEW j \in 1 .. MaxJobs
                PROVE  Alone(j)!Next \/ View(j)' = View(j)
    OBVIOUS
  <2>1. jobs' = jobs
    BY <1>2 DEF FitNext, FitStep, Refuse, Begin, PassOver, PrepareWalk, Return, Walk,
                WalkInterrupted, WalkThrows, ReceiveTotals, ReceiveMismatched, NextRound, fitVars
  <2>2. CASE j \notin Jobs
    BY <2>1, <2>2 DEF View, Jobs
  <2>3. CASE j \in Jobs
    <3>1. View(j) = steppers[j] /\ View(j)' = steppers'[j]
      BY <2>1, <2>3 DEF View, Jobs
    <3>2. CASE ReceiveTotals
      <4>. SUFFICES ASSUME steppers'[j] # steppers[j] PROVE Alone(j)!TakeWalk
        BY <3>1 DEF Alone!Next
      <4>1. ~Finished(steppers[j])
        BY <1>2, <2>3, <3>2, ReceiveTotalsKeepsFitInv
      <4>2. PICK found \in Findings :
              steppers'[j] = Receive(steppers[j],
                                     Totals(<<j, NextWalkAt(steppers[j])>>, found))
        BY <1>2, <2>3, <3>2, ReceiveTotalsKeepsFitInv
      <4>3. ~Alone(j)!Finished(View(j)) /\ found \in Alone(j)!Findings
        BY <3>1, <4>1, AloneSeesTheSame
      <4>4. View(j)' = Alone(j)!Receive(View(j),
                         Alone(j)!Totals(<<j, Alone(j)!NextWalkAt(View(j))>>, found))
        BY <3>1, <4>2, AloneSeesTheSame, AloneReceivesAlike
      <4>. QED
        BY <4>3, <4>4 DEF Alone!TakeWalk
    <3>3. CASE WalkInterrupted
      <4>1. CASE InRound(j)
        <5>1. ~Finished(steppers[j])
          BY <1>2, <3>3, <4>1 DEF FitInv, CoefficientsInv, InRound, WalkInterrupted, AtWalk,
                                  Prepared
        <5>2. steppers'[j] = Interrupt(steppers[j])
          BY <2>3, <3>3, <4>1 DEF WalkInterrupted
        <5>. QED
          BY <3>1, <5>1, <5>2, AloneSeesTheSame
             DEF Alone!Next, Alone!BeInterrupted, Alone!Interrupt, Interrupt
      <4>2. CASE ~InRound(j)
        BY <2>3, <3>1, <3>3, <4>2 DEF WalkInterrupted
      <4>. QED
        BY <4>1, <4>2
    <3>4. CASE UNCHANGED steppers
      BY <3>1, <3>4
    <3>. QED
      BY <1>2, <3>2, <3>3, <3>4 DEF FitNext, FitStep, Refuse, Begin, PassOver, PrepareWalk,
           Return, Walk, WalkThrows, ReceiveMismatched, NextRound, fitVars
  <2>. QED
    BY <2>2, <2>3
<1>. QED
  BY <1>1, <1>2, FitInvariant, PTL DEF FitSpec, EachFitAsAlone

-----------------------------------------------------------------------------
(* Entry points.                                                            *)

\* A specification that was passed: it compiled, and its claim was verified.
Built(k) ==
  /\ specs[k].problem \notin {"terms", "model"}
  /\ specs[k].claim # "none" => k \in verified

\* What stands before any fit is begun: the fault of each job is its
\* specification's, and all that was passed was in order.
BuildInv ==
  /\ \A j \in Jobs : jobs[j].fault = IF specs[j].problem = "start" THEN "start" ELSE "none"
  /\ call = "validate" => at = 1 /\ verified = {}
  /\ \A k \in Specs : k < at => Built(k)
  /\ \A k \in verified : specs[k].claim = "true"
  /\ call \in {"build", "run", "returned"} => ~Has("method")
  /\ call \in {"run", "returned"} => at \notin Specs /\ ~Has("overdispersion")

\* The fits began only once every start was accepted.
RunInv ==
  /\ stage \in {"prepare", "receive", "returned"} => ~Has("start")
  /\ call = "returned" => stage = "returned" /\ ~WasInterrupted

\* A specification is named in an error only for what is wrong with it.
RaisedInv ==
  /\ call # "raised" => raised = NotRaised
  /\ call = "raised" => raised.why # "nothing"
  /\ raised.why \notin {"nothing", "interrupted", "walk"} =>
       /\ raised.index \in Specs
       /\ Bad(raised.index)
       /\ raised.why = OwnError(raised.index)

CallInv == CallTypeOK /\ BuildInv /\ RunInv /\ RaisedInv

-----------------------------------------------------------------------------
LEMMA SpecsAreNumbers ==
  ASSUME FitInv, CallTypeOK
  PROVE  \E n \in 0 .. MaxJobs :
           /\ n \in Nat /\ Specs = 1 .. n /\ Jobs = 1 .. n /\ Len(specs) = n
           /\ at \in 1 .. n + 1 /\ at \in Nat
           /\ \A k \in Specs : specs[k] \in SpecType /\ k \in 0 .. MaxJobs /\ k \in Nat
<1>1. PICK n \in 0 .. MaxJobs : Jobs = 1 .. n /\ n \in Nat
  BY JobsAreNumbers DEF FitInv
<1>2. MaxJobs \in Nat
  BY JobsAssumption
<1>3. specs \in [1 .. n -> SpecType]
  BY <1>1 DEF CallTypeOK
<1>4. Specs = 1 .. n /\ Len(specs) = n
  BY <1>1, <1>3 DEF Specs
<1>5. at \in 1 .. n + 1
  BY <1>4 DEF CallTypeOK
<1>6. at \in Nat
  BY <1>1, <1>5
<1>. QED
  BY <1>1, <1>2, <1>3, <1>4, <1>5, <1>6

\* The error raised names a specification that has the fault, and there is one.
LEMMA FirstHasIt ==
  ASSUME FitInv, CallTypeOK, NEW what, Has(what)
  PROVE  FirstWith(what) \in Specs /\ specs[FirstWith(what)].problem = what
<1>. DEFINE S == {j \in Specs : specs[j].problem = what}
<1>1. Specs \subseteq Nat
  BY SpecsAreNumbers
<1>2. S # {} /\ S \in SUBSET Nat
  BY <1>1 DEF Has
<1>3. PICK j \in S : \A k \in S : j <= k
  <2>. HIDE DEF S
  <2>. QED
    BY <1>2, LeastNatural
<1>4. \E i \in Specs : specs[i].problem = what
                       /\ \A k \in Specs : specs[k].problem = what => i <= k
  BY <1>3
<1>. QED
  BY <1>4 DEF FirstWith

LEMMA CallStarts == CallInit => FitInv /\ CallInv
<1>. SUFFICES ASSUME CallInit PROVE FitInv /\ CallInv
  OBVIOUS
<1>1. FitInv
  BY FitStarts DEF CallInit
<1>2. PICK n \in 0 .. MaxJobs : Jobs = 1 .. n /\ n \in Nat
  BY <1>1, JobsAreNumbers DEF FitInv
<1>3. specs \in [1 .. n -> SpecType] /\ 0 \in 0 .. MaxJobs
  BY <1>2, JobsAssumption DEF CallInit
<1>4. Specs = 1 .. n /\ Len(specs) = n /\ 1 \in 1 .. n + 1
  BY <1>2, <1>3 DEF Specs
<1>5. CallTypeOK
  BY <1>3, <1>4 DEF CallInit, CallTypeOK, NotRaised
<1>6. BuildInv
  <2>1. \A k \in Specs : ~(k < 1)
    BY <1>2, <1>4
  <2>. QED
    BY <2>1 DEF CallInit, BuildInv
<1>7. RunInv /\ RaisedInv
  BY DEF CallInit, FitInit, RunInv, RaisedInv, NotRaised
<1>. QED
  BY <1>1, <1>5, <1>6, <1>7 DEF CallInv

-----------------------------------------------------------------------------
\* What raising takes: the specification named has the fault it is raised for.
LEMMA RaisingKeepsCallInv ==
  ASSUME FitInv, CallInv, UNCHANGED <<fitVars, specs, at, verified>>,
         NEW why \in {"method", "terms", "model", "overdispersion", "start", "disjoint",
                      "interrupted", "walk"},
         NEW which \in 0 .. MaxJobs,
         Raise(why, which),
         why \notin {"interrupted", "walk"} =>
           which \in Specs /\ Bad(which) /\ why = OwnError(which)
  PROVE  CallInv'
<1>1. /\ UNCHANGED <<fitVars, jobs, stage, steppers, specs, at, verified>>
      /\ call' = "raised" /\ raised' = [why |-> why, index |-> which]
  BY DEF Raise, fitVars
<1>2. CallTypeOK'
  BY <1>1 DEF CallInv, CallTypeOK, Jobs, Specs, Problems
<1>3. BuildInv'
  BY <1>1 DEF CallInv, BuildInv, Built, Has, Specs, Jobs
<1>4. RunInv'
  BY <1>1 DEF CallInv, RunInv, Has, Specs
<1>5. RaisedInv'
  <2>1. Bad(which)' = Bad(which) /\ OwnError(which)' = OwnError(which) /\ Specs' = Specs
    BY <1>1 DEF Bad, OwnError, Specs
  <2>. QED
    BY <1>1, <2>1 DEF RaisedInv
<1>. QED
  BY <1>2, <1>3, <1>4, <1>5 DEF CallInv

\* Each claim that was passed is true, so the rest of a specification is its own error.
LEMMA OwnErrors ==
  ASSUME CallInv, NEW k \in Specs
  PROVE  /\ specs[k].problem \in {"method", "terms"} =>
              Bad(k) /\ OwnError(k) = specs[k].problem
         /\ specs[k].problem # "none" /\ specs[k].claim # "false" =>
              Bad(k) /\ OwnError(k) = specs[k].problem
         /\ specs[k].problem \notin {"method", "terms"} /\ specs[k].claim = "false" =>
              Bad(k) /\ OwnError(k) = "disjoint"
BY DEF Bad, OwnError

LEMMA RefusalsKeepCallInv ==
  ASSUME FitInv, CallInv,
         RefuseMethod \/ TermsFail \/ ModelFails \/ RefuseOverdispersion
           \/ RaiseInterrupt \/ LetThrough
  PROVE  CallInv'
<1>1. CallTypeOK /\ BuildInv /\ RunInv /\ RaisedInv
  BY DEF CallInv
<1>2. PICK n \in 0 .. MaxJobs :
           /\ n \in Nat /\ Specs = 1 .. n /\ at \in 1 .. n + 1 /\ at \in Nat
           /\ \A k \in Specs : specs[k] \in SpecType /\ k \in 0 .. MaxJobs /\ k \in Nat
  BY <1>1, SpecsAreNumbers
<1>3. 0 \in 0 .. MaxJobs
  BY JobsAssumption
<1>4. CASE RefuseMethod
  <2>. DEFINE k == FirstWith("method")
  <2>1. k \in Specs /\ specs[k].problem = "method"
    BY <1>1, <1>4, FirstHasIt DEF RefuseMethod
  <2>. HIDE DEF k
  <2>2. Bad(k) /\ OwnError(k) = "method" /\ k \in 0 .. MaxJobs
    BY <1>2, <2>1, OwnErrors
  <2>3. Raise("method", k) /\ UNCHANGED <<fitVars, specs, at, verified>>
    BY <1>4 DEF RefuseMethod, k
  <2>. QED
    BY <2>1, <2>2, <2>3, RaisingKeepsCallInv
<1>5. CASE TermsFail
  <2>1. at \in Specs /\ specs[at].problem = "terms"
    BY <1>5 DEF TermsFail, Building
  <2>2. Bad(at) /\ OwnError(at) = "terms" /\ at \in 0 .. MaxJobs
    BY <1>2, <2>1, OwnErrors
  <2>. QED
    BY <1>5, <2>1, <2>2, RaisingKeepsCallInv DEF TermsFail
<1>6. CASE ModelFails
  <2>1. at \in Specs /\ specs[at].problem = "model" /\ ~NeedsVerifying
    BY <1>6 DEF ModelFails, Building
  <2>2. specs[at].claim # "false"
    BY <1>1, <2>1 DEF NeedsVerifying, BuildInv
  <2>3. Bad(at) /\ OwnError(at) = "model" /\ at \in 0 .. MaxJobs
    BY <1>2, <2>1, <2>2, OwnErrors
  <2>. QED
    BY <1>6, <2>1, <2>3, RaisingKeepsCallInv DEF ModelFails
<1>7. ASSUME at \notin Specs, NEW k \in Specs
      PROVE  specs[k].claim # "false"
  <2>1. k < at
    BY <1>2, <1>7
  <2>. QED
    BY <1>1, <2>1 DEF BuildInv, Built
<1>8. CASE RefuseOverdispersion
  <2>. DEFINE k == FirstWith("overdispersion")
  <2>1. k \in Specs /\ specs[k].problem = "overdispersion"
    BY <1>1, <1>8, FirstHasIt DEF RefuseOverdispersion
  <2>. HIDE DEF k
  <2>2. specs[k].claim # "false"
    BY <1>7, <1>8, <2>1 DEF RefuseOverdispersion
  <2>3. Bad(k) /\ OwnError(k) = "overdispersion" /\ k \in 0 .. MaxJobs
    BY <1>2, <2>1, <2>2, OwnErrors
  <2>4. Raise("overdispersion", k) /\ UNCHANGED <<fitVars, specs, at, verified>>
    BY <1>8 DEF RefuseOverdispersion, k
  <2>. QED
    BY <2>1, <2>3, <2>4, RaisingKeepsCallInv
<1>9. CASE RaiseInterrupt
  BY <1>3, <1>9, RaisingKeepsCallInv DEF RaiseInterrupt
<1>10. CASE LetThrough /\ ~Has("start")
  BY <1>3, <1>10, RaisingKeepsCallInv DEF LetThrough
<1>11. CASE LetThrough /\ Has("start")
  <2>. DEFINE k == FirstWith("start")
  <2>1. k \in Specs /\ specs[k].problem = "start"
    BY <1>1, <1>11, FirstHasIt
  <2>. HIDE DEF k
  <2>2. specs[k].claim # "false"
    BY <1>1, <1>7, <1>11, <2>1 DEF LetThrough, BuildInv
  <2>3. Bad(k) /\ OwnError(k) = "start" /\ k \in 0 .. MaxJobs
    BY <1>2, <2>1, <2>2, OwnErrors
  <2>4. Raise("start", k) /\ UNCHANGED <<fitVars, specs, at, verified>>
    BY <1>11 DEF LetThrough, k
  <2>. QED
    BY <2>1, <2>3, <2>4, RaisingKeepsCallInv
<1>. QED
  BY <1>4, <1>5, <1>6, <1>8, <1>9, <1>10, <1>11

LEMMA VerifyClaimKeepsCallInv ==
  ASSUME FitInv, CallInv, VerifyClaim
  PROVE  CallInv'
<1>1. CallTypeOK /\ BuildInv /\ RunInv /\ RaisedInv
  BY DEF CallInv
<1>2. at \in Specs /\ call = "build" /\ UNCHANGED <<fitVars, jobs, stage, steppers, specs, at>>
  BY DEF VerifyClaim, Building, fitVars
<1>3. at \in 0 .. MaxJobs /\ 0 \in 0 .. MaxJobs
  BY <1>1, <1>2, SpecsAreNumbers, JobsAssumption
<1>4. CASE /\ specs[at].claim = "true" /\ verified' = verified \union {at}
           /\ UNCHANGED <<call, raised>>
  <2>1. CallTypeOK'
    BY <1>1, <1>2, <1>4 DEF CallTypeOK, Jobs, Specs
  <2>2. BuildInv'
    BY <1>1, <1>2, <1>4 DEF BuildInv, Built, Has, Specs, Jobs
  <2>3. RunInv'
    BY <1>1, <1>2, <1>4 DEF RunInv, Has, Specs
  <2>4. RaisedInv'
    BY <1>1, <1>2, <1>4 DEF RaisedInv, NotRaised
  <2>. QED
    BY <2>1, <2>2, <2>3, <2>4 DEF CallInv
<1>5. CASE specs[at].claim = "false" /\ Raise("disjoint", at) /\ UNCHANGED verified
  <2>1. specs[at].problem \notin {"method", "terms"}
    <3>1. ~Has("method")
      BY <1>1, <1>2 DEF BuildInv
    <3>2. specs[at].problem # "terms"
      BY DEF VerifyClaim
    <3>. QED
      BY <1>2, <3>1, <3>2 DEF Has
  <2>2. Bad(at) /\ OwnError(at) = "disjoint"
    BY <1>2, <1>5, <2>1, OwnErrors
  <2>. QED
    BY <1>2, <1>3, <1>5, <2>2, RaisingKeepsCallInv
<1>6. CASE (Raise("interrupted", 0) \/ Raise("walk", 0)) /\ UNCHANGED verified
  BY <1>2, <1>3, <1>6, RaisingKeepsCallInv
<1>. QED
  BY <1>4, <1>5, <1>6 DEF VerifyClaim

\* The steps of building that raise nothing.
LEMMA BuildingKeepsCallInv ==
  ASSUME FitInv, CallInv, Validated \/ Compile \/ MakeJobs
  PROVE  CallInv'
<1>1. CallTypeOK /\ BuildInv /\ RunInv /\ RaisedInv
  BY DEF CallInv
<1>2. UNCHANGED <<fitVars, jobs, stage, steppers, specs, verified, raised>>
  BY DEF Validated, Compile, MakeJobs, fitVars
<1>3. PICK n \in 0 .. MaxJobs :
           /\ n \in Nat /\ Specs = 1 .. n /\ Len(specs) = n /\ at \in 1 .. n + 1 /\ at \in Nat
           /\ \A k \in Specs : k \in Nat
  BY <1>1, SpecsAreNumbers
<1>4. /\ call \in {"validate", "build"} /\ call' \in {"build", "run"}
      /\ raised = NotRaised
  BY <1>1 DEF Validated, Compile, MakeJobs, Building, RaisedInv
<1>5. CallTypeOK'
  <2>1. at' \in 1 .. n + 1
    BY <1>3 DEF Validated, Compile, MakeJobs, Building
  <2>. QED
    BY <1>1, <1>2, <1>3, <1>4, <2>1 DEF CallTypeOK, Jobs, Specs
<1>6. BuildInv'
  <2>1. ASSUME NEW k \in Specs, k < at'
        PROVE  Built(k)
    <3>1. CASE k < at
      BY <1>1, <3>1 DEF BuildInv
    <3>2. CASE ~(k < at)
      <4>1. Compile
        BY <2>1, <3>2 DEF Validated, MakeJobs
      <4>2. k = at
        BY <1>3, <2>1, <3>2, <4>1 DEF Compile
      <4>. QED
        BY <1>3, <4>1, <4>2 DEF Compile, Building, NeedsVerifying, Built
    <3>. QED
      BY <3>1, <3>2
  <2>2. \A k \in Specs' : k < at' => Built(k)'
    BY <1>2, <2>1 DEF Specs, Built
  <2>3. ~Has("method")' /\ (call' = "run" => at' \notin Specs' /\ ~Has("overdispersion")')
    BY <1>1, <1>2 DEF Validated, Compile, MakeJobs, Building, BuildInv, Has, Specs
  <2>. QED
    BY <1>1, <1>2, <1>4, <2>2, <2>3 DEF BuildInv, Jobs
<1>7. RunInv' /\ RaisedInv'
  BY <1>1, <1>2, <1>4 DEF RunInv, RaisedInv, Has, Specs, NotRaised
<1>. QED
  BY <1>5, <1>6, <1>7 DEF CallInv

LEMMA AnswerKeepsCallInv ==
  ASSUME FitInv, CallInv, Answer
  PROVE  CallInv'
<1>1. CallTypeOK /\ BuildInv /\ RunInv /\ RaisedInv
  BY DEF CallInv
<1>2. /\ UNCHANGED <<fitVars, jobs, stage, steppers, specs, at, verified, raised>>
      /\ call = "run" /\ call' = "returned" /\ stage = "returned" /\ ~WasInterrupted
  BY DEF Answer, fitVars
<1>3. CallTypeOK'
  BY <1>1, <1>2 DEF CallTypeOK, Jobs, Specs
<1>4. BuildInv'
  BY <1>1, <1>2 DEF BuildInv, Built, Has, Specs, Jobs
<1>5. RunInv'
  BY <1>1, <1>2 DEF RunInv, Has, Specs, WasInterrupted, Jobs
<1>6. RaisedInv'
  BY <1>1, <1>2 DEF RaisedInv, NotRaised
<1>. QED
  BY <1>3, <1>4, <1>5, <1>6 DEF CallInv

LEMMA RunFitsKeepsCallInv ==
  ASSUME FitInv, CallInv, RunFits
  PROVE  CallInv'
<1>1. CallTypeOK /\ BuildInv /\ RunInv /\ RaisedInv
  BY DEF CallInv
<1>2. UNCHANGED <<jobs, specs, call, at, verified, raised>> /\ call = "run"
  BY DEF RunFits, FitStep, Refuse, Begin, PassOver, PrepareWalk, Return, Walk,
         WalkInterrupted, WalkThrows, ReceiveTotals, ReceiveMismatched, NextRound
<1>3. CallTypeOK'
  BY <1>1, <1>2 DEF CallTypeOK, Jobs, Specs
<1>4. BuildInv'
  BY <1>1, <1>2 DEF BuildInv, Built, Has, Specs, Jobs
<1>5. RunInv'
  <2>1. CASE Begin
    <3>1. \A j \in Jobs : jobs[j].fault # "start"
      BY <2>1 DEF Begin, BadControl
    <3>2. Specs = Jobs
      BY <1>1, SpecsAreNumbers
    <3>3. ~Has("start")
      BY <1>1, <3>1, <3>2 DEF BuildInv, Has
    <3>. QED
      BY <1>2, <3>3 DEF RunInv, Has, Specs
  <2>2. CASE stage' = "threw" \/ stage \in {"prepare", "receive"}
    BY <1>1, <1>2, <2>2 DEF RunInv, Has, Specs
  <2>. QED
    BY <2>1, <2>2 DEF RunFits, FitStep, Refuse, PassOver, PrepareWalk, Return, Walk,
         WalkInterrupted, WalkThrows, ReceiveTotals, ReceiveMismatched, NextRound,
         Preparing, AtWalk, Prepared
<1>6. RaisedInv'
  BY <1>1, <1>2 DEF RaisedInv, NotRaised
<1>. QED
  BY <1>3, <1>4, <1>5, <1>6 DEF CallInv

LEMMA CallStepKeepsCallInv ==
  FitInv /\ CallInv /\ [CallNext]_allVars => FitInv' /\ CallInv'
<1>. SUFFICES ASSUME FitInv, CallInv, [CallNext]_allVars PROVE FitInv' /\ CallInv'
  OBVIOUS
<1>1. [FitNext]_fitVars
  BY DEF CallNext, RefuseMethod, Validated, TermsFail, VerifyClaim, ModelFails, Compile,
         RefuseOverdispersion, MakeJobs, RunFits, Answer, RaiseInterrupt, LetThrough,
         FitNext, allVars
<1>2. FitInv'
  BY <1>1, FitStepKeepsFitInv
<1>3. CASE UNCHANGED allVars
  <2>1. UNCHANGED <<jobs, stage, steppers, specs, call, at, verified, raised>>
    BY <1>3 DEF allVars, callVars, fitVars
  <2>2. CallTypeOK' /\ BuildInv'
    BY <2>1 DEF CallInv, CallTypeOK, BuildInv, Built, Has, Specs, Jobs
  <2>3. RunInv' /\ RaisedInv'
    BY <2>1 DEF CallInv, RunInv, RaisedInv, WasInterrupted, Bad, OwnError, Has, Specs, Jobs
  <2>. QED
    BY <1>2, <2>2, <2>3 DEF CallInv
<1>4. CASE CallNext /\ ~UNCHANGED allVars
  BY <1>2, <1>4, RefusalsKeepCallInv, VerifyClaimKeepsCallInv, BuildingKeepsCallInv,
     RunFitsKeepsCallInv, AnswerKeepsCallInv DEF CallNext
<1>. QED
  BY <1>2, <1>3, <1>4

-----------------------------------------------------------------------------
\* The inductive invariant of a call, over that of its fits: specifications
\* are passed in order, and only what is in order is passed
\* (veil_for_R.cpp:2428-2540).
THEOREM CallInvariant == CallSpec => [](FitInv /\ CallInv)
<1>. QED
  BY CallStarts, CallStepKeepsCallInv, PTL DEF CallSpec

\* The state of a call is well typed (veil_for_R.cpp:2428).
THEOREM CallTypesAreKept == CallSpec => []CallTypeOK
<1>1. CallInv => CallTypeOK
  BY DEF CallInv
<1>. QED
  BY <1>1, CallInvariant, PTL

\* No fit is walked on a disjoint() claim that is false or that nobody checked
\* (veil_for_R.cpp:2479).
THEOREM ClaimsAreAlwaysVerified == CallSpec => []OnlyVerifiedClaimsAreUsed
<1>1. FitInv /\ CallInv => OnlyVerifiedClaimsAreUsed
  <2>. SUFFICES ASSUME FitInv, CallInv, call \in {"run", "returned"}, NEW j \in Specs,
                       specs[j].claim # "none"
                PROVE  j \in verified /\ specs[j].claim = "true"
    BY DEF OnlyVerifiedClaimsAreUsed
  <2>1. CallTypeOK /\ BuildInv
    BY DEF CallInv
  <2>2. j < at
    BY <2>1, SpecsAreNumbers DEF BuildInv
  <2>. QED
    BY <2>1, <2>2 DEF BuildInv, Built
<1>. QED
  BY <1>1, CallInvariant, PTL

\* R gets results only of fits that all ended on their own
\* (veil_for_R.cpp:2532).
THEOREM AnswersAreNeverInterrupted == CallSpec => []NoInterruptedAnswer
<1>1. FitInv /\ CallInv => NoInterruptedAnswer
  BY DEF FitInv, CallInv, RunInv, RaisedInv, InterruptEndsEveryFit, WasInterrupted,
         NoInterruptedAnswer
<1>. QED
  BY <1>1, CallInvariant, PTL

\* One bad fit fails a call in one way, wherever it sits in the list
\* (veil_for_R.cpp:2428).
THEOREM OneBadFitAlwaysFailsAlike == CallSpec => []OneBadFitFailsAlike
<1>1. FitInv /\ CallInv => OneBadFitFailsAlike
  <2>. SUFFICES ASSUME FitInv, CallInv, NEW j \in Specs,
                       Bad(j), \A k \in Specs \ {j} : ~Bad(k), CallOver,
                       raised.why \notin {"interrupted", "walk"}
                PROVE  raised = [why |-> OwnError(j), index |-> j]
    BY DEF OneBadFitFailsAlike
  <2>1. CallTypeOK /\ BuildInv /\ RunInv /\ RaisedInv
    BY DEF CallInv
  <2>2. CASE call = "returned"
    <3>1. j < at /\ specs[j] \in SpecType
      BY <2>1, <2>2, SpecsAreNumbers DEF BuildInv
    <3>2. specs[j].problem \notin {"terms", "model"} /\ specs[j].claim # "false"
      BY <2>1, <3>1 DEF BuildInv, Built
    <3>3. specs[j].problem \notin {"method", "overdispersion", "start"}
      BY <2>1, <2>2 DEF BuildInv, RunInv, Has
    <3>. QED
      BY <3>1, <3>2, <3>3 DEF SpecType, Problems, Bad
  <2>3. CASE call = "raised"
    <3>1. raised.index = j /\ raised.why = OwnError(j)
      BY <2>1, <2>3 DEF RaisedInv
    <3>. QED
      BY <2>1, <3>1 DEF CallTypeOK
  <2>. QED
    BY <2>2, <2>3 DEF CallOver
<1>. QED
  BY <1>1, CallInvariant, PTL
=============================================================================
