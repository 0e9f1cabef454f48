------------------------------- MODULE FitCall -------------------------------
(***************************************************************************)
(* A call of runFitSpecs (src/src/veil_for_R.cpp), which every fit of the    *)
(* package goes through: the arguments are validated, each specification is  *)
(* compiled (after a walk of the data that verifies its disjoint() claim,    *)
(* if it makes one), the jobs are made, and runFits is run.  The module      *)
(* composes with FitLoop, whose steps are those of the last stage.           *)
(***************************************************************************)
EXTENDS FitLoop

\* What can be wrong with a specification, in the order the code meets it:
\* max_iterations, tolerance or armijo; its terms or its include; the rest of its model;
\* its overdispersion; its start or Z, which runFits refuses.
Problems == {"none", "method", "terms", "model", "overdispersion", "start"}

\* Whether a disjoint() claim is made over two terms or more, and is true.
Claims == {"none", "true", "false"}

SpecType == [problem : Problems, claim : Claims]

VARIABLES
  specs,      \* argument
  call,       \* where runFitSpecs is
  at,         \* the specification being built
  verified,   \* the specifications whose claim has been verified
  raised      \* why the call raised, and for which specification

callVars == <<specs, call, at, verified, raised>>
allVars == <<fitVars, callVars>>

Specs == DOMAIN specs
NotRaised == [why |-> "nothing", index |-> 0]

CallInit ==
  /\ FitInit
  /\ specs \in [Jobs -> SpecType]
  /\ \A j \in Jobs :
       /\ jobs[j].block = j
       /\ jobs[j].fault = IF specs[j].problem = "start" THEN "start" ELSE "none"
  /\ call = "validate"
  /\ at = 1
  /\ verified = {}
  /\ raised = NotRaised

Raise(why, which) ==
  /\ call' = "raised"
  /\ raised' = [why |-> why, index |-> which]

\* Mistake: the arguments of the first specification alone are looked at.
HasInFirst(what) == specs # <<>> /\ specs[1].problem = what

Has(what) == \E j \in Specs : specs[j].problem = what
FirstWith(what) ==
  CHOOSE j \in Specs : specs[j].problem = what
                       /\ \A k \in Specs : specs[k].problem = what => j <= k

-----------------------------------------------------------------------------
RefuseMethod ==
  /\ call = "validate"
  /\ Has("method")
  /\ Raise("method", FirstWith("method"))
  /\ UNCHANGED <<fitVars, specs, at, verified>>

Validated ==
  /\ call = "validate"
  /\ ~Has("method")
  /\ call' = "build"
  /\ UNCHANGED <<fitVars, specs, at, verified, raised>>

Building == call = "build" /\ at \in Specs
\* Mistake: the claim is verified for the first specification alone.
FirstNeedsVerifying == specs[at].claim # "none" /\ verified = {}

NeedsVerifying == specs[at].claim # "none" /\ at \notin verified

\* The terms do not compile: met by the verifying block if there is one.
TermsFail ==
  /\ Building
  /\ specs[at].problem = "terms"
  /\ Raise("terms", at)
  /\ UNCHANGED <<fitVars, specs, at, verified>>

\* runDisjointCheck: a walk of the data before this specification is compiled.
VerifyClaim ==
  /\ Building /\ NeedsVerifying
  /\ specs[at].problem # "terms"
  /\ \/ /\ specs[at].claim = "true"
        /\ verified' = verified \union {at}
        /\ UNCHANGED <<call, raised>>
     \/ /\ specs[at].claim = "false"
        /\ Raise("disjoint", at)
        /\ UNCHANGED verified
     \/ /\ Raise("interrupted", 0) \/ Raise("walk", 0)
        /\ UNCHANGED verified
  /\ UNCHANGED <<fitVars, specs, at>>

ModelFails ==
  /\ Building /\ ~NeedsVerifying
  /\ specs[at].problem = "model"
  /\ Raise("model", at)
  /\ UNCHANGED <<fitVars, specs, at, verified>>

Compile ==
  /\ Building /\ ~NeedsVerifying
  /\ specs[at].problem \notin {"terms", "model"}
  /\ at' = at + 1
  /\ UNCHANGED <<fitVars, specs, call, verified, raised>>

\* The jobs are made once every block is built.
RefuseOverdispersion ==
  /\ call = "build" /\ at \notin Specs
  /\ Has("overdispersion")
  /\ Raise("overdispersion", FirstWith("overdispersion"))
  /\ UNCHANGED <<fitVars, specs, at, verified>>

MakeJobs ==
  /\ call = "build" /\ at \notin Specs
  /\ ~Has("overdispersion")
  /\ call' = "run"
  /\ UNCHANGED <<fitVars, specs, at, verified, raised>>

RunFits ==
  /\ call = "run"
  /\ FitStep
  /\ UNCHANGED <<specs, call, at, verified, raised>>

\* Mistake: one fit is asked for them all.
FirstWasInterrupted == jobs # <<>> /\ steppers[1].status = "Interrupted"

WasInterrupted == \E j \in Jobs : steppers[j].status = "Interrupted"

Answer ==
  /\ call = "run"
  /\ stage = "returned"
  /\ ~WasInterrupted
  /\ call' = "returned"
  /\ UNCHANGED <<fitVars, specs, at, verified, raised>>

RaiseInterrupt ==
  /\ call = "run"
  /\ stage = "returned"
  /\ WasInterrupted
  /\ Raise("interrupted", 0)
  /\ UNCHANGED <<fitVars, specs, at, verified>>

\* An exception of runFits leaves the call: a refused job, or a walk that threw.
LetThrough ==
  /\ call = "run"
  /\ stage = "threw"
  /\ IF Has("start") THEN Raise("start", FirstWith("start")) ELSE Raise("walk", 0)
  /\ UNCHANGED <<fitVars, specs, at, verified>>

CallOver == call \in {"returned", "raised"}

CallNext ==
  \/ RefuseMethod \/ Validated
  \/ TermsFail \/ VerifyClaim \/ ModelFails \/ Compile
  \/ RefuseOverdispersion \/ MakeJobs
  \/ RunFits \/ Answer \/ RaiseInterrupt \/ LetThrough
  \/ CallOver /\ UNCHANGED allVars

CallSpec == CallInit /\ [][CallNext]_allVars

-----------------------------------------------------------------------------
CallTypeOK ==
  /\ specs \in [Jobs -> SpecType]
  /\ call \in {"validate", "build", "run", "returned", "raised"}
  /\ at \in 1 .. Len(specs) + 1
  /\ verified \subseteq Specs
  /\ raised \in [why : (Problems \ {"none"}) \union
                       {"nothing", "disjoint", "interrupted", "walk"},
                 index : 0 .. MaxJobs]

\* The off-diagonal sums are left out only where their claim was verified
\* against the data: no fit is walked on an assertion that is false or that
\* nobody checked (veil_for_R.cpp:2479).
OnlyVerifiedClaimsAreUsed ==
  call \in {"run", "returned"} =>
    \A j \in Specs : specs[j].claim # "none" => j \in verified /\ specs[j].claim = "true"

\* Results are handed to R only when every fit ended on its own: an interrupt
\* anywhere in the call voids all of it (veil_for_R.cpp:2532).
NoInterruptedAnswer ==
  call = "returned" =>
    /\ raised = NotRaised
    /\ \A j \in Jobs : Finished(steppers[j]) /\ steppers[j].status # "Interrupted"

Bad(j) == specs[j].problem # "none" \/ specs[j].claim = "false"

\* The kinds of error one bad specification can end in: its own, of which the
\* first the code meets is the one raised.
OwnError(j) ==
  CASE specs[j].problem \in {"method", "terms"} -> specs[j].problem
    [] specs[j].problem \notin {"method", "terms"} /\ specs[j].claim = "false" -> "disjoint"
    [] OTHER -> specs[j].problem

\* A call with one bad fit fails the same way wherever that fit sits in the
\* list and whatever the others do, unless a walk itself failed first
\* (veil_for_R.cpp:2428).
OneBadFitFailsAlike ==
  \A j \in Specs :
    Bad(j) /\ (\A k \in Specs \ {j} : ~Bad(k)) /\ CallOver =>
      \/ raised = [why |-> OwnError(j), index |-> j]
      \/ raised.why \in {"interrupted", "walk"}
=============================================================================
