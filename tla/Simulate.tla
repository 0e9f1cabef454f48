------------------------------ MODULE Simulate -------------------------------
(***************************************************************************)
(* simulate() (src/R/simulate.R): a death drawn for every life of a          *)
(* population, one step of the hazard grid at a time for all lives together, *)
(* and the experience data made of it by exp_data().                        *)
(*                                                                         *)
(* The draw and the mortality are left open: in any step any life still      *)
(* alive may die at any instant, to the nearest click.  A life is            *)
(* [start, cap], its E2R_start and E2R_cap.                                 *)
(***************************************************************************)
EXTENDS ExpData, TimeGrid, FiniteSets

CONSTANTS
  Populations,  \* sequences of lives
  Missing,      \* R's NA
  ClicksPerDay

LifeType == [start : Int \union {Missing}, cap : Int \union {Missing}]

ASSUME SimAssumption ==
  /\ Populations \subseteq Seq(LifeType)
  /\ Missing \notin Int
  /\ ClicksPerDay \in Nat \ {0}
  /\ \A period \in Periods : IsValidDatey(period.start) /\ IsValidDatey(period.end)

VARIABLES
  lives,    \* argument: the population, none where a user gives the columns
  clicks,   \* argument: the time scale
  windows,  \* population: the observation window [id, from, to] of each life in it
  sampled,  \* history: where the mortality has been read, life by life
  death     \* instants of death, life by life

walkVars == <<lives, clicks, windows, sampled, death>>
simVars == <<dataVars, walkVars>>

\* The data is given, or simulated, its period known and its columns to be drawn.
SimInit ==
  /\ \/ DataInit /\ lives = <<>>
     \/ /\ lives \in Populations
        /\ given \in [columns : {<<>>}, period : Periods]
        /\ data = <<>> /\ assigned = FALSE /\ asAt = given.period.end /\ alive = <<>>
        /\ step = "prepare"
  /\ clicks \in IF lives = <<>> THEN {0} ELSE TimeScales
  /\ windows = <<>>
  /\ sampled = <<>>
  /\ death = <<>>

\* simulate_bound: a life without a start or a cap has the period's.
FromOf(life) ==
  IF life.start = Missing \/ life.start < Period.start THEN Period.start ELSE life.start
ToOf(life) ==
  IF life.cap = Missing \/ life.cap > Period.end THEN Period.end ELSE life.cap

RefusePeriod ==
  /\ step = "prepare"
  /\ Empty(Period)
  /\ step' = "refused"
  /\ UNCHANGED <<given, data, assigned, asAt, alive, walkVars>>

\* Lives that are not observed at all are dropped.
Windows ==
  LET all == [n \in DOMAIN lives |-> [id |-> n, from |-> FromOf(lives[n]), to |-> ToOf(lives[n])]]
  IN Where(all, {n \in DOMAIN all : all[n].from < all[n].to})

Prepare ==
  /\ step = "prepare"
  /\ ~Empty(Period)
  /\ windows' = Windows
  /\ sampled' = [n \in DOMAIN Windows |-> <<>>]
  /\ death' = [n \in DOMAIN Windows |-> Missing]
  /\ step' = "walk"
  /\ UNCHANGED <<given, data, assigned, asAt, alive, lives, clicks>>

-----------------------------------------------------------------------------
(* simulate_one().                                                          *)

Lives == DOMAIN windows

\* Every life that has not died has been sampled once for each step so far.
StepsTaken ==
  LET taken == {Len(sampled[n]) : n \in Lives}
  IN IF taken = {} THEN 0 ELSE CHOOSE k \in taken : \A j \in taken : j <= k

Begin(n) == windows[n].from + StepsTaken * clicks
End(n) == IF Begin(n) + clicks <= windows[n].to THEN Begin(n) + clicks ELSE windows[n].to
Active == {n \in Lives : death[n] = Missing /\ Begin(n) < windows[n].to}

\* Mistake: half of an odd sum is rounded down.
MidpointBelow(begin, end) == (begin + end) \div 2

\* simulate_midpoint: to the even click, if there is none in the middle.
Midpoint(begin, end) ==
  LET half == (begin + end) \div 2
  IN IF (begin + end) % 2 = 1 /\ half % 2 = 1 THEN half + 1 ELSE half

WalkStep ==
  /\ step = "walk"
  /\ Active # {}
  /\ sampled' = [n \in Lives |-> IF n \in Active
                                 THEN Append(sampled[n], Midpoint(Begin(n), End(n)))
                                 ELSE sampled[n]]
  /\ \E dying \in SUBSET Active :
       \E instant \in [dying -> Nat \intersect UNION {Begin(n) .. End(n) : n \in dying}] :
         /\ \A n \in dying : instant[n] \in Begin(n) .. End(n)
         /\ death' = [n \in Lives |-> IF n \in dying THEN instant[n] ELSE death[n]]
  /\ UNCHANGED <<dataVars, lives, clicks, windows>>

Day(click) == click \div ClicksPerDay

\* datey::mid_day.
MidDay(click) == Day(click) * ClicksPerDay + ClicksPerDay \div 2

Died(n) == death[n] # Missing

\* Mistake: midday is not held back to the cap.
RecordedAtMidDay(n) ==
  IF ~Died(n) THEN windows[n].to
  ELSE IF MidDay(death[n]) <= windows[n].from THEN death[n] ELSE MidDay(death[n])

\* A death is put at midday, unless that is past the window or not after its start.
RecordedEnd(n) ==
  IF ~Died(n) THEN windows[n].to
  ELSE LET midday == IF MidDay(death[n]) <= windows[n].from THEN death[n] ELSE MidDay(death[n])
       IN IF midday <= windows[n].to THEN midday ELSE windows[n].to

Recorded == [n \in Lives |-> [id |-> windows[n].id, start |-> windows[n].from,
                              end |-> RecordedEnd(n), died |-> Died(n), count |-> 1]]

\* The record is given to exp_data(), whose step is next.
Record ==
  /\ step = "walk"
  /\ Active = {}
  /\ given' = [given EXCEPT !.columns = Recorded]
  /\ step' = "columns"
  /\ UNCHANGED <<data, assigned, asAt, alive, walkVars>>

\* Bound: only given data is changed, drawn data being no different from it.
ChangeGiven ==
  /\ lives = <<>>
  /\ AssignColumn
  /\ UNCHANGED walkVars

SimNext ==
  \/ RefusePeriod \/ Prepare \/ WalkStep \/ Record
  \/ (MakeData \/ RefuseData \/ ValueData) /\ UNCHANGED walkVars
  \/ ChangeGiven
  \/ step \in {"valued", "refused"} /\ UNCHANGED simVars

SimSpec == SimInit /\ [][SimNext]_simVars
-----------------------------------------------------------------------------
\* A life in its window is an individual the engine could be given.
AsExposure(n) == [start |-> windows[n].from, end |-> windows[n].to, died |-> FALSE]

\* The mortality is read where the engine would read it for the life's whole window,
\* point by point up to the step in which the life dies (simulate.R:49), so that
\* data drawn from a mortality is neutral against it.
SampledOnTheEnginesGrid ==
  \A n \in DOMAIN sampled :
    LET grid == BuildTimeGrid(AsExposure(n), clicks)
    IN /\ ~Unusable(AsExposure(n))
       /\ Len(sampled[n]) <= grid.integrationSlots
       /\ \A k \in DOMAIN sampled[n] : sampled[n][k] = ClicksAt(grid, k)
       /\ step \in {"data", "valued"} /\ ~Died(n) => Len(sampled[n]) = grid.integrationSlots

\* Every life that is observed is in the data, in order, from the start of its window;
\* a death drawn is a death there, on the day it fell on unless the window ends
\* before, and a survivor is followed to the end of its window (simulate.R:40, :56).
EveryLifeIsFollowed ==
  step = "data" /\ ~assigned /\ lives # <<>> =>
    /\ Len(data) = Len(windows)
    /\ \A n \in Lives :
         /\ data[n].id = windows[n].id
         /\ data[n].start = windows[n].from
         /\ data[n].died = Died(n)
         /\ data[n].end <= windows[n].to
         /\ IF Died(n) THEN Day(data[n].end) = Day(death[n]) ELSE data[n].end = windows[n].to

\* What exp_data() is given is always in order: a death on the day its life entered,
\* after the midday of it, keeps its instant and so is no empty exposure
\* (simulate.R:246).
DeathsFollowEntry ==
  windows # <<>> => step # "refused"
=============================================================================
