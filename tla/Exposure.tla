------------------------------ MODULE Exposure ------------------------------
(***************************************************************************)
(* One exposure cut into slots and one integral taken over them: the entry   *)
(* points' check of the time scale, buildTimeGrid and integrateSlots of      *)
(* src/src/veil/TimeGrid.hpp.                                               *)
(*                                                                         *)
(* Two integrands are followed, those whose integrals are known exactly:     *)
(* one, whose integral is the length of the exposure, and time itself.       *)
(* Totals are in clicks, and clicks times clicks.                           *)
(***************************************************************************)
EXTENDS TimeGrid

CONSTANTS
  Exposures,  \* records [start, end, died]
  Asked       \* the time scales a caller may pass

ASSUME ExposureAssumption ==
  /\ Exposures \subseteq [start : Int, end : Int, died : BOOLEAN]
  /\ Asked \subseteq Int

VARIABLES
  exposure,  \* argument
  scale,     \* argument: deltaTClicks
  stage,     \* "asked", "grid", "full", "final", "done" or "refused"
  grid,      \* the grid, once it is built
  slot,      \* how many slots have been added
  length,    \* the total for the integrand one
  moment     \* the total for the integrand time

exposureVars == <<exposure, scale, stage, grid, slot, length, moment>>

ExposureInit ==
  /\ exposure \in Exposures
  /\ scale \in Asked
  /\ stage = "asked"
  /\ grid = EmptyTimeGrid
  /\ slot = 0 /\ length = 0 /\ moment = 0

\* validateTimeScaleClicks: a bare count of intervals is not a time scale.
RefuseTimeScale ==
  /\ stage = "asked"
  /\ scale \notin TimeScales
  /\ stage' = "refused"
  /\ UNCHANGED <<exposure, scale, grid, slot, length, moment>>

AcceptTimeScale ==
  /\ stage = "asked"
  /\ scale \in TimeScales
  /\ stage' = "grid"
  /\ UNCHANGED <<exposure, scale, grid, slot, length, moment>>

RefuseExposure ==
  /\ stage = "grid"
  /\ Unusable(exposure)
  /\ stage' = "refused"
  /\ UNCHANGED <<exposure, scale, grid, slot, length, moment>>

Build ==
  /\ stage = "grid"
  /\ ~Unusable(exposure)
  /\ grid' = BuildTimeGrid(exposure, scale)
  /\ stage' = "full"
  /\ UNCHANGED <<exposure, scale, slot, length, moment>>

\* The full slots are summed bare.
AddFullSlot ==
  /\ stage = "full" /\ slot < grid.fullSlots
  /\ slot' = slot + 1
  /\ length' = length + 1
  /\ moment' = moment + ClicksAt(grid, slot + 1)
  /\ UNCHANGED <<exposure, scale, stage, grid>>

\* Their sum is scaled once.
Scale ==
  /\ stage = "full" /\ slot = grid.fullSlots
  /\ length' = length * grid.deltaT
  /\ moment' = moment * grid.deltaT
  /\ stage' = "final"
  /\ UNCHANGED <<exposure, scale, grid, slot>>

\* Mistake: the final slot is weighted as a full one.
AddFinalSlotWhole ==
  /\ stage = "final" /\ grid.integrationSlots > grid.fullSlots
  /\ slot' = slot + 1
  /\ length' = length + grid.deltaT
  /\ moment' = moment + ClicksAt(grid, slot + 1) * grid.deltaT
  /\ stage' = "done"
  /\ UNCHANGED <<exposure, scale, grid>>

AddFinalSlot ==
  /\ stage = "final" /\ grid.integrationSlots > grid.fullSlots
  /\ slot' = slot + 1
  /\ length' = length + grid.finalWidth
  /\ moment' = moment + ClicksAt(grid, slot + 1) * grid.finalWidth
  /\ stage' = "done"
  /\ UNCHANGED <<exposure, scale, grid>>

NoFinalSlot ==
  /\ stage = "final" /\ grid.integrationSlots = grid.fullSlots
  /\ stage' = "done"
  /\ UNCHANGED <<exposure, scale, grid, slot, length, moment>>

ExposureOver == stage \in {"done", "refused"}

ExposureNext ==
  \/ RefuseTimeScale \/ AcceptTimeScale \/ RefuseExposure \/ Build
  \/ AddFullSlot \/ Scale \/ AddFinalSlot \/ NoFinalSlot
  \/ ExposureOver /\ UNCHANGED exposureVars

ExposureSpec == ExposureInit /\ [][ExposureNext]_exposureVars

-----------------------------------------------------------------------------
Built == stage \in {"full", "final", "done"}

\* The part of the exposure a slot stands for.
From(n) == exposure.start + (n - 1) * scale
To(n) == IF n <= grid.fullSlots THEN From(n) + scale ELSE exposure.end

\* The slots divide the exposure: each weighs as much as its part is long and
\* more than nothing, the last part ends where the exposure does, and each is
\* sampled at its own middle, within half a click.  Samples come in order and
\* stay in the exposure, and only a death is sampled at its end besides.
SlotsDivideTheExposure ==
  Built =>
    /\ grid.integrationSlots >= 1
    /\ To(grid.integrationSlots) = exposure.end
    /\ \A n \in 1 .. grid.integrationSlots :
         LET twice == 2 * ClicksAt(grid, n) - (From(n) + To(n)) IN
         /\ WidthOf(grid, n) = To(n) - From(n)
         /\ WidthOf(grid, n) > 0
         /\ twice \in -1 .. 1
         /\ n <= grid.fullSlots => twice = 0
         /\ n > 1 => ClicksAt(grid, n - 1) < ClicksAt(grid, n)
         /\ exposure.start <= ClicksAt(grid, n) /\ ClicksAt(grid, n) <= exposure.end
    /\ SlotCount(grid) = grid.integrationSlots + 1 <=> exposure.died
    /\ exposure.died => ClicksAt(grid, SlotCount(grid)) = exposure.end

\* What the integrals are of the part of the exposure behind us, twice over.
TwiceMomentTo(c) == c * c - exposure.start * exposure.start

\* Half way through as at the end, the totals are the integrals of what has been
\* walked: exact over full intervals, and out by no more than half a click of the
\* width of the final one (test-veil_time.R:97 and :129).
TotalsAreTheIntegrals ==
  /\ stage = "full" =>
       /\ length * scale = From(slot + 1) - exposure.start
       /\ 2 * moment * scale = TwiceMomentTo(From(slot + 1))
  /\ stage = "done" =>
       /\ length = exposure.end - exposure.start
       /\ 2 * moment - TwiceMomentTo(exposure.end) \in -grid.finalWidth .. grid.finalWidth
       /\ grid.finalWidth % 2 = 0 => 2 * moment = TwiceMomentTo(exposure.end)
=============================================================================
