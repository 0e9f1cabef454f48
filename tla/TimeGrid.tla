------------------------------ MODULE TimeGrid ------------------------------
(***************************************************************************)
(* The time vector of one individual (src/src/veil/TimeGrid.hpp): where the  *)
(* integration samples their exposure.                                      *)
(*                                                                         *)
(* Everything is in clicks, whole numbers of them.  Slots are numbered from  *)
(* 1: the full intervals, then the short final one if there is a remainder,  *)
(* then the end of the exposure itself if the individual died.               *)
(***************************************************************************)
EXTENDS Integers

CONSTANTS
  ClicksPerYear,
  IntervalsPerYear,  \* the permitted fractions of a year, 1/n for each n
  FirstClick,        \* ValidDateStartClicks and
  LastClick          \* ValidDateEndClicks

TimeScales == {ClicksPerYear \div n : n \in IntervalsPerYear}

\* A static_assert: each interval, and half of it, is a whole number of clicks.
ASSUME WholeClicks ==
  /\ ClicksPerYear \in Nat \ {0}
  /\ FirstClick \in Int /\ LastClick \in Int
  /\ IntervalsPerYear \subseteq Nat \ {0}
  /\ \A n \in IntervalsPerYear :
       ClicksPerYear % n = 0 /\ (ClicksPerYear \div n) % 2 = 0 /\ ClicksPerYear \div n > 0

\* R's missing integer is below the first click, so this finds it too.
IsValidDatey(c) == FirstClick <= c /\ c <= LastClick

\* Half of a click count, to even.
HalveClicks(v) == (v + ((v \div 2) % 2)) \div 2

\* What buildTimeGrid refuses.
Unusable(e) == ~IsValidDatey(e.start) \/ ~IsValidDatey(e.end) \/ e.end <= e.start

\* Mistake: a remainder is there whenever the exposure is not empty.
RemainderAtLeastZero(e, dt) == (e.end - e.start) % dt >= 0

HasRemainder(e, dt) == (e.end - e.start) % dt > 0

\* The grid of an exposure that is not Unusable.
BuildTimeGrid(e, dt) ==
  LET full == (e.end - e.start) \div dt
      rest == (e.end - e.start) % dt
  IN [fullSlots        |-> full,
      integrationSlots |-> full + (IF HasRemainder(e, dt) THEN 1 ELSE 0),
      finalWidth       |-> rest,
      firstSlot        |-> e.start + dt \div 2,
      deltaT           |-> dt,
      finalSlot        |-> IF HasRemainder(e, dt)
                           THEN HalveClicks(e.start + full * dt + e.end) ELSE 0,
      hasDeathSlot     |-> e.died,
      deathSlot        |-> e.end]

\* TimeGrid{}, what an individual the include empties is left with.
EmptyTimeGrid ==
  [fullSlots |-> 0, integrationSlots |-> 0, finalWidth |-> 0, firstSlot |-> 0,
   deltaT |-> 0, finalSlot |-> 0, hasDeathSlot |-> FALSE, deathSlot |-> 0]

SlotCount(g) == g.integrationSlots + (IF g.hasDeathSlot THEN 1 ELSE 0)

\* The sample point at one slot.
ClicksAt(g, slot) ==
  IF slot <= g.fullSlots THEN g.firstSlot + (slot - 1) * g.deltaT
  ELSE IF slot <= g.integrationSlots THEN g.finalSlot ELSE g.deathSlot

\* The width each slot is weighted by; the death slot is not integrated.
WidthOf(g, slot) == IF slot <= g.fullSlots THEN g.deltaT ELSE g.finalWidth
=============================================================================
