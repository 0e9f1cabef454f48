--------------------------- MODULE ExposureProofs ---------------------------
(***************************************************************************)
(* Proofs about the time grid and the integral over it, for every exposure,  *)
(* every permitted time scale and every calendar: a mathematician's check    *)
(* that buildTimeGrid's integer divisions do what they are meant to.         *)
(***************************************************************************)
EXTENDS Exposure, DataInduction

-----------------------------------------------------------------------------
(* Whole numbers.                                                           *)

\* A half is rounded by no more than half, and only when it must be.
LEMMA HalvesAreClose ==
  ASSUME NEW v \in Int
  PROVE  /\ HalveClicks(v) \in Int
         /\ 2 * HalveClicks(v) - v \in -1 .. 1
         /\ v % 2 = 0 => 2 * HalveClicks(v) = v
BY DEF HalveClicks

LEMMA SumOfTwoIsEven ==
  ASSUME NEW a \in Int, NEW r \in Int, r % 2 = 0
  PROVE  (2 * a + r) % 2 = 0
OBVIOUS

LEMMA DifferenceOfSquares ==
  ASSUME NEW s \in Int, NEW f \in Int, NEW r \in Int, NEW e \in Int
  PROVE  (f * f - s * s) + (f + (f + r) + e) * r = ((f + r) * (f + r) - s * s) + e * r
OBVIOUS

LEMMA SquareOfSum ==
  ASSUME NEW s \in Int, NEW n \in Int, NEW d \in Int
  PROVE  (2 * n * s + n * n * d) * d = (s + n * d) * (s + n * d) - s * s
OBVIOUS

-----------------------------------------------------------------------------
(* The time scales, and the grid of an exposure that can be used.           *)

\* A permitted time scale is a whole even number of clicks, more than none.
LEMMA TimeScalesAreEven ==
  ASSUME NEW dt \in TimeScales
  PROVE  dt \in Nat /\ dt > 0 /\ dt % 2 = 0
<1>1. PICK n \in IntervalsPerYear : dt = ClicksPerYear \div n
  BY DEF TimeScales
<1>2. n \in Nat /\ n > 0 /\ ClicksPerYear \in Nat
  BY WholeClicks
<1>3. dt \in Nat
  BY <1>1, <1>2, DivisionWithRemainder
<1>. QED
  BY <1>1, <1>3, WholeClicks

\* What there is to know of the grid of an exposure from s to t: n whole slots
\* and a rest r, the middle of the rest being m, out by half of e.
LEMMA GridOfAnExposure ==
  ASSUME NEW e \in [start : Int, end : Int, died : BOOLEAN], ~Unusable(e), NEW dt \in TimeScales
  PROVE  LET g == BuildTimeGrid(e, dt)
             n == g.fullSlots
             r == g.finalWidth
         IN /\ dt \in Nat /\ dt > 0
            /\ n \in Nat /\ r \in Nat /\ r < dt
            /\ e.end = e.start + n * dt + r
            /\ g.deltaT = dt /\ g.firstSlot \in Int /\ 2 * g.firstSlot = 2 * e.start + dt
            /\ g.hasDeathSlot = e.died /\ g.deathSlot = e.end
            /\ r = 0 => g.integrationSlots = n /\ n > 0
            /\ r > 0 => /\ g.integrationSlots = n + 1
                        /\ g.finalSlot \in Int
                        /\ 2 * g.finalSlot - (e.start + n * dt + e.end) \in -1 .. 1
                        /\ r % 2 = 0 => 2 * g.finalSlot = e.start + n * dt + e.end
<1>. DEFINE w == e.end - e.start
            n == w \div dt
            r == w % dt
            f == e.start + n * dt
            g == BuildTimeGrid(e, dt)
<1>1. dt \in Nat /\ dt > 0 /\ dt % 2 = 0
  BY TimeScalesAreEven
<1>2. w \in Nat /\ w > 0 /\ e.start \in Int /\ e.end \in Int
  BY DEF Unusable
<1>3. n \in Nat /\ r \in Nat /\ w = n * dt + r /\ r < dt
  BY <1>1, <1>2, DivisionWithRemainder
<1>4. dt \div 2 \in Int /\ 2 * (dt \div 2) = dt
  BY <1>1, EvenIsTwiceItsHalf
<1>5. /\ g.fullSlots = n /\ g.finalWidth = r /\ g.deltaT = dt
      /\ g.firstSlot = e.start + dt \div 2
      /\ g.hasDeathSlot = e.died /\ g.deathSlot = e.end
      /\ r = 0 => g.integrationSlots = n
      /\ r > 0 => g.integrationSlots = n + 1 /\ g.finalSlot = HalveClicks(f + e.end)
  BY <1>3 DEF BuildTimeGrid, HasRemainder
<1>6. n * dt \in Int
  BY <1>1, <1>3
<1>. HIDE DEF n, r
<1>7. f \in Int /\ e.end = f + r
  BY <1>2, <1>3, <1>6
<1>8. r = 0 => n > 0
  <2>1. CASE n = 0
    BY <1>1, <1>2, <1>3, <2>1
  <2>. QED
    BY <1>3, <2>1
<1>9. /\ HalveClicks(f + e.end) \in Int
      /\ 2 * HalveClicks(f + e.end) - (f + e.end) \in -1 .. 1
      /\ (f + e.end) % 2 = 0 => 2 * HalveClicks(f + e.end) = f + e.end
  BY <1>2, <1>7, HalvesAreClose
<1>10. r % 2 = 0 => (f + e.end) % 2 = 0
  <2>1. f + e.end = 2 * f + r
    BY <1>2, <1>3, <1>7
  <2>. QED
    BY <1>3, <1>7, <2>1, SumOfTwoIsEven
<1>11. g.firstSlot \in Int /\ 2 * g.firstSlot = 2 * e.start + dt
  BY <1>1, <1>2, <1>4, <1>5
<1>. QED
  BY <1>1, <1>3, <1>5, <1>7, <1>8, <1>9, <1>10, <1>11

-----------------------------------------------------------------------------
(* The inductive invariant.                                                 *)

\* Over the full slots the bare totals are those of an arithmetic progression.
ExposureInv ==
  /\ exposure \in [start : Int, end : Int, died : BOOLEAN]
  /\ stage \in {"asked", "grid", "full", "final", "done", "refused"}
  /\ stage = "grid" => scale \in TimeScales
  /\ stage \in {"asked", "grid"} => slot = 0 /\ length = 0 /\ moment = 0
  /\ Built =>
       scale \in TimeScales /\ ~Unusable(exposure) /\ grid = BuildTimeGrid(exposure, scale)
  /\ stage = "full" =>
       /\ slot \in 0 .. grid.fullSlots
       /\ length = slot
       /\ moment \in Int /\ 2 * moment = 2 * slot * exposure.start + slot * slot * scale
  /\ stage = "final" =>
       /\ slot = grid.fullSlots
       /\ length = slot * scale
       /\ moment \in Int /\ 2 * moment = TwiceMomentTo(exposure.start + slot * scale)
  /\ stage = "done" =>
       /\ length = exposure.end - exposure.start
       /\ moment \in Int
       /\ 2 * moment - TwiceMomentTo(exposure.end) \in -grid.finalWidth .. grid.finalWidth
       /\ grid.finalWidth % 2 = 0 => 2 * moment = TwiceMomentTo(exposure.end)

LEMMA ExposureStarts ==
  ASSUME ExposureInit
  PROVE  ExposureInv
BY ExposureAssumption DEF ExposureInit, ExposureInv, Built

\* A built grid, in the invariant's words.
LEMMA BuiltGrid ==
  ASSUME ExposureInv, Built
  PROVE  /\ scale \in Nat /\ scale > 0
         /\ exposure.start \in Int /\ exposure.end \in Int /\ exposure.died \in BOOLEAN
         /\ grid.fullSlots \in Nat /\ grid.finalWidth \in Nat /\ grid.finalWidth < scale
         /\ exposure.end = exposure.start + grid.fullSlots * scale + grid.finalWidth
         /\ grid.deltaT = scale
         /\ grid.firstSlot \in Int /\ 2 * grid.firstSlot = 2 * exposure.start + scale
         /\ grid.hasDeathSlot = exposure.died /\ grid.deathSlot = exposure.end
         /\ grid.finalWidth = 0 => grid.integrationSlots = grid.fullSlots /\ grid.fullSlots > 0
         /\ grid.finalWidth > 0 =>
              LET whole == exposure.start + grid.fullSlots * scale + exposure.end
              IN /\ grid.integrationSlots = grid.fullSlots + 1
                 /\ grid.finalSlot \in Int
                 /\ 2 * grid.finalSlot - whole \in -1 .. 1
                 /\ grid.finalWidth % 2 = 0 => 2 * grid.finalSlot = whole
<1>1. /\ exposure \in [start : Int, end : Int, died : BOOLEAN]
      /\ scale \in TimeScales /\ ~Unusable(exposure) /\ grid = BuildTimeGrid(exposure, scale)
  BY DEF ExposureInv
<1>. QED
  BY <1>1, GridOfAnExposure

LEMMA BuildKeeps ==
  ASSUME ExposureInv, Build
  PROVE  ExposureInv'
<1>1. scale \in TimeScales /\ slot = 0 /\ length = 0 /\ moment = 0
  BY DEF ExposureInv, Build
<1>2. BuildTimeGrid(exposure, scale).fullSlots \in Nat /\ scale \in Nat
  BY <1>1, GridOfAnExposure DEF ExposureInv, Build
<1>3. exposure.start \in Int
  BY DEF ExposureInv
<1>. QED
  BY <1>1, <1>2, <1>3 DEF ExposureInv, Build, Built

LEMMA AddFullSlotKeeps ==
  ASSUME ExposureInv, AddFullSlot
  PROVE  ExposureInv'
<1>. DEFINE n == slot
            s == exposure.start
<1>1. Built
  BY DEF AddFullSlot, Built
<1>2. /\ n \in Nat /\ n < grid.fullSlots /\ moment \in Int
      /\ 2 * moment = 2 * n * s + n * n * scale /\ length = n
  BY <1>1, BuiltGrid DEF ExposureInv, AddFullSlot
<1>3. /\ ClicksAt(grid, n + 1) = grid.firstSlot + n * scale
      /\ grid.firstSlot \in Int /\ 2 * grid.firstSlot = 2 * s + scale
      /\ s \in Int /\ scale \in Int
  BY <1>1, <1>2, BuiltGrid DEF ClicksAt
<1>4. moment' \in Int /\ 2 * moment' = 2 * (n + 1) * s + (n + 1) * (n + 1) * scale
  <2>1. moment' = moment + (grid.firstSlot + n * scale)
    BY <1>3 DEF AddFullSlot
  <2>2. 2 * moment' = 2 * n * s + n * n * scale + (2 * s + scale + 2 * n * scale)
    BY <1>2, <1>3, <2>1
  <2>. QED
    BY <1>2, <1>3, <2>1, <2>2
<1>5. slot' = n + 1 /\ length' = n + 1 /\ n + 1 \in 0 .. grid.fullSlots
  BY <1>1, <1>2, BuiltGrid DEF AddFullSlot
<1>6. UNCHANGED <<exposure, scale, stage, grid>> /\ stage = "full"
  BY DEF AddFullSlot
<1>. QED
  BY <1>1, <1>4, <1>5, <1>6 DEF ExposureInv, Built

LEMMA ScaleKeeps ==
  ASSUME ExposureInv, Scale
  PROVE  ExposureInv'
<1>1. Built
  BY DEF Scale, Built
<1>2. /\ slot \in Nat /\ moment \in Int /\ scale \in Int /\ exposure.start \in Int
      /\ 2 * moment = 2 * slot * exposure.start + slot * slot * scale
      /\ length = slot /\ grid.deltaT = scale
  BY <1>1, BuiltGrid DEF ExposureInv, Scale
<1>3. moment' = moment * scale /\ length' = slot * scale /\ moment' \in Int
  BY <1>2 DEF Scale
<1>4. 2 * moment' = (2 * slot * exposure.start + slot * slot * scale) * scale
  <2>1. 2 * moment' = (2 * moment) * scale
    BY <1>2, <1>3
  <2>. QED
    BY <1>2, <2>1
<1>5. 2 * moment' = TwiceMomentTo(exposure.start + slot * scale)
  BY <1>2, <1>4, SquareOfSum DEF TwiceMomentTo
<1>6. stage' = "final" /\ UNCHANGED <<exposure, scale, grid, slot>> /\ slot = grid.fullSlots
  BY DEF Scale
<1>7. TwiceMomentTo(exposure.start + slot * scale)' = TwiceMomentTo(exposure.start + slot * scale)
  BY <1>6 DEF TwiceMomentTo
<1>. QED
  BY <1>1, <1>3, <1>5, <1>6, <1>7 DEF ExposureInv, Built

LEMMA AddFinalSlotKeeps ==
  ASSUME ExposureInv, AddFinalSlot
  PROVE  ExposureInv'
<1>. DEFINE s == exposure.start
            r == grid.finalWidth
            f == s + slot * scale
            e == 2 * grid.finalSlot - (f + exposure.end)
<1>1. Built
  BY DEF AddFinalSlot, Built
<1>2. /\ slot = grid.fullSlots /\ length = slot * scale /\ moment \in Int
      /\ 2 * moment = f * f - s * s
  BY <1>1 DEF ExposureInv, AddFinalSlot, TwiceMomentTo
<1>3. slot \in Nat /\ scale \in Int /\ s \in Int /\ r \in Nat /\ exposure.end \in Int
  BY <1>1, <1>2, BuiltGrid
<1>4. slot * scale \in Int
  BY <1>3
<1>5. f \in Int /\ exposure.end = f + r
  BY <1>1, <1>2, <1>3, <1>4, BuiltGrid
<1>6. r > 0 /\ grid.integrationSlots = slot + 1
  <2>1. r # 0
    BY <1>1, <1>2, <1>3, BuiltGrid DEF AddFinalSlot
  <2>. QED
    BY <1>1, <1>2, <1>3, <2>1, BuiltGrid
<1>7. /\ grid.finalSlot \in Int /\ e \in -1 .. 1 /\ e \in Int
      /\ r % 2 = 0 => e = 0
  BY <1>1, <1>2, <1>3, <1>5, <1>6, BuiltGrid
<1>8. ClicksAt(grid, slot + 1) = grid.finalSlot
  BY <1>2, <1>3, <1>6 DEF ClicksAt
<1>9. /\ moment' = moment + grid.finalSlot * r /\ length' = slot * scale + r
      /\ stage' = "done" /\ UNCHANGED <<exposure, scale, grid>>
  BY <1>2, <1>8 DEF AddFinalSlot
<1>10. length' = exposure.end - s
  BY <1>3, <1>4, <1>5, <1>9
<1>. HIDE DEF e, f
<1>11. moment' \in Int /\ 2 * moment' = (exposure.end * exposure.end - s * s) + e * r
  <2>1. grid.finalSlot * r \in Int
    BY <1>3, <1>7
  <2>2. 2 * moment' = (f * f - s * s) + (2 * grid.finalSlot) * r
    BY <1>2, <1>3, <1>5, <1>7, <1>9, <2>1
  <2>3. 2 * grid.finalSlot = f + (f + r) + e
    BY <1>3, <1>5, <1>7 DEF e
  <2>. QED
    BY <1>2, <1>3, <1>5, <1>7, <1>9, <2>1, <2>2, <2>3, DifferenceOfSquares
<1>12. e * r \in -r .. r /\ (r % 2 = 0 => e * r = 0)
  <2>1. e = -1 \/ e = 0 \/ e = 1
    BY <1>7
  <2>. QED
    BY <1>3, <1>7, <2>1
<1>13. /\ 2 * moment' - (exposure.end * exposure.end - s * s) \in -r .. r
       /\ r % 2 = 0 => 2 * moment' = exposure.end * exposure.end - s * s
  <2>. DEFINE q == exposure.end * exposure.end - s * s
              p == e * r
  <2>1. q \in Int /\ p \in Int /\ p \in -r .. r /\ 2 * moment' = q + p /\ (r % 2 = 0 => p = 0)
    BY <1>3, <1>11, <1>12
  <2>. HIDE DEF q, p
  <2>2. 2 * moment' - q \in -r .. r /\ (r % 2 = 0 => 2 * moment' = q)
    BY <1>3, <2>1
  <2>. QED
    BY <2>2 DEF q
<1>. QED
  BY <1>1, <1>9, <1>10, <1>11, <1>13 DEF ExposureInv, Built, TwiceMomentTo

LEMMA NoFinalSlotKeeps ==
  ASSUME ExposureInv, NoFinalSlot
  PROVE  ExposureInv'
<1>. DEFINE s == exposure.start
            f == s + slot * scale
<1>1. Built
  BY DEF NoFinalSlot, Built
<1>2. /\ slot = grid.fullSlots /\ length = slot * scale /\ moment \in Int
      /\ 2 * moment = f * f - s * s
  BY <1>1 DEF ExposureInv, NoFinalSlot, TwiceMomentTo
<1>3. slot \in Nat /\ scale \in Int /\ s \in Int /\ exposure.end \in Int
  BY <1>1, <1>2, BuiltGrid
<1>4. slot * scale \in Int
  BY <1>3
<1>5. grid.finalWidth = 0
  <2>1. grid.finalWidth \in Nat /\ ~(grid.finalWidth > 0)
    BY <1>1, <1>2, <1>3, BuiltGrid DEF NoFinalSlot
  <2>. QED
    BY <2>1
<1>6. exposure.end = f
  BY <1>1, <1>2, <1>3, <1>4, <1>5, BuiltGrid
<1>7. length = exposure.end - s
  BY <1>2, <1>3, <1>4, <1>6
<1>8. 2 * moment = exposure.end * exposure.end - s * s
  BY <1>2, <1>6
<1>9. stage' = "done" /\ UNCHANGED <<exposure, scale, grid, length, moment>>
  BY DEF NoFinalSlot
<1>10. 2 * moment - (exposure.end * exposure.end - s * s) = 0
  <2>1. exposure.end * exposure.end - s * s \in Int
    BY <1>3
  <2>. QED
    BY <1>8, <2>1
<1>. QED
  BY <1>1, <1>2, <1>5, <1>7, <1>8, <1>9, <1>10 DEF ExposureInv, Built, TwiceMomentTo

LEMMA ExposureKeeps ==
  ASSUME ExposureInv, [ExposureNext]_exposureVars
  PROVE  ExposureInv'
<1>1. CASE RefuseTimeScale
  BY <1>1 DEF ExposureInv, RefuseTimeScale, Built
<1>2. CASE AcceptTimeScale
  BY <1>2 DEF ExposureInv, AcceptTimeScale, Built
<1>3. CASE RefuseExposure
  BY <1>3 DEF ExposureInv, RefuseExposure, Built
<1>4. CASE Build
  BY <1>4, BuildKeeps
<1>5. CASE AddFullSlot
  BY <1>5, AddFullSlotKeeps
<1>6. CASE Scale
  BY <1>6, ScaleKeeps
<1>7. CASE AddFinalSlot
  BY <1>7, AddFinalSlotKeeps
<1>8. CASE NoFinalSlot
  BY <1>8, NoFinalSlotKeeps
<1>9. CASE UNCHANGED exposureVars
  BY <1>9 DEF ExposureInv, exposureVars, Built, TwiceMomentTo
<1>. QED
  BY <1>1, <1>2, <1>3, <1>4, <1>5, <1>6, <1>7, <1>8, <1>9 DEF ExposureNext

\* The invariant of one exposure walked: the totals are those of the arithmetic
\* progression of midpoints (TimeGrid.hpp:234-245).
THEOREM ExposureInvariant == ExposureSpec => []ExposureInv
<1>1. ExposureInit => ExposureInv
  BY ExposureStarts
<1>2. ExposureInv /\ [ExposureNext]_exposureVars => ExposureInv'
  BY ExposureKeeps
<1>. QED
  BY <1>1, <1>2, PTL DEF ExposureSpec

-----------------------------------------------------------------------------
(* What follows from it.                                                    *)

LEMMA ExposureIsDivided ==
  ASSUME ExposureInv
  PROVE  SlotsDivideTheExposure
<1>. SUFFICES ASSUME Built PROVE SlotsDivideTheExposure
  BY DEF SlotsDivideTheExposure
<1>. DEFINE s == exposure.start
            t == exposure.end
            n == grid.fullSlots
            r == grid.finalWidth
            dt == scale
            i == grid.integrationSlots
<1>1. /\ dt \in Nat /\ dt > 0 /\ s \in Int /\ t \in Int /\ n \in Nat /\ r \in Nat /\ r < dt
      /\ t = s + n * dt + r /\ grid.deltaT = dt
      /\ grid.firstSlot \in Int /\ 2 * grid.firstSlot = 2 * s + dt
      /\ grid.hasDeathSlot = exposure.died /\ grid.deathSlot = t /\ exposure.died \in BOOLEAN
  BY BuiltGrid
<1>2. r = 0 => i = n /\ n > 0
  BY BuiltGrid
<1>3. r > 0 => /\ i = n + 1 /\ grid.finalSlot \in Int
              /\ 2 * grid.finalSlot - (s + n * dt + t) \in -1 .. 1
  BY BuiltGrid
<1>4. i \in Nat /\ i >= 1 /\ i >= n /\ i <= n + 1
  BY <1>1, <1>2, <1>3
<1>5. \A k \in 1 .. n : /\ k * dt \in Int /\ (k - 1) * dt \in Int /\ (k - 1) * dt >= 0
                        /\ k * dt = (k - 1) * dt + dt /\ k * dt <= n * dt /\ n * dt \in Int
  <2>. TAKE k \in 1 .. n
  <2>1. k \in Nat /\ k - 1 \in Nat /\ n - k \in Nat
    BY <1>1
  <2>2. (k - 1) * dt \in Nat /\ (n - k) * dt \in Nat
    BY <1>1, <2>1
  <2>3. n * dt = k * dt + (n - k) * dt /\ k * dt = (k - 1) * dt + dt
    BY <1>1, <2>1
  <2>. QED
    BY <1>1, <2>1, <2>2, <2>3
<1>6. n * dt \in Nat
  BY <1>1
<1>7. \A k \in 1 .. n :
        /\ From(k) = s + (k - 1) * dt /\ To(k) = From(k) + dt
        /\ WidthOf(grid, k) = dt
        /\ ClicksAt(grid, k) = grid.firstSlot + (k - 1) * dt
  BY <1>1, <1>4 DEF From, To, WidthOf, ClicksAt
<1>8. r > 0 => /\ From(i) = s + n * dt /\ To(i) = t /\ WidthOf(grid, i) = r
              /\ ClicksAt(grid, i) = grid.finalSlot
  <2>. SUFFICES ASSUME r > 0
                PROVE  /\ From(i) = s + n * dt /\ To(i) = t /\ WidthOf(grid, i) = r
                       /\ ClicksAt(grid, i) = grid.finalSlot
    OBVIOUS
  <2>1. i = n + 1 /\ n \in Nat /\ i - 1 = n
    <3>1. n \in Nat
      BY <1>1
    <3>2. i = n + 1
      BY <1>3
    <3>. HIDE DEF i, n
    <3>. QED
      BY <3>1, <3>2
  <2>2. ~(i <= n) /\ i <= i
    BY <2>1
  <2>. QED
    BY <2>1, <2>2 DEF From, To, WidthOf, ClicksAt
<1>9. i >= 1 /\ To(i) = t
  <2>1. CASE r = 0
    BY <1>1, <1>2, <1>5, <1>6, <1>7, <2>1
  <2>2. CASE r > 0
    BY <1>4, <1>8, <2>2
  <2>. QED
    BY <1>1, <1>4, <2>1, <2>2
<1>10. ASSUME NEW k \in 1 .. i
       PROVE  LET twice == 2 * ClicksAt(grid, k) - (From(k) + To(k)) IN
              /\ WidthOf(grid, k) = To(k) - From(k)
              /\ WidthOf(grid, k) > 0
              /\ twice \in -1 .. 1
              /\ k <= n => twice = 0
              /\ k > 1 => ClicksAt(grid, k - 1) < ClicksAt(grid, k)
              /\ s <= ClicksAt(grid, k) /\ ClicksAt(grid, k) <= t
  <2>1. CASE k <= n
    <3>1. k \in 1 .. n /\ (k > 1 => k - 1 \in 1 .. n)
      BY <1>1, <1>4, <2>1
    <3>2. k > 1 => ClicksAt(grid, k - 1) = grid.firstSlot + (k - 2) * dt
      BY <1>1, <1>7, <3>1
    <3>3. k > 1 => (k - 2) * dt \in Int /\ (k - 1) * dt = (k - 2) * dt + dt
      BY <1>1, <1>5, <3>1
    <3>. QED
      BY <1>1, <1>5, <1>6, <1>7, <2>1, <3>1, <3>2, <3>3
  <2>2. CASE k > n
    <3>1. r > 0 /\ k = i /\ k = n + 1
      BY <1>1, <1>2, <1>3, <1>4, <2>2
    <3>2. t = (s + n * dt) + r /\ s + n * dt \in Int /\ s <= s + n * dt
      BY <1>1, <1>6
    <3>3. /\ From(k) = s + n * dt /\ To(k) = t /\ WidthOf(grid, k) = r
          /\ ClicksAt(grid, k) = grid.finalSlot /\ grid.finalSlot \in Int
          /\ 2 * grid.finalSlot - ((s + n * dt) + t) \in -1 .. 1
      BY <1>3, <1>8, <3>1
    <3>4. k > 1 => ClicksAt(grid, k - 1) < ClicksAt(grid, k)
      <4>. SUFFICES ASSUME k > 1 PROVE ClicksAt(grid, k - 1) < ClicksAt(grid, k)
        OBVIOUS
      <4>1. k - 1 = n /\ n \in 1 .. n
        <5>. HIDE DEF n, i
        <5>. QED
          BY <1>1, <3>1
      <4>2. ClicksAt(grid, n) = grid.firstSlot + (n - 1) * dt
        BY <1>7, <4>1
      <4>3. (n - 1) * dt \in Int /\ n * dt = (n - 1) * dt + dt
        BY <1>5, <4>1
      <4>. QED
        BY <1>1, <3>1, <3>2, <3>3, <4>1, <4>2, <4>3
    <3>. QED
      BY <1>1, <2>2, <3>1, <3>2, <3>3, <3>4
  <2>. QED
    BY <1>1, <1>4, <2>1, <2>2
<1>11. /\ SlotCount(grid) = i + 1 <=> exposure.died
       /\ exposure.died => ClicksAt(grid, SlotCount(grid)) = t
  BY <1>1, <1>4 DEF SlotCount, ClicksAt
<1>. QED
  BY <1>9, <1>10, <1>11 DEF SlotsDivideTheExposure

LEMMA TotalsAreRight ==
  ASSUME ExposureInv
  PROVE  TotalsAreTheIntegrals
<1>1. ASSUME stage = "full"
      PROVE  /\ length * scale = From(slot + 1) - exposure.start
             /\ 2 * moment * scale = TwiceMomentTo(From(slot + 1))
  <2>1. Built
    BY <1>1 DEF Built
  <2>2. /\ slot \in Nat /\ moment \in Int /\ scale \in Int /\ exposure.start \in Int
        /\ 2 * moment = 2 * slot * exposure.start + slot * slot * scale /\ length = slot
    BY <1>1, <2>1, BuiltGrid DEF ExposureInv
  <2>3. From(slot + 1) = exposure.start + slot * scale /\ slot * scale \in Int
    BY <2>2 DEF From
  <2>4. 2 * moment * scale = (2 * slot * exposure.start + slot * slot * scale) * scale
    BY <2>2
  <2>. QED
    BY <2>2, <2>3, <2>4, SquareOfSum DEF TwiceMomentTo
<1>. QED
  BY <1>1 DEF ExposureInv, TotalsAreTheIntegrals

\* The slots of any exposure divide it, each sampled at its own middle
\* (TimeGrid.hpp:18-30).
THEOREM SlotsAlwaysDivideTheExposure == ExposureSpec => []SlotsDivideTheExposure
<1>1. ExposureInv => SlotsDivideTheExposure
  BY ExposureIsDivided
<1>. QED
  BY <1>1, ExposureInvariant, PTL

\* The totals are the integrals of what has been walked, whatever the exposure and
\* the time scale (TimeGrid.hpp:227-245).
THEOREM TotalsAreAlwaysTheIntegrals == ExposureSpec => []TotalsAreTheIntegrals
<1>1. ExposureInv => TotalsAreTheIntegrals
  BY TotalsAreRight
<1>. QED
  BY <1>1, ExposureInvariant, PTL
=============================================================================
