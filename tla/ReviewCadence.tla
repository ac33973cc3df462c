---------------------------- MODULE ReviewCadence ----------------------------
(***************************************************************************)
(* planNextForecastReview: how long after a forecast its next review is    *)
(* due (packages/workflow-contracts/src/forecast-update-policy.ts).  Times *)
(* are whole units, as a Date holds them: milliseconds in the code, where  *)
(* Day is 86 400 000.  The horizon is the time left to the boundary.       *)
(***************************************************************************)
EXTENDS Integers, TLAPS

CONSTANT Day  \* one day
ASSUME DayAssumption == Day \in Nat \ {0}

(* The regular interval: the five cadences of the policy. *)
Undated == 30 * Day
Regular(horizon) ==
    IF horizon <= 14 * Day THEN Day
    ELSE IF horizon <= 60 * Day THEN 7 * Day
    ELSE IF horizon <= 365 * Day THEN 30 * Day ELSE 90 * Day

(* A regular review that would reach the boundary is put a day before it   *)
(* or, if that is less, half way to it; a Date is cut down to its unit.    *)
(* 0: there is no later review.  The arithmetic is exact here.             *)
HalfWay(horizon) == (horizon + 1) \div 2
Interval(horizon, regular) ==
    IF regular < horizon THEN regular
    ELSE horizon - (IF Day < HalfWay(horizon) THEN Day ELSE HalfWay(horizon))

-----------------------------------------------------------------------------
(* A planned review is before the boundary and never before the forecast   *)
(* it reviews, whatever the regular interval.                              *)
THEOREM ReviewsPrecedeBoundary ==
    ASSUME NEW horizon \in Nat \ {0}, NEW regular \in Nat \ {0}
    PROVE  Interval(horizon, regular) \in 0 .. horizon - 1
<1>1. HalfWay(horizon) \in 1 .. horizon
  BY DEF HalfWay
<1> QED BY <1>1, DayAssumption DEF Interval

(* Within the last day every review halves what is left of it: the day     *)
(* that the policy keeps from the boundary is never the smaller of the     *)
(* two, and the reviews stop one unit before the boundary.                 *)
THEOREM LastDayIsHalved ==
    ASSUME NEW horizon \in Nat \ {0}, horizon <= Day
    PROVE  /\ Interval(horizon, Regular(horizon)) = horizon \div 2
           /\ Interval(horizon, Regular(horizon)) = 0 <=> horizon = 1
<1>1. Regular(horizon) = Day
  BY DayAssumption DEF Regular
<1>2. /\ HalfWay(horizon) \in Nat /\ HalfWay(horizon) <= Day
      /\ horizon - HalfWay(horizon) = horizon \div 2
  BY DayAssumption DEF HalfWay
<1>3. Interval(horizon, Regular(horizon)) = horizon \div 2
  <2>1. Interval(horizon, Day) = horizon - HalfWay(horizon)
    BY <1>2, DayAssumption DEF Interval
  <2> QED BY <1>1, <1>2, <2>1
<1>4. horizon \div 2 = 0 <=> horizon = 1
  OBVIOUS
<1> QED BY <1>3, <1>4

(* Before the last day the regular interval is never clamped. *)
LEMMA RegularBeforeLastDay ==
    ASSUME NEW horizon \in Nat \ {0}, horizon > Day
    PROVE  Interval(horizon, Regular(horizon)) = Regular(horizon)
BY DayAssumption DEF Interval, Regular

(* "Reviews become more frequent near the resolution boundary": the closer *)
(* the boundary, the shorter the interval, over all tiers and the clamping *)
(* of the last day.                                                        *)
THEOREM ReviewsDensify ==
    ASSUME NEW near \in Nat \ {0}, NEW far \in Nat \ {0}, near <= far
    PROVE  Interval(near, Regular(near)) <= Interval(far, Regular(far))
<1>1. CASE far <= Day
  <2>1. near \div 2 <= far \div 2
    OBVIOUS
  <2> QED BY <1>1, <2>1, LastDayIsHalved, DayAssumption
<1>2. CASE near <= Day /\ far > Day
  <2>1. near \div 2 <= Day
    BY <1>2, DayAssumption
  <2>2. Regular(far) >= Day
    BY DayAssumption DEF Regular
  <2>3. Regular(far) \in Int
    BY DayAssumption DEF Regular
  <2> QED BY <1>2, <2>1, <2>2, <2>3, LastDayIsHalved, RegularBeforeLastDay, DayAssumption
<1>3. CASE near > Day
  <2>1. Regular(near) <= Regular(far)
    BY DayAssumption DEF Regular
  <2> QED BY <1>3, <2>1, RegularBeforeLastDay, DayAssumption
<1> QED BY <1>1, <1>2, <1>3, DayAssumption
=============================================================================
