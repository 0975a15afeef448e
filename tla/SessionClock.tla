---------------------------- MODULE SessionClock ----------------------------
(***************************************************************************)
(* The market clock every agent asks (src/market_session.py).  Time is a   *)
(* day and a minute of that day; it only stops at the minutes in Instants, *)
(* which an instance chooses on both sides of every boundary the code      *)
(* compares with.  Every answer is a function of the clock and of the      *)
(* exchange calendar, TradingDay; a calendar with no session in the next   *)
(* fortnight, for which the code raises, is not modelled.                  *)
(***************************************************************************)
EXTENDS Integers, FiniteSetsExt

CONSTANTS TradingDay,      \* the days with a session; reaches beyond LastDay
          Instants,        \* the minutes at which the clock may be read
          PreMarketStart, OpenTime, CloseTime,
          EodBuffer,       \* market.eod_close_buffer_minutes
          LastDay          \* bound: the clock stops at the end of this day

VARIABLES day, time

clock == <<day, time>>

MinutesPerDay == 1440

\* time.monotonic(), in minutes: only differences of it are ever used.
Now == day * MinutesPerDay + time

IsTradingDay(d) == d \in TradingDay

IsMarketOpen == IsTradingDay(day) /\ OpenTime <= time /\ time < CloseTime

IsPreMarket == IsTradingDay(day) /\ PreMarketStart <= time /\ time < OpenTime

\* The next day whose opening is still ahead: today's before the bell.
NextOpenDay ==
  IF IsTradingDay(day) /\ time < OpenTime
  THEN day ELSE Min({d \in TradingDay : d > day})

MinutesToOpen ==
  IF IsMarketOpen THEN 0
  ELSE (NextOpenDay - day) * MinutesPerDay + OpenTime - time

\* The empty string of next_open_time() while the session is on.
NoTime == 0
NextOpenTime ==
  IF IsMarketOpen THEN NoTime ELSE NextOpenDay * MinutesPerDay + OpenTime

MinutesRemaining == IF IsMarketOpen THEN CloseTime - time ELSE 0

IsNearClose == 0 < MinutesRemaining /\ MinutesRemaining <= EodBuffer

\* The calendar date, a trading day or not.
SessionDate == day

ClockInit == day = 1 /\ time = Min(Instants)

PassTime ==
  \/ /\ \E t \in Instants : t > time /\ time' = Min({u \in Instants : u > time})
     /\ day' = day
  \/ /\ time = Max(Instants)
     /\ day < LastDay
     /\ day' = day + 1
     /\ time' = Min(Instants)

ClockTypeOK == day \in 1..LastDay /\ time \in Instants
=============================================================================
