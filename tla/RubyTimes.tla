------------------------------ MODULE RubyTimes ------------------------------
(***************************************************************************)
(* Dates, times of day and timestamps to integers and back, the arithmetic *)
(* of ext/parquet-ruby-adapter/src/converter.rs.                           *)
(*                                                                         *)
(* Clocks are scaled down.  A second has K milliseconds, each of K         *)
(* microseconds, each of K nanoseconds, and a day has Day seconds; a Time  *)
(* is [secs, nsec], its zone an offset in seconds.  The integers of the    *)
(* code keep their wrap-around, with fewer bits; release builds do not     *)
(* check for it.                                                           *)
(***************************************************************************)
EXTENDS Integers

CONSTANTS
  K,            \* 1000 in the code
  Day,          \* 86400
  SystemZone,   \* offset of the zone of the process
  TimeHalf,     \* 2^63, how many of the i64 are negative
  DayHalf       \* 2^31, how many of the i32

ASSUME TimesAssumption ==
  /\ K \in Nat \ {0, 1}
  /\ {Day, TimeHalf, DayHalf} \subseteq Nat \ {0}
  /\ SystemZone \in Int

Nanos == K * K * K

Per == [s |-> 1, ms |-> K, us |-> K * K, ns |-> Nanos]

\* x as a two's complement integer of which there are half below zero.
Signed(x, half) == ((x + half) % (2 * half)) - half

Abs(x) == IF x < 0 THEN -x ELSE x

\* Division and remainder that round towards zero.
Quotient(a, b) ==
  IF (a < 0) = (b < 0) THEN Abs(a) \div Abs(b) ELSE -(Abs(a) \div Abs(b))

Remainder(a, b) == a - b * Quotient(a, b)
----------------------------------------------------------------------------
(* Dates, times of day and timestamps. *)

TimestampUnit ==
  [TimestampSecond |-> "s", TimestampMillis |-> "ms",
   TimestampMicros |-> "us", TimestampNanos |-> "ns"]

TimeUnit == [TimeMillis |-> "ms", TimeMicros |-> "us", TimeNanos |-> "ns"]

\* to_i and nsec of a Time do not depend on its zone.
timestamp_of(t, unit) ==
  Signed(t.secs * Per[unit] + t.nsec \div (Nanos \div Per[unit]), TimeHalf)

\* hour, min and sec do.
time_of_day(t, zone, unit) ==
  ((t.secs + zone) % Day) * Per[unit] + t.nsec \div (Nanos \div Per[unit])

\* (secs / 86400) as i32: far days wrap.
date32_of(secs) == Signed(Quotient(secs, Day), DayHalf)

date64_of(secs) == Signed(secs * K, TimeHalf)

\* Date.parse(s).to_time is midnight in the zone of the process.
Midnight(day) == day * Day - SystemZone

\* A slip: the remainder is never negative, the quotient rounds towards zero.
read_timestamp_positive(v, unit) ==
  Quotient(v, Per[unit]) * Nanos + (v % Per[unit]) * (Nanos \div Per[unit])

\* Time.at takes seconds and a part of one, of either sign; the result is the
\* nanosecond of the Time.
read_timestamp(v, unit) ==
  Quotient(v, Per[unit]) * Nanos
    + Remainder(v, Per[unit]) * (Nanos \div Per[unit])

\* The hours, minutes and so on of the value, today or in 1970, in UTC.
read_time(v, unit) == (v % (Day * Per[unit])) * (Nanos \div Per[unit])

\* Time.at takes the million-fold of the milliseconds for microseconds.
read_date64(v) == Quotient(v, K) * Nanos + (Remainder(v, K) * K * K) * K
----------------------------------------------------------------------------
(* What comes back at best. *)

Representable(n, half) == -half <= n /\ n < half

Floor(n, unit) == (n \div unit) * unit

Tick(unit) == Nanos \div Per[unit]
============================================================================
