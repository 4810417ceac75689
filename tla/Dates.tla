-------------------------------- MODULE Dates --------------------------------
(***************************************************************************)
(* Days as numbers (struct date in types.hpp, which the data generator     *)
(* writes; struct Date in include/internal/BaseTypes.h, which the engine   *)
(* reads).  Both compute with unsigned integers of 32 bits; for the years  *)
(* that stringToType admits no intermediate result reaches 2^31.           *)
(***************************************************************************)
EXTENDS Integers

\* The year is counted from March, so that the leap day is its last.
toInt(year, month, day) ==
  LET a == (14 - month) \div 12
      y == year + 4800 - a
      m == month + 12 * a - 3
  IN day + (153 * m + 2) \div 5 + 365 * y + y \div 4 - y \div 100 + y \div 400 - 32045

fromInt(date) ==
  LET a == date + 32044
      b == (4 * a + 3) \div 146097
      c == a - (146097 * b) \div 4
      d == (4 * c + 3) \div 1461
      e == c - (1461 * d) \div 4
      m == (5 * e + 2) \div 153
  IN [year |-> 100 * b + d - 4800 + m \div 10,
      month |-> m + 3 - 12 * (m \div 10),
      day |-> e - (153 * m + 2) \div 5 + 1]

extractYear(date) == fromInt(date).year

\* The calendar, as the dates of TPC-H mean it
Leap(year) == year % 4 = 0 /\ (year % 100 # 0 \/ year % 400 = 0)

DaysIn(year, month) ==
  CASE month = 2 -> IF Leap(year) THEN 29 ELSE 28
    [] month \in {4, 6, 9, 11} -> 30
    [] OTHER -> 31

IsDate(year, month, day) == year \in Nat /\ year <= 9999 /\ month \in 1 .. 12 /\ day \in 1 .. DaysIn(year, month)

InRange(year, month, day) == year <= 9999 /\ month \in 1 .. 12 /\ day \in 1 .. 31
=============================================================================
