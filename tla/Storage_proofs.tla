--------------------------- MODULE Storage_proofs ---------------------------
(***************************************************************************)
(* What TLAPS proves about a table's way from text to a query: a scan      *)
(* gives back the rows that the files hold (RowsComeBack).  On the way:    *)
(* the numbers of days stand for their dates, the reader's search finds    *)
(* the first delimiter, a field is read as it is read where it stands      *)
(* alone, the pages of a column give back what was written, and of the     *)
(* LIKE expressions those of a text and one '%' mean what SQL means.       *)
(***************************************************************************)
EXTENDS Storage, Induction, TLAPS

-----------------------------------------------------------------------------
(* Dates                                                                    *)

\* A year that begins in March, the months since, and the days
YearOf(year, month) == year + 4800 - (14 - month) \div 12
MonthOf(month) == month + 12 * ((14 - month) \div 12) - 3
DayOf(month, day) == day - 1 + (153 * MonthOf(month) + 2) \div 5
DaysBefore(y) == 365 * y + y \div 4 - y \div 100 + y \div 400
InYear(y, n) == y \in Nat /\ n \in 0 .. 365 /\ (n = 365 => Leap(y + 1))

\* And what fromInt makes of a number of days
Century(a) == (4 * a + 3) \div 146097
DayOfCentury(a) == a - (146097 * Century(a)) \div 4
YearOfCentury(c) == (4 * c + 3) \div 1461
DayOfYear(c) == c - (1461 * YearOfCentury(c)) \div 4

\* Twelve months
LEMMA Months ==
  ASSUME NEW year, NEW month, NEW day, IsDate(year, month, day)
  PROVE  /\ InYear(YearOf(year, month), DayOf(month, day)) /\ MonthOf(month) \in 0 .. 11
         /\ (5 * DayOf(month, day) + 2) \div 153 = MonthOf(month)
         /\ YearOf(year, month) - 4800 + MonthOf(month) \div 10 = year
         /\ MonthOf(month) + 3 - 12 * (MonthOf(month) \div 10) = month
<1> USE DEF IsDate, InYear
<1>0. /\ DaysIn(year, month) \in 28 .. 31 /\ day \in Int /\ day >= 1
      /\ year \in Nat /\ month \in 1 .. 12 /\ day \in 1 .. DaysIn(year, month)
  BY DEF DaysIn
<1>1. CASE month = 1
  <2>1. YearOf(year, month) = year + 4799 /\ MonthOf(month) = 10 /\ DayOf(month, day) = day + 305 /\ day <= 31
    BY <1>1, <1>0 DEF YearOf, MonthOf, DayOf
  <2>2. QED
    BY <1>0, <1>1, <2>1
<1>2. CASE month = 2
  <2>1. YearOf(year, month) = year + 4799 /\ MonthOf(month) = 11 /\ DayOf(month, day) = day + 336 
    BY <1>2, <1>0 DEF YearOf, MonthOf, DayOf
  <2>2. day <= 29 /\ (day = 29 => Leap(year))
    BY <1>2 DEF DaysIn
  <2>3. (year + 4800) % 4 = year % 4 /\ (year + 4800) % 100 = year % 100 /\ (year + 4800) % 400 = year % 400
    OBVIOUS
  <2>4. Leap(year) => Leap(YearOf(year, month) + 1)
    BY <2>1, <2>3 DEF Leap
  <2>5. QED
    BY <1>0, <1>2, <2>1, <2>2, <2>4
<1>3. CASE month \in 3 .. 12
  <2>1. YearOf(year, month) = year + 4800 /\ MonthOf(month) = month - 3
           /\ DayOf(month, day) = day - 1 + (153 * (month - 3) + 2) \div 5
    <3>1. (14 - month) \div 12 = 0
      BY <1>3
    <3>2. QED
      BY <3>1, <1>3, <1>0 DEF YearOf, MonthOf, DayOf
  <2>2. day <= 31 /\ (month \in {4, 6, 9, 11} => day <= 30)
    BY <1>3 DEF DaysIn
  <2>3. DayOf(month, day) \in 0 .. 364 /\ (5 * DayOf(month, day) + 2) \div 153 = month - 3
    <3>1. CASE month \in {3, 4, 5, 6, 7}
      BY <3>1, <1>0, <2>1, <2>2
    <3>2. CASE month \in {8, 9, 10, 11, 12}
      BY <3>2, <1>0, <2>1, <2>2
    <3>3. QED
      BY <1>3, <3>1, <3>2
  <2>4. (month - 3) \div 10 = 0
    BY <1>3
  <2>5. QED
    BY <1>3, <2>1, <2>3, <2>4
<1>4. QED
  BY <1>1, <1>2, <1>3

\* Quotients that fromInt takes
LEMMA Quotients ==
  ASSUME NEW q \in Int, NEW r \in Nat, NEW v \in Int
  PROVE  /\ v = 146097 * q + r /\ r < 146097 => v \div 146097 = q
         /\ v = 1461 * q + r /\ r < 1461 => v \div 1461 = q
OBVIOUS

\* A year, as its century and the years in it, and each of these by fours
Splits(y, C, Q, S, R, U, V) ==
  /\ C \in Nat /\ Q \in Nat /\ S \in 0 .. 3 /\ R \in 0 .. 99 /\ U \in Nat /\ V \in 0 .. 3
  /\ y = 100 * C + R /\ C = 4 * Q + S /\ R = 4 * U + V

\* Every year splits so.
LEMMA YearSplits ==
  ASSUME NEW y \in Nat
  PROVE  \E C, Q, S, R, U, V : Splits(y, C, Q, S, R, U, V)
<1>1. PICK C : C = y \div 100
  OBVIOUS
<1>2. PICK R : R = y % 100
  OBVIOUS
<1>3. C \in Nat /\ R \in 0 .. 99 /\ y = 100 * C + R
  BY <1>1, <1>2
<1>4. C \div 4 \in Nat /\ C % 4 \in 0 .. 3 /\ C = 4 * (C \div 4) + (C % 4)
  BY <1>3
<1>5. R \div 4 \in Nat /\ R % 4 \in 0 .. 3 /\ R = 4 * (R \div 4) + (R % 4)
  BY <1>3
<1>6. Splits(y, C, C \div 4, C % 4, R, R \div 4, R % 4)
  BY <1>3, <1>4, <1>5 DEF Splits
<1>7. QED
  BY <1>6

\* The days before a year, from its parts, and when a leap year follows
LEMMA SplitYear ==
  ASSUME NEW y \in Nat, NEW C, NEW Q, NEW S, NEW R, NEW U, NEW V, Splits(y, C, Q, S, R, U, V)
  PROVE  /\ DaysBefore(y) = 36524 * C + Q + 365 * R + U
         /\ Leap(y + 1) => V = 3 /\ (R = 99 => S = 3)
<1> USE DEF Splits
<1>1. y \div 100 = C /\ y \div 4 = 25 * C + U /\ y \div 400 = Q
  <2>1. y = 4 * (25 * C + U) + V /\ y = 400 * Q + (100 * S + R)
    OBVIOUS
  <2>2. QED
    BY <2>1
<1>2. DaysBefore(y) = 36524 * C + Q + 365 * R + U
  BY <1>1 DEF DaysBefore
<1>3. (y + 1) % 4 = 0 => V = 3
  <2>1. y + 1 = 4 * (25 * C + U) + (V + 1)
    OBVIOUS
  <2>2. QED
    BY <2>1
<1>4. R = 99 => (y + 1) % 100 = 0 /\ ((y + 1) % 400 = 0 => S = 3)
  <2>1. R = 99 => y + 1 = 100 * (C + 1) /\ y + 1 = 400 * Q + 100 * (S + 1)
    OBVIOUS
  <2>2. QED
    BY <2>1
<1>5. QED
  BY <1>2, <1>3, <1>4 DEF Leap

\* The days of a year and the years before it are told apart.
LEMMA YearsComeBack ==
  ASSUME NEW y, NEW n, InYear(y, n), NEW a, a = DaysBefore(y) + n
  PROVE  /\ Century(a) \in Nat /\ YearOfCentury(DayOfCentury(a)) \in Nat
         /\ 100 * Century(a) + YearOfCentury(DayOfCentury(a)) = y /\ DayOfYear(DayOfCentury(a)) = n
<1>1. y \in Nat /\ n \in 0 .. 365 /\ (n = 365 => Leap(y + 1))
  BY DEF InYear
<1>2. PICK C, Q, S, R, U, V : Splits(y, C, Q, S, R, U, V)
  BY <1>1, YearSplits
<1>3. /\ DaysBefore(y) = 36524 * C + Q + 365 * R + U
      /\ n = 365 => V = 3 /\ (R = 99 => S = 3)
  BY <1>1, <1>2, SplitYear
<1>4. /\ C \in Nat /\ Q \in Nat /\ S \in 0 .. 3 /\ R \in 0 .. 99 /\ U \in Nat /\ V \in 0 .. 3
      /\ y = 100 * C + R /\ C = 4 * Q + S /\ R = 4 * U + V
  BY <1>2 DEF Splits
<1>5. a = n + 36524 * C + Q + 365 * R + U /\ a \in Int
  BY <1>1, <1>3, <1>4
<1>6. PICK x \in Int : x = 1461 * R - V - S + 4 * n + 3
  BY <1>1, <1>4
<1>7. x \in Nat /\ x < 146097 /\ 4 * a + 3 = 146097 * C + x
  <2>1. 4 * a + 3 = 146097 * C + x
    BY <1>1, <1>4, <1>5, <1>6
  <2>2. x >= 0
    BY <1>1, <1>4, <1>6
  <2>3. x < 146097
    BY <1>1, <1>3, <1>4, <1>6
  <2>4. QED
    BY <1>4, <1>5, <1>6, <2>1, <2>2, <2>3
<1>8. Century(a) = C
  <2>1. 4 * a + 3 \in Int
    BY <1>5
  <2>2. (4 * a + 3) \div 146097 = C
    BY <1>4, <1>7, <2>1, Quotients
  <2>3. QED
    BY <2>2 DEF Century
<1>9. PICK c \in Int : c = n + 365 * R + U
  BY <1>1, <1>4
<1>10. DayOfCentury(a) = c
  <2>1. 146097 * C = 4 * (36524 * C + Q) + S
    BY <1>4
  <2>2. (146097 * C) \div 4 = 36524 * C + Q
    BY <1>4, <2>1
  <2>3. QED
    <3>1. DayOfCentury(a) = a - (36524 * C + Q)
      BY <1>8, <2>2 DEF DayOfCentury
    <3>2. QED
      BY <1>1, <1>4, <1>5, <1>9, <3>1
<1>11. YearOfCentury(c) = R
  <2>1. 4 * c + 3 = 1461 * R + (4 * n + 3 - V)
    BY <1>1, <1>4, <1>9
  <2>2. 4 * n + 3 - V \in Nat /\ 4 * n + 3 - V < 1461
    BY <1>1, <1>3, <1>4
  <2>3. QED
    <3>1. 4 * c + 3 \in Int
      BY <1>9
    <3>2. (4 * c + 3) \div 1461 = R
      BY <1>4, <2>1, <2>2, <3>1, Quotients
    <3>3. QED
      BY <3>2 DEF YearOfCentury
<1>12. DayOfYear(c) = n
  <2>1. 1461 * R = 4 * (365 * R + U) + V
    BY <1>4
  <2>2. (1461 * R) \div 4 = 365 * R + U
    BY <1>4, <2>1
  <2>3. QED
    <3>1. DayOfYear(c) = c - (365 * R + U)
      BY <1>11, <2>2 DEF DayOfYear
    <3>2. QED
      BY <1>1, <1>4, <1>9, <3>1
<1>13. QED
  BY <1>4, <1>8, <1>10, <1>11, <1>12

\* The number that toInt computes
LEMMA DaysOfDate ==
  ASSUME NEW year, NEW month, NEW day, IsDate(year, month, day)
  PROVE  toInt(year, month, day) + 32044 = DaysBefore(YearOf(year, month)) + DayOf(month, day)
<1>1. PICK y : y = YearOf(year, month)
  OBVIOUS
<1>2. PICK mo : mo = MonthOf(month)
  OBVIOUS
<1>3. y \in Nat /\ mo \in Int /\ day \in Int
  <2>1. year \in Int /\ month \in Int /\ day \in Int /\ InYear(y, DayOf(month, day)) /\ MonthOf(month) \in 0 .. 11
    BY <1>1, Months DEF IsDate
  <2>2. QED
    BY <1>2, <2>1 DEF InYear
<1>4. toInt(year, month, day) = day + (153 * mo + 2) \div 5 + 365 * y + y \div 4 - y \div 100 + y \div 400 - 32045
  BY <1>1, <1>2 DEF toInt, YearOf, MonthOf
<1>5. DaysBefore(y) = 365 * y + y \div 4 - y \div 100 + y \div 400
         /\ DayOf(month, day) = day - 1 + (153 * mo + 2) \div 5
  BY <1>2 DEF DaysBefore, DayOf
<1>6. (153 * mo + 2) \div 5 \in Int /\ y \div 4 \in Int /\ y \div 100 \in Int /\ y \div 400 \in Int
  BY <1>3
<1>7. QED
  BY <1>1, <1>3, <1>4, <1>5, <1>6

\* fromInt gives back the date whose number toInt computed: what the engine reads in a
\* date column is what the generator wrote, for every date of the calendar.
THEOREM DatesComeBack ==
  ASSUME NEW year, NEW month, NEW day, IsDate(year, month, day)
  PROVE  fromInt(toInt(year, month, day)) = [year |-> year, month |-> month, day |-> day]
<1> DEFINE y == YearOf(year, month)  mo == MonthOf(month)  n == DayOf(month, day)
           a == toInt(year, month, day) + 32044
<1>1. InYear(y, n) /\ mo \in 0 .. 11
  BY Months
<1>2. (5 * n + 2) \div 153 = mo /\ y - 4800 + mo \div 10 = year /\ mo + 3 - 12 * (mo \div 10) = month
  BY Months
<1>3. day \in Int /\ n = day - 1 + (153 * mo + 2) \div 5
  BY DEF IsDate, DaysIn, DayOf
<1>4. a = DaysBefore(y) + n
  BY DaysOfDate
<1> HIDE DEF y, mo, n, a
<1>5. /\ Century(a) \in Nat /\ YearOfCentury(DayOfCentury(a)) \in Nat
      /\ 100 * Century(a) + YearOfCentury(DayOfCentury(a)) = y /\ DayOfYear(DayOfCentury(a)) = n
  BY <1>1, <1>4, YearsComeBack
<1>6. fromInt(toInt(year, month, day)) =
        [year |-> y - 4800 + mo \div 10,
         month |-> mo + 3 - 12 * (mo \div 10),
         day |-> n - (153 * mo + 2) \div 5 + 1]
  <2>1. PICK e : e = DayOfYear(DayOfCentury(a))
    OBVIOUS
  <2>2. PICK m : m = (5 * e + 2) \div 153
    OBVIOUS
  <2>3. fromInt(toInt(year, month, day)) =
          [year |-> 100 * Century(a) + YearOfCentury(DayOfCentury(a)) - 4800 + m \div 10,
           month |-> m + 3 - 12 * (m \div 10), day |-> e - (153 * m + 2) \div 5 + 1]
    BY <2>1, <2>2, SMT DEF fromInt, Century, DayOfCentury, YearOfCentury, DayOfYear, a
  <2>4. e = n /\ m = mo
    BY <1>2, <1>5, <2>1, <2>2
  <2>5. /\ 100 * Century(a) + YearOfCentury(DayOfCentury(a)) - 4800 + m \div 10 = y - 4800 + mo \div 10
        /\ m + 3 - 12 * (m \div 10) = mo + 3 - 12 * (mo \div 10)
        /\ e - (153 * m + 2) \div 5 + 1 = n - (153 * mo + 2) \div 5 + 1
    BY <1>1, <1>5, <2>4 DEF InYear
  <2>6. QED
    BY <2>3, <2>5
<1>7. n - (153 * mo + 2) \div 5 + 1 = day
  BY <1>1, <1>3
<1>8. QED
  BY <1>2, <1>5, <1>6, <1>7

\* A year ends before the next begins.
LEMMA YearsFollow ==
  ASSUME NEW y1, NEW n, InYear(y1, n), NEW y2 \in Nat, y1 < y2
  PROVE  DaysBefore(y1) + n < DaysBefore(y2)
<1> USE DEF InYear
<1>1. DaysBefore(y1) + n < DaysBefore(y1 + 1)
  <2>1. /\ (y1 + 1) \div 4 >= y1 \div 4 /\ (y1 + 1) \div 400 >= y1 \div 400
        /\ (y1 + 1) \div 100 <= y1 \div 100 + 1
        /\ (y1 + 1) \div 100 # y1 \div 100 => (y1 + 1) % 100 = 0 /\ (y1 + 1) \div 4 = y1 \div 4 + 1
    OBVIOUS
  <2>2. CASE n = 365
    <3>1. (y1 + 1) % 4 = 0 /\ ((y1 + 1) % 100 # 0 \/ (y1 + 1) % 400 = 0)
      BY <2>2 DEF Leap
    <3>2. (y1 + 1) \div 4 = y1 \div 4 + 1
      BY <3>1
    <3>3. (y1 + 1) % 400 = 0 => (y1 + 1) \div 400 = y1 \div 400 + 1
      OBVIOUS
    <3>4. QED
      BY <2>1, <2>2, <3>1, <3>2, <3>3 DEF DaysBefore
  <2>3. CASE n # 365
    BY <2>1, <2>3 DEF DaysBefore
  <2>4. QED
    BY <2>2, <2>3
<1>2. DaysBefore(y1 + 1) <= DaysBefore(y2)
  <2>1. /\ (y1 + 1) \div 4 <= y2 \div 4 /\ (y1 + 1) \div 400 <= y2 \div 400
        /\ y2 \div 100 - (y1 + 1) \div 100 <= y2 - (y1 + 1)
    OBVIOUS
  <2>2. QED
    BY <2>1 DEF DaysBefore
<1>3. QED
  BY <1>1, <1>2 DEF DaysBefore

\* Of two dates the earlier has the smaller number, so that predicates and
\* ORDER BY may compare the numbers.
THEOREM DatesKeepTheirOrder ==
  ASSUME NEW y1, NEW m1, NEW d1, IsDate(y1, m1, d1), NEW y2, NEW m2, NEW d2, IsDate(y2, m2, d2),
         y1 < y2 \/ (y1 = y2 /\ (m1 < m2 \/ (m1 = m2 /\ d1 < d2)))
  PROVE  toInt(y1, m1, d1) < toInt(y2, m2, d2)
<1> DEFINE ya == YearOf(y1, m1)  yb == YearOf(y2, m2)  na == DayOf(m1, d1)  nb == DayOf(m2, d2)
<1>1. InYear(ya, na) /\ InYear(yb, nb)
  BY Months
<1>2. ya \in Nat /\ yb \in Nat /\ na \in Int /\ nb \in Int /\ nb >= 0
  BY <1>1 DEF InYear
<1>3. /\ y1 \in Int /\ y2 \in Int /\ m1 \in 1 .. 12 /\ m2 \in 1 .. 12 /\ d1 \in Int /\ d2 \in Int
      /\ d1 >= 1 /\ d2 >= 1 /\ d1 <= 31
  BY DEF IsDate, DaysIn
<1>4. toInt(y1, m1, d1) + 32044 = DaysBefore(ya) + na
  BY DaysOfDate
<1>5. toInt(y2, m2, d2) + 32044 = DaysBefore(yb) + nb
  BY DaysOfDate
<1>6. toInt(y1, m1, d1) \in Int /\ toInt(y2, m2, d2) \in Int
  BY <1>3 DEF toInt
<1>7. CASE ya < yb
  <2>1. DaysBefore(ya) + na < DaysBefore(yb)
    BY <1>1, <1>2, <1>7, YearsFollow, SMT
  <2>2. DaysBefore(ya) \in Int /\ DaysBefore(yb) \in Int
    BY <1>1, <1>2 DEF DaysBefore
  <2> HIDE DEF ya, yb, na, nb
  <2>3. QED
    BY <1>1, <1>2, <1>4, <1>5, <1>6, <2>1, <2>2
<1>8. CASE ~(ya < yb)
  \* From March on, the earlier date is in the same year.
  <2>1. (14 - m1) \div 12 = (IF m1 <= 2 THEN 1 ELSE 0) /\ (14 - m2) \div 12 = (IF m2 <= 2 THEN 1 ELSE 0)
    BY <1>3
  <2>2. ya = y1 + 4800 - (IF m1 <= 2 THEN 1 ELSE 0) /\ yb = y2 + 4800 - (IF m2 <= 2 THEN 1 ELSE 0)
    BY <2>1 DEF YearOf
  <2>3. /\ MonthOf(m1) = m1 + 12 * (IF m1 <= 2 THEN 1 ELSE 0) - 3
        /\ MonthOf(m2) = m2 + 12 * (IF m2 <= 2 THEN 1 ELSE 0) - 3
    BY <2>1 DEF MonthOf
  <2>4. ya = yb /\ (MonthOf(m1) < MonthOf(m2) \/ (m1 = m2 /\ d1 < d2))
    BY <1>3, <1>8, <2>2, <2>3
  <2>5. DayOf(m1, d1) < DayOf(m2, d2)
    <3>1. CASE m1 = m2
      BY <1>3, <2>4, <3>1 DEF DayOf, MonthOf
    <3>2. CASE m1 # m2
      <4>1. PICK a \in Int, b \in Int : a = MonthOf(m1) /\ b = MonthOf(m2)
        BY <2>3, <1>3
      <4>2. a < b /\ a \in 0 .. 10 /\ b \in 0 .. 11
        BY <1>3, <2>3, <2>4, <3>2, <4>1
      <4>3. d1 <= DaysIn(y1, m1)
        BY <1>3 DEF IsDate
      <4>4. PICK p \in Int, q \in Int, r \in Int :
              p = (153 * a + 2) \div 5 /\ q = (153 * (a + 1) + 2) \div 5 /\ r = (153 * b + 2) \div 5
        OBVIOUS
      <4>5. d1 <= q - p
        <5>1. m1 = (IF a < 10 THEN a + 3 ELSE a - 9)
          BY <1>3, <2>3, <4>1
        <5>2. DaysIn(y1, m1) = (IF m1 \in {4, 6, 9, 11} THEN 30 ELSE 31)
          BY <4>2, <5>1 DEF DaysIn
        <5>3. q - p = (IF a \in {1, 3, 6, 8} THEN 30 ELSE 31)
          <6>1. a \in {0, 1, 2, 3, 4, 5, 6, 7, 8, 9, 10}
            BY <4>2
          <6>2. QED
            BY <4>4, <6>1
        <5>4. QED
          BY <1>3, <4>2, <4>3, <5>1, <5>2, <5>3
      <4>6. q <= r
        BY <4>2, <4>4
      <4>7. DayOf(m1, d1) = (d1 - 1) + p /\ DayOf(m2, d2) = (d2 - 1) + r
        BY <1>3, <4>1, <4>4 DEF DayOf
      <4>8. QED
        BY <1>3, <4>5, <4>6, <4>7
    <3>3. QED
      BY <3>1, <3>2
  <2>6. DaysBefore(ya) \in Int
    BY <1>2 DEF DaysBefore
  <2>7. DaysBefore(yb) = DaysBefore(ya) /\ na < nb
    BY <2>4, <2>5
  <2> HIDE DEF ya, yb, na, nb
  <2>8. QED
    BY <1>2, <1>4, <1>5, <1>6, <2>6, <2>7
<1>9. QED
  BY <1>7, <1>8

-----------------------------------------------------------------------------
(* The reader                                                               *)

\* Where a text has its first byte of a set, from i on; its limit if it has none
First(text, i, bytes) ==
  IF \E j \in i .. Len(text) : text[j] \in bytes
  THEN CHOOSE j \in i .. Len(text) : text[j] \in bytes /\ \A k \in i .. j - 1 : text[k] \notin bytes
  ELSE Limit(text)

\* There is such a place.
LEMMA FirstIs ==
  ASSUME NEW text, Len(text) \in Nat, NEW i \in 1 .. Limit(text), NEW bytes
  PROVE  /\ First(text, i, bytes) \in i .. Limit(text)
         /\ \A k \in i .. First(text, i, bytes) - 1 : text[k] \notin bytes
         /\ First(text, i, bytes) # Limit(text) => text[First(text, i, bytes)] \in bytes
<1> USE DEF Limit
<1>1. CASE \E j \in i .. Len(text) : text[j] \in bytes
  <2> DEFINE T == {j \in i .. Len(text) : text[j] \in bytes}
  <2>1. T \in SUBSET Nat /\ T # {}
    BY <1>1
  <2>2. PICK j \in T : \A k \in T : j <= k
    <3> HIDE DEF T
    <3>1. QED
      BY <2>1, LeastNatural
  <2>3. j \in i .. Len(text) /\ text[j] \in bytes /\ \A k \in i .. j - 1 : text[k] \notin bytes
    BY <2>2
  <2>4. PICK p : p = First(text, i, bytes)
    OBVIOUS
  <2>5. p = CHOOSE l \in i .. Len(text) : text[l] \in bytes /\ \A k \in i .. l - 1 : text[k] \notin bytes
    BY <1>1, <2>4, Zenon DEF First
  <2>6. p \in i .. Len(text) /\ text[p] \in bytes /\ \A k \in i .. p - 1 : text[k] \notin bytes
    BY <2>3, <2>5, Zenon
  <2>7. QED
    BY <2>4, <2>6
<1>2. CASE ~\E j \in i .. Len(text) : text[j] \in bytes
  BY <1>2 DEF First
<1>3. QED
  BY <1>1, <1>2

\* It is the only such place.
LEMMA FirstUnique ==
  ASSUME NEW text, Len(text) \in Nat, NEW i \in 1 .. Limit(text), NEW bytes, NEW p \in i .. Limit(text),
         \A k \in i .. p - 1 : text[k] \notin bytes, p # Limit(text) => text[p] \in bytes
  PROVE  p = First(text, i, bytes)
<1> DEFINE q == First(text, i, bytes)
<1>1. /\ q \in i .. Limit(text) /\ \A k \in i .. q - 1 : text[k] \notin bytes
      /\ q # Limit(text) => text[q] \in bytes
  BY FirstIs
<1> HIDE DEF q
<1>2. ~(p < q)
  BY <1>1 DEF Limit
<1>3. ~(q < p)
  BY <1>1 DEF Limit
<1>4. QED
  BY <1>1, <1>2, <1>3 DEF Limit, q

\* What a block does not hold is looked for behind it.
LEMMA FirstPasses ==
  ASSUME NEW text, Len(text) \in Nat, NEW i \in 1 .. Limit(text), NEW bytes, NEW w \in Nat,
         i + w <= Limit(text), \A j \in i .. i + w - 1 : text[j] \notin bytes
  PROVE  First(text, i, bytes) = First(text, i + w, bytes)
<1> DEFINE q == First(text, i + w, bytes)
<1>1. i + w \in 1 .. Limit(text)
  BY DEF Limit
<1>2. /\ q \in i + w .. Limit(text) /\ \A k \in i + w .. q - 1 : text[k] \notin bytes
      /\ q # Limit(text) => text[q] \in bytes
  BY <1>1, FirstIs
<1> HIDE DEF q
<1>3. q \in i .. Limit(text) /\ \A k \in i .. q - 1 : text[k] \notin bytes
  BY <1>2 DEF Limit
<1>4. QED
  BY <1>2, <1>3, FirstUnique DEF q

\* Looking at single bytes
LEMMA FirstSteps ==
  ASSUME NEW text, Len(text) \in Nat, NEW i \in 1 .. Limit(text), NEW bytes
  PROVE  /\ i = Limit(text) \/ text[i] \in bytes => First(text, i, bytes) = i
         /\ ~(i = Limit(text) \/ text[i] \in bytes) => First(text, i, bytes) = First(text, i + 1, bytes)
<1>1. ASSUME i = Limit(text) \/ text[i] \in bytes PROVE First(text, i, bytes) = i
  <2>1. i \in i .. Limit(text) /\ \A k \in i .. i - 1 : text[k] \notin bytes
    BY DEF Limit
  <2>2. i # Limit(text) => text[i] \in bytes
    BY <1>1
  <2>3. QED
    BY <2>1, <2>2, FirstUnique
<1>2. ASSUME ~(i = Limit(text) \/ text[i] \in bytes) PROVE First(text, i, bytes) = First(text, i + 1, bytes)
  <2>1. i + 1 <= Limit(text) /\ \A j \in i .. i + 1 - 1 : text[j] \notin bytes
    BY <1>2 DEF Limit
  <2>2. QED
    BY <2>1, FirstPasses
<1>3. QED
  BY <1>1, <1>2

\* find looks at a block at a time, then at the bytes that are left one by
\* one: what it finds is the first match, wherever the blocks begin and end.
THEOREM FindReturnsTheFirst ==
  ASSUME NEW text, Len(text) \in Nat, NEW from \in 1 .. Limit(text), NEW bytes
  PROVE  find(text, from, bytes) = First(text, from, bytes)
<1> DEFINE Next1(f) == [i \in 1 .. Limit(text) |->
                         IF i < Limit(text) - Width
                         THEN IF Matches(text, i, bytes) # {} THEN Least(Matches(text, i, bytes)) ELSE f[i + Width]
                         ELSE IF i = Limit(text) \/ IsAt(text, i, bytes) THEN i ELSE f[i + 1]]
           g == [i \in 1 .. Limit(text) |-> First(text, i, bytes)]
<1>1. \A i \in 1 .. Limit(text) : g[i] = First(text, i, bytes)
  OBVIOUS
<1>2. Len(text) \in Nat /\ Limit(text) \in Nat /\ Limit(text) = Len(text) + 1 /\ Width \in Nat \ {0}
  BY WidthAssumption DEF Limit
<1> HIDE DEF g
\* A block that holds a match
<1>3. ASSUME NEW i \in 1 .. Limit(text), i < Limit(text) - Width, Matches(text, i, bytes) # {}
      PROVE  Least(Matches(text, i, bytes)) = First(text, i, bytes)
  <2> DEFINE T == Matches(text, i, bytes)  p == Least(T)
  <2>1. T \in SUBSET Nat /\ T # {}
    BY <1>2, <1>3 DEF Matches
  <2> HIDE DEF T
  <2>2. \E j \in T : \A k \in T : j <= k
    BY <2>1, LeastNatural
  <2>3. p \in T /\ \A k \in T : p <= k
    BY <2>2 DEF Least
  <2> HIDE DEF p
  <2>4. p \in i .. i + Width - 1 /\ text[p] \in bytes /\ \A k \in i .. i + Width - 1 : text[k] \in bytes => p <= k
    BY <2>3 DEF T, Matches
  <2>5. p \in i .. Limit(text) /\ \A k \in i .. p - 1 : text[k] \notin bytes
    BY <1>2, <1>3, <2>4
  <2>6. p = First(text, i, bytes)
    BY <1>2, <2>4, <2>5, FirstUnique
  <2>7. QED
    BY <2>6 DEF p, T
\* One that holds none
<1>4. ASSUME NEW i \in 1 .. Limit(text), i < Limit(text) - Width, Matches(text, i, bytes) = {}
      PROVE  i + Width \in 1 .. Limit(text) /\ First(text, i, bytes) = First(text, i + Width, bytes)
  <2>1. i + Width \in 1 .. Limit(text)
    BY <1>2, <1>4
  <2>2. \A j \in i .. i + Width - 1 : text[j] \notin bytes
    BY <1>4 DEF Matches
  <2>3. i + Width <= Limit(text) /\ Width \in Nat
    BY <1>2, <2>1
  <2>4. QED
    BY <1>2, <2>1, <2>2, <2>3, FirstPasses
<1>5. ASSUME NEW i \in 1 .. Limit(text), ~(i < Limit(text) - Width)
      PROVE  /\ i = Limit(text) \/ IsAt(text, i, bytes) => First(text, i, bytes) = i
             /\ ~(i = Limit(text) \/ IsAt(text, i, bytes))
                  => i + 1 \in 1 .. Limit(text) /\ First(text, i, bytes) = First(text, i + 1, bytes)
  BY <1>2, FirstSteps DEF IsAt
<1>6. g = Next1(g)
  <2>1. ASSUME NEW i \in 1 .. Limit(text) PROVE g[i] = Next1(g)[i]
    <3>1. CASE i < Limit(text) - Width /\ Matches(text, i, bytes) # {}
      BY <1>1, <1>3, <3>1
    <3>2. CASE i < Limit(text) - Width /\ Matches(text, i, bytes) = {}
      BY <1>1, <1>4, <3>2
    <3>3. CASE ~(i < Limit(text) - Width)
      BY <1>1, <1>5, <3>3
    <3>4. QED
      BY <3>1, <3>2, <3>3
  <2>2. g = [i \in 1 .. Limit(text) |-> g[i]]
    BY DEF g
  <2> HIDE DEF Next1
  <2>3. Next1(g) = [i \in 1 .. Limit(text) |-> Next1(g)[i]]
    BY DEF Next1
  <2>4. QED
    BY <2>1, <2>2, <2>3, Zenon
<1>7. ASSUME NEW f, f = Next1(f) PROVE \A i \in 1 .. Limit(text) : f[i] = First(text, i, bytes)
  <2> DEFINE S == {n \in Nat : \A i \in 1 .. Limit(text) : Limit(text) - i <= n => f[i] = First(text, i, bytes)}
  <2>1. \A i \in 1 .. Limit(text) :
          f[i] = IF i < Limit(text) - Width
                 THEN IF Matches(text, i, bytes) # {} THEN Least(Matches(text, i, bytes)) ELSE f[i + Width]
                 ELSE IF i = Limit(text) \/ IsAt(text, i, bytes) THEN i ELSE f[i + 1]
    BY <1>7, Zenon
  <2>2. 0 \in S
    BY <1>2, <1>5, <2>1
  <2>3. ASSUME NEW n \in Nat, n \in S PROVE n + 1 \in S
    <3>1. SUFFICES ASSUME NEW i \in 1 .. Limit(text), Limit(text) - i <= n + 1 PROVE f[i] = First(text, i, bytes)
      BY <1>2
    <3>2. \A k \in 1 .. Limit(text) : k > i => f[k] = First(text, k, bytes)
      BY <1>2, <2>3, <3>1
    <3>3. CASE i < Limit(text) - Width /\ Matches(text, i, bytes) # {}
      BY <1>3, <2>1, <3>3
    <3>4. CASE i < Limit(text) - Width /\ Matches(text, i, bytes) = {}
      <4>1. i + Width > i
        BY <1>2
      <4>2. QED
        BY <1>4, <2>1, <3>2, <3>4, <4>1
    <3>5. CASE ~(i < Limit(text) - Width)
      <4>1. i + 1 > i
        BY <1>2
      <4>2. QED
        BY <1>5, <2>1, <3>2, <3>5, <4>1
    <3>6. QED
      BY <3>3, <3>4, <3>5
  <2>4. \A n \in Nat : n \in S
    <3> HIDE DEF S
    <3>1. QED
      BY <2>2, <2>3, SetInduction
  <2>5. ASSUME NEW i \in 1 .. Limit(text) PROVE f[i] = First(text, i, bytes)
    <3>1. Limit(text) - i \in Nat
      BY <1>2
    <3>2. Limit(text) - i \in S
      BY <2>4, <3>1
    <3>3. QED
      BY <1>2, <3>1, <3>2
  <2>6. QED
    BY <2>5
<1>8. PICK f : f = (CHOOSE h : h = Next1(h))
  OBVIOUS
<1>9. f = Next1(f)
  <2> HIDE DEF Next1
  <2>1. QED
    BY <1>6, <1>8
<1>10. find(text, from, bytes) = f[from]
  BY <1>8, Zenon DEF find
<1>11. QED
  BY <1>7, <1>9, <1>10

-----------------------------------------------------------------------------
(* The pages                                                                *)

Overlaps(s, addr, n) == s[1] < addr + n /\ addr < s[1] + s[2]

\* A store that no other overlaps is loaded.
LEMMA LoadsWhatWasStored ==
  ASSUME NEW mem, NEW s \in mem, Overlaps(s, s[1], s[2]),
         \A o \in mem : Overlaps(o, s[1], s[2]) => o = s
  PROVE  Load(mem, s[1], s[2]) = s[3]
<1> DEFINE here == {o \in mem : o[1] < s[1] + s[2] /\ s[1] < o[1] + o[2]}
<1>1. here = {s}
  BY DEF Overlaps
<1>2. Load(mem, s[1], s[2]) =
        IF \E o \in here : here = {o} /\ o[1] = s[1] /\ o[2] = s[2] THEN (CHOOSE o \in here : TRUE)[3] ELSE Garbage
  BY DEF Load
<1> HIDE DEF here
<1>3. \E o \in here : here = {o} /\ o[1] = s[1] /\ o[2] = s[2]
  BY <1>1
<1>4. (CHOOSE o \in here : TRUE) = s
  BY <1>1
<1>5. QED
  BY <1>2, <1>3, <1>4, Zenon

\* A page of values of n bytes: each is loaded from its place.
LEMMA FixedPageLoads ==
  ASSUME NEW X, NEW items \in Seq(X), NEW n \in {1, 4, 8}, NEW idx \in 0 .. Len(items) - 1
  PROVE  Load(FixedPage(items, n), idx * n, n) = items[idx + 1]
<1> DEFINE mem == FixedPage(items, n)  s == <<idx * n, n, items[idx + 1]>>
<1>1. s \in mem
  <2>1. idx + 1 \in DOMAIN items /\ (idx + 1) - 1 = idx
    OBVIOUS
  <2>2. QED
    BY <2>1, Zenon DEF FixedPage
<1>2. ASSUME NEW o \in mem, Overlaps(o, idx * n, n) PROVE o = s
  <2>1. PICK i \in DOMAIN items : o = <<(i - 1) * n, n, items[i]>>
    BY <1>2, Zenon DEF FixedPage
  <2>2. i \in 1 .. Len(items)
    OBVIOUS
  <2>3. (i - 1) * n < idx * n + n /\ idx * n < (i - 1) * n + n
    BY <1>2, <2>1 DEF Overlaps
  <2>4. i - 1 = idx
    <3>1. CASE n = 1
      BY <2>2, <2>3, <3>1
    <3>2. CASE n = 4
      BY <2>2, <2>3, <3>2, SMTT(30)
    <3>3. CASE n = 8
      BY <2>2, <2>3, <3>3, SMTT(30)
    <3>4. QED
      BY <3>1, <3>2, <3>3
  <2>5. i = idx + 1
    BY <2>2, <2>4
  <2>6. QED
    BY <2>1, <2>4, <2>5, Zenon
<1>3. s[1] = idx * n /\ s[2] = n /\ s[3] = items[idx + 1]
  OBVIOUS
<1>4. Overlaps(s, idx * n, n)
  <2>1. idx * n \in Int
    OBVIOUS
  <2>2. QED
    BY <1>3, <2>1 DEF Overlaps
<1> HIDE DEF mem, s
<1>5. QED
  BY <1>1, <1>2, <1>3, <1>4, LoadsWhatWasStored DEF mem

\* The strings of a page lie one before the other.
LEMMA BytesAdd ==
  ASSUME NEW X, NEW items \in Seq(Seq(X))
  PROVE  LET up == BytesUpTo(items) IN
         /\ \A i \in 0 .. Len(items) : up[i] \in Nat
         /\ \A i \in 1 .. Len(items) : up[i] = up[i - 1] + Len(items[i])
         /\ \A i, j \in 0 .. Len(items) : i <= j => up[i] <= up[j]
<1> DEFINE n == Len(items)  d == Lengths(n, items)  up == BytesUpTo(items)
<1>1. d \in [1 .. n -> Int] /\ n \in Nat /\ \A i \in 1 .. n : d[i] = Len(items[i]) /\ d[i] \in Nat
  BY DEF Lengths
<1>2. PICK f : IsSum(n, d, f)
  <2> HIDE DEF d, n
  <2>1. QED
    BY <1>1, SumExists
<1>3. up = CHOOSE g : g = [i \in 0 .. Len(items) |-> IF i = 0 THEN 0 ELSE g[i - 1] + Len(items[i])]
  BY DEF BytesUpTo
<1>4. f = [i \in 0 .. Len(items) |-> IF i = 0 THEN 0 ELSE f[i - 1] + Len(items[i])]
  <2>1. f = [i \in 0 .. n |-> IF i = 0 THEN 0 ELSE f[i - 1] + d[i]]
    BY <1>2 DEF IsSum
  <2>2. \A i \in 0 .. n : (IF i = 0 THEN 0 ELSE f[i - 1] + d[i]) = IF i = 0 THEN 0 ELSE f[i - 1] + Len(items[i])
    BY <1>1
  <2> HIDE DEF d
  <2>3. QED
    BY <2>1, <2>2
<1>5. up = [i \in 0 .. n |-> IF i = 0 THEN 0 ELSE up[i - 1] + Len(items[i])]
  <2> HIDE DEF up
  <2>1. QED
    BY <1>3, <1>4
<1> HIDE DEF up, d
<1>6. up[0] = 0 /\ \A i \in 1 .. n : up[i] = up[i - 1] + Len(items[i])
  <2>1. \A i \in 0 .. n : up[i] = IF i = 0 THEN 0 ELSE up[i - 1] + Len(items[i])
    BY <1>5, Zenon
  <2>2. QED
    BY <1>1, <2>1
<1>7. \A i \in 0 .. n : up[i] \in Nat
  <2> DEFINE S == {i \in Nat : i <= n => up[i] \in Nat}
  <2>1. 0 \in S
    BY <1>6
  <2>2. ASSUME NEW i \in Nat, i \in S PROVE i + 1 \in S
    <3>1. i + 1 <= n => i + 1 \in 1 .. n /\ (i + 1) - 1 = i
      BY <1>1
    <3>2. i + 1 <= n => up[i + 1] = up[i] + Len(items[i + 1]) /\ Len(items[i + 1]) \in Nat
      BY <1>1, <1>6, <3>1
    <3>3. QED
      BY <1>1, <2>2, <3>2, SMTT(30)
  <2> HIDE DEF S
  <2>3. \A i \in Nat : i \in S
    BY <2>1, <2>2, SetInduction
  <2>4. QED
    BY <1>1, <2>3 DEF S
<1>8. \A i, j \in 0 .. n : i <= j => up[i] <= up[j]
  <2> DEFINE S == {j \in Nat : j <= n => \A i \in 0 .. j : up[i] <= up[j]}
  <2>1. 0 \in S
    BY <1>6
  <2>2. ASSUME NEW j \in Nat, j \in S PROVE j + 1 \in S
    <3>1. SUFFICES ASSUME j + 1 <= n, NEW i \in 0 .. j + 1 PROVE up[i] <= up[j + 1]
      OBVIOUS
    <3>2. j + 1 \in 1 .. n /\ (j + 1) - 1 = j /\ j \in 0 .. n
      BY <1>1, <3>1
    <3>3. up[j + 1] = up[j] + Len(items[j + 1]) /\ Len(items[j + 1]) \in Nat /\ up[j] \in Nat
      BY <1>1, <1>6, <1>7, <3>2
    <3>4. i <= j => up[i] <= up[j] /\ up[i] \in Nat
      BY <1>7, <2>2, <3>1, <3>2
    <3>5. QED
      BY <3>1, <3>3, <3>4
  <2> HIDE DEF S
  <2>3. \A j \in Nat : j \in S
    BY <2>1, <2>2, SetInduction
  <2>4. QED
    BY <1>1, <2>3 DEF S
<1>9. QED
  BY <1>6, <1>7, <1>8 DEF up
\* Slots, then bytes: a store of a page of strings is the count, a slot or a byte.
LEMMA StringPageStores ==
  ASSUME NEW X, NEW items \in Seq(Seq(X)), NEW o \in StringPage(items)
  PROVE  \/ o = <<0, 8, Len(items)>>
         \/ \E i \in 1 .. Len(items) : o = <<SlotAt(i - 1), 16, <<Len(items[i]), OffsetOf(items, i)>>>>
         \/ \E i \in 1 .. Len(items) : \E k \in 1 .. Len(items[i]) : o = <<OffsetOf(items, i) + k - 1, 1, items[i][k]>>
<1>1. DOMAIN items = 1 .. Len(items) /\ \A i \in 1 .. Len(items) : DOMAIN items[i] = 1 .. Len(items[i])
  OBVIOUS
<1>2. \/ o \in {<<0, GLOBAL_OVERHEAD, Len(items)>>}
      \/ o \in {<<SlotAt(i - 1), PER_ITEM_OVERHEAD, <<Len(items[i]), OffsetOf(items, i)>>>> : i \in DOMAIN items}
      \/ o \in UNION {{<<OffsetOf(items, i) + k - 1, 1, items[i][k]>> : k \in DOMAIN items[i]} : i \in DOMAIN items}
  BY Zenon DEF StringPage
<1>3. CASE o \in {<<0, GLOBAL_OVERHEAD, Len(items)>>}
  BY <1>3, SMT DEF GLOBAL_OVERHEAD
<1>4. CASE o \in {<<SlotAt(i - 1), PER_ITEM_OVERHEAD, <<Len(items[i]), OffsetOf(items, i)>>>> : i \in DOMAIN items}
  BY <1>1, <1>4, SMT DEF PER_ITEM_OVERHEAD
<1>5. CASE o \in UNION {{<<OffsetOf(items, i) + k - 1, 1, items[i][k]>> : k \in DOMAIN items[i]} : i \in DOMAIN items}
  <2>1. PICK i \in DOMAIN items : o \in {<<OffsetOf(items, i) + k - 1, 1, items[i][k]>> : k \in DOMAIN items[i]}
    BY <1>5, Zenon
  <2>2. PICK k \in DOMAIN items[i] : o = <<OffsetOf(items, i) + k - 1, 1, items[i][k]>>
    BY <2>1, Zenon
  <2>3. i \in 1 .. Len(items) /\ k \in 1 .. Len(items[i])
    BY <1>1, <2>1, <2>2
  <2>4. QED
    BY <2>2, <2>3, Zenon
<1>6. QED
  BY <1>2, <1>3, <1>4, <1>5, Zenon

\* And they are these stores.
LEMMA StringPageHolds ==
  ASSUME NEW X, NEW items \in Seq(Seq(X)), NEW i \in 1 .. Len(items)
  PROVE  /\ <<SlotAt(i - 1), 16, <<Len(items[i]), OffsetOf(items, i)>>>> \in StringPage(items)
         /\ \A k \in 1 .. Len(items[i]) : <<OffsetOf(items, i) + k - 1, 1, items[i][k]>> \in StringPage(items)
<1>1. DOMAIN items = 1 .. Len(items) /\ DOMAIN items[i] = 1 .. Len(items[i])
  OBVIOUS
<1>2. <<SlotAt(i - 1), PER_ITEM_OVERHEAD, <<Len(items[i]), OffsetOf(items, i)>>>>
        \in {<<SlotAt(j - 1), PER_ITEM_OVERHEAD, <<Len(items[j]), OffsetOf(items, j)>>>> : j \in DOMAIN items}
  BY <1>1, Zenon
<1>3. ASSUME NEW k \in 1 .. Len(items[i])
      PROVE  <<OffsetOf(items, i) + k - 1, 1, items[i][k]>>
               \in UNION {{<<OffsetOf(items, j) + l - 1, 1, items[j][l]>> : l \in DOMAIN items[j]} : j \in DOMAIN items}
  <2>1. <<OffsetOf(items, i) + k - 1, 1, items[i][k]>>
          \in {<<OffsetOf(items, i) + l - 1, 1, items[i][l]>> : l \in DOMAIN items[i]}
    BY <1>1, Zenon
  <2>2. QED
    BY <1>1, <2>1, Zenon
<1>4. PER_ITEM_OVERHEAD = 16
  BY DEF PER_ITEM_OVERHEAD
<1>5. <<SlotAt(i - 1), PER_ITEM_OVERHEAD, <<Len(items[i]), OffsetOf(items, i)>>>> \in StringPage(items)
  BY <1>2, Zenon DEF StringPage
<1>6. \A k \in 1 .. Len(items[i]) : <<OffsetOf(items, i) + k - 1, 1, items[i][k]>> \in StringPage(items)
  BY <1>3, Zenon DEF StringPage
<1>7. QED
  BY <1>4, <1>5, <1>6

\* Where the strings lie: behind the slots, each behind those that follow it
LEMMA StringPagePlaces ==
  ASSUME NEW X, NEW items \in Seq(Seq(X))
  PROVE  /\ OutputSize(items) \in Nat
         /\ \A i \in 1 .. Len(items) :
              /\ OffsetOf(items, i) \in Nat /\ OffsetOf(items, i) >= 8 + 16 * Len(items)
              /\ OffsetOf(items, i) + Len(items[i]) <= OutputSize(items)
         /\ \A i, j \in 1 .. Len(items) : i < j => OffsetOf(items, j) + Len(items[j]) <= OffsetOf(items, i)
<1> DEFINE up == BytesUpTo(items)  n == Len(items)
<1>1. /\ \A i \in 0 .. n : up[i] \in Nat
      /\ \A i \in 1 .. n : up[i] = up[i - 1] + Len(items[i])
      /\ \A i, j \in 0 .. n : i <= j => up[i] <= up[j]
  BY BytesAdd
<1>2. OutputSize(items) = 8 + 16 * n + up[n] /\ \A i \in 1 .. n : OffsetOf(items, i) = OutputSize(items) - up[i]
  BY DEF OutputSize, OffsetOf, GLOBAL_OVERHEAD, PER_ITEM_OVERHEAD
<1>3. n \in Nat /\ \A i \in 1 .. n : Len(items[i]) \in Nat
  OBVIOUS
<1> HIDE DEF up, n
<1>4. OutputSize(items) \in Nat
  BY <1>1, <1>2, <1>3
<1>5. ASSUME NEW i \in 1 .. n
      PROVE  /\ OffsetOf(items, i) \in Nat /\ OffsetOf(items, i) >= 8 + 16 * n
             /\ OffsetOf(items, i) + Len(items[i]) <= OutputSize(items)
  <2>1. up[i] <= up[n] /\ up[i] \in Nat /\ up[n] \in Nat /\ up[i] >= Len(items[i])
    <3>1. i \in 0 .. n /\ n \in 0 .. n /\ i - 1 \in 0 .. n
      BY <1>3
    <3>2. QED
      BY <1>1, <1>3, <3>1, SMTT(30)
  <2>2. OffsetOf(items, i) = OutputSize(items) - up[i]
    BY <1>2, Zenon
  <2>3. Len(items[i]) \in Nat
    BY <1>3
  <2>4. OutputSize(items) = 8 + 16 * n + up[n]
    BY <1>2
  <2>5. QED
    BY <1>3, <1>4, <2>1, <2>2, <2>3, <2>4, SMTT(30)
<1>6. ASSUME NEW i \in 1 .. n, NEW j \in 1 .. n, i < j
      PROVE  OffsetOf(items, j) + Len(items[j]) <= OffsetOf(items, i)
  <2>1. i \in 0 .. n /\ j - 1 \in 0 .. n /\ j \in 0 .. n /\ i <= j - 1
    BY <1>3, <1>6
  <2>2. up[i] <= up[j - 1] /\ up[j] = up[j - 1] + Len(items[j]) /\ up[i] \in Nat /\ up[j - 1] \in Nat
    BY <1>1, <2>1
  <2>3. QED
    BY <1>2, <1>3, <1>4, <2>2, SMTT(30)
<1>7. QED
  BY <1>4, <1>5, <1>6 DEF n

\* A slot of a page of strings holds the length of its string and where it begins.
LEMMA SlotLoads ==
  ASSUME NEW X, NEW items \in Seq(Seq(X)), NEW i \in 1 .. Len(items)
  PROVE  Load(StringPage(items), SlotAt(i - 1), 16) = <<Len(items[i]), OffsetOf(items, i)>>
<1> DEFINE mem == StringPage(items)  s == <<SlotAt(i - 1), 16, <<Len(items[i]), OffsetOf(items, i)>>>>
<1>1. s \in mem /\ s[1] = SlotAt(i - 1) /\ s[2] = 16 /\ s[3] = <<Len(items[i]), OffsetOf(items, i)>>
  <2>1. s \in mem
    BY StringPageHolds, Zenon
  <2>2. QED
    BY <2>1
<1>2. /\ SlotAt(i - 1) = 8 + 16 * (i - 1)
      /\ \A j \in 1 .. Len(items) : SlotAt(j - 1) = 8 + 16 * (j - 1)
  BY DEF SlotAt, GLOBAL_OVERHEAD, PER_ITEM_OVERHEAD
<1>3. ASSUME NEW o \in mem, Overlaps(o, SlotAt(i - 1), 16) PROVE o = s
  <2>1. o[1] < 8 + 16 * (i - 1) + 16 /\ 8 + 16 * (i - 1) < o[1] + o[2]
    BY <1>2, <1>3 DEF Overlaps
  <2>2. ~(o = <<0, 8, Len(items)>>)
    <3>1. 0 + 8 <= 8 + 16 * (i - 1)
      OBVIOUS
    <3>2. QED
      BY <2>1, <3>1
  <2>3. ~\E j \in 1 .. Len(items) : \E k \in 1 .. Len(items[j]) : o = <<OffsetOf(items, j) + k - 1, 1, items[j][k]>>
    <3>1. SUFFICES ASSUME NEW j \in 1 .. Len(items), NEW k \in 1 .. Len(items[j]),
                          o = <<OffsetOf(items, j) + k - 1, 1, items[j][k]>>
                   PROVE  FALSE
      OBVIOUS
    <3>2. o[1] = OffsetOf(items, j) + k - 1
      BY <3>1
    <3>3. OffsetOf(items, j) \in Nat /\ OffsetOf(items, j) >= 8 + 16 * Len(items)
      BY StringPagePlaces
    <3>4. QED
      BY <2>1, <3>2, <3>3
  <2>4. PICK j \in 1 .. Len(items) : o = <<SlotAt(j - 1), 16, <<Len(items[j]), OffsetOf(items, j)>>>>
    BY <2>2, <2>3, StringPageStores
  <2>5. o[1] = 8 + 16 * (j - 1) /\ o[2] = 16
    BY <1>2, <2>4
  <2>6. j = i
    BY <2>1, <2>5
  <2>7. QED
    BY <2>4, <2>6, Zenon
<1>4. Overlaps(s, SlotAt(i - 1), 16)
  BY <1>1, <1>2 DEF Overlaps
<1> HIDE DEF mem, s
<1>5. QED
  BY <1>1, <1>3, <1>4, LoadsWhatWasStored DEF mem

\* And there its bytes are.
LEMMA ByteLoads ==
  ASSUME NEW X, NEW items \in Seq(Seq(X)), NEW i \in 1 .. Len(items), NEW k \in 1 .. Len(items[i])
  PROVE  Load(StringPage(items), OffsetOf(items, i) + k - 1, 1) = items[i][k]
<1> DEFINE mem == StringPage(items)  at == OffsetOf(items, i) + k - 1  s == <<at, 1, items[i][k]>>
<1>1. s \in mem /\ s[1] = at /\ s[2] = 1 /\ s[3] = items[i][k]
  <2>1. s \in mem
    BY StringPageHolds, Zenon
  <2>2. QED
    BY <2>1
<1>2. /\ \A j \in 1 .. Len(items) : OffsetOf(items, j) \in Nat /\ OffsetOf(items, j) >= 8 + 16 * Len(items)
      /\ \A j, l \in 1 .. Len(items) : j < l => OffsetOf(items, l) + Len(items[l]) <= OffsetOf(items, j)
  BY StringPagePlaces
<1>3. at \in Nat /\ at >= 8 + 16 * Len(items) /\ at < OffsetOf(items, i) + Len(items[i]) /\ at >= OffsetOf(items, i)
  BY <1>2, SMTT(30)
<1>4. ASSUME NEW o \in mem, Overlaps(o, at, 1) PROVE o = s
  <2>1. o[1] < at + 1 /\ at < o[1] + o[2]
    BY <1>4 DEF Overlaps
  <2>2. ~(o = <<0, 8, Len(items)>>)
    BY <1>3, <2>1
  <2>3. ~\E j \in 1 .. Len(items) : o = <<SlotAt(j - 1), 16, <<Len(items[j]), OffsetOf(items, j)>>>>
    <3>1. SUFFICES ASSUME NEW j \in 1 .. Len(items), o = <<SlotAt(j - 1), 16, <<Len(items[j]), OffsetOf(items, j)>>>>
                   PROVE  FALSE
      OBVIOUS
    <3>2. o[1] = 8 + 16 * (j - 1) /\ o[2] = 16
      BY <3>1 DEF SlotAt, GLOBAL_OVERHEAD, PER_ITEM_OVERHEAD
    <3> HIDE DEF at
    <3>3. QED
      BY <1>3, <2>1, <3>2
  <2>4. PICK j \in 1 .. Len(items) : \E l \in 1 .. Len(items[j]) : o = <<OffsetOf(items, j) + l - 1, 1, items[j][l]>>
    BY <2>2, <2>3, StringPageStores
  <2>5. PICK l \in 1 .. Len(items[j]) : o = <<OffsetOf(items, j) + l - 1, 1, items[j][l]>>
    BY <2>4
  <2>6. o[1] = OffsetOf(items, j) + l - 1 /\ o[2] = 1
    BY <2>5
  <2>7. OffsetOf(items, j) + l - 1 = at
    <3>1. OffsetOf(items, j) + l - 1 \in Int
      BY <1>2
    <3>2. at \in Int
      BY <1>3
    <3> HIDE DEF at
    <3>3. QED
      BY <2>1, <2>6, <3>1, <3>2
  <2>8. ~(i < j) /\ ~(j < i)
    <3>1. OffsetOf(items, j) + l - 1 < OffsetOf(items, j) + Len(items[j])
             /\ OffsetOf(items, j) <= OffsetOf(items, j) + l - 1
      BY <1>2, SMTT(30)
    <3>2. i < j => OffsetOf(items, j) + Len(items[j]) <= OffsetOf(items, i)
      BY <1>2
    <3>3. j < i => OffsetOf(items, i) + Len(items[i]) <= OffsetOf(items, j)
      BY <1>2
    <3>4. Len(items[i]) \in Nat /\ Len(items[j]) \in Nat /\ OffsetOf(items, i) \in Nat /\ OffsetOf(items, j) \in Nat
      BY <1>2, SMTT(30)
    <3>5. at \in Nat /\ at < OffsetOf(items, i) + Len(items[i]) /\ at >= OffsetOf(items, i)
      BY <1>3
    <3>6. at < OffsetOf(items, j) + Len(items[j]) /\ at >= OffsetOf(items, j)
      BY <2>7, <3>1, Zenon
    <3>7. PICK p \in Nat, q \in Nat, m \in Nat, n \in Nat, z \in Nat :
            p = OffsetOf(items, i) /\ q = OffsetOf(items, j) /\ m = Len(items[i]) /\ n = Len(items[j]) /\ z = at
      BY <3>4, <3>5, Zenon
    <3>8. /\ i < j => q + n <= p
          /\ j < i => p + m <= q
          /\ z < p + m /\ z >= p /\ z < q + n /\ z >= q
      BY <3>2, <3>3, <3>5, <3>6, <3>7, Zenon
    <3>9. ~(q + n <= p) /\ ~(p + m <= q)
      BY <3>8
    <3>10. QED
      BY <3>8, <3>9, Zenon
  <2>9. j = i
    BY <2>8
  <2>10. l = k
    BY <1>2, <2>7, <2>9
  <2>11. QED
    BY <2>5, <2>9, <2>10, Zenon
<1>5. Overlaps(s, at, 1)
  BY <1>1, <1>3 DEF Overlaps
<1> HIDE DEF mem, s
<1>6. QED
  BY <1>1, <1>4, <1>5, LoadsWhatWasStored DEF mem

\* A view of a string, whatever memory holds behind it
IsView(v, s) == v.length = Len(s) /\ \A n \in 0 .. Len(s) : View(v, n) = SubSeq(s, 1, n)

\* The text of such a view is the string.
LEMMA ViewText ==
  ASSUME NEW X, NEW s \in Seq(X), NEW v, IsView(v, s)
  PROVE  Text(v) = s
<1>1. Len(s) \in 0 .. Len(s) /\ SubSeq(s, 1, Len(s)) = s
  OBVIOUS
<1>2. QED
  BY <1>1 DEF IsView, Text

\* The view that load_from_slotted_page returns is that of the string that was stored.
LEMMA ViewLoads ==
  ASSUME NEW X, NEW items \in Seq(Seq(X)), NEW i \in 1 .. Len(items), NEW column,
         column.data = StringPage(items), column.size = OutputSize(items), Garbage \notin Nat \X Nat
  PROVE  IsView(load_from_slotted_page(i - 1, column), items[i])
<1> DEFINE off == OffsetOf(items, i)  len == Len(items[i])
           data == [k \in 1 .. column.size - off |-> Load(column.data, off + k - 1, 1)]
           slot == Load(column.data, SlotAt(i - 1), PER_ITEM_OVERHEAD)
           view(length, offset) ==
             [data |-> [k \in 1 .. column.size - offset |-> Load(column.data, offset + k - 1, 1)], length |-> length]
           v == load_from_slotted_page(i - 1, column)
<1>1. slot = <<len, off>>
  BY SlotLoads, Zenon DEF PER_ITEM_OVERHEAD
<1>2. off \in Nat /\ len \in Nat /\ OutputSize(items) \in Nat /\ off + len <= OutputSize(items)
  BY StringPagePlaces
<1>3. slot # Garbage /\ slot[1] = len /\ slot[2] = off
  <2> HIDE DEF off, len, slot
  <2>1. QED
    BY <1>1, <1>2
<1>4. v = IF slot = Garbage THEN Garbage ELSE view(slot[1], slot[2])
  BY DEF load_from_slotted_page
<1>5. v = [data |-> data, length |-> len]
  <2>1. view(len, off) = [data |-> data, length |-> len]
    OBVIOUS
  <2>2. v = view(slot[1], slot[2])
    <3> HIDE DEF view, slot, v
    <3>1. QED
      BY <1>3, <1>4
  <2>3. view(slot[1], slot[2]) = view(len, off)
    BY <1>3, Zenon
  <2> HIDE DEF view, slot, v, data
  <2>4. QED
    BY <2>1, <2>2, <2>3, Zenon
<1>6. \A k \in 1 .. len : data[k] = items[i][k]
  <2>1. SUFFICES ASSUME NEW k \in 1 .. len PROVE data[k] = items[i][k]
    OBVIOUS
  <2>2. k \in 1 .. column.size - off
    <3> HIDE DEF off, len
    <3>1. QED
      BY <1>2
  <2>3. data[k] = Load(StringPage(items), off + k - 1, 1)
    BY <2>2
  <2>4. QED
    BY <2>3, ByteLoads, ZenonT(30)
<1>7. ASSUME NEW n \in 0 .. len PROVE SubSeq(data, 1, n) = SubSeq(items[i], 1, n)
  <2>1. SubSeq(items[i], 1, n) = [k \in 1 .. n |-> items[i][k]]
    <3>1. PICK s \in Seq(X) : s = items[i]
      OBVIOUS
    <3>2. SubSeq(s, 1, n) = [k \in 1 .. n |-> s[k]]
      OBVIOUS
    <3>3. QED
      BY <3>1, <3>2, Zenon
  <2>2. SubSeq(data, 1, n) = [k \in 1 .. n |-> data[k]]
    <3>1. SubSeq(data, 1, n) = [k \in 1 .. (1 + n - 1) |-> data[k + 1 - 1]]
      OBVIOUS
    <3>2. (1 + n) - 1 = n /\ \A k \in 1 .. n : (k + 1) - 1 = k
      BY <1>2
    <3> HIDE DEF data, len
    <3>3. QED
      BY <3>1, <3>2
  <2>3. \A k \in 1 .. n : data[k] = items[i][k]
    <3>1. \A k \in 1 .. n : k \in 1 .. len
      <4> HIDE DEF len
      <4>1. QED
        BY <1>2
    <3>2. QED
      BY <1>6, <3>1, Zenon
  <2> HIDE DEF data, len
  <2>4. QED
    BY <2>1, <2>2, <2>3
<1>8. v.length = len /\ v.data = data
  <2> HIDE DEF v, data, len
  <2>1. QED
    BY <1>5
<1> HIDE DEF v, data
<1>9. \A n \in 0 .. len : View(v, n) = SubSeq(items[i], 1, n)
  BY <1>7, <1>8, Zenon DEF View
<1>10. QED
  BY <1>8, <1>9, Zenon DEF v, IsView

-----------------------------------------------------------------------------
(* The catalog                                                              *)

ImportTypes == {"int32", "int64", "double", "char", "date", "string"}

\* What the tables have in common: there is a first column and it is a number,
\* the last is a string, and the strings are mapped as strings.
IsTable(types, mapped) ==
  /\ types \in Seq(ImportTypes) /\ Len(types) > 0
  /\ \/ types[1] = "int32" /\ mapped[1] = "int32_t"
     \/ types[1] = "int64" /\ mapped[1] = "int64_t"
  /\ types[Len(types)] = "string"
  /\ \A c \in 1 .. Len(types) : types[c] = "string" => mapped[c] = "StringView"

\* Each table of TPC-H is one.
LEMMA CatalogTables ==
  \A t \in DOMAIN TableDefs : IsTable(TableDefs[t], InMemoryTPCH[t])
<1>1. DOMAIN TableDefs = {"part", "supplier", "partsupp", "customer", "orders", "lineitem", "nation", "region"}
  BY DEF TableDefs
<1>2. IsTable(TableDefs["part"], InMemoryTPCH["part"])
  <2>1. TableDefs["part"] =
        <<"int32", "string", "string", "string", "string", "int32", "string", "double", "string">>
    BY DEF TableDefs
  <2>2. InMemoryTPCH["part"] =
        <<"int32_t", "StringView", "StringView", "StringView", "StringView", "int32_t", "StringView",
          "double", "StringView">>
    BY DEF InMemoryTPCH
  <2>3. QED
    BY <2>1, <2>2 DEF IsTable, ImportTypes
<1>3. IsTable(TableDefs["supplier"], InMemoryTPCH["supplier"])
  <2>1. TableDefs["supplier"] = <<"int32", "string", "string", "int32", "string", "double", "string">>
    BY DEF TableDefs
  <2>2. InMemoryTPCH["supplier"] =
        <<"int32_t", "StringView", "StringView", "int32_t", "StringView", "double", "StringView">>
    BY DEF InMemoryTPCH
  <2>3. QED
    BY <2>1, <2>2 DEF IsTable, ImportTypes
<1>4. IsTable(TableDefs["partsupp"], InMemoryTPCH["partsupp"])
  <2>1. TableDefs["partsupp"] = <<"int32", "int32", "int32", "double", "string">>
    BY DEF TableDefs
  <2>2. InMemoryTPCH["partsupp"] = <<"int32_t", "int32_t", "int32_t", "double", "StringView">>
    BY DEF InMemoryTPCH
  <2>3. QED
    BY <2>1, <2>2 DEF IsTable, ImportTypes
<1>5. IsTable(TableDefs["customer"], InMemoryTPCH["customer"])
  <2>1. TableDefs["customer"] = <<"int32", "string", "string", "int32", "string", "double", "string", "string">>
    BY DEF TableDefs
  <2>2. InMemoryTPCH["customer"] =
        <<"int32_t", "StringView", "StringView", "int32_t", "StringView", "double", "StringView",
          "StringView">>
    BY DEF InMemoryTPCH
  <2>3. QED
    BY <2>1, <2>2 DEF IsTable, ImportTypes
<1>6. IsTable(TableDefs["orders"], InMemoryTPCH["orders"])
  <2>1. TableDefs["orders"] =
        <<"int64", "int32", "char", "double", "date", "string", "string", "int32", "string">>
    BY DEF TableDefs
  <2>2. InMemoryTPCH["orders"] =
        <<"int64_t", "int32_t", "char", "double", "Date", "StringView", "StringView", "int32_t",
          "StringView">>
    BY DEF InMemoryTPCH
  <2>3. QED
    BY <2>1, <2>2 DEF IsTable, ImportTypes
<1>7. IsTable(TableDefs["lineitem"], InMemoryTPCH["lineitem"])
  <2>1. TableDefs["lineitem"] =
        <<"int64", "int32", "int32", "int32", "double", "double", "double", "double", "char", "char", "date",
          "date", "date", "string", "string", "string">>
    BY DEF TableDefs
  <2>2. InMemoryTPCH["lineitem"] =
        <<"int64_t", "int32_t", "int32_t", "int32_t", "double", "double", "double", "double", "char", "char",
          "Date", "Date", "Date", "StringView", "StringView", "StringView">>
    BY DEF InMemoryTPCH
  <2>3. QED
    BY <2>1, <2>2 DEF IsTable, ImportTypes
<1>8. IsTable(TableDefs["nation"], InMemoryTPCH["nation"])
  <2>1. TableDefs["nation"] = <<"int32", "string", "int32", "string">>
    BY DEF TableDefs
  <2>2. InMemoryTPCH["nation"] = <<"int32_t", "StringView", "int32_t", "StringView">>
    BY DEF InMemoryTPCH
  <2>3. QED
    BY <2>1, <2>2 DEF IsTable, ImportTypes
<1>9. IsTable(TableDefs["region"], InMemoryTPCH["region"])
  <2>1. TableDefs["region"] = <<"int32", "string", "string">>
    BY DEF TableDefs
  <2>2. InMemoryTPCH["region"] = <<"int32_t", "StringView", "StringView">>
    BY DEF InMemoryTPCH
  <2>3. QED
    BY <2>1, <2>2 DEF IsTable, ImportTypes
<1>10. QED
  BY <1>1, <1>2, <1>3, <1>4, <1>5, <1>6, <1>7, <1>8, <1>9

\* A column of a query, once its file is mapped: each access gives back the value
\* that was written there, a string by a view of it.
IsMapped(c) ==
  columns[c] = [data |-> make_page(Types[c], outputs[c]).mem,
                size |-> MappedSize(InMemoryTPCH[table][c], make_page(Types[c], outputs[c]).file_size)]

\* The engine steps over a value by as many bytes as the generator wrote.
LEMMA SizesAgree ==
  ASSUME NEW type \in ImportTypes \ {"string"}
  PROVE  EngineType[type] # "String" /\ stride[EngineType[type]] = sizeOf[type] /\ sizeOf[type] \in {1, 4, 8}
BY DEF ImportTypes, EngineType, stride, sizeOf

\* A number, a character or a date
LEMMA ValueLoads ==
  ASSUME NEW X, NEW c, Types[c] \in ImportTypes \ {"string"}, tables_indices[table][c] = EngineType[Types[c]],
         outputs[c] \in Seq(X), IsMapped(c), NEW idx \in 0 .. Len(outputs[c]) - 1
  PROVE  Access(c, idx) = outputs[c][idx + 1]
<1> DEFINE n == sizeOf[Types[c]]  type == tables_indices[table][c]
<1>1. type # "String" /\ stride[type] = n /\ n \in {1, 4, 8}
  BY SizesAgree
<1>2. Access(c, idx) = Load(columns[c].data, idx * n, n)
  <2> HIDE DEF n
  <2>1. QED
    BY <1>1 DEF Access
<1>3. columns[c].data = FixedPage(outputs[c], n)
  <2>1. Types[c] # "string"
    BY DEF ImportTypes
  <2>2. make_page(Types[c], outputs[c]).mem = FixedPage(outputs[c], n)
    BY <2>1 DEF make_page
  <2>3. QED
    BY <2>2 DEF IsMapped
<1>4. Load(FixedPage(outputs[c], n), idx * n, n) = outputs[c][idx + 1]
  <2> HIDE DEF n
  <2>1. QED
    BY <1>1, FixedPageLoads
<1>5. QED
  BY <1>2, <1>3, <1>4

\* A string
LEMMA StringLoads ==
  ASSUME NEW X, NEW c, Types[c] = "string", InMemoryTPCH[table][c] = "StringView",
         tables_indices[table][c] = EngineType[Types[c]],
         outputs[c] \in Seq(Seq(X)), IsMapped(c), NEW idx \in 0 .. Len(outputs[c]) - 1, Garbage \notin Nat \X Nat
  PROVE  IsView(Access(c, idx), outputs[c][idx + 1])
<1>1. Access(c, idx) = load_from_slotted_page(idx, columns[c])
  BY DEF Access, EngineType
<1>2. columns[c].data = StringPage(outputs[c]) /\ columns[c].size = OutputSize(outputs[c])
  <2>1. make_page(Types[c], outputs[c]) = [file_size |-> OutputSize(outputs[c]), mem |-> StringPage(outputs[c])]
    BY DEF make_page
  <2>2. MappedSize("StringView", OutputSize(outputs[c])) = OutputSize(outputs[c])
    BY DEF MappedSize
  <2>3. QED
    BY <2>1, <2>2 DEF IsMapped
<1>3. idx + 1 \in 1 .. Len(outputs[c]) /\ (idx + 1) - 1 = idx
  OBVIOUS
<1>4. PICK i \in 1 .. Len(outputs[c]) : i = idx + 1
  BY <1>3
<1>5. PICK items \in Seq(Seq(X)) : items = outputs[c]
  OBVIOUS
<1>6. PICK column : column = columns[c]
  OBVIOUS
<1>7. column.data = StringPage(items) /\ column.size = OutputSize(items) /\ i \in 1 .. Len(items)
  BY <1>2, <1>4, <1>5, <1>6
<1>8. IsView(load_from_slotted_page(i - 1, column), items[i])
  BY <1>5, <1>7, ViewLoads
<1>9. QED
  BY <1>1, <1>3, <1>4, <1>5, <1>6, <1>8

\* The scan counts the rows that were written.
LEMMA CountsLines ==
  ASSUME NEW X, table \in DOMAIN TableDefs, outputs[1] \in Seq(X), IsMapped(1)
  PROVE  TupleCount = Len(outputs[1])
<1>1. \/ Types[1] = "int32" /\ InMemoryTPCH[table][1] = "int32_t"
      \/ Types[1] = "int64" /\ InMemoryTPCH[table][1] = "int64_t"
  BY CatalogTables DEF IsTable, Types
<1>2. TupleCount = MappedSize(InMemoryTPCH[table][1], make_page(Types[1], outputs[1]).file_size)
  BY DEF TupleCount, IsMapped
<1>3. Types[1] # "string" /\ InMemoryTPCH[table][1] # "StringView"
  BY <1>1
<1>4. TupleCount = (Len(outputs[1]) * sizeOf[Types[1]]) \div mappedSizeOf[InMemoryTPCH[table][1]]
  BY <1>2, <1>3 DEF MappedSize, make_page
<1>5. \/ sizeOf[Types[1]] = 4 /\ mappedSizeOf[InMemoryTPCH[table][1]] = 4
      \/ sizeOf[Types[1]] = 8 /\ mappedSizeOf[InMemoryTPCH[table][1]] = 8
  BY <1>1 DEF sizeOf, mappedSizeOf
<1>6. Len(outputs[1]) \in Nat
  OBVIOUS
<1>7. QED
  BY <1>4, <1>5, <1>6

-----------------------------------------------------------------------------
(* LIKE                                                                     *)

\* The recursion of Like, as what it makes of a function
Matched(text, pattern, f) ==
  [j \in 1 .. Len(pattern) + 1 |->
     IF j > Len(pattern) THEN {Len(text) + 1}
     ELSE IF pattern[j] = ANY
          THEN {i \in 1 .. Len(text) + 1 : \E k \in f[j + 1] : i <= k}
          ELSE {i \in 1 .. Len(text) : text[i] = pattern[j] /\ i + 1 \in f[j + 1]}]

\* Only one function solves it.
LEMMA LikeIs ==
  ASSUME NEW text, NEW pattern, Len(pattern) \in Nat, NEW g, g = Matched(text, pattern, g)
  PROVE  Like(text, pattern) <=> 1 \in g[1]
<1> DEFINE m == Len(pattern)
<1>1. PICK f : f = CHOOSE h : h = Matched(text, pattern, h)
  OBVIOUS
<1>2. f = Matched(text, pattern, f)
  BY <1>1, Zenon
<1>3. Like(text, pattern) <=> 1 \in f[1]
  BY <1>1, Zenon DEF Like, Matched
<1>4. ASSUME NEW h, h = Matched(text, pattern, h)
      PROVE  \A j \in 1 .. m + 1 :
               h[j] = IF j > m THEN {Len(text) + 1}
                      ELSE IF pattern[j] = ANY THEN {i \in 1 .. Len(text) + 1 : \E k \in h[j + 1] : i <= k}
                           ELSE {i \in 1 .. Len(text) : text[i] = pattern[j] /\ i + 1 \in h[j + 1]}
  BY <1>4, Zenon DEF Matched
<1> DEFINE S == {d \in Nat : \A j \in 1 .. m + 1 : m + 1 - j <= d => f[j] = g[j]}
<1>5. m \in Nat
  OBVIOUS
<1>6. f[m + 1] = {Len(text) + 1} /\ g[m + 1] = {Len(text) + 1}
  <2>1. m + 1 \in 1 .. m + 1 /\ m + 1 > m
    BY <1>5
  <2>2. QED
    BY <1>2, <1>4, <2>1, Zenon
<1>7. 0 \in S
  <2>1. ASSUME NEW j \in 1 .. m + 1, m + 1 - j <= 0 PROVE f[j] = g[j]
    <3>1. j = m + 1
      BY <1>5, <2>1
    <3>2. QED
      BY <1>6, <3>1, Zenon
  <2>2. QED
    BY <2>1
<1>8. ASSUME NEW d \in Nat, d \in S PROVE d + 1 \in S
  <2>1. ASSUME NEW j \in 1 .. m + 1, m + 1 - j <= d + 1 PROVE f[j] = g[j]
    <3>1. CASE j = m + 1
      BY <1>6, <3>1, Zenon
    <3>2. CASE j # m + 1
      <4>1. j + 1 \in 1 .. m + 1 /\ ~(j > m) /\ m + 1 - (j + 1) <= d
        BY <1>5, <2>1, <3>2
      <4>2. f[j + 1] = g[j + 1]
        BY <1>8, <4>1
      <4>3. f[j] = IF pattern[j] = ANY THEN {i \in 1 .. Len(text) + 1 : \E k \in f[j + 1] : i <= k}
                   ELSE {i \in 1 .. Len(text) : text[i] = pattern[j] /\ i + 1 \in f[j + 1]}
        BY <1>2, <1>4, <4>1, ZenonT(30)
      <4>4. g[j] = IF pattern[j] = ANY THEN {i \in 1 .. Len(text) + 1 : \E k \in g[j + 1] : i <= k}
                   ELSE {i \in 1 .. Len(text) : text[i] = pattern[j] /\ i + 1 \in g[j + 1]}
        BY <1>4, <4>1, ZenonT(30)
      <4>5. QED
        BY <4>2, <4>3, <4>4, Zenon
    <3>3. QED
      BY <3>1, <3>2
  <2>2. d + 1 \in Nat
    OBVIOUS
  <2>3. QED
    BY <2>1, <2>2, Zenon
<1>9. \A d \in Nat : d \in S
  <2> HIDE DEF S
  <2>1. QED
    BY <1>7, <1>8, SetInduction
<1>10. f[1] = g[1]
  <2>1. m \in S
    BY <1>5, <1>9
  <2>2. 1 \in 1 .. m + 1 /\ m + 1 - 1 <= m
    BY <1>5
  <2>3. QED
    BY <2>1, <2>2
<1>11. QED
  BY <1>3, <1>10, Zenon

\* A pattern of a text and a '%': the string begins with the text.
LEMMA LikePrefix ==
  ASSUME NEW text \in Seq(Nat), NEW pattern \in Seq(Nat), Len(pattern) > 1, pattern[Len(pattern)] = ANY,
         \A i \in 1 .. Len(pattern) - 1 : pattern[i] # ANY
  PROVE  Like(text, pattern)
           <=> Len(pattern) - 1 <= Len(text) /\ \A k \in 1 .. Len(pattern) - 1 : text[k] = pattern[k]
<1> DEFINE L == Len(text)  m == Len(pattern)
           h(j) == {i \in 1 .. L + 1 : i + (m - j) - 1 <= L /\ \A k \in j .. m - 1 : text[i + (k - j)] = pattern[k]}
           g == [j \in 1 .. m + 1 |-> IF j = m + 1 THEN {L + 1} ELSE h(j)]
<1>1. L \in Nat /\ m \in Nat /\ m > 1
  OBVIOUS
<1>2. \A j \in 1 .. m + 1 : g[j] = IF j = m + 1 THEN {L + 1} ELSE h(j)
  BY Zenon
<1>3. h(m) = 1 .. L + 1
  BY <1>1
<1>4. ASSUME NEW j \in 1 .. m - 1
      PROVE  h(j) = {i \in 1 .. L : text[i] = pattern[j] /\ i + 1 \in h(j + 1)}
  <2>1. ASSUME NEW i \in h(j) PROVE i \in 1 .. L /\ text[i] = pattern[j] /\ i + 1 \in h(j + 1)
    <3>1. i \in 1 .. L /\ i + 1 \in 1 .. L + 1 /\ (i + 1) + (m - (j + 1)) - 1 <= L
      BY <1>1, <2>1, SMTT(30)
    <3>2. text[i] = pattern[j]
      <4>1. j \in j .. m - 1 /\ i + (j - j) = i
        BY <1>1, <2>1
      <4>2. text[i + (j - j)] = pattern[j]
        BY <2>1, <4>1
      <4>3. QED
        BY <4>1, <4>2
    <3>3. ASSUME NEW k \in j + 1 .. m - 1 PROVE text[(i + 1) + (k - (j + 1))] = pattern[k]
      <4>1. k \in j .. m - 1 /\ (i + 1) + (k - (j + 1)) = i + (k - j)
        BY <1>1, <2>1
      <4>2. text[i + (k - j)] = pattern[k]
        BY <2>1, <4>1
      <4>3. QED
        BY <4>1, <4>2
    <3>4. QED
      BY <3>1, <3>2, <3>3
  <2>2. ASSUME NEW i \in 1 .. L, text[i] = pattern[j], i + 1 \in h(j + 1) PROVE i \in h(j)
    <3>1. ASSUME NEW k \in j .. m - 1 PROVE text[i + (k - j)] = pattern[k]
      <4>1. CASE k = j
        <5>1. i + (k - j) = i
          BY <1>1, <4>1
        <5>2. QED
          BY <2>2, <4>1, <5>1
      <4>2. CASE k # j
        <5>1. k \in j + 1 .. m - 1 /\ (i + 1) + (k - (j + 1)) = i + (k - j)
          BY <1>1, <4>2
        <5>2. text[(i + 1) + (k - (j + 1))] = pattern[k]
          BY <2>2, <5>1
        <5>3. QED
          BY <5>1, <5>2
      <4>3. QED
        BY <4>1, <4>2
    <3>2. i + (m - j) - 1 <= L /\ i \in 1 .. L + 1
      <4>1. (i + 1) + (m - (j + 1)) - 1 <= L
        BY <2>2
      <4> HIDE DEF L, m, h
      <4>2. QED
        BY <1>1, <2>2, <4>1
    <3>3. QED
      BY <3>1, <3>2
  <2> HIDE DEF h
  <2>3. \A i \in h(j) : i \in 1 .. L /\ text[i] = pattern[j] /\ i + 1 \in h(j + 1)
    BY <2>1
  <2>4. \A i \in 1 .. L : text[i] = pattern[j] /\ i + 1 \in h(j + 1) => i \in h(j)
    BY <2>2
  <2>5. QED
    BY <2>3, <2>4, Zenon
<1> HIDE DEF h
<1>5. ASSUME NEW j \in 1 .. m + 1
      PROVE  g[j] = IF j > m THEN {L + 1}
                    ELSE IF pattern[j] = ANY THEN {i \in 1 .. L + 1 : \E k \in g[j + 1] : i <= k}
                         ELSE {i \in 1 .. L : text[i] = pattern[j] /\ i + 1 \in g[j + 1]}
  <2> HIDE DEF g
  <2>1. CASE j = m + 1
    <3>1. j > m
      BY <1>1, <2>1
    <3>2. QED
      BY <1>2, <2>1, <3>1, Zenon
  <2>2. CASE j = m
    <3>1. m + 1 \in 1 .. m + 1 /\ m # m + 1 /\ ~(m > m)
      BY <1>1
    <3>2. g[m + 1] = {L + 1}
      BY <1>2, <3>1, Zenon
    <3>3. g[m] = 1 .. L + 1
      BY <1>2, <1>3, <2>2, <3>1, Zenon
    <3>4. {i \in 1 .. L + 1 : \E k \in g[m + 1] : i <= k} = 1 .. L + 1
      BY <1>1, <3>2
    <3>5. QED
      BY <2>2, <3>1, <3>3, <3>4, Zenon
  <2>3. CASE j < m
    <3>1. j \in 1 .. m - 1 /\ pattern[j] # ANY /\ ~(j > m) /\ j # m + 1 /\ j + 1 # m + 1 /\ j + 1 \in 1 .. m + 1
      BY <1>1, <2>3
    <3>2. g[j] = h(j) /\ g[j + 1] = h(j + 1)
      BY <1>2, <3>1, Zenon
    <3>3. h(j) = {i \in 1 .. L : text[i] = pattern[j] /\ i + 1 \in h(j + 1)}
      BY <1>4, <3>1, Zenon
    <3>4. QED
      BY <3>1, <3>2, <3>3, Zenon
  <2>4. QED
    BY <1>1, <2>1, <2>2, <2>3
<1>6. g = Matched(text, pattern, g)
  <2>1. g = [j \in 1 .. m + 1 |-> g[j]]
    BY <1>2
  <2> HIDE DEF g
  <2>2. QED
    BY <1>5, <2>1, Zenon DEF Matched
<1>7. Like(text, pattern) <=> 1 \in g[1]
  <2> HIDE DEF g
  <2>1. QED
    BY <1>1, <1>6, LikeIs
<1>8. g[1] = h(1)
  <2>1. 1 \in 1 .. m + 1 /\ 1 # m + 1
    BY <1>1
  <2> HIDE DEF g
  <2>2. QED
    BY <1>2, <2>1, Zenon
<1>9. 1 \in h(1) <=> m - 1 <= L /\ \A k \in 1 .. m - 1 : text[k] = pattern[k]
  <2>1. \A k \in 1 .. m - 1 : 1 + (k - 1) = k
    BY <1>1
  <2>2. (\A k \in 1 .. m - 1 : text[1 + (k - 1)] = pattern[k]) <=> \A k \in 1 .. m - 1 : text[k] = pattern[k]
    BY <2>1
  <2>3. 1 + (m - 1) - 1 = m - 1 /\ 1 \in 1 .. L + 1
    BY <1>1
  <2>4. 1 \in h(1) <=> 1 \in 1 .. L + 1 /\ 1 + (m - 1) - 1 <= L /\ \A k \in 1 .. m - 1 : text[1 + (k - 1)] = pattern[k]
    BY Zenon DEF h
  <2>5. QED
    BY <2>2, <2>3, <2>4
<1>10. QED
  BY <1>7, <1>8, <1>9, Zenon

-----------------------------------------------------------------------------
(* Texts that are put together                                              *)

\* The texts of the first i parts, for each i
Flat(parts) == CHOOSE f : IsConcat(Len(parts), parts, f)

\* And how long they are
Offset(parts, i) == Len(Flat(parts)[i])

\* There is such a function, of sequences.
LEMMA FlatIs ==
  ASSUME NEW X, NEW parts \in Seq(Seq(X))
  PROVE  /\ IsConcat(Len(parts), parts, Flat(parts))
         /\ \A i \in 0 .. Len(parts) : Flat(parts)[i] \in Seq(X)
<1>1. Len(parts) \in Nat /\ parts \in [1 .. Len(parts) -> Seq(X)]
  OBVIOUS
<1>2. \E f : IsConcat(Len(parts), parts, f)
  BY <1>1, ConcatExists
<1>3. IsConcat(Len(parts), parts, Flat(parts))
  BY <1>2, Zenon DEF Flat
<1>4. \A i \in 0 .. Len(parts) : Flat(parts)[i] \in Seq(X)
  BY <1>1, <1>3, ConcatElements
<1>5. QED
  BY <1>3, <1>4

\* Each part lies behind those before it.
LEMMA OffsetSteps ==
  ASSUME NEW X, NEW parts \in Seq(Seq(X))
  PROVE  /\ Offset(parts, 0) = 0
         /\ \A i \in 0 .. Len(parts) : Offset(parts, i) \in Nat
         /\ \A i \in 1 .. Len(parts) : Offset(parts, i) = Offset(parts, i - 1) + Len(parts[i])
<1> DEFINE f == Flat(parts)  n == Len(parts)
<1>1. n \in Nat /\ IsConcat(n, parts, f) /\ \A i \in 0 .. n : f[i] \in Seq(X)
  BY FlatIs
<1>2. f[0] = <<>>
  BY <1>1, ConcatFirst
<1>3. ASSUME NEW i \in 1 .. n PROVE Offset(parts, i) = Offset(parts, i - 1) + Len(parts[i])
  <2>1. i - 1 \in 0 .. n - 1 /\ (i - 1) + 1 = i /\ i - 1 \in 0 .. n
    BY <1>1
  <2>2. f[(i - 1) + 1] = f[i - 1] \o parts[(i - 1) + 1]
    BY <1>1, <2>1, ConcatNext, ZenonT(30)
  <2>3. f[i] = f[i - 1] \o parts[i]
    BY <2>1, <2>2
  <2>4. f[i - 1] \in Seq(X) /\ parts[i] \in Seq(X)
    BY <1>1, <2>1
  <2> HIDE DEF f, n
  <2>5. Len(f[i]) = Len(f[i - 1]) + Len(parts[i])
    BY <2>3, <2>4
  <2>6. QED
    BY <2>5 DEF Offset, f
<1>4. \A i \in 0 .. n : Offset(parts, i) \in Nat
  <2> HIDE DEF n
  <2>1. ASSUME NEW i \in 0 .. n PROVE Offset(parts, i) \in Nat
    <3>1. f[i] \in Seq(X)
      BY <1>1
    <3>2. QED
      BY <3>1 DEF Offset
  <2>2. QED
    BY <2>1
<1>5. Offset(parts, 0) = 0
  BY <1>2 DEF Offset
<1>6. QED
  BY <1>3, <1>4, <1>5

\* What the first parts hold stays where it is.
LEMMA FlatKeeps ==
  ASSUME NEW X, NEW parts \in Seq(Seq(X)), NEW i \in 0 .. Len(parts)
  PROVE  \A j \in i .. Len(parts) :
           /\ Offset(parts, i) <= Offset(parts, j)
           /\ \A p \in 1 .. Offset(parts, i) : Flat(parts)[j][p] = Flat(parts)[i][p]
<1> DEFINE f == Flat(parts)  n == Len(parts)
           P(j) == Offset(parts, i) <= Offset(parts, j) /\ \A p \in 1 .. Offset(parts, i) : f[j][p] = f[i][p]
           S == {d \in Nat : i + d <= n => P(i + d)}
<1>1. n \in Nat /\ IsConcat(n, parts, f) /\ \A k \in 0 .. n : f[k] \in Seq(X)
  BY FlatIs
<1>2. \A k \in 0 .. n : Offset(parts, k) \in Nat
  BY OffsetSteps
<1>3. \A k \in 1 .. n : Offset(parts, k) = Offset(parts, k - 1) + Len(parts[k]) /\ Len(parts[k]) \in Nat
  BY OffsetSteps
<1>4. 0 \in S
  <2>1. Offset(parts, i) \in Nat
    BY <1>2
  <2>2. i + 0 = i
    OBVIOUS
  <2>3. P(i + 0)
    BY <2>1, <2>2
  <2>4. QED
    BY <2>3
<1>5. ASSUME NEW d \in Nat, d \in S PROVE d + 1 \in S
  <2>1. SUFFICES ASSUME i + (d + 1) <= n PROVE P(i + (d + 1))
    BY SMTT(30)
  <2>2. PICK j \in i .. n - 1 : j = i + d
    BY <1>1, <2>1
  <2>3. j + 1 \in 1 .. n /\ j \in 0 .. n - 1 /\ j \in 0 .. n /\ (j + 1) - 1 = j /\ i + (d + 1) = j + 1 /\ i + d <= n
    BY <1>1, <2>2
  <2>4. P(j)
    BY <1>5, <2>2, <2>3
  <2>5. f[j + 1] = f[j] \o parts[j + 1]
    BY <1>1, <2>3, ConcatNext, ZenonT(30)
  <2>6. f[j] \in Seq(X) /\ parts[j + 1] \in Seq(X)
    BY <1>1, <2>3
  <2>7. Offset(parts, j + 1) = Offset(parts, j) + Len(parts[j + 1]) /\ Len(parts[j + 1]) \in Nat
    BY <1>3, <2>3
  <2>8. Offset(parts, i) \in Nat /\ Offset(parts, j) \in Nat /\ Offset(parts, j) = Len(f[j])
    BY <1>2, <2>3 DEF Offset
  <2>9. Offset(parts, i) <= Offset(parts, j + 1)
    <3>1. Offset(parts, i) <= Offset(parts, j)
      BY <2>4
    <3>2. Offset(parts, j) <= Offset(parts, j + 1)
      <4> HIDE DEF f
      <4>1. PICK x \in Nat, l \in Nat : x = Offset(parts, j) /\ l = Len(parts[j + 1])
        BY <2>7, <2>8, Zenon
      <4>2. x <= x + l
        OBVIOUS
      <4>3. QED
        BY <2>7, <4>1, <4>2, Zenon
    <3>3. Offset(parts, j + 1) \in Nat
      BY <1>2, <2>3
    <3> HIDE DEF f
    <3>4. QED
      BY <2>8, <3>1, <3>2, <3>3
  <2>10. ASSUME NEW p \in 1 .. Offset(parts, i) PROVE f[j + 1][p] = f[i][p]
    <3>1. p \in 1 .. Len(f[j])
      BY <2>4, <2>8
    <3>2. PICK a \in Seq(X), b \in Seq(X) : a = f[j] /\ b = parts[j + 1]
      BY <2>6
    <3>3. (a \o b)[p] = a[p]
      <4>1. p \in 1 .. Len(a)
        BY <3>1, <3>2
      <4>2. QED
        BY <4>1
    <3> HIDE DEF f
    <3>4. QED
      BY <2>4, <2>5, <3>2, <3>3
  <2>11. QED
    BY <2>3, <2>9, <2>10
<1>6. \A d \in Nat : d \in S
  <2> HIDE DEF S
  <2>1. QED
    BY <1>4, <1>5, SetInduction
<1>7. ASSUME NEW j \in i .. n PROVE P(j)
  <2>1. j - i \in Nat /\ i + (j - i) = j
    BY <1>1
  <2>2. j - i \in S
    BY <1>6, <2>1
  <2>3. QED
    BY <1>1, <2>1, <2>2
<1>8. QED
  BY <1>7

\* FlattenSeq puts all parts together.
LEMMA FlattenIs ==
  ASSUME NEW X, NEW parts \in Seq(Seq(X))
  PROVE  FlattenSeq(parts) = Flat(parts)[Len(parts)]
<1> DEFINE n == Len(parts)
           f == Flat(parts)
           Step(g) == [i \in 1 .. n |-> IF i = 1 THEN parts[i] ELSE g[i - 1] \o parts[i]]
           g == CHOOSE h : h = Step(h)
<1>1. n \in Nat /\ IsConcat(n, parts, f) /\ \A i \in 0 .. n : f[i] \in Seq(X)
  BY FlatIs
<1>2. CASE n = 0
  <2>1. f[0] = <<>>
    BY <1>1, ConcatFirst
  <2>2. parts = <<>>
    BY <1>2
  <2>3. FlattenSeq(parts) = parts
    BY <1>2, SMTT(30) DEF FlattenSeq
  <2>4. QED
    BY <1>2, <2>1, <2>2, <2>3
<1>3. CASE n > 0
  <2> DEFINE w == [i \in 1 .. n |-> f[i]]
  <2>1. f[0] = <<>> /\ \A i \in 0 .. n - 1 : f[i + 1] = f[i] \o parts[i + 1]
    BY <1>1, ConcatFirst, ConcatNext
  <2>2. w = Step(w)
    <3>1. ASSUME NEW i \in 1 .. n PROVE f[i] = IF i = 1 THEN parts[i] ELSE w[i - 1] \o parts[i]
      <4>1. i - 1 \in 0 .. n - 1 /\ (i - 1) + 1 = i
        BY <1>1
      <4>2. f[i] = f[i - 1] \o parts[i]
        BY <2>1, <4>1
      <4>3. CASE i = 1
        <5>1. i - 1 = 0
          BY <4>3
        <5>2. f[i - 1] = <<>>
          BY <2>1, <5>1
        <5>3. parts[i] \in Seq(X)
          OBVIOUS
        <5>4. <<>> \o parts[i] = parts[i]
          BY <5>3
        <5>5. QED
          BY <4>2, <4>3, <5>2, <5>4
      <4>4. CASE i # 1
        <5>1. i - 1 \in 1 .. n
          BY <1>1, <4>4
        <5>2. w[i - 1] = f[i - 1]
          BY <5>1
        <5>3. QED
          BY <4>2, <4>4, <5>2
      <4>5. QED
        BY <4>3, <4>4
    <3> HIDE DEF f
    <3>2. QED
      BY <3>1
  <2>3. g = Step(g)
    <3> HIDE DEF w, Step
    <3>1. QED
      BY <2>2, Zenon
  <2>4. \A i \in 1 .. n : g[i] = IF i = 1 THEN parts[i] ELSE g[i - 1] \o parts[i]
    <3>1. PICK h : h = g
      OBVIOUS
    <3>2. h = Step(h)
      BY <2>3, <3>1, ZenonT(30)
    <3>3. \A i \in 1 .. n : h[i] = IF i = 1 THEN parts[i] ELSE h[i - 1] \o parts[i]
      BY <3>2, Zenon
    <3> HIDE DEF g
    <3>4. QED
      BY <3>1, <3>3
  <2> DEFINE S == {d \in Nat : d \in 1 .. n => g[d] = f[d]}
  <2>5. 0 \in S
    OBVIOUS
  <2>6. ASSUME NEW d \in Nat, d \in S PROVE d + 1 \in S
    <3>1. SUFFICES ASSUME d + 1 \in 1 .. n PROVE g[d + 1] = f[d + 1]
      OBVIOUS
    <3>2. d \in 0 .. n - 1 /\ (d + 1) - 1 = d
      BY <1>1, <3>1
    <3>3. f[d + 1] = f[d] \o parts[d + 1]
      BY <2>1, <3>2
    <3>4. CASE d = 0
      <4>1. d + 1 = 1 /\ f[d] = <<>>
        BY <2>1, <3>4
      <4>2. parts[d + 1] \in Seq(X)
        BY <3>1
      <4>3. <<>> \o parts[d + 1] = parts[d + 1]
        BY <4>2
      <4>4. g[d + 1] = parts[d + 1]
        BY <2>4, <3>1, <4>1
      <4>5. QED
        BY <3>3, <4>1, <4>3, <4>4
    <3>5. CASE d # 0
      <4>1. d \in 1 .. n /\ d + 1 # 1
        BY <1>1, <3>2, <3>5, SMTT(30)
      <4>2. g[d + 1] = g[d] \o parts[d + 1]
        BY <2>4, <3>1, <3>2, <4>1
      <4>3. g[d] = f[d]
        BY <2>6, <4>1
      <4>4. QED
        BY <3>3, <4>2, <4>3
    <3>6. QED
      BY <3>4, <3>5
  <2>7. \A d \in Nat : d \in S
    <3> HIDE DEF S
    <3>1. QED
      BY <2>5, <2>6, SetInduction
  <2>8. g[n] = f[n]
    <3>1. n \in S
      BY <1>1, <2>7, Zenon
    <3>2. n \in 1 .. n
      BY <1>1, <1>3
    <3> HIDE DEF f, g, n
    <3>3. QED
      BY <3>1, <3>2
  <2>9. FlattenSeq(parts) = g[n]
    BY <1>3 DEF FlattenSeq
  <2>10. QED
    BY <2>8, <2>9
<1>4. QED
  BY <1>1, <1>2, <1>3

\* Each part is in the whole, at its offset.
LEMMA FlattenPlaces ==
  ASSUME NEW X, NEW parts \in Seq(Seq(X))
  PROVE  /\ FlattenSeq(parts) \in Seq(X)
         /\ Len(FlattenSeq(parts)) = Offset(parts, Len(parts))
         /\ \A i \in 1 .. Len(parts) :
              /\ Offset(parts, i) <= Len(FlattenSeq(parts))
              /\ \A k \in 1 .. Len(parts[i]) : FlattenSeq(parts)[Offset(parts, i - 1) + k] = parts[i][k]
<1> DEFINE f == Flat(parts)  n == Len(parts)
<1>1. n \in Nat /\ IsConcat(n, parts, f) /\ \A i \in 0 .. n : f[i] \in Seq(X)
  BY FlatIs
<1>2. FlattenSeq(parts) = f[n]
  BY FlattenIs
<1>3. FlattenSeq(parts) \in Seq(X) /\ Len(FlattenSeq(parts)) = Offset(parts, n)
  BY <1>1, <1>2 DEF Offset
<1>4. ASSUME NEW i \in 1 .. n
      PROVE  /\ Offset(parts, i) <= Len(FlattenSeq(parts))
             /\ \A k \in 1 .. Len(parts[i]) : FlattenSeq(parts)[Offset(parts, i - 1) + k] = parts[i][k]
  <2>1. i \in 0 .. n /\ n \in i .. n /\ i - 1 \in 0 .. n - 1 /\ i - 1 \in 0 .. n /\ (i - 1) + 1 = i
    BY <1>1
  <2>2. Offset(parts, i) <= Offset(parts, n) /\ \A p \in 1 .. Offset(parts, i) : f[n][p] = f[i][p]
    BY <2>1, FlatKeeps
  <2>3. f[(i - 1) + 1] = f[i - 1] \o parts[(i - 1) + 1]
    BY <1>1, <2>1, ConcatNext, ZenonT(30)
  <2>4. f[i] = f[i - 1] \o parts[i]
    BY <2>1, <2>3
  <2>5. f[i - 1] \in Seq(X) /\ parts[i] \in Seq(X) /\ Offset(parts, i - 1) = Len(f[i - 1])
    BY <1>1, <2>1 DEF Offset
  <2>6. Offset(parts, i) = Offset(parts, i - 1) + Len(parts[i])
    BY OffsetSteps
  <2>7. ASSUME NEW k \in 1 .. Len(parts[i]) PROVE f[n][Offset(parts, i - 1) + k] = parts[i][k]
    <3>1. PICK a \in Seq(X), b \in Seq(X) : a = f[i - 1] /\ b = parts[i]
      BY <2>5
    <3>2. (a \o b)[Len(a) + k] = b[k] /\ Len(a) + k \in 1 .. Len(a) + Len(b)
      <4>1. k \in 1 .. Len(b)
        BY <3>1
      <4>2. QED
        BY <4>1
    <3>3. f[i][Offset(parts, i - 1) + k] = parts[i][k] /\ Offset(parts, i - 1) + k \in 1 .. Offset(parts, i)
      BY <2>4, <2>5, <2>6, <3>1, <3>2
    <3>4. QED
      BY <2>2, <3>3
  <2>8. QED
    BY <1>2, <1>3, <2>2, <2>7
<1>5. QED
  BY <1>3, <1>4

-----------------------------------------------------------------------------
(* A field among others is read as it is where it stands alone              *)

\* The first byte from i on, up to a limit, that is not of the set
LEMMA PastIs ==
  ASSUME NEW text, Len(text) \in Nat, NEW bytes, NEW to \in 1 .. Limit(text), NEW i \in 1 .. to
  PROVE  /\ PastAll(text, i, to, bytes) \in i .. to
         /\ \A k \in i .. PastAll(text, i, to, bytes) - 1 : text[k] \in bytes
         /\ PastAll(text, i, to, bytes) < to => text[PastAll(text, i, to, bytes)] \notin bytes
<1> DEFINE Step(f) == [j \in 1 .. Limit(text) |-> IF j < to /\ text[j] \in bytes THEN f[j + 1] ELSE j]
           b == [k \in 1 .. to - 1 |-> IF text[k] \in bytes THEN 0 ELSE 1]
           W == [j \in 1 .. Limit(text) |-> IF j <= to THEN First(b, j, {1}) ELSE j]
           f == CHOOSE g : g = Step(g)
           S == {d \in Nat : \A j \in 1 .. to : to - j <= d => f[j] = First(b, j, {1})}
<1>1. Limit(text) \in Nat /\ to \in Nat /\ to <= Limit(text) /\ Len(b) = to - 1 /\ Len(b) \in Nat /\ Limit(b) = to
  BY DEF Limit
<1>2. \A k \in 1 .. to - 1 : b[k] \in {1} <=> text[k] \notin bytes
  OBVIOUS
<1> HIDE DEF b
<1>3. ASSUME NEW j \in 1 .. to
      PROVE  /\ j = to \/ b[j] \in {1} => First(b, j, {1}) = j
             /\ ~(j = to \/ b[j] \in {1}) => First(b, j, {1}) = First(b, j + 1, {1})
  <2>1. j \in 1 .. Limit(b)
    BY <1>1
  <2>2. QED
    BY <1>1, <2>1, FirstSteps
<1>4. ASSUME NEW j \in 1 .. to
      PROVE  First(b, j, {1}) = IF j < to /\ text[j] \in bytes THEN First(b, j + 1, {1}) ELSE j
  <2>1. CASE j = to
    <3>1. First(b, j, {1}) = j /\ ~(j < to)
      BY <1>1, <1>3, <2>1
    <3>2. QED
      BY <3>1, Zenon
  <2>2. CASE j # to
    <3>1. j < to /\ j \in 1 .. to - 1
      BY <1>1, <2>2
    <3>2. b[j] \in {1} <=> text[j] \notin bytes
      BY <1>2, <3>1
    <3>3. QED
      BY <1>3, <2>2, <3>1, <3>2
  <2>3. QED
    BY <2>1, <2>2
<1>5. W = Step(W)
  <2>1. ASSUME NEW j \in 1 .. Limit(text) PROVE W[j] = IF j < to /\ text[j] \in bytes THEN W[j + 1] ELSE j
    <3>1. CASE j < to /\ text[j] \in bytes
      <4>1. j \in 1 .. to /\ j + 1 \in 1 .. Limit(text) /\ j + 1 <= to /\ j <= to
        BY <1>1, <3>1
      <4>2. W[j] = First(b, j, {1}) /\ W[j + 1] = First(b, j + 1, {1})
        BY <4>1
      <4>3. QED
        BY <1>4, <3>1, <4>1, <4>2
    <3>2. CASE ~(j < to /\ text[j] \in bytes)
      <4>1. CASE j <= to
        BY <1>4, <1>1, <3>2, <4>1
      <4>2. CASE ~(j <= to)
        BY <3>2, <4>2
      <4>3. QED
        BY <4>1, <4>2
    <3>3. QED
      BY <3>1, <3>2
  <2>2. W = [j \in 1 .. Limit(text) |-> W[j]]
    OBVIOUS
  <2> HIDE DEF W
  <2>3. QED
    BY <2>1, <2>2, Zenon
<1>6. f = Step(f)
  <2> HIDE DEF W, Step
  <2>1. QED
    BY <1>5, Zenon
<1>7. \A j \in 1 .. Limit(text) : f[j] = IF j < to /\ text[j] \in bytes THEN f[j + 1] ELSE j
  <2>1. PICK h : h = f
    OBVIOUS
  <2> HIDE DEF f
  <2>2. h = Step(h)
    BY <1>6, <2>1
  <2>3. \A j \in 1 .. Limit(text) : h[j] = IF j < to /\ text[j] \in bytes THEN h[j + 1] ELSE j
    BY <2>2, Zenon
  <2>4. QED
    BY <2>1, <2>3
<1>8. PastAll(text, i, to, bytes) = f[i]
  BY DEF PastAll
<1> HIDE DEF f
<1>9. 0 \in S
  <2>1. ASSUME NEW j \in 1 .. to, to - j <= 0 PROVE f[j] = First(b, j, {1})
    <3>1. j = to /\ j \in 1 .. Limit(text)
      BY <1>1, <2>1
    <3>2. QED
      BY <1>4, <1>7, <3>1
  <2>2. QED
    BY <2>1
<1>10. ASSUME NEW d \in Nat, d \in S PROVE d + 1 \in S
  <2>1. ASSUME NEW j \in 1 .. to, to - j <= d + 1 PROVE f[j] = First(b, j, {1})
    <3>1. j \in 1 .. Limit(text)
      BY <1>1
    <3>2. CASE j < to /\ text[j] \in bytes
      <4>1. j + 1 \in 1 .. to /\ to - (j + 1) <= d
        BY <1>1, <2>1, <3>2
      <4>2. f[j + 1] = First(b, j + 1, {1})
        BY <1>10, <4>1
      <4>3. QED
        BY <1>4, <1>7, <3>1, <3>2, <4>2
    <3>3. CASE ~(j < to /\ text[j] \in bytes)
      BY <1>4, <1>7, <3>1, <3>3
    <3>4. QED
      BY <3>2, <3>3
  <2>2. QED
    BY <2>1
<1>11. \A d \in Nat : d \in S
  <2> HIDE DEF S
  <2>1. QED
    BY <1>9, <1>10, SetInduction
<1>12. f[i] = First(b, i, {1})
  <2>1. to \in S
    BY <1>1, <1>11, Zenon
  <2>2. to - i <= to
    BY <1>1
  <2>3. QED
    BY <2>1, <2>2
<1>13. /\ f[i] \in i .. to /\ \A k \in i .. f[i] - 1 : b[k] \notin {1}
       /\ f[i] # to => b[f[i]] \in {1}
  <2>1. i \in 1 .. Limit(b)
    BY <1>1
  <2>2. PICK q : q = First(b, i, {1})
    OBVIOUS
  <2>3. q \in i .. to /\ (\A k \in i .. q - 1 : b[k] \notin {1}) /\ (q # to => b[q] \in {1})
    BY <1>1, <2>1, <2>2, FirstIs
  <2>4. QED
    BY <1>12, <2>2, <2>3
<1> HIDE DEF S
<1>14. ASSUME NEW k \in i .. f[i] - 1 PROVE text[k] \in bytes
  <2>1. k \in 1 .. to - 1
    BY <1>1, <1>13
  <2>2. QED
    BY <1>2, <1>13, <2>1
<1>15. ASSUME f[i] < to PROVE text[f[i]] \notin bytes
  <2>1. f[i] \in 1 .. to - 1 /\ f[i] # to
    BY <1>1, <1>13, <1>15
  <2>2. QED
    BY <1>2, <1>13, <2>1
<1>16. QED
  BY <1>8, <1>13, <1>14, <1>15

\* It is the only such place.
LEMMA PastUnique ==
  ASSUME NEW text, Len(text) \in Nat, NEW bytes, NEW to \in 1 .. Limit(text), NEW i \in 1 .. to, NEW p \in i .. to,
         \A k \in i .. p - 1 : text[k] \in bytes, p < to => text[p] \notin bytes
  PROVE  PastAll(text, i, to, bytes) = p
<1> DEFINE q == PastAll(text, i, to, bytes)
<1>1. q \in i .. to /\ (\A k \in i .. q - 1 : text[k] \in bytes) /\ (q < to => text[q] \notin bytes)
  BY PastIs
<1>2. to \in Nat
  BY DEF Limit
<1> HIDE DEF q
<1>3. ~(p < q)
  BY <1>1, <1>2
<1>4. ~(q < p)
  BY <1>1, <1>2
<1>5. QED
  BY <1>1, <1>2, <1>3, <1>4 DEF q

\* A text shows a word behind its first o bytes.
Shows(text, o, word) ==
  /\ text \in Seq(Nat) /\ word \in Seq(Nat) /\ o \in Nat /\ o + Len(word) <= Len(text)
  /\ \A k \in 1 .. Len(word) : text[o + k] = word[k]

\* A field and the delimiter behind it
IsWord(word) ==
  /\ word \in Seq(Nat) /\ Len(word) > 0 /\ word[Len(word)] = delim
  /\ \A k \in 1 .. Len(word) - 1 : word[k] \notin {delim, eol}

\* Where a text shows a word, the reader passes the same bytes.
LEMMA PastShifts ==
  ASSUME NEW text, NEW o, NEW word, Shows(text, o, word), NEW bytes, NEW to \in 1 .. Len(word), NEW i \in 1 .. to
  PROVE  PastAll(text, o + i, o + to, bytes) = o + PastAll(word, i, to, bytes)
<1> DEFINE p == PastAll(word, i, to, bytes)
<1>1. Len(word) \in Nat /\ Len(text) \in Nat /\ o \in Nat /\ o + Len(word) <= Len(text)
      /\ \A k \in 1 .. Len(word) : text[o + k] = word[k]
  BY SMTT(30) DEF Shows
<1>2. to \in 1 .. Limit(word) /\ o + to \in 1 .. Limit(text) /\ o + i \in 1 .. o + to
  BY <1>1 DEF Limit
<1>3. p \in i .. to /\ (\A k \in i .. p - 1 : word[k] \in bytes) /\ (p < to => word[p] \notin bytes)
  BY <1>1, <1>2, PastIs
<1> HIDE DEF p
<1>4. o + p \in o + i .. o + to
  BY <1>1, <1>3
<1>5. ASSUME NEW k \in o + i .. (o + p) - 1 PROVE text[k] \in bytes
  <2>1. k - o \in i .. p - 1 /\ k - o \in 1 .. Len(word) /\ o + (k - o) = k
    BY <1>1, <1>3
  <2>2. QED
    BY <1>1, <1>3, <2>1
<1>6. ASSUME o + p < o + to PROVE text[o + p] \notin bytes
  <2>1. p < to /\ p \in 1 .. Len(word)
    BY <1>1, <1>3, <1>6
  <2>2. QED
    BY <1>1, <1>3, <2>1
<1>7. PastAll(text, o + i, o + to, bytes) = o + p
  BY <1>1, <1>2, <1>4, <1>5, <1>6, PastUnique
<1>8. QED
  BY <1>7 DEF p

\* The delimiter is no digit.
LEMMA DigitsShift ==
  ASSUME NEW text, NEW o, NEW word, Shows(text, o, word), IsWord(word), NEW i \in 1 .. Len(word)
  PROVE  /\ DigitsEnd(word, i) \in i .. Len(word)
         /\ DigitsEnd(text, o + i) = o + DigitsEnd(word, i)
<1> DEFINE p == DigitsEnd(word, i)
<1>1. Len(word) \in Nat /\ Len(text) \in Nat /\ o \in Nat /\ o + Len(word) <= Len(text)
      /\ \A k \in 1 .. Len(word) : text[o + k] = word[k]
  BY SMTT(30) DEF Shows
<1>2. Limit(word) \in 1 .. Limit(word) /\ i \in 1 .. Limit(word) /\ Limit(text) \in 1 .. Limit(text)
      /\ o + i \in 1 .. Limit(text) /\ Limit(word) = Len(word) + 1 /\ Limit(text) = Len(text) + 1
  BY <1>1 DEF Limit
<1>3. p \in i .. Limit(word) /\ (\A k \in i .. p - 1 : word[k] \in Digits) /\ (p < Limit(word) => word[p] \notin Digits)
  BY <1>1, <1>2, PastIs DEF DigitsEnd
<1>4. word[Len(word)] \notin Digits
  BY DEF IsWord, delim, Digits
<1> HIDE DEF p
<1>5. p \in i .. Len(word)
  BY <1>1, <1>2, <1>3, <1>4
<1>6. o + p \in o + i .. Limit(text)
  BY <1>1, <1>2, <1>5
<1>7. ASSUME NEW k \in o + i .. (o + p) - 1 PROVE text[k] \in Digits
  <2>1. k - o \in i .. p - 1 /\ k - o \in 1 .. Len(word) /\ o + (k - o) = k
    BY <1>1, <1>5
  <2>2. QED
    BY <1>1, <1>3, <2>1
<1>8. text[o + p] \notin Digits
  <2>1. p < Limit(word) /\ p \in 1 .. Len(word)
    BY <1>1, <1>2, <1>5
  <2>2. QED
    BY <1>1, <1>3, <2>1
<1>9. PastAll(text, o + i, Limit(text), Digits) = o + p
  BY <1>1, <1>2, <1>6, <1>7, <1>8, PastUnique
<1>10. QED
  BY <1>5, <1>9 DEF DigitsEnd, p

\* And computes the same number.
LEMMA DecimalShifts ==
  ASSUME NEW text, NEW o, NEW word, Shows(text, o, word), NEW i \in 1 .. Len(word), NEW j \in i .. Len(word)
  PROVE  Decimal(text, o + i, o + j) = Decimal(word, i, j)
<1>1. Len(word) \in Nat /\ Len(text) \in Nat /\ o \in Nat /\ o + Len(word) <= Len(text)
      /\ text \in Seq(Nat) /\ word \in Seq(Nat)
      /\ \A k \in 1 .. Len(word) : text[o + k] = word[k]
  BY SMTT(30) DEF Shows
<1>2. SubSeq(text, o + i, (o + j) - 1) = [k \in 1 .. j - i |-> text[o + i + k - 1]]
  <2>1. SubSeq(text, o + i, (o + j) - 1) = [k \in 1 .. ((o + j) - 1) - (o + i) + 1 |-> text[o + i + k - 1]]
    BY <1>1
  <2>2. ((o + j) - 1) - (o + i) + 1 = j - i
    BY <1>1
  <2>3. QED
    BY <2>1, <2>2, Zenon
<1>3. SubSeq(word, i, j - 1) = [k \in 1 .. j - i |-> word[i + k - 1]]
  <2>1. SubSeq(word, i, j - 1) = [k \in 1 .. (j - 1) - i + 1 |-> word[i + k - 1]]
    BY <1>1
  <2>2. (j - 1) - i + 1 = j - i
    BY <1>1
  <2>3. QED
    BY <2>1, <2>2, Zenon
<1>4. ASSUME NEW k \in 1 .. j - i PROVE text[o + i + k - 1] = word[i + k - 1]
  <2>1. i + k - 1 \in 1 .. Len(word) /\ o + i + k - 1 = o + (i + k - 1)
    BY <1>1
  <2>2. QED
    BY <1>1, <2>1
<1>5. SubSeq(text, o + i, (o + j) - 1) = SubSeq(word, i, j - 1)
  BY <1>2, <1>3, <1>4
<1>6. Decimal(text, o + i, o + j) = Number(SubSeq(text, o + i, (o + j) - 1))
  BY Zenon DEF Decimal
<1>7. Decimal(word, i, j) = Number(SubSeq(word, i, j - 1))
  BY Zenon DEF Decimal
<1>8. QED
  BY <1>5, <1>6, <1>7, Zenon

\* A sign is found in both or in neither.
LEMMA SignShifts ==
  ASSUME NEW text, NEW o, NEW word, Shows(text, o, word), IsWord(word)
  PROVE  /\ Sign(word, 1).at \in 1 .. Len(word)
         /\ Sign(text, o + 1).at = o + Sign(word, 1).at
         /\ Sign(text, o + 1).factor = Sign(word, 1).factor
<1>1. Len(word) \in Nat /\ Len(text) \in Nat /\ o \in Nat /\ o + Len(word) <= Len(text) /\ Len(word) > 0
      /\ text[o + 1] = word[1] /\ word[Len(word)] # minus
  BY SMTT(30) DEF Shows, IsWord, delim, minus
<1>2. IsAt(word, 1, {minus}) <=> word[1] = minus
  BY <1>1 DEF IsAt, Limit
<1>3. IsAt(text, o + 1, {minus}) <=> word[1] = minus
  BY <1>1 DEF IsAt, Limit
<1>4. CASE word[1] = minus
  <2>1. Sign(word, 1) = [factor |-> -1, at |-> 1 + 1] /\ Sign(text, o + 1) = [factor |-> -1, at |-> o + 1 + 1]
    BY <1>2, <1>3, <1>4, Zenon DEF Sign
  <2>2. Len(word) # 1
    BY <1>1, <1>4
  <2>3. /\ Sign(word, 1).at = 2 /\ Sign(text, o + 1).at = o + 2
        /\ Sign(text, o + 1).factor = Sign(word, 1).factor
    <3>1. o + 1 + 1 = o + 2
      BY <1>1
    <3>2. QED
      BY <2>1, <3>1
  <2>4. 2 \in 1 .. Len(word)
      <3>1. PICK n \in Nat : n = Len(word)
      BY <1>1
    <3>2. n > 0 /\ n # 1
      BY <1>1, <2>2, <3>1
    <3>3. QED
      BY <3>1, <3>2
  <2>5. QED
    BY <2>3, <2>4, Zenon
<1>5. CASE word[1] # minus
  <2>1. Sign(word, 1) = [factor |-> 1, at |-> 1] /\ Sign(text, o + 1) = [factor |-> 1, at |-> o + 1]
    BY <1>2, <1>3, <1>5, Zenon DEF Sign
  <2>2. QED
    BY <1>1, <2>1
<1>6. QED
  BY <1>4, <1>5

\* What a parser returns of a word, where a text shows it
ReadsAlike(type, text, o, word) ==
  parse_value(type, text, o + 1) =
    [val |-> parse_value(type, word, 1).val, end |-> o + parse_value(type, word, 1).end]

\* parse_int
LEMMA IntsAlike ==
  ASSUME NEW text, NEW o, NEW word, Shows(text, o, word), IsWord(word), NEW type \in {"int32", "int64"}
  PROVE  ReadsAlike(type, text, o, word)
<1> DEFINE a == Sign(word, 1).at  b == Sign(text, o + 1).at  e == DigitsEnd(word, a)
<1>1. a \in 1 .. Len(word) /\ b = o + a /\ Sign(text, o + 1).factor = Sign(word, 1).factor
  BY SignShifts
<1> HIDE DEF a, b
<1>2. e \in a .. Len(word) /\ DigitsEnd(text, b) = o + e
  BY <1>1, DigitsShift
<1> HIDE DEF e
<1>3. Decimal(text, b, o + e) = Decimal(word, a, e)
  BY <1>1, <1>2, DecimalShifts
<1>4. parse_int(word, 1) = [val |-> Sign(word, 1).factor * Decimal(word, a, e), end |-> e]
  BY Zenon DEF parse_int, a, e
<1>5. parse_int(text, o + 1) = [val |-> Sign(text, o + 1).factor * Decimal(text, b, DigitsEnd(text, b)),
         end |-> DigitsEnd(text, b)]
  BY Zenon DEF parse_int, b
<1>6. parse_int(text, o + 1) = [val |-> Sign(word, 1).factor * Decimal(word, a, e), end |-> o + e]
  BY <1>1, <1>2, <1>3, <1>5, Zenon
<1>7. parse_value(type, word, 1) = parse_int(word, 1) /\ parse_value(type, text, o + 1) = parse_int(text, o + 1)
  BY DEF parse_value
<1>8. parse_int(word, 1).val = Sign(word, 1).factor * Decimal(word, a, e) /\ parse_int(word, 1).end = e
  BY <1>4
<1>9. QED
  BY <1>6, <1>7, <1>8, Zenon DEF ReadsAlike

\* parse_double
LEMMA DoublesAlike ==
  ASSUME NEW text, NEW o, NEW word, Shows(text, o, word), IsWord(word)
  PROVE  ReadsAlike("double", text, o, word)
<1> DEFINE a == Sign(word, 1).at
           b == Sign(text, o + 1).at
           w == DigitsEnd(word, a)
           Frac(t, p) == IF IsAt(t, p, {point}) THEN DigitsEnd(t, p + 1) ELSE p
           Cents(t, p, n) == IF n <= 0 THEN 0 ELSE IF n = 1 THEN 10 * Decimal(t, p + 1, Frac(t, p))
              ELSE Decimal(t, p + 1, Frac(t, p))
           f == Frac(word, w)
           Val(t, i) == Sign(t, i).factor * (100 * Decimal(t, Sign(t, i).at, DigitsEnd(t, Sign(t, i).at))
                          + Cents(t, DigitsEnd(t, Sign(t, i).at),
                                  Frac(t, DigitsEnd(t, Sign(t, i).at)) - DigitsEnd(t, Sign(t, i).at) - 1))
<1>1. a \in 1 .. Len(word) /\ b = o + a /\ Sign(text, o + 1).factor = Sign(word, 1).factor
  BY SignShifts
<1>2. Len(word) \in Nat /\ Len(text) \in Nat /\ o \in Nat /\ o + Len(word) <= Len(text)
      /\ (\A k \in 1 .. Len(word) : text[o + k] = word[k]) /\ word[Len(word)] # point
  BY SMTT(30) DEF Shows, IsWord, delim, point
<1> HIDE DEF a, b
<1>3. w \in a .. Len(word) /\ DigitsEnd(text, b) = o + w
  BY <1>1, DigitsShift
<1> HIDE DEF w
<1>4. IsAt(word, w, {point}) <=> word[w] = point
  BY <1>1, <1>2, <1>3 DEF IsAt, Limit
<1>5. IsAt(text, o + w, {point}) <=> word[w] = point
  BY <1>1, <1>2, <1>3, SMTT(30) DEF IsAt, Limit
<1>6. f \in w .. Len(word) /\ Frac(text, o + w) = o + f
  <2>1. CASE word[w] = point
    <3>1. w # Len(word)
      BY <1>2, <2>1
    <3>2. w + 1 \in 1 .. Len(word) /\ o + w + 1 = o + (w + 1)
      BY <1>1, <1>2, <1>3, <3>1
    <3>3. DigitsEnd(word, w + 1) \in w + 1 .. Len(word) /\ DigitsEnd(text, o + w + 1) = o + DigitsEnd(word, w + 1)
      BY <3>2, DigitsShift
    <3>4. f = DigitsEnd(word, w + 1) /\ Frac(text, o + w) = DigitsEnd(text, o + w + 1)
      BY <1>4, <1>5, <2>1, Zenon
    <3> HIDE DEF f, Frac
    <3>5. QED
      BY <1>1, <1>3, <3>3, <3>4
  <2>2. CASE word[w] # point
    <3>1. f = w /\ Frac(text, o + w) = o + w
      BY <1>4, <1>5, <2>2, Zenon
    <3> HIDE DEF f, Frac
    <3>2. QED
      BY <1>1, <1>2, <1>3, <3>1
  <2>3. QED
    BY <2>1, <2>2
<1>7. Cents(text, o + w, (o + f) - (o + w) - 1) = Cents(word, w, f - w - 1)
  <2> HIDE DEF f, Frac
  <2>1. (o + f) - (o + w) - 1 = f - w - 1 /\ f - w - 1 \in Int /\ o + w + 1 = o + (w + 1)
    BY <1>1, <1>2, <1>3, <1>6
  <2>2. f = Frac(word, w)
    BY DEF f
  <2>3. CASE f - w - 1 <= 0
    <3>1. Cents(word, w, f - w - 1) = 0 /\ Cents(text, o + w, f - w - 1) = 0
      BY <2>3
    <3>2. QED
      BY <2>1, <3>1, Zenon
  <2>4. CASE ~(f - w - 1 <= 0)
    <3>1. w + 1 \in 1 .. Len(word) /\ f \in w + 1 .. Len(word)
      BY <1>1, <1>2, <1>3, <1>6, <2>4
    <3>2. Decimal(text, o + (w + 1), o + f) = Decimal(word, w + 1, f)
      BY <3>1, DecimalShifts
    <3>3. Decimal(text, o + w + 1, Frac(text, o + w)) = Decimal(word, w + 1, Frac(word, w))
      BY <1>6, <2>1, <2>2, <3>2, Zenon
    <3>4. Cents(text, o + w, f - w - 1) = Cents(word, w, f - w - 1)
      BY <3>3, Zenon
    <3>5. QED
      BY <2>1, <3>4, Zenon
  <2>5. QED
    BY <2>3, <2>4
<1>8. Decimal(text, b, o + w) = Decimal(word, a, w)
  BY <1>1, <1>3, DecimalShifts
<1>9. ASSUME NEW t, NEW i
      PROVE  parse_double(t, i) = [val |-> Val(t, i), end |-> Frac(t, DigitsEnd(t, Sign(t, i).at))]
  BY Zenon DEF parse_double
<1>10. Val(word, 1) = Sign(word, 1).factor * (100 * Decimal(word, a, w) + Cents(word, w, f - w - 1))
  BY Zenon DEF a, w
<1>11. Val(text, o + 1) =
         Sign(text, o + 1).factor * (100 * Decimal(text, b, DigitsEnd(text, b))
            + Cents(text, DigitsEnd(text, b), Frac(text, DigitsEnd(text, b)) - DigitsEnd(text, b) - 1))
  BY Zenon DEF b
<1> HIDE DEF Cents, Frac, Val, f
<1>12. Val(text, o + 1) = Val(word, 1)
  BY <1>1, <1>3, <1>6, <1>7, <1>8, <1>10, <1>11, ZenonT(30)
<1>13. Frac(text, DigitsEnd(text, Sign(text, o + 1).at)) = o + f /\ Frac(word, DigitsEnd(word, Sign(word, 1).at)) = f
  BY <1>3, <1>6, Zenon DEF a, b, w, f
<1>14. parse_double(word, 1) = [val |-> Val(word, 1), end |-> f]
       /\ parse_double(text, o + 1) = [val |-> Val(word, 1), end |-> o + f]
  BY <1>9, <1>12, <1>13, Zenon
<1>15. parse_value("double", word, 1) = parse_double(word, 1)
          /\ parse_value("double", text, o + 1) = parse_double(text, o + 1)
  BY DEF parse_value
<1>16. parse_double(word, 1).val = Val(word, 1) /\ parse_double(word, 1).end = f
  BY <1>14
<1>17. QED
  BY <1>14, <1>15, <1>16, Zenon DEF ReadsAlike

\* A word ends at the first delimiter behind where it begins.
LEMMA FindsWord ==
  ASSUME NEW text, NEW o, NEW word, Shows(text, o, word), IsWord(word)
  PROVE  find(word, 1, {delim, eol}) = Len(word) /\ find(text, o + 1, {delim, eol}) = o + Len(word)
<1>1. Len(word) \in Nat /\ Len(text) \in Nat /\ o \in Nat /\ o + Len(word) <= Len(text) /\ Len(word) > 0
      /\ (\A k \in 1 .. Len(word) : text[o + k] = word[k]) /\ word[Len(word)] \in {delim, eol}
      /\ \A k \in 1 .. Len(word) - 1 : word[k] \notin {delim, eol}
  BY SMTT(30) DEF Shows, IsWord
<1>2. 1 \in 1 .. Limit(word) /\ o + 1 \in 1 .. Limit(text) /\ Len(word) \in 1 .. Limit(word)
      /\ o + Len(word) \in o + 1 .. Limit(text) /\ Len(word) # Limit(word) /\ o + Len(word) # Limit(text)
  BY <1>1 DEF Limit
<1>3. First(word, 1, {delim, eol}) = Len(word)
  BY <1>1, <1>2, FirstUnique
<1>4. ASSUME NEW k \in o + 1 .. (o + Len(word)) - 1 PROVE text[k] \notin {delim, eol}
  <2>1. k - o \in 1 .. Len(word) - 1 /\ k - o \in 1 .. Len(word) /\ o + (k - o) = k
    BY <1>1
  <2>2. QED
    BY <1>1, <2>1
<1>5. text[o + Len(word)] \in {delim, eol}
  <2>1. Len(word) \in 1 .. Len(word)
    BY <1>1
  <2>2. QED
    BY <1>1, <2>1
<1>6. First(text, o + 1, {delim, eol}) = o + Len(word)
  BY <1>1, <1>2, <1>4, <1>5, FirstUnique
<1>7. QED
  BY <1>1, <1>2, <1>3, <1>6, FindReturnsTheFirst

\* parse_string
LEMMA StringsAlike ==
  ASSUME NEW text, NEW o, NEW word, Shows(text, o, word), IsWord(word)
  PROVE  ReadsAlike("string", text, o, word)
<1> DEFINE L == Len(word)
<1>1. L \in Nat /\ Len(text) \in Nat /\ o \in Nat /\ o + L <= Len(text) /\ L > 0 /\ text \in Seq(Nat)
         /\ word \in Seq(Nat)
      /\ \A k \in 1 .. L : text[o + k] = word[k]
  BY SMTT(30) DEF Shows, IsWord
<1>2. find(word, 1, {delim, eol}) = L /\ find(text, o + 1, {delim, eol}) = o + L
  BY FindsWord
<1>3. SubSeq(text, o + 1, (o + L) - 1) = SubSeq(word, 1, L - 1)
  <2>1. SubSeq(text, o + 1, (o + L) - 1) = [k \in 1 .. ((o + L) - 1) - (o + 1) + 1 |-> text[(o + 1) + k - 1]]
    BY <1>1
  <2>2. SubSeq(word, 1, L - 1) = [k \in 1 .. L - 1 |-> word[k]]
    BY <1>1
  <2>3. ((o + L) - 1) - (o + 1) + 1 = L - 1 /\ \A k \in 1 .. L - 1 : (o + 1) + k - 1 = o + k
    BY <1>1
  <2>4. ASSUME NEW k \in 1 .. L - 1 PROVE text[(o + 1) + k - 1] = word[k]
    <3>1. (o + 1) + k - 1 = o + k /\ k \in 1 .. L
      BY <1>1
    <3>2. QED
      BY <1>1, <3>1
  <2> HIDE DEF L
  <2>5. QED
    BY <2>1, <2>2, <2>3, <2>4
<1> HIDE DEF L
<1>4. parse_string(word, 1) = [val |-> SubSeq(word, 1, L - 1), end |-> L]
  BY <1>2, Zenon DEF parse_string
<1>5. parse_string(text, o + 1) = [val |-> SubSeq(word, 1, L - 1), end |-> o + L]
  BY <1>2, <1>3, Zenon DEF parse_string
<1>6. parse_value("string", word, 1) = parse_string(word, 1)
         /\ parse_value("string", text, o + 1) = parse_string(text, o + 1)
  BY DEF parse_value
<1>7. parse_string(word, 1).val = SubSeq(word, 1, L - 1) /\ parse_string(word, 1).end = L
  BY <1>4
<1>8. QED
  BY <1>5, <1>6, <1>7, Zenon DEF ReadsAlike

\* parse_char
LEMMA CharsAlike ==
  ASSUME NEW text, NEW o, NEW word, Shows(text, o, word), IsWord(word)
  PROVE  ReadsAlike("char", text, o, word)
<1>1. o \in Nat /\ text[o + 1] = word[1]
  BY DEF Shows, IsWord
<1>2. parse_value("char", word, 1) = [val |-> word[1], end |-> 2]
  BY DEF parse_value, parse_char
<1>3. parse_value("char", text, o + 1) = [val |-> word[1], end |-> o + 2]
  BY <1>1 DEF parse_value, parse_char
<1>4. QED
  BY <1>2, <1>3 DEF ReadsAlike

\* What Trimmed makes of a function
Back(text, from, to, f) == [j \in from .. to |-> IF j > from /\ text[j - 1] = space THEN f[j - 1] ELSE j]

\* The end of a text without the spaces before it is where they begin.
LEMMA TrimmedIs ==
  ASSUME NEW text, NEW from \in Nat, NEW to \in Nat, from <= to
  PROVE  /\ Trimmed(text, from, to) \in from .. to
         /\ \A k \in Trimmed(text, from, to) .. to - 1 : text[k] = space
         /\ Trimmed(text, from, to) > from => text[Trimmed(text, from, to) - 1] # space
<1> DEFINE n == to - from
           b == [k \in 1 .. n |-> IF text[to - k] = space THEN 0 ELSE 1]
           W == [j \in from .. to |-> (to + 1) - First(b, (to + 1) - j, {1})]
           f == CHOOSE g : g = Back(text, from, to, g)
           S == {d \in Nat : from + d <= to => f[from + d] = W[from + d]}
<1>1. n \in Nat /\ Len(b) = n /\ Len(b) \in Nat /\ Limit(b) = n + 1
  BY DEF Limit
<1>2. \A k \in 1 .. n : b[k] \in {1} <=> text[to - k] # space
  OBVIOUS
<1>3. \A j \in from .. to : W[j] = (to + 1) - First(b, (to + 1) - j, {1})
  OBVIOUS
<1>4. W = [j \in from .. to |-> W[j]]
  OBVIOUS
<1> HIDE DEF b, W
<1>5. ASSUME NEW j \in from .. to
      PROVE  W[j] = IF j > from /\ text[j - 1] = space THEN W[j - 1] ELSE j
  <2> DEFINE i == (to + 1) - j
  <2>1. i \in 1 .. Limit(b) /\ (i = Limit(b) <=> j = from) /\ to - i = j - 1 /\ i \in Nat
    BY <1>1
  <2>2. /\ i = Limit(b) \/ b[i] \in {1} => First(b, i, {1}) = i
        /\ ~(i = Limit(b) \/ b[i] \in {1}) => First(b, i, {1}) = First(b, i + 1, {1})
    BY <1>1, <2>1, FirstSteps
  <2>3. CASE j = from
    <3>1. First(b, i, {1}) = i
      BY <2>1, <2>2, <2>3
    <3>2. W[j] = (to + 1) - i
      BY <1>3, <3>1
    <3>3. (to + 1) - i = j /\ ~(j > from)
      BY <2>3
    <3>4. QED
      BY <3>2, <3>3
  <2>4. CASE j # from
    <3>1. j > from /\ i \in 1 .. n /\ j - 1 \in from .. to /\ (to + 1) - (j - 1) = i + 1 /\ i # Limit(b)
      BY <1>1, <2>1, <2>4
    <3>2. b[i] \in {1} <=> text[j - 1] # space
      BY <1>2, <2>1, <3>1
    <3>3. W[j - 1] = (to + 1) - First(b, i + 1, {1}) /\ W[j] = (to + 1) - First(b, i, {1})
      BY <1>3, <3>1
    <3>4. (to + 1) - i = j
      OBVIOUS
    <3> HIDE DEF i
    <3>5. CASE text[j - 1] = space
      BY <2>2, <3>1, <3>2, <3>3, <3>5
    <3>6. CASE text[j - 1] # space
      BY <2>2, <3>1, <3>2, <3>3, <3>4, <3>6
    <3>7. QED
      BY <3>5, <3>6
  <2>5. QED
    BY <2>3, <2>4
<1>6. W = Back(text, from, to, W)
  BY <1>4, <1>5, Zenon DEF Back
<1>7. f = Back(text, from, to, f)
  BY <1>6, Zenon
<1>8. \A j \in from .. to : f[j] = IF j > from /\ text[j - 1] = space THEN f[j - 1] ELSE j
  <2>1. PICK h : h = f
    OBVIOUS
  <2>2. h = Back(text, from, to, h)
    BY <1>7, <2>1
  <2>3. \A j \in from .. to : h[j] = IF j > from /\ text[j - 1] = space THEN h[j - 1] ELSE j
    BY <2>2, Zenon DEF Back
  <2> HIDE DEF f
  <2>4. QED
    BY <2>1, <2>3
<1>9. Trimmed(text, from, to) = f[to]
  BY Zenon DEF Trimmed, Back
<1> HIDE DEF f
<1>10. 0 \in S
  <2>1. from + 0 \in from .. to /\ ~(from + 0 > from)
    OBVIOUS
  <2>2. f[from + 0] = from + 0 /\ W[from + 0] = from + 0
    BY <1>5, <1>8, <2>1
  <2>3. QED
    BY <2>2
<1>11. ASSUME NEW d \in Nat, d \in S PROVE d + 1 \in S
  <2>1. SUFFICES ASSUME from + (d + 1) <= to PROVE f[from + (d + 1)] = W[from + (d + 1)]
    OBVIOUS
  <2>2. PICK j \in from .. to : j = from + (d + 1)
    BY <2>1
  <2>3. j - 1 = from + d /\ from + d <= to
    BY <2>2
  <2>4. f[j - 1] = W[j - 1]
    BY <1>11, <2>3
  <2>5. f[j] = W[j]
    BY <1>5, <1>8, <2>4
  <2>6. QED
    BY <2>2, <2>5
<1>12. \A d \in Nat : d \in S
  <2> HIDE DEF S
  <2>1. QED
    BY <1>10, <1>11, SetInduction
<1>13. f[to] = W[to]
  <2>1. n \in S /\ from + n = to
    BY <1>1, <1>12
  <2>2. QED
    BY <2>1
<1>14. PICK q : q = First(b, 1, {1})
  OBVIOUS
<1>15. q \in 1 .. n + 1 /\ (\A k \in 1 .. q - 1 : b[k] \notin {1}) /\ (q # n + 1 => b[q] \in {1})
  <2>1. 1 \in 1 .. Limit(b)
    BY <1>1
  <2>2. QED
    BY <1>1, <1>14, <2>1, FirstIs
<1>16. f[to] = (to + 1) - q
  <2>1. to \in from .. to /\ (to + 1) - to = 1
    OBVIOUS
  <2>2. QED
    BY <1>3, <1>13, <1>14, <2>1
<1>17. ASSUME NEW k \in f[to] .. to - 1 PROVE text[k] = space
  <2>1. to - k \in 1 .. q - 1 /\ to - k \in 1 .. n /\ to - (to - k) = k
    BY <1>1, <1>15, <1>16
  <2>2. QED
    BY <1>2, <1>15, <2>1
<1>18. ASSUME f[to] > from PROVE text[f[to] - 1] # space
  <2>1. q \in 1 .. n /\ q # n + 1 /\ to - q = f[to] - 1
    BY <1>1, <1>15, <1>16, <1>18
  <2>2. QED
    BY <1>2, <1>15, <2>1
<1>19. f[to] \in from .. to
  BY <1>1, <1>15, <1>16
<1>20. QED
  BY <1>9, <1>17, <1>18, <1>19

\* The same spaces are left out.
LEMMA TrimmedShifts ==
  ASSUME NEW text, NEW o, NEW word, Shows(text, o, word), NEW to \in 1 .. Len(word), NEW from \in 1 .. to
  PROVE  Trimmed(text, o + from, o + to) = o + Trimmed(word, from, to)
<1> DEFINE p == Trimmed(word, from, to)  q == Trimmed(text, o + from, o + to)
<1>1. /\ Len(word) \in Nat /\ o \in Nat /\ \A k \in 1 .. Len(word) : text[o + k] = word[k]
      /\ from \in Nat /\ to \in Nat /\ from <= to /\ o + from \in Nat /\ o + to \in Nat /\ o + from <= o + to
  BY DEF Shows
<1>2. p \in from .. to /\ (\A k \in p .. to - 1 : word[k] = space) /\ (p > from => word[p - 1] # space)
  <2>1. from \in Nat /\ to \in Nat /\ from <= to
    BY <1>1
  <2>2. QED
    BY <2>1, TrimmedIs, Zenon
<1>3. q \in o + from .. o + to /\ (\A k \in q .. (o + to) - 1 : text[k] = space)
         /\ (q > o + from => text[q - 1] # space)
  BY <1>1, TrimmedIs, ZenonT(30)
<1> HIDE DEF p, q
<1>4. ~(q > o + p)
  <2>1. SUFFICES ASSUME q > o + p PROVE FALSE
    OBVIOUS
  <2>2. (q - 1) - o \in p .. to - 1 /\ (q - 1) - o \in 1 .. Len(word) /\ o + ((q - 1) - o) = q - 1 /\ q > o + from
    BY <1>1, <1>2, <1>3, <2>1
  <2>3. QED
    BY <1>1, <1>2, <1>3, <2>2
<1>5. ~(q < o + p)
  <2>1. SUFFICES ASSUME q < o + p PROVE FALSE
    OBVIOUS
  <2>2. o + (p - 1) \in q .. (o + to) - 1 /\ p - 1 \in 1 .. Len(word) /\ p > from
    BY <1>1, <1>2, <1>3, <2>1
  <2>3. QED
    BY <1>1, <1>2, <1>3, <2>2
<1>6. q = o + p
  BY <1>1, <1>2, <1>3, <1>4, <1>5
<1>7. QED
  BY <1>6 DEF p, q

\* stringToDate, part by part
DateOf(t, b, e, y, m, d) ==
  IF y < e /\ m < e /\ d = e /\ t[y] = minus /\ t[m] = minus
       /\ InRange(Decimal(t, b, y), Decimal(t, y + 1, m), Decimal(t, m + 1, d))
  THEN toInt(Decimal(t, b, y), Decimal(t, y + 1, m), Decimal(t, m + 1, d))
  ELSE InvalidDate

WithMonth(t, b, e, y, m) == DateOf(t, b, e, y, m, PastAll(t, m + 1, e, Digits))
WithYear(t, b, e, y) == WithMonth(t, b, e, y, PastAll(t, y + 1, e, Digits))
WithEnd(t, b, e) == WithYear(t, b, e, PastAll(t, b, e, Digits))
WithBegin(t, b, to) == WithEnd(t, b, Trimmed(t, b, to))

\* stringToDate, by its parts
LEMMA DateUnfolds ==
  ASSUME NEW t, NEW from, NEW to
  PROVE  stringToDate(t, from, to) = WithBegin(t, PastAll(t, from, to, {space}), to)
BY Zenon DEF stringToDate, WithBegin, WithEnd, WithYear, WithMonth, DateOf

\* parse_date
LEMMA DatesAlike ==
  ASSUME NEW text, NEW o, NEW word, Shows(text, o, word), IsWord(word)
  PROVE  ReadsAlike("date", text, o, word)
<1> DEFINE L == Len(word)
<1>1. L \in Nat /\ L > 0 /\ o \in Nat /\ (\A k \in 1 .. L : text[o + k] = word[k]) /\ 1 \in 1 .. L /\ L \in 1 .. L
  BY DEF Shows, IsWord
<1>2. Len(word) \in Nat /\ Len(text) \in Nat /\ o + Len(word) <= Len(text)
  BY DEF Shows
<1>3. find(word, 1, {delim, eol}) = L /\ find(text, o + 1, {delim, eol}) = o + L
  BY FindsWord
<1>4. PICK b : b = PastAll(word, 1, L, {space})
  OBVIOUS
<1>5. b \in 1 .. L /\ PastAll(text, o + 1, o + L, {space}) = o + b
  <2>1. L \in 1 .. Limit(word) /\ 1 \in 1 .. L
    BY <1>1 DEF Limit
  <2>2. b \in 1 .. L
    BY <1>2, <1>4, <2>1, PastIs
  <2>3. QED
    BY <1>1, <1>4, <2>2, PastShifts, SMTT(30)
<1>6. PICK e : e = Trimmed(word, b, L)
  OBVIOUS
<1>7. e \in b .. L /\ Trimmed(text, o + b, o + L) = o + e
  <2>1. b \in Nat /\ b <= L
    BY <1>1, <1>5
  <2>2. e \in b .. L
    BY <1>1, <1>6, <2>1, TrimmedIs
  <2>3. QED
    BY <1>1, <1>5, <1>6, <2>2, TrimmedShifts
<1>8. e \in 1 .. L /\ e \in 1 .. Limit(word) /\ o + e \in Nat
  BY <1>1, <1>5, <1>7 DEF Limit
\* Each part as far as it is
<1>9. ASSUME NEW i \in 1 .. e
      PROVE  /\ PastAll(word, i, e, Digits) \in i .. e
             /\ PastAll(text, o + i, o + e, Digits) = o + PastAll(word, i, e, Digits)
  BY <1>2, <1>8, PastIs, PastShifts
<1>10. PICK y : y = PastAll(word, b, e, Digits)
  OBVIOUS
<1>11. b \in 1 .. e
  BY <1>1, <1>5, <1>7
<1>12. y \in b .. e /\ PastAll(text, o + b, o + e, Digits) = o + y
  BY <1>9, <1>10, <1>11
<1>13. PICK m : m = PastAll(word, y + 1, e, Digits)
  OBVIOUS
<1>14. PICK d : d = PastAll(word, m + 1, e, Digits)
  OBVIOUS
<1>15. PICK m2 : m2 = PastAll(text, (o + y) + 1, o + e, Digits)
  OBVIOUS
<1>16. PICK d2 : d2 = PastAll(text, m2 + 1, o + e, Digits)
  OBVIOUS
<1>17. stringToDate(word, 1, L) = DateOf(word, b, e, y, m, d)
  <2>1. stringToDate(word, 1, L) = WithBegin(word, b, L)
    BY <1>4, DateUnfolds, Zenon
  <2>2. WithBegin(word, b, L) = WithEnd(word, b, e)
    BY <1>6, Zenon DEF WithBegin
  <2>3. WithEnd(word, b, e) = WithYear(word, b, e, y)
    BY <1>10, Zenon DEF WithEnd
  <2>4. WithYear(word, b, e, y) = WithMonth(word, b, e, y, m)
    BY <1>13, Zenon DEF WithYear
  <2>5. WithMonth(word, b, e, y, m) = DateOf(word, b, e, y, m, d)
    BY <1>14, Zenon DEF WithMonth
  <2>6. QED
    BY <2>1, <2>2, <2>3, <2>4, <2>5, Zenon
<1>18. stringToDate(text, o + 1, o + L) = DateOf(text, o + b, o + e, o + y, m2, d2)
  <2>1. stringToDate(text, o + 1, o + L) = WithBegin(text, o + b, o + L)
    BY <1>5, DateUnfolds, Zenon
  <2>2. WithBegin(text, o + b, o + L) = WithEnd(text, o + b, o + e)
    BY <1>7, Zenon DEF WithBegin
  <2>3. WithEnd(text, o + b, o + e) = WithYear(text, o + b, o + e, o + y)
    BY <1>12, Zenon DEF WithEnd
  <2>4. WithYear(text, o + b, o + e, o + y) = WithMonth(text, o + b, o + e, o + y, m2)
    BY <1>15, Zenon DEF WithYear
  <2>5. WithMonth(text, o + b, o + e, o + y, m2) = DateOf(text, o + b, o + e, o + y, m2, d2)
    BY <1>16, Zenon DEF WithMonth
  <2>6. QED
    BY <2>1, <2>2, <2>3, <2>4, <2>5, Zenon
<1> HIDE DEF L
<1>19. DateOf(text, o + b, o + e, o + y, m2, d2) = DateOf(word, b, e, y, m, d)
  <2>1. CASE ~(y < e)
    <3>1. ~(o + y < o + e)
      BY <1>1, <1>8, <1>12, <1>11, <2>1
    <3>2. QED
      BY <2>1, <3>1, Zenon DEF DateOf
  <2>2. CASE y < e
    <3>1. y + 1 \in 1 .. e /\ (o + y) + 1 = o + (y + 1) /\ y \in 1 .. L /\ b \in 1 .. L
      BY <1>1, <1>8, <1>11, <1>12, <2>2
    <3>2. m \in y + 1 .. e /\ m2 = o + m
      BY <1>9, <1>13, <1>15, <3>1
    <3>3. CASE ~(m < e)
      <4>1. ~(m2 < o + e)
        BY <1>1, <1>8, <3>1, <3>2, <3>3
      <4>2. QED
        BY <3>3, <4>1, Zenon DEF DateOf
    <3>4. CASE m < e
      <4>1. m + 1 \in 1 .. e /\ m2 + 1 = o + (m + 1) /\ m \in 1 .. L
        BY <1>1, <1>8, <3>1, <3>2, <3>4
      <4>2. d \in m + 1 .. e /\ d2 = o + d
        BY <1>9, <1>14, <1>16, <4>1
      <4>3. o + y < o + e /\ m2 < o + e /\ (d2 = o + e <=> d = e)
        BY <1>1, <1>8, <2>2, <3>1, <3>2, <3>4, <4>1, <4>2
      <4>4. text[o + y] = word[y] /\ text[m2] = word[m]
        BY <1>1, <3>1, <3>2, <4>1
      <4>5. /\ y \in b .. L /\ y + 1 \in 1 .. L /\ m \in y + 1 .. L /\ m + 1 \in 1 .. L /\ d \in m + 1 .. L
        BY <1>1, <1>8, <1>12, <3>1, <3>2, <4>1, <4>2
      <4>6. /\ Decimal(text, o + b, o + y) = Decimal(word, b, y)
            /\ Decimal(text, o + (y + 1), o + m) = Decimal(word, y + 1, m)
            /\ Decimal(text, o + (m + 1), o + d) = Decimal(word, m + 1, d)
        BY <3>1, <4>5, DecimalShifts DEF L
      <4>7. /\ Decimal(text, (o + y) + 1, m2) = Decimal(word, y + 1, m)
            /\ Decimal(text, m2 + 1, d2) = Decimal(word, m + 1, d)
        BY <3>1, <3>2, <4>1, <4>2, <4>6, Zenon
      <4>8. QED
        BY <2>2, <3>4, <4>3, <4>4, <4>6, <4>7, Zenon DEF DateOf
    <3>5. QED
      BY <3>3, <3>4
  <2>3. QED
    BY <2>1, <2>2
<1>20. parse_date(word, 1) = [val |-> stringToDate(word, 1, L), end |-> L]
       /\ parse_date(text, o + 1) = [val |-> stringToDate(word, 1, L), end |-> o + L]
  BY <1>3, <1>17, <1>18, <1>19, Zenon DEF parse_date
<1>21. parse_value("date", word, 1) = parse_date(word, 1) /\ parse_value("date", text, o + 1) = parse_date(text, o + 1)
  BY DEF parse_value
<1>22. parse_date(word, 1).val = stringToDate(word, 1, L) /\ parse_date(word, 1).end = L
  BY <1>20
<1>23. QED
  BY <1>20, <1>21, <1>22, Zenon DEF ReadsAlike

\* What a field is read as does not depend on what is around it.
THEOREM FieldsReadAlike ==
  ASSUME NEW text, NEW o, NEW word, Shows(text, o, word), IsWord(word), NEW type \in ImportTypes
  PROVE  ReadsAlike(type, text, o, word)
<1>1. CASE type \in {"int32", "int64"}
  BY <1>1, IntsAlike
<1>2. CASE type = "double"
  BY <1>2, DoublesAlike
<1>3. CASE type = "char"
  BY <1>3, CharsAlike
<1>4. CASE type = "date"
  BY <1>4, DatesAlike
<1>5. CASE type = "string"
  BY <1>5, StringsAlike
<1>6. QED
  BY <1>1, <1>2, <1>3, <1>4, <1>5 DEF ImportTypes

-----------------------------------------------------------------------------
(* Predicates on strings                                                    *)

\* A pattern of a '%' and a text: the string ends with the text.
LEMMA LikeSuffix ==
  ASSUME NEW text \in Seq(Nat), NEW pattern \in Seq(Nat), Len(pattern) > 1, pattern[1] = ANY,
         \A i \in 2 .. Len(pattern) : pattern[i] # ANY
  PROVE  Like(text, pattern)
           <=> /\ Len(pattern) - 1 <= Len(text)
               /\ \A k \in 1 .. Len(pattern) - 1 : text[(Len(text) - (Len(pattern) - 1)) + k] = pattern[k + 1]
<1> DEFINE L == Len(text)  m == Len(pattern)
           h(j) == {i \in 1 .. L + 1 : i = (L - m) + j /\ \A k \in j .. m : text[(L - m) + k] = pattern[k]}
           g == [j \in 1 .. m + 1 |-> IF j = 1 THEN {i \in 1 .. L + 1 : \E k \in h(2) : i <= k} ELSE h(j)]
<1>1. L \in Nat /\ m \in Nat /\ m > 1
  OBVIOUS
<1>2. \A j \in 1 .. m + 1 : g[j] = IF j = 1 THEN {i \in 1 .. L + 1 : \E k \in h(2) : i <= k} ELSE h(j)
  BY Zenon
<1>3. h(m + 1) = {L + 1}
  <2>1. (L - m) + (m + 1) = L + 1 /\ L + 1 \in 1 .. L + 1 /\ ~\E k \in m + 1 .. m : TRUE
    BY <1>1
  <2> HIDE DEF L, m
  <2>2. QED
    BY <1>1, <2>1
<1>4. ASSUME NEW j \in 2 .. m
      PROVE  h(j) = {i \in 1 .. L : text[i] = pattern[j] /\ i + 1 \in h(j + 1)}
  <2>1. ASSUME NEW i \in h(j) PROVE i \in 1 .. L /\ text[i] = pattern[j] /\ i + 1 \in h(j + 1)
    <3>1. i \in 1 .. L + 1 /\ i = (L - m) + j /\ \A k \in j .. m : text[(L - m) + k] = pattern[k]
      BY <2>1
    <3>2. i \in 1 .. L /\ i + 1 \in 1 .. L + 1 /\ i + 1 = (L - m) + (j + 1) /\ j \in j .. m
      BY <1>1, <3>1, SMTT(30)
    <3>3. text[i] = pattern[j]
      BY <3>1, <3>2
    <3>4. \A k \in j + 1 .. m : text[(L - m) + k] = pattern[k]
      <4>1. \A k \in j + 1 .. m : k \in j .. m
        BY <1>1
      <4>2. QED
        BY <3>1, <4>1
    <3>5. QED
      BY <3>2, <3>3, <3>4
  <2>2. ASSUME NEW i \in 1 .. L, text[i] = pattern[j], i + 1 \in h(j + 1) PROVE i \in h(j)
    <3>1. i + 1 = (L - m) + (j + 1) /\ \A k \in j + 1 .. m : text[(L - m) + k] = pattern[k]
      BY <2>2
    <3>2. i = (L - m) + j /\ i \in 1 .. L + 1
      <4> HIDE DEF L, m, h
      <4>1. QED
        BY <1>1, <3>1
    <3>3. ASSUME NEW k \in j .. m PROVE text[(L - m) + k] = pattern[k]
      <4>1. CASE k = j
        BY <2>2, <3>2, <4>1
      <4>2. CASE k # j
        <5>1. k \in j + 1 .. m
          BY <1>1, <4>2
        <5>2. QED
          BY <3>1, <5>1
      <4>3. QED
        BY <4>1, <4>2
    <3>4. QED
      BY <3>2, <3>3
  <2> HIDE DEF h
  <2>3. \A i \in h(j) : i \in 1 .. L /\ text[i] = pattern[j] /\ i + 1 \in h(j + 1)
    BY <2>1
  <2>4. \A i \in 1 .. L : text[i] = pattern[j] /\ i + 1 \in h(j + 1) => i \in h(j)
    BY <2>2
  <2>5. QED
    BY <2>3, <2>4, Zenon
<1> HIDE DEF h
<1>5. ASSUME NEW j \in 1 .. m + 1
      PROVE  g[j] = IF j > m THEN {L + 1}
                    ELSE IF pattern[j] = ANY THEN {i \in 1 .. L + 1 : \E k \in g[j + 1] : i <= k}
                         ELSE {i \in 1 .. L : text[i] = pattern[j] /\ i + 1 \in g[j + 1]}
  <2> HIDE DEF g
  <2>1. CASE j = m + 1
    <3>1. j > m /\ j # 1
      BY <1>1, <2>1
    <3>2. g[j] = h(m + 1)
      BY <1>2, <2>1, <3>1, Zenon
    <3>3. QED
      BY <1>3, <3>1, <3>2, Zenon
  <2>2. CASE j = 1
    <3>1. 2 \in 1 .. m + 1 /\ 2 # 1 /\ ~(1 > m) /\ 1 + 1 = 2 /\ pattern[1] = ANY
      BY <1>1
    <3>2. g[2] = h(2) /\ g[1] = {i \in 1 .. L + 1 : \E k \in h(2) : i <= k}
      BY <1>2, <2>2, <3>1, Zenon
    <3>3. QED
      BY <2>2, <3>1, <3>2, Zenon
  <2>3. CASE j # 1 /\ j # m + 1
    <3>1. j \in 2 .. m /\ pattern[j] # ANY /\ ~(j > m) /\ j + 1 # 1 /\ j + 1 \in 1 .. m + 1
      BY <1>1, <2>3
    <3>2. g[j] = h(j) /\ g[j + 1] = h(j + 1)
      BY <1>2, <2>3, <3>1, Zenon
    <3>3. h(j) = {i \in 1 .. L : text[i] = pattern[j] /\ i + 1 \in h(j + 1)}
      BY <1>4, <3>1, Zenon
    <3>4. QED
      BY <3>1, <3>2, <3>3, Zenon
  <2>4. QED
    BY <2>1, <2>2, <2>3
<1>6. g = Matched(text, pattern, g)
  <2>1. g = [j \in 1 .. m + 1 |-> g[j]]
    BY <1>2
  <2> HIDE DEF g
  <2>2. QED
    BY <1>5, <2>1, ZenonT(30) DEF Matched
<1>7. Like(text, pattern) <=> 1 \in g[1]
  <2> HIDE DEF g
  <2>1. QED
    BY <1>1, <1>6, LikeIs
<1>8. g[1] = {i \in 1 .. L + 1 : \E k \in h(2) : i <= k}
  <2>1. 1 \in 1 .. m + 1
    BY <1>1
  <2> HIDE DEF g
  <2>2. QED
    BY <1>2, <2>1, Zenon
<1>9. 1 \in g[1] <=> (\E k \in h(2) : TRUE)
  <2>1. \A k \in h(2) : k \in 1 .. L + 1
    BY DEF h
  <2>2. 1 \in 1 .. L + 1 /\ \A k \in h(2) : 1 <= k
    BY <1>1, <2>1
  <2> HIDE DEF g
  <2>3. QED
    BY <1>8, <2>2, Zenon
<1>10. (\E k \in h(2) : TRUE) <=> m - 1 <= L /\ \A k \in 2 .. m : text[(L - m) + k] = pattern[k]
  <2>1. ASSUME NEW i \in h(2) PROVE m - 1 <= L /\ \A k \in 2 .. m : text[(L - m) + k] = pattern[k]
    <3>1. i \in 1 .. L + 1 /\ i = (L - m) + 2 /\ \A k \in 2 .. m : text[(L - m) + k] = pattern[k]
      BY <2>1 DEF h
    <3>2. m - 1 <= L
      BY <1>1, <3>1
    <3>3. QED
      BY <3>1, <3>2
  <2>2. ASSUME m - 1 <= L, \A k \in 2 .. m : text[(L - m) + k] = pattern[k] PROVE (L - m) + 2 \in h(2)
    <3>1. (L - m) + 2 \in 1 .. L + 1
      BY <1>1, <2>2
    <3>2. QED
      BY <2>2, <3>1, Zenon DEF h
  <2>3. QED
    BY <2>1, <2>2
<1>11. (\A k \in 2 .. m : text[(L - m) + k] = pattern[k])
         <=> \A k \in 1 .. m - 1 : text[(L - (m - 1)) + k] = pattern[k + 1]
  <2>1. ASSUME \A k \in 2 .. m : text[(L - m) + k] = pattern[k], NEW k \in 1 .. m - 1
        PROVE  text[(L - (m - 1)) + k] = pattern[k + 1]
    <3>1. k + 1 \in 2 .. m /\ (L - m) + (k + 1) = (L - (m - 1)) + k
      BY <1>1
    <3>2. text[(L - m) + (k + 1)] = pattern[k + 1]
      BY <2>1, <3>1
    <3>3. QED
      BY <3>1, <3>2
  <2>2. ASSUME \A k \in 1 .. m - 1 : text[(L - (m - 1)) + k] = pattern[k + 1], NEW k \in 2 .. m
        PROVE  text[(L - m) + k] = pattern[k]
    <3>1. k - 1 \in 1 .. m - 1 /\ (L - (m - 1)) + (k - 1) = (L - m) + k /\ (k - 1) + 1 = k
      BY <1>1
    <3>2. text[(L - (m - 1)) + (k - 1)] = pattern[(k - 1) + 1]
      BY <2>2, <3>1
    <3>3. QED
      BY <3>1, <3>2
  <2>3. QED
    BY <2>1, <2>2
<1>12. QED
  <2> HIDE DEF g
  <2>1. QED
    BY <1>7, <1>9, <1>10, <1>11, Zenon

\* n elements of a sequence, behind its first a
Part(s, a, n) == SubSeq(s, a + 1, a + n)
SameParts(s, a, t, b, n) == \A k \in 1 .. n : s[a + k] = t[b + k]

\* Parts are the same when their bytes are.
LEMMA PartsAgree ==
  ASSUME NEW s \in Seq(Nat), NEW t \in Seq(Nat), NEW a \in Nat, NEW b \in Nat, NEW n \in Nat,
         a + n <= Len(s), b + n <= Len(t)
  PROVE  Part(s, a, n) = Part(t, b, n) <=> SameParts(s, a, t, b, n)
<1>1. SubSeq(s, a + 1, a + n) = [k \in 1 .. n |-> s[a + k]]
  <2>1. SubSeq(s, a + 1, a + n) = [k \in 1 .. (a + n) - (a + 1) + 1 |-> s[(a + 1) + k - 1]]
    OBVIOUS
  <2>2. (a + n) - (a + 1) + 1 = n /\ \A k \in 1 .. n : (a + 1) + k - 1 = a + k
    OBVIOUS
  <2>3. QED
    BY <2>1, <2>2
<1>2. SubSeq(t, b + 1, b + n) = [k \in 1 .. n |-> t[b + k]]
  <2>1. SubSeq(t, b + 1, b + n) = [k \in 1 .. (b + n) - (b + 1) + 1 |-> t[(b + 1) + k - 1]]
    OBVIOUS
  <2>2. (b + n) - (b + 1) + 1 = n /\ \A k \in 1 .. n : (b + 1) + k - 1 = b + k
    OBVIOUS
  <2>3. QED
    BY <2>1, <2>2
<1>3. [k \in 1 .. n |-> s[a + k]] = [k \in 1 .. n |-> t[b + k]] <=> \A k \in 1 .. n : s[a + k] = t[b + k]
  OBVIOUS
<1>4. QED
  BY <1>1, <1>2, <1>3, Zenon DEF Part, SameParts

\* What runs for a LIKE expression is what SQL means by it, for these patterns.
THEOREM LikeIsMeant ==
  ASSUME NEW s \in Seq(Nat), NEW v, IsView(v, s), NEW pattern, IsLikePattern(pattern)
  PROVE  LikeExp(v, pattern) <=> Like(s, pattern)
<1> DEFINE L == Len(s)  m == Len(pattern)
<1>1. pattern \in Seq(Nat) /\ m \in Nat /\ m > 1 /\ L \in Nat
  BY DEF IsLikePattern
<1>2. v.length = L /\ (\A n \in 0 .. L : View(v, n) = SubSeq(s, 1, n)) /\ Text(v) = s
  BY ViewText DEF IsView
<1>3. CASE pattern[m] = ANY /\ \A i \in 1 .. m - 1 : pattern[i] # ANY
  <2>1. pattern[1] # ANY
    BY <1>1, <1>3
  <2>2. m - 0 - 1 = m - 1 /\ m > 0
    BY <1>1
  <2>3. LikeExp(v, pattern) <=> like_prefix(v, SubSeq(pattern, 1, m), m - 1)
    <3>1. LikeExp(v, pattern) <=> like_prefix(v, SubSeq(pattern, 1, m), m - 0 - 1)
      BY <1>3, <2>1, <2>2 DEF LikeExp
    <3>2. QED
      BY <2>2, <3>1, Zenon
  <2>4. SubSeq(pattern, 1, m) = pattern
    BY <1>1
  <2>5. LikeExp(v, pattern) <=> m - 1 <= L /\ View(v, m - 1) = SubSeq(pattern, 1, m - 1)
    BY <1>2, <2>3, <2>4, Zenon DEF like_prefix
  <2>6. ASSUME m - 1 <= L
        PROVE  View(v, m - 1) = SubSeq(pattern, 1, m - 1) <=> \A k \in 1 .. m - 1 : s[k] = pattern[k]
    <3>1. m - 1 \in 0 .. L /\ m - 1 \in Nat /\ 0 \in Nat /\ 0 + 1 = 1 /\ 0 + (m - 1) = m - 1 /\ 0 + (m - 1) <= L
          /\ 0 + (m - 1) <= m
      BY <1>1, <2>6
    <3>2. View(v, m - 1) = SubSeq(s, 1, m - 1)
      BY <1>2, <3>1
    <3>3. Part(s, 0, m - 1) = Part(pattern, 0, m - 1) <=> SameParts(s, 0, pattern, 0, m - 1)
      BY <1>1, <3>1, PartsAgree
    <3>4. \A k \in 1 .. m - 1 : 0 + k = k
      BY <1>1
    <3> HIDE DEF L, m
    <3>5. (\A k \in 1 .. m - 1 : s[0 + k] = pattern[0 + k]) <=> \A k \in 1 .. m - 1 : s[k] = pattern[k]
      BY <3>4
    <3>6. QED
      BY <3>1, <3>2, <3>3, <3>5, Zenon DEF Part, SameParts
  <2>7. Like(s, pattern) <=> m - 1 <= L /\ \A k \in 1 .. m - 1 : s[k] = pattern[k]
    BY <1>1, <1>3, LikePrefix
  <2>8. QED
    BY <2>5, <2>6, <2>7, Zenon
<1>4. CASE pattern[1] = ANY /\ \A i \in 2 .. m : pattern[i] # ANY
  <2>1. pattern[m] # ANY
    BY <1>1, <1>4
  <2>2. m - 1 - 0 = m - 1 /\ m > 0
    BY <1>1
  <2>3. LikeExp(v, pattern) <=> like_suffix(v, SubSeq(pattern, 2, m), m - 1)
    <3>1. LikeExp(v, pattern) <=> like_suffix(v, SubSeq(pattern, 2, m), m - 1 - 0)
      BY <1>4, <2>1, <2>2 DEF LikeExp
    <3>2. QED
      BY <2>2, <3>1, Zenon
  <2>4. SubSeq(SubSeq(pattern, 2, m), 1, m - 1) = SubSeq(pattern, 2, m)
    <3>1. PICK c : c = SubSeq(pattern, 2, m)
      OBVIOUS
    <3>2. c \in Seq(Nat) /\ Len(c) = m - 1
      BY <1>1, <3>1
    <3>3. SubSeq(c, 1, m - 1) = c
      BY <3>2
    <3>4. QED
      BY <3>1, <3>3, Zenon
  <2>5. LikeExp(v, pattern) <=> m - 1 <= L /\ SubSeq(s, L - (m - 1) + 1, L) = SubSeq(pattern, 2, m)
    BY <1>2, <2>3, <2>4, Zenon DEF like_suffix
  <2>6. ASSUME m - 1 <= L
        PROVE  SubSeq(s, L - (m - 1) + 1, L) = SubSeq(pattern, 2, m)
                 <=> \A k \in 1 .. m - 1 : s[(L - (m - 1)) + k] = pattern[k + 1]
    <3>1. L - (m - 1) \in Nat /\ m - 1 \in Nat /\ 1 \in Nat /\ 1 + 1 = 2 /\ 1 + (m - 1) = m
          /\ (L - (m - 1)) + (m - 1) = L /\ (L - (m - 1)) + (m - 1) <= L /\ 1 + (m - 1) <= m
      BY <1>1, <2>6
    <3>2. Part(s, L - (m - 1), m - 1) = Part(pattern, 1, m - 1) <=> SameParts(s, L - (m - 1), pattern, 1, m - 1)
      BY <1>1, <3>1, PartsAgree
    <3>3. \A k \in 1 .. m - 1 : 1 + k = k + 1
      BY <1>1
    <3> HIDE DEF L, m
    <3>4. (\A k \in 1 .. m - 1 : s[(L - (m - 1)) + k] = pattern[1 + k])
            <=> \A k \in 1 .. m - 1 : s[(L - (m - 1)) + k] = pattern[k + 1]
      BY <3>3
    <3>5. QED
      BY <3>1, <3>2, <3>4, Zenon DEF Part, SameParts
  <2>7. Like(s, pattern) <=> m - 1 <= L /\ \A k \in 1 .. m - 1 : s[(L - (m - 1)) + k] = pattern[k + 1]
    BY <1>1, <1>4, LikeSuffix
  <2>8. QED
    BY <2>5, <2>6, <2>7, Zenon
<1>5. QED
  BY <1>3, <1>4 DEF IsLikePattern

\* A constant, with its terminator behind it, and a string in memory
LEMMA ConstantText ==
  ASSUME NEW s \in Seq(Nat)
  PROVE  StringView(s, <<0>>).length = Len(s) /\ Text(StringView(s, <<0>>)) = s
<1>1. SubSeq(s \o <<0>>, 1, Len(s)) = s
  <2>0. <<0>> \in Seq(Nat)
    OBVIOUS
  <2>1. PICK z \in Seq(Nat) : z = <<0>>
    BY <2>0, Zenon
  <2>2. SubSeq(s \o z, 1, Len(s)) = s
    OBVIOUS
  <2>3. QED
    BY <2>1, <2>2
<1>2. StringView(s, <<0>>).length = Len(s) /\ StringView(s, <<0>>).data = s \o <<0>>
  BY DEF StringView
<1>3. QED
  BY <1>1, <1>2, Zenon DEF Text, View

\* string_eq of a view is equality of the string.
LEMMA EqIsMeant ==
  ASSUME NEW s \in Seq(Nat), NEW v, IsView(v, s), NEW t \in Seq(Nat)
  PROVE  string_eq(v, StringView(t, <<0>>)) <=> s = t
<1>1. v.length = Len(s) /\ View(v, Len(s)) = s
  BY ViewText DEF IsView, Text
<1>2. StringView(t, <<0>>).length = Len(t) /\ View(StringView(t, <<0>>), Len(t)) = t
  BY ConstantText DEF Text
<1>3. CASE Len(s) = Len(t)
  BY <1>1, <1>2, <1>3, Zenon DEF string_eq
<1>4. CASE Len(s) # Len(t)
  BY <1>1, <1>2, <1>4, Zenon DEF string_eq
<1>5. QED
  BY <1>3, <1>4

\* string_lt of a view is the order of the string.
LEMMA LtIsMeant ==
  ASSUME NEW s \in Seq(Nat), NEW v, IsView(v, s), NEW t \in Seq(Nat)
  PROVE  string_lt(v, StringView(t, <<0>>)) <=> Precedes(s, t)
BY ViewText, ConstantText, Zenon DEF string_lt

-----------------------------------------------------------------------------
(* The files                                                                *)

Word(field) == Append(field.text, delim)
FieldTexts(line) == [c \in DOMAIN line |-> Word(line[c])]
LineText(line) == FlattenSeq(FieldTexts(line)) \o <<eol>>
LineTexts(lines) == [l \in DOMAIN lines |-> LineText(lines[l])]

\* How many bytes are before the lth line, and before its cth field
LineStart(lines, l) == Offset(LineTexts(lines), l - 1)
FieldStart(lines, l, c) == LineStart(lines, l) + Offset(FieldTexts(lines[l]), c - 1)

IsLine(t, line) ==
  /\ IsList(line) /\ DOMAIN line = DOMAIN TableDefs[t]
  /\ \A c \in DOMAIN TableDefs[t] : IsField(t, c, line[c])
IsFile(t, lines) == IsList(lines) /\ \A l \in DOMAIN lines : IsLine(t, lines[l])

\* The text of a file, by its lines
LEMMA FileTextIs ==
  ASSUME NEW lines
  PROVE  FileText(lines) = FlattenSeq(LineTexts(lines))
BY Zenon DEF FileText, LineTexts, LineText, FieldTexts, Word

\* A field and its delimiter are a word; it begins with the delimiter only if the field is empty.
LEMMA WordOfField ==
  ASSUME NEW t, NEW c, NEW field, IsField(t, c, field)
  PROVE  /\ IsWord(Word(field)) /\ Word(field) \in Seq(Nat) /\ Len(Word(field)) = Len(field.text) + 1
         /\ field.text \in Seq(Nat)
         /\ field.text # <<>> => Word(field)[1] # delim
         /\ field.text = <<>> => Word(field)[1] = delim /\ Len(Word(field)) = 1
<1>1. field.text \in Seq(Nat \ {delim, eol})
  BY Zenon DEF IsField
<1>2. PICK s \in Seq(Nat \ {delim, eol}) : s = field.text
  BY <1>1
<1>3. s \in Seq(Nat) /\ Len(s) \in Nat /\ \A k \in 1 .. Len(s) : s[k] \notin {delim, eol}
  OBVIOUS
<1>4. delim \in Nat
  BY DEF delim
<1>5. PICK w : w = Append(s, delim)
  OBVIOUS
<1>6. w \in Seq(Nat) /\ Len(w) = Len(s) + 1 /\ w[Len(w)] = delim /\ \A k \in 1 .. Len(s) : w[k] = s[k]
  BY <1>3, <1>4, <1>5
<1>7. IsWord(w)
  <2>1. Len(w) > 0 /\ Len(w) - 1 = Len(s)
    BY <1>3, <1>6
  <2>2. \A k \in 1 .. Len(w) - 1 : w[k] \notin {delim, eol}
    BY <1>3, <1>6, <2>1
  <2>3. QED
    BY <1>6, <2>1, <2>2 DEF IsWord
<1>8. s # <<>> => w[1] # delim
  <2>1. SUFFICES ASSUME s # <<>> PROVE w[1] # delim
    OBVIOUS
  <2>2. 1 \in 1 .. Len(s)
    BY <1>3, <2>1
  <2>3. QED
    BY <1>3, <1>6, <2>2
<1>9. s = <<>> => w[1] = delim /\ Len(w) = 1
  BY <1>6
<1>10. Word(field) = w
  BY <1>2, <1>5 DEF Word
<1>11. QED
  BY <1>2, <1>3, <1>6, <1>7, <1>8, <1>9, <1>10

\* A date that stands alone is read as its number of days.
LEMMA DateAlone ==
  ASSUME NEW text \in Seq(Nat), NEW date, IsDateText(text, date), NEW w \in Seq(Nat), w = Append(text, delim), IsWord(w)
  PROVE  parse_date(w, 1) = [val |-> toInt(date.year, date.month, date.day), end |-> Len(w)]
<1>1. PICK L \in Nat : L = Len(text)
  OBVIOUS
<1>2. Len(w) = L + 1 /\ (\A k \in 1 .. L : w[k] = text[k]) /\ Limit(w) = L + 2
  BY <1>1 DEF Limit
<1>3. PICK i \in 1 .. L, j \in 1 .. L :
        /\ i < j /\ text[i] = minus /\ text[j] = minus
        /\ \A k \in 1 .. L \ {i, j} : text[k] \in Digits
        /\ Decimal(text, 1, i) = date.year /\ Decimal(text, i + 1, j) = date.month
        /\ Decimal(text, j + 1, L + 1) = date.day
  BY <1>1 DEF IsDateText
<1>4. w[i] = minus /\ w[j] = minus /\ (\A k \in 1 .. L \ {i, j} : w[k] \in Digits) /\ minus \notin Digits
      /\ space \notin Digits /\ space # minus
  BY <1>2, <1>3 DEF minus, space, Digits
<1>5. \A k \in 1 .. L : w[k] # space
  BY <1>4
<1>6. find(w, 1, {delim, eol}) = L + 1
  <2>1. Shows(w, 0, w)
    <3>1. Len(w) \in Nat /\ \A k \in 1 .. Len(w) : 0 + k = k
      OBVIOUS
    <3>2. 0 + Len(w) <= Len(w) /\ \A k \in 1 .. Len(w) : w[0 + k] = w[k]
      BY <3>1
    <3>3. QED
      BY <3>2 DEF Shows
  <2>2. QED
    BY <1>2, <2>1, FindsWord
<1>7. PICK e \in Nat : e = L + 1 /\ e \in 1 .. Limit(w) /\ Len(w) \in Nat /\ Limit(w) \in Nat
  BY <1>2
<1>8. PastAll(w, 1, e, {space}) = 1
  <2>1. 1 \in 1 .. e /\ 1 < e /\ w[1] \notin {space} /\ ~\E k \in 1 .. 1 - 1 : TRUE
    BY <1>3, <1>5, <1>7
  <2>2. QED
    BY <1>7, <2>1, PastUnique
<1>9. Trimmed(w, 1, e) = e
  <2>1. PICK z : z = Trimmed(w, 1, e)
    OBVIOUS
  <2>2. z \in 1 .. e /\ \A k \in z .. e - 1 : w[k] = space
    <3>1. PICK b \in Nat : b = 1
      OBVIOUS
    <3>2. b \in Nat /\ e \in Nat /\ b <= e
      BY <1>7, <3>1
    <3>3. /\ Trimmed(w, b, e) \in b .. e
          /\ \A k \in Trimmed(w, b, e) .. e - 1 : w[k] = space
          /\ Trimmed(w, b, e) > b => w[Trimmed(w, b, e) - 1] # space
      BY <3>2, TrimmedIs, ZenonT(30)
    <3>4. QED
      BY <2>1, <3>1, <3>3, Zenon
  <2>3. ASSUME z # e PROVE FALSE
    <3>1. z \in z .. e - 1 /\ z \in 1 .. L
      BY <1>7, <2>2, <2>3
    <3>2. QED
      BY <1>5, <2>2, <3>1
  <2>4. QED
    BY <2>1, <2>3
<1>10. PastAll(w, 1, e, Digits) = i
  <2>1. 1 \in 1 .. e /\ i \in 1 .. e /\ i < e
    BY <1>3, <1>7
  <2>2. \A k \in 1 .. i - 1 : w[k] \in Digits
    <3>1. \A k \in 1 .. i - 1 : k \in 1 .. L \ {i, j}
      BY <1>3, SMTT(30)
    <3>2. QED
      BY <1>4, <3>1
  <2>3. w[i] \notin Digits
    BY <1>4
  <2>4. QED
    BY <1>7, <2>1, <2>2, <2>3, PastUnique
<1>11. PastAll(w, i + 1, e, Digits) = j
  <2>1. i + 1 \in 1 .. e /\ j \in i + 1 .. e /\ j < e
    BY <1>3, <1>7
  <2>2. \A k \in i + 1 .. j - 1 : w[k] \in Digits
    <3>1. \A k \in i + 1 .. j - 1 : k \in 1 .. L \ {i, j}
      BY <1>3, SMTT(30)
    <3>2. QED
      BY <1>4, <3>1
  <2>3. w[j] \notin Digits
    BY <1>4
  <2>4. QED
    BY <1>7, <2>1, <2>2, <2>3, PastUnique
<1>12. PastAll(w, j + 1, e, Digits) = e
  <2>1. j + 1 \in 1 .. e /\ e \in j + 1 .. e /\ ~(e < e)
    BY <1>3, <1>7
  <2>2. \A k \in j + 1 .. e - 1 : w[k] \in Digits
    <3>1. \A k \in j + 1 .. e - 1 : k \in 1 .. L \ {i, j}
      BY <1>3, <1>7, SMTT(30)
    <3>2. QED
      BY <1>4, <3>1
  <2>3. QED
    BY <1>7, <2>1, <2>2, PastUnique
<1>13. ASSUME NEW a \in 1 .. L + 1, NEW b \in 1 .. L + 1, a <= b PROVE Decimal(w, a, b) = Decimal(text, a, b)
  <2>1. PICK m \in Nat : m = b - 1 /\ m <= L
    BY <1>13
  <2>2. SubSeq(w, a, m) = SubSeq(text, a, m)
    BY <1>1, <1>2, <2>1, SMTT(30)
  <2>3. QED
    BY <2>1, <2>2, Zenon DEF Decimal
<1>14. Decimal(w, 1, i) = date.year /\ Decimal(w, i + 1, j) = date.month /\ Decimal(w, j + 1, e) = date.day
  <2>1. /\ 1 \in 1 .. L + 1 /\ i \in 1 .. L + 1 /\ 1 <= i
        /\ i + 1 \in 1 .. L + 1 /\ j \in 1 .. L + 1 /\ i + 1 <= j
        /\ j + 1 \in 1 .. L + 1 /\ L + 1 \in 1 .. L + 1 /\ j + 1 <= L + 1
    <3>1. i < j
      BY <1>3
    <3>2. QED
      BY <3>1
  <2>2. /\ Decimal(w, 1, i) = Decimal(text, 1, i) /\ Decimal(w, i + 1, j) = Decimal(text, i + 1, j)
        /\ Decimal(w, j + 1, L + 1) = Decimal(text, j + 1, L + 1)
    BY <1>13, <2>1
  <2>3. QED
    BY <1>3, <1>7, <2>2
<1>15. InRange(date.year, date.month, date.day)
  <2>1. /\ date.year \in Nat /\ date.year <= 9999 /\ date.month \in 1 .. 12
        /\ date.day \in 1 .. DaysIn(date.year, date.month)
    BY DEF IsDateText, IsDate
  <2>2. PICK n \in {28, 29, 30, 31} : n = DaysIn(date.year, date.month)
    BY DEF DaysIn
  <2>3. date.day \in 1 .. 31
    <3>1. n \in Nat /\ n <= 31
      BY <2>2
    <3>2. PICK d : d = date.day
      OBVIOUS
    <3>3. d \in 1 .. n
      <4>1. date.day \in 1 .. n
        BY <2>1, <2>2
      <4>2. QED
        BY <3>2, <4>1
    <3>4. d \in 1 .. 31
      BY <3>1, <3>3
    <3>5. QED
      BY <3>2, <3>4, Zenon
  <2>4. QED
    BY <2>1, <2>3 DEF InRange
<1>16. i < e /\ j < e
  BY <1>3, <1>7
<1>17. DateOf(w, 1, e, i, j, e) = toInt(date.year, date.month, date.day)
  BY <1>4, <1>14, <1>15, <1>16, Zenon DEF DateOf
<1>18. stringToDate(w, 1, e) = toInt(date.year, date.month, date.day)
  <2>1. stringToDate(w, 1, e) = WithBegin(w, 1, e)
    BY <1>8, DateUnfolds, Zenon
  <2>2. WithBegin(w, 1, e) = DateOf(w, 1, e, i, j, e)
    BY <1>9, <1>10, <1>11, <1>12, Zenon DEF WithBegin, WithEnd, WithYear, WithMonth
  <2>3. QED
    BY <1>17, <2>1, <2>2
<1>19. QED
  BY <1>2, <1>6, <1>7, <1>18, Zenon DEF parse_date

\* What a parser returns of a word that is the text of a value
ReadsAs(type, w, val) == parse_value(type, w, 1) = [val |-> val, end |-> Len(w)]

\* A number that stands alone is read as what its digits are.
LEMMA NumberAlone ==
  ASSUME NEW text \in Seq(Nat), NEW type \in {"int32", "int64", "double"}, NEW val, IsNumberText(type, text, val),
         NEW w \in Seq(Nat), w = Append(text, delim)
  PROVE  ReadsAs(type, w, val)
<1>1. PICK L \in Nat : L = Len(text)
  OBVIOUS
<1>2. Len(w) = L + 1 /\ (\A k \in 1 .. L : w[k] = text[k]) /\ w[L + 1] = delim /\ Limit(w) = L + 2
  BY <1>1 DEF Limit, delim
<1> DEFINE Hundredths(dot) ==
             IF dot > Len(text) THEN 0
             ELSE IF dot = Len(text) - 1 THEN 10 * Decimal(text, dot + 1, Len(text) + 1)
             ELSE Decimal(text, dot + 1, Len(text) + 1)
<1>3. PICK first \in {1, 2}, dot \in 1 .. Len(text) + 1 :
        /\ first < dot
        /\ first = 2 => text[1] = minus
        /\ \A k \in first .. Len(text) \ {dot} : text[k] \in Digits
        /\ dot <= Len(text) => type = "double" /\ text[dot] = point /\ dot \in Len(text) - 2 .. Len(text) - 1
        /\ val = (IF first = 2 THEN -1 ELSE 1)
                   * (IF type = "double" THEN 100 * Decimal(text, first, dot) + Hundredths(dot)
                      ELSE Decimal(text, first, dot))
  BY Zenon DEF IsNumberText
<1> HIDE DEF Hundredths
<1>4. /\ L \in Nat /\ first \in Nat /\ dot \in Nat /\ first < dot /\ dot <= L + 1 /\ first \in 1 .. L
      /\ first \in {1, 2} /\ (first = 2 => text[1] = minus)
      /\ (\A k \in first .. L \ {dot} : text[k] \in Digits)
      /\ (dot <= L => type = "double" /\ text[dot] = point /\ dot \in L - 2 .. L - 1)
  <2>1. /\ first \in {1, 2} /\ (first = 2 => text[1] = minus) /\ first < dot /\ dot \in 1 .. L + 1
        /\ (\A k \in first .. L \ {dot} : text[k] \in Digits)
        /\ (dot <= L => type = "double" /\ text[dot] = point /\ dot \in L - 2 .. L - 1)
    BY <1>1, <1>3, Zenon
  <2>2. first \in Nat /\ dot \in Nat /\ first \in 1 .. L /\ dot <= L + 1
    BY <1>1, <2>1
  <2>3. QED
    BY <1>1, <2>1, <2>2, Zenon
<1>5. delim \notin Digits /\ point \notin Digits /\ minus \notin Digits /\ delim # point
  BY DEF delim, point, minus, Digits
<1>6. Sign(w, 1) = [factor |-> IF first = 2 THEN -1 ELSE 1, at |-> first]
  <2>1. IsAt(w, 1, {minus}) <=> w[1] = minus
    BY <1>2 DEF IsAt
  <2>2. 1 \in 1 .. L /\ w[1] = text[1]
    BY <1>2, <1>4
  <2>3. CASE first = 2
    <3>1. Sign(w, 1) = [factor |-> -1, at |-> 1 + 1]
      BY <1>4, <2>1, <2>2, <2>3, Zenon DEF Sign
    <3>2. QED
      BY <2>3, <3>1
  <2>4. CASE first = 1
    <3>1. 1 \in first .. L \ {dot}
      BY <1>4, <2>4
    <3>2. w[1] # minus
      BY <1>4, <1>5, <2>2, <3>1
    <3>3. Sign(w, 1) = [factor |-> 1, at |-> 1]
      BY <2>1, <3>2, Zenon DEF Sign
    <3>4. QED
      BY <2>4, <3>3
  <2>5. QED
    BY <1>4, <2>3, <2>4
<1>7. \A k \in first .. L \ {dot} : w[k] \in Digits
  <2>1. \A k \in first .. L \ {dot} : k \in 1 .. L
    BY <1>4
  <2>2. QED
    BY <1>2, <1>4, <2>1
<1>8. w[dot] \notin Digits
  <2>1. CASE dot <= L
    <3>1. w[dot] = point
      <4>1. dot \in 1 .. L
        BY <1>4, <2>1
      <4>2. QED
        BY <1>2, <1>4, <2>1, <4>1
    <3>2. QED
      BY <1>5, <3>1
  <2>2. CASE dot = L + 1
    BY <1>2, <1>5, <2>2
  <2>3. QED
    BY <1>4, <2>1, <2>2
<1>9. Len(w) \in Nat /\ Limit(w) \in 1 .. Limit(w)
  BY <1>2
<1>10. DigitsEnd(w, first) = dot
  <2>1. first \in 1 .. Limit(w) /\ dot \in first .. Limit(w)
    BY <1>2, <1>4
  <2>2. \A k \in first .. dot - 1 : w[k] \in Digits
    <3>1. \A k \in first .. dot - 1 : k \in first .. L \ {dot}
      BY <1>4
    <3>2. QED
      BY <1>7, <3>1
  <2>3. PastAll(w, first, Limit(w), Digits) = dot
    BY <1>8, <1>9, <2>1, <2>2, PastUnique
  <2>4. QED
    BY <2>3 DEF DigitsEnd
<1>11. ASSUME NEW a \in 1 .. L + 1, NEW b \in 1 .. L + 1, a <= b PROVE Decimal(w, a, b) = Decimal(text, a, b)
  <2>1. PICK m \in Nat : m = b - 1 /\ m <= L
    BY <1>11
  <2>2. SubSeq(w, a, m) = SubSeq(text, a, m)
    BY <1>1, <1>2, <2>1, SMTT(30)
  <2>3. QED
    BY <2>1, <2>2, Zenon DEF Decimal
<1>12. Decimal(w, first, dot) = Decimal(text, first, dot)
  BY <1>4, <1>11
<1> DEFINE Frac == IF IsAt(w, dot, {point}) THEN DigitsEnd(w, dot + 1) ELSE dot
           Cents(n) == IF n <= 0 THEN 0 ELSE IF n = 1 THEN 10 * Decimal(w, dot + 1, Frac) ELSE Decimal(w, dot + 1, Frac)
<1>13. Frac = L + 1 /\ Cents(Frac - dot - 1) = Hundredths(dot)
  <2>1. CASE dot <= L
    <3>1. w[dot] = point /\ dot \in L - 2 .. L - 1
      <4>1. dot \in 1 .. L
        BY <1>4, <2>1
      <4>2. QED
        BY <1>2, <1>4, <2>1, <4>1
    <3>2. IsAt(w, dot, {point})
      BY <1>2, <1>4, <2>1, <3>1 DEF IsAt
    <3>3. dot + 1 \in 1 .. Limit(w) /\ L + 1 \in dot + 1 .. Limit(w)
      BY <1>2, <1>4, <2>1
    <3>4. \A k \in dot + 1 .. (L + 1) - 1 : w[k] \in Digits
      <4>1. \A k \in dot + 1 .. (L + 1) - 1 : k \in first .. L \ {dot}
        BY <1>4
      <4>2. QED
        BY <1>7, <4>1
    <3>5. PastAll(w, dot + 1, Limit(w), Digits) = L + 1
      <4>1. w[L + 1] \notin Digits
        BY <1>2, <1>5
      <4>2. PICK e \in Nat, b \in Nat : e = L + 1 /\ b = dot + 1
        BY <1>4
      <4>3. b \in 1 .. Limit(w) /\ e \in b .. Limit(w) /\ \A k \in b .. e - 1 : w[k] \in Digits
        BY <3>3, <3>4, <4>2, Zenon
      <4>4. PastAll(w, b, Limit(w), Digits) = e
        BY <1>9, <4>1, <4>2, <4>3, PastUnique
      <4>5. QED
        BY <4>2, <4>4, Zenon
    <3>6. Frac = L + 1
      BY <3>2, <3>5, Zenon DEF DigitsEnd
    <3>7. Decimal(w, dot + 1, L + 1) = Decimal(text, dot + 1, L + 1)
      BY <1>4, <1>11, <2>1
    <3>8. (L + 1) - dot - 1 \in {1, 2} /\ ((L + 1) - dot - 1 = 1 <=> dot = L - 1) /\ ~(dot > L)
      <4>1. L \in Nat /\ dot \in Nat /\ dot \in L - 2 .. L - 1
        BY <1>4, <3>1, Zenon
      <4>2. QED
        BY <4>1
    <3>9. PICK n \in {1, 2} : n = (L + 1) - dot - 1
      BY <3>8
    <3>10. ~(n <= 0)
      BY <3>9
    <3>11. Cents(n) = IF n = 1 THEN 10 * Decimal(w, dot + 1, Frac) ELSE Decimal(w, dot + 1, Frac)
      BY <3>10, Zenon
    <3>12. Hundredths(dot) =
             IF dot = L - 1 THEN 10 * Decimal(text, dot + 1, L + 1) ELSE Decimal(text, dot + 1, L + 1)
      BY <1>1, <3>8, Zenon DEF Hundredths
    <3> HIDE DEF Frac, Cents
    <3>13. Cents(n) = Hundredths(dot)
      BY <3>6, <3>7, <3>8, <3>9, <3>11, <3>12, Zenon
    <3>14. QED
      BY <3>6, <3>9, <3>13, Zenon
  <2>2. CASE dot = L + 1
    <3>1. ~IsAt(w, dot, {point})
      BY <1>2, <1>5, <2>2 DEF IsAt
    <3>2. Frac = L + 1
      BY <2>2, <3>1
    <3>3. Hundredths(dot) = 0
      BY <1>1, <1>4, <2>2 DEF Hundredths
    <3>4. (L + 1) - dot - 1 <= 0
      BY <1>4, <2>2
    <3>5. Frac - dot - 1 <= 0
      <4> HIDE DEF Frac
      <4>1. QED
        BY <3>2, <3>4
    <3>6. Cents(Frac - dot - 1) = 0
      BY <3>5, Zenon
    <3>7. QED
      BY <3>2, <3>3, <3>6, Zenon
  <2>3. QED
    BY <1>4, <2>1, <2>2
<1>14. CASE type \in {"int32", "int64"}
  <2>1. parse_value(type, w, 1) = parse_int(w, 1)
    BY <1>14 DEF parse_value
  <2>2. type # "double"
    BY <1>14
  <2>3. dot = L + 1
    BY <1>4, <2>2
  <2>4. parse_int(w, 1) = [val |-> Sign(w, 1).factor * Decimal(w, Sign(w, 1).at, DigitsEnd(w, Sign(w, 1).at)),
                           end |-> DigitsEnd(w, Sign(w, 1).at)]
    BY Zenon DEF parse_int
  <2>5. Sign(w, 1).factor = (IF first = 2 THEN -1 ELSE 1) /\ Sign(w, 1).at = first
    BY <1>6
  <2>6. val = (IF first = 2 THEN -1 ELSE 1) * Decimal(text, first, dot)
    BY <1>3, <2>2, Zenon
  <2>7. QED
    BY <1>2, <1>10, <1>12, <2>1, <2>3, <2>4, <2>5, <2>6, Zenon DEF ReadsAs
<1>15. CASE type = "double"
  <2>1. parse_value(type, w, 1) = parse_double(w, 1)
    BY <1>15 DEF parse_value
  <2>2. Sign(w, 1).factor = (IF first = 2 THEN -1 ELSE 1) /\ Sign(w, 1).at = first
    BY <1>6
  <2>3. parse_double(w, 1) =
          [val |-> Sign(w, 1).factor * (100 * Decimal(w, first, dot) + Cents(Frac - dot - 1)), end |-> Frac]
    <3> DEFINE F(p) == IF IsAt(w, p, {point}) THEN DigitsEnd(w, p + 1) ELSE p
               C(p, n) == IF n <= 0 THEN 0 ELSE IF n = 1 THEN 10 * Decimal(w, p + 1, F(p)) ELSE Decimal(w, p + 1, F(p))
               whole == DigitsEnd(w, Sign(w, 1).at)
    <3>1. parse_double(w, 1) =
            [val |-> Sign(w, 1).factor * (100 * Decimal(w, Sign(w, 1).at, whole) + C(whole, F(whole) - whole - 1)),
             end |-> F(whole)]
      BY Zenon DEF parse_double
    <3>2. whole = dot /\ Sign(w, 1).at = first
      BY <1>10, <2>2, Zenon
    <3>3. F(dot) = Frac /\ C(dot, Frac - dot - 1) = Cents(Frac - dot - 1)
      BY Zenon
    <3> HIDE DEF F, C, whole, Frac, Cents
    <3>4. QED
      BY <3>1, <3>2, <3>3, ZenonT(30)
  <2>4. val = (IF first = 2 THEN -1 ELSE 1) * (100 * Decimal(text, first, dot) + Hundredths(dot))
    BY <1>3, <1>15, Zenon
  <2> HIDE DEF Frac, Cents
  <2>5. QED
    BY <1>2, <1>12, <1>13, <2>1, <2>2, <2>3, <2>4, ZenonT(30) DEF ReadsAs
<1>16. QED
  BY <1>14, <1>15

\* A field that stands alone is read as its value.
LEMMA FieldAlone ==
  ASSUME NEW t, NEW c, NEW field, IsField(t, c, field), NEW type, type = TableDefs[t][c], type \in ImportTypes
  PROVE  parse_value(type, Word(field), 1) = [val |-> Stored(type, field.val), end |-> Len(field.text) + 1]
<1>1. PICK w \in Seq(Nat), text \in Seq(Nat) :
        /\ w = Word(field) /\ text = field.text /\ IsWord(w) /\ Len(w) = Len(text) + 1 /\ w = Append(text, delim)
  BY WordOfField DEF Word
<1>2. CASE type \in {"int32", "int64", "double"}
  <2>1. IsNumberText(type, text, field.val)
    BY <1>1, <1>2, Zenon DEF IsField
  <2>2. parse_value(type, w, 1) = [val |-> field.val, end |-> Len(w)]
    <3>1. PICK val : val = field.val
      OBVIOUS
    <3>2. IsNumberText(type, text, val) /\ w = Append(text, delim)
      BY <1>1, <2>1, <3>1, Zenon
    <3>3. ReadsAs(type, w, val)
      BY <1>2, <3>2, NumberAlone
    <3>4. QED
      BY <3>1, <3>3, Zenon DEF ReadsAs
  <2>3. Stored(type, field.val) = field.val
    BY <1>2 DEF Stored
  <2>4. QED
    BY <1>1, <2>2, <2>3, Zenon
<1>3. CASE type = "char"
  <2>1. text = <<field.val>>
    BY <1>1, <1>3, Zenon DEF IsField
  <2>2. Len(text) = 1 /\ text[1] = field.val
    BY <2>1
  <2>3. w[1] = field.val /\ Len(text) + 1 = 1 + 1
    BY <1>1, <2>2
  <2>4. parse_value(type, w, 1) = parse_char(w, 1)
    BY <1>3 DEF parse_value
  <2>5. Stored(type, field.val) = field.val
    BY <1>3 DEF Stored
  <2>6. QED
    BY <1>1, <2>3, <2>4, <2>5, Zenon DEF parse_char
<1>4. CASE type = "date"
  <2>1. IsDateText(text, field.val)
    BY <1>1, <1>4, Zenon DEF IsField
  <2>2. parse_date(w, 1) = [val |-> toInt(field.val.year, field.val.month, field.val.day), end |-> Len(w)]
    BY <1>1, <2>1, DateAlone
  <2>3. parse_value(type, w, 1) = parse_date(w, 1)
    BY <1>4 DEF parse_value
  <2>4. Stored(type, field.val) = toInt(field.val.year, field.val.month, field.val.day)
    BY <1>4, Zenon DEF Stored
  <2>5. QED
    BY <1>1, <2>2, <2>3, <2>4, Zenon
<1>5. CASE type = "string"
  <2>1. text = field.val
    BY <1>1, <1>5, Zenon DEF IsField
  <2>2. Shows(w, 0, w)
    <3>1. Len(w) \in Nat /\ \A k \in 1 .. Len(w) : 0 + k = k
      OBVIOUS
    <3>2. 0 + Len(w) <= Len(w) /\ \A k \in 1 .. Len(w) : w[0 + k] = w[k]
      BY <3>1
    <3>3. QED
      BY <3>2 DEF Shows
  <2>3. find(w, 1, {delim, eol}) = Len(w)
    BY <1>1, <2>2, FindsWord
  <2>4. SubSeq(w, 1, Len(w) - 1) = text
    <3>1. PICK m \in Nat : m = Len(text)
      OBVIOUS
    <3>2. Len(w) - 1 = m /\ \A k \in 1 .. m : w[k] = text[k]
      BY <1>1, <3>1
    <3>3. SubSeq(w, 1, m) = text
      BY <1>1, <3>1, <3>2
    <3>4. QED
      BY <3>2, <3>3
  <2>5. parse_string(w, 1) = [val |-> text, end |-> Len(w)]
    BY <2>3, <2>4, Zenon DEF parse_string
  <2>6. parse_value(type, w, 1) = parse_string(w, 1)
    BY <1>5 DEF parse_value
  <2>7. Stored(type, field.val) = field.val
    BY <1>5 DEF Stored
  <2>8. QED
    BY <1>1, <2>1, <2>5, <2>6, <2>7, Zenon
<1>6. QED
  BY <1>2, <1>3, <1>4, <1>5 DEF ImportTypes

\* A line, as its fields and its end
LEMMA LineIs ==
  ASSUME NEW t \in DOMAIN TableDefs, NEW line, IsLine(t, line), NEW C, C = Len(TableDefs[t])
  PROVE  /\ C \in Nat \ {0} /\ DOMAIN line = 1 .. C /\ Len(line) = C
         /\ FieldTexts(line) \in Seq(Seq(Nat)) /\ Len(FieldTexts(line)) = C
         /\ \A c \in 1 .. C : FieldTexts(line)[c] = Word(line[c])
         /\ LineText(line) \in Seq(Nat) /\ Len(LineText(line)) = Offset(FieldTexts(line), C) + 1
         /\ LineText(line)[Offset(FieldTexts(line), C) + 1] = eol
         /\ \A c \in 1 .. C :
              /\ Offset(FieldTexts(line), c) <= Offset(FieldTexts(line), C)
              /\ \A k \in 1 .. Len(Word(line[c])) :
                   LineText(line)[Offset(FieldTexts(line), c - 1) + k] = Word(line[c])[k]
<1>1. TableDefs[t] \in Seq(ImportTypes) /\ Len(TableDefs[t]) > 0
  BY CatalogTables DEF IsTable
<1>2. C \in Nat \ {0} /\ DOMAIN TableDefs[t] = 1 .. C
  BY <1>1
<1>3. Len(line) \in Nat /\ line = [i \in 1 .. Len(line) |-> line[i]] /\ DOMAIN line = 1 .. C
      /\ \A c \in 1 .. C : IsField(t, c, line[c])
  BY <1>2 DEF IsLine, IsList
<1>4. Len(line) = C
  <2>1. DOMAIN line = 1 .. Len(line)
    BY <1>3
  <2>2. 1 .. Len(line) = 1 .. C
    BY <1>3, <2>1
  <2>3. QED
    BY <1>2, <1>3, <2>2
<1> DEFINE P == FieldTexts(line)
<1>5. P = [c \in 1 .. C |-> Word(line[c])]
  BY <1>3 DEF FieldTexts
<1>6. \A c \in 1 .. C : Word(line[c]) \in Seq(Nat)
  BY <1>3, WordOfField
<1>7. P \in Seq(Seq(Nat)) /\ Len(P) = C /\ \A c \in 1 .. C : P[c] = Word(line[c])
  BY <1>2, <1>5, <1>6
<1> HIDE DEF P
<1>8. /\ FlattenSeq(P) \in Seq(Nat) /\ Len(FlattenSeq(P)) = Offset(P, C)
      /\ \A c \in 1 .. C :
           /\ Offset(P, c) <= Len(FlattenSeq(P))
           /\ \A k \in 1 .. Len(P[c]) : FlattenSeq(P)[Offset(P, c - 1) + k] = P[c][k]
  BY <1>7, FlattenPlaces
<1>9. \A c \in 0 .. C : Offset(P, c) \in Nat
  BY <1>7, OffsetSteps
<1>10. \A c \in 1 .. C : Offset(P, c) = Offset(P, c - 1) + Len(P[c])
  BY <1>7, OffsetSteps
<1>11. PICK s \in Seq(Nat) : s = FlattenSeq(P)
  BY <1>8
<1>12. PICK z \in Seq(Nat) : z = <<eol>>
  <2>1. <<eol>> \in Seq(Nat)
    BY DEF eol
  <2>2. QED
    BY <2>1, Zenon
<1>13. LineText(line) = s \o z
  BY <1>11, <1>12, Zenon DEF LineText, P
<1>14. /\ s \o z \in Seq(Nat) /\ Len(s \o z) = Len(s) + 1 /\ (s \o z)[Len(s) + 1] = eol
       /\ \A k \in 1 .. Len(s) : (s \o z)[k] = s[k]
  BY <1>12
<1>15. ASSUME NEW c \in 1 .. C, NEW k \in 1 .. Len(P[c])
       PROVE  (s \o z)[Offset(P, c - 1) + k] = P[c][k]
  <2>1. c - 1 \in 0 .. C /\ c \in 0 .. C
    BY <1>2
  <2>2. Offset(P, c - 1) \in Nat /\ Offset(P, c) \in Nat /\ Offset(P, c) = Offset(P, c - 1) + Len(P[c])
           /\ Offset(P, c) <= Len(s)
    BY <1>8, <1>9, <1>10, <1>11, <2>1
  <2>3. Len(P[c]) \in Nat /\ Len(s) \in Nat
    BY <1>6, <1>7, SMTT(30)
  <2>4. Offset(P, c - 1) + k \in 1 .. Len(s)
    <3>1. PICK x \in Nat, y \in Nat, m \in Nat : x = Offset(P, c - 1) /\ y = Len(P[c]) /\ m = Len(s)
      BY <2>2, <2>3, Zenon
    <3>2. x + y <= m /\ k \in 1 .. y
      BY <2>2, <3>1
    <3>3. x + k \in 1 .. m
      BY <3>2
    <3>4. QED
      BY <3>1, <3>3
  <2>5. s[Offset(P, c - 1) + k] = P[c][k]
    BY <1>8, <1>11
  <2>6. QED
    BY <1>14, <2>4, <2>5
<1>16. Len(s) = Offset(P, C)
  BY <1>8, <1>11
<1>17. \A c \in 1 .. C : \A k \in 1 .. Len(Word(line[c])) : LineText(line)[Offset(P, c - 1) + k] = Word(line[c])[k]
  BY <1>7, <1>13, <1>15, ZenonT(30)
<1>18. \A c \in 1 .. C : Offset(P, c) <= Offset(P, C)
  BY <1>8, <1>11, <1>16
<1>19. LineText(line) \in Seq(Nat) /\ Len(LineText(line)) = Offset(P, C) + 1 /\ LineText(line)[Offset(P, C) + 1] = eol
  BY <1>13, <1>14, <1>16
<1>20. QED
  BY <1>2, <1>3, <1>4, <1>7, <1>17, <1>18, <1>19, Zenon DEF P

\* A file, as its lines
LEMMA FileIs ==
  ASSUME NEW t \in DOMAIN TableDefs, NEW lines, IsFile(t, lines)
  PROVE  /\ Len(lines) \in Nat /\ DOMAIN lines = 1 .. Len(lines) /\ \A l \in 1 .. Len(lines) : IsLine(t, lines[l])
         /\ FileText(lines) \in Seq(Nat) /\ LineStart(lines, 1) = 0
         /\ \A l \in 1 .. Len(lines) + 1 : LineStart(lines, l) \in Nat
         /\ LineStart(lines, Len(lines) + 1) = Len(FileText(lines))
         /\ \A l \in 1 .. Len(lines) :
              /\ LineStart(lines, l + 1) = LineStart(lines, l) + Len(LineText(lines[l]))
              /\ LineStart(lines, l + 1) <= Len(FileText(lines))
              /\ \A k \in 1 .. Len(LineText(lines[l])) :
                   FileText(lines)[LineStart(lines, l) + k] = LineText(lines[l])[k]
<1> DEFINE n == Len(lines)
           P == LineTexts(lines)
<1>1. n \in Nat /\ lines = [i \in 1 .. n |-> lines[i]] /\ DOMAIN lines = 1 .. n /\ \A l \in 1 .. n : IsLine(t, lines[l])
  BY DEF IsFile, IsList
<1>2. P = [l \in 1 .. n |-> LineText(lines[l])]
  BY <1>1 DEF LineTexts
<1>3. \A l \in 1 .. n : LineText(lines[l]) \in Seq(Nat)
  BY <1>1, LineIs
<1>4. P \in Seq(Seq(Nat)) /\ Len(P) = n /\ \A l \in 1 .. n : P[l] = LineText(lines[l])
  BY <1>1, <1>2, <1>3
<1> HIDE DEF P, n
<1>5. /\ FlattenSeq(P) \in Seq(Nat) /\ Len(FlattenSeq(P)) = Offset(P, n)
      /\ \A l \in 1 .. n :
           /\ Offset(P, l) <= Len(FlattenSeq(P))
           /\ \A k \in 1 .. Len(P[l]) : FlattenSeq(P)[Offset(P, l - 1) + k] = P[l][k]
  BY <1>4, FlattenPlaces, ZenonT(30)
<1>6. Offset(P, 0) = 0 /\ (\A l \in 0 .. n : Offset(P, l) \in Nat)
      /\ \A l \in 1 .. n : Offset(P, l) = Offset(P, l - 1) + Len(P[l])
  BY <1>4, OffsetSteps
<1>7. FileText(lines) = FlattenSeq(P)
  BY FileTextIs DEF P
<1>8. \A l : LineStart(lines, l) = Offset(P, l - 1)
  BY Zenon DEF LineStart, P
<1>9. LineStart(lines, 1) = 0 /\ LineStart(lines, n + 1) = Offset(P, n)
  <2>1. 1 - 1 = 0 /\ (n + 1) - 1 = n
    BY <1>1
  <2>2. QED
    BY <1>6, <1>8, <2>1
<1>10. ASSUME NEW l \in 1 .. n + 1 PROVE LineStart(lines, l) \in Nat
  <2>1. l - 1 \in 0 .. n
    BY <1>1
  <2>2. QED
    BY <1>6, <1>8, <2>1
<1>11. ASSUME NEW l \in 1 .. n
       PROVE  /\ LineStart(lines, l + 1) = LineStart(lines, l) + Len(LineText(lines[l]))
              /\ LineStart(lines, l + 1) <= Len(FileText(lines))
              /\ \A k \in 1 .. Len(LineText(lines[l])) :
                   FileText(lines)[LineStart(lines, l) + k] = LineText(lines[l])[k]
  <2>1. (l + 1) - 1 = l
    BY <1>1
  <2>2. LineStart(lines, l + 1) = Offset(P, l) /\ LineStart(lines, l) = Offset(P, l - 1) /\ P[l] = LineText(lines[l])
    BY <1>4, <1>8, <2>1
  <2>3. QED
    BY <1>5, <1>6, <1>7, <2>2
<1>12. QED
  BY <1>1, <1>5, <1>7, <1>9, <1>10, <1>11 DEF n

\* The last line may lack its end.
TextOf(text, lines) == text = FileText(lines) \/ text = Front(FileText(lines))

\* The text of a file up to the end of its last line
LEMMA TextIs ==
  ASSUME NEW t \in DOMAIN TableDefs, NEW lines, IsFile(t, lines), NEW text, TextOf(text, lines)
  PROVE  /\ text \in Seq(Nat) /\ Len(text) <= Len(FileText(lines)) /\ Len(FileText(lines)) <= Len(text) + 1
         /\ \A p \in 1 .. Len(text) : text[p] = FileText(lines)[p]
<1>1. PICK F \in Seq(Nat) : F = FileText(lines)
  BY FileIs
<1>2. CASE text = F
  BY <1>1, <1>2
<1>3. CASE text = Front(F)
  <2>1. text = SubSeq(F, 1, Len(F) - 1)
    BY <1>3 DEF Front
  <2>2. CASE Len(F) = 0
    <3>1. text = <<>>
      BY <2>1, <2>2
    <3>2. QED
      BY <1>1, <2>2, <3>1
  <2>3. CASE Len(F) > 0
    <3>1. text \in Seq(Nat) /\ Len(text) = Len(F) - 1 /\ \A p \in 1 .. Len(F) - 1 : text[p] = F[p]
      <4>0. Len(F) \in Nat /\ Len(F) - 1 \in Nat /\ Len(F) - 1 <= Len(F)
        BY <2>3
      <4>1. PICK m \in Nat : m = Len(F) - 1 /\ m <= Len(F)
        BY <4>0, Zenon
      <4>2. SubSeq(F, 1, m) \in Seq(Nat) /\ Len(SubSeq(F, 1, m)) = m /\ \A p \in 1 .. m : SubSeq(F, 1, m)[p] = F[p]
        BY <4>1
      <4>3. QED
        BY <2>1, <4>1, <4>2
    <3>2. QED
      BY <1>1, <2>3, <3>1
  <2>4. QED
    BY <2>2, <2>3
<1>4. QED
  BY <1>1, <1>2, <1>3 DEF TextOf

\* The bytes of the cth field of a line, of C fields
HasField(lines, l, c, C) ==
  /\ FieldStart(lines, l, c) \in Nat
  /\ FieldStart(lines, l, c + 1) = FieldStart(lines, l, c) + Len(Word(lines[l][c]))
  /\ FieldStart(lines, l, c + 1) <= FieldStart(lines, l, C + 1)
  /\ \A k \in 1 .. Len(Word(lines[l][c])) :
       FileText(lines)[FieldStart(lines, l, c) + k] = Word(lines[l][c])[k]

\* Where the fields of a line are in a file
LEMMA FieldPlaces ==
  ASSUME NEW t \in DOMAIN TableDefs, NEW lines, IsFile(t, lines), NEW l \in 1 .. Len(lines),
         NEW C, C = Len(TableDefs[t])
  PROVE  /\ FieldStart(lines, l, 1) = LineStart(lines, l)
         /\ LineStart(lines, l + 1) = FieldStart(lines, l, C + 1) + 1
         /\ FieldStart(lines, l, C + 1) \in Nat
         /\ FileText(lines)[FieldStart(lines, l, C + 1) + 1] = eol
         /\ \A c \in 1 .. C : HasField(lines, l, c, C)
<1> DEFINE line == lines[l]  P == FieldTexts(line)  F == FileText(lines)
<1>1. /\ Len(lines) \in Nat /\ IsLine(t, line) /\ F \in Seq(Nat) /\ LineStart(lines, l) \in Nat
      /\ LineStart(lines, l + 1) = LineStart(lines, l) + Len(LineText(line))
      /\ \A k \in 1 .. Len(LineText(line)) : F[LineStart(lines, l) + k] = LineText(line)[k]
  <2>1. Len(lines) \in Nat /\ \A i \in 1 .. Len(lines) + 1 : LineStart(lines, i) \in Nat
    BY FileIs
  <2>2. l \in 1 .. Len(lines) + 1
    BY <2>1
  <2>3. QED
    BY <2>1, <2>2, FileIs
<1>2. /\ C \in Nat \ {0}
      /\ P \in Seq(Seq(Nat)) /\ Len(P) = C
      /\ \A c \in 1 .. C : P[c] = Word(line[c])
      /\ LineText(line) \in Seq(Nat) /\ Len(LineText(line)) = Offset(P, C) + 1
      /\ LineText(line)[Offset(P, C) + 1] = eol
      /\ \A c \in 1 .. C :
           /\ Offset(P, c) <= Offset(P, C)
           /\ \A k \in 1 .. Len(Word(line[c])) : LineText(line)[Offset(P, c - 1) + k] = Word(line[c])[k]
  <2> HIDE DEF F, line
  <2>1. IsLine(t, line)
    BY <1>1
  <2>2. QED
    BY <2>1, LineIs, SMTT(30) DEF P
<1> HIDE DEF F, line
<1>3. Offset(P, 0) = 0 /\ (\A c \in 0 .. C : Offset(P, c) \in Nat)
      /\ \A c \in 1 .. C : Offset(P, c) = Offset(P, c - 1) + Len(P[c])
  BY <1>2, OffsetSteps
<1> HIDE DEF P
<1>4. PICK a \in Nat : a = LineStart(lines, l)
  BY <1>1
<1>5. \A c : FieldStart(lines, l, c) = a + Offset(P, c - 1)
  BY <1>4, Zenon DEF FieldStart, P, line
<1>6. FieldStart(lines, l, 1) = LineStart(lines, l)
  <2>1. 1 - 1 = 0 /\ a + 0 = a
    OBVIOUS
  <2>2. QED
    BY <1>3, <1>4, <1>5, <2>1
<1>7. FieldStart(lines, l, C + 1) = a + Offset(P, C) /\ Offset(P, C) \in Nat
  <2>1. (C + 1) - 1 = C /\ C \in 0 .. C
    BY <1>2
  <2>2. QED
    BY <1>3, <1>5, <2>1
<1>8. LineStart(lines, l + 1) = FieldStart(lines, l, C + 1) + 1 /\ FieldStart(lines, l, C + 1) \in Nat
  <2>1. PICK b \in Nat : b = Offset(P, C)
    BY <1>7
  <2>2. LineStart(lines, l + 1) = a + (b + 1)
    BY <1>1, <1>2, <1>4, <2>1
  <2>3. QED
    BY <1>7, <2>1, <2>2, SMTT(30)
<1>9. F[FieldStart(lines, l, C + 1) + 1] = eol
  <2>1. PICK b \in Nat : b = Offset(P, C)
    BY <1>7
  <2>2. b + 1 \in 1 .. Len(LineText(line))
    BY <1>2, <2>1
  <2>3. F[a + (b + 1)] = eol
    BY <1>1, <1>2, <1>4, <2>1, <2>2
  <2>4. FieldStart(lines, l, C + 1) + 1 = a + (b + 1)
    BY <1>7, <2>1
  <2>5. QED
    BY <2>3, <2>4
<1>10. ASSUME NEW c \in 1 .. C
       PROVE  /\ FieldStart(lines, l, c) \in Nat
              /\ FieldStart(lines, l, c + 1) = FieldStart(lines, l, c) + Len(Word(line[c]))
              /\ FieldStart(lines, l, c + 1) <= FieldStart(lines, l, C + 1)
              /\ \A k \in 1 .. Len(Word(line[c])) : F[FieldStart(lines, l, c) + k] = Word(line[c])[k]
  <2>1. c - 1 \in 0 .. C /\ c \in 0 .. C /\ (c + 1) - 1 = c /\ C \in 0 .. C
    BY <1>2
  <2>2. PICK b \in Nat : b = Offset(P, c - 1)
    BY <1>3, <2>1
  <2>3. PICK w \in Seq(Nat) : w = Word(line[c])
    <3>1. P[c] \in Seq(Nat) /\ P[c] = Word(line[c])
      BY <1>2
    <3>2. QED
      BY <3>1
  <2>4. FieldStart(lines, l, c) = a + b /\ FieldStart(lines, l, c + 1) = a + Offset(P, c) /\ Offset(P, c) = b + Len(w)
    BY <1>2, <1>3, <1>5, <2>1, <2>2, <2>3
  <2>5. b + Len(w) <= Offset(P, C)
    BY <1>2, <2>4
  <2>6. ASSUME NEW k \in 1 .. Len(w) PROVE F[FieldStart(lines, l, c) + k] = w[k]
    <3>1. LineText(line)[b + k] = w[k]
      BY <1>2, <2>2, <2>3
    <3>2. b + k \in 1 .. Len(LineText(line))
      BY <1>2, <1>7, <2>5, SMTT(30)
    <3>3. F[a + (b + k)] = LineText(line)[b + k]
      BY <1>1, <1>4, <3>2
    <3>4. FieldStart(lines, l, c) + k = a + (b + k)
      BY <2>4
    <3>5. QED
      BY <3>1, <3>3, <3>4
  <2>7. FieldStart(lines, l, c) \in Nat /\ FieldStart(lines, l, c + 1) = FieldStart(lines, l, c) + Len(w)
        /\ FieldStart(lines, l, c + 1) <= FieldStart(lines, l, C + 1)
    BY <1>7, <2>4, <2>5, SMTT(30)
  <2>8. QED
    BY <2>3, <2>6, <2>7
<1>11. ASSUME NEW c \in 1 .. C PROVE HasField(lines, l, c, C)
  BY <1>10, Zenon DEF HasField, F, line
<1>12. QED
  BY <1>6, <1>8, <1>9, <1>11, Zenon DEF F

\* The text shows each field where it begins, and the end of the line behind them,
\* unless the text ends there.
LEMMA TextShows ==
  ASSUME NEW t \in DOMAIN TableDefs, NEW lines, IsFile(t, lines), NEW text, TextOf(text, lines),
         NEW l \in 1 .. Len(lines), NEW C, C = Len(TableDefs[t])
  PROVE  /\ \A c \in 1 .. C : Shows(text, FieldStart(lines, l, c), Word(lines[l][c]))
         /\ FieldStart(lines, l, C + 1) <= Len(text)
         /\ FieldStart(lines, l, C + 1) # Len(text) => text[FieldStart(lines, l, C + 1) + 1] = eol
<1> DEFINE F == FileText(lines)  e == FieldStart(lines, l, C + 1)
<1>1. /\ text \in Seq(Nat) /\ Len(text) <= Len(F) /\ Len(F) <= Len(text) + 1 /\ Len(text) \in Nat
      /\ \A p \in 1 .. Len(text) : text[p] = F[p]
  BY TextIs
<1>2. Len(lines) \in Nat /\ F \in Seq(Nat) /\ Len(F) \in Nat /\ LineStart(lines, l + 1) <= Len(F) /\ IsLine(t, lines[l])
  BY FileIs
<1>3. /\ LineStart(lines, l + 1) = e + 1 /\ e \in Nat /\ F[e + 1] = eol
  BY FieldPlaces
<1> HIDE DEF F, e
<1>4. e <= Len(text)
  BY <1>1, <1>2, <1>3
<1>5. ASSUME e # Len(text) PROVE text[e + 1] = eol
  <2>1. e + 1 \in 1 .. Len(text)
    BY <1>1, <1>3, <1>4, <1>5
  <2>2. QED
    BY <1>1, <1>3, <2>1
<1>6. ASSUME NEW c \in 1 .. C PROVE Shows(text, FieldStart(lines, l, c), Word(lines[l][c]))
  <2>1. /\ FieldStart(lines, l, c) \in Nat
        /\ FieldStart(lines, l, c + 1) = FieldStart(lines, l, c) + Len(Word(lines[l][c]))
        /\ FieldStart(lines, l, c + 1) <= e
        /\ \A k \in 1 .. Len(Word(lines[l][c])) : F[FieldStart(lines, l, c) + k] = Word(lines[l][c])[k]
    <3>1. HasField(lines, l, c, C)
      BY FieldPlaces
    <3>2. QED
      BY <3>1, Zenon DEF HasField, F, e
  <2>2. Word(lines[l][c]) \in Seq(Nat)
    <3>1. IsField(t, c, lines[l][c])
      <4>1. TableDefs[t] \in Seq(ImportTypes)
        BY CatalogTables DEF IsTable
      <4>2. c \in DOMAIN TableDefs[t]
        BY <4>1
      <4>3. QED
        BY <1>2, <4>2 DEF IsLine
    <3>2. QED
      BY <3>1, WordOfField
  <2>3. PICK o \in Nat, w \in Seq(Nat) : o = FieldStart(lines, l, c) /\ w = Word(lines[l][c])
    BY <2>1, <2>2
  <2>4. o + Len(w) <= Len(text)
    BY <1>1, <1>3, <1>4, <2>1, <2>3, SMTT(30)
  <2>5. ASSUME NEW k \in 1 .. Len(w) PROVE text[o + k] = w[k]
    <3>1. o + k \in 1 .. Len(text)
      <4>1. PICK m \in Nat, n \in Nat : m = Len(w) /\ n = Len(text)
        BY <1>1
      <4>2. o + m <= n /\ k \in 1 .. m
        BY <2>4, <4>1
      <4>3. o + k \in 1 .. n
        BY <4>2
      <4>4. QED
        BY <4>1, <4>3
    <3>2. F[o + k] = w[k]
      BY <2>1, <2>3
    <3>3. QED
      BY <1>1, <3>1, <3>2
  <2>6. Shows(text, o, w)
    BY <1>1, <2>4, <2>5 DEF Shows
  <2>7. QED
    BY <2>3, <2>6
<1>7. QED
  BY <1>4, <1>5, <1>6 DEF e

\* Where the lth line begins, or the text ends
LinePos(text, lines, l) ==
  IF LineStart(lines, l) + 1 <= Limit(text) THEN LineStart(lines, l) + 1 ELSE Limit(text)

\* Reading begins with the first line and ends behind the last.
LEMMA LineBegins ==
  ASSUME NEW t \in DOMAIN TableDefs, NEW lines, IsFile(t, lines), NEW text, TextOf(text, lines)
  PROVE  /\ LinePos(text, lines, 1) = 1
         /\ LinePos(text, lines, Len(lines) + 1) = Limit(text)
         /\ \A l \in 1 .. Len(lines) : LinePos(text, lines, l) = FieldStart(lines, l, 1) + 1
<1> DEFINE F == FileText(lines)
<1>1. text \in Seq(Nat) /\ Len(text) <= Len(F) /\ Len(F) <= Len(text) + 1 /\ Len(text) \in Nat
  BY TextIs
<1>2. Len(lines) \in Nat /\ F \in Seq(Nat) /\ Len(F) \in Nat /\ LineStart(lines, 1) = 0
      /\ LineStart(lines, Len(lines) + 1) = Len(F)
  BY FileIs
<1>3. Limit(text) = Len(text) + 1 /\ Limit(text) \in Nat
  BY <1>1 DEF Limit
<1> HIDE DEF F
<1>4. LinePos(text, lines, 1) = 1
  BY <1>1, <1>2, <1>3 DEF LinePos
<1>5. LinePos(text, lines, Len(lines) + 1) = Limit(text)
  BY <1>1, <1>2, <1>3 DEF LinePos
<1>6. ASSUME NEW l \in 1 .. Len(lines) PROVE LinePos(text, lines, l) = FieldStart(lines, l, 1) + 1
  <2>1. PICK C : C = Len(TableDefs[t])
    OBVIOUS
  <2>2. C \in Nat /\ 1 \in 1 .. C
    BY <2>1, CatalogTables DEF IsTable
  <2>3. FieldStart(lines, l, 1) = LineStart(lines, l) /\ HasField(lines, l, 1, C) /\ FieldStart(lines, l, C + 1) \in Nat
    BY <2>1, <2>2, FieldPlaces
  <2>4. Shows(text, FieldStart(lines, l, 1), Word(lines[l][1]))
    BY <2>1, <2>2, TextShows
  <2>5. FieldStart(lines, l, 1) \in Nat /\ FieldStart(lines, l, 1) <= Len(text)
    BY <2>4 DEF Shows
  <2>6. LineStart(lines, l) + 1 <= Limit(text)
    BY <1>1, <1>3, <2>3, <2>5
  <2>7. QED
    BY <2>3, <2>6 DEF LinePos
<1>7. QED
  BY <1>4, <1>5, <1>6

\* The reader returns the value of a field and goes to the next.
LEMMA ReadsField ==
  ASSUME NEW t \in DOMAIN TableDefs, NEW lines, IsFile(t, lines), NEW text, TextOf(text, lines),
         NEW l \in 1 .. Len(lines), NEW c \in 1 .. Len(TableDefs[t]), NEW pos1, pos1 = FieldStart(lines, l, c) + 1,
         NEW v, v = parse_value(TableDefs[t][c], text, FieldAt(text, pos1))
  PROVE  /\ pos1 < Limit(text)
         /\ v.val = Stored(TableDefs[t][c], lines[l][c].val)
         /\ Behind(text, v.end) = FieldStart(lines, l, c + 1) + 1
<1> DEFINE type == TableDefs[t][c]  field == lines[l][c]  w == Word(field)  o == FieldStart(lines, l, c)
<1>1. PICK C : C = Len(TableDefs[t])
  OBVIOUS
<1>2. C \in Nat /\ c \in 1 .. C /\ type \in ImportTypes /\ c \in DOMAIN TableDefs[t]
  BY <1>1, CatalogTables DEF IsTable
<1>3. IsField(t, c, field)
  BY <1>2, FileIs DEF IsLine
<1>4. /\ IsWord(w) /\ w \in Seq(Nat) /\ Len(w) = Len(field.text) + 1 /\ field.text \in Seq(Nat)
      /\ (field.text # <<>> => w[1] # delim) /\ (field.text = <<>> => w[1] = delim /\ Len(w) = 1)
  BY <1>3, WordOfField, SMTT(30)
<1>5. Shows(text, o, w)
  BY <1>1, <1>2, TextShows
<1>6. HasField(lines, l, c, C)
  BY <1>1, <1>2, FieldPlaces
<1>7. o \in Nat /\ FieldStart(lines, l, c + 1) = o + Len(w)
  BY <1>6, Zenon DEF HasField
<1>8. /\ field.text = <<>> => c = C /\ type = "string"
      /\ parse_value(type, w, 1) = [val |-> Stored(type, field.val), end |-> Len(field.text) + 1]
  <2>1. field.text = <<>> => c = C /\ type = "string"
    BY <1>1, <1>3, Zenon DEF IsField
  <2>2. parse_value(type, w, 1) = [val |-> Stored(type, field.val), end |-> Len(field.text) + 1]
    BY <1>2, <1>3, FieldAlone, Zenon
  <2>3. QED
    BY <2>1, <2>2
<1>9. FieldStart(lines, l, C + 1) <= Len(text)
      /\ (FieldStart(lines, l, C + 1) # Len(text) => text[FieldStart(lines, l, C + 1) + 1] = eol)
  BY <1>1, <1>2, TextShows
<1> HIDE DEF type, field, w, o
<1>10. /\ text \in Seq(Nat) /\ Len(text) \in Nat /\ o + Len(w) <= Len(text) /\ Len(w) \in Nat /\ Len(w) > 0
       /\ \A k \in 1 .. Len(w) : text[o + k] = w[k]
  <2>1. /\ text \in Seq(Nat) /\ w \in Seq(Nat) /\ o + Len(w) <= Len(text)
        /\ \A k \in 1 .. Len(w) : text[o + k] = w[k]
    BY <1>5, Zenon DEF Shows
  <2>2. Len(w) > 0
    BY <1>4, Zenon DEF IsWord
  <2>3. Len(text) \in Nat /\ Len(w) \in Nat
    BY <2>1
  <2>4. QED
    BY <2>1, <2>2, <2>3, Zenon
<1>11. pos1 = o + 1 /\ v = parse_value(type, text, FieldAt(text, o + 1))
  BY DEF o, type
<1>12. pos1 < Limit(text) /\ Limit(text) = Len(text) + 1
  BY <1>7, <1>10, <1>11 DEF Limit
<1>13. text[o + 1] = w[1] /\ text[o + Len(w)] = delim /\ delim # eol
  <2>1. 1 \in 1 .. Len(w) /\ Len(w) \in 1 .. Len(w)
    BY <1>10
  <2>2. w[Len(w)] = delim
    BY <1>4, Zenon DEF IsWord
  <2>3. delim # eol
    BY DEF delim, eol
  <2>4. QED
    BY <1>10, <2>1, <2>2, <2>3, Zenon
<1>14. CASE field.text # <<>>
  <2>1. FieldAt(text, o + 1) = o + 1
    BY <1>4, <1>13, <1>14 DEF FieldAt
  <2>2. ReadsAlike(type, text, o, w)
    BY <1>2, <1>4, <1>5, FieldsReadAlike
  <2>3. parse_value(type, w, 1).val = Stored(type, field.val) /\ parse_value(type, w, 1).end = Len(w)
    BY <1>4, <1>8, SMTT(30)
  <2>4. v = [val |-> Stored(type, field.val), end |-> o + Len(w)]
    BY <1>11, <2>1, <2>2, <2>3, Zenon DEF ReadsAlike
  <2>5. v.val = Stored(type, field.val) /\ v.end = o + Len(w)
    BY <2>4
  <2>6. Behind(text, o + Len(w)) = (o + Len(w)) + 1
    <3>1. o + Len(w) < Limit(text)
      BY <1>7, <1>10, <1>12
    <3>2. QED
      BY <1>13, <3>1 DEF Behind
  <2>7. QED
    BY <1>7, <1>12, <2>5, <2>6, Zenon DEF type, field
<1>15. CASE field.text = <<>>
  <2>1. Len(w) = 1 /\ w[1] = delim /\ c = C /\ type = "string"
    BY <1>4, <1>8, <1>15
  <2>2. FieldAt(text, o + 1) = (o + 1) + 1
    BY <1>13, <2>1 DEF FieldAt
  <2>3. FieldStart(lines, l, C + 1) = o + 1
    BY <1>7, <2>1
  <2>4. PICK e \in Nat : e = (o + 1) + 1
    BY <1>7
  <2>5. e \in 1 .. Limit(text) /\ e \in e .. Limit(text) /\ (e # Limit(text) => text[e] = eol) /\ Limit(text) \in Nat
    <3>1. e = FieldStart(lines, l, C + 1) + 1 /\ e = o + 2
      BY <1>7, <2>3, <2>4
    <3>2. o + 1 <= Len(text) /\ (o + 1 # Len(text) => text[(o + 1) + 1] = eol)
      BY <1>9, <2>3, Zenon
    <3>3. e <= Limit(text) /\ e > 0 /\ Limit(text) \in Nat
      <4>1. PICK n \in Nat : n = Len(text)
        BY <1>10
      <4>2. Limit(text) = n + 1 /\ o + 1 <= n
        BY <1>12, <3>2, <4>1
      <4>3. QED
        BY <1>7, <3>1, <4>2
    <3>4. e # Limit(text) => text[e] = eol
      BY <1>7, <1>10, <1>12, <2>4, <3>1, <3>2
    <3>5. QED
      BY <3>3, <3>4
  <2>6. First(text, e, {delim, eol}) = e
    <3>1. ~\E k \in e .. e - 1 : TRUE
      OBVIOUS
    <3>2. e # Limit(text) => text[e] \in {delim, eol}
      BY <2>5
    <3>3. QED
      BY <1>10, <2>5, <3>1, <3>2, FirstUnique
  <2>7. find(text, e, {delim, eol}) = e
    BY <1>10, <2>5, <2>6, FindReturnsTheFirst
  <2>8. SubSeq(text, e, e - 1) = <<>>
    BY <1>10
  <2>9. parse_string(text, e) = [val |-> <<>>, end |-> e]
    BY <2>7, <2>8, Zenon DEF parse_string
  <2>10. v = [val |-> <<>>, end |-> e]
    <3>1. parse_value("string", text, e) = parse_string(text, e)
      BY DEF parse_value
    <3>2. QED
      BY <1>11, <2>1, <2>2, <2>4, <2>9, <3>1, Zenon
  <2>11. v.val = <<>> /\ v.end = e
    BY <2>10
  <2>12. Behind(text, e) = e
    BY <2>5 DEF Behind
  <2>13. Stored(type, field.val) = <<>>
    <3>1. Shows(w, 0, w)
      BY <1>4, <1>10 DEF Shows
    <3>2. find(w, 1, {delim, eol}) = 1
      BY <1>4, <2>1, <3>1, FindsWord
    <3>3. SubSeq(w, 1, 1 - 1) = <<>>
      BY <1>4
    <3>4. parse_string(w, 1) = [val |-> <<>>, end |-> 1]
      BY <3>2, <3>3, Zenon DEF parse_string
    <3>5. parse_value(type, w, 1) = parse_string(w, 1)
      BY <2>1 DEF parse_value
    <3>6. parse_value(type, w, 1).val = <<>>
      BY <3>4, <3>5
    <3>7. QED
      BY <1>8, <3>6
  <2>14. QED
    BY <1>12, <2>1, <2>3, <2>4, <2>11, <2>12, <2>13, Zenon DEF type, field
<1>16. QED
  BY <1>14, <1>15

\* And from the end of a line to the next
LEMMA EndsLine ==
  ASSUME NEW t \in DOMAIN TableDefs, NEW lines, IsFile(t, lines), NEW text, TextOf(text, lines),
         NEW l \in 1 .. Len(lines), NEW pos1, pos1 = FieldStart(lines, l, Len(TableDefs[t]) + 1) + 1
  PROVE  NextLine(text, pos1) = LinePos(text, lines, l + 1)
<1> DEFINE F == FileText(lines)
<1>1. PICK C : C = Len(TableDefs[t])
  OBVIOUS
<1>2. PICK e : e = FieldStart(lines, l, C + 1)
  OBVIOUS
<1>3. e <= Len(text) /\ (e # Len(text) => text[e + 1] = eol)
  BY <1>1, <1>2, TextShows
<1>4. e \in Nat /\ LineStart(lines, l + 1) = e + 1
  BY <1>1, <1>2, FieldPlaces
<1>5. text \in Seq(Nat) /\ Len(text) \in Nat /\ Limit(text) = Len(text) + 1
  BY TextIs DEF Limit
<1>6. pos1 = e + 1
  BY <1>1, <1>2
<1>7. NextLine(text, pos1) = IF pos1 # Limit(text) THEN pos1 + 1 ELSE pos1
  <2>1. ~(pos1 < Limit(text) /\ text[pos1] # eol)
    BY <1>3, <1>4, <1>5, <1>6, SMTT(30)
  <2>2. QED
    BY <2>1, Zenon DEF NextLine
<1>8. LinePos(text, lines, l + 1) = IF (e + 1) + 1 <= Limit(text) THEN (e + 1) + 1 ELSE Limit(text)
  BY <1>4 DEF LinePos
<1>9. QED
  BY <1>3, <1>4, <1>5, <1>6, <1>7, <1>8, SMTT(30)

-----------------------------------------------------------------------------
(* The import                                                               *)

IsInput(t, files) == IsList(files) /\ \A f \in DOMAIN files : IsFile(t, files[f])

\* The place of a file's lines among all lines
FileAmong(files, lines, f) ==
  /\ Offset(files, f - 1) \in Nat /\ Offset(files, f) \in Nat /\ Len(files[f]) \in Nat
  /\ Offset(files, f) = Offset(files, f - 1) + Len(files[f]) /\ Offset(files, f) <= Len(lines)
  /\ \A l \in 1 .. Len(files[f]) : lines[Offset(files, f - 1) + l] = files[f][l]

\* All files of a table, as lines
LEMMA InputIs ==
  ASSUME NEW t \in DOMAIN TableDefs, NEW files, IsInput(t, files), NEW lines, lines = FlattenSeq(files)
  PROVE  /\ Len(files) \in Nat /\ DOMAIN files = 1 .. Len(files) /\ \A f \in 1 .. Len(files) : IsFile(t, files[f])
         /\ lines \in Seq({lines[r] : r \in 1 .. Len(lines)}) /\ Len(lines) \in Nat
         /\ \A r \in 1 .. Len(lines) : IsLine(t, lines[r])
         /\ Offset(files, 0) = 0 /\ Offset(files, Len(files)) = Len(lines)
         /\ \A f \in 0 .. Len(files) : Offset(files, f) \in Nat
         /\ \A f \in 1 .. Len(files) : FileAmong(files, lines, f)
<1> DEFINE n == Len(files)
           X == UNION {{files[f][l] : l \in 1 .. Len(files[f])} : f \in 1 .. n}
<1>1. n \in Nat /\ files = [f \in 1 .. n |-> files[f]] /\ DOMAIN files = 1 .. n /\ \A f \in 1 .. n : IsFile(t, files[f])
  BY DEF IsInput, IsList
<1>2. ASSUME NEW f \in 1 .. n PROVE files[f] \in Seq(X)
  <2>1. Len(files[f]) \in Nat /\ files[f] = [l \in 1 .. Len(files[f]) |-> files[f][l]]
    BY <1>1 DEF IsFile, IsList
  <2>2. \A l \in 1 .. Len(files[f]) : files[f][l] \in X
    OBVIOUS
  <2> HIDE DEF X
  <2>3. PICK s : s = files[f]
    OBVIOUS
  <2>4. Len(s) \in Nat /\ s = [l \in 1 .. Len(s) |-> s[l]] /\ \A l \in 1 .. Len(s) : s[l] \in X
    BY <2>1, <2>2, <2>3, Zenon
  <2>5. s \in Seq(X)
    BY <2>4
  <2>6. QED
    BY <2>3, <2>5
<1>3. \A x \in X : IsLine(t, x)
  <2>1. SUFFICES ASSUME NEW f \in 1 .. n, NEW l \in 1 .. Len(files[f]) PROVE IsLine(t, files[f][l])
    OBVIOUS
  <2>2. IsFile(t, files[f])
    BY <1>1
  <2>3. QED
    BY <2>2, FileIs
<1> HIDE DEF X
<1>4. files \in Seq(Seq(X))
  <2> HIDE DEF n
  <2>1. QED
    BY <1>1, <1>2 DEF n
<1>5. /\ lines \in Seq(X) /\ Len(lines) = Offset(files, n)
      /\ \A f \in 1 .. n :
           /\ Offset(files, f) <= Len(lines)
           /\ \A l \in 1 .. Len(files[f]) : lines[Offset(files, f - 1) + l] = files[f][l]
  BY <1>4, FlattenPlaces
<1>6. Offset(files, 0) = 0 /\ (\A f \in 0 .. n : Offset(files, f) \in Nat)
      /\ \A f \in 1 .. n : Offset(files, f) = Offset(files, f - 1) + Len(files[f])
  BY <1>4, OffsetSteps
<1>7. Len(lines) \in Nat /\ (\A r \in 1 .. Len(lines) : lines[r] \in X)
         /\ lines \in Seq({lines[r] : r \in 1 .. Len(lines)})
  BY <1>5
<1>8. \A r \in 1 .. Len(lines) : IsLine(t, lines[r])
  BY <1>3, <1>7
<1>9. ASSUME NEW f \in 1 .. n PROVE FileAmong(files, lines, f)
  <2>1. f - 1 \in 0 .. n /\ f \in 0 .. n
    BY <1>1
  <2>2. Len(files[f]) \in Nat
    BY <1>1, FileIs
  <2>3. Offset(files, f - 1) \in Nat /\ Offset(files, f) \in Nat
    BY <1>6, <2>1
  <2>4. QED
    BY <1>5, <1>6, <2>2, <2>3, Zenon DEF FileAmong
<1>10. QED
  BY <1>1, <1>5, <1>6, <1>7, <1>8, <1>9, Zenon

TextsOf(files, ts) == Len(ts) = Len(files) /\ \A f \in 1 .. Len(files) : TextOf(ts[f], files[f])

\* The line of file f that follows n lines
LineAfter(files, f, n) == (n - Offset(files, f - 1)) + 1

\* Reading has come to column c of a line of file f, at p, and n lines were read.
ReadsAt(t, files, ts, f, c, p, n) ==
  /\ f \in 1 .. Len(files) + 1 /\ c \in 1 .. Len(TableDefs[t]) + 1 /\ n \in Nat
  /\ f <= Len(files) =>
       /\ LineAfter(files, f, n) \in 1 .. Len(files[f]) + 1
       /\ c = 1 => p = LinePos(ts[f], files[f], LineAfter(files, f, n))
       /\ c > 1 => /\ LineAfter(files, f, n) <= Len(files[f])
                   /\ p = FieldStart(files[f], LineAfter(files, f, n), c) + 1
  /\ f > Len(files) => n = Len(FlattenSeq(files)) /\ c = 1

\* What is stored of the first n lines
Value(t, lines, c, r) == Stored(TableDefs[t][c], lines[r][c].val)
Filled(t, lines, c, n) == [r \in 1 .. n |-> Value(t, lines, c, r)]

\* A value more
LEMMA FilledGrows ==
  ASSUME NEW t, NEW lines, NEW c, NEW n \in Nat
  PROVE  Append(Filled(t, lines, c, n), Value(t, lines, c, n + 1)) = Filled(t, lines, c, n + 1)
<1> DEFINE X == {Value(t, lines, c, r) : r \in 1 .. n + 1}
<1>1. PICK s : s = Filled(t, lines, c, n)
  OBVIOUS
<1>2. PICK e : e = Value(t, lines, c, n + 1)
  OBVIOUS
<1>3. \A r \in 1 .. n : Value(t, lines, c, r) \in X
  OBVIOUS
<1>4. e \in X
  BY <1>2
<1> HIDE DEF X
<1>5. s \in Seq(X) /\ Len(s) = n /\ \A r \in 1 .. n : s[r] = Value(t, lines, c, r)
  BY <1>1, <1>3 DEF Filled
<1>6. Append(s, e) = [r \in 1 .. n + 1 |-> IF r = n + 1 THEN e ELSE s[r]]
  <2>1. PICK a : a = Append(s, e)
    OBVIOUS
  <2>2. a \in Seq(X) /\ Len(a) = n + 1 /\ a[n + 1] = e /\ \A r \in 1 .. n : a[r] = s[r]
    BY <1>4, <1>5, <2>1
  <2>3. a = [r \in 1 .. n + 1 |-> a[r]]
    BY <2>2
  <2>4. \A r \in 1 .. n + 1 : a[r] = IF r = n + 1 THEN e ELSE s[r]
    BY <2>2
  <2>5. QED
    BY <2>1, <2>3, <2>4
<1>7. \A r \in 1 .. n + 1 : (IF r = n + 1 THEN e ELSE s[r]) = Value(t, lines, c, r)
  BY <1>2, <1>5
<1>8. QED
  BY <1>1, <1>2, <1>6, <1>7, Zenon DEF Filled

\* Reading starts before the first line.
LEMMA ReadingStarts ==
  ASSUME NEW t \in DOMAIN TableDefs, NEW files, IsInput(t, files), NEW ts, TextsOf(files, ts)
  PROVE  ReadsAt(t, files, ts, 1, 1, 1, 0)
<1>1. PICK lines : lines = FlattenSeq(files)
  OBVIOUS
<1>2. /\ Len(files) \in Nat /\ Offset(files, 0) = 0 /\ Offset(files, Len(files)) = Len(lines)
      /\ \A f \in 1 .. Len(files) : IsFile(t, files[f])
  BY <1>1, InputIs, Zenon
<1>3. Len(TableDefs[t]) \in Nat
  BY CatalogTables DEF IsTable
<1>4. LineAfter(files, 1, 0) = 1
  <2>1. 1 - 1 = 0 /\ (0 - 0) + 1 = 1
    OBVIOUS
  <2>2. QED
    BY <1>2, <2>1, Zenon DEF LineAfter
<1>5. ASSUME 1 <= Len(files) PROVE 1 \in 1 .. Len(files[1]) + 1 /\ LinePos(ts[1], files[1], 1) = 1
  <2>1. 1 \in 1 .. Len(files)
    BY <1>2, <1>5
  <2>2. IsFile(t, files[1]) /\ TextOf(ts[1], files[1])
    BY <1>2, <2>1 DEF TextsOf
  <2>3. Len(files[1]) \in Nat
    BY <2>2, FileIs
  <2>4. LinePos(ts[1], files[1], 1) = 1
    BY <2>2, LineBegins
  <2>5. QED
    BY <2>3, <2>4
<1>6. ASSUME 1 > Len(files) PROVE 0 = Len(lines)
  <2>1. Len(files) = 0
    BY <1>2, <1>6
  <2>2. QED
    BY <1>2, <2>1
<1>7. 1 \in 1 .. Len(files) + 1 /\ 1 \in 1 .. Len(TableDefs[t]) + 1 /\ 0 \in Nat /\ ~(1 > 1)
  BY <1>2, <1>3
<1>8. QED
  BY <1>1, <1>4, <1>5, <1>6, <1>7, Zenon DEF ReadsAt

\* Where reading is, it is before a field unless the line or the file ends.
LEMMA BeforeField ==
  ASSUME NEW t \in DOMAIN TableDefs, NEW files, IsInput(t, files), NEW ts, TextsOf(files, ts),
         NEW f, NEW c, NEW p, NEW n, ReadsAt(t, files, ts, f, c, p, n), f <= Len(files), c <= Len(TableDefs[t]),
         NEW l, l = LineAfter(files, f, n)
  PROVE  /\ f \in 1 .. Len(files) /\ c \in 1 .. Len(TableDefs[t]) /\ IsFile(t, files[f]) /\ TextOf(ts[f], files[f])
         /\ \/ l \in 1 .. Len(files[f]) /\ p = FieldStart(files[f], l, c) + 1 /\ p < Limit(ts[f])
            \/ l = Len(files[f]) + 1 /\ c = 1 /\ p = Limit(ts[f]) /\ ~(p < Limit(ts[f]))
<1>1. /\ Len(files) \in Nat /\ \A i \in 1 .. Len(files) : IsFile(t, files[i])
  <2>1. PICK lines : lines = FlattenSeq(files)
    OBVIOUS
  <2>2. QED
    BY <2>1, InputIs, Zenon
<1>2. Len(TableDefs[t]) \in Nat
  BY CatalogTables DEF IsTable
<1>3. /\ f \in 1 .. Len(files) + 1 /\ c \in 1 .. Len(TableDefs[t]) + 1
      /\ l \in 1 .. Len(files[f]) + 1
      /\ c = 1 => p = LinePos(ts[f], files[f], l)
      /\ c > 1 => l <= Len(files[f]) /\ p = FieldStart(files[f], l, c) + 1
  BY Zenon DEF ReadsAt
<1>4. f \in 1 .. Len(files) /\ c \in 1 .. Len(TableDefs[t])
  BY <1>1, <1>2, <1>3
<1>5. IsFile(t, files[f]) /\ TextOf(ts[f], files[f])
  BY <1>1, <1>4 DEF TextsOf
<1>6. /\ Len(files[f]) \in Nat
      /\ LinePos(ts[f], files[f], Len(files[f]) + 1) = Limit(ts[f])
      /\ \A i \in 1 .. Len(files[f]) : LinePos(ts[f], files[f], i) = FieldStart(files[f], i, 1) + 1
  BY <1>5, FileIs, LineBegins, ZenonT(30)
<1>7. CASE l <= Len(files[f])
  <2>1. l \in 1 .. Len(files[f])
    BY <1>3, <1>6, <1>7
  <2>2. p = FieldStart(files[f], l, c) + 1
    <3>1. CASE c = 1
      BY <1>3, <1>6, <2>1, <3>1
    <3>2. CASE c > 1
      BY <1>3, <3>2
    <3>3. QED
      BY <1>2, <1>4, <3>1, <3>2
  <2>3. p < Limit(ts[f])
    BY <1>4, <1>5, <2>1, <2>2, ReadsField
  <2>4. QED
    BY <1>4, <1>5, <2>1, <2>2, <2>3
<1>8. CASE ~(l <= Len(files[f]))
  <2>1. l = Len(files[f]) + 1
    BY <1>3, <1>6, <1>8
  <2>2. c = 1
    BY <1>2, <1>3, <1>4, <1>8
  <2>3. p = Limit(ts[f])
    BY <1>3, <1>6, <2>1, <2>2
  <2>4. Limit(ts[f]) \in Nat
    BY <1>5, TextIs DEF Limit
  <2>5. ~(p < Limit(ts[f]))
    BY <2>3, <2>4
  <2>6. QED
    BY <1>4, <1>5, <2>1, <2>2, <2>3, <2>5, Zenon
<1>9. QED
  BY <1>7, <1>8

\* The lth line of a file among all lines
LEMMA LineAmong ==
  ASSUME NEW t \in DOMAIN TableDefs, NEW files, IsInput(t, files), NEW f \in 1 .. Len(files), NEW n \in Nat,
         NEW l, l = LineAfter(files, f, n), l \in 1 .. Len(files[f]),
         NEW lines, lines = FlattenSeq(files)
  PROVE  n + 1 \in 1 .. Len(lines) /\ lines[n + 1] = files[f][l] /\ LineAfter(files, f, n + 1) = l + 1
<1>1. FileAmong(files, lines, f) /\ Len(lines) \in Nat
  BY InputIs
<1>2. PICK a \in Nat, b \in Nat, m \in Nat : a = Offset(files, f - 1) /\ b = Offset(files, f) /\ m = Len(files[f])
  BY <1>1, Zenon DEF FileAmong
<1>3. b = a + m /\ b <= Len(lines) /\ lines[a + l] = files[f][l]
  BY <1>1, <1>2, Zenon DEF FileAmong
<1>4. l = (n - a) + 1 /\ LineAfter(files, f, n + 1) = ((n + 1) - a) + 1
  BY <1>2, Zenon DEF LineAfter
<1>5. l \in 1 .. m
  BY <1>2
<1>6. a + l = n + 1 /\ n + 1 <= b /\ ((n + 1) - a) + 1 = l + 1
  BY <1>3, <1>4, <1>5, SMTT(30)
<1>7. QED
  BY <1>1, <1>3, <1>4, <1>6

\* ReadColumn reads the value of the field and comes to the next one.
LEMMA FieldStep ==
  ASSUME NEW t \in DOMAIN TableDefs, NEW files, IsInput(t, files), NEW ts, TextsOf(files, ts),
         NEW f, NEW c, NEW p, NEW n, ReadsAt(t, files, ts, f, c, p, n), f <= Len(files), c <= Len(TableDefs[t]),
         p < Limit(ts[f]), NEW v, v = parse_value(TableDefs[t][c], ts[f], FieldAt(ts[f], p)),
         NEW lines, lines = FlattenSeq(files)
  PROVE  /\ ReadsAt(t, files, ts, f, c + 1, Behind(ts[f], v.end), n)
         /\ v.val = Value(t, lines, c, n + 1) /\ c \in 1 .. Len(TableDefs[t]) /\ n + 1 \in 1 .. Len(lines)
<1>1. PICK l : l = LineAfter(files, f, n)
  OBVIOUS
<1>2. /\ f \in 1 .. Len(files) /\ c \in 1 .. Len(TableDefs[t]) /\ IsFile(t, files[f]) /\ TextOf(ts[f], files[f])
      /\ l \in 1 .. Len(files[f]) /\ p = FieldStart(files[f], l, c) + 1
  <2>1. /\ f \in 1 .. Len(files) /\ c \in 1 .. Len(TableDefs[t]) /\ IsFile(t, files[f]) /\ TextOf(ts[f], files[f])
        /\ \/ l \in 1 .. Len(files[f]) /\ p = FieldStart(files[f], l, c) + 1 /\ p < Limit(ts[f])
           \/ l = Len(files[f]) + 1 /\ c = 1 /\ p = Limit(ts[f]) /\ ~(p < Limit(ts[f]))
    BY <1>1, BeforeField
  <2>2. QED
    BY <2>1, Zenon
<1>3. Len(files) \in Nat
  BY InputIs
<1>4. Len(TableDefs[t]) \in Nat
  BY CatalogTables DEF IsTable
<1>5. n \in Nat /\ f \in 1 .. Len(files) + 1
  BY Zenon DEF ReadsAt
<1>6. v.val = Stored(TableDefs[t][c], files[f][l][c].val) /\ Behind(ts[f], v.end) = FieldStart(files[f], l, c + 1) + 1
  BY <1>2, ReadsField
<1>7. lines[n + 1] = files[f][l] /\ n + 1 \in 1 .. Len(lines)
  BY <1>1, <1>2, <1>5, LineAmong, SMTT(30)
<1>8. v.val = Value(t, lines, c, n + 1)
  BY <1>6, <1>7, Zenon DEF Value
<1>9. Len(files[f]) \in Nat
  BY <1>2, FileIs
<1>10. /\ c + 1 \in 1 .. Len(TableDefs[t]) + 1 /\ c + 1 # 1 /\ l \in 1 .. Len(files[f]) + 1 /\ l <= Len(files[f])
       /\ ~(f > Len(files))
  BY <1>2, <1>3, <1>4, <1>9
<1>11. ReadsAt(t, files, ts, f, c + 1, Behind(ts[f], v.end), n)
  BY <1>1, <1>5, <1>6, <1>10, Zenon DEF ReadsAt
<1>12. QED
  BY <1>2, <1>7, <1>8, <1>11

\* EndLine comes to the next line.
LEMMA LineStep ==
  ASSUME NEW t \in DOMAIN TableDefs, NEW files, IsInput(t, files), NEW ts, TextsOf(files, ts),
         NEW f, NEW c, NEW p, NEW n, ReadsAt(t, files, ts, f, c, p, n), f <= Len(files), c > Len(TableDefs[t])
  PROVE  ReadsAt(t, files, ts, f, 1, NextLine(ts[f], p), n + 1) /\ c = Len(TableDefs[t]) + 1
<1>1. PICK l, lines : l = LineAfter(files, f, n) /\ lines = FlattenSeq(files)
  OBVIOUS
<1>2. Len(files) \in Nat /\ \A i \in 1 .. Len(files) : IsFile(t, files[i])
  BY <1>1, InputIs, Zenon
<1>3. Len(TableDefs[t]) \in Nat /\ Len(TableDefs[t]) > 0
  BY CatalogTables DEF IsTable
<1>4. /\ f \in 1 .. Len(files) + 1 /\ c \in 1 .. Len(TableDefs[t]) + 1 /\ n \in Nat
      /\ l \in 1 .. Len(files[f]) + 1
      /\ c > 1 => l <= Len(files[f]) /\ p = FieldStart(files[f], l, c) + 1
  BY <1>1, Zenon DEF ReadsAt
<1>5. f \in 1 .. Len(files) /\ c = Len(TableDefs[t]) + 1 /\ c > 1 /\ ~(f > Len(files)) /\ ~(1 > 1)
  BY <1>2, <1>3, <1>4
<1>6. IsFile(t, files[f]) /\ TextOf(ts[f], files[f])
  BY <1>2, <1>5 DEF TextsOf
<1>7. Len(files[f]) \in Nat
  BY <1>6, FileIs
<1>8. l \in 1 .. Len(files[f]) /\ p = FieldStart(files[f], l, Len(TableDefs[t]) + 1) + 1
  BY <1>4, <1>5, <1>7
<1>9. NextLine(ts[f], p) = LinePos(ts[f], files[f], l + 1)
  BY <1>6, <1>8, EndsLine
<1>10. LineAfter(files, f, n + 1) = l + 1
  BY <1>1, <1>4, <1>5, <1>8, LineAmong, SMTT(30)
<1>11. l + 1 \in 1 .. Len(files[f]) + 1 /\ 1 \in 1 .. Len(TableDefs[t]) + 1 /\ n + 1 \in Nat
  BY <1>3, <1>4, <1>7, <1>8, SMTT(30)
<1>12. ReadsAt(t, files, ts, f, 1, NextLine(ts[f], p), n + 1)
  BY <1>4, <1>5, <1>9, <1>10, <1>11, Zenon DEF ReadsAt
<1>13. QED
  BY <1>5, <1>12

\* EndFile comes to the next file.
LEMMA FileStep ==
  ASSUME NEW t \in DOMAIN TableDefs, NEW files, IsInput(t, files), NEW ts, TextsOf(files, ts),
         NEW f, NEW c, NEW p, NEW n, ReadsAt(t, files, ts, f, c, p, n), f <= Len(files), c <= Len(TableDefs[t]),
         p = Limit(ts[f])
  PROVE  ReadsAt(t, files, ts, f + 1, 1, 1, n) /\ c = 1
<1>1. PICK l, lines : l = LineAfter(files, f, n) /\ lines = FlattenSeq(files)
  OBVIOUS
<1>2. /\ f \in 1 .. Len(files) /\ IsFile(t, files[f]) /\ TextOf(ts[f], files[f])
      /\ \/ p < Limit(ts[f])
         \/ l = Len(files[f]) + 1 /\ c = 1
  <2>1. /\ f \in 1 .. Len(files) /\ c \in 1 .. Len(TableDefs[t]) /\ IsFile(t, files[f]) /\ TextOf(ts[f], files[f])
        /\ \/ l \in 1 .. Len(files[f]) /\ p = FieldStart(files[f], l, c) + 1 /\ p < Limit(ts[f])
           \/ l = Len(files[f]) + 1 /\ c = 1 /\ p = Limit(ts[f]) /\ ~(p < Limit(ts[f]))
    BY <1>1, BeforeField
  <2>2. QED
    BY <2>1, Zenon
<1>3. /\ Len(files) \in Nat /\ (\A i \in 1 .. Len(files) : IsFile(t, files[i]))
      /\ Offset(files, Len(files)) = Len(lines)
  BY <1>1, InputIs, Zenon
<1>4. Len(TableDefs[t]) \in Nat /\ Len(TableDefs[t]) > 0
  BY CatalogTables DEF IsTable
<1>5. n \in Nat
  BY Zenon DEF ReadsAt
<1>6. Limit(ts[f]) \in Nat
  BY <1>2, TextIs DEF Limit
<1>7. l = Len(files[f]) + 1 /\ c = 1
  BY <1>2, <1>6
<1>8. n = Offset(files, f)
  <2>1. FileAmong(files, lines, f)
    BY <1>1, <1>2, InputIs
  <2>2. PICK a \in Nat, b \in Nat, m \in Nat : a = Offset(files, f - 1) /\ b = Offset(files, f) /\ m = Len(files[f])
    BY <2>1, Zenon DEF FileAmong
  <2>3. b = a + m
    BY <2>1, <2>2, Zenon DEF FileAmong
  <2>4. (n - a) + 1 = m + 1
    BY <1>1, <1>7, <2>2, Zenon DEF LineAfter
  <2>5. n = b
    BY <1>5, <2>3, <2>4
  <2>6. QED
    BY <2>2, <2>5
<1>9. LineAfter(files, f + 1, n) = 1
  <2>1. (f + 1) - 1 = f /\ (n - n) + 1 = 1
    BY <1>2, <1>5
  <2>2. QED
    BY <1>8, <2>1, Zenon DEF LineAfter
<1>10. ASSUME f + 1 <= Len(files)
       PROVE  1 \in 1 .. Len(files[f + 1]) + 1 /\ LinePos(ts[f + 1], files[f + 1], 1) = 1
  <2>1. f + 1 \in 1 .. Len(files)
    BY <1>2, <1>3, <1>10
  <2>2. IsFile(t, files[f + 1]) /\ TextOf(ts[f + 1], files[f + 1])
    BY <1>3, <2>1 DEF TextsOf
  <2>3. Len(files[f + 1]) \in Nat
    BY <2>2, FileIs
  <2>4. LinePos(ts[f + 1], files[f + 1], 1) = 1
    BY <2>2, LineBegins
  <2>5. QED
    BY <2>3, <2>4
<1>11. ASSUME f + 1 > Len(files) PROVE n = Len(lines)
  <2>1. f = Len(files)
    BY <1>2, <1>3, <1>11
  <2>2. QED
    BY <1>3, <1>8, <2>1
<1>12. f + 1 \in 1 .. Len(files) + 1 /\ 1 \in 1 .. Len(TableDefs[t]) + 1 /\ ~(1 > 1)
  BY <1>2, <1>3, <1>4
<1>13. ReadsAt(t, files, ts, f + 1, 1, 1, n)
  BY <1>1, <1>5, <1>9, <1>10, <1>11, <1>12, Zenon DEF ReadsAt
<1>14. QED
  BY <1>7, <1>13

-----------------------------------------------------------------------------
(* What a query asks of the lines                                           *)

Item(n) == [j \in DOMAIN cols |-> Lines[n][cols[j]].val]

\* The recursion of MeantOf, as what it makes of a function
MeantStep(f) ==
  [n \in 0 .. Len(Lines) |->
     IF n = 0 THEN <<>> ELSE IF Selected(Lines[n]) THEN Append(f[n - 1], Item(n)) ELSE f[n - 1]]

\* There is such a function.
LEMMA MeantExists ==
  ASSUME Len(Lines) \in Nat
  PROVE  MeantOf = MeantStep(MeantOf)
<1>1. PICK N \in Nat : N = Len(Lines)
  OBVIOUS
<1> DEFINE X == {Item(n) : n \in Nat}
           step == [x \in Nat \X Seq(X) |-> IF Selected(Lines[x[1] + 1]) THEN Append(x[2], Item(x[1] + 1)) ELSE x[2]]
<1>2. step \in [Nat \X Seq(X) -> Seq(X)]
  <2>1. ASSUME NEW n \in Nat, NEW s \in Seq(X) PROVE Append(s, Item(n + 1)) \in Seq(X)
    <3>1. Item(n + 1) \in X
      BY n + 1 \in Nat
    <3> HIDE DEF X
    <3>2. QED
      BY <3>1
  <2> HIDE DEF X
  <2>2. QED
    BY <2>1
<1>3. \A n \in Nat : \A s \in Seq(X) : step[<<n, s>>] = IF Selected(Lines[n + 1]) THEN Append(s, Item(n + 1)) ELSE s
  <2> HIDE DEF X
  <2>1. ASSUME NEW n \in Nat, NEW s \in Seq(X)
        PROVE  step[<<n, s>>] = IF Selected(Lines[n + 1]) THEN Append(s, Item(n + 1)) ELSE s
    <3>1. <<n, s>> \in Nat \X Seq(X) /\ <<n, s>>[1] = n /\ <<n, s>>[2] = s
      OBVIOUS
    <3>2. PICK x \in Nat \X Seq(X) : x = <<n, s>> /\ x[1] = n /\ x[2] = s
      BY <3>1, Zenon
    <3>3. step[x] = IF Selected(Lines[x[1] + 1]) THEN Append(x[2], Item(x[1] + 1)) ELSE x[2]
      BY Zenon
    <3>4. QED
      BY <3>2, <3>3, Zenon
  <2>2. QED
    BY <2>1
<1>4. <<>> \in Seq(X)
  OBVIOUS
<1> HIDE DEF step, X
<1>5. PICK f : IsSequence(Seq(X), <<>>, step, f)
  BY <1>2, <1>4, RecursionHolds
<1>6. f[0] = <<>> /\ \A n \in Nat : f[n] \in Seq(X) /\ f[n + 1] = step[<<n, f[n]>>]
  BY <1>5, Zenon DEF IsSequence
<1> DEFINE g == [n \in 0 .. N |-> f[n]]
<1>7. ASSUME NEW n \in 0 .. N
      PROVE  g[n] = IF n = 0 THEN <<>> ELSE IF Selected(Lines[n]) THEN Append(g[n - 1], Item(n)) ELSE g[n - 1]
  <2>1. CASE n = 0
    BY <1>6, <2>1
  <2>2. CASE n # 0
    <3>1. n - 1 \in 0 .. N /\ n - 1 \in Nat /\ (n - 1) + 1 = n
      BY <2>2
    <3>2. g[n - 1] = f[n - 1] /\ g[n] = f[n]
      BY <3>1
    <3>3. f[n] = step[<<n - 1, f[n - 1]>>] /\ f[n - 1] \in Seq(X)
      BY <1>6, <3>1
    <3>4. f[n] = IF Selected(Lines[n]) THEN Append(f[n - 1], Item(n)) ELSE f[n - 1]
      BY <1>3, <3>1, <3>3, Zenon
    <3> HIDE DEF g
    <3>5. QED
      BY <2>2, <3>2, <3>4, Zenon
  <2>3. QED
    BY <2>1, <2>2
<1>8. g = [n \in 0 .. N |-> g[n]]
  OBVIOUS
<1> HIDE DEF g
<1>9. g = MeantStep(g)
  BY <1>1, <1>7, <1>8, Zenon DEF MeantStep
<1>10. MeantOf = CHOOSE h : h = MeantStep(h)
  BY Zenon DEF MeantOf, MeantStep, Item
<1>11. QED
  BY <1>9, <1>10, Zenon

\* Of no lines the query asks nothing; a line more is passed on if it is selected.
LEMMA MeantIs ==
  ASSUME NEW N \in Nat, N = Len(Lines)
  PROVE  /\ MeantOf[0] = <<>>
         /\ \A n \in 0 .. N - 1 :
              MeantOf[n + 1] = IF Selected(Lines[n + 1]) THEN Append(MeantOf[n], Item(n + 1)) ELSE MeantOf[n]
<1>1. MeantOf = MeantStep(MeantOf)
  BY MeantExists
<1>2. \A n \in 0 .. N : MeantOf[n] =
        IF n = 0 THEN <<>> ELSE IF Selected(Lines[n]) THEN Append(MeantOf[n - 1], Item(n)) ELSE MeantOf[n - 1]
  <2>1. PICK m : m = MeantOf
    OBVIOUS
  <2>2. m = [n \in 0 .. N |-> IF n = 0 THEN <<>> ELSE IF Selected(Lines[n]) THEN Append(m[n - 1], Item(n))
           ELSE m[n - 1]]
    BY <1>1, <2>1, Zenon DEF MeantStep
  <2>3. \A n \in 0 .. N : m[n] = IF n = 0 THEN <<>>
           ELSE IF Selected(Lines[n]) THEN Append(m[n - 1], Item(n)) ELSE m[n - 1]
    BY <2>2, Zenon
  <2>4. QED
    BY <2>1, <2>3, Zenon
<1>3. 0 \in 0 .. N
  OBVIOUS
<1>4. ASSUME NEW n \in 0 .. N - 1
      PROVE  MeantOf[n + 1] = IF Selected(Lines[n + 1]) THEN Append(MeantOf[n], Item(n + 1)) ELSE MeantOf[n]
  <2>1. n + 1 \in 0 .. N /\ n + 1 # 0 /\ (n + 1) - 1 = n
    OBVIOUS
  <2>2. QED
    BY <1>2, <2>1, Zenon
<1>5. QED
  BY <1>2, <1>3, <1>4, Zenon

\* They are sequences, each a prefix of the next.
LEMMA MeantGrows ==
  ASSUME NEW N \in Nat, N = Len(Lines), NEW n \in 0 .. N
  PROVE  /\ Len(MeantOf[n]) \in Nat
         /\ IsPrefix(MeantOf[n], Meant) /\ IsPrefix(<<>>, Meant)
<1> DEFINE X == {Item(i) : i \in 1 .. N}
           m == MeantOf
           S == {i \in Nat : i <= N => m[i] \in Seq(X)}
<1>1. /\ m[0] = <<>>
      /\ \A i \in 0 .. N - 1 : m[i + 1] = IF Selected(Lines[i + 1]) THEN Append(m[i], Item(i + 1)) ELSE m[i]
  BY MeantIs
<1>2. \A i \in 1 .. N : Item(i) \in X
  OBVIOUS
<1> HIDE DEF X, m
<1>3. 0 \in S
  <2>1. <<>> \in Seq(X)
    OBVIOUS
  <2>2. QED
    BY <1>1, <2>1
<1>4. ASSUME NEW i \in Nat, i \in S PROVE i + 1 \in S
  <2>1. SUFFICES ASSUME i + 1 <= N PROVE m[i + 1] \in Seq(X)
    OBVIOUS
  <2>2. i \in 0 .. N - 1 /\ i + 1 \in 1 .. N /\ m[i] \in Seq(X)
    BY <1>4, <2>1
  <2>3. PICK s \in Seq(X), e \in X : s = m[i] /\ e = Item(i + 1)
    BY <1>2, <2>2
  <2>4. Append(s, e) \in Seq(X)
    OBVIOUS
  <2>5. QED
    BY <1>1, <2>2, <2>3, <2>4
<1>5. \A i \in Nat : i \in S
  <2> HIDE DEF S
  <2>1. QED
    BY <1>3, <1>4, SetInduction
<1>6. \A i \in 0 .. N : m[i] \in Seq(X)
  BY <1>5
<1>7. PICK s \in Seq(X) : s = m[n]
  BY <1>6
<1> DEFINE Extends(z) == Len(s) <= Len(z) /\ \A p \in 1 .. Len(s) : z[p] = s[p]
           T == {d \in Nat : n + d <= N => Extends(m[n + d])}
<1>8. 0 \in T
  BY <1>7
<1>9. ASSUME NEW d \in Nat, d \in T PROVE d + 1 \in T
  <2>1. SUFFICES ASSUME n + (d + 1) <= N PROVE Extends(m[n + (d + 1)])
    OBVIOUS
  <2>2. n + d \in 0 .. N - 1 /\ n + d \in 0 .. N /\ (n + d) + 1 \in 1 .. N /\ n + (d + 1) = (n + d) + 1
    BY <2>1
  <2>3. PICK i : i = n + d
    OBVIOUS
  <2>4. PICK z \in Seq(X), e \in X : z = m[i] /\ e = Item(i + 1)
    BY <1>2, <1>6, <2>2, <2>3
  <2>5. Extends(z)
    BY <1>9, <2>2, <2>3, <2>4
  <2>6. Extends(Append(z, e))
    BY <2>5
  <2>7. m[i + 1] = Append(z, e) \/ m[i + 1] = z
    BY <1>1, <2>2, <2>3, <2>4
  <2> HIDE DEF Extends
  <2>8. Extends(m[i + 1])
    BY <2>5, <2>6, <2>7, Zenon
  <2>9. QED
    BY <2>2, <2>3, <2>8
<1>10. \A d \in Nat : d \in T
  <2> HIDE DEF T
  <2>1. QED
    BY <1>8, <1>9, SetInduction
<1>11. PICK z \in Seq(X) : z = m[N]
  BY <1>6
<1>12. Extends(z)
  <2>1. N - n \in Nat /\ n + (N - n) = N /\ N <= N
    OBVIOUS
  <2>2. PICK d \in Nat : n + d = N /\ n + d <= N
    BY <2>1
  <2> HIDE DEF Extends
  <2>3. d \in T
    BY <1>10
  <2>4. Extends(m[n + d])
    BY <2>2, <2>3, Zenon
  <2>5. QED
    BY <1>11, <2>2, <2>4, Zenon
<1>13. IsPrefix(s, z)
  <2>1. Len(s) \in Nat /\ Len(s) <= Len(z) /\ Len(z) \in Nat
    BY <1>12
  <2>2. SubSeq(s, 1, Len(s)) = s
    OBVIOUS
  <2>3. PICK k \in Nat : k = Len(s) /\ k <= Len(z)
    BY <2>1
  <2>4. SubSeq(z, 1, k) \in Seq(X) /\ Len(SubSeq(z, 1, k)) = k /\ \A p \in 1 .. k : SubSeq(z, 1, k)[p] = z[p]
    BY <2>3
  <2>5. PICK u \in Seq(X) : u = SubSeq(z, 1, Len(s)) /\ Len(u) = Len(s) /\ \A p \in 1 .. Len(s) : u[p] = z[p]
    BY <2>3, <2>4, Zenon
  <2>6. u = s
    BY <1>12, <2>5
  <2>7. QED
    BY <2>1, <2>2, <2>5, <2>6 DEF IsPrefix
<1>14. IsPrefix(<<>>, z)
  <2>1. Len(<<>>) = 0 /\ SubSeq(<<>>, 1, 0) = <<>> /\ SubSeq(z, 1, 0) = <<>> /\ Len(z) >= 0
    OBVIOUS
  <2>2. QED
    BY <2>1 DEF IsPrefix
<1>15. Meant = z
  BY <1>11, Zenon DEF Meant, m
<1>16. Len(s) \in Nat
  OBVIOUS
<1>17. QED
  BY <1>7, <1>13, <1>14, <1>15, <1>16, Zenon DEF m

-----------------------------------------------------------------------------
(* What a scan reads                                                        *)

\* What a field of a string stands for is a text.
LEMMA StringValue ==
  ASSUME NEW t, NEW c, NEW field, IsField(t, c, field), TableDefs[t][c] = "string"
  PROVE  field.val \in Seq(Nat)
<1>1. field.text \in Seq(Nat)
  BY WordOfField
<1>2. field.text = field.val
  BY Zenon DEF IsField
<1>3. QED
  BY <1>1, <1>2

\* What a query has of a field: a view of a string, the number of a date, or the value
Reads(type, v, val) ==
  /\ type = "string" => val \in Seq(Nat) /\ IsView(v, val)
  /\ type = "date" => fromInt(v) = val
  /\ type \notin {"string", "date"} => v = val

\* The columns are written and mapped, and a query goes through them.
Written == outputs = [c \in DOMAIN Types |-> Filled(table, Lines, c, Len(Lines))]
Scannable ==
  /\ table \in Tables /\ IsInput(table, input) /\ Written
  /\ \A c \in DOMAIN Types : IsMapped(c)
  /\ cols \in Queries[table] /\ pred \in Predicates

\* Each column of a row is read as what the line holds.
LEMMA ColumnReads ==
  ASSUME Garbage \notin Nat \X Nat, Scannable, NEW r \in 0 .. Len(Lines) - 1,
         NEW c \in DOMAIN Types, tables_indices[table][c] = EngineType[Types[c]]
  PROVE  Reads(Types[c], Access(c, r), Lines[r + 1][c].val)
<1>1. table \in DOMAIN TableDefs /\ IsInput(table, input) /\ Written /\ IsMapped(c)
  BY TablesAssumption DEF Scannable
<1>2. Types[c] \in ImportTypes /\ (Types[c] = "string" => InMemoryTPCH[table][c] = "StringView")
  BY <1>1, CatalogTables DEF IsTable, Types
<1>3. PICK N \in Nat : N = Len(Lines)
  BY <1>1, InputIs DEF Lines
<1>4. r + 1 \in 1 .. N /\ N = Len(Lines)
  BY <1>3
<1>5. IsLine(table, Lines[r + 1])
  <2>1. \A i \in 1 .. Len(Lines) : IsLine(table, Lines[i])
    BY <1>1, InputIs DEF Lines
  <2>2. QED
    BY <1>4, <2>1
<1>6. IsField(table, c, Lines[r + 1][c])
  BY <1>5 DEF IsLine, Types
<1>7. PICK val : val = Lines[r + 1][c].val
  OBVIOUS
<1>8. PICK items : items = outputs[c]
  OBVIOUS
<1>9. items = [i \in 1 .. N |-> Value(table, Lines, c, i)]
  BY <1>1, <1>3, <1>8, Zenon DEF Written, Filled
<1> DEFINE Y == {Value(table, Lines, c, i) : i \in 1 .. N}
<1>10. \A i \in 1 .. N : Value(table, Lines, c, i) \in Y
  OBVIOUS
<1>11. items \in Seq(Y) /\ Len(items) = N /\ items[r + 1] = Stored(Types[c], val)
  <2> HIDE DEF Y
  <2>1. items \in Seq(Y) /\ Len(items) = N
    BY <1>9, <1>10
  <2>2. items[r + 1] = Value(table, Lines, c, r + 1)
    BY <1>4, <1>9
  <2>3. QED
    BY <1>7, <2>1, <2>2, Zenon DEF Value, Types
<1>12. r \in 0 .. Len(items) - 1
  BY <1>4, <1>11
<1>13. CASE Types[c] = "string"
  <2>1. Stored(Types[c], val) = val
    BY <1>13 DEF Stored
  <2>2. val \in Seq(Nat)
    BY <1>6, <1>7, <1>13, StringValue DEF Types
  <2>3. items \in Seq(Seq(Nat))
    <3>1. ASSUME NEW i \in 1 .. N PROVE Value(table, Lines, c, i) \in Seq(Nat)
      <4>1. IsLine(table, Lines[i])
        BY <1>1, <1>4, InputIs DEF Lines
      <4>2. IsField(table, c, Lines[i][c])
        BY <4>1 DEF IsLine, Types
      <4>3. Lines[i][c].val \in Seq(Nat)
        BY <1>13, <4>2, StringValue DEF Types
      <4>4. Stored("string", Lines[i][c].val) = Lines[i][c].val
        BY DEF Stored
      <4>5. QED
        BY <1>13, <4>3, <4>4, Zenon DEF Value, Types
    <3>2. QED
      BY <1>9, <3>1
  <2>4. IsView(Access(c, r), outputs[c][r + 1])
    BY <1>1, <1>2, <1>8, <1>12, <1>13, <2>3, StringLoads
  <2>5. outputs[c][r + 1] = val
    BY <1>8, <1>11, <2>1
  <2>6. QED
    BY <1>7, <1>13, <2>2, <2>4, <2>5 DEF Reads
<1>14. CASE Types[c] # "string"
  <2>1. Access(c, r) = Stored(Types[c], val)
    <3> HIDE DEF Y
    <3>1. Types[c] \in ImportTypes \ {"string"} /\ outputs[c] \in Seq(Y) /\ r \in 0 .. Len(outputs[c]) - 1
      BY <1>2, <1>8, <1>11, <1>12, <1>14
    <3>2. Access(c, r) = outputs[c][r + 1]
      BY <1>1, <3>1, ValueLoads
    <3>3. QED
      BY <1>8, <1>11, <3>2
  <2>2. CASE Types[c] = "date"
    <3>1. /\ val = [year |-> val.year, month |-> val.month, day |-> val.day]
          /\ IsDate(val.year, val.month, val.day)
      <4>1. IsDateText(Lines[r + 1][c].text, val)
        BY <1>6, <1>7, <2>2, Zenon DEF IsField, Types
      <4>2. QED
        BY <4>1, Zenon DEF IsDateText
    <3>2. fromInt(toInt(val.year, val.month, val.day)) = val
      BY <3>1, DatesComeBack
    <3>3. Stored(Types[c], val) = toInt(val.year, val.month, val.day)
      BY <2>2, Zenon DEF Stored
    <3>4. fromInt(Access(c, r)) = val
      BY <2>1, <3>2, <3>3, Zenon
    <3>5. QED
      BY <1>7, <2>2, <3>4 DEF Reads
  <2>3. CASE Types[c] # "date"
    <3>1. Stored(Types[c], val) = val
      BY <2>3, Zenon DEF Stored
    <3>2. QED
      BY <1>7, <1>14, <2>1, <2>3, <3>1 DEF Reads
  <2>4. QED
    BY <2>2, <2>3
<1>15. QED
  BY <1>13, <1>14

\* The column a predicate looks at has the type it is for.
LEMMA TestedIs ==
  ASSUME IsList(cols), NEW type, Tested(type) # 0
  PROVE  Tested(type) \in DOMAIN cols /\ Types[cols[Tested(type)]] = type
<1> DEFINE js == {j \in DOMAIN cols : Types[cols[j]] = type}
<1>1. js # {} /\ Tested(type) = Least(js)
  BY Zenon DEF Tested
<1>2. js \in SUBSET Nat
  <2>1. PICK n \in Nat : DOMAIN cols = 1 .. n
    BY DEF IsList
  <2>2. QED
    BY <2>1
<1>3. \E m \in js : \A n \in js : m <= n
  <2> HIDE DEF js
  <2>1. QED
    BY <1>1, <1>2, LeastNatural
<1>4. Least(js) \in js
  <2> HIDE DEF js
  <2>1. QED
    BY <1>3, Zenon DEF Least
<1>5. QED
  BY <1>1, <1>4

\* A scan's step passes on what the query asks of the line.
LEMMA RowReads ==
  ASSUME QueriesAgree, PredicatesAreMeant, Garbage \notin Nat \X Nat, Scannable, NEW r \in 0 .. Len(Lines) - 1,
         NEW values, values = [j \in DOMAIN cols |-> Access(cols[j], r)]
  PROVE  /\ Holds(values) <=> Selected(Lines[r + 1])
         /\ [j \in DOMAIN cols |-> Shown(j, values[j])] = Item(r + 1)
<1>1. table \in Tables /\ cols \in Queries[table] /\ pred \in Predicates /\ table \in DOMAIN TableDefs
  BY TablesAssumption DEF Scannable
<1>2. IsList(cols) /\ \A j \in DOMAIN cols : tables_indices[table][cols[j]] = EngineType[Types[cols[j]]]
  BY <1>1 DEF QueriesAgree, Types
<1>3. \A j \in DOMAIN cols : cols[j] \in DOMAIN Types
  BY <1>1, QueriesAssumption DEF Types
<1>4. \A j \in DOMAIN cols : Reads(Types[cols[j]], values[j], Lines[r + 1][cols[j]].val)
  BY <1>2, <1>3, ColumnReads
<1>5. ASSUME NEW j \in DOMAIN cols PROVE Shown(j, values[j]) = Lines[r + 1][cols[j]].val
  <2>1. PICK type, v, val : type = Types[cols[j]] /\ v = values[j] /\ val = Lines[r + 1][cols[j]].val
    OBVIOUS
  <2>2. Reads(type, v, val)
    BY <1>4, <2>1
  <2>3. CASE type = "string"
    <3>1. Text(v) = val
      BY <2>2, <2>3, ViewText DEF Reads
    <3>2. Shown(j, v) = Text(v)
      BY <2>1, <2>3 DEF Shown
    <3>3. QED
      BY <2>1, <3>1, <3>2
  <2>4. CASE type = "date"
    <3>1. Shown(j, v) = fromInt(v)
      BY <2>1, <2>4 DEF Shown
    <3>2. QED
      BY <2>1, <2>2, <2>4, <3>1 DEF Reads
  <2>5. CASE type \notin {"string", "date"}
    <3>1. Shown(j, v) = v
      BY <2>1, <2>5 DEF Shown
    <3>2. QED
      BY <2>1, <2>2, <2>5, <3>1 DEF Reads
  <2>6. QED
    BY <2>3, <2>4, <2>5
<1>6. [j \in DOMAIN cols |-> Shown(j, values[j])] = Item(r + 1)
  BY <1>5, Zenon DEF Item
<1>7. PICK d, s : d = Tested("date") /\ s = Tested("string")
  OBVIOUS
<1>8. ASSUME d # 0 PROVE extractYear(values[d]) = Lines[r + 1][cols[d]].val.year
  <2>1. d \in DOMAIN cols /\ Types[cols[d]] = "date"
    BY <1>2, <1>7, <1>8, TestedIs
  <2>2. fromInt(values[d]) = Lines[r + 1][cols[d]].val
    BY <1>4, <2>1 DEF Reads
  <2>3. QED
    BY <2>2, Zenon DEF extractYear
<1>9. ASSUME s # 0
      PROVE  Lines[r + 1][cols[s]].val \in Seq(Nat) /\ IsView(values[s], Lines[r + 1][cols[s]].val)
  <2>1. s \in DOMAIN cols /\ Types[cols[s]] = "string"
    BY <1>2, <1>7, <1>9, TestedIs
  <2>2. QED
    BY <1>4, <2>1 DEF Reads
<1>10. /\ pred.k = "like" => IsLikePattern(pred.arg)
       /\ pred.k \in {"eq", "lt"} => pred.arg \in Seq(Nat)
  BY <1>1, Zenon DEF PredicatesAreMeant
<1>11. ASSUME s # 0, pred.k = "like"
       PROVE  LikeExp(values[s], pred.arg) <=> Like(Lines[r + 1][cols[s]].val, pred.arg)
  BY <1>9, <1>10, <1>11, LikeIsMeant
<1>12. ASSUME s # 0, pred.k = "eq"
       PROVE  string_eq(values[s], StringView(pred.arg, <<0>>)) <=> Lines[r + 1][cols[s]].val = pred.arg
  BY <1>9, <1>10, <1>12, EqIsMeant
<1>13. ASSUME s # 0, pred.k = "lt"
       PROVE  string_lt(values[s], StringView(pred.arg, <<0>>)) <=> Precedes(Lines[r + 1][cols[s]].val, pred.arg)
  BY <1>9, <1>10, <1>13, LtIsMeant
<1>14. Holds(values) <=> Selected(Lines[r + 1])
  BY <1>7, <1>8, <1>11, <1>12, <1>13, Zenon DEF Holds, Selected
<1>15. QED
  BY <1>6, <1>14

-----------------------------------------------------------------------------
(* The invariant                                                            *)

\* The import has read so many lines, and the columns before the next one have a value more.
ReadSoFar ==
  /\ table \in Tables /\ input \in Inputs[table] /\ TextsOf(input, texts)
  /\ stage \in {"read", "write", "map", "scan", "done", "aborted"}
  /\ outputs = [c \in DOMAIN Types |-> Filled(table, Lines, c, rows + (IF c < col THEN 1 ELSE 0))]
  /\ stage = "read" => ReadsAt(table, input, texts, file, col, pos, rows)
  /\ stage # "read" => rows = Len(Lines) /\ col = 1

\* The scan has passed on what the query asks of the lines up to this row.
ScannedSoFar ==
  /\ stage = "map" => \A c \in DOMAIN Types : columns[c] = make_page(Types[c], outputs[c])
  /\ stage \in {"scan", "done"} => Scannable
  /\ row \in 0 .. Len(Lines)
  /\ out = IF row = 0 THEN <<>> ELSE MeantOf[row]
  /\ stage \notin {"scan", "done"} => row = 0
  /\ stage = "done" => row = Len(Lines)

IInv == ReadSoFar /\ ScannedSoFar

\* What holds of the table that is imported
LEMMA TableIs ==
  ASSUME InputsAreTables, table \in Tables, input \in Inputs[table]
  PROVE  /\ table \in DOMAIN TableDefs /\ IsInput(table, input) /\ Len(Lines) \in Nat /\ Len(input) \in Nat
         /\ Len(Types) \in Nat /\ Len(Types) > 0 /\ DOMAIN Types = 1 .. Len(Types)
<1>1. table \in DOMAIN TableDefs
  BY TablesAssumption
<1>2. IsList(input) /\ \A f \in DOMAIN input :
         /\ IsList(input[f])
         /\ \A l \in DOMAIN input[f] :
              /\ IsList(input[f][l]) /\ DOMAIN input[f][l] = DOMAIN TableDefs[table]
              /\ \A c \in DOMAIN TableDefs[table] : IsField(table, c, input[f][l][c])
  BY Zenon DEF InputsAreTables
<1>3. IsInput(table, input)
  BY <1>2, Zenon DEF IsInput, IsFile, IsLine
<1>4. Len(Lines) \in Nat /\ Len(input) \in Nat
  BY <1>1, <1>3, InputIs DEF Lines
<1>5. Types \in Seq(ImportTypes) /\ Len(Types) > 0
  BY <1>1, CatalogTables DEF IsTable, Types
<1>6. QED
  BY <1>1, <1>3, <1>4, <1>5

\* It holds at first.
LEMMA IInvInit ==
  ASSUME InputsAreTables, Init
  PROVE  IInv
<1>1. /\ stage = "read" /\ table \in Tables /\ input \in Inputs[table]
      /\ file = 1 /\ pos = 1 /\ col = 1 /\ rows = 0 /\ row = 0 /\ out = <<>>
      /\ outputs = [c \in DOMAIN Types |-> <<>>]
  BY Zenon DEF Init
<1>2. table \in DOMAIN TableDefs /\ IsInput(table, input) /\ Len(Lines) \in Nat /\ Len(input) \in Nat
      /\ DOMAIN input = 1 .. Len(input) /\ DOMAIN Types = 1 .. Len(Types) /\ Len(Types) \in Nat
  <2>1. DOMAIN input = 1 .. Len(input)
    <3>1. IsInput(table, input)
      BY <1>1, TableIs
    <3>2. IsList(input)
      BY <3>1 DEF IsInput
    <3>3. QED
      BY <3>2 DEF IsList
  <2>2. QED
    BY <1>1, <2>1, TableIs
<1>3. TextsOf(input, texts)
  <2>1. PICK texts0 : /\ texts0 = [f \in DOMAIN input |-> FileText(input[f])]
                      /\ \/ texts = texts0
                         \/ texts0 # <<>> /\ texts = [texts0 EXCEPT ![Len(texts0)] = Front(@)]
    BY ZenonT(30) DEF Init
  <2>2. PICK n \in Nat : n = Len(input) /\ DOMAIN input = 1 .. n
    BY <1>2
  <2>3. texts0 = [f \in 1 .. n |-> FileText(input[f])]
    BY <2>1, <2>2
  <2>4. Len(texts0) = n /\ \A f \in 1 .. n : texts0[f] = FileText(input[f])
    BY <2>3
  <2>5. CASE texts = texts0
    BY <2>2, <2>4, <2>5 DEF TextsOf, TextOf
  <2>6. CASE texts = [texts0 EXCEPT ![Len(texts0)] = Front(@)]
    <3>1. texts = [texts0 EXCEPT ![n] = Front(texts0[n])]
      BY <2>4, <2>6
    <3>2. texts = [f \in 1 .. n |-> IF f = n THEN Front(texts0[n]) ELSE texts0[f]]
      BY <2>3, <3>1
    <3>3. Len(texts) = n /\ \A f \in 1 .. n : texts[f] = IF f = n THEN Front(texts0[n]) ELSE texts0[f]
      BY <3>2
    <3>4. \A f \in 1 .. n : texts[f] = FileText(input[f]) \/ texts[f] = Front(FileText(input[f]))
      BY <2>4, <3>3
    <3>5. QED
      BY <2>2, <3>3, <3>4 DEF TextsOf, TextOf
  <2>7. QED
    BY <2>1, <2>5, <2>6
<1>4. ReadsAt(table, input, texts, 1, 1, 1, 0)
  BY <1>2, <1>3, ReadingStarts
<1>5. outputs = [c \in DOMAIN Types |-> Filled(table, Lines, c, 0 + (IF c < 1 THEN 1 ELSE 0))]
  <2>1. ASSUME NEW c \in DOMAIN Types PROVE Filled(table, Lines, c, 0 + (IF c < 1 THEN 1 ELSE 0)) = <<>>
    <3>1. 0 + (IF c < 1 THEN 1 ELSE 0) = 0
      BY <1>2
    <3>2. Filled(table, Lines, c, 0) = <<>>
      BY DEF Filled
    <3>3. QED
      BY <3>1, <3>2
  <2>2. QED
    BY <1>1, <2>1, Zenon
<1>6. ReadSoFar
  BY <1>1, <1>3, <1>4, <1>5 DEF ReadSoFar
<1>7. ScannedSoFar
  BY <1>1, <1>2 DEF ScannedSoFar
<1>8. QED
  BY <1>6, <1>7 DEF IInv

\* A step that leaves the query and its result alone
LEMMA NothingScanned ==
  ASSUME ScannedSoFar, stage \notin {"scan", "done"}, stage' \notin {"map", "scan", "done"},
         UNCHANGED <<table, input, row, out>>
  PROVE  ScannedSoFar'
<1>1. row = 0 /\ out = <<>> /\ row \in 0 .. Len(Lines)
  BY DEF ScannedSoFar
<1>2. Lines' = Lines
  BY DEF Lines
<1>3. row' = 0 /\ out' = <<>> /\ row' \in 0 .. Len(Lines')
  BY <1>1, <1>2
<1>4. QED
  BY <1>3 DEF ScannedSoFar

\* A value more in the column at hand
LEMMA ReadColumnKeeps ==
  ASSUME InputsAreTables, IInv, ReadColumn
  PROVE  IInv'
<1>1. /\ stage = "read" /\ file <= Len(texts) /\ col <= Len(Types) /\ pos < Limit(texts[file]) /\ col' = col + 1
      /\ UNCHANGED <<table, input, texts, stage, file, rows, row, out>>
  BY DEF ReadColumn, fixedVars, queryVars
<1>2. PICK v : /\ v = parse_value(Types[col], texts[file], FieldAt(texts[file], pos))
               /\ outputs' = [outputs EXCEPT ![col] = Append(@, v.val)] /\ pos' = Behind(texts[file], v.end)
  BY Zenon DEF ReadColumn
<1>3. /\ table \in Tables /\ input \in Inputs[table] /\ TextsOf(input, texts)
      /\ outputs = [c \in DOMAIN Types |-> Filled(table, Lines, c, rows + (IF c < col THEN 1 ELSE 0))]
      /\ ReadsAt(table, input, texts, file, col, pos, rows)
  BY <1>1 DEF IInv, ReadSoFar
<1>4. /\ table \in DOMAIN TableDefs /\ IsInput(table, input) /\ Len(Lines) \in Nat
      /\ Len(Types) \in Nat /\ DOMAIN Types = 1 .. Len(Types)
  BY <1>3, TableIs
<1>5. Len(texts) = Len(input)
  BY <1>3 DEF TextsOf
<1>6. /\ ReadsAt(table, input, texts, file, col + 1, Behind(texts[file], v.end), rows)
      /\ v.val = Value(table, Lines, col, rows + 1) /\ col \in 1 .. Len(TableDefs[table])
  BY <1>1, <1>2, <1>3, <1>4, <1>5, FieldStep, SMTT(30) DEF Types, Lines
<1>7. rows \in Nat
  BY <1>3, Zenon DEF ReadsAt
<1>8. col \in DOMAIN Types
  BY <1>4, <1>6 DEF Types
<1>9. outputs' = [c \in DOMAIN Types |-> Filled(table, Lines, c, rows + (IF c < col + 1 THEN 1 ELSE 0))]
  <2>1. ASSUME NEW c \in DOMAIN Types
        PROVE  (IF c = col THEN Append(outputs[col], v.val) ELSE outputs[c])
                 = Filled(table, Lines, c, rows + (IF c < col + 1 THEN 1 ELSE 0))
    <3>1. c \in Nat /\ col \in Nat
      BY <1>4, <1>8
    <3>2. outputs[c] = Filled(table, Lines, c, rows + (IF c < col THEN 1 ELSE 0))
      BY <1>3, Zenon
    <3>3. CASE c = col
      <4>1. rows + (IF c < col THEN 1 ELSE 0) = rows /\ rows + (IF c < col + 1 THEN 1 ELSE 0) = rows + 1
        BY <1>7, <3>1, <3>3
      <4>2. Append(Filled(table, Lines, c, rows), Value(table, Lines, c, rows + 1)) = Filled(table, Lines, c, rows + 1)
        BY <1>7, FilledGrows
      <4>3. QED
        BY <1>6, <3>2, <3>3, <4>1, <4>2, Zenon
    <3>4. CASE c # col
      <4>1. (IF c < col THEN 1 ELSE 0) = (IF c < col + 1 THEN 1 ELSE 0)
        BY <3>1, <3>4
      <4>2. QED
        BY <3>2, <3>4, <4>1, Zenon
    <3>5. QED
      BY <3>3, <3>4
  <2>2. outputs' = [c \in DOMAIN Types |-> IF c = col THEN Append(outputs[col], v.val) ELSE outputs[c]]
    BY <1>2, <1>3
  <2>3. QED
    BY <2>1, <2>2, Zenon
<1>10. Types' = Types /\ Lines' = Lines
  BY <1>1 DEF Types, Lines
<1>11. ReadSoFar'
  BY <1>1, <1>2, <1>3, <1>6, <1>9, <1>10 DEF ReadSoFar
<1>12. ScannedSoFar'
  BY <1>1, NothingScanned DEF IInv
<1>13. QED
  BY <1>11, <1>12 DEF IInv

\* A line more, and no column ahead of the others
LEMMA EndLineKeeps ==
  ASSUME InputsAreTables, IInv, EndLine
  PROVE  IInv'
<1>1. /\ stage = "read" /\ file <= Len(texts) /\ col > Len(Types) /\ pos' = NextLine(texts[file], pos)
      /\ col' = 1 /\ rows' = rows + 1
      /\ UNCHANGED <<table, input, texts, stage, file, outputs, row, out>>
  BY DEF EndLine, fixedVars, queryVars
<1>2. /\ table \in Tables /\ input \in Inputs[table] /\ TextsOf(input, texts)
      /\ outputs = [c \in DOMAIN Types |-> Filled(table, Lines, c, rows + (IF c < col THEN 1 ELSE 0))]
      /\ ReadsAt(table, input, texts, file, col, pos, rows)
  BY <1>1 DEF IInv, ReadSoFar
<1>3. /\ table \in DOMAIN TableDefs /\ IsInput(table, input)
      /\ Len(Types) \in Nat /\ DOMAIN Types = 1 .. Len(Types)
  BY <1>2, TableIs
<1>4. Len(texts) = Len(input)
  BY <1>2 DEF TextsOf
<1>5. ReadsAt(table, input, texts, file, 1, NextLine(texts[file], pos), rows + 1) /\ col = Len(Types) + 1
  BY <1>1, <1>2, <1>3, <1>4, LineStep DEF Types
<1>6. rows \in Nat
  BY <1>2, Zenon DEF ReadsAt
<1>7. ASSUME NEW c \in DOMAIN Types
      PROVE  rows + (IF c < col THEN 1 ELSE 0) = (rows + 1) + (IF c < 1 THEN 1 ELSE 0)
  BY <1>3, <1>5, <1>6
<1>8. outputs = [c \in DOMAIN Types |-> Filled(table, Lines, c, (rows + 1) + (IF c < 1 THEN 1 ELSE 0))]
  BY <1>2, <1>7, Zenon
<1>9. Types' = Types /\ Lines' = Lines
  BY <1>1 DEF Types, Lines
<1>10. ReadSoFar'
  BY <1>1, <1>2, <1>5, <1>8, <1>9 DEF ReadSoFar
<1>11. ScannedSoFar'
  BY <1>1, NothingScanned DEF IInv
<1>12. QED
  BY <1>10, <1>11 DEF IInv

\* The next file
LEMMA EndFileKeeps ==
  ASSUME InputsAreTables, IInv, EndFile
  PROVE  IInv'
<1>1. /\ stage = "read" /\ file <= Len(texts) /\ col <= Len(Types) /\ pos = Limit(texts[file])
      /\ file' = file + 1 /\ pos' = 1 /\ col' = 1
      /\ UNCHANGED <<table, input, texts, stage, rows, outputs, row, out>>
  BY DEF EndFile, fixedVars, queryVars
<1>2. /\ table \in Tables /\ input \in Inputs[table] /\ TextsOf(input, texts)
      /\ outputs = [c \in DOMAIN Types |-> Filled(table, Lines, c, rows + (IF c < col THEN 1 ELSE 0))]
      /\ ReadsAt(table, input, texts, file, col, pos, rows)
  BY <1>1 DEF IInv, ReadSoFar
<1>3. table \in DOMAIN TableDefs /\ IsInput(table, input)
  BY <1>2, TableIs
<1>4. Len(texts) = Len(input)
  BY <1>2 DEF TextsOf
<1>5. ReadsAt(table, input, texts, file + 1, 1, 1, rows) /\ col = 1
  BY <1>1, <1>2, <1>3, <1>4, FileStep DEF Types
<1>6. Types' = Types /\ Lines' = Lines
  BY <1>1 DEF Types, Lines
<1>7. ReadSoFar'
  BY <1>1, <1>2, <1>5, <1>6 DEF ReadSoFar
<1>8. ScannedSoFar'
  BY <1>1, NothingScanned DEF IInv
<1>9. QED
  BY <1>7, <1>8 DEF IInv

\* All lines were read when no file is left.
LEMMA EndReadKeeps ==
  ASSUME InputsAreTables, IInv, EndRead
  PROVE  IInv'
<1>1. /\ stage = "read" /\ file > Len(texts) /\ stage' = "write"
      /\ UNCHANGED <<table, input, texts, col, rows, outputs, row, out>>
  BY DEF EndRead, fixedVars, queryVars
<1>2. /\ table \in Tables /\ input \in Inputs[table] /\ TextsOf(input, texts)
      /\ outputs = [c \in DOMAIN Types |-> Filled(table, Lines, c, rows + (IF c < col THEN 1 ELSE 0))]
      /\ ReadsAt(table, input, texts, file, col, pos, rows)
  BY <1>1 DEF IInv, ReadSoFar
<1>3. Len(texts) = Len(input)
  BY <1>2 DEF TextsOf
<1>4. rows = Len(Lines) /\ col = 1
  BY <1>1, <1>2, <1>3, Zenon DEF ReadsAt, Lines
<1>5. Types' = Types /\ Lines' = Lines
  BY <1>1 DEF Types, Lines
<1>6. ReadSoFar'
  BY <1>1, <1>2, <1>4, <1>5 DEF ReadSoFar
<1>7. ScannedSoFar'
  BY <1>1, NothingScanned DEF IInv
<1>8. QED
  BY <1>6, <1>7 DEF IInv

\* Once reading ends, what was read stays, and every value of each column is there.
LEMMA AllRead ==
  ASSUME InputsAreTables, ReadSoFar, stage # "read"
  PROVE  /\ Written /\ IsInput(table, input) /\ Len(Lines) \in Nat /\ Len(Types) \in Nat
         /\ DOMAIN Types = 1 .. Len(Types) /\ Len(Types) > 0 /\ table \in DOMAIN TableDefs /\ table \in Tables
<1>1. /\ table \in Tables /\ input \in Inputs[table] /\ rows = Len(Lines) /\ col = 1
      /\ outputs = [c \in DOMAIN Types |-> Filled(table, Lines, c, rows + (IF c < col THEN 1 ELSE 0))]
  BY DEF ReadSoFar
<1>2. /\ IsInput(table, input) /\ Len(Lines) \in Nat /\ Len(Types) \in Nat /\ table \in DOMAIN TableDefs
      /\ DOMAIN Types = 1 .. Len(Types) /\ Len(Types) > 0
  BY <1>1, TableIs
<1>3. \A c \in DOMAIN Types : rows + (IF c < col THEN 1 ELSE 0) = Len(Lines)
  BY <1>1, <1>2
<1>4. Written
  BY <1>1, <1>3, Zenon DEF Written
<1>5. QED
  BY <1>1, <1>2, <1>4

\* Nothing that was read changes afterwards.
LEMMA ReadStays ==
  ASSUME ReadSoFar, stage # "read", stage' \in {"write", "map", "scan", "done", "aborted"},
         UNCHANGED <<table, input, texts, col, rows, outputs>>
  PROVE  ReadSoFar'
<1>1. Types' = Types /\ Lines' = Lines
  BY DEF Types, Lines
<1>2. stage' # "read"
  OBVIOUS
<1>3. QED
  BY <1>1, <1>2 DEF ReadSoFar

\* The pages are those of the columns.
LEMMA WritePagesKeeps ==
  ASSUME InputsAreTables, IInv, WritePages
  PROVE  IInv'
<1>1. /\ stage = "write" /\ stage' \in {"map", "aborted"}
      /\ UNCHANGED <<table, input, texts, col, rows, outputs, row, out>>
  BY DEF WritePages, fixedVars, queryVars
<1>2. stage' = "map" => columns' = [c \in DOMAIN Types |-> make_page(Types[c], outputs[c])]
  <2>1. SUFFICES ASSUME stage' = "map" PROVE columns' = [c \in DOMAIN Types |-> make_page(Types[c], outputs[c])]
    OBVIOUS
  <2>2. PICK pages : /\ pages = [c \in DOMAIN Types |-> make_page(Types[c], outputs[c])]
                     /\ IF \E c \in DOMAIN Types : pages[c].file_size = 0
                        THEN stage' = "aborted" /\ UNCHANGED columns
                        ELSE stage' = "map" /\ columns' = pages
    BY Zenon DEF WritePages
  <2>3. "map" # "aborted"
    OBVIOUS
  <2>4. QED
    BY <2>1, <2>2, <2>3, Zenon
<1>3. ReadSoFar'
  BY <1>1, ReadStays DEF IInv
<1>4. row = 0 /\ out = <<>> /\ row \in 0 .. Len(Lines)
  BY <1>1 DEF IInv, ScannedSoFar
<1>5. Types' = Types /\ Lines' = Lines
  BY <1>1 DEF Types, Lines
<1>6. stage' = "map" => \A c \in DOMAIN Types' : columns'[c] = make_page(Types'[c], outputs'[c])
  <2>1. outputs' = outputs
    BY <1>1
  <2>2. QED
    BY <1>2, <1>5, <2>1, Zenon
<1>7. row' = 0 /\ out' = <<>> /\ row' \in 0 .. Len(Lines')
  BY <1>1, <1>4, <1>5
<1>8. ScannedSoFar'
  BY <1>1, <1>6, <1>7 DEF ScannedSoFar
<1>9. QED
  BY <1>3, <1>8 DEF IInv

\* The engine maps what was written, and the scan starts at the first row.
LEMMA MapColumnsKeeps ==
  ASSUME InputsAreTables, IInv, MapColumns
  PROVE  IInv'
<1>1. /\ stage = "map" /\ stage' = "scan" /\ cols' \in Queries[table] /\ pred' \in Predicates
      /\ UNCHANGED <<table, input, texts, col, rows, outputs, row, out>>
  BY DEF MapColumns, fixedVars
<1>2. columns' = [c \in DOMAIN Types |->
                    [data |-> columns[c].mem, size |-> MappedSize(InMemoryTPCH[table][c], columns[c].file_size)]]
  BY Zenon DEF MapColumns
<1>3. ReadSoFar'
  BY <1>1, ReadStays DEF IInv
<1>4. row = 0 /\ out = <<>> /\ row \in 0 .. Len(Lines)
         /\ \A c \in DOMAIN Types : columns[c] = make_page(Types[c], outputs[c])
  BY <1>1 DEF IInv, ScannedSoFar
<1>5. Types' = Types /\ Lines' = Lines
  BY <1>1 DEF Types, Lines
<1>6. Written /\ IsInput(table, input) /\ table \in Tables
  BY <1>1, AllRead DEF IInv
<1>7. Written'
  BY <1>1, <1>5, <1>6 DEF Written
<1>8. \A c \in DOMAIN Types' : IsMapped(c)'
  <2>1. SUFFICES ASSUME NEW c \in DOMAIN Types PROVE IsMapped(c)'
    BY <1>5
  <2>2. columns'[c] = [data |-> columns[c].mem, size |-> MappedSize(InMemoryTPCH[table][c], columns[c].file_size)]
    BY <1>2, Zenon
  <2>3. columns'[c] = [data |-> make_page(Types[c], outputs[c]).mem,
                       size |-> MappedSize(InMemoryTPCH[table][c], make_page(Types[c], outputs[c]).file_size)]
    BY <1>4, <2>2, Zenon
  <2>4. outputs' = outputs /\ table' = table
    BY <1>1
  <2>5. QED
    BY <1>5, <2>3, <2>4, Zenon DEF IsMapped
<1>9. Scannable'
  BY <1>1, <1>6, <1>7, <1>8 DEF Scannable
<1>10. row' = 0 /\ out' = <<>> /\ row' \in 0 .. Len(Lines')
  BY <1>1, <1>4, <1>5
<1>11. ScannedSoFar'
  BY <1>1, <1>9, <1>10 DEF ScannedSoFar
<1>12. QED
  BY <1>3, <1>11 DEF IInv

\* The scan leaves alone what it reads.
LEMMA ScanLeaves ==
  ASSUME UNCHANGED <<table, input, outputs, columns, cols, pred>>
  PROVE  Lines' = Lines /\ MeantOf' = MeantOf /\ (Scannable => Scannable')
<1>1. Lines' = Lines /\ Types' = Types
  BY DEF Lines, Types
<1>2. MeantOf' = MeantOf
  BY DEF MeantOf, Lines, Selected, Tested, Types
<1>3. ASSUME Scannable PROVE Scannable'
  <2>1. Written'
    BY <1>1, <1>3 DEF Scannable, Written
  <2>2. ASSUME NEW c \in DOMAIN Types PROVE IsMapped(c)'
    BY <1>1, <1>3 DEF Scannable, IsMapped
  <2>3. QED
    BY <1>1, <1>3, <2>1, <2>2 DEF Scannable
<1>4. QED
  BY <1>1, <1>2, <1>3

\* The scan ends where the lines end.
LEMMA Counted ==
  ASSUME InputsAreTables, IInv, stage = "scan"
  PROVE  TupleCount = Len(Lines)
<1>1. /\ Written /\ Len(Lines) \in Nat /\ DOMAIN Types = 1 .. Len(Types) /\ Len(Types) \in Nat /\ Len(Types) > 0
      /\ table \in DOMAIN TableDefs
  BY AllRead DEF IInv
<1>2. 1 \in DOMAIN Types
  BY <1>1
<1>3. IsMapped(1)
  BY <1>2 DEF IInv, ScannedSoFar, Scannable
<1>4. outputs[1] = Filled(table, Lines, 1, Len(Lines))
  BY <1>1, <1>2, Zenon DEF Written
<1> DEFINE Y == {Value(table, Lines, 1, r) : r \in 1 .. Len(Lines)}
<1>5. \A r \in 1 .. Len(Lines) : Value(table, Lines, 1, r) \in Y
  OBVIOUS
<1> HIDE DEF Y
<1>6. outputs[1] \in Seq(Y) /\ Len(outputs[1]) = Len(Lines)
  BY <1>1, <1>4, <1>5 DEF Filled
<1>7. QED
  BY <1>1, <1>3, <1>6, CountsLines

\* One row of the scan
LEMMA ScanRowKeeps ==
  ASSUME QueriesAgree, InputsAreTables, PredicatesAreMeant, Garbage \notin Nat \X Nat, IInv, ScanRow
  PROVE  IInv'
<1>1. /\ stage = "scan" /\ row < TupleCount /\ row' = row + 1
      /\ UNCHANGED <<table, input, texts, stage, col, rows, outputs, columns, cols, pred>>
  BY DEF ScanRow, fixedVars
<1>2. PICK values : /\ values = [j \in DOMAIN cols |-> Access(cols[j], row)]
                    /\ out' = IF Holds(values) THEN Append(out, [j \in DOMAIN cols |-> Shown(j, values[j])]) ELSE out
  BY Zenon DEF ScanRow
<1>3. Scannable /\ row \in 0 .. Len(Lines) /\ out = IF row = 0 THEN <<>> ELSE MeantOf[row]
  BY <1>1 DEF IInv, ScannedSoFar
<1>4. TupleCount = Len(Lines) /\ Len(Lines) \in Nat
  <2>1. TupleCount = Len(Lines)
    BY <1>1, Counted
  <2>2. Len(Lines) \in Nat
    BY <1>1, AllRead DEF IInv
  <2>3. QED
    BY <2>1, <2>2, SMTT(30)
<1>5. row \in 0 .. Len(Lines) - 1 /\ row \in Nat
  BY <1>1, <1>3, <1>4
<1>6. Holds(values) <=> Selected(Lines[row + 1])
  BY <1>2, <1>3, <1>5, RowReads
<1>7. [j \in DOMAIN cols |-> Shown(j, values[j])] = Item(row + 1)
  BY <1>2, <1>3, <1>5, RowReads
<1>8. /\ MeantOf[0] = <<>>
      /\ MeantOf[row + 1] = IF Selected(Lines[row + 1]) THEN Append(MeantOf[row], Item(row + 1)) ELSE MeantOf[row]
  BY <1>4, <1>5, MeantIs
<1>9. out' = MeantOf[row + 1]
  <2>1. out = MeantOf[row]
    BY <1>3, <1>8
  <2>2. QED
    BY <1>2, <1>6, <1>7, <1>8, <2>1, Zenon
<1>10. Lines' = Lines /\ MeantOf' = MeantOf /\ Scannable'
  BY <1>1, <1>3, ScanLeaves
<1>11. row' \in 0 .. Len(Lines') /\ row' # 0 /\ out' = MeantOf'[row']
  BY <1>1, <1>4, <1>5, <1>9, <1>10
<1>12. ScannedSoFar'
  BY <1>1, <1>10, <1>11 DEF ScannedSoFar
<1>13. ReadSoFar'
  BY <1>1, ReadStays DEF IInv
<1>14. QED
  BY <1>12, <1>13 DEF IInv

\* The end of the scan: every row was looked at.
LEMMA EndScanKeeps ==
  ASSUME InputsAreTables, IInv, EndScan
  PROVE  IInv'
<1>1. /\ stage = "scan" /\ row >= TupleCount /\ stage' = "done"
      /\ UNCHANGED <<table, input, texts, col, rows, outputs, columns, cols, pred, row, out>>
  BY DEF EndScan, fixedVars, queryVars
<1>2. Scannable /\ row \in 0 .. Len(Lines) /\ out = IF row = 0 THEN <<>> ELSE MeantOf[row]
  BY <1>1 DEF IInv, ScannedSoFar
<1>3. TupleCount = Len(Lines)
  BY <1>1, Counted
<1>4. Len(Lines) \in Nat
  BY <1>1, AllRead DEF IInv
<1>5. row = Len(Lines)
  BY <1>1, <1>2, <1>3, <1>4
<1>6. Lines' = Lines /\ MeantOf' = MeantOf /\ Scannable'
  BY <1>1, <1>2, ScanLeaves
<1>7. ScannedSoFar'
  BY <1>1, <1>2, <1>5, <1>6 DEF ScannedSoFar
<1>8. ReadSoFar'
  BY <1>1, ReadStays DEF IInv
<1>9. QED
  BY <1>7, <1>8 DEF IInv

\* A step that changes nothing
LEMMA StutterKeeps ==
  ASSUME IInv, UNCHANGED vars
  PROVE  IInv'
<1>1. UNCHANGED <<stage, table, input, texts, file, pos, col, rows, outputs, columns, cols, pred, row, out>>
  BY DEF vars
<1>2. Types' = Types /\ Lines' = Lines /\ MeantOf' = MeantOf /\ (Scannable => Scannable')
  BY <1>1, ScanLeaves DEF Types
<1>3. ReadSoFar'
  BY <1>1, <1>2 DEF IInv, ReadSoFar
<1>4. ScannedSoFar'
  BY <1>1, <1>2 DEF IInv, ScannedSoFar
<1>5. QED
  BY <1>3, <1>4 DEF IInv

\* The invariant holds in every state of every behaviour.
LEMMA IInvHolds ==
  ASSUME QueriesAgree, InputsAreTables, PredicatesAreMeant, Garbage \notin Nat \X Nat
  PROVE  Spec => []IInv
<1>1. Init => IInv
  BY IInvInit
<1>2. IInv /\ [Next]_vars => IInv'
  <2>1. SUFFICES ASSUME IInv, [Next]_vars PROVE IInv'
    OBVIOUS
  <2>2. CASE ReadColumn
    BY <2>1, <2>2, ReadColumnKeeps
  <2>3. CASE EndLine
    BY <2>1, <2>3, EndLineKeeps
  <2>4. CASE EndFile
    BY <2>1, <2>4, EndFileKeeps
  <2>5. CASE EndRead
    BY <2>1, <2>5, EndReadKeeps
  <2>6. CASE WritePages
    BY <2>1, <2>6, WritePagesKeeps
  <2>7. CASE MapColumns
    BY <2>1, <2>7, MapColumnsKeeps
  <2>8. CASE ScanRow
    BY <2>1, <2>8, ScanRowKeeps
  <2>9. CASE EndScan
    BY <2>1, <2>9, EndScanKeeps
  <2>10. CASE UNCHANGED vars
    BY <2>1, <2>10, StutterKeeps
  <2>11. QED
    BY <2>1, <2>2, <2>3, <2>4, <2>5, <2>6, <2>7, <2>8, <2>9, <2>10 DEF Next, Finished
<1>3. QED
  BY <1>1, <1>2, PTL DEF Spec

\* And it says that rows come back as they were written.
LEMMA IInvMeans ==
  ASSUME InputsAreTables, IInv
  PROVE  RowsAsWritten
<1>1. /\ row \in 0 .. Len(Lines) /\ out = IF row = 0 THEN <<>> ELSE MeantOf[row]
      /\ stage = "done" => row = Len(Lines)
  BY DEF IInv, ScannedSoFar
<1>2. stage = "done" => rows = Len(Lines)
  BY DEF IInv, ReadSoFar
<1>3. Len(Lines) \in Nat
  BY TableIs DEF IInv, ReadSoFar
<1>4. MeantOf[0] = <<>>
  BY <1>3, MeantIs
<1>5. out = MeantOf[row]
  BY <1>1, <1>4
<1>6. IsPrefix(MeantOf[row], Meant)
  BY <1>1, <1>3, MeantGrows
<1>7. IsPrefix(out, Meant)
  BY <1>5, <1>6, Zenon
<1>8. stage = "done" => out = Meant
  BY <1>1, <1>5, Zenon DEF Meant
<1>9. QED
  BY <1>2, <1>7, <1>8 DEF RowsAsWritten

\* Whatever rows the files of a table hold, in however many files, and whichever columns
\* a query uses: the scan passes on, in their order, exactly the rows that the predicate
\* means, with the values the files meant, and the import counts every line.
THEOREM RowsComeBack ==
  ASSUME QueriesAgree, InputsAreTables, PredicatesAreMeant, Garbage \notin Nat \X Nat
  PROVE  Spec => []RowsAsWritten
<1>1. Spec => []IInv
  BY IInvHolds
<1>2. IInv => RowsAsWritten
  BY IInvMeans
<1>3. QED
  BY <1>1, <1>2, PTL
=============================================================================
