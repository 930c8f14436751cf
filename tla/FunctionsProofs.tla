--------------------------- MODULE FunctionsProofs ---------------------------
(***************************************************************************)
(* Theorems about the calendar of Fechas, for every date there is, and     *)
(* about the generators of Seqtools, for every text and every size.        *)
(***************************************************************************)
EXTENDS MCFunctions, SequenceFacts

-----------------------------------------------------------------------------
(* next_month, field by field *)

\* The dates there are.
Dates == {d \in Nat \X Nat \X Nat : IsDate(d)}

LEMMA MinOfTwo == ASSUME NEW a \in Int, NEW b \in Int
                  PROVE  Min({a, b}) = IF a <= b THEN a ELSE b
<1>1. \E x \in {a, b} : \A y \in {a, b} : x <= y
  OBVIOUS
<1> QED
  BY <1>1 DEF Min

LEMMA MonthRangeIn == \A y, m \in Nat : MonthRange(y, m) \in 28 .. 31
BY DEF MonthRange

LEMMA DatesAre ==
    \A y, m, k \in Nat : IsDate(<<y, m, k>>) => <<y, m, k>> \in Dates
<1> SUFFICES ASSUME NEW y \in Nat, NEW m \in Nat, NEW k \in Nat, IsDate(<<y, m, k>>)
             PROVE  <<y, m, k>> \in Dates
  OBVIOUS
<1>1. <<y, m, k>> \in Nat \X Nat \X Nat
  OBVIOUS
<1> QED
  BY <1>1, Zenon DEF Dates

\* next_month, field by field.
LEMMA NextMonthFields ==
    ASSUME NEW d \in Dates
    PROVE  LET y == IF d[2] < 12 THEN d[1] ELSE d[1] + 1
               m == IF d[2] < 12 THEN d[2] + 1 ELSE 1
           IN  /\ y \in Nat /\ m \in 1 .. 12
               /\ next_month(d) = <<y, m, IF MonthRange(y, m) <= d[3] THEN MonthRange(y, m) ELSE d[3]>>
<1> DEFINE y == IF d[2] < 12 THEN d[1] ELSE d[1] + 1
           m == IF d[2] < 12 THEN d[2] + 1 ELSE 1
<1>1. d[1] \in Nat /\ d[2] \in 1 .. 12 /\ d[3] \in Nat
  BY DEF Dates, IsDate
<1>2. y \in Nat /\ m \in 1 .. 12
  BY <1>1
<1>3. MonthAfter(d) = <<y, m>>
  BY DEF MonthAfter
<1> HIDE DEF y, m
<1>4. MonthRange(y, m) \in 28 .. 31
  BY <1>2, MonthRangeIn
<1>5. Min({MonthRange(y, m), d[3]}) = IF MonthRange(y, m) <= d[3] THEN MonthRange(y, m) ELSE d[3]
  BY <1>1, <1>4, MinOfTwo
<1>6. next_month(d) = <<y, m, IF MonthRange(y, m) <= d[3] THEN MonthRange(y, m) ELSE d[3]>>
  BY <1>3, <1>5 DEF next_month
<1> QED
  BY <1>2, <1>6 DEF y, m

\* next_month gives a date of the month that follows, never the 31st of a
\* short one, nor a 29th of February out of a leap year: the same day, or an
\* earlier one, which is then the last of its month. It raises no ValueError
\* before the last month of MAXYEAR.
THEOREM NextMonthIsDate ==
    ASSUME NEW year \in 1 .. (MAXYEAR - 1), NEW month \in Nat, NEW dom \in Nat,
           IsDate(<<year, month, dom>>)
    PROVE  LET n == next_month(<<year, month, dom>>)
           IN  /\ n \in Dates
               /\ \/ n[1] = year /\ n[2] = month + 1
                  \/ n[1] = year + 1 /\ n[2] = 1 /\ month = 12
               /\ n[3] = dom \/ (n[3] < dom /\ n[3] = MonthRange(n[1], n[2]))
<1> DEFINE y == IF month < 12 THEN year ELSE year + 1
           m == IF month < 12 THEN month + 1 ELSE 1
           k == IF MonthRange(y, m) <= dom THEN MonthRange(y, m) ELSE dom
<1>0. MAXYEAR \in Nat
  BY DEF MAXYEAR
<1>1. month \in 1 .. 12 /\ dom \in Nat \ {0}
  BY DEF IsDate
<1>2. y \in 1 .. MAXYEAR /\ m \in 1 .. 12
  <2>1. CASE month < 12
    BY <1>0, <1>1, <2>1
  <2>2. CASE month = 12
    BY <1>0, <1>1, <2>2
  <2> QED
    BY <1>1, <2>1, <2>2
<1>3. \/ y = year /\ m = month + 1
      \/ y = year + 1 /\ m = 1 /\ month = 12
  BY <1>1
<1>4. next_month(<<year, month, dom>>) = <<y, m, k>>
  <2>1. <<year, month, dom>> \in Dates
    <3>1. year \in Nat
      BY <1>0
    <3> QED
      BY <3>1, DatesAre, Zenon
  <2> QED
    BY <2>1, NextMonthFields
<1>5. MonthRange(y, m) \in 28 .. 31
  BY <1>2, MonthRangeIn
<1>6. k \in 1 .. MonthRange(y, m) /\ (k = dom \/ (k < dom /\ k = MonthRange(y, m)))
  BY <1>1, <1>5
<1> HIDE DEF y, m, k
<1>7. <<y, m, k>> \in Dates
  <2>1. y \in Nat /\ m \in Nat /\ k \in Nat
    BY <1>0, <1>2, <1>5, <1>6
  <2>2. IsDate(<<y, m, k>>)
    BY <1>2, <1>6 DEF IsDate
  <2> QED
    BY <2>1, <2>2, DatesAre, Zenon
<1> QED
  BY <1>3, <1>4, <1>6, <1>7

\* Of two dates the later one's next month is not the earlier: no order of
\* dates is turned round by moving them a month on.
THEOREM NextMonthInOrder ==
    ASSUME NEW d \in Dates, NEW e \in Dates, Before(d, e)
    PROVE  ~ Before(next_month(e), next_month(d))
<1>1. /\ d[1] \in Nat /\ d[2] \in 1 .. 12 /\ d[3] \in Nat
      /\ e[1] \in Nat /\ e[2] \in 1 .. 12 /\ e[3] \in Nat
  BY DEF Dates, IsDate
<1>2. CASE d[1] = e[1] /\ d[2] = e[2] /\ d[3] < e[3]
  <2> DEFINE y == IF d[2] < 12 THEN d[1] ELSE d[1] + 1
             m == IF d[2] < 12 THEN d[2] + 1 ELSE 1
             r == MonthRange(y, m)
  <2>1. /\ next_month(d) = <<y, m, IF r <= d[3] THEN r ELSE d[3]>>
        /\ next_month(e) = <<y, m, IF r <= e[3] THEN r ELSE e[3]>>
        /\ y \in Nat /\ m \in 1 .. 12
    BY <1>2, NextMonthFields
  <2>2. r \in 28 .. 31
    BY <2>1, MonthRangeIn
  <2> HIDE DEF y, m, r
  <2> QED
    BY <1>1, <1>2, <2>1, <2>2 DEF Before
<1>3. CASE d[1] < e[1] \/ (d[1] = e[1] /\ d[2] < e[2])
  <2>1. /\ next_month(d)[1] = IF d[2] < 12 THEN d[1] ELSE d[1] + 1
        /\ next_month(d)[2] = IF d[2] < 12 THEN d[2] + 1 ELSE 1
        /\ next_month(e)[1] = IF e[2] < 12 THEN e[1] ELSE e[1] + 1
        /\ next_month(e)[2] = IF e[2] < 12 THEN e[2] + 1 ELSE 1
    BY NextMonthFields
  <2> QED
    BY <1>1, <1>3, <2>1 DEF Before
<1> QED
  BY <1>2, <1>3 DEF Before

-----------------------------------------------------------------------------
(* next_month, by counting days *)

LEMMA MaxOfTwo == ASSUME NEW a \in Int, NEW b \in Int
                  PROVE  Max({a, b}) = IF a >= b THEN a ELSE b
<1>1. \E x \in {a, b} : \A z \in {a, b} : x >= z
  OBVIOUS
<1> QED
  BY <1>1 DEF Max

\* The days before a month.
DaysTo(year, month) ==
    365 * (year - 1) + (year - 1) \div 4 - (year - 1) \div 100 + (year - 1) \div 400
      + DaysBefore(year, month)

\* A month is as long as the days from its first to the first of the next.
LEMMA MonthAdds ==
    ASSUME NEW year \in Nat \ {0}, NEW month \in 1 .. 12
    PROVE  /\ DaysTo(year, month) \in Int
           /\ month < 12 => DaysTo(year, month + 1) = DaysTo(year, month) + MonthRange(year, month)
           /\ month = 12 => DaysTo(year + 1, 1) = DaysTo(year, month) + MonthRange(year, month)
<1> DEFINE z == year - 1
           years == 365 * z + z \div 4 - z \div 100 + z \div 400
           leap == IF IsLeap(year) THEN 1 ELSE 0
<1>1. z \in Nat /\ year = z + 1 /\ (year + 1) - 1 = z + 1 /\ years \in Int /\ leap \in {0, 1}
  OBVIOUS
<1>2. 365 * (z + 1) + (z + 1) \div 4 - (z + 1) \div 100 + (z + 1) \div 400 = years + 365 + leap
  <2>1. (z + 1) \div 4 = z \div 4 + (IF (z + 1) % 4 = 0 THEN 1 ELSE 0)
    BY <1>1
  <2>2. (z + 1) \div 100 = z \div 100 + (IF (z + 1) % 100 = 0 THEN 1 ELSE 0)
    BY <1>1
  <2>3. (z + 1) \div 400 = z \div 400 + (IF (z + 1) % 400 = 0 THEN 1 ELSE 0)
    BY <1>1
  <2>4. (z + 1) % 400 = 0 => (z + 1) % 100 = 0
    BY <1>1
  <2>5. (z + 1) % 100 = 0 => (z + 1) % 4 = 0
    BY <1>1
  <2>6. leap = (IF (z + 1) % 4 = 0 THEN 1 ELSE 0) - (IF (z + 1) % 100 = 0 THEN 1 ELSE 0)
                 + (IF (z + 1) % 400 = 0 THEN 1 ELSE 0)
    BY <1>1, <2>4, <2>5 DEF IsLeap
  <2> QED
    BY <1>1, <2>1, <2>2, <2>3, <2>6
<1>3. \A k \in 1 .. 12 : DaysTo(year, k) = years + DaysBefore(year, k)
  BY <1>1 DEF DaysTo
<1>4. DaysTo(year + 1, 1) = years + 365 + leap
  BY <1>1, <1>2 DEF DaysTo, DaysBefore
<1> HIDE DEF years, z
<1>5. DaysTo(year, month) \in Int
  BY <1>1, <1>3 DEF DaysBefore
<1>6. ASSUME month < 12
      PROVE  DaysTo(year, month + 1) = DaysTo(year, month) + MonthRange(year, month)
  <2>1. DaysBefore(year, month + 1) = DaysBefore(year, month) + MonthRange(year, month)
    BY <1>6 DEF DaysBefore, MonthRange
  <2>2. DaysBefore(year, month) \in Int /\ MonthRange(year, month) \in Int
    BY DEF DaysBefore, MonthRange
  <2>3. month + 1 \in 1 .. 12
    BY <1>6
  <2> QED
    BY <1>1, <1>3, <2>1, <2>2, <2>3
<1>7. ASSUME month = 12
      PROVE  DaysTo(year + 1, 1) = DaysTo(year, month) + MonthRange(year, month)
  <2>1. DaysBefore(year, 12) = 334 + leap /\ MonthRange(year, 12) = 31
    BY DEF DaysBefore, MonthRange
  <2> QED
    BY <1>1, <1>3, <1>4, <1>7, <2>1
<1> QED
  BY <1>5, <1>6, <1>7

LEMMA OrdinalIs == \A date : Ordinal(date) = DaysTo(date[1], date[2]) + date[3]
BY DEF Ordinal, DaysTo

\* The next month of a date, and how far away it is.
LEMMA NextMonthCounts ==
    ASSUME NEW date \in Dates
    PROVE  LET year == IF date[2] < 12 THEN date[1] ELSE date[1] + 1
               month == IF date[2] < 12 THEN date[2] + 1 ELSE 1
               r == MonthRange(year, month)
           IN  /\ next_month(date)[1] = year /\ next_month(date)[2] = month
               /\ year \in Nat \ {0} /\ month \in 1 .. 12 /\ r \in 28 .. 31
               /\ DaysTo(year, month) \in Int
               /\ DaysTo(year, month) = DaysTo(date[1], date[2]) + MonthRange(date[1], date[2])
               /\ Ordinal(next_month(date))
                    = DaysTo(year, month) + (IF r <= date[3] THEN r ELSE date[3])
<1> DEFINE year == IF date[2] < 12 THEN date[1] ELSE date[1] + 1
           month == IF date[2] < 12 THEN date[2] + 1 ELSE 1
           r == MonthRange(year, month)
           k == IF r <= date[3] THEN r ELSE date[3]
<1>0. /\ date[1] \in 1 .. MAXYEAR /\ date[2] \in 1 .. 12
      /\ date \in Nat \X Nat \X Nat
  BY DEF Dates, IsDate
<1>m. MAXYEAR \in Nat
  BY DEF MAXYEAR
<1>1. date[1] \in Nat \ {0} /\ date[2] \in 1 .. 12 /\ date[3] \in Nat
  BY <1>0, <1>m
<1>2. year \in Nat \ {0} /\ month \in 1 .. 12 /\ next_month(date) = <<year, month, k>>
  BY <1>1, NextMonthFields
<1>3. DaysTo(year, month) = DaysTo(date[1], date[2]) + MonthRange(date[1], date[2])
  BY <1>1, MonthAdds
<1> HIDE DEF year, month
<1>4. r \in 28 .. 31 /\ DaysTo(year, month) \in Int
  BY <1>2, MonthRangeIn, MonthAdds
<1>5. Ordinal(next_month(date)) = DaysTo(year, month) + k
  BY <1>2, OrdinalIs
<1> QED
  BY <1>2, <1>3, <1>4, <1>5 DEF year, month

\* Today is a date, and not after the last day.
DayInv == day \in Dates /\ (day = LastDay \/ Before(day, LastDay))

LEMMA NextDayIsDate ==
    ASSUME NEW date \in Dates, date[1] < MAXYEAR
    PROVE  /\ next_day(date) \in Dates
           /\ \/ next_day(date) = <<date[1], date[2], date[3] + 1>>
                    /\ date[3] + 1 <= MonthRange(date[1], date[2])
              \/ next_day(date) = <<date[1], date[2] + 1, 1>> /\ date[2] < 12
                    /\ date[3] = MonthRange(date[1], date[2])
              \/ next_day(date) = <<date[1] + 1, 1, 1>> /\ date[2] = 12
                    /\ date[3] = MonthRange(date[1], date[2])
<1> DEFINE yy == date[1]
           mm == date[2]
           dd == date[3]
           r == MonthRange(yy, mm)
<1>0. MAXYEAR \in Nat
  BY DEF MAXYEAR
<1>1. yy \in 1 .. MAXYEAR /\ mm \in 1 .. 12 /\ dd \in 1 .. r /\ r \in 28 .. 31
  BY <1>0, MonthRangeIn DEF Dates, IsDate
<1>2. next_day(date) = IF dd < r THEN <<yy, mm, dd + 1>>
                       ELSE IF mm < 12 THEN <<yy, mm + 1, 1>>
                       ELSE <<yy + 1, 1, 1>>
  BY DEF next_day
<1> SUFFICES /\ next_day(date) \in Dates
             /\ \/ next_day(date) = <<yy, mm, dd + 1>> /\ dd + 1 <= r
                \/ next_day(date) = <<yy, mm + 1, 1>> /\ mm < 12 /\ dd = r
                \/ next_day(date) = <<yy + 1, 1, 1>> /\ mm = 12 /\ dd = r
  OBVIOUS
<1>a. yy < MAXYEAR
  OBVIOUS
<1> HIDE DEF yy, mm, dd
<1>3. CASE dd < r
  <2>1. next_day(date) = <<yy, mm, dd + 1>>
    <3> HIDE DEF r
    <3> QED
      BY <1>2, <1>3
  <2>r. dd + 1 \in 1 .. r
    <3> HIDE DEF r
    <3> QED
      BY <1>1, <1>3
  <2>2. yy \in Nat /\ mm \in Nat /\ dd + 1 \in Nat
    BY <1>0, <1>1
  <2>3. IsDate(<<yy, mm, dd + 1>>)
    BY <1>1, <2>r DEF IsDate
  <2>4. <<yy, mm, dd + 1>> \in Dates
    BY <2>2, <2>3, DatesAre, Zenon
  <2>5. dd + 1 <= r
    <3> HIDE DEF r
    <3> QED
      BY <1>1, <1>3
  <2> QED
    BY <2>1, <2>4, <2>5
<1>4. CASE dd = r /\ mm < 12
  <2>1. next_day(date) = <<yy, mm + 1, 1>>
    BY <1>1, <1>2, <1>4
  <2>2. yy \in Nat /\ mm + 1 \in Nat /\ 1 \in Nat
    BY <1>0, <1>1
  <2>3. MonthRange(yy, mm + 1) \in 28 .. 31
    BY <2>2, MonthRangeIn
  <2>4. IsDate(<<yy, mm + 1, 1>>)
    BY <1>1, <1>4, <2>3 DEF IsDate
  <2>5. <<yy, mm + 1, 1>> \in Dates
    BY <2>2, <2>4, DatesAre, Zenon
  <2> QED
    BY <1>4, <2>1, <2>5
<1>5. CASE dd = r /\ mm = 12
  <2>1. next_day(date) = <<yy + 1, 1, 1>>
    BY <1>1, <1>2, <1>5
  <2>2. yy + 1 \in Nat /\ 1 \in Nat
    BY <1>0, <1>1
  <2>3. MonthRange(yy + 1, 1) \in 28 .. 31
    BY <2>2, MonthRangeIn
  <2>4. IsDate(<<yy + 1, 1, 1>>)
    BY <1>0, <1>1, <1>a, <2>3 DEF IsDate
  <2>5. <<yy + 1, 1, 1>> \in Dates
    BY <2>2, <2>4, DatesAre, Zenon
  <2> QED
    BY <1>5, <2>1, <2>5
<1> QED
  BY <1>1, <1>3, <1>4, <1>5

LEMMA DayStep ==
    ASSUME FechasAssumption, DayInv, [MCNext]_<<day, seqVars>>
    PROVE  DayInv'
<1>0. MAXYEAR \in Nat
  BY DEF MAXYEAR
<1>1. CASE Tomorrow
  <2>1. day # LastDay /\ day' = next_day(day) /\ day \in Dates /\ Before(day, LastDay)
    BY <1>1 DEF Tomorrow, DayInv
  <2>2. /\ LastDay \in Nat \X Nat \X Nat /\ LastDay[1] < MAXYEAR
        /\ LastDay[2] \in 1 .. 12 /\ LastDay[3] \in 1 .. MonthRange(LastDay[1], LastDay[2])
    BY DEF FechasAssumption, IsDate
  <2>3. /\ day[1] \in Nat /\ day[2] \in 1 .. 12 /\ day[3] \in Nat
    BY <2>1 DEF Dates, IsDate
  <2>4. /\ LastDay = <<LastDay[1], LastDay[2], LastDay[3]>>
        /\ LastDay[1] \in Nat /\ LastDay[2] \in Nat /\ LastDay[3] \in Nat \ {0}
        /\ MonthRange(LastDay[1], LastDay[2]) \in Nat
    <3>1. LastDay[1] \in Nat /\ LastDay[2] \in Nat
      BY <2>2
    <3> QED
      BY <2>2, <3>1, MonthRangeIn
  <2>5. day[1] < MAXYEAR
    BY <1>0, <2>1, <2>2, <2>3, <2>4 DEF Before
  <2>6. next_day(day) = LastDay \/ Before(next_day(day), LastDay)
    <3>1. CASE day[1] = LastDay[1] /\ day[2] = LastDay[2]
      <4>1. day[3] < LastDay[3] /\ LastDay[3] <= MonthRange(day[1], day[2])
        BY <2>1, <2>2, <2>3, <2>4, <3>1 DEF Before
      <4>2. next_day(day) = <<day[1], day[2], day[3] + 1>>
        BY <2>1, <2>3, <2>4, <2>5, <3>1, <4>1, NextDayIsDate
      <4>3. LastDay = <<day[1], day[2], LastDay[3]>>
        BY <2>4, <3>1, Zenon
      <4>4. CASE day[3] + 1 = LastDay[3]
        BY <4>2, <4>3, <4>4, Zenon
      <4>5. CASE day[3] + 1 < LastDay[3]
        BY <3>1, <4>2, <4>5 DEF Before
      <4> QED
        BY <2>3, <2>4, <4>1, <4>4, <4>5
    <3>2. CASE day[1] = LastDay[1] /\ day[2] < LastDay[2]
      <4>1. CASE next_day(day) = <<day[1], day[2], day[3] + 1>>
        BY <3>2, <4>1 DEF Before
      <4>2. CASE next_day(day) = <<day[1], day[2] + 1, 1>>
        <5>1. CASE day[2] + 1 < LastDay[2]
          BY <3>2, <4>2, <5>1 DEF Before
        <5>2. CASE day[2] + 1 = LastDay[2] /\ LastDay[3] > 1
          BY <3>2, <4>2, <5>2 DEF Before
        <5>3. CASE day[2] + 1 = LastDay[2] /\ LastDay[3] = 1
          BY <2>4, <3>2, <4>2, <5>3, Zenon
        <5> QED
          BY <2>3, <2>4, <3>2, <5>1, <5>2, <5>3
      <4>3. day[2] # 12
        BY <2>2, <2>3, <2>4, <3>2
      <4> QED
        BY <2>1, <2>5, <4>1, <4>2, <4>3, NextDayIsDate
    <3>3. CASE day[1] < LastDay[1]
      <4>1. CASE next_day(day)[1] = day[1]
        BY <3>3, <4>1 DEF Before
      <4>2. CASE next_day(day) = <<day[1] + 1, 1, 1>>
        <5>1. CASE day[1] + 1 < LastDay[1]
          BY <4>2, <5>1 DEF Before
        <5>2. CASE day[1] + 1 = LastDay[1] /\ LastDay[2] > 1
          BY <4>2, <5>2 DEF Before
        <5>3. CASE day[1] + 1 = LastDay[1] /\ LastDay[2] = 1 /\ LastDay[3] > 1
          BY <4>2, <5>3 DEF Before
        <5>4. CASE day[1] + 1 = LastDay[1] /\ LastDay[2] = 1 /\ LastDay[3] = 1
          BY <2>4, <4>2, <5>4, Zenon
        <5> QED
          BY <2>2, <2>3, <2>4, <3>3, <5>1, <5>2, <5>3, <5>4
      <4> QED
        BY <2>1, <2>5, <4>1, <4>2, NextDayIsDate
    <3> QED
      BY <2>1, <3>1, <3>2, <3>3 DEF Before
  <2> QED
    BY <2>1, <2>5, <2>6, NextDayIsDate DEF DayInv
<1>2. CASE UNCHANGED day
  BY <1>2 DEF DayInv
<1> QED
  BY <1>1, <1>2 DEF MCNext

LEMMA DayInit == FechasAssumption /\ MCInit => DayInv
<1> SUFFICES ASSUME FechasAssumption, MCInit PROVE DayInv
  OBVIOUS
<1>1. \A date \in {FirstDay, LastDay} : date \in Dates
  BY DEF FechasAssumption, Dates
<1> QED
  BY <1>1 DEF MCInit, StartWalking, DayInv, FechasAssumption

LEMMA DayNear == FechasAssumption /\ DayInv => NextMonthNear
<1> SUFFICES ASSUME FechasAssumption, DayInv PROVE NextMonthNear
  OBVIOUS
<1> DEFINE n == next_month(day)
           e == next_day(day)
           r == MonthRange(n[1], n[2])
<1>0. MAXYEAR \in Nat
  BY DEF MAXYEAR
<1>1. /\ day \in Dates /\ day[1] < MAXYEAR /\ day[1] \in Nat \ {0}
      /\ day[2] \in 1 .. 12 /\ day[3] \in Nat \ {0}
  <2>1. LastDay[1] < MAXYEAR /\ LastDay[1] \in Nat
    BY DEF FechasAssumption
  <2>2. day[1] \in Nat \ {0} /\ day[2] \in 1 .. 12 /\ day[3] \in Nat \ {0}
    BY <1>0, MonthRangeIn DEF DayInv, Dates, IsDate
  <2> QED
    BY <1>0, <2>1, <2>2 DEF DayInv, Before
<1>2. day = <<day[1], day[2], day[3]>>
  BY <1>1 DEF Dates
<1>3. n \in Dates
  <2>1. day[1] \in 1 .. (MAXYEAR - 1) /\ day[2] \in Nat /\ day[3] \in Nat
    BY <1>0, <1>1
  <2>2. IsDate(<<day[1], day[2], day[3]>>)
    BY <1>1, <1>2 DEF Dates
  <2>3. next_month(<<day[1], day[2], day[3]>>) \in Dates
    BY <2>1, <2>2, NextMonthIsDate
  <2> QED
    BY <1>2, <2>3, Zenon
<1>4. /\ r \in 28 .. 31 /\ DaysTo(n[1], n[2]) \in Int
      /\ DaysTo(n[1], n[2]) = DaysTo(Y, M) + MonthRange(Y, M)
      /\ Ordinal(n) = DaysTo(n[1], n[2]) + (IF r <= D THEN r ELSE D)
      /\ n[1] = IF M < 12 THEN Y ELSE Y + 1
      /\ n[2] = IF M < 12 THEN M + 1 ELSE 1
  BY <1>1, NextMonthCounts DEF Y, M, D
<1>5. /\ DaysTo(Y, M) \in Int /\ MonthRange(Y, M) \in 28 .. 31
      /\ Ordinal(day) = DaysTo(Y, M) + D /\ D \in Nat
  <2>1. Y \in Nat \ {0} /\ M \in 1 .. 12 /\ M \in Nat /\ D \in Nat
    BY <1>1 DEF Y, M, D
  <2>2. DaysTo(Y, M) \in Int
    BY <2>1, MonthAdds
  <2>3. MonthRange(Y, M) \in 28 .. 31
    BY <2>1, MonthRangeIn
  <2>4. Ordinal(day) = DaysTo(Y, M) + D
    BY OrdinalIs DEF Y, M, D
  <2> QED
    BY <2>1, <2>2, <2>3, <2>4
<1>6. Max({0, D - r}) = IF 0 >= D - r THEN 0 ELSE D - r
  BY <1>4, <1>5, MaxOfTwo
<1>7. Ordinal(n) = Ordinal(day) + MonthRange(Y, M) - Max({0, D - r})
  BY <1>4, <1>5, <1>6
<1>8. Ordinal(next_month(e)) >= Ordinal(n)
  <2>0. e \in Dates
    BY <1>1, NextDayIsDate
  <2>1. CASE e = <<Y, M, D + 1>>
    <3>1. Ordinal(next_month(e)) = DaysTo(n[1], n[2]) + (IF r <= D + 1 THEN r ELSE D + 1)
      <4>1. e[1] = Y /\ e[2] = M /\ e[3] = D + 1
        BY <2>1
      <4>2. Ordinal(next_month(e))
              = DaysTo(n[1], n[2]) + (IF r <= e[3] THEN r ELSE e[3])
        BY <1>4, <2>0, <4>1, NextMonthCounts
      <4> QED
        BY <4>1, <4>2
    <3> HIDE DEF e, n
    <3> QED
      BY <1>4, <1>5, <3>1
  <2>2. CASE e = <<n[1], n[2], 1>>
    <3>1. e[1] = n[1] /\ e[2] = n[2] /\ e[3] = 1
      BY <2>2
    <3> HIDE DEF e
    <3>2. \E far \in Int, q \in 28 .. 31 :
             /\ far = DaysTo(n[1], n[2]) + r
             /\ Ordinal(next_month(e)) = far + (IF q <= 1 THEN q ELSE 1)
      BY <2>0, <3>1, NextMonthCounts
    <3> HIDE DEF n
    <3> QED
      BY <1>4, <1>5, <3>2
  <2> QED
    BY <1>1, <1>4, <2>1, <2>2, NextDayIsDate DEF Y, M, D
<1>9. IsDate(n)
  BY <1>3 DEF Dates
<1> QED
  BY <1>7, <1>8, <1>9 DEF NextMonthNear

\* Between any two dates: next_month is a month away, by the count of days, or
\* nearer by the days the next month lacks, and moving a month on never turns
\* two days round.
THEOREM NextMonthsNear == MCSpec => []NextMonthNear
<1>1. DayInv /\ [MCNext]_<<day, seqVars>> => DayInv'
  BY FechasAssumption, DayStep
<1>2. MCInit => DayInv
  BY FechasAssumption, DayInit
<1>3. DayInv => NextMonthNear
  BY FechasAssumption, DayNear
<1> QED
  BY <1>1, <1>2, <1>3, PTL DEF MCSpec

-----------------------------------------------------------------------------
(* What the patterns read *)

LEMMA FitsAre ==
    /\ \A n, v, f, ns : Fits(Num(n, v), Digits(f, ns)) <=> n \in ns
    /\ \A n, v, s : "num" \notin s => ~ Fits(Num(n, v), OneOf(s))
    /\ \A n, v, f : ~ Fits(Num(n, v), Letters(f))
    /\ \A n, v, f : n \in 1 .. 9 => Fits(Num(n, v), Word(f))
    /\ \A m, f : Fits(Month(m), Word(f)) /\ Fits(Month(m), Letters(f))
    /\ \A c, s : c # "num" => (Fits(Mark(c), OneOf(s)) <=> c \in s)
    /\ \A c, f, ns : c # "num" => ~ Fits(Mark(c), Digits(f, ns))
BY DEF Fits, Num, Month, Mark, Digits, Word, Letters, OneOf

LEMMA ValuesAre ==
    /\ \A n, v : Num(n, v).value = v
    /\ \A m : Month(m).value = m
BY DEF Num, Month

LEMMA FieldsAre ==
    /\ \A f, ns : Digits(f, ns).field = f
    /\ \A f : Word(f).field = f /\ Letters(f).field = f
    /\ \A s : OneOf(s).field = "none"
BY DEF Digits, Word, Letters, OneOf

\* The field is at k of the pattern and nowhere else; the field is not in it.
FieldAt(p, f, k) == k \in DOMAIN p /\ \A i \in DOMAIN p : p[i].field = f <=> i = k
NoField(p, f) == \A i \in DOMAIN p : p[i].field # f

LEMMA GroupAt ==
    ASSUME NEW text, NEW p, NEW f, NEW k, FieldAt(p, f, k)
    PROVE  Group(text, p, f) = text[k].value
<1> DEFINE at == {i \in DOMAIN p : p[i].field = f}
<1>1. at = {k}
  BY DEF FieldAt
<1>2. at # {} /\ (CHOOSE i \in at : TRUE) = k
  BY <1>1
<1>3. Group(text, p, f) = IF at = {} THEN 0 ELSE text[CHOOSE i \in at : TRUE].value
  BY Zenon DEF Group
<1> HIDE DEF at
<1> QED
  BY <1>2, <1>3, Zenon

LEMMA GroupMissing ==
    ASSUME NEW text, NEW p, NEW f, NoField(p, f)
    PROVE  Group(text, p, f) = 0
BY DEF Group, NoField

\* A year of two digits is one of this century.
Full(y) == IF y <= 100 THEN y + 2000 ELSE y

\* The places of the fields of a date, or of a time.
DateAt(p, y, m, d) == FieldAt(p, "year", y) /\ FieldAt(p, "month", m) /\ FieldAt(p, "day", d)

LEMMA DateRead ==
    ASSUME NEW text, NEW p, NEW y, NEW m, NEW d, DateAt(p, y, m, d)
    PROVE  _to_year_month_day(text, p) = <<Full(text[y].value), text[m].value, text[d].value>>
<1>1. /\ Group(text, p, "year") = text[y].value
      /\ Group(text, p, "month") = text[m].value
      /\ Group(text, p, "day") = text[d].value
  BY GroupAt DEF DateAt
<1> QED
  BY <1>1 DEF _to_year_month_day, Full

ClockAt(p, h, m, s) ==
    /\ FieldAt(p, "hour", h) /\ FieldAt(p, "minute", m) /\ FieldAt(p, "second", s)
    /\ NoField(p, "tens")

LEMMA ClockRead ==
    ASSUME NEW text, NEW p, NEW h, NEW m, NEW s, ClockAt(p, h, m, s), text[s].value \in Nat
    PROVE  _to_hour_minute_second(text, p) = <<text[h].value, text[m].value, text[s].value>>
<1>1. /\ Group(text, p, "hour") = text[h].value
      /\ Group(text, p, "minute") = text[m].value
      /\ Group(text, p, "second") = text[s].value
  BY GroupAt DEF ClockAt
<1>2. Group(text, p, "tens") = 0
  BY GroupMissing DEF ClockAt
<1>3. text[s].value + 0 \div 10 = text[s].value
  OBVIOUS
<1> QED
  BY <1>1, <1>2, <1>3, Zenon DEF _to_hour_minute_second

TensAt(p, h, m, t) ==
    /\ FieldAt(p, "hour", h) /\ FieldAt(p, "minute", m) /\ FieldAt(p, "tens", t)
    /\ NoField(p, "second")

LEMMA TensRead ==
    ASSUME NEW text, NEW p, NEW h, NEW m, NEW t, TensAt(p, h, m, t), text[t].value \in Nat
    PROVE  _to_hour_minute_second(text, p) = <<text[h].value, text[m].value, text[t].value \div 10>>
<1>1. /\ Group(text, p, "hour") = text[h].value
      /\ Group(text, p, "minute") = text[m].value
      /\ Group(text, p, "tens") = text[t].value
  BY GroupAt DEF TensAt
<1>2. Group(text, p, "second") = 0
  BY GroupMissing DEF TensAt
<1>3. 0 + text[t].value \div 10 = text[t].value \div 10
  OBVIOUS
<1> QED
  BY <1>1, <1>2, <1>3, Zenon DEF _to_hour_minute_second

NoClock(p) == \A f \in {"hour", "minute", "second", "tens"} : NoField(p, f)

LEMMA NoClockRead ==
    ASSUME NEW text, NEW p, NoClock(p)
    PROVE  _to_hour_minute_second(text, p) = <<0, 0, 0>>
<1>1. /\ Group(text, p, "hour") = 0 /\ Group(text, p, "minute") = 0
      /\ Group(text, p, "second") = 0 /\ Group(text, p, "tens") = 0
  BY GroupMissing DEF NoClock
<1>2. 0 + 0 \div 10 = 0
  OBVIOUS
<1> QED
  BY <1>1, <1>2, Zenon DEF _to_hour_minute_second

\* The patterns of each length, and what they read. A clock that starts at k.
Long(p, n) == Len(p) = n /\ DOMAIN p = 1 .. n

LEMMA Patterns3 ==
    \A p \in PAT_ISO8601_DATE_BASIC : Long(p, 3) /\ DateAt(p, 1, 2, 3) /\ NoClock(p)
BY FieldsAre DEF PAT_ISO8601_DATE_BASIC, BasicDate, DateAt, NoClock, FieldAt, NoField, Long

LEMMA Patterns5 ==
    /\ \A p \in PAT_DMY : /\ Long(p, 5) /\ DateAt(p, 5, 3, 1) /\ NoClock(p)
                          /\ p[5] = Digits("year", {4})
    /\ \A p \in PAT_ISO8601_DATE_EXT : /\ Long(p, 5) /\ DateAt(p, 1, 3, 5) /\ NoClock(p)
                                       /\ p[1] = Digits("year", {4})
    /\ \A p \in PAT_FECHA_COMPLETA : /\ Long(p, 5) /\ DateAt(p, 5, 3, 1) /\ NoClock(p)
                                     /\ p[2] = OneOf({"de"})
BY FieldsAre DEF PAT_DMY, PAT_ISO8601_DATE_EXT, IsoDate, PAT_FECHA_COMPLETA,
                 DateAt, NoClock, FieldAt, NoField, Long

\* Where the patterns that stand for several sequences have their fields.
RfcDates(p) ==
    \/ Long(p, 5) /\ DateAt(p, 5, 3, 1) /\ p[2] = OneOf({"blank"})
    \/ Long(p, 6) /\ DateAt(p, 6, 4, 2) /\ p[1] = OneOf({"weekday"})

LEMMA RfcDatePatterns == \A p \in PAT_RFC822_DATE : RfcDates(p) /\ NoClock(p)
<1> SUFFICES ASSUME NEW p \in PAT_RFC822_DATE PROVE RfcDates(p) /\ NoClock(p)
  OBVIOUS
<1>1. CASE p = <<>> \o RfcDate
  BY <1>1, FieldsAre DEF RfcDate, RfcDates, DateAt, NoClock, FieldAt, NoField, Long
<1>2. CASE p = <<OneOf({"weekday"})>> \o RfcDate
  <2>1. /\ Long(p, 6)
        /\ p[1] = OneOf({"weekday"}) /\ p[2] = Digits("day", Some) /\ p[3] = OneOf({"blank"})
        /\ p[4] = Word("month") /\ p[5] = OneOf({"blank"}) /\ p[6] = Digits("year", Some)
    BY <1>2 DEF RfcDate, Long
  <2> QED
    BY <2>1, FieldsAre DEF RfcDates, DateAt, NoClock, FieldAt, NoField, Long
<1>3. PICK w \in Weekday : p = w \o RfcDate
  BY Zenon DEF PAT_RFC822_DATE
<1>4. w = <<>> \/ w = <<OneOf({"weekday"})>>
  BY <1>3, Zenon DEF Weekday
<1> QED
  BY <1>1, <1>2, <1>3, <1>4, Zenon

\* The elements for hh:mm:ss and for a day of RFC 822, from k on.
ClockOf(p, k, ns) ==
    /\ p[k] = Digits("hour", ns) /\ p[k + 1] = OneOf({":"}) /\ p[k + 2] = Digits("minute", ns)
    /\ p[k + 3] = OneOf({":"}) /\ p[k + 4] = Digits("second", ns)

RfcDayOf(p, k) ==
    /\ p[k] = Digits("day", Some) /\ p[k + 1] = OneOf({"blank"}) /\ p[k + 2] = Word("month")
    /\ p[k + 3] = OneOf({"blank"}) /\ p[k + 4] = Digits("year", Some)

\* The elements for yyyy-mm-dd, a blank or a T, and hh:mm:ss.
IsoMomentOf(p) ==
    /\ p[1] = Digits("year", {4}) /\ p[2] = OneOf({"-"}) /\ p[3] = Digits("month", {2})
    /\ p[4] = OneOf({"-"}) /\ p[5] = Digits("day", {2}) /\ p[6] = OneOf({"blank", "T"})
    /\ ClockOf(p, 7, {2})

LEMMA IsoMoments ==
    ASSUME NEW p
    PROVE  LET text(z) == IsoDate \o <<OneOf({"blank", "T"})>> \o Clock({2}) \o z
           IN  /\ p = text(<<>>) => Long(p, 11) /\ IsoMomentOf(p)
               /\ p = text(<<OneOf({"zone"})>>)
                    => Long(p, 12) /\ IsoMomentOf(p) /\ p[12] = OneOf({"zone"})
<1> DEFINE text(z) == IsoDate \o <<OneOf({"blank", "T"})>> \o Clock({2}) \o z
<1>1. p = text(<<>>) => Long(p, 11) /\ IsoMomentOf(p)
  BY DEF IsoDate, Clock, ClockOf, IsoMomentOf, Long
<1>2. p = text(<<OneOf({"zone"})>>) => Long(p, 12) /\ IsoMomentOf(p) /\ p[12] = OneOf({"zone"})
  BY DEF IsoDate, Clock, ClockOf, IsoMomentOf, Long
<1> QED
  BY <1>1, <1>2

LEMMA IsoPatterns ==
    /\ \A p \in PAT_ISO8601_DATETIME_BASIC :
          Long(p, 6) /\ DateAt(p, 1, 2, 3) /\ ClockAt(p, 4, 5, 6) /\ p[1] = Digits("year", {4})
    /\ \A p \in PAT_ISO8601_DATETIME_EXT_BASIC :
          /\ (Long(p, 11) \/ Long(p, 12)) /\ DateAt(p, 1, 3, 5) /\ ClockAt(p, 7, 9, 11)
          /\ p[1] = Digits("year", {4})
<1>1. ASSUME NEW p \in PAT_ISO8601_DATETIME_BASIC
      PROVE  Long(p, 6) /\ DateAt(p, 1, 2, 3) /\ ClockAt(p, 4, 5, 6) /\ p[1] = Digits("year", {4})
  BY FieldsAre DEF PAT_ISO8601_DATETIME_BASIC, BasicDate, BasicClock, DateAt, ClockAt,
                   FieldAt, NoField, Long
<1>2. ASSUME NEW p \in PAT_ISO8601_DATETIME_EXT_BASIC
      PROVE  /\ (Long(p, 11) \/ Long(p, 12)) /\ DateAt(p, 1, 3, 5) /\ ClockAt(p, 7, 9, 11)
             /\ p[1] = Digits("year", {4})
  <2>1. PICK z \in {<<>>, <<OneOf({"zone"})>>} :
          p = IsoDate \o <<OneOf({"blank", "T"})>> \o Clock({2}) \o z
    BY <1>2, Zenon DEF PAT_ISO8601_DATETIME_EXT_BASIC
  <2>2. z = <<>> \/ z = <<OneOf({"zone"})>>
    BY <2>1, Zenon
  <2>3. (Long(p, 11) \/ Long(p, 12)) /\ IsoMomentOf(p)
    BY <2>1, <2>2, IsoMoments, Zenon
  <2>4. CASE Long(p, 11)
    BY <2>3, <2>4, FieldsAre DEF IsoMomentOf, ClockOf, DateAt, ClockAt, FieldAt, NoField, Long
  <2>5. CASE Long(p, 12) /\ p[12] = OneOf({"zone"})
    BY <2>3, <2>5, FieldsAre DEF IsoMomentOf, ClockOf, DateAt, ClockAt, FieldAt, NoField, Long
  <2> QED
    BY <2>1, <2>2, <2>4, <2>5, IsoMoments, Zenon
<1> QED
  BY <1>1, <1>2

LEMMA NumericPatterns ==
    /\ \A p \in PAT_DDMMYYYYHHMMSS \cup PAT_DDMMYYHHMMSS :
          /\ Long(p, 11) /\ DateAt(p, 5, 3, 1) /\ ClockAt(p, 7, 9, 11)
          /\ p[1] = Digits("day", {1, 2}) /\ p[2] = OneOf({"/", "-"})
    /\ \A p \in PAT_FECHA_HORA :
          Long(p, 13) /\ DateAt(p, 5, 3, 1) /\ ClockAt(p, 7, 9, 11) /\ p[2] = OneOf({"-"})
<1>1. ASSUME NEW years, NEW p \in Numeric(years)
      PROVE  /\ Long(p, 11) /\ DateAt(p, 5, 3, 1) /\ ClockAt(p, 7, 9, 11)
             /\ p[1] = Digits("day", {1, 2}) /\ p[2] = OneOf({"/", "-"})
  BY <1>1, FieldsAre DEF Numeric, Clock, DateAt, ClockAt, FieldAt, NoField, Long
<1>2. ASSUME NEW p \in PAT_FECHA_HORA
      PROVE  Long(p, 13) /\ DateAt(p, 5, 3, 1) /\ ClockAt(p, 7, 9, 11) /\ p[2] = OneOf({"-"})
  BY <1>2, FieldsAre DEF PAT_FECHA_HORA, Clock, DateAt, ClockAt, FieldAt, NoField, Long
<1> QED
  BY <1>1, <1>2 DEF PAT_DDMMYYYYHHMMSS, PAT_DDMMYYHHMMSS

LEMMA RfcMoments ==
    ASSUME NEW p
    PROVE  LET full(w) == w \o RfcDate \o <<OneOf({"blank"})>> \o Clock(Some) \o <<OneOf({"zone"})>>
               short(w) == w \o RfcDate \o <<OneOf({"blank"})>> \o SubSeq(Clock(Some), 1, 4)
                             \o <<Digits("tens", 2 .. 9)>>
           IN  /\ p = full(<<>>)
                    => /\ Long(p, 12) /\ RfcDayOf(p, 1) /\ p[6] = OneOf({"blank"})
                       /\ ClockOf(p, 7, Some) /\ p[12] = OneOf({"zone"})
               /\ p = full(<<OneOf({"weekday"})>>)
                    => /\ Long(p, 13) /\ p[1] = OneOf({"weekday"}) /\ RfcDayOf(p, 2)
                       /\ p[7] = OneOf({"blank"}) /\ ClockOf(p, 8, Some) /\ p[13] = OneOf({"zone"})
               /\ p = short(<<>>)
                    => /\ Long(p, 11) /\ RfcDayOf(p, 1) /\ p[6] = OneOf({"blank"})
                       /\ p[7] = Digits("hour", Some) /\ p[8] = OneOf({":"})
                       /\ p[9] = Digits("minute", Some) /\ p[10] = OneOf({":"})
                       /\ p[11] = Digits("tens", 2 .. 9)
               /\ p = short(<<OneOf({"weekday"})>>) => Long(p, 12) /\ p[1] = OneOf({"weekday"})
<1> DEFINE full(w) == w \o RfcDate \o <<OneOf({"blank"})>> \o Clock(Some) \o <<OneOf({"zone"})>>
           c == SubSeq(Clock(Some), 1, 4)
           short(w) == w \o RfcDate \o <<OneOf({"blank"})>> \o c \o <<Digits("tens", 2 .. 9)>>
<1>1. p = full(<<>>)
        => /\ Long(p, 12) /\ RfcDayOf(p, 1) /\ p[6] = OneOf({"blank"})
           /\ ClockOf(p, 7, Some) /\ p[12] = OneOf({"zone"})
  BY DEF RfcDate, Clock, RfcDayOf, ClockOf, Long
<1>2. p = full(<<OneOf({"weekday"})>>)
        => /\ Long(p, 13) /\ p[1] = OneOf({"weekday"}) /\ RfcDayOf(p, 2)
           /\ p[7] = OneOf({"blank"}) /\ ClockOf(p, 8, Some) /\ p[13] = OneOf({"zone"})
  BY DEF RfcDate, Clock, RfcDayOf, ClockOf, Long
<1>3. c = [i \in 1 .. 4 |-> Clock(Some)[i]]
  BY DEF Clock
<1>4. /\ Len(c) = 4 /\ DOMAIN c = 1 .. 4
      /\ c[1] = Digits("hour", Some) /\ c[2] = OneOf({":"})
      /\ c[3] = Digits("minute", Some) /\ c[4] = OneOf({":"})
  <2> HIDE DEF c
  <2> QED
    BY <1>3 DEF Clock
<1>5. p = short(<<>>)
        => /\ Long(p, 11) /\ RfcDayOf(p, 1) /\ p[6] = OneOf({"blank"})
           /\ p[7] = Digits("hour", Some) /\ p[8] = OneOf({":"})
           /\ p[9] = Digits("minute", Some) /\ p[10] = OneOf({":"})
           /\ p[11] = Digits("tens", 2 .. 9)
  <2> HIDE DEF c
  <2> QED
    BY <1>4 DEF RfcDate, RfcDayOf, Long, c
<1>6. p = short(<<OneOf({"weekday"})>>) => Long(p, 12) /\ p[1] = OneOf({"weekday"})
  <2> HIDE DEF c
  <2> QED
    BY <1>4 DEF RfcDate, Long, c
<1> HIDE DEF full, short, c
<1> QED
  BY <1>1, <1>2, <1>5, <1>6 DEF full, short, c

RfcTimed(p) ==
    \/ Long(p, 12) /\ DateAt(p, 5, 3, 1) /\ ClockAt(p, 7, 9, 11) /\ p[2] = OneOf({"blank"})
    \/ Long(p, 13) /\ DateAt(p, 6, 4, 2) /\ ClockAt(p, 8, 10, 12) /\ p[1] = OneOf({"weekday"})
    \/ Long(p, 11) /\ DateAt(p, 5, 3, 1) /\ TensAt(p, 7, 9, 11) /\ p[2] = OneOf({"blank"})
    \/ Long(p, 12) /\ p[1] = OneOf({"weekday"})

LEMMA RfcTimePatterns == \A p \in PAT_RFC822_DATETIME : RfcTimed(p)
<1> DEFINE full(w) == w \o RfcDate \o <<OneOf({"blank"})>> \o Clock(Some) \o <<OneOf({"zone"})>>
           short(w) == w \o RfcDate \o <<OneOf({"blank"})>> \o SubSeq(Clock(Some), 1, 4)
                         \o <<Digits("tens", 2 .. 9)>>
<1> SUFFICES ASSUME NEW p \in PAT_RFC822_DATETIME PROVE RfcTimed(p)
  OBVIOUS
<1>1. PICK w \in Weekday : p = full(w) \/ p = short(w)
  BY Zenon DEF PAT_RFC822_DATETIME
<1>2. w = <<>> \/ w = <<OneOf({"weekday"})>>
  BY <1>1, Zenon DEF Weekday
<1>3. \/ p = full(<<>>) \/ p = full(<<OneOf({"weekday"})>>)
      \/ p = short(<<>>) \/ p = short(<<OneOf({"weekday"})>>)
  <2> HIDE DEF full, short
  <2> QED
    BY <1>1, <1>2, Zenon
<1>4. \/ /\ Long(p, 12) /\ RfcDayOf(p, 1) /\ p[6] = OneOf({"blank"})
         /\ ClockOf(p, 7, Some) /\ p[12] = OneOf({"zone"})
      \/ /\ Long(p, 13) /\ p[1] = OneOf({"weekday"}) /\ RfcDayOf(p, 2)
         /\ p[7] = OneOf({"blank"}) /\ ClockOf(p, 8, Some) /\ p[13] = OneOf({"zone"})
      \/ /\ Long(p, 11) /\ RfcDayOf(p, 1) /\ p[6] = OneOf({"blank"})
         /\ p[7] = Digits("hour", Some) /\ p[8] = OneOf({":"})
         /\ p[9] = Digits("minute", Some) /\ p[10] = OneOf({":"})
         /\ p[11] = Digits("tens", 2 .. 9)
      \/ Long(p, 12) /\ p[1] = OneOf({"weekday"})
  BY <1>3, RfcMoments, Zenon
<1> QED
  BY <1>4, FieldsAre DEF RfcTimed, RfcDayOf, ClockOf, DateAt, ClockAt, TensAt, FieldAt, NoField, Long

\* Where the patterns of each length have their fields, and what tells apart
\* those that have them elsewhere.
Shapes(p) ==
    \/ Long(p, 3) /\ DateAt(p, 1, 2, 3) /\ NoClock(p)
    \/ /\ Long(p, 5) /\ DateAt(p, 5, 3, 1) /\ NoClock(p)
       /\ p[5] = Digits("year", {4}) \/ p[2] = OneOf({"blank"}) \/ p[2] = OneOf({"de"})
    \/ Long(p, 5) /\ DateAt(p, 1, 3, 5) /\ NoClock(p) /\ p[1] = Digits("year", {4})
    \/ Long(p, 6) /\ DateAt(p, 1, 2, 3) /\ ClockAt(p, 4, 5, 6) /\ p[1] = Digits("year", {4})
    \/ Long(p, 6) /\ DateAt(p, 6, 4, 2) /\ NoClock(p) /\ p[1] = OneOf({"weekday"})
    \/ /\ Long(p, 11) \/ Long(p, 12)
       /\ DateAt(p, 1, 3, 5) /\ ClockAt(p, 7, 9, 11) /\ p[1] = Digits("year", {4})
    \/ /\ Long(p, 11) /\ DateAt(p, 5, 3, 1) /\ ClockAt(p, 7, 9, 11)
       /\ p[1] = Digits("day", {1, 2}) /\ p[2] = OneOf({"/", "-"})
    \/ Long(p, 11) /\ DateAt(p, 5, 3, 1) /\ TensAt(p, 7, 9, 11) /\ p[2] = OneOf({"blank"})
    \/ Long(p, 12) /\ DateAt(p, 5, 3, 1) /\ ClockAt(p, 7, 9, 11) /\ p[2] = OneOf({"blank"})
    \/ Long(p, 12) /\ p[1] = OneOf({"weekday"})
    \/ Long(p, 13) /\ DateAt(p, 6, 4, 2) /\ ClockAt(p, 8, 10, 12) /\ p[1] = OneOf({"weekday"})
    \/ Long(p, 13) /\ DateAt(p, 5, 3, 1) /\ ClockAt(p, 7, 9, 11) /\ p[2] = OneOf({"-"})

LEMMA PatternsShaped == \A i \in DOMAIN PARSERS : \A p \in PARSERS[i] : Shapes(p)
<1>1. \A p \in PAT_DMY \cup PAT_ISO8601_DATE_EXT \cup PAT_FECHA_COMPLETA : Shapes(p)
  BY Patterns5 DEF Shapes
<1>2. \A p \in PAT_ISO8601_DATE_BASIC : Shapes(p)
  BY Patterns3 DEF Shapes
<1>3. \A p \in PAT_RFC822_DATE : Shapes(p)
  BY RfcDatePatterns DEF Shapes, RfcDates
<1>4. \A p \in PAT_ISO8601_DATETIME_BASIC \cup PAT_ISO8601_DATETIME_EXT_BASIC : Shapes(p)
  BY IsoPatterns DEF Shapes
<1>5. \A p \in PAT_DDMMYYYYHHMMSS \cup PAT_DDMMYYHHMMSS \cup PAT_FECHA_HORA : Shapes(p)
  BY NumericPatterns DEF Shapes
<1>6. \A p \in PAT_RFC822_DATETIME : Shapes(p)
  BY RfcTimePatterns DEF Shapes, RfcTimed
<1> QED
  BY <1>1, <1>2, <1>3, <1>4, <1>5, <1>6 DEF PARSERS

\* Every pattern that matches the text reads that date and time in it.
Reads(text, date, time) ==
    \A i \in DOMAIN PARSERS : \A p \in Matches(text, PARSERS[i]) :
        _to_year_month_day(text, p) = date /\ _to_hour_minute_second(text, p) = time

Matched(text) == \E i \in DOMAIN PARSERS : Matches(text, PARSERS[i]) # {}

LEMMA ReadsIf ==
    ASSUME NEW text, NEW date, NEW time,
           \A p : Len(p) = Len(text) /\ Shapes(p) /\ (\A k \in DOMAIN p : Fits(text[k], p[k]))
                    => /\ _to_year_month_day(text, p) = date
                       /\ _to_hour_minute_second(text, p) = time
    PROVE  Reads(text, date, time)
BY PatternsShaped DEF Reads, Matches

LEMMA FirstRead ==
    ASSUME NEW text, NEW date, NEW time, Reads(text, date, time)
    PROVE  /\ Matched(text) /\ IsDate(date) /\ IsClock(time) => parse_datetime(text) = date \o time
           /\ ~ IsDate(date) => parse_datetime(text) = <<>>
<1> DEFINE matching == {i \in DOMAIN PARSERS : Matches(text, PARSERS[i]) # {}}
           p == CHOOSE q \in Matches(text, PARSERS[Min(matching)]) : TRUE
           read == _to_year_month_day(text, p)
           clock == _to_hour_minute_second(text, p)
<1>1. parse_datetime(text) = IF matching # {} /\ IsDate(read) /\ IsClock(clock)
                             THEN read \o clock ELSE <<>>
  BY Zenon DEF parse_datetime
<1>2. matching # {} <=> Matched(text)
  BY DEF Matched
<1>3. ASSUME matching # {} PROVE read = date /\ clock = time
  <2>1. matching \subseteq Nat
    BY DEF PARSERS
  <2>2. Min(matching) \in matching
    BY <1>3, <2>1, MinIs
  <2>3. p \in Matches(text, PARSERS[Min(matching)])
    BY <2>2
  <2> QED
    BY <2>2, <2>3 DEF Reads
<1> HIDE DEF matching, p, read, clock
<1> QED
  BY <1>1, <1>2, <1>3, Zenon

\* A number that is not of four digits.
Short == (1 .. 9) \ {4}

\* A text of five tokens that begins with the day: no year is there.
LEMMA ReadDayFirst ==
    ASSUME NEW t, NEW g \in Short, NEW n, NEW y, NEW m, NEW k,
           Len(t) = 5, t[1] = Num(g, k), t[3].value = m, t[5] = Num(n, y)
    PROVE  Reads(t, <<Full(y), m, k>>, <<0, 0, 0>>)
<1> SUFFICES ASSUME NEW p, Len(p) = 5, Shapes(p), \A i \in DOMAIN p : Fits(t[i], p[i])
             PROVE  /\ _to_year_month_day(t, p) = <<Full(y), m, k>>
                    /\ _to_hour_minute_second(t, p) = <<0, 0, 0>>
  BY ReadsIf, Zenon
<1>1. Long(p, 5) /\ NoClock(p) /\ (DateAt(p, 5, 3, 1) \/ p[1] = Digits("year", {4}))
  BY DEF Shapes, Long
<1>2. p[1] # Digits("year", {4})
  BY <1>1, FitsAre DEF Long, Short
<1> QED
  BY <1>1, <1>2, DateRead, NoClockRead, ValuesAre

\* yyyy-mm-dd: the patterns with a day first want a year of four digits at its
\* end, or other marks.
LEMMA ReadYearFirst ==
    ASSUME NEW t, NEW y, NEW m, NEW k, Len(t) = 5,
           t[1].value = y, t[2] = Mark("-"), t[3].value = m, t[5] = Num(2, k)
    PROVE  Reads(t, <<Full(y), m, k>>, <<0, 0, 0>>)
<1> SUFFICES ASSUME NEW p, Len(p) = 5, Shapes(p), \A i \in DOMAIN p : Fits(t[i], p[i])
             PROVE  /\ _to_year_month_day(t, p) = <<Full(y), m, k>>
                    /\ _to_hour_minute_second(t, p) = <<0, 0, 0>>
  BY ReadsIf, Zenon
<1>1. /\ Long(p, 5) /\ NoClock(p)
      /\ \/ DateAt(p, 1, 3, 5)
         \/ p[5] = Digits("year", {4}) \/ p[2] = OneOf({"blank"}) \/ p[2] = OneOf({"de"})
  BY DEF Shapes, Long
<1>2. p[5] # Digits("year", {4}) /\ p[2] # OneOf({"blank"}) /\ p[2] # OneOf({"de"})
  BY <1>1, FitsAre DEF Long
<1> QED
  BY <1>1, <1>2, DateRead, NoClockRead, ValuesAre

LEMMA ReadBasicDate ==
    ASSUME NEW t, Len(t) = 3
    PROVE  Reads(t, <<Full(t[1].value), t[2].value, t[3].value>>, <<0, 0, 0>>)
<1> SUFFICES ASSUME NEW p, Len(p) = 3, Shapes(p)
             PROVE  /\ _to_year_month_day(t, p) = <<Full(t[1].value), t[2].value, t[3].value>>
                    /\ _to_hour_minute_second(t, p) = <<0, 0, 0>>
  BY ReadsIf, Zenon
<1>1. DateAt(p, 1, 2, 3) /\ NoClock(p)
  BY DEF Shapes, Long
<1> QED
  BY <1>1, DateRead, NoClockRead

\* The six tokens of a day with its weekday, or of a date and time without marks.
LEMMA ReadSix ==
    ASSUME NEW t, Len(t) = 6, t[6].value \in Nat
    PROVE  /\ t[1] = Mark("weekday")
                => Reads(t, <<Full(t[6].value), t[4].value, t[2].value>>, <<0, 0, 0>>)
           /\ t[1] = Num(4, t[1].value)
                => Reads(t, <<Full(t[1].value), t[2].value, t[3].value>>,
                            <<t[4].value, t[5].value, t[6].value>>)
<1>1. ASSUME NEW p, Len(p) = 6, Shapes(p), \A i \in DOMAIN p : Fits(t[i], p[i])
      PROVE  /\ Long(p, 6)
             /\ \/ DateAt(p, 1, 2, 3) /\ ClockAt(p, 4, 5, 6) /\ p[1] = Digits("year", {4})
                \/ DateAt(p, 6, 4, 2) /\ NoClock(p) /\ p[1] = OneOf({"weekday"})
  BY <1>1 DEF Shapes, Long
<1>2. ASSUME t[1] = Mark("weekday")
      PROVE  Reads(t, <<Full(t[6].value), t[4].value, t[2].value>>, <<0, 0, 0>>)
  <2> SUFFICES ASSUME NEW p, Len(p) = 6, Shapes(p), \A i \in DOMAIN p : Fits(t[i], p[i])
               PROVE  /\ _to_year_month_day(t, p) = <<Full(t[6].value), t[4].value, t[2].value>>
                      /\ _to_hour_minute_second(t, p) = <<0, 0, 0>>
    BY ReadsIf, Zenon
  <2>1. p[1] # Digits("year", {4})
    BY <1>1, <1>2, FitsAre DEF Long
  <2> QED
    BY <1>1, <2>1, DateRead, NoClockRead
<1>3. ASSUME t[1] = Num(4, t[1].value)
      PROVE  Reads(t, <<Full(t[1].value), t[2].value, t[3].value>>,
                      <<t[4].value, t[5].value, t[6].value>>)
  <2> SUFFICES ASSUME NEW p, Len(p) = 6, Shapes(p), \A i \in DOMAIN p : Fits(t[i], p[i])
               PROVE  /\ _to_year_month_day(t, p) = <<Full(t[1].value), t[2].value, t[3].value>>
                      /\ _to_hour_minute_second(t, p) = <<t[4].value, t[5].value, t[6].value>>
    BY ReadsIf, Zenon
  <2>1. p[1] # OneOf({"weekday"})
    BY <1>1, <1>3, FitsAre DEF Long
  <2> QED
    BY <1>1, <2>1, DateRead, ClockRead
<1> QED
  BY <1>2, <1>3

LEMMA ReadIsoMoment ==
    ASSUME NEW t, NEW y, Len(t) \in {11, 12}, t[11].value \in Nat,
           t[1] = Num(4, y), t[2] = Mark("-")
    PROVE  Reads(t, <<Full(y), t[3].value, t[5].value>>, <<t[7].value, t[9].value, t[11].value>>)
<1> SUFFICES ASSUME NEW p, Len(p) = Len(t), Shapes(p), \A i \in DOMAIN p : Fits(t[i], p[i])
             PROVE  /\ _to_year_month_day(t, p) = <<Full(y), t[3].value, t[5].value>>
                    /\ _to_hour_minute_second(t, p) = <<t[7].value, t[9].value, t[11].value>>
  BY ReadsIf, Zenon
<1>1. /\ {1, 2} \subseteq DOMAIN p
      /\ \/ DateAt(p, 1, 3, 5) /\ ClockAt(p, 7, 9, 11)
         \/ p[1] = Digits("day", {1, 2}) \/ p[2] = OneOf({"blank"}) \/ p[1] = OneOf({"weekday"})
  <2>1. CASE Len(t) = 11
    BY <2>1 DEF Shapes, Long
  <2>2. CASE Len(t) = 12
    BY <2>2 DEF Shapes, Long
  <2> QED
    BY <2>1, <2>2
<1>2. p[1] # Digits("day", {1, 2}) /\ p[2] # OneOf({"blank"}) /\ p[1] # OneOf({"weekday"})
  <2>1. Fits(Num(4, y), p[1]) /\ Fits(Mark("-"), p[2])
    BY <1>1
  <2>2. ~ Fits(Num(4, y), Digits("day", {1, 2}))
    BY FitsAre
  <2>3. ~ Fits(Mark("-"), OneOf({"blank"}))
    BY FitsAre
  <2>4. ~ Fits(Num(4, y), OneOf({"weekday"}))
    BY FitsAre
  <2> QED
    BY <2>1, <2>2, <2>3, <2>4, Zenon
<1>3. DateAt(p, 1, 3, 5) /\ ClockAt(p, 7, 9, 11)
  BY <1>1, <1>2, Zenon
<1>4. t[1].value = y
  BY ValuesAre
<1> QED
  BY <1>3, <1>4, DateRead, ClockRead

\* The date and time of eleven tokens that begin with the day; behind blanks it
\* is an RFC 822 one without its zone.
LEMMA ReadEleven ==
    ASSUME NEW t, NEW g \in Short, NEW k, Len(t) = 11, t[11].value \in Nat, t[1] = Num(g, k)
    PROVE  /\ t[2] = Mark("blank")
                => Reads(t, <<Full(t[5].value), t[3].value, k>>,
                            <<t[7].value, t[9].value, t[11].value \div 10>>)
           /\ t[2] = Mark("/") \/ t[2] = Mark("-")
                => Reads(t, <<Full(t[5].value), t[3].value, k>>,
                            <<t[7].value, t[9].value, t[11].value>>)
<1>1. ASSUME NEW p, Len(p) = 11, Shapes(p), \A i \in DOMAIN p : Fits(t[i], p[i])
      PROVE  /\ Long(p, 11)
             /\ DateAt(p, 5, 3, 1)
             /\ \/ ClockAt(p, 7, 9, 11) /\ p[2] = OneOf({"/", "-"})
                \/ TensAt(p, 7, 9, 11) /\ p[2] = OneOf({"blank"})
  <2>1. /\ Long(p, 11)
        /\ \/ p[1] = Digits("year", {4})
           \/ /\ DateAt(p, 5, 3, 1)
              /\ \/ ClockAt(p, 7, 9, 11) /\ p[2] = OneOf({"/", "-"})
                 \/ TensAt(p, 7, 9, 11) /\ p[2] = OneOf({"blank"})
    BY <1>1 DEF Shapes, Long
  <2>2. p[1] # Digits("year", {4})
    BY <1>1, <2>1, FitsAre DEF Long, Short
  <2> QED
    BY <2>1, <2>2
<1>2. ASSUME t[2] = Mark("blank")
      PROVE  Reads(t, <<Full(t[5].value), t[3].value, k>>,
                      <<t[7].value, t[9].value, t[11].value \div 10>>)
  <2> SUFFICES ASSUME NEW p, Len(p) = 11, Shapes(p), \A i \in DOMAIN p : Fits(t[i], p[i])
               PROVE  /\ _to_year_month_day(t, p) = <<Full(t[5].value), t[3].value, k>>
                      /\ _to_hour_minute_second(t, p)
                           = <<t[7].value, t[9].value, t[11].value \div 10>>
    BY ReadsIf, Zenon
  <2>1. p[2] # OneOf({"/", "-"})
    BY <1>1, <1>2, FitsAre DEF Long
  <2> QED
    BY <1>1, <2>1, DateRead, TensRead, ValuesAre
<1>3. ASSUME t[2] = Mark("/") \/ t[2] = Mark("-")
      PROVE  Reads(t, <<Full(t[5].value), t[3].value, k>>,
                      <<t[7].value, t[9].value, t[11].value>>)
  <2> SUFFICES ASSUME NEW p, Len(p) = 11, Shapes(p), \A i \in DOMAIN p : Fits(t[i], p[i])
               PROVE  /\ _to_year_month_day(t, p) = <<Full(t[5].value), t[3].value, k>>
                      /\ _to_hour_minute_second(t, p) = <<t[7].value, t[9].value, t[11].value>>
    BY ReadsIf, Zenon
  <2>1. p[2] # OneOf({"blank"})
    BY <1>1, <1>3, FitsAre DEF Long
  <2> QED
    BY <1>1, <2>1, DateRead, ClockRead, ValuesAre
<1> QED
  BY <1>2, <1>3

\* With what follows the time: a zone, or a fraction of a second.
LEMMA ReadTail ==
    ASSUME NEW t, NEW g \in 1 .. 9, NEW k, t[11].value \in Nat, t[1] = Num(g, k),
           (Len(t) = 12 /\ g # 4) \/ Len(t) = 13
    PROVE  Reads(t, <<Full(t[5].value), t[3].value, k>>, <<t[7].value, t[9].value, t[11].value>>)
<1> SUFFICES ASSUME NEW p, Len(p) = Len(t), Shapes(p), \A i \in DOMAIN p : Fits(t[i], p[i])
             PROVE  /\ _to_year_month_day(t, p) = <<Full(t[5].value), t[3].value, k>>
                    /\ _to_hour_minute_second(t, p) = <<t[7].value, t[9].value, t[11].value>>
  BY ReadsIf, Zenon
<1>1. /\ 1 \in DOMAIN p
      /\ \/ DateAt(p, 5, 3, 1) /\ ClockAt(p, 7, 9, 11)
         \/ g # 4 /\ p[1] = Digits("year", {4})
         \/ p[1] = OneOf({"weekday"})
  <2>1. CASE Len(t) = 12
    BY <2>1 DEF Shapes, Long
  <2>2. CASE Len(t) = 13
    BY <2>2 DEF Shapes, Long
  <2> QED
    BY <2>1, <2>2
<1>2. (g # 4 => p[1] # Digits("year", {4})) /\ p[1] # OneOf({"weekday"})
  BY <1>1, FitsAre
<1> QED
  BY <1>1, <1>2, DateRead, ClockRead, ValuesAre

LEMMA ReadRfcMoment ==
    ASSUME NEW t, NEW g, NEW k, Len(t) = 13, t[12].value \in Nat, t[2] = Num(g, k)
    PROVE  t[1] = Mark("weekday")
             => Reads(t, <<Full(t[6].value), t[4].value, k>>,
                         <<t[8].value, t[10].value, t[12].value>>)
<1> SUFFICES ASSUME t[1] = Mark("weekday"),
                    NEW p, Len(p) = 13, Shapes(p), \A i \in DOMAIN p : Fits(t[i], p[i])
             PROVE  /\ _to_year_month_day(t, p) = <<Full(t[6].value), t[4].value, k>>
                    /\ _to_hour_minute_second(t, p) = <<t[8].value, t[10].value, t[12].value>>
  BY ReadsIf, Zenon
<1>1. /\ Long(p, 13)
      /\ \/ DateAt(p, 6, 4, 2) /\ ClockAt(p, 8, 10, 12)
         \/ p[2] = OneOf({"-"})
  BY DEF Shapes, Long
<1>2. p[2] # OneOf({"-"})
  BY <1>1, FitsAre DEF Long
<1> QED
  BY <1>1, <1>2, DateRead, ClockRead, ValuesAre

\* There is a pattern for each of the texts.
LEMMA ParsersAre ==
    /\ DOMAIN PARSERS = 1 .. 11
    /\ PARSERS[1] = PAT_DMY /\ PARSERS[2] = PAT_ISO8601_DATETIME_EXT_BASIC
    /\ PARSERS[3] = PAT_ISO8601_DATETIME_BASIC /\ PARSERS[4] = PAT_ISO8601_DATE_BASIC
    /\ PARSERS[5] = PAT_ISO8601_DATE_EXT /\ PARSERS[6] = PAT_RFC822_DATETIME
    /\ PARSERS[7] = PAT_RFC822_DATE /\ PARSERS[8] = PAT_FECHA_COMPLETA
    /\ PARSERS[9] = PAT_FECHA_HORA /\ PARSERS[10] = PAT_DDMMYYYYHHMMSS
    /\ PARSERS[11] = PAT_DDMMYYHHMMSS
BY DEF PARSERS

LEMMA MatchedIf ==
    ASSUME NEW text, NEW j \in 1 .. 11, NEW p \in PARSERS[j],
           Len(p) = Len(text), \A k \in DOMAIN p : Fits(text[k], p[k])
    PROVE  Matched(text)
BY ParsersAre DEF Matched, Matches

\* What is common to the texts, from k on.
DatedFrom(t, k, n, c, e) ==
    /\ \E m : t[k] = Num(n, m)
    /\ t[k + 1] = Mark(c)
    /\ \E m : t[k + 2] = Num(2, m) \/ t[k + 2] = Month(m)
    /\ t[k + 3] = Mark(e)

TimedFrom(t, k) ==
    /\ \E h, m, s : t[k] = Num(2, h) /\ t[k + 2] = Num(2, m) /\ t[k + 4] = Num(2, s)
    /\ t[k + 1] = Mark(":") /\ t[k + 3] = Mark(":")

LEMMA DmyMatched ==
    ASSUME NEW t, NEW n \in 1 .. 9, NEW c \in Separators \cup {"comma_blank"}, NEW e \in Separators,
           NEW y, Len(t) = 5, DatedFrom(t, 1, n, c, e), t[5] = Num(4, y)
    PROVE  Matched(t)
<1>1. PICK p \in PARSERS[1] :
        p = <<Digits("day", Some), OneOf(Separators \cup {"comma_blank"}), Word("month"),
              OneOf(Separators), Digits("year", {4})>>
  BY ParsersAre DEF PAT_DMY
<1>2. c # "num" /\ e # "num"
  BY DEF Separators
<1>3. \A k \in DOMAIN p : Fits(t[k], p[k])
  BY <1>1, <1>2, FitsAre DEF DatedFrom, Some
<1>4. Len(p) = Len(t) /\ 1 \in 1 .. 11
  BY <1>1
<1> QED
  BY <1>3, <1>4, MatchedIf, Zenon

LEMMA RfcDateMatched ==
    ASSUME NEW t, NEW n \in 1 .. 9, NEW g \in 1 .. 9, NEW y
    PROVE  /\ Len(t) = 5 /\ DatedFrom(t, 1, n, "blank", "blank") /\ t[5] = Num(g, y) => Matched(t)
           /\ Len(t) = 6 /\ t[1] = Mark("weekday") /\ DatedFrom(t, 2, n, "blank", "blank")
                /\ t[6] = Num(g, y)
                => Matched(t)
<1>0. 7 \in 1 .. 11
  OBVIOUS
<1>1. ASSUME Len(t) = 5, DatedFrom(t, 1, n, "blank", "blank"), t[5] = Num(g, y) PROVE Matched(t)
  <2>1. PICK p \in PARSERS[7] : p = <<>> \o RfcDate
    BY ParsersAre DEF PAT_RFC822_DATE, Weekday
  <2>2. /\ Long(p, 5)
        /\ p[1] = Digits("day", Some) /\ p[2] = OneOf({"blank"}) /\ p[3] = Word("month")
        /\ p[4] = OneOf({"blank"}) /\ p[5] = Digits("year", Some)
    BY <2>1 DEF RfcDate, Long
  <2>3. \A k \in DOMAIN p : Fits(t[k], p[k])
    BY <1>1, <2>2, FitsAre DEF DatedFrom, Some, Long
  <2>4. Len(p) = Len(t)
    BY <1>1, <2>2 DEF Long
  <2> QED
    BY <1>0, <2>3, <2>4, MatchedIf, Zenon
<1>2. ASSUME Len(t) = 6, t[1] = Mark("weekday"), DatedFrom(t, 2, n, "blank", "blank"),
             t[6] = Num(g, y)
      PROVE  Matched(t)
  <2>1. PICK p \in PARSERS[7] : p = <<OneOf({"weekday"})>> \o RfcDate
    BY ParsersAre DEF PAT_RFC822_DATE, Weekday
  <2>2. /\ Long(p, 6) /\ p[1] = OneOf({"weekday"})
        /\ p[2] = Digits("day", Some) /\ p[3] = OneOf({"blank"}) /\ p[4] = Word("month")
        /\ p[5] = OneOf({"blank"}) /\ p[6] = Digits("year", Some)
    BY <2>1 DEF RfcDate, Long
  <2>3. \A k \in DOMAIN p : Fits(t[k], p[k])
    BY <1>2, <2>2, FitsAre DEF DatedFrom, Some, Long
  <2>4. Len(p) = Len(t)
    BY <1>2, <2>2 DEF Long
  <2> QED
    BY <1>0, <2>3, <2>4, MatchedIf, Zenon
<1> QED
  BY <1>1, <1>2

LEMMA CompletaMatched ==
    ASSUME NEW t, NEW n \in 1 .. 9, NEW m, NEW y, Len(t) = 5, DatedFrom(t, 1, n, "de", "de"),
           t[3] = Month(m), t[5] = Num(4, y)
    PROVE  Matched(t)
<1>1. PICK p \in PARSERS[8] :
        p = <<Digits("day", Some), OneOf({"de"}), Letters("month"), OneOf({"de"}),
              Digits("year", Some)>>
  BY ParsersAre DEF PAT_FECHA_COMPLETA
<1>2. \A k \in DOMAIN p : Fits(t[k], p[k])
  BY <1>1, FitsAre DEF DatedFrom, Some
<1>3. Len(p) = Len(t) /\ 8 \in 1 .. 11
  BY <1>1
<1> QED
  BY <1>2, <1>3, MatchedIf, Zenon

\* yyyy-mm-dd and yyyymmdd.
YearFrom(t) ==
    \E y, m, k : /\ t[1] = Num(4, y) /\ t[2] = Mark("-") /\ t[3] = Num(2, m)
                 /\ t[4] = Mark("-") /\ t[5] = Num(2, k)

LEMMA IsoDateMatched == ASSUME NEW t, Len(t) = 5, YearFrom(t) PROVE Matched(t)
<1>1. PICK p \in PARSERS[5] : p = IsoDate
  BY ParsersAre DEF PAT_ISO8601_DATE_EXT
<1>2. \A k \in DOMAIN p : Fits(t[k], p[k])
  BY <1>1, FitsAre DEF YearFrom, IsoDate
<1>3. Len(p) = Len(t) /\ 5 \in 1 .. 11
  BY <1>1 DEF IsoDate
<1> QED
  BY <1>2, <1>3, MatchedIf, Zenon

LEMMA BasicDateMatched ==
    ASSUME NEW t, NEW y, NEW m, NEW k, Len(t) = 3,
           t[1] = Num(4, y), t[2] = Num(2, m), t[3] = Num(2, k)
    PROVE  Matched(t)
<1>1. PICK p \in PARSERS[4] : p = BasicDate
  BY ParsersAre DEF PAT_ISO8601_DATE_BASIC
<1>2. \A i \in DOMAIN p : Fits(t[i], p[i])
  BY <1>1, FitsAre DEF BasicDate
<1>3. Len(p) = Len(t) /\ 4 \in 1 .. 11
  BY <1>1 DEF BasicDate
<1> QED
  BY <1>2, <1>3, MatchedIf, Zenon

LEMMA BasicMomentMatched ==
    ASSUME NEW t, NEW y, Len(t) = 6, t[1] = Num(4, y),
           \A i \in 2 .. 6 : \E v : t[i] = Num(2, v)
    PROVE  Matched(t)
<1>1. PICK p \in PARSERS[3] : p = BasicDate \o BasicClock
  BY ParsersAre DEF PAT_ISO8601_DATETIME_BASIC
<1>2. /\ Long(p, 6)
      /\ p[1] = Digits("year", {4}) /\ p[2] = Digits("month", {2}) /\ p[3] = Digits("day", {2})
      /\ p[4] = Digits("hour", {2}) /\ p[5] = Digits("minute", {2}) /\ p[6] = Digits("second", {2})
  BY <1>1 DEF BasicDate, BasicClock, Long
<1>3. \A i \in DOMAIN p : Fits(t[i], p[i])
  BY <1>2, FitsAre DEF Long
<1>4. Len(p) = Len(t) /\ 3 \in 1 .. 11
  BY <1>2 DEF Long
<1> QED
  BY <1>3, <1>4, MatchedIf, Zenon

LEMMA ClockFits ==
    ASSUME NEW t, NEW p, NEW k \in Nat, NEW ns, 2 \in ns, TimedFrom(t, k), ClockOf(p, k, ns)
    PROVE  \A i \in k .. (k + 4) : Fits(t[i], p[i])
<1>1. /\ Fits(t[k], p[k]) /\ Fits(t[k + 1], p[k + 1]) /\ Fits(t[k + 2], p[k + 2])
      /\ Fits(t[k + 3], p[k + 3]) /\ Fits(t[k + 4], p[k + 4])
  BY FitsAre DEF TimedFrom, ClockOf
<1> QED
  BY <1>1

LEMMA IsoMomentMatched ==
    ASSUME NEW t, NEW c \in {"blank", "T"}, YearFrom(t), t[6] = Mark(c), TimedFrom(t, 7),
           Len(t) = 11 \/ (Len(t) = 12 /\ t[12] = Mark("zone"))
    PROVE  Matched(t)
<1>0. ASSUME NEW p, IsoMomentOf(p) PROVE \A i \in 1 .. 11 : Fits(t[i], p[i])
  <2>1. \A i \in 1 .. 6 : Fits(t[i], p[i])
    BY <1>0, FitsAre DEF YearFrom, IsoMomentOf
  <2>2. \A i \in 7 .. 11 : Fits(t[i], p[i])
    BY <1>0, ClockFits DEF IsoMomentOf
  <2> QED
    BY <2>1, <2>2
<1>1. CASE Len(t) = 11
  <2>1. PICK p \in PARSERS[2] : p = IsoDate \o <<OneOf({"blank", "T"})>> \o Clock({2}) \o <<>>
    BY ParsersAre DEF PAT_ISO8601_DATETIME_EXT_BASIC
  <2>2. Long(p, 11) /\ IsoMomentOf(p)
    BY <2>1, IsoMoments, Zenon
  <2>3. \A i \in DOMAIN p : Fits(t[i], p[i])
    BY <1>0, <2>2 DEF Long
  <2>4. Len(p) = Len(t) /\ 2 \in 1 .. 11
    BY <1>1, <2>2 DEF Long
  <2> QED
    BY <2>3, <2>4, MatchedIf, Zenon
<1>2. CASE Len(t) = 12 /\ t[12] = Mark("zone")
  <2>1. PICK p \in PARSERS[2] :
          p = IsoDate \o <<OneOf({"blank", "T"})>> \o Clock({2}) \o <<OneOf({"zone"})>>
    BY ParsersAre DEF PAT_ISO8601_DATETIME_EXT_BASIC
  <2>2. Long(p, 12) /\ IsoMomentOf(p) /\ p[12] = OneOf({"zone"})
    BY <2>1, IsoMoments, Zenon
  <2>3. \A i \in DOMAIN p : Fits(t[i], p[i])
    <3>1. Fits(t[12], p[12])
      BY <1>2, <2>2, FitsAre
    <3> QED
      BY <1>0, <2>2, <3>1 DEF Long
  <2>4. Len(p) = Len(t) /\ 2 \in 1 .. 11
    BY <1>2, <2>2 DEF Long
  <2> QED
    BY <2>3, <2>4, MatchedIf, Zenon
<1> QED
  BY <1>1, <1>2

LEMMA NumericMatched ==
    ASSUME NEW t, NEW c \in {"/", "-"}, NEW n \in {2, 4}, NEW y, Len(t) = 11,
           DatedFrom(t, 1, 2, c, c), \E m : t[3] = Num(2, m), t[5] = Num(n, y),
           t[6] = Mark("blank"), TimedFrom(t, 7)
    PROVE  Matched(t)
<1>0. PICK j \in 10 .. 11 : PARSERS[j] = Numeric({n})
  BY ParsersAre DEF PAT_DDMMYYYYHHMMSS, PAT_DDMMYYHHMMSS
<1>1. PICK p \in PARSERS[j] :
        p = <<Digits("day", {1, 2}), OneOf({"/", "-"}), Digits("month", {1, 2}),
              OneOf({"/", "-"}), Digits("year", {n}), OneOf({"blank"})>> \o Clock(Some)
  BY <1>0 DEF Numeric
<1>2. /\ Long(p, 11)
      /\ p[1] = Digits("day", {1, 2}) /\ p[2] = OneOf({"/", "-"}) /\ p[3] = Digits("month", {1, 2})
      /\ p[4] = OneOf({"/", "-"}) /\ p[5] = Digits("year", {n}) /\ p[6] = OneOf({"blank"})
      /\ ClockOf(p, 7, Some)
  BY <1>1 DEF Clock, ClockOf, Long
<1>3. \A i \in 1 .. 6 : Fits(t[i], p[i])
  BY <1>2, FitsAre DEF DatedFrom
<1>4. \A i \in 7 .. 11 : Fits(t[i], p[i])
  BY <1>2, ClockFits DEF Some
<1>5. \A i \in DOMAIN p : Fits(t[i], p[i])
  BY <1>2, <1>3, <1>4 DEF Long
<1>6. Len(p) = Len(t) /\ j \in 1 .. 11
  BY <1>2 DEF Long
<1> QED
  BY <1>5, <1>6, MatchedIf, Zenon

LEMMA RfcMomentMatched ==
    ASSUME NEW t, NEW n \in 1 .. 9, NEW y
    PROVE  /\ /\ Len(t) = 12 /\ DatedFrom(t, 1, n, "blank", "blank") /\ t[5] = Num(4, y)
              /\ t[6] = Mark("blank") /\ TimedFrom(t, 7) /\ t[12] = Mark("zone")
              => Matched(t)
           /\ /\ Len(t) = 13 /\ t[1] = Mark("weekday") /\ DatedFrom(t, 2, n, "blank", "blank")
              /\ t[6] = Num(4, y) /\ t[7] = Mark("blank") /\ TimedFrom(t, 8) /\ t[13] = Mark("zone")
              => Matched(t)
           /\ /\ Len(t) = 11 /\ DatedFrom(t, 1, n, "blank", "blank") /\ t[5] = Num(4, y)
              /\ t[6] = Mark("blank") /\ TimedFrom(t, 7)
              => Matched(t)
<1>0. 6 \in 1 .. 11
  OBVIOUS
<1>1. ASSUME Len(t) = 12, DatedFrom(t, 1, n, "blank", "blank"), t[5] = Num(4, y),
             t[6] = Mark("blank"), TimedFrom(t, 7), t[12] = Mark("zone")
      PROVE  Matched(t)
  <2>1. PICK p \in PARSERS[6] :
          p = <<>> \o RfcDate \o <<OneOf({"blank"})>> \o Clock(Some) \o <<OneOf({"zone"})>>
    BY ParsersAre, Zenon DEF PAT_RFC822_DATETIME, Weekday
  <2>2. /\ Long(p, 12) /\ RfcDayOf(p, 1) /\ p[6] = OneOf({"blank"})
        /\ ClockOf(p, 7, Some) /\ p[12] = OneOf({"zone"})
    BY <2>1, RfcMoments, Zenon
  <2>3. \A i \in 1 .. 6 : Fits(t[i], p[i])
    BY <1>1, <2>2, FitsAre DEF DatedFrom, RfcDayOf, Some
  <2>4. \A i \in 7 .. 11 : Fits(t[i], p[i])
    BY <1>1, <2>2, ClockFits DEF Some
  <2>5. Fits(t[12], p[12])
    BY <1>1, <2>2, FitsAre
  <2>6. \A i \in DOMAIN p : Fits(t[i], p[i])
    BY <2>2, <2>3, <2>4, <2>5 DEF Long
  <2>7. Len(p) = Len(t)
    BY <1>1, <2>2 DEF Long
  <2> QED
    BY <1>0, <2>6, <2>7, MatchedIf, Zenon
<1>2. ASSUME Len(t) = 13, t[1] = Mark("weekday"), DatedFrom(t, 2, n, "blank", "blank"),
             t[6] = Num(4, y), t[7] = Mark("blank"), TimedFrom(t, 8), t[13] = Mark("zone")
      PROVE  Matched(t)
  <2>1. PICK p \in PARSERS[6] :
          p = <<OneOf({"weekday"})>> \o RfcDate \o <<OneOf({"blank"})>> \o Clock(Some)
                \o <<OneOf({"zone"})>>
    BY ParsersAre, Zenon DEF PAT_RFC822_DATETIME, Weekday
  <2>2. /\ Long(p, 13) /\ p[1] = OneOf({"weekday"}) /\ RfcDayOf(p, 2) /\ p[7] = OneOf({"blank"})
        /\ ClockOf(p, 8, Some) /\ p[13] = OneOf({"zone"})
    BY <2>1, RfcMoments, Zenon
  <2>3. \A i \in 1 .. 7 : Fits(t[i], p[i])
    BY <1>2, <2>2, FitsAre DEF DatedFrom, RfcDayOf, Some
  <2>4. \A i \in 8 .. 12 : Fits(t[i], p[i])
    BY <1>2, <2>2, ClockFits DEF Some
  <2>5. Fits(t[13], p[13])
    BY <1>2, <2>2, FitsAre
  <2>6. \A i \in DOMAIN p : Fits(t[i], p[i])
    BY <2>2, <2>3, <2>4, <2>5 DEF Long
  <2>7. Len(p) = Len(t)
    BY <1>2, <2>2 DEF Long
  <2> QED
    BY <1>0, <2>6, <2>7, MatchedIf, Zenon
<1>3. ASSUME Len(t) = 11, DatedFrom(t, 1, n, "blank", "blank"), t[5] = Num(4, y),
             t[6] = Mark("blank"), TimedFrom(t, 7)
      PROVE  Matched(t)
  <2>1. PICK p \in PARSERS[6] :
          p = <<>> \o RfcDate \o <<OneOf({"blank"})>> \o SubSeq(Clock(Some), 1, 4)
                \o <<Digits("tens", 2 .. 9)>>
    BY ParsersAre, Zenon DEF PAT_RFC822_DATETIME, Weekday
  <2>2. /\ Long(p, 11) /\ RfcDayOf(p, 1) /\ p[6] = OneOf({"blank"})
        /\ p[7] = Digits("hour", Some) /\ p[8] = OneOf({":"})
        /\ p[9] = Digits("minute", Some) /\ p[10] = OneOf({":"})
        /\ p[11] = Digits("tens", 2 .. 9)
    BY <2>1, RfcMoments, Zenon
  <2>3. \A i \in 1 .. 6 : Fits(t[i], p[i])
    BY <1>3, <2>2, FitsAre DEF DatedFrom, RfcDayOf, Some
  <2>4. \A i \in 7 .. 11 : Fits(t[i], p[i])
    BY <1>3, <2>2, FitsAre DEF TimedFrom, Some
  <2>5. \A i \in DOMAIN p : Fits(t[i], p[i])
    BY <2>2, <2>3, <2>4 DEF Long
  <2>6. Len(p) = Len(t)
    BY <1>3, <2>2 DEF Long
  <2> QED
    BY <1>0, <2>5, <2>6, MatchedIf, Zenon
<1> QED
  BY <1>1, <1>2, <1>3

\* A day of this century, the only one that two digits can mean.
Today ==
    /\ day = <<Y, M, D>> /\ IsDate(day)
    /\ Y \in 2000 .. 2099 /\ M \in 1 .. 12 /\ D \in 1 .. 31

LEMMA FullYear == Today => Full(Y) = Y /\ Full(Y % 100) = Y /\ Full(D) = D + 2000
BY DEF Today, Full

LEMMA TimeIs ==
    ASSUME Today
    PROVE  /\ Time = <<Time[1], Time[2], Time[3]>>
           /\ Time[1] \in Nat /\ Time[2] \in Nat /\ Time[3] \in Nat
           /\ IsClock(Time) /\ IsClock(<<0, 0, 0>>)
           /\ IsClock(<<Time[1], Time[2], Time[3] \div 10>>)
<1>1. /\ (7 * D) % 24 \in 0 .. 23
      /\ (5 * M + 11 * D) % 60 \in 0 .. 59
      /\ (13 * D) % 60 \in 0 .. 59
  BY DEF Today
<1>2. Time = <<(7 * D) % 24, (5 * M + 11 * D) % 60, (13 * D) % 60>>
  BY Zenon DEF Time
<1>3. /\ Time = <<Time[1], Time[2], Time[3]>>
      /\ Time[1] \in 0 .. 23 /\ Time[2] \in 0 .. 59 /\ Time[3] \in 0 .. 59
  BY <1>1, <1>2
<1>4. Time[3] \div 10 \in 0 .. 59
  BY <1>3
<1> QED
  BY <1>3, <1>4 DEF IsClock

LEMMA Right ==
    ASSUME Today, NEW t, NEW time, IsClock(time), Reads(t, day, time), Matched(t)
    PROVE  parse_datetime(t) = day \o time /\ AllRead(t, day \o time)
<1>0. Matched(t) /\ IsDate(day) /\ IsClock(time) => parse_datetime(t) = day \o time
  BY FirstRead, Zenon
<1>1. parse_datetime(t) = day \o time
  BY <1>0 DEF Today
<1>2. AllRead(t, day \o time)
  BY Zenon DEF AllRead, Reads
<1> QED
  BY <1>1, <1>2

LEMMA ClockIs ==
    Clock2 = <<Num(2, Time[1]), Mark(":"), Num(2, Time[2]), Mark(":"), Num(2, Time[3])>>
BY DEF Clock2, Joined

LEMMA DaysWritten ==
    /\ Day2 = <<Num(2, D), Mark("-"), Num(2, M), Mark("-"), Num(4, Y)>>
    /\ IsoDay = <<Num(4, Y), Mark("-"), Num(2, M), Mark("-"), Num(2, D)>>
    /\ \A c : Joined(Mark(c), <<Num(2, D), Num(2, M), Num(4, Y)>>)
                = <<Num(2, D), Mark(c), Num(2, M), Mark(c), Num(4, Y)>>
    /\ \A c, year : Joined(Mark(c), <<Num(2, D), Num(2, M), year>>)
                      = <<Num(2, D), Mark(c), Num(2, M), Mark(c), year>>
BY DEF Day2, IsoDay, Joined

\* The day is written in one digit or in two.
LEMMA DayOne == \E g \in {1, 2} : Day1 = <<Num(g, D)>>
BY DEF Day1

LEMMA DayAsRead ==
    ASSUME Today, NEW t, NEW time, Reads(t, <<Y, M, D>>, time)
    PROVE  Reads(t, day, time)
<1>1. day = <<Y, M, D>>
  BY DEF Today
<1> QED
  BY <1>1, Zenon

LEMMA DmyDayRead ==
    ASSUME Today, NEW c \in {"/", ".", "-", "blank"},
           NEW t, t = Joined(Mark(c), <<Num(2, D), Num(2, M), Num(4, Y)>>)
    PROVE  Reads(t, day, <<0, 0, 0>>) /\ Matched(t)
<1>1. /\ Len(t) = 5 /\ t[1] = Num(2, D) /\ t[2] = Mark(c) /\ t[3] = Num(2, M)
      /\ t[4] = Mark(c) /\ t[5] = Num(4, Y)
  BY DaysWritten
<1>2. c \in Separators \cup {"comma_blank"} /\ c \in Separators /\ 2 \in Short
  BY DEF Separators, Short
<1>3. Reads(t, <<Full(Y), M, D>>, <<0, 0, 0>>)
  BY <1>1, <1>2, ReadDayFirst, ValuesAre
<1>4. Matched(t)
  BY <1>1, <1>2, DmyMatched DEF DatedFrom
<1> QED
  BY <1>3, <1>4, FullYear, DayAsRead

LEMMA IsoDayRead ==
    ASSUME Today
    PROVE  /\ Reads(IsoDay, day, <<0, 0, 0>>) /\ Matched(IsoDay)
           /\ \A t : t = <<Num(4, Y), Num(2, M), Num(2, D)>>
                 => Reads(t, day, <<0, 0, 0>>) /\ Matched(t)
<1>1. /\ Len(IsoDay) = 5 /\ IsoDay[1] = Num(4, Y) /\ IsoDay[2] = Mark("-")
      /\ IsoDay[3] = Num(2, M) /\ IsoDay[4] = Mark("-") /\ IsoDay[5] = Num(2, D)
  BY DaysWritten
<1>2. Reads(IsoDay, <<Full(Y), M, D>>, <<0, 0, 0>>)
  BY <1>1, ReadYearFirst, ValuesAre
<1>3. Matched(IsoDay)
  BY <1>1, IsoDateMatched DEF YearFrom
<1>4. ASSUME NEW t, t = <<Num(4, Y), Num(2, M), Num(2, D)>>
      PROVE  Reads(t, <<Full(Y), M, D>>, <<0, 0, 0>>) /\ Matched(t)
  <2>1. Len(t) = 3 /\ t[1] = Num(4, Y) /\ t[2] = Num(2, M) /\ t[3] = Num(2, D)
    BY <1>4
  <2>2. Reads(t, <<Full(t[1].value), t[2].value, t[3].value>>, <<0, 0, 0>>)
    BY <2>1, ReadBasicDate
  <2> QED
    BY <2>1, <2>2, BasicDateMatched, ValuesAre
<1> QED
  BY <1>2, <1>3, <1>4, FullYear, DayAsRead

\* The month by its name.
LEMMA NamedDayRead ==
    ASSUME Today, NEW c, NEW e, NEW n, NEW y, Full(y) = Y,
           \/ c \in Separators \cup {"comma_blank"} /\ e \in Separators /\ n = 4
           \/ c = "blank" /\ e = "blank" /\ n \in {2, 4}
           \/ c = "de" /\ e = "de" /\ n = 4
    PROVE  LET t == Day1 \o <<Mark(c), Month(M), Mark(e), Num(n, y)>>
           IN  Reads(t, day, <<0, 0, 0>>) /\ Matched(t)
<1> DEFINE t == Day1 \o <<Mark(c), Month(M), Mark(e), Num(n, y)>>
<1>0. PICK g \in {1, 2} : Day1 = <<Num(g, D)>>
  BY DayOne
<1>1. /\ Len(t) = 5 /\ t[1] = Num(g, D) /\ t[2] = Mark(c) /\ t[3] = Month(M)
      /\ t[4] = Mark(e) /\ t[5] = Num(n, y)
  <2>1. t = <<Num(g, D)>> \o <<Mark(c), Month(M), Mark(e), Num(n, y)>>
    BY <1>0, Zenon
  <2> HIDE DEF t
  <2> QED
    BY <2>1
<1> HIDE DEF t
<1>2. g \in Short /\ g \in 1 .. 9 /\ t[3].value = M
  BY <1>1, ValuesAre DEF Short
<1>3. Reads(t, <<Full(y), M, D>>, <<0, 0, 0>>)
  BY <1>1, <1>2, ReadDayFirst
<1>4. DatedFrom(t, 1, g, c, e)
  BY <1>1 DEF DatedFrom
<1>5. CASE c \in Separators \cup {"comma_blank"} /\ e \in Separators /\ n = 4
  <2>1. Matched(t)
    BY <1>1, <1>2, <1>4, <1>5, DmyMatched
  <2> QED
    BY <1>3, <2>1, DayAsRead DEF t
<1>6. CASE c = "blank" /\ e = "blank" /\ n \in {2, 4}
  <2>1. n \in 1 .. 9
    BY <1>6
  <2>2. Matched(t)
    BY <1>1, <1>2, <1>4, <1>6, <2>1, RfcDateMatched, Zenon
  <2> QED
    BY <1>3, <2>2, DayAsRead DEF t
<1>7. CASE c = "de" /\ e = "de" /\ n = 4
  <2>1. Matched(t)
    BY <1>1, <1>2, <1>4, <1>7, CompletaMatched
  <2> QED
    BY <1>3, <2>1, DayAsRead DEF t
<1> QED
  BY <1>5, <1>6, <1>7 DEF t

LEMMA WeekdayRead ==
    ASSUME Today, NEW n \in {2, 4}, NEW y, Full(y) = Y, y \in Nat
    PROVE  LET t == <<Mark("weekday")>> \o RfcDay(Num(n, y))
           IN  Reads(t, day, <<0, 0, 0>>) /\ Matched(t)
<1> DEFINE t == <<Mark("weekday")>> \o RfcDay(Num(n, y))
<1>1. PICK g \in {1, 2} : Day1 = <<Num(g, D)>>
  BY DayOne
<1>2. /\ Len(t) = 6 /\ t[1] = Mark("weekday") /\ t[2] = Num(g, D) /\ t[3] = Mark("blank")
      /\ t[4] = Month(M) /\ t[5] = Mark("blank") /\ t[6] = Num(n, y)
  <2>1. t = <<Mark("weekday")>>
              \o (<<Num(g, D)>> \o <<Mark("blank"), Month(M), Mark("blank"), Num(n, y)>>)
    BY <1>1, Zenon DEF RfcDay
  <2> HIDE DEF t
  <2> QED
    BY <2>1
<1> HIDE DEF t
<1>3. Reads(t, <<Full(t[6].value), t[4].value, t[2].value>>, <<0, 0, 0>>)
  <2>1. t[6].value \in Nat
    BY <1>2, ValuesAre
  <2> QED
    BY <1>2, <2>1, ReadSix
<1>4. Reads(t, <<Y, M, D>>, <<0, 0, 0>>)
  <2>1. t[2].value = D /\ t[4].value = M /\ t[6].value = y
    BY <1>2, ValuesAre
  <2> QED
    BY <1>3, <2>1, Zenon
<1>5. Matched(t)
  <2>1. DatedFrom(t, 2, g, "blank", "blank") /\ g \in 1 .. 9 /\ n \in 1 .. 9
    BY <1>2 DEF DatedFrom
  <2> QED
    BY <1>2, <2>1, RfcDateMatched, Zenon
<1> QED
  BY <1>4, <1>5, DayAsRead DEF t

\* The tokens of hh:mm:ss are those of the time.
TimeFrom(t, k) ==
    /\ t[k] = Num(2, Time[1]) /\ t[k + 1] = Mark(":") /\ t[k + 2] = Num(2, Time[2])
    /\ t[k + 3] = Mark(":") /\ t[k + 4] = Num(2, Time[3])

LEMMA TimeFromIs ==
    ASSUME Today, NEW t, NEW k \in Nat, TimeFrom(t, k)
    PROVE  /\ TimedFrom(t, k)
           /\ <<t[k].value, t[k + 2].value, t[k + 4].value>> = Time
           /\ t[k + 4].value \in Nat
<1>1. TimedFrom(t, k)
  BY DEF TimeFrom, TimedFrom
<1>2. /\ t[k].value = Time[1] /\ t[k + 2].value = Time[2] /\ t[k + 4].value = Time[3]
  BY ValuesAre DEF TimeFrom
<1> QED
  BY <1>1, <1>2, TimeIs

LEMMA IsoMomentRead ==
    ASSUME Today, NEW c \in {"blank", "T"}, NEW z \in {<<>>, <<Mark("zone")>>}
    PROVE  LET t == IsoDay \o <<Mark(c)>> \o Clock2 \o z
           IN  Reads(t, day, Time) /\ Matched(t)
<1> DEFINE t == IsoDay \o <<Mark(c)>> \o Clock2 \o z
<1>1. /\ Len(t) = 11 \/ (Len(t) = 12 /\ t[12] = Mark("zone"))
      /\ t[1] = Num(4, Y) /\ t[2] = Mark("-") /\ t[3] = Num(2, M) /\ t[4] = Mark("-")
      /\ t[5] = Num(2, D) /\ t[6] = Mark(c) /\ TimeFrom(t, 7)
  <2>1. t = <<Num(4, Y), Mark("-"), Num(2, M), Mark("-"), Num(2, D)>> \o <<Mark(c)>>
              \o <<Num(2, Time[1]), Mark(":"), Num(2, Time[2]), Mark(":"), Num(2, Time[3])>> \o z
    BY DaysWritten, ClockIs, Zenon
  <2> HIDE DEF t
  <2>2. CASE z = <<>>
    BY <2>1, <2>2 DEF TimeFrom
  <2>3. CASE z = <<Mark("zone")>>
    BY <2>1, <2>3 DEF TimeFrom
  <2> QED
    BY <2>2, <2>3
<1> HIDE DEF t
<1>2. TimedFrom(t, 7) /\ <<t[7].value, t[9].value, t[11].value>> = Time /\ t[11].value \in Nat
  BY <1>1, TimeFromIs
<1>3. Reads(t, <<Full(Y), t[3].value, t[5].value>>, Time)
  BY <1>1, <1>2, ReadIsoMoment
<1>4. Reads(t, <<Y, M, D>>, Time)
  BY <1>1, <1>3, FullYear, ValuesAre
<1>5. Matched(t)
  BY <1>1, <1>2, IsoMomentMatched DEF YearFrom
<1> QED
  BY <1>4, <1>5, DayAsRead DEF t

\* Without marks.
LEMMA BasicMomentRead ==
    ASSUME Today
    PROVE  LET t == <<Num(4, Y), Num(2, M), Num(2, D)>> \o [i \in 1 .. 3 |-> Num(2, Time[i])]
           IN  Reads(t, day, Time) /\ Matched(t)
<1> DEFINE t == <<Num(4, Y), Num(2, M), Num(2, D)>> \o [i \in 1 .. 3 |-> Num(2, Time[i])]
<1>1. /\ Len(t) = 6 /\ t[1] = Num(4, Y) /\ t[2] = Num(2, M) /\ t[3] = Num(2, D)
      /\ t[4] = Num(2, Time[1]) /\ t[5] = Num(2, Time[2]) /\ t[6] = Num(2, Time[3])
  OBVIOUS
<1> HIDE DEF t
<1>2. t[1].value = Y /\ t[2].value = M /\ t[3].value = D
  BY <1>1, ValuesAre
<1>3. t[4].value = Time[1] /\ t[5].value = Time[2] /\ t[6].value = Time[3]
  BY <1>1, ValuesAre
<1>4. Reads(t, <<Full(t[1].value), t[2].value, t[3].value>>, <<t[4].value, t[5].value, t[6].value>>)
  BY <1>1, <1>2, <1>3, TimeIs, ReadSix
<1>5. Reads(t, <<Y, M, D>>, Time)
  BY <1>2, <1>3, <1>4, FullYear, TimeIs
<1>6. Matched(t)
  BY <1>1, BasicMomentMatched
<1> QED
  BY <1>5, <1>6, DayAsRead DEF t

\* RFC 822, with its zone and without.
LEMMA RfcRead ==
    ASSUME Today
    PROVE  LET text(w, z) == w \o RfcDay(Num(4, Y)) \o <<Mark("blank")>> \o Clock2 \o z
               short == RfcDay(Num(4, Y)) \o <<Mark("blank")>> \o Clock2
           IN  /\ \A w \in {<<>>, <<Mark("weekday")>>} :
                    Reads(text(w, <<Mark("zone")>>), day, Time) /\ Matched(text(w, <<Mark("zone")>>))
               /\ Reads(short, day, <<Time[1], Time[2], Time[3] \div 10>>) /\ Matched(short)
<1> DEFINE text(w, z) == w \o RfcDay(Num(4, Y)) \o <<Mark("blank")>> \o Clock2 \o z
           short == RfcDay(Num(4, Y)) \o <<Mark("blank")>> \o Clock2
           Named(t, k, g) == /\ t[k] = Num(g, D) /\ t[k + 1] = Mark("blank") /\ t[k + 2] = Month(M)
                             /\ t[k + 3] = Mark("blank") /\ t[k + 4] = Num(4, Y)
                             /\ t[k + 5] = Mark("blank") /\ TimeFrom(t, k + 6)
<1>1. PICK g \in {1, 2} : Day1 = <<Num(g, D)>>
  BY DayOne
<1>2. g \in Short /\ g \in 1 .. 9 /\ g # 4
  BY DEF Short
<1>3. RfcDay(Num(4, Y)) = <<Num(g, D)>> \o <<Mark("blank"), Month(M), Mark("blank"), Num(4, Y)>>
  BY <1>1, Zenon DEF RfcDay
<1>4. ASSUME NEW t, NEW k \in {1, 2}, Named(t, k, g)
      PROVE  /\ DatedFrom(t, k, g, "blank", "blank")
             /\ t[k].value = D /\ t[k + 2].value = M /\ t[k + 4].value = Y
             /\ TimedFrom(t, k + 6) /\ t[k + 10].value \in Nat
             /\ <<t[k + 6].value, t[k + 8].value, t[k + 10].value>> = Time
  <2>1. DatedFrom(t, k, g, "blank", "blank")
    BY <1>4 DEF DatedFrom
  <2>2. t[k].value = D /\ t[k + 2].value = M /\ t[k + 4].value = Y
    BY <1>4, ValuesAre
  <2>3. k + 6 \in Nat /\ k + 6 + 2 = k + 8 /\ k + 6 + 4 = k + 10
    OBVIOUS
  <2> QED
    BY <1>4, <2>1, <2>2, <2>3, TimeFromIs
<1>5. LET t == text(<<>>, <<Mark("zone")>>) IN Reads(t, day, Time) /\ Matched(t)
  <2> DEFINE t == text(<<>>, <<Mark("zone")>>)
  <2>1. t = <<>> \o (<<Num(g, D)>> \o <<Mark("blank"), Month(M), Mark("blank"), Num(4, Y)>>)
              \o <<Mark("blank")>>
              \o <<Num(2, Time[1]), Mark(":"), Num(2, Time[2]), Mark(":"), Num(2, Time[3])>>
              \o <<Mark("zone")>>
    BY <1>3, ClockIs, Zenon
  <2> HIDE DEF t
  <2>2. Len(t) = 12 /\ Named(t, 1, g) /\ t[12] = Mark("zone")
    BY <2>1 DEF TimeFrom
  <2>3. /\ DatedFrom(t, 1, g, "blank", "blank")
        /\ t[1].value = D /\ t[3].value = M /\ t[5].value = Y
        /\ TimedFrom(t, 7) /\ t[11].value \in Nat
        /\ <<t[7].value, t[9].value, t[11].value>> = Time
    BY <1>4, <2>2
  <2>4. Reads(t, <<Full(t[5].value), t[3].value, D>>, <<t[7].value, t[9].value, t[11].value>>)
    BY <1>2, <2>2, <2>3, ReadTail
  <2>5. Reads(t, <<Y, M, D>>, Time)
    BY <2>3, <2>4, FullYear
  <2>6. Matched(t)
    BY <1>2, <2>2, <2>3, RfcMomentMatched
  <2> QED
    BY <2>5, <2>6, DayAsRead DEF t
<1>6. LET t == text(<<Mark("weekday")>>, <<Mark("zone")>>) IN Reads(t, day, Time) /\ Matched(t)
  <2> DEFINE t == text(<<Mark("weekday")>>, <<Mark("zone")>>)
  <2>1. t = <<Mark("weekday")>>
              \o (<<Num(g, D)>> \o <<Mark("blank"), Month(M), Mark("blank"), Num(4, Y)>>)
              \o <<Mark("blank")>>
              \o <<Num(2, Time[1]), Mark(":"), Num(2, Time[2]), Mark(":"), Num(2, Time[3])>>
              \o <<Mark("zone")>>
    BY <1>3, ClockIs, Zenon
  <2> HIDE DEF t
  <2>2. Len(t) = 13 /\ t[1] = Mark("weekday") /\ Named(t, 2, g) /\ t[13] = Mark("zone")
    BY <2>1 DEF TimeFrom
  <2>3. /\ DatedFrom(t, 2, g, "blank", "blank")
        /\ t[2].value = D /\ t[4].value = M /\ t[6].value = Y
        /\ TimedFrom(t, 8) /\ t[12].value \in Nat
        /\ <<t[8].value, t[10].value, t[12].value>> = Time
    BY <1>4, <2>2
  <2>4. Reads(t, <<Full(t[6].value), t[4].value, D>>, <<t[8].value, t[10].value, t[12].value>>)
    BY <2>2, <2>3, ReadRfcMoment
  <2>5. Reads(t, <<Y, M, D>>, Time)
    BY <2>3, <2>4, FullYear
  <2>6. Matched(t)
    BY <1>2, <2>2, <2>3, RfcMomentMatched
  <2> QED
    BY <2>5, <2>6, DayAsRead DEF t
<1>7. Reads(short, day, <<Time[1], Time[2], Time[3] \div 10>>) /\ Matched(short)
  <2>1. short = (<<Num(g, D)>> \o <<Mark("blank"), Month(M), Mark("blank"), Num(4, Y)>>)
                  \o <<Mark("blank")>>
                  \o <<Num(2, Time[1]), Mark(":"), Num(2, Time[2]), Mark(":"), Num(2, Time[3])>>
    BY <1>3, ClockIs, Zenon
  <2> HIDE DEF short
  <2>2. Len(short) = 11 /\ Named(short, 1, g)
    BY <2>1 DEF TimeFrom
  <2>3. /\ DatedFrom(short, 1, g, "blank", "blank")
        /\ short[1].value = D /\ short[3].value = M /\ short[5].value = Y
        /\ TimedFrom(short, 7) /\ short[11].value \in Nat
        /\ short[7].value = Time[1] /\ short[9].value = Time[2] /\ short[11].value = Time[3]
    BY <1>4, <2>2, ValuesAre DEF TimeFrom
  <2>4. Reads(short, <<Full(short[5].value), short[3].value, D>>,
                     <<short[7].value, short[9].value, short[11].value \div 10>>)
    <3>1. Len(short) = 11 /\ short[1] = Num(g, D) /\ short[2] = Mark("blank")
      BY <2>2
    <3>2. short[11].value \in Nat
      BY <2>3
    <3> QED
      BY <1>2, <3>1, <3>2, ReadEleven, Zenon
  <2>5. Reads(short, <<Y, M, D>>, <<Time[1], Time[2], Time[3] \div 10>>)
    BY <2>3, <2>4, FullYear
  <2>6. Matched(short)
    BY <1>2, <2>2, <2>3, RfcMomentMatched
  <2> QED
    BY <2>5, <2>6, DayAsRead
<1> HIDE DEF text, short
<1>8. ASSUME NEW w \in {<<>>, <<Mark("weekday")>>}
      PROVE  Reads(text(w, <<Mark("zone")>>), day, Time) /\ Matched(text(w, <<Mark("zone")>>))
  <2>1. w = <<>> \/ w = <<Mark("weekday")>>
    BY <1>8, Zenon
  <2> QED
    BY <1>5, <1>6, <2>1, Zenon
<1> QED
  BY <1>7, <1>8, Zenon DEF text, short

\* dd/mm/yyyy and dd-mm-yyyy with a time, and with the fraction of str().
LEMMA DmyMomentRead ==
    ASSUME Today, NEW c \in {"/", "-"}, NEW n \in {2, 4}, NEW y, Full(y) = Y
    PROVE  LET t == <<Num(2, D), Mark(c), Num(2, M), Mark(c), Num(n, y)>>
                      \o <<Mark("blank")>> \o Clock2
           IN  Reads(t, day, Time) /\ Matched(t)
<1> DEFINE t == <<Num(2, D), Mark(c), Num(2, M), Mark(c), Num(n, y)>> \o <<Mark("blank")>> \o Clock2
<1>1. /\ Len(t) = 11 /\ t[1] = Num(2, D) /\ t[2] = Mark(c) /\ t[3] = Num(2, M) /\ t[4] = Mark(c)
      /\ t[5] = Num(n, y) /\ t[6] = Mark("blank") /\ TimeFrom(t, 7)
  <2>1. t = <<Num(2, D), Mark(c), Num(2, M), Mark(c), Num(n, y)>> \o <<Mark("blank")>>
              \o <<Num(2, Time[1]), Mark(":"), Num(2, Time[2]), Mark(":"), Num(2, Time[3])>>
    BY ClockIs, Zenon
  <2> HIDE DEF t
  <2> QED
    BY <2>1 DEF TimeFrom
<1> HIDE DEF t
<1>2. TimedFrom(t, 7) /\ <<t[7].value, t[9].value, t[11].value>> = Time /\ t[11].value \in Nat
  BY <1>1, TimeFromIs
<1>3. t[3].value = M /\ t[5].value = y
  BY <1>1, ValuesAre
<1>4. Reads(t, <<Full(t[5].value), t[3].value, D>>, <<t[7].value, t[9].value, t[11].value>>)
  <2>1. t[2] = Mark("/") \/ t[2] = Mark("-")
    BY <1>1
  <2>2. 2 \in Short
    BY DEF Short
  <2> QED
    BY <1>1, <1>2, <2>1, <2>2, ReadEleven, Zenon
<1>5. Reads(t, <<Y, M, D>>, Time)
  BY <1>2, <1>3, <1>4
<1>6. Matched(t)
  <2>1. DatedFrom(t, 1, 2, c, c)
    BY <1>1 DEF DatedFrom
  <2> QED
    BY <1>1, <1>2, <2>1, NumericMatched
<1> QED
  BY <1>5, <1>6, DayAsRead DEF t

LEMMA DashMomentRead ==
    ASSUME Today
    PROVE  LET t == Day2 \o <<Mark("blank")>> \o Clock2 \o <<Mark("."), Num(6, 0)>>
           IN  Reads(t, day, Time) /\ Matched(t)
<1> DEFINE t == Day2 \o <<Mark("blank")>> \o Clock2 \o <<Mark("."), Num(6, 0)>>
<1>1. /\ Len(t) = 13 /\ t[1] = Num(2, D) /\ t[2] = Mark("-") /\ t[3] = Num(2, M) /\ t[4] = Mark("-")
      /\ t[5] = Num(4, Y) /\ t[6] = Mark("blank") /\ TimeFrom(t, 7)
      /\ t[12] = Mark(".") /\ t[13] = Num(6, 0)
  <2>1. t = <<Num(2, D), Mark("-"), Num(2, M), Mark("-"), Num(4, Y)>> \o <<Mark("blank")>>
              \o <<Num(2, Time[1]), Mark(":"), Num(2, Time[2]), Mark(":"), Num(2, Time[3])>>
              \o <<Mark("."), Num(6, 0)>>
    BY DaysWritten, ClockIs, Zenon
  <2> HIDE DEF t
  <2> QED
    BY <2>1 DEF TimeFrom
<1> HIDE DEF t
<1>2. TimedFrom(t, 7) /\ <<t[7].value, t[9].value, t[11].value>> = Time /\ t[11].value \in Nat
  BY <1>1, TimeFromIs
<1>3. t[3].value = M /\ t[5].value = Y
  BY <1>1, ValuesAre
<1>4. Reads(t, <<Full(t[5].value), t[3].value, D>>, <<t[7].value, t[9].value, t[11].value>>)
  <2>1. 2 \in 1 .. 9
    OBVIOUS
  <2> QED
    BY <1>1, <1>2, <2>1, ReadTail, Zenon
<1>5. Reads(t, <<Y, M, D>>, Time)
  BY <1>2, <1>3, <1>4, FullYear
<1>6. Matched(t)
  <2>1. PICK p \in PARSERS[9] :
          p = <<Digits("day", Some), OneOf({"-"}), Digits("month", Some), OneOf({"-"}),
                Digits("year", Some), OneOf({"blank"})>> \o Clock({2})
                \o <<OneOf({".", "comma", ":", "blank"}), Digits("fraction", Some)>>
    BY ParsersAre DEF PAT_FECHA_HORA
  <2>2. /\ Long(p, 13)
        /\ p[1] = Digits("day", Some) /\ p[2] = OneOf({"-"}) /\ p[3] = Digits("month", Some)
        /\ p[4] = OneOf({"-"}) /\ p[5] = Digits("year", Some) /\ p[6] = OneOf({"blank"})
        /\ ClockOf(p, 7, {2})
        /\ p[12] = OneOf({".", "comma", ":", "blank"}) /\ p[13] = Digits("fraction", Some)
    BY <2>1 DEF Clock, ClockOf, Long
  <2>3. \A i \in 1 .. 6 : Fits(t[i], p[i])
    BY <1>1, <2>2, FitsAre DEF Some
  <2>4. \A i \in 7 .. 11 : Fits(t[i], p[i])
    BY <1>2, <2>2, ClockFits
  <2>5. Fits(t[12], p[12]) /\ Fits(t[13], p[13])
    BY <1>1, <2>2, FitsAre DEF Some
  <2>6. \A i \in DOMAIN p : Fits(t[i], p[i])
    BY <2>2, <2>3, <2>4, <2>5 DEF Long
  <2>7. Len(p) = Len(t) /\ 9 \in 1 .. 11
    BY <1>1, <2>2 DEF Long
  <2> QED
    BY <2>6, <2>7, MatchedIf, Zenon
<1> QED
  BY <1>5, <1>6, DayAsRead DEF t

\* What str() writes: its day of the month is taken for a year, its year for a
\* day of the month, which no month has.
LEMMA FractionRefused ==
    ASSUME Today
    PROVE  parse_datetime(IsoDay \o <<Mark("blank")>> \o Clock2 \o <<Mark("."), Num(6, 0)>>) = <<>>
<1> DEFINE t == IsoDay \o <<Mark("blank")>> \o Clock2 \o <<Mark("."), Num(6, 0)>>
<1>1. /\ Len(t) = 13 /\ t[1] = Num(4, Y) /\ t[3] = Num(2, M) /\ t[5] = Num(2, D) /\ TimeFrom(t, 7)
  <2>1. t = <<Num(4, Y), Mark("-"), Num(2, M), Mark("-"), Num(2, D)>> \o <<Mark("blank")>>
              \o <<Num(2, Time[1]), Mark(":"), Num(2, Time[2]), Mark(":"), Num(2, Time[3])>>
              \o <<Mark("."), Num(6, 0)>>
    BY DaysWritten, ClockIs, Zenon
  <2> HIDE DEF t
  <2> QED
    BY <2>1 DEF TimeFrom
<1> HIDE DEF t
<1>2. <<t[7].value, t[9].value, t[11].value>> = Time /\ t[11].value \in Nat
  BY <1>1, TimeFromIs
<1>3. t[3].value = M /\ t[5].value = D
  BY <1>1, ValuesAre
<1>4. Reads(t, <<Full(t[5].value), t[3].value, Y>>, <<t[7].value, t[9].value, t[11].value>>)
  <2>1. 4 \in 1 .. 9
    OBVIOUS
  <2> QED
    BY <1>1, <1>2, <2>1, ReadTail, Zenon
<1>5. Reads(t, <<D + 2000, M, Y>>, Time)
  BY <1>2, <1>3, <1>4, FullYear
<1>6. ~ IsDate(<<D + 2000, M, Y>>)
  <2>1. MonthRange(D + 2000, M) \in 28 .. 31
    BY MonthRangeIn DEF Today
  <2> QED
    BY <2>1 DEF IsDate, Today
<1>7. parse_datetime(t) = <<>>
  <2> DEFINE date == <<D + 2000, M, Y>>
  <2>1. Reads(t, date, Time) /\ ~ IsDate(date)
    BY <1>5, <1>6
  <2> HIDE DEF date
  <2> QED
    BY <2>1, FirstRead, Zenon
<1> QED
  BY <1>7, Zenon DEF t

\* dmy splits at the mark that is there.
LEMMA SplitRead ==
    ASSUME Today, NEW c \in {"/", ".", "-"}
    PROVE  dmy(Joined(Mark(c), <<Num(2, D), Num(2, M), Num(4, Y)>>)) = day
<1> DEFINE t == Joined(Mark(c), <<Num(2, D), Num(2, M), Num(4, Y)>>)
           marks == {i \in 1 .. 3 : \E u \in Range(t) : u.kind = <<".", "/", "-">>[i]}
<1>1. t = <<Num(2, D), Mark(c), Num(2, M), Mark(c), Num(4, Y)>>
  BY DaysWritten
<1> HIDE DEF t
<1>2. /\ Len(t) = 5 /\ DOMAIN t = 1 .. 5
      /\ t[1] = Num(2, D) /\ t[2] = Mark(c) /\ t[3] = Num(2, M) /\ t[4] = Mark(c)
      /\ t[5] = Num(4, Y)
  BY <1>1
<1>3. /\ t[1].kind = "num" /\ t[3].kind = "num" /\ t[5].kind = "num"
      /\ t[2].kind = c /\ t[4].kind = c
      /\ t[1].value = D /\ t[3].value = M /\ t[5].value = Y
  BY <1>2 DEF Num, Mark
<1>4. \A x : (\E u \in Range(t) : u.kind = x) <=> x \in {"num", c}
  BY <1>2, <1>3 DEF Range
<1>5. PICK i \in 1 .. 3 : <<".", "/", "-">>[i] = c /\ \A k \in 1 .. 3 : <<".", "/", "-">>[k] = c => k = i
  OBVIOUS
<1>6. \A k \in 1 .. 3 : <<".", "/", "-">>[k] # "num"
  OBVIOUS
<1>7. marks = {i}
  BY <1>4, <1>5, <1>6
<1> HIDE DEF marks
<1>8. Min(marks) = i
  BY <1>7, MinIs
<1>9. dmy(t) = LET s == <<".", "/", "-">>[Min(marks)]
               IN  IF marks # {} /\ Len(t) = 5 /\ t[2].kind = s /\ t[4].kind = s
                   THEN <<t[5].value, t[3].value, t[1].value>> ELSE <<>>
  BY Zenon DEF dmy, marks
<1>10. dmy(t) = <<Y, M, D>>
  BY <1>2, <1>3, <1>5, <1>7, <1>8, <1>9
<1> QED
  BY <1>10 DEF Today, t

LEMMA DaysRead ==
    ASSUME Today, NEW t \in Days
    PROVE  Reads(t, day, <<0, 0, 0>>) /\ Matched(t)
<1> DEFINE zero == <<0, 0, 0>>
           Right0(u) == Reads(u, day, zero) /\ Matched(u)
<1>1. Full(Y) = Y /\ Full(Y % 100) = Y /\ Y \in Nat /\ Y % 100 \in Nat
  BY FullYear DEF Today
<1>2. CASE t \in DmyDays
  <2>1. PICK c \in {"/", ".", "-", "blank"} : t = Joined(Mark(c), <<Num(2, D), Num(2, M), Num(4, Y)>>)
    BY <1>2, Zenon DEF DmyDays
  <2> QED
    BY <2>1, DmyDayRead, Zenon
<1>3. CASE t \in IsoDays
  <2>1. t = IsoDay \/ t = <<Num(4, Y), Num(2, M), Num(2, D)>>
    BY <1>3, Zenon DEF IsoDays
  <2> QED
    BY <2>1, IsoDayRead, Zenon
<1>4. CASE t \in RfcDays
  <2>1. PICK w \in {<<>>, <<Mark("weekday")>>}, year \in {Num(4, Y), Num(2, Y % 100)} :
          t = w \o RfcDay(year)
    BY <1>4 DEF RfcDays
  <2>2. PICK n \in {2, 4}, y \in Nat : year = Num(n, y) /\ Full(y) = Y
    BY <1>1, <2>1
  <2>3. CASE w = <<>>
    <3>1. Right0(RfcDay(Num(n, y)))
      BY <2>2, NamedDayRead, Zenon DEF RfcDay
    <3>2. <<>> \o RfcDay(Num(n, y)) = RfcDay(Num(n, y))
      BY DayOne DEF RfcDay
    <3>3. t = RfcDay(Num(n, y))
      BY <2>1, <2>2, <2>3, <3>2, Zenon
    <3> QED
      BY <3>1, <3>3, Zenon
  <2>4. CASE w = <<Mark("weekday")>>
    BY <2>1, <2>2, <2>4, WeekdayRead, Zenon
  <2> QED
    BY <2>1, <2>3, <2>4, Zenon
<1>5. CASE t \in NamedDays
  <2>1. PICK c \in {"comma_blank", "-", "de"}, e \in {"blank", "de"} :
          /\ t = Day1 \o <<Mark(c), Month(M), Mark(e), Num(4, Y)>>
          /\ e = "de" <=> c = "de"
    BY <1>5 DEF NamedDays
  <2>2. CASE c = "de"
    BY <1>1, <2>1, <2>2, NamedDayRead, Zenon
  <2>3. CASE c # "de"
    <3>1. c \in Separators \cup {"comma_blank"} /\ e \in Separators
      BY <2>1, <2>3 DEF Separators
    <3> QED
      BY <1>1, <2>1, <3>1, NamedDayRead, Zenon
  <2> QED
    BY <2>2, <2>3
<1> QED
  BY <1>2, <1>3, <1>4, <1>5, Zenon DEF Days

LEMMA MomentsRead ==
    ASSUME Today, NEW t \in Moments
    PROVE  Reads(t, day, Time) /\ Matched(t)
<1>1. Full(Y) = Y /\ Full(Y % 100) = Y
  BY FullYear
<1>2. CASE t \in IsoTimes
  <2> DEFINE marked == {IsoDay \o <<Mark(c)>> \o Clock2 \o z :
                           c \in {"blank", "T"}, z \in {<<>>, <<Mark("zone")>>}}
             basic == <<Num(4, Y), Num(2, M), Num(2, D)>> \o [i \in 1 .. 3 |-> Num(2, Time[i])]
  <2>1. t \in marked \/ t = basic
    <3>1. IsoTimes = marked \cup {basic}
      BY DEF IsoTimes
    <3> HIDE DEF marked, basic
    <3> QED
      BY <1>2, <3>1, Zenon
  <2>2. CASE t \in marked
    <3>1. PICK c \in {"blank", "T"}, z \in {<<>>, <<Mark("zone")>>} :
            t = IsoDay \o <<Mark(c)>> \o Clock2 \o z
      BY <2>2
    <3> QED
      BY <3>1, IsoMomentRead, Zenon
  <2>3. CASE t = basic
    <3>1. Reads(basic, day, Time) /\ Matched(basic)
      BY BasicMomentRead
    <3> HIDE DEF basic
    <3> QED
      BY <2>3, <3>1, Zenon
  <2> HIDE DEF marked, basic
  <2> QED
    BY <2>1, <2>2, <2>3, Zenon
<1>3. CASE t \in RfcTimes
  <2>1. PICK w \in {<<>>, <<Mark("weekday")>>} :
          t = w \o RfcDay(Num(4, Y)) \o <<Mark("blank")>> \o Clock2 \o <<Mark("zone")>>
    BY <1>3, Zenon DEF RfcTimes
  <2> QED
    BY <2>1, RfcRead, Zenon
<1>4. CASE t \in DmyTimes
  <2> DEFINE dashed(z) == Day2 \o <<Mark("blank")>> \o Clock2 \o z
             slashed(year) ==
               Joined(Mark("/"), <<Num(2, D), Num(2, M), year>>) \o <<Mark("blank")>> \o Clock2
             written(c, year) ==
               <<Num(2, D), Mark(c), Num(2, M), Mark(c), year>> \o <<Mark("blank")>> \o Clock2
  <2>1. \/ t = dashed(<<>>) \/ t = dashed(<<Mark("."), Num(6, 0)>>)
        \/ t = slashed(Num(4, Y)) \/ t = slashed(Num(2, Y % 100))
    BY <1>4, Zenon DEF DmyTimes
  <2>2. \A n \in {2, 4} : \A c \in {"/", "-"} : \A y :
           Full(y) = Y => Reads(written(c, Num(n, y)), day, Time) /\ Matched(written(c, Num(n, y)))
    BY DmyMomentRead, Zenon
  <2>3. dashed(<<>>) = written("-", Num(4, Y))
    <3> DEFINE u == written("-", Num(4, Y))
    <3>1. u = <<Num(2, D), Mark("-"), Num(2, M), Mark("-"), Num(4, Y)>> \o <<Mark("blank")>>
                \o <<Num(2, Time[1]), Mark(":"), Num(2, Time[2]), Mark(":"), Num(2, Time[3])>>
      BY ClockIs, Zenon
    <3>2. dashed(<<>>) = u \o <<>>
      BY DaysWritten, Zenon
    <3> HIDE DEF u
    <3>3. u \o <<>> = u
      BY <3>1
    <3> QED
      BY <3>2, <3>3, Zenon DEF u
  <2>4. \A year : slashed(year) = written("/", year)
    BY DaysWritten, Zenon
  <2>5. CASE t = dashed(<<Mark("."), Num(6, 0)>>)
    BY <2>5, DashMomentRead, Zenon
  <2> HIDE DEF dashed, slashed, written
  <2> QED
    BY <1>1, <2>1, <2>2, <2>3, <2>4, <2>5
<1> QED
  BY <1>2, <1>3, <1>4, Zenon DEF Moments

LEMMA TodayAsWritten == Today => ReadAsWritten
<1> SUFFICES ASSUME Today PROVE ReadAsWritten
  OBVIOUS
<1>1. \A t \in Days : parse_datetime(t) = day \o <<0, 0, 0>> /\ AllRead(t, day \o <<0, 0, 0>>)
  BY DaysRead, Right, TimeIs, Zenon
<1>2. \A t \in Moments : parse_datetime(t) = day \o Time /\ AllRead(t, day \o Time)
  BY MomentsRead, Right, TimeIs, Zenon
<1>3. \A c \in {"/", ".", "-"} : dmy(Joined(Mark(c), <<Num(2, D), Num(2, M), Num(4, Y)>>)) = day
  BY SplitRead, Zenon
<1>4. ymd(IsoDay) = day
  <2>1. IsoDay[1].value = Y /\ IsoDay[3].value = M /\ IsoDay[5].value = D
    BY DaysWritten, ValuesAre
  <2> QED
    BY <2>1 DEF ymd, Today
<1>5. parse_datetime(RfcDay(Num(4, Y)) \o <<Mark("blank")>> \o Clock2)
        = day \o <<Time[1], Time[2], Time[3] \div 10>>
  <2> DEFINE short == RfcDay(Num(4, Y)) \o <<Mark("blank")>> \o Clock2
             time == <<Time[1], Time[2], Time[3] \div 10>>
  <2>1. Reads(short, day, time) /\ Matched(short) /\ IsClock(time)
    BY RfcRead, TimeIs, Zenon
  <2> HIDE DEF short, time
  <2>2. parse_datetime(short) = day \o time
    BY <2>1, Right, Zenon
  <2> QED
    BY <2>2, Zenon DEF short, time
<1> QED
  BY <1>1, <1>2, <1>3, <1>4, <1>5, FractionRefused, Zenon DEF ReadAsWritten

\* Today is not before the first day's year.
CenturyInv == DayInv /\ day[1] >= FirstDay[1]

LEMMA CenturyInit == FechasAssumption /\ MCInit => CenturyInv
<1> SUFFICES ASSUME FechasAssumption, MCInit PROVE CenturyInv
  OBVIOUS
<1>1. DayInv
  BY DayInit
<1>2. /\ FirstDay[1] \in Nat /\ LastDay[1] \in Nat
      /\ FirstDay = LastDay \/ Before(FirstDay, LastDay)
  BY DEF FechasAssumption
<1>3. LastDay[1] >= FirstDay[1]
  BY <1>2 DEF Before
<1> QED
  BY <1>1, <1>2, <1>3 DEF MCInit, StartWalking, CenturyInv

LEMMA CenturyStep ==
    ASSUME FechasAssumption, CenturyInv, [MCNext]_<<day, seqVars>>
    PROVE  CenturyInv'
<1>1. DayInv'
  BY DayStep DEF CenturyInv
<1>2. day[1] \in Nat /\ FirstDay[1] \in Nat /\ day[1] >= FirstDay[1] /\ day \in Dates
  BY DEF CenturyInv, DayInv, Dates, FechasAssumption
<1>3. day' = next_day(day) \/ day' = day
  BY DEF MCNext, Tomorrow
<1>4. next_day(day)[1] \in {day[1], day[1] + 1}
  BY DEF next_day
<1> QED
  BY <1>1, <1>2, <1>3, <1>4 DEF CenturyInv

LEMMA CenturyToday ==
    ASSUME FechasAssumption, CenturyInv, FirstDay[1] >= 2000, LastDay[1] <= 2099
    PROVE  Today
<1>0. MAXYEAR \in Nat
  BY DEF MAXYEAR
<1>1. /\ day \in Nat \X Nat \X Nat /\ IsDate(day) /\ day[1] >= FirstDay[1]
      /\ day = LastDay \/ Before(day, LastDay)
      /\ FirstDay[1] \in Nat /\ LastDay[1] \in Nat
  BY DEF CenturyInv, DayInv, Dates, FechasAssumption
<1>2. day = <<day[1], day[2], day[3]>> /\ day[1] \in Nat /\ day[2] \in Nat /\ day[3] \in Nat
  BY <1>1
<1>3. day[2] \in 1 .. 12 /\ day[3] \in 1 .. MonthRange(day[1], day[2])
  BY <1>1 DEF IsDate
<1>4. day[3] \in 1 .. 31
  BY <1>2, <1>3, MonthRangeIn
<1>5. day[1] <= LastDay[1]
  BY <1>1, <1>2 DEF Before
<1> QED
  BY <1>1, <1>2, <1>3, <1>4, <1>5 DEF Today, Y, M, D

\* On every day of this century a date is read as it was written, whichever
\* pattern comes first. The hypothesis is the code's own: years of two digits
\* are taken as of this century, and no other can be read back out of them.
THEOREM DatesReadAsWritten ==
    FirstDay[1] >= 2000 /\ LastDay[1] <= 2099 => (MCSpec => []ReadAsWritten)
<1> SUFFICES ASSUME FirstDay[1] >= 2000, LastDay[1] <= 2099 PROVE MCSpec => []ReadAsWritten
  OBVIOUS
<1>1. CenturyInv /\ [MCNext]_<<day, seqVars>> => CenturyInv'
  BY FechasAssumption, CenturyStep
<1>2. MCInit => CenturyInv
  BY FechasAssumption, CenturyInit
<1>3. CenturyInv => ReadAsWritten
  BY FechasAssumption, CenturyToday, TodayAsWritten
<1> QED
  BY <1>1, <1>2, <1>3, PTL DEF MCSpec

-----------------------------------------------------------------------------
(* Cutting *)

Atleast == IF job = "batch" THEN size ELSE mean_block_size
Atmost == IF job = "batch" THEN size ELSE max_block_size

\* What has been given and what is left are made of the signs of the text, and
\* together they are the text; only the last piece may be short, and when it is
\* nothing is left.
PiecesInv ==
    /\ job \in {"batch", "fragments"}
    /\ rest \in Seq(Range(input))
    /\ given \in Seq(Seq(Range(input)))
    /\ FlattenSeq(given) \o rest = input
    /\ \A i \in DOMAIN given :
         /\ Len(given[i]) \in 1 .. Atmost
         /\ i < Len(given) \/ rest # <<>> => Len(given[i]) >= Atleast

LEMMA FindIs ==
    ASSUME mean_block_size \in Nat, NEW T, rest \in Seq(T), mean_block_size <= Len(rest), NEW c
    PROVE  Find(c) \in mean_block_size .. Len(rest)
<1> DEFINE S == {i \in mean_block_size .. (Len(rest) - 1) : rest[i + 1] = c} \cup {Len(rest)}
<1>1. Len(rest) \in Nat
  BY LenProperties
<1>2. S \in SUBSET Nat /\ S # {}
  BY <1>1
<1>3. Min(S) \in S
  BY <1>2, MinIs
<1>4. \A i \in S : i \in mean_block_size .. Len(rest)
  BY <1>1
<1> QED
  BY <1>3, <1>4 DEF Find

\* A piece is cut off the rest, as long as it must be unless all of it is taken.
LEMMA CutLength ==
    ASSUME SeqtoolsAssumption, mean_block_size <= max_block_size, NEW T,
           rest \in Seq(T), NextBatch \/ NextFragment
    PROVE  \E n \in 1 .. Len(rest) :
              Yields(n) /\ n <= Atmost /\ (n = Len(rest) \/ n >= Atleast)
<1>1. /\ mean_block_size \in Nat \ {0} /\ max_block_size \in Nat \ {0}
      /\ size \in Nat \ {0} /\ Len(rest) \in Nat
  BY LenProperties DEF SeqtoolsAssumption
<1>2. CASE NextBatch
  <2>1. Len(rest) # 0
    BY <1>2, EmptySeq DEF NextBatch
  <2>2. Min({size, Len(rest)}) = IF size <= Len(rest) THEN size ELSE Len(rest)
    BY <1>1, MinOfTwo
  <2>3. Yields(Min({size, Len(rest)})) /\ Atmost = size /\ Atleast = size
    BY <1>2 DEF NextBatch, Atmost, Atleast
  <2> QED
    BY <1>1, <2>1, <2>2, <2>3
<1>3. CASE NextFragment
  <2> DEFINE n == IF Len(rest) <= max_block_size THEN Len(rest) ELSE Cut
  <2>1. Len(rest) # 0
    BY <1>3, EmptySeq DEF NextFragment
  <2>2. Yields(n) /\ Atmost = max_block_size /\ Atleast = mean_block_size
    BY <1>3 DEF NextFragment, Atmost, Atleast
  <2>3. CASE Len(rest) <= max_block_size
    BY <1>1, <2>1, <2>2, <2>3
  <2>4. CASE Len(rest) > max_block_size
    <3>1. /\ Find("newline") \in mean_block_size .. Len(rest)
          /\ Find("blank") \in mean_block_size .. Len(rest)
      BY <1>1, <2>4, FindIs
    <3>2. Min({Find("blank"), max_block_size})
            = IF Find("blank") <= max_block_size THEN Find("blank") ELSE max_block_size
      BY <1>1, <3>1, MinOfTwo
    <3>3. Cut \in mean_block_size .. max_block_size
      BY <1>1, <3>1, <3>2 DEF Cut
    <3> QED
      BY <1>1, <2>2, <2>4, <3>3
  <2> QED
    BY <1>1, <2>3, <2>4
<1> QED
  BY <1>2, <1>3

\* A piece that is given is a piece less that is left.
LEMMA PieceMoved ==
    ASSUME NEW T, rest \in Seq(T), given \in Seq(Seq(T)), NEW n \in 1 .. Len(rest), Yields(n)
    PROVE  /\ rest' \in Seq(T) /\ given' \in Seq(Seq(T))
           /\ FlattenSeq(given') \o rest' = FlattenSeq(given) \o rest
           /\ Len(given) \in Nat /\ Len(rest) \in Nat
           /\ DOMAIN given = 1 .. Len(given) /\ DOMAIN given' = 1 .. Len(given) + 1
           /\ Len(given') = Len(given) + 1
           /\ \A i \in 1 .. Len(given) : given'[i] = given[i]
           /\ Len(given'[Len(given) + 1]) = n
           /\ n = Len(rest) => rest' = <<>>
<1> DEFINE piece == SubSeq(rest, 1, n)
           left == SubSeq(rest, n + 1, Len(rest))
<1>1. given' = Append(given, piece) /\ rest' = left
  BY DEF Yields
<1>2. /\ Len(rest) \in Nat /\ \A i \in 1 .. Len(rest) : rest[i] \in T
      /\ Len(given) \in Nat /\ DOMAIN given = 1 .. Len(given)
  BY LenProperties, ElementOfSeq
<1>3. piece \in Seq(T) /\ Len(piece) = n
  <2>1. \A i \in 1 .. n : rest[i] \in T
    BY <1>2
  <2> QED
    BY <1>2, <2>1, SubSeqProperties
<1>4. left \in Seq(T)
  <2>1. \A i \in n + 1 .. Len(rest) : rest[i] \in T
    BY <1>2
  <2> QED
    BY <1>2, <2>1, SubSeqProperties
<1>5. piece \o left = rest
  <2>1. 1 \in 1 .. Len(rest) + 1 /\ n \in 1 - 1 .. Len(rest) /\ Len(rest) \in n .. Len(rest)
    BY <1>2
  <2>2. piece \o left = SubSeq(rest, 1, Len(rest))
    BY <2>1, ConcatAdjacentSubSeq
  <2> QED
    BY <2>2, SubSeqFull
<1>6. n = Len(rest) => left = <<>>
  BY <1>2, SubSeqEmpty
<1> HIDE DEF piece, left
<1>7. /\ given' \in Seq(Seq(T)) /\ Len(given') = Len(given) + 1
      /\ DOMAIN given' = 1 .. Len(given) + 1
      /\ \A i \in 1 .. Len(given) : given'[i] = given[i]
      /\ given'[Len(given) + 1] = piece
  <2>1. Append(given, piece) \in Seq(Seq(T))
    BY <1>3, AppendProperties
  <2> QED
    BY <1>1, <1>2, <1>3, <2>1, AppendProperties, LenProperties
<1>8. FlattenSeq(given') \o rest' = FlattenSeq(given) \o rest
  <2>1. piece \in Seq(T)
    BY <1>3
  <2>2. Chain(FlattenSeq(Append(given, piece)), left) = Chain(FlattenSeq(given), Chain(piece, left))
    BY <1>4, <2>1, FlattenMoves
  <2> QED
    BY <1>1, <1>5, <2>2, Zenon DEF Chain
<1> QED
  BY <1>1, <1>2, <1>3, <1>4, <1>6, <1>7, <1>8

LEMMA PiecesInit ==
    ASSUME SeqtoolsAssumption, MCInit
    PROVE  PiecesInv
<1>1. job \in {"batch", "fragments"} /\ given = <<>> /\ rest = input
  BY DEF MCInit, StartCutting
<1>2. input \in Seq(Range(input))
  <2>1. CASE input = <<>>
    BY <2>1, EmptySeq
  <2>2. CASE input \in Inputs
    BY <2>2 DEF SeqtoolsAssumption
  <2> QED
    BY <2>1, <2>2 DEF MCInit, StartCutting
<1>3. given \in Seq(Seq(Range(input))) /\ DOMAIN given = {}
  BY <1>1, EmptySeq
<1>4. FlattenSeq(given) = <<>>
  BY <1>1 DEF FlattenSeq
<1>5. FlattenSeq(given) \o rest = input
  BY <1>1, <1>2, <1>4, ConcatEmptySeq
<1> QED
  BY <1>1, <1>2, <1>3, <1>5 DEF PiecesInv

LEMMA PiecesStep ==
    ASSUME SeqtoolsAssumption, mean_block_size <= max_block_size,
           PiecesInv, [MCNext]_<<day, seqVars>>
    PROVE  PiecesInv'
<1>0. size \in Nat /\ mean_block_size \in Nat /\ max_block_size \in Nat
  BY DEF SeqtoolsAssumption
<1>1. CASE NextBatch \/ NextFragment
  <2> DEFINE T == Range(input)
  <2>1. rest \in Seq(T) /\ given \in Seq(Seq(T)) /\ FlattenSeq(given) \o rest = input
    BY DEF PiecesInv
  <2>2. PICK n \in 1 .. Len(rest) :
           Yields(n) /\ n <= Atmost /\ (n = Len(rest) \/ n >= Atleast)
    BY <1>1, <2>1, CutLength
  <2>3. job' = job /\ input' = input
    BY <2>2 DEF Yields
  <2> HIDE DEF T
  <2>4. /\ rest' \in Seq(T) /\ given' \in Seq(Seq(T))
        /\ FlattenSeq(given') \o rest' = FlattenSeq(given) \o rest
        /\ Len(given) \in Nat /\ Len(rest) \in Nat
        /\ DOMAIN given = 1 .. Len(given) /\ DOMAIN given' = 1 .. Len(given) + 1
        /\ Len(given') = Len(given) + 1
        /\ \A i \in 1 .. Len(given) : given'[i] = given[i]
        /\ Len(given'[Len(given) + 1]) = n
        /\ n = Len(rest) => rest' = <<>>
    BY <2>1, <2>2, PieceMoved
  <2>5. Atmost' = Atmost /\ Atleast' = Atleast /\ T' = T
    BY <2>3 DEF Atmost, Atleast, T
  <2>6. rest # <<>>
    BY <2>1, <2>2, EmptySeq
  <2>7. ASSUME NEW i \in DOMAIN given'
        PROVE  /\ Len(given'[i]) \in 1 .. Atmost
               /\ i < Len(given') \/ rest' # <<>> => Len(given'[i]) >= Atleast
    <3>1. CASE i \in 1 .. Len(given)
      BY <2>4, <2>6, <3>1 DEF PiecesInv
    <3>2. CASE i = Len(given) + 1
      <4>1. Atmost \in Nat
        BY <1>0 DEF Atmost
      <4> QED
        BY <2>2, <2>4, <3>2, <4>1
    <3> QED
      BY <2>4, <2>7, <3>1, <3>2
  <2>8. /\ job' \in {"batch", "fragments"}
        /\ rest' \in Seq(Range(input')) /\ given' \in Seq(Seq(Range(input')))
        /\ FlattenSeq(given') \o rest' = input'
    BY <2>1, <2>3, <2>4 DEF PiecesInv, T
  <2> QED
    BY <2>5, <2>7, <2>8 DEF PiecesInv
<1>2. CASE Stops \/ UNCHANGED seqVars
  <2>1. UNCHANGED <<job, input, rest, given>>
    BY <1>2 DEF Stops, seqVars
  <2> QED
    BY <2>1 DEF PiecesInv, Atmost, Atleast
<1> QED
  BY <1>1, <1>2 DEF MCNext, Cutting

LEMMA PiecesRight ==
    ASSUME PiecesInv
    PROVE  PiecesFit
BY DEF PiecesInv, PiecesFit, Atmost, Atleast

\* What batch and text_as_fragments give is the whole text, in order and cut
\* into pieces of the promised length, whatever the text and the sizes, provided
\* that a fragment may be as long as it has to be ("between 3000 and 4000", as
\* the docstring has it).
THEOREM PiecesAlwaysFit ==
    mean_block_size <= max_block_size => (MCSpec => []PiecesFit)
<1> SUFFICES ASSUME mean_block_size <= max_block_size PROVE MCSpec => []PiecesFit
  OBVIOUS
<1>1. MCInit => PiecesInv
  BY SeqtoolsAssumption, PiecesInit
<1>2. PiecesInv /\ [MCNext]_<<day, seqVars>> => PiecesInv'
  BY SeqtoolsAssumption, PiecesStep
<1>3. PiecesInv => PiecesFit
  BY PiecesRight
<1> QED
  BY <1>1, <1>2, <1>3, PTL DEF MCSpec
=============================================================================
