----------------------------- MODULE MomentProofs -----------------------------
(***************************************************************************)
(* Theorems about the date library: its calendar, for every date, and what *)
(* moments and durations keep and show after any calls, in any zone.       *)
(***************************************************************************)
EXTENDS MomentCalls, TLAPS

-----------------------------------------------------------------------------
(***************************************************************************)
(* A year is as long as the dates of Date say.                             *)
(***************************************************************************)
LEMMA QuotientStep ==
  ASSUME NEW y \in Int, NEW k \in {4, 100, 400}
  PROVE  y \div k - (y - 1) \div k = IF y % k = 0 THEN 1 ELSE 0
<1>1. CASE k = 4   BY <1>1, SMT
<1>2. CASE k = 100 BY <1>2, SMT
<1>3. CASE k = 400 BY <1>3, SMT
<1> QED BY <1>1, <1>2, <1>3

\* daysInYear is the number of days from one 1 January to the next, for all
\* years.
THEOREM YearsAreAsLongAsTheirDates ==
  ASSUME NEW yr \in Int
  PROVE  DaysBeforeYear(yr + 1) - DaysBeforeYear(yr) = daysInYear(yr)
<1>1. yr \div 4 - (yr - 1) \div 4 = IF yr % 4 = 0 THEN 1 ELSE 0
  BY QuotientStep
<1>2. yr \div 100 - (yr - 1) \div 100 = IF yr % 100 = 0 THEN 1 ELSE 0
  BY QuotientStep
<1>3. yr \div 400 - (yr - 1) \div 400 = IF yr % 400 = 0 THEN 1 ELSE 0
  BY QuotientStep
<1>4. (yr + 1) - 1 = yr BY SMT
<1>5. yr % 400 = 0 => yr % 100 = 0 /\ yr % 4 = 0 BY SMT
<1>6. yr % 100 = 0 => yr % 4 = 0 BY SMT
<1>7. DaysBeforeYear(yr + 1) - DaysBeforeYear(yr)
        = 365 + (yr \div 4 - (yr - 1) \div 4) - (yr \div 100 - (yr - 1) \div 100)
              + (yr \div 400 - (yr - 1) \div 400)
  BY <1>4, SMT DEF DaysBeforeYear
<1> QED BY <1>1, <1>2, <1>3, <1>5, <1>6, <1>7, SMT DEF daysInYear, isLeapYear

-----------------------------------------------------------------------------
(***************************************************************************)
(* A month is as long as the dates of Date say, and months past either end *)
(* of a year are those of the years around it.                             *)
(***************************************************************************)
LEMMA MonthStarts ==
  ASSUME NEW yr \in Int, NEW r \in 0 .. 11
  PROVE  DaysBeforeMonth(yr, r) =
           (IF r = 0 THEN 0 ELSE IF r = 1 THEN 31 ELSE IF r = 2 THEN 59 ELSE IF r = 3 THEN 90
            ELSE IF r = 4 THEN 120 ELSE IF r = 5 THEN 151 ELSE IF r = 6 THEN 181
            ELSE IF r = 7 THEN 212 ELSE IF r = 8 THEN 243 ELSE IF r = 9 THEN 273
            ELSE IF r = 10 THEN 304 ELSE 334)
           + (IF r > 1 THEN daysInYear(yr) - 365 ELSE 0)
<1> DEFINE starts == <<0, 31, 59, 90, 120, 151, 181, 212, 243, 273, 304, 334>>
<1>1. starts[r + 1] =
           (IF r = 0 THEN 0 ELSE IF r = 1 THEN 31 ELSE IF r = 2 THEN 59 ELSE IF r = 3 THEN 90
            ELSE IF r = 4 THEN 120 ELSE IF r = 5 THEN 151 ELSE IF r = 6 THEN 181
            ELSE IF r = 7 THEN 212 ELSE IF r = 8 THEN 243 ELSE IF r = 9 THEN 273
            ELSE IF r = 10 THEN 304 ELSE 334)
  <2>1. r \in {0, 1, 2, 3, 4, 5, 6, 7, 8, 9, 10, 11} BY SMT
  <2> QED BY <2>1, SMT
<1>2. DaysBeforeMonth(yr, r) =
        starts[r + 1] + (IF r > 1 THEN DaysBeforeYear(yr + 1) - DaysBeforeYear(yr) - 365 ELSE 0)
  BY DEF DaysBeforeMonth
<1> HIDE DEF starts
<1> QED BY <1>1, <1>2, YearsAreAsLongAsTheirDates

LEMMA MonthStartType ==
  ASSUME NEW yr \in Int, NEW r \in 0 .. 11
  PROVE  /\ DaysBeforeYear(yr) \in Int /\ daysInYear(yr) \in Int
         /\ DaysBeforeMonth(yr, r) \in Int
<1>1. DaysBeforeYear(yr) \in Int BY SMT DEF DaysBeforeYear
<1>2. daysInYear(yr) \in Int BY DEF daysInYear
<1> QED BY <1>1, <1>2, MonthStarts, SMT

LEMMA FirstOfMonth ==
  ASSUME NEW yr \in Int, NEW mon \in Int
  PROVE  DayNumber(yr, mon, 1)
           = DaysBeforeYear(yr + mon \div 12)
               + DaysBeforeMonth(yr + mon \div 12, mon % 12)
<1>1. PICK y \in Int, r \in 0 .. 11 : yr + mon \div 12 = y /\ mon % 12 = r
  <2>1. yr + mon \div 12 \in Int /\ mon % 12 \in 0 .. 11 BY SMT
  <2> QED BY <2>1
<1>2. DayNumber(yr, mon, 1) = DaysBeforeYear(y) + DaysBeforeMonth(y, r) + 1 - 1
  BY <1>1, Zenon DEF DayNumber
<1>3. \A a, b \in Int : a + b + 1 - 1 = a + b BY SMT
<1>4. DaysBeforeYear(y) \in Int /\ DaysBeforeMonth(y, r) \in Int
  BY MonthStartType
<1>5. DayNumber(yr, mon, 1) = DaysBeforeYear(y) + DaysBeforeMonth(y, r)
  BY <1>2, <1>3, <1>4, Zenon
<1> QED BY <1>1, <1>5, Zenon

\* Month r of year y is followed by month s of year z.
LEMMA LengthOfMonth ==
  ASSUME NEW y \in Int, NEW r \in 0 .. 11, NEW z \in Int, NEW s \in 0 .. 11,
         \/ r < 11 /\ s = r + 1 /\ z = y
         \/ r = 11 /\ s = 0 /\ z = y + 1
  PROVE  (DaysBeforeYear(z) + DaysBeforeMonth(z, s)) - (DaysBeforeYear(y) + DaysBeforeMonth(y, r))
           = IF r = 1 THEN daysInYear(y) - 337 ELSE 31 - ((r % 7) % 2)
<1>1. /\ DaysBeforeYear(y) \in Int /\ daysInYear(y) \in Int
      /\ DaysBeforeYear(z) \in Int /\ daysInYear(z) \in Int
  BY MonthStartType
<1>2. DaysBeforeYear(y + 1) = DaysBeforeYear(y) + daysInYear(y)
  <2>1. y + 1 \in Int BY SMT
  <2>2. DaysBeforeYear(y + 1) \in Int BY <2>1, MonthStartType
  <2> QED BY <1>1, <2>2, YearsAreAsLongAsTheirDates, SMT
<1>3. r \in {0, 1, 2, 3, 4, 5, 6, 7, 8, 9, 10, 11} BY SMT
<1> DEFINE before(d) ==
           IF d = 0 THEN 0 ELSE IF d = 1 THEN 31 ELSE IF d = 2 THEN 59 ELSE IF d = 3 THEN 90
            ELSE IF d = 4 THEN 120 ELSE IF d = 5 THEN 151 ELSE IF d = 6 THEN 181
            ELSE IF d = 7 THEN 212 ELSE IF d = 8 THEN 243 ELSE IF d = 9 THEN 273
            ELSE IF d = 10 THEN 304 ELSE 334
<1>4. /\ DaysBeforeMonth(y, r) = before(r) + (IF r > 1 THEN daysInYear(y) - 365 ELSE 0)
      /\ DaysBeforeMonth(z, s) = before(s) + (IF s > 1 THEN daysInYear(z) - 365 ELSE 0)
  BY MonthStarts
<1>5. CASE r = 11 /\ s = 0 /\ z = y + 1
  BY <1>1, <1>2, <1>4, <1>5, SMT
<1>6. CASE r < 11 /\ s = r + 1 /\ z = y
  BY <1>1, <1>3, <1>4, <1>6, SMT
<1> QED BY <1>5, <1>6

\* daysInMonth is the number of days from the first of a month to the first
\* of the next, for months before and after those of the year, too.
THEOREM MonthsAreAsLongAsTheirDates ==
  ASSUME NEW yr \in Int, NEW mon \in Int
  PROVE  DayNumber(yr, mon + 1, 1) - DayNumber(yr, mon, 1) = daysInMonth(yr, mon)
<1>1. PICK y \in Int, r \in 0 .. 11 : yr + mon \div 12 = y /\ mon % 12 = r
  <2>1. yr + mon \div 12 \in Int /\ mon % 12 \in 0 .. 11 BY SMT
  <2> QED BY <2>1
<1>2. PICK z \in Int, s \in 0 .. 11 : yr + (mon + 1) \div 12 = z /\ (mon + 1) % 12 = s
  <2>1. yr + (mon + 1) \div 12 \in Int /\ (mon + 1) % 12 \in 0 .. 11 BY SMT
  <2> QED BY <2>1
<1>3. \/ r < 11 /\ s = r + 1 /\ z = y
      \/ r = 11 /\ s = 0 /\ z = y + 1
  BY <1>1, <1>2, SMT
<1>4. DayNumber(yr, mon, 1) = DaysBeforeYear(y) + DaysBeforeMonth(y, r)
  BY <1>1, FirstOfMonth, Zenon
<1>5. DayNumber(yr, mon + 1, 1) = DaysBeforeYear(z) + DaysBeforeMonth(z, s)
  <2>1. mon + 1 \in Int BY SMT
  <2>2. DayNumber(yr, mon + 1, 1)
          = DaysBeforeYear(yr + (mon + 1) \div 12)
              + DaysBeforeMonth(yr + (mon + 1) \div 12, (mon + 1) % 12)
    BY <2>1, FirstOfMonth, Zenon
  <2> QED BY <1>2, <2>2, Zenon
<1>6. daysInMonth(yr, mon) = IF r = 1 THEN daysInYear(y) - 337 ELSE 31 - ((r % 7) % 2)
  <2>1. yr + (mon - r) \div 12 = y BY <1>1, SMT
  <2>2. daysInMonth(yr, mon)
          = IF r = 1 THEN (IF isLeapYear(y) THEN 29 ELSE 28) ELSE 31 - ((r % 7) % 2)
    BY <1>1, <2>1, Zenon DEF daysInMonth, mod
  <2>3. (IF isLeapYear(y) THEN 29 ELSE 28) = daysInYear(y) - 337
    BY DEF daysInYear
  <2> QED BY <2>2, <2>3
<1> QED BY <1>3, <1>4, <1>5, <1>6, LengthOfMonth

-----------------------------------------------------------------------------
(***************************************************************************)
(* The year, the month and the date of a day.                              *)
(***************************************************************************)
\* 400 years are 146097 days, and no year starts far from its share of them.
LEMMA YearShare ==
  ASSUME NEW y \in Int
  PROVE  /\ DaysBeforeYear(y) \in Int
         /\ 146097 * (y - 1970) - 600 < 400 * DaysBeforeYear(y)
         /\ 400 * DaysBeforeYear(y) < 146097 * (y - 1970) + 600
<1>1. PICK a \in Int, b \in Int, c \in Int :
        (y - 1) \div 4 = a /\ (y - 1) \div 100 = b /\ (y - 1) \div 400 = c
  <2>1. (y - 1) \div 4 \in Int /\ (y - 1) \div 100 \in Int /\ (y - 1) \div 400 \in Int
    BY SMT
  <2> QED BY <2>1
<1>2. /\ 4 * a <= y - 1 /\ y - 1 < 4 * a + 4
      /\ 100 * b <= y - 1 /\ y - 1 < 100 * b + 100
      /\ 400 * c <= y - 1 /\ y - 1 < 400 * c + 400
  BY <1>1, SMT
<1>3. DaysBeforeYear(y) = 365 * y + a - b + c - 719527
  BY <1>1, SMT DEF DaysBeforeYear
<1> QED BY <1>2, <1>3, SMT

\* The year of a day is the one it lies in.
LEMMA YearOfDay ==
  ASSUME NEW n \in Int
  PROVE  /\ YearOf(n) \in Int
         /\ DaysBeforeYear(YearOf(n)) <= n /\ n < DaysBeforeYear(YearOf(n) + 1)
<1>1. PICK y \in Int : 1970 + (400 * n) \div 146097 = y
  <2>1. 1970 + (400 * n) \div 146097 \in Int BY SMT
  <2> QED BY <2>1, SMT
<1>2. 146097 * (y - 1970) <= 400 * n /\ 400 * n < 146097 * (y - 1970) + 146097
  BY <1>1, SMT
<1>3. YearOf(n) = IF n < DaysBeforeYear(y) THEN y - 1
                  ELSE IF n < DaysBeforeYear(y + 1) THEN y ELSE y + 1
  BY <1>1, SMT DEF YearOf, YearNear
<1>4. PICK p \in Int, q \in Int : p = y - 1 /\ q = y + 1
  OBVIOUS
<1>5. PICK r \in Int : r = q + 1
  OBVIOUS
<1>6. DaysBeforeYear(p) <= n /\ n < DaysBeforeYear(r)
  <2>1. /\ DaysBeforeYear(p) \in Int /\ 400 * DaysBeforeYear(p) < 146097 * (p - 1970) + 600
        /\ DaysBeforeYear(r) \in Int /\ 146097 * (r - 1970) - 600 < 400 * DaysBeforeYear(r)
    BY YearShare
  <2> QED BY <1>2, <1>4, <1>5, <2>1, SMT
<1>7. DaysBeforeYear(y) \in Int /\ DaysBeforeYear(q) \in Int /\ p + 1 = y
  BY <1>4, YearShare
<1>8. YearOf(n) = IF n < DaysBeforeYear(y) THEN p
                  ELSE IF n < DaysBeforeYear(q) THEN y ELSE q
  BY <1>3, <1>4
<1>9. CASE n < DaysBeforeYear(y)
  BY <1>6, <1>7, <1>8, <1>9
<1>10. CASE ~(n < DaysBeforeYear(y)) /\ n < DaysBeforeYear(q)
  BY <1>4, <1>7, <1>8, <1>10
<1>11. CASE ~(n < DaysBeforeYear(y)) /\ ~(n < DaysBeforeYear(q))
  BY <1>5, <1>6, <1>7, <1>8, <1>11
<1> QED BY <1>9, <1>10, <1>11

LEMMA DayNumberInYear ==
  ASSUME NEW y \in Int, NEW r \in 0 .. 11, NEW dt \in Int
  PROVE  DayNumber(y, r, dt) = DaysBeforeYear(y) + DaysBeforeMonth(y, r) + dt - 1
<1>1. y + r \div 12 = y /\ r % 12 = r BY SMT
<1> QED BY <1>1, Zenon DEF DayNumber

LEMMA DaysInMonthIs ==
  ASSUME NEW y, NEW mon, NEW r, mon % 12 = r, y + (mon - r) \div 12 = y
  PROVE  daysInMonth(y, mon)
           = IF r = 1 THEN (IF isLeapYear(y) THEN 29 ELSE 28) ELSE 31 - ((r % 7) % 2)
BY Zenon DEF daysInMonth, mod

\* The month of a day of a year, which is looked for among two.
LEMMA MonthOfDay ==
  ASSUME NEW y \in Int, NEW n \in Int, DaysBeforeYear(y) <= n, n < DaysBeforeYear(y + 1)
  PROVE  /\ MonthInYear(n, y) \in 0 .. 11
         /\ DateInYear(n, y) \in 1 .. daysInMonth(y, MonthInYear(n, y))
         /\ DayNumber(y, MonthInYear(n, y), DateInYear(n, y)) = n
<1>1. PICK start \in Int, length \in {365, 366} :
        /\ DaysBeforeYear(y) = start /\ daysInYear(y) = length
        /\ DaysBeforeYear(y + 1) = start + length
  <2>1. DaysBeforeYear(y) \in Int /\ daysInYear(y) \in {365, 366}
    BY MonthStartType DEF daysInYear
  <2>2. DaysBeforeYear(y + 1) \in Int
    BY YearShare
  <2> QED BY <2>1, <2>2, YearsAreAsLongAsTheirDates, SMT
<1>2. PICK k \in 0 .. length - 1 : n = start + k
  <2>1. n - start \in 0 .. length - 1 BY <1>1
  <2> QED BY <2>1
<1>3. PICK guess \in 0 .. 11 : k \div 32 = guess
  <2>1. k \div 32 \in 0 .. 11 BY SMT
  <2> QED BY <2>1
<1>4. 32 * guess <= k /\ k < 32 * guess + 32
  BY <1>3, SMT
<1> DEFINE Start(r) ==
      (IF r = 0 THEN 0 ELSE IF r = 1 THEN 31 ELSE IF r = 2 THEN 59 ELSE IF r = 3 THEN 90
       ELSE IF r = 4 THEN 120 ELSE IF r = 5 THEN 151 ELSE IF r = 6 THEN 181
       ELSE IF r = 7 THEN 212 ELSE IF r = 8 THEN 243 ELSE IF r = 9 THEN 273
       ELSE IF r = 10 THEN 304 ELSE 334)
      + (IF r > 1 THEN length - 365 ELSE 0)
<1>5. \A r \in 0 .. 11 : DaysBeforeMonth(y, r) = Start(r)
  BY <1>1, MonthStarts
<1>6. \A r \in 0 .. 11 : Start(r) \in Int
  BY SMT
<1>7. PICK found \in 0 .. 11 :
        found = IF guess < 11 /\ start + Start(guess + 1) <= n THEN guess + 1 ELSE guess
  <2>1. guess < 11 => guess + 1 \in 0 .. 11 BY SMT
  <2> HIDE DEF Start
  <2> QED BY <2>1
<1>8. MonthInYear(n, y) = found
  <2>1. guess < 11 => DayNumber(y, guess + 1, 1) = start + Start(guess + 1)
    <3> SUFFICES ASSUME guess < 11 PROVE DayNumber(y, guess + 1, 1) = start + Start(guess + 1)
      OBVIOUS
    <3>1. PICK next \in 0 .. 11 : next = guess + 1
      <4>1. guess + 1 \in 0 .. 11 BY SMT
      <4> QED BY <4>1
    <3>2. DayNumber(y, next, 1) = start + DaysBeforeMonth(y, next) + 1 - 1
      BY <1>1, DayNumberInYear
    <3>3. DaysBeforeMonth(y, next) = Start(next) /\ Start(next) \in Int
      BY <1>5, <1>6
    <3> HIDE DEF Start
    <3> QED BY <3>1, <3>2, <3>3
  <2>2. n - DaysBeforeYear(y) = k
    BY <1>1, <1>2
  <2> HIDE DEF Start
  <2> QED BY <1>3, <1>7, <2>1, <2>2 DEF MonthInYear
<1>9. PICK dt \in Int : dt = k - Start(found) + 1
  <2>1. Start(found) \in Int BY <1>6
  <2> HIDE DEF Start
  <2>2. k - Start(found) + 1 \in Int BY <2>1
  <2> QED BY <2>2
<1>10. DateInYear(n, y) = dt
  <2>1. DaysBeforeMonth(y, found) = Start(found) /\ Start(found) \in Int
    BY <1>5, <1>6
  <2> HIDE DEF Start
  <2> QED BY <1>1, <1>2, <1>8, <1>9, <2>1 DEF DateInYear
<1>11. daysInMonth(y, found) = IF found = 1 THEN length - 337 ELSE 31 - ((found % 7) % 2)
  <2>1. found % 12 = found /\ y + (found - found) \div 12 = y
    BY SMT
  <2>2. daysInMonth(y, found)
          = IF found = 1 THEN (IF isLeapYear(y) THEN 29 ELSE 28) ELSE 31 - ((found % 7) % 2)
    BY <2>1, DaysInMonthIs
  <2>3. (IF isLeapYear(y) THEN 29 ELSE 28) = length - 337
    BY <1>1 DEF daysInYear
  <2> QED BY <2>2, <2>3
<1>12. dt \in 1 .. (IF found = 1 THEN length - 337 ELSE 31 - ((found % 7) % 2))
  BY <1>2, <1>4, <1>7, <1>9, SMT
<1>13. DayNumber(y, found, dt) = n
  <2>1. DaysBeforeMonth(y, found) = Start(found) /\ Start(found) \in Int
    BY <1>5, <1>6
  <2>2. DayNumber(y, found, dt) = start + DaysBeforeMonth(y, found) + dt - 1
    BY <1>1, DayNumberInYear
  <2> HIDE DEF Start
  <2> QED BY <1>2, <1>9, <2>1, <2>2
<1> QED BY <1>8, <1>10, <1>11, <1>12, <1>13

(***************************************************************************)
(* Every day has a month and a date, the date is one of the days           *)
(* daysInMonth gives the month, and year, month and date are those of the  *)
(* day again: nothing is lost between a Date and what is shown of it.      *)
(***************************************************************************)
THEOREM DatesReadBack ==
  ASSUME NEW n \in Int
  PROVE  /\ YearOf(n) \in Int /\ MonthOf(n) \in 0 .. 11
         /\ DateOf(n) \in 1 .. daysInMonth(YearOf(n), MonthOf(n))
         /\ DayNumber(YearOf(n), MonthOf(n), DateOf(n)) = n
BY YearOfDay, MonthOfDay DEF MonthOf, DateOf

LEMMA DaysInMonthType ==
  ASSUME NEW y \in Int, NEW mon \in Int
  PROVE  daysInMonth(y, mon) \in Int
<1>1. PICK r \in 0 .. 11, z \in Int : mon % 12 = r /\ y + (mon - r) \div 12 = z
  <2>1. mon % 12 \in 0 .. 11 /\ y + (mon - (mon % 12)) \div 12 \in Int BY SMT
  <2> QED BY <2>1
<1>2. daysInMonth(y, mon)
        = IF r = 1 THEN (IF isLeapYear(z) THEN 29 ELSE 28) ELSE 31 - ((r % 7) % 2)
  BY <1>1, Zenon DEF daysInMonth, mod
<1> QED BY <1>2, SMT

LEMMA DayNumberType ==
  ASSUME NEW y \in Int, NEW mon \in Int, NEW dt \in Int
  PROVE  DayNumber(y, mon, dt) \in Int /\ NewDate(y, mon, dt) \in Int
<1>1. \A z \in Int : DayNumber(z, mon, dt) \in Int
  <2> SUFFICES ASSUME NEW z \in Int PROVE DayNumber(z, mon, dt) \in Int
    OBVIOUS
  <2>1. PICK w \in Int, r \in 0 .. 11 : z + mon \div 12 = w /\ mon % 12 = r
    <3>1. z + mon \div 12 \in Int /\ mon % 12 \in 0 .. 11 BY SMT
    <3> QED BY <3>1
  <2>2. DayNumber(z, mon, dt) = DaysBeforeYear(w) + DaysBeforeMonth(w, r) + dt - 1
    BY <2>1, Zenon DEF DayNumber
  <2>3. DaysBeforeYear(w) \in Int /\ DaysBeforeMonth(w, r) \in Int
    BY MonthStartType
  <2> QED BY <2>2, <2>3, SMT
<1>2. 1900 + y \in Int
  BY SMT
<1> QED BY <1>1, <1>2 DEF NewDate

-----------------------------------------------------------------------------
(***************************************************************************)
(* The calendar repeats every 400 years, by which Date is got to make the  *)
(* years 0 to 99 (moment.js:1276, 1293, 4053).                             *)
(***************************************************************************)
LEMMA YearsApart ==
  ASSUME NEW u \in Int, NEW v \in Int, u < v
  PROVE  DaysBeforeYear(u) + 360 <= DaysBeforeYear(v)
<1>1. PICK a \in Int, b \in Int : a = DaysBeforeYear(u) /\ b = DaysBeforeYear(v)
  BY YearShare
<1>2. 400 * a < 146097 * (u - 1970) + 600 /\ 146097 * (v - 1970) - 600 < 400 * b
  BY <1>1, YearShare
<1>3. a + 360 <= b
  BY <1>2, SMT
<1> QED BY <1>1, <1>3

LEMMA YearIs ==
  ASSUME NEW y \in Int, NEW n \in Int, DaysBeforeYear(y) <= n, n < DaysBeforeYear(y + 1)
  PROVE  YearOf(n) = y
<1>1. PICK z \in Int, p \in Int, q \in Int : z = YearOf(n) /\ p = y + 1 /\ q = z + 1
  BY YearOfDay
<1>2. /\ DaysBeforeYear(z) <= n /\ n < DaysBeforeYear(q)
      /\ DaysBeforeYear(y) <= n /\ n < DaysBeforeYear(p)
  BY <1>1, YearOfDay
<1>3. /\ DaysBeforeYear(y) \in Int /\ DaysBeforeYear(p) \in Int
      /\ DaysBeforeYear(z) \in Int /\ DaysBeforeYear(q) \in Int
  BY YearShare
<1>4. ASSUME NEW u \in Int, NEW v \in Int, u <= v,
             DaysBeforeYear(u) \in Int, DaysBeforeYear(v) \in Int
      PROVE  DaysBeforeYear(u) <= DaysBeforeYear(v)
  <2>1. CASE u = v
    BY <1>4, <2>1
  <2>2. CASE u < v
    <3>1. DaysBeforeYear(u) + 360 <= DaysBeforeYear(v)
      BY <2>2, YearsApart
    <3> QED BY <1>4, <3>1
  <2> QED BY <1>4, <2>1, <2>2
<1>5. ~(z < y)
  <2> SUFFICES ASSUME z < y PROVE FALSE
    OBVIOUS
  <2>1. q <= y
    BY <1>1
  <2>2. DaysBeforeYear(q) <= DaysBeforeYear(y)
    BY <1>3, <1>4, <2>1
  <2> QED BY <1>2, <1>3, <2>2
<1>6. ~(y < z)
  <2> SUFFICES ASSUME y < z PROVE FALSE
    OBVIOUS
  <2>1. p <= z
    BY <1>1
  <2>2. DaysBeforeYear(p) <= DaysBeforeYear(z)
    BY <1>3, <1>4, <2>1
  <2> QED BY <1>2, <1>3, <2>2
<1> QED BY <1>1, <1>5, <1>6

LEMMA CycleOfYears ==
  ASSUME NEW y \in Int
  PROVE  /\ DaysBeforeYear(y + 400) = DaysBeforeYear(y) + 146097
         /\ daysInYear(y + 400) = daysInYear(y)
<1>1. \A u \in Int : DaysBeforeYear(u + 400) = DaysBeforeYear(u) + 146097
  <2> SUFFICES ASSUME NEW u \in Int PROVE DaysBeforeYear(u + 400) = DaysBeforeYear(u) + 146097
    OBVIOUS
  <2>1. PICK a \in Int, b \in Int, c \in Int :
          (u - 1) \div 4 = a /\ (u - 1) \div 100 = b /\ (u - 1) \div 400 = c
    <3>1. (u - 1) \div 4 \in Int /\ (u - 1) \div 100 \in Int /\ (u - 1) \div 400 \in Int
      BY SMT
    <3> QED BY <3>1
  <2>2. ((u + 400) - 1) \div 4 = a + 100
    BY <2>1, SMT
  <2>3. ((u + 400) - 1) \div 100 = b + 4
    BY <2>1, SMT
  <2>4. ((u + 400) - 1) \div 400 = c + 1
    BY <2>1, SMT
  <2> QED BY <2>1, <2>2, <2>3, <2>4, SMT DEF DaysBeforeYear
<1>2. PICK z \in Int, p \in Int, q \in Int : z = y + 400 /\ p = y + 1 /\ q = p + 400 /\ q = z + 1
  BY SMT
<1>3. DaysBeforeYear(z) = DaysBeforeYear(y) + 146097 /\ DaysBeforeYear(q) = DaysBeforeYear(p) + 146097
  BY <1>1, <1>2
<1>4. /\ DaysBeforeYear(p) - DaysBeforeYear(y) = daysInYear(y)
      /\ DaysBeforeYear(q) - DaysBeforeYear(z) = daysInYear(z)
  BY <1>2, YearsAreAsLongAsTheirDates
<1>5. DaysBeforeYear(y) \in Int /\ DaysBeforeYear(p) \in Int
  BY YearShare
<1>6. daysInYear(z) = daysInYear(y)
  BY <1>3, <1>4, <1>5
<1> QED BY <1>1, <1>2, <1>6

LEMMA CycleOfDays ==
  ASSUME NEW y \in Int, NEW mon \in Int, NEW dt \in Int
  PROVE  DayNumber(y + 400, mon, dt) = DayNumber(y, mon, dt) + 146097
<1>1. PICK w \in Int, r \in 0 .. 11 : y + mon \div 12 = w /\ mon % 12 = r
  <2>1. y + mon \div 12 \in Int /\ mon % 12 \in 0 .. 11 BY SMT
  <2> QED BY <2>1
<1>2. PICK v \in Int : v = w + 400 /\ (y + 400) + mon \div 12 = v
  <2>1. (y + 400) + mon \div 12 = w + 400 BY <1>1, SMT
  <2> QED BY <2>1
<1>3. /\ DayNumber(y, mon, dt) = DaysBeforeYear(w) + DaysBeforeMonth(w, r) + dt - 1
      /\ DayNumber(y + 400, mon, dt) = DaysBeforeYear(v) + DaysBeforeMonth(v, r) + dt - 1
  BY <1>1, <1>2, Zenon DEF DayNumber
<1>4. DaysBeforeYear(v) = DaysBeforeYear(w) + 146097 /\ daysInYear(v) = daysInYear(w)
  BY <1>2, CycleOfYears
<1>5. DaysBeforeMonth(v, r) = DaysBeforeMonth(w, r)
  BY <1>4, MonthStarts
<1>6. DaysBeforeYear(w) \in Int /\ DaysBeforeMonth(w, r) \in Int
  BY MonthStartType
<1> QED BY <1>3, <1>4, <1>5, <1>6

LEMMA FirstOfYear ==
  ASSUME NEW yr \in Int, NEW dt \in Int
  PROVE  DayNumber(yr, 0, dt) = DaysBeforeYear(yr) + dt - 1
<1>1. 0 \div 12 = 0 /\ 0 % 12 = 0 /\ yr + 0 = yr BY SMT
<1>2. DaysBeforeMonth(yr, 0) = 0
  <2>1. 0 \in 0 .. 11 BY SMT
  <2>2. daysInYear(yr) \in Int BY <2>1, MonthStartType
  <2> QED BY <2>1, <2>2, MonthStarts, SMT
<1>3. DayNumber(yr, 0, dt) = DaysBeforeYear(yr) + 0 + dt - 1
  BY <1>1, <1>2, Zenon DEF DayNumber
<1>4. DaysBeforeYear(yr) \in Int BY YearShare
<1> QED BY <1>3, <1>4, SMT

\* A day of a year is made of its number in every year.
LEMMA UTCDateIs ==
  ASSUME NEW yr \in Int, NEW dt \in 1 .. daysInYear(yr)
  PROVE  createUTCDate(yr, 0, dt) = DaysBeforeYear(yr) + dt - 1
<1>1. PICK length \in {365, 366} : length = daysInYear(yr)
  BY DEF daysInYear
<1>2. dt \in Int /\ 1 <= dt /\ dt <= length
  BY <1>1
<1>3. CASE yr \notin 0 .. 99
  BY <1>2, <1>3, FirstOfYear DEF createUTCDate, NewDate
<1>4. CASE yr \in 0 .. 99
  <2>1. PICK v \in Int : v = yr + 400 /\ v \notin 0 .. 99
    <3>1. yr + 400 \in Int /\ yr + 400 \notin 0 .. 99 BY <1>4, SMT
    <3> QED BY <3>1
  <2>2. DaysBeforeYear(v) = DaysBeforeYear(yr) + 146097 /\ daysInYear(v) = length
    BY <1>1, <2>1, CycleOfYears
  <2>3. PICK start \in Int : start = DaysBeforeYear(v)
    BY YearShare
  <2>4. DaysBeforeYear(v + 1) = start + length
    <3>1. DaysBeforeYear(v + 1) \in Int BY YearShare
    <3> QED BY <2>2, <2>3, <3>1, YearsAreAsLongAsTheirDates
  <2>5. PICK n \in Int : n = start + dt - 1
    BY <1>2
  <2>6. NewDate(yr + 400, 0, dt) = n
    <3>1. NewDate(v, 0, dt) = DayNumber(v, 0, dt)
      BY <2>1 DEF NewDate
    <3>2. DayNumber(v, 0, dt) = start + dt - 1
      BY <1>2, <2>3, FirstOfYear
    <3> QED BY <2>1, <2>5, <3>1, <3>2
  <2>7. YearOf(n) = v
    <3>1. DaysBeforeYear(v) <= n /\ n < DaysBeforeYear(v + 1)
      BY <1>2, <2>3, <2>4, <2>5
    <3> QED BY <3>1, YearIs
  <2>8. PICK mon \in Int, date0 \in Int : mon = MonthOf(n) /\ date0 = DateOf(n)
    <3>1. MonthOf(n) \in 0 .. 11 /\ DateOf(n) \in 1 .. daysInMonth(YearOf(n), MonthOf(n))
      BY DatesReadBack
    <3> QED BY <3>1
  <2>9. DayNumber(v, mon, date0) = n
    BY <2>7, <2>8, DatesReadBack
  <2>10. PICK made \in Int : made = DayNumber(yr, mon, date0) /\ n = made + 146097
    <3>1. DayNumber(yr, mon, date0) \in Int
      BY DayNumberType
    <3>2. DayNumber(yr + 400, mon, date0) = DayNumber(yr, mon, date0) + 146097
      BY CycleOfDays
    <3> QED BY <2>1, <2>9, <3>1, <3>2
  <2>11. createUTCDate(yr, 0, dt) = made
    BY <1>4, <2>6, <2>8, <2>10 DEF createUTCDate, setUTCFullYear
  <2>12. DaysBeforeYear(yr) \in Int
    BY YearShare
  <2> QED BY <1>2, <2>2, <2>3, <2>5, <2>10, <2>11, <2>12
<1> QED BY <1>3, <1>4

-----------------------------------------------------------------------------
(***************************************************************************)
(* The first week of a year starts on the weekday of the rule and has the  *)
(* rule's day of January, and weeks fill the years without a rest, which   *)
(* weeksInYear divides by 7 without rounding (moment.js:1372), in every    *)
(* year.                                                                   *)
(***************************************************************************)
FirstWeek(y, rule) == DaysBeforeYear(y) + firstWeekOffset(y, rule)

January(rule) == 7 + rule.dow - rule.doy

LEMMA RuleIs ==
  ASSUME NEW rule \in WeekRule
  PROVE  rule.dow \in 0 .. 6 /\ January(rule) \in 1 .. 7
BY DEF WeekRule, January

\* firstWeekOffset (moment.js:1312) is the offset of the week with the day of
\* January that the rule names, and this week starts on the rule's weekday.
THEOREM WeeksStartOnTheirDay ==
  ASSUME NEW yr \in Int, NEW rule \in WeekRule
  PROVE  /\ firstWeekOffset(yr, rule) \in -6 .. 6
         /\ January(rule) - 7 <= firstWeekOffset(yr, rule)
         /\ firstWeekOffset(yr, rule) < January(rule)
         /\ WeekdayOf(FirstWeek(yr, rule)) = rule.dow
         /\ FirstWeek(yr, rule) = StartOfWeek(DayNumber(yr, 0, January(rule)), rule)
<1>1. PICK dow \in 0 .. 6, fwd \in 1 .. 7 : rule.dow = dow /\ January(rule) = fwd
  BY RuleIs
<1>0. 7 + rule.dow - rule.doy = fwd
  BY <1>1 DEF January
<1>2. PICK days \in Int : DaysBeforeYear(yr) = days
  BY YearShare
<1>3. createUTCDate(yr, 0, fwd) = days + fwd - 1
  <2>1. fwd \in 1 .. daysInYear(yr)
    BY DEF daysInYear
  <2> QED BY <1>2, <2>1, UTCDateIs
<1>4. DayNumber(yr, 0, fwd) = days + fwd - 1
  BY <1>2, FirstOfYear
<1>5. PICK w \in 0 .. 6 : WeekdayOf(days + fwd - 1) = w /\ (days + fwd - 1 + 4) % 7 = w
  <2>1. (days + fwd - 1 + 4) % 7 \in 0 .. 6 BY SMT
  <2> QED BY <2>1 DEF WeekdayOf
<1>6. PICK k \in 0 .. 6 : (7 + w - dow) % 7 = k /\ (w - dow) % 7 = k
  <2>1. (7 + w - dow) % 7 \in 0 .. 6 /\ (w - dow) % 7 = (7 + w - dow) % 7 BY SMT
  <2> QED BY <2>1
<1>7. firstWeekOffset(yr, rule) = -k + fwd - 1
  BY <1>0, <1>1, <1>3, <1>5, <1>6, Zenon DEF firstWeekOffset
<1>8. PICK n \in Int : n = days + (-k + fwd - 1)
  BY SMT
<1>9. FirstWeek(yr, rule) = n
  BY <1>2, <1>7, <1>8, Zenon DEF FirstWeek
<1>10. /\ -k + fwd - 1 \in -6 .. 6 /\ fwd - 7 <= -k + fwd - 1 /\ -k + fwd - 1 < fwd
       /\ (n + 4) % 7 = dow /\ n = (days + fwd - 1) - k
  BY <1>5, <1>6, <1>8, SMT
<1>11. FirstWeek(yr, rule) = StartOfWeek(DayNumber(yr, 0, fwd), rule)
  BY <1>1, <1>4, <1>5, <1>6, <1>9, <1>10, Zenon DEF StartOfWeek
<1>12. /\ firstWeekOffset(yr, rule) \in -6 .. 6
       /\ fwd - 7 <= firstWeekOffset(yr, rule) /\ firstWeekOffset(yr, rule) < fwd
       /\ WeekdayOf(FirstWeek(yr, rule)) = rule.dow
  BY <1>1, <1>7, <1>9, <1>10, Zenon DEF WeekdayOf
<1> QED BY <1>1, <1>11, <1>12, Zenon

\* weeksInYear (moment.js:1372) is the number of weeks from the first week of
\* a year to that of the next: 52 or 53.
THEOREM WeeksFillTheYears ==
  ASSUME NEW yr \in Int, NEW rule \in WeekRule
  PROVE  /\ weeksInYear(yr, rule) \in {52, 53}
         /\ FirstWeek(yr + 1, rule) = FirstWeek(yr, rule) + 7 * weeksInYear(yr, rule)
<1>1. PICK n \in {365, 366} : daysInYear(yr) = n
  BY DEF daysInYear
<1>2. PICK here \in Int : DaysBeforeYear(yr) = here
  BY YearShare
<1>3. DaysBeforeYear(yr + 1) = here + n
  <2>1. DaysBeforeYear(yr + 1) \in Int BY YearShare
  <2> QED BY <1>1, <1>2, <2>1, YearsAreAsLongAsTheirDates, SMT
<1>0. PICK fwd \in 1 .. 7, dow \in 0 .. 6 : January(rule) = fwd /\ rule.dow = dow
  BY RuleIs
<1>4. PICK a \in -6 .. 6 : firstWeekOffset(yr, rule) = a /\ fwd - 7 <= a /\ a < fwd
  BY <1>0, WeeksStartOnTheirDay
<1>5. PICK b \in -6 .. 6 : firstWeekOffset(yr + 1, rule) = b /\ fwd - 7 <= b /\ b < fwd
  <2>1. yr + 1 \in Int BY SMT
  <2> QED BY <1>0, <2>1, WeeksStartOnTheirDay
<1>6. FirstWeek(yr, rule) = here + a /\ FirstWeek(yr + 1, rule) = here + n + b
  BY <1>2, <1>3, <1>4, <1>5, Zenon DEF FirstWeek
<1>7. (here + a + 4) % 7 = (here + n + b + 4) % 7
  <2>1. yr + 1 \in Int BY SMT
  <2>2. (FirstWeek(yr, rule) + 4) % 7 = dow
    BY <1>0, WeeksStartOnTheirDay DEF WeekdayOf
  <2>3. (FirstWeek(yr + 1, rule) + 4) % 7 = dow
    BY <1>0, <2>1, WeeksStartOnTheirDay DEF WeekdayOf
  <2> QED BY <1>6, <2>2, <2>3, Zenon
<1>8. PICK weeks \in Int : (n - a + b) \div 7 = weeks
  <2>1. (n - a + b) \div 7 \in Int BY SMT
  <2> QED BY <2>1
<1>9. 7 * weeks = n - a + b
  BY <1>7, <1>8, SMT
<1>10. weeks \in {52, 53} /\ here + n + b = (here + a) + 7 * weeks
  BY <1>4, <1>5, <1>9, SMT
<1>11. weeksInYear(yr, rule) = weeks
  BY <1>1, <1>4, <1>5, <1>8, Zenon DEF weeksInYear
<1> QED BY <1>6, <1>10, <1>11, Zenon

-----------------------------------------------------------------------------
(***************************************************************************)
(* A day is numbered with the week it lies in, of the year whose weeks it  *)
(* lies among, which may be the one before or after its own.               *)
(***************************************************************************)
WeekOn(n, rule) == weekOfYear(YearOf(n), n - DaysBeforeYear(YearOf(n)) + 1, rule)

LiesInWeek(n, y, week, rule) ==
  FirstWeek(y, rule) + 7 * (week - 1) <= n /\ n < FirstWeek(y, rule) + 7 * week

LEMMA FirstWeekType ==
  ASSUME NEW y \in Int, NEW rule \in WeekRule
  PROVE  /\ FirstWeek(y, rule) \in Int
         /\ DaysBeforeYear(y) - 6 <= FirstWeek(y, rule)
         /\ FirstWeek(y, rule) <= DaysBeforeYear(y) + 6
<1>1. PICK n \in Int, a \in -6 .. 6 : n = DaysBeforeYear(y) /\ a = firstWeekOffset(y, rule)
  BY YearShare, WeeksStartOnTheirDay
<1> QED BY <1>1, SMT DEF FirstWeek

LEMMA WeekLies ==
  ASSUME NEW n \in Int, NEW rule \in WeekRule
  PROVE  \E y \in Int : \E week \in 1 .. weeksInYear(y, rule) :
           WeekOn(n, rule) = [year |-> y, week |-> week] /\ LiesInWeek(n, y, week, rule)
<1>1. PICK y \in Int : y = YearOf(n) /\ DaysBeforeYear(y) <= n /\ n < DaysBeforeYear(y + 1)
  BY YearOfDay
<1>2. PICK y0 \in Int, y1 \in Int : y0 = y - 1 /\ y1 = y + 1
  OBVIOUS
<1>3. PICK y2 \in Int : y2 = y1 + 1
  OBVIOUS
<1>4. PICK start \in Int, next \in Int :
        start = DaysBeforeYear(y) /\ next = DaysBeforeYear(y1) /\ start <= n /\ n < next
  BY <1>1, <1>2, YearShare
<1>5. PICK f0 \in Int, f \in Int, f1 \in Int, f2 \in Int :
        /\ f0 = FirstWeek(y0, rule) /\ f = FirstWeek(y, rule)
        /\ f1 = FirstWeek(y1, rule) /\ f2 = FirstWeek(y2, rule)
        /\ f <= start + 6 /\ next - 6 <= f1
  BY <1>4, FirstWeekType
<1>6. PICK weeks0 \in {52, 53}, weeks \in {52, 53}, weeks1 \in {52, 53} :
        /\ weeks0 = weeksInYear(y0, rule) /\ weeks = weeksInYear(y, rule)
        /\ weeks1 = weeksInYear(y1, rule)
        /\ f = f0 + 7 * weeks0 /\ f1 = f + 7 * weeks /\ f2 = f1 + 7 * weeks1
  <2>1. y0 + 1 = y
    BY <1>2
  <2> QED BY <1>2, <1>3, <1>5, <2>1, WeeksFillTheYears
<1>7. PICK off \in Int : off = firstWeekOffset(y, rule) /\ f = start + off
  <2>1. firstWeekOffset(y, rule) \in Int
    BY WeeksStartOnTheirDay
  <2> QED BY <1>4, <1>5, <2>1 DEF FirstWeek
<1>8. PICK week \in Int : ((n - start + 1) - off - 1) \div 7 + 1 = week
  <2>1. ((n - start + 1) - off - 1) \div 7 + 1 \in Int BY SMT
  <2> QED BY <2>1
<1>9. f + 7 * (week - 1) <= n /\ n < f + 7 * week
  BY <1>7, <1>8, SMT
<1>10. WeekOn(n, rule) =
         IF week < 1 THEN [year |-> y - 1, week |-> week + weeks0]
         ELSE IF week > weeks THEN [year |-> y + 1, week |-> week - weeks]
         ELSE [year |-> y, week |-> week]
  <2>1. PICK d : d = n - start + 1
    OBVIOUS
  <2>2. (d - firstWeekOffset(y, rule) - 1) \div 7 + 1 = week
    BY <1>7, <1>8, <2>1, Zenon
  <2>3. weeksInYear(y, rule) = weeks /\ weeksInYear(y - 1, rule) = weeks0
    BY <1>2, <1>6, Zenon
  <2>4. WeekOn(n, rule) = weekOfYear(y, d, rule)
    BY <1>1, <1>4, <2>1, Zenon DEF WeekOn
  <2> QED BY <2>2, <2>3, <2>4, Zenon DEF weekOfYear, WeekAsCounted
<1>11. CASE week < 1
  <2>1. PICK w \in Int : w = week + weeks0
    OBVIOUS
  <2>2. w \in 1 .. weeks0 /\ f0 + 7 * (w - 1) <= n /\ n < f0 + 7 * w
    BY <1>4, <1>5, <1>6, <1>9, <1>11, <2>1, SMT
  <2>3. WeekOn(n, rule) = [year |-> y0, week |-> w]
    BY <1>2, <1>10, <1>11, <2>1, Zenon
  <2>4. w \in 1 .. weeksInYear(y0, rule) /\ LiesInWeek(n, y0, w, rule)
    BY <1>5, <1>6, <2>2, Zenon DEF LiesInWeek
  <2> QED BY <2>3, <2>4, Zenon
<1>12. CASE ~(week < 1) /\ week > weeks
  <2>1. PICK w \in Int : w = week - weeks
    OBVIOUS
  <2>2. w \in 1 .. weeks1 /\ f1 + 7 * (w - 1) <= n /\ n < f1 + 7 * w
    BY <1>4, <1>5, <1>6, <1>9, <1>12, <2>1, SMT
  <2>3. WeekOn(n, rule) = [year |-> y1, week |-> w]
    BY <1>2, <1>10, <1>12, <2>1, Zenon
  <2>4. w \in 1 .. weeksInYear(y1, rule) /\ LiesInWeek(n, y1, w, rule)
    BY <1>5, <1>6, <2>2, Zenon DEF LiesInWeek
  <2> QED BY <2>3, <2>4, Zenon
<1>13. CASE ~(week < 1) /\ ~(week > weeks)
  <2>1. WeekOn(n, rule) = [year |-> y, week |-> week]
    BY <1>10, <1>13, Zenon
  <2>2. week \in 1 .. weeks
    BY <1>6, <1>13, SMT
  <2>3. week \in 1 .. weeksInYear(y, rule) /\ LiesInWeek(n, y, week, rule)
    BY <1>5, <1>6, <1>9, <2>2, Zenon DEF LiesInWeek
  <2> QED BY <2>1, <2>3, Zenon
<1> QED BY <1>11, <1>12, <1>13

\* The weeks of a year do not reach into those of another one.
LEMMA YearsOfWeeks ==
  ASSUME NEW n \in Int, NEW rule \in WeekRule, NEW y \in Int, NEW z \in Int,
         FirstWeek(y, rule) <= n, n < FirstWeek(y + 1, rule),
         FirstWeek(z, rule) <= n, n < FirstWeek(z + 1, rule)
  PROVE  y = z
<1>1. ASSUME NEW u \in Int, NEW v \in Int, u < v
      PROVE  FirstWeek(u + 1, rule) <= FirstWeek(v, rule)
  <2>1. PICK w \in Int : w = u + 1 /\ w <= v
    BY <1>1
  <2>2. PICK a \in Int, b \in Int : a = FirstWeek(w, rule) /\ b = FirstWeek(v, rule)
    BY FirstWeekType
  <2>3. PICK p \in Int, q \in Int :
          /\ p = DaysBeforeYear(w) /\ q = DaysBeforeYear(v)
          /\ a <= p + 6 /\ q - 6 <= b
    BY <2>2, YearShare, FirstWeekType
  <2>4. CASE w = v
    BY <2>1, <2>2, <2>4
  <2>5. CASE w < v
    <3>1. p + 360 <= q
      BY <2>3, <2>5, YearsApart
    <3>2. a <= b
      BY <2>3, <3>1
    <3> QED BY <2>1, <2>2, <3>2
  <2> QED BY <2>1, <2>4, <2>5
<1>2. /\ FirstWeek(y, rule) \in Int /\ FirstWeek(y + 1, rule) \in Int
      /\ FirstWeek(z, rule) \in Int /\ FirstWeek(z + 1, rule) \in Int
  <2>1. y + 1 \in Int /\ z + 1 \in Int
    OBVIOUS
  <2> QED BY <2>1, FirstWeekType
<1>3. ~(y < z)
  <2> SUFFICES ASSUME y < z PROVE FALSE
    OBVIOUS
  <2>1. FirstWeek(y + 1, rule) <= FirstWeek(z, rule)
    BY <1>1
  <2> QED BY <1>2, <2>1
<1>4. ~(z < y)
  <2> SUFFICES ASSUME z < y PROVE FALSE
    OBVIOUS
  <2>1. FirstWeek(z + 1, rule) <= FirstWeek(y, rule)
    BY <1>1
  <2> QED BY <1>2, <2>1
<1> QED BY <1>3, <1>4

LEMMA WeekOfItsYear ==
  ASSUME NEW n \in Int, NEW rule \in WeekRule, NEW y \in Int,
         NEW week \in 1 .. weeksInYear(y, rule), LiesInWeek(n, y, week, rule)
  PROVE  FirstWeek(y, rule) <= n /\ n < FirstWeek(y + 1, rule)
<1>1. PICK f \in Int, weeks \in {52, 53} :
        /\ f = FirstWeek(y, rule) /\ weeks = weeksInYear(y, rule)
        /\ FirstWeek(y + 1, rule) = f + 7 * weeks
  BY FirstWeekType, WeeksFillTheYears
<1>2. week \in 1 .. weeks /\ f + 7 * (week - 1) <= n /\ n < f + 7 * week
  BY <1>1, Zenon DEF LiesInWeek
<1>3. f <= n /\ n < f + 7 * weeks
  BY <1>2, SMT
<1> QED BY <1>1, <1>3

\* weekOfYear (moment.js:1346) numbers a day with the week it lies in.
THEOREM DaysAreNumberedByTheirWeek ==
  ASSUME NEW n \in Int, NEW rule \in WeekRule, NEW y \in Int,
         NEW week \in 1 .. weeksInYear(y, rule), LiesInWeek(n, y, week, rule)
  PROVE  WeekOn(n, rule) = [year |-> y, week |-> week]
<1>1. PICK z \in Int : \E w \in 1 .. weeksInYear(z, rule) :
        WeekOn(n, rule) = [year |-> z, week |-> w] /\ LiesInWeek(n, z, w, rule)
  BY WeekLies
<1>2. PICK w \in 1 .. weeksInYear(z, rule) :
        WeekOn(n, rule) = [year |-> z, week |-> w] /\ LiesInWeek(n, z, w, rule)
  BY <1>1
<1>3. z = y
  BY <1>2, WeekOfItsYear, YearsOfWeeks
<1>4. w = week
  <2>1. PICK f \in Int : f = FirstWeek(y, rule)
    BY FirstWeekType
  <2>2. week \in Int /\ w \in Int
    BY WeeksFillTheYears
  <2>3. /\ f + 7 * (week - 1) <= n /\ n < f + 7 * week
        /\ f + 7 * (w - 1) <= n /\ n < f + 7 * w
    BY <1>2, <1>3, <2>1, Zenon DEF LiesInWeek
  <2> QED BY <2>2, <2>3, SMT
<1> QED BY <1>2, <1>3, <1>4

(***************************************************************************)
(* A week of a year and a weekday give a date, maybe in the year before or *)
(* after, whose week is the one it was made of.                            *)
(***************************************************************************)
LEMMA WeekDateIs ==
  ASSUME NEW yr \in Int, NEW rule \in WeekRule, NEW wday \in 0 .. 7,
         NEW week \in 1 .. weeksInYear(yr, rule)
  PROVE  LET made == dayOfYearFromWeeks(yr, week, wday, rule) IN
           /\ made.year \in Int /\ made.dayOfYear \in 1 .. daysInYear(made.year)
           /\ DaysBeforeYear(made.year) + made.dayOfYear - 1
                = FirstWeek(yr, rule) + 7 * (week - 1) + ((7 + wday - rule.dow) % 7)
<1>1. PICK y0 \in Int, y1 \in Int : y0 = yr - 1 /\ y1 = yr + 1 /\ y0 + 1 = yr
  OBVIOUS
<1>2. PICK n0 \in {365, 366}, n \in {365, 366}, n1 \in {365, 366} :
        n0 = daysInYear(y0) /\ n = daysInYear(yr) /\ n1 = daysInYear(y1)
  BY DEF daysInYear
<1>3. PICK s0 \in Int, s \in Int, s1 \in Int :
        s0 = DaysBeforeYear(y0) /\ s = DaysBeforeYear(yr) /\ s1 = DaysBeforeYear(y1)
  <2>1. DaysBeforeYear(y0) \in Int /\ DaysBeforeYear(yr) \in Int /\ DaysBeforeYear(y1) \in Int
    BY YearShare
  <2> QED BY <2>1
<1>4. s = s0 + n0 /\ s1 = s + n
  BY <1>1, <1>2, <1>3, YearsAreAsLongAsTheirDates
<1>5. PICK a \in -6 .. 6, b \in -6 .. 6, weeks \in {52, 53} :
        /\ firstWeekOffset(yr, rule) = a /\ firstWeekOffset(y1, rule) = b
        /\ weeks = weeksInYear(yr, rule)
  BY WeeksStartOnTheirDay, WeeksFillTheYears
<1>6. s1 + b = (s + a) + 7 * weeks
  BY <1>1, <1>3, <1>5, WeeksFillTheYears DEF FirstWeek
<1>7. PICK dow \in 0 .. 6 : rule.dow = dow
  BY DEF WeekRule
<1>8. PICK k \in 0 .. 6 : (7 + wday - dow) % 7 = k
  <2>1. (7 + wday - dow) % 7 \in 0 .. 6 BY SMT
  <2> QED BY <2>1
<1>9. PICK w \in 1 .. weeks : w = week
  BY <1>5
<1>10. PICK d \in Int : d = 1 + 7 * (w - 1) + k + a
  <2>1. 1 + 7 * (w - 1) + k + a \in Int BY SMT
  <2> QED BY <2>1
<1>11. dayOfYearFromWeeks(yr, week, wday, rule)
         = IF d <= 0 THEN [year |-> y0, dayOfYear |-> n0 + d]
           ELSE IF d > n THEN [year |-> y1, dayOfYear |-> d - n]
           ELSE [year |-> yr, dayOfYear |-> d]
  BY <1>1, <1>2, <1>5, <1>7, <1>8, <1>9, <1>10, Zenon
     DEF dayOfYearFromWeeks, DayAsCounted, DaysToWeekday
<1>12. PICK day0 \in Int : day0 = (s + a) + 7 * (w - 1) + k
  <2>1. (s + a) + 7 * (w - 1) + k \in Int BY SMT
  <2> QED BY <2>1
<1>13. FirstWeek(yr, rule) + 7 * (week - 1) + ((7 + wday - rule.dow) % 7) = day0
  BY <1>3, <1>5, <1>7, <1>8, <1>9, <1>12, Zenon DEF FirstWeek
<1>14. PICK made : made = dayOfYearFromWeeks(yr, week, wday, rule)
  OBVIOUS
<1>15. /\ made.year \in Int /\ made.dayOfYear \in 1 .. daysInYear(made.year)
       /\ DaysBeforeYear(made.year) + made.dayOfYear - 1 = day0
  <2>1. CASE d <= 0
    <3>0. PICK e \in Int : e = n0 + d
      BY SMT
    <3>1. made.year = y0 /\ made.dayOfYear = e
      BY <1>11, <1>14, <2>1, <3>0
    <3>2. e \in 1 .. n0 /\ s0 + e - 1 = day0
      BY <1>4, <1>10, <1>12, <2>1, <3>0, SMT
    <3> QED BY <1>2, <1>3, <3>1, <3>2, Zenon
  <2>2. CASE ~(d <= 0) /\ d > n
    <3>0. PICK e \in Int : e = d - n
      BY SMT
    <3>1. made.year = y1 /\ made.dayOfYear = e
      BY <1>11, <1>14, <2>2, <3>0
    <3>2. e \in 1 .. n1 /\ s1 + e - 1 = day0
      BY <1>4, <1>6, <1>10, <1>12, <2>2, <3>0, SMT
    <3> QED BY <1>2, <1>3, <3>1, <3>2, Zenon
  <2>3. CASE ~(d <= 0) /\ ~(d > n)
    <3>1. made.year = yr /\ made.dayOfYear = d
      BY <1>11, <1>14, <2>3
    <3>2. d \in 1 .. n /\ s + d - 1 = day0
      BY <1>10, <1>12, <2>3, SMT
    <3> QED BY <1>2, <1>3, <3>1, <3>2, Zenon
  <2> QED BY <2>1, <2>2, <2>3
<1> QED BY <1>13, <1>14, <1>15

\* The day of a week year, a week and a weekday.
WeekDay(y, week, wday, rule) == FirstWeek(y, rule) + 7 * (week - 1) + ((7 + wday - rule.dow) % 7)

LEMMA WeekDayIs ==
  ASSUME NEW y \in Int, NEW rule \in WeekRule, NEW wday \in 0 .. 7,
         NEW week \in 1 .. weeksInYear(y, rule)
  PROVE  /\ WeekDay(y, week, wday, rule) \in Int
         /\ LiesInWeek(WeekDay(y, week, wday, rule), y, week, rule)
         /\ WeekdayOf(WeekDay(y, week, wday, rule)) = wday % 7
<1>1. PICK f \in Int, dow \in 0 .. 6 :
        f = FirstWeek(y, rule) /\ dow = rule.dow /\ (f + 4) % 7 = dow
  BY FirstWeekType, WeeksStartOnTheirDay DEF WeekRule, WeekdayOf
<1>2. PICK k \in 0 .. 6 : (7 + wday - dow) % 7 = k
  <2>1. (7 + wday - dow) % 7 \in 0 .. 6 BY SMT
  <2> QED BY <2>1
<1>3. PICK w \in Int : w = week
  BY WeeksFillTheYears
<1>4. PICK n \in Int : n = f + 7 * (w - 1) + k
  <2>1. f + 7 * (w - 1) + k \in Int BY SMT
  <2> QED BY <2>1
<1>5. WeekDay(y, week, wday, rule) = n
  BY <1>1, <1>2, <1>3, <1>4, Zenon DEF WeekDay
<1>6. f + 7 * (w - 1) <= n /\ n < f + 7 * w /\ (n + 4) % 7 = wday % 7
  <2>1. PICK i \in Int, j \in Int : 7 + wday - dow = 7 * i + k /\ f + 4 = 7 * j + dow
    <3>1. 7 + wday - dow = 7 * ((7 + wday - dow) \div 7) + k /\ (7 + wday - dow) \div 7 \in Int
      BY <1>2, SMT
    <3>2. f + 4 = 7 * ((f + 4) \div 7) + dow /\ (f + 4) \div 7 \in Int
      BY <1>1, SMT
    <3> QED BY <3>1, <3>2
  <2>2. PICK q \in Int : n + 4 = 7 * q + wday
    <3>1. n + 4 = 7 * (j + w - i) + wday /\ j + w - i \in Int
      BY <1>4, <2>1, SMT
    <3> QED BY <3>1
  <2>3. (n + 4) % 7 = wday % 7
    BY <2>2, SMT
  <2> QED BY <1>4, <2>3, SMT
<1>7. LiesInWeek(n, y, week, rule)
  BY <1>1, <1>3, <1>6, Zenon DEF LiesInWeek
<1> QED BY <1>5, <1>6, <1>7 DEF WeekdayOf

\* weekOfYear undoes dayOfYearFromWeeks (moment.js:1322).
THEOREM WeekDatesLeadBack ==
  ASSUME NEW yr \in Int, NEW rule \in WeekRule, NEW wday \in 0 .. 7,
         NEW week \in 1 .. weeksInYear(yr, rule),
         NEW made, made = dayOfYearFromWeeks(yr, week, wday, rule)
  PROVE  weekOfYear(made.year, made.dayOfYear, rule) = [year |-> yr, week |-> week]
<1>1. PICK n \in Int : n = WeekDay(yr, week, wday, rule)
  BY WeekDayIs
<1>2. PICK y \in Int, d \in Int :
        /\ y = made.year /\ d = made.dayOfYear
        /\ d \in 1 .. daysInYear(y) /\ DaysBeforeYear(y) + d - 1 = n
  BY <1>1, WeekDateIs DEF WeekDay
<1>3. PICK start \in Int, length \in {365, 366} :
        /\ start = DaysBeforeYear(y) /\ length = daysInYear(y)
        /\ DaysBeforeYear(y + 1) = start + length
  <2>1. DaysBeforeYear(y) \in Int /\ DaysBeforeYear(y + 1) \in Int
    BY YearShare
  <2> QED BY <2>1, YearsAreAsLongAsTheirDates DEF daysInYear
<1>4. d \in Int /\ 1 <= d /\ d <= length /\ n = start + d - 1
  BY <1>2, <1>3
<1>5. YearOf(n) = y
  <2>1. DaysBeforeYear(y) <= n /\ n < DaysBeforeYear(y + 1)
    BY <1>3, <1>4
  <2> QED BY <2>1, YearIs
<1>6. n - DaysBeforeYear(y) + 1 = d
  BY <1>3, <1>4
<1>7. WeekOn(n, rule) = weekOfYear(y, d, rule)
  BY <1>5, <1>6, Zenon DEF WeekOn
<1>8. WeekOn(n, rule) = [year |-> yr, week |-> week]
  <2>1. LiesInWeek(n, yr, week, rule)
    BY <1>1, WeekDayIs
  <2> QED BY <2>1, DaysAreNumberedByTheirWeek
<1> QED BY <1>2, <1>7, <1>8

-----------------------------------------------------------------------------
(***************************************************************************)
(* Operations make moments of moments.                                     *)
(***************************************************************************)
\* A moment of the same kind, at another time.
Alike(y, x) ==
  /\ y \in Moment
  /\ y.valid = x.valid /\ y.isUTC = x.isUTC /\ y.offset = x.offset /\ y.week = x.week

LEMMA AlikeTrans ==
  ASSUME NEW x, NEW y, NEW z, Alike(y, x), Alike(z, y)
  PROVE  Alike(z, x)
BY DEF Alike

LEMMA AtAnotherTime ==
  ASSUME NEW x \in Moment, NEW t \in Int
  PROVE  Alike([x EXCEPT !.d = t], x)
BY DEF Alike, Moment

LEMMA ZoneType ==
  ASSUME NEW t \in Int
  PROVE  LocalOffset(t) \in Int /\ Local(t) \in Int /\ FromLocal(t) \in Int
<1>1. \A s \in Int : LocalOffset(s) \in Int
  BY ZoneAssumption, SMT DEF LocalOffset
<1> QED BY <1>1, ZoneAssumption, SMT DEF Local, FromLocal

\* What a moment shows.
LEMMA ShownType ==
  ASSUME NEW x \in Moment
  PROVE  /\ Clock(x) \in Int /\ DayOf(x) \in Int /\ year(x) \in Int
         /\ month(x) \in 0 .. 11 /\ date(x) \in Int /\ date(x) >= 1
         /\ date(x) <= daysInMonth(year(x), month(x))
         /\ day(x) \in 0 .. 6 /\ hour(x) \in Int /\ minute(x) \in Int
         /\ valueOf(x) \in Int /\ utcOffset(x) \in Int
<1>1. x.d \in Int /\ x.offset \in Int /\ x.isUTC \in BOOLEAN
  BY DEF Moment
<1>2. Clock(x) \in Int
  BY <1>1, ZoneType DEF Clock
<1>3. PICK c \in Int : c = Clock(x)
  BY <1>2
<1>4. c \div 1440 \in Int /\ (c % 1440) \div 60 \in Int /\ c % 60 \in Int
  BY SMT
<1>5. DayOf(x) \in Int /\ hour(x) \in Int /\ minute(x) \in Int
  BY <1>3, <1>4 DEF DayOf, hour, minute, MinutesPerDay
<1>6. PICK n \in Int : n = DayOf(x)
  BY <1>5
<1>7. /\ year(x) \in Int /\ month(x) \in 0 .. 11
      /\ date(x) \in 1 .. daysInMonth(year(x), month(x))
  BY <1>6, DatesReadBack DEF year, month, date
<1>8. daysInMonth(year(x), month(x)) \in Int
  <2>1. month(x) \in Int BY <1>7
  <2> QED BY <1>7, <2>1, DaysInMonthType
<1>9. day(x) \in 0 .. 6
  <2>1. (n + 4) % 7 \in 0 .. 6 BY SMT
  <2> QED BY <1>6, <2>1 DEF day, WeekdayOf
<1>10. valueOf(x) \in Int /\ utcOffset(x) \in Int
  BY <1>1, ZoneType DEF valueOf, utcOffset
<1> QED BY <1>2, <1>5, <1>7, <1>8, <1>9, <1>10

LEMMA DateAtType ==
  ASSUME NEW x \in Moment, NEW c \in Int
  PROVE  Alike(DateAt(x, c), x)
<1>1. (IF x.isUTC THEN c ELSE FromLocal(c)) \in Int
  BY ZoneType
<1> QED BY <1>1, AtAnotherTime DEF DateAt

LEMMA SetDateType ==
  ASSUME NEW x \in Moment, NEW y \in Int, NEW mon \in Int, NEW dt \in Int
  PROVE  Alike(SetDate(x, y, mon, dt), x)
<1>1. PICK n \in Int, c \in Int : n = DayNumber(y, mon, dt) /\ c = Clock(x)
  BY DayNumberType, ShownType
<1>2. n * 1440 + (c % 1440) \in Int
  BY SMT
<1> QED BY <1>1, <1>2, DateAtType DEF SetDate, MinutesPerDay

LEMMA SetType ==
  ASSUME NEW x \in Moment, NEW value \in Int
  PROVE  /\ Alike(set(x, "year", value), x)
         /\ Alike(set(x, "date", value), x)
         /\ Alike(set(x, "hour", value), x)
         /\ Alike(setMonth(x, value), x)
<1>1. /\ year(x) \in Int /\ month(x) \in Int /\ date(x) \in Int
      /\ DayOf(x) \in Int /\ minute(x) \in Int
  BY ShownType
<1>2. Alike(set(x, "year", value), x)
  <2>1. daysInMonth(value, 1) \in Int
    BY DaysInMonthType
  <2>2. PICK dt \in Int : dt = IF isLeapYear(year(x)) /\ month(x) = 1 /\ date(x) = 29
                              THEN daysInMonth(value, 1) ELSE date(x)
    BY <1>1, <2>1
  <2>3. set(x, "year", value) = SetDate(x, value, month(x), dt)
    BY <2>2 DEF set
  <2> QED BY <1>1, <2>3, SetDateType
<1>3. Alike(set(x, "date", value), x)
  <2>1. set(x, "date", value) = SetDate(x, year(x), month(x), value)
    BY DEF set
  <2> QED BY <1>1, <2>1, SetDateType
<1>4. Alike(set(x, "hour", value), x)
  <2>1. PICK c \in Int : c = DayOf(x) * MinutesPerDay + value * 60 + minute(x)
    <3>1. DayOf(x) * 1440 + value * 60 + minute(x) \in Int
      BY <1>1, SMT
    <3> QED BY <3>1 DEF MinutesPerDay
  <2>2. set(x, "hour", value) = DateAt(x, c)
    BY <2>1 DEF set
  <2> QED BY <2>2, DateAtType
<1>5. Alike(setMonth(x, value), x)
  <2>1. daysInMonth(year(x), value) \in Int
    BY <1>1, DaysInMonthType
  <2>2. Lesser(date(x), daysInMonth(year(x), value)) \in Int
    BY <1>1, <2>1 DEF Lesser
  <2> QED BY <1>1, <2>2, SetDateType DEF setMonth
<1> QED BY <1>2, <1>3, <1>4, <1>5

LEMMA AddType ==
  ASSUME NEW x \in Moment, NEW duration, duration.months \in Int, duration.days \in Int,
         duration.minutes \in Int, NEW isAdding \in {-1, 1}
  PROVE  Alike(addSubtract(x, duration, isAdding), x)
<1>1. Alike(x, x)
  BY DEF Alike
<1>2. PICK a \in Int, b \in Int, c \in Int :
        /\ duration.months * isAdding = a /\ duration.days * isAdding = b
        /\ duration.minutes * isAdding = c
  <2>1. \A n \in Int : n * isAdding \in Int BY SMT
  <2> QED BY <2>1
<1>3. Alike(AddMonths(x, a), x)
  <2>1. month(x) + a \in Int BY ShownType
  <2> QED BY <1>1, <2>1, SetType DEF AddMonths
<1>4. PICK y \in Moment : y = AddMonths(x, a)
  BY <1>3 DEF Alike
<1>5. Alike(AddDays(y, b), y)
  <2>1. Alike(y, y) BY DEF Alike
  <2>2. date(y) + b \in Int BY ShownType
  <2> QED BY <2>1, <2>2, SetType DEF AddDays
<1>6. PICK z \in Moment : z = AddDays(y, b)
  BY <1>5 DEF Alike
<1>7. Alike([z EXCEPT !.d = z.d + c], z)
  <2>1. z.d + c \in Int BY DEF Moment
  <2> QED BY <2>1, AtAnotherTime
<1>8. addSubtract(x, duration, isAdding)
        = IF ~x.valid THEN x ELSE [z EXCEPT !.d = z.d + c]
  BY <1>2, <1>4, <1>6 DEF addSubtract
<1>9. Alike([z EXCEPT !.d = z.d + c], x)
  BY <1>3, <1>4, <1>5, <1>6, <1>7, AlikeTrans
<1> QED BY <1>1, <1>8, <1>9

\* What is kept of amounts that are numbers.
LEMMA KeptType ==
  ASSUME NEW given, \A u \in DOMAIN given : given[u] \in Int
  PROVE  Kept(given).months \in Int /\ Kept(given).days \in Int /\ Kept(given).minutes \in Int
<1>1. \A u : Amount(given, u) \in Int
  BY DEF Amount
<1> QED BY <1>1 DEF Kept

LEMMA AddOneType ==
  ASSUME NEW x \in Moment, NEW n \in Int, NEW unit
  PROVE  Alike(add(x, n, unit), x)
<1> DEFINE given == [u \in {unit} |-> n]
<1>1. \A u \in DOMAIN given : given[u] \in Int
  OBVIOUS
<1>2. add(x, n, unit) = addSubtract(x, Kept(given), 1)
  BY DEF add
<1> HIDE DEF given
<1>3. 1 \in {-1, 1}
  OBVIOUS
<1> QED BY <1>1, <1>2, <1>3, KeptType, AddType

LEMMA StartOfDateType ==
  ASSUME NEW x \in Moment, NEW y \in Int, NEW mon \in Int, NEW dt \in Int
  PROVE  Alike(StartOfDate(x, y, mon, dt), x)
<1>1. PICK a \in Int, b \in Int : a = NewDate(y + 400, mon, dt) /\ b = NewDate(y, mon, dt)
  <2>1. y + 400 \in Int BY SMT
  <2> QED BY <2>1, DayNumberType
<1>2. PICK c \in Int : c = (IF y \in 0 .. 99 THEN a - 146097 ELSE b) * 1440
  BY SMT
<1>3. StartOfDate(x, y, mon, dt) = DateAt(x, c)
  BY <1>1, <1>2, SMT DEF StartOfDate, MinutesPerDay
<1> QED BY <1>3, DateAtType

\* How an operation finds the first month and the first date of a unit.
LEMMA FirstsType ==
  ASSUME NEW x \in Moment, NEW unit \in UnitsOfTime
  PROVE  FirstMonth(unit, month(x)) \in Int /\ FirstDate(x, unit) \in Int
<1>1. month(x) \in Int /\ date(x) \in Int /\ day(x) \in Int
  BY ShownType
<1>2. FirstMonth(unit, month(x)) \in Int
  <2>1. month(x) - (month(x) % 3) \in Int BY <1>1, SMT
  <2> QED BY <1>1, <2>1 DEF FirstMonth
<1>3. weekday(x) \in Int /\ isoWeekday(x) \in Int
  <2>1. PICK dow \in 0 .. 6 : x.week.dow = dow
    BY DEF Moment, WeekRule
  <2>2. (day(x) + 7 - dow) % 7 \in Int
    BY <1>1, SMT
  <2> QED BY <1>1, <2>1, <2>2 DEF weekday, isoWeekday
<1>4. date(x) - weekday(x) \in Int /\ date(x) - (isoWeekday(x) - 1) \in Int
  BY <1>1, <1>3
<1> QED BY <1>1, <1>2, <1>4 DEF FirstDate

LEMMA StartEndType ==
  ASSUME NEW x \in Moment, NEW unit \in UnitsOfTime
  PROVE  Alike(startOf(x, unit), x) /\ Alike(endOf(x, unit), x)
<1>1. Alike(x, x)
  BY DEF Alike
<1>2. InHour(x) \in Int
  <2>1. PICK c \in Int : c = x.d + (IF x.isUTC THEN 0 ELSE utcOffset(x))
    <3>1. x.d \in Int /\ utcOffset(x) \in Int BY ShownType DEF Moment
    <3> QED BY <3>1
  <2>2. c % 60 \in Int BY SMT
  <2> QED BY <2>1, <2>2 DEF InHour
<1>3. x.d - InHour(x) \in Int /\ x.d + 60 - InHour(x) - 1 \in Int
  BY <1>2 DEF Moment
<1>4. PICK y \in Int, mon \in Int, dt \in Int :
        /\ y = year(x) /\ mon = FirstMonth(unit, month(x)) /\ dt = FirstDate(x, unit)
  BY ShownType, FirstsType
<1>5. PICK a \in Int, b \in Int, c \in Int : Span(unit) = <<a, b, c>>
  BY DEF Span
<1>6. Alike(startOf(x, unit), x)
  <2>1. startOf(x, unit) = IF ~x.valid THEN x
                           ELSE IF unit = "hour" THEN [x EXCEPT !.d = x.d - InHour(x)]
                           ELSE StartOfDate(x, y, mon, dt)
    BY <1>4 DEF startOf
  <2> QED BY <1>1, <1>3, <2>1, AtAnotherTime, StartOfDateType
<1>7. Alike(endOf(x, unit), x)
  <2>1. PICK z \in Moment : Alike(z, x) /\ z = StartOfDate(x, y + a, mon + b, dt + c)
    <3>1. y + a \in Int /\ mon + b \in Int /\ dt + c \in Int OBVIOUS
    <3> QED BY <3>1, StartOfDateType DEF Alike
  <2>2. Alike([z EXCEPT !.d = z.d - 1], x)
    <3>1. z.d - 1 \in Int BY DEF Moment
    <3> QED BY <2>1, <3>1, AtAnotherTime, AlikeTrans
  <2>3. endOf(x, unit) = IF ~x.valid THEN x
                         ELSE IF unit = "hour"
                         THEN [x EXCEPT !.d = x.d + 60 - InHour(x) - 1]
                         ELSE [z EXCEPT !.d = z.d - 1]
    <3>1. Span(unit)[1] = a /\ Span(unit)[2] = b /\ Span(unit)[3] = c
      BY <1>5
    <3> QED BY <1>4, <2>1, <3>1 DEF endOf, Earlier
  <2> QED BY <1>1, <1>3, <2>2, <2>3, AtAnotherTime
<1> QED BY <1>6, <1>7

LEMMA OffsetType ==
  ASSUME NEW x \in Moment, NEW offset \in Int, NEW keepLocalTime \in BOOLEAN
  PROVE  /\ setOffset(x, offset, keepLocalTime) \in Moment
         /\ utc(x, keepLocalTime) \in Moment
         /\ local(x, keepLocalTime) \in Moment
<1>1. ASSUME NEW n \in Int
      PROVE  setOffset(x, n, keepLocalTime) \in Moment
  <2>1. PICK minutes \in Int : minutes = IF mathAbs(n) < 16 THEN n * 60 ELSE n
    BY SMT
  <2>2. PICK adjust \in Int : adjust = IF ~x.isUTC /\ keepLocalTime THEN LocalOffset(x.d) ELSE 0
    <3>1. LocalOffset(x.d) \in Int
      BY ZoneType DEF Moment
    <3> QED BY <3>1
  <2>3. PICK t \in Int :
          t = x.d + adjust + (IF keepLocalTime THEN 0 ELSE minutes - x.offset)
    BY DEF Moment
  <2>4. setOffset(x, n, keepLocalTime)
          = IF x.valid THEN [x EXCEPT !.offset = minutes, !.isUTC = TRUE, !.d = t] ELSE x
    BY <2>1, <2>2, <2>3 DEF setOffset
  <2> QED BY <2>4 DEF Moment
<1>2. utc(x, keepLocalTime) \in Moment
  BY <1>1 DEF utc
<1>3. local(x, keepLocalTime) \in Moment
  <2>1. PICK u \in Moment : u = [setOffset(x, 0, keepLocalTime) EXCEPT !.isUTC = FALSE]
    <3>1. setOffset(x, 0, keepLocalTime) \in Moment
      BY <1>1
    <3>2. \A v \in Moment : [v EXCEPT !.isUTC = FALSE] \in Moment
      BY DEF Moment
    <3> QED BY <3>1, <3>2
  <2>2. u.d - LocalOffset(u.d) \in Int
    BY ZoneType DEF Moment
  <2>3. [u EXCEPT !.d = u.d - LocalOffset(u.d)] \in Moment
    BY <2>2, AtAnotherTime DEF Alike
  <2>4. local(x, keepLocalTime) \in {x, u, [u EXCEPT !.d = u.d - LocalOffset(u.d)]}
    BY <2>1 DEF local
  <2> QED BY <2>3, <2>4
<1> QED BY <1>1, <1>2, <1>3

LEMMA CloneType ==
  ASSUME NEW x \in Moment, NEW y \in Moment
  PROVE  cloneWithOffset(x, y) \in Moment
<1>1. y.d + (valueOf(x) - valueOf(y)) \in Int
  BY ShownType DEF Moment
<1> QED BY <1>1, AtAnotherTime, OffsetType DEF cloneWithOffset, Alike

-----------------------------------------------------------------------------
(***************************************************************************)
(* Durations are made of what is kept of the amounts.                      *)
(***************************************************************************)
LEMMA QuotientType ==
  ASSUME NEW n \in Int, NEW k \in {12, 24, 60, 1600, 48699}
  PROVE  absFloor(n, k) \in Int /\ absCeil(n, k) \in Int
BY SMT DEF absFloor, absCeil

LEMMA BubbleType ==
  ASSUME NEW months \in Int, NEW days \in Int, NEW minutes \in Int
  PROVE  Bubble(months, days, minutes) \in Data
<1>1. ASSUME NEW ms \in Int, NEW ds \in Int, NEW ns \in Int
      PROVE  BubbleUp(ms, ds, ns) \in Data
  <2>1. PICK hours \in Int : hours = absFloor(ns, 60)
    BY QuotientType
  <2>2. PICK allDays \in Int, restHours \in Int :
          allDays = ds + absFloor(hours, 24) /\ restHours = hours - 24 * absFloor(hours, 24)
    <3>1. absFloor(hours, 24) \in Int BY QuotientType
    <3> QED BY <3>1
  <2>3. PICK fromDays \in Int : fromDays = MonthsOfDays(allDays)
    BY QuotientType, SMT DEF MonthsOfDays
  <2>4. PICK restDays \in Int : restDays = allDays - DaysOfMonthsCeil(fromDays)
    BY QuotientType, SMT DEF DaysOfMonthsCeil
  <2>5. PICK years \in Int : years = absFloor(ms + fromDays, 12)
    BY QuotientType
  <2>6. BubbleUp(ms, ds, ns)
          = [years |-> years, months |-> (ms + fromDays) - 12 * years, days |-> restDays,
             hours |-> restHours, minutes |-> ns - 60 * hours]
    BY <2>1, <2>2, <2>3, <2>4, <2>5 DEF BubbleUp
  <2> QED BY <2>6 DEF Data
<1>2. minutes + absCeil(months * 48699 + days * 1600, 1600) * MinutesPerDay \in Int
  <2>1. PICK n \in Int : n = months * 48699 + days * 1600 BY SMT
  <2>2. absCeil(n, 1600) \in Int BY QuotientType
  <2> QED BY <2>1, <2>2, SMT DEF MinutesPerDay
<1> QED BY <1>1, <1>2 DEF Bubble

LEMMA BubbledType ==
  ASSUME NEW months \in Int, NEW days \in Int, NEW minutes \in Int
  PROVE  /\ Bubbled(months, days, minutes) \in Duration
         /\ Bubbled(months, days, minutes).data
              = LET b == Bubbled(months, days, minutes) IN Bubble(b.months, b.days, b.minutes)
BY BubbleType DEF Bubbled, Duration

\* What a duration shows is bubbled up from what it keeps.
IsBubbled(d) == d \in Duration /\ d.data = Bubble(d.months, d.days, d.minutes)

LEMMA CreateDurationType ==
  ASSUME NEW given, \A u \in DOMAIN given : given[u] \in Int
  PROVE  IsBubbled(createDuration(given))
BY KeptType, BubbledType DEF createDuration, IsBubbled

LEMMA LengthenType ==
  ASSUME NEW d \in Duration, NEW e \in Duration, NEW dir \in {-1, 1}
  PROVE  IsBubbled(addSubtractDuration(d, e, dir))
<1>1. /\ d.months + dir * e.months \in Int /\ d.days + dir * e.days \in Int
      /\ d.minutes + dir * e.minutes \in Int
  BY SMT DEF Duration
<1> QED BY <1>1, BubbledType DEF addSubtractDuration, IsBubbled

LEMMA AbsType ==
  ASSUME NEW d \in Duration
  PROVE  abs(d) \in Duration
<1>1. d.data \in Data /\ d.months \in Int /\ d.days \in Int /\ d.minutes \in Int
  BY DEF Duration
<1> DEFINE data == [f \in DOMAIN d.data |->
                      IF f = "days" THEN d.data.days ELSE mathAbs(d.data[f])]
<1>2. data \in Data
  BY <1>1 DEF Data, mathAbs
<1> HIDE DEF data
<1>3. abs(d) = [months |-> mathAbs(d.months), days |-> mathAbs(d.days),
                minutes |-> mathAbs(d.minutes), data |-> data]
  BY DEF abs, data
<1> QED BY <1>1, <1>2, <1>3 DEF Duration, mathAbs

LEMMA BetweenType ==
  ASSUME NEW x \in Moment, NEW y \in Moment
  PROVE  IsBubbled(durationBetween(x, y))
<1> DEFINE Difference == [months : Int, milliseconds : Int]
<1>1. ASSUME NEW base \in Moment, NEW to \in Moment
      PROVE  positiveMomentsDifference(base, to) \in Difference
  <2>1. ASSUME NEW n \in Int PROVE AfterMonths(base, to, n) \in Difference
    <3>1. add(base, n, "month") \in Moment
      BY AddOneType DEF Alike
    <3>2. Since(to, add(base, n, "month")) \in Int
      BY <3>1, ShownType DEF Since
    <3> QED BY <3>2 DEF AfterMonths
  <2>2. PICK most \in Int : most = month(to) - month(base) + (year(to) - year(base)) * 12
    <3>1. /\ month(to) \in Int /\ month(base) \in Int
          /\ year(to) \in Int /\ year(base) \in Int
      BY ShownType
    <3> QED BY <3>1, SMT
  <2> HIDE DEF Difference
  <2>3. positiveMomentsDifference(base, to)
          \in {AfterMonths(base, to, most - 1), AfterMonths(base, to, most)}
    BY <2>2 DEF positiveMomentsDifference
  <2> QED BY <2>1, <2>3
<1>2. momentsDifference(x, y) \in Difference
  <2>1. PICK to \in Moment : to = cloneWithOffset(y, x)
    BY CloneType
  <2>2. \A difference \in Difference : Backwards(difference) \in Difference
    BY DEF Backwards
  <2>3. [months |-> 0, milliseconds |-> 0] \in Difference
    OBVIOUS
  <2> HIDE DEF Difference
  <2> QED BY <1>1, <2>1, <2>2, <2>3 DEF momentsDifference
<1>3. PICK difference \in Difference : difference = momentsDifference(x, y)
  BY <1>2
<1> DEFINE given == [month |-> difference.months, minute |-> difference.milliseconds]
<1>4. \A u \in DOMAIN given : given[u] \in Int
  OBVIOUS
<1>5. durationBetween(x, y) = createDuration(given)
  BY <1>3 DEF durationBetween, DurationOf
<1> HIDE DEF given
<1> QED BY <1>4, <1>5, CreateDurationType

-----------------------------------------------------------------------------
(***************************************************************************)
(* Moments are made of any fields, as long as these are numbers.           *)
(***************************************************************************)
IntFields(given) == \A f \in DOMAIN given : given[f] \in Int

LEMMA WithType ==
  ASSUME NEW given, NEW more
  PROVE  /\ DOMAIN With(given, more) = DOMAIN given \cup DOMAIN more
         /\ \A f \in DOMAIN given \cup DOMAIN more :
              With(given, more)[f] = IF f \in DOMAIN more THEN more[f] ELSE given[f]
BY DEF With

LEMMA DefaultsType ==
  ASSUME NEW given, IntFields(given), NEW f, NEW alt \in Int
  PROVE  defaults(given, f, alt) \in Int
BY DEF defaults, Has, IntFields

LEMMA MeridiemType ==
  ASSUME NEW given, IntFields(given)
  PROVE  IntFields(meridiemFixWrap(given))
<1>1. ASSUME NEW n \in Int PROVE IntFields(With(given, [hour |-> n]))
  <2> DEFINE more == [hour |-> n]
  <2>1. \A f \in DOMAIN more : more[f] \in Int
    OBVIOUS
  <2> HIDE DEF more
  <2>2. IntFields(With(given, more))
    <3>1. DOMAIN With(given, more) = DOMAIN given \cup DOMAIN more
      BY WithType, Zenon
    <3>2. ASSUME NEW f \in DOMAIN given \cup DOMAIN more PROVE With(given, more)[f] \in Int
      <4>1. With(given, more)[f] = IF f \in DOMAIN more THEN more[f] ELSE given[f]
        BY WithType, Zenon
      <4> QED BY <2>1, <4>1 DEF IntFields
    <3> QED BY <3>1, <3>2 DEF IntFields
  <2> QED BY <2>2 DEF more
<1>2. (Has(given, "hour") /\ Has(given, "pm") /\ given.pm = 1 /\ given.hour < 12)
        => given.hour + 12 \in Int
  BY DEF Has, IntFields
<1>3. \/ meridiemFixWrap(given) = given
      \/ meridiemFixWrap(given) = With(given, [hour |-> 0])
      \/ /\ Has(given, "hour") /\ Has(given, "pm") /\ given.pm = 1 /\ given.hour < 12
         /\ meridiemFixWrap(given) = With(given, [hour |-> given.hour + 12])
  BY DEF meridiemFixWrap
<1> QED BY <1>1, <1>2, <1>3

LEMMA TodayType ==
  ASSUME NEW useUTC \in BOOLEAN
  PROVE  currentDate(useUTC) \in Int
<1>1. PICK n \in Int : n = IF useUTC THEN Now ELSE Local(Now)
  BY ZoneAssumption, ZoneType
<1>2. n \div 1440 \in Int
  BY SMT
<1> QED BY <1>1, <1>2 DEF currentDate, MinutesPerDay

\* The year a date given by its week lies in.
LEMMA WeekInfoType ==
  ASSUME NEW given, IntFields(given), NEW rule
  PROVE  dayOfYearFromWeekInfo(given, rule).at.year \in Int
<1>1. ASSUME NEW r PROVE CurrentWeek(r).year \in Int
  <2>1. PICK y \in Int : y = YearOf(currentDate(FALSE))
    BY TodayType, YearOfDay
  <2>2. \A week : WeekAsCounted(y, week, r).year \in Int
    BY DEF WeekAsCounted
  <2> QED BY <2>1, <2>2 DEF CurrentWeek, weekOfYear
<1>2. ASSUME NEW r, NEW iso \in BOOLEAN, NEW now, now.year \in Int
      PROVE  WeekInfo(given, r, iso, now).at.year \in Int
  <2> DEFINE weekYear == defaults(given, IF iso THEN "GG" ELSE "gg",
                                  defaults(given, "year", now.year))
  <2>1. weekYear \in Int
    BY <1>2, DefaultsType
  <2> HIDE DEF weekYear
  <2>2. \A n : DayAsCounted(weekYear, n).year \in Int
    BY <2>1 DEF DayAsCounted
  <2>3. \E week, wday :
          WeekInfo(given, r, iso, now).at = dayOfYearFromWeeks(weekYear, week, wday, r)
    BY DEF WeekInfo, weekYear
  <2> QED BY <2>2, <2>3 DEF dayOfYearFromWeeks
<1> QED BY <1>1, <1>2 DEF dayOfYearFromWeekInfo

\* The parts of a valid date are in range, whatever was given.
LEMMA PartsType ==
  ASSUME NEW given, IntFields(given), NEW rule, NEW useUTC \in BOOLEAN,
         NEW config, config = configFromArray(given, rule, useUTC),
         config.overflow = "none"
  PROVE  /\ config.a.year \in Int /\ config.a.month \in 0 .. 11
         /\ config.a.date \in Int /\ config.a.hour \in 0 .. 24 /\ config.a.minute \in 0 .. 59
<1> DEFINE info == dayOfYearFromWeekInfo(given, rule)
           today == currentDate(useUTC)
           dated == WithDayOfYear(given, info)
           yearToUse == defaults(dated, "year", YearOf(today))
           whole == WithMonthAndDate(dated, yearToUse)
           a == Completed(whole, today)
           inWeeks == IF ByWeek(given) THEN info.overflow ELSE "none"
<1>1. /\ config.a = a
      /\ config.overflow = getOverflow(checkOverflow(a), NoSuchDay(dated, yearToUse), inWeeks)
  BY DEF configFromArray, PartsAndOverflow
<1>2. info.at.year \in Int /\ YearOf(today) \in Int
  BY WeekInfoType, TodayType, YearOfDay
<1> HIDE DEF info, today
<1>3. "year" \in DOMAIN dated => dated["year"] \in Int
  <2> DEFINE more == [year |-> info.at.year, dayOfYear |-> info.at.dayOfYear]
  <2>1. DOMAIN more = {"year", "dayOfYear"} /\ more["year"] = info.at.year
    OBVIOUS
  <2> HIDE DEF more
  <2>2. With(given, more)["year"] = info.at.year
    BY <2>1, WithType
  <2>3. dated = given \/ dated = With(given, more)
    BY DEF WithDayOfYear, more
  <2> QED BY <1>2, <2>2, <2>3 DEF IntFields
<1> HIDE DEF dated, yearToUse
<1>4. "year" \in DOMAIN whole => whole["year"] \in Int
  <2> DEFINE more == [month |-> MonthOf(createUTCDate(yearToUse, 0, dated.dayOfYear)),
                      date |-> DateOf(createUTCDate(yearToUse, 0, dated.dayOfYear))]
  <2>1. DOMAIN more = {"month", "date"}
    OBVIOUS
  <2> HIDE DEF more
  <2>2. "year" \in DOMAIN With(dated, more) =>
          "year" \in DOMAIN dated /\ With(dated, more)["year"] = dated["year"]
    <3>1. DOMAIN With(dated, more) = DOMAIN dated \cup DOMAIN more
      BY WithType, Zenon
    <3>2. "year" \in DOMAIN dated => With(dated, more)["year"] = dated["year"]
      BY <2>1, WithType
    <3> QED BY <2>1, <3>1, <3>2
  <2>3. whole = dated \/ whole = With(dated, more)
    BY DEF WithMonthAndDate, more
  <2> QED BY <1>3, <2>2, <2>3
<1> HIDE DEF whole
<1>5. a.year \in Int
  <2>1. a.year = defaults(whole, "year", YearOf(today))
    BY DEF Completed
  <2> QED BY <1>2, <1>4, <2>1 DEF defaults, Has
<1> HIDE DEF a, inWeeks
<1>6. checkOverflow(a) = "none"
  BY <1>1 DEF getOverflow
<1>7. /\ a.month \in 0 .. 11 /\ a.date \in 1 .. daysInMonth(a.year, a.month)
      /\ a.hour \in 0 .. 24 /\ a.minute \in 0 .. 59
  BY <1>6 DEF checkOverflow
<1>8. a.date \in Int
  <2>1. daysInMonth(a.year, a.month) \in Int
    <3>1. a.month \in Int
      BY <1>7
    <3> QED BY <1>5, <3>1, DaysInMonthType
  <2> QED BY <1>7, <2>1
<1> QED BY <1>1, <1>5, <1>7, <1>8

LEMMA CreateType ==
  ASSUME NEW given0, IntFields(given0), NEW rule \in WeekRule, NEW isUTC \in BOOLEAN
  PROVE  /\ createLocalOrUTC(given0, rule, isUTC) \in Moment
         /\ createLocalOrUTC(given0, rule, isUTC).offset = 0
         /\ createLocalOrUTC(given0, rule, isUTC).isUTC = isUTC
         /\ createLocalOrUTC(given0, rule, isUTC).week = rule
<1>1. PICK given : given = meridiemFixWrap(given0) /\ IntFields(given)
  BY MeridiemType
<1>2. UsesUTC(given, isUTC) \in BOOLEAN
  BY DEF UsesUTC, Has
<1>3. PICK config : config = configFromArray(given, rule, UsesUTC(given, isUTC))
  OBVIOUS
<1> DEFINE clock == ClockOf(config.a)
           mismatch == Has(given, "d") /\ given.d # WeekdayOf(clock \div MinutesPerDay)
           isValid == /\ config.overflow = "none" /\ ~mismatch
                      /\ Has(given, "pm") => DOMAIN given \cap DateParts # {}
           time == (IF UsesUTC(given, isUTC) THEN clock ELSE FromLocal(clock))
                     - defaults(given, "tzm", 0)
           res == [valid |-> isValid, d |-> IF isValid THEN time ELSE 0,
                   isUTC |-> isUTC, offset |-> 0, week |-> rule]
<1>4. config.overflow = "none" => clock \in Int
  <2> SUFFICES ASSUME config.overflow = "none" PROVE clock \in Int
    OBVIOUS
  <2>1. PICK y \in Int, mon \in Int, dt \in Int, h \in Int, min \in Int :
          /\ config.a.year = y /\ config.a.month = mon /\ config.a.date = dt
          /\ config.a.hour = h /\ config.a.minute = min
    <3>1. /\ config.a.year \in Int /\ config.a.month \in 0 .. 11 /\ config.a.date \in Int
          /\ config.a.hour \in 0 .. 24 /\ config.a.minute \in 0 .. 59
      BY <1>1, <1>2, <1>3, PartsType
    <3>2. config.a.month \in Int /\ config.a.hour \in Int /\ config.a.minute \in Int
      BY <3>1
    <3> QED BY <3>1, <3>2, Zenon
  <2>2. createUTCDate(y, mon, dt) \in Int
    <3>1. \A z \in Int : NewDate(z, mon, dt) \in Int
      BY DayNumberType
    <3>2. \A n \in Int : setUTCFullYear(n, y) \in Int
      <4> SUFFICES ASSUME NEW n \in Int PROVE setUTCFullYear(n, y) \in Int
        OBVIOUS
      <4>1. MonthOf(n) \in Int /\ DateOf(n) \in Int
        <5>1. YearOf(n) \in Int /\ MonthOf(n) \in Int
          BY DatesReadBack
        <5>2. daysInMonth(YearOf(n), MonthOf(n)) \in Int
          BY <5>1, DaysInMonthType
        <5> QED BY <5>1, <5>2, DatesReadBack
      <4> QED BY <4>1, DayNumberType DEF setUTCFullYear
    <3>3. y + 400 \in Int
      BY SMT
    <3> QED BY <3>1, <3>2, <3>3 DEF createUTCDate
  <2>3. PICK n \in Int : n = createUTCDate(y, mon, dt)
    BY <2>2
  <2>4. n * 1440 + (IF h = 24 /\ min = 0 THEN 0 ELSE h * 60 + min) \in Int
    BY SMT
  <2> QED BY <2>1, <2>3, <2>4 DEF ClockOf, MinutesPerDay
<1>5. isValid => time \in Int
  <2>1. defaults(given, "tzm", 0) \in Int
    BY <1>1, DefaultsType
  <2> HIDE DEF clock
  <2>2. isValid => clock \in Int
    BY <1>4
  <2> QED BY <1>2, <2>1, <2>2, ZoneType
<1> HIDE DEF time, clock
<1>6. isValid \in BOOLEAN
  BY DEF Has
<1> HIDE DEF isValid
<1>7. res \in Moment /\ res.offset = 0 /\ res.isUTC = isUTC /\ res.week = rule
  BY <1>5, <1>6 DEF Moment
<1>8. createLocalOrUTC(given0, rule, isUTC) = IF config.a.hour = 24 THEN add(res, 1, "day") ELSE res
  BY <1>1, <1>3 DEF createLocalOrUTC, createFromConfig, isValid, time, clock
<1> HIDE DEF res
<1>9. Alike(add(res, 1, "day"), res)
  BY <1>7, AddOneType
<1> QED BY <1>7, <1>8, <1>9 DEF Alike

-----------------------------------------------------------------------------
(***************************************************************************)
(* The invariant: moments and durations are well-typed, only a valid       *)
(* moment not shown in local time has an offset of its own, and a duration *)
(* on which abs was not called shows what it keeps.  That invalid moments  *)
(* have no offset is needed too: local leaves the offset of those alone.   *)
(***************************************************************************)
TypeOK ==
  /\ m \in Moment /\ other \in Moment
  /\ dur \in Duration
  /\ stale \in BOOLEAN /\ calls \in Nat

OffsetIsShown(x) == ~(x.isUTC /\ x.valid) => x.offset = 0

CallsInv ==
  /\ TypeOK
  /\ OffsetIsShown(m)
  /\ ~stale => IsBubbled(dur)

LEMMA InitCallsInv == Init => CallsInv
<1> SUFFICES ASSUME Init PROVE CallsInv
  OBVIOUS
<1>1. m \in Moment /\ m.offset = 0
  <2>1. PICK rule \in WeekRules, isUTC \in BOOLEAN : m = createLocalOrUTC(input, rule, isUTC)
    BY DEF Init
  <2>2. IntFields(input) /\ rule \in WeekRule
    BY <2>1, CallsAssumption DEF Init, IntFields
  <2> QED BY <2>1, <2>2, CreateType
<1>2. other \in Moment
  <2>1. PICK given \in OtherInputs : other = createLocalOrUTC(given, m.week, FALSE)
    BY DEF Init
  <2>2. IntFields(given) /\ m.week \in WeekRule
    BY <1>1, <2>1, CallsAssumption DEF IntFields, Moment
  <2> QED BY <2>1, <2>2, CreateType
<1>3. IsBubbled(dur)
  <2> DEFINE given == [day |-> 0]
  <2>1. \A u \in DOMAIN given : given[u] \in Int
    OBVIOUS
  <2>2. dur = durationBetween(m, other) \/ dur = createDuration(given)
    BY DEF Init
  <2> HIDE DEF given
  <2> QED BY <1>1, <1>2, <2>1, <2>2, BetweenType, CreateDurationType
<1> QED BY <1>1, <1>2, <1>3 DEF Init, CallsInv, TypeOK, OffsetIsShown, IsBubbled

\* A call that changes the moment, to one of the same kind or with an offset.
LEMMA BecomesInv ==
  ASSUME CallsInv, NEW result, Becomes(result),
         result \in Moment, OffsetIsShown(result)
  PROVE  CallsInv'
BY DEF CallsInv, TypeOK, Becomes, Call, IsBubbled, OffsetIsShown

LEMMA AlikeInv ==
  ASSUME CallsInv, NEW result, Becomes(result), Alike(result, m)
  PROVE  CallsInv'
BY BecomesInv DEF CallsInv, OffsetIsShown, Alike

LEMMA LastsInv ==
  ASSUME CallsInv, NEW result, Lasts(result), result \in Duration, stale' \in BOOLEAN,
         stale' \/ IsBubbled(result)
  PROVE  CallsInv'
BY DEF CallsInv, TypeOK, OffsetIsShown, Lasts, Call, IsBubbled

\* A change of the offset shows the moment in UTC, or takes the offset off.
LEMMA OffsetInv ==
  ASSUME CallsInv, NEW offset \in Int, NEW keepLocalTime \in BOOLEAN,
         UtcOffset(offset, keepLocalTime) \/ ToLocal(keepLocalTime) \/ ToUTC(keepLocalTime)
  PROVE  CallsInv'
<1>1. m \in Moment /\ OffsetIsShown(m)
  BY DEF CallsInv, TypeOK
<1>2. /\ setOffset(m, offset, keepLocalTime) \in Moment
      /\ utc(m, keepLocalTime) \in Moment /\ local(m, keepLocalTime) \in Moment
  BY <1>1, OffsetType
<1>3. ASSUME NEW n \in Int, setOffset(m, n, keepLocalTime) \in Moment
      PROVE  OffsetIsShown(setOffset(m, n, keepLocalTime))
  BY <1>1 DEF setOffset, Moment, OffsetIsShown
<1>4. OffsetIsShown(local(m, keepLocalTime))
  <2>1. CASE ~m.isUTC
    BY <1>1, <2>1 DEF local
  <2>2. CASE m.isUTC
    <3>1. PICK u \in Moment : u = setOffset(m, 0, keepLocalTime)
      BY <1>1, OffsetType
    <3>2. u.offset = 0
      <4>1. CASE ~m.valid
        BY <1>1, <3>1, <4>1 DEF setOffset, OffsetIsShown
      <4>2. CASE m.valid
        <5>1. 0 = IF mathAbs(0) < 16 THEN 0 * 60 ELSE 0
          BY SMT
        <5> QED BY <1>1, <3>1, <4>2, <5>1 DEF setOffset, Moment
      <4> QED BY <4>1, <4>2
    <3>3. PICK v \in Moment : v = [u EXCEPT !.isUTC = FALSE] /\ v.offset = 0
      <4>1. [u EXCEPT !.isUTC = FALSE] \in Moment /\ [u EXCEPT !.isUTC = FALSE].offset = u.offset
        BY DEF Moment
      <4> QED BY <3>2, <4>1
    <3>4. local(m, keepLocalTime) \in {v, [v EXCEPT !.d = v.d - LocalOffset(v.d)]}
      <4>1. v = [setOffset(m, 0, keepLocalTime) EXCEPT !.isUTC = FALSE]
        BY <3>1, <3>3
      <4>2. local(m, keepLocalTime)
              = IF keepLocalTime THEN [v EXCEPT !.d = v.d - LocalOffset(v.d)] ELSE v
        BY <2>2, <4>1 DEF local
      <4> QED BY <4>2
    <3> QED BY <3>3, <3>4 DEF OffsetIsShown, Moment
  <2> QED BY <2>1, <2>2
<1> QED BY <1>2, <1>3, <1>4, BecomesInv DEF UtcOffset, ToLocal, ToUTC, utc

LEMMA NextCallsInv == CallsInv /\ [Next]_vars => CallsInv'
<1> SUFFICES ASSUME CallsInv, [Next]_vars PROVE CallsInv'
  OBVIOUS
<1>1. m \in Moment /\ other \in Moment /\ dur \in Duration
  BY DEF CallsInv, TypeOK
<1>2. ASSUME NEW unit \in UnitsOfTime, StartOf(unit) \/ EndOf(unit) PROVE CallsInv'
  BY <1>1, <1>2, StartEndType, AlikeInv DEF StartOf, EndOf
<1>3. ASSUME NEW value \in Int, Month(value) \/ Year(value) \/ Hour(value) PROVE CallsInv'
  BY <1>1, <1>3, SetType, AlikeInv DEF Month, Year, Hour
<1>4. ASSUME NEW keepLocalTime \in BOOLEAN,
             \/ \E offset \in Offsets : UtcOffset(offset, keepLocalTime)
             \/ ToLocal(keepLocalTime) \/ ToUTC(keepLocalTime)
      PROVE  CallsInv'
  <2>1. PICK offset \in Int :
          UtcOffset(offset, keepLocalTime) \/ ToLocal(keepLocalTime) \/ ToUTC(keepLocalTime)
    BY <1>4, CallsAssumption
  <2> QED BY <2>1, OffsetInv
<1>5. CASE Between
  BY <1>1, <1>5, BetweenType, LastsInv DEF Between, IsBubbled
<1>6. ASSUME NEW given \in Durations, NEW dir \in {-1, 1}, Add(given, dir) \/ Lengthen(given, dir)
      PROVE  CallsInv'
  <2>1. createDuration(given) \in Duration
    BY CallsAssumption, CreateDurationType DEF IsBubbled
  <2>2. CASE Add(given, dir)
    <3>1. Alike(addSubtract(m, createDuration(given), dir), m)
      BY <1>1, <2>1, AddType DEF Duration
    <3> QED BY <2>2, <3>1, AlikeInv DEF Add
  <2>3. CASE Lengthen(given, dir)
    BY <1>1, <2>1, <2>3, LengthenType, LastsInv DEF Lengthen, IsBubbled
  <2> QED BY <1>6, <2>2, <2>3
<1>7. CASE Abs
  BY <1>1, <1>7, AbsType, LastsInv DEF Abs
<1>8. CASE UNCHANGED vars
  BY <1>8 DEF vars, CallsInv, TypeOK, OffsetIsShown, IsBubbled
<1>9. 2021 \in Int /\ 2 \in Int /\ {1, 11} \subseteq Int
  OBVIOUS
<1> QED BY <1>2, <1>3, <1>4, <1>5, <1>6, <1>7, <1>8, <1>9 DEF Next

LEMMA CallsInvariance == Spec => []CallsInv
BY InitCallsInv, NextCallsInv, PTL DEF Spec

(***************************************************************************)
(* Whatever is called, moments stay moments and durations durations:       *)
(* every part of them is a number, and an offset that is not shown is      *)
(* zero.                                                                   *)
(***************************************************************************)
THEOREM MomentsStayMoments == Spec => [](TypeOK /\ OffsetIsShown(m))
<1>1. CallsInv => TypeOK /\ OffsetIsShown(m)
  BY DEF CallsInv
<1> QED BY <1>1, CallsInvariance, PTL

-----------------------------------------------------------------------------
(***************************************************************************)
(* What a duration shows.                                                  *)
(***************************************************************************)
\* What bubbling up leaves of each unit, of numbers that are not negative.
LEMMA BubbledNumbers ==
  ASSUME NEW ms \in Nat, NEW ds \in Nat, NEW ns \in Nat
  PROVE  \E h \in Nat, q \in Nat, f \in Nat, c \in Nat, y \in Nat :
           /\ h = ns \div 60 /\ q = h \div 24 /\ f = ((ds + q) * 1600) \div 48699
           /\ c = -((-(f * 48699)) \div 1600) /\ y = (ms + f) \div 12
           /\ ns - 60 * h \in 0 .. 59 /\ h - 24 * q \in 0 .. 23
           /\ (ds + q) - c \in 0 .. 30 /\ (ms + f) - 12 * y \in 0 .. 11
<1>1. PICK h \in Nat : h = ns \div 60 /\ ns - 60 * h \in 0 .. 59
  <2>1. ns \div 60 \in Nat /\ ns - 60 * (ns \div 60) \in 0 .. 59
    BY SMT
  <2> QED BY <2>1
<1>2. PICK q \in Nat : q = h \div 24 /\ h - 24 * q \in 0 .. 23
  <2>1. h \div 24 \in Nat /\ h - 24 * (h \div 24) \in 0 .. 23
    BY SMT
  <2> QED BY <2>1
<1>3. PICK a \in Nat : a = ds + q
  OBVIOUS
<1>4. PICK f \in Nat : /\ f = (a * 1600) \div 48699
                       /\ 48699 * f <= 1600 * a /\ 1600 * a < 48699 * f + 48699
  <2>1. /\ (a * 1600) \div 48699 \in Nat
        /\ 48699 * ((a * 1600) \div 48699) <= 1600 * a
        /\ 1600 * a < 48699 * ((a * 1600) \div 48699) + 48699
    BY SMT
  <2> QED BY <2>1, SMT
<1>5. PICK c \in Nat : /\ c = -((-(f * 48699)) \div 1600)
                       /\ 1600 * c < 48699 * f + 1600 /\ 48699 * f <= 1600 * c
  <2>1. PICK x \in Int : x = (-(f * 48699)) \div 1600
    BY SMT
  <2>2. 1600 * x <= -(f * 48699) /\ -(f * 48699) < 1600 * x + 1600
    BY <2>1, SMT
  <2>3. -x \in Nat /\ 1600 * (-x) < 48699 * f + 1600 /\ 48699 * f <= 1600 * (-x)
    BY <2>2, SMT
  <2> QED BY <2>1, <2>3, SMT
<1>6. PICK y \in Nat : y = (ms + f) \div 12 /\ (ms + f) - 12 * y \in 0 .. 11
  <2>1. (ms + f) \div 12 \in Nat /\ (ms + f) - 12 * ((ms + f) \div 12) \in 0 .. 11
    BY SMT
  <2> QED BY <2>1
<1>7. a - c \in 0 .. 30
  BY <1>4, <1>5, SMT
<1> QED BY <1>1, <1>2, <1>3, <1>4, <1>5, <1>6, <1>7, SMT

\* A duration as it is shown: in range, and as long as what is kept.
IsShown(b, sign, ms, ds, ns) ==
  /\ sign * b.years >= 0 /\ sign * b.months \in 0 .. 11 /\ sign * b.days \in 0 .. 30
  /\ sign * b.hours \in 0 .. 23 /\ sign * b.minutes \in 0 .. 59
  /\ 60 * (24 * (b.days + DaysOfMonthsCeil((12 * b.years + b.months) - ms)) + b.hours)
       + b.minutes = ds * MinutesPerDay + ns

LEMMA BubbleUpNumbers ==
  ASSUME NEW ms \in Nat, NEW ds \in Nat, NEW ns \in Nat, NEW sign \in {-1, 1}
  PROVE  /\ BubbleUp(sign * ms, sign * ds, sign * ns) \in Data
         /\ IsShown(BubbleUp(sign * ms, sign * ds, sign * ns), sign, sign * ms, sign * ds, sign * ns)
<1>1. PICK h \in Nat, q \in Nat, f \in Nat, c \in Nat, y \in Nat :
        /\ h = ns \div 60 /\ q = h \div 24 /\ f = ((ds + q) * 1600) \div 48699
        /\ c = -((-(f * 48699)) \div 1600) /\ y = (ms + f) \div 12
        /\ ns - 60 * h \in 0 .. 59 /\ h - 24 * q \in 0 .. 23
        /\ (ds + q) - c \in 0 .. 30 /\ (ms + f) - 12 * y \in 0 .. 11
  BY BubbledNumbers, SMT
<1>2. PICK a \in Nat, b \in Nat : a = ds + q /\ b = ms + f
  OBVIOUS
<1>3. absFloor(sign * ns, 60) = sign * h
  BY <1>1, SMT DEF absFloor
<1>4. absFloor(sign * h, 24) = sign * q
  BY <1>1, SMT DEF absFloor
<1>5. sign * ds + sign * q = sign * a /\ sign * ms + sign * f = sign * b
  BY <1>2, SMT
<1>6. MonthsOfDays(sign * a) = sign * f
  BY <1>1, <1>2, SMT DEF MonthsOfDays, absFloor
<1>7. DaysOfMonthsCeil(sign * f) = sign * c
  BY <1>1, SMT DEF DaysOfMonthsCeil, absCeil
<1>8. absFloor(sign * b, 12) = sign * y
  BY <1>1, <1>2, SMT DEF absFloor
<1> DEFINE shown == BubbleUp(sign * ms, sign * ds, sign * ns)
<1>9. shown = [years |-> sign * y, months |-> sign * b - 12 * (sign * y),
               days |-> sign * a - sign * c, hours |-> sign * h - 24 * (sign * q),
               minutes |-> sign * ns - 60 * (sign * h)]
  BY <1>3, <1>4, <1>5, <1>6, <1>7, <1>8, Zenon DEF BubbleUp
<1> HIDE DEF shown
<1>10. /\ shown.years = sign * y /\ shown.months = sign * (b - 12 * y)
       /\ shown.days = sign * (a - c) /\ shown.hours = sign * (h - 24 * q)
       /\ shown.minutes = sign * (ns - 60 * h)
  BY <1>9, SMT
<1>11. shown \in Data
  <2>1. /\ sign * y \in Int /\ sign * b - 12 * (sign * y) \in Int
        /\ sign * a - sign * c \in Int /\ sign * h - 24 * (sign * q) \in Int
        /\ sign * ns - 60 * (sign * h) \in Int
    BY SMT
  <2> QED BY <1>9, <2>1 DEF Data
<1>12. \A n \in Int : sign * (sign * n) = n
  BY SMT
<1>13. /\ sign * shown.years >= 0 /\ sign * shown.months \in 0 .. 11
       /\ sign * shown.days \in 0 .. 30 /\ sign * shown.hours \in 0 .. 23
       /\ sign * shown.minutes \in 0 .. 59
  <2>1. /\ sign * shown.years = y /\ sign * shown.months = b - 12 * y
        /\ sign * shown.days = a - c /\ sign * shown.hours = h - 24 * q
        /\ sign * shown.minutes = ns - 60 * h
    BY <1>10, <1>12
  <2> QED BY <1>1, <1>2, <2>1
<1>14. DaysOfMonthsCeil((12 * shown.years + shown.months) - sign * ms) = sign * c
  <2>1. (12 * shown.years + shown.months) - sign * ms = sign * f
    BY <1>2, <1>10, SMT
  <2> QED BY <1>7, <2>1
<1>15. 60 * (24 * (shown.days + sign * c) + shown.hours) + shown.minutes
         = (sign * ds) * MinutesPerDay + sign * ns
  BY <1>2, <1>10, SMT DEF MinutesPerDay
<1> QED BY <1>11, <1>13, <1>14, <1>15, Zenon DEF IsShown, shown

LEMMA SignOfNumber ==
  ASSUME NEW n \in Int
  PROVE  /\ n >= 0 => n = 1 * n /\ n \in Nat
         /\ n <= 0 => n = (-1) * (-n) /\ -n \in Nat
BY SMT

\* Amounts of one sign are bubbled up as they are, others as a single number.
LEMMA BubbleShows ==
  ASSUME NEW months \in Int, NEW days \in Int, NEW minutes \in Int
  PROVE  \E sign \in {-1, 1}, ms \in Int, ds \in Int, ns \in Int :
           /\ IsShown(Bubble(months, days, minutes), sign, ms, ds, ns)
           /\ SameSign({months, days, minutes}) => ms = months /\ ds = days /\ ns = minutes
<1>1. CASE SameSign({months, days, minutes})
  <2>1. Bubble(months, days, minutes) = BubbleUp(months, days, minutes)
    BY <1>1 DEF Bubble
  <2>2. PICK sign \in {-1, 1}, ms \in Nat, ds \in Nat, ns \in Nat :
          months = sign * ms /\ days = sign * ds /\ minutes = sign * ns
    <3>1. CASE months >= 0 /\ days >= 0 /\ minutes >= 0
      BY <3>1, SignOfNumber
    <3>2. CASE months <= 0 /\ days <= 0 /\ minutes <= 0
      <4>1. /\ months = (-1) * (-months) /\ days = (-1) * (-days)
            /\ minutes = (-1) * (-minutes)
            /\ -months \in Nat /\ -days \in Nat /\ -minutes \in Nat
        BY <3>2, SignOfNumber
      <4>2. -1 \in {-1, 1}
        OBVIOUS
      <4> QED BY <4>1, <4>2
    <3> QED BY <1>1, <3>1, <3>2 DEF SameSign
  <2>3. IsShown(BubbleUp(months, days, minutes), sign, months, days, minutes)
    BY <2>2, BubbleUpNumbers
  <2> QED BY <2>1, <2>3
<1>2. CASE ~SameSign({months, days, minutes})
  <2>1. PICK t \in Int :
          t = minutes + absCeil(months * 48699 + days * 1600, 1600) * MinutesPerDay
    <3>1. PICK n \in Int : n = months * 48699 + days * 1600 BY SMT
    <3>2. absCeil(n, 1600) \in Int BY QuotientType
    <3>3. minutes + absCeil(n, 1600) * MinutesPerDay \in Int
      BY <3>2, SMT DEF MinutesPerDay
    <3> QED BY <3>1, <3>3, SMT
  <2>2. Bubble(months, days, minutes) = BubbleUp(0, 0, t)
    BY <1>2, <2>1, SMT DEF Bubble
  <2>3. PICK sign \in {-1, 1}, ns \in Nat : t = sign * ns
    BY SignOfNumber
  <2>4. sign * 0 = 0
    BY SMT
  <2>5. IsShown(BubbleUp(sign * 0, sign * 0, sign * ns), sign, sign * 0, sign * 0, sign * ns)
    BY BubbleUpNumbers
  <2>6. IsShown(BubbleUp(0, 0, t), sign, 0, 0, t)
    BY <2>3, <2>4, <2>5
  <2> QED BY <1>2, <2>2, <2>6
<1> QED BY <1>1, <1>2

LEMMA DurationShows ==
  ASSUME NEW d, IsBubbled(d)
  PROVE  /\ SameSign({d.data[f] : f \in DOMAIN d.data})
         /\ mathAbs(d.data.months) < 12 /\ mathAbs(d.data.days) <= 30
         /\ mathAbs(d.data.hours) < 24 /\ mathAbs(d.data.minutes) < 60
         /\ SameSign({d.months, d.days, d.minutes}) =>
              60 * (24 * (d.data.days + DaysOfMonthsCeil((12 * d.data.years + d.data.months) - d.months))
                     + d.data.hours) + d.data.minutes = d.days * MinutesPerDay + d.minutes
<1>1. /\ d.months \in Int /\ d.days \in Int /\ d.minutes \in Int /\ d.data \in Data
      /\ d.data = Bubble(d.months, d.days, d.minutes)
  BY DEF IsBubbled, Duration
<1>2. PICK data \in Data : data = d.data
  BY <1>1
<1>3. PICK sign \in {-1, 1}, ms \in Int, ds \in Int, ns \in Int :
        /\ IsShown(data, sign, ms, ds, ns)
        /\ SameSign({d.months, d.days, d.minutes}) =>
             ms = d.months /\ ds = d.days /\ ns = d.minutes
  BY <1>1, <1>2, BubbleShows
<1>4. /\ data.years \in Int /\ data.months \in Int /\ data.days \in Int
      /\ data.hours \in Int /\ data.minutes \in Int
      /\ DOMAIN data = {"years", "months", "days", "hours", "minutes"}
  BY DEF Data
<1>5. /\ sign * data.years >= 0 /\ sign * data.months \in 0 .. 11
      /\ sign * data.days \in 0 .. 30 /\ sign * data.hours \in 0 .. 23
      /\ sign * data.minutes \in 0 .. 59
  BY <1>3 DEF IsShown
<1>6. /\ mathAbs(data.months) < 12 /\ mathAbs(data.days) <= 30
      /\ mathAbs(data.hours) < 24 /\ mathAbs(data.minutes) < 60
  BY <1>4, <1>5, SMT DEF mathAbs
<1>7. SameSign({data[f] : f \in DOMAIN data})
  <2>1. CASE sign = 1
    <3>1. \A f \in DOMAIN data : data[f] >= 0
      BY <1>4, <1>5, <2>1, SMT
    <3> QED BY <3>1 DEF SameSign
  <2>2. CASE sign = -1
    <3>1. \A f \in DOMAIN data : data[f] <= 0
      BY <1>4, <1>5, <2>2, SMT
    <3> QED BY <3>1 DEF SameSign
  <2> QED BY <2>1, <2>2
<1>8. SameSign({d.months, d.days, d.minutes}) =>
        60 * (24 * (data.days + DaysOfMonthsCeil((12 * data.years + data.months) - d.months))
               + data.hours) + data.minutes = d.days * MinutesPerDay + d.minutes
  BY <1>3, Zenon DEF IsShown
<1> QED BY <1>2, <1>6, <1>7, <1>8

-----------------------------------------------------------------------------
(***************************************************************************)
(* The ISO form, read back.                                                *)
(***************************************************************************)
\* The sign that a part is written with, in a text with the sign of t.
Own(n, t) == IF SignOf(n) # SignOf(t) THEN -1 ELSE 1

\* A number with the sign of the whole, and one of its own if it differs.
LEMMA SignedParts ==
  ASSUME NEW n \in Int, NEW t \in Int, t # 0
  PROVE  /\ (Own(n, t) * mathAbs(n)) * SignOf(t) = n
         /\ \A k \in {12, 60} :
              /\ (Own(n, t) * (mathAbs(n) \div k)) * SignOf(t) \in Int
              /\ (Own(n, t) * (mathAbs(n) % k)) * SignOf(t) \in Int
              /\ ((Own(n, t) * (mathAbs(n) % k)) * SignOf(t)) + ((Own(n, t) * (mathAbs(n) \div k)) * SignOf(t)) * k = n
<1>0. PICK own : own = Own(n, t)
  OBVIOUS
<1>1. PICK a \in Nat : a = mathAbs(n)
  BY SMT DEF mathAbs
<1>2. own \in {-1, 1} /\ SignOf(t) \in {-1, 1}
  BY <1>0, SMT DEF Own, SignOf
<1>3. PICK s \in {-1, 1} : s = SignOf(t)
  BY <1>2
<1>4. (own * a) * s = n
  BY <1>0, <1>1, <1>2, <1>3, SMT DEF Own, SignOf, mathAbs
<1>5. ASSUME NEW k \in {12, 60}
      PROVE  /\ (own * (a \div k)) * s \in Int /\ (own * (a % k)) * s \in Int
             /\ ((own * (a % k)) * s) + ((own * (a \div k)) * s) * k = n
  <2>1. PICK q \in Int, r \in Int : q = a \div k /\ r = a % k /\ a = k * q + r
    <3>1. a \div k \in Int /\ a % k \in Int /\ a = k * (a \div k) + (a % k)
      BY SMT
    <3> QED BY <3>1
  <2>2. (own * q) * s \in Int /\ (own * r) * s \in Int
    BY <1>2, SMT
  <2>3. ((own * r) * s) + ((own * q) * s) * k = (own * (k * q + r)) * s
    BY <1>2, SMT
  <2> QED BY <1>4, <2>1, <2>2, <2>3
<1> QED BY <1>0, <1>1, <1>2, <1>3, <1>4, <1>5

LEMMA ISOStringReadsBack ==
  ASSUME NEW d \in Duration, as(d, "minute")[1] # 0
  PROVE  [ReadISOString(toISOString(d)) EXCEPT !.data = d.data] = d
<1>1. d.months \in Int /\ d.days \in Int /\ d.minutes \in Int /\ d.data \in Data
  BY DEF Duration
<1>2. PICK t \in Int : t = as(d, "minute")[1]
  <2>1. Rounded(d.months * 48699, 1600) \in Int
    <3>1. PICK n \in Int : n = d.months * 48699 BY <1>1, SMT
    <3>2. Rounded(n, 1600) \in Int BY SMT DEF Rounded
    <3> QED BY <3>1, <3>2, SMT
  <2>2. (d.days + Rounded(d.months * 48699, 1600)) * MinutesPerDay + d.minutes \in Int
    BY <1>1, <2>1, SMT DEF MinutesPerDay
  <2> DEFINE total == (d.days + Rounded(d.months * 48699, 1600)) * MinutesPerDay + d.minutes
  <2>3. total \in Int
    BY <2>2, SMT
  <2>4. as(d, "minute")[1] = total
    BY SMT DEF as, DaysAs
  <2> HIDE DEF total
  <2> QED BY <2>3, <2>4, Zenon
<1>3. t # 0
  BY <1>2
<1> DEFINE sign == SignOf(t)
           y == Own(d.months, t) * (mathAbs(d.months) \div 12)
           mon == Own(d.months, t) * (mathAbs(d.months) % 12)
           dt == Own(d.days, t) * mathAbs(d.days)
           h == Own(d.minutes, t) * (mathAbs(d.minutes) \div 60)
           min == Own(d.minutes, t) * (mathAbs(d.minutes) % 60)
           parts == [year |-> y, month |-> mon, day |-> dt, hour |-> h, minute |-> min]
<1>4. toISOString(d) = [sign |-> sign, parts |-> parts]
  BY <1>2, <1>3, Zenon DEF toISOString, Own
<1>5. /\ mon * sign \in Int /\ y * sign \in Int /\ (mon * sign) + (y * sign) * 12 = d.months
      /\ dt * sign = d.days
      /\ min * sign \in Int /\ h * sign \in Int
      /\ (min * sign) + (h * sign) * 60 = d.minutes
  <2>1. \A n \in Int :
          /\ (Own(n, t) * mathAbs(n)) * SignOf(t) = n
          /\ \A k \in {12, 60} :
               /\ (Own(n, t) * (mathAbs(n) \div k)) * SignOf(t) \in Int
               /\ (Own(n, t) * (mathAbs(n) % k)) * SignOf(t) \in Int
               /\ ((Own(n, t) * (mathAbs(n) % k)) * SignOf(t))
                    + ((Own(n, t) * (mathAbs(n) \div k)) * SignOf(t)) * k = n
    BY <1>3, SignedParts
  <2>2. y * sign \in Int /\ mon * sign \in Int /\ (mon * sign) + (y * sign) * 12 = d.months
    BY <1>1, <2>1, Zenon
  <2>3. dt * sign = d.days
    BY <1>1, <2>1, Zenon
  <2>4. h * sign \in Int /\ min * sign \in Int /\ (min * sign) + (h * sign) * 60 = d.minutes
    BY <1>1, <2>1, Zenon
  <2> QED BY <2>2, <2>3, <2>4
<1> HIDE DEF y, mon, dt, h, min, sign
<1> DEFINE given == [u \in {"year", "month", "day", "hour", "minute"} |-> parts[u] * sign]
<1>6. /\ Amount(given, "year") = y * sign /\ Amount(given, "month") = mon * sign
      /\ Amount(given, "day") = dt * sign /\ Amount(given, "hour") = h * sign
      /\ Amount(given, "minute") = min * sign
      /\ Amount(given, "quarter") = 0 /\ Amount(given, "week") = 0
  BY DEF Amount
<1>7. ReadISOString(toISOString(d)) = createDuration(given)
  <2>1. DOMAIN parts = {"year", "month", "day", "hour", "minute"}
    OBVIOUS
  <2> QED BY <1>4, <2>1 DEF ReadISOString
<1> HIDE DEF given
<1>8. /\ Kept(given).months = d.months /\ Kept(given).days = d.days
      /\ Kept(given).minutes = d.minutes
  BY <1>1, <1>5, <1>6 DEF Kept
<1>9. createDuration(given) = [months |-> d.months, days |-> d.days, minutes |-> d.minutes,
                               data |-> Bubble(d.months, d.days, d.minutes)]
  BY <1>8 DEF createDuration, Bubbled
<1> QED BY <1>7, <1>9 DEF Duration

-----------------------------------------------------------------------------
(***************************************************************************)
(* How a duration is said.                                                 *)
(***************************************************************************)
\* The average month and year, in tenths of minutes.
MonthLength == 438291
YearLength  == 12 * 438291

\* Rounding a number p of k-ths gives r.
RoundsTo(p, k, r) == r \in Int /\ k * (2 * r - 1) <= 2 * p /\ 2 * p < k * (2 * r + 1)

LEMMA RoundedIs ==
  ASSUME NEW p \in Int
  PROVE  RoundsTo(p, 1600, Rounded(p, 1600))
BY SMT DEF Rounded, RoundsTo

\* A length in minutes, whose months count as whole days, in tenths of
\* minutes, whose months do not, and rounded to every unit.
IsLength(total, tenths, hours, days, months, years) ==
  /\ total \in Nat /\ tenths \in Nat
  /\ tenths <= 10 * total + 7200 /\ 10 * total <= tenths + 7200
  /\ RoundsTo(total, 60, hours) /\ RoundsTo(total, MinutesPerDay, days)
  /\ RoundsTo(tenths, MonthLength, months) /\ RoundsTo(tenths, YearLength, years)

\* What is said of it, in minutes.
Saying(total, hours, days, months, years) ==
  IF total < 45 THEN total
  ELSE IF hours < 22 THEN 60 * hours
  ELSE IF days < 26 THEN 1440 * days
  ELSE IF months < 11 THEN 43200 * months
  ELSE 525600 * years

\* No unit is said that is less than half reached, so that none is said as
\* one where none is there.
LEMMA AtLeastOne ==
  ASSUME NEW total, NEW tenths, NEW hours, NEW days, NEW months, NEW years,
         IsLength(total, tenths, hours, days, months, years)
  PROVE  /\ total >= 45 => hours >= 1
         /\ hours >= 22 => days >= 1
         /\ days >= 26 => months >= 1
         /\ months >= 11 => years >= 1
BY SMT DEF IsLength, RoundsTo, MonthLength, YearLength, MinutesPerDay

LEMMA SayingNear ==
  ASSUME NEW total, NEW tenths, NEW hours, NEW days, NEW months, NEW years,
         IsLength(total, tenths, hours, days, months, years)
  PROVE  /\ Saying(total, hours, days, months, years) \in Int
         /\ 2 * Saying(total, hours, days, months, years) <= 3 * total + 1
         /\ total <= 2 * Saying(total, hours, days, months, years) + 1
<1> DEFINE said == Saying(total, hours, days, months, years)
<1>1. CASE total < 45
  BY <1>1, SMT DEF IsLength, RoundsTo, Saying, MonthLength, YearLength, MinutesPerDay
<1>2. CASE total >= 45 /\ hours < 22
  BY <1>2, AtLeastOne, SMT DEF IsLength, RoundsTo, Saying, MonthLength, YearLength, MinutesPerDay
<1>3. CASE total >= 45 /\ hours >= 22 /\ days < 26
  BY <1>3, AtLeastOne, SMT DEF IsLength, RoundsTo, Saying, MonthLength, YearLength, MinutesPerDay
<1>4. CASE total >= 45 /\ hours >= 22 /\ days >= 26 /\ months < 11
  BY <1>4, AtLeastOne, SMT DEF IsLength, RoundsTo, Saying, MonthLength, YearLength, MinutesPerDay
<1>5. CASE total >= 45 /\ hours >= 22 /\ days >= 26 /\ months >= 11
  BY <1>5, AtLeastOne, SMT DEF IsLength, RoundsTo, Saying, MonthLength, YearLength, MinutesPerDay
<1> QED BY <1>1, <1>2, <1>3, <1>4, <1>5, SMT DEF IsLength, RoundsTo, MonthLength, YearLength, MinutesPerDay

LEMMA SayingInOrder ==
  ASSUME NEW total, NEW tenths, NEW hours, NEW days, NEW months, NEW years,
         IsLength(total, tenths, hours, days, months, years),
         NEW total2, NEW tenths2, NEW hours2, NEW days2, NEW months2, NEW years2,
         IsLength(total2, tenths2, hours2, days2, months2, years2),
         total <= total2, tenths <= tenths2
  PROVE  Saying(total, hours, days, months, years)
           <= Saying(total2, hours2, days2, months2, years2)
<1>1. /\ total \in Int /\ hours \in Int /\ days \in Int /\ months \in Int /\ years \in Int
      /\ total2 \in Int /\ hours2 \in Int /\ days2 \in Int /\ months2 \in Int /\ years2 \in Int
  BY SMT DEF IsLength, RoundsTo, MonthLength, YearLength, MinutesPerDay
<1>2. hours <= hours2 /\ days <= days2 /\ months <= months2 /\ years <= years2
  <2>1. hours <= hours2 BY SMT DEF IsLength, RoundsTo, MonthLength, YearLength, MinutesPerDay
  <2>2. days <= days2 BY SMT DEF IsLength, RoundsTo, MonthLength, YearLength, MinutesPerDay
  <2>3. months <= months2 BY SMT DEF IsLength, RoundsTo, MonthLength, YearLength, MinutesPerDay
  <2>4. years <= years2 BY SMT DEF IsLength, RoundsTo, MonthLength, YearLength, MinutesPerDay
  <2> QED BY <2>1, <2>2, <2>3, <2>4
<1>3. /\ total2 >= 45 => hours2 >= 1
      /\ hours2 >= 22 => days2 >= 1
      /\ days2 >= 26 => months2 >= 1
      /\ months2 >= 11 => years2 >= 1
  BY AtLeastOne, Zenon
<1> QED BY <1>1, <1>2, <1>3, SMT DEF Saying

\* Its length in minutes, and in tenths of minutes.
Total(months, days, minutes)  == (days + Rounded(months * 48699, 1600)) * 1440 + minutes
Tenths(months, days, minutes) == months * 438291 + 10 * (days * 1440 + minutes)

LEMMA TotalIs ==
  ASSUME NEW a \in Nat, NEW b \in Nat, NEW c \in Nat
  PROVE  /\ Total(a, b, c) \in Nat /\ Tenths(a, b, c) \in Nat
         /\ Tenths(a, b, c) <= 10 * Total(a, b, c) + 7200
         /\ 10 * Total(a, b, c) <= Tenths(a, b, c) + 7200
<1>1. a * 48699 \in Int
  BY SMT
<1>2. RoundsTo(a * 48699, 1600, Rounded(a * 48699, 1600))
  BY <1>1, RoundedIs, SMT
<1>3. PICK r \in Int : r = Rounded(a * 48699, 1600)
  BY <1>2, SMT DEF RoundsTo, MonthLength, YearLength, MinutesPerDay
<1>4. 1600 * (2 * r - 1) <= 2 * (a * 48699) /\ 2 * (a * 48699) < 1600 * (2 * r + 1)
  BY <1>2, <1>3, SMT DEF RoundsTo, MonthLength, YearLength, MinutesPerDay
<1>5. Total(a, b, c) = (b + r) * 1440 + c
  BY <1>3, SMT DEF Total
<1> QED BY <1>4, <1>5, SMT DEF Tenths

LEMMA TotalInOrder ==
  ASSUME NEW a \in Nat, NEW b \in Nat, NEW c \in Nat,
         NEW a2 \in Nat, NEW b2 \in Nat, NEW c2 \in Nat
  PROVE  /\ Total(a, b, c) <= Total(a + a2, b + b2, c + c2)
         /\ Tenths(a, b, c) <= Tenths(a + a2, b + b2, c + c2)
<1>1. a * 48699 \in Int /\ (a + a2) * 48699 \in Int
  BY SMT
<1>2. /\ RoundsTo(a * 48699, 1600, Rounded(a * 48699, 1600))
      /\ RoundsTo((a + a2) * 48699, 1600, Rounded((a + a2) * 48699, 1600))
  BY <1>1, RoundedIs, SMT
<1>3. PICK r \in Int : r = Rounded(a * 48699, 1600)
  BY <1>2, SMT DEF RoundsTo, MonthLength, YearLength, MinutesPerDay
<1>4. PICK r2 \in Int : r2 = Rounded((a + a2) * 48699, 1600)
  BY <1>2, SMT DEF RoundsTo, MonthLength, YearLength, MinutesPerDay
<1>5. r <= r2
  <2>1. 1600 * (2 * r - 1) <= 2 * (a * 48699)
    BY <1>2, <1>3, SMT DEF RoundsTo, MonthLength, YearLength, MinutesPerDay
  <2>2. 2 * ((a + a2) * 48699) < 1600 * (2 * r2 + 1)
    BY <1>2, <1>4, SMT DEF RoundsTo, MonthLength, YearLength, MinutesPerDay
  <2> QED BY <2>1, <2>2, SMT
<1>6. Total(a, b, c) = (b + r) * 1440 + c
  BY <1>3, SMT DEF Total
<1>7. Total(a + a2, b + b2, c + c2) = ((b + b2) + r2) * 1440 + (c + c2)
  BY <1>4, SMT DEF Total
<1> QED BY <1>5, <1>6, <1>7, SMT DEF Tenths

LEMMA RoundIs ==
  ASSUME NEW x, NEW unit, NEW p \in Int, as(x, unit)[1] = p
  PROVE  /\ as(x, unit)[2] = 1 => Round(x, unit) = p
         /\ as(x, unit)[2] = 60 => RoundsTo(p, 60, Round(x, unit))
         /\ as(x, unit)[2] = MinutesPerDay => RoundsTo(p, MinutesPerDay, Round(x, unit))
         /\ as(x, unit)[2] = MonthLength => RoundsTo(p, MonthLength, Round(x, unit))
         /\ as(x, unit)[2] = YearLength => RoundsTo(p, YearLength, Round(x, unit))
<1>1. PICK k : k = as(x, unit)[2]
  OBVIOUS
<1>2. PICK r : r = Round(x, unit)
  OBVIOUS
<1>3. r = Rounded(p, k)
  BY <1>1, <1>2, Zenon DEF Round
<1>4. k = 1 => r = p
  BY <1>3, SMT DEF Rounded, RoundsTo, MonthLength, YearLength, MinutesPerDay
<1>5. k = 60 => RoundsTo(p, 60, r)
  BY <1>3, SMT DEF Rounded, RoundsTo, MonthLength, YearLength, MinutesPerDay
<1>6. k = MinutesPerDay => RoundsTo(p, MinutesPerDay, r)
  BY <1>3, SMT DEF Rounded, RoundsTo, MonthLength, YearLength, MinutesPerDay
<1>7. k = MonthLength => RoundsTo(p, MonthLength, r)
  BY <1>3, SMT DEF Rounded, RoundsTo, MonthLength, YearLength, MinutesPerDay
<1>8. k = YearLength => RoundsTo(p, YearLength, r)
  BY <1>3, SMT DEF Rounded, RoundsTo, MonthLength, YearLength, MinutesPerDay
<1> QED BY <1>1, <1>2, <1>4, <1>5, <1>6, <1>7, <1>8, Zenon

Positive(x) == x.months \in Nat /\ x.days \in Nat /\ x.minutes \in Nat
TotalOf(x)  == Total(x.months, x.days, x.minutes)
TenthsOf(x) == Tenths(x.months, x.days, x.minutes)

LEMMA SaidIs ==
  ASSUME NEW d, Positive(abs(d))
  PROVE  /\ as(abs(d), "minute")[1] = TotalOf(abs(d))
         /\ \E h, dt, mon, y :
              /\ IsLength(TotalOf(abs(d)), TenthsOf(abs(d)), h, dt, mon, y)
              /\ Said(d) = Saying(TotalOf(abs(d)), h, dt, mon, y)
<1>1. PICK x : x = abs(d)
  OBVIOUS
<1>a. PICK a, b, c : a = x.months /\ b = x.days /\ c = x.minutes
  OBVIOUS
<1>b. a \in Nat /\ b \in Nat /\ c \in Nat
  BY <1>1, <1>a DEF Positive
<1>2. PICK t : t = Total(a, b, c)
  OBVIOUS
<1>3. PICK n : n = Tenths(a, b, c)
  OBVIOUS
<1>4. t \in Nat /\ n \in Nat /\ t \in Int /\ n \in Int
  <2>1. t \in Nat /\ n \in Nat
    BY <1>2, <1>3, <1>b, TotalIs, SMT
  <2> QED BY <2>1, SMT
<1>5. /\ as(x, "minute")[1] = t /\ as(x, "minute")[2] = 1
      /\ as(x, "hour")[1] = t /\ as(x, "hour")[2] = 60
      /\ as(x, "day")[1] = t /\ as(x, "day")[2] = MinutesPerDay
  BY <1>a, <1>2, SMT DEF as, DaysAs, Total, MinutesPerDay
<1>6. /\ as(x, "month")[1] = n /\ as(x, "month")[2] = MonthLength
      /\ as(x, "year")[1] = n /\ as(x, "year")[2] = YearLength
  BY <1>a, <1>3, SMT DEF as, MonthsAs, Tenths, MinutesPerDay, MonthLength, YearLength
<1>7. PICK h : h = Round(x, "hour")
  OBVIOUS
<1>8. PICK dt : dt = Round(x, "day")
  OBVIOUS
<1>9. PICK mon : mon = Round(x, "month")
  OBVIOUS
<1>10. PICK y : y = Round(x, "year")
  OBVIOUS
<1>11. /\ IsLength(t, n, h, dt, mon, y)
       /\ h \in Int /\ dt \in Int /\ mon \in Int /\ y \in Int
  <2>1. RoundsTo(t, 60, h)
    BY <1>5, <1>7, <1>4, RoundIs, Zenon
  <2>2. RoundsTo(t, MinutesPerDay, dt)
    BY <1>5, <1>8, <1>4, RoundIs, Zenon
  <2>3. RoundsTo(n, MonthLength, mon)
    BY <1>6, <1>9, <1>4, RoundIs, Zenon
  <2>4. RoundsTo(n, YearLength, y)
    BY <1>6, <1>10, <1>4, RoundIs, Zenon
  <2>5. n <= 10 * t + 7200 /\ 10 * t <= n + 7200
    BY <1>2, <1>3, <1>b, TotalIs, SMT
  <2> QED BY <2>1, <2>2, <2>3, <2>4, <2>5, <1>4, SMT DEF IsLength, RoundsTo, MonthLength, YearLength, MinutesPerDay
<1>12. Round(x, "minute") = t
  BY <1>5, <1>4, RoundIs, Zenon
<1>13. PICK rounded : rounded = RoundedTo(x)
  OBVIOUS
<1>14. /\ rounded.minute = t /\ rounded.hour = h /\ rounded.day = dt
       /\ rounded.month = mon /\ rounded.year = y
  BY <1>7, <1>8, <1>9, <1>10, <1>12, <1>13 DEF RoundedTo
<1>15. Meant(LargestFitting(rounded)) = Saying(t, h, dt, mon, y)
  <2>1. t >= 0 /\ (t >= 45 => h >= 1) /\ (h >= 22 => dt >= 1)
        /\ (dt >= 26 => mon >= 1) /\ (mon >= 11 => y >= 1)
    <3>1. /\ t >= 45 => h >= 1
          /\ h >= 22 => dt >= 1
          /\ dt >= 26 => mon >= 1
          /\ mon >= 11 => y >= 1
      BY <1>11, AtLeastOne, Zenon
    <3> QED BY <3>1, <1>4, SMT
  <2>2. CASE t < 45
    BY <1>4, <1>14, <2>1, <2>2, SMT DEF Meant, MinutesIn, MinutesPerDay, LargestFitting, Thresholds, Saying
  <2>3. CASE t >= 45 /\ h < 22
    BY <1>4, <1>11, <1>14, <2>1, <2>3, SMT DEF Meant, MinutesIn, MinutesPerDay, LargestFitting, Thresholds, Saying
  <2>4. CASE t >= 45 /\ h >= 22 /\ dt < 26
    BY <1>4, <1>11, <1>14, <2>1, <2>4, SMT DEF Meant, MinutesIn, MinutesPerDay, LargestFitting, Thresholds, Saying
  <2>5. CASE t >= 45 /\ h >= 22 /\ dt >= 26 /\ mon < 11
    BY <1>4, <1>11, <1>14, <2>1, <2>5, SMT DEF Meant, MinutesIn, MinutesPerDay, LargestFitting, Thresholds, Saying
  <2>6. CASE t >= 45 /\ h >= 22 /\ dt >= 26 /\ mon >= 11
    BY <1>4, <1>11, <1>14, <2>1, <2>6, SMT DEF Meant, MinutesIn, MinutesPerDay, LargestFitting, Thresholds, Saying
  <2> QED BY <1>4, <1>11, <2>1, <2>2, <2>3, <2>4, <2>5, <2>6, SMT
<1>16. Said(d) = Saying(t, h, dt, mon, y)
  BY <1>1, <1>13, <1>15 DEF Said, relativeTime
<1>17. as(abs(d), "minute")[1] = t
  BY <1>1, <1>5, Zenon
<1>18. t = TotalOf(x) /\ n = TenthsOf(x)
  BY <1>a, <1>2, <1>3, Zenon DEF TotalOf, TenthsOf
<1> QED BY <1>1, <1>11, <1>16, <1>17, <1>18, Zenon

\* With amounts that are at least zero abs changes nothing of what is kept.
LEMMA LongerIs ==
  ASSUME NEW x, NEW y, Positive(abs(x)), Positive(abs(y))
  PROVE  LET longer == addSubtractDuration(abs(x), abs(y), 1)
         IN  /\ Positive(abs(longer))
             /\ TotalOf(abs(x)) <= TotalOf(abs(longer))
             /\ TenthsOf(abs(x)) <= TenthsOf(abs(longer))
<1>1. PICK a, b, c : a = abs(x).months /\ b = abs(x).days /\ c = abs(x).minutes
  OBVIOUS
<1>2. PICK a2, b2, c2 : a2 = abs(y).months /\ b2 = abs(y).days /\ c2 = abs(y).minutes
  OBVIOUS
<1>3. a \in Nat /\ b \in Nat /\ c \in Nat /\ a2 \in Nat /\ b2 \in Nat /\ c2 \in Nat
  BY <1>1, <1>2, Zenon DEF Positive
<1> DEFINE longer == addSubtractDuration(abs(x), abs(y), 1)
<1>4. longer.months = a + 1 * a2 /\ longer.days = b + 1 * b2 /\ longer.minutes = c + 1 * c2
  BY <1>1, <1>2 DEF addSubtractDuration, Bubbled
<1>5. longer.months = a + a2 /\ longer.days = b + b2 /\ longer.minutes = c + c2
  BY <1>3, <1>4, SMT
<1> HIDE DEF longer
<1>6. /\ abs(longer).months = mathAbs(a + a2) /\ abs(longer).days = mathAbs(b + b2)
      /\ abs(longer).minutes = mathAbs(c + c2)
  BY <1>5 DEF abs
<1>7. /\ mathAbs(a + a2) = a + a2 /\ mathAbs(b + b2) = b + b2 /\ mathAbs(c + c2) = c + c2
      /\ a + a2 \in Nat /\ b + b2 \in Nat /\ c + c2 \in Nat
  BY <1>3, SMT DEF mathAbs
<1>8. Positive(abs(longer))
  BY <1>6, <1>7, Zenon DEF Positive
<1>9. /\ Total(a, b, c) <= Total(a + a2, b + b2, c + c2)
      /\ Tenths(a, b, c) <= Tenths(a + a2, b + b2, c + c2)
  BY <1>3, TotalInOrder, Zenon
<1> QED BY <1>1, <1>6, <1>7, <1>8, <1>9, Zenon DEF longer, TotalOf, TenthsOf

LEMMA AbsIsPositive ==
  ASSUME NEW x \in Duration
  PROVE  Positive(abs(x))
<1>1. x.months \in Int /\ x.days \in Int /\ x.minutes \in Int
  BY DEF Duration
<1>2. /\ abs(x).months = mathAbs(x.months) /\ abs(x).days = mathAbs(x.days)
      /\ abs(x).minutes = mathAbs(x.minutes)
  BY DEF abs
<1>3. \A n \in Int : mathAbs(n) \in Nat
  BY SMT DEF mathAbs
<1> QED BY <1>1, <1>2, <1>3 DEF Positive

LEMMA HumanizedInOrderHolds ==
  ASSUME dur \in Duration
  PROVE  HumanizedInOrder
<1> SUFFICES ASSUME NEW given \in Durations
             PROVE  LET longer == addSubtractDuration(abs(dur), abs(createDuration(given)), 1)
                        length == as(abs(dur), "minute")[1]
                    IN  /\ Said(dur) <= Said(longer)
                        /\ mathAbs(Said(dur) - length) <= length \div 2 + 1
  BY DEF HumanizedInOrder
<1> DEFINE longer == addSubtractDuration(abs(dur), abs(createDuration(given)), 1)
<1>1. createDuration(given) \in Duration
  BY CallsAssumption, CreateDurationType DEF IsBubbled
<1>2. Positive(abs(dur)) /\ Positive(abs(createDuration(given)))
  BY <1>1, AbsIsPositive
<1>3. /\ Positive(abs(longer))
      /\ TotalOf(abs(dur)) <= TotalOf(abs(longer))
      /\ TenthsOf(abs(dur)) <= TenthsOf(abs(longer))
  BY <1>2, LongerIs, Zenon
<1> HIDE DEF longer
<1>4. PICK t, n : t = TotalOf(abs(dur)) /\ n = TenthsOf(abs(dur))
  OBVIOUS
<1>5. PICK t2, n2 : t2 = TotalOf(abs(longer)) /\ n2 = TenthsOf(abs(longer))
  OBVIOUS
<1>6. PICK h, dt, mon, y : IsLength(t, n, h, dt, mon, y) /\ Said(dur) = Saying(t, h, dt, mon, y)
  BY <1>2, <1>4, SaidIs, Zenon
<1>7. PICK h2, dt2, mon2, y2 :
        IsLength(t2, n2, h2, dt2, mon2, y2) /\ Said(longer) = Saying(t2, h2, dt2, mon2, y2)
  BY <1>3, <1>5, SaidIs, Zenon
<1>8. Said(dur) <= Said(longer)
  <2>1. t <= t2 /\ n <= n2
    BY <1>3, <1>4, <1>5, Zenon
  <2>2. Saying(t, h, dt, mon, y) <= Saying(t2, h2, dt2, mon2, y2)
    BY <1>6, <1>7, <2>1, SayingInOrder, SMT
  <2> QED BY <1>6, <1>7, <2>2, Zenon
<1>9. mathAbs(Said(dur) - as(abs(dur), "minute")[1]) <= as(abs(dur), "minute")[1] \div 2 + 1
  <2>1. PICK said : said = Saying(t, h, dt, mon, y)
    OBVIOUS
  <2>2. said \in Int /\ 2 * said <= 3 * t + 1 /\ t <= 2 * said + 1
    BY <1>6, <2>1, SayingNear, Zenon
  <2>3. t \in Int
    BY <1>6, SMT DEF IsLength
  <2>4. mathAbs(said - t) <= t \div 2 + 1
    BY <2>2, <2>3, SMT DEF mathAbs
  <2>5. as(abs(dur), "minute")[1] = t
    BY <1>2, <1>4, SaidIs, Zenon
  <2> QED BY <1>6, <2>1, <2>4, <2>5, Zenon
<1> QED BY <1>8, <1>9 DEF longer

LEMMA DurationsShowHolds ==
  ASSUME CallsInv
  PROVE  DurationsShowWhatTheyKeep
<1>1. dur \in Duration /\ (~stale => IsBubbled(dur))
  BY DEF CallsInv, TypeOK
<1>2. ~stale =>
        /\ SameSign({dur.data[f] : f \in DOMAIN dur.data})
        /\ mathAbs(dur.data.months) < 12 /\ mathAbs(dur.data.days) <= 30
        /\ mathAbs(dur.data.hours) < 24 /\ mathAbs(dur.data.minutes) < 60
        /\ SameSign({dur.months, dur.days, dur.minutes}) =>
             60 * (24 * (dur.data.days + DaysOfMonthsCeil((12 * dur.data.years + dur.data.months) - dur.months))
                    + dur.data.hours) + dur.data.minutes = dur.days * MinutesPerDay + dur.minutes
  BY <1>1, DurationShows, Zenon
<1>3. as(dur, "minute")[1] # 0 =>
        [ReadISOString(toISOString(dur)) EXCEPT !.data = dur.data] = dur
  BY <1>1, ISOStringReadsBack, Zenon
<1> QED BY <1>2, <1>3, Zenon DEF DurationsShowWhatTheyKeep

\* What a duration shows and what is read back from its text are what it
\* keeps, and of two durations the longer one is never said to be shorter,
\* for every duration that the calls of a page lead to.
THEOREM DurationsTold == Spec => []DurationsAreSaidTruly
<1>1. CallsInv => DurationsAreSaidTruly
  BY DurationsShowHolds, HumanizedInOrderHolds DEF CallsInv, TypeOK, DurationsAreSaidTruly
<1> QED BY <1>1, CallsInvariance, PTL

-----------------------------------------------------------------------------
(***************************************************************************)
(* The clock a moment shows.                                               *)
(***************************************************************************)
\* What setting an offset makes of a valid moment.
LEMMA SetOffsetIs ==
  ASSUME NEW x \in Moment, x.valid, NEW offset \in Int
  PROVE  \E minutes \in Int :
           /\ offset = 0 => minutes = 0
           /\ setOffset(x, offset, FALSE)
                = [x EXCEPT !.offset = minutes, !.isUTC = TRUE, !.d = x.d + (minutes - x.offset)]
           /\ setOffset(x, offset, TRUE)
                = [x EXCEPT !.offset = minutes, !.isUTC = TRUE, !.d = Clock(x)]
<1>1. PICK minutes : minutes = IF mathAbs(offset) < 16 THEN offset * 60 ELSE offset
  OBVIOUS
<1>2. minutes \in Int /\ (offset = 0 => minutes = 0)
  BY <1>1, SMT DEF mathAbs
<1>3. /\ x.d \in Int /\ x.offset \in Int /\ x.isUTC \in BOOLEAN /\ LocalOffset(x.d) \in Int
  BY ZoneType DEF Moment
<1>4. setOffset(x, offset, FALSE)
        = [x EXCEPT !.offset = minutes, !.isUTC = TRUE, !.d = x.d + 0 + (minutes - x.offset)]
  BY <1>1 DEF setOffset
<1>5. x.d + 0 + (minutes - x.offset) = x.d + (minutes - x.offset)
  BY <1>2, <1>3, SMT
<1>6. setOffset(x, offset, TRUE)
        = [x EXCEPT !.offset = minutes, !.isUTC = TRUE,
                    !.d = x.d + (IF ~x.isUTC THEN LocalOffset(x.d) ELSE 0) + 0]
  BY <1>1 DEF setOffset
<1>7. x.d + (IF ~x.isUTC THEN LocalOffset(x.d) ELSE 0) + 0 = Clock(x)
  BY <1>3, SMT DEF Clock, Local
<1> QED BY <1>2, <1>4, <1>5, <1>6, <1>7, Zenon

LEMMA OffsetsKeepTimeHolds ==
  ASSUME m \in Moment, OffsetIsShown(m)
  PROVE  OffsetsKeepTime
<1> SUFFICES ASSUME m.valid, NEW offset \in Offsets
             PROVE  /\ valueOf(setOffset(m, offset, FALSE)) = valueOf(m)
                    /\ Clock(setOffset(m, offset, TRUE)) = Clock(m)
                    /\ local(setOffset(m, offset, FALSE), FALSE) = local(m, FALSE)
  BY DEF OffsetsKeepTime
<1>1. offset \in Int
  BY CallsAssumption
<1>2. m.d \in Int /\ m.offset \in Int /\ m.isUTC \in BOOLEAN /\ (~m.isUTC => m.offset = 0)
  BY DEF Moment, OffsetIsShown
<1>3. PICK minutes \in Int :
        /\ setOffset(m, offset, FALSE)
             = [m EXCEPT !.offset = minutes, !.isUTC = TRUE, !.d = m.d + (minutes - m.offset)]
        /\ setOffset(m, offset, TRUE)
             = [m EXCEPT !.offset = minutes, !.isUTC = TRUE, !.d = Clock(m)]
  BY <1>1, SetOffsetIs, Zenon
<1>4. PICK x : x = setOffset(m, offset, FALSE)
  OBVIOUS
<1>5. /\ x \in Moment /\ x.valid /\ x.isUTC /\ x.offset = minutes
      /\ x.d = m.d + (minutes - m.offset) /\ x.week = m.week
  <2>1. m.d + (minutes - m.offset) \in Int
    BY <1>2, SMT
  <2> QED BY <1>3, <1>4, <2>1 DEF Moment
<1>6. valueOf(x) = valueOf(m)
  BY <1>2, <1>5, SMT DEF valueOf
<1>7. Clock(setOffset(m, offset, TRUE)) = Clock(m)
  <2>1. PICK y : y = setOffset(m, offset, TRUE)
    OBVIOUS
  <2>2. y.isUTC /\ y.d = Clock(m)
    BY <1>3, <2>1 DEF Moment
  <2> QED BY <2>1, <2>2 DEF Clock
\* Shown in local time, a moment is the time it is.
<1>8. ASSUME NEW y \in Moment, y.valid, y.isUTC
      PROVE  local(y, FALSE) = [valid |-> TRUE, d |-> valueOf(y), isUTC |-> FALSE,
                                offset |-> 0, week |-> y.week]
  <2>1. setOffset(y, 0, FALSE) = [y EXCEPT !.offset = 0, !.isUTC = TRUE, !.d = y.d + (0 - y.offset)]
    <3>1. 0 \in Int
      OBVIOUS
    <3>2. PICK minutes0 \in Int :
            /\ minutes0 = 0
            /\ setOffset(y, 0, FALSE)
                 = [y EXCEPT !.offset = minutes0, !.isUTC = TRUE, !.d = y.d + (minutes0 - y.offset)]
      BY <1>8, <3>1, SetOffsetIs, Zenon
    <3> QED BY <3>2, Zenon
  <2>2. y.d + (0 - y.offset) = valueOf(y)
    BY SMT DEF Moment, valueOf
  <2>3. local(y, FALSE) = [setOffset(y, 0, FALSE) EXCEPT !.isUTC = FALSE]
    BY <1>8 DEF local
  <2> QED BY <1>8, <2>1, <2>2, <2>3 DEF Moment
<1>9. local(x, FALSE) = local(m, FALSE)
  <2>0. /\ local(x, FALSE) = [valid |-> TRUE, d |-> valueOf(x), isUTC |-> FALSE,
                               offset |-> 0, week |-> x.week]
        /\ m.isUTC => local(m, FALSE) = [valid |-> TRUE, d |-> valueOf(m), isUTC |-> FALSE,
                                         offset |-> 0, week |-> m.week]
    BY <1>5, <1>8, Zenon
  <2>1. CASE m.isUTC
    BY <1>5, <1>6, <2>0, <2>1, Zenon
  <2>2. CASE ~m.isUTC
    <3>1. local(m, FALSE) = m
      BY <2>2 DEF local
    <3>2. valueOf(m) = m.d
      BY <1>2, <2>2, SMT DEF valueOf
    <3>3. local(x, FALSE) = [valid |-> TRUE, d |-> m.d, isUTC |-> FALSE, offset |-> 0, week |-> m.week]
      BY <1>5, <1>6, <1>8, <3>2
    <3> QED BY <1>2, <2>2, <3>1, <3>3 DEF Moment
  <2> QED BY <1>2, <2>1, <2>2
<1> QED BY <1>4, <1>6, <1>7, <1>9

\* A date is set to a day of the month, at the same clock time.
LEMMA SetMonthIs ==
  ASSUME NEW x \in Moment, ~x.isUTC, NEW mon \in 0 .. 11
  PROVE  \E n \in Int, c \in Int :
           /\ 0 <= c /\ c < MinutesPerDay
           /\ setMonth(x, mon).isUTC = FALSE
           /\ setMonth(x, mon).d = FromLocal(n * MinutesPerDay + c)
           /\ DayNumber(year(x), mon, 1) <= n /\ n < DayNumber(year(x), mon + 1, 1)
<1>1. /\ year(x) \in Int /\ mon \in Int /\ mon + 1 \in Int
      /\ date(x) \in Int /\ date(x) >= 1 /\ Clock(x) \in Int
  BY ShownType
<1>2. PICK y \in Int : y = year(x)
  BY <1>1
<1>3. PICK length \in Int : length = daysInMonth(y, mon)
  BY <1>1, DaysInMonthType
<1>4. length >= 28
  BY <1>3 DEF daysInMonth, mod
<1>5. PICK dt \in Int : dt = Lesser(date(x), length) /\ 1 <= dt /\ dt <= length
  <2>1. Lesser(date(x), length) \in Int /\ 1 <= Lesser(date(x), length)
        /\ Lesser(date(x), length) <= length
    BY <1>1, <1>4, SMT DEF Lesser
  <2> QED BY <2>1, Zenon
<1>6. PICK first \in Int, next \in Int, n \in Int :
        /\ first = DayNumber(y, mon, 1) /\ next = DayNumber(y, mon + 1, 1)
        /\ n = DayNumber(y, mon, dt)
  <2>1. DayNumber(y, mon, 1) \in Int /\ DayNumber(y, mon + 1, 1) \in Int /\ DayNumber(y, mon, dt) \in Int
    <3>1. 1 \in Int
      OBVIOUS
    <3> QED BY <1>1, <3>1, DayNumberType, Zenon
  <2> QED BY <2>1, Zenon
<1>7. next - first = length
  BY <1>1, <1>3, <1>6, MonthsAreAsLongAsTheirDates, Zenon
<1>8. n = first + (dt - 1)
  <2>1. PICK a \in Int : /\ DayNumber(y, mon, 1) = a + 1 - 1 /\ DayNumber(y, mon, dt) = a + dt - 1
    <3>1. PICK w \in Int, r \in 0 .. 11 : w = y + mon \div 12 /\ r = mon % 12
      <4>1. y + mon \div 12 \in Int /\ mon % 12 \in 0 .. 11
        BY SMT
      <4> QED BY <4>1, Zenon
    <3>2. DaysBeforeYear(w) \in Int /\ DaysBeforeMonth(w, r) \in Int
      BY MonthStartType
    <3>3. \A k : DayNumber(y, mon, k) = DaysBeforeYear(w) + DaysBeforeMonth(w, r) + k - 1
      BY <3>1, Zenon DEF DayNumber
    <3>4. DaysBeforeYear(w) + DaysBeforeMonth(w, r) \in Int
      BY <3>2, SMT
    <3> QED BY <3>3, <3>4, Zenon
  <2> QED BY <1>6, <2>1, SMT
<1>9. first <= n /\ n < next
  BY <1>5, <1>7, <1>8, SMT
<1>10. PICK c \in Int : c = Clock(x) % MinutesPerDay /\ 0 <= c /\ c < MinutesPerDay
  BY <1>1, SMT DEF MinutesPerDay
<1>11. setMonth(x, mon) = DateAt(x, n * MinutesPerDay + c)
  BY <1>2, <1>3, <1>5, <1>6, <1>10 DEF setMonth, SetDate
<1>12. setMonth(x, mon).isUTC = FALSE /\ setMonth(x, mon).d = FromLocal(n * MinutesPerDay + c)
  BY <1>11 DEF DateAt, Moment
<1>13. DayNumber(year(x), mon, 1) <= n /\ n < DayNumber(year(x), mon + 1, 1)
  BY <1>2, <1>6, <1>9, Zenon
<1> QED BY <1>10, <1>12, <1>13, Zenon

LEMMA LocalOffsetIs ==
  ASSUME NEW t \in Int
  PROVE  /\ LocalOffset(t) \in Int /\ StandardOffset \in Int
         /\ LocalOffset(t) = StandardOffset \/ LocalOffset(t) = StandardOffset + 60
         /\ LocalOffset(t) # StandardOffset
              <=> \E s \in SummerTimes : s[1] <= t /\ t < s[2]
BY ZoneAssumption, ZoneType, SMT DEF LocalOffset

\* In the summer, January or June has standard time.
LEMMA WinterIsFound ==
  ASSUME NEW x \in Moment, ~x.isUTC, LocalOffset(x.d) # StandardOffset
  PROVE  \E mon \in {0, 5} : utcOffset(setMonth(x, mon)) = StandardOffset
<1>1. PICK t \in Int : t = x.d
  BY DEF Moment
<1>2. PICK from \in Int, to \in Int : <<from, to>> \in SummerTimes /\ from <= t /\ t < to
  <2>1. PICK s \in SummerTimes : s[1] <= t /\ t < s[2]
    BY <1>1, LocalOffsetIs
  <2>2. s = <<s[1], s[2]>> /\ s[1] \in Int /\ s[2] \in Int
    BY ZoneAssumption
  <2> QED BY <2>1, <2>2
<1>3. PICK std \in Int : std = StandardOffset
  BY ZoneAssumption
<1>4. Clock(x) = t + std + 60
  BY <1>1, <1>3, LocalOffsetIs, SMT DEF Clock, Local
<1>5. PICK today \in Int : today = DayOf(x)
  BY ShownType
<1>6. today \in (from + std + 60) \div MinutesPerDay .. (to - 1 + std + 60) \div MinutesPerDay
  <2>1. today = (t + std + 60) \div 1440
    BY <1>4, <1>5 DEF DayOf, MinutesPerDay
  <2> QED BY <1>2, <2>1, SMT DEF MinutesPerDay
<1>7. PICK mon \in {0, 5} : \A s \in SummerTimes :
          \/ s[2] <= DayNumber(YearOf(today), mon, 1) * MinutesPerDay - StandardOffset - 60
          \/ DayNumber(YearOf(today), mon + 1, 1) * MinutesPerDay - StandardOffset <= s[1]
  <2>1. PICK s \in SummerTimes : s[1] = from /\ s[2] = to
    BY <1>2
  <2>2. today \in (s[1] + StandardOffset + 60) \div MinutesPerDay
                  .. (s[2] - 1 + StandardOffset + 60) \div MinutesPerDay
    BY <1>3, <1>6, <2>1, Zenon
  <2> QED BY <2>2, WinterAssumption, Zenon
<1>8. PICK n \in Int, c \in Int :
        /\ 0 <= c /\ c < MinutesPerDay
        /\ setMonth(x, mon).isUTC = FALSE
        /\ setMonth(x, mon).d = FromLocal(n * MinutesPerDay + c)
        /\ DayNumber(year(x), mon, 1) <= n /\ n < DayNumber(year(x), mon + 1, 1)
  <2>1. mon \in 0 .. 11
    OBVIOUS
  <2> QED BY <2>1, SetMonthIs, Zenon
<1>9. year(x) = YearOf(today)
  BY <1>5 DEF year
<1>10. PICK first \in Int, next \in Int :
         first = DayNumber(YearOf(today), mon, 1) /\ next = DayNumber(YearOf(today), mon + 1, 1)
  <2>1. year(x) \in Int /\ mon \in Int /\ mon + 1 \in Int /\ 1 \in Int
    BY ShownType
  <2>2. DayNumber(YearOf(today), mon, 1) \in Int /\ DayNumber(YearOf(today), mon + 1, 1) \in Int
    BY <1>9, <2>1, DayNumberType, Zenon
  <2> QED BY <2>2, Zenon
<1>11. PICK clock \in Int : clock = n * MinutesPerDay + c
  <2>1. n * 1440 + c \in Int
    BY SMT
  <2> QED BY <2>1 DEF MinutesPerDay
<1>12. first * 1440 <= clock /\ clock < next * 1440
  BY <1>8, <1>9, <1>10, <1>11, SMT DEF MinutesPerDay
<1>13. PICK u \in Int : u = FromLocal(clock) /\ u \in {clock - std - 60, clock - std}
  BY <1>3, SMT DEF FromLocal
<1>14. \A s \in SummerTimes : s[1] \in Int /\ s[2] \in Int
  BY ZoneAssumption
<1>15. \A s \in SummerTimes : ~(s[1] <= u /\ u < s[2])
  <2> SUFFICES ASSUME NEW s \in SummerTimes, s[1] <= u, u < s[2] PROVE FALSE
    OBVIOUS
  <2>1. PICK a \in Int, b \in Int : a = s[1] /\ b = s[2]
    BY <1>14
  <2>2. b <= first * MinutesPerDay - std - 60 \/ next * MinutesPerDay - std <= a
    BY <1>3, <1>7, <1>10, <2>1, Zenon
  <2> QED BY <1>12, <1>13, <2>1, <2>2, SMT DEF MinutesPerDay
<1>16. LocalOffset(u) = StandardOffset
  BY <1>15, LocalOffsetIs
<1>17. utcOffset(setMonth(x, mon)) = LocalOffset(u)
  BY <1>8, <1>11, <1>13, Zenon DEF utcOffset
<1> QED BY <1>16, <1>17

LEMMA SummerTimeIsSeenHolds ==
  ASSUME m \in Moment
  PROVE  SummerTimeIsSeen
<1>1. m.d \in Int /\ m.isUTC \in BOOLEAN
  BY DEF Moment
<1>2. \A mon \in {0, 5} : Alike(setMonth(m, mon), m)
  BY SetType
<1>3. CASE m.isUTC
  <2>1. \A mon \in {0, 5} : utcOffset(setMonth(m, mon)) = utcOffset(m)
    BY <1>2, <1>3 DEF utcOffset, Alike
  <2>2. utcOffset(m) \in Int
    BY ShownType
  <2>3. ~isDaylightSavingTime(m)
    BY <2>1, <2>2 DEF isDaylightSavingTime
  <2> QED BY <1>3, <2>3 DEF SummerTimeIsSeen
<1>4. CASE ~m.isUTC
  <2>1. utcOffset(m) = LocalOffset(m.d)
    BY <1>4 DEF utcOffset
  <2>2. \A mon \in {0, 5} : utcOffset(setMonth(m, mon)) \in Int
                             /\ utcOffset(setMonth(m, mon)) >= StandardOffset
    <3> SUFFICES ASSUME NEW mon \in {0, 5}
                 PROVE  utcOffset(setMonth(m, mon)) \in Int
                        /\ utcOffset(setMonth(m, mon)) >= StandardOffset
      OBVIOUS
    <3>1. PICK x \in Moment : x = setMonth(m, mon) /\ x.isUTC = FALSE
      BY <1>2, <1>4 DEF Alike
    <3>2. utcOffset(x) = LocalOffset(x.d) /\ x.d \in Int
      BY <3>1 DEF utcOffset, Moment
    <3>3. utcOffset(x) \in Int /\ utcOffset(x) >= StandardOffset
      BY <3>2, LocalOffsetIs, SMT
    <3> QED BY <3>1, <3>3
  <2>3. CASE LocalOffset(m.d) = StandardOffset
    <3>1. StandardOffset \in Int
      BY ZoneAssumption
    <3>2. ~isDaylightSavingTime(m)
      BY <2>1, <2>2, <2>3, <3>1 DEF isDaylightSavingTime
    <3> QED BY <2>3, <3>2 DEF SummerTimeIsSeen
  <2>4. CASE LocalOffset(m.d) # StandardOffset
    <3>1. PICK mon \in {0, 5} : utcOffset(setMonth(m, mon)) = StandardOffset
      BY <1>4, <2>4, WinterIsFound
    <3>2. utcOffset(m) > StandardOffset
      BY <1>1, <2>1, <2>4, LocalOffsetIs, SMT
    <3>3. isDaylightSavingTime(m)
      BY <3>1, <3>2 DEF isDaylightSavingTime
    <3> QED BY <1>4, <2>4, <3>3 DEF SummerTimeIsSeen
  <2> QED BY <2>3, <2>4
<1> QED BY <1>1, <1>3, <1>4

\* Whatever a page does, the clock of a moment is that of its zone: changes
\* of the offset keep the time, or the clock where this is asked for, and
\* isDaylightSavingTime finds summer time just when the zone has it.
THEOREM ClocksAreOfTheirZone == Spec => []ClockIsOfItsZone
<1>1. CallsInv => ClockIsOfItsZone
  BY OffsetsKeepTimeHolds, SummerTimeIsSeenHolds DEF CallsInv, TypeOK, ClockIsOfItsZone
<1> QED BY <1>1, CallsInvariance, PTL

-----------------------------------------------------------------------------
(***************************************************************************)
(* The weeks of a moment.  Days of the year are counted between local      *)
(* midnights, which are 23 to 25 hours apart, and rounding makes this      *)
(* exact (moment.js:4750).                                                 *)
(***************************************************************************)
LEMMA StartOfDateIs ==
  ASSUME NEW x \in Moment, NEW y \in Int, NEW mon \in Int, NEW dt \in Int
  PROVE  StartOfDate(x, y, mon, dt) = DateAt(x, DayNumber(y, mon, dt) * MinutesPerDay)
<1>1. CASE y \notin 0 .. 99
  BY <1>1 DEF StartOfDate, NewDate
<1>2. CASE y \in 0 .. 99
  <2>1. PICK v \in Int : v = y + 400 /\ v \notin 0 .. 99
    <3>1. y + 400 \in Int /\ y + 400 \notin 0 .. 99 BY <1>2, SMT
    <3> QED BY <3>1
  <2>2. NewDate(v, mon, dt) = DayNumber(v, mon, dt)
    BY <2>1 DEF NewDate
  <2>3. PICK n \in Int : n = DayNumber(y, mon, dt) /\ DayNumber(v, mon, dt) = n + 146097
    <3>1. DayNumber(y, mon, dt) \in Int
      BY DayNumberType
    <3> QED BY <2>1, <3>1, CycleOfDays
  <2>4. NewDate(y + 400, mon, dt) - 146097 = n
    BY <2>1, <2>2, <2>3
  <2>5. StartOfDate(x, y, mon, dt)
        = DateAt(x, (NewDate(y + 400, mon, dt) - 146097) * MinutesPerDay)
    BY <1>2 DEF StartOfDate
  <2> QED BY <2>3, <2>4, <2>5
<1> QED BY <1>1, <1>2

\* A clock time is read with one of the two offsets, and is shown again
\* unless it is skipped.
LEMMA FromLocalIs ==
  ASSUME NEW c \in Int
  PROVE  /\ StandardOffset \in Int /\ FromLocal(c) \in Int
         /\ FromLocal(c) = c - StandardOffset - 60 \/ FromLocal(c) = c - StandardOffset
         /\ \A t \in Int : Local(t) = c => Local(FromLocal(c)) = c
<1>1. PICK std \in Int : std = StandardOffset
  BY ZoneAssumption
<1>2. FromLocal(c) = IF Local(c - std - 60) = c THEN c - std - 60 ELSE c - std
  BY <1>1 DEF FromLocal
<1>3. ASSUME NEW t \in Int, Local(t) = c
      PROVE  Local(FromLocal(c)) = c
  <2>1. LocalOffset(t) = std \/ LocalOffset(t) = std + 60
    BY <1>1, LocalOffsetIs
  <2>2. CASE Local(c - std - 60) = c
    BY <1>2, <2>2
  <2>3. CASE Local(c - std - 60) # c
    <3>1. c = t + LocalOffset(t)
      BY <1>3 DEF Local
    <3>2. CASE LocalOffset(t) = std
      <4>1. c - std = t
        BY <3>1, <3>2
      <4> QED BY <1>2, <1>3, <2>3, <4>1
    <3>3. CASE LocalOffset(t) = std + 60
      <4>1. c - std - 60 = t
        BY <3>1, <3>3
      <4> QED BY <1>3, <2>3, <4>1
    <3> QED BY <2>1, <3>2, <3>3
  <2> QED BY <2>2, <2>3
<1> QED BY <1>1, <1>2, <1>3

\* Midnights as times.
LEMMA DateAtIs ==
  ASSUME NEW x \in Moment, NEW c \in Int
  PROVE  \E lag \in {0, -60} :
           /\ x.isUTC => lag = 0
           /\ valueOf(DateAt(x, c)) = c + lag - (IF x.isUTC THEN x.offset ELSE x.offset + StandardOffset)
<1>1. PICK t \in Int : t = IF x.isUTC THEN c ELSE FromLocal(c)
  BY FromLocalIs
<1>2. PICK off \in Int, std \in Int : off = x.offset /\ std = StandardOffset
  BY ZoneAssumption DEF Moment
<1>3. valueOf(DateAt(x, c)) = t - off
  BY <1>1, <1>2 DEF valueOf, DateAt, Moment
<1>4. CASE x.isUTC
  BY <1>1, <1>2, <1>3, <1>4
<1>5. CASE ~x.isUTC
  <2>1. t = c - std - 60 \/ t = c - std
    BY <1>1, <1>2, <1>5, FromLocalIs
  <2>2. CASE t = c - std - 60
    BY <1>2, <1>3, <1>5, <2>2
  <2>3. CASE t = c - std
    BY <1>2, <1>3, <1>5, <2>3
  <2> QED BY <2>1, <2>2, <2>3
<1> QED BY <1>4, <1>5

LEMMA DayOfYearIs ==
  ASSUME NEW x \in Moment, x.valid
  PROVE  dayOfYear(x) = DayOf(x) - DaysBeforeYear(year(x)) + 1
<1>1. PICK today \in Int, y \in Int, first \in Int :
        today = DayOf(x) /\ y = year(x) /\ first = DaysBeforeYear(y)
  <2>1. DayOf(x) \in Int /\ year(x) \in Int
    BY ShownType
  <2> QED BY <2>1, YearShare
<1>2. DayNumber(y, month(x), date(x)) = today
  BY <1>1, DatesReadBack DEF year, month, date
<1>3. month(x) \in Int /\ date(x) \in Int
  BY ShownType
<1>4. startOf(x, "day") = DateAt(x, today * MinutesPerDay)
  <2>1. startOf(x, "day") = StartOfDate(x, y, month(x), date(x))
    BY <1>1 DEF startOf, FirstMonth, FirstDate
  <2> QED BY <1>2, <1>3, <2>1, StartOfDateIs
<1>5. startOf(x, "year") = DateAt(x, first * MinutesPerDay)
  <2>1. startOf(x, "year") = StartOfDate(x, y, 0, 1)
    BY <1>1 DEF startOf, FirstMonth, FirstDate
  <2>2. DayNumber(y, 0, 1) = first
    BY <1>1, FirstOfYear
  <2> QED BY <2>1, <2>2, StartOfDateIs
<1>6. PICK a \in Int, b \in Int : a = today * 1440 /\ b = first * 1440
  BY SMT
<1>7. PICK zone \in Int : zone = IF x.isUTC THEN x.offset ELSE x.offset + StandardOffset
  BY ZoneAssumption DEF Moment
<1>8. PICK lag \in {0, -60} : valueOf(DateAt(x, a)) = a + lag - zone
  BY <1>7, DateAtIs
<1>9. PICK lag0 \in {0, -60} : valueOf(DateAt(x, b)) = b + lag0 - zone
  BY <1>7, DateAtIs
<1>10. PICK k \in Int, e \in {-60, 0, 60} : k = today - first /\ e = lag - lag0
  OBVIOUS
<1>11. valueOf(startOf(x, "day")) - valueOf(startOf(x, "year")) = 1440 * k + e
  <2>1. PICK p \in Int, q \in Int : p = a + lag - zone /\ q = b + lag0 - zone
    OBVIOUS
  <2>2. valueOf(startOf(x, "day")) = p
    BY <1>4, <1>6, <1>8, <2>1 DEF MinutesPerDay
  <2>3. valueOf(startOf(x, "year")) = q
    BY <1>5, <1>6, <1>9, <2>1 DEF MinutesPerDay
  <2>4. p - q = 1440 * k + e
    BY <1>6, <1>10, <2>1, SMT
  <2> QED BY <2>2, <2>3, <2>4
<1>12. dayOfYear(x) = k + 1
  <2>1. Rounded(1440 * k + e, 1440) = k
    <3>1. CASE e = -60
      BY <1>10, <3>1, SMT DEF Rounded
    <3>2. CASE e = 0
      BY <1>10, <3>2, SMT DEF Rounded
    <3>3. CASE e = 60
      BY <1>10, <3>3, SMT DEF Rounded
    <3> QED BY <1>10, <3>1, <3>2, <3>3
  <2>2. dayOfYear(x)
        = Rounded(valueOf(startOf(x, "day")) - valueOf(startOf(x, "year")), 1440) + 1
    BY DEF dayOfYear, MinutesPerDay
  <2> QED BY <1>11, <2>1, <2>2
<1> QED BY <1>1, <1>10, <1>12

LEMMA WeekOfIs ==
  ASSUME NEW x \in Moment, x.valid, NEW rule
  PROVE  weekOf(x, rule) = WeekOn(DayOf(x), rule)
BY DayOfYearIs DEF weekOf, WeekOn, year

\* A date that is set to what it is stays, with its clock.
LEMMA SameDate ==
  ASSUME NEW x \in Moment
  PROVE  LET z == SetDate(x, year(x), month(x), date(x)) IN Alike(z, x) /\ Clock(z) = Clock(x)
<1>1. PICK c \in Int : c = Clock(x)
  BY ShownType
<1>2. DayNumber(year(x), month(x), date(x)) = c \div 1440
  <2>1. DayOf(x) = c \div 1440 /\ c \div 1440 \in Int
    <3>1. c \div 1440 \in Int BY SMT
    <3> QED BY <1>1, <3>1 DEF DayOf, MinutesPerDay
  <2> QED BY <2>1, DatesReadBack DEF year, month, date
<1>3. (c \div 1440) * 1440 + (c % 1440) = c
  BY SMT
<1>4. SetDate(x, year(x), month(x), date(x)) = DateAt(x, c)
  BY <1>1, <1>2, <1>3 DEF SetDate, MinutesPerDay
<1>5. PICK z \in Moment : z = DateAt(x, c) /\ Alike(z, x)
  BY DateAtType DEF Alike
<1>6. Clock(z) = c
  <2>1. z.isUTC = x.isUTC /\ z.d = IF x.isUTC THEN c ELSE FromLocal(c)
    BY <1>5 DEF DateAt, Moment
  <2>2. CASE x.isUTC
    BY <2>1, <2>2 DEF Clock
  <2>3. CASE ~x.isUTC
    <3>1. x.d \in Int /\ Local(x.d) = c
      BY <1>1, <2>3 DEF Clock, Moment
    <3> QED BY <2>1, <2>3, <3>1, FromLocalIs DEF Clock
  <2> QED BY <2>2, <2>3
<1> QED BY <1>1, <1>4, <1>5, <1>6

LEMMA SameDay ==
  ASSUME NEW x \in Moment
  PROVE  DayOf(SetDateOf(x, DayOf(x))) = DayOf(x)
<1>1. PICK n \in Int : n = DayOf(x)
  BY ShownType
<1> DEFINE mon == MonthOf(n)
           dt  == DateOf(n)
           length == daysInMonth(YearOf(n), MonthOf(n))
<1>2. year(x) = YearOf(n) /\ month(x) = mon /\ date(x) = dt
  BY <1>1 DEF year, month, date
<1>3. YearOf(n) \in Int /\ mon \in Int /\ dt \in Int /\ length \in Int /\ dt <= length
  <2>1. YearOf(n) \in Int /\ MonthOf(n) \in 0 .. 11 /\ DateOf(n) \in 1 .. daysInMonth(YearOf(n), MonthOf(n))
    BY DatesReadBack
  <2>2. mon \in Int
    BY <2>1
  <2>3. length \in Int
    BY <2>1, <2>2, DaysInMonthType
  <2>4. dt \in Int /\ dt <= length
    BY <2>1, <2>3
  <2> QED BY <2>1, <2>2, <2>3, <2>4
<1>4. PICK x1 \in Moment : x1 = set(x, "year", YearOf(n)) /\ DayOf(x1) = n
  <2>1. (isLeapYear(year(x)) /\ month(x) = 1 /\ date(x) = 29) => daysInMonth(YearOf(n), 1) = 29
    <3> SUFFICES ASSUME isLeapYear(YearOf(n)) PROVE daysInMonth(YearOf(n), 1) = 29
      BY <1>2
    <3>1. 1 % 12 = 1 /\ YearOf(n) + (1 - 1) \div 12 = YearOf(n)
      BY <1>3, SMT
    <3> QED BY <3>1, DaysInMonthIs
  <2>2. set(x, "year", YearOf(n)) = SetDate(x, year(x), month(x), date(x))
    BY <1>2, <2>1 DEF set
  <2>3. DayOf(SetDate(x, year(x), month(x), date(x))) = n
    BY <1>1, SameDate DEF DayOf
  <2> QED BY <2>2, <2>3, SameDate DEF Alike
<1>5. year(x1) = YearOf(n) /\ month(x1) = mon /\ date(x1) = dt
  BY <1>4 DEF year, month, date
<1>6. PICK x2 \in Moment : x2 = setMonth(x1, mon) /\ DayOf(x2) = n
  <2>1. Lesser(date(x1), daysInMonth(year(x1), mon)) = date(x1)
    BY <1>3, <1>5 DEF Lesser
  <2>2. setMonth(x1, mon) = SetDate(x1, year(x1), month(x1), date(x1))
    BY <1>5, <2>1 DEF setMonth
  <2>3. DayOf(SetDate(x1, year(x1), month(x1), date(x1))) = n
    BY <1>4, SameDate DEF DayOf
  <2> QED BY <2>2, <2>3, SameDate DEF Alike
<1>7. year(x2) = YearOf(n) /\ month(x2) = mon /\ date(x2) = dt
  BY <1>6 DEF year, month, date
<1>8. DayOf(set(x2, "date", dt)) = n
  <2>1. set(x2, "date", dt) = SetDate(x2, year(x2), month(x2), date(x2))
    BY <1>7 DEF set
  <2> QED BY <1>6, <2>1, SameDate DEF DayOf
<1>9. SetDateOf(x, n) = set(x2, "date", dt)
  BY <1>4, <1>6 DEF SetDateOf
<1> QED BY <1>1, <1>8, <1>9

\* The date of a week and weekday, as it is set.
LEMMA SetWeekAllIs ==
  ASSUME NEW x, NEW y \in Int, NEW rule \in WeekRule, NEW wday \in 0 .. 7,
         NEW week \in 1 .. weeksInYear(y, rule)
  PROVE  setWeekAll(x, y, week, wday, rule) = SetDateOf(x, WeekDay(y, week, wday, rule))
<1>1. PICK made : made = dayOfYearFromWeeks(y, week, wday, rule)
  OBVIOUS
<1>2. /\ made.year \in Int /\ made.dayOfYear \in 1 .. daysInYear(made.year)
      /\ DaysBeforeYear(made.year) + made.dayOfYear - 1 = WeekDay(y, week, wday, rule)
  BY <1>1, WeekDateIs DEF WeekDay
<1>3. createUTCDate(made.year, 0, made.dayOfYear) = WeekDay(y, week, wday, rule)
  BY <1>2, UTCDateIs
<1> QED BY <1>1, <1>3 DEF setWeekAll

LEMMA WeekDayOf ==
  ASSUME NEW n \in Int, NEW y \in Int, NEW rule \in WeekRule,
         NEW week \in 1 .. weeksInYear(y, rule), LiesInWeek(n, y, week, rule)
  PROVE  WeekdayOf(n) \in 0 .. 6 /\ WeekDay(y, week, WeekdayOf(n), rule) = n
<1>1. PICK f \in Int, dow \in 0 .. 6 : f = FirstWeek(y, rule) /\ dow = rule.dow /\ (f + 4) % 7 = dow
  <2>1. rule.dow \in 0 .. 6 /\ FirstWeek(y, rule) \in Int
    BY FirstWeekType, RuleIs
  <2> QED BY <2>1, WeeksStartOnTheirDay DEF WeekdayOf
<1>2. PICK w \in Int : w = week
  BY WeeksFillTheYears
<1>3. f + 7 * (w - 1) <= n /\ n < f + 7 * w
  BY <1>1, <1>2, Zenon DEF LiesInWeek
<1>4. PICK wd \in 0 .. 6 : wd = (n + 4) % 7
  <2>1. (n + 4) % 7 \in 0 .. 6 BY SMT
  <2> QED BY <2>1
<1>5. PICK k \in Int : k = n - f - 7 * (w - 1) /\ 0 <= k /\ k < 7
  <2>1. n - f - 7 * (w - 1) \in Int /\ 0 <= n - f - 7 * (w - 1) /\ n - f - 7 * (w - 1) < 7
    BY <1>3, SMT
  <2> QED BY <2>1
<1>6. (7 + wd - dow) % 7 = k
  <2>1. PICK i \in Int, j \in Int : n + 4 = 7 * i + wd /\ f + 4 = 7 * j + dow
    <3>1. n + 4 = 7 * ((n + 4) \div 7) + wd /\ (n + 4) \div 7 \in Int
      BY <1>4, SMT
    <3>2. f + 4 = 7 * ((f + 4) \div 7) + dow /\ (f + 4) \div 7 \in Int
      BY <1>1, SMT
    <3> QED BY <3>1, <3>2
  <2>2. PICK q \in Int : 7 + wd - dow = 7 * q + k
    <3>1. 7 + wd - dow = 7 * (1 + j + w - 1 - i) + k /\ 1 + j + w - 1 - i \in Int
      BY <1>5, <2>1, SMT
    <3> QED BY <3>1
  <2> QED BY <1>5, <2>2, SMT
<1>7. f + 7 * (w - 1) + k = n
  BY <1>5, SMT
<1>8. WeekDay(y, week, wd, rule) = n
  BY <1>1, <1>2, <1>6, <1>7, Zenon DEF WeekDay
<1> QED BY <1>4, <1>8 DEF WeekdayOf

LEMMA WeeksAreNumberedHolds ==
  ASSUME m \in Moment
  PROVE  WeeksAreNumbered
<1> SUFFICES ASSUME m.valid, NEW rule \in {m.week, ISOWeek}
             PROVE  IsWeekOf(DayOf(m), weekOf(m, rule), rule) /\ LeadsBack(weekOf(m, rule), rule)
  BY DEF WeeksAreNumbered
<1>1. rule \in WeekRule
  BY DEF Moment, ISOWeek, WeekRule
<1>2. PICK n \in Int : n = DayOf(m)
  BY ShownType
<1>3. PICK y \in Int : \E week \in 1 .. weeksInYear(y, rule) :
        WeekOn(n, rule) = [year |-> y, week |-> week] /\ LiesInWeek(n, y, week, rule)
  BY <1>1, WeekLies
<1>4. PICK week \in 1 .. weeksInYear(y, rule) :
        WeekOn(n, rule) = [year |-> y, week |-> week] /\ LiesInWeek(n, y, week, rule)
  BY <1>3
<1>5. weekOf(m, rule) = [year |-> y, week |-> week]
  BY <1>2, <1>4, WeekOfIs
<1>6. IsWeekOf(n, [year |-> y, week |-> week], rule)
  <2>1. PICK f \in Int, weeks \in {52, 53} :
          /\ f = FirstWeek(y, rule) /\ weeks = weeksInYear(y, rule)
          /\ FirstWeek(y + 1, rule) = f + 7 * weeks
    BY <1>1, FirstWeekType, WeeksFillTheYears
  <2>2. y + 1 \in Int
    OBVIOUS
  <2>3. /\ StartOfWeek(DayNumber(y, 0, 7 + rule.dow - rule.doy), rule) = f
        /\ StartOfWeek(DayNumber(y + 1, 0, 7 + rule.dow - rule.doy), rule) = f + 7 * weeks
    BY <1>1, <2>1, <2>2, WeeksStartOnTheirDay, Zenon DEF January
  <2>4. PICK w \in 1 .. weeks : w = week
    BY <2>1
  <2>5. f + 7 * (w - 1) <= n /\ n < f + 7 * w
    BY <1>4, <2>1, <2>4, Zenon DEF LiesInWeek
  <2>6. PICK g \in Int : g = f + 7 * weeks
    OBVIOUS
  <2>7. /\ f <= n /\ n < g
        /\ w = (n - f) \div 7 + 1 /\ weeks = (g - f) \div 7
    BY <2>5, <2>6, SMT
  <2>8. PICK found : found = [year |-> y, week |-> week]
    OBVIOUS
  <2>9. found.year = y /\ found.week = week
    BY <2>8
  <2>10. StartOfWeek(DayNumber(y + 1, 0, 7 + rule.dow - rule.doy), rule) = g
    BY <2>3, <2>6
  <2>11. IsWeekOf(n, found, rule)
    BY <2>1, <2>3, <2>4, <2>7, <2>9, <2>10, Zenon DEF IsWeekOf
  <2> QED BY <2>8, <2>11
<1>7. LeadsBack([year |-> y, week |-> week], rule)
  <2>1. day(m) = WeekdayOf(n)
    BY <1>2 DEF day
  <2>2. WeekdayOf(n) \in 0 .. 6 /\ WeekDay(y, week, WeekdayOf(n), rule) = n
    BY <1>1, <1>4, WeekDayOf
  <2>3. WeekdayOf(n) \in 0 .. 7
    BY <2>2
  <2>4. setWeekAll(m, y, week, WeekdayOf(n), rule) = SetDateOf(m, n)
    BY <1>1, <2>2, <2>3, SetWeekAllIs
  <2>5. DayOf(SetDateOf(m, n)) = n
    BY <1>2, SameDay
  <2> QED BY <1>2, <2>1, <2>4, <2>5, Zenon DEF LeadsBack
<1> QED BY <1>2, <1>5, <1>6, <1>7

\* Whatever a page does, in every zone, in every year and for every rule: a
\* moment is numbered with the week it lies in, and its week year, week and
\* weekday set on it (moment.js:4646) leave it on its day.
THEOREM WeeksTold == Spec => []WeeksAreNumbered
<1>1. CallsInv => WeeksAreNumbered
  BY WeeksAreNumberedHolds DEF CallsInv, TypeOK
<1> QED BY <1>1, CallsInvariance, PTL

-----------------------------------------------------------------------------
(***************************************************************************)
(* The first days of months follow each other, through the years, and a day *)
(* is of the month it lies in.                                             *)
(***************************************************************************)
LEMMA FirstOfMonthInYear ==
  ASSUME NEW y \in Int, NEW r \in 0 .. 11
  PROVE  DayNumber(y, r, 1) = DaysBeforeYear(y) + DaysBeforeMonth(y, r)
<1>1. y + r \div 12 = y /\ r % 12 = r BY SMT
<1>2. r \in Int
  OBVIOUS
<1> QED BY <1>1, <1>2, FirstOfMonth, Zenon

LEMMA MonthsInOrder ==
  ASSUME NEW y \in Int, NEW i \in 0 .. 11, NEW j \in 0 .. 11, i < j
  PROVE  DaysBeforeMonth(y, i) + 28 <= DaysBeforeMonth(y, j)
<1>1. PICK length \in {365, 366} : length = daysInYear(y)
  BY DEF daysInYear
<1> DEFINE before(d) ==
           IF d = 0 THEN 0 ELSE IF d = 1 THEN 31 ELSE IF d = 2 THEN 59 ELSE IF d = 3 THEN 90
            ELSE IF d = 4 THEN 120 ELSE IF d = 5 THEN 151 ELSE IF d = 6 THEN 181
            ELSE IF d = 7 THEN 212 ELSE IF d = 8 THEN 243 ELSE IF d = 9 THEN 273
            ELSE IF d = 10 THEN 304 ELSE 334
<1>2. /\ DaysBeforeMonth(y, i) = before(i) + (IF i > 1 THEN length - 365 ELSE 0)
      /\ DaysBeforeMonth(y, j) = before(j) + (IF j > 1 THEN length - 365 ELSE 0)
  BY <1>1, MonthStarts
<1>3. before(i) + (IF i > 1 THEN length - 365 ELSE 0) + 28
        <= before(j) + (IF j > 1 THEN length - 365 ELSE 0)
  BY SMT
<1> HIDE DEF before
<1> QED BY <1>2, <1>3

\* A month of a year, from its first day to that of the next.
LEMMA MonthLies ==
  ASSUME NEW y \in Int, NEW mon \in 0 .. 11
  PROVE  \E f \in Int, g \in Int, length \in Int, s \in Int, t \in Int, k \in Int :
           /\ f = DayNumber(y, mon, 1) /\ g = DayNumber(y, mon + 1, 1)
           /\ length = daysInMonth(y, mon)
           /\ s = DaysBeforeYear(y) /\ t = DaysBeforeYear(y + 1)
           /\ k = DaysBeforeMonth(y, mon)
           /\ g = f + length /\ length >= 28 /\ f = s + k /\ s <= f /\ g <= t
<1>1. mon \in Int /\ mon + 1 \in Int /\ 1 \in Int /\ y + 1 \in Int
  OBVIOUS
<1>2. PICK f \in Int, g \in Int, length \in Int, s \in Int, t \in Int, k \in Int :
        /\ f = DayNumber(y, mon, 1) /\ g = DayNumber(y, mon + 1, 1)
        /\ length = daysInMonth(y, mon)
        /\ s = DaysBeforeYear(y) /\ t = DaysBeforeYear(y + 1)
        /\ k = DaysBeforeMonth(y, mon)
  <2>1. /\ DayNumber(y, mon, 1) \in Int /\ DayNumber(y, mon + 1, 1) \in Int
        /\ daysInMonth(y, mon) \in Int
        /\ DaysBeforeYear(y) \in Int /\ DaysBeforeYear(y + 1) \in Int
        /\ DaysBeforeMonth(y, mon) \in Int
    BY <1>1, DayNumberType, DaysInMonthType, MonthStartType
  <2> QED BY <2>1
<1>3. g = f + length
  <2>1. g - f = length
    BY <1>1, <1>2, MonthsAreAsLongAsTheirDates, Zenon
  <2> QED BY <2>1
<1>4. length >= 28
  BY <1>2 DEF daysInMonth, mod
<1>5. f = s + k
  <2>1. DayNumber(y, mon, 1) = s + k
    BY <1>2, FirstOfMonthInYear
  <2> QED BY <1>2, <2>1
<1>6. s <= f
  <2>1. 0 <= k
    <3>1. daysInYear(y) \in {365, 366}
      BY DEF daysInYear
    <3> QED BY <1>2, <3>1, MonthStarts, SMT
  <2> QED BY <1>5, <2>1
<1>7. g <= t
  <2>1. CASE mon = 11
    <3>1. y + 12 \div 12 = y + 1 /\ 12 % 12 = 0 /\ mon + 1 = 12
      BY <2>1, SMT
    <3>2. DaysBeforeMonth(y + 1, 0) = 0
      <4>1. 0 \in 0 .. 11 /\ daysInYear(y + 1) \in Int
        BY <1>1 DEF daysInYear
      <4> QED BY <1>1, <4>1, MonthStarts, SMT
    <3>3. g = t + 0 + 1 - 1
      BY <1>2, <3>1, <3>2, Zenon DEF DayNumber
    <3> QED BY <3>3
  <2>2. CASE mon # 11
    <3>1. PICK next \in 0 .. 11 : next = mon + 1
      <4>1. mon + 1 \in 0 .. 11 BY <2>2, SMT
      <4> QED BY <4>1
    <3>2. PICK i \in Int : i = DaysBeforeMonth(y, next)
      BY MonthStartType
    <3>3. g = s + i
      BY <1>2, <3>1, <3>2, FirstOfMonthInYear
    <3>4. PICK year0 \in {365, 366} : year0 = daysInYear(y) /\ t - s = year0
      <4>1. daysInYear(y) \in {365, 366}
        BY DEF daysInYear
      <4> QED BY <1>2, <4>1, YearsAreAsLongAsTheirDates
    <3>5. i <= year0
      BY <3>2, <3>4, MonthStarts, SMT
    <3> QED BY <3>3, <3>4, <3>5
  <2> QED BY <2>1, <2>2
<1> QED BY <1>2, <1>3, <1>4, <1>5, <1>6, <1>7

\* The year and month of a day are those it lies in.
LEMMA MonthIs ==
  ASSUME NEW y \in Int, NEW mon \in 0 .. 11, NEW n \in Int,
         DayNumber(y, mon, 1) <= n, n < DayNumber(y, mon + 1, 1)
  PROVE  YearOf(n) = y /\ MonthOf(n) = mon
<1>1. YearOf(n) = y
  <2>1. PICK f \in Int, g \in Int, s \in Int, t \in Int :
          /\ f = DayNumber(y, mon, 1) /\ g = DayNumber(y, mon + 1, 1)
          /\ s = DaysBeforeYear(y) /\ t = DaysBeforeYear(y + 1)
          /\ s <= f /\ g <= t
    BY MonthLies
  <2>2. DaysBeforeYear(y) <= n /\ n < DaysBeforeYear(y + 1)
    BY <2>1
  <2> QED BY <2>2, YearIs
<1>2. PICK r \in 0 .. 11 : r = MonthOf(n)
  BY DatesReadBack
<1>3. PICK dt \in Int, length \in Int :
        /\ dt = DateOf(n) /\ length = daysInMonth(y, r) /\ 1 <= dt /\ dt <= length
        /\ DayNumber(y, r, dt) = n
  <2>1. daysInMonth(y, r) \in Int
    BY MonthLies
  <2>2. DateOf(n) \in 1 .. daysInMonth(y, r) /\ DayNumber(y, r, DateOf(n)) = n
    BY <1>1, <1>2, DatesReadBack
  <2> QED BY <2>1, <2>2
<1>4. PICK s \in Int, a \in Int, b \in Int :
        /\ s = DaysBeforeYear(y) /\ a = DaysBeforeMonth(y, r) /\ b = DaysBeforeMonth(y, mon)
  BY MonthStartType
<1>5. n = s + a + dt - 1
  BY <1>3, <1>4, DayNumberInYear
<1>6. PICK length0 \in Int :
        /\ DayNumber(y, mon, 1) = s + b /\ DayNumber(y, mon + 1, 1) = s + b + length0
        /\ length0 = daysInMonth(y, mon)
  BY <1>4, MonthLies
<1>7. s + b <= n /\ n < s + b + length0
  BY <1>6
<1>8. ASSUME NEW i \in 0 .. 11, NEW j \in 0 .. 11, i < j
      PROVE  DayNumber(y, i, 1) + daysInMonth(y, i) <= DayNumber(y, j, 1)
  <2>1. PICK k \in 0 .. 11 : k = i + 1
    <3>1. i + 1 \in 0 .. 11 BY <1>8, SMT
    <3> QED BY <3>1
  <2>2. PICK fi \in Int, fk \in Int, fj \in Int, li \in Int, bk \in Int, bj \in Int :
          /\ fi = DayNumber(y, i, 1) /\ fk = DayNumber(y, k, 1) /\ fj = DayNumber(y, j, 1)
          /\ li = daysInMonth(y, i) /\ bk = DaysBeforeMonth(y, k) /\ bj = DaysBeforeMonth(y, j)
    <3>1. /\ DayNumber(y, i, 1) \in Int /\ DayNumber(y, k, 1) \in Int /\ DayNumber(y, j, 1) \in Int
          /\ daysInMonth(y, i) \in Int
          /\ DaysBeforeMonth(y, k) \in Int /\ DaysBeforeMonth(y, j) \in Int
      <4>1. k \in Int /\ j \in Int /\ i \in Int /\ 1 \in Int
        BY <2>1
      <4> QED BY <4>1, DayNumberType, DaysInMonthType, MonthStartType
    <3> QED BY <3>1
  <2>3. fk = fi + li
    <3>1. DayNumber(y, i + 1, 1) = fi + li
      <4>1. DayNumber(y, i + 1, 1) = DayNumber(y, i, 1) + daysInMonth(y, i)
        BY MonthLies
      <4> QED BY <2>2, <4>1, Zenon
    <3> QED BY <2>1, <2>2, <3>1
  <2>4. bk <= bj
    <3>1. CASE k = j
      BY <2>2, <3>1
    <3>2. CASE k < j
      <4>1. bk + 28 <= bj
        BY <2>2, <3>2, MonthsInOrder
      <4> QED BY <4>1
    <3> QED BY <1>8, <2>1, <3>1, <3>2
  <2>5. fk = s + bk /\ fj = s + bj
    BY <1>4, <2>2, FirstOfMonthInYear
  <2> QED BY <2>2, <2>3, <2>4, <2>5
<1>9. PICK f \in Int, g \in Int : f = DayNumber(y, r, 1) /\ g = DayNumber(y, mon, 1) /\ f = s + a /\ g = s + b
  <2>1. s + a \in Int /\ s + b \in Int
    OBVIOUS
  <2> QED BY <1>4, <2>1, FirstOfMonthInYear
<1>10. ~(r < mon)
  <2> SUFFICES ASSUME r < mon PROVE FALSE
    OBVIOUS
  <2>1. f + length <= g
    BY <1>3, <1>8, <1>9
  <2> QED BY <1>3, <1>5, <1>7, <1>9, <2>1
<1>11. ~(mon < r)
  <2> SUFFICES ASSUME mon < r PROVE FALSE
    OBVIOUS
  <2>1. g + length0 <= f
    BY <1>6, <1>8, <1>9
  <2> QED BY <1>3, <1>5, <1>7, <1>9, <2>1
<1> QED BY <1>1, <1>2, <1>10, <1>11

\* A date of a month is read back.
LEMMA DateIs ==
  ASSUME NEW y \in Int, NEW mon \in 0 .. 11, NEW dt \in 1 .. daysInMonth(y, mon)
  PROVE  LET n == DayNumber(y, mon, dt) IN
           n \in Int /\ YearOf(n) = y /\ MonthOf(n) = mon /\ DateOf(n) = dt
<1>1. PICK f \in Int, length \in Int, s \in Int, b \in Int :
        /\ f = DayNumber(y, mon, 1) /\ length = daysInMonth(y, mon)
        /\ s = DaysBeforeYear(y) /\ b = DaysBeforeMonth(y, mon)
        /\ f = s + b /\ DayNumber(y, mon + 1, 1) = f + length
  <2>1. /\ DayNumber(y, mon, 1) \in Int /\ daysInMonth(y, mon) \in Int
        /\ DaysBeforeYear(y) \in Int /\ DaysBeforeMonth(y, mon) \in Int
    BY MonthLies, MonthStartType
  <2>2. DayNumber(y, mon + 1, 1) = DayNumber(y, mon, 1) + daysInMonth(y, mon)
    BY MonthLies
  <2> QED BY <2>1, <2>2, FirstOfMonthInYear
<1>2. dt \in Int /\ 1 <= dt /\ dt <= length
  BY <1>1
<1>3. PICK n \in Int : n = f + dt - 1 /\ n = DayNumber(y, mon, dt)
  <2>1. DayNumber(y, mon, dt) = s + b + dt - 1
    BY <1>1, <1>2, DayNumberInYear
  <2>2. s + b + dt - 1 \in Int /\ s + b + dt - 1 = f + dt - 1
    BY <1>1, <1>2
  <2> QED BY <2>1, <2>2
<1>4. YearOf(n) = y /\ MonthOf(n) = mon
  <2>1. f <= n /\ n < f + length
    BY <1>2, <1>3
  <2> QED BY <1>1, <2>1, MonthIs
<1>5. DateOf(n) = dt
  <2>1. DateOf(n) = n - s - b + 1
    BY <1>1, <1>4 DEF DateOf, DateInYear, MonthOf
  <2> QED BY <1>1, <1>2, <1>3, <2>1
<1> QED BY <1>3, <1>4, <1>5

-----------------------------------------------------------------------------
(***************************************************************************)
(* Clocks that are changed within days.  A skipped clock time is shown an hour *)
(* later on the same day, so every day has its midnight and midnights divide *)
(* time into days.                                                         *)
(***************************************************************************)
LEMMA SkippedIs ==
  ASSUME NEW c \in Int, Local(FromLocal(c)) # c
  PROVE  /\ FromLocal(c) = c - StandardOffset /\ Local(FromLocal(c)) = c + 60
         /\ \E s \in SummerTimes :
              s[1] + StandardOffset <= c /\ c < s[1] + StandardOffset + 60
<1>1. PICK std \in Int : std = StandardOffset
  BY ZoneAssumption
<1>2. PICK p \in Int, q \in Int : p = c - std - 60 /\ q = c - std
  OBVIOUS
<1>3. FromLocal(c) = q /\ Local(p) # c
  <2>1. FromLocal(c) = IF Local(p) = c THEN p ELSE q
    BY <1>1, <1>2 DEF FromLocal
  <2> QED BY <2>1
<1>4. PICK offp \in Int, offq \in Int :
        /\ offp = LocalOffset(p) /\ offq = LocalOffset(q)
        /\ offp = std \/ offp = std + 60
        /\ offq = std \/ offq = std + 60
  BY <1>1, LocalOffsetIs
<1>5. Local(p) = p + offp /\ Local(q) = q + offq
  BY <1>4 DEF Local
<1>6. offp = std /\ offq = std + 60
  <2>1. offp # std + 60
    BY <1>2, <1>3, <1>5
  <2>2. offq # std
    BY <1>2, <1>3, <1>5
  <2> QED BY <1>4, <2>1, <2>2
<1>7. PICK s \in SummerTimes : s[1] <= q /\ q < s[2]
  <2>1. offq # std
    BY <1>6
  <2> QED BY <1>1, <1>4, <2>1, LocalOffsetIs
<1>8. PICK from \in Int, to \in Int : from = s[1] /\ to = s[2]
  BY ZoneAssumption
<1>9. ~(from <= p /\ p < to)
  BY <1>1, <1>4, <1>6, <1>8, LocalOffsetIs
<1>10. from + std <= c /\ c < from + std + 60
  BY <1>2, <1>7, <1>8, <1>9
<1> QED BY <1>1, <1>2, <1>3, <1>5, <1>6, <1>8, <1>10

\* The time of a midnight.
MidnightOf(x, n) == IF x.isUTC THEN n * MinutesPerDay ELSE FromLocal(n * MinutesPerDay)

\* Where changes of the clock do not touch midnight, a clock time that is
\* skipped becomes one of the same day, and no midnight is skipped.
LEMMA DayIsKept ==
  ASSUME ClockChangesWithinDays, NEW c \in Int
  PROVE  /\ Local(FromLocal(c)) \div MinutesPerDay = c \div MinutesPerDay
         /\ c % MinutesPerDay = 0 => Local(FromLocal(c)) = c
<1>1. CASE Local(FromLocal(c)) = c
  BY <1>1
<1>2. CASE Local(FromLocal(c)) # c
  <2>1. PICK s \in SummerTimes :
          s[1] + StandardOffset <= c /\ c < s[1] + StandardOffset + 60
    BY <1>2, SkippedIs
  <2>2. PICK t \in Int : t = s[1] + StandardOffset
    BY ZoneAssumption
  <2>3. t % 1440 \in 1 .. 1320
    <3>1. (s[1] + StandardOffset) % MinutesPerDay \in 1 .. 22 * 60
      BY DEF ClockChangesWithinDays
    <3>2. (s[1] + StandardOffset) % 1440 \in 1 .. 22 * 60
      BY <3>1 DEF MinutesPerDay
    <3> QED BY <2>2, <3>2
  <2>4. t <= c /\ c < t + 60
    BY <2>1, <2>2, ZoneAssumption
  <2>5. (c + 60) \div 1440 = c \div 1440 /\ c % 1440 # 0
    BY <2>3, <2>4, SMT
  <2>6. Local(FromLocal(c)) = c + 60
    BY <1>2, SkippedIs
  <2> QED BY <2>5, <2>6 DEF MinutesPerDay
<1> QED BY <1>1, <1>2

\* A day has begun when its midnight has passed, though what comes twice
\* makes the clock go back.
LEMMA MidnightsDivideDays ==
  ASSUME ClockChangesWithinDays, NEW x \in Moment, NEW n \in Int
  PROVE  MidnightOf(x, n) \in Int /\ (n <= DayOf(x) <=> MidnightOf(x, n) <= x.d)
<1>1. PICK t \in Int, c \in Int : t = x.d /\ c = n * MinutesPerDay /\ c = n * 1440
  <2>1. n * 1440 \in Int BY SMT
  <2> QED BY <2>1 DEF Moment, MinutesPerDay
<1>2. ASSUME NEW k \in Int PROVE n <= k \div 1440 <=> c <= k
  BY <1>1, SMT
<1>3. CASE x.isUTC
  <2>1. DayOf(x) = t \div 1440 /\ MidnightOf(x, n) = c
    BY <1>1, <1>3 DEF DayOf, Clock, MidnightOf, MinutesPerDay
  <2> QED BY <1>1, <1>2, <2>1
<1>4. CASE ~x.isUTC
  <2>0. PICK l \in Int, std \in Int, k \in Int :
          l = FromLocal(c) /\ std = StandardOffset /\ k = Local(t)
    BY ZoneType, ZoneAssumption
  <2>1. PICK off \in Int, offl \in Int :
          /\ off = LocalOffset(t) /\ offl = LocalOffset(l)
          /\ off = std \/ off = std + 60
          /\ offl = std \/ offl = std + 60
    BY <2>0, LocalOffsetIs
  <2>2. DayOf(x) = k \div 1440 /\ MidnightOf(x, n) = l
    BY <1>1, <1>4, <2>0, <2>1 DEF DayOf, Clock, MidnightOf, MinutesPerDay
  <2>3. k = t + off /\ c = l + offl
    <3>1. c % MinutesPerDay = 0
      <4>1. c % 1440 = 0 BY <1>1, SMT
      <4> QED BY <4>1 DEF MinutesPerDay
    <3>2. Local(FromLocal(c)) = c
      BY <3>1, DayIsKept
    <3> QED BY <2>0, <2>1, <3>2 DEF Local
  <2>4. ASSUME c <= k, t < l PROVE FALSE
    <3>1. off = std + 60 /\ offl = std
      BY <2>0, <2>1, <2>3, <2>4
    <3>2. PICK s \in SummerTimes : s[1] <= t /\ t < s[2]
      <4>1. off # std
        BY <2>0, <2>1, <3>1
      <4> QED BY <2>0, <2>1, <4>1, LocalOffsetIs
    <3>3. PICK from \in Int, to \in Int : from = s[1] /\ to = s[2] /\ from + 60 < to
      BY ZoneAssumption
    <3>4. ~(from <= l /\ l < to)
      BY <2>0, <2>1, <3>1, <3>3, LocalOffsetIs
    <3>5. PICK p \in Int : p = c - std - 60 /\ p = l - 60
      <4>1. c - std - 60 = l - 60
        BY <2>3, <3>1
      <4> QED BY <4>1
    <3>6. from <= p /\ p < to
      BY <2>3, <2>4, <3>1, <3>2, <3>3, <3>4, <3>5
    <3>7. LocalOffset(p) = std + 60
      BY <2>0, <2>1, <3>3, <3>6, LocalOffsetIs
    <3>8. Local(p) = c
      BY <3>5, <3>7 DEF Local
    <3>9. FromLocal(c) = p
      BY <2>0, <2>1, <3>5, <3>8 DEF FromLocal
    <3> QED BY <2>0, <2>1, <3>5, <3>9
  <2>5. ASSUME l <= t, k < c PROVE FALSE
    <3>1. off = std /\ offl = std + 60
      BY <2>0, <2>1, <2>3, <2>5
    <3>2. PICK s \in SummerTimes : s[1] <= l /\ l < s[2]
      <4>1. offl # std
        BY <2>0, <2>1, <3>1
      <4> QED BY <2>0, <2>1, <4>1, LocalOffsetIs
    <3>3. PICK from \in Int, to \in Int : from = s[1] /\ to = s[2]
      BY ZoneAssumption
    <3>4. ~(from <= t /\ t < to)
      BY <2>0, <2>1, <3>1, <3>3, LocalOffsetIs
    <3>5. c - 60 < to + std /\ to + std < c
      BY <2>3, <2>5, <3>1, <3>2, <3>3, <3>4
    <3>6. (to + std) % 1440 \in 0 .. 1380
      <4>1. (s[2] + StandardOffset) % MinutesPerDay \in 0 .. 23 * 60
        BY DEF ClockChangesWithinDays
      <4>2. (s[2] + StandardOffset) % 1440 \in 0 .. 23 * 60
        BY <4>1 DEF MinutesPerDay
      <4> QED BY <2>0, <2>1, <3>3, <4>2
    <3> QED BY <1>1, <3>5, <3>6, SMT
  <2> QED BY <1>1, <1>2, <2>0, <2>1, <2>2, <2>4, <2>5
<1> QED BY <1>3, <1>4

(***************************************************************************)
(* The days a unit of time covers: those from the first one of its own     *)
(* up to the first one of the next.                                        *)
(***************************************************************************)
DayUnits == UnitsOfTime \ {"hour"}

FirstDay(n, unit, dow) ==
  CASE unit = "year"    -> DaysBeforeYear(YearOf(n))
    [] unit = "quarter" -> DayNumber(YearOf(n), MonthOf(n) - (MonthOf(n) % 3), 1)
    [] unit = "month"   -> DayNumber(YearOf(n), MonthOf(n), 1)
    [] unit = "week"    -> n - ((WeekdayOf(n) + 7 - dow) % 7)
    [] unit = "isoWeek" -> n - ((WeekdayOf(n) + 6) % 7)
    [] unit = "day"     -> n

NextFirstDay(n, unit, dow) ==
  CASE unit = "year"    -> DaysBeforeYear(YearOf(n) + 1)
    [] unit = "quarter" -> DayNumber(YearOf(n), MonthOf(n) - (MonthOf(n) % 3) + 3, 1)
    [] unit = "month"   -> DayNumber(YearOf(n), MonthOf(n) + 1, 1)
    [] unit = "week"    -> n - ((WeekdayOf(n) + 7 - dow) % 7) + 7
    [] unit = "isoWeek" -> n - ((WeekdayOf(n) + 6) % 7) + 7
    [] unit = "day"     -> n + 1

\* A unit covers its days, and these belong to it; the next one follows.
Covers(a, b, n, unit, dow) ==
  /\ a \in Int /\ b \in Int
  /\ a = FirstDay(n, unit, dow) /\ b = NextFirstDay(n, unit, dow)
  /\ a <= n /\ n < b
  /\ \A k \in Int : a <= k /\ k < b => FirstDay(k, unit, dow) = a /\ NextFirstDay(k, unit, dow) = b
  /\ FirstDay(b, unit, dow) = b

LEMMA YearCovers ==
  ASSUME NEW n \in Int, NEW dow
  PROVE  \E a \in Int, b \in Int : Covers(a, b, n, "year", dow)
<1>1. PICK y \in Int, z \in Int, w \in Int :
        y = YearOf(n) /\ z = y + 1 /\ w = z + 1 /\ DaysBeforeYear(y) <= n /\ n < DaysBeforeYear(z)
  BY YearOfDay
<1>2. PICK a \in Int, b \in Int, c \in Int :
        a = DaysBeforeYear(y) /\ b = DaysBeforeYear(z) /\ c = DaysBeforeYear(w)
  <2>1. DaysBeforeYear(y) \in Int /\ DaysBeforeYear(z) \in Int /\ DaysBeforeYear(w) \in Int
    BY YearShare
  <2> QED BY <2>1
<1>3. \A k \in Int : a <= k /\ k < b => YearOf(k) = y
  BY <1>1, <1>2, YearIs
<1>4. YearOf(b) = z
  <2>1. c - b = daysInYear(z)
    BY <1>1, <1>2, YearsAreAsLongAsTheirDates
  <2>2. daysInYear(z) \in {365, 366}
    BY DEF daysInYear
  <2>3. b < c
    BY <2>1, <2>2
  <2> QED BY <1>1, <1>2, <2>3, YearIs
<1>5. Covers(a, b, n, "year", dow)
  BY <1>1, <1>2, <1>3, <1>4, Zenon DEF Covers, FirstDay, NextFirstDay
<1> QED BY <1>5

LEMMA MonthIsInYear ==
  ASSUME NEW y \in Int, NEW i \in 0 .. 11
  PROVE  /\ DayNumber(y, i, 1) \in Int /\ DaysBeforeYear(y) \in Int /\ DaysBeforeYear(y + 1) \in Int
         /\ DaysBeforeYear(y) <= DayNumber(y, i, 1)
         /\ DayNumber(y, i, 1) + 28 <= DaysBeforeYear(y + 1)
<1>1. PICK f \in Int, h \in Int, length \in Int, s \in Int, t \in Int, k \in Int :
        /\ f = DayNumber(y, i, 1) /\ h = DayNumber(y, i + 1, 1)
        /\ length = daysInMonth(y, i)
        /\ s = DaysBeforeYear(y) /\ t = DaysBeforeYear(y + 1)
        /\ k = DaysBeforeMonth(y, i)
        /\ h = f + length /\ length >= 28 /\ f = s + k /\ s <= f /\ h <= t
  BY MonthLies
<1> QED BY <1>1

\* The first days of the months of a year, and of the next year, in order.
LEMMA MonthsStartInOrder ==
  ASSUME NEW y \in Int, NEW i \in 0 .. 11, NEW j \in 1 .. 12, i < j
  PROVE  /\ DayNumber(y, i, 1) \in Int /\ DayNumber(y, j, 1) \in Int
         /\ DaysBeforeYear(y) <= DayNumber(y, i, 1)
         /\ DayNumber(y, i, 1) < DayNumber(y, j, 1)
         /\ DayNumber(y, j, 1) <= DaysBeforeYear(y + 1)
<1>1. PICK f \in Int, s \in Int, t \in Int, z \in Int, g \in Int :
        /\ f = DayNumber(y, i, 1) /\ z = y + 1
        /\ s = DaysBeforeYear(y) /\ t = DaysBeforeYear(z) /\ g = DayNumber(y, j, 1)
        /\ s <= f /\ f + 28 <= t
  <2>1. DayNumber(y, j, 1) \in Int
    <3>1. j \in Int OBVIOUS
    <3> QED BY <3>1, DayNumberType
  <2>0. PICK z \in Int : z = y + 1
    OBVIOUS
  <2>2. PICK f \in Int, s \in Int : f = DayNumber(y, i, 1) /\ s = DaysBeforeYear(y)
    BY MonthIsInYear
  <2>3. PICK t \in Int : t = DaysBeforeYear(z)
    BY YearShare
  <2>4. s <= f /\ f + 28 <= t
    BY <2>0, <2>2, <2>3, MonthIsInYear
  <2> QED BY <2>0, <2>1, <2>2, <2>3, <2>4
<1>2. CASE j = 12
  <2>1. g = t
    <3>1. y + 12 \div 12 = z /\ 12 % 12 = 0
      BY <1>1, SMT
    <3>2. 0 \in 0 .. 11 /\ DayNumber(z, 0, 1) = t + 1 - 1
      BY <1>1, FirstOfYear
    <3>3. z + 0 \div 12 = z /\ 0 % 12 = 0
      BY SMT
    <3>4. g = DaysBeforeYear(z) + DaysBeforeMonth(z, 0) + 1 - 1
      BY <1>1, <1>2, <3>1, Zenon DEF DayNumber
    <3>5. DayNumber(z, 0, 1) = DaysBeforeYear(z) + DaysBeforeMonth(z, 0) + 1 - 1
      BY <3>3, Zenon DEF DayNumber
    <3> QED BY <3>2, <3>4, <3>5
  <2> QED BY <1>1, <2>1
<1>3. CASE j # 12
  <2>1. PICK l \in 0 .. 11 : l = j
    BY <1>3
  <2>2. PICK a \in Int, b \in Int : a = DaysBeforeMonth(y, i) /\ b = DaysBeforeMonth(y, l)
    BY MonthStartType
  <2>3. a + 28 <= b
    <3>1. DaysBeforeMonth(y, i) + 28 <= DaysBeforeMonth(y, l)
      BY <2>1, MonthsInOrder
    <3> QED BY <2>2, <3>1
  <2>4. f = s + a /\ g = s + b
    BY <1>1, <2>1, <2>2, FirstOfMonthInYear
  <2>5. g <= t
    <3>1. DayNumber(y, l, 1) + 28 <= DaysBeforeYear(y + 1)
      BY MonthIsInYear
    <3>2. g + 28 <= t
      BY <1>1, <2>1, <3>1
    <3> QED BY <3>2
  <2> QED BY <1>1, <2>3, <2>4, <2>5
<1> QED BY <1>2, <1>3

\* A day lies in its month.
LEMMA MonthOfADay ==
  ASSUME NEW n \in Int, NEW y \in Int, y = YearOf(n), NEW r \in 0 .. 11, r = MonthOf(n),
         NEW p \in 1 .. 12, p = r + 1
  PROVE  /\ DayNumber(y, r, 1) \in Int /\ DayNumber(y, p, 1) \in Int
         /\ DayNumber(y, r, 1) <= n /\ n < DayNumber(y, p, 1)
<1>0. PICK s \in Int : s = DaysBeforeYear(y)
  BY YearShare
<1>1. PICK dt \in Int, length \in Int :
        /\ dt = DateOf(n) /\ length = daysInMonth(y, r) /\ 1 <= dt /\ dt <= length
        /\ DayNumber(y, r, dt) = n
  <2>1. daysInMonth(y, r) \in Int
    BY MonthLies
  <2>2. DateOf(n) \in 1 .. daysInMonth(y, r) /\ DayNumber(y, r, DateOf(n)) = n
    BY DatesReadBack
  <2> QED BY <2>1, <2>2
<1>2. PICK b \in Int, fr \in Int, fp \in Int :
        b = DaysBeforeMonth(y, r) /\ fr = DayNumber(y, r, 1) /\ fp = DayNumber(y, p, 1)
  <2>1. DayNumber(y, r, 1) \in Int /\ DayNumber(y, p, 1) \in Int
    <3>1. r \in Int /\ p \in Int /\ 1 \in Int
      OBVIOUS
    <3> QED BY <3>1, DayNumberType
  <2> QED BY <2>1, MonthStartType
<1>3. n = s + b + dt - 1 /\ fr = s + b
  <2>1. DayNumber(y, r, dt) = s + b + dt - 1
    <3>1. DayNumber(y, r, dt) = DaysBeforeYear(y) + DaysBeforeMonth(y, r) + dt - 1
      BY DayNumberInYear
    <3> QED BY <1>0, <1>2, <3>1, Zenon
  <2>2. DayNumber(y, r, 1) = s + b
    BY <1>0, <1>2, FirstOfMonthInYear
  <2> QED BY <1>1, <1>2, <2>1, <2>2
<1>4. fp = fr + length
  <2>1. DayNumber(y, r + 1, 1) = DayNumber(y, r, 1) + daysInMonth(y, r)
    BY MonthLies
  <2> QED BY <1>1, <1>2, <2>1
<1> QED BY <1>0, <1>1, <1>2, <1>3, <1>4

\* The days of some months in a row.
LEMMA DaysOfMonths ==
  ASSUME NEW y \in Int, NEW i \in 0 .. 11, NEW j \in 1 .. 12, i < j,
         NEW n \in Int, DayNumber(y, i, 1) <= n, n < DayNumber(y, j, 1)
  PROVE  YearOf(n) = y /\ MonthOf(n) \in 0 .. 11 /\ i <= MonthOf(n) /\ MonthOf(n) < j
<1>1. PICK f \in Int, g \in Int, s \in Int, t \in Int :
        /\ f = DayNumber(y, i, 1) /\ g = DayNumber(y, j, 1)
        /\ s = DaysBeforeYear(y) /\ t = DaysBeforeYear(y + 1)
        /\ s <= f /\ f < g /\ g <= t
  <2>1. DaysBeforeYear(y) \in Int /\ DaysBeforeYear(y + 1) \in Int
    <3>1. y + 1 \in Int OBVIOUS
    <3> QED BY <3>1, YearShare
  <2> QED BY <2>1, MonthsStartInOrder
<1>2. YearOf(n) = y
  <2>1. s <= n /\ n < t
    BY <1>1
  <2> QED BY <1>1, <2>1, YearIs
<1>3. PICK r \in 0 .. 11, p \in 1 .. 12 : r = MonthOf(n) /\ p = r + 1
  <2>1. MonthOf(n) \in 0 .. 11
    BY DatesReadBack
  <2>2. MonthOf(n) + 1 \in 1 .. 12
    BY <2>1
  <2> QED BY <2>1, <2>2
<1>4. DayNumber(y, r, 1) <= n /\ n < DayNumber(y, p, 1)
  BY <1>2, <1>3, MonthOfADay
<1>5. i <= r
  <2> SUFFICES ASSUME r < i PROVE FALSE
    BY <1>3
  <2>1. CASE p = i
    BY <1>1, <1>4, <2>1
  <2>2. CASE p < i
    <3>1. p \in 0 .. 11 /\ i \in 1 .. 12
      BY <2>2
    <3>2. DayNumber(y, p, 1) < DayNumber(y, i, 1) /\ DayNumber(y, p, 1) \in Int
      BY <2>2, <3>1, MonthsStartInOrder
    <3> QED BY <1>1, <1>4, <3>2
  <2> QED BY <1>3, <2>1, <2>2
<1>6. r < j
  <2> SUFFICES ASSUME j <= r PROVE FALSE
    BY <1>3
  <2>1. CASE j = r
    BY <1>1, <1>4, <2>1
  <2>2. CASE j < r
    <3>1. j \in 0 .. 11 /\ r \in 1 .. 12
      BY <1>3, <2>2
    <3>2. DayNumber(y, j, 1) < DayNumber(y, r, 1) /\ DayNumber(y, r, 1) \in Int
      BY <2>2, <3>1, MonthsStartInOrder
    <3> QED BY <1>1, <1>4, <3>2
  <2> QED BY <1>3, <2>1, <2>2
<1> QED BY <1>2, <1>3, <1>5, <1>6

-----------------------------------------------------------------------------
(***************************************************************************)
(* Every day lies in one unit of each kind, and its first and its next     *)
(* first day are what startOf and endOf look for (moment.js:4073).         *)
(***************************************************************************)
\* The first day of a month reads back, also if it is the one after December.
LEMMA FirstDayReadsBack ==
  ASSUME NEW y \in Int, NEW j \in 0 .. 12
  PROVE  \E z \in Int, r \in 0 .. 11, n \in Int :
           /\ n = DayNumber(y, j, 1) /\ n = DayNumber(z, r, 1) /\ r = j % 12
           /\ YearOf(n) = z /\ MonthOf(n) = r
<1>1. ASSUME NEW z \in Int, NEW r \in 0 .. 11
      PROVE  YearOf(DayNumber(z, r, 1)) = z /\ MonthOf(DayNumber(z, r, 1)) = r
  <2>1. PICK p \in 1 .. 12 : p = r + 1
    <3>1. r + 1 \in 1 .. 12 OBVIOUS
    <3> QED BY <3>1
  <2>2. PICK f \in Int, g \in Int : f = DayNumber(z, r, 1) /\ g = DayNumber(z, p, 1) /\ f < g
    <3>1. r < p
      BY <2>1
    <3>2. /\ DayNumber(z, r, 1) \in Int /\ DayNumber(z, p, 1) \in Int
          /\ DayNumber(z, r, 1) < DayNumber(z, p, 1)
      BY <3>1, MonthsStartInOrder
    <3> QED BY <3>2
  <2>3. r < p /\ DayNumber(z, r, 1) <= f /\ f < DayNumber(z, p, 1)
    BY <2>1, <2>2
  <2>4. YearOf(f) = z /\ MonthOf(f) \in 0 .. 11 /\ r <= MonthOf(f) /\ MonthOf(f) < p
    BY <2>3, DaysOfMonths
  <2>5. MonthOf(f) = r
    BY <2>1, <2>4
  <2> QED BY <2>2, <2>4, <2>5
<1>2. PICK n \in Int : n = DayNumber(y, j, 1)
  <2>1. j \in Int /\ 1 \in Int
    OBVIOUS
  <2> QED BY <2>1, DayNumberType
<1>3. CASE j # 12
  <2>1. PICK r \in 0 .. 11 : r = j /\ r = j % 12
    <3>1. j \in 0 .. 11 /\ j = j % 12
      BY <1>3, SMT
    <3> QED BY <3>1
  <2> QED BY <1>1, <1>2, <2>1
<1>4. CASE j = 12
  <2>1. PICK z \in Int : z = y + 1
    OBVIOUS
  <2>2. y + 12 \div 12 = z /\ 12 % 12 = 0 /\ z + 0 \div 12 = z /\ 0 % 12 = 0
    BY <2>1, SMT
  <2>3. DayNumber(y, 12, 1) = DayNumber(z, 0, 1)
    BY <2>2, Zenon DEF DayNumber
  <2>4. PICK r \in 0 .. 11 : r = 0 /\ r = j % 12
    BY <1>4, <2>2
  <2> QED BY <1>1, <1>2, <1>4, <2>1, <2>3, <2>4
<1> QED BY <1>3, <1>4

LEMMA QuarterCovers ==
  ASSUME NEW n \in Int, NEW dow
  PROVE  \E a \in Int, b \in Int : Covers(a, b, n, "quarter", dow)
<1>1. PICK y \in Int, r \in 0 .. 11 : y = YearOf(n) /\ r = MonthOf(n)
  BY DatesReadBack
<1>2. PICK i \in 0 .. 11, j \in 1 .. 12 :
        /\ i = r - (r % 3) /\ j = i + 3 /\ i <= r /\ r < j /\ j % 3 = 0
        /\ \A k \in 0 .. 11 : i <= k /\ k < j => k - (k % 3) = i
  <2>1. r - (r % 3) \in 0 .. 11 /\ r - (r % 3) + 3 \in 1 .. 12
    BY SMT
  <2>2. /\ r - (r % 3) <= r /\ r < r - (r % 3) + 3 /\ (r - (r % 3) + 3) % 3 = 0
        /\ \A k \in 0 .. 11 : r - (r % 3) <= k /\ k < r - (r % 3) + 3 => k - (k % 3) = r - (r % 3)
    BY SMT
  <2> QED BY <2>1, <2>2
<1>3. PICK a \in Int, b \in Int : a = DayNumber(y, i, 1) /\ b = DayNumber(y, j, 1)
  <2>1. i < j
    BY <1>2
  <2>2. DayNumber(y, i, 1) \in Int /\ DayNumber(y, j, 1) \in Int
    BY <2>1, MonthsStartInOrder
  <2> QED BY <2>2
<1>4. a <= n /\ n < b
  <2>1. PICK q \in 1 .. 12 : q = r + 1 /\ q <= j
    <3>1. r + 1 \in 1 .. 12 /\ r + 1 <= j
      BY <1>2
    <3> QED BY <3>1
  <2>2. PICK f \in Int, g \in Int : f = DayNumber(y, r, 1) /\ g = DayNumber(y, q, 1) /\ f <= n /\ n < g
    BY <1>1, <2>1, MonthOfADay
  <2>3. a <= f
    <3>1. CASE i = r BY <1>3, <2>2, <3>1
    <3>2. CASE i < r
      <4>1. r \in 1 .. 12 BY <3>2
      <4>2. DayNumber(y, i, 1) < DayNumber(y, r, 1)
        BY <3>2, <4>1, MonthsStartInOrder
      <4> QED BY <1>3, <2>2, <4>2
    <3> QED BY <1>2, <3>1, <3>2
  <2>4. g <= b
    <3>1. CASE q = j BY <1>3, <2>2, <3>1
    <3>2. CASE q < j
      <4>1. q \in 0 .. 11 BY <3>2
      <4>2. DayNumber(y, q, 1) < DayNumber(y, j, 1)
        BY <3>2, <4>1, MonthsStartInOrder
      <4> QED BY <1>3, <2>2, <4>2
    <3> QED BY <2>1, <3>1, <3>2
  <2> QED BY <2>2, <2>3, <2>4
<1>5. ASSUME NEW k \in Int, a <= k, k < b
      PROVE  FirstDay(k, "quarter", dow) = a /\ NextFirstDay(k, "quarter", dow) = b
  <2>1. YearOf(k) = y /\ MonthOf(k) \in 0 .. 11 /\ i <= MonthOf(k) /\ MonthOf(k) < j
    BY <1>2, <1>3, <1>5, DaysOfMonths
  <2>2. MonthOf(k) - (MonthOf(k) % 3) = i
    BY <1>2, <2>1
  <2>3. FirstDay(k, "quarter", dow) = DayNumber(y, i, 1)
    BY <2>1, <2>2 DEF FirstDay
  <2>4. NextFirstDay(k, "quarter", dow) = DayNumber(y, i + 3, 1)
    BY <2>1, <2>2 DEF NextFirstDay
  <2> QED BY <1>2, <1>3, <2>3, <2>4
<1>6. FirstDay(b, "quarter", dow) = b
  <2>1. j \in 0 .. 12
    OBVIOUS
  <2>2. PICK z \in Int, p \in 0 .. 11, d \in Int :
          /\ d = DayNumber(y, j, 1) /\ d = DayNumber(z, p, 1) /\ p = j % 12
          /\ YearOf(d) = z /\ MonthOf(d) = p
    BY <2>1, FirstDayReadsBack
  <2>3. p - (p % 3) = p
    <3>1. CASE j = 12 BY <2>2, <3>1, SMT
    <3>2. CASE j # 12
      <4>1. p = j BY <2>2, <3>2, SMT
      <4> QED BY <1>2, <4>1
    <3> QED BY <3>1, <3>2
  <2>4. d = b
    BY <1>3, <2>2
  <2>5. FirstDay(d, "quarter", dow) = DayNumber(z, p - (p % 3), 1)
    BY <2>2 DEF FirstDay
  <2> QED BY <2>2, <2>3, <2>4, <2>5
<1>7. Covers(a, b, n, "quarter", dow)
  BY <1>4, <1>5, <1>6 DEF Covers
<1> QED BY <1>7

LEMMA MonthCovers ==
  ASSUME NEW n \in Int, NEW dow
  PROVE  \E a \in Int, b \in Int : Covers(a, b, n, "month", dow)
<1>1. PICK y \in Int, r \in 0 .. 11, q \in 1 .. 12 : y = YearOf(n) /\ r = MonthOf(n) /\ q = r + 1
  <2>1. PICK y \in Int, r \in 0 .. 11 : y = YearOf(n) /\ r = MonthOf(n)
    BY DatesReadBack
  <2>2. r + 1 \in 1 .. 12
    OBVIOUS
  <2> QED BY <2>1, <2>2
<1>2. PICK a \in Int, b \in Int : a = DayNumber(y, r, 1) /\ b = DayNumber(y, q, 1) /\ a <= n /\ n < b
  BY <1>1, MonthOfADay
<1>3. ASSUME NEW k \in Int, a <= k, k < b
      PROVE  FirstDay(k, "month", dow) = a /\ NextFirstDay(k, "month", dow) = b
  <2>1. YearOf(k) = y /\ MonthOf(k) \in 0 .. 11 /\ r <= MonthOf(k) /\ MonthOf(k) < q
    BY <1>1, <1>2, <1>3, DaysOfMonths
  <2>2. MonthOf(k) = r /\ MonthOf(k) + 1 = q
    BY <1>1, <2>1
  <2> QED BY <1>2, <2>1, <2>2 DEF FirstDay, NextFirstDay
<1>4. FirstDay(b, "month", dow) = b
  <2>1. q \in 0 .. 12
    OBVIOUS
  <2>2. PICK z \in Int, p \in 0 .. 11, d \in Int :
          /\ d = DayNumber(y, q, 1) /\ d = DayNumber(z, p, 1) /\ p = q % 12
          /\ YearOf(d) = z /\ MonthOf(d) = p
    BY <2>1, FirstDayReadsBack
  <2> QED BY <1>2, <2>2 DEF FirstDay
<1>5. Covers(a, b, n, "month", dow)
  BY <1>2, <1>3, <1>4 DEF Covers
<1> QED BY <1>5

\* Seven days from one that starts a week.
LEMMA SevenDays ==
  ASSUME NEW n \in Int, NEW o \in Int
  PROVE  \E a \in Int, b \in Int :
           /\ a = n - ((n + o) % 7) /\ b = a + 7 /\ a <= n /\ n < b
           /\ \A k \in Int : a <= k /\ k < b => k - ((k + o) % 7) = a
           /\ b - ((b + o) % 7) = b
<1>1. PICK r \in 0 .. 6, q \in Int : r = (n + o) % 7 /\ n + o = 7 * q + r
  <2>1. (n + o) % 7 \in 0 .. 6 /\ (n + o) \div 7 \in Int /\ n + o = 7 * ((n + o) \div 7) + ((n + o) % 7)
    BY SMT
  <2> QED BY <2>1
<1>2. PICK a \in Int, b \in Int : a = n - r /\ b = a + 7
  OBVIOUS
<1>3. \A k \in Int : a <= k /\ k < b => k - ((k + o) % 7) = a
  <2> SUFFICES ASSUME NEW k \in Int, a <= k, k < b PROVE (k + o) % 7 = k - a
    OBVIOUS
  <2>1. k + o = 7 * q + (k - a) /\ k - a \in 0 .. 6
    BY <1>1, <1>2
  <2> QED BY <2>1, SMT
<1>4. (b + o) % 7 = 0
  <2>1. b + o = 7 * (q + 1)
    BY <1>1, <1>2, SMT
  <2> QED BY <2>1, SMT
<1>5. b - ((b + o) % 7) = b
  BY <1>4
<1> QED BY <1>1, <1>2, <1>3, <1>5

LEMMA WeekdaySum ==
  ASSUME NEW k \in Int, NEW e \in Int
  PROVE  (WeekdayOf(k) + e) % 7 = (k + (4 + e)) % 7
<1>1. PICK r \in 0 .. 6, q \in Int : r = (k + 4) % 7 /\ k + 4 = 7 * q + r
  <2>1. (k + 4) % 7 \in 0 .. 6 /\ (k + 4) \div 7 \in Int /\ k + 4 = 7 * ((k + 4) \div 7) + ((k + 4) % 7)
    BY SMT
  <2> QED BY <2>1
<1>2. PICK p \in 0 .. 6, i \in Int : p = (r + e) % 7 /\ r + e = 7 * i + p
  <2>1. (r + e) % 7 \in 0 .. 6 /\ (r + e) \div 7 \in Int /\ r + e = 7 * ((r + e) \div 7) + ((r + e) % 7)
    BY SMT
  <2> QED BY <2>1
<1>3. k + (4 + e) = 7 * (q + i) + p
  BY <1>1, <1>2, SMT
<1>4. (k + (4 + e)) % 7 = p
  <2>1. PICK t \in Int : t = q + i
    OBVIOUS
  <2> QED BY <1>3, <2>1, SMT
<1> QED BY <1>1, <1>2, <1>4 DEF WeekdayOf

LEMMA WeekCovers ==
  ASSUME NEW n \in Int, NEW dow \in 0 .. 6, NEW unit \in {"week", "isoWeek"}
  PROVE  \E a \in Int, b \in Int : Covers(a, b, n, unit, dow)
<1>1. PICK e \in Int : e = IF unit = "week" THEN 7 - dow ELSE 6
  OBVIOUS
<1>2. PICK o \in Int : o = 4 + e
  OBVIOUS
<1>3. ASSUME NEW k \in Int
      PROVE  /\ FirstDay(k, unit, dow) = k - ((k + o) % 7)
             /\ NextFirstDay(k, unit, dow) = (k - ((k + o) % 7)) + 7
  <2>1. PICK w \in Int : w = WeekdayOf(k)
    <3>1. (k + 4) % 7 \in Int BY SMT
    <3> QED BY <3>1 DEF WeekdayOf
  <2>2. (w + e) % 7 = (k + o) % 7
    BY <1>2, <2>1, WeekdaySum
  <2>3. CASE unit = "week"
    <3>1. w + 7 - dow = w + e
      BY <1>1, <2>3
    <3> QED BY <2>1, <2>2, <2>3, <3>1 DEF FirstDay, NextFirstDay
  <2>4. CASE unit = "isoWeek"
    <3>1. w + 6 = w + e
      BY <1>1, <2>4
    <3> QED BY <2>1, <2>2, <2>4, <3>1 DEF FirstDay, NextFirstDay
  <2> QED BY <2>3, <2>4
<1>4. PICK a \in Int, b \in Int :
        /\ a = n - ((n + o) % 7) /\ b = a + 7 /\ a <= n /\ n < b
        /\ \A k \in Int : a <= k /\ k < b => k - ((k + o) % 7) = a
        /\ b - ((b + o) % 7) = b
  BY SevenDays
<1>5. Covers(a, b, n, unit, dow)
  BY <1>3, <1>4 DEF Covers
<1> QED BY <1>5

LEMMA UnitCovers ==
  ASSUME NEW n \in Int, NEW dow \in 0 .. 6, NEW unit \in DayUnits
  PROVE  \E a \in Int, b \in Int : Covers(a, b, n, unit, dow)
<1>1. CASE unit = "day"
  <2>1. PICK b \in Int : b = n + 1
    OBVIOUS
  <2>2. Covers(n, b, n, "day", dow)
    BY <2>1 DEF Covers, FirstDay, NextFirstDay
  <2> QED BY <1>1, <2>2
<1>2. CASE unit = "year"
  BY <1>2, YearCovers
<1>3. CASE unit = "quarter"
  BY <1>3, QuarterCovers
<1>4. CASE unit = "month"
  BY <1>4, MonthCovers
<1>5. CASE unit \in {"week", "isoWeek"}
  BY <1>5, WeekCovers
<1> QED BY <1>1, <1>2, <1>3, <1>4, <1>5 DEF DayUnits, UnitsOfTime

\* Where a unit of days starts and ends.
LEMMA StartsAtMidnight ==
  ASSUME NEW x \in Moment, x.valid, NEW unit \in DayUnits,
         NEW a \in Int, NEW b \in Int, Covers(a, b, DayOf(x), unit, x.week.dow)
  PROVE  /\ startOf(x, unit) = DateAt(x, a * MinutesPerDay)
         /\ endOf(x, unit) = Earlier(DateAt(x, b * MinutesPerDay))
<1>1. PICK n \in Int, y \in Int, r \in 0 .. 11, dt \in Int, dow \in 0 .. 6 :
        /\ n = DayOf(x) /\ y = year(x) /\ r = month(x) /\ dt = date(x) /\ dow = x.week.dow
        /\ y = YearOf(n) /\ r = MonthOf(n) /\ DayNumber(y, r, dt) = n
  <2>1. PICK n \in Int : n = DayOf(x)
    BY ShownType
  <2>2. x.week.dow \in 0 .. 6
    BY RuleIs DEF Moment
  <2>3. year(x) = YearOf(n) /\ month(x) = MonthOf(n) /\ date(x) = DateOf(n)
    BY <2>1 DEF year, month, date
  <2>4. /\ YearOf(n) \in Int /\ MonthOf(n) \in 0 .. 11
        /\ DayNumber(YearOf(n), MonthOf(n), DateOf(n)) = n
    BY DatesReadBack
  <2>5. date(x) \in Int
    BY ShownType
  <2> QED BY <2>1, <2>2, <2>3, <2>4, <2>5
<1>2. PICK f \in Int, d \in Int, sy \in Int, sm \in Int, sd \in Int :
        /\ f = FirstMonth(unit, r) /\ d = FirstDate(x, unit) /\ Span(unit) = <<sy, sm, sd>>
        /\ DayNumber(y, f, d) = a /\ DayNumber(y + sy, f + sm, d + sd) = b
  <2>1. \A e \in Int : DayNumber(y, r, dt + e) = n + e
    <3> SUFFICES ASSUME NEW e \in Int PROVE DayNumber(y, r, dt + e) = n + e
      OBVIOUS
    <3>1. PICK s \in Int, k \in Int : s = DaysBeforeYear(y) /\ k = DaysBeforeMonth(y, r)
      <4>1. DaysBeforeYear(y) \in Int /\ DaysBeforeMonth(y, r) \in Int
        BY MonthStartType
      <4> QED BY <4>1
    <3>2. DayNumber(y, r, dt) = s + k + dt - 1
      <4>1. DayNumber(y, r, dt) = DaysBeforeYear(y) + DaysBeforeMonth(y, r) + dt - 1
        BY DayNumberInYear
      <4> QED BY <3>1, <4>1, Zenon
    <3>3. PICK g \in Int : g = dt + e
      OBVIOUS
    <3>4. DayNumber(y, r, g) = s + k + g - 1
      <4>1. DayNumber(y, r, g) = DaysBeforeYear(y) + DaysBeforeMonth(y, r) + g - 1
        BY DayNumberInYear
      <4> QED BY <3>1, <4>1, Zenon
    <3> QED BY <1>1, <3>2, <3>3, <3>4
  <2>2. a = FirstDay(n, unit, dow) /\ b = NextFirstDay(n, unit, dow)
    BY <1>1 DEF Covers
  <2>3. CASE unit = "year"
    <3>1. PICK z \in Int : z = y + 1
      OBVIOUS
    <3>2. a = DaysBeforeYear(y) /\ b = DaysBeforeYear(z)
      BY <1>1, <2>2, <2>3, <3>1 DEF FirstDay, NextFirstDay
    <3>3. DayNumber(y, 0, 1) = a /\ DayNumber(z, 0, 1) = b
      BY <3>2, FirstOfYear
    <3>4. FirstMonth(unit, r) = 0 /\ FirstDate(x, unit) = 1 /\ Span(unit) = <<1, 0, 0>>
      BY <2>3 DEF FirstMonth, FirstDate, Span
    <3>5. DayNumber(y + 1, 0 + 0, 1 + 0) = b
      BY <3>1, <3>3
    <3> QED BY <3>3, <3>4, <3>5
  <2>4. CASE unit = "quarter"
    <3>1. PICK i \in Int : i = r - (r % 3)
      <4>1. r - (r % 3) \in Int BY SMT
      <4> QED BY <4>1
    <3>2. a = DayNumber(y, i, 1) /\ b = DayNumber(y, i + 3, 1)
      BY <1>1, <2>2, <2>4, <3>1 DEF FirstDay, NextFirstDay
    <3>3. FirstMonth(unit, r) = i /\ FirstDate(x, unit) = 1 /\ Span(unit) = <<0, 3, 0>>
      BY <2>4, <3>1 DEF FirstMonth, FirstDate, Span
    <3>4. DayNumber(y + 0, i + 3, 1 + 0) = b
      BY <3>2
    <3> QED BY <3>2, <3>3, <3>4
  <2>5. CASE unit = "month"
    <3>2. a = DayNumber(y, r, 1) /\ b = DayNumber(y, r + 1, 1)
      BY <1>1, <2>2, <2>5 DEF FirstDay, NextFirstDay
    <3>3. FirstMonth(unit, r) = r /\ FirstDate(x, unit) = 1 /\ Span(unit) = <<0, 1, 0>>
      BY <2>5 DEF FirstMonth, FirstDate, Span
    <3>4. DayNumber(y + 0, r + 1, 1 + 0) = b
      BY <3>2
    <3> QED BY <3>2, <3>3, <3>4
  <2>6. ASSUME NEW e \in Int, NEW g \in Int, FirstMonth(unit, r) = r, FirstDate(x, unit) = dt + e,
               Span(unit) = <<0, 0, g>>, a = n + e, b = a + g
        PROVE  \E f \in Int, d \in Int, sy \in Int, sm \in Int, sd \in Int :
                 /\ f = FirstMonth(unit, r) /\ d = FirstDate(x, unit) /\ Span(unit) = <<sy, sm, sd>>
                 /\ DayNumber(y, f, d) = a /\ DayNumber(y + sy, f + sm, d + sd) = b
    <3>1. DayNumber(y, r, dt + e) = a
      BY <2>1, <2>6
    <3>2. PICK p \in Int : p = e + g
      OBVIOUS
    <3>3. DayNumber(y, r, dt + p) = b
      <4>1. DayNumber(y, r, dt + p) = n + p
        BY <2>1
      <4> QED BY <2>6, <3>2, <4>1
    <3>4. DayNumber(y + 0, r + 0, (dt + e) + g) = b
      <4>1. y + 0 = y /\ r + 0 = r /\ (dt + e) + g = dt + p
        BY <3>2
      <4> QED BY <3>3, <4>1, Zenon
    <3>5. r \in Int /\ dt + e \in Int /\ 0 \in Int
      OBVIOUS
    <3> QED BY <2>6, <3>1, <3>4, <3>5
  <2>7. CASE unit = "day"
    <3>1. PICK e \in Int : e = 0
      OBVIOUS
    <3>2. FirstMonth(unit, r) = r /\ FirstDate(x, unit) = dt + e /\ Span(unit) = <<0, 0, 1>>
      BY <1>1, <2>7, <3>1 DEF FirstMonth, FirstDate, Span
    <3>3. a = n + e /\ b = a + 1
      BY <2>2, <2>7, <3>1 DEF FirstDay, NextFirstDay
    <3> QED BY <2>6, <3>2, <3>3
  <2>8. CASE unit = "week"
    <3>1. PICK w \in Int : w = (WeekdayOf(n) + 7 - dow) % 7
      <4>1. PICK v \in 0 .. 6 : v = WeekdayOf(n)
        BY <1>1, ShownType DEF day
      <4>2. (v + 7 - dow) % 7 \in Int BY SMT
      <4> QED BY <4>1, <4>2
    <3>2. PICK e \in Int : e = -w
      OBVIOUS
    <3>3. FirstDate(x, unit) = dt - w
      BY <1>1, <2>8, <3>1 DEF FirstDate, weekday, day
    <3>4. FirstMonth(unit, r) = r /\ FirstDate(x, unit) = dt + e /\ Span(unit) = <<0, 0, 7>>
      BY <2>8, <3>2, <3>3 DEF FirstMonth, Span
    <3>5. a = n - w /\ b = n - w + 7
      BY <2>2, <2>8, <3>1 DEF FirstDay, NextFirstDay
    <3>6. a = n + e /\ b = a + 7
      BY <3>2, <3>5
    <3> QED BY <2>6, <3>4, <3>6
  <2>9. CASE unit = "isoWeek"
    <3>1. PICK v \in 0 .. 6, w \in Int : v = WeekdayOf(n) /\ w = (v + 6) % 7 /\ w = (IF v = 0 THEN 7 ELSE v) - 1
      <4>1. PICK v \in 0 .. 6 : v = WeekdayOf(n)
        BY <1>1, ShownType DEF day
      <4>2. (v + 6) % 7 \in Int /\ (v + 6) % 7 = (IF v = 0 THEN 7 ELSE v) - 1 BY SMT
      <4> QED BY <4>1, <4>2
    <3>2. PICK e \in Int : e = -w
      OBVIOUS
    <3>3. FirstDate(x, unit) = dt - w
      BY <1>1, <2>9, <3>1 DEF FirstDate, isoWeekday, day
    <3>4. FirstMonth(unit, r) = r /\ FirstDate(x, unit) = dt + e /\ Span(unit) = <<0, 0, 7>>
      BY <2>9, <3>2, <3>3 DEF FirstMonth, Span
    <3>5. a = n - w /\ b = n - w + 7
      BY <2>2, <2>9, <3>1 DEF FirstDay, NextFirstDay
    <3>6. a = n + e /\ b = a + 7
      BY <3>2, <3>5
    <3> QED BY <2>6, <3>4, <3>6
  <2> QED BY <2>3, <2>4, <2>5, <2>7, <2>8, <2>9 DEF DayUnits, UnitsOfTime
<1>3. startOf(x, unit) = StartOfDate(x, y, f, d)
  BY <1>1, <1>2 DEF startOf, DayUnits
<1>4. endOf(x, unit) = Earlier(StartOfDate(x, y + sy, f + sm, d + sd))
  <2>1. Span(unit)[1] = sy /\ Span(unit)[2] = sm /\ Span(unit)[3] = sd
    BY <1>2
  <2> QED BY <1>1, <1>2, <2>1 DEF endOf, DayUnits
<1>5. StartOfDate(x, y, f, d) = DateAt(x, a * MinutesPerDay)
  BY <1>2, StartOfDateIs
<1>6. StartOfDate(x, y + sy, f + sm, d + sd) = DateAt(x, b * MinutesPerDay)
  <2>1. y + sy \in Int /\ f + sm \in Int /\ d + sd \in Int
    OBVIOUS
  <2> QED BY <1>2, <2>1, StartOfDateIs
<1> QED BY <1>3, <1>4, <1>5, <1>6

-----------------------------------------------------------------------------
(***************************************************************************)
(* Units as pieces of time.  The start of a unit and that of the next one are *)
(* midnights, or full hours on the clock, and what lies between has that   *)
(* unit.                                                                   *)
(***************************************************************************)
At(x, t) == [x EXCEPT !.d = t]

\* The piece of time from s to e is the unit of x and of every moment in it,
\* and with the minute after it the next one starts.
Piece(s, e, x, unit) ==
  /\ s \in Int /\ e \in Int /\ s <= x.d /\ x.d <= e
  /\ \A t \in Int : s <= t /\ t <= e =>
       startOf(At(x, t), unit) = At(x, s) /\ endOf(At(x, t), unit) = At(x, e)
  /\ startOf(At(x, e + 1), unit) = At(x, e + 1)

LEMMA HoursArePieces ==
  ASSUME NEW x \in Moment, x.valid
  PROVE  \E s \in Int, e \in Int : Piece(s, e, x, "hour")
<1>1. PICK o \in Int, d \in Int : d = x.d /\ o = IF x.isUTC THEN 0 ELSE StandardOffset
  BY ZoneAssumption DEF Moment
<1>2. ASSUME NEW t \in Int
      PROVE  /\ startOf(At(x, t), "hour") = At(x, t - ((t + o) % 60))
             /\ endOf(At(x, t), "hour") = At(x, t + 59 - ((t + o) % 60))
  <2>1. PICK z \in Moment : z = At(x, t) /\ z.d = t /\ z.isUTC = x.isUTC /\ z.valid
    <3>1. At(x, t) \in Moment /\ At(x, t).d = t /\ At(x, t).isUTC = x.isUTC /\ At(x, t).valid = x.valid
      BY DEF Moment, At
    <3> QED BY <3>1
  <2>2. PICK r \in Int : r = (t + o) % 60
    <3>1. (t + o) % 60 \in Int BY SMT
    <3> QED BY <3>1
  <2>3. InHour(z) = r
    <3>1. CASE x.isUTC
      <4>1. t + 0 = t + o
        BY <1>1, <3>1
      <4> QED BY <2>1, <2>2, <3>1, <4>1 DEF InHour
    <3>2. CASE ~x.isUTC
      <4>1. PICK off \in Int : off = LocalOffset(t) /\ (off = o \/ off = o + 60)
        BY <1>1, <3>2, LocalOffsetIs
      <4>2. (t + off) % 60 = r
        BY <2>2, <4>1, SMT
      <4> QED BY <2>1, <3>2, <4>1, <4>2 DEF InHour, utcOffset
    <3> QED BY <3>1, <3>2
  <2>4. startOf(z, "hour") = At(z, t - r)
    BY <2>1, <2>3 DEF startOf, At
  <2>5. endOf(z, "hour") = At(z, t + 59 - r)
    <3>1. t + 60 - r - 1 = t + 59 - r
      OBVIOUS
    <3> QED BY <2>1, <2>3, <3>1 DEF endOf, At
  <2>6. \A v : At(z, v) = At(x, v)
    BY <2>1 DEF At, Moment
  <2> QED BY <2>1, <2>2, <2>4, <2>5, <2>6
<1>3. PICK r \in 0 .. 59, q \in Int : r = (d + o) % 60 /\ d + o = 60 * q + r
  <2>1. (d + o) % 60 \in 0 .. 59 /\ (d + o) \div 60 \in Int /\ d + o = 60 * ((d + o) \div 60) + ((d + o) % 60)
    BY SMT
  <2> QED BY <2>1
<1>4. PICK s \in Int, e \in Int : s = d - r /\ e = d + 59 - r
  OBVIOUS
<1>5. ASSUME NEW t \in Int, s <= t, t <= e
      PROVE  t - ((t + o) % 60) = s /\ t + 59 - ((t + o) % 60) = e
  <2>1. PICK p \in 0 .. 59 : p = t - s
    BY <1>4, <1>5
  <2>2. t + o = 60 * q + p
    BY <1>3, <1>4, <2>1
  <2>3. (t + o) % 60 = p
    BY <2>2, SMT
  <2> QED BY <1>4, <2>1, <2>3
<1>6. PICK n \in Int : n = e + 1 /\ n - ((n + o) % 60) = n
  <2>1. PICK n \in Int : n = e + 1
    OBVIOUS
  <2>2. n + o = 60 * (q + 1)
    BY <1>3, <1>4, <2>1
  <2>3. (n + o) % 60 = 0
    BY <2>2, SMT
  <2> QED BY <2>1, <2>3
<1>7. startOf(At(x, e + 1), "hour") = At(x, e + 1)
  <2>1. startOf(At(x, n), "hour") = At(x, n)
    BY <1>2, <1>6
  <2> QED BY <1>6, <2>1
<1>8. \A t \in Int : s <= t /\ t <= e =>
        startOf(At(x, t), "hour") = At(x, s) /\ endOf(At(x, t), "hour") = At(x, e)
  <2> SUFFICES ASSUME NEW t \in Int, s <= t, t <= e
               PROVE  startOf(At(x, t), "hour") = At(x, s) /\ endOf(At(x, t), "hour") = At(x, e)
    OBVIOUS
  <2>1. t - ((t + o) % 60) = s /\ t + 59 - ((t + o) % 60) = e
    BY <1>5
  <2> QED BY <1>2, <2>1
<1>9. s <= x.d /\ x.d <= e
  <2>1. s <= d /\ d <= e
    BY <1>4
  <2> QED BY <1>1, <2>1
<1>10. Piece(s, e, x, "hour")
  BY <1>7, <1>8, <1>9 DEF Piece
<1> QED BY <1>10

LEMMA DaysArePieces ==
  ASSUME ClockChangesWithinDays, NEW x \in Moment, x.valid, NEW unit \in DayUnits
  PROVE  \E s \in Int, e \in Int : Piece(s, e, x, unit)
<1>1. PICK n \in Int, dow \in 0 .. 6 : n = DayOf(x) /\ dow = x.week.dow
  <2>1. x.week.dow \in 0 .. 6 /\ DayOf(x) \in Int
    BY RuleIs, ShownType DEF Moment
  <2> QED BY <2>1
<1>2. PICK a \in Int, b \in Int : Covers(a, b, n, unit, dow)
  BY UnitCovers
<1>3. PICK s \in Int, f \in Int, e \in Int : s = MidnightOf(x, a) /\ f = MidnightOf(x, b) /\ e = f - 1
  <2>1. MidnightOf(x, a) \in Int /\ MidnightOf(x, b) \in Int
    BY MidnightsDivideDays
  <2>2. PICK f \in Int : f = MidnightOf(x, b)
    BY <2>1
  <2>3. f - 1 \in Int
    OBVIOUS
  <2> QED BY <2>1, <2>2, <2>3
<1>4. ASSUME NEW t \in Int
      PROVE  /\ At(x, t) \in Moment /\ At(x, t).valid /\ At(x, t).d = t /\ At(x, t).week = x.week
             /\ \A k : MidnightOf(At(x, t), k) = MidnightOf(x, k)
             /\ \A v : At(At(x, t), v) = At(x, v)
             /\ \A k : DateAt(At(x, t), k * MinutesPerDay) = At(x, MidnightOf(x, k))
  BY DEF At, Moment, MidnightOf, DateAt
<1>5. ASSUME NEW t \in Int, NEW k \in Int, NEW c \in Int, NEW d \in Int,
             k = DayOf(At(x, t)), Covers(c, d, k, unit, dow)
      PROVE  /\ startOf(At(x, t), unit) = At(x, MidnightOf(x, c))
             /\ endOf(At(x, t), unit) = At(x, MidnightOf(x, d) - 1)
  <2>1. PICK z \in Moment : z = At(x, t) /\ z.valid /\ z.week.dow = dow
    BY <1>1, <1>4
  <2>2. Covers(c, d, DayOf(z), unit, z.week.dow)
    BY <1>5, <2>1
  <2>3. /\ startOf(z, unit) = DateAt(z, c * MinutesPerDay)
        /\ endOf(z, unit) = Earlier(DateAt(z, d * MinutesPerDay))
    BY <2>1, <2>2, StartsAtMidnight
  <2>4. /\ DateAt(z, c * MinutesPerDay) = At(x, MidnightOf(x, c))
        /\ DateAt(z, d * MinutesPerDay) = At(x, MidnightOf(x, d))
    BY <1>4, <2>1
  <2>5. ASSUME NEW v \in Int PROVE Earlier(At(x, v)) = At(x, v - 1)
    BY DEF Earlier, At, Moment
  <2>6. MidnightOf(x, d) \in Int
    BY MidnightsDivideDays
  <2> QED BY <2>1, <2>3, <2>4, <2>5, <2>6
<1>6. s <= x.d /\ x.d <= e
  <2>1. a <= DayOf(x) /\ ~(b <= DayOf(x))
    BY <1>1, <1>2 DEF Covers
  <2>2. s <= x.d /\ ~(f <= x.d)
    BY <1>3, <2>1, MidnightsDivideDays
  <2>3. x.d \in Int
    BY DEF Moment
  <2> QED BY <1>3, <2>2, <2>3
<1>7. ASSUME NEW t \in Int, s <= t, t <= e
      PROVE  startOf(At(x, t), unit) = At(x, s) /\ endOf(At(x, t), unit) = At(x, e)
  <2>1. PICK z \in Moment : z = At(x, t) /\ z.d = t
    BY <1>4
  <2>2. PICK k \in Int : k = DayOf(z)
    BY ShownType
  <2>3. MidnightOf(z, a) = s /\ MidnightOf(z, b) = f
    BY <1>3, <1>4, <2>1
  <2>4. a <= k
    BY <1>7, <2>1, <2>2, <2>3, MidnightsDivideDays
  <2>5. k < b
    <3>1. ~(f <= t)
      BY <1>3, <1>7
    <3>2. ~(b <= k)
      BY <2>1, <2>2, <2>3, <3>1, MidnightsDivideDays
    <3> QED BY <3>2
  <2>6. Covers(a, b, k, unit, dow)
    BY <1>2, <2>4, <2>5 DEF Covers
  <2> QED BY <1>3, <1>5, <2>1, <2>2, <2>6
<1>8. startOf(At(x, e + 1), unit) = At(x, e + 1)
  <2>1. e + 1 = f
    BY <1>3
  <2>2. PICK z \in Moment : z = At(x, f) /\ z.d = f
    BY <1>4
  <2>3. PICK k \in Int, c \in Int : k = DayOf(z) /\ c = b + 1
    BY ShownType
  <2>4. PICK g \in Int : g = MidnightOf(x, c) /\ f < g
    <3>1. PICK g \in Int : g = MidnightOf(x, c)
      BY MidnightsDivideDays
    <3>2. PICK p \in Int, q \in Int : p = b * 1440 /\ q = c * 1440 /\ q = p + 1440
      <4>1. b * 1440 \in Int /\ c * 1440 \in Int /\ c * 1440 = b * 1440 + 1440
        BY <2>3, SMT
      <4> QED BY <4>1
    <3>3. CASE x.isUTC
      BY <1>3, <3>1, <3>2, <3>3 DEF MidnightOf, MinutesPerDay
    <3>4. CASE ~x.isUTC
      <4>1. f = FromLocal(p) /\ g = FromLocal(q)
        BY <1>3, <3>1, <3>2, <3>4 DEF MidnightOf, MinutesPerDay
      <4>2. PICK std \in Int : std = StandardOffset
        BY ZoneAssumption
      <4>3. /\ f = p - std - 60 \/ f = p - std
            /\ g = q - std - 60 \/ g = q - std
        BY <4>1, <4>2, FromLocalIs
      <4> QED BY <3>1, <3>2, <4>3
    <3> QED BY <3>1, <3>3, <3>4
  <2>5. MidnightOf(z, b) = f /\ MidnightOf(z, c) = g
    BY <1>3, <1>4, <2>2, <2>4
  <2>6. b <= k /\ ~(c <= k)
    BY <2>2, <2>3, <2>4, <2>5, MidnightsDivideDays
  <2>7. k = b
    BY <2>3, <2>6
  <2>8. PICK p \in Int, q \in Int : Covers(p, q, b, unit, dow)
    BY UnitCovers
  <2>9. p = b
    BY <1>2, <2>8 DEF Covers
  <2>10. startOf(z, unit) = At(x, MidnightOf(x, p))
    <3>1. b = DayOf(At(x, f))
      BY <2>2, <2>3, <2>7
    <3> QED BY <1>5, <2>2, <2>8, <3>1
  <2> QED BY <1>3, <2>1, <2>2, <2>9, <2>10
<1>9. Piece(s, e, x, unit)
  BY <1>6, <1>7, <1>8 DEF Piece
<1> QED BY <1>9

LEMMA UnitsArePieces ==
  ASSUME ClockChangesWithinDays, NEW x \in Moment, x.valid, NEW unit \in UnitsOfTime
  PROVE  \E s \in Int, e \in Int : Piece(s, e, x, unit)
BY HoursArePieces, DaysArePieces DEF DayUnits

-----------------------------------------------------------------------------
(***************************************************************************)
(* Units divide time and order moments in it.                              *)
(***************************************************************************)
LEMMA UnitsDivideTimeHolds ==
  ASSUME ClockChangesWithinDays, m \in Moment
  PROVE  UnitsDivideTime
<1> SUFFICES ASSUME m.valid, NEW unit \in UnitsOfTime
             PROVE  LET start == startOf(m, unit)
                        end   == endOf(m, unit)
                    IN  /\ start.d <= m.d /\ m.d <= end.d
                        /\ startOf(end, unit) = start /\ endOf(start, unit) = end
                        /\ startOf(Later(end), unit) = Later(end)
  BY DEF UnitsDivideTime
<1>1. PICK s \in Int, e \in Int : Piece(s, e, m, unit)
  BY UnitsArePieces
<1>2. PICK d \in Int : d = m.d /\ s <= d /\ d <= e /\ At(m, d) = m
  <2>1. m.d \in Int /\ At(m, m.d) = m
    BY DEF Moment, At
  <2> QED BY <1>1, <2>1 DEF Piece
<1>3. \A t \in Int : s <= t /\ t <= e =>
        startOf(At(m, t), unit) = At(m, s) /\ endOf(At(m, t), unit) = At(m, e)
  BY <1>1 DEF Piece
<1>4. startOf(m, unit) = At(m, s) /\ endOf(m, unit) = At(m, e)
  BY <1>2, <1>3
<1>5. startOf(At(m, e), unit) = At(m, s) /\ endOf(At(m, s), unit) = At(m, e)
  <2>1. s <= e /\ s <= s /\ e <= e
    BY <1>2
  <2> QED BY <1>3, <2>1
<1>6. Later(At(m, e)) = At(m, e + 1)
  BY DEF Later, At, Moment
<1>7. startOf(At(m, e + 1), unit) = At(m, e + 1)
  BY <1>1 DEF Piece
<1>8. At(m, s).d = s /\ At(m, e).d = e
  BY DEF At, Moment
<1> QED BY <1>2, <1>4, <1>5, <1>6, <1>7, <1>8

\* The other moment is local and has the locale of the first one.
OtherIsLocal == other.week = m.week /\ other.offset = 0 /\ ~other.isUTC

LEMMA OffsetKeepsWeek ==
  ASSUME NEW x \in Moment, NEW offset \in Int, NEW keepLocalTime \in BOOLEAN
  PROVE  /\ setOffset(x, offset, keepLocalTime).week = x.week
         /\ utc(x, keepLocalTime).week = x.week
         /\ local(x, keepLocalTime).week = x.week
<1>1. \A n \in Int : /\ setOffset(x, n, keepLocalTime).week = x.week
                     /\ setOffset(x, n, keepLocalTime) \in Moment
  <2> SUFFICES ASSUME NEW n \in Int
               PROVE  /\ setOffset(x, n, keepLocalTime).week = x.week
                      /\ setOffset(x, n, keepLocalTime) \in Moment
    OBVIOUS
  <2>1. setOffset(x, n, keepLocalTime) \in Moment
    BY OffsetType
  <2>2. setOffset(x, n, keepLocalTime).week = x.week
    BY DEF setOffset, Moment
  <2> QED BY <2>1, <2>2
<1>2. PICK u \in Moment : u = setOffset(x, 0, keepLocalTime) /\ u.week = x.week
  BY <1>1
<1>3. local(x, keepLocalTime)
        \in {x, [u EXCEPT !.isUTC = FALSE], [[u EXCEPT !.isUTC = FALSE] EXCEPT !.d = @ - LocalOffset(@)]}
  BY <1>2 DEF local
<1>4. local(x, keepLocalTime).week = x.week
  BY <1>2, <1>3 DEF Moment
<1> QED BY <1>1, <1>4 DEF utc

LEMMA InitOtherIsLocal == Init => OtherIsLocal
<1> SUFFICES ASSUME Init PROVE OtherIsLocal
  OBVIOUS
<1>1. PICK rule \in WeekRules, isUTC \in BOOLEAN : m = createLocalOrUTC(input, rule, isUTC)
  BY DEF Init
<1>2. m \in Moment
  BY InitCallsInv DEF CallsInv, TypeOK
<1>3. PICK given \in OtherInputs : other = createLocalOrUTC(given, m.week, FALSE)
  BY DEF Init
<1>4. IntFields(given) /\ m.week \in WeekRule
  BY <1>2, CallsAssumption DEF IntFields, Moment
<1> QED BY <1>3, <1>4, CreateType DEF OtherIsLocal

LEMMA NextOtherIsLocal == CallsInv /\ OtherIsLocal /\ [Next]_vars => OtherIsLocal'
<1> SUFFICES ASSUME CallsInv, OtherIsLocal, [Next]_vars PROVE OtherIsLocal'
  OBVIOUS
<1>1. m \in Moment /\ other \in Moment /\ dur \in Duration
  BY DEF CallsInv, TypeOK
<1>2. ASSUME NEW result, Becomes(result), result.week = m.week PROVE OtherIsLocal'
  BY <1>2 DEF OtherIsLocal, Becomes
<1>3. ASSUME NEW result, Becomes(result), Alike(result, m) PROVE OtherIsLocal'
  BY <1>2, <1>3 DEF Alike
<1>4. ASSUME NEW unit \in UnitsOfTime, StartOf(unit) \/ EndOf(unit) PROVE OtherIsLocal'
  BY <1>1, <1>3, <1>4, StartEndType DEF StartOf, EndOf
<1>5. ASSUME NEW value \in Int, Month(value) \/ Year(value) \/ Hour(value) PROVE OtherIsLocal'
  BY <1>1, <1>3, <1>5, SetType DEF Month, Year, Hour
<1>6. ASSUME NEW keepLocalTime \in BOOLEAN,
             \/ \E offset \in Offsets : UtcOffset(offset, keepLocalTime)
             \/ ToLocal(keepLocalTime) \/ ToUTC(keepLocalTime)
      PROVE  OtherIsLocal'
  <2>1. PICK offset \in Int :
          UtcOffset(offset, keepLocalTime) \/ ToLocal(keepLocalTime) \/ ToUTC(keepLocalTime)
    BY <1>6, CallsAssumption
  <2> QED BY <1>1, <1>2, <2>1, OffsetKeepsWeek DEF UtcOffset, ToLocal, ToUTC
<1>7. ASSUME NEW given \in Durations, NEW dir \in {-1, 1}, Add(given, dir) PROVE OtherIsLocal'
  <2>1. createDuration(given) \in Duration
    BY CallsAssumption, CreateDurationType DEF IsBubbled
  <2>2. Alike(addSubtract(m, createDuration(given), dir), m)
    BY <1>1, <2>1, AddType DEF Duration
  <2> QED BY <1>3, <1>7, <2>2 DEF Add
<1>8. ASSUME UNCHANGED <<m, other>> PROVE OtherIsLocal'
  BY <1>8 DEF OtherIsLocal
<1>9. CASE Between \/ Abs \/ (\E given \in Durations, dir \in {-1, 1} : Lengthen(given, dir))
  BY <1>8, <1>9 DEF Between, Abs, Lengthen, Lasts
<1>10. CASE UNCHANGED vars
  BY <1>8, <1>10 DEF vars
<1>11. 2021 \in Int /\ 2 \in Int /\ {1, 11} \subseteq Int
  OBVIOUS
<1> QED BY <1>4, <1>5, <1>6, <1>7, <1>9, <1>10, <1>11 DEF Next

LEMMA PageInvariance == Spec => [](CallsInv /\ OtherIsLocal)
<1>1. Init => CallsInv /\ OtherIsLocal
  BY InitCallsInv, InitOtherIsLocal
<1>2. (CallsInv /\ OtherIsLocal) /\ [Next]_vars => (CallsInv /\ OtherIsLocal)'
  BY NextCallsInv, NextOtherIsLocal
<1> QED BY <1>1, <1>2, PTL DEF Spec

\* The other moment, shown as the first one is.
LEMMA ShownAlike ==
  ASSUME CallsInv, OtherIsLocal, m.valid, other.valid
  PROVE  LET shown == cloneWithOffset(other, m) IN
           /\ shown \in Moment /\ shown.d \in Int /\ shown = At(m, shown.d)
           /\ valueOf(shown) = valueOf(other)
<1>1. m \in Moment /\ other \in Moment /\ OffsetIsShown(m)
  BY DEF CallsInv, TypeOK
<1>2. PICK a \in Int, b \in Int : a = valueOf(m) /\ b = valueOf(other)
  BY <1>1, ShownType
<1>3. m.d \in Int /\ other.d \in Int /\ m.offset \in Int
  BY <1>1 DEF Moment
<1>4. CASE m.isUTC
  <2>1. PICK t \in Int : t = m.d + (b - a)
    BY <1>3
  <2>2. cloneWithOffset(other, m) = At(m, t)
    BY <1>2, <1>4, <2>1 DEF cloneWithOffset, At
  <2>3. At(m, t) \in Moment /\ At(m, t).d = t /\ At(m, t).offset = m.offset
    BY <1>1 DEF At, Moment
  <2>4. valueOf(At(m, t)) = t - m.offset
    BY <2>3 DEF valueOf
  <2>5. a = m.d - m.offset
    BY <1>2 DEF valueOf
  <2>6. t - m.offset = b
    BY <1>2, <1>3, <2>1, <2>5
  <2> QED BY <1>2, <2>2, <2>3, <2>4, <2>6
<1>5. CASE ~m.isUTC
  <2>1. cloneWithOffset(other, m) = other
    BY <1>5 DEF cloneWithOffset, local, OtherIsLocal
  <2>2. m.offset = 0
    BY <1>1, <1>5 DEF OffsetIsShown
  <2>3. other = At(m, other.d)
    BY <1>1, <1>5, <2>2 DEF OtherIsLocal, At, Moment
  <2> QED BY <1>1, <1>3, <2>1, <2>3
<1> QED BY <1>4, <1>5

LEMMA ComparisonsAgreeHolds ==
  ASSUME ClockChangesWithinDays, CallsInv, OtherIsLocal
  PROVE  ComparisonsAgree
<1> SUFFICES ASSUME m.valid, other.valid, NEW unit \in UnitsOfTime
             PROVE  LET shown  == cloneWithOffset(other, m)
                        before == isBefore(m, other, unit)
                        same   == isSame(m, other, unit)
                        after  == isAfter(m, other, unit)
                    IN  /\ \E f \in 1 .. 3 : <<before, same, after>> = [i \in 1 .. 3 |-> i = f]
                        /\ before <=> isAfter(shown, m, unit)
                        /\ same <=> isSame(shown, m, unit)
  BY DEF ComparisonsAgree
<1>1. m \in Moment /\ other \in Moment
  BY DEF CallsInv, TypeOK
<1>2. PICK z \in Moment, t \in Int, d \in Int, o \in Int :
        /\ z = cloneWithOffset(other, m) /\ t = z.d /\ z = At(m, t) /\ valueOf(z) = valueOf(other)
        /\ d = m.d /\ o = m.offset /\ m = At(m, d)
  <2>1. m.d \in Int /\ m.offset \in Int /\ m = At(m, m.d)
    BY <1>1 DEF Moment, At
  <2> QED BY <2>1, ShownAlike
<1>3. ASSUME NEW u \in Int PROVE At(m, u).d = u /\ valueOf(At(m, u)) = u - o /\ At(m, u).valid
  BY <1>1, <1>2 DEF At, Moment, valueOf
<1>4. PICK s \in Int, e \in Int : Piece(s, e, m, unit)
  BY <1>1, UnitsArePieces
<1>5. PICK s2 \in Int, e2 \in Int : Piece(s2, e2, z, unit)
  <2>1. z.valid
    BY <1>2, <1>3
  <2> QED BY <2>1, UnitsArePieces
<1>6. \A u : At(z, u) = At(m, u)
  BY <1>1, <1>2 DEF At, Moment
<1>7. /\ s <= d /\ d <= e
      /\ \A u \in Int : s <= u /\ u <= e =>
           startOf(At(m, u), unit) = At(m, s) /\ endOf(At(m, u), unit) = At(m, e)
  BY <1>2, <1>4 DEF Piece
<1>8. /\ s2 <= t /\ t <= e2
      /\ \A u \in Int : s2 <= u /\ u <= e2 =>
           startOf(At(m, u), unit) = At(m, s2) /\ endOf(At(m, u), unit) = At(m, e2)
  BY <1>2, <1>5, <1>6 DEF Piece
<1>9. valueOf(other) = t - o /\ valueOf(m) = d - o
  BY <1>2, <1>3
<1>10. /\ valueOf(startOf(m, unit)) = s - o /\ valueOf(endOf(m, unit)) = e - o
       /\ valueOf(startOf(z, unit)) = s2 - o /\ valueOf(endOf(z, unit)) = e2 - o
  <2>1. startOf(m, unit) = At(m, s) /\ endOf(m, unit) = At(m, e)
    BY <1>2, <1>7
  <2>2. startOf(z, unit) = At(m, s2) /\ endOf(z, unit) = At(m, e2)
    BY <1>2, <1>8
  <2> QED BY <1>3, <2>1, <2>2
<1>11. z.valid
  BY <1>2, <1>3
<1>12. /\ isBefore(m, other, unit) <=> e < t
       /\ isSame(m, other, unit) <=> s <= t /\ t <= e
       /\ isAfter(m, other, unit) <=> t < s
  BY <1>9, <1>10 DEF isBefore, isSame, isAfter
<1>13. /\ isAfter(z, m, unit) <=> d < s2
       /\ isSame(z, m, unit) <=> s2 <= d /\ d <= e2
  BY <1>9, <1>10, <1>11 DEF isSame, isAfter
<1>14. s <= t /\ t <= e => s2 = s /\ e2 = e
  <2> SUFFICES ASSUME s <= t, t <= e PROVE s2 = s /\ e2 = e
    OBVIOUS
  <2>1. At(m, s2) = At(m, s) /\ At(m, e2) = At(m, e)
    BY <1>7, <1>8
  <2> QED BY <1>3, <2>1
<1>15. s2 <= d /\ d <= e2 => s2 = s /\ e2 = e
  <2> SUFFICES ASSUME s2 <= d, d <= e2 PROVE s2 = s /\ e2 = e
    OBVIOUS
  <2>1. At(m, s2) = At(m, s) /\ At(m, e2) = At(m, e)
    BY <1>7, <1>8
  <2> QED BY <1>3, <2>1
<1>16. isBefore(m, other, unit) <=> isAfter(z, m, unit)
  <2>1. e < t <=> d < s2
    BY <1>7, <1>8, <1>14, <1>15
  <2> QED BY <1>12, <1>13, <2>1
<1>17. isSame(m, other, unit) <=> isSame(z, m, unit)
  <2>1. (s <= t /\ t <= e) <=> (s2 <= d /\ d <= e2)
    BY <1>7, <1>8, <1>14, <1>15
  <2> QED BY <1>12, <1>13, <2>1
<1>18. \E f \in 1 .. 3 : <<isBefore(m, other, unit), isSame(m, other, unit), isAfter(m, other, unit)>>
                           = [i \in 1 .. 3 |-> i = f]
  <2>1. PICK a \in BOOLEAN, b \in BOOLEAN, c \in BOOLEAN :
          /\ a = isBefore(m, other, unit) /\ b = isSame(m, other, unit) /\ c = isAfter(m, other, unit)
    BY DEF isBefore, isSame, isAfter
  <2>2. /\ a <=> e < t
        /\ b <=> s <= t /\ t <= e
        /\ c <=> t < s
    BY <1>12, <2>1
  <2>3. PICK f \in 1 .. 3 : (a <=> 1 = f) /\ (b <=> 2 = f) /\ (c <=> 3 = f)
    BY <1>7, <2>2
  <2>4. <<a, b, c>> = [i \in 1 .. 3 |-> i = f]
    BY <2>3
  <2> QED BY <2>1, <2>4
<1> QED BY <1>2, <1>16, <1>17, <1>18

\* In every zone whose changes of the clock do not touch midnight, in every
\* year and for every rule of weeks: units cut time into pieces (moment.js:4073)
\* and moments are compared by them.
THEOREM UnitsInOrder ==
  ASSUME ClockChangesWithinDays
  PROVE  Spec => []UnitsOrderTime
<1>1. CallsInv /\ OtherIsLocal => UnitsOrderTime
  BY UnitsDivideTimeHolds, ComparisonsAgreeHolds DEF UnitsOrderTime, CallsInv, TypeOK
<1> QED BY <1>1, PageInvariance, PTL

-----------------------------------------------------------------------------
(***************************************************************************)
(* What is set on a moment.  Dates are set at a time of their own day, which *)
(* is the clock time the moment had or, where that is skipped, an hour more. *)
(***************************************************************************)
\* The clock a moment shows when it was set to one.
LEMMA ClockAt ==
  ASSUME ClockChangesWithinDays, NEW x \in Moment, NEW c \in Int
  PROVE  /\ \/ Clock(DateAt(x, c)) = c
            \/ /\ ~x.isUTC /\ Clock(DateAt(x, c)) = c + 60
               /\ (c + 60) \div MinutesPerDay = c \div MinutesPerDay
         /\ c % MinutesPerDay = 0 => Clock(DateAt(x, c)) = c
<1>1. CASE x.isUTC
  BY <1>1 DEF Clock, DateAt, Moment
<1>2. CASE ~x.isUTC
  <2>1. Clock(DateAt(x, c)) = Local(FromLocal(c))
    BY <1>2 DEF Clock, DateAt, Moment
  <2>2. CASE Local(FromLocal(c)) = c
    BY <2>1, <2>2
  <2>3. CASE Local(FromLocal(c)) # c
    <3>1. Local(FromLocal(c)) = c + 60
      BY <2>3, SkippedIs
    <3> QED BY <1>2, <2>1, <3>1, DayIsKept
  <2> QED BY <2>2, <2>3
<1> QED BY <1>1, <1>2

ClockTimes == 0 .. MinutesPerDay - 1

LEMMA DayAt ==
  ASSUME ClockChangesWithinDays, NEW x \in Moment, NEW n \in Int, NEW c \in ClockTimes
  PROVE  DayOf(DateAt(x, n * MinutesPerDay + c)) = n
<1>1. PICK t \in Int : t = n * MinutesPerDay + c /\ t \div MinutesPerDay = n
  <2>1. c \in 0 .. 1439
    BY DEF ClockTimes, MinutesPerDay
  <2>2. n * 1440 + c \in Int /\ (n * 1440 + c) \div 1440 = n
    BY <2>1, SMT
  <2> QED BY <2>2 DEF MinutesPerDay
<1>2. Clock(DateAt(x, t)) \div MinutesPerDay = n
  BY <1>1, ClockAt
<1> QED BY <1>1, <1>2 DEF DayOf

LEMMA ClockInDay ==
  ASSUME NEW x \in Moment
  PROVE  Clock(x) % MinutesPerDay \in ClockTimes
<1>1. PICK k \in Int : k = Clock(x)
  BY ShownType
<1>2. k % 1440 \in 0 .. 1439
  BY SMT
<1> QED BY <1>1, <1>2 DEF ClockTimes, MinutesPerDay

\* Setting a date leads to its day, at a time of the same day.
LEMMA SetDateDay ==
  ASSUME ClockChangesWithinDays, NEW x \in Moment, NEW y \in Int, NEW mon \in Int, NEW dt \in Int
  PROVE  DayOf(SetDate(x, y, mon, dt)) = DayNumber(y, mon, dt)
<1>1. PICK n \in Int, c \in ClockTimes : n = DayNumber(y, mon, dt) /\ c = Clock(x) % MinutesPerDay
  <2>1. DayNumber(y, mon, dt) \in Int
    BY DayNumberType
  <2> QED BY <2>1, ClockInDay
<1>2. SetDate(x, y, mon, dt) = DateAt(x, n * MinutesPerDay + c)
  BY <1>1 DEF SetDate
<1>3. DayOf(DateAt(x, n * MinutesPerDay + c)) = n
  BY DayAt, Zenon
<1> QED BY <1>1, <1>2, <1>3, Zenon

\* Days are added at the same clock time.
LEMMA AddDayIs ==
  ASSUME NEW x \in Moment, x.valid, NEW k \in Int, k # 0
  PROVE  add(x, k, "day")
           = DateAt(x, (DayOf(x) + k) * MinutesPerDay + (Clock(x) % MinutesPerDay))
<1> DEFINE given == [u \in {"day"} |-> k]
<1>1. Kept(given).months = 0 /\ Kept(given).days = k /\ Kept(given).minutes = 0
  BY DEF Kept, Amount
<1>2. PICK dur0 : dur0 = Kept(given)
  OBVIOUS
<1>3. add(x, k, "day") = addSubtract(x, dur0, 1)
  BY <1>2 DEF add
<1> HIDE DEF given
<1>4. dur0.months * 1 = 0 /\ dur0.days * 1 = k /\ dur0.minutes * 1 = 0
  BY <1>1, <1>2
<1>5. PICK n \in Int, y \in Int, r \in 0 .. 11, dt \in Int, e \in Int :
        n = DayOf(x) /\ y = year(x) /\ r = month(x) /\ dt = date(x) /\ e = dt + k
  <2>1. DayOf(x) \in Int /\ year(x) \in Int /\ month(x) \in 0 .. 11 /\ date(x) \in Int
    BY ShownType
  <2> QED BY <2>1
<1>6. AddDays(x, k) = SetDate(x, y, r, e)
  BY <1>5 DEF AddDays, set
<1>7. DayNumber(y, r, e) = n + k
  <2>1. PICK s \in Int, b \in Int : s = DaysBeforeYear(y) /\ b = DaysBeforeMonth(y, r)
    <3>1. DaysBeforeYear(y) \in Int /\ DaysBeforeMonth(y, r) \in Int
      BY MonthStartType
    <3> QED BY <3>1
  <2>2. /\ DayNumber(y, r, dt) = DaysBeforeYear(y) + DaysBeforeMonth(y, r) + dt - 1
        /\ DayNumber(y, r, e) = DaysBeforeYear(y) + DaysBeforeMonth(y, r) + e - 1
    BY DayNumberInYear
  <2>3. DayNumber(y, r, dt) = n
    BY <1>5, DatesReadBack DEF year, month, date
  <2>4. n = s + b + dt - 1 /\ DayNumber(y, r, e) = s + b + e - 1
    BY <2>1, <2>2, <2>3, Zenon
  <2> QED BY <1>5, <2>4
<1>8. PICK z \in Moment : z = AddDays(x, k)
  <2>1. r \in Int
    OBVIOUS
  <2>2. SetDate(x, y, r, e) \in Moment
    BY <2>1, SetDateType DEF Alike
  <2> QED BY <1>6, <2>2
<1>9. addSubtract(x, dur0, 1) = [z EXCEPT !.d = z.d + 0]
  <2>1. AddMonths(x, 0) = x
    BY DEF AddMonths
  <2> QED BY <1>4, <1>8, <2>1 DEF addSubtract
<1>10. [z EXCEPT !.d = z.d + 0] = z
  BY <1>8 DEF Moment
<1> QED BY <1>3, <1>5, <1>6, <1>7, <1>8, <1>9, <1>10 DEF SetDate

LEMMA AddDay ==
  ASSUME ClockChangesWithinDays, NEW x \in Moment, x.valid, NEW k \in Int
  PROVE  Alike(add(x, k, "day"), x) /\ DayOf(add(x, k, "day")) = DayOf(x) + k
<1>1. CASE k # 0
  <2>1. PICK n \in Int : n = DayOf(x) + k
    <3>1. DayOf(x) \in Int
      BY ShownType
    <3> QED BY <3>1
  <2>2. PICK c \in ClockTimes : c = Clock(x) % MinutesPerDay
    BY ClockInDay
  <2>3. add(x, k, "day") = DateAt(x, n * MinutesPerDay + c)
    BY <1>1, <2>1, <2>2, AddDayIs
  <2>4. DayOf(DateAt(x, n * MinutesPerDay + c)) = n
    BY DayAt, Zenon
  <2>5. Alike(add(x, k, "day"), x)
    BY AddOneType
  <2> QED BY <2>1, <2>3, <2>4, <2>5, Zenon
<1>2. CASE k = 0
  <2>1. add(x, 0, "day") = [x EXCEPT !.d = x.d + 0]
    <3> DEFINE given == [u \in {"day"} |-> 0]
    <3>1. Kept(given).months = 0 /\ Kept(given).days = 0 /\ Kept(given).minutes = 0
      BY DEF Kept, Amount
    <3>2. PICK dur0 : dur0 = Kept(given)
      OBVIOUS
    <3>3. add(x, 0, "day") = addSubtract(x, dur0, 1)
      BY <3>2 DEF add
    <3> HIDE DEF given
    <3>4. dur0.months * 1 = 0 /\ dur0.days * 1 = 0 /\ dur0.minutes * 1 = 0
      BY <3>1, <3>2
    <3> QED BY <3>3, <3>4 DEF addSubtract, AddMonths, AddDays
  <2>2. [x EXCEPT !.d = x.d + 0] = x
    BY DEF Moment
  <2>3. DayOf(x) \in Int
    BY ShownType
  <2> QED BY <1>2, <2>1, <2>2, <2>3, AddOneType
<1> QED BY <1>1, <1>2

\* A month is set and keeps the year.
LEMMA SetMonthDay ==
  ASSUME ClockChangesWithinDays, NEW x \in Moment, NEW mon \in 0 .. 11
  PROVE  LET z == setMonth(x, mon) IN Alike(z, x) /\ year(z) = year(x) /\ month(z) = mon
<1>1. PICK y \in Int, dt \in Int, length \in Int, e \in Int :
        /\ y = year(x) /\ dt = date(x) /\ 1 <= dt /\ length = daysInMonth(y, mon)
        /\ e = Lesser(dt, length) /\ 1 <= e /\ e <= length
  <2>1. PICK y \in Int, dt \in Int : y = year(x) /\ dt = date(x) /\ 1 <= dt
    <3>1. year(x) \in Int /\ date(x) \in Int /\ 1 <= date(x)
      BY ShownType
    <3> QED BY <3>1
  <2>2. PICK length \in Int : length = daysInMonth(y, mon) /\ length >= 28
    <3>1. daysInMonth(y, mon) \in Int /\ daysInMonth(y, mon) >= 28
      BY MonthLies
    <3> QED BY <3>1
  <2>3. Lesser(dt, length) \in Int /\ 1 <= Lesser(dt, length) /\ Lesser(dt, length) <= length
    BY <2>1, <2>2 DEF Lesser
  <2> QED BY <2>1, <2>2, <2>3
<1>2. setMonth(x, mon) = SetDate(x, y, mon, e)
  BY <1>1 DEF setMonth
<1>3. mon \in Int /\ e \in 1 .. daysInMonth(y, mon)
  BY <1>1
<1>4. DayOf(SetDate(x, y, mon, e)) = DayNumber(y, mon, e)
  BY <1>3, SetDateDay
<1>5. YearOf(DayNumber(y, mon, e)) = y /\ MonthOf(DayNumber(y, mon, e)) = mon
  BY <1>3, DateIs
<1>6. Alike(SetDate(x, y, mon, e), x)
  BY <1>3, SetDateType
<1> QED BY <1>1, <1>2, <1>4, <1>5, <1>6 DEF year, month

LEMMA SetYearDay ==
  ASSUME ClockChangesWithinDays, NEW x \in Moment, NEW y \in Int
  PROVE  LET z == set(x, "year", y) IN Alike(z, x) /\ year(z) = y
<1>1. PICK v \in Int, r \in 0 .. 11, dt \in Int, length \in Int, l \in Int :
        /\ v = year(x) /\ r = month(x) /\ dt = date(x) /\ 1 <= dt
        /\ length = daysInMonth(v, r) /\ dt <= length /\ l = daysInMonth(y, r)
  <2>1. PICK v \in Int, r \in 0 .. 11 : v = year(x) /\ r = month(x)
    BY ShownType
  <2>2. daysInMonth(v, r) \in Int /\ daysInMonth(y, r) \in Int
    BY MonthLies
  <2>3. date(x) \in Int /\ 1 <= date(x) /\ date(x) <= daysInMonth(v, r)
    BY <2>1, ShownType
  <2> QED BY <2>1, <2>2, <2>3
<1>2. /\ length = IF r = 1 THEN (IF isLeapYear(v) THEN 29 ELSE 28) ELSE 31 - ((r % 7) % 2)
      /\ l = IF r = 1 THEN (IF isLeapYear(y) THEN 29 ELSE 28) ELSE 31 - ((r % 7) % 2)
  <2>1. r % 12 = r /\ v + (r - r) \div 12 = v /\ y + (r - r) \div 12 = y
    BY SMT
  <2>2. /\ daysInMonth(v, r) = IF r = 1 THEN (IF isLeapYear(v) THEN 29 ELSE 28) ELSE 31 - ((r % 7) % 2)
        /\ daysInMonth(y, r) = IF r = 1 THEN (IF isLeapYear(y) THEN 29 ELSE 28) ELSE 31 - ((r % 7) % 2)
    BY <2>1, DaysInMonthIs
  <2> QED BY <1>1, <2>2
<1>3. PICK e \in Int : /\ e = IF isLeapYear(v) /\ r = 1 /\ dt = 29 THEN daysInMonth(y, 1) ELSE dt
                       /\ 1 <= e /\ e <= l
  <2>1. CASE isLeapYear(v) /\ r = 1 /\ dt = 29
    <3>1. l \in 28 .. 29
      BY <1>2, <2>1
    <3> QED BY <1>1, <2>1, <3>1
  <2>2. CASE ~(isLeapYear(v) /\ r = 1 /\ dt = 29)
    <3>1. CASE r = 1
      <4>1. /\ isLeapYear(v) => length = 29
            /\ ~isLeapYear(v) => length = 28
            /\ l = 28 \/ l = 29
        BY <1>2, <3>1, Zenon
      <4>2. dt <= 28
        <5>1. CASE isLeapYear(v)
          <6>1. dt # 29 /\ length = 29
            BY <2>2, <3>1, <4>1, <5>1, Zenon
          <6> QED BY <1>1, <6>1
        <5>2. CASE ~isLeapYear(v)
          BY <1>1, <4>1, <5>2
        <5> QED BY <5>1, <5>2
      <4>3. dt <= l
        BY <1>1, <4>1, <4>2
      <4> QED BY <1>1, <2>2, <4>3
    <3>2. CASE r # 1
      <4>1. l = length
        BY <1>2, <3>2, Zenon
      <4> QED BY <1>1, <2>2, <4>1
    <3> QED BY <3>1, <3>2
  <2> QED BY <2>1, <2>2
<1>4. set(x, "year", y) = SetDate(x, y, r, e)
  BY <1>1, <1>3 DEF set
<1>5. r \in Int /\ e \in 1 .. daysInMonth(y, r)
  BY <1>1, <1>3
<1>6. DayOf(SetDate(x, y, r, e)) = DayNumber(y, r, e)
  BY <1>5, SetDateDay
<1>7. YearOf(DayNumber(y, r, e)) = y
  BY <1>5, DateIs
<1>8. Alike(SetDate(x, y, r, e), x)
  BY <1>5, SetDateType
<1> QED BY <1>4, <1>6, <1>7, <1>8 DEF year

\* Year, month and date set one after the other lead to the day they are of.
LEMMA SetDateOfDay ==
  ASSUME ClockChangesWithinDays, NEW x \in Moment, NEW n \in Int
  PROVE  Alike(SetDateOf(x, n), x) /\ DayOf(SetDateOf(x, n)) = n
<1>1. PICK y \in Int, r \in 0 .. 11, dt \in Int :
        y = YearOf(n) /\ r = MonthOf(n) /\ dt = DateOf(n) /\ DayNumber(y, r, dt) = n
  <2>1. PICK y \in Int, r \in 0 .. 11 : y = YearOf(n) /\ r = MonthOf(n)
    BY DatesReadBack
  <2>2. daysInMonth(y, r) \in Int
    BY MonthLies
  <2>3. DateOf(n) \in Int /\ DayNumber(y, r, DateOf(n)) = n
    BY <2>1, <2>2, DatesReadBack
  <2> QED BY <2>1, <2>3
<1>2. PICK z \in Moment : z = set(x, "year", y) /\ Alike(z, x) /\ year(z) = y
  BY SetYearDay DEF Alike
<1>3. PICK w \in Moment : w = setMonth(z, r) /\ Alike(w, z) /\ year(w) = y /\ month(w) = r
  BY <1>2, SetMonthDay DEF Alike
<1>4. SetDateOf(x, n) = SetDate(w, y, r, dt)
  BY <1>1, <1>2, <1>3 DEF SetDateOf, set
<1>5. r \in Int
  OBVIOUS
<1>6. Alike(SetDate(w, y, r, dt), w) /\ DayOf(SetDate(w, y, r, dt)) = n
  BY <1>1, <1>5, SetDateDay, SetDateType
<1>7. Alike(SetDate(w, y, r, dt), x)
  BY <1>2, <1>3, <1>6, AlikeTrans
<1> QED BY <1>4, <1>6, <1>7

\* A week is numbered by any of its days.
LEMMA InWeek ==
  ASSUME NEW x \in Moment, x.valid, NEW rule \in WeekRule, NEW y \in Int,
         NEW week \in 1 .. weeksInYear(y, rule), LiesInWeek(DayOf(x), y, week, rule)
  PROVE  weekOf(x, rule) = [year |-> y, week |-> week]
<1>1. DayOf(x) \in Int
  BY ShownType
<1> QED BY <1>1, WeekOfIs, DaysAreNumberedByTheirWeek

\* The days of a week, by how far they are from its first.
LEMMA WeekOfDay ==
  ASSUME NEW n \in Int, NEW rule \in WeekRule, NEW y \in Int,
         NEW week \in 1 .. weeksInYear(y, rule), LiesInWeek(n, y, week, rule)
  PROVE  \E a \in Int, k \in 0 .. 6 :
           /\ n = a + k
           /\ \A i \in 0 .. 6 :
                LiesInWeek(a + i, y, week, rule) /\ (a + i + 4 - rule.dow) % 7 = i
<1>1. PICK f \in Int, dow \in 0 .. 6 : f = FirstWeek(y, rule) /\ dow = rule.dow /\ (f + 4) % 7 = dow
  <2>1. rule.dow \in 0 .. 6 /\ FirstWeek(y, rule) \in Int
    BY FirstWeekType, RuleIs
  <2> QED BY <2>1, WeeksStartOnTheirDay DEF WeekdayOf
<1>2. PICK w \in Int : w = week
  BY WeeksFillTheYears
<1>3. f + 7 * (w - 1) <= n /\ n < f + 7 * w
  BY <1>1, <1>2, Zenon DEF LiesInWeek
<1>4. PICK a \in Int, k \in 0 .. 6 : a = f + 7 * (w - 1) /\ k = n - a
  <2>1. PICK a \in Int : a = f + 7 * (w - 1)
    OBVIOUS
  <2>2. n - a \in 0 .. 6
    BY <1>3, <2>1
  <2> QED BY <2>1, <2>2
<1>5. \A i \in 0 .. 6 : (a + i + 4 - dow) % 7 = i
  <2> SUFFICES ASSUME NEW i \in 0 .. 6 PROVE (a + i + 4 - dow) % 7 = i
    OBVIOUS
  <2>1. PICK j \in Int : f + 4 = 7 * j + dow
    <3>1. f + 4 = 7 * ((f + 4) \div 7) + dow /\ (f + 4) \div 7 \in Int
      BY <1>1, SMT
    <3> QED BY <3>1
  <2>2. PICK q \in Int : q = j + w - 1
    OBVIOUS
  <2>3. a + i + 4 - dow = 7 * q + i
    BY <1>4, <2>1, <2>2
  <2> QED BY <2>3, SMT
<1>6. ASSUME NEW i \in 0 .. 6
      PROVE  LiesInWeek(a + i, y, week, rule) /\ (a + i + 4 - rule.dow) % 7 = i
  <2>1. (a + i + 4 - rule.dow) % 7 = i
    BY <1>1, <1>5
  <2>2. PICK d \in Int : d = a + i /\ f + 7 * (w - 1) <= d /\ d < f + 7 * w
    BY <1>4
  <2>3. LiesInWeek(d, y, week, rule)
    BY <1>1, <1>2, <2>2, Zenon DEF LiesInWeek
  <2> QED BY <2>1, <2>2, <2>3
<1>7. n = a + k
  BY <1>4
<1> QED BY <1>6, <1>7

LEMMA WeeksSet ==
  ASSUME ClockChangesWithinDays, m \in Moment, m.valid, NEW rule \in WeekRule
  PROVE  WeeksReadBack(weekOf(m, rule), rule)
<1>1. PICK n \in Int : n = DayOf(m)
  BY ShownType
<1>2. PICK y \in Int : \E week \in 1 .. weeksInYear(y, rule) :
        WeekOn(n, rule) = [year |-> y, week |-> week] /\ LiesInWeek(n, y, week, rule)
  BY WeekLies
<1>3. PICK weeks \in {52, 53} : weeks = weeksInYear(y, rule)
  BY WeeksFillTheYears
<1>4. PICK w \in 1 .. weeks :
        WeekOn(n, rule) = [year |-> y, week |-> w] /\ LiesInWeek(n, y, w, rule)
  BY <1>2, <1>3
<1>5. weekOf(m, rule) = [year |-> y, week |-> w]
  BY <1>1, <1>4, WeekOfIs
<1>6. PICK now : now = [year |-> y, week |-> w]
  OBVIOUS
<1>7. ASSUME NEW k \in 1 .. weeks
      PROVE  IsInWeek(setWeek(m, k, rule), [now EXCEPT !.week = k], rule)
  <2>1. PICK j \in Int : j = (k - w) * 7
    OBVIOUS
  <2>2. setWeek(m, k, rule) = add(m, j, "day")
    BY <1>5, <2>1 DEF setWeek
  <2>3. PICK z \in Moment : z = add(m, j, "day") /\ z.valid /\ DayOf(z) = n + j
    BY <1>1, AddDay DEF Alike
  <2>4. PICK f \in Int : f = FirstWeek(y, rule)
    BY FirstWeekType
  <2>5. f + 7 * (w - 1) <= n /\ n < f + 7 * w
    BY <1>4, <2>4, Zenon DEF LiesInWeek
  <2>6. PICK d \in Int : d = n + j /\ f + 7 * (k - 1) <= d /\ d < f + 7 * k
    BY <2>1, <2>5
  <2>7. LiesInWeek(d, y, k, rule)
    BY <2>4, <2>6, Zenon DEF LiesInWeek
  <2>8. weekOf(z, rule) = [year |-> y, week |-> k]
    BY <1>3, <2>3, <2>6, <2>7, InWeek
  <2>9. day(z) = day(m)
    <3>1. (n + j + 4) % 7 = (n + 4) % 7
      BY <2>1, SMT
    <3> QED BY <1>1, <2>3, <3>1 DEF day, WeekdayOf
  <2>10. [now EXCEPT !.week = k] = [year |-> y, week |-> k]
    BY <1>6
  <2> QED BY <2>2, <2>3, <2>8, <2>9, <2>10 DEF IsInWeek
<1>8. 1 \in 1 .. weeks /\ weeksInYear(now.year, rule) \in 1 .. weeks
  <2>1. now.year = y
    BY <1>6
  <2> QED BY <1>3, <2>1
<1> QED BY <1>5, <1>6, <1>7, <1>8 DEF WeeksReadBack

LEMMA WeekdaysSet ==
  ASSUME ClockChangesWithinDays, m \in Moment, m.valid, NEW rule \in {m.week, ISOWeek}
  PROVE  WeekdaysReadBack(weekOf(m, rule), rule)
<1>1. rule \in WeekRule /\ m.week \in WeekRule
  BY DEF Moment, ISOWeek, WeekRule
<1>2. PICK n \in Int, dow \in 0 .. 6, v \in 0 .. 6 :
        n = DayOf(m) /\ dow = rule.dow /\ v = WeekdayOf(n) /\ v = (n + 4) % 7
  <2>1. PICK n \in Int : n = DayOf(m)
    BY ShownType
  <2>2. (n + 4) % 7 \in 0 .. 6
    BY SMT
  <2>3. rule.dow \in 0 .. 6
    BY <1>1, RuleIs
  <2> QED BY <2>1, <2>2, <2>3 DEF WeekdayOf
<1>3. PICK y \in Int : \E week \in 1 .. weeksInYear(y, rule) :
        WeekOn(n, rule) = [year |-> y, week |-> week] /\ LiesInWeek(n, y, week, rule)
  BY <1>1, WeekLies
<1>4. PICK week \in 1 .. weeksInYear(y, rule) :
        WeekOn(n, rule) = [year |-> y, week |-> week] /\ LiesInWeek(n, y, week, rule)
  BY <1>3
<1>5. weekOf(m, rule) = [year |-> y, week |-> week]
  BY <1>2, <1>4, WeekOfIs
<1>6. PICK a \in Int, k \in 0 .. 6 :
        /\ n = a + k
        /\ \A i \in 0 .. 6 : LiesInWeek(a + i, y, week, rule) /\ (a + i + 4 - rule.dow) % 7 = i
  BY <1>1, <1>4, WeekOfDay
<1>7. ASSUME NEW i \in 0 .. 6, NEW z, z = add(m, i - k, "day")
      PROVE  (day(z) - rule.dow) % 7 = i /\ weekOf(z, rule) = weekOf(m, rule)
  <2>1. PICK j \in Int : j = i - k
    OBVIOUS
  <2>2. z \in Moment /\ z.valid /\ DayOf(z) = n + j
    BY <1>2, <1>7, <2>1, AddDay DEF Alike
  <2>3. PICK d \in Int : d = n + j /\ d = a + i
    <3>1. n + j = a + i
      BY <1>6, <2>1
    <3> QED BY <3>1
  <2>5. LiesInWeek(d, y, week, rule)
    BY <1>6, <2>3
  <2>6. weekOf(z, rule) = [year |-> y, week |-> week]
    BY <1>1, <2>2, <2>3, <2>5, InWeek
  <2>7. (WeekdayOf(d) - dow) % 7 = i
    <3>1. (d + 4 - dow) % 7 = i
      BY <1>2, <1>6, <2>3
    <3>2. PICK e \in Int : e = -dow
      OBVIOUS
    <3>3. (WeekdayOf(d) + e) % 7 = (d + (4 + e)) % 7
      BY WeekdaySum
    <3>4. d + (4 + e) = d + 4 - dow
      BY <3>2
    <3>5. PICK u \in Int : u = WeekdayOf(d)
      <4>1. (d + 4) % 7 \in Int BY SMT
      <4> QED BY <4>1 DEF WeekdayOf
    <3>6. u + e = u - dow
      BY <3>2
    <3> QED BY <3>1, <3>3, <3>4, <3>5, <3>6
  <2> QED BY <1>2, <1>5, <2>2, <2>3, <2>6, <2>7 DEF day
<1>8. (v - dow) % 7 = k /\ (v + 7 - dow) % 7 = k
  <2>1. PICK q \in Int : n + 4 = 7 * q + v
    <3>1. n + 4 = 7 * ((n + 4) \div 7) + v /\ (n + 4) \div 7 \in Int
      BY <1>2, SMT
    <3> QED BY <3>1
  <2>2. PICK p \in Int : n + 4 - dow = 7 * p + k
    <3>1. (n + 4 - dow) % 7 = k
      <4>1. (a + k + 4 - rule.dow) % 7 = k
        BY <1>6
      <4> QED BY <1>2, <1>6, <4>1
    <3>2. n + 4 - dow = 7 * ((n + 4 - dow) \div 7) + k /\ (n + 4 - dow) \div 7 \in Int
      BY <3>1, SMT
    <3> QED BY <3>2
  <2>3. PICK s \in Int : s = p - q
    OBVIOUS
  <2>4. v - dow = 7 * s + k /\ v + 7 - dow = 7 * (s + 1) + k
    BY <2>1, <2>2, <2>3
  <2> QED BY <2>4, SMT
<1>9. ASSUME NEW i \in {0, 6},
             NEW z, z = IF rule = ISOWeek THEN setISOWeekday(m, i + 1) ELSE setWeekday(m, i)
      PROVE  z = add(m, i - k, "day")
  <2>1. CASE rule = ISOWeek
    <3>1. dow = 1
      BY <1>2, <2>1 DEF ISOWeek
    <3>2. PICK g \in Int : g = (IF v % 7 # 0 THEN i + 1 ELSE i + 1 - 7) /\ g - v = i - k
      <4>1. v % 7 = v
        BY SMT
      <4>2. CASE v = 0
        <5>1. k = 6
          BY <1>8, <3>1, <4>2, SMT
        <5> QED BY <4>1, <4>2, <5>1
      <4>3. CASE v # 0
        <5>1. k = v - 1
          BY <1>8, <3>1, <4>3, SMT
        <5> QED BY <4>1, <4>3, <5>1
      <4> QED BY <4>2, <4>3
    <3>3. day(m) = v
      BY <1>2 DEF day
    <3> QED BY <1>9, <2>1, <3>2, <3>3 DEF setISOWeekday, setDay
  <2>2. CASE rule # ISOWeek
    <3>1. m.week.dow = dow
      BY <1>2, <2>2
    <3>2. weekday(m) = k
      BY <1>2, <1>8, <3>1 DEF weekday, day
    <3> QED BY <1>9, <2>2, <3>2 DEF setWeekday
  <2> QED BY <2>1, <2>2
<1>10. ASSUME NEW i \in {0, 6}
       PROVE  LET x == IF rule = ISOWeek THEN setISOWeekday(m, i + 1) ELSE setWeekday(m, i) IN
                (day(x) - rule.dow) % 7 = i /\ weekOf(x, rule) = weekOf(m, rule)
  <2>1. PICK z : z = IF rule = ISOWeek THEN setISOWeekday(m, i + 1) ELSE setWeekday(m, i)
    OBVIOUS
  <2>2. z = add(m, i - k, "day")
    BY <1>9, <2>1
  <2>3. i \in 0 .. 6
    OBVIOUS
  <2> QED BY <1>7, <2>1, <2>2, <2>3
<1> QED BY <1>10 DEF WeekdaysReadBack

LEMMA DayOfYearSet ==
  ASSUME ClockChangesWithinDays, m \in Moment, m.valid, NEW k \in 1 .. 365
  PROVE  IsDayOfYear(setDayOfYear(m, k), k)
<1>1. PICK n \in Int, y \in Int, z \in Int :
        n = DayOf(m) /\ y = YearOf(n) /\ z = y + 1
  <2>1. PICK n \in Int : n = DayOf(m)
    BY ShownType
  <2>2. PICK y \in Int : y = YearOf(n)
    BY DatesReadBack
  <2> QED BY <2>1, <2>2
<1>2. PICK s \in Int, t \in Int : s = DaysBeforeYear(y) /\ t = DaysBeforeYear(z) /\ s + 365 <= t
  <2>1. PICK s \in Int, t \in Int : s = DaysBeforeYear(y) /\ t = DaysBeforeYear(z)
    <3>1. DaysBeforeYear(y) \in Int /\ DaysBeforeYear(z) \in Int
      BY YearShare
    <3> QED BY <3>1
  <2>2. t - s = daysInYear(y)
    BY <1>1, <2>1, YearsAreAsLongAsTheirDates
  <2>3. daysInYear(y) \in {365, 366}
    BY DEF daysInYear
  <2>4. s + 365 <= t
    BY <2>1, <2>2, <2>3
  <2> QED BY <2>1, <2>4
<1>3. dayOfYear(m) = n - s + 1
  BY <1>1, <1>2, DayOfYearIs DEF year
<1>4. PICK j \in Int, d \in Int : j = k - (n - s + 1) /\ d = n + j /\ d = s + k - 1
  <2>1. PICK j \in Int : j = k - (n - s + 1)
    OBVIOUS
  <2>2. n + j \in Int /\ n + j = s + k - 1
    BY <2>1
  <2> QED BY <2>1, <2>2
<1>5. PICK x \in Moment : x = setDayOfYear(m, k) /\ x.valid /\ DayOf(x) = d
  <2>1. setDayOfYear(m, k) = add(m, j, "day")
    BY <1>3, <1>4 DEF setDayOfYear
  <2> QED BY <1>1, <1>4, <2>1, AddDay DEF Alike
<1>6. YearOf(d) = y
  <2>1. s <= d /\ d < t
    BY <1>2, <1>4
  <2> QED BY <1>1, <1>2, <2>1, YearIs
<1>7. dayOfYear(x) = d - s + 1
  BY <1>2, <1>5, <1>6, DayOfYearIs DEF year
<1>8. d - s + 1 = k
  BY <1>4
<1> QED BY <1>1, <1>5, <1>6, <1>7, <1>8 DEF IsDayOfYear, year

LEMMA QuarterSet ==
  ASSUME ClockChangesWithinDays, m \in Moment, NEW n \in 1 .. 4
  PROVE  LET x == setQuarter(m, n) IN
           quarter(x) = n /\ month(x) % 3 = month(m) % 3 /\ year(x) = year(m)
<1>1. PICK r \in 0 .. 11 : r = month(m)
  BY ShownType
<1>2. PICK q \in 0 .. 11 : q = (n - 1) * 3 + (r % 3) /\ q % 3 = r % 3 /\ -((-(q + 1)) \div 3) = n
  <2>1. PICK k \in 0 .. 2 : k = r % 3
    <3>1. r % 3 \in 0 .. 2 BY SMT
    <3> QED BY <3>1
  <2>2. PICK q \in 0 .. 11 : q = (n - 1) * 3 + k
    <3>1. (n - 1) * 3 + k \in 0 .. 11
      OBVIOUS
    <3> QED BY <3>1
  <2>3. q % 3 = k
    BY <2>2, SMT
  <2>4. (-(q + 1)) \div 3 = -n
    BY <2>2, SMT
  <2>5. -((-(q + 1)) \div 3) = n
    <3>1. PICK p : p = (-(q + 1)) \div 3
      OBVIOUS
    <3>2. p = -n /\ -p = n
      BY <2>4, <3>1
    <3> QED BY <3>1, <3>2, Zenon
  <2>6. q = (n - 1) * 3 + (r % 3) /\ q % 3 = r % 3
    BY <2>1, <2>2, <2>3, Zenon
  <2> QED BY <2>5, <2>6, Zenon
<1>3. PICK x : x = setQuarter(m, n) /\ x = setMonth(m, q)
  BY <1>1, <1>2 DEF setQuarter
<1>4. year(x) = year(m) /\ month(x) = q
  BY <1>3, SetMonthDay
<1> QED BY <1>1, <1>2, <1>3, <1>4 DEF quarter

\* Setting a week year keeps the weekday, and the week if the year has it.
LEMMA WeekYearSet ==
  ASSUME ClockChangesWithinDays, m \in Moment, m.valid, NEW rule \in WeekRule, NEW y \in Int,
         NEW week \in Int, 1 <= week, NEW wday \in 0 .. 7
  PROVE  LET x == setWeekYearHelper(m, y, week, wday, rule) IN
           /\ Alike(x, m) /\ day(x) = wday % 7
           /\ weekOf(x, rule) = [year |-> y, week |-> Lesser(week, weeksInYear(y, rule))]
<1>1. PICK weeks \in {52, 53} : weeks = weeksInYear(y, rule)
  BY WeeksFillTheYears
<1>2. PICK w \in 1 .. weeks : w = Lesser(week, weeks)
  <2>1. Lesser(week, weeks) \in 1 .. weeks
    BY DEF Lesser
  <2> QED BY <2>1
<1>3. w \in 1 .. weeksInYear(y, rule)
  BY <1>1
<1>4. PICK n \in Int : /\ n = WeekDay(y, w, wday, rule) /\ LiesInWeek(n, y, w, rule)
                       /\ WeekdayOf(n) = wday % 7
  BY <1>3, WeekDayIs
<1>5. setWeekYearHelper(m, y, week, wday, rule) = SetDateOf(m, n)
  <2>1. setWeekYearHelper(m, y, week, wday, rule) = setWeekAll(m, y, w, wday, rule)
    BY <1>1, <1>2, Zenon DEF setWeekYearHelper
  <2>2. setWeekAll(m, y, w, wday, rule) = SetDateOf(m, WeekDay(y, w, wday, rule))
    BY <1>3, SetWeekAllIs
  <2> QED BY <1>4, <2>1, <2>2, Zenon
<1>6. PICK x \in Moment : x = SetDateOf(m, n) /\ Alike(x, m) /\ x.valid /\ DayOf(x) = n
  BY SetDateOfDay DEF Alike
<1>7. weekOf(x, rule) = [year |-> y, week |-> w]
  BY <1>3, <1>4, <1>6, InWeek
<1> QED BY <1>1, <1>2, <1>4, <1>5, <1>6, <1>7 DEF day

LEMMA SettersReadBackHolds ==
  ASSUME ClockChangesWithinDays, m \in Moment
  PROVE  SettersReadBack
<1> SUFFICES ASSUME m.valid
             PROVE  /\ \A rule \in {m.week, ISOWeek} :
                         WeeksReadBack(weekOf(m, rule), rule) /\ WeekdaysReadBack(weekOf(m, rule), rule)
                    /\ \A n \in {1, 365} : IsDayOfYear(setDayOfYear(m, n), n)
                    /\ \A n \in 1 .. 4 :
                         LET x == setQuarter(m, n) IN
                           quarter(x) = n /\ month(x) % 3 = month(m) % 3 /\ year(x) = year(m)
                    /\ NextWeekYearReadsBack(weekOf(m, ISOWeek))
                    /\ m.week.dow = 0 => weekday(setWeekYear(m, year(m) + 1)) = weekday(m)
  BY DEF SettersReadBack
<1>1. m.week \in WeekRule /\ ISOWeek \in WeekRule
  BY DEF Moment, ISOWeek, WeekRule
<1>2. \A rule \in {m.week, ISOWeek} :
        WeeksReadBack(weekOf(m, rule), rule) /\ WeekdaysReadBack(weekOf(m, rule), rule)
  BY <1>1, WeeksSet, WeekdaysSet
<1>3. \A n \in {1, 365} : IsDayOfYear(setDayOfYear(m, n), n)
  BY DayOfYearSet
<1>4. PICK n \in Int, v \in 0 .. 6 : n = DayOf(m) /\ v = day(m)
  BY ShownType
<1>5. ASSUME NEW rule \in WeekRule
      PROVE  \E y \in Int, w \in Int : weekOf(m, rule) = [year |-> y, week |-> w] /\ 1 <= w
  <2>1. PICK y \in Int : \E week \in 1 .. weeksInYear(y, rule) :
          WeekOn(n, rule) = [year |-> y, week |-> week] /\ LiesInWeek(n, y, week, rule)
    BY WeekLies
  <2>2. PICK w \in 1 .. weeksInYear(y, rule) : WeekOn(n, rule) = [year |-> y, week |-> w]
    BY <2>1
  <2>3. w \in Int /\ 1 <= w
    BY WeeksFillTheYears
  <2> QED BY <1>4, <2>2, <2>3, WeekOfIs
<1>6. NextWeekYearReadsBack(weekOf(m, ISOWeek))
  <2>1. PICK y \in Int, w \in Int : weekOf(m, ISOWeek) = [year |-> y, week |-> w] /\ 1 <= w
    BY <1>1, <1>5
  <2>2. PICK z \in Int : z = y + 1
    OBVIOUS
  <2>3. PICK i \in 0 .. 7 : i = isoWeekday(m) /\ i % 7 = v
    <3>1. isoWeekday(m) \in 0 .. 7 /\ isoWeekday(m) % 7 = v
      BY <1>4 DEF isoWeekday
    <3> QED BY <3>1
  <2>4. PICK x : x = setWeekYearHelper(m, z, w, i, ISOWeek)
    OBVIOUS
  <2>5. /\ day(x) = i % 7
        /\ weekOf(x, ISOWeek) = [year |-> z, week |-> Lesser(w, weeksInYear(z, ISOWeek))]
    BY <1>1, <2>1, <2>4, WeekYearSet
  <2>6. setISOWeekYear(m, y + 1) = x
    BY <2>1, <2>2, <2>3, <2>4 DEF setISOWeekYear
  <2>7. PICK now : now = weekOf(m, ISOWeek) /\ now.year = y /\ now.week = w
    BY <2>1
  <2> QED BY <1>4, <2>2, <2>3, <2>5, <2>6, <2>7 DEF NextWeekYearReadsBack, IsInWeek
<1>7. ASSUME m.week.dow = 0
      PROVE  weekday(setWeekYear(m, year(m) + 1)) = weekday(m)
  <2>1. PICK y \in Int, w \in Int : weekOf(m, m.week) = [year |-> y, week |-> w] /\ 1 <= w
    BY <1>1, <1>5
  <2>2. PICK z \in Int : z = year(m) + 1
    <3>1. year(m) \in Int
      BY ShownType
    <3> QED BY <3>1
  <2>3. weekday(m) = v
    <3>1. (v + 7 - 0) % 7 = v
      BY SMT
    <3> QED BY <1>4, <1>7, <3>1 DEF weekday
  <2>4. PICK x : x = setWeekYearHelper(m, z, w, v, m.week)
    OBVIOUS
  <2>5. setWeekYear(m, year(m) + 1) = x
    BY <2>1, <2>2, <2>3, <2>4 DEF setWeekYear
  <2>6. v \in 0 .. 7
    OBVIOUS
  <2>7. Alike(x, m) /\ day(x) = v % 7
    BY <1>1, <2>1, <2>4, <2>6, WeekYearSet
  <2>8. x.week = m.week
    BY <2>7 DEF Alike
  <2>9. weekday(x) = v
    <3>1. ((v % 7) + 7 - 0) % 7 = v
      BY SMT
    <3> QED BY <1>7, <2>7, <2>8, <3>1 DEF weekday
  <2> QED BY <2>3, <2>5, <2>9
<1> QED BY <1>2, <1>3, <1>6, <1>7, QuarterSet

\* In every zone whose changes of the clock do not touch midnight, in every
\* year and for every rule of weeks: what is set of a date is read back
\* (moment.js:4646), and nothing larger changes.
THEOREM DatesSet ==
  ASSUME ClockChangesWithinDays
  PROVE  Spec => []SettersReadBack
<1>1. CallsInv => SettersReadBack
  BY SettersReadBackHolds DEF CallsInv, TypeOK
<1> QED BY <1>1, CallsInvariance, PTL

-----------------------------------------------------------------------------
(***************************************************************************)
(* What a new moment is made of.  The parts that are given are shown again, *)
(* save a clock time that the zone skips and 24:00, and those that are not *)
(* given come from the clock.                                              *)
(***************************************************************************)
LEMMA LeapYearsRepeat ==
  ASSUME NEW y \in Int, NEW r \in 0 .. 11, NEW z \in Int, z = y + 400
  PROVE  daysInMonth(z, r) = daysInMonth(y, r)
<1>2. isLeapYear(z) <=> isLeapYear(y)
  <2>1. z % 4 = y % 4 /\ z % 100 = y % 100 /\ z % 400 = y % 400
    BY SMT
  <2> QED BY <2>1 DEF isLeapYear
<1>3. r % 12 = r /\ y + (r - r) \div 12 = y /\ z + (r - r) \div 12 = z
  BY SMT
<1>4. /\ daysInMonth(y, r) = IF r = 1 THEN (IF isLeapYear(y) THEN 29 ELSE 28) ELSE 31 - ((r % 7) % 2)
      /\ daysInMonth(z, r) = IF r = 1 THEN (IF isLeapYear(z) THEN 29 ELSE 28) ELSE 31 - ((r % 7) % 2)
  BY <1>3, DaysInMonthIs
<1> QED BY <1>2, <1>4, Zenon

\* createUTCDate makes every date, also in the years 0 to 99.
LEMMA UTCDateOf ==
  ASSUME NEW y \in Int, NEW r \in 0 .. 11, NEW dt \in 1 .. daysInMonth(y, r)
  PROVE  createUTCDate(y, r, dt) = DayNumber(y, r, dt)
<1>1. CASE y \notin 0 .. 99
  BY <1>1 DEF createUTCDate, NewDate
<1>2. CASE y \in 0 .. 99
  <2>1. PICK z \in Int : z = y + 400 /\ z \notin 0 .. 99
    <3>1. y + 400 \in Int /\ y + 400 \notin 0 .. 99 BY <1>2, SMT
    <3> QED BY <3>1
  <2>2. dt \in 1 .. daysInMonth(z, r)
    BY <2>1, LeapYearsRepeat
  <2>3. PICK n \in Int : n = DayNumber(z, r, dt) /\ MonthOf(n) = r /\ DateOf(n) = dt
    BY <2>2, DateIs
  <2>4. NewDate(y + 400, r, dt) = n
    BY <2>1, <2>3 DEF NewDate
  <2>5. createUTCDate(y, r, dt) = setUTCFullYear(n, y)
    BY <1>2, <2>4 DEF createUTCDate
  <2> QED BY <2>3, <2>5, Zenon DEF setUTCFullYear
<1> QED BY <1>1, <1>2

\* What is made of the parts of a date, all of them known.
OfParts(a, rule, isUTC) ==
  LET isValid == checkOverflow(a) = "none"
      res == [valid |-> isValid,
              d |-> IF isValid THEN (IF isUTC THEN ClockOf(a) ELSE FromLocal(ClockOf(a))) ELSE 0,
              isUTC |-> isUTC, offset |-> 0, week |-> rule]
  IN  IF a.hour = 24 THEN add(res, 1, "day") ELSE res

LEMMA CompletedIs ==
  ASSUME NEW given, DOMAIN given \subseteq DateParts, NEW today, NEW a, a = Completed(given, today)
  PROVE  /\ DOMAIN a = DateParts /\ \A f \in DOMAIN given : a[f] = given[f]
         /\ ~Has(given, "hour") => a.hour = 0
         /\ Completed(a, today) = a
<1>1. DOMAIN a = DateParts
  BY DEF Completed, DateParts
<1>2. /\ a.year   = defaults(given, "year", a.year)
      /\ a.month  = defaults(given, "month", a.month)
      /\ a.date   = defaults(given, "date", a.date)
      /\ a.hour   = defaults(given, "hour", 0)
      /\ a.minute = defaults(given, "minute", 0)
  BY DEF Completed, defaults
<1>3. \A f \in DOMAIN given : a[f] = given[f]
  BY <1>2 DEF defaults, Has, DateParts
<1>4. \A alt : \A f \in DateParts : defaults(a, f, alt) = a[f]
  BY <1>1 DEF defaults, Has
<1>5. Completed(a, today)
        = [year |-> a.year, month |-> a.month, date |-> a.date, hour |-> a.hour, minute |-> a.minute]
  BY <1>4 DEF Completed, DateParts
<1>6. a = [year |-> a.year, month |-> a.month, date |-> a.date, hour |-> a.hour, minute |-> a.minute]
  BY DEF Completed
<1> QED BY <1>1, <1>2, <1>3, <1>5, <1>6 DEF defaults

\* Without weeks, AM or PM and an offset, a moment is made of the parts only.
LEMMA PartsOnly ==
  ASSUME NEW given, IntFields(given), DOMAIN given \subseteq DateParts,
         NEW rule, NEW isUTC \in BOOLEAN, NEW a, a = Completed(given, currentDate(isUTC))
  PROVE  /\ meridiemFixWrap(given) = given
         /\ configFromArray(given, rule, isUTC).a = a
         /\ configFromArray(given, rule, isUTC).overflow = checkOverflow(a)
         /\ createLocalOrUTC(given, rule, isUTC) = OfParts(a, rule, isUTC)
<1>1. /\ ~Has(given, "pm") /\ ~Has(given, "tzm") /\ ~Has(given, "d") /\ ~Has(given, "dayOfYear")
      /\ DOMAIN given \cap WeekFields = {}
  BY DEF Has, DateParts, WeekFields, ISOFields
<1>2. meridiemFixWrap(given) = given
  BY <1>1 DEF meridiemFixWrap
<1>3. ~ByWeek(given)
  BY <1>1 DEF ByWeek
<1>4. \A info : WithDayOfYear(given, info) = given
  BY <1>3 DEF WithDayOfYear
<1>5. \A y : WithMonthAndDate(given, y) = given /\ ~NoSuchDay(given, y)
  BY <1>1 DEF WithMonthAndDate, NoSuchDay
<1>6. PICK config : config = configFromArray(given, rule, isUTC)
  OBVIOUS
<1>7. config.a = a /\ config.overflow = checkOverflow(a)
  <2>1. config.a = a
    BY <1>4, <1>5, <1>6 DEF configFromArray, PartsAndOverflow
  <2>2. PICK noDay : noDay = NoSuchDay(given, defaults(given, "year", YearOf(currentDate(isUTC))))
    OBVIOUS
  <2>3. config.overflow = getOverflow(checkOverflow(a), noDay, "none")
    BY <1>3, <1>4, <1>5, <1>6, <2>2 DEF configFromArray, PartsAndOverflow
  <2>4. ~noDay
    BY <1>5, <2>2
  <2> QED BY <2>1, <2>3, <2>4 DEF getOverflow
<1>8. PICK c : c = ClockOf(a)
  OBVIOUS
<1>9. UsesUTC(given, isUTC) = isUTC /\ defaults(given, "tzm", 0) = 0
  BY <1>1 DEF UsesUTC, defaults
<1>10. checkOverflow(a) = "none" =>
         (IF isUTC THEN c ELSE FromLocal(c)) - 0 = IF isUTC THEN c ELSE FromLocal(c)
  <2> SUFFICES ASSUME checkOverflow(a) = "none"
               PROVE  (IF isUTC THEN c ELSE FromLocal(c)) - 0 = IF isUTC THEN c ELSE FromLocal(c)
    OBVIOUS
  <2>1. c \in Int
    <3>1. PICK y \in Int, r \in 0 .. 11, dt \in Int, h \in Int, k \in Int :
            y = a.year /\ r = a.month /\ dt = a.date /\ h = a.hour /\ k = a.minute
      <4>1. /\ a.year \in Int /\ a.month \in 0 .. 11 /\ a.date \in Int
            /\ a.hour \in 0 .. 24 /\ a.minute \in 0 .. 59
        BY <1>6, <1>7, PartsType
      <4>2. a.hour \in Int /\ a.minute \in Int
        BY <4>1
      <4> QED BY <4>1, <4>2, Zenon
    <3>2. dt \in 1 .. daysInMonth(y, r)
      BY <3>1 DEF checkOverflow
    <3>3. PICK n \in Int : n = createUTCDate(y, r, dt)
      <4>1. r \in Int
        OBVIOUS
      <4>2. DayNumber(y, r, dt) \in Int
        BY <4>1, DayNumberType
      <4> QED BY <3>2, <4>2, UTCDateOf
    <3>4. n * 1440 + (IF h = 24 /\ k = 0 THEN 0 ELSE h * 60 + k) \in Int
      BY SMT
    <3> QED BY <1>8, <3>1, <3>3, <3>4 DEF ClockOf, MinutesPerDay
  <2> QED BY <2>1, ZoneType
<1>11. createFromConfig(given, config, rule, isUTC) = OfParts(a, rule, isUTC)
  <2> DEFINE isValid == checkOverflow(a) = "none"
             plain == [valid |-> isValid,
                       d |-> IF isValid THEN (IF isUTC THEN c ELSE FromLocal(c)) ELSE 0,
                       isUTC |-> isUTC, offset |-> 0, week |-> rule]
  <2>1. OfParts(a, rule, isUTC) = IF a.hour = 24 THEN add(plain, 1, "day") ELSE plain
    BY <1>8, Zenon DEF OfParts
  <2>2. createFromConfig(given, config, rule, isUTC)
          = IF a.hour = 24 THEN add(plain, 1, "day") ELSE plain
    BY <1>1, <1>7, <1>8, <1>9, <1>10 DEF createFromConfig
  <2> QED BY <2>1, <2>2
<1> QED BY <1>2, <1>6, <1>7, <1>9, <1>11 DEF createLocalOrUTC

LEMMA ArrayOf ==
  ASSUME NEW x, NEW n \in Int, NEW s \in ClockTimes, Clock(x) = n * MinutesPerDay + s
  PROVE  /\ DayOf(x) = n
         /\ toArray(x) = [year |-> YearOf(n), month |-> MonthOf(n), date |-> DateOf(n),
                          hour |-> s \div 60, minute |-> s % 60]
<1>1. PICK c \in Int : c = Clock(x) /\ c = n * 1440 + s
  <2>1. n * 1440 + s \in Int BY SMT DEF ClockTimes, MinutesPerDay
  <2> QED BY <2>1 DEF MinutesPerDay
<1>2. c \div 1440 = n /\ (c % 1440) \div 60 = s \div 60 /\ c % 60 = s % 60
  <2>0. s \in 0 .. 1439
    BY DEF ClockTimes, MinutesPerDay
  <2>1. c \div 1440 = n /\ c % 1440 = s
    BY <1>1, <2>0, SMT
  <2>2. c % 60 = s % 60
    BY <1>1, <2>0, SMT
  <2> QED BY <2>1, <2>2
<1>3. DayOf(x) = n /\ hour(x) = s \div 60 /\ minute(x) = s % 60
  BY <1>1, <1>2 DEF DayOf, hour, minute, MinutesPerDay
<1> QED BY <1>3 DEF toArray, year, month, date

\* What overflows is invalid.
LEMMA OfPartsInvalid ==
  ASSUME NEW a, NEW rule \in WeekRule, NEW isUTC \in BOOLEAN, checkOverflow(a) # "none"
  PROVE  ~OfParts(a, rule, isUTC).valid
<1>1. PICK res \in Moment :
        /\ res = [valid |-> FALSE, d |-> 0, isUTC |-> isUTC, offset |-> 0, week |-> rule]
        /\ ~res.valid
  <2>1. [valid |-> FALSE, d |-> 0, isUTC |-> isUTC, offset |-> 0, week |-> rule] \in Moment
    BY DEF Moment
  <2> QED BY <2>1
<1>2. OfParts(a, rule, isUTC) = IF a.hour = 24 THEN add(res, 1, "day") ELSE res
  BY <1>1 DEF OfParts
<1>3. ~add(res, 1, "day").valid
  BY <1>1, AddOneType DEF Alike
<1> QED BY <1>1, <1>2, <1>3

\* The clock of a moment made of parts: they are shown, a skipped hour as the
\* one after it, and 24:00 as the next midnight.
LEMMA OfPartsShows ==
  ASSUME ClockChangesWithinDays, NEW y \in Int, NEW r \in Int, NEW dt \in Int,
         NEW h \in Int, NEW k \in Int,
         NEW a, a = [year |-> y, month |-> r, date |-> dt, hour |-> h, minute |-> k],
         checkOverflow(a) = "none", NEW rule \in WeekRule, NEW isUTC \in BOOLEAN,
         NEW x, x = OfParts(a, rule, isUTC)
  PROVE  /\ h # 24 => \/ toArray(x) = a
                      \/ \E g \in Int :
                           /\ ~isUTC /\ g = h + 1
                           /\ toArray(x) = [year |-> y, month |-> r, date |-> dt,
                                            hour |-> g, minute |-> k]
         /\ h = 24 => /\ toArray(x).hour = 0
                      /\ toArray(add(x, -1, "day"))
                           = [year |-> y, month |-> r, date |-> dt, hour |-> 0, minute |-> k]
<1>1. /\ r \in 0 .. 11 /\ dt \in 1 .. daysInMonth(y, r)
      /\ h \in 0 .. 24 /\ k \in 0 .. 59 /\ (h = 24 => k = 0)
  BY DEF checkOverflow
<1>2. PICK n \in Int :
        /\ n = DayNumber(y, r, dt) /\ n = createUTCDate(y, r, dt)
        /\ YearOf(n) = y /\ MonthOf(n) = r /\ DateOf(n) = dt
  BY <1>1, DateIs, UTCDateOf
<1>3. PICK s \in ClockTimes : s = (IF h = 24 /\ k = 0 THEN 0 ELSE h * 60 + k) /\ s \in 0 .. 1439
  <2>1. (IF h = 24 /\ k = 0 THEN 0 ELSE h * 60 + k) \in 0 .. 1439
    BY <1>1
  <2> QED BY <2>1 DEF ClockTimes, MinutesPerDay
<1>4. PICK c \in Int : c = n * MinutesPerDay + s /\ c = ClockOf(a)
  <2>1. n * 1440 + s \in Int BY <1>3, SMT
  <2>2. ClockOf(a) = n * MinutesPerDay + s
    BY <1>2, <1>3, Zenon DEF ClockOf
  <2> QED BY <2>1, <2>2 DEF MinutesPerDay
<1>5. PICK res \in Moment :
        /\ res.valid /\ res.isUTC = isUTC /\ res.d = IF isUTC THEN c ELSE FromLocal(c)
        /\ x = IF h = 24 THEN add(res, 1, "day") ELSE res
  <2>1. PICK d \in Int : d = IF isUTC THEN c ELSE FromLocal(c)
    BY ZoneType
  <2>2. PICK res : res = [valid |-> TRUE, d |-> d, isUTC |-> isUTC, offset |-> 0, week |-> rule]
    OBVIOUS
  <2>3. res \in Moment /\ res.valid /\ res.isUTC = isUTC /\ res.d = d
    BY <2>2 DEF Moment
  <2>4. x = IF h = 24 THEN add(res, 1, "day") ELSE res
    BY <1>4, <2>1, <2>2 DEF OfParts
  <2> QED BY <2>1, <2>3, <2>4
<1>6. res = DateAt(res, c)
  BY <1>5 DEF DateAt, Moment
<1>7. 0 \in ClockTimes
  BY DEF ClockTimes, MinutesPerDay
<1>8. CASE h # 24
  <2>0. PICK g \in Int : g = h + 1
    OBVIOUS
  <2>1. s = h * 60 + k
    BY <1>3, <1>8
  <2>2. s \div 60 = h /\ s % 60 = k
    BY <1>1, <2>1, SMT
  <2>3. CASE Clock(res) = c
    <3>1. x = res /\ Clock(x) = n * MinutesPerDay + s
      BY <1>4, <1>5, <1>8, <2>3, Zenon
    <3>2. toArray(x) = [year |-> YearOf(n), month |-> MonthOf(n), date |-> DateOf(n),
                        hour |-> s \div 60, minute |-> s % 60]
      BY <3>1, ArrayOf, Zenon
    <3> QED BY <1>2, <1>8, <2>2, <3>2, Zenon
  <2>4. CASE ~isUTC /\ Clock(res) = c + 60 /\ (c + 60) \div MinutesPerDay = c \div MinutesPerDay
    <3>1. (n * 1440 + s + 60) \div 1440 = n
      <4>1. c \div 1440 = n
        <5>1. c = n * 1440 + s
          BY <1>4 DEF MinutesPerDay
        <5> QED BY <1>3, <5>1, SMT
      <4>2. c + 60 = n * 1440 + s + 60
        BY <1>4 DEF MinutesPerDay
      <4>3. (c + 60) \div 1440 = n
        BY <2>4, <4>1 DEF MinutesPerDay
      <4> QED BY <4>2, <4>3
    <3>2. PICK t \in ClockTimes : t = s + 60 /\ t \in 0 .. 1439
      <4>1. s + 60 \in 0 .. 1439
        BY <1>3, <3>1, SMT
      <4> QED BY <4>1 DEF ClockTimes, MinutesPerDay
    <3>3. t \div 60 = h + 1 /\ t % 60 = k
      BY <1>1, <2>1, <3>2, SMT
    <3>4. Clock(res) = n * MinutesPerDay + t
      BY <1>4, <2>4, <3>2 DEF MinutesPerDay
    <3>5. x = res
      BY <1>5, <1>8, Zenon
    <3>6. toArray(x) = [year |-> YearOf(n), month |-> MonthOf(n), date |-> DateOf(n),
                        hour |-> t \div 60, minute |-> t % 60]
      BY <3>4, <3>5, ArrayOf, Zenon
    <3>7. t \div 60 = g /\ t % 60 = k /\ g = h + 1
      BY <2>0, <3>3
    <3>9. toArray(x) = [year |-> y, month |-> r, date |-> dt, hour |-> g, minute |-> k]
      BY <1>2, <3>6, <3>7
    <3> QED BY <1>8, <2>4, <3>7, <3>9
  <2> QED BY <1>5, <1>6, <2>3, <2>4, ClockAt
<1>9. CASE h = 24
  <2>1. s = 0 /\ k = 0
    BY <1>1, <1>3, <1>9
  <2>2. ASSUME NEW u \in Moment, NEW j \in Int
        PROVE  Clock(DateAt(u, j * MinutesPerDay + 0)) = j * MinutesPerDay + 0
    <3>1. PICK e \in Int : e = j * MinutesPerDay + 0 /\ e % MinutesPerDay = 0
      <4>1. j * 1440 + 0 \in Int /\ (j * 1440 + 0) % 1440 = 0
        BY SMT
      <4> QED BY <4>1 DEF MinutesPerDay
    <3> QED BY <3>1, ClockAt
  <2>3. ASSUME NEW u \in Moment, u.valid, NEW j \in Int, Clock(u) = j * MinutesPerDay + 0,
               NEW i \in {-1, 1}
        PROVE  /\ add(u, i, "day") \in Moment /\ add(u, i, "day").valid
               /\ Clock(add(u, i, "day")) = (j + i) * MinutesPerDay + 0
    <3>1. DayOf(u) = j
      BY <1>7, <2>3, ArrayOf
    <3>2. Clock(u) % MinutesPerDay = 0
      <4>1. (j * 1440 + 0) % 1440 = 0
        BY SMT
      <4> QED BY <2>3, <4>1 DEF MinutesPerDay
    <3>3. PICK l \in Int : l = j + i
      OBVIOUS
    <3>4. add(u, i, "day") = DateAt(u, l * MinutesPerDay + 0)
      BY <2>3, <3>1, <3>2, <3>3, AddDayIs
    <3> QED BY <2>2, <2>3, <3>3, <3>4, AddOneType DEF Alike
  <2>4. Clock(res) = n * MinutesPerDay + 0
    BY <1>4, <1>6, <2>1, <2>2
  <2>5. /\ x \in Moment /\ x.valid
        /\ Clock(x) = (n + 1) * MinutesPerDay + 0
    BY <1>5, <1>9, <2>3, <2>4
  <2>6. PICK p \in Int : p = n + 1 /\ p + (-1) = n
    OBVIOUS
  <2>7. Clock(add(x, -1, "day")) = n * MinutesPerDay + 0
    BY <2>3, <2>5, <2>6
  <2>8. 0 \div 60 = 0 /\ 0 % 60 = 0
    BY SMT
  <2>9. toArray(x).hour = 0
    BY <1>7, <2>5, <2>6, <2>8, ArrayOf
  <2> QED BY <1>2, <1>9, <2>1, <1>7, <2>7, <2>8, <2>9, ArrayOf
<1> QED BY <1>8, <1>9

LEMMA ShowsIs ==
  ASSUME NEW x, NEW given, DOMAIN given \subseteq DateParts,
         \A f \in DOMAIN given : toArray(x)[f] = given[f]
  PROVE  Shows(x, given)
<1>1. PICK b : b = toArray(x)
  OBVIOUS
<1>2. DOMAIN b = DateParts /\ b = [f \in DateParts |-> b[f]]
  BY <1>1 DEF toArray, DateParts
<1>3. With(b, given) = [f \in DateParts |-> b[f]]
  BY <1>1, <1>2 DEF With
<1> QED BY <1>1, <1>2, <1>3 DEF Shows

LEMMA ShowsWithHour ==
  ASSUME NEW x, NEW given, DOMAIN given \subseteq DateParts, NEW v, toArray(x)["hour"] = v,
         \A f \in DOMAIN given \ {"hour"} : toArray(x)[f] = given[f]
  PROVE  Shows(x, With(given, [hour |-> v]))
<1> DEFINE more == [hour |-> v]
<1>1. DOMAIN more = {"hour"} /\ more["hour"] = v
  OBVIOUS
<1> HIDE DEF more
<1>2. PICK b : b = With(given, more)
  OBVIOUS
<1>3. /\ DOMAIN b = DOMAIN given \cup {"hour"}
      /\ \A f \in DOMAIN given \cup {"hour"} : b[f] = IF f \in {"hour"} THEN more[f] ELSE given[f]
  BY <1>1, <1>2, WithType, Zenon
<1>4. DOMAIN b \subseteq DateParts
  BY <1>3 DEF DateParts
<1>5. \A f \in DOMAIN b : toArray(x)[f] = b[f]
  BY <1>1, <1>3
<1>6. Shows(x, b)
  BY <1>4, <1>5, ShowsIs
<1> QED BY <1>2, <1>6 DEF more

LEMMA PartsReadBackHolds ==
  ASSUME ClockChangesWithinDays, IntFields(input), NEW rule \in WeekRule, NEW isUTC \in BOOLEAN,
         m = createLocalOrUTC(input, rule, isUTC)
  PROVE  PartsReadBack
<1> SUFFICES ASSUME m.valid, DOMAIN input \subseteq DateParts
             PROVE  \/ Shows(m, input)
                    \/ /\ isDaylightSavingTimeShifted(m, input)
                       /\ Has(input, "hour")
                       /\ \/ /\ input.hour = 24 /\ hour(m) = 0
                             /\ Shows(add(m, -1, "day"), With(input, [hour |-> 0]))
                          \/ ~m.isUTC /\ Shows(m, With(input, [hour |-> input.hour + 1]))
  BY DEF PartsReadBack
<1>1. PICK a : a = Completed(input, currentDate(isUTC))
  OBVIOUS
<1>2. /\ DOMAIN a = DateParts /\ \A f \in DOMAIN input : a[f] = input[f]
      /\ ~Has(input, "hour") => a.hour = 0
      /\ Completed(a, currentDate(isUTC)) = a
  BY <1>1, CompletedIs
<1>3. /\ meridiemFixWrap(input) = input
      /\ configFromArray(input, rule, isUTC).a = a
      /\ configFromArray(input, rule, isUTC).overflow = checkOverflow(a)
      /\ m = OfParts(a, rule, isUTC)
  BY <1>1, PartsOnly
<1>4. checkOverflow(a) = "none"
  BY <1>3, OfPartsInvalid
<1>5. PICK y \in Int, r \in Int, dt \in Int, h \in Int, k \in Int :
        y = a.year /\ r = a.month /\ dt = a.date /\ h = a.hour /\ k = a.minute
  <2>1. /\ a.year \in Int /\ a.month \in 0 .. 11 /\ a.date \in Int
        /\ a.hour \in 0 .. 24 /\ a.minute \in 0 .. 59
    BY <1>3, <1>4, PartsType
  <2>2. a.month \in Int /\ a.hour \in Int /\ a.minute \in Int
    BY <2>1
  <2> QED BY <2>1, <2>2, Zenon
<1>6. a = [year |-> y, month |-> r, date |-> dt, hour |-> h, minute |-> k]
  BY <1>1, <1>5 DEF Completed
<1>7. m.week = rule /\ m.isUTC = isUTC
  BY CreateType
<1>8. isDaylightSavingTimeShifted(m, input) <=> toArray(m) # a
  <2>1. IntFields(a)
    BY <1>2, <1>5 DEF IntFields, DateParts
  <2>2. createLocalOrUTC(a, rule, isUTC) = m
    BY <1>2, <1>3, <2>1, PartsOnly
  <2> QED BY <1>3, <1>7, <2>2 DEF isDaylightSavingTimeShifted, IsShownOtherwise
<1>9. CASE toArray(m) = a
  BY <1>2, <1>9, ShowsIs
<1>10. CASE h # 24 /\ toArray(m) # a
  <2>1. PICK g \in Int :
          /\ ~isUTC /\ g = h + 1
          /\ toArray(m) = [year |-> y, month |-> r, date |-> dt, hour |-> g, minute |-> k]
    BY <1>3, <1>4, <1>6, <1>10, OfPartsShows
  <2>2. \A f \in DOMAIN input \ {"hour"} : toArray(m)[f] = input[f]
    BY <1>2, <1>6, <2>1 DEF DateParts
  <2>3. CASE ~Has(input, "hour")
    BY <2>2, <2>3, ShowsIs DEF Has
  <2>4. CASE Has(input, "hour")
    <3>1. input.hour = h
      BY <1>2, <1>5, <2>4, Zenon DEF Has
    <3>0. toArray(m)["hour"] = input.hour + 1
      BY <2>1, <3>1
    <3>2. Shows(m, With(input, [hour |-> input.hour + 1]))
      BY <2>2, <3>0, ShowsWithHour
    <3> QED BY <1>7, <1>8, <1>10, <2>1, <2>4, <3>2
  <2> QED BY <2>3, <2>4
<1>11. CASE h = 24
  <2>1. /\ toArray(m).hour = 0
        /\ toArray(add(m, -1, "day"))
             = [year |-> y, month |-> r, date |-> dt, hour |-> 0, minute |-> k]
    BY <1>3, <1>4, <1>6, <1>11, OfPartsShows
  <2>2. Has(input, "hour") /\ input.hour = 24
    <3>1. a.hour = 24 /\ a.hour # 0
      BY <1>5, <1>11
    <3> QED BY <1>2, <3>1 DEF Has
  <2>3. hour(m) = 0 /\ toArray(m) # a
    <3>1. a.hour # 0
      BY <1>5, <1>11
    <3>2. toArray(m).hour = hour(m)
      BY DEF toArray
    <3> QED BY <2>1, <3>1, <3>2
  <2>4. PICK b : b = add(m, -1, "day")
    OBVIOUS
  <2>5. toArray(b)["hour"] = 0 /\ \A f \in DOMAIN input \ {"hour"} : toArray(b)[f] = input[f]
    BY <1>2, <1>6, <2>1, <2>4 DEF DateParts
  <2>6. Shows(b, With(input, [hour |-> 0]))
    BY <2>5, ShowsWithHour
  <2> QED BY <1>8, <2>2, <2>3, <2>4, <2>6
<1> QED BY <1>9, <1>10, <1>11

-----------------------------------------------------------------------------
(***************************************************************************)
(* Weeks that are given.  The day of a week date has that week, year of    *)
(* weeks and weekday.                                                      *)
(***************************************************************************)
\* A moment made of a week date lies on the day that is found for it.
LEMMA WeekMade ==
  ASSUME ClockChangesWithinDays, NEW given,
         DOMAIN given = ISOFields \/ DOMAIN given = {"gg", "w", "e"},
         NEW rule \in WeekRule, NEW isUTC \in BOOLEAN,
         NEW info, info = dayOfYearFromWeekInfo(given, rule),
         NEW x, x = createLocalOrUTC(given, rule, isUTC), x \in Moment, x.valid
  PROVE  /\ info.overflow = "none"
         /\ (info.at.year \in Int /\ info.at.dayOfYear \in 1 .. daysInYear(info.at.year)) =>
              DayOf(x) = DaysBeforeYear(info.at.year) + info.at.dayOfYear - 1
<1>1. /\ DOMAIN given \subseteq {"GG", "W", "E", "gg", "w", "e"}
      /\ DOMAIN given \cap WeekFields # {}
  BY DEF ISOFields, WeekFields
<1>2. /\ ~Has(given, "pm") /\ ~Has(given, "tzm") /\ ~Has(given, "d")
      /\ ~Has(given, "month") /\ ~Has(given, "date") /\ ByWeek(given)
  BY <1>1 DEF Has, ByWeek
<1>3. meridiemFixWrap(given) = given
  BY <1>2 DEF meridiemFixWrap
<1>4. UsesUTC(given, isUTC) = isUTC /\ defaults(given, "tzm", 0) = 0
  BY <1>2 DEF UsesUTC, defaults
<1> DEFINE today == currentDate(isUTC)
           dated == WithDayOfYear(given, info)
           yearToUse == defaults(dated, "year", YearOf(today))
           found == createUTCDate(yearToUse, 0, dated.dayOfYear)
           whole == WithMonthAndDate(dated, yearToUse)
           a == Completed(whole, today)
           noDay == NoSuchDay(dated, yearToUse)
           parts == [year |-> info.at.year, dayOfYear |-> info.at.dayOfYear]
           dates == [month |-> MonthOf(found), date |-> DateOf(found)]
<1>5. PICK config : config = configFromArray(given, rule, isUTC)
  OBVIOUS
<1>6. config.a = a /\ config.overflow = getOverflow(checkOverflow(a), noDay, info.overflow)
  BY <1>2, <1>5 DEF configFromArray, PartsAndOverflow
<1>7. dated = IF info.overflow = "none" THEN With(given, parts) ELSE given
  BY <1>2 DEF WithDayOfYear
<1>8. whole = IF Has(dated, "dayOfYear") THEN With(dated, dates) ELSE dated
  BY DEF WithMonthAndDate
<1>9. /\ DOMAIN parts = {"year", "dayOfYear"}
      /\ parts["year"] = info.at.year /\ parts["dayOfYear"] = info.at.dayOfYear
      /\ DOMAIN dates = {"month", "date"}
      /\ dates["month"] = MonthOf(found) /\ dates["date"] = DateOf(found)
  OBVIOUS
<1>10. /\ a.year = defaults(whole, "year", YearOf(today))
       /\ a.hour = defaults(whole, "hour", 0) /\ a.minute = defaults(whole, "minute", 0)
       /\ "month" \in DOMAIN whole => a.month = whole["month"]
       /\ "date" \in DOMAIN whole => a.date = whole["date"]
  BY DEF Completed, defaults, Has
<1>11. yearToUse = IF "year" \in DOMAIN dated THEN dated["year"] ELSE YearOf(today)
  BY DEF defaults, Has
<1>12. found = createUTCDate(yearToUse, 0, dated["dayOfYear"])
  OBVIOUS
<1> HIDE DEF dated, yearToUse, found, whole, a, noDay, parts, dates
<1>13. a.hour = 0 /\ a.minute = 0
  <2>1. DOMAIN dated \subseteq DOMAIN given \cup DOMAIN parts
    BY <1>7, WithType
  <2>2. DOMAIN whole \subseteq DOMAIN dated \cup DOMAIN dates
    BY <1>8, WithType
  <2>3. "hour" \notin DOMAIN whole /\ "minute" \notin DOMAIN whole
    BY <1>1, <1>9, <2>1, <2>2
  <2> QED BY <1>10, <2>3 DEF defaults, Has
<1>14. PICK c : c = ClockOf(a)
  OBVIOUS
<1>15. /\ config.overflow = "none"
       /\ x.d = (IF isUTC THEN c ELSE FromLocal(c)) - 0 /\ x.isUTC = isUTC
  <2> DEFINE isValid == config.overflow = "none"
             res == [valid |-> isValid,
                     d |-> IF isValid THEN (IF isUTC THEN c ELSE FromLocal(c)) - 0 ELSE 0,
                     isUTC |-> isUTC, offset |-> 0, week |-> rule]
  <2>1. createFromConfig(given, config, rule, isUTC) = res
    <3>1. config.a.hour # 24 /\ c = ClockOf(config.a)
      BY <1>6, <1>13, <1>14
    <3> QED BY <1>2, <1>4, <3>1 DEF createFromConfig
  <2>2. x = res
    BY <1>3, <1>4, <1>5, <2>1 DEF createLocalOrUTC
  <2>3. res.valid = isValid
    OBVIOUS
  <2>4. isValid
    BY <2>2, <2>3
  <2> QED BY <2>2, <2>4
<1>16. info.overflow = "none"
  BY <1>6, <1>15 DEF getOverflow
<1>17. ASSUME info.at.year \in Int, info.at.dayOfYear \in 1 .. daysInYear(info.at.year)
       PROVE  DayOf(x) = DaysBeforeYear(info.at.year) + info.at.dayOfYear - 1
  <2>1. PICK y \in Int, e \in Int, length \in Int :
          y = info.at.year /\ e = info.at.dayOfYear /\ length = daysInYear(y) /\ 1 <= e /\ e <= length
    <3>1. daysInYear(info.at.year) \in Int
      BY DEF daysInYear
    <3> QED BY <1>17, <3>1
  <2>2. /\ DOMAIN dated = DOMAIN given \cup DOMAIN parts
        /\ dated["year"] = y /\ dated["dayOfYear"] = e
    BY <1>7, <1>9, <1>16, <2>1, WithType
  <2>3. yearToUse = y /\ Has(dated, "dayOfYear")
    BY <1>9, <1>11, <2>2 DEF Has
  <2>4. e \in 1 .. daysInYear(y)
    BY <2>1
  <2>5. PICK n \in Int : n = DaysBeforeYear(y) + e - 1 /\ n = found
    <3>1. DaysBeforeYear(y) \in Int
      BY YearShare
    <3>2. found = DaysBeforeYear(y) + e - 1
      BY <1>12, <2>2, <2>3, <2>4, UTCDateIs
    <3> QED BY <3>1, <3>2
  <2>6. YearOf(n) = y
    <3>1. PICK s \in Int, t \in Int, z \in Int :
            z = y + 1 /\ s = DaysBeforeYear(y) /\ t = DaysBeforeYear(z) /\ t - s = length
      <4>1. PICK z \in Int : z = y + 1
        OBVIOUS
      <4>2. PICK s \in Int, t \in Int : s = DaysBeforeYear(y) /\ t = DaysBeforeYear(z)
        <5>1. DaysBeforeYear(y) \in Int /\ DaysBeforeYear(z) \in Int
          BY YearShare
        <5> QED BY <5>1
      <4>3. t - s = length
        BY <2>1, <4>1, <4>2, YearsAreAsLongAsTheirDates
      <4> QED BY <4>1, <4>2, <4>3
    <3>2. s <= n /\ n < t
      BY <2>1, <2>5, <3>1
    <3> QED BY <3>1, <3>2, YearIs
  <2>7. PICK r \in 0 .. 11, dt \in Int :
          /\ r = MonthOf(n) /\ dt = DateOf(n) /\ dt \in 1 .. daysInMonth(y, r)
          /\ DayNumber(y, r, dt) = n
    <3>1. PICK r \in 0 .. 11 : r = MonthOf(n)
      BY DatesReadBack
    <3>2. daysInMonth(y, r) \in Int
      BY MonthLies
    <3> QED BY <2>6, <3>1, <3>2, DatesReadBack
  <2>8. /\ DOMAIN whole = DOMAIN dated \cup DOMAIN dates
        /\ whole["month"] = r /\ whole["date"] = dt /\ whole["year"] = y
    <3>1. whole = With(dated, dates)
      BY <1>8, <2>3
    <3>2. DOMAIN whole = DOMAIN dated \cup DOMAIN dates
      BY <3>1, WithType
    <3>3. \A f \in DOMAIN dated \cup DOMAIN dates :
            whole[f] = IF f \in DOMAIN dates THEN dates[f] ELSE dated[f]
      BY <3>1, WithType, Zenon
    <3>4. "year" \in DOMAIN dated /\ "year" \notin DOMAIN dates
      BY <1>9, <2>2
    <3>5. dates["month"] = r /\ dates["date"] = dt
      BY <1>9, <2>5, <2>7, Zenon
    <3> QED BY <1>9, <2>2, <3>2, <3>3, <3>4, <3>5
  <2>9. a.year = y /\ a.month = r /\ a.date = dt
    BY <1>9, <1>10, <2>2, <2>8 DEF defaults, Has
  <2>10. c = n * MinutesPerDay + 0
    <3>1. createUTCDate(y, r, dt) = n
      BY <2>7, UTCDateOf
    <3>2. 0 * 60 + 0 = 0 /\ ~(0 = 24)
      OBVIOUS
    <3> QED BY <1>13, <1>14, <2>9, <3>1, <3>2 DEF ClockOf
  <2>11. c \in Int
    <3>1. n * 1440 + 0 \in Int BY SMT
    <3> QED BY <2>10, <3>1 DEF MinutesPerDay
  <2>12. x = DateAt(x, c)
    <3>1. FromLocal(c) \in Int
      BY <2>11, ZoneType
    <3>2. x.d = IF x.isUTC THEN c ELSE FromLocal(c)
      BY <1>15, <2>11, <3>1
    <3> QED BY <3>2 DEF DateAt, Moment
  <2>13. DayOf(x) = n
    <3>1. 0 \in ClockTimes
      BY DEF ClockTimes, MinutesPerDay
    <3> QED BY <2>10, <2>12, <3>1, DayAt
  <2> QED BY <2>1, <2>5, <2>13
<1> QED BY <1>16, <1>17

LEMMA WeekDatesReadBackHolds ==
  ASSUME ClockChangesWithinDays, IntFields(input), NEW rule \in WeekRule, NEW isUTC \in BOOLEAN,
         m = createLocalOrUTC(input, rule, isUTC)
  PROVE  WeekDatesReadBack
<1> SUFFICES ASSUME m.valid
             PROVE  /\ DOMAIN input = ISOFields =>
                         /\ weekOf(m, ISOWeek) = [year |-> input.GG, week |-> input.W]
                         /\ isoWeekday(m) = input.E
                    /\ DOMAIN input = {"gg", "w", "e"} =>
                         /\ weekOf(m, m.week) = [year |-> input.gg, week |-> input.w]
                         /\ weekday(m) = input.e
  BY DEF WeekDatesReadBack
<1>1. m \in Moment /\ m.week = rule
  BY CreateType
<1>2. PICK info : info = dayOfYearFromWeekInfo(input, rule)
  OBVIOUS
\* The day that is found for a week date has its week and weekday.
<1>3. ASSUME NEW s \in WeekRule, NEW y \in Int, NEW week \in 1 .. weeksInYear(y, s),
             NEW v \in 0 .. 7, info.at = dayOfYearFromWeeks(y, week, v, s),
             DOMAIN input = ISOFields \/ DOMAIN input = {"gg", "w", "e"}
      PROVE  weekOf(m, s) = [year |-> y, week |-> week] /\ day(m) = v % 7
  <2>1. PICK n \in Int : n = WeekDay(y, week, v, s) /\ LiesInWeek(n, y, week, s) /\ WeekdayOf(n) = v % 7
    BY WeekDayIs
  <2>2. /\ info.at.year \in Int /\ info.at.dayOfYear \in 1 .. daysInYear(info.at.year)
        /\ DaysBeforeYear(info.at.year) + info.at.dayOfYear - 1 = n
    <3>1. PICK made : made = dayOfYearFromWeeks(y, week, v, s)
      OBVIOUS
    <3> QED BY <1>3, <2>1, <3>1, WeekDateIs DEF WeekDay
  <2>3. DayOf(m) = n
    BY <1>1, <1>2, <1>3, <2>2, WeekMade
  <2> QED BY <1>1, <2>1, <2>3, InWeek DEF day
<1>4. ASSUME DOMAIN input = ISOFields
      PROVE  /\ weekOf(m, ISOWeek) = [year |-> input.GG, week |-> input.W]
             /\ isoWeekday(m) = input.E
  <2>1. PICK y \in Int, week \in Int, v \in Int : y = input.GG /\ week = input.W /\ v = input.E
    BY <1>4 DEF IntFields, ISOFields
  <2>2. PICK now : now = CurrentWeek(ISOWeek)
    OBVIOUS
  <2>3. info = WeekInfo(input, ISOWeek, TRUE, now)
    BY <1>2, <1>4, <2>2 DEF dayOfYearFromWeekInfo, ISOFields
  <2>4. defaults(input, "GG", defaults(input, "year", now.year)) = y
    BY <1>4, <2>1 DEF defaults, Has, ISOFields
  <2>5. defaults(input, "W", 1) = week /\ defaults(input, "E", 1) = v
    BY <1>4, <2>1 DEF defaults, Has, ISOFields
  <2>6. /\ info.overflow = IF week \notin 1 .. weeksInYear(y, ISOWeek) THEN "week"
                           ELSE IF v \notin 1 .. 7 THEN "weekday" ELSE "none"
        /\ info.at = dayOfYearFromWeeks(y, week, v, ISOWeek)
    BY <2>3, <2>4, <2>5 DEF WeekInfo
  <2>7. info.overflow = "none"
    BY <1>1, <1>2, <1>4, WeekMade
  <2>8. ISOWeek \in WeekRule
    BY DEF ISOWeek, WeekRule
  <2>9. week \in 1 .. weeksInYear(y, ISOWeek) /\ v \in 1 .. 7
    BY <2>6, <2>7
  <2>10. v \in 0 .. 7
    BY <2>9
  <2>11. weekOf(m, ISOWeek) = [year |-> y, week |-> week] /\ day(m) = v % 7
    BY <1>3, <1>4, <2>6, <2>8, <2>9, <2>10
  <2>12. v % 7 = IF v = 7 THEN 0 ELSE v
    BY <2>9, SMT
  <2> QED BY <2>1, <2>9, <2>11, <2>12 DEF isoWeekday
<1>5. ASSUME DOMAIN input = {"gg", "w", "e"}
      PROVE  /\ weekOf(m, m.week) = [year |-> input.gg, week |-> input.w]
             /\ weekday(m) = input.e
  <2>1. PICK y \in Int, week \in Int, i \in Int, dow \in 0 .. 6 :
          y = input.gg /\ week = input.w /\ i = input.e /\ dow = rule.dow
    <3>1. input.gg \in Int /\ input.w \in Int /\ input.e \in Int
      BY <1>5 DEF IntFields
    <3>2. rule.dow \in 0 .. 6
      BY RuleIs
    <3> QED BY <3>1, <3>2
  <2>2. PICK now : now = CurrentWeek(rule)
    OBVIOUS
  <2>3. info = WeekInfo(input, rule, FALSE, now)
    BY <1>2, <1>5, <2>2 DEF dayOfYearFromWeekInfo, ISOFields
  <2>4. defaults(input, "gg", defaults(input, "year", now.year)) = y
    BY <1>5, <2>1 DEF defaults, Has
  <2>5. defaults(input, "w", now.week) = week /\ defaults(input, "e", 0) = i /\ ~Has(input, "d")
    BY <1>5, <2>1 DEF defaults, Has
  <2>6. PICK u \in Int : u = i + dow
    OBVIOUS
  <2>7. /\ info.overflow = IF week \notin 1 .. weeksInYear(y, rule) THEN "week"
                           ELSE IF i \notin 0 .. 6 THEN "weekday" ELSE "none"
        /\ info.at = dayOfYearFromWeeks(y, week, u, rule)
    BY <2>1, <2>3, <2>4, <2>5, <2>6 DEF WeekInfo
  <2>8. info.overflow = "none"
    BY <1>1, <1>2, <1>5, WeekMade
  <2>9. week \in 1 .. weeksInYear(y, rule) /\ i \in 0 .. 6
    BY <2>7, <2>8
  <2>10. PICK v \in 0 .. 6 : v = u % 7 /\ (7 + v - dow) % 7 = i /\ (7 + u - dow) % 7 = i
    <3>1. u % 7 \in 0 .. 6
      BY SMT
    <3>2. PICK v \in 0 .. 6 : v = u % 7
      BY <3>1
    <3>3. v = IF u < 7 THEN u ELSE u - 7
      BY <2>6, <2>9, <3>2, SMT
    <3>4. (7 + v - dow) % 7 = i /\ (7 + u - dow) % 7 = i
      BY <2>6, <2>9, <3>3, SMT
    <3> QED BY <3>2, <3>4
  <2>11. dayOfYearFromWeeks(y, week, u, rule) = dayOfYearFromWeeks(y, week, v, rule)
    BY <2>1, <2>10, Zenon DEF dayOfYearFromWeeks, DaysToWeekday
  <2>12. v \in 0 .. 7 /\ v % 7 = v
    <3>1. v % 7 = v BY SMT
    <3> QED BY <3>1
  <2>13. weekOf(m, rule) = [year |-> y, week |-> week] /\ day(m) = v
    BY <1>3, <1>5, <2>7, <2>9, <2>11, <2>12
  <2>14. weekday(m) = i
    <3>1. (v + 7 - dow) % 7 = i
      BY <2>10
    <3> QED BY <1>1, <2>1, <2>13, <3>1 DEF weekday
  <2> QED BY <1>1, <2>1, <2>13, <2>14
<1> QED BY <1>4, <1>5

\* Before the first call the moment is as it was made.
NewIsMade ==
  /\ input \in Inputs
  /\ calls = 0 =>
       \E rule \in WeekRules, isUTC \in BOOLEAN : m = createLocalOrUTC(input, rule, isUTC)

LEMMA NewInvariance == Spec => [](CallsInv /\ NewIsMade)
<1>1. Init => NewIsMade
  BY DEF Init, NewIsMade
<1>2. CallsInv /\ NewIsMade /\ [Next]_vars => NewIsMade'
  <2> SUFFICES ASSUME CallsInv, NewIsMade, [Next]_vars PROVE NewIsMade'
    OBVIOUS
  <2>1. CASE UNCHANGED vars
    BY <2>1 DEF vars, NewIsMade
  <2>2. CASE Next
    <3>1. calls' = calls + 1 /\ input' = input
      BY <2>2 DEF Next, StartOf, EndOf, Month, Year, Hour, UtcOffset, ToLocal, ToUTC, Between,
                  Add, Lengthen, Abs, Becomes, Lasts, Call
    <3>2. calls' # 0
      BY <3>1 DEF CallsInv, TypeOK
    <3> QED BY <3>1, <3>2 DEF NewIsMade
  <2> QED BY <2>1, <2>2
<1> QED BY <1>1, <1>2, InitCallsInv, NextCallsInv, PTL DEF Spec

\* In every zone whose changes of the clock do not touch midnight, in every
\* year and for every rule of weeks: a new moment shows the parts or the week
\* date it was made of (moment.js:2578, 2667), save a time the zone skips and
\* 24:00.
THEOREM InputShown ==
  ASSUME ClockChangesWithinDays
  PROVE  Spec => []InputReadsBack
<1>1. CallsInv /\ NewIsMade => InputReadsBack
  <2> SUFFICES ASSUME CallsInv, NewIsMade PROVE InputReadsBack
    OBVIOUS
  <2>1. CASE calls # 0
    BY <2>1 DEF InputReadsBack, PartsReadBack, WeekDatesReadBack
  <2>2. CASE calls = 0
    <3>1. PICK rule \in WeekRules, isUTC \in BOOLEAN : m = createLocalOrUTC(input, rule, isUTC)
      BY <2>2 DEF NewIsMade
    <3>2. IntFields(input) /\ rule \in WeekRule
      BY CallsAssumption DEF NewIsMade, IntFields
    <3> QED BY <3>1, <3>2, PartsReadBackHolds, WeekDatesReadBackHolds DEF InputReadsBack
  <2> QED BY <2>1, <2>2
<1> QED BY <1>1, NewInvariance, PTL

-----------------------------------------------------------------------------
(***************************************************************************)
(* Months counted through the years, from an anchor: a month that is added *)
(* is one more, and moments shown alike come in the order of their months, *)
(* dates and, where nothing is shown twice, clock times.                   *)
(***************************************************************************)
\* Months counted through the years: the first day of one and its length.
FirstOf(i)  == DayNumber(0, i, 1)
LengthOf(i) == daysInMonth(0, i)

LEMMA IndexType ==
  ASSUME NEW i \in Int
  PROVE  FirstOf(i) \in Int /\ LengthOf(i) \in Int
<1>1. 0 \in Int /\ 1 \in Int
  OBVIOUS
<1> QED BY <1>1, DayNumberType, DaysInMonthType, Zenon DEF FirstOf, LengthOf

LEMMA MonthCounted ==
  ASSUME NEW y \in Int, NEW mon \in Int, NEW dt \in Int
  PROVE  /\ DayNumber(y, mon, 1) = FirstOf(12 * y + mon)
         /\ DayNumber(y, mon, dt) = FirstOf(12 * y + mon) + dt - 1
         /\ daysInMonth(y, mon) = LengthOf(12 * y + mon)
<1>0. PICK i \in Int : i = 12 * y + mon
  OBVIOUS
<1>1. PICK w \in Int, r \in 0 .. 11 : w = y + mon \div 12 /\ r = mon % 12
  <2>1. y + mon \div 12 \in Int /\ mon % 12 \in 0 .. 11
    BY SMT
  <2> QED BY <2>1, Zenon
<1>2. w = 0 + i \div 12 /\ r = i % 12
  BY <1>0, <1>1, SMT
<1>3. w = y + (mon - r) \div 12 /\ w = 0 + (i - r) \div 12
  BY <1>0, <1>1, SMT
<1>4. PICK a \in Int, b \in Int : a = DaysBeforeYear(w) /\ b = DaysBeforeMonth(w, r)
  <2>1. DaysBeforeYear(w) \in Int /\ DaysBeforeMonth(w, r) \in Int
    BY MonthStartType
  <2> QED BY <2>1, Zenon
<1>5. DayNumber(y, mon, dt) = a + b + dt - 1 /\ DayNumber(y, mon, 1) = a + b + 1 - 1
  BY <1>1, <1>4, Zenon DEF DayNumber
<1>6. FirstOf(i) = a + b + 1 - 1
  BY <1>2, <1>4, Zenon DEF DayNumber, FirstOf
<1>7. a + b + 1 - 1 \in Int /\ a + b + dt - 1 = (a + b + 1 - 1) + dt - 1
  BY SMT
<1>8. daysInMonth(y, mon) = LengthOf(i)
  BY <1>1, <1>2, <1>3, Zenon DEF daysInMonth, mod, LengthOf
<1> QED BY <1>0, <1>5, <1>6, <1>7, <1>8, Zenon

LEMMA MonthsHaveLengths ==
  ASSUME NEW i \in Int, NEW j \in Int, j = i + 1
  PROVE  /\ FirstOf(i) \in Int /\ FirstOf(j) \in Int /\ LengthOf(i) \in Int
         /\ FirstOf(j) = FirstOf(i) + LengthOf(i)
         /\ 28 <= LengthOf(i) /\ LengthOf(i) <= 31
<1>1. FirstOf(i) \in Int /\ FirstOf(j) \in Int /\ LengthOf(i) \in Int
  BY IndexType
<1>2. DayNumber(0, i + 1, 1) - DayNumber(0, i, 1) = daysInMonth(0, i)
  BY MonthsAreAsLongAsTheirDates
<1>3. FirstOf(j) - FirstOf(i) = LengthOf(i)
  BY <1>2, Zenon DEF FirstOf, LengthOf
<1>4. 28 <= LengthOf(i) /\ LengthOf(i) <= 31
  <2>1. PICK r \in 0 .. 11, z \in Int : i % 12 = r /\ 0 + (i - r) \div 12 = z
    <3>1. i % 12 \in 0 .. 11 /\ 0 + (i - (i % 12)) \div 12 \in Int BY SMT
    <3> QED BY <3>1, Zenon
  <2>2. LengthOf(i) = IF r = 1 THEN (IF isLeapYear(z) THEN 29 ELSE 28) ELSE 31 - ((r % 7) % 2)
    BY <2>1, Zenon DEF LengthOf, daysInMonth, mod
  <2> QED BY <2>2, SMT
<1> QED BY <1>1, <1>3, <1>4

\* Months follow each other.
LEMMA FirstsInOrder ==
  ASSUME NEW i \in Int, NEW j \in Int, i < j
  PROVE  FirstOf(i) \in Int /\ LengthOf(i) \in Int /\ FirstOf(j) \in Int
         /\ FirstOf(i) + LengthOf(i) <= FirstOf(j)
<1>1. ASSUME NEW p \in Int, NEW q \in Int, p < q
      PROVE  FirstOf(p) \in Int /\ FirstOf(q) \in Int /\ FirstOf(p) < FirstOf(q)
  <2>1. PICK y \in Int, r \in 0 .. 11, z \in Int, s \in 0 .. 11 :
          p = 12 * y + r /\ q = 12 * z + s
    <3>1. /\ p \div 12 \in Int /\ p % 12 \in 0 .. 11 /\ p = 12 * (p \div 12) + (p % 12)
          /\ q \div 12 \in Int /\ q % 12 \in 0 .. 11 /\ q = 12 * (q \div 12) + (q % 12)
      BY SMT
    <3> QED BY <3>1, Zenon
  <2>2. y < z \/ (y = z /\ r < s)
    BY <1>1, <2>1
  <2>3. FirstOf(p) = DayNumber(y, r, 1) /\ FirstOf(q) = DayNumber(z, s, 1)
    <3>1. r \in Int /\ s \in Int
      OBVIOUS
    <3>2. DayNumber(y, r, 1) = FirstOf(12 * y + r) /\ DayNumber(z, s, 1) = FirstOf(12 * z + s)
      BY <3>1, MonthCounted
    <3> QED BY <2>1, <3>2, Zenon
  <2>4. PICK a \in Int, b \in Int : a = DayNumber(y, r, 1) /\ b = DayNumber(z, s, 1)
    <3>1. DayNumber(y, r, 1) \in Int /\ DayNumber(z, s, 1) \in Int
      BY MonthIsInYear
    <3> QED BY <3>1
  <2>5. CASE y = z /\ r < s
    <3>1. s \in 1 .. 12
      BY <2>5
    <3> QED BY <2>3, <2>4, <2>5, <3>1, MonthsStartInOrder
  <2>6. CASE y < z
    <3>1. PICK v \in Int, e \in Int, f \in Int :
            v = y + 1 /\ e = DaysBeforeYear(v) /\ f = DaysBeforeYear(z)
      <4>1. y + 1 \in Int
        OBVIOUS
      <4> QED BY <4>1, MonthStartType
    <3>2. a + 28 <= e /\ f <= b
      BY <2>4, <3>1, MonthIsInYear
    <3>3. e <= f
      <4>1. CASE v = z
        BY <3>1, <4>1
      <4>2. CASE v < z
        <5>1. e + 360 <= f
          BY <3>1, <4>2, YearsApart
        <5> QED BY <5>1
      <4> QED BY <2>6, <3>1, <4>1, <4>2
    <3> QED BY <2>3, <2>4, <3>2, <3>3
  <2> QED BY <2>2, <2>5, <2>6
<1>2. PICK n \in Int : n = i + 1
  OBVIOUS
<1>3. /\ FirstOf(i) \in Int /\ FirstOf(n) \in Int /\ LengthOf(i) \in Int
      /\ FirstOf(n) = FirstOf(i) + LengthOf(i)
  BY <1>2, MonthsHaveLengths
<1>4. CASE n = j
  BY <1>3, <1>4
<1>5. CASE n < j
  BY <1>1, <1>3, <1>5
<1> QED BY <1>2, <1>4, <1>5

\* The month and the date a day has, and the day of a date.
MonthIndex(x) == 12 * year(x) + month(x)

LEMMA DayOfIndex ==
  ASSUME NEW x \in Moment
  PROVE  /\ MonthIndex(x) \in Int /\ date(x) \in Int /\ DayOf(x) \in Int
         /\ FirstOf(MonthIndex(x)) \in Int /\ LengthOf(MonthIndex(x)) \in Int
         /\ DayOf(x) = FirstOf(MonthIndex(x)) + date(x) - 1
         /\ 1 <= date(x) /\ date(x) <= LengthOf(MonthIndex(x))
<1>1. PICK n \in Int, y \in Int, r \in 0 .. 11, dt \in Int, i \in Int :
        /\ n = DayOf(x) /\ y = year(x) /\ r = month(x) /\ dt = date(x) /\ i = 12 * y + r
        /\ 1 <= dt /\ dt <= daysInMonth(y, r)
  <2>1. /\ DayOf(x) \in Int /\ year(x) \in Int /\ month(x) \in 0 .. 11 /\ date(x) \in Int
        /\ 1 <= date(x) /\ date(x) <= daysInMonth(year(x), month(x))
    BY ShownType
  <2>2. 12 * year(x) + month(x) \in Int
    BY <2>1
  <2> QED BY <2>1, <2>2, Zenon
<1>2. i = MonthIndex(x)
  BY <1>1, Zenon DEF MonthIndex
<1>3. r \in Int
  OBVIOUS
<1>4. /\ daysInMonth(y, r) = LengthOf(i) /\ DayNumber(y, r, dt) = FirstOf(i) + dt - 1
      /\ FirstOf(i) \in Int /\ LengthOf(i) \in Int
  <2>1. /\ daysInMonth(y, r) = LengthOf(12 * y + r)
        /\ DayNumber(y, r, dt) = FirstOf(12 * y + r) + dt - 1
    BY <1>3, MonthCounted
  <2> QED BY <1>1, <2>1, IndexType, Zenon
<1>5. DayNumber(y, r, dt) = n
  BY <1>1, DatesReadBack DEF year, month, date
<1> QED BY <1>1, <1>2, <1>4, <1>5, Zenon

LEMMA IndexOfDay ==
  ASSUME NEW x \in Moment, NEW i \in Int, NEW dt \in Int, 1 <= dt, dt <= LengthOf(i),
         DayOf(x) = FirstOf(i) + dt - 1
  PROVE  MonthIndex(x) = i /\ date(x) = dt
<1>1. PICK y \in Int, r \in 0 .. 11 : i = 12 * y + r
  <2>1. i \div 12 \in Int /\ i % 12 \in 0 .. 11 /\ i = 12 * (i \div 12) + (i % 12)
    BY SMT
  <2> QED BY <2>1, Zenon
<1>2. r \in Int
  OBVIOUS
<1>3. DayNumber(y, r, dt) = DayOf(x) /\ daysInMonth(y, r) = LengthOf(i) /\ LengthOf(i) \in Int
  <2>1. /\ daysInMonth(y, r) = LengthOf(12 * y + r)
        /\ DayNumber(y, r, dt) = FirstOf(12 * y + r) + dt - 1
    BY <1>2, MonthCounted
  <2> QED BY <1>1, <2>1, IndexType, Zenon
<1>4. dt \in 1 .. daysInMonth(y, r)
  BY <1>3
<1>5. year(x) = y /\ month(x) = r /\ date(x) = dt
  BY <1>3, <1>4, DateIs DEF year, month, date
<1> QED BY <1>1, <1>5, Zenon DEF MonthIndex

\* Of moments shown alike, one of a later day is later.
LEMMA DaysOrderTime ==
  ASSUME ClockChangesWithinDays, NEW x \in Moment, NEW y, Alike(y, x), DayOf(x) < DayOf(y)
  PROVE  x.d < y.d
<1>1. y \in Moment /\ y.isUTC = x.isUTC
  BY DEF Alike
<1>2. PICK a \in Int, b \in Int : a = DayOf(x) /\ b = DayOf(y)
  BY <1>1, ShownType
<1>3. MidnightOf(x, b) = MidnightOf(y, b)
  BY <1>1 DEF MidnightOf
<1>4. MidnightOf(x, b) \in Int /\ ~(MidnightOf(x, b) <= x.d)
  BY <1>2, MidnightsDivideDays
<1>5. MidnightOf(y, b) <= y.d
  BY <1>1, <1>2, MidnightsDivideDays
<1>6. x.d \in Int /\ y.d \in Int
  BY <1>1 DEF Moment
<1> QED BY <1>3, <1>4, <1>5, <1>6

LEMMA DatesOrderTime ==
  ASSUME ClockChangesWithinDays, NEW x \in Moment, NEW y, Alike(y, x),
         MonthIndex(x) < MonthIndex(y) \/ (MonthIndex(x) = MonthIndex(y) /\ date(x) < date(y))
  PROVE  DayOf(x) < DayOf(y) /\ x.d < y.d
<1>1. y \in Moment
  BY DEF Alike
<1>2. PICK i \in Int, a \in Int, f \in Int, length \in Int :
        /\ i = MonthIndex(x) /\ a = date(x) /\ f = FirstOf(i) /\ length = LengthOf(i)
        /\ DayOf(x) = f + a - 1 /\ 1 <= a /\ a <= length
  BY DayOfIndex
<1>3. PICK j \in Int, b \in Int, g \in Int :
        /\ j = MonthIndex(y) /\ b = date(y) /\ g = FirstOf(j)
        /\ DayOf(y) = g + b - 1 /\ 1 <= b
  BY <1>1, DayOfIndex
<1>4. DayOf(x) < DayOf(y)
  <2>1. CASE i < j
    <3>1. f + length <= g
      BY <1>2, <1>3, <2>1, FirstsInOrder
    <3> QED BY <1>2, <1>3, <3>1
  <2>2. CASE i = j /\ a < b
    BY <1>2, <1>3, <2>2
  <2> QED BY <1>2, <1>3, <2>1, <2>2
<1> QED BY <1>4, DaysOrderTime

\* A moment that is the first its clock time is shown at is not after one
\* that shows the same or a later time.
LEMMA FirstsOrderTime ==
  ASSUME NEW x \in Moment, NEW y, Alike(y, x), IsFirst(x), Clock(x) <= Clock(y)
  PROVE  x.d <= y.d /\ (Clock(x) < Clock(y) => x.d < y.d)
<1>1. y \in Moment /\ y.isUTC = x.isUTC
  BY DEF Alike
<1>2. CASE x.isUTC
  <2>1. Clock(x) = x.d /\ Clock(y) = y.d /\ x.d \in Int /\ y.d \in Int
    BY <1>1, <1>2 DEF Clock, Moment
  <2> QED BY <2>1
<1>3. CASE ~x.isUTC
  <2>0. PICK l \in Int, t \in Int, std \in Int, c \in Int, k \in Int :
          /\ l = x.d /\ t = y.d /\ std = StandardOffset /\ c = Local(l) /\ k = Local(t)
    <3>1. x.d \in Int /\ y.d \in Int /\ StandardOffset \in Int
      BY <1>1, ZoneAssumption DEF Moment
    <3>2. Local(x.d) \in Int /\ Local(y.d) \in Int
      BY <3>1, ZoneType
    <3> QED BY <3>1, <3>2
  <2>1. PICK off \in Int, offl \in Int :
          /\ off = LocalOffset(t) /\ offl = LocalOffset(l)
          /\ off = std \/ off = std + 60
          /\ offl = std \/ offl = std + 60
    BY <2>0, LocalOffsetIs
  <2>2. Clock(x) = c /\ Clock(y) = k
    BY <1>1, <1>3, <2>0 DEF Clock
  <2>3. k = t + off /\ c = l + offl
    BY <2>0, <2>1 DEF Local
  <2>4. l = FromLocal(c)
    <3>1. DateAt(x, c) = x
      BY <2>2 DEF IsFirst
    <3>2. DateAt(x, c).d = FromLocal(c)
      BY <1>3 DEF DateAt, Moment
    <3> QED BY <2>0, <3>1, <3>2
  <2>5. ASSUME t < l PROVE FALSE
    <3>0. c <= k
      BY <2>2
    <3>1. off = std + 60 /\ offl = std
      BY <2>0, <2>1, <2>3, <2>5, <3>0
    <3>2. PICK s \in SummerTimes : s[1] <= t /\ t < s[2]
      <4>1. off # std
        BY <2>0, <2>1, <3>1
      <4> QED BY <2>0, <2>1, <4>1, LocalOffsetIs
    <3>3. PICK from \in Int, to \in Int : from = s[1] /\ to = s[2] /\ from + 60 < to
      BY ZoneAssumption
    <3>4. ~(from <= l /\ l < to)
      BY <2>0, <2>1, <3>1, <3>3, LocalOffsetIs
    <3>5. PICK p \in Int : p = c - std - 60 /\ p = l - 60
      <4>1. c - std - 60 = l - 60
        BY <2>3, <3>1
      <4> QED BY <4>1
    <3>6. from <= p /\ p < to
      BY <2>3, <2>5, <3>0, <3>1, <3>2, <3>3, <3>4, <3>5
    <3>7. LocalOffset(p) = std + 60
      BY <2>0, <2>1, <3>3, <3>6, LocalOffsetIs
    <3>8. Local(p) = c
      BY <3>5, <3>7 DEF Local
    <3>9. FromLocal(c) = p
      BY <2>0, <2>1, <3>5, <3>8 DEF FromLocal
    <3> QED BY <2>4, <3>5, <3>9
  <2>6. l <= t
    BY <2>5
  <2>7. c < k => l # t
    BY <2>0
  <2> QED BY <2>0, <2>2, <2>6, <2>7
<1> QED BY <1>2, <1>3

\* Months are added as AddMonths does it.
LEMMA AddMonthIs ==
  ASSUME NEW x \in Moment, x.valid, NEW k \in Int
  PROVE  /\ add(x, k, "month") = AddMonths(x, k)
         /\ AddMonths(x, k) \in Moment /\ Alike(AddMonths(x, k), x)
<1> DEFINE given == [u \in {"month"} |-> k]
<1>1. Kept(given).months = k /\ Kept(given).days = 0 /\ Kept(given).minutes = 0
  BY DEF Kept, Amount
<1>2. PICK dur0 : dur0 = Kept(given)
  OBVIOUS
<1>3. add(x, k, "month") = addSubtract(x, dur0, 1)
  BY <1>2 DEF add
<1> HIDE DEF given
<1>4. dur0.months * 1 = k /\ dur0.days * 1 = 0 /\ dur0.minutes * 1 = 0
  BY <1>1, <1>2
<1>5. PICK z \in Moment : z = AddMonths(x, k) /\ Alike(z, x)
  <2>1. CASE k = 0
    <3>1. Alike(x, x)
      BY DEF Alike
    <3> QED BY <2>1, <3>1 DEF AddMonths
  <2>2. CASE k # 0
    <3>1. month(x) + k \in Int
      BY ShownType
    <3>2. Alike(setMonth(x, month(x) + k), x)
      BY <3>1, SetType
    <3> QED BY <2>2, <3>2 DEF AddMonths, Alike
  <2> QED BY <2>1, <2>2
<1>6. addSubtract(x, dur0, 1) = [z EXCEPT !.d = z.d + 0]
  <2>1. AddDays(z, 0) = z
    BY DEF AddDays
  <2> QED BY <1>4, <1>5, <2>1 DEF addSubtract
<1>7. [z EXCEPT !.d = z.d + 0] = z
  BY DEF Moment
<1> QED BY <1>3, <1>5, <1>6, <1>7

\* A moment some months later shows a date of that month, at the clock time
\* it had if that is not skipped.
LEMMA MonthsAdded ==
  ASSUME ClockChangesWithinDays, NEW x \in Moment, x.valid, NEW k \in Int,
         NEW z, z = add(x, k, "month")
  PROVE  /\ z \in Moment /\ z.valid /\ Alike(z, x)
         /\ MonthIndex(z) = MonthIndex(x) + k
         /\ date(z) = Lesser(date(x), LengthOf(MonthIndex(x) + k))
         /\ k = 0 => z = x
         /\ k # 0 => z = DateAt(x, DayOf(z) * MinutesPerDay + (Clock(x) % MinutesPerDay))
<1>1. z = AddMonths(x, k) /\ z \in Moment /\ Alike(z, x) /\ z.valid
  BY AddMonthIs DEF Alike
<1>2. PICK i \in Int, a \in Int, j \in Int :
        /\ i = MonthIndex(x) /\ a = date(x) /\ 1 <= a /\ a <= LengthOf(i) /\ j = i + k
  <2>1. MonthIndex(x) \in Int /\ date(x) \in Int /\ 1 <= date(x) /\ date(x) <= LengthOf(MonthIndex(x))
    BY DayOfIndex
  <2> QED BY <2>1
<1>3. PICK length \in Int, f \in Int : length = LengthOf(j) /\ 28 <= length /\ f = FirstOf(j)
  <2>1. PICK n \in Int : n = j + 1
    OBVIOUS
  <2> QED BY <2>1, MonthsHaveLengths
<1>4. CASE k = 0
  <2>1. z = x
    BY <1>1, <1>4 DEF AddMonths
  <2>2. j = i
    BY <1>2, <1>4
  <2>3. Lesser(a, length) = a
    <3>1. a <= length
      BY <1>2, <1>3, <2>2, Zenon
    <3> QED BY <3>1 DEF Lesser
  <2> QED BY <1>1, <1>2, <1>3, <1>4, <2>1, <2>2, <2>3
<1>5. CASE k # 0
  <2>1. PICK y \in Int, r \in Int, q \in Int : y = year(x) /\ r = month(x) /\ q = r + k
    <3>1. year(x) \in Int /\ month(x) \in Int /\ month(x) + k \in Int
      BY ShownType
    <3> QED BY <3>1
  <2>2. j = 12 * y + q
    BY <1>2, <2>1 DEF MonthIndex
  <2>3. PICK dt \in Int : dt = Lesser(a, length) /\ 1 <= dt /\ dt <= length
    <3>1. Lesser(a, length) \in Int /\ 1 <= Lesser(a, length) /\ Lesser(a, length) <= length
      BY <1>2, <1>3 DEF Lesser
    <3> QED BY <3>1
  <2>4. daysInMonth(y, q) = length
    <3>1. daysInMonth(y, q) = LengthOf(12 * y + q)
      BY MonthCounted
    <3> QED BY <1>3, <2>2, <3>1, Zenon
  <2>5. z = SetDate(x, y, q, dt)
    BY <1>1, <1>2, <1>5, <2>1, <2>3, <2>4 DEF AddMonths, setMonth
  <2>6. PICK n \in Int : n = DayNumber(y, q, dt) /\ n = f + dt - 1
    <3>1. DayNumber(y, q, dt) = FirstOf(12 * y + q) + dt - 1
      BY MonthCounted
    <3>2. f + dt - 1 \in Int
      OBVIOUS
    <3> QED BY <1>3, <2>2, <3>1, <3>2, Zenon
  <2>7. DayOf(z) = n
    <3>1. DayOf(SetDate(x, y, q, dt)) = DayNumber(y, q, dt)
      BY SetDateDay
    <3> QED BY <2>5, <2>6, <3>1, Zenon
  <2>8. MonthIndex(z) = j /\ date(z) = dt
    BY <1>1, <1>3, <2>3, <2>6, <2>7, IndexOfDay
  <2>9. z = DateAt(x, n * MinutesPerDay + (Clock(x) % MinutesPerDay))
    BY <2>5, <2>6 DEF SetDate
  <2> QED BY <1>1, <1>2, <1>3, <1>5, <2>3, <2>7, <2>8, <2>9, Zenon
<1> QED BY <1>4, <1>5

\* If the hour is the same, nothing was skipped.
LEMMA ClockKept ==
  ASSUME ClockChangesWithinDays, NEW x \in Moment, NEW n \in Int,
         NEW z, z = DateAt(x, n * MinutesPerDay + (Clock(x) % MinutesPerDay)), hour(z) = hour(x)
  PROVE  Clock(z) = n * MinutesPerDay + (Clock(x) % MinutesPerDay) /\ IsFirst(z)
<1>1. PICK k \in Int, t \in Int, c \in Int :
        /\ k = Clock(x) /\ t = k % 1440 /\ t \in 0 .. 1439 /\ c = n * 1440 + t
  <2>1. Clock(x) \in Int
    BY ShownType
  <2>2. Clock(x) % 1440 \in 0 .. 1439 /\ n * 1440 + (Clock(x) % 1440) \in Int
    BY <2>1, SMT
  <2> QED BY <2>1, <2>2
<1>2. z = DateAt(x, c) /\ c = n * MinutesPerDay + (Clock(x) % MinutesPerDay)
  BY <1>1 DEF MinutesPerDay
<1>3. Clock(z) = c
  <2>1. SUFFICES ASSUME Clock(z) = c + 60, (c + 60) \div 1440 = c \div 1440 PROVE FALSE
    BY <1>2, ClockAt DEF MinutesPerDay
  <2>2. hour(x) = t \div 60
    BY <1>1 DEF hour, MinutesPerDay
  <2>3. hour(z) = ((c + 60) % 1440) \div 60
    BY <2>1 DEF hour, MinutesPerDay
  <2>4. (c + 60) % 1440 = t + 60
    BY <1>1, <2>1, SMT
  <2>5. (t + 60) \div 60 # t \div 60
    BY <1>1, SMT
  <2> QED BY <2>2, <2>3, <2>4, <2>5
<1>4. IsFirst(z)
  <2>1. DateAt(z, c) = DateAt(x, c)
    BY <1>2 DEF DateAt, Moment
  <2> QED BY <1>2, <1>3, <2>1 DEF IsFirst
<1> QED BY <1>2, <1>3, <1>4

-----------------------------------------------------------------------------
(***************************************************************************)
(* Differences between moments that are shown alike: names of days and     *)
(* durations.                                                              *)
(***************************************************************************)
\* Between moments that are shown alike, time is that of their Dates.
LEMMA SinceAlike ==
  ASSUME NEW x \in Moment, NEW y, Alike(y, x)
  PROVE  /\ y \in Moment /\ x.d \in Int /\ y.d \in Int
         /\ Since(x, y) = x.d - y.d /\ Since(y, x) = y.d - x.d
         /\ cloneWithOffset(y, x) = y /\ cloneWithOffset(x, y) = x
<1>1. PICK a \in Int, b \in Int, o \in Int :
        /\ a = x.d /\ b = y.d /\ o = x.offset /\ o = y.offset
        /\ y \in Moment /\ y.isUTC = x.isUTC
  BY DEF Alike, Moment
<1>2. valueOf(x) = a - o /\ valueOf(y) = b - o
  BY <1>1 DEF valueOf
<1>3. Since(x, y) = a - b /\ Since(y, x) = b - a
  BY <1>2 DEF Since
<1>4. [x EXCEPT !.d = b] = y /\ [y EXCEPT !.d = a] = x
  BY <1>1 DEF Alike, Moment
<1>5. cloneWithOffset(y, x) = y
  <2>1. CASE x.isUTC
    <3>1. a + (valueOf(y) - valueOf(x)) = b
      BY <1>2
    <3>2. cloneWithOffset(y, x) = [x EXCEPT !.d = a + (valueOf(y) - valueOf(x))]
      BY <1>1, <2>1 DEF cloneWithOffset
    <3> QED BY <1>4, <3>1, <3>2
  <2>2. CASE ~x.isUTC
    BY <1>1, <2>2 DEF cloneWithOffset, local
  <2> QED BY <2>1, <2>2
<1>6. cloneWithOffset(x, y) = x
  <2>1. CASE x.isUTC
    <3>1. b + (valueOf(x) - valueOf(y)) = a
      BY <1>2
    <3>2. cloneWithOffset(x, y) = [y EXCEPT !.d = b + (valueOf(x) - valueOf(y))]
      BY <1>1, <2>1 DEF cloneWithOffset
    <3> QED BY <1>4, <3>1, <3>2
  <2>2. CASE ~x.isUTC
    BY <1>1, <2>2 DEF cloneWithOffset, local
  <2> QED BY <2>1, <2>2
<1> QED BY <1>1, <1>3, <1>5, <1>6

\* In days, clocks are compared, in hours times, in longer units months.
LEMMA DifferenceIs ==
  ASSUME NEW x \in Moment, NEW y, Alike(y, x)
  PROVE  /\ exactDiff(x, y, "hour")  = <<x.d - y.d, 60>>
         /\ exactDiff(x, y, "day")   = <<Clock(x) - Clock(y), MinutesPerDay>>
         /\ exactDiff(x, y, "month") = InUnitsOf(monthDiff(x, y), 1)
         /\ exactDiff(x, y, "year")  = InUnitsOf(monthDiff(x, y), 12)
<1>1. /\ y \in Moment /\ Since(x, y) = x.d - y.d /\ cloneWithOffset(y, x) = y
      /\ x.d \in Int /\ y.d \in Int /\ x.isUTC = y.isUTC /\ x.offset = y.offset /\ x.offset \in Int
  BY SinceAlike DEF Alike, Moment
<1>2. Since(x, y) - (utcOffset(y) - utcOffset(x)) = Clock(x) - Clock(y)
  <2>1. CASE x.isUTC
    BY <1>1, <2>1 DEF utcOffset, Clock
  <2>2. CASE ~x.isUTC
    <3>1. LocalOffset(x.d) \in Int /\ LocalOffset(y.d) \in Int
      BY <1>1, ZoneType
    <3> QED BY <1>1, <2>2, <3>1 DEF utcOffset, Clock, Local
  <2> QED BY <2>1, <2>2
<1>3. exactDiff(x, y, "hour") = <<x.d - y.d, 60>>
  BY <1>1 DEF exactDiff, MonthsIn
<1>4. exactDiff(x, y, "day") = <<Clock(x) - Clock(y), MinutesPerDay>>
  BY <1>1, <1>2 DEF exactDiff, MonthsIn
<1>5. /\ exactDiff(x, y, "month") = InUnitsOf(monthDiff(x, y), 1)
      /\ exactDiff(x, y, "year")  = InUnitsOf(monthDiff(x, y), 12)
  BY <1>1 DEF exactDiff, MonthsIn
<1> QED BY <1>3, <1>4, <1>5

-----------------------------------------------------------------------------
\* Days start at midnight, so that whole days are counted from there.
LEMMA CalendarNamesTheDayHolds ==
  ASSUME ClockChangesWithinDays, CallsInv, OtherIsLocal
  PROVE  CalendarNamesTheDay
<1> SUFFICES ASSUME m.valid, other.valid
             PROVE  LET distance == DayOf(m) - DayOf(cloneWithOffset(other, m)) IN
                      calendarFormat(m, other) =
                        CASE distance \in -6 .. -2 -> "lastWeek"
                          [] distance = -1         -> "lastDay"
                          [] distance = 0          -> "sameDay"
                          [] distance = 1          -> "nextDay"
                          [] distance \in 2 .. 6   -> "nextWeek"
                          [] OTHER                 -> "sameElse"
  BY DEF CalendarNamesTheDay
<1>1. PICK shown \in Moment : shown = cloneWithOffset(other, m) /\ Alike(shown, m)
  <2>1. m \in Moment
    BY DEF CallsInv, TypeOK
  <2>2. /\ cloneWithOffset(other, m) \in Moment
        /\ cloneWithOffset(other, m) = At(m, cloneWithOffset(other, m).d)
    BY ShownAlike
  <2> QED BY <2>1, <2>2 DEF At, Alike, Moment
<1>2. m \in Moment /\ shown.valid /\ shown.week.dow \in 0 .. 6
  BY <1>1 DEF CallsInv, TypeOK, Alike, Moment, WeekRule
<1>3. PICK k \in Int, dm \in Int, n \in Int :
        k = Clock(m) /\ dm = DayOf(m) /\ n = DayOf(shown) /\ 1440 * dm <= k /\ k < 1440 * dm + 1440
  <2>1. PICK k \in Int, n \in Int : k = Clock(m) /\ n = DayOf(shown)
    BY <1>1, <1>2, ShownType
  <2>2. PICK dm : dm = k \div 1440
    OBVIOUS
  <2>4. dm \in Int /\ 1440 * dm <= k /\ k < 1440 * dm + 1440
    BY <2>2, SMT
  <2>3. dm = DayOf(m)
    BY <2>1, <2>2 DEF DayOf, MinutesPerDay
  <2> QED BY <2>1, <2>3, <2>4
<1>4. PICK start \in Moment : start = startOf(shown, "day") /\ Alike(start, m) /\ Clock(start) = n * 1440
  <2>1. "day" \in DayUnits
    BY DEF DayUnits, UnitsOfTime
  <2>2. PICK a \in Int, b \in Int : Covers(a, b, n, "day", shown.week.dow)
    BY <1>2, <2>1, UnitCovers
  <2>3. a = n
    BY <2>2 DEF Covers, FirstDay
  <2>4. startOf(shown, "day") = DateAt(shown, n * MinutesPerDay)
    BY <1>2, <1>3, <2>1, <2>2, <2>3, StartsAtMidnight
  <2>5. PICK c \in Int : c = n * MinutesPerDay /\ c = n * 1440 /\ c % MinutesPerDay = 0
    <3>1. n * 1440 \in Int /\ (n * 1440) % 1440 = 0
      BY SMT
    <3> QED BY <3>1 DEF MinutesPerDay
  <2>6. Clock(DateAt(shown, c)) = c
    BY <2>5, ClockAt
  <2>7. Alike(DateAt(shown, c), shown)
    BY DateAtType
  <2>8. Alike(DateAt(shown, c), m) /\ DateAt(shown, c) \in Moment
    BY <1>1, <2>7, AlikeTrans DEF Alike
  <2> QED BY <2>4, <2>5, <2>6, <2>8
<1>5. exactDiff(m, start, "day") = <<k - n * 1440, MinutesPerDay>>
  BY <1>2, <1>3, <1>4, DifferenceIs
<1>6. calendarFormat(m, other) = getCalendarFormat(k - n * 1440)
  BY <1>1, <1>4, <1>5 DEF calendarFormat
<1>7. PICK days \in Int, distance \in Int : days = k - n * 1440 /\ distance = dm - n
  OBVIOUS
<1>8. 1440 * distance <= days /\ days < 1440 * distance + 1440
  BY <1>3, <1>7, SMT
<1>9. /\ days < -6 * 1440 <=> distance <= -7
      /\ days < -1440 <=> distance <= -2
      /\ days < 0 <=> distance <= -1
      /\ days < 1440 <=> distance <= 0
      /\ days < 2 * 1440 <=> distance <= 1
      /\ days < 7 * 1440 <=> distance <= 6
  BY <1>8, SMT
<1>10. getCalendarFormat(days) =
        IF distance <= -7 THEN "sameElse"
        ELSE IF distance <= -2 THEN "lastWeek"
        ELSE IF distance <= -1 THEN "lastDay"
        ELSE IF distance <= 0  THEN "sameDay"
        ELSE IF distance <= 1  THEN "nextDay"
        ELSE IF distance <= 6  THEN "nextWeek"
        ELSE "sameElse"
  BY <1>9 DEF getCalendarFormat, MinutesPerDay
<1>11. getCalendarFormat(days) =
        CASE distance \in -6 .. -2 -> "lastWeek"
          [] distance = -1         -> "lastDay"
          [] distance = 0          -> "sameDay"
          [] distance = 1          -> "nextDay"
          [] distance \in 2 .. 6   -> "nextWeek"
          [] OTHER                 -> "sameElse"
  BY <1>10, SMT
<1> QED BY <1>1, <1>3, <1>6, <1>7, <1>11

\* What passes is at most an hour more than what the clock says.
LEMMA TimeByClock ==
  ASSUME NEW x \in Moment, NEW y, Alike(y, x)
  PROVE  /\ Clock(x) \in Int /\ Clock(y) \in Int /\ x.d \in Int /\ y.d \in Int
         /\ y.d - x.d <= Clock(y) - Clock(x) + 60
         /\ \A c \in Int : /\ DateAt(x, c).d \in Int
                           /\ DateAt(x, c).d - y.d <= c - Clock(y) + 60
                           /\ Clock(DateAt(x, c)) \in Int /\ c <= Clock(DateAt(x, c))
<1>1. y \in Moment /\ x.d \in Int /\ y.d \in Int /\ y.isUTC = x.isUTC
  BY DEF Alike, Moment
<1>2. CASE x.isUTC
  BY <1>1, <1>2 DEF Clock, DateAt, Moment
<1>3. CASE ~x.isUTC
  <2>1. PICK std \in Int, a \in Int, b \in Int :
          /\ std = StandardOffset /\ a = LocalOffset(x.d) /\ b = LocalOffset(y.d)
          /\ std <= a /\ a <= std + 60 /\ std <= b /\ b <= std + 60
    <3>1. ASSUME NEW t \in Int
          PROVE  /\ LocalOffset(t) \in Int /\ StandardOffset \in Int
                 /\ StandardOffset <= LocalOffset(t) /\ LocalOffset(t) <= StandardOffset + 60
      BY LocalOffsetIs
    <3> QED BY <1>1, <3>1
  <2>2. Clock(x) = x.d + a /\ Clock(y) = y.d + b
    BY <1>1, <1>3, <2>1 DEF Clock, Local
  <2>3. ASSUME NEW c \in Int
        PROVE  /\ DateAt(x, c).d \in Int
               /\ DateAt(x, c).d - y.d <= c - Clock(y) + 60
               /\ Clock(DateAt(x, c)) \in Int /\ c <= Clock(DateAt(x, c))
    <3>1. DateAt(x, c).d = FromLocal(c) /\ Clock(DateAt(x, c)) = Local(FromLocal(c))
      BY <1>3 DEF Clock, DateAt, Moment
    <3>2. FromLocal(c) = c - std \/ FromLocal(c) = c - std - 60
      BY <2>1 DEF FromLocal
    <3>3. FromLocal(c) \in Int /\ Local(FromLocal(c)) \in Int
      BY ZoneType
    <3>4. c <= Local(FromLocal(c))
      <4>1. Local(FromLocal(c)) = c \/ Local(FromLocal(c)) = c + 60
        BY SkippedIs
      <4> QED BY <4>1
    <3> QED BY <1>1, <2>1, <2>2, <3>1, <3>2, <3>3, <3>4
  <2> QED BY <1>1, <2>1, <2>2, <2>3
<1> QED BY <1>2, <1>3

\* From one month to the next it is not more than 31 days and an hour.
LEMMA MonthAtMost ==
  ASSUME ClockChangesWithinDays, NEW x \in Moment, x.valid, NEW k \in Int, NEW j \in Int, j = k + 1,
         NEW y, y = add(x, k, "month"), NEW z, z = add(x, j, "month"), j # 0
  PROVE  y.d \in Int /\ z.d \in Int /\ z.d - y.d <= 31 * MinutesPerDay + 60
<1>1. /\ y \in Moment /\ Alike(y, x)
      /\ MonthIndex(y) = MonthIndex(x) + k
      /\ date(y) = Lesser(date(x), LengthOf(MonthIndex(x) + k))
      /\ k = 0 => y = x
      /\ k # 0 => y = DateAt(x, DayOf(y) * MinutesPerDay + (Clock(x) % MinutesPerDay))
  BY MonthsAdded
<1>2. /\ z \in Moment /\ Alike(z, x)
      /\ MonthIndex(z) = MonthIndex(x) + j
      /\ date(z) = Lesser(date(x), LengthOf(MonthIndex(x) + j))
      /\ z = DateAt(x, DayOf(z) * MinutesPerDay + (Clock(x) % MinutesPerDay))
  BY MonthsAdded
<1>3. PICK i \in Int, p \in Int, q \in Int, a \in Int :
        /\ i = MonthIndex(x) /\ a = date(x) /\ p = i + k /\ q = p + 1 /\ q = i + j
  <2>1. PICK i \in Int, a \in Int : i = MonthIndex(x) /\ a = date(x)
    BY DayOfIndex
  <2>2. i + k \in Int /\ i + k + 1 \in Int /\ i + k + 1 = i + j
    OBVIOUS
  <2> QED BY <2>1, <2>2
<1>4. PICK f \in Int, g \in Int, l \in Int, len \in Int :
        /\ f = FirstOf(p) /\ g = FirstOf(q) /\ l = LengthOf(p) /\ len = LengthOf(q)
        /\ g = f + l /\ l <= 31 /\ len <= 31
  <2>1. /\ FirstOf(p) \in Int /\ FirstOf(q) \in Int /\ LengthOf(p) \in Int
        /\ FirstOf(q) = FirstOf(p) + LengthOf(p) /\ LengthOf(p) <= 31
    BY <1>3, MonthsHaveLengths
  <2>2. LengthOf(q) \in Int /\ LengthOf(q) <= 31
    <3>1. PICK n \in Int : n = q + 1
      OBVIOUS
    <3> QED BY <3>1, MonthsHaveLengths
  <2> QED BY <2>1, <2>2
<1>5. PICK u \in Int, v \in Int : u = DayOf(y) /\ v = DayOf(z) /\ v - u <= 31
  <2>1. PICK u \in Int, v \in Int, b \in Int, c \in Int :
          /\ u = DayOf(y) /\ v = DayOf(z) /\ b = date(y) /\ c = date(z)
          /\ u = f + b - 1 /\ v = g + c - 1
    <3>1. DayOf(y) \in Int /\ date(y) \in Int /\ DayOf(y) = FirstOf(MonthIndex(y)) + date(y) - 1
      BY <1>1, DayOfIndex
    <3>2. DayOf(z) \in Int /\ date(z) \in Int /\ DayOf(z) = FirstOf(MonthIndex(z)) + date(z) - 1
      BY <1>2, DayOfIndex
    <3>3. FirstOf(MonthIndex(y)) = f /\ FirstOf(MonthIndex(z)) = g
      BY <1>1, <1>2, <1>3, <1>4, Zenon
    <3> QED BY <3>1, <3>2, <3>3
  <2>2. b = Lesser(a, l) /\ c = Lesser(a, len)
    BY <1>1, <1>2, <1>3, <1>4, <2>1, Zenon
  <2>3. v - u <= 31
    BY <1>4, <2>1, <2>2 DEF Lesser
  <2> QED BY <2>1, <2>3
<1>6. PICK t \in Int : t = Clock(x) % MinutesPerDay
  <2>1. Clock(x) % MinutesPerDay \in Int
    BY ClockInDay DEF ClockTimes, MinutesPerDay
  <2> QED BY <2>1
<1>7. u * 1440 + t <= Clock(y) /\ Clock(y) \in Int
  <2>1. CASE k = 0
    <3>1. PICK c \in Int : c = Clock(x)
      BY ShownType
    <3>2. t = c % 1440 /\ u = c \div 1440
      BY <1>1, <1>5, <1>6, <2>1, <3>1 DEF DayOf, MinutesPerDay
    <3>3. u * 1440 + t = c
      BY <3>2, SMT
    <3> QED BY <1>1, <2>1, <3>1, <3>3
  <2>2. CASE k # 0
    <3>1. PICK c \in Int : c = u * 1440 + t
      OBVIOUS
    <3>2. y = DateAt(x, c)
      BY <1>1, <1>5, <1>6, <2>2, <3>1 DEF MinutesPerDay
    <3>3. Alike(x, x)
      BY DEF Alike
    <3> QED BY <3>1, <3>2, <3>3, TimeByClock
  <2> QED BY <2>1, <2>2
<1>8. PICK c \in Int : c = v * 1440 + t
  OBVIOUS
<1>9. z = DateAt(x, c)
  BY <1>2, <1>5, <1>6, <1>8 DEF MinutesPerDay
<1>10. z.d \in Int /\ y.d \in Int /\ z.d - y.d <= c - Clock(y) + 60
  BY <1>1, <1>9, TimeByClock
<1> QED BY <1>5, <1>7, <1>8, <1>10 DEF MinutesPerDay

\* The whole months between two moments, and the rest.
LEMMA PositiveDifference ==
  ASSUME ClockChangesWithinDays, NEW x \in Moment, x.valid, NEW y, Alike(y, x), x.d <= y.d,
         NEW p, p = positiveMomentsDifference(x, y)
  PROVE  /\ p.months \in Int /\ 0 <= p.months
         /\ p.milliseconds \in Int /\ 0 <= p.milliseconds
         /\ p.milliseconds <= 31 * MinutesPerDay + 60
         /\ AddMonths(x, p.months).d + p.milliseconds = y.d
<1>1. PICK i \in Int, j \in Int, most \in Int :
        /\ i = MonthIndex(x) /\ j = MonthIndex(y) /\ j = i + most
        /\ most = month(y) - month(x) + (year(y) - year(x)) * 12
  <2>1. y \in Moment
    BY DEF Alike
  <2>2. PICK a \in Int, b \in Int, c \in Int, e \in Int :
          a = year(x) /\ b = month(x) /\ c = year(y) /\ e = month(y)
    <3>1. year(x) \in Int /\ month(x) \in Int /\ year(y) \in Int /\ month(y) \in Int
      BY <2>1, ShownType
    <3> QED BY <3>1
  <2>3. MonthIndex(x) = 12 * a + b /\ MonthIndex(y) = 12 * c + e
    BY <2>2 DEF MonthIndex
  <2>4. /\ 12 * a + b \in Int /\ 12 * c + e \in Int /\ e - b + (c - a) * 12 \in Int
        /\ 12 * c + e = 12 * a + b + (e - b + (c - a) * 12)
    BY SMT
  <2> QED BY <2>2, <2>3, <2>4
<1>2. y \in Moment /\ x.d \in Int /\ y.d \in Int /\ Alike(x, y)
  BY DEF Alike, Moment
<1>3. PICK z : /\ z = add(x, most, "month") /\ z \in Moment /\ z.valid /\ Alike(z, x)
               /\ MonthIndex(z) = j /\ (most = 0 => z = x)
  <2>1. PICK z : z = add(x, most, "month")
    OBVIOUS
  <2>2. /\ z \in Moment /\ z.valid /\ Alike(z, x) /\ MonthIndex(z) = MonthIndex(x) + most
        /\ (most = 0 => z = x)
    BY <2>1, MonthsAdded
  <2> QED BY <1>1, <2>1, <2>2
<1>4. 0 <= most
  <2>1. SUFFICES ASSUME j < i PROVE FALSE
    BY <1>1
  <2>2. MonthIndex(y) < MonthIndex(x)
    BY <1>1, <2>1
  <2>3. y.d < x.d
    BY <1>2, <2>2, DatesOrderTime
  <2> QED BY <1>2, <2>3
<1>5. Alike(y, z) /\ Alike(z, y) /\ z.d \in Int
  BY <1>2, <1>3 DEF Alike, Moment
<1>6. Since(z, y) = z.d - y.d /\ Since(y, z) = y.d - z.d
  BY <1>3, <1>5, SinceAlike
<1>7. CASE z.d <= y.d
  <2>1. p = [months |-> most, milliseconds |-> y.d - z.d]
    <3>1. ~(Since(add(x, most, "month"), y) > 0)
      BY <1>2, <1>3, <1>5, <1>6, <1>7
    <3>2. p = AfterMonths(x, y, most)
      BY <1>1, <3>1 DEF positiveMomentsDifference
    <3> QED BY <1>3, <1>6, <3>2 DEF AfterMonths
  <2>2. AddMonths(x, most) = z
    BY <1>3, AddMonthIs
  <2>3. y.d - z.d <= 31 * 1440 + 60
    <3>1. PICK u \in Int, v \in Int : u = DayOf(z) /\ v = DayOf(y) /\ v - u <= 30
      <4>1. PICK n \in Int : n = j + 1
        OBVIOUS
      <4>2. PICK f \in Int, l \in Int : f = FirstOf(j) /\ l = LengthOf(j) /\ l <= 31
        BY <4>1, MonthsHaveLengths
      <4>3. DayOf(z) \in Int /\ date(z) \in Int /\ DayOf(z) = f + date(z) - 1 /\ 1 <= date(z)
        BY <1>3, <4>2, DayOfIndex
      <4>4. DayOf(y) \in Int /\ date(y) \in Int /\ DayOf(y) = f + date(y) - 1 /\ date(y) <= l
        BY <1>1, <1>2, <4>2, DayOfIndex
      <4> QED BY <4>2, <4>3, <4>4
    <3>2. PICK c \in Int, e \in Int : c = Clock(z) /\ e = Clock(y)
      BY <1>2, <1>3, ShownType
    <3>3. u = c \div 1440 /\ v = e \div 1440
      BY <3>1, <3>2 DEF DayOf, MinutesPerDay
    <3>4. e - c < 31 * 1440
      BY <3>1, <3>3, SMT
    <3>5. y.d - z.d <= Clock(y) - Clock(z) + 60
      BY <1>3, <1>5, TimeByClock
    <3> QED BY <1>2, <1>5, <3>2, <3>4, <3>5
  <2> QED BY <1>2, <1>4, <1>5, <1>7, <2>1, <2>2, <2>3 DEF MinutesPerDay
<1>8. CASE y.d < z.d
  <2>1. most # 0
    BY <1>2, <1>3, <1>8
  <2>2. PICK k \in Int : k = most - 1 /\ most = k + 1 /\ 0 <= k
    BY <1>4, <2>1
  <2>3. PICK w : w = add(x, k, "month") /\ w \in Moment /\ Alike(w, x) /\ MonthIndex(w) = i + k
    BY <1>1, MonthsAdded
  <2>4. Alike(y, w) /\ w.d \in Int
    BY <2>3 DEF Alike, Moment
  <2>5. w.d < y.d
    <3>1. MonthIndex(w) < MonthIndex(y)
      BY <1>1, <2>2, <2>3
    <3> QED BY <2>3, <2>4, <3>1, DatesOrderTime
  <2>6. Since(y, w) = y.d - w.d
    BY <2>3, <2>4, SinceAlike
  <2>7. p = [months |-> k, milliseconds |-> y.d - w.d]
    <3>1. Since(add(x, most, "month"), y) > 0
      BY <1>2, <1>3, <1>5, <1>6, <1>8
    <3>2. p = AfterMonths(x, y, k)
      BY <1>1, <2>2, <3>1 DEF positiveMomentsDifference
    <3> QED BY <2>3, <2>6, <3>2 DEF AfterMonths
  <2>8. AddMonths(x, k) = w
    BY <2>3, AddMonthIs
  <2>9. z.d - w.d <= 31 * MinutesPerDay + 60
    BY <1>3, <2>1, <2>2, <2>3, MonthAtMost
  <2>10. y.d - w.d <= 31 * MinutesPerDay + 60
    BY <1>2, <1>5, <1>8, <2>4, <2>9 DEF MinutesPerDay
  <2> QED BY <1>2, <2>2, <2>4, <2>5, <2>7, <2>8, <2>10
<1> QED BY <1>2, <1>5, <1>7, <1>8

\* A duration of months and minutes is added month by month, then in time.
LEMMA MonthsThenMinutes ==
  ASSUME NEW x \in Moment, x.valid, NEW n \in Int, NEW rest \in Int, NEW sign \in {-1, 1},
         NEW d, d.months = sign * n, d.days = 0, d.minutes = sign * rest
  PROVE  /\ addSubtract(x, d, sign) \in Moment /\ Alike(addSubtract(x, d, sign), x)
         /\ addSubtract(x, d, sign).d = AddMonths(x, n).d + rest
<1>1. d.months * sign = n /\ d.days * sign = 0 /\ d.minutes * sign = rest
  BY SMT
<1>2. PICK z \in Moment : z = AddMonths(x, n) /\ Alike(z, x)
  BY AddMonthIs
<1>3. AddDays(z, 0) = z
  BY DEF AddDays
<1>4. addSubtract(x, d, sign) = [z EXCEPT !.d = z.d + rest]
  BY <1>1, <1>2, <1>3 DEF addSubtract
<1>5. PICK t \in Int : t = z.d + rest
  BY <1>2 DEF Moment
<1>6. [z EXCEPT !.d = t].d = t /\ Alike([z EXCEPT !.d = t], z)
  BY <1>2, AtAnotherTime DEF Moment
<1> QED BY <1>2, <1>4, <1>5, <1>6, AlikeTrans DEF Alike

LEMMA DurationOfIs ==
  ASSUME NEW n \in Int, NEW rest \in Int,
         NEW d, d = DurationOf([months |-> n, milliseconds |-> rest])
  PROVE  d.months = n /\ d.days = 0 /\ d.minutes = rest
<1> DEFINE given == [month |-> n, minute |-> rest]
<1>1. Kept(given).months = n /\ Kept(given).days = 0 /\ Kept(given).minutes = rest
  BY DEF Kept, Amount
<1>2. d = createDuration(given)
  BY DEF DurationOf
<1> HIDE DEF given
<1> QED BY <1>1, <1>2 DEF createDuration, Bubbled

\* From the earlier moment the months and then the rest lead to the later
\* one; the other way the same is taken off.
LEMMA DurationsLeadThereHolds ==
  ASSUME ClockChangesWithinDays, CallsInv, OtherIsLocal
  PROVE  DurationsLeadThere
<1> SUFFICES ASSUME m.valid, other.valid
             PROVE  LeadsThere(m, durationBetween(m, other), other)
  BY DEF DurationsLeadThere
<1>1. PICK shown \in Moment :
        /\ shown = cloneWithOffset(other, m) /\ Alike(shown, m) /\ Alike(m, shown)
        /\ valueOf(shown) = valueOf(other) /\ shown.valid
  <2>1. m \in Moment
    BY DEF CallsInv, TypeOK
  <2>2. /\ cloneWithOffset(other, m) \in Moment
        /\ cloneWithOffset(other, m) = At(m, cloneWithOffset(other, m).d)
        /\ valueOf(cloneWithOffset(other, m)) = valueOf(other)
    BY ShownAlike
  <2> QED BY <2>1, <2>2 DEF At, Alike, Moment
<1>2. m \in Moment /\ m.d \in Int /\ shown.d \in Int
  BY DEF CallsInv, TypeOK, Moment
<1>3. PICK d : d = durationBetween(m, other)
  OBVIOUS
<1>4. Since(m, other) = m.d - shown.d /\ Since(m, shown) = m.d - shown.d
  <2>1. Since(m, shown) = m.d - shown.d
    BY <1>1, <1>2, SinceAlike
  <2>2. Since(m, other) = Since(m, shown)
    BY <1>1 DEF Since
  <2> QED BY <2>1, <2>2
<1>5. CASE m.d < shown.d
  <2>1. PICK p : p = positiveMomentsDifference(m, shown)
    OBVIOUS
  <2>2. PICK n \in Int, rest \in Int :
          /\ n = p.months /\ rest = p.milliseconds /\ 0 <= n /\ 0 <= rest
          /\ rest <= 31 * MinutesPerDay + 60
          /\ AddMonths(m, n).d + rest = shown.d
    <3>1. m.d <= shown.d
      BY <1>2, <1>5
    <3> QED BY <1>1, <1>2, <2>1, <3>1, PositiveDifference
  <2>3. p = [months |-> n, milliseconds |-> rest]
    BY <2>1, <2>2 DEF positiveMomentsDifference, AfterMonths
  <2>4. momentsDifference(m, other) = p
    <3>1. Since(m, shown) < 0
      BY <1>2, <1>4, <1>5
    <3> QED BY <1>1, <2>1, <3>1 DEF momentsDifference
  <2>5. d.months = n /\ d.days = 0 /\ d.minutes = rest
    BY <1>3, <2>3, <2>4, DurationOfIs DEF durationBetween
  <2>6. SameSign({d.months, d.minutes}) /\ mathAbs(d.minutes) <= 31 * MinutesPerDay + 60
    BY <2>2, <2>5 DEF SameSign, mathAbs
  <2>7. /\ addSubtract(m, d, 1) \in Moment /\ Alike(addSubtract(m, d, 1), m)
        /\ addSubtract(m, d, 1).d = AddMonths(m, n).d + rest
    <3>1. d.months = 1 * n /\ d.minutes = 1 * rest /\ 1 \in {-1, 1}
      BY <2>5
    <3> QED BY <1>2, <2>5, <3>1, MonthsThenMinutes
  <2>8. PICK z \in Moment : z = addSubtract(m, d, 1) /\ Alike(z, shown) /\ z.d = shown.d
    BY <1>1, <2>2, <2>7 DEF Alike
  <2>9. Since(z, shown) = z.d - shown.d
    BY <2>8, SinceAlike
  <2>10. Since(z, other) = 0
    BY <1>1, <1>2, <2>8, <2>9 DEF Since
  <2>11. Since(m, other) < 0
    BY <1>2, <1>4, <1>5
  <2> QED BY <1>3, <2>6, <2>8, <2>10, <2>11 DEF LeadsThere
<1>6. CASE shown.d <= m.d
  <2>1. PICK p : p = positiveMomentsDifference(shown, m)
    OBVIOUS
  <2>2. PICK n \in Int, rest \in Int :
          /\ n = p.months /\ rest = p.milliseconds /\ 0 <= n /\ 0 <= rest
          /\ rest <= 31 * MinutesPerDay + 60
          /\ AddMonths(shown, n).d + rest = m.d
    BY <1>1, <1>6, <2>1, PositiveDifference
  <2>3. PICK n1 \in Int, rest1 \in Int : n1 = -n /\ rest1 = -rest
    OBVIOUS
  <2>4. ~(Since(m, shown) < 0) /\ ~(Since(m, other) < 0)
    BY <1>2, <1>4, <1>6
  <2>5. momentsDifference(m, other) = [months |-> n1, milliseconds |-> rest1]
    <3>1. momentsDifference(m, other) = Backwards(p)
      BY <1>1, <2>1, <2>4 DEF momentsDifference
    <3> QED BY <2>2, <2>3, <3>1 DEF Backwards
  <2>6. d.months = n1 /\ d.days = 0 /\ d.minutes = rest1
    BY <1>3, <2>5, DurationOfIs DEF durationBetween
  <2>7. SameSign({d.months, d.minutes}) /\ mathAbs(d.minutes) <= 31 * MinutesPerDay + 60
    <3>1. \A k \in {d.months, d.minutes} : k <= 0
      BY <2>2, <2>3, <2>6
    <3>2. mathAbs(rest1) = rest
      BY <2>2, <2>3 DEF mathAbs
    <3> QED BY <2>2, <2>6, <3>1, <3>2 DEF SameSign
  <2>8. /\ addSubtract(shown, d, -1) \in Moment /\ Alike(addSubtract(shown, d, -1), shown)
        /\ addSubtract(shown, d, -1).d = AddMonths(shown, n).d + rest
    <3>1. d.months = (-1) * n /\ d.minutes = (-1) * rest /\ -1 \in {-1, 1}
      BY <2>3, <2>6
    <3> QED BY <1>1, <2>6, <3>1, MonthsThenMinutes
  <2>9. PICK z \in Moment : z = addSubtract(shown, d, -1) /\ Alike(z, m) /\ z.d = m.d
    BY <1>1, <2>2, <2>8 DEF Alike
  <2>10. Since(z, m) = 0
    <3>1. Since(z, m) = z.d - m.d
      BY <1>2, <2>9, SinceAlike
    <3> QED BY <1>2, <2>9, <3>1
  <2> QED BY <1>1, <1>3, <2>4, <2>7, <2>9, <2>10 DEF LeadsThere
<1> QED BY <1>2, <1>5, <1>6

-----------------------------------------------------------------------------
(***************************************************************************)
(* Quotients rounded towards zero, as absFloor (moment.js:681) does it.    *)
(***************************************************************************)
\* The quotient of a number is the one that leaves a rest below the divisor.
LEMMA QuotientIs ==
  ASSUME NEW k \in Int, NEW l \in Int, NEW q \in Int, NEW r \in Int,
         0 <= r, r < l, k = q * l + r
  PROVE  k \div l = q
BY SMT

LEMMA QuotientExists ==
  ASSUME NEW k \in Int, NEW l \in Int, 0 < l
  PROVE  \E q \in Int, r \in Int : k \div l = q /\ k = q * l + r /\ 0 <= r /\ r < l
BY SMT

\* Rounding towards zero does not mind the sign.
LEMMA FloorNegated ==
  ASSUME NEW k \in Int, NEW l \in Int, 0 < l
  PROVE  absFloor(k, l) \in Int /\ absFloor(-k, l) = -absFloor(k, l)
<1>1. PICK q \in Int, r \in Int : k \div l = q /\ k = q * l + r /\ 0 <= r /\ r < l
  BY QuotientExists
<1>2. PICK n \in Int : n = -k
  OBVIOUS
<1>3. PICK e \in Int, p \in Int : n \div l = e /\ n = e * l + p /\ 0 <= p /\ p < l
  BY QuotientExists
<1>4. -n = k
  BY <1>2
<1>5. k = 0 => q = 0 /\ e = 0
  <2>1. 0 \div l = 0
    BY QuotientIs
  <2> QED BY <1>1, <1>2, <1>3, <2>1
<1> QED BY <1>1, <1>2, <1>3, <1>4, <1>5 DEF absFloor

\* Rounding twice is rounding once.
LEMMA FloorTwice ==
  ASSUME NEW k \in Int, NEW l \in Int, 0 < l
  PROVE  absFloor(k, 12 * l) = absFloor(absFloor(k, l), 12)
<1>1. ASSUME NEW n \in Int, 0 <= n
      PROVE  n \div (12 * l) = (n \div l) \div 12 /\ n \div l \in Int /\ 0 <= n \div l
  <2>1. PICK q \in Int, r \in Int : n \div l = q /\ n = q * l + r /\ 0 <= r /\ r < l
    BY QuotientExists
  <2>2. PICK e \in Int, p \in Int : q \div 12 = e /\ q = e * 12 + p /\ 0 <= p /\ p < 12
    BY QuotientExists
  <2>3. PICK big \in Int, rest \in Int : big = 12 * l /\ rest = p * l + r
    <3>1. 12 * l \in Int /\ p * l + r \in Int
      BY SMT
    <3> QED BY <3>1
  <2>4. 0 <= rest /\ rest < big
    <3>1. p \in {0, 1, 2, 3, 4, 5, 6, 7, 8, 9, 10, 11}
      BY <2>2
    <3> QED BY <2>1, <2>3, <3>1, SMT
  <2>5. n = e * big + rest
    <3>1. q * l = e * (12 * l) + p * l
      BY <2>2, SMT
    <3> QED BY <2>1, <2>3, <3>1, SMT
  <2>6. n \div big = e
    BY <2>4, <2>5, QuotientIs
  <2>7. 0 <= q
    <3>1. SUFFICES ASSUME q <= -1 PROVE FALSE
      OBVIOUS
    <3>2. q * l <= -l
      BY <3>1, SMT
    <3>3. q * l \in Int
      BY SMT
    <3> QED BY <1>1, <2>1, <3>2, <3>3
  <2> QED BY <2>1, <2>2, <2>3, <2>6, <2>7
<1>2. CASE 0 <= k
  <2>1. absFloor(k, 12 * l) = k \div (12 * l) /\ absFloor(k, l) = k \div l
    BY <1>2 DEF absFloor
  <2>2. absFloor(k \div l, 12) = (k \div l) \div 12
    BY <1>1, <1>2 DEF absFloor
  <2> QED BY <1>1, <1>2, <2>1, <2>2
<1>3. CASE k < 0
  <2>1. PICK n \in Int : n = -k /\ 0 <= n
    BY <1>3
  <2>2. PICK q \in Int, e \in Int : q = n \div l /\ 0 <= q /\ e = q \div 12 /\ n \div (12 * l) = e
    <3>1. PICK q : q = n \div l
      OBVIOUS
    <3>2. q \in Int /\ 0 <= q /\ n \div (12 * l) = q \div 12
      BY <1>1, <2>1, <3>1
    <3>3. q \div 12 \in Int
      BY <3>2, SMT
    <3> QED BY <3>1, <3>2, <3>3
  <2>3. absFloor(k, 12 * l) = -e /\ absFloor(k, l) = -q
    BY <1>3, <2>1, <2>2 DEF absFloor
  <2>4. absFloor(-q, 12) = -e
    <3>1. CASE q = 0
      <4>1. e = 0 /\ -q = 0 /\ 0 \div 12 = 0
        BY <2>2, <3>1, SMT
      <4> QED BY <4>1 DEF absFloor
    <3>2. CASE 0 < q
      <4>1. -q < 0 /\ -(-q) = q
        BY <3>2
      <4> QED BY <2>2, <4>1 DEF absFloor
    <3> QED BY <2>2, <3>1, <3>2
  <2> QED BY <2>3, <2>4
<1> QED BY <1>2, <1>3

\* The whole part of a number and a fraction of l.
LEMMA FloorOfFraction ==
  ASSUME NEW w \in Int, NEW s \in Int, NEW l \in Int, s < l, -l < s
  PROVE  /\ w * l + s \in Int
         /\ absFloor(w * l + s, l) =
              IF w > 0 /\ s < 0 THEN w - 1 ELSE IF w < 0 /\ s > 0 THEN w + 1 ELSE w
<1>0. PICK k \in Int, n \in Int : k = w * l + s /\ n = -k
  <2>1. w * l + s \in Int
    BY SMT
  <2> QED BY <2>1
<1>1. 0 < l
  OBVIOUS
<1>2. CASE w > 0 /\ s < 0
  <2>0. PICK q \in Int, r \in Int : q = w - 1 /\ r = l + s
    OBVIOUS
  <2>1. k = (w - 1) * l + (l + s)
    BY <1>0, SMT
  <2>2. k \div l = w - 1
    <3>1. k = q * l + r /\ 0 <= r /\ r < l
      BY <1>2, <2>0, <2>1
    <3>2. k \div l = q
      BY <3>1, QuotientIs
    <3> QED BY <2>0, <3>2
  <2>3. 0 <= k
    <3>1. (w - 1) * l >= 0
      BY <1>1, <1>2, SMT
    <3>2. (w - 1) * l \in Int
      BY SMT
    <3> QED BY <1>2, <2>1, <3>1, <3>2
  <2> QED BY <1>0, <1>2, <2>2, <2>3 DEF absFloor
<1>3. CASE w >= 0 /\ s >= 0
  <2>1. k \div l = w
    BY <1>0, <1>3, QuotientIs
  <2>2. 0 <= k
    <3>1. w * l >= 0 /\ w * l \in Int
      BY <1>1, <1>3, SMT
    <3> QED BY <1>0, <1>3, <3>1
  <2> QED BY <1>0, <1>3, <2>1, <2>2 DEF absFloor
<1>4. CASE w < 0 /\ s > 0
  <2>0. PICK q \in Int, r \in Int : q = -w - 1 /\ r = l - s
    OBVIOUS
  <2>1. n = (-w - 1) * l + (l - s)
    BY <1>0, SMT
  <2>2. n \div l = -w - 1
    <3>1. n = q * l + r /\ 0 <= r /\ r < l
      BY <1>4, <2>0, <2>1
    <3>2. n \div l = q
      BY <3>1, QuotientIs
    <3> QED BY <2>0, <3>2
  <2>3. k < 0
    <3>1. (-w - 1) * l >= 0
      BY <1>1, <1>4, SMT
    <3>2. (-w - 1) * l \in Int
      BY SMT
    <3> QED BY <1>0, <1>4, <2>1, <3>1, <3>2
  <2> QED BY <1>0, <1>4, <2>2, <2>3 DEF absFloor
<1>5. CASE w <= 0 /\ s <= 0
  <2>0. PICK q \in Int, r \in Int : q = -w /\ r = -s
    OBVIOUS
  <2>1. n = (-w) * l + (-s)
    BY <1>0, SMT
  <2>2. n \div l = -w
    <3>1. n = q * l + r /\ 0 <= r /\ r < l
      BY <1>5, <2>0, <2>1
    <3>2. n \div l = q
      BY <3>1, QuotientIs
    <3> QED BY <2>0, <3>2
  <2>3. 0 <= n
    <3>1. (-w) * l >= 0 /\ (-w) * l \in Int
      BY <1>1, <1>5, SMT
    <3> QED BY <1>5, <2>1, <3>1
  <2>4. CASE k < 0
    BY <1>0, <1>5, <2>2, <2>4 DEF absFloor
  <2>5. CASE k = 0
    <3>1. k \div l = 0
      BY <1>1, <2>5, QuotientIs
    <3>2. w = 0
      <4>1. 0 \div l = 0
        BY <1>1, QuotientIs
      <4>2. n = 0
        BY <1>0, <2>5
      <4> QED BY <2>2, <4>1, <4>2
    <3> QED BY <1>0, <1>5, <2>5, <3>1, <3>2 DEF absFloor
  <2> QED BY <1>0, <2>3, <2>4, <2>5
<1> QED BY <1>2, <1>3, <1>4, <1>5

-----------------------------------------------------------------------------
(***************************************************************************)
(* Months between two moments.  Two anchors measure how far one is in its  *)
(* month (moment.js:3875); what is left of this is on which side the place *)
(* in the month lies, and rounding towards zero.                           *)
(***************************************************************************)
\* The whole of w and a fraction that has the sign of s.
TowardsZero(w, s) ==
  IF w > 0 /\ s < 0 THEN w - 1 ELSE IF w < 0 /\ s > 0 THEN w + 1 ELSE w

\* The months from one moment to the month of another one.
MonthsOn(x, y) == MonthIndex(y) - MonthIndex(x)
Anchor(x, y)   == add(x, MonthsOn(x, y), "month")

LEMMA MonthsOnIs ==
  ASSUME NEW x \in Moment, NEW y \in Moment
  PROVE  /\ MonthIndex(x) \in Int /\ MonthIndex(y) \in Int /\ MonthsOn(x, y) \in Int
         /\ MonthsOn(x, y) = MonthIndex(y) - MonthIndex(x)
         /\ MonthsOn(x, y) = (year(y) - year(x)) * 12 + (month(y) - month(x))
<1>1. PICK a \in Int, b \in Int, c \in Int, e \in Int :
        a = year(x) /\ b = month(x) /\ c = year(y) /\ e = month(y)
  <2>1. year(x) \in Int /\ month(x) \in Int /\ year(y) \in Int /\ month(y) \in Int
    BY ShownType
  <2> QED BY <2>1
<1>2. PICK i \in Int, j \in Int : i = MonthIndex(x) /\ j = MonthIndex(y)
  BY DayOfIndex
<1>3. i = 12 * a + b /\ j = 12 * c + e
  BY <1>1, <1>2 DEF MonthIndex
<1>4. (c - a) * 12 + (e - b) = j - i /\ j - i \in Int
  BY <1>3, SMT
<1> QED BY <1>1, <1>2, <1>4 DEF MonthsOn

\* Months are counted from the anchor, and how far it is from the other
\* moment is less than the month it is measured in.
LEMMA MonthsToIs ==
  ASSUME ClockChangesWithinDays, NEW x \in Moment, x.valid, NEW y, Alike(y, x)
  PROVE  \E w \in Int, s \in Int, l \in Int :
           /\ w = MonthsOn(x, y) /\ s = y.d - Anchor(x, y).d /\ s < l /\ -l < s
           /\ MonthsTo(x, y) = <<-(w * l + s), l>>
<1>1. y \in Moment /\ y.d \in Int
  BY DEF Alike, Moment
<1>2. PICK i \in Int, j \in Int, w \in Int :
        /\ i = MonthIndex(x) /\ j = MonthIndex(y) /\ w = j - i /\ w = MonthsOn(x, y)
        /\ w = (year(y) - year(x)) * 12 + (month(y) - month(x))
  BY <1>1, MonthsOnIs
<1>3. PICK z : /\ z = add(x, w, "month") /\ z \in Moment /\ Alike(z, x) /\ z.d \in Int
               /\ MonthIndex(z) = j
  <2>1. PICK z : z = add(x, w, "month")
    OBVIOUS
  <2>2. z \in Moment /\ Alike(z, x) /\ MonthIndex(z) = MonthIndex(x) + w
    BY <2>1, MonthsAdded
  <2> QED BY <1>2, <2>1, <2>2 DEF Moment
<1>4. z = Anchor(x, y)
  BY <1>2, <1>3 DEF Anchor
<1>5. PICK s \in Int : s = y.d - z.d /\ s = Since(y, z)
  <2>1. Alike(y, z)
    BY <1>3 DEF Alike
  <2>2. Since(y, z) = y.d - z.d
    BY <1>3, <2>1, SinceAlike
  <2> QED BY <1>1, <1>3, <2>2
<1>6. MonthsTo(x, y) = MonthsPast(x, y, w, z)
  BY <1>2, <1>3 DEF MonthsTo
<1>7. CASE s < 0
  <2>1. PICK k \in Int : k = w - 1
    OBVIOUS
  <2>2. PICK n : n = add(x, k, "month") /\ n \in Moment /\ Alike(n, x) /\ MonthIndex(n) = i + k
    BY <1>2, MonthsAdded
  <2>3. Alike(y, n) /\ Alike(n, z) /\ n.d \in Int
    BY <1>3, <2>2 DEF Alike, Moment
  <2>4. n.d < y.d
    <3>1. MonthIndex(n) < MonthIndex(y)
      BY <1>2, <2>1, <2>2
    <3> QED BY <2>2, <2>3, <3>1, DatesOrderTime
  <2>5. PICK l \in Int : l = Since(z, n) /\ l = z.d - n.d
    BY <1>3, <2>2, <2>3, SinceAlike
  <2>6. MonthsTo(x, y) = <<-(w * l + s), l>>
    BY <1>5, <1>6, <1>7, <2>1, <2>2, <2>5 DEF MonthsPast
  <2>7. s < l /\ -l < s
    BY <1>1, <1>3, <1>5, <1>7, <2>3, <2>4, <2>5
  <2> QED BY <1>2, <1>4, <1>5, <2>6, <2>7
<1>8. CASE 0 <= s
  <2>1. PICK k \in Int : k = w + 1
    OBVIOUS
  <2>2. PICK n : n = add(x, k, "month") /\ n \in Moment /\ Alike(n, x) /\ MonthIndex(n) = i + k
    BY <1>2, MonthsAdded
  <2>3. Alike(n, y) /\ Alike(n, z) /\ n.d \in Int
    BY <1>3, <2>2 DEF Alike, Moment
  <2>4. y.d < n.d
    <3>1. MonthIndex(y) < MonthIndex(n)
      BY <1>2, <2>1, <2>2
    <3> QED BY <1>1, <2>3, <3>1, DatesOrderTime
  <2>5. PICK l \in Int : l = Since(n, z) /\ l = n.d - z.d
    BY <1>3, <2>2, <2>3, SinceAlike
  <2>6. MonthsTo(x, y) = <<-(w * l + s), l>>
    BY <1>5, <1>6, <1>8, <2>1, <2>2, <2>5 DEF MonthsPast
  <2>7. s < l /\ -l < s
    BY <1>1, <1>3, <1>5, <1>8, <2>3, <2>4, <2>5
  <2> QED BY <1>2, <1>4, <1>5, <2>6, <2>7
<1> QED BY <1>7, <1>8

\* The difference is rounded towards zero, and years are whole years of it.
LEMMA MonthsToRounded ==
  ASSUME ClockChangesWithinDays, NEW x \in Moment, x.valid, NEW y, Alike(y, x)
  PROVE  LET whole == TowardsZero(MonthsOn(x, y), y.d - Anchor(x, y).d)
             q     == MonthsTo(x, y)
         IN  /\ whole \in Int /\ absFloor(whole, 12) \in Int
             /\ WholeUnits(InUnitsOf(q, 1)) = -whole
             /\ WholeUnits(InUnitsOf(q, 12)) = -absFloor(whole, 12)
             /\ WholeUnits(InUnitsOf(Negated(q), 1)) = whole
             /\ WholeUnits(InUnitsOf(Negated(q), 12)) = absFloor(whole, 12)
<1>1. PICK w \in Int, s \in Int, l \in Int :
        /\ w = MonthsOn(x, y) /\ s = y.d - Anchor(x, y).d /\ s < l /\ -l < s
        /\ MonthsTo(x, y) = <<-(w * l + s), l>>
  BY MonthsToIs
<1>2. PICK whole \in Int : whole = TowardsZero(w, s)
  BY DEF TowardsZero
<1>3. PICK k \in Int : k = w * l + s /\ absFloor(k, l) = whole
  <2>1. /\ w * l + s \in Int
        /\ absFloor(w * l + s, l) = TowardsZero(w, s)
    BY <1>1, FloorOfFraction DEF TowardsZero
  <2> QED BY <1>2, <2>1
<1>4. PICK n \in Int : n = -k /\ -n = k /\ 0 < l
  BY <1>1
<1>5. absFloor(n, l) = -whole
  BY <1>3, <1>4, FloorNegated
<1>6. absFloor(whole, 12) \in Int /\ absFloor(-whole, 12) = -absFloor(whole, 12)
  BY FloorNegated
<1>7. absFloor(k, 12 * l) = absFloor(whole, 12) /\ absFloor(n, 12 * l) = -absFloor(whole, 12)
  BY <1>3, <1>4, <1>5, <1>6, FloorTwice
<1>8. MonthsTo(x, y) = <<n, l>> /\ Negated(MonthsTo(x, y)) = <<k, l>> /\ 1 * l = l
  BY <1>1, <1>3, <1>4 DEF Negated
<1>9. /\ WholeUnits(InUnitsOf(MonthsTo(x, y), 1)) = absFloor(n, l)
      /\ WholeUnits(InUnitsOf(MonthsTo(x, y), 12)) = absFloor(n, 12 * l)
      /\ WholeUnits(InUnitsOf(Negated(MonthsTo(x, y)), 1)) = absFloor(k, l)
      /\ WholeUnits(InUnitsOf(Negated(MonthsTo(x, y)), 12)) = absFloor(k, 12 * l)
  BY <1>8 DEF WholeUnits, InUnitsOf
<1> QED BY <1>1, <1>2, <1>3, <1>5, <1>6, <1>7, <1>9

\* Where in its month a moment is on its clock.
PlaceInMonth(x) == date(x) * MinutesPerDay + (Clock(x) % MinutesPerDay)

LEMMA PlaceIs ==
  ASSUME NEW x \in Moment
  PROVE  /\ PlaceInMonth(x) \in Int /\ FirstOf(MonthIndex(x)) \in Int
         /\ Clock(x) % MinutesPerDay \in Int
         /\ Clock(x) = (FirstOf(MonthIndex(x)) - 1) * MinutesPerDay + PlaceInMonth(x)
<1>1. PICK c \in Int, n \in Int, dt \in Int, f \in Int :
        /\ c = Clock(x) /\ n = DayOf(x) /\ dt = date(x) /\ f = FirstOf(MonthIndex(x))
        /\ n = f + dt - 1
  <2>1. /\ Clock(x) \in Int /\ DayOf(x) \in Int /\ date(x) \in Int /\ FirstOf(MonthIndex(x)) \in Int
        /\ DayOf(x) = FirstOf(MonthIndex(x)) + date(x) - 1
    BY ShownType, DayOfIndex
  <2> QED BY <2>1
<1>2. PICK t : t = c % 1440
  OBVIOUS
<1>3. t \in 0 .. 1439 /\ t \in Int /\ c = (c \div 1440) * 1440 + t
  BY <1>2, SMT
<1>4. n = c \div 1440
  BY <1>1 DEF DayOf, MinutesPerDay
<1>5. PICK p \in Int : p = dt * 1440 + t
  BY <1>3
<1>6. c = (f - 1) * 1440 + p
  BY <1>1, <1>3, <1>4, <1>5, SMT
<1>7. p = PlaceInMonth(x) /\ t = Clock(x) % MinutesPerDay
  BY <1>1, <1>2, <1>5 DEF PlaceInMonth, MinutesPerDay
<1>8. c = (f - 1) * MinutesPerDay + p
  BY <1>6 DEF MinutesPerDay
<1> QED BY <1>1, <1>3, <1>7, <1>8

\* If the month has the date and the day the clock time, the anchor is
\* before or after the other moment as its place in the month is.
LEMMA AnchorIs ==
  ASSUME ClockChangesWithinDays, NEW x \in Moment, x.valid, NEW y, Alike(y, x),
         IsFirst(x), IsFirst(y), ClockIsKept(x, y), date(x) <= LengthOf(MonthIndex(y)),
         NEW z, z = Anchor(x, y)
  PROVE  \E p \in Int, q \in Int, t \in Int, e \in Int :
           /\ p = PlaceInMonth(x) /\ q = PlaceInMonth(y) /\ t = z.d /\ e = y.d
           /\ (t < e <=> p < q) /\ (e < t <=> q < p)
<1>1. y \in Moment
  BY DEF Alike
<1>2. PICK i \in Int, j \in Int, w \in Int :
        /\ i = MonthIndex(x) /\ j = MonthIndex(y) /\ w = MonthsOn(x, y) /\ j = i + w
        /\ w = (year(y) - year(x)) * 12 + (month(y) - month(x))
  <2>1. /\ MonthIndex(x) \in Int /\ MonthIndex(y) \in Int /\ MonthsOn(x, y) \in Int
        /\ MonthsOn(x, y) = MonthIndex(y) - MonthIndex(x)
        /\ MonthsOn(x, y) = (year(y) - year(x)) * 12 + (month(y) - month(x))
    BY <1>1, MonthsOnIs
  <2> QED BY <2>1
<1>3. /\ z = add(x, w, "month") /\ z \in Moment /\ Alike(z, x)
      /\ MonthIndex(z) = j /\ date(z) = Lesser(date(x), LengthOf(j))
      /\ w = 0 => z = x
      /\ w # 0 => z = DateAt(x, DayOf(z) * MinutesPerDay + (Clock(x) % MinutesPerDay))
  <2>1. z = add(x, w, "month")
    BY <1>2 DEF Anchor
  <2>2. /\ z \in Moment /\ Alike(z, x)
        /\ MonthIndex(z) = MonthIndex(x) + w /\ date(z) = Lesser(date(x), LengthOf(MonthIndex(x) + w))
        /\ w = 0 => z = x
        /\ w # 0 => z = DateAt(x, DayOf(z) * MinutesPerDay + (Clock(x) % MinutesPerDay))
    BY <2>1, MonthsAdded
  <2> QED BY <1>2, <2>1, <2>2
<1>4. PICK p \in Int, f \in Int, t \in Int :
        /\ p = PlaceInMonth(x) /\ t = Clock(x) % MinutesPerDay
        /\ f = FirstOf(i) /\ Clock(x) = (f - 1) * MinutesPerDay + p
  <2>1. /\ PlaceInMonth(x) \in Int /\ FirstOf(i) \in Int /\ Clock(x) % MinutesPerDay \in Int
        /\ Clock(x) = (FirstOf(i) - 1) * MinutesPerDay + PlaceInMonth(x)
    BY <1>2, PlaceIs
  <2> QED BY <2>1
<1>5. PICK q \in Int, g \in Int :
        q = PlaceInMonth(y) /\ g = FirstOf(j) /\ Clock(y) = (g - 1) * MinutesPerDay + q
  <2>1. /\ PlaceInMonth(y) \in Int /\ FirstOf(j) \in Int
        /\ Clock(y) = (FirstOf(j) - 1) * MinutesPerDay + PlaceInMonth(y)
    BY <1>1, <1>2, PlaceIs
  <2> QED BY <2>1
<1>6. PICK dt \in Int, n \in Int : dt = date(x) /\ dt = date(z) /\ n = DayOf(z) /\ n = g + dt - 1
  <2>1. date(x) \in Int /\ LengthOf(j) \in Int /\ date(x) <= LengthOf(j)
    BY <1>2, DayOfIndex, IndexType
  <2>2. date(z) = date(x)
    BY <1>3, <2>1 DEF Lesser
  <2>3. DayOf(z) \in Int /\ DayOf(z) = FirstOf(MonthIndex(z)) + date(z) - 1
    BY <1>3, DayOfIndex
  <2>4. FirstOf(MonthIndex(z)) = g
    BY <1>3, <1>5, Zenon
  <2> QED BY <2>1, <2>2, <2>3, <2>4
<1>7. Clock(z) = (g - 1) * MinutesPerDay + p /\ IsFirst(z)
  <2>1. CASE w = 0
    <3>0. i = j
      BY <1>2, <2>1
    <3>1. z = x /\ f = g
      BY <1>3, <1>4, <1>5, <2>1, <3>0, Zenon
    <3> QED BY <1>4, <3>1
  <2>2. CASE w # 0
    <3>1. z = DateAt(x, n * MinutesPerDay + (Clock(x) % MinutesPerDay))
      BY <1>3, <1>6, <2>2
    <3>2. hour(z) = hour(x)
      BY <1>2, <1>3 DEF ClockIsKept
    <3>3. Clock(z) = n * MinutesPerDay + (Clock(x) % MinutesPerDay) /\ IsFirst(z)
      BY <3>1, <3>2, ClockKept
    <3>4. p = dt * 1440 + t
      BY <1>4, <1>6 DEF PlaceInMonth, MinutesPerDay
    <3>5. n * MinutesPerDay + t = (g - 1) * MinutesPerDay + p
      BY <1>6, <3>4 DEF MinutesPerDay
    <3> QED BY <1>4, <3>3, <3>5
  <2> QED BY <2>1, <2>2
<1>8. PICK c \in Int, k \in Int : c = Clock(z) /\ k = Clock(y) /\ k - c = q - p
  <2>1. (g - 1) * 1440 + p \in Int /\ (g - 1) * 1440 + q \in Int
        /\ ((g - 1) * 1440 + q) - ((g - 1) * 1440 + p) = q - p
    BY SMT
  <2> QED BY <1>5, <1>7, <2>1 DEF MinutesPerDay
<1>9. Alike(y, z) /\ Alike(z, y) /\ z.d \in Int /\ y.d \in Int
  BY <1>1, <1>3 DEF Alike, Moment
<1>10. c <= k => z.d <= y.d /\ (c < k => z.d < y.d)
  BY <1>3, <1>7, <1>8, <1>9, FirstsOrderTime
<1>11. k <= c => y.d <= z.d /\ (k < c => y.d < z.d)
  BY <1>1, <1>8, <1>9, FirstsOrderTime
<1>12. PICK u \in Int, e \in Int : u = z.d /\ e = y.d
  BY <1>9
<1>13. (u < e <=> p < q) /\ (e < u <=> q < p)
  BY <1>8, <1>10, <1>11, <1>12
<1> QED BY <1>4, <1>5, <1>12, <1>13, Zenon

\* Which of the two months is counted does not matter where both have both
\* dates: the difference is that of months and places in them.
LEMMA MonthsBetween ==
  ASSUME ClockChangesWithinDays, NEW x \in Moment, x.valid, NEW y, Alike(y, x),
         ClocksCompare(x, y),
         date(x) <= LengthOf(MonthIndex(y)), date(y) <= LengthOf(MonthIndex(x))
  PROVE  \E w \in Int, s \in Int, n \in Int :
           /\ w = MonthsOn(x, y) /\ s = PlaceInMonth(y) - PlaceInMonth(x) /\ n = TowardsZero(w, s)
           /\ diff(y, x, "month") = n /\ diff(y, x, "year") = absFloor(n, 12)
<1>1. y \in Moment /\ y.valid /\ Alike(x, y)
  BY DEF Alike
<1>2. PICK w \in Int, v \in Int : w = MonthsOn(x, y) /\ v = MonthsOn(y, x) /\ v = -w
  <2>1. PICK i \in Int, j \in Int : i = MonthIndex(x) /\ j = MonthIndex(y)
    BY <1>1, DayOfIndex
  <2> QED BY <2>1 DEF MonthsOn
<1>a. PlaceInMonth(x) \in Int /\ PlaceInMonth(y) \in Int
  BY <1>1, PlaceIs
<1>b. PICK p \in Int, q \in Int : p = PlaceInMonth(x) /\ q = PlaceInMonth(y)
  BY <1>a
<1>c. PICK s \in Int : s = q - p
  OBVIOUS
<1>3. p = PlaceInMonth(x) /\ q = PlaceInMonth(y) /\ s = q - p
  BY <1>b, <1>c
<1>4. PICK n \in Int : n = TowardsZero(w, s)
  BY DEF TowardsZero
<1>5. /\ diff(y, x, "month") = WholeUnits(InUnitsOf(monthDiff(y, x), 1))
      /\ diff(y, x, "year") = WholeUnits(InUnitsOf(monthDiff(y, x), 12))
  <2>1. /\ exactDiff(y, x, "month") = InUnitsOf(monthDiff(y, x), 1)
        /\ exactDiff(y, x, "year") = InUnitsOf(monthDiff(y, x), 12)
    BY <1>1, DifferenceIs
  <2> QED BY <2>1 DEF diff
<1>6. CASE date(y) < date(x)
  <2>1. monthDiff(y, x) = Negated(MonthsTo(x, y))
    BY <1>6 DEF monthDiff
  <2>2. PICK t \in Int, e \in Int :
          t = Anchor(x, y).d /\ e = y.d /\ (t < e <=> p < q) /\ (e < t <=> q < p)
    BY <1>3, AnchorIs DEF ClocksCompare
  <2>3. TowardsZero(w, e - t) = n
    BY <1>3, <1>4, <2>2 DEF TowardsZero
  <2>4. /\ WholeUnits(InUnitsOf(Negated(MonthsTo(x, y)), 1)) = n
        /\ WholeUnits(InUnitsOf(Negated(MonthsTo(x, y)), 12)) = absFloor(n, 12)
    BY <1>2, <2>2, <2>3, MonthsToRounded
  <2> QED BY <1>2, <1>3, <1>4, <1>5, <2>1, <2>4
<1>7. CASE ~(date(y) < date(x))
  <2>1. monthDiff(y, x) = MonthsTo(y, x)
    BY <1>7 DEF monthDiff
  <2>2. PICK t \in Int, e \in Int :
          t = Anchor(y, x).d /\ e = x.d /\ (t < e <=> q < p) /\ (e < t <=> p < q)
    BY <1>1, <1>3, AnchorIs DEF ClocksCompare
  <2>3. PICK k \in Int : k = TowardsZero(v, e - t) /\ k = -n /\ -k = n
    <3>1. TowardsZero(v, e - t) = -n
      BY <1>2, <1>3, <1>4, <2>2 DEF TowardsZero
    <3> QED BY <3>1
  <2>4. /\ WholeUnits(InUnitsOf(MonthsTo(y, x), 1)) = -k
        /\ WholeUnits(InUnitsOf(MonthsTo(y, x), 12)) = -absFloor(k, 12)
    BY <1>1, <1>2, <2>2, <2>3, MonthsToRounded
  <2>5. absFloor(n, 12) \in Int /\ absFloor(-n, 12) = -absFloor(n, 12)
    BY FloorNegated
  <2>6. -absFloor(k, 12) = absFloor(n, 12)
    BY <2>3, <2>5
  <2> QED BY <1>2, <1>3, <1>4, <1>5, <2>1, <2>3, <2>4, <2>6
<1> QED BY <1>6, <1>7

\* The difference the other way is the opposite.
LEMMA MonthsNegated ==
  ASSUME ClockChangesWithinDays, NEW x \in Moment, x.valid, NEW y, Alike(y, x),
         ClocksCompare(x, y), NEW unit \in {"month", "year"}
  PROVE  diff(x, y, unit) = -diff(y, x, unit)
<1>1. y \in Moment /\ y.valid /\ Alike(x, y) /\ ClocksCompare(y, x)
  BY DEF Alike, ClocksCompare
<1>2. PICK per : per = IF unit = "month" THEN 1 ELSE 12
  OBVIOUS
<1>3. /\ diff(y, x, unit) = WholeUnits(InUnitsOf(monthDiff(y, x), per))
      /\ diff(x, y, unit) = WholeUnits(InUnitsOf(monthDiff(x, y), per))
  <2>1. /\ exactDiff(y, x, "month") = InUnitsOf(monthDiff(y, x), 1)
        /\ exactDiff(y, x, "year") = InUnitsOf(monthDiff(y, x), 12)
        /\ exactDiff(x, y, "month") = InUnitsOf(monthDiff(x, y), 1)
        /\ exactDiff(x, y, "year") = InUnitsOf(monthDiff(x, y), 12)
    BY <1>1, DifferenceIs
  <2> QED BY <1>2, <2>1 DEF diff
<1>4. ASSUME NEW u \in Moment, u.valid, NEW v, Alike(v, u), date(v) < date(u), ~(date(u) < date(v))
      PROVE  \E k \in Int : /\ WholeUnits(InUnitsOf(monthDiff(v, u), per)) = k
                            /\ WholeUnits(InUnitsOf(monthDiff(u, v), per)) = -k
  <2>1. monthDiff(v, u) = Negated(MonthsTo(u, v)) /\ monthDiff(u, v) = MonthsTo(u, v)
    BY <1>4 DEF monthDiff
  <2>2. PICK whole \in Int :
          /\ absFloor(whole, 12) \in Int
          /\ WholeUnits(InUnitsOf(MonthsTo(u, v), 1)) = -whole
          /\ WholeUnits(InUnitsOf(MonthsTo(u, v), 12)) = -absFloor(whole, 12)
          /\ WholeUnits(InUnitsOf(Negated(MonthsTo(u, v)), 1)) = whole
          /\ WholeUnits(InUnitsOf(Negated(MonthsTo(u, v)), 12)) = absFloor(whole, 12)
    BY <1>4, MonthsToRounded
  <2> QED BY <1>2, <2>1, <2>2
<1>5. PICK a \in Int, b \in Int : a = date(x) /\ b = date(y)
  BY <1>1, ShownType
<1>6. CASE b < a
  <2>1. PICK k \in Int : diff(y, x, unit) = k /\ diff(x, y, unit) = -k
    BY <1>3, <1>4, <1>5, <1>6
  <2> QED BY <2>1
<1>7. CASE a < b
  <2>1. PICK k \in Int : diff(x, y, unit) = k /\ diff(y, x, unit) = -k
    BY <1>1, <1>3, <1>4, <1>5, <1>7
  <2> QED BY <2>1
<1>8. CASE a = b
  <2>1. date(x) <= LengthOf(MonthIndex(y)) /\ date(y) <= LengthOf(MonthIndex(x))
    BY <1>1, <1>5, <1>8, DayOfIndex
  <2>2. PICK w \in Int, s \in Int, n \in Int :
          /\ w = MonthsOn(x, y) /\ s = PlaceInMonth(y) - PlaceInMonth(x) /\ n = TowardsZero(w, s)
          /\ diff(y, x, "month") = n /\ diff(y, x, "year") = absFloor(n, 12)
    BY <2>1, MonthsBetween
  <2>3. PICK v \in Int, r \in Int, k \in Int :
          /\ v = MonthsOn(y, x) /\ r = PlaceInMonth(x) - PlaceInMonth(y) /\ k = TowardsZero(v, r)
          /\ diff(x, y, "month") = k /\ diff(x, y, "year") = absFloor(k, 12)
    BY <1>1, <2>1, MonthsBetween
  <2>4. v = -w /\ r = -s
    <3>1. /\ MonthIndex(x) \in Int /\ MonthIndex(y) \in Int
          /\ PlaceInMonth(x) \in Int /\ PlaceInMonth(y) \in Int
      BY <1>1, DayOfIndex, PlaceIs
    <3> QED BY <2>2, <2>3, <3>1 DEF MonthsOn
  <2>5. k = -n
    BY <2>2, <2>3, <2>4 DEF TowardsZero
  <2>6. absFloor(-n, 12) = -absFloor(n, 12)
    BY FloorNegated
  <2> QED BY <2>2, <2>3, <2>5, <2>6
<1> QED BY <1>5, <1>6, <1>7, <1>8

\* A year is twelve months, an hour sixty minutes.
LEMMA KeptIs ==
  ASSUME NEW k \in Int
  PROVE  /\ Kept([u \in {"month"} |-> k]) = [months |-> k, days |-> 0, minutes |-> 0]
         /\ Kept([u \in {"year"} |-> k])  = [months |-> 12 * k, days |-> 0, minutes |-> 0]
         /\ Kept([u \in {"day"} |-> k])   = [months |-> 0, days |-> k, minutes |-> 0]
         /\ Kept([u \in {"hour"} |-> k])  = [months |-> 0, days |-> 0, minutes |-> 60 * k]
<1>1. k + 0 * 3 + 0 * 12 = k /\ 0 + 0 * 3 + k * 12 = 12 * k /\ 0 + 0 * 3 + 0 * 12 = 0
      /\ 0 + 0 * 7 = 0 /\ k + 0 * 7 = k /\ 0 + 0 * 60 = 0 /\ 0 + k * 60 = 60 * k
  BY SMT
<1>2. Kept([u \in {"month"} |-> k]) = [months |-> k + 0 * 3 + 0 * 12, days |-> 0 + 0 * 7, minutes |-> 0 + 0 * 60]
  BY DEF Kept, Amount
<1>3. Kept([u \in {"year"} |-> k]) = [months |-> 0 + 0 * 3 + k * 12, days |-> 0 + 0 * 7, minutes |-> 0 + 0 * 60]
  BY DEF Kept, Amount
<1>4. Kept([u \in {"day"} |-> k]) = [months |-> 0 + 0 * 3 + 0 * 12, days |-> k + 0 * 7, minutes |-> 0 + 0 * 60]
  BY DEF Kept, Amount
<1>5. Kept([u \in {"hour"} |-> k]) = [months |-> 0 + 0 * 3 + 0 * 12, days |-> 0 + 0 * 7, minutes |-> 0 + k * 60]
  BY DEF Kept, Amount
<1> QED BY <1>1, <1>2, <1>3, <1>4, <1>5

LEMMA AddYearIs ==
  ASSUME NEW x, NEW k \in Int, NEW j \in Int, j = 12 * k
  PROVE  add(x, k, "year") = add(x, j, "month")
<1>1. Kept([u \in {"year"} |-> k]) = Kept([u \in {"month"} |-> j])
  BY KeptIs
<1> QED BY <1>1 DEF add

\* A moment some months on is before, at or after the other one as its month
\* is and, in the same month, as its place in it is.
LEMMA MonthsOnOrder ==
  ASSUME ClockChangesWithinDays, NEW x \in Moment, x.valid, NEW y, Alike(y, x),
         IsFirst(x), IsFirst(y), ClockIsKept(x, y), date(x) <= LengthOf(MonthIndex(y)),
         NEW w \in Int, w = MonthsOn(x, y),
         NEW s \in Int, s = PlaceInMonth(y) - PlaceInMonth(x),
         NEW k \in Int, NEW z, z = add(x, k, "month")
  PROVE  /\ z \in Moment /\ z.valid /\ Alike(z, x) /\ z.d \in Int /\ y.d \in Int
         /\ z.d < y.d <=> k < w \/ (k = w /\ s > 0)
         /\ y.d < z.d <=> k > w \/ (k = w /\ s < 0)
         /\ k = 0 => z = x
<1>1. y \in Moment /\ y.d \in Int
  BY DEF Alike, Moment
<1>2. /\ z \in Moment /\ z.valid /\ Alike(z, x) /\ z.d \in Int
      /\ MonthIndex(z) = MonthIndex(x) + k /\ (k = 0 => z = x)
  BY MonthsAdded DEF Moment
<1>3. PICK i \in Int, j \in Int : i = MonthIndex(x) /\ j = MonthIndex(y) /\ w = j - i
  <2>1. MonthIndex(x) \in Int /\ MonthIndex(y) \in Int
    BY <1>1, DayOfIndex
  <2> QED BY <2>1 DEF MonthsOn
<1>4. Alike(y, z) /\ Alike(z, y)
  BY <1>1, <1>2 DEF Alike
<1>5. CASE k < w
  <2>1. z.d < y.d
    <3>1. i + k < j
      BY <1>3, <1>5
    <3> QED BY <1>1, <1>2, <1>3, <1>4, <3>1, DatesOrderTime
  <2> QED BY <1>1, <1>2, <1>5, <2>1
<1>6. CASE k > w
  <2>1. y.d < z.d
    <3>1. j < i + k
      BY <1>3, <1>6
    <3> QED BY <1>1, <1>2, <1>3, <1>4, <3>1, DatesOrderTime
  <2> QED BY <1>1, <1>2, <1>6, <2>1
<1>7. CASE k = w
  <2>1. z = Anchor(x, y)
    BY <1>7 DEF Anchor
  <2>2. PICK p \in Int, q \in Int : /\ p = PlaceInMonth(x) /\ q = PlaceInMonth(y)
                                    /\ (z.d < y.d <=> p < q) /\ (y.d < z.d <=> q < p)
    BY <2>1, AnchorIs
  <2>3. s = q - p
    BY <2>2
  <2> QED BY <1>1, <1>2, <1>7, <2>2, <2>3
<1> QED BY <1>5, <1>6, <1>7

LEMMA FloorBounds ==
  ASSUME NEW n \in Int, NEW l \in Int, 0 < l, NEW q, q = absFloor(n, l)
  PROVE  /\ q \in Int /\ q * l \in Int
         /\ 0 <= n => 0 <= q /\ q * l <= n /\ n < q * l + l
         /\ n <= 0 => q <= 0 /\ n <= q * l /\ q * l - l < n
<1>1. CASE 0 <= n
  <2>1. PICK p \in Int, r \in Int : n \div l = p /\ n = p * l + r /\ 0 <= r /\ r < l
    BY QuotientExists
  <2>2. q = p
    BY <1>1, <2>1 DEF absFloor
  <2>3. p * l \in Int
    BY SMT
  <2>4. 0 <= p /\ (n = 0 => p = 0 /\ p * l = 0)
    BY <1>1, <2>1, SMT
  <2> QED BY <1>1, <2>1, <2>2, <2>3, <2>4
<1>2. CASE n < 0
  <2>0. PICK a \in Int : a = -n
    OBVIOUS
  <2>1. PICK p \in Int, r \in Int : a \div l = p /\ a = p * l + r /\ 0 <= r /\ r < l
    BY QuotientExists
  <2>2. q = -p
    BY <1>2, <2>0, <2>1 DEF absFloor
  <2>3. p * l \in Int /\ (-p) * l = -(p * l)
    BY SMT
  <2>4. 0 <= p
    BY <1>2, <2>0, <2>1, SMT
  <2> QED BY <1>2, <2>0, <2>1, <2>2, <2>3, <2>4
<1> QED BY <1>1, <1>2

\* Adding n units does not pass the other moment and adding one more does, if
\* it is so of the time between.
LEMMA AddsBackIs ==
  ASSUME NEW x \in Moment, NEW y, Alike(y, x), NEW n \in Int, NEW unit \in {"year", "month", "hour"},
         NEW sign \in Int, sign = IF y.d - x.d < 0 THEN -1 ELSE 1,
         NEW k \in Int, k = n + sign,
         NEW full, full = add(x, n, unit), NEW more, more = add(x, k, unit),
         Alike(full, x), Alike(more, x),
         y.d < x.d => y.d <= full.d /\ more.d < y.d,
         ~(y.d < x.d) => full.d <= y.d /\ y.d < more.d
  PROVE  AddsBack(x, n, unit, y)
<1>1. /\ Since(y, x) = y.d - x.d
      /\ Since(full, y) = full.d - y.d /\ Since(more, y) = more.d - y.d
      /\ x.d \in Int /\ y.d \in Int /\ full.d \in Int /\ more.d \in Int
  <2>1. y \in Moment /\ Alike(full, y) /\ Alike(more, y)
    BY DEF Alike
  <2>2. Since(y, x) = y.d - x.d
    BY SinceAlike
  <2>3. Since(full, y) = full.d - y.d /\ Since(more, y) = more.d - y.d
    BY <2>1, SinceAlike
  <2> QED BY <2>1, <2>2, <2>3 DEF Alike, Moment
<1>2. sign * Since(full, y) <= 0 /\ sign * Since(more, y) > 0
  <2>1. CASE y.d < x.d
    <3>1. sign = -1 /\ y.d <= full.d /\ more.d < y.d
      BY <1>1, <2>1
    <3> QED BY <1>1, <3>1
  <2>2. CASE ~(y.d < x.d)
    <3>1. sign = 1 /\ full.d <= y.d /\ y.d < more.d
      BY <1>1, <2>2
    <3> QED BY <1>1, <3>1
  <2> QED BY <2>1, <2>2
<1>3. sign = IF Since(y, x) < 0 THEN -1 ELSE 1
  BY <1>1
<1>4. unit # "day"
  OBVIOUS
<1> QED BY <1>2, <1>3, <1>4, Zenon DEF AddsBack

\* Whole months and whole years between two moments lead from the one to the
\* other.
LEMMA MonthsAddBack ==
  ASSUME ClockChangesWithinDays, NEW x \in Moment, x.valid, NEW y, Alike(y, x),
         ClocksCompare(x, y), date(x) <= 28, date(y) <= 28, NEW unit \in {"month", "year"}
  PROVE  AddsBack(x, diff(y, x, unit), unit, y)
<1>1. y \in Moment /\ y.d \in Int /\ x.d \in Int
  BY DEF Alike, Moment
<1>2. date(x) <= LengthOf(MonthIndex(y)) /\ date(y) <= LengthOf(MonthIndex(x))
  <2>1. PICK i \in Int, j \in Int, a \in Int, b \in Int :
          i = MonthIndex(x) /\ j = MonthIndex(y) /\ a = date(x) /\ b = date(y)
    BY <1>1, DayOfIndex
  <2>2. \A n \in Int : LengthOf(n) \in Int /\ 28 <= LengthOf(n)
    <3> SUFFICES ASSUME NEW n \in Int PROVE LengthOf(n) \in Int /\ 28 <= LengthOf(n)
      OBVIOUS
    <3>1. PICK l \in Int : l = n + 1
      OBVIOUS
    <3> QED BY <3>1, MonthsHaveLengths
  <2>3. LengthOf(i) \in Int /\ 28 <= LengthOf(i) /\ LengthOf(j) \in Int /\ 28 <= LengthOf(j)
    BY <2>2
  <2> QED BY <2>1, <2>3, SMT
<1>3. PICK w \in Int, s \in Int, n \in Int :
        /\ w = MonthsOn(x, y) /\ s = PlaceInMonth(y) - PlaceInMonth(x) /\ n = TowardsZero(w, s)
        /\ diff(y, x, "month") = n /\ diff(y, x, "year") = absFloor(n, 12)
  BY <1>2, MonthsBetween
<1>4. \A k \in Int : LET z == add(x, k, "month") IN
        /\ Alike(z, x) /\ z.d \in Int
        /\ z.d < y.d <=> k < w \/ (k = w /\ s > 0)
        /\ y.d < z.d <=> k > w \/ (k = w /\ s < 0)
        /\ k = 0 => z = x
  BY <1>2, <1>3, MonthsOnOrder DEF ClocksCompare
<1>5. /\ x.d < y.d <=> 0 < w \/ (0 = w /\ s > 0)
      /\ y.d < x.d <=> 0 > w \/ (0 = w /\ s < 0)
  <2>1. add(x, 0, "month") = x
    BY <1>4
  <2>2. /\ add(x, 0, "month").d < y.d <=> 0 < w \/ (0 = w /\ s > 0)
        /\ y.d < add(x, 0, "month").d <=> 0 > w \/ (0 = w /\ s < 0)
    BY <1>4
  <2> QED BY <2>1, <2>2
<1>6. PICK sign \in Int : sign = IF y.d - x.d < 0 THEN -1 ELSE 1
  OBVIOUS
<1>7. ASSUME NEW a \in Int, NEW b \in Int,
             sign = 1  => a <= n /\ n + 1 <= b,
             sign = -1 => n <= a /\ b <= n - 1
      PROVE  /\ Alike(add(x, a, "month"), x) /\ Alike(add(x, b, "month"), x)
             /\ y.d < x.d => y.d <= add(x, a, "month").d /\ add(x, b, "month").d < y.d
             /\ ~(y.d < x.d) => add(x, a, "month").d <= y.d /\ y.d < add(x, b, "month").d
  <2>1. PICK u \in Int, v \in Int : u = add(x, a, "month").d /\ v = add(x, b, "month").d
    BY <1>4
  <2>2. /\ u < y.d <=> a < w \/ (a = w /\ s > 0)
        /\ y.d < u <=> a > w \/ (a = w /\ s < 0)
        /\ v < y.d <=> b < w \/ (b = w /\ s > 0)
        /\ y.d < v <=> b > w \/ (b = w /\ s < 0)
    BY <1>4, <2>1
  <2>3. n = IF w > 0 /\ s < 0 THEN w - 1 ELSE IF w < 0 /\ s > 0 THEN w + 1 ELSE w
    BY <1>3 DEF TowardsZero
  <2>4. CASE y.d < x.d
    <3>1. sign = -1 /\ n <= a /\ b <= n - 1 /\ (0 > w \/ (0 = w /\ s < 0))
      BY <1>1, <1>5, <1>6, <1>7, <2>4
    <3>2. y.d <= u /\ v < y.d
      BY <1>1, <2>1, <2>2, <2>3, <3>1
    <3> QED BY <1>4, <2>1, <2>4, <3>2
  <2>5. CASE ~(y.d < x.d)
    <3>1. sign = 1 /\ a <= n /\ n + 1 <= b /\ ~(0 > w \/ (0 = w /\ s < 0))
      BY <1>1, <1>5, <1>6, <1>7, <2>5
    <3>2. u <= y.d /\ y.d < v
      BY <1>1, <2>1, <2>2, <2>3, <3>1
    <3> QED BY <1>4, <2>1, <2>5, <3>2
  <2> QED BY <2>4, <2>5
<1>8. CASE unit = "month"
  <2>1. PICK k \in Int : k = n + sign
    OBVIOUS
  <2>2. (sign = 1  => n <= n /\ n + 1 <= k) /\ (sign = -1 => n <= n /\ k <= n - 1)
    BY <2>1
  <2>3. PICK full, more : full = add(x, n, "month") /\ more = add(x, k, "month")
    OBVIOUS
  <2>4. AddsBack(x, n, "month", y)
    BY <1>6, <1>7, <2>1, <2>2, <2>3, AddsBackIs
  <2> QED BY <1>3, <1>8, <2>4
<1>9. CASE unit = "year"
  <2>1. PICK q \in Int, k \in Int : q = absFloor(n, 12) /\ k = q + sign
    <3>1. PICK q \in Int : q = absFloor(n, 12)
      BY FloorNegated
    <3> QED BY <3>1
  <2>2. PICK a \in Int, b \in Int : a = 12 * q /\ b = 12 * k
    BY SMT
  <2>3. (sign = 1  => a <= n /\ n + 1 <= b) /\ (sign = -1 => n <= a /\ b <= n - 1)
    <3>1. q * 12 = a /\ b = a + 12 * sign
      BY <2>1, <2>2, SMT
    <3>2. /\ 0 <= n => q * 12 <= n /\ n < q * 12 + 12
          /\ n <= 0 => n <= q * 12 /\ q * 12 - 12 < n
      <4>1. PICK l \in Int : l = 12 /\ 0 < l
        OBVIOUS
      <4>2. q = absFloor(n, l)
        BY <2>1, <4>1
      <4>3. /\ 0 <= n => q * l <= n /\ n < q * l + l
            /\ n <= 0 => n <= q * l /\ q * l - l < n
        BY <4>1, <4>2, FloorBounds
      <4> QED BY <4>1, <4>3
    <3>3. (sign = 1 => 0 <= n) /\ (sign = -1 => n <= 0)
      BY <1>1, <1>3, <1>5, <1>6 DEF TowardsZero
    <3> QED BY <3>1, <3>2, <3>3
  <2>4. PICK full, more : full = add(x, q, "year") /\ more = add(x, k, "year")
    OBVIOUS
  <2>5. full = add(x, a, "month") /\ more = add(x, b, "month")
    BY <2>2, <2>4, AddYearIs
  <2>6. AddsBack(x, q, "year", y)
    BY <1>6, <1>7, <2>1, <2>3, <2>4, <2>5, AddsBackIs
  <2> QED BY <1>3, <1>9, <2>1, <2>6
<1> QED BY <1>8, <1>9

-----------------------------------------------------------------------------
(***************************************************************************)
(* Days are counted on the clock and hours in time.                        *)
(***************************************************************************)
\* Hours are added in time.
LEMMA AddHourIs ==
  ASSUME NEW x \in Moment, x.valid, NEW k \in Int
  PROVE  Alike(add(x, k, "hour"), x) /\ add(x, k, "hour").d = x.d + 60 * k
<1>1. PICK n \in Int : n = 60 * k
  OBVIOUS
<1>0. PICK dur0 : dur0 = [months |-> 0, days |-> 0, minutes |-> n]
  OBVIOUS
<1>2. Kept([u \in {"hour"} |-> k]) = dur0
  BY <1>0, <1>1, KeptIs
<1>3. dur0.months * 1 = 0 /\ dur0.days * 1 = 0 /\ dur0.minutes * 1 = n
  BY <1>0
<1>4. AddMonths(x, 0) = x /\ AddDays(x, 0) = x
  BY DEF AddMonths, AddDays
<1>5. add(x, k, "hour") = [x EXCEPT !.d = x.d + n]
  BY <1>2, <1>3, <1>4 DEF add, addSubtract
<1>6. PICK t \in Int : t = x.d + n
  BY DEF Moment
<1>7. Alike([x EXCEPT !.d = t], x) /\ [x EXCEPT !.d = t].d = t
  BY AtAnotherTime DEF Moment
<1> QED BY <1>1, <1>5, <1>6, <1>7

LEMMA HoursAddBack ==
  ASSUME NEW x \in Moment, x.valid, NEW y, Alike(y, x)
  PROVE  AddsBack(x, diff(y, x, "hour"), "hour", y)
<1>1. PICK a \in Int, b \in Int : a = x.d /\ b = y.d
  BY DEF Alike, Moment
<1>2. PICK c \in Int, l \in Int : c = b - a /\ l = 60 /\ 0 < l
  OBVIOUS
<1>3. PICK n \in Int, p \in Int :
        /\ n = absFloor(c, l) /\ p = n * l
        /\ 0 <= c => 0 <= n /\ p <= c /\ c < p + l
        /\ c <= 0 => n <= 0 /\ c <= p /\ p - l < c
  <2>1. PICK n : n = absFloor(c, l)
    OBVIOUS
  <2>2. /\ n \in Int /\ n * l \in Int
        /\ 0 <= c => 0 <= n /\ n * l <= c /\ c < n * l + l
        /\ c <= 0 => n <= 0 /\ c <= n * l /\ n * l - l < c
    <3>1. n = absFloor(c, l) /\ 0 < l
      BY <1>2, <2>1
    <3> HIDE <1>2, <2>1
    <3> QED BY <3>1, FloorBounds
  <2> QED BY <2>1, <2>2
<1>4. diff(y, x, "hour") = n
  <2>1. exactDiff(y, x, "hour") = <<c, l>>
    <3>1. y \in Moment /\ Alike(x, y)
      BY DEF Alike
    <3> QED BY <1>1, <1>2, <3>1, DifferenceIs
  <2> QED BY <1>3, <2>1 DEF diff, WholeUnits
<1>5. PICK sign \in Int, k \in Int : sign = (IF b - a < 0 THEN -1 ELSE 1) /\ k = n + sign
  <2>1. PICK sign \in Int : sign = (IF b - a < 0 THEN -1 ELSE 1)
    OBVIOUS
  <2>2. PICK k \in Int : k = n + sign
    OBVIOUS
  <2> QED BY <2>1, <2>2
<1>6. PICK full, more : full = add(x, n, "hour") /\ more = add(x, k, "hour")
  OBVIOUS
<1>7. /\ Alike(full, x) /\ full.d = a + 60 * n
      /\ Alike(more, x) /\ more.d = a + 60 * k
  BY <1>1, <1>6, AddHourIs
<1>8. 60 * n = p /\ 60 * k = p + 60 * sign
  BY <1>2, <1>3, <1>5, SMT
<1>9. /\ b < a => b <= a + p /\ (a + p) + 60 * sign < b
      /\ ~(b < a) => a + p <= b /\ b < (a + p) + 60 * sign
  BY <1>2, <1>3, <1>5, SMT
<1>10. full.d = a + p /\ more.d = (a + p) + 60 * sign
  BY <1>7, <1>8, SMT
<1>11. AddsBack(x, n, "hour", y)
  <2>1. sign = IF y.d - x.d < 0 THEN -1 ELSE 1
    BY <1>1, <1>5
  <2>2. /\ y.d < x.d => y.d <= full.d /\ more.d < y.d
        /\ ~(y.d < x.d) => full.d <= y.d /\ y.d < more.d
    BY <1>1, <1>9, <1>10
  <2> QED BY <1>5, <1>6, <1>7, <2>1, <2>2, AddsBackIs
<1> QED BY <1>4, <1>11

\* A day is added on the clock: if its hour is the same, the clock shows as
\* much more, for the first time.
LEMMA DaysOnClock ==
  ASSUME ClockChangesWithinDays, NEW x \in Moment, x.valid, NEW k \in Int,
         NEW z, z = add(x, k, "day")
  PROVE  /\ Alike(z, x)
         /\ k = 0 => z = x
         /\ k # 0 /\ hour(z) = hour(x) => Clock(z) = Clock(x) + k * MinutesPerDay /\ IsFirst(z)
<1>1. Alike(z, x)
  BY AddDay
<1>2. ASSUME k = 0 PROVE z = x
  <2>1. PICK dur0 : dur0 = [months |-> 0, days |-> 0, minutes |-> 0]
    OBVIOUS
  <2>2. Kept([u \in {"day"} |-> k]) = dur0
    BY <1>2, <2>1, KeptIs
  <2>3. dur0.months * 1 = 0 /\ dur0.days * 1 = 0 /\ dur0.minutes * 1 = 0
    BY <2>1
  <2>4. AddMonths(x, 0) = x /\ AddDays(x, 0) = x
    BY DEF AddMonths, AddDays
  <2>5. add(x, k, "day") = [x EXCEPT !.d = x.d + 0]
    BY <2>2, <2>3, <2>4 DEF add, addSubtract
  <2> QED BY <2>5 DEF Moment
<1>3. ASSUME k # 0, hour(z) = hour(x)
      PROVE  Clock(z) = Clock(x) + k * MinutesPerDay /\ IsFirst(z)
  <2>1. PICK c \in Int, n \in Int, t \in Int :
          /\ c = Clock(x) /\ n = DayOf(x) /\ t = c % MinutesPerDay
          /\ c = n * MinutesPerDay + t
    <3>1. PICK c \in Int : c = Clock(x)
      BY ShownType
    <3>2. c \div 1440 \in Int /\ c % 1440 \in Int /\ c = (c \div 1440) * 1440 + (c % 1440)
      BY SMT
    <3>3. DayOf(x) = c \div MinutesPerDay
      BY <3>1 DEF DayOf
    <3> QED BY <3>1, <3>2, <3>3 DEF MinutesPerDay
  <2>2. PICK e \in Int : e = n + k
    OBVIOUS
  <2>3. z = DateAt(x, e * MinutesPerDay + (Clock(x) % MinutesPerDay))
    BY <1>3, <2>1, <2>2, AddDayIs
  <2>4. Clock(z) = e * MinutesPerDay + (Clock(x) % MinutesPerDay) /\ IsFirst(z)
    BY <1>3, <2>3, ClockKept
  <2>5. e * MinutesPerDay + t = c + k * MinutesPerDay
    <3>1. e * 1440 + t = (n * 1440 + t) + k * 1440
      BY <2>2, SMT
    <3> QED BY <2>1, <3>1 DEF MinutesPerDay
  <2> QED BY <2>1, <2>4, <2>5
<1> QED BY <1>1, <1>2, <1>3

\* Whole days between two moments lead from the one to the other, if the hour
\* is not skipped on the way and the other is not the later of two moments
\* that are shown alike.
LEMMA DaysAddBack ==
  ASSUME ClockChangesWithinDays, NEW x \in Moment, x.valid, NEW y, Alike(y, x)
  PROVE  AddsBack(x, diff(y, x, "day"), "day", y)
<1>1. y \in Moment /\ Alike(x, y)
  BY DEF Alike
<1>2. PICK a \in Int, b \in Int, c \in Int, e \in Int :
        /\ a = x.d /\ b = y.d /\ c = Clock(x) /\ e = Clock(y)
        /\ b - a <= e - c + 60 /\ a - b <= c - e + 60
  <2>1. /\ Clock(x) \in Int /\ Clock(y) \in Int /\ x.d \in Int /\ y.d \in Int
        /\ y.d - x.d <= Clock(y) - Clock(x) + 60
    BY TimeByClock
  <2>2. x.d - y.d <= Clock(x) - Clock(y) + 60
    BY <1>1, TimeByClock
  <2> QED BY <2>1, <2>2
<1>3. PICK l \in Int : l = MinutesPerDay /\ 0 < l /\ 60 < l
  BY DEF MinutesPerDay
<1>4. PICK g \in Int : g = e - c
  OBVIOUS
<1>5. PICK n \in Int, p \in Int :
        /\ n = absFloor(g, l) /\ p = n * l
        /\ 0 <= g => 0 <= n /\ p <= g /\ g < p + l
        /\ g <= 0 => n <= 0 /\ g <= p /\ p - l < g
  <2>1. PICK n : n = absFloor(g, l)
    OBVIOUS
  <2>2. /\ n \in Int /\ n * l \in Int
        /\ 0 <= g => 0 <= n /\ n * l <= g /\ g < n * l + l
        /\ g <= 0 => n <= 0 /\ g <= n * l /\ n * l - l < g
    <3>1. n = absFloor(g, l) /\ 0 < l
      BY <1>3, <2>1
    <3> HIDE <1>3, <2>1
    <3> QED BY <3>1, FloorBounds
  <2> QED BY <2>1, <2>2
<1>6. diff(y, x, "day") = n
  <2>1. exactDiff(y, x, "day") = <<g, l>>
    BY <1>1, <1>2, <1>3, <1>4, DifferenceIs
  <2> QED BY <1>5, <2>1 DEF diff, WholeUnits
<1>7. PICK sign \in Int, k \in Int : sign = (IF b - a < 0 THEN -1 ELSE 1) /\ k = n + sign
  <2>1. PICK sign \in Int : sign = (IF b - a < 0 THEN -1 ELSE 1)
    OBVIOUS
  <2>2. PICK k \in Int : k = n + sign
    OBVIOUS
  <2> QED BY <2>1, <2>2
<1>8. PICK full, more : full = add(x, n, "day") /\ more = add(x, k, "day")
  OBVIOUS
<1>9. /\ Alike(full, x) /\ (n = 0 => full = x)
      /\ n # 0 /\ hour(full) = hour(x) => Clock(full) = c + p /\ IsFirst(full)
  BY <1>2, <1>3, <1>5, <1>8, DaysOnClock
<1>10. PICK q \in Int : q = k * l /\ q = p + sign * l
  <2>1. (n + sign) * l \in Int /\ (n + sign) * l = n * l + sign * l
    BY SMT
  <2> QED BY <1>5, <1>7, <2>1
<1>11. /\ Alike(more, x)
       /\ k # 0 /\ hour(more) = hour(x) => Clock(more) = c + q /\ IsFirst(more)
  BY <1>2, <1>3, <1>8, <1>10, DaysOnClock
<1>12. PICK f \in Int, h \in Int : f = full.d /\ h = more.d
  <2>1. full \in Moment /\ more \in Moment
    BY <1>9, <1>11 DEF Alike
  <2> QED BY <2>1 DEF Moment
\* In the direction of time the number of days is not negative, though the
\* clock may be put back by an hour in between.
<1>13. /\ sign = 1  => ~(b < a) /\ 0 <= n /\ k # 0 /\ e < c + q /\ (n # 0 => c + p <= e)
       /\ sign = -1 => b < a /\ n <= 0 /\ k # 0 /\ c + q < e /\ (n # 0 => e <= c + p)
       /\ sign \in {-1, 1}
  <2>1. g < 0 /\ 0 - l < g => n = 0
    <3> SUFFICES ASSUME g < 0, 0 - l < g, n < 0 PROVE FALSE
      BY <1>5
    <3>1. n * l <= -l
      <4>1. PICK r \in Int : n = -1 - r /\ 0 <= r
        <5>1. -1 - n \in Int /\ n = -1 - (-1 - n) /\ 0 <= -1 - n
          OBVIOUS
        <5> QED BY <5>1
      <4>2. 0 <= r * l
        BY <1>3, <4>1, SMT
      <4>3. (-1 - r) * l = -l - r * l
        BY SMT
      <4> QED BY <1>3, <4>1, <4>2, <4>3, SMT
    <3>2. n = absFloor(g, l) /\ -g < l /\ 0 < -g
      BY <1>4, <1>5
    <3>3. (-g) \div l = 0
      <4>1. PICK r \in Int : r = -g
        OBVIOUS
      <4>2. r \div l = 0
        <5>1. PICK o \in Int : o = 0
          OBVIOUS
        <5>2. 0 <= r /\ r < l /\ r = o * l + r
          BY <1>3, <3>2, <4>1, <5>1, SMT
        <5> QED BY <5>1, <5>2, QuotientIs
      <4> QED BY <4>1, <4>2
    <3> QED BY <3>2, <3>3 DEF absFloor
  <2>2. 0 <= g /\ g < l => n = 0
    <3> SUFFICES ASSUME 0 <= g, g < l PROVE n = 0
      OBVIOUS
    <3>1. PICK o \in Int : o = 0 /\ g = o * l + g
      <4>1. 0 \in Int /\ g = 0 * l + g
        BY SMT
      <4> QED BY <4>1
    <3>2. g \div l = 0
      BY <3>1, QuotientIs
    <3> QED BY <1>5, <3>2 DEF absFloor
  <2>3. n = 0 => p = 0
    BY <1>5, SMT
  <2>4. CASE b - a < 0
    <3>1. sign = -1 /\ k = n - 1 /\ q = p - l
      BY <1>7, <1>10, <2>4
    <3>2. g < 60
      BY <1>2, <1>4, <2>4
    <3>3. n <= 0
      BY <1>3, <1>5, <2>2, <3>2
    <3>4. b < a /\ k # 0 /\ sign # 1
      BY <2>4, <3>1, <3>3
    <3>5. p - l < g
      BY <1>3, <1>5, <2>2, <2>3, <3>2
    <3>6. n # 0 => g <= p
      BY <1>5, <3>3
    <3>7. c + q < e /\ (n # 0 => e <= c + p)
      BY <1>4, <3>1, <3>5, <3>6
    <3> QED BY <3>1, <3>3, <3>4, <3>7
  <2>5. CASE ~(b - a < 0)
    <3>1. sign = 1 /\ k = n + 1 /\ q = p + l
      BY <1>7, <1>10, <2>5
    <3>2. 0 - 60 <= g
      BY <1>2, <1>4, <2>5
    <3>3. 0 <= n
      BY <1>3, <1>5, <2>1, <3>2
    <3>4. ~(b < a) /\ k # 0 /\ sign # -1
      BY <2>5, <3>1, <3>3
    <3>5. g < p + l
      BY <1>3, <1>5, <2>1, <2>3, <3>2
    <3>6. n # 0 => p <= g
      BY <1>5, <3>3
    <3>7. e < c + q /\ (n # 0 => c + p <= e)
      BY <1>4, <3>1, <3>5, <3>6
    <3> QED BY <3>1, <3>3, <3>4, <3>7
  <2> QED BY <2>4, <2>5
<1>14. ASSUME hour(full) = hour(x), IsFirst(y)
       PROVE  (sign = 1 => f <= b) /\ (sign = -1 => b <= f)
  <2>1. CASE n = 0
    BY <1>2, <1>7, <1>9, <1>12, <2>1
  <2>2. CASE n # 0
    <3>1. Clock(full) = c + p /\ IsFirst(full) /\ full \in Moment /\ Alike(y, full) /\ Alike(full, y)
      BY <1>1, <1>9, <1>14, <2>2 DEF Alike
    <3>2. ASSUME sign = 1 PROVE f <= b
      <4>1. Clock(full) <= Clock(y)
        BY <1>2, <1>13, <2>2, <3>1, <3>2
      <4> QED BY <1>2, <1>12, <3>1, <4>1, FirstsOrderTime
    <3>3. ASSUME sign = -1 PROVE b <= f
      <4>1. Clock(y) <= Clock(full)
        BY <1>2, <1>13, <2>2, <3>1, <3>3
      <4> QED BY <1>1, <1>2, <1>12, <1>14, <3>1, <4>1, FirstsOrderTime
    <3> QED BY <3>2, <3>3
  <2> QED BY <2>1, <2>2
<1>15. ASSUME hour(more) = hour(x), IsFirst(y)
       PROVE  (sign = 1 => b < h) /\ (sign = -1 => h < b)
  <2>1. Clock(more) = c + q /\ IsFirst(more) /\ more \in Moment /\ Alike(y, more) /\ Alike(more, y)
    BY <1>1, <1>11, <1>13, <1>15 DEF Alike
  <2>2. ASSUME sign = 1 PROVE b < h
    <3>1. Clock(y) < Clock(more) /\ Clock(y) <= Clock(more)
      BY <1>2, <1>13, <2>1, <2>2
    <3> QED BY <1>1, <1>2, <1>12, <1>15, <2>1, <3>1, FirstsOrderTime
  <2>3. ASSUME sign = -1 PROVE h < b
    <3>1. Clock(more) < Clock(y) /\ Clock(more) <= Clock(y)
      BY <1>2, <1>13, <2>1, <2>3
    <3> QED BY <1>2, <1>12, <2>1, <3>1, FirstsOrderTime
  <2> QED BY <2>2, <2>3
<1>16. Since(y, x) = b - a /\ Since(full, y) = f - b /\ Since(more, y) = h - b
  <2>1. Alike(full, y) /\ Alike(more, y)
    BY <1>9, <1>11 DEF Alike
  <2> QED BY <1>1, <1>2, <1>12, <2>1, SinceAlike
<1>17. /\ sign * Since(full, y) <= 0 \/ hour(full) # hour(x) \/ ~IsFirst(y)
       /\ sign * Since(more, y) > 0 \/ hour(more) # hour(x) \/ ~IsFirst(y)
  <2>1. CASE sign = 1
    <3>1. 1 * (f - b) = f - b /\ 1 * (h - b) = h - b
      OBVIOUS
    <3> QED BY <1>14, <1>15, <1>16, <2>1, <3>1
  <2>2. CASE sign = -1
    <3>1. (-1) * (f - b) = b - f /\ (-1) * (h - b) = b - h
      OBVIOUS
    <3> QED BY <1>14, <1>15, <1>16, <2>2, <3>1
  <2> QED BY <1>13, <2>1, <2>2
<1>18. sign = IF Since(y, x) < 0 THEN -1 ELSE 1
  BY <1>7, <1>16
<1>19. AddsBack(x, n, "day", y)
  BY <1>7, <1>8, <1>17, <1>18, Zenon DEF AddsBack
<1> QED BY <1>6, <1>19

\* The first moment, shown as the other one is.
LEMMA ShownAsOther ==
  ASSUME CallsInv, OtherIsLocal, m.valid, other.valid
  PROVE  Alike(cloneWithOffset(m, other), other)
<1>1. m \in Moment /\ other \in Moment /\ OffsetIsShown(m) /\ ~other.isUTC
      /\ other.offset = 0 /\ other.week = m.week
  BY DEF CallsInv, TypeOK, OtherIsLocal
<1>2. cloneWithOffset(m, other) = local(m, FALSE)
  BY <1>1 DEF cloneWithOffset
<1>3. local(m, FALSE) \in Moment /\ local(m, FALSE).week = m.week
  <2>1. ASSUME NEW x \in Moment, NEW keepLocalTime \in BOOLEAN
        PROVE  local(x, keepLocalTime) \in Moment /\ local(x, keepLocalTime).week = x.week
    <3>1. PICK n \in Int : n = 0
      OBVIOUS
    <3> QED BY <3>1, OffsetType, OffsetKeepsWeek
  <2> QED BY <1>1, <2>1
<1>4. local(m, FALSE).isUTC = FALSE /\ local(m, FALSE).offset = 0 /\ local(m, FALSE).valid
  <2>1. CASE ~m.isUTC
    <3>1. local(m, FALSE) = m
      BY <2>1 DEF local
    <3> QED BY <1>1, <2>1, <3>1 DEF OffsetIsShown, Moment
  <2>2. CASE m.isUTC
    <3>1. mathAbs(0) < 16
      BY DEF mathAbs
    <3>2. 0 * 60 = 0
      BY SMT
    <3>3. setOffset(m, 0, FALSE) = [m EXCEPT !.offset = 0, !.isUTC = TRUE, !.d = m.d + 0 + (0 - m.offset)]
      BY <2>2, <3>1, <3>2 DEF setOffset
    <3>4. local(m, FALSE) = [setOffset(m, 0, FALSE) EXCEPT !.isUTC = FALSE]
      BY <2>2 DEF local
    <3> QED BY <1>1, <3>3, <3>4 DEF Moment
  <2> QED BY <2>1, <2>2
<1> QED BY <1>1, <1>2, <1>3, <1>4 DEF Alike, Moment

\* Days and hours the other way are the opposite.
LEMMA DaysNegated ==
  ASSUME NEW x \in Moment, NEW y, Alike(y, x), NEW unit \in {"day", "hour"}
  PROVE  diff(x, y, unit) = -diff(y, x, unit)
<1>1. y \in Moment /\ Alike(x, y)
  BY DEF Alike
<1>2. /\ Clock(x) \in Int /\ Clock(y) \in Int /\ x.d \in Int /\ y.d \in Int
  BY TimeByClock
<1>3. PICK l \in Int : 0 < l /\ l = IF unit = "day" THEN MinutesPerDay ELSE 60
  BY DEF MinutesPerDay
<1>4. PICK k \in Int : k = IF unit = "day" THEN Clock(x) - Clock(y) ELSE x.d - y.d
  BY <1>2
<1>5. -k = IF unit = "day" THEN Clock(y) - Clock(x) ELSE y.d - x.d
  BY <1>2, <1>4
<1>6. /\ exactDiff(x, y, "hour")  = <<x.d - y.d, 60>>
      /\ exactDiff(x, y, "day")   = <<Clock(x) - Clock(y), MinutesPerDay>>
      /\ exactDiff(y, x, "hour")  = <<y.d - x.d, 60>>
      /\ exactDiff(y, x, "day")   = <<Clock(y) - Clock(x), MinutesPerDay>>
  BY <1>1, DifferenceIs
<1>7. exactDiff(x, y, unit) = <<k, l>> /\ exactDiff(y, x, unit) = <<-k, l>>
  BY <1>3, <1>4, <1>5, <1>6
<1>8. diff(x, y, unit) = absFloor(k, l) /\ diff(y, x, unit) = absFloor(-k, l)
  BY <1>7 DEF diff, WholeUnits
<1>9. absFloor(k, l) \in Int /\ absFloor(-k, l) = -absFloor(k, l)
  BY <1>3, FloorNegated
<1> QED BY <1>8, <1>9

LEMMA DifferencesAddBackHolds ==
  ASSUME ClockChangesWithinDays, CallsInv, OtherIsLocal
  PROVE  DifferencesAddBack
<1> SUFFICES ASSUME m.valid, other.valid
             PROVE  LET that    == cloneWithOffset(m, other)
                        inMonth == date(that) <= 28 /\ date(other) <= 28
                    IN  \A unit \in {"year", "month", "day", "hour"} :
                          (unit \in {"day", "hour"} \/ ClocksCompare(that, other)) =>
                            /\ diff(that, other, unit) = -diff(other, that, unit)
                            /\ (unit \in {"day", "hour"} \/ inMonth) =>
                                 AddsBack(that, diff(other, that, unit), unit, other)
  BY DEF DifferencesAddBack
<1>1. PICK that : that = cloneWithOffset(m, other)
  OBVIOUS
<1>2. that \in Moment /\ that.valid /\ Alike(other, that)
  <2>1. Alike(that, other) /\ other \in Moment
    BY <1>1, ShownAsOther DEF CallsInv, TypeOK
  <2> QED BY <2>1 DEF Alike
<1>3. ASSUME NEW unit \in {"day", "hour"}
      PROVE  /\ diff(that, other, unit) = -diff(other, that, unit)
             /\ AddsBack(that, diff(other, that, unit), unit, other)
  <2>1. diff(that, other, unit) = -diff(other, that, unit)
    BY <1>2, DaysNegated
  <2>2. /\ AddsBack(that, diff(other, that, "day"), "day", other)
        /\ AddsBack(that, diff(other, that, "hour"), "hour", other)
    BY <1>2, DaysAddBack, HoursAddBack
  <2> QED BY <2>1, <2>2
<1>4. ASSUME NEW unit \in {"year", "month"}, ClocksCompare(that, other)
      PROVE  /\ diff(that, other, unit) = -diff(other, that, unit)
             /\ date(that) <= 28 /\ date(other) <= 28 =>
                  AddsBack(that, diff(other, that, unit), unit, other)
  BY <1>2, <1>4, MonthsNegated, MonthsAddBack
<1> QED BY <1>1, <1>3, <1>4

\* In every zone whose changes of the clock do not touch midnight and in every
\* year, the differences between two moments are true: as units that are added
\* again (moment.js:3826), as durations (moment.js:3544) and as the names a
\* calendar gives to days (moment.js:3709).
THEOREM DifferencesTold ==
  ASSUME ClockChangesWithinDays
  PROVE  Spec => []DifferencesAreTrue
<1>1. CallsInv /\ OtherIsLocal => DifferencesAreTrue
  BY DifferencesAddBackHolds, DurationsLeadThereHolds, CalendarNamesTheDayHolds DEF DifferencesAreTrue
<1> QED BY <1>1, PageInvariance, PTL
=============================================================================
