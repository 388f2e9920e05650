----------------------------- MODULE PureProofs -----------------------------
(***************************************************************************)
(* Proofs about the modules without concurrency, for every value of the    *)
(* constants: the calendar, decimals, timestamps, quantiles with their     *)
(* nearest rank, and the order of the options.  Each behaviour of MCPure   *)
(* is about one of them.                                                   *)
(***************************************************************************)
EXTENDS MCPure, FiniteSetTheorems, WellFoundedInduction, TLAPS

-----------------------------------------------------------------------------
(* Arithmetic.  The solver finds each of these on names, not on terms.     *)

(* Products of integers,                                                   *)
LEMMA TimesInt == \A a, b \in Int : a * b \in Int
  OBVIOUS

(* and of natural numbers.                                                 *)
LEMMA TimesNat == \A a, b \in Nat : a * b \in Nat
  OBVIOUS

(* The greater factor gives the greater product.                           *)
LEMMA TimesMonotone ==
  ASSUME NEW a \in Int, NEW b \in Int, NEW s \in Nat, a <= b
  PROVE  a * s <= b * s
  OBVIOUS

(* What a division leaves is less than the divisor.                        *)
LEMMA DivisionRange ==
  ASSUME NEW b \in Int, NEW s \in Nat \ {0}
  PROVE  /\ b \div s \in Int
         /\ (b \div s) * s <= b
         /\ b < (b \div s) * s + s
  OBVIOUS

(* A bound divided is a bound on the product.                              *)
LEMMA DivisionBounds ==
  ASSUME NEW w \in Int, NEW b \in Int, NEW s \in Nat \ {0}
  PROVE  w <= b \div s <=> w * s <= b
<1> DEFINE q == b \div s
<1>1. q \in Int /\ q * s <= b /\ b < q * s + s
  BY DivisionRange
<1> HIDE DEF q
<1>2. ASSUME w <= q PROVE w * s <= b
  BY <1>1, <1>2, TimesMonotone, TimesInt
<1>3. ASSUME w * s <= b, ~(w <= q) PROVE FALSE
  <2>1. q + 1 <= w
    BY <1>1, <1>3
  <2>2. (q + 1) * s <= w * s
    BY <2>1, <1>1, TimesMonotone
  <2>3. (q + 1) * s = q * s + s
    BY <1>1
  <2> QED
    BY <2>2, <2>3, <1>1, <1>3, TimesInt
<1> QED
  BY <1>2, <1>3 DEF q

(* Every set of numbers has a least one.                                   *)
LEMMA LeastNumber ==
  ASSUME NEW T, T \subseteq Nat, T # {}
  PROVE  \E x \in T : \A y \in T : x <= y
<1> DEFINE R == OpToRel(<, Nat)
<1>1. IsWellFoundedOn(R, Nat)
  BY NatLessThanWellFounded
<1>2. PICK x \in T : \A y \in T : << y, x >> \notin R
  <2> HIDE DEF R
  <2> QED
    BY <1>1, WFMin
<1>3. \A y \in T : ~(y < x)
  BY <1>2 DEF OpToRel
<1> QED
  BY <1>3

(* Induction, of a set.                                                    *)
LEMMA SetInduction ==
  ASSUME NEW S, 0 \in S, \A n \in Nat : n \in S => n + 1 \in S
  PROVE  \A n \in Nat : n \in S
<1> DEFINE T == Nat \ S
<1> SUFFICES ASSUME T # {} PROVE FALSE
  OBVIOUS
<1>1. PICK x \in T : \A y \in T : x <= y
  <2>1. T \subseteq Nat
    OBVIOUS
  <2> HIDE DEF T
  <2> QED
    BY <2>1, LeastNumber
<1>2. x \in Nat /\ x # 0
  OBVIOUS
<1>3. x - 1 \in Nat /\ x - 1 < x /\ (x - 1) + 1 = x
  BY <1>2
<1>4. x - 1 \in S
  BY <1>1, <1>3
<1>5. (x - 1) + 1 \in S
  BY <1>3, <1>4
<1> QED
  BY <1>3, <1>5

(* Powers of ten.                                                          *)
LEMMA TenPositive ==
  ASSUME NEW P \in Nat, \A n \in 0 .. P - 1 : 10 ^ (n + 1) = 10 * 10 ^ n
  PROVE  \A n \in 0 .. P : 10 ^ n \in Nat \ {0}
<1> DEFINE S == {n \in Nat : n <= P => 10 ^ n \in Nat \ {0}}
<1>1. 0 \in S
  <2>1. 10 ^ 0 = 1
    OBVIOUS
  <2> QED
    BY <2>1
<1>2. ASSUME NEW n \in Nat, n \in S PROVE n + 1 \in S
  <2>1. CASE n + 1 <= P
    <3>1. 10 ^ n \in Nat \ {0} /\ 10 ^ (n + 1) = 10 * 10 ^ n
      BY <1>2, <2>1
    <3> DEFINE a == 10 ^ n
               b == 10 ^ (n + 1)
    <3>2. a \in Nat \ {0} /\ b = 10 * a
      BY <3>1
    <3>3. b \in Nat \ {0}
      <4> HIDE DEF a, b
      <4> QED
        BY <3>2
    <3> QED
      BY <3>3
  <2>2. CASE ~(n + 1 <= P)
    BY <2>2
  <2> QED
    BY <2>1, <2>2
<1>3. \A n \in Nat : n \in S
  <2> HIDE DEF S
  <2> QED
    BY <1>1, <1>2, SetInduction
<1> QED
  BY <1>3

(* One more digit.                                                         *)
LEMMA OneMoreDigit ==
  \A a, b \in Nat : 10 * a + b \in Nat
  OBVIOUS

(* The number that the digits of a sequence amount to, over places that it *)
(* may not fill: the function of the code's loop exists.                   *)
LEMMA NumberExists ==
  ASSUME NEW e \in [Nat -> Nat]
  PROVE  \A P \in Nat : \E f \in [0 .. P -> Nat] :
           f = [n \in 0 .. P |-> IF n = 0 THEN 0 ELSE 10 * f[n - 1] + e[n]]
<1> DEFINE Filled(P) == \E f \in [0 .. P -> Nat] :
              f = [n \in 0 .. P |->
                     IF n = 0 THEN 0 ELSE 10 * f[n - 1] + e[n]]
           S == {P \in Nat : Filled(P)}
<1>1. 0 \in S
  <2> DEFINE f == [n \in 0 .. 0 |-> 0]
  <2>1. f \in [0 .. 0 -> Nat]
    OBVIOUS
  <2>2. f = [n \in 0 .. 0 |-> IF n = 0 THEN 0 ELSE 10 * f[n - 1] + e[n]]
    OBVIOUS
  <2> QED
    BY <2>1, <2>2
<1>2. ASSUME NEW P \in Nat, P \in S PROVE P + 1 \in S
  <2>1. PICK f \in [0 .. P -> Nat] :
          f = [n \in 0 .. P |->
                 IF n = 0 THEN 0 ELSE 10 * f[n - 1] + e[n]]
    BY <1>2
  <2>2. \A n \in 0 .. P :
          f[n] = IF n = 0 THEN 0 ELSE 10 * f[n - 1] + e[n]
    BY <2>1
  <2> DEFINE g == [n \in 0 .. P + 1 |->
                     IF n = P + 1 THEN 10 * f[P] + e[P + 1] ELSE f[n]]
  <2>3. g \in [0 .. P + 1 -> Nat]
    <3>1. f[P] \in Nat /\ e[P + 1] \in Nat
      OBVIOUS
    <3>2. 10 * f[P] + e[P + 1] \in Nat
      BY <3>1, OneMoreDigit
    <3>3. \A n \in 0 .. P + 1 : n # P + 1 => n \in 0 .. P
      OBVIOUS
    <3> QED
      BY <3>2, <3>3
  <2>4. ASSUME NEW n \in 0 .. P + 1
        PROVE  g[n] = IF n = 0 THEN 0 ELSE 10 * g[n - 1] + e[n]
    <3>1. CASE n = P + 1
      BY <3>1
    <3>2. CASE n \in 0 .. P
      <4>1. g[n] = f[n]
        BY <3>2
      <4>2. n # 0 =>
              n - 1 \in 0 .. P + 1 /\ n - 1 # P + 1 /\ g[n - 1] = f[n - 1]
        BY <3>2
      <4> HIDE DEF g
      <4> QED
        BY <3>2, <4>1, <4>2, <2>2
    <3> QED
      BY <3>1, <3>2
  <2>5. g = [n \in 0 .. P + 1 |->
               IF n = 0 THEN 0 ELSE 10 * g[n - 1] + e[n]]
    <3>1. g = [n \in 0 .. P + 1 |-> g[n]]
      OBVIOUS
    <3> HIDE DEF g
    <3> QED
      BY <3>1, <2>4
  <2>6. Filled(P + 1)
    <3> HIDE DEF g
    <3> WITNESS g \in [0 .. P + 1 -> Nat]
    <3> QED
      BY <2>5
  <2> HIDE DEF Filled
  <2> QED
    BY <2>6
<1>3. \A P \in Nat : P \in S
  <2> HIDE DEF S
  <2> QED
    BY <1>1, <1>2, SetInduction
<1> QED
  BY <1>3

(* The numbers of the first digits, of 0 up to P places.                   *)
Numbers(digits, P) ==
  LET number[n \in 0 .. P] ==
        IF n = 0 THEN 0
        ELSE 10 * number[n - 1] + (IF n <= Len(digits) THEN digits[n] ELSE 0)
  IN number

(* The two conversions of digits read such a number.                       *)
LEMMA FractionIsNumber ==
  ASSUME NEW digits PROVE FractionOf(digits) = Numbers(digits, Places)[Places]
  BY DEF FractionOf, Numbers

(* The nanoseconds of a timestamp do so too.                               *)
LEMMA NanosecondsIsNumber ==
  ASSUME NEW digits
  PROVE  nanoseconds(digits) = Numbers(digits, TimePlaces)[TimePlaces]
  BY DEF nanoseconds, Numbers

(* The function exists, so that its equation holds of it.                  *)
LEMMA NumbersUnfold ==
  ASSUME NEW P \in Nat, NEW digits, Len(digits) \in Nat,
         \A n \in 1 .. Len(digits) : digits[n] \in Nat
  PROVE  /\ Numbers(digits, P) \in [0 .. P -> Nat]
         /\ Numbers(digits, P)[0] = 0
         /\ \A n \in 1 .. P :
              Numbers(digits, P)[n]
                = 10 * Numbers(digits, P)[n - 1]
                    + (IF n <= Len(digits) THEN digits[n] ELSE 0)
<1> DEFINE e == [n \in Nat |->
                   IF n \in 1 .. Len(digits) THEN digits[n] ELSE 0]
           N == Numbers(digits, P)
<1>1. e \in [Nat -> Nat]
  OBVIOUS
<1>2. PICK f \in [0 .. P -> Nat] :
        f = [n \in 0 .. P |-> IF n = 0 THEN 0 ELSE 10 * f[n - 1] + e[n]]
  <2> HIDE DEF e
  <2> QED
    BY <1>1, NumberExists
<1>3. ASSUME NEW g
      PROVE  [n \in 0 .. P |-> IF n = 0 THEN 0 ELSE 10 * g[n - 1] + e[n]]
               = [n \in 0 .. P |->
                    IF n = 0 THEN 0
                    ELSE 10 * g[n - 1]
                      + (IF n <= Len(digits) THEN digits[n] ELSE 0)]
  OBVIOUS
<1>4. N = CHOOSE g : g = [n \in 0 .. P |->
                    IF n = 0 THEN 0
                    ELSE 10 * g[n - 1]
                      + (IF n <= Len(digits) THEN digits[n] ELSE 0)]
  BY DEF Numbers
<1>5. N = [n \in 0 .. P |->
                    IF n = 0 THEN 0
                    ELSE 10 * N[n - 1]
                      + (IF n <= Len(digits) THEN digits[n] ELSE 0)]
  <2>1. f = [n \in 0 .. P |->
                    IF n = 0 THEN 0
                    ELSE 10 * f[n - 1]
                      + (IF n <= Len(digits) THEN digits[n] ELSE 0)]
    BY <1>2, <1>3
  <2> HIDE DEF N
  <2> QED
    BY <1>4, <2>1
<1>6. \A n \in 0 .. P :
        N[n] = IF n = 0 THEN 0
               ELSE 10 * N[n - 1]
                      + (IF n <= Len(digits) THEN digits[n] ELSE 0)
  <2> HIDE DEF N
  <2> QED
    BY <1>5
<1> DEFINE S == {n \in Nat : n <= P => N[n] \in Nat}
<1>7. 0 \in S
  <2> HIDE DEF N
  <2> QED
    BY <1>6
<1>8. ASSUME NEW n \in Nat, n \in S PROVE n + 1 \in S
  <2> HIDE DEF N
  <2> SUFFICES ASSUME n + 1 <= P PROVE N[n + 1] \in Nat
    OBVIOUS
  <2>1. /\ n + 1 \in 0 .. P /\ n + 1 # 0 /\ (n + 1) - 1 = n
        /\ N[n] \in Nat
    BY <1>8
  <2>2. (IF n + 1 <= Len(digits) THEN digits[n + 1] ELSE 0) \in Nat
    BY <2>1
  <2>3. N[n + 1] = 10 * N[n]
                 + (IF n + 1 <= Len(digits) THEN digits[n + 1] ELSE 0)
    BY <1>6, <2>1
  <2> QED
    BY <2>1, <2>2, <2>3
<1>9. \A n \in Nat : n \in S
  <2> HIDE DEF S
  <2> QED
    BY <1>7, <1>8, SetInduction
<1>10. \A n \in 0 .. P : N[n] \in Nat
  BY <1>9
<1>11. N \in [0 .. P -> Nat]
  <2> HIDE DEF N
  <2> QED
    BY <1>5, <1>10
<1> HIDE DEF N
<1>12. /\ N \in [0 .. P -> Nat]
       /\ N[0] = 0
       /\ \A n \in 1 .. P :
            N[n] = 10 * N[n - 1] + (IF n <= Len(digits) THEN digits[n] ELSE 0)
  <2>1. 0 \in 0 .. P
    OBVIOUS
  <2>2. \A n \in 1 .. P : n \in 0 .. P /\ n # 0
    OBVIOUS
  <2> QED
    BY <1>6, <1>11, <2>1, <2>2
<1> QED
  BY <1>12 DEF N
(* Powers of two.                                                          *)
LEMMA TwoPositive ==
  ASSUME NEW P \in Nat, \A n \in 0 .. P - 1 : 2 ^ (n + 1) = 2 * 2 ^ n
  PROVE  \A n \in 0 .. P : 2 ^ n \in Nat \ {0}
<1> DEFINE S == {n \in Nat : n <= P => 2 ^ n \in Nat \ {0}}
<1>1. 0 \in S
  <2>1. 2 ^ 0 = 1
    OBVIOUS
  <2> QED
    BY <2>1
<1>2. ASSUME NEW n \in Nat, n \in S PROVE n + 1 \in S
  <2>1. CASE n + 1 <= P
    <3>1. 2 ^ n \in Nat \ {0} /\ 2 ^ (n + 1) = 2 * 2 ^ n
      BY <1>2, <2>1
    <3> DEFINE a == 2 ^ n
               b == 2 ^ (n + 1)
    <3>2. a \in Nat \ {0} /\ b = 2 * a
      BY <3>1
    <3>3. b \in Nat \ {0}
      <4> HIDE DEF a, b
      <4> QED
        BY <3>2
    <3> QED
      BY <3>3
  <2>2. CASE ~(n + 1 <= P)
    BY <2>2
  <2> QED
    BY <2>1, <2>2
<1>3. \A n \in Nat : n \in S
  <2> HIDE DEF S
  <2> QED
    BY <1>1, <1>2, SetInduction
<1> QED
  BY <1>3

-----------------------------------------------------------------------------
(* The calendar.  Over the steps of the walk the formula grows by one; the *)
(* solver sees it on linear terms with division by 4, 5, 100 and 400.      *)

(* Some day of some month, counted from the first day on.                  *)
OnCalendar ==
  /\ year \in Nat /\ year >= FirstYear
  /\ month \in 1 .. 12 /\ day \in 1 .. LastDay
  /\ days \in Nat

(* The last day of a month of any year: LastDay for the walked one.        *)
LastDayOf(y, m) ==
  IF m \in LongMonths THEN 31
  ELSE IF m # 2 THEN 30
  ELSE IF y % 400 = 0 \/ (y % 4 = 0 /\ y % 100 \in 1 .. 99) THEN 29 ELSE 28

(* The formula gives integers.                                             *)
LEMMA FormulaType ==
  ASSUME NEW y \in Nat, y >= 1970, NEW m \in 1 .. 12, NEW d \in Nat
  PROVE  days_from_civil(y, m, d) \in Int
  BY DEF days_from_civil, year_from_march

(* From a day to the next of the month.                                    *)
LEMMA FormulaNextDay ==
  ASSUME NEW y \in Nat, y >= 1970, NEW m \in 1 .. 12, NEW d \in Nat
  PROVE  days_from_civil(y, m, d + 1) = days_from_civil(y, m, d) + 1
  BY DEF days_from_civil, year_from_march

(* From New Year's Eve to New Year's Day.                                  *)
LEMMA FormulaNextYear ==
  ASSUME NEW y \in Nat, y >= 1970
  PROVE  days_from_civil(y + 1, 1, 1) = days_from_civil(y, 12, 31) + 1
  BY DEF days_from_civil, year_from_march

(* The epoch.                                                              *)
LEMMA FormulaEpoch == days_from_civil(1970, 1, 1) = 0
  BY DEF days_from_civil, year_from_march

(* From the last day of February, leap or not, to the first of March,      *)
(* where the formula's year begins.                                        *)
LEMMA FormulaMarch ==
  ASSUME NEW y \in Nat, y >= 1970
  PROVE  days_from_civil(y, 3, 1)
           = days_from_civil(y, 2, LastDayOf(y, 2)) + 1
  BY DEF days_from_civil, year_from_march, LastDayOf, LongMonths

(* From the last day of a month to the first of the next.                  *)
LEMMA FormulaNextMonth ==
  ASSUME NEW y \in Nat, y >= 1970, NEW m \in 1 .. 11
  PROVE  days_from_civil(y, m + 1, 1)
           = days_from_civil(y, m, LastDayOf(y, m)) + 1
<1>1. CASE m = 2
  BY <1>1, FormulaMarch
<1>2. CASE m # 2
  BY <1>2 DEF days_from_civil, year_from_march, LastDayOf, LongMonths
<1> QED
  BY <1>1, <1>2

(* The first day.                                                          *)
LEMMA CalendarInit == Init => OnCalendar /\ FormulaCountsDays
<1> SUFFICES ASSUME Init PROVE OnCalendar /\ FormulaCountsDays
  OBVIOUS
<1>1. year = FirstYear /\ month = 1 /\ day = 1 /\ days = 0
  BY DEF Init, InitCalendar
<1>2. OnCalendar
  BY <1>1, CalendarAssumption DEF OnCalendar, LastDay, LongMonths
<1>3. days_from_civil(FirstYear, 1, 1) \in Int
  BY FormulaType, CalendarAssumption
<1> QED
  BY <1>1, <1>2, <1>3, FormulaEpoch DEF FormulaCountsDays

(* A day of the walk; or the behaviour is about something else.            *)
LEMMA CalendarStep ==
  OnCalendar /\ FormulaCountsDays /\ [Next]_pureVars
    => OnCalendar' /\ FormulaCountsDays'
<1> SUFFICES ASSUME OnCalendar, FormulaCountsDays, [Next]_pureVars
             PROVE  OnCalendar' /\ FormulaCountsDays'
  OBVIOUS
<1>t. /\ year \in Nat /\ year >= 1970 /\ year >= FirstYear
      /\ month \in 1 .. 12 /\ day \in Nat /\ day \in 1 .. LastDay
      /\ days \in Nat
  BY CalendarAssumption DEF OnCalendar, LastDay
<1>f. /\ days_from_civil(FirstYear, 1, 1) \in Int
      /\ days_from_civil(year, month, day)
           = days_from_civil(FirstYear, 1, 1) + days
  BY FormulaType, CalendarAssumption DEF FormulaCountsDays
<1>l. LastDay = LastDayOf(year, month)
  BY DEF LastDay, LastDayOf, LeapYear
<1>1. CASE NextDay
  <2>1. days_from_civil(year, month, day + 1)
          = days_from_civil(year, month, day) + 1
    BY <1>t, FormulaNextDay
  <2>2. OnCalendar'
    BY <1>1, <1>t DEF NextDay, OnCalendar, LastDay, LeapYear
  <2> QED
    BY <1>1, <1>t, <1>f, <2>1, <2>2, FormulaEpoch
    DEF NextDay, FormulaCountsDays
<1>2. CASE NextMonth
  <2>1. days_from_civil(year, month + 1, 1)
          = days_from_civil(year, month, day) + 1
    BY <1>2, <1>t, <1>l, FormulaNextMonth DEF NextMonth
  <2>2. OnCalendar'
    BY <1>2, <1>t DEF NextMonth, OnCalendar, LastDay
  <2> QED
    BY <1>2, <1>t, <1>f, <2>1, <2>2, FormulaEpoch
    DEF NextMonth, FormulaCountsDays
<1>3. CASE NextYear
  <2>0. day = 31
    BY <1>3 DEF NextYear, LastDay, LongMonths
  <2>1. days_from_civil(year + 1, 1, 1)
          = days_from_civil(year, month, day) + 1
    BY <1>3, <1>t, <2>0, FormulaNextYear DEF NextYear
  <2>2. OnCalendar'
    BY <1>3, <1>t, CalendarAssumption
    DEF NextYear, OnCalendar, LastDay, LongMonths
  <2> QED
    BY <1>3, <1>t, <1>f, <2>1, <2>2, FormulaEpoch
    DEF NextYear, FormulaCountsDays
<1>4. CASE UNCHANGED calendarVars
  <2>1. /\ year' = year /\ month' = month /\ day' = day /\ days' = days
    BY <1>4 DEF calendarVars
  <2> QED
    BY <2>1 DEF OnCalendar, FormulaCountsDays, LastDay, LeapYear
<1>5. NextDay \/ NextMonth \/ NextYear \/ UNCHANGED calendarVars
  BY DEF Next, pureVars, NextCalendar, Over
<1> QED
  BY <1>1, <1>2, <1>3, <1>4, <1>5

(* The walk stays in the calendar, counted by the formula.                 *)
LEMMA CalendarWalk == Spec => [](OnCalendar /\ FormulaCountsDays)
  BY CalendarInit, CalendarStep, PTL DEF Spec

(* days_from_civil counts the days: from the first year on, for as long as *)
(* one walks, every day is one more than the day before.                   *)
THEOREM FormulaCorrect == Spec => []FormulaCountsDays
  BY CalendarWalk, PTL

-----------------------------------------------------------------------------
(* Decimals.                                                               *)

(* The sizes: one power of two below the unsigned type's, and the scale.   *)
LEMMA Sizes ==
  /\ decimal_scale \in Nat \ {0}
  /\ 2 ^ (Width - 1) \in Nat \ {0}
  /\ 2 ^ Width = 2 * 2 ^ (Width - 1)
<1>1. Places \in Nat /\ Width \in Nat /\ Width - 1 \in Nat
      /\ Width - 1 \in 0 .. Width - 1 /\ Width - 1 \in 0 .. Width
      /\ Places \in 0 .. Places /\ (Width - 1) + 1 = Width
  BY DecimalAssumption
<1>2. \A n \in 0 .. Places : 10 ^ n \in Nat \ {0}
  BY <1>1, DecimalPowers, TenPositive
<1>3. \A n \in 0 .. Width : 2 ^ n \in Nat \ {0}
  BY <1>1, DecimalPowers, TwoPositive
<1>4. 2 ^ ((Width - 1) + 1) = 2 * 2 ^ (Width - 1)
  BY <1>1, DecimalPowers
<1> QED
  BY <1>1, <1>2, <1>3, <1>4 DEF decimal_scale

(* Guarded by the two tests, no operation wraps: they hold exactly if the  *)
(* exact magnitude is within the bound.                                    *)
LEMMA TestsAreExact ==
  ASSUME NEW w \in Nat, NEW f \in Nat, NEW s \in Nat \ {0},
         NEW b \in Nat, NEW M \in Nat, b < M
  PROVE  /\ w <= b \div s => (w * s) % M = w * s
         /\ (/\ w \in 0 .. M - 1 /\ w <= b \div s
             /\ f <= (b - ((w * s) % M)) % M)
              <=> w * s + f <= b
<1> DEFINE p == w * s
<1>1. p \in Nat /\ w <= p
  <2>1. p \in Nat
    OBVIOUS
  <2>2. w * 1 <= w * s
    OBVIOUS
  <2> QED
    BY <2>1, <2>2
<1>2. w <= b \div s <=> p <= b
  BY DivisionBounds
<1> HIDE DEF p
<1>3. p <= b => p % M = p /\ (b - p) % M = b - p
  BY <1>1
<1>4. w <= b \div s => p % M = p
  BY <1>2, <1>3
<1>5. (/\ w \in 0 .. M - 1 /\ w <= b \div s /\ f <= (b - (p % M)) % M)
         <=> p + f <= b
  <2>1. CASE p <= b
    <3>1. (b - (p % M)) % M = b - p
      BY <1>3, <2>1
    <3> HIDE DEF p
    <3> QED
      BY <1>1, <1>2, <2>1, <3>1
  <2>2. CASE ~(p <= b)
    BY <1>1, <1>2, <2>2
  <2> QED
    BY <2>1, <2>2
<1> QED
  BY <1>4, <1>5 DEF p

(* A text as the program meets it.                                         *)
IsText(t) ==
  /\ t.sign \in {"", "+", "-"} /\ t.whole \in Nat
  /\ Len(t.fraction) \in Nat
  /\ \A n \in 1 .. Len(t.fraction) : t.fraction[n] \in Nat

(* What the digits behind the point amount to.                             *)
LEMMA FractionType ==
  ASSUME NEW t, IsText(t) PROVE FractionOf(t.fraction) \in Nat
<1>1. Places \in Nat /\ Places \in 0 .. Places
  BY DecimalAssumption
<1>2. Numbers(t.fraction, Places) \in [0 .. Places -> Nat]
  BY <1>1, NumbersUnfold DEF IsText
<1> QED
  BY <1>1, <1>2, FractionIsNumber

(* The magnitude of a text, without wrapping.                              *)
Magnitude(t) == t.whole * decimal_scale + FractionOf(t.fraction)

(* The two tests accept what is in range, and nothing wraps.               *)
LEMMA ParsesExactly ==
  ASSUME NEW t, IsText(t)
  PROVE  /\ Magnitude(t) \in Nat
         /\ Parses(t) <=> /\ Len(t.fraction) <= Places
                          /\ Magnitude(t) <= limit(t.sign = "-")
         /\ Parses(t) => parse_decimal(t) = IF t.sign = "-" THEN -Magnitude(t)
                                            ELSE Magnitude(t)
<1> DEFINE f == FractionOf(t.fraction)
           b == limit(t.sign = "-")
           M == 2 ^ Width
           s == decimal_scale
           w == t.whole
<1>1. /\ w \in Nat /\ f \in Nat /\ s \in Nat \ {0}
      /\ b \in Nat /\ M \in Nat /\ b < M
  <2>1. 2 ^ (Width - 1) \in Nat \ {0} /\ M = 2 * 2 ^ (Width - 1)
    BY Sizes
  <2>2. b \in Nat /\ b < M
    <3> DEFINE h == 2 ^ (Width - 1)
    <3>1. h \in Nat \ {0} /\ M = 2 * h
      BY <2>1
    <3>2. b = h \/ b = h - 1
      BY DEF limit
    <3> HIDE DEF h, b, M
    <3> QED
      BY <3>1, <3>2
  <2>3. w \in Nat /\ f \in Nat
    BY FractionType DEF IsText
  <2>4. s \in Nat \ {0} /\ M \in Nat
    <3> DEFINE h == 2 ^ (Width - 1)
    <3>1. h \in Nat \ {0} /\ M = 2 * h
      BY <2>1
    <3> HIDE DEF h, M
    <3>2. M \in Nat
      BY <3>1
    <3> QED
      BY <3>2, Sizes
  <2> HIDE DEF w, f, s, b, M
  <2> QED
    BY <2>2, <2>3, <2>4
<1>2. Magnitude(t) = w * s + f
  BY DEF Magnitude
<1>3. Parses(t) <=>
        /\ Len(t.fraction) <= Places
        /\ w \in 0 .. M - 1 /\ w <= b \div s
        /\ f <= (b - ((w * s) % M)) % M
  BY DEF Parses, Wrapped, Unsigned
<1>4. parse_decimal(t) = IF t.sign = "-" THEN -(((w * s) % M) + f)
                         ELSE ((w * s) % M) + f
  BY DEF parse_decimal, Wrapped
<1> HIDE DEF f, b, M, s, w
<1>5. w * s + f \in Nat
  BY <1>1
<1>6. /\ w <= b \div s => (w * s) % M = w * s
      /\ (/\ w \in 0 .. M - 1 /\ w <= b \div s
          /\ f <= (b - ((w * s) % M)) % M)
           <=> w * s + f <= b
  BY <1>1, TestsAreExact
<1>7. Parses(t) <=> Len(t.fraction) <= Places /\ Magnitude(t) <= b
  BY <1>2, <1>3, <1>6
<1>8. Parses(t) => (w * s) % M = w * s
  BY <1>3, <1>6
<1> QED
  BY <1>2, <1>4, <1>5, <1>7, <1>8 DEF b

(* A sequence of digits, defined place by place.                           *)
LEMMA SequenceOfPlaces ==
  ASSUME NEW n \in Nat, NEW S, NEW e \in [1 .. n -> S]
  PROVE  Len(e) = n
  OBVIOUS

(* The last place that is not zero.                                        *)
LEMMA LastNonzero ==
  ASSUME NEW P \in Nat, NEW e \in [1 .. P -> Nat]
  PROVE  \E n \in 0 .. P : /\ n > 0 => e[n] # 0
                           /\ \A k \in n + 1 .. P : e[k] = 0
<1> DEFINE T == {n \in 0 .. P : \A k \in n + 1 .. P : e[k] = 0}
<1>1. P \in T
  OBVIOUS
<1>2. PICK n \in T : \A m \in T : n <= m
  <2>1. T \subseteq Nat /\ T # {}
    BY <1>1
  <2> HIDE DEF T
  <2> QED
    BY <2>1, LeastNumber
<1>3. ASSUME n > 0, e[n] = 0 PROVE FALSE
  <2>1. n - 1 \in 0 .. P /\ (n - 1) + 1 = n /\ ~(n <= n - 1)
    BY <1>3
  <2>2. \A k \in n .. P : k = n \/ k \in n + 1 .. P
    OBVIOUS
  <2>3. n - 1 \in T
    BY <1>3, <2>1, <2>2
  <2> QED
    BY <1>2, <2>1, <2>3
<1> QED
  BY <1>3

(* Ten places further left.                                                *)
LEMMA NextPlace ==
  ASSUME NEW x \in Nat, NEW a \in Nat \ {0}
  PROVE  10 * (x \div (10 * a)) + ((x \div a) % 10) = x \div a
<1> DEFINE y == x \div a
           z == x \div (10 * a)
<1>1. 10 * a \in Nat \ {0}
  OBVIOUS
<1>2. y \in Int /\ y * a <= x /\ x < y * a + a
  BY DivisionRange
<1>3. z \in Int /\ z * (10 * a) <= x /\ x < z * (10 * a) + 10 * a
  <2> DEFINE b == 10 * a
  <2>1. b \in Nat \ {0}
    BY <1>1
  <2> HIDE DEF b
  <2>2. /\ x \div b \in Int
        /\ (x \div b) * b <= x
        /\ x < (x \div b) * b + b
    BY <2>1, DivisionRange
  <2> QED
    BY <2>2 DEF b
<1> HIDE DEF y, z
<1>4. z * (10 * a) = (10 * z) * a
  BY <1>3
<1>5. 10 * z <= y
  <2>1. CASE ~(10 * z <= y)
    <3>1. y + 1 <= 10 * z
      BY <2>1, <1>2, <1>3
    <3>2. (y + 1) * a <= (10 * z) * a
      BY <3>1, <1>2, <1>3, TimesMonotone
    <3>3. (y + 1) * a = y * a + a
      BY <1>2
    <3> QED
      BY <3>2, <3>3, <1>2, <1>3, <1>4, TimesInt
  <2> QED
    BY <2>1
<1>6. y <= 10 * z + 9
  <2>1. CASE ~(y <= 10 * z + 9)
    <3>1. 10 * z + 10 <= y
      BY <2>1, <1>2, <1>3
    <3>2. (10 * z + 10) * a <= y * a
      BY <3>1, <1>2, <1>3, TimesMonotone
    <3>3. (10 * z + 10) * a = (10 * z) * a + 10 * a
      BY <1>3
    <3> QED
      BY <3>2, <3>3, <1>2, <1>3, <1>4, TimesInt
  <2> QED
    BY <2>1
<1>7. 10 * z + (y % 10) = y
  BY <1>2, <1>3, <1>5, <1>6
<1> QED
  BY <1>7 DEF y, z

(* The digits a fraction is written with, and that they amount to it.      *)
LEMMA DigitsAmountTo ==
  ASSUME NEW x \in Nat, x < decimal_scale
  PROVE  /\ Len(FractionDigits(x)) \in 0 .. Places
         /\ \A n \in 1 .. Len(FractionDigits(x)) : FractionDigits(x)[n] \in Nat
         /\ FractionOf(FractionDigits(x)) = x
<1> DEFINE digit(n) == (x \div 10 ^ (Places - n)) % 10
           e == [n \in 1 .. Places |-> digit(n)]
           chosen == CHOOSE n \in 0 .. Places :
                       /\ n > 0 => digit(n) # 0
                       /\ \A k \in n + 1 .. Places : digit(k) = 0
           d == FractionDigits(x)
<1>p. Places \in Nat
  BY DecimalAssumption
<1>10. \A n \in 0 .. Places : 10 ^ n \in Nat \ {0}
  BY <1>p, DecimalPowers, TenPositive
<1>11. \A n \in 0 .. Places : 10 ^ (Places - n) \in Nat \ {0}
  <2>1. \A n \in 0 .. Places : Places - n \in 0 .. Places
    BY <1>p
  <2> QED
    BY <2>1, <1>10
<1>1. \A n \in 1 .. Places : digit(n) \in Nat
  <2> SUFFICES ASSUME NEW n \in 1 .. Places PROVE digit(n) \in Nat
    OBVIOUS
  <2> DEFINE a == 10 ^ (Places - n)
  <2>1. a \in Nat \ {0}
    BY <1>11
  <2> HIDE DEF a
  <2>2. x \div a \in Int
    BY <2>1
  <2>3. (x \div a) % 10 \in Nat
    BY <2>2
  <2> QED
    BY <2>3 DEF a
<1>2. e \in [1 .. Places -> Nat]
  BY <1>1
<1>3. \A n \in 1 .. Places : e[n] = digit(n)
  OBVIOUS
<1>4. \E n \in 0 .. Places : /\ n > 0 => digit(n) # 0
                             /\ \A k \in n + 1 .. Places : digit(k) = 0
  <2>1. \E n \in 0 .. Places : /\ n > 0 => e[n] # 0
                               /\ \A k \in n + 1 .. Places : e[k] = 0
    <3> HIDE DEF e
    <3> QED
      BY <1>p, <1>2, LastNonzero
  <2> HIDE DEF e, digit
  <2>2. \A n \in 0 .. Places :
          /\ n > 0 => n \in 1 .. Places
          /\ \A k \in n + 1 .. Places : k \in 1 .. Places
    BY <1>p
  <2> QED
    BY <2>1, <2>2, <1>3
<1>5. /\ chosen \in 0 .. Places
      /\ \A k \in chosen + 1 .. Places : digit(k) = 0
  <2> HIDE DEF digit
  <2> QED
    BY <1>4
<1>6. d = [n \in 1 .. chosen |-> digit(n)]
  BY DEF FractionDigits
<1> HIDE DEF chosen, d, digit
<1>7. \A n \in 1 .. chosen : n \in 1 .. Places
  BY <1>p, <1>5
<1>8. d \in [1 .. chosen -> Nat]
  BY <1>1, <1>6, <1>7
<1>9. Len(d) = chosen
  <2>1. chosen \in Nat
    BY <1>5
  <2> QED
    BY <1>8, <2>1, SequenceOfPlaces
<1>12. \A n \in 1 .. Len(d) : d[n] \in Nat
  BY <1>8, <1>9
<1>13. \A n \in 1 .. Places :
         (IF n <= Len(d) THEN d[n] ELSE 0) = digit(n)
  <2> SUFFICES ASSUME NEW n \in 1 .. Places
               PROVE  (IF n <= chosen THEN d[n] ELSE 0) = digit(n)
    BY <1>9
  <2>1. CASE n <= chosen
    BY <2>1, <1>6
  <2>2. CASE ~(n <= chosen)
    <3>1. n \in chosen + 1 .. Places
      BY <2>2, <1>5
    <3> QED
      BY <2>2, <3>1, <1>5
  <2> QED
    BY <2>1, <2>2
<1> DEFINE N == Numbers(d, Places)
           left(n) == x \div 10 ^ (Places - n)
<1>14. /\ N[0] = 0
       /\ \A n \in 1 .. Places :
            N[n] = 10 * N[n - 1] + digit(n)
  <2>1. Len(d) \in Nat
    BY <1>5, <1>9
  <2>2. /\ N[0] = 0
        /\ \A n \in 1 .. Places :
             N[n] = 10 * N[n - 1] + (IF n <= Len(d) THEN d[n] ELSE 0)
    BY <1>p, <1>12, <2>1, NumbersUnfold
  <2> HIDE DEF N
  <2> QED
    BY <2>2, <1>13
<1>15. left(0) = 0
  <2> DEFINE s == 10 ^ (Places - 0)
  <2>1. s = decimal_scale
    BY <1>p DEF decimal_scale
  <2>2. s \in Nat \ {0} /\ x < s
    BY <2>1, Sizes
  <2>3. x \div s = 0
    <3> HIDE DEF s
    <3> QED
      BY <2>2
  <2> QED
    BY <2>3
<1>16. ASSUME NEW n \in 1 .. Places
       PROVE  10 * left(n - 1) + digit(n) = left(n)
  <2> DEFINE a == 10 ^ (Places - n)
  <2>1. a \in Nat \ {0}
    BY <1>p, <1>11
  <2>2. 10 ^ (Places - (n - 1)) = 10 * a
    <3>1. /\ Places - n \in 0 .. Places - 1
          /\ Places - (n - 1) = (Places - n) + 1
      BY <1>p
    <3> QED
      BY <3>1, DecimalPowers
  <2>3. 10 * (x \div (10 * a)) + ((x \div a) % 10) = x \div a
    <3> HIDE DEF a
    <3> QED
      BY <2>1, NextPlace
  <2>4. left(n - 1) = x \div (10 * a)
    BY <2>2
  <2>5. left(n) = x \div a /\ digit(n) = (x \div a) % 10
    BY DEF digit
  <2> HIDE DEF a, left
  <2> QED
    BY <2>3, <2>4, <2>5
<1> DEFINE S == {n \in Nat : n <= Places => N[n] = left(n)}
<1> HIDE DEF N, left
<1>17. 0 \in S
  BY <1>14, <1>15
<1>18. ASSUME NEW n \in Nat, n \in S PROVE n + 1 \in S
  <2> SUFFICES ASSUME n + 1 <= Places PROVE N[n + 1] = left(n + 1)
    OBVIOUS
  <2>1. /\ n + 1 \in 1 .. Places /\ (n + 1) - 1 = n /\ n <= Places
    BY <1>p
  <2>2. N[n] = left(n)
    BY <1>18, <2>1
  <2>3. N[n + 1] = 10 * N[n] + digit(n + 1)
    BY <1>14, <2>1
  <2>4. 10 * left(n) + digit(n + 1) = left(n + 1)
    BY <1>16, <2>1
  <2> QED
    BY <2>2, <2>3, <2>4
<1>19. \A n \in Nat : n \in S
  <2> HIDE DEF S
  <2> QED
    BY <1>17, <1>18, SetInduction
<1>20. N[Places] = left(Places)
  BY <1>p, <1>19
<1>21. left(Places) = x
  <2>1. Places - Places = 0
    BY <1>p
  <2>2. 10 ^ 0 = 1 /\ x \div 1 = x
    OBVIOUS
  <2> QED
    BY <2>1, <2>2 DEF left
<1>22. FractionOf(d) = x
  BY <1>20, <1>21, FractionIsNumber DEF N
<1> QED
  BY <1>5, <1>9, <1>12, <1>22 DEF d

(* What format_decimal takes the sign off, the least value included.       *)
LEMMA MagnitudeOf ==
  ASSUME NEW v \in Signed
  PROVE  /\ magnitude_of(v) = IF v < 0 THEN -v ELSE v
         /\ magnitude_of(v) \in Nat /\ v \in Int
         /\ magnitude_of(v) <= limit(v < 0)
<1> DEFINE h == 2 ^ (Width - 1)
           M == 2 ^ Width
<1>1. h \in Nat \ {0} /\ M = 2 * h
  BY Sizes
<1>2. v \in -h .. h - 1
  BY DEF Signed
<1>3. magnitude_of(v) = IF v < 0 THEN (0 - (v % M)) % M ELSE v
  BY DEF magnitude_of, Wrapped
<1>4. limit(v < 0) = IF v < 0 THEN h ELSE h - 1
  BY DEF limit
<1> HIDE DEF h, M
<1>5. CASE v < 0
  <2>1. v % M = v + M
    BY <1>1, <1>2, <1>5
  <2>2. (0 - (v + M)) % M = -v
    BY <1>1, <1>2, <1>5
  <2> QED
    BY <1>1, <1>2, <1>3, <1>4, <1>5, <2>1, <2>2
<1>6. CASE ~(v < 0)
  BY <1>1, <1>2, <1>3, <1>4, <1>6
<1> QED
  BY <1>5, <1>6

(* What format_decimal writes is a text that parse_decimal takes for the   *)
(* value it was given.                                                     *)
LEMMA FormattedParses ==
  ASSUME NEW v \in Signed
  PROVE  /\ IsText(format_decimal(v))
         /\ Parses(format_decimal(v))
         /\ parse_decimal(format_decimal(v)) = v
<1> DEFINE t == format_decimal(v)
           g == magnitude_of(v)
           s == decimal_scale
<1>1. /\ g = IF v < 0 THEN -v ELSE v
      /\ g \in Nat /\ v \in Int /\ g <= limit(v < 0)
  BY MagnitudeOf
<1>2. s \in Nat \ {0}
  BY Sizes
<1>3. /\ t.sign = IF v < 0 THEN "-" ELSE ""
      /\ t.whole = g \div s
      /\ t.fraction = FractionDigits(g % s)
  BY DEF format_decimal
<1>4. /\ g \div s \in Nat /\ g % s \in Nat /\ g % s < s
      /\ (g \div s) * s + (g % s) = g
  <2> HIDE DEF g, s
  <2> QED
    BY <1>1, <1>2
<1>5. /\ Len(t.fraction) \in 0 .. Places
      /\ \A n \in 1 .. Len(t.fraction) : t.fraction[n] \in Nat
      /\ FractionOf(t.fraction) = g % s
  BY <1>3, <1>4, DigitsAmountTo
<1>6. Len(t.fraction) \in Nat /\ Len(t.fraction) <= Places
  BY <1>5, DecimalAssumption
<1>7. IsText(t)
  BY <1>3, <1>4, <1>5, <1>6 DEF IsText
<1>8. Magnitude(t) = g
  BY <1>3, <1>4, <1>5 DEF Magnitude
<1>9. /\ t.sign = "-" <=> v < 0
      /\ limit(t.sign = "-") = limit(v < 0)
  <2>1. t.sign = "-" <=> v < 0
    <3> HIDE DEF t
    <3> QED
      BY <1>3
  <2> HIDE DEF t
  <2> QED
    BY <2>1 DEF limit
<1>10. Parses(t)
  BY <1>1, <1>6, <1>7, <1>8, <1>9, ParsesExactly
<1>11. parse_decimal(t) = IF t.sign = "-" THEN -g ELSE g
  BY <1>7, <1>8, <1>10, ParsesExactly
<1>12. parse_decimal(t) = v
  <2> HIDE DEF t, g
  <2> QED
    BY <1>1, <1>9, <1>11
<1> QED
  BY <1>7, <1>10, <1>12

(* Of a text without too many places, the reference is ten times the       *)
(* magnitude, with its sign.                                               *)
LEMMA ExactMagnitude ==
  ASSUME NEW t, IsText(t), Len(t.fraction) <= Places
  PROVE  Exact(t) = IF t.sign = "-" THEN -(10 * Magnitude(t))
                    ELSE 10 * Magnitude(t)
<1> DEFINE f == FractionOf(t.fraction)
           p == t.whole * decimal_scale
<1>1. f \in Nat /\ p \in Nat
  <2>1. t.whole \in Nat /\ decimal_scale \in Nat
    BY Sizes DEF IsText
  <2> QED
    BY <2>1, FractionType, TimesNat
<1>2. Magnitude(t) = p + f
  BY DEF Magnitude
<1>3. ~(Len(t.fraction) > Places)
  <2>1. Len(t.fraction) \in Nat /\ Places \in Nat
    BY DecimalAssumption DEF IsText
  <2> QED
    BY <2>1
<1>4. Exact(t) = IF t.sign = "-" THEN -(p * 10 + (10 * f + 0))
                 ELSE p * 10 + (10 * f + 0)
  BY <1>3 DEF Exact
<1> HIDE DEF p, f
<1> QED
  BY <1>1, <1>2, <1>4

(* The stages of a conversion: what a value was written as while the text  *)
(* is being read, and the value of a behaviour that began with one.        *)
Stages ==
  /\ state \in {"text", "parsed", "rejected", "value", "formatted"}
  /\ state # "value" => IsText(text)
  /\ state \in {"value", "formatted"} => value \in Signed
  /\ state = "formatted" => text = format_decimal(value)

FromValue ==
  "value" \in DOMAIN given =>
    state \in {"value", "formatted", "parsed"} /\ value = given.value

DecimalInv == Stages /\ FromValue /\ ParseIsExact

(* A text to start with, or a value.                                       *)
LEMMA DecimalInit == Init => DecimalInv
<1> SUFFICES ASSUME Init PROVE DecimalInv
  OBVIOUS
<1>1. CASE /\ state = "text" /\ text \in Texts
           /\ given = [text |-> text]
  <2>1. IsText(text)
    <3>1. /\ text.sign \in {"", "+", "-"} /\ text.whole \in Nat
          /\ text.fraction \in UNION {[1 .. n -> Digit] :
                                     n \in 0 .. Places + 1}
      <4>1. text \in [sign : {"", "+", "-"}, whole : 0 .. MaxWhole,
                      fraction : UNION {[1 .. n -> Digit] :
                                          n \in 0 .. Places + 1}]
        BY <1>1 DEF Texts
      <4>2. \A n \in 0 .. MaxWhole : n \in Nat
        BY DecimalAssumption
      <4> QED
        BY <4>1, <4>2
    <3>2. PICK n \in 0 .. Places + 1 : text.fraction \in [1 .. n -> Digit]
      BY <3>1
    <3>3. n \in Nat
      BY DecimalAssumption
    <3>4. text.fraction \in [1 .. n -> Nat]
      <4>1. Digit \subseteq Nat
        BY DecimalAssumption
      <4> QED
        BY <3>2, <4>1
    <3>5. Len(text.fraction) = n
      BY <3>3, <3>4, SequenceOfPlaces
    <3> QED
      BY <3>1, <3>3, <3>4, <3>5 DEF IsText
  <2>2. "value" \notin DOMAIN given
    BY <1>1
  <2> QED
    BY <1>1, <2>1, <2>2 DEF DecimalInv, Stages, FromValue, ParseIsExact
<1>2. CASE /\ state = "value" /\ value \in Signed
           /\ given = [value |-> value]
  BY <1>2 DEF DecimalInv, Stages, FromValue, ParseIsExact
<1> QED
  BY <1>1, <1>2 DEF Init, InitDecimal

(* Reading a text.                                                         *)
LEMMA ParseStep == DecimalInv /\ Parse => DecimalInv'
<1> SUFFICES ASSUME DecimalInv, Parse PROVE DecimalInv'
  OBVIOUS
<1>1. IsText(text) /\ IsText(text') /\ text' = text /\ given' = given
  BY DEF DecimalInv, Stages, Parse
<1>2. state = "formatted" =>
        /\ Parses(text) /\ parse_decimal(text) = value
  <2>1. state = "formatted" => value \in Signed /\ text = format_decimal(value)
    BY DEF DecimalInv, Stages
  <2> QED
    BY <2>1, FormattedParses
<1>3. "value" \in DOMAIN given =>
        state = "formatted" /\ value = given.value
  BY DEF DecimalInv, FromValue, Parse
<1> DEFINE h == 2 ^ (Width - 1)
           m == Magnitude(text)
<1>4. h \in Nat \ {0} /\ m \in Nat
  BY <1>1, Sizes, ParsesExactly
<1>5. limit(text.sign = "-") = IF text.sign = "-" THEN h ELSE h - 1
  BY DEF limit
<1>6. Signed = -h .. h - 1
  BY DEF Signed
<1>7. CASE Parses(text)
  <2>1. state' = "parsed" /\ value' = parse_decimal(text)
    BY <1>7 DEF Parse
  <2>2. /\ Len(text.fraction) <= Places
        /\ m <= limit(text.sign = "-")
        /\ value' = IF text.sign = "-" THEN -m ELSE m
    BY <1>1, <1>7, <2>1, ParsesExactly
  <2>3. Exact(text) = IF text.sign = "-" THEN -(10 * m) ELSE 10 * m
    BY <1>1, <2>2, ExactMagnitude
  <2> HIDE DEF h, m
  <2>4. value' \in Signed /\ value' * 10 = Exact(text)
    <3>1. CASE text.sign = "-"
      BY <3>1, <1>4, <1>5, <1>6, <2>2, <2>3
    <3>2. CASE text.sign # "-"
      BY <3>2, <1>4, <1>5, <1>6, <2>2, <2>3
    <3> QED
      BY <3>1, <3>2
  <2>5. ParseIsExact'
    BY <1>1, <2>1, <2>4 DEF ParseIsExact, Exact, Signed
  <2>6. FromValue'
    BY <1>1, <1>2, <1>3, <2>1 DEF FromValue
  <2>7. Stages'
    BY <1>1, <2>1 DEF Stages
  <2> QED
    BY <2>5, <2>6, <2>7 DEF DecimalInv
<1>8. CASE ~Parses(text)
  <2>1. state' = "rejected" /\ value' = value
    BY <1>8 DEF Parse
  <2>2. "value" \notin DOMAIN given
    BY <1>2, <1>3, <1>8
  <2>3. \/ Len(text.fraction) > Places
        \/ Exact(text) < -h * 10
        \/ Exact(text) > (h - 1) * 10
    <3>1. CASE Len(text.fraction) <= Places
      <4>1. ~(m <= limit(text.sign = "-"))
        BY <1>1, <1>8, <3>1, ParsesExactly
      <4>2. Exact(text) = IF text.sign = "-" THEN -(10 * m) ELSE 10 * m
        BY <1>1, <3>1, ExactMagnitude
      <4> HIDE DEF h, m
      <4>3. CASE text.sign = "-"
        BY <4>1, <4>2, <4>3, <1>4, <1>5
      <4>4. CASE text.sign # "-"
        BY <4>1, <4>2, <4>4, <1>4, <1>5
      <4> QED
        BY <4>3, <4>4
    <3>2. CASE ~(Len(text.fraction) <= Places)
      <4>1. Len(text.fraction) \in Nat /\ Places \in Nat
        BY <1>1, DecimalAssumption DEF IsText
      <4> QED
        BY <3>2, <4>1
    <3> QED
      BY <3>1, <3>2
  <2>4. ParseIsExact'
    BY <1>1, <2>1, <2>3 DEF ParseIsExact, Exact
  <2>5. FromValue' /\ Stages'
    BY <1>1, <2>1, <2>2 DEF FromValue, Stages
  <2> QED
    BY <2>4, <2>5 DEF DecimalInv
<1> QED
  BY <1>7, <1>8

(* Writing a value.                                                        *)
LEMMA FormatStep == DecimalInv /\ Format => DecimalInv'
<1> SUFFICES ASSUME DecimalInv, Format PROVE DecimalInv'
  OBVIOUS
<1>1. /\ state = "value" /\ state' = "formatted"
      /\ text' = format_decimal(value)
      /\ value' = value /\ given' = given /\ value \in Signed
  BY DEF DecimalInv, Stages, Format
<1>2. IsText(text')
  BY <1>1, FormattedParses
<1>3. FromValue
  BY DEF DecimalInv
<1>4. text' = format_decimal(value')
  BY <1>1
<1> QED
  BY <1>1, <1>2, <1>3, <1>4 DEF DecimalInv, Stages, FromValue, ParseIsExact

(* The stages are kept, whatever the behaviour is about.                   *)
LEMMA DecimalStep == DecimalInv /\ [Next]_pureVars => DecimalInv'
<1> SUFFICES ASSUME DecimalInv, [Next]_pureVars PROVE DecimalInv'
  OBVIOUS
<1>1. CASE UNCHANGED decimalVars
  <2>1. state' = state /\ text' = text /\ value' = value /\ given' = given
    BY <1>1 DEF decimalVars
  <2> QED
    BY <2>1 DEF DecimalInv, Stages, FromValue, ParseIsExact, Exact
<1>2. Parse \/ Format \/ UNCHANGED decimalVars
  BY DEF Next, pureVars, NextDecimal, Done
<1> QED
  BY <1>1, <1>2, ParseStep, FormatStep

(* The invariant of the conversions.                                       *)
LEMMA DecimalInvariant == Spec => []DecimalInv
  BY DecimalInit, DecimalStep, PTL DEF Spec

(* parse_decimal accepts exactly the numbers in range, and none of its     *)
(* unsigned products, differences and sums wraps.                          *)
THEOREM ParseCorrect == Spec => []ParseIsExact
<1>1. DecimalInv => ParseIsExact
  BY DEF DecimalInv
<1> QED
  BY <1>1, DecimalInvariant, PTL

(* What format_decimal writes, parse_decimal reads back.                   *)
THEOREM RoundTripCorrect == Spec => []RoundTrip
<1>1. DecimalInv => RoundTrip
  BY DEF DecimalInv, FromValue, RoundTrip
<1> QED
  BY <1>1, DecimalInvariant, PTL

-----------------------------------------------------------------------------
(* Timestamps.                                                             *)

(* The table of the months and the leap years is the walk's.               *)
LEMMA MonthLength == OnCalendar => days_in_month(year, month) = LastDay
<1> SUFFICES ASSUME OnCalendar PROVE days_in_month(year, month) = LastDay
  OBVIOUS
<1>1. year \in Nat /\ month \in 1 .. 12
  BY DEF OnCalendar
<1>2. is_leap_year(year) <=> LeapYear
  BY <1>1 DEF is_leap_year, LeapYear
<1> QED
  BY <1>1, <1>2 DEF days_in_month, LastDay, LongMonths

(* No day of the walk is before the epoch.                                 *)
LEMMA FormulaNatural ==
  ASSUME NEW y \in Nat, y >= 1970
  PROVE  days_from_civil(y, 1, 1) \in Nat
  BY DEF days_from_civil, year_from_march

(* Days, hours, minutes and seconds, added up or multiplied out.           *)
LEMMA SecondsMultipliedOut ==
  ASSUME NEW w \in Nat, NEW h \in Nat, NEW m \in Nat, NEW s \in Nat,
         NEW H \in Nat, NEW M \in Nat, NEW S \in Nat
  PROVE  /\ w * (H * M * S) + h * (M * S) + m * S + s
              = ((w * H + h) * M + m) * S + s
         /\ ((w * H + h) * M + m) * S + s \in Nat
<1>1. w * H + h \in Nat
  OBVIOUS
<1>2. (w * H + h) * M + m \in Nat
  <2> DEFINE a == w * H + h
  <2> HIDE DEF a
  <2>1. a \in Nat
    BY <1>1 DEF a
  <2>2. a * M + m \in Nat
    BY <2>1
  <2> QED
    BY <2>2 DEF a
<1>3. ((w * H + h) * M + m) * S + s \in Nat
  <2> DEFINE a == (w * H + h) * M + m
  <2>1. a \in Nat
    BY <1>2
  <2> HIDE DEF a
  <2>2. a * S + s \in Nat
    BY <2>1
  <2> QED
    BY <2>2 DEF a
<1>4. w * (H * M * S) + h * (M * S) + m * S + s
        = ((w * H + h) * M + m) * S + s
  OBVIOUS
<1> QED
  BY <1>3, <1>4

(* With the fraction taken off the limit first, neither the product nor    *)
(* the sum wraps.                                                          *)
LEMMA FitsExactly ==
  ASSUME NEW s \in Nat, NEW f \in Nat, NEW p \in Nat \ {0}, NEW L \in Nat
  PROVE  /\ s <= (L - f) \div p <=> s * p + f <= L
         /\ s * p + f <= L => (s * p + f) % (L + 1) = s * p + f
<1>1. L - f \in Int /\ s * p \in Nat
  OBVIOUS
<1>2. s <= (L - f) \div p <=> s * p <= L - f
  BY <1>1, DivisionBounds
<1> DEFINE q == s * p
<1> HIDE DEF q
<1>3. q <= L - f <=> q + f <= L
  BY <1>1 DEF q
<1>4. q + f <= L => (q + f) % (L + 1) = q + f
  BY <1>1 DEF q
<1> QED
  BY <1>2, <1>3, <1>4 DEF q

(* The digits behind the point.                                            *)
LEMMA NanosecondsType ==
  ASSUME NEW fraction \in Fractions
  PROVE  /\ nanoseconds(fraction) \in Nat
         /\ Len(fraction) \in Nat
<1>1. TimePlaces \in Nat /\ TimePlaces \in 0 .. TimePlaces
      /\ TimePlaces + 1 \in Nat /\ TimeDigit \subseteq Nat
  BY CalendarAssumption
<1>2. PICK n \in 0 .. TimePlaces + 1, d \in TimeDigit :
        fraction = [k \in 1 .. n |-> d]
  BY DEF Fractions
<1>3. n \in Nat /\ fraction \in [1 .. n -> Nat]
  BY <1>1, <1>2
<1>4. Len(fraction) = n
  BY <1>3, SequenceOfPlaces
<1>5. Numbers(fraction, TimePlaces) \in [0 .. TimePlaces -> Nat]
  BY <1>1, <1>3, <1>4, NumbersUnfold
<1> QED
  BY <1>1, <1>3, <1>4, <1>5, NanosecondsIsNumber

(* Every day of the walk, with every time of the day.                      *)
LEMMA TimestampExact ==
  OnCalendar /\ FormulaCountsDays => TimestampIsExact
<1> SUFFICES ASSUME OnCalendar, FormulaCountsDays PROVE TimestampIsExact
  OBVIOUS
<1>1. /\ year \in Nat /\ year >= 1970 /\ month \in 1 .. 12
      /\ day \in 1 .. LastDay /\ days \in Nat /\ LastDay \in Nat
  BY CalendarAssumption DEF OnCalendar, LastDay
<1>2. days_in_month(year, month) = LastDay
  BY MonthLength
<1>3. day = LastDay => ~DateAccepted(year, month, day + 1)
  BY <1>1, <1>2 DEF DateAccepted
<1>4. DateAccepted(year, month, day)
  BY <1>1, <1>2 DEF DateAccepted
<1> DEFINE w == days_from_civil(FirstYear, 1, 1) + days
           p == 10 ^ TimePlaces
<1>5. w \in Nat
  <2>1. days_from_civil(FirstYear, 1, 1) \in Nat
    BY FormulaNatural, CalendarAssumption
  <2> QED
    BY <1>1, <2>1
<1>6. days_from_civil(year, month, day) = w
  BY DEF FormulaCountsDays
<1>7. p \in Nat \ {0}
  <2>1. TimePlaces \in Nat /\ TimePlaces \in 0 .. TimePlaces
    BY CalendarAssumption
  <2> QED
    BY <2>1, CalendarPowers, TenPositive
<1>8. Hours \in Nat /\ Minutes \in Nat /\ Seconds \in Nat /\ TimeLimit \in Nat
  BY CalendarAssumption
<1>9. ASSUME NEW fraction \in Fractions, NEW t \in Times
      PROVE  LET ns == nanoseconds(fraction)
                 seconds == seconds_of(days_from_civil(year, month, day), t)
                 exact == (((w * Hours + t.hour) * Minutes + t.minute)
                             * Seconds + t.second) * 10 ^ TimePlaces + ns
             IN IF /\ DateAccepted(year, month, day)
                   /\ TimeAccepted(t, fraction) /\ Fits(seconds, ns)
                THEN /\ parse_timestamp_ns(seconds, ns) = exact
                     /\ exact <= TimeLimit
                ELSE \/ t.hour = Hours \/ t.minute = Minutes
                     \/ t.second = Seconds
                     \/ Len(fraction) > TimePlaces
                     \/ exact > TimeLimit
  <2> DEFINE ns == nanoseconds(fraction)
             sum == ((w * Hours + t.hour) * Minutes + t.minute) * Seconds
                      + t.second
             seconds == seconds_of(days_from_civil(year, month, day), t)
  <2>1. /\ t.hour \in 0 .. Hours /\ t.minute \in 0 .. Minutes
        /\ t.second \in 0 .. Seconds
    BY DEF Times
  <2>2. seconds = sum /\ sum \in Nat
    <3>1. t.hour \in Nat /\ t.minute \in Nat /\ t.second \in Nat
      BY <2>1, <1>8
    <3>2. seconds = w * (Hours * Minutes * Seconds)
                      + t.hour * (Minutes * Seconds)
                      + t.minute * Seconds + t.second
      BY <1>6 DEF seconds_of
    <3> HIDE DEF w
    <3> QED
      BY <3>1, <3>2, <1>5, <1>8, SecondsMultipliedOut
  <2>3. ns \in Nat /\ Len(fraction) \in Nat
    BY NanosecondsType
  <2>4. /\ Fits(seconds, ns) <=> sum * p + ns <= TimeLimit
        /\ sum * p + ns <= TimeLimit =>
             parse_timestamp_ns(seconds, ns) = sum * p + ns
    <3>1. /\ Fits(seconds, ns) <=> sum <= (TimeLimit - ns) \div p
          /\ parse_timestamp_ns(seconds, ns)
               = (sum * p + ns) % (TimeLimit + 1)
      BY <2>2 DEF Fits, parse_timestamp_ns
    <3> HIDE DEF sum, p, ns, seconds
    <3> QED
      BY <3>1, <2>2, <2>3, <1>7, <1>8, FitsExactly
  <2>5. sum * p + ns \in Int
    <3> HIDE DEF sum, p, ns
    <3> QED
      BY <2>2, <2>3, <1>7
  <2>6. ~TimeAccepted(t, fraction) =>
          \/ t.hour = Hours \/ t.minute = Minutes \/ t.second = Seconds
          \/ Len(fraction) > TimePlaces
    <3>1. TimePlaces \in Nat
      BY CalendarAssumption
    <3> QED
      BY <2>1, <2>3, <3>1, <1>8 DEF TimeAccepted
  <2> HIDE DEF ns, seconds
  <2> DEFINE exact == sum * p + ns
  <2>7. exact = sum * 10 ^ TimePlaces + ns
    OBVIOUS
  <2>8. exact \in Int /\ (~(exact <= TimeLimit) => exact > TimeLimit)
    <3> HIDE DEF exact
    <3>1. exact \in Int
      BY <2>5 DEF exact
    <3> QED
      BY <3>1, <1>8
  <2> HIDE DEF exact, sum, p
  <2>9. IF /\ DateAccepted(year, month, day)
           /\ TimeAccepted(t, fraction) /\ Fits(seconds, ns)
        THEN parse_timestamp_ns(seconds, ns) = exact /\ exact <= TimeLimit
        ELSE \/ t.hour = Hours \/ t.minute = Minutes
             \/ t.second = Seconds
             \/ Len(fraction) > TimePlaces
             \/ exact > TimeLimit
    BY <1>4, <2>4, <2>6, <2>8 DEF exact
  <2> QED
    BY <2>7, <2>9 DEF exact, sum, p, ns, seconds
<1>10. WalkedDayIsExact
  BY <1>9 DEF WalkedDayIsExact
<1> QED
  BY <1>3, <1>10 DEF TimestampIsExact

(* A timestamp is accepted exactly if it names a moment in range, and then *)
(* as its nanoseconds since 1970: nothing wraps, up to the last one.       *)
THEOREM TimestampCorrect == Spec => []TimestampIsExact
  BY CalendarWalk, TimestampExact, PTL

-----------------------------------------------------------------------------
(* Command lines.                                                          *)

(* One command line is the other with its pairs exchanged by s.            *)
Exchanged(u, v, s) ==
  /\ Len(v) = Len(u)
  /\ s \in [Pairs(u) -> Pairs(u)]
  /\ \A r \in Pairs(u) : /\ s[s[r]] = r
                         /\ NameAt(v, r) = NameAt(u, s[r])
                         /\ ValueAt(v, r) = ValueAt(u, s[r])

(* Exchanging them once more gives the first one back.                     *)
LEMMA ExchangedBack ==
  ASSUME NEW u, NEW v, NEW s, Exchanged(u, v, s)
  PROVE  Exchanged(v, u, s)
<1>1. Pairs(v) = Pairs(u)
  BY DEF Exchanged, Pairs
<1>2. \A r \in Pairs(u) : s[r] \in Pairs(u)
  BY DEF Exchanged
<1> QED
  BY <1>1, <1>2 DEF Exchanged

(* The exchanged one is well formed, and means the same.                   *)
LEMMA ExchangedMeansTheSame ==
  ASSUME NEW u, NEW v, NEW s, Exchanged(u, v, s), WellFormed(u)
  PROVE  WellFormed(v) /\ parse_arguments(v) = parse_arguments(u)
<1>1. /\ Len(v) = Len(u) /\ Pairs(v) = Pairs(u)
      /\ \A r \in Pairs(u) : /\ s[r] \in Pairs(u) /\ s[s[r]] = r
                             /\ NameAt(v, r) = NameAt(u, s[r])
                             /\ ValueAt(v, r) = ValueAt(u, s[r])
  BY DEF Exchanged, Pairs
<1>2. /\ Len(u) % 2 = 0
      /\ \A r \in Pairs(u) : NameAt(u, r) \in Option
      /\ \A r, q \in Pairs(u) : NameAt(u, r) = NameAt(u, q) => r = q
  BY DEF WellFormed, Unambiguous
<1>3. \A r, q \in Pairs(u) : NameAt(v, r) = NameAt(v, q) => r = q
  <2> SUFFICES ASSUME NEW r \in Pairs(u), NEW q \in Pairs(u),
                      NameAt(v, r) = NameAt(v, q)
               PROVE  r = q
    OBVIOUS
  <2>1. s[r] = s[q]
    BY <1>1, <1>2
  <2>2. s[s[r]] = r /\ s[s[q]] = q
    BY <1>1
  <2> QED
    BY <2>1, <2>2
<1>4. WellFormed(v)
  <2>1. \A r \in Pairs(u) : NameAt(v, r) \in Option
    BY <1>1, <1>2
  <2> QED
    BY <1>1, <1>2, <1>3, <2>1 DEF WellFormed, Unambiguous
<1>5. Given(v) = Given(u)
  <2>1. \A r \in Pairs(u) : NameAt(u, r) = NameAt(v, s[r])
    BY <1>1
  <2> QED
    BY <1>1, <2>1 DEF Given
<1>6. ASSUME NEW name \in Given(u)
      PROVE  ValueAt(v, CHOOSE r \in Pairs(v) : NameAt(v, r) = name)
               = ValueAt(u, CHOOSE r \in Pairs(u) : NameAt(u, r) = name)
  <2> DEFINE a == CHOOSE r \in Pairs(u) : NameAt(u, r) = name
             b == CHOOSE r \in Pairs(v) : NameAt(v, r) = name
  <2>1. a \in Pairs(u) /\ NameAt(u, a) = name
    BY DEF Given
  <2>2. b \in Pairs(u) /\ NameAt(v, b) = name
    <3>1. \E r \in Pairs(v) : NameAt(v, r) = name
      BY <1>5 DEF Given
    <3> QED
      BY <3>1, <1>1
  <2> HIDE DEF a, b
  <2>3. s[b] = a
    BY <1>1, <1>2, <2>1, <2>2
  <2>4. ValueAt(v, b) = ValueAt(u, a)
    BY <1>1, <2>2, <2>3
  <2> QED
    BY <2>4 DEF a, b
<1>7. parse_arguments(v) = parse_arguments(u)
  BY <1>5, <1>6 DEF parse_arguments
<1> QED
  BY <1>4, <1>7

(* With two pairs exchanged, name and value of each are where they were of *)
(* the other.                                                              *)
LEMMA PairsExchanged ==
  ASSUME NEW u, NEW n \in Nat, n = Len(u),
         NEW p \in Pairs(u), NEW q \in Pairs(u)
  PROVE  LET place(k) == IF (k + 1) \div 2 = p THEN k + 2 * (q - p)
                         ELSE IF (k + 1) \div 2 = q THEN k + 2 * (p - q)
                         ELSE k
         IN Exchanged(u, [k \in 1 .. n |-> u[place(k)]],
                      [r \in Pairs(u) |->
                         IF r = p THEN q ELSE IF r = q THEN p ELSE r])
<1> DEFINE place(k) == IF (k + 1) \div 2 = p THEN k + 2 * (q - p)
                       ELSE IF (k + 1) \div 2 = q THEN k + 2 * (p - q)
                       ELSE k
           v == [k \in 1 .. n |-> u[place(k)]]
           s == [r \in Pairs(u) |->
                   IF r = p THEN q ELSE IF r = q THEN p ELSE r]
<1>1. Pairs(u) = 1 .. n \div 2
  BY DEF Pairs
<1>2. \A r \in Pairs(u) : r \in Nat /\ r >= 1 /\ 2 * r <= n
  BY <1>1
<1>3. s \in [Pairs(u) -> Pairs(u)] /\ \A r \in Pairs(u) : s[s[r]] = r
  OBVIOUS
<1>4. Len(v) = n
  <2> DEFINE S == {u[place(k)] : k \in 1 .. n}
  <2>1. v \in [1 .. n -> S]
    OBVIOUS
  <2> HIDE DEF v, S
  <2> QED
    BY <2>1, SequenceOfPlaces
<1>5. ASSUME NEW r \in Pairs(u)
      PROVE  /\ NameAt(v, r) = NameAt(u, s[r])
             /\ ValueAt(v, r) = ValueAt(u, s[r])
  <2>1. /\ 2 * r \in 1 .. n /\ 2 * r - 1 \in 1 .. n
    BY <1>2
  <2>2. /\ ((2 * r - 1) + 1) \div 2 = r
        /\ (2 * r + 1) \div 2 = r
    BY <1>2
  <2>3. place(2 * r - 1) = 2 * s[r] - 1 /\ place(2 * r) = 2 * s[r]
    <3>1. r \in Nat /\ p \in Nat /\ q \in Nat
      BY <1>2
    <3>2. s[r] = IF r = p THEN q ELSE IF r = q THEN p ELSE r
      OBVIOUS
    <3> HIDE DEF s
    <3>3. CASE r = p
      BY <3>1, <3>2, <3>3, <2>2
    <3>4. CASE r # p /\ r = q
      BY <3>1, <3>2, <3>4, <2>2
    <3>5. CASE r # p /\ r # q
      BY <3>1, <3>2, <3>5, <2>2
    <3> QED
      BY <3>3, <3>4, <3>5
  <2>4. v[2 * r - 1] = u[place(2 * r - 1)] /\ v[2 * r] = u[place(2 * r)]
    BY <2>1
  <2> HIDE DEF v, s, place
  <2> QED
    BY <2>3, <2>4 DEF NameAt, ValueAt
<1>6. Exchanged(u, v, s)
  <2> HIDE DEF v, s
  <2> QED
    BY <1>3, <1>4, <1>5 DEF Exchanged
<1> QED
  BY <1>6

(* A command line has a length.                                            *)
ArgvType == argv \in Seq(Option \cup Argument)

(* Tokens are only appended.                                               *)
LEMMA ArgvInvariant == Spec => []ArgvType
<1>1. Init => ArgvType
  <2>1. Init => argv = << >>
    BY DEF Init, InitCommandLine
  <2>2. \A S : << >> \in Seq(S)
    OBVIOUS
  <2> QED
    BY <2>1, <2>2 DEF ArgvType
<1>2. ArgvType /\ [Next]_pureVars => ArgvType'
  <2> SUFFICES ASSUME ArgvType, [Next]_pureVars PROVE ArgvType'
    OBVIOUS
  <2>1. CASE AppendToken
    BY <2>1 DEF AppendToken, ArgvType
  <2>2. CASE UNCHANGED commandLineVars
    BY <2>2 DEF commandLineVars, ArgvType
  <2> QED
    BY <2>1, <2>2 DEF Next, pureVars, NextCommandLine, AllTokens
<1> QED
  BY <1>1, <1>2, PTL DEF Spec

(* Well-formed or not, with the same values: the same start.               *)
LEMMA SameStart ==
  ASSUME NEW u, NEW v, NEW s, Exchanged(u, v, s)
  PROVE  /\ Starts(command, u) <=> Starts(command, v)
         /\ Starts(command, u) => Values(command, u) = Values(command, v)
<1>1. WellFormed(u) <=> WellFormed(v)
  BY ExchangedBack, ExchangedMeansTheSame
<1>2. WellFormed(u) => parse_arguments(v) = parse_arguments(u)
  BY ExchangedMeansTheSame
<1>3. Starts(command, u) => WellFormed(u)
  BY DEF Starts
<1>4. Starts(command, v) => WellFormed(v)
  BY DEF Starts
<1>5. ASSUME WellFormed(u), WellFormed(v),
             parse_arguments(v) = parse_arguments(u)
      PROVE  /\ Starts(command, u) <=> Starts(command, v)
             /\ Values(command, u) = Values(command, v)
  BY <1>5 DEF Starts, Values
<1> QED
  BY <1>1, <1>2, <1>3, <1>4, <1>5

(* A command starts or fails, and gets the same values, whatever order its *)
(* options come in: emplace lets no option in twice.                       *)
THEOREM OrderCorrect == Spec => []OptionsInAnyOrder
<1>1. ArgvType => OptionsInAnyOrder
  <2> SUFFICES ASSUME ArgvType, NEW p \in Pairs(argv), NEW q \in Pairs(argv)
      PROVE
        LET place(k) == IF (k + 1) \div 2 = p THEN k + 2 * (q - p)
                        ELSE IF (k + 1) \div 2 = q THEN k + 2 * (p - q) ELSE k
            other == [k \in 1 .. Len(argv) |-> argv[place(k)]]
        IN /\ Starts(command, argv) <=> Starts(command, other)
           /\ Starts(command, argv) =>
                Values(command, argv) = Values(command, other)
    BY DEF OptionsInAnyOrder
  <2> DEFINE place(k) == IF (k + 1) \div 2 = p THEN k + 2 * (q - p)
                         ELSE IF (k + 1) \div 2 = q THEN k + 2 * (p - q)
                         ELSE k
             other == [k \in 1 .. Len(argv) |-> argv[place(k)]]
             s == [r \in Pairs(argv) |->
                     IF r = p THEN q ELSE IF r = q THEN p ELSE r]
  <2>1. Len(argv) \in Nat
    BY DEF ArgvType
  <2>2. Exchanged(argv, other, s)
    BY <2>1, PairsExchanged
  <2> HIDE DEF other, s
  <2>3. /\ Starts(command, argv) <=> Starts(command, other)
        /\ Starts(command, argv) =>
             Values(command, argv) = Values(command, other)
    BY <2>2, SameStart
  <2> QED
    BY <2>3 DEF other
<1> QED
  BY <1>1, ArgvInvariant, PTL

-----------------------------------------------------------------------------
(* The histogram.                                                          *)

(* Values are natural numbers.                                             *)
LEMMA ValueType == Value \subseteq Nat /\ 2 ^ Bits \in Nat \ {0}
<1>1. Bits \in Nat /\ Bits \in 0 .. Bits
  BY HistogramAssumption
<1>2. 2 ^ Bits \in Nat \ {0}
  BY <1>1, HistogramPowers, TwoPositive
<1> QED
  BY <1>2 DEF Value

(* Ascending, with so many values.                                         *)
Ascending(s) ==
  \A i, j \in 1 .. Len(s) : i <= j => s[i] <= s[j]

(* The values below one given are the first ones.                          *)
LEMMA BelowIsPrefix ==
  ASSUME NEW s \in Seq(Value), Ascending(s), NEW v \in Value
  PROVE  LET b == Cardinality({i \in 1 .. Len(s) : s[i] < v})
         IN /\ b \in 0 .. Len(s)
            /\ \A i \in 1 .. Len(s) : s[i] < v <=> i <= b
<1> DEFINE B == {i \in 1 .. Len(s) : s[i] < v}
           T == {b \in 0 .. Len(s) :
                   \A i \in b + 1 .. Len(s) : ~(s[i] < v)}
<1>0. Len(s) \in Nat
  OBVIOUS
<1>1. PICK b \in T : \A c \in T : b <= c
  <2>1. Len(s) \in T
    BY <1>0
  <2>2. T \subseteq Nat /\ T # {}
    BY <2>1, <1>0
  <2> HIDE DEF T
  <2> QED
    BY <2>2, LeastNumber
<1>2. b \in 0 .. Len(s) /\ \A i \in b + 1 .. Len(s) : ~(s[i] < v)
  OBVIOUS
<1>3. ASSUME b > 0 PROVE s[b] < v
  <2> SUFFICES ASSUME ~(s[b] < v) PROVE FALSE
    OBVIOUS
  <2>1. b - 1 \in 0 .. Len(s) /\ (b - 1) + 1 = b /\ ~(b <= b - 1)
    BY <1>0, <1>2, <1>3
  <2>2. \A i \in b .. Len(s) : i = b \/ i \in b + 1 .. Len(s)
    BY <1>0, <1>2
  <2>3. b - 1 \in T
    BY <1>2, <2>1, <2>2
  <2> QED
    BY <1>1, <2>1, <2>3
<1>4. \A i \in 1 .. Len(s) : s[i] \in Int
  <2>1. \A i \in 1 .. Len(s) : s[i] \in Value
    OBVIOUS
  <2>2. \A x \in Value : x \in Int
    BY ValueType
  <2> QED
    BY <2>1, <2>2
<1>5. ASSUME NEW i \in 1 .. Len(s) PROVE s[i] < v <=> i <= b
  <2>1. CASE i <= b
    <3>1. b \in 1 .. Len(s) /\ b > 0
      BY <2>1, <1>0, <1>2
    <3>2. s[i] <= s[b] /\ s[b] < v
      BY <3>1, <2>1, <1>3 DEF Ascending
    <3>3. s[i] \in Int /\ s[b] \in Int /\ v \in Int
      BY <3>1, <1>4, ValueType
    <3> QED
      BY <2>1, <3>2, <3>3
  <2>2. CASE ~(i <= b)
    <3>1. i \in b + 1 .. Len(s)
      BY <2>2, <1>0, <1>2
    <3> QED
      BY <2>2, <3>1, <1>2
  <2> QED
    BY <2>1, <2>2
<1>6. B = 1 .. b
  <2> HIDE DEF T
  <2>1. \A i \in 1 .. b : i \in 1 .. Len(s) /\ i <= b
    BY <1>0, <1>2
  <2>2. \A i \in 1 .. Len(s) : i <= b => i \in 1 .. b
    BY <1>0, <1>2
  <2> QED
    BY <1>5, <2>1, <2>2
<1>7. Cardinality(1 .. b) = b
  <2>1. b \in Int /\ 1 \in Int /\ b \in Nat
    BY <1>0, <1>2
  <2>2. Cardinality(1 .. b) = IF 1 > b THEN 0 ELSE b - 1 + 1
    BY <2>1, FS_Interval
  <2> QED
    BY <2>1, <2>2
<1> QED
  BY <1>2, <1>5, <1>6, <1>7

(* Two sequences, one behind the other.                                    *)
LEMMA OneBehindTheOther ==
  ASSUME NEW S, NEW z \in Seq(S), NEW y \in Seq(S)
  PROVE  /\ z \o y \in Seq(S) /\ Len(z \o y) = Len(z) + Len(y)
         /\ \A i \in 1 .. Len(z) + Len(y) :
              (z \o y)[i] = IF i <= Len(z) THEN z[i] ELSE y[i - Len(z)]
  OBVIOUS

(* Insert puts a value behind those below it, and the others behind it.    *)
LEMMA InsertPlaces ==
  ASSUME sorted \in Seq(Value), Ascending(sorted), NEW v \in Value
  PROVE  \E b \in 0 .. Len(sorted) :
           /\ \A i \in 1 .. Len(sorted) : sorted[i] < v <=> i <= b
           /\ Insert(v) \in Seq(Value)
           /\ Len(Insert(v)) = Len(sorted) + 1
           /\ \A i \in 1 .. Len(sorted) + 1 :
                Insert(v)[i] = IF i <= b THEN sorted[i]
                               ELSE IF i = b + 1 THEN v ELSE sorted[i - 1]
<1> DEFINE b == Cardinality({i \in 1 .. Len(sorted) : sorted[i] < v})
<1>1. /\ b \in 0 .. Len(sorted)
      /\ \A i \in 1 .. Len(sorted) : sorted[i] < v <=> i <= b
  BY BelowIsPrefix
<1>2. Insert(v) = SubSeq(sorted, 1, b) \o << v >>
                    \o SubSeq(sorted, b + 1, Len(sorted))
  BY DEF Insert
<1> HIDE DEF b
<1> DEFINE n == Len(sorted)
           x == SubSeq(sorted, 1, b)
           y == SubSeq(sorted, b + 1, n)
           z == x \o << v >>
<1>3. n \in Nat /\ b \in Nat /\ b <= n
  BY <1>1
<1>4. x \in Seq(Value) /\ Len(x) = b /\ \A i \in 1 .. b : x[i] = sorted[i]
  BY <1>3
<1>5. y \in Seq(Value) /\ Len(y) = n - b
      /\ \A i \in 1 .. n - b : y[i] = sorted[b + i]
  BY <1>3
<1> HIDE DEF x, y
<1>6. z \in Seq(Value) /\ Len(z) = b + 1 /\ z[b + 1] = v
      /\ \A i \in 1 .. b : z[i] = sorted[i]
  BY <1>3, <1>4
<1> HIDE DEF z
<1>7. z \o y \in Seq(Value) /\ Len(z \o y) = n + 1
  <2>1. Len(z) + Len(y) = n + 1
    BY <1>3, <1>5, <1>6
  <2> QED
    BY <2>1, <1>5, <1>6, OneBehindTheOther
<1>8. ASSUME NEW i \in 1 .. n + 1
      PROVE  (z \o y)[i] = IF i <= b THEN sorted[i]
                           ELSE IF i = b + 1 THEN v ELSE sorted[i - 1]
  <2>1. CASE i <= b + 1
    <3>1. i \in 1 .. Len(z)
      BY <2>1, <1>3, <1>6
    <3>2. (z \o y)[i] = z[i]
      BY <3>1, <1>5, <1>6
    <3> QED
      BY <2>1, <3>2, <1>3, <1>6
  <2>2. CASE ~(i <= b + 1)
    <3>1. /\ i - (b + 1) \in 1 .. n - b
          /\ b + (i - (b + 1)) = i - 1 /\ ~(i <= b) /\ i # b + 1
          /\ ~(i <= Len(z)) /\ i \in 1 .. Len(z) + Len(y)
      BY <2>2, <1>3, <1>5, <1>6
    <3>2. (z \o y)[i] = y[i - Len(z)]
      BY <3>1, <1>5, <1>6, OneBehindTheOther
    <3>4. (z \o y)[i] = y[i - (b + 1)]
      BY <3>2, <1>6
    <3>3. y[i - (b + 1)] = sorted[i - 1]
      BY <3>1, <1>5
    <3> QED
      BY <3>1, <3>4, <3>3
  <2> QED
    BY <2>1, <2>2
<1>9. Insert(v) = z \o y
  BY <1>2 DEF x, y, z
<1> QED
  BY <1>1, <1>7, <1>8, <1>9

(* With a value in its place, the order is kept.                           *)
LEMMA InsertedAscending ==
  ASSUME NEW n \in Nat, NEW u, NEW s, NEW v \in Int, NEW b \in Nat, b <= n,
         \A i \in 1 .. n : u[i] \in Int,
         \A i, j \in 1 .. n : i <= j => u[i] <= u[j],
         \A i \in 1 .. n : u[i] < v <=> i <= b,
         \A i \in 1 .. n + 1 : s[i] = IF i <= b THEN u[i]
                                      ELSE IF i = b + 1 THEN v ELSE u[i - 1]
  PROVE  \A i, j \in 1 .. n + 1 : i <= j => s[i] <= s[j]
<1> SUFFICES ASSUME NEW i \in 1 .. n + 1, NEW j \in 1 .. n + 1, i <= j
             PROVE  s[i] <= s[j]
  OBVIOUS
<1>1. CASE i <= b
  <2>1. i \in 1 .. n /\ s[i] = u[i] /\ u[i] < v
    BY <1>1
  <2>2. CASE j <= b
    BY <2>1, <2>2
  <2>3. CASE j = b + 1
    BY <2>1, <2>3
  <2>4. CASE j > b + 1
    <3>1. j - 1 \in 1 .. n /\ s[j] = u[j - 1] /\ i <= j - 1
      BY <1>1, <2>4
    <3> QED
      BY <2>1, <3>1
  <2> QED
    BY <2>2, <2>3, <2>4
<1>2. CASE i = b + 1
  <2>1. s[i] = v
    BY <1>2
  <2>2. CASE j = b + 1
    BY <2>1, <2>2
  <2>3. CASE j > b + 1
    <3>1. j - 1 \in 1 .. n /\ s[j] = u[j - 1] /\ ~(j - 1 <= b)
      BY <2>3
    <3> QED
      BY <2>1, <3>1
  <2> QED
    BY <1>2, <2>2, <2>3
<1>3. CASE i > b + 1
  <2>1. /\ i - 1 \in 1 .. n /\ s[i] = u[i - 1]
        /\ j - 1 \in 1 .. n /\ s[j] = u[j - 1] /\ i - 1 <= j - 1
    BY <1>3
  <2> QED
    BY <2>1
<1> QED
  BY <1>1, <1>2, <1>3

(* What is kept of the samples is in ascending order.                      *)
SamplesInv ==
  /\ samples_ \in 0 .. MaxSamples
  /\ sorted \in Seq(Value) /\ Len(sorted) = samples_
  /\ Ascending(sorted)

(* A sample more keeps the order and the count.                            *)
LEMMA SamplesObserved ==
  ASSUME SamplesInv, NEW v \in Value, observe(v)
  PROVE  SamplesInv'
<1>1. /\ sorted \in Seq(Value) /\ Ascending(sorted)
      /\ samples_ \in Nat /\ Len(sorted) = samples_
      /\ samples_' = samples_ + 1 /\ samples_' \in 0 .. MaxSamples
      /\ sorted' = Insert(v)
  BY HistogramAssumption DEF SamplesInv, observe
<1>2. PICK b \in 0 .. Len(sorted) :
        /\ \A i \in 1 .. Len(sorted) : sorted[i] < v <=> i <= b
        /\ Insert(v) \in Seq(Value)
        /\ Len(Insert(v)) = Len(sorted) + 1
        /\ \A i \in 1 .. Len(sorted) + 1 :
             Insert(v)[i] = IF i <= b THEN sorted[i]
                            ELSE IF i = b + 1 THEN v ELSE sorted[i - 1]
  BY <1>1, InsertPlaces
<1>3. /\ \A i \in 1 .. samples_ : sorted[i] \in Int
      /\ v \in Int /\ b \in Nat
  <2>1. \A i \in 1 .. samples_ : sorted[i] \in Value
    BY <1>1
  <2>2. \A x \in Value : x \in Int
    BY ValueType
  <2> QED
    BY <1>1, <2>1, <2>2
<1>4. \A i, j \in 1 .. samples_ + 1 :
        i <= j => Insert(v)[i] <= Insert(v)[j]
  <2>1. /\ samples_ \in Nat
        /\ \A i \in 1 .. samples_ : sorted[i] < v <=> i <= b
        /\ \A i, j \in 1 .. samples_ : i <= j => sorted[i] <= sorted[j]
        /\ \A i \in 1 .. samples_ + 1 :
             Insert(v)[i] = IF i <= b THEN sorted[i]
                            ELSE IF i = b + 1 THEN v ELSE sorted[i - 1]
    BY <1>1, <1>2 DEF Ascending
  <2>2. b <= samples_
    BY <1>1
  <2> QED
    BY <1>3, <2>1, <2>2, InsertedAscending
<1>5. Ascending(sorted')
  <2>1. Len(Insert(v)) = samples_ + 1
    BY <1>1, <1>2
  <2> QED
    BY <1>1, <1>4, <2>1 DEF Ascending
<1> QED
  BY <1>1, <1>2, <1>5 DEF SamplesInv

(* A rank is that of a sample, and the least that is not below so many     *)
(* percent of them.                                                        *)
LEMMA RankRange ==
  ASSUME NEW n \in Nat \ {0}, NEW p \in Percentiles
  PROVE  /\ Rank(n, p) \in 1 .. n
         /\ Larger(1, Rank(n, p)) = Rank(n, p)
         /\ Rank(n, p) * 100 >= n * p
         /\ (Rank(n, p) - 1) * 100 < n * p
<1>1. p \in Nat /\ p >= 1 /\ p <= 99
  BY DEF Percentiles
<1> DEFINE m == n * p
<1>2. m \in Nat /\ m >= 1 /\ m <= n * 99
  <2>1. p = 25 \/ p = 50 \/ p = 75 \/ p = 95 \/ p = 99
    BY DEF Percentiles
  <2> QED
    BY <2>1
<1>3. Rank(n, p) = (m + 99) \div 100
  BY DEF Rank
<1> HIDE DEF m
<1>4. /\ (m + 99) \div 100 \in 1 .. n
      /\ ((m + 99) \div 100) * 100 >= m
      /\ ((m + 99) \div 100 - 1) * 100 < m
  BY <1>2
<1>5. Larger(1, Rank(n, p)) = Rank(n, p)
  BY <1>3, <1>4 DEF Larger
<1> QED
  BY <1>3, <1>4, <1>5 DEF m

(* How many numbers there are up to one.                                   *)
LEMMA FirstOnes ==
  ASSUME NEW r \in Nat PROVE Cardinality(1 .. r) = r /\ IsFiniteSet(1 .. r)
<1>1. Cardinality(1 .. r) = IF 1 > r THEN 0 ELSE r - 1 + 1
  BY FS_Interval
<1> QED
  BY <1>1, FS_Interval

(* The samples up to the value of a rank are at least as many as the rank; *)
(* those up to a lesser value are fewer.                                   *)
LEMMA SamplesUpTo ==
  ASSUME SamplesInv, NEW r \in 1 .. samples_
  PROVE  /\ Cardinality({i \in 1 .. samples_ : sorted[i] <= sorted[r]}) \in Nat
         /\ Cardinality({i \in 1 .. samples_ : sorted[i] <= sorted[r]}) >= r
         /\ \A k \in 1 .. samples_ :
              sorted[k] < sorted[r] =>
                LET c == Cardinality({i \in 1 .. samples_ :
                                        sorted[i] <= sorted[k]})
                IN c \in Nat /\ c <= r - 1
<1>1. samples_ \in Nat
  BY HistogramAssumption DEF SamplesInv
<1>2. \A i, j \in 1 .. samples_ : i <= j => sorted[i] <= sorted[j]
  BY DEF SamplesInv, Ascending
<1>3. \A i \in 1 .. samples_ : sorted[i] \in Int
  <2>1. \A i \in 1 .. samples_ : sorted[i] \in Value
    BY DEF SamplesInv
  <2>2. \A x \in Value : x \in Int
    BY ValueType
  <2> QED
    BY <2>1, <2>2
<1>4. Cardinality(1 .. samples_) = samples_ /\ IsFiniteSet(1 .. samples_)
  BY <1>1, FirstOnes
<1>5. /\ Cardinality({i \in 1 .. samples_ : sorted[i] <= sorted[r]}) \in Nat
      /\ Cardinality({i \in 1 .. samples_ : sorted[i] <= sorted[r]}) >= r
  <2> DEFINE C == {i \in 1 .. samples_ : sorted[i] <= sorted[r]}
  <2>1. 1 .. r \subseteq C
    <3>1. \A i \in 1 .. r : i \in 1 .. samples_ /\ i <= r
      BY <1>1
    <3> QED
      BY <3>1, <1>2
  <2>2. C \subseteq 1 .. samples_
    OBVIOUS
  <2> HIDE DEF C
  <2>3. IsFiniteSet(C) /\ Cardinality(C) \in Nat
    BY <2>2, <1>4, FS_Subset, FS_CardinalityType
  <2>4. Cardinality(1 .. r) <= Cardinality(C)
    BY <2>1, <2>3, FS_Subset
  <2>5. Cardinality(1 .. r) = r
    BY <1>1, FirstOnes
  <2>6. Cardinality(C) \in Nat /\ Cardinality(C) >= r
    BY <2>3, <2>4, <2>5, <1>1
  <2> QED
    BY <2>6 DEF C
<1>6. ASSUME NEW k \in 1 .. samples_, sorted[k] < sorted[r]
      PROVE  LET c == Cardinality({i \in 1 .. samples_ :
                                     sorted[i] <= sorted[k]})
             IN c \in Nat /\ c <= r - 1
  <2> DEFINE C == {i \in 1 .. samples_ : sorted[i] <= sorted[k]}
  <2>1. C \subseteq 1 .. r - 1
    <3> SUFFICES ASSUME NEW i \in 1 .. samples_, sorted[i] <= sorted[k],
                        ~(i \in 1 .. r - 1)
                 PROVE  FALSE
      OBVIOUS
    <3>1. r <= i
      BY <1>1
    <3>2. sorted[r] <= sorted[i]
      BY <3>1, <1>2
    <3> QED
      BY <3>2, <1>3, <1>6
  <2> HIDE DEF C
  <2>2. r - 1 \in Nat
    BY <1>1
  <2>3. Cardinality(1 .. r - 1) = r - 1 /\ IsFiniteSet(1 .. r - 1)
    BY <2>2, FirstOnes
  <2>4. IsFiniteSet(C) /\ Cardinality(C) <= r - 1
    BY <2>1, <2>3, FS_Subset
  <2>5. Cardinality(C) \in Nat
    BY <2>4, FS_CardinalityType
  <2> QED
    BY <2>4, <2>5 DEF C
<1> QED
  BY <1>5, <1>6

(* The sample at the nearest rank covers enough of them.                   *)
LEMMA RankCovers == SamplesInv => NearestRankCovers
<1> SUFFICES ASSUME SamplesInv, samples_ > 0, NEW p \in Percentiles
             PROVE
               LET covers(v) ==
                     Cardinality({i \in 1 .. samples_ : sorted[i] <= v})
                       * 100 >= samples_ * p
                   exact == nearest_rank(sorted, p)
               IN covers(exact) /\ \A i \in 1 .. samples_ :
                                     sorted[i] < exact => ~covers(sorted[i])
  BY DEF NearestRankCovers
<1> DEFINE r == Rank(samples_, p)
<1>1. samples_ \in Nat \ {0} /\ Len(sorted) = samples_ /\ sorted # << >>
  <2>1. samples_ \in Nat \ {0} /\ Len(sorted) = samples_
    BY HistogramAssumption DEF SamplesInv
  <2>2. Len(<< >>) = 0
    OBVIOUS
  <2> QED
    BY <2>1, <2>2
<1>2. /\ r \in 1 .. samples_ /\ Larger(1, r) = r
      /\ r * 100 >= samples_ * p /\ (r - 1) * 100 < samples_ * p
  BY <1>1, RankRange
<1>3. nearest_rank(sorted, p) = sorted[r]
  BY <1>1, <1>2 DEF nearest_rank
<1>4. samples_ * p \in Nat
  <2>1. p \in Nat
    BY DEF Percentiles
  <2> QED
    BY <2>1, <1>1, TimesNat
<1> HIDE DEF r
<1>5. Cardinality({i \in 1 .. samples_ : sorted[i] <= sorted[r]}) * 100
        >= samples_ * p
  <2> DEFINE c == Cardinality({i \in 1 .. samples_ : sorted[i] <= sorted[r]})
             m == samples_ * p
  <2>1. c \in Nat /\ c >= r
    BY <1>2, SamplesUpTo
  <2> HIDE DEF c, m
  <2>2. c * 100 >= m
    BY <2>1, <1>1, <1>2, <1>4 DEF m
  <2> QED
    BY <2>2 DEF c, m
<1>6. ASSUME NEW k \in 1 .. samples_, sorted[k] < sorted[r]
      PROVE  ~(Cardinality({i \in 1 .. samples_ : sorted[i] <= sorted[k]})
                 * 100 >= samples_ * p)
  <2> DEFINE c == Cardinality({i \in 1 .. samples_ : sorted[i] <= sorted[k]})
             m == samples_ * p
  <2>1. c \in Nat /\ c <= r - 1
    BY <1>2, <1>6, SamplesUpTo
  <2> HIDE DEF c, m
  <2>2. ~(c * 100 >= m)
    BY <2>1, <1>1, <1>2, <1>4 DEF m
  <2> QED
    BY <2>2 DEF c, m
<1> QED
  BY <1>3, <1>5, <1>6

(* Greater powers of two have greater exponents.                           *)
LEMMA PowersGrow ==
  ASSUME NEW k \in 0 .. Bits
  PROVE  \A n \in 0 .. Bits : k <= n => 2 ^ k <= 2 ^ n
<1>0. Bits \in Nat
  BY HistogramAssumption
<1>1. \A n \in 0 .. Bits : 2 ^ n \in Nat \ {0}
  BY <1>0, HistogramPowers, TwoPositive
<1> DEFINE S == {n \in Nat : k <= n /\ n <= Bits => 2 ^ k <= 2 ^ n}
<1>2. 0 \in S
  <2>1. 0 \in 0 .. Bits
    BY <1>0
  <2>2. k <= 0 => k = 0
    BY <1>0
  <2>3. 2 ^ 0 <= 2 ^ 0
    BY <1>1, <2>1
  <2> QED
    BY <2>2, <2>3
<1>3. ASSUME NEW n \in Nat, n \in S PROVE n + 1 \in S
  <2> SUFFICES ASSUME k <= n + 1, n + 1 <= Bits PROVE 2 ^ k <= 2 ^ (n + 1)
    OBVIOUS
  <2> DEFINE a == 2 ^ k
             b == 2 ^ n
             c == 2 ^ (n + 1)
  <2>1. a \in Nat /\ b \in Nat /\ c \in Nat
    <3>1. n \in 0 .. Bits /\ n + 1 \in 0 .. Bits
      BY <1>0
    <3> QED
      BY <3>1, <1>1
  <2>2. c = 2 * b
    <3>1. n \in 0 .. Bits - 1
      BY <1>0
    <3> QED
      BY <3>1, HistogramPowers
  <2>3. CASE k <= n
    <3>1. a <= b
      BY <1>0, <1>3, <2>3
    <3> HIDE DEF a, b, c
    <3>2. a <= c
      BY <3>1, <2>1, <2>2
    <3> QED
      BY <3>2 DEF a, c
  <2>4. CASE k = n + 1
    <3>1. a = c
      BY <2>4
    <3> HIDE DEF a, b, c
    <3>2. a <= c
      BY <3>1, <2>1
    <3> QED
      BY <3>2 DEF a, c
  <2> QED
    BY <2>3, <2>4, <1>0
<1>4. \A n \in Nat : n \in S
  <2> HIDE DEF S
  <2> QED
    BY <1>2, <1>3, SetInduction
<1> QED
  BY <1>4

(* std::bit_width exists.                                                  *)
LEMMA BitWidth ==
  ASSUME NEW v \in Value
  PROVE  /\ bit_width(v) \in 0 .. Bits
         /\ v < 2 ^ bit_width(v)
         /\ bit_width(v) > 0 => v >= 2 ^ (bit_width(v) - 1)
<1>0. Bits \in Nat /\ Bits \in 0 .. Bits /\ v \in Nat
  BY HistogramAssumption, ValueType
<1>1. \A n \in 0 .. Bits : 2 ^ n \in Nat \ {0}
  BY <1>0, HistogramPowers, TwoPositive
<1> DEFINE T == {n \in 0 .. Bits : v < 2 ^ n}
<1>2. Bits \in T
  <2>1. v \in 0 .. 2 ^ Bits - 1
    BY DEF Value
  <2> DEFINE M == 2 ^ Bits
  <2>2. M \in Nat
    BY <1>0, <1>1
  <2>3. v < M
    <3> HIDE DEF M
    <3>1. v \in 0 .. M - 1
      BY <2>1 DEF M
    <3> QED
      BY <3>1, <2>2
  <2> QED
    BY <2>3, <1>0
<1>3. PICK b \in T : \A c \in T : b <= c
  <2>1. T \subseteq Nat /\ T # {}
    BY <1>0, <1>2
  <2> HIDE DEF T
  <2> QED
    BY <2>1, LeastNumber
<1>4. b > 0 => v >= 2 ^ (b - 1)
  <2> SUFFICES ASSUME b > 0 PROVE v >= 2 ^ (b - 1)
    OBVIOUS
  <2>1. b - 1 \in 0 .. Bits /\ ~(b <= b - 1)
    BY <1>0
  <2>2. b - 1 \notin T
    BY <1>3, <2>1
  <2>3. ~(v < 2 ^ (b - 1))
    BY <2>1, <2>2
  <2>4. 2 ^ (b - 1) \in Nat
    BY <2>1, <1>1
  <2> QED
    BY <2>3, <2>4, <1>0
<1>5. \E bits \in 0 .. Bits : /\ v < 2 ^ bits
                              /\ bits > 0 => v >= 2 ^ (bits - 1)
  BY <1>4
<1> QED
  BY <1>5 DEF bit_width

(* A greater value has no smaller width, and goes into no lower bucket.    *)
LEMMA BucketMonotone ==
  ASSUME NEW v \in Value, NEW u \in Value, v <= u
  PROVE  /\ Bucket(v) \in 0 .. Bits
         /\ Bucket(u) \in 0 .. Bits
         /\ Bucket(v) <= Bucket(u)
<1>0. Bits \in Nat \ {0} /\ v \in Nat /\ u \in Nat
  BY HistogramAssumption, ValueType
<1>1. \A n \in 0 .. Bits : 2 ^ n \in Nat \ {0}
  BY <1>0, HistogramPowers, TwoPositive
<1>2. \A x \in Value : x # 0 => x - 1 \in Value
  <2> DEFINE M == 2 ^ Bits
  <2>1. M \in Nat
    BY <1>0, <1>1
  <2>2. Value = 0 .. M - 1
    BY DEF Value
  <2> HIDE DEF M
  <2> QED
    BY <2>1, <2>2
<1>3. \A x \in Value : Bucket(x) \in 0 .. Bits
  <2> SUFFICES ASSUME NEW x \in Value PROVE Bucket(x) \in 0 .. Bits
    OBVIOUS
  <2>1. CASE x = 0
    BY <2>1, <1>0 DEF Bucket
  <2>2. CASE x # 0
    <3>1. bit_width(x - 1) \in 0 .. Bits
      BY <2>2, <1>2, BitWidth
    <3> QED
      BY <2>2, <3>1, <1>0 DEF Bucket, Smaller
  <2> QED
    BY <2>1, <2>2
<1>4. Bucket(v) <= Bucket(u)
  <2>1. CASE v = 0
    BY <2>1, <1>0, <1>3 DEF Bucket
  <2>2. CASE v # 0
    <3> DEFINE k == bit_width(v - 1)
               l == bit_width(u - 1)
    <3>1. u # 0 /\ v - 1 \in Value /\ u - 1 \in Value /\ v - 1 <= u - 1
      BY <2>2, <1>0, <1>2
    <3>2. k \in 0 .. Bits /\ l \in 0 .. Bits
      BY <3>1, BitWidth
    <3>3. ASSUME l < k PROVE FALSE
      <4>1. k > 0 /\ k - 1 \in 0 .. Bits /\ l <= k - 1
        BY <3>2, <3>3, <1>0
      <4>2. u - 1 < 2 ^ l
        BY <3>1, BitWidth
      <4>3. v - 1 >= 2 ^ (k - 1)
        BY <3>1, <4>1, BitWidth
      <4>4. 2 ^ l <= 2 ^ (k - 1)
        BY <3>2, <4>1, PowersGrow
      <4>5. 2 ^ l \in Nat /\ 2 ^ (k - 1) \in Nat
        BY <3>2, <4>1, <1>1
      <4> DEFINE a == 2 ^ l
                 b == 2 ^ (k - 1)
      <4>6. /\ u - 1 < a /\ v - 1 >= b /\ a <= b
            /\ a \in Nat /\ b \in Nat
        BY <4>2, <4>3, <4>4, <4>5
      <4> HIDE DEF a, b, k, l
      <4> QED
        BY <4>6, <3>1, <1>0
    <3>4. Bucket(v) = Smaller(k + 1, Bits) /\ Bucket(u) = Smaller(l + 1, Bits)
      BY <2>2, <3>1 DEF Bucket
    <3> HIDE DEF k, l
    <3> QED
      BY <3>2, <3>3, <3>4, <1>0 DEF Smaller
  <2> QED
    BY <2>1, <2>2
<1> QED
  BY <1>3, <1>4

(* The power of two of a bucket is the least not below a value; the values *)
(* above the highest power have that of the highest.                       *)
LEMMA BucketPower ==
  ASSUME NEW v \in Value
  PROVE  LET reported == IF Bucket(v) = 0 THEN 0 ELSE 2 ^ (Bucket(v) - 1)
         IN IF v > 2 ^ (Bits - 1)
            THEN reported = 2 ^ (Bits - 1)
            ELSE v <= reported /\ (v > 0 => reported < 2 * v)
                               /\ (v = 0 => reported = 0)
<1>0. Bits \in Nat \ {0} /\ v \in Nat /\ Bits - 1 \in 0 .. Bits
  BY HistogramAssumption, ValueType
<1>1. \A n \in 0 .. Bits : 2 ^ n \in Nat \ {0}
  BY <1>0, HistogramPowers, TwoPositive
<1> DEFINE h == 2 ^ (Bits - 1)
<1>2. h \in Nat \ {0}
  BY <1>0, <1>1
<1>3. CASE v = 0
  <2>1. Bucket(v) = 0
    BY <1>3 DEF Bucket
  <2>2. ~(v > h)
    <3> HIDE DEF h
    <3> QED
      BY <1>2, <1>3
  <2> QED
    BY <1>3, <2>1, <2>2
<1>4. CASE v # 0
  <2> DEFINE k == bit_width(v - 1)
             a == 2 ^ k
             r == IF Bucket(v) = 0 THEN 0 ELSE 2 ^ (Bucket(v) - 1)
  <2>1. v - 1 \in Value
    <3> DEFINE M == 2 ^ Bits
    <3>1. M \in Nat
      BY <1>0, <1>1
    <3>2. Value = 0 .. M - 1
      BY DEF Value
    <3> HIDE DEF M
    <3> QED
      BY <3>1, <3>2, <1>0, <1>4
  <2>2. /\ k \in 0 .. Bits /\ v - 1 < a
        /\ k > 0 => v - 1 >= 2 ^ (k - 1)
    BY <2>1, BitWidth
  <2>3. Bucket(v) = Smaller(k + 1, Bits)
    BY <1>4 DEF Bucket
  <2>4. CASE k = Bits
    <3>1. Bucket(v) = Bits /\ k > 0 /\ k - 1 = Bits - 1
      BY <2>3, <2>4, <1>0 DEF Smaller
    <3>2. v - 1 >= h
      BY <2>2, <2>4, <3>1
    <3>3. r = h
      BY <3>1, <1>0
    <3>4. v > h
      <4> HIDE DEF h
      <4> QED
        BY <3>2, <1>0, <1>2
    <3> QED
      BY <3>3, <3>4
  <2>5. CASE k # Bits
    <3>1. k <= Bits - 1 /\ k + 1 <= Bits /\ k \in 0 .. Bits - 1
      BY <2>2, <2>5, <1>0
    <3>2. Bucket(v) = k + 1 /\ Bucket(v) # 0 /\ Bucket(v) - 1 = k
      BY <2>2, <2>3, <3>1, <1>0 DEF Smaller
    <3>3. r = a
      BY <3>2
    <3>4. a <= h
      BY <2>2, <3>1, <1>0, PowersGrow
    <3>5. a \in Nat \ {0}
      BY <2>2, <1>1
    <3>6. a < 2 * v
      <4>1. CASE k = 0
        <5>1. a = 1
          <6>1. 2 ^ 0 = 1
            OBVIOUS
          <6> QED
            BY <4>1, <6>1
        <5> HIDE DEF a
        <5> QED
          BY <5>1, <1>0, <1>4
      <4>2. CASE k # 0
        <5> DEFINE b == 2 ^ (k - 1)
        <5>1. /\ k > 0 /\ k - 1 \in 0 .. Bits - 1 /\ k - 1 \in 0 .. Bits
              /\ (k - 1) + 1 = k
          BY <4>2, <2>2, <3>1, <1>0
        <5>2. v - 1 >= b
          BY <5>1, <2>2
        <5>3. 2 ^ ((k - 1) + 1) = 2 * b
          BY <5>1, HistogramPowers
        <5>4. a = 2 * b /\ b \in Nat
          BY <5>1, <5>3, <1>1
        <5> HIDE DEF a, b
        <5> QED
          BY <5>2, <5>4, <1>0
      <4> QED
        BY <4>1, <4>2
    <3>7. v <= a
      <4> HIDE DEF a
      <4> QED
        BY <2>2, <3>5, <1>0
    <3>8. ~(v > h)
      <4> HIDE DEF a, h
      <4> QED
        BY <3>4, <3>5, <3>7, <1>0, <1>2
    <3> QED
      BY <3>3, <3>6, <3>7, <3>8, <1>4
  <2> QED
    BY <2>4, <2>5
<1> QED
  BY <1>3, <1>4

(* The counts, summed up.                                                  *)
Sums(b) ==
  LET sum[i \in 0 .. Bits] == b[i] + IF i = 0 THEN 0 ELSE sum[i - 1]
  IN sum

(* cumulative is that function of the buckets.                             *)
LEMMA CumulativeIsSum == cumulative = Sums(buckets_)
  BY DEF cumulative, Sums

(* Sums over any number of counts exist.                                   *)
LEMMA SumsExist ==
  ASSUME NEW b \in [Nat -> Nat]
  PROVE  \A P \in Nat : \E f \in [0 .. P -> Nat] :
           f = [i \in 0 .. P |-> b[i] + IF i = 0 THEN 0 ELSE f[i - 1]]
<1> DEFINE Summed(P) == \E f \in [0 .. P -> Nat] :
              f = [i \in 0 .. P |-> b[i] + IF i = 0 THEN 0 ELSE f[i - 1]]
           S == {P \in Nat : Summed(P)}
<1>1. 0 \in S
  <2> DEFINE f == [i \in 0 .. 0 |-> b[0]]
  <2>1. f \in [0 .. 0 -> Nat]
    OBVIOUS
  <2>2. f = [i \in 0 .. 0 |-> b[i] + IF i = 0 THEN 0 ELSE f[i - 1]]
    <3>1. \A i \in 0 .. 0 : i = 0 /\ b[i] + 0 = b[0]
      OBVIOUS
    <3> QED
      BY <3>1
  <2>3. Summed(0)
    <3> HIDE DEF f
    <3> WITNESS f \in [0 .. 0 -> Nat]
    <3> QED
      BY <2>2
  <2> QED
    BY <2>3
<1>2. ASSUME NEW P \in Nat, P \in S PROVE P + 1 \in S
  <2>1. PICK f \in [0 .. P -> Nat] :
          f = [i \in 0 .. P |-> b[i] + IF i = 0 THEN 0 ELSE f[i - 1]]
    BY <1>2
  <2>2. \A i \in 0 .. P :
          f[i] = b[i] + IF i = 0 THEN 0 ELSE f[i - 1]
    BY <2>1
  <2> DEFINE g == [i \in 0 .. P + 1 |->
                     IF i = P + 1 THEN b[P + 1] + f[P] ELSE f[i]]
  <2>3. g \in [0 .. P + 1 -> Nat]
    <3>1. f[P] \in Nat /\ b[P + 1] \in Nat
      OBVIOUS
    <3>2. \A x, y \in Nat : x + y \in Nat
      OBVIOUS
    <3>4. b[P + 1] + f[P] \in Nat
      BY <3>1, <3>2
    <3>3. \A i \in 0 .. P + 1 : i # P + 1 => i \in 0 .. P
      OBVIOUS
    <3> QED
      BY <3>3, <3>4
  <2>4. ASSUME NEW i \in 0 .. P + 1
        PROVE  g[i] = b[i] + IF i = 0 THEN 0 ELSE g[i - 1]
    <3>1. CASE i = P + 1
      BY <3>1
    <3>2. CASE i \in 0 .. P
      <4>1. g[i] = f[i]
        BY <3>2
      <4>2. i # 0 =>
              i - 1 \in 0 .. P + 1 /\ i - 1 # P + 1 /\ g[i - 1] = f[i - 1]
        BY <3>2
      <4> HIDE DEF g
      <4> QED
        BY <3>2, <4>1, <4>2, <2>2
    <3> QED
      BY <3>1, <3>2
  <2>5. g = [i \in 0 .. P + 1 |-> b[i] + IF i = 0 THEN 0 ELSE g[i - 1]]
    <3>1. g = [i \in 0 .. P + 1 |-> g[i]]
      OBVIOUS
    <3> HIDE DEF g
    <3> QED
      BY <3>1, <2>4
  <2>6. Summed(P + 1)
    <3> HIDE DEF g
    <3> WITNESS g \in [0 .. P + 1 -> Nat]
    <3> QED
      BY <2>5
  <2> HIDE DEF Summed
  <2> QED
    BY <2>6
<1>3. \A P \in Nat : P \in S
  <2> HIDE DEF S
  <2> QED
    BY <1>1, <1>2, SetInduction
<1> QED
  BY <1>3

(* The function of the sums exists, so that its equation holds.            *)
LEMMA SumsUnfold ==
  ASSUME NEW b \in [0 .. Bits -> Nat]
  PROVE  /\ Sums(b) \in [0 .. Bits -> Nat]
         /\ Sums(b)[0] = b[0]
         /\ \A i \in 1 .. Bits : Sums(b)[i] = b[i] + Sums(b)[i - 1]
<1>0. Bits \in Nat
  BY HistogramAssumption
<1> DEFINE e == [i \in Nat |-> IF i \in 0 .. Bits THEN b[i] ELSE 0]
           N == Sums(b)
<1>1. e \in [Nat -> Nat]
  OBVIOUS
<1>2. PICK f \in [0 .. Bits -> Nat] :
        f = [i \in 0 .. Bits |-> e[i] + IF i = 0 THEN 0 ELSE f[i - 1]]
  <2> HIDE DEF e
  <2> QED
    BY <1>0, <1>1, SumsExist
<1>3. ASSUME NEW g
      PROVE  [i \in 0 .. Bits |-> e[i] + IF i = 0 THEN 0 ELSE g[i - 1]]
               = [i \in 0 .. Bits |-> b[i] + IF i = 0 THEN 0 ELSE g[i - 1]]
  <2>1. \A i \in 0 .. Bits : e[i] = b[i]
    BY <1>0
  <2> HIDE DEF e
  <2> QED
    BY <2>1
<1>4. N = CHOOSE g : g = [i \in 0 .. Bits |->
                            b[i] + IF i = 0 THEN 0 ELSE g[i - 1]]
  BY DEF Sums
<1>5. N = [i \in 0 .. Bits |-> b[i] + IF i = 0 THEN 0 ELSE N[i - 1]]
  <2>1. f = [i \in 0 .. Bits |-> b[i] + IF i = 0 THEN 0 ELSE f[i - 1]]
    BY <1>2, <1>3
  <2> HIDE DEF N
  <2> QED
    BY <1>4, <2>1
<1> HIDE DEF N
<1>6. \A i \in 0 .. Bits : N[i] = b[i] + IF i = 0 THEN 0 ELSE N[i - 1]
  BY <1>5
<1>7. N[0] = b[0] /\ \A i \in 1 .. Bits : N[i] = b[i] + N[i - 1]
  <2>1. 0 \in 0 .. Bits /\ b[0] \in Nat
    BY <1>0
  <2>2. \A i \in 1 .. Bits : i \in 0 .. Bits /\ i # 0
    BY <1>0
  <2> QED
    BY <1>6, <2>1, <2>2
<1> DEFINE S == {i \in Nat : i <= Bits => N[i] \in Nat}
<1>8. 0 \in S
  <2>1. 0 \in 0 .. Bits
    BY <1>0
  <2> QED
    BY <2>1, <1>7
<1>9. ASSUME NEW i \in Nat, i \in S PROVE i + 1 \in S
  <2> SUFFICES ASSUME i + 1 <= Bits PROVE N[i + 1] \in Nat
    OBVIOUS
  <2>1. i + 1 \in 1 .. Bits /\ (i + 1) - 1 = i /\ i + 1 \in 0 .. Bits
    BY <1>0
  <2>2. N[i] \in Nat
    BY <1>0, <1>9
  <2>3. N[i + 1] = b[i + 1] + N[i] /\ b[i + 1] \in Nat
    BY <1>7, <2>1
  <2> QED
    BY <2>2, <2>3
<1>10. \A i \in Nat : i \in S
  <2> HIDE DEF S
  <2> QED
    BY <1>8, <1>9, SetInduction
<1>11. N \in [0 .. Bits -> Nat]
  <2>1. \A i \in 0 .. Bits : N[i] \in Nat
    BY <1>10
  <2> QED
    BY <1>5, <2>1
<1> QED
  BY <1>7, <1>11 DEF N

(* One more in a bucket is one more in the sums from there on.             *)
LEMMA SumsObserved ==
  ASSUME NEW b \in [0 .. Bits -> Nat], NEW k \in 0 .. Bits
  PROVE  \A i \in 0 .. Bits :
           Sums([b EXCEPT ![k] = @ + 1])[i]
             = Sums(b)[i] + (IF k <= i THEN 1 ELSE 0)
<1>0. Bits \in Nat
  BY HistogramAssumption
<1> DEFINE c == [b EXCEPT ![k] = @ + 1]
           M == Sums(b)
           N == Sums(c)
<1>1. /\ c \in [0 .. Bits -> Nat]
      /\ \A i \in 0 .. Bits : c[i] = b[i] + (IF i = k THEN 1 ELSE 0)
  <2>1. b[k] + 1 \in Nat
    OBVIOUS
  <2>2. \A i \in 0 .. Bits : b[i] + 0 = b[i]
    OBVIOUS
  <2> QED
    BY <2>1, <2>2
<1> HIDE DEF c
<1>2. /\ M \in [0 .. Bits -> Nat] /\ M[0] = b[0]
      /\ \A i \in 1 .. Bits : M[i] = b[i] + M[i - 1]
  BY SumsUnfold
<1>3. /\ N \in [0 .. Bits -> Nat] /\ N[0] = c[0]
      /\ \A i \in 1 .. Bits : N[i] = c[i] + N[i - 1]
  BY <1>1, SumsUnfold
<1> HIDE DEF M, N
<1> DEFINE S == {i \in Nat : i <= Bits =>
                   N[i] = M[i] + (IF k <= i THEN 1 ELSE 0)}
<1>4. 0 \in S
  <2>1. 0 \in 0 .. Bits /\ (k <= 0 <=> 0 = k)
    BY <1>0
  <2> QED
    BY <2>1, <1>1, <1>2, <1>3
<1>5. ASSUME NEW i \in Nat, i \in S PROVE i + 1 \in S
  <2> SUFFICES ASSUME i + 1 <= Bits
               PROVE  N[i + 1] = M[i + 1] + (IF k <= i + 1 THEN 1 ELSE 0)
    OBVIOUS
  <2>1. /\ i + 1 \in 1 .. Bits /\ (i + 1) - 1 = i /\ i + 1 \in 0 .. Bits
        /\ i \in 0 .. Bits
    BY <1>0
  <2>2. N[i] = M[i] + (IF k <= i THEN 1 ELSE 0)
    BY <1>0, <1>5
  <2>3. /\ N[i + 1] = c[i + 1] + N[i]
        /\ M[i + 1] = b[i + 1] + M[i]
        /\ c[i + 1] = b[i + 1] + (IF i + 1 = k THEN 1 ELSE 0)
    BY <1>1, <1>2, <1>3, <2>1
  <2>4. b[i + 1] \in Nat /\ M[i] \in Nat /\ k \in Nat
    BY <1>2, <2>1
  <2>5. CASE k <= i
    BY <2>2, <2>3, <2>4, <2>5
  <2>6. CASE i + 1 = k
    BY <2>2, <2>3, <2>4, <2>6
  <2>7. CASE k > i + 1
    BY <2>2, <2>3, <2>4, <2>7
  <2> QED
    BY <2>4, <2>5, <2>6, <2>7
<1>6. \A i \in Nat : i \in S
  <2> HIDE DEF S
  <2> QED
    BY <1>4, <1>5, SetInduction
<1>7. \A i \in 0 .. Bits : N[i] = M[i] + (IF k <= i THEN 1 ELSE 0)
  BY <1>6
<1> QED
  BY <1>7 DEF M, N, c

(* The ranks whose bucket is at most one, after an insertion.              *)
LEMMA RanksInserted ==
  ASSUME NEW n \in Nat, NEW x, NEW y, NEW k \in Int, NEW l \in Int,
         NEW b \in 0 .. n, NEW c \in 0 .. n,
         \A i \in 1 .. n : x[i] \in Int,
         \A i \in 1 .. n : i <= b => x[i] <= k,
         \A i \in 1 .. n : ~(i <= b) => k <= x[i],
         \A i \in 1 .. n : x[i] <= l <=> i <= c,
         \A i \in 1 .. n + 1 : y[i] = IF i <= b THEN x[i]
                                      ELSE IF i = b + 1 THEN k ELSE x[i - 1]
  PROVE  /\ c + (IF k <= l THEN 1 ELSE 0) \in 0 .. n + 1
         /\ \A i \in 1 .. n + 1 :
              y[i] <= l <=> i <= c + (IF k <= l THEN 1 ELSE 0)
<1>1. CASE k <= l
  <2>1. b <= c
    <3> SUFFICES ASSUME b > 0 PROVE b <= c
      OBVIOUS
    <3>1. b \in 1 .. n /\ x[b] <= k
      OBVIOUS
    <3> QED
      BY <1>1, <3>1
  <2> SUFFICES ASSUME NEW i \in 1 .. n + 1 PROVE y[i] <= l <=> i <= c + 1
    BY <1>1
  <2>2. CASE i <= b
    BY <2>1, <2>2
  <2>3. CASE i = b + 1
    BY <1>1, <2>1, <2>3
  <2>4. CASE i > b + 1
    <3>1. i - 1 \in 1 .. n /\ y[i] = x[i - 1]
      BY <2>4
    <3> QED
      BY <3>1
  <2> QED
    BY <2>2, <2>3, <2>4
<1>2. CASE ~(k <= l)
  <2>1. c <= b
    <3> SUFFICES ASSUME c > b PROVE FALSE
      OBVIOUS
    <3>1. c \in 1 .. n /\ k <= x[c] /\ x[c] <= l
      OBVIOUS
    <3> QED
      BY <1>2, <3>1
  <2> SUFFICES ASSUME NEW i \in 1 .. n + 1 PROVE y[i] <= l <=> i <= c
    BY <1>2
  <2>2. CASE i <= b
    BY <2>1, <2>2
  <2>3. CASE i = b + 1
    BY <1>2, <2>1, <2>3
  <2>4. CASE i > b + 1
    <3>1. i - 1 \in 1 .. n /\ y[i] = x[i - 1] /\ ~(i - 1 <= b)
      BY <2>4
    <3> QED
      BY <3>1, <2>1
  <2> QED
    BY <2>2, <2>3, <2>4
<1> QED
  BY <1>1, <1>2

(* The counts up to a bucket are the number of the samples in it or below; *)
(* as the samples are in ascending order, these are the first ones.        *)
CountsInv ==
  /\ buckets_ \in [0 .. Bits -> Nat]
  /\ \A i \in 0 .. Bits :
       /\ cumulative[i] \in 0 .. samples_
       /\ \A j \in 1 .. samples_ :
            Bucket(sorted[j]) <= i <=> j <= cumulative[i]

HistogramInv == SamplesInv /\ CountsInv

(* A sample more is counted in its bucket alone.                           *)
LEMMA CountsObserved ==
  ASSUME SamplesInv, CountsInv, NEW v \in Value, observe(v)
  PROVE  CountsInv'
<1>0. Bits \in Nat
  BY HistogramAssumption
<1>1. /\ sorted \in Seq(Value) /\ Ascending(sorted)
      /\ samples_ \in Nat /\ Len(sorted) = samples_
      /\ samples_' = samples_ + 1
      /\ sorted' = Insert(v)
      /\ buckets_' = [buckets_ EXCEPT ![Bucket(v)] = @ + 1]
  BY HistogramAssumption DEF SamplesInv, observe
<1>2. PICK b \in 0 .. Len(sorted) :
        /\ \A i \in 1 .. Len(sorted) : sorted[i] < v <=> i <= b
        /\ \A i \in 1 .. Len(sorted) + 1 :
             Insert(v)[i] = IF i <= b THEN sorted[i]
                            ELSE IF i = b + 1 THEN v ELSE sorted[i - 1]
  BY <1>1, InsertPlaces
<1> DEFINE n == samples_
           k == Bucket(v)
           x == [i \in 1 .. n |-> Bucket(sorted[i])]
           y == [i \in 1 .. n + 1 |-> Bucket(Insert(v)[i])]
<1>3. /\ \A u \in Value : u \in Int /\ Bucket(u) \in 0 .. Bits
      /\ k \in 0 .. Bits /\ k \in Int
  <2>1. \A u \in Value : u \in Int
    BY ValueType
  <2>2. \A u \in Value : Bucket(u) \in 0 .. Bits
    <3> SUFFICES ASSUME NEW u \in Value PROVE Bucket(u) \in 0 .. Bits
      OBVIOUS
    <3>1. u <= u
      BY <2>1
    <3> QED
      BY <3>1, BucketMonotone
  <2> QED
    BY <2>1, <2>2, <1>0
<1>4. \A i \in 1 .. n : sorted[i] \in Value
  BY <1>1
<1>5. \A i \in 1 .. n : x[i] = Bucket(sorted[i]) /\ x[i] \in Int
  <2>1. \A i \in 1 .. n : Bucket(sorted[i]) \in 0 .. Bits
    BY <1>3, <1>4
  <2> QED
    BY <2>1, <1>0
<1>6. \A i \in 1 .. n : i <= b => x[i] <= k
  <2> SUFFICES ASSUME NEW i \in 1 .. n, i <= b PROVE x[i] <= k
    OBVIOUS
  <2>1. sorted[i] < v /\ sorted[i] \in Value
    BY <1>1, <1>2, <1>4
  <2>2. sorted[i] <= v
    BY <2>1, <1>3
  <2> QED
    BY <2>1, <2>2, BucketMonotone
<1>7. \A i \in 1 .. n : ~(i <= b) => k <= x[i]
  <2> SUFFICES ASSUME NEW i \in 1 .. n, ~(i <= b) PROVE k <= x[i]
    OBVIOUS
  <2>1. ~(sorted[i] < v) /\ sorted[i] \in Value
    BY <1>1, <1>2, <1>4
  <2>2. v <= sorted[i]
    BY <2>1, <1>3
  <2> QED
    BY <2>1, <2>2, BucketMonotone
<1>8. \A i \in 1 .. n + 1 : y[i] = IF i <= b THEN x[i]
                                   ELSE IF i = b + 1 THEN k ELSE x[i - 1]
  <2> SUFFICES ASSUME NEW i \in 1 .. n + 1
               PROVE  y[i] = IF i <= b THEN x[i]
                             ELSE IF i = b + 1 THEN k ELSE x[i - 1]
    OBVIOUS
  <2>1. Insert(v)[i] = IF i <= b THEN sorted[i]
                       ELSE IF i = b + 1 THEN v ELSE sorted[i - 1]
    BY <1>1, <1>2
  <2>2. y[i] = Bucket(Insert(v)[i])
    OBVIOUS
  <2>3. i <= b => i \in 1 .. n
    BY <1>1, <1>2
  <2>4. ~(i <= b) /\ i # b + 1 => i - 1 \in 1 .. n
    BY <1>1, <1>2
  <2> HIDE DEF x, y, k
  <2> QED
    BY <2>1, <2>2, <2>3, <2>4, <1>5 DEF k
<1>9. buckets_' \in [0 .. Bits -> Nat]
  <2>1. buckets_ \in [0 .. Bits -> Nat] /\ buckets_[k] + 1 \in Nat
    BY <1>3 DEF CountsInv
  <2> QED
    BY <2>1, <1>1
<1>10. ASSUME NEW l \in 0 .. Bits
       PROVE  /\ cumulative'[l] \in 0 .. n + 1
              /\ \A j \in 1 .. n + 1 :
                   Bucket(Insert(v)[j]) <= l <=> j <= cumulative'[l]
  <2>1. cumulative'[l] = cumulative[l] + (IF k <= l THEN 1 ELSE 0)
    <3>1. buckets_ \in [0 .. Bits -> Nat]
      BY DEF CountsInv
    <3>2. Sums([buckets_ EXCEPT ![k] = @ + 1])[l]
            = Sums(buckets_)[l] + (IF k <= l THEN 1 ELSE 0)
      <4> HIDE DEF k
      <4> QED
        BY <3>1, <1>3, SumsObserved
    <3>3. cumulative = Sums(buckets_)
      BY CumulativeIsSum
    <3>4. cumulative' = Sums(buckets_')
      BY DEF cumulative, Sums
    <3> QED
      BY <3>2, <3>3, <3>4, <1>1
  <2> DEFINE c == cumulative[l]
  <2>2. c \in 0 .. n /\ \A j \in 1 .. n : Bucket(sorted[j]) <= l <=> j <= c
    BY DEF CountsInv
  <2>3. /\ n \in Nat /\ l \in Int /\ b \in 0 .. n
        /\ \A j \in 1 .. n : x[j] <= l <=> j <= c
    BY <1>0, <1>1, <1>5, <2>2
  <2>4. \A j \in 1 .. n + 1 : y[j] = Bucket(Insert(v)[j])
    OBVIOUS
  <2> HIDE DEF x, y, k, c, n
  <2>5. /\ c + (IF k <= l THEN 1 ELSE 0) \in 0 .. n + 1
        /\ \A i \in 1 .. n + 1 :
             y[i] <= l <=> i <= c + (IF k <= l THEN 1 ELSE 0)
    BY <1>3, <1>5, <1>6, <1>7, <1>8, <2>2, <2>3, RanksInserted
  <2> QED
    BY <2>1, <2>4, <2>5 DEF c
<1> QED
  BY <1>1, <1>9, <1>10 DEF CountsInv

(* No sample yet.                                                          *)
LEMMA HistogramInit == Init => HistogramInv
<1> SUFFICES ASSUME Init PROVE HistogramInv
  OBVIOUS
<1>0. Bits \in Nat /\ MaxSamples \in Nat
  BY HistogramAssumption
<1>1. /\ buckets_ = [index \in 0 .. Bits |-> 0]
      /\ samples_ = 0 /\ sorted = << >>
  BY DEF Init, InitHistogram
<1>2. SamplesInv
  <2>1. << >> \in Seq(Value) /\ Len(<< >>) = 0
    OBVIOUS
  <2>2. Ascending(<< >>)
    BY <2>1 DEF Ascending
  <2> QED
    BY <1>0, <1>1, <2>1, <2>2 DEF SamplesInv
<1>3. buckets_ \in [0 .. Bits -> Nat] /\ \A i \in 0 .. Bits : buckets_[i] = 0
  BY <1>1
<1> DEFINE N == Sums(buckets_)
           S == {i \in Nat : i <= Bits => N[i] = 0}
<1>4. /\ N[0] = buckets_[0]
      /\ \A i \in 1 .. Bits : N[i] = buckets_[i] + N[i - 1]
  BY <1>3, SumsUnfold
<1> HIDE DEF N
<1>5. 0 \in S
  <2>1. 0 \in 0 .. Bits
    BY <1>0
  <2> QED
    BY <2>1, <1>3, <1>4
<1>6. ASSUME NEW i \in Nat, i \in S PROVE i + 1 \in S
  <2> SUFFICES ASSUME i + 1 <= Bits PROVE N[i + 1] = 0
    OBVIOUS
  <2>1. /\ i + 1 \in 1 .. Bits /\ i + 1 \in 0 .. Bits /\ (i + 1) - 1 = i
        /\ i <= Bits
    BY <1>0
  <2>2. N[i + 1] = buckets_[i + 1] + N[i]
    BY <1>4, <2>1
  <2>3. N[i] = 0 /\ buckets_[i + 1] = 0
    BY <1>3, <1>6, <2>1
  <2> QED
    BY <2>2, <2>3
<1>7. \A i \in Nat : i \in S
  <2> HIDE DEF S
  <2> QED
    BY <1>5, <1>6, SetInduction
<1>8. \A i \in 0 .. Bits : cumulative[i] = 0
  BY <1>7, CumulativeIsSum DEF N
<1>9. CountsInv
  BY <1>0, <1>1, <1>3, <1>8 DEF CountsInv
<1> QED
  BY <1>2, <1>9 DEF HistogramInv

(* Observing, or a step of another behaviour.                              *)
LEMMA HistogramStep == HistogramInv /\ [Next]_pureVars => HistogramInv'
<1> SUFFICES ASSUME HistogramInv, [Next]_pureVars PROVE HistogramInv'
  OBVIOUS
<1>1. ASSUME NEW v \in Value, observe(v) PROVE HistogramInv'
  BY <1>1, SamplesObserved, CountsObserved DEF HistogramInv
<1>2. CASE UNCHANGED histogramVars
  <2>1. buckets_' = buckets_ /\ samples_' = samples_ /\ sorted' = sorted
    BY <1>2 DEF histogramVars
  <2>2. cumulative' = cumulative
    BY <2>1 DEF cumulative
  <2> QED
    BY <2>1, <2>2 DEF HistogramInv, SamplesInv, CountsInv
<1>3. (\E v \in Value : observe(v)) \/ UNCHANGED histogramVars
  BY DEF Next, pureVars, NextHistogram, Full
<1> QED
  BY <1>1, <1>2, <1>3

(* The invariant of the histogram.                                         *)
LEMMA HistogramInvariant == Spec => []HistogramInv
  BY HistogramInit, HistogramStep, PTL DEF Spec

(* The quantile is read from the bucket of the sample of its rank.         *)
LEMMA QuantileReported ==
  ASSUME HistogramInv, samples_ > 0, NEW p \in Percentiles
  PROVE  LET exact == nearest_rank(sorted, p)
         IN /\ exact \in Value
            /\ quantile(p) = IF Bucket(exact) = 0 THEN 0
                             ELSE 2 ^ (Bucket(exact) - 1)
<1>0. Bits \in Nat
  BY HistogramAssumption
<1>1. /\ samples_ \in Nat \ {0} /\ Len(sorted) = samples_ /\ sorted # << >>
      /\ sorted \in Seq(Value)
  <2>1. samples_ \in Nat \ {0} /\ Len(sorted) = samples_
        /\ sorted \in Seq(Value)
    BY HistogramAssumption DEF HistogramInv, SamplesInv
  <2>2. Len(<< >>) = 0
    OBVIOUS
  <2> QED
    BY <2>1, <2>2
<1> DEFINE r == Rank(samples_, p)
           exact == sorted[r]
<1>2. r \in 1 .. samples_ /\ Larger(1, r) = r
  BY <1>1, RankRange
<1>3. nearest_rank(sorted, p) = exact
  BY <1>1, <1>2 DEF nearest_rank
<1>4. exact \in Value
  BY <1>1, <1>2
<1>5. Bucket(exact) \in 0 .. Bits
  <2>1. \A u \in Value : u <= u
    BY ValueType
  <2> HIDE DEF exact
  <2> QED
    BY <1>4, <2>1, BucketMonotone
<1>6. \A i \in 0 .. Bits : /\ cumulative[i] \in Int
                           /\ Bucket(exact) <= i <=> r <= cumulative[i]
  <2>1. \A i \in 0 .. Bits : cumulative[i] \in 0 .. samples_
    BY DEF HistogramInv, CountsInv
  <2>2. \A i \in 0 .. Bits : cumulative[i] \in Int
    BY <1>1, <2>1
  <2> QED
    BY <1>2, <2>2 DEF HistogramInv, CountsInv
<1> DEFINE chosen == CHOOSE i \in 0 .. Bits :
                       /\ cumulative[i] >= r
                       /\ i > 0 => cumulative[i - 1] < r
<1>7. quantile(p) = IF chosen = 0 THEN 0 ELSE 2 ^ (chosen - 1)
  BY DEF quantile
<1> HIDE DEF exact, r
<1>8. \A i \in 0 .. Bits :
        (/\ cumulative[i] >= r
         /\ i > 0 => cumulative[i - 1] < r) <=> i = Bucket(exact)
  <2> SUFFICES ASSUME NEW i \in 0 .. Bits
               PROVE  (/\ cumulative[i] >= r
                       /\ i > 0 => cumulative[i - 1] < r)
                        <=> i = Bucket(exact)
    OBVIOUS
  <2>1. cumulative[i] >= r <=> Bucket(exact) <= i
    BY <1>1, <1>2, <1>6
  <2>2. i > 0 => (cumulative[i - 1] < r <=> ~(Bucket(exact) <= i - 1))
    <3> SUFFICES ASSUME i > 0
                 PROVE  cumulative[i - 1] < r <=> ~(Bucket(exact) <= i - 1)
      OBVIOUS
    <3>1. i - 1 \in 0 .. Bits
      BY <1>0
    <3>2. /\ cumulative[i - 1] \in Int
          /\ Bucket(exact) <= i - 1 <=> r <= cumulative[i - 1]
      BY <3>1, <1>6
    <3>3. r \in Int
      BY <1>1, <1>2
    <3> QED
      BY <3>2, <3>3
  <2> QED
    BY <2>1, <2>2, <1>0, <1>5
<1>9. chosen = Bucket(exact)
  <2>1. \E i \in 0 .. Bits : /\ cumulative[i] >= r
                             /\ i > 0 => cumulative[i - 1] < r
    BY <1>5, <1>8
  <2>2. chosen \in 0 .. Bits /\ /\ cumulative[chosen] >= r
                                /\ chosen > 0 => cumulative[chosen - 1] < r
    BY <2>1
  <2> HIDE DEF chosen
  <2> QED
    BY <2>2, <1>8
<1> QED
  BY <1>3, <1>4, <1>7, <1>9

(* nearest_rank returns the least sample such that enough of the samples   *)
(* are at most as large.                                                   *)
THEOREM NearestRankCorrect == Spec => []NearestRankCovers
<1>1. HistogramInv => NearestRankCovers
  BY RankCovers DEF HistogramInv
<1> QED
  BY <1>1, HistogramInvariant, PTL

(* What the histogram reports for a quantile is the least power of two not *)
(* below the exact one, for any samples and any number of them.            *)
THEOREM QuantileCorrect == Spec => []QuantileIsPowerAbove
<1>1. HistogramInv => QuantileIsPowerAbove
  <2> SUFFICES ASSUME HistogramInv, samples_ > 0, NEW p \in Percentiles
      PROVE
        LET exact    == nearest_rank(sorted, p)
            reported == quantile(p)
        IN IF exact > 2 ^ (Bits - 1)
           THEN reported = 2 ^ (Bits - 1)
           ELSE exact <= reported /\ (exact > 0 => reported < 2 * exact)
                                  /\ (exact = 0 => reported = 0)
    BY DEF QuantileIsPowerAbove
  <2> QED
    BY QuantileReported, BucketPower
<1> QED
  BY <1>1, HistogramInvariant, PTL
=============================================================================
