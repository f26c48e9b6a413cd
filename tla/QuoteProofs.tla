------------------------------ MODULE QuoteProofs ------------------------------
(***************************************************************************)
(* Theorems about Pricing and Quote, for every set of tenants, books,      *)
(* carts, requests and verifiers.                                          *)
(*                                                                         *)
(* First the arithmetic: banker's rounding for every amount and rate, sums *)
(* over any number of lines, and the price of any cart from any book.      *)
(* What SumOf computes is proved by induction on the number of lines.  The *)
(* library's induction theorems take a predicate, which no prover here can *)
(* instantiate; Induction below takes the set of the numbers for which the *)
(* statement holds, and is proved from the well-foundedness of the proper  *)
(* subset relation on finite sets.                                         *)
(*                                                                         *)
(* Then the state machine, whose steps keep the price a quote was given.   *)
(***************************************************************************)
EXTENDS Quote, TLAPS, FiniteSetTheorems, WellFoundedInduction

(* Every set of natural numbers that is not empty has a least member: the
   interval up to it is one below which no other of them lies. *)
LEMMA LeastNumber ==
  ASSUME NEW T \in SUBSET Nat, T # {}
  PROVE  \E n \in T : \A m \in T : n <= m
<1> DEFINE Below(n) == 0 .. n
           downs == {Below(n) : n \in T}
           R == StrictSubsetOrdering(Nat)
           S == FiniteSubsetsOf(Nat)
<1>1. IsWellFoundedOn(R, S)
  BY FS_StrictSubsetOrderingWellFounded
<1>2. downs \subseteq S
  <2>1. \A n \in Nat : IsFiniteSet(0 .. n)
    BY FS_Interval
  <2>2. QED
    BY <2>1 DEF FiniteSubsetsOf
<1>3. downs # {}
  OBVIOUS
<1> HIDE DEF R, S
<1>4. \E x \in downs : \A y \in downs : ~ (<<y, x>> \in R)
  <2> HIDE DEF downs
  <2> QED BY <1>1, <1>2, <1>3, WFMin
<1>5. PICK n \in T : \A m \in T : ~ (<<Below(m), Below(n)>> \in R)
  BY <1>4
<1>6. ASSUME NEW m \in T, ~(n <= m) PROVE FALSE
  <2>1. Below(m) \subseteq Below(n) /\ n \in Below(n) /\ n \notin Below(m)
    BY <1>6
  <2>2. Below(m) \in SUBSET Nat /\ Below(n) \in SUBSET Nat
    OBVIOUS
  <2> HIDE DEF Below
  <2>3. <<Below(m), Below(n)>> \in R
    BY <2>1, <2>2 DEF R, StrictSubsetOrdering
  <2>4. QED
    BY <1>5, <2>3
<1>7. QED
  BY <1>6

(* Induction over the natural numbers, by the set of those it holds for. *)
LEMMA Induction ==
  ASSUME NEW T, 0 \in T, \A n \in Nat : n \in T => n + 1 \in T
  PROVE  Nat \subseteq T
<1> SUFFICES ASSUME Nat \ T # {} PROVE FALSE
  OBVIOUS
<1>1. PICK n \in Nat \ T : \A m \in Nat \ T : n <= m
  BY LeastNumber
<1>2. n # 0
  OBVIOUS
<1>3. n - 1 \in Nat /\ ~(n <= n - 1)
  BY <1>2
<1>4. QED
  BY <1>1, <1>3, n = (n - 1) + 1

-----------------------------------------------------------------------------
(* Sums over lines.                                                          *)

(* s holds the running totals of the values of a, up to N of them. *)
Running(s, a, N) ==
  /\ s[0] = 0
  /\ \A n \in 1 .. N : s[n] = s[n - 1] + a[n]

Values(field, lines) == [n \in 1 .. Len(lines) |-> lines[n][field]]

(* The equation that SumOf is defined by has a solution. *)
Unrolled(g, field, lines, N) ==
  g = [n \in 0 .. N |-> IF n = 0 THEN 0 ELSE g[n - 1] + lines[n][field]]

LEMMA UnrolledExists ==
  ASSUME NEW field, NEW lines
  PROVE  \A N \in Nat : \E g : Unrolled(g, field, lines, N)
<1> DEFINE T == {N \in Nat : \E g : Unrolled(g, field, lines, N)}
<1>1. 0 \in T
  <2> DEFINE g == [n \in {0} |-> 0]
  <2>1. Unrolled(g, field, lines, 0)
    BY 0 .. 0 = {0} DEF Unrolled
  <2>2. QED
    BY <2>1
<1>2. ASSUME NEW N \in Nat, N \in T PROVE N + 1 \in T
  <2>1. PICK g : Unrolled(g, field, lines, N)
    BY <1>2
  <2> DEFINE a(n) == lines[n][field]
             h == [n \in 0 .. (N + 1) |-> IF n = N + 1 THEN g[N] + a(N + 1) ELSE g[n]]
  <2>2. \A n \in 0 .. N : g[n] = IF n = 0 THEN 0 ELSE g[n - 1] + a(n)
    BY <2>1 DEF Unrolled
  <2>3. ASSUME NEW n \in 0 .. (N + 1)
        PROVE  h[n] = IF n = 0 THEN 0 ELSE h[n - 1] + a(n)
    <3>1. CASE n = N + 1
      BY <3>1
    <3>2. CASE n \in 0 .. N
      BY <2>2, <3>2
    <3>3. QED
      BY <3>1, <3>2
  <2>4. Unrolled(h, field, lines, N + 1)
    BY <2>3 DEF Unrolled
  <2>5. QED
    BY <2>4
<1> HIDE DEF T
<1>3. Nat \subseteq T
  BY <1>1, <1>2, Induction
<1>4. QED
  BY <1>3 DEF T

(* SumOf is the last of the running totals. *)
LEMMA SumOfRuns ==
  ASSUME NEW field, NEW lines, Len(lines) \in Nat
  PROVE  \E s : /\ Running(s, Values(field, lines), Len(lines))
                /\ SumOf(field, lines) = s[Len(lines)]
<1> DEFINE N == Len(lines)
           s == CHOOSE g : Unrolled(g, field, lines, N)
<1>1. SumOf(field, lines) = s[N]
  BY DEF SumOf, Unrolled
<1>2. Unrolled(s, field, lines, N)
  BY UnrolledExists
<1> HIDE DEF s
<1>3. \A n \in 0 .. N : s[n] = IF n = 0 THEN 0 ELSE s[n - 1] + lines[n][field]
  BY <1>2 DEF Unrolled
<1>4. Running(s, Values(field, lines), N)
  BY <1>3 DEF Running, Values
<1>5. QED
  BY <1>1, <1>4

(* Running totals of integers are integers. *)
LEMMA RunningIsInt ==
  ASSUME NEW s, NEW a, NEW N \in Nat, Running(s, a, N), \A n \in 1 .. N : a[n] \in Int
  PROVE  \A n \in 0 .. N : s[n] \in Int
<1> DEFINE T == {n \in Nat : n <= N => s[n] \in Int}
<1>1. 0 \in T
  BY DEF Running
<1>2. ASSUME NEW n \in Nat, n \in T PROVE n + 1 \in T
  <2>1. CASE n + 1 <= N
    <3>1. n + 1 \in 1 .. N /\ (n + 1) - 1 = n
      BY <2>1
    <3>2. s[n + 1] = s[n] + a[n + 1] /\ s[n] \in Int /\ a[n + 1] \in Int
      BY <1>2, <2>1, <3>1 DEF Running
    <3>3. QED
      BY <3>2
  <2>2. QED
    BY <2>1
<1> HIDE DEF T
<1>3. Nat \subseteq T
  BY <1>1, <1>2, Induction
<1>4. QED
  BY <1>3 DEF T

(* They agree as far as the values do. *)
LEMMA RunningsAgree ==
  ASSUME NEW s, NEW a, NEW t, NEW b, NEW N \in Nat,
         Running(s, a, N), Running(t, b, N), \A n \in 1 .. N : a[n] = b[n]
  PROVE  s[N] = t[N]
<1> DEFINE T == {n \in Nat : n <= N => s[n] = t[n]}
<1>1. 0 \in T
  BY DEF Running
<1>2. ASSUME NEW n \in Nat, n \in T PROVE n + 1 \in T
  <2>1. CASE n + 1 <= N
    <3>1. n + 1 \in 1 .. N /\ (n + 1) - 1 = n
      BY <2>1
    <3>2. /\ s[n + 1] = s[n] + a[n + 1]
          /\ t[n + 1] = t[n] + b[n + 1]
          /\ s[n] = t[n] /\ a[n + 1] = b[n + 1]
      BY <1>2, <2>1, <3>1 DEF Running
    <3>3. QED
      BY <3>2
  <2>2. QED
    BY <2>1
<1> HIDE DEF T
<1>3. Nat \subseteq T
  BY <1>1, <1>2, Induction
<1>4. QED
  BY <1>3 DEF T

(* Values that each differ by half a unit from a share of others differ from it
   by half a unit each in their total. *)
LEMMA RunningWithin ==
  ASSUME NEW s, NEW a, NEW t, NEW b, NEW N \in Nat, NEW rate \in Int,
         Running(s, a, N), Running(t, b, N),
         \A n \in 1 .. N :
           /\ a[n] \in Int /\ b[n] \in Int
           /\ 2 * (Whole * b[n] - rate * a[n]) <= Whole
           /\ -2 * (Whole * b[n] - rate * a[n]) <= Whole
  PROVE  /\ 2 * (Whole * t[N] - rate * s[N]) <= Whole * N
         /\ -2 * (Whole * t[N] - rate * s[N]) <= Whole * N
<1> DEFINE Off(n) == 2 * (Whole * t[n] - rate * s[n])
           T == {n \in Nat : n <= N => Off(n) <= Whole * n /\ -Off(n) <= Whole * n}
<1>1. \A n \in 0 .. N : s[n] \in Int /\ t[n] \in Int
  BY RunningIsInt
<1>2. 0 \in T
  BY DEF Running, Whole
<1>3. ASSUME NEW n \in Nat, n \in T PROVE n + 1 \in T
  <2>1. CASE n + 1 <= N
    <3>1. n + 1 \in 1 .. N /\ (n + 1) - 1 = n /\ n \in 0 .. N /\ n + 1 \in 0 .. N
      BY <2>1
    <3> DEFINE x == a[n + 1]
               y == b[n + 1]
    <3>2. /\ x \in Int /\ y \in Int /\ s[n] \in Int /\ t[n] \in Int
          /\ 2 * (Whole * y - rate * x) <= Whole
          /\ -2 * (Whole * y - rate * x) <= Whole
      BY <1>1, <3>1
    <3>3. s[n + 1] = s[n] + x /\ t[n + 1] = t[n] + y
      BY <3>1 DEF Running
    <3> HIDE DEF x, y
    <3>4. rate * (s[n] + x) = rate * s[n] + rate * x
      BY <3>2
    <3>5. rate * s[n] \in Int /\ rate * x \in Int
      BY <3>2
    <3>6. Off(n) <= Whole * n /\ -Off(n) <= Whole * n
      BY <1>3, <2>1
    <3>7. Off(n + 1) = Off(n) + 2 * (Whole * y - rate * x)
      BY <3>2, <3>3, <3>4, <3>5 DEF Whole
    <3>8. QED
      BY <3>2, <3>5, <3>6, <3>7 DEF Whole
  <2>2. QED
    BY <2>1
<1> HIDE DEF T
<1>4. Nat \subseteq T
  BY <1>2, <1>3, Induction
<1>5. N \in T
  BY <1>4
<1>6. -2 * (Whole * t[N] - rate * s[N]) = -Off(N)
  <2>1. s[N] \in Int /\ t[N] \in Int /\ rate * s[N] \in Int
    BY <1>1
  <2>2. QED
    BY <2>1 DEF Whole
<1>7. QED
  BY <1>5, <1>6 DEF T

(* Values between nothing and others have a total between nothing and theirs. *)
LEMMA RunningBetween ==
  ASSUME NEW s, NEW a, NEW t, NEW b, NEW N \in Nat,
         Running(s, a, N), Running(t, b, N),
         \A n \in 1 .. N : a[n] \in Int /\ b[n] \in Int /\ 0 <= b[n] /\ b[n] <= a[n]
  PROVE  s[N] \in Int /\ t[N] \in Int /\ 0 <= t[N] /\ t[N] <= s[N]
<1> DEFINE T == {n \in Nat : n <= N => 0 <= t[n] /\ t[n] <= s[n]}
<1>1. \A n \in 0 .. N : s[n] \in Int /\ t[n] \in Int
  BY RunningIsInt
<1>2. 0 \in T
  BY DEF Running
<1>3. ASSUME NEW n \in Nat, n \in T PROVE n + 1 \in T
  <2>1. CASE n + 1 <= N
    <3>1. n + 1 \in 1 .. N /\ (n + 1) - 1 = n /\ n \in 0 .. N
      BY <2>1
    <3>2. s[n + 1] = s[n] + a[n + 1] /\ t[n + 1] = t[n] + b[n + 1]
      BY <3>1 DEF Running
    <3>3. QED
      BY <1>1, <1>3, <2>1, <3>1, <3>2
  <2>2. QED
    BY <2>1
<1> HIDE DEF T
<1>4. Nat \subseteq T
  BY <1>2, <1>3, Induction
<1>5. QED
  BY <1>1, <1>4 DEF T

(* The sum of integers is one. *)
LEMMA SumIsInt ==
  ASSUME NEW field, NEW lines, Len(lines) \in Nat,
         \A n \in 1 .. Len(lines) : lines[n][field] \in Int
  PROVE  SumOf(field, lines) \in Int
<1>1. PICK s : /\ Running(s, Values(field, lines), Len(lines))
               /\ SumOf(field, lines) = s[Len(lines)]
  BY SumOfRuns
<1>2. \A n \in 1 .. Len(lines) : Values(field, lines)[n] \in Int
  BY DEF Values
<1>3. \A n \in 0 .. Len(lines) : s[n] \in Int
  BY <1>1, <1>2, RunningIsInt
<1>4. QED
  BY <1>1, <1>3

(* Equal values have equal sums, whatever their fields are called. *)
LEMMA SumsAgree ==
  ASSUME NEW field, NEW lines, NEW other, NEW others,
         Len(lines) \in Nat, Len(others) = Len(lines),
         \A n \in 1 .. Len(lines) : lines[n][field] = others[n][other]
  PROVE  SumOf(field, lines) = SumOf(other, others)
<1> DEFINE N == Len(lines)
           a == Values(field, lines)
           b == Values(other, others)
<1>1. PICK s : Running(s, a, N) /\ SumOf(field, lines) = s[N]
  BY SumOfRuns
<1>2. PICK t : Running(t, b, N) /\ SumOf(other, others) = t[N]
  BY SumOfRuns
<1>3. N \in Nat /\ \A n \in 1 .. N : a[n] = b[n]
  BY DEF Values
<1> HIDE DEF N, a, b
<1>4. s[N] = t[N]
  BY <1>1, <1>2, <1>3, RunningsAgree
<1>5. QED
  BY <1>1, <1>2, <1>4

(* One more line adds its own value and changes no other. *)
LEMMA SumOfOneMore ==
  ASSUME NEW field, NEW lines, NEW more,
         Len(lines) \in Nat, Len(more) = Len(lines) + 1,
         \A n \in 1 .. Len(lines) : more[n][field] = lines[n][field]
  PROVE  SumOf(field, more) = SumOf(field, lines) + more[Len(more)][field]
<1> DEFINE N == Len(lines)
           M == Len(more)
           a == Values(field, lines)
           b == Values(field, more)
<1>1. PICK s : Running(s, a, N) /\ SumOf(field, lines) = s[N]
  BY SumOfRuns
<1>2. PICK t : Running(t, b, M) /\ SumOf(field, more) = t[M]
  BY SumOfRuns
<1>3. N \in Nat /\ M = N + 1 /\ \A n \in 1 .. N : a[n] = b[n]
  BY DEF Values
<1>4. b[M] = more[M][field]
  BY DEF Values
<1> HIDE DEF N, M, a, b
<1>5. Running(t, b, N)
  BY <1>2, <1>3 DEF Running
<1>6. s[N] = t[N]
  BY <1>1, <1>3, <1>5, RunningsAgree
<1>7. t[M] = t[N] + more[M][field]
  BY <1>2, <1>3, <1>4 DEF Running
<1>8. QED
  BY <1>1, <1>2, <1>6, <1>7 DEF M

-----------------------------------------------------------------------------
(* n / Whole is the floor and a remainder below one. *)
LEMMA FloorAndRest ==
  ASSUME NEW n \in Int
  PROVE  /\ n \div Whole \in Int
         /\ n % Whole \in Int /\ 0 <= n % Whole /\ n % Whole < Whole
         /\ n = Whole * (n \div Whole) + (n % Whole)
BY DEF Whole

(* The rounding by its floor and remainder: it goes up past the half, and at
   the half when the floor is odd. *)
RoundsUp(floor, rest) == 2 * rest > Whole \/ (2 * rest = Whole /\ floor % 2 # 0)

LEMMA RoundingByParts ==
  ASSUME NEW n \in Int
  PROVE  RoundHalfToEven(n) = IF RoundsUp(n \div Whole, n % Whole)
                                THEN (n \div Whole) + 1 ELSE n \div Whole
<1> DEFINE floor == n \div Whole
           rest == n % Whole
<1>1. floor \in Int /\ rest \in Int
  BY FloorAndRest DEF Whole
<1>2. RoundHalfToEven(n) = IF 2 * rest < Whole \/ (2 * rest = Whole /\ floor % 2 = 0)
                             THEN floor ELSE floor + 1
  BY DEF RoundHalfToEven
<1> HIDE DEF floor, rest
<1>3. RoundHalfToEven(n) = IF RoundsUp(floor, rest) THEN floor + 1 ELSE floor
  BY <1>1, <1>2 DEF RoundsUp, Whole
<1>4. QED
  BY <1>3 DEF floor, rest

(* The result is the floor or the next integer, and the nearer of the two. *)
LEMMA RoundingCases ==
  ASSUME NEW n \in Int
  PROVE  \/ /\ RoundHalfToEven(n) = n \div Whole
            /\ 2 * (n % Whole) <= Whole
         \/ /\ RoundHalfToEven(n) = (n \div Whole) + 1
            /\ 2 * (n % Whole) >= Whole
<1> DEFINE floor == n \div Whole
           rest == n % Whole
<1>1. floor \in Int /\ rest \in Int
  BY FloorAndRest DEF Whole
<1>2. RoundHalfToEven(n) = IF RoundsUp(floor, rest) THEN floor + 1 ELSE floor
  BY RoundingByParts
<1> HIDE DEF floor, rest
<1>3. \/ RoundHalfToEven(n) = floor /\ 2 * rest <= Whole
      \/ RoundHalfToEven(n) = floor + 1 /\ 2 * rest >= Whole
  BY <1>1, <1>2 DEF RoundsUp, Whole
<1>4. QED
  BY <1>3 DEF floor, rest

(* roundHalfToEven errs by half a minor unit at most, in either direction and
   for negative amounts (discounts, credits) too. *)
THEOREM RoundingIsNearest ==
  ASSUME NEW n \in Int
  PROVE  /\ RoundHalfToEven(n) \in Int
         /\ 2 * (Whole * RoundHalfToEven(n) - n) <= Whole
         /\ -2 * (Whole * RoundHalfToEven(n) - n) <= Whole
BY FloorAndRest, RoundingCases DEF Whole

(* Half way between two amounts it takes the even one, whatever the sign: ties
   do not drift in favour of the shop or of the customer. *)
THEOREM TiesGoToEven ==
  ASSUME NEW n \in Int, 2 * (n % Whole) = Whole
  PROVE  RoundHalfToEven(n) % 2 = 0
<1> DEFINE floor == n \div Whole
           rest == n % Whole
<1>1. floor \in Int /\ rest \in Int /\ 2 * rest = Whole
  BY FloorAndRest DEF Whole
<1>2. RoundHalfToEven(n) = IF RoundsUp(floor, rest) THEN floor + 1 ELSE floor
  BY RoundingByParts
<1> HIDE DEF floor, rest
<1>3. RoundsUp(floor, rest) <=> floor % 2 # 0
  BY <1>1 DEF RoundsUp, Whole
<1>4. QED
  BY <1>1, <1>2, <1>3

(* An error of a half is that of a tie. *)
LEMMA HalfIsTie ==
  ASSUME NEW n \in Int, NEW floor \in Int, NEW rest \in Int, NEW rounded \in Int,
         n = 10000 * floor + rest, 0 <= rest, rest < 10000,
         rounded = floor \/ rounded = floor + 1,
         2 * (10000 * rounded - n) = 10000 \/ 2 * (10000 * rounded - n) = -10000
  PROVE  2 * rest = 10000
OBVIOUS

(* So it takes the nearest amount, and the even one of two. *)
LEMMA RoundingTakesNearest ==
  ASSUME NEW n \in Int
  PROVE  IsNearest(RoundHalfToEven(n), n)
<1> DEFINE floor == n \div Whole
           rest == n % Whole
           rounded == RoundHalfToEven(n)
<1>1. /\ floor \in Int /\ rest \in Int /\ 0 <= rest /\ rest < Whole
      /\ n = Whole * floor + rest
  BY FloorAndRest DEF Whole
<1>2. rounded \in Int /\ (rounded = floor \/ rounded = floor + 1)
  BY RoundingByParts, RoundingIsNearest
<1>3. /\ 2 * (Whole * rounded - n) <= Whole /\ -2 * (Whole * rounded - n) <= Whole
      /\ 2 * rest = Whole => rounded % 2 = 0
  BY RoundingIsNearest, TiesGoToEven
<1> HIDE DEF floor, rest, rounded
<1>4. 2 * (Whole * rounded - n) \in {Whole, -Whole} => 2 * rest = Whole
  BY <1>1, <1>2, HalfIsTie DEF Whole
<1>5. QED
  BY <1>3, <1>4 DEF IsNearest, rounded

(* The order of two amounts is that of their parts. *)
LEMMA PartsInOrder ==
  ASSUME NEW f \in Int, NEW r \in Int, NEW g \in Int, NEW s \in Int,
         0 <= r, r < Whole, 0 <= s, s < Whole,
         Whole * f + r <= Whole * g + s
  PROVE  f < g \/ (f = g /\ r <= s)
BY DEF Whole

LEMMA RoundingPartsInOrder ==
  ASSUME NEW f \in Int, NEW r \in Int, NEW g \in Int, NEW s \in Int,
         f < g \/ (f = g /\ r <= s)
  PROVE  (IF RoundsUp(f, r) THEN f + 1 ELSE f) <= (IF RoundsUp(g, s) THEN g + 1 ELSE g)
<1>1. CASE f < g
  BY <1>1
<1>2. CASE f = g /\ r <= s
  <2>1. RoundsUp(f, r) => RoundsUp(g, s)
    BY <1>2 DEF RoundsUp, Whole
  <2>2. QED
    BY <1>2, <2>1
<1>3. QED
  BY <1>1, <1>2

(* A dearer line never carries less tax: rounding keeps the order of amounts. *)
THEOREM RoundingIsMonotone ==
  ASSUME NEW m \in Int, NEW n \in Int, m <= n
  PROVE  RoundHalfToEven(m) <= RoundHalfToEven(n)
<1> DEFINE mFloor == m \div Whole
           nFloor == n \div Whole
           mRest == m % Whole
           nRest == n % Whole
<1>1. /\ mFloor \in Int /\ mRest \in Int /\ 0 <= mRest /\ mRest < Whole
      /\ m = Whole * mFloor + mRest
  BY FloorAndRest
<1>2. /\ nFloor \in Int /\ nRest \in Int /\ 0 <= nRest /\ nRest < Whole
      /\ n = Whole * nFloor + nRest
  BY FloorAndRest
<1>3. /\ RoundHalfToEven(m) = IF RoundsUp(mFloor, mRest) THEN mFloor + 1 ELSE mFloor
      /\ RoundHalfToEven(n) = IF RoundsUp(nFloor, nRest) THEN nFloor + 1 ELSE nFloor
  BY RoundingByParts
<1> HIDE DEF mFloor, nFloor, mRest, nRest
<1>4. mFloor < nFloor \/ (mFloor = nFloor /\ mRest <= nRest)
  BY <1>1, <1>2, PartsInOrder
<1>5. QED
  BY <1>1, <1>2, <1>3, <1>4, RoundingPartsInOrder

(* A whole number of units needs no rounding. *)
LEMMA WholeStays ==
  ASSUME NEW k \in Int
  PROVE  RoundHalfToEven(Whole * k) = k
<1>1. Whole * k \in Int
  BY DEF Whole
<1>2. /\ RoundHalfToEven(Whole * k) \in Int
      /\ 2 * (Whole * RoundHalfToEven(Whole * k) - Whole * k) <= Whole
      /\ -2 * (Whole * RoundHalfToEven(Whole * k) - Whole * k) <= Whole
  BY <1>1, RoundingIsNearest
<1>3. QED
  BY <1>2 DEF Whole

(* A rate between nothing and the whole keeps an amount within itself: no tax
   above the price, no discount that turns a positive subtotal negative. *)
THEOREM RateStaysWithin ==
  ASSUME NEW amount \in Nat, NEW bps \in 0 .. Whole
  PROVE  /\ ApplyRate(amount, bps) \in 0 .. amount
         /\ ApplyRate(amount, -bps) \in -amount .. 0
<1> DEFINE product == amount * bps
           full == Whole * amount
           minus == Whole * (-amount)
           none == Whole * 0
<1>1. /\ product \in Int /\ -product \in Int /\ amount * (-bps) = -product
      /\ full \in Int /\ minus \in Int /\ none \in Int
      /\ none <= product /\ product <= full
      /\ minus <= -product /\ -product <= none
  BY DEF Whole
<1>2. /\ RoundHalfToEven(full) = amount
      /\ RoundHalfToEven(minus) = -amount
      /\ RoundHalfToEven(none) = 0
  BY WholeStays, -amount \in Int
<1>3. ApplyRate(amount, bps) = RoundHalfToEven(product)
  BY DEF ApplyRate
<1>4. ApplyRate(amount, -bps) = RoundHalfToEven(-product)
  BY <1>1 DEF ApplyRate
<1> HIDE DEF product, full, minus, none
<1>5. RoundHalfToEven(product) \in Int /\ RoundHalfToEven(-product) \in Int
  BY <1>1, RoundingIsNearest
<1>6. /\ RoundHalfToEven(none) <= RoundHalfToEven(product)
      /\ RoundHalfToEven(product) <= RoundHalfToEven(full)
      /\ RoundHalfToEven(minus) <= RoundHalfToEven(-product)
      /\ RoundHalfToEven(-product) <= RoundHalfToEven(none)
  BY <1>1, RoundingIsMonotone
<1>7. QED
  BY <1>2, <1>3, <1>4, <1>5, <1>6

-----------------------------------------------------------------------------
(* A price, line by line.                                                    *)

LEMMA CartShape ==
  ASSUME NEW items, IsCart(items)
  PROVE  /\ Len(items) \in Nat /\ DOMAIN items = 1 .. Len(items)
         /\ \A n \in 1 .. Len(items) : items[n].quantity \in Int
<1> DEFINE Item == [skuCode : STRING, quantity : Int]
<1>1. \A item \in Item : item.quantity \in Int
  OBVIOUS
<1> HIDE DEF Item
<1>2. items \in Seq(Item)
  BY DEF IsCart, Item
<1>3. QED
  BY <1>1, <1>2

(* A line for every item, and its amounts. *)
LEMMA ItemLinesShape ==
  ASSUME NEW priceBook, IsPriceBook(priceBook), NEW items, IsCart(items), Priceable(priceBook, items)
  PROVE  /\ ItemLines(priceBook, items) \in Seq({ItemLine(priceBook, items[n]) : n \in 1 .. Len(items)})
         /\ Len(ItemLines(priceBook, items)) = Len(items)
         /\ \A n \in 1 .. Len(items) :
              LET line == ItemLines(priceBook, items)[n]
              IN  /\ line.lineTotal = priceBook.prices[items[n].skuCode].amount * items[n].quantity
                  /\ line.lineTotal \in Int
                  /\ line.taxAmount = RoundHalfToEven(line.lineTotal * priceBook.taxRate)
                  /\ line.taxAmount \in Int
<1> DEFINE N == Len(items)
           unit(n) == priceBook.prices[items[n].skuCode].amount
           lines == ItemLines(priceBook, items)
<1>1. N \in Nat /\ DOMAIN items = 1 .. N
  BY CartShape
<1>2. lines = [n \in 1 .. N |-> ItemLine(priceBook, items[n])]
  BY <1>1 DEF ItemLines
<1>3. lines \in Seq({ItemLine(priceBook, items[n]) : n \in 1 .. N}) /\ Len(lines) = N
  BY <1>1, <1>2
<1>4. ASSUME NEW n \in 1 .. N
      PROVE  /\ lines[n].lineTotal = unit(n) * items[n].quantity
             /\ lines[n].lineTotal \in Int
             /\ lines[n].taxAmount = RoundHalfToEven(lines[n].lineTotal * priceBook.taxRate)
             /\ lines[n].taxAmount \in Int
  <2>1. unit(n) \in Int /\ items[n].quantity \in Int /\ priceBook.taxRate \in Int
    BY <1>1, CartShape DEF Priceable, IsPriceBook
  <2>2. /\ lines[n].lineTotal = unit(n) * items[n].quantity
        /\ lines[n].taxAmount = RoundHalfToEven(lines[n].lineTotal * priceBook.taxRate)
    BY <1>2 DEF ItemLine, ApplyRate
  <2> HIDE DEF unit, lines
  <2>3. lines[n].lineTotal \in Int
    BY <2>1, <2>2
  <2>4. lines[n].lineTotal * priceBook.taxRate \in Int
    BY <2>1, <2>3
  <2>5. QED
    BY <2>2, <2>3, <2>4, RoundingIsNearest
<1>5. QED
  BY <1>3, <1>4

(* The tax of all the lines is within half a unit per line of the rate's share. *)
LEMMA TaxIsNear ==
  ASSUME NEW priceBook, IsPriceBook(priceBook), NEW items, IsCart(items), Priceable(priceBook, items)
  PROVE  LET lines == ItemLines(priceBook, items)
             gross == SumOf("lineTotal", lines)
             tax == SumOf("taxAmount", lines)
         IN  /\ gross \in Int /\ tax \in Int
             /\ 2 * (Whole * tax - priceBook.taxRate * gross) <= Whole * Len(items)
             /\ -2 * (Whole * tax - priceBook.taxRate * gross) <= Whole * Len(items)
<1> DEFINE N == Len(items)
           lines == ItemLines(priceBook, items)
           rate == priceBook.taxRate
           a == Values("lineTotal", lines)
           b == Values("taxAmount", lines)
<1>1. Len(lines) = N /\ N \in Nat /\ rate \in Int
  BY ItemLinesShape, CartShape DEF IsPriceBook
<1>2. ASSUME NEW n \in 1 .. N
      PROVE  /\ a[n] \in Int /\ b[n] \in Int
             /\ b[n] = RoundHalfToEven(a[n] * rate)
  BY <1>1, ItemLinesShape DEF Values
<1>3. SumOf("lineTotal", lines) \in Int /\ SumOf("taxAmount", lines) \in Int
  BY <1>1, ItemLinesShape, SumIsInt
<1>4. PICK s : Running(s, a, N) /\ SumOf("lineTotal", lines) = s[N]
  BY <1>1, SumOfRuns
<1>5. PICK t : Running(t, b, N) /\ SumOf("taxAmount", lines) = t[N]
  BY <1>1, SumOfRuns
<1> HIDE DEF a, b, lines, N, rate
<1>6. ASSUME NEW n \in 1 .. N
      PROVE  /\ 2 * (Whole * b[n] - rate * a[n]) <= Whole
             /\ -2 * (Whole * b[n] - rate * a[n]) <= Whole
  <2>1. a[n] * rate \in Int /\ a[n] * rate = rate * a[n]
    BY <1>1, <1>2
  <2>2. QED
    BY <1>2, <2>1, RoundingIsNearest
<1>7. /\ 2 * (Whole * t[N] - rate * s[N]) <= Whole * N
      /\ -2 * (Whole * t[N] - rate * s[N]) <= Whole * N
  BY <1>1, <1>2, <1>4, <1>5, <1>6, RunningWithin
<1>8. QED
  BY <1>3, <1>4, <1>5, <1>7 DEF lines, N, rate

LEMMA TiersShape ==
  ASSUME NEW priceBook, IsPriceBook(priceBook)
  PROVE  \A i \in DOMAIN priceBook.orderVolumeTiers :
           /\ i \in Nat
           /\ priceBook.orderVolumeTiers[i].minUnits \in Int
           /\ priceBook.orderVolumeTiers[i].discountBps \in Int
<1> DEFINE VolumeTier == [minUnits : Int, discountBps : Int]
           tiers == priceBook.orderVolumeTiers
<1>1. \A tier \in VolumeTier : tier.minUnits \in Int /\ tier.discountBps \in Int
  OBVIOUS
<1> HIDE DEF VolumeTier
<1>2. tiers \in Seq(VolumeTier)
  BY DEF IsPriceBook, VolumeTier
<1> HIDE DEF tiers
<1>3. \A i \in DOMAIN tiers : i \in Nat /\ tiers[i] \in VolumeTier
  BY <1>2
<1>4. QED
  BY <1>1, <1>3 DEF tiers

(* The sort and the find choose a tier that is reached and that no other tier
   which is reached stands above. *)
LEMMA TierIsHighest ==
  ASSUME NEW priceBook, IsPriceBook(priceBook), NEW items, IsCart(items),
         Reached(priceBook, items) # {}
  PROVE  LET tiers == priceBook.orderVolumeTiers
         IN  /\ Tier(priceBook, items) \in Reached(priceBook, items)
             /\ \A j \in Reached(priceBook, items) :
                  tiers[j].minUnits <= tiers[Tier(priceBook, items)].minUnits
<1> DEFINE tiers == priceBook.orderVolumeTiers
           R == Reached(priceBook, items)
           min(i) == tiers[i].minUnits
           units == SumOf("quantity", items)
           Highest(i) == \A j \in R : min(j) <= min(i)
           gaps == {units - min(i) : i \in R}
           highest == {i \in R : Highest(i)}
<1>1. units \in Int
  BY CartShape, SumIsInt
<1>2. \A i \in R : i \in Nat /\ min(i) \in Int /\ min(i) <= units
  BY TiersShape DEF Reached
<1>3. Tier(priceBook, items) = CHOOSE i \in R : \A j \in R :
         min(j) < min(i) \/ (min(j) = min(i) /\ i <= j)
  BY DEF Tier
<1> HIDE DEF tiers, R, min, units
<1>4. PICK i \in R : Highest(i)
  <2>1. gaps \in SUBSET Nat /\ gaps # {}
    BY <1>1, <1>2 DEF R
  <2> HIDE DEF gaps
  <2>2. PICK g \in gaps : \A h \in gaps : g <= h
    BY <2>1, LeastNumber
  <2>3. PICK i \in R : g = units - min(i)
    BY DEF gaps
  <2>4. \A j \in R : units - min(i) <= units - min(j)
    BY <2>2, <2>3 DEF gaps
  <2>5. QED
    BY <1>1, <1>2, <2>4
<1>5. PICK first \in highest : \A j \in highest : first <= j
  <2>1. highest \in SUBSET Nat /\ highest # {}
    BY <1>2, <1>4
  <2> HIDE DEF highest
  <2>2. QED
    BY <2>1, LeastNumber
<1>6. \A j \in R : min(j) < min(first) \/ (min(j) = min(first) /\ first <= j)
  <2> SUFFICES ASSUME NEW j \in R, ~(min(j) < min(first))
               PROVE  min(j) = min(first) /\ first <= j
    OBVIOUS
  <2>1. min(j) = min(first)
    BY <1>2, <1>5
  <2>2. j \in highest
    BY <1>5, <2>1
  <2>3. QED
    BY <1>5, <2>1, <2>2
<1> DEFINE tier == Tier(priceBook, items)
<1>7. tier \in R /\ \A j \in R : min(j) < min(tier) \/ (min(j) = min(tier) /\ tier <= j)
  BY <1>3, <1>5, <1>6
<1> HIDE DEF tier
<1>8. tier \in R /\ \A j \in R : min(j) <= min(tier)
  BY <1>2, <1>7
<1>9. QED
  BY <1>8 DEF tier, R, tiers, min

(* The exact price is the sum of the lines, less a discount of the highest tier,
   plus the rate's share. *)
LEMMA ExactTotalsOfLines ==
  ASSUME NEW priceBook, IsPriceBook(priceBook), NEW items, IsCart(items),
         Priceable(priceBook, items)
  PROVE  LET gross == SumOf("lineTotal", ItemLines(priceBook, items))
             bps == IF Reached(priceBook, items) = {} THEN 0
                      ELSE priceBook.orderVolumeTiers[Tier(priceBook, items)].discountBps
         IN  gross * (Whole - bps + priceBook.taxRate) \in ExactTotals(priceBook, items)
<1> DEFINE N == Len(items)
           lines == ItemLines(priceBook, items)
           gross == SumOf("lineTotal", lines)
           plain == [i \in DOMAIN items |->
                       [lineTotal |-> items[i].quantity
                                        * priceBook.prices[items[i].skuCode].amount]]
           tiers == priceBook.orderVolumeTiers
           R == Reached(priceBook, items)
           tier == Tier(priceBook, items)
           discounts == {tiers[i].discountBps : i \in
                           {j \in R : \A k \in R : tiers[k].minUnits <= tiers[j].minUnits}}
<1>1. N \in Nat /\ DOMAIN items = 1 .. N
  BY CartShape
<1>2. Len(plain) = N
  <2>1. plain \in Seq({plain[n] : n \in 1 .. N})
    BY <1>1
  <2> HIDE DEF plain
  <2>2. DOMAIN plain = 1 .. N
    BY <1>1 DEF plain
  <2>3. QED
    BY <1>1, <2>1, <2>2
<1>3. ASSUME NEW n \in 1 .. N PROVE lines[n].lineTotal = plain[n].lineTotal
  <2> DEFINE unit == priceBook.prices[items[n].skuCode].amount
  <2>1. lines[n].lineTotal = unit * items[n].quantity
    BY ItemLinesShape
  <2>2. plain[n].lineTotal = items[n].quantity * unit
    BY <1>1
  <2>3. unit \in Int /\ items[n].quantity \in Int
    BY <1>1, CartShape DEF Priceable, IsPriceBook
  <2> HIDE DEF unit, lines, plain
  <2>4. QED
    BY <2>1, <2>2, <2>3
<1>4. gross = SumOf("lineTotal", plain)
  <2>1. Len(lines) = N
    BY ItemLinesShape
  <2> HIDE DEF lines, plain
  <2>2. QED
    BY <1>1, <1>2, <1>3, <2>1, SumsAgree
<1>5. ExactTotals(priceBook, items) =
        {gross * (Whole - bps + priceBook.taxRate) : bps \in IF R = {} THEN {0} ELSE discounts}
  BY <1>4, Zenon DEF ExactTotals, Reached
<1>6. ASSUME R # {} PROVE tiers[tier].discountBps \in discounts
  <2>1. tier \in R /\ \A k \in R : tiers[k].minUnits <= tiers[tier].minUnits
    BY <1>6, TierIsHighest
  <2> HIDE DEF tier, R, tiers
  <2>2. QED
    BY <2>1
<1> HIDE DEF discounts, gross, R, tiers, tier
<1>7. (IF R = {} THEN 0 ELSE tiers[tier].discountBps) \in IF R = {} THEN {0} ELSE discounts
  BY <1>6
<1>8. gross * (Whole - (IF R = {} THEN 0 ELSE tiers[tier].discountBps) + priceBook.taxRate)
        \in ExactTotals(priceBook, items)
  BY <1>5, <1>7
<1>9. QED
  BY <1>8, Zenon DEF gross, lines, R, tiers, tier

(* Half a unit for the taxes of each of the lines and half a unit for the
   discount add up. *)
LEMMA ErrorsAddUp ==
  ASSUME NEW N \in Nat, NEW rate \in Int, NEW bps \in Int, NEW gross \in Int,
         NEW tax \in Int, NEW amount \in Int, NEW M \in Nat, NEW total, NEW exact,
         2 * (Whole * tax - rate * gross) <= Whole * N,
         -2 * (Whole * tax - rate * gross) <= Whole * N,
         2 * (Whole * amount - gross * (-bps)) <= Whole * M,
         -2 * (Whole * amount - gross * (-bps)) <= Whole * M,
         total = gross + amount + tax,
         exact = gross * (Whole - bps + rate)
  PROVE  /\ 2 * (Whole * total - exact) <= Whole * (N + M)
         /\ -2 * (Whole * total - exact) <= Whole * (N + M)
<1>1. rate * gross \in Int /\ gross * bps \in Int
  OBVIOUS
<1>2. gross * (-bps) = -(gross * bps)
  OBVIOUS
<1>3. exact = gross * Whole - gross * bps + rate * gross
  BY DEF Whole
<1>4. QED
  BY <1>1, <1>2, <1>3 DEF Whole

(* The discount that priceOrder takes from a subtotal, and its lines. *)
TierBps(priceBook, items) ==
  IF Reached(priceBook, items) = {} THEN 0
    ELSE priceBook.orderVolumeTiers[Tier(priceBook, items)].discountBps

Discount(priceBook, items, gross) ==
  IF Reached(priceBook, items) = {} THEN 0 ELSE ApplyRate(gross, -TierBps(priceBook, items))

DiscountCount(priceBook, items) == IF Reached(priceBook, items) = {} THEN 0 ELSE 1

LEMMA DiscountIsNear ==
  ASSUME NEW priceBook, IsPriceBook(priceBook), NEW items, IsCart(items), NEW gross \in Int
  PROVE  LET bps == TierBps(priceBook, items)
             amount == Discount(priceBook, items, gross)
             M == DiscountCount(priceBook, items)
         IN  /\ bps \in Int /\ amount \in Int /\ M \in Nat
             /\ 2 * (Whole * amount - gross * (-bps)) <= Whole * M
             /\ -2 * (Whole * amount - gross * (-bps)) <= Whole * M
<1> DEFINE bps == TierBps(priceBook, items)
           amount == Discount(priceBook, items, gross)
           M == DiscountCount(priceBook, items)
<1>1. CASE Reached(priceBook, items) = {}
  <2>1. bps = 0 /\ amount = 0 /\ M = 0
    BY <1>1 DEF TierBps, Discount, DiscountCount
  <2> HIDE DEF bps, amount, M
  <2>2. gross * (-0) = 0
    OBVIOUS
  <2>3. /\ bps \in Int /\ amount \in Int /\ M \in Nat
        /\ 2 * (Whole * amount - gross * (-bps)) <= Whole * M
        /\ -2 * (Whole * amount - gross * (-bps)) <= Whole * M
    BY <2>1, <2>2 DEF Whole
  <2>4. QED
    BY <2>3 DEF bps, amount, M
<1>2. CASE Reached(priceBook, items) # {}
  <2>1. bps \in Int
    <3>1. Tier(priceBook, items) \in DOMAIN priceBook.orderVolumeTiers
      BY <1>2, TierIsHighest DEF Reached
    <3>2. QED
      BY <1>2, <3>1, TiersShape DEF TierBps
  <2>2. amount = RoundHalfToEven(gross * (-bps)) /\ M = 1
    BY <1>2, Zenon DEF Discount, DiscountCount, ApplyRate
  <2> HIDE DEF bps, amount, M
  <2>3. gross * (-bps) \in Int
    BY <2>1
  <2>4. /\ amount \in Int
        /\ 2 * (Whole * amount - gross * (-bps)) <= Whole * M
        /\ -2 * (Whole * amount - gross * (-bps)) <= Whole * M
    BY <2>2, <2>3, RoundingIsNearest DEF Whole
  <2>5. M \in Nat
    BY <2>2
  <2>6. QED
    BY <2>1, <2>4, <2>5 DEF bps, amount, M
<1>3. QED
  BY <1>1, <1>2

(* What priceOrder adds up: the lines of the items, a discount line if a tier is
   reached, which is not taxed, and the taxes. *)
LEMMA PriceParts ==
  ASSUME NEW priceBook, IsPriceBook(priceBook), NEW items, IsCart(items),
         Priceable(priceBook, items)
  PROVE  LET priced == PriceOrder(priceBook, items)
             gross == SumOf("lineTotal", ItemLines(priceBook, items))
             itemTax == SumOf("taxAmount", ItemLines(priceBook, items))
         IN  /\ priced.subtotal = gross
             /\ priced.tax = itemTax
             /\ priced.total = gross + Discount(priceBook, items, gross) + itemTax
             /\ Len(priced.lines) = Len(items) + DiscountCount(priceBook, items)
             /\ \A n \in 1 .. Len(items) : priced.lines[n] = ItemLines(priceBook, items)[n]
<1> DEFINE N == Len(items)
           itemLines == ItemLines(priceBook, items)
           gross == SumOf("lineTotal", itemLines)
           itemTax == SumOf("taxAmount", itemLines)
           discount == DiscountLines(priceBook, items, gross)
           lines == itemLines \o discount
           tax == SumOf("taxAmount", lines)
           total == SumOf("lineTotal", lines) + tax
           R == Reached(priceBook, items)
           amount == Discount(priceBook, items, gross)
           M == DiscountCount(priceBook, items)
           priced == PriceOrder(priceBook, items)
           Lines == {ItemLine(priceBook, items[n]) : n \in 1 .. N}
           Goal == /\ tax = itemTax /\ total = gross + amount + itemTax
                   /\ Len(lines) = N + M
                   /\ \A n \in 1 .. N : lines[n] = itemLines[n]
<1>1. /\ priced.lines = lines /\ priced.subtotal = gross
      /\ priced.tax = tax /\ priced.total = total
  <2>1. priced = [lines |-> lines, subtotal |-> gross, tax |-> tax, total |-> total,
                  integrityHash |-> IntegrityHash(priceBook, lines, gross, tax, total)]
    BY Zenon DEF PriceOrder
  <2> HIDE DEF priced, lines, total, tax, gross
  <2>2. QED
    BY <2>1
<1>2. N \in Nat /\ itemLines \in Seq(Lines) /\ Len(itemLines) = N
  BY CartShape, ItemLinesShape
<1>3. gross \in Int /\ itemTax \in Int
  BY TaxIsNear
<1>4. amount \in Int
  <2> HIDE DEF gross
  <2>1. QED
    BY <1>3, DiscountIsNear
<1> HIDE DEF priced, gross, itemTax, itemLines, N, Lines
<1>5. ASSUME R = {} PROVE Goal
  <2>1. discount = << >> /\ amount = 0 /\ M = 0
    BY <1>5 DEF DiscountLines, Discount, DiscountCount
  <2>2. lines = itemLines
    <3> HIDE DEF discount
    <3>1. itemLines \o << >> = itemLines
      BY <1>2
    <3>2. QED
      BY <2>1, <3>1
  <2>3. tax = itemTax /\ total = gross + itemTax
    BY <2>2, Zenon DEF gross, itemTax
  <2> HIDE DEF total, tax, amount, M
  <2>4. QED
    BY <1>2, <1>3, <2>1, <2>2, <2>3
<1>6. ASSUME R # {} PROVE Goal
  <2> DEFINE line == [skuCode   |-> "VOLUME_DISCOUNT",
                      quantity  |-> 1,
                      unitPrice |-> amount,
                      lineTotal |-> amount,
                      taxRate   |-> 0,
                      taxAmount |-> 0]
  <2>1. discount = <<line>> /\ M = 1
    BY <1>6, Zenon DEF DiscountLines, Discount, DiscountCount, TierBps
  <2>2. line.lineTotal = amount /\ line.taxAmount = 0
    OBVIOUS
  <2> HIDE DEF amount, line, discount, M
  <2>3. /\ Len(lines) = N + 1
        /\ \A n \in 1 .. N : lines[n] = itemLines[n]
        /\ lines[N + 1] = line
    BY <1>2, <2>1
  <2> HIDE DEF lines
  <2>4. Len(itemLines) \in Nat /\ Len(lines) = Len(itemLines) + 1
    BY <1>2, <2>3
  <2>5. SumOf("lineTotal", lines) = gross + amount
    <3>1. \A n \in 1 .. Len(itemLines) : lines[n]["lineTotal"] = itemLines[n]["lineTotal"]
      BY <1>2, <2>3
    <3>2. SumOf("lineTotal", lines) = SumOf("lineTotal", itemLines) + lines[Len(lines)]["lineTotal"]
      BY <2>4, <3>1, SumOfOneMore
    <3>3. QED
      BY <2>2, <2>3, <3>2 DEF gross
  <2>6. tax = itemTax + 0
    <3>1. \A n \in 1 .. Len(itemLines) : lines[n]["taxAmount"] = itemLines[n]["taxAmount"]
      BY <1>2, <2>3
    <3>2. SumOf("taxAmount", lines) = SumOf("taxAmount", itemLines) + lines[Len(lines)]["taxAmount"]
      BY <2>4, <3>1, SumOfOneMore
    <3>3. QED
      BY <2>2, <2>3, <3>2 DEF itemTax
  <2>7. QED
    BY <1>3, <1>4, <2>1, <2>3, <2>5, <2>6
<1>7. Goal
  BY <1>5, <1>6
<1>8. QED
  BY <1>1, <1>7 DEF priced, gross, itemTax, itemLines, N

(* The item lines of a quote have the taxes that are nearest to the exact ones. *)
TaxedToNearest(priceBook, items, lines) ==
  \A i \in DOMAIN items :
    IsNearest(lines[i].taxAmount,
              priceBook.prices[items[i].skuCode].amount * items[i].quantity * priceBook.taxRate)

(* priceOrder rounds the tax of each item by itself. *)
THEOREM TaxesAreNearest ==
  ASSUME NEW priceBook, IsPriceBook(priceBook), NEW items, IsCart(items),
         Priceable(priceBook, items)
  PROVE  TaxedToNearest(priceBook, items, PriceOrder(priceBook, items).lines)
<1> DEFINE lines == PriceOrder(priceBook, items).lines
           unit(i) == priceBook.prices[items[i].skuCode].amount
<1>1. DOMAIN items = 1 .. Len(items) /\ priceBook.taxRate \in Int
  BY CartShape DEF IsPriceBook
<1>2. ASSUME NEW i \in DOMAIN items
      PROVE  IsNearest(lines[i].taxAmount, unit(i) * items[i].quantity * priceBook.taxRate)
  <2> DEFINE line == ItemLines(priceBook, items)[i]
  <2>1. lines[i] = line
    BY <1>1, <1>2, PriceParts
  <2>2. /\ line.lineTotal = unit(i) * items[i].quantity
        /\ line.lineTotal \in Int
        /\ line.taxAmount = RoundHalfToEven(line.lineTotal * priceBook.taxRate)
    <3>1. i \in 1 .. Len(items)
      BY <1>1, <1>2
    <3> HIDE DEF lines
    <3>2. QED
      BY <3>1, ItemLinesShape
  <2> HIDE DEF lines, line, unit
  <2>3. line.lineTotal * priceBook.taxRate \in Int
    BY <1>1, <2>2
  <2>4. QED
    BY <2>1, <2>2, <2>3, RoundingTakesNearest
<1>3. QED
  BY <1>2 DEF TaxedToNearest

(* A total is near the exact price of a cart: within half a unit for each of so
   many lines.  PricedToTheHalfUnit says it of a stored quote. *)
NearExact(priceBook, items, total, count) ==
  \E exact \in ExactTotals(priceBook, items) :
    LET error == Whole * total - exact
        allowed == Whole * count
    IN 2 * error <= allowed /\ -2 * error <= allowed

(* priceOrder errs by half a minor unit per line at most, from whatever book and
   for whatever cart it has prices for: a discount is taken once, of the right
   tier, and the taxes of the lines may be rounded one by one. *)
THEOREM PriceIsNearExact ==
  ASSUME NEW priceBook, IsPriceBook(priceBook), NEW items, IsCart(items),
         Priceable(priceBook, items)
  PROVE  LET priced == PriceOrder(priceBook, items)
         IN  NearExact(priceBook, items, priced.total, Len(priced.lines))
<1> DEFINE N == Len(items)
           M == DiscountCount(priceBook, items)
           gross == SumOf("lineTotal", ItemLines(priceBook, items))
           itemTax == SumOf("taxAmount", ItemLines(priceBook, items))
           amount == Discount(priceBook, items, gross)
           bps == TierBps(priceBook, items)
           rate == priceBook.taxRate
           exact == gross * (Whole - bps + rate)
           total == PriceOrder(priceBook, items).total
           count == Len(PriceOrder(priceBook, items).lines)
<1>1. N \in Nat /\ rate \in Int
  BY CartShape DEF IsPriceBook
<1>2. /\ gross \in Int /\ itemTax \in Int
      /\ 2 * (Whole * itemTax - rate * gross) <= Whole * N
      /\ -2 * (Whole * itemTax - rate * gross) <= Whole * N
  BY TaxIsNear
<1>3. total = gross + amount + itemTax /\ count = N + M
  BY PriceParts
<1>4. exact \in ExactTotals(priceBook, items)
  BY ExactTotalsOfLines, Zenon DEF TierBps
<1> HIDE DEF gross
<1>5. /\ bps \in Int /\ amount \in Int /\ M \in Nat
      /\ 2 * (Whole * amount - gross * (-bps)) <= Whole * M
      /\ -2 * (Whole * amount - gross * (-bps)) <= Whole * M
  BY <1>2, DiscountIsNear
<1>6. exact = gross * (Whole - bps + rate)
  OBVIOUS
<1> HIDE DEF N, M, itemTax, amount, bps, rate, exact, total, count
<1>7. /\ 2 * (Whole * total - exact) <= Whole * count
      /\ -2 * (Whole * total - exact) <= Whole * count
  BY <1>1, <1>2, <1>3, <1>5, <1>6, ErrorsAddUp
<1>8. QED
  BY <1>4, <1>7 DEF NearExact, total, count

LEMMA NothingIsARate == 0 \in 0 .. Whole
BY DEF Whole

(* Where no price or quantity is negative and no rate above 100 %, neither the
   discount line nor any rounding makes a quote negative: the discount is at most
   the subtotal, the tax at most the subtotal too. *)
THEOREM TotalsAreBounded ==
  ASSUME NEW priceBook, IsPriceBook(priceBook), NEW items, IsCart(items),
         Priceable(priceBook, items),
         \A sku \in DOMAIN priceBook.prices : priceBook.prices[sku].amount >= 0,
         \A n \in DOMAIN items : items[n].quantity >= 0,
         priceBook.taxRate \in 0 .. Whole,
         \A i \in DOMAIN priceBook.orderVolumeTiers :
           priceBook.orderVolumeTiers[i].discountBps \in 0 .. Whole
  PROVE  LET priced == PriceOrder(priceBook, items)
         IN  /\ priced.subtotal \in Nat
             /\ priced.tax \in 0 .. priced.subtotal
             /\ priced.total \in priced.tax .. priced.subtotal + priced.tax
<1> DEFINE N == Len(items)
           lines == ItemLines(priceBook, items)
           rate == priceBook.taxRate
           a == Values("lineTotal", lines)
           b == Values("taxAmount", lines)
           gross == SumOf("lineTotal", lines)
           itemTax == SumOf("taxAmount", lines)
           amount == Discount(priceBook, items, gross)
           bps == TierBps(priceBook, items)
           priced == PriceOrder(priceBook, items)
<1>1. Len(lines) = N /\ N \in Nat /\ rate \in 0 .. Whole /\ DOMAIN items = 1 .. N
  BY ItemLinesShape, CartShape
<1>2. ASSUME NEW n \in 1 .. N
      PROVE  a[n] \in Nat /\ b[n] = ApplyRate(a[n], rate)
  <2> DEFINE unit == priceBook.prices[items[n].skuCode].amount
  <2>1. a[n] = unit * items[n].quantity /\ b[n] = RoundHalfToEven(a[n] * rate)
    BY <1>1, ItemLinesShape DEF Values
  <2>2. unit \in Nat /\ items[n].quantity \in Nat
    BY <1>1, CartShape DEF Priceable, IsPriceBook
  <2> HIDE DEF unit, a, b
  <2>3. a[n] \in Nat
    BY <2>1, <2>2
  <2>4. QED
    BY <2>1, <2>3 DEF ApplyRate
<1>3. PICK s : Running(s, a, N) /\ gross = s[N]
  BY <1>1, SumOfRuns
<1>4. PICK t : Running(t, b, N) /\ itemTax = t[N]
  BY <1>1, SumOfRuns
<1> HIDE DEF a, b, N, rate
<1>5. ASSUME NEW n \in 1 .. N
      PROVE  a[n] \in Int /\ b[n] \in Int /\ 0 <= b[n] /\ b[n] <= a[n]
  <2>1. a[n] \in Nat /\ b[n] = ApplyRate(a[n], rate)
    BY <1>2
  <2>2. ApplyRate(a[n], rate) \in 0 .. a[n]
    BY <1>1, <2>1, RateStaysWithin
  <2>3. QED
    BY <2>1, <2>2
<1>6. 0 <= t[N] /\ t[N] <= s[N] /\ s[N] \in Int /\ t[N] \in Int
  BY <1>1, <1>3, <1>4, <1>5, RunningBetween
<1>7. bps \in 0 .. Whole
  <2>1. CASE Reached(priceBook, items) = {}
    BY <2>1, NothingIsARate, Zenon DEF TierBps
  <2>2. CASE Reached(priceBook, items) # {}
    <3>1. Tier(priceBook, items) \in DOMAIN priceBook.orderVolumeTiers
      BY <2>2, TierIsHighest DEF Reached
    <3>2. QED
      BY <2>2, <3>1 DEF TierBps
  <2>3. QED
    BY <2>1, <2>2
<1>8. gross \in Nat /\ itemTax \in 0 .. gross
  <2> HIDE DEF gross, itemTax
  <2>1. QED
    BY <1>3, <1>4, <1>6
<1>9. amount \in -gross .. 0
  <2>1. amount = 0 \/ amount = ApplyRate(gross, -bps)
    BY Zenon DEF Discount
  <2> HIDE DEF gross, bps, amount
  <2>2. QED
    BY <1>7, <1>8, <2>1, RateStaysWithin
<1>10. priced.subtotal = gross /\ priced.tax = itemTax /\ priced.total = gross + amount + itemTax
  BY PriceParts
<1> HIDE DEF gross, itemTax, amount, priced
<1>11. /\ priced.subtotal \in Nat
       /\ priced.tax \in 0 .. priced.subtotal
       /\ priced.total \in priced.tax .. priced.subtotal + priced.tax
  BY <1>8, <1>9, <1>10
<1>12. QED
  BY <1>11 DEF priced

-----------------------------------------------------------------------------
(* The state machine.                                                        *)

USE DEF Open, Gone   \* names of tests

(* The hash of a draft was taken over its own lines, total and book version. *)
Offers(quote) ==
  /\ quote.integrityHash.lines = quote.lines
  /\ quote.integrityHash.total = quote.total
  /\ quote.integrityHash.priceBookVersion = quote.priceBookVersion

(* It was priced from the book it names. *)
PricedRight(quote, items) ==
  /\ TaxedToNearest(BookOf[quote.priceBookId], items, quote.lines)
  /\ NearExact(BookOf[quote.priceBookId], items, quote.total, Len(quote.lines))

DraftsAreSound ==
  \A r \in Requests : draft[r] # NoQuote =>
    /\ draft[r].tenantId = cmd[r].tenantId
    /\ draft[r].expiresAt \in Int
    /\ Offers(draft[r])
    /\ PricedRight(draft[r], cmd[r].items)

(* A document exists only once its transaction has committed, and the caller
   has the quote only once execute has returned. *)
StoredByCommit ==
  \A r \in Requests :
    /\ quotes[r] # NoQuote => pc[r] \in {"committed", "returned", "thrown"}
    /\ returned[r] # NoQuote => pc[r] = "returned"

(* A committed quote that is not in the collection has expired. *)
SweptIsExpired ==
  \A r \in Requests :
    pc[r] \in {"committed", "returned"} /\ draft[r] # NoQuote /\ quotes[r] = NoQuote
      => now >= draft[r].expiresAt

(* The document a verifier holds, which may be gone from the collection, is the
   quote its caller asked about. *)
HeldWasReturned ==
  \A v \in Verifiers : found[v] # NoQuote =>
    /\ ask[v].quoteId \in Returned
    /\ found[v] = returned[ask[v].quoteId]
    /\ ask[v].tenantId = cmd[ask[v].quoteId].tenantId

RefusedIsExpired ==
  \A r \in refused : returned[r] # NoQuote /\ now >= returned[r].expiresAt

IInv ==
  /\ TypeOK
  /\ DraftsAreSound
  /\ StoredByCommit
  /\ SweptIsExpired
  /\ HeldWasReturned
  /\ RefusedIsExpired
  /\ AsQuoted

-----------------------------------------------------------------------------

(* No step takes a variable out of its domain. *)
LEMMA TypeStep == TypeOK /\ StoredByCommit /\ HeldWasReturned /\ [Next]_vars => TypeOK'
<1> SUFFICES ASSUME TypeOK, StoredByCommit, HeldWasReturned, [Next]_vars PROVE TypeOK'
  OBVIOUS
<1> USE DEF TypeOK, verifyVars, Goto
<1>1. ASSUME NEW r \in Requests, ReadBook(r) PROVE TypeOK'
  BY <1>1, ParametersAssumption DEF ReadBook
<1>2. ASSUME NEW r \in Requests, NoActivePriceBook(r) PROVE TypeOK'
  BY <1>2 DEF NoActivePriceBook
<1>3. ASSUME NEW r \in Requests, Price(r) PROVE TypeOK'
  <2> DEFINE new == NewQuote(r)
  <2> HIDE DEF new
  <2>1. /\ pc[r] = "price" /\ pc' = [pc EXCEPT ![r] = "insert"]
        /\ draft' = [draft EXCEPT ![r] = new]
        /\ UNCHANGED <<now, bookStatus, quotes, cmd, book, returned, verifyVars>>
    BY <1>3 DEF Price, new
  <2>2. quotes[r] = NoQuote /\ returned[r] = NoQuote
    BY <2>1 DEF StoredByCommit
  <2> QED BY <2>1, <2>2
<1>4. ASSUME NEW r \in Requests, NotPriceable(r) PROVE TypeOK'
  BY <1>4 DEF NotPriceable
<1>5. ASSUME NEW r \in Requests, Insert(r) PROVE TypeOK'
  BY <1>5 DEF Insert
<1>6. ASSUME NEW r \in Requests, ReturnQuote(r) PROVE TypeOK'
  BY <1>6 DEF ReturnQuote
<1>7. ASSUME NEW r \in Requests, Rerun(r) PROVE TypeOK'
  BY <1>7 DEF Rerun, StoredByCommit
<1>8. ASSUME NEW r \in Requests, Throw(r) PROVE TypeOK'
  BY <1>8 DEF Throw, StoredByCommit
<1>9. ASSUME NEW r \in Requests, LoseAnswer(r) PROVE TypeOK'
  BY <1>9 DEF LoseAnswer
<1>10. ASSUME NEW r \in Requests, Sweep(r) PROVE TypeOK'
  BY <1>10 DEF Sweep, createVars
<1>11. ASSUME NEW v \in Verifiers, FindQuote(v) PROVE TypeOK'
  BY <1>11 DEF FindQuote, createVars
<1>12. ASSUME NEW v \in Verifiers, NotFound(v) PROVE TypeOK'
  BY <1>12 DEF NotFound, Answer, createVars, Questions, Returned
<1>13. ASSUME NEW v \in Verifiers, NEW outcome, NEW total, Judge(v, outcome, total),
              ask[v].quoteId \in Requests
       PROVE TypeOK'
  BY <1>13 DEF Judge, Answer, createVars
<1>14. ASSUME Tick PROVE TypeOK'
  BY <1>14, ParametersAssumption DEF Tick, createVars
<1>15. ASSUME NEW b \in Books, Publish(b) \/ Retire(b) PROVE TypeOK'
  BY <1>15 DEF Publish, Retire, Statuses, createVars
<1>16. ASSUME UNCHANGED vars PROVE TypeOK'
  BY <1>16 DEF vars, createVars
<1>17. ASSUME NEW v \in Verifiers, Expired(v) \/ Mismatch(v) \/ Ok(v) PROVE TypeOK'
  <2>1. ask[v].quoteId \in Requests
    BY <1>17 DEF HeldWasReturned, Returned, Expired, Mismatch, Ok
  <2>2. QED
    BY <1>13, <1>17, <2>1 DEF Expired, Mismatch, Ok
<1>18. QED
  BY <1>1, <1>2, <1>3, <1>4, <1>5, <1>6, <1>7, <1>8, <1>9, <1>10, <1>11, <1>12,
     <1>14, <1>15, <1>16, <1>17
  DEF Next, Create, Verify

(* What no step takes back: a command, the time, a committed draft, a quote
   that was returned. *)
LEMMA StepIsStable ==
  ASSUME TypeOK, StoredByCommit, [Next]_vars
  PROVE  /\ cmd' = cmd
         /\ now \in Int /\ now' \in Int /\ now <= now'
         /\ \A r \in Requests : returned[r] # NoQuote => returned'[r] = returned[r]
         /\ \A r \in Requests : pc[r] \in {"committed", "returned"} => draft'[r] = draft[r]
<1>1. cmd' = cmd
  BY DEF Next, vars, createVars, verifyVars, Create, ReadBook, NoActivePriceBook, Price,
     NotPriceable, Insert, ReturnQuote, Rerun, Throw, LoseAnswer, Sweep, Verify, FindQuote,
     NotFound, Expired, Mismatch, Ok, Judge, Publish, Retire, Tick
<1>2. now' = now \/ now' = now + 1
  BY DEF Next, vars, createVars, verifyVars, Create, ReadBook, NoActivePriceBook, Price,
     NotPriceable, Insert, ReturnQuote, Rerun, Throw, LoseAnswer, Sweep, Verify, FindQuote,
     NotFound, Expired, Mismatch, Ok, Judge, Publish, Retire, Tick
<1>3. returned' = returned \/ \E r \in Requests : ReturnQuote(r)
  BY DEF Next, vars, createVars, verifyVars, Create, ReadBook, NoActivePriceBook, Price,
     NotPriceable, Insert, Rerun, Throw, LoseAnswer, Sweep, Verify, FindQuote,
     NotFound, Expired, Mismatch, Ok, Judge, Publish, Retire, Tick
<1>4. draft' = draft \/ \E r \in Requests : Price(r) \/ Rerun(r) \/ Throw(r)
  BY DEF Next, vars, createVars, verifyVars, Create, ReadBook, NoActivePriceBook,
     NotPriceable, Insert, ReturnQuote, LoseAnswer, Sweep, Verify, FindQuote,
     NotFound, Expired, Mismatch, Ok, Judge, Publish, Retire, Tick
<1>5. \A r \in Requests : returned[r] # NoQuote => returned'[r] = returned[r]
  BY <1>3 DEF ReturnQuote, TypeOK, StoredByCommit
<1>6. ASSUME NEW r \in Requests, pc[r] \in {"committed", "returned"}
      PROVE  draft'[r] = draft[r]
  <2>1. ASSUME NEW q \in Requests, Price(q) PROVE draft'[r] = draft[r]
    <3> DEFINE new == NewQuote(q)
    <3> HIDE DEF new
    <3>1. pc[q] = "price" /\ draft' = [draft EXCEPT ![q] = new]
      BY <2>1 DEF Price, new
    <3>2. QED
      BY <1>6, <3>1 DEF TypeOK
  <2>2. ASSUME NEW q \in Requests, Rerun(q) \/ Throw(q) PROVE draft'[r] = draft[r]
    BY <1>6, <2>2 DEF Rerun, Throw, TypeOK
  <2>3. QED
    BY <1>4, <2>1, <2>2
<1>7. QED
  BY <1>1, <1>2, <1>5, <1>6 DEF TypeOK

(* Pricing fills a draft from the command, the book and the clock. *)
LEMMA NewQuoteIsSound ==
  ASSUME TypeOK, NEW r \in Requests, Price(r)
  PROVE  /\ NewQuote(r).tenantId = cmd[r].tenantId
         /\ NewQuote(r).expiresAt \in Int
         /\ Offers(NewQuote(r))
         /\ PricedRight(NewQuote(r), cmd[r].items)
<1> DEFINE priced == PriceOrder(BookOf[book[r]], cmd[r].items)
<1>1. /\ priced.integrityHash.lines = priced.lines
      /\ priced.integrityHash.total = priced.total
      /\ priced.integrityHash.priceBookVersion = BookOf[book[r]].version
  BY Zenon DEF PriceOrder, IntegrityHash
<1>2. /\ TaxedToNearest(BookOf[book[r]], cmd[r].items, priced.lines)
      /\ NearExact(BookOf[book[r]], cmd[r].items, priced.total, Len(priced.lines))
  <2>1. IsPriceBook(BookOf[book[r]]) /\ IsCart(cmd[r].items)
    BY ParametersAssumption DEF Price, TypeOK, Commands
  <2>2. Priceable(BookOf[book[r]], cmd[r].items)
    BY DEF Price
  <2>3. QED
    BY <2>1, <2>2, TaxesAreNearest, PriceIsNearExact, Zenon
<1> HIDE DEF priced
<1>3. NewQuote(r) = [tenantId         |-> cmd[r].tenantId,
                     priceBookId      |-> book[r],
                     priceBookVersion |-> BookOf[book[r]].version,
                     lines            |-> priced.lines,
                     subtotal         |-> priced.subtotal,
                     tax              |-> priced.tax,
                     total            |-> priced.total,
                     integrityHash    |-> priced.integrityHash,
                     expiresAt        |-> now + QuoteTTL]
  BY DEF NewQuote, priced
<1>4. now + QuoteTTL \in Int
  BY ParametersAssumption DEF TypeOK
<1>5. QED
  BY <1>1, <1>2, <1>3, <1>4 DEF Offers, PricedRight

-----------------------------------------------------------------------------
(* The parts of the invariant, one lemma each.                               *)

(* A draft is priced, kept, or dropped with its run of the callback. *)
LEMMA DraftsStep ==
  ASSUME TypeOK, StoredByCommit, DraftsAreSound, [Next]_vars
  PROVE  DraftsAreSound'
<1>1. cmd' = cmd
  BY StepIsStable
<1>2. draft' = draft \/ \E r \in Requests : Price(r) \/ Rerun(r) \/ Throw(r)
  BY DEF Next, vars, createVars, verifyVars, Create, ReadBook, NoActivePriceBook,
     NotPriceable, Insert, ReturnQuote, LoseAnswer, Sweep, Verify, FindQuote,
     NotFound, Expired, Mismatch, Ok, Judge, Publish, Retire, Tick
<1>3. ASSUME NEW r \in Requests, Price(r) PROVE DraftsAreSound'
  <2> DEFINE new == NewQuote(r)
  <2>1. /\ new.tenantId = cmd[r].tenantId /\ new.expiresAt \in Int
        /\ Offers(new) /\ PricedRight(new, cmd[r].items)
    BY <1>3, NewQuoteIsSound
  <2> HIDE DEF new
  <2>2. draft' = [draft EXCEPT ![r] = new]
    BY <1>3 DEF Price, new
  <2>3. QED
    BY <1>1, <2>1, <2>2 DEF DraftsAreSound, Offers, TypeOK
<1>4. ASSUME NEW r \in Requests, Rerun(r) \/ Throw(r) PROVE DraftsAreSound'
  BY <1>1, <1>4 DEF Rerun, Throw, DraftsAreSound, Offers, TypeOK
<1>5. QED
  BY <1>1, <1>2, <1>3, <1>4 DEF DraftsAreSound, Offers

(* Only Insert stores, only ReturnQuote returns, and neither is undone. *)
LEMMA StoredStep ==
  ASSUME TypeOK, StoredByCommit, [Next]_vars
  PROVE  StoredByCommit'
<1> USE DEF StoredByCommit, TypeOK, Goto
<1>1. ASSUME NEW r \in Requests, Create(r) PROVE StoredByCommit'
  <2>1. \/ \E to \in {"price", "insert", "thrown", "idle"} :
             pc[r] \in {"idle", "price", "insert"} /\ Goto(r, to)
             /\ UNCHANGED <<quotes, returned>>
        \/ Insert(r) \/ ReturnQuote(r) \/ LoseAnswer(r)
    BY <1>1 DEF Create, ReadBook, NoActivePriceBook, Price, NotPriceable, Rerun, Throw
  <2>2. CASE Insert(r)
    BY <2>2 DEF Insert
  <2>3. CASE ReturnQuote(r)
    BY <2>3 DEF ReturnQuote
  <2>4. CASE LoseAnswer(r)
    BY <2>4 DEF LoseAnswer
  <2>5. QED
    BY <2>1, <2>2, <2>3, <2>4
<1>2. ASSUME NEW r \in Requests, Sweep(r) PROVE StoredByCommit'
  BY <1>2 DEF Sweep, createVars
<1>3. CASE UNCHANGED <<pc, quotes, returned>>
  BY <1>3
<1>4. QED
  BY <1>1, <1>2, <1>3 DEF Next, vars, createVars, Verify, FindQuote, NotFound, Expired,
     Mismatch, Ok, Judge, Publish, Retire, Tick

(* Only the TTL sweep removes a document, once it has expired. *)
LEMMA SweptStep ==
  ASSUME TypeOK, StoredByCommit, DraftsAreSound, SweptIsExpired, [Next]_vars
  PROVE  SweptIsExpired'
<1> SUFFICES ASSUME NEW r \in Requests, pc'[r] \in {"committed", "returned"},
                    draft'[r] # NoQuote, quotes'[r] = NoQuote
             PROVE  now' >= draft'[r].expiresAt
  BY DEF SweptIsExpired
<1>1. pc[r] \in {"committed", "returned"} \/ Insert(r)
  BY DEF Next, vars, createVars, verifyVars, Create, ReadBook, NoActivePriceBook, Price,
     NotPriceable, Insert, ReturnQuote, Rerun, Throw, LoseAnswer, Sweep, Verify, FindQuote,
     NotFound, Expired, Mismatch, Ok, Judge, Publish, Retire, Tick, Goto, TypeOK
<1>2. ~Insert(r)
  BY DEF Insert, TypeOK
<1>3. draft'[r] = draft[r] /\ draft[r].expiresAt \in Int
  BY <1>1, <1>2, StepIsStable DEF DraftsAreSound
<1>4. CASE quotes[r] = NoQuote
  BY <1>1, <1>2, <1>3, <1>4, StepIsStable DEF SweptIsExpired
<1>5. CASE quotes[r] # NoQuote
  <2>1. Sweep(r)
    BY <1>2, <1>5 DEF Next, vars, createVars, verifyVars, Create, ReadBook,
       NoActivePriceBook, Price, NotPriceable, Insert, ReturnQuote, Rerun, Throw,
       LoseAnswer, Sweep, Verify, FindQuote, NotFound, Expired, Mismatch, Ok, Judge,
       Publish, Retire, Tick, TypeOK
  <2>2. quotes[r] = draft[r] /\ quotes[r].expiresAt <= now
    BY <1>5, <2>1 DEF Sweep, TypeOK
  <2>3. QED
    BY <1>3, <2>2, StepIsStable
<1>6. QED
  BY <1>4, <1>5

(* A verifier picks up a stored quote that was returned, and drops it. *)
LEMMA HeldStep ==
  ASSUME TypeOK, StoredByCommit, DraftsAreSound, HeldWasReturned, [Next]_vars
  PROVE  HeldWasReturned'
<1>1. /\ cmd' = cmd
      /\ \A r \in Requests : returned[r] # NoQuote => returned'[r] = returned[r]
  BY StepIsStable
<1>2. ASSUME NEW v \in Verifiers, FindQuote(v) PROVE HeldWasReturned'
  <2>1. PICK q \in Questions : /\ Finds(q)
                              /\ ask' = [ask EXCEPT ![v] = q]
                              /\ found' = [found EXCEPT ![v] = quotes[q.quoteId]]
    BY <1>2 DEF FindQuote
  <2>2. q.quoteId \in Returned
    BY DEF Questions
  <2>3. /\ quotes[q.quoteId] = returned[q.quoteId]
        /\ q.tenantId = cmd[q.quoteId].tenantId
    BY <2>1, <2>2 DEF Finds, Returned, TypeOK, DraftsAreSound
  <2>4. QED
    BY <1>1, <2>1, <2>2, <2>3 DEF HeldWasReturned, Returned, TypeOK
<1>3. ASSUME NEW v \in Verifiers, Expired(v) \/ Mismatch(v) \/ Ok(v)
      PROVE  HeldWasReturned'
  BY <1>1, <1>3 DEF Expired, Mismatch, Ok, Judge, HeldWasReturned, Returned, TypeOK
<1>4. CASE UNCHANGED <<ask, found>>
  BY <1>1, <1>4 DEF HeldWasReturned, Returned
<1>5. QED
  BY <1>2, <1>3, <1>4 DEF Next, vars, createVars, verifyVars, Create, ReadBook,
     NoActivePriceBook, Price, NotPriceable, Insert, ReturnQuote, Rerun, Throw,
     LoseAnswer, Sweep, Verify, NotFound, Publish, Retire, Tick

(* What a verify may answer. *)
LEMMA AnswerStep ==
  ASSUME TypeOK, [Next]_vars
  PROVE  \/ UNCHANGED <<answer, refused>>
         \/ \E q \in Questions : ~Finds(q) /\ Answer(q, "NOT_FOUND", 0)
         \/ \E v \in Verifiers : /\ found[v] # NoQuote
                                /\ IsExpired(found[v])
                                /\ Answer(ask[v], "EXPIRED", 0)
         \/ \E v \in Verifiers : /\ found[v] # NoQuote
                                /\ ~IsExpired(found[v])
                                /\ ~MatchesHash(found[v], ask[v].expectedIntegrityHash)
                                /\ Answer(ask[v], "MISMATCH", 0)
         \/ \E v \in Verifiers : /\ found[v] # NoQuote
                                /\ ~IsExpired(found[v])
                                /\ MatchesHash(found[v], ask[v].expectedIntegrityHash)
                                /\ Answer(ask[v], "OK", found[v].total)
<1>1. CASE UNCHANGED <<answer, refused>>
  BY <1>1
<1>2. ASSUME NEW v \in Verifiers, NotFound(v)
      PROVE  \E q \in Questions : ~Finds(q) /\ Answer(q, "NOT_FOUND", 0)
  BY <1>2, Zenon DEF NotFound
<1>3. QED
  BY <1>1, <1>2 DEF Next, vars, verifyVars, Create, ReadBook, NoActivePriceBook, Price,
     NotPriceable, Insert, ReturnQuote, Rerun, Throw, LoseAnswer, Sweep, Verify,
     FindQuote, Expired, Mismatch, Ok, Judge, Publish, Retire, Tick

(* A refusal is only ever given to the owner of a quote that has expired. *)
LEMMA RefusedStep ==
  ASSUME IInv, [Next]_vars
  PROVE  RefusedIsExpired'
<1> USE DEF IInv
<1>1. /\ now \in Int /\ now' \in Int /\ now <= now'
      /\ \A r \in Requests : returned[r] # NoQuote => returned'[r] = returned[r]
  BY StepIsStable
<1>2. \A r \in Requests : returned[r] # NoQuote =>
         /\ returned[r] = draft[r] /\ pc[r] = "returned"
         /\ returned[r].expiresAt \in Int
         /\ returned[r].tenantId = cmd[r].tenantId
  BY DEF TypeOK, StoredByCommit, DraftsAreSound
<1>3. ASSUME NEW r \in refused'
      PROVE  r \in Requests /\ returned[r] # NoQuote /\ now >= returned[r].expiresAt
  <2>1. CASE r \in refused
    BY <2>1 DEF RefusedIsExpired, TypeOK
  <2>2. CASE r \notin refused
    <3>1. CASE \E q \in Questions : ~Finds(q) /\ Answer(q, "NOT_FOUND", 0)
      <4>1. PICK q \in Questions : ~Finds(q) /\ Answer(q, "NOT_FOUND", 0)
        BY <3>1
      <4>2. r = q.quoteId /\ q.tenantId = cmd[r].tenantId
        BY <1>3, <2>2, <4>1 DEF Answer
      <4>3. r \in Requests /\ returned[r] # NoQuote
        BY <4>2 DEF Questions, Returned
      <4>4. quotes[r] = NoQuote
        BY <1>2, <4>1, <4>2, <4>3 DEF Finds, TypeOK
      <4>5. QED
        BY <1>2, <4>3, <4>4 DEF SweptIsExpired
    <3>2. CASE \E v \in Verifiers : /\ found[v] # NoQuote
                                    /\ IsExpired(found[v])
                                    /\ Answer(ask[v], "EXPIRED", 0)
      BY <1>3, <2>2, <3>2 DEF Answer, IsExpired, HeldWasReturned, Returned
    <3>3. QED
      BY <1>3, <2>2, <3>1, <3>2, AnswerStep DEF Answer
  <2>3. QED
    BY <2>1, <2>2
<1>4. QED
  BY <1>1, <1>2, <1>3 DEF RefusedIsExpired

(* OK speaks of the document in the verifier's hands, which was returned. *)
LEMMA AsQuotedStep ==
  ASSUME IInv, [Next]_vars
  PROVE  AsQuoted'
<1> USE DEF IInv
<1>1. /\ cmd' = cmd
      /\ \A r \in Requests : returned[r] # NoQuote => returned'[r] = returned[r]
  BY StepIsStable
<1>2. CASE answer' = answer
  BY <1>1, <1>2 DEF AsQuoted, Returned
<1>3. CASE \E v \in Verifiers : /\ found[v] # NoQuote
                               /\ ~IsExpired(found[v])
                               /\ MatchesHash(found[v], ask[v].expectedIntegrityHash)
                               /\ Answer(ask[v], "OK", found[v].total)
  BY <1>1, <1>3 DEF AsQuoted, Returned, Answer, MatchesHash, HeldWasReturned
<1>4. CASE answer'.outcome \in {"NOT_FOUND", "EXPIRED", "MISMATCH"}
  BY <1>4 DEF AsQuoted
<1>5. QED
  BY <1>2, <1>3, <1>4, AnswerStep DEF Answer

-----------------------------------------------------------------------------

(* A service that has just started: no create, no verify, no quote. *)
LEMMA InitInv == Init => IInv
<1> SUFFICES ASSUME Init PROVE IInv
  OBVIOUS
<1>1. TypeOK
  BY ParametersAssumption DEF Init, TypeOK
<1>2. DraftsAreSound /\ StoredByCommit /\ SweptIsExpired
  BY DEF Init, DraftsAreSound, StoredByCommit, SweptIsExpired
<1>3. HeldWasReturned /\ RefusedIsExpired /\ AsQuoted
  BY DEF Init, HeldWasReturned, RefusedIsExpired, AsQuoted
<1>4. QED
  BY <1>1, <1>2, <1>3 DEF IInv

(* The invariant: what is stored, returned, held by a verifier and answered is
   one and the same draft, and what was refused or swept has expired. *)
THEOREM Invariance == Spec => []IInv
<1>1. IInv /\ [Next]_vars => IInv'
  <2> SUFFICES ASSUME IInv, [Next]_vars PROVE IInv'
    OBVIOUS
  <2>1. TypeOK' /\ DraftsAreSound' /\ StoredByCommit'
    BY TypeStep, DraftsStep, StoredStep DEF IInv
  <2>2. SweptIsExpired' /\ HeldWasReturned'
    BY SweptStep, HeldStep DEF IInv
  <2>3. RefusedIsExpired' /\ AsQuoted'
    BY RefusedStep, AsQuotedStep
  <2>4. QED
    BY <2>1, <2>2, <2>3 DEF IInv
<1>2. QED
  BY <1>1, InitInv, PTL DEF Spec

(* Every variable of Quote keeps its type. *)
THEOREM TypeCorrect == Spec => []TypeOK
<1>1. IInv => TypeOK
  BY DEF IInv
<1>2. QED
  BY <1>1, Invariance, PTL

(* A verify that answers OK names the total its caller was quoted, to the
   quote's own tenant, for the hash it was quoted with. *)
THEOREM VerifiedIsAsQuoted == Spec => []AsQuoted
<1>1. IInv => AsQuoted
  BY DEF IInv
<1>2. QED
  BY <1>1, Invariance, PTL

(* Whatever is stored, while books are published and retired and callbacks run
   again, has the nearest taxes and is within half a minor unit per line of the
   exact price. *)
THEOREM StoredPricesAreNearExact == Spec => []PricedToTheHalfUnit
<1>1. IInv => PricedToTheHalfUnit
  BY DEF IInv, TypeOK, DraftsAreSound, PricedRight, TaxedToNearest, NearExact,
         PricedToTheHalfUnit
<1>2. QED
  BY <1>1, Invariance, PTL

(* Two returned quotes with one hash are the same offer. *)
THEOREM HashPinsTheOffer == Spec => []SameHashSameOffer
<1>1. IInv => SameHashSameOffer
  <2> SUFFICES ASSUME IInv, NEW r \in Returned, NEW s \in Returned,
                      returned[r].integrityHash = returned[s].integrityHash
               PROVE  /\ returned[r].lines = returned[s].lines
                      /\ returned[r].total = returned[s].total
                      /\ returned[r].priceBookVersion = returned[s].priceBookVersion
    BY DEF SameHashSameOffer
  <2>1. Offers(returned[r]) /\ Offers(returned[s])
    BY DEF IInv, TypeOK, DraftsAreSound, Returned, Offers
  <2>2. QED
    BY <2>1 DEF Offers
<1>2. QED
  BY <1>1, Invariance, PTL

(* Until it expires a returned quote is honoured. *)
THEOREM QuotesAreHonoured == Spec => HonouredUntilExpiry
<1>1. IInv /\ [Next]_vars =>
        [AnswersTheOwner /\ answer'.outcome # "OK"
           => now >= returned[answer'.ask.quoteId].expiresAt]_vars
  <2> SUFFICES ASSUME IInv, [Next]_vars, AnswersTheOwner, answer'.outcome # "OK"
               PROVE  now >= returned[answer'.ask.quoteId].expiresAt
    OBVIOUS
  <2> USE DEF IInv
  <2>1. CASE \E q \in Questions : ~Finds(q) /\ Answer(q, "NOT_FOUND", 0)
    <3>1. PICK q \in Questions : ~Finds(q) /\ Answer(q, "NOT_FOUND", 0)
      BY <2>1
    <3>2. answer'.ask = q /\ q.tenantId = cmd[q.quoteId].tenantId
      BY <3>1 DEF AnswersTheOwner, Answer
    <3>3. q.quoteId \in Requests /\ returned[q.quoteId] # NoQuote
      BY <3>1 DEF Questions, Returned
    <3>4. quotes[q.quoteId] = NoQuote
      BY <3>1, <3>2, <3>3 DEF Finds, TypeOK, DraftsAreSound, StoredByCommit
    <3>5. QED
      BY <3>2, <3>3, <3>4 DEF SweptIsExpired, TypeOK, StoredByCommit
  <2>2. CASE \E v \in Verifiers : /\ found[v] # NoQuote
                                 /\ IsExpired(found[v])
                                 /\ Answer(ask[v], "EXPIRED", 0)
    BY <2>2 DEF Answer, IsExpired, HeldWasReturned
  <2>3. ASSUME NEW v \in Verifiers, found[v] # NoQuote,
               ~MatchesHash(found[v], ask[v].expectedIntegrityHash),
               Answer(ask[v], "MISMATCH", 0)
        PROVE  FALSE
    BY <2>3 DEF AnswersTheOwner, Answer, MatchesHash, HeldWasReturned
  <2>4. QED
    BY <2>1, <2>2, <2>3, AnswerStep DEF AnswersTheOwner, Answer
<1>2. QED
  BY <1>1, Invariance, PTL DEF Spec, HonouredUntilExpiry

(* A quote that was refused as expired or swept is never OK again. *)
THEOREM RefusalIsFinal == Spec => NoRevival
<1>1. IInv /\ [Next]_vars =>
        [AnswersTheOwner /\ answer'.outcome = "OK"
           => answer'.ask.quoteId \notin refused]_vars
  <2> SUFFICES ASSUME IInv, [Next]_vars, AnswersTheOwner, answer'.outcome = "OK",
                      answer'.ask.quoteId \in refused
               PROVE  FALSE
    OBVIOUS
  <2> USE DEF IInv
  <2>1. PICK v \in Verifiers : /\ found[v] # NoQuote
                             /\ ~IsExpired(found[v])
                             /\ Answer(ask[v], "OK", found[v].total)
    BY AnswerStep DEF AnswersTheOwner, Answer
  <2>2. found[v] = returned[answer'.ask.quoteId]
    BY <2>1 DEF Answer, HeldWasReturned
  <2>3. QED
    BY <2>1, <2>2 DEF IsExpired, RefusedIsExpired
<1>2. QED
  BY <1>1, Invariance, PTL DEF Spec, NoRevival
=============================================================================
