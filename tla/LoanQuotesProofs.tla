-------------------------- MODULE LoanQuotesProofs --------------------------
(***************************************************************************)
(* The properties of LoanQuotes, for every LTV, duration, amount and price: *)
(* the two bounds that protect the treasury, the documented formula, and the *)
(* distance between what the borrower is shown and what the program lends.   *)
(***************************************************************************)
EXTENDS LoanQuotes, ArithmeticProofs

\* A quote is made of unsigned integers.
QuoteType ==
  base_ltv \in Nat /\ base_ltv <= 9000 /\ duration \in Nat /\ collateral \in Nat /\ price \in Nat

\* Asking for longer durations keeps a quote so.
LEMMA QuoteTypeInvariant == Spec => []QuoteType
<1>1. Init => QuoteType
  <2> SUFFICES ASSUME Init PROVE QuoteType
    OBVIOUS
  <2>1. \A b \in BaseLtvs : b \in Nat /\ b <= 9000
    BY QuotesAssumption
  <2>2. /\ base_ltv \in BaseLtvs /\ duration \in Nat
        /\ collateral \in Nat /\ price \in Nat
    BY QuotesAssumption DEF Init
  <2> QED
    BY <2>1, <2>2 DEF QuoteType
<1>2. QuoteType /\ [AskLonger]_vars => QuoteType'
  BY DEF QuoteType, AskLonger, vars
<1> QED
  BY <1>1, <1>2, PTL DEF Spec

\* Whatever is quoted lends less than nine tenths of the collateral's value,
\* rounded up by one lamport (create_loan.rs:234-260).
LEMMA QuoteOvercollateralised == QuoteType => LoanIsOvercollateralised
<1> SUFFICES ASSUME QuoteType PROVE LoanIsOvercollateralised
  OBVIOUS
<1> DEFINE ltv == DurationAdjustedLtv(base_ltv, duration)
           x == collateral * price
           m == MulDiv(x, ltv, PRICE_UNITS)
           value == CollateralValue(collateral, price)
<1>1. ltv \in Nat /\ ltv <= 9000
  <2>1. base_ltv \in Nat /\ duration \in Nat
    BY DEF QuoteType
  <2> QED
    BY <2>1, EffectiveLtvBounds
<1>2. x \in Nat
  BY DEF QuoteType
<1> HIDE DEF ltv, x
<1>3. x * ltv \in Nat /\ x * ltv <= 9000 * x
  BY <1>1, <1>2
<1>4. m \in Nat /\ 1000 * m <= x * ltv
  BY <1>3, DivFacts, Scales DEF MulDiv, PRICE_UNITS
<1>5. Lent = m \div BPS_DIVISOR
  BY <1>1, <1>2, MulDivWideIsMulDiv, Scales DEF Lent, LoanAmount, ltv, x
<1> HIDE DEF m
<1>6. Lent \in Nat /\ 10000 * Lent <= m
  BY <1>4, <1>5, DivFacts, Scales DEF BPS_DIVISOR
<1>7. value \in Nat /\ x < 1000 * value + 1000
  BY <1>2, DivFacts, Scales DEF CollateralValue, PRICE_UNITS, x
<1> HIDE DEF value
<1>8. 1000 * (10000 * Lent) < 1000 * (9000 * (value + 1))
  BY <1>2, <1>3, <1>4, <1>6, <1>7
<1>9. 10000 * Lent < 9000 * (value + 1)
  BY <1>6, <1>7, <1>8
<1> QED
  BY <1>9 DEF LoanIsOvercollateralised, BPS_DIVISOR, value

\* Every quote is overcollateralised.
THEOREM Overcollateralised == Spec => []LoanIsOvercollateralised
  BY QuoteTypeInvariant, QuoteOvercollateralised, PTL

\* The effective LTV does not grow with the duration, also across the change
\* of formula at 48 hours (utils.rs:286-335).
LEMMA LtvFallsWithDuration ==
  ASSUME NEW ltv \in Nat, NEW d \in Nat
  PROVE  DurationAdjustedLtv(ltv, d + 1) <= DurationAdjustedLtv(ltv, d)
<1> DEFINE c(t) == Clamp(t, MIN_LOAN_DURATION, MAX_LOAN_DURATION)
           bonus_rate(t) == MulDiv(MAX_LTV_BONUS_BPS, BASE_DURATION - t,
                                   BASE_DURATION - MIN_LOAN_DURATION)
           penalty_rate(t) == MulDiv(MAX_LTV_PENALTY_BPS, t - BASE_DURATION,
                                     MAX_LOAN_DURATION - BASE_DURATION)
           raw(t) == IF t <= BASE_DURATION THEN ltv + DurationBonus(ltv, t)
                     ELSE ltv - DurationPenalty(ltv, t)
           s == c(d)
           t == c(d + 1)
<1>1. s \in Nat /\ t \in Nat /\ s <= t /\ MIN_LOAN_DURATION <= s /\ t <= MAX_LOAN_DURATION
  BY DurationAssumption DEF Clamp
<1> HIDE DEF s, t
<1>2. BASE_DURATION - MIN_LOAN_DURATION \in Nat /\ BASE_DURATION - MIN_LOAN_DURATION > 0
      /\ MAX_LOAN_DURATION - BASE_DURATION \in Nat /\ MAX_LOAN_DURATION - BASE_DURATION > 0
  BY DurationAssumption
<1>3. ASSUME NEW u \in Nat, u <= BASE_DURATION
      PROVE  bonus_rate(u) \in Nat /\ DurationBonus(ltv, u) \in Nat
  <2>1. BASE_DURATION - u \in Nat
    BY <1>3, DurationAssumption
  <2>2. bonus_rate(u) \in Nat
    BY <1>2, <2>1, MulDivType, Scales
  <2> QED
    BY <2>2, MulDivType, Scales DEF DurationBonus
<1>4. ASSUME NEW u \in Nat, BASE_DURATION <= u
      PROVE  penalty_rate(u) \in Nat /\ DurationPenalty(ltv, u) \in Nat
  <2>1. u - BASE_DURATION \in Nat
    BY <1>4, DurationAssumption
  <2>2. penalty_rate(u) \in Nat
    BY <1>2, <2>1, MulDivType, Scales
  <2> QED
    BY <2>2, MulDivType, Scales DEF DurationPenalty
<1>5. CASE t <= BASE_DURATION
  <2>1. BASE_DURATION - s \in Nat /\ BASE_DURATION - t \in Nat
        /\ BASE_DURATION - t <= BASE_DURATION - s
    BY <1>1, <1>5, DurationAssumption
  <2>2. bonus_rate(t) <= bonus_rate(s) /\ bonus_rate(t) \in Nat /\ bonus_rate(s) \in Nat
    BY <1>1, <1>2, <1>3, <1>5, <2>1, MulDivMonotone, Scales, DurationAssumption
  <2>3. DurationBonus(ltv, t) <= DurationBonus(ltv, s)
    BY <2>2, MulDivMonotone, Scales DEF DurationBonus
  <2>4. raw(t) <= raw(s) /\ raw(t) \in Int /\ raw(s) \in Int
    BY <1>1, <1>3, <1>5, <2>3, DurationAssumption
  <2> HIDE DEF raw
  <2>5. Clamp(raw(t), 1000, 9000) <= Clamp(raw(s), 1000, 9000)
    BY <2>4 DEF Clamp
  <2> QED
    BY <2>5 DEF DurationAdjustedLtv, raw, s, t
<1>6. CASE ~(t <= BASE_DURATION) /\ s <= BASE_DURATION
  <2>1. raw(t) <= raw(s) /\ raw(t) \in Int /\ raw(s) \in Int
    BY <1>1, <1>3, <1>4, <1>6, DurationAssumption
  <2> HIDE DEF raw
  <2>2. Clamp(raw(t), 1000, 9000) <= Clamp(raw(s), 1000, 9000)
    BY <2>1 DEF Clamp
  <2> QED
    BY <2>2 DEF DurationAdjustedLtv, raw, s, t
<1>7. CASE ~(t <= BASE_DURATION) /\ ~(s <= BASE_DURATION)
  <2>1. s - BASE_DURATION \in Nat /\ t - BASE_DURATION \in Nat
        /\ s - BASE_DURATION <= t - BASE_DURATION
    BY <1>1, <1>7, DurationAssumption
  <2>2. penalty_rate(s) <= penalty_rate(t) /\ penalty_rate(t) \in Nat /\ penalty_rate(s) \in Nat
    <3>1. penalty_rate(t) \in Nat /\ penalty_rate(s) \in Nat
      BY <1>1, <1>4, <1>7, DurationAssumption
    <3>2. MAX_LTV_PENALTY_BPS \in Nat /\ MAX_LTV_PENALTY_BPS <= MAX_LTV_PENALTY_BPS
      BY Scales
    <3>3. penalty_rate(s) <= penalty_rate(t)
      BY <1>2, <2>1, <3>2, MulDivMonotone
    <3> QED
      BY <3>1, <3>3
  <2>3. DurationPenalty(ltv, s) <= DurationPenalty(ltv, t)
    BY <2>2, MulDivMonotone, Scales DEF DurationPenalty
  <2>4. raw(t) <= raw(s) /\ raw(t) \in Int /\ raw(s) \in Int
    BY <1>1, <1>4, <1>7, <2>3, DurationAssumption
  <2> HIDE DEF raw
  <2>5. Clamp(raw(t), 1000, 9000) <= Clamp(raw(s), 1000, 9000)
    BY <2>4 DEF Clamp
  <2> QED
    BY <2>5 DEF DurationAdjustedLtv, raw, s, t
<1> QED
  BY <1>1, <1>5, <1>6, <1>7

\* A quote for a longer duration never lends more.
THEOREM LongerLendsNoMore == Spec => LongerLoanLendsNoMore
<1>1. QuoteType /\ [AskLonger]_vars => [Lent' <= Lent]_vars
  <2> SUFFICES ASSUME QuoteType, AskLonger PROVE Lent' <= Lent
    BY DEF vars
  <2> DEFINE u == DurationAdjustedLtv(base_ltv, duration)
             v == DurationAdjustedLtv(base_ltv, duration + 1)
             x == collateral * price
  <2>1. u \in Nat /\ v \in Nat /\ v <= u /\ x \in Nat
    <3>1. base_ltv \in Nat /\ duration \in Nat /\ duration + 1 \in Nat /\ x \in Nat
      BY DEF QuoteType
    <3> HIDE DEF x
    <3>2. u \in Nat
      BY <3>1, EffectiveLtvBounds
    <3>4. v \in Nat
      BY <3>1, EffectiveLtvBounds
    <3>3. v <= u
      BY <3>1, LtvFallsWithDuration
    <3> QED
      BY <3>1, <3>2, <3>3, <3>4
  <2>2. Lent = MulDiv(x, u, PRICE_UNITS) \div BPS_DIVISOR
    BY <2>1, MulDivWideIsMulDiv, Scales DEF Lent, LoanAmount
  <2>3. Lent' = MulDiv(x, v, PRICE_UNITS) \div BPS_DIVISOR
    <3>1. Lent' = LoanAmount(collateral, price, v)
      BY DEF Lent, AskLonger
    <3> QED
      BY <2>1, <3>1, MulDivWideIsMulDiv, Scales DEF LoanAmount
  <2> HIDE DEF u, v, x
  <2>4. MulDiv(x, v, PRICE_UNITS) <= MulDiv(x, u, PRICE_UNITS)
        /\ MulDiv(x, v, PRICE_UNITS) \in Nat /\ MulDiv(x, u, PRICE_UNITS) \in Nat
    <3>1. PRICE_UNITS \in Nat /\ PRICE_UNITS > 0 /\ x <= x
      BY <2>1, Scales
    <3>2. MulDiv(x, v, PRICE_UNITS) <= MulDiv(x, u, PRICE_UNITS)
      BY <2>1, <3>1, MulDivMonotone
    <3> QED
      BY <2>1, <3>1, <3>2, MulDivType
  <2> QED
    BY <2>2, <2>3, <2>4 DEF BPS_DIVISOR
<1> QED
  BY <1>1, QuoteTypeInvariant, PTL DEF Spec, LongerLoanLendsNoMore

-----------------------------------------------------------------------------
(* The effective LTV against the documented formula, and the estimate of the *)
(* SDK against the program.                                                 *)

\* A product of a natural and a smaller one.
LEMMA TimesMonotone ==
  ASSUME NEW a \in Nat, NEW b \in Nat, NEW c \in Nat, b <= c
  PROVE  a * b <= a * c /\ a * b \in Nat /\ a * c \in Nat
<1>1. c = b + (c - b) /\ c - b \in Nat
  OBVIOUS
<1> QED
  BY <1>1

\* The quotient of a number between two multiples that are two apart.
LEMMA QuotientBetween ==
  ASSUME NEW n \in Nat, NEW k \in Nat, k > 0, NEW q \in Int,
         k * q <= n, n < k * q + k + k
  PROVE  n \div k = q \/ n \div k = q + 1
<1>1. n \div k \in Nat /\ k * (n \div k) <= n /\ n < k * (n \div k) + k
  BY DivFacts
<1> DEFINE m == n \div k
<1>2. m \in Nat /\ k * m <= n /\ n < k * m + k
  BY <1>1
<1> HIDE DEF m
<1>3. q - 1 < m
  <2> SUFFICES ASSUME m <= q - 1 PROVE FALSE
    BY <1>2
  <2>1. m + 1 <= q /\ q \in Nat
    BY <1>2
  <2>2. k * (m + 1) <= k * q
    BY <1>2, <2>1, TimesMonotone
  <2> QED
    BY <1>2, <2>2
<1>4. m < q + 2
  <2> SUFFICES ASSUME q + 2 <= m PROVE FALSE
    BY <1>2
  <2>0. PICK j \in Nat : m = (q + 2) + j
    BY <1>2
  <2>1. k * m = k * q + k + k + k * j /\ k * j \in Nat
    BY <1>2, <2>0
  <2> QED
    BY <1>2, <2>1
<1> QED
  BY <1>2, <1>3, <1>4 DEF m

\* A quarter of b for a part x of a range r, truncated once and twice.
Once(b, x, r) == (b * x) \div (4 * r)
Twice(b, x, r) == MulDiv(b, MulDiv(2500, x, r), BPS_DIVISOR)

\* That n is the quotient of b * x by 4 * r.
IsQuarter(n, b, x, r) == 4 * r * n <= b * x /\ b * x < 4 * r * n + 4 * r

\* The program's bonus or penalty for a part x of a range r, truncated twice,
\* against the documented quarter of it, truncated once: the second is the
\* first or one more.
LEMMA TwoRoundings ==
  ASSUME NEW b \in Nat, b <= 9000, NEW x \in Nat, NEW r \in Nat, r > 0
  PROVE  /\ Once(b, x, r) \in Nat /\ Twice(b, x, r) \in Nat
         /\ IsQuarter(Once(b, x, r), b, x, r)
         /\ Once(b, x, r) = Twice(b, x, r) \/ Once(b, x, r) = Twice(b, x, r) + 1
<1> DEFINE a == b * x
           q == MulDiv(2500, x, r)
           p == MulDiv(b, q, BPS_DIVISOR)
           d == a \div (4 * r)
<1>1. a \in Nat /\ 4 * r \in Nat /\ 4 * r > 0 /\ 2500 * x \in Nat
  OBVIOUS
<1>2. q \in Nat /\ r * q <= 2500 * x /\ 2500 * x < r * q + r
  BY <1>1, DivFacts DEF MulDiv
<1>3. d \in Nat /\ 4 * r * d <= a /\ a < 4 * r * d + 4 * r
  BY <1>1, DivFacts
<1> HIDE DEF q
<1>4. b * q \in Nat
  BY <1>2
<1>5. p \in Nat /\ 10000 * p <= b * q /\ b * q < 10000 * p + 10000
  BY <1>4, DivFacts DEF MulDiv, BPS_DIVISOR
<1> HIDE DEF p, d
<1>6. (4 * r) * p <= a
  <2>1. r * (10000 * p) <= r * (b * q)
    BY <1>4, <1>5, TimesMonotone
  <2>2. b * (r * q) <= b * (2500 * x)
    BY <1>1, <1>2, TimesMonotone
  <2>3. r * (b * q) = b * (r * q) /\ b * (2500 * x) = 2500 * a
        /\ r * (10000 * p) = 2500 * ((4 * r) * p)
    BY <1>2, <1>5
  <2> PICK z \in Nat : z = (4 * r) * p
    BY <1>5
  <2> HIDE DEF a
  <2> PICK u \in Nat : u = r * (b * q)
    BY <1>4
  <2>4. 2500 * z <= u /\ u <= 2500 * a
    BY <2>1, <2>2, <2>3
  <2> QED
    BY <1>1, <2>4
<1>7. a < (4 * r) * p + 4 * r + 4 * r
  <2>1. b * (2500 * x) <= b * (r * q + r)
    BY <1>1, <1>2, TimesMonotone
  <2>2. b * (2500 * x) = 2500 * a /\ b * (r * q + r) = r * (b * q) + r * b
    BY <1>2
  <2>3. r * (b * q + 1) <= r * (10000 * p + 10000)
    BY <1>4, <1>5, TimesMonotone
  <2>4. r * b <= r * 9000
    BY TimesMonotone
  <2>5. r * (b * q + 1) = r * (b * q) + r /\ r * (b * q) \in Nat /\ r * b \in Nat
        /\ r * (10000 * p + 10000) = 2500 * ((4 * r) * p) + 10000 * r
        /\ (4 * r) * p \in Nat
    BY <1>4, <1>5
  <2> HIDE DEF a
  <2>6. 2500 * a + r <= 2500 * ((4 * r) * p) + 19000 * r
    BY <1>1, <2>1, <2>2, <2>3, <2>4, <2>5
  <2> QED
    BY <1>1, <2>5, <2>6
<1>8. d = p \/ d = p + 1
  BY <1>1, <1>5, <1>6, <1>7, QuotientBetween DEF d
<1> QED
  BY <1>3, <1>5, <1>8 DEF d, p, q, Once, Twice, IsQuarter
\* Before they are held between 10% and 90%: the part of the range, the
\* documented quarter of it in basis points, and the three LTVs around it.
InRange(d) == Clamp(d, MIN_LOAN_DURATION, MAX_LOAN_DURATION)
Part(d) == IF InRange(d) <= BASE_DURATION THEN BASE_DURATION - InRange(d)
           ELSE InRange(d) - BASE_DURATION
Quarter(b, d) == (b * Part(d)) \div (4 * SdkRange(InRange(d)))
RawLtv(b, d) == IF InRange(d) <= BASE_DURATION THEN b + DurationBonus(b, InRange(d))
                ELSE b - DurationPenalty(b, InRange(d))
RawSdkLtv(b, d) ==
  Rounded(b * (4 * SdkRange(InRange(d)) + BASE_DURATION - InRange(d)),
          4 * SdkRange(InRange(d)))
RawDocumentedLtv(b, d) == IF InRange(d) <= BASE_DURATION THEN b + Quarter(b, d)
                          ELSE b - Quarter(b, d)

\* What the duration contributes is less than a whole range.
LEMMA RangeFacts ==
  ASSUME NEW d \in Nat
  PROVE  /\ InRange(d) \in Nat /\ Part(d) \in Nat
         /\ SdkRange(InRange(d)) \in Nat /\ SdkRange(InRange(d)) > 0
         /\ Part(d) <= SdkRange(InRange(d))
  BY DurationAssumption DEF InRange, Part, SdkRange, Clamp

\* The program's LTV and the documented one are a basis point apart at most.
LEMMA RawLtvIsDocumented ==
  ASSUME NEW b \in Nat, b <= 9000, NEW d \in Nat
  PROVE  /\ RawLtv(b, d) \in Int /\ RawDocumentedLtv(b, d) \in Int /\ Quarter(b, d) \in Nat
         /\ InRange(d) <= BASE_DURATION =>
              /\ RawDocumentedLtv(b, d) = b + Quarter(b, d)
              /\ \/ RawLtv(b, d) = RawDocumentedLtv(b, d)
                 \/ RawLtv(b, d) = RawDocumentedLtv(b, d) - 1
         /\ ~(InRange(d) <= BASE_DURATION) =>
              /\ RawDocumentedLtv(b, d) = b - Quarter(b, d)
              /\ \/ RawLtv(b, d) = RawDocumentedLtv(b, d)
                 \/ RawLtv(b, d) = RawDocumentedLtv(b, d) + 1
<1> PICK x, r : x = Part(d) /\ r = SdkRange(InRange(d))
  OBVIOUS
<1>1. x \in Nat /\ r \in Nat /\ r > 0
  BY RangeFacts
<1>o. PICK once, twice : once = Once(b, x, r) /\ twice = Twice(b, x, r)
  OBVIOUS
<1>2. once \in Nat /\ twice \in Nat /\ (once = twice \/ once = twice + 1)
  BY <1>1, <1>o, TwoRoundings
<1>3. Quarter(b, d) = once
  BY <1>o DEF Quarter, Once
<1>4. InRange(d) <= BASE_DURATION => DurationBonus(b, InRange(d)) = twice
  BY <1>o DEF Twice, DurationBonus, Part, SdkRange, MAX_LTV_BONUS_BPS
<1>5. ~(InRange(d) <= BASE_DURATION) => DurationPenalty(b, InRange(d)) = twice
  BY <1>o DEF Twice, DurationPenalty, Part, SdkRange, MAX_LTV_PENALTY_BPS
<1> QED
  BY <1>2, <1>3, <1>4, <1>5 DEF RawLtv, RawDocumentedLtv

\* The SDK's LTV, rounded once to the nearest, is the documented one, one more
\* or, past 48 hours, one less.
LEMMA RawSdkLtvIsDocumented ==
  ASSUME NEW b \in Nat, b <= 9000, NEW d \in Nat
  PROVE  /\ RawSdkLtv(b, d) \in Int
         /\ InRange(d) <= BASE_DURATION =>
              \/ RawSdkLtv(b, d) = b + Quarter(b, d)
              \/ RawSdkLtv(b, d) = b + Quarter(b, d) + 1
         /\ ~(InRange(d) <= BASE_DURATION) =>
              \/ RawSdkLtv(b, d) = b - Quarter(b, d)
              \/ RawSdkLtv(b, d) = b - Quarter(b, d) - 1
<1> PICK x, r, once : /\ x = Part(d) /\ r = SdkRange(InRange(d)) /\ once = Quarter(b, d)
  OBVIOUS
<1>1. x \in Nat /\ r \in Nat /\ r > 0 /\ x <= r
  BY RangeFacts
<1>2. once \in Nat /\ 4 * r * once <= b * x /\ b * x < 4 * r * once + 4 * r
  <2>1. once = Once(b, x, r)
    BY DEF Quarter, Once
  <2>2. Once(b, x, r) \in Nat /\ IsQuarter(Once(b, x, r), b, x, r)
    BY <1>1, TwoRoundings
  <2> QED
    BY ONLY <2>1, <2>2 DEF IsQuarter
<1> PICK k \in Nat : k = 2 * (4 * r)
  BY <1>1
<1>3. k > 0
  BY <1>1
<1>4. /\ b * x \in Nat /\ k * once \in Nat /\ k * b \in Nat
      /\ k * once <= 2 * (b * x) /\ 2 * (b * x) < k * once + k
  BY <1>1, <1>2
<1>5. ASSUME InRange(d) <= BASE_DURATION
      PROVE  RawSdkLtv(b, d) = b + once \/ RawSdkLtv(b, d) = b + once + 1
  <2> DEFINE n == 2 * (b * (4 * r + x)) + 4 * r
  <2>1. RawSdkLtv(b, d) = n \div k
    <3>1. 4 * r + BASE_DURATION - InRange(d) = 4 * r + x
      BY <1>1, <1>5, RangeFacts, DurationAssumption DEF Part
    <3> QED
      BY <3>1 DEF RawSdkLtv, Rounded
  <2>2. n = k * b + 2 * (b * x) + 4 * r /\ n \in Nat
    BY <1>1
  <2>3. k * (b + once) = k * b + k * once
    BY <1>2
  <2> HIDE DEF n
  <2> PICK q \in Int : q = b + once
    BY <1>2
  <2>4. k * q <= n /\ n < k * q + k + k
    BY <1>1, <1>4, <2>2, <2>3
  <2>5. n \div k = q \/ n \div k = q + 1
    <3>1. n \in Nat /\ k \in Nat /\ q \in Int
      BY <2>2
    <3> QED
      BY ONLY <1>3, <2>4, <3>1, QuotientBetween
  <2> QED
    BY <2>1, <2>5
<1>6. ASSUME ~(InRange(d) <= BASE_DURATION)
      PROVE  RawSdkLtv(b, d) = b - once - 1 \/ RawSdkLtv(b, d) = b - once
  <2> DEFINE n == 2 * (b * (4 * r - x)) + 4 * r
  <2>1. RawSdkLtv(b, d) = n \div k
    <3>1. 4 * r + BASE_DURATION - InRange(d) = 4 * r - x
      BY <1>1, <1>6, RangeFacts, DurationAssumption DEF Part
    <3> QED
      BY <3>1 DEF RawSdkLtv, Rounded
  <2>2. n = k * b - 2 * (b * x) + 4 * r /\ n \in Nat
    <3>1. n = k * b - 2 * (b * x) + 4 * r
      BY <1>1
    <3>2. b * x <= b * (4 * r)
      BY <1>1, TimesMonotone
    <3>3. k * b = 2 * (b * (4 * r))
      BY <1>1
    <3> HIDE DEF n
    <3> QED
      BY <1>1, <1>4, <3>1, <3>2, <3>3
  <2>3. k * (b - once - 1) = k * b - k * once - k
    BY <1>2
  <2> HIDE DEF n
  <2> PICK q \in Int : q = b - once - 1
    BY <1>2
  <2>4. k * q <= n /\ n < k * q + k + k
    BY <1>1, <1>4, <2>2, <2>3
  <2>5. n \div k = q \/ n \div k = q + 1
    <3>1. n \in Nat /\ k \in Nat /\ q \in Int
      BY <2>2
    <3> QED
      BY ONLY <1>3, <2>4, <3>1, QuotientBetween
  <2> QED
    BY <1>2, <2>1, <2>5
<1> QED
  BY <1>2, <1>5, <1>6

\* The program's effective LTV follows the documented formula, whatever the
\* durations are: two truncations lose a basis point at most.
LEMMA QuoteFollowsFormula == QuoteType => LtvFollowsFormula
<1> SUFFICES ASSUME QuoteType PROVE LtvFollowsFormula
  OBVIOUS
<1>1. base_ltv \in Nat /\ base_ltv <= 9000 /\ duration \in Nat
  BY DEF QuoteType
<1> PICK raw, doc : raw = RawLtv(base_ltv, duration) /\ doc = RawDocumentedLtv(base_ltv, duration)
  OBVIOUS
<1>2. raw \in Int /\ doc \in Int /\ (raw = doc \/ raw = doc - 1 \/ raw = doc + 1)
  <2>1. RawLtv(base_ltv, duration) = RawDocumentedLtv(base_ltv, duration)
        \/ RawLtv(base_ltv, duration) = RawDocumentedLtv(base_ltv, duration) - 1
        \/ RawLtv(base_ltv, duration) = RawDocumentedLtv(base_ltv, duration) + 1
    BY ONLY <1>1, RawLtvIsDocumented
  <2> QED
    BY <1>1, <2>1, RawLtvIsDocumented
<1>3. DurationAdjustedLtv(base_ltv, duration) = Clamp(raw, 1000, 9000)
  BY DEF DurationAdjustedLtv, RawLtv, InRange
<1>4. DocumentedLtv = doc
  <2>1. InRange(duration) = IF duration < MIN_LOAN_DURATION THEN MIN_LOAN_DURATION
                            ELSE IF duration > MAX_LOAN_DURATION THEN MAX_LOAN_DURATION
                            ELSE duration
    BY <1>1, DurationAssumption DEF InRange, Clamp
  <2> QED
    BY <2>1 DEF DocumentedLtv, RawDocumentedLtv, Quarter, Part, SdkRange
<1>5. \/ Clamp(raw, 1000, 9000) - doc = -1
      \/ Clamp(raw, 1000, 9000) - doc = 0
      \/ Clamp(raw, 1000, 9000) - doc = 1
      \/ Clamp(raw, 1000, 9000) = 9000 /\ doc > 9000
      \/ Clamp(raw, 1000, 9000) = 1000 /\ doc < 1000
  BY <1>2 DEF Clamp
<1> QED
  BY <1>2, <1>3, <1>4, <1>5 DEF LtvFollowsFormula

\* The effective LTV follows the formula of the program's README in every quote.
THEOREM FormulaFollowed == Spec => []LtvFollowsFormula
  BY QuoteTypeInvariant, QuoteFollowsFormula, PTL

\* The LTV the borrower is shown and the one the program applies are two basis
\* points apart at most.
LEMMA SdkLtvIsClose ==
  ASSUME NEW b \in Nat, b <= 9000, NEW d \in Nat
  PROVE  /\ SdkLtv(b, d) \in Nat /\ SdkLtv(b, d) <= 9000
         /\ SdkLtv(b, d) <= DurationAdjustedLtv(b, d) + 2
         /\ DurationAdjustedLtv(b, d) <= SdkLtv(b, d) + 2
<1> PICK raw, sdk : raw = RawLtv(b, d) /\ sdk = RawSdkLtv(b, d)
  OBVIOUS
<1> PICK doc, quarter : doc = RawDocumentedLtv(b, d) /\ quarter = Quarter(b, d)
  OBVIOUS
<1>1. raw \in Int /\ sdk \in Int /\ sdk <= raw + 2 /\ raw <= sdk + 2
  <2>1. raw \in Int /\ sdk \in Int /\ doc \in Int /\ quarter \in Nat
    BY RawLtvIsDocumented, RawSdkLtvIsDocumented
  <2>2. CASE InRange(d) <= BASE_DURATION
    <3>1. doc = b + quarter /\ (raw = doc \/ raw = doc - 1)
      BY <2>2, RawLtvIsDocumented
    <3>2. sdk = b + quarter \/ sdk = b + quarter + 1
      BY <2>2, RawSdkLtvIsDocumented
    <3> QED
      BY <2>1, <3>1, <3>2
  <2>3. CASE ~(InRange(d) <= BASE_DURATION)
    <3>1. doc = b - quarter /\ (raw = doc \/ raw = doc + 1)
      BY <2>3, RawLtvIsDocumented
    <3>2. sdk = b - quarter \/ sdk = b - quarter - 1
      BY <2>3, RawSdkLtvIsDocumented
    <3> QED
      BY <2>1, <3>1, <3>2
  <2> QED
    BY <2>2, <2>3
<1>2. DurationAdjustedLtv(b, d) = Clamp(raw, 1000, 9000)
  BY DEF DurationAdjustedLtv, RawLtv, InRange
<1>3. SdkLtv(b, d) = Clamp(sdk, 1000, 9000)
  BY DEF SdkLtv, RawSdkLtv, InRange
<1> QED
  BY <1>1, <1>2, <1>3 DEF Clamp

\* The amount shown and the amount lent, from LTVs that close.
LEMMA QuoteMatchesEstimate == QuoteType => EstimateMatchesProgram
<1> SUFFICES ASSUME QuoteType PROVE EstimateMatchesProgram
  OBVIOUS
<1>0. base_ltv \in Nat /\ base_ltv <= 9000 /\ duration \in Nat
      /\ collateral \in Nat /\ price \in Nat
  BY DEF QuoteType
<1> PICK ltv, shown, x, value, sdk :
      /\ ltv = DurationAdjustedLtv(base_ltv, duration)
      /\ shown = SdkLtv(base_ltv, duration)
      /\ x = collateral * price
      /\ value = CollateralValue(collateral, price)
      /\ sdk = SdkSolAmount(collateral, price, base_ltv, duration)
  OBVIOUS
<1>1. /\ ltv \in Nat /\ ltv <= 9000 /\ shown \in Nat
      /\ shown <= ltv + 2 /\ ltv <= shown + 2
  BY <1>0, EffectiveLtvBounds, SdkLtvIsClose
<1>2. x \in Nat
  BY <1>0
<1>3. value \in Nat /\ 1000 * value <= x /\ x < 1000 * value + 1000
  BY <1>2, DivFacts DEF CollateralValue, PRICE_UNITS
<1> PICK m : m = MulDiv(x, ltv, PRICE_UNITS)
  OBVIOUS
<1>4. x * ltv \in Nat /\ value * ltv \in Nat /\ value * shown \in Nat
  BY <1>1, <1>2, <1>3
<1>5. m \in Nat /\ 1000 * m <= x * ltv /\ x * ltv < 1000 * m + 1000
  BY <1>4, DivFacts DEF MulDiv, PRICE_UNITS
<1>6. Lent \in Nat /\ 10000 * Lent <= m /\ m < 10000 * Lent + 10000
  <2>1. Lent = m \div BPS_DIVISOR
    BY <1>1, <1>2, MulDivWideIsMulDiv, Scales DEF Lent, LoanAmount
  <2> QED
    BY <1>5, <2>1, DivFacts DEF BPS_DIVISOR
<1>7. sdk \in Nat /\ 10000 * sdk <= value * shown /\ value * shown < 10000 * sdk + 10000
  <2>1. sdk = MulDiv(value, shown, BPS_DIVISOR)
    BY <1>1, <1>3, MulDivWideIsMulDiv, Scales DEF SdkSolAmount
  <2> QED
    BY <1>4, <2>1, DivFacts DEF MulDiv, BPS_DIVISOR
<1>8. value * shown <= value * ltv + 2 * value /\ value * ltv <= value * shown + 2 * value
  <2>1. value * shown <= value * (ltv + 2)
    BY <1>1, <1>3, TimesMonotone
  <2>2. value * ltv <= value * (shown + 2)
    BY <1>1, <1>3, TimesMonotone
  <2> QED
    BY <1>1, <1>3, <2>1, <2>2
<1>9. 1000 * (value * ltv) <= x * ltv /\ x * ltv <= 1000 * (value * ltv) + 1000 * ltv
  <2>1. ltv * (1000 * value) <= ltv * x /\ ltv * x <= ltv * (1000 * value + 1000)
    BY <1>1, <1>2, <1>3, TimesMonotone
  <2> QED
    BY <1>1, <1>2, <1>3, <2>1
<1>10. 10000 * (sdk - Lent) < 2 * value + 20000
  BY <1>3, <1>4, <1>5, <1>6, <1>7, <1>8, <1>9
<1>11. 10000 * (Lent - sdk) < 2 * value + 20000
  BY <1>1, <1>3, <1>4, <1>5, <1>6, <1>7, <1>8, <1>9
<1> QED
  BY <1>3, <1>6, <1>7, <1>10, <1>11 DEF EstimateMatchesProgram, BPS_DIVISOR

\* The borrower is shown what the program lends, up to two basis points of the
\* collateral's value and two lamports, in every quote.
THEOREM EstimateClose == Spec => []EstimateMatchesProgram
  BY QuoteTypeInvariant, QuoteMatchesEstimate, PTL
=============================================================================
