-------------------------- MODULE FixedMath_proofs --------------------------
(***************************************************************************)
(* Facts about the program's integer arithmetic, for every value of the    *)
(* scale factors, and about sums over finite sets and ranks in them.       *)
(***************************************************************************)
EXTENDS FixedMath, Functions, FiniteSetTheorems, TLAPS

\* Integer division rounds down, by less than one.
LEMMA DivBound ==
    ASSUME NEW a \in Nat, NEW b \in Nat \ {0}
    PROVE  /\ a \div b \in Nat
           /\ b * (a \div b) <= a
           /\ a < b * (a \div b) + b
  OBVIOUS

\* CeilDiv rounds up, by less than one.
LEMMA CeilBound ==
    ASSUME NEW a \in Nat, NEW b \in Nat \ {0}
    PROVE  /\ CeilDiv(a, b) \in Nat
           /\ a <= b * CeilDiv(a, b)
           /\ b * CeilDiv(a, b) < a + b
<1>1. a + b - 1 \in Nat
  OBVIOUS
<1>2. /\ (a + b - 1) \div b \in Nat
      /\ b * ((a + b - 1) \div b) <= a + b - 1
      /\ a + b - 1 < b * ((a + b - 1) \div b) + b
  BY <1>1, DivBound
<1> QED
  BY <1>2 DEF CeilDiv

\* A u64 is a natural number up to MAX_U64.
LEMMA Range64 ==
    /\ MAX_U64 \in Nat
    /\ \A n : n \in U64Range <=> n \in Nat /\ n <= MAX_U64
  BY ScaleAssumption DEF U64Range

\* TruncDiv rounds toward zero.
LEMMA TruncType ==
    ASSUME NEW a \in Int, NEW b \in Nat \ {0}
    PROVE  TruncDiv(a, b) \in Int
<1>1. CASE a >= 0
  BY <1>1, DivBound DEF TruncDiv
<1>2. CASE ~(a >= 0)
  <2>1. -a \in Nat
    BY <1>2
  <2>2. (-a) \div b \in Nat
    BY <2>1, DivBound
  <2> QED
    BY <1>2, <2>2 DEF TruncDiv
<1> QED
  BY <1>1, <1>2

\* A cast to u64 gives a u64, and never a larger number.
LEMMA U64Type ==
    ASSUME NEW n \in Int
    PROVE  U64(n) \in U64Range /\ U64(n) \in Nat
  BY ScaleAssumption DEF U64, U64Range

\* A cast never grows a number, and keeps one that fits.
LEMMA U64Bound ==
    ASSUME NEW n \in Nat
    PROVE  /\ U64(n) <= n
           /\ n <= MAX_U64 => U64(n) = n
  BY ScaleAssumption DEF U64

\* A share of at most all of an amount is a u64 no larger than the amount.
LEMMA ShareBound ==
    ASSUME NEW amount \in Nat, NEW bps \in 0..BPS
    PROVE  mul_bps(amount, bps) \in Nat /\ mul_bps(amount, bps) <= amount
<1>1. BPS \in Nat \ {0} /\ bps \in Nat /\ amount * bps \in Nat
  BY ScaleAssumption
<1> DEFINE q == (amount * bps) \div BPS
<1>2. q \in Nat /\ BPS * q <= amount * bps
  BY <1>1, DivBound
<1>3. q <= amount
  <2>1. SUFFICES ASSUME q >= amount + 1 PROVE FALSE
    BY <1>2
  <2>2. BPS * q >= BPS * amount + BPS
    BY <1>1, <1>2, <2>1
  <2>3. amount * bps <= amount * BPS
    BY <1>1
  <2> QED
    BY <1>1, <1>2, <2>2, <2>3
<1> HIDE DEF q
<1>4. U64(q) \in Nat /\ U64(q) <= q
  BY <1>2, U64Type, U64Bound
<1> QED
  BY <1>2, <1>3, <1>4 DEF mul_bps, q

\* Any fee is a u64.
LEMMA FeeType ==
    ASSUME NEW amount \in Nat, NEW bps \in Nat
    PROVE  mul_bps(amount, bps) \in U64Range /\ mul_bps(amount, bps) \in Nat
<1>1. (amount * bps) \div BPS \in Int
  BY ScaleAssumption, DivBound
<1> QED
  BY <1>1, U64Type DEF mul_bps

\* The swap pays less than the whole reserve and never lowers the product of
\* the two reserves.
LEMMA SwapBound ==
    ASSUME NEW reserve_in \in Nat, NEW reserve_out \in Nat, NEW amount_in \in Nat,
           reserve_in + amount_in > 0
    PROVE  /\ cp_out(reserve_in, reserve_out, amount_in) \in Nat
           /\ cp_out(reserve_in, reserve_out, amount_in) <= reserve_out
           /\ reserve_in * reserve_out
                <= (reserve_in + amount_in)
                     * (reserve_out - cp_out(reserve_in, reserve_out, amount_in))
           /\ reserve_in > 0 /\ reserve_out > 0
                => cp_out(reserve_in, reserve_out, amount_in) < reserve_out
<1> DEFINE k == reserve_in * reserve_out
           d == reserve_in + amount_in
           c == CeilDiv(k, d)
<1>1. k \in Nat /\ d \in Nat \ {0} /\ d * reserve_out = k + amount_in * reserve_out
      /\ amount_in * reserve_out \in Nat
  OBVIOUS
<1>2. c \in Nat /\ k <= d * c /\ d * c < k + d
  BY <1>1, CeilBound
<1>3. c <= reserve_out
  <2>1. SUFFICES ASSUME c >= reserve_out + 1 PROVE FALSE
    BY <1>2
  <2>2. d * c >= d * reserve_out + d
    BY <1>1, <1>2, <2>1
  <2> QED
    BY <1>1, <1>2, <2>2
<1>4. reserve_in > 0 /\ reserve_out > 0 => c > 0
  <2>1. SUFFICES ASSUME reserve_in > 0, reserve_out > 0, c = 0 PROVE FALSE
    BY <1>2
  <2>2. k > 0
    BY <2>1
  <2> QED
    BY <1>1, <1>2, <2>1, <2>2
<1>5. cp_out(reserve_in, reserve_out, amount_in) = reserve_out - c
  BY DEF cp_out
<1> HIDE DEF k, d, c
<1>6. reserve_out - (reserve_out - c) = c /\ reserve_out - c \in Nat
      /\ reserve_out - c <= reserve_out
      /\ (c > 0 => reserve_out - c < reserve_out)
  BY <1>2, <1>3
<1> QED
  BY <1>2, <1>4, <1>5, <1>6 DEF k, d

\* New scaled debt is a number while the funding index is not zero.
LEMMA ScaledType ==
    ASSUME NEW debt \in Nat, NEW funding \in Nat \ {0}
    PROVE  scaled_from_debt(debt, funding) \in Nat
<1>1. debt * FUNDING_ONE \in Nat
  BY ScaleAssumption
<1> QED
  BY <1>1, CeilBound DEF scaled_from_debt

\* A price, a debt, a value and an EMA are u64 whatever their arguments.
LEMMA SpotType ==
    ASSUME NEW sol \in Nat, NEW tokens \in Nat
    PROVE  spot_per_nft(sol, tokens) \in U64Range /\ spot_per_nft(sol, tokens) \in Nat
<1>1. CASE tokens = 0
  BY <1>1, ScaleAssumption DEF spot_per_nft, U64Range
<1>2. CASE tokens # 0
  <2>1. (sol * BASE_UNITS_PER_NFT) \div tokens \in Int
    BY <1>2, ScaleAssumption, DivBound
  <2> QED
    BY <1>2, <2>1, U64Type DEF spot_per_nft
<1> QED
  BY <1>1, <1>2

\* The debt behind a scaled debt is a u64.
LEMMA DebtType ==
    ASSUME NEW scaled \in Nat, NEW funding \in Nat
    PROVE  debt_from_scaled(scaled, funding) \in U64Range /\ debt_from_scaled(scaled, funding) \in Nat
<1>1. (scaled * funding) \div FUNDING_ONE \in Int
  BY ScaleAssumption, DivBound
<1> QED
  BY <1>1, U64Type DEF debt_from_scaled

\* A value at the index is a u64.
LEMMA ValueType ==
    ASSUME NEW base_units \in Nat, NEW twap \in Nat
    PROVE  value_at_index(base_units, twap) \in U64Range /\ value_at_index(base_units, twap) \in Nat
<1>1. (base_units * twap) \div BASE_UNITS_PER_NFT \in Int
  BY ScaleAssumption, DivBound
<1> QED
  BY <1>1, U64Type DEF value_at_index

\* An EMA step is a u64 whatever the elapsed time.
LEMMA EmaType ==
    ASSUME NEW ema \in U64Range, NEW spot \in U64Range, NEW dt \in Int, NEW window_secs \in Nat
    PROVE  /\ ema_step(ema, spot, dt, window_secs) \in U64Range
           /\ ema_step(ema, spot, dt, window_secs) \in Nat
<1> DEFINE w == Max2(window_secs, 1)
           d == Min2(Max2(dt, 0), w)
<1>1. w \in Nat \ {0} /\ d \in 0..w
  BY DEF Max2, Min2
<1>0. ema \in Nat /\ spot \in Nat
  BY Range64
<1>2. CASE ema = 0
  BY <1>0, <1>2 DEF ema_step
<1>3. CASE ema # 0
  <2>1. ema \in Nat /\ spot \in Nat
    BY <1>0
  <2>2. ema * (w - d) + spot * d \in Nat
    <3>1. w - d \in Nat /\ d \in Nat
      BY <1>1
    <3> HIDE DEF w, d
    <3> QED
      BY <2>1, <3>1
  <2>3. (ema * (w - d) + spot * d) \div w \in Int
    BY <1>1, <2>2, DivBound
  <2> QED
    BY <1>3, <2>3, U64Type DEF ema_step
<1> QED
  BY <1>2, <1>3

\* A quotient lies between two numbers whose multiples enclose the dividend.
LEMMA DivBetween ==
    ASSUME NEW n \in Nat, NEW w \in Nat \ {0}, NEW lo \in Nat, NEW hi \in Nat,
           w * lo <= n, n <= w * hi
    PROVE  n \div w \in Nat /\ lo <= n \div w /\ n \div w <= hi
<1> DEFINE q == n \div w
<1>1. q \in Nat /\ w * q <= n /\ n < w * q + w
  BY DivBound
<1> HIDE DEF q
<1>2. lo <= q
  <2>1. SUFFICES ASSUME q + 1 <= lo PROVE FALSE
    BY <1>1
  <2>2. w * (q + 1) <= w * lo /\ w * (q + 1) = w * q + w
    BY <1>1, <2>1
  <2> QED
    BY <1>1, <2>2
<1>3. q <= hi
  <2>1. SUFFICES ASSUME hi + 1 <= q PROVE FALSE
    BY <1>1
  <2>2. w * (hi + 1) <= w * q /\ w * (hi + 1) = w * hi + w
    BY <1>1, <2>1
  <2> QED
    BY <1>1, <2>2
<1> QED
  BY <1>1, <1>2, <1>3 DEF q

\* The EMA step never leaves the interval between the old value and the spot,
\* whatever the elapsed time and the window.
LEMMA EmaBetween ==
    ASSUME NEW ema \in U64Range, NEW spot \in U64Range, NEW dt \in Int, NEW window_secs \in Nat
    PROVE  /\ ema <= spot => /\ ema <= ema_step(ema, spot, dt, window_secs)
                             /\ ema_step(ema, spot, dt, window_secs) <= spot
           /\ spot <= ema => /\ spot <= ema_step(ema, spot, dt, window_secs)
                             /\ ema_step(ema, spot, dt, window_secs) <= ema
<1> DEFINE w == Max2(window_secs, 1)
           d == Min2(Max2(dt, 0), w)
           e == w - d
           n == ema * e + spot * d
<1>1. ema \in Nat /\ spot \in Nat /\ ema <= MAX_U64 /\ spot <= MAX_U64
  BY Range64
<1>2. w \in Nat \ {0} /\ d \in Nat /\ e \in Nat /\ w = e + d
  BY DEF Max2, Min2
<1>3. CASE ema = 0
  BY <1>1, <1>3 DEF ema_step
<1>4. CASE ema # 0
  <2>1. ema_step(ema, spot, dt, window_secs) = U64(n \div w)
    BY <1>4 DEF ema_step
  <2> HIDE DEF w, d, e
  <2>2. n \in Nat /\ w * ema = ema * e + ema * d /\ w * spot = spot * e + spot * d
    BY <1>1, <1>2
  <2>3. ASSUME ema <= spot PROVE w * ema <= n /\ n <= w * spot
    <3>1. ema * e <= spot * e /\ ema * d <= spot * d
      BY <1>1, <1>2, <2>3
    <3> QED
      BY <1>1, <1>2, <2>2, <3>1
  <2>4. ASSUME spot <= ema PROVE w * spot <= n /\ n <= w * ema
    <3>1. spot * e <= ema * e /\ spot * d <= ema * d
      BY <1>1, <1>2, <2>4
    <3> QED
      BY <1>1, <1>2, <2>2, <3>1
  <2> HIDE DEF n
  <2>5. \A q \in Nat : q <= MAX_U64 => U64(q) = q
    BY U64Bound
  <2>6. ASSUME ema <= spot
        PROVE  ema <= U64(n \div w) /\ U64(n \div w) <= spot
    <3>1. n \div w \in Nat /\ ema <= n \div w /\ n \div w <= spot
      BY <1>1, <1>2, <2>2, <2>3, <2>6, DivBetween
    <3> QED
      BY <1>1, <2>5, <3>1, Range64
  <2>7. ASSUME spot <= ema
        PROVE  spot <= U64(n \div w) /\ U64(n \div w) <= ema
    <3>1. n \div w \in Nat /\ spot <= n \div w /\ n \div w <= ema
      BY <1>1, <1>2, <2>2, <2>4, <2>7, DivBetween
    <3> QED
      BY <1>1, <2>5, <3>1, Range64
  <2> QED
    BY <2>1, <2>6, <2>7
<1> QED
  BY <1>3, <1>4

\* A truncating division keeps the bound of its dividend, in both directions.
LEMMA TruncBound ==
    ASSUME NEW a \in Int, NEW b \in Nat \ {0}, NEW n \in Nat, a <= n, -a <= n
    PROVE  b * TruncDiv(a, b) <= n /\ -(b * TruncDiv(a, b)) <= n
<1>1. CASE a >= 0
  <2>1. a \div b \in Nat /\ b * (a \div b) <= a
    BY <1>1, DivBound
  <2>2. b * (a \div b) \in Nat
    BY <2>1
  <2> QED
    BY <1>1, <2>1, <2>2 DEF TruncDiv
<1>2. CASE ~(a >= 0)
  <2>1. -a \in Nat
    BY <1>2
  <2> DEFINE q == (-a) \div b
  <2>2. q \in Nat /\ b * q <= -a
    BY <2>1, DivBound
  <2>3. TruncDiv(a, b) = -q
    BY <1>2 DEF TruncDiv
  <2> HIDE DEF q
  <2>4. b * q \in Nat /\ b * (-q) = -(b * q)
    BY <2>2
  <2> QED
    BY <2>2, <2>3, <2>4
<1> QED
  BY <1>1, <1>2

\* Where a quotient lies.
LEMMA DivAtLeast ==
    ASSUME NEW n \in Nat, NEW w \in Nat \ {0}, NEW k \in Nat, w * k <= n
    PROVE  k <= n \div w
<1> DEFINE q == n \div w
<1>1. q \in Nat /\ n < w * q + w
  BY DivBound
<1> HIDE DEF q
<1>2. CASE k > q
  <2>1. PICK j \in Nat : k = q + 1 + j
    BY <1>1, <1>2
  <2>2. w * k = w * q + w + w * j /\ w * j \in Nat /\ w * q \in Nat
    BY <1>1, <2>1
  <2> QED
    BY <1>1, <2>2
<1> QED
  BY <1>1, <1>2 DEF q

\* And where it does not.
LEMMA DivAtMost ==
    ASSUME NEW n \in Nat, NEW w \in Nat \ {0}, NEW k \in Nat, n < w * k + w
    PROVE  n \div w <= k
<1> DEFINE q == n \div w
<1>1. q \in Nat /\ w * q <= n
  BY DivBound
<1> HIDE DEF q
<1>2. CASE q > k
  <2>1. PICK j \in Nat : q = k + 1 + j
    BY <1>1, <1>2
  <2>2. w * q = w * k + w + w * j /\ w * j \in Nat /\ w * k \in Nat
    BY <1>1, <2>1
  <2> QED
    BY <1>1, <2>2
<1> QED
  BY <1>1, <1>2 DEF q

\* Division keeps order.
LEMMA DivMono ==
    ASSUME NEW a \in Nat, NEW b \in Nat, a <= b, NEW w \in Nat \ {0}
    PROVE  a \div w <= b \div w
<1> DEFINE q == a \div w
<1>1. q \in Nat /\ w * q <= a
  BY DivBound
<1> HIDE DEF q
<1>2. w * q <= b
  BY <1>1
<1> QED
  BY <1>1, <1>2, DivAtLeast DEF q

\* A product grows with a factor.
LEMMA MulMono ==
    ASSUME NEW a \in Nat, NEW b \in Nat, a <= b, NEW c \in Nat
    PROVE  a * c <= b * c
<1>1. PICK d \in Nat : b = a + d
  BY b - a \in Nat
<1>2. b * c = a * c + d * c /\ d * c \in Nat /\ a * c \in Nat
  BY <1>1
<1> QED
  BY <1>2

\* A new leg of debt, recorded rounded up in scaled units, adds its size and at
\* most the worth of one scaled unit, rounded up.
LEMMA LegRounding ==
    ASSUME NEW s \in Nat, NEW size \in Nat, NEW funding \in Nat \ {0}
    PROVE  LET debt == (s * funding) \div FUNDING_ONE
               leg == scaled_from_debt(size, funding)
               total == ((s + leg) * funding) \div FUNDING_ONE
           IN  /\ debt + size <= total
               /\ total <= debt + size + (funding \div FUNDING_ONE + 1)
<1> DEFINE w == FUNDING_ONE
           a == (s * funding) \div w
           q == funding \div w
           leg == scaled_from_debt(size, funding)
           sf == s * funding
           lf == leg * funding
<1>1. w \in Nat \ {0} /\ leg \in Nat /\ sf \in Nat /\ lf \in Nat
  BY ScaleAssumption, ScaledType
<1>2. a \in Nat /\ w * a <= sf /\ sf < w * a + w
  BY <1>1, DivBound
<1>3. q \in Nat /\ funding < w * q + w
  BY <1>1, DivBound
<1>4. size * w <= lf /\ lf < size * w + funding
  <2>1. size * w \in Nat /\ leg = CeilDiv(size * w, funding)
    BY <1>1 DEF scaled_from_debt
  <2>2. size * w <= funding * leg /\ funding * leg < size * w + funding
    BY <2>1, CeilBound
  <2> HIDE DEF w
  <2>3. funding * leg = leg * funding
    BY <1>1
  <2> QED
    BY <2>2, <2>3
<1>5. (s + leg) * funding = sf + lf
  BY <1>1
<1> HIDE DEF w, a, q, leg, sf, lf
<1>6. /\ w * (a + size) = w * a + size * w
      /\ w * (a + size + (q + 1)) = w * a + size * w + (w * q + w)
      /\ w * a \in Nat /\ size * w \in Nat /\ w * q \in Nat
  BY <1>1, <1>2, <1>3
<1>7. w * (a + size) <= sf + lf
  BY <1>1, <1>2, <1>4, <1>6
<1>8. sf + lf < w * (a + size + (q + 1)) + w
  BY <1>1, <1>2, <1>3, <1>4, <1>6
<1>9. a + size <= (sf + lf) \div w
  BY <1>1, <1>2, <1>7, DivAtLeast
<1>10. (sf + lf) \div w <= a + size + (q + 1)
  BY <1>1, <1>2, <1>3, <1>8, DivAtMost
<1>11. (s * funding) \div FUNDING_ONE = a /\ funding \div FUNDING_ONE = q
       /\ scaled_from_debt(size, funding) = leg
       /\ ((s + leg) * funding) \div FUNDING_ONE = (sf + lf) \div w
  BY <1>5 DEF a, q, leg, w
<1> QED
  BY <1>9, <1>10, <1>11

-----------------------------------------------------------------------------
(* SumFunction of the community module Functions: the sum of a function    *)
(* over a finite set does not depend on the order the fold takes.  The     *)
(* fold is a recursive function on the subsets of its domain, so each fact *)
(* is proved by looking at a smallest subset that would violate it.        *)

\* The element the fold takes next from a set.
Pick(s) == CHOOSE x \in s : TRUE

\* g is the table of the fold of f over the subsets of S.
SumTable(f, S, g) ==
    g = [s \in SUBSET S |-> IF s = {} THEN 0 ELSE f[Pick(s)] + g[s \ {Pick(s)}]]

\* The sum of f over S.
SumOn(f, S) == (CHOOSE g : SumTable(f, S, g))[S]

\* SumOn is the operator of the community module.
LEMMA SumOnIs ==
    ASSUME NEW f, NEW S
    PROVE  SumFunctionOnSet(f, S) = SumOn(f, S)
  BY DEF SumFunctionOnSet, FoldFunctionOnSet, MapThenFoldSet, SumOn, SumTable, Pick

\* A family of subsets of a finite set that is not empty has a smallest member.
LEMMA SmallestSubset ==
    ASSUME NEW S, IsFiniteSet(S), NEW Bad \in SUBSET SUBSET S, Bad # {}
    PROVE  \E T \in Bad : \A U \in SUBSET S : U \subseteq T /\ U # T => U \notin Bad
<1>1. IsWellFoundedOn(StrictSubsetOrdering(S), SUBSET S)
  BY FS_StrictSubsetOrderingWellFounded, FS_FiniteSubsetsOfFinite
<1>2. \E T \in Bad : \A U \in Bad : <<U, T>> \notin StrictSubsetOrdering(S)
  BY <1>1, WFMin
<1>3. PICK T \in Bad : \A U \in Bad : <<U, T>> \notin StrictSubsetOrdering(S)
  BY <1>2
<1>4. \A U \in SUBSET S : U \subseteq T /\ U # T => <<U, T>> \in StrictSubsetOrdering(S)
  BY <1>3 DEF StrictSubsetOrdering
<1>5. \A U \in SUBSET S : U \subseteq T /\ U # T => U \notin Bad
  BY <1>3, <1>4
<1> QED
  BY <1>5

\* The element picked is one of the set, and what is left is smaller.
LEMMA PickIn ==
    ASSUME NEW s, s # {}
    PROVE  Pick(s) \in s /\ s \ {Pick(s)} \subseteq s /\ s \ {Pick(s)} # s
  BY DEF Pick

\* Two tables agree on the sets both are defined for.
LEMMA TablesAgree ==
    ASSUME NEW f, NEW S, IsFiniteSet(S), NEW T, S \subseteq T,
           NEW g, SumTable(f, S, g), NEW h, SumTable(f, T, h)
    PROVE  g[S] = h[S]
<1> DEFINE Bad == {u \in SUBSET S : g[u] # h[u]}
<1>1. SUFFICES ASSUME Bad # {} PROVE FALSE
  OBVIOUS
<1>2. PICK u \in Bad : \A v \in SUBSET S : v \subseteq u /\ v # u => v \notin Bad
  <2> HIDE DEF Bad
  <2>1. Bad \in SUBSET SUBSET S
    BY DEF Bad
  <2> QED
    BY <1>1, <2>1, SmallestSubset
<1>3. u \in SUBSET S /\ u \in SUBSET T /\ g[u] # h[u]
  BY <1>2
<1>4. g[u] = IF u = {} THEN 0 ELSE f[Pick(u)] + g[u \ {Pick(u)}]
  BY <1>3 DEF SumTable
<1>5. h[u] = IF u = {} THEN 0 ELSE f[Pick(u)] + h[u \ {Pick(u)}]
  BY <1>3 DEF SumTable
<1>6. u # {}
  BY <1>3, <1>4, <1>5
<1>7. g[u \ {Pick(u)}] = h[u \ {Pick(u)}]
  BY <1>2, <1>3, <1>6, PickIn
<1> QED
  BY <1>3, <1>4, <1>5, <1>6, <1>7

\* Every finite set has a table.
LEMMA TableExists ==
    ASSUME NEW f, NEW S, IsFiniteSet(S)
    PROVE  \E g : SumTable(f, S, g)
<1> DEFINE Bad == {u \in SUBSET S : ~ \E g : SumTable(f, u, g)}
<1>1. SUFFICES ASSUME Bad # {} PROVE FALSE
  OBVIOUS
<1>2. PICK T \in Bad : \A u \in SUBSET S : u \subseteq T /\ u # T => u \notin Bad
  <2> HIDE DEF Bad
  <2>1. Bad \in SUBSET SUBSET S
    BY DEF Bad
  <2> QED
    BY <1>1, <2>1, SmallestSubset
<1>3. T \in SUBSET S /\ ~ \E g : SumTable(f, T, g)
  BY <1>2
<1>4. \A u \in SUBSET T : u # T => SumTable(f, u, CHOOSE g : SumTable(f, u, g))
  <2> SUFFICES ASSUME NEW u \in SUBSET T, u # T
               PROVE  SumTable(f, u, CHOOSE g : SumTable(f, u, g))
    OBVIOUS
  <2>1. \E g : SumTable(f, u, g)
    BY <1>2, <1>3
  <2> QED
    BY <2>1
<1> DEFINE h == [s \in SUBSET T |-> IF s = {} THEN 0 ELSE f[Pick(s)] + SumOn(f, s \ {Pick(s)})]
<1>5. \A u \in SUBSET T : u # T => SumOn(f, u) = h[u]
  <2> SUFFICES ASSUME NEW u \in SUBSET T, u # T
               PROVE  SumOn(f, u) = h[u]
    OBVIOUS
  <2> DEFINE g == CHOOSE g : SumTable(f, u, g)
             r == u \ {Pick(u)}
             q == CHOOSE q : SumTable(f, r, q)
  <2>1. SumTable(f, u, g)
    BY <1>4
  <2>2. g[u] = IF u = {} THEN 0 ELSE f[Pick(u)] + g[r]
    <3> HIDE DEF g
    <3> QED
      BY <2>1 DEF SumTable
  <2>3. CASE u = {}
    BY <2>2, <2>3 DEF SumOn
  <2>4. CASE u # {}
    <3>1. r \in SUBSET T /\ r # T /\ r \subseteq u
      BY <2>4, PickIn
    <3>2. SumTable(f, r, q)
      BY <1>4, <3>1
    <3>3. IsFiniteSet(r)
      BY <1>3, <3>1, FS_Subset
    <3>4. q[r] = g[r]
      <4> HIDE DEF q, g, r
      <4> QED
        BY <2>1, <3>1, <3>2, <3>3, TablesAgree
    <3>5. SumOn(f, u) = f[Pick(u)] + SumOn(f, r)
      BY <2>2, <2>4, <3>4 DEF SumOn
    <3> QED
      BY <2>4, <3>5
  <2> QED
    BY <2>3, <2>4
<1>6. SumTable(f, T, h)
  <2>1. \A s \in SUBSET T : s # {} => SumOn(f, s \ {Pick(s)}) = h[s \ {Pick(s)}]
    <3> HIDE DEF h
    <3> QED
      BY <1>5, PickIn
  <2>2. h = [s \in SUBSET T |-> IF s = {} THEN 0 ELSE f[Pick(s)] + h[s \ {Pick(s)}]]
    <3> DEFINE k == [s \in SUBSET T |-> IF s = {} THEN 0 ELSE f[Pick(s)] + h[s \ {Pick(s)}]]
    <3>1. \A s \in SUBSET T : h[s] = k[s]
      BY <2>1
    <3>2. DOMAIN h = DOMAIN k /\ h = [s \in DOMAIN h |-> h[s]] /\ k = [s \in DOMAIN k |-> k[s]]
      OBVIOUS
    <3> QED
      BY <3>1, <3>2
  <2> HIDE DEF h
  <2> QED
    BY <2>2 DEF SumTable
<1> QED
  BY <1>3, <1>6

\* The recursion of the fold: nothing adds up to zero, and a set to the
\* element picked from it and the sum of what is left.
LEMMA SumUnfolds ==
    ASSUME NEW f, NEW S, IsFiniteSet(S)
    PROVE  SumOn(f, S) = IF S = {} THEN 0 ELSE f[Pick(S)] + SumOn(f, S \ {Pick(S)})
<1> DEFINE g == CHOOSE g : SumTable(f, S, g)
           r == S \ {Pick(S)}
           q == CHOOSE q : SumTable(f, r, q)
<1>1. SumTable(f, S, g)
  BY TableExists
<1>2. g[S] = IF S = {} THEN 0 ELSE f[Pick(S)] + g[r]
  <2> HIDE DEF g
  <2> QED
    BY <1>1 DEF SumTable
<1>3. CASE S = {}
  BY <1>2, <1>3 DEF SumOn
<1>4. CASE S # {}
  <2>1. r \subseteq S /\ IsFiniteSet(r)
    BY FS_Subset
  <2>2. SumTable(f, r, q)
    BY <2>1, TableExists
  <2>3. q[r] = g[r]
    <3> HIDE DEF q, g, r
    <3> QED
      BY <1>1, <2>1, <2>2, TablesAgree
  <2> QED
    BY <1>2, <1>4, <2>3 DEF SumOn
<1> QED
  BY <1>3, <1>4

\* A sum of naturals is a natural.
LEMMA SumNat ==
    ASSUME NEW S, IsFiniteSet(S), NEW f, \A x \in S : f[x] \in Nat
    PROVE  SumOn(f, S) \in Nat
<1> DEFINE Bad == {u \in SUBSET S : SumOn(f, u) \notin Nat}
<1>1. SUFFICES ASSUME Bad # {} PROVE FALSE
  OBVIOUS
<1>2. PICK T \in Bad : \A u \in SUBSET S : u \subseteq T /\ u # T => u \notin Bad
  <2> HIDE DEF Bad
  <2>1. Bad \in SUBSET SUBSET S
    BY DEF Bad
  <2> QED
    BY <1>1, <2>1, SmallestSubset
<1>3. T \in SUBSET S /\ SumOn(f, T) \notin Nat /\ IsFiniteSet(T)
  BY <1>2, FS_Subset
<1>4. SumOn(f, T) = IF T = {} THEN 0 ELSE f[Pick(T)] + SumOn(f, T \ {Pick(T)})
  BY <1>3, SumUnfolds
<1>5. T # {}
  BY <1>3, <1>4
<1>6. SumOn(f, T \ {Pick(T)}) \in Nat /\ f[Pick(T)] \in Nat
  BY <1>2, <1>3, <1>5, PickIn
<1> QED
  BY <1>3, <1>4, <1>5, <1>6

\* Any element may be taken out of the sum, whatever the fold picks first.
LEMMA SumRemove ==
    ASSUME NEW S, IsFiniteSet(S), NEW f, \A x \in S : f[x] \in Nat, NEW x \in S
    PROVE  SumOn(f, S) = f[x] + SumOn(f, S \ {x})
<1> DEFINE Bad == {u \in SUBSET S : \E y \in u : SumOn(f, u) # f[y] + SumOn(f, u \ {y})}
<1>1. SUFFICES ASSUME Bad # {} PROVE FALSE
  OBVIOUS
<1>2. PICK T \in Bad : \A u \in SUBSET S : u \subseteq T /\ u # T => u \notin Bad
  <2> HIDE DEF Bad
  <2>1. Bad \in SUBSET SUBSET S
    BY DEF Bad
  <2> QED
    BY <1>1, <2>1, SmallestSubset
<1>3. PICK y \in T : SumOn(f, T) # f[y] + SumOn(f, T \ {y})
  BY <1>2
<1> DEFINE p == Pick(T)
<1>4. T \in SUBSET S /\ IsFiniteSet(T) /\ p \in T
  BY <1>2, <1>3, FS_Subset, PickIn
<1>5. SumOn(f, T) = f[p] + SumOn(f, T \ {p})
  BY <1>3, <1>4, SumUnfolds
<1> HIDE DEF p
<1>6. p # y
  BY <1>3, <1>5
<1>7. SumOn(f, T \ {p}) = f[y] + SumOn(f, T \ {p, y})
  <2>1. T \ {p} \in SUBSET S /\ T \ {p} \subseteq T /\ T \ {p} # T /\ y \in T \ {p}
    BY <1>4, <1>6
  <2>2. SumOn(f, T \ {p}) = f[y] + SumOn(f, (T \ {p}) \ {y})
    BY <1>2, <2>1
  <2>3. (T \ {p}) \ {y} = T \ {p, y}
    OBVIOUS
  <2> QED
    BY <2>2, <2>3
<1>8. SumOn(f, T \ {y}) = f[p] + SumOn(f, T \ {p, y})
  <2>1. T \ {y} \in SUBSET S /\ T \ {y} \subseteq T /\ T \ {y} # T /\ p \in T \ {y}
    BY <1>3, <1>4, <1>6
  <2>2. SumOn(f, T \ {y}) = f[p] + SumOn(f, (T \ {y}) \ {p})
    BY <1>2, <2>1
  <2>3. (T \ {y}) \ {p} = T \ {p, y}
    OBVIOUS
  <2> QED
    BY <2>2, <2>3
<1>9. f[p] \in Nat /\ f[y] \in Nat /\ SumOn(f, T \ {p, y}) \in Nat
  <2>1. IsFiniteSet(T \ {p, y}) /\ \A z \in T \ {p, y} : f[z] \in Nat
    BY <1>4, FS_Subset
  <2> QED
    BY <1>3, <1>4, <2>1, SumNat
<1> QED
  BY <1>3, <1>5, <1>7, <1>8, <1>9

\* Functions that agree on a set have the same sum over it.
LEMMA SumSame ==
    ASSUME NEW S, IsFiniteSet(S), NEW f, NEW g, \A x \in S : f[x] = g[x]
    PROVE  SumOn(f, S) = SumOn(g, S)
<1> DEFINE Bad == {u \in SUBSET S : SumOn(f, u) # SumOn(g, u)}
<1>1. SUFFICES ASSUME Bad # {} PROVE FALSE
  OBVIOUS
<1>2. PICK T \in Bad : \A u \in SUBSET S : u \subseteq T /\ u # T => u \notin Bad
  <2> HIDE DEF Bad
  <2>1. Bad \in SUBSET SUBSET S
    BY DEF Bad
  <2> QED
    BY <1>1, <2>1, SmallestSubset
<1>3. T \in SUBSET S /\ SumOn(f, T) # SumOn(g, T) /\ IsFiniteSet(T)
  BY <1>2, FS_Subset
<1>4. /\ SumOn(f, T) = IF T = {} THEN 0 ELSE f[Pick(T)] + SumOn(f, T \ {Pick(T)})
      /\ SumOn(g, T) = IF T = {} THEN 0 ELSE g[Pick(T)] + SumOn(g, T \ {Pick(T)})
  BY <1>3, SumUnfolds
<1>5. T # {}
  BY <1>3, <1>4
<1>6. SumOn(f, T \ {Pick(T)}) = SumOn(g, T \ {Pick(T)}) /\ f[Pick(T)] = g[Pick(T)]
  BY <1>2, <1>3, <1>5, PickIn
<1> QED
  BY <1>3, <1>4, <1>5, <1>6

-----------------------------------------------------------------------------
\* What the proofs about running totals cite: the sum of a family of naturals
\* is a natural no smaller than any of them.
LEMMA FamilySum ==
    ASSUME NEW S, IsFiniteSet(S), NEW f \in [S -> Nat]
    PROVE  SumFunction(f) \in Nat /\ \A x \in S : f[x] <= SumFunction(f)
<1>1. SumFunction(f) = SumOn(f, S)
  <2>1. DOMAIN f = S
    OBVIOUS
  <2> QED
    BY <2>1, SumOnIs DEF SumFunction
<1>2. SumOn(f, S) \in Nat
  BY SumNat
<1>3. \A x \in S : f[x] <= SumOn(f, S)
  <2> SUFFICES ASSUME NEW x \in S PROVE f[x] <= SumOn(f, S)
    OBVIOUS
  <2>1. SumOn(f, S) = f[x] + SumOn(f, S \ {x})
    BY SumRemove
  <2>2. SumOn(f, S \ {x}) \in Nat
    <3>1. IsFiniteSet(S \ {x}) /\ \A y \in S \ {x} : f[y] \in Nat
      BY FS_Subset
    <3> QED
      BY <3>1, SumNat
  <2> QED
    BY <2>1, <2>2
<1> QED
  BY <1>1, <1>2, <1>3

\* A family that changes at one member changes its sum by as much.
LEMMA FamilyUpdate ==
    ASSUME NEW S, IsFiniteSet(S), NEW f \in [S -> Nat], NEW g \in [S -> Nat],
           NEW x \in S, \A y \in S : y # x => g[y] = f[y]
    PROVE  SumFunction(g) = SumFunction(f) - f[x] + g[x]
<1>1. SumFunction(f) = SumOn(f, S) /\ SumFunction(g) = SumOn(g, S)
  <2>1. DOMAIN f = S /\ DOMAIN g = S
    OBVIOUS
  <2> QED
    BY <2>1, SumOnIs DEF SumFunction
<1>2. SumOn(f, S) = f[x] + SumOn(f, S \ {x}) /\ SumOn(g, S) = g[x] + SumOn(g, S \ {x})
  BY SumRemove
<1>3. IsFiniteSet(S \ {x}) /\ \A y \in S \ {x} : f[y] \in Nat /\ f[y] = g[y]
  BY FS_Subset
<1>4. SumOn(f, S \ {x}) = SumOn(g, S \ {x}) /\ SumOn(f, S \ {x}) \in Nat
  BY <1>3, SumSame, SumNat
<1> QED
  BY <1>1, <1>2, <1>4

\* A family of zeros adds up to zero.
LEMMA FamilyZero ==
    ASSUME NEW S, IsFiniteSet(S), NEW f \in [S -> Nat], \A x \in S : f[x] = 0
    PROVE  SumFunction(f) = 0
<1> DEFINE Bad == {u \in SUBSET S : SumOn(f, u) # 0}
<1>1. SumFunction(f) = SumOn(f, S)
  <2>1. DOMAIN f = S
    OBVIOUS
  <2> QED
    BY <2>1, SumOnIs DEF SumFunction
<1>2. SUFFICES ASSUME Bad # {} PROVE FALSE
  BY <1>1
<1>3. PICK T \in Bad : \A u \in SUBSET S : u \subseteq T /\ u # T => u \notin Bad
  <2> HIDE DEF Bad
  <2>1. Bad \in SUBSET SUBSET S
    BY DEF Bad
  <2> QED
    BY <1>2, <2>1, SmallestSubset
<1>4. T \in SUBSET S /\ SumOn(f, T) # 0 /\ IsFiniteSet(T)
  BY <1>3, FS_Subset
<1>5. SumOn(f, T) = IF T = {} THEN 0 ELSE f[Pick(T)] + SumOn(f, T \ {Pick(T)})
  BY <1>4, SumUnfolds
<1>6. T # {}
  BY <1>4, <1>5
<1>7. SumOn(f, T \ {Pick(T)}) = 0 /\ f[Pick(T)] = 0
  BY <1>3, <1>4, <1>6, PickIn
<1> QED
  BY <1>4, <1>5, <1>6, <1>7

\* The sum over two sets that have nothing in common.
LEMMA SumUnion ==
    ASSUME NEW A, NEW B, IsFiniteSet(A), IsFiniteSet(B), A \cap B = {},
           NEW f, \A x \in A \cup B : f[x] \in Nat
    PROVE  SumOn(f, A \cup B) = SumOn(f, A) + SumOn(f, B)
<1> DEFINE Bad == {u \in SUBSET B : SumOn(f, A \cup u) # SumOn(f, A) + SumOn(f, u)}
<1>1. SUFFICES ASSUME Bad # {} PROVE FALSE
  OBVIOUS
<1>2. PICK T \in Bad : \A u \in SUBSET B : u \subseteq T /\ u # T => u \notin Bad
  <2> HIDE DEF Bad
  <2>1. Bad \in SUBSET SUBSET B
    BY DEF Bad
  <2> QED
    BY <1>1, <2>1, SmallestSubset
<1>3. T \in SUBSET B /\ SumOn(f, A \cup T) # SumOn(f, A) + SumOn(f, T) /\ IsFiniteSet(T)
  BY <1>2, FS_Subset
<1>4. SumOn(f, A) \in Nat
  BY SumNat
<1>5. T # {}
  <2>1. SUFFICES ASSUME T = {} PROVE FALSE
    OBVIOUS
  <2>2. SumOn(f, T) = 0
    BY <1>3, <2>1, SumUnfolds
  <2>3. A \cup T = A
    BY <2>1
  <2> QED
    BY <1>3, <1>4, <2>2, <2>3
<1>6. PICK x : x \in T
  BY <1>5
<1> DEFINE r == T \ {x}
<1>7. SumOn(f, T) = f[x] + SumOn(f, r)
  <2>1. \A y \in T : f[y] \in Nat
    BY <1>3
  <2> QED
    BY <1>3, <1>6, <2>1, SumRemove
<1>8. SumOn(f, A \cup T) = f[x] + SumOn(f, A \cup r)
  <2>1. IsFiniteSet(A \cup T)
    BY <1>3, FS_Union
  <2>2. (A \cup T) \ {x} = A \cup r
    BY <1>3, <1>6
  <2>3. x \in A \cup T /\ \A y \in A \cup T : f[y] \in Nat
    BY <1>3, <1>6
  <2>4. SumOn(f, A \cup T) = f[x] + SumOn(f, (A \cup T) \ {x})
    BY <2>1, <2>3, SumRemove
  <2> QED
    BY <2>2, <2>4
<1>9. SumOn(f, A \cup r) = SumOn(f, A) + SumOn(f, r)
  BY <1>2, <1>3, <1>6
<1>10. SumOn(f, r) \in Nat /\ f[x] \in Nat
  <2>1. IsFiniteSet(r) /\ \A y \in r : f[y] \in Nat
    BY <1>3, FS_Subset
  <2> QED
    BY <1>3, <1>6, <2>1, SumNat
<1> HIDE DEF r
<1> QED
  BY <1>3, <1>4, <1>7, <1>8, <1>9, <1>10

\* Larger terms, larger sums.
LEMMA SumMono ==
    ASSUME NEW S, IsFiniteSet(S), NEW f, NEW g,
           \A x \in S : f[x] \in Nat /\ g[x] \in Nat /\ f[x] <= g[x]
    PROVE  SumOn(f, S) <= SumOn(g, S)
<1> DEFINE Bad == {u \in SUBSET S : ~(SumOn(f, u) <= SumOn(g, u))}
<1>1. SUFFICES ASSUME Bad # {} PROVE FALSE
  OBVIOUS
<1>2. PICK T \in Bad : \A u \in SUBSET S : u \subseteq T /\ u # T => u \notin Bad
  <2> HIDE DEF Bad
  <2>1. Bad \in SUBSET SUBSET S
    BY DEF Bad
  <2> QED
    BY <1>1, <2>1, SmallestSubset
<1>3. T \in SUBSET S /\ ~(SumOn(f, T) <= SumOn(g, T)) /\ IsFiniteSet(T)
  BY <1>2, FS_Subset
<1>4. T # {}
  <2>1. T = {} => SumOn(f, T) = 0 /\ SumOn(g, T) = 0
    BY <1>3, SumUnfolds
  <2> QED
    BY <1>3, <2>1
<1>5. PICK x : x \in T
  BY <1>4
<1> DEFINE r == T \ {x}
<1>6. SumOn(f, T) = f[x] + SumOn(f, r) /\ SumOn(g, T) = g[x] + SumOn(g, r)
  BY <1>3, <1>5, SumRemove
<1>7. SumOn(f, r) <= SumOn(g, r)
  BY <1>2, <1>3, <1>5
<1>8. SumOn(f, r) \in Nat /\ SumOn(g, r) \in Nat
  BY <1>3, SumNat, FS_Subset
<1>9. f[x] \in Nat /\ g[x] \in Nat /\ f[x] <= g[x]
  BY <1>3, <1>5
<1> HIDE DEF r
<1> QED
  BY <1>3, <1>6, <1>7, <1>8, <1>9

\* Terms that are all zero.
LEMMA SumZero ==
    ASSUME NEW S, IsFiniteSet(S), NEW f, \A x \in S : f[x] = 0
    PROVE  SumOn(f, S) = 0
<1> DEFINE Bad == {u \in SUBSET S : SumOn(f, u) # 0}
<1>1. SUFFICES ASSUME Bad # {} PROVE FALSE
  OBVIOUS
<1>2. PICK T \in Bad : \A u \in SUBSET S : u \subseteq T /\ u # T => u \notin Bad
  <2> HIDE DEF Bad
  <2>1. Bad \in SUBSET SUBSET S
    BY DEF Bad
  <2> QED
    BY <1>1, <2>1, SmallestSubset
<1>3. T \in SUBSET S /\ SumOn(f, T) # 0 /\ IsFiniteSet(T)
  BY <1>2, FS_Subset
<1>4. SumOn(f, T) = IF T = {} THEN 0 ELSE f[Pick(T)] + SumOn(f, T \ {Pick(T)})
  BY <1>3, SumUnfolds
<1>5. T # {}
  BY <1>3, <1>4
<1>6. SumOn(f, T \ {Pick(T)}) = 0 /\ f[Pick(T)] = 0
  BY <1>2, <1>3, <1>5, PickIn
<1> QED
  BY <1>3, <1>4, <1>5, <1>6

-----------------------------------------------------------------------------
(* Ranks.                                                                  *)

(* How many elements of S are not above each in R. *)
RankBy(S, R) == [i \in S |-> Cardinality({j \in S : <<j, i>> \in R})]

(* A linear order on a finite set numbers its elements. *)
LEMMA RanksAreNumbers ==
  ASSUME NEW S, IsFiniteSet(S), NEW R,
         \A i \in S : <<i, i>> \in R,
         \A i, j \in S : <<i, j>> \in R \/ <<j, i>> \in R,
         \A i, j \in S : <<i, j>> \in R /\ <<j, i>> \in R => i = j,
         \A i, j, k \in S : <<i, j>> \in R /\ <<j, k>> \in R => <<i, k>> \in R,
         NEW rank, rank = RankBy(S, R)
  PROVE  /\ rank \in [S -> 1..Cardinality(S)]
         /\ \A i, j \in S : rank[i] = rank[j] => i = j
         /\ \A n \in 1..Cardinality(S) : \E i \in S : rank[i] = n
<1> DEFINE upto(i) == {j \in S : <<j, i>> \in R}
<1>0. rank = [i \in S |-> Cardinality(upto(i))]
  BY DEF RankBy
<1>1. \A i \in S : IsFiniteSet(upto(i)) /\ Cardinality(upto(i)) \in 1..Cardinality(S)
  <2> SUFFICES ASSUME NEW i \in S PROVE IsFiniteSet(upto(i)) /\ Cardinality(upto(i)) \in 1..Cardinality(S)
    OBVIOUS
  <2>1. upto(i) \subseteq S /\ i \in upto(i)
    OBVIOUS
  <2> HIDE DEF upto
  <2>2. IsFiniteSet(upto(i)) /\ Cardinality(upto(i)) <= Cardinality(S)
    BY <2>1, FS_Subset
  <2>3. Cardinality(upto(i)) \in Nat /\ Cardinality(S) \in Nat
    BY <2>2, FS_CardinalityType
  <2>4. Cardinality(upto(i)) # 0
    BY <2>1, <2>2, FS_EmptySet
  <2>5. QED BY <2>2, <2>3, <2>4
<1>2. ASSUME NEW i \in S, NEW j \in S, <<i, j>> \in R, i # j
      PROVE  Cardinality(upto(i)) < Cardinality(upto(j))
  <2>1. upto(i) \subseteq upto(j) /\ j \in upto(j) /\ j \notin upto(i)
    BY <1>2
  <2>2. IsFiniteSet(upto(j)) /\ IsFiniteSet(upto(i)) /\ upto(i) # upto(j)
    BY <1>1, <2>1
  <2> HIDE DEF upto
  <2>3. QED BY <2>1, <2>2, FS_Subset, FS_CardinalityType
<1>3. rank \in [S -> 1..Cardinality(S)]
  <2> HIDE DEF upto
  <2>1. QED BY <1>0, <1>1
<1>4. ASSUME NEW i \in S, NEW j \in S, rank[i] = rank[j] PROVE i = j
  <2>1. Cardinality(upto(i)) = Cardinality(upto(j))
    BY <1>0, <1>4
  <2>2. Cardinality(upto(i)) \in Nat /\ Cardinality(upto(j)) \in Nat
    BY <1>1, FS_CardinalityType
  <2> HIDE DEF upto
  <2>3. CASE <<i, j>> \in R
    BY <1>2, <2>1, <2>2, <2>3
  <2>4. CASE <<j, i>> \in R
    BY <1>2, <2>1, <2>2, <2>4
  <2>5. QED BY <2>3, <2>4
<1>5. \A n \in 1..Cardinality(S) : \E i \in S : rank[i] = n
  <2> DEFINE N == 1..Cardinality(S)
  <2>1. Cardinality(S) \in Nat
    BY FS_CardinalityType
  <2>2. IsFiniteSet(N) /\ Cardinality(N) = Cardinality(S)
    <3>1. \A n \in Nat : IsFiniteSet(1..n) /\ Cardinality(1..n) = n
      BY FS_Interval
    <3>2. QED BY <2>1, <3>1
  <2>3. rank \in Injection(S, N)
    BY <1>3, <1>4 DEF Injection, IsInjective
  <2> HIDE DEF N
  <2>4. rank \in Surjection(S, N)
    BY <2>2, <2>3, FS_Injection
  <2>5. \A n \in N : \E i \in S : rank[i] = n
    BY <2>4 DEF Surjection
  <2>6. QED BY <2>5 DEF N
<1>6. QED BY <1>3, <1>4, <1>5

(* What comes before has the lower rank.                                   *)
LEMMA RanksFollow ==
  ASSUME NEW S, IsFiniteSet(S), NEW R,
         \A i, j, k \in S : <<i, j>> \in R /\ <<j, k>> \in R => <<i, k>> \in R,
         NEW i \in S, NEW j \in S, <<i, j>> \in R
  PROVE  RankBy(S, R)[i] <= RankBy(S, R)[j]
<1>1. PICK A, B : A = {k \in S : <<k, i>> \in R} /\ B = {k \in S : <<k, j>> \in R}
  OBVIOUS
<1>2. A \subseteq B /\ IsFiniteSet(B)
  BY <1>1, FS_Subset
<1>3. Cardinality(A) <= Cardinality(B)
  BY <1>2, FS_Subset
<1> QED
  BY <1>1, <1>3 DEF RankBy

\* As many elements have a rank between two bounds as there are numbers between.
LEMMA RanksBetween ==
    ASSUME NEW S, IsFiniteSet(S), NEW rank \in [S -> 1..Cardinality(S)],
           \A i, j \in S : rank[i] = rank[j] => i = j,
           \A n \in 1..Cardinality(S) : \E i \in S : rank[i] = n,
           NEW lo \in Nat, NEW hi \in Nat, lo <= hi, hi <= Cardinality(S)
    PROVE  Cardinality({i \in S : rank[i] \in lo + 1 .. hi}) = hi - lo
<1> DEFINE T == {i \in S : rank[i] \in lo + 1 .. hi}
           N == lo + 1 .. hi
           f == [i \in T |-> rank[i]]
<1>1. IsFiniteSet(T) /\ Cardinality(S) \in Nat
  BY FS_Subset, FS_CardinalityType
<1>2. IsFiniteSet(N) /\ Cardinality(N) = hi - lo
  <2>1. lo + 1 \in Int /\ hi \in Int
    OBVIOUS
  <2>2. Cardinality(N) = IF lo + 1 > hi THEN 0 ELSE hi - (lo + 1) + 1
    BY <2>1, FS_Interval
  <2>3. IsFiniteSet(N)
    BY <2>1, FS_Interval
  <2> QED
    BY <2>2, <2>3
<1>3. f \in Bijection(T, N)
  <2>1. f \in [T -> N]
    OBVIOUS
  <2>2. \A i, j \in T : f[i] = f[j] => i = j
    OBVIOUS
  <2>3. \A n \in N : \E i \in T : f[i] = n
    <3> SUFFICES ASSUME NEW n \in N PROVE \E i \in T : f[i] = n
      OBVIOUS
    <3>1. n \in 1..Cardinality(S)
      BY <1>1
    <3>2. PICK i \in S : rank[i] = n
      BY <3>1
    <3> QED
      BY <3>2
  <2> HIDE DEF f, T, N
  <2> QED
    BY <2>1, <2>2, <2>3 DEF Bijection, Injection, Surjection, IsInjective
<1>4. Cardinality(T) = Cardinality(N)
  <2> HIDE DEF f, T, N
  <2> QED
    BY <1>1, <1>2, <1>3, FS_Bijection DEF ExistsBijection
<1> QED
  BY <1>1, <1>2, <1>4

(* The order of the numbers in S, and how many are up to i.                *)
Order(S) == {x \in S \X S : x[1] <= x[2]}
UpTo(S, i) == {j \in S : j <= i}
Rank(S, i) == Cardinality(UpTo(S, i))

(* (A definition of its own, for the provers.)                             *)
Numbers(S) == S \subseteq Int

(* A finite set of numbers ranks its elements from 1 to their number.      *)
LEMMA NumbersRanked ==
  ASSUME NEW S, IsFiniteSet(S), Numbers(S)
  PROVE  /\ Cardinality(S) \in Nat
         /\ \A i \in S : Rank(S, i) \in 1..Cardinality(S)
         /\ \A i, j \in S : Rank(S, i) = Rank(S, j) => i = j
         /\ \A i, j \in S : i <= j => Rank(S, i) <= Rank(S, j)
         /\ \A n \in 1..Cardinality(S) : \E i \in S : Rank(S, i) = n
<1>1. PICK R : R = Order(S)
  OBVIOUS
<1>2. PICK rank : rank = RankBy(S, R)
  OBVIOUS
<1>3. \A i \in S : <<i, i>> \in R
  BY <1>1 DEF Order, Numbers
<1>4. \A i, j \in S : <<i, j>> \in R \/ <<j, i>> \in R
  BY <1>1 DEF Order, Numbers
<1>5. \A i, j \in S : <<i, j>> \in R /\ <<j, i>> \in R => i = j
  BY <1>1 DEF Order, Numbers
<1>6. \A i, j, k \in S : <<i, j>> \in R /\ <<j, k>> \in R => <<i, k>> \in R
  BY <1>1 DEF Order, Numbers
<1>7. /\ rank \in [S -> 1..Cardinality(S)]
      /\ \A i, j \in S : rank[i] = rank[j] => i = j
      /\ \A n \in 1..Cardinality(S) : \E i \in S : rank[i] = n
  BY <1>2, <1>3, <1>4, <1>5, <1>6, RanksAreNumbers
<1>8. \A i \in S : rank[i] = Rank(S, i)
  <2>1. \A i \in S : {j \in S : <<j, i>> \in R} = UpTo(S, i)
    BY <1>1 DEF Order, UpTo
  <2>2. \A i \in S : rank[i] = Cardinality({j \in S : <<j, i>> \in R})
    BY <1>2 DEF RankBy
  <2> QED
    BY <2>1, <2>2 DEF Rank
<1>9. ASSUME NEW i \in S, NEW j \in S, i <= j
      PROVE  Rank(S, i) <= Rank(S, j)
  <2>1. ASSUME NEW k \in UpTo(S, i) PROVE k \in UpTo(S, j)
    <3>1. k \in S /\ k \in Int /\ i \in Int /\ j \in Int /\ k <= i
      BY DEF UpTo, Numbers
    <3>2. k <= j
      BY <1>9, <3>1
    <3> QED
      BY <3>1, <3>2 DEF UpTo
  <2>2. UpTo(S, i) \subseteq UpTo(S, j)
    BY <2>1
  <2>3. IsFiniteSet(UpTo(S, j))
    BY FS_Subset DEF UpTo
  <2> QED
    BY <2>2, <2>3, FS_Subset DEF Rank
<1> QED
  BY <1>7, <1>8, <1>9, FS_CardinalityType

(* How many have a rank between two bounds.                                *)
LEMMA NumbersBetween ==
  ASSUME NEW S, IsFiniteSet(S), Numbers(S),
         NEW lo \in Nat, NEW hi \in Nat, lo <= hi, hi <= Cardinality(S)
  PROVE  Cardinality({i \in S : Rank(S, i) \in lo + 1 .. hi}) = hi - lo
<1> DEFINE rank == [i \in S |-> Rank(S, i)]
<1>0. /\ \A i \in S : Rank(S, i) \in 1..Cardinality(S)
      /\ \A i, j \in S : Rank(S, i) = Rank(S, j) => i = j
      /\ \A n \in 1..Cardinality(S) : \E i \in S : Rank(S, i) = n
  BY NumbersRanked
<1>1. /\ rank \in [S -> 1..Cardinality(S)]
      /\ \A i, j \in S : rank[i] = rank[j] => i = j
      /\ \A n \in 1..Cardinality(S) : \E i \in S : rank[i] = n
  BY <1>0
<1>2. {i \in S : rank[i] \in lo + 1 .. hi} = {i \in S : Rank(S, i) \in lo + 1 .. hi}
  OBVIOUS
<1>3. Cardinality({i \in S : rank[i] \in lo + 1 .. hi}) = hi - lo
  <2>1. PICK q : q = rank
    OBVIOUS
  <2>2. q \in [S -> 1..Cardinality(S)]
    BY <1>1, <2>1
  <2>3. \A i, j \in S : q[i] = q[j] => i = j
    BY <1>1, <2>1
  <2>4. \A n \in 1..Cardinality(S) : \E i \in S : q[i] = n
    BY <1>1, <2>1
  <2> HIDE DEF rank
  <2>5. Cardinality({i \in S : q[i] \in lo + 1 .. hi}) = hi - lo
    BY <2>2, <2>3, <2>4, RanksBetween
  <2> QED
    BY <2>1, <2>5
<1> QED
  BY <1>2, <1>3
=============================================================================
