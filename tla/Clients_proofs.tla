--------------------------- MODULE Clients_proofs ---------------------------
(***************************************************************************)
(* Theorems about the clients side by side: what the panel's quotes and    *)
(* the blog stores of the composition promise.                             *)
(***************************************************************************)
EXTENDS MCClients, FixedMath_proofs

Market ==
  [status : {"bootstrap", "live"}, frozen : BOOLEAN, sol : Nat, tok : Nat, raised : Int,
   index : Nat \ {0}, funding : Nat \ {0}]

(* The curve always has both reserves; the AMM may be bought or rounded to *)
(* nothing.                                                                *)
Tradable(m) == m \in Market /\ (isCurve(m) => m.sol > 0 /\ m.tok > 0)

LEMMA PanelScale ==
  /\ BPS \in Nat \ {0} /\ FEE_BPS \in Nat /\ BPS - FEE_BPS \in Nat \ {0} /\ FEE_BPS \in 0..BPS
  /\ KeepDen \in Nat \ {0} /\ KeepNum \in Nat /\ KeepNum <= KeepDen
  /\ DrawCr \in Nat \ {0} /\ BASE_UNITS_PER_NFT \in Nat \ {0} /\ TOKEN_BASE \in Nat \ {0}
  /\ FUNDING_ONE \in Nat \ {0} /\ Rejected \notin Nat
  BY ScaleAssumption, TradeAssumption

(* The fee the program takes is no more than the fee of the quote.         *)
LEMMA FeeIsLow ==
  ASSUME NEW a \in Nat
  PROVE  LET net == a - mul_bps(a, FEE_BPS) IN
         net \in Nat /\ BPS * net >= a * (BPS - FEE_BPS) /\ (a > 0 => net > 0)
<1> DEFINE q == (a * FEE_BPS) \div BPS
           fee == mul_bps(a, FEE_BPS)
<1>1. a * FEE_BPS \in Nat
  BY PanelScale
<1>2. q \in Nat /\ BPS * q <= a * FEE_BPS
  BY <1>1, PanelScale, DivBound
<1>3. fee \in Nat /\ fee <= q
  BY <1>2, U64Bound, U64Type DEF mul_bps
<1>4. fee <= a
  BY PanelScale, ShareBound
<1> HIDE DEF q, fee
<1>5. BPS * fee <= BPS * q
  BY <1>2, <1>3, PanelScale
<1>6. BPS * (a - fee) = BPS * a - BPS * fee
  BY <1>3, PanelScale
<1>7. a * (BPS - FEE_BPS) = BPS * a - a * FEE_BPS
  BY PanelScale
<1>8. BPS * (a - fee) >= a * (BPS - FEE_BPS)
  BY <1>1, <1>2, <1>3, <1>5, <1>6, <1>7, PanelScale
<1>9. a > 0 => a - fee > 0
  <2>1. SUFFICES ASSUME a > 0, a - fee = 0 PROVE FALSE
    BY <1>3, <1>4
  <2>2. a * (BPS - FEE_BPS) > 0
    BY <2>1, PanelScale
  <2> QED
    BY <1>8, <2>1, <2>2, PanelScale
<1> QED
  BY <1>3, <1>4, <1>8, <1>9 DEF fee

(* Rounding costs a swap less than one unit of what it pays.               *)
LEMMA SwapReaches ==
  ASSUME NEW x \in Nat, NEW y \in Nat, NEW n \in Nat, x + n > 0
  PROVE  (cp_out(x, y, n) + 1) * (x + n) > y * n
<1> DEFINE d == x + n
           c == CeilDiv(x * y, d)
           out == y - c
<1>1. d \in Nat \ {0} /\ x * y \in Nat
  OBVIOUS
<1>2. c \in Nat /\ d * c < x * y + d
  BY <1>1, CeilBound
<1>3. cp_out(x, y, n) = out
  BY DEF cp_out
<1> HIDE DEF c
<1>4. (out + 1) * d = y * d - d * c + d
  BY <1>1, <1>2
<1>5. y * d = x * y + y * n
  OBVIOUS
<1>6. (out + 1) * d > y * n
  BY <1>1, <1>2, <1>4, <1>5
<1> QED
  BY <1>3, <1>6

(* What is bought is within one unit of the quote. *)
LEMMA BuyMeetsQuote ==
  ASSUME NEW m, Tradable(m), NEW a \in Nat \ {0}
  PROVE  LET q == quoteBuy(m, a) IN
         /\ Bought(m, a) \in Nat /\ Bought(m, a) <= m.tok
         /\ q.num \in Nat /\ q.den \in Nat \ {0}
         /\ (Bought(m, a) + 1) * q.den > q.num
<1> DEFINE net == a - mul_bps(a, FEE_BPS)
           real == a * (BPS - FEE_BPS)
           over == BPS * net - real
           den == m.sol * BPS + real
           num == m.tok * real
           out == Bought(m, a)
<1>1. m.sol \in Nat /\ m.tok \in Nat
  BY DEF Tradable, Market
<1>2. net \in Nat \ {0} /\ over \in Nat /\ BPS * net = real + over /\ real \in Nat \ {0}
  <2>1. net \in Nat /\ BPS * net >= real /\ net > 0
    BY FeeIsLow
  <2>2. real \in Nat \ {0}
    BY PanelScale
  <2> HIDE DEF net, real
  <2>3. BPS * net \in Nat
    BY <2>1, PanelScale
  <2> QED
    BY <2>1, <2>2, <2>3
<1>3. out = cp_out(m.sol, m.tok, net)
  BY DEF Bought
<1> HIDE DEF net, real, out
<1> DEFINE sol == m.sol
           tok == m.tok
<1>4. out \in Nat /\ out <= m.tok
  <2>1. sol \in Nat /\ tok \in Nat /\ net \in Nat /\ sol + net > 0
    BY <1>1, <1>2
  <2> HIDE DEF sol, tok
  <2>2. cp_out(sol, tok, net) \in Nat /\ cp_out(sol, tok, net) <= tok
    BY <2>1, SwapBound
  <2> QED
    BY <1>3, <2>2 DEF sol, tok
<1>5. (out + 1) * (m.sol + net) > m.tok * net
  <2>1. sol \in Nat /\ tok \in Nat /\ net \in Nat /\ sol + net > 0
    BY <1>1, <1>2
  <2> HIDE DEF sol, tok
  <2>2. (cp_out(sol, tok, net) + 1) * (sol + net) > tok * net
    BY <2>1, SwapReaches
  <2> QED
    BY <1>3, <2>2 DEF sol, tok
<1>6. den \in Nat \ {0} /\ num \in Nat /\ m.sol * BPS \in Nat /\ den >= real
  <2>1. m.sol * BPS \in Nat /\ m.tok * real \in Nat
    BY <1>1, <1>2, PanelScale
  <2> QED
    BY <1>2, <2>1
<1>7. (out + 1) * den > num
  <2>1. CASE out = m.tok
    <3>1. (out + 1) * den >= (out + 1) * real
      BY <1>2, <1>4, <1>6, MulMono
    <3>2. (out + 1) * real = m.tok * real + real
      BY <1>1, <1>2, <2>1
    <3>3. (out + 1) * den \in Nat
      BY <1>4, <1>6
    <3> QED
      BY <1>2, <1>6, <3>1, <3>2, <3>3
  <2>2. CASE out # m.tok
    <3> DEFINE g == m.tok - (out + 1)
               d == m.sol + net
    <3>1. g \in Nat /\ m.tok = out + 1 + g /\ d \in Nat
      BY <1>1, <1>2, <1>4, <2>2
    <3>2. (out + 1) * d \in Nat /\ m.tok * net \in Nat
      BY <1>1, <1>2, <1>4, <3>1
    <3>3. ((out + 1) * d) * BPS > (m.tok * net) * BPS
      <4> DEFINE l == (out + 1) * d
                 r == m.tok * net
      <4>1. l \in Nat /\ r \in Nat /\ l >= r + 1
        BY <1>5, <3>2
      <4> HIDE DEF l, r
      <4>2. l * BPS >= (r + 1) * BPS /\ (r + 1) * BPS = r * BPS + BPS
        BY <4>1, PanelScale, MulMono
      <4>3. r * BPS \in Nat /\ l * BPS \in Nat
        BY <4>1, PanelScale
      <4>4. l * BPS > r * BPS
        BY <4>2, <4>3, PanelScale
      <4> QED
        BY <4>4 DEF l, r
    <3>4. d * BPS = den + over
      <4>1. d * BPS = m.sol * BPS + BPS * net
        BY <1>1, <1>2, PanelScale
      <4> QED
        BY <1>2, <1>6, <4>1
    <3>5. ((out + 1) * d) * BPS = (out + 1) * den + (out + 1) * over
      <4>1. ((out + 1) * d) * BPS = (out + 1) * (d * BPS)
        BY <1>4, <3>1, PanelScale
      <4> HIDE DEF d, den, over
      <4>2. (out + 1) * (den + over) = (out + 1) * den + (out + 1) * over
        BY <1>2, <1>4, <1>6
      <4> QED
        BY <3>4, <4>1, <4>2
    <3>6. (m.tok * net) * BPS = num + (out + 1) * over + g * over
      <4>1. (m.tok * net) * BPS = m.tok * (BPS * net)
        BY <1>1, <1>2, PanelScale
      <4> HIDE DEF over, g
      <4>2. m.tok * (real + over) = m.tok * real + m.tok * over
        BY <1>1, <1>2
      <4>3. m.tok * over = (out + 1) * over + g * over
        BY <1>2, <1>4, <3>1
      <4>4. m.tok * (BPS * net) = m.tok * (real + over)
        BY <1>2
      <4>5. m.tok * real \in Nat /\ g * over \in Nat /\ (out + 1) * over \in Nat
        BY <1>1, <1>2, <1>4, <3>1
      <4> QED
        BY <4>1, <4>2, <4>3, <4>4, <4>5
    <3>7. g * over \in Nat /\ (out + 1) * over \in Nat /\ (out + 1) * den \in Nat
      BY <1>2, <1>4, <1>6, <3>1
    <3> HIDE DEF g, d, den, num, over
    <3> QED
      BY <1>6, <3>3, <3>5, <3>6, <3>7
  <2> QED
    BY <2>1, <2>2
<1>8. quoteBuy(m, a).num = num /\ quoteBuy(m, a).den = den
  BY DEF quoteBuy, Fraction, real
<1> QED
  BY <1>4, <1>6, <1>7, <1>8 DEF out

(* What a sale pays is within one unit of the quote. *)
LEMMA SellMeetsQuote ==
  ASSUME NEW m, Tradable(m), NEW t \in Nat \ {0}
  PROVE  LET q == quoteSell(m, t) IN
         /\ Sold(m, t) \in Nat /\ SoldGross(m, t) \in Nat /\ SoldGross(m, t) <= m.sol
         /\ isCurve(m) => SoldGross(m, t) < m.sol
         /\ q.num \in Nat /\ q.den \in Nat \ {0}
         /\ (Sold(m, t) + 1) * q.den > q.num
<1> DEFINE sol == m.sol
           tok == m.tok
           gross == cp_out(tok, sol, t)
           out == gross - mul_bps(gross, FEE_BPS)
           R == BPS - FEE_BPS
           d == tok + t
<1>1. sol \in Nat /\ tok \in Nat /\ (isCurve(m) => sol > 0 /\ tok > 0)
  BY DEF Tradable, Market
<1>2. d \in Nat \ {0} /\ R \in Nat \ {0} /\ R <= BPS /\ tok + t > 0
  BY <1>1, PanelScale
<1> HIDE DEF sol, tok, R
<1>3. gross \in Nat /\ gross <= sol /\ (tok > 0 /\ sol > 0 => gross < sol)
  BY <1>1, <1>2, SwapBound
<1>4. (gross + 1) * d > sol * t
  BY <1>1, <1>2, SwapReaches
<1> HIDE DEF gross
<1>5. out \in Nat /\ BPS * out >= gross * R
  BY <1>3, FeeIsLow DEF R
<1> HIDE DEF out
<1>6. (BPS * out + BPS) * d >= (gross * R + R) * d
  <2>1. BPS * out \in Nat /\ gross * R \in Nat
    BY <1>2, <1>3, <1>5, PanelScale
  <2>2. BPS * out + BPS \in Nat /\ gross * R + R \in Nat /\ gross * R + R <= BPS * out + BPS
    BY <1>2, <1>5, <2>1, PanelScale
  <2>3. (gross * R + R) * d <= (BPS * out + BPS) * d
    BY <1>2, <2>2, MulMono
  <2>4. (gross * R + R) * d \in Nat /\ (BPS * out + BPS) * d \in Nat
    BY <1>2, <2>2
  <2> QED
    BY <2>3, <2>4
<1>7. (BPS * out + BPS) * d = (out + 1) * (d * BPS)
  BY <1>2, <1>5, PanelScale
<1>8. (gross * R + R) * d = ((gross + 1) * d) * R
  BY <1>2, <1>3
<1>9. ((gross + 1) * d) * R > (sol * t) * R
  <2> DEFINE l == (gross + 1) * d
             r == sol * t
  <2>1. l \in Nat /\ r \in Nat /\ r + 1 <= l
    BY <1>1, <1>2, <1>3, <1>4
  <2> HIDE DEF l, r
  <2>2. (r + 1) * R <= l * R /\ (r + 1) * R = r * R + R
    BY <1>2, <2>1, MulMono
  <2>3. r * R \in Nat /\ l * R \in Nat
    BY <1>2, <2>1
  <2>4. l * R > r * R
    BY <1>2, <2>2, <2>3
  <2> QED
    BY <2>4 DEF l, r
<1>10. sol * t * R \in Nat /\ d * BPS \in Nat \ {0} /\ (out + 1) * (d * BPS) \in Nat
  BY <1>1, <1>2, <1>5, PanelScale
<1>11. ((gross + 1) * d) * R \in Nat /\ (sol * t) * R = sol * t * R
  BY <1>1, <1>2, <1>3
<1>12. (out + 1) * (d * BPS) > sol * t * R
  BY <1>6, <1>7, <1>8, <1>9, <1>10, <1>11
<1>13. quoteSell(m, t).num = sol * t * R /\ quoteSell(m, t).den = d * BPS
  BY DEF quoteSell, Fraction, sol, tok, R
<1>14. SoldGross(m, t) = gross /\ Sold(m, t) = out
  BY DEF SoldGross, Sold, gross, out, sol, tok
<1> QED
  BY <1>1, <1>3, <1>5, <1>10, <1>12, <1>13, <1>14 DEF sol

(* The limit an order carries: what meets the quote meets it, and what     *)
(* meets it is within 2% and one unit of the quote.                        *)
LEMMA LimitOf ==
  ASSUME NEW q, q.num \in Nat, q.den \in Nat \ {0}, NEW out \in Nat
  PROVE  /\ min_of(q) \in Nat
         /\ (out + 1) * q.den > q.num => out >= min_of(q)
         /\ out >= min_of(q) => (out + 1) * KeepDen * q.den > KeepNum * q.num
<1> DEFINE num == q.num
           den == q.den
           n == KeepNum * num
           w == KeepDen * den
           min == n \div w
<1>1. num \in Nat /\ den \in Nat \ {0}
  OBVIOUS
<1>2. min_of(q) = min
  BY DEF min_of
<1> HIDE DEF num, den
<1>3. n \in Nat /\ w \in Nat \ {0}
  BY <1>1, PanelScale
<1>4. min \in Nat /\ n < w * min + w
  BY <1>3, DivBound
<1>5. ASSUME (out + 1) * den > num PROVE out >= min
  <2>1. n <= KeepDen * num
    BY <1>1, PanelScale, MulMono
  <2>2. KeepDen * num < w * out + w
    <3> DEFINE l == (out + 1) * den
    <3>1. l \in Nat /\ num + 1 <= l
      BY <1>1, <1>5
    <3>2. w * out + w = l * KeepDen
      BY <1>1, PanelScale
    <3> HIDE DEF l
    <3>3. (num + 1) * KeepDen <= l * KeepDen /\ (num + 1) * KeepDen = KeepDen * num + KeepDen
      BY <1>1, <3>1, PanelScale, MulMono
    <3>4. KeepDen * num \in Nat /\ l * KeepDen \in Nat
      BY <1>1, <3>1, PanelScale
    <3> QED
      BY <3>2, <3>3, <3>4, PanelScale
  <2>3. KeepDen * num \in Nat /\ w * out \in Nat
    BY <1>1, <1>3, PanelScale
  <2> HIDE DEF n, w
  <2>4. n < w * out + w
    BY <1>3, <2>1, <2>2, <2>3
  <2> QED
    BY <1>3, <1>4, <2>4, DivAtMost
<1>6. ASSUME out >= min PROVE (out + 1) * KeepDen * den > KeepNum * num
  <2> HIDE DEF w, n, min
  <2>1. min * w <= out * w /\ min * w = w * min /\ out * w = w * out
    BY <1>3, <1>4, <1>6, MulMono
  <2>2. w * min \in Nat /\ w * out \in Nat
    BY <1>3, <1>4
  <2>3. w * out + w > n
    BY <1>3, <1>4, <2>1, <2>2
  <2>4. (out + 1) * KeepDen * den = w * out + w
    BY <1>1, PanelScale DEF w
  <2> QED
    BY <2>3, <2>4 DEF n
<1> QED
  BY <1>2, <1>4, <1>5, <1>6 DEF num, den

(* Trades leave a market in which one can trade on.                        *)
LEMMA TradesKeepMarket ==
  ASSUME NEW m, Tradable(m), NEW a \in Nat \ {0}
  PROVE  Tradable(AfterBuy(m, a)) /\ Tradable(AfterSell(m, a))
<1>1. m \in Market /\ (isCurve(m) => m.sol > 0 /\ m.tok > 0)
  BY DEF Tradable
<1>2. m.sol \in Nat /\ m.tok \in Nat /\ m.raised \in Int
  BY <1>1 DEF Market
<1>3. Tradable(AfterBuy(m, a))
  <2> DEFINE net == a - mul_bps(a, FEE_BPS)
             out == Bought(m, a)
  <2>1. net \in Nat /\ net > 0
    BY FeeIsLow
  <2>2. out \in Nat /\ out <= m.tok
    BY BuyMeetsQuote
  <2>3. m.sol > 0 /\ m.tok > 0 => out < m.tok
    <3> DEFINE sol == m.sol
               tok == m.tok
    <3>1. sol \in Nat /\ tok \in Nat /\ sol + net > 0
      BY <1>2, <2>1
    <3>2. out = cp_out(sol, tok, net)
      BY DEF Bought
    <3> HIDE DEF sol, tok, net, out
    <3>3. sol > 0 /\ tok > 0 => out < tok
      BY <2>1, <3>1, <3>2, SwapBound
    <3> QED
      BY <3>3 DEF sol, tok
  <2>4. AfterBuy(m, a) =
          [m EXCEPT !.sol = m.sol + net, !.tok = m.tok - out,
                    !.raised = IF m.status = "bootstrap" THEN m.raised + net ELSE m.raised]
    BY DEF AfterBuy
  <2> HIDE DEF net, out
  <2>5. m.sol + net \in Nat /\ m.tok - out \in Nat
        /\ (IF m.status = "bootstrap" THEN m.raised + net ELSE m.raised) \in Int
    BY <1>2, <2>1, <2>2
  <2>6. AfterBuy(m, a) \in Market /\ AfterBuy(m, a).status = m.status
        /\ AfterBuy(m, a).sol = m.sol + net /\ AfterBuy(m, a).tok = m.tok - out
    BY <1>1, <2>4, <2>5 DEF Market
  <2> QED
    BY <1>1, <1>2, <2>1, <2>2, <2>3, <2>6 DEF Tradable, isCurve
<1>4. Tradable(AfterSell(m, a))
  <2> DEFINE gross == SoldGross(m, a)
  <2>1. gross \in Nat /\ gross <= m.sol /\ (isCurve(m) => gross < m.sol)
    BY SellMeetsQuote
  <2>2. AfterSell(m, a) =
          [m EXCEPT !.sol = m.sol - gross, !.tok = m.tok + a,
                    !.raised = IF m.status = "bootstrap" THEN m.raised - gross ELSE m.raised]
    BY DEF AfterSell
  <2> HIDE DEF gross
  <2>3. m.sol - gross \in Nat /\ m.tok + a \in Nat
        /\ (IF m.status = "bootstrap" THEN m.raised - gross ELSE m.raised) \in Int
    BY <1>2, <2>1
  <2>4. AfterSell(m, a) \in Market /\ AfterSell(m, a).status = m.status
        /\ AfterSell(m, a).sol = m.sol - gross /\ AfterSell(m, a).tok = m.tok + a
    BY <1>1, <2>2, <2>3 DEF Market
  <2> QED
    BY <1>1, <1>2, <2>1, <2>4 DEF Tradable, isCurve
<1> QED
  BY <1>3, <1>4

Short == [collateral : Nat, debt_scaled : Nat]

(* An order is quoted from the market it was clicked on.                   *)
Traded(o, side, q) ==
  /\ o.fn = <<IF isCurve(o.seen) THEN "curve" ELSE "amm", side>>
  /\ o.amount \in Nat \ {0} /\ o.quote = q /\ o.min = min_of(q)
Hedged(o) ==
  /\ o.fn = <<"short">> /\ o.amount \in Nat
  /\ o.quote.num \in Nat /\ o.quote.den = 1 /\ o.min = 0
  /\ o.seen.status = "live" /\ o.quote.num >= TOKEN_BASE
  /\ o.quote.num * o.seen.index * DrawCr <= o.amount * BASE_UNITS_PER_NFT * BPS
Quoted(o) ==
  /\ Tradable(o.seen) /\ ~o.seen.frozen
  /\ \/ Traded(o, "buy", quoteBuy(o.seen, o.amount))
     \/ Traded(o, "sell", quoteSell(o.seen, o.amount))
     \/ Hedged(o)

(* An order on the market it was quoted from: a trade quoted at one unit   *)
(* at least, or a hedge with room for the rounding.                        *)
Untouched(l) ==
  /\ l.before = l.order.seen
  /\ IF l.order.fn = <<"short">> THEN Roomy(l.before.funding)
     ELSE l.order.quote.num >= l.order.quote.den

Ended(l) ==
  /\ l.out # Rejected =>
       (l.out + 1) * KeepDen * l.order.quote.den > KeepNum * l.order.quote.num
  /\ Untouched(l) => l.out # Rejected

Shown(t) == t.of \in Short /\ t.funding \in Nat /\ t.debt = debtTokens(t.of, t.funding)

PanelInv ==
  /\ Tradable(chain) /\ Tradable(page) /\ position \in Short
  /\ order # None => Quoted(order)
  /\ last # None => Ended(last)
  /\ tab # None => Shown(tab)

LEMMA PanelInit ==
  ASSUME Init
  PROVE  PanelInv
<1>1. Tradable(chain)
  BY PanelScale, TradeAssumption DEF Init, Tradable, Market, isCurve
<1>2. position \in Short
  BY DEF Init, NoPosition, Short
<1> QED
  BY <1>1, <1>2 DEF Init, PanelInv

(* The market moves under the page.                                        *)
LEMMA OthersKeep ==
  ASSUME PanelInv, OtherBuys \/ OtherSells \/ Graduate \/ IndexMoves \/ FundingMoves \/ Breaker
  PROVE  PanelInv'
<1>1. chain \in Market /\ UNCHANGED <<page, order, last, position, tab>>
  BY DEF PanelInv, Tradable, OtherBuys, OtherSells, Graduate, IndexMoves, FundingMoves, Breaker, Moves
<1>2. CASE OtherBuys
  BY <1>2, TradesKeepMarket, TradeAssumption DEF OtherBuys, Moves, PanelInv
<1>3. CASE OtherSells
  BY <1>3, TradesKeepMarket, TradeAssumption DEF OtherSells, Moves, PanelInv
<1>4. CASE Graduate
  <2> DEFINE tok == (chain.raised * chain.tok) \div chain.sol
  <2>1. chain.raised \in Nat /\ chain.tok \in Nat /\ chain.sol \in Nat \ {0}
    BY <1>1, <1>4, TradeAssumption DEF Graduate, PanelInv, Tradable, Market, isCurve
  <2>2. tok \in Nat
    BY <2>1, DivBound
  <2>3. chain' = [chain EXCEPT !.status = "live", !.sol = chain.raised, !.tok = tok]
    BY <1>4 DEF Graduate, Moves
  <2> HIDE DEF tok
  <2>4. Tradable(chain')
    BY <1>1, <2>1, <2>2, <2>3 DEF Tradable, Market, isCurve
  <2> QED
    BY <1>1, <2>4 DEF PanelInv
<1>5. CASE IndexMoves \/ FundingMoves \/ Breaker
  <2>1. \/ \E i \in Indexes : chain' = [chain EXCEPT !.index = i]
        \/ \E f \in Fundings : chain' = [chain EXCEPT !.funding = f]
        \/ chain' = [chain EXCEPT !.frozen = ~chain.frozen]
    BY <1>5 DEF IndexMoves, FundingMoves, Breaker, Moves
  <2>2. /\ Indexes \subseteq Nat \ {0} /\ Fundings \subseteq Nat \ {0}
    BY TradeAssumption
  <2>3. /\ chain' \in Market /\ chain'.status = chain.status /\ chain'.sol = chain.sol
        /\ chain'.tok = chain.tok
    BY <1>1, <2>1, <2>2 DEF Market
  <2> QED
    BY <1>1, <2>3 DEF PanelInv, Tradable, isCurve
<1> QED
  BY <1>2, <1>3, <1>4, <1>5

(* An order is made from the page. *)
LEMMA ClicksKeep ==
  ASSUME PanelInv, ClickBuy \/ ClickSell \/ ClickHedge
  PROVE  PanelInv'
<1>1. PICK o : Click(o) /\ Quoted(o)
  <2>1. CASE ClickBuy
    <3>1. PICK a \in SolIn :
            Click(IF isCurve(page) THEN curveBuy(a, quoteBuy(page, a)) ELSE ammBuy(a, quoteBuy(page, a)))
      BY <2>1 DEF ClickBuy
    <3> DEFINE o == IF isCurve(page) THEN curveBuy(a, quoteBuy(page, a)) ELSE ammBuy(a, quoteBuy(page, a))
    <3>2. a \in Nat \ {0} /\ Tradable(page) /\ ~page.frozen
      BY <3>1, TradeAssumption DEF PanelInv, Click
    <3>3. /\ o.fn = <<IF isCurve(page) THEN "curve" ELSE "amm", "buy">> /\ o.amount = a
          /\ o.quote = quoteBuy(page, a) /\ o.min = min_of(o.quote) /\ o.seen = page
      BY DEF curveBuy, ammBuy, Sent
    <3> HIDE DEF o
    <3> QED
      BY <3>1, <3>2, <3>3 DEF Quoted, Traded, o
  <2>2. CASE ClickSell
    <3>1. PICK t \in TokensIn :
            Click(IF isCurve(page) THEN curveSell(t, quoteSell(page, t)) ELSE ammSell(t, quoteSell(page, t)))
      BY <2>2 DEF ClickSell
    <3> DEFINE o == IF isCurve(page) THEN curveSell(t, quoteSell(page, t)) ELSE ammSell(t, quoteSell(page, t))
    <3>2. t \in Nat \ {0} /\ Tradable(page) /\ ~page.frozen
      BY <3>1, TradeAssumption DEF PanelInv, Click
    <3>3. /\ o.fn = <<IF isCurve(page) THEN "curve" ELSE "amm", "sell">> /\ o.amount = t
          /\ o.quote = quoteSell(page, t) /\ o.min = min_of(o.quote) /\ o.seen = page
      BY DEF curveSell, ammSell, Sent
    <3> HIDE DEF o
    <3> QED
      BY <3>1, <3>2, <3>3 DEF Quoted, Traded, o
  <2>3. CASE ClickHedge
    <3>1. PICK c \in Collaterals : tokensMax(c) > 0 /\ Click(openShort(c, tokensMax(c)))
      BY <2>3 DEF ClickHedge
    <3> DEFINE draw == tokensMax(c)
               o == openShort(c, draw)
    <3>2. c \in Nat /\ Tradable(page) /\ ~page.frozen
      BY <3>1, TradeAssumption DEF PanelInv, Click
    <3>3. draw \in Nat /\ draw >= TOKEN_BASE
          /\ draw * page.index * DrawCr <= c * BASE_UNITS_PER_NFT * BPS
      <4> DEFINE n == c * BASE_UNITS_PER_NFT * BPS
                 w == page.index * DrawCr
                 q == n \div w
      <4>1. page.index \in Nat \ {0}
        BY <3>2 DEF Tradable, Market
      <4>2. n \in Nat /\ w \in Nat \ {0}
        BY <3>2, <4>1, PanelScale
      <4>3. draw = (q \div TOKEN_BASE) * TOKEN_BASE
        BY DEF tokensMax, whole_tokens
      <4>0. draw > 0
        BY <3>1
      <4> HIDE DEF n, w, draw
      <4>4. q \in Nat /\ w * q <= n
        BY <4>2, DivBound
      <4> HIDE DEF q
      <4> DEFINE k == q \div TOKEN_BASE
      <4>5. k \in Nat /\ TOKEN_BASE * k <= q
        BY <4>4, PanelScale, DivBound
      <4>6. draw = k * TOKEN_BASE
        BY <4>3
      <4> HIDE DEF k
      <4>7. draw \in Nat /\ draw <= q
        BY <4>5, <4>6, PanelScale
      <4>8. draw >= TOKEN_BASE
        <5>1. k >= 1
          <6>1. SUFFICES ASSUME k = 0 PROVE FALSE
            BY <4>5
          <6> QED
            BY <4>0, <4>6, <6>1, PanelScale
        <5>2. 1 * TOKEN_BASE <= k * TOKEN_BASE
          BY <4>5, <5>1, PanelScale, MulMono
        <5> QED
          BY <4>6, <5>2, PanelScale
      <4>9. draw * w <= n
        <5>1. draw * w <= q * w /\ q * w = w * q
          BY <4>2, <4>4, <4>7, MulMono
        <5>2. draw * w \in Nat /\ w * q \in Nat
          BY <4>2, <4>4, <4>7
        <5> QED
          BY <4>2, <4>4, <5>1, <5>2
      <4>10. draw * w = draw * page.index * DrawCr
        BY <4>1, <4>7, PanelScale DEF w
      <4> QED
        BY <4>7, <4>8, <4>9, <4>10 DEF n
    <3>4. /\ o.fn = <<"short">> /\ o.amount = c /\ o.quote.num = draw /\ o.quote.den = 1
          /\ o.min = 0 /\ o.seen = page
      BY DEF openShort, Sent, Fraction
    <3>5. page.status = "live"
      BY <2>3 DEF ClickHedge
    <3> HIDE DEF draw, o
    <3> QED
      BY <3>1, <3>2, <3>3, <3>4, <3>5 DEF Quoted, Hedged, o, draw
  <2> QED
    BY <2>1, <2>2, <2>3
<1>2. order' = o /\ last' = None /\ UNCHANGED <<chain, page, position, tab>>
  BY <1>1 DEF Click
<1> QED
  BY <1>1, <1>2 DEF PanelInv

LEMMA PageKeeps ==
  ASSUME PanelInv, Poll \/ Refresh
  PROVE  PanelInv'
<1>1. CASE Poll
  BY <1>1 DEF Poll, PanelInv
<1>2. CASE Refresh
  <2> DEFINE t == [of |-> position, funding |-> page.funding, debt |-> debtTokens(position, page.funding)]
  <2>1. tab' = t /\ UNCHANGED <<chain, page, order, last, position>>
    BY <1>2 DEF Refresh
  <2>2. position \in Short /\ page.funding \in Nat
    BY DEF PanelInv, Tradable, Market
  <2>3. t.of = position /\ t.funding = page.funding /\ t.debt = debtTokens(t.of, t.funding)
    OBVIOUS
  <2> HIDE DEF t
  <2>4. Shown(t)
    BY <2>2, <2>3 DEF Shown
  <2> QED
    BY <2>1, <2>4 DEF PanelInv
<1> QED
  BY <1>1, <1>2

(* An order lands. *)
LEMMA TradeEnds ==
  ASSUME Tradable(chain), NEW o, Quoted(o), ~Hedged(o)
  PROVE  /\ Result(o) # Rejected =>
              /\ Result(o) \in Nat /\ Result(o) >= o.min
              /\ (Result(o) + 1) * KeepDen * o.quote.den > KeepNum * o.quote.num
         /\ chain = o.seen /\ o.quote.num >= o.quote.den => Result(o) # Rejected
         /\ o.amount \in Nat \ {0} /\ o.fn # <<"short">>
<1> DEFINE side == o.fn[2]
           out == IF side = "buy" THEN Bought(chain, o.amount) ELSE Sold(chain, o.amount)
<1>1. /\ o.amount \in Nat \ {0} /\ o.min = min_of(o.quote) /\ Tradable(o.seen) /\ ~o.seen.frozen
      /\ side \in {"buy", "sell"}
      /\ o.fn = <<IF isCurve(o.seen) THEN "curve" ELSE "amm", side>>
      /\ o.quote = IF side = "buy" THEN quoteBuy(o.seen, o.amount) ELSE quoteSell(o.seen, o.amount)
  BY DEF Quoted, Traded
<1>2. o.fn # <<"short">> /\ (o.fn[1] = "curve" <=> isCurve(o.seen))
  BY <1>1
<1>3. out \in Nat
  BY <1>1, BuyMeetsQuote, SellMeetsQuote
<1>4. o.quote.num \in Nat /\ o.quote.den \in Nat \ {0}
  BY <1>1, BuyMeetsQuote, SellMeetsQuote
<1>5. chain = o.seen => (out + 1) * o.quote.den > o.quote.num
  BY <1>1, BuyMeetsQuote, SellMeetsQuote
<1>6. Result(o) = IF /\ isCurve(chain) = (o.fn[1] = "curve") /\ out > 0 /\ out >= o.min
                     /\ ~chain.frozen
                  THEN out ELSE Rejected
  BY <1>2 DEF Result
<1> HIDE DEF out
<1>7. Rejected \notin Nat
  BY PanelScale
<1>8. ASSUME Result(o) # Rejected
      PROVE  /\ Result(o) \in Nat /\ Result(o) >= o.min
             /\ (Result(o) + 1) * KeepDen * o.quote.den > KeepNum * o.quote.num
  <2>1. Result(o) = out /\ out >= min_of(o.quote)
    BY <1>1, <1>6, <1>8
  <2>2. (out + 1) * KeepDen * o.quote.den > KeepNum * o.quote.num
    BY <1>3, <1>4, <2>1, LimitOf
  <2> QED
    BY <1>1, <1>3, <2>1, <2>2
<1>9. ASSUME chain = o.seen, o.quote.num >= o.quote.den
      PROVE  Result(o) # Rejected
  <2>1. out >= o.min
    BY <1>1, <1>3, <1>4, <1>5, <1>9, LimitOf
  <2>2. out > 0
    <3>1. SUFFICES ASSUME out = 0 PROVE FALSE
      BY <1>3
    <3> QED
      BY <1>4, <1>5, <1>9, <3>1
  <2>3. isCurve(chain) = (o.fn[1] = "curve") /\ ~chain.frozen
    <3>1. isCurve(chain) \in BOOLEAN /\ (o.fn[1] = "curve") \in BOOLEAN
      BY DEF isCurve
    <3> QED
      BY <1>1, <1>2, <1>9, <3>1
  <2> QED
    BY <1>3, <1>6, <1>7, <2>1, <2>2, <2>3
<1> QED
  BY <1>1, <1>2, <1>8, <1>9

(* A common factor cancels. *)
LEMMA ScaledLess ==
  ASSUME NEW x \in Nat, NEW y \in Nat, NEW k \in Nat \ {0}, k * x <= k * y
  PROVE  x <= y
<1>1. SUFFICES ASSUME y + 1 <= x PROVE FALSE
  OBVIOUS
<1>2. (y + 1) * k <= x * k
  BY <1>1, MulMono
<1>3. (y + 1) * k = k * y + k /\ x * k = k * x /\ k * y \in Nat /\ k * x \in Nat
  OBVIOUS
<1> QED
  BY <1>2, <1>3

(* A value at the index is rounded down. *)
LEMMA ValueBound ==
  ASSUME NEW d \in Nat, NEW i \in Nat
  PROVE  /\ value_at_index(d, i) \in Nat
         /\ BASE_UNITS_PER_NFT * value_at_index(d, i) <= d * i
<1> DEFINE v == value_at_index(d, i)
           n == d * i
           r == n \div BASE_UNITS_PER_NFT
<1>1. v = U64(r)
  BY DEF value_at_index
<1>2. n \in Nat
  OBVIOUS
<1> HIDE DEF n, v
<1>3. r \in Nat /\ BASE_UNITS_PER_NFT * r <= n
  BY <1>2, PanelScale, DivBound
<1> HIDE DEF r
<1>4. v \in Nat /\ v <= r
  BY <1>1, <1>3, U64Bound, U64Type
<1>5. v * BASE_UNITS_PER_NFT <= r * BASE_UNITS_PER_NFT
  BY <1>3, <1>4, PanelScale, MulMono
<1>6. /\ v * BASE_UNITS_PER_NFT \in Nat /\ r * BASE_UNITS_PER_NFT \in Nat
      /\ v * BASE_UNITS_PER_NFT = BASE_UNITS_PER_NFT * v
      /\ r * BASE_UNITS_PER_NFT = BASE_UNITS_PER_NFT * r
  BY <1>3, <1>4, PanelScale
<1> QED
  BY <1>2, <1>3, <1>4, <1>5, <1>6 DEF n, v

(* A hedge drawn from the market it lands on is covered. *)
LEMMA HedgeEnds ==
  ASSUME Tradable(chain), NEW o, Hedged(o), Tradable(o.seen), ~o.seen.frozen
  PROVE  /\ Result(o) # Rejected => Result(o) = o.quote.num
         /\ chain = o.seen /\ Roomy(chain.funding) => Result(o) # Rejected
         /\ Opened(o) \in Short
<1> DEFINE D == o.quote.num
           A == o.amount
           f == chain.funding
           i == chain.index
           s == scaled_from_debt(D, f)
           d == debt_from_scaled(s, f)
           v == value_at_index(d, i)
           c == (f - 1) \div FUNDING_ONE
           q == (s * f) \div FUNDING_ONE
<1>1. /\ D \in Nat /\ A \in Nat /\ f \in Nat \ {0} /\ i \in Nat \ {0}
      /\ o.fn = <<"short">> /\ o.seen.status = "live" /\ D >= TOKEN_BASE
      /\ D * o.seen.index * DrawCr <= A * BASE_UNITS_PER_NFT * BPS
  BY DEF Hedged, Tradable, Market
<1>2. Opened(o) = [collateral |-> A, debt_scaled |-> s]
  BY DEF Opened
<1>3. covered(Opened(o), InitialCr) <=> A * BPS >= v * InitialCr
  BY <1>2 DEF covered
<1>4. Result(o) =
        IF chain.status = "live" /\ i > 0 /\ covered(Opened(o), InitialCr) /\ ~chain.frozen
        THEN D ELSE Rejected
  BY <1>1 DEF Result
<1> HIDE DEF D, A, f, i
<1>5. s \in Nat
  BY <1>1, ScaledType
<1>6. Opened(o) \in Short
  BY <1>1, <1>2, <1>5 DEF Short
<1>7. ASSUME chain = o.seen, Roomy(f) PROVE Result(o) # Rejected
  <2>1. c \in Nat /\ c * InitialCr <= TOKEN_BASE * (DrawCr - InitialCr)
    BY <1>1, <1>7, PanelScale, DivBound DEF Roomy
  <2>2. q \in Nat /\ q <= D + c
    <3> DEFINE n == s * f
               k == D + c
    <3>1. D * FUNDING_ONE \in Nat /\ f - 1 \in Nat /\ s = CeilDiv(D * FUNDING_ONE, f)
      BY <1>1, PanelScale DEF scaled_from_debt
    <3>2. f * s < D * FUNDING_ONE + f
      BY <1>1, <3>1, CeilBound
    <3>3. f - 1 < FUNDING_ONE * c + FUNDING_ONE
      BY <3>1, PanelScale, DivBound
    <3> HIDE DEF s, c
    <3>4. n \in Nat /\ n = f * s /\ k \in Nat
      BY <1>1, <1>5, <2>1
    <3>5. FUNDING_ONE * k = D * FUNDING_ONE + FUNDING_ONE * c /\ FUNDING_ONE * c \in Nat
      BY <1>1, <2>1, PanelScale
    <3> HIDE DEF n, k
    <3>6. n < FUNDING_ONE * k + FUNDING_ONE
      BY <1>1, <3>1, <3>2, <3>3, <3>4, <3>5, PanelScale
    <3>7. n \div FUNDING_ONE \in Nat /\ n \div FUNDING_ONE <= k
      BY <3>4, <3>6, PanelScale, DivBound, DivAtMost
    <3> QED
      BY <3>7 DEF n, k
  <2>3. d \in Nat /\ d <= D + c
    <3>1. d = U64(q)
      BY DEF debt_from_scaled
    <3> HIDE DEF q, d
    <3>2. U64(q) \in Nat /\ U64(q) <= q
      BY <2>2, U64Bound, U64Type
    <3> QED
      BY <1>1, <2>1, <2>2, <3>1, <3>2
  <2>4. v \in Nat /\ BASE_UNITS_PER_NFT * v <= d * i
    BY <1>1, <2>3, ValueBound
  <2>5. InitialCr \in Nat /\ DrawCr \in Nat \ {0}
    BY TradeAssumption
  <2> HIDE DEF s, d, v, c, q
  <2>6. (D + c) * InitialCr <= D * DrawCr
    <3>1. CASE DrawCr >= InitialCr
      <4> DEFINE g == DrawCr - InitialCr
      <4>1. g \in Nat /\ DrawCr = InitialCr + g
        BY <2>5, <3>1
      <4> HIDE DEF g
      <4>2. TOKEN_BASE * g <= D * g
        BY <1>1, <4>1, PanelScale, MulMono
      <4>3. D * DrawCr = D * InitialCr + D * g
        BY <1>1, <2>5, <4>1
      <4>4. (D + c) * InitialCr = D * InitialCr + c * InitialCr
        BY <1>1, <2>1, <2>5
      <4>5. D * InitialCr \in Nat /\ c * InitialCr \in Nat /\ D * g \in Nat /\ TOKEN_BASE * g \in Nat
        BY <1>1, <2>1, <2>5, <4>1, PanelScale
      <4>6. c * InitialCr <= TOKEN_BASE * g
        BY <2>1 DEF g
      <4> QED
        BY <4>2, <4>3, <4>4, <4>5, <4>6
    <3>2. CASE DrawCr < InitialCr
      <4>1. TOKEN_BASE * (DrawCr - InitialCr) < 0
        BY <2>5, <3>2, PanelScale
      <4>2. c * InitialCr >= 0
        BY <2>1, <2>5
      <4>3. c * InitialCr \in Int /\ TOKEN_BASE * (DrawCr - InitialCr) \in Int
        BY <2>1, <2>5, PanelScale
      <4> QED
        BY <2>1, <4>1, <4>2, <4>3
    <3> QED
      BY <2>5, <3>1, <3>2
  <2>7. v * InitialCr <= A * BPS
    <3> DEFINE x == v * InitialCr
               y == A * BPS
    <3>1. x \in Nat /\ y \in Nat
      BY <1>1, <2>4, <2>5, PanelScale
    <3>2. BASE_UNITS_PER_NFT * x <= (d * i) * InitialCr
      <4>1. BASE_UNITS_PER_NFT * v \in Nat /\ d * i \in Nat
        BY <1>1, <2>3, <2>4, PanelScale
      <4>2. (BASE_UNITS_PER_NFT * v) * InitialCr <= (d * i) * InitialCr
        BY <2>4, <2>5, <4>1, MulMono
      <4>3. (BASE_UNITS_PER_NFT * v) * InitialCr = BASE_UNITS_PER_NFT * x
        BY <2>4, <2>5, PanelScale
      <4> QED
        BY <4>2, <4>3
    <3>3. (d * i) * InitialCr <= ((D + c) * InitialCr) * i
      <4> DEFINE w == i * InitialCr
      <4>1. w \in Nat /\ D + c \in Nat
        BY <1>1, <2>1, <2>5
      <4>2. d * w <= (D + c) * w
        BY <2>3, <4>1, MulMono
      <4>3. d * w = (d * i) * InitialCr /\ (D + c) * w = ((D + c) * InitialCr) * i
        BY <1>1, <2>1, <2>3, <2>5
      <4> QED
        BY <4>2, <4>3
    <3>4. ((D + c) * InitialCr) * i <= (D * DrawCr) * i
      <4>1. (D + c) * InitialCr \in Nat /\ D * DrawCr \in Nat
        BY <1>1, <2>1, <2>5
      <4> QED
        BY <1>1, <2>6, <4>1, MulMono
    <3>5. (D * DrawCr) * i <= BASE_UNITS_PER_NFT * y
      <4>1. i = o.seen.index
        BY <1>7 DEF i
      <4>2. D * i * DrawCr <= A * BASE_UNITS_PER_NFT * BPS
        BY <1>1, <4>1
      <4>3. D * i * DrawCr = (D * DrawCr) * i
        BY <1>1, <2>5
      <4>4. A * BASE_UNITS_PER_NFT * BPS = BASE_UNITS_PER_NFT * y
        BY <1>1, PanelScale
      <4> QED
        BY <4>2, <4>3, <4>4
    <3>6. BASE_UNITS_PER_NFT * x <= BASE_UNITS_PER_NFT * y
      <4>1. /\ BASE_UNITS_PER_NFT * x \in Nat /\ BASE_UNITS_PER_NFT * y \in Nat
            /\ (d * i) * InitialCr \in Nat /\ ((D + c) * InitialCr) * i \in Nat
            /\ (D * DrawCr) * i \in Nat
        BY <1>1, <2>1, <2>3, <2>5, <3>1, PanelScale
      <4> QED
        BY <3>2, <3>3, <3>4, <3>5, <4>1
    <3> HIDE DEF x, y
    <3>7. x <= y
      BY <3>1, <3>6, PanelScale, ScaledLess
    <3> QED
      BY <3>7 DEF x, y
  <2>8. v * InitialCr \in Nat /\ A * BPS \in Nat
    BY <1>1, <2>4, <2>5, PanelScale
  <2>9. covered(Opened(o), InitialCr)
    BY <1>3, <2>7, <2>8
  <2>10. chain.status = "live" /\ ~chain.frozen
    BY <1>1, <1>7
  <2> QED
    BY <1>1, <1>4, <2>9, <2>10, PanelScale
<1>8. Result(o) # Rejected => Result(o) = D
  BY <1>4
<1> QED
  BY <1>6, <1>7, <1>8 DEF D, f

(* The transaction lands, on the market as it is then. *)
LEMMA LandKeeps ==
  ASSUME PanelInv, Land
  PROVE  PanelInv'
<1> DEFINE out == Result(order)
           l == [order |-> order, before |-> chain, out |-> out]
<1>1. /\ last' = l /\ order' = None /\ UNCHANGED <<page, tab>>
      /\ IF out = Rejected THEN UNCHANGED <<chain, position>>
         ELSE IF order.fn = <<"short">>
         THEN position' = Opened(order) /\ UNCHANGED chain
         ELSE IF order.fn[2] = "buy"
         THEN chain' = AfterBuy(chain, order.amount) /\ UNCHANGED position
         ELSE chain' = AfterSell(chain, order.amount) /\ UNCHANGED position
  BY DEF Land
<1>2. Quoted(order) /\ Tradable(chain) /\ position \in Short
  BY DEF Land, PanelInv
<1>3. l.order = order /\ l.before = chain /\ l.out = out
  OBVIOUS
<1> HIDE DEF l
<1>4. /\ Ended(l)
      /\ Tradable(chain') /\ position' \in Short
  <2>1. CASE Hedged(order)
    <3>1. order.fn = <<"short">>
      BY <2>1 DEF Hedged
    <3>2. /\ out # Rejected => out = order.quote.num
          /\ chain = order.seen /\ Roomy(chain.funding) => out # Rejected
          /\ Opened(order) \in Short
      BY <1>2, <2>1, HedgeEnds DEF Quoted
    <3>3. order.quote.num \in Nat /\ order.quote.den = 1
      BY <2>1 DEF Hedged
    <3> HIDE DEF out
    <3>4. out # Rejected =>
            (out + 1) * KeepDen * order.quote.den > KeepNum * order.quote.num
      <4> SUFFICES ASSUME out # Rejected
                   PROVE  (out + 1) * KeepDen * order.quote.den > KeepNum * order.quote.num
        OBVIOUS
      <4> DEFINE n == order.quote.num
      <4>1. n \in Nat /\ out = n /\ order.quote.den = 1
        BY <3>2, <3>3
      <4> HIDE DEF n
      <4>2. (out + 1) * KeepDen * order.quote.den = n * KeepDen + KeepDen
        BY <4>1, PanelScale
      <4>3. KeepNum * n <= KeepDen * n
        BY <4>1, PanelScale, MulMono
      <4>4. KeepNum * n \in Nat /\ KeepDen * n \in Nat /\ KeepDen * n = n * KeepDen
        BY <4>1, PanelScale
      <4>5. n * KeepDen + KeepDen > KeepNum * n
        BY <4>3, <4>4, PanelScale
      <4> QED
        BY <4>2, <4>5 DEF n
    <3>5. Ended(l)
      BY <1>3, <3>1, <3>2, <3>4 DEF Ended, Untouched
    <3>6. chain' = chain /\ (position' = position \/ position' = Opened(order))
      BY <1>1, <3>1
    <3> QED
      BY <1>2, <3>2, <3>5, <3>6
  <2>2. CASE ~Hedged(order)
    <3>1. /\ out # Rejected =>
               (out + 1) * KeepDen * order.quote.den > KeepNum * order.quote.num
          /\ chain = order.seen /\ order.quote.num >= order.quote.den => out # Rejected
          /\ order.amount \in Nat \ {0} /\ order.fn # <<"short">>
      BY <1>2, <2>2, TradeEnds
    <3> HIDE DEF out
    <3>2. Ended(l)
      BY <1>3, <3>1 DEF Ended, Untouched
    <3>3. Tradable(AfterBuy(chain, order.amount)) /\ Tradable(AfterSell(chain, order.amount))
      BY <1>2, <3>1, TradesKeepMarket
    <3>4. Tradable(chain')
      BY <1>1, <1>2, <3>1, <3>3
    <3>5. position' = position
      BY <1>1, <3>1
    <3> QED
      BY <1>2, <3>2, <3>4, <3>5
  <2> QED
    BY <2>1, <2>2
<1> QED
  BY <1>1, <1>4 DEF PanelInv

(* Every step keeps the invariant. *)
LEMMA PanelStep ==
  ASSUME PanelInv, [Next]_vars
  PROVE  PanelInv'
<1>1. CASE UNCHANGED vars
  BY <1>1 DEF vars, PanelInv
<1>2. CASE Next
  BY <1>2, ClicksKeep, PageKeeps, LandKeeps, OthersKeep DEF Next
<1> QED
  BY <1>1, <1>2

LEMMA PanelInvariance == Spec => []PanelInv
<1>1. Init => PanelInv
  BY PanelInit
<1>2. PanelInv /\ [Next]_vars => PanelInv'
  BY PanelStep
<1> QED
  BY <1>1, <1>2, PTL DEF Spec

(* QuotesFill: an order that lands on the market it was quoted from is not *)
(* rejected, neither for its limit nor for the ratio of a hedge; and       *)
(* whatever others did before it landed, graduation included, a trade the  *)
(* program fills gives at most the slippage and one unit less than the     *)
(* panel showed. For every curve, fee and amount.                          *)
THEOREM QuotesAreKept ==
  Spec => []QuotesFill
<1>1. PanelInv => QuotesFill
  BY DEF PanelInv, Ended, Untouched, UntouchedFills, FilledAsShown, QuotesFill
<1> QED
  BY <1>1, PanelInvariance, PTL

(* ShownLiquidationHolds: as long as the index is no higher than the       *)
(* liquidation index the position tab shows, and the funding index has not *)
(* risen since, the program does not liquidate: it rounds the debt and its *)
(* value down from the fraction the tab computed with.                     *)
THEOREM LiquidationIsShown ==
  Spec => []ShownLiquidationHolds
<1>1. PanelInv => ShownLiquidationHolds
  <2> SUFFICES ASSUME PanelInv, tab # None, tab.of = position, chain.funding <= tab.funding,
                      chain.index * tab.debt * MaintenanceCr
                        <= position.collateral * BASE_UNITS_PER_NFT * BPS
               PROVE  covered(position, MaintenanceCr)
    BY DEF ShownLiquidationHolds
  <2> DEFINE s == position.debt_scaled
             A == position.collateral
             f == chain.funding
             g == tab.funding
             i == chain.index
             D == tab.debt
             d == debt_from_scaled(s, f)
             v == value_at_index(d, i)
             M == MaintenanceCr
  <2>1. /\ s \in Nat /\ A \in Nat /\ f \in Nat /\ g \in Nat /\ i \in Nat /\ M \in Nat
        /\ f <= g /\ D = (s * g) \div FUNDING_ONE
        /\ i * D * M <= A * BASE_UNITS_PER_NFT * BPS
    BY TradeAssumption DEF PanelInv, Shown, Short, Tradable, Market, debtTokens
  <2>2. covered(position, M) <=> A * BPS >= v * M
    BY DEF covered
  <2> HIDE DEF s, A, f, g, i, D, M
  <2>3. D \in Nat /\ d \in Nat /\ d <= D
    <3> DEFINE q == (s * f) \div FUNDING_ONE
    <3>1. s * f <= s * g /\ s * f \in Nat /\ s * g \in Nat
      BY <2>1, MulMono
    <3>2. q \in Nat /\ q <= D /\ D \in Nat
      BY <2>1, <3>1, PanelScale, DivMono, DivBound
    <3>3. d = U64(q)
      BY DEF debt_from_scaled
    <3> HIDE DEF q, d
    <3>4. d \in Nat /\ d <= q
      BY <3>2, <3>3, U64Bound, U64Type
    <3> QED
      BY <3>2, <3>4
  <2>4. v \in Nat /\ BASE_UNITS_PER_NFT * v <= d * i
    BY <2>1, <2>3, ValueBound
  <2> HIDE DEF d, v
  <2> DEFINE x == v * M
             y == A * BPS
  <2>5. x \in Nat /\ y \in Nat
    BY <2>1, <2>4, PanelScale
  <2>6. BASE_UNITS_PER_NFT * x <= (d * i) * M
    <3>1. BASE_UNITS_PER_NFT * v \in Nat /\ d * i \in Nat
      BY <2>1, <2>3, <2>4, PanelScale
    <3>2. (BASE_UNITS_PER_NFT * v) * M <= (d * i) * M
      BY <2>1, <2>4, <3>1, MulMono
    <3>3. (BASE_UNITS_PER_NFT * v) * M = BASE_UNITS_PER_NFT * x
      BY <2>1, <2>4, PanelScale
    <3> QED
      BY <3>2, <3>3
  <2>7. (d * i) * M <= BASE_UNITS_PER_NFT * y
    <3> DEFINE w == i * M
    <3>1. w \in Nat
      BY <2>1
    <3>2. d * w <= D * w
      BY <2>3, <3>1, MulMono
    <3>3. d * w = (d * i) * M /\ D * w = i * D * M
      BY <2>1, <2>3
    <3>4. A * BASE_UNITS_PER_NFT * BPS = BASE_UNITS_PER_NFT * y
      BY <2>1, PanelScale
    <3>5. d * w \in Nat /\ D * w \in Nat /\ BASE_UNITS_PER_NFT * y \in Nat
      BY <2>1, <2>3, <2>5, <3>1, PanelScale
    <3> QED
      BY <2>1, <3>2, <3>3, <3>4, <3>5
  <2>8. BASE_UNITS_PER_NFT * x <= BASE_UNITS_PER_NFT * y
    <3>1. /\ BASE_UNITS_PER_NFT * x \in Nat /\ BASE_UNITS_PER_NFT * y \in Nat
          /\ (d * i) * M \in Nat
      BY <2>1, <2>3, <2>5, PanelScale
    <3> QED
      BY <2>6, <2>7, <3>1
  <2> HIDE DEF x, y
  <2>9. x <= y
    BY <2>5, <2>8, PanelScale, ScaledLess
  <2>10. A * BPS >= v * M
    BY <2>5, <2>9 DEF x, y
  <2> QED
    BY <2>2, <2>10 DEF M
<1> QED
  BY <1>1, PanelInvariance, PTL

-----------------------------------------------------------------------------
(* The stores of the composition are those of BlogStore_proofs, whose      *)
(* theorems then hold of them: every definition they use is the same, name *)
(* by name.                                                                *)
RedisStore == INSTANCE BlogStore_proofs
  WITH Upstash <- TRUE, Users <- {"u1", "u2"}, Requests <- {"r1", "r2"}, MAX_COMMENTS <- 2, Spellings <- BlogSpellings,
       MaxPosts <- 3, MaxLinks <- 0, MaxSubs <- 0, Faults <- 1,
       page <- comments, taken <- stored, faults <- blogFaults
MailStore == INSTANCE BlogStore_proofs
  WITH Upstash <- TRUE, Users <- {"u1"}, Requests <- {"r1", "r2"}, MAX_COMMENTS <- 2, Spellings <- BlogSpellings,
       MaxPosts <- 1, MaxLinks <- 1, MaxSubs <- 4, Faults <- 1,
       page <- comments, taken <- stored, faults <- blogFaults
FileStore == INSTANCE BlogStore_proofs
  WITH Upstash <- FALSE, Users <- {"u1", "u2"}, Requests <- {"r1", "r2"}, MAX_COMMENTS <- 2, Spellings <- BlogSpellings,
       MaxPosts <- 3, MaxLinks <- 0, MaxSubs <- 0, Faults <- 1,
       page <- comments, taken <- stored, faults <- blogFaults
FileMailStore == INSTANCE BlogStore_proofs
  WITH Upstash <- FALSE, Users <- {"u1"}, Requests <- {"r1", "r2"}, MAX_COMMENTS <- 2, Spellings <- BlogSpellings,
       MaxPosts <- 0, MaxLinks <- 0, MaxSubs <- 4, Faults <- 2,
       page <- comments, taken <- stored, faults <- blogFaults

(* Redis takes the steps of RedisStore. *)
LEMMA SameRedis ==
  /\ Redis!Init => RedisStore!Init
  /\ Redis!Next => RedisStore!Next
<1> USE DEF Redis!Idle, Redis!Closed, Redis!Ends, Redis!Fault, Redis!Parsed,
       Redis!Torn, Redis!address, Redis!Void, RedisStore!Idle,
       RedisStore!Closed, RedisStore!Ends, RedisStore!Fault,
       RedisStore!Parsed, RedisStore!Torn, RedisStore!address, RedisStore!Void
<1>1. Redis!Init => RedisStore!Init
  BY DEF Redis!Init, RedisStore!Init
<1>2. \A u : /\ Redis!Open(u) => RedisStore!Open(u)
             /\ Redis!getComments(u) => RedisStore!getComments(u)
             /\ Redis!Loaded(u) => RedisStore!Loaded(u)
             /\ Redis!Link(u) => RedisStore!Link(u)
             /\ Redis!Answered(u) => RedisStore!Answered(u)
  BY DEF Redis!Open, Redis!getComments, Redis!Loaded, Redis!Link,
     Redis!Answered, RedisStore!Open, RedisStore!getComments,
     RedisStore!Loaded, RedisStore!Link, RedisStore!Answered
<1>3. \A u, r : Redis!Post(u, r) => RedisStore!Post(u, r)
  BY DEF Redis!Post, Redis!author, Redis!shown, RedisStore!Post,
     RedisStore!author, RedisStore!shown
<1>4. \A e, r : Redis!Subscribe(e, r) => RedisStore!Subscribe(e, r)
  BY DEF Redis!Subscribe, RedisStore!Subscribe
<1>5. \A r : /\ Redis!Answer(r) => RedisStore!Answer(r)
             /\ Redis!Failed(r) => RedisStore!Failed(r)
             /\ Redis!Unsure(r) => RedisStore!Unsure(r)
  BY DEF Redis!Answer, Redis!AnswerComment, Redis!AnswerNew, Redis!Failed,
     Redis!failed, Redis!Unsure, RedisStore!Answer, RedisStore!AnswerComment,
     RedisStore!AnswerNew, RedisStore!Failed, RedisStore!failed,
     RedisStore!Unsure
<1>6. \A r : Redis!RedisPush(r) => RedisStore!RedisPush(r)
  BY DEF Redis!RedisPush, Redis!Pushed, RedisStore!RedisPush,
     RedisStore!Pushed
<1>7. \A r : Redis!RedisTrim(r) => RedisStore!RedisTrim(r)
  BY <1>5 DEF Redis!RedisTrim, Redis!newest_of, RedisStore!RedisTrim,
     RedisStore!newest_of
<1>8. \A r : Redis!RedisAdd(r) => RedisStore!RedisAdd(r)
  BY <1>5 DEF Redis!RedisAdd, Redis!Contains, RedisStore!RedisAdd,
     RedisStore!Contains
<1>9. \A r : Redis!FileRead(r) => RedisStore!FileRead(r)
  BY DEF Redis!FileRead, Redis!Contains, Redis!new_list, Redis!newest_of,
     Redis!Others, RedisStore!FileRead, RedisStore!Contains,
     RedisStore!new_list, RedisStore!newest_of, RedisStore!Others
<1>10. \A r : Redis!FileTruncated(r) => RedisStore!FileTruncated(r)
  BY DEF Redis!FileTruncated, RedisStore!FileTruncated
<1>11. \A r : Redis!FileWritten(r) => RedisStore!FileWritten(r)
  BY <1>5 DEF Redis!FileWritten, RedisStore!FileWritten
<1>12. \A r : Redis!StoreFails(r) => RedisStore!StoreFails(r)
  BY <1>5 DEF Redis!StoreFails, RedisStore!StoreFails
<1>13. \A r : Redis!WriteFails(r) => RedisStore!WriteFails(r)
  BY <1>5 DEF Redis!WriteFails, RedisStore!WriteFails
<1>14. Redis!Next => RedisStore!Next
  BY <1>2, <1>3, <1>4, <1>6, <1>7, <1>8, <1>9, <1>10, <1>11, <1>12, <1>13 DEF
     Redis!Next, Redis!Serve, RedisStore!Next, RedisStore!Serve
<1> QED
  BY <1>1, <1>14

(* Mails takes the steps of MailStore. *)
LEMMA SameMails ==
  /\ Mails!Init => MailStore!Init
  /\ Mails!Next => MailStore!Next
<1> USE DEF Mails!Idle, Mails!Closed, Mails!Ends, Mails!Fault, Mails!Parsed,
       Mails!Torn, Mails!address, Mails!Void, MailStore!Idle,
       MailStore!Closed, MailStore!Ends, MailStore!Fault, MailStore!Parsed,
       MailStore!Torn, MailStore!address, MailStore!Void
<1>1. Mails!Init => MailStore!Init
  BY DEF Mails!Init, MailStore!Init
<1>2. \A u : /\ Mails!Open(u) => MailStore!Open(u)
             /\ Mails!getComments(u) => MailStore!getComments(u)
             /\ Mails!Loaded(u) => MailStore!Loaded(u)
             /\ Mails!Link(u) => MailStore!Link(u)
             /\ Mails!Answered(u) => MailStore!Answered(u)
  BY DEF Mails!Open, Mails!getComments, Mails!Loaded, Mails!Link,
     Mails!Answered, MailStore!Open, MailStore!getComments, MailStore!Loaded,
     MailStore!Link, MailStore!Answered
<1>3. \A u, r : Mails!Post(u, r) => MailStore!Post(u, r)
  BY DEF Mails!Post, Mails!author, Mails!shown, MailStore!Post,
     MailStore!author, MailStore!shown
<1>4. \A e, r : Mails!Subscribe(e, r) => MailStore!Subscribe(e, r)
  BY DEF Mails!Subscribe, MailStore!Subscribe
<1>5. \A r : /\ Mails!Answer(r) => MailStore!Answer(r)
             /\ Mails!Failed(r) => MailStore!Failed(r)
             /\ Mails!Unsure(r) => MailStore!Unsure(r)
  BY DEF Mails!Answer, Mails!AnswerComment, Mails!AnswerNew, Mails!Failed,
     Mails!failed, Mails!Unsure, MailStore!Answer, MailStore!AnswerComment,
     MailStore!AnswerNew, MailStore!Failed, MailStore!failed, MailStore!Unsure
<1>6. \A r : Mails!RedisPush(r) => MailStore!RedisPush(r)
  BY DEF Mails!RedisPush, Mails!Pushed, MailStore!RedisPush, MailStore!Pushed
<1>7. \A r : Mails!RedisTrim(r) => MailStore!RedisTrim(r)
  BY <1>5 DEF Mails!RedisTrim, Mails!newest_of, MailStore!RedisTrim,
     MailStore!newest_of
<1>8. \A r : Mails!RedisAdd(r) => MailStore!RedisAdd(r)
  BY <1>5 DEF Mails!RedisAdd, Mails!Contains, MailStore!RedisAdd,
     MailStore!Contains
<1>9. \A r : Mails!FileRead(r) => MailStore!FileRead(r)
  BY DEF Mails!FileRead, Mails!Contains, Mails!new_list, Mails!newest_of,
     Mails!Others, MailStore!FileRead, MailStore!Contains, MailStore!new_list,
     MailStore!newest_of, MailStore!Others
<1>10. \A r : Mails!FileTruncated(r) => MailStore!FileTruncated(r)
  BY DEF Mails!FileTruncated, MailStore!FileTruncated
<1>11. \A r : Mails!FileWritten(r) => MailStore!FileWritten(r)
  BY <1>5 DEF Mails!FileWritten, MailStore!FileWritten
<1>12. \A r : Mails!StoreFails(r) => MailStore!StoreFails(r)
  BY <1>5 DEF Mails!StoreFails, MailStore!StoreFails
<1>13. \A r : Mails!WriteFails(r) => MailStore!WriteFails(r)
  BY <1>5 DEF Mails!WriteFails, MailStore!WriteFails
<1>14. Mails!Next => MailStore!Next
  BY <1>2, <1>3, <1>4, <1>6, <1>7, <1>8, <1>9, <1>10, <1>11, <1>12, <1>13 DEF
     Mails!Next, Mails!Serve, MailStore!Next, MailStore!Serve
<1> QED
  BY <1>1, <1>14

(* File takes the steps of FileStore. *)
LEMMA SameFile ==
  /\ File!Init => FileStore!Init
  /\ File!Next => FileStore!Next
<1> USE DEF File!Idle, File!Closed, File!Ends, File!Fault, File!Parsed,
       File!Torn, File!address, File!Void, FileStore!Idle, FileStore!Closed,
       FileStore!Ends, FileStore!Fault, FileStore!Parsed, FileStore!Torn,
       FileStore!address, FileStore!Void
<1>1. File!Init => FileStore!Init
  BY DEF File!Init, FileStore!Init
<1>2. \A u : /\ File!Open(u) => FileStore!Open(u)
             /\ File!getComments(u) => FileStore!getComments(u)
             /\ File!Loaded(u) => FileStore!Loaded(u)
             /\ File!Link(u) => FileStore!Link(u)
             /\ File!Answered(u) => FileStore!Answered(u)
  BY DEF File!Open, File!getComments, File!Loaded, File!Link, File!Answered,
     FileStore!Open, FileStore!getComments, FileStore!Loaded, FileStore!Link,
     FileStore!Answered
<1>3. \A u, r : File!Post(u, r) => FileStore!Post(u, r)
  BY DEF File!Post, File!author, File!shown, FileStore!Post, FileStore!author,
     FileStore!shown
<1>4. \A e, r : File!Subscribe(e, r) => FileStore!Subscribe(e, r)
  BY DEF File!Subscribe, FileStore!Subscribe
<1>5. \A r : /\ File!Answer(r) => FileStore!Answer(r)
             /\ File!Failed(r) => FileStore!Failed(r)
             /\ File!Unsure(r) => FileStore!Unsure(r)
  BY DEF File!Answer, File!AnswerComment, File!AnswerNew, File!Failed,
     File!failed, File!Unsure, FileStore!Answer, FileStore!AnswerComment,
     FileStore!AnswerNew, FileStore!Failed, FileStore!failed, FileStore!Unsure
<1>6. \A r : File!RedisPush(r) => FileStore!RedisPush(r)
  BY DEF File!RedisPush, File!Pushed, FileStore!RedisPush, FileStore!Pushed
<1>7. \A r : File!RedisTrim(r) => FileStore!RedisTrim(r)
  BY <1>5 DEF File!RedisTrim, File!newest_of, FileStore!RedisTrim,
     FileStore!newest_of
<1>8. \A r : File!RedisAdd(r) => FileStore!RedisAdd(r)
  BY <1>5 DEF File!RedisAdd, File!Contains, FileStore!RedisAdd,
     FileStore!Contains
<1>9. \A r : File!FileRead(r) => FileStore!FileRead(r)
  BY DEF File!FileRead, File!Contains, File!new_list, File!newest_of,
     File!Others, FileStore!FileRead, FileStore!Contains, FileStore!new_list,
     FileStore!newest_of, FileStore!Others
<1>10. \A r : File!FileTruncated(r) => FileStore!FileTruncated(r)
  BY DEF File!FileTruncated, FileStore!FileTruncated
<1>11. \A r : File!FileWritten(r) => FileStore!FileWritten(r)
  BY <1>5 DEF File!FileWritten, FileStore!FileWritten
<1>12. \A r : File!StoreFails(r) => FileStore!StoreFails(r)
  BY <1>5 DEF File!StoreFails, FileStore!StoreFails
<1>13. \A r : File!WriteFails(r) => FileStore!WriteFails(r)
  BY <1>5 DEF File!WriteFails, FileStore!WriteFails
<1>14. File!Next => FileStore!Next
  BY <1>2, <1>3, <1>4, <1>6, <1>7, <1>8, <1>9, <1>10, <1>11, <1>12, <1>13 DEF
     File!Next, File!Serve, FileStore!Next, FileStore!Serve
<1> QED
  BY <1>1, <1>14

(* FileMails takes the steps of FileMailStore. *)
LEMMA SameFileMails ==
  /\ FileMails!Init => FileMailStore!Init
  /\ FileMails!Next => FileMailStore!Next
<1> USE DEF FileMails!Idle, FileMails!Closed, FileMails!Ends, FileMails!Fault,
       FileMails!Parsed, FileMails!Torn, FileMails!address, FileMails!Void,
       FileMailStore!Idle, FileMailStore!Closed, FileMailStore!Ends,
       FileMailStore!Fault, FileMailStore!Parsed, FileMailStore!Torn,
       FileMailStore!address, FileMailStore!Void
<1>1. FileMails!Init => FileMailStore!Init
  BY DEF FileMails!Init, FileMailStore!Init
<1>2. \A u : /\ FileMails!Open(u) => FileMailStore!Open(u)
             /\ FileMails!getComments(u) => FileMailStore!getComments(u)
             /\ FileMails!Loaded(u) => FileMailStore!Loaded(u)
             /\ FileMails!Link(u) => FileMailStore!Link(u)
             /\ FileMails!Answered(u) => FileMailStore!Answered(u)
  BY DEF FileMails!Open, FileMails!getComments, FileMails!Loaded,
     FileMails!Link, FileMails!Answered, FileMailStore!Open,
     FileMailStore!getComments, FileMailStore!Loaded, FileMailStore!Link,
     FileMailStore!Answered
<1>3. \A u, r : FileMails!Post(u, r) => FileMailStore!Post(u, r)
  BY DEF FileMails!Post, FileMails!author, FileMails!shown,
     FileMailStore!Post, FileMailStore!author, FileMailStore!shown
<1>4. \A e, r : FileMails!Subscribe(e, r) => FileMailStore!Subscribe(e, r)
  BY DEF FileMails!Subscribe, FileMailStore!Subscribe
<1>5. \A r : /\ FileMails!Answer(r) => FileMailStore!Answer(r)
             /\ FileMails!Failed(r) => FileMailStore!Failed(r)
             /\ FileMails!Unsure(r) => FileMailStore!Unsure(r)
  BY DEF FileMails!Answer, FileMails!AnswerComment, FileMails!AnswerNew,
     FileMails!Failed, FileMails!failed, FileMails!Unsure,
     FileMailStore!Answer, FileMailStore!AnswerComment,
     FileMailStore!AnswerNew, FileMailStore!Failed, FileMailStore!failed,
     FileMailStore!Unsure
<1>6. \A r : FileMails!RedisPush(r) => FileMailStore!RedisPush(r)
  BY DEF FileMails!RedisPush, FileMails!Pushed, FileMailStore!RedisPush,
     FileMailStore!Pushed
<1>7. \A r : FileMails!RedisTrim(r) => FileMailStore!RedisTrim(r)
  BY <1>5 DEF FileMails!RedisTrim, FileMails!newest_of,
     FileMailStore!RedisTrim, FileMailStore!newest_of
<1>8. \A r : FileMails!RedisAdd(r) => FileMailStore!RedisAdd(r)
  BY <1>5 DEF FileMails!RedisAdd, FileMails!Contains, FileMailStore!RedisAdd,
     FileMailStore!Contains
<1>9. \A r : FileMails!FileRead(r) => FileMailStore!FileRead(r)
  BY DEF FileMails!FileRead, FileMails!Contains, FileMails!new_list,
     FileMails!newest_of, FileMails!Others, FileMailStore!FileRead,
     FileMailStore!Contains, FileMailStore!new_list, FileMailStore!newest_of,
     FileMailStore!Others
<1>10. \A r : FileMails!FileTruncated(r) => FileMailStore!FileTruncated(r)
  BY DEF FileMails!FileTruncated, FileMailStore!FileTruncated
<1>11. \A r : FileMails!FileWritten(r) => FileMailStore!FileWritten(r)
  BY <1>5 DEF FileMails!FileWritten, FileMailStore!FileWritten
<1>12. \A r : FileMails!StoreFails(r) => FileMailStore!StoreFails(r)
  BY <1>5 DEF FileMails!StoreFails, FileMailStore!StoreFails
<1>13. \A r : FileMails!WriteFails(r) => FileMailStore!WriteFails(r)
  BY <1>5 DEF FileMails!WriteFails, FileMailStore!WriteFails
<1>14. FileMails!Next => FileMailStore!Next
  BY <1>2, <1>3, <1>4, <1>6, <1>7, <1>8, <1>9, <1>10, <1>11, <1>12, <1>13 DEF
     FileMails!Next, FileMails!Serve, FileMailStore!Next, FileMailStore!Serve
<1> QED
  BY <1>1, <1>14

LEMMA SameStores ==
  /\ UNCHANGED blogVars => /\ UNCHANGED RedisStore!vars
                           /\ UNCHANGED MailStore!vars
                           /\ UNCHANGED FileStore!vars
                           /\ UNCHANGED FileMailStore!vars
  /\ RedisStore!CommentsKept => Redis!CommentsKept
  /\ RedisStore!ShownWereStored => Redis!ShownWereStored
  /\ FileStore!CommentsKept => File!CommentsKept
  /\ FileStore!ShownWereStored => File!ShownWereStored
  /\ MailStore!SubscribedOnce => Mails!SubscribedOnce
  /\ FileMailStore!SubscribedOnce => FileMails!SubscribedOnce
<1>1. UNCHANGED blogVars => /\ UNCHANGED RedisStore!vars
                            /\ UNCHANGED MailStore!vars
                            /\ UNCHANGED FileStore!vars
                            /\ UNCHANGED FileMailStore!vars
  BY DEF blogVars, RedisStore!vars, MailStore!vars, FileStore!vars, FileMailStore!vars
<1>2. RedisStore!CommentsKept => Redis!CommentsKept
  BY DEF Redis!CommentsKept, Redis!Whole, Redis!Contains,
     RedisStore!CommentsKept, RedisStore!Whole, RedisStore!Contains
<1>3. RedisStore!ShownWereStored => Redis!ShownWereStored
  BY DEF Redis!ShownWereStored, Redis!ToSet, RedisStore!ShownWereStored,
     RedisStore!ToSet
<1>4. FileStore!CommentsKept => File!CommentsKept
  BY DEF File!CommentsKept, File!Whole, File!Contains, FileStore!CommentsKept,
     FileStore!Whole, FileStore!Contains
<1>5. FileStore!ShownWereStored => File!ShownWereStored
  BY DEF File!ShownWereStored, File!ToSet, FileStore!ShownWereStored,
     FileStore!ToSet
<1>6. MailStore!SubscribedOnce => Mails!SubscribedOnce
  BY DEF Mails!SubscribedOnce, Mails!Whole, Mails!Contains,
     MailStore!SubscribedOnce, MailStore!Whole, MailStore!Contains
<1>7. FileMailStore!SubscribedOnce => FileMails!SubscribedOnce
  BY DEF FileMails!SubscribedOnce, FileMails!Whole, FileMails!Contains,
     FileMailStore!SubscribedOnce, FileMailStore!Whole, FileMailStore!Contains
<1> QED
  BY <1>1, <1>2, <1>3, <1>4, <1>5, <1>6, <1>7

LEMMA StoresCareful ==
  RedisStore!Careful /\ MailStore!Careful /\ FileStore!Careful /\ FileMailStore!Careful
<1>1. None \notin Nat \cup {"ann", "bob"}
  BY NoneAssumption DEF BlogSpellings
<1> QED
  BY <1>1 DEF RedisStore!Careful, RedisStore!Addresses, RedisStore!address,
     MailStore!Careful, MailStore!Addresses, MailStore!address,
     FileStore!Careful, FileStore!Addresses, FileStore!address,
     FileMailStore!Careful, FileMailStore!Addresses, FileMailStore!address,
     BlogSpellings

clientVars == <<part, vars, viewVars, barVars, tabVars, searchVars, blogVars>>

(* StoreKeeps: comments the server answered for are kept, an address is    *)
(* new once, and a page shows what was stored, on Redis and on the file,   *)
(* whatever overlaps and fails.                                            *)
THEOREM StoreIsKept ==
  ClientsSpec => []StoreKeeps
<1> DEFINE Inv ==
      /\ part = "file" => FileStore!Keeps
      /\ part = "mails" => MailStore!Keeps
      /\ part = "filemails" => FileMailStore!Keeps
      /\ part \notin {"file", "mails", "filemails"} => RedisStore!Keeps
<1>1. ASSUME ClientsInit PROVE Inv
  <2>1. /\ part = "file" => FileStore!Init
        /\ part = "mails" => MailStore!Init
        /\ part = "filemails" => FileMailStore!Init
        /\ part \notin {"file", "mails", "filemails"} => RedisStore!Init
    BY <1>1, SameFile, SameMails, SameFileMails, SameRedis DEF ClientsInit, BlogInit
  <2> QED
    BY <2>1, FileStore!KeepsInit, MailStore!KeepsInit, FileMailStore!KeepsInit, RedisStore!KeepsInit
<1>2. ASSUME Inv, [ClientsNext]_clientVars PROVE Inv'
  <2>1. part' = part
    BY <1>2 DEF ClientsNext, clientVars
  <2>2. CASE part = "file"
    <3>1. FileStore!Next \/ UNCHANGED FileStore!vars
      BY <1>2, <2>2, SameFile, SameStores DEF ClientsNext, clientVars
    <3>2. FileStore!Keeps'
      BY <1>2, <2>2, <3>1, StoresCareful, FileStore!KeepsStep
    <3> QED
      BY <2>1, <2>2, <3>2
  <2>3. CASE part = "mails"
    <3>1. MailStore!Next \/ UNCHANGED MailStore!vars
      BY <1>2, <2>3, SameMails, SameStores DEF ClientsNext, clientVars
    <3>2. MailStore!Keeps'
      BY <1>2, <2>3, <3>1, StoresCareful, MailStore!KeepsStep
    <3> QED
      BY <2>1, <2>3, <3>2
  <2>4. CASE part = "filemails"
    <3>1. FileMailStore!Next \/ UNCHANGED FileMailStore!vars
      BY <1>2, <2>4, SameFileMails, SameStores DEF ClientsNext, clientVars
    <3>2. FileMailStore!Keeps'
      BY <1>2, <2>4, <3>1, StoresCareful, FileMailStore!KeepsStep
    <3> QED
      BY <2>1, <2>4, <3>2
  <2>5. CASE part \notin {"file", "mails", "filemails"}
    <3>1. RedisStore!Next \/ UNCHANGED RedisStore!vars
      BY <1>2, <2>5, SameRedis, SameStores DEF ClientsNext, clientVars
    <3>2. RedisStore!Keeps'
      BY <1>2, <2>5, <3>1, StoresCareful, RedisStore!KeepsStep
    <3> QED
      BY <2>1, <2>5, <3>2
  <2> QED
    BY <2>2, <2>3, <2>4, <2>5
<1>3. ASSUME Inv PROVE StoreKeeps
  <2>1. CASE part = "file"
    <3>1. FileStore!ShownWereStored
      BY <1>3, <2>1 DEF FileStore!Keeps, FileStore!Base, FileStore!Stored,
                        FileStore!ShownWereStored
    <3> QED
      BY <1>3, <2>1, <3>1, StoresCareful, SameStores, FileStore!KeepsComments DEF StoreKeeps
  <2>2. CASE part = "mails"
    BY <1>3, <2>2, StoresCareful, SameStores, MailStore!KeepsSubscribers DEF StoreKeeps
  <2>3. CASE part = "filemails"
    BY <1>3, <2>3, StoresCareful, SameStores, FileMailStore!KeepsSubscribers DEF StoreKeeps
  <2>4. CASE part \notin {"file", "mails", "filemails"}
    <3>1. RedisStore!ShownWereStored
      BY <1>3, <2>4 DEF RedisStore!Keeps, RedisStore!Base, RedisStore!Stored,
                        RedisStore!ShownWereStored
    <3> QED
      BY <1>3, <2>4, <3>1, StoresCareful, SameStores, RedisStore!KeepsComments DEF StoreKeeps
  <2> QED
    BY <2>1, <2>2, <2>3, <2>4
<1> QED
  BY <1>1, <1>2, <1>3, PTL DEF ClientsSpec, clientVars
=============================================================================
