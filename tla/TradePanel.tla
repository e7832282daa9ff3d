----------------------------- MODULE TradePanel -----------------------------
(***************************************************************************)
(* Trading from the app against the program: the quotes of                 *)
(* src/app/src/components/TradePanel.tsx, the hedge of HedgePanel.tsx and  *)
(* the position tab of Panels.tsx, sent by src/app/src/tx.ts.  A quote is  *)
(* made from the market as the page last polled it, in real numbers; the   *)
(* transaction lands later, on the market as it is then, in integers.      *)
(* A quote is the fraction num / den.                                      *)
(***************************************************************************)
EXTENDS FixedMath

CONSTANTS None, Rejected,
          FEE_BPS,       \* the panel's fee, and curveFeeBps, ammFeeBps of devLaunch
          KeepNum, KeepDen, \* 1 - SLIPPAGE
          DrawCr,        \* the hedge panel's ratio (155%), and those of devLaunch:
          InitialCr, MaintenanceCr,
          TOKEN_BASE,    \* base units of a token
          SolIn, TokensIn, Collaterals, \* amounts typed
          Indexes, Fundings,            \* values of the price and the funding index
          VirtualSol, VirtualTokens, Target, \* the curve (the AMM's reserves, when live at first)
          Phase,         \* "bootstrap" or "live": where the market is at first
          MaxMoves,      \* bound: changes of the market by others
          MaxOrders      \* bound: transactions of the user

ASSUME TradeAssumption ==
  /\ Rejected \notin Nat
  /\ FEE_BPS \in 0..(BPS - 1)
  /\ KeepDen \in Nat \ {0} /\ KeepNum \in 0..KeepDen
  /\ DrawCr \in Nat \ {0} /\ InitialCr \in Nat /\ MaintenanceCr \in Nat /\ TOKEN_BASE \in Nat \ {0}
  /\ SolIn \subseteq Nat \ {0} /\ TokensIn \subseteq Nat \ {0} /\ Collaterals \subseteq Nat
  /\ Indexes \subseteq Nat \ {0} /\ Fundings \subseteq Nat \ {0}
  /\ VirtualSol \in Nat \ {0} /\ VirtualTokens \in Nat \ {0} /\ Target \in Nat \ {0}
  /\ Phase \in {"bootstrap", "live"}

VARIABLES chain,    \* [status, frozen, sol, tok, raised, index, funding]
          page,     \* the market as the page polled it
          order,    \* the transaction under way, or None
          last,     \* the last one that ended: [order, before, out]
          held,     \* tokens of the user
          position, \* [collateral, debt_scaled] of the user's short
          tab,      \* what the position tab shows, or None
          moves, orders

vars == <<chain, page, order, last, held, position, tab, moves, orders>>
NoPosition == [collateral |-> 0, debt_scaled |-> 0]

Init ==
  /\ \E i \in Indexes : chain =
       [status |-> Phase, frozen |-> FALSE, sol |-> VirtualSol, tok |-> VirtualTokens,
        raised |-> IF Phase = "live" THEN Target ELSE 0, index |-> i, funding |-> FUNDING_ONE]
  /\ page = chain
  /\ order = None /\ last = None /\ tab = None
  /\ held = 0 /\ position = NoPosition /\ moves = MaxMoves /\ orders = MaxOrders

-----------------------------------------------------------------------------
(* The page *)

Fraction(num, den) == [num |-> num, den |-> den]

quoteBuy(m, solIn) ==
  LET net == solIn * (BPS - FEE_BPS)
  IN  Fraction(m.tok * net, m.sol * BPS + net)

quoteSell(m, tokensIn) ==
  Fraction(m.sol * tokensIn * (BPS - FEE_BPS), (m.tok + tokensIn) * BPS)

(* A bug: the order carries no limit. *)
min_of_none(q) == 0

(* What is left of a quote after slippage, in base units. *)
min_of(q) == (KeepNum * q.num) \div (KeepDen * q.den)

isCurve(m) == m.status = "bootstrap"

(* The calls of tx.ts: what is sent, with the least that may come out.     *)
Sent(fn, amount, q, min) ==
  [fn |-> fn, amount |-> amount, quote |-> q, min |-> min, seen |-> page]
curveBuy(solIn, q)    == Sent(<<"curve", "buy">>, solIn, q, min_of(q))
curveSell(tokensIn, q) == Sent(<<"curve", "sell">>, tokensIn, q, min_of(q))
ammBuy(solIn, q)      == Sent(<<"amm", "buy">>, solIn, q, min_of(q))
ammSell(tokensIn, q)  == Sent(<<"amm", "sell">>, tokensIn, q, min_of(q))
openShort(col, draw)  == Sent(<<"short">>, col, Fraction(draw, 1), 0)

(* The button is disabled while an order is under way. *)
Click(o) ==
  /\ order = None /\ ~page.frozen /\ orders > 0
  /\ orders' = orders - 1 /\ last' = None /\ order' = o
  /\ UNCHANGED <<chain, page, held, position, tab, moves>>

ClickBuy == \E a \in SolIn :
  LET q == quoteBuy(page, a) IN Click(IF isCurve(page) THEN curveBuy(a, q) ELSE ammBuy(a, q))
ClickSell == \E t \in TokensIn :
  LET q == quoteSell(page, t) IN
  t <= held /\ Click(IF isCurve(page) THEN curveSell(t, q) ELSE ammSell(t, q))

whole_tokens(n) == (n \div TOKEN_BASE) * TOKEN_BASE

(* A bug: the hedge is drawn at the ratio at which it would be liquidated. *)
tokensMax_edge(col) ==
  whole_tokens((col * BASE_UNITS_PER_NFT * BPS) \div (page.index * MaintenanceCr))

(* Tokens drawn at 155%, in base units, whole tokens only. *)
tokensMax(col) ==
  whole_tokens((col * BASE_UNITS_PER_NFT * BPS) \div (page.index * DrawCr))

ClickHedge ==
  /\ page.status = "live" /\ position = NoPosition
  /\ \E c \in Collaterals : tokensMax(c) > 0 /\ Click(openShort(c, tokensMax(c)))

Poll ==
  /\ page' = chain
  /\ UNCHANGED <<chain, order, last, held, position, tab, moves, orders>>

(* A bug: the debt is shown as it was scaled when it was opened. *)
debtTokens_unscaled(p, funding) == p.debt_scaled

debtTokens(p, funding) == (p.debt_scaled * funding) \div FUNDING_ONE

(* fetchPosition: the position read from the chain, at the page's funding. *)
Refresh ==
  /\ position # NoPosition
  /\ tab' = [of |-> position, funding |-> page.funding,
             debt |-> debtTokens(position, page.funding)]
  /\ UNCHANGED <<chain, page, order, last, held, position, moves, orders>>

-----------------------------------------------------------------------------
(* The program *)

Bought(m, sol_in) ==
  cp_out(m.sol, m.tok, sol_in - mul_bps(sol_in, FEE_BPS))
SoldGross(m, tokens_in) == cp_out(m.tok, m.sol, tokens_in)
Sold(m, tokens_in) == SoldGross(m, tokens_in) - mul_bps(SoldGross(m, tokens_in), FEE_BPS)

AfterBuy(m, sol_in) ==
  LET net == sol_in - mul_bps(sol_in, FEE_BPS)
  IN  [m EXCEPT !.sol = @ + net, !.tok = @ - Bought(m, sol_in),
                !.raised = IF m.status = "bootstrap" THEN @ + net ELSE @]
AfterSell(m, tokens_in) ==
  [m EXCEPT !.sol = @ - SoldGross(m, tokens_in), !.tok = @ + tokens_in,
            !.raised = IF m.status = "bootstrap" THEN @ - SoldGross(m, tokens_in) ELSE @]

covered(p, ratio) ==
  p.collateral * BPS
    >= value_at_index(debt_from_scaled(p.debt_scaled, chain.funding), chain.index) * ratio

Opened(o) == [collateral |-> o.amount,
              debt_scaled |-> scaled_from_debt(o.quote.num, chain.funding)]

(* curve_buy, curve_sell, amm_buy, amm_sell and open_short of the program: *)
(* what the trader gets, or Rejected.                                      *)
Result(o) ==
  LET out == IF o.fn = <<"short">> THEN o.quote.num
             ELSE IF o.fn[2] = "buy" THEN Bought(chain, o.amount) ELSE Sold(chain, o.amount)
      allowed == IF o.fn = <<"short">>
                 THEN chain.status = "live" /\ chain.index > 0 /\ covered(Opened(o), InitialCr)
                 ELSE isCurve(chain) = (o.fn[1] = "curve") /\ out > 0 /\ out >= o.min
  IN  IF allowed /\ ~chain.frozen THEN out ELSE Rejected

Land ==
  /\ order # None
  /\ LET out == Result(order) IN
     /\ last' = [order |-> order, before |-> chain, out |-> out]
     /\ IF out = Rejected THEN UNCHANGED <<chain, held, position>>
        ELSE IF order.fn = <<"short">>
        THEN position' = Opened(order) /\ UNCHANGED <<chain, held>>
        ELSE IF order.fn[2] = "buy"
        THEN chain' = AfterBuy(chain, order.amount) /\ held' = held + out /\ UNCHANGED position
        ELSE chain' = AfterSell(chain, order.amount) /\ held' = held - order.amount
             /\ UNCHANGED position
  /\ order' = None
  /\ UNCHANGED <<page, tab, moves, orders>>

Moves(m) ==
  /\ moves > 0 /\ moves' = moves - 1
  /\ chain' = m
  /\ UNCHANGED <<page, order, last, held, position, tab, orders>>

(* Others trade; the curve becomes the AMM; the index, the funding index   *)
(* and the circuit breaker move.                                           *)
OtherBuys == ~chain.frozen /\ \E a \in SolIn : Moves(AfterBuy(chain, a))
OtherSells ==
  \E t \in TokensIn :
    /\ ~chain.frozen
    /\ chain.status = "bootstrap" => t <= VirtualTokens - chain.tok - held
    /\ Moves(AfterSell(chain, t))
Graduate ==
  /\ chain.status = "bootstrap" /\ ~chain.frozen /\ chain.raised >= Target
  /\ Moves([chain EXCEPT !.status = "live", !.sol = chain.raised,
                         !.tok = (chain.raised * chain.tok) \div chain.sol])
IndexMoves == \E i \in Indexes \ {chain.index} : Moves([chain EXCEPT !.index = i])
FundingMoves ==
  /\ chain.status = "live"
  /\ \E f \in Fundings \ {chain.funding} : Moves([chain EXCEPT !.funding = f])
Breaker == Moves([chain EXCEPT !.frozen = ~@])

-----------------------------------------------------------------------------
Next ==
  \/ ClickBuy \/ ClickSell \/ ClickHedge \/ Poll \/ Refresh \/ Land
  \/ OtherBuys \/ OtherSells \/ Graduate \/ IndexMoves \/ FundingMoves \/ Breaker

Spec == Init /\ [][Next]_vars

-----------------------------------------------------------------------------
(* Properties. *)

(* The margin between the ratio a hedge is drawn at and the one it needs   *)
(* covers, for a whole token, what rounding the scaled debt up may add.    *)
Roomy(funding) ==
  ((funding - 1) \div FUNDING_ONE) * InitialCr <= TOKEN_BASE * (DrawCr - InitialCr)

(* The page computes in real numbers and the program in integers, with     *)
(* fees and reserves rounded: an order that lands on the market it was     *)
(* quoted from is still never rejected, neither for its slippage limit nor *)
(* for the collateral ratio of a hedge. A trade must have been quoted at   *)
(* one unit or more, since the program refuses one that pays nothing.      *)
UntouchedFills ==
  /\ last # None /\ last.before = last.order.seen
  /\ IF last.order.fn = <<"short">> THEN Roomy(last.before.funding)
     ELSE last.order.quote.num >= last.order.quote.den
  => last.out # Rejected

(* Whatever others did before it landed, graduation included, a trade that *)
(* is filled gives at most 2% and one unit less than the panel showed.     *)
FilledAsShown ==
  last # None /\ last.out # Rejected
    => (last.out + 1) * KeepDen * last.order.quote.den > KeepNum * last.order.quote.num

(* A quote fills if the market did not move away from it, and what fills   *)
(* gives at most the slippage and one unit less than was shown.            *)
QuotesFill == UntouchedFills /\ FilledAsShown

(* While the index is at or below the liquidation index the tab computed   *)
(* from the debt it shows, and the funding index has not risen since, the  *)
(* program does not liquidate the position.                                *)
ShownLiquidationHolds ==
  /\ tab # None /\ tab.of = position /\ chain.funding <= tab.funding
  /\ chain.index * tab.debt * MaintenanceCr <= position.collateral * BASE_UNITS_PER_NFT * BPS
  => covered(position, MaintenanceCr)
=============================================================================
