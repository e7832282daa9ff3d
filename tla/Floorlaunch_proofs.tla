------------------------- MODULE Floorlaunch_proofs -------------------------
(***************************************************************************)
(* Theorems about one market, for every value of the constants.  IInv is   *)
(* the inductive invariant they rest on; each instruction has a lemma that *)
(* it preserves IInv.                                                      *)
(***************************************************************************)
EXTENDS Floorlaunch, FixedMath_proofs

\* Before the market is created nothing is owed, held, open or frozen.
Untouched ==
    status = "None" =>
        /\ ~frozen
        /\ curve_sol_raised = 0 /\ curve_tokens_sold = 0
        /\ amm_sol_reserve = 0 /\ amm_token_reserve = 0
        /\ insurance_lamports = 0 /\ fee_lamports = 0 /\ creator_fee_lamports = 0
        /\ total_collateral = 0 /\ vault = 0
        /\ pool_token = 0 /\ treasury = 0 /\ item_reserve = 0 /\ circulating = 0
        /\ \A o \in Owners : ~position[o].open

\* Lamports are conserved and the vault covers the books.
LamportBooks == vault + wallet = TotalLamports /\ VaultCovers

\* Tokens are a fixed supply and the pool covers the venue.
TokenBooks == Supply <= MAX_U64 /\ PoolCovers

\* The curve's reserves are its virtual seed plus what really flowed, and
\* their product never fell below the seed's.
CurveBooks ==
    status = "Bootstrap" =>
        /\ venue = "Internal"
        /\ curve_virtual_sol > 0 /\ curve_virtual_tokens > 0
        /\ curve_virtual_sol = params.curve_virtual_sol + curve_sol_raised
        /\ curve_virtual_tokens + curve_tokens_sold = params.curve_virtual_tokens
        /\ params.curve_virtual_sol * params.curve_virtual_tokens
             <= curve_virtual_sol * curve_virtual_tokens

\* An internal AMM is never empty, and the funding index is never zero.
LiveBooks ==
    /\ status = "Live" /\ venue = "Internal" => amm_sol_reserve > 0 /\ amm_token_reserve > 0
    /\ status # "None" => funding_index > 0

IInv == TypeOK /\ Untouched /\ LamportBooks /\ TokenBooks /\ CurveBooks /\ LiveBooks

-----------------------------------------------------------------------------
\* The variables and the inputs are numbers.
LEMMA StateNat ==
    ASSUME TypeOK
    PROVE  /\ curve_virtual_sol \in Nat /\ curve_virtual_tokens \in Nat
           /\ curve_sol_raised \in Nat /\ curve_tokens_sold \in Nat
           /\ amm_sol_reserve \in Nat /\ amm_token_reserve \in Nat
           /\ total_collateral \in Nat /\ total_debt_scaled \in Nat
           /\ insurance_lamports \in Nat
           /\ fee_lamports \in Nat /\ creator_fee_lamports \in Nat
           /\ vault \in Nat /\ wallet \in Nat
           /\ pool_token \in Nat /\ treasury \in Nat
           /\ item_reserve \in Nat /\ circulating \in Nat
           /\ index_twap \in Nat /\ mark_ema \in Nat /\ funding_index \in Nat
           /\ now \in Nat /\ index_last_ts \in Nat /\ mark_last_ts \in Nat
           /\ funding_last_ts \in Nat
  BY Range64 DEF TypeOK

\* So are the parameters.
LEMMA ParamNat ==
    ASSUME TypeOK
    PROVE  /\ params.curve_fee_bps \in Nat /\ params.amm_fee_bps \in Nat
           /\ params.insurance_share_bps \in Nat /\ params.liq_bonus_bps \in Nat
           /\ params.curve_virtual_sol \in Nat /\ params.curve_virtual_tokens \in Nat
           /\ params.units_per_item_micro \in Nat
           /\ params.index_window_secs \in Nat /\ params.mark_window_secs \in Nat
           /\ params.max_funding_bps_per_day \in Nat /\ params.funding_k_bps \in Nat
  BY Range64 DEF TypeOK, MarketParams

\* So are the fields of a position, and its lamports fit in a u64.
LEMMA PositionNat ==
    ASSUME TypeOK, NEW o \in Owners
    PROVE  /\ position[o].open \in BOOLEAN /\ position[o].collateral \in Nat
           /\ position[o].debt_scaled \in Nat /\ position[o].entry_notional \in Nat
           /\ position[o].collateral <= MAX_U64 /\ position[o].entry_notional <= MAX_U64
  BY Range64 DEF TypeOK

\* So are the inputs of the callers.
LEMMA InputNat ==
    /\ \A n \in SolAmounts : n \in Nat
    /\ \A n \in TokenAmounts : n \in Nat
    /\ \A n \in TransferAmounts : n \in Nat
    /\ \A n \in LamportAmounts : n \in Nat
    /\ \A n \in IndexPrices : n \in Nat
    /\ \A n \in MarkPrices : n \in Nat
  BY InputAssumption, Range64

\* So are the fixed amounts of a market.
LEMMA MarketNat ==
    /\ TotalLamports \in Nat /\ TotalLamports <= MAX_U64
    /\ RentBuffer \in Nat /\ RentBuffer <= TotalLamports
    /\ ExternalSupply \in Nat /\ ExternalSupply <= MAX_U64
  BY MarketAssumption, Range64

\* What the helpers do, whatever instruction calls them.
LEMMA MarkType ==
    ASSUME TypeOK, NEW spot \in U64Range, update_mark(spot)
    PROVE  mark_ema' \in U64Range /\ mark_last_ts' \in Nat
<1>1. CASE spot # 0 /\ now > mark_last_ts
  <2>1. now - mark_last_ts \in Int /\ params.mark_window_secs \in Nat
    BY StateNat, ParamNat
  <2> QED
    BY <1>1, <2>1, EmaType DEF update_mark, TypeOK
<1>2. CASE ~(spot # 0 /\ now > mark_last_ts)
  BY <1>2, StateNat DEF update_mark, TypeOK, markVars
<1> QED
  BY <1>1, <1>2

\* The two shares of a fee add up to the fee.
LEMMA FeeSplit ==
    ASSUME NEW fee \in Nat, split_fee(fee)
    PROVE  \E cut \in Nat :
             /\ cut <= fee
             /\ creator_fee_lamports' = creator_fee_lamports + cut
             /\ fee_lamports' = fee_lamports + (fee - cut)
<1> DEFINE c == mul_bps(fee, CREATOR_FEE_SHARE_BPS)
<1>1. c \in Nat /\ c <= fee
  BY ShareBound, ScaleAssumption
<1>2. /\ creator_fee_lamports' = creator_fee_lamports + c
      /\ fee_lamports' = fee_lamports + (fee - c)
  BY DEF split_fee
<1> QED
  BY <1>1, <1>2

\* What the books owe is a number.
LEMMA ClaimsNat ==
    ASSUME TypeOK
    PROVE  Claims \in Nat /\ venue_sol \in Nat
  BY StateNat DEF Claims, venue_sol

\* What the invariant says of lamports and of tokens once the market exists.
LEMMA LamportFacts ==
    ASSUME IInv, status # "None"
    PROVE  /\ TypeOK
           /\ vault + wallet = TotalLamports /\ vault >= RentBuffer + Claims
           /\ Claims = venue_sol + insurance_lamports + fee_lamports
                         + creator_fee_lamports + total_collateral
  BY DEF IInv, LamportBooks, VaultCovers, Claims

\* What the invariant says of the token accounts.
LEMMA TokenFacts ==
    ASSUME IInv
    PROVE  pool_token + treasury + item_reserve + circulating <= MAX_U64
  BY DEF IInv, TokenBooks, Supply

\* An instruction that moves no token and no reserve keeps the other books.
LEMMA BooksFrame ==
    ASSUME IInv, status # "None", funding_index' = funding_index,
           UNCHANGED <<configVars, curveVars, ammVars, tokenVars>>
    PROVE  CurveBooks' /\ Untouched' /\ LiveBooks' /\ TokenBooks'
  BY DEF CurveBooks, Untouched, LiveBooks, TokenBooks, PoolCovers, Supply, venue_tokens, IInv,
         configVars, curveVars, ammVars, tokenVars

-----------------------------------------------------------------------------
\* A buy on the curve.
LEMMA CurveBuy ==
    ASSUME IInv, NEW sol_in \in SolAmounts, curve_buy(sol_in)
    PROVE  IInv'
<1> DEFINE fee == mul_bps(sol_in, params.curve_fee_bps)
           net_in == sol_in - fee
           out == cp_out(curve_virtual_sol, curve_virtual_tokens, net_in)
<1>1. /\ status = "Bootstrap" /\ fee <= sol_in /\ Fits(curve_virtual_sol + net_in)
      /\ curve_virtual_sol' = curve_virtual_sol + net_in
      /\ curve_virtual_tokens' = curve_virtual_tokens - out
      /\ update_mark(curve_spot(curve_virtual_sol', curve_virtual_tokens'))
      /\ curve_sol_raised' = curve_sol_raised + net_in
      /\ curve_tokens_sold' = curve_tokens_sold + out
      /\ split_fee(fee) /\ transfer_in(sol_in) /\ pool_pays(out)
      /\ UNCHANGED <<tradeFrame, ammVars, insurance_lamports>>
  BY DEF curve_buy
<1>2. TypeOK
  BY DEF IInv
<1>3. sol_in \in Nat /\ fee \in Nat
  <2>1. sol_in \in Nat /\ params.curve_fee_bps \in Nat
    BY <1>2, ParamNat, InputNat
  <2> QED
    BY <2>1, FeeType
<1> HIDE DEF fee
<1>4. net_in \in Nat /\ net_in = sol_in - fee
  BY <1>1, <1>3
<1> HIDE DEF net_in
<1>5. /\ curve_virtual_sol \in Nat /\ curve_virtual_tokens \in Nat
      /\ curve_virtual_sol > 0 /\ curve_virtual_tokens > 0
  BY <1>1, <1>2, StateNat DEF IInv, CurveBooks
<1>6. curve_virtual_sol + net_in > 0
  BY <1>4, <1>5
<1>7. out \in Nat /\ out < curve_virtual_tokens
  BY <1>4, <1>5, <1>6, SwapBound, Zenon
<1>8. curve_virtual_sol * curve_virtual_tokens
        <= (curve_virtual_sol + net_in) * (curve_virtual_tokens - out)
  BY <1>4, <1>5, <1>6, SwapBound, Zenon
<1> HIDE DEF out
<1>9. mark_ema' \in U64Range /\ mark_last_ts' \in Nat
  <2>1. curve_virtual_sol' \in Nat /\ curve_virtual_tokens' \in Nat
    BY <1>1, <1>4, <1>5, <1>7
  <2> QED
    BY <1>1, <1>2, <2>1, SpotType, MarkType DEF curve_spot
<1>10. CurveBooks'
  BY <1>1, <1>2, <1>4, <1>7, <1>8, StateNat, ParamNat
  DEF CurveBooks, IInv, tradeFrame, configVars
<1>11. PICK cut \in Nat :
        /\ cut <= fee
        /\ creator_fee_lamports' = creator_fee_lamports + cut
        /\ fee_lamports' = fee_lamports + (fee - cut)
  BY <1>1, <1>3, FeeSplit
<1>12. Claims' = Claims + sol_in
  BY <1>1, <1>2, <1>3, <1>4, <1>11, StateNat
  DEF Claims, venue_sol, tradeFrame, configVars, shortVars
<1>13. /\ vault' = vault + sol_in /\ wallet' = wallet - sol_in /\ sol_in <= wallet
       /\ vault + wallet = TotalLamports /\ vault >= RentBuffer + Claims
  BY <1>1 DEF transfer_in, LamportBooks, VaultCovers, IInv
<1>14. LamportBooks'
  BY <1>2, <1>3, <1>12, <1>13, StateNat, ClaimsNat, MarketNat DEF LamportBooks, VaultCovers
<1>15. TokenBooks'
  BY <1>1, <1>2, <1>7, StateNat
  DEF TokenBooks, IInv, CurveBooks, PoolCovers, Supply, venue_tokens, pool_pays,
      tradeFrame, configVars
<1>16. Untouched' /\ LiveBooks'
  BY <1>1 DEF Untouched, LiveBooks, IInv, tradeFrame, configVars, fundingVars
<1>17. TypeOK'
  <2>1. Claims = curve_sol_raised + insurance_lamports + fee_lamports
                   + creator_fee_lamports + total_collateral
    BY <1>1 DEF Claims, venue_sol
  <2>2. /\ vault + sol_in \in U64Range /\ wallet - sol_in \in U64Range
        /\ curve_sol_raised + net_in \in U64Range
        /\ fee_lamports + (fee - cut) \in U64Range
        /\ creator_fee_lamports + cut \in U64Range
    BY <1>1, <1>2, <1>3, <1>4, <1>11, <1>13, <2>1, StateNat, MarketNat, Range64
  <2>3. /\ curve_virtual_sol + net_in \in U64Range
        /\ curve_virtual_tokens - out \in U64Range /\ curve_tokens_sold + out \in U64Range
    <3>1. curve_virtual_tokens + curve_tokens_sold <= MAX_U64
      BY <1>1, <1>2, Range64 DEF CurveBooks, IInv, TypeOK, MarketParams
    <3> QED
      BY <1>1, <1>2, <1>4, <1>7, <3>1, StateNat, Range64 DEF Fits
  <2>4. pool_token - out \in U64Range /\ circulating + out \in U64Range
    <3>1. pool_token + circulating <= MAX_U64 /\ out <= pool_token
      BY <1>1, <1>2, StateNat, Range64 DEF TokenBooks, Supply, IInv, pool_pays
    <3> QED
      BY <1>2, <1>7, <3>1, StateNat, Range64
  <2> QED
    BY <1>1, <1>2, <1>9, <1>11, <1>13, <2>2, <2>3, <2>4
    DEF TypeOK, pool_pays, tradeFrame, configVars, indexVars, ammVars, fundingVars, shortVars,
        itemVars
<1> QED
  BY <1>10, <1>14, <1>15, <1>16, <1>17 DEF IInv

\* A sale back to the curve.
LEMMA CurveSell ==
    ASSUME IInv, NEW tokens_in \in TokenAmounts, curve_sell(tokens_in)
    PROVE  IInv'
<1> DEFINE gross == cp_out(curve_virtual_tokens, curve_virtual_sol, tokens_in)
           fee == mul_bps(gross, params.curve_fee_bps)
<1>1. /\ status = "Bootstrap" /\ tokens_in <= curve_tokens_sold
      /\ gross <= curve_sol_raised /\ fee <= gross
      /\ curve_virtual_tokens' = curve_virtual_tokens + tokens_in
      /\ update_mark(curve_spot(curve_virtual_sol, curve_virtual_tokens'))
      /\ curve_virtual_sol' = curve_virtual_sol - gross
      /\ curve_sol_raised' = curve_sol_raised - gross
      /\ curve_tokens_sold' = curve_tokens_sold - tokens_in
      /\ split_fee(fee) /\ pool_takes(tokens_in) /\ transfer_out(gross - fee)
      /\ UNCHANGED <<tradeFrame, ammVars, insurance_lamports>>
  BY DEF curve_sell
<1>2. TypeOK
  BY DEF IInv
<1>3. tokens_in \in Nat /\ params.curve_fee_bps \in Nat
  BY <1>2, ParamNat, InputNat
<1>4. /\ curve_virtual_sol \in Nat /\ curve_virtual_tokens \in Nat
      /\ curve_virtual_sol > 0 /\ curve_virtual_tokens > 0
  BY <1>1, <1>2, StateNat DEF IInv, CurveBooks
<1>5. curve_virtual_tokens + tokens_in > 0
  BY <1>3, <1>4
<1>6. gross \in Nat /\ gross < curve_virtual_sol
  BY <1>3, <1>4, <1>5, SwapBound, Zenon
<1>7. curve_virtual_tokens * curve_virtual_sol
        <= (curve_virtual_tokens + tokens_in) * (curve_virtual_sol - gross)
  BY <1>3, <1>4, <1>5, SwapBound, Zenon
<1> HIDE DEF gross
<1>8. fee \in Nat
  BY <1>3, <1>6, FeeType
<1> HIDE DEF fee
<1>9. mark_ema' \in U64Range /\ mark_last_ts' \in Nat
  <2>1. curve_virtual_tokens' \in Nat
    BY <1>1, <1>3, <1>4
  <2> QED
    BY <1>1, <1>2, <1>4, <2>1, SpotType, MarkType DEF curve_spot
<1>10. CurveBooks'
  BY <1>1, <1>2, <1>3, <1>6, <1>7, StateNat, ParamNat
  DEF CurveBooks, IInv, tradeFrame, configVars
<1>11. PICK cut \in Nat :
        /\ cut <= fee
        /\ creator_fee_lamports' = creator_fee_lamports + cut
        /\ fee_lamports' = fee_lamports + (fee - cut)
  BY <1>1, <1>8, FeeSplit
<1>12. /\ vault' = vault - (gross - fee) /\ wallet' = wallet + (gross - fee)
       /\ vault + wallet = TotalLamports /\ vault >= RentBuffer + Claims
       /\ Claims = curve_sol_raised + insurance_lamports + fee_lamports
                     + creator_fee_lamports + total_collateral
  BY <1>1, LamportFacts DEF transfer_out, venue_sol
<1>13. Claims' = Claims - (gross - fee)
  BY <1>1, <1>2, <1>6, <1>8, <1>11, <1>12, StateNat
  DEF Claims, venue_sol, tradeFrame, configVars, shortVars
<1>14. LamportBooks'
  BY <1>1, <1>2, <1>6, <1>8, <1>12, <1>13, StateNat, ClaimsNat, MarketNat
  DEF LamportBooks, VaultCovers
<1>15. TokenBooks'
  BY <1>1, <1>2, <1>3, StateNat
  DEF TokenBooks, IInv, CurveBooks, PoolCovers, Supply, venue_tokens, pool_takes,
      tradeFrame, configVars
<1>16. Untouched' /\ LiveBooks'
  BY <1>1 DEF Untouched, LiveBooks, IInv, tradeFrame, configVars, fundingVars
<1>17. TypeOK'
  <2>1. /\ vault - (gross - fee) \in U64Range /\ wallet + (gross - fee) \in U64Range
        /\ curve_sol_raised - gross \in U64Range
        /\ fee_lamports + (fee - cut) \in U64Range
        /\ creator_fee_lamports + cut \in U64Range
    BY <1>1, <1>2, <1>6, <1>8, <1>11, <1>12, StateNat, MarketNat, Range64
  <2>2. pool_token >= curve_virtual_tokens
    BY <1>1, <1>2, StateNat DEF IInv, CurveBooks, TokenBooks, PoolCovers, venue_tokens
  <2>3. tokens_in <= circulating
    BY <1>1 DEF pool_takes
  <2>4. /\ curve_virtual_sol - gross \in U64Range
        /\ curve_virtual_tokens + tokens_in \in U64Range
        /\ curve_tokens_sold - tokens_in \in U64Range
        /\ pool_token + tokens_in \in U64Range /\ circulating - tokens_in \in U64Range
    BY <1>1, <1>2, <1>3, <1>4, <1>6, <2>2, <2>3, StateNat, TokenFacts, Range64 DEF TypeOK
  <2> QED
    BY <1>1, <1>2, <1>9, <1>11, <1>12, <2>1, <2>4
    DEF TypeOK, pool_takes, tradeFrame, configVars, indexVars, ammVars, fundingVars, shortVars,
        itemVars
<1> QED
  BY <1>10, <1>14, <1>15, <1>16, <1>17 DEF IInv

\* Graduation.
LEMMA Graduate ==
    ASSUME IInv, graduate
    PROVE  IInv'
<1> DEFINE insurance == mul_bps(curve_sol_raised, params.insurance_share_bps)
           sol == curve_sol_raised - insurance
           tokens == seed_tokens(sol)
<1>1. /\ status = "Bootstrap" /\ insurance <= curve_sol_raised /\ tokens > 0
      /\ insurance_lamports' = insurance
      /\ amm_sol_reserve' = sol /\ amm_token_reserve' = tokens
      /\ status' = "Live"
      /\ mark_ema' = IF mark_ema = 0 THEN spot_per_nft(sol, tokens) ELSE mark_ema
      /\ mark_last_ts' = now /\ funding_last_ts' = now
      /\ pool_token' = pool_token - unsold_excess(tokens)
      /\ UNCHANGED <<venue, params, frozen, indexVars, curveVars, funding_index, shortVars,
                     feeVars, itemVars, lamportVars, treasury, item_reserve, circulating, now>>
  BY DEF graduate
<1>2. TypeOK
  BY DEF IInv
<1>3. insurance \in Nat
  <2>1. curve_sol_raised \in Nat /\ params.insurance_share_bps \in Nat
    BY <1>2, StateNat, ParamNat
  <2> QED
    BY <2>1, FeeType
<1> HIDE DEF insurance
<1>4. sol \in Nat /\ insurance + sol = curve_sol_raised
  BY <1>1, <1>2, <1>3, StateNat
<1> HIDE DEF sol
<1>5. /\ curve_virtual_sol \in Nat \ {0} /\ curve_virtual_tokens \in Nat
      /\ curve_sol_raised <= curve_virtual_sol /\ venue = "Internal"
  BY <1>1, <1>2, StateNat, ParamNat DEF IInv, CurveBooks
<1>6. tokens \in Nat /\ tokens <= curve_virtual_tokens /\ sol > 0
  <2> DEFINE q == (sol * curve_virtual_tokens) \div curve_virtual_sol
  <2>1. sol * curve_virtual_tokens \in Nat
    BY <1>4, <1>5
  <2>2. q \in Nat /\ curve_virtual_sol * q <= sol * curve_virtual_tokens
    BY <1>5, <2>1, DivBound
  <2>3. sol * curve_virtual_tokens <= curve_virtual_sol * curve_virtual_tokens
    BY <1>2, <1>3, <1>4, <1>5, StateNat
  <2> HIDE DEF q
  <2>4. q <= curve_virtual_tokens
    <3>1. SUFFICES ASSUME q >= curve_virtual_tokens + 1 PROVE FALSE
      BY <1>5, <2>2
    <3>2. curve_virtual_sol * q >= curve_virtual_sol * curve_virtual_tokens + curve_virtual_sol
      BY <1>5, <2>2, <3>1
    <3> QED
      BY <1>5, <2>1, <2>2, <2>3, <3>2
  <2>5. sol = 0 => q = 0
    <3>1. SUFFICES ASSUME sol = 0, q > 0 PROVE FALSE
      BY <2>2
    <3>2. curve_virtual_sol * q <= 0
      BY <1>5, <2>2, <3>1
    <3> QED
      BY <1>5, <2>2, <3>1, <3>2
  <2>6. tokens = U64(q)
    BY DEF seed_tokens, q
  <2>7. U64(q) \in Nat /\ U64(q) <= q
    BY <2>2, U64Type, U64Bound
  <2> QED
    BY <1>1, <1>4, <1>5, <2>2, <2>4, <2>5, <2>6, <2>7
<1> HIDE DEF tokens
<1>7. CurveBooks' /\ Untouched'
  BY <1>1 DEF CurveBooks, Untouched
<1>8. LiveBooks'
  BY <1>1, <1>6 DEF LiveBooks, IInv
<1>9. /\ vault' = vault /\ wallet' = wallet
      /\ vault + wallet = TotalLamports /\ vault >= RentBuffer + Claims
      /\ Claims = curve_sol_raised + insurance_lamports + fee_lamports
                    + creator_fee_lamports + total_collateral
  BY <1>1, LamportFacts DEF venue_sol, lamportVars
<1>10. Claims' = Claims - insurance_lamports
  BY <1>1, <1>2, <1>3, <1>4, <1>9, StateNat DEF Claims, venue_sol, feeVars, shortVars
<1>11. LamportBooks'
  BY <1>1, <1>2, <1>9, <1>10, StateNat, ClaimsNat, MarketNat DEF LamportBooks, VaultCovers
<1>12. /\ pool_token >= curve_virtual_tokens
       /\ pool_token' = pool_token - unsold_excess(tokens)
       /\ pool_token - unsold_excess(tokens) = tokens
  BY <1>1, <1>2, <1>5, <1>6, StateNat
  DEF IInv, TokenBooks, PoolCovers, venue_tokens, unsold_excess, Max2
<1>13. TokenBooks'
  <2>1. pool_token' = tokens /\ tokens <= pool_token
    BY <1>2, <1>5, <1>6, <1>12, StateNat
  <2> QED
    BY <1>1, <1>2, <1>6, <2>1, StateNat, TokenFacts, Range64
    DEF TokenBooks, PoolCovers, Supply, venue_tokens
<1>14. TypeOK'
  <2>1. insurance \in U64Range /\ sol \in U64Range
    BY <1>2, <1>3, <1>4, Range64 DEF TypeOK
  <2>2. tokens \in U64Range
    BY <1>2, <1>6, Range64 DEF TypeOK
  <2>3. mark_ema' \in U64Range
    BY <1>1, <1>2, <1>4, <1>6, SpotType DEF TypeOK
  <2> QED
    BY <1>1, <1>2, <1>12, <2>1, <2>2, <2>3
    DEF TypeOK, indexVars, curveVars, shortVars, feeVars, itemVars, lamportVars
<1> QED
  BY <1>7, <1>8, <1>11, <1>13, <1>14 DEF IInv

\* A buy on the AMM.
LEMMA AmmBuy ==
    ASSUME IInv, NEW sol_in \in SolAmounts, amm_buy(sol_in)
    PROVE  IInv'
<1> DEFINE fee == mul_bps(sol_in, params.amm_fee_bps)
           net_in == sol_in - fee
           out == cp_out(amm_sol_reserve, amm_token_reserve, net_in)
<1>1. /\ venue = "Internal" /\ status = "Live" /\ fee <= sol_in /\ out < amm_token_reserve
      /\ amm_sol_reserve' = amm_sol_reserve + net_in
      /\ amm_token_reserve' = amm_token_reserve - out
      /\ split_fee(fee)
      /\ update_mark(spot_per_nft(amm_sol_reserve', amm_token_reserve'))
      /\ transfer_in(sol_in) /\ pool_pays(out)
      /\ UNCHANGED <<tradeFrame, curveVars, insurance_lamports>>
  BY DEF amm_buy
<1>2. TypeOK
  BY DEF IInv
<1>3. sol_in \in Nat /\ fee \in Nat
  <2>1. sol_in \in Nat /\ params.amm_fee_bps \in Nat
    BY <1>2, ParamNat, InputNat
  <2> QED
    BY <2>1, FeeType
<1> HIDE DEF fee
<1>4. net_in \in Nat /\ net_in = sol_in - fee
  BY <1>1, <1>3
<1> HIDE DEF net_in
<1>5. /\ amm_sol_reserve \in Nat /\ amm_token_reserve \in Nat
      /\ amm_sol_reserve > 0 /\ amm_token_reserve > 0
  BY <1>1, <1>2, StateNat DEF IInv, LiveBooks
<1>6. amm_sol_reserve + net_in > 0
  BY <1>4, <1>5
<1>7. out \in Nat
  BY <1>4, <1>5, <1>6, SwapBound, Zenon
<1> HIDE DEF out
<1>8. mark_ema' \in U64Range /\ mark_last_ts' \in Nat
  <2>1. amm_sol_reserve' \in Nat /\ amm_token_reserve' \in Nat
    BY <1>1, <1>4, <1>5, <1>7
  <2> QED
    BY <1>1, <1>2, <2>1, SpotType, MarkType
<1>9. CurveBooks' /\ Untouched' /\ LiveBooks'
  BY <1>1, <1>4, <1>5, <1>7, <1>2
  DEF CurveBooks, Untouched, LiveBooks, IInv, tradeFrame, configVars, fundingVars
<1>10. PICK cut \in Nat :
        /\ cut <= fee
        /\ creator_fee_lamports' = creator_fee_lamports + cut
        /\ fee_lamports' = fee_lamports + (fee - cut)
  BY <1>1, <1>3, FeeSplit
<1>11. /\ vault' = vault + sol_in /\ wallet' = wallet - sol_in /\ sol_in <= wallet
       /\ vault + wallet = TotalLamports /\ vault >= RentBuffer + Claims
       /\ Claims = amm_sol_reserve + insurance_lamports + fee_lamports
                     + creator_fee_lamports + total_collateral
  BY <1>1, LamportFacts DEF transfer_in, venue_sol
<1>12. Claims' = Claims + sol_in
  BY <1>1, <1>2, <1>3, <1>4, <1>10, <1>11, StateNat
  DEF Claims, venue_sol, tradeFrame, configVars, shortVars
<1>13. LamportBooks'
  BY <1>2, <1>3, <1>11, <1>12, StateNat, ClaimsNat, MarketNat DEF LamportBooks, VaultCovers
<1>14. TokenBooks'
  BY <1>1, <1>2, <1>7, StateNat
  DEF TokenBooks, IInv, PoolCovers, Supply, venue_tokens, pool_pays, tradeFrame, configVars
<1>15. TypeOK'
  <2>1. /\ vault + sol_in \in U64Range /\ wallet - sol_in \in U64Range
        /\ amm_sol_reserve + net_in \in U64Range
        /\ fee_lamports + (fee - cut) \in U64Range
        /\ creator_fee_lamports + cut \in U64Range
    BY <1>1, <1>2, <1>3, <1>4, <1>10, <1>11, StateNat, MarketNat, Range64
  <2>2. amm_token_reserve \in 0..MAX_U64 /\ out <= pool_token
    BY <1>1, <1>2, <1>7, Range64 DEF TypeOK, pool_pays
  <2>3. /\ amm_token_reserve - out \in U64Range
        /\ pool_token - out \in U64Range /\ circulating + out \in U64Range
    BY <1>1, <1>2, <1>7, <2>2, StateNat, TokenFacts, Range64
  <2> QED
    BY <1>1, <1>2, <1>8, <1>10, <1>11, <2>1, <2>3
    DEF TypeOK, pool_pays, tradeFrame, configVars, indexVars, curveVars, fundingVars, shortVars,
        itemVars
<1> QED
  BY <1>9, <1>13, <1>14, <1>15 DEF IInv

\* A sale to the AMM.
LEMMA AmmSell ==
    ASSUME IInv, NEW tokens_in \in TokenAmounts, amm_sell(tokens_in)
    PROVE  IInv'
<1> DEFINE gross == cp_out(amm_token_reserve, amm_sol_reserve, tokens_in)
           fee == mul_bps(gross, params.amm_fee_bps)
<1>1. /\ venue = "Internal" /\ status = "Live" /\ gross < amm_sol_reserve /\ fee <= gross
      /\ amm_token_reserve' = amm_token_reserve + tokens_in
      /\ amm_sol_reserve' = amm_sol_reserve - gross
      /\ split_fee(fee)
      /\ update_mark(spot_per_nft(amm_sol_reserve', amm_token_reserve'))
      /\ pool_takes(tokens_in) /\ transfer_out(gross - fee)
      /\ UNCHANGED <<tradeFrame, curveVars, insurance_lamports>>
  BY DEF amm_sell
<1>2. TypeOK
  BY DEF IInv
<1>3. tokens_in \in Nat /\ params.amm_fee_bps \in Nat
  BY <1>2, ParamNat, InputNat
<1>4. /\ amm_sol_reserve \in Nat /\ amm_token_reserve \in Nat
      /\ amm_sol_reserve > 0 /\ amm_token_reserve > 0
  BY <1>1, <1>2, StateNat DEF IInv, LiveBooks
<1>5. amm_token_reserve + tokens_in > 0
  BY <1>3, <1>4
<1>6. gross \in Nat
  BY <1>3, <1>4, <1>5, SwapBound, Zenon
<1> HIDE DEF gross
<1>7. fee \in Nat
  BY <1>3, <1>6, FeeType
<1> HIDE DEF fee
<1>8. mark_ema' \in U64Range /\ mark_last_ts' \in Nat
  <2>1. amm_sol_reserve' \in Nat /\ amm_token_reserve' \in Nat
    BY <1>1, <1>3, <1>4, <1>6
  <2> QED
    BY <1>1, <1>2, <2>1, SpotType, MarkType
<1>9. CurveBooks' /\ Untouched' /\ LiveBooks'
  BY <1>1, <1>2, <1>3, <1>4, <1>6
  DEF CurveBooks, Untouched, LiveBooks, IInv, tradeFrame, configVars, fundingVars
<1>10. PICK cut \in Nat :
        /\ cut <= fee
        /\ creator_fee_lamports' = creator_fee_lamports + cut
        /\ fee_lamports' = fee_lamports + (fee - cut)
  BY <1>1, <1>7, FeeSplit
<1>11. /\ vault' = vault - (gross - fee) /\ wallet' = wallet + (gross - fee)
       /\ vault + wallet = TotalLamports /\ vault >= RentBuffer + Claims
       /\ Claims = amm_sol_reserve + insurance_lamports + fee_lamports
                     + creator_fee_lamports + total_collateral
  BY <1>1, LamportFacts DEF transfer_out, venue_sol
<1>12. Claims' = Claims - (gross - fee)
  BY <1>1, <1>2, <1>6, <1>7, <1>10, <1>11, StateNat
  DEF Claims, venue_sol, tradeFrame, configVars, shortVars
<1>13. LamportBooks'
  BY <1>1, <1>2, <1>6, <1>7, <1>11, <1>12, StateNat, ClaimsNat, MarketNat
  DEF LamportBooks, VaultCovers
<1>14. TokenBooks'
  BY <1>1, <1>2, <1>3, StateNat
  DEF TokenBooks, IInv, PoolCovers, Supply, venue_tokens, pool_takes, tradeFrame, configVars
<1>15. TypeOK'
  <2>1. /\ vault - (gross - fee) \in U64Range /\ wallet + (gross - fee) \in U64Range
        /\ amm_sol_reserve - gross \in U64Range
        /\ fee_lamports + (fee - cut) \in U64Range
        /\ creator_fee_lamports + cut \in U64Range
    BY <1>1, <1>2, <1>6, <1>7, <1>10, <1>11, StateNat, MarketNat, Range64
  <2>2. pool_token >= amm_token_reserve /\ tokens_in <= circulating
    BY <1>1 DEF IInv, TokenBooks, PoolCovers, venue_tokens, pool_takes
  <2>3. /\ amm_token_reserve + tokens_in \in U64Range
        /\ pool_token + tokens_in \in U64Range /\ circulating - tokens_in \in U64Range
    BY <1>2, <1>3, <1>4, <2>2, StateNat, TokenFacts, Range64
  <2> QED
    BY <1>1, <1>2, <1>8, <1>10, <1>11, <2>1, <2>3
    DEF TypeOK, pool_takes, tradeFrame, configVars, indexVars, curveVars, fundingVars, shortVars,
        itemVars
<1> QED
  BY <1>9, <1>13, <1>14, <1>15 DEF IInv

\* Money into the insurance fund.
LEMMA FundInsurance ==
    ASSUME IInv, NEW amount \in LamportAmounts, fund_insurance(amount)
    PROVE  IInv'
<1>1. /\ status # "None"
      /\ insurance_lamports' = insurance_lamports + amount /\ transfer_in(amount)
      /\ UNCHANGED <<tradeFrame, curveVars, ammVars, markVars, feeVars, pool_token, circulating>>
  BY DEF fund_insurance
<1>2. TypeOK /\ amount \in Nat
  BY InputNat DEF IInv
<1>3. CurveBooks' /\ Untouched' /\ LiveBooks' /\ TokenBooks'
  BY <1>1, BooksFrame DEF tradeFrame, fundingVars, tokenVars
<1>4. /\ vault' = vault + amount /\ wallet' = wallet - amount /\ amount <= wallet
      /\ vault + wallet = TotalLamports /\ vault >= RentBuffer + Claims
      /\ Claims = venue_sol + insurance_lamports + fee_lamports
                    + creator_fee_lamports + total_collateral
  BY <1>1, LamportFacts DEF transfer_in
<1>5. Claims' = Claims + amount
  BY <1>1, <1>2, StateNat
  DEF Claims, venue_sol, tradeFrame, configVars, shortVars, feeVars, curveVars, ammVars
<1>6. LamportBooks'
  BY <1>2, <1>4, <1>5, StateNat, ClaimsNat, MarketNat DEF LamportBooks, VaultCovers
<1>7. TypeOK'
  <2>1. /\ vault + amount \in U64Range /\ wallet - amount \in U64Range
        /\ insurance_lamports + amount \in U64Range
    BY <1>2, <1>4, StateNat, ClaimsNat, MarketNat, Range64
  <2> QED
    BY <1>1, <1>2, <1>4, <2>1
    DEF TypeOK, tradeFrame, configVars, indexVars, curveVars, ammVars, markVars, fundingVars,
        shortVars, feeVars, itemVars
<1> QED
  BY <1>3, <1>6, <1>7 DEF IInv

\* The protocol's fees, and the creator's.
LEMMA WithdrawFees ==
    ASSUME IInv, NEW amount \in LamportAmounts, withdraw_fees(amount)
    PROVE  IInv'
<1>1. /\ status # "None" /\ amount <= fee_lamports
      /\ fee_lamports' = fee_lamports - amount /\ transfer_out(amount)
      /\ UNCHANGED <<tradeFrame, curveVars, ammVars, markVars, insurance_lamports,
                     creator_fee_lamports, pool_token, circulating>>
  BY DEF withdraw_fees
<1>2. TypeOK /\ amount \in Nat
  BY InputNat DEF IInv
<1>3. CurveBooks' /\ Untouched' /\ LiveBooks' /\ TokenBooks'
  BY <1>1, BooksFrame DEF tradeFrame, fundingVars, tokenVars
<1>4. /\ vault' = vault - amount /\ wallet' = wallet + amount /\ amount <= vault
      /\ vault + wallet = TotalLamports /\ vault >= RentBuffer + Claims
  BY <1>1, LamportFacts DEF transfer_out
<1>5. Claims' = Claims - amount
  BY <1>1, <1>2, StateNat
  DEF Claims, venue_sol, tradeFrame, configVars, shortVars, curveVars, ammVars
<1>6. LamportBooks'
  BY <1>2, <1>4, <1>5, StateNat, ClaimsNat, MarketNat DEF LamportBooks, VaultCovers
<1>7. TypeOK'
  <2>1. /\ vault - amount \in U64Range /\ wallet + amount \in U64Range
        /\ fee_lamports - amount \in U64Range
    <3>1. fee_lamports <= MAX_U64
      BY <1>2, Range64 DEF TypeOK
    <3> QED
      BY <1>1, <1>2, <1>4, <3>1, StateNat, MarketNat, Range64
  <2> QED
    BY <1>1, <1>2, <1>4, <2>1
    DEF TypeOK, tradeFrame, configVars, indexVars, curveVars, ammVars, markVars, fundingVars,
        shortVars, itemVars
<1> QED
  BY <1>3, <1>6, <1>7 DEF IInv

\* The creator's share paid out.
LEMMA WithdrawCreatorFees ==
    ASSUME IInv, withdraw_creator_fees
    PROVE  IInv'
<1>1. /\ status # "None"
      /\ creator_fee_lamports' = 0 /\ transfer_out(creator_fee_lamports)
      /\ UNCHANGED <<tradeFrame, curveVars, ammVars, markVars, insurance_lamports,
                     fee_lamports, pool_token, circulating>>
  BY DEF withdraw_creator_fees
<1>2. TypeOK
  BY DEF IInv
<1>3. CurveBooks' /\ Untouched' /\ LiveBooks' /\ TokenBooks'
  BY <1>1, BooksFrame DEF tradeFrame, fundingVars, tokenVars
<1>4. /\ vault' = vault - creator_fee_lamports /\ wallet' = wallet + creator_fee_lamports
      /\ creator_fee_lamports <= vault
      /\ vault + wallet = TotalLamports /\ vault >= RentBuffer + Claims
  BY <1>1, LamportFacts DEF transfer_out
<1>5. Claims' = Claims - creator_fee_lamports
  BY <1>1, <1>2, StateNat
  DEF Claims, venue_sol, tradeFrame, configVars, shortVars, curveVars, ammVars
<1>6. LamportBooks'
  BY <1>2, <1>4, <1>5, StateNat, ClaimsNat, MarketNat DEF LamportBooks, VaultCovers
<1>7. TypeOK'
  <2>1. /\ vault - creator_fee_lamports \in U64Range
        /\ wallet + creator_fee_lamports \in U64Range /\ 0 \in U64Range
    BY <1>1, <1>2, <1>4, StateNat, MarketNat, Range64
  <2> QED
    BY <1>1, <1>2, <1>4, <2>1
    DEF TypeOK, tradeFrame, configVars, indexVars, curveVars, ammVars, markVars, fundingVars,
        shortVars, itemVars
<1> QED
  BY <1>3, <1>6, <1>7 DEF IInv

-----------------------------------------------------------------------------
\* Creation of a market.
LEMMA CreateMarket ==
    ASSUME IInv, NEW p \in ParamSets, create_market(p)
    PROVE  IInv'
<1>1. p \in MarketParams
  BY MarketAssumption
<1>2. /\ p.curve_virtual_sol \in U64Range /\ p.curve_virtual_tokens \in U64Range
      /\ p.max_open_interest \in U64Range /\ p.item_reserve \in U64Range
  BY <1>1 DEF MarketParams
<1>3. /\ p.curve_virtual_sol \in Nat /\ p.curve_virtual_tokens \in Nat
      /\ p.max_open_interest \in Nat /\ p.item_reserve \in Nat
  BY <1>2, Range64
<1>4. /\ status = "None" /\ p.curve_virtual_sol > 0 /\ p.curve_virtual_tokens > 0
      /\ Fits(p.curve_virtual_tokens + p.max_open_interest + p.item_reserve)
      /\ status' = "Bootstrap" /\ venue' = "Internal" /\ params' = p
      /\ curve_virtual_sol' = p.curve_virtual_sol
      /\ curve_virtual_tokens' = p.curve_virtual_tokens
      /\ mark_ema' = spot_per_nft(p.curve_virtual_sol, p.curve_virtual_tokens)
      /\ mark_last_ts' = now /\ funding_index' = FUNDING_ONE
      /\ pool_token' = p.curve_virtual_tokens
      /\ treasury' = p.max_open_interest /\ item_reserve' = p.item_reserve
      /\ transfer_in(RentBuffer)
      /\ UNCHANGED <<frozen, indexVars, curve_sol_raised, curve_tokens_sold, ammVars,
                     funding_last_ts, shortVars, insurance_lamports, feeVars, itemVars,
                     circulating, now>>
  BY DEF create_market
<1>5. TypeOK
  BY DEF IInv
<1>6. /\ curve_sol_raised = 0 /\ curve_tokens_sold = 0
      /\ insurance_lamports = 0 /\ fee_lamports = 0 /\ creator_fee_lamports = 0
      /\ total_collateral = 0 /\ vault = 0 /\ circulating = 0
      /\ vault + wallet = TotalLamports
  BY <1>4 DEF IInv, Untouched, LamportBooks
<1>7. /\ vault' = 0 + RentBuffer /\ wallet' = TotalLamports - RentBuffer
  <2>1. wallet = TotalLamports
    BY <1>5, <1>6, StateNat, MarketNat
  <2> QED
    BY <1>4, <1>6, <2>1 DEF transfer_in
<1>8. Claims' = 0
  BY <1>4, <1>6 DEF Claims, venue_sol, shortVars, feeVars
<1>9. LamportBooks'
  BY <1>7, <1>8, MarketNat DEF LamportBooks, VaultCovers
<1>10. TokenBooks'
  BY <1>3, <1>4, <1>6 DEF TokenBooks, PoolCovers, Supply, venue_tokens, Fits
<1>11. CurveBooks'
  BY <1>3, <1>4, <1>6 DEF CurveBooks
<1>12. Untouched' /\ LiveBooks'
  BY <1>4, ScaleAssumption DEF Untouched, LiveBooks
<1>13. TypeOK'
  <2>1. RentBuffer \in U64Range /\ TotalLamports - RentBuffer \in U64Range /\ FUNDING_ONE \in Nat
    BY MarketNat, Range64, ScaleAssumption
  <2>2. mark_ema' \in U64Range
    BY <1>3, <1>4, SpotType
  <2>3. vault' \in U64Range
    BY <1>7, <2>1, MarketNat
  <2> QED
    BY <1>1, <1>2, <1>4, <1>5, <1>7, <2>1, <2>2, <2>3
    DEF TypeOK, indexVars, ammVars, shortVars, feeVars, itemVars
<1> QED
  BY <1>9, <1>10, <1>11, <1>12, <1>13 DEF IInv

\* Creation of an external market.
LEMMA CreateExternalMarket ==
    ASSUME IInv, NEW p \in ParamSets, create_external_market(p)
    PROVE  IInv'
<1>1. /\ status = "None" /\ status' = "Live" /\ venue' = "External" /\ params' = p
      /\ funding_index' = FUNDING_ONE /\ funding_last_ts' = now
      /\ circulating' = ExternalSupply
      /\ transfer_in(RentBuffer)
      /\ UNCHANGED <<frozen, indexVars, curveVars, ammVars, markVars, shortVars,
                     insurance_lamports, feeVars, itemVars, pool_token, treasury,
                     item_reserve, now>>
  BY DEF create_external_market
<1>2. TypeOK
  BY DEF IInv
<1>3. /\ amm_sol_reserve = 0 /\ insurance_lamports = 0 /\ fee_lamports = 0
      /\ creator_fee_lamports = 0 /\ total_collateral = 0 /\ vault = 0
      /\ pool_token = 0 /\ treasury = 0 /\ item_reserve = 0
      /\ vault + wallet = TotalLamports
  BY <1>1 DEF IInv, Untouched, LamportBooks
<1>4. /\ vault' = 0 + RentBuffer /\ wallet' = TotalLamports - RentBuffer
  BY <1>1, <1>2, <1>3, StateNat, MarketNat DEF transfer_in
<1>5. Claims' = 0
  BY <1>1, <1>3 DEF Claims, venue_sol, ammVars, shortVars, feeVars
<1>6. LamportBooks'
  BY <1>4, <1>5, MarketNat DEF LamportBooks, VaultCovers
<1>7. TokenBooks'
  BY <1>1, <1>3, MarketNat DEF TokenBooks, PoolCovers, Supply
<1>8. CurveBooks' /\ Untouched' /\ LiveBooks'
  BY <1>1, ScaleAssumption DEF CurveBooks, Untouched, LiveBooks
<1>9. TypeOK'
  <2>1. RentBuffer \in U64Range /\ TotalLamports - RentBuffer \in U64Range /\ FUNDING_ONE \in Nat
        /\ ExternalSupply \in U64Range /\ params' \in MarketParams
    BY <1>1, MarketNat, MarketAssumption, Range64, ScaleAssumption
  <2>2. vault' \in U64Range
    BY <1>4, <2>1, MarketNat
  <2> QED
    BY <1>1, <1>2, <1>4, <2>1, <2>2
    DEF TypeOK, indexVars, curveVars, ammVars, markVars, shortVars, feeVars, itemVars
<1> QED
  BY <1>6, <1>7, <1>8, <1>9 DEF IInv

-----------------------------------------------------------------------------
\* Feeds, the admin and the clock move no lamport and no token.
LEMMA LamportFrame ==
    ASSUME IInv,
           UNCHANGED <<status, curveVars, ammVars, total_collateral, insurance_lamports,
                       feeVars, lamportVars>>
    PROVE  LamportBooks'
  BY DEF LamportBooks, VaultCovers, Claims, venue_sol, IInv, curveVars, ammVars, feeVars,
         lamportVars

\* The time since the last push is an integer.
LEMMA SinceType ==
    ASSUME TypeOK, NEW last_ts \in Nat, NEW window_secs \in Nat
    PROVE  since(last_ts, window_secs) \in Int
  BY StateNat DEF since, Max2

\* A push to the index.
LEMMA PushIndex ==
    ASSUME IInv, NEW price \in IndexPrices, push_index(price)
    PROVE  IInv'
<1>1. /\ status # "None" /\ index_last_ts' = now
      /\ \/ frozen' = TRUE /\ UNCHANGED index_twap
         \/ /\ index_twap' = ema_step(index_twap, price,
                               since(index_last_ts, params.index_window_secs),
                               params.index_window_secs)
            /\ UNCHANGED frozen
      /\ UNCHANGED <<oracleFrame, params, markVars, now>>
  BY DEF push_index
<1>2. TypeOK
  BY DEF IInv
<1>3. CurveBooks' /\ Untouched' /\ LiveBooks' /\ TokenBooks'
  BY <1>1, BooksFrame DEF oracleFrame, configVars, fundingVars
<1>4. LamportBooks'
  BY <1>1, LamportFrame DEF oracleFrame, shortVars
<1>5. index_twap' \in U64Range
  <2>1. /\ since(index_last_ts, params.index_window_secs) \in Int
        /\ params.index_window_secs \in Nat /\ index_twap \in U64Range /\ price \in U64Range
    BY <1>2, SinceType, StateNat, ParamNat, InputAssumption DEF TypeOK
  <2>2. ema_step(index_twap, price, since(index_last_ts, params.index_window_secs),
                 params.index_window_secs) \in U64Range
    BY <2>1, EmaType
  <2> QED
    BY <1>1, <2>1, <2>2
<1>6. TypeOK'
  BY <1>1, <1>2, <1>5
  DEF TypeOK, oracleFrame, curveVars, ammVars, markVars, fundingVars, shortVars, feeVars,
      itemVars, lamportVars, tokenVars
<1> QED
  BY <1>3, <1>4, <1>6 DEF IInv

\* A push to the mark.
LEMMA PushMark ==
    ASSUME IInv, NEW price \in MarkPrices, push_mark(price)
    PROVE  IInv'
<1>1. /\ status # "None"
      /\ mark_ema' = ema_step(mark_ema, price, since(mark_last_ts, params.mark_window_secs),
                              params.mark_window_secs)
      /\ mark_last_ts' = now
      /\ UNCHANGED <<oracleFrame, params, frozen, indexVars, now>>
  BY DEF push_mark
<1>2. TypeOK
  BY DEF IInv
<1>3. CurveBooks' /\ Untouched' /\ LiveBooks' /\ TokenBooks'
  BY <1>1, BooksFrame DEF oracleFrame, configVars, fundingVars
<1>4. LamportBooks'
  BY <1>1, LamportFrame DEF oracleFrame, shortVars
<1>5. mark_ema' \in U64Range
  <2>1. /\ since(mark_last_ts, params.mark_window_secs) \in Int
        /\ params.mark_window_secs \in Nat /\ mark_ema \in U64Range /\ price \in U64Range
    BY <1>2, SinceType, StateNat, ParamNat, InputAssumption DEF TypeOK
  <2> QED
    BY <1>1, <2>1, EmaType
<1>6. TypeOK'
  BY <1>1, <1>2, <1>5
  DEF TypeOK, oracleFrame, indexVars, curveVars, ammVars, fundingVars, shortVars, feeVars,
      itemVars, lamportVars, tokenVars
<1> QED
  BY <1>3, <1>4, <1>6 DEF IInv

\* A freeze or an unfreeze.
LEMMA SetFrozen ==
    ASSUME IInv, NEW flag \in FreezeFlags, set_frozen(flag)
    PROVE  IInv'
<1>1. /\ status # "None" /\ frozen' = flag /\ flag \in BOOLEAN
      /\ UNCHANGED <<oracleFrame, params, indexVars, markVars, now>>
  BY InputAssumption DEF set_frozen
<1>2. CurveBooks' /\ Untouched' /\ LiveBooks' /\ TokenBooks'
  BY <1>1, BooksFrame DEF oracleFrame, configVars, fundingVars
<1>3. LamportBooks'
  BY <1>1, LamportFrame DEF oracleFrame, shortVars
<1>4. TypeOK'
  BY <1>1
  DEF IInv, TypeOK, oracleFrame, indexVars, curveVars, ammVars, markVars, fundingVars,
      shortVars, feeVars, itemVars, lamportVars, tokenVars
<1> QED
  BY <1>2, <1>3, <1>4 DEF IInv

\* A change of the risk parameters.
LEMMA UpdateMarketParams ==
    ASSUME IInv, NEW p \in ParamSets, update_market_params(p)
    PROVE  IInv'
<1>1. /\ status # "None" /\ params' = p /\ p \in MarketParams
      /\ p.curve_virtual_sol = params.curve_virtual_sol
      /\ p.curve_virtual_tokens = params.curve_virtual_tokens
      /\ UNCHANGED <<oracleFrame, frozen, indexVars, markVars, now>>
  BY MarketAssumption DEF update_market_params
<1>2. Untouched' /\ LiveBooks' /\ TokenBooks'
  BY <1>1
  DEF Untouched, LiveBooks, TokenBooks, PoolCovers, Supply, venue_tokens, IInv, oracleFrame,
      curveVars, ammVars, fundingVars, tokenVars
<1>3. CurveBooks'
  BY <1>1 DEF CurveBooks, IInv, oracleFrame, curveVars
<1>4. LamportBooks'
  BY <1>1, LamportFrame DEF oracleFrame, shortVars
<1>5. TypeOK'
  BY <1>1
  DEF IInv, TypeOK, oracleFrame, indexVars, curveVars, ammVars, markVars, fundingVars,
      shortVars, feeVars, itemVars, lamportVars, tokenVars
<1> QED
  BY <1>2, <1>3, <1>4, <1>5 DEF IInv

\* The clock.
LEMMA ClockTick ==
    ASSUME IInv, Tick
    PROVE  IInv'
<1>1. /\ now' = now + 1
      /\ UNCHANGED <<configVars, frozen, indexVars, curveVars, ammVars, markVars, fundingVars,
                     shortVars, insurance_lamports, feeVars, itemVars, lamportVars, tokenVars>>
  BY DEF Tick
<1>2. CurveBooks' /\ Untouched' /\ LiveBooks' /\ TokenBooks'
  BY <1>1
  DEF CurveBooks, Untouched, LiveBooks, TokenBooks, PoolCovers, Supply, venue_tokens, IInv,
      configVars, curveVars, ammVars, fundingVars, shortVars, feeVars, lamportVars, tokenVars
<1>3. LamportBooks'
  BY <1>1, LamportFrame DEF configVars, shortVars
<1>4. TypeOK'
  BY <1>1
  DEF IInv, TypeOK, configVars, indexVars, curveVars, ammVars, markVars, fundingVars,
      shortVars, feeVars, itemVars, lamportVars, tokenVars
<1> QED
  BY <1>2, <1>3, <1>4 DEF IInv

-----------------------------------------------------------------------------
\* Tokens sent to the market, and item swaps.
LEMMA SplTransfer ==
    ASSUME IInv, NEW amount \in TransferAmounts, NEW to_pool \in BOOLEAN,
           spl_transfer(amount, to_pool)
    PROVE  IInv'
<1>1. /\ status # "None" /\ (to_pool => venue = "Internal") /\ amount <= circulating
      /\ circulating' = circulating - amount
      /\ pool_token' = IF to_pool THEN pool_token + amount ELSE pool_token
      /\ item_reserve' = IF to_pool THEN item_reserve ELSE item_reserve + amount
      /\ UNCHANGED <<configVars, frozen, indexVars, curveVars, ammVars, markVars, fundingVars,
                     shortVars, insurance_lamports, feeVars, itemVars, lamportVars, treasury, now>>
  BY DEF spl_transfer
<1>2. TypeOK /\ amount \in Nat
  BY InputNat DEF IInv
<1>3. CurveBooks' /\ Untouched' /\ LiveBooks'
  BY <1>1 DEF CurveBooks, Untouched, LiveBooks, IInv, configVars, curveVars, ammVars, fundingVars
<1>4. LamportBooks'
  BY <1>1, LamportFrame DEF configVars, shortVars
<1>5. TokenBooks'
  BY <1>1, <1>2, StateNat
  DEF TokenBooks, PoolCovers, Supply, venue_tokens, IInv, configVars, curveVars, ammVars
<1>6. TypeOK'
  <2>1. /\ circulating - amount \in U64Range /\ pool_token + amount \in U64Range
        /\ item_reserve + amount \in U64Range
    BY <1>1, <1>2, StateNat, TokenFacts, Range64
  <2> QED
    BY <1>1, <1>2, <2>1
    DEF TypeOK, configVars, indexVars, curveVars, ammVars, markVars, fundingVars, shortVars,
        feeVars, itemVars, lamportVars
<1> QED
  BY <1>3, <1>4, <1>5, <1>6 DEF IInv

\* The registration of an item mint.
LEMMA RegisterItem ==
    ASSUME IInv, NEW i \in ItemMints, register_item(i)
    PROVE  IInv'
<1>1. /\ status # "None" /\ registered' = registered \cup {i}
      /\ UNCHANGED <<itemFrame, markVars, items_deposited, escrow_item, item_reserve, circulating>>
  BY DEF register_item
<1>2. CurveBooks' /\ Untouched' /\ LiveBooks' /\ TokenBooks'
  BY <1>1, BooksFrame DEF itemFrame, configVars, fundingVars, tokenVars
<1>3. LamportBooks'
  BY <1>1, LamportFrame DEF itemFrame, configVars, shortVars
<1>4. TypeOK'
  BY <1>1
  DEF IInv, TypeOK, itemFrame, configVars, indexVars, curveVars, ammVars, markVars, fundingVars,
      shortVars, feeVars, lamportVars
<1> QED
  BY <1>2, <1>3, <1>4 DEF IInv

\* The price of an item in tokens is a u64.
LEMMA ItemTokensType ==
    ASSUME TypeOK, NEW mark \in U64Range, mark > 0
    PROVE  item_tokens(mark) \in Nat
<1> DEFINE worth == index_twap * BASE_UNITS_PER_NFT * params.units_per_item_micro
<1>1. mark \in Nat \ {0} /\ MICRO \in Nat \ {0}
  BY Range64, ScaleAssumption
<1>2. worth \in Nat
  <2>1. index_twap \in Nat /\ BASE_UNITS_PER_NFT \in Nat /\ params.units_per_item_micro \in Nat
    BY StateNat, ParamNat, ScaleAssumption
  <2> QED
    BY <2>1
<1> HIDE DEF worth
<1>3. worth \div mark \in Nat
  BY <1>1, <1>2, DivBound
<1>4. (worth \div mark) \div MICRO \in Nat
  BY <1>1, <1>3, DivBound
<1>5. U64((worth \div mark) \div MICRO) \in Nat
  BY <1>4, U64Type
<1> QED
  BY <1>5 DEF item_tokens, worth

\* The mark after an update from the venue's price is a u64.
LEMMA VenueMarkType ==
    ASSUME TypeOK, update_venue_mark
    PROVE  mark_ema' \in U64Range /\ mark_last_ts' \in Nat
<1>1. amm_spot_per_nft \in U64Range /\ curve_spot(curve_virtual_sol, curve_virtual_tokens) \in U64Range
  BY StateNat, SpotType DEF amm_spot_per_nft, curve_spot
<1> QED
  BY <1>1, MarkType DEF update_venue_mark

\* The deposit of an item.
LEMMA DepositItem ==
    ASSUME IInv, NEW i \in ItemMints, deposit_item(i)
    PROVE  IInv'
<1> DEFINE tokens == item_tokens(mark_ema')
           net_out == deposit_payout(tokens)
<1>1. /\ status # "None" /\ update_venue_mark /\ mark_ema' > 0
      /\ item_reserve >= tokens /\ 0 <= net_out
      /\ items_deposited' = items_deposited + 1
      /\ escrow_item' = [escrow_item EXCEPT ![i] = @ + 1]
      /\ item_reserve' = item_reserve - net_out
      /\ circulating' = circulating + net_out
      /\ UNCHANGED <<itemFrame, registered>>
  BY DEF deposit_item
<1>2. TypeOK
  BY DEF IInv
<1>3. mark_ema' \in U64Range /\ mark_last_ts' \in Nat
  BY <1>1, <1>2, VenueMarkType
<1>4. tokens \in Nat
  BY <1>1, <1>2, <1>3, ItemTokensType
<1> HIDE DEF tokens
<1>5. net_out \in Nat /\ net_out <= item_reserve
  <2>1. params.curve_fee_bps \in Nat
    BY <1>2, ParamNat
  <2>2. mul_bps(tokens, params.curve_fee_bps) \in Nat
    BY <1>4, <2>1, FeeType
  <2> QED
    BY <1>1, <1>2, <1>4, <2>2, StateNat DEF deposit_payout
<1> HIDE DEF net_out
<1>6. CurveBooks' /\ Untouched' /\ LiveBooks'
  BY <1>1 DEF CurveBooks, Untouched, LiveBooks, IInv, itemFrame, configVars, curveVars, ammVars, fundingVars
<1>7. LamportBooks'
  BY <1>1, LamportFrame DEF itemFrame, configVars, shortVars
<1>8. TokenBooks'
  BY <1>1, <1>2, <1>5, StateNat
  DEF TokenBooks, PoolCovers, Supply, venue_tokens, IInv, itemFrame, configVars, curveVars, ammVars
<1>9. TypeOK'
  <2>1. item_reserve - net_out \in U64Range /\ circulating + net_out \in U64Range
    BY <1>2, <1>5, StateNat, TokenFacts, Range64
  <2>2. items_deposited' \in Nat /\ escrow_item' \in [ItemMints -> Nat]
    BY <1>1, <1>2 DEF TypeOK
  <2> QED
    BY <1>1, <1>2, <1>3, <2>1, <2>2
    DEF TypeOK, itemFrame, configVars, indexVars, curveVars, ammVars, fundingVars, shortVars,
        feeVars, lamportVars
<1> QED
  BY <1>6, <1>7, <1>8, <1>9 DEF IInv

\* The withdrawal of an item.
LEMMA WithdrawItem ==
    ASSUME IInv, NEW i \in ItemMints, withdraw_item(i)
    PROVE  IInv'
<1> DEFINE total_in == withdraw_price(item_tokens(mark_ema'))
<1>1. /\ status # "None" /\ update_venue_mark /\ mark_ema' > 0
      /\ escrow_item[i] >= 1 /\ total_in <= circulating
      /\ items_deposited' = Max2(items_deposited - 1, 0)
      /\ escrow_item' = [escrow_item EXCEPT ![i] = @ - 1]
      /\ item_reserve' = item_reserve + total_in
      /\ circulating' = circulating - total_in
      /\ UNCHANGED <<itemFrame, registered>>
  BY DEF withdraw_item
<1>2. TypeOK
  BY DEF IInv
<1>3. mark_ema' \in U64Range /\ mark_last_ts' \in Nat
  BY <1>1, <1>2, VenueMarkType
<1>4. total_in \in Nat
  <2>1. item_tokens(mark_ema') \in Nat /\ params.curve_fee_bps \in Nat
    BY <1>1, <1>2, <1>3, ItemTokensType, ParamNat
  <2>2. mul_bps(item_tokens(mark_ema'), params.curve_fee_bps) \in Nat
    BY <2>1, FeeType
  <2> QED
    BY <2>1, <2>2 DEF withdraw_price
<1> HIDE DEF total_in
<1>5. CurveBooks' /\ Untouched' /\ LiveBooks'
  BY <1>1 DEF CurveBooks, Untouched, LiveBooks, IInv, itemFrame, configVars, curveVars, ammVars, fundingVars
<1>6. LamportBooks'
  BY <1>1, LamportFrame DEF itemFrame, configVars, shortVars
<1>7. TokenBooks'
  BY <1>1, <1>2, <1>4, StateNat
  DEF TokenBooks, PoolCovers, Supply, venue_tokens, IInv, itemFrame, configVars, curveVars, ammVars
<1>8. TypeOK'
  <2>1. item_reserve + total_in \in U64Range /\ circulating - total_in \in U64Range
    BY <1>1, <1>2, <1>4, StateNat, TokenFacts, Range64
  <2>2. items_deposited' \in Nat /\ escrow_item' \in [ItemMints -> Nat]
    BY <1>1, <1>2 DEF TypeOK, Max2
  <2> QED
    BY <1>1, <1>2, <1>3, <2>1, <2>2
    DEF TypeOK, itemFrame, configVars, indexVars, curveVars, ammVars, fundingVars, shortVars,
        feeVars, lamportVars
<1> QED
  BY <1>5, <1>6, <1>7, <1>8 DEF IInv

-----------------------------------------------------------------------------
\* Shorts.
LEMMA OpenShort ==
    ASSUME IInv, NEW o \in Owners, NEW collateral \in LamportAmounts, NEW size \in TokenAmounts,
           open_short(o, collateral, size)
    PROVE  IInv'
<1> DEFINE scaled == scaled_from_debt(size, funding_index)
           entry == Min2(position[o].entry_notional + value_at_index(size, index_twap), MAX_U64)
<1>1. /\ status = "Live" /\ Fits(position[o].collateral + collateral)
      /\ position' = [position EXCEPT ![o] =
            [open |-> TRUE, collateral |-> position[o].collateral + collateral,
             debt_scaled |-> position[o].debt_scaled + scaled, entry_notional |-> entry]]
      /\ total_debt_scaled' = total_debt_scaled + scaled
      /\ total_collateral' = total_collateral + collateral
      /\ transfer_in(collateral)
      /\ UNCHANGED <<shortFrame, markVars, fundingVars, insurance_lamports>>
  BY DEF open_short
<1>2. TypeOK /\ collateral \in Nat /\ size \in Nat
  BY InputNat DEF IInv
<1>3. scaled \in Nat
  <2>1. funding_index \in Nat \ {0}
    BY <1>1, <1>2, StateNat DEF IInv, LiveBooks
  <2> QED
    BY <1>2, <2>1, ScaledType
<1> HIDE DEF scaled
<1>4. entry \in U64Range
  <2>1. index_twap \in Nat
    BY <1>2, StateNat
  <2>2. value_at_index(size, index_twap) \in Nat /\ position[o].entry_notional \in Nat
    BY <1>2, <2>1, ValueType, PositionNat
  <2> QED
    BY <2>2, Range64 DEF Min2
<1> HIDE DEF entry
<1>5. CurveBooks' /\ Untouched' /\ LiveBooks' /\ TokenBooks'
  BY <1>1, BooksFrame DEF shortFrame, fundingVars
<1>6. /\ vault' = vault + collateral /\ wallet' = wallet - collateral /\ collateral <= wallet
      /\ vault + wallet = TotalLamports /\ vault >= RentBuffer + Claims
      /\ Claims = venue_sol + insurance_lamports + fee_lamports
                    + creator_fee_lamports + total_collateral
  BY <1>1, LamportFacts DEF transfer_in
<1>7. Claims' = Claims + collateral
  BY <1>1, <1>2, StateNat
  DEF Claims, venue_sol, shortFrame, configVars, feeVars, curveVars, ammVars
<1>8. LamportBooks'
  BY <1>2, <1>6, <1>7, StateNat, ClaimsNat, MarketNat DEF LamportBooks, VaultCovers
<1>9. TypeOK'
  <2>1. /\ vault + collateral \in U64Range /\ wallet - collateral \in U64Range
        /\ total_collateral + collateral \in U64Range
    BY <1>2, <1>6, StateNat, ClaimsNat, MarketNat, Range64
  <2>2. /\ position[o].collateral + collateral \in U64Range
        /\ position[o].debt_scaled + scaled \in Nat
    BY <1>1, <1>2, <1>3, PositionNat, Range64 DEF Fits
  <2>3. position' \in [Owners -> [open : BOOLEAN, collateral : U64Range, debt_scaled : Nat,
                                  entry_notional : U64Range]]
    BY <1>1, <1>2, <1>4, <2>2 DEF TypeOK
  <2>4. total_debt_scaled + scaled \in Nat
    BY <1>2, <1>3, StateNat
  <2> QED
    BY <1>1, <1>2, <1>6, <2>1, <2>3, <2>4
    DEF TypeOK, shortFrame, configVars, indexVars, curveVars, ammVars, markVars, fundingVars,
        feeVars, itemVars, tokenVars
<1> QED
  BY <1>5, <1>8, <1>9 DEF IInv

\* A collateral top-up.
LEMMA AddCollateral ==
    ASSUME IInv, NEW o \in Owners, NEW amount \in LamportAmounts, add_collateral(o, amount)
    PROVE  IInv'
<1>1. /\ position[o].open /\ Fits(position[o].collateral + amount)
      /\ position' = [position EXCEPT ![o].collateral = position[o].collateral + amount]
      /\ total_collateral' = total_collateral + amount
      /\ transfer_in(amount)
      /\ UNCHANGED <<shortFrame, markVars, fundingVars, insurance_lamports, total_debt_scaled>>
  BY DEF add_collateral
<1>2. TypeOK /\ amount \in Nat /\ status # "None"
  BY <1>1, InputNat DEF IInv, Untouched
<1>3. CurveBooks' /\ Untouched' /\ LiveBooks' /\ TokenBooks'
  BY <1>1, <1>2, BooksFrame DEF shortFrame, fundingVars
<1>4. /\ vault' = vault + amount /\ wallet' = wallet - amount /\ amount <= wallet
      /\ vault + wallet = TotalLamports /\ vault >= RentBuffer + Claims
      /\ Claims = venue_sol + insurance_lamports + fee_lamports
                    + creator_fee_lamports + total_collateral
  BY <1>1, <1>2, LamportFacts DEF transfer_in
<1>5. Claims' = Claims + amount
  BY <1>1, <1>2, StateNat
  DEF Claims, venue_sol, shortFrame, configVars, feeVars, curveVars, ammVars
<1>6. LamportBooks'
  BY <1>2, <1>4, <1>5, StateNat, ClaimsNat, MarketNat DEF LamportBooks, VaultCovers
<1>7. TypeOK'
  <2>1. /\ vault + amount \in U64Range /\ wallet - amount \in U64Range
        /\ total_collateral + amount \in U64Range
    BY <1>2, <1>4, StateNat, ClaimsNat, MarketNat, Range64
  <2>2. position[o].collateral + amount \in U64Range
    BY <1>1, <1>2, PositionNat, Range64 DEF Fits
  <2>3. position' \in [Owners -> [open : BOOLEAN, collateral : U64Range, debt_scaled : Nat,
                                  entry_notional : U64Range]]
    BY <1>1, <1>2, <2>2 DEF TypeOK
  <2> QED
    BY <1>1, <1>2, <1>4, <2>1, <2>3
    DEF TypeOK, shortFrame, configVars, indexVars, curveVars, ammVars, markVars, fundingVars,
        feeVars, itemVars, tokenVars
<1> QED
  BY <1>3, <1>6, <1>7 DEF IInv

\* A withdrawal of collateral.
LEMMA WithdrawCollateral ==
    ASSUME IInv, NEW o \in Owners, NEW amount \in LamportAmounts, withdraw_collateral(o, amount)
    PROVE  IInv'
<1>1. /\ position[o].open
      /\ amount <= position[o].collateral /\ amount <= total_collateral
      /\ position' = [position EXCEPT ![o].collateral = position[o].collateral - amount]
      /\ total_collateral' = total_collateral - amount
      /\ transfer_out(amount)
      /\ UNCHANGED <<shortFrame, markVars, fundingVars, insurance_lamports, total_debt_scaled>>
  BY DEF withdraw_collateral
<1>2. TypeOK /\ amount \in Nat /\ status # "None"
  BY <1>1, InputNat DEF IInv, Untouched
<1>3. CurveBooks' /\ Untouched' /\ LiveBooks' /\ TokenBooks'
  BY <1>1, <1>2, BooksFrame DEF shortFrame, fundingVars
<1>4. /\ vault' = vault - amount /\ wallet' = wallet + amount /\ amount <= vault
      /\ vault + wallet = TotalLamports /\ vault >= RentBuffer + Claims
  BY <1>1, <1>2, LamportFacts DEF transfer_out
<1>5. Claims' = Claims - amount
  BY <1>1, <1>2, StateNat
  DEF Claims, venue_sol, shortFrame, configVars, feeVars, curveVars, ammVars
<1>6. LamportBooks'
  BY <1>2, <1>4, <1>5, StateNat, ClaimsNat, MarketNat DEF LamportBooks, VaultCovers
<1>7. TypeOK'
  <2>1. total_collateral <= MAX_U64
    BY <1>2, Range64 DEF TypeOK
  <2>2. /\ vault - amount \in U64Range /\ wallet + amount \in U64Range
        /\ total_collateral - amount \in U64Range
    BY <1>1, <1>2, <1>4, <2>1, StateNat, MarketNat, Range64
  <2>3. position[o].collateral - amount \in U64Range
    BY <1>1, <1>2, PositionNat, Range64
  <2>4. position' \in [Owners -> [open : BOOLEAN, collateral : U64Range, debt_scaled : Nat,
                                  entry_notional : U64Range]]
    BY <1>1, <1>2, <2>3 DEF TypeOK
  <2> QED
    BY <1>1, <1>2, <1>4, <2>2, <2>4
    DEF TypeOK, shortFrame, configVars, indexVars, curveVars, ammVars, markVars, fundingVars,
        feeVars, itemVars, tokenVars
<1> QED
  BY <1>3, <1>6, <1>7 DEF IInv

\* The next funding index is an integer.
LEMMA FundingType ==
    ASSUME TypeOK, NEW mark \in Nat, NEW dt \in Int, index_twap > 0
    PROVE  next_funding_index(funding_rate(mark), dt) \in Int
<1> DEFINE rate == funding_rate(mark)
           cap == params.max_funding_bps_per_day
           premium == TruncDiv((mark - index_twap) * BPS, index_twap)
<1>1. /\ index_twap \in Nat \ {0} /\ funding_index \in Nat
      /\ BPS \in Nat \ {0} /\ DAY \in Nat \ {0}
      /\ cap \in Nat /\ params.funding_k_bps \in Nat
  BY StateNat, ParamNat, ScaleAssumption
<1>2. premium \in Int
  BY <1>1, TruncType
<1> HIDE DEF premium
<1>3. TruncDiv(premium * params.funding_k_bps, BPS) \in Int
  BY <1>1, <1>2, TruncType
<1>4. rate \in Int
  <2>1. rate = Clamp(TruncDiv(premium * params.funding_k_bps, BPS), -cap, cap)
    BY DEF funding_rate, premium
  <2> QED
    BY <1>1, <1>3, <2>1 DEF Clamp, Max2, Min2
<1> HIDE DEF rate
<1>5. /\ funding_index * rate * Min2(dt, DAY) \in Int
      /\ DAY * BPS \in Nat \ {0}
  <2>1. Min2(dt, DAY) \in Int
    BY <1>1 DEF Min2
  <2> QED
    BY <1>1, <1>4, <2>1
<1>6. TruncDiv(funding_index * rate * Min2(dt, DAY), DAY * BPS) \in Int
  BY <1>5, TruncType
<1>7. next_funding_index(rate, dt) \in Int
  BY <1>1, <1>6 DEF next_funding_index
<1> QED
  BY <1>7 DEF rate

\* A funding crank.
LEMMA AccrueFunding ==
    ASSUME IInv, accrue_funding
    PROVE  IInv'
<1>1. /\ status = "Live" /\ index_twap > 0
      /\ IF venue = "Internal" THEN update_mark(amm_spot_per_nft) ELSE UNCHANGED markVars
      /\ funding_index' = next_funding_index(funding_rate(mark_ema'), now - funding_last_ts)
      /\ funding_index' > 0 /\ funding_last_ts' = now
      /\ UNCHANGED <<shortFrame, shortVars, insurance_lamports, lamportVars>>
  BY DEF accrue_funding, crank_due, require_fresh_index
<1>2. TypeOK
  BY DEF IInv
<1>3. mark_ema' \in U64Range /\ mark_last_ts' \in Nat
  <2>1. CASE venue = "Internal"
    <3>1. amm_spot_per_nft \in U64Range
      BY <1>2, StateNat, SpotType DEF amm_spot_per_nft
    <3> QED
      BY <1>1, <1>2, <2>1, <3>1, MarkType
  <2>2. CASE venue # "Internal"
    BY <1>1, <1>2, <2>2 DEF markVars, TypeOK
  <2> QED
    BY <2>1, <2>2
<1>4. funding_index' \in Nat
  <2>1. now - funding_last_ts \in Int
    BY <1>2, StateNat
  <2>2. mark_ema' \in Nat
    BY <1>3, Range64
  <2>3. next_funding_index(funding_rate(mark_ema'), now - funding_last_ts) \in Int
    BY <1>1, <1>2, <2>1, <2>2, FundingType
  <2> QED
    BY <1>1, <2>3
<1>5. CurveBooks' /\ Untouched' /\ LiveBooks' /\ TokenBooks'
  BY <1>1
  DEF CurveBooks, Untouched, LiveBooks, TokenBooks, PoolCovers, Supply, venue_tokens, IInv,
      shortFrame, configVars, curveVars, ammVars, tokenVars
<1>6. LamportBooks'
  BY <1>1, LamportFrame DEF shortFrame, shortVars, configVars
<1>7. TypeOK'
  BY <1>1, <1>2, <1>3, <1>4
  DEF TypeOK, shortFrame, configVars, indexVars, curveVars, ammVars, shortVars, feeVars,
      itemVars, tokenVars, lamportVars
<1> QED
  BY <1>5, <1>6, <1>7 DEF IInv

\* A position's debt, notional, loss and profit are numbers.
LEMMA ValuationNat ==
    ASSUME TypeOK, NEW o \in Owners
    PROVE  /\ notional_of(o) \in Nat
           /\ loss_of(o) \in Nat /\ loss_of(o) <= position[o].collateral
<1>1. position[o].debt_scaled \in Nat /\ funding_index \in Nat /\ index_twap \in Nat
  BY PositionNat, StateNat
<1>2. debt_of(o) \in Nat
  BY <1>1, DebtType DEF debt_of
<1>3. notional_of(o) \in Nat
  BY <1>1, <1>2, ValueType DEF notional_of
<1>4. position[o].entry_notional \in Nat /\ position[o].collateral \in Nat
  BY PositionNat
<1> QED
  BY <1>3, <1>4 DEF loss_of, saturating_sub, Min2, Max2

\* A liquidation.
LEMMA Liquidate ==
    ASSUME IInv, NEW o \in Owners, liquidate(o)
    PROVE  IInv'
<1> DEFINE c == position[o].collateral
           loss == loss_of(o)
           paid == liquidation_split(o).bonus + liquidation_split(o).owner_refund
<1>1. /\ status = "Live" /\ c <= total_collateral
      /\ total_collateral' = total_collateral - c
      /\ total_debt_scaled' = saturating_sub(total_debt_scaled, position[o].debt_scaled)
      /\ insurance_lamports' = insurance_lamports + loss
      /\ position' = [position EXCEPT ![o] = [NoPosition EXCEPT !.open = TRUE]]
      /\ transfer_out(paid)
      /\ UNCHANGED <<shortFrame, markVars, fundingVars>>
  BY DEF liquidate, release_totals
<1>2. TypeOK
  BY DEF IInv
<1>3. /\ c \in Nat /\ loss \in Nat /\ loss <= c /\ position[o].debt_scaled \in Nat
  BY <1>2, ValuationNat, PositionNat
<1>4. paid = c - loss
  <2>1. notional_of(o) \in Nat /\ params.liq_bonus_bps \in Nat
    BY <1>2, ValuationNat, ParamNat
  <2>2. mul_bps(notional_of(o), params.liq_bonus_bps) \in Nat
    BY <2>1, FeeType
  <2> DEFINE bonus == Min2(mul_bps(notional_of(o), params.liq_bonus_bps), c - loss)
  <2>3. bonus \in Int
    BY <1>3, <2>2 DEF Min2
  <2>4. paid = bonus + (c - loss - bonus)
    BY DEF liquidation_split
  <2> HIDE DEF bonus
  <2> QED
    BY <1>3, <2>3, <2>4
<1> HIDE DEF c, loss, paid
<1>5. CurveBooks' /\ Untouched' /\ LiveBooks' /\ TokenBooks'
  BY <1>1, BooksFrame DEF shortFrame, fundingVars
<1>6. /\ vault' = vault - paid /\ wallet' = wallet + paid /\ paid <= vault
      /\ vault + wallet = TotalLamports /\ vault >= RentBuffer + Claims
      /\ Claims = venue_sol + insurance_lamports + fee_lamports
                    + creator_fee_lamports + total_collateral
  BY <1>1, LamportFacts DEF transfer_out
<1>7. Claims' = Claims - paid
  BY <1>1, <1>2, <1>3, <1>4, StateNat
  DEF Claims, venue_sol, shortFrame, configVars, feeVars, curveVars, ammVars
<1>8. LamportBooks'
  BY <1>2, <1>3, <1>4, <1>6, <1>7, StateNat, ClaimsNat, MarketNat DEF LamportBooks, VaultCovers
<1>9. TypeOK'
  <2>1. /\ vault - paid \in U64Range /\ wallet + paid \in U64Range
        /\ total_collateral - c \in U64Range /\ insurance_lamports + loss \in U64Range
    BY <1>1, <1>2, <1>3, <1>4, <1>6, StateNat, ClaimsNat, MarketNat, Range64
  <2>2. saturating_sub(total_debt_scaled, position[o].debt_scaled) \in Nat
    BY <1>2, <1>3, StateNat DEF saturating_sub, Max2
  <2>3. [NoPosition EXCEPT !.open = TRUE]
          \in [open : BOOLEAN, collateral : U64Range, debt_scaled : Nat, entry_notional : U64Range]
    <3>1. 0 \in U64Range
      BY Range64
    <3> QED
      BY <3>1 DEF NoPosition
  <2>4. position' \in [Owners -> [open : BOOLEAN, collateral : U64Range, debt_scaled : Nat,
                                  entry_notional : U64Range]]
    BY <1>1, <1>2, <2>3 DEF TypeOK
  <2> QED
    BY <1>1, <1>2, <1>6, <2>1, <2>2, <2>4
    DEF TypeOK, shortFrame, configVars, indexVars, curveVars, ammVars, markVars, fundingVars,
        feeVars, itemVars, tokenVars
<1> QED
  BY <1>5, <1>8, <1>9 DEF IInv

\* The close of a position.
LEMMA ClosePosition ==
    ASSUME IInv, NEW o \in Owners, close_position(o)
    PROVE  IInv'
<1> DEFINE c == position[o].collateral
           loss == loss_of(o)
           profit == settled_profit(o)
           paid == owner_payout(o)
<1>1. /\ position[o].open /\ c <= total_collateral
      /\ total_collateral' = total_collateral - c
      /\ total_debt_scaled' = saturating_sub(total_debt_scaled, position[o].debt_scaled)
      /\ insurance_lamports' = insurance_lamports - profit + loss
      /\ position' = [position EXCEPT ![o] = NoPosition]
      /\ transfer_out(paid)
      /\ UNCHANGED <<shortFrame, markVars, fundingVars>>
  BY DEF close_position, release_totals
<1>2. TypeOK /\ status # "None"
  BY <1>1 DEF IInv, Untouched
<1>3. /\ c \in Nat /\ c <= MAX_U64 /\ loss \in Nat /\ loss <= c
      /\ position[o].debt_scaled \in Nat
  BY <1>2, ValuationNat, PositionNat
<1>4. profit \in Nat /\ profit <= insurance_lamports
  BY <1>2, ValuationNat, PositionNat, StateNat DEF settled_profit, saturating_sub, Min2, Max2
<1>5. paid \in Nat /\ paid <= c + profit - loss
  <2>1. paid = Min2(c + profit, MAX_U64) - loss
    BY DEF owner_payout
  <2> QED
    BY <1>3, <1>4, <2>1, ScaleAssumption DEF Min2
<1> HIDE DEF c, loss, profit, paid
<1>6. CurveBooks' /\ Untouched' /\ LiveBooks' /\ TokenBooks'
  BY <1>1, <1>2, BooksFrame DEF shortFrame, fundingVars
<1>7. /\ vault' = vault - paid /\ wallet' = wallet + paid /\ paid <= vault
      /\ vault + wallet = TotalLamports /\ vault >= RentBuffer + Claims
      /\ Claims = venue_sol + insurance_lamports + fee_lamports
                    + creator_fee_lamports + total_collateral
  BY <1>1, <1>2, LamportFacts DEF transfer_out
<1>8. Claims' = Claims - (c + profit - loss)
  BY <1>1, <1>2, <1>3, <1>4, StateNat
  DEF Claims, venue_sol, shortFrame, configVars, feeVars, curveVars, ammVars
<1>9. LamportBooks'
  BY <1>2, <1>3, <1>4, <1>5, <1>7, <1>8, StateNat, ClaimsNat, MarketNat
  DEF LamportBooks, VaultCovers
<1>10. TypeOK'
  <2>1. /\ vault - paid \in U64Range /\ wallet + paid \in U64Range
        /\ total_collateral - c \in U64Range
        /\ insurance_lamports - profit + loss \in U64Range
    BY <1>1, <1>2, <1>3, <1>4, <1>5, <1>7, StateNat, ClaimsNat, MarketNat, Range64
  <2>2. saturating_sub(total_debt_scaled, position[o].debt_scaled) \in Nat
    BY <1>2, <1>3, StateNat DEF saturating_sub, Max2
  <2>3. NoPosition
          \in [open : BOOLEAN, collateral : U64Range, debt_scaled : Nat, entry_notional : U64Range]
    <3>1. 0 \in U64Range
      BY Range64
    <3> QED
      BY <3>1 DEF NoPosition
  <2>4. position' \in [Owners -> [open : BOOLEAN, collateral : U64Range, debt_scaled : Nat,
                                  entry_notional : U64Range]]
    BY <1>1, <1>2, <2>3 DEF TypeOK
  <2> QED
    BY <1>1, <1>2, <1>7, <2>1, <2>2, <2>4
    DEF TypeOK, shortFrame, configVars, indexVars, curveVars, ammVars, markVars, fundingVars,
        feeVars, itemVars, tokenVars
<1> QED
  BY <1>6, <1>9, <1>10 DEF IInv

-----------------------------------------------------------------------------
\* IInv holds of a market that does not exist yet.
LEMMA InitInv == Init => IInv
<1> SUFFICES ASSUME Init PROVE IInv
  OBVIOUS
<1>1. 0 \in U64Range /\ TotalLamports \in U64Range
  BY Range64, MarketNat
<1>2. NoParams \in MarketParams
  BY <1>1 DEF NoParams, MarketParams
<1>3. NoPosition
        \in [open : BOOLEAN, collateral : U64Range, debt_scaled : Nat, entry_notional : U64Range]
  BY <1>1 DEF NoPosition
<1>4. TypeOK
  BY <1>1, <1>2, <1>3 DEF Init, TypeOK
<1>5. Untouched
  BY DEF Init, Untouched, NoPosition
<1>6. LamportBooks
  BY MarketNat DEF Init, LamportBooks, VaultCovers
<1>7. TokenBooks
  BY ScaleAssumption DEF Init, TokenBooks, PoolCovers, Supply
<1>8. CurveBooks /\ LiveBooks
  BY DEF Init, CurveBooks, LiveBooks
<1> QED
  BY <1>4, <1>5, <1>6, <1>7, <1>8 DEF IInv

\* Every step keeps it.
LEMMA NextInv == IInv /\ [Next]_vars => IInv'
<1> SUFFICES ASSUME IInv, [Next]_vars PROVE IInv'
  OBVIOUS
<1>1. CASE CreateNext
  BY <1>1, CreateMarket, CreateExternalMarket DEF CreateNext
<1>2. CASE TradeNext
  BY <1>2, CurveBuy, CurveSell, AmmBuy, AmmSell, Graduate DEF TradeNext
<1>3. CASE FundNext
  BY <1>3, FundInsurance, WithdrawFees, WithdrawCreatorFees DEF FundNext
<1>4. CASE OracleNext
  BY <1>4, PushIndex, PushMark, SetFrozen, UpdateMarketParams DEF OracleNext
<1>5. CASE ShortNext
  BY <1>5, OpenShort, AddCollateral, WithdrawCollateral, Liquidate, ClosePosition, AccrueFunding
  DEF ShortNext
<1>6. CASE ItemNext
  BY <1>6, RegisterItem, DepositItem, WithdrawItem, SplTransfer DEF ItemNext
<1>7. CASE Tick
  BY <1>7, ClockTick
<1>8. CASE UNCHANGED vars
  BY <1>8
  DEF IInv, TypeOK, Untouched, LamportBooks, VaultCovers, Claims, venue_sol, TokenBooks,
      PoolCovers, Supply, venue_tokens, CurveBooks, LiveBooks, vars, configVars, indexVars,
      curveVars, ammVars, markVars, fundingVars, shortVars, feeVars, itemVars, lamportVars,
      tokenVars
<1> QED
  BY <1>1, <1>2, <1>3, <1>4, <1>5, <1>6, <1>7, <1>8 DEF Next

\* The inductive invariant holds in every reachable state.
THEOREM Invariance == Spec => []IInv
  BY InitInv, NextInv, PTL DEF Spec

\* Every field keeps its type: no counter of the market, the vault or a
\* position leaves the u64 range, whatever the instructions and their order.
THEOREM TypeCorrect == Spec => []TypeOK
<1>1. IInv => TypeOK
  BY DEF IInv
<1> QED
  BY <1>1, Invariance, PTL

\* The vault always covers the books: venue, insurance, fees and collateral.
THEOREM Solvency == Spec => []VaultCovers
<1>1. IInv => VaultCovers
  BY DEF IInv, LamportBooks
<1> QED
  BY <1>1, Invariance, PTL

\* The pool account always covers what the curve or the AMM may pay out.
THEOREM PoolSolvency == Spec => []PoolCovers
<1>1. IInv => PoolCovers
  BY DEF IInv, TokenBooks
<1> QED
  BY <1>1, Invariance, PTL

\* Whoever holds tokens the curve sold can sell them back: the raised SOL pays.
THEOREM ExitSolvency == Spec => []ExitsCovered
<1>1. IInv => ExitsCovered
  <2> SUFFICES ASSUME IInv, status = "Bootstrap", NEW t \in 1..curve_tokens_sold
               PROVE  cp_out(curve_virtual_tokens, curve_virtual_sol, t) <= curve_sol_raised
    BY DEF ExitsCovered
  <2> DEFINE s0 == params.curve_virtual_sol
             t0 == params.curve_virtual_tokens
             k == curve_virtual_tokens * curve_virtual_sol
             d == curve_virtual_tokens + t
             c == CeilDiv(k, d)
  <2>1. TypeOK
    BY DEF IInv
  <2>2. /\ s0 \in Nat /\ t0 \in Nat /\ t \in Nat
        /\ curve_virtual_sol \in Nat /\ curve_virtual_tokens \in Nat
        /\ curve_sol_raised \in Nat
    BY <2>1, StateNat, ParamNat
  <2>3. /\ curve_virtual_sol = s0 + curve_sol_raised
        /\ d <= t0 /\ d > 0
        /\ s0 * t0 <= curve_virtual_sol * curve_virtual_tokens
    BY <2>1, <2>2, StateNat DEF IInv, CurveBooks
  <2>4. k \in Nat /\ d \in Nat \ {0} /\ s0 * t0 <= k
    BY <2>2, <2>3
  <2>5. c \in Nat /\ k <= d * c
    BY <2>4, CeilBound
  <2> HIDE DEF s0, t0, k, d, c
  <2>6. c >= s0
    <3>1. SUFFICES ASSUME c + 1 <= s0 PROVE FALSE
      BY <2>2, <2>5
    <3>2. d * c <= t0 * c
      BY <2>2, <2>3, <2>4, <2>5
    <3>3. t0 * (c + 1) <= t0 * s0
      BY <2>2, <2>5, <3>1
    <3>4. t0 * (c + 1) = t0 * c + t0 /\ t0 * s0 = s0 * t0
      BY <2>2, <2>5
    <3>5. t0 > 0
      BY <2>2, <2>3, <2>4
    <3> QED
      BY <2>2, <2>4, <2>5, <3>2, <3>3, <3>4, <3>5
  <2>7. cp_out(curve_virtual_tokens, curve_virtual_sol, t) = curve_virtual_sol - c
    BY DEF cp_out, c, k, d
  <2> QED
    BY <2>2, <2>3, <2>5, <2>6, <2>7
<1> QED
  BY <1>1, Invariance, PTL

-----------------------------------------------------------------------------
\* A step that leaves the reserves of both venues alone keeps both products.
LEMMA ReservesFrame ==
    ASSUME TypeOK, UNCHANGED <<curveVars, ammVars>>
    PROVE  ProductKept
<1>1. /\ curve_virtual_sol * curve_virtual_tokens \in Nat
      /\ amm_sol_reserve * amm_token_reserve \in Nat
  BY StateNat
<1> QED
  BY <1>1 DEF ProductKept, curveVars, ammVars

\* The two directions of a trade on the curve: the swap rounds against the trader.
LEMMA CurveTradeKeepsProduct ==
    ASSUME IInv, NEW n \in Nat, curve_buy(n) \/ curve_sell(n)
    PROVE  ProductKept
<1>1. /\ status = "Bootstrap"
      /\ curve_virtual_sol \in Nat /\ curve_virtual_tokens \in Nat
      /\ curve_virtual_sol > 0 /\ curve_virtual_tokens > 0
  BY StateNat DEF IInv, CurveBooks, curve_buy, curve_sell
<1>2. CASE curve_buy(n)
  <2> DEFINE fee == mul_bps(n, params.curve_fee_bps)
             net_in == n - fee
             out == cp_out(curve_virtual_sol, curve_virtual_tokens, net_in)
  <2>1. /\ fee <= n
        /\ curve_virtual_sol' = curve_virtual_sol + net_in
        /\ curve_virtual_tokens' = curve_virtual_tokens - out
    BY <1>2 DEF curve_buy
  <2>2. fee \in Nat
    BY ParamNat, FeeType DEF IInv
  <2> HIDE DEF fee
  <2>3. net_in \in Nat
    BY <2>1, <2>2
  <2> HIDE DEF net_in
  <2>4. curve_virtual_sol + net_in > 0
    BY <1>1, <2>3
  <2>5. curve_virtual_sol * curve_virtual_tokens
          <= (curve_virtual_sol + net_in) * (curve_virtual_tokens - out)
    BY <1>1, <2>3, <2>4, SwapBound, Zenon
  <2> HIDE DEF out
  <2> QED
    BY <1>1, <2>1, <2>5 DEF ProductKept
<1>3. CASE curve_sell(n)
  <2> DEFINE gross == cp_out(curve_virtual_tokens, curve_virtual_sol, n)
  <2>1. /\ curve_virtual_tokens' = curve_virtual_tokens + n
        /\ curve_virtual_sol' = curve_virtual_sol - gross
    BY <1>3 DEF curve_sell
  <2>2. curve_virtual_tokens + n > 0
    BY <1>1
  <2>3. curve_virtual_tokens * curve_virtual_sol
          <= (curve_virtual_tokens + n) * (curve_virtual_sol - gross)
    BY <1>1, <2>2, SwapBound, Zenon
  <2>4. gross \in Nat
    BY <1>1, <2>2, SwapBound, Zenon
  <2> HIDE DEF gross
  <2>5. /\ curve_virtual_tokens * curve_virtual_sol = curve_virtual_sol * curve_virtual_tokens
        /\ (curve_virtual_tokens + n) * (curve_virtual_sol - gross)
             = (curve_virtual_sol - gross) * (curve_virtual_tokens + n)
    BY <1>1, <2>4
  <2> QED
    BY <1>1, <2>1, <2>3, <2>5 DEF ProductKept
<1> QED
  BY <1>2, <1>3

\* The same on the AMM.
LEMMA AmmTradeKeepsProduct ==
    ASSUME IInv, NEW n \in Nat, amm_buy(n) \/ amm_sell(n)
    PROVE  ProductKept
<1>1. /\ status = "Live"
      /\ amm_sol_reserve \in Nat /\ amm_token_reserve \in Nat
      /\ amm_sol_reserve > 0 /\ amm_token_reserve > 0
  BY StateNat DEF IInv, LiveBooks, amm_buy, amm_sell
<1>2. CASE amm_buy(n)
  <2> DEFINE fee == mul_bps(n, params.amm_fee_bps)
             net_in == n - fee
             out == cp_out(amm_sol_reserve, amm_token_reserve, net_in)
  <2>1. /\ fee <= n
        /\ amm_sol_reserve' = amm_sol_reserve + net_in
        /\ amm_token_reserve' = amm_token_reserve - out
    BY <1>2 DEF amm_buy
  <2>2. fee \in Nat
    BY ParamNat, FeeType DEF IInv
  <2> HIDE DEF fee
  <2>3. net_in \in Nat
    BY <2>1, <2>2
  <2> HIDE DEF net_in
  <2>4. amm_sol_reserve + net_in > 0
    BY <1>1, <2>3
  <2>5. amm_sol_reserve * amm_token_reserve
          <= (amm_sol_reserve + net_in) * (amm_token_reserve - out)
    BY <1>1, <2>3, <2>4, SwapBound, Zenon
  <2> HIDE DEF out
  <2> QED
    BY <1>1, <2>1, <2>5 DEF ProductKept
<1>3. CASE amm_sell(n)
  <2> DEFINE gross == cp_out(amm_token_reserve, amm_sol_reserve, n)
  <2>1. /\ amm_token_reserve' = amm_token_reserve + n
        /\ amm_sol_reserve' = amm_sol_reserve - gross
    BY <1>3 DEF amm_sell
  <2>2. amm_token_reserve + n > 0
    BY <1>1
  <2>3. amm_token_reserve * amm_sol_reserve
          <= (amm_token_reserve + n) * (amm_sol_reserve - gross)
    BY <1>1, <2>2, SwapBound, Zenon
  <2>4. gross \in Nat
    BY <1>1, <2>2, SwapBound, Zenon
  <2> HIDE DEF gross
  <2>5. /\ amm_token_reserve * amm_sol_reserve = amm_sol_reserve * amm_token_reserve
        /\ (amm_token_reserve + n) * (amm_sol_reserve - gross)
             = (amm_sol_reserve - gross) * (amm_token_reserve + n)
    BY <1>1, <2>4
  <2> QED
    BY <1>1, <2>1, <2>3, <2>5 DEF ProductKept
<1> QED
  BY <1>2, <1>3

\* No step lets anybody trade the reserves' product down: rounding, fees and the
\* order of trades never work against the venue.
THEOREM ProductNeverFalls == Spec => KNeverFalls
<1>1. IInv /\ [Next]_vars => [ProductKept]_vars
  <2> SUFFICES ASSUME IInv, Next PROVE ProductKept
    BY DEF vars
  <2>1. TypeOK
    BY DEF IInv
  <2>2. CASE CreateNext
    BY <2>2 DEF CreateNext, create_market, create_external_market, ProductKept
  <2>3. CASE TradeNext
    <3>1. (\A s \in SolAmounts : s \in Nat) /\ (\A t \in TokenAmounts : t \in Nat)
      BY InputNat
    <3>2. CASE graduate
      BY <3>2 DEF graduate, ProductKept
    <3> QED
      BY <2>3, <3>1, <3>2, CurveTradeKeepsProduct, AmmTradeKeepsProduct DEF TradeNext
  <2>4. CASE FundNext
    <3>1. UNCHANGED <<curveVars, ammVars>>
      BY <2>4 DEF FundNext, fund_insurance, withdraw_fees, withdraw_creator_fees
    <3> QED
      BY <2>1, <3>1, ReservesFrame
  <2>5. CASE OracleNext
    <3>1. UNCHANGED <<curveVars, ammVars>>
      BY <2>5 DEF OracleNext, push_index, push_mark, set_frozen, update_market_params,
                  oracleFrame
    <3> QED
      BY <2>1, <3>1, ReservesFrame
  <2>6. CASE ShortNext
    <3>1. UNCHANGED <<curveVars, ammVars>>
      BY <2>6 DEF ShortNext, open_short, add_collateral, withdraw_collateral, liquidate,
                  close_position, accrue_funding, shortFrame
    <3> QED
      BY <2>1, <3>1, ReservesFrame
  <2>7. CASE ItemNext
    <3>1. UNCHANGED <<curveVars, ammVars>>
      BY <2>7 DEF ItemNext, register_item, deposit_item, withdraw_item, spl_transfer, itemFrame
    <3> QED
      BY <2>1, <3>1, ReservesFrame
  <2>8. CASE Tick
    <3>1. UNCHANGED <<curveVars, ammVars>>
      BY <2>8 DEF Tick
    <3> QED
      BY <2>1, <3>1, ReservesFrame
  <2> QED
    BY <2>2, <2>3, <2>4, <2>5, <2>6, <2>7, <2>8 DEF Next
<1> QED
  BY <1>1, Invariance, PTL DEF Spec, KNeverFalls

-----------------------------------------------------------------------------
\* What a step may never do, and what follows for the books of all positions.
\* Each theorem looks at the instructions that can disturb its property and
\* passes over the rest, which leave the variables alone; all of them start
\* from IInv.

\* Only push_index moves the TWAP.
LEMMA TwapFrame ==
    ASSUME Next, ~ \E p \in IndexPrices : push_index(p)
    PROVE  UNCHANGED indexVars
<1>1. CASE CreateNext
  BY <1>1 DEF CreateNext, create_market, create_external_market
<1>2. CASE TradeNext \/ FundNext
  BY <1>2 DEF TradeNext, FundNext, curve_buy, curve_sell, graduate, amm_buy, amm_sell,
              fund_insurance, withdraw_fees, withdraw_creator_fees, tradeFrame
<1>3. CASE OracleNext
  BY <1>3 DEF OracleNext, push_mark, set_frozen, update_market_params
<1>4. CASE ShortNext
  BY <1>4 DEF ShortNext, open_short, add_collateral, withdraw_collateral, liquidate,
              close_position, accrue_funding, shortFrame
<1>5. CASE ItemNext \/ Tick
  BY <1>5 DEF ItemNext, register_item, deposit_item, withdraw_item, spl_transfer, itemFrame, Tick
<1> QED
  BY <1>1, <1>2, <1>3, <1>4, <1>5 DEF Next

\* An accepted push moves the TWAP by no more than the push deviates from it,
\* and a push that deviates further is not accepted.
LEMMA PushWithinBreaker ==
    ASSUME IInv, NEW price \in IndexPrices, push_index(price)
    PROVE  TwapMoveBounded
<1> SUFFICES ASSUME index_twap # 0, index_twap' # index_twap
             PROVE  /\ ~frozen /\ ~frozen'
                    /\ AbsDiff(index_twap', index_twap) * BPS
                         < index_twap * (params.breaker_bps + 1)
  BY DEF TwapMoveBounded
<1> DEFINE dt == since(index_last_ts, params.index_window_secs)
           t == ema_step(index_twap, price, dt, params.index_window_secs)
           a == AbsDiff(price, index_twap)
           q == (a * BPS) \div index_twap
<1>1. TypeOK /\ price \in U64Range /\ index_twap \in U64Range
  BY InputAssumption DEF IInv, TypeOK
<1>2. ~breaker_trips(price) /\ ~frozen /\ ~frozen' /\ index_twap' = t
  BY DEF push_index
<1>3. /\ price \in Nat /\ index_twap \in Nat \ {0} /\ BPS \in Nat \ {0}
      /\ params.breaker_bps \in Nat /\ params.index_window_secs \in Nat /\ now \in Nat
      /\ index_last_ts \in Nat
  BY <1>1, StateNat, Range64, ScaleAssumption DEF TypeOK, MarketParams
<1>4. dt \in Int
  BY <1>3 DEF since, Max2
<1> HIDE DEF dt
<1>5. /\ t \in Nat
      /\ index_twap <= price => index_twap <= t /\ t <= price
      /\ price <= index_twap => price <= t /\ t <= index_twap
  BY <1>1, <1>3, <1>4, EmaType, EmaBetween
<1> HIDE DEF t
<1>6. AbsDiff(t, index_twap) \in Nat /\ a \in Nat /\ AbsDiff(t, index_twap) <= a
  BY <1>3, <1>5 DEF AbsDiff
<1> HIDE DEF a
<1>7. AbsDiff(t, index_twap) * BPS <= a * BPS /\ a * BPS \in Nat
  BY <1>3, <1>6
<1>8. q \in Nat /\ a * BPS < index_twap * q + index_twap
  BY <1>3, <1>7, DivBound
<1>9. q <= params.breaker_bps
  BY <1>2, <1>3, <1>8 DEF breaker_trips, a
<1> HIDE DEF q
<1>10. index_twap * q + index_twap <= index_twap * (params.breaker_bps + 1)
  <2>1. index_twap * (q + 1) <= index_twap * (params.breaker_bps + 1)
    BY <1>3, <1>8, <1>9
  <2>2. index_twap * (q + 1) = index_twap * q + index_twap
    BY <1>3, <1>8
  <2> QED
    BY <2>1, <2>2
<1>11. index_twap * (params.breaker_bps + 1) \in Nat /\ index_twap * q + index_twap \in Nat
       /\ AbsDiff(t, index_twap) * BPS \in Nat
  BY <1>3, <1>6, <1>8
<1> QED
  BY <1>2, <1>7, <1>8, <1>10, <1>11

\* One push moves an existing TWAP by at most the breaker's share of it.
THEOREM BreakerBoundsTwap == Spec => TwapWithinBreaker
<1>1. IInv /\ [Next]_vars => [TwapMoveBounded]_vars
  <2> SUFFICES ASSUME IInv, Next PROVE TwapMoveBounded
    BY DEF vars
  <2>1. CASE \E p \in IndexPrices : push_index(p)
    BY <2>1, PushWithinBreaker
  <2>2. CASE ~ \E p \in IndexPrices : push_index(p)
    BY <2>2, TwapFrame DEF indexVars, TwapMoveBounded
  <2> QED
    BY <2>1, <2>2
<1> QED
  BY <1>1, Invariance, PTL DEF Spec, TwapWithinBreaker

-----------------------------------------------------------------------------
\* A frozen market takes no trade, push, crank, swap, short or settlement: what
\* still runs is funding the insurance, fee withdrawals, collateral top-ups,
\* plain transfers and the admin.
THEOREM FreezeHolds == Spec => FrozenHoldsPrices
<1>1. IInv /\ [Next]_vars => [FrozenHolds]_vars
  <2> SUFFICES ASSUME IInv, Next, frozen, frozen'
               PROVE  /\ UNCHANGED <<status, indexVars, markVars, curveVars, ammVars,
                                     fundingVars, total_debt_scaled, escrow_item>>
                      /\ insurance_lamports' >= insurance_lamports
                      /\ total_collateral' >= total_collateral
    BY DEF vars, FrozenHolds
  <2>1. status # "None" /\ insurance_lamports \in Nat /\ total_collateral \in Nat
        /\ \A n \in LamportAmounts : n \in Nat
    BY StateNat, InputNat DEF IInv, Untouched
  <2>2. CASE CreateNext \/ TradeNext
    BY <2>1, <2>2 DEF CreateNext, create_market, create_external_market, TradeNext, curve_buy,
                      curve_sell, graduate, amm_buy, amm_sell
  <2>3. CASE FundNext
    BY <2>1, <2>3 DEF FundNext, fund_insurance, withdraw_fees, withdraw_creator_fees, tradeFrame,
                      configVars, shortVars, itemVars
  <2>4. CASE OracleNext
    <3>1. ~ (\E p \in IndexPrices : push_index(p)) /\ ~ (\E p \in MarkPrices : push_mark(p))
      BY DEF push_index, push_mark
    <3>2. UNCHANGED <<oracleFrame, indexVars, markVars>>
      BY <2>4, <3>1 DEF OracleNext, set_frozen, update_market_params
    <3> QED
      BY <2>1, <3>2 DEF oracleFrame, shortVars, itemVars
  <2>5. CASE ShortNext
    BY <2>1, <2>5 DEF ShortNext, open_short, add_collateral, withdraw_collateral, liquidate,
                      close_position, accrue_funding, crank_due, shortFrame, configVars, itemVars
  <2>6. CASE ItemNext
    BY <2>1, <2>6 DEF ItemNext, register_item, deposit_item, withdraw_item, spl_transfer,
                      itemFrame, configVars, shortVars, itemVars
  <2>7. CASE Tick
    BY <2>1, <2>7 DEF Tick, configVars, shortVars, itemVars
  <2> QED
    BY <2>2, <2>3, <2>4, <2>5, <2>6, <2>7 DEF Next
<1> QED
  BY <1>1, Invariance, PTL DEF Spec, FrozenHoldsPrices

-----------------------------------------------------------------------------
\* What graduation computes: the raise split in two, and the AMM's tokens as the
\* rounded quotient, which no u64 cast wraps.
LEMMA GraduationSeed ==
    ASSUME IInv, graduate
    PROVE  /\ amm_sol_reserve' \in Nat /\ amm_token_reserve' \in Nat
           /\ amm_sol_reserve' + insurance_lamports' = curve_sol_raised
           /\ insurance_lamports' \in Nat
           /\ amm_token_reserve'
                = (amm_sol_reserve' * curve_virtual_tokens) \div curve_virtual_sol
           /\ \E burned \in Nat : pool_token' = pool_token - burned
<1> DEFINE insurance == mul_bps(curve_sol_raised, params.insurance_share_bps)
           sol == curve_sol_raised - insurance
           q == (sol * curve_virtual_tokens) \div curve_virtual_sol
<1>1. /\ status = "Bootstrap" /\ insurance <= curve_sol_raised
      /\ insurance_lamports' = insurance /\ amm_sol_reserve' = sol
      /\ amm_token_reserve' = U64(q)
      /\ pool_token' = pool_token - unsold_excess(U64(q))
  BY DEF graduate, seed_tokens
<1>2. TypeOK
  BY DEF IInv
<1>3. insurance \in Nat
  BY <1>2, StateNat, ParamNat, FeeType
<1> HIDE DEF insurance
<1>4. sol \in Nat /\ sol <= curve_sol_raised /\ sol + insurance = curve_sol_raised
  BY <1>1, <1>2, <1>3, StateNat
<1> HIDE DEF sol
<1>5. /\ curve_virtual_sol \in Nat \ {0} /\ curve_virtual_tokens \in Nat
      /\ curve_virtual_tokens <= MAX_U64 /\ sol <= curve_virtual_sol
  BY <1>1, <1>2, <1>4, StateNat, ParamNat, Range64 DEF IInv, CurveBooks, TypeOK
<1>6. /\ sol * curve_virtual_tokens \in Nat /\ curve_virtual_sol * 0 <= sol * curve_virtual_tokens
      /\ sol * curve_virtual_tokens <= curve_virtual_sol * curve_virtual_tokens
  BY <1>4, <1>5
<1>7. q \in Nat /\ q <= curve_virtual_tokens
  BY <1>5, <1>6, DivBetween
<1> HIDE DEF q
<1>8. U64(q) = q
  <2>1. q <= MAX_U64
    BY <1>5, <1>7, Range64
  <2> QED
    BY <1>7, <2>1, U64Bound
<1>9. unsold_excess(q) \in Nat
  BY <1>2, <1>7, StateNat DEF unsold_excess, Max2
<1> QED
  BY <1>1, <1>3, <1>4, <1>7, <1>8, <1>9 DEF q

\* Graduation leaves the whole raise with the AMM and the insurance fund and no
\* lamport from elsewhere, and opens the AMM within one token of the curve's
\* closing price. It says nothing of insurance funded before a graduation.
THEOREM GraduationPrice == Spec => GraduationKeepsPrice
<1>1. IInv /\ [Next]_vars => [SeededAtPrice]_vars
  <2> SUFFICES ASSUME IInv, Next, status = "Bootstrap", status' = "Live"
               PROVE  /\ amm_sol_reserve' <= curve_sol_raised
                      /\ curve_sol_raised <= amm_sol_reserve' + insurance_lamports'
                      /\ amm_sol_reserve' + insurance_lamports'
                           <= curve_sol_raised + insurance_lamports
                      /\ amm_token_reserve' * curve_virtual_sol
                           <= amm_sol_reserve' * curve_virtual_tokens
                      /\ amm_sol_reserve' * curve_virtual_tokens
                           < (amm_token_reserve' + 1) * curve_virtual_sol
    BY DEF vars, SeededAtPrice
  <2>1. graduate
    <3>1. ~CreateNext
      BY DEF CreateNext, create_market, create_external_market
    <3>2. ASSUME ~graduate PROVE ~TradeNext
      BY <3>2 DEF TradeNext, curve_buy, curve_sell, amm_buy, amm_sell, tradeFrame, configVars
    <3>3. ~FundNext
      BY DEF FundNext, fund_insurance, withdraw_fees, withdraw_creator_fees, tradeFrame, configVars
    <3>4. ~OracleNext
      BY DEF OracleNext, push_index, push_mark, set_frozen, update_market_params, oracleFrame
    <3>5. ~ShortNext
      BY DEF ShortNext, open_short, add_collateral, withdraw_collateral, liquidate,
             close_position, accrue_funding, shortFrame, configVars
    <3>6. ~ItemNext /\ ~Tick
      BY DEF ItemNext, register_item, deposit_item, withdraw_item, spl_transfer, itemFrame,
             configVars, Tick
    <3> QED
      BY <3>1, <3>2, <3>3, <3>4, <3>5, <3>6 DEF Next
  <2> DEFINE n == amm_sol_reserve' * curve_virtual_tokens
  <2>2. /\ amm_sol_reserve' \in Nat /\ amm_token_reserve' \in Nat
        /\ amm_sol_reserve' + insurance_lamports' = curve_sol_raised
        /\ amm_token_reserve' = n \div curve_virtual_sol
    BY <2>1, GraduationSeed
  <2>3. curve_virtual_sol \in Nat \ {0} /\ curve_virtual_tokens \in Nat
    BY StateNat DEF IInv, CurveBooks
  <2>4. n \in Nat
    <3>1. \A a, b \in Nat : a * b \in Nat
      OBVIOUS
    <3> QED
      BY <2>2, <2>3, <3>1
  <2> HIDE DEF n
  <2>5. /\ curve_virtual_sol * amm_token_reserve' <= n
        /\ n < curve_virtual_sol * amm_token_reserve' + curve_virtual_sol
    BY <2>2, <2>3, <2>4, DivBound
  <2>6. \A s, t \in Nat : s * t = t * s /\ s * t + s = (t + 1) * s
    OBVIOUS
  <2>7. /\ amm_sol_reserve' <= curve_sol_raised
        /\ curve_sol_raised <= amm_sol_reserve' + insurance_lamports'
        /\ amm_sol_reserve' + insurance_lamports' <= curve_sol_raised + insurance_lamports
    <3>1. insurance_lamports \in Nat /\ insurance_lamports' \in Nat
      BY <2>1, GraduationSeed, StateNat DEF IInv
    <3> QED
      BY <2>2, <3>1
  <2> QED
    BY <2>2, <2>3, <2>5, <2>6, <2>7 DEF n
<1> QED
  BY <1>1, Invariance, PTL DEF Spec, GraduationKeepsPrice

-----------------------------------------------------------------------------
\* A buy pays a number of tokens out of the pool.
LEMMA BuyPaysTokens ==
    ASSUME IInv, NEW n \in Nat, curve_buy(n) \/ amm_buy(n)
    PROVE  \E out \in Nat : pool_pays(out)
<1>1. TypeOK
  BY DEF IInv
<1>2. CASE curve_buy(n)
  <2> DEFINE fee == mul_bps(n, params.curve_fee_bps)
             net_in == n - fee
  <2>1. status = "Bootstrap" /\ fee <= n
        /\ pool_pays(cp_out(curve_virtual_sol, curve_virtual_tokens, net_in))
    BY <1>2 DEF curve_buy
  <2>2. fee \in Nat
    BY <1>1, ParamNat, FeeType
  <2> HIDE DEF fee
  <2>3. net_in \in Nat /\ curve_virtual_sol \in Nat /\ curve_virtual_tokens \in Nat
        /\ curve_virtual_sol + net_in > 0
    BY <1>1, <2>1, <2>2, StateNat DEF IInv, CurveBooks
  <2> HIDE DEF net_in
  <2>4. cp_out(curve_virtual_sol, curve_virtual_tokens, net_in) \in Nat
    BY <2>3, SwapBound, Zenon
  <2> QED
    BY <2>1, <2>4
<1>3. CASE amm_buy(n)
  <2> DEFINE fee == mul_bps(n, params.amm_fee_bps)
             net_in == n - fee
  <2>1. status = "Live" /\ venue = "Internal" /\ fee <= n
        /\ pool_pays(cp_out(amm_sol_reserve, amm_token_reserve, net_in))
    BY <1>3 DEF amm_buy
  <2>2. fee \in Nat
    BY <1>1, ParamNat, FeeType
  <2> HIDE DEF fee
  <2>3. net_in \in Nat /\ amm_sol_reserve \in Nat /\ amm_token_reserve \in Nat
        /\ amm_sol_reserve + net_in > 0
    BY <1>1, <2>1, <2>2, StateNat DEF IInv, LiveBooks
  <2> HIDE DEF net_in
  <2>4. cp_out(amm_sol_reserve, amm_token_reserve, net_in) \in Nat
    BY <2>3, SwapBound, Zenon
  <2> QED
    BY <2>1, <2>4
<1> QED
  BY <1>2, <1>3

\* An item swap moves a number of tokens between the reserve and the users.
LEMMA SwapMovesTokens ==
    ASSUME IInv, NEW i \in ItemMints, deposit_item(i) \/ withdraw_item(i)
    PROVE  \E n \in Int : item_reserve' = item_reserve + n /\ circulating' = circulating - n
<1> DEFINE tokens == item_tokens(mark_ema')
           fee == mul_bps(tokens, params.curve_fee_bps)
<1>1. /\ update_venue_mark /\ mark_ema' > 0 /\ UNCHANGED <<itemFrame, registered>>
      /\ \/ /\ item_reserve' = item_reserve - (tokens - fee)
            /\ circulating' = circulating + (tokens - fee)
         \/ /\ item_reserve' = item_reserve + (tokens + fee)
            /\ circulating' = circulating - (tokens + fee)
  BY DEF deposit_item, withdraw_item, deposit_payout, withdraw_price
<1>2. TypeOK
  BY DEF IInv
<1>3. mark_ema' \in U64Range
  BY <1>1, <1>2, VenueMarkType
<1>4. tokens \in Nat
  BY <1>1, <1>2, <1>3, ItemTokensType
<1>5. fee \in Nat
  BY <1>2, <1>4, ParamNat, FeeType
<1> HIDE DEF tokens, fee
<1>6. /\ tokens - fee \in Int /\ tokens + fee \in Int
      /\ item_reserve \in Nat /\ circulating \in Nat
  BY <1>2, <1>4, <1>5, StateNat
<1>7. CASE item_reserve' = item_reserve - (tokens - fee)
           /\ circulating' = circulating + (tokens - fee)
  <2>1. /\ fee - tokens \in Int
        /\ item_reserve' = item_reserve + (fee - tokens)
        /\ circulating' = circulating - (fee - tokens)
    BY <1>4, <1>5, <1>6, <1>7
  <2> QED
    BY <2>1
<1>8. CASE item_reserve' = item_reserve + (tokens + fee)
           /\ circulating' = circulating - (tokens + fee)
  BY <1>6, <1>8
<1> QED
  BY <1>1, <1>7, <1>8

\* A step that leaves the token accounts alone keeps the supply.
LEMMA SupplyFrame ==
    ASSUME TypeOK, UNCHANGED tokenVars
    PROVE  SupplyShrinks
<1>1. Supply \in Nat
  BY StateNat DEF Supply
<1> QED
  BY <1>1 DEF SupplyShrinks, Supply, tokenVars

\* Tokens only move between the market's accounts and the users', and graduation
\* alone burns any: no order of trades, swaps and transfers mints a token.
THEOREM SupplyFixed == Spec => SupplyOnlyShrinks
<1>1. IInv /\ [Next]_vars => [SupplyShrinks]_vars
  <2> SUFFICES ASSUME IInv, Next PROVE SupplyShrinks
    BY DEF vars
  <2>1. TypeOK
    BY DEF IInv
  <2>2. /\ pool_token \in Nat /\ treasury \in Nat /\ item_reserve \in Nat /\ circulating \in Nat
        /\ pool_token' \in Nat
    BY <2>1, NextInv, StateNat, Range64 DEF IInv, TypeOK
  <2>3. CASE CreateNext
    BY <2>3 DEF CreateNext, create_market, create_external_market, SupplyShrinks
  <2>4. CASE TradeNext
    <3>1. CASE graduate
      <4>1. PICK burned \in Nat : pool_token' = pool_token - burned
        BY <3>1, GraduationSeed
      <4>2. /\ status = "Bootstrap" /\ status' = "Live"
            /\ UNCHANGED <<treasury, item_reserve, circulating>>
        BY <3>1 DEF graduate
      <4> QED
        BY <2>2, <4>1, <4>2 DEF SupplyShrinks, Supply
    <3>2. CASE ~graduate
      <4>1. PICK n \in Nat : pool_pays(n) \/ pool_takes(n)
        BY <2>4, <3>2, InputNat, BuyPaysTokens DEF TradeNext, curve_sell, amm_sell
      <4>2. UNCHANGED <<treasury, item_reserve>>
        BY <2>4, <3>2 DEF TradeNext, curve_buy, curve_sell, amm_buy, amm_sell, tradeFrame
      <4> QED
        BY <2>2, <4>1, <4>2 DEF SupplyShrinks, Supply, pool_pays, pool_takes
    <3> QED
      BY <3>1, <3>2
  <2>5. CASE FundNext \/ Tick
    <3>1. UNCHANGED tokenVars
      BY <2>5 DEF FundNext, fund_insurance, withdraw_fees, withdraw_creator_fees, tradeFrame,
                  tokenVars, Tick
    <3> QED
      BY <2>1, <3>1, SupplyFrame
  <2>6. CASE OracleNext
    <3>1. UNCHANGED tokenVars
      BY <2>6 DEF OracleNext, push_index, push_mark, set_frozen, update_market_params, oracleFrame
    <3> QED
      BY <2>1, <3>1, SupplyFrame
  <2>7. CASE ShortNext
    <3>1. UNCHANGED tokenVars
      BY <2>7 DEF ShortNext, open_short, add_collateral, withdraw_collateral, liquidate,
                  close_position, accrue_funding, shortFrame
    <3> QED
      BY <2>1, <3>1, SupplyFrame
  <2>8. CASE ItemNext
    <3>1. CASE \E i \in ItemMints : register_item(i)
      <4>1. UNCHANGED tokenVars
        BY <3>1 DEF register_item, itemFrame, tokenVars
      <4> QED
        BY <2>1, <4>1, SupplyFrame
    <3>2. CASE \E i \in ItemMints : deposit_item(i) \/ withdraw_item(i)
      <4>1. PICK n \in Int : item_reserve' = item_reserve + n /\ circulating' = circulating - n
        BY <3>2, SwapMovesTokens
      <4>2. UNCHANGED <<pool_token, treasury>>
        BY <3>2 DEF deposit_item, withdraw_item, itemFrame
      <4> QED
        BY <2>2, <4>1, <4>2 DEF SupplyShrinks, Supply
    <3>3. CASE \E t \in TransferAmounts, to_pool \in BOOLEAN : spl_transfer(t, to_pool)
      BY <2>2, <3>3, InputNat DEF spl_transfer, SupplyShrinks, Supply
    <3> QED
      BY <2>8, <3>1, <3>2, <3>3 DEF ItemNext
  <2> QED
    BY <2>3, <2>4, <2>5, <2>6, <2>7, <2>8 DEF Next
<1> QED
  BY <1>1, Invariance, PTL DEF Spec, SupplyOnlyShrinks

-----------------------------------------------------------------------------
\* The daily rate is clamped, in both directions.
LEMMA RateClamped ==
    ASSUME TypeOK, NEW mark \in Nat, index_twap > 0
    PROVE  /\ funding_rate(mark) \in Int
           /\ funding_rate(mark) <= params.max_funding_bps_per_day
           /\ -funding_rate(mark) <= params.max_funding_bps_per_day
<1> DEFINE cap == params.max_funding_bps_per_day
           premium == TruncDiv((mark - index_twap) * BPS, index_twap)
           rate == TruncDiv(premium * params.funding_k_bps, BPS)
<1>1. /\ index_twap \in Nat \ {0} /\ BPS \in Nat \ {0}
      /\ cap \in Nat /\ params.funding_k_bps \in Nat
  BY StateNat, ParamNat, ScaleAssumption
<1>2. premium \in Int
  BY <1>1, TruncType
<1> HIDE DEF premium
<1>3. rate \in Int
  BY <1>1, <1>2, TruncType
<1>4. funding_rate(mark) = Clamp(rate, -cap, cap)
  BY DEF funding_rate, rate, premium
<1> HIDE DEF rate, cap
<1>5. /\ Clamp(rate, -cap, cap) \in Int /\ Clamp(rate, -cap, cap) <= cap
      /\ -Clamp(rate, -cap, cap) <= cap
  BY <1>1, <1>3 DEF Clamp, Max2, Min2
<1> QED
  BY <1>4, <1>5 DEF cap

\* Applying a clamped rate for at most a day moves the index by at most the
\* clamped share of it.
LEMMA CrankBounded ==
    ASSUME NEW f \in Nat, NEW cap \in Nat, NEW rate \in Int, rate <= cap, -rate <= cap,
           NEW m \in 0..DAY
    PROVE  /\ TruncDiv(f * rate * m, DAY * BPS) \in Int
           /\ TruncDiv(f * rate * m, DAY * BPS) * BPS <= f * cap
           /\ -TruncDiv(f * rate * m, DAY * BPS) * BPS <= f * cap
<1> DEFINE a == f * rate * m
           t == TruncDiv(a, DAY * BPS)
           n == f * cap * DAY
<1>1. DAY \in Nat \ {0} /\ BPS \in Nat \ {0} /\ m \in Nat /\ m <= DAY
  BY ScaleAssumption
<1>2. DAY * BPS \in Nat \ {0}
  BY <1>1
<1>3. a \in Int /\ n \in Nat /\ a <= n /\ -a <= n
  <2>1. f * rate \in Int /\ f * cap \in Nat /\ f * rate <= f * cap /\ -(f * rate) <= f * cap
    <3>1. \A x, y \in Int : x <= y => f * x <= f * y
      OBVIOUS
    <3>2. f * (-rate) = -(f * rate) /\ -rate \in Int
      OBVIOUS
    <3> QED
      BY <3>1, <3>2
  <2>2. \A x \in Int : \A y \in Nat :
          x <= y /\ -x <= y => x * m <= y * DAY /\ -(x * m) <= y * DAY
    <3> SUFFICES ASSUME NEW x \in Int, NEW y \in Nat, x <= y, -x <= y
                 PROVE  x * m <= y * DAY /\ -(x * m) <= y * DAY
      OBVIOUS
    <3>1. x * m <= y * m /\ (-x) * m <= y * m /\ (-x) * m = -(x * m)
      BY <1>1
    <3>2. y * m <= y * DAY
      BY <1>1
    <3> QED
      BY <1>1, <3>1, <3>2
  <2> QED
    BY <1>1, <2>1, <2>2
<1>4. /\ t \in Int
      /\ (DAY * BPS) * t <= n /\ -((DAY * BPS) * t) <= n
  BY <1>2, <1>3, TruncType, TruncBound
<1> HIDE DEF a, t
<1>5. /\ (DAY * BPS) * t = DAY * (t * BPS) /\ n = DAY * (f * cap)
      /\ t * BPS \in Int /\ f * cap \in Nat
  BY <1>1, <1>4
<1> HIDE DEF n
<1>6. \A x \in Int : \A y \in Nat : DAY * x <= DAY * y => x <= y
  BY <1>1
<1>7. t * BPS <= f * cap
  BY <1>4, <1>5, <1>6
<1>8. -t * BPS <= f * cap
  <2>1. -(t * BPS) \in Int /\ DAY * (-(t * BPS)) = -(DAY * (t * BPS)) /\ -t * BPS = -(t * BPS)
    BY <1>1, <1>4, <1>5
  <2> QED
    BY <1>4, <1>5, <1>6, <2>1
<1> QED
  BY <1>4, <1>7, <1>8 DEF t, a

\* A crank moves the funding index by at most the clamped daily rate however
\* late it comes, whatever the mark and the index say, and never to zero.
THEOREM FundingClamped == Spec => FundingBounded
<1>1. IInv /\ [Next]_vars => [FundingMoveBounded]_vars
  <2> SUFFICES ASSUME IInv, Next, status = "Live", funding_index' # funding_index
               PROVE  /\ Max2(funding_index - funding_index', funding_index' - funding_index)
                           * BPS <= funding_index * params.max_funding_bps_per_day
                      /\ funding_index' > 0
    BY DEF vars, FundingMoveBounded
  <2>1. accrue_funding
    <3>1. ~CreateNext
      BY DEF CreateNext, create_market, create_external_market
    <3>2. ~TradeNext
      BY DEF TradeNext, curve_buy, curve_sell, graduate, amm_buy, amm_sell, tradeFrame,
             fundingVars
    <3>3. ~FundNext
      BY DEF FundNext, fund_insurance, withdraw_fees, withdraw_creator_fees, tradeFrame,
             fundingVars
    <3>4. ~OracleNext
      BY DEF OracleNext, push_index, push_mark, set_frozen, update_market_params, oracleFrame,
             fundingVars
    <3>5. ASSUME ~accrue_funding PROVE ~ShortNext
      BY <3>5 DEF ShortNext, open_short, add_collateral, withdraw_collateral, liquidate,
                  close_position, fundingVars
    <3>6. ~ItemNext /\ ~Tick
      BY DEF ItemNext, register_item, deposit_item, withdraw_item, spl_transfer, itemFrame,
             fundingVars, Tick
    <3> QED
      BY <3>1, <3>2, <3>3, <3>4, <3>5, <3>6 DEF Next
  <2> DEFINE rate == funding_rate(mark_ema')
             m == Min2(now - funding_last_ts, DAY)
             t == TruncDiv(funding_index * rate * m, DAY * BPS)
  <2>2. /\ index_twap > 0 /\ now - funding_last_ts >= params.min_crank_interval_secs
        /\ funding_index' = funding_index - t /\ funding_index' > 0
    BY <2>1 DEF accrue_funding, crank_due, require_fresh_index, next_funding_index
  <2>3. /\ funding_index \in Nat /\ now \in Nat /\ funding_last_ts \in Nat /\ mark_ema' \in Nat
        /\ params.max_funding_bps_per_day \in Nat /\ params.min_crank_interval_secs \in Nat
        /\ BPS \in Nat /\ DAY \in Nat
    BY NextInv, StateNat, ScaleAssumption, Range64 DEF IInv, TypeOK, MarketParams
  <2>4. /\ rate \in Int /\ rate <= params.max_funding_bps_per_day
        /\ -rate <= params.max_funding_bps_per_day
    BY <2>2, <2>3, RateClamped DEF IInv
  <2> HIDE DEF rate
  <2>5. m \in 0..DAY
    BY <2>2, <2>3 DEF Min2
  <2> HIDE DEF m
  <2>6. t \in Int /\ t * BPS <= funding_index * params.max_funding_bps_per_day
        /\ -t * BPS <= funding_index * params.max_funding_bps_per_day
    BY <2>3, <2>4, <2>5, CrankBounded
  <2> HIDE DEF t
  <2>7. Max2(funding_index - funding_index', funding_index' - funding_index) = Max2(t, -t)
    BY <2>2, <2>3, <2>6 DEF Max2
  <2>8. (-t) * BPS = -(t * BPS)
    BY <2>3, <2>6
  <2>9. Max2(t, -t) = t \/ Max2(t, -t) = -t
    BY DEF Max2
  <2> QED
    BY <2>2, <2>6, <2>7, <2>8, <2>9
<1> QED
  BY <1>1, Invariance, PTL DEF Spec, FundingBounded

-----------------------------------------------------------------------------
\* An update of the mark stays between the old mark and the price it is given,
\* whether it adopts the price, decays toward it or skips the update.
LEMMA MarkBetween ==
    ASSUME TypeOK, NEW spot \in U64Range, update_mark(spot)
    PROVE  Between(mark_ema', mark_ema, spot)
<1>1. mark_ema \in U64Range /\ mark_ema \in Nat /\ spot \in Nat
      /\ now - mark_last_ts \in Int /\ params.mark_window_secs \in Nat
  BY StateNat, ParamNat, Range64 DEF TypeOK
<1>2. CASE spot # 0 /\ now > mark_last_ts
  <2> DEFINE e == ema_step(mark_ema, spot, now - mark_last_ts, params.mark_window_secs)
  <2>1. mark_ema' = e
    BY <1>2 DEF update_mark
  <2>2. /\ mark_ema <= spot => mark_ema <= e /\ e <= spot
        /\ spot <= mark_ema => spot <= e /\ e <= mark_ema
    BY <1>1, EmaBetween
  <2> HIDE DEF e
  <2> QED
    BY <1>1, <2>1, <2>2 DEF Between
<1>3. CASE ~(spot # 0 /\ now > mark_last_ts)
  BY <1>1, <1>3 DEF update_mark, markVars, Between
<1> QED
  BY <1>2, <1>3

\* The instructions that take an EMA step toward the venue's price; every other
\* one leaves the mark of a Live internal market alone.
MarkStep ==
    \/ accrue_funding
    \/ \E n \in SolAmounts : amm_buy(n)
    \/ \E n \in TokenAmounts : amm_sell(n)
    \/ \E i \in ItemMints : deposit_item(i) \/ withdraw_item(i)

\* Nothing else touches the mark.
LEMMA MarkFrame ==
    ASSUME Next, ~MarkStep, status = "Live", venue = "Internal"
    PROVE  UNCHANGED markVars
<1>1. ~CreateNext
  BY DEF CreateNext, create_market, create_external_market
<1>2. ~TradeNext
  BY DEF TradeNext, curve_buy, curve_sell, graduate, MarkStep
<1>3. CASE FundNext \/ Tick
  BY <1>3 DEF FundNext, fund_insurance, withdraw_fees, withdraw_creator_fees, Tick
<1>4. CASE OracleNext
  BY <1>4 DEF OracleNext, push_index, push_mark, set_frozen, update_market_params
<1>5. CASE ShortNext
  BY <1>5 DEF ShortNext, open_short, add_collateral, withdraw_collateral, liquidate,
              close_position, MarkStep
<1>6. CASE ItemNext
  BY <1>6 DEF ItemNext, register_item, spl_transfer, MarkStep
<1> QED
  BY <1>1, <1>2, <1>3, <1>4, <1>5, <1>6 DEF Next

\* The mark of a Live internal market only moves toward the AMM's price, and
\* never past it, whoever triggers the update and however late.
THEOREM MarkStaysBehind == Spec => MarkNeverOvershoots
<1>1. IInv /\ [Next]_vars => [MarkMovesToPrice]_vars
  <2> DEFINE price == spot_per_nft(amm_sol_reserve', amm_token_reserve')
  <2> SUFFICES ASSUME IInv, Next, status = "Live", venue = "Internal"
               PROVE  Between(mark_ema', mark_ema, price)
    BY DEF vars, MarkMovesToPrice, venue_price
  <2>1. TypeOK
    BY DEF IInv
  <2>2. amm_sol_reserve' \in Nat /\ amm_token_reserve' \in Nat /\ mark_ema \in Nat
    BY <2>1, NextInv, Range64 DEF IInv, TypeOK
  <2>3. price \in U64Range /\ price \in Nat
    BY <2>2, SpotType
  <2>4. CASE MarkStep
    <3>1. CASE \E n \in SolAmounts : amm_buy(n)
      BY <2>1, <2>3, <3>1, MarkBetween DEF amm_buy
    <3>2. CASE \E n \in TokenAmounts : amm_sell(n)
      BY <2>1, <2>3, <3>2, MarkBetween DEF amm_sell
    <3>3. CASE accrue_funding
      <4>1. update_mark(amm_spot_per_nft) /\ UNCHANGED ammVars
        BY <3>3 DEF accrue_funding, shortFrame
      <4>2. price = amm_spot_per_nft
        BY <4>1 DEF amm_spot_per_nft, ammVars
      <4> QED
        BY <2>1, <2>3, <4>1, <4>2, MarkBetween
    <3>4. CASE \E i \in ItemMints : deposit_item(i) \/ withdraw_item(i)
      <4>1. update_mark(amm_spot_per_nft) /\ UNCHANGED ammVars
        BY <3>4 DEF deposit_item, withdraw_item, update_venue_mark, itemFrame
      <4>2. price = amm_spot_per_nft
        BY <4>1 DEF amm_spot_per_nft, ammVars
      <4> QED
        BY <2>1, <2>3, <4>1, <4>2, MarkBetween
    <3> QED
      BY <2>4, <3>1, <3>2, <3>3, <3>4 DEF MarkStep
  <2>5. CASE ~MarkStep
    <3>1. mark_ema' = mark_ema
      BY <2>5, MarkFrame DEF markVars
    <3> HIDE DEF price
    <3> QED
      BY <2>2, <2>3, <3>1 DEF Between
  <2> QED
    BY <2>4, <2>5
<1> QED
  BY <1>1, Invariance, PTL DEF Spec, MarkNeverOvershoots

-----------------------------------------------------------------------------
\* Once the market is Live only a settlement lowers the insurance fund.
LEMMA FundFrame ==
    ASSUME IInv, Next, status = "Live", insurance_lamports' < insurance_lamports
    PROVE  \E o \in Owners : close_position(o)
<1>1. /\ TypeOK /\ insurance_lamports \in Nat
      /\ \A n \in LamportAmounts : n \in Nat
      /\ \A o \in Owners : loss_of(o) \in Nat
  BY StateNat, InputNat, ValuationNat DEF IInv
<1>2. ~CreateNext
  BY DEF CreateNext, create_market, create_external_market
<1>3. ~TradeNext
  BY <1>1 DEF TradeNext, curve_buy, curve_sell, graduate, amm_buy, amm_sell
<1>4. ~FundNext /\ ~Tick
  BY <1>1 DEF FundNext, fund_insurance, withdraw_fees, withdraw_creator_fees, tradeFrame, Tick
<1>5. ~OracleNext
  BY <1>1 DEF OracleNext, push_index, push_mark, set_frozen, update_market_params, oracleFrame
<1>6. CASE ShortNext
  <2>1. \A o \in Owners : ~liquidate(o)
    BY <1>1 DEF liquidate
  <2> QED
    BY <1>1, <1>6, <2>1 DEF ShortNext, open_short, add_collateral, withdraw_collateral,
                            accrue_funding
<1>7. ~ItemNext
  BY <1>1 DEF ItemNext, register_item, deposit_item, withdraw_item, spl_transfer, itemFrame
<1> QED
  BY <1>2, <1>3, <1>4, <1>5, <1>6, <1>7 DEF Next

\* Once Live, the insurance fund only ever pays the profit of a short that is
\* closing, in full to its owner, on top of the collateral; no liquidation, crank,
\* trade or admin step takes from it.
THEOREM FundPaysOnlyProfit == Spec => InsuranceOnlyPaysShorts
<1>1. IInv /\ [Next]_vars => [FundPaysProfit]_vars
  <2> SUFFICES ASSUME IInv, Next, status = "Live", insurance_lamports' < insurance_lamports
               PROVE  \E o \in Owners :
                        /\ position[o].open /\ ~position'[o].open
                        /\ wallet' - wallet = position[o].collateral
                             + (insurance_lamports - insurance_lamports')
    BY DEF vars, FundPaysProfit
  <2>1. PICK o \in Owners : close_position(o)
    BY FundFrame
  <2> DEFINE c == position[o].collateral
             loss == loss_of(o)
             profit == settled_profit(o)
             paid == owner_payout(o)
  <2>2. /\ position[o].open /\ c <= total_collateral
        /\ insurance_lamports' = insurance_lamports - profit + loss
        /\ position' = [position EXCEPT ![o] = NoPosition]
        /\ wallet' = wallet + paid
    BY <2>1 DEF close_position, release_totals, transfer_out
  <2>3. TypeOK
    BY DEF IInv
  <2>4. /\ c \in Nat /\ loss \in Nat /\ insurance_lamports \in Nat /\ wallet \in Nat
        /\ position[o].entry_notional \in Nat /\ notional_of(o) \in Nat
    BY <2>3, ValuationNat, PositionNat, StateNat
  <2>5. profit \in Nat /\ profit <= insurance_lamports
    BY <2>4 DEF settled_profit, saturating_sub, Min2, Max2
  <2>6. loss < profit
    BY <2>2, <2>4, <2>5
  <2>7. loss = 0
    <3>1. position[o].entry_notional > notional_of(o)
      BY <2>4, <2>6 DEF settled_profit, saturating_sub, Min2, Max2
    <3> QED
      BY <2>4, <3>1 DEF loss_of, saturating_sub, Min2, Max2
  <2>8. c + profit <= MAX_U64
    <3>1. /\ vault + wallet = TotalLamports /\ vault >= RentBuffer + Claims
          /\ Claims = venue_sol + insurance_lamports + fee_lamports
                        + creator_fee_lamports + total_collateral
      BY LamportFacts
    <3>2. /\ c <= total_collateral
          /\ profit \in Nat /\ profit <= insurance_lamports /\ c \in Nat
      BY <2>2, <2>4, <2>5
    <3>3. /\ venue_sol \in Nat /\ fee_lamports \in Nat /\ creator_fee_lamports \in Nat
          /\ total_collateral \in Nat /\ insurance_lamports \in Nat
          /\ vault \in Nat /\ wallet \in Nat /\ RentBuffer \in Nat
          /\ TotalLamports \in Nat /\ TotalLamports <= MAX_U64
      BY <2>3, StateNat, ClaimsNat, MarketNat
    <3> HIDE DEF c, profit
    <3> QED
      BY <3>1, <3>2, <3>3, Range64
  <2>9. paid = c + profit
    <3>1. paid = Min2(c + profit, MAX_U64) - loss
      BY DEF owner_payout
    <3> HIDE DEF c, profit, loss, paid
    <3> QED
      BY <2>4, <2>5, <2>7, <2>8, <3>1, Range64 DEF Min2
  <2>10. ~position'[o].open
    BY <2>2, <2>3 DEF NoPosition, TypeOK
  <2>11. wallet' - wallet = c + (insurance_lamports - insurance_lamports')
    <3> HIDE DEF c, profit, loss, paid
    <3> QED
      BY <2>2, <2>4, <2>5, <2>7, <2>9
  <2> QED
    BY <2>2, <2>10, <2>11
<1> QED
  BY <1>1, Invariance, PTL DEF Spec, InsuranceOnlyPaysShorts

-----------------------------------------------------------------------------
\* The debt and the collateral of every position.
debts == [o \in Owners |-> position[o].debt_scaled]
collaterals == [o \in Owners |-> position[o].collateral]

\* Both are families of naturals over a finite set of owners.
LEMMA FamilyType ==
    ASSUME TypeOK
    PROVE  /\ IsFiniteSet(Owners)
           /\ debts \in [Owners -> Nat] /\ collaterals \in [Owners -> Nat]
  BY MarketAssumption, PositionNat DEF debts, collaterals

\* A step that writes one position and moves both totals by what it changed
\* there keeps the totals equal to the sums.
LEMMA TotalsFollow ==
    ASSUME TypeOK, TypeOK', BooksMatchPositions, NEW o \in Owners,
           \A p \in Owners : p # o => position'[p] = position[p],
           total_debt_scaled' =
             total_debt_scaled - position[o].debt_scaled + position'[o].debt_scaled,
           total_collateral' =
             total_collateral - position[o].collateral + position'[o].collateral
    PROVE  BooksMatchPositions'
<1>1. /\ debts \in [Owners -> Nat] /\ collaterals \in [Owners -> Nat]
      /\ debts' \in [Owners -> Nat] /\ collaterals' \in [Owners -> Nat]
      /\ IsFiniteSet(Owners)
  <2>1. debts' \in [Owners -> Nat] /\ collaterals' \in [Owners -> Nat]
    BY Range64 DEF TypeOK, debts, collaterals
  <2> QED
    BY <2>1, FamilyType
<1>2. \A p \in Owners : p # o => debts'[p] = debts[p] /\ collaterals'[p] = collaterals[p]
  BY DEF debts, collaterals
<1>3. SumFunction(debts') = SumFunction(debts) - debts[o] + debts'[o]
  <2> HIDE DEF debts
  <2> QED
    BY <1>1, <1>2, FamilyUpdate
<1>4. SumFunction(collaterals') = SumFunction(collaterals) - collaterals[o] + collaterals'[o]
  BY <1>1, <1>2, FamilyUpdate
<1>5. /\ debts[o] = position[o].debt_scaled /\ debts'[o] = position'[o].debt_scaled
      /\ collaterals[o] = position[o].collateral /\ collaterals'[o] = position'[o].collateral
  BY DEF debts, collaterals
<1>6. total_debt_scaled = SumFunction(debts) /\ total_collateral = SumFunction(collaterals)
  BY DEF BooksMatchPositions, debts, collaterals
<1>7. total_debt_scaled' = SumFunction(debts') /\ total_collateral' = SumFunction(collaterals')
  BY <1>3, <1>4, <1>5, <1>6
<1> QED
  BY <1>7 DEF BooksMatchPositions, debts, collaterals

\* No position is larger than the totals it is part of.
LEMMA PositionInTotals ==
    ASSUME TypeOK, BooksMatchPositions, NEW o \in Owners
    PROVE  /\ position[o].debt_scaled <= total_debt_scaled
           /\ position[o].collateral <= total_collateral
<1>1. /\ debts \in [Owners -> Nat] /\ collaterals \in [Owners -> Nat] /\ IsFiniteSet(Owners)
  BY FamilyType
<1>2. debts[o] <= SumFunction(debts) /\ collaterals[o] <= SumFunction(collaterals)
  BY <1>1, FamilySum
<1>3. debts[o] = position[o].debt_scaled /\ collaterals[o] = position[o].collateral
  BY DEF debts, collaterals
<1>4. total_debt_scaled = SumFunction(debts) /\ total_collateral = SumFunction(collaterals)
  BY DEF BooksMatchPositions, debts, collaterals
<1> QED
  BY <1>2, <1>3, <1>4

\* A step that writes no position and moves no total.
LEMMA TotalsFrame ==
    ASSUME BooksMatchPositions, UNCHANGED shortVars
    PROVE  BooksMatchPositions'
  BY DEF BooksMatchPositions, shortVars

\* Only the instructions of a short touch the positions or the totals.
LEMMA ShortFrame ==
    ASSUME IInv, Next, ~ShortNext
    PROVE  UNCHANGED shortVars
<1>1. CASE CreateNext
  BY <1>1 DEF CreateNext, create_market, create_external_market, shortVars
<1>2. CASE TradeNext
  BY <1>2 DEF TradeNext, curve_buy, curve_sell, graduate, amm_buy, amm_sell, tradeFrame, shortVars
<1>3. CASE FundNext
  BY <1>3 DEF FundNext, fund_insurance, withdraw_fees, withdraw_creator_fees, tradeFrame, shortVars
<1>4. CASE OracleNext
  BY <1>4 DEF OracleNext, push_index, push_mark, set_frozen, update_market_params, oracleFrame,
              shortVars
<1>5. CASE ItemNext \/ Tick
  BY <1>5 DEF ItemNext, register_item, deposit_item, withdraw_item, spl_transfer, itemFrame,
              Tick, shortVars
<1> QED
  BY <1>1, <1>2, <1>3, <1>4, <1>5 DEF Next

\* A short that ends takes exactly its own share out of both totals: the
\* saturating subtraction never saturates.
LEMMA ReleaseExact ==
    ASSUME TypeOK, TypeOK', BooksMatchPositions, NEW o \in Owners, release_totals(o),
           NEW q, q.debt_scaled = 0, q.collateral = 0,
           position' = [position EXCEPT ![o] = q]
    PROVE  BooksMatchPositions'
<1>1. /\ position[o].debt_scaled <= total_debt_scaled
      /\ position[o].debt_scaled \in Nat /\ position[o].collateral \in Nat
      /\ total_debt_scaled \in Nat /\ total_collateral \in Nat
  BY PositionInTotals, PositionNat, StateNat
<1>2. /\ total_debt_scaled' = total_debt_scaled - position[o].debt_scaled
      /\ total_collateral' = total_collateral - position[o].collateral
  BY <1>1 DEF release_totals, saturating_sub, Max2
<1>3. position'[o].debt_scaled = 0 /\ position'[o].collateral = 0
      /\ \A p \in Owners : p # o => position'[p] = position[p]
  BY DEF TypeOK
<1>4. /\ total_debt_scaled' =
           total_debt_scaled - position[o].debt_scaled + position'[o].debt_scaled
      /\ total_collateral' =
           total_collateral - position[o].collateral + position'[o].collateral
  BY <1>1, <1>2, <1>3
<1> QED
  BY <1>3, <1>4, TotalsFollow

\* The totals of the market are the sums of the positions after every sequence
\* of openings, top-ups, withdrawals, liquidations and closes.
THEOREM BooksAreSums == Spec => []BooksMatchPositions
<1>1. Init => BooksMatchPositions
  <2> SUFFICES ASSUME Init PROVE BooksMatchPositions
    OBVIOUS
  <2>1. /\ debts \in [Owners -> Nat] /\ \A o \in Owners : debts[o] = 0
        /\ collaterals \in [Owners -> Nat] /\ \A o \in Owners : collaterals[o] = 0
        /\ IsFiniteSet(Owners)
    BY MarketAssumption DEF Init, NoPosition, debts, collaterals
  <2>2. SumFunction(debts) = 0 /\ SumFunction(collaterals) = 0
    BY <2>1, FamilyZero
  <2> QED
    BY <2>2 DEF Init, BooksMatchPositions, debts, collaterals
<1>2. IInv /\ BooksMatchPositions /\ [Next]_vars => BooksMatchPositions'
  <2> SUFFICES ASSUME IInv, BooksMatchPositions, [Next]_vars PROVE BooksMatchPositions'
    OBVIOUS
  <2>1. TypeOK /\ TypeOK'
    BY NextInv DEF IInv
  <2>2. CASE UNCHANGED vars
    BY <2>2, TotalsFrame DEF vars
  <2>3. CASE Next /\ ~ShortNext
    BY <2>3, ShortFrame, TotalsFrame
  <2>4. ASSUME NEW o \in Owners, NEW a \in LamportAmounts, NEW t \in TokenAmounts,
               open_short(o, a, t)
        PROVE  BooksMatchPositions'
    <3> DEFINE scaled == scaled_from_debt(t, funding_index)
    <3>1. /\ \A p \in Owners : p # o => position'[p] = position[p]
          /\ position'[o].debt_scaled = position[o].debt_scaled + scaled
          /\ position'[o].collateral = position[o].collateral + a
          /\ total_debt_scaled' = total_debt_scaled + scaled
          /\ total_collateral' = total_collateral + a
      BY <2>1, <2>4 DEF open_short, TypeOK
    <3>2. /\ position[o].debt_scaled \in Nat /\ position[o].collateral \in Nat
          /\ total_debt_scaled \in Nat /\ total_collateral \in Nat /\ a \in Nat
      BY <2>1, PositionNat, StateNat, InputNat
    <3>3. scaled \in Int
      <4>1. t \in Nat /\ FUNDING_ONE \in Nat /\ funding_index \in Nat \ {0}
        BY <2>1, <2>4, StateNat, InputNat, ScaleAssumption DEF open_short, IInv, LiveBooks
      <4> QED
        BY <4>1, ScaledType
    <3> HIDE DEF scaled
    <3>4. /\ total_debt_scaled' =
               total_debt_scaled - position[o].debt_scaled + position'[o].debt_scaled
          /\ total_collateral' =
               total_collateral - position[o].collateral + position'[o].collateral
      BY <3>1, <3>2, <3>3
    <3> QED
      BY <2>1, <3>1, <3>4, TotalsFollow
  <2>5. ASSUME NEW o \in Owners, NEW a \in LamportAmounts,
               add_collateral(o, a) \/ withdraw_collateral(o, a)
        PROVE  BooksMatchPositions'
    <3>1. PICK n \in Int : /\ position' = [position EXCEPT ![o].collateral = @ + n]
                           /\ total_collateral' = total_collateral + n
                           /\ total_debt_scaled' = total_debt_scaled
      <4>1. a \in Int /\ -a \in Int
        BY InputNat
      <4>2. CASE add_collateral(o, a)
        BY <4>1, <4>2 DEF add_collateral
      <4>3. CASE withdraw_collateral(o, a)
        <5>1. /\ position[o].collateral - a = position[o].collateral + (-a)
              /\ total_collateral - a = total_collateral + (-a)
          BY <2>1, <4>1, PositionNat, StateNat
        <5> QED
          BY <4>1, <4>3, <5>1 DEF withdraw_collateral
      <4> QED
        BY <2>5, <4>2, <4>3
    <3>2. /\ \A p \in Owners : p # o => position'[p] = position[p]
          /\ position'[o].debt_scaled = position[o].debt_scaled
          /\ position'[o].collateral = position[o].collateral + n
      BY <2>1, <3>1 DEF TypeOK
    <3>3. /\ position[o].debt_scaled \in Nat /\ position[o].collateral \in Nat
          /\ total_debt_scaled \in Nat /\ total_collateral \in Nat
      BY <2>1, PositionNat, StateNat
    <3>4. /\ total_debt_scaled' =
               total_debt_scaled - position[o].debt_scaled + position'[o].debt_scaled
          /\ total_collateral' =
               total_collateral - position[o].collateral + position'[o].collateral
      BY <3>1, <3>2, <3>3
    <3> QED
      BY <2>1, <3>2, <3>4, TotalsFollow
  <2>6. ASSUME NEW o \in Owners, liquidate(o)
        PROVE  BooksMatchPositions'
    <3>1. /\ release_totals(o)
          /\ position' = [position EXCEPT ![o] = [NoPosition EXCEPT !.open = TRUE]]
      BY <2>6 DEF liquidate
    <3>2. /\ [NoPosition EXCEPT !.open = TRUE].debt_scaled = 0
          /\ [NoPosition EXCEPT !.open = TRUE].collateral = 0
      BY DEF NoPosition
    <3> QED
      BY <2>1, <3>1, <3>2, ReleaseExact
  <2>7. ASSUME NEW o \in Owners, close_position(o)
        PROVE  BooksMatchPositions'
    <3>1. release_totals(o) /\ position' = [position EXCEPT ![o] = NoPosition]
      BY <2>7 DEF close_position
    <3>2. NoPosition.debt_scaled = 0 /\ NoPosition.collateral = 0
      BY DEF NoPosition
    <3> QED
      BY <2>1, <3>1, <3>2, ReleaseExact
  <2>8. CASE accrue_funding
    BY <2>8, TotalsFrame DEF accrue_funding
  <2> QED
    BY <2>2, <2>3, <2>4, <2>5, <2>6, <2>7, <2>8 DEF ShortNext
<1> QED
  BY <1>1, <1>2, Invariance, PTL DEF Spec

-----------------------------------------------------------------------------
\* The vault can pay amount out and keep its rent.
payable(amount) == amount \in Nat /\ amount <= vault /\ vault - amount >= RentBuffer

\* Every check a settlement makes of the books and of the vault passes, for
\* each open position: this is PositionsSettle without ENABLED.
SettlementsPayable ==
    \A o \in Owners : position[o].open =>
        /\ position[o].collateral <= total_collateral
        /\ payable(owner_payout(o))
        /\ payable(liquidation_split(o).bonus + liquidation_split(o).owner_refund)

\* No open position is ever stuck: its share never exceeds the totals, and what
\* a close or a liquidation pays always leaves the vault its rent, however
\* little the insurance fund or the fees hold.
THEOREM SettlementPays == Spec => []SettlementsPayable
<1>1. IInv /\ BooksMatchPositions => SettlementsPayable
  <2> SUFFICES ASSUME IInv, BooksMatchPositions, NEW o \in Owners, position[o].open
               PROVE  /\ position[o].collateral <= total_collateral
                      /\ payable(owner_payout(o))
                      /\ payable(liquidation_split(o).bonus + liquidation_split(o).owner_refund)
    BY DEF SettlementsPayable
  <2> DEFINE c == position[o].collateral
             loss == loss_of(o)
             profit == settled_profit(o)
             paid == owner_payout(o)
             refund == liquidation_split(o).bonus + liquidation_split(o).owner_refund
  <2>1. TypeOK /\ status # "None"
    BY DEF IInv, Untouched
  <2>2. c <= total_collateral
    BY <2>1, PositionInTotals
  <2>3. /\ c \in Nat /\ c <= MAX_U64 /\ loss \in Nat /\ loss <= c
    BY <2>1, ValuationNat, PositionNat
  <2>4. profit \in Nat /\ profit <= insurance_lamports
    BY <2>1, ValuationNat, PositionNat, StateNat DEF settled_profit, saturating_sub, Min2, Max2
  <2>5. paid \in Nat /\ paid <= c + profit - loss
    <3>1. paid = Min2(c + profit, MAX_U64) - loss
      BY DEF owner_payout
    <3> QED
      BY <2>3, <2>4, <3>1, ScaleAssumption DEF Min2
  <2>6. refund = c - loss
    <3>1. mul_bps(notional_of(o), params.liq_bonus_bps) \in Nat
      BY <2>1, ValuationNat, ParamNat, FeeType
    <3> DEFINE bonus == Min2(mul_bps(notional_of(o), params.liq_bonus_bps), c - loss)
    <3>2. bonus \in Int
      BY <2>3, <3>1 DEF Min2
    <3>3. refund = bonus + (c - loss - bonus)
      BY DEF liquidation_split
    <3> HIDE DEF bonus
    <3> QED
      BY <2>3, <3>2, <3>3
  <2> HIDE DEF c, loss, profit, paid, refund
  <2>7. /\ vault >= RentBuffer + Claims /\ vault \in Nat /\ RentBuffer \in Nat
        /\ Claims = venue_sol + insurance_lamports + fee_lamports
                      + creator_fee_lamports + total_collateral
    BY <2>1, LamportFacts, StateNat, MarketNat
  <2>8. /\ venue_sol \in Nat /\ insurance_lamports \in Nat /\ fee_lamports \in Nat
        /\ creator_fee_lamports \in Nat /\ total_collateral \in Nat
    BY <2>1, StateNat, ClaimsNat
  <2>9. \A n \in Nat : n <= total_collateral + insurance_lamports
                         => n <= vault /\ vault - n >= RentBuffer
    BY <2>7, <2>8
  <2>10. paid <= total_collateral + insurance_lamports
    BY <2>2, <2>3, <2>4, <2>5, <2>8
  <2>11. refund \in Nat /\ refund <= total_collateral + insurance_lamports
    BY <2>2, <2>3, <2>6, <2>8
  <2>12. payable(paid) /\ payable(refund)
    BY <2>5, <2>9, <2>10, <2>11 DEF payable
  <2> QED
    BY <2>2, <2>12 DEF c, paid, refund
<1> QED
  BY <1>1, Invariance, BooksAreSums, PTL

-----------------------------------------------------------------------------
\* Every debt, and its value at the index, fits the u64 the program casts it
\* to.  The casts are unchecked: beyond this the recorded debt means nothing.
AmountsFit ==
    \A o \in Owners :
        /\ (position[o].debt_scaled * funding_index) \div FUNDING_ONE <= MAX_U64
        /\ (debt_of(o) * index_twap) \div BASE_UNITS_PER_NFT <= MAX_U64

\* The maintenance ratio in force is no stricter than the initial ratio.
RatiosOrdered == params.maintenance_cr_bps <= params.initial_cr_bps

\* More collateral covers less debt at a lower ratio, as long as the larger
\* debt's value fits.
LEMMA CoveredMono ==
    ASSUME TypeOK, NEW c \in Nat, NEW d \in Nat, NEW r \in Nat,
           NEW c2 \in Nat, NEW d2 \in Nat, NEW r2 \in Nat,
           c <= c2, d2 <= d, r2 <= r,
           (d * index_twap) \div BASE_UNITS_PER_NFT <= MAX_U64,
           covered(c, d, r)
    PROVE  covered(c2, d2, r2)
<1> DEFINE v == (d * index_twap) \div BASE_UNITS_PER_NFT
           v2 == (d2 * index_twap) \div BASE_UNITS_PER_NFT
<1>1. /\ BASE_UNITS_PER_NFT \in Nat \ {0} /\ BPS \in Nat /\ index_twap \in Nat
      /\ d * index_twap \in Nat /\ d2 * index_twap \in Nat
      /\ d2 * index_twap <= d * index_twap
  <2>1. BASE_UNITS_PER_NFT \in Nat \ {0} /\ BPS \in Nat /\ index_twap \in Nat
    BY StateNat, ScaleAssumption
  <2> QED
    BY <2>1, MulMono
<1>2. v \in Nat /\ v2 \in Nat /\ v2 <= v
  BY <1>1, DivBound, DivMono
<1>3. value_at_index(d, index_twap) = v /\ value_at_index(d2, index_twap) <= v
  <2>1. U64(v) = v /\ U64(v2) <= v2 /\ U64(v2) \in Nat
    BY <1>2, U64Bound, U64Type
  <2> QED
    BY <1>2, <2>1 DEF value_at_index
<1>4. value_at_index(d2, index_twap) \in Nat
  BY <1>1, ValueType
<1> HIDE DEF v, v2
<1> DEFINE u == value_at_index(d2, index_twap)
<1>5. v * r <= c * BPS
  BY <1>3 DEF covered
<1>6. u * r2 <= v * r /\ c * BPS <= c2 * BPS
  <2> HIDE DEF u
  <2>1. u * r2 <= v * r2
    BY <1>2, <1>3, <1>4, MulMono DEF u
  <2>2. r2 * v <= r * v
    BY <1>2, MulMono
  <2>3. u * r2 \in Nat /\ v * r2 = r2 * v /\ v * r = r * v /\ r2 * v \in Nat /\ r * v \in Nat
    BY <1>2, <1>4 DEF u
  <2> QED
    BY <1>1, <2>1, <2>2, <2>3, MulMono
<1>7. u * r2 <= c2 * BPS
  <2>1. u * r2 \in Nat /\ v * r \in Nat /\ c * BPS \in Nat /\ c2 * BPS \in Nat
    BY <1>1, <1>2, <1>4
  <2> HIDE DEF u
  <2> QED
    BY <1>5, <1>6, <2>1
<1> QED
  BY <1>7 DEF covered

\* The ratios of the market are those of one of the parameter sets.
LEMMA RatiosKept ==
    ASSUME \A p \in ParamSets : p.maintenance_cr_bps <= p.initial_cr_bps
    PROVE  Spec => []RatiosOrdered
<1>1. Init => RatiosOrdered
  BY DEF Init, RatiosOrdered, NoParams
<1>2. RatiosOrdered /\ [Next]_vars => RatiosOrdered'
  <2> SUFFICES ASSUME RatiosOrdered, [Next]_vars PROVE RatiosOrdered'
    OBVIOUS
  <2>1. CASE CreateNext
    BY <2>1 DEF CreateNext, create_market, create_external_market, RatiosOrdered
  <2>2. CASE TradeNext \/ FundNext
    BY <2>2 DEF TradeNext, FundNext, curve_buy, curve_sell, graduate, amm_buy, amm_sell,
                fund_insurance, withdraw_fees, withdraw_creator_fees, tradeFrame, configVars,
                RatiosOrdered
  <2>3. CASE OracleNext
    BY <2>3 DEF OracleNext, push_index, push_mark, set_frozen, update_market_params, oracleFrame,
                RatiosOrdered
  <2>4. CASE ShortNext
    BY <2>4 DEF ShortNext, open_short, add_collateral, withdraw_collateral, liquidate,
                close_position, accrue_funding, shortFrame, configVars, RatiosOrdered
  <2>5. CASE ItemNext \/ Tick
    BY <2>5 DEF ItemNext, register_item, deposit_item, withdraw_item, spl_transfer, itemFrame,
                Tick, configVars, RatiosOrdered
  <2>6. CASE UNCHANGED vars
    BY <2>6 DEF vars, configVars, RatiosOrdered
  <2> QED
    BY <2>1, <2>2, <2>3, <2>4, <2>5, <2>6 DEF Next
<1> QED
  BY <1>1, <1>2, PTL DEF Spec

\* The collateral ratios are natural numbers.
LEMMA RatioNat ==
    ASSUME TypeOK
    PROVE  params.maintenance_cr_bps \in Nat /\ params.initial_cr_bps \in Nat
  BY DEF TypeOK, MarketParams

\* So is the quantum of debt.
LEMMA QuantumType ==
    ASSUME TypeOK
    PROVE  debt_quantum \in Nat
  BY StateNat, ScaleAssumption, DivBound DEF debt_quantum

\* A covered position whose collateral does not fall and whose debt does not
\* grow by more than the quantum stays covered.
LEMMA StaysCoveredBy ==
    ASSUME TypeOK, AmountsFit, NEW o \in Owners, ~underwater(o),
           NEW c \in Nat, NEW d \in Nat,
           position[o].collateral <= c, d <= debt_of(o) + debt_quantum
    PROVE  covered(c, Max2(d - debt_quantum, 0), params.maintenance_cr_bps)
<1>1. /\ debt_of(o) \in Nat /\ debt_quantum \in Nat /\ position[o].collateral \in Nat
      /\ params.maintenance_cr_bps \in Nat
  <2>1. position[o].debt_scaled \in Nat /\ funding_index \in Nat
    BY PositionNat, StateNat
  <2>2. debt_of(o) \in Nat
    BY <2>1, DebtType DEF debt_of
  <2>3. params.maintenance_cr_bps \in Nat
    BY RatioNat
  <2> QED
    BY <2>2, <2>3, PositionNat, QuantumType
<1>2. Max2(d - debt_quantum, 0) \in Nat /\ Max2(d - debt_quantum, 0) <= debt_of(o)
  <2> HIDE DEF debt_quantum
  <2> QED
    BY <1>1 DEF Max2
<1>3. (debt_of(o) * index_twap) \div BASE_UNITS_PER_NFT <= MAX_U64
  BY DEF AmountsFit
<1>4. covered(position[o].collateral, debt_of(o), params.maintenance_cr_bps)
  BY DEF underwater
<1> HIDE DEF debt_quantum
<1>5. params.maintenance_cr_bps <= params.maintenance_cr_bps
  BY <1>1
<1> QED
  BY <1>1, <1>2, <1>3, <1>4, <1>5, CoveredMono

\* A debt of nothing needs no collateral.
LEMMA NoDebtCovered ==
    ASSUME TypeOK, NEW c \in Nat, NEW r \in Nat
    PROVE  covered(c, 0, r)
<1>1. index_twap \in Nat /\ BASE_UNITS_PER_NFT \in Nat \ {0} /\ BPS \in Nat
  BY StateNat, ScaleAssumption
<1>2. 0 * index_twap = 0 /\ 0 \div BASE_UNITS_PER_NFT = 0
  BY <1>1, DivBound
<1>3. value_at_index(0, index_twap) = 0
  BY <1>2, U64Bound, Range64 DEF value_at_index
<1> QED
  BY <1>1, <1>3 DEF covered

\* An opening leaves the position covered but for the quantum.
LEMMA OpenStaysCovered ==
    ASSUME IInv, IInv', AmountsFit, AmountsFit', RatiosOrdered,
           NEW o \in Owners, NEW a \in LamportAmounts, NEW t \in TokenAmounts,
           open_short(o, a, t)
    PROVE  covered(position'[o].collateral, Max2(debt_of(o)' - debt_quantum, 0),
                   params.maintenance_cr_bps)
<1> DEFINE s == position[o].debt_scaled
           leg == scaled_from_debt(t, funding_index)
           debt == (s * funding_index) \div FUNDING_ONE
           total == ((s + leg) * funding_index) \div FUNDING_ONE
           c == position[o].collateral + a
           size == t
<1>1. TypeOK /\ TypeOK'
  BY DEF IInv
<1>2. /\ s \in Nat /\ position[o].collateral \in Nat /\ a \in Nat /\ size \in Nat
      /\ funding_index \in Nat \ {0} /\ leg \in Nat
      /\ params.maintenance_cr_bps \in Nat /\ params.initial_cr_bps \in Nat
  <2>1. funding_index \in Nat \ {0}
    BY <1>1, StateNat DEF open_short, IInv, LiveBooks
  <2>2. s \in Nat /\ position[o].collateral \in Nat /\ a \in Nat /\ size \in Nat
    BY <1>1, PositionNat, InputNat
  <2>3. leg \in Nat
    BY <2>1, <2>2, ScaledType
  <2> QED
    BY <1>1, <2>1, <2>2, <2>3, RatioNat
<1>3. /\ position'[o].collateral = c /\ position'[o].debt_scaled = s + leg
      /\ UNCHANGED <<funding_index, index_twap>>
      /\ covered(c, debt_of(o) + size, params.initial_cr_bps)
  BY <1>1 DEF open_short, open_allowed, TypeOK, fundingVars, shortFrame, indexVars
<1>4. /\ debt + size <= total /\ total <= debt + size + debt_quantum
  BY <1>2, LegRounding DEF debt_quantum
<1>5. debt \in Nat /\ total \in Nat
  BY <1>2, DivBound, ScaleAssumption
<1>6. debt_of(o) = debt
  <2>1. debt <= MAX_U64
    BY DEF AmountsFit
  <2> QED
    BY <1>5, <2>1, U64Bound DEF debt_of, debt_from_scaled
<1>7. debt_of(o)' = total /\ (total * index_twap) \div BASE_UNITS_PER_NFT <= MAX_U64
  <2>1. /\ (position'[o].debt_scaled * funding_index') \div FUNDING_ONE <= MAX_U64
        /\ (debt_of(o)' * index_twap') \div BASE_UNITS_PER_NFT <= MAX_U64
    BY DEF AmountsFit
  <2>2. total <= MAX_U64
    BY <1>3, <2>1
  <2>3. debt_of(o)' = total
    BY <1>3, <1>5, <2>2, U64Bound DEF debt_of, debt_from_scaled
  <2> QED
    BY <1>3, <2>1, <2>3
<1> HIDE DEF s, leg, debt, total, c, size
<1>8. debt_quantum \in Nat
  BY <1>1, QuantumType
<1>9. ((debt + size) * index_twap) \div BASE_UNITS_PER_NFT <= MAX_U64
  <2>1. /\ index_twap \in Nat /\ debt + size \in Nat /\ BASE_UNITS_PER_NFT \in Nat \ {0}
        /\ MAX_U64 \in Nat
    BY <1>1, <1>2, <1>5, StateNat, ScaleAssumption
  <2>2. (debt + size) * index_twap <= total * index_twap
    BY <1>4, <1>5, <2>1, MulMono
  <2>3. (debt + size) * index_twap \in Nat /\ total * index_twap \in Nat
    BY <1>5, <2>1
  <2>4. ((debt + size) * index_twap) \div BASE_UNITS_PER_NFT
          <= (total * index_twap) \div BASE_UNITS_PER_NFT
    BY <2>1, <2>2, <2>3, DivMono
  <2>5. /\ ((debt + size) * index_twap) \div BASE_UNITS_PER_NFT \in Nat
        /\ (total * index_twap) \div BASE_UNITS_PER_NFT \in Nat
    BY <2>1, <2>3, DivBound
  <2> QED
    BY <1>7, <2>1, <2>4, <2>5
<1>10. /\ Max2(total - debt_quantum, 0) \in Nat
       /\ Max2(total - debt_quantum, 0) <= debt + size
  <2> HIDE DEF debt_quantum
  <2> QED
    BY <1>2, <1>4, <1>5, <1>8 DEF Max2
<1>11. c \in Nat /\ c <= c /\ debt + size \in Nat
  BY <1>2, <1>5 DEF c
<1>12. params.maintenance_cr_bps <= params.initial_cr_bps
  BY DEF RatiosOrdered
<1>13. covered(c, debt + size, params.initial_cr_bps)
  BY <1>3, <1>6
<1> DEFINE d == debt + size
           d2 == Max2(total - debt_quantum, 0)
           r == params.initial_cr_bps
           r2 == params.maintenance_cr_bps
<1>14. covered(c, d2, r2)
  <2>1. /\ c \in Nat /\ d \in Nat /\ r \in Nat /\ d2 \in Nat /\ r2 \in Nat
        /\ c <= c /\ d2 <= d /\ r2 <= r
        /\ (d * index_twap) \div BASE_UNITS_PER_NFT <= MAX_U64
        /\ covered(c, d, r)
    BY <1>2, <1>9, <1>10, <1>11, <1>12, <1>13
  <2> HIDE DEF d, d2, r, r2
  <2> QED
    BY <1>1, <2>1, CoveredMono
<1> QED
  BY <1>3, <1>7, <1>14

\* Nobody's instruction pushes a healthy short below maintenance by more than
\* the rounding of a new leg, at unchanged prices and parameters -- as long as
\* amounts fit their u64 and no parameter set asks for more collateral to keep
\* a short than to open it (create_market does not check that).
THEOREM HealthKept ==
    ASSUME \A p \in ParamSets : p.maintenance_cr_bps <= p.initial_cr_bps
    PROVE  Spec /\ []AmountsFit => HealthyUntilPricesMove
<1>1. IInv /\ IInv' /\ RatiosOrdered /\ AmountsFit /\ AmountsFit' /\ [Next]_vars => [StaysCovered]_vars
  <2> SUFFICES ASSUME IInv, IInv', RatiosOrdered, AmountsFit, AmountsFit', Next,
                      NEW o \in Owners, ~underwater(o),
                      UNCHANGED <<index_twap, funding_index, params>>
               PROVE  covered(position'[o].collateral, Max2(debt_of(o)' - debt_quantum, 0),
                              params.maintenance_cr_bps)
    BY DEF vars, StaysCovered
  <2>1. TypeOK /\ TypeOK'
    BY DEF IInv
  <2>2. /\ debt_of(o) \in Nat /\ debt_quantum \in Nat /\ position[o].collateral \in Nat
        /\ params.maintenance_cr_bps \in Nat
    <3>1. position[o].debt_scaled \in Nat /\ funding_index \in Nat
      BY <2>1, PositionNat, StateNat
    <3>2. debt_of(o) \in Nat
      BY <3>1, DebtType DEF debt_of
    <3> QED
      BY <2>1, <3>2, RatioNat, PositionNat, QuantumType
  <2>3. ASSUME position'[o].debt_scaled = position[o].debt_scaled,
               position'[o].collateral \in Nat,
               position[o].collateral <= position'[o].collateral
        PROVE  covered(position'[o].collateral, Max2(debt_of(o)' - debt_quantum, 0),
                       params.maintenance_cr_bps)
    <3>1. debt_of(o)' = debt_of(o)
      BY <2>3 DEF debt_of
    <3>2. debt_of(o) <= debt_of(o) + debt_quantum
      <4> HIDE DEF debt_quantum
      <4> QED
        BY <2>2
    <3>3. covered(position'[o].collateral, Max2(debt_of(o) - debt_quantum, 0),
                  params.maintenance_cr_bps)
      BY <2>1, <2>2, <2>3, <3>2, StaysCoveredBy
    <3> QED
      BY <3>1, <3>3
  <2>4. ASSUME position'[o] = position[o]
        PROVE  covered(position'[o].collateral, Max2(debt_of(o)' - debt_quantum, 0),
                       params.maintenance_cr_bps)
    BY <2>2, <2>3, <2>4
  <2>5. CASE ~ShortNext
    BY <2>4, <2>5, ShortFrame DEF shortVars
  <2>6. ASSUME NEW p \in Owners, NEW a \in LamportAmounts, NEW t \in TokenAmounts,
               open_short(p, a, t)
        PROVE  covered(position'[o].collateral, Max2(debt_of(o)' - debt_quantum, 0),
                       params.maintenance_cr_bps)
    <3>1. CASE p = o
      BY <2>6, <3>1, OpenStaysCovered
    <3>2. CASE p # o
      BY <2>1, <2>4, <2>6, <3>2 DEF open_short, TypeOK
    <3> QED
      BY <3>1, <3>2
  <2>7. ASSUME NEW p \in Owners, NEW a \in LamportAmounts, add_collateral(p, a)
        PROVE  covered(position'[o].collateral, Max2(debt_of(o)' - debt_quantum, 0),
                       params.maintenance_cr_bps)
    <3>1. CASE p = o
      <4>1. /\ position'[o].debt_scaled = position[o].debt_scaled
            /\ position'[o].collateral = position[o].collateral + a
        BY <2>1, <2>7, <3>1 DEF add_collateral, TypeOK
      <4>2. a \in Nat
        BY InputNat
      <4> QED
        BY <2>2, <2>3, <4>1, <4>2
    <3>2. CASE p # o
      BY <2>1, <2>4, <2>7, <3>2 DEF add_collateral, TypeOK
    <3> QED
      BY <3>1, <3>2
  <2>8. ASSUME NEW p \in Owners, NEW a \in LamportAmounts, withdraw_collateral(p, a)
        PROVE  covered(position'[o].collateral, Max2(debt_of(o)' - debt_quantum, 0),
                       params.maintenance_cr_bps)
    <3>1. CASE p = o
      <4> DEFINE c == position[o].collateral - a
      <4>1. /\ position'[o].debt_scaled = position[o].debt_scaled
            /\ position'[o].collateral = c
            /\ a <= position[o].collateral
            /\ debt_of(o) > 0 => covered(c, debt_of(o), params.initial_cr_bps)
        BY <2>1, <2>8, <3>1 DEF withdraw_collateral, withdraw_allowed, TypeOK
      <4>2. c \in Nat /\ params.initial_cr_bps \in Nat
        BY <2>1, <2>2, <4>1, InputNat, RatioNat
      <4>3. debt_of(o)' = debt_of(o)
        BY <4>1 DEF debt_of
      <4> HIDE DEF c
      <4> DEFINE d2 == Max2(debt_of(o) - debt_quantum, 0)
      <4>4. d2 \in Nat /\ d2 <= debt_of(o)
        <5> HIDE DEF debt_quantum
        <5> QED
          BY <2>2 DEF Max2
      <4>5. CASE debt_of(o) = 0
        <5>1. d2 = 0
          BY <4>4, <4>5
        <5>2. covered(c, 0, params.maintenance_cr_bps)
          BY <2>1, <2>2, <4>2, NoDebtCovered
        <5> QED
          BY <4>1, <4>3, <5>1, <5>2
      <4>6. CASE debt_of(o) > 0
        <5>1. /\ covered(c, debt_of(o), params.initial_cr_bps)
              /\ (debt_of(o) * index_twap) \div BASE_UNITS_PER_NFT <= MAX_U64
              /\ params.maintenance_cr_bps <= params.initial_cr_bps
              /\ c <= c
          BY <4>1, <4>2, <4>6 DEF AmountsFit, RatiosOrdered
        <5> HIDE DEF d2
        <5>2. covered(c, d2, params.maintenance_cr_bps)
          BY <2>1, <2>2, <4>2, <4>4, <5>1, CoveredMono
        <5> QED
          BY <4>1, <4>3, <5>2 DEF d2
      <4> QED
        BY <2>2, <4>5, <4>6
    <3>2. CASE p # o
      BY <2>1, <2>4, <2>8, <3>2 DEF withdraw_collateral, TypeOK
    <3> QED
      BY <3>1, <3>2
  <2>9. ASSUME NEW p \in Owners, liquidate(p) \/ close_position(p)
        PROVE  covered(position'[o].collateral, Max2(debt_of(o)' - debt_quantum, 0),
                       params.maintenance_cr_bps)
    <3>1. CASE p = o
      <4>1. close_position(o)
        BY <2>9, <3>1 DEF liquidate
      <4>2. position'[o].collateral = 0 /\ position'[o].debt_scaled = 0 /\ funding_index \in Nat
        BY <2>1, <4>1, StateNat DEF close_position, TypeOK, NoPosition
      <4>3. debt_of(o)' = 0
        <5>1. 0 * funding_index = 0 /\ 0 \div FUNDING_ONE = 0
          BY <4>2, ScaleAssumption, DivBound
        <5> QED
          BY <4>2, <5>1, U64Bound, Range64 DEF debt_of, debt_from_scaled
      <4>4. Max2(0 - debt_quantum, 0) = 0
        <5> HIDE DEF debt_quantum
        <5> QED
          BY <2>2 DEF Max2
      <4>5. covered(0, 0, params.maintenance_cr_bps)
        BY <2>1, <2>2, NoDebtCovered
      <4> QED
        BY <4>2, <4>3, <4>4, <4>5
    <3>2. CASE p # o
      BY <2>1, <2>4, <2>9, <3>2 DEF liquidate, close_position, TypeOK
    <3> QED
      BY <3>1, <3>2
  <2>10. CASE accrue_funding
    BY <2>4, <2>10 DEF accrue_funding, shortVars
  <2> QED
    BY <2>5, <2>6, <2>7, <2>8, <2>9, <2>10 DEF ShortNext
<1>2. Spec => []RatiosOrdered
  BY RatiosKept
<1> QED
  BY <1>1, <1>2, Invariance, PTL DEF Spec, HealthyUntilPricesMove

-----------------------------------------------------------------------------
\* The count of items in escrow moves only with a swap.
LEMMA ItemFrame ==
    ASSUME IInv, Next, items_deposited' # items_deposited
    PROVE  \E i \in ItemMints :
              \/ deposit_item(i) /\ items_deposited' > items_deposited
              \/ withdraw_item(i) /\ items_deposited' < items_deposited
<1>0. items_deposited \in Nat
  BY DEF IInv, TypeOK
<1>1. ~CreateNext
  BY DEF CreateNext, create_market, create_external_market, itemVars
<1>2. ~TradeNext /\ ~FundNext
  BY DEF TradeNext, FundNext, curve_buy, curve_sell, graduate, amm_buy, amm_sell,
         fund_insurance, withdraw_fees, withdraw_creator_fees, tradeFrame, itemVars
<1>3. ~OracleNext
  BY DEF OracleNext, push_index, push_mark, set_frozen, update_market_params, oracleFrame, itemVars
<1>4. ~ShortNext
  BY DEF ShortNext, open_short, add_collateral, withdraw_collateral, liquidate,
         close_position, accrue_funding, shortFrame, itemVars
<1>5. ~Tick
  BY DEF Tick, itemVars
<1>6. ItemNext
  BY <1>1, <1>2, <1>3, <1>4, <1>5 DEF Next
<1>7. PICK i \in ItemMints : deposit_item(i) \/ withdraw_item(i)
  BY <1>6 DEF ItemNext, register_item, spl_transfer, itemVars
<1>8. CASE deposit_item(i)
  <2>1. items_deposited' = items_deposited + 1
    BY <1>8 DEF deposit_item
  <2>2. items_deposited' > items_deposited
    BY <1>0, <2>1
  <2> QED
    BY <1>8, <2>2
<1>9. CASE withdraw_item(i)
  <2>1. items_deposited' <= items_deposited
    BY <1>0, <1>9 DEF withdraw_item, Max2
  <2>2. items_deposited' \in Int
    BY <1>0, <1>9 DEF withdraw_item, Max2
  <2> QED
    BY <1>0, <1>9, <2>1, <2>2
<1> QED
  BY <1>7, <1>8, <1>9

\* What two roundings down leave of a worth, in one piece.
LEMMA QuotientBounds ==
    ASSUME NEW worth \in Nat, NEW mark \in Nat \ {0}
    PROVE  LET q == (worth \div mark) \div MICRO
           IN  /\ q \in Nat
               /\ q * mark * MICRO <= worth
               /\ worth < (q + 1) * mark * MICRO
<1> DEFINE p == worth \div mark
           q == p \div MICRO
<1>1. MICRO \in Nat \ {0}
  BY ScaleAssumption
<1>2. p \in Nat /\ mark * p <= worth /\ worth < mark * p + mark
  BY DivBound
<1> HIDE DEF p
<1>3. q \in Nat /\ MICRO * q <= p /\ p < MICRO * q + MICRO
  BY <1>1, <1>2, DivBound
<1> HIDE DEF q
<1>4. q * mark * MICRO = mark * (MICRO * q) /\ (q + 1) * mark * MICRO = mark * (MICRO * q + MICRO)
  BY <1>1, <1>3
<1>5. mark * (MICRO * q) <= mark * p
  <2>1. MICRO * q \in Nat
    BY <1>1, <1>3
  <2>2. (MICRO * q) * mark <= p * mark
    BY <1>2, <1>3, <2>1, MulMono
  <2> QED
    BY <1>2, <2>1, <2>2
<1>6. mark * p + mark <= mark * (MICRO * q + MICRO)
  <2>1. MICRO * q + MICRO \in Nat /\ p + 1 <= MICRO * q + MICRO
    BY <1>1, <1>2, <1>3
  <2>2. (p + 1) * mark <= (MICRO * q + MICRO) * mark
    BY <1>2, <2>1, MulMono
  <2> QED
    BY <1>2, <2>1, <2>2
<1>7. mark * (MICRO * q) \in Nat /\ mark * (MICRO * q + MICRO) \in Nat /\ mark * p \in Nat
  BY <1>1, <1>2, <1>3
<1>8. q * mark * MICRO <= worth /\ worth < (q + 1) * mark * MICRO
  BY <1>2, <1>4, <1>5, <1>6, <1>7
<1> QED
  BY <1>3, <1>8 DEF p, q

\* The tokens of an item, at the price in force, fit the u64 they are cast to.
ItemPriceFits == mark_ema > 0 => (item_worth \div mark_ema) \div MICRO <= MAX_U64

\* What a swap reads and how it moves the item reserve.
LEMMA SwapReads ==
    ASSUME IInv, NEW i \in ItemMints, deposit_item(i) \/ withdraw_item(i)
    PROVE  /\ mark_ema' \in Nat \ {0} /\ item_worth \in Nat /\ item_worth' = item_worth
           /\ params.curve_fee_bps \in Nat /\ item_tokens(mark_ema') \in Nat
           /\ item_reserve \in Nat
           /\ item_tokens(mark_ema') = U64((item_worth \div mark_ema') \div MICRO)
           /\ (item_worth \div mark_ema') \div MICRO \in Nat
<1>1. TypeOK
  BY DEF IInv
<1>2. mark_ema' \in U64Range /\ mark_ema' > 0
  BY <1>1, VenueMarkType DEF deposit_item, withdraw_item
<1>3. index_twap \in Nat /\ BASE_UNITS_PER_NFT \in Nat /\ params.units_per_item_micro \in Nat
  BY <1>1, StateNat, ParamNat, ScaleAssumption
<1>4. item_worth \in Nat
  BY <1>3 DEF item_worth
<1>5. item_worth' = item_worth
  BY DEF item_worth, deposit_item, withdraw_item, itemFrame, configVars, indexVars
<1>6. mark_ema' \in Nat \ {0}
  BY <1>2, Range64
<1>7. (item_worth \div mark_ema') \div MICRO \in Nat
  <2> HIDE DEF item_worth
  <2> QED
    BY <1>4, <1>6, QuotientBounds
<1>8. item_tokens(mark_ema') = U64((item_worth \div mark_ema') \div MICRO)
  BY DEF item_tokens, item_worth
<1>9. item_tokens(mark_ema') \in Nat
  BY <1>7, <1>8, U64Type
<1> QED
  BY <1>1, <1>4, <1>5, <1>6, <1>7, <1>8, <1>9, StateNat, ParamNat

\* A deposit never pays tokens worth more, at the mark it used, than the item:
\* the casts and the roundings only ever pay less.
LEMMA DepositNeverOverpays ==
    ASSUME IInv, NEW i \in ItemMints, deposit_item(i)
    PROVE  (item_reserve - item_reserve') * mark_ema' * MICRO <= item_worth
<1> DEFINE mark == mark_ema'
           q == (item_worth \div mark) \div MICRO
           tokens == item_tokens(mark)
           fee == mul_bps(tokens, params.curve_fee_bps)
           out == item_reserve - item_reserve'
           worth == item_worth
<1>1. /\ mark \in Nat \ {0} /\ worth \in Nat /\ params.curve_fee_bps \in Nat
      /\ tokens \in Nat /\ item_reserve \in Nat /\ tokens = U64(q) /\ q \in Nat
  BY SwapReads
<1>2. item_reserve' = item_reserve - (tokens - fee) /\ 0 <= tokens - fee
  BY DEF deposit_item, deposit_payout
<1>3. fee \in Nat
  BY <1>1, FeeType
<1>4. q * mark * MICRO <= worth
  <2> HIDE DEF mark, worth
  <2> QED
    BY <1>1, QuotientBounds DEF worth
<1>5. tokens <= q
  <2> HIDE DEF q, tokens
  <2> QED
    BY <1>1, U64Bound
<1>6. out = tokens - fee
  <2> HIDE DEF tokens, fee
  <2> QED
    BY <1>1, <1>2, <1>3
<1> HIDE DEF mark, q, tokens, fee, out, worth
<1>7. out \in Nat /\ out <= q
  BY <1>1, <1>2, <1>3, <1>5, <1>6
<1>8. MICRO \in Nat /\ mark * MICRO \in Nat
  BY <1>1, ScaleAssumption
<1>9. out * (mark * MICRO) <= q * (mark * MICRO)
  BY <1>1, <1>7, <1>8, MulMono
<1>10. /\ out * (mark * MICRO) = out * mark * MICRO /\ q * (mark * MICRO) = q * mark * MICRO
       /\ out * mark * MICRO \in Nat /\ q * mark * MICRO \in Nat
  BY <1>1, <1>7, <1>8, ScaleAssumption
<1>11. out * mark * MICRO <= worth
  BY <1>1, <1>4, <1>9, <1>10
<1> QED
  BY <1>11 DEF mark, out, worth

\* A withdrawal asks for the worth of the item but for the last token's
\* rounding, when the tokens fit their u64.
LEMMA WithdrawalAsksWorth ==
    ASSUME IInv, ItemPriceFits', NEW i \in ItemMints, withdraw_item(i)
    PROVE  (item_reserve' - item_reserve + 1) * mark_ema' * MICRO > item_worth
<1> DEFINE mark == mark_ema'
           q == (item_worth \div mark) \div MICRO
           tokens == item_tokens(mark)
           fee == mul_bps(tokens, params.curve_fee_bps)
           in == item_reserve' - item_reserve
           worth == item_worth
<1>1. /\ mark \in Nat \ {0} /\ worth \in Nat /\ params.curve_fee_bps \in Nat
      /\ tokens \in Nat /\ item_reserve \in Nat /\ tokens = U64(q) /\ q \in Nat
      /\ item_worth' = item_worth
  BY SwapReads
<1>2. item_reserve' = item_reserve + (tokens + fee)
  BY DEF withdraw_item, withdraw_price
<1>3. fee \in Nat
  BY <1>1, FeeType
<1>4. worth < (q + 1) * mark * MICRO
  <2> HIDE DEF mark, worth
  <2> QED
    BY <1>1, QuotientBounds DEF worth
<1>5. tokens = q
  <2>1. q <= MAX_U64
    BY <1>1 DEF ItemPriceFits
  <2> HIDE DEF q, tokens
  <2> QED
    BY <1>1, <2>1, U64Bound
<1>6. in = q + fee
  <2> HIDE DEF tokens, fee, q
  <2> QED
    BY <1>1, <1>2, <1>3, <1>5
<1> HIDE DEF mark, q, tokens, fee, in, worth
<1>7. in + 1 \in Nat /\ q + 1 \in Nat /\ q + 1 <= in + 1
  BY <1>1, <1>3, <1>6
<1>8. MICRO \in Nat /\ mark * MICRO \in Nat
  BY <1>1, ScaleAssumption
<1>9. (q + 1) * (mark * MICRO) <= (in + 1) * (mark * MICRO)
  BY <1>7, <1>8, MulMono
<1>10. \A n \in Nat : n * (mark * MICRO) = n * mark * MICRO /\ n * mark * MICRO \in Nat
  BY <1>1, <1>8
<1>11. (q + 1) * mark * MICRO <= (in + 1) * mark * MICRO
  BY <1>7, <1>9, <1>10
<1>12. (in + 1) * mark * MICRO > worth
  <2>1. (in + 1) * mark * MICRO \in Nat /\ (q + 1) * mark * MICRO \in Nat
    BY <1>7, <1>10
  <2> QED
    BY <1>1, <1>4, <1>11, <2>1
<1> QED
  BY <1>12 DEF mark, in, worth

\* A deposit never pays more than the item is worth, whatever the numbers.
THEOREM DepositsFair == Spec => [][DepositFair]_vars
<1>1. IInv /\ [Next]_vars => [DepositFair]_vars
  <2> SUFFICES ASSUME IInv, Next, items_deposited' > items_deposited
               PROVE  (item_reserve - item_reserve') * mark_ema' * MICRO <= item_worth
    BY DEF DepositFair
  <2>1. /\ items_deposited' # items_deposited /\ ~(items_deposited' < items_deposited)
    BY NextInv DEF IInv, TypeOK
  <2>2. PICK i \in ItemMints : deposit_item(i)
    BY <2>1, ItemFrame
  <2> QED
    BY <2>2, DepositNeverOverpays
<1> QED
  BY <1>1, Invariance, PTL DEF Spec

\* Item swaps are priced at the item's worth: a deposit never pays more, and a
\* withdrawal never asks for less as long as an item's tokens fit a u64.
THEOREM SwapsFair == Spec /\ []ItemPriceFits => ItemSwapFair
<1>1. IInv /\ ItemPriceFits' /\ [Next]_vars => [WithdrawalFair]_vars
  <2>1. ASSUME IInv, ItemPriceFits', Next, items_deposited' < items_deposited
        PROVE  (item_reserve' - item_reserve + 1) * mark_ema' * MICRO > item_worth
    <3>1. items_deposited' # items_deposited /\ ~(items_deposited' > items_deposited)
      BY <2>1, NextInv DEF IInv, TypeOK
    <3>2. PICK i \in ItemMints : withdraw_item(i)
      BY <2>1, <3>1, ItemFrame
    <3> QED
      BY <2>1, <3>2, WithdrawalAsksWorth
  <2> QED
    BY <2>1 DEF WithdrawalFair
<1>2. Spec => [][DepositFair]_vars
  BY DepositsFair
<1>3. [DepositFair]_vars /\ [WithdrawalFair]_vars => [SwapFair]_vars
  BY DEF SwapFair
<1> QED
  BY <1>1, <1>2, <1>3, Invariance, PTL DEF Spec, ItemSwapFair
=============================================================================
