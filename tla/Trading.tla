------------------------------ MODULE Trading ------------------------------
(***************************************************************************)
(* Market creation and the program's own trading venue: the bonding curve, *)
(* its graduation into the constant-product AMM, the AMM, the ways         *)
(* lamports leave the fee and enter the insurance counters, and the swaps  *)
(* of registered NFTs for tokens of the preminted item reserve.            *)
(***************************************************************************)
EXTENDS MarketState

\* Everything trading never touches.
tradeFrame == <<configVars, frozen, indexVars, fundingVars, shortVars, itemVars,
                treasury, item_reserve, now>>

-----------------------------------------------------------------------------
\* create_market: a fixed supply is preminted (curve, hedging reserve, item
\* reserve), the mint authority is revoked and the vault gets its rent buffer.
create_market(p) ==
    /\ status = "None"
    /\ p.curve_virtual_sol > 0 /\ p.curve_virtual_tokens > 0
    /\ p.item_reserve = 0 \/ p.units_per_item_micro > 0
    /\ Fits(p.curve_virtual_tokens + p.max_open_interest + p.item_reserve)
    /\ status' = "Bootstrap" /\ venue' = "Internal" /\ params' = p
    /\ curve_virtual_sol' = p.curve_virtual_sol
    /\ curve_virtual_tokens' = p.curve_virtual_tokens
    /\ mark_ema' = spot_per_nft(p.curve_virtual_sol, p.curve_virtual_tokens)
    /\ mark_last_ts' = now
    /\ funding_index' = FUNDING_ONE
    /\ pool_token' = p.curve_virtual_tokens
    /\ treasury' = p.max_open_interest
    /\ item_reserve' = p.item_reserve
    /\ transfer_in(RentBuffer)
    /\ UNCHANGED <<frozen, indexVars, curve_sol_raised, curve_tokens_sold, ammVars,
                   funding_last_ts, shortVars, insurance_lamports, feeVars, itemVars,
                   circulating, now>>

\* create_external_market: the token already trades elsewhere with a fixed
\* supply, so the market is Live at once and has no curve and no mark yet.
create_external_market(p) ==
    /\ status = "None"
    /\ status' = "Live" /\ venue' = "External" /\ params' = p
    /\ funding_index' = FUNDING_ONE
    /\ funding_last_ts' = now
    /\ circulating' = ExternalSupply
    /\ transfer_in(RentBuffer)
    /\ UNCHANGED <<frozen, indexVars, curveVars, ammVars, markVars, shortVars,
                   insurance_lamports, feeVars, itemVars, pool_token, treasury,
                   item_reserve, now>>

-----------------------------------------------------------------------------
\* A bug: tokens are minted to the buyer, as the retired elastic supply did.
pool_mints(amount) ==
    /\ circulating' = circulating + amount
    /\ UNCHANGED pool_token

\* The venue pays the trader amount tokens out of the pool, or takes them in.
pool_pays(amount) ==
    /\ amount <= pool_token
    /\ pool_token' = pool_token - amount
    /\ circulating' = circulating + amount

pool_takes(amount) ==
    /\ amount <= circulating
    /\ pool_token' = pool_token + amount
    /\ circulating' = circulating - amount

curve_buy(sol_in) ==
    LET fee == mul_bps(sol_in, params.curve_fee_bps)
        net_in == sol_in - fee
        tokens_out == cp_out(curve_virtual_sol, curve_virtual_tokens, net_in)
    IN  /\ status = "Bootstrap" /\ ~frozen
        /\ sol_in > 0 /\ fee <= sol_in
        /\ tokens_out > 0
        /\ Fits(curve_virtual_sol + net_in)
        /\ curve_virtual_sol' = curve_virtual_sol + net_in
        /\ curve_virtual_tokens' = curve_virtual_tokens - tokens_out
        /\ update_mark(curve_spot(curve_virtual_sol', curve_virtual_tokens'))
        /\ curve_sol_raised' = curve_sol_raised + net_in
        /\ curve_tokens_sold' = curve_tokens_sold + tokens_out
        /\ split_fee(fee)
        /\ transfer_in(sol_in)
        /\ pool_pays(tokens_out)
        /\ UNCHANGED <<tradeFrame, ammVars, insurance_lamports>>

\* The mark is updated after the token reserve moved and before the SOL
\* reserve does, as the code does it.
curve_sell(tokens_in) ==
    LET sol_gross == cp_out(curve_virtual_tokens, curve_virtual_sol, tokens_in)
        fee == mul_bps(sol_gross, params.curve_fee_bps)
    IN  /\ status = "Bootstrap" /\ ~frozen
        /\ tokens_in > 0 /\ tokens_in <= curve_tokens_sold
        /\ sol_gross <= curve_sol_raised
        /\ fee <= sol_gross
        /\ curve_virtual_tokens' = curve_virtual_tokens + tokens_in
        /\ update_mark(curve_spot(curve_virtual_sol, curve_virtual_tokens'))
        /\ curve_virtual_sol' = curve_virtual_sol - sol_gross
        /\ curve_sol_raised' = curve_sol_raised - sol_gross
        /\ curve_tokens_sold' = curve_tokens_sold - tokens_in
        /\ split_fee(fee)
        /\ pool_takes(tokens_in)
        /\ transfer_out(sol_gross - fee)
        /\ UNCHANGED <<tradeFrame, ammVars, insurance_lamports>>

-----------------------------------------------------------------------------
\* A bug: the AMM is seeded against the real instead of the virtual reserve.
seed_tokens_real(amm_sol) ==
    U64((amm_sol * curve_virtual_tokens) \div Max2(curve_sol_raised, 1))

\* AMM liquidity paired with amm_sol at the curve's closing price.
seed_tokens(amm_sol) == U64((amm_sol * curve_virtual_tokens) \div curve_virtual_sol)

\* A bug: the seed is burned and the excess kept.
unsold_seed(amm_tokens) == Min2(amm_tokens, pool_token)

\* What burns at graduation: the pool beyond the AMM's seed (saturating_sub).
unsold_excess(amm_tokens) == Max2(pool_token - amm_tokens, 0)

graduate ==
    LET insurance == mul_bps(curve_sol_raised, params.insurance_share_bps)
        amm_sol == curve_sol_raised - insurance
        amm_tokens == seed_tokens(amm_sol)
    IN  /\ status = "Bootstrap" /\ ~frozen
        /\ curve_sol_raised >= params.graduation_target_sol
        /\ index_twap > 0
        /\ insurance <= curve_sol_raised
        /\ amm_tokens > 0
        /\ insurance_lamports' = insurance
        /\ amm_sol_reserve' = amm_sol
        /\ amm_token_reserve' = amm_tokens
        /\ status' = "Live"
        /\ mark_ema' = IF mark_ema = 0 THEN spot_per_nft(amm_sol, amm_tokens) ELSE mark_ema
        /\ mark_last_ts' = now
        /\ funding_last_ts' = now
        /\ pool_token' = pool_token - unsold_excess(amm_tokens)
        /\ UNCHANGED <<venue, params, frozen, indexVars, curveVars, funding_index, shortVars,
                       feeVars, itemVars, lamportVars, treasury, item_reserve, circulating, now>>

-----------------------------------------------------------------------------
amm_buy(sol_in) ==
    LET fee == mul_bps(sol_in, params.amm_fee_bps)
        net_in == sol_in - fee
        tokens_out == cp_out(amm_sol_reserve, amm_token_reserve, net_in)
    IN  /\ venue = "Internal" /\ status = "Live" /\ ~frozen
        /\ sol_in > 0 /\ fee <= sol_in
        /\ tokens_out > 0 /\ tokens_out < amm_token_reserve
        /\ amm_sol_reserve' = amm_sol_reserve + net_in
        /\ amm_token_reserve' = amm_token_reserve - tokens_out
        /\ split_fee(fee)
        /\ update_mark(spot_per_nft(amm_sol_reserve', amm_token_reserve'))
        /\ transfer_in(sol_in)
        /\ pool_pays(tokens_out)
        /\ UNCHANGED <<tradeFrame, curveVars, insurance_lamports>>

amm_sell(tokens_in) ==
    LET sol_gross == cp_out(amm_token_reserve, amm_sol_reserve, tokens_in)
        fee == mul_bps(sol_gross, params.amm_fee_bps)
    IN  /\ venue = "Internal" /\ status = "Live" /\ ~frozen
        /\ tokens_in > 0
        /\ sol_gross < amm_sol_reserve
        /\ fee <= sol_gross
        /\ amm_token_reserve' = amm_token_reserve + tokens_in
        /\ amm_sol_reserve' = amm_sol_reserve - sol_gross
        /\ split_fee(fee)
        /\ update_mark(spot_per_nft(amm_sol_reserve', amm_token_reserve'))
        /\ pool_takes(tokens_in)
        /\ transfer_out(sol_gross - fee)
        /\ UNCHANGED <<tradeFrame, curveVars, insurance_lamports>>

-----------------------------------------------------------------------------
\* Anyone may top up the insurance fund of an existing market, frozen or not.
fund_insurance(amount) ==
    /\ status # "None"
    /\ amount > 0
    /\ insurance_lamports' = insurance_lamports + amount
    /\ transfer_in(amount)
    /\ UNCHANGED <<tradeFrame, curveVars, ammVars, markVars, feeVars, pool_token, circulating>>

withdraw_fees(amount) ==
    /\ status # "None"
    /\ amount > 0 /\ amount <= fee_lamports
    /\ fee_lamports' = fee_lamports - amount
    /\ transfer_out(amount)
    /\ UNCHANGED <<tradeFrame, curveVars, ammVars, markVars, insurance_lamports,
                   creator_fee_lamports, pool_token, circulating>>

\* The whole creator share goes to the market's fee receiver; anyone may crank.
withdraw_creator_fees ==
    /\ status # "None"
    /\ creator_fee_lamports > 0
    /\ creator_fee_lamports' = 0
    /\ transfer_out(creator_fee_lamports)
    /\ UNCHANGED <<tradeFrame, curveVars, ammVars, markVars, insurance_lamports,
                   fee_lamports, pool_token, circulating>>

-----------------------------------------------------------------------------
(* Item swaps: an admin registers NFT mints; a registered item is swapped  *)
(* for tokens of equal value out of the item reserve, and back.            *)

\* Everything an item swap never touches.
itemFrame == <<configVars, frozen, indexVars, curveVars, ammVars, fundingVars, shortVars,
               insurance_lamports, feeVars, lamportVars, pool_token, treasury, now>>

\* update_mark reads the venue: the curve before graduation, the AMM after.
update_venue_mark ==
    update_mark(IF status = "Live" THEN amm_spot_per_nft
                ELSE curve_spot(curve_virtual_sol, curve_virtual_tokens))

\* Tokens equal in value to one item at index twap and a given mark.
item_tokens(mark) ==
    U64(((index_twap * BASE_UNITS_PER_NFT * params.units_per_item_micro) \div mark) \div MICRO)

\* A bug: the swap fee of a deposit is paid out instead of kept.
deposit_payout_with_fee(tokens) == tokens + mul_bps(tokens, params.curve_fee_bps)

\* A deposit is paid net of the swap fee, a withdrawal pays it on top.
deposit_payout(tokens) == tokens - mul_bps(tokens, params.curve_fee_bps)
withdraw_price(tokens) == tokens + mul_bps(tokens, params.curve_fee_bps)

register_item(i) ==
    /\ status # "None"
    /\ i \notin registered
    /\ registered' = registered \cup {i}
    /\ UNCHANGED <<itemFrame, markVars, items_deposited, escrow_item, item_reserve, circulating>>

deposit_item(i) ==
    LET tokens_out == item_tokens(mark_ema')
        net_out == deposit_payout(tokens_out)
    IN  /\ status # "None"
        /\ i \in registered
        /\ escrow_item[i] < ItemSupply[i]       \* the user holds a copy
        /\ ~frozen
        /\ require_fresh_index
        /\ update_venue_mark
        /\ mark_ema' > 0
        /\ item_reserve >= tokens_out
        /\ 0 <= net_out
        /\ items_deposited' = items_deposited + 1
        /\ escrow_item' = [escrow_item EXCEPT ![i] = @ + 1]
        /\ item_reserve' = item_reserve - net_out
        /\ circulating' = circulating + net_out
        /\ UNCHANGED <<itemFrame, registered>>

withdraw_item(i) ==
    LET total_in == withdraw_price(item_tokens(mark_ema'))
    IN  /\ status # "None"
        /\ i \in registered
        /\ ~frozen
        /\ require_fresh_index
        /\ update_venue_mark
        /\ mark_ema' > 0
        /\ escrow_item[i] >= 1
        /\ total_in <= circulating
        /\ items_deposited' = Max2(items_deposited - 1, 0)
        /\ escrow_item' = [escrow_item EXCEPT ![i] = @ - 1]
        /\ item_reserve' = item_reserve + total_in
        /\ circulating' = circulating - total_in
        /\ UNCHANGED <<itemFrame, registered>>
=============================================================================
