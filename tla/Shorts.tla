------------------------------- MODULE Shorts -------------------------------
(***************************************************************************)
(* Cash-settled shorts: a position posts lamport collateral against a      *)
(* funding-scaled token debt valued at the index TWAP.  The insurance fund *)
(* pays its profit and receives its loss.                                  *)
(***************************************************************************)
EXTENDS MarketState

\* Everything a short never touches.
shortFrame == <<configVars, frozen, indexVars, curveVars, ammVars, feeVars, itemVars,
                tokenVars, now>>

saturating_sub(a, b) == Max2(a - b, 0)

debt_of(o) == debt_from_scaled(position[o].debt_scaled, funding_index)
notional_of(o) == value_at_index(debt_of(o), index_twap)

\* Collateral covers ratio_bps of a debt's index value.
covered(collateral, debt, ratio_bps) ==
    collateral * BPS >= value_at_index(debt, index_twap) * ratio_bps

\* The position is below the maintenance ratio.
underwater(o) == ~covered(position[o].collateral, debt_of(o), params.maintenance_cr_bps)

-----------------------------------------------------------------------------
\* The whole position, with the new leg, meets the initial ratio.
open_allowed(o, collateral, size) ==
    covered(position[o].collateral + collateral, debt_of(o) + size, params.initial_cr_bps)

open_short(o, collateral, size) ==
    LET scaled == scaled_from_debt(size, funding_index)
        total_debt == debt_from_scaled(total_debt_scaled, funding_index) + size
    IN  /\ status = "Live" /\ ~frozen
        /\ collateral > 0 /\ size > 0
        /\ require_fresh_index
        /\ Fits(debt_of(o) + size) /\ Fits(position[o].collateral + collateral)
        /\ open_allowed(o, collateral, size)
        /\ total_debt <= params.max_open_interest
        /\ position' = [position EXCEPT ![o] =
              [open |-> TRUE,
               collateral |-> @.collateral + collateral,
               debt_scaled |-> @.debt_scaled + scaled,
               entry_notional |-> Min2(@.entry_notional + value_at_index(size, index_twap),
                                       MAX_U64)]]
        /\ total_debt_scaled' = total_debt_scaled + scaled
        /\ total_collateral' = total_collateral + collateral
        /\ transfer_in(collateral)
        /\ UNCHANGED <<shortFrame, markVars, fundingVars, insurance_lamports>>

\* A bug: the collateral before the withdrawal is checked.
withdraw_allowed_before(o, amount) ==
    covered(position[o].collateral, debt_of(o), params.initial_cr_bps)

\* What is left still meets the initial ratio.
withdraw_allowed(o, amount) ==
    covered(position[o].collateral - amount, debt_of(o), params.initial_cr_bps)

\* Allowed at any time, in any state of the market.
add_collateral(o, amount) ==
    /\ position[o].open
    /\ amount > 0 /\ Fits(position[o].collateral + amount)
    /\ position' = [position EXCEPT ![o].collateral = @ + amount]
    /\ total_collateral' = total_collateral + amount
    /\ transfer_in(amount)
    /\ UNCHANGED <<shortFrame, markVars, fundingVars, insurance_lamports, total_debt_scaled>>

withdraw_collateral(o, amount) ==
    /\ position[o].open
    /\ amount > 0
    /\ ~frozen
    /\ amount <= position[o].collateral /\ amount <= total_collateral
    /\ debt_of(o) > 0 => require_fresh_index /\ withdraw_allowed(o, amount)
    /\ position' = [position EXCEPT ![o].collateral = @ - amount]
    /\ total_collateral' = total_collateral - amount
    /\ transfer_out(amount)
    /\ UNCHANGED <<shortFrame, markVars, fundingVars, insurance_lamports, total_debt_scaled>>

-----------------------------------------------------------------------------
\* Daily funding rate for a mark against the index: positive when the mark
\* trades above the index, clamped.
funding_rate(mark) ==
    LET premium_bps == TruncDiv((mark - index_twap) * BPS, index_twap)
        rate == TruncDiv(premium_bps * params.funding_k_bps, BPS)
    IN  Clamp(rate, -params.max_funding_bps_per_day, params.max_funding_bps_per_day)

\* A bug: the interval of a late crank is not capped at one day.
next_funding_index_uncapped(rate, dt) ==
    funding_index - TruncDiv(funding_index * rate * dt, DAY * BPS)

\* The funding index after dt seconds at rate; at most one day is applied.
next_funding_index(rate, dt) ==
    funding_index - TruncDiv(funding_index * rate * Min2(dt, DAY), DAY * BPS)

\* The mark the crank uses: an internal market takes an EMA step first, an
\* external one needs a pushed mark that is not stale.
mark_ready ==
    venue = "External" =>
      /\ mark_ema > 0
      /\ params.max_index_age_secs > 0 => now - mark_last_ts <= params.max_index_age_secs

\* A bug: a frozen market still accrues funding.
crank_due_frozen ==
    /\ status = "Live"
    /\ require_fresh_index
    /\ now - funding_last_ts >= params.min_crank_interval_secs
    /\ mark_ready

crank_due ==
    /\ status = "Live" /\ ~frozen
    /\ require_fresh_index
    /\ now - funding_last_ts >= params.min_crank_interval_secs
    /\ mark_ready

accrue_funding ==
    /\ crank_due
    /\ IF venue = "Internal" THEN update_mark(amm_spot_per_nft) ELSE UNCHANGED markVars
    /\ funding_index' = next_funding_index(funding_rate(mark_ema'), now - funding_last_ts)
    /\ funding_index' > 0
    /\ funding_last_ts' = now
    /\ UNCHANGED <<shortFrame, shortVars, insurance_lamports, lamportVars>>

-----------------------------------------------------------------------------
\* The realised loss of a position, paid from its collateral at most.
loss_of(o) ==
    Min2(saturating_sub(notional_of(o), position[o].entry_notional), position[o].collateral)

\* A bug: only the collateral leaves the market's totals.
release_collateral_only(o) ==
    /\ total_collateral' = total_collateral - position[o].collateral
    /\ UNCHANGED total_debt_scaled

\* A position that ends takes its share out of the market's totals.  The build
\* checks overflow: a total that would drop below zero aborts the transaction.
release_totals(o) ==
    /\ position[o].collateral <= total_collateral
    /\ total_collateral' = total_collateral - position[o].collateral
    /\ total_debt_scaled' = saturating_sub(total_debt_scaled, position[o].debt_scaled)

\* A bug: the bonus is not capped at what the loss leaves.
liquidation_split_uncapped(o) ==
    LET bonus == mul_bps(notional_of(o), params.liq_bonus_bps)
    IN  [bonus |-> bonus,
         owner_refund |-> saturating_sub(position[o].collateral - loss_of(o), bonus)]

\* How the equity left after the loss is shared: the liquidator's bonus first.
liquidation_split(o) ==
    LET equity == position[o].collateral - loss_of(o)
        bonus == Min2(mul_bps(notional_of(o), params.liq_bonus_bps), equity)
    IN  [bonus |-> bonus, owner_refund |-> equity - bonus]

\* The position account stays, zeroed, until its owner closes it.
liquidate(o) ==
    /\ position[o].open
    /\ status = "Live" /\ ~frozen
    /\ require_fresh_index
    /\ debt_of(o) > 0
    /\ underwater(o)
    /\ release_totals(o)
    /\ insurance_lamports' = insurance_lamports + loss_of(o)
    /\ position' = [position EXCEPT ![o] = [NoPosition EXCEPT !.open = TRUE]]
    /\ transfer_out(liquidation_split(o).bonus + liquidation_split(o).owner_refund)
    /\ UNCHANGED <<shortFrame, markVars, fundingVars>>

\* A bug: the profit is not bounded by what the fund holds.
settled_profit_unbounded(o) == saturating_sub(position[o].entry_notional, notional_of(o))

\* The profit of a position, paid from the insurance fund at most.
settled_profit(o) ==
    Min2(saturating_sub(position[o].entry_notional, notional_of(o)), insurance_lamports)

\* A bug: the owner is paid the whole profit, whatever the fund gave.
owner_payout_full(o) ==
    position[o].collateral + saturating_sub(position[o].entry_notional, notional_of(o))
        - loss_of(o)

\* Collateral plus the profit the fund paid, or minus the loss it keeps.
owner_payout(o) ==
    Min2(position[o].collateral + settled_profit(o), MAX_U64) - loss_of(o)

close_position(o) ==
    /\ position[o].open
    /\ ~frozen
    /\ require_fresh_index
    /\ insurance_lamports' = insurance_lamports - settled_profit(o) + loss_of(o)
    /\ release_totals(o)
    /\ position' = [position EXCEPT ![o] = NoPosition]
    /\ transfer_out(owner_payout(o))
    /\ UNCHANGED <<shortFrame, markVars, fundingVars>>
=============================================================================
