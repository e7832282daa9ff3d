---------------------------- MODULE MarketState ----------------------------
(***************************************************************************)
(* The accounts one market's instructions share: the Market account, its   *)
(* lamport vault, its token accounts, the short positions and the item     *)
(* escrow, with the helpers (update_mark, require_fresh_index, transfers,  *)
(* fee split) that several instructions call, and the instructions of the  *)
(* oracle and the admin, which only move prices, parameters and the        *)
(* breaker that the others read.  A transaction is atomic and an aborted   *)
(* one changes nothing, so an instruction is one action whose guard is the *)
(* conjunction of its require! checks.                                     *)
(*                                                                         *)
(* Slippage limits (min_tokens_out, min_sol_out) only choose to abort, so  *)
(* they are left out; signer checks are the choice of who may call.        *)
(***************************************************************************)
EXTENDS FixedMath, FiniteSets

CONSTANTS
    ParamSets,      \* the MarketParams a market may be created or updated with
    Owners,         \* wallets that may hold a short position
    ItemMints,      \* NFT mints an admin may register
    ItemSupply,     \* copies of each item mint that exist
    TotalLamports,  \* all lamports that exist, in wallets or in the vault
    RentBuffer,     \* Rent::minimum_balance(0)
    ExternalSupply  \* fixed supply of an externally launched token

VARIABLES
    status, venue, frozen, params,
    index_twap, index_last_ts,
    curve_virtual_sol, curve_virtual_tokens, curve_sol_raised, curve_tokens_sold,
    amm_sol_reserve, amm_token_reserve,
    mark_ema, mark_last_ts,
    funding_index, funding_last_ts,
    total_debt_scaled, total_collateral,
    insurance_lamports, fee_lamports, creator_fee_lamports,
    items_deposited,
    position,       \* ShortPosition account of each owner
    registered,     \* item mints with an ItemRegistration account
    escrow_item,    \* copies of each item mint in the market's escrow
    vault,          \* lamports of the sol_vault account
    wallet,         \* lamports of everybody else
    pool_token, treasury, item_reserve,   \* the market's token accounts
    circulating,    \* tokens in user accounts
    now             \* Clock::unix_timestamp

configVars  == <<status, venue, params>>
indexVars   == <<index_twap, index_last_ts>>
curveVars   == <<curve_virtual_sol, curve_virtual_tokens, curve_sol_raised, curve_tokens_sold>>
ammVars     == <<amm_sol_reserve, amm_token_reserve>>
markVars    == <<mark_ema, mark_last_ts>>
fundingVars == <<funding_index, funding_last_ts>>
shortVars   == <<total_debt_scaled, total_collateral, position>>
feeVars     == <<fee_lamports, creator_fee_lamports>>
itemVars    == <<items_deposited, registered, escrow_item>>
lamportVars == <<vault, wallet>>
tokenVars   == <<pool_token, treasury, item_reserve, circulating>>

vars == <<configVars, frozen, indexVars, curveVars, ammVars, markVars, fundingVars,
          shortVars, insurance_lamports, feeVars, itemVars, lamportVars, tokenVars, now>>

MarketParams ==
    [index_window_secs : Nat, min_push_interval_secs : Nat, breaker_bps : Nat,
     max_index_age_secs : Nat, mark_window_secs : Nat, funding_k_bps : Nat,
     max_funding_bps_per_day : Nat, min_crank_interval_secs : Nat,
     initial_cr_bps : Nat, maintenance_cr_bps : Nat, liq_bonus_bps : Nat,
     max_open_interest : U64Range, item_reserve : U64Range, units_per_item_micro : U64Range,
     curve_fee_bps : Nat, amm_fee_bps : Nat, graduation_target_sol : U64Range,
     insurance_share_bps : Nat, curve_virtual_sol : U64Range, curve_virtual_tokens : U64Range]

ASSUME MarketAssumption ==
    /\ ParamSets \subseteq MarketParams
    /\ IsFiniteSet(Owners)
    /\ ItemSupply \in [ItemMints -> Nat]
    /\ TotalLamports \in U64Range
    /\ RentBuffer \in 0..TotalLamports
    /\ ExternalSupply \in U64Range

NoPosition == [open |-> FALSE, collateral |-> 0, debt_scaled |-> 0, entry_notional |-> 0]

-----------------------------------------------------------------------------
\* Price of the program's own venue: the AMM once Live, the curve before.
curve_spot(sol, tokens) == spot_per_nft(sol, tokens)
amm_spot_per_nft == spot_per_nft(amm_sol_reserve, amm_token_reserve)

\* The mark EMA takes one step toward spot, at most once per timestamp; a
\* market with no venue price (spot = 0) keeps its mark.
update_mark(spot) ==
    IF spot # 0 /\ now > mark_last_ts
    THEN /\ mark_ema' = ema_step(mark_ema, spot, now - mark_last_ts, params.mark_window_secs)
         /\ mark_last_ts' = now
    ELSE UNCHANGED markVars

\* The index exists and, unless the guard is disabled, is not too old.
require_fresh_index ==
    /\ index_twap > 0
    /\ params.max_index_age_secs > 0 => now - index_last_ts <= params.max_index_age_secs

\* System transfers.  A transfer out of the vault fails when it would leave
\* the vault with lamports but below the rent-exempt minimum.
transfer_in(amount) ==
    /\ amount <= wallet
    /\ vault' = vault + amount
    /\ wallet' = wallet - amount

transfer_out(amount) ==
    /\ amount <= vault
    /\ vault - amount = 0 \/ vault - amount >= RentBuffer
    /\ vault' = vault - amount
    /\ wallet' = wallet + amount

\* A bug: the creator's share stays in the protocol's counter too.
split_fee_twice(fee) ==
    /\ creator_fee_lamports' = creator_fee_lamports + mul_bps(fee, CREATOR_FEE_SHARE_BPS)
    /\ fee_lamports' = fee_lamports + fee

\* Half of a trade fee is the creator's, the rest the protocol's.
split_fee(fee) ==
    LET creator_cut == mul_bps(fee, CREATOR_FEE_SHARE_BPS)
    IN  /\ creator_fee_lamports' = creator_fee_lamports + creator_cut
        /\ fee_lamports' = fee_lamports + (fee - creator_cut)
-----------------------------------------------------------------------------
\* The price feeds: the index TWAP with its circuit breaker, the pushed mark
\* of an external market, the admin's freeze and parameter update, and the
\* clock they are all read against.

\* Everything the oracle and the admin never touch.
oracleFrame == <<status, venue, curveVars, ammVars, fundingVars, shortVars,
                 insurance_lamports, feeVars, itemVars, lamportVars, tokenVars>>

AbsDiff(a, b) == IF a >= b THEN a - b ELSE b - a

\* dt::MAX when nothing was pushed yet: any window is covered.
since(last_ts, window_secs) == IF last_ts = 0 THEN Max2(window_secs, 1) ELSE now - last_ts

push_due(last_ts) == last_ts = 0 \/ now - last_ts >= params.min_push_interval_secs

\* A bug: the deviation is measured downwards only.
breaker_trips_below(price) ==
    /\ index_twap # 0
    /\ (Max2(index_twap - price, 0) * BPS) \div Max2(index_twap, 1) > params.breaker_bps

\* The push deviates from the TWAP by more than the breaker allows.
breaker_trips(price) ==
    /\ index_twap # 0
    /\ (AbsDiff(price, index_twap) * BPS) \div index_twap > params.breaker_bps

\* An accepted push moves the TWAP; a deviating one freezes the market and
\* leaves the TWAP alone.  Both restart the staleness and rate-limit clock.
push_index(price) ==
    /\ status # "None"
    /\ ~frozen /\ price > 0
    /\ push_due(index_last_ts)
    /\ index_last_ts' = now
    /\ IF breaker_trips(price)
       THEN frozen' = TRUE /\ UNCHANGED index_twap
       ELSE /\ index_twap' = ema_step(index_twap, price,
                                 since(index_last_ts, params.index_window_secs),
                                 params.index_window_secs)
            /\ UNCHANGED frozen
    /\ UNCHANGED <<oracleFrame, params, markVars, now>>

push_mark(price) ==
    /\ status # "None"
    /\ venue = "External" /\ ~frozen /\ price > 0
    /\ push_due(mark_last_ts)
    /\ mark_ema' = ema_step(mark_ema, price, since(mark_last_ts, params.mark_window_secs),
                            params.mark_window_secs)
    /\ mark_last_ts' = now
    /\ UNCHANGED <<oracleFrame, params, frozen, indexVars, now>>

set_frozen(flag) ==
    /\ status # "None"
    /\ frozen' = flag
    /\ UNCHANGED <<oracleFrame, params, indexVars, markVars, now>>

\* Every risk parameter may change at any time except the curve's reserves.
update_market_params(p) ==
    /\ status # "None"
    /\ p.curve_virtual_sol = params.curve_virtual_sol
    /\ p.curve_virtual_tokens = params.curve_virtual_tokens
    /\ params' = p
    /\ UNCHANGED <<oracleFrame, frozen, indexVars, markVars, now>>
=============================================================================
