--------------------------- MODULE MCFloorlaunch ---------------------------
(***************************************************************************)
(* The four small markets the program is model-checked on, each            *)
(* configuration with one of the parameter sets below; and what the        *)
(* documentation says of the program and the code does not do.             *)
(***************************************************************************)
EXTENDS Floorlaunch, TLC

\* What the four markets share.
SharedParams ==
    [index_window_secs |-> 1, min_push_interval_secs |-> 1, breaker_bps |-> 10,
     max_index_age_secs |-> 2, mark_window_secs |-> 2, funding_k_bps |-> 10,
     max_funding_bps_per_day |-> 5, min_crank_interval_secs |-> 1,
     initial_cr_bps |-> 15, maintenance_cr_bps |-> 12, liq_bonus_bps |-> 1,
     max_open_interest |-> 4, item_reserve |-> 0, units_per_item_micro |-> 1,
     curve_fee_bps |-> 2, amm_fee_bps |-> 2, graduation_target_sol |-> 4,
     insurance_share_bps |-> 2, curve_virtual_sol |-> 8, curve_virtual_tokens |-> 15]

\* A small internal market: a curve of 8 virtual lamports against 15 virtual
\* tokens, graduating after 5 lamports.  A curve fee of 40% makes fees large
\* enough for both shares to receive something.
TradingParams ==
    {[SharedParams EXCEPT !.index_window_secs = 2, !.min_push_interval_secs = 0,
        !.breaker_bps = 5, !.max_index_age_secs = 0, !.max_open_interest = 10,
        !.curve_fee_bps = 4, !.graduation_target_sol = 5]}

\* A market under a moving index, whose admin freezes, unfreezes and changes
\* the breaker while traders and one hedger act.
OracleParams ==
    {[SharedParams EXCEPT !.index_window_secs = 2, !.insurance_share_bps = 3,
        !.breaker_bps = breaker] : breaker \in {3, 6}}

\* An external market with two hedgers: initial collateral ratio 150%,
\* maintenance 120%, funding clamped at 50% a day.
ShortsParams ==
    {[SharedParams EXCEPT !.mark_window_secs = 1, !.liq_bonus_bps = 4,
        !.graduation_target_sol = 5]}

\* The clamp every launch script configures: 100% of debt per day.
FullClampParams == {[p EXCEPT !.max_funding_bps_per_day = 10] : p \in ShortsParams}

\* A market with an item reserve and two registrable item mints, one of them
\* with two copies.
ItemsParams ==
    {[SharedParams EXCEPT !.min_push_interval_secs = 0, !.max_open_interest = 2,
        !.item_reserve = 14, !.units_per_item_micro = 3, !.curve_virtual_sol = 3]}

FirstMint == CHOOSE i \in ItemMints : TRUE
TwoItems == [i \in ItemMints |-> IF i = FirstMint THEN 1 ELSE 2]
NoItems == <<>>

OwnerSymmetry == Permutations(Owners)

-----------------------------------------------------------------------------
(* What the repository's documentation and comments say of the program and *)
(* the code does not do.  TLC refutes each on one of the markets.          *)


\* lib.rs:1021 "the curve's virtual-reserve spot is the venue price": each
\* bootstrap step moves the mark toward the spot of the reserves it leaves.
\* curve_sell feeds the mark before it lowers the SOL reserve.
CurveMarkFollowsSpot ==
    [][status = "Bootstrap" /\ status' = "Bootstrap" =>
        Between(mark_ema', mark_ema, curve_spot(curve_virtual_sol', curve_virtual_tokens'))]_vars

\* docs/concepts/insurance-fund.mdx:16 "insurance can never be spent as
\* anything else": it only falls when a short closes.  graduate overwrites it.
InsuranceNeverLost ==
    [][insurance_lamports' < insurance_lamports =>
        \E o \in Owners : position[o].open /\ ~position'[o].open]_vars

\* docs/concepts/funding.mdx:34 "the linear step can never zero the funding
\* index": a crank that is due never aborts on a zero index.
FundingNeverBricks ==
    crank_due /\ venue = "External" =>
        next_funding_index(funding_rate(mark_ema), now - funding_last_ts) > 0

\* state.rs:97 "Blocks everything except add_collateral and admin ops":
\* fund_insurance and withdraw_creator_fees are neither.
FrozenBlocksTheRest ==
    [][frozen => UNCHANGED <<insurance_lamports, creator_fee_lamports>>]_vars

\* docs/concepts/circuit-breaker.mdx:54 "the staleness guard keeps index-priced
\* operations blocked until that push lands": a market just unfrozen has no
\* fresh index.  The push that trips the breaker refreshes index_last_ts.
UnfreezeWaitsForPush ==
    [][frozen /\ ~frozen' => ~(require_fresh_index')]_vars

\* docs/concepts/circuit-breaker.mdx:57 "funding resumes from the unfreeze
\* time; the frozen interval is not retroactively charged".  set_frozen leaves
\* funding_last_ts alone.
FundingResumesAtUnfreeze ==
    [][frozen /\ ~frozen' /\ status = "Live" => funding_last_ts' = now]_vars

\* docs/concepts/shorts.mdx:37 "total short notional across all positions cannot
\* exceed max_open_interest": funding grows the debt past the cap.
OpenInterestCapped ==
    debt_from_scaled(total_debt_scaled, funding_index)
        <= params.max_open_interest

\* docs/concepts/liquidations.mdx:44 "the insurance fund tops up the
\* difference, up to its available balance": the liquidator's bonus is paid in
\* full while collateral and insurance can pay it.
BonusToppedUp ==
    [][\A o \in Owners :
        /\ position[o].debt_scaled > 0 /\ position'[o].debt_scaled = 0 /\ position'[o].open
        => wallet' - wallet >=
             Min2(mul_bps(notional_of(o), params.liq_bonus_bps),
                  position[o].collateral - loss_of(o) + insurance_lamports)]_vars
=============================================================================
