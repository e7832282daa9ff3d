---------------------------- MODULE Floorlaunch ----------------------------
(***************************************************************************)
(* One market of the floorlaunch program: every instruction that changes   *)
(* it, interleaved in any order by any number of callers, and the clock.   *)
(* The constants below are the inputs the callers choose from.             *)
(***************************************************************************)
EXTENDS Trading, Shorts, Functions

CONSTANTS
    Venues,         \* how the market may be created
    SolAmounts,     \* sol_in of a buy
    TokenAmounts,   \* tokens_in of a sell, size of a short
    TransferAmounts,\* plain token transfers into the market's accounts
    LamportAmounts, \* collateral, insurance and fee amounts
    IndexPrices,    \* price_lamports of push_index
    MarkPrices,     \* price_lamports of push_mark
    FreezeFlags,    \* what the admin may set frozen to
    MaxNow          \* bound on the clock

ASSUME InputAssumption ==
    /\ SolAmounts \subseteq U64Range /\ TokenAmounts \subseteq U64Range
    /\ TransferAmounts \subseteq U64Range
    /\ LamportAmounts \subseteq U64Range
    /\ IndexPrices \subseteq U64Range /\ MarkPrices \subseteq U64Range
    /\ FreezeFlags \subseteq BOOLEAN
    /\ MaxNow \in Nat

NoParams ==
    [index_window_secs |-> 0, min_push_interval_secs |-> 0, breaker_bps |-> 0,
     max_index_age_secs |-> 0, mark_window_secs |-> 0, funding_k_bps |-> 0,
     max_funding_bps_per_day |-> 0, min_crank_interval_secs |-> 0,
     initial_cr_bps |-> 0, maintenance_cr_bps |-> 0, liq_bonus_bps |-> 0,
     max_open_interest |-> 0, item_reserve |-> 0, units_per_item_micro |-> 0,
     curve_fee_bps |-> 0, amm_fee_bps |-> 0, graduation_target_sol |-> 0,
     insurance_share_bps |-> 0, curve_virtual_sol |-> 0, curve_virtual_tokens |-> 0]

\* No market account yet: all fields are zero, all lamports are in wallets.
Init ==
    /\ status = "None" /\ venue = "Internal" /\ frozen = FALSE /\ params = NoParams
    /\ index_twap = 0 /\ index_last_ts = 0
    /\ curve_virtual_sol = 0 /\ curve_virtual_tokens = 0
    /\ curve_sol_raised = 0 /\ curve_tokens_sold = 0
    /\ amm_sol_reserve = 0 /\ amm_token_reserve = 0
    /\ mark_ema = 0 /\ mark_last_ts = 0
    /\ funding_index = 0 /\ funding_last_ts = 0
    /\ total_debt_scaled = 0 /\ total_collateral = 0
    /\ insurance_lamports = 0 /\ fee_lamports = 0 /\ creator_fee_lamports = 0
    /\ items_deposited = 0
    /\ position = [o \in Owners |-> NoPosition]
    /\ registered = {} /\ escrow_item = [i \in ItemMints |-> 0]
    /\ vault = 0 /\ wallet = TotalLamports
    /\ pool_token = 0 /\ treasury = 0 /\ item_reserve = 0 /\ circulating = 0
    /\ now = 1

Tick ==
    /\ now < MaxNow
    /\ now' = now + 1
    /\ UNCHANGED <<configVars, frozen, indexVars, curveVars, ammVars, markVars, fundingVars,
                   shortVars, insurance_lamports, feeVars, itemVars, lamportVars, tokenVars>>

\* A plain SPL transfer of user tokens into one of the market's accounts; an
\* external market's item reserve is funded this way.
spl_transfer(amount, to_pool) ==
    /\ status # "None"
    /\ to_pool => venue = "Internal"        \* only an internal market has a pool
    /\ amount <= circulating
    /\ circulating' = circulating - amount
    /\ pool_token' = IF to_pool THEN pool_token + amount ELSE pool_token
    /\ item_reserve' = IF to_pool THEN item_reserve ELSE item_reserve + amount
    /\ UNCHANGED <<configVars, frozen, indexVars, curveVars, ammVars, markVars, fundingVars,
                   shortVars, insurance_lamports, feeVars, itemVars, lamportVars, treasury, now>>

CreateNext ==
    \E p \in ParamSets :
        \/ "Internal" \in Venues /\ create_market(p)
        \/ "External" \in Venues /\ create_external_market(p)

TradeNext ==
    \/ \E s \in SolAmounts : curve_buy(s) \/ amm_buy(s)
    \/ \E t \in TokenAmounts : curve_sell(t) \/ amm_sell(t)
    \/ graduate

FundNext ==
    \/ \E a \in LamportAmounts : fund_insurance(a) \/ withdraw_fees(a)
    \/ withdraw_creator_fees

OracleNext ==
    \/ \E p \in IndexPrices : push_index(p)
    \/ \E p \in MarkPrices : push_mark(p)
    \/ \E f \in FreezeFlags : set_frozen(f)
    \/ \E p \in ParamSets : update_market_params(p)

ShortNext ==
    \/ \E o \in Owners :
        \/ \E a \in LamportAmounts :
            \/ \E t \in TokenAmounts : open_short(o, a, t)
            \/ add_collateral(o, a)
            \/ withdraw_collateral(o, a)
        \/ liquidate(o)
        \/ close_position(o)
    \/ accrue_funding

ItemNext ==
    \/ \E i \in ItemMints : register_item(i) \/ deposit_item(i) \/ withdraw_item(i)
    \/ \E t \in TransferAmounts, to_pool \in BOOLEAN : spl_transfer(t, to_pool)

Next == CreateNext \/ TradeNext \/ FundNext \/ OracleNext \/ ShortNext \/ ItemNext \/ Tick

Spec == Init /\ [][Next]_vars

-----------------------------------------------------------------------------
\* Lamports the program's books owe out of the vault.
venue_sol == IF status = "Live" THEN amm_sol_reserve ELSE curve_sol_raised

Claims == venue_sol + insurance_lamports + fee_lamports + creator_fee_lamports
            + total_collateral

\* Tokens the venue's next trades may have to pay out of the pool account.
venue_tokens == IF status = "Live" THEN amm_token_reserve ELSE curve_virtual_tokens

venue_price(sol, tokens) == spot_per_nft(sol, tokens)

TypeOK ==
    /\ status \in {"None", "Bootstrap", "Live"}
    /\ venue \in {"Internal", "External"}
    /\ frozen \in BOOLEAN
    /\ params \in MarketParams
    /\ index_twap \in U64Range /\ index_last_ts \in Nat
    /\ curve_virtual_sol \in U64Range /\ curve_virtual_tokens \in U64Range
    /\ curve_sol_raised \in U64Range /\ curve_tokens_sold \in U64Range
    /\ amm_sol_reserve \in U64Range /\ amm_token_reserve \in U64Range
    /\ mark_ema \in U64Range /\ mark_last_ts \in Nat
    /\ funding_index \in Nat /\ funding_last_ts \in Nat
    /\ total_debt_scaled \in Nat /\ total_collateral \in U64Range
    /\ insurance_lamports \in U64Range
    /\ fee_lamports \in U64Range /\ creator_fee_lamports \in U64Range
    /\ items_deposited \in Nat
    /\ position \in [Owners -> [open : BOOLEAN, collateral : U64Range, debt_scaled : Nat,
                                entry_notional : U64Range]]
    /\ registered \subseteq ItemMints
    /\ escrow_item \in [ItemMints -> Nat]
    /\ vault \in U64Range /\ wallet \in U64Range
    /\ pool_token \in U64Range /\ treasury \in U64Range
    /\ item_reserve \in U64Range /\ circulating \in U64Range
    /\ now \in Nat

\* The vault can pay, at any moment, everything the books owe -- venue
\* liquidity, insurance, both fee shares and all short collateral -- and still
\* keep its rent buffer, so no payout can fail or strand the vault (transfer_out).
VaultCovers == status # "None" => vault >= RentBuffer + Claims

\* Every token the curve sold can be sold back to it: whatever was bought and
\* sold before, the SOL owed for t tokens was really raised (the check in
\* curve_sell that reports InsufficientVaultFunds never stops an exit).
ExitsCovered ==
    status = "Bootstrap" =>
        \A t \in 1..curve_tokens_sold :
            cp_out(curve_virtual_tokens, curve_virtual_sol, t) <= curve_sol_raised

\* The pool account holds every token the curve or the AMM may pay out.
PoolCovers == venue = "Internal" /\ status # "None" => pool_token >= venue_tokens

\* One step: the product of the reserves traded against does not fall.
ProductKept ==
    /\ status = "Bootstrap" /\ status' = "Bootstrap" =>
         curve_virtual_sol * curve_virtual_tokens <= curve_virtual_sol' * curve_virtual_tokens'
    /\ status = "Live" =>
         amm_sol_reserve * amm_token_reserve <= amm_sol_reserve' * amm_token_reserve'

\* No trade lowers the product of the reserves it trades against: rounding is
\* never in the trader's favour, so no sequence of trades extracts value.
KNeverFalls == [][ProductKept]_vars

\* One step: the AMM and the insurance fund hold the whole raise, and nothing but
\* the raise and what the fund held before; the AMM is seeded at the closing price.
SeededAtPrice ==
    status = "Bootstrap" /\ status' = "Live" =>
      /\ amm_sol_reserve' <= curve_sol_raised
      /\ curve_sol_raised <= amm_sol_reserve' + insurance_lamports'
      /\ amm_sol_reserve' + insurance_lamports' <= curve_sol_raised + insurance_lamports
      /\ amm_token_reserve' * curve_virtual_sol <= amm_sol_reserve' * curve_virtual_tokens
      /\ amm_sol_reserve' * curve_virtual_tokens < (amm_token_reserve' + 1) * curve_virtual_sol

\* Graduation loses nothing of the raise and opens the AMM at the curve's closing
\* price, never below it. What becomes of insurance funded before is another
\* matter (InsuranceNeverLost): the property asks neither to keep nor to drop it.
GraduationKeepsPrice == [][SeededAtPrice]_vars

Between(x, a, b) == (a <= x /\ x <= b) \/ (b <= x /\ x <= a)

\* One step: the mark of a Live internal market stays between where it was and
\* the price of the reserves the step leaves.
MarkMovesToPrice ==
    status = "Live" /\ venue = "Internal" =>
      Between(mark_ema', mark_ema, venue_price(amm_sol_reserve', amm_token_reserve'))

\* The mark of a Live internal market only moves toward the AMM's price, and
\* never past it: one trade cannot throw the mark beyond the price it made.
MarkNeverOvershoots == [][MarkMovesToPrice]_vars

\* The market's totals are the sums of the positions they stand for, whatever
\* was opened, topped up, liquidated and closed in whatever order.
BooksMatchPositions ==
    /\ total_debt_scaled = SumFunction([o \in Owners |-> position[o].debt_scaled])
    /\ total_collateral = SumFunction([o \in Owners |-> position[o].collateral])

\* Token units one scaled unit of debt stands for, rounded up: what rounding a
\* new leg up may add to a position on top of the size that was checked.
debt_quantum == funding_index \div FUNDING_ONE + 1

\* One step: at the same prices a covered short stays covered but for one quantum.
StaysCovered ==
    \A o \in Owners :
      /\ ~underwater(o)
      /\ UNCHANGED <<index_twap, funding_index, params>>
      => covered(position'[o].collateral, Max2(debt_of(o)' - debt_quantum, 0),
                 params.maintenance_cr_bps)

\* Nobody's instruction can push a healthy short below maintenance by more than
\* the rounding of a new leg: only a new index, a funding crank or an admin
\* parameter change can.
HealthyUntilPricesMove == [][StaysCovered]_vars

\* One step: the funding index moves by at most the clamped share of itself.
FundingMoveBounded ==
    status = "Live" /\ funding_index' # funding_index =>
      /\ Max2(funding_index - funding_index', funding_index' - funding_index) * BPS
            <= funding_index * params.max_funding_bps_per_day
      /\ funding_index' > 0

\* A crank moves the funding index by at most the clamped daily rate however
\* late it comes, and never to zero or below.
FundingBounded == [][FundingMoveBounded]_vars

\* One step: what leaves the fund is the profit of the short that closes.
FundPaysProfit ==
    status = "Live" /\ insurance_lamports' < insurance_lamports =>
      \E o \in Owners :
          /\ position[o].open /\ ~position'[o].open
          /\ wallet' - wallet =
               position[o].collateral + (insurance_lamports - insurance_lamports')

\* Once Live, the insurance fund only ever pays the profit of a short that is
\* closing: what leaves the fund goes to that owner on top of the collateral.
InsuranceOnlyPaysShorts == [][FundPaysProfit]_vars

\* Nobody is stuck: on an unfrozen market with a fresh index an open position
\* always settles and an underwater one can always be liquidated -- no checked
\* subtraction of the totals, no dry fund and no rent check of the vault aborts.
PositionsSettle ==
    ~frozen /\ require_fresh_index =>
        \A o \in Owners : position[o].open =>
            /\ ENABLED close_position(o)
            /\ status = "Live" /\ debt_of(o) > 0 /\ underwater(o) => ENABLED liquidate(o)

\* One step that starts and ends frozen.
FrozenHolds ==
    frozen /\ frozen' =>
      /\ UNCHANGED <<status, indexVars, markVars, curveVars, ammVars, fundingVars,
                     total_debt_scaled, escrow_item>>
      /\ insurance_lamports' >= insurance_lamports
      /\ total_collateral' >= total_collateral

\* While a market stays frozen no price, reserve, debt or fund payout moves.
FrozenHoldsPrices == [][FrozenHolds]_vars

\* One step: a TWAP that moves does so by less than the breaker trips at.
TwapMoveBounded ==
    index_twap # 0 /\ index_twap' # index_twap =>
      /\ ~frozen /\ ~frozen'
      /\ AbsDiff(index_twap', index_twap) * BPS < index_twap * (params.breaker_bps + 1)

\* One push moves an existing TWAP by at most the breaker's share of it, and a
\* push beyond the breaker freezes the market with the TWAP where it was.
TwapWithinBreaker == [][TwapMoveBounded]_vars

\* All tokens of the market, in its own accounts and in the users'.
Supply == pool_token + treasury + item_reserve + circulating

\* One step: tokens only move between accounts; graduation alone burns.
SupplyShrinks ==
    status # "None" =>
      /\ Supply' <= Supply
      /\ Supply' < Supply => status = "Bootstrap" /\ status' = "Live"

\* The supply is fixed at creation: tokens only move between accounts, and
\* graduation is the one step that burns any.
SupplyOnlyShrinks == [][SupplyShrinks]_vars

\* What one item is worth at the index, in lamports, scaled to divide by a mark.
item_worth == index_twap * BASE_UNITS_PER_NFT * params.units_per_item_micro

\* One step: the tokens of a swap, at its mark, against the worth of the item.
DepositFair ==
    items_deposited' > items_deposited =>
        (item_reserve - item_reserve') * mark_ema' * MICRO <= item_worth
WithdrawalFair ==
    items_deposited' < items_deposited =>
        (item_reserve' - item_reserve + 1) * mark_ema' * MICRO > item_worth

SwapFair == DepositFair /\ WithdrawalFair

\* A deposit never pays tokens worth more, at the mark it used, than the item
\* at the index; a withdrawal never asks for less than that, up to rounding.
ItemSwapFair == [][SwapFair]_vars
=============================================================================
