----------------------------- MODULE FixedMath -----------------------------
(***************************************************************************)
(* The integer arithmetic of the floorlaunch program: basis points, the    *)
(* constant-product swap, the EMA step and the funding-scaled debt units.  *)
(* The program computes in u128 and casts the result to u64; the cast is   *)
(* modelled (U64), the u128 intermediates are unbounded integers.          *)
(*                                                                         *)
(* The scale factors are constants so that TLC can run the same formulas   *)
(* on small numbers.  In the program BPS = 10000, BASE_UNITS_PER_NFT =     *)
(* FUNDING_ONE = 10^12, MICRO = 10^6, DAY = 86400,                         *)
(* CREATOR_FEE_SHARE_BPS = 5000 and MAX_U64 = 2^64 - 1.                    *)
(***************************************************************************)
EXTENDS Integers

CONSTANTS BPS, BASE_UNITS_PER_NFT, FUNDING_ONE, MICRO, DAY,
          CREATOR_FEE_SHARE_BPS, MAX_U64

ASSUME ScaleAssumption ==
    /\ BPS \in Nat \ {0}
    /\ BASE_UNITS_PER_NFT \in Nat \ {0}
    /\ FUNDING_ONE \in Nat \ {0}
    /\ MICRO \in Nat \ {0}
    /\ DAY \in Nat \ {0}
    /\ CREATOR_FEE_SHARE_BPS \in 0..BPS
    /\ MAX_U64 \in Nat \ {0}

U64Range == 0..MAX_U64

\* The result of a checked u64 addition exists; otherwise the transaction aborts.
Fits(n) == n <= MAX_U64

\* `n as u64`: the cast keeps the low 64 bits.
U64(n) == n % (MAX_U64 + 1)

Min2(a, b) == IF a <= b THEN a ELSE b
Max2(a, b) == IF a >= b THEN a ELSE b
Clamp(n, lo, hi) == Max2(lo, Min2(n, hi))

CeilDiv(a, b) == (a + b - 1) \div b

\* Rust's integer division truncates toward zero; b is positive.
TruncDiv(a, b) == IF a >= 0 THEN a \div b ELSE -((-a) \div b)

-----------------------------------------------------------------------------
\* A fee: amount * bps / 10000, rounded down.
mul_bps(amount, bps) == U64((amount * bps) \div BPS)

\* A bug the proofs and the runs must notice: the swap rounded in the
\* trader's favour.
cp_out_floor(reserve_in, reserve_out, amount_in) ==
    reserve_out - ((reserve_in * reserve_out) \div (reserve_in + amount_in))

\* A bug: the whole amount is swapped at the price before the trade.
cp_out_spot(reserve_in, reserve_out, amount_in) ==
    Min2((amount_in * reserve_out) \div reserve_in, reserve_out - 1)

\* Constant-product output for amount_in against (reserve_in, reserve_out):
\* the remaining reserve is rounded up.
cp_out(reserve_in, reserve_out, amount_in) ==
    reserve_out - CeilDiv(reserve_in * reserve_out, reserve_in + amount_in)

\* A bug: the step adds the spot's share and forgets to decay the old value.
ema_step_undecayed(ema, spot, dt, window_secs) ==
    LET w == Max2(window_secs, 1)
    IN  IF ema = 0 THEN spot
        ELSE U64((ema * w + spot * Min2(Max2(dt, 0), w)) \div w)

\* Pull ema toward spot by min(dt, window)/window; a zero ema adopts the spot.
ema_step(ema, spot, dt, window_secs) ==
    LET w == Max2(window_secs, 1)
        d == Min2(Max2(dt, 0), w)
    IN  IF ema = 0 THEN spot
        ELSE U64((ema * (w - d) + spot * d) \div w)

\* Price of one NFT unit, in lamports, for reserves (sol, tokens).
spot_per_nft(sol, tokens) ==
    IF tokens = 0 THEN 0 ELSE U64((sol * BASE_UNITS_PER_NFT) \div tokens)

\* Token debt behind a funding-scaled debt, rounded down.
debt_from_scaled(scaled, funding) == U64((scaled * funding) \div FUNDING_ONE)

\* The scaled debt recorded for a new debt, rounded up.
scaled_from_debt(debt, funding) == CeilDiv(debt * FUNDING_ONE, funding)

\* Lamport value of token base units at an index price.
value_at_index(base_units, twap) == U64((base_units * twap) \div BASE_UNITS_PER_NFT)
=============================================================================
