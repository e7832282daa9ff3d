------------------------------ MODULE Candles ------------------------------
(***************************************************************************)
(* From pool transactions to the chart: parseMeteoraSwap reads a swap off  *)
(* the balance changes of a pool's two vaults, the feed keeps the trades   *)
(* in the order they arrive, and candles() buckets them by their block     *)
(* times (src/indexer/src/index.ts). The machine is a pool on which swaps, *)
(* fee claims and liquidity deposits happen and whose transactions reach   *)
(* the feed later and in any order. Prices are kept as the pair of amounts *)
(* they divide, compared by cross multiplication.                          *)
(***************************************************************************)
EXTENDS Integers, Sequences, FiniteSets, SequencesExt, FiniteSetsExt

CONSTANTS Tokens, Sols,  \* amounts of the token and of SOL in one transaction
          MaxTxs,        \* bound: transactions
          MaxTime,       \* bound: time
          Width,         \* tf: the width of a candle
          Limit          \* the newest candles that are returned

VARIABLES now,
          txs,           \* [kind, ts, dBase, dQuote] of every transaction of the pool
          feed,          \* trades in order of arrival
          fed            \* transactions that arrived

vars == <<now, txs, feed, fed>>

Init == now = 0 /\ txs = <<>> /\ feed = <<>> /\ fed = {}

Tick == now < MaxTime /\ now' = now + 1 /\ UNCHANGED <<txs, feed, fed>>

(* A buyer takes tokens out of the pool and pays SOL in, a seller the      *)
(* reverse; a claim takes SOL; a deposit brings both.                      *)
Deltas(kind, b, q) ==
  CASE kind = "buy" -> <<-b, q>> [] kind = "sell" -> <<b, -q>>
    [] kind = "claim" -> <<0, -q>> [] kind = "deposit" -> <<b, q>>

Happen == \E kind \in {"buy", "sell", "claim", "deposit"}, b \in Tokens, q \in Sols :
  /\ Len(txs) < MaxTxs
  /\ txs' = Append(txs, [kind |-> kind, ts |-> now,
                         dBase |-> Deltas(kind, b, q)[1], dQuote |-> Deltas(kind, b, q)[2]])
  /\ UNCHANGED <<now, feed, fed>>

-----------------------------------------------------------------------------
(* The indexer. *)

Abs(x) == IF x < 0 THEN -x ELSE x
None == [side |-> "none"]

side_by_quote(dBase) == IF dBase > 0 THEN "buy" ELSE "sell"
side_of(dBase) == IF dBase < 0 THEN "buy" ELSE "sell"

parseMeteoraSwap(tx) ==
  IF tx.dBase = 0 \/ tx.dQuote = 0 THEN None
  ELSE [ts |-> tx.ts, side |-> side_of(tx.dBase), sol |-> Abs(tx.dQuote), tokens |-> Abs(tx.dBase)]

Arrive == \E i \in DOMAIN txs \ fed :
  /\ fed' = fed \cup {i}
  /\ feed' = IF parseMeteoraSwap(txs[i]) = None THEN feed ELSE Append(feed, parseMeteoraSwap(txs[i]))
  /\ UNCHANGED <<now, txs>>

Higher(t, u) == t.sol * u.tokens > u.sol * t.tokens        \* price of t above that of u

bucket(t) == (t.ts \div Width) * Width
opened(t) == [open |-> t, high |-> t, low |-> t, close |-> t, volume |-> t.sol, trades |-> 1]
updated_close_only(c, t) == [c EXCEPT !.close = t, !.volume = @ + t.sol, !.trades = @ + 1]
updated(c, t) ==
  [c EXCEPT !.high = IF Higher(t, @) THEN t ELSE @, !.low = IF Higher(@, t) THEN t ELSE @,
            !.close = t, !.volume = @ + t.sol, !.trades = @ + 1]

(* One pass over the feed: a trade opens its candle or updates it.         *)
Buckets(trades) ==
  FoldLeft(LAMBDA cs, t : LET b == bucket(t) IN
             [k \in DOMAIN cs \cup {b} |->
                IF k # b THEN cs[k] ELSE IF b \in DOMAIN cs THEN updated(cs[b], t) ELSE opened(t)],
           << >>, trades)

oldest_first(times) ==
  [n \in 1..Cardinality(times) |-> CHOOSE t \in times : Cardinality({u \in times : u <= t}) = n]

(* The newest candles, oldest first. *)
candles ==
  LET times == oldest_first(DOMAIN Buckets(feed))
      first == IF Len(times) > Limit THEN Len(times) - Limit + 1 ELSE 1
  IN  [n \in 1..(Len(times) - first + 1) |->
         [time |-> times[first + n - 1], candle |-> Buckets(feed)[times[first + n - 1]]]]

Next == Tick \/ Happen \/ Arrive
Spec == Init /\ [][Next]_vars

-----------------------------------------------------------------------------
(* Properties. *)

(* Whatever else touches the pool, every swap that arrived is in the feed  *)
(* with the trader's side and the amounts that moved, at its block time.   *)
SwapsParsed ==
  \A i \in fed : txs[i].kind \in {"buy", "sell"} =>
    \E n \in DOMAIN feed :
      /\ feed[n].side = txs[i].kind /\ feed[n].ts = txs[i].ts
      /\ feed[n].tokens = Abs(txs[i].dBase) /\ feed[n].sol = Abs(txs[i].dQuote)

(* In whatever order trades arrive, each candle returned has exactly the   *)
(* trades of its interval: their number, their volume, and among them one  *)
(* that no other exceeds, one that none undercuts, the first and the last  *)
(* to arrive; and no interval with trades is skipped.                      *)
CandlesMatchTrades ==
  LET within(t) == {n \in DOMAIN feed : t <= feed[n].ts /\ feed[n].ts < t + Width} IN
  /\ \A k \in DOMAIN candles :
       LET c == candles[k].candle  S == within(candles[k].time) IN
       /\ c.trades = Cardinality(S)
       /\ c.volume = SumFunctionOnSet([n \in DOMAIN feed |-> feed[n].sol], S)
       /\ \A n \in S : ~Higher(feed[n], c.high) /\ ~Higher(c.low, feed[n])
       /\ c.open = feed[Min(S)] /\ c.close = feed[Max(S)]
       /\ {c.high, c.low} \subseteq {feed[n] : n \in S}
  /\ \A n \in DOMAIN feed :
       \/ \E k \in DOMAIN candles : n \in within(candles[k].time)
       \/ Len(candles) = Limit /\ feed[n].ts < candles[1].time

(* index.ts says it derives "each swap from the base/quote vault balance   *)
(* deltas": what it feeds are swaps.                                       *)
OnlySwapsFed ==
  \A n \in DOMAIN feed : \E i \in fed :
    txs[i].kind = feed[n].side /\ txs[i].ts = feed[n].ts /\ Abs(txs[i].dBase) = feed[n].tokens
=============================================================================
