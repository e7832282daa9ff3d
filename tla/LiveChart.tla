----------------------------- MODULE LiveChart -----------------------------
(***************************************************************************)
(* The candles of the market page: src/app/src/components/Chart.tsx. The   *)
(* history of a market and interval is fetched whenever one of them        *)
(* changes; meanwhile and afterwards every trade the socket brings is      *)
(* drawn into the last candle, whichever that is. The market page as a     *)
(* whole is AppView; here are the bars.                                    *)
(***************************************************************************)
EXTENDS Integers, Sequences, SequencesExt, FiniteSets

CONSTANTS Markets,
          Prices,
          Widths,      \* candle intervals the user may choose
          MaxTrades,   \* bound: trades
          MaxTime,     \* bound: the clock
          MaxSelects   \* bound: changes of market or interval

VARIABLES now,
          feed,        \* feed[m]: the trades of a market, oldest first
          queue,       \* messages on the socket: [market, trade]
          asked,       \* histories asked for: [market, tf, bars, behind, dead]
          market, tf,  \* what is selected
          bars,        \* the candles drawn, by time
          last,        \* lastCandle: << >> or <<bar>>
          selects

vars == <<now, feed, queue, asked, market, tf, bars, last, selects>>
server == <<now, feed>>

Unserved == 0 - 1
Bucket(ts, width) == (ts \div width) * width

(* The bar a trade starts, and the bar it makes of an earlier one.         *)
opened(t, width) ==
  [time |-> Bucket(t.ts, width), open |-> t.price, high |-> t.price, low |-> t.price,
   close |-> t.price, trades |-> 1]
merged(c, t) ==
  [c EXCEPT !.high = IF t.price > @ THEN t.price ELSE @, !.low = IF t.price < @ THEN t.price ELSE @,
            !.close = t.price, !.trades = @ + 1]

starts_never(c, t, width) == c = << >>
starts(c, t, width) == c = << >> \/ c[1].time < Bucket(t.ts, width)

live(c, t, width) == IF starts(c, t, width) THEN opened(t, width) ELSE merged(c[1], t)

(* A candle drawn at the time of the last one replaces it, a later one is  *)
(* added.                                                                  *)
update(bs, c) ==
  IF bs # << >> /\ Last(bs).time = c.time THEN [bs EXCEPT ![Len(bs)] = c] ELSE Append(bs, c)

(* GET /candles, which Candles models: the bars of all the trades.         *)
candles(m, width) ==
  FoldLeft(LAMBDA bs, t :
             IF bs # << >> /\ Last(bs).time = Bucket(t.ts, width)
             THEN [bs EXCEPT ![Len(bs)] = merged(@, t)] ELSE Append(bs, opened(t, width)),
           << >>, feed[m])

Request(m, width) ==
  [market |-> m, tf |-> width, bars |-> << >>, behind |-> Unserved, dead |-> FALSE]

Init ==
  /\ now = 0 /\ feed = [m \in Markets |-> << >>] /\ queue = << >>
  /\ market = CHOOSE m \in Markets : TRUE
  /\ tf = CHOOSE w \in Widths : TRUE
  /\ asked = <<Request(market, tf)>>
  /\ bars = << >> /\ last = << >> /\ selects = MaxSelects

-----------------------------------------------------------------------------
Count == FoldLeft(LAMBDA n, m : n + Len(feed[m]), 0, SetToSeq(Markets))

Trade(m, p) ==
  /\ Count < MaxTrades
  /\ feed' = [feed EXCEPT ![m] = Append(@, [ts |-> now, price |-> p])]
  /\ queue' = Append(queue, [market |-> m, trade |-> [ts |-> now, price |-> p]])
  /\ UNCHANGED <<now, asked, market, tf, bars, last, selects>>

Tick == now < MaxTime /\ now' = now + 1
        /\ UNCHANGED <<feed, queue, asked, market, tf, bars, last, selects>>

(* The server reads the trades; "behind" counts the messages it sent       *)
(* before and which have not arrived. (A dead request may stay unserved.)  *)
Serve(i) ==
  /\ i \in DOMAIN asked /\ asked[i].behind = Unserved /\ ~asked[i].dead
  /\ asked' = [asked EXCEPT ![i].bars = candles(asked[i].market, asked[i].tf),
                            ![i].behind = Len(queue)]
  /\ UNCHANGED <<server, queue, market, tf, bars, last, selects>>

-----------------------------------------------------------------------------
(* What was asked for another market or interval is dead from now on.      *)
dead_none(requests) == requests
dead(requests) == [i \in DOMAIN requests |-> [requests[i] EXCEPT !.dead = TRUE]]

Select(m, width) ==
  /\ selects > 0 /\ selects' = selects - 1
  /\ <<m, width>> # <<market, tf>>
  /\ market' = m /\ tf' = width
  /\ asked' = Append(dead(asked), Request(m, width))
  /\ UNCHANGED <<server, queue, bars, last>>

(* The history replaces all that was drawn, live candles included. An      *)
(* answer does not overtake what the socket sent before it was made.       *)
HistoryArrives(i) ==
  /\ i \in DOMAIN asked /\ asked[i].behind = 0
  /\ asked' = RemoveAt(asked, i)
  /\ IF asked[i].dead THEN UNCHANGED <<bars, last>>
     ELSE /\ bars' = asked[i].bars
          /\ last' = IF bars' = << >> THEN << >> ELSE <<Last(bars')>>
  /\ UNCHANGED <<server, queue, market, tf, selects>>

behind_after(b, k) == IF b = Unserved THEN b ELSE IF b > k THEN b - k ELSE 0

(* Messages arrive; React draws once for those that come together, so only *)
(* the last trade of the market selected is seen.                          *)
Messages(k) ==
  LET got == SelectSeq(SubSeq(queue, 1, k), LAMBDA msg : msg.market = market) IN
  /\ k \in 1..Len(queue)
  /\ queue' = SubSeq(queue, k + 1, Len(queue))
  /\ asked' = [i \in DOMAIN asked |-> [asked[i] EXCEPT !.behind = behind_after(@, k)]]
  /\ IF got = << >> THEN UNCHANGED <<bars, last>>
     ELSE LET c == live(last, Last(got).trade, tf)
          IN  last' = <<c>> /\ bars' = update(bars, c)
  /\ UNCHANGED <<server, market, tf, selects>>

-----------------------------------------------------------------------------
Next ==
  \/ \E m \in Markets, p \in Prices : Trade(m, p)
  \/ Tick
  \/ \E i \in DOMAIN asked : Serve(i) \/ HistoryArrives(i)
  \/ \E m \in Markets, width \in Widths : Select(m, width)
  \/ \E k \in {1, 2} : Messages(k)

Spec == Init /\ [][Next]_vars

-----------------------------------------------------------------------------
(* Properties. *)

InBucket(c) == {i \in DOMAIN feed[market] : Bucket(feed[market][i].ts, tf) = c.time}

(* Once the history of what is selected has arrived, every bar drawn is    *)
(* made of prices the selected market traded at in that interval, and      *)
(* counts none of its trades twice - although live trades were drawn into  *)
(* the candle of another market or interval before. (Trades that arrive    *)
(* together, or between reading a history and its arrival, are left out.)  *)
BarsWereTraded ==
  (\A i \in DOMAIN asked : asked[i].dead) =>
    \A j \in DOMAIN bars :
      LET c == bars[j]
          paid == {feed[market][i].price : i \in InBucket(c)}
      IN  /\ {c.open, c.high, c.low, c.close} \subseteq paid
          /\ c.low <= c.open /\ c.low <= c.close /\ c.open <= c.high /\ c.close <= c.high
          /\ c.trades <= Cardinality(InBucket(c))
=============================================================================
