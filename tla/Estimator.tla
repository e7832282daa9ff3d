----------------------------- MODULE Estimator -----------------------------
(***************************************************************************)
(* The relayer's price estimates: the sale estimator                       *)
(* (src/relayer/src/estimator.ts) over the sales a lookback window holds,  *)
(* and the ask-ladder estimate of NFT markets (sources/magiceden.ts). The  *)
(* machine is the market they observe: sales happen, days pass, listings   *)
(* come and go, the venue's reported floor lags. Prices are small          *)
(* integers; the recency weight 1 / (1 + age) is scaled by 60, exact for   *)
(* ages up to 5; a median is carried as its double.                        *)
(***************************************************************************)
EXTENDS Integers, Sequences, FiniteSets, SequencesExt

CONSTANTS Prices,        \* prices of sales and listings
          MaxSales,      \* sales one fetch returns (pages of 100)
          MaxAsks,       \* bound: listings
          Lookback,      \* lookbackDays, at most 5
          minSales, maxDisagreementBps

VARIABLES sales,         \* sequence of [lamports, age], oldest first
          asks,          \* current listings, cheapest first
          floor          \* the floor the venue reports, 0 for none

vars == <<sales, asks, floor>>


Hold == -1               \* null: hold the last value
Abs(x) == IF x < 0 THEN -x ELSE x
RoundDiv(a, b) == (2 * a + b) \div (2 * b)        \* Math.round(a / b)
Sorted(xs) == SortSeq(xs, <)

-----------------------------------------------------------------------------
(* estimator.ts *)

(* Twice the median. *)
median(xs) ==
  LET s == Sorted(xs)  mid == Len(xs) \div 2
  IN  IF Len(xs) % 2 = 1 THEN 2 * s[mid + 1] ELSE s[mid] + s[mid + 1]

Lamports(ps) == [i \in DOMAIN ps |-> ps[i].lamports]

within_one(dev, mad) == 2 * dev < mad
within(dev, mad) == 2 * dev <= 3 * mad

(* The sales within 3 median absolute deviations of the median; all of     *)
(* them when there are fewer than 3 or half of them agree exactly.         *)
madFilter(ps) ==
  LET med == median(Lamports(ps))
      dev == [i \in DOMAIN ps |-> Abs(2 * ps[i].lamports - med)]
      mad == median(dev)
      near == SetToSortSeq({i \in DOMAIN ps : within(dev[i], mad)}, <)
  IN  IF Len(ps) < 3 \/ mad = 0 THEN ps ELSE [n \in DOMAIN near |-> ps[near[n]]]

weight(p) == 60 \div (1 + p.age)
SumWeights(ps) == FoldLeft(LAMBDA acc, p : acc + weight(p), 0, ps)

by_arrival(ps) == ps
by_price(ps) == SortSeq(ps, LAMBDA p, q : p.lamports < q.lamports)

(* The first sale, by price, at which the weights reach half their total.  *)
recencyWeightedMedian(ps) ==
  LET s == by_price(ps)
      reached == {n \in DOMAIN s : 2 * SumWeights(SubSeq(s, 1, n)) >= SumWeights(s)}
  IN  s[CHOOSE n \in reached : \A k \in reached : n <= k].lamports

disagrees(est, ask) == RoundDiv(Abs(est - ask) * 10000, ask) > maxDisagreementBps
ask_cap(ask) == RoundDiv(ask * 105, 100)

capped_first(est, ask) ==
  LET c == IF est < ask_cap(ask) THEN est ELSE ask_cap(ask) IN IF disagrees(c, ask) THEN Hold ELSE c
capped(est, ask) ==
  IF disagrees(est, ask) THEN Hold ELSE IF est < ask_cap(ask) THEN est ELSE ask_cap(ask)

(* The gated estimate against a reference ask, 0 for none.                 *)
estimate(ps, ask) ==
  IF Len(ps) < minSales \/ Len(madFilter(ps)) < minSales THEN Hold
  ELSE LET est == recencyWeightedMedian(madFilter(ps))
       IN  IF ask > 0 THEN capped(est, ask) ELSE est

-----------------------------------------------------------------------------
(* magiceden.ts *)

(* The newest sales of the lookback window, as the paginated fetch keeps them. *)
fetchSales ==
  LET recent == SelectSeq(sales, LAMBDA p : p.age <= Lookback)
  IN  SubSeq(recent, IF Len(recent) > MaxSales THEN Len(recent) - MaxSales + 1 ELSE 1, Len(recent))

cheapest(ladder) == ladder[1]
second_cheapest(ladder) == ladder[2]

(* The second-cheapest listing, unless the reported floor disagrees.       *)
estimateNftIndex(ladder, fl) ==
  IF Len(ladder) < 3 THEN Hold
  ELSE IF fl > 0 /\ disagrees(second_cheapest(ladder), fl) THEN Hold
  ELSE second_cheapest(ladder)

-----------------------------------------------------------------------------
(* The market. *)

Init == sales = <<>> /\ asks = <<>> /\ floor = 0

Sale(p) ==
  /\ Len(sales) <= MaxSales
  /\ sales' = Append(sales, [lamports |-> p, age |-> 0])
  /\ UNCHANGED <<asks, floor>>

Day ==
  /\ sales # <<>>
  /\ sales' = SelectSeq([i \in DOMAIN sales |-> [sales[i] EXCEPT !.age = @ + 1]],
                        LAMBDA p : p.age <= Lookback + 1)
  /\ UNCHANGED <<asks, floor>>

Ask(p) == Len(asks) < MaxAsks /\ asks' = Sorted(Append(asks, p)) /\ UNCHANGED <<sales, floor>>
Fill == asks # <<>> /\ asks' = Tail(asks) /\ UNCHANGED <<sales, floor>>
ReportFloor == floor' = (IF asks = <<>> THEN 0 ELSE asks[1]) /\ UNCHANGED <<sales, asks>>

Next == Day \/ Fill \/ ReportFloor \/ \E p \in Prices : Sale(p) \/ Ask(p)
Spec == Init /\ [][Next]_vars

-----------------------------------------------------------------------------
(* Properties. *)

Window == fetchSales

(* The estimate without an ask is the weighted median by its definition:   *)
(* the kept sales below it weigh at most half, and so do those above it.   *)
WeightedMedianIsMedian ==
  LET est == estimate(Window, 0)
      kept == madFilter(Window)
      weigh(Test(_)) == SumWeights(SelectSeq(kept, Test))
  IN  est # Hold =>
        /\ 2 * weigh(LAMBDA p : p.lamports < est) <= SumWeights(kept)
        /\ 2 * weigh(LAMBDA p : p.lamports > est) <= SumWeights(kept)

(* The outlier filter never drops more than half of the sales, whatever    *)
(* their prices, so it cannot itself close the gate on most of them.       *)
MajorityKept == Window # <<>> => 2 * Len(madFilter(Window)) >= Len(Window)

(* Sales that disagree with the ask hold the push: the 5% cap never turns  *)
(* a gated estimate into one that passes, and never lets one exceed it.    *)
DisagreementHolds ==
  \A ask \in Prices :
    LET free == estimate(Window, 0)  est == estimate(Window, ask) IN
      est # Hold => ~disagrees(free, ask) /\ est <= free /\ est <= ask_cap(ask)

(* One new listing moves an NFT market's estimate no further than between  *)
(* the two cheapest listings there were.                                   *)
Nft == estimateNftIndex(asks, floor)
OneListingMovesLittle ==
  [][\A p \in Prices : Ask(p) /\ Len(asks) >= 3 => Nft' = Hold \/ (asks[1] <= Nft' /\ Nft' <= asks[2])]_vars

(* nft-pipeline.mdx says the estimate "cannot be moved by any single fake  *)
(* listing".                                                               *)
SingleListingCannotMove ==
  [][\A p \in Prices : Ask(p) /\ Hold \notin {Nft, Nft'} => Nft' = Nft]_vars

(* card-pipeline.mdx says the filter "kills single shill sales": one sale  *)
(* at more than twice every other does not raise the estimate above them.  *)
SingleShillKilled ==
  \A i \in DOMAIN Window :
    LET others == {Window[j].lamports : j \in DOMAIN Window \ {i}} IN
      /\ Len(Window) > minSales /\ Len(Window) > 3
      /\ \A x \in others : Window[i].lamports > 2 * x
      => estimate(Window, 0) \in {Hold} \cup 0..Max(others)
=============================================================================
