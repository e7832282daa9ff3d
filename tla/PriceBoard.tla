---------------------------- MODULE PriceBoard ----------------------------
(***************************************************************************)
(* GET /aggregator of the indexer: every collectible with its prices, the  *)
(* spread between them and the index of the markets launched on it. A      *)
(* market's index starts at a fixed value whatever the collectible costs,  *)
(* so refreshOracles scales the price it pushes and the board scales it    *)
(* back; the two computations live far apart, in integers and in reals.    *)
(* Prices are in lamports; a price that is not known is None.              *)
(***************************************************************************)
EXTENDS Integers, FiniteSets, FiniteSetsExt, SequencesExt

CONSTANTS Nfts, Cards,     \* the catalog
          Market,          \* Market[m]: the collectible market m is on; 1..N in listing order
          Snapshot,        \* Snapshot[u]: lamports of an NFT, dollars of a card
          Prices,          \* floors a marketplace may report
          Rates,           \* lamports a dollar may buy
          LaunchIndex,     \* 0.625 SOL
          MaxMoves         \* bound: changes of the sources

None == 0

VARIABLES floor,     \* floor[u]: the live floor of an NFT, None while the source is down
          rate,      \* lamports per dollar, None before the first answer
          atLaunch,  \* indexAtLaunchLamports of each market, None before its launch
          twap,      \* the index on chain
          pushed,    \* the price the index of a market was last pushed from
          board,     \* the last answer: u -> row
          moves

vars == <<floor, rate, atLaunch, twap, pushed, board, moves>>

Ids == DOMAIN Market
Catalog == Nfts \cup Cards
NoRow == [snapshot |-> None, live |-> None, chain |-> <<>>, spread |-> <<>>]

Init ==
  /\ floor \in [Nfts -> Prices] /\ rate \in Rates \cup {None}
  /\ atLaunch = [m \in Ids |-> None] /\ twap = [m \in Ids |-> 0]
  /\ pushed = [m \in Ids |-> None]
  /\ board = [u \in Catalog |-> NoRow] /\ moves = MaxMoves

Changes ==
  /\ moves > 0 /\ moves' = moves - 1
  /\ \/ \E u \in Nfts, p \in Prices \cup {None} :
          p # floor[u] /\ floor' = [floor EXCEPT ![u] = p] /\ UNCHANGED rate
     \/ \E r \in Rates : r # rate /\ rate' = r /\ UNCHANGED floor
  /\ UNCHANGED <<atLaunch, twap, pushed, board>>

-----------------------------------------------------------------------------
RoundDiv(a, b) == (2 * a + b) \div (2 * b)

(* The live floor, or the snapshot while the source is down; a card's      *)
(* dollars at the rate of the moment.                                      *)
oracleFeedLamports(u) ==
  IF u \in Nfts THEN (IF floor[u] # None THEN floor[u] ELSE Snapshot[u]) ELSE Snapshot[u] * rate

(* A launch initializes the index and remembers the price it stands for.   *)
Launch(m) ==
  LET lamports == oracleFeedLamports(Market[m]) IN
  /\ atLaunch[m] = None /\ lamports > 0
  /\ atLaunch' = [atLaunch EXCEPT ![m] = lamports]
  /\ twap' = [twap EXCEPT ![m] = LaunchIndex]
  /\ pushed' = [pushed EXCEPT ![m] = lamports]
  /\ UNCHANGED <<floor, rate, board, moves>>

scaled_down(lamports, launch) == (lamports * LaunchIndex) \div launch
scaled(lamports, launch) == RoundDiv(lamports * LaunchIndex, launch)

(* refreshOracles, one market: without a price it is left alone.           *)
Refresh(m) ==
  LET lamports == oracleFeedLamports(Market[m]) IN
  /\ atLaunch[m] # None /\ lamports > 0
  /\ twap' = [twap EXCEPT ![m] = scaled(lamports, atLaunch[m])]
  /\ pushed' = [pushed EXCEPT ![m] = lamports]
  /\ UNCHANGED <<floor, rate, atLaunch, board, moves>>

(* The index of a market in lamports, as a fraction num / den.             *)
onchain_unscaled(m) == [num |-> twap[m], den |-> 1]
onchain(m) == [num |-> twap[m] * atLaunch[m], den |-> LaunchIndex]
Whole(n) == [num |-> n, den |-> 1]

(* The first market with an index speaks for all; without one, the feed.   *)
chain(u) ==
  LET ms == {m \in Ids : Market[m] = u /\ atLaunch[m] # None}
  IN  IF ms # {} THEN <<onchain(Min(ms))>>
      ELSE IF oracleFeedLamports(u) > 0 THEN <<Whole(oracleFeedLamports(u))>> ELSE << >>

snapshot(u) == IF u \in Nfts THEN Snapshot[u] ELSE Snapshot[u] * rate

At_most(a, b) == a.num * b.den <= b.num * a.den

(* The widest distance between the positive sources over their middle, as  *)
(* <<highest, lowest>>: none with fewer than two sources.                  *)
spread(sources) ==
  IF Len(sources) < 2 THEN << >>
  ELSE LET high == CHOOSE a \in ToSet(sources) : \A b \in ToSet(sources) : At_most(b, a)
           low == CHOOSE a \in ToSet(sources) : \A b \in ToSet(sources) : At_most(a, b)
       IN  <<high, low>>

row(u) ==
  LET live == IF u \in Nfts THEN floor[u] ELSE None
      known == SelectSeq(<<snapshot(u), live>>, LAMBDA v : v > 0)
      sources == [i \in DOMAIN known |-> Whole(known[i])]
                   \o SelectSeq(chain(u), LAMBDA v : v.num > 0)
  IN  [snapshot |-> snapshot(u), live |-> live, chain |-> chain(u), spread |-> spread(sources)]

aggregator ==
  /\ board' = [u \in Catalog |-> row(u)]
  /\ UNCHANGED <<floor, rate, atLaunch, twap, pushed, moves>>

-----------------------------------------------------------------------------
Next == Changes \/ aggregator \/ \E m \in Ids : Launch(m) \/ Refresh(m)

Spec == Init /\ [][Next]_vars

-----------------------------------------------------------------------------
(* Properties. *)

(* Scaled to the launch index, rounded, and scaled back, the price pushed  *)
(* is recovered to half a step of the index: atLaunch / (2 LaunchIndex).   *)
PriceRecovered ==
  \A m \in Ids : atLaunch[m] # None =>
    LET lost == 2 * (onchain(m).num * LaunchIndex - pushed[m] * LaunchIndex * onchain(m).den)
        step == atLaunch[m] * onchain(m).den
    IN  -step <= lost /\ lost <= step

(* Two markets on one collectible, launched at different prices and pushed *)
(* from the same one, show the same index but for the rounding of both.    *)
MarketsAgree ==
  \A m, k \in Ids :
    Market[m] = Market[k] /\ pushed[m] = pushed[k] /\ pushed[m] # None =>
      2 * (onchain(m).num - onchain(k).num) <= atLaunch[m] + atLaunch[k]

(* A spread of zero means that every source shown says the same price.     *)
SpreadIsHonest ==
  \A u \in Catalog : LET r == board[u] IN
    r.spread # << >> /\ r.spread[1].num * r.spread[2].den = r.spread[2].num * r.spread[1].den =>
      /\ r.live # None => At_most(Whole(r.live), r.spread[1]) /\ At_most(r.spread[1], Whole(r.live))
      /\ r.chain # << >> => At_most(r.chain[1], r.spread[1]) /\ At_most(r.spread[1], r.chain[1])
=============================================================================
