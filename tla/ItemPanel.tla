------------------------------ MODULE ItemPanel ------------------------------
(***************************************************************************)
(* Paying with the collectible: the item half of                           *)
(* src/app/src/components/TradePanel.tsx with depositItem and withdrawItem *)
(* of tx.ts.  The panel lists the wallet's NFTs, deposits the first one    *)
(* that is registered for the market, and redeems by trying the market's   *)
(* mints one after another.  A transaction can land and its confirmation   *)
(* fail, which the panel takes for a failure.                              *)
(***************************************************************************)
EXTENDS FixedMath, Sequences, SequencesExt

CONSTANTS Users, Escrow, None,
          ItemSeq,       \* listing.itemMints: the registered mints, in order
          UnitsMicro, CurveFeeBps, \* units_per_item_micro, curve_fee_bps
          Indexes, Mark, \* index TWAPs; the mark
          TokenSteps,    \* token balances a user may start with, in item prices
          Timeouts,      \* bound: confirmations that fail
          Clicks         \* bound: deposits and redemptions

VARIABLES at,       \* at[i]: the user who holds an item, or Escrow
          tokens,   \* tokens[u]
          index,    \* the market's index
          shown,    \* the index the page polled
          wallet,   \* the wallet that is connected
          nfts,     \* the items the panel believes the wallet holds
          asked,    \* the wallet whose items were asked for, or None
          click,    \* what the button is doing: [pc, signer, at, shown]
          paid,     \* the last deposit that landed: [shown, index, got], or None
          taken,    \* items the current redemption took out of the escrow
          clicks, timeouts

vars == <<at, tokens, index, shown, wallet, nfts, asked, click, paid, taken, clicks, timeouts>>
page == <<shown, wallet, nfts, asked>>
chain == <<at, tokens, index>>
Items == ToSet(ItemSeq)
Idle == [pc |-> "idle", signer |-> None, try |-> 0, shown |-> 0]

(* The program's price of an item, and what it pays and asks.              *)
item_tokens(i) == U64(((i * BASE_UNITS_PER_NFT * UnitsMicro) \div Mark) \div MICRO)
deposit_payout(i) == item_tokens(i) - mul_bps(item_tokens(i), CurveFeeBps)
withdraw_price(i) == item_tokens(i) + mul_bps(item_tokens(i), CurveFeeBps)

(* What the panel shows for either direction.                              *)
itemSwapTokens(i) == (i * UnitsMicro * BASE_UNITS_PER_NFT) \div (Mark * MICRO)

Init ==
  /\ at \in [Items -> Users \cup {Escrow}]
  /\ index \in Indexes /\ shown = index
  /\ tokens \in [Users -> {n * withdraw_price(index) : n \in TokenSteps}]
  /\ wallet \in Users /\ nfts = {} /\ asked = wallet
  /\ click = Idle /\ paid = None /\ taken = {}
  /\ clicks = Clicks /\ timeouts = Timeouts

-----------------------------------------------------------------------------
(* The wallet's items are asked for when the wallet or the way to pay      *)
(* changes; a failed answer empties the list.                              *)
NftsArrive ==
  /\ asked # None
  /\ nfts' \in {{i \in Items : at[i] = asked}, {}}
  /\ asked' = None
  /\ UNCHANGED <<chain, shown, wallet, click, paid, taken, clicks, timeouts>>

SwitchWallet(u) ==
  /\ u # wallet
  /\ wallet' = u /\ asked' = u
  /\ UNCHANGED <<chain, shown, nfts, click, paid, taken, clicks, timeouts>>

ChoosePayMode ==
  /\ asked' = wallet
  /\ UNCHANGED <<chain, shown, wallet, nfts, click, paid, taken, clicks, timeouts>>

Poll ==
  /\ shown' = index
  /\ UNCHANGED <<chain, wallet, nfts, asked, click, paid, taken, clicks, timeouts>>

IndexMoves(i) ==
  /\ i # index /\ index' = i
  /\ UNCHANGED <<at, tokens, page, click, paid, taken, clicks, timeouts>>

-----------------------------------------------------------------------------
registered == SelectSeq(ItemSeq, LAMBDA i : i \in nfts)

Starts(c) ==
  /\ click.pc = "idle" /\ clicks > 0 /\ clicks' = clicks - 1
  /\ click' = c /\ taken' = {}
  /\ UNCHANGED <<chain, page, paid, timeouts>>

doDepositItem ==
  /\ registered # << >>
  /\ Starts([pc |-> "deposit", signer |-> wallet, try |-> registered[1], shown |-> shown])

redeem ==
  Starts([pc |-> "redeem", signer |-> wallet, try |-> 1, shown |-> shown])

(* The transaction lands, or is rejected; either way the panel is done.    *)
DepositEnds ==
  LET item == click.try
      u == click.signer IN
  /\ click.pc = "deposit"
  /\ IF at[item] = u
     THEN /\ at' = [at EXCEPT ![item] = Escrow]
          /\ tokens' = [tokens EXCEPT ![u] = @ + deposit_payout(index)]
          /\ paid' = [shown |-> click.shown, index |-> index, got |-> deposit_payout(index)]
     ELSE UNCHANGED <<at, tokens, paid>>
  /\ click' = Idle
  /\ UNCHANGED <<index, page, taken, clicks, timeouts>>

can_withdraw(item) == at[item] = Escrow /\ tokens[click.signer] >= withdraw_price(index)

after_success_goes_on(c) == [c EXCEPT !.try = @ + 1]
after_success(c) == Idle

after_failure_same(c) == c
after_failure(c) == IF c.try = Len(ItemSeq) THEN Idle ELSE [c EXCEPT !.try = @ + 1]

Withdraws(item) ==
  /\ at' = [at EXCEPT ![item] = click.signer]
  /\ tokens' = [tokens EXCEPT ![click.signer] = @ - withdraw_price(index)]
  /\ taken' = taken \cup {item}

(* One turn of the loop over the mints: taken, rejected, or taken although *)
(* the confirmation failed.                                                *)
RedeemTakes ==
  /\ click.pc = "redeem" /\ click.try <= Len(ItemSeq)
  /\ can_withdraw(ItemSeq[click.try])
  /\ Withdraws(ItemSeq[click.try])
  /\ click' = after_success(click)
  /\ UNCHANGED <<index, page, paid, clicks, timeouts>>

RedeemRejected ==
  /\ click.pc = "redeem"
  /\ click.try <= Len(ItemSeq) => ~can_withdraw(ItemSeq[click.try])
  /\ click' = IF click.try > Len(ItemSeq) THEN Idle ELSE after_failure(click)
  /\ UNCHANGED <<chain, page, paid, taken, clicks, timeouts>>

RedeemUnconfirmed ==
  /\ click.pc = "redeem" /\ click.try <= Len(ItemSeq) /\ timeouts > 0
  /\ can_withdraw(ItemSeq[click.try])
  /\ timeouts' = timeouts - 1
  /\ Withdraws(ItemSeq[click.try])
  /\ click' = after_failure(click)
  /\ UNCHANGED <<index, page, paid, clicks>>

-----------------------------------------------------------------------------
Ends == DepositEnds \/ RedeemTakes \/ RedeemRejected \/ RedeemUnconfirmed

Next ==
  \/ NftsArrive \/ ChoosePayMode \/ Poll \/ doDepositItem \/ redeem \/ Ends
  \/ \E u \in Users : SwitchWallet(u)
  \/ \E i \in Indexes : IndexMoves(i)

Spec == Init /\ [][Next]_vars
FairSpec == Spec /\ WF_vars(Ends)

-----------------------------------------------------------------------------
(* Properties. *)

(* "Try each registered card until one matches" (TradePanel.tsx:184): a    *)
(* click on redeem takes one copy. It does not hold once a transaction     *)
(* lands and its confirmation is lost, for the loop goes on ...            *)
RedeemTakesOne == \A i, j \in taken : i = j

(* ... to one more copy at most for each confirmation that is lost.        *)
RedeemTakesFew == Cardinality(taken) <= 1 + (Timeouts - timeouts)

(* The button always comes back.                                           *)
PanelFreed == (click.pc # "idle") ~> (click.pc = "idle")

(* Shown beside the deposit: no fee, tokens worth exactly the item. A      *)
(* deposit made at the index the panel shows pays what it shows.           *)
DepositPaysShown ==
  paid # None /\ paid.index = paid.shown => paid.got = itemSwapTokens(paid.shown)
=============================================================================
