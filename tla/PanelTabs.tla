----------------------------- MODULE PanelTabs -----------------------------
(***************************************************************************)
(* The tabs under the chart that read the chain themselves: HoldersTab and *)
(* PositionTab of src/app/src/components/Panels.tsx, with fetchPosition of *)
(* src/app/src/tx.ts. A tab asks again when the market, the wallet or a    *)
(* polled number changes; answers take their time, and whatever answer     *)
(* arrives is shown. Leaving a tab forgets what it asked and showed.       *)
(***************************************************************************)
EXTENDS Integers, Sequences, SequencesExt

CONSTANTS Markets, Wallets, None,
          Debts,      \* debts a short may have
          Indexes,    \* index prices the page may poll
          InOrder,    \* answers arrive in the order they were asked for
          MaxAsked,   \* bound: requests under way
          MaxMoves,   \* bound: changes of the chain and clicks
          Faults      \* bound: reads of the chain that fail

VARIABLES debt,       \* debt[m][w]: the shorts on chain
          index, live,  \* of each market, as the page polled them
          market, tab,
          wallet,     \* the wallet connected, or None
          unasked,    \* the wallet was changed without disconnecting
          asked,      \* requests of the tab: [market, wallet, index, live, answer]
          pos,        \* the position shown, or None
          rows,       \* the holders shown: [market, live, old], or None
          busy, moves, faults

vars == <<debt, index, live, market, tab, wallet, unasked, asked, pos, rows, busy, moves, faults>>
world == <<debt, index, live>>
shown == <<pos, rows, busy>>

Unread == 0 - 1
Moved == moves > 0 /\ moves' = moves - 1 /\ UNCHANGED faults
Request(m, w) == [market |-> m, wallet |-> w, index |-> index'[m], live |-> live'[m], answer |-> Unread]

Init ==
  /\ debt \in [Markets -> [Wallets -> Debts]]
  /\ index = [m \in Markets |-> CHOOSE x \in Indexes : TRUE]
  /\ live = [m \in Markets |-> FALSE]
  /\ market = CHOOSE m \in Markets : TRUE
  /\ tab = "trades" /\ wallet = None /\ unasked = FALSE /\ asked = << >>
  /\ pos = None /\ rows = None /\ busy = FALSE /\ moves = MaxMoves /\ faults = Faults

-----------------------------------------------------------------------------
(* What a tab depends on has changed: it asks again. Without a wallet the  *)
(* position is not asked for, and stays as it was.                         *)
Asks(t, m, w) ==
  IF t = "holders" \/ (t = "position" /\ w # None) THEN <<Request(m, w)>> ELSE << >>
Refresh(deps, m, w) ==
  /\ asked' = IF tab \in deps THEN asked \o Asks(tab, m, w) ELSE asked
  /\ Len(asked') <= MaxAsked
  /\ unasked' = (unasked /\ (tab \notin deps \/ w = None))
  /\ UNCHANGED <<tab, shown>>

index_deps_none == {}
index_deps == {"position"}

Hedge(m, w, d) ==
  /\ Moved /\ d # debt[m][w] /\ debt' = [debt EXCEPT ![m][w] = d]
  /\ UNCHANGED <<index, live, market, tab, wallet, unasked, asked, shown>>

IndexPolled(x) ==
  /\ Moved /\ x # index[market] /\ index' = [index EXCEPT ![market] = x]
  /\ UNCHANGED <<debt, live, market, wallet>>
  /\ Refresh(index_deps, market, wallet)

GoesLive ==
  /\ Moved /\ ~live[market] /\ live' = [live EXCEPT ![market] = TRUE]
  /\ UNCHANGED <<debt, index, market, wallet>>
  /\ Refresh({"holders"}, market, wallet)

Select(m) ==
  /\ Moved /\ m # market /\ market' = m
  /\ UNCHANGED <<world, wallet>>
  /\ Refresh({"position", "holders"}, m, wallet)

Connect(w) ==
  /\ Moved /\ w # wallet /\ (w = None \/ wallet = None) /\ wallet' = w
  /\ UNCHANGED <<world, market>>
  /\ Refresh({"position"}, market, w)

(* Another account of the wallet: it stays connected, so nothing is asked. *)
SwitchWallet(w) ==
  /\ Moved /\ wallet \notin {None, w} /\ wallet' = w /\ unasked' = TRUE
  /\ UNCHANGED <<world, market, tab, asked, shown>>

OpenTab(t) ==
  /\ Moved /\ t # tab /\ tab' = t
  /\ pos' = None /\ rows' = None /\ busy' = FALSE
  /\ UNCHANGED <<world, market, wallet>>
  /\ asked' = Asks(t, market, wallet) /\ unasked' = FALSE

-----------------------------------------------------------------------------
(* The chain is read at some moment after the request; a position that     *)
(* cannot be read counts as none.                                          *)
fetchPosition(i) ==
  /\ tab = "position" /\ i \in DOMAIN asked /\ asked[i].answer = Unread
  /\ \/ /\ asked' = [asked EXCEPT ![i].answer = debt[asked[i].market][asked[i].wallet]]
        /\ UNCHANGED faults
     \/ /\ faults > 0 /\ faults' = faults - 1
        /\ asked' = [asked EXCEPT ![i].answer = 0]
  /\ UNCHANGED <<world, market, tab, wallet, unasked, shown, moves>>

position(r) == [market |-> r.market, wallet |-> r.wallet, index |-> r.index, debt |-> r.answer]

PositionArrives(i) ==
  /\ tab = "position" /\ i \in DOMAIN asked /\ asked[i].answer # Unread /\ (InOrder => i = 1)
  /\ pos' = position(asked[i]) /\ asked' = RemoveAt(asked, i)
  /\ UNCHANGED <<world, market, tab, wallet, unasked, rows, busy, moves, faults>>

(* The holders arrive. When they do not, the rows stay: "old" says so.     *)
HoldersArrive(i) ==
  /\ tab = "holders" /\ i \in DOMAIN asked /\ (InOrder => i = 1)
  /\ asked' = RemoveAt(asked, i)
  /\ \/ /\ rows' = [market |-> asked[i].market, live |-> asked[i].live, old |-> FALSE]
        /\ UNCHANGED faults
     \/ /\ faults > 0 /\ faults' = faults - 1
        /\ rows' = IF rows = None THEN None ELSE [rows EXCEPT !.old = TRUE]
  /\ UNCHANGED <<world, market, tab, wallet, unasked, pos, busy, moves>>

(* repayAll calls an instruction the program does not have: it is refused, *)
(* the error is swallowed and the button comes back.                       *)
repayAll ==
  /\ tab = "position" /\ wallet # None /\ pos # None /\ pos.debt > 0 /\ ~busy /\ Moved
  /\ busy' = TRUE
  /\ UNCHANGED <<world, market, tab, wallet, unasked, asked, pos, rows>>
RepayRefused ==
  /\ busy /\ busy' = FALSE
  /\ UNCHANGED <<world, market, tab, wallet, unasked, asked, pos, rows, moves, faults>>

-----------------------------------------------------------------------------
Next ==
  \/ \E m \in Markets, w \in Wallets, d \in Debts : Hedge(m, w, d)
  \/ \E x \in Indexes : IndexPolled(x)
  \/ GoesLive
  \/ \E m \in Markets : Select(m)
  \/ \E w \in Wallets \cup {None} : Connect(w)
  \/ \E w \in Wallets : SwitchWallet(w)
  \/ \E t \in {"trades", "position", "holders"} : OpenTab(t)
  \/ \E i \in DOMAIN asked : fetchPosition(i) \/ PositionArrives(i) \/ HoldersArrive(i)
  \/ repayAll \/ RepayRefused

Spec == Init /\ [][Next]_vars

-----------------------------------------------------------------------------
(* Properties. *)

(* With answers in order, a tab that waits for nothing shows the market    *)
(* selected: the position of the wallet connected, valued at the index the *)
(* page knows, and the holders with the names of the market's phase. (Not  *)
(* after the account was switched in the wallet, and not when the holders  *)
(* could not be read: then those of another market may stay.)              *)
TabsShowSelected ==
  asked = << >> =>
    /\ tab = "position" /\ pos # None /\ wallet # None /\ ~unasked =>
         pos.market = market /\ pos.wallet = wallet /\ pos.index = index[market]
    /\ tab = "holders" /\ rows # None /\ ~rows.old =>
         rows.market = market /\ rows.live = live[market]
=============================================================================
