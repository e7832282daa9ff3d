------------------------------ MODULE Explorer ------------------------------
(***************************************************************************)
(* The explorer of the app: a search over the markets the page knows       *)
(* selects one, and a chain of calls fetches its supply, its holders and   *)
(* its trades. Nothing cancels the chain of an earlier selection. A query  *)
(* is the set of markets it would match.                                   *)
(***************************************************************************)
EXTENDS Integers, Sequences, FiniteSets

CONSTANTS Markets, None,
          InOrder,       \* each server answers in the order it was asked
          MaxChains,     \* bound: chains under way
          MaxSearches,   \* bound: queries typed and rows clicked
          Faults         \* bound: calls that fail

VARIABLES status,        \* market accounts: "curve" or "live"
          markets,       \* rows the page knows: market -> status
          query,
          due,           \* the matches are new: the selecting effect is to run
          selected,      \* the row selected: [market, status]
          chains,        \* the chains of calls: [market, step], oldest first
          supply, holders, trades,   \* the market each was fetched for, or None
          searches, faults

vars == <<status, markets, query, due, selected, chains, supply, holders, trades, searches, faults>>
shown == <<supply, holders, trades>>

Row(m) == [market |-> m, status |-> markets[m]]
NoRow == [market |-> None, status |-> "none"]
matches == {Row(m) : m \in query \cap DOMAIN markets}

Init ==
  /\ status = [m \in Markets |-> "curve"]
  /\ markets = << >> /\ query = {} /\ due = FALSE /\ selected = NoRow /\ chains = << >>
  /\ supply = None /\ holders = None /\ trades = None
  /\ searches = MaxSearches /\ faults = Faults

-----------------------------------------------------------------------------
Graduate(m) ==
  /\ status[m] = "curve" /\ status' = [status EXCEPT ![m] = "live"]
  /\ UNCHANGED <<markets, query, due, selected, chains, shown, searches, faults>>

due_after_poll_never == due
due_after_poll == TRUE

(* The page's poll brings new rows, and with them new matches.             *)
Poll ==
  /\ markets # status /\ markets' = status
  /\ due' = due_after_poll
  /\ UNCHANGED <<status, query, selected, chains, shown, searches, faults>>

(* Typing clears the selection; the effect runs for the new matches.       *)
Type(q) ==
  /\ searches > 0 /\ searches' = searches - 1
  /\ query' = q /\ selected' = NoRow /\ due' = TRUE
  /\ UNCHANGED <<status, markets, chains, shown, faults>>

(* A chain starts only when the market selected changes.                   *)
Selecting(row) ==
  /\ selected' = row
  /\ IF row.market = selected.market THEN UNCHANGED chains
     ELSE /\ Len(chains) < MaxChains
          /\ chains' = Append(chains, [market |-> row.market, step |-> "supply"])

(* Without a selection the page lists several matches, or every market     *)
(* while the query is empty.                                               *)
Click(m) ==
  /\ searches > 0 /\ searches' = searches - 1
  /\ selected = NoRow /\ m \in DOMAIN markets
  /\ query = {} \/ (m \in query /\ Cardinality(matches) > 1)
  /\ Selecting(Row(m))
  /\ UNCHANGED <<status, markets, query, due, shown, faults>>

(* The effect of new matches: a single one is selected, also when only its *)
(* row is new.                                                             *)
AutoSelect ==
  /\ due /\ due' = FALSE
  /\ IF Cardinality(matches) = 1 THEN Selecting(CHOOSE r \in matches : TRUE)
     ELSE UNCHANGED <<selected, chains>>
  /\ UNCHANGED <<status, markets, query, shown, searches, faults>>

-----------------------------------------------------------------------------
(* The chain of calls *)

after(step) == [supply |-> "holders", holders |-> "trades"][step]
Answered(i) ==
  /\ i \in DOMAIN chains
  /\ InOrder => \A j \in 1..(i - 1) : chains[j].step # chains[i].step
Goes(i) ==
  chains' = IF chains[i].step = "trades"
            THEN SubSeq(chains, 1, i - 1) \o SubSeq(chains, i + 1, Len(chains))
            ELSE [chains EXCEPT ![i].step = after(@)]

Shows(step, s, h, t) ==
  /\ supply' = IF step = "supply" THEN s ELSE supply
  /\ holders' = IF step = "holders" THEN h ELSE holders
  /\ trades' = IF step = "trades" THEN t ELSE trades

Arrive(i) ==
  /\ Answered(i) /\ Goes(i)
  /\ LET m == chains[i].market IN Shows(chains[i].step, m, m, m)
  /\ UNCHANGED <<status, markets, query, due, selected, searches, faults>>

holders_if_failed_kept == holders
holders_if_failed == None

(* A call that fails clears the supply or the holders; trades stay.        *)
CallFails(i) ==
  /\ Answered(i) /\ Goes(i)
  /\ faults > 0 /\ faults' = faults - 1
  /\ Shows(chains[i].step, None, holders_if_failed, trades)
  /\ UNCHANGED <<status, markets, query, due, selected, searches>>

-----------------------------------------------------------------------------
Next ==
  \/ \E m \in Markets : Graduate(m)
  \/ \E q \in SUBSET Markets : Type(q)
  \/ \E m \in Markets : Click(m)
  \/ Poll \/ AutoSelect
  \/ \E i \in 1..MaxChains : Arrive(i) \/ CallFails(i)

Spec == Init /\ [][Next]_vars

(* The poll's timer fires, effects run and calls end. *)
FairSpec ==
  /\ Spec
  /\ WF_vars(Poll) /\ WF_vars(AutoSelect)
  /\ \A i \in 1..MaxChains : WF_vars(Arrive(i))

-----------------------------------------------------------------------------
(* Properties. *)

(* With answers in order, what the page shows of the token once its chains *)
(* have ended is that of the market selected, though chains of earlier     *)
(* selections were never cancelled and calls failed; trades are exempt     *)
(* from failures: the panel keeps those of the market before.              *)
TokenOfSelected ==
  chains = << >> /\ selected # NoRow /\ ~due =>
    /\ {supply, holders} \subseteq {selected.market, None}
    /\ faults = Faults => trades = selected.market

(* While a query matches one market, the row shown follows the market's    *)
(* own: it is selected again whenever a poll brings a new one.             *)
MatchIsFollowed ==
  \A m \in Markets :
    <>[](query = {m}) => <>[](selected = [market |-> m, status |-> status[m]])
=============================================================================
