------------------------------ MODULE AppView ------------------------------
(***************************************************************************)
(* The market page of the app: src/app/src/App.tsx with api.ts and         *)
(* Chart.tsx. The page polls the markets, fetches trades and candles when  *)
(* a market is selected, and adds what a web socket sends. Answers of the  *)
(* server take their time: each is read at one moment and arrives at a     *)
(* later one, over several connections at once. A trade is its number.     *)
(***************************************************************************)
EXTENDS Integers, Sequences, SequencesExt, FiniteSets

CONSTANTS Markets, None,
          Limit,       \* trades the page keeps (60)
          InOrder,     \* answers arrive in the order of their requests
          MaxTrades,   \* bound: trades
          MaxSelects,  \* bound: markets selected by the user
          MaxAsked,    \* bound: requests under way
          Drops        \* bound: times the socket closes

VARIABLES feed,      \* feed[m]: trades the indexer has of a market, newest first
          onchain,   \* markets the indexer lists
          socket,    \* [up, queue]: the socket and the messages on their way
          asked,     \* requests under way: [what, market, snap]
          selected,  \* the market the page shows
          markets,   \* the markets the page knows
          trades,    \* the recent trades panel
          chart,     \* [market, bars]: the market of the history, and trades drawn
          count, selects, drops

vars == <<feed, onchain, socket, asked, selected, markets, trades, chart, count, selects, drops>>
server == <<feed, onchain, count>>
bounds == <<selects, drops>>

Waiting == <<None>>
newest(s) == SubSeq(s, 1, IF Len(s) < Limit THEN Len(s) ELSE Limit)
Request(what, m) == [what |-> what, market |-> m, snap |-> Waiting]

Init ==
  /\ feed = [m \in Markets |-> << >>]
  /\ onchain \in SUBSET Markets
  /\ socket = [up |-> TRUE, queue |-> << >>]
  /\ asked = <<Request("markets", None)>>
  /\ selected = None /\ markets = {} /\ trades = << >>
  /\ chart = [market |-> None, bars |-> << >>]
  /\ count = 0 /\ selects = MaxSelects /\ drops = Drops

-----------------------------------------------------------------------------
(* The indexer *)

Trade(m) ==
  /\ m \in onchain /\ count < MaxTrades
  /\ count' = count + 1
  /\ feed' = [feed EXCEPT ![m] = <<count'>> \o @]
  /\ socket' = IF socket.up
               THEN [socket EXCEPT !.queue = Append(@, [market |-> m, trade |-> count'])]
               ELSE socket
  /\ UNCHANGED <<onchain, asked, selected, markets, trades, chart, bounds>>

Listed(m) ==
  /\ m \notin onchain
  /\ onchain' = onchain \cup {m}
  /\ UNCHANGED <<feed, socket, asked, selected, markets, trades, chart, count, bounds>>

Serve(i) ==
  /\ i \in DOMAIN asked /\ asked[i].snap = Waiting
  /\ asked' = [asked EXCEPT ![i].snap =
       IF asked[i].what = "markets" THEN SetToSeq(onchain) ELSE newest(feed[asked[i].market])]
  /\ UNCHANGED <<server, socket, selected, markets, trades, chart, bounds>>

-----------------------------------------------------------------------------
(* The page *)

Without(s, i) == SubSeq(s, 1, i - 1) \o SubSeq(s, i + 1, Len(s))

(* Selecting a market fetches its trades and its candles; an answer for    *)
(* candles asked before is dead from now on.                               *)
dropped_none(requests) == requests
dropped(requests) == [i \in DOMAIN requests |->
  IF requests[i].what = "candles" THEN [requests[i] EXCEPT !.what = "dead"] ELSE requests[i]]

Selecting(m, requests) ==
  /\ selected' = m
  /\ asked' = IF m = selected THEN requests
              ELSE dropped(requests) \o <<Request("trades", m), Request("candles", m)>>

(* The user picks a market of the explorer or the index, or one whose      *)
(* launch was just answered.                                               *)
Select(m) ==
  /\ m \in onchain /\ selects > 0 /\ Len(asked) + 2 <= MaxAsked
  /\ selects' = selects - 1
  /\ Selecting(m, asked)
  /\ UNCHANGED <<server, socket, markets, trades, chart, drops>>

due_once == markets = {}
due == TRUE

(* Every five seconds. *)
Poll ==
  /\ due /\ Len(asked) < MaxAsked
  /\ asked' = Append(asked, Request("markets", None))
  /\ UNCHANGED <<server, socket, selected, markets, trades, chart, bounds>>

Answered(i) ==
  /\ i \in DOMAIN asked /\ asked[i].snap # Waiting
  /\ InOrder => i = 1

(* The first markets that arrive select one. *)
MarketsArrive(i) ==
  /\ Answered(i) /\ asked[i].what = "markets"
  /\ markets' = ToSet(asked[i].snap)
  /\ IF selected = None /\ markets' # {}
     THEN Len(asked) + 1 <= MaxAsked /\ Selecting(Head(asked[i].snap), Without(asked, i))
     ELSE asked' = Without(asked, i) /\ UNCHANGED selected
  /\ UNCHANGED <<server, socket, trades, chart, bounds>>

TradesArrive(i) ==
  /\ Answered(i) /\ asked[i].what = "trades"
  /\ trades' = asked[i].snap
  /\ asked' = Without(asked, i)
  /\ UNCHANGED <<server, socket, selected, markets, chart, bounds>>

CandlesArrive(i) ==
  /\ Answered(i) /\ asked[i].what \in {"candles", "dead"}
  /\ chart' = IF asked[i].what = "candles"
              THEN [market |-> asked[i].market, bars |-> asked[i].snap] ELSE chart
  /\ asked' = Without(asked, i)
  /\ UNCHANGED <<server, socket, selected, markets, trades, bounds>>

wanted_all(msg) == TRUE
wanted(msg) == msg.market = selected

(* A message of the socket goes to the panel and, as the last trade, to    *)
(* the chart.                                                              *)
Message ==
  LET msg == Head(socket.queue) IN
  /\ socket.queue # << >>
  /\ socket' = [socket EXCEPT !.queue = Tail(@)]
  /\ IF wanted(msg)
     THEN /\ trades' = newest(<<msg.trade>> \o trades)
          /\ chart' = [chart EXCEPT !.bars = newest(<<msg.trade>> \o @)]
     ELSE UNCHANGED <<trades, chart>>
  /\ UNCHANGED <<server, asked, selected, markets, bounds>>

(* The socket closes and what was on its way is lost; a second and a half  *)
(* later it is opened again. Nothing is fetched for the gap.               *)
SocketCloses ==
  /\ socket.up /\ drops > 0
  /\ drops' = drops - 1
  /\ socket' = [up |-> FALSE, queue |-> << >>]
  /\ UNCHANGED <<server, asked, selected, markets, trades, chart, selects>>

Reconnect ==
  /\ ~socket.up
  /\ socket' = [socket EXCEPT !.up = TRUE]
  /\ UNCHANGED <<server, asked, selected, markets, trades, chart, bounds>>

-----------------------------------------------------------------------------
Arrive(i) == MarketsArrive(i) \/ TradesArrive(i) \/ CandlesArrive(i)

Next ==
  \/ \E m \in Markets : Trade(m) \/ Listed(m) \/ Select(m)
  \/ \E i \in 1..MaxAsked : Serve(i) \/ Arrive(i)
  \/ Poll \/ Message \/ SocketCloses \/ Reconnect

Spec == Init /\ [][Next]_vars

(* The timer of the poll fires, requests are served and answered. *)
FairSpec ==
  /\ Spec
  /\ WF_vars(Poll)
  /\ \A i \in 1..MaxAsked : WF_vars(Serve(i)) /\ WF_vars(Arrive(i))

-----------------------------------------------------------------------------
(* Properties. *)

Of(m) == ToSet(feed[m])

(* The chart never turns to a market that is not selected, in whatever     *)
(* order the answers arrive: the effect marks what it asked before dead.   *)
ChartFollowsSelection == [][chart'.market # chart.market => chart'.market = selected]_vars

(* Answers that arrive in order: once the page has what it asked for, the  *)
(* panel shows trades of the selected market only, live ones included.     *)
(* (Nothing makes answers arrive in order: setTrades takes the last one.)  *)
TradesOfSelected ==
  selected # None /\ (\A i \in DOMAIN asked : asked[i].what # "trades")
    => ToSet(trades) \subseteq Of(selected)

(* A market selected before a poll has seen it (one just launched) is      *)
(* shown in the end.                                                       *)
SelectedIsShown == \A m \in Markets : (selected = m) ~> (m \in markets)
=============================================================================
