----------------------------- MODULE MCClients -----------------------------
(***************************************************************************)
(* The app and the blog side by side for TLC: the trade and hedge panels   *)
(* (TradePanel, extended), the market page (AppView) and its candles       *)
(* (LiveChart) and tabs (PanelTabs), the explorer (Explorer) and the       *)
(* blog's store (BlogStore). They share no state; "part" names what moves, *)
(* and in which setting.                                                   *)
(***************************************************************************)
EXTENDS TradePanel, Sequences

VARIABLES part,
          feed, onchain, socket, asked, selected, markets, trades, chart,
          count, selects, drops,
          now, served, queue, history, market, tf, bars, lastBar, changes,
          debt, tabIndex, tabLive, tabMarket, openTab, owner, unasked, reads, pos, holderRows,
          busy, tabMoves, tabFaults,
          status, rows, query, due, match, chains, supply, holders, matchTrades,
          searches, searchFaults,
          file, req, clash, comments, linked, posts, acked, stored, news, subs, links, blogFaults

viewVars == <<feed, onchain, socket, asked, selected, markets, trades, chart,
              count, selects, drops>>
barVars == <<now, served, queue, history, market, tf, bars, lastBar, changes>>
tabVars == <<debt, tabIndex, tabLive, tabMarket, openTab, owner, unasked, reads, pos, holderRows,
             busy, tabMoves, tabFaults>>
searchVars == <<status, rows, query, due, match, chains, supply, holders, matchTrades,
                searches, searchFaults>>
blogVars == <<file, req, clash, comments, linked, posts, acked, stored, news, subs, links, blogFaults>>

(* A hedge on a live market whose index and funding move.                  *)
Hedge == INSTANCE TradePanel
  WITH SolIn <- {20}, Indexes <- {100, 130}, Fundings <- {10, 12}, Phase <- "live",
       MaxOrders <- 1

(* Answers in any order, and a chart; or in order, and a socket that drops.*)
Chart == INSTANCE AppView
  WITH Markets <- {"m1", "m2"}, Limit <- 2, InOrder <- FALSE,
       MaxTrades <- 1, MaxSelects <- 2, MaxAsked <- 3, Drops <- 0
Trades == INSTANCE AppView
  WITH Markets <- {"m1", "m2"}, Limit <- 2, InOrder <- TRUE,
       MaxTrades <- 1, MaxSelects <- 2, MaxAsked <- 3, Drops <- 1

(* Two markets in candles of one and of two ticks.                         *)
Bars == INSTANCE LiveChart
  WITH Markets <- {"m1", "m2"}, Prices <- {1, 2}, Widths <- {1, 2}, MaxTrades <- 3,
       MaxTime <- 1, MaxSelects <- 1,
       feed <- served, asked <- history, last <- lastBar, selects <- changes

(* Two markets, two accounts of one wallet, one read of the chain fails.   *)
Tabs == INSTANCE PanelTabs
  WITH Markets <- {"m1", "m2"}, Wallets <- {"u1", "u2"}, Debts <- {0, 5}, Indexes <- {1, 2},
       InOrder <- TRUE, MaxAsked <- 2, MaxMoves <- 4, Faults <- 1,
       index <- tabIndex, live <- tabLive, market <- tabMarket, tab <- openTab, wallet <- owner,
       asked <- reads, rows <- holderRows, moves <- tabMoves, faults <- tabFaults

Search == INSTANCE Explorer
  WITH Markets <- {"m1", "m2"}, InOrder <- TRUE, MaxChains <- 3, MaxSearches <- 4, Faults <- 1,
       markets <- rows, selected <- match, trades <- matchTrades, faults <- searchFaults

(* On Redis and on the file: comments of two users, and subscriptions of   *)
(* an address in several spellings; two requests overlap, a call fails.    *)
BlogSpellings == {<<"ann", "ann">>, <<"ann", "Ann">>, <<"bob", "bob">>}
ASSUME NoneAssumption == None \notin Nat \cup {e[1] : e \in BlogSpellings}
Redis == INSTANCE BlogStore
  WITH Upstash <- TRUE, Users <- {"u1", "u2"}, Requests <- {"r1", "r2"}, MAX_COMMENTS <- 2, Spellings <- BlogSpellings,
       MaxPosts <- 3, MaxLinks <- 0, MaxSubs <- 0, Faults <- 1,
       page <- comments, taken <- stored, faults <- blogFaults
Mails == INSTANCE BlogStore
  WITH Upstash <- TRUE, Users <- {"u1"}, Requests <- {"r1", "r2"}, MAX_COMMENTS <- 2, Spellings <- BlogSpellings,
       MaxPosts <- 1, MaxLinks <- 1, MaxSubs <- 4, Faults <- 1,
       page <- comments, taken <- stored, faults <- blogFaults
File == INSTANCE BlogStore
  WITH Upstash <- FALSE, Users <- {"u1", "u2"}, Requests <- {"r1", "r2"}, MAX_COMMENTS <- 2, Spellings <- BlogSpellings,
       MaxPosts <- 3, MaxLinks <- 0, MaxSubs <- 0, Faults <- 1,
       page <- comments, taken <- stored, faults <- blogFaults
FileMails == INSTANCE BlogStore
  WITH Upstash <- FALSE, Users <- {"u1"}, Requests <- {"r1", "r2"}, MAX_COMMENTS <- 2, Spellings <- BlogSpellings,
       MaxPosts <- 0, MaxLinks <- 0, MaxSubs <- 4, Faults <- 2,
       page <- comments, taken <- stored, faults <- blogFaults

BlogInit ==
  CASE part = "mails" -> Mails!Init
    [] part = "file" -> File!Init
    [] part = "filemails" -> FileMails!Init
    [] OTHER -> Redis!Init

(* A part that does not move has a single initial state.                   *)
ClientsInit ==
  /\ part \in {"trade", "hedge", "chart", "trades", "bars", "tabs", "search", "comments", "mails", "file", "filemails"}
  /\ IF part = "hedge" THEN Hedge!Init ELSE Init
  /\ IF part = "trades" THEN Trades!Init ELSE Chart!Init
  /\ part \in {"chart", "trades"} \/ onchain = {}
  /\ Bars!Init /\ Tabs!Init /\ Search!Init /\ BlogInit
  /\ part = "tabs" \/ debt = [m \in {"m1", "m2"} |-> [w \in {"u1", "u2"} |-> 0]]

ClientsNext ==
  /\ UNCHANGED part
  /\ \/ /\ \/ part = "trade" /\ Next
           \/ part = "hedge" /\ Hedge!Next
        /\ UNCHANGED <<viewVars, barVars, tabVars, searchVars, blogVars>>
     \/ /\ \/ part = "chart" /\ Chart!Next
           \/ part = "trades" /\ Trades!Next
        /\ UNCHANGED <<vars, barVars, tabVars, searchVars, blogVars>>
     \/ part = "bars" /\ Bars!Next /\ UNCHANGED <<vars, viewVars, tabVars, searchVars, blogVars>>
     \/ part = "tabs" /\ Tabs!Next /\ UNCHANGED <<vars, viewVars, barVars, searchVars, blogVars>>
     \/ part = "search" /\ Search!Next /\ UNCHANGED <<vars, viewVars, barVars, tabVars, blogVars>>
     \/ /\ \/ part = "comments" /\ Redis!Next
           \/ part = "mails" /\ Mails!Next
           \/ part = "file" /\ File!Next
           \/ part = "filemails" /\ FileMails!Next
        /\ UNCHANGED <<vars, viewVars, barVars, tabVars, searchVars>>

ClientsSpec ==
  ClientsInit /\ [][ClientsNext]_<<part, vars, viewVars, barVars, tabVars, searchVars, blogVars>>

-----------------------------------------------------------------------------
(* The properties of the parts; each holds trivially of a part at rest.    *)

(* The chart turns to no market that is not selected, and its bars are     *)
(* made of this market's trades; with answers in order the panel shows     *)
(* trades of the market selected; and when their calls have ended the      *)
(* tabs and the explorer show one market.                                  *)
SelectionIsShown ==
  /\ Chart!ChartFollowsSelection
  /\ [](part = "trades" => Trades!TradesOfSelected)
  /\ [](Bars!BarsWereTraded /\ Tabs!TabsShowSelected /\ Search!TokenOfSelected)

(* Comments the server answered for are kept, an address is new once and   *)
(* then stays, and a page shows no comment that was never stored.          *)
StoreKeeps ==
  /\ part = "comments" => Redis!CommentsKept /\ Redis!ShownWereStored
  /\ part = "file" => File!CommentsKept /\ File!ShownWereStored
  /\ part = "mails" => Mails!SubscribedOnce
  /\ part = "filemails" => FileMails!SubscribedOnce
=============================================================================
