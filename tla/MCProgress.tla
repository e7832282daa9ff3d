----------------------------- MODULE MCProgress -----------------------------
(***************************************************************************)
(* What must come to an end, side by side for TLC: a launch that was paid  *)
(* (Launch, extended), a sweep of an escrow (Escrow), the page of a market *)
(* just selected (AppView), the row of the one match of a search           *)
(* (Explorer), the button of the item panel (ItemPanel), a comment on its  *)
(* way (BlogStore), and the operator's scripts that fetch pictures         *)
(* (CardImages) and mint them (MintBatch). They share no state; "part"     *)
(* names what moves.                                                       *)
(***************************************************************************)
EXTENDS Launch

VARIABLES part,
          store, escrowReq, bio, issued, balance, got, proven, logins, escrowFaults,
          feed, onchain, socket, asked, selected, shownMarkets, shownTrades, chart,
          count, selects, drops,
          status, rows, query, due, match, chains, supply, holders, trades,
          searches, searchFaults,
          at, tokens, index, shown, wallet, nfts, itemsAsked, click, paid, taken,
          clicks, timeouts,
          file, blogReq, clash, page, linked, posts, acked, stored, news, subs, links, blogFaults,
          card, rung, imagePc, tries, hit, disk, imageResults, report, imageRuns,
          credits, bought, mintPc, image, polls, uploads, results, mintFile, assets,
          runs, mintFaults

escrowVars == <<store, escrowReq, bio, issued, balance, got, proven, logins, escrowFaults>>
pageVars == <<feed, onchain, socket, asked, selected, shownMarkets, shownTrades, chart,
              count, selects, drops>>
searchVars == <<status, rows, query, due, match, chains, supply, holders, trades,
                  searches, searchFaults>>
panelVars == <<at, tokens, index, shown, wallet, nfts, itemsAsked, click, paid, taken,
              clicks, timeouts>>
blogVars == <<file, blogReq, clash, page, linked, posts, acked, stored, news, subs, links, blogFaults>>
imageVars == <<card, rung, imagePc, tries, hit, disk, imageResults, report, imageRuns>>
mintVars == <<credits, bought, mintPc, image, polls, uploads, results, mintFile, assets,
              runs, mintFaults>>
clientVars == <<searchVars, panelVars, blogVars>>
scriptVars == <<imageVars, mintVars>>

(* Two requests race to sweep one identity; fees arrive meanwhile.         *)
Escrows == INSTANCE Escrow
  WITH BioIds <- {"yt"}, XIds <- {}, Wallets <- {"w1"}, NoWallet <- NoUser, Local <- FALSE,
       MaxNonces <- 2, MaxLogins <- 0, MaxFees <- 2, Faults <- 0,
       req <- escrowReq, faults <- escrowFaults

(* Answers in any order; markets are not known when they are selected.     *)
Page == INSTANCE AppView
  WITH Markets <- {"m1", "m2"}, None <- NoUser, Limit <- 2, InOrder <- FALSE,
       MaxTrades <- 0, MaxSelects <- 2, MaxAsked <- 3, Drops <- 0,
       markets <- shownMarkets, trades <- shownTrades

Search == INSTANCE Explorer
  WITH Markets <- {"m1", "m2"}, None <- NoUser, InOrder <- FALSE,
       MaxChains <- 2, MaxSearches <- 3, Faults <- 0,
       markets <- rows, selected <- match, faults <- searchFaults

(* Two registered mints; a confirmation that times out.                    *)
Panel == INSTANCE ItemPanel
  WITH Users <- {"u1", "u2"}, Escrow <- "escrow", None <- NoUser, ItemSeq <- <<"i1", "i2">>,
       BPS <- 10000, BASE_UNITS_PER_NFT <- 1000, FUNDING_ONE <- 10, MICRO <- 10, DAY <- 10,
       CREATOR_FEE_SHARE_BPS <- 5000, MAX_U64 <- 100000000,
       UnitsMicro <- 20, CurveFeeBps <- 70, Indexes <- {50, 60}, Mark <- 50,
       TokenSteps <- {2}, Timeouts <- 1, Clicks <- 1, asked <- itemsAsked

(* The file backend, with a store that may fail once.                      *)
Blog == INSTANCE BlogStore
  WITH Upstash <- FALSE, None <- NoUser, Spellings <- {<<"ann", "ann">>}, MAX_COMMENTS <- 2,
       MaxPosts <- 2, MaxLinks <- 0, MaxSubs <- 0, Faults <- 1,
       req <- blogReq, taken <- stored, faults <- blogFaults

(* A card of each kind and one without a code; a print that shares a word  *)
(* with the Pokemon card and one that shares none; the last two cards have *)
(* one file name; two runs.                                                *)
Pictures == INSTANCE CardImages
  WITH Cards <- <<"u", "f", "o", "p">>,
       Kind <- [p |-> "pokemon", o |-> "onepiece", f |-> "foreign", u |-> "onepiece"],
       Coded <- {"o", "f"}, Prints <- {"p", "o", "f", "u", "x", "y"},
       Words <- [p |-> {1, 2}, x |-> {2}, y |-> {3}, o |-> {4}, f |-> {5}, u |-> {6}],
       safe <- [p |-> "s", o |-> "s", f |-> "t", u |-> "v"],
       Nums <- 1, Names <- 2, MaxTries <- 2, MaxRuns <- 2,
       at <- card, pc <- imagePc, results <- imageResults, runs <- imageRuns

(* Two pictures; a top-up buys less than both take.                        *)
Mints == INSTANCE MintBatch
  WITH Images <- 2, Cost <- 1, TopUp <- 3, MaxPolls <- 2, MaxRuns <- 3, Faults <- 2,
       pc <- mintPc, at <- image, file <- mintFile, faults <- mintFaults

(* A part that does not move has a single initial state. *)
ProgressInit ==
  /\ part \in {"launch", "escrow", "page", "search", "items", "blog", "pictures", "mints"}
  /\ Init /\ Escrows!Init /\ Page!Init /\ Search!Init /\ Panel!Init /\ Blog!Init
  /\ Pictures!Init /\ Mints!Init
  /\ part = "launch" \/ listings = << >>
  /\ part = "page" \/ onchain = {}
  /\ part = "mints" \/ credits = 0
  /\ part = "items" \/ (index = 50 /\ wallet = "u1" /\ at = [i \in {"i1", "i2"} |-> "escrow"])

ProgressNext ==
  /\ UNCHANGED part
  /\ \/ part = "launch" /\ Next /\ UNCHANGED <<escrowVars, pageVars, clientVars, scriptVars>>
     \/ part = "escrow" /\ Escrows!Next /\ UNCHANGED <<vars, pageVars, clientVars, scriptVars>>
     \/ part = "page" /\ Page!Next /\ UNCHANGED <<vars, escrowVars, clientVars, scriptVars>>
     \/ /\ \/ part = "search" /\ Search!Next /\ UNCHANGED <<panelVars, blogVars>>
           \/ part = "items" /\ Panel!Next /\ UNCHANGED <<searchVars, blogVars>>
           \/ part = "blog" /\ Blog!Next /\ UNCHANGED <<searchVars, panelVars>>
        /\ UNCHANGED <<vars, escrowVars, pageVars, scriptVars>>
     \/ /\ \/ part = "pictures" /\ Pictures!Next /\ UNCHANGED mintVars
           \/ part = "mints" /\ Mints!Next /\ UNCHANGED imageVars
        /\ UNCHANGED <<vars, escrowVars, pageVars, clientVars>>

(* The fairness of each module, for the part that moves. *)
ProgressSpec ==
  /\ ProgressInit
  /\ [][ProgressNext]_<<part, vars, escrowVars, pageVars, clientVars, scriptVars>>
  /\ \A r \in Requests : WF_vars(part = "launch" /\ Step(r))
  /\ \A u \in Users : WF_vars(part = "launch" /\ \E r \in Requests, v \in Venues : Post(u, r, v))
  /\ \A r \in Requests : WF_escrowVars(part = "escrow" /\ Escrows!Step(r))
  /\ WF_pageVars(part = "page" /\ Page!Poll)
  /\ \A i \in 1..3 : WF_pageVars(part = "page" /\ Page!Serve(i))
                     /\ WF_pageVars(part = "page" /\ Page!Arrive(i))
  /\ WF_searchVars(part = "search" /\ Search!Poll)
  /\ WF_searchVars(part = "search" /\ Search!AutoSelect)
  /\ \A i \in 1..2 : WF_searchVars(part = "search" /\ Search!Arrive(i))
  /\ WF_panelVars(part = "items" /\ Panel!Ends)
  /\ \A r \in Requests : WF_blogVars(part = "blog" /\ Blog!Serve(r))
  /\ \A u \in Users : WF_blogVars(part = "blog" /\ Blog!Answered(u))
  /\ WF_imageVars(part = "pictures" /\ Pictures!Step)
  /\ WF_mintVars(part = "mints" /\ Mints!Step)
  /\ WF_mintVars(part = "mints" /\ Mints!Credited)

-----------------------------------------------------------------------------
(* The properties of the parts; each holds trivially of a part at rest. *)

(* A launch that was paid is listed, and a sweep under way empties the     *)
(* escrow.                                                                 *)
LaunchesEnd == PaidLaunchIsListed /\ Escrows!SweepEmpties

(* The market selected is shown in the end, the one match of a query stays *)
(* selected with its latest row, and the buttons that take an item or post *)
(* a comment come back; a click on redeem takes one copy, and another for  *)
(* each confirmation that is lost.                                         *)
PagesSettle ==
  /\ Page!SelectedIsShown
  /\ part = "search" => Search!MatchIsFollowed
  /\ Panel!PanelFreed /\ Blog!PostingEnds /\ []Panel!RedeemTakesFew

(* A run of either script ends whatever fails; a card reported as done has *)
(* a picture that was trusted for its file; no upload is begun without     *)
(* credits for the batch; and mints.json lists the assets of one run.      *)
ScriptsKeepTheirWord ==
  /\ Pictures!RunEnds /\ Mints!RunEnds
  /\ [](Pictures!ReportedIsOnDisk /\ Mints!UploadsCovered /\ Mints!FileIsOneRun)
=============================================================================
