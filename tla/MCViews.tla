------------------------------ MODULE MCViews ------------------------------
(***************************************************************************)
(* What the indexer and the relayer compute for others to see, side by     *)
(* side for TLC: the caches (Caches, extended), the copies of a swap that  *)
(* webhook and poller feed (Ingestion), the candles (Candles), the holders *)
(* of a token (Holders), the collectibles of a wallet (Holdings), the      *)
(* allowlist (Catalog) and the estimates of an index (Estimator). They     *)
(* share no state, nor do caches of different kinds, so one part moves at  *)
(* a time: "part" names it.                                                *)
(***************************************************************************)
EXTENDS Caches, Sequences

CONSTANTS MaxSig, Failed, NotSwap, Ticks, Hooks, Limit, FirstLimit,             \* Ingestion
          Tokens, Sols, MaxTxs, MaxTime, Width, Shown,                          \* Candles
          MaxAccount, Wallets, Vaults, MaxAmount,                               \* Holders
          MaxAsset, CardKeys, Grades, NoGrade, Collections, Catalog,            \* Holdings
          Group, Price, MinListings, MinFloorUsd, Candidates, Volume, MinVolume,  \* Catalog
          Prices, MaxSales, MaxAsks, Lookback, minSales, maxDisagreementBps,    \* Estimator
          PageSize, PageCap, MaxMoves   \* of whatever is read page by page

ASSUME CachesAssumption ==
  /\ Kinds = {"pool", "body", "dex", "floor", "sol"} /\ Ttl \in [Kinds -> Nat]
  /\ MaxWait \in Nat /\ MaxAge \in Nat /\ Faults \in Nat

(* What is read page by page fits the pages that are read.                 *)
ASSUME PagesAssumption ==
  /\ MaxAccount \in Nat /\ MaxAmount \in Nat /\ MaxAsset \in Nat
  /\ PageSize \in Nat \ {0} /\ PageCap \in Nat
  /\ MaxAccount <= PageCap * PageSize /\ MaxAsset <= PageCap * PageSize

(* The cards of the catalog are graded; listings are numbered.             *)
ASSUME CatalogAssumption ==
  /\ Catalog \subseteq CardKeys \X Grades /\ NoGrade \notin Grades
  /\ Len(Group) \in Nat /\ DOMAIN Group = 1..Len(Group) /\ Price \in [DOMAIN Group -> Int]
  /\ IsFiniteSet(Candidates) /\ Volume \in [Candidates -> Int]
  /\ MinListings \in Int /\ MinFloorUsd \in Int /\ MinVolume \in Int

(* Finitely many requests at a time; pages have a length.                  *)
ASSUME HooksAssumption ==
  IsFiniteSet(Hooks) /\ MaxSig \in Nat /\ Limit \in Nat /\ FirstLimit \in Nat

(* A transaction moves some of both currencies; a candle is asked for by   *)
(* its width in seconds, and one candle at least.                          *)
ASSUME CandlesAssumption ==
  /\ Tokens \subseteq Nat \ {0} /\ Sols \subseteq Nat \ {0}
  /\ Width \in Nat \ {0} /\ Shown \in Nat \ {0}

(* Time in ticks of about 3 s for the pool and the rows built from it; the *)
(* other caches only need an entry that can be young or old.               *)
MCTtl == [pool |-> 3, body |-> 1, dex |-> 1, floor |-> 1, sol |-> 1]

MCCatalog == {<<"c1", "g10">>}
MCGroup == <<"c1", "c1", "c2", "c1">>
MCPrice == <<5, 3, 3, 2>>
MCVolume == [a |-> 3, b |-> 1, c |-> 2]

VARIABLES part,
          chain, migrated, trades, seen, last, polling, poll, hook, disk, feedFaults,
          now, txs, feed, fed,
          owner, amount, page, cursor, balances, pc, held, quiet, moves, pageFaults,
          kind, mine, dasPage, assets, dasPc, had, dasQuiet, dasMoves, dasFaults,
          onSale, pages, read_pages, read, nfts, scanPc, file, allow, before, offered,
          scanQuiet, scanMoves, scanFaults,
          sales, asks, floor

hookVars == <<chain, migrated, trades, seen, last, polling, poll, hook, disk, feedFaults>>
candleVars == <<now, txs, feed, fed>>
holderVars == <<owner, amount, page, cursor, balances, pc, held, quiet, moves, pageFaults>>
walletVars == <<kind, mine, dasPage, assets, dasPc, had, dasQuiet, dasMoves, dasFaults>>
scanVars == <<onSale, pages, read_pages, read, nfts, scanPc, file, allow, before, offered,
              scanQuiet, scanMoves, scanFaults>>
saleVars == <<sales, asks, floor>>

(* Three signatures, one of which is no swap; one poller and two requests  *)
(* that may overlap; each fetch may fail once.                             *)
Hook == INSTANCE Ingestion
  WITH ListFaults <- 0, FetchFaults <- Faults, HookFaults <- Faults, MaxCrashes <- 0,
       cursor <- last, faults <- feedFaults

Swap == INSTANCE Candles
  WITH Limit <- Shown

(* Four accounts of two wallets and a pool, in pages of two.               *)
Holder == INSTANCE Holders
  WITH faults <- pageFaults

(* Three assets in pages of two; one card in one grade is in the catalog.  *)
Wallet == INSTANCE Holdings
  WITH page <- dasPage, pc <- dasPc, quiet <- dasQuiet, moves <- dasMoves,
       faults <- dasFaults

(* Four offers of two cards in pages of two; three collections.            *)
Scan == INSTANCE Catalog
  WITH Collections <- Candidates, page <- read_pages, pc <- scanPc, quiet <- scanQuiet,
       moves <- scanMoves, faults <- scanFaults

Sale == INSTANCE Estimator

(* Which caches are read in each part: /markets goes through two.          *)
Read_by == [markets |-> {"pool", "body"}, dex |-> {"dex"}, floor |-> {"floor"}, sol |-> {"sol"}]

Off == "off"
HolderInit ==
  IF part = "holders" THEN Holder!Init
  ELSE /\ owner = Off /\ amount = Off /\ page = Off /\ cursor = Off /\ balances = Off
       /\ pc = Off /\ held = Off /\ quiet = Off /\ moves = Off /\ pageFaults = Off
WalletInit ==
  IF part = "wallet" THEN Wallet!Init
  ELSE /\ kind = Off /\ mine = Off /\ dasPage = Off /\ assets = Off /\ dasPc = Off
       /\ had = Off /\ dasQuiet = Off /\ dasMoves = Off /\ dasFaults = Off

ScanInit == IF part = "scan" THEN Scan!Init ELSE Scan!Init /\ onSale = << >>

ViewsInit ==
  /\ part \in DOMAIN Read_by \cup {"fees", "hooks", "candles", "holders", "wallet", "scan", "sales", "asks"}
  /\ Init /\ Hook!Init /\ Swap!Init /\ HolderInit /\ WalletInit /\ ScanInit /\ Sale!Init

CacheNext(kinds) ==
  \/ Tick
  \/ \E r \in Readers :
       \/ \E k \in kinds : Hit(r, k) \/ Miss(r, k)
       \/ Read(r) \/ ReadFails(r) \/ Arrive(r) \/ Build(r)

ViewsNext ==
  /\ UNCHANGED part
  /\ \/ /\ \/ part \in DOMAIN Read_by /\ CacheNext(Read_by[part])
           \/ part = "fees" /\ (Accrue \/ ShowFees)
        /\ UNCHANGED <<hookVars, candleVars, holderVars, walletVars, scanVars, saleVars>>
     \/ part = "hooks" /\ Hook!Next
        /\ UNCHANGED <<vars, candleVars, holderVars, walletVars, scanVars, saleVars>>
     \/ part = "candles" /\ Swap!Next
        /\ UNCHANGED <<vars, hookVars, holderVars, walletVars, scanVars, saleVars>>
     \/ part = "holders" /\ Holder!Next
        /\ UNCHANGED <<vars, hookVars, candleVars, walletVars, scanVars, saleVars>>
     \/ part = "wallet" /\ Wallet!Next
        /\ UNCHANGED <<vars, hookVars, candleVars, holderVars, scanVars, saleVars>>
     \/ part = "scan" /\ Scan!Next
        /\ UNCHANGED <<vars, hookVars, candleVars, holderVars, walletVars, saleVars>>
     \/ /\ \/ part = "sales" /\ (Sale!Day \/ \E p \in Prices : Sale!Sale(p))
           \/ part = "asks" /\ (Sale!Fill \/ Sale!ReportFloor \/ \E p \in Prices : Sale!Ask(p))
        /\ UNCHANGED <<vars, hookVars, candleVars, holderVars, walletVars, scanVars>>

ViewsSpec ==
  ViewsInit
    /\ [][ViewsNext]_<<part, vars, hookVars, candleVars, holderVars, walletVars, scanVars, saleVars>>

-----------------------------------------------------------------------------
(* The properties of the parts; each holds trivially of a part at rest. *)

(* A view is no older than its caches' lives allow, however reads overlap; *)
(* an exchange rate that was found is kept while the source fails; and the *)
(* fees shown never fall unless a read failed.                             *)
CachesAreFresh ==
  [](ViewsAreRecent /\ EntriesAreRecent) /\ RateIsKept /\ FeesOnlyGoUp

(* Every swap that arrived keeps its side and amounts, and each candle is  *)
(* what the trades of its interval make it.                                *)
TradesAreShown == Swap!SwapsParsed /\ Swap!CandlesMatchTrades

(* Webhook requests, repeated deliveries and the poller race for a swap:   *)
(* once its signature was seen, none that comes later adds a copy of it.   *)
SeenSwapsAreDeduped == Hook!NoCopyOnceSeen

(* Lists read page by page while tokens move: no holder is shown with more *)
(* than it held and no vault, only collectibles the wallet had are its     *)
(* own, and what is read while nothing moved or failed is complete. The    *)
(* allowlist counts no listing twice unless new offers shift the pages.    *)
PagedAnswersTrue ==
  /\ part = "holders" => Holder!ShownWasHeld /\ Holder!FullList
  /\ part = "wallet" => Wallet!HeldWasHad /\ Wallet!QuietCountsExact
  /\ Scan!CountedOnce /\ Scan!QuietAllowlistExact /\ Scan!AllowlistIsDeep

(* The estimate from sales is a weighted median of the sales kept, at      *)
(* least half of them; the ask opens no gate that disagreement closed; and *)
(* one listing moves the NFT estimate to the two cheapest at most.         *)
EstimateIsRobust ==
  /\ [](Sale!WeightedMedianIsMedian /\ Sale!MajorityKept /\ Sale!DisagreementHolds)
  /\ Sale!OneListingMovesLittle
=============================================================================
