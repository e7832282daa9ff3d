# A TLA+ model of floorlaunch

floorlaunch (the app calls it Commas) lets anybody launch a token that tracks the
floor price of a collection. An on-chain program (Rust, Anchor) runs each market; a
TypeScript indexer, a relayer, a web app and a blog surround it. This directory models all
of them, model-checks small instances with TLC and proves theorems about markets of every
size with TLAPS.

## The system

| Part | Source | State it keeps | Operations |
|---|---|---|---|
| Program: market | `programs/floorlaunch/src/lib.rs`, `state.rs` | `Market` account, `sol_vault`, pool, treasury and item-reserve token accounts | `create_market`, `create_external_market`, `curve_buy/sell`, `graduate`, `amm_buy/sell`, `fund_insurance`, `withdraw_fees`, `withdraw_creator_fees` |
| Program: oracle and admin | the same | index TWAP, mark EMA, their timestamps, `frozen`, `params` | `push_index`, `push_mark`, `set_frozen`, `update_market_params` |
| Program: shorts | the same | one `ShortPosition` per owner, market totals, funding index, insurance counter | `open_short`, `add_collateral`, `withdraw_collateral`, `accrue_funding`, `liquidate`, `close_position` |
| Program: items | the same | item registrations, item escrow accounts, `items_deposited` | `register_item`, `deposit_item`, `withdraw_item` |
| Program: global | the same | admin and oracle keys, identity escrow PDA | `init_global`, `set_oracle_authority`, `release_escrow` |
| Indexer: ingestion | `indexer/src/index.ts` | trades per market, seen signatures, a cursor per pool, a state file | log subscription, Helius webhook, pool poller, persist and restore |
| Indexer: keepers | `indexer/src/index.ts` | the set of markets being graduated, the webhook's id | `autoGraduate`, `sweepFees`, `refreshOracles`, `syncHeliusWebhook` |
| Indexer: views | `indexer/src/index.ts`, `launch.ts` | caches with times to live | `/markets`, `/candles`, `/holders`, `/holdings`, `/aggregator` |
| Indexer: launch | `indexer/src/launch.ts`, `dbc.ts` | the listings file | `devLaunch`, `dbcLaunch` |
| Indexer: identity escrow | `indexer/src/escrow.ts` | the escrow store, OAuth states | `checkVerification`, `sweepEscrow`, `handleXCallback` |
| Relayer | `relayer/src` | none | estimate of a floor price, push cycle |
| App | `app/src` | the selection, what was fetched, orders under way | quotes, transactions, the launch wizard, charts, tabs, explorer |
| Blog | `blog/src` | comments and subscribers, in a file or Redis | `addComment`, `addSubscriber`, the comment section |
| Scripts | `relayer/scripts`, `launcher` | files on disk | allowlist, card pictures, mint batch |

How they interact. Every service reaches the program through transactions; a transaction is
atomic, and transactions of different callers interleave in any order. The relayer and the
indexer's keepers are the callers of `push_index`, `push_mark`, `graduate` and
`withdraw_fees`; the app and bots call the rest. The program emits events that the indexer
turns into trades, candles and broadcasts. Inside a Node service every `await` is a point
where another request or timer runs; the code between two awaits runs undisturbed.

What is hard, and what makes each part correct:

- *Market*: five counters (venue SOL, insurance, two fee shares, collateral) share one vault.
  They must never add up to more than it holds, through rounding, graduation and every order
  of calls. Whoever bought from the curve must be able to sell back. Rounding must never favour
  the trader. The pool must hold what the venue quotes.
- *Oracle*: one push may not move the TWAP beyond the breaker; a frozen market must hold still;
  the staleness and rate-limit clocks are separate from the freeze.
- *Shorts*: totals kept beside positions, debts scaled by a funding index that moves, a fund
  that may run dry, cranks and liquidations that come late.
- *Items*: a swap priced from two feeds, with two divisions and a fee.
- *Ingestion*: three sources deliver the same swap, in any order, around awaits and restarts.
- *Keepers, launch, escrow*: read, await, write; overlapping timers; a failure between two of
  several steps; a crash between the chain and a file.
- *Views*: answers put together from cached, paged and failing reads of a world that moves.
- *App*: answers that arrive after the question has changed; prices computed in real numbers
  beside a program that computes in integers; confirmations that never arrive.

`PROJECT.json` lists the foremost hazards at their lines with the properties that cover them.

## Modules

The program:

| Module | Models |
|---|---|
| `FixedMath` | `mul_bps`, `cp_out`, `ema_step`, funding-scaled debt, value at the index; `as u64` is `U64` (a remainder), u128 intermediates are unbounded integers |
| `MarketState` | the accounts, one variable per field the handlers read; `update_mark`, `require_fresh_index`, `transfer_in/out` and the fee split as operators; the oracle's and the admin's handlers |
| `Trading`, `Shorts` | one action per handler; `Trading` also has the item swaps |
| `Floorlaunch` | one market: every handler, by any caller, in any order, with the clock (`Tick`) and plain token transfers (`spl_transfer`), and its properties |
| `FixedMath_proofs` | lemmas about the arithmetic and about sums over finite sets |
| `Floorlaunch_proofs` | the inductive invariant, the theorems about the market |

What surrounds it:

| Module | Models | State and steps |
|---|---|---|
| `TradeFeed` | the abstract specification of a feed: only swaps that happened, each at most once; a restart returns to what was saved, and a pool may be rebuilt once after each start | a count per swap, the rebuilds due |
| `Ingestion` | `pollMeteoraTrades`, `pollPoolSwaps`, the webhook handler, `persist`, `restore` | two pools of one market, cursors, `seenSigs`, the poll under way; one step per await |
| `ProgramFeed` | `subscribe`, `handleEvent` | a task per log notification, advancing event by event |
| `Candles` | `parseMeteoraSwap`, `candles` | balance changes of a pool's vaults, trades, buckets |
| `MarketRows` | the rows of `/markets`, `dammV2Vaults`, 24 h volumes | a row built in steps, its volume taken from the feed first, while markets launch, migrate and trade |
| `Caches` | every cached read, with what it serves and stores when a read fails | an entry's age since it was *read*, readers that overlap |
| `Holders`, `Holdings` | `/holders` and `/holdings`, page by page | accounts that move between two pages |
| `PriceBoard` | `/aggregator`, and the scaling of `refreshOracles` it undoes | prices, launch index, the board |
| `Keepers` | `autoGraduate` and `sweepFees`, with what `graduate` and `withdraw_fees` require | account lists read before, the set `graduating` |
| `WebhookSync` | `syncHeliusWebhook` | the webhooks at Helius, the id the process remembers |
| `OracleRefresh` | `refreshOracles` over its cached reads | curve and DAMM pools, what was pushed |
| `Relayer`, `Estimator` | the push cycle; `madFilter`, `recencyWeightedMedian`, `estimate`, `estimateNftIndex` | cycles that overlap; sales, asks and days |
| `Launch` | the wizard's deploy, `devLaunch`, `dbcLaunch`, `listings.json` | payments, launches under way, crash and boot |
| `Escrow` | `escrow.ts` and `release_escrow` | the store on disk and the copy each request holds |
| `AppView`, `LiveChart`, `PanelTabs`, `Explorer` | `App.tsx` with `api.ts`, `Chart.tsx`, `Panels.tsx`, `Explorer.tsx` | what was asked for which market, what is shown |
| `TradePanel`, `ItemPanel` | quotes, hedges, positions; paying with and redeeming collectibles, with `tx.ts` | the page's copy of the market beside the chain's |
| `BlogStore` | `store.ts` on both backends, the routes, `privy.ts`, the comment section | requests between read and write, a torn file, writes that overlap or are cut short |
| `Catalog`, `CardImages`, `MintBatch` | `allowlist.ts`, `card-images.ts`, `mint-core.mjs` | runs that are stopped and started again; pictures of other prints, files two cards share |
| `Indexer_proofs`, `Launch_proofs`, `Escrow_proofs`, `Views_proofs`, `BlogStore_proofs`, `Clients_proofs` | theorems about these | the invariants behind them |

Compositions (`MC...`). Of the program, `MCFloorlaunch` gives parameters to one market, for four
runs. The others put modules side by side in which nothing is shared
(`MCFeed`, `MCKeepers`, `MCViews`, `MCLaunches`, `MCClients`, `MCProgress`): each is an INSTANCE
with its own variables, and the variable `part`, chosen at the start, names the one that moves.
A property of one module depends on its own variables only, so nothing is lost by letting the
others rest, and one run asks one kind of question of all of them. Where modules do interact,
the interaction is inside a module: the poller and the webhook in `Ingestion`, the pool cache
and the rows in `Caches`, the caches and the pushes in `OracleRefresh`, the page and the program
in `TradePanel` and `ItemPanel`, the wizard, the server and the chain in `Launch`.

Conventions. An aborted transaction changes nothing, so an instruction is one action and its
`require!` checks are its guard. The build sets `overflow-checks = true`, so a u64 addition or
subtraction that does not fit is a guard too (`Fits`, `<=`). The order in which a handler reads
fields it also writes is kept: `curve_sell` updates the mark after one reserve moved and before
the other does, and the model does the same. In a service an action is the code between two
awaits. A call that fails costs one of a bounded number of `faults`, and may fail after it took
effect where the code cannot tell. Definitions whose comment begins with "A bug", and those
named after another definition with a suffix (`half_up`, `free_always`), are not used by the
specifications; each shows that some property notices that bug.

Left out of the market model: slippage limits (`TradePanel` has them), signer checks (they say
who may call; the model lets anybody who might), `index_last_raw` (written and never read on
chain), event emission. All lamports are in the vault or in `wallet`, which stands for everybody
else. Tokens of users are one pile, `circulating`: no handler distinguishes users except by a
balance, and one pile is the least restrictive choice.

Assumed of the outside (marked external in the map): Solana executes transactions atomically and
keeps them; Meteora's pools swap and migrate; Helius delivers, repeats or drops notifications;
DAS pages list what exists at the moment they are read; marketplaces, Turbo, Privy and wallets
answer, fail or are late.

## Runs

| Run | Question | Bounds | States |
|---|---|---|---|
| `trading` | Does an internal market stay solvent, exitable and fair from creation through graduation? | 10 lamports, buys of 2 and 5, sells of 1 and 4, two clock values, a 40% curve fee | 259 thousand |
| `shorts` | Do books, fund and vault survive two hedgers, a moving index and late cranks, and can every position settle? | 12 lamports, two symmetric owners, an index that doubles or halves, two mark prices, a clock of 4 with a 2-second day | 203 thousand |
| `oracle` | Does the breaker bound the TWAP, and does a frozen market hold still, among trades and a short? | three index prices (two beyond a breaker), two parameter sets, both venues | 365 thousand |
| `items` | Does the pool cover the venue, and are swaps priced at worth, with both venues and plain transfers? | two item mints (one with two copies), two index prices, a curve that raises more than its virtual seed | 241 thousand |
| `feed` | Do poller and log subscription implement `TradeFeed`, which swaps end up recorded, do rows turn to the migrated pool? | four signatures on two pools, pages of 2 and first pages of 3, overlapping timers, a failed listing, a failed fetch, a restart; three transactions notified twice; two markets, a failed read | 121 thousand |
| `keepers` | Do the timers reach their goals, and none does a step twice? | two markets and two overlapping runs; two pools, three failing calls, two restarts; three markets in two cycles | 82 thousand |
| `views` | Is what is shown recent, complete and true of something? | two readers of each cache; three signatures by webhook and poller; pages of one or two entries | 1.2 million |
| `launches` | Are markets paid for and listings kept, and do fees go to who proved the identity? | two users, two requests, both venues, resent payments, a fault; an identity by bio and one by X, two wallets | 1.4 million |
| `clients` | Do quotes fill, pages show what is selected, the blog keep what it took? | three orders, three moves by others; two markets, answers in any order; two blog requests that overlap on either backend, one or two faults | 1.3 million |
| `progress` | Does what was begun come to an end? | the same, with fairness; a redemption whose confirmation is lost, four cards of which two share a file | 63 thousand |
| `doc_funding_bricks` | expected to fail, see below | | |
| `doc_fee_used` | expected to fail, see below | | |

Every constant of the program runs is scaled down so that rounding is felt: `BPS = 10` means a
"basis point" is a tenth, an NFT unit is 10 or 20 base units, the funding index starts at 10 or
12. The formulas are the program's; only the scale differs, and the theorems below hold at every
scale. `TotalLamports` closes the lamport supply, `MaxNow` stops the clock, and the amounts a
caller may pass are small sets. Elsewhere what is bounded are the events of the world (swaps,
moves of a price, requests, faults, restarts), each with a constant of its own, never the
length of a queue the code would let grow. Because these run out the system really stops, hence
`CHECK_DEADLOCK FALSE` everywhere.

The bounds suffice for the cases that matter: `trading` graduates after several trades on either
side and trades on; `shorts` reaches profits beyond the fund, losses beyond the collateral,
cranks later than a day, liquidation and reopening of a zeroed account; `oracle` trips the
breaker in both directions, freezes by hand and changes the breaker between pushes; `items`
deposits before graduation, after it and on an external market; in `feed` a pool migrates while
it is polled and a restart falls between two polls; in the runs of services two requests always
overlap, which is what their hazards need, and a fault can fall on any call of either. Each
property has one or more mutants in `PROJECT.json`, plausible bugs of the code under which the
same run fails; a property that gathers several modules has one for each of them.

What the properties of the service runs say, part by part:

- `feed`. `FeedsRefineTradeFeed`: the poller and the log subscription are refinements of
  `TradeFeed` (the mapping counts the copies of each swap in the feed and in the file): nothing
  is recorded twice; a crash forgets, back to what was saved, and the first poll of a pool after
  a start drops its rows to read it anew (`index.ts:336`), once; nothing else is forgotten. A
  rebuild reads one page, so older rows it dropped are gone: in the run a first page (3) is
  shorter than a pool may be (4). `TradesGetRecorded`: in the end the newest swaps of each pool,
  a page of them, are in the feed, but for as many as fetches failed, whatever bursts and
  restarts there were; every swap is, for good, if nothing disturbs the poller (no restart, no
  failed fetch, no burst longer than a page). What is lost otherwise contradicts
  `index.ts:1171`, see below. A task stores all its trades; no trade is priced from before it.
  `RowsCatchUp`: a migrated market is shown at its live pool; a row is built with the volume the
  feed had when it was begun, so rows under way may miss a trade, and later ones have it.
- `keepers`. One graduation per market at a time, the creator never ahead of the treasury by
  more than odd lamports (`FeesAndGraduationsKept`); a market at its target graduates, unless it
  is frozen or has no index yet, which the program refuses, or falls below it again; fees are
  acted on, and a sweep that runs alone splits them evenly (`KeepersGetThere`); one webhook
  watching all pools (`WebhookConverges`); resting prices end up pushed although sources fail,
  and the board recovers them to half a step (`PricesFollow`).
- `views`. Entries and views built of entries are no older than their times to live and awaits
  allow (`CachesAreFresh`); once the signature of a swap was seen, no delivery or poll adds a
  copy to those on their way (`SeenSwapsAreDeduped`; requests that checked before do, against
  `index.ts:439`); candles are what trades make them (`TradesAreShown`); paged readings show
  nothing that was not there (`PagedAnswersTrue`); the estimate is a weighted median of a
  majority, one listing moves it little (`EstimateIsRobust`).
- `launches`. `PaymentsHold`: every market of the internal curve was paid for by who launched
  it; with launches one at a time a listed one used no payment of a market listed before it, and
  if none of them failed no market did. Launches through Meteora run beside them and pay
  nothing, as in the code; they name the payment they were sent with, which is used then.
  Either several payments are made or launches go to Meteora (`Bounded`), and where launches
  overlap only one of them does (`OneMeteora`). `ListedMarketsKept`, `PaidToProven`; and one
  request at a time (`SerialEscrowTrue`), the sweeps on file are true.
- `clients`. `QuotesFill` (an order on an untouched market is never rejected, unless it was
  quoted below one unit; one that fills gives what was shown less 2%), `ShownLiquidationHolds`,
  `SelectionIsShown`, `StoreKeeps`. Trades, tabs and the explorer show the selected market when
  answers arrive in order; only the chart guards itself against any order. `StoreKeeps` has two
  requests overlap on either backend and calls fail at any step: on Redis nothing acknowledged
  is lost, nor is it on the file until two writes overlap or one fails after it truncated the
  file; what was in it then is no longer counted as acknowledged.
- `progress`. `LaunchesEnd`; `PagesSettle`, with one copy redeemed per click and one more for
  each confirmation that is lost; `ScriptsKeepTheirWord`: runs end, no upload begins without
  credits, and a card reported as done has a picture of a print that was trusted for it, or for
  a card with the same file name (names share a specific word; file names are cut off).

### Fairness

The program promises nothing that must eventually happen: every step is somebody's voluntary
transaction, so its runs assume no fairness. In the services weak fairness is assumed of two
things only: a timer set with `setInterval` keeps firing, and an awaited call returns, well or
not. Both are what Node does unless the process is gone, and restarts are bounded. One weak
fairness condition per request, cycle or reader, so that no request lives on another's
progress. Never assumed fair: users, swaps, notifications, failures, saves, verification by an
owner, the operator running a script again. One condition is about an external service: a Turbo
top-up is credited in the end, without which `MintBatch` could not be said to end well (it ends
in any case).

### Where code and documentation disagree

Two runs are expected to fail; each checks one sentence of the repository.

- `doc_funding_bricks`: with the daily clamp every launch script sets (100%), a crank a day late
  against a high mark computes a zero funding index and aborts, and so does every later crank
  while the premium lasts.
- `doc_fee_used`: two launches check the same payment before either is listed, and both go live,
  although `launch.ts:299` means to refuse a payment already used.

Other sentences the code does not keep. The properties stand in the modules named, to be run when
the code changes; paths are below `src/`, `lib.rs` is the program's, `index.ts` the indexer's.

| Claim | Code | Stated as |
|---|---|---|
| the mark follows the curve's spot (`lib.rs:1021`) | `lib.rs:305`, mixed reserves after a sale | `MCFloorlaunch!CurveMarkFollowsSpot` |
| insurance is spent as nothing else (`docs/concepts/insurance-fund.mdx:16`) | `lib.rs:361`, `graduate` overwrites it | `MCFloorlaunch!InsuranceNeverLost` |
| frozen blocks all but collateral and admin (`state.rs:97`) | `lib.rs:780`, insurance and creator fees | `MCFloorlaunch!FrozenBlocksTheRest` |
| notional never exceeds `max_open_interest` (`docs/concepts/shorts.mdx:37`) | `lib.rs:534`, funding grows debts past it | `MCFloorlaunch!OpenInterestCapped` |
| insurance tops up the liquidation bonus (`docs/concepts/liquidations.mdx:44`) | `lib.rs:678` | `MCFloorlaunch!BonusToppedUp` |
| an unfrozen market waits for a push (`docs/concepts/circuit-breaker.mdx:54`) | `lib.rs:184`, the tripping push counts as fresh | `MCFloorlaunch!UnfreezeWaitsForPush` |
| funding resumes at the unfreeze (`docs/concepts/circuit-breaker.mdx:57`) | `lib.rs:228` | `MCFloorlaunch!FundingResumesAtUnfreeze` |
| webhook and poller dedupe by signature (`index.ts:1172`) | `index.ts:450`, check and insertion apart | `Ingestion!DedupedBySignature` |
| the poller covers what the webhook misses (`index.ts:1171`) | `index.ts:350`, seen before it is fetched; `:336`, a page; `:338`, a rebuild drops more than it reads | `Ingestion!EverySwapRecorded` without `Undisturbed` |
| a trade's price is the spot after it (`index.ts:549`) | `index.ts:553`, read later | `ProgramFeed!PricedAfterTrade` |
| half of the fees to each side (`index.ts:1180`) | `index.ts:1208`, the rest is halved again after a failure | `Keepers!HalfEach` |
| restarts converge on one webhook (`index.ts:494`) | `index.ts:497`, a garbled list counts as empty | `OneWebhook` without `Orderly` |
| a migrated market reads its mark from the new pool (`index.ts:227`) | `index.ts:1151` | `OracleRefresh!MigratedMarkFollows` |
| fee totals only go up (`index.ts:287`) | `index.ts:318`, a failed read is cached | `Caches!FeesOnlyGoUp` without its guard |
| what is fed are swaps (`index.ts:170`) | `index.ts:421`, any transaction that moves both vaults | `Candles!OnlySwapsFed` |
| the full holder list (`index.ts:729`) | `index.ts:750`, a failed page ends it | `Holders!FullList` with `Faults` |
| one fake listing cannot move the estimate (`docs/oracle/nft-pipeline.mdx:34`) | `magiceden.ts:86` | `Estimator!SingleListingCannotMove` |
| single shill sales are killed (`docs/oracle/card-pipeline.mdx:45`) | `estimator.ts:17`, no filter when the MAD is zero | `Estimator!SingleShillKilled` |
| ownership is recorded (`escrow.ts:322`) | `escrow.ts:152`, an older copy is saved over it | `Escrow!OwnershipStays` |
| fees are released on the next sweep (`escrow.ts:322`) | no sweep follows by itself | `Escrow!ReleasedNextSweep` |
| the fee is verified before a Meteora market goes live (`docs/guides/quickstart/launch-a-token.mdx:40`) | `dbc.ts:126` checks none | `Launch!MarketsArePaid` for every venue |
| a launch that would fail takes no money (`index.ts:837`) | `LaunchFlow.tsx:175`, readiness may change | `Launch!RefusedIsFree` |
| launches only against localhost (`launch.ts:10`) | `launch.ts:255` | `Launch!LocalOnly` |
| the file store suits a single instance (`store.ts:8`) | `store.ts:75`, overlapping requests lose entries; `:52`, a write cut short loses all | `CommentsKept`, `SubscribedOnce` without `Void` |
| a stable name per account (`privy.ts:4`) | `privy.ts:33` | `BlogStore!StableAuthor` |
| a deposit pays what is shown, without fee (`TradePanel.tsx:241`) | `lib.rs:860` | `ItemPanel!DepositPaysShown` |
| redeeming withdraws "the first mint the escrow actually holds" (`TradePanel.tsx:184`) | `TradePanel.tsx:190`, a lost confirmation tries another | `ItemPanel!RedeemTakesOne` |

And `tx.ts:239` still sends `repay_burn`, which `docs/concepts/shorts.mdx:14` says is gone; the
button in `PanelTabs` can only fail.

Hazards of the code without a property: item deposits at a stale mark (`lib.rs:845`; nobody
promises a fresh one); tickers are compared on the page only (`LaunchFlow.tsx:128`); messages
are missed while a socket is down (`api.ts:105`; `AppView` models the loss); holders of another
market stay when a request fails (`Panels.tsx:113`); an error of the aggregator stays
(`Aggregator.tsx:53`); a collection whose statistics fail is left out of the allowlist
(`allowlist.ts:71`); two cards may share a file name (`card-images.ts:174`; `CardImages`
models it).

## Proofs

TLC shows a property on one small instance; the theorems state it for every value of the
constants. What they take for granted are the named assumptions, which the runs evaluate:

- `ScaleAssumption`: scale factors are positive, the creator's share is at most the whole.
- `MarketAssumption`: parameters are u64 or natural, owners are finitely many, the rent buffer and
  the supplies fit in a u64.
- `InputAssumption`: arguments of instructions are u64.
- `KeepersAssumption`: finitely many markets and sweeps, fees are natural numbers.
- `FeedAssumption`: page lengths and the number of swaps are natural numbers, a transaction has
  events, and there is no Helius webhook.
- `LaunchAssumption`: the bound on failures is a number.
- `CachesAssumption`: the five kinds of cache; lives, waits, ages and failures are natural numbers.
- `PagesAssumption`: a page holds at least one entry, and what is read fits the pages that are.
- `HooksAssumption`: finitely many webhook requests at a time; the length of a page and the number
  of swaps are natural numbers.
- `CandlesAssumption`: a swap moves something of both currencies, candles have a width, and one at
  least is shown.
- `CatalogAssumption`: cards of the catalog are graded; listings are numbered, prices and volumes
  are integers, candidates finitely many.
- `TradeAssumption`: the panel's fee is below the whole, what is left after slippage at most the
  whole, amounts and prices are positive.
- `WalletsAssumption`: finitely many wallets, so that what they received has a sum.
- `NoneAssumption`: the value `None` is neither a comment nor an address.

### The market

| Theorem | Says |
|---|---|
| `Invariance` | `Spec => []IInv`, which the others rest on |
| `TypeCorrect` | `TypeOK`: no counter leaves the u64 range |
| `Solvency` | `VaultCovers`: the vault covers all books and its rent buffer |
| `PoolSolvency` | `PoolCovers`: the pool covers the venue |
| `ExitSolvency` | `ExitsCovered`: the curve can buy back everything it sold |
| `ProductNeverFalls` | `KNeverFalls`: no step lowers the product of the reserves traded against |
| `GraduationPrice` | `GraduationKeepsPrice`: AMM and fund hold the raise, the AMM opens within one token of the curve's last price; of insurance funded before it says nothing |
| `SupplyFixed` | `SupplyOnlyShrinks`: only graduation burns, nothing mints |
| `BreakerBoundsTwap`, `FreezeHolds` | `TwapWithinBreaker`, `FrozenHoldsPrices` |
| `MarkStaysBehind`, `FundingClamped` | `MarkNeverOvershoots`, `FundingBounded` |
| `FundPaysOnlyProfit` | `InsuranceOnlyPaysShorts` |
| `BooksAreSums` | `BooksMatchPositions`: totals are the sums over any finite set of owners |
| `SettlementPays` | no open position is stuck on arithmetic (`PositionsSettle` without `ENABLED`) |
| `HealthKept` | `HealthyUntilPricesMove`, under two conditions |
| `DepositsFair`, `SwapsFair` | `ItemSwapFair`; its deposit half for all numbers |

The argument. None of the first five properties is inductive alone, so `Floorlaunch_proofs`
strengthens them to `IInv`:

- `Untouched`: before creation every counter is zero. Without it creation could not establish
  the books.
- `LamportBooks`: vault and wallets together are all lamports, and the vault covers the claims.
  Conservation is what bounds the vault, hence every lamport counter, by a u64.
- `TokenBooks`: the four token accounts never hold more than a u64 in total, and the pool covers
  the venue. The first gives the range of the token counters after a sale.
- `CurveBooks`: each curve reserve is its virtual seed plus what really flowed, and the product
  of the reserves never fell below the seeds' product. From this `ExitSolvency` is algebra:
  selling at most what was sold leaves the token reserve at or below its seed, so the rounded-up
  SOL reserve stays at or above its own seed.
- `LiveBooks`: the AMM's reserves and the funding index are never zero, so no division fails.

`InitInv` proves the base case, one lemma per instruction the step, `NextInv` combines them. The
action properties follow from `IInv` instruction by instruction: the few that touch what the
property speaks of get an argument, the rest a frame lemma. The arithmetic they rest on is in
`FixedMath_proofs`: `CeilBound` and `SwapBound` (the swap pays less than the reserve and never
lowers the product) matter most; `EmaBetween` is behind the mark and `LegRounding` behind debts.
`BooksAreSums` needs `SumFunction` to change by what one owner's entry changes. That fold is a
recursive function on subsets, and no induction theorem can be applied here, so the lemmas on sums
look at a smallest subset that would violate them.

Two theorems have conditions, each something the program does not check:

- `HealthKept` assumes that no parameter set asks for more collateral to keep a short than to
  open it (`create_market` takes such sets, no launch script sends one), and that debts and
  their values fit the u64 they are cast to (`AmountsFit`): beyond that the recorded debt means
  nothing.
- `SwapsFair` assumes that the tokens of one item fit a u64 (`ItemPriceFits`). The deposit half,
  `DepositsFair`, needs no condition: a wrapped cast only ever pays less.

### The services and the clients

| Theorem | Says |
|---|---|
| `FeedsImplement` | `FeedsRefineTradeFeed`: poller and log subscription implement `TradeFeed` |
| `PollerRefines`, `ProgramFeedRefines` | its halves: any pages, timers that overlap, failures, restarts and the rebuilds they cause; any transactions, notified any number of times |
| `FeesShared`, `GraduatesOnce` | `FeesAndGraduationsKept`: however many sweeps and graduations overlap |
| `AloneSplitsEvenly` | a sweep that runs alone, until a transfer fails, pays both sides alike |
| `ListingsAreTrue` | `ListedMarketsKept`: through overlaps, failures and crashes, for any venues |
| `PaymentsAreHonest` | `PaymentsHold`, on a remote chain, for any venues |
| `EscrowInvariance`, `EscrowsPayProven`, `ProvenArePaid` | `PaidToProven`, off a local validator |
| `SerialEscrows`, `SweepsAreTrue` | `SerialEscrowTrue`: the sweeps on file, one request at a time |
| `CachesStayFresh` | `CachesAreFresh`: any readers, lives, waits and failures |
| `PagedReadsAreTrue` | `PagedAnswersTrue`: any accounts, assets and listings, in pages of any length |
| `TradesAreTrue` | `TradesAreShown`: any trades and intervals |
| `SeenStayDeduped` | `SeenSwapsAreDeduped`: any webhook requests, timers and pages |
| `QuotesAreKept` | `QuotesFill`: every curve, fee, amount and slippage |
| `LiquidationIsShown` | `ShownLiquidationHolds` |
| `PagesAreTrue`, `StoreRemembers`, `StoreIsKept` | `StoreKeeps`: any users, overlapping requests and failing calls |

- *Feeds*. The mapping to `TradeFeed` counts, for each swap, its copies among the trades in
  memory and in the file, so every step must be shown to add at most one copy of a swap that
  happened. For the poller the difficulty is `seenSigs`: it decides whether a signature is read,
  yet a restart empties it and keeps the file, and the first poll of a pool ignores it and
  rebuilds. `PollerInv` says that once a pool's cursor has moved, each of its rows is of a
  signature seen (`CursorOK`), so what is unseen has no row; that during a first poll, which
  dropped the pool's rows, what is left of its page has none either, and that no page lists a
  signature twice (`PollOK`); that one tick polls at a time (`OneTick`, through the flag
  `polling`); and that the two pools have no signature in common (`ChainsOK`). The rebuilds that
  are due (`DueRebuilds`) follow from cursors and polls: one is taken off the list where a first
  poll drops the rows of its pool, and none returns but with a restart, for the cursor then
  moves before the poll ends. A webhook breaks this, for it checks and inserts around an await
  (`DedupedBySignature`), hence `Hooks = {}` in `FeedAssumption`: the code has no webhook
  without a Helius key. `ProgramInv` says of the log subscription that a trade of a transaction
  is stored only below the event its task has reached, and that a stored trade's transaction is
  seen or will not be notified again (`Told`): after a restart only transactions nobody saw are.
- *Keepers*. `Shares` says that in each market the creator has got at most what the treasury got,
  less what every run still owes the creator (`BehindAll`, a sum over runs), but for one lamport
  per payment. A run that fails between its payments drops out of the sum, which only helps.
  Graduations: whoever awaits one has the market in the set `graduating`, which is tested and
  changed with no await in between.
- *Launch*. Every request between creating its market and listing it owns that market: no
  listing and no other request names it (`Tracked`). Payments: a request past the check was paid
  for by its user, and so was every market, but those for Meteora (`Paid`). Where launches run
  one at a time the market under way is the last one, and its payment, if it was checked, is
  still on file for none (`Serial`); if moreover none has failed, the payment of every market
  but that one is on file (`Fresh`), hence none is used again.
- *Escrow*. Copies of `escrows.json` that requests hold may be stale and are saved over newer
  ones. The invariant therefore speaks of every copy, in memory or on disk: it is `Honest`,
  that is, verified wallets in it were confirmed and its nonce was issued for its pending wallet.
  Confirmations and nonces only grow, so a copy stays honest however old it gets. On a local
  validator any request may verify: there the invariant holds with every pair counted as
  confirmed, and `PaidToProven` says nothing. While one request runs at a time more is true
  (`Serial`): the copy it holds misses no sweep and no verification the file has (`Agrees`), and
  what it is about to record was released, or lies in the escrow still (`Covered`). `Launch_proofs`
  takes an INSTANCE of `Escrow_proofs` for each of the escrows of its composition.
- *Caches*. An entry's age counts from the moment its value was read, which nobody stores: the code
  stores the moment of writing, an await later. `FreshInv` therefore bounds the age of an entry by
  the time since it was written plus `MaxWait`, and the age of what each reader holds by where
  the reader is, also when a failed read puts a stale entry back. What is shown is built in one more
  await. `FeesInv` says that while no read has failed the total shown is at most what accrued.
- *Paged reads*. The invariants compare what was read so far with what was there when the
  reading began. `HolderInv`: what is counted of a wallet is at most the sum of what its
  accounts up to the cursor have held, and equal to it while nothing moved; reading goes on in
  order of account, so an account that changes hands between pages is counted once. The wallet's
  assets and the offers on sale are listed by position instead, so an entry that leaves moves
  the others forward and one that arrives moves them back. `WalletInv` says by the *rank* of
  each asset that the pages so far read it exactly once (`RanksFollow`: a page holds the ranks
  between its ends). `ScanInv` says that as long as cards are only sold what was read is not
  further on, so no listing counts twice, and that rows on file, new or reused from an earlier
  scan, promise no more than was on sale.
- *Trades with a webhook*. A request inserts what it fetched unchecked, so what may not grow is
  the *load* of a signature: the rows it has, the requests that fetch it, and 1 if a poll is due
  to feed it (`Dues`: it fetches the swap, or it is a first poll that dropped the pool's rows
  and has yet to reach it). `LoadsFall` says that no step raises the load of a signature that
  was seen, unless a first poll is about to drop its rows (`Begun`). A request or a later poll
  takes an unseen one only; a first poll takes seen ones too, but was due to feed them. That a
  first poll is one of a pool whose cursor has not moved (`FirstInv`) turns `Begun` into what
  the property says of rebuilds. Sorting and dropping rows is by rank: what comes out is `Drawn`
  from what went in, by an injection of indexes, hence holds no row more often.
- *Candles*. The code fills a table of candles in one loop over the trades: a fold. `ChartOf`
  says for every set of trades that there is one candle for each interval they fall in, and
  `CandleOf` which trades its prices and volume are of; it is shown by a smallest set of indexes
  that violates it, without its last one. Prices are fractions, compared by cross multiplication
  (`HigherOrders`), and the table is read in the order of time, by rank.
- *Trading from the app*. The panel computes in real numbers, the program in integers. The
  program's fee, rounded down, is at most the panel's (`FeeIsLow`), and a swap pays more than
  the real amount less one unit (`SwapReaches`); so what comes out is less than one unit below
  the quote (`BuyMeetsQuote`, `SellMeetsQuote`) and meets the limit (`LimitOf`). Without
  conditions the property is not true: a trade quoted below one unit pays nothing and is
  refused, and a hedge may miss its ratio by the rounding of its scaled debt once the funding
  index has grown. `Roomy` bounds that: with 6 decimals and the ratios of 155% and 150% it holds
  until the funding index has grown more than thirty thousand times. For liquidation, the
  program rounds the debt and its value down from the fraction the tab computes with.
- *Blog*. `Keeps` says of every request between read and write what its copy holds: on Redis the
  list in the database is what counts; on the file two requests that have read it both clash
  (`Clashes`), and nothing is promised of it from then on; a request that does not clash holds
  what the file has, changed by itself. A comment may only have made room to comments that
  were not older. `Clients_proofs` takes the four stores of the composition as INSTANCEs.

`IInv` of the market, `PanelInv` of the panel and `PollerInv` of the poller were checked with
TLC on the runs' instances before they were proved; the others range over sets TLC cannot
enumerate.

### Only model-checked

- `PositionsSettle`, which says `ENABLED`; `SettlementPays` is what it needs of the numbers.
- `EstimateIsRobust`: the estimator takes medians of medians, and which listing a median moves to
  when one is added needs an argument on sorted sequences that is not written down yet.
- `SelectionIsShown`: five components, each with its own order of answers, on one run.
- All that must eventually happen (`KeepersGetThere` but for its even split, `WebhookConverges`,
  `PricesFollow`, `TradesGetRecorded`, `RowsCatchUp`, the run `progress`): liveness under fairness
  is out of the prover's reach.

## Not modelled

- `errors.rs` (an error is an action that is not enabled), `init_global` and
  `set_oracle_authority` (assignments of keys the models do not tell apart).
- The routes that upload pictures and serve token metadata, static files, `/listings`,
  `/escrows`, `/index` and `/funding`: reads and I/O without state that a second request could
  see half done.
- `buildConfig` of `dbc.ts` and `launcher/dbc.mjs` (fixed numbers for Meteora's SDK), `pyth.ts`
  and the HTTP details of the price sources (their answers are inputs).
- Rendering, formatting, blog pages, `wallet.tsx` (the wallet adapter's own states).
- `sim.ts`, `e2e.ts` and the one-off probes in `relayer/scripts`: they drive instructions
  the program no longer has, or print.
- A state file that is damaged on disk, other than `BlogStore`'s, where a read can fall into
  a write.

## Plan

1. `SelectionIsShown`: what the chart, the trades, the tabs and the explorer show belongs to the
   selected market, in `Clients_proofs`.
2. `EstimateIsRobust`, by the ranks of the sales and listings it keeps.
3. A property for item deposits at a stale mark, should the code or its documents promise one.

## Running

    tlc -config trading.cfg MCFloorlaunch  # likewise shorts, oracle, items, doc_funding_bricks
    tlc -config feed.cfg MCFeed            # likewise keepers, views, launches, clients, progress
    tlc -config doc_fee_used.cfg Launch    # expected to fail
    tlapm Floorlaunch_proofs.tla           # likewise the other modules named ..._proofs
