------------------------------- MODULE Launch -------------------------------
(***************************************************************************)
(* Launching a market: deploy of src/app/src/components/LaunchFlow.tsx     *)
(* pays the launch fee and posts /dev/launch, which devLaunch of           *)
(* src/indexer/src/launch.ts or dbcLaunch of src/indexer/src/dbc.ts        *)
(* carries out: read the oracle price, check the payment, create the       *)
(* market on chain, write the listing. Requests overlap at every await;    *)
(* a call can fail after its transaction landed; the server can crash      *)
(* between two steps and merges the bundled listings when it starts.       *)
(***************************************************************************)
EXTENDS Integers, Sequences, FiniteSets, TLC

CONSTANTS Users, Requests, NoUser,
          Venues,       \* venues a POST may ask for
          Readiness,    \* may signer keys and price be there: a subset of BOOLEAN
          Local,        \* the RPC is local: no launch fee
          Resend,       \* a POST may be sent again with the same payment
          MaxPayments,  \* bound: payments to the treasury
          MaxMarkets,   \* bound: launches that reach the chain
          Faults        \* bound: calls that fail, and crashes

ASSUME LaunchAssumption == Faults \in Nat

VARIABLES ui,        \* ui[u]: where the launch wizard of a user is
          payments,  \* transactions that pay the treasury, in order
          req,       \* launches under way on the server
          markets,   \* market accounts on chain, in order; 0 is an older one
          listings,  \* listings.json: market -> listing
          refused,   \* payments of launches refused because nothing was ready
          faults

vars == <<ui, payments, req, markets, listings, refused, faults>>
chain == <<payments, markets>>

(* The market the bundled listings know, possibly edited since. *)
Bundled == [k \in {0} |-> [sig |-> 0, user |-> NoUser, edited |-> FALSE]]
Live == [k \in {0} |-> [sig |-> 0, user |-> NoUser, edited |-> TRUE]]
Idle == [pc |-> "idle", user |-> NoUser, sig |-> 0, prior |-> << >>, market |-> 0,
         venue |-> "none"]
Wizard == [pc |-> "idle", sig |-> 0]

Init ==
  /\ ui = [u \in Users |-> Wizard] /\ payments = << >>
  /\ req = [r \in Requests |-> Idle]
  /\ markets = << >> /\ refused = {} /\ faults = Faults
  /\ listings \in {<< >>, Bundled, Live}

Fault == faults > 0 /\ faults' = faults - 1

-----------------------------------------------------------------------------
(* The wizard *)

(* The fee transfer lands; the wallet may not learn of it and show an      *)
(* error, after which the user may deploy again.                           *)
Deploy(u) ==
  /\ ui[u].pc = "idle" /\ Len(payments) < MaxPayments /\ ~Local
  /\ payments' = Append(payments, [payer |-> u, enough |-> TRUE, old |-> FALSE])
  /\ \/ ui' = [ui EXCEPT ![u] = [pc |-> "post", sig |-> Len(payments')]] /\ UNCHANGED faults
     \/ ui' = ui /\ Fault
  /\ UNCHANGED <<req, markets, listings, refused>>

(* Another transfer to the treasury, below the fee. *)
SmallTransfer(u) ==
  /\ Len(payments) < MaxPayments
  /\ payments' = Append(payments, [payer |-> u, enough |-> FALSE, old |-> FALSE])
  /\ UNCHANGED <<ui, req, markets, listings, refused, faults>>

(* Fifteen minutes pass. *)
GrowsOld(s) ==
  /\ s \in DOMAIN payments /\ ~payments[s].old
  /\ payments' = [payments EXCEPT ![s].old = TRUE]
  /\ UNCHANGED <<ui, req, markets, listings, refused, faults>>

Posted(r, u, s, v) ==
  /\ req[r].pc = "idle"
  /\ req' = [req EXCEPT ![r] = [Idle EXCEPT !.pc = "price", !.user = u, !.sig = s, !.venue = v]]

(* The wizard posts the payment it made. *)
Post(u, r, v) ==
  /\ ui[u].pc = "post" /\ Posted(r, u, ui[u].sig, v)
  /\ ui' = [ui EXCEPT ![u].pc = "wait"]
  /\ UNCHANGED <<payments, markets, listings, refused, faults>>

(* A POST sent again after a lost answer, or by a script; locally without  *)
(* a payment (sig 0).                                                      *)
PostAgain(u, r, s, v) ==
  /\ Resend /\ s \in DOMAIN payments \cup {0} /\ Posted(r, u, s, v)
  /\ UNCHANGED <<ui, payments, markets, listings, refused, faults>>

Ends(r) ==
  /\ req' = [req EXCEPT ![r] = Idle]
  /\ ui' = [u \in Users |-> IF ui[u] = [pc |-> "wait", sig |-> req[r].sig]
                            THEN Wizard ELSE ui[u]]

-----------------------------------------------------------------------------
(* devLaunch and dbcLaunch *)

Used(ls) == {ls[k].sig : k \in DOMAIN ls} \ {0}
unused_any(s) == s # 0
unused(s) == s # 0 /\ s \notin Used(listings)

(* The price is there: dbcLaunch goes on to the pool, devLaunch to the     *)
(* payment, if there is one no listing names.                              *)
PriceRead(r) ==
  /\ req[r].pc = "price" /\ TRUE \in Readiness
  /\ IF req[r].venue = "meteora"
     THEN req' = [req EXCEPT ![r].pc = "pool"] /\ UNCHANGED ui
     ELSE IF Local THEN req' = [req EXCEPT ![r].pc = "create"] /\ UNCHANGED ui
     ELSE IF unused(req[r].sig)
          THEN req' = [req EXCEPT ![r].pc = "payment", ![r].prior = listings] /\ UNCHANGED ui
     ELSE Ends(r)
  /\ UNCHANGED <<chain, listings, refused, faults>>

NotReady(r) ==
  /\ req[r].pc = "price" /\ FALSE \in Readiness
  /\ refused' = refused \cup ({req[r].sig} \ {0})
  /\ Ends(r)
  /\ UNCHANGED <<chain, listings, faults>>

payment_ok_late(p, user) == p.enough /\ p.old /\ p.payer = user
payment_ok_any_payer(p, user) == p.enough /\ ~p.old
payment_ok(p, user) == p.enough /\ ~p.old /\ p.payer = user

PaymentRead(r) ==
  /\ req[r].pc = "payment"
  /\ IF payment_ok(payments[req[r].sig], req[r].user)
     THEN req' = [req EXCEPT ![r].pc = "create"] /\ UNCHANGED ui
     ELSE Ends(r)
  /\ UNCHANGED <<chain, listings, refused, faults>>

NewMarket(r, seeded) ==
  /\ Len(markets) < MaxMarkets
  /\ markets' = Append(markets,
       [sig |-> req[r].sig, user |-> req[r].user, venue |-> req[r].venue, seeded |-> seeded])

(* What a step does on chain: create_market with its first index push in   *)
(* one transaction; the Meteora config and pool, not modelled further;     *)
(* create_external_market; the first index and mark in one transaction.    *)
OnChain(r) ==
  \/ req[r].pc = "create" /\ NewMarket(r, TRUE)
  \/ req[r].pc = "pool" /\ UNCHANGED markets
  \/ req[r].pc = "attach" /\ NewMarket(r, FALSE)
  \/ req[r].pc = "seed" /\ markets' = [markets EXCEPT ![req[r].market].seeded = TRUE]

after == [create |-> "items", pool |-> "attach", attach |-> "seed", seed |-> "list"]

ChainStep(r) ==
  /\ req[r].pc \in DOMAIN after /\ OnChain(r)
  /\ req' = [req EXCEPT ![r].pc = after[@],
       ![r].market = IF req[r].pc \in {"create", "attach"} THEN Len(markets') ELSE @]
  /\ UNCHANGED <<ui, payments, listings, refused, faults>>

stops_but_seed(r) == req[r].pc # "seed"
stops(r) == TRUE

(* A transaction fails, or its confirmation is lost: the launch ends.      *)
ChainFails(r) ==
  /\ req[r].pc \in DOMAIN after /\ Fault
  /\ OnChain(r) \/ UNCHANGED markets
  /\ IF stops(r) THEN Ends(r) ELSE req' = [req EXCEPT ![r].pc = "list"] /\ UNCHANGED ui
  /\ UNCHANGED <<payments, listings, refused>>

(* devLaunch mints and registers three demo items; a failure is caught.    *)
Items(r) ==
  /\ req[r].pc = "items"
  /\ req' = [req EXCEPT ![r].pc = "list"]
  /\ UNCHANGED <<ui, chain, listings, refused, faults>>

listings_prior(r) == req[r].prior
listings_now(r) == listings

(* The listings of d, and where d has none those of e. *)
Over(d, e) == [k \in DOMAIN d \cup DOMAIN e |-> IF k \in DOMAIN d THEN d[k] ELSE e[k]]
Entry(r) ==
  [k \in {req[r].market} |-> [sig |-> req[r].sig, user |-> req[r].user, edited |-> FALSE]]

(* The listings are loaded and written without an await in between.        *)
List(r) ==
  /\ req[r].pc = "list"
  /\ listings' = Over(Entry(r), listings_now(r))
  /\ Ends(r)
  /\ UNCHANGED <<chain, refused, faults>>

-----------------------------------------------------------------------------
(* A crash drops the launches under way; at boot the bundled listings are  *)
(* merged into the file.                                                   *)
merged(ls) == Over(ls, Bundled)

Restart ==
  /\ Fault
  /\ req' = [r \in Requests |-> Idle]
  /\ ui' = [u \in Users |-> IF ui[u].pc = "wait" THEN Wizard ELSE ui[u]]
  /\ listings' = merged(listings)
  /\ UNCHANGED <<chain, refused>>

-----------------------------------------------------------------------------
Step(r) == PriceRead(r) \/ NotReady(r) \/ PaymentRead(r) \/ ChainStep(r) \/ Items(r) \/ List(r)

Next ==
  \/ \E u \in Users : Deploy(u) \/ SmallTransfer(u)
  \/ \E s \in 1..MaxPayments : GrowsOld(s)
  \/ \E u \in Users, r \in Requests, v \in Venues :
       Post(u, r, v) \/ \E s \in 0..MaxPayments : PostAgain(u, r, s, v)
  \/ \E r \in Requests : Step(r) \/ ChainFails(r)
  \/ Restart

Spec == Init /\ [][Next]_vars

(* Awaited calls are answered, and a wizard that has paid posts.           *)
FairSpec ==
  /\ Spec
  /\ \A r \in Requests : WF_vars(Step(r))
  /\ \A u \in Users : WF_vars(\E r \in Requests, v \in Venues : Post(u, r, v))

-----------------------------------------------------------------------------
(* Properties. *)

(* "The fee payment is verified on-chain before the market goes live", by  *)
(* devLaunch: every market on the internal curve was paid for by its       *)
(* launcher, also when launches overlap, are sent again with another       *)
(* payment, and crash half way. dbcLaunch verifies none.                   *)
MarketsArePaid ==
  \A k \in DOMAIN markets : markets[k].venue # "meteora" =>
    /\ markets[k].sig \in DOMAIN payments
    /\ payments[markets[k].sig].enough
    /\ payments[markets[k].sig].payer = markets[k].user

(* "fee payment already used": one payment launches one market. The check  *)
(* reads the listings, which name the payment only when the launch is      *)
(* over, so launches that overlap or end early reuse it.                   *)
OnePaymentOneMarket ==
  \A j, k \in DOMAIN markets : j # k => markets[j].sig = 0 \/ markets[j].sig # markets[k].sig

(* What remains of it: a listed market on the internal curve was launched  *)
(* with a payment no listed market before it was launched with, whatever   *)
(* venue that one is on, if launches do not overlap.                       *)
ListingsPaidOnce ==
  \A j, k \in DOMAIN listings \ {0} :
    j < k /\ markets[k].venue # "meteora" => listings[j].sig # listings[k].sig

(* Nor was a market that was not listed, if no launch failed either.       *)
MarketsPaidOnce ==
  \A j, k \in DOMAIN markets :
    j < k /\ markets[k].venue # "meteora" => markets[j].sig # markets[k].sig

(* A launch under way for seconds neither loses another launch's listing   *)
(* nor takes the place of a live one, and a restart keeps what it finds    *)
(* ("Never overwrites live entries").                                      *)
KeepsListings ==
  \A k \in DOMAIN listings : k \in DOMAIN listings' /\ listings'[k] = listings[k]
ListingsKept == [][KeepsListings]_vars

(* Whatever step of a launch fails, a listed market exists on chain, has   *)
(* its first prices, and belongs to the payment and launcher listed.       *)
ListedMarketsAreSeeded ==
  \A k \in DOMAIN listings \ {0} :
    /\ k \in DOMAIN markets /\ markets[k].seeded
    /\ markets[k].sig = listings[k].sig /\ markets[k].user = listings[k].user

(* A listed market has been seeded and stays listed.                       *)
ListedMarketsKept == []ListedMarketsAreSeeded /\ ListingsKept

(* Launches that overlap but do not fail all end in a listing: a wizard    *)
(* that paid in time sees its market listed.                               *)
PaidLaunchIsListed ==
  \A u \in Users, s \in 1..MaxPayments :
    (ui[u] = [pc |-> "post", sig |-> s]) ~>
      (s \in Used(listings) \/ (s \in DOMAIN payments /\ payments[s].old))

(* "a launch that would fail never takes money": no payment was made for a *)
(* launch the server is not ready for.                                     *)
RefusedIsFree == refused = {}

(* "only enabled against a localhost RPC". *)
LocalOnly == Local \/ markets = << >>
=============================================================================
