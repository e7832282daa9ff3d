--------------------------- MODULE Launch_proofs ---------------------------
(***************************************************************************)
(* Proofs about launches (Launch, and their composition MCLaunches), for   *)
(* any number of users, of requests that overlap, of failures and crashes: *)
(* markets are paid for, and what is listed exists, is seeded and stays.   *)
(***************************************************************************)
EXTENDS MCLaunches, FixedMath_proofs, SequenceTheorems

-----------------------------------------------------------------------------
(* The inductive invariant: types.                                         *)

AnyUser == Users \cup {NoUser}
AnyVenue == Venues \cup {"none"}
Payment == [payer : Users, enough : BOOLEAN, old : BOOLEAN]
Market == [sig : Nat, user : AnyUser, venue : AnyVenue, seeded : BOOLEAN]
Listing == [sig : Nat, user : AnyUser, edited : BOOLEAN]
Listings == UNION {[S -> Listing] : S \in SUBSET Nat}
Request ==
  [pc : {"idle", "price", "payment", "create", "items", "pool", "attach", "seed", "list"},
   user : AnyUser, sig : Nat, prior : Listings, market : Nat, venue : AnyVenue]

Types ==
  /\ ui \in [Users -> [pc : {"idle", "post", "wait"}, sig : Nat]]
  /\ payments \in Seq(Payment) /\ markets \in Seq(Market)
  /\ listings \in Listings /\ req \in [Requests -> Request]
  /\ faults \in Nat /\ faults <= Faults

-----------------------------------------------------------------------------
(* Markets and listings.                                                   *)

(* A request that has created its market and not yet listed it. *)
Unlisted(q) == q.pc \in {"items", "seed", "list"}

(* Such a market is the request's own, no listing names it, and it is      *)
(* seeded when only the listing is left.                                   *)
OwnsMarket(q, ms, ls) ==
  /\ Unlisted(q) =>
       /\ q.market \in DOMAIN ms /\ q.market \notin DOMAIN ls
       /\ ms[q.market].sig = q.sig /\ ms[q.market].user = q.user
  /\ q.pc \in {"items", "list"} => ms[q.market].seeded

(* A listing names a market that exists and is seeded; each request owns   *)
(* the market it is about to list, and no two requests the same.           *)
Tracked(rq, ms, ls) ==
  /\ \A k \in DOMAIN ls \ {0} :
       /\ k \in DOMAIN ms /\ ms[k].seeded
       /\ ms[k].sig = ls[k].sig /\ ms[k].user = ls[k].user
  /\ \A r \in Requests : OwnsMarket(rq[r], ms, ls)
  /\ \A q, r \in Requests :
       q # r /\ Unlisted(rq[q]) /\ Unlisted(rq[r]) => rq[q].market # rq[r].market

ListInv == Types /\ Tracked(req, markets, listings)

-----------------------------------------------------------------------------
(* Payments, on a remote chain.                                            *)

PaidBy(s, user, ps) == s \in DOMAIN ps /\ ps[s].enough /\ ps[s].payer = user

(* A request past the payment check has been paid for by its user; those   *)
(* for Meteora take a way of their own, without one.                       *)
PaidFor(q, ps) ==
  /\ q.pc = "price" => q.sig \in DOMAIN ps \cup {0}
  /\ q.pc = "payment" => q.sig \in DOMAIN ps
  /\ q.pc \in {"payment", "create", "items"} => q.venue # "meteora"
  /\ q.pc \in {"pool", "attach", "seed"} => q.venue = "meteora"
  /\ q.pc \in {"create", "items", "list"} /\ q.venue # "meteora" => PaidBy(q.sig, q.user, ps)

Paid(w, rq, ms, ps) ==
  /\ \A u \in Users : w[u].pc # "idle" => w[u].sig \in DOMAIN ps
  /\ \A r \in Requests : PaidFor(rq[r], ps)
  /\ \A k \in DOMAIN ms : ms[k].venue # "meteora" => PaidBy(ms[k].sig, ms[k].user, ps)

PayInv == Paid(ui, req, markets, payments)

-----------------------------------------------------------------------------
(* One launch at a time: the market of the launch under way is the last    *)
(* one, its payment, if it was checked, is on file for no listing, and so  *)
(* a listed market of the internal curve shares none with one before it.   *)

Checked == {"payment", "create", "items", "list"}

Serial(rq, ms, ls) ==
  /\ Alone(rq)
  /\ \A r \in Requests :
       Unlisted(rq[r]) => rq[r].market = Len(ms) /\ ms[Len(ms)].venue = rq[r].venue
  /\ \A r \in Requests :
       rq[r].pc \in Checked /\ rq[r].venue # "meteora" => rq[r].sig \notin Used(ls)
  /\ \A j, k \in DOMAIN ls \ {0} :
       j < k /\ ms[k].venue # "meteora" => ls[j].sig # ls[k].sig

(* If none of them has failed, the payment of every market is on file, but *)
(* for the market of the launch under way.                                 *)
Fresh(rq, ms, ls) ==
  /\ \A k \in DOMAIN ms :
       \/ ms[k].sig \in Used(ls) \cup {0}
       \/ \E r \in Requests : Unlisted(rq[r]) /\ rq[r].market = k
  /\ \A j, k \in DOMAIN ms : j < k /\ ms[k].venue # "meteora" => ms[j].sig # ms[k].sig

PaymentsInv ==
  /\ part \in {"chain", "serial", "local", "escrow", "serial_escrow"}
  /\ part # "local" => ListInv /\ PayInv
  /\ part = "serial" => Serial(req, markets, listings)
  /\ part = "serial" /\ faults = Faults => Fresh(req, markets, listings)

-----------------------------------------------------------------------------
(* Lemmas about the data.                                                  *)

(* Listings laid over others are listings of both. *)
LEMMA OverIs ==
  ASSUME NEW d \in Listings, NEW e \in Listings
  PROVE  /\ Over(d, e) \in Listings /\ DOMAIN Over(d, e) = DOMAIN d \cup DOMAIN e
         /\ \A k \in DOMAIN d : Over(d, e)[k] = d[k]
         /\ \A k \in DOMAIN e \ DOMAIN d : Over(d, e)[k] = e[k]
<1>1. PICK S \in SUBSET Nat : d \in [S -> Listing]
  BY DEF Listings
<1>2. PICK T \in SUBSET Nat : e \in [T -> Listing]
  BY DEF Listings
<1>3. Over(d, e) \in [S \cup T -> Listing] /\ S \cup T \in SUBSET Nat
  BY <1>1, <1>2 DEF Over
<1> QED
  BY <1>1, <1>2, <1>3 DEF Listings, Over

(* A function on one market is a listing. *)
LEMMA OneListing ==
  ASSUME NEW k \in Nat, NEW e \in Listing
  PROVE  [j \in {k} |-> e] \in Listings
<1>1. [j \in {k} |-> e] \in [{k} -> Listing] /\ {k} \in SUBSET Nat
  OBVIOUS
<1> QED
  BY <1>1 DEF Listings

(* The bundled listings are one for market 0. *)
LEMMA BundledIs ==
  /\ DOMAIN Bundled = {0} /\ DOMAIN Live = {0} /\ DOMAIN << >> = {}
  /\ Bundled \in Listings /\ Live \in Listings /\ << >> \in Listings
<1>1. /\ [sig |-> 0, user |-> NoUser, edited |-> FALSE] \in Listing
      /\ [sig |-> 0, user |-> NoUser, edited |-> TRUE] \in Listing
  BY DEF Listing, AnyUser
<1>2. Bundled \in Listings /\ Live \in Listings
  BY <1>1, OneListing DEF Bundled, Live
<1>3. << >> \in [{} -> Listing] /\ {} \in SUBSET Nat
  OBVIOUS
<1>4. << >> \in Listings
  BY <1>3 DEF Listings
<1> QED
  BY <1>2, <1>4 DEF Bundled, Live

(* The markets listed keep the payments that are on file. *)
LEMMA UsedGrows ==
  ASSUME NEW ls, NEW new, DOMAIN ls \subseteq DOMAIN new, \A k \in DOMAIN ls : new[k] = ls[k]
  PROVE  Used(ls) \subseteq Used(new)
<1> SUFFICES ASSUME NEW s \in Used(ls) PROVE s \in Used(new)
  OBVIOUS
<1>1. PICK k \in DOMAIN ls : s = ls[k].sig /\ s # 0
  BY DEF Used
<1> QED
  BY <1>1 DEF Used

(* What comes after each step on chain. *)
LEMMA AfterIs ==
  /\ DOMAIN after = {"create", "pool", "attach", "seed"}
  /\ after["create"] = "items" /\ after["pool"] = "attach"
  /\ after["attach"] = "seed" /\ after["seed"] = "list"
  BY DEF after

(* A request at rest. *)
LEMMA IdleIs == Idle \in Request /\ Idle.pc = "idle"
  BY BundledIs DEF Idle, Request, AnyUser, AnyVenue

-----------------------------------------------------------------------------
(* Types.                                                                  *)

(* A request that is replaced. *)
LEMMA ReplaceRequest ==
  ASSUME NEW rq \in [Requests -> Request], NEW r, NEW q \in Request
  PROVE  [rq EXCEPT ![r] = q] \in [Requests -> Request]
  OBVIOUS

(* A wizard whose launch ends is idle again. *)
LEMMA EndsTypes ==
  ASSUME Types, NEW r \in Requests, Ends(r)
  PROVE  /\ req' \in [Requests -> Request]
         /\ ui' \in [Users -> [pc : {"idle", "post", "wait"}, sig : Nat]]
         /\ \A u \in Users : ui'[u].pc # "idle" => ui'[u] = ui[u]
<1>1. req' = [req EXCEPT ![r] = Idle]
  BY DEF Ends
<1>2. req' \in [Requests -> Request]
  BY <1>1, IdleIs, ReplaceRequest DEF Types
<1>3. Wizard \in [pc : {"idle", "post", "wait"}, sig : Nat] /\ Wizard.pc = "idle"
  BY DEF Wizard
<1> QED
  BY <1>2, <1>3 DEF Ends, Types

(* Markets that are appended. *)
LEMMA NewMarketTypes ==
  ASSUME Types, NEW r \in Requests, NEW seeded \in BOOLEAN, NewMarket(r, seeded)
  PROVE  /\ markets' \in Seq(Market) /\ Len(markets') = Len(markets) + 1
         /\ Len(markets) \in Nat
         /\ \A k \in DOMAIN markets : markets'[k] = markets[k]
         /\ markets'[Len(markets')] =
              [sig |-> req[r].sig, user |-> req[r].user, venue |-> req[r].venue, seeded |-> seeded]
<1>1. PICK q \in Request : q = req[r]
  BY DEF Types
<1>2. PICK m : m = [sig |-> q.sig, user |-> q.user, venue |-> q.venue, seeded |-> seeded]
  OBVIOUS
<1>3. m \in Market
  BY <1>2 DEF Market, Request
<1>4. markets' = Append(markets, m) /\ markets \in Seq(Market)
  BY <1>1, <1>2 DEF NewMarket, Types
<1> QED
  BY <1>1, <1>2, <1>3, <1>4

(* The types at the start. *)
LEMMA TypesInit ==
  Init => Types
<1> SUFFICES ASSUME Init PROVE Types
  OBVIOUS
<1>1. ui \in [Users -> [pc : {"idle", "post", "wait"}, sig : Nat]]
  BY DEF Init, Wizard
<1>2. req \in [Requests -> Request]
  BY IdleIs DEF Init
<1>3. listings \in Listings
  BY BundledIs DEF Init
<1>4. faults \in Nat /\ faults <= Faults
  BY LaunchAssumption DEF Init
<1>5. payments \in Seq(Payment) /\ markets \in Seq(Market)
  BY DEF Init
<1> QED
  BY <1>1, <1>2, <1>3, <1>4, <1>5 DEF Types

(* Every step keeps the types. *)
LEMMA TypesStep ==
  Types /\ [Next]_vars => Types'
<1> SUFFICES ASSUME Types, [Next]_vars PROVE Types'
  OBVIOUS
<1> DEFINE Wizards == [Users -> [pc : {"idle", "post", "wait"}, sig : Nat]]
<1>t. /\ ui \in Wizards
      /\ payments \in Seq(Payment) /\ markets \in Seq(Market)
      /\ listings \in Listings /\ req \in [Requests -> Request]
      /\ faults \in Nat /\ faults <= Faults /\ Faults \in Nat
  BY LaunchAssumption DEF Types
<1>f. ASSUME Fault PROVE faults' \in Nat /\ faults' <= Faults
  BY <1>f, <1>t DEF Fault
<1>1. ASSUME NEW u \in Users, Deploy(u) PROVE Types'
  <2>1. [payer |-> u, enough |-> TRUE, old |-> FALSE] \in Payment
    BY DEF Payment
  <2>2. payments' \in Seq(Payment) /\ Len(payments') \in Nat
    BY <1>1, <1>t, <2>1 DEF Deploy
  <2>3. ui' \in Wizards
    <3>1. PICK n \in Nat : n = Len(payments')
      BY <2>2
    <3>2. [pc |-> "post", sig |-> n] \in [pc : {"idle", "post", "wait"}, sig : Nat]
      OBVIOUS
    <3>3. ui' = ui \/ ui' = [ui EXCEPT ![u] = [pc |-> "post", sig |-> n]]
      BY <1>1, <3>1 DEF Deploy
    <3> QED
      BY <3>2, <3>3, <1>t
  <2>4. faults' \in Nat /\ faults' <= Faults
    BY <1>1, <1>t, <1>f DEF Deploy
  <2> QED
    BY <1>1, <1>t, <2>2, <2>3, <2>4 DEF Types, Deploy
<1>2. ASSUME NEW u \in Users, SmallTransfer(u) PROVE Types'
  <2>1. [payer |-> u, enough |-> FALSE, old |-> FALSE] \in Payment
    BY DEF Payment
  <2>2. payments' \in Seq(Payment)
    BY <1>2, <1>t, <2>1 DEF SmallTransfer
  <2> QED
    BY <1>2, <1>t, <2>2 DEF Types, SmallTransfer
<1>3. ASSUME NEW s, GrowsOld(s) PROVE Types'
  <2>1. payments' \in Seq(Payment)
    <3>1. PICK p \in Payment : p = payments[s]
      BY <1>3, <1>t DEF GrowsOld
    <3>2. [p EXCEPT !.old = TRUE] \in Payment
      BY <3>1 DEF Payment
    <3>3. payments' = [payments EXCEPT ![s] = [p EXCEPT !.old = TRUE]]
      BY <1>3, <3>1 DEF GrowsOld
    <3>4. payments \in Seq(Payment) /\ s \in 1..Len(payments)
      BY <1>3, <1>t DEF GrowsOld
    <3> QED
      BY <3>2, <3>3, <3>4, ExceptSeq
  <2> QED
    BY <1>3, <1>t, <2>1 DEF Types, GrowsOld
<1>p. ASSUME NEW r \in Requests, NEW u \in Users, NEW s \in Nat, NEW v \in Venues,
             Posted(r, u, s, v)
      PROVE  req' \in [Requests -> Request]
  <2>1. [Idle EXCEPT !.pc = "price", !.user = u, !.sig = s, !.venue = v] \in Request
    BY IdleIs DEF Request, AnyUser, AnyVenue
  <2> QED
    BY <1>p, <2>1, <1>t, ReplaceRequest DEF Posted
<1>4. ASSUME NEW u \in Users, NEW r \in Requests, NEW v \in Venues, Post(u, r, v) PROVE Types'
  <2>1. ui[u].sig \in Nat
    BY <1>t
  <2>2. req' \in [Requests -> Request]
    BY <1>4, <1>p, <2>1 DEF Post
  <2>3. ui' \in Wizards
    BY <1>4, <1>t DEF Post
  <2> QED
    BY <1>4, <1>t, <2>2, <2>3 DEF Types, Post
<1>5. ASSUME NEW u \in Users, NEW r \in Requests, NEW v \in Venues, NEW s \in 0..MaxPayments,
             PostAgain(u, r, s, v)
      PROVE  Types'
  <2>1. s \in Nat
    OBVIOUS
  <2>2. req' \in [Requests -> Request]
    BY <1>5, <1>p, <2>1 DEF PostAgain
  <2> QED
    BY <1>5, <1>t, <2>2 DEF Types, PostAgain
<1>6. ASSUME NEW r \in Requests, PriceRead(r) PROVE Types'
  <2>1. PICK q \in Request : q = req[r]
    BY <1>t
  <2>2. /\ [q EXCEPT !.pc = "pool"] \in Request /\ [q EXCEPT !.pc = "create"] \in Request
        /\ [q EXCEPT !.pc = "payment", !.prior = listings] \in Request
    BY <2>1, <1>t DEF Request
  <2>3. \/ \E y \in Request : req' = [req EXCEPT ![r] = y] /\ UNCHANGED ui
        \/ Ends(r)
    BY <1>6, <2>1, <2>2, <1>t DEF PriceRead
  <2>4. req' \in [Requests -> Request] /\ ui' \in Wizards
    BY <2>3, <1>t, EndsTypes, ReplaceRequest
  <2> QED
    BY <1>6, <1>t, <2>4 DEF Types, PriceRead, chain
<1>7. ASSUME NEW r \in Requests, NotReady(r) PROVE Types'
  BY <1>7, <1>t, EndsTypes DEF Types, NotReady, chain
<1>8. ASSUME NEW r \in Requests, PaymentRead(r) PROVE Types'
  <2>1. PICK q \in Request : q = req[r]
    BY <1>t
  <2>2. [q EXCEPT !.pc = "create"] \in Request
    BY <2>1 DEF Request
  <2>3. \/ \E y \in Request : req' = [req EXCEPT ![r] = y] /\ UNCHANGED ui
        \/ Ends(r)
    BY <1>8, <2>1, <2>2, <1>t DEF PaymentRead
  <2>4. req' \in [Requests -> Request] /\ ui' \in Wizards
    BY <2>3, <1>t, EndsTypes, ReplaceRequest
  <2> QED
    BY <1>8, <1>t, <2>4 DEF Types, PaymentRead, chain
<1>o. ASSUME NEW r \in Requests, OnChain(r) \/ UNCHANGED markets
      PROVE  markets' \in Seq(Market) /\ Len(markets') \in Nat
  <2>1. CASE OnChain(r) /\ req[r].pc = "seed"
    <3>1. PICK k : k = req[r].market
      OBVIOUS
    <3>2. markets' = [markets EXCEPT ![k].seeded = TRUE]
      BY <2>1, <3>1 DEF OnChain
    <3>3. CASE k \in DOMAIN markets
      <4>1. PICK m \in Market : m = markets[k]
        BY <3>3, <1>t
      <4>2. [m EXCEPT !.seeded = TRUE] \in Market
        BY <4>1 DEF Market
      <4>3. markets' = [markets EXCEPT ![k] = [m EXCEPT !.seeded = TRUE]]
        BY <3>2, <4>1
      <4>4. markets \in Seq(Market) /\ k \in 1..Len(markets) /\ Len(markets) \in Nat
        BY <3>3, <1>t
      <4>5. [markets EXCEPT ![k] = [m EXCEPT !.seeded = TRUE]] \in Seq(Market)
        BY <4>2, <4>4, ExceptSeq
      <4>6. Len(markets') = Len(markets)
        BY <4>2, <4>3, <4>4, ExceptSeq
      <4> QED
        BY <4>3, <4>4, <4>5, <4>6
    <3>4. CASE k \notin DOMAIN markets
      <4>1. markets' = markets
        BY <3>2, <3>4, <1>t
      <4> QED
        BY <4>1, <1>t
    <3> QED
      BY <3>3, <3>4
  <2>2. CASE OnChain(r) /\ req[r].pc # "seed"
    <3>1. NewMarket(r, TRUE) \/ NewMarket(r, FALSE) \/ UNCHANGED markets
      BY <2>2 DEF OnChain
    <3>2. ASSUME NEW seeded \in BOOLEAN, NewMarket(r, seeded)
          PROVE  markets' \in Seq(Market) /\ Len(markets') \in Nat
      <4>1. /\ markets' \in Seq(Market) /\ Len(markets') = Len(markets) + 1
            /\ Len(markets) \in Nat
        BY <3>2, NewMarketTypes
      <4> QED
        BY <4>1
    <3>3. NewMarket(r, TRUE) => markets' \in Seq(Market) /\ Len(markets') \in Nat
      BY <3>2
    <3>4. NewMarket(r, FALSE) => markets' \in Seq(Market) /\ Len(markets') \in Nat
      BY <3>2
    <3>5. UNCHANGED markets => markets' \in Seq(Market) /\ Len(markets') \in Nat
      BY <1>t
    <3> QED
      BY <3>1, <3>3, <3>4, <3>5
  <2>3. CASE UNCHANGED markets
    BY <2>3, <1>t
  <2> QED
    BY <1>o, <2>1, <2>2, <2>3
<1>9. ASSUME NEW r \in Requests, ChainStep(r) PROVE Types'
  <2>1. PICK q \in Request : q = req[r]
    BY <1>t
  <2>2. markets' \in Seq(Market) /\ Len(markets') \in Nat
    BY <1>9, <1>o DEF ChainStep
  <2>3. PICK p : p = after[q.pc]
    OBVIOUS
  <2>4. q.pc \in DOMAIN after
    BY <1>9, <2>1 DEF ChainStep
  <2>5. p \in {"items", "attach", "seed", "list"}
    BY <2>3, <2>4, AfterIs
  <2>6. PICK m \in Nat : m = IF q.pc \in {"create", "attach"} THEN Len(markets') ELSE q.market
    BY <2>1, <2>2 DEF Request
  <2>7. [q EXCEPT !.pc = p, !.market = m] \in Request
    BY <2>1, <2>5, <2>6 DEF Request
  <2>8. req' = [req EXCEPT ![r] = [q EXCEPT !.pc = p, !.market = m]]
    BY <1>9, <1>t, <2>1, <2>3, <2>6 DEF ChainStep
  <2>9. req' \in [Requests -> Request]
    BY <2>7, <2>8, <1>t, ReplaceRequest
  <2> QED
    BY <1>9, <1>t, <2>2, <2>9 DEF Types, ChainStep
<1>10. ASSUME NEW r \in Requests, ChainFails(r) PROVE Types'
  <2>1. markets' \in Seq(Market)
    BY <1>10, <1>o DEF ChainFails
  <2>2. Ends(r) /\ Fault
    BY <1>10 DEF ChainFails, stops
  <2> QED
    BY <1>10, <1>t, <1>f, <2>1, <2>2, EndsTypes DEF Types, ChainFails
<1>11. ASSUME NEW r \in Requests, Items(r) PROVE Types'
  <2>1. PICK q \in Request : q = req[r]
    BY <1>t
  <2>2. [q EXCEPT !.pc = "list"] \in Request
    BY <2>1 DEF Request
  <2>3. req' \in [Requests -> Request]
    BY <1>11, <1>t, <2>1, <2>2, ReplaceRequest DEF Items
  <2> QED
    BY <1>11, <1>t, <2>3 DEF Types, Items, chain
<1>12. ASSUME NEW r \in Requests, List(r) PROVE Types'
  <2>1. PICK q \in Request : q = req[r]
    BY <1>t
  <2>2. PICK e : e = [sig |-> q.sig, user |-> q.user, edited |-> FALSE]
    OBVIOUS
  <2>3. e \in Listing /\ q.market \in Nat
    BY <2>1, <2>2 DEF Listing, Request
  <2>4. [j \in {q.market} |-> e] \in Listings
    BY <2>3, OneListing
  <2>5. listings' = Over([j \in {q.market} |-> e], listings)
    BY <1>12, <2>1, <2>2 DEF List, Entry, listings_now
  <2>6. listings' \in Listings
    BY <2>4, <2>5, <1>t, OverIs
  <2> QED
    BY <1>12, <1>t, <2>6, EndsTypes DEF Types, List, chain
<1>13. ASSUME Restart PROVE Types'
  <2>1. listings' \in Listings
    BY <1>13, <1>t, OverIs, BundledIs DEF Restart, merged
  <2>2. req' \in [Requests -> Request]
    BY <1>13, IdleIs DEF Restart
  <2>3. ui' \in Wizards
    BY <1>13, <1>t DEF Restart, Wizard
  <2> QED
    BY <1>13, <1>t, <1>f, <2>1, <2>2, <2>3 DEF Types, Restart, chain
<1>14. CASE UNCHANGED vars
  BY <1>14, <1>t DEF Types, vars
<1> QED
  BY <1>1, <1>2, <1>3, <1>4, <1>5, <1>6, <1>7, <1>8, <1>9, <1>10, <1>11, <1>12, <1>13, <1>14
     DEF Next, Step

(* The wizards, requests, payments, markets and listings are well-formed.  *)
THEOREM TypesHold ==
  Spec => []Types
  BY TypesInit, TypesStep, PTL DEF Spec

-----------------------------------------------------------------------------
(* Listings.                                                               *)

(* A request moves on: it is over, keeps its market, or has a new one; and *)
(* markets are only added and seeded.                                      *)
LEMMA Moves ==
  ASSUME NEW rq \in [Requests -> Request], NEW ms \in Seq(Market), NEW ns \in Seq(Market),
         NEW ls \in Listings, Tracked(rq, ms, ls),
         NEW r \in Requests, NEW q \in Request,
         \A k \in DOMAIN ms :
           /\ k \in DOMAIN ns /\ ns[k].sig = ms[k].sig /\ ns[k].user = ms[k].user
           /\ ms[k].seeded => ns[k].seeded,
         Unlisted(q) =>
           /\ \/ Unlisted(rq[r]) /\ q.market = rq[r].market
              \/ q.market \in DOMAIN ns \ DOMAIN ms
           /\ ns[q.market].sig = q.sig /\ ns[q.market].user = q.user,
         q.pc \in {"items", "list"} => ns[q.market].seeded
  PROVE  Tracked([rq EXCEPT ![r] = q], ns, ls)
<1> DEFINE new == [rq EXCEPT ![r] = q]
<1>1. /\ new \in [Requests -> Request] /\ new[r] = q
      /\ \A j \in Requests : j # r => new[j] = rq[j]
  OBVIOUS
<1>2. \A k \in DOMAIN ls \ {0} :
        /\ k \in DOMAIN ns /\ ns[k].seeded
        /\ ns[k].sig = ls[k].sig /\ ns[k].user = ls[k].user
  BY DEF Tracked
<1>3. 0 \notin DOMAIN ns
  OBVIOUS
<1>4. OwnsMarket(q, ns, ls)
  <2>1. SUFFICES ASSUME Unlisted(q) PROVE q.market \in DOMAIN ns /\ q.market \notin DOMAIN ls
    BY DEF OwnsMarket
  <2>2. CASE Unlisted(rq[r]) /\ q.market = rq[r].market
    BY <2>2 DEF Tracked, OwnsMarket
  <2>3. CASE q.market \in DOMAIN ns \ DOMAIN ms
    BY <2>3, <1>3 DEF Tracked
  <2> QED
    BY <2>1, <2>2, <2>3
<1>5. ASSUME NEW j \in Requests, j # r PROVE OwnsMarket(rq[j], ns, ls)
  BY DEF Tracked, OwnsMarket, Unlisted
<1>6. \A j \in Requests : OwnsMarket(new[j], ns, ls)
  BY <1>1, <1>4, <1>5
<1>7. ASSUME NEW j \in Requests, j # r, Unlisted(rq[j]), Unlisted(q)
      PROVE  rq[j].market # q.market
  BY <1>7 DEF Tracked, OwnsMarket
<1>8. ASSUME NEW i \in Requests, NEW j \in Requests, i # j, Unlisted(new[i]), Unlisted(new[j])
      PROVE  new[i].market # new[j].market
  <2>1. CASE i = r
    BY <2>1, <1>1, <1>7, <1>8
  <2>2. CASE j = r
    BY <2>2, <1>1, <1>7, <1>8
  <2>3. CASE i # r /\ j # r
    BY <2>3, <1>1, <1>8 DEF Tracked
  <2> QED
    BY <2>1, <2>2, <2>3
<1> QED
  BY <1>2, <1>6, <1>8 DEF Tracked

(* A request that is not about to list a market moves on. *)
LEMMA MovesApart ==
  ASSUME NEW rq \in [Requests -> Request], NEW ms \in Seq(Market), NEW ls \in Listings,
         Tracked(rq, ms, ls), NEW r \in Requests, NEW q \in Request, ~Unlisted(q)
  PROVE  Tracked([rq EXCEPT ![r] = q], ms, ls)
  BY Moves DEF Unlisted

(* A market is listed. *)
LEMMA Lists ==
  ASSUME NEW rq \in [Requests -> Request], NEW ms \in Seq(Market), NEW ls \in Listings,
         Tracked(rq, ms, ls), NEW r \in Requests, rq[r].pc = "list", NEW d \in Listings,
         DOMAIN d = {rq[r].market},
         d[rq[r].market].sig = rq[r].sig, d[rq[r].market].user = rq[r].user
  PROVE  /\ Tracked([rq EXCEPT ![r] = Idle], ms, Over(d, ls))
         /\ DOMAIN ls \subseteq DOMAIN Over(d, ls)
         /\ \A k \in DOMAIN ls : Over(d, ls)[k] = ls[k]
<1> DEFINE new == [rq EXCEPT ![r] = Idle]
           m == rq[r].market
<1>1. /\ new \in [Requests -> Request] /\ ~Unlisted(new[r])
      /\ \A j \in Requests : j # r => new[j] = rq[j]
  BY IdleIs DEF Unlisted
<1>2. Unlisted(rq[r])
  BY DEF Unlisted
<1>3. /\ m \in DOMAIN ms /\ m \notin DOMAIN ls /\ ms[m].seeded
      /\ ms[m].sig = rq[r].sig /\ ms[m].user = rq[r].user
  BY <1>2 DEF Tracked, OwnsMarket
<1>4. PICK o \in Listings : o = Over(d, ls)
  BY OverIs
<1>5. /\ DOMAIN o = DOMAIN ls \cup {m} /\ o[m] = d[m]
      /\ \A k \in DOMAIN ls : o[k] = ls[k]
  <2>1. DOMAIN d = {m}
    OBVIOUS
  <2>2. DOMAIN Over(d, ls) = DOMAIN d \cup DOMAIN ls
    BY OverIs
  <2>3. \A k \in DOMAIN d : Over(d, ls)[k] = d[k]
    BY OverIs
  <2>4. \A k \in DOMAIN ls \ DOMAIN d : Over(d, ls)[k] = ls[k]
    BY OverIs
  <2> QED
    BY <1>3, <1>4, <2>1, <2>2, <2>3, <2>4
<1>6. \A k \in DOMAIN o \ {0} :
        k \in DOMAIN ms /\ ms[k].seeded /\ ms[k].sig = o[k].sig /\ ms[k].user = o[k].user
  BY <1>3, <1>5 DEF Tracked
<1>7. ASSUME NEW j \in Requests PROVE OwnsMarket(new[j], ms, o)
  <2>1. CASE j = r
    BY <2>1, <1>1 DEF OwnsMarket, Unlisted
  <2>2. CASE j # r
    <3>1. Unlisted(rq[j]) => rq[j].market # m
      BY <2>2, <1>2 DEF Tracked
    <3> QED
      BY <3>1, <2>2, <1>1, <1>5 DEF Tracked, OwnsMarket
  <2> QED
    BY <2>1, <2>2
<1>8. ASSUME NEW i \in Requests, NEW j \in Requests, i # j, Unlisted(new[i]), Unlisted(new[j])
      PROVE  new[i].market # new[j].market
  BY <1>8, <1>1 DEF Tracked
<1> QED
  BY <1>4, <1>5, <1>6, <1>7, <1>8 DEF Tracked

(* A restart drops every request and adds at most the bundled listing. *)
LEMMA Restarts ==
  ASSUME NEW rq, NEW ms \in Seq(Market), NEW ls \in Listings, Tracked(rq, ms, ls)
  PROVE  /\ Tracked([r \in Requests |-> Idle], ms, merged(ls))
         /\ DOMAIN ls \subseteq DOMAIN merged(ls)
         /\ \A k \in DOMAIN ls : merged(ls)[k] = ls[k]
<1>1. /\ DOMAIN merged(ls) = DOMAIN ls \cup {0}
      /\ \A k \in DOMAIN ls : merged(ls)[k] = ls[k]
  BY OverIs, BundledIs DEF merged
<1>2. ~Unlisted(Idle) /\ OwnsMarket(Idle, ms, merged(ls))
  BY IdleIs DEF Unlisted, OwnsMarket
<1> QED
  BY <1>1, <1>2 DEF Tracked

(* The four kinds of step that reach the chain leave markets and payments  *)
(* where they were, but for the market of the request itself.              *)
LEMMA OnChainIs ==
  ASSUME Types, Types', NEW r \in Requests, OnChain(r),
         Unlisted(req[r]) => req[r].market \in DOMAIN markets
  PROVE  /\ \A k \in DOMAIN markets :
              /\ k \in DOMAIN markets' /\ markets'[k].sig = markets[k].sig
              /\ markets'[k].user = markets[k].user
              /\ markets[k].seeded => markets'[k].seeded
         /\ req[r].pc = "seed" =>
              DOMAIN markets' = DOMAIN markets /\ markets'[req[r].market].seeded
         /\ req[r].pc \in {"create", "attach"} =>
              /\ Len(markets') \in DOMAIN markets' \ DOMAIN markets
              /\ DOMAIN markets' = DOMAIN markets \cup {Len(markets')}
              /\ markets'[Len(markets')].sig = req[r].sig
              /\ markets'[Len(markets')].user = req[r].user
              /\ req[r].pc = "create" => markets'[Len(markets')].seeded
         /\ req[r].pc = "pool" => markets' = markets
<1>1. markets \in Seq(Market) /\ markets' \in Seq(Market)
  BY DEF Types
<1>2. CASE req[r].pc = "seed"
  <2>1. PICK k : k = req[r].market
    OBVIOUS
  <2>2. k \in DOMAIN markets /\ markets' = [markets EXCEPT ![k].seeded = TRUE]
    BY <1>2, <2>1 DEF OnChain, Unlisted
  <2>3. PICK m \in Market : m = markets[k]
    BY <2>2, <1>1
  <2>4. PICK y \in Market : y = [m EXCEPT !.seeded = TRUE]
    BY <2>3 DEF Market
  <2>5. y.seeded /\ y.sig = m.sig /\ y.user = m.user
    BY <2>3, <2>4 DEF Market
  <2>6. markets' = [markets EXCEPT ![k] = y]
    BY <2>2, <2>3, <2>4
  <2>7. /\ DOMAIN markets' = DOMAIN markets /\ markets'[k] = y
        /\ \A j \in DOMAIN markets : j # k => markets'[j] = markets[j]
    BY <2>2, <2>6, <1>1
  <2> QED
    BY <1>2, <2>1, <2>2, <2>3, <2>5, <2>7
<1>3. ASSUME NEW seeded \in BOOLEAN, NewMarket(r, seeded)
      PROVE  /\ \A k \in DOMAIN markets : k \in DOMAIN markets' /\ markets'[k] = markets[k]
             /\ Len(markets') \in DOMAIN markets' \ DOMAIN markets
             /\ DOMAIN markets' = DOMAIN markets \cup {Len(markets')}
             /\ markets'[Len(markets')].sig = req[r].sig
             /\ markets'[Len(markets')].user = req[r].user
             /\ markets'[Len(markets')].seeded = seeded
  <2>1. /\ Len(markets') = Len(markets) + 1 /\ Len(markets) \in Nat
        /\ \A k \in DOMAIN markets : markets'[k] = markets[k]
        /\ markets'[Len(markets')] =
             [sig |-> req[r].sig, user |-> req[r].user, venue |-> req[r].venue, seeded |-> seeded]
    BY <1>3, NewMarketTypes
  <2>2. DOMAIN markets = 1..Len(markets) /\ DOMAIN markets' = 1..Len(markets')
    BY <1>1
  <2>3. /\ Len(markets') \in DOMAIN markets' \ DOMAIN markets
        /\ DOMAIN markets' = DOMAIN markets \cup {Len(markets')}
    BY <2>1, <2>2
  <2> QED
    BY <2>1, <2>3
<1>4. CASE req[r].pc = "create"
  <2>1. NewMarket(r, TRUE)
    BY <1>4 DEF OnChain
  <2> QED
    BY <1>3, <1>4, <2>1
<1>5. CASE req[r].pc = "attach"
  <2>1. NewMarket(r, FALSE)
    BY <1>5 DEF OnChain
  <2>2. /\ \A k \in DOMAIN markets : k \in DOMAIN markets' /\ markets'[k] = markets[k]
        /\ Len(markets') \in DOMAIN markets' \ DOMAIN markets
        /\ DOMAIN markets' = DOMAIN markets \cup {Len(markets')}
        /\ markets'[Len(markets')].sig = req[r].sig
        /\ markets'[Len(markets')].user = req[r].user
    BY <1>3, <2>1
  <2> QED
    BY <1>5, <2>2
<1>6. CASE req[r].pc = "pool"
  <2>1. markets' = markets
    BY <1>6 DEF OnChain
  <2> QED
    BY <1>6, <2>1
<1>7. req[r].pc \in {"create", "attach", "pool", "seed"}
  BY DEF OnChain
<1> QED
  BY <1>2, <1>4, <1>5, <1>6, <1>7

(* Every step tracks the listings, and keeps them. *)
LEMMA ListStep ==
  ASSUME Types, Types', Tracked(req, markets, listings), [Next]_vars
  PROVE  Tracked(req, markets, listings)' /\ KeepsListings
<1> DEFINE Good == Tracked(req', markets', listings') /\ KeepsListings
<1> SUFFICES Good
  OBVIOUS
<1>t. /\ req \in [Requests -> Request] /\ markets \in Seq(Market) /\ listings \in Listings
      /\ markets' \in Seq(Market)
  BY DEF Types
<1>k. UNCHANGED listings => KeepsListings
  BY DEF KeepsListings
<1>a. ASSUME NEW r \in Requests, NEW q \in Request, ~Unlisted(q),
             req' = [req EXCEPT ![r] = q], UNCHANGED <<markets, listings>>
      PROVE  Good
  <2>1. Tracked([req EXCEPT ![r] = q], markets, listings)
    BY <1>a, <1>t, MovesApart
  <2> QED
    BY <2>1, <1>a, <1>k
<1>e. ASSUME NEW r \in Requests, Ends(r), UNCHANGED <<markets, listings>> PROVE Good
  BY <1>a, <1>e, IdleIs DEF Ends, Unlisted
<1>u. ASSUME UNCHANGED <<req, markets, listings>> PROVE Good
  BY <1>u, <1>k
<1>1. ASSUME NEW u \in Users, Deploy(u) \/ SmallTransfer(u) PROVE Good
  BY <1>1, <1>u DEF Deploy, SmallTransfer
<1>2. ASSUME NEW s, GrowsOld(s) PROVE Good
  BY <1>2, <1>u DEF GrowsOld
<1>p. ASSUME NEW r \in Requests, NEW u \in Users, NEW s, NEW v,
             Posted(r, u, s, v), UNCHANGED <<markets, listings>>
      PROVE  Good
  <2>1. PICK q : q = [Idle EXCEPT !.pc = "price", !.user = u, !.sig = s, !.venue = v]
    OBVIOUS
  <2>2. req' = [req EXCEPT ![r] = q] /\ q.pc = "price"
    BY <1>p, <2>1 DEF Posted, Idle
  <2>3. q \in Request
    BY <2>2, <1>t DEF Types
  <2> QED
    BY <2>2, <2>3, <1>p, <1>a DEF Unlisted
<1>4. ASSUME NEW u \in Users, NEW r \in Requests, NEW v, Post(u, r, v) PROVE Good
  BY <1>4, <1>p DEF Post
<1>5. ASSUME NEW u \in Users, NEW r \in Requests, NEW v, NEW s, PostAgain(u, r, s, v) PROVE Good
  BY <1>5, <1>p DEF PostAgain
<1>6. ASSUME NEW r \in Requests, PriceRead(r) PROVE Good
  <2>1. PICK q \in Request : q = req[r]
    BY <1>t
  <2>2. /\ [q EXCEPT !.pc = "pool"] \in Request /\ [q EXCEPT !.pc = "create"] \in Request
        /\ [q EXCEPT !.pc = "payment", !.prior = listings] \in Request
    BY <2>1, <1>t DEF Request
  <2>3. /\ ~Unlisted([q EXCEPT !.pc = "pool"]) /\ ~Unlisted([q EXCEPT !.pc = "create"])
        /\ ~Unlisted([q EXCEPT !.pc = "payment", !.prior = listings])
    BY <2>1 DEF Unlisted, Request
  <2>4. \/ \E y \in Request : ~Unlisted(y) /\ req' = [req EXCEPT ![r] = y]
        \/ Ends(r)
    BY <1>6, <1>t, <2>1, <2>2, <2>3 DEF PriceRead
  <2>5. UNCHANGED <<markets, listings>>
    BY <1>6 DEF PriceRead, chain
  <2> QED
    BY <2>4, <2>5, <1>a, <1>e
<1>7. ASSUME NEW r \in Requests, NotReady(r) PROVE Good
  BY <1>7, <1>e DEF NotReady, chain
<1>8. ASSUME NEW r \in Requests, PaymentRead(r) PROVE Good
  <2>1. PICK q \in Request : q = req[r]
    BY <1>t
  <2>2. [q EXCEPT !.pc = "create"] \in Request /\ ~Unlisted([q EXCEPT !.pc = "create"])
    BY <2>1 DEF Request, Unlisted
  <2>3. \/ req' = [req EXCEPT ![r] = [q EXCEPT !.pc = "create"]]
        \/ Ends(r)
    BY <1>8, <1>t, <2>1 DEF PaymentRead
  <2>4. UNCHANGED <<markets, listings>>
    BY <1>8 DEF PaymentRead, chain
  <2> QED
    BY <2>2, <2>3, <2>4, <1>a, <1>e
<1>o. ASSUME NEW r \in Requests PROVE Unlisted(req[r]) => req[r].market \in DOMAIN markets
  BY DEF Tracked, OwnsMarket
<1>9. ASSUME NEW r \in Requests, ChainStep(r) PROVE Good
  <2>1. PICK p \in Request : p = req[r]
    BY <1>t
  <2>2. PICK q : q = [p EXCEPT !.pc = after[p.pc],
                        !.market = IF p.pc \in {"create", "attach"} THEN Len(markets') ELSE p.market]
    OBVIOUS
  <2>3. req' = [req EXCEPT ![r] = q]
    BY <1>9, <1>t, <2>1, <2>2 DEF ChainStep
  <2>4. q \in Request
    BY <2>3, <1>t DEF Types
  <2>5. /\ q.pc = after[p.pc] /\ q.sig = p.sig /\ q.user = p.user
        /\ q.market = IF p.pc \in {"create", "attach"} THEN Len(markets') ELSE p.market
    BY <2>1, <2>2 DEF Request
  <2>6. p.pc \in {"create", "pool", "attach", "seed"} /\ OnChain(r)
    BY <1>9, <2>1, AfterIs DEF ChainStep
  <2>7. /\ q.pc = "items" => p.pc = "create"
        /\ q.pc = "seed" => p.pc = "attach"
        /\ q.pc = "list" => p.pc = "seed"
    BY <2>5, <2>6, AfterIs
  <2>8. /\ \A k \in DOMAIN markets :
             /\ k \in DOMAIN markets' /\ markets'[k].sig = markets[k].sig
             /\ markets'[k].user = markets[k].user
             /\ markets[k].seeded => markets'[k].seeded
        /\ p.pc = "seed" => markets'[p.market].seeded
        /\ p.pc \in {"create", "attach"} =>
             /\ Len(markets') \in DOMAIN markets' \ DOMAIN markets
             /\ markets'[Len(markets')].sig = p.sig
             /\ markets'[Len(markets')].user = p.user
             /\ p.pc = "create" => markets'[Len(markets')].seeded
    BY <2>1, <2>6, <1>o, OnChainIs
  <2>9. p.pc = "seed" =>
          Unlisted(p) /\ markets[p.market].sig = p.sig /\ markets[p.market].user = p.user
                      /\ p.market \in DOMAIN markets
    BY <2>1 DEF Tracked, OwnsMarket, Unlisted
  <2>10. Unlisted(q) =>
           /\ \/ Unlisted(req[r]) /\ q.market = req[r].market
              \/ q.market \in DOMAIN markets' \ DOMAIN markets
           /\ markets'[q.market].sig = q.sig /\ markets'[q.market].user = q.user
    BY <2>1, <2>5, <2>7, <2>8, <2>9 DEF Unlisted
  <2>11. q.pc \in {"items", "list"} => markets'[q.market].seeded
    BY <2>5, <2>7, <2>8
  <2>12. Tracked([req EXCEPT ![r] = q], markets', listings)
    BY <1>t, <2>4, <2>8, <2>10, <2>11, Moves
  <2> QED
    BY <1>9, <1>k, <2>3, <2>12 DEF ChainStep
<1>10. ASSUME NEW r \in Requests, ChainFails(r) PROVE Good
  <2>1. req' = [req EXCEPT ![r] = Idle] /\ UNCHANGED listings
    BY <1>10 DEF ChainFails, stops, Ends
  <2>2. \A k \in DOMAIN markets :
          /\ k \in DOMAIN markets' /\ markets'[k].sig = markets[k].sig
          /\ markets'[k].user = markets[k].user
          /\ markets[k].seeded => markets'[k].seeded
    <3>1. CASE OnChain(r)
      BY <3>1, <1>o, OnChainIs
    <3>2. CASE UNCHANGED markets
      BY <3>2
    <3> QED
      BY <1>10, <3>1, <3>2 DEF ChainFails
  <2>3. Tracked([req EXCEPT ![r] = Idle], markets', listings)
    BY <1>t, <2>2, IdleIs, Moves DEF Unlisted
  <2> QED
    BY <1>k, <2>1, <2>3
<1>11. ASSUME NEW r \in Requests, Items(r) PROVE Good
  <2>1. PICK p \in Request : p = req[r]
    BY <1>t
  <2>2. PICK q \in Request : q = [p EXCEPT !.pc = "list"]
    BY <2>1 DEF Request
  <2>3. q.pc = "list" /\ q.market = p.market /\ q.sig = p.sig /\ q.user = p.user
    BY <2>1, <2>2 DEF Request
  <2>4. req' = [req EXCEPT ![r] = q] /\ p.pc = "items" /\ UNCHANGED <<markets, listings>>
    BY <1>11, <1>t, <2>1, <2>2 DEF Items, chain
  <2>5. /\ Unlisted(req[r]) /\ markets[p.market].sig = p.sig /\ markets[p.market].user = p.user
        /\ markets[p.market].seeded
    BY <2>1, <2>4 DEF Tracked, OwnsMarket, Unlisted
  <2>6. Tracked([req EXCEPT ![r] = q], markets, listings)
    BY <1>t, <2>1, <2>3, <2>5, Moves
  <2> QED
    BY <1>k, <2>4, <2>6
<1>12. ASSUME NEW r \in Requests, List(r) PROVE Good
  <2>1. PICK p \in Request : p = req[r]
    BY <1>t
  <2>2. PICK e : e = [sig |-> p.sig, user |-> p.user, edited |-> FALSE]
    OBVIOUS
  <2>3. e \in Listing /\ p.market \in Nat
    BY <2>1, <2>2 DEF Listing, Request
  <2>4. PICK d \in Listings : d = [k \in {p.market} |-> e]
    BY <2>3, OneListing
  <2>5. DOMAIN d = {p.market} /\ d[p.market].sig = p.sig /\ d[p.market].user = p.user
    BY <2>2, <2>4
  <2>6. listings' = Over(d, listings) /\ p.pc = "list"
    BY <1>12, <2>1, <2>2, <2>4 DEF List, Entry, listings_now
  <2>7. req' = [req EXCEPT ![r] = Idle] /\ UNCHANGED markets
    BY <1>12 DEF List, Ends, chain
  <2>8. /\ Tracked([req EXCEPT ![r] = Idle], markets, Over(d, listings))
        /\ DOMAIN listings \subseteq DOMAIN Over(d, listings)
        /\ \A k \in DOMAIN listings : Over(d, listings)[k] = listings[k]
    BY <1>t, <2>1, <2>5, <2>6, Lists
  <2> QED
    BY <2>6, <2>7, <2>8 DEF KeepsListings
<1>13. ASSUME Restart PROVE Good
  <2>1. listings' = merged(listings) /\ req' = [r \in Requests |-> Idle] /\ UNCHANGED markets
    BY <1>13 DEF Restart, chain
  <2>2. /\ Tracked([r \in Requests |-> Idle], markets, merged(listings))
        /\ DOMAIN listings \subseteq DOMAIN merged(listings)
        /\ \A k \in DOMAIN listings : merged(listings)[k] = listings[k]
    BY <1>t, Restarts
  <2> QED
    BY <2>1, <2>2 DEF KeepsListings
<1>14. CASE UNCHANGED vars
  BY <1>14, <1>u DEF vars
<1> QED
  BY <1>1, <1>2, <1>4, <1>5, <1>6, <1>7, <1>8, <1>9, <1>10, <1>11, <1>12, <1>13, <1>14
     DEF Next, Step

(* At the start only the bundled market is listed. *)
LEMMA ListInit ==
  ASSUME Init PROVE Tracked(req, markets, listings)
<1>1. DOMAIN listings \subseteq {0} /\ \A r \in Requests : req[r] = Idle
  BY BundledIs DEF Init
<1> QED
  BY <1>1, IdleIs DEF Tracked, OwnsMarket, Unlisted

(* ListedMarketsKept: whatever launches overlap, fail or are cut off by a  *)
(* crash, a listed market exists on chain, is seeded, belongs to the       *)
(* payment and launcher listed, and stays listed as it is.                 *)
THEOREM ListingsAreTrue ==
  Spec => ListedMarketsKept
<1>1. Init => Tracked(req, markets, listings)
  BY ListInit
<1>2. Types /\ Types' /\ Tracked(req, markets, listings) /\ [Next]_vars =>
        Tracked(req, markets, listings)' /\ KeepsListings
  BY ListStep
<1>3. Tracked(req, markets, listings) => ListedMarketsAreSeeded
  BY DEF Tracked, ListedMarketsAreSeeded
<1>4. Spec => []Types
  BY TypesHold
<1> QED
  BY <1>1, <1>2, <1>3, <1>4, PTL DEF Spec, ListedMarketsKept, ListingsKept

-----------------------------------------------------------------------------
(* Payments.                                                               *)

(* Payments are added and grow old; who paid how much stays. *)
LEMMA PaymentsGrow ==
  ASSUME Types, [Next]_vars
  PROVE  \A s \in DOMAIN payments :
           /\ s \in DOMAIN payments' /\ payments'[s].payer = payments[s].payer
           /\ payments'[s].enough = payments[s].enough
<1> SUFFICES ASSUME NEW s \in DOMAIN payments
             PROVE  /\ s \in DOMAIN payments' /\ payments'[s].payer = payments[s].payer
                    /\ payments'[s].enough = payments[s].enough
  OBVIOUS
<1>t. payments \in Seq(Payment)
  BY DEF Types
<1>1. ASSUME NEW p, payments' = Append(payments, p)
      PROVE  s \in DOMAIN payments' /\ payments'[s] = payments[s]
  BY <1>1, <1>t
<1>2. ASSUME NEW k, GrowsOld(k)
      PROVE  /\ s \in DOMAIN payments' /\ payments'[s].payer = payments[s].payer
             /\ payments'[s].enough = payments[s].enough
  <2>1. PICK p \in Payment : p = payments[k]
    BY <1>2, <1>t DEF GrowsOld
  <2>2. PICK y \in Payment : y = [p EXCEPT !.old = TRUE]
    BY <2>1 DEF Payment
  <2>3. y.payer = p.payer /\ y.enough = p.enough
    BY <2>1, <2>2 DEF Payment
  <2>4. payments' = [payments EXCEPT ![k] = y]
    BY <1>2, <2>1, <2>2 DEF GrowsOld
  <2>5. s \in DOMAIN payments' /\ payments'[s] = IF s = k THEN y ELSE payments[s]
    BY <2>4, <1>t
  <2> QED
    BY <2>1, <2>3, <2>5
<1>3. \/ UNCHANGED payments
      \/ \E p : payments' = Append(payments, p)
      \/ \E k : GrowsOld(k)
  BY DEF Next, Step, Deploy, SmallTransfer, Post, PostAgain, PriceRead, NotReady, PaymentRead,
         ChainStep, ChainFails, Items, List, Restart, vars, chain
<1> QED
  BY <1>1, <1>2, <1>3

(* Then what was paid for stays paid for. *)
LEMMA StaysPaid ==
  ASSUME NEW ps, NEW ns,
         \A s \in DOMAIN ps :
           s \in DOMAIN ns /\ ns[s].payer = ps[s].payer /\ ns[s].enough = ps[s].enough
  PROVE  /\ \A s, user : PaidBy(s, user, ps) => PaidBy(s, user, ns)
         /\ \A q : PaidFor(q, ps) => PaidFor(q, ns)
<1>1. \A s, user : PaidBy(s, user, ps) => PaidBy(s, user, ns)
  BY DEF PaidBy
<1>2. ASSUME NEW q, PaidFor(q, ps) PROVE PaidFor(q, ns)
  BY <1>1, <1>2 DEF PaidFor
<1> QED
  BY <1>1, <1>2

(* An idle request owes nothing. *)
LEMMA IdleIsPaid ==
  ASSUME NEW ps PROVE PaidFor(Idle, ps)
  BY IdleIs DEF PaidFor

(* The payment a wizard posts, or has posted, is one that was made. *)
LEMMA WizardStep ==
  ASSUME Types, Types', Paid(ui, req, markets, payments), [Next]_vars
  PROVE  \A u \in Users : ui'[u].pc # "idle" => ui'[u].sig \in DOMAIN payments'
<1> DEFINE Good == \A u \in Users : ui'[u].pc # "idle" => ui'[u].sig \in DOMAIN payments'
<1> SUFFICES Good
  OBVIOUS
<1>t. /\ ui \in [Users -> [pc : {"idle", "post", "wait"}, sig : Nat]]
      /\ payments \in Seq(Payment) /\ payments' \in Seq(Payment)
  BY DEF Types
<1>d. DOMAIN payments \subseteq DOMAIN payments'
  BY PaymentsGrow
<1>p. \A u \in Users : ui[u].pc # "idle" => ui[u].sig \in DOMAIN payments'
  BY <1>d DEF Paid
<1>k. ASSUME \A u \in Users : ui'[u].pc # "idle" => ui'[u] = ui[u] PROVE Good
  BY <1>k, <1>p
<1>u. ASSUME UNCHANGED ui PROVE Good
  BY <1>u, <1>p
<1>e. ASSUME NEW r \in Requests, Ends(r) PROVE Good
  BY <1>e, <1>k, EndsTypes
<1>1. ASSUME NEW u \in Users, Deploy(u) PROVE Good
  <2>1. PICK n : n = Len(payments')
    OBVIOUS
  <2>2. n \in DOMAIN payments'
    BY <1>1, <1>t, <2>1 DEF Deploy
  <2>3. ui' = [ui EXCEPT ![u] = [pc |-> "post", sig |-> n]] \/ ui' = ui
    BY <1>1, <2>1 DEF Deploy
  <2>4. ASSUME ui' = [ui EXCEPT ![u] = [pc |-> "post", sig |-> n]] PROVE Good
    <3>1. ui'[u].sig = n /\ \A w \in Users : w # u => ui'[w] = ui[w]
      BY <2>4, <1>t
    <3> QED
      BY <3>1, <2>2, <1>p
  <2> QED
    BY <2>3, <2>4, <1>u
<1>2. ASSUME NEW u \in Users, NEW r \in Requests, NEW v, Post(u, r, v) PROVE Good
  <2>1. PICK w : w = ui[u]
    OBVIOUS
  <2>2. w.pc = "post" /\ ui' = [ui EXCEPT ![u].pc = "wait"]
    BY <1>2, <2>1 DEF Post
  <2>3. ui'[u].sig = w.sig /\ \A x \in Users : x # u => ui'[x] = ui[x]
    BY <2>1, <2>2, <1>t
  <2> QED
    BY <2>1, <2>2, <2>3, <1>p
<1>3. ASSUME Restart PROVE Good
  <2>1. Wizard.pc = "idle"
    BY DEF Wizard
  <2> QED
    BY <1>3, <2>1, <1>k, <1>t DEF Restart
<1>4. ASSUME NEW r \in Requests, Step(r) \/ ChainFails(r) PROVE Good
  <2>1. UNCHANGED ui \/ Ends(r)
    BY <1>4 DEF Step, PriceRead, NotReady, PaymentRead, ChainStep, ChainFails, Items, List, stops
  <2> QED
    BY <2>1, <1>u, <1>e
<1>5. \/ UNCHANGED ui \/ Restart
      \/ \E u \in Users : Deploy(u)
      \/ \E u \in Users, r \in Requests, v \in Venues : Post(u, r, v)
      \/ \E r \in Requests : Step(r) \/ ChainFails(r)
  BY DEF Next, SmallTransfer, GrowsOld, PostAgain, vars
<1> QED
  BY <1>1, <1>2, <1>3, <1>4, <1>5, <1>u

(* What a step on chain leaves of the markets, and what it adds. *)
LEMMA MarketsStay ==
  ASSUME Types, Types', NEW r \in Requests, OnChain(r)
  PROVE  /\ Len(markets) \in Nat /\ Len(markets') \in Nat
         /\ \A k \in DOMAIN markets :
              /\ k \in DOMAIN markets' /\ markets'[k].sig = markets[k].sig
              /\ markets'[k].user = markets[k].user /\ markets'[k].venue = markets[k].venue
         /\ req[r].pc \notin {"create", "attach"} => Len(markets') = Len(markets)
         /\ req[r].pc \in {"create", "attach"} =>
              /\ Len(markets') = Len(markets) + 1
              /\ markets'[Len(markets')].sig = req[r].sig
              /\ markets'[Len(markets')].user = req[r].user
              /\ markets'[Len(markets')].venue = req[r].venue
<1>t. markets \in Seq(Market) /\ markets' \in Seq(Market)
  BY DEF Types
<1>1. CASE req[r].pc \in {"create", "attach"}
  <2>1. PICK seeded \in BOOLEAN : NewMarket(r, seeded)
    BY <1>1 DEF OnChain
  <2>2. /\ Len(markets') = Len(markets) + 1 /\ Len(markets) \in Nat
        /\ \A k \in DOMAIN markets : markets'[k] = markets[k]
    BY <2>1, NewMarketTypes
  <2>3. markets'[Len(markets')] =
          [sig |-> req[r].sig, user |-> req[r].user, venue |-> req[r].venue, seeded |-> seeded]
    BY <2>1, NewMarketTypes
  <2>4. /\ markets'[Len(markets')].sig = req[r].sig /\ markets'[Len(markets')].user = req[r].user
        /\ markets'[Len(markets')].venue = req[r].venue
    BY <2>3
  <2> QED
    BY <1>1, <1>t, <2>2, <2>4
<1>2. CASE req[r].pc = "pool"
  BY <1>2, <1>t DEF OnChain
<1>3. CASE req[r].pc = "seed"
  <2>1. PICK j : j = req[r].market
    OBVIOUS
  <2>2. markets' = [markets EXCEPT ![j].seeded = TRUE]
    BY <1>3, <2>1 DEF OnChain
  <2>3. DOMAIN markets' = DOMAIN markets
    BY <2>2, <1>t
  <2>4. ASSUME NEW k \in DOMAIN markets
        PROVE  /\ markets'[k].sig = markets[k].sig /\ markets'[k].user = markets[k].user
               /\ markets'[k].venue = markets[k].venue
    <3>1. PICK m \in Market : m = markets[k]
      BY <1>t
    <3>2. markets'[k] = m \/ markets'[k] = [m EXCEPT !.seeded = TRUE]
      BY <2>2, <3>1, <1>t
    <3> QED
      BY <3>1, <3>2 DEF Market
  <2>5. Len(markets') = Len(markets)
    BY <2>3, <1>t
  <2> QED
    BY <1>3, <1>t, <2>3, <2>4, <2>5
<1> QED
  BY <1>1, <1>2, <1>3 DEF OnChain

(* On a remote chain every step keeps requests and markets paid for. *)
LEMMA PayStep ==
  ASSUME ~Local, Types, Types', Paid(ui, req, markets, payments), [Next]_vars
  PROVE  Paid(ui, req, markets, payments)'
<1> DEFINE Good == /\ \A r \in Requests : PaidFor(req'[r], payments')
                   /\ \A k \in DOMAIN markets' : markets'[k].venue # "meteora" =>
                        PaidBy(markets'[k].sig, markets'[k].user, payments')
<1>t. /\ req \in [Requests -> Request] /\ markets \in Seq(Market) /\ payments \in Seq(Payment)
      /\ payments' \in Seq(Payment)
  BY DEF Types
<1>g. \A s \in DOMAIN payments :
        /\ s \in DOMAIN payments' /\ payments'[s].payer = payments[s].payer
        /\ payments'[s].enough = payments[s].enough
  BY PaymentsGrow
<1>s. /\ \A s, user : PaidBy(s, user, payments) => PaidBy(s, user, payments')
      /\ \A q : PaidFor(q, payments) => PaidFor(q, payments')
  BY <1>g, StaysPaid
<1>r. \A r \in Requests : PaidFor(req[r], payments) /\ PaidFor(req[r], payments')
  BY <1>s DEF Paid
<1>m. \A k \in DOMAIN markets :
        markets[k].venue # "meteora" => PaidBy(markets[k].sig, markets[k].user, payments')
  BY <1>s DEF Paid
<1>a. ASSUME NEW r \in Requests, NEW q, PaidFor(q, payments'),
             req' = [req EXCEPT ![r] = q], UNCHANGED markets
      PROVE  Good
  BY <1>a, <1>t, <1>r, <1>m
<1>e. ASSUME NEW r \in Requests, Ends(r), UNCHANGED markets PROVE Good
  BY <1>a, <1>e, IdleIsPaid DEF Ends
<1>u. ASSUME UNCHANGED <<req, markets>> PROVE Good
  BY <1>u, <1>r, <1>m
<1>1. ASSUME NEW u \in Users, Deploy(u) \/ SmallTransfer(u) PROVE Good
  BY <1>1, <1>u DEF Deploy, SmallTransfer
<1>2. ASSUME NEW s, GrowsOld(s) PROVE Good
  BY <1>2, <1>u DEF GrowsOld
<1>p. ASSUME NEW r \in Requests, NEW u, NEW s \in DOMAIN payments \cup {0}, NEW v \in Venues,
             Posted(r, u, s, v), UNCHANGED markets
      PROVE  Good
  <2>1. PICK q : q = [Idle EXCEPT !.pc = "price", !.user = u, !.sig = s, !.venue = v]
    OBVIOUS
  <2>2. q.pc = "price" /\ q.sig = s /\ q.venue = v
    BY <2>1 DEF Idle
  <2>3. PaidFor(q, payments')
    BY <2>2, <1>g DEF PaidFor
  <2>4. req' = [req EXCEPT ![r] = q]
    BY <1>p, <2>1 DEF Posted
  <2> QED
    BY <1>a, <1>p, <2>3, <2>4
<1>4. ASSUME NEW u \in Users, NEW r \in Requests, NEW v \in Venues, Post(u, r, v) PROVE Good
  <2>1. ui[u].sig \in DOMAIN payments
    BY <1>4 DEF Post, Paid
  <2> QED
    BY <1>4, <1>p, <2>1 DEF Post
<1>5. ASSUME NEW u \in Users, NEW r \in Requests, NEW v \in Venues, NEW s, PostAgain(u, r, s, v)
      PROVE  Good
  BY <1>5, <1>p DEF PostAgain
<1>6. ASSUME NEW r \in Requests, PriceRead(r) PROVE Good
  <2>1. PICK q \in Request : q = req[r]
    BY <1>t
  <2>2. PICK x, y : x = [q EXCEPT !.pc = "pool"] /\ y = [q EXCEPT !.pc = "payment", !.prior = listings]
    OBVIOUS
  <2>3. /\ x.pc = "pool" /\ x.venue = q.venue
        /\ y.pc = "payment" /\ y.sig = q.sig /\ y.venue = q.venue
    BY <2>1, <2>2 DEF Request
  <2>4. q.pc = "price" /\ q.sig \in DOMAIN payments' \cup {0}
    BY <1>6, <1>r, <2>1 DEF PriceRead, PaidFor
  <2>5. /\ q.venue = "meteora" => PaidFor(x, payments')
        /\ q.venue # "meteora" /\ q.sig # 0 => PaidFor(y, payments')
    BY <2>3, <2>4 DEF PaidFor
  <2>6. \/ q.venue = "meteora" /\ req' = [req EXCEPT ![r] = x]
        \/ q.venue # "meteora" /\ q.sig # 0 /\ req' = [req EXCEPT ![r] = y]
        \/ Ends(r)
    BY <1>6, <1>t, <2>1, <2>2, <2>4 DEF PriceRead, unused
  <2>7. UNCHANGED markets
    BY <1>6 DEF PriceRead, chain
  <2> QED
    BY <2>5, <2>6, <2>7, <1>a, <1>e
<1>7. ASSUME NEW r \in Requests, NotReady(r) PROVE Good
  BY <1>7, <1>e DEF NotReady, chain
<1>8. ASSUME NEW r \in Requests, PaymentRead(r) PROVE Good
  <2>1. PICK q \in Request : q = req[r]
    BY <1>t
  <2>2. PICK y : y = [q EXCEPT !.pc = "create"]
    OBVIOUS
  <2>3. y.pc = "create" /\ y.sig = q.sig /\ y.venue = q.venue /\ y.user = q.user
    BY <2>1, <2>2 DEF Request
  <2>4. q.pc = "payment" /\ q.venue # "meteora" /\ q.sig \in DOMAIN payments
    BY <1>8, <1>r, <2>1 DEF PaymentRead, PaidFor
  <2>5. \/ PaidBy(q.sig, q.user, payments) /\ req' = [req EXCEPT ![r] = y]
        \/ Ends(r)
    BY <1>8, <1>t, <2>1, <2>2, <2>4 DEF PaymentRead, payment_ok, PaidBy
  <2>6. UNCHANGED markets
    BY <1>8 DEF PaymentRead, chain
  <2>7. PaidBy(q.sig, q.user, payments) => PaidFor(y, payments')
    BY <2>3, <2>4, <1>s DEF PaidFor
  <2> QED
    BY <2>5, <2>6, <2>7, <1>a, <1>e
<1>o. ASSUME NEW r \in Requests, OnChain(r)
      PROVE  \A k \in DOMAIN markets' : markets'[k].venue # "meteora" =>
               PaidBy(markets'[k].sig, markets'[k].user, payments')
  <2> SUFFICES ASSUME NEW k \in DOMAIN markets', markets'[k].venue # "meteora"
               PROVE  PaidBy(markets'[k].sig, markets'[k].user, payments')
    OBVIOUS
  <2>1. CASE k \in DOMAIN markets
    BY <1>o, <2>1, <1>m, MarketsStay
  <2>2. CASE k \notin DOMAIN markets
    <3>1. /\ Len(markets) \in Nat /\ Len(markets') \in Nat
          /\ req[r].pc \notin {"create", "attach"} => Len(markets') = Len(markets)
          /\ req[r].pc \in {"create", "attach"} => Len(markets') = Len(markets) + 1
      BY <1>o, MarketsStay
    <3>2. req[r].pc \in {"create", "attach"} /\ k = Len(markets')
      BY <2>2, <3>1, <1>t
    <3>3. /\ markets'[k].sig = req[r].sig /\ markets'[k].user = req[r].user
          /\ markets'[k].venue = req[r].venue
      BY <1>o, <3>2, MarketsStay
    <3>4. PaidFor(req[r], payments')
      BY <1>r
    <3> QED
      BY <3>2, <3>3, <3>4 DEF PaidFor
  <2> QED
    BY <2>1, <2>2
<1>9. ASSUME NEW r \in Requests, ChainStep(r) PROVE Good
  <2>1. PICK q \in Request : q = req[r]
    BY <1>t
  <2>2. PICK y : y = [q EXCEPT !.pc = after[q.pc],
                        !.market = IF q.pc \in {"create", "attach"} THEN Len(markets') ELSE q.market]
    OBVIOUS
  <2>3. req' = [req EXCEPT ![r] = y] /\ q.pc \in {"create", "pool", "attach", "seed"}
    BY <1>9, <1>t, <2>1, <2>2, AfterIs DEF ChainStep
  <2>4. y.pc = after[q.pc] /\ y.sig = q.sig /\ y.user = q.user /\ y.venue = q.venue
    BY <2>1, <2>2 DEF Request
  <2>5. PaidFor(q, payments')
    BY <2>1, <1>r
  <2>6. PaidFor(y, payments')
    BY <2>3, <2>4, <2>5, AfterIs DEF PaidFor
  <2>7. \A k \in DOMAIN markets' : markets'[k].venue # "meteora" =>
          PaidBy(markets'[k].sig, markets'[k].user, payments')
    BY <1>9, <1>o DEF ChainStep
  <2> QED
    BY <2>3, <2>6, <2>7, <1>t, <1>r
<1>10. ASSUME NEW r \in Requests, ChainFails(r) PROVE Good
  <2>1. req' = [req EXCEPT ![r] = Idle]
    BY <1>10 DEF ChainFails, stops, Ends
  <2>2. \A k \in DOMAIN markets' : markets'[k].venue # "meteora" =>
          PaidBy(markets'[k].sig, markets'[k].user, payments')
    BY <1>10, <1>o, <1>m DEF ChainFails
  <2> QED
    BY <2>1, <2>2, <1>t, <1>r, IdleIsPaid
<1>11. ASSUME NEW r \in Requests, Items(r) PROVE Good
  <2>1. PICK q \in Request : q = req[r]
    BY <1>t
  <2>2. PICK y : y = [q EXCEPT !.pc = "list"]
    OBVIOUS
  <2>3. y.pc = "list" /\ y.sig = q.sig /\ y.user = q.user /\ y.venue = q.venue
    BY <2>1, <2>2 DEF Request
  <2>4. q.pc = "items" /\ PaidFor(q, payments')
    BY <1>11, <2>1, <1>r DEF Items
  <2>5. PaidFor(y, payments')
    BY <2>3, <2>4 DEF PaidFor
  <2>6. req' = [req EXCEPT ![r] = y] /\ UNCHANGED markets
    BY <1>11, <1>t, <2>1, <2>2 DEF Items, chain
  <2> QED
    BY <1>a, <2>5, <2>6
<1>12. ASSUME NEW r \in Requests, List(r) PROVE Good
  BY <1>12, <1>e DEF List, chain
<1>13. ASSUME Restart PROVE Good
  BY <1>13, <1>m, IdleIsPaid DEF Restart, chain
<1>14. ASSUME UNCHANGED vars PROVE Good
  BY <1>14, <1>u DEF vars
<1> HIDE DEF Good
<1>15. Good
  <2>1. ASSUME NEW u \in Users, NEW r \in Requests, NEW v \in Venues,
               Post(u, r, v) \/ \E s \in 0..MaxPayments : PostAgain(u, r, s, v)
        PROVE  Good
    BY <2>1, <1>4, <1>5
  <2>2. ASSUME NEW r \in Requests, Step(r) \/ ChainFails(r) PROVE Good
    BY <2>2, <1>6, <1>7, <1>8, <1>9, <1>10, <1>11, <1>12 DEF Step
  <2> QED
    BY <1>1, <1>2, <2>1, <2>2, <1>13, <1>14 DEF Next
<1> QED
  BY <1>15, WizardStep DEF Good, Paid

-----------------------------------------------------------------------------
(* One launch at a time.                                                   *)

(* A request moves on while the others rest or leave the chain as it is.   *)
LEMMA SerialMove ==
  ASSUME Types, Types', Serial(req, markets, listings), Tracked(req, markets, listings), Alone(req'),
         NEW r \in Requests, NEW q, req' = [req EXCEPT ![r] = q], UNCHANGED listings,
         \A k \in DOMAIN markets : k \in DOMAIN markets' /\ markets'[k].venue = markets[k].venue,
         Len(markets') = Len(markets) \/ req[r].pc # "idle",
         Unlisted(q) => q.market = Len(markets') /\ markets'[Len(markets')].venue = q.venue,
         q.pc \in Checked /\ q.venue # "meteora" => q.sig \notin Used(listings)
  PROVE  Serial(req, markets, listings)'
<1>t. req \in [Requests -> Request] /\ markets \in Seq(Market)
  BY DEF Types
<1>1. req'[r] = q /\ \A j \in Requests : j # r => req'[j] = req[j]
  BY <1>t
<1>2. ASSUME NEW j \in Requests, Unlisted(req'[j])
      PROVE  req'[j].market = Len(markets') /\ markets'[Len(markets')].venue = req'[j].venue
  <2>1. CASE j = r
    BY <1>1, <1>2, <2>1
  <2>2. CASE j # r
    <3>1. req'[j] = req[j] /\ req[j].pc # "idle"
      BY <1>1, <1>2, <2>2 DEF Unlisted
    <3>2. req[r].pc = "idle"
      BY <2>2, <3>1 DEF Serial, Alone
    <3>3. /\ req[j].market = Len(markets) /\ markets[Len(markets)].venue = req[j].venue
          /\ req[j].market \in DOMAIN markets
      BY <1>2, <3>1 DEF Serial, Tracked, OwnsMarket
    <3> QED
      BY <3>1, <3>2, <3>3
  <2> QED
    BY <2>1, <2>2
<1>3. \A j \in Requests :
        req'[j].pc \in Checked /\ req'[j].venue # "meteora" => req'[j].sig \notin Used(listings')
  BY <1>1 DEF Serial
<1>4. \A j, k \in DOMAIN listings' \ {0} :
        j < k /\ markets'[k].venue # "meteora" => listings'[j].sig # listings'[k].sig
  BY DEF Serial, Tracked
<1> QED
  BY <1>2, <1>3, <1>4 DEF Serial

(* A launch ends in a listing: its payment was on file for none. *)
LEMMA SerialList ==
  ASSUME Types, Types', Serial(req, markets, listings), Tracked(req, markets, listings),
         Paid(ui, req, markets, payments), Alone(req'), NEW r \in Requests, List(r)
  PROVE  Serial(req, markets, listings)'
<1>t. /\ req \in [Requests -> Request] /\ markets \in Seq(Market) /\ listings \in Listings
      /\ payments \in Seq(Payment)
  BY DEF Types
<1>1. PICK q \in Request : q = req[r]
  BY <1>t
<1>2. q.pc = "list" /\ req' = [req EXCEPT ![r] = Idle] /\ UNCHANGED markets
  BY <1>1 DEF List, Ends, chain
<1>3. PICK e : e = [sig |-> q.sig, user |-> q.user, edited |-> FALSE]
  OBVIOUS
<1>4. PICK d \in Listings : d = [k \in {q.market} |-> e]
  <2>1. e \in Listing /\ q.market \in Nat
    BY <1>1, <1>3 DEF Listing, Request
  <2> QED
    BY <2>1, OneListing
<1>5. listings' = Over(d, listings)
  BY <1>1, <1>3, <1>4 DEF List, Entry, listings_now
<1>6. /\ DOMAIN listings' = DOMAIN listings \cup {q.market}
      /\ listings'[q.market].sig = q.sig
      /\ \A k \in DOMAIN listings : k # q.market => listings'[k] = listings[k]
  <2>1. DOMAIN d = {q.market} /\ d[q.market].sig = q.sig
    BY <1>3, <1>4
  <2>2. PICK o : o = Over(d, listings)
    OBVIOUS
  <2>3. /\ DOMAIN o = DOMAIN d \cup DOMAIN listings
        /\ \A k \in DOMAIN d : o[k] = d[k]
        /\ \A k \in DOMAIN listings \ DOMAIN d : o[k] = listings[k]
    BY <2>2, <1>t, OverIs
  <2>4. listings' = o
    BY <1>5, <2>2
  <2> QED
    BY <2>1, <2>3, <2>4
<1>7. /\ q.market = Len(markets) /\ markets[q.market].venue = q.venue
      /\ q.market \in DOMAIN markets /\ q.market \notin DOMAIN listings
  <2>1. Unlisted(q) /\ OwnsMarket(q, markets, listings)
    BY <1>1, <1>2 DEF Tracked, Unlisted
  <2> QED
    BY <1>1, <2>1 DEF Serial, OwnsMarket
<1>8. q.venue # "meteora" => q.sig \notin Used(listings) /\ q.sig # 0
  <2>1. q.venue # "meteora" => q.sig \in DOMAIN payments
    BY <1>1, <1>2 DEF Paid, PaidFor, PaidBy
  <2>2. q.venue # "meteora" => q.sig \notin Used(listings)
    BY <1>1, <1>2 DEF Serial, Checked
  <2> QED
    BY <2>1, <2>2, <1>t
<1>9. \A j \in DOMAIN listings : listings[j].sig \in Used(listings) \cup {0}
  BY DEF Used
<1>10. ASSUME NEW j \in DOMAIN listings' \ {0}, NEW k \in DOMAIN listings' \ {0},
              j < k, markets[k].venue # "meteora"
       PROVE  listings'[j].sig # listings'[k].sig
  <2>1. \A i \in DOMAIN listings \ {0} : i \in DOMAIN markets
    BY DEF Tracked
  <2>2. Len(markets) \in Nat /\ DOMAIN markets = 1..Len(markets)
    BY <1>t
  <2>3. j # q.market
    BY <1>6, <1>7, <1>10, <2>1, <2>2
  <2>4. j \in DOMAIN listings /\ listings'[j] = listings[j]
    BY <1>6, <2>3
  <2>5. CASE k = q.market
    BY <1>6, <1>7, <1>8, <1>9, <1>10, <2>4, <2>5
  <2>6. CASE k # q.market
    <3>1. k \in DOMAIN listings /\ listings'[k] = listings[k]
      BY <1>6, <2>6
    <3> QED
      BY <1>10, <2>4, <3>1 DEF Serial
  <2> QED
    BY <2>5, <2>6
<1>11. /\ \A j \in Requests : req'[j].pc = "idle"
  BY <1>1, <1>2, <1>t, IdleIs DEF Serial, Alone
<1> QED
  BY <1>2, <1>10, <1>11 DEF Serial, Unlisted, Checked

(* Launches one at a time never list a market of the internal curve with a *)
(* payment that was on file, fail and crash as they may.                   *)
LEMMA SerialStep ==
  ASSUME Types, Types', Serial(req, markets, listings), Tracked(req, markets, listings),
         ~Local, Paid(ui, req, markets, payments), [Next]_vars, Alone(req')
  PROVE  Serial(req, markets, listings)'
<1> DEFINE Good == Serial(req', markets', listings')
<1> SUFFICES Good
  OBVIOUS
<1>t. /\ req \in [Requests -> Request] /\ markets \in Seq(Market) /\ listings \in Listings
  BY DEF Types
<1>p. \A r \in Requests : PaidFor(req[r], payments)
  BY DEF Paid
<1>c. \A r \in Requests :
        req[r].pc \in Checked /\ req[r].venue # "meteora" => req[r].sig \notin Used(listings)
  BY DEF Serial
<1>a. ASSUME NEW r \in Requests, NEW q, UNCHANGED <<markets, listings>>,
             req' = [req EXCEPT ![r] = q],
             Unlisted(q) => Unlisted(req[r]) /\ q.market = req[r].market /\ q.venue = req[r].venue,
             q.pc \in Checked /\ q.venue # "meteora" => q.sig \notin Used(listings)
      PROVE  Good
  <2>1. Unlisted(q) => q.market = Len(markets') /\ markets'[Len(markets')].venue = q.venue
    BY <1>a DEF Serial
  <2> QED
    BY <1>a, <2>1, SerialMove
<1>i. ~Unlisted(Idle) /\ Idle.pc \notin Checked
  BY IdleIs DEF Unlisted, Checked
<1>e. ASSUME NEW r \in Requests, Ends(r), UNCHANGED <<markets, listings>> PROVE Good
  BY <1>a, <1>e, <1>i DEF Ends
<1>u. ASSUME UNCHANGED <<req, markets, listings>> PROVE Good
  BY <1>u DEF Serial
<1>1. ASSUME NEW u \in Users, Deploy(u) \/ SmallTransfer(u) PROVE Good
  BY <1>1, <1>u DEF Deploy, SmallTransfer
<1>2. ASSUME NEW s, GrowsOld(s) PROVE Good
  BY <1>2, <1>u DEF GrowsOld
<1>q. ASSUME NEW r \in Requests, NEW u, NEW s, NEW v, Posted(r, u, s, v),
             UNCHANGED <<markets, listings>>
      PROVE  Good
  <2>1. PICK q : q = [Idle EXCEPT !.pc = "price", !.user = u, !.sig = s, !.venue = v]
    OBVIOUS
  <2>2. req' = [req EXCEPT ![r] = q] /\ q.pc = "price"
    BY <1>q, <2>1 DEF Posted, Idle
  <2>3. ~Unlisted(q) /\ q.pc \notin Checked
    BY <2>2 DEF Unlisted, Checked
  <2> QED
    BY <1>a, <1>q, <2>2, <2>3
<1>4. ASSUME NEW u, NEW r \in Requests, NEW v, Post(u, r, v) PROVE Good
  BY <1>4, <1>q DEF Post
<1>5. ASSUME NEW u, NEW r \in Requests, NEW v, NEW s, PostAgain(u, r, s, v) PROVE Good
  BY <1>5, <1>q DEF PostAgain
<1>6. ASSUME NEW r \in Requests, PriceRead(r) PROVE Good
  <2>1. PICK q \in Request : q = req[r]
    BY <1>t
  <2>2. PICK x, y : x = [q EXCEPT !.pc = "pool"] /\ y = [q EXCEPT !.pc = "payment", !.prior = listings]
    OBVIOUS
  <2>3. x.pc = "pool" /\ y.pc = "payment" /\ y.sig = q.sig
    BY <2>1, <2>2 DEF Request
  <2>4. \/ req' = [req EXCEPT ![r] = x]
        \/ q.sig \notin Used(listings) /\ req' = [req EXCEPT ![r] = y]
        \/ Ends(r)
    BY <1>6, <1>t, <2>1, <2>2 DEF PriceRead, unused
  <2>5. UNCHANGED <<markets, listings>>
    BY <1>6 DEF PriceRead, chain
  <2>6. ~Unlisted(x) /\ ~Unlisted(y) /\ x.pc \notin Checked
    BY <2>3 DEF Unlisted, Checked
  <2> QED
    BY <2>3, <2>4, <2>5, <2>6, <1>a, <1>e
<1>7. ASSUME NEW r \in Requests, NotReady(r) PROVE Good
  BY <1>7, <1>e DEF NotReady, chain
<1>8. ASSUME NEW r \in Requests, PaymentRead(r) PROVE Good
  <2>1. PICK q \in Request : q = req[r]
    BY <1>t
  <2>2. PICK y : y = [q EXCEPT !.pc = "create"]
    OBVIOUS
  <2>3. y.pc = "create" /\ y.sig = q.sig /\ y.venue = q.venue
    BY <2>1, <2>2 DEF Request
  <2>4. q.pc = "payment"
    BY <1>8, <2>1 DEF PaymentRead
  <2>5. \/ req' = [req EXCEPT ![r] = y]
        \/ Ends(r)
    BY <1>8, <1>t, <2>1, <2>2 DEF PaymentRead
  <2>6. UNCHANGED <<markets, listings>>
    BY <1>8 DEF PaymentRead, chain
  <2>7. ~Unlisted(y) /\ (y.venue # "meteora" => y.sig \notin Used(listings))
    BY <2>1, <2>3, <2>4, <1>c DEF Unlisted, Checked
  <2> QED
    BY <2>5, <2>6, <2>7, <1>a, <1>e
<1>9. ASSUME NEW r \in Requests, ChainStep(r) PROVE Good
  <2>1. PICK q \in Request : q = req[r]
    BY <1>t
  <2>2. PICK y : y = [q EXCEPT !.pc = after[q.pc],
                        !.market = IF q.pc \in {"create", "attach"} THEN Len(markets') ELSE q.market]
    OBVIOUS
  <2>3. /\ req' = [req EXCEPT ![r] = y] /\ UNCHANGED listings /\ OnChain(r)
        /\ q.pc \in {"create", "pool", "attach", "seed"}
    BY <1>9, <1>t, <2>1, <2>2, AfterIs DEF ChainStep
  <2>4. /\ y.pc = after[q.pc] /\ y.sig = q.sig /\ y.venue = q.venue
        /\ y.market = IF q.pc \in {"create", "attach"} THEN Len(markets') ELSE q.market
    BY <2>1, <2>2 DEF Request
  <2>5. \A k \in DOMAIN markets : k \in DOMAIN markets' /\ markets'[k].venue = markets[k].venue
    BY <2>3, MarketsStay
  <2>6. Unlisted(y) => y.market = Len(markets') /\ markets'[Len(markets')].venue = y.venue
    <3>1. CASE q.pc \in {"create", "attach"}
      BY <2>1, <2>3, <2>4, <3>1, MarketsStay
    <3>2. CASE q.pc = "seed"
      <4>1. Unlisted(q)
        BY <3>2 DEF Unlisted
      <4>2. /\ q.market = Len(markets) /\ markets[Len(markets)].venue = q.venue
            /\ q.market \in DOMAIN markets
        BY <2>1, <4>1 DEF Serial, Tracked, OwnsMarket
      <4>3. Len(markets') = Len(markets)
        BY <2>1, <2>3, <3>2, MarketsStay
      <4> QED
        BY <2>4, <2>5, <3>2, <4>2, <4>3
    <3>3. CASE q.pc = "pool"
      BY <2>4, <3>3, AfterIs DEF Unlisted
    <3> QED
      BY <2>3, <3>1, <3>2, <3>3
  <2>7. y.pc \in Checked /\ y.venue # "meteora" => y.sig \notin Used(listings)
    <3>1. q.venue # "meteora" => q.pc = "create"
      BY <2>1, <2>3, <1>p DEF PaidFor
    <3> QED
      BY <2>1, <2>4, <3>1, <1>c DEF Checked
  <2>8. req[r].pc # "idle"
    BY <2>1, <2>3
  <2> QED
    BY <2>3, <2>5, <2>6, <2>7, <2>8, SerialMove
<1>10. ASSUME NEW r \in Requests, ChainFails(r) PROVE Good
  <2>1. req' = [req EXCEPT ![r] = Idle] /\ UNCHANGED listings /\ req[r].pc # "idle"
    BY <1>10, AfterIs DEF ChainFails, stops, Ends
  <2>2. \A k \in DOMAIN markets : k \in DOMAIN markets' /\ markets'[k].venue = markets[k].venue
    BY <1>10, MarketsStay DEF ChainFails
  <2> QED
    BY <2>1, <2>2, <1>i, SerialMove
<1>11. ASSUME NEW r \in Requests, Items(r) PROVE Good
  <2>1. PICK q \in Request : q = req[r]
    BY <1>t
  <2>2. PICK y : y = [q EXCEPT !.pc = "list"]
    OBVIOUS
  <2>3. y.pc = "list" /\ y.market = q.market /\ y.venue = q.venue /\ y.sig = q.sig
    BY <2>1, <2>2 DEF Request
  <2>4. /\ req' = [req EXCEPT ![r] = y] /\ UNCHANGED <<markets, listings>>
        /\ q.pc = "items"
    BY <1>11, <1>t, <2>1, <2>2 DEF Items, chain
  <2>5. Unlisted(q) /\ (y.venue # "meteora" => y.sig \notin Used(listings))
    BY <2>1, <2>3, <2>4, <1>c DEF Unlisted, Checked
  <2> QED
    BY <2>1, <2>3, <2>4, <2>5, <1>a
<1>12. ASSUME NEW r \in Requests, List(r) PROVE Good
  BY <1>12, SerialList
<1>13. ASSUME Restart PROVE Good
  <2>1. \A r \in Requests : req'[r] = Idle
    BY <1>13 DEF Restart
  <2>2. listings' = merged(listings) /\ UNCHANGED markets
    BY <1>13 DEF Restart, chain
  <2>3. /\ DOMAIN listings' = DOMAIN listings \cup {0}
        /\ \A k \in DOMAIN listings : listings'[k] = listings[k]
    BY <2>2, <1>t, OverIs, BundledIs DEF merged
  <2>4. \A j, k \in DOMAIN listings' \ {0} :
          j < k /\ markets'[k].venue # "meteora" => listings'[j].sig # listings'[k].sig
    BY <2>2, <2>3 DEF Serial
  <2> QED
    BY <2>1, <2>4, <1>i DEF Serial
<1>14. CASE UNCHANGED vars
  BY <1>14, <1>u DEF vars
<1> HIDE DEF Good
<1>15. ASSUME NEW r \in Requests, Step(r) \/ ChainFails(r) PROVE Good
  BY <1>15, <1>6, <1>7, <1>8, <1>9, <1>10, <1>11, <1>12 DEF Step
<1> QED
  BY <1>1, <1>2, <1>4, <1>5, <1>13, <1>14, <1>15 DEF Next

(* A request moves on, and nothing is listed or launched. *)
LEMMA FreshMove ==
  ASSUME Types, Fresh(req, markets, listings), NEW r \in Requests, NEW q,
         req' = [req EXCEPT ![r] = q], UNCHANGED <<markets, listings>>,
         Unlisted(req[r]) => Unlisted(q) /\ q.market = req[r].market
  PROVE  Fresh(req, markets, listings)'
<1>1. req'[r] = q /\ \A j \in Requests : j # r => req'[j] = req[j]
  BY DEF Types
<1>2. ASSUME NEW k \in DOMAIN markets, markets[k].sig \notin Used(listings) \cup {0}
      PROVE  \E j \in Requests : Unlisted(req'[j]) /\ req'[j].market = k
  <2>1. PICK j \in Requests : Unlisted(req[j]) /\ req[j].market = k
    BY <1>2 DEF Fresh
  <2>2. Unlisted(req'[j]) /\ req'[j].market = k
    BY <2>1, <1>1
  <2> QED
    BY <2>2
<1> QED
  BY <1>2 DEF Fresh

(* Launches one at a time, none of which fails, launch no market of the    *)
(* internal curve with a payment another was launched with before.         *)
LEMMA FreshStep ==
  ASSUME Types, Types', Serial(req, markets, listings), Tracked(req, markets, listings),
         ~Local, Paid(ui, req, markets, payments), Fresh(req, markets, listings),
         [Next]_vars, Alone(req'), UNCHANGED faults
  PROVE  Fresh(req, markets, listings)'
<1> DEFINE Good == Fresh(req', markets', listings')
<1> SUFFICES Good
  OBVIOUS
<1>t. /\ req \in [Requests -> Request] /\ markets \in Seq(Market) /\ listings \in Listings
      /\ markets' \in Seq(Market) /\ faults \in Nat /\ payments \in Seq(Payment)
  BY DEF Types
<1>f. ~Fault
  BY <1>t DEF Fault
<1>p. \A r \in Requests : PaidFor(req[r], payments)
  BY DEF Paid
<1>l. \A q, r \in Requests : q = r \/ req[q].pc = "idle" \/ req[r].pc = "idle"
  BY DEF Serial, Alone
<1>a. ASSUME NEW r \in Requests, NEW q, UNCHANGED <<markets, listings>>,
             req' = [req EXCEPT ![r] = q],
             Unlisted(req[r]) => Unlisted(q) /\ q.market = req[r].market
      PROVE  Good
  BY <1>a, FreshMove
<1>e. ASSUME NEW r \in Requests, Ends(r), UNCHANGED <<markets, listings>>, ~Unlisted(req[r])
      PROVE  Good
  BY <1>a, <1>e DEF Ends
<1>u. ASSUME UNCHANGED <<req, markets, listings>> PROVE Good
  BY <1>u DEF Fresh
<1>1. ASSUME NEW u \in Users, Deploy(u) \/ SmallTransfer(u) PROVE Good
  BY <1>1, <1>u DEF Deploy, SmallTransfer
<1>2. ASSUME NEW s, GrowsOld(s) PROVE Good
  BY <1>2, <1>u DEF GrowsOld
<1>4. ASSUME NEW u, NEW r \in Requests, NEW v, Post(u, r, v) PROVE Good
  BY <1>4, <1>a DEF Post, Posted, Unlisted
<1>5. ASSUME NEW u, NEW r \in Requests, NEW v, NEW s, PostAgain(u, r, s, v) PROVE Good
  BY <1>5, <1>a DEF PostAgain, Posted, Unlisted
<1>6. ASSUME NEW r \in Requests, PriceRead(r) PROVE Good
  <2>1. UNCHANGED <<markets, listings>> /\ ~Unlisted(req[r])
    BY <1>6 DEF PriceRead, chain, Unlisted
  <2>2. Ends(r) \/ \E q : req' = [req EXCEPT ![r] = q]
    BY <1>6 DEF PriceRead
  <2> QED
    BY <2>1, <2>2, <1>a, <1>e
<1>7. ASSUME NEW r \in Requests, NotReady(r) PROVE Good
  BY <1>7, <1>e DEF NotReady, chain, Unlisted
<1>8. ASSUME NEW r \in Requests, PaymentRead(r) PROVE Good
  <2>1. UNCHANGED <<markets, listings>> /\ ~Unlisted(req[r])
    BY <1>8 DEF PaymentRead, chain, Unlisted
  <2>2. Ends(r) \/ \E q : req' = [req EXCEPT ![r] = q]
    BY <1>8 DEF PaymentRead
  <2> QED
    BY <2>1, <2>2, <1>a, <1>e
<1>9. ASSUME NEW r \in Requests, ChainStep(r) PROVE Good
  <2>1. PICK q \in Request : q = req[r]
    BY <1>t
  <2>2. PICK y : y = [q EXCEPT !.pc = after[q.pc],
                        !.market = IF q.pc \in {"create", "attach"} THEN Len(markets') ELSE q.market]
    OBVIOUS
  <2>3. /\ req' = [req EXCEPT ![r] = y] /\ UNCHANGED listings /\ OnChain(r)
        /\ q.pc \in {"create", "pool", "attach", "seed"}
    BY <1>9, <1>t, <2>1, <2>2, AfterIs DEF ChainStep
  <2>4. /\ y.pc = after[q.pc]
        /\ y.market = IF q.pc \in {"create", "attach"} THEN Len(markets') ELSE q.market
    BY <2>1, <2>2 DEF Request
  <2>5. /\ Len(markets) \in Nat /\ Len(markets') \in Nat
        /\ \A k \in DOMAIN markets :
             /\ k \in DOMAIN markets' /\ markets'[k].sig = markets[k].sig
             /\ markets'[k].venue = markets[k].venue
        /\ q.pc \notin {"create", "attach"} => Len(markets') = Len(markets)
        /\ q.pc \in {"create", "attach"} =>
             /\ Len(markets') = Len(markets) + 1
             /\ markets'[Len(markets')].sig = q.sig
             /\ markets'[Len(markets')].venue = q.venue
    BY <2>1, <2>3, MarketsStay
  <2>6. \A j \in Requests : j # r => req[j].pc = "idle" /\ ~Unlisted(req[j])
    BY <1>l, <2>1, <2>3 DEF Unlisted
  <2>7. req'[r] = y
    BY <1>t, <2>3
  <2>8. ASSUME NEW k \in DOMAIN markets
        PROVE  \/ markets[k].sig \in Used(listings) \cup {0}
               \/ q.pc = "seed" /\ q.market = k
    <3>1. CASE markets[k].sig \in Used(listings) \cup {0}
      BY <3>1
    <3>2. CASE ~(markets[k].sig \in Used(listings) \cup {0})
      <4>1. PICK j \in Requests : Unlisted(req[j]) /\ req[j].market = k
        BY <3>2 DEF Fresh
      <4> QED
        BY <4>1, <2>1, <2>3, <2>6 DEF Unlisted
    <3> QED
      BY <3>1, <3>2
  <2>9. ASSUME NEW k \in DOMAIN markets'
        PROVE  \/ markets'[k].sig \in Used(listings') \cup {0}
               \/ \E j \in Requests : Unlisted(req'[j]) /\ req'[j].market = k
    <3>1. CASE k \in DOMAIN markets
      <4>1. q.pc = "seed" /\ q.market = k => Unlisted(req'[r]) /\ req'[r].market = k
        BY <2>4, <2>7, AfterIs DEF Unlisted
      <4> QED
        BY <2>3, <2>5, <2>8, <3>1, <4>1
    <3>2. CASE k \notin DOMAIN markets
      <4>1. q.pc \in {"create", "attach"} /\ k = Len(markets')
        BY <2>5, <3>2, <1>t
      <4>2. Unlisted(req'[r]) /\ req'[r].market = k
        BY <2>4, <2>7, <4>1, AfterIs DEF Unlisted
      <4> QED
        BY <4>2
    <3> QED
      BY <3>1, <3>2
  <2>10. ASSUME NEW j \in DOMAIN markets', NEW k \in DOMAIN markets',
                j < k, markets'[k].venue # "meteora"
         PROVE  markets'[j].sig # markets'[k].sig
    <3>1. CASE k \in DOMAIN markets
      <4>1. j \in DOMAIN markets
        BY <2>10, <3>1, <1>t
      <4> QED
        BY <2>5, <2>10, <3>1, <4>1 DEF Fresh
    <3>2. CASE k \notin DOMAIN markets
      <4>1. q.pc \in {"create", "attach"} /\ k = Len(markets')
        BY <2>5, <3>2, <1>t
      <4>2. q.venue # "meteora" /\ PaidFor(q, payments)
        BY <2>1, <2>5, <2>10, <4>1, <1>p
      <4>3. q.pc = "create" /\ q.sig \in DOMAIN payments
        BY <4>1, <4>2 DEF PaidFor, PaidBy
      <4>4. q.sig \notin Used(listings) \cup {0}
        <5>1. q.sig \notin Used(listings)
          BY <2>1, <4>2, <4>3 DEF Serial, Checked
        <5> QED
          BY <4>3, <5>1, <1>t
      <4>5. j \in DOMAIN markets
        BY <2>5, <2>10, <4>1, <1>t
      <4>6. markets[j].sig \in Used(listings) \cup {0}
        BY <2>8, <4>3, <4>5
      <4> QED
        BY <2>5, <4>1, <4>4, <4>5, <4>6
    <3> QED
      BY <3>1, <3>2
  <2> QED
    BY <2>9, <2>10 DEF Fresh
<1>10. ASSUME NEW r \in Requests PROVE ~ChainFails(r)
  BY <1>f DEF ChainFails
<1>11. ASSUME NEW r \in Requests, Items(r) PROVE Good
  <2>1. PICK q \in Request : q = req[r]
    BY <1>t
  <2>2. PICK y : y = [q EXCEPT !.pc = "list"]
    OBVIOUS
  <2>3. y.pc = "list" /\ y.market = q.market
    BY <2>1, <2>2 DEF Request
  <2>4. req' = [req EXCEPT ![r] = y] /\ UNCHANGED <<markets, listings>>
    BY <1>11, <1>t, <2>1, <2>2 DEF Items, chain
  <2>5. Unlisted(y)
    BY <2>3 DEF Unlisted
  <2> QED
    BY <2>1, <2>3, <2>4, <2>5, <1>a
<1>12. ASSUME NEW r \in Requests, List(r) PROVE Good
  <2>1. PICK q \in Request : q = req[r]
    BY <1>t
  <2>2. q.pc = "list" /\ req' = [req EXCEPT ![r] = Idle] /\ UNCHANGED markets
    BY <1>12, <2>1 DEF List, Ends, chain
  <2>3. PICK e : e = [sig |-> q.sig, user |-> q.user, edited |-> FALSE]
    OBVIOUS
  <2>4. PICK d \in Listings : d = [k \in {q.market} |-> e]
    <3>1. e \in Listing /\ q.market \in Nat
      BY <2>1, <2>3 DEF Listing, Request
    <3> QED
      BY <3>1, OneListing
  <2>5. listings' = Over(d, listings)
    BY <1>12, <2>1, <2>3, <2>4 DEF List, Entry, listings_now
  <2>6. q.market \in DOMAIN listings' /\ listings'[q.market] = e
    <3>1. q.market \in DOMAIN d /\ d[q.market] = e
      BY <2>4
    <3> QED
      BY <2>5, <3>1, <1>t, OverIs
  <2>7. markets[q.market].sig = q.sig
    <3>1. Unlisted(q) /\ OwnsMarket(q, markets, listings)
      BY <2>1, <2>2 DEF Tracked, Unlisted
    <3> QED
      BY <3>1 DEF OwnsMarket
  <2>8. q.sig \in Used(listings') \cup {0}
    BY <2>3, <2>6 DEF Used
  <2>9. Used(listings) \subseteq Used(listings')
    BY ListStep, UsedGrows DEF KeepsListings
  <2>10. \A j \in Requests : j # r => ~Unlisted(req[j])
    BY <1>l, <2>1, <2>2 DEF Unlisted
  <2>11. ASSUME NEW k \in DOMAIN markets PROVE markets[k].sig \in Used(listings') \cup {0}
    <3>1. CASE markets[k].sig \in Used(listings) \cup {0}
      BY <3>1, <2>9
    <3>2. CASE ~(markets[k].sig \in Used(listings) \cup {0})
      <4>1. PICK j \in Requests : Unlisted(req[j]) /\ req[j].market = k
        BY <3>2 DEF Fresh
      <4> QED
        BY <4>1, <2>1, <2>7, <2>8, <2>10
    <3> QED
      BY <3>1, <3>2
  <2> QED
    BY <2>2, <2>11 DEF Fresh
<1>13. ~Restart
  BY <1>f DEF Restart
<1>14. CASE UNCHANGED vars
  BY <1>14, <1>u DEF vars
<1> HIDE DEF Good
<1>15. ASSUME NEW r \in Requests, Step(r) \/ ChainFails(r) PROVE Good
  BY <1>15, <1>6, <1>7, <1>8, <1>9, <1>10, <1>11, <1>12 DEF Step
<1> QED
  BY <1>1, <1>2, <1>4, <1>5, <1>13, <1>14, <1>15 DEF Next

-----------------------------------------------------------------------------
(* The composition.                                                        *)

(* A launch that fails has used up a fault. *)
LEMMA FaultsFall ==
  ASSUME Types, [Next]_vars, faults' = Faults
  PROVE  UNCHANGED faults
<1>1. UNCHANGED faults \/ Fault
  BY DEF Next, Step, Deploy, SmallTransfer, GrowsOld, Post, PostAgain, PriceRead, NotReady,
         PaymentRead, ChainStep, ChainFails, Items, List, Restart, vars, chain
<1> QED
  BY <1>1, LaunchAssumption DEF Fault, Types

(* Nothing is under way, paid or launched at the start. *)
LEMMA PaymentsInit ==
  ASSUME Init
  PROVE  /\ Paid(ui, req, markets, payments)
         /\ Serial(req, markets, listings) /\ Fresh(req, markets, listings)
<1>1. /\ \A u \in Users : ui[u].pc = "idle"
      /\ \A r \in Requests : req[r] = Idle /\ req[r].pc = "idle"
      /\ DOMAIN markets = {} /\ DOMAIN listings \subseteq {0}
  BY IdleIs, BundledIs DEF Init, Wizard
<1>2. Paid(ui, req, markets, payments)
  BY <1>1, IdleIsPaid DEF Paid
<1>3. Serial(req, markets, listings)
  BY <1>1 DEF Serial, Alone, Unlisted, Checked
<1>4. Fresh(req, markets, listings)
  BY <1>1 DEF Fresh
<1> QED
  BY <1>2, <1>3, <1>4

(* Every step of the composition keeps what is known of payments. *)
LEMMA PaymentsStep ==
  ASSUME ~Local, PaymentsInv, [LaunchesNext]_<<part, vars, escrowVars>>
  PROVE  PaymentsInv'
<1>1. UNCHANGED part
  BY DEF LaunchesNext
<1>2. ASSUME part # "local" PROVE [Next]_vars
  BY <1>2 DEF LaunchesNext
<1>3. ASSUME part # "local"
      PROVE  Types' /\ Tracked(req, markets, listings)' /\ Paid(ui, req, markets, payments)'
  <2>1. Types /\ Tracked(req, markets, listings) /\ Paid(ui, req, markets, payments)
    BY <1>3 DEF PaymentsInv, ListInv, PayInv
  <2>2. Types'
    BY <1>2, <1>3, <2>1, TypesStep
  <2>3. Tracked(req, markets, listings)'
    BY <1>2, <1>3, <2>1, <2>2, ListStep
  <2>4. Paid(ui, req, markets, payments)'
    BY <1>2, <1>3, <2>1, <2>2, PayStep
  <2> QED
    BY <2>2, <2>3, <2>4
<1>4. ASSUME part = "serial"
      PROVE  /\ Serial(req, markets, listings)'
             /\ faults' = Faults => Fresh(req, markets, listings)'
  <2>1. part # "local"
    BY <1>4
  <2>2. /\ Types /\ Tracked(req, markets, listings) /\ Paid(ui, req, markets, payments)
        /\ Serial(req, markets, listings)
    BY <2>1, <1>4 DEF PaymentsInv, ListInv, PayInv
  <2>3. [Next]_vars /\ Types'
    BY <2>1, <1>2, <1>3
  <2>4. Alone(req') \/ UNCHANGED vars
    BY <1>4 DEF LaunchesNext
  <2>5. Alone(req')
    BY <2>2, <2>4 DEF vars, Serial, Alone
  <2>6. Serial(req, markets, listings)'
    BY <2>2, <2>3, <2>5, SerialStep
  <2>7. ASSUME faults' = Faults PROVE Fresh(req, markets, listings)'
    <3>1. UNCHANGED faults
      BY <2>2, <2>3, <2>7, FaultsFall
    <3>2. Fresh(req, markets, listings)
      BY <1>4, <2>7, <3>1 DEF PaymentsInv
    <3> QED
      BY <2>2, <2>3, <2>5, <3>1, <3>2, FreshStep
  <2> QED
    BY <2>6, <2>7
<1> QED
  BY <1>1, <1>3, <1>4 DEF PaymentsInv, ListInv, PayInv

(* PaymentsHold: on a remote chain every market of the internal curve was  *)
(* paid for by its launcher however launches overlap, are sent again, fail *)
(* or are cut off, launches on Meteora among them; one at a time, with a   *)
(* payment no market listed before it used, nor any market if none failed. *)
THEOREM PaymentsAreHonest ==
  ASSUME ~Local
  PROVE  LaunchesSpec => []PaymentsHold
<1>1. LaunchesInit => PaymentsInv
  <2> SUFFICES ASSUME LaunchesInit PROVE PaymentsInv
    OBVIOUS
  <2>1. part \in {"chain", "serial", "local", "escrow", "serial_escrow"}
    BY DEF LaunchesInit
  <2>2. part # "local" => Init
    BY DEF LaunchesInit
  <2>3. part # "local" =>
          ListInv /\ PayInv /\ Serial(req, markets, listings) /\ Fresh(req, markets, listings)
    BY <2>2, TypesInit, ListInit, PaymentsInit DEF ListInv, PayInv
  <2> QED
    BY <2>1, <2>3 DEF PaymentsInv
<1>2. PaymentsInv /\ [LaunchesNext]_<<part, vars, escrowVars>> => PaymentsInv'
  BY PaymentsStep
<1>3. PaymentsInv => PaymentsHold
  <2>1. PayInv => MarketsArePaid
    BY DEF PayInv, Paid, PaidBy, MarketsArePaid
  <2>2. Serial(req, markets, listings) => ListingsPaidOnce
    BY DEF Serial, ListingsPaidOnce
  <2>3. Fresh(req, markets, listings) => MarketsPaidOnce
    BY DEF Fresh, MarketsPaidOnce
  <2> QED
    BY <2>1, <2>2, <2>3 DEF PaymentsInv, PaymentsHold
<1> QED
  BY <1>1, <1>2, <1>3, PTL DEF LaunchesSpec

-----------------------------------------------------------------------------
(* The escrows of the composition are those of Escrow, whose theorems then *)
(* hold of them: every definition they use is the same, name by name.      *)

EscrowProofs == INSTANCE Escrow_proofs
  WITH BioIds <- {"yt"}, XIds <- {"x"}, NoWallet <- NoUser, Local <- FALSE,
       MaxNonces <- 2, MaxLogins <- 1, MaxFees <- 1, Faults <- 1,
       req <- escrowReq, faults <- escrowFaults

(* What does not await. *)
LEMMA SameWorld ==
  /\ \A id : Escrows!Fees(id) => EscrowProofs!Fees(id)
  /\ \A id : Escrows!getOrCreateEscrow(id) => EscrowProofs!getOrCreateEscrow(id)
  /\ \A id, w : Escrows!startVerification(id, w) => EscrowProofs!startVerification(id, w)
  /\ \A n : Escrows!ShowNonce(n) => EscrowProofs!ShowNonce(n)
<1>1. \A id : Escrows!Fees(id) => EscrowProofs!Fees(id)
  BY DEF Escrows!Fees, Escrows!Released, Escrows!SumFunction,
         Escrows!SumFunctionOnSet, Escrows!FoldFunctionOnSet, Escrows!MapThenFoldSet,
         EscrowProofs!Fees, EscrowProofs!Released, EscrowProofs!SumFunction,
         EscrowProofs!SumFunctionOnSet, EscrowProofs!FoldFunctionOnSet, EscrowProofs!MapThenFoldSet
<1>2. \A id : Escrows!getOrCreateEscrow(id) => EscrowProofs!getOrCreateEscrow(id)
  BY DEF Escrows!getOrCreateEscrow, Escrows!created, Escrows!Put, Escrows!NoEntry,
         EscrowProofs!getOrCreateEscrow, EscrowProofs!created, EscrowProofs!Put,
         EscrowProofs!NoEntry
<1>3. \A id, w : Escrows!startVerification(id, w) => EscrowProofs!startVerification(id, w)
  BY DEF Escrows!startVerification, Escrows!Put, Escrows!started, Escrows!Cardinality,
         EscrowProofs!startVerification, EscrowProofs!Put, EscrowProofs!started,
         EscrowProofs!Cardinality
<1>4. \A n : Escrows!ShowNonce(n) => EscrowProofs!ShowNonce(n)
  BY DEF Escrows!ShowNonce, EscrowProofs!ShowNonce
<1> QED
  BY <1>1, <1>2, <1>3, <1>4

(* Requests. *)
LEMMA SameRequests ==
  /\ \A r : Escrows!Step(r) => EscrowProofs!Step(r)
  /\ \A r : Escrows!BalanceFails(r) => EscrowProofs!BalanceFails(r)
  /\ \A r, id : Escrows!checkVerification(r, id) => EscrowProofs!checkVerification(r, id)
  /\ \A r, id : Escrows!CheckOverridden(r, id) => EscrowProofs!CheckOverridden(r, id)
  /\ \A r, state, user :
       Escrows!handleXCallback(r, state, user) => EscrowProofs!handleXCallback(r, state, user)
<1> USE DEF Escrows!Idle, Escrows!Ends, Escrows!Fault, Escrows!Put, Escrows!NoEntry,
            Escrows!created, EscrowProofs!Idle, EscrowProofs!Ends, EscrowProofs!Fault,
            EscrowProofs!Put, EscrowProofs!NoEntry, EscrowProofs!created
<1>1. \A r : Escrows!Step(r) => EscrowProofs!Step(r)
  BY DEF Escrows!Step, Escrows!BioFound, Escrows!BioNotFound, Escrows!LoginConfirmed,
         Escrows!LoginRefused, Escrows!BalanceRead, Escrows!Release, Escrows!ReleaseFails,
         Escrows!Record, Escrows!found, Escrows!Verify, Escrows!pending, Escrows!SweepFrom,
         Escrows!same_user, Escrows!recipient, Escrows!amount, Escrows!Pays, Escrows!swept,
         Escrows!after_failure,
         EscrowProofs!Step, EscrowProofs!BioFound, EscrowProofs!BioNotFound,
         EscrowProofs!LoginConfirmed, EscrowProofs!LoginRefused, EscrowProofs!BalanceRead,
         EscrowProofs!Release, EscrowProofs!ReleaseFails, EscrowProofs!Record,
         EscrowProofs!found, EscrowProofs!Verify, EscrowProofs!pending,
         EscrowProofs!SweepFrom, EscrowProofs!same_user, EscrowProofs!recipient,
         EscrowProofs!amount, EscrowProofs!Pays, EscrowProofs!swept,
         EscrowProofs!after_failure
<1>2. \A r : Escrows!BalanceFails(r) => EscrowProofs!BalanceFails(r)
  BY DEF Escrows!BalanceFails, EscrowProofs!BalanceFails
<1>3. \A r, id : Escrows!checkVerification(r, id) => EscrowProofs!checkVerification(r, id)
  BY DEF Escrows!checkVerification, EscrowProofs!checkVerification, Escrows!Ids, EscrowProofs!Ids
<1>4. \A r, id : Escrows!CheckOverridden(r, id) => EscrowProofs!CheckOverridden(r, id)
  BY DEF Escrows!CheckOverridden, Escrows!Verify, Escrows!SweepFrom, Escrows!pending,
         EscrowProofs!CheckOverridden, EscrowProofs!Verify, EscrowProofs!SweepFrom, EscrowProofs!pending
<1>5. \A r, state, user :
        Escrows!handleXCallback(r, state, user) => EscrowProofs!handleXCallback(r, state, user)
  BY DEF Escrows!handleXCallback, EscrowProofs!handleXCallback
<1> QED
  BY <1>1, <1>2, <1>3, <1>4, <1>5

(* The states and steps of the composition are those of the proofs. *)
LEMMA SameEscrows ==
  /\ Escrows!Init => EscrowProofs!Init
  /\ Escrows!Next => EscrowProofs!Next
  /\ UNCHANGED escrowVars => UNCHANGED EscrowProofs!vars
  /\ EscrowProofs!PaidToProven => Escrows!PaidToProven
<1>1. Escrows!Init => EscrowProofs!Init
  BY DEF Escrows!Init, EscrowProofs!Init, Escrows!Idle, EscrowProofs!Idle, Escrows!Ids,
         EscrowProofs!Ids
<1>2. Escrows!Ids = EscrowProofs!Ids /\ Escrows!XStates = EscrowProofs!XStates
  BY DEF Escrows!Ids, EscrowProofs!Ids, Escrows!XStates, EscrowProofs!XStates
<1>3. Escrows!Next => EscrowProofs!Next
  BY <1>2, SameWorld, SameRequests DEF Escrows!Next, EscrowProofs!Next
<1>4. UNCHANGED escrowVars => UNCHANGED EscrowProofs!vars
  BY DEF escrowVars, EscrowProofs!vars
<1>5. EscrowProofs!PaidToProven => Escrows!PaidToProven
  BY <1>2 DEF Escrows!PaidToProven, EscrowProofs!PaidToProven
<1> QED
  BY <1>1, <1>3, <1>4, <1>5

(* PaidToProven: off a local validator escrowed fees only go to wallets    *)
(* the owner of the identity confirmed, however many requests overlap.     *)
THEOREM ProvenArePaid ==
  LaunchesSpec => []PaidToProven
<1> DEFINE Inv == part = "escrow" => EscrowProofs!IInv
<1>1. LaunchesInit => Inv
  <2>1. EscrowProofs!Init => EscrowProofs!IInv
    BY EscrowProofs!AtFirst
  <2> QED
    BY <2>1, SameEscrows DEF LaunchesInit
<1>2. Inv /\ [LaunchesNext]_<<part, vars, escrowVars>> => Inv'
  <2> SUFFICES ASSUME EscrowProofs!IInv, part' = "escrow",
                      [LaunchesNext]_<<part, vars, escrowVars>>, part = "escrow"
               PROVE  EscrowProofs!IInv'
    BY DEF LaunchesNext
  <2>1. Escrows!Next \/ UNCHANGED escrowVars
    BY DEF LaunchesNext
  <2>2. EscrowProofs!Next \/ UNCHANGED EscrowProofs!vars
    BY <2>1, SameEscrows
  <2> QED
    BY <2>2, EscrowProofs!StepKeeps
<1>3. Inv => PaidToProven
  BY SameEscrows DEF PaidToProven, EscrowProofs!IInv, EscrowProofs!PaidToConfirmed,
       EscrowProofs!Confirmed, EscrowProofs!PaidToProven
<1> QED
  BY <1>1, <1>2, <1>3, PTL DEF LaunchesSpec
-----------------------------------------------------------------------------
(* The same on a local validator, where requests come one at a time.       *)

LocalProofs == INSTANCE Escrow_proofs
  WITH BioIds <- {"yt"}, XIds <- {"x"}, NoWallet <- NoUser, Local <- TRUE,
       MaxNonces <- 1, MaxLogins <- 2, MaxFees <- 3, Faults <- 1,
       req <- escrowReq, faults <- escrowFaults

LEMMA SameLocalWorld ==
  /\ \A id : LocalEscrows!Fees(id) => LocalProofs!Fees(id)
  /\ \A id : LocalEscrows!getOrCreateEscrow(id) => LocalProofs!getOrCreateEscrow(id)
  /\ \A id, w : LocalEscrows!startVerification(id, w) => LocalProofs!startVerification(id, w)
  /\ \A n : LocalEscrows!ShowNonce(n) => LocalProofs!ShowNonce(n)
<1>1. \A id : LocalEscrows!Fees(id) => LocalProofs!Fees(id)
  BY DEF LocalEscrows!Fees, LocalEscrows!Released, LocalEscrows!SumFunction,
         LocalEscrows!SumFunctionOnSet, LocalEscrows!FoldFunctionOnSet, LocalEscrows!MapThenFoldSet,
         LocalProofs!Fees, LocalProofs!Released, LocalProofs!SumFunction,
         LocalProofs!SumFunctionOnSet, LocalProofs!FoldFunctionOnSet, LocalProofs!MapThenFoldSet
<1>2. \A id : LocalEscrows!getOrCreateEscrow(id) => LocalProofs!getOrCreateEscrow(id)
  BY DEF LocalEscrows!getOrCreateEscrow, LocalEscrows!created, LocalEscrows!Put, LocalEscrows!NoEntry,
         LocalProofs!getOrCreateEscrow, LocalProofs!created, LocalProofs!Put,
         LocalProofs!NoEntry
<1>3. \A id, w : LocalEscrows!startVerification(id, w) => LocalProofs!startVerification(id, w)
  BY DEF LocalEscrows!startVerification, LocalEscrows!Put, LocalEscrows!started, LocalEscrows!Cardinality,
         LocalProofs!startVerification, LocalProofs!Put, LocalProofs!started,
         LocalProofs!Cardinality
<1>4. \A n : LocalEscrows!ShowNonce(n) => LocalProofs!ShowNonce(n)
  BY DEF LocalEscrows!ShowNonce, LocalProofs!ShowNonce
<1> QED
  BY <1>1, <1>2, <1>3, <1>4

LEMMA SameLocalRequests ==
  /\ \A r : LocalEscrows!Step(r) => LocalProofs!Step(r)
  /\ \A r : LocalEscrows!BalanceFails(r) => LocalProofs!BalanceFails(r)
  /\ \A r, id : LocalEscrows!checkVerification(r, id) => LocalProofs!checkVerification(r, id)
  /\ \A r, id : LocalEscrows!CheckOverridden(r, id) => LocalProofs!CheckOverridden(r, id)
  /\ \A r, state, user :
       LocalEscrows!handleXCallback(r, state, user) => LocalProofs!handleXCallback(r, state, user)
<1> USE DEF LocalEscrows!Idle, LocalEscrows!Ends, LocalEscrows!Fault, LocalEscrows!Put, LocalEscrows!NoEntry,
            LocalEscrows!created, LocalProofs!Idle, LocalProofs!Ends, LocalProofs!Fault,
            LocalProofs!Put, LocalProofs!NoEntry, LocalProofs!created
<1>1. \A r : LocalEscrows!Step(r) => LocalProofs!Step(r)
  BY DEF LocalEscrows!Step, LocalEscrows!BioFound, LocalEscrows!BioNotFound, LocalEscrows!LoginConfirmed,
         LocalEscrows!LoginRefused, LocalEscrows!BalanceRead, LocalEscrows!Release, LocalEscrows!ReleaseFails,
         LocalEscrows!Record, LocalEscrows!found, LocalEscrows!Verify, LocalEscrows!pending, LocalEscrows!SweepFrom,
         LocalEscrows!same_user, LocalEscrows!recipient, LocalEscrows!amount, LocalEscrows!Pays, LocalEscrows!swept,
         LocalEscrows!after_failure,
         LocalProofs!Step, LocalProofs!BioFound, LocalProofs!BioNotFound,
         LocalProofs!LoginConfirmed, LocalProofs!LoginRefused, LocalProofs!BalanceRead,
         LocalProofs!Release, LocalProofs!ReleaseFails, LocalProofs!Record,
         LocalProofs!found, LocalProofs!Verify, LocalProofs!pending,
         LocalProofs!SweepFrom, LocalProofs!same_user, LocalProofs!recipient,
         LocalProofs!amount, LocalProofs!Pays, LocalProofs!swept,
         LocalProofs!after_failure
<1>2. \A r : LocalEscrows!BalanceFails(r) => LocalProofs!BalanceFails(r)
  BY DEF LocalEscrows!BalanceFails, LocalProofs!BalanceFails
<1>3. \A r, id : LocalEscrows!checkVerification(r, id) => LocalProofs!checkVerification(r, id)
  BY DEF LocalEscrows!checkVerification, LocalProofs!checkVerification, LocalEscrows!Ids, LocalProofs!Ids
<1>4. \A r, id : LocalEscrows!CheckOverridden(r, id) => LocalProofs!CheckOverridden(r, id)
  BY DEF LocalEscrows!CheckOverridden, LocalEscrows!Verify, LocalEscrows!SweepFrom, LocalEscrows!pending,
         LocalProofs!CheckOverridden, LocalProofs!Verify, LocalProofs!SweepFrom, LocalProofs!pending
<1>5. \A r, state, user :
        LocalEscrows!handleXCallback(r, state, user) => LocalProofs!handleXCallback(r, state, user)
  BY DEF LocalEscrows!handleXCallback, LocalProofs!handleXCallback
<1> QED
  BY <1>1, <1>2, <1>3, <1>4, <1>5

LEMMA SameLocalEscrows ==
  /\ LocalEscrows!Init => LocalProofs!Init
  /\ LocalEscrows!Next => LocalProofs!Next
  /\ UNCHANGED escrowVars => UNCHANGED LocalProofs!vars
  /\ LocalProofs!PaidToProven => LocalEscrows!PaidToProven
<1>1. LocalEscrows!Init => LocalProofs!Init
  BY DEF LocalEscrows!Init, LocalProofs!Init, LocalEscrows!Idle, LocalProofs!Idle, LocalEscrows!Ids,
         LocalProofs!Ids
<1>2. LocalEscrows!Ids = LocalProofs!Ids /\ LocalEscrows!XStates = LocalProofs!XStates
  BY DEF LocalEscrows!Ids, LocalProofs!Ids, LocalEscrows!XStates, LocalProofs!XStates
<1>3. LocalEscrows!Next => LocalProofs!Next
  BY <1>2, SameLocalWorld, SameLocalRequests DEF LocalEscrows!Next, LocalProofs!Next
<1>4. UNCHANGED escrowVars => UNCHANGED LocalProofs!vars
  BY DEF escrowVars, LocalProofs!vars
<1>5. LocalProofs!PaidToProven => LocalEscrows!PaidToProven
  BY <1>2 DEF LocalEscrows!PaidToProven, LocalProofs!PaidToProven
<1> QED
  BY <1>1, <1>3, <1>4, <1>5
(* Sums in the instance are those of FixedMath_proofs. *)
LEMMA LocalSums == LocalProofs!SumsAdd
<1>1. \A f : LocalProofs!SumFunction(f) = SumFunction(f)
  BY DEF LocalProofs!SumFunction, LocalProofs!SumFunctionOnSet, LocalProofs!FoldFunctionOnSet,
         LocalProofs!MapThenFoldSet,
         SumFunction, SumFunctionOnSet, FoldFunctionOnSet, MapThenFoldSet
<1>2. \A f \in [Wallets -> Nat] :
        /\ SumFunction(f) \in Nat
        /\ \A w \in Wallets, g \in [Wallets -> Nat] :
             (\A v \in Wallets : v # w => g[v] = f[v]) => SumFunction(g) = SumFunction(f) - f[w] + g[w]
  BY WalletsAssumption, FamilySum, FamilyUpdate
<1> QED
  BY <1>1, <1>2 DEF LocalProofs!SumsAdd

(* What the properties speak of is the same, too. *)
LEMMA SameProperties ==
  /\ EscrowProofs!TypeOK => Escrows!TypeOK
  /\ LocalProofs!TypeOK => LocalEscrows!TypeOK
  /\ LocalProofs!SweepsWereReleased => LocalEscrows!SweepsWereReleased
  /\ LocalProofs!OwnershipKept => LocalEscrows!OwnershipKept
<1>1. EscrowProofs!TypeOK => Escrows!TypeOK
  BY DEF Escrows!TypeOK, Escrows!Ids, Escrows!Entry,
         EscrowProofs!TypeOK, EscrowProofs!Ids, EscrowProofs!Entry
<1>2. LocalProofs!TypeOK => LocalEscrows!TypeOK
  BY DEF LocalEscrows!TypeOK, LocalEscrows!Ids, LocalEscrows!Entry,
         LocalProofs!TypeOK, LocalProofs!Ids, LocalProofs!Entry
<1>3. LocalProofs!SweepsWereReleased => LocalEscrows!SweepsWereReleased
  BY DEF LocalEscrows!SweepsWereReleased, LocalEscrows!Released, LocalEscrows!SumFunction,
         LocalEscrows!SumFunctionOnSet, LocalEscrows!FoldFunctionOnSet,
         LocalEscrows!MapThenFoldSet,
         LocalProofs!SweepsWereReleased, LocalProofs!Released, LocalProofs!SumFunction,
         LocalProofs!SumFunctionOnSet, LocalProofs!FoldFunctionOnSet, LocalProofs!MapThenFoldSet
<1>4. LocalProofs!OwnershipKept => LocalEscrows!OwnershipKept
  BY DEF LocalEscrows!OwnershipKept, LocalProofs!OwnershipKept
<1> QED
  BY <1>1, <1>2, <1>3, <1>4

(* The invariant of the composition. *)
EscrowInv ==
  IF part = "serial_escrow" THEN LocalProofs!IInv /\ LocalProofs!Serial ELSE EscrowProofs!IInv

LEMMA EscrowInvFirst == LaunchesInit => EscrowInv
<1>1. EscrowProofs!Init => EscrowProofs!IInv
  BY EscrowProofs!AtFirst
<1>2. LocalProofs!Init => LocalProofs!IInv /\ LocalProofs!Serial
  BY LocalProofs!AtFirst, LocalProofs!SerialFirst
<1> QED
  BY <1>1, <1>2, SameEscrows, SameLocalEscrows DEF LaunchesInit, EscrowInv

LEMMA EscrowInvStep ==
  ASSUME EscrowInv, [LaunchesNext]_<<part, vars, escrowVars>>
  PROVE  /\ EscrowInv'
         /\ part = "serial_escrow" => LocalProofs!OwnershipKept \/ UNCHANGED escrowVars
<1>1. part' = part
  BY DEF LaunchesNext
<1>2. CASE part = "serial_escrow"
  <2>1. /\ UNCHANGED escrowVars \/ (LocalEscrows!Next /\ Alone(escrowReq'))
        /\ LocalProofs!IInv /\ LocalProofs!Serial
    BY <1>2 DEF LaunchesNext, EscrowInv
  <2>2. [LocalProofs!Next]_LocalProofs!vars
    BY <2>1, SameLocalEscrows
  <2>3. LocalProofs!OneAtATime'
    <3>1. CASE UNCHANGED escrowVars
      BY <2>1, <3>1 DEF LocalProofs!Serial, LocalProofs!OneAtATime, escrowVars
    <3>2. CASE Alone(escrowReq')
      BY <3>2 DEF Alone, LocalProofs!OneAtATime
    <3> QED
      BY <2>1, <3>1, <3>2
  <2>4. /\ LocalProofs!IInv' /\ LocalProofs!Serial'
        /\ LocalProofs!OwnershipKept \/ UNCHANGED LocalProofs!vars
    BY <2>1, <2>2, <2>3, LocalSums, LocalProofs!SerialStep
  <2> QED
    BY <1>1, <1>2, <2>4 DEF EscrowInv, LocalProofs!vars, escrowVars
<1>3. CASE part # "serial_escrow"
  <2>1. EscrowProofs!IInv /\ (Escrows!Next \/ UNCHANGED escrowVars)
    BY <1>3 DEF LaunchesNext, EscrowInv
  <2>2. [EscrowProofs!Next]_EscrowProofs!vars
    BY <2>1, SameEscrows
  <2>3. EscrowProofs!IInv'
    BY <2>1, <2>2, EscrowProofs!StepKeeps
  <2> QED
    BY <1>1, <1>3, <2>3 DEF EscrowInv
<1> QED
  BY <1>2, <1>3

(* SerialEscrowTrue: the store of escrow.ts stays well-formed; and as long *)
(* as requests come one at a time, what it says was swept was released,    *)
(* and a verified identity stays verified.                                 *)
THEOREM SweepsAreTrue == LaunchesSpec => SerialEscrowTrue
<1>1. EscrowInv => EscrowTypeOK /\ (part = "serial_escrow" => LocalEscrows!SweepsWereReleased)
  BY SameProperties, EscrowProofs!EscrowTypes, LocalProofs!EscrowTypes
  DEF EscrowInv, EscrowTypeOK, LocalProofs!Serial
<1>2. EscrowInv /\ [LaunchesNext]_<<part, vars, escrowVars>>
        => EscrowInv' /\ [part = "serial_escrow" => LocalEscrows!OwnershipKept]_escrowVars
  BY EscrowInvStep, SameProperties
<1> QED
  BY <1>1, <1>2, EscrowInvFirst, PTL DEF LaunchesSpec, SerialEscrowTrue
=============================================================================
