------------------------------- MODULE Escrow -------------------------------
(***************************************************************************)
(* Identity escrows of src/indexer/src/escrow.ts: fees for an identity     *)
(* gather in a program-derived account, its owner proves the identity      *)
(* (a nonce in the public bio, or an X login), and the indexer releases    *)
(* the account to the owner's wallet through release_escrow.               *)
(*                                                                         *)
(* The store is one JSON file. Every operation loads all of it, changes    *)
(* its copy and saves all of it; checkVerification and sweepEscrow await   *)
(* other systems between their load and their save. A request is a record  *)
(* of where it awaits and of the copy it holds. Node runs the code between *)
(* two awaits without interruption: one action each.                       *)
(***************************************************************************)
EXTENDS Integers, FiniteSets, FiniteSetsExt, Functions

CONSTANTS BioIds,     \* identities proven by a bio: youtube, elitefourum
          XIds,       \* identities proven by an X login
          Wallets, Requests,
          NoWallet,
          Local,      \* the RPC is local: adminOverride is accepted
          MaxNonces,  \* bound: verifications started
          MaxLogins,  \* bound: X logins
          MaxFees,    \* bound: fees paid to an escrow in all
          Faults      \* bound: calls to other systems that fail

Ids == BioIds \cup XIds

VARIABLES store,      \* escrows.json: identities with an entry -> entry
          req,        \* requests under way
          bio,        \* nonces shown in public bios
          issued,     \* issued[n]: the identity and wallet of the nth nonce
          balance,    \* lamports of each escrow account
          got,        \* got[id][w]: lamports released to each wallet
          proven,     \* <<identity, wallet>> pairs the identity's owner confirmed
          logins, faults

vars == <<store, req, bio, issued, balance, got, proven, logins, faults>>

NoEntry == [verified |-> FALSE, verifiedWallet |-> NoWallet, pendingWallet |-> NoWallet,
            nonce |-> 0, swept |-> 0]
Idle == [pc |-> "idle", id |-> NoWallet, d |-> << >>, bal |-> 0, wallet |-> NoWallet, user |-> NoWallet]

Init ==
  /\ store = << >> /\ req = [r \in Requests |-> Idle]
  /\ bio = {} /\ issued = << >>
  /\ balance = [id \in Ids |-> 0]
  /\ got = [id \in Ids |-> [w \in Wallets |-> 0]]
  /\ proven = {} /\ logins = MaxLogins /\ faults = Faults

Fault == faults > 0 /\ faults' = faults - 1
Ends(r) == req' = [req EXCEPT ![r] = Idle]
Put(d, id, e) == [k \in DOMAIN d \cup {id} |-> IF k = id THEN e ELSE d[k]]
created(d, id) == IF id \in DOMAIN d THEN d ELSE Put(d, id, NoEntry)
Released(id) == SumFunction(got[id])

-----------------------------------------------------------------------------
(* The world: traders pay fees, owners edit their bios. *)

Fees(id) ==
  /\ balance[id] + Released(id) < MaxFees
  /\ balance' = [balance EXCEPT ![id] = @ + 1]
  /\ UNCHANGED <<store, req, bio, issued, got, proven, logins, faults>>

ShowNonce(n) ==
  /\ n \in DOMAIN issued \ bio
  /\ bio' = bio \cup {n}
  /\ proven' = proven \cup {issued[n]}
  /\ UNCHANGED <<store, req, issued, balance, got, logins, faults>>

-----------------------------------------------------------------------------
(* Requests that do not await. *)

getOrCreateEscrow(id) ==
  /\ id \notin DOMAIN store
  /\ store' = created(store, id)
  /\ UNCHANGED <<req, bio, issued, balance, got, proven, logins, faults>>

started_afresh(e, n, wallet) == [NoEntry EXCEPT !.nonce = n, !.pendingWallet = wallet]
started(e, n, wallet) == [e EXCEPT !.nonce = n, !.pendingWallet = wallet]

startVerification(id, wallet) ==
  LET n == Cardinality(DOMAIN issued) + 1 IN
  /\ id \in DOMAIN store /\ n <= MaxNonces
  /\ issued' = Put(issued, n, <<id, wallet>>)
  /\ store' = [store EXCEPT ![id] = started(@, n, wallet)]
  /\ UNCHANGED <<req, bio, balance, got, proven, logins, faults>>

-----------------------------------------------------------------------------
(* sweepEscrow loads the store its caller has just saved: d. *)
SweepFrom(r, id, d) ==
  req' = [req EXCEPT ![r] = [Idle EXCEPT !.pc = "balance", !.id = id, !.d = d]]

pending_now(d, id) == store[id].pendingWallet
pending(d, id) == d[id].pendingWallet

(* The entry is verified for its pending wallet, the copy saved, and the   *)
(* sweep started.                                                          *)
Verify(r, id, d) ==
  LET saved == [d EXCEPT ![id].verified = TRUE, ![id].verifiedWallet = pending(d, id)]
  IN  store' = saved /\ SweepFrom(r, id, saved)

(* checkVerification: load, then await the bio. *)
checkVerification(r, id) ==
  /\ req[r].pc = "idle" /\ id \in DOMAIN store \cap BioIds
  /\ store[id].nonce # 0
  /\ req' = [req EXCEPT ![r] = [Idle EXCEPT !.pc = "bio", !.id = id, !.d = store]]
  /\ UNCHANGED <<store, bio, issued, balance, got, proven, logins, faults>>

(* adminOverride skips the bio, so nothing is awaited before the save. *)
CheckOverridden(r, id) ==
  /\ Local /\ req[r].pc = "idle" /\ id \in DOMAIN store
  /\ store[id].nonce # 0
  /\ Verify(r, id, store)
  /\ UNCHANGED <<bio, issued, balance, got, proven, logins, faults>>

found(r) == req[r].d[req[r].id].nonce \in bio

BioFound(r) ==
  /\ req[r].pc = "bio" /\ found(r)
  /\ Verify(r, req[r].id, req[r].d)
  /\ UNCHANGED <<bio, issued, balance, got, proven, logins, faults>>

(* The nonce is not there yet, or the page could not be fetched. *)
BioNotFound(r) ==
  /\ req[r].pc = "bio" /\ Ends(r)
  /\ \/ ~found(r) /\ UNCHANGED faults
     \/ found(r) /\ Fault
  /\ UNCHANGED <<store, bio, issued, balance, got, proven, logins>>

(* What startXOAuth signs for anybody who asks: an identity and a wallet.  *)
(* The state lives in the URL alone, so it can come back any time.         *)
XStates == XIds \X Wallets

(* handleXCallback: somebody logged in to X for a signed state and was     *)
(* sent back. The user may be another than the identity of the state. The  *)
(* store is not read before X has told who it was.                         *)
handleXCallback(r, state, user) ==
  /\ req[r].pc = "idle" /\ logins > 0
  /\ logins' = logins - 1
  /\ proven' = IF user = state[1] THEN proven \cup {state} ELSE proven
  /\ req' = [req EXCEPT ![r] = [Idle EXCEPT !.pc = "login", !.id = state[1], !.wallet = state[2],
                                            !.user = user]]
  /\ UNCHANGED <<store, bio, issued, balance, got, faults>>

same_user_any(r) == TRUE
same_user(r) == req[r].user = req[r].id

(* Ownership is recorded; from here to the sweep's first await nothing     *)
(* interrupts. The nonce of a verification by bio stays as it is.          *)
LoginConfirmed(r) ==
  /\ req[r].pc = "login" /\ same_user(r)
  /\ LET id == req[r].id
         d == created(store, id)
         saved == [d EXCEPT ![id].verified = TRUE, ![id].verifiedWallet = req[r].wallet]
     IN  store' = saved /\ SweepFrom(r, id, saved)
  /\ UNCHANGED <<bio, issued, balance, got, proven, logins, faults>>

(* Another user, or X does not answer for the code or the token.           *)
LoginRefused(r) ==
  /\ req[r].pc = "login" /\ Ends(r)
  /\ same_user(r) => faults > 0
  /\ faults' = IF same_user(r) THEN faults - 1 ELSE faults
  /\ UNCHANGED <<store, bio, issued, balance, got, proven, logins>>

-----------------------------------------------------------------------------
(* sweepEscrow *)

BalanceRead(r) ==
  /\ req[r].pc = "balance"
  /\ IF balance[req[r].id] = 0 THEN Ends(r)
     ELSE req' = [req EXCEPT ![r].pc = "release", ![r].bal = balance[req[r].id]]
  /\ UNCHANGED <<store, bio, issued, balance, got, proven, logins, faults>>

(* The RPC fails, or no admin signer is configured. *)
BalanceFails(r) ==
  /\ req[r].pc = "balance" /\ Fault /\ Ends(r)
  /\ UNCHANGED <<store, bio, issued, balance, got, proven, logins>>

recipient(r) == req[r].d[req[r].id].verifiedWallet

(* release_escrow with no amount pays out all the account holds. *)
amount_read(r) == Min({req[r].bal, balance[req[r].id]})
amount(r) == balance[req[r].id]
Pays(r) ==
  /\ amount(r) > 0
  /\ got' = [got EXCEPT ![req[r].id][recipient(r)] = @ + amount(r)]
  /\ balance' = [balance EXCEPT ![req[r].id] = @ - amount(r)]

Release(r) ==
  /\ req[r].pc = "release" /\ Pays(r)
  /\ req' = [req EXCEPT ![r].pc = "record"]
  /\ UNCHANGED <<store, bio, issued, proven, logins, faults>>

swept(r) == [req[r].d EXCEPT ![req[r].id].swept = @ + req[r].bal]
after_failure_recorded(r) == swept(r)
after_failure(r) == store

(* The release fails: the account is empty, the call is lost, or its       *)
(* confirmation is.                                                        *)
ReleaseFails(r) ==
  /\ req[r].pc = "release" /\ Ends(r)
  /\ store' = after_failure(r)
  /\ \/ balance[req[r].id] = 0 /\ UNCHANGED <<balance, got, faults>>
     \/ Fault /\ UNCHANGED <<balance, got>>
     \/ Fault /\ Pays(r)
  /\ UNCHANGED <<bio, issued, proven, logins>>

Record(r) ==
  /\ req[r].pc = "record" /\ Ends(r)
  /\ store' = swept(r)
  /\ UNCHANGED <<bio, issued, balance, got, proven, logins, faults>>

-----------------------------------------------------------------------------
Step(r) ==
  \/ BioFound(r) \/ BioNotFound(r) \/ LoginConfirmed(r) \/ LoginRefused(r)
  \/ BalanceRead(r) \/ Release(r) \/ ReleaseFails(r) \/ Record(r)

Next ==
  \/ \E id \in Ids : Fees(id) \/ getOrCreateEscrow(id)
  \/ \E id \in Ids, w \in Wallets : startVerification(id, w)
  \/ \E n \in 1..MaxNonces : ShowNonce(n)
  \/ \E r \in Requests :
       \/ Step(r) \/ BalanceFails(r)
       \/ \E id \in Ids : checkVerification(r, id) \/ CheckOverridden(r, id)
       \/ \E state \in XStates, user \in XIds \cup {NoWallet} : handleXCallback(r, state, user)

Spec == Init /\ [][Next]_vars

(* Every awaited call is answered. Nothing makes an owner verify again. *)
FairSpec == Spec /\ \A r \in Requests : WF_vars(Step(r))

-----------------------------------------------------------------------------
(* Properties. *)

Entry == [verified : BOOLEAN, verifiedWallet : Wallets \cup {NoWallet},
          pendingWallet : Wallets \cup {NoWallet}, nonce : 0..MaxNonces, swept : Nat]

TypeOK ==
  /\ DOMAIN store \subseteq Ids /\ \A id \in DOMAIN store : store[id] \in Entry
  /\ \A r \in Requests :
       /\ req[r].pc \in {"idle", "bio", "login", "balance", "release", "record"}
       /\ req[r].pc \notin {"idle", "login"} => req[r].id \in DOMAIN req[r].d
  /\ bio \subseteq DOMAIN issued

(* "funds can only leave through the program's admin-signed release_escrow *)
(* instruction, invoked here after ownership verification": whatever       *)
(* verifications for other wallets run meanwhile, and although requests    *)
(* save old copies of the store, fees only go to a wallet which the owner  *)
(* of the identity confirmed.                                              *)
PaidToProven ==
  \A id \in Ids, w \in Wallets : got[id][w] > 0 => <<id, w>> \in proven

(* One request at a time: the sweeps on file never claim more than was     *)
(* released, with fees arriving between reading the balance and the        *)
(* release, and with releases that fail.                                   *)
SweepsWereReleased == \A id \in DOMAIN store : store[id].swept <= Released(id)

(* A sweep once under way empties the escrow, also when others race it to  *)
(* the same account, unless a call fails.                                  *)
SweepEmpties ==
  \A r \in Requests, id \in Ids :
    (req[r].pc = "release" /\ req[r].id = id) ~> (balance[id] = 0)

(* "ownership is already recorded": a verified identity stays verified.    *)
(* Another request that saves an older copy of the store takes it back.    *)
OwnershipKept ==
  \A id \in DOMAIN store : store[id].verified => id \in DOMAIN store' /\ store'[id].verified
OwnershipStays == [][OwnershipKept]_vars

(* "fees released on next sweep": what a failed sweep left in the escrow   *)
(* of a verified identity is released later.                               *)
ReleasedNextSweep ==
  \A id \in Ids :
    (id \in DOMAIN store /\ store[id].verified /\ balance[id] > 0) ~> (balance[id] = 0)
=============================================================================
