--------------------------- MODULE Escrow_proofs ---------------------------
(***************************************************************************)
(* Proofs about the identity escrows (Escrow): on a chain that is not      *)
(* local, released fees only ever reach wallets the owner of the identity  *)
(* confirmed, for any number of requests that overlap and save old copies  *)
(* of the store over each other; and requests one at a time, on any chain, *)
(* never claim sweeps that were not paid or forget a verified identity.    *)
(***************************************************************************)
EXTENDS Escrow, FiniteSetTheorems, TLAPS

-----------------------------------------------------------------------------
(* The inductive invariant.                                                *)

(* A copy of the store, as a request holds it or as it is saved. *)
Copies == UNION {[S -> Entry] : S \in SUBSET Ids}

Request == [pc : {"idle", "bio", "login", "balance", "release", "record"},
            id : Ids \cup {NoWallet}, d : Copies, bal : Nat,
            wallet : Wallets \cup {NoWallet}, user : XIds \cup {NoWallet}]

Types ==
  /\ store \in Copies /\ req \in [Requests -> Request]
  /\ balance \in [Ids -> Nat] /\ got \in [Ids -> [Wallets -> Nat]]

(* The pairs of an identity and a wallet that may be paid: on a local      *)
(* validator, where a verification may be overridden, all of them.         *)
Confirmed == IF Local THEN Ids \X Wallets ELSE proven

(* Nonces are handed out in order; one in a public bio was put there by    *)
(* the owner of the identity, who so confirms the wallet it was made for.  *)
Nonces ==
  /\ \E k \in Nat : DOMAIN issued = 1..k
  /\ \A n \in DOMAIN issued : issued[n] \in Ids \X Wallets
  /\ bio \subseteq DOMAIN issued
  /\ Confirmed \subseteq Ids \X Wallets /\ \A n \in bio : issued[n] \in Confirmed

(* What a copy of the store says is true, however old the copy is: a       *)
(* verified wallet was confirmed, and the nonce on file was made for the   *)
(* pending wallet beside it (confirmed and made are Confirmed and issued). *)
Honest(d, confirmed, made) ==
  \A id \in DOMAIN d :
    /\ d[id].verified => <<id, d[id].verifiedWallet>> \in confirmed
    /\ d[id].nonce # 0 =>
         d[id].nonce \in DOMAIN made /\ made[d[id].nonce] = <<id, d[id].pendingWallet>>

(* A request awaits the bio of an identity of its copy; one that sweeps    *)
(* holds a copy in which the identity is verified; and a login by the user *)
(* of the identity confirmed the wallet it was signed for.                 *)
Sound(q, confirmed, made) ==
  /\ Honest(q.d, confirmed, made)
  /\ q.pc \notin {"idle", "login"} => q.id \in DOMAIN q.d
  /\ q.pc \in {"balance", "release", "record"} => q.d[q.id].verified
  /\ q.pc = "login" => q.id \in Ids
  /\ q.pc = "login" /\ q.user = q.id => <<q.id, q.wallet>> \in confirmed

(* Payments so far went to such wallets. *)
PaidToConfirmed ==
  \A id \in Ids, w \in Wallets : got[id][w] > 0 => <<id, w>> \in Confirmed

IInv ==
  /\ Types /\ Nonces
  /\ Honest(store, Confirmed, issued)
  /\ \A r \in Requests : Sound(req[r], Confirmed, issued)
  /\ PaidToConfirmed

-----------------------------------------------------------------------------
(* Lemmas about copies of the store.                                       *)

(* Creating or changing an entry of a copy leaves a copy. *)
LEMMA PutCopy ==
  ASSUME NEW d \in Copies, NEW id \in Ids, NEW e \in Entry
  PROVE  /\ Put(d, id, e) \in Copies
         /\ DOMAIN Put(d, id, e) = DOMAIN d \cup {id}
         /\ Put(d, id, e)[id] = e
         /\ \A k \in DOMAIN d : k # id => Put(d, id, e)[k] = d[k]
<1>1. PICK S \in SUBSET Ids : d \in [S -> Entry]
  BY DEF Copies
<1>2. Put(d, id, e) \in [S \cup {id} -> Entry]
  BY <1>1 DEF Put
<1>3. S \cup {id} \in SUBSET Ids
  OBVIOUS
<1> QED
  BY <1>1, <1>2, <1>3 DEF Copies, Put

(* A new entry is unverified and has no nonce. *)
LEMMA NewEntry ==
  ASSUME NEW id \in Ids
  PROVE  /\ MaxNonces \in Nat => NoEntry \in Entry
         /\ ~NoEntry.verified /\ NoEntry.nonce = 0
  BY DEF NoEntry, Entry

(* An empty copy is a copy, and the entries of a copy are entries. *)
LEMMA CopyFacts ==
  /\ << >> \in Copies
  /\ \A d \in Copies : DOMAIN d \subseteq Ids /\ \A id \in DOMAIN d : d[id] \in Entry
<1>1. << >> \in [{} -> Entry]
  OBVIOUS
<1> QED
  BY <1>1 DEF Copies

(* More confirmed wallets and more nonces leave honest copies honest. *)
LEMMA StillHonest ==
  ASSUME NEW d, NEW p, NEW q, NEW i, NEW j, Honest(d, p, i), p \subseteq q,
         DOMAIN i \subseteq DOMAIN j, \A n \in DOMAIN i : j[n] = i[n]
  PROVE  Honest(d, q, j)
  BY DEF Honest

(* The next nonce is a new one and keeps the nonces in order. *)
LEMMA NextNonce ==
  ASSUME NEW k \in Nat, NEW i, DOMAIN i = 1..k, NEW e
  PROVE  LET n == Cardinality(DOMAIN i) + 1  j == Put(i, n, e) IN
         /\ n = k + 1 /\ n \notin DOMAIN i
         /\ DOMAIN j = 1..(k + 1) /\ j[n] = e
         /\ \A m \in DOMAIN i : j[m] = i[m]
<1>1. Cardinality(1..k) = k
  BY FS_Interval
<1>2. Cardinality(DOMAIN i) + 1 = k + 1
  BY <1>1
<1>3. (1..k) \cup {k + 1} = 1..(k + 1)
  OBVIOUS
<1>4. k + 1 \notin 1..k
  OBVIOUS
<1> QED
  BY <1>2, <1>3, <1>4 DEF Put

-----------------------------------------------------------------------------
(* The invariant holds at first.                                           *)

LEMMA AtFirst ==
  ASSUME MaxNonces \in Nat, Init
  PROVE  IInv
<1> USE DEF Init
<1>1. Types
  BY CopyFacts DEF Types, Idle, Request
<1>2. Nonces
  <2>1. DOMAIN issued = 1..0
    OBVIOUS
  <2>2. Confirmed \subseteq Ids \X Wallets
    BY DEF Confirmed
  <2> QED
    BY <2>1, <2>2 DEF Nonces
<1>3. Honest(store, Confirmed, issued)
  BY DEF Honest
<1>4. \A r \in Requests : Sound(req[r], Confirmed, issued)
  BY DEF Sound, Honest, Idle
<1>5. PaidToConfirmed
  BY DEF PaidToConfirmed
<1> QED
  BY <1>1, <1>2, <1>3, <1>4, <1>5 DEF IInv

-----------------------------------------------------------------------------
(* What keeps the parts of the invariant.                                  *)

(* Wallets stay confirmed, and nonces keep what they were made for. *)
Grows ==
  /\ Confirmed \subseteq Confirmed' /\ DOMAIN issued \subseteq DOMAIN issued'
  /\ \A n \in DOMAIN issued : issued'[n] = issued[n]

(* What is confirmed changes only with what owners prove, and then grows. *)
LEMMA ConfirmedGrows ==
  /\ UNCHANGED proven => UNCHANGED Confirmed
  /\ proven \subseteq proven' => Confirmed \subseteq Confirmed'
  BY DEF Confirmed

(* Nothing is confirmed or handed out. *)
Rests == UNCHANGED <<bio, issued, Confirmed>>

LEMMA RestsGrows == Rests => Grows
  BY DEF Rests, Grows

(* A step that puts one request into a sound state leaves all sound. *)
LEMMA OneRequest ==
  ASSUME IInv, Grows, NEW r \in Requests, NEW q \in Request, Sound(q, Confirmed', issued'),
         req' = [req EXCEPT ![r] = q]
  PROVE  /\ req' \in [Requests -> Request]
         /\ \A s \in Requests : Sound(req'[s], Confirmed', issued')
<1>1. req \in [Requests -> Request]
  BY DEF IInv, Types
<1>2. ASSUME NEW s \in Requests PROVE Sound(req'[s], Confirmed', issued')
  <2>1. CASE s = r
    BY <1>1, <2>1
  <2>2. CASE s # r
    <3>1. PICK t : t = req[s]
      OBVIOUS
    <3>2. Sound(t, Confirmed, issued) /\ req'[s] = t
      BY <1>1, <2>2, <3>1 DEF IInv
    <3>3. Honest(t.d, Confirmed', issued')
      BY <3>2, StillHonest DEF Sound, Grows
    <3> QED
      BY <3>2, <3>3 DEF Sound, Grows
  <2> QED
    BY <2>1, <2>2
<1> QED
  BY <1>1, <1>2

(* An idle request is sound. *)
LEMMA IdleSound == Idle \in Request /\ \A p, i : Sound(Idle, p, i)
  BY CopyFacts DEF Idle, Request, Sound, Honest

(* A request that leaves when nothing else happens leaves the invariant. *)
LEMMA Leaving ==
  ASSUME IInv, NEW r \in Requests, Ends(r), Rests, UNCHANGED <<store, balance, got>>
  PROVE  IInv'
<1>1. /\ req' \in [Requests -> Request]
      /\ \A s \in Requests : Sound(req'[s], Confirmed', issued')
  BY IdleSound, RestsGrows, OneRequest DEF Ends
<1> QED
  BY <1>1 DEF IInv, Types, Nonces, PaidToConfirmed, Rests

-----------------------------------------------------------------------------
(* The world and the requests that do not await.                           *)

LEMMA FeesKeeps ==
  ASSUME IInv, NEW id \in Ids, Fees(id)
  PROVE  IInv'
<1>1. balance' \in [Ids -> Nat]
  BY ConfirmedGrows DEF IInv, Types, Fees
<1> QED
  BY <1>1, ConfirmedGrows DEF IInv, Types, Nonces, PaidToConfirmed, Fees

(* The owner who shows a nonce confirms the wallet it was made for. *)
LEMMA ShowNonceKeeps ==
  ASSUME IInv, NEW n \in 1..MaxNonces, ShowNonce(n)
  PROVE  IInv'
<1>1. Grows
  BY ConfirmedGrows DEF Grows, ShowNonce
<1>2. Nonces'
  <2>1. issued[n] \in Confirmed'
    BY DEF IInv, Nonces, Confirmed, ShowNonce
  <2>2. Confirmed' \subseteq Ids \X Wallets
    BY DEF IInv, Nonces, Confirmed, ShowNonce
  <2> QED
    BY <1>1, <2>1, <2>2 DEF IInv, Nonces, Grows, ShowNonce
<1>3. Honest(store, Confirmed, issued)'
  <2>1. PICK d : d = store
    OBVIOUS
  <2>2. Honest(d, Confirmed', issued')
    BY <1>1, <2>1, StillHonest DEF IInv, Grows
  <2> QED
    BY <2>1, <2>2, ConfirmedGrows DEF ShowNonce
<1>4. ASSUME NEW r \in Requests PROVE Sound(req[r], Confirmed, issued)'
  <2>1. PICK q : q = req[r]
    OBVIOUS
  <2>2. Sound(q, Confirmed, issued)
    BY <2>1 DEF IInv
  <2>3. Honest(q.d, Confirmed', issued')
    BY <1>1, <2>2, StillHonest DEF Sound, Grows
  <2>4. Sound(q, Confirmed', issued')
    BY <1>1, <2>2, <2>3 DEF Sound, Grows
  <2> QED
    BY <2>1, <2>4, ConfirmedGrows DEF ShowNonce
<1> QED
  BY <1>2, <1>3, <1>4, ConfirmedGrows DEF IInv, Types, PaidToConfirmed, ShowNonce

(* A new entry says nothing that needs to be true. *)
LEMMA CreatedHonest ==
  ASSUME MaxNonces \in Nat, NEW d \in Copies, NEW id \in Ids, NEW p, NEW i, Honest(d, p, i)
  PROVE  /\ created(d, id) \in Copies /\ id \in DOMAIN created(d, id)
         /\ Honest(created(d, id), p, i)
<1>1. CASE id \in DOMAIN d
  BY <1>1 DEF created
<1>2. CASE id \notin DOMAIN d
  <2>1. created(d, id) = Put(d, id, NoEntry)
    BY <1>2 DEF created
  <2>2. NoEntry \in Entry /\ ~NoEntry.verified /\ NoEntry.nonce = 0
    BY NewEntry
  <2>3. /\ Put(d, id, NoEntry) \in Copies
        /\ DOMAIN Put(d, id, NoEntry) = DOMAIN d \cup {id}
        /\ Put(d, id, NoEntry)[id] = NoEntry
        /\ \A k \in DOMAIN d : k # id => Put(d, id, NoEntry)[k] = d[k]
    BY <2>2, PutCopy
  <2>4. Honest(Put(d, id, NoEntry), p, i)
    BY <2>2, <2>3 DEF Honest
  <2> QED
    BY <2>1, <2>3, <2>4
<1> QED
  BY <1>1, <1>2

LEMMA CreateKeeps ==
  ASSUME MaxNonces \in Nat, IInv, NEW id \in Ids, getOrCreateEscrow(id)
  PROVE  IInv'
<1>1. PICK d : d = store
  OBVIOUS
<1>2. d \in Copies /\ Honest(d, Confirmed, issued)
  BY <1>1 DEF IInv, Types
<1>3. PICK p, i : p = Confirmed /\ i = issued
  OBVIOUS
<1>4. created(d, id) \in Copies /\ Honest(created(d, id), p, i)
  BY <1>2, <1>3, CreatedHonest
<1>5. store' \in Copies /\ Honest(store', Confirmed', issued')
  BY <1>1, <1>3, <1>4, ConfirmedGrows DEF getOrCreateEscrow
<1> QED
  BY <1>5, ConfirmedGrows DEF IInv, Types, Nonces, PaidToConfirmed, getOrCreateEscrow

(* Starting a verification changes the nonce and the pending wallet. *)
LEMMA StartedEntry ==
  ASSUME MaxNonces \in Nat, NEW e \in Entry, NEW n \in 1..MaxNonces, NEW w \in Wallets
  PROVE  /\ started(e, n, w) \in Entry
         /\ started(e, n, w).verified = e.verified
         /\ started(e, n, w).verifiedWallet = e.verifiedWallet
         /\ started(e, n, w).nonce = n
         /\ started(e, n, w).pendingWallet = w
<1>1. n \in 0..MaxNonces
  OBVIOUS
<1>2. started(e, n, w) \in Entry
  BY <1>1 DEF started, Entry
<1> QED
  BY <1>2 DEF started, Entry

(* The nonce on file is the one made for the identity and the wallet; the  *)
(* wallet verified before stays the one confirmed.                         *)
LEMMA StartKeeps ==
  ASSUME IInv, NEW id \in Ids, NEW w \in Wallets, startVerification(id, w),
         MaxNonces \in Nat
  PROVE  IInv'
<1> DEFINE n == Cardinality(DOMAIN issued) + 1
<1>1. PICK k \in Nat : DOMAIN issued = 1..k
  BY DEF IInv, Nonces
<1>2. PICK i : i = issued
  OBVIOUS
<1>3. issued' = Put(issued, n, <<id, w>>) /\ n <= MaxNonces
  BY ConfirmedGrows DEF startVerification
<1>4. /\ n = k + 1 /\ n \notin DOMAIN issued /\ DOMAIN issued' = 1..(k + 1)
      /\ issued'[n] = <<id, w>> /\ \A m \in DOMAIN issued : issued'[m] = issued[m]
  BY <1>1, <1>2, <1>3, NextNonce
<1>5. n \in 1..MaxNonces
  BY <1>3, <1>4
<1>6. Grows
  BY <1>1, <1>4, ConfirmedGrows DEF Grows, startVerification
<1>7. Nonces'
  <2>1. k + 1 \in Nat /\ DOMAIN issued' = 1..(k + 1)
    BY <1>4
  <2>2. bio' \subseteq DOMAIN issued' /\ \A m \in bio' : issued'[m] \in Confirmed'
    BY <1>6, <1>4, ConfirmedGrows DEF IInv, Nonces, Grows, startVerification
  <2>3. \A m \in DOMAIN issued' : issued'[m] \in Ids \X Wallets
    <3>1. \A m \in 1..(k + 1) : m \in 1..k \/ m = k + 1
      OBVIOUS
    <3>2. <<id, w>> \in Ids \X Wallets
      OBVIOUS
    <3> HIDE DEF n
    <3> QED
      BY <1>1, <1>4, <3>1, <3>2 DEF IInv, Nonces
  <2>4. Confirmed' \subseteq Ids \X Wallets
    BY DEF IInv, Nonces, Confirmed, startVerification
  <2> QED
    BY <2>1, <2>2, <2>3, <2>4 DEF Nonces
<1> HIDE DEF n
<1>8. store' \in Copies /\ Honest(store', Confirmed', issued')
  <2>1. PICK d : d = store
    OBVIOUS
  <2>2. d \in Copies /\ Honest(d, Confirmed', issued') /\ id \in DOMAIN d /\ d[id] \in Entry
    BY <1>6, <2>1, StillHonest, CopyFacts, ConfirmedGrows DEF IInv, Types, Grows, startVerification
  <2>3. store' = [d EXCEPT ![id] = started(d[id], n, w)]
    BY <2>1, ConfirmedGrows DEF startVerification, n
  <2>4. /\ started(d[id], n, w) \in Entry
        /\ started(d[id], n, w).verified = d[id].verified
        /\ started(d[id], n, w).verifiedWallet = d[id].verifiedWallet
        /\ started(d[id], n, w).nonce = n
        /\ started(d[id], n, w).pendingWallet = w
    BY <1>5, <2>2, StartedEntry
  <2>5. PICK S \in SUBSET Ids : d \in [S -> Entry]
    BY <2>2 DEF Copies
  <2>6. store' \in [S -> Entry]
    BY <2>2, <2>3, <2>4, <2>5
  <2>7. n \in DOMAIN issued' /\ issued'[n] = <<id, w>>
    BY <1>4 DEF n
  <2>8. Honest(store', Confirmed', issued')
    <3> SUFFICES ASSUME NEW j \in DOMAIN store'
                 PROVE  /\ store'[j].verified => <<j, store'[j].verifiedWallet>> \in Confirmed'
                        /\ store'[j].nonce # 0 =>
                             /\ store'[j].nonce \in DOMAIN issued'
                             /\ issued'[store'[j].nonce] = <<j, store'[j].pendingWallet>>
      BY DEF Honest
    <3>1. CASE j = id
      <4>1. store'[j] = started(d[id], n, w)
        BY <2>2, <2>3, <2>5, <3>1
      <4>2. d[id].verified => <<id, d[id].verifiedWallet>> \in Confirmed'
        BY <2>2 DEF Honest
      <4> HIDE DEF Honest
      <4> QED
        BY <2>4, <2>7, <3>1, <4>1, <4>2
    <3>2. CASE j # id
      <4>1. store'[j] = d[j] /\ j \in DOMAIN d
        BY <2>3, <3>2
      <4> QED
        BY <2>2, <4>1 DEF Honest
    <3> QED
      BY <3>1, <3>2
  <2> QED
    BY <2>6, <2>8 DEF Copies
<1>9. ASSUME NEW r \in Requests PROVE Sound(req[r], Confirmed, issued)'
  <2>1. PICK q : q = req[r]
    OBVIOUS
  <2>2. Sound(q, Confirmed, issued)
    BY <2>1 DEF IInv
  <2>3. Honest(q.d, Confirmed', issued')
    BY <1>6, <2>2, StillHonest DEF Sound, Grows
  <2>4. Sound(q, Confirmed', issued')
    BY <1>6, <2>2, <2>3 DEF Sound, Grows
  <2> QED
    BY <2>1, <2>4, ConfirmedGrows DEF startVerification
<1> QED
  BY <1>7, <1>8, <1>9, ConfirmedGrows DEF IInv, Types, PaidToConfirmed, startVerification

-----------------------------------------------------------------------------
(* Verifications.                                                          *)

(* A confirmed wallet may be put on file as the verified one. *)
LEMMA VerifiedCopy ==
  ASSUME NEW d \in Copies, NEW id \in DOMAIN d, NEW w \in Wallets \cup {NoWallet},
         NEW p, NEW i, Honest(d, p, i), <<id, w>> \in p
  PROVE  LET saved == [d EXCEPT ![id].verified = TRUE, ![id].verifiedWallet = w] IN
         /\ saved \in Copies /\ id \in DOMAIN saved /\ saved[id].verified
         /\ Honest(saved, p, i)
<1> DEFINE e == [d[id] EXCEPT !.verified = TRUE, !.verifiedWallet = w]
           saved == [d EXCEPT ![id].verified = TRUE, ![id].verifiedWallet = w]
<1>1. PICK S \in SUBSET Ids : d \in [S -> Entry]
  BY DEF Copies
<1>2. /\ e \in Entry /\ e.verified /\ e.verifiedWallet = w
      /\ e.nonce = d[id].nonce /\ e.pendingWallet = d[id].pendingWallet
  <2>1. PICK x \in Entry : x = d[id]
    BY <1>1
  <2>2. [x EXCEPT !.verified = TRUE, !.verifiedWallet = w] \in Entry
    BY DEF Entry
  <2> QED
    BY <2>1, <2>2 DEF Entry
<1>3. saved = [d EXCEPT ![id] = e]
  BY <1>1
<1> HIDE DEF e, saved
<1>4. saved \in [S -> Entry] /\ DOMAIN saved = DOMAIN d /\ saved[id] = e
  BY <1>1, <1>2, <1>3
<1>5. \A j \in DOMAIN d : j # id => saved[j] = d[j]
  BY <1>1, <1>3
<1>6. Honest(saved, p, i)
  <2> SUFFICES ASSUME NEW j \in DOMAIN saved
               PROVE  /\ saved[j].verified => <<j, saved[j].verifiedWallet>> \in p
                      /\ saved[j].nonce # 0 =>
                           saved[j].nonce \in DOMAIN i /\ i[saved[j].nonce] = <<j, saved[j].pendingWallet>>
    BY DEF Honest
  <2>1. CASE j = id
    <3>1. d[id].nonce # 0 => d[id].nonce \in DOMAIN i /\ i[d[id].nonce] = <<id, d[id].pendingWallet>>
      BY DEF Honest
    <3> QED
      BY <1>2, <1>4, <2>1, <3>1
  <2>2. CASE j # id
    BY <1>4, <1>5, <2>2 DEF Honest
  <2> QED
    BY <2>1, <2>2
<1> QED
  BY <1>2, <1>4, <1>6 DEF Copies, saved

(* A sweep starts from a sound copy, which has just been saved. *)
LEMMA SweepKeeps ==
  ASSUME IInv, NEW r \in Requests, NEW id \in Ids, NEW d \in Copies, id \in DOMAIN d,
         d[id].verified, Honest(d, Confirmed, issued), Rests,
         store' = d, SweepFrom(r, id, d), UNCHANGED <<balance, got>>
  PROVE  IInv'
<1> DEFINE q == [Idle EXCEPT !.pc = "balance", !.id = id, !.d = d]
<1>1. q \in Request /\ q.d = d /\ q.pc = "balance" /\ q.id = id
  BY DEF Idle, Request
<1>2. Sound(q, Confirmed', issued')
  BY <1>1 DEF Sound, Rests
<1>3. req' = [req EXCEPT ![r] = q]
  BY DEF SweepFrom
<1> HIDE DEF q
<1>4. /\ req' \in [Requests -> Request]
      /\ \A s \in Requests : Sound(req'[s], Confirmed', issued')
  <2>1. PICK x : x = q
    OBVIOUS
  <2> QED
    BY <1>1, <1>2, <1>3, <2>1, RestsGrows, OneRequest
<1> QED
  BY <1>4 DEF IInv, Types, Nonces, PaidToConfirmed, Rests

(* The copy is taken from the store as it is. *)
LEMMA CheckKeeps ==
  ASSUME IInv, NEW r \in Requests, NEW id \in Ids, checkVerification(r, id)
  PROVE  IInv'
<1>1. PICK d : d = store
  OBVIOUS
<1>2. d \in Copies /\ Honest(d, Confirmed, issued) /\ id \in DOMAIN d
  BY <1>1, ConfirmedGrows DEF IInv, Types, checkVerification
<1>3. PICK q : q = [Idle EXCEPT !.pc = "bio", !.id = id, !.d = d]
  OBVIOUS
<1>4. q \in Request /\ q.d = d /\ q.pc = "bio" /\ q.id = id
  BY <1>2, <1>3 DEF Idle, Request
<1>5. Sound(q, Confirmed', issued')
  BY <1>2, <1>4, ConfirmedGrows DEF Sound, checkVerification
<1>6. req' = [req EXCEPT ![r] = q] /\ Rests
  BY <1>1, <1>3, ConfirmedGrows DEF checkVerification, Rests
<1>7. /\ req' \in [Requests -> Request]
      /\ \A s \in Requests : Sound(req'[s], Confirmed', issued')
  BY <1>4, <1>5, <1>6, RestsGrows, OneRequest
<1> QED
  BY <1>7, ConfirmedGrows DEF IInv, Types, Nonces, PaidToConfirmed, checkVerification

(* On a local validator every pair counts as confirmed. *)
LEMMA OverriddenKeeps ==
  ASSUME IInv, NEW r \in Requests, NEW id \in Ids, CheckOverridden(r, id)
  PROVE  IInv'
<1>1. PICK d, w, p, i : d = store /\ w = store[id].pendingWallet /\ p = Confirmed /\ i = issued
  OBVIOUS
<1>2. /\ d \in Copies /\ id \in DOMAIN d /\ Honest(d, p, i)
      /\ d[id].nonce # 0 /\ Local
  BY <1>1 DEF IInv, Types, CheckOverridden
<1>3. i[d[id].nonce] = <<id, w>> /\ d[id].nonce \in DOMAIN i
  BY <1>1, <1>2 DEF Honest
<1>4. <<id, w>> \in Ids \X Wallets /\ p = Ids \X Wallets
  BY <1>1, <1>2, <1>3 DEF IInv, Nonces, Confirmed
<1>5. w \in Wallets \cup {NoWallet} /\ <<id, w>> \in p
  BY <1>4
<1>6. PICK saved : saved = [d EXCEPT ![id].verified = TRUE, ![id].verifiedWallet = w]
  OBVIOUS
<1>7. saved \in Copies /\ id \in DOMAIN saved /\ saved[id].verified /\ Honest(saved, p, i)
  BY <1>2, <1>5, <1>6, VerifiedCopy
<1>8. /\ store' = saved /\ SweepFrom(r, id, saved) /\ Rests
      /\ UNCHANGED <<balance, got>>
  BY <1>1, <1>6, ConfirmedGrows DEF CheckOverridden, Verify, pending, Rests
<1> QED
  BY <1>1, <1>7, <1>8, SweepKeeps

(* The nonce of the copy is in the bio, so the owner confirmed the pending *)
(* wallet of the copy, whatever verifications were started since.          *)
LEMMA BioFoundKeeps ==
  ASSUME IInv, NEW r \in Requests, BioFound(r)
  PROVE  IInv'
<1>1. PICK q : q = req[r]
  OBVIOUS
<1>2. q \in Request /\ Sound(q, Confirmed, issued) /\ q.pc = "bio" /\ q.d[q.id].nonce \in bio
  BY <1>1, ConfirmedGrows DEF IInv, Types, BioFound, found
<1>3. q.d \in Copies /\ q.id \in DOMAIN q.d /\ Honest(q.d, Confirmed, issued)
  BY <1>2 DEF Request, Sound
<1>4. q.d[q.id].nonce # 0 /\ issued[q.d[q.id].nonce] \in Confirmed
  BY <1>2 DEF IInv, Nonces
<1>5. <<q.id, q.d[q.id].pendingWallet>> \in Confirmed
  BY <1>3, <1>4 DEF Honest
<1>6. q.id \in Ids /\ q.d[q.id] \in Entry
  BY <1>3, CopyFacts
<1>7. q.d[q.id].pendingWallet \in Wallets \cup {NoWallet}
  BY <1>6 DEF Entry
<1>8. PICK d, w : d = q.d /\ w = q.d[q.id].pendingWallet
  OBVIOUS
<1>9. PICK saved : saved = [d EXCEPT ![q.id].verified = TRUE, ![q.id].verifiedWallet = w]
  OBVIOUS
<1>10. PICK p, i : p = Confirmed /\ i = issued
  OBVIOUS
<1>11. saved \in Copies /\ q.id \in DOMAIN saved /\ saved[q.id].verified /\ Honest(saved, p, i)
  <2>1. /\ d \in Copies /\ q.id \in DOMAIN d /\ w \in Wallets \cup {NoWallet}
        /\ Honest(d, p, i) /\ <<q.id, w>> \in p
    BY <1>3, <1>5, <1>7, <1>8, <1>10
  <2> QED
    BY <1>9, <2>1, VerifiedCopy
<1>12. /\ store' = saved /\ SweepFrom(r, q.id, saved) /\ Rests
       /\ UNCHANGED <<balance, got>>
  BY <1>1, <1>8, <1>9, ConfirmedGrows DEF BioFound, Verify, pending, Rests
<1> QED
  BY <1>6, <1>10, <1>11, <1>12, SweepKeeps

(* Whoever logs in as the user of the identity confirms the wallet.        *)
LEMMA CallbackKeeps ==
  ASSUME IInv, NEW r \in Requests, NEW state \in XStates, NEW user \in XIds \cup {NoWallet},
         handleXCallback(r, state, user)
  PROVE  IInv'
<1>1. PICK q : q = [Idle EXCEPT !.pc = "login", !.id = state[1], !.wallet = state[2], !.user = user]
  OBVIOUS
<1>2. state[1] \in XIds /\ state[2] \in Wallets /\ state = <<state[1], state[2]>>
  BY DEF XStates
<1>3. /\ q \in Request /\ q.d = << >> /\ q.pc = "login" /\ q.id = state[1]
      /\ q.wallet = state[2] /\ q.user = user
  BY <1>1, <1>2, CopyFacts DEF Idle, Request, Ids
<1>4. Sound(q, Confirmed', issued')
  <2>1. user = state[1] => state \in Confirmed'
    BY <1>2 DEF Confirmed, Ids, handleXCallback
  <2> QED
    BY <1>2, <1>3, <2>1 DEF Sound, Honest, Ids
<1>5. Grows
  BY ConfirmedGrows DEF Grows, handleXCallback
<1>6. req' = [req EXCEPT ![r] = q]
  BY <1>1, ConfirmedGrows DEF handleXCallback
<1>7. /\ req' \in [Requests -> Request]
      /\ \A s \in Requests : Sound(req'[s], Confirmed', issued')
  BY <1>3, <1>4, <1>5, <1>6, OneRequest
<1>8. Honest(store, Confirmed, issued)'
  <2>1. PICK d : d = store
    OBVIOUS
  <2>2. Honest(d, Confirmed', issued')
    BY <1>5, <2>1, StillHonest DEF IInv, Grows
  <2> QED
    BY <2>1, <2>2, ConfirmedGrows DEF handleXCallback
<1>9. Confirmed' \subseteq Ids \X Wallets
  BY <1>2 DEF IInv, Nonces, Confirmed, Ids, handleXCallback
<1> QED
  BY <1>5, <1>7, <1>8, <1>9 DEF IInv, Types, Nonces, PaidToConfirmed, Grows, handleXCallback

(* The store the login changes is the present one.                         *)
LEMMA ConfirmedKeeps ==
  ASSUME MaxNonces \in Nat, IInv, NEW r \in Requests, LoginConfirmed(r)
  PROVE  IInv'
<1>1. PICK q, s, p, i : q = req[r] /\ s = store /\ p = Confirmed /\ i = issued
  OBVIOUS
<1>2. q \in Request /\ Sound(q, p, i) /\ q.pc = "login" /\ q.user = q.id
  BY <1>1, ConfirmedGrows DEF IInv, Types, LoginConfirmed, same_user
<1>3. q.id \in Ids /\ <<q.id, q.wallet>> \in p /\ q.wallet \in Wallets \cup {NoWallet}
  BY <1>2 DEF Sound, Request
<1>4. s \in Copies /\ Honest(s, p, i)
  BY <1>1 DEF IInv, Types
<1>5. PICK d : d = created(s, q.id)
  OBVIOUS
<1>6. d \in Copies /\ q.id \in DOMAIN d /\ Honest(d, p, i)
  BY <1>3, <1>4, <1>5, CreatedHonest
<1>7. PICK saved : saved = [d EXCEPT ![q.id].verified = TRUE, ![q.id].verifiedWallet = q.wallet]
  OBVIOUS
<1>8. saved \in Copies /\ q.id \in DOMAIN saved /\ saved[q.id].verified /\ Honest(saved, p, i)
  <2>1. PICK id, w : id = q.id /\ w = q.wallet
    OBVIOUS
  <2>2. /\ d \in Copies /\ id \in DOMAIN d /\ w \in Wallets \cup {NoWallet}
        /\ Honest(d, p, i) /\ <<id, w>> \in p
        /\ saved = [d EXCEPT ![id].verified = TRUE, ![id].verifiedWallet = w]
    BY <1>3, <1>6, <1>7, <2>1
  <2>3. saved \in Copies /\ id \in DOMAIN saved /\ saved[id].verified /\ Honest(saved, p, i)
    BY <2>2, VerifiedCopy
  <2> QED
    BY <2>1, <2>3
<1>9. /\ store' = saved /\ SweepFrom(r, q.id, saved) /\ Rests
      /\ UNCHANGED <<balance, got>>
  BY <1>1, <1>5, <1>7, ConfirmedGrows DEF LoginConfirmed, Rests
<1> QED
  BY <1>1, <1>3, <1>8, <1>9, SweepKeeps

-----------------------------------------------------------------------------
(* Sweeps.                                                                 *)

(* A payment goes to the wallet verified in the copy of the sweep, which   *)
(* the owner confirmed.                                                    *)
LEMMA PaysProven ==
  ASSUME IInv, NEW r \in Requests, req[r].pc = "release", Pays(r), Confirmed' = Confirmed
  PROVE  /\ balance' \in [Ids -> Nat] /\ got' \in [Ids -> [Wallets -> Nat]]
         /\ PaidToConfirmed'
<1>1. PICK q : q = req[r]
  OBVIOUS
<1>2. q \in Request /\ Sound(q, Confirmed, issued) /\ q.pc = "release"
  BY <1>1 DEF IInv, Types
<1>3. q.id \in DOMAIN q.d /\ q.d[q.id].verified /\ Honest(q.d, Confirmed, issued) /\ q.d \in Copies
  BY <1>2 DEF Sound, Request
<1>4. <<q.id, q.d[q.id].verifiedWallet>> \in Confirmed /\ q.id \in Ids
  BY <1>3, CopyFacts DEF Honest
<1>5. PICK w : w = q.d[q.id].verifiedWallet
  OBVIOUS
<1>6. PICK a : a = balance[q.id]
  OBVIOUS
<1>7. a \in Nat
  BY <1>4, <1>6 DEF IInv, Types
<1>8. /\ got' = [got EXCEPT ![q.id][w] = @ + a]
      /\ balance' = [balance EXCEPT ![q.id] = @ - a]
  BY <1>1, <1>5, <1>6 DEF Pays, amount, recipient
<1>9. balance' \in [Ids -> Nat]
  BY <1>4, <1>6, <1>7, <1>8 DEF IInv, Types
<1>10. got \in [Ids -> [Wallets -> Nat]]
  BY DEF IInv, Types
<1>11. got' \in [Ids -> [Wallets -> Nat]]
  <2>1. PICK row \in [Wallets -> Nat] : row = got[q.id]
    BY <1>4, <1>10
  <2>2. [row EXCEPT ![w] = @ + a] \in [Wallets -> Nat]
    <3>1. CASE w \in Wallets
      <4>1. row[w] + a \in Nat
        BY <1>7, <3>1
      <4> QED
        BY <3>1, <4>1
    <3>2. CASE w \notin Wallets
      <4>1. [row EXCEPT ![w] = @ + a] = row
        BY <3>2
      <4> QED
        BY <4>1
    <3> QED
      BY <3>1, <3>2
  <2>3. got' = [got EXCEPT ![q.id] = [row EXCEPT ![w] = @ + a]]
    BY <1>8, <2>1
  <2> QED
    BY <1>4, <1>10, <2>2, <2>3
<1>12. \A j \in Ids, v \in Wallets : got'[j][v] # got[j][v] => j = q.id /\ v = w
  BY <1>4, <1>8, <1>10
<1>13. PaidToConfirmed'
  BY <1>4, <1>5, <1>12 DEF IInv, PaidToConfirmed
<1> QED
  BY <1>9, <1>11, <1>13

LEMMA BalanceReadKeeps ==
  ASSUME IInv, NEW r \in Requests, BalanceRead(r)
  PROVE  IInv'
<1>1. Rests /\ UNCHANGED <<store, balance, got>>
  BY ConfirmedGrows DEF BalanceRead, Rests
<1>2. CASE Ends(r)
  BY <1>1, <1>2, Leaving
<1>3. CASE ~Ends(r)
  <2>1. PICK x, b : x = req[r] /\ b = balance[req[r].id]
    OBVIOUS
  <2>2. x \in Request /\ Sound(x, Confirmed, issued) /\ x.pc = "balance"
    BY <2>1, ConfirmedGrows DEF IInv, Types, BalanceRead
  <2>3. x.id \in Ids
    BY <2>2, CopyFacts DEF Sound, Request
  <2>4. b \in Nat
    BY <2>1, <2>3 DEF IInv, Types
  <2>5. PICK q : q = [x EXCEPT !.pc = "release", !.bal = b]
    OBVIOUS
  <2>6. q \in Request /\ q.pc = "release" /\ q.d = x.d /\ q.id = x.id
    BY <2>2, <2>4, <2>5 DEF Request
  <2>7. Sound(q, Confirmed', issued')
    BY <1>1, <2>2, <2>6 DEF Sound, Rests
  <2>8. req' = [req EXCEPT ![r] = q]
    BY <1>3, <2>1, <2>5, ConfirmedGrows DEF BalanceRead, IInv, Types
  <2>9. /\ req' \in [Requests -> Request]
        /\ \A s \in Requests : Sound(req'[s], Confirmed', issued')
    BY <1>1, <2>6, <2>7, <2>8, RestsGrows, OneRequest
  <2> QED
    BY <1>1, <2>9 DEF IInv, Types, Nonces, PaidToConfirmed, Rests
<1> QED
  BY <1>2, <1>3

LEMMA ReleaseKeeps ==
  ASSUME IInv, NEW r \in Requests, Release(r)
  PROVE  IInv'
<1>1. Rests /\ store' = store
  BY ConfirmedGrows DEF Release, Rests
<1>2. PICK x : x = req[r]
  OBVIOUS
<1>3. x \in Request /\ Sound(x, Confirmed, issued) /\ x.pc = "release"
  BY <1>2, ConfirmedGrows DEF IInv, Types, Release
<1>4. PICK q : q = [x EXCEPT !.pc = "record"]
  OBVIOUS
<1>5. q \in Request /\ q.pc = "record" /\ q.d = x.d /\ q.id = x.id
  BY <1>3, <1>4 DEF Request
<1>6. Sound(q, Confirmed', issued')
  BY <1>1, <1>3, <1>5 DEF Sound, Rests
<1>7. req' = [req EXCEPT ![r] = q]
  BY <1>2, <1>4, ConfirmedGrows DEF Release, IInv, Types
<1>8. /\ req' \in [Requests -> Request]
      /\ \A s \in Requests : Sound(req'[s], Confirmed', issued')
  BY <1>1, <1>5, <1>6, <1>7, RestsGrows, OneRequest
<1>9. balance' \in [Ids -> Nat] /\ got' \in [Ids -> [Wallets -> Nat]] /\ PaidToConfirmed'
  BY <1>1, PaysProven, ConfirmedGrows DEF Release, Rests
<1> QED
  BY <1>1, <1>8, <1>9 DEF IInv, Types, Nonces, Rests

LEMMA ReleaseFailsKeeps ==
  ASSUME IInv, NEW r \in Requests, ReleaseFails(r)
  PROVE  IInv'
<1>1. Rests /\ store' = store /\ Ends(r)
  BY ConfirmedGrows DEF ReleaseFails, after_failure, Rests
<1>2. CASE UNCHANGED <<balance, got>>
  BY <1>1, <1>2, Leaving
<1>3. CASE Pays(r)
  <2>1. /\ req' \in [Requests -> Request]
        /\ \A s \in Requests : Sound(req'[s], Confirmed', issued')
    BY <1>1, IdleSound, RestsGrows, OneRequest DEF Ends
  <2>2. balance' \in [Ids -> Nat] /\ got' \in [Ids -> [Wallets -> Nat]] /\ PaidToConfirmed'
    BY <1>1, <1>3, PaysProven, ConfirmedGrows DEF ReleaseFails, Rests
  <2> QED
    BY <1>1, <2>1, <2>2 DEF IInv, Types, Nonces, Rests
<1> QED
  BY <1>2, <1>3, ConfirmedGrows DEF ReleaseFails

(* The sweep saves its copy, as old as its first await, with the amount.   *)
LEMMA RecordKeeps ==
  ASSUME IInv, NEW r \in Requests, Record(r)
  PROVE  IInv'
<1>1. Rests /\ Ends(r) /\ UNCHANGED <<balance, got>>
  BY ConfirmedGrows DEF Record, Rests
<1>2. /\ req' \in [Requests -> Request]
      /\ \A s \in Requests : Sound(req'[s], Confirmed', issued')
  BY <1>1, IdleSound, RestsGrows, OneRequest DEF Ends
<1>3. PICK q : q = req[r]
  OBVIOUS
<1>4. q \in Request /\ Sound(q, Confirmed, issued) /\ q.pc = "record"
  BY <1>3, ConfirmedGrows DEF IInv, Types, Record
<1>5. q.d \in Copies /\ q.id \in DOMAIN q.d /\ Honest(q.d, Confirmed, issued) /\ q.bal \in Nat
  BY <1>4 DEF Request, Sound
<1>6. PICK S \in SUBSET Ids : q.d \in [S -> Entry]
  BY <1>5 DEF Copies
<1>7. PICK e : e = [q.d[q.id] EXCEPT !.swept = @ + q.bal]
  OBVIOUS
<1>8. store' = [q.d EXCEPT ![q.id] = e]
  BY <1>3, <1>7, ConfirmedGrows DEF Record, swept
<1>9. /\ e \in Entry /\ e.verified = q.d[q.id].verified
      /\ e.verifiedWallet = q.d[q.id].verifiedWallet
      /\ e.nonce = q.d[q.id].nonce /\ e.pendingWallet = q.d[q.id].pendingWallet
  <2>1. PICK x \in Entry : x = q.d[q.id]
    BY <1>5, <1>6
  <2> QED
    BY <1>5, <1>7, <2>1 DEF Entry
<1>10. /\ store' \in [S -> Entry] /\ DOMAIN store' = S /\ store'[q.id] = e
       /\ \A j \in S : j # q.id => store'[j] = q.d[j]
  BY <1>5, <1>6, <1>8, <1>9
<1>11. Honest(store', Confirmed, issued)
  <2> SUFFICES ASSUME NEW j \in S
               PROVE  /\ store'[j].verified => <<j, store'[j].verifiedWallet>> \in Confirmed
                      /\ store'[j].nonce # 0 =>
                           /\ store'[j].nonce \in DOMAIN issued
                           /\ issued[store'[j].nonce] = <<j, store'[j].pendingWallet>>
    BY <1>10 DEF Honest
  <2>1. /\ q.d[j].verified => <<j, q.d[j].verifiedWallet>> \in Confirmed
        /\ q.d[j].nonce # 0 =>
             q.d[j].nonce \in DOMAIN issued /\ issued[q.d[j].nonce] = <<j, q.d[j].pendingWallet>>
    BY <1>5, <1>6 DEF Honest
  <2> QED
    BY <1>9, <1>10, <2>1
<1> QED
  BY <1>1, <1>2, <1>10, <1>11 DEF IInv, Types, Nonces, PaidToConfirmed, Copies, Rests

-----------------------------------------------------------------------------
(* The theorems.                                                           *)

(* Every step keeps the invariant. *)
LEMMA StepKeeps ==
  ASSUME MaxNonces \in Nat, IInv, [Next]_vars
  PROVE  IInv'
<1>1. CASE UNCHANGED vars
  <2>1. UNCHANGED <<store, req, bio, issued, balance, got, Confirmed>>
    BY <1>1, ConfirmedGrows DEF vars
  <2> QED
    BY <2>1 DEF IInv, Types, Nonces, PaidToConfirmed
<1>2. ASSUME NEW id \in Ids, Fees(id) \/ getOrCreateEscrow(id) PROVE IInv'
  BY <1>2, FeesKeeps, CreateKeeps
<1>3. ASSUME NEW id \in Ids, NEW w \in Wallets, startVerification(id, w) PROVE IInv'
  BY <1>3, StartKeeps
<1>4. ASSUME NEW n \in 1..MaxNonces, ShowNonce(n) PROVE IInv'
  BY <1>4, ShowNonceKeeps
<1>5. ASSUME NEW r \in Requests, Step(r) \/ BalanceFails(r) PROVE IInv'
  <2>1. CASE BioFound(r)
    BY <2>1, BioFoundKeeps
  <2>2. CASE BioNotFound(r) \/ LoginRefused(r) \/ BalanceFails(r)
    <3>1. Ends(r) /\ Rests /\ UNCHANGED <<store, balance, got>>
      BY <2>2, ConfirmedGrows DEF BioNotFound, LoginRefused, BalanceFails, Rests
    <3> QED
      BY <3>1, Leaving
  <2>3. CASE LoginConfirmed(r)
    BY <2>3, ConfirmedKeeps
  <2>4. CASE BalanceRead(r)
    BY <2>4, BalanceReadKeeps
  <2>5. CASE Release(r)
    BY <2>5, ReleaseKeeps
  <2>6. CASE ReleaseFails(r)
    BY <2>6, ReleaseFailsKeeps
  <2>7. CASE Record(r)
    BY <2>7, RecordKeeps
  <2> QED
    BY <1>5, <2>1, <2>2, <2>3, <2>4, <2>5, <2>6, <2>7 DEF Step
<1>6. ASSUME NEW r \in Requests, NEW id \in Ids,
             checkVerification(r, id) \/ CheckOverridden(r, id)
      PROVE  IInv'
  BY <1>6, CheckKeeps, OverriddenKeeps
<1>7. ASSUME NEW r \in Requests, NEW state \in XStates, NEW user \in XIds \cup {NoWallet},
             handleXCallback(r, state, user)
      PROVE  IInv'
  BY <1>7, CallbackKeeps
<1> QED
  BY <1>1, <1>2, <1>3, <1>4, <1>5, <1>6, <1>7 DEF Next

(* The invariant holds in every reachable state. *)
THEOREM EscrowInvariance ==
  ASSUME MaxNonces \in Nat
  PROVE  Spec => []IInv
<1>1. Init => IInv
  BY AtFirst
<1>2. IInv /\ [Next]_vars => IInv'
  BY StepKeeps
<1> QED
  BY <1>1, <1>2, PTL DEF Spec

(* It implies the types. *)
LEMMA EscrowTypes == IInv => TypeOK
<1> SUFFICES ASSUME IInv PROVE TypeOK
  OBVIOUS
<1>1. DOMAIN store \subseteq Ids /\ \A id \in DOMAIN store : store[id] \in Entry
  BY CopyFacts DEF IInv, Types
<1>2. ASSUME NEW r \in Requests
      PROVE  /\ req[r].pc \in {"idle", "bio", "login", "balance", "release", "record"}
             /\ req[r].pc \notin {"idle", "login"} => req[r].id \in DOMAIN req[r].d
  <2>1. req[r] \in Request /\ Sound(req[r], Confirmed, issued)
    BY DEF IInv, Types
  <2> QED
    BY <2>1 DEF Request, Sound
<1> QED
  BY <1>1, <1>2 DEF IInv, Nonces, TypeOK

(* Fees that release_escrow pays for an identity only ever reach wallets   *)
(* its owner confirmed: however many requests save old copies of           *)
(* escrows.json over each other, whatever verifications for other wallets  *)
(* run meanwhile, and whichever calls fail.                                *)
THEOREM EscrowsPayProven ==
  ASSUME MaxNonces \in Nat, ~Local
  PROVE  Spec => []PaidToProven
<1>1. IInv => PaidToProven
  BY DEF IInv, PaidToConfirmed, PaidToProven, Confirmed
<1> QED
  BY <1>1, EscrowInvariance, PTL
-----------------------------------------------------------------------------
(* One request at a time.                                                  *)

(* At most one request is under way. *)
OneAtATime == \A q, r \in Requests : q = r \/ "idle" \in {req[q].pc, req[r].pc}

(* Copy d of the store is as old as the verifications and new entries that *)
(* were made since: it misses no sweep and no verified identity of s.      *)
Agrees(d, s) ==
  /\ DOMAIN d \subseteq DOMAIN s
  /\ \A id \in DOMAIN d : d[id].verified = s[id].verified /\ d[id].swept = s[id].swept
  /\ \A id \in DOMAIN s \ DOMAIN d : ~s[id].verified /\ s[id].swept = 0

(* The sweep under way will claim no more than the escrow holds, or than   *)
(* has been released once it was.                                          *)
Covered(q) ==
  /\ q.pc = "release" => q.bal <= balance[q.id]
  /\ q.pc = "record" => q.d[q.id].swept + q.bal <= Released(q.id)

Serial ==
  /\ OneAtATime /\ SweepsWereReleased
  /\ \A r \in Requests :
       /\ req[r].pc \notin {"idle", "login"} => Agrees(req[r].d, store)
       /\ Covered(req[r])

(* What the proofs need of SumFunction over the wallets: so sums add up,   *)
(* when the wallets are finitely many (FamilySum and FamilyUpdate).        *)
SumsAdd ==
  \A f \in [Wallets -> Nat] :
    /\ SumFunction(f) \in Nat
    /\ \A w \in Wallets, g \in [Wallets -> Nat] :
         (\A v \in Wallets : v # w => g[v] = f[v]) => SumFunction(g) = SumFunction(f) - f[w] + g[w]

(* What was released is a number. *)
LEMMA ReleasedNat ==
  ASSUME SumsAdd, IInv, NEW id \in Ids
  PROVE  Released(id) \in Nat
  BY DEF SumsAdd, IInv, Types, Released

(* A payment adds what the escrow held to what was released. *)
LEMMA PaysReleases ==
  ASSUME SumsAdd, IInv, IInv', NEW r \in Requests, req[r].pc = "release", Pays(r),
         NEW x, x = req[r].id
  PROVE  /\ Released(x)' = Released(x) + balance[x]
         /\ \A id \in Ids : Released(id) <= Released(id)'
<1>1. PICK w, a : w = recipient(r) /\ a = balance[x]
  OBVIOUS
<1>2. x \in Ids /\ w \in Wallets
  <2>1. PICK q : q = req[r]
    OBVIOUS
  <2>2. q \in Request /\ Sound(q, Confirmed, issued) /\ q.pc = "release"
    BY <2>1 DEF IInv, Types
  <2>3. <<q.id, q.d[q.id].verifiedWallet>> \in Confirmed
    BY <2>2 DEF Sound, Honest
  <2> QED
    BY <1>1, <2>1, <2>3 DEF IInv, Nonces, recipient
<1>3. a \in Nat /\ got \in [Ids -> [Wallets -> Nat]] /\ got' \in [Ids -> [Wallets -> Nat]]
  BY <1>1, <1>2 DEF IInv, Types
<1>4. got' = [got EXCEPT ![x][w] = @ + a]
  BY <1>1 DEF Pays, amount
<1>5. \A id \in Ids : id # x => got'[id] = got[id]
  BY <1>3, <1>4
<1>6. PICK f, g : f = got[x] /\ g = got'[x]
  OBVIOUS
<1>7. f \in [Wallets -> Nat] /\ g \in [Wallets -> Nat]
  BY <1>2, <1>3, <1>6
<1>8. g[w] = f[w] + a /\ \A v \in Wallets : v # w => g[v] = f[v]
  BY <1>2, <1>3, <1>4, <1>6
<1>9. /\ SumFunction(f) \in Nat /\ f[w] \in Nat
      /\ SumFunction(g) = SumFunction(f) - f[w] + g[w]
  BY <1>2, <1>7, <1>8 DEF SumsAdd
<1>10. SumFunction(g) = SumFunction(f) + a
  BY <1>3, <1>8, <1>9
<1>11. Released(x)' = Released(x) + a
  BY <1>6, <1>10 DEF Released
<1>12. ASSUME NEW id \in Ids PROVE Released(id) <= Released(id)'
  <2>1. Released(id) \in Nat
    BY ReleasedNat
  <2>2. CASE id = x
    BY <1>3, <1>11, <2>1, <2>2
  <2>3. CASE id # x
    <3>1. Released(id)' = Released(id)
      BY <1>5, <2>3 DEF Released
    <3> QED
      BY <2>1, <3>1
  <2> QED
    BY <2>2, <2>3
<1> QED
  BY <1>1, <1>11, <1>12

(* The rests of Serial for the request that moves; the others are idle.    *)
LEMMA SerialRequest ==
  ASSUME IInv, IInv', NEW r \in Requests, NEW q, req' = [req EXCEPT ![r] = q],
         OneAtATime', q.pc # "idle", SweepsWereReleased', Covered(q)',
         q.pc # "login" => Agrees(q.d, store')
  PROVE  Serial'
<1>1. req'[r] = q
  BY DEF IInv, Types
<1>2. ASSUME NEW s \in Requests, s # r PROVE req'[s].pc = "idle"
  BY <1>1, <1>2 DEF OneAtATime
<1>3. ASSUME NEW s \in Requests
      PROVE  /\ req'[s].pc \notin {"idle", "login"} => Agrees(req'[s].d, store')
             /\ Covered(req[s])'
  <2>1. CASE s = r
    BY <1>1, <2>1 DEF Covered
  <2>2. CASE s # r
    BY <1>2, <2>2 DEF Covered
  <2> QED
    BY <2>1, <2>2
<1> QED
  BY <1>3 DEF Serial

(* A request that ends leaves all of them idle. *)
LEMMA SerialEnds ==
  ASSUME IInv, OneAtATime, NEW r \in Requests, req[r].pc # "idle", Ends(r), SweepsWereReleased'
  PROVE  Serial'
<1>1. ASSUME NEW s \in Requests PROVE req'[s].pc = "idle"
  <2>1. CASE s = r
    BY <2>1 DEF Ends, Idle, IInv, Types
  <2>2. CASE s # r
    BY <2>2 DEF Ends, OneAtATime, IInv, Types
  <2> QED
    BY <2>1, <2>2
<1> QED
  BY <1>1 DEF Serial, OneAtATime, Covered

(* Saving a copy that misses nothing, in which one more identity counts as *)
(* verified, and sweeping its escrow.                                      *)
LEMMA SerialVerify ==
  ASSUME IInv, IInv', Serial, OneAtATime', NEW r \in Requests, NEW d \in Copies,
         NEW id \in DOMAIN d, NEW w, NEW saved,
         saved = [d EXCEPT ![id].verified = TRUE, ![id].verifiedWallet = w],
         \A j \in DOMAIN d : d[j].swept <= Released(j),
         \A j \in DOMAIN store : store[j].verified => j \in DOMAIN d /\ d[j].verified,
         store' = saved, SweepFrom(r, id, saved), got' = got
  PROVE  Serial' /\ OwnershipKept
<1>1. PICK S \in SUBSET Ids : d \in [S -> Entry]
  BY DEF Copies
<1>2. /\ DOMAIN saved = DOMAIN d
      /\ \A j \in DOMAIN d : saved[j].swept = d[j].swept /\ (d[j].verified => saved[j].verified)
  <2>1. PICK e \in Entry : e = d[id]
    BY <1>1
  <2>2. PICK f : f = [e EXCEPT !.verified = TRUE, !.verifiedWallet = w]
    OBVIOUS
  <2>3. f.swept = e.swept /\ f.verified
    BY <2>2 DEF Entry
  <2>4. saved = [d EXCEPT ![id] = f]
    BY <1>1, <2>1, <2>2
  <2> QED
    BY <1>1, <2>1, <2>3, <2>4
<1>3. PICK q : q = [Idle EXCEPT !.pc = "balance", !.id = id, !.d = saved]
  OBVIOUS
<1>4. q.pc = "balance" /\ q.d = saved /\ req' = [req EXCEPT ![r] = q]
  BY <1>3 DEF Idle, SweepFrom
<1>5. \A j : Released(j)' = Released(j)
  BY DEF Released
<1>6. SweepsWereReleased'
  BY <1>2, <1>5 DEF SweepsWereReleased
<1>7. Agrees(q.d, store')
  BY <1>4 DEF Agrees
<1>8. Covered(q)'
  BY <1>4 DEF Covered
<1>9. Serial'
  BY <1>4, <1>6, <1>7, <1>8, SerialRequest
<1> QED
  BY <1>2, <1>9 DEF OwnershipKept

(* What does not touch requests.                                           *)
LEMMA SerialFees ==
  ASSUME IInv, IInv', Serial, NEW id \in Ids, Fees(id)
  PROVE  Serial' /\ OwnershipKept
<1>1. UNCHANGED <<store, req, got>>
  BY DEF Fees
<1>2. \A j \in Ids : balance[j] <= balance'[j]
  BY DEF Fees, IInv, Types
<1>3. \A j : Released(j)' = Released(j)
  BY <1>1 DEF Released
<1>4. ASSUME NEW r \in Requests PROVE Covered(req[r])'
  <2>1. PICK q : q = req[r]
    OBVIOUS
  <2>2. q \in Request /\ Sound(q, Confirmed, issued) /\ Covered(q)
    BY <2>1 DEF IInv, Types, Serial
  <2>3. q.pc = "release" => q.id \in Ids /\ q.bal \in Nat
    BY <2>2, CopyFacts DEF Sound, Request
  <2>4. q.pc = "release" => balance[q.id] \in Nat /\ balance'[q.id] \in Nat
    BY <2>3 DEF IInv, Types
  <2>5. Covered(q)'
    BY <1>2, <1>3, <2>2, <2>3, <2>4 DEF Covered
  <2> QED
    BY <1>1, <2>1, <2>5 DEF Covered
<1> QED
  BY <1>1, <1>3, <1>4 DEF Serial, OneAtATime, SweepsWereReleased, OwnershipKept

(* Only the store changes, no sweep and no verification is lost.           *)
LEMMA SerialStore ==
  ASSUME IInv, Serial, UNCHANGED <<req, balance, got>>, NEW id \in Ids,
         DOMAIN store' = DOMAIN store \cup {id},
         \A j \in DOMAIN store :
           store'[j].verified = store[j].verified /\ store'[j].swept = store[j].swept,
         id \notin DOMAIN store => ~store'[id].verified /\ store'[id].swept = 0, SumsAdd
  PROVE  Serial' /\ OwnershipKept
<1>1. \A j : Released(j)' = Released(j)
  BY DEF Released
<1>2. SweepsWereReleased'
  <2> SUFFICES ASSUME NEW j \in DOMAIN store' PROVE store'[j].swept <= Released(j)'
    BY DEF SweepsWereReleased
  <2>1. CASE j \in DOMAIN store
    BY <1>1, <2>1 DEF Serial, SweepsWereReleased
  <2>2. CASE j \notin DOMAIN store
    BY <1>1, <2>2, ReleasedNat
  <2> QED
    BY <2>1, <2>2
<1>3. ASSUME NEW d, Agrees(d, store) PROVE Agrees(d, store')
  BY <1>3 DEF Agrees
<1>4. ASSUME NEW r \in Requests
      PROVE  /\ req[r].pc \notin {"idle", "login"} => Agrees(req'[r].d, store')
             /\ Covered(req[r])'
  BY <1>1, <1>3 DEF Serial, Covered
<1> QED
  BY <1>2, <1>4 DEF Serial, OneAtATime, OwnershipKept

LEMMA SerialCreate ==
  ASSUME SumsAdd, MaxNonces \in Nat, IInv, Serial, NEW id \in Ids, getOrCreateEscrow(id)
  PROVE  Serial' /\ OwnershipKept
<1>1. PICK d : d = store
  OBVIOUS
<1>2. PICK e : e = NoEntry
  OBVIOUS
<1>3. e \in Entry /\ ~e.verified /\ e.swept = 0
  BY <1>2, NewEntry DEF NoEntry
<1>4. /\ DOMAIN store' = DOMAIN d \cup {id} /\ store'[id] = e
      /\ \A j \in DOMAIN d : store'[j] = d[j]
  <2>1. d \in Copies /\ id \notin DOMAIN d /\ store' = Put(d, id, e)
    BY <1>1, <1>2 DEF IInv, Types, getOrCreateEscrow, created
  <2>2. /\ DOMAIN Put(d, id, e) = DOMAIN d \cup {id} /\ Put(d, id, e)[id] = e
        /\ \A j \in DOMAIN d : j # id => Put(d, id, e)[j] = d[j]
    BY <1>3, <2>1, PutCopy
  <2> QED
    BY <2>1, <2>2
<1>5. UNCHANGED <<req, balance, got>>
  BY DEF getOrCreateEscrow
<1> QED
  BY <1>1, <1>3, <1>4, <1>5, SerialStore

LEMMA SerialStart ==
  ASSUME SumsAdd, IInv, Serial, NEW id \in Ids, NEW w \in Wallets, startVerification(id, w)
  PROVE  Serial' /\ OwnershipKept
<1>1. PICK d, n : d = store /\ n = Cardinality(DOMAIN issued) + 1
  OBVIOUS
<1>2. PICK S \in SUBSET Ids : d \in [S -> Entry]
  BY <1>1 DEF IInv, Types, Copies
<1>3. id \in S /\ store' = [d EXCEPT ![id] = started(d[id], n, w)]
  BY <1>1, <1>2 DEF startVerification
<1>4. PICK e \in Entry : e = d[id]
  BY <1>2, <1>3
<1>5. started(e, n, w).verified = e.verified /\ started(e, n, w).swept = e.swept
  BY DEF started, Entry
<1>6. \A j \in S : store'[j].verified = d[j].verified /\ store'[j].swept = d[j].swept
  BY <1>2, <1>3, <1>4, <1>5
<1>7. DOMAIN store' = DOMAIN store \cup {id} /\ DOMAIN store = S
  BY <1>1, <1>2, <1>3
<1>8. UNCHANGED <<req, balance, got>>
  BY DEF startVerification
<1> QED
  BY <1>1, <1>3, <1>6, <1>7, <1>8, SerialStore

-----------------------------------------------------------------------------
(* What requests do, one at a time.                                        *)

LEMMA SerialCheck ==
  ASSUME IInv, IInv', Serial, OneAtATime', NEW r \in Requests, NEW id \in Ids,
         checkVerification(r, id)
  PROVE  Serial' /\ OwnershipKept
<1>1. PICK q : q = [Idle EXCEPT !.pc = "bio", !.id = id, !.d = store]
  OBVIOUS
<1>2. q.pc = "bio" /\ q.d = store
  BY <1>1 DEF Idle
<1>3. req' = [req EXCEPT ![r] = q] /\ UNCHANGED <<store, got>>
  BY <1>1 DEF checkVerification
<1>4. \A j : Released(j)' = Released(j)
  BY <1>3 DEF Released
<1>5. SweepsWereReleased' /\ Agrees(q.d, store') /\ Covered(q)'
  BY <1>2, <1>3, <1>4 DEF Serial, SweepsWereReleased, Agrees, Covered
<1> QED
  BY <1>2, <1>3, <1>5, SerialRequest DEF OwnershipKept

LEMMA SerialOverridden ==
  ASSUME IInv, IInv', Serial, OneAtATime', NEW r \in Requests, NEW id \in Ids,
         CheckOverridden(r, id)
  PROVE  Serial' /\ OwnershipKept
<1>1. PICK d, w : d = store /\ w = store[id].pendingWallet
  OBVIOUS
<1>2. PICK saved : saved = [d EXCEPT ![id].verified = TRUE, ![id].verifiedWallet = w]
  OBVIOUS
<1>3. d \in Copies /\ id \in DOMAIN d
  BY <1>1 DEF IInv, Types, CheckOverridden
<1>4. \A j \in DOMAIN d : d[j].swept <= Released(j)
  BY <1>1 DEF Serial, SweepsWereReleased
<1>5. \A j \in DOMAIN store : store[j].verified => j \in DOMAIN d /\ d[j].verified
  BY <1>1
<1>6. store' = saved /\ SweepFrom(r, id, saved) /\ got' = got
  BY <1>1, <1>2 DEF CheckOverridden, Verify, pending
<1> QED
  BY <1>2, <1>3, <1>4, <1>5, <1>6, SerialVerify

LEMMA SerialBioFound ==
  ASSUME IInv, IInv', Serial, OneAtATime', NEW r \in Requests, BioFound(r)
  PROVE  Serial' /\ OwnershipKept
<1>1. PICK q : q = req[r]
  OBVIOUS
<1>2. /\ q \in Request /\ Sound(q, Confirmed, issued) /\ q.pc = "bio"
      /\ Agrees(q.d, store)
  BY <1>1 DEF IInv, Types, BioFound, Serial
<1>3. PICK d, id, w : d = q.d /\ id = q.id /\ w = q.d[q.id].pendingWallet
  OBVIOUS
<1>4. PICK saved : saved = [d EXCEPT ![id].verified = TRUE, ![id].verifiedWallet = w]
  OBVIOUS
<1>5. d \in Copies /\ id \in DOMAIN d
  BY <1>2, <1>3 DEF Request, Sound
<1>6. \A j \in DOMAIN d : d[j].swept <= Released(j)
  BY <1>2, <1>3 DEF Serial, SweepsWereReleased, Agrees
<1>7. \A j \in DOMAIN store : store[j].verified => j \in DOMAIN d /\ d[j].verified
  BY <1>2, <1>3 DEF Agrees
<1>8. store' = saved /\ SweepFrom(r, id, saved) /\ got' = got
  BY <1>1, <1>3, <1>4 DEF BioFound, Verify, pending
<1> QED
  BY <1>4, <1>5, <1>6, <1>7, <1>8, SerialVerify

LEMMA SerialCallback ==
  ASSUME IInv, IInv', Serial, OneAtATime', NEW r \in Requests, NEW state, NEW user,
         handleXCallback(r, state, user)
  PROVE  Serial' /\ OwnershipKept
<1>1. PICK q : q = [Idle EXCEPT !.pc = "login", !.id = state[1], !.wallet = state[2], !.user = user]
  OBVIOUS
<1>2. q.pc = "login"
  BY <1>1 DEF Idle
<1>3. req' = [req EXCEPT ![r] = q] /\ UNCHANGED <<store, got>>
  BY <1>1 DEF handleXCallback
<1>4. \A j : Released(j)' = Released(j)
  BY <1>3 DEF Released
<1>5. SweepsWereReleased' /\ Covered(q)'
  BY <1>2, <1>3, <1>4 DEF Serial, SweepsWereReleased, Covered
<1> QED
  BY <1>2, <1>3, <1>5, SerialRequest DEF OwnershipKept

(* A login changes the store as it is, perhaps after making an entry.      *)
LEMMA SerialConfirmed ==
  ASSUME SumsAdd, MaxNonces \in Nat, IInv, IInv', Serial, OneAtATime',
         NEW r \in Requests, LoginConfirmed(r)
  PROVE  Serial' /\ OwnershipKept
<1>1. PICK q, s : q = req[r] /\ s = store
  OBVIOUS
<1>2. q \in Request /\ Sound(q, Confirmed, issued) /\ q.pc = "login" /\ s \in Copies
  BY <1>1 DEF IInv, Types, LoginConfirmed
<1>3. PICK id, w, d : id = q.id /\ w = q.wallet /\ d = created(s, q.id)
  OBVIOUS
<1>4. id \in Ids
  BY <1>2, <1>3 DEF Sound
<1>5. NoEntry \in Entry /\ ~NoEntry.verified /\ NoEntry.swept = 0
  <2>1. NoEntry.swept = 0
    BY DEF NoEntry
  <2> QED
    BY <1>4, <2>1, NewEntry
<1>6. /\ d \in Copies /\ id \in DOMAIN d
      /\ \A j \in DOMAIN d : (j \in DOMAIN s /\ d[j] = s[j]) \/ d[j] = NoEntry
      /\ \A j \in DOMAIN s : j \in DOMAIN d /\ d[j] = s[j]
  <2>1. CASE id \in DOMAIN s
    BY <1>2, <1>3, <2>1 DEF created
  <2>2. CASE id \notin DOMAIN s
    <3>1. PICK e : e = NoEntry
      OBVIOUS
    <3>2. d = Put(s, id, e) /\ e \in Entry
      BY <1>3, <1>5, <2>2, <3>1 DEF created
    <3>3. /\ d \in Copies /\ DOMAIN d = DOMAIN s \cup {id} /\ d[id] = e
          /\ \A j \in DOMAIN s : j # id => d[j] = s[j]
      BY <1>2, <1>4, <3>2, PutCopy
    <3> QED
      BY <2>2, <3>1, <3>3
  <2> QED
    BY <2>1, <2>2
<1>7. ASSUME NEW j \in DOMAIN d PROVE d[j].swept <= Released(j)
  <2>1. Released(j) \in Nat
    BY <1>6, CopyFacts, ReleasedNat
  <2>2. CASE j \in DOMAIN s /\ d[j] = s[j]
    BY <1>1, <2>2 DEF Serial, SweepsWereReleased
  <2>3. CASE d[j] = NoEntry
    BY <1>5, <2>1, <2>3
  <2> QED
    BY <1>6, <2>2, <2>3
<1>8. \A j \in DOMAIN store : store[j].verified => j \in DOMAIN d /\ d[j].verified
  BY <1>1, <1>6
<1>9. PICK saved : saved = [d EXCEPT ![id].verified = TRUE, ![id].verifiedWallet = w]
  OBVIOUS
<1>10. store' = saved /\ SweepFrom(r, id, saved) /\ got' = got
  BY <1>1, <1>3, <1>9 DEF LoginConfirmed
<1>11. d \in Copies /\ id \in DOMAIN d
  BY <1>6
<1> HIDE <1>6
<1> QED
  BY <1>7, <1>8, <1>9, <1>10, <1>11, SerialVerify

LEMMA SerialBalanceRead ==
  ASSUME IInv, IInv', Serial, OneAtATime', NEW r \in Requests, BalanceRead(r)
  PROVE  Serial' /\ OwnershipKept
<1>1. UNCHANGED <<store, balance, got>> /\ req[r].pc = "balance"
  BY DEF BalanceRead
<1>2. \A j : Released(j)' = Released(j)
  BY <1>1 DEF Released
<1>3. SweepsWereReleased' /\ OwnershipKept
  BY <1>1, <1>2 DEF Serial, SweepsWereReleased, OwnershipKept
<1>4. CASE Ends(r)
  BY <1>1, <1>3, <1>4, SerialEnds DEF Serial
<1>5. CASE ~Ends(r)
  <2>1. PICK x, b : x = req[r] /\ b = balance[req[r].id]
    OBVIOUS
  <2>2. x \in Request /\ Sound(x, Confirmed, issued) /\ x.pc = "balance" /\ Agrees(x.d, store)
    BY <1>1, <2>1 DEF IInv, Types, Serial
  <2>3. b \in Nat
    BY <2>1, <2>2, CopyFacts DEF IInv, Types, Sound, Request
  <2>4. PICK q : q = [x EXCEPT !.pc = "release", !.bal = b]
    OBVIOUS
  <2>5. q.pc = "release" /\ q.d = x.d /\ q.id = x.id /\ q.bal = b
    BY <2>2, <2>4 DEF Request
  <2>6. req' = [req EXCEPT ![r] = q]
    BY <1>5, <2>1, <2>4 DEF BalanceRead, IInv, Types
  <2>7. Covered(q)' /\ Agrees(q.d, store')
    BY <1>1, <2>1, <2>2, <2>3, <2>5 DEF Covered
  <2> QED
    BY <1>3, <2>5, <2>6, <2>7, SerialRequest
<1> QED
  BY <1>4, <1>5

(* What was read of the balance is at most what is released.               *)
LEMMA SerialRelease ==
  ASSUME SumsAdd, IInv, IInv', Serial, OneAtATime', NEW r \in Requests, Release(r)
  PROVE  Serial' /\ OwnershipKept
<1>1. PICK x : x = req[r]
  OBVIOUS
<1>2. /\ x \in Request /\ Sound(x, Confirmed, issued) /\ x.pc = "release"
      /\ Agrees(x.d, store) /\ Covered(x)
  BY <1>1 DEF IInv, Types, Serial, Release
<1>3. /\ x.id \in Ids /\ x.id \in DOMAIN x.d /\ x.bal \in Nat /\ x.d[x.id].swept \in Nat
      /\ x.id \in DOMAIN store /\ store[x.id].swept = x.d[x.id].swept
  BY <1>2, CopyFacts DEF Sound, Request, Entry, Agrees
<1>4. PICK q : q = [x EXCEPT !.pc = "record"]
  OBVIOUS
<1>5. q.pc = "record" /\ q.d = x.d /\ q.id = x.id /\ q.bal = x.bal
  BY <1>2, <1>4 DEF Request
<1>6. req' = [req EXCEPT ![r] = q] /\ store' = store
  BY <1>1, <1>4 DEF Release, IInv, Types
<1>7. PICK i : i = x.id
  OBVIOUS
<1>8. /\ Released(i)' = Released(i) + balance[i]
      /\ \A id \in Ids : Released(id) <= Released(id)'
  BY <1>1, <1>2, <1>7, PaysReleases DEF Release
<1>9. Released(i) \in Nat /\ balance[i] \in Nat /\ x.bal <= balance[i]
  BY <1>2, <1>3, <1>7, ReleasedNat DEF IInv, Types, Covered
<1>10. store[i].swept <= Released(i)
  BY <1>3, <1>7 DEF Serial, SweepsWereReleased
<1>11. x.d[i].swept + x.bal <= Released(i)'
  BY <1>3, <1>7, <1>8, <1>9, <1>10
<1>12. Covered(q)' /\ Agrees(q.d, store')
  BY <1>2, <1>5, <1>6, <1>7, <1>11 DEF Covered
<1>13. SweepsWereReleased'
  <2> SUFFICES ASSUME NEW j \in DOMAIN store PROVE store[j].swept <= Released(j)'
    BY <1>6 DEF SweepsWereReleased
  <2>1. j \in Ids /\ store[j].swept \in Nat
    BY CopyFacts DEF IInv, Types, Entry
  <2>2. store[j].swept <= Released(j)
    BY DEF Serial, SweepsWereReleased
  <2>3. Released(j) \in Nat /\ Released(j)' \in Nat
    BY <2>1, ReleasedNat DEF SumsAdd, IInv, Types, Released
  <2> QED
    BY <1>8, <2>1, <2>2, <2>3
<1> QED
  BY <1>5, <1>6, <1>12, <1>13, SerialRequest DEF OwnershipKept

(* A release that fails leaves the store alone, paid or not.               *)
LEMMA SerialReleaseFails ==
  ASSUME SumsAdd, IInv, IInv', Serial, NEW r \in Requests, ReleaseFails(r)
  PROVE  Serial' /\ OwnershipKept
<1>1. store' = store /\ Ends(r) /\ req[r].pc = "release"
  BY DEF ReleaseFails, after_failure
<1>2. ASSUME NEW j \in Ids PROVE Released(j) <= Released(j)' /\ Released(j)' \in Nat
  <2>1. Released(j) \in Nat /\ Released(j)' \in Nat
    BY ReleasedNat DEF SumsAdd, IInv, Types, Released
  <2>2. CASE got' = got
    <3>1. Released(j)' = Released(j)
      BY <2>2 DEF Released
    <3> QED
      BY <2>1, <3>1
  <2>3. CASE Pays(r)
    <3>1. PICK x : x = req[r].id
      OBVIOUS
    <3> QED
      BY <1>1, <2>1, <2>3, <3>1, PaysReleases
  <2> QED
    BY <2>2, <2>3 DEF ReleaseFails
<1>3. SweepsWereReleased'
  <2> SUFFICES ASSUME NEW j \in DOMAIN store PROVE store[j].swept <= Released(j)'
    BY <1>1 DEF SweepsWereReleased
  <2>1. j \in Ids /\ store[j].swept \in Nat
    BY CopyFacts DEF IInv, Types, Entry
  <2>2. store[j].swept <= Released(j)
    BY DEF Serial, SweepsWereReleased
  <2> QED
    BY <1>2, <2>1, <2>2, ReleasedNat
<1> QED
  BY <1>1, <1>3, SerialEnds DEF Serial, OwnershipKept

(* The sweep saves its copy with what it claims.                           *)
LEMMA SerialRecord ==
  ASSUME IInv, IInv', Serial, NEW r \in Requests, Record(r)
  PROVE  Serial' /\ OwnershipKept
<1>1. PICK x, d : x = req[r] /\ d = req[r].d
  OBVIOUS
<1>2. /\ x \in Request /\ Sound(x, Confirmed, issued) /\ x.pc = "record"
      /\ Agrees(d, store) /\ Covered(x) /\ x.d = d
  BY <1>1 DEF IInv, Types, Serial, Record
<1>3. x.id \in DOMAIN d /\ d \in Copies
  BY <1>2 DEF Sound, Request
<1>4. PICK S \in SUBSET Ids : d \in [S -> Entry]
  BY <1>3 DEF Copies
<1>5. PICK e \in Entry : e = d[x.id]
  BY <1>3, <1>4
<1>6. PICK f : f = [e EXCEPT !.swept = @ + x.bal]
  OBVIOUS
<1>7. f.swept = e.swept + x.bal /\ f.verified = e.verified
  BY <1>6 DEF Entry
<1>8. store' = [d EXCEPT ![x.id] = f]
  BY <1>1, <1>3, <1>4, <1>5, <1>6 DEF Record, swept
<1>9. /\ DOMAIN store' = DOMAIN d /\ store'[x.id] = f
      /\ \A j \in DOMAIN d : j # x.id => store'[j] = d[j]
  BY <1>3, <1>4, <1>8
<1>10. \A j : Released(j)' = Released(j)
  BY DEF Record, Released
<1>11. f.swept <= Released(x.id)
  BY <1>2, <1>5, <1>7 DEF Covered
<1>12. SweepsWereReleased'
  <2> SUFFICES ASSUME NEW j \in DOMAIN d PROVE store'[j].swept <= Released(j)'
    BY <1>9 DEF SweepsWereReleased
  <2>1. CASE j = x.id
    BY <1>9, <1>10, <1>11, <2>1
  <2>2. CASE j # x.id
    BY <1>2, <1>9, <1>10, <2>2 DEF Agrees, Serial, SweepsWereReleased
  <2> QED
    BY <2>1, <2>2
<1>13. OwnershipKept
  <2> SUFFICES ASSUME NEW j \in DOMAIN store, store[j].verified
               PROVE  j \in DOMAIN store' /\ store'[j].verified
    BY DEF OwnershipKept
  <2>1. j \in DOMAIN d /\ d[j].verified
    BY <1>2 DEF Agrees
  <2> QED
    BY <1>5, <1>7, <1>9, <2>1
<1> QED
  BY <1>12, <1>13, SerialEnds DEF Record, Serial

(* One request at a time, each step keeps the sweeps on file true and the  *)
(* verified identities verified.                                           *)
LEMMA SerialStep ==
  ASSUME SumsAdd, MaxNonces \in Nat, IInv, Serial, [Next]_vars, OneAtATime'
  PROVE  IInv' /\ Serial' /\ (OwnershipKept \/ UNCHANGED vars)
<1>1. IInv'
  BY StepKeeps
<1>2. CASE UNCHANGED vars
  <2>1. UNCHANGED <<store, req, balance, got>>
    BY <1>2 DEF vars
  <2>2. \A j : Released(j)' = Released(j)
    BY <2>1 DEF Released
  <2>3. \A r \in Requests : Covered(req[r])'
    BY <2>1, <2>2 DEF Serial, Covered
  <2> QED
    BY <1>1, <1>2, <2>1, <2>2, <2>3 DEF Serial, SweepsWereReleased
<1>3. ASSUME NEW id \in Ids, Fees(id) \/ getOrCreateEscrow(id) PROVE Serial' /\ OwnershipKept
  BY <1>1, <1>3, SerialFees, SerialCreate
<1>4. ASSUME NEW id \in Ids, NEW w \in Wallets, startVerification(id, w)
      PROVE  Serial' /\ OwnershipKept
  BY <1>4, SerialStart
<1>5. ASSUME NEW n, ShowNonce(n) PROVE Serial' /\ OwnershipKept
  <2>1. UNCHANGED <<store, req, balance, got>>
    BY <1>5 DEF ShowNonce
  <2>2. \A j : Released(j)' = Released(j)
    BY <2>1 DEF Released
  <2>3. \A r \in Requests : Covered(req[r])'
    BY <2>1, <2>2 DEF Serial, Covered
  <2> QED
    BY <2>1, <2>2, <2>3 DEF Serial, SweepsWereReleased, OwnershipKept
<1>6. ASSUME NEW r \in Requests, Step(r) \/ BalanceFails(r) PROVE Serial' /\ OwnershipKept
  <2>1. CASE BioNotFound(r) \/ LoginRefused(r) \/ BalanceFails(r)
    <3>1. Ends(r) /\ req[r].pc # "idle" /\ UNCHANGED <<store, balance, got>>
      BY <2>1 DEF BioNotFound, LoginRefused, BalanceFails
    <3>2. SweepsWereReleased' /\ OwnershipKept
      BY <3>1 DEF Serial, SweepsWereReleased, Released, OwnershipKept
    <3> QED
      BY <1>1, <3>1, <3>2, SerialEnds DEF Serial
  <2>2. CASE BioFound(r) \/ LoginConfirmed(r)
    BY <1>1, <2>2, SerialBioFound, SerialConfirmed
  <2>3. CASE BalanceRead(r) \/ Release(r)
    BY <1>1, <2>3, SerialBalanceRead, SerialRelease
  <2>4. CASE ReleaseFails(r) \/ Record(r)
    BY <1>1, <2>4, SerialReleaseFails, SerialRecord
  <2> QED
    BY <1>6, <2>1, <2>2, <2>3, <2>4 DEF Step
<1>7. ASSUME NEW r \in Requests, NEW id \in Ids,
             checkVerification(r, id) \/ CheckOverridden(r, id)
      PROVE  Serial' /\ OwnershipKept
  BY <1>1, <1>7, SerialCheck, SerialOverridden
<1>8. ASSUME NEW r \in Requests, NEW state, NEW user, handleXCallback(r, state, user)
      PROVE  Serial' /\ OwnershipKept
  BY <1>1, <1>8, SerialCallback
<1> QED
  BY <1>1, <1>2, <1>3, <1>4, <1>5, <1>6, <1>7, <1>8 DEF Next

(* The invariant holds at first. *)
LEMMA SerialFirst ==
  ASSUME Init
  PROVE  Serial
  BY DEF Init, Serial, OneAtATime, SweepsWereReleased, Covered, Idle

(* Sweeps on file never claim more than was released, and a verified       *)
(* identity stays verified, as long as requests of escrow.ts do not        *)
(* overlap: however fees arrive, nonces are handed out and calls fail.     *)
THEOREM SerialEscrows ==
  ASSUME SumsAdd, MaxNonces \in Nat
  PROVE  Init /\ [][Next /\ OneAtATime']_vars => []SweepsWereReleased /\ [][OwnershipKept]_vars
<1>1. Init => IInv /\ Serial
  BY AtFirst, SerialFirst
<1>2. IInv /\ Serial /\ [Next /\ OneAtATime']_vars
        => (IInv /\ Serial)' /\ [OwnershipKept]_vars
  <2> SUFFICES ASSUME IInv, Serial, [Next /\ OneAtATime']_vars
               PROVE  IInv' /\ Serial' /\ (OwnershipKept \/ UNCHANGED vars)
    OBVIOUS
  <2>1. OneAtATime'
    BY DEF Serial, OneAtATime, vars
  <2> QED
    BY <2>1, SerialStep
<1>3. Serial => SweepsWereReleased
  BY DEF Serial
<1> QED
  BY <1>1, <1>2, <1>3, PTL
=============================================================================
