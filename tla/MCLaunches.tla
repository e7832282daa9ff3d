---------------------------- MODULE MCLaunches -----------------------------
(***************************************************************************)
(* Launches and escrows side by side for TLC: the launch of markets on a   *)
(* remote chain (Launch, extended), the same one request at a time, and on *)
(* a local validator where the bundled DBC markets are launched too; and   *)
(* the escrowed fees of identities (Escrow), in the same two ways. The two *)
(* modules share no state, and "part" names the one that moves and how.    *)
(***************************************************************************)
EXTENDS Launch, TLC

CONSTANT Wallets

ASSUME WalletsAssumption == IsFiniteSet(Wallets)

VARIABLES part, store, escrowReq, bio, issued, balance, got, proven, logins, escrowFaults

escrowVars == <<store, escrowReq, bio, issued, balance, got, proven, logins, escrowFaults>>

Perms == Permutations(Users) \cup Permutations(Requests) \cup Permutations(Wallets)

(* On a local validator no fee is due; DBC launches, and two faults.       *)
OnLocal == INSTANCE Launch
  WITH Venues <- {"internal", "meteora"}, Readiness <- BOOLEAN, Local <- TRUE,
       MaxPayments <- 0, Faults <- 2

(* An identity proven by a bio and one by an X login.                      *)
Escrows == INSTANCE Escrow
  WITH BioIds <- {"yt"}, XIds <- {"x"}, NoWallet <- NoUser, Local <- FALSE,
       MaxNonces <- 2, MaxLogins <- 1, MaxFees <- 1, Faults <- 1,
       req <- escrowReq, faults <- escrowFaults

(* On a local validator the admin may override a verification.             *)
LocalEscrows == INSTANCE Escrow
  WITH BioIds <- {"yt"}, XIds <- {"x"}, NoWallet <- NoUser, Local <- TRUE,
       MaxNonces <- 1, MaxLogins <- 2, MaxFees <- 3, Faults <- 1,
       req <- escrowReq, faults <- escrowFaults

LaunchesInit ==
  \/ part \in {"chain", "serial"} /\ Init /\ Escrows!Init
  \/ part = "local" /\ OnLocal!Init /\ Escrows!Init
  \/ /\ Init /\ listings = << >>
     /\ \/ part = "escrow" /\ Escrows!Init
        \/ part = "serial_escrow" /\ LocalEscrows!Init

Alone(requests) == \A q, r \in Requests : q = r \/ "idle" \in {requests[q].pc, requests[r].pc}

(* Bound: several payments, or a launch on Meteora, but not both.          *)
Bounded(requests, ms, ps) ==
  \/ Len(ps) <= 1
  \/ /\ \A r \in Requests : requests[r].venue # "meteora"
     /\ \A k \in DOMAIN ms : ms[k].venue # "meteora"

(* Bound, where launches overlap: one launch on Meteora at a time, and no  *)
(* other after its market is there.                                        *)
OneMeteora(requests, ms) ==
  Cardinality({k \in DOMAIN ms : ms[k].venue = "meteora"})
  + Cardinality({r \in Requests : requests[r].pc \in {"price", "pool", "attach"}
                                  /\ requests[r].venue = "meteora"}) <= 1

LaunchesNext ==
  /\ UNCHANGED part
  /\ \/ /\ \/ /\ part = "chain" /\ Next
              /\ Bounded(req', markets', payments') /\ OneMeteora(req', markets')
           \/ part = "serial" /\ Next /\ Bounded(req', markets', payments') /\ Alone(req')
           \/ part = "local" /\ OnLocal!Next
        /\ UNCHANGED escrowVars
     \/ /\ \/ part = "escrow" /\ Escrows!Next
           \/ part = "serial_escrow" /\ LocalEscrows!Next /\ Alone(escrowReq')
        /\ UNCHANGED vars

LaunchesSpec == LaunchesInit /\ [][LaunchesNext]_<<part, vars, escrowVars>>

-----------------------------------------------------------------------------
(* The properties of the parts; each holds trivially of a part at rest. *)

(* On a remote chain every market of the internal curve was paid for by    *)
(* its launcher; with a payment no market listed before it used, if        *)
(* launches come one at a time, and none at all, if none of them failed.   *)
PaymentsHold ==
  /\ part # "local" => MarketsArePaid
  /\ part = "serial" => ListingsPaidOnce
  /\ part = "serial" /\ faults = Faults => MarketsPaidOnce

(* Escrowed fees only go to wallets the identity's owner confirmed.        *)
PaidToProven == part = "escrow" => Escrows!PaidToProven

(* The escrow store is well-formed.                                        *)
EscrowTypeOK == IF part = "serial_escrow" THEN LocalEscrows!TypeOK ELSE Escrows!TypeOK

(* The store stays well-formed; requests one at a time keep a verified     *)
(* identity verified, and their sweeps on file claim no more than was      *)
(* released.                                                               *)
SerialEscrowTrue ==
  /\ []EscrowTypeOK
  /\ [](part = "serial_escrow" => LocalEscrows!SweepsWereReleased)
  /\ [][part = "serial_escrow" => LocalEscrows!OwnershipKept]_escrowVars
=============================================================================
