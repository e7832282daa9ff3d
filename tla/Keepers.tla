------------------------------ MODULE Keepers ------------------------------
(***************************************************************************)
(* The indexer's keepers of src/indexer/src/index.ts: autoGraduate, run by *)
(* a timer and nudged by trades, and sweepFees, run by a timer. Runs of    *)
(* either may overlap: they await RPC calls and have no guard against each *)
(* other but the set "graduating". Both act on account states they read    *)
(* before. The program's side is what its instructions require: graduate   *)
(* needs a bootstrap market at its target that is not frozen and has had   *)
(* an index pushed, withdraw_fees enough fees.                             *)
(***************************************************************************)
EXTENDS Integers, FiniteSets, Sequences

CONSTANTS Markets,        \* sequence order of market.all() and of the listings
          Grads, Sweeps,  \* runs of autoGraduate and of sweepFees that may overlap
          Threshold,      \* fees worth sweeping (20_000_000 lamports)
          FeeSteps,       \* bound: fees a market earns in one go
          MaxFees,        \* bound: fees a market earns in all
          MaxTrades,      \* bound: crossings of the target and freezes
          Faults          \* bound: RPC calls that fail

ASSUME KeepersAssumption ==
  /\ IsFiniteSet(Markets) /\ Markets \subseteq Int /\ IsFiniteSet(Sweeps)
  /\ FeeSteps \subseteq Nat /\ Faults \in Nat

VARIABLES status, ready,  \* market accounts: lifecycle, and target reached
          frozen, indexed, \* ... the flag, and whether index_twap > 0
          fees,           \* market accounts: fee_lamports
          earned, paid,   \* fees earned, and paid to [treasury, creator]
          graduating,     \* the set of that name
          grad,           \* grad[r]: [pc, todo, markets seen ready]
          sweep,          \* sweep[r]: [pc, todo, fees read]
          crossings, callFaults

flags == <<frozen, indexed>>
keeperVars == <<status, ready, flags, fees, earned, paid, graduating, grad, sweep, crossings, callFaults>>
program == <<status, ready, flags, fees, earned, paid>>

Resting == [pc |-> "idle", todo |-> {}, snap |-> {}]
KeeperInit ==
  /\ status = [m \in Markets |-> "bootstrap"] /\ ready = {}
  /\ frozen = {} /\ indexed = {}
  /\ fees = [m \in Markets |-> 0] /\ earned = [m \in Markets |-> 0]
  /\ paid = [m \in Markets |-> [treasury |-> 0, creator |-> 0, swept |-> 0]]
  /\ graduating = {}
  /\ grad = [r \in Grads |-> Resting]
  /\ sweep = [r \in Sweeps |-> [pc |-> "idle", todo |-> {}, read |-> 0]]
  /\ crossings = MaxTrades /\ callFaults = Faults

CallFails == callFaults > 0 /\ callFaults' = callFaults - 1

-----------------------------------------------------------------------------
(* The market: trades earn fees and move a curve across its target, the    *)
(* relayer pushes the first index, the admin or the breaker freezes.       *)

Trade(m) ==
  /\ status[m] = "bootstrap" /\ m \notin frozen /\ crossings > 0
  /\ crossings' = crossings - 1
  /\ ready' = IF m \in ready THEN ready \ {m} ELSE ready \cup {m}
  /\ UNCHANGED <<status, flags, fees, earned, paid, graduating, grad, sweep, callFaults>>

FirstPush(m) ==
  /\ m \notin frozen /\ m \notin indexed
  /\ indexed' = indexed \cup {m}
  /\ UNCHANGED <<status, ready, frozen, fees, earned, paid, graduating, grad, sweep, crossings, callFaults>>

SetFrozen(m) ==
  /\ crossings > 0 /\ crossings' = crossings - 1
  /\ frozen' = IF m \in frozen THEN frozen \ {m} ELSE frozen \cup {m}
  /\ UNCHANGED <<status, ready, indexed, fees, earned, paid, graduating, grad, sweep, callFaults>>

Earn(m) ==
  \E f \in FeeSteps :
    /\ earned[m] + f <= MaxFees
    /\ fees' = [fees EXCEPT ![m] = @ + f]
    /\ earned' = [earned EXCEPT ![m] = @ + f]
    /\ UNCHANGED <<status, ready, flags, paid, graduating, grad, sweep, crossings, callFaults>>

-----------------------------------------------------------------------------
(* autoGraduate *)

NextOf(todo) == CHOOSE m \in todo : \A k \in todo : m <= k

(* The run reads all market accounts. *)
ReadMarkets(r) ==
  /\ grad[r].pc = "idle"
  /\ grad' = [grad EXCEPT ![r] = [pc |-> "scan", todo |-> Markets,
       snap |-> {m \in ready : status[m] = "bootstrap"}]]
  /\ UNCHANGED <<program, graduating, sweep, crossings, callFaults>>

free_always(m) == TRUE
free(m) == m \notin graduating
due(r, m) == m \in grad[r].snap /\ free(m)

(* A market that is not due, as read, is passed over. *)
Pass(r) ==
  /\ grad[r].pc = "scan" /\ grad[r].todo # {} /\ ~due(r, NextOf(grad[r].todo))
  /\ grad' = [grad EXCEPT ![r].todo = @ \ {NextOf(@)}]
  /\ UNCHANGED <<program, graduating, sweep, crossings, callFaults>>

Claim(r) ==
  /\ grad[r].pc = "scan" /\ grad[r].todo # {} /\ due(r, NextOf(grad[r].todo))
  /\ graduating' = graduating \cup {NextOf(grad[r].todo)}
  /\ grad' = [grad EXCEPT ![r].pc = "sent"]
  /\ UNCHANGED <<program, sweep, crossings, callFaults>>

release_none(m) == graduating
release(m) == graduating \ {m}

Answered(r) ==
  LET m == NextOf(grad[r].todo) IN
  /\ graduating' = release(m)
  /\ grad' = [grad EXCEPT ![r].pc = "scan", ![r].todo = @ \ {m}]

CanGraduate(m) == m \in ready /\ m \notin frozen /\ m \in indexed

(* The program graduates the market, or rejects the request. *)
Graduate(r) ==
  /\ grad[r].pc = "sent"
  /\ LET m == NextOf(grad[r].todo)
     IN  status' = IF CanGraduate(m) THEN [status EXCEPT ![m] = "live"] ELSE status
  /\ Answered(r)
  /\ UNCHANGED <<ready, flags, fees, earned, paid, sweep, crossings, callFaults>>

GraduateFails(r) ==
  /\ grad[r].pc = "sent" /\ CallFails
  /\ Answered(r)
  /\ UNCHANGED <<program, sweep, crossings>>

GradEnds(r) ==
  /\ grad[r].pc = "scan" /\ grad[r].todo = {}
  /\ grad' = [grad EXCEPT ![r] = Resting]
  /\ UNCHANGED <<program, graduating, sweep, crossings, callFaults>>

-----------------------------------------------------------------------------
(* sweepFees *)

SweepStarts(r) ==
  /\ sweep[r].pc = "idle"
  /\ sweep' = [sweep EXCEPT ![r] = [pc |-> "fetch", todo |-> Markets, read |-> 0]]
  /\ UNCHANGED <<program, graduating, grad, crossings, callFaults>>

(* The run leaves a market and goes on with the next, if any. *)
Leave(r) ==
  LET rest == sweep[r].todo \ {NextOf(sweep[r].todo)}
  IN  sweep' = [sweep EXCEPT ![r] =
        [pc |-> IF rest = {} THEN "idle" ELSE "fetch", todo |-> rest, read |-> 0]]

worth_above(f) == f > Threshold
worth(f) == f >= Threshold

FetchFees(r) ==
  LET m == NextOf(sweep[r].todo) IN
  /\ sweep[r].pc = "fetch"
  /\ IF worth(fees[m])
     THEN sweep' = [sweep EXCEPT ![r].pc = "treasury", ![r].read = fees[m]]
     ELSE Leave(r)
  /\ UNCHANGED <<program, graduating, grad, crossings, callFaults>>

half_up(f) == (f + 1) \div 2
half(f) == f \div 2
creator_share_all(f) == f
creator_share(f) == f - half(f)
Share(r) == IF sweep[r].pc = "treasury" THEN half(sweep[r].read) ELSE creator_share(sweep[r].read)

(* withdraw_fees: the program pays what the market still has, or rejects.  *)
Affordable(r) == Share(r) <= fees[NextOf(sweep[r].todo)]
Withdraw(r) ==
  LET m == NextOf(sweep[r].todo) IN
  /\ Affordable(r)
  /\ fees' = [fees EXCEPT ![m] = @ - Share(r)]
  /\ paid' = IF sweep[r].pc = "treasury" THEN [paid EXCEPT ![m].treasury = @ + Share(r)]
             ELSE [paid EXCEPT ![m].creator = @ + Share(r), ![m].swept = @ + 1]

Sending(r) == sweep[r].pc \in {"treasury", "creator"}

(* First the treasury, then the creator. *)
Pay(r) ==
  /\ Sending(r) /\ Withdraw(r)
  /\ IF sweep[r].pc = "treasury" THEN sweep' = [sweep EXCEPT ![r].pc = "creator"] ELSE Leave(r)
  /\ UNCHANGED <<status, ready, flags, earned, graduating, grad, crossings, callFaults>>

(* Another run has taken the fees this one read. *)
Rejected(r) ==
  /\ Sending(r) /\ ~Affordable(r)
  /\ Leave(r)
  /\ UNCHANGED <<program, graduating, grad, crossings, callFaults>>

(* A call fails, before its transaction landed or while confirming it: the *)
(* run leaves the market as it is.                                         *)
TransferFails(r) ==
  /\ Sending(r) /\ CallFails
  /\ Withdraw(r) \/ UNCHANGED <<fees, paid>>
  /\ Leave(r)
  /\ UNCHANGED <<status, ready, flags, earned, graduating, grad, crossings>>

-----------------------------------------------------------------------------
GradStep(r) == ReadMarkets(r) \/ Pass(r) \/ Claim(r) \/ Graduate(r) \/ GradEnds(r)
SweepStep(r) == SweepStarts(r) \/ FetchFees(r) \/ Pay(r) \/ Rejected(r)

KeeperNext ==
  \/ \E m \in Markets : Trade(m) \/ FirstPush(m) \/ SetFrozen(m) \/ Earn(m)
  \/ \E r \in Grads : GradStep(r) \/ GraduateFails(r)
  \/ \E r \in Sweeps : SweepStep(r) \/ TransferFails(r)

KeeperSpec == KeeperInit /\ [][KeeperNext]_keeperVars

(* Timers fire again and again, and every RPC call ends. *)
KeeperFairSpec ==
  /\ KeeperSpec
  /\ \A r \in Grads : WF_keeperVars(GradStep(r))
  /\ \A r \in Sweeps : WF_keeperVars(SweepStep(r))

-----------------------------------------------------------------------------
(* Properties. *)

(* Overlapping runs never have two graduations of one market under way     *)
(* (the set "graduating").                                                 *)
OneGraduationAtATime ==
  \A q, r \in Grads : q # r /\ grad[q].pc = "sent" /\ grad[r].pc = "sent" =>
    NextOf(grad[q].todo) # NextOf(grad[r].todo)

(* "When a curve reaches its graduation target the market migrates to the  *)
(* AMM automatically": it does once it has an index and is not frozen, or  *)
(* falls below its target or is frozen again, although runs act on old     *)
(* account states, overlap, are rejected, and their calls may fail.        *)
TargetReachedGraduates ==
  \A m \in Markets : CanGraduate(m) ~> (status[m] = "live" \/ ~CanGraduate(m))

(* Fees above the threshold do not stay: they are paid out, or at least    *)
(* halved until they fall below it, across failed transfers.               *)
FeesGetSwept == \A m \in Markets : (fees[m] >= Threshold) ~> (fees[m] < Threshold)

(* Overlapping runs and failed transfers never put the creator ahead of    *)
(* the treasury by more than the odd lamports of the creator's sweeps.     *)
CreatorNeverAhead == \A m \in Markets : paid[m].creator <= paid[m].treasury + paid[m].swept

(* However runs of sweepFees overlap and transfers fail, the creator never *)
(* gets more than the treasury but for odd lamports; and two graduations   *)
(* of one market are never under way at once.                              *)
FeesAndGraduationsKept == OneGraduationAtATime /\ CreatorNeverAhead

(* Until a transfer fails, runs that do not overlap pay both sides alike:  *)
(* the creator gets the odd lamport of a sweep, no more.                   *)
EvenSplit ==
  callFaults = Faults =>
    \A m \in Markets :
      (\A r \in Sweeps : sweep[r].pc # "creator") =>
        paid[m].creator - paid[m].treasury \in 0..paid[m].swept

(* sweepFees is to pay "half to the protocol treasury and half to the      *)
(* wallet that launched the market": what is paid is split evenly.         *)
HalfEach ==
  \A m \in Markets :
    (\A r \in Sweeps : sweep[r].pc # "creator") =>
      paid[m].treasury <= paid[m].creator
=============================================================================
